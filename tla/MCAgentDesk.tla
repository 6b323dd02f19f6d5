---------------------------- MODULE MCAgentDesk ----------------------------
(***************************************************************************)
(* Two patrons, two copies and the texts of a desk for TLC.                *)
(***************************************************************************)
EXTENDS AgentDesk, TLC

CONSTANTS p1, p2

MCSymmetry == Permutations(Holdings) \cup Permutations(LoanIds) \cup Permutations(Keys)
                \cup Permutations(Requests)

\* The texts of a run that treats both patrons alike.
MCSymmetryOfBoth == MCSymmetry \cup Permutations(Patrons)
MCOwnNames == [p \in Patrons |-> {p}]

\* The name of p1 is part of the name of p2.
MCNamesakes == (p1 :> {p1, p2}) @@ (p2 :> {p2})

Bare(classes) == [class: classes, who: {{}}, what: {{}}, deliver: {FALSE}]
Of(classes, P) == [class: classes, who: P, what: {{}}, deliver: {FALSE}]
About(classes, H) == [class: classes, who: {{}}, what: H, deliver: {FALSE}]
OneCopy == {{h} : h \in Holdings}

\* Issues and returns by key, title and barcode at the desk of p1.
DeskSaid ==
  Of({"key"}, {{p1}}) \cup About({"find", "returnTitle"}, {Holdings})
    \cup About({"barcode", "returnBarcode"}, OneCopy) \cup Bare({"proceed", "returnBook", "completeReturn"})

\* Issues named in one message, for delivery, to a patron or to a name that two
\* share, and what follows them.
ToDeliver(P) == [class: {"issueTitleTo"}, who: P, what: {Holdings}, deliver: {TRUE}]
DeliverySaid ==
  ToDeliver({{p1}, {p2}, {p1, p2}}) \cup Bare({"status", "cancelIssue", "pickup"})

CancelSaid == ToDeliver({{p1}, {p2}}) \cup Bare({"cancelIssue"})
=============================================================================
