----------------------------- MODULE LoanLedger -----------------------------
(***************************************************************************)
(* What circulation promises to its clients, without sessions, locks or    *)
(* stored responses: a ledger that says who has each holding.  A holding   *)
(* is issued only when nobody has it, an Idempotency-Key issues a holding  *)
(* at most once, and a return gives the holding back.                      *)
(***************************************************************************)
CONSTANTS Holdings, Patrons, Keys

VARIABLES
  borrowers,  \* the patrons with an open loan of each holding
  issued      \* the <<holding, key>> pairs that have issued a loan

vars == <<borrowers, issued>>

Init == borrowers = [h \in Holdings |-> {}] /\ issued = {}

Issue(h, p, k) ==
  /\ borrowers[h] = {}
  /\ <<h, k>> \notin issued
  /\ borrowers' = [borrowers EXCEPT ![h] = {p}]
  /\ issued' = issued \cup {<<h, k>>}

Return(h) ==
  /\ borrowers[h] # {}
  /\ borrowers' = [borrowers EXCEPT ![h] = {}]
  /\ UNCHANGED issued

Next ==
  \E h \in Holdings : Return(h) \/ \E p \in Patrons, k \in Keys : Issue(h, p, k)

Spec == Init /\ [][Next]_vars

=============================================================================
