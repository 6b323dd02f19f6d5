--------------------------- MODULE MCCirculation ---------------------------
(* Small instances of Circulation for TLC. *)
EXTENDS Circulation, TLC

\* Every holding is a copy of the one title, and every copy may circulate.
OneCatalog == [h \in Holdings |-> CHOOSE c \in Catalogs : TRUE]
AllHoldings == Holdings

Symmetry == Permutations(Sessions) \cup Permutations(LoanIds) \cup Permutations(Keys)
              \cup Permutations(Patrons) \cup Permutations(Holdings)

\* Requests only, and the publication without which nothing is lent.
DeskNext == (\E s \in Sessions : SessionStep(s)) \/ (\E c \in Catalogs : PublishCatalog(c))
DeskSpec == Init /\ [][DeskNext]_vars

\* Requests while patrons are suspended and exit.
SuspendNext == DeskNext \/ \E p \in Patrons : SuspendPatron(p) \/ ExitPatron(p)
SuspendSpec == Init /\ [][SuspendNext]_vars

\* Checkouts, returns by loan and changes of policy, blocks and titles: enough to stack
\* loans on one patron.
IssueNext ==
  \/ \E s \in Sessions :
       \/ \E p \in Patrons, h \in Holdings, k \in Keys : PostCheckout(s, p, h, k)
       \/ \E l \in LoanIds, k \in Keys : PostReturn(s, None, l, k)
       \/ LockingStep(s) \/ FreeStep(s)
  \/ \E t \in PatronTypes, n \in Limits : UpdateLoanRuleSet(t, n)
  \/ \E p \in Patrons, t \in PatronTypes : UpdatePatronType(p, t)
  \/ \E p \in Patrons, b \in BOOLEAN : SetPatronBlock(p, b)
  \/ \E c \in Catalogs : PublishCatalog(c) \/ SuppressCatalog(c)
IssueSpec == Init /\ [][IssueNext]_vars

=============================================================================
