---------------------------- MODULE MCRegistry ----------------------------
(* Small instances of Registry for TLC. *)
EXTENDS Registry, TLC

CONSTANTS small, capital

MCUpper == [v \in Values |-> IF v = small THEN capital ELSE v]

Symmetry == Permutations(Patrons) \cup Permutations(Blocks) \cup Permutations(Rows)
              \cup Permutations(Requests)

\* Patrons and the other tables share no column and no session: the steps of one part
\* are explored while the other is empty.
NoPatronYet == \A p \in Patrons : ~Registered(p) /\ Fresh(p, "on")
NoCodeYet   == \A t \in Tables, i \in Rows : codes[t][i] = None /\ Fresh(<<t, i>>, "slot")

\* Blocks of one patron do not touch another patron: with a block, one is enough.
Present(p) == Registered(p) \/ ~Fresh(p, "on")
OneWithBlocks ==
  \/ \A b \in Blocks : block[b] = NoBlock /\ Fresh(b, "blockId")
  \/ \A p, q \in Patrons : Present(p) /\ Present(q) => p = q
MCNext ==
  \/ \E r \in Requests :
       \/ NoCodeYet /\ (PatronStep(r) \/ StandingStep(r)) /\ OneWithBlocks'
       \/ NoPatronYet /\ CodeStep(r)
       \/ Rollback(r)
  \/ \E b \in Blocks : TimePasses(b)
MCSpec == Init /\ [][MCNext]_vars

=============================================================================
