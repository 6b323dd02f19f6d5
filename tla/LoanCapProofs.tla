---------------------------- MODULE LoanCapProofs ----------------------------
(***************************************************************************)
(* How far checkouts that count a patron's open loans before they take a   *)
(* lock can exceed max_active_loans, in Circulation, for any limits and    *)
(* any number of sessions.                                                 *)
(***************************************************************************)
EXTENDS CirculationProofs

USE LimitsAssumption, FiniteAssumption, NoneAssumption

\* The checkouts of a patron that have read a count below the largest limit, and may
\* still write a loan.
MayStillIssue(p) ==
  {s \in Sessions :
     /\ req[s].op = "checkout" /\ req[s].patron = p
     /\ pc[s] \in {"lock_holding", "resolve_policy", "commit_checkout"}
     /\ local[s].count < MaxLimit}

\* Each of them has one loan of the bound in reserve.
CapInv ==
  /\ \A p \in Patrons :
       Cardinality(OpenLoansOf(p)) + Cardinality(MayStillIssue(p))
         <= MaxLimit - 1 + Cardinality(Sessions)
  /\ \A s \in Sessions : pc[s] = "commit_checkout" => local[s].count < MaxLimit

\* The sets counted are finite, in the state before a step and in the one after it.
LEMMA Counts ==
  ASSUME NEW p \in Patrons
  PROVE  /\ IsFiniteSet(OpenLoansOf(p)) /\ Cardinality(OpenLoansOf(p)) \in Nat
         /\ IsFiniteSet(MayStillIssue(p)) /\ Cardinality(MayStillIssue(p)) \in Nat
         /\ Cardinality(MayStillIssue(p)) <= Cardinality(Sessions)
         /\ Cardinality(Sessions) \in Nat
<1>1. OpenLoansOf(p) \subseteq LoanIds /\ MayStillIssue(p) \subseteq Sessions
  BY DEF OpenLoansOf, MayStillIssue
<1> QED BY <1>1, FS_Subset, FS_CardinalityType

LEMMA CountsAfter ==
  ASSUME NEW p \in Patrons
  PROVE  /\ IsFiniteSet(OpenLoansOf(p)') /\ Cardinality(OpenLoansOf(p)') \in Nat
         /\ IsFiniteSet(MayStillIssue(p)') /\ Cardinality(MayStillIssue(p)') \in Nat
         /\ Cardinality(MayStillIssue(p)') <= Cardinality(Sessions)
<1>1. OpenLoansOf(p)' \subseteq LoanIds /\ MayStillIssue(p)' \subseteq Sessions
  BY DEF OpenLoansOf, MayStillIssue
<1> QED BY <1>1, FS_Subset, FS_CardinalityType

\* A step that opens no loan and brings no checkout past its count.
LEMMA ShrinkingStep ==
  ASSUME CapInv, NEW p \in Patrons,
         OpenLoansOf(p)' \subseteq OpenLoansOf(p),
         MayStillIssue(p)' \subseteq MayStillIssue(p)
  PROVE  Cardinality(OpenLoansOf(p)') + Cardinality(MayStillIssue(p)')
           <= MaxLimit - 1 + Cardinality(Sessions)
<1>1. /\ Cardinality(OpenLoansOf(p)') <= Cardinality(OpenLoansOf(p))
      /\ Cardinality(MayStillIssue(p)') <= Cardinality(MayStillIssue(p))
  BY Counts, FS_Subset
<1>2. Cardinality(OpenLoansOf(p)) + Cardinality(MayStillIssue(p))
        <= MaxLimit - 1 + Cardinality(Sessions)
  BY DEF CapInv
<1> QED BY <1>1, <1>2, Counts, CountsAfter

\* What a session step leaves of the other sessions, and the loans, when it does not
\* write: the step of s alone decides whether s may still issue.
LEMMA QuietStep ==
  ASSUME TypeInv, CapInv, NEW s \in Sessions,
         \A p \in Patrons : OpenLoansOf(p)' \subseteq OpenLoansOf(p),
         \A t \in Sessions \ {s} : pc'[t] = pc[t] /\ req'[t] = req[t] /\ local'[t] = local[t],
         \/ pc'[s] \notin {"lock_holding", "resolve_policy", "commit_checkout"}
         \/ req'[s].op # "checkout" /\ pc'[s] # "commit_checkout"
         \/ /\ pc[s] \in {"lock_holding", "resolve_policy"} /\ pc'[s] # "commit_checkout"
            /\ req'[s] = req[s] /\ local'[s] = local[s]
  PROVE  CapInv'
<1>1. ASSUME NEW p \in Patrons
      PROVE  Cardinality(OpenLoansOf(p)') + Cardinality(MayStillIssue(p)')
               <= MaxLimit - 1 + Cardinality(Sessions)
  <2>1. MayStillIssue(p)' \subseteq MayStillIssue(p) BY DEF MayStillIssue
  <2> QED BY <2>1, ShrinkingStep
<1>2. ASSUME NEW t \in Sessions, pc'[t] = "commit_checkout"
      PROVE  local'[t].count < MaxLimit
  BY <1>2 DEF CapInv
<1> QED BY <1>1, <1>2 DEF CapInv

LEMMA CountStep ==
  ASSUME TypeInv, CapInv, NEW s \in Sessions, CountOpenLoans(s)
  PROVE  CapInv'
<1>1. /\ req[s].patron \in Patrons /\ loans' = loans /\ req' = req
      /\ pc' = [pc EXCEPT ![s] = "lock_holding"]
      /\ local' = [local EXCEPT ![s].count = Cardinality(OpenLoansOf(req[s].patron))]
  BY DEF CountOpenLoans, Goto, tables, TypeInv, RequestsWellFormed, RequestWellFormed
<1>2. /\ local'[s].count = Cardinality(OpenLoansOf(req[s].patron))
      /\ \A t \in Sessions \ {s} : local'[t] = local[t] /\ pc'[t] = pc[t]
      /\ pc'[s] = "lock_holding"
  BY <1>1 DEF TypeInv, TypeOK, SessionsTypeOK, Local
<1>3. ASSUME NEW p \in Patrons
      PROVE  Cardinality(OpenLoansOf(p)') + Cardinality(MayStillIssue(p)')
               <= MaxLimit - 1 + Cardinality(Sessions)
  <2>1. OpenLoansOf(p)' = OpenLoansOf(p) BY <1>1 DEF OpenLoansOf
  <2>2. CASE s \notin MayStillIssue(p)'
    <3>1. MayStillIssue(p)' \subseteq MayStillIssue(p) BY <1>1, <1>2, <2>2 DEF MayStillIssue
    <3> QED BY <2>1, <3>1, ShrinkingStep
  <2>3. CASE s \in MayStillIssue(p)'
    <3>1. Cardinality(OpenLoansOf(p)) < MaxLimit BY <1>1, <1>2, <2>3 DEF MayStillIssue
    <3>2. Cardinality(OpenLoansOf(p)') = Cardinality(OpenLoansOf(p)) BY <2>1
    <3> QED BY <3>1, <3>2, Counts, CountsAfter
  <2> QED BY <2>2, <2>3
<1>4. ASSUME NEW t \in Sessions, pc'[t] = "commit_checkout" PROVE local'[t].count < MaxLimit
  BY <1>2, <1>4 DEF CapInv
<1> QED BY <1>3, <1>4 DEF CapInv

\* The count read is below the limit of some rule set, hence below the largest.
LEMMA ResolveStep ==
  ASSUME TypeInv, CapInv, NEW s \in Sessions, ResolvePolicy(s)
  PROVE  CapInv'
<1>1. /\ pc[s] = "resolve_policy" /\ pc' = [pc EXCEPT ![s] = "commit_checkout"]
      /\ loans' = loans /\ req' = req /\ local' = local
      /\ limit[local[s].ptype] # None /\ local[s].count < limit[local[s].ptype]
  BY DEF ResolvePolicy, WithinLimit, Goto, tables
<1>2. local[s].count < MaxLimit
  <2>1. local[s].ptype \in PatronTypes
    BY <1>1 DEF TypeInv, RequestsWellFormed, RequestWellFormed
  <2>2. limit[local[s].ptype] \in 0..MaxLimit
    BY <1>1, <2>1 DEF TypeInv, TypeOK, TablesTypeOK
  <2>3. local[s].count \in Nat BY DEF TypeInv, TypeOK, SessionsTypeOK, Local
  <2> QED BY <1>1, <2>2, <2>3
<1>3. ASSUME NEW p \in Patrons
      PROVE  Cardinality(OpenLoansOf(p)') + Cardinality(MayStillIssue(p)')
               <= MaxLimit - 1 + Cardinality(Sessions)
  <2>1. OpenLoansOf(p)' \subseteq OpenLoansOf(p) BY <1>1 DEF OpenLoansOf
  <2>2. MayStillIssue(p)' \subseteq MayStillIssue(p)
    BY <1>1 DEF MayStillIssue, TypeInv, TypeOK, SessionsTypeOK
  <2> QED BY <2>1, <2>2, ShrinkingStep
<1>4. ASSUME NEW t \in Sessions, pc'[t] = "commit_checkout" PROVE local'[t].count < MaxLimit
  BY <1>1, <1>2, <1>4 DEF CapInv, TypeInv, TypeOK, SessionsTypeOK
<1> QED BY <1>3, <1>4 DEF CapInv

\* The loan that is opened takes the reserve of its session.
LEMMA IssueStep ==
  ASSUME TypeInv, CapInv, NEW s \in Sessions, CommitCheckout(s)
  PROVE  CapInv'
<1>0. pc[s] = "commit_checkout" /\ req[s].op = "checkout"
  BY DEF CommitCheckout, TypeInv, RequestsWellFormed, RequestWellFormed
<1>1. PICK l \in LoanIds :
        /\ loans' = [loans EXCEPT ![l] = [state |-> "open", patron |-> req[s].patron,
                                          holding |-> req[s].holding]]
        /\ Answer(s, 201, l)
  BY DEF CommitCheckout, Unused
<1>2. /\ pc'[s] = "done" /\ req' = req
      /\ \A t \in Sessions \ {s} : pc'[t] = pc[t] /\ local'[t] = local[t]
  BY <1>1 DEF Answer, Goto, TypeInv, TypeOK, SessionsTypeOK
<1>3. /\ loans'[l].patron = req[s].patron
      /\ \A m \in LoanIds : m # l => loans'[m] = loans[m]
  BY <1>1 DEF TypeInv, TypeOK, TablesTypeOK
<1>4. ASSUME NEW p \in Patrons
      PROVE  Cardinality(OpenLoansOf(p)') + Cardinality(MayStillIssue(p)')
               <= MaxLimit - 1 + Cardinality(Sessions)
  <2>1. MayStillIssue(p)' \subseteq MayStillIssue(p) \ {s} BY <1>2 DEF MayStillIssue
  <2>2. CASE p # req[s].patron
    <3>1. OpenLoansOf(p)' \subseteq OpenLoansOf(p) BY <1>3, <2>2 DEF OpenLoansOf
    <3> QED BY <2>1, <3>1, ShrinkingStep
  <2>3. CASE p = req[s].patron
    <3>1. s \in MayStillIssue(p) BY <1>0, <2>3 DEF MayStillIssue, CapInv
    <3>2. Cardinality(MayStillIssue(p) \ {s}) = Cardinality(MayStillIssue(p)) - 1
          /\ IsFiniteSet(MayStillIssue(p) \ {s})
      BY <3>1, Counts, FS_RemoveElement
    <3>3. Cardinality(MayStillIssue(p)') <= Cardinality(MayStillIssue(p) \ {s})
      BY <2>1, <3>2, FS_Subset
    <3>4. OpenLoansOf(p)' \subseteq OpenLoansOf(p) \cup {l} BY <1>3 DEF OpenLoansOf
    <3>5. Cardinality(OpenLoansOf(p) \cup {l}) <= Cardinality(OpenLoansOf(p)) + 1
          /\ IsFiniteSet(OpenLoansOf(p) \cup {l})
          /\ Cardinality(OpenLoansOf(p) \cup {l}) \in Nat
      <4> DEFINE open == OpenLoansOf(p)
      <4>1. IsFiniteSet(open) /\ Cardinality(open) \in Nat BY Counts
      <4> HIDE DEF open
      <4>2. IsFiniteSet(open \cup {l})
            /\ Cardinality(open \cup {l}) \in {Cardinality(open), Cardinality(open) + 1}
        BY <4>1, FS_AddElement
      <4>3. Cardinality(open \cup {l}) <= Cardinality(open) + 1
            /\ Cardinality(open \cup {l}) \in Nat
        BY <4>1, <4>2
      <4> QED BY <4>2, <4>3 DEF open
    <3>6. Cardinality(OpenLoansOf(p)') <= Cardinality(OpenLoansOf(p) \cup {l})
      BY <3>4, <3>5, FS_Subset
    <3>7. Cardinality(OpenLoansOf(p)) + Cardinality(MayStillIssue(p))
            <= MaxLimit - 1 + Cardinality(Sessions)
      BY DEF CapInv
    <3> QED BY <3>2, <3>3, <3>5, <3>6, <3>7, Counts, CountsAfter
  <2> QED BY <2>2, <2>3
<1>5. ASSUME NEW t \in Sessions, pc'[t] = "commit_checkout" PROVE local'[t].count < MaxLimit
  BY <1>2, <1>5 DEF CapInv
<1> QED BY <1>4, <1>5 DEF CapInv

\* Every other step of a session: it answers, ends, or moves on without issuing.
LEMMA OtherStep ==
  ASSUME TypeInv, CapInv, NEW s \in Sessions, SessionStep(s),
         ~CountOpenLoans(s), ~ResolvePolicy(s), ~CommitCheckout(s)
  PROVE  CapInv'
<1>1. ASSUME NEW code \in Codes, NEW l \in LoanIds \cup {None}, Answer(s, code, l),
             \A p \in Patrons : OpenLoansOf(p)' \subseteq OpenLoansOf(p)
      PROVE  CapInv'
  <2>1. /\ pc'[s] = "done"
        /\ \A t \in Sessions \ {s} : pc'[t] = pc[t] /\ req'[t] = req[t] /\ local'[t] = local[t]
    BY <1>1 DEF Answer, Goto, TypeInv, TypeOK, SessionsTypeOK
  <2> QED BY <1>1, <2>1, QuietStep
<1>2. ASSUME UNCHANGED loans PROVE \A p \in Patrons : OpenLoansOf(p)' \subseteq OpenLoansOf(p)
  BY <1>2 DEF OpenLoansOf
<1>3. CASE \E code \in Codes : Fail(s, code)
  BY <1>1, <1>2, <1>3 DEF Fail, tables
<1>4. CASE EndRequest(s)
  <2>1. /\ pc'[s] = "idle" /\ UNCHANGED loans
        /\ \A t \in Sessions \ {s} : pc'[t] = pc[t] /\ req'[t] = req[t] /\ local'[t] = local[t]
    BY <1>4 DEF EndRequest, Goto, tables, TypeInv, TypeOK, SessionsTypeOK
  <2> QED BY <1>2, <2>1, QuietStep
<1>5. CASE Post(s)
  <2>1. PICK q \in {req'[s]}, label \in {"find_cached", "read_holding"} : Accept(s, q, label)
    BY <1>5 DEF Post, PostCheckout, CheckoutOf, PostReturn, PostWithdraw, Accept, TypeInv,
       TypeOK, SessionsTypeOK
  <2>2. /\ pc'[s] \in {"find_cached", "read_holding"} /\ UNCHANGED loans
        /\ \A t \in Sessions \ {s} : pc'[t] = pc[t] /\ req'[t] = req[t] /\ local'[t] = local[t]
    BY <2>1 DEF Accept, Goto, tables, TypeInv, TypeOK, SessionsTypeOK
  <2> QED BY <1>2, <2>2, QuietStep
<1>6. CASE CacheMiss(s) \/ CheckPatron(s) \/ LockForReturn(s) \/ LockLoan(s)
           \/ LockHoldingOfLoan(s) \/ ReadForWithdraw(s)
  <2>1. /\ UNCHANGED loans /\ UNCHANGED req
        /\ \A t \in Sessions \ {s} : pc'[t] = pc[t] /\ local'[t] = local[t]
    BY <1>6 DEF CacheMiss, CheckPatron, LockForReturn, LockLoan, LockHoldingOfLoan,
       ReadForWithdraw, Goto, tables, TypeInv, TypeOK, SessionsTypeOK
  <2>2. \/ pc'[s] \notin {"lock_holding", "resolve_policy", "commit_checkout"}
        \/ req'[s].op # "checkout" /\ pc'[s] # "commit_checkout"
    BY <1>6 DEF CacheMiss, CheckPatron, LockForReturn, LockLoan, LockHoldingOfLoan,
       ReadForWithdraw, Goto, TypeInv, TypeOK, SessionsTypeOK
  <2> QED BY <1>2, <2>1, <2>2, QuietStep
<1>7. CASE LockForCheckout(s)
  <2>1. /\ UNCHANGED loans /\ UNCHANGED <<req, local>>
        /\ pc[s] = "lock_holding" /\ pc' = [pc EXCEPT ![s] = "resolve_policy"]
    BY <1>7 DEF LockForCheckout, AwaitsCheckoutLock, Goto, tables
  <2>2. /\ pc'[s] = "resolve_policy" /\ \A t \in Sessions \ {s} : pc'[t] = pc[t]
    BY <2>1 DEF TypeInv, TypeOK, SessionsTypeOK
  <2> QED BY <1>2, <2>1, <2>2, QuietStep
<1>8. CASE CommitReturn(s)
  <2>1. local[s].loan \in LoanIds /\ loans' = [loans EXCEPT ![local[s].loan].state = "returned"]
        /\ Answer(s, 200, local[s].loan)
    BY <1>8 DEF CommitReturn, TypeInv, RequestsWellFormed, RequestWellFormed
  <2>2. \A p \in Patrons : OpenLoansOf(p)' \subseteq OpenLoansOf(p)
    <3>1. loans'[local[s].loan].state = "returned"
          /\ \A m \in LoanIds : m # local[s].loan => loans'[m] = loans[m]
      BY <2>1 DEF TypeInv, TypeOK, TablesTypeOK, LoanRow
    <3> QED BY <3>1 DEF OpenLoansOf
  <2> QED BY <1>1, <2>1, <2>2 DEF Codes
<1>9. CASE CommitRepeatedReturn(s) \/ CommitWithdraw(s) \/ RepeatWithdraw(s) \/ ReplayCached(s)
  <2>1. \E code \in Codes, l \in LoanIds \cup {None} : Answer(s, code, l)
    <3>1. CASE CommitRepeatedReturn(s)
      BY <3>1 DEF CommitRepeatedReturn, Codes, TypeInv, RequestsWellFormed, RequestWellFormed
    <3>2. CASE CommitWithdraw(s) \/ RepeatWithdraw(s)
      BY <3>2 DEF CommitWithdraw, RepeatWithdraw, Codes
    <3>3. CASE ReplayCached(s)
      BY <3>3 DEF ReplayCached, Stored, Codes, TypeInv, TypeOK, TablesTypeOK, IdempotencyRecord
    <3> QED BY <1>9, <3>1, <3>2, <3>3
  <2>2. UNCHANGED loans
    BY <1>9 DEF CommitRepeatedReturn, CommitWithdraw, RepeatWithdraw, ReplayCached, tables
  <2> QED BY <1>1, <1>2, <2>1, <2>2
<1> QED BY <1>3, <1>4, <1>5, <1>6, <1>7, <1>8, <1>9, RejectType
        DEF SessionStep, LockingStep, FreeStep, Reply, Crash

\* Checkouts that count a patron's loans before they take a lock exceed the largest
\* limit by less than the number of requests the server works on at the same time: a
\* checkout uses a count it has read once, for one loan.
THEOREM LoanCapBoundAlways == Spec => []LoanCapBound
<1>1. Init => CapInv
  <2> SUFFICES ASSUME Init PROVE CapInv OBVIOUS
  <2>1. ASSUME NEW p \in Patrons PROVE OpenLoansOf(p) = {} /\ MayStillIssue(p) = {}
    BY DEF Init, NoLoan, OpenLoansOf, MayStillIssue
  <2>2. Cardinality({}) = 0 BY FS_EmptySet
  <2>3. Cardinality(Sessions) \in Nat BY FS_CardinalityType
  <2>4. \A s \in Sessions : pc[s] # "commit_checkout" BY DEF Init
  <2>5. ASSUME NEW p \in Patrons
        PROVE  Cardinality(OpenLoansOf(p)) + Cardinality(MayStillIssue(p))
                 <= MaxLimit - 1 + Cardinality(Sessions)
    <3>1. Cardinality(OpenLoansOf(p)) = 0 /\ Cardinality(MayStillIssue(p)) = 0
      BY <2>1, <2>2
    <3> QED BY <2>3, <3>1
  <2> QED BY <2>4, <2>5 DEF CapInv
<1>2. TypeInv /\ CapInv /\ [Next]_vars => CapInv'
  <2> SUFFICES ASSUME TypeInv, CapInv, [Next]_vars PROVE CapInv' OBVIOUS
  <2>1. ASSUME UNCHANGED <<loans, pc, req, local>> PROVE CapInv'
    BY <2>1 DEF CapInv, OpenLoansOf, MayStillIssue
  <2>2. CASE StaffStep
    BY <2>1, <2>2 DEF StaffStep, SuspendPatron, ExitPatron, SetPatronStatus, SetPatronBlock,
       UpdatePatronType, UpdateLoanRuleSet, PublishCatalog, SuppressCatalog,
       SetCatalogingStatus, otherThanPatrons
  <2>3. CASE UNCHANGED vars BY <2>1, <2>3 DEF vars, tables
  <2>4. ASSUME NEW s \in Sessions, SessionStep(s) PROVE CapInv'
    BY <2>4, CountStep, ResolveStep, IssueStep, OtherStep
  <2> QED BY <2>2, <2>3, <2>4 DEF Next
<1>3. CapInv => LoanCapBound
  BY Counts DEF CapInv, LoanCapBound
<1> QED BY <1>1, <1>2, <1>3, TypeCorrect, PTL DEF Spec, TypeInv
=============================================================================
