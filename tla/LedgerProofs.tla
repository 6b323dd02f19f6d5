---------------------------- MODULE LedgerProofs ----------------------------
(***************************************************************************)
(* Theorems about the stored responses of Circulation: which loan a key    *)
(* has issued, which loan an answer names, which session may change the    *)
(* ledger, and the ledger that circulation implements.                     *)
(***************************************************************************)
EXTENDS CirculationProofs

USE CatalogOfAssumption, CirculatingAssumption, LimitsAssumption, FiniteAssumption,
    NoneAssumption, IdsAssumption

\* What a stored response says of the loan it names: a checkout's is a loan of the
\* holding and the patron of its payload, a return's is closed, and is of the
\* payload's holding or is the payload's loan.
RecordHolds(r) ==
  LET l == loans[r.result] IN
    /\ r.scope[1] = "checkout" =>
         /\ l.state # "none"
         /\ l.patron = r.payload.patron /\ l.holding = r.payload.holding
         /\ r.scope = <<"checkout", r.payload.holding>>
    /\ r.scope[1] = "return" =>
         /\ l.state = "returned"
         /\ IF r.payload.holding # None THEN l.holding = r.payload.holding
                                        ELSE r.result = r.payload.loan

\* What an answer says of the loan it names.
AnswerHolds(s) ==
  LET l == resp[s].loan IN
    /\ resp[s].code = 201 =>
         /\ l \in LoanIds /\ loans[l].state # "none"
         /\ loans[l].patron = req[s].patron /\ loans[l].holding = req[s].holding
    /\ resp[s].code = 200 /\ req[s].op = "return" =>
         /\ l \in LoanIds /\ loans[l].state = "returned"
         /\ IF req[s].holding # None THEN loans[l].holding = req[s].holding
                                     ELSE l = req[s].loan

KeyInv == /\ OneLoanPerKey
          /\ \A r \in idem : RecordHolds(r)
          /\ \A s \in Sessions : AnswerHolds(s)

-----------------------------------------------------------------------------
(* The steps, by what they do to the ledger, the store and the answers *)

\* Nothing is written there, and no checkout or return is answered with a success.
Quiet ==
  /\ UNCHANGED <<loans, idem>>
  /\ \A t \in Sessions :
       \/ resp'[t] = resp[t] /\ req'[t] = req[t]
       \/ resp'[t].code \notin {200, 201}
       \/ resp'[t].code = 200 /\ req'[t].op = "withdraw"

Writes(s) == CommitCheckout(s) \/ CommitReturn(s) \/ CommitRepeatedReturn(s)

LEMMA RejectQuiet ==
  ASSUME TypeInv, NEW s \in Sessions,
         \/ RejectUnnamedReturn(s) \/ RejectReusedKey(s) \/ RejectPatron(s)
         \/ RejectHolding(s) \/ RejectPolicy(s) \/ AbortCheckout(s) \/ RejectNoOpenLoan(s)
         \/ RejectNoLoan(s) \/ AbortReturn(s) \/ RejectWithdraw(s) \/ DeadlockVictim(s)
  PROVE  Quiet
<1>1. \E code \in {404, 409, 422, 500} : Fail(s, code)
  BY DEF RejectUnnamedReturn, RejectReusedKey, RejectPatron, RejectHolding, RejectPolicy,
         AbortCheckout, RejectNoOpenLoan, RejectNoLoan, AbortReturn, RejectWithdraw,
         DeadlockVictim
<1>2. PICK code \in {404, 409, 422, 500} : Fail(s, code) BY <1>1
<1> QED BY <1>2 DEF Fail, Answer, tables, Quiet, TypeInv, TypeOK, SessionsTypeOK

\* Every step is quiet, writes as one of the three commits, or replays a response.
LEMMA StepKinds ==
  ASSUME TypeInv, [Next]_vars
  PROVE  Quiet \/ \E s \in Sessions : Writes(s) \/ ReplayCached(s)
<1>1. ASSUME NEW s \in Sessions, Post(s) PROVE Quiet
  <2>1. PICK q \in {req'[s]}, label \in {"find_cached", "read_holding"} : Accept(s, q, label)
    BY <1>1 DEF Post, PostCheckout, CheckoutOf, PostReturn, PostWithdraw, Accept, TypeInv,
       TypeOK, SessionsTypeOK
  <2> QED BY <2>1 DEF Accept, tables, Quiet, TypeInv, TypeOK, SessionsTypeOK,
             RequestsWellFormed, RequestWellFormed, NoResp
<1>2. ASSUME NEW s \in Sessions,
             \/ CacheMiss(s) \/ CheckPatron(s) \/ CountOpenLoans(s) \/ LockForCheckout(s)
             \/ ResolvePolicy(s) \/ LockForReturn(s) \/ LockLoan(s) \/ LockHoldingOfLoan(s)
             \/ ReadForWithdraw(s)
      PROVE  Quiet
  BY <1>2 DEF CacheMiss, CheckPatron, CountOpenLoans, LockForCheckout, ResolvePolicy,
     LockForReturn, LockLoan, LockHoldingOfLoan, ReadForWithdraw, tables, Quiet
<1>3. ASSUME NEW s \in Sessions, EndRequest(s) PROVE Quiet
  BY <1>3 DEF EndRequest, NoResp, tables, Quiet, TypeInv, TypeOK, SessionsTypeOK
<1>4. ASSUME NEW s \in Sessions, CommitWithdraw(s) \/ RepeatWithdraw(s) PROVE Quiet
  <2>1. req[s].op = "withdraw"
    BY <1>4 DEF CommitWithdraw, RepeatWithdraw, TypeInv, RequestsWellFormed, RequestWellFormed
  <2>2. Answer(s, 200, None) /\ UNCHANGED <<loans, idem>>
    BY <1>4 DEF CommitWithdraw, RepeatWithdraw, tables
  <2> QED BY <2>1, <2>2 DEF Answer, Quiet, TypeInv, TypeOK, SessionsTypeOK
<1>5. ASSUME StaffStep PROVE Quiet
  BY <1>5 DEF StaffStep, SuspendPatron, ExitPatron, SetPatronStatus, SetPatronBlock,
     UpdatePatronType, UpdateLoanRuleSet, PublishCatalog, SuppressCatalog,
     SetCatalogingStatus, otherThanPatrons, Quiet
<1>6. ASSUME UNCHANGED vars PROVE Quiet
  BY <1>6 DEF vars, tables, Quiet
<1>7. ASSUME NEW s \in Sessions, SessionStep(s) PROVE Quiet \/ Writes(s) \/ ReplayCached(s)
  BY <1>1, <1>2, <1>3, <1>4, <1>7, RejectQuiet
  DEF SessionStep, LockingStep, FreeStep, Reply, Crash, Writes
<1> QED BY <1>5, <1>6, <1>7 DEF Next

-----------------------------------------------------------------------------
(* The commits and the replay keep the invariant *)

\* A loan never loses its patron or its holding, and a closed one stays closed.
LoansGrow ==
  \A l \in LoanIds : loans[l].state # "none" =>
    /\ loans'[l].state # "none"
    /\ loans'[l].patron = loans[l].patron /\ loans'[l].holding = loans[l].holding
    /\ loans[l].state = "returned" => loans'[l].state = "returned"

\* What is known of a stored response stays true.
LEMMA RecordStays ==
  ASSUME TypeInv, LoansGrow, NEW r \in idem, RecordHolds(r)
  PROVE  RecordHolds(r)'
<1>1. r.result \in LoanIds BY DEF TypeInv, TypeOK, TablesTypeOK, IdempotencyRecord
<1> QED BY <1>1 DEF RecordHolds, LoansGrow

LEMMA AnswerStays ==
  ASSUME LoansGrow, NEW t \in Sessions, AnswerHolds(t),
         resp'[t] = resp[t], req'[t] = req[t]
  PROVE  AnswerHolds(t)'
BY DEF AnswerHolds, LoansGrow

LEMMA WriteGrows ==
  ASSUME TypeInv, SafeInv, NEW s \in Sessions, Writes(s)
  PROVE  LoansGrow
<1>1. CASE CommitCheckout(s)
  BY <1>1 DEF CommitCheckout, Unused, LoansGrow, TypeInv, TypeOK, TablesTypeOK
<1>2. CASE CommitReturn(s)
  <2>1. loans' = [loans EXCEPT ![local[s].loan].state = "returned"] BY <1>2 DEF CommitReturn
  <2>2. local[s].loan \in LoanIds /\ loans[local[s].loan].state # "none"
    BY <1>2 DEF CommitReturn, TypeInv, RequestsWellFormed, RequestWellFormed
  <2> QED BY <2>1, <2>2 DEF LoansGrow, TypeInv, TypeOK, TablesTypeOK, LoanRow
<1>3. CASE CommitRepeatedReturn(s)
  BY <1>3 DEF CommitRepeatedReturn, LoansGrow
<1> QED BY <1>1, <1>2, <1>3 DEF Writes

\* What a commit writes of the request it answers.
LEMMA WriteEffect ==
  ASSUME TypeInv, SafeInv, NEW s \in Sessions, Writes(s)
  PROVE  \E l \in LoanIds, code \in Codes :
           /\ idem' = idem \cup {Record(req[s], l)}
           /\ Stored(req[s]) = {}
           /\ Answer(s, code, l)
           /\ req[s].op = "checkout" =>
                /\ code = 201 /\ loans[l].state = "none"
                /\ loans' = [loans EXCEPT ![l] =
                       [state |-> "open", patron |-> req[s].patron, holding |-> req[s].holding]]
           /\ req[s].op = "return" =>
                /\ code = 200 /\ loans[l].state # "none" /\ loans'[l].state = "returned"
                /\ \A m \in LoanIds : m # l => loans'[m] = loans[m]
                /\ loans'[l].patron = loans[l].patron /\ loans'[l].holding = loans[l].holding
                /\ IF req[s].holding # None THEN loans'[l].holding = req[s].holding
                                            ELSE l = req[s].loan
           /\ req[s].op \in {"checkout", "return"}
           /\ pc[s] # "done"
           /\ holdingLock[IF req[s].op = "checkout" THEN req[s].holding
                                                  ELSE loans[l].holding] = s
<1>1. CASE CommitCheckout(s)
  <2>1. req[s].op = "checkout" /\ pc[s] = "commit_checkout"
    BY <1>1 DEF CommitCheckout, TypeInv, RequestsWellFormed, RequestWellFormed
  <2>2. holdingLock[req[s].holding] = s
    BY <2>1 DEF SafeInv, LocksProtect
  <2>3. PICK l \in Unused :
          /\ loans' = [loans EXCEPT ![l] = [state |-> "open", patron |-> req[s].patron,
                                            holding |-> req[s].holding]]
          /\ idem' = idem \cup {Record(req[s], l)}
          /\ Answer(s, 201, l)
    BY <1>1 DEF CommitCheckout
  <2>4. l \in LoanIds /\ loans[l].state = "none" BY DEF Unused
  <2>5. Stored(req[s]) = {} /\ 201 \in Codes
    BY <1>1 DEF CommitCheckout, ScopeKeyConflict, Codes
  <2> QED BY <2>1, <2>2, <2>3, <2>4, <2>5
<1>2. CASE CommitReturn(s) \/ CommitRepeatedReturn(s)
  <2> DEFINE l == local[s].loan
  <2>1. pc[s] = "commit_return" /\ req[s].op = "return"
    BY <1>2 DEF CommitReturn, CommitRepeatedReturn, TypeInv, RequestsWellFormed,
       RequestWellFormed
  <2>2. l \in LoanIds /\ loans[l].state # "none"
    BY <2>1 DEF TypeInv, RequestsWellFormed, RequestWellFormed
  <2>3. /\ local[s].view = loans[l].state
        /\ IF req[s].holding # None THEN loans[l].holding = req[s].holding
                                    ELSE l = req[s].loan
        /\ holdingLock[loans[l].holding] = s
    BY <2>1 DEF SafeInv, LocksProtect
  <2>4. /\ loans'[l].state = "returned" /\ \A m \in LoanIds : m # l => loans'[m] = loans[m]
        /\ loans'[l].patron = loans[l].patron /\ loans'[l].holding = loans[l].holding
    <3>1. CASE CommitReturn(s)
      <4>1. loans' = [loans EXCEPT ![l].state = "returned"] BY <3>1 DEF CommitReturn
      <4> QED BY <2>2, <4>1 DEF TypeInv, TypeOK, TablesTypeOK, LoanRow
    <3>2. CASE CommitRepeatedReturn(s)
      BY <2>3, <3>2 DEF CommitRepeatedReturn
    <3> QED BY <1>2, <3>1, <3>2
  <2>5. /\ idem' = idem \cup {Record(req[s], l)} /\ Stored(req[s]) = {}
        /\ Answer(s, 200, l) /\ 200 \in Codes
    BY <1>2 DEF CommitReturn, CommitRepeatedReturn, ScopeKeyConflict, Codes
  <2> HIDE DEF l
  <2> QED BY <2>1, <2>2, <2>3, <2>4, <2>5
<1> QED BY <1>1, <1>2 DEF Writes

LEMMA WriteKeepsKeyInv ==
  ASSUME TypeInv, SafeInv, KeyInv, NEW s \in Sessions, Writes(s)
  PROVE  KeyInv'
<1>1. PICK l \in LoanIds, code \in Codes :
        /\ idem' = idem \cup {Record(req[s], l)}
        /\ Stored(req[s]) = {}
        /\ Answer(s, code, l)
        /\ req[s].op = "checkout" =>
             /\ code = 201 /\ loans[l].state = "none"
             /\ loans' = [loans EXCEPT ![l] =
                    [state |-> "open", patron |-> req[s].patron, holding |-> req[s].holding]]
        /\ req[s].op = "return" =>
             /\ code = 200 /\ loans[l].state # "none" /\ loans'[l].state = "returned"
             /\ \A m \in LoanIds : m # l => loans'[m] = loans[m]
             /\ loans'[l].patron = loans[l].patron /\ loans'[l].holding = loans[l].holding
             /\ IF req[s].holding # None THEN loans'[l].holding = req[s].holding
                                         ELSE l = req[s].loan
        /\ req[s].op \in {"checkout", "return"}
  BY WriteEffect
<1>2. LoansGrow BY WriteGrows
<1> DEFINE new == Record(req[s], l)
<1>3. /\ new.key = req[s].key /\ new.scope = Scope(req[s])
      /\ new.payload = Payload(req[s]) /\ new.result = l
  BY DEF Record
<1>4. /\ new.payload.patron = req[s].patron /\ new.payload.holding = req[s].holding
      /\ new.payload.loan = req[s].loan
      /\ new.scope[1] = req[s].op
  BY <1>3 DEF Payload, Scope
<1>5. req[s].op = "checkout" =>
        /\ new.scope = <<"checkout", req[s].holding>> /\ req[s].holding # None
        /\ loans'[l].state = "open" /\ loans'[l].patron = req[s].patron
        /\ loans'[l].holding = req[s].holding
        /\ \A m \in LoanIds : m # l => loans'[m] = loans[m]
  <2>1. req[s].op = "checkout" => req[s].holding \in Holdings
    BY DEF TypeInv, RequestsWellFormed, RequestWellFormed
  <2>2. req[s].op = "checkout" => new.scope = <<"checkout", req[s].holding>>
    BY <1>3, <2>1 DEF Scope
  <2> QED BY <1>1, <2>1, <2>2 DEF TypeInv, TypeOK, TablesTypeOK
<1>6. idem' = idem \cup {new} BY <1>1
<1> HIDE DEF new
<1>7. ASSUME NEW r \in idem' PROVE RecordHolds(r)'
  <2>1. CASE r \in idem BY <1>2, <2>1, RecordStays DEF KeyInv
  <2>2. CASE r = new BY <1>1, <1>3, <1>4, <1>5, <2>2 DEF RecordHolds
  <2> QED BY <1>6, <1>7, <2>1, <2>2
<1>8. ASSUME NEW t \in Sessions PROVE AnswerHolds(t)'
  <2>1. CASE t = s
    <3>1. resp'[t].code = code /\ resp'[t].loan = l /\ req' = req
      BY <1>1, <2>1 DEF Answer, TypeInv, TypeOK, SessionsTypeOK
    <3> QED BY <1>1, <1>5, <2>1, <3>1 DEF AnswerHolds
  <2>2. CASE t # s
    <3>1. resp'[t] = resp[t] /\ req'[t] = req[t]
      BY <1>1, <2>2 DEF Answer, TypeInv, TypeOK, SessionsTypeOK
    <3> QED BY <1>2, <3>1, AnswerStays DEF KeyInv
  <2> QED BY <2>1, <2>2
<1>9. ASSUME NEW r \in idem', NEW q \in idem', r.scope = q.scope, r.key = q.key PROVE r = q
  <2>1. \A i \in idem : ~(i.scope = new.scope /\ i.key = new.key)
    BY <1>1, <1>3 DEF Stored
  <2> QED BY <1>6, <1>9, <2>1 DEF KeyInv, OneLoanPerKey
<1>10. ASSUME NEW m \in LoanIds, loans'[m].state # "none"
       PROVE  \E r \in idem' : /\ r.scope = <<"checkout", loans'[m].holding>>
                               /\ r.payload.patron = loans'[m].patron
                               /\ r.result = m
  <2>1. CASE loans[m].state = "none"
    <3>1. m = l /\ req[s].op = "checkout" BY <1>1, <1>5, <1>10, <2>1
    <3> QED BY <1>3, <1>4, <1>5, <1>6, <3>1
  <2>2. CASE loans[m].state # "none"
    <3>1. PICK r \in idem : /\ r.scope = <<"checkout", loans[m].holding>>
                            /\ r.payload.patron = loans[m].patron
                            /\ r.result = m
      BY <2>2 DEF KeyInv, OneLoanPerKey
    <3> QED BY <1>2, <1>6, <2>2, <3>1 DEF LoansGrow
  <2> QED BY <2>1, <2>2
<1> QED BY <1>7, <1>8, <1>9, <1>10 DEF KeyInv, OneLoanPerKey

\* A replay answers with the loan of a stored response of the same scope and payload.
LEMMA ReplayKeepsKeyInv ==
  ASSUME TypeInv, KeyInv, NEW s \in Sessions, ReplayCached(s)
  PROVE  KeyInv'
<1>1. PICK r \in Stored(req[s]) :
        /\ PayloadMatches(r, req[s])
        /\ Answer(s, IF req[s].op = "checkout" THEN 201 ELSE 200, r.result)
        /\ UNCHANGED tables
        /\ pc[s] = "find_cached"
  BY DEF ReplayCached, CacheLookup
<1>2. r \in idem /\ r.scope = Scope(req[s]) /\ RecordHolds(r) /\ r.result \in LoanIds
  BY DEF Stored, KeyInv, TypeInv, TypeOK, TablesTypeOK, IdempotencyRecord
<1>3. /\ r.payload.patron = req[s].patron /\ r.payload.holding = req[s].holding
      /\ r.payload.loan = req[s].loan /\ r.scope[1] = req[s].op
  BY <1>1, <1>2 DEF PayloadMatches, Payload, Scope
<1>4. req[s].op \in {"checkout", "return"}
  BY <1>1 DEF TypeInv, RequestsWellFormed, RequestWellFormed
<1>5. UNCHANGED <<loans, idem, req>> BY <1>1 DEF tables, Answer
<1>6. ASSUME NEW t \in Sessions PROVE AnswerHolds(t)'
  <2>1. CASE t = s
    <3>1. resp'[t].loan = r.result
          /\ resp'[t].code = IF req[s].op = "checkout" THEN 201 ELSE 200
      BY <1>1, <2>1 DEF Answer, TypeInv, TypeOK, SessionsTypeOK
    <3> QED BY <1>2, <1>3, <1>4, <1>5, <2>1, <3>1 DEF RecordHolds, AnswerHolds
  <2>2. CASE t # s
    BY <1>1, <1>5, <2>2 DEF Answer, AnswerHolds, KeyInv, TypeInv, TypeOK, SessionsTypeOK
  <2> QED BY <2>1, <2>2
<1>7. OneLoanPerKey'
  <2>1. OneLoanPerKey BY DEF KeyInv
  <2> QED BY ONLY <1>5, <2>1 DEF OneLoanPerKey
<1>8. ASSUME NEW i \in idem' PROVE RecordHolds(i)'
  <2>1. RecordHolds(i) BY <1>5 DEF KeyInv
  <2> QED BY ONLY <1>5, <2>1 DEF RecordHolds
<1> QED BY <1>6, <1>7, <1>8 DEF KeyInv

LEMMA QuietKeepsKeyInv ==
  ASSUME KeyInv, Quiet
  PROVE  KeyInv'
<1>0. loans' = loans /\ idem' = idem BY DEF Quiet
<1>1. OneLoanPerKey'
  <2>1. OneLoanPerKey BY DEF KeyInv
  <2> QED BY ONLY <1>0, <2>1 DEF OneLoanPerKey
<1>2. ASSUME NEW r \in idem' PROVE RecordHolds(r)'
  <2>1. RecordHolds(r) BY <1>0 DEF KeyInv
  <2> QED BY ONLY <1>0, <2>1 DEF RecordHolds
<1>3. ASSUME NEW t \in Sessions PROVE AnswerHolds(t)'
  BY DEF KeyInv, Quiet, AnswerHolds
<1> QED BY <1>1, <1>2, <1>3 DEF KeyInv

LEMMA InitKeyInv == Init => KeyInv
BY DEF Init, KeyInv, OneLoanPerKey, AnswerHolds, NoLoan, NoResp

LEMMA KeysAlways == Spec => []KeyInv
<1>1. TypeInv /\ SafeInv /\ KeyInv /\ [Next]_vars => KeyInv'
  BY StepKinds, WriteKeepsKeyInv, ReplayKeepsKeyInv, QuietKeepsKeyInv
<1> QED BY <1>1, InitKeyInv, Safety, PTL DEF Spec

\* find_cached_response before the writes and store_response in their transaction are
\* enough, whatever the number of retries, crashes and sessions: each loan has the
\* stored response of the checkout that made it, and a key of a holding has one.
THEOREM OneLoanPerKeyAlways == Spec => []OneLoanPerKey
<1>1. KeyInv => OneLoanPerKey BY DEF KeyInv
<1> QED BY <1>1, KeysAlways, PTL

\* A 201 names a loan of the holding and the patron of the request, a 200 to a return
\* a closed loan of the request's holding or with the request's id, also when the
\* answer is replayed from the store.
THEOREM AnswerFitsRequestAlways == Spec => []AnswerFitsRequest
<1>1. KeyInv => AnswerFitsRequest BY DEF KeyInv, AnswerHolds, AnswerFitsRequest
<1> QED BY <1>1, KeysAlways, PTL
-----------------------------------------------------------------------------
(* Who may change the ledger *)

LEMMA WriteUnderLock ==
  ASSUME TypeInv, SafeInv, NEW s \in Sessions, Writes(s)
  PROVE  /\ \A h \in Holdings : OpenLoansOn(h)' # OpenLoansOn(h) =>
              holdingLock[h] = s /\ pc[s] # "done" /\ pc'[s] = "done"
         /\ \A m \in LoanIds : loans[m].state # "none" =>
              loans'[m].state = loans[m].state \/ loans'[m].state = "returned"
<1>1. PICK l \in LoanIds, code \in Codes :
        /\ Answer(s, code, l)
        /\ req[s].op = "checkout" =>
             /\ loans[l].state = "none"
             /\ loans' = [loans EXCEPT ![l] =
                    [state |-> "open", patron |-> req[s].patron, holding |-> req[s].holding]]
        /\ req[s].op = "return" =>
             /\ loans[l].state # "none" /\ loans'[l].state = "returned"
             /\ \A m \in LoanIds : m # l => loans'[m] = loans[m]
             /\ loans'[l].holding = loans[l].holding
        /\ req[s].op \in {"checkout", "return"}
        /\ pc[s] # "done"
        /\ holdingLock[IF req[s].op = "checkout" THEN req[s].holding
                                               ELSE loans[l].holding] = s
  BY WriteEffect
<1>2. pc'[s] = "done" BY <1>1 DEF Answer, Goto, TypeInv, TypeOK, SessionsTypeOK
<1>3. \A m \in LoanIds : m # l => loans'[m] = loans[m]
  BY <1>1 DEF TypeInv, TypeOK, TablesTypeOK
<1>4. ASSUME NEW h \in Holdings, OpenLoansOn(h)' # OpenLoansOn(h)
      PROVE  holdingLock[h] = s
  <2>1. ~(l \in OpenLoansOn(h)' <=> l \in OpenLoansOn(h))
    BY <1>3, <1>4 DEF OpenLoansOn
  <2>2. req[s].op = "checkout" => h = req[s].holding
    BY <1>1, <2>1 DEF OpenLoansOn, TypeInv, TypeOK, TablesTypeOK
  <2>3. req[s].op = "return" => h = loans[l].holding
    BY <1>1, <2>1 DEF OpenLoansOn
  <2> QED BY <1>1, <2>2, <2>3
<1>5. ASSUME NEW m \in LoanIds, loans[m].state # "none"
      PROVE  loans'[m].state = loans[m].state \/ loans'[m].state = "returned"
  BY <1>1, <1>3, <1>5
<1> QED BY <1>1, <1>2, <1>4, <1>5

\* The open loans of a holding change only when a session commits that holds the
\* holding's row lock, and a loan is never reopened nor moved to another patron or
\* holding.
THEOREM LedgerChangesUnderLockAlways == Spec => LedgerChangesUnderLock
<1> DEFINE Guarded ==
      /\ \A h \in Holdings : OpenLoansOn(h)' # OpenLoansOn(h) =>
            \E s \in Sessions : holdingLock[h] = s /\ pc[s] # "done" /\ pc'[s] = "done"
      /\ \A l \in LoanIds : loans[l].state # "none" =>
            /\ loans'[l].patron = loans[l].patron /\ loans'[l].holding = loans[l].holding
            /\ loans'[l].state = loans[l].state \/ loans'[l].state = "returned"
<1>1. ASSUME TypeInv, SafeInv, [Next]_vars PROVE Guarded
  <2>1. ASSUME loans' = loans PROVE Guarded
    BY <2>1 DEF OpenLoansOn
  <2>2. ASSUME NEW s \in Sessions, Writes(s) PROVE Guarded
    BY <1>1, <2>2, WriteUnderLock, WriteGrows DEF LoansGrow
  <2>3. ASSUME NEW s \in Sessions, ReplayCached(s) PROVE loans' = loans
    BY <2>3 DEF ReplayCached, tables
  <2> QED BY <1>1, <2>1, <2>2, <2>3, StepKinds DEF Quiet
<1>2. TypeInv /\ SafeInv /\ [Next]_vars => [Guarded]_vars BY <1>1
<1> QED BY <1>2, Safety, PTL DEF Spec, LedgerChangesUnderLock

-----------------------------------------------------------------------------
(* The refinement *)

\* A checkout's stored response stands for its holding and key.
LEMMA IssuedPair ==
  ASSUME TypeInv, NEW s \in Sessions, req[s].op = "checkout", Stored(req[s]) = {}
  PROVE  <<req[s].holding, req[s].key>> \notin IssuedPairs
<1>1. req[s].holding \in Holdings BY DEF TypeInv, RequestsWellFormed, RequestWellFormed
<1>2. ASSUME NEW r \in idem, r.scope[1] = "checkout", r.key = req[s].key,
             r.scope[2] = req[s].holding
      PROVE  FALSE
  <2>1. r.scope \in Scopes BY DEF TypeInv, TypeOK, TablesTypeOK, IdempotencyRecord
  <2>2. r.scope = <<"checkout", req[s].holding>> BY <1>2, <2>1 DEF Scopes
  <2>3. Scope(req[s]) = <<"checkout", req[s].holding>> BY <1>1 DEF Scope
  <2> QED BY <1>2, <2>2, <2>3 DEF Stored
<1> QED BY <1>2 DEF IssuedPairs

LEMMA CheckoutIssues ==
  ASSUME TypeInv, SafeInv, NEW s \in Sessions, CommitCheckout(s)
  PROVE  Ledger!Next
<1>0. pc[s] = "commit_checkout" /\ req[s].op = "checkout"
  BY DEF CommitCheckout, TypeInv, RequestsWellFormed, RequestWellFormed
<1>1. PICK h \in Holdings, p \in Patrons, k \in Keys :
        h = req[s].holding /\ p = req[s].patron /\ k = req[s].key
  BY <1>0 DEF TypeInv, RequestsWellFormed, RequestWellFormed
<1>2. OpenLoansOn(h) = {} /\ Stored(req[s]) = {}
  BY <1>1 DEF CommitCheckout, OpenLoanIndexConflict, ScopeKeyConflict
<1>3. PICK l \in Unused :
        /\ loans' = [loans EXCEPT ![l] = [state |-> "open", patron |-> p, holding |-> h]]
        /\ idem' = idem \cup {Record(req[s], l)}
  BY <1>1 DEF CommitCheckout
<1>4. l \in LoanIds /\ loans[l].state = "none" BY DEF Unused
<1>5. <<h, k>> \notin IssuedPairs BY <1>0, <1>1, <1>2, IssuedPair
<1> DEFINE new == Record(req[s], l)
<1>6. new.key = k /\ new.scope[1] = "checkout" /\ new.scope[2] = h
  BY <1>0, <1>1 DEF Record, Scope
<1>7. IssuedPairs' = IssuedPairs \cup {<<h, k>>}
  <2> HIDE DEF new
  <2>1. idem' = idem \cup {new} BY <1>3 DEF new
  <2> QED BY <1>6, <2>1 DEF IssuedPairs
<1> HIDE DEF new
<1>8. loans'[l].state = "open" /\ loans'[l].patron = p /\ loans'[l].holding = h
      /\ \A m \in LoanIds : m # l => loans'[m] = loans[m]
  BY <1>3, <1>4 DEF TypeInv, TypeOK, TablesTypeOK
<1>9. OpenLoansOn(h)' = {l} /\ \A g \in Holdings : g # h => OpenLoansOn(g)' = OpenLoansOn(g)
  BY <1>2, <1>4, <1>8 DEF OpenLoansOn
<1>10. BorrowersOf(h) = {} /\ BorrowersOf(h)' = {p}
  BY <1>2, <1>8, <1>9 DEF BorrowersOf
<1>11. ASSUME NEW g \in Holdings, g # h PROVE BorrowersOf(g)' = BorrowersOf(g)
  <2>1. OpenLoansOn(g)' = OpenLoansOn(g) /\ l \notin OpenLoansOn(g)
        /\ OpenLoansOn(g) \subseteq LoanIds
    BY <1>4, <1>9, <1>11 DEF OpenLoansOn
  <2> QED BY <1>8, <2>1 DEF BorrowersOf
<1>12. [g \in Holdings |-> BorrowersOf(g)'] =
         [[g \in Holdings |-> BorrowersOf(g)] EXCEPT ![h] = {p}]
  BY <1>1, <1>10, <1>11
<1>13. Ledger!Issue(h, p, k)
  BY <1>1, <1>5, <1>7, <1>10, <1>12 DEF Ledger!Issue
<1> QED BY <1>1, <1>13 DEF Ledger!Next

LEMMA ReturnReturns ==
  ASSUME TypeInv, SafeInv, NEW s \in Sessions, CommitReturn(s)
  PROVE  Ledger!Next
<1>1. PICK l \in LoanIds : l = local[s].loan
  BY DEF CommitReturn, TypeInv, RequestsWellFormed, RequestWellFormed
<1>2. /\ pc[s] = "commit_return" /\ req[s].op = "return" /\ local[s].view = "open"
      /\ loans' = [loans EXCEPT ![l].state = "returned"]
      /\ idem' = idem \cup {Record(req[s], l)}
  BY <1>1 DEF CommitReturn, TypeInv, RequestsWellFormed, RequestWellFormed
<1>3. loans[l].state = "open" /\ loans[l].holding \in Holdings
  BY <1>1, <1>2 DEF SafeInv, LocksProtect, TypeInv, LoansWellFormed
<1>4. PICK h \in Holdings : h = loans[l].holding BY <1>3
<1>5. loans'[l].state = "returned" /\ \A m \in LoanIds : m # l => loans'[m] = loans[m]
  BY <1>2 DEF TypeInv, TypeOK, TablesTypeOK, LoanRow
<1>6. OpenLoansOn(h) = {l}
  BY <1>3, <1>4 DEF SafeInv, HoldingMatchesLoans, OpenLoansOn
<1>7. BorrowersOf(h) # {} /\ BorrowersOf(h)' = {}
  BY <1>5, <1>6 DEF BorrowersOf, OpenLoansOn
<1>8. ASSUME NEW g \in Holdings, g # h PROVE BorrowersOf(g)' = BorrowersOf(g)
  <2>1. OpenLoansOn(g)' = OpenLoansOn(g) /\ l \notin OpenLoansOn(g)
        /\ OpenLoansOn(g) \subseteq LoanIds
    BY <1>4, <1>5, <1>8 DEF OpenLoansOn
  <2> QED BY <1>5, <2>1 DEF BorrowersOf
<1>9. [g \in Holdings |-> BorrowersOf(g)'] =
        [[g \in Holdings |-> BorrowersOf(g)] EXCEPT ![h] = {}]
  BY <1>7, <1>8
<1>10. IssuedPairs' = IssuedPairs
  <2> DEFINE new == Record(req[s], l)
  <2>1. new.scope[1] = "return" BY <1>2 DEF Record, Scope
  <2>2. idem' = idem \cup {new} BY <1>2
  <2> HIDE DEF new
  <2> QED BY <2>1, <2>2 DEF IssuedPairs
<1>11. Ledger!Return(h) BY <1>7, <1>9, <1>10 DEF Ledger!Return
<1> QED BY <1>11 DEF Ledger!Next

LEMMA OthersStutter ==
  ASSUME TypeInv,
         Quiet \/ \E s \in Sessions : CommitRepeatedReturn(s) \/ ReplayCached(s)
  PROVE  UNCHANGED Ledger!vars
<1>1. ASSUME loans' = loans, idem' = idem PROVE UNCHANGED Ledger!vars
  BY <1>1 DEF Ledger!vars, BorrowersOf, OpenLoansOn, IssuedPairs
<1>2. ASSUME NEW s \in Sessions, CommitRepeatedReturn(s) PROVE UNCHANGED Ledger!vars
  <2> DEFINE new == Record(req[s], local[s].loan)
  <2>1. loans' = loans /\ idem' = idem \cup {new} /\ req[s].op = "return"
    BY <1>2 DEF CommitRepeatedReturn, TypeInv, RequestsWellFormed, RequestWellFormed
  <2>2. new.scope[1] = "return" BY <2>1 DEF Record, Scope
  <2> HIDE DEF new
  <2>3. IssuedPairs' = IssuedPairs BY <2>1, <2>2 DEF IssuedPairs
  <2> QED BY <2>1, <2>3 DEF Ledger!vars, BorrowersOf, OpenLoansOn
<1> QED BY <1>1, <1>2 DEF Quiet, ReplayCached, tables

\* Circulation implements LoanLedger: seen through its open loans and its stored
\* checkouts, every step of every session issues one free holding under a key not used
\* for it before, takes one back, or changes nothing.
THEOREM LedgerImplemented == Spec => ImplementsLedger
<1>1. Init => Ledger!Init
  <2> SUFFICES ASSUME Init PROVE Ledger!Init OBVIOUS
  <2>1. idem = {} /\ \A h \in Holdings : OpenLoansOn(h) = {}
    BY DEF Init, NoLoan, OpenLoansOn
  <2> QED BY <2>1 DEF Ledger!Init, BorrowersOf, IssuedPairs
<1>2. TypeInv /\ SafeInv /\ [Next]_vars => [Ledger!Next]_(Ledger!vars)
  BY StepKinds, CheckoutIssues, ReturnReturns, OthersStutter DEF Writes
<1> QED BY <1>1, <1>2, Safety, PTL DEF Spec, ImplementsLedger, Ledger!Spec
=============================================================================
