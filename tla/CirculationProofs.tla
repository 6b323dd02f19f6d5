------------------------- MODULE CirculationProofs -------------------------
(***************************************************************************)
(* Theorems about Circulation, for any number of sessions, patrons,        *)
(* holdings, loans and keys.                                               *)
(***************************************************************************)
EXTENDS Circulation, FiniteSetTheorems, TLAPS

USE CatalogOfAssumption, CirculatingAssumption, LimitsAssumption, FiniteAssumption,
    NoneAssumption, IdsAssumption

\* The fields a request must carry at each point of its handler: checkout has a
\* patron, a holding and a key, return_holding a key and one of the two ids.
RequestWellFormed(s) ==
  /\ req[s].op = "checkout" =>
       /\ req[s].patron \in Patrons /\ req[s].holding \in Holdings
       /\ req[s].loan = None /\ req[s].key \in Keys
  /\ req[s].op = "return" => req[s].patron = None /\ req[s].key \in Keys
  /\ req[s].op = "withdraw" => req[s].holding \in Holdings
  /\ pc[s] = "idle" => req[s] = NoReq /\ resp[s] = NoResp
  /\ pc[s] = "find_cached" => req[s].op \in {"checkout", "return"}
  /\ pc[s] \in {"check_patron", "count_loans", "resolve_policy", "commit_checkout"} =>
       req[s].op = "checkout"
  /\ pc[s] \in {"count_loans", "resolve_policy", "commit_checkout"} =>
       local[s].ptype \in PatronTypes
  /\ pc[s] = "lock_holding" =>
       /\ req[s].op \in {"checkout", "return"} /\ req[s].holding \in Holdings
       /\ req[s].op = "checkout" => local[s].ptype \in PatronTypes
  /\ pc[s] \in {"lock_loan", "lock_loan_holding", "commit_return"} => req[s].op = "return"
  /\ pc[s] \in {"lock_loan", "lock_loan_holding"} =>
       req[s].holding = None /\ req[s].loan \in LoanIds
  /\ pc[s] = "commit_return" => req[s].holding # None \/ req[s].loan # None
  /\ pc[s] \in {"lock_loan_holding", "commit_return"} =>
       local[s].loan \in LoanIds /\ loans[local[s].loan].state # "none"
  /\ pc[s] \in {"read_holding", "commit_withdraw"} => req[s].op = "withdraw"

RequestsWellFormed == \A s \in Sessions : RequestWellFormed(s)

LoansWellFormed ==
  \A l \in LoanIds : loans[l].state # "none" =>
    loans[l].patron \in Patrons /\ loans[l].holding \in Holdings

TypeInv == TypeOK /\ RequestsWellFormed /\ LoansWellFormed

\* What every answer preserves: the session's own variables stay well formed.
LEMMA AnswerType ==
  ASSUME TypeInv, NEW s \in Sessions, NEW code \in Codes, NEW l \in LoanIds \cup {None},
         Answer(s, code, l), LoansWellFormed',
         \A m \in LoanIds : loans[m].state # "none" => loans'[m].state # "none"
  PROVE  SessionsTypeOK' /\ RequestsWellFormed'
<1>1. /\ holdingLock' \in [Holdings -> Sessions \cup {None}]
      /\ loanLock' \in [LoanIds -> Sessions \cup {None}]
  BY DEF TypeInv, TypeOK, TablesTypeOK, SessionsTypeOK, Answer, ReleaseLocks
<1>2. /\ pc' \in [Sessions -> PCs] /\ req' \in [Sessions -> Request]
      /\ local' \in [Sessions -> Local] /\ resp' \in [Sessions -> Response]
  BY DEF TypeInv, TypeOK, TablesTypeOK, SessionsTypeOK, Answer, Goto, PCs, Local, NoLocal, Response
<1>3. RequestsWellFormed'
  BY DEF TypeInv, TypeOK, TablesTypeOK, SessionsTypeOK, RequestsWellFormed, RequestWellFormed, Answer, Goto
<1> QED BY <1>1, <1>2, <1>3 DEF SessionsTypeOK

LEMMA FailType ==
  ASSUME TypeInv, NEW s \in Sessions, NEW code \in Codes, Fail(s, code)
  PROVE  TypeInv'
<1>1. Answer(s, code, None) /\ UNCHANGED tables
  BY DEF Fail
<1>2. LoansWellFormed' /\ \A m \in LoanIds : loans[m].state # "none" => loans'[m].state # "none"
  BY <1>1 DEF TypeInv, LoansWellFormed, tables
<1>3. TablesTypeOK' BY <1>1 DEF TypeInv, TypeOK, TablesTypeOK, tables
<1>4. SessionsTypeOK' /\ RequestsWellFormed'
  <2> None \in LoanIds \cup {None} OBVIOUS
  <2> QED BY ONLY TypeInv, s \in Sessions, code \in Codes, None \in LoanIds \cup {None},
                  <1>1, <1>2, AnswerType
<1> QED BY <1>2, <1>3, <1>4 DEF TypeInv, TypeOK

LEMMA EndRequestType ==
  ASSUME TypeInv, NEW s \in Sessions, EndRequest(s)
  PROVE  TypeInv'
<1>1. TypeOK'
  BY DEF TypeInv, TypeOK, TablesTypeOK, SessionsTypeOK, EndRequest, ReleaseLocks, Goto, tables, PCs, Request, NoReq,
         Local, NoLocal, Response, NoResp, Codes
<1>2. RequestsWellFormed'
  BY DEF TypeInv, TypeOK, TablesTypeOK, SessionsTypeOK, RequestsWellFormed, RequestWellFormed, EndRequest, Goto, tables, NoReq
<1>3. LoansWellFormed'
  BY DEF TypeInv, LoansWellFormed, EndRequest, tables
<1> QED BY <1>1, <1>2, <1>3 DEF TypeInv

LEMMA PostType ==
  ASSUME TypeInv, NEW s \in Sessions, Post(s)
  PROVE  TypeInv'
<1>1. ASSUME NEW q \in Request, NEW label \in {"find_cached", "read_holding"},
             Accept(s, q, label),
             q.op = "checkout" => /\ q.patron \in Patrons /\ q.holding \in Holdings
                                  /\ q.loan = None /\ q.key \in Keys,
             q.op = "return" => q.patron = None /\ q.key \in Keys,
             q.op = "withdraw" => q.holding \in Holdings,
             label = "find_cached" => q.op \in {"checkout", "return"},
             label = "read_holding" => q.op = "withdraw"
      PROVE  TypeInv'
  <2>1. TypeOK'
    BY <1>1 DEF TypeInv, TypeOK, TablesTypeOK, SessionsTypeOK, Accept, Goto, tables, locks, PCs
  <2>2. RequestsWellFormed'
    BY <1>1 DEF TypeInv, TypeOK, TablesTypeOK, SessionsTypeOK, RequestsWellFormed, RequestWellFormed, Accept, Goto, tables
  <2>3. LoansWellFormed'
    BY <1>1 DEF TypeInv, LoansWellFormed, Accept, tables
  <2> QED BY <2>1, <2>2, <2>3 DEF TypeInv
<1>2. ASSUME NEW p \in Patrons, NEW h \in Holdings, NEW k \in Keys, PostCheckout(s, p, h, k)
      PROVE  TypeInv'
  BY <1>1, <1>2 DEF PostCheckout, CheckoutOf, Request
<1>3. ASSUME NEW h \in Holdings \cup {None}, NEW l \in LoanIds \cup {None}, NEW k \in Keys,
             PostReturn(s, h, l, k)
      PROVE  TypeInv'
  BY <1>1, <1>3 DEF PostReturn, Request
<1>4. ASSUME NEW h \in Holdings, PostWithdraw(s, h)
      PROVE  TypeInv'
  BY <1>1, <1>4 DEF PostWithdraw, Request
<1> QED BY <1>2, <1>3, <1>4 DEF Post

\* The rejections all end in Fail.
LEMMA RejectType ==
  ASSUME TypeInv, NEW s \in Sessions,
         \/ RejectUnnamedReturn(s) \/ RejectReusedKey(s) \/ RejectPatron(s)
         \/ RejectHolding(s) \/ RejectPolicy(s) \/ AbortCheckout(s) \/ RejectNoOpenLoan(s)
         \/ RejectNoLoan(s) \/ AbortReturn(s) \/ RejectWithdraw(s) \/ DeadlockVictim(s)
  PROVE  TypeInv' /\ \E code \in Codes : Fail(s, code)
<1>1. \E code \in Codes : Fail(s, code)
  BY DEF RejectUnnamedReturn, RejectReusedKey, RejectPatron, RejectHolding, RejectPolicy,
         AbortCheckout, RejectNoOpenLoan, RejectNoLoan, AbortReturn, RejectWithdraw,
         DeadlockVictim, Codes
<1> QED BY <1>1, FailType


\* The steps that move a handler on without writing a table.
LEMMA ReadStepType ==
  ASSUME TypeInv, NEW s \in Sessions,
         \/ CacheMiss(s) \/ CheckPatron(s) \/ CountOpenLoans(s) \/ LockForCheckout(s)
         \/ ResolvePolicy(s) \/ LockForReturn(s) \/ LockLoan(s) \/ LockHoldingOfLoan(s)
         \/ ReadForWithdraw(s)
  PROVE  TypeInv'
<1>0. local[s] \in Local BY DEF TypeInv, TypeOK, SessionsTypeOK
<1>1. LoansWellFormed'
  BY DEF TypeInv, LoansWellFormed, tables, CacheMiss, CheckPatron, CountOpenLoans, LockForCheckout,
         ResolvePolicy, LockForReturn, LockLoan, LockHoldingOfLoan, ReadForWithdraw
<1>2. CASE CacheMiss(s)
  <2> USE DEF TypeInv, TypeOK, TablesTypeOK, SessionsTypeOK, Goto, tables, locks, PCs
  <2>1. TypeOK' BY <1>2 DEF CacheMiss
  <2>2. RequestsWellFormed' BY <1>2 DEF CacheMiss, CacheLookup, RequestsWellFormed, RequestWellFormed, Request
  <2> QED BY <1>1, <2>1, <2>2
<1>3. CASE CheckPatron(s)
  <2>1. patrons[req[s].patron].type \in PatronTypes
    BY <1>3 DEF CheckPatron, TypeInv, TypeOK, TablesTypeOK, RequestsWellFormed, RequestWellFormed, PatronRow
  <2> DEFINE rec == [local[s] EXCEPT !.ptype = patrons[req[s].patron].type]
  <2>2. local' = [local EXCEPT ![s] = rec] BY <1>3 DEF CheckPatron
  <2>3. rec \in Local /\ rec.ptype \in PatronTypes BY <1>0, <2>1 DEF Local
  <2> HIDE DEF rec
  <2> USE DEF TypeInv, TypeOK, TablesTypeOK, SessionsTypeOK, Goto, tables, locks, PCs
  <2>4. TypeOK' BY <1>3, <2>2, <2>3 DEF CheckPatron
  <2>5. RequestsWellFormed'
    <3>1. RequestWellFormed(s)'
      BY <1>3, <2>2, <2>3 DEF CheckPatron, RequestsWellFormed, RequestWellFormed
    <3>2. ASSUME NEW t \in Sessions, t # s PROVE RequestWellFormed(t)'
      BY <1>3, <2>2, <3>2 DEF CheckPatron, RequestsWellFormed, RequestWellFormed
    <3> QED BY <3>1, <3>2 DEF RequestsWellFormed
  <2> QED BY <1>1, <2>4, <2>5
<1>4. CASE CountOpenLoans(s)
  <2>1. Cardinality(OpenLoansOf(req[s].patron)) \in Nat
    BY FS_Subset, FS_CardinalityType DEF OpenLoansOf
  <2> DEFINE rec == [local[s] EXCEPT !.count = Cardinality(OpenLoansOf(req[s].patron))]
  <2>2. local' = [local EXCEPT ![s] = rec] BY <1>4 DEF CountOpenLoans
  <2>3. rec \in Local /\ rec.ptype = local[s].ptype BY <1>0, <2>1 DEF Local
  <2> HIDE DEF rec
  <2> USE DEF TypeInv, TypeOK, TablesTypeOK, SessionsTypeOK, Goto, tables, locks, PCs
  <2>4. TypeOK' BY <1>4, <2>2, <2>3 DEF CountOpenLoans
  <2>5. RequestsWellFormed' BY <1>4, <2>2, <2>3 DEF CountOpenLoans, RequestsWellFormed, RequestWellFormed
  <2> QED BY <1>1, <2>4, <2>5
<1>5. CASE LockForCheckout(s)
  <2> USE DEF TypeInv, TypeOK, TablesTypeOK, SessionsTypeOK, Goto, tables, locks, PCs
  <2>1. TypeOK' BY <1>5 DEF LockForCheckout, AwaitsCheckoutLock, RequestsWellFormed, RequestWellFormed
  <2>2. RequestsWellFormed'
    BY <1>5 DEF LockForCheckout, AwaitsCheckoutLock, RequestsWellFormed, RequestWellFormed
  <2> QED BY <1>1, <2>1, <2>2
<1>6. CASE ResolvePolicy(s)
  <2> USE DEF TypeInv, TypeOK, TablesTypeOK, SessionsTypeOK, Goto, tables, locks, PCs
  <2>1. TypeOK' BY <1>6 DEF ResolvePolicy
  <2>2. RequestsWellFormed' BY <1>6 DEF ResolvePolicy, RequestsWellFormed, RequestWellFormed
  <2> QED BY <1>1, <2>1, <2>2
<1>7. CASE LockForReturn(s)
  <2>1. PICK l \in OpenLoansOn(req[s].holding) :
          local' = [local EXCEPT ![s].loan = l, ![s].view = "open"]
    BY <1>7 DEF LockForReturn
  <2>2. l \in LoanIds /\ loans[l].state # "none" BY DEF OpenLoansOn
  <2> DEFINE rec == [local[s] EXCEPT !.loan = l, !.view = "open"]
  <2>3. local' = [local EXCEPT ![s] = rec] BY <2>1
  <2>4. rec \in Local /\ rec.loan = l BY <1>0, <2>2 DEF Local
  <2> HIDE DEF rec
  <2> USE DEF TypeInv, TypeOK, TablesTypeOK, SessionsTypeOK, Goto, tables, locks, PCs
  <2>5. req[s].op = "return" BY <1>7 DEF LockForReturn, AwaitsReturnLock
  <2>6. TypeOK'
    BY <1>7, <2>3, <2>4 DEF LockForReturn, AwaitsReturnLock, RequestsWellFormed, RequestWellFormed
  <2>7. RequestsWellFormed'
    <3>1. RequestWellFormed(s)'
      BY <1>7, <2>2, <2>3, <2>4, <2>5
      DEF LockForReturn, AwaitsReturnLock, RequestsWellFormed, RequestWellFormed
    <3>2. ASSUME NEW t \in Sessions, t # s PROVE RequestWellFormed(t)'
      BY <1>7, <2>3, <3>2 DEF LockForReturn, RequestsWellFormed, RequestWellFormed
    <3> QED BY <3>1, <3>2 DEF RequestsWellFormed
  <2> QED BY <1>1, <2>6, <2>7
<1>8. CASE LockLoan(s)
  <2>1. loans[req[s].loan].state \in {"open", "returned"} /\ req[s].loan \in LoanIds
    BY <1>8 DEF LockLoan, TypeInv, TypeOK, TablesTypeOK, RequestsWellFormed, RequestWellFormed, LoanRow
  <2> DEFINE seen == IF local[s].view = "unread" THEN loans[req[s].loan].state
                                                ELSE local[s].view
             rec == [local[s] EXCEPT !.loan = req[s].loan, !.view = seen]
  <2>2. local' = [local EXCEPT ![s] = rec] BY <1>8 DEF LockLoan
  <2>3. seen \in {"unread", "open", "returned"} BY <1>0, <2>1 DEF Local
  <2> HIDE DEF seen
  <2>4. rec \in Local /\ rec.loan = req[s].loan BY <1>0, <2>1, <2>3 DEF Local
  <2> HIDE DEF rec
  <2> USE DEF TypeInv, TypeOK, TablesTypeOK, SessionsTypeOK, Goto, tables, locks, PCs
  <2>5. TypeOK'
    <3>1. /\ loanLock' = [loanLock EXCEPT ![req[s].loan] = s]
          /\ Goto(s, "lock_loan_holding")
          /\ UNCHANGED <<tables, holdingLock, req, resp>>
      BY <1>8 DEF LockLoan
    <3> QED BY <2>1, <2>2, <2>4, <3>1
  <2>6. RequestsWellFormed'
    <3>1. RequestWellFormed(s)'
      BY <1>8, <2>1, <2>2, <2>4 DEF LockLoan, RequestsWellFormed, RequestWellFormed
    <3>2. ASSUME NEW t \in Sessions, t # s PROVE RequestWellFormed(t)'
      BY <1>8, <2>2, <3>2 DEF LockLoan, RequestsWellFormed, RequestWellFormed
    <3> QED BY <3>1, <3>2 DEF RequestsWellFormed
  <2> QED BY <1>1, <2>5, <2>6
<1>9. CASE LockHoldingOfLoan(s)
  <2> USE DEF TypeInv, TypeOK, TablesTypeOK, SessionsTypeOK, Goto, tables, locks, PCs
  <2>1. TypeOK' BY <1>9 DEF LockHoldingOfLoan, RequestsWellFormed, RequestWellFormed
  <2>2. RequestsWellFormed' BY <1>9 DEF LockHoldingOfLoan, RequestsWellFormed, RequestWellFormed
  <2> QED BY <1>1, <2>1, <2>2
<1>10. CASE ReadForWithdraw(s)
  <2> USE DEF TypeInv, TypeOK, TablesTypeOK, SessionsTypeOK, Goto, tables, locks, PCs
  <2>1. TypeOK' BY <1>10 DEF ReadForWithdraw
  <2>2. RequestsWellFormed' BY <1>10 DEF ReadForWithdraw, RequestsWellFormed, RequestWellFormed
  <2> QED BY <1>1, <2>1, <2>2
<1> QED BY <1>2, <1>3, <1>4, <1>5, <1>6, <1>7, <1>8, <1>9, <1>10

\* The record a commit stores is an idempotency record.
LEMMA RecordType ==
  ASSUME TypeInv, NEW s \in Sessions, NEW l \in LoanIds,
         \/ pc[s] = "commit_checkout" \/ pc[s] = "commit_return"
  PROVE  Record(req[s], l) \in IdempotencyRecord
<1>1. req[s] \in Request BY DEF TypeInv, TypeOK, TablesTypeOK, SessionsTypeOK
<1>2. Scope(req[s]) \in Scopes
  BY <1>1 DEF TypeInv, RequestsWellFormed, RequestWellFormed, Scope, Scopes, Request
<1>3. Payload(req[s]) \in Payloads /\ req[s].key \in Keys
  BY <1>1 DEF TypeInv, RequestsWellFormed, RequestWellFormed, Payload, Payloads, Request
<1> QED BY <1>2, <1>3 DEF Record, IdempotencyRecord

LEMMA CommitType ==
  ASSUME TypeInv, NEW s \in Sessions,
         \/ CommitCheckout(s) \/ CommitReturn(s) \/ CommitRepeatedReturn(s)
         \/ CommitWithdraw(s) \/ RepeatWithdraw(s) \/ ReplayCached(s)
  PROVE  TypeInv'
<1>1. CASE CommitCheckout(s)
  <2>1. PICK l \in Unused :
          /\ loans' = [loans EXCEPT ![l] = [state |-> "open", patron |-> req[s].patron,
                                            holding |-> req[s].holding]]
          /\ holdingStatus' = [holdingStatus EXCEPT ![req[s].holding] = "ON_LOAN"]
          /\ idem' = idem \cup {Record(req[s], l)}
          /\ Answer(s, 201, l)
          /\ UNCHANGED <<patrons, limit, catalogStatus>>
          /\ pc[s] = "commit_checkout"
    BY <1>1 DEF CommitCheckout
  <2>2. l \in LoanIds /\ req[s].patron \in Patrons /\ req[s].holding \in Holdings
    BY <2>1 DEF Unused, TypeInv, RequestsWellFormed, RequestWellFormed
  <2>3. LoansWellFormed' /\ \A m \in LoanIds : loans[m].state # "none" => loans'[m].state # "none"
    BY <2>1, <2>2 DEF TypeInv, TypeOK, TablesTypeOK, SessionsTypeOK, LoansWellFormed, LoanRow, Unused
  <2>4. idem' \subseteq IdempotencyRecord
    BY <2>1, <2>2, RecordType DEF TypeInv, TypeOK, TablesTypeOK, SessionsTypeOK
  <2>5. /\ loans' \in [LoanIds -> LoanRow]
        /\ holdingStatus' \in [Holdings -> {"AVAILABLE", "ON_LOAN", "WITHDRAWN"}]
    BY <2>1, <2>2 DEF TypeInv, TypeOK, TablesTypeOK, SessionsTypeOK, LoanRow
  <2>6. SessionsTypeOK' /\ RequestsWellFormed' BY <2>1, <2>2, <2>3, AnswerType DEF Codes
  <2>7. TablesTypeOK' BY <2>1, <2>4, <2>5 DEF TypeInv, TypeOK, TablesTypeOK
  <2> QED BY <2>3, <2>6, <2>7 DEF TypeInv, TypeOK
<1>2. CASE CommitReturn(s)
  <2>1. local[s].loan \in LoanIds /\ loans[local[s].loan].holding \in Holdings
    BY <1>2 DEF CommitReturn, TypeInv, RequestsWellFormed, RequestWellFormed, LoansWellFormed
  <2>2. LoansWellFormed' /\ \A m \in LoanIds : loans[m].state # "none" => loans'[m].state # "none"
    BY <1>2, <2>1 DEF CommitReturn, TypeInv, TypeOK, TablesTypeOK, SessionsTypeOK, LoansWellFormed, RequestsWellFormed, RequestWellFormed, LoanRow
  <2>3. idem' \subseteq IdempotencyRecord
    BY <1>2, <2>1, RecordType DEF CommitReturn, TypeInv, TypeOK, TablesTypeOK, SessionsTypeOK
  <2>4. /\ loans' \in [LoanIds -> LoanRow]
        /\ holdingStatus' \in [Holdings -> {"AVAILABLE", "ON_LOAN", "WITHDRAWN"}]
    <3>1. [loans[local[s].loan] EXCEPT !.state = "returned"] \in LoanRow
      BY <2>1 DEF TypeInv, TypeOK, TablesTypeOK, LoanRow
    <3> QED BY <1>2, <2>1, <3>1 DEF CommitReturn, TypeInv, TypeOK, TablesTypeOK
  <2>5. SessionsTypeOK' /\ RequestsWellFormed'
    BY <1>2, <2>1, <2>2, AnswerType DEF CommitReturn, Codes
  <2>6. TablesTypeOK' BY <1>2, <2>3, <2>4 DEF CommitReturn, TypeInv, TypeOK, TablesTypeOK
  <2> QED BY <2>2, <2>5, <2>6 DEF TypeInv, TypeOK
<1>3. CASE CommitRepeatedReturn(s)
  <2>1. local[s].loan \in LoanIds
    BY <1>3 DEF CommitRepeatedReturn, TypeInv, RequestsWellFormed, RequestWellFormed
  <2>2. LoansWellFormed' /\ \A m \in LoanIds : loans[m].state # "none" => loans'[m].state # "none"
    BY <1>3 DEF CommitRepeatedReturn, TypeInv, LoansWellFormed
  <2>3. idem' \subseteq IdempotencyRecord
    BY <1>3, <2>1, RecordType DEF CommitRepeatedReturn, TypeInv, TypeOK, TablesTypeOK, SessionsTypeOK
  <2>4. SessionsTypeOK' /\ RequestsWellFormed'
    BY <1>3, <2>1, <2>2, AnswerType DEF CommitRepeatedReturn, Codes
  <2>5. TablesTypeOK' BY <1>3, <2>3 DEF CommitRepeatedReturn, TypeInv, TypeOK, TablesTypeOK
  <2> QED BY <2>2, <2>4, <2>5 DEF TypeInv, TypeOK
<1>4. CASE CommitWithdraw(s) \/ RepeatWithdraw(s)
  <2>1. Answer(s, 200, None) /\ UNCHANGED <<patrons, limit, catalogStatus, loans, idem>>
    BY <1>4 DEF CommitWithdraw, RepeatWithdraw, tables
  <2>2. holdingStatus' \in [Holdings -> {"AVAILABLE", "ON_LOAN", "WITHDRAWN"}]
    BY <1>4 DEF CommitWithdraw, RepeatWithdraw, tables, TypeInv, TypeOK, TablesTypeOK, SessionsTypeOK, RequestsWellFormed, RequestWellFormed
  <2>3. LoansWellFormed' /\ \A m \in LoanIds : loans[m].state # "none" => loans'[m].state # "none"
    BY <2>1 DEF TypeInv, LoansWellFormed
  <2>4. SessionsTypeOK' /\ RequestsWellFormed' BY <2>1, <2>3, AnswerType DEF Codes
  <2>5. TablesTypeOK' BY <2>1, <2>2 DEF TypeInv, TypeOK, TablesTypeOK
  <2> QED BY <2>3, <2>4, <2>5 DEF TypeInv, TypeOK
<1>5. CASE ReplayCached(s)
  <2>1. PICK r \in Stored(req[s]) :
          Answer(s, IF req[s].op = "checkout" THEN 201 ELSE 200, r.result) /\ UNCHANGED tables
    BY <1>5 DEF ReplayCached
  <2>2. r.result \in LoanIds BY DEF Stored, TypeInv, TypeOK, TablesTypeOK, SessionsTypeOK, IdempotencyRecord
  <2>3. LoansWellFormed' /\ \A m \in LoanIds : loans[m].state # "none" => loans'[m].state # "none"
    BY <2>1 DEF TypeInv, LoansWellFormed, tables
  <2>4. (IF req[s].op = "checkout" THEN 201 ELSE 200) \in Codes BY DEF Codes
  <2>5. SessionsTypeOK' /\ RequestsWellFormed' BY <2>1, <2>2, <2>3, <2>4, AnswerType
  <2>6. TablesTypeOK' BY <2>1 DEF TypeInv, TypeOK, TablesTypeOK, tables
  <2> QED BY <2>3, <2>5, <2>6 DEF TypeInv, TypeOK
<1> QED BY <1>1, <1>2, <1>3, <1>4, <1>5

LEMMA StaffType ==
  ASSUME TypeInv, StaffStep
  PROVE  TypeInv'
<1>1. TypeOK'
  BY DEF TypeInv, TypeOK, TablesTypeOK, SessionsTypeOK, StaffStep, SuspendPatron, ExitPatron, SetPatronStatus, SetPatronBlock,
         UpdatePatronType, UpdateLoanRuleSet, PublishCatalog, SuppressCatalog,
         SetCatalogingStatus, otherThanPatrons, locks, PatronRow
<1>2. UNCHANGED <<pc, req, local, resp, loans>>
  BY DEF StaffStep, SuspendPatron, ExitPatron, SetPatronStatus, SetPatronBlock,
         UpdatePatronType, UpdateLoanRuleSet, PublishCatalog, SuppressCatalog,
         SetCatalogingStatus, otherThanPatrons
<1> QED BY <1>1, <1>2 DEF TypeInv, RequestsWellFormed, RequestWellFormed, LoansWellFormed

\* Every value the tables, the locks and the sessions of Circulation hold is of its
\* type, and every handler has the request fields it reads: no step of checkout,
\* return_holding or withdraw_holding dereferences a missing id.
THEOREM TypeCorrect == Spec => [](TypeOK /\ RequestsWellFormed /\ LoansWellFormed)
<1>1. Init => TypeInv
  <2> SUFFICES ASSUME Init PROVE TypeInv OBVIOUS
  <2>1. TypeOK
    BY DEF Init, TypeOK, TablesTypeOK, SessionsTypeOK, NoLoan, LoanRow, PCs, NoReq, Request, NoLocal, Local, NoResp,
           Response, Codes
  <2>2. RequestsWellFormed /\ LoansWellFormed
    BY DEF Init, RequestsWellFormed, RequestWellFormed, LoansWellFormed, NoLoan, NoReq, NoResp
  <2> QED BY <2>1, <2>2 DEF TypeInv
<1>2. TypeInv /\ [Next]_vars => TypeInv'
  <2> SUFFICES ASSUME TypeInv, [Next]_vars PROVE TypeInv' OBVIOUS
  <2>1. ASSUME NEW s \in Sessions, SessionStep(s) PROVE TypeInv'
    BY <2>1, PostType, RejectType, ReadStepType, CommitType, EndRequestType
    DEF SessionStep, LockingStep, FreeStep, Reply, Crash
  <2>2. CASE StaffStep BY <2>2, StaffType
  <2>3. CASE UNCHANGED vars
    <3>1. UNCHANGED <<patrons, limit, catalogStatus, holdingStatus, loans, idem,
                      holdingLock, loanLock, pc, req, local, resp>>
      BY <2>3 DEF vars, tables, locks
    <3> QED BY <3>1 DEF TypeInv, TypeOK, TablesTypeOK, SessionsTypeOK, RequestsWellFormed, RequestWellFormed, LoansWellFormed
  <2> QED BY <2>1, <2>2, <2>3 DEF Next
<1> QED BY <1>1, <1>2, PTL DEF Spec, TypeInv

-----------------------------------------------------------------------------
(* The ledger's safety.  HoldingMatchesLoans is not inductive by itself: it  *)
(* needs what a session that is past its checks can rely on because of the   *)
(* row locks it holds.                                                       *)

LocksProtect(s) ==
  /\ pc[s] \in {"resolve_policy", "commit_checkout"} =>
       /\ holdingLock[req[s].holding] = s
       /\ holdingStatus[req[s].holding] = "AVAILABLE"
  /\ pc[s] = "commit_return" =>
       /\ holdingLock[loans[local[s].loan].holding] = s
       /\ req[s].holding # None => loans[local[s].loan].holding = req[s].holding
       /\ req[s].holding = None => local[s].loan = req[s].loan
  /\ pc[s] = "lock_loan_holding" =>
       loanLock[local[s].loan] = s /\ local[s].loan = req[s].loan
  /\ pc[s] \in {"lock_loan_holding", "commit_return"} =>
       local[s].view = loans[local[s].loan].state
  /\ pc[s] \in {"idle", "find_cached", "lock_loan"} => local[s].view = "unread"

SafeInv == HoldingMatchesLoans /\ \A s \in Sessions : LocksProtect(s)

\* A session that gives up its locks and leaves its handler, the tables unchanged.
LEMMA LeaveSafe ==
  ASSUME TypeInv, SafeInv, NEW s \in Sessions, ReleaseLocks(s), UNCHANGED tables,
         \/ EndRequest(s)
         \/ \E code \in Codes, l \in LoanIds \cup {None} : Answer(s, code, l)
  PROVE  SafeInv'
<1>1. /\ pc' = [pc EXCEPT ![s] = "idle"] \/ pc' = [pc EXCEPT ![s] = "done"]
      /\ \A t \in Sessions \ {s} : req'[t] = req[t] /\ local'[t] = local[t]
      /\ local'[s] = NoLocal
  BY DEF EndRequest, Answer, Goto, TypeInv, TypeOK, SessionsTypeOK
<1>2. LocksProtect(s)'
  BY <1>1 DEF LocksProtect, NoLocal, TypeInv, TypeOK, SessionsTypeOK
<1>3. ASSUME NEW t \in Sessions, t # s PROVE LocksProtect(t)'
  BY <1>1, <1>3 DEF SafeInv, LocksProtect, ReleaseLocks, tables, TypeInv, TypeOK,
     TablesTypeOK, SessionsTypeOK, RequestsWellFormed, RequestWellFormed, LoansWellFormed
<1>4. HoldingMatchesLoans'
  BY DEF SafeInv, HoldingMatchesLoans, OpenLoansOn, tables
<1> QED BY <1>2, <1>3, <1>4 DEF SafeInv

\* A step that takes at most a free lock and writes no table leaves what the other
\* sessions rely on.
LEMMA OthersSafe ==
  ASSUME TypeInv, SafeInv, NEW s \in Sessions, NEW t \in Sessions, t # s, UNCHANGED tables,
         pc'[t] = pc[t], req'[t] = req[t], local'[t] = local[t],
         \A h \in Holdings : holdingLock[h] = t => holdingLock'[h] = t,
         \A l \in LoanIds : loanLock[l] = t => loanLock'[l] = t
  PROVE  LocksProtect(t)'
BY DEF SafeInv, LocksProtect, tables, TypeInv, TypeOK, TablesTypeOK, SessionsTypeOK,
       RequestsWellFormed, RequestWellFormed, LoansWellFormed

LEMMA PostSafe ==
  ASSUME TypeInv, SafeInv, NEW s \in Sessions, Post(s)
  PROVE  SafeInv'
<1>1. PICK q \in {req'[s]}, label \in {"find_cached", "read_holding"} : Accept(s, q, label)
  BY DEF Post, PostCheckout, CheckoutOf, PostReturn, PostWithdraw, Accept, TypeInv, TypeOK, SessionsTypeOK
<1>2. LocksProtect(s)'
  BY <1>1 DEF Accept, Goto, SafeInv, LocksProtect, TypeInv, TypeOK, SessionsTypeOK
<1>3. ASSUME NEW t \in Sessions, t # s PROVE LocksProtect(t)'
  BY <1>1, <1>3, OthersSafe DEF Accept, Goto, locks, TypeInv, TypeOK, SessionsTypeOK
<1>4. HoldingMatchesLoans'
  BY <1>1 DEF Accept, SafeInv, HoldingMatchesLoans, OpenLoansOn, tables
<1> QED BY <1>2, <1>3, <1>4 DEF SafeInv

LEMMA ReadStepSafe ==
  ASSUME TypeInv, SafeInv, NEW s \in Sessions,
         \/ CacheMiss(s) \/ CheckPatron(s) \/ CountOpenLoans(s) \/ LockForCheckout(s)
         \/ ResolvePolicy(s) \/ LockForReturn(s) \/ LockLoan(s) \/ LockHoldingOfLoan(s)
         \/ ReadForWithdraw(s)
  PROVE  SafeInv'
<1>1. UNCHANGED tables /\ UNCHANGED req
  BY DEF CacheMiss, CheckPatron, CountOpenLoans, LockForCheckout, ResolvePolicy,
         LockForReturn, LockLoan, LockHoldingOfLoan, ReadForWithdraw
<1>2. HoldingMatchesLoans'
  BY <1>1 DEF SafeInv, HoldingMatchesLoans, OpenLoansOn, tables
<1>3. ASSUME NEW t \in Sessions, t # s PROVE LocksProtect(t)'
  <2>1. \A h \in Holdings : holdingLock[h] = t => holdingLock'[h] = t
    BY <1>3 DEF CacheMiss, CheckPatron, CountOpenLoans, LockForCheckout, ResolvePolicy,
           LockForReturn, LockLoan, LockHoldingOfLoan, ReadForWithdraw, locks,
           AwaitsCheckoutLock, AwaitsReturnLock, FreeHolding, TypeInv, TypeOK, SessionsTypeOK
  <2>2. \A l \in LoanIds : loanLock[l] = t => loanLock'[l] = t
    BY <1>3 DEF CacheMiss, CheckPatron, CountOpenLoans, LockForCheckout, ResolvePolicy,
           LockForReturn, LockLoan, LockHoldingOfLoan, ReadForWithdraw, locks, FreeLoan,
           TypeInv, TypeOK, SessionsTypeOK
  <2>3. pc'[t] = pc[t] /\ local'[t] = local[t] /\ req'[t] = req[t]
    BY <1>3 DEF CacheMiss, CheckPatron, CountOpenLoans, LockForCheckout, ResolvePolicy,
           LockForReturn, LockLoan, LockHoldingOfLoan, ReadForWithdraw, Goto,
           TypeInv, TypeOK, SessionsTypeOK
  <2> QED BY <1>1, <1>3, <2>1, <2>2, <2>3, OthersSafe
<1>4. LocksProtect(s)'
  <2>1. CASE CacheMiss(s) \/ CheckPatron(s) \/ CountOpenLoans(s) \/ ReadForWithdraw(s)
    <3>1. pc'[s] \notin {"resolve_policy", "commit_checkout", "commit_return",
                         "lock_loan_holding", "idle", "find_cached"}
      BY <2>1 DEF CacheMiss, CheckPatron, CountOpenLoans, ReadForWithdraw, Goto, TypeInv,
             TypeOK, SessionsTypeOK
    <3>2. pc'[s] = "lock_loan" => local'[s].view = "unread"
      BY <2>1 DEF CacheMiss, CacheLookup, CheckPatron, CountOpenLoans, ReadForWithdraw, Goto,
             SafeInv, LocksProtect, TypeInv, TypeOK, SessionsTypeOK
    <3> QED BY <3>1, <3>2 DEF LocksProtect
  <2>2. CASE LockForCheckout(s)
    BY <2>2 DEF LockForCheckout, AwaitsCheckoutLock, Lendable, Goto, tables, LocksProtect,
       TypeInv, TypeOK, SessionsTypeOK, RequestsWellFormed, RequestWellFormed
  <2>3. CASE ResolvePolicy(s)
    BY <2>3 DEF ResolvePolicy, Goto, tables, locks, SafeInv, LocksProtect, TypeInv, TypeOK,
       SessionsTypeOK
  <2>4. CASE LockForReturn(s)
    <3>1. PICK l \in OpenLoansOn(req[s].holding) :
            local' = [local EXCEPT ![s].loan = l, ![s].view = "open"]
      BY <2>4 DEF LockForReturn
    <3>2. loans[l].state = "open" /\ loans[l].holding = req[s].holding
      BY DEF OpenLoansOn
    <3> DEFINE rec == [local[s] EXCEPT !.loan = l, !.view = "open"]
    <3>3. local' = [local EXCEPT ![s] = rec] BY <3>1
    <3>4. rec.loan = l /\ rec.view = "open" BY DEF TypeInv, TypeOK, SessionsTypeOK, Local
    <3> HIDE DEF rec
    <3>5. local'[s] = rec BY <3>3 DEF TypeInv, TypeOK, SessionsTypeOK
    <3>6. pc'[s] = "commit_return" /\ holdingLock'[req[s].holding] = s /\ req[s].holding \in Holdings
      BY <2>4 DEF LockForReturn, AwaitsReturnLock, Goto, TypeInv, TypeOK, SessionsTypeOK,
             RequestsWellFormed, RequestWellFormed
    <3> QED BY <1>1, <3>2, <3>4, <3>5, <3>6 DEF LocksProtect, tables
  <2>5. CASE LockLoan(s)
    <3> DEFINE seen == IF local[s].view = "unread" THEN loans[req[s].loan].state
                                                  ELSE local[s].view
               rec == [local[s] EXCEPT !.loan = req[s].loan, !.view = seen]
    <3>1. local' = [local EXCEPT ![s] = rec] BY <2>5 DEF LockLoan
    <3>2. seen = loans[req[s].loan].state
      BY <2>5 DEF LockLoan, SafeInv, LocksProtect
    <3> HIDE DEF seen
    <3>3. rec.loan = req[s].loan /\ rec.view = seen BY DEF TypeInv, TypeOK, SessionsTypeOK, Local
    <3> HIDE DEF rec
    <3>4. local'[s] = rec BY <3>1 DEF TypeInv, TypeOK, SessionsTypeOK
    <3>5. pc'[s] = "lock_loan_holding" /\ loanLock'[req[s].loan] = s
      <4>1. loanLock' = [loanLock EXCEPT ![req[s].loan] = s] /\ Goto(s, "lock_loan_holding")
            /\ pc[s] = "lock_loan"
        BY <2>5 DEF LockLoan
      <4> QED
        BY <4>1 DEF Goto, TypeInv, TypeOK, SessionsTypeOK, RequestsWellFormed, RequestWellFormed
    <3> QED BY <1>1, <3>2, <3>3, <3>4, <3>5 DEF LocksProtect, tables
  <2>6. CASE LockHoldingOfLoan(s)
    <3>1. /\ pc[s] = "lock_loan_holding" /\ pc'[s] = "commit_return" /\ local' = local
          /\ holdingLock' = [holdingLock EXCEPT ![loans[local[s].loan].holding] = s]
      BY <2>6 DEF LockHoldingOfLoan, Goto, TypeInv, TypeOK, SessionsTypeOK
    <3>2. /\ loans[local[s].loan].holding \in Holdings
          /\ req[s].holding = None /\ local[s].loan = req[s].loan
          /\ local[s].view = loans[local[s].loan].state
      BY <3>1 DEF SafeInv, LocksProtect, TypeInv, RequestsWellFormed, RequestWellFormed,
             LoansWellFormed
    <3>3. holdingLock'[loans[local[s].loan].holding] = s
      BY <3>1, <3>2 DEF TypeInv, TypeOK, SessionsTypeOK
    <3> QED BY <1>1, <3>1, <3>2, <3>3 DEF LocksProtect, tables
  <2> QED BY <2>1, <2>2, <2>3, <2>4, <2>5, <2>6
<1> QED BY <1>2, <1>3, <1>4 DEF SafeInv

\* The session that commits ends its handler; what is left of LocksProtect is trivial.
LEMMA AnsweredSafe ==
  ASSUME TypeInv, NEW s \in Sessions, NEW code \in Codes, NEW l \in LoanIds \cup {None},
         Answer(s, code, l)
  PROVE  /\ LocksProtect(s)'
         /\ \A t \in Sessions \ {s} : /\ pc'[t] = pc[t] /\ req'[t] = req[t]
                                      /\ local'[t] = local[t]
         /\ \A t \in Sessions \ {s} :
              /\ \A h \in Holdings : holdingLock[h] = t => holdingLock'[h] = t
              /\ \A m \in LoanIds : loanLock[m] = t => loanLock'[m] = t
BY DEF Answer, Goto, ReleaseLocks, LocksProtect, TypeInv, TypeOK, SessionsTypeOK

LEMMA CommitCheckoutSafe ==
  ASSUME TypeInv, SafeInv, NEW s \in Sessions, CommitCheckout(s)
  PROVE  SafeInv'
<1>0. PICK h \in Holdings : h = req[s].holding
  BY DEF CommitCheckout, TypeInv, RequestsWellFormed, RequestWellFormed
<1>1. PICK l \in Unused :
        /\ loans' = [loans EXCEPT ![l] = [state |-> "open", patron |-> req[s].patron,
                                          holding |-> h]]
        /\ holdingStatus' = [holdingStatus EXCEPT ![h] = "ON_LOAN"]
        /\ Answer(s, 201, l)
        /\ pc[s] = "commit_checkout"
  BY <1>0 DEF CommitCheckout
<1>2. l \in LoanIds /\ loans[l].state = "none" /\ h \in Holdings
  BY DEF Unused
<1>3. holdingLock[h] = s /\ OpenLoansOn(h) = {}
  BY <1>0, <1>1, <1>2 DEF SafeInv, LocksProtect, HoldingMatchesLoans
<1>4. HoldingMatchesLoans'
  <2>1. OpenLoansOn(h)' = {l}
    BY <1>1, <1>2, <1>3 DEF OpenLoansOn, TypeInv, TypeOK, TablesTypeOK
  <2>2. ASSUME NEW g \in Holdings, g # h
        PROVE  OpenLoansOn(g)' = OpenLoansOn(g) /\ holdingStatus'[g] = holdingStatus[g]
    BY <1>1, <1>2, <2>2 DEF OpenLoansOn, TypeInv, TypeOK, TablesTypeOK
  <2>3. holdingStatus'[h] = "ON_LOAN"
    BY <1>1, <1>2 DEF TypeInv, TypeOK, TablesTypeOK
  <2> QED BY <2>1, <2>2, <2>3 DEF HoldingMatchesLoans, SafeInv
<1>5. ASSUME NEW t \in Sessions, t # s PROVE LocksProtect(t)'
  <2>0. l \in LoanIds \cup {None} /\ 201 \in Codes BY <1>2 DEF Codes
  <2>1. /\ pc'[t] = pc[t] /\ req'[t] = req[t] /\ local'[t] = local[t]
        /\ \A g \in Holdings : holdingLock[g] = t => holdingLock'[g] = t
        /\ \A m \in LoanIds : loanLock[m] = t => loanLock'[m] = t
    BY <1>1, <1>5, <2>0, AnsweredSafe
  <2>2. pc[t] \in {"lock_loan_holding", "commit_return"} =>
          local[t].loan \in LoanIds /\ loans'[local[t].loan] = loans[local[t].loan]
    BY <1>1, <1>2 DEF TypeInv, TypeOK, TablesTypeOK, RequestsWellFormed, RequestWellFormed
  <2>3. pc[t] \in {"resolve_policy", "commit_checkout"} =>
          holdingStatus'[req[t].holding] = holdingStatus[req[t].holding]
    BY <1>1, <1>2, <1>3, <1>5 DEF SafeInv, LocksProtect, TypeInv, TypeOK, TablesTypeOK,
       RequestsWellFormed, RequestWellFormed
  <2> QED BY <2>1, <2>2, <2>3 DEF SafeInv, LocksProtect, TypeInv, RequestsWellFormed,
             RequestWellFormed, LoansWellFormed
<1> QED BY <1>1, <1>2, <1>4, <1>5, AnsweredSafe DEF SafeInv, Codes

LEMMA CommitReturnSafe ==
  ASSUME TypeInv, SafeInv, NEW s \in Sessions, CommitReturn(s)
  PROVE  SafeInv'
<1>0. PICK l \in LoanIds, h \in Holdings : l = local[s].loan /\ h = loans[l].holding
  BY DEF CommitReturn, TypeInv, RequestsWellFormed, RequestWellFormed, LoansWellFormed
<1>1. /\ loans' = [loans EXCEPT ![l].state = "returned"]
      /\ holdingStatus' = [holdingStatus EXCEPT ![h] = "AVAILABLE"]
      /\ Answer(s, 200, l)
      /\ pc[s] = "commit_return" /\ local[s].view = "open" /\ FreeLoan(l, s)
  BY <1>0 DEF CommitReturn
<1>2. l \in LoanIds /\ h \in Holdings /\ loans[l].state = "open" /\ holdingLock[h] = s
  BY <1>0, <1>1 DEF SafeInv, LocksProtect
<1>3. /\ loans'[l].state = "returned"
      /\ \A m \in LoanIds : /\ loans'[m].holding = loans[m].holding
                            /\ m # l => loans'[m] = loans[m]
  BY <1>1, <1>2 DEF TypeInv, TypeOK, TablesTypeOK, LoanRow
<1>4. HoldingMatchesLoans'
  <2>1. OpenLoansOn(h) = {l}
    BY <1>0, <1>2 DEF SafeInv, HoldingMatchesLoans, OpenLoansOn
  <2>2. OpenLoansOn(h)' = {}
    BY <1>3, <2>1 DEF OpenLoansOn
  <2>3. ASSUME NEW g \in Holdings, g # h
        PROVE  OpenLoansOn(g)' = OpenLoansOn(g) /\ holdingStatus'[g] = holdingStatus[g]
    <3>1. l \notin OpenLoansOn(g) BY <1>0, <2>3 DEF OpenLoansOn
    <3>2. l \notin OpenLoansOn(g)' BY <1>3 DEF OpenLoansOn
    <3>3. holdingStatus'[g] = holdingStatus[g]
      BY <1>1, <2>3 DEF TypeInv, TypeOK, TablesTypeOK
    <3> QED BY <1>3, <3>1, <3>2, <3>3 DEF OpenLoansOn
  <2>4. holdingStatus'[h] = "AVAILABLE"
    BY <1>1, <1>2 DEF TypeInv, TypeOK, TablesTypeOK
  <2> QED BY <2>2, <2>3, <2>4 DEF HoldingMatchesLoans, SafeInv
<1>5. ASSUME NEW t \in Sessions, t # s PROVE LocksProtect(t)'
  <2>0. l \in LoanIds \cup {None} /\ 200 \in Codes BY <1>2 DEF Codes
  <2>1. /\ pc'[t] = pc[t] /\ req'[t] = req[t] /\ local'[t] = local[t]
        /\ \A g \in Holdings : holdingLock[g] = t => holdingLock'[g] = t
        /\ \A m \in LoanIds : loanLock[m] = t => loanLock'[m] = t
    BY <1>1, <1>5, <2>0, AnsweredSafe
  <2>2. pc[t] \in {"lock_loan_holding", "commit_return"} =>
          local[t].loan \in LoanIds /\ local[t].loan # l
    <3>1. pc[t] = "lock_loan_holding" => loanLock[local[t].loan] = t
      BY DEF SafeInv, LocksProtect
    <3>2. pc[t] = "commit_return" => holdingLock[loans[local[t].loan].holding] = t
      BY DEF SafeInv, LocksProtect
    <3>3. loanLock[l] # t /\ holdingLock[h] # t
      BY <1>1, <1>2, <1>5 DEF FreeLoan
    <3> QED BY <1>0, <3>1, <3>2, <3>3 DEF TypeInv, RequestsWellFormed, RequestWellFormed
  <2>3. pc[t] \in {"resolve_policy", "commit_checkout"} =>
          holdingStatus'[req[t].holding] = holdingStatus[req[t].holding]
    BY <1>1, <1>2, <1>5 DEF SafeInv, LocksProtect, TypeInv, TypeOK, TablesTypeOK,
       RequestsWellFormed, RequestWellFormed
  <2> QED BY <1>3, <2>1, <2>2, <2>3 DEF SafeInv, LocksProtect, TypeInv, RequestsWellFormed,
             RequestWellFormed, LoansWellFormed
<1> QED BY <1>1, <1>2, <1>4, <1>5, AnsweredSafe DEF SafeInv, Codes

\* The commits that do not change the loans.
LEMMA OtherCommitSafe ==
  ASSUME TypeInv, SafeInv, NEW s \in Sessions,
         CommitRepeatedReturn(s) \/ CommitWithdraw(s) \/ RepeatWithdraw(s) \/ ReplayCached(s)
  PROVE  SafeInv'
<1>1. \E code \in Codes, l \in LoanIds \cup {None} : Answer(s, code, l)
  <2>1. CASE CommitRepeatedReturn(s)
    BY <2>1 DEF CommitRepeatedReturn, Codes, TypeInv, RequestsWellFormed, RequestWellFormed
  <2>2. CASE CommitWithdraw(s) \/ RepeatWithdraw(s)
    BY <2>2 DEF CommitWithdraw, RepeatWithdraw, Codes
  <2>3. CASE ReplayCached(s)
    BY <2>3 DEF ReplayCached, Stored, Codes, TypeInv, TypeOK, TablesTypeOK, IdempotencyRecord
  <2> QED BY <2>1, <2>2, <2>3
<1>2. loans' = loans
  BY DEF CommitRepeatedReturn, CommitWithdraw, RepeatWithdraw, ReplayCached, tables
<1>3. \A g \in Holdings : holdingStatus'[g] # holdingStatus[g] =>
        holdingLock[g] \in {None, s} /\ holdingStatus'[g] = "WITHDRAWN"
  BY DEF CommitRepeatedReturn, CommitWithdraw, RepeatWithdraw, ReplayCached, tables,
         FreeHolding, TypeInv, TypeOK, TablesTypeOK, RequestsWellFormed, RequestWellFormed
<1>4. HoldingMatchesLoans'
  BY <1>2, <1>3 DEF SafeInv, HoldingMatchesLoans, OpenLoansOn
<1>5. ASSUME NEW t \in Sessions, t # s PROVE LocksProtect(t)'
  <2>1. /\ pc'[t] = pc[t] /\ req'[t] = req[t] /\ local'[t] = local[t]
        /\ \A g \in Holdings : holdingLock[g] = t => holdingLock'[g] = t
        /\ \A m \in LoanIds : loanLock[m] = t => loanLock'[m] = t
    BY <1>1, <1>5, AnsweredSafe
  <2>2. pc[t] \in {"resolve_policy", "commit_checkout"} =>
          holdingStatus'[req[t].holding] = holdingStatus[req[t].holding]
    BY <1>3, <1>5 DEF SafeInv, LocksProtect, TypeInv, RequestsWellFormed, RequestWellFormed
  <2> QED BY <1>2, <2>1, <2>2 DEF SafeInv, LocksProtect, TypeInv, RequestsWellFormed,
             RequestWellFormed, LoansWellFormed
<1> QED BY <1>1, <1>4, <1>5, AnsweredSafe DEF SafeInv

\* Every step keeps the invariant.
LEMMA NextSafe == TypeInv /\ SafeInv /\ [Next]_vars => SafeInv'
<1> SUFFICES ASSUME TypeInv, SafeInv, [Next]_vars PROVE SafeInv' OBVIOUS
<1>1. ASSUME NEW s \in Sessions, SessionStep(s) PROVE SafeInv'
  <2>1. CASE \E code \in Codes : Fail(s, code)
    <3>1. \E code \in Codes, l \in LoanIds \cup {None} : Answer(s, code, l)
      BY <2>1 DEF Fail
    <3> QED BY <2>1, <3>1, LeaveSafe DEF Fail, Answer
  <2>2. CASE EndRequest(s) BY <2>2, LeaveSafe DEF EndRequest
  <2> QED BY <1>1, <2>1, <2>2, PostSafe, ReadStepSafe, RejectType, CommitCheckoutSafe,
             CommitReturnSafe, OtherCommitSafe
          DEF SessionStep, LockingStep, FreeStep, Reply, Crash
<1>2. CASE StaffStep
  <2>1. UNCHANGED <<holdingStatus, loans, holdingLock, loanLock, pc, req, local>>
    BY <1>2 DEF StaffStep, SuspendPatron, ExitPatron, SetPatronStatus, SetPatronBlock,
       UpdatePatronType, UpdateLoanRuleSet, PublishCatalog, SuppressCatalog,
       SetCatalogingStatus, otherThanPatrons, locks
  <2> QED BY <2>1 DEF SafeInv, LocksProtect, HoldingMatchesLoans, OpenLoansOn
<1>3. CASE UNCHANGED vars
  BY <1>3 DEF vars, tables, locks, SafeInv, LocksProtect, HoldingMatchesLoans, OpenLoansOn
<1> QED BY <1>1, <1>2, <1>3 DEF Next

LEMMA InitSafe == Init => SafeInv
BY DEF Init, SafeInv, LocksProtect, HoldingMatchesLoans, OpenLoansOn, NoLoan, NoLocal, NoReq

LEMMA Safety == Spec => [](TypeInv /\ SafeInv)
BY TypeCorrect, InitSafe, NextSafe, PTL DEF Spec, TypeInv

\* Whatever the interleaving of checkouts, returns and withdrawals, in any number of
\* sessions: a holding has at most one open loan, none when it is AVAILABLE and one
\* when it is ON_LOAN.
THEOREM HoldingMatchesLoansAlways == Spec => []HoldingMatchesLoans
<1>1. TypeInv /\ SafeInv => HoldingMatchesLoans BY DEF SafeInv
<1> QED BY <1>1, Safety, PTL

\* The row lock taken by lock_for_checkout is enough: when a checkout writes, its
\* holding is still AVAILABLE and has no open loan, so the unique index
\* uq_loan_open_holding never has to refuse one.
THEOREM CheckedHoldingStaysFreeAlways == Spec => []CheckedHoldingStaysFree
<1>1. TypeInv /\ SafeInv => CheckedHoldingStaysFree
  BY DEF SafeInv, CheckedHoldingStaysFree, LocksProtect, HoldingMatchesLoans, TypeInv,
         RequestsWellFormed, RequestWellFormed
<1> QED BY <1>1, Safety, PTL
=============================================================================
