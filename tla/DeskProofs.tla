------------------------------ MODULE DeskProofs ------------------------------
(***************************************************************************)
(* Theorems about DeskWorkflows, for any number of sessions, loans,        *)
(* fulfilments and keys: types, one application of a key, and fulfilments  *)
(* that change with their loan.                                            *)
(***************************************************************************)
EXTENDS DeskWorkflows, CirculationProofs

USE CatalogOfAssumption, CirculatingAssumption, LimitsAssumption, FiniteAssumption,
    NoneAssumption, IdsAssumption, FulfilIdsAssumption

DeskTables ==
  /\ fulfil \in [FulfilIds -> FulfilRow]
  /\ deskIdem \subseteq DeskRecord
  /\ fulfilLock \in [FulfilIds -> Sessions \cup {None}]
  /\ wf \in [Sessions -> Workflow]

\* A fulfilment that exists is of a loan, and has a direction.
FulfilWellFormed ==
  \A f \in FulfilIds :
    /\ fulfil[f].status # "none" => fulfil[f].loan \in LoanIds
    /\ fulfil[f].status # "none" <=> fulfil[f].direction # "none"

\* What the workflow code of a session knows at each place of it.
WorkflowFormed(s) ==
  /\ pc[s] = "idle" => wf[s] = NoWorkflow
  /\ pc[s] = "workflow" /\ wf[s].at \in {"preview_lookup", "preview_patron", "preview_holding"} =>
       req[s].op = "checkout"
  /\ pc[s] = "workflow" /\ wf[s].at = "select" => wf[s].op = "cancel"
  /\ pc[s] = "workflow" /\ wf[s].at \in {"select", "flush"} =>
       req[s].op = "return" /\ req[s].holding = None /\ req[s].loan \in LoanIds
  /\ pc[s] = "workflow" /\ wf[s].at = "read_loan" => req[s].key \in Keys
  /\ pc[s] = "workflow" /\ wf[s].at = "read_loan" /\ wf[s].op \in {"cancel", "confirm", "initiate"} =>
       req[s].loan \in LoanIds
  /\ pc[s] = "workflow" /\ wf[s].at = "read_holding" =>
       req[s].op = "return" /\ req[s].holding \in Holdings
  /\ pc[s] = "workflow" /\ wf[s].at = "insert" =>
       wf[s].op = "initiate" /\ req[s].loan \in LoanIds /\ req[s].key \in Keys
  /\ pc[s] = "workflow" /\ wf[s].at = "write" =>
       wf[s].op = "transition" /\ req[s].key \in Keys
  /\ wf[s].op \in {"transition", "confirm"} => wf[s].fid \in FulfilIds
  /\ wf[s].op \in {"transition", "confirm", "cancel"} => wf[s].target \in Statuses
  /\ wf[s].op \in {"cancel", "confirm"} => req[s].op = "return" /\ req[s].holding = None
  /\ wf[s].op = "confirm" =>
       fulfil[wf[s].fid].status # "none" /\ fulfil[wf[s].fid].loan = req[s].loan
  /\ wf[s].op = "transition" => fulfil[wf[s].fid].status # "none"
  /\ wf[s].pending # {} => wf[s].op \in {"cancel", "confirm"}
  /\ \A f \in wf[s].pending : fulfil[f].status # "none" /\ fulfil[f].loan = req[s].loan
  /\ pc[s] = "done" /\ wf[s].op = "issue" /\ wf[s].at # "answered" /\ resp[s].code = 201 =>
       resp[s].loan \in LoanIds /\ loans[resp[s].loan].state # "none"

\* What the kernel has read for a session, as far as it stays true without the
\* holding's lock: a return by loan is of that loan, a loan seen closed is closed.
KernelReads(s) ==
  /\ pc[s] = "lock_loan_holding" => local[s].loan = req[s].loan
  /\ pc[s] = "commit_return" /\ req[s].holding = None => local[s].loan = req[s].loan
  /\ IF pc[s] \in {"lock_loan_holding", "commit_return"}
       THEN /\ local[s].view # "unread"
            /\ local[s].view = "returned" => loans[local[s].loan].state = "returned"
       ELSE local[s].view # "returned"

\* A loan that is replayed exists.
StoredLoansExist == \A r \in idem : loans[r.result].state # "none"

DeskInv ==
  /\ TypeInv /\ DeskTables /\ FulfilWellFormed /\ StoredLoansExist
  /\ \A s \in Sessions : WorkflowFormed(s) /\ KernelReads(s)

-----------------------------------------------------------------------------
(* What a step of one session leaves to the others *)

OnlySession(s) ==
  \A t \in Sessions \ {s} : /\ pc'[t] = pc[t] /\ req'[t] = req[t] /\ local'[t] = local[t]
                            /\ resp'[t] = resp[t] /\ wf'[t] = wf[t]

\* A loan is never removed nor reopened, a fulfilment never removed nor moved.
RowsKept ==
  /\ \A l \in LoanIds : /\ loans[l].state # "none" => loans'[l].state # "none"
                        /\ loans[l].state = "returned" => loans'[l].state = "returned"
  /\ \A f \in FulfilIds : fulfil[f].status # "none" =>
       fulfil'[f].status # "none" /\ fulfil'[f].loan = fulfil[f].loan

LEMMA OthersFormed ==
  ASSUME DeskInv, NEW s \in Sessions, OnlySession(s), RowsKept, NEW t \in Sessions, t # s
  PROVE  WorkflowFormed(t)' /\ KernelReads(t)'
<1>1. /\ pc'[t] = pc[t] /\ req'[t] = req[t] /\ local'[t] = local[t]
      /\ resp'[t] = resp[t] /\ wf'[t] = wf[t]
  BY DEF OnlySession
<1>2. WorkflowFormed(t) /\ KernelReads(t) /\ wf[t].pending \subseteq FulfilIds
  BY DEF DeskInv, DeskTables, Workflow
<1>3. WorkflowFormed(t)' BY <1>1, <1>2 DEF RowsKept, WorkflowFormed
<1>4. KernelReads(t)'
  <2>1. pc[t] \in {"lock_loan_holding", "commit_return"} => local[t].loan \in LoanIds
    BY DEF DeskInv, TypeInv, RequestsWellFormed, RequestWellFormed
  <2> QED BY <1>1, <1>2, <2>1 DEF RowsKept, KernelReads
<1> QED BY <1>3, <1>4

\* What is left to show of the step of a session.
LEMMA Together ==
  ASSUME DeskInv, NEW s \in Sessions, OnlySession(s), RowsKept,
         TypeInv', DeskTables', FulfilWellFormed', StoredLoansExist',
         WorkflowFormed(s)', KernelReads(s)'
  PROVE  DeskInv'
<1>1. ASSUME NEW t \in Sessions PROVE WorkflowFormed(t)' /\ KernelReads(t)'
  <2>1. CASE t = s BY <2>1
  <2>2. CASE t # s BY <2>2, OthersFormed
  <2> QED BY <2>1, <2>2
<1> QED BY <1>1 DEF DeskInv

LEMMA SameRows ==
  ASSUME DeskInv, UNCHANGED <<loans, idem, fulfil>>
  PROVE  RowsKept /\ FulfilWellFormed' /\ StoredLoansExist'
BY DEF DeskInv, RowsKept, FulfilWellFormed, StoredLoansExist

-----------------------------------------------------------------------------
(* Requests arrive *)

LEMMA BeginFormed ==
  ASSUME DeskInv, NEW s \in Sessions, NEW q \in Request, NEW w \in Workflow, Begin(s, q, w),
         q.op = "checkout" => /\ q.patron \in Patrons /\ q.holding \in Holdings
                              /\ q.loan = None /\ q.key \in Keys,
         q.op = "return" => q.patron = None /\ q.key \in Keys,
         q.op # "withdraw", q.key \in Keys,
         w.at \in {"preview_lookup", "read_loan", "read_holding"},
         w.pending = {},
         w.at = "preview_lookup" => q.op = "checkout",
         w.at = "read_holding" => q.op = "return" /\ q.holding \in Holdings,
         w.op \in {"cancel", "confirm", "initiate"} => q.loan \in LoanIds,
         w.op \in {"cancel", "confirm"} => q.op = "return" /\ q.holding = None,
         w.op \in {"transition", "confirm"} =>
           w.fid \in FulfilIds /\ fulfil[w.fid].status # "none",
         w.op \in {"transition", "confirm", "cancel"} => w.target \in Statuses,
         w.op = "confirm" => fulfil[w.fid].loan = q.loan
  PROVE  DeskInv'
<1>1. /\ pc[s] = "idle" /\ pc' = [pc EXCEPT ![s] = "workflow"] /\ req' = [req EXCEPT ![s] = q]
      /\ wf' = [wf EXCEPT ![s] = w]
      /\ UNCHANGED <<tables, locks, local, resp, fulfil, deskIdem, fulfilLock>>
  BY DEF Begin, Accept, Goto
<1>2. /\ pc'[s] = "workflow" /\ req'[s] = q /\ wf'[s] = w /\ local'[s] = local[s]
      /\ OnlySession(s)
  BY <1>1 DEF OnlySession, DeskInv, DeskTables, TypeInv, TypeOK, SessionsTypeOK
<1>3. TypeInv'
  <2>1. TypeOK'
    BY <1>1 DEF DeskInv, TypeInv, TypeOK, TablesTypeOK, SessionsTypeOK, tables, locks, PCs
  <2>2. RequestsWellFormed'
    BY <1>1 DEF DeskInv, TypeInv, TypeOK, SessionsTypeOK, RequestsWellFormed,
       RequestWellFormed, tables
  <2>3. LoansWellFormed' BY <1>1 DEF DeskInv, TypeInv, LoansWellFormed, tables
  <2> QED BY <2>1, <2>2, <2>3 DEF TypeInv
<1>4. DeskTables' BY <1>1 DEF DeskInv, DeskTables
<1>5. UNCHANGED <<loans, idem, fulfil>> BY <1>1 DEF tables
<1>6. WorkflowFormed(s)' BY <1>2, <1>5 DEF WorkflowFormed
<1>7. KernelReads(s)' BY <1>1, <1>2 DEF KernelReads, DeskInv
<1> QED BY <1>2, <1>3, <1>4, <1>5, <1>6, <1>7, SameRows, Together

LEMMA PostWorkflowFormed ==
  ASSUME DeskInv, NEW s \in Sessions, PostWorkflow(s)
  PROVE  DeskInv'
<1>0. NoWorkflow \in Workflow BY DEF NoWorkflow, Workflow
<1>1. ASSUME NEW p \in Patrons, NEW h \in Holdings, NEW k \in Keys, NEW d \in BOOLEAN,
             PostIssue(s, p, h, k, d)
      PROVE  DeskInv'
  <2> DEFINE q == CheckoutOf(p, h, k)
             w == [NoWorkflow EXCEPT !.op = "issue", !.at = "preview_lookup", !.deliver = d]
  <2>1. Begin(s, q, w) BY <1>1 DEF PostIssue
  <2>2. q \in Request /\ q.op = "checkout" /\ q.patron = p /\ q.holding = h /\ q.loan = None
        /\ q.key = k
    BY DEF CheckoutOf, Request
  <2>3. w \in Workflow /\ w.op = "issue" /\ w.at = "preview_lookup" /\ w.pending = {}
    BY DEF NoWorkflow, Workflow
  <2> HIDE DEF q, w
  <2> QED BY <2>1, <2>2, <2>3, BeginFormed
<1>2. ASSUME NEW l \in LoanIds, NEW k \in Keys, PostCancel(s, l, k) PROVE DeskInv'
  <2> DEFINE q == [patron |-> None, holding |-> None, op |-> "return", loan |-> l, key |-> k]
             w == [NoWorkflow EXCEPT !.op = "cancel", !.at = "read_loan", !.target = "CANCELLED"]
  <2>1. Begin(s, q, w) BY <1>2 DEF PostCancel
  <2>2. q \in Request /\ q.op = "return" /\ q.patron = None /\ q.holding = None /\ q.loan = l
        /\ q.key = k
    BY DEF Request
  <2>3. w \in Workflow /\ w.op = "cancel" /\ w.at = "read_loan" /\ w.pending = {}
        /\ w.target \in Statuses
    BY DEF NoWorkflow, Workflow, Statuses
  <2> HIDE DEF q, w
  <2> QED BY <2>1, <2>2, <2>3, BeginFormed
<1>3. ASSUME NEW l \in LoanIds, NEW k \in Keys, PostInitiate(s, l, k) PROVE DeskInv'
  <2> DEFINE q == [patron |-> None, holding |-> None, op |-> "none", loan |-> l, key |-> k]
             w == [NoWorkflow EXCEPT !.op = "initiate", !.at = "read_loan"]
  <2>1. Begin(s, q, w) BY <1>3 DEF PostInitiate
  <2>2. q \in Request /\ q.op = "none" /\ q.loan = l /\ q.key = k BY DEF Request
  <2>3. w \in Workflow /\ w.op = "initiate" /\ w.at = "read_loan" /\ w.pending = {}
    BY DEF NoWorkflow, Workflow
  <2> HIDE DEF q, w
  <2> QED BY <2>1, <2>2, <2>3, BeginFormed
<1>4. ASSUME NEW h \in Holdings, NEW k \in Keys, PostReturnByBarcode(s, h, k) PROVE DeskInv'
  <2> DEFINE q == [patron |-> None, holding |-> h, op |-> "return", loan |-> None, key |-> k]
             w == [NoWorkflow EXCEPT !.op = "return", !.at = "read_holding"]
  <2>1. Begin(s, q, w) BY <1>4 DEF PostReturnByBarcode
  <2>2. q \in Request /\ q.op = "return" /\ q.patron = None /\ q.holding = h /\ q.key = k
    BY DEF Request
  <2>3. w \in Workflow /\ w.op = "return" /\ w.at = "read_holding" /\ w.pending = {}
    BY DEF NoWorkflow, Workflow
  <2> HIDE DEF q, w
  <2> QED BY <2>1, <2>2, <2>3, BeginFormed
<1>5. ASSUME NEW f \in FulfilIds, NEW k \in Keys, PostConfirm(s, f, k) PROVE DeskInv'
  <2> DEFINE q == [patron |-> None, holding |-> None, op |-> "return",
                   loan |-> fulfil[f].loan, key |-> k]
             w == [NoWorkflow EXCEPT !.op = "confirm", !.at = "read_loan", !.fid = f,
                                     !.target = "COMPLETED"]
  <2>1. Begin(s, q, w) /\ fulfil[f].status # "none" BY <1>5 DEF PostConfirm
  <2>2. fulfil[f].loan \in LoanIds BY <2>1 DEF DeskInv, FulfilWellFormed
  <2>3. q \in Request /\ q.op = "return" /\ q.patron = None /\ q.holding = None
        /\ q.loan = fulfil[f].loan /\ q.key = k
    BY <2>2 DEF Request
  <2>4. w \in Workflow /\ w.op = "confirm" /\ w.at = "read_loan" /\ w.pending = {}
        /\ w.target \in Statuses /\ w.fid = f
    BY DEF NoWorkflow, Workflow, Statuses
  <2> HIDE DEF q, w
  <2> QED BY <2>1, <2>2, <2>3, <2>4, BeginFormed
<1>6. ASSUME NEW f \in FulfilIds, NEW k \in Keys, NEW t \in Statuses, PostTransition(s, f, t, k)
      PROVE  DeskInv'
  <2> DEFINE q == [NoReq EXCEPT !.key = k]
             w == [NoWorkflow EXCEPT !.op = "transition", !.at = "read_loan", !.fid = f,
                                     !.target = t]
  <2>1. Begin(s, q, w) /\ fulfil[f].status # "none" BY <1>6 DEF PostTransition
  <2>2. q \in Request /\ q.op = "none" /\ q.key = k BY DEF NoReq, Request
  <2>3. w \in Workflow /\ w.op = "transition" /\ w.at = "read_loan" /\ w.pending = {}
        /\ w.target \in Statuses /\ w.fid = f
    BY DEF NoWorkflow, Workflow, Statuses
  <2> HIDE DEF q, w
  <2> QED BY <2>1, <2>2, <2>3, BeginFormed
<1> QED BY <1>1, <1>2, <1>3, <1>4, <1>5, <1>6 DEF PostWorkflow

\* Requests that go to the kernel's own routes.
LEMMA PostKernelFormed ==
  ASSUME DeskInv, NEW s \in Sessions, Post(s), UNCHANGED deskVars
  PROVE  DeskInv'
<1>1. PICK q \in {req'[s]}, label \in {"find_cached", "read_holding"} : Accept(s, q, label)
  BY DEF Post, PostCheckout, CheckoutOf, PostReturn, PostWithdraw, Accept, DeskInv, TypeInv,
         TypeOK, SessionsTypeOK
<1>2. /\ pc[s] = "idle" /\ pc' = [pc EXCEPT ![s] = label] /\ req' = [req EXCEPT ![s] = q]
      /\ UNCHANGED <<tables, locks, local, resp, fulfil, deskIdem, fulfilLock, wf>>
  BY <1>1 DEF Accept, Goto, deskVars
<1>3. TypeInv' BY PostType DEF DeskInv
<1>4. /\ pc'[s] = label /\ wf'[s] = NoWorkflow /\ local'[s] = local[s] /\ OnlySession(s)
  BY <1>2 DEF OnlySession, DeskInv, TypeInv, TypeOK, SessionsTypeOK, WorkflowFormed
<1>5. UNCHANGED <<loans, idem, fulfil>> /\ DeskTables'
  BY <1>2 DEF tables, DeskInv, DeskTables
<1>6. WorkflowFormed(s)' BY <1>4 DEF WorkflowFormed, NoWorkflow
<1>7. KernelReads(s)' BY <1>2, <1>4 DEF KernelReads, DeskInv
<1> QED BY <1>3, <1>4, <1>5, <1>6, <1>7, SameRows, Together
-----------------------------------------------------------------------------
(* Steps of the workflow code *)

\* A step that answers, and writes at most fulfilments and their stored answers.
LEMMA FinishFormed ==
  ASSUME DeskInv, NEW s \in Sessions, NEW code \in Codes, NEW l \in LoanIds \cup {None},
         Finish(s, code, l), UNCHANGED tables,
         fulfil' \in [FulfilIds -> FulfilRow], deskIdem' \subseteq DeskRecord,
         FulfilWellFormed',
         \A f \in FulfilIds : fulfil[f].status # "none" =>
           fulfil'[f].status # "none" /\ fulfil'[f].loan = fulfil[f].loan
  PROVE  DeskInv'
<1>1. Answer(s, code, l) BY DEF Finish
<1>2. LoansWellFormed' /\ (\A m \in LoanIds : loans[m].state # "none" => loans'[m].state # "none")
  BY DEF DeskInv, TypeInv, LoansWellFormed, tables
<1>3. TypeInv'
  <2>1. SessionsTypeOK' /\ RequestsWellFormed' BY <1>1, <1>2, AnswerType DEF DeskInv
  <2>2. TablesTypeOK' BY DEF DeskInv, TypeInv, TypeOK, TablesTypeOK, tables
  <2> QED BY <1>2, <2>1, <2>2 DEF TypeInv, TypeOK
<1> DEFINE w == [wf[s] EXCEPT !.at = "answered", !.pending = {}]
<1>4. wf' = [wf EXCEPT ![s] = w] BY DEF Finish
<1>5. w \in Workflow /\ w.op = wf[s].op /\ w.fid = wf[s].fid /\ w.target = wf[s].target
      /\ w.at = "answered" /\ w.pending = {}
  <2>1. wf[s] \in Workflow BY DEF DeskInv, DeskTables
  <2> QED BY <2>1 DEF Workflow
<1> HIDE DEF w
<1>6. wf'[s] = w /\ (\A t \in Sessions \ {s} : wf'[t] = wf[t]) /\ wf' \in [Sessions -> Workflow]
  BY <1>4, <1>5 DEF DeskInv, DeskTables
<1>7. pc'[s] = "done" /\ req'[s] = req[s] /\ local'[s] = NoLocal /\ OnlySession(s)
  BY <1>1, <1>6 DEF Answer, Goto, OnlySession, DeskInv, TypeInv, TypeOK, SessionsTypeOK
<1>8. DeskTables' BY <1>6 DEF Finish, ReleaseFulfil, DeskInv, DeskTables
<1>9. RowsKept /\ StoredLoansExist' BY DEF RowsKept, StoredLoansExist, DeskInv, tables
<1>10. WorkflowFormed(s)' BY <1>5, <1>6, <1>7 DEF WorkflowFormed, DeskInv
<1>11. KernelReads(s)' BY <1>7 DEF KernelReads, NoLocal
<1> QED BY <1>3, <1>7, <1>8, <1>9, <1>10, <1>11, Together

LEMMA RejectFormed ==
  ASSUME DeskInv, NEW s \in Sessions, NEW code \in Codes, NEW l \in LoanIds \cup {None},
         Finish(s, code, l), UNCHANGED <<tables, fulfil, deskIdem>>
  PROVE  DeskInv'
<1>1. /\ fulfil' \in [FulfilIds -> FulfilRow] /\ deskIdem' \subseteq DeskRecord
      /\ FulfilWellFormed'
      /\ \A f \in FulfilIds : fulfil[f].status # "none" =>
           fulfil'[f].status # "none" /\ fulfil'[f].loan = fulfil[f].loan
  BY DEF DeskInv, DeskTables, FulfilWellFormed
<1> QED BY <1>1, FinishFormed

\* A step that writes no table and answers nothing.
LEMMA StepFormed ==
  ASSUME DeskInv, NEW s \in Sessions, NEW w \in Workflow, wf' = [wf EXCEPT ![s] = w],
         UNCHANGED <<tables, req, resp, fulfil, deskIdem>>,
         fulfilLock' \in [FulfilIds -> Sessions \cup {None}], TypeInv',
         \A t \in Sessions \ {s} : pc'[t] = pc[t] /\ local'[t] = local[t],
         pc'[s] # "idle", w.op = wf[s].op, w.fid = wf[s].fid, w.target = wf[s].target,
         w.pending # {} => w.op \in {"cancel", "confirm"},
         \A f \in w.pending : fulfil[f].status # "none" /\ fulfil[f].loan = req[s].loan,
         pc'[s] = "workflow" =>
           /\ w.at \notin {"preview_lookup", "read_loan", "read_holding"}
           /\ w.at \in {"preview_patron", "preview_holding"} => req[s].op = "checkout"
           /\ w.at = "select" => w.op = "cancel"
           /\ w.at \in {"select", "flush"} =>
                req[s].op = "return" /\ req[s].holding = None /\ req[s].loan \in LoanIds
           /\ w.at = "insert" =>
                w.op = "initiate" /\ req[s].loan \in LoanIds /\ req[s].key \in Keys
           /\ w.at = "write" => w.op = "transition" /\ req[s].key \in Keys,
         pc'[s] = "done" => pc[s] = "done" /\ (w.at # "answered" => wf[s].at # "answered"),
         KernelReads(s)'
  PROVE  DeskInv'
<1>1. wf'[s] = w /\ (\A t \in Sessions \ {s} : wf'[t] = wf[t]) /\ DeskTables'
  BY DEF DeskInv, DeskTables
<1>2. OnlySession(s) BY <1>1 DEF OnlySession
<1>3. UNCHANGED <<loans, idem, fulfil>> BY DEF tables
<1>4. WorkflowFormed(s)' BY <1>1, <1>3 DEF WorkflowFormed, DeskInv
<1> QED BY <1>1, <1>2, <1>3, <1>4, SameRows, Together

\* The workflow goes on to its next place.
LEMMA AdvanceFormed ==
  ASSUME DeskInv, NEW s \in Sessions, NEW w \in Workflow, wf' = [wf EXCEPT ![s] = w],
         UNCHANGED <<vars, fulfil, deskIdem, fulfilLock>>,
         pc[s] \in {"workflow", "done"},
         w.op = wf[s].op, w.fid = wf[s].fid, w.target = wf[s].target,
         w.pending # {} => w.op \in {"cancel", "confirm"},
         \A f \in w.pending : fulfil[f].status # "none" /\ fulfil[f].loan = req[s].loan,
         pc[s] = "workflow" =>
           /\ w.at \notin {"preview_lookup", "read_loan", "read_holding"}
           /\ w.at \in {"preview_patron", "preview_holding"} => req[s].op = "checkout"
           /\ w.at = "select" => w.op = "cancel"
           /\ w.at \in {"select", "flush"} =>
                req[s].op = "return" /\ req[s].holding = None /\ req[s].loan \in LoanIds
           /\ w.at = "insert" =>
                w.op = "initiate" /\ req[s].loan \in LoanIds /\ req[s].key \in Keys
           /\ w.at = "write" => w.op = "transition" /\ req[s].key \in Keys,
         pc[s] = "done" /\ w.at # "answered" => wf[s].at # "answered"
  PROVE  DeskInv'
<1>1. UNCHANGED <<patrons, limit, catalogStatus, holdingStatus, loans, idem,
                  holdingLock, loanLock, pc, req, local, resp>>
  BY DEF vars, tables, locks
<1>2. TypeInv'
  BY <1>1 DEF DeskInv, TypeInv, TypeOK, TablesTypeOK, SessionsTypeOK, RequestsWellFormed,
     RequestWellFormed, LoansWellFormed
<1>3. KernelReads(s)' BY <1>1 DEF KernelReads, DeskInv
<1>4. fulfilLock' \in [FulfilIds -> Sessions \cup {None}] /\ UNCHANGED tables
  BY <1>1 DEF DeskInv, DeskTables, tables
<1> QED BY <1>1, <1>2, <1>3, <1>4, StepFormed

LEMMA EnterFormed ==
  ASSUME DeskInv, NEW s \in Sessions, NEW w \in Workflow, wf' = [wf EXCEPT ![s] = w],
         EnterKernel(s), fulfilLock' \in [FulfilIds -> Sessions \cup {None}],
         pc[s] = "workflow", req[s].op \in {"checkout", "return"},
         w.op = wf[s].op, w.fid = wf[s].fid, w.target = wf[s].target,
         w.pending = wf[s].pending
  PROVE  DeskInv'
<1>1. /\ pc' = [pc EXCEPT ![s] = "find_cached"]
      /\ UNCHANGED <<patrons, limit, catalogStatus, holdingStatus, loans, idem,
                     holdingLock, loanLock, req, local, resp, fulfil, deskIdem>>
  BY DEF EnterKernel, Goto, tables, locks
<1>2. pc'[s] = "find_cached" /\ \A t \in Sessions \ {s} : pc'[t] = pc[t]
  BY <1>1 DEF DeskInv, TypeInv, TypeOK, SessionsTypeOK
<1>3. TypeInv'
  <2>1. TypeOK' BY <1>1 DEF DeskInv, TypeInv, TypeOK, TablesTypeOK, SessionsTypeOK, PCs
  <2>2. RequestsWellFormed' /\ LoansWellFormed'
    BY <1>1, <1>2 DEF DeskInv, TypeInv, RequestsWellFormed, RequestWellFormed, LoansWellFormed
  <2> QED BY <2>1, <2>2 DEF TypeInv
<1>4. KernelReads(s)' BY <1>1, <1>2 DEF KernelReads, DeskInv
<1>5. UNCHANGED <<tables, req, resp, fulfil, deskIdem>> BY <1>1 DEF tables
<1>6. /\ w.pending # {} => w.op \in {"cancel", "confirm"}
      /\ \A f \in w.pending : fulfil[f].status # "none" /\ fulfil[f].loan = req[s].loan
  <2>1. WorkflowFormed(s) BY DEF DeskInv
  <2> QED BY <2>1 DEF WorkflowFormed
<1>7. pc'[s] \notin {"idle", "workflow", "done"} BY <1>2
<1>8. \A t \in Sessions \ {s} : pc'[t] = pc[t] /\ local'[t] = local[t] BY <1>1, <1>2
<1> QED BY <1>3, <1>4, <1>5, <1>6, <1>7, <1>8, StepFormed

LEMMA IssueStepFormed ==
  ASSUME DeskInv, NEW s \in Sessions, IssueStep(s), ~CreateIssueFulfilment(s)
  PROVE  DeskInv'
<1>0. wf[s] \in Workflow /\ WorkflowFormed(s) /\ req[s] \in Request
  BY DEF DeskInv, DeskTables, TypeInv, TypeOK, SessionsTypeOK
<1>1. ASSUME NEW code \in Codes, Reject(s, code) PROVE DeskInv'
  BY <1>1, RejectFormed DEF Reject
<1>2. ASSUME NEW label \in {"preview_patron", "preview_holding"}, pc[s] = "workflow",
             wf[s].at \in {"preview_lookup", "preview_patron"}, Advance(s, label)
      PROVE  DeskInv'
  <2> DEFINE w == [wf[s] EXCEPT !.at = label]
  <2>1. wf' = [wf EXCEPT ![s] = w] /\ UNCHANGED <<vars, fulfil, deskIdem, fulfilLock>>
    BY <1>2 DEF Advance
  <2>2. w \in Workflow /\ w.op = wf[s].op /\ w.fid = wf[s].fid /\ w.target = wf[s].target
        /\ w.pending = wf[s].pending /\ w.at = label
    BY <1>0 DEF Workflow
  <2> HIDE DEF w
  <2>3. req[s].op = "checkout" BY <1>0, <1>2 DEF WorkflowFormed
  <2> QED BY <1>0, <1>2, <2>1, <2>2, <2>3, AdvanceFormed DEF WorkflowFormed
<1>3. ASSUME NEW c \in BOOLEAN, wf' = [wf EXCEPT ![s].at = "kernel", ![s].cached = c],
             EnterKernel(s), UNCHANGED fulfilLock, pc[s] = "workflow",
             wf[s].at \in {"preview_lookup", "preview_holding"}
      PROVE  DeskInv'
  <2> DEFINE w == [wf[s] EXCEPT !.at = "kernel", !.cached = c]
  <2>1. wf' = [wf EXCEPT ![s] = w] BY <1>3
  <2>2. w \in Workflow /\ w.op = wf[s].op /\ w.fid = wf[s].fid /\ w.target = wf[s].target
        /\ w.pending = wf[s].pending
    BY <1>0 DEF Workflow
  <2> HIDE DEF w
  <2>3. req[s].op = "checkout" BY <1>0, <1>3 DEF WorkflowFormed
  <2>4. fulfilLock' \in [FulfilIds -> Sessions \cup {None}] BY <1>3 DEF DeskInv, DeskTables
  <2> QED BY <1>3, <2>1, <2>2, <2>3, <2>4, EnterFormed
<1>4. CASE RejectIssueKey(s) BY <1>1, <1>4 DEF RejectIssueKey, Codes
<1>5. CASE IssueCached(s) BY <1>3, <1>5 DEF IssueCached, At
<1>6. CASE IssueNotCached(s) BY <1>2, <1>6 DEF IssueNotCached, At
<1>7. CASE PreviewPatron(s) BY <1>1, <1>2, <1>7 DEF PreviewPatron, At, Codes
<1>8. CASE PreviewHolding(s)
  <2>1. CASE Reject(s, 422) BY <1>1, <2>1 DEF Codes
  <2>2. CASE ~Reject(s, 422)
    <3>1. wf' = [wf EXCEPT ![s].at = "kernel"] /\ EnterKernel(s) /\ UNCHANGED fulfilLock
          /\ pc[s] = "workflow" /\ wf[s].at = "preview_holding"
      BY <1>8, <2>2 DEF PreviewHolding, At
    <3> DEFINE w == [wf[s] EXCEPT !.at = "kernel"]
    <3>2. wf' = [wf EXCEPT ![s] = w] BY <3>1
    <3>3. w \in Workflow /\ w.op = wf[s].op /\ w.fid = wf[s].fid /\ w.target = wf[s].target
          /\ w.pending = wf[s].pending
      BY <1>0 DEF Workflow
    <3> HIDE DEF w
    <3>4. req[s].op = "checkout" BY <1>0, <3>1 DEF WorkflowFormed
    <3>5. fulfilLock' \in [FulfilIds -> Sessions \cup {None}] BY <3>1 DEF DeskInv, DeskTables
    <3> QED BY <3>1, <3>2, <3>3, <3>4, <3>5, EnterFormed
  <2> QED BY <2>1, <2>2
<1>9. CASE RefreshLoan(s)
  <2> DEFINE state == loans[resp[s].loan].state
             w == [wf[s] EXCEPT !.at = "create", !.view = state]
  <2>1. pc[s] = "done" /\ wf[s].op = "issue" /\ resp[s].code = 201 /\ wf[s].at = "kernel"
        /\ UNCHANGED <<vars, fulfil, deskIdem, fulfilLock>>
    BY <1>9 DEF RefreshLoan, AwaitsFulfilment
  <2>6. wf' = [wf EXCEPT ![s].at = "create", ![s].view = state]
    BY <1>9 DEF RefreshLoan
  <2>2. state \in {"open", "returned"}
    BY <1>0, <2>1 DEF WorkflowFormed, DeskInv, TypeInv, TypeOK, TablesTypeOK, LoanRow
  <2>3. w \in Workflow /\ w.op = wf[s].op /\ w.fid = wf[s].fid /\ w.target = wf[s].target
        /\ w.pending = wf[s].pending /\ w.at = "create"
    BY <1>0, <2>2 DEF Workflow
  <2> HIDE DEF state
  <2>5. wf' = [wf EXCEPT ![s] = w] BY <2>6
  <2> HIDE DEF w
  <2>4. /\ w.pending # {} => w.op \in {"cancel", "confirm"}
        /\ \A f \in w.pending : fulfil[f].status # "none" /\ fulfil[f].loan = req[s].loan
    BY <1>0, <2>3 DEF WorkflowFormed
  <2> QED BY <2>1, <2>3, <2>4, <2>5, AdvanceFormed
<1>10. CASE RejectIssueFulfilment(s) BY <1>1, <1>10 DEF RejectIssueFulfilment, Codes
<1> QED BY <1>4, <1>5, <1>6, <1>7, <1>8, <1>9, <1>10 DEF IssueStep
\* A fulfilment is created, for a loan that exists.
LEMMA NewRow ==
  ASSUME DeskInv, NEW f \in UnusedFulfil, NEW l \in LoanIds, NEW d \in {"ISSUE", "RETURN"},
         fulfil' = [fulfil EXCEPT ![f] = [status |-> "REQUESTED", loan |-> l, direction |-> d]]
  PROVE  /\ fulfil' \in [FulfilIds -> FulfilRow] /\ FulfilWellFormed'
         /\ \A g \in FulfilIds : fulfil[g].status # "none" =>
              fulfil'[g].status # "none" /\ fulfil'[g].loan = fulfil[g].loan
<1>1. f \in FulfilIds /\ fulfil[f].status = "none" BY DEF UnusedFulfil
<1>2. [status |-> "REQUESTED", loan |-> l, direction |-> d] \in FulfilRow
  BY DEF FulfilRow, Statuses
<1>3. /\ fulfil' \in [FulfilIds -> FulfilRow]
      /\ fulfil'[f].loan = l /\ fulfil'[f].status = "REQUESTED" /\ fulfil'[f].direction = d
      /\ \A g \in FulfilIds : g # f => fulfil'[g] = fulfil[g]
  BY <1>1, <1>2 DEF DeskInv, DeskTables
<1> QED BY <1>1, <1>3 DEF DeskInv, FulfilWellFormed

LEMMA CreateFormed ==
  ASSUME DeskInv, NEW s \in Sessions, CreateIssueFulfilment(s)
  PROVE  DeskInv'
<1>0. wf[s] \in Workflow /\ WorkflowFormed(s) /\ KernelReads(s)
  BY DEF DeskInv, DeskTables
<1>1. /\ pc[s] = "done" /\ wf[s].op = "issue" /\ resp[s].code = 201 /\ wf[s].at = "create"
      /\ wf' = [wf EXCEPT ![s].at = "answered"]
      /\ UNCHANGED <<vars, deskIdem, fulfilLock>>
  BY DEF CreateIssueFulfilment, AwaitsFulfilment
<1>2. resp[s].loan \in LoanIds BY <1>0, <1>1 DEF WorkflowFormed
<1>3. PICK f \in UnusedFulfil :
        fulfil' = [fulfil EXCEPT ![f] = [status |-> "REQUESTED", loan |-> resp[s].loan,
                                         direction |-> "ISSUE"]]
  BY DEF CreateIssueFulfilment
<1>4. /\ fulfil' \in [FulfilIds -> FulfilRow] /\ FulfilWellFormed'
      /\ \A g \in FulfilIds : fulfil[g].status # "none" =>
           fulfil'[g].status # "none" /\ fulfil'[g].loan = fulfil[g].loan
  BY <1>2, <1>3, NewRow
<1>5. UNCHANGED <<patrons, limit, catalogStatus, holdingStatus, loans, idem,
                  holdingLock, loanLock, pc, req, local, resp>>
  BY <1>1 DEF vars, tables, locks
<1>6. TypeInv'
  BY <1>5 DEF DeskInv, TypeInv, TypeOK, TablesTypeOK, SessionsTypeOK, RequestsWellFormed,
     RequestWellFormed, LoansWellFormed
<1> DEFINE w == [wf[s] EXCEPT !.at = "answered"]
<1>7. wf' = [wf EXCEPT ![s] = w] BY <1>1
<1>8. w \in Workflow /\ w.op = wf[s].op /\ w.fid = wf[s].fid /\ w.target = wf[s].target
      /\ w.pending = wf[s].pending /\ w.at = "answered"
  BY <1>0 DEF Workflow
<1> HIDE DEF w
<1>9. wf'[s] = w /\ DeskTables' /\ OnlySession(s)
  BY <1>1, <1>4, <1>5, <1>7, <1>8 DEF DeskInv, DeskTables, OnlySession
<1>10. RowsKept /\ StoredLoansExist'
  BY <1>4, <1>5 DEF RowsKept, StoredLoansExist, DeskInv
<1>11. WorkflowFormed(s)'
  BY <1>0, <1>1, <1>5, <1>8, <1>9 DEF WorkflowFormed
<1>12. KernelReads(s)' BY <1>0, <1>5 DEF KernelReads
<1> QED BY <1>4, <1>6, <1>9, <1>10, <1>11, <1>12, Together

\* The workflow loads an open loan.
LEMMA LoadLoanFormed ==
  ASSUME DeskInv, NEW s \in Sessions, NEW w \in Workflow, wf' = [wf EXCEPT ![s] = w],
         pc[s] = "workflow", local' = [local EXCEPT ![s].view = "open"],
         UNCHANGED <<tables, locks, pc, req, resp, fulfil, deskIdem, fulfilLock>>,
         w.op = wf[s].op, w.fid = wf[s].fid, w.target = wf[s].target,
         w.pending # {} => w.op \in {"cancel", "confirm"},
         \A f \in w.pending : fulfil[f].status # "none" /\ fulfil[f].loan = req[s].loan,
         w.at \in {"select", "flush"}, w.at = "select" => w.op = "cancel",
         req[s].op = "return" /\ req[s].holding = None /\ req[s].loan \in LoanIds
  PROVE  DeskInv'
<1> DEFINE row == [local[s] EXCEPT !.view = "open"]
<1>1. local' = [local EXCEPT ![s] = row] OBVIOUS
<1>2. row \in Local /\ row.view = "open"
  <2>1. local[s] \in Local BY DEF DeskInv, TypeInv, TypeOK, SessionsTypeOK
  <2> QED BY <2>1 DEF Local
<1> HIDE DEF row
<1>3. local' \in [Sessions -> Local] /\ local'[s] = row
      /\ \A t \in Sessions \ {s} : local'[t] = local[t]
  BY <1>1, <1>2 DEF DeskInv, TypeInv, TypeOK, SessionsTypeOK
<1>4. UNCHANGED <<patrons, limit, catalogStatus, holdingStatus, loans, idem,
                  holdingLock, loanLock, pc, req, resp>>
  BY DEF tables, locks
<1>5. TypeInv'
  <2>1. TypeOK' BY <1>3, <1>4 DEF DeskInv, TypeInv, TypeOK, TablesTypeOK, SessionsTypeOK
  <2>2. ASSUME NEW t \in Sessions PROVE RequestWellFormed(t)'
    <3>1. RequestWellFormed(t) BY DEF DeskInv, TypeInv, RequestsWellFormed
    <3> QED BY <1>3, <1>4, <3>1 DEF RequestWellFormed
  <2>3. LoansWellFormed' BY <1>4 DEF DeskInv, TypeInv, LoansWellFormed
  <2> QED BY <2>1, <2>2, <2>3 DEF TypeInv, RequestsWellFormed
<1>6. KernelReads(s)' BY <1>2, <1>3, <1>4 DEF KernelReads
<1>7. fulfilLock' \in [FulfilIds -> Sessions \cup {None}] BY DEF DeskInv, DeskTables
<1> QED BY <1>3, <1>4, <1>5, <1>6, <1>7, StepFormed

LEMMA CancelStepFormed ==
  ASSUME DeskInv, NEW s \in Sessions, CancelStep(s)
  PROVE  DeskInv'
<1>0. wf[s] \in Workflow /\ WorkflowFormed(s)
  BY DEF DeskInv, DeskTables
<1>1. CASE RejectCancel(s)
  BY <1>1, RejectFormed DEF RejectCancel, Reject, Codes
<1>2. CASE CancelReadsLoan(s)
  <2> DEFINE w == [wf[s] EXCEPT !.at = "select"]
  <2>1. /\ pc[s] = "workflow" /\ wf[s].at = "read_loan" /\ wf[s].op = "cancel"
        /\ local' = [local EXCEPT ![s].view = "open"] /\ wf' = [wf EXCEPT ![s] = w]
        /\ UNCHANGED <<tables, locks, pc, req, resp, fulfil, deskIdem, fulfilLock>>
    BY <1>2 DEF CancelReadsLoan, At
  <2>2. w \in Workflow /\ w.op = wf[s].op /\ w.fid = wf[s].fid /\ w.target = wf[s].target
        /\ w.pending = wf[s].pending /\ w.at = "select"
    BY <1>0 DEF Workflow
  <2> HIDE DEF w
  <2>3. /\ req[s].op = "return" /\ req[s].holding = None /\ req[s].loan \in LoanIds
        /\ \A f \in w.pending : fulfil[f].status # "none" /\ fulfil[f].loan = req[s].loan
    BY <1>0, <2>1, <2>2 DEF WorkflowFormed
  <2> QED BY <2>1, <2>2, <2>3, LoadLoanFormed
<1>3. CASE CancelSelects(s)
  <2> DEFINE p == {f \in FulfilmentsOf(req[s].loan, "ISSUE") : fulfil[f].status \notin Terminal}
             open == {f \in p : fulfil[f].status # "none"}
             w == [wf[s] EXCEPT !.at = "flush", !.pending = p]
  <2>1. /\ pc[s] = "workflow" /\ wf[s].at = "select"
        /\ UNCHANGED <<vars, fulfil, deskIdem, fulfilLock>>
    BY <1>3 DEF CancelSelects, At
  <2>2. wf' = [wf EXCEPT ![s].at = "flush", ![s].pending = p]
    BY <1>3 DEF CancelSelects
  <2>3. p \in SUBSET FulfilIds /\ \A f \in p : fulfil[f].loan = req[s].loan
    BY DEF FulfilmentsOf
  <2>4. \A f \in p : fulfil[f].direction = "ISSUE" BY DEF FulfilmentsOf
  <2> HIDE DEF p
  <2>5. wf' = [wf EXCEPT ![s] = w] BY <2>2
  <2>6. w \in Workflow /\ w.op = wf[s].op /\ w.fid = wf[s].fid /\ w.target = wf[s].target
        /\ w.pending = p /\ w.at = "flush"
    BY <1>0, <2>3 DEF Workflow
  <2> HIDE DEF w
  <2>7. /\ w.op = "cancel"
        /\ req[s].op = "return" /\ req[s].holding = None /\ req[s].loan \in LoanIds
    BY <1>0, <2>1, <2>6 DEF WorkflowFormed
  <2>8. \A f \in w.pending : fulfil[f].status # "none" /\ fulfil[f].loan = req[s].loan
    BY <2>3, <2>4, <2>6 DEF DeskInv, FulfilWellFormed
  <2> QED BY <2>1, <2>5, <2>6, <2>7, <2>8, AdvanceFormed
<1> QED BY <1>1, <1>2, <1>3 DEF CancelStep

LEMMA EnterStepFormed ==
  ASSUME DeskInv, NEW s \in Sessions, Flush(s) \/ ReadHoldingByBarcode(s)
  PROVE  DeskInv'
<1>0. wf[s] \in Workflow /\ WorkflowFormed(s)
  BY DEF DeskInv, DeskTables
<1>1. CASE Flush(s)
  <2> DEFINE w == [wf[s] EXCEPT !.at = "kernel"]
  <2>1. /\ pc[s] = "workflow" /\ wf[s].at = "flush" /\ EnterKernel(s)
        /\ fulfilLock' = [f \in FulfilIds |-> IF f \in wf[s].pending THEN s ELSE fulfilLock[f]]
        /\ wf' = [wf EXCEPT ![s] = w]
    BY <1>1 DEF Flush, At
  <2>2. w \in Workflow /\ w.op = wf[s].op /\ w.fid = wf[s].fid /\ w.target = wf[s].target
        /\ w.pending = wf[s].pending
    BY <1>0 DEF Workflow
  <2> HIDE DEF w
  <2>3. fulfilLock' \in [FulfilIds -> Sessions \cup {None}]
    BY <2>1 DEF DeskInv, DeskTables
  <2>4. req[s].op = "return" BY <1>0, <2>1 DEF WorkflowFormed
  <2> QED BY <2>1, <2>2, <2>3, <2>4, EnterFormed
<1>2. CASE ReadHoldingByBarcode(s)
  <2> DEFINE seen == holdingStatus[req[s].holding]
             v == [wf[s] EXCEPT !.at = "kernel"]
             w == [v EXCEPT !.seen = seen]
  <2>1. pc[s] = "workflow" /\ wf[s].at = "read_holding" /\ EnterKernel(s) /\ UNCHANGED fulfilLock
    BY <1>2 DEF ReadHoldingByBarcode, At
  <2>2. wf' = [wf EXCEPT ![s].at = "kernel", ![s].seen = seen]
    BY <1>2 DEF ReadHoldingByBarcode
  <2>3. req[s].op = "return" /\ req[s].holding \in Holdings
    BY <1>0, <2>1 DEF WorkflowFormed
  <2>4. seen \in {"AVAILABLE", "ON_LOAN", "WITHDRAWN"}
    BY <2>3 DEF DeskInv, TypeInv, TypeOK, TablesTypeOK
  <2> HIDE DEF seen
  <2>5. wf' = [wf EXCEPT ![s] = w] BY <2>2
  <2>6. v \in Workflow /\ v.op = wf[s].op /\ v.fid = wf[s].fid /\ v.target = wf[s].target
        /\ v.pending = wf[s].pending
    BY <1>0 DEF Workflow
  <2> HIDE DEF v
  <2>7. w \in Workflow /\ w.op = v.op /\ w.fid = v.fid /\ w.target = v.target
        /\ w.pending = v.pending
    BY <2>4, <2>6 DEF Workflow
  <2> HIDE DEF w
  <2>8. fulfilLock' \in [FulfilIds -> Sessions \cup {None}]
    BY <2>1 DEF DeskInv, DeskTables
  <2> QED BY <2>1, <2>3, <2>5, <2>7, <2>8, <2>6, EnterFormed
<1> QED BY <1>1, <1>2

LEMMA PickupStepFormed ==
  ASSUME DeskInv, NEW s \in Sessions, PickupStep(s)
  PROVE  DeskInv'
<1>0. wf[s] \in Workflow /\ WorkflowFormed(s) /\ req[s].loan \in LoanIds \cup {None}
  BY DEF DeskInv, DeskTables, TypeInv, TypeOK, SessionsTypeOK, Request
<1>1. CASE ReplayInitiate(s) \/ RejectInitiate(s) \/ AbortInitiate(s) \/ RejectConfirm(s)
           \/ ConfirmClosedLoan(s)
  <2>1. PICK code \in Codes, l \in LoanIds \cup {None} :
          Finish(s, code, l) /\ UNCHANGED <<tables, fulfil, deskIdem>>
    BY <1>0, <1>1 DEF ReplayInitiate, RejectInitiate, AbortInitiate, RejectConfirm,
       ConfirmClosedLoan, Reject, Codes
  <2> QED BY <2>1, RejectFormed
<1>2. CASE InitiateReadsLoan(s)
  <2> DEFINE w == [wf[s] EXCEPT !.at = "insert"]
  <2>1. /\ pc[s] = "workflow" /\ wf[s].at = "read_loan" /\ wf[s].op = "initiate"
        /\ wf' = [wf EXCEPT ![s] = w] /\ UNCHANGED <<vars, fulfil, deskIdem, fulfilLock>>
    BY <1>2 DEF InitiateReadsLoan, At, Advance
  <2>2. w \in Workflow /\ w.op = wf[s].op /\ w.fid = wf[s].fid /\ w.target = wf[s].target
        /\ w.pending = wf[s].pending /\ w.at = "insert"
    BY <1>0 DEF Workflow
  <2> HIDE DEF w
  <2>3. /\ req[s].loan \in LoanIds /\ req[s].key \in Keys
        /\ w.pending # {} => w.op \in {"cancel", "confirm"}
        /\ \A f \in w.pending : fulfil[f].status # "none" /\ fulfil[f].loan = req[s].loan
    BY <1>0, <2>1, <2>2 DEF WorkflowFormed
  <2> QED BY <2>1, <2>2, <2>3, AdvanceFormed
<1>3. CASE CommitInitiate(s)
  <2>1. PICK f \in UnusedFulfil :
          /\ fulfil' = [fulfil EXCEPT ![f] = [status |-> "REQUESTED", loan |-> req[s].loan,
                                             direction |-> "RETURN"]]
          /\ deskIdem' = deskIdem \cup {[key |-> req[s].key, scope |-> PickupScope(s),
                                         payload |-> None, result |-> f]}
    BY <1>3 DEF CommitInitiate
  <2>2. /\ pc[s] = "workflow" /\ wf[s].at = "insert"
        /\ Finish(s, 201, req[s].loan) /\ UNCHANGED tables
    BY <1>3 DEF CommitInitiate, At
  <2>3. req[s].loan \in LoanIds /\ req[s].key \in Keys BY <1>0, <2>2 DEF WorkflowFormed
  <2>4. deskIdem' \subseteq DeskRecord
    <3>1. [key |-> req[s].key, scope |-> PickupScope(s), payload |-> None, result |-> f]
            \in DeskRecord
      BY <2>3 DEF DeskRecord, PickupScope, UnusedFulfil
    <3> QED BY <2>1, <3>1 DEF DeskInv, DeskTables
  <2>5. /\ fulfil' \in [FulfilIds -> FulfilRow] /\ FulfilWellFormed'
        /\ \A g \in FulfilIds : fulfil[g].status # "none" =>
             fulfil'[g].status # "none" /\ fulfil'[g].loan = fulfil[g].loan
    BY <2>1, <2>3, NewRow
  <2>6. 201 \in Codes BY DEF Codes
  <2> QED BY <1>0, <2>2, <2>4, <2>5, <2>6, FinishFormed
<1>4. CASE ConfirmReadsLoan(s)
  <2> DEFINE p == IF fulfil[wf[s].fid].status = "COMPLETED" THEN {} ELSE {wf[s].fid}
             w == [wf[s] EXCEPT !.at = "flush", !.pending = p]
  <2>1. /\ pc[s] = "workflow" /\ wf[s].at = "read_loan" /\ wf[s].op = "confirm"
        /\ local' = [local EXCEPT ![s].view = "open"]
        /\ UNCHANGED <<tables, locks, pc, req, resp, fulfil, deskIdem, fulfilLock>>
    BY <1>4 DEF ConfirmReadsLoan, At
  <2>2. wf' = [wf EXCEPT ![s].at = "flush", ![s].pending = p]
    BY <1>4 DEF ConfirmReadsLoan
  <2>3. /\ p \in SUBSET FulfilIds
        /\ \A f \in p : fulfil[f].status # "none" /\ fulfil[f].loan = req[s].loan
    BY <1>0, <2>1 DEF WorkflowFormed
  <2> HIDE DEF p
  <2>4. wf' = [wf EXCEPT ![s] = w] BY <2>2
  <2>5. w \in Workflow /\ w.op = wf[s].op /\ w.fid = wf[s].fid /\ w.target = wf[s].target
        /\ w.pending = p /\ w.at = "flush"
    BY <1>0, <2>3 DEF Workflow
  <2> HIDE DEF w
  <2>6. req[s].op = "return" /\ req[s].holding = None /\ req[s].loan \in LoanIds
    BY <1>0, <2>1 DEF WorkflowFormed
  <2> QED BY <2>1, <2>3, <2>4, <2>5, <2>6, LoadLoanFormed
<1> QED BY <1>1, <1>2, <1>3, <1>4 DEF PickupStep

LEMMA TransitionStepFormed ==
  ASSUME DeskInv, NEW s \in Sessions, TransitionStep(s)
  PROVE  DeskInv'
<1>0. wf[s] \in Workflow /\ WorkflowFormed(s)
  BY DEF DeskInv, DeskTables
<1>1. CASE RejectTransitionKey(s) \/ RepeatTransition(s) \/ RejectTransition(s)
           \/ AbortTransition(s)
  <2>1. PICK code \in Codes : Finish(s, code, None) /\ UNCHANGED <<tables, fulfil, deskIdem>>
    BY <1>1 DEF RejectTransitionKey, RepeatTransition, RejectTransition, AbortTransition,
       Reject, Codes
  <2> QED BY <2>1, RejectFormed
<1>2. CASE TransitionReads(s)
  <2> DEFINE w == [wf[s] EXCEPT !.at = "write"]
  <2>1. /\ pc[s] = "workflow" /\ wf[s].at = "read_loan" /\ wf[s].op = "transition"
        /\ wf' = [wf EXCEPT ![s] = w] /\ UNCHANGED <<vars, fulfil, deskIdem, fulfilLock>>
    BY <1>2 DEF TransitionReads, At, Advance
  <2>2. w \in Workflow /\ w.op = wf[s].op /\ w.fid = wf[s].fid /\ w.target = wf[s].target
        /\ w.pending = wf[s].pending /\ w.at = "write"
    BY <1>0 DEF Workflow
  <2> HIDE DEF w
  <2>3. /\ req[s].key \in Keys
        /\ w.pending # {} => w.op \in {"cancel", "confirm"}
        /\ \A f \in w.pending : fulfil[f].status # "none" /\ fulfil[f].loan = req[s].loan
    BY <1>0, <2>1, <2>2 DEF WorkflowFormed
  <2> QED BY <2>1, <2>2, <2>3, AdvanceFormed
<1>3. CASE CommitTransition(s)
  <2> DEFINE f == wf[s].fid
             target == wf[s].target
  <2>1. /\ pc[s] = "workflow" /\ wf[s].at = "write"
        /\ fulfil' = [fulfil EXCEPT ![f].status = target]
        /\ deskIdem' = deskIdem \cup {[key |-> req[s].key, scope |-> TransitionScope(s),
                                       payload |-> target, result |-> f]}
        /\ Finish(s, 200, None) /\ UNCHANGED tables
    BY <1>3 DEF CommitTransition, At
  <2>2. /\ f \in FulfilIds /\ target \in Statuses /\ req[s].key \in Keys
        /\ fulfil[f].status # "none"
    BY <1>0, <2>1 DEF WorkflowFormed
  <2>3. deskIdem' \subseteq DeskRecord
    <3>1. [key |-> req[s].key, scope |-> TransitionScope(s), payload |-> target, result |-> f]
            \in DeskRecord
      BY <2>2 DEF DeskRecord, TransitionScope
    <3> QED BY <2>1, <3>1 DEF DeskInv, DeskTables
  <2>4. /\ fulfil' \in [FulfilIds -> FulfilRow] /\ target # "none"
        /\ \A g \in FulfilIds :
             /\ fulfil'[g].loan = fulfil[g].loan
             /\ fulfil'[g].direction = fulfil[g].direction
             /\ fulfil'[g].status \in {fulfil[g].status, target}
             /\ fulfil[g].status = "none" => fulfil'[g] = fulfil[g]
    <3> HIDE DEF f, target
    <3> QED BY <2>1, <2>2 DEF DeskInv, DeskTables, FulfilRow, Statuses
  <2>5. FulfilWellFormed'
    <3> HIDE DEF f, target
    <3>1. FulfilWellFormed BY DEF DeskInv
    <3> QED BY <2>4, <3>1 DEF FulfilWellFormed
  <2>6. 200 \in Codes /\ None \in LoanIds \cup {None} BY DEF Codes
  <2> QED BY <2>1, <2>3, <2>4, <2>5, <2>6, FinishFormed
<1> QED BY <1>1, <1>2, <1>3 DEF TransitionStep
-----------------------------------------------------------------------------
(* The kernel inside a workflow *)

\* The kernel's end is the end of the workflow's transaction.
LEMMA FlushedRows ==
  ASSUME DeskInv, NEW s \in Sessions, EndsWithKernel(s)
  PROVE  /\ fulfil' \in [FulfilIds -> FulfilRow] /\ FulfilWellFormed'
         /\ \A f \in FulfilIds :
              /\ fulfil'[f].loan = fulfil[f].loan /\ fulfil'[f].direction = fulfil[f].direction
              /\ fulfil[f].status # "none" => fulfil'[f].status # "none"
              /\ fulfil'[f] # fulfil[f] => f \in wf[s].pending
<1>1. CASE fulfil' = fulfil
  BY <1>1 DEF DeskInv, DeskTables, FulfilWellFormed
<1>2. CASE fulfil' # fulfil
  <2> DEFINE p == wf[s].pending
             target == wf[s].target
  <2>1. fulfil' = [f \in FulfilIds |-> IF f \in p THEN [fulfil[f] EXCEPT !.status = target]
                                                ELSE fulfil[f]]
    BY <1>2 DEF EndsWithKernel
  <2>2. p # {} => target \in Statuses /\ \A f \in p : fulfil[f].status # "none"
    BY DEF DeskInv, WorkflowFormed
  <2> HIDE DEF p, target
  <2>3. ASSUME NEW f \in FulfilIds
        PROVE  /\ fulfil'[f] \in FulfilRow
               /\ fulfil'[f].loan = fulfil[f].loan /\ fulfil'[f].direction = fulfil[f].direction
               /\ fulfil'[f] # fulfil[f] =>
                    /\ f \in p
                    /\ fulfil[f].status # "none" /\ fulfil'[f].status # "none"
    <3>1. fulfil[f] \in FulfilRow BY DEF DeskInv, DeskTables
    <3>2. CASE f \in p
      <4>1. fulfil'[f] = [fulfil[f] EXCEPT !.status = target] /\ target \in Statuses
        BY <2>1, <2>2, <3>2
      <4> QED BY <2>2, <3>1, <3>2, <4>1 DEF FulfilRow, Statuses
    <3>3. CASE f \notin p BY <2>1, <3>1, <3>3
    <3> QED BY <3>2, <3>3
  <2>4. fulfil' \in [FulfilIds -> FulfilRow] BY <2>1, <2>3
  <2>5. FulfilWellFormed'
    <3>1. FulfilWellFormed BY DEF DeskInv
    <3> QED BY <2>3, <3>1 DEF FulfilWellFormed
  <2> QED BY <2>3, <2>4, <2>5 DEF p
<1> QED BY <1>1, <1>2

LEMMA KernelAnswerFormed ==
  ASSUME DeskInv, NEW s \in Sessions, NEW code \in Codes, NEW l \in LoanIds \cup {None},
         Answer(s, code, l), EndsWithKernel(s), TypeInv', StoredLoansExist',
         \A m \in LoanIds : /\ loans[m].state # "none" => loans'[m].state # "none"
                            /\ loans[m].state = "returned" => loans'[m].state = "returned",
         code = 201 => l \in LoanIds /\ loans'[l].state # "none"
  PROVE  DeskInv'
<1>1. /\ fulfil' \in [FulfilIds -> FulfilRow] /\ FulfilWellFormed'
      /\ \A f \in FulfilIds : fulfil[f].status # "none" =>
           fulfil'[f].status # "none" /\ fulfil'[f].loan = fulfil[f].loan
  BY FlushedRows
<1>2. wf[s] \in Workflow /\ WorkflowFormed(s) BY DEF DeskInv, DeskTables
<1> DEFINE w == [wf[s] EXCEPT !.pending = {}]
<1>3. wf' = [wf EXCEPT ![s] = w] BY DEF EndsWithKernel
<1>4. w \in Workflow /\ w.op = wf[s].op /\ w.fid = wf[s].fid /\ w.target = wf[s].target
      /\ w.at = wf[s].at /\ w.pending = {}
  BY <1>2 DEF Workflow
<1> HIDE DEF w
<1>5. wf'[s] = w /\ (\A t \in Sessions \ {s} : wf'[t] = wf[t]) /\ wf' \in [Sessions -> Workflow]
  BY <1>3, <1>4 DEF DeskInv, DeskTables
<1>6. DeskTables'
  <2>1. deskIdem' = deskIdem
        /\ fulfilLock' = [f \in FulfilIds |-> IF fulfilLock[f] = s THEN None ELSE fulfilLock[f]]
    BY DEF EndsWithKernel, ReleaseFulfil
  <2> QED BY <1>1, <1>5, <2>1 DEF DeskInv, DeskTables
<1>7. /\ pc'[s] = "done" /\ req'[s] = req[s] /\ local'[s] = NoLocal /\ OnlySession(s)
      /\ resp'[s].code = code /\ resp'[s].loan = l
  BY <1>5 DEF Answer, Goto, OnlySession, DeskInv, TypeInv, TypeOK, SessionsTypeOK
<1>8. RowsKept BY <1>1 DEF RowsKept
<1>9. WorkflowFormed(s)' BY <1>1, <1>2, <1>4, <1>5, <1>7 DEF WorkflowFormed
<1>10. KernelReads(s)' BY <1>7 DEF KernelReads, NoLocal
<1> QED BY <1>1, <1>6, <1>7, <1>8, <1>9, <1>10, Together

\* The kernel's steps that only read or lock.
LEMMA KernelReadFormed ==
  ASSUME DeskInv, NEW s \in Sessions, UNCHANGED deskVars,
         pc[s] \notin {"idle", "workflow", "done"},
         \/ CacheMiss(s) \/ CheckPatron(s) \/ CountOpenLoans(s) \/ LockForCheckout(s)
         \/ ResolvePolicy(s) \/ LockForReturn(s) \/ LockLoan(s) \/ LockHoldingOfLoan(s)
         \/ ReadForWithdraw(s)
  PROVE  DeskInv'
<1>0. WorkflowFormed(s) /\ KernelReads(s) /\ local[s] \in Local
  BY DEF DeskInv, TypeInv, TypeOK, SessionsTypeOK
<1>1. TypeInv' BY ReadStepType DEF DeskInv
<1>2. UNCHANGED <<loans, idem, fulfil, req, resp, wf>> /\ DeskTables'
  BY DEF CacheMiss, CheckPatron, CountOpenLoans, LockForCheckout, ResolvePolicy, LockForReturn,
         LockLoan, LockHoldingOfLoan, ReadForWithdraw, tables, deskVars, DeskInv, DeskTables
<1>3. OnlySession(s) /\ pc'[s] \notin {"idle", "workflow", "done"}
  <2>1. \A t \in Sessions \ {s} : pc'[t] = pc[t] /\ local'[t] = local[t]
    BY DEF CacheMiss, CheckPatron, CountOpenLoans, LockForCheckout, ResolvePolicy, LockForReturn,
           LockLoan, LockHoldingOfLoan, ReadForWithdraw, Goto, DeskInv, TypeInv, TypeOK,
           SessionsTypeOK
  <2>2. pc'[s] \notin {"idle", "workflow", "done"}
    BY DEF CacheMiss, CheckPatron, CountOpenLoans, LockForCheckout, ResolvePolicy, LockForReturn,
           LockLoan, LockHoldingOfLoan, ReadForWithdraw, Goto, DeskInv, TypeInv, TypeOK,
           SessionsTypeOK
  <2> QED BY <1>2, <2>1, <2>2 DEF OnlySession
<1>4. WorkflowFormed(s)' BY <1>0, <1>2, <1>3 DEF WorkflowFormed
<1>5. KernelReads(s)'
  <2>1. CASE CacheMiss(s) \/ CheckPatron(s) \/ CountOpenLoans(s) \/ LockForCheckout(s)
             \/ ResolvePolicy(s) \/ ReadForWithdraw(s)
    <3>1. /\ pc[s] \notin {"lock_loan_holding", "commit_return"}
          /\ pc'[s] \notin {"lock_loan_holding", "commit_return"}
      BY <2>1 DEF CacheMiss, CacheLookup, CheckPatron, CountOpenLoans, LockForCheckout,
         AwaitsCheckoutLock, ResolvePolicy, ReadForWithdraw, Goto, DeskInv, TypeInv, TypeOK,
         SessionsTypeOK
    <3>2. local'[s].view = local[s].view
      BY <1>0, <2>1 DEF CacheMiss, CheckPatron, CountOpenLoans, LockForCheckout, ResolvePolicy,
         ReadForWithdraw, DeskInv, TypeInv, TypeOK, SessionsTypeOK, Local
    <3> QED BY <1>0, <3>1, <3>2 DEF KernelReads
  <2>2. CASE LockForReturn(s)
    <3>1. PICK l \in OpenLoansOn(req[s].holding) :
            local' = [local EXCEPT ![s].loan = l, ![s].view = "open"]
      BY <2>2 DEF LockForReturn
    <3> DEFINE rec == [local[s] EXCEPT !.loan = l, !.view = "open"]
    <3>2. local' = [local EXCEPT ![s] = rec] BY <3>1
    <3>3. rec.view = "open" BY <1>0 DEF Local
    <3> HIDE DEF rec
    <3>4. local'[s] = rec BY <3>2 DEF DeskInv, TypeInv, TypeOK, SessionsTypeOK
    <3>5. pc'[s] = "commit_return" /\ req[s].holding \in Holdings
      BY <2>2 DEF LockForReturn, AwaitsReturnLock, Goto, DeskInv, TypeInv, TypeOK,
         SessionsTypeOK, RequestsWellFormed, RequestWellFormed
    <3> QED BY <1>2, <3>3, <3>4, <3>5 DEF KernelReads
  <2>3. CASE LockLoan(s)
    <3> DEFINE seen == IF local[s].view = "unread" THEN loans[req[s].loan].state
                                                  ELSE local[s].view
               rec == [local[s] EXCEPT !.loan = req[s].loan, !.view = seen]
    <3>1. local' = [local EXCEPT ![s] = rec] /\ pc[s] = "lock_loan"
      BY <2>3 DEF LockLoan
    <3>2. seen \in {"open", "returned"}
          /\ (seen = "returned" => loans[req[s].loan].state = "returned")
      <4>1. req[s].loan \in LoanIds /\ loans[req[s].loan].state \in {"open", "returned"}
        BY <2>3, <3>1 DEF LockLoan, DeskInv, TypeInv, TypeOK, TablesTypeOK,
           RequestsWellFormed, RequestWellFormed, LoanRow
      <4>2. local[s].view \in {"unread", "open"} BY <1>0, <3>1 DEF KernelReads, Local
      <4> QED BY <4>1, <4>2
    <3> HIDE DEF seen
    <3>3. rec.loan = req[s].loan /\ rec.view = seen BY <1>0 DEF Local
    <3> HIDE DEF rec
    <3>4. local'[s] = rec BY <3>1 DEF DeskInv, TypeInv, TypeOK, SessionsTypeOK
    <3>5. pc'[s] = "lock_loan_holding"
      BY <2>3 DEF LockLoan, Goto, DeskInv, TypeInv, TypeOK, SessionsTypeOK
    <3> QED BY <1>2, <3>2, <3>3, <3>4, <3>5 DEF KernelReads
  <2>4. CASE LockHoldingOfLoan(s)
    <3>1. pc[s] = "lock_loan_holding" /\ pc'[s] = "commit_return" /\ local' = local
      BY <2>4 DEF LockHoldingOfLoan, Goto, DeskInv, TypeInv, TypeOK, SessionsTypeOK
    <3> QED BY <1>0, <1>2, <3>1 DEF KernelReads
  <2> QED BY <2>1, <2>2, <2>3, <2>4
<1> QED BY <1>1, <1>2, <1>3, <1>4, <1>5, SameRows, Together

\* What the commits and the replays of the kernel write.
LEMMA CommitEffect ==
  ASSUME DeskInv, NEW s \in Sessions,
         \/ CommitCheckout(s) \/ CommitReturn(s) \/ CommitReturnUnmarked(s)
         \/ CommitRepeatedReturn(s) \/ CommitWithdraw(s) \/ RepeatWithdraw(s)
         \/ ReplayCached(s)
  PROVE  /\ TypeInv' /\ StoredLoansExist'
         /\ \A m \in LoanIds : /\ loans[m].state # "none" => loans'[m].state # "none"
                               /\ loans[m].state = "returned" => loans'[m].state = "returned"
         /\ \E code \in Codes, l \in LoanIds \cup {None} :
              /\ Answer(s, code, l)
              /\ code = 201 => l \in LoanIds /\ loans'[l].state # "none"
<1>0. TypeInv /\ StoredLoansExist BY DEF DeskInv
<1>1. CASE CommitCheckout(s)
  <2>1. PICK l \in Unused :
          /\ loans' = [loans EXCEPT ![l] = [state |-> "open", patron |-> req[s].patron,
                                            holding |-> req[s].holding]]
          /\ idem' = idem \cup {Record(req[s], l)}
          /\ Answer(s, 201, l)
    BY <1>1 DEF CommitCheckout
  <2>2. l \in LoanIds /\ loans[l].state = "none" BY DEF Unused
  <2>3. loans'[l].state = "open" /\ \A m \in LoanIds : m # l => loans'[m] = loans[m]
    BY <1>0, <2>1, <2>2 DEF TypeInv, TypeOK, TablesTypeOK
  <2> DEFINE new == Record(req[s], l)
  <2>4. new.result = l BY DEF Record
  <2>5. idem' = idem \cup {new} BY <2>1
  <2> HIDE DEF new
  <2>6. \A r \in idem : r.result \in LoanIds
    BY <1>0 DEF TypeInv, TypeOK, TablesTypeOK, IdempotencyRecord
  <2>7. StoredLoansExist' BY <1>0, <2>2, <2>3, <2>4, <2>5, <2>6 DEF StoredLoansExist
  <2>8. TypeInv' BY <1>0, <1>1, CommitType
  <2> QED BY <2>1, <2>2, <2>3, <2>7, <2>8 DEF Codes
<1>2. CASE CommitReturn(s) \/ CommitReturnUnmarked(s) \/ CommitRepeatedReturn(s)
  <2> DEFINE l == local[s].loan
             new == Record(req[s], l)
  <2>1. pc[s] = "commit_return"
    BY <1>2 DEF CommitReturn, CommitReturnUnmarked, CommitRepeatedReturn
  <2>2. l \in LoanIds /\ loans[l].state # "none"
    BY <1>0, <2>1 DEF TypeInv, RequestsWellFormed, RequestWellFormed
  <2>3. idem' = idem \cup {new} /\ Answer(s, 200, l)
    BY <1>2 DEF CommitReturn, CommitReturnUnmarked, CommitRepeatedReturn
  <2>4. new.result = l BY DEF Record
  <2>5. /\ \A m \in LoanIds : /\ loans[m].state # "none" <=> loans'[m].state # "none"
                              /\ loans[m].state = "returned" => loans'[m].state = "returned"
                              /\ loans'[m].patron = loans[m].patron
                              /\ loans'[m].holding = loans[m].holding
        /\ loans' \in [LoanIds -> LoanRow]
    <3>1. CASE loans' = loans BY <1>0, <3>1 DEF TypeInv, TypeOK, TablesTypeOK
    <3>2. CASE loans' = [loans EXCEPT ![l].state = "returned"]
      <4> DEFINE row == [loans[l] EXCEPT !.state = "returned"]
      <4>1. row \in LoanRow /\ row.state = "returned" /\ row.patron = loans[l].patron
            /\ row.holding = loans[l].holding
        <5>1. loans[l] \in LoanRow BY <1>0, <2>2 DEF TypeInv, TypeOK, TablesTypeOK
        <5> QED BY <5>1 DEF LoanRow
      <4>2. loans' = [loans EXCEPT ![l] = row] BY <3>2
      <4> HIDE DEF row, l
      <4> QED BY <1>0, <2>2, <4>1, <4>2 DEF TypeInv, TypeOK, TablesTypeOK
    <3> QED BY <1>2, <3>1, <3>2
            DEF CommitReturn, CommitReturnUnmarked, CommitRepeatedReturn
  <2>6. \A r \in idem : r.result \in LoanIds
    BY <1>0 DEF TypeInv, TypeOK, TablesTypeOK, IdempotencyRecord
  <2>7. StoredLoansExist'
    <3> HIDE DEF new, l
    <3> QED BY <1>0, <2>2, <2>3, <2>4, <2>5, <2>6 DEF StoredLoansExist
  <2>8. TypeInv'
    <3>1. CASE CommitReturn(s) \/ CommitRepeatedReturn(s) BY <1>0, <3>1, CommitType
    <3>2. CASE CommitReturnUnmarked(s)
      <4>1. LoansWellFormed' BY <1>0, <2>5 DEF TypeInv, LoansWellFormed
      <4>2. SessionsTypeOK' /\ RequestsWellFormed'
        BY <1>0, <2>2, <2>3, <2>5, <4>1, AnswerType DEF Codes
      <4>3. new \in IdempotencyRecord BY <1>0, <2>1, <2>2, RecordType
      <4>4. TablesTypeOK'
        BY <1>0, <2>3, <2>5, <3>2, <4>3 DEF CommitReturnUnmarked, TypeInv, TypeOK, TablesTypeOK
      <4> QED BY <4>1, <4>2, <4>4 DEF TypeInv, TypeOK
    <3> QED BY <1>2, <3>1, <3>2
  <2> QED BY <2>2, <2>3, <2>5, <2>7, <2>8 DEF Codes
<1>3. CASE CommitWithdraw(s) \/ RepeatWithdraw(s) \/ ReplayCached(s)
  <2>1. UNCHANGED <<loans, idem>>
    BY <1>3 DEF CommitWithdraw, RepeatWithdraw, ReplayCached, tables
  <2>2. \E code \in Codes, l \in LoanIds \cup {None} :
          /\ Answer(s, code, l)
          /\ code = 201 => l \in LoanIds /\ loans[l].state # "none"
    <3>1. CASE CommitWithdraw(s) \/ RepeatWithdraw(s)
      BY <3>1 DEF CommitWithdraw, RepeatWithdraw, Codes
    <3>2. CASE ReplayCached(s)
      BY <1>0, <3>2 DEF ReplayCached, Stored, StoredLoansExist, Codes, TypeInv, TypeOK,
         TablesTypeOK, IdempotencyRecord
    <3> QED BY <1>3, <3>1, <3>2
  <2>3. TypeInv' BY <1>0, <1>3, CommitType
  <2>4. StoredLoansExist' BY <1>0, <2>1 DEF StoredLoansExist
  <2> QED BY <2>1, <2>2, <2>3, <2>4
<1> QED BY <1>1, <1>2, <1>3

LEMMA KernelStepFormed ==
  ASSUME DeskInv, NEW s \in Sessions, KernelStep(s)
  PROVE  DeskInv'
<1>0. pc[s] \notin {"idle", "workflow", "done"} BY DEF KernelStep
<1>1. CASE \/ CommitCheckout(s) \/ CommitReturn(s) \/ CommitReturnUnmarked(s)
           \/ CommitRepeatedReturn(s) \/ CommitWithdraw(s) \/ RepeatWithdraw(s)
           \/ ReplayCached(s)
  <2>1. PICK code \in Codes, l \in LoanIds \cup {None} :
          /\ Answer(s, code, l)
          /\ code = 201 => l \in LoanIds /\ loans'[l].state # "none"
    BY <1>1, CommitEffect
  <2>2. EndsWithKernel(s)
    BY <2>1 DEF Answer, Goto, KernelStep, DeskInv, TypeInv, TypeOK, SessionsTypeOK
  <2> QED BY <1>1, <2>1, <2>2, CommitEffect, KernelAnswerFormed
<1>2. CASE \/ RejectUnnamedReturn(s) \/ RejectReusedKey(s) \/ RejectPatron(s)
           \/ RejectHolding(s) \/ RejectPolicy(s) \/ AbortCheckout(s) \/ RejectNoOpenLoan(s)
           \/ RejectNoLoan(s) \/ AbortReturn(s) \/ RejectWithdraw(s)
  <2>1. TypeInv' /\ \E code \in {404, 409, 422, 500} : Fail(s, code)
    <3>1. TypeInv' BY <1>2, RejectType DEF DeskInv
    <3>2. \E code \in {404, 409, 422, 500} : Fail(s, code)
      BY <1>2 DEF RejectUnnamedReturn, RejectReusedKey, RejectPatron, RejectHolding,
         RejectPolicy, AbortCheckout, RejectNoOpenLoan, RejectNoLoan, AbortReturn, RejectWithdraw
    <3> QED BY <3>1, <3>2
  <2>2. PICK code \in {404, 409, 422, 500} : Fail(s, code) BY <2>1
  <2>3. Answer(s, code, None) /\ UNCHANGED <<loans, idem>> /\ code \in Codes /\ code # 201
    BY <2>2 DEF Fail, tables, Codes
  <2>4. EndsWithKernel(s)
    BY <2>3 DEF Answer, Goto, KernelStep, DeskInv, TypeInv, TypeOK, SessionsTypeOK
  <2>5. StoredLoansExist' BY <2>3 DEF DeskInv, StoredLoansExist
  <2> QED BY <2>1, <2>3, <2>4, <2>5, KernelAnswerFormed
<1>3. CASE \/ CacheMiss(s) \/ CheckPatron(s) \/ CountOpenLoans(s) \/ LockForCheckout(s)
           \/ ResolvePolicy(s) \/ LockForReturn(s) \/ LockLoan(s) \/ LockHoldingOfLoan(s)
           \/ ReadForWithdraw(s)
  <2>1. pc'[s] # "done"
    BY <1>3 DEF CacheMiss, CheckPatron, CountOpenLoans, LockForCheckout, ResolvePolicy,
       LockForReturn, LockLoan, LockHoldingOfLoan, ReadForWithdraw, Goto, DeskInv, TypeInv,
       TypeOK, SessionsTypeOK
  <2>2. UNCHANGED deskVars BY <2>1 DEF KernelStep
  <2> QED BY <1>0, <1>3, <2>2, KernelReadFormed
<1>4. ~Reply(s) BY <1>0 DEF Reply
<1> QED BY <1>1, <1>2, <1>3, <1>4 DEF KernelStep, LockingStep, FreeStep

LEMMA EndFormed ==
  ASSUME DeskInv, NEW s \in Sessions, DeskReply(s) \/ DeskCrash(s)
  PROVE  DeskInv'
<1>1. EndRequest(s) /\ ForgetWorkflow(s) BY DEF DeskReply, DeskCrash, Reply, Crash
<1>2. TypeInv' BY <1>1, EndRequestType DEF DeskInv
<1>3. NoWorkflow \in Workflow BY DEF NoWorkflow, Workflow
<1>4. /\ wf' = [wf EXCEPT ![s] = NoWorkflow] /\ UNCHANGED <<fulfil, deskIdem>>
      /\ fulfilLock' = [f \in FulfilIds |-> IF fulfilLock[f] = s THEN None ELSE fulfilLock[f]]
  BY <1>1 DEF ForgetWorkflow, ReleaseFulfil
<1>5. wf'[s] = NoWorkflow /\ DeskTables' /\ \A t \in Sessions \ {s} : wf'[t] = wf[t]
  BY <1>3, <1>4 DEF DeskInv, DeskTables
<1>6. /\ pc'[s] = "idle" /\ local'[s] = NoLocal /\ UNCHANGED <<loans, idem, fulfil>>
      /\ OnlySession(s)
  BY <1>1, <1>4, <1>5 DEF EndRequest, Goto, tables, OnlySession, DeskInv, TypeInv, TypeOK,
     SessionsTypeOK
<1>7. WorkflowFormed(s)' /\ KernelReads(s)'
  BY <1>5, <1>6 DEF WorkflowFormed, KernelReads, NoWorkflow, NoLocal
<1> QED BY <1>2, <1>5, <1>6, <1>7, SameRows, Together

LEMMA VictimFormed ==
  ASSUME DeskInv, NEW s \in Sessions, DeskVictim(s)
  PROVE  DeskInv'
<1>1. Answer(s, 500, None) /\ UNCHANGED tables BY DEF DeskVictim, DeadlockVictim, Fail
<1>2. TypeInv' BY RejectType DEF DeskVictim, DeskInv
<1>3. EndsWithKernel(s) BY <1>1 DEF DeskVictim, EndsWithKernel, tables
<1>4. StoredLoansExist' /\ UNCHANGED loans BY <1>1 DEF DeskInv, StoredLoansExist, tables
<1>5. 500 \in Codes /\ None \in LoanIds \cup {None} BY DEF Codes
<1> QED BY <1>1, <1>2, <1>3, <1>4, <1>5, KernelAnswerFormed

LEMMA DeskStepFormed == DeskInv /\ [WorkflowNext]_allVars => DeskInv'
<1> SUFFICES ASSUME DeskInv, [WorkflowNext]_allVars PROVE DeskInv' OBVIOUS
<1>1. ASSUME NEW s \in Sessions,
             PostWorkflow(s) \/ WorkflowSessionStep(s) \/ (Post(s) /\ UNCHANGED deskVars)
      PROVE  DeskInv'
  BY <1>1, PostWorkflowFormed, PostKernelFormed, IssueStepFormed, CreateFormed,
     CancelStepFormed, EnterStepFormed, PickupStepFormed, TransitionStepFormed,
     KernelStepFormed, EndFormed, VictimFormed
  DEF WorkflowSessionStep, WorkflowStep
<1>2. ASSUME UNCHANGED <<loans, idem, pc, req, local, resp, fulfil, deskIdem, fulfilLock, wf>>,
             TypeInv'
      PROVE  DeskInv'
  BY <1>2 DEF DeskInv, DeskTables, FulfilWellFormed, StoredLoansExist, WorkflowFormed, KernelReads
<1>3. CASE StaffStep /\ UNCHANGED deskVars
  <2>1. UNCHANGED <<loans, idem, pc, req, local, resp>>
    BY <1>3 DEF StaffStep, SuspendPatron, ExitPatron, SetPatronStatus, SetPatronBlock,
       UpdatePatronType, UpdateLoanRuleSet, PublishCatalog, SuppressCatalog,
       SetCatalogingStatus, otherThanPatrons
  <2>2. TypeInv' BY <1>3, StaffType DEF DeskInv
  <2> QED BY <1>2, <1>3, <2>1, <2>2 DEF deskVars
<1>4. CASE UNCHANGED allVars
  <2>1. UNCHANGED <<patrons, limit, catalogStatus, holdingStatus, loans, idem, holdingLock,
                    loanLock, pc, req, local, resp, fulfil, deskIdem, fulfilLock, wf>>
    BY <1>4 DEF allVars, vars, tables, locks, deskVars
  <2>2. TypeInv'
    BY <2>1 DEF DeskInv, TypeInv, TypeOK, TablesTypeOK, SessionsTypeOK, RequestsWellFormed,
       RequestWellFormed, LoansWellFormed
  <2> QED BY <1>2, <2>1, <2>2
<1> QED BY <1>1, <1>3, <1>4 DEF WorkflowNext

LEMMA DeskInitFormed == WorkflowInit => DeskInv
<1> SUFFICES ASSUME WorkflowInit PROVE DeskInv OBVIOUS
<1>1. TypeInv
  BY DEF WorkflowInit, Init, TypeInv, TypeOK, TablesTypeOK, SessionsTypeOK, NoLoan, LoanRow,
     PCs, NoReq, Request, NoLocal, Local, NoResp, Response, Codes, RequestsWellFormed,
     RequestWellFormed, LoansWellFormed
<1>2. DeskTables /\ FulfilWellFormed /\ StoredLoansExist
  BY DEF WorkflowInit, Init, DeskTables, FulfilWellFormed, StoredLoansExist, NoFulfil,
     FulfilRow, NoWorkflow, Workflow
<1>3. ASSUME NEW s \in Sessions PROVE WorkflowFormed(s) /\ KernelReads(s)
  BY DEF WorkflowInit, Init, WorkflowFormed, KernelReads, NoWorkflow, NoLocal
<1> QED BY <1>1, <1>2, <1>3 DEF DeskInv

LEMMA DeskInvariant == WorkflowSpec => []DeskInv
BY DeskInitFormed, DeskStepFormed, PTL DEF WorkflowSpec

\* Every table, lock and session of the workflows and of the kernel below them holds a
\* value of its type: no handler reads an id its request does not carry, and every
\* fulfilment a workflow flushes exists and is of the loan it works on.
THEOREM DeskTypeCorrect == WorkflowSpec => []DeskTypeOK
<1>1. DeskInv => DeskTypeOK BY DEF DeskInv, DeskTables, DeskTypeOK, TypeInv
<1> QED BY <1>1, DeskInvariant, PTL

-----------------------------------------------------------------------------
(* Which steps write the tables *)

LEMMA WorkflowWrites ==
  ASSUME NEW s \in Sessions, WorkflowStep(s)
  PROVE  \/ UNCHANGED <<loans, idem, fulfil, deskIdem>>
         \/ CreateIssueFulfilment(s) \/ CommitInitiate(s) \/ CommitTransition(s)
<1>1. CASE IssueStep(s)
  BY <1>1 DEF IssueStep, RejectIssueKey, IssueCached, IssueNotCached, PreviewPatron,
     PreviewHolding, RefreshLoan, RejectIssueFulfilment, Reject, EnterKernel, Advance,
     vars, tables
<1>2. CASE CancelStep(s)
  BY <1>2 DEF CancelStep, RejectCancel, CancelReadsLoan, CancelSelects, Reject, vars, tables
<1>3. CASE Flush(s) \/ ReadHoldingByBarcode(s)
  BY <1>3 DEF Flush, ReadHoldingByBarcode, EnterKernel, tables
<1>4. CASE PickupStep(s)
  BY <1>4 DEF PickupStep, ReplayInitiate, RejectInitiate, InitiateReadsLoan, AbortInitiate,
     RejectConfirm, ConfirmClosedLoan, ConfirmReadsLoan, Reject, Advance, vars, tables
<1>5. CASE TransitionStep(s)
  BY <1>5 DEF TransitionStep, RejectTransitionKey, RepeatTransition, RejectTransition,
     TransitionReads, AbortTransition, Reject, Advance, vars, tables
<1> QED BY <1>1, <1>2, <1>3, <1>4, <1>5 DEF WorkflowStep

\* Every step leaves the tables alone but for these.
LEMMA WritingSteps ==
  ASSUME [WorkflowNext]_allVars
  PROVE  \/ UNCHANGED <<loans, idem, fulfil, deskIdem>>
         \/ \E s \in Sessions : \/ KernelStep(s) \/ CreateIssueFulfilment(s)
                                \/ CommitInitiate(s) \/ CommitTransition(s)
<1>1. ASSUME NEW s \in Sessions, PostWorkflow(s)
      PROVE  UNCHANGED <<loans, idem, fulfil, deskIdem>>
  BY <1>1 DEF PostWorkflow, PostIssue, PostCancel, PostInitiate, PostReturnByBarcode,
     PostConfirm, PostTransition, Begin, Accept, tables
<1>2. ASSUME NEW s \in Sessions, Post(s) /\ UNCHANGED deskVars
      PROVE  UNCHANGED <<loans, idem, fulfil, deskIdem>>
  BY <1>2 DEF Post, PostCheckout, PostReturn, PostWithdraw, Accept, tables, deskVars
<1>3. ASSUME NEW s \in Sessions, DeskReply(s) \/ DeskCrash(s) \/ DeskVictim(s)
      PROVE  UNCHANGED <<loans, idem, fulfil, deskIdem>>
  BY <1>3 DEF DeskReply, DeskCrash, DeskVictim, Reply, Crash, EndRequest, ForgetWorkflow,
     DeadlockVictim, Fail, tables
<1>4. CASE StaffStep /\ UNCHANGED deskVars
  BY <1>4 DEF StaffStep, SuspendPatron, ExitPatron, SetPatronStatus, SetPatronBlock,
     UpdatePatronType, UpdateLoanRuleSet, PublishCatalog, SuppressCatalog,
     SetCatalogingStatus, otherThanPatrons, deskVars
<1>5. CASE UNCHANGED allVars BY <1>5 DEF allVars, vars, tables, deskVars
<1> QED BY <1>1, <1>2, <1>3, <1>4, <1>5, WorkflowWrites DEF WorkflowNext, WorkflowSessionStep

\* Inside the kernel, loans are written by the commits.
LEMMA KernelWrites ==
  ASSUME DeskInv, NEW s \in Sessions, KernelStep(s)
  PROVE  \/ UNCHANGED <<loans, idem>>
         \/ CommitCheckout(s) \/ CommitReturn(s) \/ CommitReturnUnmarked(s)
         \/ CommitRepeatedReturn(s)
<1>1. ~Reply(s) BY DEF KernelStep, Reply
<1> QED
  BY <1>1 DEF KernelStep, LockingStep, FreeStep, RejectUnnamedReturn, RejectReusedKey,
     RejectPatron, RejectHolding, RejectPolicy, AbortCheckout, RejectNoOpenLoan, RejectNoLoan,
     AbortReturn, RejectWithdraw, CacheMiss, CheckPatron, CountOpenLoans, LockForCheckout,
     ResolvePolicy, LockForReturn, LockLoan, LockHoldingOfLoan, ReadForWithdraw,
     CommitWithdraw, RepeatWithdraw, ReplayCached, Fail, tables

LEMMA KernelFulfil ==
  ASSUME DeskInv, NEW s \in Sessions, KernelStep(s)
  PROVE  /\ deskIdem' = deskIdem
         /\ \A f \in FulfilIds :
              fulfil'[f].loan = fulfil[f].loan /\ fulfil'[f].direction = fulfil[f].direction
         /\ fulfil' # fulfil => EndsWithKernel(s) /\ idem' # idem
<1>1. CASE EndsWithKernel(s)
  BY <1>1, FlushedRows DEF EndsWithKernel
<1>2. CASE UNCHANGED deskVars BY <1>2 DEF deskVars
<1> QED BY <1>1, <1>2 DEF KernelStep

-----------------------------------------------------------------------------
(* One application of a key *)

\* A transition writes the status alone.
LEMMA TransitionKeeps ==
  ASSUME DeskInv, NEW s \in Sessions, CommitTransition(s)
  PROVE  \A f \in FulfilIds :
           fulfil'[f].loan = fulfil[f].loan /\ fulfil'[f].direction = fulfil[f].direction
<1>1. fulfil \in [FulfilIds -> FulfilRow] BY DEF DeskInv, DeskTables
<1> DEFINE target == wf[s].target
           fid == wf[s].fid
<1>2. fulfil' = [fulfil EXCEPT ![fid].status = target] BY DEF CommitTransition
<1> HIDE DEF target, fid
<1>3. ASSUME NEW f \in FulfilIds
      PROVE  fulfil'[f].loan = fulfil[f].loan /\ fulfil'[f].direction = fulfil[f].direction
  <2>1. CASE f = fid
    <3>1. fulfil'[f] = [fulfil[f] EXCEPT !.status = target] BY <1>1, <1>2, <2>1
    <3> QED BY <1>1, <3>1 DEF FulfilRow
  <2>2. CASE f # fid BY <1>1, <1>2, <2>2
  <2> QED BY <2>1, <2>2
<1> QED BY <1>3

\* A step that adds at most one record, whose key is new, and at most the pick-up that
\* the record answers.
LEMMA AppliedStep ==
  DeskInv /\ AppliedOncePerKey /\ [WorkflowNext]_allVars => AppliedOncePerKey'
<1> SUFFICES ASSUME DeskInv, AppliedOncePerKey, [WorkflowNext]_allVars
             PROVE  AppliedOncePerKey'
  OBVIOUS
<1>1. ASSUME deskIdem' = deskIdem,
             \A f \in FulfilIds : fulfil'[f].direction = "RETURN" =>
               fulfil[f].direction = "RETURN" /\ fulfil'[f].loan = fulfil[f].loan
      PROVE  AppliedOncePerKey'
  BY <1>1 DEF AppliedOncePerKey
<1>2. CASE UNCHANGED <<fulfil, deskIdem>> BY <1>1, <1>2
<1>3. ASSUME NEW s \in Sessions, KernelStep(s) PROVE AppliedOncePerKey'
  BY <1>1, <1>3, KernelFulfil
<1>4. ASSUME NEW s \in Sessions, CreateIssueFulfilment(s) PROVE AppliedOncePerKey'
  <2>1. PICK g \in UnusedFulfil :
          fulfil' = [fulfil EXCEPT ![g] = [status |-> "REQUESTED", loan |-> resp[s].loan,
                                           direction |-> "ISSUE"]]
    BY <1>4 DEF CreateIssueFulfilment
  <2>2. deskIdem' = deskIdem BY <1>4 DEF CreateIssueFulfilment
  <2>3. \A f \in FulfilIds : fulfil'[f].direction = "RETURN" => fulfil'[f] = fulfil[f]
    BY <2>1 DEF UnusedFulfil, DeskInv, DeskTables
  <2> QED BY <1>1, <2>2, <2>3
<1>5. ASSUME NEW s \in Sessions, CommitInitiate(s) PROVE AppliedOncePerKey'
  <2>1. PICK g \in UnusedFulfil :
          /\ fulfil' = [fulfil EXCEPT ![g] = [status |-> "REQUESTED", loan |-> req[s].loan,
                                             direction |-> "RETURN"]]
          /\ deskIdem' = deskIdem \cup {[key |-> req[s].key, scope |-> PickupScope(s),
                                         payload |-> None, result |-> g]}
    BY <1>5 DEF CommitInitiate
  <2>2. \A r \in deskIdem : ~(r.scope = PickupScope(s) /\ r.key = req[s].key)
    BY <1>5 DEF CommitInitiate, DeskKeyConflict, DeskStored
  <2>3. /\ fulfil'[g].loan = req[s].loan
        /\ \A f \in FulfilIds : f # g => fulfil'[f] = fulfil[f]
    BY <2>1 DEF UnusedFulfil, DeskInv, DeskTables
  <2> DEFINE new == [key |-> req[s].key, scope |-> PickupScope(s), payload |-> None, result |-> g]
  <2>4. /\ deskIdem' = deskIdem \cup {new} /\ new.key = req[s].key
        /\ new.scope = PickupScope(s) /\ new.scope = <<"pickup", fulfil'[g].loan>>
        /\ new.result = g
    BY <2>1, <2>3 DEF PickupScope
  <2> HIDE DEF new
  <2>5. /\ \A r, q \in deskIdem : r.scope = q.scope /\ r.key = q.key => r = q
        /\ \A f \in FulfilIds : fulfil[f].direction = "RETURN" =>
               \E r \in deskIdem : r.scope = <<"pickup", fulfil[f].loan>> /\ r.result = f
    BY DEF AppliedOncePerKey
  <2>6. \A r, q \in deskIdem' : r.scope = q.scope /\ r.key = q.key => r = q
    BY <2>2, <2>4, <2>5
  <2>7. \A f \in FulfilIds : fulfil'[f].direction = "RETURN" =>
               \E r \in deskIdem' : r.scope = <<"pickup", fulfil'[f].loan>> /\ r.result = f
    BY <2>3, <2>4, <2>5
  <2> QED BY <2>6, <2>7 DEF AppliedOncePerKey
<1>6. ASSUME NEW s \in Sessions, CommitTransition(s) PROVE AppliedOncePerKey'
  <2> DEFINE new == [key |-> req[s].key, scope |-> TransitionScope(s),
                     payload |-> wf[s].target, result |-> wf[s].fid]
  <2>1. /\ deskIdem' = deskIdem \cup {new} /\ new.key = req[s].key
        /\ new.scope = TransitionScope(s)
    BY <1>6 DEF CommitTransition
  <2> HIDE DEF new
  <2>2. \A r \in deskIdem : ~(r.scope = TransitionScope(s) /\ r.key = req[s].key)
    BY <1>6 DEF CommitTransition, DeskKeyConflict, DeskStored
  <2>3. \A f \in FulfilIds :
          fulfil'[f].loan = fulfil[f].loan /\ fulfil'[f].direction = fulfil[f].direction
    BY <1>6, TransitionKeeps
  <2>4. /\ \A r, q \in deskIdem : r.scope = q.scope /\ r.key = q.key => r = q
        /\ \A f \in FulfilIds : fulfil[f].direction = "RETURN" =>
               \E r \in deskIdem : r.scope = <<"pickup", fulfil[f].loan>> /\ r.result = f
    BY DEF AppliedOncePerKey
  <2>5. \A r, q \in deskIdem' : r.scope = q.scope /\ r.key = q.key => r = q
    BY <2>1, <2>2, <2>4
  <2>6. \A f \in FulfilIds : fulfil'[f].direction = "RETURN" =>
               \E r \in deskIdem' : r.scope = <<"pickup", fulfil'[f].loan>> /\ r.result = f
    BY <2>1, <2>3, <2>4
  <2> QED BY <2>5, <2>6 DEF AppliedOncePerKey
<1> QED BY <1>2, <1>3, <1>4, <1>5, <1>6, WritingSteps

\* A pick-up or a transition is applied once per Idempotency-Key, whatever the requests
\* and their retries: a key has one stored answer, and every pick-up is an answer.
THEOREM AppliedOncePerKeyAlways == WorkflowSpec => []AppliedOncePerKey
<1>1. WorkflowInit => AppliedOncePerKey
  BY DEF WorkflowInit, NoFulfil, AppliedOncePerKey
<1> QED BY <1>1, DeskInvariant, AppliedStep, PTL DEF WorkflowSpec

-----------------------------------------------------------------------------
(* Fulfilments change with their loan *)

\* What the kernel's commit writes of a cancel or a confirmation.
LEMMA FlushWithReturn ==
  ASSUME DeskInv, NEW s \in Sessions, KernelStep(s), NEW f \in FulfilIds, fulfil'[f] # fulfil[f]
  PROVE  loans'[fulfil[f].loan].state = "returned"
<1>1. EndsWithKernel(s) /\ idem' # idem BY KernelFulfil
<1>2. f \in wf[s].pending BY <1>1, FlushedRows
<1>3. WorkflowFormed(s) /\ KernelReads(s) BY DEF DeskInv
<1>4. /\ req[s].op = "return" /\ req[s].holding = None /\ fulfil[f].loan = req[s].loan
  BY <1>2, <1>3 DEF WorkflowFormed
<1>5. CommitReturn(s) \/ CommitReturnUnmarked(s) \/ CommitRepeatedReturn(s)
  <2>1. pc[s] # "commit_checkout"
    BY <1>4 DEF DeskInv, TypeInv, RequestsWellFormed, RequestWellFormed
  <2> QED BY <1>1, <2>1, KernelWrites DEF CommitCheckout
<1>6. pc[s] = "commit_return"
  BY <1>5 DEF CommitReturn, CommitReturnUnmarked, CommitRepeatedReturn
<1>7. local[s].loan = req[s].loan /\ req[s].loan \in LoanIds
  BY <1>3, <1>4, <1>6 DEF KernelReads, DeskInv, TypeInv, RequestsWellFormed, RequestWellFormed
<1>8. CASE CommitRepeatedReturn(s)
  BY <1>3, <1>4, <1>6, <1>7, <1>8 DEF CommitRepeatedReturn, KernelReads
<1>9. CASE CommitReturn(s) \/ CommitReturnUnmarked(s)
  <2>1. loans' = [loans EXCEPT ![local[s].loan].state = "returned"]
    BY <1>9 DEF CommitReturn, CommitReturnUnmarked
  <2>2. loans \in [LoanIds -> LoanRow] BY DEF DeskInv, TypeInv, TypeOK, TablesTypeOK
  <2>3. loans'[req[s].loan] = [loans[req[s].loan] EXCEPT !.state = "returned"]
    BY <1>7, <2>1, <2>2
  <2> QED BY <1>4, <1>7, <2>2, <2>3 DEF LoanRow
<1> QED BY <1>5, <1>8, <1>9

\* The other writers of fulfilments are no cancel and no confirmation.
LEMMA OtherWriters ==
  ASSUME DeskInv, NEW t \in Sessions,
         CreateIssueFulfilment(t) \/ CommitInitiate(t) \/ CommitTransition(t)
  PROVE  /\ wf[t].op \notin {"cancel", "confirm"}
         /\ \A s \in Sessions \ {t} : pc'[s] = pc[s] /\ wf'[s] = wf[s]
<1>1. WorkflowFormed(t) BY DEF DeskInv
<1>2. CASE CreateIssueFulfilment(t)
  <2>1. /\ wf[t].op = "issue" /\ UNCHANGED pc
        /\ wf' = [wf EXCEPT ![t].at = "answered"]
    BY <1>2 DEF CreateIssueFulfilment, AwaitsFulfilment, vars
  <2> QED BY <2>1 DEF DeskInv, DeskTables
<1>3. CASE CommitInitiate(t) \/ CommitTransition(t)
  <2>1. wf[t].op \in {"initiate", "transition"}
    BY <1>1, <1>3 DEF CommitInitiate, CommitTransition, At, WorkflowFormed
  <2>2. /\ wf' = [wf EXCEPT ![t].at = "answered", ![t].pending = {}]
        /\ pc' = [pc EXCEPT ![t] = "done"]
    BY <1>3 DEF CommitInitiate, CommitTransition, Finish, Answer, Goto
  <2> QED BY <2>1, <2>2 DEF DeskInv, DeskTables, TypeInv, TypeOK, SessionsTypeOK
<1> QED BY <1>2, <1>3

\* cancel_issue and confirm_pickup_received change a fulfilment only in the step that
\* leaves its loan returned: neither is ever seen without the other.
THEOREM FulfilmentChangesWithReturnAlways == WorkflowSpec => FulfilmentChangesWithReturn
<1> DEFINE Changes == \A s \in Sessions, f \in FulfilIds :
             /\ wf[s].op \in {"cancel", "confirm"}
             /\ <<pc[s], wf[s]>> # <<pc'[s], wf'[s]>>
             /\ fulfil'[f] # fulfil[f]
             => loans'[fulfil[f].loan].state = "returned"
<1>1. DeskInv /\ [WorkflowNext]_allVars => Changes
  <2> SUFFICES ASSUME DeskInv, [WorkflowNext]_allVars,
                      NEW s \in Sessions, NEW f \in FulfilIds,
                      wf[s].op \in {"cancel", "confirm"},
                      <<pc[s], wf[s]>> # <<pc'[s], wf'[s]>>,
                      fulfil'[f] # fulfil[f]
               PROVE  loans'[fulfil[f].loan].state = "returned"
    OBVIOUS
  <2>1. PICK t \in Sessions : \/ KernelStep(t) \/ CreateIssueFulfilment(t)
                              \/ CommitInitiate(t) \/ CommitTransition(t)
    BY WritingSteps
  <2>2. CASE KernelStep(t) BY <2>2, FlushWithReturn
  <2>3. CASE CreateIssueFulfilment(t) \/ CommitInitiate(t) \/ CommitTransition(t)
    BY <2>3, OtherWriters
  <2> QED BY <2>1, <2>2, <2>3
<1> HIDE DEF Changes
<1>2. WorkflowSpec => [][Changes]_allVars
  BY <1>1, DeskInvariant, PTL DEF WorkflowSpec
<1> QED BY <1>2 DEF Changes, FulfilmentChangesWithReturn

=============================================================================
