--------------------------- MODULE DeskWorkflows ---------------------------
(***************************************************************************)
(* The desk workflows: SearchAndIssueWorkflow (commit, cancel_issue),      *)
(* ReturnBookWorkflow (commit_desk, initiate_pickup,                       *)
(* confirm_pickup_received) and FulfillmentService.transition, around the  *)
(* circulation kernel they call.                                           *)
(*                                                                         *)
(* A workflow runs in the session of its request.  Its own code runs while *)
(* pc is "workflow", at the place wf[s].at; it enters the kernel at        *)
(* find_cached and, after an issue, goes on once the kernel has answered.  *)
(* A row object the workflow has loaded stays as it was loaded: the loan   *)
(* of cancel_issue and confirm_pickup_received (local.view), the loan of a *)
(* new fulfilment (wf.view), the holding of a return by barcode (wf.seen). *)
(***************************************************************************)
EXTENDS Circulation

CONSTANT FulfilIds  \* primary keys available to new fulfilments (a bound)

ASSUME FulfilIdsAssumption ==
  IsFiniteSet(FulfilIds) /\ None \notin FulfilIds /\ FulfilIds \cap LoanIds = {}

VARIABLES
  fulfil,      \* circulation_fulfillments: loan, direction, status
  deskIdem,    \* idempotency records of pick-ups and transitions
  fulfilLock,  \* the session that holds the row lock of a fulfilment, or None
  wf           \* of each session, what the workflow code knows

deskVars == <<fulfil, deskIdem, fulfilLock, wf>>
allVars  == <<vars, deskVars>>

-----------------------------------------------------------------------------
(* Types *)

Statuses  == {"REQUESTED", "READY", "IN_TRANSIT", "COMPLETED", "CANCELLED"}
FulfilRow == [status: Statuses \cup {"none"}, loan: LoanIds \cup {None},
              direction: {"none", "ISSUE", "RETURN"}]
NoFulfil  == [status |-> "none", loan |-> None, direction |-> "none"]

DeskRecord == [key: Keys, scope: {"pickup"} \X LoanIds \cup {"transition"} \X FulfilIds,
               payload: Statuses \cup {None}, result: FulfilIds]

Workflow == [op: {"none", "issue", "cancel", "return", "initiate", "confirm", "transition"},
             view: {"unread", "open", "returned"},
             at: {"none", "kernel", "preview_lookup", "preview_patron", "preview_holding",
                  "create", "read_loan", "select", "flush", "insert", "write", "read_holding",
                  "answered"},
             fid: FulfilIds \cup {None}, target: Statuses \cup {None},
             deliver: BOOLEAN, cached: BOOLEAN, pending: SUBSET FulfilIds,
             seen: {"unread", "AVAILABLE", "ON_LOAN", "WITHDRAWN"}]
NoWorkflow == [op |-> "none", view |-> "unread", at |-> "none", fid |-> None,
               target |-> None, deliver |-> FALSE, cached |-> FALSE, pending |-> {},
               seen |-> "unread"]

\* Tables, locks and sessions, the kernel's included, hold values of their types.
DeskTypeOK ==
  /\ TypeOK
  /\ fulfil \in [FulfilIds -> FulfilRow]
  /\ deskIdem \subseteq DeskRecord
  /\ fulfilLock \in [FulfilIds -> Sessions \cup {None}]
  /\ wf \in [Sessions -> Workflow]

-----------------------------------------------------------------------------
(* Reads *)

FulfilmentsOf(l, direction) ==
  {f \in FulfilIds : fulfil[f].loan = l /\ fulfil[f].direction = direction}
UnusedFulfil == {f \in FulfilIds : fulfil[f].status = "none"}

Allowed(from) ==
  CASE from = "REQUESTED"  -> {"READY", "CANCELLED"}
    [] from = "READY"      -> {"IN_TRANSIT", "COMPLETED", "CANCELLED"}
    [] from = "IN_TRANSIT" -> {"COMPLETED", "CANCELLED"}
    [] OTHER               -> {}
Terminal == {"COMPLETED", "CANCELLED"}

DeskStored(scope, k) == {r \in deskIdem : r.scope = scope /\ r.key = k}

\* Mutant of DeskKeyConflict: the table without its unique constraint.
NoDeskKeyConflict(scope, k) == FALSE
DeskKeyConflict(scope, k)   == DeskStored(scope, k) # {}

FreeFulfil(f, s) == fulfilLock[f] \in {None, s}

\* A new fulfilment refers to its loan and holding: its foreign keys wait for a
\* FOR UPDATE lock on either row.
FreeParents(l, s) == FreeLoan(l, s) /\ FreeHolding(loans[l].holding, s)

-----------------------------------------------------------------------------
(* Steps of the workflow code *)

At(s, label) == pc[s] = "workflow" /\ wf[s].at = label

Advance(s, label) ==
  /\ wf' = [wf EXCEPT ![s].at = label]
  /\ UNCHANGED <<vars, fulfil, deskIdem, fulfilLock>>

ReleaseFulfil(s) ==
  fulfilLock' = [f \in FulfilIds |-> IF fulfilLock[f] = s THEN None ELSE fulfilLock[f]]

\* The request is answered by the workflow; what it has flushed and not
\* committed is lost.
Finish(s, code, l) ==
  /\ Answer(s, code, l)
  /\ ReleaseFulfil(s)
  /\ wf' = [wf EXCEPT ![s].at = "answered", ![s].pending = {}]
Reject(s, code) == Finish(s, code, None) /\ UNCHANGED <<tables, fulfil, deskIdem>>

\* The workflow calls the orchestrator.
EnterKernel(s) ==
  /\ Goto(s, "find_cached")
  /\ UNCHANGED <<tables, locks, req, local, resp, fulfil, deskIdem>>

Begin(s, q, w) ==
  /\ Accept(s, q, "workflow")
  /\ wf' = [wf EXCEPT ![s] = w]
  /\ UNCHANGED <<fulfil, deskIdem, fulfilLock>>

\* The bound: a fulfilment is asked for only while an id is left for it.
FulfilIdLeft ==
  Cardinality({s \in Sessions : wf[s].op = "initiate" \/ wf[s].deliver})
    < Cardinality(UnusedFulfil)

-----------------------------------------------------------------------------
(* WF-01 commit: preview, checkout, then the fulfilment in a second transaction *)

PostIssue(s, p, h, k, deliver) ==
  /\ LoanIdLeft(CheckoutOf(p, h, k))
  /\ deliver => FulfilIdLeft
  /\ Begin(s, CheckoutOf(p, h, k),
           [NoWorkflow EXCEPT !.op = "issue", !.at = "preview_lookup", !.deliver = deliver])

RejectIssueKey(s) ==
  /\ At(s, "preview_lookup")
  /\ \E r \in Stored(req[s]) : ~PayloadMatches(r, req[s])
  /\ Reject(s, 409)

IssueCached(s) ==
  /\ At(s, "preview_lookup")
  /\ \E r \in Stored(req[s]) : PayloadMatches(r, req[s])
  /\ wf' = [wf EXCEPT ![s].at = "kernel", ![s].cached = TRUE]
  /\ EnterKernel(s)
  /\ UNCHANGED fulfilLock

IssueNotCached(s) ==
  /\ At(s, "preview_lookup")
  /\ Stored(req[s]) = {}
  /\ Advance(s, "preview_patron")

\* validate_patron: eligibility, count and limit, all read without locks.
PatronMayBorrow(p) ==
  /\ Eligible(p)
  /\ WithinLimit(patrons[p].type, Cardinality(OpenLoansOf(p)))

PreviewPatron(s) ==
  /\ At(s, "preview_patron")
  /\ IF PatronMayBorrow(req[s].patron) THEN Advance(s, "preview_holding") ELSE Reject(s, 422)

PreviewHolding(s) ==
  /\ At(s, "preview_holding")
  /\ IF Lendable(req[s].holding)
       THEN /\ wf' = [wf EXCEPT ![s].at = "kernel"]
            /\ EnterKernel(s)
            /\ UNCHANGED fulfilLock
       ELSE Reject(s, 422)

\* The checkout has committed and the workflow has a fulfilment to create.  A
\* commit that was answered from the store only looks the fulfilment up.
AwaitsFulfilment(s) ==
  /\ pc[s] = "done" /\ wf[s].op = "issue" /\ wf[s].deliver /\ ~wf[s].cached
  /\ resp[s].code = 201
  /\ wf[s].at \in {"kernel", "create"}

\* The loan is read back after the commit.
RefreshLoan(s) ==
  /\ AwaitsFulfilment(s) /\ wf[s].at = "kernel"
  /\ wf' = [wf EXCEPT ![s].at = "create", ![s].view = loans[resp[s].loan].state]
  /\ UNCHANGED <<vars, fulfil, deskIdem, fulfilLock>>

CreateIssueFulfilment(s) ==
  /\ AwaitsFulfilment(s) /\ wf[s].at = "create" /\ wf[s].view = "open"
  /\ FreeParents(resp[s].loan, s)
  /\ \E f \in UnusedFulfil :
       fulfil' = [fulfil EXCEPT ![f] = [status |-> "REQUESTED", loan |-> resp[s].loan,
                                        direction |-> "ISSUE"]]
  /\ wf' = [wf EXCEPT ![s].at = "answered"]
  /\ UNCHANGED <<vars, deskIdem, fulfilLock>>

\* "Loan is already closed": the client is told that the issue failed.
RejectIssueFulfilment(s) ==
  /\ AwaitsFulfilment(s) /\ wf[s].at = "create" /\ wf[s].view = "returned"
  /\ Reject(s, 422)

-----------------------------------------------------------------------------
(* Issue cancel: the ISSUE fulfilments and the return in one transaction *)

PostCancel(s, l, k) ==
  Begin(s, [patron |-> None, holding |-> None, op |-> "return", loan |-> l, key |-> k],
        [NoWorkflow EXCEPT !.op = "cancel", !.at = "read_loan", !.target = "CANCELLED"])

RejectCancel(s) ==
  /\ At(s, "read_loan") /\ wf[s].op = "cancel"
  /\ loans[req[s].loan].state # "open"
  /\ Reject(s, IF loans[req[s].loan].state = "none" THEN 404 ELSE 422)

CancelReadsLoan(s) ==
  /\ At(s, "read_loan") /\ wf[s].op = "cancel"
  /\ loans[req[s].loan].state = "open"
  /\ local' = [local EXCEPT ![s].view = "open"]
  /\ wf' = [wf EXCEPT ![s].at = "select"]
  /\ UNCHANGED <<tables, locks, pc, req, resp, fulfil, deskIdem, fulfilLock>>

CancelSelects(s) ==
  /\ At(s, "select")
  /\ wf' = [wf EXCEPT ![s].at = "flush",
                      ![s].pending = {f \in FulfilmentsOf(req[s].loan, "ISSUE") :
                                        fulfil[f].status \notin Terminal}]
  /\ UNCHANGED <<vars, fulfil, deskIdem, fulfilLock>>

\* Mutant of Flush: the fulfilments are written in a transaction of their own.
FlushAndCommit(s) ==
  /\ At(s, "flush")
  /\ \A f \in wf[s].pending : FreeFulfil(f, s)
  /\ fulfil' = [f \in FulfilIds |->
                  IF f \in wf[s].pending
                    THEN [fulfil[f] EXCEPT !.status = wf[s].target] ELSE fulfil[f]]
  /\ wf' = [wf EXCEPT ![s].at = "kernel", ![s].pending = {}]
  /\ Goto(s, "find_cached")
  /\ UNCHANGED <<tables, locks, req, local, resp, deskIdem, fulfilLock>>

\* The UPDATE takes the row locks; its effect is visible at the commit.
Flush(s) ==
  /\ At(s, "flush")
  /\ \A f \in wf[s].pending : FreeFulfil(f, s)
  /\ fulfilLock' = [f \in FulfilIds |-> IF f \in wf[s].pending THEN s ELSE fulfilLock[f]]
  /\ wf' = [wf EXCEPT ![s].at = "kernel"]
  /\ EnterKernel(s)

-----------------------------------------------------------------------------
(* WF-02: return by barcode *)

PostReturnByBarcode(s, h, k) ==
  Begin(s, [patron |-> None, holding |-> h, op |-> "return", loan |-> None, key |-> k],
        [NoWorkflow EXCEPT !.op = "return", !.at = "read_holding"])

ReadHoldingByBarcode(s) ==
  /\ At(s, "read_holding")
  /\ wf' = [wf EXCEPT ![s].at = "kernel", ![s].seen = holdingStatus[req[s].holding]]
  /\ EnterKernel(s)
  /\ UNCHANGED fulfilLock

\* The session's copy of the holding already says AVAILABLE, so mark_available
\* emits no UPDATE.
CommitReturnUnmarked(s) ==
  /\ pc[s] = "commit_return" /\ wf[s].seen = "AVAILABLE"
  /\ FreeLoan(local[s].loan, s)
  /\ ~ScopeKeyConflict(req[s])
  /\ loans' = [loans EXCEPT ![local[s].loan].state = "returned"]
  /\ idem' = idem \cup {Record(req[s], local[s].loan)}
  /\ Answer(s, 200, local[s].loan)
  /\ UNCHANGED <<patrons, limit, catalogStatus, holdingStatus>>

-----------------------------------------------------------------------------
(* WF-02: pick-up, in two requests *)

PostInitiate(s, l, k) ==
  /\ FulfilIdLeft
  /\ Begin(s, [patron |-> None, holding |-> None, op |-> "none", loan |-> l, key |-> k],
           [NoWorkflow EXCEPT !.op = "initiate", !.at = "read_loan"])

PickupScope(s) == <<"pickup", req[s].loan>>

ReplayInitiate(s) ==
  /\ At(s, "read_loan") /\ wf[s].op = "initiate"
  /\ DeskStored(PickupScope(s), req[s].key) # {}
  /\ Finish(s, 201, req[s].loan)
  /\ UNCHANGED <<tables, fulfil, deskIdem>>

RejectInitiate(s) ==
  /\ At(s, "read_loan") /\ wf[s].op = "initiate"
  /\ DeskStored(PickupScope(s), req[s].key) = {}
  /\ loans[req[s].loan].state # "open"
  /\ Reject(s, IF loans[req[s].loan].state = "none" THEN 404 ELSE 422)

InitiateReadsLoan(s) ==
  /\ At(s, "read_loan") /\ wf[s].op = "initiate"
  /\ DeskStored(PickupScope(s), req[s].key) = {}
  /\ loans[req[s].loan].state = "open"
  /\ Advance(s, "insert")

AbortInitiate(s) ==
  /\ At(s, "insert")
  /\ FreeParents(req[s].loan, s)
  /\ DeskKeyConflict(PickupScope(s), req[s].key)
  /\ Reject(s, 500)

CommitInitiate(s) ==
  /\ At(s, "insert")
  /\ FreeParents(req[s].loan, s)
  /\ ~DeskKeyConflict(PickupScope(s), req[s].key)
  /\ \E f \in UnusedFulfil :
       /\ fulfil' = [fulfil EXCEPT ![f] = [status |-> "REQUESTED", loan |-> req[s].loan,
                                        direction |-> "RETURN"]]
       /\ deskIdem' = deskIdem \cup {[key |-> req[s].key, scope |-> PickupScope(s),
                                      payload |-> None, result |-> f]}
  /\ Finish(s, 201, req[s].loan)
  /\ UNCHANGED tables

PostConfirm(s, f, k) ==
  /\ fulfil[f].status # "none"
  /\ Begin(s, [patron |-> None, holding |-> None, op |-> "return", loan |-> fulfil[f].loan,
               key |-> k],
           [NoWorkflow EXCEPT !.op = "confirm", !.at = "read_loan", !.fid = f,
                              !.target = "COMPLETED"])

RejectConfirm(s) ==
  /\ At(s, "read_loan") /\ wf[s].op = "confirm"
  /\ fulfil[wf[s].fid].direction # "RETURN"
  /\ Reject(s, 422)

\* The loan is closed already: nothing is written, not even the fulfilment.
ConfirmClosedLoan(s) ==
  /\ At(s, "read_loan") /\ wf[s].op = "confirm"
  /\ fulfil[wf[s].fid].direction = "RETURN"
  /\ loans[req[s].loan].state = "returned"
  /\ Finish(s, 200, req[s].loan)
  /\ UNCHANGED <<tables, fulfil, deskIdem>>

ConfirmReadsLoan(s) ==
  /\ At(s, "read_loan") /\ wf[s].op = "confirm"
  /\ fulfil[wf[s].fid].direction = "RETURN"
  /\ loans[req[s].loan].state = "open"
  /\ local' = [local EXCEPT ![s].view = "open"]
  /\ wf' = [wf EXCEPT ![s].at = "flush",
                      ![s].pending = IF fulfil[wf[s].fid].status = "COMPLETED"
                                       THEN {} ELSE {wf[s].fid}]
  /\ UNCHANGED <<tables, locks, pc, req, resp, fulfil, deskIdem, fulfilLock>>

-----------------------------------------------------------------------------
(* FulfillmentService.transition, committed by its route *)

PostTransition(s, f, target, k) ==
  /\ fulfil[f].status # "none"
  /\ Begin(s, [NoReq EXCEPT !.key = k],
           [NoWorkflow EXCEPT !.op = "transition", !.at = "read_loan", !.fid = f,
                              !.target = target])

TransitionScope(s) == <<"transition", wf[s].fid>>
StoredTransition(s) == DeskStored(TransitionScope(s), req[s].key)

RejectTransitionKey(s) ==
  /\ At(s, "read_loan") /\ wf[s].op = "transition"
  /\ \E r \in StoredTransition(s) : r.payload # wf[s].target
  /\ Reject(s, 409)

\* The key's answer is stored, or the fulfilment has the status already.
RepeatTransition(s) ==
  /\ At(s, "read_loan") /\ wf[s].op = "transition"
  /\ \/ \E r \in StoredTransition(s) : r.payload = wf[s].target
     \/ StoredTransition(s) = {} /\ fulfil[wf[s].fid].status = wf[s].target
  /\ Finish(s, 200, None)
  /\ UNCHANGED <<tables, fulfil, deskIdem>>

MayTransition(s) ==
  /\ wf[s].target \in Allowed(fulfil[wf[s].fid].status)
  /\ wf[s].target = "COMPLETED" => loans[fulfil[wf[s].fid].loan].state = "open"

RejectTransition(s) ==
  /\ At(s, "read_loan") /\ wf[s].op = "transition"
  /\ StoredTransition(s) = {} /\ fulfil[wf[s].fid].status # wf[s].target
  /\ ~MayTransition(s)
  /\ Reject(s, 422)

TransitionReads(s) ==
  /\ At(s, "read_loan") /\ wf[s].op = "transition"
  /\ StoredTransition(s) = {} /\ fulfil[wf[s].fid].status # wf[s].target
  /\ MayTransition(s)
  /\ Advance(s, "write")

AbortTransition(s) ==
  /\ At(s, "write") /\ FreeFulfil(wf[s].fid, s)
  /\ DeskKeyConflict(TransitionScope(s), req[s].key)
  /\ Reject(s, 500)

CommitTransition(s) ==
  /\ At(s, "write") /\ FreeFulfil(wf[s].fid, s)
  /\ ~DeskKeyConflict(TransitionScope(s), req[s].key)
  /\ fulfil' = [fulfil EXCEPT ![wf[s].fid].status = wf[s].target]
  /\ deskIdem' = deskIdem \cup {[key |-> req[s].key, scope |-> TransitionScope(s),
                                 payload |-> wf[s].target, result |-> wf[s].fid]}
  /\ Finish(s, 200, None)
  /\ UNCHANGED tables

-----------------------------------------------------------------------------
(* The kernel inside a workflow *)

\* The kernel's commit is the commit of what the workflow has flushed, and its
\* failure or replay, which commits nothing, loses it.
EndsWithKernel(s) ==
  /\ fulfil' = IF idem' = idem THEN fulfil
               ELSE [f \in FulfilIds |-> IF f \in wf[s].pending
                       THEN [fulfil[f] EXCEPT !.status = wf[s].target] ELSE fulfil[f]]
  /\ ReleaseFulfil(s)
  /\ wf' = [wf EXCEPT ![s].pending = {}]
  /\ UNCHANGED deskIdem

KernelStep(s) ==
  /\ pc[s] \notin {"idle", "workflow", "done"}
  /\ IF pc[s] = "commit_return" /\ wf[s].seen = "AVAILABLE"
       THEN AbortReturn(s) \/ CommitReturnUnmarked(s)
       ELSE LockingStep(s) \/ FreeStep(s)
  /\ IF pc'[s] = "done" THEN EndsWithKernel(s) ELSE UNCHANGED deskVars

ForgetWorkflow(s) ==
  /\ wf' = [wf EXCEPT ![s] = NoWorkflow]
  /\ ReleaseFulfil(s)
  /\ UNCHANGED <<fulfil, deskIdem>>

DeskReply(s) == ~AwaitsFulfilment(s) /\ Reply(s) /\ ForgetWorkflow(s)
DeskCrash(s) == Crash(s) /\ ForgetWorkflow(s)
DeskVictim(s) ==
  /\ DeadlockVictim(s)
  /\ ReleaseFulfil(s)
  /\ wf' = [wf EXCEPT ![s].pending = {}]
  /\ UNCHANGED <<fulfil, deskIdem>>

-----------------------------------------------------------------------------
WorkflowInit ==
  /\ Init
  /\ fulfil = [f \in FulfilIds |-> NoFulfil]
  /\ deskIdem = {}
  /\ fulfilLock = [f \in FulfilIds |-> None]
  /\ wf = [s \in Sessions |-> NoWorkflow]

IssueStep(s) ==
  \/ RejectIssueKey(s) \/ IssueCached(s) \/ IssueNotCached(s)
  \/ PreviewPatron(s) \/ PreviewHolding(s)
  \/ RefreshLoan(s) \/ CreateIssueFulfilment(s) \/ RejectIssueFulfilment(s)
CancelStep(s) == RejectCancel(s) \/ CancelReadsLoan(s) \/ CancelSelects(s)
PickupStep(s) ==
  \/ ReplayInitiate(s) \/ RejectInitiate(s) \/ InitiateReadsLoan(s)
  \/ AbortInitiate(s) \/ CommitInitiate(s)
  \/ RejectConfirm(s) \/ ConfirmClosedLoan(s) \/ ConfirmReadsLoan(s)
TransitionStep(s) ==
  \/ RejectTransitionKey(s) \/ RepeatTransition(s) \/ RejectTransition(s)
  \/ TransitionReads(s) \/ AbortTransition(s) \/ CommitTransition(s)

WorkflowStep(s) ==
  \/ IssueStep(s) \/ CancelStep(s) \/ Flush(s) \/ ReadHoldingByBarcode(s)
  \/ PickupStep(s) \/ TransitionStep(s)

PostWorkflow(s) ==
  \/ \E p \in Patrons, h \in Holdings, k \in Keys, d \in BOOLEAN : PostIssue(s, p, h, k, d)
  \/ \E l \in LoanIds, k \in Keys : PostCancel(s, l, k) \/ PostInitiate(s, l, k)
  \/ \E h \in Holdings, k \in Keys : PostReturnByBarcode(s, h, k)
  \/ \E f \in FulfilIds, k \in Keys :
       PostConfirm(s, f, k) \/ \E t \in Statuses : PostTransition(s, f, t, k)

WorkflowSessionStep(s) ==
  \/ WorkflowStep(s) \/ KernelStep(s)
  \/ DeskReply(s) \/ DeskCrash(s) \/ DeskVictim(s)

WorkflowNext ==
  \/ \E s \in Sessions : \/ PostWorkflow(s) \/ WorkflowSessionStep(s)
                         \/ Post(s) /\ UNCHANGED deskVars
  \/ StaffStep /\ UNCHANGED deskVars

WorkflowSpec == WorkflowInit /\ [][WorkflowNext]_allVars

-----------------------------------------------------------------------------
(* What the workflows promise *)

\* cancel_issue and confirm_pickup_received change a fulfilment only in the step
\* that leaves its loan returned, so that a crash or an abort between the flush and
\* the kernel's commit shows neither without the other.
FulfilmentChangesWithReturn ==
  [][\A s \in Sessions, f \in FulfilIds :
       /\ wf[s].op \in {"cancel", "confirm"}
       /\ <<pc[s], wf[s]>> # <<pc'[s], wf'[s]>>
       /\ fulfil'[f] # fulfil[f]
       => loans'[fulfil[f].loan].state = "returned"]_allVars

\* A pick-up or a transition is applied once per Idempotency-Key: a key has one
\* stored answer, and every pick-up is the answer of the request that made it.
AppliedOncePerKey ==
  /\ \A r, q \in deskIdem : r.scope = q.scope /\ r.key = q.key => r = q
  /\ \A f \in FulfilIds : fulfil[f].direction = "RETURN" =>
       \E r \in deskIdem : r.scope = <<"pickup", fulfil[f].loan>> /\ r.result = f

\* A request's thread is scheduled; PostgreSQL queues lock requests in order of
\* arrival (strong fairness of the steps that may wait for one) and finds deadlocks.
WorkflowFairness ==
  \A s \in Sessions :
    /\ SF_allVars(WorkflowStep(s)) /\ SF_allVars(KernelStep(s))
    /\ WF_allVars(DeskReply(s)) /\ WF_allVars(DeskVictim(s))

FairWorkflowSpec == WorkflowSpec /\ WorkflowFairness

-----------------------------------------------------------------------------
(* What the documents say and the code does not do *)

\* loan.md LN-X1, LN-X2 and LN-H1: a checkout leaves its holding ON_LOAN, a return
\* AVAILABLE, so a holding is ON_LOAN exactly while it has an open loan.  cancel_issue
\* decides on a loan it read before the lock.
CopyAgreesWithLoan ==
  \A h \in Holdings : holdingStatus[h] = "ON_LOAN" <=> OpenLoansOn(h) # {}

\* _ALLOWED_TRANSITIONS has no successor for COMPLETED and CANCELLED.
TerminalIsFinal ==
  [][\A f \in FulfilIds : fulfil[f].status \in Terminal => fulfil'[f] = fulfil[f]]_allVars

\* MVP.md 6.1: an issue with a delivery creates a fulfilment once the checkout has
\* succeeded, so an issue with a delivery that is answered with its loan has one
\* fulfilment, and one only.  commit creates it in a second transaction, and not at
\* all when the checkout is answered from the store.
DeliveryHasFulfilment ==
  \A s \in Sessions :
    pc[s] = "done" /\ wf[s].op = "issue" /\ wf[s].deliver /\ resp[s].code = 201
      /\ ~AwaitsFulfilment(s)
      => Cardinality(FulfilmentsOf(resp[s].loan, "ISSUE")) = 1

=============================================================================
