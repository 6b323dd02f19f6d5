------------------------- MODULE AgentApprovalProofs -------------------------
(***************************************************************************)
(* Deny by default: for any number of patrons, copies, sessions, threads   *)
(* and approvals, whatever texts are said and whatever the model answers,  *)
(* nothing is done that a librarian did not approve.                       *)
(*                                                                         *)
(* And what a librarian approves is what is done, and it is done once,     *)
(* whatever a client sends while the session is at work: the properties    *)
(* are about the approvals that no other message overlapped.               *)
(***************************************************************************)
EXTENDS AgentTypeProofs

-----------------------------------------------------------------------------
(* Nothing without an approval *)

Fields == {"session", "at", "intent", "key", "result", "loan", "fulfil", "cached", "seen"}
ActsAt == {"execute", "checkout"}

\* A thread that is about to run a write tool, or its checkout, holds a key that was
\* approved.
Granted ==
  /\ DOMAIN request = Requests
  /\ \A r \in Requests : Fields \subseteq DOMAIN request[r]
  /\ \A r \in Requests : request[r].at \in ActsAt => request[r].key \in approved

ApprovedInv == NothingWithoutApproval /\ Granted

\* What an outcome of a handler or of a read tool never is: a write tool.
OnlyReads(out) == out.at \notin ActsAt

\* Neither going on with a tool that reads, nor ending the turn, nor asking for an
\* approval runs a write tool.
LEMMA OutcomesRead ==
  /\ \A sl : OnlyReads(Done(sl))
  /\ \A sl, kind, l : OnlyReads(Ask(sl, kind, l))
  /\ \A sl, at : at \notin ActsAt => OnlyReads(Go(sl, at))
BY DEF OnlyReads, Done, Ask, Go, ActsAt

\* No intent runs a write tool by itself: the handlers only ask.
LEMMA HandledReads == ASSUME NEW i, NEW sl PROVE OnlyReads(Handled(i, sl))
<1>1. OnlyReads(StartDesk(i, sl, TRUE)) /\ OnlyReads(StartDesk(i, sl, FALSE))
  BY OutcomesRead DEF ActsAt, StartDesk
<1>2. OnlyReads(StartIssueToPatron(i, sl))
  BY OutcomesRead DEF ActsAt, StartIssueToPatron
<1>3. OnlyReads(ProvidePatronForDesk(i, sl))
  BY OutcomesRead DEF ActsAt, ProvidePatronForDesk
<1>4. OnlyReads(DeskStartReturn(sl))
  BY OutcomesRead DEF ActsAt, DeskStartReturn
<1> QED BY <1>1, <1>2, <1>3, <1>4, OutcomesRead DEF ActsAt, Handled

LEMMA ResolveReads ==
  ASSUME NEW i, NEW sl, NEW valid \in BOOLEAN
  PROVE  OnlyReads(Resolve(i, sl, valid)) /\ OnlyReads(SearchPatrons(i, sl)) /\ OnlyReads(ResolveId(i, sl, valid))
<1>1. \A new : OnlyReads(Identified(i, new)) /\ OnlyReads(NotIdentified(i, new))
  BY OutcomesRead DEF ActsAt, Identified, NotIdentified
<1>2. OnlyReads(Resolve(i, sl, valid))
  BY <1>1, OutcomesRead DEF ActsAt, Resolve
<1>3. OnlyReads(SearchPatrons(i, sl))
  BY <1>1, OutcomesRead DEF ActsAt, SearchPatrons
<1>4. OnlyReads(ResolveId(i, sl, valid))
  BY <1>1, OutcomesRead DEF ActsAt, ResolveId
<1> QED BY <1>2, <1>3, <1>4

LEMMA ToolsRead ==
  ASSUME NEW i, NEW sl, NEW first
  PROVE  /\ OnlyReads(ListLoans(i, sl, first)) /\ OnlyReads(Lookup(i, sl))
         /\ OnlyReads(SearchLendable(i, sl)) /\ \A valid \in BOOLEAN : OnlyReads(Validate(i, sl, valid))
         /\ (\A found : OnlyReads(FulfilStatus(sl, found))) /\ OnlyReads(SelectLoan(i, sl))
<1>1. OnlyReads(ListLoans(i, sl, first))
  BY OutcomesRead DEF ActsAt, ListLoans
<1>2. OnlyReads(Lookup(i, sl))
  BY OutcomesRead DEF ActsAt, Lookup
<1>3. OnlyReads(SearchLendable(i, sl)) /\ \A valid \in BOOLEAN : OnlyReads(Validate(i, sl, valid))
  BY OutcomesRead DEF ActsAt, SearchLendable, Validate
<1>4. (\A found : OnlyReads(FulfilStatus(sl, found))) /\ OnlyReads(SelectLoan(i, sl))
  BY OutcomesRead DEF ActsAt, FulfilStatus, SelectLoan
<1> QED BY <1>1, <1>2, <1>3, <1>4

\* A step that changes one thread keeps what was granted, if that thread keeps its key
\* or gets one that is approved before it acts.
LEMMA GoesOn ==
  ASSUME ApprovedInv, NEW r \in Requests, NEW q,
         request' = [request EXCEPT ![r] = q], approved \subseteq approved', NothingWithoutApproval',
         Fields \subseteq DOMAIN q,
         q.at \in ActsAt => q.key \in approved'
  PROVE  ApprovedInv'
<1>1. request'[r] = q /\ \A x \in Requests : x # r => request'[x] = request[x]
  BY DEF ApprovedInv, Granted, Fields
<1>2. Granted'
  BY <1>1 DEF ApprovedInv, Granted, Fields
<1> QED BY <1>2 DEF ApprovedInv

LEMMA OneThread ==
  ASSUME ApprovedInv, NEW r \in Requests, NEW q,
         request' = [request EXCEPT ![r] = q], approved \subseteq approved', done' = done,
         Fields \subseteq DOMAIN q,
         q.at \in ActsAt => q.key \in approved'
  PROVE  ApprovedInv'
<1>1. NothingWithoutApproval'
  BY DEF ApprovedInv, NothingWithoutApproval
<1> QED BY <1>1, GoesOn

LEMMA NoRequestReads ==
  /\ Fields \subseteq DOMAIN NoRequest
  /\ NoRequest.at = "idle" /\ NoRequest.at \notin ActsAt
BY DEF NoRequest, Fields, ActsAt

\* A turn that ends in an outcome that reads.
LEMMA TurnStep ==
  ASSUME ApprovedInv, NEW r \in Requests, NEW out, Turn(r, out), OnlyReads(out)
  PROVE  ApprovedInv'
<1> DEFINE q == IF out.at = "idle" THEN NoRequest ELSE [request[r] EXCEPT !.at = out.at]
<1>1. Fields \subseteq DOMAIN q
  BY NoRequestReads DEF ApprovedInv, Granted, Fields
<1>2. q.at \notin ActsAt
  BY NoRequestReads DEF ApprovedInv, Granted, OnlyReads, Fields
<1>3. /\ request' = [request EXCEPT ![r] = q]
      /\ approved' = approved /\ done' = done
  BY DEF Turn, ledger
<1> HIDE DEF q
<1> QED BY <1>1, <1>2, <1>3, OneThread

LEMMA ReadToolStep ==
  ASSUME ApprovedInv, NEW r \in Requests, ReadTool(r)
  PROVE  ApprovedInv'
<1>1. ASSUME ResolveTool(r) PROVE ApprovedInv'
  BY <1>1, TurnStep, ResolveReads DEF ResolveTool
<1>2. ASSUME SearchPatronsTool(r) PROVE ApprovedInv'
  BY <1>2, TurnStep, ResolveReads DEF SearchPatronsTool
<1>3. ASSUME ResolveIdTool(r) PROVE ApprovedInv'
  BY <1>3, TurnStep, ResolveReads DEF ResolveIdTool
<1>4. ASSUME SelectPatronTool(r) PROVE ApprovedInv'
  BY <1>4, TurnStep, OutcomesRead DEF SelectPatronTool
<1>5. ASSUME ListLoansTool(r) PROVE ApprovedInv'
  BY <1>5, TurnStep, ToolsRead DEF ListLoansTool
<1>6. ASSUME LookupTool(r) PROVE ApprovedInv'
  BY <1>6, TurnStep, ToolsRead DEF LookupTool
<1>7. ASSUME SearchReturnTool(r) PROVE ApprovedInv'
  BY <1>7, TurnStep, OutcomesRead DEF SearchReturnTool
<1>8. ASSUME SelectLoanTool(r) PROVE ApprovedInv'
  BY <1>8, TurnStep, ToolsRead DEF SelectLoanTool
<1>9. ASSUME SearchCatalogTool(r) PROVE ApprovedInv'
  BY <1>9, TurnStep, OutcomesRead DEF SearchCatalogTool
<1>10. ASSUME SelectCopyTool(r) PROVE ApprovedInv'
  BY <1>10, TurnStep, OutcomesRead DEF SelectCopyTool
<1>11. ASSUME SelectBarcodeTool(r) PROVE ApprovedInv'
  BY <1>11, TurnStep, OutcomesRead DEF SelectBarcodeTool
<1>12. ASSUME SearchLendableTool(r) PROVE ApprovedInv'
  BY <1>12, TurnStep, ToolsRead DEF SearchLendableTool
<1>13. ASSUME ValidateTool(r) PROVE ApprovedInv'
  BY <1>13, TurnStep, ToolsRead DEF ValidateTool
<1>14. ASSUME FulfilStatusTool(r) PROVE ApprovedInv'
  BY <1>14, TurnStep, ToolsRead DEF FulfilStatusTool
<1> QED
  BY <1>1, <1>2, <1>3, <1>4, <1>5, <1>6, <1>7, <1>8, <1>9, <1>10, <1>11, <1>12, <1>13, <1>14
  DEF ReadTool

LEMMA MessageStep ==
  ASSUME ApprovedInv, NEW r \in Requests, NEW s \in Sessions, NEW t, Receive(r, s, t)
  PROVE  ApprovedInv'
<1>1. CASE UNCHANGED request
  BY <1>1 DEF Receive, ApprovedInv, Granted, NothingWithoutApproval, ledger, asked
<1>2. ASSUME NEW i, request' = [request EXCEPT ![r] = [@ EXCEPT !.session = s, !.at = "apply", !.intent = i]]
      PROVE  ApprovedInv'
  <2> DEFINE q == [request[r] EXCEPT !.session = s, !.at = "apply", !.intent = i]
  <2>1. /\ Fields \subseteq DOMAIN q
        /\ q.at \notin ActsAt
    BY DEF ApprovedInv, Granted, Fields, ActsAt
  <2>2. request' = [request EXCEPT ![r] = q] /\ approved' = approved /\ done' = done
    BY <1>2 DEF Receive, ledger, asked
  <2> HIDE DEF q
  <2> QED BY <2>1, <2>2, OneThread
<1> QED BY <1>1, <1>2 DEF Receive

LEMMA ApplyStep ==
  ASSUME ApprovedInv, NEW r \in Requests, Apply(r)
  PROVE  ApprovedInv'
BY TurnStep, HandledReads, OutcomesRead DEF Apply

\* The librarian's answer is what grants the key.
LEMMA ApproveStep ==
  ASSUME ApprovedInv, NEW r \in Requests, NEW s \in Sessions, Approve(r, s)
  PROVE  ApprovedInv'
<1> DEFINE q == [request[r] EXCEPT !.session = s, !.at = "execute", !.key = pending[s]]
<1>1. /\ Fields \subseteq DOMAIN q
      /\ q.key = pending[s]
  BY DEF ApprovedInv, Granted, Fields
<1>2. request' = [request EXCEPT ![r] = q] /\ approved' = approved \cup {pending[s]} /\ done' = done
  BY DEF Approve, ledger
<1> HIDE DEF q
<1> QED BY <1>1, <1>2, OneThread

\* A tool that runs its transaction goes on to the update of the slots.
LEMMA RanStep ==
  ASSUME ApprovedInv, NEW r \in Requests, NEW result, NEW l, Ran(r, result, l),
         approved \subseteq approved', NothingWithoutApproval'
  PROVE  ApprovedInv'
<1> DEFINE q == [request[r] EXCEPT !.at = "executed", !.result = result, !.loan = l, !.seen = SlotsOf(r)]
<1>1. /\ Fields \subseteq DOMAIN q
      /\ q.at \notin ActsAt
  BY DEF ApprovedInv, Granted, Fields, ActsAt
<1>2. request' = [request EXCEPT ![r] = q]
  BY DEF Ran
<1> HIDE DEF q
<1> QED BY <1>1, <1>2, GoesOn

\* What is recorded under the key of a thread that acts was approved.
LEMMA RecordStep ==
  ASSUME ApprovedInv, NEW r \in Requests, request[r].at \in ActsAt, approved' = approved,
         UNCHANGED done \/ \E op, on, l : Record(r, op, on, l)
  PROVE  NothingWithoutApproval'
BY DEF ApprovedInv, Granted, NothingWithoutApproval, Record

\* The tools that have one transaction.
LEMMA ToolStep ==
  ASSUME ApprovedInv, NEW r \in Requests,
         \/ CancelIssue(r) \/ TransitionFulfillment(r) \/ CommitReturn(r) \/ SelectReturn(r)
         \/ InitiateReturnPickup(r)
  PROVE  ApprovedInv'
<1>1. request[r].at \in ActsAt /\ approved' = approved
  BY DEF CancelIssue, TransitionFulfillment, CommitReturn, SelectReturn, InitiateReturnPickup,
         Executes, Calls, asked, ActsAt
<1>2. UNCHANGED done \/ \E op, on, l : Record(r, op, on, l)
  BY DEF CancelIssue, TransitionFulfillment, CommitReturn, SelectReturn, InitiateReturnPickup, ledger
<1>3. NothingWithoutApproval'
  BY <1>1, <1>2, RecordStep
<1>4. CASE InitiateReturnPickup(r)
  <2>1. PICK l, f, result :
          \/ request' = [request EXCEPT ![r] = [@ EXCEPT !.at = "executed", !.result = "ok", !.loan = l,
                                                         !.fulfil = f, !.seen = SlotsOf(r)]]
          \/ Ran(r, result, l)
    BY <1>4 DEF InitiateReturnPickup
  <2>2. CASE Ran(r, result, l)
    BY <1>1, <1>3, <2>2, RanStep
  <2>3. CASE request' = [request EXCEPT ![r] = [@ EXCEPT !.at = "executed", !.result = "ok", !.loan = l,
                                                         !.fulfil = f, !.seen = SlotsOf(r)]]
    <3> DEFINE q == [request[r] EXCEPT !.at = "executed", !.result = "ok", !.loan = l,
                                       !.fulfil = f, !.seen = SlotsOf(r)]
    <3>1. /\ Fields \subseteq DOMAIN q
          /\ q.at \notin ActsAt
      BY DEF ApprovedInv, Granted, Fields, ActsAt
    <3>2. request' = [request EXCEPT ![r] = q]
      BY <2>3
    <3> HIDE DEF q
    <3> QED BY <1>1, <1>3, <3>1, <3>2, GoesOn
  <2> QED BY <2>1, <2>2, <2>3
<1>5. CASE \E result, l : Ran(r, result, l)
  BY <1>1, <1>3, <1>5, RanStep
<1> QED BY <1>4, <1>5 DEF CancelIssue, TransitionFulfillment, CommitReturn, SelectReturn

\* The transactions of an issue.
LEMMA IssueStep ==
  ASSUME ApprovedInv, NEW r \in Requests,
         CommitIssue(r) \/ Checkout(r) \/ Deliver(r) \/ InsertFulfilment(r)
  PROVE  ApprovedInv'
<1>1. approved' = approved
  BY DEF CommitIssue, Checkout, Deliver, InsertFulfilment, asked
<1>2. CASE CommitIssue(r)
  <2>1. request[r].at \in ActsAt /\ UNCHANGED done
    BY <1>2 DEF CommitIssue, Executes, Calls, ActsAt, ledger
  <2>2. NothingWithoutApproval'
    BY <1>1, <2>1, RecordStep
  <2>3. CASE Ran(r, "none", None)
    BY <1>1, <2>2, <2>3, RanStep
  <2>4. CASE ~Ran(r, "none", None)
    <3>1. PICK b, sl : request' = [request EXCEPT ![r] = [@ EXCEPT !.at = "checkout", !.cached = b, !.seen = sl]]
      BY <1>2, <2>4 DEF CommitIssue
    <3> DEFINE q == [request[r] EXCEPT !.at = "checkout", !.cached = b, !.seen = sl]
    <3>2. /\ Fields \subseteq DOMAIN q
          /\ q.key = request[r].key
      BY DEF ApprovedInv, Granted, Fields
    <3>3. request' = [request EXCEPT ![r] = q]
      BY <3>1
    <3>4. request[r].key \in approved
      BY <2>1 DEF ApprovedInv, Granted
    <3> HIDE DEF q
    <3> QED BY <1>1, <2>2, <3>2, <3>3, <3>4, GoesOn
  <2> QED BY <2>3, <2>4
<1>3. CASE Checkout(r)
  <2>1. request[r].at \in ActsAt /\ (UNCHANGED done \/ \E op, on, l : Record(r, op, on, l))
    BY <1>3 DEF Checkout, ActsAt, ledger
  <2>2. PICK l : CheckedOut(r, l)
    BY <1>3 DEF Checkout
  <2> DEFINE at == IF request[r].seen.mode = "DELIVERY" THEN "deliver" ELSE "executed"
             q == [request[r] EXCEPT !.loan = l, !.result = "ok", !.at = at]
  <2>3. request' = [request EXCEPT ![r] = q]
    BY <2>2 DEF CheckedOut, ApprovedInv, Granted, Fields
  <2>4. at \notin ActsAt
    BY DEF ActsAt
  <2> HIDE DEF at
  <2>5. /\ Fields \subseteq DOMAIN q
        /\ q.at \notin ActsAt
    BY <2>4 DEF ApprovedInv, Granted, Fields
  <2> HIDE DEF q
  <2> QED BY <1>1, <2>1, <2>3, <2>5, RecordStep, GoesOn
<1>4. CASE Deliver(r) \/ InsertFulfilment(r)
  <2>1. UNCHANGED done
    BY <1>4 DEF Deliver, InsertFulfilment, ledger
  <2>2. NothingWithoutApproval'
    BY <1>1, <2>1 DEF ApprovedInv, NothingWithoutApproval
  <2>3. CASE request' = [request EXCEPT ![r].at = "insert"]
    <3> DEFINE q == [request[r] EXCEPT !.at = "insert"]
    <3>1. request' = [request EXCEPT ![r] = q] /\ Fields \subseteq DOMAIN q /\ q.at \notin ActsAt
      BY <2>3 DEF ApprovedInv, Granted, Fields, ActsAt
    <3> HIDE DEF q
    <3> QED BY <1>1, <2>2, <3>1, GoesOn
  <2>4. ASSUME NEW f, request' = [request EXCEPT ![r].at = "executed", ![r].fulfil = f] PROVE ApprovedInv'
    <3> DEFINE q == [request[r] EXCEPT !.at = "executed", !.fulfil = f]
    <3>1. Fields \subseteq DOMAIN q /\ q.at \notin ActsAt
      BY DEF ApprovedInv, Granted, Fields, ActsAt
    <3>2. request' = [request EXCEPT ![r] = q]
      BY <2>4 DEF ApprovedInv, Granted, Fields
    <3> HIDE DEF q
    <3> QED BY <1>1, <2>2, <3>1, <3>2, GoesOn
  <2> QED BY <1>4, <2>3, <2>4 DEF Deliver, InsertFulfilment
<1> QED BY <1>2, <1>3, <1>4

LEMMA EndsStep ==
  ASSUME ApprovedInv, NEW r \in Requests,
         request' = [request EXCEPT ![r] = NoRequest], approved' = approved, done' = done
  PROVE  ApprovedInv'
BY NoRequestReads, OneThread

LEMMA FailStep ==
  ASSUME ApprovedInv, NEW r \in Requests, ToolFails(r)
  PROVE  ApprovedInv'
BY EndsStep DEF ToolFails, ledger, asked

LEMMA AfterWriteStep ==
  ASSUME ApprovedInv, NEW r \in Requests, AfterWrite(r)
  PROVE  ApprovedInv'
<1>1. approved' = approved /\ done' = done
  BY DEF AfterWrite, ledger, asked
<1>2. CASE request' = [request EXCEPT ![r] = NoRequest]
  BY <1>1, <1>2, EndsStep
<1>3. CASE request' = [request EXCEPT ![r].at = "refresh"]
  <2> DEFINE q == [request[r] EXCEPT !.at = "refresh"]
  <2>1. /\ Fields \subseteq DOMAIN q
        /\ q.at \notin ActsAt
    BY DEF ApprovedInv, Granted, Fields, ActsAt
  <2>2. request' = [request EXCEPT ![r] = q]
    BY <1>3
  <2> HIDE DEF q
  <2> QED BY <1>1, <2>1, <2>2, OneThread
<1> QED BY <1>2, <1>3 DEF AfterWrite, Answer

LEMMA ApprovedStep ==
  ASSUME ApprovedInv, [Next]_vars
  PROVE  ApprovedInv'
<1>1. ASSUME NEW r \in Requests, TooManyCalls(r) PROVE ApprovedInv'
  BY <1>1, EndsStep DEF TooManyCalls, ledger, asked
<1>2. ASSUME NEW r \in Requests, Refresh(r) PROVE ApprovedInv'
  BY <1>2, EndsStep DEF Refresh, Answer, ledger, asked
<1>3. ASSUME UNCHANGED <<done, approved, request>> PROVE ApprovedInv'
  BY <1>3 DEF ApprovedInv, Granted, NothingWithoutApproval
<1>4. ASSUME NEW s \in Sessions, Deny(s) PROVE ApprovedInv'
  BY <1>3, <1>4 DEF Deny, ledger, asked
<1>5. ASSUME NEW h \in Holdings, NEW p \in Patrons, OutsideIssue(h, p) PROVE ApprovedInv'
  BY <1>3, <1>5 DEF OutsideIssue, asked
<1>6. ASSUME NEW l \in LoanIds, OutsideReturn(l) PROVE ApprovedInv'
  BY <1>3, <1>6 DEF OutsideReturn, asked
<1>7. CASE Crash
  BY <1>7, NoRequestReads DEF Crash, ApprovedInv, Granted, NothingWithoutApproval, ledger, asked
<1>8. CASE UNCHANGED vars
  BY <1>3, <1>8 DEF vars, ledger, asked
<1> QED
  BY <1>1, <1>2, <1>4, <1>5, <1>6, <1>7, <1>8, MessageStep, ApproveStep, ApplyStep, ReadToolStep,
     ToolStep, IssueStep, FailStep, AfterWriteStep
  DEF Next, WriteTool

\* Whatever the agent changes in the library, a librarian approved under the key it was
\* changed with: no message, no answer of the model and no crash leads to a write tool.
THEOREM NothingWithoutApprovalAlways == Spec => []NothingWithoutApproval
<1>1. Init => ApprovedInv
  BY NoRequestReads DEF Init, ApprovedInv, Granted, NothingWithoutApproval
<1>2. ApprovedInv => NothingWithoutApproval
  BY DEF ApprovedInv
<1> QED BY <1>1, <1>2, ApprovedStep, PTL DEF Spec

USE NamesakesAssumption, ToolCallsAssumption, AgentNoneAssumption, SaidAssumption, LlmActionsAssumption

-----------------------------------------------------------------------------
(* What the handlers and the read tools do to a fulfilment and show on a card *)

\* The fulfilment of a session is one that exists, and the card of an approval shows
\* what the slots hold when it is asked for.
Shows(sl, out) ==
  /\ out.slots.fulfil \in {None, sl.fulfil} \cup fulfils
  /\ out.ask # NoApproval =>
       /\ out.ask.patron = out.slots.patron /\ out.ask.holding = out.slots.holding
       /\ out.ask.mode = out.slots.mode

LEMMA UpdatesKeep ==
  ASSUME NEW sl \in Slots
  PROVE  /\ \A off : \A on \in SUBSET Prompts : Await(sl, on, off).fulfil = sl.fulfil
         /\ \A off : \A on \in SUBSET Flows : Guide(sl, on, off).fulfil = sl.fulfil
         /\ NoCopy(sl).fulfil = sl.fulfil /\ NoLoan(sl).fulfil = sl.fulfil
BY DEF Await, Guide, NoCopy, NoLoan, Slots

LEMMA GoShows ==
  ASSUME NEW sl, NEW new, NEW at, new.fulfil \in {None, sl.fulfil} \cup fulfils
  PROVE  Shows(sl, Go(new, at)) /\ Shows(sl, Done(new))
BY DEF Shows, Go, Done

LEMMA AskShows ==
  ASSUME NEW sl, NEW new, NEW kind, NEW l, new.fulfil \in {None, sl.fulfil} \cup fulfils
  PROVE  Shows(sl, Ask(new, kind, l))
BY DEF Shows, Ask

LEMMA HandledShows ==
  ASSUME NEW i \in Intent, NEW sl \in Slots
  PROVE  Shows(sl, Handled(i, sl))
<1> DEFINE Keeps(x) == x.fulfil = sl.fulfil
<1>0. \A x : Keeps(x) => (\A at : Shows(sl, Go(x, at))) /\ Shows(sl, Done(x))
  BY GoShows
<1>1. Shows(sl, StartDesk(i, sl, TRUE)) /\ Shows(sl, StartDesk(i, sl, FALSE))
  <2> SUFFICES ASSUME NEW b \in BOOLEAN PROVE Shows(sl, StartDesk(i, sl, b))
    OBVIOUS
  <2> DEFINE a == Await(Guide(NoLoan(sl), {"return"}, {}), {}, DeskPrompts)
             new == [a EXCEPT !.returnIntent = b, !.loanCands = {}]
  <2>1. a \in Slots /\ Keeps(a)
    BY DropSlots, GuideSlots, AwaitSlots, UpdatesKeep DEF Flows
  <2> HIDE DEF a
  <2>2. new \in Slots /\ Keeps(new)
    BY <2>1 DEF Slots
  <2> HIDE DEF new
  <2>3. Keeps(Await(new, {"deskPatron"}, {}))
    BY <2>2, UpdatesKeep DEF Prompts
  <2>4. StartDesk(i, sl, b) = IF i.by = "name" THEN Go(new, "resolve") ELSE Done(Await(new, {"deskPatron"}, {}))
    BY DEF StartDesk, new, a
  <2> QED BY <1>0, <2>2, <2>3, <2>4
<1>2. Shows(sl, StartIssueToPatron(i, sl))
  <2> DEFINE new == Guide(NoCopy(sl), {"issue"}, {})
  <2>1. new \in Slots /\ Keeps(new)
    BY DropSlots, GuideSlots, UpdatesKeep DEF Flows
  <2> HIDE DEF new
  <2>2. Keeps(Await(new, {"book"}, {"patron"})) /\ Keeps(Await(new, {"patron"}, {"book"}))
    BY <2>1, UpdatesKeep DEF Prompts
  <2> QED BY <1>0, <2>2 DEF StartIssueToPatron, new
<1>3. Shows(sl, DeskStartReturn(sl))
  <2> DEFINE new == [sl EXCEPT !.returnIntent = TRUE]
  <2>1. new \in Slots /\ Keeps(new)
    BY DEF Slots
  <2> HIDE DEF new
  <2>2. /\ Keeps(Await(new, {"deskPick"}, {"deskNext"}))
        /\ Keeps(Guide(Await(new, {"deskPatron"}, {}), {"return"}, {}))
    BY <2>1, UpdatesKeep, AwaitSlots DEF Prompts, Flows
  <2> QED BY <1>0, <2>1, <2>2 DEF DeskStartReturn, new
<1>4. Shows(sl, Done(DeclineContinue(sl)))
  <2> DEFINE a == Guide(Await(sl, {}, DeskPrompts), {}, {"return"})
             b == Guide(Await(sl, {}, {"catalog"}), {}, {"catalog"})
             c == Guide(Await(sl, {}, {"lookup"}), {}, {"lookup"})
             d == Guide(Await(sl, {}, {"patron", "book"}), {}, {"issue"})
  <2>1. /\ a \in Slots /\ b \in Slots /\ c \in Slots /\ d \in Slots
        /\ Keeps(a) /\ Keeps(b) /\ Keeps(c) /\ Keeps(d)
    BY AwaitSlots, GuideSlots, UpdatesKeep
  <2> HIDE DEF a, b, c, d
  <2>2. /\ Keeps([a EXCEPT !.returnIntent = FALSE, !.loanCands = {}])
        /\ Keeps([c EXCEPT !.patronCands = {}])
    BY <2>1 DEF Slots
  <2>3. Keeps(NoCopy(b)) /\ Keeps(NoCopy(d))
    BY <2>1, UpdatesKeep
  <2>4. Keeps(DeclineContinue(sl))
    BY <2>2, <2>3 DEF DeclineContinue, a, b, c, d
  <2> QED BY <1>0, <2>4
<1>5. Shows(sl, Done(sl)) /\ \A at : Shows(sl, Go(sl, at))
  BY <1>0
<1>6. Shows(sl, ProvidePatronForDesk(i, sl))
  BY <1>5 DEF ProvidePatronForDesk
<1>7. /\ Shows(sl, Done(NoCopy(Guide(Await(sl, {"book"}, {"deskNext"}), {"issue"}, {}))))
      /\ Shows(sl, Done(NoCopy(Guide(Await(sl, {"catalog"}, {"deskNext"}), {"catalog"}, {}))))
  BY <1>0, AwaitSlots, GuideSlots, UpdatesKeep DEF Prompts, Flows
<1>8. Shows(sl, Done([Guide(Await(sl, {}, DeskPrompts), {}, {"return"})
                 EXCEPT !.returnIntent = FALSE, !.loanCands = {}, !.loan = None, !.holding = None]))
  <2> DEFINE a == Guide(Await(sl, {}, DeskPrompts), {}, {"return"})
  <2>1. a \in Slots /\ Keeps(a)
    BY AwaitSlots, GuideSlots, UpdatesKeep
  <2> HIDE DEF a
  <2>2. Keeps([a EXCEPT !.returnIntent = FALSE, !.loanCands = {}, !.loan = None, !.holding = None])
    BY <2>1 DEF Slots
  <2> QED BY <1>0, <2>2 DEF a
<1>9. Shows(sl, Done([NoCopy(Guide(Await(sl, {"catalog"}, {"patron", "book"}), {"catalog"}, {"issue"}))
                 EXCEPT !.patron = None]))
  <2> DEFINE a == NoCopy(Guide(Await(sl, {"catalog"}, {"patron", "book"}), {"catalog"}, {"issue"}))
  <2>1. a \in Slots /\ Keeps(a)
    BY AwaitSlots, GuideSlots, DropSlots, UpdatesKeep DEF Prompts, Flows
  <2> HIDE DEF a
  <2>2. Keeps([a EXCEPT !.patron = None])
    BY <2>1 DEF Slots
  <2> QED BY <1>0, <2>2 DEF a
<1>10. Shows(sl, Done([Guide(Await(sl, {"lookup"}, {}), {"lookup"}, {})
                 EXCEPT !.patronCands = {}, !.patron = None]))
  <2> DEFINE a == Guide(Await(sl, {"lookup"}, {}), {"lookup"}, {})
  <2>1. a \in Slots /\ Keeps(a)
    BY AwaitSlots, GuideSlots, UpdatesKeep DEF Prompts, Flows
  <2> HIDE DEF a
  <2>2. Keeps([a EXCEPT !.patronCands = {}, !.patron = None])
    BY <2>1 DEF Slots
  <2> QED BY <1>0, <2>2 DEF a
<1>11. \A kind, l : Shows(sl, Ask(sl, kind, l))
  BY AskShows
<1> HIDE DEF Keeps
<1> QED BY <1>1, <1>2, <1>3, <1>4, <1>5, <1>6, <1>7, <1>8, <1>9, <1>10, <1>11 DEF Handled

LEMMA IdentifiedShows ==
  ASSUME NEW i \in Intent, NEW sl, NEW x \in Slots, x.fulfil \in {None, sl.fulfil} \cup fulfils
  PROVE  Shows(sl, Identified(i, x)) /\ Shows(sl, NotIdentified(i, x))
<1> DEFINE Keeps(y) == y.fulfil \in {None, sl.fulfil} \cup fulfils
<1>1. /\ Keeps(Await(x, {"book"}, {"patron"}))
      /\ Keeps(Guide(Await(x, {}, {"lookup"}), {}, {"lookup"}))
      /\ Keeps(Guide(Await(x, {}, {"book"}), {}, {"issue"}))
      /\ Keeps(Await(x, {"deskPatron"}, {}))
  BY AwaitSlots, UpdatesKeep DEF Prompts
<1>2. /\ Shows(sl, Done(Await(x, {"book"}, {"patron"})))
      /\ Shows(sl, Done(Guide(Await(x, {}, {"lookup"}), {}, {"lookup"})))
      /\ Shows(sl, Done(Guide(Await(x, {}, {"book"}), {}, {"issue"})))
      /\ Shows(sl, Done(Await(x, {"deskPatron"}, {})))
      /\ Shows(sl, Done(x)) /\ \A at : Shows(sl, Go(x, at))
  BY <1>1, GoShows
<1> QED BY <1>2 DEF Identified, NotIdentified

LEMMA PatronToolsShow ==
  ASSUME NEW i \in Intent, NEW sl \in Slots, NEW valid \in BOOLEAN
  PROVE  /\ Shows(sl, Resolve(i, sl, valid)) /\ Shows(sl, SearchPatrons(i, sl))
         /\ i.who # {} => Shows(sl, ResolveId(i, sl, valid))
<1>1. Shows(sl, Resolve(i, sl, valid))
  <2> DEFINE found == IF Cardinality(i.who) = 1 THEN [sl EXCEPT !.patron = CHOOSE p \in i.who : TRUE]
                      ELSE IF Cardinality(i.who) > 1 THEN [sl EXCEPT !.patronCands = i.who] ELSE sl
  <2>1. found \in Slots
    BY OneOf, FieldSlots DEF Intent, Maybe
  <2>2. found.fulfil = sl.fulfil
    BY DEF Slots
  <2>3. Resolve(i, sl, valid) =
          IF Cardinality(i.who) = 1 /\ valid THEN Identified(i, found)
          ELSE IF i.by = "key"
          THEN Done(IF i.action = "PROVIDE_PATRON_LOOKUP" THEN Await(found, {"lookup"}, {}) ELSE found)
          ELSE IF i.action # "PROVIDE_PATRON_LOOKUP" /\ found.patronCands # {} THEN Done(found)
          ELSE Go(found, "searchPatrons")
    BY DEF Resolve
  <2> HIDE DEF found
  <2>4. Await(found, {"lookup"}, {}).fulfil = sl.fulfil
    BY <2>1, <2>2, UpdatesKeep DEF Prompts
  <2>5. /\ Shows(sl, Done(Await(found, {"lookup"}, {}))) /\ Shows(sl, Done(found))
        /\ Shows(sl, Go(found, "searchPatrons")) /\ Shows(sl, Identified(i, found))
    BY <2>1, <2>2, <2>4, GoShows, IdentifiedShows
  <2> QED BY <2>3, <2>5
<1>2. Shows(sl, SearchPatrons(i, sl))
  <2> DEFINE found == IF Cardinality(i.who) > 1 THEN [sl EXCEPT !.patronCands = i.who] ELSE sl
  <2>1. found \in Slots
    BY FieldSlots DEF Intent
  <2>2. found.fulfil = sl.fulfil
    BY DEF Slots
  <2>3. SearchPatrons(i, sl) =
          IF i.action = "PROVIDE_PATRON_LOOKUP"
          THEN CASE i.who = {} -> Done(Await(found, {"lookup"}, {}))
                 [] Cardinality(i.who) = 1 -> Go(found, "resolveId")
                 [] OTHER -> Done(Await(found, {}, {"lookup"}))
          ELSE IF found.patronCands = {} /\ Cardinality(i.who) = 1 THEN Go(found, "resolveId")
          ELSE NotIdentified(i, found)
    BY DEF SearchPatrons
  <2> HIDE DEF found
  <2>4. Await(found, {"lookup"}, {}).fulfil = sl.fulfil /\ Await(found, {}, {"lookup"}).fulfil = sl.fulfil
    BY <2>1, <2>2, UpdatesKeep DEF Prompts
  <2>5. /\ Shows(sl, Done(Await(found, {"lookup"}, {}))) /\ Shows(sl, Done(Await(found, {}, {"lookup"})))
        /\ Shows(sl, Go(found, "resolveId")) /\ Shows(sl, NotIdentified(i, found))
    BY <2>1, <2>2, <2>4, GoShows, IdentifiedShows
  <2> QED BY <2>3, <2>5
<1>3. ASSUME i.who # {} PROVE Shows(sl, ResolveId(i, sl, valid))
  <2> DEFINE found == [sl EXCEPT !.patron = CHOOSE p \in i.who : TRUE]
  <2>1. found \in Slots
    BY <1>3, FieldSlots DEF Intent, Maybe
  <2>2. found.fulfil = sl.fulfil
    BY DEF Slots
  <2> HIDE DEF found
  <2>3. Await(found, {}, {"lookup"}).fulfil = sl.fulfil
    BY <2>1, <2>2, UpdatesKeep
  <2>4. /\ Shows(sl, Identified(i, found)) /\ Shows(sl, NotIdentified(i, found))
        /\ Shows(sl, Done(Await(found, {}, {"lookup"})))
    BY <2>1, <2>2, <2>3, GoShows, IdentifiedShows
  <2> QED BY <2>4 DEF ResolveId, found
<1> QED BY <1>1, <1>2, <1>3

LEMMA LoanToolsShow ==
  ASSUME loans \in [LoanIds -> LoanRow], NEW i \in Intent, NEW sl \in Slots
  PROVE  /\ \A first \in AnyOf(ListedLoans(i, sl)) :
              Shows(sl, ListLoans(i, sl, first))
         /\ Shows(sl, Lookup(i, sl)) /\ Shows(sl, Done(SearchReturn(i, sl)))
         /\ Shows(sl, SelectLoan(i, sl))
<1>0. \A l \in LoanIds : WithLoan(sl, l) \in Slots /\ WithLoan(sl, l).fulfil = None
  BY WithLoanSlots DEF WithLoan, Slots
<1>1. ASSUME NEW first \in AnyOf(ListedLoans(i, sl))
      PROVE  Shows(sl, ListLoans(i, sl, first))
  <2> DEFINE found == ListedLoans(i, sl)
             new == Listed(sl, found, first, sl.returnIntent)
             prompt == IF sl.returnIntent /\ Cardinality(found) = 1 THEN {}
                       ELSE IF sl.returnIntent /\ found # {} THEN {"deskPick"} ELSE {"deskNext"}
  <2>1. found \in SUBSET LoanIds
    BY SomeLoans
  <2>2. new \in Slots
    BY <2>1, ListedSlots
  <2>3. new.fulfil \in {None, sl.fulfil}
    <3> DEFINE a == NoLoan(sl)
    <3>1. a \in Slots /\ a.fulfil = sl.fulfil
      BY DropSlots, UpdatesKeep
    <3> HIDE DEF a
    <3>2. /\ [a EXCEPT !.loanCands = {}].fulfil = sl.fulfil
          /\ [a EXCEPT !.patron = loans[first].patron, !.loanCands = found].fulfil = sl.fulfil
      BY <3>1 DEF Slots
    <3>3. ASSUME found # {} PROVE [WithLoan(sl, first) EXCEPT !.loanCands = {}].fulfil = None
      <4>1. first \in LoanIds
        BY <2>1, <3>3 DEF AnyOf
      <4> HIDE DEF found
      <4>2. WithLoan(sl, first) \in Slots /\ WithLoan(sl, first).fulfil = None
        BY <1>0, <4>1
      <4> QED BY <4>2 DEF Slots
    <3>4. new = IF found = {} THEN [a EXCEPT !.loanCands = {}]
                ELSE IF sl.returnIntent /\ Cardinality(found) = 1 THEN [WithLoan(sl, first) EXCEPT !.loanCands = {}]
                ELSE [a EXCEPT !.patron = loans[first].patron, !.loanCands = found]
      BY DEF Listed, a
    <3> HIDE DEF found, new
    <3> QED BY <3>2, <3>3, <3>4
  <2>4. prompt \in SUBSET Prompts
    BY DEF Prompts
  <2>5. ListLoans(i, sl, first) = IF i.action = "PROVIDE_PATRON_FOR_DESK" /\ i.by = "key" /\ i.who = {}
                                  THEN Done(Await(sl, {"deskPatron"}, {})) ELSE Done(Await(new, prompt, DeskPrompts))
    BY DEF ListLoans
  <2> HIDE DEF new, prompt
  <2>6. Await(new, prompt, DeskPrompts).fulfil = new.fulfil /\ Await(sl, {"deskPatron"}, {}).fulfil = sl.fulfil
    BY <2>2, <2>4, UpdatesKeep DEF Prompts
  <2> QED BY <2>3, <2>5, <2>6, GoShows
<1>2. Shows(sl, Lookup(i, sl))
  <2> DEFINE ls == {l \in OpenLoans : loans[l].holding \in i.what}
             l0 == CHOOSE l \in ls : TRUE
             found == [WithLoan(sl, l0) EXCEPT !.loanCands = {}]
             new == IF ls = {} THEN sl ELSE found
  <2>1. ls # {} => found \in Slots /\ found.fulfil = None
    <3>1. ls # {} => l0 \in LoanIds
      BY SomeLoans
    <3> HIDE DEF l0, ls
    <3> DEFINE w == WithLoan(sl, l0)
    <3>2. ls # {} => w \in Slots /\ w.fulfil = None
      BY <1>0, <3>1
    <3> HIDE DEF w
    <3>3. w \in Slots => [w EXCEPT !.loanCands = {}] \in Slots /\ [w EXCEPT !.loanCands = {}].fulfil = w.fulfil
      BY DEF Slots
    <3> QED BY <3>2, <3>3 DEF w
  <2>2. Lookup(i, sl) =
          IF i.action # "PROVIDE_PATRON_FOR_DESK" THEN Done(new)
          ELSE IF sl.returnIntent THEN Done(Await(new, {}, DeskPrompts))
          ELSE IF ls = {} THEN Done(Await(sl, {"deskPatron"}, {}))
          ELSE Go(NoLoan(found), "listLoans")
    BY DEF Lookup
  <2> HIDE DEF ls, found
  <2>3. new \in Slots /\ new.fulfil \in {None, sl.fulfil}
    BY <2>1
  <2> HIDE DEF new
  <2>4. Await(new, {}, DeskPrompts).fulfil = new.fulfil /\ Await(sl, {"deskPatron"}, {}).fulfil = sl.fulfil
    BY <2>3, UpdatesKeep DEF Prompts
  <2>5. ls # {} => NoLoan(found).fulfil = None
    BY <2>1, UpdatesKeep
  <2> QED BY <2>2, <2>3, <2>4, <2>5, GoShows
<1>3. Shows(sl, Done(SearchReturn(i, sl)))
  <2> DEFINE ofPatron == IF i.by = "none" THEN OpenLoans ELSE LoansOf(i.who)
             found == {l \in ofPatron : i.code = "title" => loans[l].holding \in i.what}
             l0 == CHOOSE l \in found : TRUE
  <2>1. found \in SUBSET LoanIds
    BY SomeLoans
  <2>2. Cardinality(found) = 1 => l0 \in LoanIds
    <3> HIDE DEF found
    <3> QED BY <2>1, OneOf
  <2>3. SearchReturn(i, sl) = IF i.by = "key" /\ i.who = {} THEN sl
                              ELSE IF Cardinality(found) = 1 THEN [WithLoan(sl, l0) EXCEPT !.loanCands = {}]
                              ELSE [sl EXCEPT !.loanCands = found]
    BY DEF SearchReturn
  <2> HIDE DEF found, l0
  <2>4. Cardinality(found) = 1 => [WithLoan(sl, l0) EXCEPT !.loanCands = {}].fulfil = None
    BY <1>0, <2>2 DEF Slots
  <2>5. [sl EXCEPT !.loanCands = found].fulfil = sl.fulfil
    BY DEF Slots
  <2> QED BY <2>3, <2>4, <2>5, GoShows
<1>4. Shows(sl, SelectLoan(i, sl))
  <2>1. /\ Await(sl, {}, {"deskPick"}).fulfil = sl.fulfil
        /\ \A L : [sl EXCEPT !.loanCands = L].fulfil = sl.fulfil
    BY UpdatesKeep DEF Slots
  <2>2. /\ \A l : Shows(sl, Ask(Await(sl, {}, {"deskPick"}), "SELECT_RETURN", l))
        /\ \A L : Shows(sl, Done([sl EXCEPT !.loanCands = L]))
        /\ Shows(sl, Done(sl))
    BY <2>1, GoShows, AskShows
  <2> QED BY <2>2 DEF SelectLoan
<1> QED BY <1>1, <1>2, <1>3, <1>4

LEMMA CopyToolsShow ==
  ASSUME NEW i \in Intent, NEW sl \in Slots, NEW valid \in BOOLEAN
  PROVE  /\ Shows(sl, Done(SelectPatron(i, sl))) /\ Shows(sl, Done(SearchCatalog(i, sl)))
         /\ Shows(sl, Done(SelectCopy(i, sl))) /\ Shows(sl, Done(SelectBarcode(i, sl)))
         /\ Shows(sl, SearchLendable(i, sl)) /\ Shows(sl, Validate(i, sl, valid))
         /\ \A f \in Maybe(fulfils) : Shows(sl, FulfilStatus(sl, f))
<1>0. ASSUME NEW off PROVE Await(sl, {}, off) \in Slots /\ Await(sl, {}, off).fulfil = sl.fulfil
  BY AwaitSlots, UpdatesKeep
<1>1. Shows(sl, Done(SelectPatron(i, sl)))
  <2>1. SelectPatron(i, sl).fulfil = sl.fulfil
    BY <1>0 DEF SelectPatron, Slots
  <2> QED BY <2>1, GoShows
<1>2. Shows(sl, Done(SearchCatalog(i, sl)))
  <2> DEFINE found == {h \in i.what : ~OnLoan(h)}
             prompt == IF "catalog" \in sl.guided THEN {"catalog"} ELSE {"book"}
             a == Await(sl, {}, prompt)
             new == IF Cardinality(found) = 1
                    THEN [a EXCEPT !.holding = CHOOSE h \in found : TRUE, !.copyCands = {}]
                    ELSE [a EXCEPT !.copyCands = found]
             retry == CASE i.action = "PROVIDE_BOOK_CRITERIA" -> {"book"}
                        [] i.action = "PROVIDE_CATALOG_CRITERIA" -> {"catalog"}
                        [] OTHER -> {}
  <2>1. a \in Slots /\ a.fulfil = sl.fulfil /\ found \in SUBSET Holdings
    BY <1>0 DEF Intent
  <2>2. SearchCatalog(i, sl) =
          IF found = {} THEN Await(new, prompt \cup retry, {})
          ELSE IF i.action = "PROVIDE_CATALOG_CRITERIA" /\ "return" \in sl.guided /\ sl.patron # None
          THEN Guide(Await(new, {"deskNext"}, {"catalog"}), {}, {"catalog"})
          ELSE new
    BY DEF SearchCatalog
  <2>3. prompt \cup retry \in SUBSET Prompts
    BY DEF Prompts
  <2> HIDE DEF found, a, prompt, retry
  <2>4. new \in Slots /\ new.fulfil = sl.fulfil
    <3>1. Cardinality(found) = 1 => (CHOOSE h \in found : TRUE) \in Holdings
      BY <2>1, OneOf
    <3>2. ASSUME NEW h \in Holdings PROVE [a EXCEPT !.holding = h, !.copyCands = {}] \in Slots
      BY <2>1 DEF Slots, Maybe
    <3>3. new \in Slots
      BY <2>1, <3>1, <3>2, FieldSlots
    <3>4. /\ [a EXCEPT !.copyCands = found].fulfil = a.fulfil
          /\ \A h : [a EXCEPT !.holding = h, !.copyCands = {}].fulfil = a.fulfil
      BY <2>1 DEF Slots
    <3> QED BY <2>1, <3>3, <3>4
  <2> HIDE DEF new
  <2>5. /\ Await(new, prompt \cup retry, {}).fulfil = sl.fulfil
        /\ Guide(Await(new, {"deskNext"}, {"catalog"}), {}, {"catalog"}).fulfil = sl.fulfil
    BY <2>3, <2>4, AwaitSlots, UpdatesKeep DEF Prompts
  <2> QED BY <2>2, <2>4, <2>5, GoShows
<1>3. Shows(sl, Done(SelectCopy(i, sl)))
  <2>1. SelectCopy(i, sl).fulfil = sl.fulfil
    BY <1>0 DEF SelectCopy, Slots
  <2> QED BY <2>1, GoShows
<1>4. Shows(sl, Done(SelectBarcode(i, sl)))
  <2>1. SelectBarcode(i, sl).fulfil = sl.fulfil
    BY DEF SelectBarcode, Slots
  <2> QED BY <2>1, GoShows
<1>5. Shows(sl, SearchLendable(i, sl))
  <2> DEFINE found == IF sl.patron = None THEN {} ELSE {h \in i.what : ~OnLoan(h)}
             new == IF found = {} THEN sl
                    ELSE IF Cardinality(found) = 1
                    THEN [sl EXCEPT !.holding = CHOOSE h \in found : TRUE, !.copyCands = {}]
                    ELSE [sl EXCEPT !.copyCands = found]
  <2>1. new.fulfil = sl.fulfil
    BY DEF Slots
  <2>2. SearchLendable(i, sl) =
          IF i.action = "REQUEST_COMMIT" /\ new.copyCands = {} THEN Go(new, "validate") ELSE Done(new)
    BY DEF SearchLendable
  <2> HIDE DEF new
  <2> QED BY <2>1, <2>2, GoShows
<1>6. Shows(sl, Validate(i, sl, valid))
  BY GoShows, AskShows DEF Validate
<1>7. ASSUME NEW f \in Maybe(fulfils) PROVE Shows(sl, FulfilStatus(sl, f))
  <2> DEFINE own == IF sl.fulfil # None THEN sl.fulfil ELSE f
  <2>1. own \in {None, sl.fulfil} \cup fulfils
    BY DEF Maybe
  <2>2. FulfilStatus(sl, f) = IF own = None THEN Done(sl)
                           ELSE Ask([sl EXCEPT !.fulfil = own], "TRANSITION_FULFILLMENT", None)
    BY DEF FulfilStatus
  <2> HIDE DEF own
  <2> DEFINE new == [sl EXCEPT !.fulfil = own]
  <2>3. new.fulfil = own
    BY DEF Slots
  <2> HIDE DEF new
  <2>4. Shows(sl, Ask(new, "TRANSITION_FULFILLMENT", None)) /\ Shows(sl, Done(sl))
    BY <2>1, <2>3, GoShows, AskShows
  <2> QED BY <2>2, <2>4 DEF new
<1> QED BY <1>1, <1>2, <1>3, <1>4, <1>5, <1>6, <1>7

-----------------------------------------------------------------------------
(* The invariant *)

Used(l) == loans[l].state # "unused"

\* A thread between an approval and the end of its resume.
Resumes(r) == request[r].at \in WriteSteps
\* A thread that answers a message.
Reads(r) == request[r].at \notin {"idle"} \cup WriteSteps
\* An approval that may still be executed in a session.
Live(s, k) ==
  \/ pending[s] = k
  \/ \E r \in Requests : Resumes(r) /\ request[r].session = s /\ request[r].key = k
\* And that the session has been busy with alone since it was asked for.
Calm(s, k) == Live(s, k) /\ k \notin disturbed

\* A session with a calm approval answers no message and executes no other approval.
CalmAlone ==
  \A s \in Sessions, k \in Keys : Calm(s, k) =>
    /\ \A r \in Requests : Reads(r) => request[r].session # s
    /\ \A m \in Keys : Live(s, m) => m = k
\* An approval belongs to one session.
OneSession == \A s, t \in Sessions, k \in Keys : Live(s, k) /\ Live(t, k) => s = t

\* What the tool of each kind of approval records.
OpOf(kind) ==
  CASE kind = "COMMIT_ISSUE" -> "checkout"
    [] kind = "TRANSITION_FULFILLMENT" -> "transition"
    [] kind \in {"CANCEL_ISSUE", "COMMIT_RETURN"} -> "return"
    [] kind = "INITIATE_RETURN_PICKUP" -> "pickup"
    [] OTHER -> "none"

\* A recorded effect agrees with the approval it was recorded under and with the loan it
\* is about.
EffectOK(e) ==
  LET a == approval[e.key] IN
  /\ e.key \in Made /\ e.op = OpOf(a.kind)
  /\ Used(e.loan) /\ e.patron = loans[e.loan].patron
  /\ e.op = "return" => loans[e.loan].state = "closed"
  /\ a.kind \in {"CANCEL_ISSUE", "INITIATE_RETURN_PICKUP"} => e.on = e.loan
  /\ e.op = "transition" => e.on[2] = e.loan
  /\ e.key \notin disturbed =>
       /\ e.op = "checkout" => e.patron = a.patron /\ e.on = a.holding
       /\ a.kind = "COMMIT_RETURN" /\ a.holding # None => loans[e.loan].holding = a.holding
EffectsOK == \A e \in done : EffectOK(e)
OneDone   == \A e, f \in done : e.key = f.key /\ e.key \notin disturbed => e = f

\* A fulfilment is of a loan that was made, and was recorded under its key.
FulfilOK(f) ==
  /\ Used(f[2])
  /\ f[1] = "RETURN" => \E e \in done : e.op = "pickup" /\ e.key = f[3] /\ e.on = f[2]
  /\ f[1] = "ISSUE" =>
       /\ \E e \in done : e.op = "checkout" /\ e.key = f[3] /\ e.loan = f[2]
       /\ f[3] \notin disturbed => approval[f[3]].mode = "DELIVERY"
FulfilsOK == \A f \in fulfils : FulfilOK(f)
OnePickup ==
  \A f, g \in fulfils : f[1] = "RETURN" /\ g[1] = "RETURN" /\ f[3] = g[3] /\ f[3] \notin disturbed => f = g

LedgerInv == EffectsOK /\ OneDone /\ FulfilsOK /\ OnePickup

\* A thread that issues: the approval of its checkout, and of a delivery the checkout
\* that was recorded.
ThreadKeeps(q) ==
  /\ q.fulfil \in Maybe(fulfils)
  /\ q.at = "checkout" => approval[q.key].kind = "COMMIT_ISSUE"
  /\ q.at \in {"deliver", "insert"} =>
       /\ approval[q.key].kind = "COMMIT_ISSUE" /\ q.seen.mode = "DELIVERY"
       /\ \E e \in done : e.op = "checkout" /\ e.key = q.key /\ e.loan = q.loan
\* The fulfilments that threads and sessions hold exist.
Held ==
  /\ \A r \in Requests : ThreadKeeps(request[r])
  /\ \A s \in Sessions : slots[s].fulfil \in Maybe(fulfils)

\* The slots of a session, and those a tool of it read and may act on or put back.
Remembers(q, s) == q.at \in {"checkout", "deliver", "insert", "executed"} /\ q.session = s
Selections(s) == {slots[s]} \cup {request[r].seen : r \in {x \in Requests : Remembers(request[x], s)}}

\* What a return under an approval goes by, when L is the loan of the slots.
Target(a, L) == IF a.kind = "COMMIT_RETURN" /\ a.holding # None THEN a.holding ELSE L
LoanKinds == {"COMMIT_RETURN", "CANCEL_ISSUE", "INITIATE_RETURN_PICKUP"}

\* The slots x show what the card of an issue shows, or too little to act on.
AsOnCard(a, x) ==
  /\ x.mode = a.mode
  /\ HasPatronAndHolding(x) => x.patron = a.patron /\ x.holding = a.holding

\* While a calm approval may be executed, the slots hold what its card shows, or too
\* little to act on; and a tool run again acts on what it acted on before.
Card(s, k) ==
  LET a == approval[k] IN
  /\ a.kind = "COMMIT_ISSUE" => \A x \in Selections(s) : AsOnCard(a, x)
  /\ a.kind = "COMMIT_RETURN" => \A x \in Selections(s) : x.loan # None => x.holding = a.holding
  /\ a.kind \in LoanKinds =>
       \E L \in Maybe(LoanIds) :
         /\ \A x \in Selections(s) : x.loan \in {None, L}
         /\ \A e \in done : e.key = k => e.on = Target(a, L)
  /\ a.kind = "TRANSITION_FULFILLMENT" => \A e \in done : e.key = k => e.on = slots[s].fulfil
Cards == \A s \in Sessions, k \in Keys : Calm(s, k) => Card(s, k)

\* The inductive invariant.
ApprovalInv == TypeInv /\ CalmAlone /\ OneSession /\ Cards /\ LedgerInv /\ Held

LEMMA InvImpliesProperties ==
  ApprovalInv => IssuedAsShown /\ OneEffectPerApproval /\ ReturnsShownCopy /\ DeliveredAsShown
<1> SUFFICES ASSUME ApprovalInv PROVE IssuedAsShown /\ OneEffectPerApproval /\ ReturnsShownCopy /\ DeliveredAsShown
  OBVIOUS
<1>1. IssuedAsShown /\ ReturnsShownCopy
  BY DEF ApprovalInv, LedgerInv, EffectsOK, EffectOK, OpOf, IssuedAsShown, ReturnsShownCopy
<1>2. OneEffectPerApproval
  BY DEF ApprovalInv, LedgerInv, OneDone, OnePickup, OneEffectPerApproval
<1>3. DeliveredAsShown
  BY DEF ApprovalInv, LedgerInv, FulfilsOK, FulfilOK, DeliveredAsShown
<1> QED BY <1>1, <1>2, <1>3

LEMMA SelectionsAre ==
  /\ \A s, x : x \in Selections(s) <=>
       x = slots[s] \/ \E r \in Requests : Remembers(request[r], s) /\ x = request[r].seen
  /\ (\A s, x : x \in Selections(s) <=>
       x = slots[s] \/ \E r \in Requests : Remembers(request[r], s) /\ x = request[r].seen)'
BY DEF Selections

LEMMA LiveIsMade ==
  ASSUME TypeInv, NEW s \in Sessions, NEW k \in Keys, Live(s, k)
  PROVE  k \in Made
BY DEF Live, Resumes, TypeInv, AskedOK, ThreadsOK, Maybe

-----------------------------------------------------------------------------
(* The threads and the cards *)

\* The slots x may follow those of the session under the approval k.
Follows(s, k, x) ==
  LET a == approval[k] IN
  /\ a.kind = "COMMIT_ISSUE" =>
       /\ x.mode = slots[s].mode
       /\ HasPatronAndHolding(x) => x.patron = slots[s].patron /\ x.holding = slots[s].holding
  /\ a.kind \in LoanKinds /\ x.loan # None =>
       \E y \in Selections(s) : y.loan = x.loan /\ y.holding = x.holding
  /\ a.kind = "TRANSITION_FULFILLMENT" => x.fulfil = slots[s].fulfil

\* The effect e is one of the approval k on the slots of the session.
Fits(s, k, e) ==
  LET a == approval[k] IN
  /\ a.kind \in LoanKinds => slots[s].loan # None /\ e.on = Target(a, slots[s].loan)
  /\ a.kind = "TRANSITION_FULFILLMENT" => e.on = slots[s].fulfil

LEMMA SlotsFollow ==
  ASSUME NEW s, NEW k
  PROVE  Follows(s, k, slots[s])
BY SelectionsAre DEF Follows

LEMMA CardMoved ==
  ASSUME NEW s \in Sessions, NEW k \in Keys, Card(s, k), approval'[k] = approval[k],
         Follows(s, k, slots'[s]), Selections(s)' \subseteq Selections(s) \cup {slots'[s]},
         \A e \in done' : e.key = k => e \in done \/ (Fits(s, k, e) /\ slots'[s] = slots[s])
  PROVE  Card(s, k)'
<1> DEFINE a == approval[k]
           x == slots'[s]
<1>1. ASSUME a.kind = "COMMIT_ISSUE", NEW y \in Selections(s)' PROVE AsOnCard(a, y)
  <2>1. AsOnCard(a, slots[s]) /\ \A z \in Selections(s) : AsOnCard(a, z)
    BY <1>1, SelectionsAre DEF Card
  <2>2. AsOnCard(a, x)
    BY <1>1, <2>1 DEF Follows, AsOnCard, HasPatronAndHolding
  <2> QED BY <2>1, <2>2
<1>2. ASSUME a.kind = "COMMIT_RETURN", NEW y \in Selections(s)', y.loan # None
      PROVE  y.holding = a.holding
  BY <1>2 DEF Card, Follows, LoanKinds
<1>3. ASSUME a.kind \in LoanKinds
      PROVE  \E L \in Maybe(LoanIds) : /\ \A y \in Selections(s)' : y.loan \in {None, L}
                                       /\ \A e \in done' : e.key = k => e.on = Target(a, L)
  <2>1. PICK L \in Maybe(LoanIds) : /\ \A y \in Selections(s) : y.loan \in {None, L}
                                    /\ \A e \in done : e.key = k => e.on = Target(a, L)
    BY <1>3 DEF Card
  <2>2. x.loan \in {None, L} /\ slots[s].loan \in {None, L}
    BY <1>3, <2>1, SelectionsAre DEF Follows
  <2>3. \A y \in Selections(s)' : y.loan \in {None, L}
    BY <2>1, <2>2
  <2>4. \A e \in done' : e.key = k => e.on = Target(a, L)
    BY <1>3, <2>1, <2>2 DEF Fits
  <2> QED BY <2>3, <2>4
<1>4. a.kind = "TRANSITION_FULFILLMENT" => \A e \in done' : e.key = k => e.on = x.fulfil
  BY DEF Card, Follows, Fits
<1> QED BY <1>1, <1>2, <1>3, <1>4 DEF Card, HasPatronAndHolding, Target, AsOnCard

\* The approvals that were asked for stay as they are, and one that was disturbed too.
Kept == (\A k \in Made : approval'[k] = approval[k]) /\ disturbed \subseteq disturbed'

\* A step that makes no approval live or calm keeps the cards, if the slots of a calm
\* approval follow the card and nothing else is recorded under it.
LEMMA CardsStep ==
  ASSUME TypeInv, OneSession, Cards, Kept,
         \A s \in Sessions, k \in Keys : Live(s, k)' => Live(s, k),
         \A s \in Sessions, k \in Keys : Calm(s, k) /\ Calm(s, k)' =>
           /\ Follows(s, k, slots'[s]) /\ Selections(s)' \subseteq Selections(s) \cup {slots'[s]}
           /\ \A e \in done' : e.key = k => e \in done \/ (Fits(s, k, e) /\ slots'[s] = slots[s])
  PROVE  OneSession' /\ Cards'
<1>1. ASSUME NEW s \in Sessions, NEW k \in Keys, Calm(s, k)' PROVE Card(s, k)'
  <2>1. Live(s, k)
    BY <1>1 DEF Calm
  <2>2. Calm(s, k)
    BY <1>1, <2>1 DEF Calm, Kept
  <2>3. Card(s, k) /\ approval'[k] = approval[k]
    BY <2>1, <2>2, LiveIsMade DEF Cards, Kept
  <2> QED BY <1>1, <2>2, <2>3, CardMoved
<1>2. OneSession'
  BY DEF OneSession
<1> QED BY <1>1, <1>2 DEF Cards

\* Only the thread r moves, to q.
LEMMA Moved ==
  ASSUME TypeInv, NEW r \in Requests, NEW q, request' = [request EXCEPT ![r] = q]
  PROVE  request'[r] = q /\ \A x \in Requests : x # r => request'[x] = request[x]
BY DEF TypeInv, ThreadsOK

\* A thread that goes on without a new approval makes no approval live, and remembers no
\* slots but those of its session.
LEMMA NothingNew ==
  ASSUME TypeInv, NEW r \in Requests, NEW q, request' = [request EXCEPT ![r] = q],
         \A s \in Sessions : pending'[s] \in {None, pending[s]},
         q.at \in WriteSteps => Live(q.session, q.key),
         \A s : Remembers(q, s) => q.seen \in Selections(s)
  PROVE  /\ \A s \in Sessions, k \in Keys : Live(s, k)' => Live(s, k)
         /\ \A s \in Sessions : Selections(s)' \subseteq Selections(s) \cup {slots'[s]}
<1>1. request'[r] = q /\ \A x \in Requests : x # r => request'[x] = request[x]
  BY Moved
<1>2. ASSUME NEW s \in Sessions, NEW k \in Keys, Live(s, k)' PROVE Live(s, k)
  <2>1. CASE pending'[s] = k
    BY <2>1, AgentNoneAssumption DEF Live
  <2>2. CASE pending'[s] # k
    <3>1. PICK x \in Requests : request'[x].at \in WriteSteps /\ request'[x].session = s /\ request'[x].key = k
      BY <1>2, <2>2 DEF Live, Resumes
    <3>2. CASE x = r
      BY <1>1, <3>1, <3>2
    <3>3. CASE x # r
      BY <1>1, <3>1, <3>3 DEF Live, Resumes
    <3> QED BY <3>2, <3>3
  <2> QED BY <2>1, <2>2
<1>3. ASSUME NEW s \in Sessions PROVE Selections(s)' \subseteq Selections(s) \cup {slots'[s]}
  <2> SUFFICES ASSUME NEW y \in Selections(s)', y # slots'[s] PROVE y \in Selections(s)
    OBVIOUS
  <2>1. PICK x \in Requests : Remembers(request'[x], s) /\ y = request'[x].seen
    BY SelectionsAre
  <2>2. CASE x = r
    BY <1>1, <2>1, <2>2, SelectionsAre
  <2>3. CASE x # r
    BY <1>1, <2>1, <2>3, SelectionsAre
  <2> QED BY <2>2, <2>3
<1> QED BY <1>2, <1>3

\* A thread goes on without a new approval.
LEMMA ThreadStep ==
  ASSUME TypeInv, CalmAlone, OneSession, Cards, Kept,
         NEW r \in Requests, NEW q, request' = [request EXCEPT ![r] = q],
         \A s \in Sessions : pending'[s] \in {None, pending[s]},
         q.at \in WriteSteps => Live(q.session, q.key),
         \A s : Remembers(q, s) => q.seen \in Selections(s),
         q.at \notin {"idle"} \cup WriteSteps =>
           \A k \in Keys : Live(q.session, k) => k \in disturbed',
         \A s \in Sessions, k \in Keys : Calm(s, k) /\ Calm(s, k)' =>
           /\ Follows(s, k, slots'[s])
           /\ \A e \in done' : e.key = k => e \in done \/ (Fits(s, k, e) /\ slots'[s] = slots[s])
  PROVE  CalmAlone' /\ OneSession' /\ Cards'
<1>1. request'[r] = q /\ \A x \in Requests : x # r => request'[x] = request[x]
  BY Moved
<1>2. /\ \A s \in Sessions, k \in Keys : Live(s, k)' => Live(s, k)
      /\ \A s \in Sessions : Selections(s)' \subseteq Selections(s) \cup {slots'[s]}
  BY NothingNew
<1>3. OneSession' /\ Cards'
  BY <1>2, CardsStep
<1>4. ASSUME NEW s \in Sessions, NEW k \in Keys, Calm(s, k)'
      PROVE  /\ \A x \in Requests : Reads(x)' => request'[x].session # s
             /\ \A m \in Keys : Live(s, m)' => m = k
  <2>1. Live(s, k) /\ k \notin disturbed' /\ Calm(s, k)
    BY <1>2, <1>4 DEF Calm, Kept
  <2>2. \A m \in Keys : Live(s, m)' => m = k
    BY <1>2, <2>1 DEF CalmAlone
  <2>3. ASSUME NEW x \in Requests, Reads(x)' PROVE request'[x].session # s
    <3>1. CASE x = r
      BY <1>1, <2>1, <2>3, <3>1 DEF Reads
    <3>2. CASE x # r
      BY <1>1, <2>1, <2>3, <3>2 DEF Reads, CalmAlone
    <3> QED BY <3>1, <3>2
  <2> QED BY <2>2, <2>3
<1>5. CalmAlone'
  BY <1>4 DEF CalmAlone
<1> QED BY <1>3, <1>5

\* The turn of a message ends with an approval k to ask for.  If nothing else is at work
\* in its session, no other approval of it can be executed and nobody remembers older
\* slots.
LEMMA AskStep ==
  ASSUME TypeInv, CalmAlone, OneSession, Cards, EffectsOK,
         NEW r \in Requests, Reads(r), NEW s \in Sessions, s = request[r].session,
         NEW a, NEW k \in KeysLeft, NEW new \in Slots, a # NoApproval,
         a.patron = new.patron, a.holding = new.holding, a.mode = new.mode,
         request' = [request EXCEPT ![r] = NoRequest], slots' = [slots EXCEPT ![s] = new],
         approval' = [approval EXCEPT ![k] = a], pending' = [pending EXCEPT ![s] = k], done' = done,
         disturbed' = IF Others(r, s) = {} THEN disturbed ELSE disturbed \cup {k}
  PROVE  CalmAlone' /\ OneSession' /\ Cards' /\ Kept
<1>1. request'[r] = NoRequest /\ \A x \in Requests : x # r => request'[x] = request[x]
  BY Moved
<1>2. /\ pending'[s] = k /\ \A t \in Sessions : t # s => pending'[t] = pending[t]
      /\ slots'[s] = new /\ \A t \in Sessions : t # s => slots'[t] = slots[t]
      /\ approval'[k] = a /\ \A m \in Keys : m # k => approval'[m] = approval[m]
      /\ k \in Keys /\ k \notin Made
  BY DEF TypeInv, AskedOK, SessionsOK, KeysLeft, Made
<1>3. NoRequest.at = "idle" /\ NoRequest.at \notin WriteSteps /\ \A t : ~Remembers(NoRequest, t)
  BY DEF NoRequest, WriteSteps, Remembers
<1>4. Kept
  BY <1>2 DEF Kept, Made
<1>5. ASSUME NEW t \in Sessions, NEW m \in Keys, Live(t, m)' PROVE (t = s /\ m = k) \/ Live(t, m)
  <2>1. CASE pending'[t] = m
    BY <1>2, <2>1 DEF Live
  <2>2. CASE pending'[t] # m
    <3>1. PICK x \in Requests : request'[x].at \in WriteSteps /\ request'[x].session = t /\ request'[x].key = m
      BY <1>5, <2>2 DEF Live, Resumes
    <3>2. x # r /\ request'[x] = request[x]
      BY <1>1, <1>3, <3>1
    <3> QED BY <3>1, <3>2 DEF Live, Resumes
  <2> QED BY <2>1, <2>2
<1>6. ASSUME NEW t \in Sessions, t # s
      PROVE  Selections(t)' \subseteq Selections(t) \cup {slots'[t]}
  <2> SUFFICES ASSUME NEW y \in Selections(t)', y # slots'[t] PROVE y \in Selections(t)
    OBVIOUS
  <2>1. PICK x \in Requests : Remembers(request'[x], t) /\ y = request'[x].seen
    BY SelectionsAre
  <2>2. x # r /\ request'[x] = request[x]
    BY <1>1, <1>3, <2>1
  <2> QED BY <2>1, <2>2, SelectionsAre
<1>7. \A m \in Keys, t \in Sessions : Live(t, m) => m # k
  BY <1>2, LiveIsMade
\* No approval of the session was calm, as the message was answered in it.
<1>8. \A m \in Keys : ~Calm(s, m)
  BY DEF CalmAlone
<1>9. ASSUME NEW m \in Keys, Calm(s, m)'
      PROVE  m = k /\ Others(r, s) = {}
  <2>1. m = k
    BY <1>5, <1>8, <1>9, <1>4 DEF Calm, Kept
  <2> QED BY <1>9, <2>1 DEF Calm
<1>10. ASSUME Others(r, s) = {}
       PROVE  /\ \A x \in Requests : request'[x].session # s
              /\ \A m \in Keys : Live(s, m)' => m = k
              /\ Card(s, k)'
  <2>1. NoRequest.session # s
    BY AgentNoneAssumption DEF NoRequest
  <2>2. \A x \in Requests : request'[x].session # s
    BY <1>1, <1>10, <2>1 DEF Others
  <2>3. \A m \in Keys : Live(s, m)' => m = k
    BY <1>2, <2>2 DEF Live
  <2>4. \A y \in Selections(s)' : y = new
    BY <1>2, <2>2, SelectionsAre DEF Remembers
  <2>5. \A e \in done' : e.key # k
    BY <1>2 DEF EffectsOK, EffectOK
  <2>6. new.loan \in Maybe(LoanIds)
    BY DEF Slots
  <2>7. \E L \in Maybe(LoanIds) : \A y \in Selections(s)' : y.loan \in {None, L}
    BY <2>4, <2>6
  <2>8. Card(s, k)'
    BY <1>2, <2>4, <2>5, <2>7 DEF Card, AsOnCard
  <2> QED BY <2>2, <2>3, <2>8
<1>11. ASSUME NEW t \in Sessions, t # s, NEW m \in Keys, Calm(t, m)'
       PROVE  Calm(t, m) /\ m # k
  BY <1>4, <1>5, <1>7, <1>11 DEF Calm, Kept
<1>12. Cards'
  <2> SUFFICES ASSUME NEW t \in Sessions, NEW m \in Keys, Calm(t, m)' PROVE Card(t, m)'
    BY DEF Cards
  <2>1. CASE t = s
    BY <1>9, <1>10, <2>1
  <2>2. CASE t # s
    <3>1. Card(t, m) /\ approval'[m] = approval[m] /\ slots'[t] = slots[t]
      BY <1>2, <1>11, <2>2 DEF Cards
    <3> QED BY <1>6, <2>2, <3>1, CardMoved, SlotsFollow
  <2> QED BY <2>1, <2>2
<1>13. OneSession'
  <2> SUFFICES ASSUME NEW t \in Sessions, NEW u \in Sessions, NEW m \in Keys, Live(t, m)', Live(u, m)' PROVE t = u
    BY DEF OneSession
  <2>1. /\ (t = s /\ m = k) \/ Live(t, m)
        /\ (u = s /\ m = k) \/ Live(u, m)
    BY <1>5
  <2> QED BY <1>7, <2>1 DEF OneSession
<1>14. CalmAlone'
  <2> SUFFICES ASSUME NEW t \in Sessions, NEW m \in Keys, Calm(t, m)'
               PROVE  /\ \A x \in Requests : Reads(x)' => request'[x].session # t
                      /\ \A n \in Keys : Live(t, n)' => n = m
    BY DEF CalmAlone
  <2>1. CASE t = s
    BY <1>9, <1>10, <2>1
  <2>2. CASE t # s
    <3>1. Calm(t, m)
      BY <1>11, <2>2
    <3>2. \A x \in Requests : Reads(x)' => request'[x].session # t
      BY <1>1, <1>3, <3>1 DEF CalmAlone, Reads
    <3>3. \A n \in Keys : Live(t, n)' => n = m
      BY <1>5, <2>2, <3>1 DEF CalmAlone
    <3> QED BY <3>2, <3>3
  <2> QED BY <2>1, <2>2
<1> QED BY <1>4, <1>12, <1>13, <1>14

-----------------------------------------------------------------------------
(* The loans and what was recorded about them *)

\* A loan that was made keeps its patron and its copy, and stays closed.
Grows ==
  \A l \in LoanIds : Used(l) =>
    /\ loans'[l].state # "unused" /\ (loans[l].state = "closed" => loans'[l].state = "closed")
    /\ loans'[l].patron = loans[l].patron /\ loans'[l].holding = loans[l].holding

LEMMA LoansGrow ==
  ASSUME loans \in [LoanIds -> LoanRow]
  PROVE  /\ UNCHANGED loans => Grows
         /\ \A l \in LoanIds : Close(l) =>
              Grows /\ loans'[l].state = "closed" /\ loans'[l].holding = loans[l].holding
         /\ \A row : \A l \in LoanIds : loans[l].state = "unused" /\ loans' = [loans EXCEPT ![l] = row]
                                      => Grows /\ loans'[l] = row
<1>1. UNCHANGED loans => Grows
  BY DEF Grows, Used
<1>2. ASSUME NEW l \in LoanIds, Close(l)
      PROVE  Grows /\ loans'[l].state = "closed" /\ loans'[l].holding = loans[l].holding
  <2>1. loans' = [loans EXCEPT ![l] = [loans[l] EXCEPT !.state = "closed"]]
    BY <1>2 DEF Close
  <2>2. loans[l] \in LoanRow
    OBVIOUS
  <2> DEFINE row == [loans[l] EXCEPT !.state = "closed"]
  <2>3. row.state = "closed" /\ row.patron = loans[l].patron /\ row.holding = loans[l].holding
    BY <2>2 DEF LoanRow
  <2> HIDE DEF row
  <2>4. loans'[l] = row /\ \A m \in LoanIds : m # l => loans'[m] = loans[m]
    BY <2>1 DEF row
  <2> QED BY <2>3, <2>4 DEF Grows, Used
<1>3. ASSUME NEW l \in LoanIds, NEW row, loans[l].state = "unused", loans' = [loans EXCEPT ![l] = row]
      PROVE  Grows /\ loans'[l] = row
  <2>1. loans'[l] = row /\ \A m \in LoanIds : m # l => loans'[m] = loans[m]
    BY <1>3
  <2> QED BY <1>3, <2>1 DEF Grows, Used
<1> QED BY <1>1, <1>2, <1>3

LEMMA OldEffect ==
  ASSUME TypeInv, Kept, Grows, NEW e \in done, EffectOK(e)
  PROVE  EffectOK(e)'
<1>1. e.loan \in LoanIds
  BY LedgerParts
<1>2. e.key \in Made /\ e.key \in Keys /\ approval'[e.key] = approval[e.key]
  BY DEF EffectOK, Kept, Made
<1>3. (e.key \in Made)'
  BY <1>2 DEF Made
<1>4. /\ loans'[e.loan].state # "unused" /\ (loans[e.loan].state = "closed" => loans'[e.loan].state = "closed")
      /\ loans'[e.loan].patron = loans[e.loan].patron /\ loans'[e.loan].holding = loans[e.loan].holding
  BY <1>1 DEF EffectOK, Grows
<1>5. e.key \notin disturbed' => e.key \notin disturbed
  BY DEF Kept
<1> QED BY <1>2, <1>3, <1>4, <1>5 DEF EffectOK, Used, OpOf

LEMMA OldFulfil ==
  ASSUME TypeInv, EffectsOK, Kept, Grows, done \subseteq done', NEW f \in fulfils, FulfilOK(f)
  PROVE  FulfilOK(f)'
<1>1. f[2] \in LoanIds
  BY LedgerParts DEF Fulfils
<1>2. loans'[f[2]].state # "unused"
  BY <1>1 DEF FulfilOK, Grows
<1>3. ASSUME f[1] = "ISSUE" PROVE approval'[f[3]] = approval[f[3]]
  <2>1. PICK e \in done : e.key = f[3]
    BY <1>3 DEF FulfilOK
  <2>2. e.key \in Made
    BY DEF EffectsOK, EffectOK
  <2> QED BY <2>1, <2>2 DEF Kept
<1>4. f[3] \notin disturbed' => f[3] \notin disturbed
  BY DEF Kept
<1> QED BY <1>2, <1>3, <1>4 DEF FulfilOK, Used

\* A step that records nothing and inserts nothing.
LEMMA NothingRecorded ==
  ASSUME TypeInv, LedgerInv, Kept, Grows, UNCHANGED <<done, fulfils>>
  PROVE  LedgerInv'
<1>1. EffectsOK' /\ FulfilsOK'
  BY OldEffect, OldFulfil DEF LedgerInv, EffectsOK, FulfilsOK
<1>2. OneDone' /\ OnePickup'
  BY DEF LedgerInv, OneDone, OnePickup, Kept
<1> QED BY <1>1, <1>2 DEF LedgerInv

\* A step that records the effect e.
LEMMA OneRecorded ==
  ASSUME TypeInv, LedgerInv, Kept, Grows,
         NEW e, done' = done \cup {e}, EffectOK(e)',
         e.key \notin disturbed => \A f \in done : f.key = e.key => f = e
  PROVE  EffectsOK' /\ OneDone' /\ \A f \in fulfils : FulfilOK(f)'
<1>1. EffectsOK'
  <2>1. \A f \in done : EffectOK(f)'
    BY OldEffect DEF LedgerInv, EffectsOK
  <2> QED BY <2>1 DEF EffectsOK
<1>2. OneDone'
  BY DEF LedgerInv, OneDone, Kept
<1>3. \A f \in fulfils : FulfilOK(f)'
  BY OldFulfil DEF LedgerInv, FulfilsOK
<1> QED BY <1>1, <1>2, <1>3

LEMMA LedgerStays ==
  ASSUME TypeInv, LedgerInv, Kept, UNCHANGED ledger
  PROVE  LedgerInv' /\ Grows /\ done' = done /\ fulfils' = fulfils /\ loans' = loans
<1>1. done' = done /\ fulfils' = fulfils /\ loans' = loans
  BY DEF ledger
<1>2. Grows
  BY <1>1, LoansGrow, LedgerParts
<1> QED BY <1>1, <1>2, NothingRecorded

\* The threads and the fulfilments they hold, when the thread r moves to q.
LEMMA HeldStep ==
  ASSUME TypeInv, Held, Kept, fulfils \subseteq fulfils', done \subseteq done',
         NEW r \in Requests, NEW q, request' = [request EXCEPT ![r] = q], q.fulfil \in Maybe(fulfils'),
         q.at = "checkout" => approval'[q.key].kind = "COMMIT_ISSUE",
         q.at \in {"deliver", "insert"} =>
           /\ approval'[q.key].kind = "COMMIT_ISSUE" /\ q.seen.mode = "DELIVERY"
           /\ \E e \in done' : e.op = "checkout" /\ e.key = q.key /\ e.loan = q.loan,
         \A s \in Sessions : slots'[s].fulfil \in {slots[s].fulfil} \cup Maybe(fulfils')
  PROVE  Held'
<1>1. request'[r] = q /\ \A x \in Requests : x # r => request'[x] = request[x]
  BY Moved
<1>2. ASSUME NEW x \in Requests, x # r PROVE ThreadKeeps(request[x])'
  <2>1. request[x].at \in {"checkout", "deliver", "insert"} => approval'[request[x].key] = approval[request[x].key]
    BY DEF TypeInv, ThreadsOK, WriteSteps, Kept
  <2> QED BY <2>1, <1>1, <1>2 DEF Held, ThreadKeeps, Maybe
<1>3. \A x \in Requests : ThreadKeeps(request[x])'
  BY <1>1, <1>2 DEF ThreadKeeps
<1>4. \A s \in Sessions : slots'[s].fulfil \in Maybe(fulfils')
  BY DEF Held, Maybe
<1> QED BY <1>3, <1>4 DEF Held

-----------------------------------------------------------------------------
(* Messages *)

LEMMA ReceiveApproval ==
  ASSUME ApprovalInv, TypeInv', NEW r \in Requests, NEW s \in Sessions, NEW t \in Said, Receive(r, s, t)
  PROVE  ApprovalInv'
<1>1. /\ UNCHANGED <<ledger, slots, pending, approval>> /\ disturbed \subseteq disturbed'
      /\ slots' = slots /\ pending' = pending /\ approval' = approval
  BY DEF Receive
<1>2. Kept
  BY <1>1 DEF Kept
<1>3. LedgerInv' /\ Grows /\ done' = done /\ fulfils' = fulfils /\ loans' = loans
  BY <1>1, <1>2, LedgerStays DEF ApprovalInv
<1>4. CASE UNCHANGED <<request, disturbed>>
  <2>1. CalmAlone' /\ OneSession' /\ Cards' /\ Held'
    <3>1. CalmAlone' /\ OneSession'
      BY <1>1, <1>3, <1>4 DEF ApprovalInv, CalmAlone, Calm, OneSession, Reads, Live, Resumes
    <3>2. Cards'
      BY <1>1, <1>3, <1>4 DEF ApprovalInv, Calm, Live, Resumes, Cards, Card, Selections
    <3>3. Held'
      BY <1>1, <1>3, <1>4 DEF ApprovalInv, Held, ThreadKeeps, Maybe
    <3> QED BY <3>1, <3>2, <3>3
  <2> QED BY <1>3, <2>1 DEF ApprovalInv
<1>5. CASE ~UNCHANGED <<request, disturbed>>
  <2>1. PICK i : request' = [request EXCEPT ![r] = [@ EXCEPT !.session = s, !.at = "apply", !.intent = i]]
    BY <1>5 DEF Receive
  <2> DEFINE q == [request[r] EXCEPT !.session = s, !.at = "apply", !.intent = i]
  <2>2. request[r] \in Request /\ request[r].fulfil \in Maybe(fulfils)
    BY DEF ApprovalInv, TypeInv, ThreadsOK, Held, ThreadKeeps
  <2>3. q.at = "apply" /\ q.session = s /\ q.fulfil \in Maybe(fulfils)
    BY <2>2 DEF Request
  <2>4. request' = [request EXCEPT ![r] = q]
    BY <2>1
  <2> HIDE DEF q
  <2>5. pending[s] = None /\ disturbed' = disturbed \cup RunningKeys(s)
    BY <1>5 DEF Receive
  <2>6. \A k \in Keys : Live(s, k) => k \in disturbed'
    <3>1. ASSUME NEW k \in Keys, Live(s, k) PROVE k \in RunningKeys(s)
      <4>1. PICK x \in Requests : request[x].session = s /\ request[x].key = k
        BY <2>5, <3>1, AgentNoneAssumption DEF Live
      <4> QED BY <4>1, AgentNoneAssumption DEF RunningKeys
    <3> QED BY <2>5, <3>1
  <2>7. CalmAlone' /\ OneSession' /\ Cards'
    BY <1>1, <1>2, <1>3, <2>3, <2>4, <2>6, SlotsFollow, ThreadStep DEF ApprovalInv, WriteSteps, Remembers
  <2>8. Held'
    <3>1. q.fulfil \in Maybe(fulfils') /\ q.at \notin {"checkout", "deliver", "insert"}
      BY <1>3, <2>3
    <3> QED BY <1>1, <1>2, <1>3, <2>4, <3>1, HeldStep DEF ApprovalInv
  <2> QED BY <1>3, <2>7, <2>8 DEF ApprovalInv
<1> QED BY <1>4, <1>5

\* A step of a message keeps the invariant.
LEMMA TurnApproval ==
  ASSUME ApprovalInv, TypeInv', NEW r \in Requests, NEW out, Outcome(request[r].intent, out), Turn(r, out),
         Shows(SlotsOf(r), out), Reads(r)
  PROVE  ApprovalInv'
<1> DEFINE s == request[r].session
           q == IF out.at = "idle" THEN NoRequest ELSE [request[r] EXCEPT !.at = out.at]
<1>1. /\ TypeInv /\ CalmAlone /\ OneSession /\ Cards /\ LedgerInv /\ Held /\ EffectsOK
      /\ request[r] \in Request /\ s \in Sessions /\ request[r].fulfil \in Maybe(fulfils)
  BY DEF ApprovalInv, LedgerInv, TypeInv, ThreadsOK, ThreadOK, Reads, Held, ThreadKeeps
<1>2. UNCHANGED ledger /\ slots' = [slots EXCEPT ![s] = out.slots] /\ request' = [request EXCEPT ![r] = q]
  BY DEF Turn
<1>3. slots'[s] = out.slots /\ \A t \in Sessions : t # s => slots'[t] = slots[t]
  BY <1>1, <1>2 DEF TypeInv, SessionsOK
<1>4. /\ q.at \notin WriteSteps /\ (q.at # "idle" => q.session = s) /\ q.fulfil \in Maybe(fulfils)
      /\ q.at \notin {"checkout", "deliver", "insert", "executed"}
  <2>1. CASE out.at = "idle"
    BY <2>1 DEF NoRequest, WriteSteps, Maybe
  <2>2. CASE out.at # "idle"
    <3>1. q.at = out.at /\ q.session = s /\ q.fulfil = request[r].fulfil
      BY <1>1, <2>2 DEF Request
    <3> HIDE DEF q
    <3>2. out.at \notin WriteSteps
      BY DEF Outcome, TurnSteps, ReadTools, WriteSteps
    <3> QED BY <1>1, <3>1, <3>2 DEF WriteSteps
  <2> QED BY <2>1, <2>2
<1> HIDE DEF q
<1>5. \A k \in Keys : ~Calm(s, k)
  BY <1>1 DEF CalmAlone
<1>6. CalmAlone' /\ OneSession' /\ Cards' /\ Kept
  <2>1. CASE out.ask = NoApproval
    <3>1. UNCHANGED <<approval, pending, disturbed>> /\ done' = done
      BY <1>2, <2>1 DEF Turn, ledger
    <3>2. Kept
      BY <3>1 DEF Kept
    <3>3. \A t \in Sessions, k \in Keys : Calm(t, k) => Follows(t, k, slots'[t])
      BY <1>3, <1>5, SlotsFollow
    <3>4. q.at \notin {"idle"} \cup WriteSteps => \A k \in Keys : Live(q.session, k) => k \in disturbed'
      BY <1>4, <1>5, <3>1 DEF Calm
    <3>5. \A t : ~Remembers(q, t)
      BY <1>4 DEF Remembers
    <3> QED BY <1>1, <1>2, <1>4, <3>1, <3>2, <3>3, <3>4, <3>5, ThreadStep
  <2>2. CASE out.ask # NoApproval
    <3>1. PICK k \in KeysLeft :
             /\ approval' = [approval EXCEPT ![k] = out.ask] /\ pending' = [pending EXCEPT ![s] = k]
             /\ disturbed' = IF Others(r, s) = {} THEN disturbed ELSE disturbed \cup {k}
      BY <2>2 DEF Turn
    <3>2. q = NoRequest /\ out.slots \in Slots
      BY <2>2 DEF Outcome, q
    <3>3. out.ask.patron = out.slots.patron /\ out.ask.holding = out.slots.holding /\ out.ask.mode = out.slots.mode
      BY <2>2 DEF Shows
    <3>4. done' = done
      BY <1>2 DEF ledger
    <3> QED BY <1>1, <1>2, <2>2, <3>1, <3>2, <3>3, <3>4, AskStep
  <2> QED BY <2>1, <2>2
<1>7. LedgerInv' /\ done' = done /\ fulfils' = fulfils /\ loans' = loans
  BY <1>1, <1>2, <1>6, LedgerStays
<1>8. Held'
  <2>1. out.slots.fulfil \in {None, slots[s].fulfil} \cup fulfils
    BY DEF Shows, SlotsOf
  <2>2. \A t \in Sessions : slots'[t].fulfil \in {slots[t].fulfil} \cup Maybe(fulfils')
    BY <1>3, <1>7, <2>1 DEF Maybe
  <2>3. q.fulfil \in Maybe(fulfils') /\ q.at \notin {"checkout", "deliver", "insert"}
    BY <1>4, <1>7
  <2> QED BY <1>1, <1>2, <1>6, <1>7, <2>2, <2>3, HeldStep
<1> QED BY <1>6, <1>7, <1>8 DEF ApprovalInv
LEMMA ReadToolApproval ==
  ASSUME ApprovalInv, TypeInv', NEW r \in Requests, ReadTool(r)
  PROVE  ApprovalInv'
<1> DEFINE i  == request[r].intent
           sl == SlotsOf(r)
<1>0. TypeInv /\ loans \in [LoanIds -> LoanRow]
  BY LedgerParts DEF ApprovalInv
<1>t. ASSUME NEW tool \in ReadTools \ {"refresh"}, Calls(r, tool), NEW out, Turn(r, out), Outcome(i, out), Shows(sl, out)
      PROVE  ApprovalInv'
  <2>1. Reads(r)
    BY <1>t DEF Calls, Reads, ReadTools, WriteSteps
  <2> QED BY <1>t, <2>1, TurnApproval
<1>i. ASSUME NEW tool \in ReadTools \ {"refresh"}, Calls(r, tool)
      PROVE  i \in Intent /\ sl \in Slots /\ (tool = "resolveId" => i.who # {})
  BY <1>0, <1>i, CallsType DEF ReadTools, ThreadOK
<1>1. CASE ResolveTool(r)
  BY <1>1, <1>t, <1>i, ResolveOutcome, PatronToolsShow DEF ResolveTool, IntentOf, ReadTools
<1>2. CASE SearchPatronsTool(r)
  BY <1>2, <1>t, <1>i, SearchPatronsOutcome, PatronToolsShow DEF SearchPatronsTool, IntentOf, ReadTools
<1>3. CASE ResolveIdTool(r)
  BY <1>3, <1>t, <1>i, ResolveIdOutcome, PatronToolsShow DEF ResolveIdTool, IntentOf, ReadTools
<1>4. CASE SelectPatronTool(r)
  BY <1>4, <1>t, <1>i, SelectPatronSlots, DoneOutcome, CopyToolsShow DEF SelectPatronTool, IntentOf, ReadTools
<1>5. CASE ListLoansTool(r)
  <2>1. PICK first \in AnyOf(ListedLoans(i, sl)) : Calls(r, "listLoans") /\ Turn(r, ListLoans(i, sl, first))
    BY <1>5 DEF ListLoansTool, IntentOf
  <2>2. Outcome(i, ListLoans(i, sl, first)) /\ Shows(sl, ListLoans(i, sl, first))
    BY <1>0, <1>i, <2>1, ListLoansOutcome, LoanToolsShow DEF ReadTools
  <2> QED BY <1>t, <2>1, <2>2 DEF ReadTools
<1>6. CASE LookupTool(r)
  BY <1>0, <1>6, <1>t, <1>i, LookupOutcome, LoanToolsShow DEF LookupTool, IntentOf, ReadTools
<1>7. CASE SearchReturnTool(r)
  BY <1>0, <1>7, <1>t, <1>i, SearchReturnSlots, DoneOutcome, LoanToolsShow DEF SearchReturnTool, IntentOf, ReadTools
<1>8. CASE SelectLoanTool(r)
  BY <1>0, <1>8, <1>t, <1>i, AskingOutcome, LoanToolsShow, LedgerParts DEF SelectLoanTool, IntentOf, ReadTools
<1>9. CASE SearchCatalogTool(r)
  BY <1>9, <1>t, <1>i, SearchCatalogSlots, DoneOutcome, CopyToolsShow DEF SearchCatalogTool, IntentOf, ReadTools
<1>10. CASE SelectCopyTool(r)
  BY <1>10, <1>t, <1>i, SelectCopySlots, DoneOutcome, CopyToolsShow DEF SelectCopyTool, IntentOf, ReadTools
<1>11. CASE SelectBarcodeTool(r)
  BY <1>11, <1>t, <1>i, SelectBarcodeSlots, DoneOutcome, CopyToolsShow DEF SelectBarcodeTool, IntentOf, ReadTools
<1>12. CASE SearchLendableTool(r)
  BY <1>12, <1>t, <1>i, SearchLendableOutcome, CopyToolsShow DEF SearchLendableTool, IntentOf, ReadTools
<1>13. CASE ValidateTool(r)
  BY <1>0, <1>13, <1>t, <1>i, AskingOutcome, CopyToolsShow, LedgerParts DEF ValidateTool, IntentOf, ReadTools
<1>14. CASE FulfilStatusTool(r)
  <2>1. PICK f \in AnyOf(IssueFulfils(sl.loan)) : Turn(r, FulfilStatus(sl, f))
    BY <1>14 DEF FulfilStatusTool
  <2>2. f \in Maybe(fulfils) /\ f \in Maybe(Fulfils)
    BY <1>0, LedgerParts DEF AnyOf, IssueFulfils, Maybe
  <2>3. Calls(r, "fulfilStatus")
    BY <1>14 DEF FulfilStatusTool
  <2>4. Outcome(i, FulfilStatus(sl, f)) /\ Shows(sl, FulfilStatus(sl, f))
    BY <1>0, <1>i, <2>2, <2>3, AskingOutcome, CopyToolsShow DEF ReadTools
  <2> QED BY <1>t, <2>1, <2>3, <2>4 DEF ReadTools
<1> QED BY <1>1, <1>2, <1>3, <1>4, <1>5, <1>6, <1>7, <1>8, <1>9, <1>10, <1>11, <1>12, <1>13, <1>14 DEF ReadTool

LEMMA ApplyApproval ==
  ASSUME ApprovalInv, TypeInv', NEW r \in Requests, Apply(r)
  PROVE  ApprovalInv'
<1> DEFINE i  == request[r].intent
           sl == IF i.mode = "unsaid" THEN SlotsOf(r) ELSE [SlotsOf(r) EXCEPT !.mode = i.mode]
<1>1. /\ request[r].at = "apply" /\ request[r] \in Request /\ request[r].session \in Sessions
  BY DEF Apply, ApprovalInv, TypeInv, ThreadsOK, ThreadOK
<1>2. i \in Intent /\ SlotsOf(r) \in Slots
  BY <1>1 DEF Request, SlotsOf, ApprovalInv, TypeInv, SessionsOK
<1>3. sl \in Slots /\ sl.fulfil = SlotsOf(r).fulfil
  <2>1. sl \in Slots
    BY <1>2, FieldSlots DEF Intent
  <2>2. sl.fulfil = SlotsOf(r).fulfil
    BY <1>2 DEF Slots
  <2> QED BY <2>1, <2>2
<1>4. Outcome(i, Done(SlotsOf(r))) /\ Outcome(i, Handled(i, sl))
  BY <1>2, <1>3, DoneOutcome, HandledOutcome
<1>5. Turn(r, Done(SlotsOf(r))) \/ Turn(r, Handled(i, sl))
  BY DEF Apply
<1>6. Reads(r)
  BY <1>1 DEF Reads, WriteSteps
<1> HIDE DEF sl
<1>7. Shows(SlotsOf(r), Done(SlotsOf(r))) /\ Shows(SlotsOf(r), Handled(i, sl))
  BY <1>2, <1>3, GoShows, HandledShows DEF Shows
<1> QED BY <1>4, <1>5, <1>6, <1>7, TurnApproval

\* A thread that ends without an answer.
LEMMA Ended ==
  ASSUME ApprovalInv, TypeInv', NEW r \in Requests, request' = [request EXCEPT ![r] = NoRequest],
         UNCHANGED <<ledger, slots, pending, asked>>
  PROVE  ApprovalInv'
<1>1. Kept /\ slots' = slots /\ pending' = pending
  BY DEF Kept, asked
<1>2. LedgerInv' /\ done' = done /\ fulfils' = fulfils
  BY <1>1, LedgerStays DEF ApprovalInv
<1>3. NoRequest.at = "idle" /\ NoRequest.fulfil = None /\ \A s : ~Remembers(NoRequest, s)
  BY DEF NoRequest, Remembers
<1>4. CalmAlone' /\ OneSession' /\ Cards'
  BY <1>1, <1>2, <1>3, ThreadStep, SlotsFollow DEF ApprovalInv, WriteSteps
<1>5. Held'
  BY <1>1, <1>2, <1>3, HeldStep DEF ApprovalInv, Maybe
<1> QED BY <1>2, <1>4, <1>5 DEF ApprovalInv

-----------------------------------------------------------------------------
(* Approvals *)

LEMMA ApproveApproval ==
  ASSUME ApprovalInv, TypeInv', NEW r \in Requests, NEW s \in Sessions, Approve(r, s)
  PROVE  ApprovalInv'
<1> DEFINE q == [request[r] EXCEPT !.session = s, !.at = "execute", !.key = pending[s]]
<1>1. /\ UNCHANGED <<ledger, slots, pending, approval, disturbed>> /\ request' = [request EXCEPT ![r] = q]
      /\ slots' = slots /\ pending' = pending
  BY DEF Approve
<1>2. Kept
  BY <1>1 DEF Kept
<1>3. LedgerInv' /\ done' = done /\ fulfils' = fulfils
  BY <1>1, <1>2, LedgerStays DEF ApprovalInv
<1>4. /\ q.at = "execute" /\ q.session = s /\ q.key = pending[s] /\ pending[s] # None
      /\ q.fulfil = request[r].fulfil
  BY DEF Approve, ApprovalInv, TypeInv, ThreadsOK, Request
<1> HIDE DEF q
<1>5. q.fulfil \in Maybe(fulfils)
  BY <1>4 DEF ApprovalInv, Held, ThreadKeeps
<1>6. CalmAlone' /\ OneSession' /\ Cards'
  BY <1>1, <1>2, <1>3, <1>4, ThreadStep, SlotsFollow DEF ApprovalInv, WriteSteps, Live, Remembers
<1>7. Held'
  BY <1>1, <1>2, <1>3, <1>4, <1>5, HeldStep DEF ApprovalInv
<1> QED BY <1>3, <1>6, <1>7 DEF ApprovalInv

LEMMA DenyApproval ==
  ASSUME ApprovalInv, TypeInv', NEW s \in Sessions, Deny(s)
  PROVE  ApprovalInv'
<1>1. /\ UNCHANGED <<ledger, slots, asked, request>> /\ pending' = [pending EXCEPT ![s] = None]
      /\ slots' = slots /\ request' = request /\ approval' = approval /\ disturbed' = disturbed
  BY DEF Deny, asked
<1>2. Kept
  BY <1>1 DEF Kept
<1>3. LedgerInv' /\ done' = done /\ fulfils' = fulfils
  BY <1>1, <1>2, LedgerStays DEF ApprovalInv
<1>4. \A t \in Sessions : pending'[t] \in {None, pending[t]}
  BY <1>1 DEF ApprovalInv, TypeInv, AskedOK
<1>5. \A t \in Sessions, k \in Keys : Live(t, k)' => Live(t, k)
  BY <1>1, <1>4 DEF Live, Resumes
<1>6. \A t \in Sessions : Selections(t)' = Selections(t)
  BY <1>1 DEF Selections
<1>7. OneSession' /\ Cards'
  BY <1>1, <1>2, <1>3, <1>5, <1>6, SlotsFollow, CardsStep DEF ApprovalInv
<1>8. CalmAlone'
  BY <1>1, <1>5 DEF ApprovalInv, CalmAlone, Calm, Reads
<1>9. Held'
  BY <1>1, <1>3 DEF ApprovalInv, Held, ThreadKeeps, Maybe
<1> QED BY <1>3, <1>7, <1>8, <1>9 DEF ApprovalInv

\* A thread that executes an approval goes on to its next transaction, or to the update
\* of the slots.
LEMMA WriteApproval ==
  ASSUME ApprovalInv, TypeInv', NEW r \in Requests, Resumes(r),
         NEW q, request' = [request EXCEPT ![r] = q], UNCHANGED <<slots, pending, asked>>,
         q.at \in {"checkout", "deliver", "insert", "executed"},
         q.session = request[r].session, q.key = request[r].key,
         q.seen \in Selections(request[r].session), q.fulfil \in Maybe(fulfils'),
         q.at # "executed" => approval[q.key].kind = "COMMIT_ISSUE",
         q.at \in {"deliver", "insert"} =>
           /\ q.seen.mode = "DELIVERY"
           /\ \E e \in done' : e.op = "checkout" /\ e.key = q.key /\ e.loan = q.loan,
         LedgerInv', fulfils \subseteq fulfils', done \subseteq done',
         \A e \in done' : \/ e \in done
                          \/ /\ e.key = request[r].key
                             /\ e.key \notin disturbed => Fits(request[r].session, e.key, e)
  PROVE  ApprovalInv'
<1> DEFINE s == request[r].session
           k == request[r].key
<1>1. Kept /\ slots' = slots /\ pending' = pending /\ approval' = approval /\ disturbed' = disturbed
  BY DEF Kept, asked
<1>2. s \in Sessions /\ k \in Keys /\ Live(s, k)
  BY DEF ApprovalInv, TypeInv, ThreadsOK, ThreadOK, WriteSteps, Resumes, Live
<1>3. \A t : Remembers(q, t) => q.seen \in Selections(t)
  BY DEF Remembers
<1>4. ASSUME NEW t \in Sessions, NEW m \in Keys, Calm(t, m)
      PROVE  /\ Follows(t, m, slots'[t])
             /\ \A e \in done' : e.key = m => e \in done \/ (Fits(t, m, e) /\ slots'[t] = slots[t])
  <2>1. Follows(t, m, slots'[t])
    BY <1>1, SlotsFollow
  <2>2. ASSUME NEW e \in done', e.key = m, e \notin done PROVE Fits(t, m, e)
    <3>1. m = k /\ t = s
      BY <1>2, <1>4, <2>2 DEF ApprovalInv, OneSession, Calm
    <3> QED BY <1>4, <2>2, <3>1 DEF Calm
  <2> QED BY <1>1, <2>1, <2>2
<1>5. CalmAlone' /\ OneSession' /\ Cards'
  <2>1. q.at \in WriteSteps /\ q.at # "idle"
    BY DEF WriteSteps
  <2> QED BY <1>1, <1>2, <1>3, <1>4, <2>1, ThreadStep DEF ApprovalInv
<1>6. Held'
  <2>1. \A t \in Sessions : slots'[t].fulfil \in {slots[t].fulfil} \cup Maybe(fulfils')
    BY <1>1
  <2> QED BY <1>1, <2>1, HeldStep DEF ApprovalInv
<1> QED BY <1>5, <1>6 DEF ApprovalInv

\* What a thread that resumes has in hand.
LEMMA InHand ==
  ASSUME ApprovalInv, NEW r \in Requests, Resumes(r)
  PROVE  /\ request[r] \in Request /\ request[r].key \in Made /\ request[r].key \in Keys
         /\ request[r].session \in Sessions /\ request[r].fulfil \in Maybe(fulfils)
         /\ SlotsOf(r) = slots[request[r].session] /\ SlotsOf(r) \in Slots
         /\ SlotsOf(r) \in Selections(request[r].session)
         /\ request[r].key \notin disturbed => Card(request[r].session, request[r].key)
         /\ \A f \in done : f.key = request[r].key => EffectOK(f) /\ f.op = OpOf(approval[request[r].key].kind)
<1>1. /\ request[r].key \in Keys /\ request[r].key \in Made /\ request[r].session \in Sessions
      /\ request[r] \in Request /\ request[r].fulfil \in Maybe(fulfils)
  BY DEF ApprovalInv, TypeInv, ThreadsOK, ThreadOK, WriteSteps, Resumes, Held, ThreadKeeps
<1>2. SlotsOf(r) = slots[request[r].session] /\ SlotsOf(r) \in Slots /\ SlotsOf(r) \in Selections(request[r].session)
  BY <1>1, SelectionsAre DEF SlotsOf, ApprovalInv, TypeInv, SessionsOK
<1>3. request[r].key \notin disturbed => Card(request[r].session, request[r].key)
  BY <1>1 DEF ApprovalInv, Cards, Calm, Live
<1>4. \A f \in done : f.key = request[r].key => EffectOK(f) /\ f.op = OpOf(approval[request[r].key].kind)
  BY DEF ApprovalInv, LedgerInv, EffectsOK, EffectOK
<1> QED BY <1>1, <1>2, <1>3, <1>4

LEMMA Executing ==
  ASSUME NEW r \in Requests, NEW kind, Executes(r, kind)
  PROVE  request[r].at = "execute" /\ Resumes(r) /\ approval[request[r].key].kind = kind
BY DEF Executes, Calls, Resumes, WriteSteps

LEMMA RanIs ==
  ASSUME ApprovalInv, NEW r \in Requests, Resumes(r), NEW result, NEW l, Ran(r, result, l)
  PROVE  \E q : /\ request' = [request EXCEPT ![r] = q] /\ q.at = "executed"
                /\ q.session = request[r].session /\ q.key = request[r].key
                /\ q.seen = SlotsOf(r) /\ q.fulfil = request[r].fulfil
<1> DEFINE q == [request[r] EXCEPT !.at = "executed", !.result = result, !.loan = l, !.seen = SlotsOf(r)]
<1>1. request' = [request EXCEPT ![r] = q]
  BY DEF Ran
<1>2. /\ q.at = "executed" /\ q.session = request[r].session /\ q.key = request[r].key
      /\ q.seen = SlotsOf(r) /\ q.fulfil = request[r].fulfil
  BY InHand DEF Request
<1> QED BY <1>1, <1>2

LEMMA RanNothing ==
  ASSUME ApprovalInv, TypeInv', NEW r \in Requests, Resumes(r),
         UNCHANGED <<slots, pending, asked>>, UNCHANGED ledger, NEW result, NEW l, Ran(r, result, l)
  PROVE  ApprovalInv'
<1>1. PICK q : /\ request' = [request EXCEPT ![r] = q] /\ q.at = "executed"
               /\ q.session = request[r].session /\ q.key = request[r].key
               /\ q.seen = SlotsOf(r) /\ q.fulfil = request[r].fulfil
  BY RanIs
<1>2. Kept
  BY DEF Kept, asked
<1>3. LedgerInv' /\ done' = done /\ fulfils' = fulfils
  BY <1>2, LedgerStays DEF ApprovalInv
<1>4. q.seen \in Selections(request[r].session) /\ q.fulfil \in Maybe(fulfils')
  BY <1>1, <1>3, InHand
<1> QED BY <1>1, <1>3, <1>4, WriteApproval

\* A tool that has one transaction records the effect e.
LEMMA RanRecord ==
  ASSUME ApprovalInv, TypeInv', NEW r \in Requests, Resumes(r),
         UNCHANGED <<slots, pending, asked>>, Grows, UNCHANGED fulfils,
         NEW e, e.key = request[r].key, done' = done \cup {e}, EffectOK(e)',
         e.key \notin disturbed =>
           (\A f \in done : f.key = e.key => f = e) /\ Fits(request[r].session, e.key, e),
         NEW l, Ran(r, "ok", l)
  PROVE  ApprovalInv'
<1>1. PICK q : /\ request' = [request EXCEPT ![r] = q] /\ q.at = "executed"
               /\ q.session = request[r].session /\ q.key = request[r].key
               /\ q.seen = SlotsOf(r) /\ q.fulfil = request[r].fulfil
  BY RanIs
<1>2. Kept /\ disturbed' = disturbed
  BY DEF Kept, asked
<1>3. EffectsOK' /\ OneDone' /\ \A f \in fulfils : FulfilOK(f)'
  BY <1>2, OneRecorded DEF ApprovalInv
<1>4. LedgerInv'
  BY <1>2, <1>3 DEF ApprovalInv, LedgerInv, FulfilsOK, OnePickup
<1>5. q.seen \in Selections(request[r].session) /\ q.fulfil \in Maybe(fulfils')
  BY <1>1, InHand
<1> QED BY <1>1, <1>4, <1>5, WriteApproval

-----------------------------------------------------------------------------
(* The transactions of an issue *)

LEMMA CommitIssueApproval ==
  ASSUME ApprovalInv, TypeInv', NEW r \in Requests, CommitIssue(r)
  PROVE  ApprovalInv'
<1>1. Resumes(r) /\ approval[request[r].key].kind = "COMMIT_ISSUE" /\ UNCHANGED ledger /\ UNCHANGED <<slots, pending, asked>>
  BY Executing DEF CommitIssue
<1>2. CASE Ran(r, "none", None)
  BY <1>1, <1>2, RanNothing
<1>3. CASE ~Ran(r, "none", None)
  <2>1. PICK b : request' = [request EXCEPT ![r] = [@ EXCEPT !.at = "checkout", !.cached = b, !.seen = SlotsOf(r)]]
    BY <1>3 DEF CommitIssue
  <2> DEFINE q == [request[r] EXCEPT !.at = "checkout", !.cached = b, !.seen = SlotsOf(r)]
  <2>2. /\ q.at = "checkout" /\ q.session = request[r].session /\ q.key = request[r].key
        /\ q.seen = SlotsOf(r) /\ q.fulfil = request[r].fulfil
    BY <1>1, InHand DEF Request
  <2>3. request' = [request EXCEPT ![r] = q]
    BY <2>1
  <2> HIDE DEF q
  <2>4. LedgerInv' /\ done' = done /\ fulfils' = fulfils
    <3>1. Kept
      BY <1>1 DEF Kept, asked
    <3> QED BY <1>1, <3>1, LedgerStays DEF ApprovalInv
  <2>5. q.seen \in Selections(request[r].session) /\ q.fulfil \in Maybe(fulfils')
    BY <1>1, <2>2, <2>4, InHand
  <2> QED BY <1>1, <2>2, <2>3, <2>4, <2>5, WriteApproval
<1> QED BY <1>2, <1>3

\* What a thread holds that is about to check out.
LEMMA AtCheckout ==
  ASSUME ApprovalInv, NEW r \in Requests, request[r].at \in {"checkout", "deliver", "insert"}
  PROVE  /\ Resumes(r) /\ approval[request[r].key].kind = "COMMIT_ISSUE"
         /\ request[r].seen \in Selections(request[r].session)
         /\ request[r].key \notin disturbed => AsOnCard(approval[request[r].key], request[r].seen)
         /\ request[r].at = "checkout" => HasPatronAndHolding(request[r].seen)
<1>1. Resumes(r) /\ approval[request[r].key].kind = "COMMIT_ISSUE"
  BY DEF Resumes, WriteSteps, ApprovalInv, Held, ThreadKeeps
<1>2. request[r].seen \in Selections(request[r].session)
  BY SelectionsAre DEF Remembers
<1>3. request[r].key \notin disturbed => AsOnCard(approval[request[r].key], request[r].seen)
  BY <1>1, <1>2, InHand DEF Card
<1>4. request[r].at = "checkout" => HasPatronAndHolding(request[r].seen)
  BY DEF ApprovalInv, TypeInv, ThreadsOK, ThreadOK
<1> QED BY <1>1, <1>2, <1>3, <1>4

\* After the checkout the thread knows the loan that was recorded.
LEMMA CheckedOutApproval ==
  ASSUME ApprovalInv, TypeInv', NEW r \in Requests, request[r].at = "checkout",
         UNCHANGED <<slots, pending, asked>>, UNCHANGED fulfils, LedgerInv', NEW l, CheckedOut(r, l),
         NEW e, done' = done \cup {e}, e.op = "checkout", e.key = request[r].key, e.loan = l
  PROVE  ApprovalInv'
<1> DEFINE at == IF request[r].seen.mode = "DELIVERY" THEN "deliver" ELSE "executed"
           q  == [request[r] EXCEPT !.loan = l, !.result = "ok", !.at = at]
<1>1. /\ Resumes(r) /\ approval[request[r].key].kind = "COMMIT_ISSUE"
      /\ request[r].seen \in Selections(request[r].session)
  BY AtCheckout
<1>2. request[r] \in Request /\ request[r].fulfil \in Maybe(fulfils)
  BY <1>1, InHand
<1>3. request' = [request EXCEPT ![r] = q]
  BY <1>2 DEF CheckedOut, ApprovalInv, TypeInv, ThreadsOK, Request
<1>4. /\ q.at = at /\ q.session = request[r].session /\ q.key = request[r].key
      /\ q.seen = request[r].seen /\ q.fulfil = request[r].fulfil /\ q.loan = l
  BY <1>2 DEF Request
<1>5. at \in {"deliver", "executed"} /\ (at = "deliver" => request[r].seen.mode = "DELIVERY")
  OBVIOUS
<1> HIDE DEF q, at
<1>6. Fits(request[r].session, e.key, e)
  BY <1>1 DEF Fits, LoanKinds
<1> QED BY <1>1, <1>2, <1>3, <1>4, <1>5, <1>6, WriteApproval

LEMMA CheckoutApproval ==
  ASSUME ApprovalInv, TypeInv', NEW r \in Requests, Checkout(r)
  PROVE  ApprovalInv'
<1> DEFINE sl == request[r].seen
           k  == request[r].key
           a  == approval[k]
           prior == Prior(r, "checkout", sl.holding)
<1>1. /\ request[r].at = "checkout" /\ Resumes(r) /\ a.kind = "COMMIT_ISSUE" /\ HasPatronAndHolding(sl)
      /\ k \notin disturbed => AsOnCard(a, sl)
  BY AtCheckout DEF Checkout
<1>2. /\ k \in Made /\ k \in Keys /\ TypeInv
      /\ \A f \in done : f.key = k => EffectOK(f) /\ f.op = "checkout"
  BY <1>1, InHand DEF OpOf, ApprovalInv
<1>3. UNCHANGED <<slots, pending, asked>> /\ Kept /\ approval' = approval /\ disturbed' = disturbed
  BY DEF Checkout, Kept, asked
<1>4. CASE UNCHANGED ledger /\ \E e \in prior : CheckedOut(r, e.loan)
  <2>1. PICK e \in done : e.key = k /\ e.op = "checkout" /\ CheckedOut(r, e.loan)
    BY <1>4 DEF Prior
  <2>2. LedgerInv' /\ done' = done /\ fulfils' = fulfils
    BY <1>3, <1>4, LedgerStays DEF ApprovalInv
  <2>3. done' = done \cup {e}
    BY <2>1, <2>2
  <2> QED BY <1>1, <1>3, <2>1, <2>2, <2>3, CheckedOutApproval
<1>5. CASE /\ prior = {} /\ ~OnLoan(sl.holding) /\ UNCHANGED fulfils
           /\ \E l \in LoanIds :
                /\ loans[l].state = "unused"
                /\ loans' = [loans EXCEPT ![l] = [state |-> "open", patron |-> sl.patron, holding |-> sl.holding]]
                /\ Record(r, "checkout", sl.holding, l) /\ CheckedOut(r, l)
  <2>1. PICK l \in LoanIds :
          /\ loans[l].state = "unused"
          /\ loans' = [loans EXCEPT ![l] = [state |-> "open", patron |-> sl.patron, holding |-> sl.holding]]
          /\ Record(r, "checkout", sl.holding, l) /\ CheckedOut(r, l)
    BY <1>5
  <2>2. Grows /\ loans'[l] = [state |-> "open", patron |-> sl.patron, holding |-> sl.holding]
    BY <1>2, <2>1, LoansGrow, LedgerParts
  <2>3. loans'[l].state = "open" /\ loans'[l].patron = sl.patron
    BY <2>2
  <2>4. PICK e : e = [key |-> k, op |-> "checkout", on |-> sl.holding, patron |-> loans'[l].patron, loan |-> l]
    OBVIOUS
  <2>5. /\ e.key = k /\ e.op = "checkout" /\ e.on = sl.holding /\ e.patron = sl.patron /\ e.loan = l
        /\ done' = done \cup {e}
    BY <2>1, <2>3, <2>4 DEF Record
  <2>6. (e.key \in Made)'
    BY <1>2, <1>3, <2>5 DEF Made
  <2>7. k \notin disturbed => sl.patron = a.patron /\ sl.holding = a.holding
    BY <1>1 DEF AsOnCard
  <2>8. EffectOK(e)'
    BY <1>1, <1>3, <2>3, <2>5, <2>6, <2>7 DEF EffectOK, Used, OpOf
  <2>9. ASSUME k \notin disturbed, NEW f \in done, f.key = k PROVE FALSE
    <3>1. EffectOK(f) /\ f.op = "checkout"
      BY <1>2, <2>9
    <3>2. f.on = sl.holding
      BY <2>7, <2>9, <3>1 DEF EffectOK
    <3> QED BY <1>5, <2>9, <3>1, <3>2 DEF Prior
  <2>10. EffectsOK' /\ OneDone' /\ \A f \in fulfils : FulfilOK(f)'
    BY <1>3, <2>2, <2>5, <2>8, <2>9, OneRecorded DEF ApprovalInv
  <2>11. LedgerInv'
    BY <1>3, <1>5, <2>10 DEF ApprovalInv, LedgerInv, FulfilsOK, OnePickup
  <2> QED BY <1>1, <1>3, <1>5, <2>1, <2>5, <2>11, CheckedOutApproval
<1> QED BY <1>4, <1>5 DEF Checkout

LEMMA DeliverApproval ==
  ASSUME ApprovalInv, TypeInv', NEW r \in Requests, Deliver(r)
  PROVE  ApprovalInv'
<1>1. /\ request[r].at = "deliver" /\ Resumes(r) /\ approval[request[r].key].kind = "COMMIT_ISSUE"
      /\ request[r].seen \in Selections(request[r].session)
  BY AtCheckout DEF Deliver
<1>2. request[r] \in Request /\ request[r].fulfil \in Maybe(fulfils)
  BY <1>1, InHand
<1>3. UNCHANGED <<slots, pending, asked>> /\ Kept
  BY DEF Deliver, Kept, asked
<1>4. LedgerInv' /\ done' = done /\ fulfils' = fulfils
  BY <1>3, LedgerStays DEF ApprovalInv, Deliver
<1>5. CASE \E f \in AnyOf(IssueFulfils(request[r].loan)) :
             request' = [request EXCEPT ![r].at = "executed", ![r].fulfil = f]
  <2>1. PICK f \in AnyOf(IssueFulfils(request[r].loan)) :
             request' = [request EXCEPT ![r].at = "executed", ![r].fulfil = f]
    BY <1>5
  <2>2. f \in Maybe(fulfils)
    BY DEF AnyOf, IssueFulfils, Maybe
  <2> DEFINE q == [request[r] EXCEPT !.at = "executed", !.fulfil = f]
  <2>3. request' = [request EXCEPT ![r] = q]
    BY <1>2, <2>1 DEF ApprovalInv, TypeInv, ThreadsOK, Request
  <2>4. /\ q.at = "executed" /\ q.session = request[r].session /\ q.key = request[r].key
        /\ q.seen = request[r].seen /\ q.fulfil = f
    BY <1>2 DEF Request
  <2> HIDE DEF q
  <2> QED BY <1>1, <1>3, <1>4, <2>2, <2>3, <2>4, WriteApproval
<1>6. CASE request' = [request EXCEPT ![r].at = "insert"]
  <2> DEFINE q == [request[r] EXCEPT !.at = "insert"]
  <2>1. request' = [request EXCEPT ![r] = q]
    BY <1>6
  <2>2. /\ q.at = "insert" /\ q.session = request[r].session /\ q.key = request[r].key
        /\ q.seen = request[r].seen /\ q.fulfil = request[r].fulfil /\ q.loan = request[r].loan
    BY <1>2 DEF Request
  <2> HIDE DEF q
  <2>3. /\ request[r].seen.mode = "DELIVERY"
        /\ \E e \in done : e.op = "checkout" /\ e.key = request[r].key /\ e.loan = request[r].loan
    BY <1>1 DEF ApprovalInv, Held, ThreadKeeps
  <2> QED BY <1>1, <1>2, <1>3, <1>4, <2>1, <2>2, <2>3, WriteApproval
<1> QED BY <1>5, <1>6 DEF Deliver

LEMMA InsertApproval ==
  ASSUME ApprovalInv, TypeInv', NEW r \in Requests, InsertFulfilment(r)
  PROVE  ApprovalInv'
<1> DEFINE k == request[r].key
           l == request[r].loan
<1>1. /\ request[r].at = "insert" /\ Resumes(r) /\ approval[k].kind = "COMMIT_ISSUE"
      /\ request[r].seen \in Selections(request[r].session)
      /\ k \notin disturbed => AsOnCard(approval[k], request[r].seen)
  BY AtCheckout DEF InsertFulfilment
<1>2. request[r] \in Request
  BY <1>1, InHand
<1>3. /\ UNCHANGED <<slots, pending, asked>> /\ Kept /\ approval' = approval /\ disturbed' = disturbed
      /\ loans' = loans /\ done' = done
  BY DEF InsertFulfilment, Kept, asked
<1>4. PICK f : f = NewFulfil(r, "ISSUE", l)
  OBVIOUS
<1>5. /\ f[1] = "ISSUE" /\ f[2] = l /\ f[3] = k
      /\ fulfils' = fulfils \cup {f} /\ request' = [request EXCEPT ![r].at = "executed", ![r].fulfil = f]
  BY <1>4 DEF NewFulfil, InsertFulfilment
<1>6. PICK e \in done : e.op = "checkout" /\ e.key = k /\ e.loan = l
  BY <1>1 DEF ApprovalInv, Held, ThreadKeeps
<1>7. request[r].seen.mode = "DELIVERY"
  BY <1>1 DEF ApprovalInv, Held, ThreadKeeps
<1>8. FulfilOK(f)'
  <2>1. loans'[l].state # "unused"
    BY <1>3, <1>6 DEF ApprovalInv, LedgerInv, EffectsOK, EffectOK, Used
  <2>2. k \notin disturbed' => approval'[k].mode = "DELIVERY"
    BY <1>1, <1>3, <1>7 DEF AsOnCard
  <2> QED BY <1>3, <1>5, <1>6, <2>1, <2>2 DEF FulfilOK, Used
<1>9. LedgerInv'
  <2>1. Grows
    BY <1>3, LoansGrow, LedgerParts DEF ApprovalInv
  <2>2. EffectsOK' /\ OneDone'
    BY <1>3, <2>1, OldEffect DEF ApprovalInv, LedgerInv, EffectsOK, OneDone
  <2>3. FulfilsOK'
    BY <1>3, <1>5, <1>8, <2>1, OldFulfil DEF ApprovalInv, LedgerInv, FulfilsOK
  <2>4. OnePickup'
    BY <1>3, <1>5 DEF ApprovalInv, LedgerInv, OnePickup
  <2> QED BY <2>2, <2>3, <2>4 DEF LedgerInv
<1> DEFINE q == [request[r] EXCEPT !.at = "executed", !.fulfil = f]
<1>10. request' = [request EXCEPT ![r] = q]
  BY <1>2, <1>5 DEF ApprovalInv, TypeInv, ThreadsOK, Request
<1>11. /\ q.at = "executed" /\ q.session = request[r].session /\ q.key = k
       /\ q.seen = request[r].seen /\ q.fulfil = f
  BY <1>2 DEF Request
<1> HIDE DEF q
<1>12. q.fulfil \in Maybe(fulfils')
  BY <1>5, <1>11 DEF Maybe
<1> QED BY <1>1, <1>3, <1>5, <1>9, <1>10, <1>11, <1>12, WriteApproval

-----------------------------------------------------------------------------
(* The other tools that write *)

\* A return that closes the loan l and goes by on.
LEMMA ReturnRecord ==
  ASSUME ApprovalInv, TypeInv', NEW r \in Requests, NEW kind \in {"CANCEL_ISSUE", "COMMIT_RETURN"}, Executes(r, kind),
         UNCHANGED <<slots, pending, asked>>, UNCHANGED fulfils,
         SlotsOf(r).loan # None, NEW l \in LoanIds, NEW on,
         Close(l), Record(r, "return", on, l), Ran(r, "ok", l),
         kind = "CANCEL_ISSUE" => on = l,
         request[r].key \notin disturbed =>
           /\ \A f \in done : f.key # request[r].key
           /\ on = Target(approval[request[r].key], SlotsOf(r).loan)
           /\ kind = "COMMIT_RETURN" /\ approval[request[r].key].holding # None
                => loans[l].holding = approval[request[r].key].holding
  PROVE  ApprovalInv'
<1> DEFINE s == request[r].session
           k == request[r].key
           a == approval[k]
<1>1. Resumes(r) /\ k \in Made /\ s \in Sessions /\ SlotsOf(r) = slots[s] /\ a.kind = kind
  BY Executing, InHand
<1>2. Grows /\ loans'[l].state = "closed" /\ loans'[l].holding = loans[l].holding
  BY LoansGrow, LedgerParts DEF ApprovalInv
<1>3. PICK e : e = [key |-> k, op |-> "return", on |-> on, patron |-> loans'[l].patron, loan |-> l]
  OBVIOUS
<1>4. /\ e.key = k /\ e.op = "return" /\ e.on = on /\ e.patron = loans'[l].patron /\ e.loan = l
      /\ done' = done \cup {e}
  BY <1>3 DEF Record
<1>5. approval' = approval /\ disturbed' = disturbed
  BY DEF asked
<1>6. (e.key \in Made)'
  BY <1>1, <1>4, <1>5 DEF Made
<1>7. EffectOK(e)'
  BY <1>1, <1>2, <1>4, <1>5, <1>6 DEF EffectOK, Used, OpOf
<1>8. k \notin disturbed => Fits(s, k, e)
  BY <1>1, <1>4 DEF Fits
<1> QED BY <1>1, <1>2, <1>4, <1>7, <1>8, RanRecord

LEMMA CancelIssueApproval ==
  ASSUME ApprovalInv, TypeInv', NEW r \in Requests, CancelIssue(r)
  PROVE  ApprovalInv'
<1> DEFINE l == SlotsOf(r).loan
           s == request[r].session
           k == request[r].key
<1>1. /\ Executes(r, "CANCEL_ISSUE") /\ Resumes(r) /\ approval[k].kind = "CANCEL_ISSUE"
      /\ SlotsOf(r) \in Slots /\ SlotsOf(r) \in Selections(s)
      /\ k \notin disturbed => Card(s, k)
      /\ \A f \in done : f.key = k => EffectOK(f) /\ f.op = "return"
  BY Executing, InHand DEF CancelIssue, OpOf
<1>2. UNCHANGED <<slots, pending, asked>> /\ UNCHANGED fulfils
  BY DEF CancelIssue
<1>3. CASE Ran(r, "none", None) /\ UNCHANGED <<loans, done>>
  BY <1>1, <1>2, <1>3, RanNothing DEF ledger
<1>4. CASE l # None /\ Open(l) /\ Close(l) /\ Record(r, "return", l, l) /\ Ran(r, "ok", l)
  <2>1. l \in LoanIds
    BY <1>1, <1>4 DEF Slots, Maybe
  <2>2. ASSUME k \notin disturbed, NEW f \in done, f.key = k PROVE FALSE
    <3>1. PICK L \in Maybe(LoanIds) :
            /\ \A x \in Selections(s) : x.loan \in {None, L}
            /\ \A e \in done : e.key = k => e.on = Target(approval[k], L)
      BY <1>1, <2>2 DEF Card, LoanKinds
    <3>2. L = l
      BY <1>1, <1>4, <3>1
    <3>3. EffectOK(f) /\ f.op = "return" /\ approval[f.key].kind = "CANCEL_ISSUE"
      BY <1>1, <2>2
    <3>4. loans[f.loan].state = "closed" /\ f.on = f.loan
      BY <3>3 DEF EffectOK
    <3>5. f.on = l
      BY <1>1, <3>1, <3>2, <2>2 DEF Target
    <3> QED BY <1>4, <3>4, <3>5 DEF Open
  <2>3. l = Target(approval[k], l)
    BY <1>1 DEF Target
  <2> QED BY <1>1, <1>2, <1>4, <2>1, <2>2, <2>3, ReturnRecord
<1> QED BY <1>3, <1>4 DEF CancelIssue

LEMMA CommitReturnApproval ==
  ASSUME ApprovalInv, TypeInv', NEW r \in Requests, CommitReturn(r)
  PROVE  ApprovalInv'
<1> DEFINE sl == SlotsOf(r)
           s == request[r].session
           k == request[r].key
           a == approval[k]
           on == IF sl.holding # None THEN sl.holding ELSE sl.loan
           ls == IF sl.holding # None THEN {l \in OpenLoans : loans[l].holding = sl.holding} ELSE {sl.loan}
           prior == Prior(r, "return", on)
<1>1. /\ Executes(r, "COMMIT_RETURN") /\ Resumes(r) /\ a.kind = "COMMIT_RETURN"
      /\ sl \in Slots /\ sl \in Selections(s)
      /\ k \notin disturbed => Card(s, k)
      /\ \A f \in done : f.key = k => EffectOK(f) /\ f.op = "return"
  BY Executing, InHand DEF CommitReturn, OpOf
<1>2. UNCHANGED <<slots, pending, asked>> /\ UNCHANGED fulfils
  BY DEF CommitReturn
<1>3. CASE (\E result, l : Ran(r, result, l)) /\ UNCHANGED <<loans, done>>
  BY <1>1, <1>2, <1>3, RanNothing DEF ledger
<1>4. CASE sl.loan # None /\ prior = {}
           /\ \E l \in ls : Close(l) /\ Record(r, "return", on, l) /\ Ran(r, "ok", l)
  <2>1. PICK l \in ls : Close(l) /\ Record(r, "return", on, l) /\ Ran(r, "ok", l)
    BY <1>4
  <2>2. sl.loan \in LoanIds /\ l \in LoanIds /\ (sl.holding # None => loans[l].holding = sl.holding)
    BY <1>1, <1>4, <2>1 DEF Slots, Maybe, OpenLoans
  <2>3. ASSUME k \notin disturbed
        PROVE  /\ \A f \in done : f.key # k
               /\ on = Target(a, sl.loan)
               /\ a.holding # None => loans[l].holding = a.holding
    <3>1. sl.holding = a.holding
      BY <1>1, <1>4, <2>3 DEF Card
    <3>2. on = Target(a, sl.loan)
      BY <1>1, <3>1 DEF Target
    <3>3. PICK L \in Maybe(LoanIds) :
            /\ \A x \in Selections(s) : x.loan \in {None, L}
            /\ \A e \in done : e.key = k => e.on = Target(a, L)
      BY <1>1, <2>3 DEF Card, LoanKinds
    <3>4. L = sl.loan
      BY <1>1, <1>4, <3>3
    <3>5. \A f \in done : f.key # k
      BY <1>1, <1>4, <3>2, <3>3, <3>4 DEF Prior
    <3> QED BY <2>2, <3>1, <3>2, <3>5
  <2> HIDE DEF on, ls
  <2> QED BY <1>1, <1>2, <1>4, <2>1, <2>2, <2>3, ReturnRecord
<1> QED BY <1>3, <1>4 DEF CommitReturn

\* An effect is determined by its fields.
LEMMA SameEffect ==
  ASSUME NEW f \in Effect, NEW k, NEW op, NEW on, NEW p, NEW l,
         f.key = k, f.op = op, f.on = on, f.patron = p, f.loan = l
  PROVE  f = [key |-> k, op |-> op, on |-> on, patron |-> p, loan |-> l]
BY DEF Effect

LEMMA TransitionApproval ==
  ASSUME ApprovalInv, TypeInv', NEW r \in Requests, TransitionFulfillment(r)
  PROVE  ApprovalInv'
<1> DEFINE g == SlotsOf(r).fulfil
           l == g[2]
           s == request[r].session
           k == request[r].key
<1>1. /\ Resumes(r) /\ approval[k].kind = "TRANSITION_FULFILLMENT"
      /\ k \in Made /\ s \in Sessions /\ SlotsOf(r) = slots[s]
      /\ k \notin disturbed => Card(s, k)
      /\ \A f \in done : f.key = k => EffectOK(f) /\ f.op = "transition"
  BY Executing, InHand DEF TransitionFulfillment, OpOf
<1>2. UNCHANGED <<slots, pending, asked>>
  BY DEF TransitionFulfillment
<1>3. CASE UNCHANGED ledger
  BY <1>1, <1>2, <1>3, RanNothing DEF TransitionFulfillment
<1>4. CASE g # None /\ Ran(r, "ok", l) /\ UNCHANGED <<loans, fulfils>> /\ Record(r, "transition", g, l)
  <2>1. g \in fulfils
    BY <1>1, <1>4 DEF ApprovalInv, Held, Maybe
  <2>2. l \in LoanIds /\ Used(l)
    BY <2>1, LedgerParts DEF ApprovalInv, LedgerInv, FulfilsOK, FulfilOK, Fulfils
  <2>3. Grows /\ loans'[l].state # "unused" /\ loans'[l].patron = loans[l].patron
    BY <1>4, <2>2, LoansGrow, LedgerParts DEF ApprovalInv, Used
  <2>4. PICK e : e = [key |-> k, op |-> "transition", on |-> g, patron |-> loans'[l].patron, loan |-> l]
    OBVIOUS
  <2>5. /\ e.key = k /\ e.op = "transition" /\ e.on = g /\ e.patron = loans'[l].patron /\ e.loan = l
        /\ done' = done \cup {e}
    BY <1>4, <2>4 DEF Record
  <2>6. approval' = approval /\ disturbed' = disturbed
    BY <1>2 DEF asked
  <2>7. (e.key \in Made)'
    BY <1>1, <2>5, <2>6 DEF Made
  <2>8. EffectOK(e)'
    BY <1>1, <2>3, <2>5, <2>6, <2>7 DEF EffectOK, Used, OpOf
  <2>9. ASSUME k \notin disturbed, NEW f \in done, f.key = k PROVE f = e
    <3>1. EffectOK(f) /\ f.op = "transition" /\ f \in Effect
      BY <1>1, <2>9, LedgerParts DEF ApprovalInv
    <3>2. f.on = g
      BY <1>1, <2>9 DEF Card
    <3>3. f.loan = l /\ f.patron = loans[l].patron
      BY <3>1, <3>2 DEF EffectOK
    <3> QED BY <2>3, <2>4, <2>9, <3>1, <3>2, <3>3, SameEffect
  <2>10. Fits(s, k, e)
    BY <1>1, <2>5 DEF Fits, LoanKinds
  <2>11. Ran(r, "ok", l) /\ fulfils' = fulfils
    BY <1>4
  <2> HIDE DEF l
  <2> QED BY <1>1, <1>2, <2>3, <2>5, <2>8, <2>9, <2>10, <2>11, RanRecord
<1> QED BY <1>3, <1>4 DEF TransitionFulfillment

LEMMA SelectReturnApproval ==
  ASSUME ApprovalInv, TypeInv', NEW r \in Requests, SelectReturn(r)
  PROVE  ApprovalInv'
<1>1. Resumes(r)
  BY Executing DEF SelectReturn
<1>2. UNCHANGED <<slots, pending, asked>> /\ UNCHANGED ledger /\ Ran(r, "ok", approval[request[r].key].loan)
  BY DEF SelectReturn
<1> QED BY <1>1, <1>2, RanNothing

LEMMA PickupApproval ==
  ASSUME ApprovalInv, TypeInv', NEW r \in Requests, InitiateReturnPickup(r)
  PROVE  ApprovalInv'
<1> DEFINE l == SlotsOf(r).loan
           s == request[r].session
           k == request[r].key
           Answers(f) == request' = [request EXCEPT ![r] = [@ EXCEPT !.at = "executed", !.result = "ok",
                                                       !.loan = l, !.fulfil = f, !.seen = SlotsOf(r)]]
<1>1. /\ Resumes(r) /\ approval[k].kind = "INITIATE_RETURN_PICKUP" /\ k \in Made /\ s \in Sessions
      /\ SlotsOf(r) = slots[s] /\ SlotsOf(r) \in Slots /\ SlotsOf(r) \in Selections(s)
      /\ k \notin disturbed => Card(s, k)
      /\ \A f \in done : f.key = k => EffectOK(f) /\ f.op = "pickup"
  <2>1. Executes(r, "INITIATE_RETURN_PICKUP")
    BY DEF InitiateReturnPickup
  <2> QED BY <2>1, Executing, InHand DEF OpOf
<1>2. /\ UNCHANGED <<slots, pending, asked>> /\ Kept /\ approval' = approval /\ disturbed' = disturbed
  <2>1. UNCHANGED <<slots, pending, asked>>
    BY DEF InitiateReturnPickup
  <2> QED BY <2>1 DEF Kept, asked
<1>a. ASSUME NEW f, Answers(f)
      PROVE  \E q : /\ request' = [request EXCEPT ![r] = q] /\ q.at = "executed"
                    /\ q.session = s /\ q.key = k /\ q.seen \in Selections(s) /\ q.fulfil = f
  <2> DEFINE q == [request[r] EXCEPT !.at = "executed", !.result = "ok", !.loan = l, !.fulfil = f, !.seen = SlotsOf(r)]
  <2>1. request' = [request EXCEPT ![r] = q]
    BY <1>a
  <2>2. request[r] \in Request
    BY <1>1, InHand
  <2>3. q.at = "executed" /\ q.session = s /\ q.key = k /\ q.seen = SlotsOf(r) /\ q.fulfil = f
    BY <2>2 DEF Request
  <2> HIDE DEF q
  <2> QED BY <1>1, <2>1, <2>3
<1>3. CASE UNCHANGED ledger /\ \E result, m : Ran(r, result, m)
  BY <1>1, <1>2, <1>3, RanNothing
<1>4. CASE UNCHANGED ledger /\ \E f \in fulfils : Answers(f)
  <2>1. PICK f \in fulfils : Answers(f)
    BY <1>4
  <2>2. PICK q : /\ request' = [request EXCEPT ![r] = q] /\ q.at = "executed"
                 /\ q.session = s /\ q.key = k /\ q.seen \in Selections(s) /\ q.fulfil = f
    BY <1>a, <2>1
  <2>3. LedgerInv' /\ done' = done /\ fulfils' = fulfils
    BY <1>2, <1>4, LedgerStays DEF ApprovalInv
  <2>4. q.fulfil \in Maybe(fulfils')
    BY <2>2, <2>3 DEF Maybe
  <2> QED BY <1>1, <1>2, <2>2, <2>3, <2>4, WriteApproval
<1>5. CASE /\ l # None /\ Prior(r, "pickup", l) = {} /\ Open(l)
           /\ fulfils' = fulfils \cup {NewFulfil(r, "RETURN", l)} /\ UNCHANGED loans
           /\ Record(r, "pickup", l, l) /\ Answers(NewFulfil(r, "RETURN", l))
  <2>1. l \in LoanIds /\ Used(l)
    BY <1>1, <1>5 DEF Slots, Maybe, Open, Used
  <2>2. Grows /\ loans'[l].state # "unused" /\ loans'[l].patron = loans[l].patron
    BY <1>5, <2>1, LoansGrow, LedgerParts DEF ApprovalInv, Used
  <2>3. PICK e : e = [key |-> k, op |-> "pickup", on |-> l, patron |-> loans'[l].patron, loan |-> l]
    OBVIOUS
  <2>4. /\ e.key = k /\ e.op = "pickup" /\ e.on = l /\ e.patron = loans'[l].patron /\ e.loan = l
        /\ done' = done \cup {e}
    BY <1>5, <2>3 DEF Record
  <2>5. PICK f : f = NewFulfil(r, "RETURN", l)
    OBVIOUS
  <2>6. f[1] = "RETURN" /\ f[2] = l /\ f[3] = k /\ fulfils' = fulfils \cup {f} /\ Answers(f)
    BY <1>5, <2>5 DEF NewFulfil
  <2>7. PICK q : /\ request' = [request EXCEPT ![r] = q] /\ q.at = "executed"
                 /\ q.session = s /\ q.key = k /\ q.seen \in Selections(s) /\ q.fulfil = f
    BY <1>a, <2>6
  <2>8. (e.key \in Made)'
    BY <1>1, <1>2, <2>4 DEF Made
  <2>9. EffectOK(e)'
    BY <1>1, <1>2, <2>2, <2>4, <2>8 DEF EffectOK, Used, OpOf
  <2>10. ASSUME k \notin disturbed PROVE \A g \in done : g.key # k
    <3>1. PICK L \in Maybe(LoanIds) :
            /\ \A x \in Selections(s) : x.loan \in {None, L}
            /\ \A x \in done : x.key = k => x.on = Target(approval[k], L)
      BY <1>1, <2>10 DEF Card, LoanKinds
    <3>2. L = l
      BY <1>1, <1>5, <3>1
    <3> QED BY <1>1, <1>5, <3>1, <3>2 DEF Target, Prior
  <2>11. FulfilOK(f)'
    BY <2>2, <2>4, <2>6 DEF FulfilOK, Used
  <2>12. EffectsOK' /\ OneDone' /\ \A g \in fulfils : FulfilOK(g)'
    BY <1>2, <2>2, <2>4, <2>9, <2>10, OneRecorded DEF ApprovalInv
  <2>13. OnePickup'
    <3>1. ASSUME k \notin disturbed, NEW g \in fulfils, g[1] = "RETURN", g[3] = k PROVE FALSE
      BY <2>10, <3>1 DEF ApprovalInv, LedgerInv, FulfilsOK, FulfilOK
    <3> QED BY <1>2, <2>6, <3>1 DEF ApprovalInv, LedgerInv, OnePickup
  <2>14. LedgerInv'
    BY <2>6, <2>11, <2>12, <2>13 DEF LedgerInv, FulfilsOK
  <2>15. q.fulfil \in Maybe(fulfils')
    BY <2>6, <2>7 DEF Maybe
  <2>16. Fits(s, k, e)
    BY <1>1, <1>5, <2>4 DEF Fits, Target
  <2>17. /\ fulfils \subseteq fulfils' /\ done \subseteq done'
         /\ \A x \in done' : x \in done \/ (x.key = k /\ Fits(s, x.key, x))
    BY <2>4, <2>6, <2>16
  <2>18. Resumes(r) /\ UNCHANGED <<slots, pending, asked>>
    BY <1>1, <1>2
  <2> QED BY <2>7, <2>14, <2>15, <2>17, <2>18, WriteApproval
<1> QED BY <1>3, <1>4, <1>5 DEF InitiateReturnPickup

-----------------------------------------------------------------------------
(* The update of the slots after a write *)

\* What it comes to, for the approval the write was done under.
LEMMA WrittenFollows ==
  ASSUME ApprovalInv, NEW r \in Requests, request[r].at = "executed"
  PROVE  /\ Follows(request[r].session, request[r].key, Written(request[r], SlotsOf(r)))
         /\ Written(request[r], SlotsOf(r)).fulfil \in {SlotsOf(r).fulfil} \cup Maybe(fulfils)
<1> DEFINE q == request[r]
           s == q.session
           sl == SlotsOf(r)
           kind == approval[q.key].kind
<1>1. /\ Resumes(r) /\ q \in Request /\ q.fulfil \in Maybe(fulfils)
      /\ q.result = "ok" => q.loan \in LoanIds
  BY InHand DEF ApprovalInv, TypeInv, ThreadsOK, ThreadOK, WriteSteps, Resumes
<1>2. sl = slots[s] /\ sl \in Slots /\ q.seen \in Slots /\ sl \in Selections(s) /\ q.seen \in Selections(s)
  BY <1>1, InHand, SelectionsAre DEF Request, Remembers
<1>3. q.fulfil \in Maybe(Fulfils)
  BY <1>1 DEF Request
<1> DEFINE Good(x) == Follows(s, q.key, x) /\ x.fulfil \in {sl.fulfil} \cup Maybe(fulfils)
<1>4. Good(sl)
  BY <1>2, SlotsFollow
<1> HIDE DEF sl
<1>5. CASE kind = "COMMIT_ISSUE"
  <2> DEFINE f == IF q.fulfil # None THEN q.fulfil ELSE sl.fulfil
             new == IF q.result = "ok" THEN [sl EXCEPT !.loan = q.loan, !.fulfil = f] ELSE sl
             x == Guide(Await(new, {}, {"patron", "book"}), {}, {"issue"})
  <2>1. Written(q, sl) = IF "return" \in sl.guided THEN new ELSE x
    BY <1>2, <1>5 DEF Written, Slots
  <2>2. f \in Maybe(Fulfils) /\ f \in {sl.fulfil} \cup Maybe(fulfils)
    BY <1>1, <1>2, <1>3 DEF Slots
  <2> HIDE DEF f
  <2>3. /\ new \in Slots /\ new.fulfil \in {sl.fulfil, f}
        /\ new.mode = sl.mode /\ new.patron = sl.patron /\ new.holding = sl.holding
    <3>1. CASE q.result = "ok"
      <4>1. q.loan \in Maybe(LoanIds)
        BY <1>1, <3>1 DEF Maybe
      <4>2. new = [sl EXCEPT !.loan = q.loan, !.fulfil = f]
        BY <3>1
      <4> HIDE DEF new
      <4> QED BY <1>2, <2>2, <4>1, <4>2 DEF Slots
    <3>2. CASE q.result # "ok"
      BY <1>2, <3>2
    <3> QED BY <3>1, <3>2
  <2> HIDE DEF new
  <2>4. x.fulfil = new.fulfil /\ x.mode = new.mode /\ x.patron = new.patron /\ x.holding = new.holding
    BY <2>3 DEF Await, Guide, Slots
  <2> HIDE DEF x
  <2>5. Good(new) /\ Good(x)
    BY <1>2, <1>5, <2>2, <2>3, <2>4 DEF Follows, HasPatronAndHolding, LoanKinds
  <2> QED BY <2>1, <2>5 DEF sl
<1>6. CASE kind = "CANCEL_ISSUE"
  <2> DEFINE new == [sl EXCEPT !.loan = None, !.fulfil = None]
  <2>1. new.loan = None /\ new.fulfil = None
    BY <1>2 DEF Slots
  <2>2. Written(q, sl) = IF q.result = "ok" THEN new ELSE sl
    BY <1>6 DEF Written
  <2> HIDE DEF new
  <2>3. Good(new)
    BY <1>6, <2>1 DEF Follows, Maybe
  <2> QED BY <1>4, <2>2, <2>3 DEF sl
<1>7. CASE kind = "SELECT_RETURN"
  <2> DEFINE new == WithLoan(sl, approval[q.key].loan)
  <2>1. new.fulfil = None
    BY <1>2 DEF WithLoan, Slots
  <2>2. Written(q, sl) = new
    BY <1>7 DEF Written
  <2> HIDE DEF new
  <2>3. Good(new)
    BY <1>7, <2>1 DEF Follows, LoanKinds, Maybe
  <2> QED BY <2>2, <2>3 DEF sl
<1>8. CASE kind = "COMMIT_RETURN"
  <2> DEFINE new == CASE q.result = "ok" -> Cleared(sl) [] q.result = "error" -> Restored(sl, q.seen) [] OTHER -> sl
             g == Guide(new, {"return"}, {})
             x == [g EXCEPT !.patron = q.seen.patron]
             y == Guide(Await(new, {}, {"deskPatron", "deskNext"}), {}, {"return"})
             Same(z) == z.fulfil = new.fulfil /\ z.loan = new.loan /\ z.holding = new.holding
  <2>1. Written(q, sl) = IF Refreshes(q, sl) THEN x ELSE y
    BY <1>8 DEF Written
  <2>2. new \in Slots
    BY <1>2, ClearedSlots, RestoredSlots
  <2>3. Good(new)
    <3> DEFINE c == Cleared(sl)
               d == Restored(sl, q.seen)
    <3>1. c.loan = None /\ c.fulfil = None
      <4> DEFINE n == NoLoan(sl)
      <4>1. n \in Slots /\ n.loan = None
        BY <1>2, DropSlots DEF NoLoan, Slots
      <4> HIDE DEF n
      <4>2. c = [n EXCEPT !.patron = None, !.loanCands = {}, !.fulfil = None]
        BY DEF Cleared, n
      <4> QED BY <4>1, <4>2 DEF Slots
    <3>2. d.loan = q.seen.loan /\ d.holding = q.seen.holding /\ d.fulfil = sl.fulfil
      BY <1>2 DEF Restored, Slots
    <3> HIDE DEF c, d
    <3>3. Good(c) /\ Good(d)
      BY <1>2, <1>8, <3>1, <3>2 DEF Follows, Maybe
    <3>4. new \in {c, d, sl}
      BY DEF c, d
    <3> HIDE DEF new, Good
    <3> QED BY <1>4, <3>3, <3>4
  <2> HIDE DEF new
  <2>4. Same(x) /\ Same(y)
    <3>1. g \in Slots /\ Same(g)
      BY <2>2, GuideSlots DEF Guide, Flows, Slots
    <3> HIDE DEF g
    <3>2. Same(x)
      BY <3>1 DEF Slots
    <3>3. Same(y)
      BY <2>2 DEF Guide, Await, Slots
    <3> QED BY <3>2, <3>3
  <2> HIDE DEF x, y
  <2>5. Good(x) /\ Good(y)
    BY <1>8, <2>3, <2>4 DEF Follows
  <2> QED BY <2>1, <2>5 DEF sl
<1>9. CASE kind = "INITIATE_RETURN_PICKUP"
  <2> DEFINE new == [sl EXCEPT !.fulfil = q.fulfil]
             d == Restored(sl, q.seen)
  <2>1. Written(q, sl) = CASE q.result = "ok" -> new [] q.result = "error" -> d [] OTHER -> sl
    BY <1>9 DEF Written
  <2>2. /\ new.fulfil = q.fulfil /\ new.loan = sl.loan /\ new.holding = sl.holding
        /\ d.loan = q.seen.loan /\ d.holding = q.seen.holding /\ d.fulfil = sl.fulfil
    BY <1>2 DEF Restored, Slots
  <2> HIDE DEF new, d
  <2>3. Good(d) /\ Good(new)
    BY <1>1, <1>2, <1>9, <2>2 DEF Follows
  <2> QED BY <1>4, <2>1, <2>3 DEF sl
<1>10. CASE kind \notin {"COMMIT_ISSUE", "CANCEL_ISSUE", "SELECT_RETURN", "COMMIT_RETURN", "INITIATE_RETURN_PICKUP"}
  <2>1. Written(q, sl) = sl
    BY <1>10 DEF Written
  <2> QED BY <1>4, <2>1 DEF sl
<1> QED BY <1>5, <1>6, <1>7, <1>8, <1>9, <1>10

\* The slots a resume leaves its session with.
LEMMA SlotsMoved ==
  ASSUME ApprovalInv, NEW r \in Requests, Resumes(r), NEW new,
         slots' = [slots EXCEPT ![request[r].session] = new],
         Follows(request[r].session, request[r].key, new),
         new.fulfil \in {SlotsOf(r).fulfil} \cup Maybe(fulfils), fulfils' = fulfils
  PROVE  /\ \A s \in Sessions, k \in Keys : Calm(s, k) => Follows(s, k, slots'[s])
         /\ \A s \in Sessions : slots'[s].fulfil \in {slots[s].fulfil} \cup Maybe(fulfils')
<1> DEFINE t == request[r].session
<1>1. t \in Sessions /\ request[r].key \in Keys /\ Live(t, request[r].key)
  BY InHand DEF Live
<1>2. slots'[t] = new /\ \A s \in Sessions : s # t => slots'[s] = slots[s]
  BY <1>1 DEF ApprovalInv, TypeInv, SessionsOK
<1>3. ASSUME NEW s \in Sessions, NEW k \in Keys, Calm(s, k) PROVE Follows(s, k, slots'[s])
  <2>1. CASE s = t
    <3>1. k = request[r].key
      BY <1>1, <1>3, <2>1 DEF ApprovalInv, CalmAlone
    <3> QED BY <1>2, <2>1, <3>1
  <2>2. CASE s # t
    BY <1>2, <2>2, SlotsFollow
  <2> QED BY <2>1, <2>2
<1>4. ASSUME NEW s \in Sessions PROVE slots'[s].fulfil \in {slots[s].fulfil} \cup Maybe(fulfils')
  BY <1>2 DEF SlotsOf
<1> QED BY <1>3, <1>4

LEMMA AnswerApproval ==
  ASSUME ApprovalInv, TypeInv', NEW r \in Requests, Resumes(r), NEW new, Answer(r, new), UNCHANGED <<ledger, asked>>,
         Follows(request[r].session, request[r].key, new),
         new.fulfil \in {SlotsOf(r).fulfil} \cup Maybe(fulfils)
  PROVE  ApprovalInv'
<1>1. Kept
  BY DEF Kept, asked
<1>2. LedgerInv' /\ done' = done /\ fulfils' = fulfils
  BY <1>1, LedgerStays DEF ApprovalInv
<1>3. NoRequest.at = "idle" /\ NoRequest.fulfil = None /\ \A s : ~Remembers(NoRequest, s)
  BY DEF NoRequest, Remembers
<1>4. /\ slots' = [slots EXCEPT ![request[r].session] = new]
      /\ pending' = [pending EXCEPT ![request[r].session] = None]
      /\ request' = [request EXCEPT ![r] = NoRequest]
  BY DEF Answer
<1>5. /\ \A s \in Sessions, k \in Keys : Calm(s, k) => Follows(s, k, slots'[s])
      /\ \A s \in Sessions : slots'[s].fulfil \in {slots[s].fulfil} \cup Maybe(fulfils')
  BY <1>2, <1>4, SlotsMoved
<1>6. \A s \in Sessions : pending'[s] \in {None, pending[s]}
  BY <1>4 DEF ApprovalInv, TypeInv, AskedOK
<1>7. CalmAlone' /\ OneSession' /\ Cards'
  BY <1>1, <1>2, <1>3, <1>4, <1>5, <1>6, ThreadStep DEF ApprovalInv, WriteSteps
<1>8. Held'
  BY <1>1, <1>2, <1>3, <1>4, <1>5, HeldStep DEF ApprovalInv, Maybe
<1> QED BY <1>2, <1>7, <1>8 DEF ApprovalInv

LEMMA AfterWriteApproval ==
  ASSUME ApprovalInv, TypeInv', NEW r \in Requests, AfterWrite(r)
  PROVE  ApprovalInv'
<1> DEFINE new == Written(request[r], SlotsOf(r))
           s == request[r].session
           k == request[r].key
<1>1. request[r].at = "executed" /\ Resumes(r)
  BY DEF AfterWrite, WriteSteps, Resumes
<1>2. request[r] \in Request /\ s \in Sessions /\ k \in Keys /\ Live(s, k) /\ request[r].fulfil \in Maybe(fulfils)
  BY <1>1, InHand DEF Live
<1>3. UNCHANGED <<ledger, calls, asked>>
  BY DEF AfterWrite
<1>4. Follows(s, k, new) /\ new.fulfil \in {SlotsOf(r).fulfil} \cup Maybe(fulfils)
  BY <1>1, WrittenFollows
<1>5. CASE Refreshes(request[r], SlotsOf(r))
  <2> DEFINE q == [request[r] EXCEPT !.at = "refresh"]
  <2>1. Kept
    BY <1>3 DEF Kept, asked
  <2>2. LedgerInv' /\ done' = done /\ fulfils' = fulfils
    BY <1>3, <2>1, LedgerStays DEF ApprovalInv
  <2>3. slots' = [slots EXCEPT ![s] = new] /\ request' = [request EXCEPT ![r] = q] /\ pending' = pending
    BY <1>5 DEF AfterWrite, SlotsOf
  <2>4. q.at = "refresh" /\ q.session = s /\ q.key = k /\ q.fulfil = request[r].fulfil
    BY <1>2 DEF Request
  <2> HIDE DEF new, q
  <2>5. /\ \A t \in Sessions, m \in Keys : Calm(t, m) => Follows(t, m, slots'[t])
        /\ \A t \in Sessions : slots'[t].fulfil \in {slots[t].fulfil} \cup Maybe(fulfils')
    BY <1>1, <1>4, <2>2, <2>3, SlotsMoved
  <2>6. CalmAlone' /\ OneSession' /\ Cards'
    <3>1. q.at \in WriteSteps /\ q.at # "idle" /\ \A t : ~Remembers(q, t)
      BY <2>4 DEF WriteSteps, Remembers
    <3> QED BY <1>2, <2>1, <2>2, <2>3, <2>4, <2>5, <3>1, ThreadStep DEF ApprovalInv
  <2>7. Held'
    BY <1>2, <2>1, <2>2, <2>3, <2>4, <2>5, HeldStep DEF ApprovalInv
  <2> QED BY <2>2, <2>6, <2>7 DEF ApprovalInv
<1>6. CASE ~Refreshes(request[r], SlotsOf(r))
  <2>1. Answer(r, new)
    BY <1>6 DEF AfterWrite
  <2> HIDE DEF new
  <2> QED BY <1>1, <1>3, <1>4, <2>1, AnswerApproval
<1> QED BY <1>5, <1>6

LEMMA RefreshApproval ==
  ASSUME ApprovalInv, TypeInv', NEW r \in Requests, Refresh(r)
  PROVE  ApprovalInv'
<1> DEFINE sl == SlotsOf(r)
           found == IF sl.patron = None THEN OpenLoans ELSE LoansOf(Namesakes[sl.patron])
           s == request[r].session
           k == request[r].key
<1>1. Calls(r, "refresh") /\ UNCHANGED <<ledger, asked>>
  BY DEF Refresh
<1>2. sl \in Slots /\ s \in Sessions /\ request[r].at = "refresh" /\ sl = slots[s] /\ Resumes(r)
  BY <1>1, CallsType DEF ApprovalInv, SlotsOf, Resumes, WriteSteps
<1>3. PICK first \in AnyOf(found) :
        Answer(r, Guide(Await(Listed(sl, found, first, FALSE), {"deskNext"}, {"book", "catalog"}),
                          {}, {"issue", "catalog"}))
  BY DEF Refresh
<1>4. found \in SUBSET LoanIds
  BY SomeLoans
<1> HIDE DEF found, sl
<1> DEFINE n   == NoLoan(sl)
           l   == Listed(sl, found, first, FALSE)
           a   == Await(l, {"deskNext"}, {"book", "catalog"})
           new == Guide(a, {}, {"issue", "catalog"})
           Same(x) == x.loan = None /\ x.holding = None /\ x.fulfil = sl.fulfil /\ x.mode = sl.mode
<1>5. l \in Slots
  BY <1>2, <1>4, ListedSlots, LedgerParts DEF ApprovalInv
<1>6. Same(l)
  <2>1. n \in Slots /\ Same(n)
    BY <1>2, DropSlots DEF NoLoan, Slots
  <2>2. l = IF found = {} THEN [n EXCEPT !.loanCands = {}]
            ELSE [n EXCEPT !.patron = loans[first].patron, !.loanCands = found]
    BY DEF Listed
  <2> HIDE DEF n, l
  <2>3. Same([n EXCEPT !.loanCands = {}]) /\ Same([n EXCEPT !.patron = loans[first].patron, !.loanCands = found])
    BY <2>1 DEF Slots
  <2> QED BY <2>2, <2>3
<1> HIDE DEF l
<1>7. a \in Slots /\ Same(a)
  BY <1>5, <1>6, AwaitSlots DEF Await, Slots, Prompts
<1> HIDE DEF a
<1>8. Same(new)
  BY <1>7 DEF Guide, Slots
<1>9. Answer(r, new)
  BY <1>3 DEF a, l
<1> HIDE DEF new
<1>10. Follows(s, k, new)
  BY <1>2, <1>8 DEF Follows, HasPatronAndHolding
<1>11. new.fulfil = SlotsOf(r).fulfil
  BY <1>8 DEF sl
<1> QED BY <1>1, <1>2, <1>9, <1>10, <1>11, AnswerApproval

-----------------------------------------------------------------------------
(* The other clients, a restart, and the theorems *)

LEMMA OutsideApproval ==
  ASSUME ApprovalInv, TypeInv',
         \/ \E h \in Holdings, p \in Patrons : OutsideIssue(h, p)
         \/ \E l \in LoanIds : OutsideReturn(l)
  PROVE  ApprovalInv'
<1>1. Grows
  BY LoansGrow, LedgerParts DEF ApprovalInv, OutsideIssue, OutsideReturn
<1>2. UNCHANGED <<fulfils, done, slots, pending, calls, asked, request>>
  BY DEF OutsideIssue, OutsideReturn
<1>3. approval' = approval /\ disturbed' = disturbed
  BY <1>2 DEF asked
<1>4. Kept
  BY <1>3 DEF Kept
<1>5. LedgerInv'
  BY <1>1, <1>2, <1>4, NothingRecorded DEF ApprovalInv
<1>6. CalmAlone' /\ OneSession'
  BY <1>2, <1>3 DEF ApprovalInv, CalmAlone, Calm, Reads, OneSession, Live, Resumes
<1>7. Cards'
  BY <1>2, <1>3 DEF ApprovalInv, Cards, Card, Calm, Live, Resumes, Selections
<1>8. Held'
  BY <1>2, <1>3 DEF ApprovalInv, Held, ThreadKeeps, Maybe
<1> QED BY <1>5, <1>6, <1>7, <1>8 DEF ApprovalInv

\* No approval of a session survives a restart, and what was done does.
LEMMA CrashApproval ==
  ASSUME ApprovalInv, TypeInv', Crash
  PROVE  ApprovalInv'
<1>1. UNCHANGED <<ledger, asked>> /\ approval' = approval /\ disturbed' = disturbed
  BY DEF Crash, asked
<1>2. Kept
  BY <1>1 DEF Kept
<1>3. LedgerInv'
  BY <1>1, <1>2, LedgerStays DEF ApprovalInv
<1>4. /\ \A r \in Requests : request'[r].at = "idle" /\ request'[r].fulfil = None
      /\ \A s \in Sessions : pending'[s] = None /\ slots'[s].fulfil = None
  BY DEF Crash, NoRequest, EmptySlots
<1>5. \A s \in Sessions, k \in Keys : ~Live(s, k)'
  BY <1>4 DEF Live, Resumes, WriteSteps
<1>6. CalmAlone' /\ OneSession' /\ Cards'
  BY <1>5 DEF CalmAlone, Calm, OneSession, Cards
<1>7. Held'
  BY <1>4 DEF Held, ThreadKeeps, Maybe
<1> QED BY <1>3, <1>6, <1>7 DEF ApprovalInv

LEMMA InitApproval == Init => ApprovalInv
<1> SUFFICES ASSUME Init PROVE ApprovalInv
  OBVIOUS
<1>1. TypeInv
  BY InitTyped
<1>2. /\ \A r \in Requests : request[r].at = "idle" /\ request[r].fulfil = None
      /\ \A s \in Sessions : pending[s] = None /\ slots[s].fulfil = None
      /\ done = {} /\ fulfils = {}
  BY DEF Init, NoRequest, EmptySlots
<1>3. \A s \in Sessions, k \in Keys : ~Live(s, k)
  BY <1>2 DEF Live, Resumes, WriteSteps
<1>4. CalmAlone /\ OneSession /\ Cards
  BY <1>3 DEF CalmAlone, Calm, OneSession, Cards
<1>5. LedgerInv
  BY <1>2 DEF LedgerInv, EffectsOK, OneDone, FulfilsOK, OnePickup
<1>6. Held
  BY <1>2 DEF Held, ThreadKeeps, Maybe
<1> QED BY <1>1, <1>4, <1>5, <1>6 DEF ApprovalInv

LEMMA NextApproval == ApprovalInv /\ [Next]_vars => ApprovalInv'
<1> SUFFICES ASSUME ApprovalInv, [Next]_vars PROVE ApprovalInv'
  OBVIOUS
<1>0. TypeInv'
  BY NextTyped DEF ApprovalInv
<1>1. ASSUME NEW r \in Requests, NEW s \in Sessions, (\E t \in Said : Receive(r, s, t)) \/ Approve(r, s)
      PROVE  ApprovalInv'
  BY <1>0, <1>1, ReceiveApproval, ApproveApproval
<1>2. ASSUME NEW r \in Requests,
             Apply(r) \/ ReadTool(r) \/ TooManyCalls(r) \/ WriteTool(r) \/ AfterWrite(r) \/ Refresh(r)
      PROVE  ApprovalInv'
  <2>1. ToolFails(r) => ApprovalInv'
    BY <1>0, Ended DEF ToolFails
  <2>2. WriteTool(r) => ApprovalInv'
    BY <1>0, <2>1, CommitIssueApproval, CheckoutApproval, DeliverApproval, InsertApproval, CancelIssueApproval,
       TransitionApproval, CommitReturnApproval, SelectReturnApproval, PickupApproval DEF WriteTool
  <2>3. TooManyCalls(r) => ApprovalInv'
    BY <1>0, Ended DEF TooManyCalls
  <2> QED BY <1>0, <1>2, <2>2, <2>3, ApplyApproval, ReadToolApproval, AfterWriteApproval, RefreshApproval
<1>3. ASSUME NEW s \in Sessions, Deny(s) PROVE ApprovalInv'
  BY <1>0, <1>3, DenyApproval
<1>4. CASE UNCHANGED vars
  <2>1. UNCHANGED <<loans, fulfils, done, slots, pending, approval, disturbed, request>>
    BY <1>4 DEF vars, ledger, asked
  <2>2. Kept /\ Grows
    BY <2>1, LoansGrow, LedgerParts DEF Kept, ApprovalInv
  <2>3. LedgerInv'
    BY <2>1, <2>2, NothingRecorded DEF ApprovalInv
  <2>4. CalmAlone' /\ OneSession'
    BY <2>1 DEF ApprovalInv, CalmAlone, Calm, Reads, OneSession, Live, Resumes
  <2>5. Cards'
    BY <2>1 DEF ApprovalInv, Cards, Card, Calm, Live, Resumes, Selections
  <2>6. Held'
    BY <2>1 DEF ApprovalInv, Held, ThreadKeeps, Maybe
  <2> QED BY <1>0, <2>3, <2>4, <2>5, <2>6 DEF ApprovalInv
<1> QED BY <1>0, <1>1, <1>2, <1>3, <1>4, OutsideApproval, CrashApproval DEF Next

LEMMA Approvals == Spec => []ApprovalInv
BY InitApproval, NextApproval, PTL DEF Spec

\* The theorems are about resume, which executes the tool of an approval with the slots of
\* the session as they are then, and not as they were on the card.  They put no condition
\* on MayOverlap: a message that is sent while the session is at work may change the slots
\* between a card and its tool, and the properties say so, as they are about the approvals
\* that nothing else in the session overlapped.

\* commit_issue: a loan that the agent issued is to the patron and of the copy of the card
\* that the librarian approved, for every history of the session, the same approval
\* answered by several threads, other clients and restarts included.
THEOREM IssueMatchesCard == Spec => []IssuedAsShown
BY Approvals, InvImpliesProperties, PTL

\* create_issue_fulfillment, in the transaction after the checkout: a delivery is of the
\* loan that its approval opened and of a card that said delivery, whichever thread
\* inserts it and whatever happened to the session and to the loan in between.
THEOREM DeliveryMatchesCard == Spec => []DeliveredAsShown
BY Approvals, InvImpliesProperties, PTL

\* resume: however often an approval is answered, and by however many threads at a time,
\* one loan is opened or closed or one pick-up asked for.  The key of the approval is what
\* prevents the second: the slots that choose the operation and the scope stay what they
\* were.
THEOREM ApprovedOnce == Spec => []OneEffectPerApproval
BY Approvals, InvImpliesProperties, PTL

\* commit_desk_return: the copy that is returned is the copy of the card, although the
\* tool takes the loan and the copy from the slots, and the workflow takes either.
THEOREM ReturnMatchesCard == Spec => []ReturnsShownCopy
BY Approvals, InvImpliesProperties, PTL

==============================================================================
