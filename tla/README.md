# LMS-AI: a TLA+ model of library circulation

LMS-AI is a modular monolith (FastAPI, SQLAlchemy, PostgreSQL) for a school
library. Staff issue and return copies at a desk, through step-by-step
workflows, or by chatting with an agent that calls the same workflows. All
requests run concurrently, each in a thread with a database session of its own,
on PostgreSQL at READ COMMITTED. This directory models what these requests do to
each other, what a conversation with the agent may lead to, and how the master
data survive concurrent edits; it checks this with TLC and proves most of
the invariants, and that the kernel implements its abstract ledger, with TLAPS.
Paths below are relative to the repository.

## 1. The system

| Component | Source | State | Operations | Interaction |
|---|---|---|---|---|
| Circulation kernel | `src/lms/loan/application/circulation_orchestrator.py`, `policy_resolver.py` | `loans`, `loan_rule_sets` | `checkout`, `return_holding`, configure and update a rule set | locks and writes `holdings` through the catalog adapter, reads patrons through the eligibility adapter, stores answers in the idempotency store |
| Idempotency store | `src/lms/shared/idempotency/`, migration 001 | `idempotency_records` | `find_cached_response`, `store_response` | called inside every circulation transaction |
| Catalog | `src/lms/catalog/` | `catalogs`, `holdings` | draft, publish, suppress, add, withdraw, search | holdings are shared with circulation |
| Reference | `src/lms/reference/` | patrons, types, blocks, class sections | register, update, suspend, exit, block, clear, create a type or a section | read by eligibility checks |
| Fulfilment | `src/lms/loan/application/fulfillment_service.py` | `circulation_fulfillments` | create, transition, cancel | created after a checkout, completed by a return |
| Desk workflows | `src/lms/api/workflows/` | none of their own | issue (start, validate, commit, cancel), return (start, commit, pick-up) | compose the kernel with fulfilment in one or two transactions |
| Agent | `src/lms/agent/` | in-memory sessions: slots, pending approval, tool calls of the turn | message, resume, 32 intents, 15 read tools, 6 write tools | calls the workflows after a human approves |
| Reporting | `src/lms/reporting/` | none | read-only queries | reads loans and holdings |
| Authentication and roles | `src/lms/platform/`, `src/lms/shared/auth/` | users | login, role checks | in front of every request |
| Rate limiter | `src/lms/shared/http/security_middleware.py` | a window of times per client, in memory | allow or refuse | in front of every request |
| LLM gateway, guardrails, spend | `src/lms/shared/llm/` | `llm_spend_logs` | completion, filters, log | called by the agent's intent parser |
| Staff UI | `src/lms/staff/ui` | wizard state in the browser | issue and return wizards, chat | HTTP client |

What makes each of them correct:

* **Circulation kernel.** A holding's status and its loans agree; the limit of a patron's loans; a row changes only under its lock;
  a request in flight ends.
* **Idempotency store.** One effect per key; an answer that is replayed belongs
  to the request that asks for it.
* **Catalog, Reference.** A withdrawn copy is not on loan; the blocked flag agrees
  with the block rows; a patron who is suspended or has left is not reactivated by a
  session with an old row. (That barcodes, references and codes are unique is the
  database's constraint, and no more than that.)
* **Fulfilment.** Statuses follow the table of allowed transitions; a fulfilment
  and its loan change together.
* **Desk workflows.** What a workflow has validated still holds when it commits,
  or the kernel catches it; an issue with delivery ends with a fulfilment.
* **Agent.** No change without an approval, one change per approval, and the
  change is the one the approval showed, although the tool reads the slots again
  when it runs.
* **Rate limiter.** At most `max_requests` in any window.
* **Staff UI.** The answer that enables a button is about what is on screen.

## 2. What is hard about it

* Requests interleave at every SQL statement. Rows are protected only where the
  code takes `FOR UPDATE`; every other read can be stale when it is used.
* An object that a session has loaded is not refreshed by a later locking read.
* Requests are repeated: the same `Idempotency-Key` arrives again while the first
  request runs, after it commits, or with another payload.
* A worker can be lost before or after a commit; some workflows commit twice.
* Returns by loan and by holding take two row locks in opposite orders.
* An ORM session writes the columns it changed since it loaded the row: two sessions
  may each find nothing to write, or write back what another has changed.
* A thread of the agent keeps its session's slots across tools and transactions;
  an approval can be answered twice, or answered while a message is being handled;
  the sessions are lost with the process, the loans are not.
* A flushed fulfilment stays locked while the kernel waits for the loan and the
  holding, and inserting a fulfilment waits for both through its foreign keys.

`PROJECT.json` lists each hazard at its line with the properties that would catch
it, or with the reason why none does yet.

## 3. Modules

| Module | Models | Extends |
|---|---|---|
| `Circulation` | the kernel, the idempotency store, the staff commands that write what the kernel reads | |
| `LoanLedger` | the abstract specification of circulation: who has each copy, which key issued it | |
| `DeskWorkflows` | the issue and return workflows and fulfilment, around the kernel | `Circulation` |
| `AgentDesk` | the agent: parser, intents, tools, approvals; a workflow is taken transaction by transaction | |
| `Registry` | patrons, blocks and the coded tables under concurrent ORM sessions | |
| `CirculationProofs` | theorems about `Circulation`: types, locks | `Circulation`, `TLAPS` |
| `LedgerProofs`, `LoanCapProofs` | theorems about `Circulation`: keys, answers, refinement; the limit | `CirculationProofs` |
| `DeskProofs` | theorems about `DeskWorkflows` | `DeskWorkflows`, `CirculationProofs` |
| `RegistryProofs` | theorems about `Registry` | `Registry`, `TLAPS` |
| `AgentTypeProofs` | the type invariant of `AgentDesk` | `AgentDesk`, `TLAPS` |
| `AgentApprovalProofs` | theorems about `AgentDesk`: deny by default; what is approved is done, once | `AgentTypeProofs` |
| `MCCirculation`, `MCDeskWorkflows`, `MCAgentDesk`, `MCRegistry` | small instances, narrowed next-state relations and symmetry for TLC | the module they name |

### Circulation

The tables are `patrons`, `limit` (`max_active_loans` of the rule set mapped to a
patron type), `catalogStatus`, `holdingStatus`, `loans` and `idem`. `holdingLock`
and `loanLock` are the row locks. Each member of `Sessions` is a request with its
database session: `pc` is the statement it is about to execute, `req` the request,
`local` what the transaction has read, `resp` its answer.

An action is one SQL statement, or several of which only one can be affected by
another session. The writes of a transaction appear at its commit, which is one
action with everything the code writes before it (`CommitCheckout`: loan, holding,
stored response). A guard on a lock models the wait for it. A statement that ends
in an exception is an action of its own (`Reject...`, `Abort...`), closes the
session and releases the locks.

| Code | Actions |
|---|---|
| `checkout` (36-136) | `CacheLookup` family, `RejectPatron`, `CheckPatron`, `CountOpenLoans`, `RejectHolding`, `LockForCheckout`, `RejectPolicy`, `ResolvePolicy`, `AbortCheckout`, `CommitCheckout` |
| `return_holding` (138-238) | `CacheLookup` family, `RejectNoOpenLoan`, `LockForReturn`, `RejectNoLoan`, `LockLoan`, `LockHoldingOfLoan`, `AbortReturn`, `CommitRepeatedReturn`, `CommitReturn` |
| `withdraw_holding` | `RejectWithdraw`, `RepeatWithdraw`, `ReadForWithdraw`, `CommitWithdraw` |
| staff commands | `SuspendPatron`, `ExitPatron`, `SetPatronBlock`, `UpdatePatronType`, `UpdateLoanRuleSet`, `PublishCatalog`, `SuppressCatalog` |
| client, worker, database | `Reply`, `Crash`, `DeadlockVictim` |

### DeskWorkflows

`fulfil`, `deskIdem` and `fulfilLock` are the fulfilment rows, the stored answers
of pick-ups and transitions, and the row locks. `wf[s]` is what the workflow code
of a request knows. While the workflow's own code runs, `pc[s]` is `"workflow"`
and `wf[s].at` is the place in it; when it calls the orchestrator, `pc[s]` becomes
`"find_cached"` and the kernel's actions run unchanged (`KernelStep`); when the
kernel ends, what the workflow had flushed is committed or lost with it
(`EndsWithKernel`).

SQLAlchemy returns the object a session already holds and does not refresh it when
a locking read finds its row again (`populate_existing` is not used). `local.view`
(the loan of a cancel or confirmation), `wf.view` (the loan of a new fulfilment)
and `wf.seen` (the holding of a return by barcode) are those objects.

### AgentDesk

A librarian's message is a text class, the patrons and copies that match it and
whether it asks for delivery. `RuleParse` is the rule parser of
`intent_parser.py`: three lists of rules in the order of the code, the first that
applies. `LlmParse` is the language model: any action of `LlmActions`, for any text.

`slots`, `pending` and `calls` are a session in the memory of the process
(`IssueSlots`, the pending approval, `tool_calls_this_turn`). `request[r]` is a
thread: the session, the intent, the tool it runs next. A thread goes from tool to
tool, one action for each, and other threads run in between.

| Code | Definitions |
|---|---|
| `handle_message` up to the intent | `Receive`, `RuleParse`, `LlmParse` |
| `_apply_intent` and the handlers | `Apply`, `Handled` and what it names |
| `_run_tool`, the budget of a turn | `Calls`, `TooManyCalls` |
| the read tools of `tools.py` and what the handler does next | `ResolveTool` ... `SelectLoanTool`, with `Resolve` ... `SelectLoan` |
| `resume`, approve or deny | `Approve`, `Deny` |
| `commit_issue`: key and validation, checkout, fulfilment | `CommitIssue`, `Checkout`, `Deliver`, `InsertFulfilment` |
| an error between two transactions | `ToolFails` |
| the other write tools | `CancelIssue`, `TransitionFulfillment`, `CommitReturn`, `SelectReturn`, `InitiateReturnPickup` |
| the slots after a write, the refreshed list | `AfterWrite`, `Refresh` |
| other clients, a restart | `OutsideIssue`, `OutsideReturn`, `Crash` |

A step comes to an outcome: the slots after it, the tool to run next, the approval
to ask for (`Go`, `Done`, `Ask`). A write tool has an action for each transaction it
commits and one for the update of the slots after it; what another thread does to the
slots in between, or a crash there, is in the model. An issue is `CommitIssue` (the
slots and the stored answer of the key are read, `cached`; without an answer the issue
is validated), `Checkout` (the kernel's transaction, which looks the key up again and
may replay the loan of a duplicate), and for a delivery `Deliver` (a repeated issue
looks for its fulfilment, a first one requires the loan to be open) and
`InsertFulfilment`. `ToolFails` may end it before any of them with the approval still
pending. So a delivery can be lost, and two resumes that overlap can insert two.

`loans`, `fulfils` and `done` (the stored answers, by key, operation and scope) stand
for the library behind the workflows. A fulfilment carries the approval and the thread
that inserted it, which tells two of one loan apart.

`disturbed` is a history variable: no guard reads it. It collects the approvals whose
session was handling something else while they were asked for, or received a message
while they were running. The server accepts such messages (hazard at
`coordinator.py:98`), and they do change what an approval acts on (section 5), so the
properties below that compare an effect with its card are stated of the other
approvals. An approval that is answered several times, by several threads at once, is
not disturbed by that.

### Registry

`patron`, `block` and `codes` are the tables; `request[r]` is an ORM session: the
patron row as it was loaded (`seen`) and as it is in memory (`new`), the block row
or coded row to write. An operation is a read step (its checks and loads) and a
commit; `ClearPatronBlock` reads the other blocks and, only if none is left, the
patron (`ClearFlag`). `Flushed` is what the unit of work writes: the columns whose
value in memory differs from the one loaded. `PatronStep` and `StandingStep` are the
requests about a patron's row and about status and blocks, `CodeStep` those about the
coded tables. `KeyConflict` and `CodeConflict` are the unique constraints of migration
002. `TimePasses` moves a block into and out of its window.

## 4. Runs

| Run | Instance | What it shows |
|---|---|---|
| `kernel` | 2 requests, 1 copy, 1 patron, 2 keys, 2 loan ids; everything but the staff commands | `TypeOK`, `HoldingMatchesLoans`, `CheckedHoldingStaysFree`, `LedgerChangesUnderLock` |
| `keys` | 2 requests, 1 copy, 2 patrons, 1 key, 2 loan ids; patrons are suspended and exit | `OneLoanPerKey`, `AnswerFitsRequest`, and that circulation implements `LoanLedger` |
| `cap` | 2 requests, 3 copies, 2 patron types, limits 0 and 1, blocks, suppressed titles | `LoanCapBound`: racing checkouts exceed the limit by less than the number of requests |
| `desk` | 2 requests, 1 copy, 2 patrons, 2 fulfilments; every workflow | `DeskTypeOK`, `FulfilmentChangesWithReturn`, `AppliedOncePerKey` |
| `live` | 2 requests, 1 copy, 1 loan; deliveries, pick-ups, cancels, returns by barcode | `EveryRequestEnds` |
| `agent_desk` | 1 session, 1 thread at a time, 2 patrons of whom one is the namesake of the other, 2 copies, 2 loans, 1 approval; issues and returns at the desk with the list shown again after each, and a model that may ask for a return at any text | `AgentTypeOK`, `NothingWithoutApproval`, `ReturnsShownCopy`, `OneEffectPerApproval` |
| `agent_delivery` | 1 session, 2 threads, 1 copy, 2 loans, 2 approvals; issues for delivery, status, cancel, pick-up, and a model that may ask for an issue at any text; an approval may be answered again while it runs | `IssuedAsShown`, `OneEffectPerApproval`, `DeliveredAsShown` |
| `registry` | 2 ORM sessions, 2 patrons, 2 blocks, 2 rows, a key in small letters and its capital | `RegistryTypeOK`, `NeverClearedMeansBlocked`, `NoReactivation` |
| `copy_agrees_with_loan` | checkouts and cancels of one copy | violation of `CopyAgreesWithLoan` |
| `terminal_is_final` | workflows on one copy | violation of `TerminalIsFinal` |
| `agent_cancel` | the instance of `agent_delivery`, issues and cancels | violation of `CancelledAsShown` |
| `delivery_has_fulfilment` | issues for delivery of one copy, 1 key, crashes | violation of `DeliveryHasFulfilment` |

`HoldingMatchesLoans` and `CheckedHoldingStaysFree` hold of the kernel called from
`/loan` and are violated by the workflows that load an object before the kernel
locks it: this is what `copy_agrees_with_loan` shows. `DeskWorkflows` claims nothing
weaker in its place: that a copy has one open loan at most still holds there, by the
partial unique index alone.

Each agent run reaches part of the conversation. The return flow, its list and the
refresh after a write, which may run out of tool calls behind the commit, are in
`agent_desk`; the two transactions of an issue, and approvals that overlap, in
`agent_delivery`, whose texts stay in the issue flow. Neither has prompts of several
flows on at once, and no property speaks of them.

**Bounds.** Two requests run at a time, but a session takes a new request when the
last has ended, so any number of requests follow one another; a race of two
transactions is what every hazard of section 2 needs. Two loan ids let a copy be
lent again while a request about its first loan is still running; `cap` has three, for
two racing checkouts of a patron who has a loan. `LoanIds`, `FulfilIds` and `Keys` bound the rows
the database can hold: `LoanIdLeft` and `FulfilIdLeft` keep a request from
starting when it could find no id, and nothing else is cut off. Keys are reused
freely, so a small set of keys means more reuse, not less. `MaxLimit` only bounds
`Limits`. Patrons, copies, loans, keys, sessions and fulfilments are
interchangeable in every instance (no constant distinguishes two of them), so the
runs of safety properties use symmetry; `live` does not. Every `OneCatalog`
instance has one title and only circulating copies: the two guards in `Lendable`
it cannot tell apart are constants of the model.

In `AgentDesk` a session and a thread are reused without limit; `Keys` bounds the
approvals asked for (a turn that would ask for one more stops before), `LoanIds` the
loans ever made, `Said` the texts: those of an issue and a return at the desk in one
run, those of deliveries and their aftermath in the other, each with the prompts and
lists they lead to. `MayOverlap` says what a client sends while a thread of the session
runs: nothing in `agent_desk`, which has one thread; an approval, sent again by a retry
or from the card, in `agent_delivery` and `agent_cancel`. Messages that overlap a
running request mark approvals as `disturbed`, so they add many states and little to
what the properties claim: an instance with `"message"` in `MayOverlap`, one loan and no
model (2.4 million states) passes too, and the theorems cover any `MayOverlap`.
`LlmActions` is one action in each run, beside the rules: the one with which the model
can bring about the card the properties are about at any point of the conversation; the
theorems cover any set of them. Two threads are what the races on one session need.
Patrons are told apart by `Namesakes` and are not in the symmetry set, except in
`agent_delivery`, where each has a name of its own. In `Registry` patrons and coded tables share neither
rows nor sessions, and blocks of one patron do not touch another, so `MCNext` explores
the two parts, and blocks with one patron, separately. Two sessions that overlap are
what each of its hazards takes, and each runs any number of operations in turn.

Deadlock is checked in every run. A request may always be posted or lost with its
worker, so a deadlock would be a state where no request can start.

**Fairness.** `live` assumes what schedules the code: a thread that can run does
(weak fairness of `DeskReply`), PostgreSQL grants a row lock in order of arrival,
so a statement that can run again and again is not passed over for ever (strong
fairness of `WorkflowStep` and `KernelStep`), and its deadlock detector cancels a
transaction of a cycle (weak fairness of `DeskVictim`). Nothing is assumed of
clients, who need not send anything, nor of crashes, which may always or never
happen. The detector is needed: a return by loan and a return by holding lock the
same two rows in opposite orders.

## 5. What the code does not do

Each of these runs refutes a sentence of the repository; `PROJECT.json` quotes it.

* `copy_agrees_with_loan`: `cancel_issue` holds a loan object from before the
  lock, returns a loan that is closed already, and frees a copy that has been lent
  to somebody else. Two other ways to the same disagreement are in the model: a
  return by barcode holds the copy as `AVAILABLE` from before the lock, so closing
  the loan emits no `UPDATE` for the copy (`return_by_barcode.py:218`), and
  `withdraw_holding` reads without a lock and overwrites `ON_LOAN`
  (`catalog/application/service.py:187`).
* `terminal_is_final`: `transition` reads, checks and writes without a lock; also
  `confirm_pickup_received` sets `COMPLETED` whatever the status.
* `agent_cancel`: the card of a cancellation names the patron and the copy of the
  slots, and the tool cancels the loan of the slots. Identifying another patron
  changes the first and leaves the second.
* `delivery_has_fulfilment`: the checkout and the fulfilment of a delivery are two
  transactions. A worker lost between them leaves a delivery without a fulfilment; the
  retry finds the stored answer of the checkout, only looks for the fulfilment, and
  answers 201 without one. The other way to break the property is in the model too: two
  requests with one key that both looked it up before the first committed insert two,
  since nothing is unique about a loan and a direction.

More differences were met while modelling and have no run of their own:

* The count of open loans is read before any lock, and the lock is the holding's:
  two checkouts of different copies both pass the limit that `docs/loan.md:407` and
  `:551` call a hard one. `LoanCapBound` is what remains.
* A block can be lost from sight, against `docs/reference.md:455`: the clear of the
  last block reads the patron's blocks; a second block is set; a third session loads
  the patron with the flag True; the clear commits False; the third commits a block
  and, having found True and wanting True, writes no flag.
  `NeverClearedMeansBlocked` is what remains: until a block has been cleared, no
  overlap of sessions loses the flag. Eligibility then compares one arbitrary
  active block with the clock (`patron_eligibility.py:27`).
* The desk list of a patron is searched for by display name, so it shows the loans
  of every patron whose name contains it (`Namesakes`).
* A return approved with a card "Return {title} ({barcode}) from {patron_name}"
  (`messages.py:745-746`) goes by the copy: when the copy is returned and lent again
  while the card is shown, the loan of the next borrower is closed. TLC finds it in 11
  states; the run kept for a card and a tool that disagree about a patron is
  `agent_cancel`.
* "cancel" may lead nowhere: production requires the language model
  (`config.py:122-126`), which then parses every text, "cancel" included
  (`intent_parser.py:802-811`). Besides, when it answers a text outside the desk flow
  with `DESK_START_RETURN` or `PROVIDE_PATRON_FOR_DESK`, or with `REQUEST_COMMIT_RETURN`
  while a choice from the desk list is awaited (`coordinator.py:818`, `:537`), the
  choice is awaited with no flow that a decline would end, and every text is a choice
  again. No property claims that a decline makes progress.
* Two messages of one session that overlap can show a card of one copy and issue
  another: one searches the catalogue while the other shows the card.
* The end of `resume` clears whichever approval is pending then: with the page open
  in two tabs, the answer to one approval can drop the next.
* Eligibility is validated before the lock, where `docs/MVP.md:854-855` lists the
  lock first. Of two requests with one key that run together, the later one is
  answered 422 or 500 and not with the stored answer of `docs/MVP.md:866`. A
  transition to `COMPLETED` can commit after the loan was returned, against
  `docs/MVP.md:336`, by the unlocked read that `terminal_is_final` shows.

## 6. Proofs

All theorems hold for any number of sessions, patrons, copies, loans, fulfilments,
keys, threads and texts, under the named assumptions on the constants; TLC evaluates
the assumptions on every instance.

`CirculationProofs` (assumptions `CatalogOfAssumption`, `CirculatingAssumption`,
`LimitsAssumption`, `FiniteAssumption`, `NoneAssumption`, `IdsAssumption` of
`Circulation`):

* `TypeCorrect`: `Spec => []TypeOK`. `TypeOK` alone is not inductive: it needs
  `RequestsWellFormed` (a session inside `checkout` has a patron, a copy and a key;
  one inside `return_holding` names a loan or a copy) and `LoansWellFormed` (a loan
  that exists has a patron and a copy). `TypeInv` joins the three.
* `HoldingMatchesLoansAlways`: `Spec => []HoldingMatchesLoans`.
* `CheckedHoldingStaysFreeAlways`: `Spec => []CheckedHoldingStaysFree`.

The inductive invariant of the last two is `TypeInv /\ SafeInv`, where `SafeInv`
joins `HoldingMatchesLoans` with `LocksProtect(s)` for every session: a session
that has passed a lock holds it, and what it read under the lock (the copy is
`AVAILABLE`; the loan is of the locked copy, and open or returned as it was read) is
still so.
`HoldingMatchesLoans` by itself is not preserved by `CommitCheckout`, whose guard
does not look at the status: that the status is still what `LockForCheckout` saw is
`LocksProtect`. Two sessions cannot both hold the row, so the commit of one
leaves what `LocksProtect` says of the others alone (`OthersSafe`). The proof has a
lemma for requests that arrive, for steps that only read or lock, for steps that
answer, and one for each commit.

`LedgerProofs` builds on `SafeInv` and proves the rest of what the kernel promises:

* `OneLoanPerKeyAlways` and `AnswerFitsRequestAlways`. Neither is inductive alone: a
  replay answers from a record, so the invariant `KeyInv` says of every stored
  response that its loan is what its scope and payload name (`RecordHolds`) and of
  every session that its answer is (`AnswerHolds`). A return's record needs the
  loan of `LocksProtect`.
* `LedgerChangesUnderLockAlways`: `StepKinds` reduces a step to the commit of a
  checkout, the commit of a return, a repeated return, or no change of the loans;
  `LocksProtect` says that the committing session holds the row.
* `LedgerImplemented`: `Spec => ImplementsLedger`. A checkout's commit maps to
  `Issue` (`CheckoutIssues`: the copy is free by `CheckedHoldingStaysFree`, the key
  unused by the unique constraint and `KeyInv`), a return's to `Return`
  (`ReturnReturns`), every other step to a stutter (`OthersStutter`).

`LoanCapProofs` proves `LoanCapBoundAlways`. The open loans of a patron can exceed
the limit because a count is read before the commit, so the bound is not inductive.
`CapInv` counts the open loans of a patron together with the checkouts that may
still issue to it: a checkout past its count keeps one loan of the bound in reserve,
and gives it back when it commits or fails. The facts about cardinalities are those
of the library `FiniteSetTheorems`.

`DeskProofs` (also `FulfilIdsAssumption`) is about `DeskWorkflows`:

* `DeskTypeCorrect`. `DeskInv` joins the kernel's `TypeInv`, whose lemmas are reused
  for the kernel's steps, with what the workflow code knows at each place
  (`WorkflowFormed`), what the kernel has read (`KernelReads`), and that fulfilments
  are of loans and stored responses of loans that exist. `LocksProtect` is not part
  of it: it does not hold here, since a workflow hands the kernel a loan or a copy
  it read before the lock.
* `AppliedOncePerKeyAlways`: the only writers of fulfilments and records are the
  four steps of `WritingSteps`.
* `FulfilmentChangesWithReturnAlways`: what a workflow has flushed is of the loan of
  its request, and `KernelReads` says that the kernel's commit is about that loan.

`RegistryProofs` (assumptions `UpperAssumption`, `RegistryNoneAssumption`) proves
`RegistryTypeCorrect`, `NoReactivationAlways` and `NeverClearedMeansBlockedAlways`. `Sound(r)` says what an ORM session has in hand, and
that a new patron or block is known to one session only. `NoReactivation` holds because
a commit that writes `ACTIVE` is that of a patron who was not registered yet.
`FlagInv` covers the block sessions: until the first clear, a blocked patron has the
flag, or a session that is about to commit the block will write it.

`AgentTypeProofs` (assumptions `NamesakesAssumption`, `ToolCallsAssumption`,
`AgentNoneAssumption`, `SaidAssumption`, `LlmActionsAssumption` of `AgentDesk`) proves
`AgentTypeCorrect`. `AgentTypeOK` is not inductive: a write tool takes the patron, the
copy, the loan or the fulfilment from the slots and would write `None` into a table.
`TypeInv` adds what a thread has in hand at each tool (`ThreadOK`), that the slots name
rows that exist, that an approval that is pending or running was asked for, and that an
answer of the store is of a loan that exists. Each handler and each read tool has a
lemma on the outcome it comes to.

`AgentApprovalProofs` proves `NothingWithoutApprovalAlways` for arbitrary intents, texts
and slots. The invariant `ApprovedInv` adds `Granted` (a thread at the tool of an
approval has a granted one): the handlers and the read tools never come to the
"execute" step, whatever the language model answers.

It also proves `IssueMatchesCard`, `DeliveryMatchesCard`, `ApprovedOnce` and
`ReturnMatchesCard`, with no assumption on `MayOverlap` or on the model, from `TypeInv`
and the rest of `ApprovalInv`. An approval is live while it is pending or a thread
executes it, and calm while it is live and not disturbed.

* `CalmAlone`: a session with a calm approval answers no message and executes no other
  approval. That is what `disturbed` was introduced for: a step that would break it
  disturbs every live approval of the session (`ReceiveApproval`, `AskStep`).
* `OneSession`: an approval belongs to one session.
* `Cards`: under a calm approval the slots of its session, and the slots that each of its
  threads read when it started (`Selections`), agree with the card in what the tool of
  that kind acts on. They agree when the card is shown; the steps that change the slots
  meanwhile (a second thread with the same approval, the update after its write, a
  restored selection) keep them (`CardMoved`). Without the slots that threads remember it
  is not inductive, since a failed return puts them back.
* `LedgerInv`: every effect is what the card of its key says (`EffectsOK`), and there is
  one under a key that is not disturbed (`OneDone`). Two threads with one approval come
  to the same operation, scope and row, which is why the second finds the answer of the
  first in the store. Every fulfilment was recorded under its key (`FulfilsOK`): that of
  an issue has a checkout with its key and its loan.
* `Held`: between the two transactions of an issue a thread holds the loan of a checkout
  recorded under its approval (`ThreadKeeps`), so what it inserts is of that loan however
  long it takes and whatever happens to the loan meanwhile.

`DeliveredAsShown` does not say that a delivery has a fulfilment, or one only: neither is
so (`delivery_has_fulfilment`). `OneEffectPerApproval` speaks of loans and pick-ups for
the same reason. Both, and `IssuedAsShown` and `ReturnsShownCopy`, are of approvals that
are not disturbed, and this is needed: with `"message"` in `MayOverlap` TLC gives the
trace at the end of section 5 for the properties without it.

Only model-checked: liveness (`EveryRequestEnds`), which is out of the prover's reach.
Every other property of a passing run is stated by a theorem.

## 7. Simplifications

* Identifiers that do not exist (404 of a patron, holding or fulfilment) are left
  out, except a loan, which may not exist yet.
* Patron status, flag and blocks are read as one statement, and `blocked` is the
  flag; the block rows and their time windows are left out. The reads of the
  previews (`validate_patron`) are one step: nothing they read is used later.
* Due dates, calendars, notes and destinations are left out; a pick-up has one
  destination, so a key reused with another destination does not occur. The status
  `NOT_REQUIRED` and the holding statuses `DAMAGED` and `LOST` are never assigned
  by the code, except that `transition` accepts `NOT_REQUIRED` as a target and
  always refuses it.
* Each patron type is mapped to a rule set of its own.
* Stored answers do not expire (24 hours in the code).
* Copies exist from the start and their title is a draft (`Init`); adding copies is
  not modelled. The desk instances leave the staff commands, but for publishing, to
  the runs of the kernel.
* In `AgentDesk`: the pseudonyms of patrons and copies are the ids they stand for;
  result lists have no limit (5, 10 or 20 in the code); an intent names a patron in one
  way; the status and target of a fulfilment are left to `DeskWorkflows`, and so are
  the statements within a transaction, which is one action here; what eligibility answers is any Boolean; fields
  that only shape an answer (`active_flow`, criteria, messages) are left out.
* In `Registry`: one key column stands for `external_ref` and `card_barcode`, and one
  code column for each coded table; names, types and sections of a patron are left
  out; an operation that its checks refuse changes nothing and has no action.
* The external package behind the idempotency store is modelled from how
  `shared/idempotency` uses it and from migration 001; PostgreSQL from the locks and
  constraints the code relies on.

## 8. What is not modelled

* **Agent support** (masking, prompts, tracing): text and telemetry; the answer of
  the language model is any intent in `AgentDesk`. `graph.py` wraps the coordinator
  in LangGraph and is not called by it; the summary of a session is read-only.
* **Reporting**: read-only.
* **Authentication and roles**: each request is decided from its token and a fixed
  table; no state, no interleaving.
* **Rate limiter**: a list of times per client, read and written in one event loop
  without an `await` in between; a sequential program that nothing else depends on.
* **Staff UI**: pages keep no state the server relies on. An answer that arrives
  late may enable the button of another copy, but the commit it sends is validated
  again on the server, which is where `Circulation` and `DeskWorkflows` begin.
* **LLM gateway, guardrails, spend log, redaction, logging**: calls to an
  external model and append-only records nothing else reads.
* **Configuration, scripts, migrations as programs**: nothing runs after start-up.

## 9. Order of the work and what is left

1. `Circulation`, `LoanLedger`: the kernel and what it promises.
2. `CirculationProofs`: its types, its central invariant.
3. `DeskWorkflows`: the workflows around it.
4. `AgentDesk`: the agent, and that it denies by default.
5. `Registry`, `RegistryProofs`: master data under concurrent sessions.
6. `LedgerProofs`, `LoanCapProofs`: keys, answers, the limit, the refinement of
   `LoanLedger`.
7. `DeskProofs`: the workflows' types and promises.
8. `AgentTypeProofs`, `AgentApprovalProofs`: the agent's types, and that it does what
   was approved, once.

Left: the lookups by display name, the two tabs and the return of a later borrower's
loan of section 5 as runs of their own; conversations with prompts of several flows;
the window of the rate limiter; the expiry of stored answers, once the package that
deletes them is part of the source.
