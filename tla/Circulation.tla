---------------------------- MODULE Circulation ----------------------------
(***************************************************************************)
(* The circulation kernel of the library: CirculationOrchestrator.checkout *)
(* and return_holding, the holding, policy and eligibility adapters they   *)
(* call, and the staff commands that run beside them (withdraw a holding,  *)
(* publish or suppress a title, suspend, exit, block or retype a patron,   *)
(* change a loan rule set).                                                *)
(*                                                                         *)
(* Every request runs in its own database session, in its own thread, on   *)
(* PostgreSQL at READ COMMITTED.  An action is one SQL statement, or       *)
(* several of which only one can be affected by another session.  A        *)
(* transaction's writes become visible together at its commit; a row lock  *)
(* (FOR UPDATE, or the implicit lock of an UPDATE) is held from the        *)
(* statement that takes it to the end of the transaction; leaving the      *)
(* handler with an error closes the session, which rolls back.             *)
(***************************************************************************)
EXTENDS Integers, FiniteSets

CONSTANTS
  Patrons, PatronTypes,   \* rows of patrons and patron_types
  Catalogs, Holdings,     \* rows of catalogs and holdings
  CatalogOf,              \* holdings.catalog_id
  Circulating,            \* the holdings whose circulating column is true
  LoanIds,                \* primary keys available to new loans (a bound)
  Keys,                   \* Idempotency-Key header values
  Sessions,               \* requests the server works on at the same time
  Limits, MaxLimit,       \* values of loan_rule_sets.max_active_loans, and a bound
  None                    \* SQL NULL, or a field a request leaves out

ASSUME CatalogOfAssumption   == CatalogOf \in [Holdings -> Catalogs]
ASSUME CirculatingAssumption == Circulating \subseteq Holdings
ASSUME LimitsAssumption      == MaxLimit \in Nat \ {0} /\ Limits \subseteq 0..MaxLimit
ASSUME FiniteAssumption      == IsFiniteSet(Sessions) /\ IsFiniteSet(LoanIds)
ASSUME NoneAssumption ==
  None \notin Patrons \cup PatronTypes \cup Holdings \cup LoanIds
                \cup Keys \cup Sessions \cup Limits
\* UUIDs of different tables do not collide.
ASSUME IdsAssumption == Holdings \cap LoanIds = {}

VARIABLES
  patrons,        \* patrons: status, blocked, patron_type_id
  limit,          \* max_active_loans of each type's rule set, None if unmapped
  catalogStatus,  \* catalogs.cataloging_status
  holdingStatus,  \* holdings.holding_status
  loans,          \* loans: state ("none": no such row), patron, holding
  idem,           \* the idempotency records
  holdingLock,    \* the session that holds the row lock, or None
  loanLock,
  pc, req, local, resp  \* of each session: where it is, its request, what its
                        \* transaction has read, its answer

tables == <<patrons, limit, catalogStatus, holdingStatus, loans, idem>>
locks  == <<holdingLock, loanLock>>
vars   == <<tables, locks, pc, req, local, resp>>

-----------------------------------------------------------------------------
(* Types *)

PatronRow == [status: {"ACTIVE", "SUSPENDED", "EXITED"}, blocked: BOOLEAN,
              type: PatronTypes]
LoanRow   == [state: {"none", "open", "returned"},
              patron: Patrons \cup {None}, holding: Holdings \cup {None}]
NoLoan    == [state |-> "none", patron |-> None, holding |-> None]

Request == [patron: Patrons \cup {None}, holding: Holdings \cup {None},
            op: {"none", "checkout", "return", "withdraw"},
            loan: LoanIds \cup {None}, key: Keys \cup {None}]
NoReq   == [patron |-> None, holding |-> None, op |-> "none",
            loan |-> None, key |-> None]

Scopes   == {"checkout", "return"} \X (Holdings \cup LoanIds)
Payloads == [patron: Patrons \cup {None}, holding: Holdings \cup {None},
             loan: LoanIds \cup {None}]
IdempotencyRecord == [key: Keys, scope: Scopes, payload: Payloads, result: LoanIds]

\* PatronEligibilitySnapshot (ptype, count); the loan being returned; and
\* returned_at of that loan as the session's identity map holds it.
Local   == [loan: LoanIds \cup {None}, ptype: PatronTypes \cup {None},
            count: Nat, view: {"unread", "open", "returned"}]
NoLocal == [loan |-> None, ptype |-> None, count |-> 0, view |-> "unread"]

Codes    == {0, 200, 201, 404, 409, 422, 500}
Response == [loan: LoanIds \cup {None}, code: Codes]
NoResp   == [loan |-> None, code |-> 0]

\* "workflow": the code of a workflow that calls the kernel (module DeskWorkflows).
PCs == {"idle", "workflow", "find_cached", "check_patron", "count_loans",
        "lock_holding", "resolve_policy", "commit_checkout", "lock_loan",
        "lock_loan_holding", "commit_return", "read_holding", "commit_withdraw", "done"}

TablesTypeOK ==
  /\ patrons \in [Patrons -> PatronRow]
  /\ limit \in [PatronTypes -> Limits \cup {None}]
  /\ catalogStatus \in [Catalogs -> {"DRAFT", "PUBLISHED", "SUPPRESSED"}]
  /\ holdingStatus \in [Holdings -> {"AVAILABLE", "ON_LOAN", "WITHDRAWN"}]
  /\ loans \in [LoanIds -> LoanRow]
  /\ idem \subseteq IdempotencyRecord

SessionsTypeOK ==
  /\ holdingLock \in [Holdings -> Sessions \cup {None}]
  /\ loanLock \in [LoanIds -> Sessions \cup {None}]
  /\ pc \in [Sessions -> PCs]
  /\ req \in [Sessions -> Request]
  /\ local \in [Sessions -> Local]
  /\ resp \in [Sessions -> Response]

\* The tables, the locks and the sessions hold values of their types.
TypeOK == TablesTypeOK /\ SessionsTypeOK

-----------------------------------------------------------------------------
(* Reads *)

OpenLoansOf(p) == {l \in LoanIds : loans[l].state = "open" /\ loans[l].patron = p}
OpenLoansOn(h) == {l \in LoanIds : loans[l].state = "open" /\ loans[l].holding = h}
Unused         == {l \in LoanIds : loans[l].state = "none"}

Eligible(p) == patrons[p].status = "ACTIVE" /\ ~patrons[p].blocked

\* Mutant of Lendable: any published circulating copy, whatever its status.
LendableAnyStatus(h) == catalogStatus[CatalogOf[h]] = "PUBLISHED" /\ h \in Circulating

Lendable(h) == /\ catalogStatus[CatalogOf[h]] = "PUBLISHED"
               /\ h \in Circulating
               /\ holdingStatus[h] = "AVAILABLE"

\* Mutant of WithinLimit: off by one.
WithinLimitInclusive(ptype, count) == limit[ptype] # None /\ count <= limit[ptype]

WithinLimit(ptype, count) == limit[ptype] # None /\ count < limit[ptype]

\* The partial unique index uq_loan_open_holding.
OpenLoanIndexConflict(h) == OpenLoansOn(h) # {}

-----------------------------------------------------------------------------
(* The idempotency store *)

Scope(q)   == <<q.op, IF q.holding # None THEN q.holding ELSE q.loan>>
Payload(q) == [patron |-> q.patron, holding |-> q.holding, loan |-> q.loan]

Stored(q) == {r \in idem : r.scope = Scope(q) /\ r.key = q.key}

\* Mutant of PayloadMatches: the payload hash is not compared.
PayloadIgnored(r, q) == TRUE
PayloadMatches(r, q) == r.payload = Payload(q)

\* Mutant of ScopeKeyConflict: the table without its unique constraint.
NoScopeKeyConflict(q) == FALSE
\* The unique constraint uq_idempotency_scope_key.
ScopeKeyConflict(q) == Stored(q) # {}

\* Mutant of Record: the body is stored without the loan's id.
RecordWithoutResult(q, l) ==
  [key |-> q.key, scope |-> Scope(q), payload |-> Payload(q), result |-> None]
Record(q, l) == [key |-> q.key, scope |-> Scope(q), payload |-> Payload(q), result |-> l]

-----------------------------------------------------------------------------
(* The end of a transaction and of a request *)

\* Mutant of FreeHolding: the holding is read without FOR UPDATE.
FreeHoldingUnlocked(h, s) == TRUE
FreeHolding(h, s) == holdingLock[h] \in {None, s}
FreeLoan(l, s)    == loanLock[l] \in {None, s}

\* Mutant of ReleaseLocks: the session is not closed after an answer.
ReleaseLoanLocks(s) ==
  /\ loanLock' = [l \in LoanIds |-> IF loanLock[l] = s THEN None ELSE loanLock[l]]
  /\ UNCHANGED holdingLock
ReleaseLocks(s) ==
  /\ holdingLock' = [h \in Holdings |-> IF holdingLock[h] = s THEN None ELSE holdingLock[h]]
  /\ loanLock' = [l \in LoanIds |-> IF loanLock[l] = s THEN None ELSE loanLock[l]]

Goto(s, label) == pc' = [pc EXCEPT ![s] = label]

\* The transaction ends and the handler returns (or raises).
Answer(s, code, l) ==
  /\ ReleaseLocks(s)
  /\ Goto(s, "done")
  /\ local' = [local EXCEPT ![s] = NoLocal]
  /\ resp' = [resp EXCEPT ![s] = [loan |-> l, code |-> code]]
  /\ UNCHANGED req

\* An exception: the session is closed, nothing of the transaction persists.
Fail(s, code) == Answer(s, code, None) /\ UNCHANGED tables

EndRequest(s) ==
  /\ ReleaseLocks(s)
  /\ Goto(s, "idle")
  /\ req' = [req EXCEPT ![s] = NoReq]
  /\ local' = [local EXCEPT ![s] = NoLocal]
  /\ resp' = [resp EXCEPT ![s] = NoResp]
  /\ UNCHANGED tables

-----------------------------------------------------------------------------
(* Requests arrive *)

Accept(s, q, label) ==
  /\ pc[s] = "idle"
  /\ Goto(s, label)
  /\ req' = [req EXCEPT ![s] = q]
  /\ UNCHANGED <<tables, locks, local, resp>>

CheckoutOf(p, h, k) ==
  [patron |-> p, holding |-> h, op |-> "checkout", loan |-> None, key |-> k]

\* The bound: a checkout starts only while a loan id is left for it, or when its
\* answer is stored and it will need none.
LoanIdLeft(q) ==
  \/ Stored(q) # {}
  \/ Cardinality({s \in Sessions : req[s].op = "checkout"}) < Cardinality(Unused)

PostCheckout(s, p, h, k) ==
  /\ LoanIdLeft(CheckoutOf(p, h, k))
  /\ Accept(s, CheckoutOf(p, h, k), "find_cached")

\* Both ids may be given, and both may be missing.
PostReturn(s, h, l, k) ==
  Accept(s, [patron |-> None, holding |-> h, op |-> "return", loan |-> l, key |-> k],
         "find_cached")

PostWithdraw(s, h) ==
  Accept(s, [patron |-> None, holding |-> h, op |-> "withdraw", loan |-> None, key |-> None],
         "read_holding")

-----------------------------------------------------------------------------
(* The prelude shared by checkout and return_holding: find_cached_response *)

RejectUnnamedReturn(s) ==
  /\ pc[s] = "find_cached"
  /\ req[s].holding = None /\ req[s].loan = None
  /\ Fail(s, 422)

CacheLookup(s) == /\ pc[s] = "find_cached"
                  /\ ~(req[s].holding = None /\ req[s].loan = None)

ReplayCached(s) ==
  /\ CacheLookup(s)
  /\ \E r \in Stored(req[s]) :
       /\ PayloadMatches(r, req[s])
       /\ Answer(s, IF req[s].op = "checkout" THEN 201 ELSE 200, r.result)
       /\ UNCHANGED tables

RejectReusedKey(s) ==
  /\ CacheLookup(s)
  /\ \E r \in Stored(req[s]) : ~PayloadMatches(r, req[s])
  /\ Fail(s, 409)

CacheMiss(s) ==
  /\ CacheLookup(s)
  /\ Stored(req[s]) = {}
  /\ Goto(s, IF req[s].op = "checkout" THEN "check_patron"
             ELSE IF req[s].holding # None THEN "lock_holding" ELSE "lock_loan")
  /\ UNCHANGED <<tables, locks, req, local, resp>>

-----------------------------------------------------------------------------
(* checkout *)

\* PatronEligibilityAdapter.check reads the patron (and its blocks) first ...
RejectPatron(s) ==
  /\ pc[s] = "check_patron"
  /\ ~Eligible(req[s].patron)
  /\ Fail(s, 422)

CheckPatron(s) ==
  /\ pc[s] = "check_patron"
  /\ Eligible(req[s].patron)
  /\ local' = [local EXCEPT ![s].ptype = patrons[req[s].patron].type]
  /\ Goto(s, "count_loans")
  /\ UNCHANGED <<tables, locks, req, resp>>

\* ... and counts the open loans with a later statement.
CountOpenLoans(s) ==
  /\ pc[s] = "count_loans"
  /\ local' = [local EXCEPT ![s].count = Cardinality(OpenLoansOf(req[s].patron))]
  /\ Goto(s, "lock_holding")
  /\ UNCHANGED <<tables, locks, req, resp>>

AwaitsCheckoutLock(s) ==
  /\ pc[s] = "lock_holding" /\ req[s].op = "checkout"
  /\ FreeHolding(req[s].holding, s)

RejectHolding(s) ==
  /\ AwaitsCheckoutLock(s)
  /\ ~Lendable(req[s].holding)
  /\ Fail(s, 422)

LockForCheckout(s) ==
  /\ AwaitsCheckoutLock(s)
  /\ Lendable(req[s].holding)
  /\ holdingLock' = [holdingLock EXCEPT ![req[s].holding] = s]
  /\ Goto(s, "resolve_policy")
  /\ UNCHANGED <<tables, loanLock, req, local, resp>>

\* No rule set for the type read earlier, or the count read earlier is at its limit.
RejectPolicy(s) ==
  /\ pc[s] = "resolve_policy"
  /\ ~WithinLimit(local[s].ptype, local[s].count)
  /\ Fail(s, 422)

ResolvePolicy(s) ==
  /\ pc[s] = "resolve_policy"
  /\ WithinLimit(local[s].ptype, local[s].count)
  /\ Goto(s, "commit_checkout")
  /\ UNCHANGED <<tables, locks, req, local, resp>>

\* IntegrityError from the flush of the loan or of the idempotency record.
AbortCheckout(s) ==
  /\ pc[s] = "commit_checkout"
  /\ OpenLoanIndexConflict(req[s].holding) \/ ScopeKeyConflict(req[s])
  /\ Fail(s, 500)

CommitCheckout(s) ==
  /\ pc[s] = "commit_checkout"
  /\ ~OpenLoanIndexConflict(req[s].holding) /\ ~ScopeKeyConflict(req[s])
  /\ \E l \in Unused :
       /\ loans' = [loans EXCEPT ![l] = [state |-> "open", patron |-> req[s].patron,
                                         holding |-> req[s].holding]]
       /\ holdingStatus' = [holdingStatus EXCEPT ![req[s].holding] = "ON_LOAN"]
       /\ idem' = idem \cup {Record(req[s], l)}
       /\ Answer(s, 201, l)
  /\ UNCHANGED <<patrons, limit, catalogStatus>>

-----------------------------------------------------------------------------
(* return_holding *)

AwaitsReturnLock(s) ==
  /\ pc[s] = "lock_holding" /\ req[s].op = "return"
  /\ FreeHolding(req[s].holding, s)

\* By holding: lock the holding, then read its open loan (a loan_id in the
\* request is not looked at).
RejectNoOpenLoan(s) ==
  /\ AwaitsReturnLock(s)
  /\ OpenLoansOn(req[s].holding) = {}
  /\ Fail(s, 404)

LockForReturn(s) ==
  /\ AwaitsReturnLock(s)
  /\ \E l \in OpenLoansOn(req[s].holding) :
       local' = [local EXCEPT ![s].loan = l, ![s].view = "open"]
  /\ holdingLock' = [holdingLock EXCEPT ![req[s].holding] = s]
  /\ Goto(s, "commit_return")
  /\ UNCHANGED <<tables, loanLock, req, resp>>

\* By loan: lock the loan, then its holding.
RejectNoLoan(s) ==
  /\ pc[s] = "lock_loan"
  /\ loans[req[s].loan].state = "none"
  /\ Fail(s, 404)

\* A loan object the session already holds is not refreshed by the locking read.
LockLoan(s) ==
  /\ pc[s] = "lock_loan"
  /\ loans[req[s].loan].state # "none"
  /\ FreeLoan(req[s].loan, s)
  /\ loanLock' = [loanLock EXCEPT ![req[s].loan] = s]
  /\ local' = [local EXCEPT ![s].loan = req[s].loan,
                            ![s].view = IF @ = "unread" THEN loans[req[s].loan].state ELSE @]
  /\ Goto(s, "lock_loan_holding")
  /\ UNCHANGED <<tables, holdingLock, req, resp>>

\* Mutant of LockHoldingOfLoan: return by loan trusts the loan's lock alone.
SkipHoldingOfLoan(s) ==
  /\ pc[s] = "lock_loan_holding"
  /\ Goto(s, "commit_return")
  /\ UNCHANGED <<tables, locks, req, local, resp>>

LockHoldingOfLoan(s) ==
  /\ pc[s] = "lock_loan_holding"
  /\ FreeHolding(loans[local[s].loan].holding, s)
  /\ holdingLock' = [holdingLock EXCEPT ![loans[local[s].loan].holding] = s]
  /\ Goto(s, "commit_return")
  /\ UNCHANGED <<tables, loanLock, req, local, resp>>

AbortReturn(s) ==
  /\ pc[s] = "commit_return"
  /\ local[s].view = "open" => FreeLoan(local[s].loan, s)
  /\ ScopeKeyConflict(req[s])
  /\ Fail(s, 500)

\* The loan was returned already: only the answer is recorded.
CommitRepeatedReturn(s) ==
  /\ pc[s] = "commit_return"
  /\ local[s].view = "returned"
  /\ ~ScopeKeyConflict(req[s])
  /\ idem' = idem \cup {Record(req[s], local[s].loan)}
  /\ Answer(s, 200, local[s].loan)
  /\ UNCHANGED <<patrons, limit, catalogStatus, holdingStatus, loans>>

\* The flush updates the loan's row, which waits for its lock.
CommitReturn(s) ==
  /\ pc[s] = "commit_return"
  /\ local[s].view = "open"
  /\ FreeLoan(local[s].loan, s)
  /\ ~ScopeKeyConflict(req[s])
  /\ loans' = [loans EXCEPT ![local[s].loan].state = "returned"]
  /\ holdingStatus' = [holdingStatus EXCEPT ![loans[local[s].loan].holding] = "AVAILABLE"]
  /\ idem' = idem \cup {Record(req[s], local[s].loan)}
  /\ Answer(s, 200, local[s].loan)
  /\ UNCHANGED <<patrons, limit, catalogStatus>>

-----------------------------------------------------------------------------
(* withdraw_holding: reads without a lock, writes at commit *)

RejectWithdraw(s) ==
  /\ pc[s] = "read_holding"
  /\ holdingStatus[req[s].holding] = "ON_LOAN"
  /\ Fail(s, 422)

\* Assigning the value already read emits no UPDATE.
RepeatWithdraw(s) ==
  /\ pc[s] = "read_holding"
  /\ holdingStatus[req[s].holding] = "WITHDRAWN"
  /\ Answer(s, 200, None)
  /\ UNCHANGED tables

ReadForWithdraw(s) ==
  /\ pc[s] = "read_holding"
  /\ holdingStatus[req[s].holding] = "AVAILABLE"
  /\ Goto(s, "commit_withdraw")
  /\ UNCHANGED <<tables, locks, req, local, resp>>

CommitWithdraw(s) ==
  /\ pc[s] = "commit_withdraw"
  /\ FreeHolding(req[s].holding, s)
  /\ holdingStatus' = [holdingStatus EXCEPT ![req[s].holding] = "WITHDRAWN"]
  /\ Answer(s, 200, None)
  /\ UNCHANGED <<patrons, limit, catalogStatus, loans, idem>>

-----------------------------------------------------------------------------
(* The client, and what can go wrong *)

Reply(s) == pc[s] = "done" /\ EndRequest(s)

\* The worker or its connection is lost, before or after the commit: the
\* transaction is rolled back if it has not committed and the client gets no
\* answer.  It may send the same request again.
Crash(s) == pc[s] # "idle" /\ EndRequest(s)

WaitsFor(s, t) ==
  \/ /\ pc[s] = "lock_loan_holding"
     /\ holdingLock[loans[local[s].loan].holding] = t
  \/ /\ pc[s] = "commit_return" /\ local[s].view = "open"
     /\ loanLock[local[s].loan] = t

\* PostgreSQL cancels one transaction of a wait cycle.
DeadlockVictim(s) ==
  /\ \E t \in Sessions \ {s} : WaitsFor(s, t) /\ WaitsFor(t, s)
  /\ Fail(s, 500)

-----------------------------------------------------------------------------
(* Commands of the catalog, reference and loan services that circulation    *)
(* reads the effects of: one UPDATE each, committed at once.                *)

otherThanPatrons == <<limit, catalogStatus, holdingStatus, loans, idem, locks,
                      pc, req, local, resp>>

SetPatronStatus(p, status) ==
  /\ patrons[p].status # status
  /\ patrons' = [patrons EXCEPT ![p].status = status]
  /\ UNCHANGED otherThanPatrons

SuspendPatron(p) == SetPatronStatus(p, "SUSPENDED")
ExitPatron(p)    == SetPatronStatus(p, "EXITED")

SetPatronBlock(p, b) ==
  /\ patrons[p].blocked # b
  /\ patrons' = [patrons EXCEPT ![p].blocked = b]
  /\ UNCHANGED otherThanPatrons

UpdatePatronType(p, t) ==
  /\ patrons[p].type # t
  /\ patrons' = [patrons EXCEPT ![p].type = t]
  /\ UNCHANGED otherThanPatrons

\* A rule set is mapped to the type, or the mapped one is changed.
UpdateLoanRuleSet(t, n) ==
  /\ limit[t] # n
  /\ limit' = [limit EXCEPT ![t] = n]
  /\ UNCHANGED <<patrons, catalogStatus, holdingStatus, loans, idem, locks,
                 pc, req, local, resp>>

SetCatalogingStatus(c, status) ==
  /\ catalogStatus[c] # status
  /\ catalogStatus' = [catalogStatus EXCEPT ![c] = status]
  /\ UNCHANGED <<patrons, limit, holdingStatus, loans, idem, locks, pc, req, local, resp>>

PublishCatalog(c)  == SetCatalogingStatus(c, "PUBLISHED")
SuppressCatalog(c) == SetCatalogingStatus(c, "SUPPRESSED")

-----------------------------------------------------------------------------
Init ==
  /\ patrons \in [Patrons -> {r \in PatronRow : r.status = "ACTIVE" /\ ~r.blocked}]
  /\ limit \in [PatronTypes -> Limits \cup {None}]
  /\ catalogStatus = [c \in Catalogs |-> "DRAFT"]
  /\ holdingStatus = [h \in Holdings |-> "AVAILABLE"]
  /\ loans = [l \in LoanIds |-> NoLoan]
  /\ idem = {}
  /\ holdingLock = [h \in Holdings |-> None]
  /\ loanLock = [l \in LoanIds |-> None]
  /\ pc = [s \in Sessions |-> "idle"]
  /\ req = [s \in Sessions |-> NoReq]
  /\ local = [s \in Sessions |-> NoLocal]
  /\ resp = [s \in Sessions |-> NoResp]

Post(s) ==
  \/ \E p \in Patrons, h \in Holdings, k \in Keys : PostCheckout(s, p, h, k)
  \/ \E h \in Holdings \cup {None}, l \in LoanIds \cup {None}, k \in Keys :
       PostReturn(s, h, l, k)
  \/ \E h \in Holdings : PostWithdraw(s, h)

\* The steps that wait for a row lock another session may hold.
LockingStep(s) ==
  \/ RejectHolding(s) \/ LockForCheckout(s)
  \/ RejectNoOpenLoan(s) \/ LockForReturn(s)
  \/ LockLoan(s) \/ LockHoldingOfLoan(s)
  \/ AbortReturn(s) \/ CommitReturn(s) \/ CommitWithdraw(s)

FreeStep(s) ==
  \/ RejectUnnamedReturn(s) \/ ReplayCached(s) \/ RejectReusedKey(s) \/ CacheMiss(s)
  \/ RejectPatron(s) \/ CheckPatron(s) \/ CountOpenLoans(s)
  \/ RejectPolicy(s) \/ ResolvePolicy(s) \/ AbortCheckout(s) \/ CommitCheckout(s)
  \/ RejectNoLoan(s) \/ CommitRepeatedReturn(s)
  \/ RejectWithdraw(s) \/ RepeatWithdraw(s) \/ ReadForWithdraw(s)
  \/ Reply(s)

SessionStep(s) == Post(s) \/ LockingStep(s) \/ FreeStep(s) \/ Crash(s) \/ DeadlockVictim(s)

StaffStep ==
  \/ \E p \in Patrons :
       \/ SuspendPatron(p) \/ ExitPatron(p)
       \/ \E b \in BOOLEAN : SetPatronBlock(p, b)
       \/ \E t \in PatronTypes : UpdatePatronType(p, t)
  \/ \E t \in PatronTypes, n \in Limits : UpdateLoanRuleSet(t, n)
  \/ \E c \in Catalogs : PublishCatalog(c) \/ SuppressCatalog(c)

Next == (\E s \in Sessions : SessionStep(s)) \/ StaffStep

Spec == Init /\ [][Next]_vars

-----------------------------------------------------------------------------
(* What circulation promises *)

\* A holding's status and the loan ledger agree, whatever the interleaving of
\* checkouts and returns: at most one open loan, none when the holding is
\* AVAILABLE, one when it is ON_LOAN (checkout and return_holding write both
\* sides in one transaction, under the holding's row lock).
HoldingMatchesLoans ==
  \A h \in Holdings :
    /\ \A l, m \in OpenLoansOn(h) : l = m
    /\ holdingStatus[h] = "AVAILABLE" => OpenLoansOn(h) = {}
    /\ holdingStatus[h] = "ON_LOAN" => OpenLoansOn(h) # {}

\* A checkout that has passed its checks still finds the holding lendable and
\* not on loan when it writes: the lock taken by lock_for_checkout is enough, and
\* the unique index uq_loan_open_holding is only a net.
CheckedHoldingStaysFree ==
  \A s \in Sessions :
    pc[s] \in {"resolve_policy", "commit_checkout"} =>
      /\ holdingStatus[req[s].holding] = "AVAILABLE"
      /\ OpenLoansOn(req[s].holding) = {}

\* One Idempotency-Key issues a holding at most once: every loan has the stored
\* response of the checkout that made it, and a (scope, key) pair has one stored
\* response (find_cached_response and store_response around the writes).
OneLoanPerKey ==
  /\ \A r, q \in idem : r.scope = q.scope /\ r.key = q.key => r = q
  /\ \A l \in LoanIds : loans[l].state # "none" =>
       \E r \in idem : /\ r.scope = <<"checkout", loans[l].holding>>
                       /\ r.payload.patron = loans[l].patron
                       /\ r.result = l

\* A success answer, replayed or not, is about what the request asked for: a 201
\* names a loan of this holding to this patron, a 200 to a return names a loan
\* that is closed, of the holding or with the id in the request.
AnswerFitsRequest ==
  \A s \in Sessions :
    LET l == resp[s].loan IN
      /\ resp[s].code = 201 => /\ loans[l].patron = req[s].patron
                               /\ loans[l].holding = req[s].holding
      /\ resp[s].code = 200 /\ req[s].op = "return" =>
           /\ loans[l].state = "returned"
           /\ IF req[s].holding # None THEN loans[l].holding = req[s].holding
                                       ELSE l = req[s].loan

\* The open loans of a holding change only in the commit of a session that holds
\* the holding's row lock, and a loan is never reopened nor moved to another
\* patron or holding.
LedgerChangesUnderLock ==
  [][/\ \A h \in Holdings : OpenLoansOn(h)' # OpenLoansOn(h) =>
          \E s \in Sessions : holdingLock[h] = s /\ pc[s] # "done" /\ pc'[s] = "done"
     /\ \A l \in LoanIds : loans[l].state # "none" =>
          /\ loans'[l].patron = loans[l].patron /\ loans'[l].holding = loans[l].holding
          /\ loans'[l].state = loans[l].state \/ loans'[l].state = "returned"
    ]_vars

\* Checkouts that count loans before taking a lock can exceed the limit, but never
\* by more than the other requests in flight: each uses a count it has read once.
LoanCapBound ==
  \A p \in Patrons :
    Cardinality(OpenLoansOf(p)) <= MaxLimit - 1 + Cardinality(Sessions)

\* Every request is answered or lost with its worker; none waits for ever, not
\* even a return by holding against a return by loan, which lock in opposite order.
EveryRequestEnds == \A s \in Sessions : pc[s] # "idle" ~> pc[s] = "idle"

-----------------------------------------------------------------------------
(* The ledger that circulation implements *)

BorrowersOf(h) == {loans[l].patron : l \in OpenLoansOn(h)}
IssuedPairs    == {<<r.scope[2], r.key>> : r \in {i \in idem : i.scope[1] = "checkout"}}

Ledger == INSTANCE LoanLedger
            WITH borrowers <- [h \in Holdings |-> BorrowersOf(h)], issued <- IssuedPairs

\* Seen through its open loans and stored checkouts, circulation is a LoanLedger:
\* each step of each session issues one free holding under a key not used for it
\* before, takes one back, or changes nothing.
ImplementsLedger == Ledger!Spec

=============================================================================
