----------------------------- MODULE AgentDesk -----------------------------
(***************************************************************************)
(* The desk agent: a librarian writes messages, the agent parses each into *)
(* an intent, runs read tools that fill the slots of the session, and asks *)
(* for an approval before it runs a tool that changes the library.  The    *)
(* approval shows what the slots held when it was asked for; the tool acts *)
(* on what they hold when it runs.                                         *)
(*                                                                         *)
(* A request is a thread of the server.  It goes from tool to tool, one    *)
(* step for each, and other requests run in between.  A tool that writes   *)
(* has a step for each transaction and one for the update of the slots     *)
(* after it; an issue looks the key up and validates, checks out, and then *)
(* creates the delivery in a transaction of its own.  Circulation and      *)
(* DeskWorkflows show what happens inside a transaction.                   *)
(***************************************************************************)
EXTENDS Naturals, Sequences, FiniteSets

CONSTANTS
  Patrons, Holdings, LoanIds,
  Sessions,      \* the agent's sessions, in the memory of the process
  Requests,      \* the threads that run messages and approvals
  Keys,          \* idempotency keys of approvals, one uuid4 for each
  Namesakes,     \* the patrons that a search for a patron's display name finds
  Said,          \* the texts librarians write
  LlmActions,    \* the actions the model may answer with, for any text
  MaxToolCalls,  \* agent_max_tool_calls_per_turn
  MayOverlap,    \* the requests ("message", "resume") that a client sends while
                 \* another of the same session is running
  None

ASSUME NamesakesAssumption ==
  /\ Namesakes \in [Patrons -> SUBSET Patrons]
  /\ \A p \in Patrons : p \in Namesakes[p]
ASSUME ToolCallsAssumption == MaxToolCalls \in Nat \ {0}
ASSUME AgentNoneAssumption == None \notin Patrons \cup Holdings \cup LoanIds \cup Keys \cup Sessions

VARIABLES
  loans,     \* the table of loans
  fulfils,   \* the fulfilments that exist
  done,      \* what approvals have done: the stored responses of their keys
  slots,     \* IssueSlots of each session
  pending,   \* the key of the pending approval of each session
  calls,     \* tool_calls_this_turn of each session
  approval,  \* the approval asked for under each key
  approved,  \* the keys a librarian has approved
  disturbed, \* history: the keys whose session was handling something else while
             \* the approval was asked for, pending or running
  request    \* what each thread is doing

ledger == <<loans, fulfils, done>>
asked  == <<approval, approved, disturbed>>
vars   == <<ledger, slots, pending, calls, asked, request>>

-----------------------------------------------------------------------------
(* Data *)

Maybe(S) == S \cup {None}

LoanRow    == [state: {"unused", "open", "closed"}, patron: Maybe(Patrons), holding: Maybe(Holdings)]
UnusedLoan == [state |-> "unused", patron |-> None, holding |-> None]
\* A fulfilment: direction, loan, and the approval and the thread that inserted it.
Fulfils    == {"ISSUE", "RETURN"} \X LoanIds \X Keys \X Requests

\* awaiting_patron, awaiting_book_criteria, awaiting_desk_patron,
\* awaiting_desk_next_action, awaiting_desk_return_pick,
\* awaiting_catalog_criteria and awaiting_patron_lookup that are True.
Prompts == {"patron", "book", "deskPatron", "deskNext", "deskPick", "catalog", "lookup"}
\* guided_issue_active, guided_return_active, guided_catalog_active,
\* guided_patron_lookup_active.
Flows   == {"issue", "return", "catalog", "lookup"}

Slots == [patron: Maybe(Patrons), holding: Maybe(Holdings), loan: Maybe(LoanIds),
          fulfil: Maybe(Fulfils), mode: {"DESK", "DELIVERY"}, due: BOOLEAN,
          patronCands: SUBSET Patrons, copyCands: SUBSET Holdings, loanCands: SUBSET LoanIds,
          awaiting: SUBSET Prompts, guided: SUBSET Flows, returnIntent: BOOLEAN]
EmptySlots ==
  [patron |-> None, holding |-> None, loan |-> None, fulfil |-> None, mode |-> "DESK",
   due |-> FALSE, patronCands |-> {}, copyCands |-> {}, loanCands |-> {},
   awaiting |-> {}, guided |-> {}, returnIntent |-> FALSE]

Kinds == {"COMMIT_ISSUE", "TRANSITION_FULFILLMENT", "CANCEL_ISSUE",
          "COMMIT_RETURN", "SELECT_RETURN", "INITIATE_RETURN_PICKUP"}
Approval == [kind: Kinds, patron: Maybe(Patrons), holding: Maybe(Holdings),
             mode: {"DESK", "DELIVERY"}, loan: Maybe(LoanIds)]
NoApproval == [kind |-> "none", patron |-> None, holding |-> None, mode |-> "DESK", loan |-> None]

Effect == [key: Keys, op: {"checkout", "return", "transition", "pickup"},
           on: Holdings \cup LoanIds \cup Fulfils, patron: Maybe(Patrons), loan: LoanIds]

\* A text, by what the regular expressions of the parser find in it, by the
\* patrons that match it as a card, an admission number or part of a name, and
\* by the copies that match it as a barcode or part of a title.
TextClasses ==
  {"cancel", "key", "barcode", "scan", "returnBarcode", "done", "issue", "proceed", "issueBook",
   "issueTo", "issueBookTo", "issueTitleTo", "browse", "lookupPatron", "find", "returnBook",
   "returnTitle", "returnFrom", "completeReturn", "pickup", "loansOf", "status", "cancelIssue",
   "hello", "words", "sentence"}
Text == [class: TextClasses, who: SUBSET Patrons, what: SUBSET Holdings, deliver: BOOLEAN]
ASSUME SaidAssumption == Said \subseteq Text

Actions ==
  {"CHAT", "APPROVE", "SEARCH_PATRON", "SEARCH_CATALOG", "SELECT_CATALOG_COPY", "SELECT_BARCODE",
   "ISSUE_TO_PATRON", "START_ISSUE_TO_PATRON", "PROVIDE_PATRON_FOR_ISSUE",
   "PROVIDE_BOOK_CRITERIA", "START_RETURN", "START_PATRON_DESK", "PROVIDE_PATRON_FOR_DESK",
   "DESK_START_RETURN", "DESK_START_ISSUE", "DESK_START_CATALOG", "DESK_SESSION_DONE",
   "START_CATALOG_SEARCH", "PROVIDE_CATALOG_CRITERIA", "START_PATRON_LOOKUP",
   "PROVIDE_PATRON_LOOKUP", "SELECT_PATRON", "DECLINE_CONTINUE", "SET_FULFILLMENT",
   "REQUEST_COMMIT", "REQUEST_CANCEL_ISSUE", "REQUEST_FULFILLMENT_TRANSITION", "LOOKUP_RETURN",
   "SEARCH_RETURN", "SELECT_RETURN_LOAN", "REQUEST_COMMIT_RETURN", "REQUEST_RETURN_PICKUP"}
ASSUME LlmActionsAssumption == LlmActions \subseteq Actions
\* by: how the patron is named; code: how the copy is named.  who and what are
\* those of the text, for the tools that fall back on it.
Intent == [action: Actions, by: {"none", "key", "name"}, who: SUBSET Patrons,
           code: {"none", "barcode", "title"}, what: SUBSET Holdings,
           mode: {"DESK", "DELIVERY", "unsaid"}, explicit: BOOLEAN]
NoIntent == [action |-> "CHAT", by |-> "none", who |-> {}, code |-> "none", what |-> {},
             mode |-> "unsaid", explicit |-> FALSE]

ReadTools == {"resolve", "searchPatrons", "resolveId", "listLoans", "lookup", "searchCatalog",
              "selectCopy", "selectPatron", "selectBarcode", "searchLendable", "validate",
              "fulfilStatus", "searchReturn", "selectLoan", "refresh"}
Steps     == {"idle", "apply", "execute", "checkout", "deliver", "insert", "executed"} \cup ReadTools
\* result, loan, fulfil: what the transactions of a write tool answered with.
\* cached: an issue found its key answered already.
Request == [session: Maybe(Sessions), at: Steps, intent: Intent, key: Maybe(Keys),
            result: {"none", "ok", "error"}, loan: Maybe(LoanIds), fulfil: Maybe(Fulfils),
            cached: BOOLEAN, seen: Slots]
NoRequest == [session |-> None, at |-> "idle", intent |-> NoIntent, key |-> None,
              result |-> "none", loan |-> None, fulfil |-> None, cached |-> FALSE,
              seen |-> EmptySlots]

-----------------------------------------------------------------------------
(* The rule-based parser *)

\* The action of the first rule that applies.
First(rules) ==
  LET n == CHOOSE i \in DOMAIN rules : rules[i][1] /\ \A j \in 1 .. i - 1 : ~rules[j][1]
  IN rules[n]

CapturingPrompts == Prompts \ {"deskNext"}

\* Contexts in which "cancel", "no" or "stop" is a request to leave the flow.
Declinable(sl) ==
  \/ "issue" \in sl.guided /\ sl.loan = None
  \/ sl.guided \ {"issue"} # {}
  \/ sl.awaiting \cap CapturingPrompts # {}

NamesBarcode(t) == t.class \in {"barcode", "returnBarcode"}
IsShort(t)      == t.class \notin {"sentence", "loansOf", "issueBookTo"}
By(t)           == IF t.class = "key" THEN "key" ELSE "name"

\* Rules <<condition, action, by, code>> in the order of the code; the last one
\* always applies.  The first block answers a prompt of the agent.
PromptRules(t, sl) ==
  LET asks(x) == x \in sl.awaiting IN
  << <<t.class = "cancel" /\ Declinable(sl), "DECLINE_CONTINUE", "none", "none">>,
     <<asks("lookup"), "PROVIDE_PATRON_LOOKUP", By(t), "none">>,
     <<asks("deskPatron") /\ (NamesBarcode(t) \/ t.class = "scan"),
       "PROVIDE_PATRON_FOR_DESK", "none", "barcode">>,
     <<asks("deskPatron"), "PROVIDE_PATRON_FOR_DESK", By(t), "none">>,
     <<asks("deskPick"), "SELECT_RETURN_LOAN", "none", "title">>,
     <<asks("deskNext") /\ t.class = "done", "DESK_SESSION_DONE", "none", "none">>,
     <<asks("deskNext") /\ t.class \in {"issue", "issueBook"}, "DESK_START_ISSUE", "none", "none">>,
     <<asks("deskNext") /\ t.class = "browse", "DESK_START_CATALOG", "none", "none">>,
     <<asks("deskNext") /\ t.class = "returnBook", "DESK_START_RETURN", "none", "none">>,
     <<asks("deskNext") /\ t.class = "completeReturn", "REQUEST_COMMIT_RETURN", "none", "none">>,
     <<asks("deskNext") /\ t.class = "pickup", "REQUEST_RETURN_PICKUP", "none", "none">>,
     <<asks("deskNext") /\ sl.loanCands # {}, "SELECT_RETURN_LOAN", "none", "title">>,
     <<asks("catalog"), "PROVIDE_CATALOG_CRITERIA", "none", "title">>,
     <<asks("patron"), "PROVIDE_PATRON_FOR_ISSUE", By(t), "none">>,
     <<asks("book"), "PROVIDE_BOOK_CRITERIA", "none", "title">> >>

\* The second block chooses from a list or answers about the selected copy.
SelectionRules(t, sl) ==
  << <<sl.patronCands # {}, "SELECT_PATRON", By(t), "none">>,
     <<sl.patron # None /\ sl.holding # None /\ t.class \in {"proceed", "issue"},
       "REQUEST_COMMIT", "none", "none">>,
     <<sl.loanCands # {} /\ t.class \notin {"completeReturn", "pickup"},
       "SELECT_RETURN_LOAN", "none", "title">>,
     <<sl.copyCands # {} /\ NamesBarcode(t), "SELECT_CATALOG_COPY", "none", "barcode">>,
     <<sl.copyCands # {} /\ t.class \notin {"issueTo", "proceed", "issue"},
       "SELECT_CATALOG_COPY", "none", "title">>,
     <<sl.holding # None /\ sl.patron = None /\ "catalog" \notin sl.guided
         /\ (t.class = "issueTo" \/ IsShort(t)), "ISSUE_TO_PATRON", "name", "none">>,
     <<"issue" \in sl.guided /\ sl.loan = None /\ t.class = "issue",
       "REQUEST_COMMIT", "none", "none">> >>

\* The third block takes the text by itself.
\* _parse_issued_books_query: "books issued to ...", with or without a patron.
IssuedBooksRules(t) ==
  << <<t.class = "loansOf" /\ t.who = {}, "START_PATRON_DESK", "none", "none">>,
     <<t.class = "loansOf", "START_PATRON_DESK", "name", "none">> >>

TextRules(t) ==
  << <<t.class \in {"returnBarcode", "scan"}, "LOOKUP_RETURN", "none", "barcode">>,
     <<t.class = "completeReturn", "REQUEST_COMMIT_RETURN", "none", "none">>,
     <<t.class = "pickup", "REQUEST_RETURN_PICKUP", "none", "none">>,
     <<t.class = "returnFrom" /\ t.what # {}, "SEARCH_RETURN", "name", "title">>,
     <<t.class = "returnFrom", "SEARCH_RETURN", "name", "none">>,
     <<t.class = "returnTitle", "SEARCH_RETURN", "none", "title">> >>
  \o IssuedBooksRules(t) \o
  << <<t.class = "returnBook", "START_RETURN", "none", "none">>,
     <<t.class = "barcode", "SELECT_BARCODE", "none", "barcode">>,
     <<t.class = "issueTitleTo", "REQUEST_COMMIT", "name", "title">>,
     <<t.class = "issueBookTo" /\ t.who # {}, "START_ISSUE_TO_PATRON", "name", "none">>,
     <<t.class \in {"issueBookTo", "issueBook"}, "START_ISSUE_TO_PATRON", "none", "none">>,
     <<t.class = "status", "REQUEST_FULFILLMENT_TRANSITION", "none", "none">>,
     <<t.class = "cancelIssue", "REQUEST_CANCEL_ISSUE", "none", "none">>,
     <<t.class = "browse", "START_CATALOG_SEARCH", "none", "none">>,
     <<t.class = "lookupPatron", "START_PATRON_LOOKUP", "none", "none">>,
     <<t.class = "find", "SEARCH_CATALOG", "none", "title">>,
     <<t.class = "hello", "CHAT", "none", "none">>,
     <<t.class = "key", "START_PATRON_DESK", "key", "none">>,
     <<IsShort(t), "SEARCH_PATRON", "name", "none">>,
     <<TRUE, "SEARCH_CATALOG", "none", "title">> >>

Parsed(rule, t) ==
  [action |-> rule[2], by |-> rule[3], who |-> t.who,
   code |-> rule[4], what |-> t.what,
   mode |-> IF t.deliver /\ rule[2] \in {"REQUEST_COMMIT", "START_ISSUE_TO_PATRON"}
            THEN "DELIVERY" ELSE "unsaid",
   explicit |-> t.class \in {"issueTo", "issueTitleTo"}]

RuleParse(t, sl) == Parsed(First(PromptRules(t, sl) \o SelectionRules(t, sl) \o TextRules(t)), t)

\* The actions whose handlers look at the patron, and at the copy, of an intent.
PatronActions ==
  {"SEARCH_PATRON", "ISSUE_TO_PATRON", "START_ISSUE_TO_PATRON", "PROVIDE_PATRON_FOR_ISSUE",
   "PROVIDE_PATRON_LOOKUP", "START_RETURN", "START_PATRON_DESK", "PROVIDE_PATRON_FOR_DESK",
   "SELECT_PATRON", "REQUEST_COMMIT", "SEARCH_RETURN"}
CopyActions ==
  {"SEARCH_CATALOG", "SELECT_CATALOG_COPY", "SELECT_BARCODE", "PROVIDE_BOOK_CRITERIA",
   "PROVIDE_CATALOG_CRITERIA", "PROVIDE_PATRON_FOR_DESK", "REQUEST_COMMIT", "LOOKUP_RETURN",
   "SEARCH_RETURN", "SELECT_RETURN_LOAN"}

\* The model sees the text and the context, and may name any action.
LlmParse(t) ==
  LET patron(a, x, none) == IF a \in PatronActions THEN x ELSE none
      copy(a, x, none)   == IF a \in CopyActions THEN x ELSE none
  IN {[action |-> a, by |-> patron(a, b, "none"), who |-> patron(a, t.who, {}),
       code |-> copy(a, c, "none"), what |-> copy(a, t.what, {}),
       mode |-> IF t.deliver THEN "DELIVERY" ELSE "unsaid",
       explicit |-> t.class \in {"issueTo", "issueTitleTo"}] :
        a \in LlmActions, b \in {"none", By(t)},
        c \in {"none", IF NamesBarcode(t) THEN "barcode" ELSE "title"}}

-----------------------------------------------------------------------------
(* What a step of a thread comes to: the slots after it, the tool to run    *)
(* next or "idle" for the end of the turn, and the approval asked for.      *)

Go(sl, at)     == [slots |-> sl, at |-> at, ask |-> NoApproval]
Done(sl)       == Go(sl, "idle")
Ask(sl, kind, l) ==
  [slots |-> sl, at |-> "idle",
   ask |-> [kind |-> kind, patron |-> sl.patron, holding |-> sl.holding, mode |-> sl.mode, loan |-> l]]

Await(sl, on, off) == [sl EXCEPT !.awaiting = (@ \ off) \cup on]
Guide(sl, on, off) == [sl EXCEPT !.guided = (@ \ off) \cup on]
NoCopy(sl) == [sl EXCEPT !.copyCands = {}, !.holding = None]
NoLoan(sl) == [sl EXCEPT !.loan = None, !.holding = None, !.due = FALSE]
DeskPrompts == {"deskPatron", "deskNext", "deskPick"}

HasPatronAndHolding(sl) == sl.patron # None /\ sl.holding # None

StartDesk(i, sl, returning) ==
  LET new == [Await(Guide(NoLoan(sl), {"return"}, {}), {}, DeskPrompts)
                EXCEPT !.returnIntent = returning, !.loanCands = {}]
  IN IF i.by = "name" THEN Go(new, "resolve") ELSE Done(Await(new, {"deskPatron"}, {}))

StartIssueToPatron(i, sl) ==
  LET new == Guide(NoCopy(sl), {"issue"}, {})
  IN IF i.by = "name" THEN Go(Await(new, {"book"}, {"patron"}), "resolve")
     ELSE Done(Await(new, {"patron"}, {"book"}))

ProvidePatronForDesk(i, sl) ==
  Go(sl, CASE i.by = "key" -> "listLoans" [] i.by # "key" /\ i.code = "barcode" -> "lookup"
           [] OTHER -> "resolve")

DeskStartReturn(sl) ==
  LET new == [sl EXCEPT !.returnIntent = TRUE] IN
  IF sl.loan # None /\ sl.due THEN Done(new)
  ELSE IF sl.patron # None /\ Cardinality(sl.loanCands) < 2 THEN Go(new, "listLoans")
  ELSE IF sl.loanCands # {} THEN Done(Await(new, {"deskPick"}, {"deskNext"}))
  ELSE Done(Guide(Await(new, {"deskPatron"}, {}), {"return"}, {}))

\* Leaves one flow, the first of return, catalogue, lookup and issue.
DeclineContinue(sl) ==
  IF "return" \in sl.guided \/ "deskPatron" \in sl.awaiting
  THEN [Guide(Await(sl, {}, DeskPrompts), {}, {"return"})
          EXCEPT !.returnIntent = FALSE, !.loanCands = {}]
  ELSE IF "catalog" \in sl.guided \cup sl.awaiting
  THEN NoCopy(Guide(Await(sl, {}, {"catalog"}), {}, {"catalog"}))
  ELSE IF "lookup" \in sl.guided \cup sl.awaiting
  THEN [Guide(Await(sl, {}, {"lookup"}), {}, {"lookup"}) EXCEPT !.patronCands = {}]
  ELSE NoCopy(Guide(Await(sl, {}, {"patron", "book"}), {}, {"issue"}))

\* The approvals that act on slots.loan_id.
LoanKind == [REQUEST_CANCEL_ISSUE |-> "CANCEL_ISSUE", REQUEST_COMMIT_RETURN |-> "COMMIT_RETURN",
             REQUEST_RETURN_PICKUP |-> "INITIATE_RETURN_PICKUP"]

\* What _apply_intent comes to before its first tool.
Handled(i, sl) ==
  CASE i.action = "SEARCH_PATRON" ->
         (CASE i.by = "key" -> Go(sl, "resolve") [] i.by = "name" -> Go(sl, "searchPatrons")
            [] OTHER -> Done(sl))
    [] i.action = "SEARCH_CATALOG" ->
         Go(sl, IF sl.patron = None THEN "searchCatalog" ELSE "searchLendable")
    [] i.action = "SELECT_CATALOG_COPY" -> Go(sl, "selectCopy")
    [] i.action = "SELECT_BARCODE" ->
         Go(sl, IF sl.patron = None THEN "selectCopy" ELSE "selectBarcode")
    [] i.action = "ISSUE_TO_PATRON" ->
         IF sl.holding = None \/ i.by # "name" THEN Done(sl) ELSE Go(sl, "resolve")
    [] i.action = "START_ISSUE_TO_PATRON" -> StartIssueToPatron(i, sl)
    [] i.action \in {"PROVIDE_PATRON_FOR_ISSUE", "PROVIDE_PATRON_LOOKUP"} ->
         IF i.by = "none" THEN Done(sl) ELSE Go(sl, "resolve")
    [] i.action \in {"PROVIDE_BOOK_CRITERIA", "PROVIDE_CATALOG_CRITERIA"} -> Go(sl, "searchCatalog")
    [] i.action = "START_RETURN" -> StartDesk(i, sl, TRUE)
    [] i.action = "START_PATRON_DESK" -> StartDesk(i, sl, FALSE)
    [] i.action = "PROVIDE_PATRON_FOR_DESK" -> ProvidePatronForDesk(i, sl)
    [] i.action = "DESK_START_RETURN" -> DeskStartReturn(sl)
    [] i.action = "DESK_START_ISSUE" ->
         Done(NoCopy(Guide(Await(sl, {"book"}, {"deskNext"}), {"issue"}, {})))
    [] i.action = "DESK_START_CATALOG" ->
         Done(NoCopy(Guide(Await(sl, {"catalog"}, {"deskNext"}), {"catalog"}, {})))
    [] i.action = "DESK_SESSION_DONE" ->
         Done([Guide(Await(sl, {}, DeskPrompts), {}, {"return"})
                 EXCEPT !.returnIntent = FALSE, !.loanCands = {}, !.loan = None, !.holding = None])
    [] i.action = "START_CATALOG_SEARCH" ->
         Done([NoCopy(Guide(Await(sl, {"catalog"}, {"patron", "book"}), {"catalog"}, {"issue"}))
                 EXCEPT !.patron = None])
    [] i.action = "START_PATRON_LOOKUP" ->
         Done([Guide(Await(sl, {"lookup"}, {}), {"lookup"}, {})
                 EXCEPT !.patronCands = {}, !.patron = None])
    [] i.action = "SELECT_PATRON" -> Go(sl, "selectPatron")
    [] i.action = "DECLINE_CONTINUE" -> Done(DeclineContinue(sl))
    [] i.action = "REQUEST_COMMIT" ->
         Go(sl, CASE i.by = "name" -> "resolve"
                  [] i.by # "name" /\ i.code = "title" -> "searchLendable"
                  [] OTHER -> "validate")
    [] i.action \in DOMAIN LoanKind ->
         IF sl.loan = None THEN Done(sl) ELSE Ask(sl, LoanKind[i.action], None)
    [] i.action = "REQUEST_FULFILLMENT_TRANSITION" -> Go(sl, "fulfilStatus")
    [] i.action = "LOOKUP_RETURN" -> Go(sl, "lookup")
    [] i.action = "SEARCH_RETURN" -> Go(sl, "searchReturn")
    [] i.action = "SELECT_RETURN_LOAN" -> Go(sl, "selectLoan")
    [] OTHER -> Done(sl)

-----------------------------------------------------------------------------
(* The read tools.  valid stands for what the eligibility validator says of *)
(* the patron or the issue at that moment.                                  *)

Open(l)        == loans[l].state = "open"
OpenLoans      == {l \in LoanIds : Open(l)}
OnLoan(h)      == \E l \in OpenLoans : loans[l].holding = h
LoansOf(P)     == {l \in OpenLoans : loans[l].patron \in P}

\* _apply_candidate and the slots of a looked-up loan.
WithLoan(sl, l) ==
  [sl EXCEPT !.loan = l, !.holding = loans[l].holding, !.patron = loans[l].patron,
             !.due = TRUE, !.fulfil = None]

DeskActions  == {"START_RETURN", "START_PATRON_DESK", "PROVIDE_PATRON_FOR_DESK"}
IssueActions == {"ISSUE_TO_PATRON", "REQUEST_COMMIT"}

\* The patron is identified and may borrow.
Identified(i, sl) ==
  CASE i.action = "PROVIDE_PATRON_FOR_ISSUE" -> Done(Await(sl, {"book"}, {"patron"}))
    [] i.action = "PROVIDE_PATRON_LOOKUP" -> Done(Guide(Await(sl, {}, {"lookup"}), {}, {"lookup"}))
    [] i.action \in DeskActions -> Go(sl, "listLoans")
    [] i.action \in IssueActions ->
         Go(sl, IF i.action = "REQUEST_COMMIT" /\ i.code = "title" THEN "searchLendable" ELSE "validate")
    [] OTHER -> Done(sl)

\* The patron is not identified by name.  Candidates left by an earlier search
\* count as those of this one.
NotIdentified(i, sl) ==
  CASE i.action = "START_ISSUE_TO_PATRON" /\ sl.patronCands = {} ->
         Done(Guide(Await(sl, {}, {"book"}), {}, {"issue"}))
    [] i.action \in DeskActions /\ sl.patronCands = {} -> Done(Await(sl, {"deskPatron"}, {}))
    [] OTHER -> Done(sl)

\* resolve_patron, by key or by name.
Resolve(i, sl, valid) ==
  LET found == IF Cardinality(i.who) = 1
               THEN [sl EXCEPT !.patron = CHOOSE p \in i.who : TRUE]
               ELSE IF Cardinality(i.who) > 1 THEN [sl EXCEPT !.patronCands = i.who] ELSE sl
  IN IF Cardinality(i.who) = 1 /\ valid THEN Identified(i, found)
     ELSE IF i.by = "key"
     THEN Done(IF i.action = "PROVIDE_PATRON_LOOKUP" THEN Await(found, {"lookup"}, {}) ELSE found)
     ELSE IF i.action # "PROVIDE_PATRON_LOOKUP" /\ found.patronCands # {} THEN Done(found)
     ELSE Go(found, "searchPatrons")

\* search_patrons, for SEARCH_PATRON or after resolve_patron failed.
SearchPatrons(i, sl) ==
  LET found == IF Cardinality(i.who) > 1 THEN [sl EXCEPT !.patronCands = i.who] ELSE sl IN
  IF i.action = "PROVIDE_PATRON_LOOKUP"
  THEN CASE i.who = {} -> Done(Await(found, {"lookup"}, {}))
         [] Cardinality(i.who) = 1 -> Go(found, "resolveId")
         [] OTHER -> Done(Await(found, {}, {"lookup"}))
  ELSE IF found.patronCands = {} /\ Cardinality(i.who) = 1 THEN Go(found, "resolveId")
  ELSE NotIdentified(i, found)

\* resolve_patron by the id of the one patron found.
ResolveId(i, sl, valid) ==
  LET found == [sl EXCEPT !.patron = CHOOSE p \in i.who : TRUE] IN
  IF valid THEN Identified(i, found)
  ELSE IF i.action = "PROVIDE_PATRON_LOOKUP" THEN Done(Await(found, {}, {"lookup"}))
  ELSE NotIdentified(i, found)

SelectPatron(i, sl) ==
  LET matches == sl.patronCands \cap i.who IN
  IF Cardinality(matches) = 1
  THEN [Await(sl, {}, {"lookup"}) EXCEPT !.patron = CHOOSE p \in matches : TRUE, !.patronCands = {}]
  ELSE IF matches = {} THEN sl ELSE [sl EXCEPT !.patronCands = matches]

\* list_patron_loans_at_desk, for a loan of the patron whose row comes first.
\* The patron of the slots is searched for by display name.
ListedLoans(i, sl) ==
  IF i.action = "PROVIDE_PATRON_FOR_DESK" /\ i.by = "key" THEN LoansOf(i.who)
  ELSE IF sl.patron = None THEN OpenLoans ELSE LoansOf(Namesakes[sl.patron])

Listed(sl, found, first, returning) ==
  IF found = {} THEN [NoLoan(sl) EXCEPT !.loanCands = {}]
  ELSE IF returning /\ Cardinality(found) = 1 THEN [WithLoan(sl, first) EXCEPT !.loanCands = {}]
  ELSE [NoLoan(sl) EXCEPT !.patron = loans[first].patron, !.loanCands = found]

\* list_patron_loans_at_desk and _finish_desk_list_present.
ListLoans(i, sl, first) ==
  LET found == ListedLoans(i, sl)
      new   == Listed(sl, found, first, sl.returnIntent)
      prompt == IF sl.returnIntent /\ Cardinality(found) = 1 THEN {}
                ELSE IF sl.returnIntent /\ found # {} THEN {"deskPick"} ELSE {"deskNext"}
  IN IF i.action = "PROVIDE_PATRON_FOR_DESK" /\ i.by = "key" /\ i.who = {}
     THEN Done(Await(sl, {"deskPatron"}, {}))
     ELSE Done(Await(new, prompt, DeskPrompts))

\* lookup_return, by the barcode of a copy on loan.
Lookup(i, sl) ==
  LET ls    == {l \in OpenLoans : loans[l].holding \in i.what}
      found == [WithLoan(sl, CHOOSE l \in ls : TRUE) EXCEPT !.loanCands = {}]
  IN IF i.action # "PROVIDE_PATRON_FOR_DESK" THEN Done(IF ls = {} THEN sl ELSE found)
     ELSE IF sl.returnIntent THEN Done(Await(IF ls = {} THEN sl ELSE found, {}, DeskPrompts))
     ELSE IF ls = {} THEN Done(Await(sl, {"deskPatron"}, {}))
     ELSE Go(NoLoan(found), "listLoans")

\* search_catalog, without a patron.
SearchCatalog(i, sl) ==
  LET found  == {h \in i.what : ~OnLoan(h)}
      prompt == IF "catalog" \in sl.guided THEN {"catalog"} ELSE {"book"}
      new    == IF Cardinality(found) = 1
                THEN [Await(sl, {}, prompt) EXCEPT !.holding = CHOOSE h \in found : TRUE, !.copyCands = {}]
                ELSE [Await(sl, {}, prompt) EXCEPT !.copyCands = found]
      retry  == CASE i.action = "PROVIDE_BOOK_CRITERIA" -> {"book"}
                  [] i.action = "PROVIDE_CATALOG_CRITERIA" -> {"catalog"}
                  [] OTHER -> {}
  IN IF found = {} THEN Await(new, prompt \cup retry, {})
     ELSE IF i.action = "PROVIDE_CATALOG_CRITERIA" /\ "return" \in sl.guided /\ sl.patron # None
     THEN Guide(Await(new, {"deskNext"}, {"catalog"}), {}, {"catalog"})
     ELSE new

\* select_catalog_copy, from the list or, without one, by barcode.
SelectCopy(i, sl) ==
  LET matches == IF sl.copyCands # {} THEN sl.copyCands \cap i.what
                 ELSE IF i.code = "barcode" THEN {h \in i.what : ~OnLoan(h)} ELSE {}
      prompts == IF sl.copyCands # {} THEN {"book", "catalog"} ELSE {"book"}
  IN IF matches = {} THEN sl
     ELSE IF Cardinality(matches) > 1 THEN [sl EXCEPT !.copyCands = matches]
     ELSE [Await(sl, {}, prompts) EXCEPT !.holding = CHOOSE h \in matches : TRUE, !.copyCands = {}]

\* select_barcode, with a patron.
SelectBarcode(i, sl) ==
  LET free == {h \in i.what : ~OnLoan(h)}
  IN IF free = {} THEN sl ELSE [sl EXCEPT !.holding = CHOOSE h \in free : TRUE]

\* search_lendable.  A search that finds nothing leaves the copy selected before.
SearchLendable(i, sl) ==
  LET found == IF sl.patron = None THEN {} ELSE {h \in i.what : ~OnLoan(h)}
      new   == IF found = {} THEN sl
               ELSE IF Cardinality(found) = 1
               THEN [sl EXCEPT !.holding = CHOOSE h \in found : TRUE, !.copyCands = {}]
               ELSE [sl EXCEPT !.copyCands = found]
  IN IF i.action = "REQUEST_COMMIT" /\ new.copyCands = {} THEN Go(new, "validate") ELSE Done(new)

\* validate_issue, and the approval to ask for when the issue is valid.
Validate(i, sl, valid) ==
  IF HasPatronAndHolding(sl) /\ valid /\ (i.action = "REQUEST_COMMIT" \/ i.explicit)
  THEN Ask(sl, "COMMIT_ISSUE", None) ELSE Done(sl)

\* get_fulfillment_status.  A loan without a fulfilment in the slots is asked for any
\* of its deliveries.
IssueFulfils(l) == {f \in fulfils : f[1] = "ISSUE" /\ f[2] = l}
AnyOf(S)        == IF S = {} THEN {None} ELSE S
FulfilStatus(sl, found) ==
  LET own == IF sl.fulfil # None THEN sl.fulfil ELSE found
  IN IF own = None THEN Done(sl) ELSE Ask([sl EXCEPT !.fulfil = own], "TRANSITION_FULFILLMENT", None)

\* search_return_loans, by patron, by title or both.
SearchReturn(i, sl) ==
  LET ofPatron == IF i.by = "none" THEN OpenLoans ELSE LoansOf(i.who)
      found    == {l \in ofPatron : i.code = "title" => loans[l].holding \in i.what}
  IN IF i.by = "key" /\ i.who = {} THEN sl
     ELSE IF Cardinality(found) = 1
     THEN [WithLoan(sl, CHOOSE l \in found : TRUE) EXCEPT !.loanCands = {}]
     ELSE [sl EXCEPT !.loanCands = found]

\* select_return_loan.  The rows of the list are as they were when it was made.
SelectLoan(i, sl) ==
  LET matches == {l \in sl.loanCands : loans[l].holding \in i.what}
  IN IF matches = {} THEN Done(sl)
     ELSE IF Cardinality(matches) > 1 THEN Done([sl EXCEPT !.loanCands = matches])
     ELSE Ask(Await(sl, {}, {"deskPick"}), "SELECT_RETURN", CHOOSE l \in matches : TRUE)

-----------------------------------------------------------------------------
(* The write tools: what the transaction does with the slots it reads, and  *)
(* what the slots are after it.                                             *)

\* _clear_return_state.
Cleared(sl) == [NoLoan(sl) EXCEPT !.patron = None, !.loanCands = {}, !.fulfil = None]

\* _restore_selection.
Restored(sl, seen) ==
  [sl EXCEPT !.loan = seen.loan, !.holding = seen.holding, !.patron = seen.patron,
             !.due = seen.due, !.loanCands = seen.loanCands]

\* The list shown again when a write at the desk of a patron is done.
Refreshes(q, sl) ==
  CASE approval[q.key].kind = "COMMIT_ISSUE"  -> "return" \in sl.guided /\ sl.patron # None
    [] approval[q.key].kind = "COMMIT_RETURN" -> "return" \in q.seen.guided /\ q.seen.patron # None
    [] OTHER -> FALSE

\* The slots after the write; q.seen are those it read when it started.
Written(q, sl) ==
  LET kind == approval[q.key].kind
      ok   == q.result = "ok"
  IN CASE kind = "COMMIT_ISSUE" ->
            LET new == IF ok THEN [sl EXCEPT !.loan = q.loan,
                                             !.fulfil = IF q.fulfil # None THEN q.fulfil ELSE @]
                       ELSE sl
            IN IF "return" \in sl.guided THEN new ELSE Guide(Await(new, {}, {"patron", "book"}), {}, {"issue"})
       [] kind = "CANCEL_ISSUE" -> IF ok THEN [sl EXCEPT !.loan = None, !.fulfil = None] ELSE sl
       [] kind = "SELECT_RETURN" -> WithLoan(sl, approval[q.key].loan)
       [] kind = "COMMIT_RETURN" ->
            LET new == CASE q.result = "ok" -> Cleared(sl) [] q.result = "error" -> Restored(sl, q.seen)
                         [] OTHER -> sl
            IN IF Refreshes(q, sl) THEN [Guide(new, {"return"}, {}) EXCEPT !.patron = q.seen.patron]
               ELSE Guide(Await(new, {}, {"deskPatron", "deskNext"}), {}, {"return"})
       [] kind = "INITIATE_RETURN_PICKUP" -> 
            CASE q.result = "ok" -> [sl EXCEPT !.fulfil = q.fulfil]
              [] q.result = "error" -> Restored(sl, q.seen) [] OTHER -> sl
       [] OTHER -> sl

-----------------------------------------------------------------------------
(* Steps of a thread *)

Init ==
  /\ loans = [l \in LoanIds |-> UnusedLoan] /\ fulfils = {} /\ done = {}
  /\ slots = [s \in Sessions |-> EmptySlots]
  /\ pending = [s \in Sessions |-> None] /\ calls = [s \in Sessions |-> 0]
  /\ approval = [k \in Keys |-> NoApproval] /\ approved = {} /\ disturbed = {}
  /\ request = [r \in Requests |-> NoRequest]

Idle(r) == request[r] = NoRequest
Busy(s) == \E r \in Requests : request[r].session = s
SlotsOf(r) == slots[request[r].session]
KeysLeft == {k \in Keys : approval[k] = NoApproval}

\* What else the session is at while thread r works in it, and the approvals that
\* are running in it.
Others(r, s)  == {x \in Requests \ {r} : request[x].session = s}
RunningKeys(s) == {request[x].key : x \in {y \in Requests : request[y].session = s}} \ {None}

\* Mutant: the tool runs at once where the approval should be asked for.
TurnUnasked(r, out) ==
  LET s == request[r].session IN
  /\ slots' = [slots EXCEPT ![s] = out.slots]
  /\ \/ /\ out.ask = NoApproval /\ UNCHANGED approval
        /\ request' = [request EXCEPT ![r] = IF out.at = "idle" THEN NoRequest ELSE [@ EXCEPT !.at = out.at]]
     \/ /\ out.ask # NoApproval
        /\ \E k \in KeysLeft :
             /\ approval' = [approval EXCEPT ![k] = out.ask]
             /\ request' = [request EXCEPT ![r] = [@ EXCEPT !.at = "execute", !.key = k]]
  /\ UNCHANGED <<ledger, pending, approved, disturbed>>

\* The thread goes on with the slots of the outcome, and asks for the approval.
Turn(r, out) ==
  LET s == request[r].session IN
  /\ slots' = [slots EXCEPT ![s] = out.slots]
  /\ request' = [request EXCEPT ![r] = IF out.at = "idle" THEN NoRequest ELSE [@ EXCEPT !.at = out.at]]
  /\ \/ out.ask = NoApproval /\ UNCHANGED <<approval, pending, disturbed>>
     \/ /\ out.ask # NoApproval
        /\ \E k \in KeysLeft :
             /\ approval' = [approval EXCEPT ![k] = out.ask]
             /\ pending' = [pending EXCEPT ![s] = k]
             /\ disturbed' = IF Others(r, s) = {} THEN disturbed ELSE disturbed \cup {k}
  /\ UNCHANGED <<ledger, approved>>

\* Mutant: a pending approval does not block messages.
ReceiveAnyway(r, s, t) ==
  /\ Idle(r) /\ (Busy(s) => "message" \in MayOverlap)
  /\ calls' = [calls EXCEPT ![s] = 0]
  /\ \E i \in {RuleParse(t, slots[s])} \cup LlmParse(t) :
       request' = [request EXCEPT ![r] = [@ EXCEPT !.session = s, !.at = "apply", !.intent = i]]
  /\ disturbed' = disturbed \cup RunningKeys(s)
  /\ UNCHANGED <<ledger, slots, pending, approval, approved>>

\* handle_message up to the parsed intent.  The parser sees the context of the
\* moment; a pending approval blocks the message.
Receive(r, s, t) ==
  /\ Idle(r) /\ (Busy(s) => "message" \in MayOverlap)
  /\ calls' = [calls EXCEPT ![s] = 0]
  /\ \/ pending[s] # None /\ UNCHANGED <<request, disturbed>>
     \/ /\ pending[s] = None
        /\ \E i \in {RuleParse(t, slots[s])} \cup LlmParse(t) :
             request' = [request EXCEPT ![r] = [@ EXCEPT !.session = s, !.at = "apply", !.intent = i]]
        /\ disturbed' = disturbed \cup RunningKeys(s)
  /\ UNCHANGED <<ledger, slots, pending, approval, approved>>

\* _apply_intent up to the first tool.  APPROVE is refused with 422.
Apply(r) ==
  LET i == request[r].intent
      sl == IF i.mode = "unsaid" THEN SlotsOf(r) ELSE [SlotsOf(r) EXCEPT !.mode = i.mode]
  IN /\ request[r].at = "apply"
     /\ Turn(r, IF i.action = "APPROVE" THEN Done(SlotsOf(r)) ELSE Handled(i, sl))
     /\ UNCHANGED calls

\* Mutant: the budget is compared before the call is counted, with >.
CallsOneMore(r, tool) ==
  LET s == request[r].session IN
  /\ request[r].at = tool /\ calls[s] <= MaxToolCalls
  /\ calls' = [calls EXCEPT ![s] = @ + 1]

\* _run_tool: a call within the budget of the turn.
Calls(r, tool) ==
  LET s == request[r].session IN
  /\ request[r].at = tool /\ calls[s] < MaxToolCalls
  /\ calls' = [calls EXCEPT ![s] = @ + 1]
TooManyCalls(r) ==
  /\ request[r].at \in ReadTools \cup {"execute"} /\ calls[request[r].session] >= MaxToolCalls
  /\ request' = [request EXCEPT ![r] = NoRequest]
  /\ UNCHANGED <<ledger, slots, pending, calls, asked>>

IntentOf(r) == request[r].intent
ResolveTool(r) ==
  Calls(r, "resolve") /\ \E valid \in BOOLEAN : Turn(r, Resolve(IntentOf(r), SlotsOf(r), valid))
SearchPatronsTool(r) == Calls(r, "searchPatrons") /\ Turn(r, SearchPatrons(IntentOf(r), SlotsOf(r)))
ResolveIdTool(r) ==
  Calls(r, "resolveId") /\ \E valid \in BOOLEAN : Turn(r, ResolveId(IntentOf(r), SlotsOf(r), valid))
SelectPatronTool(r) == Calls(r, "selectPatron") /\ Turn(r, Done(SelectPatron(IntentOf(r), SlotsOf(r))))
ListLoansTool(r) ==
  LET found == ListedLoans(IntentOf(r), SlotsOf(r)) IN
  /\ Calls(r, "listLoans")
  /\ \E first \in AnyOf(found) : Turn(r, ListLoans(IntentOf(r), SlotsOf(r), first))
LookupTool(r) == Calls(r, "lookup") /\ Turn(r, Lookup(IntentOf(r), SlotsOf(r)))
SearchCatalogTool(r) == Calls(r, "searchCatalog") /\ Turn(r, Done(SearchCatalog(IntentOf(r), SlotsOf(r))))
SelectCopyTool(r) == Calls(r, "selectCopy") /\ Turn(r, Done(SelectCopy(IntentOf(r), SlotsOf(r))))
SelectBarcodeTool(r) == Calls(r, "selectBarcode") /\ Turn(r, Done(SelectBarcode(IntentOf(r), SlotsOf(r))))
SearchLendableTool(r) == Calls(r, "searchLendable") /\ Turn(r, SearchLendable(IntentOf(r), SlotsOf(r)))
ValidateTool(r) ==
  Calls(r, "validate") /\ \E valid \in BOOLEAN : Turn(r, Validate(IntentOf(r), SlotsOf(r), valid))
FulfilStatusTool(r) ==
  /\ Calls(r, "fulfilStatus")
  /\ \E f \in AnyOf(IssueFulfils(SlotsOf(r).loan)) : Turn(r, FulfilStatus(SlotsOf(r), f))
SearchReturnTool(r) == Calls(r, "searchReturn") /\ Turn(r, Done(SearchReturn(IntentOf(r), SlotsOf(r))))
SelectLoanTool(r) == Calls(r, "selectLoan") /\ Turn(r, SelectLoan(IntentOf(r), SlotsOf(r)))

ReadTool(r) ==
  \/ ResolveTool(r) \/ SearchPatronsTool(r) \/ ResolveIdTool(r) \/ SelectPatronTool(r)
  \/ ListLoansTool(r) \/ LookupTool(r) \/ SearchReturnTool(r) \/ SelectLoanTool(r)
  \/ SearchCatalogTool(r) \/ SelectCopyTool(r) \/ SelectBarcodeTool(r)
  \/ SearchLendableTool(r) \/ ValidateTool(r) \/ FulfilStatusTool(r)

-----------------------------------------------------------------------------
(* resume *)

\* The librarian answers the approval card.
Approve(r, s) ==
  /\ Idle(r) /\ pending[s] # None /\ (Busy(s) => "resume" \in MayOverlap)
  /\ approved' = approved \cup {pending[s]}
  /\ request' = [request EXCEPT ![r] = [@ EXCEPT !.session = s, !.at = "execute", !.key = pending[s]]]
  /\ UNCHANGED <<ledger, slots, pending, calls, approval, disturbed>>
Deny(s) ==
  /\ pending[s] # None /\ (Busy(s) => "resume" \in MayOverlap)
  /\ pending' = [pending EXCEPT ![s] = None]
  /\ UNCHANGED <<ledger, slots, calls, asked, request>>

Executes(r, kind) == Calls(r, "execute") /\ approval[request[r].key].kind = kind

\* The tool ran its transaction, or none, on the slots it read.
Ran(r, result, l) ==
  request' = [request EXCEPT ![r] = [@ EXCEPT !.at = "executed", !.result = result, !.loan = l,
                                              !.seen = SlotsOf(r)]]

\* An AppError that the tool does not catch, a constraint or a lost connection ends
\* the request before the next commit; the approval stays pending.
ToolFails(r) ==
  /\ \/ Calls(r, "execute")
     \/ request[r].at \in {"checkout", "deliver", "insert"} /\ UNCHANGED calls
  /\ request' = [request EXCEPT ![r] = NoRequest]
  /\ UNCHANGED <<ledger, slots, pending, asked>>

\* Mutant: the stored response is not looked up.
PriorForgotten(r, op, on) == {}
Prior(r, op, on) == {e \in done : e.key = request[r].key /\ e.op = op /\ e.on = on}
Record(r, op, on, l) ==
  done' = done \cup {[key |-> request[r].key, op |-> op, on |-> on, patron |-> loans'[l].patron, loan |-> l]}
Close(l) == loans' = [loans EXCEPT ![l].state = "closed"]
NewFulfil(r, direction, l) == <<direction, l, request[r].key, r>>

\* commit_issue up to the checkout: the slots are read, and the key of the approval
\* is looked up; without an answer the issue is validated.  Another patron under the
\* same key, or an issue that is not valid, is refused (ToolFails).
CommitIssue(r) ==
  LET sl == SlotsOf(r)
      prior == Prior(r, "checkout", sl.holding)
  IN /\ Executes(r, "COMMIT_ISSUE")
     /\ \/ ~HasPatronAndHolding(sl) /\ Ran(r, "none", None)
        \/ /\ HasPatronAndHolding(sl)
           /\ IF prior = {} THEN ~OnLoan(sl.holding) ELSE \E e \in prior : e.patron = sl.patron
           /\ request' = [request EXCEPT ![r] = [@ EXCEPT !.at = "checkout", !.cached = prior # {},
                                                          !.seen = sl]]
     /\ UNCHANGED <<ledger, slots, pending, asked>>

\* After the checkout, a delivery has one more transaction.
CheckedOut(r, l) ==
  request' = [request EXCEPT ![r].loan = l, ![r].result = "ok",
                ![r].at = IF request[r].seen.mode = "DELIVERY" THEN "deliver" ELSE "executed"]

\* CirculationOrchestrator.checkout, which looks the key up once more.
Checkout(r) ==
  LET sl == request[r].seen
      prior == Prior(r, "checkout", sl.holding)
  IN /\ request[r].at = "checkout"
     /\ \/ /\ \E e \in prior : e.patron = sl.patron /\ CheckedOut(r, e.loan)
           /\ UNCHANGED ledger
        \/ /\ prior = {} /\ ~OnLoan(sl.holding)
           /\ \E l \in LoanIds :
                /\ loans[l].state = "unused"
                /\ loans' = [loans EXCEPT ![l] = [state |-> "open", patron |-> sl.patron,
                                                  holding |-> sl.holding]]
                /\ Record(r, "checkout", sl.holding, l) /\ CheckedOut(r, l)
           /\ UNCHANGED fulfils
     /\ UNCHANGED <<slots, pending, calls, asked>>

\* The loan is read back: a repeated issue looks for its fulfilment, a first one
\* inserts it if the loan is still open then, in a transaction of its own.
Deliver(r) ==
  LET q == request[r] IN
  /\ q.at = "deliver"
  /\ \/ /\ q.cached
        /\ \E f \in AnyOf(IssueFulfils(q.loan)) :
             request' = [request EXCEPT ![r].at = "executed", ![r].fulfil = f]
     \/ /\ ~q.cached /\ Open(q.loan)
        /\ request' = [request EXCEPT ![r].at = "insert"]
  /\ UNCHANGED <<ledger, slots, pending, calls, asked>>

\* Mutant: the fulfilment is of the loan that the slots hold.
InsertFromSlots(r) ==
  LET l == IF SlotsOf(r).loan = None THEN request[r].loan ELSE SlotsOf(r).loan
      f == NewFulfil(r, "ISSUE", l)
  IN /\ request[r].at = "insert"
     /\ fulfils' = fulfils \cup {f}
     /\ request' = [request EXCEPT ![r].at = "executed", ![r].fulfil = f]
     /\ UNCHANGED <<loans, done, slots, pending, calls, asked>>

\* The insertion, of the loan that the checkout answered with.
InsertFulfilment(r) ==
  LET f == NewFulfil(r, "ISSUE", request[r].loan) IN
  /\ request[r].at = "insert"
  /\ fulfils' = fulfils \cup {f}
  /\ request' = [request EXCEPT ![r].at = "executed", ![r].fulfil = f]
  /\ UNCHANGED <<loans, done, slots, pending, calls, asked>>

\* cancel_issue: the return of the loan of the slots, under a key of its own.  A loan
\* that is closed is refused (ToolFails).
CancelIssue(r) ==
  LET l == SlotsOf(r).loan IN
  /\ Executes(r, "CANCEL_ISSUE")
  /\ \/ l = None /\ Ran(r, "none", None) /\ UNCHANGED <<loans, done>>
     \/ /\ l # None /\ Open(l)
        /\ Close(l) /\ Record(r, "return", l, l) /\ Ran(r, "ok", l)
  /\ UNCHANGED <<fulfils, slots, pending, asked>>

\* transition_fulfillment: the status may be the one asked for already, and a status
\* that does not allow it is refused (ToolFails).
TransitionFulfillment(r) ==
  LET f == SlotsOf(r).fulfil IN
  /\ Executes(r, "TRANSITION_FULFILLMENT")
  /\ \/ f = None /\ Ran(r, "none", None) /\ UNCHANGED ledger
     \/ f # None /\ Ran(r, "ok", f[2]) /\ UNCHANGED ledger
     \/ /\ f # None /\ Ran(r, "ok", f[2])
        /\ UNCHANGED <<loans, fulfils>> /\ Record(r, "transition", f, f[2])
  /\ UNCHANGED <<slots, pending, asked>>

\* Mutant: the return goes by the loan of the slots, whatever copy they hold.
CommitReturnByLoan(r) ==
  LET sl == SlotsOf(r)
      prior == Prior(r, "return", sl.loan)
  IN /\ Executes(r, "COMMIT_RETURN")
     /\ \/ sl.loan = None /\ Ran(r, "none", None) /\ UNCHANGED <<loans, done>>
        \/ /\ sl.loan # None
           /\ \E e \in prior : Ran(r, "ok", e.loan)
           /\ UNCHANGED <<loans, done>>
        \/ /\ sl.loan # None /\ prior = {}
           /\ Close(sl.loan) /\ Record(r, "return", sl.loan, sl.loan) /\ Ran(r, "ok", sl.loan)
     /\ UNCHANGED <<fulfils, slots, pending, asked>>

\* commit_desk_return: the copy of the slots, or without one their loan.  The
\* open loan of that copy is closed, whichever loan the slots hold; a loan that is
\* closed already is answered as returned.
CommitReturn(r) ==
  LET sl == SlotsOf(r)
      on == IF sl.holding # None THEN sl.holding ELSE sl.loan
      ls == IF sl.holding # None THEN {l \in OpenLoans : loans[l].holding = sl.holding} ELSE {sl.loan}
      prior == Prior(r, "return", on)
  IN /\ Executes(r, "COMMIT_RETURN")
     /\ \/ sl.loan = None /\ Ran(r, "none", None) /\ UNCHANGED <<loans, done>>
        \/ /\ sl.loan # None
           /\ \E e \in prior : Ran(r, "ok", e.loan)
           /\ UNCHANGED <<loans, done>>
        \/ /\ sl.loan # None /\ prior = {}
           /\ \E l \in ls : Close(l) /\ Record(r, "return", on, l) /\ Ran(r, "ok", l)
        \/ /\ sl.loan # None /\ prior = {} /\ ls = {}
           /\ Ran(r, "error", None) /\ UNCHANGED <<loans, done>>
     /\ UNCHANGED <<fulfils, slots, pending, asked>>

\* apply_return_selection changes slots only.
SelectReturn(r) ==
  /\ Executes(r, "SELECT_RETURN")
  /\ Ran(r, "ok", approval[request[r].key].loan)
  /\ UNCHANGED <<ledger, slots, pending, asked>>

\* initiate_return_pickup.  Its answer is stored, or the loan is open and the pick-up
\* new, or it is refused.
InitiateReturnPickup(r) ==
  LET l == SlotsOf(r).loan
      prior == Prior(r, "pickup", l)
      Answers(f) == request' = [request EXCEPT ![r] = [@ EXCEPT !.at = "executed", !.result = "ok",
                                                       !.loan = l, !.fulfil = f, !.seen = SlotsOf(r)]]
  IN /\ Executes(r, "INITIATE_RETURN_PICKUP")
     /\ \/ l = None /\ Ran(r, "none", None) /\ UNCHANGED ledger
        \/ /\ l # None /\ prior # {}
           /\ \E f \in fulfils : f[1] = "RETURN" /\ f[2] = l /\ f[3] = request[r].key /\ Answers(f)
           /\ UNCHANGED ledger
        \/ /\ l # None /\ prior = {} /\ Open(l)
           /\ fulfils' = fulfils \cup {NewFulfil(r, "RETURN", l)} /\ UNCHANGED loans
           /\ Record(r, "pickup", l, l) /\ Answers(NewFulfil(r, "RETURN", l))
        \/ l # None /\ ~Open(l) /\ Ran(r, "error", None) /\ UNCHANGED ledger
     /\ UNCHANGED <<slots, pending, asked>>

WriteTool(r) ==
  \/ CommitIssue(r) \/ Checkout(r) \/ Deliver(r) \/ InsertFulfilment(r)
  \/ CancelIssue(r) \/ TransitionFulfillment(r)
  \/ CommitReturn(r) \/ SelectReturn(r) \/ InitiateReturnPickup(r)
  \/ ToolFails(r)

\* The end of resume clears whichever approval is pending then.
Answer(r, sl) ==
  LET s == request[r].session IN
  /\ slots' = [slots EXCEPT ![s] = sl]
  /\ pending' = [pending EXCEPT ![s] = None]
  /\ request' = [request EXCEPT ![r] = NoRequest]

\* The slots are written after the transaction.
AfterWrite(r) ==
  LET q == request[r] IN
  /\ q.at = "executed"
  /\ IF Refreshes(q, SlotsOf(r))
     THEN /\ slots' = [slots EXCEPT ![q.session] = Written(q, @)]
          /\ request' = [request EXCEPT ![r].at = "refresh"]
          /\ UNCHANGED pending
     ELSE Answer(r, Written(q, SlotsOf(r)))
  /\ UNCHANGED <<ledger, calls, asked>>

\* _resume_desk_after_subflow: the loans of the patron at the desk once more.
Refresh(r) ==
  LET sl == SlotsOf(r)
      found == IF sl.patron = None THEN OpenLoans ELSE LoansOf(Namesakes[sl.patron])
  IN /\ Calls(r, "refresh")
     /\ \E first \in AnyOf(found) :
          Answer(r, Guide(Await(Listed(sl, found, first, FALSE), {"deskNext"}, {"book", "catalog"}),
                          {}, {"issue", "catalog"}))
     /\ UNCHANGED <<ledger, asked>>

-----------------------------------------------------------------------------
(* The other clients of the desk, and the process *)

OutsideIssue(h, p) ==
  /\ ~OnLoan(h)
  /\ \E l \in LoanIds : /\ loans[l].state = "unused"
                       /\ loans' = [loans EXCEPT ![l] = [state |-> "open", patron |-> p, holding |-> h]]
  /\ UNCHANGED <<fulfils, done, slots, pending, calls, asked, request>>
OutsideReturn(l) ==
  /\ Open(l) /\ Close(l)
  /\ UNCHANGED <<fulfils, done, slots, pending, calls, asked, request>>

\* A restart: the sessions live in the memory of the process.
Crash ==
  /\ slots' = [s \in Sessions |-> EmptySlots]
  /\ pending' = [s \in Sessions |-> None] /\ calls' = [s \in Sessions |-> 0]
  /\ request' = [r \in Requests |-> NoRequest]
  /\ UNCHANGED <<ledger, asked>>

Next ==
  \/ \E r \in Requests, s \in Sessions :
       \/ \E t \in Said : Receive(r, s, t)
       \/ Approve(r, s)
  \/ \E r \in Requests :
       \/ Apply(r) \/ ReadTool(r) \/ TooManyCalls(r)
       \/ WriteTool(r) \/ AfterWrite(r) \/ Refresh(r)
  \/ \E s \in Sessions : Deny(s)
  \/ \E h \in Holdings, p \in Patrons : OutsideIssue(h, p)
  \/ \E l \in LoanIds : OutsideReturn(l)
  \/ Crash

Spec == Init /\ [][Next]_vars

-----------------------------------------------------------------------------
(* Properties *)

\* Every variable has its type.
AgentTypeOK ==
  /\ loans \in [LoanIds -> LoanRow] /\ fulfils \subseteq Fulfils
  /\ done \subseteq Effect
  /\ slots \in [Sessions -> Slots]
  /\ pending \in [Sessions -> Maybe(Keys)] /\ calls \in [Sessions -> 0 .. MaxToolCalls]
  /\ approval \in [Keys -> Approval \cup {NoApproval}]
  /\ approved \subseteq Keys /\ disturbed \subseteq Keys
  /\ request \in [Requests -> Request]

\* Deny by default: whatever the agent changed in the library, a librarian
\* approved (coordinator.resume is the only way to a write tool).
NothingWithoutApproval == \A e \in done : e.key \in approved

\* An approval that is sent twice, or again after an answer that was lost or an
\* error after the commit, opens or closes one loan, or asks for one pick-up, once.
\* (A message that overlaps it may change the slots between the two; the delivery of
\* an issue is DeliveredAsShown.)
OneEffectPerApproval ==
  /\ \A e, f \in done : e.key = f.key /\ e.key \notin disturbed => e = f
  /\ \A f, g \in fulfils : f[1] = "RETURN" /\ g[1] = "RETURN" /\ f[3] = g[3] /\ f[3] \notin disturbed
       => f = g

\* What is issued is what the approval card showed: that copy to that patron, although
\* the tool reads the slots when it runs; unless another message of the session
\* overlapped the approval.
IssuedAsShown ==
  \A e \in done : e.op = "checkout" =>
    /\ approval[e.key].kind = "COMMIT_ISSUE"
    /\ e.key \notin disturbed =>
         e.patron = approval[e.key].patron /\ e.on = approval[e.key].holding

\* A delivery is one that the card showed, of the loan that its approval opened: a
\* second transaction, crashes and repeated approvals in between send no other loan
\* out.
DeliveredAsShown ==
  \A f \in fulfils : f[1] = "ISSUE" =>
    /\ \E e \in done : e.op = "checkout" /\ e.key = f[3] /\ e.loan = f[2]
    /\ f[3] \notin disturbed => approval[f[3]].mode = "DELIVERY"

\* A return approved with a card that shows a copy closes a loan of that copy.
ReturnsShownCopy ==
  \A e \in done : e.op = "return" /\ approval[e.key].kind = "COMMIT_RETURN"
                      /\ approval[e.key].holding # None /\ e.key \notin disturbed
    => loans[e.loan].holding = approval[e.key].holding

\* The cancellation a librarian approves is of the loan on the card, as far as the
\* card names a patron and a copy.
CancelledAsShown ==
  \A e \in done : e.op = "return" /\ approval[e.key].kind = "CANCEL_ISSUE"
    => /\ approval[e.key].patron \in {None, loans[e.loan].patron}
       /\ approval[e.key].holding \in {None, loans[e.loan].holding}
=============================================================================
