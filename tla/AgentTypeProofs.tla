-------------------------- MODULE AgentTypeProofs ---------------------------
(***************************************************************************)
(* The type invariant of AgentDesk, for any number of patrons, copies,     *)
(* loans, sessions, threads and keys, whatever is said and whatever the    *)
(* model answers.  Most of it is what the parser and the tools return: the *)
(* slots stay slots although each tool fills and empties some of them, no  *)
(* tool asks for an approval and goes on, and a tool that needs one patron *)
(* runs only when a search found one.                                      *)
(***************************************************************************)
EXTENDS AgentDesk, TLAPS, FiniteSetTheorems, SequenceTheorems, WellFoundedInduction

-----------------------------------------------------------------------------
(* What the parser returns *)

\* A rule names an action, and ways to name a patron and a copy, that an intent has.
Acts(x) == x[2] \in Actions /\ x[3] \in {"none", "key", "name"} /\ x[4] \in {"none", "barcode", "title"}
Entries(rules) == {rules[i] : i \in DOMAIN rules}
Rules(rules) == rules \in Seq(Entries(rules)) /\ \A i \in DOMAIN rules : Acts(rules[i])

\* A tuple whose entries are such rules is a sequence of them.
LEMMA TupleRules ==
  ASSUME NEW rules, NEW n \in Nat, rules \in [1 .. n -> Entries(rules)], \A i \in 1 .. n : Acts(rules[i])
  PROVE  Rules(rules) /\ Len(rules) = n
<1>1. DOMAIN rules = 1 .. n
  OBVIOUS
<1>2. rules \in Seq(Entries(rules))
  BY SeqDef
<1>3. Len(rules) = n
  BY <1>1, <1>2, LenProperties
<1> QED BY <1>1, <1>2, <1>3 DEF Rules

\* The three blocks of rules are sequences of such rules; the last rule of the last
\* block always applies.
LEMMA PromptRulesType ==
  ASSUME NEW t \in Text, NEW sl \in Slots
  PROVE Rules(PromptRules(t, sl)) /\ Len(PromptRules(t, sl)) = 15
<1> DEFINE rules == PromptRules(t, sl)
<1>1. rules \in [1 .. 15 -> Entries(rules)]
  BY DEF PromptRules, Entries
<1>2. \A i \in 1 .. 15 : Acts(rules[i])
  BY DEF PromptRules, Acts, Actions, By
<1> HIDE DEF rules
<1>3. Rules(rules) /\ Len(rules) = 15
  BY <1>1, <1>2, TupleRules
<1> QED BY <1>3 DEF rules

LEMMA SelectionRulesType ==
  ASSUME NEW t \in Text, NEW sl \in Slots
  PROVE Rules(SelectionRules(t, sl)) /\ Len(SelectionRules(t, sl)) = 7
<1> DEFINE rules == SelectionRules(t, sl)
<1>1. rules \in [1 .. 7 -> Entries(rules)]
  BY DEF SelectionRules, Entries
<1>2. \A i \in 1 .. 7 : Acts(rules[i])
  BY DEF SelectionRules, Acts, Actions, By
<1> HIDE DEF rules
<1>3. Rules(rules) /\ Len(rules) = 7
  BY <1>1, <1>2, TupleRules
<1> QED BY <1>3 DEF rules

\* So is one block after the other.
LEMMA ConcatRules ==
  ASSUME NEW r, NEW q, Rules(r), Rules(q)
  PROVE  /\ Rules(r \o q)
         /\ Len(r \o q) = Len(r) + Len(q)
         /\ \A i \in 1 .. Len(r) + Len(q) : (r \o q)[i] = IF i <= Len(r) THEN r[i] ELSE q[i - Len(r)]
<1> DEFINE S == Entries(r) \cup Entries(q)
           c == r \o q
<1>1. r \in Seq(S) /\ q \in Seq(S)
  <2>1. r \in [1 .. Len(r) -> Entries(r)] /\ Len(r) \in Nat
    BY LenProperties DEF Rules
  <2>2. q \in [1 .. Len(q) -> Entries(q)] /\ Len(q) \in Nat
    BY LenProperties DEF Rules
  <2>3. r \in [1 .. Len(r) -> S] /\ q \in [1 .. Len(q) -> S]
    BY <2>1, <2>2
  <2> HIDE DEF S
  <2> QED BY <2>1, <2>2, <2>3, SeqDef
<1> HIDE DEF S
<1>2. /\ c \in Seq(S) /\ Len(c) = Len(r) + Len(q)
      /\ \A i \in 1 .. Len(r) + Len(q) : c[i] = IF i <= Len(r) THEN r[i] ELSE q[i - Len(r)]
  BY <1>1, ConcatProperties, Zenon
<1> HIDE DEF c
<1>3. /\ Len(r) \in Nat /\ DOMAIN r = 1 .. Len(r) /\ Len(q) \in Nat /\ DOMAIN q = 1 .. Len(q)
      /\ Len(c) \in Nat /\ DOMAIN c = 1 .. Len(c) /\ c \in [1 .. Len(c) -> S]
  BY <1>1, <1>2, LenProperties
<1>4. ASSUME NEW i \in 1 .. Len(c) PROVE Acts(c[i])
  <2>1. (\A j \in 1 .. Len(r) : Acts(r[j])) /\ \A j \in 1 .. Len(q) : Acts(q[j])
    BY <1>3 DEF Rules
  <2>2. CASE i <= Len(r)
    BY <1>2, <1>3, <2>1, <2>2
  <2>3. CASE ~(i <= Len(r))
    <3>1. i - Len(r) \in 1 .. Len(q) /\ c[i] = q[i - Len(r)]
      BY <1>2, <1>3, <2>3
    <3> QED BY <3>1, <2>1
  <2> QED BY <2>2, <2>3
<1>5. c \in [1 .. Len(c) -> Entries(c)]
  BY <1>3 DEF Entries
<1>6. Rules(c)
  BY <1>3, <1>4, <1>5, TupleRules
<1> QED BY <1>2, <1>6, Zenon DEF c

LEMMA TextRulesType ==
  ASSUME NEW t \in Text
  PROVE  /\ Rules(TextRules(t)) /\ Len(TextRules(t)) = 22 /\ TextRules(t)[22][1] = TRUE
         /\ \A i \in 1 .. 22 : TextRules(t)[i][2] \notin {"PROVIDE_PATRON_FOR_DESK", "DESK_START_RETURN"}
<1> DEFINE a == << <<t.class \in {"returnBarcode", "scan"}, "LOOKUP_RETURN", "none", "barcode">>,
     <<t.class = "completeReturn", "REQUEST_COMMIT_RETURN", "none", "none">>,
     <<t.class = "pickup", "REQUEST_RETURN_PICKUP", "none", "none">>,
     <<t.class = "returnFrom" /\ t.what # {}, "SEARCH_RETURN", "name", "title">>,
     <<t.class = "returnFrom", "SEARCH_RETURN", "name", "none">>,
     <<t.class = "returnTitle", "SEARCH_RETURN", "none", "title">> >>
   b == IssuedBooksRules(t)
   c ==   << <<t.class = "returnBook", "START_RETURN", "none", "none">>,
     <<t.class = "barcode", "SELECT_BARCODE", "none", "barcode">>,
     <<t.class = "issueTitleTo", "REQUEST_COMMIT", "name", "title">>,
     <<t.class = "issueBookTo" /\ t.who # {}, "START_ISSUE_TO_PATRON", "name", "none">>,
     <<t.class \in {"issueBookTo", "issueBook"}, "START_ISSUE_TO_PATRON", "none", "none">>,
     <<t.class = "status", "REQUEST_FULFILLMENT_TRANSITION", "none", "none">>,
     <<t.class = "cancelIssue", "REQUEST_CANCEL_ISSUE", "none", "none">>,
     <<t.class = "browse", "START_CATALOG_SEARCH", "none", "none">>,
     <<t.class = "lookupPatron", "START_PATRON_LOOKUP", "none", "none">>,
     <<t.class = "find", "SEARCH_CATALOG", "none", "title">>,
     <<t.class = "hello", "CHAT", "none", "none">>,
     <<t.class = "key", "START_PATRON_DESK", "key", "none">>,
     <<IsShort(t), "SEARCH_PATRON", "name", "none">>,
     <<TRUE, "SEARCH_CATALOG", "none", "title">> >>
<1>1. /\ a \in [1 .. 6 -> Entries(a)]
      /\ b \in [1 .. 2 -> Entries(b)]
      /\ c \in [1 .. 14 -> Entries(c)]
  BY DEF IssuedBooksRules, Entries
<1>d. LET asks(rule) == rule[2] \in {"PROVIDE_PATRON_FOR_DESK", "DESK_START_RETURN"} IN
      /\ \A i \in 1 .. 6 : ~asks(a[i])
      /\ \A i \in 1 .. 2 : ~asks(b[i])
      /\ \A i \in 1 .. 14 : ~asks(c[i])
  BY DEF IssuedBooksRules
<1>2. \A i \in 1 .. 6 : Acts(a[i])
  BY DEF Acts, Actions
<1>3. \A i \in 1 .. 2 : Acts(b[i])
  BY DEF Acts, Actions, IssuedBooksRules
<1>4. \A i \in 1 .. 14 : Acts(c[i])
  BY DEF Acts, Actions
<1>5. c[14][1] = TRUE
  OBVIOUS
<1>6. TextRules(t) = a \o b \o c
  BY DEF TextRules
<1> HIDE DEF a, b, c
<1>7. Rules(a) /\ Len(a) = 6 /\ Rules(b) /\ Len(b) = 2 /\ Rules(c) /\ Len(c) = 14
  BY <1>1, <1>2, <1>3, <1>4, TupleRules
<1> DEFINE ab == a \o b
           abc == ab \o c
<1>8. /\ Rules(ab)
      /\ Len(ab) = Len(a) + Len(b)
      /\ \A i \in 1 .. Len(a) + Len(b) : ab[i] = IF i <= Len(a) THEN a[i] ELSE b[i - Len(a)]
  BY <1>7, ConcatRules, Zenon
<1> HIDE DEF ab
<1>9. /\ Rules(abc)
      /\ Len(abc) = Len(ab) + Len(c)
      /\ \A i \in 1 .. Len(ab) + Len(c) : abc[i] = IF i <= Len(ab) THEN ab[i] ELSE c[i - Len(ab)]
  BY <1>7, <1>8, ConcatRules, Zenon
<1> HIDE DEF abc
<1>10. Len(abc) = 22 /\ abc[22] = c[14]
  BY <1>7, <1>8, <1>9
<1>11. ASSUME NEW i \in 1 .. 22
       PROVE  abc[i][2] \notin {"PROVIDE_PATRON_FOR_DESK", "DESK_START_RETURN"}
  <2>1. abc[i] = IF i <= 6 THEN a[i] ELSE IF i <= 8 THEN b[i - 6] ELSE c[i - 8]
    BY <1>7, <1>8, <1>9
  <2> QED BY <1>d, <2>1
<1> QED BY <1>5, <1>6, <1>9, <1>10, <1>11, Zenon DEF ab, abc

\* A set of natural numbers that is not empty has a least one.
LEMMA LeastIndex ==
  ASSUME NEW T \in SUBSET Nat, T # {}
  PROVE  \E n \in T : \A m \in T : ~(m < n)
<1>1. IsWellFoundedOn(OpToRel(<, Nat), Nat)
  BY NatLessThanWellFounded
<1>2. PICK n \in T : \A m \in T : ~(<<m, n>> \in OpToRel(<, Nat))
  BY <1>1, WFMin
<1> QED BY <1>2 DEF OpToRel

\* Some rule is the first that applies, if the last one does.
LEMMA FirstApplies ==
  ASSUME NEW rules, Rules(rules), Len(rules) # 0, rules[Len(rules)][1]
  PROVE  \E n \in DOMAIN rules :
           First(rules) = rules[n] /\ rules[n][1] /\ \A j \in 1 .. n - 1 : ~rules[j][1]
<1> DEFINE T == {i \in DOMAIN rules : rules[i][1]}
           Is(n) == rules[n][1] /\ \A j \in 1 .. n - 1 : ~rules[j][1]
           f == CHOOSE i \in DOMAIN rules : Is(i)
<1>1. DOMAIN rules = 1 .. Len(rules) /\ Len(rules) \in Nat
  BY LenProperties DEF Rules
<1>2. T \in SUBSET Nat /\ Len(rules) \in T
  BY <1>1
<1>3. PICK n \in T : \A m \in T : ~(m < n)
  BY <1>2, LeastIndex
<1>4. \A j \in 1 .. n - 1 : ~rules[j][1]
  BY <1>1, <1>3
<1>5. \E m \in DOMAIN rules : Is(m)
  BY <1>3, <1>4
<1>6. First(rules) = rules[f]
  BY DEF First
<1> HIDE DEF Is
<1>7. f \in DOMAIN rules /\ Is(f)
  BY <1>5, Zenon
<1> HIDE DEF f
<1> QED BY <1>6, <1>7 DEF Is

\* The rule taken is one of a block, and none before it applies.
RuleAt(t, sl, n) ==
  IF n <= 15 THEN PromptRules(t, sl)[n]
  ELSE IF n <= 22 THEN SelectionRules(t, sl)[n - 15] ELSE TextRules(t)[n - 22]
LEMMA RuleTaken ==
  ASSUME NEW t \in Text, NEW sl \in Slots
  PROVE  \E n \in 1 .. 44 :
           /\ RuleParse(t, sl) = Parsed(RuleAt(t, sl, n), t) /\ RuleAt(t, sl, n)[1]
           /\ \A j \in 1 .. 15 : j < n => ~PromptRules(t, sl)[j][1]
<1> DEFINE p == PromptRules(t, sl)
           s == SelectionRules(t, sl)
           x == TextRules(t)
           ps == p \o s
           all == ps \o x
<1>1. Rules(p) /\ Len(p) = 15 /\ Rules(s) /\ Len(s) = 7
  BY PromptRulesType, SelectionRulesType
<1>2. Rules(x) /\ Len(x) = 22 /\ x[22][1]
  BY TextRulesType
<1>0. RuleParse(t, sl) = Parsed(First(all), t)
  BY DEF RuleParse
<1> HIDE DEF p, s, x
<1>3. /\ Rules(ps) /\ Len(ps) = Len(p) + Len(s)
      /\ \A i \in 1 .. Len(p) + Len(s) : ps[i] = IF i <= Len(p) THEN p[i] ELSE s[i - Len(p)]
  BY <1>1, ConcatRules, Zenon
<1> HIDE DEF ps
<1>4. /\ Rules(all)
      /\ Len(all) = Len(ps) + Len(x)
      /\ \A i \in 1 .. Len(ps) + Len(x) : all[i] = IF i <= Len(ps) THEN ps[i] ELSE x[i - Len(ps)]
  BY <1>2, <1>3, ConcatRules, Zenon
<1> HIDE DEF all
<1>5. /\ Len(all) = 44 /\ all[44] = x[22]
      /\ \A i \in 1 .. 44 : all[i] = IF i <= 22 THEN ps[i] ELSE x[i - 22]
      /\ \A i \in 1 .. 22 : ps[i] = IF i <= 15 THEN p[i] ELSE s[i - 15]
  BY <1>1, <1>2, <1>3, <1>4
<1>6. \A i \in 1 .. 44 : all[i] = IF i <= 15 THEN p[i] ELSE IF i <= 22 THEN s[i - 15] ELSE x[i - 22]
  BY <1>5
<1>7. PICK n \in DOMAIN all : First(all) = all[n] /\ all[n][1] /\ \A j \in 1 .. n - 1 : ~all[j][1]
  <2>1. Len(all) # 0 /\ all[Len(all)][1]
    BY <1>2, <1>5
  <2> QED BY <1>4, <2>1, FirstApplies, Zenon
<1>8. n \in 1 .. 44
  BY <1>4, <1>5, LenProperties DEF Rules
<1>9. \A j \in 1 .. 15 : j < n => ~p[j][1]
  BY <1>6, <1>7, <1>8
<1>10. all[n] = IF n <= 15 THEN p[n] ELSE IF n <= 22 THEN s[n - 15] ELSE x[n - 22]
  BY <1>6, <1>8
<1>11. all[n] = RuleAt(t, sl, n)
  BY <1>10 DEF RuleAt, p, s, x
<1>12. RuleParse(t, sl) = Parsed(RuleAt(t, sl, n), t) /\ RuleAt(t, sl, n)[1]
  BY <1>0, <1>7, <1>11
<1> QED BY <1>8, <1>9, <1>12 DEF p

\* The rules make an intent of every text, in every context.
LEMMA RuleParseType ==
  ASSUME NEW t \in Text, NEW sl \in Slots
  PROVE  RuleParse(t, sl) \in Intent
<1>1. PICK n \in 1 .. 44 : RuleParse(t, sl) = Parsed(RuleAt(t, sl, n), t)
  BY RuleTaken
<1> DEFINE rule == RuleAt(t, sl, n)
<1>2. /\ \A m \in 1 .. 15 : Acts(PromptRules(t, sl)[m])
      /\ \A m \in 1 .. 7 : Acts(SelectionRules(t, sl)[m])
      /\ \A m \in 1 .. 22 : Acts(TextRules(t)[m])
  BY PromptRulesType, SelectionRulesType, TextRulesType, LenProperties DEF Rules
<1>3. Acts(rule)
  <2>1. CASE n <= 15
    BY <1>2, <2>1 DEF RuleAt
  <2>2. CASE n > 15 /\ n <= 22
    <3>1. n - 15 \in 1 .. 7 /\ rule = SelectionRules(t, sl)[n - 15]
      BY <2>2 DEF RuleAt
    <3> QED BY <1>2, <3>1
  <2>3. CASE n > 22
    <3>1. n - 22 \in 1 .. 22 /\ rule = TextRules(t)[n - 22]
      BY <2>3 DEF RuleAt
    <3> QED BY <1>2, <3>1
  <2> QED BY <2>1, <2>2, <2>3
<1> HIDE DEF rule
<1> DEFINE e == t.class \in {"issueTo", "issueTitleTo"}
           d == IF t.deliver /\ rule[2] \in {"REQUEST_COMMIT", "START_ISSUE_TO_PATRON"} THEN "DELIVERY" ELSE "unsaid"
<1>4. e \in BOOLEAN /\ d \in {"DELIVERY", "unsaid"}
  OBVIOUS
<1>5. Parsed(rule, t) = [action |-> rule[2], by |-> rule[3], who |-> t.who, code |-> rule[4], what |-> t.what,
                         mode |-> d, explicit |-> e]
  BY DEF Parsed
<1> HIDE DEF e, d
<1>6. Parsed(rule, t) \in Intent
  BY <1>3, <1>4, <1>5 DEF Acts, Intent, Text
<1> QED BY <1>1, <1>6 DEF rule

\* So does the model, whatever it answers.
LEMMA LlmParseType ==
  ASSUME NEW t \in Text, LlmActions \subseteq Actions
  PROVE  LlmParse(t) \subseteq Intent
<1> DEFINE e == t.class \in {"issueTo", "issueTitleTo"}
           d == IF t.deliver THEN "DELIVERY" ELSE "unsaid"
<1>1. e \in BOOLEAN /\ d \in {"DELIVERY", "unsaid"}
  OBVIOUS
<1> SUFFICES ASSUME NEW i \in LlmParse(t) PROVE i \in Intent
  OBVIOUS
<1>2. PICK a \in LlmActions, b \in {"none", By(t)}, c \in {"none", IF NamesBarcode(t) THEN "barcode" ELSE "title"} :
        i = [action |-> a, by |-> IF a \in PatronActions THEN b ELSE "none",
             who |-> IF a \in PatronActions THEN t.who ELSE {},
             code |-> IF a \in CopyActions THEN c ELSE "none",
             what |-> IF a \in CopyActions THEN t.what ELSE {}, mode |-> d, explicit |-> e]
  BY DEF LlmParse
<1>3. /\ (IF a \in PatronActions THEN b ELSE "none") \in {"none", "key", "name"}
      /\ (IF a \in PatronActions THEN t.who ELSE {}) \subseteq Patrons
      /\ (IF a \in CopyActions THEN c ELSE "none") \in {"none", "barcode", "title"}
      /\ (IF a \in CopyActions THEN t.what ELSE {}) \subseteq Holdings
  BY DEF By, Text
<1> HIDE DEF e, d
<1> QED BY <1>1, <1>2, <1>3 DEF Intent

-----------------------------------------------------------------------------
(* What the handlers of the intents and the tools return *)

\* The steps a turn goes on with.
TurnSteps == {"idle"} \cup (ReadTools \ {"refresh"})

\* What a handler or a read tool comes to: slots, a tool that reads or the end of the
\* turn, and at the end of it perhaps an approval to ask for.
Outcome(i, out) ==
  /\ out.slots \in Slots
  /\ out.at \in TurnSteps
  /\ out.at = "resolveId" => i.who # {}
  /\ out.ask \in Approval \cup {NoApproval}
  /\ out.ask # NoApproval => out.at = "idle"
  /\ out.ask.kind = "SELECT_RETURN" => out.ask.loan \in LoanIds

\* The three ways to build an outcome.
LEMMA GoOutcome ==
  ASSUME NEW i, NEW sl \in Slots, NEW at \in TurnSteps, at = "resolveId" => i.who # {}
  PROVE  Outcome(i, Go(sl, at))
BY DEF Outcome, Go, NoApproval

LEMMA DoneOutcome ==
  ASSUME NEW i, NEW sl \in Slots
  PROVE  Outcome(i, Done(sl))
BY GoOutcome DEF Done, TurnSteps

LEMMA AskOutcome ==
  ASSUME NEW i, NEW sl \in Slots, NEW kind \in Kinds, NEW l \in Maybe(LoanIds),
         kind = "SELECT_RETURN" => l \in LoanIds
  PROVE  Outcome(i, Ask(sl, kind, l))
BY DEF Outcome, Ask, Approval, NoApproval, TurnSteps, Slots

\* The updates the tools are made of leave slots that are slots.
LEMMA AwaitSlots ==
  ASSUME NEW sl \in Slots, NEW on \in SUBSET Prompts, NEW off
  PROVE  Await(sl, on, off) \in Slots
BY DEF Await, Slots
LEMMA GuideSlots ==
  ASSUME NEW sl \in Slots, NEW on \in SUBSET Flows, NEW off
  PROVE  Guide(sl, on, off) \in Slots
BY DEF Guide, Slots
LEMMA DropSlots ==
  ASSUME NEW sl \in Slots
  PROVE  NoCopy(sl) \in Slots /\ NoLoan(sl) \in Slots
BY DEF NoCopy, NoLoan, Slots, Maybe

LEMMA FieldSlots ==
  ASSUME NEW sl \in Slots
  PROVE  /\ \A p \in Maybe(Patrons) : [sl EXCEPT !.patron = p] \in Slots
         /\ \A h \in Maybe(Holdings) : [sl EXCEPT !.holding = h] \in Slots
         /\ \A P \in SUBSET Patrons : [sl EXCEPT !.patronCands = P] \in Slots
         /\ \A H \in SUBSET Holdings : [sl EXCEPT !.copyCands = H] \in Slots
         /\ \A L \in SUBSET LoanIds : [sl EXCEPT !.loanCands = L] \in Slots
         /\ \A b \in BOOLEAN : [sl EXCEPT !.returnIntent = b] \in Slots
         /\ \A f \in Maybe(Fulfils) : [sl EXCEPT !.fulfil = f] \in Slots
         /\ \A l \in Maybe(LoanIds) : [sl EXCEPT !.loan = l] \in Slots
         /\ \A m \in {"DESK", "DELIVERY"} : [sl EXCEPT !.mode = m] \in Slots
BY DEF Slots

\* The one element of a set, when a search found exactly one.
LEMMA OneOf ==
  ASSUME NEW S, Cardinality(S) = 1
  PROVE  S # {} /\ (CHOOSE x \in S : TRUE) \in S
BY FS_EmptySet

\* The handlers, one by one, and then whichever of them an intent is for.
LEMMA StartDeskOutcome ==
  ASSUME NEW i, NEW sl \in Slots, NEW returning \in BOOLEAN
  PROVE  Outcome(i, StartDesk(i, sl, returning))
<1> DEFINE a == Await(Guide(NoLoan(sl), {"return"}, {}), {}, DeskPrompts)
           new == [a EXCEPT !.returnIntent = returning, !.loanCands = {}]
<1>1. a \in Slots
  BY DropSlots, GuideSlots, AwaitSlots DEF Flows
<1> HIDE DEF a
<1>2. new \in Slots
  BY <1>1 DEF Slots
<1> HIDE DEF new
<1>3. Outcome(i, Go(new, "resolve"))
  BY <1>2, GoOutcome DEF TurnSteps, ReadTools
<1>4. Outcome(i, Done(Await(new, {"deskPatron"}, {})))
  BY <1>2, AwaitSlots, DoneOutcome DEF Prompts
<1>5. StartDesk(i, sl, returning) = IF i.by = "name" THEN Go(new, "resolve") ELSE Done(Await(new, {"deskPatron"}, {}))
  BY DEF StartDesk, new, a
<1> QED BY <1>3, <1>4, <1>5

LEMMA StartIssueOutcome ==
  ASSUME NEW i, NEW sl \in Slots
  PROVE  Outcome(i, StartIssueToPatron(i, sl))
<1> DEFINE new == Guide(NoCopy(sl), {"issue"}, {})
<1>1. new \in Slots
  BY DropSlots, GuideSlots DEF Flows
<1> HIDE DEF new
<1>2. Await(new, {"book"}, {"patron"}) \in Slots /\ Await(new, {"patron"}, {"book"}) \in Slots
  BY <1>1, AwaitSlots DEF Prompts
<1>3. /\ Outcome(i, Go(Await(new, {"book"}, {"patron"}), "resolve"))
      /\ Outcome(i, Done(Await(new, {"patron"}, {"book"})))
  BY <1>2, GoOutcome, DoneOutcome DEF TurnSteps, ReadTools
<1> QED BY <1>3 DEF StartIssueToPatron, new

LEMMA DeskStartReturnOutcome ==
  ASSUME NEW i, NEW sl \in Slots
  PROVE  Outcome(i, DeskStartReturn(sl))
<1> DEFINE new == [sl EXCEPT !.returnIntent = TRUE]
<1>1. new \in Slots
  BY FieldSlots
<1> HIDE DEF new
<1>2. /\ Await(new, {"deskPick"}, {"deskNext"}) \in Slots
      /\ Guide(Await(new, {"deskPatron"}, {}), {"return"}, {}) \in Slots
  BY <1>1, AwaitSlots, GuideSlots DEF Prompts, Flows
<1>3. /\ Outcome(i, Done(new)) /\ Outcome(i, Go(new, "listLoans"))
      /\ Outcome(i, Done(Await(new, {"deskPick"}, {"deskNext"})))
      /\ Outcome(i, Done(Guide(Await(new, {"deskPatron"}, {}), {"return"}, {})))
  BY <1>1, <1>2, GoOutcome, DoneOutcome DEF TurnSteps, ReadTools
<1> QED BY <1>3 DEF DeskStartReturn, new

LEMMA DeclineSlots ==
  ASSUME NEW sl \in Slots
  PROVE  DeclineContinue(sl) \in Slots
<1> DEFINE a == Guide(Await(sl, {}, DeskPrompts), {}, {"return"})
           b == Guide(Await(sl, {}, {"catalog"}), {}, {"catalog"})
           c == Guide(Await(sl, {}, {"lookup"}), {}, {"lookup"})
           d == Guide(Await(sl, {}, {"patron", "book"}), {}, {"issue"})
<1>1. a \in Slots /\ b \in Slots /\ c \in Slots /\ d \in Slots
  BY AwaitSlots, GuideSlots
<1> HIDE DEF a, b, c, d
<1>2. /\ [a EXCEPT !.returnIntent = FALSE, !.loanCands = {}] \in Slots
      /\ [c EXCEPT !.patronCands = {}] \in Slots
  BY <1>1 DEF Slots
<1>3. NoCopy(b) \in Slots /\ NoCopy(d) \in Slots
  BY <1>1, DropSlots
<1> QED BY <1>2, <1>3 DEF DeclineContinue, a, b, c, d

LEMMA HandledOutcome ==
  ASSUME NEW i \in Intent, NEW sl \in Slots
  PROVE  Outcome(i, Handled(i, sl))
<1>1. /\ Outcome(i, StartDesk(i, sl, TRUE)) /\ Outcome(i, StartDesk(i, sl, FALSE))
      /\ Outcome(i, StartIssueToPatron(i, sl)) /\ Outcome(i, DeskStartReturn(sl))
  BY StartDeskOutcome, StartIssueOutcome, DeskStartReturnOutcome
<1>2. Outcome(i, Done(sl)) /\ Outcome(i, Done(DeclineContinue(sl)))
  BY DoneOutcome, DeclineSlots
<1>3. \A at \in TurnSteps \ {"resolveId"} : Outcome(i, Go(sl, at))
  BY GoOutcome
<1>4. {"resolve", "searchPatrons", "searchCatalog", "searchLendable", "selectCopy", "selectBarcode",
       "selectPatron", "validate", "fulfilStatus", "lookup", "searchReturn", "selectLoan", "listLoans"}
        \subseteq TurnSteps \ {"resolveId"}
  BY DEF TurnSteps, ReadTools
<1>5. Outcome(i, ProvidePatronForDesk(i, sl))
  BY <1>3, <1>4 DEF ProvidePatronForDesk
<1>6. Outcome(i, Done(NoCopy(Guide(Await(sl, {"book"}, {"deskNext"}), {"issue"}, {}))))
  BY AwaitSlots, GuideSlots, DropSlots, DoneOutcome DEF Prompts, Flows
<1>7. Outcome(i, Done(NoCopy(Guide(Await(sl, {"catalog"}, {"deskNext"}), {"catalog"}, {}))))
  BY AwaitSlots, GuideSlots, DropSlots, DoneOutcome DEF Prompts, Flows
<1>8. Outcome(i, Done([Guide(Await(sl, {}, DeskPrompts), {}, {"return"})
                 EXCEPT !.returnIntent = FALSE, !.loanCands = {}, !.loan = None, !.holding = None]))
  <2> DEFINE a == Guide(Await(sl, {}, DeskPrompts), {}, {"return"})
  <2>1. a \in Slots
    BY AwaitSlots, GuideSlots
  <2> HIDE DEF a
  <2>2. [a EXCEPT !.returnIntent = FALSE, !.loanCands = {}, !.loan = None, !.holding = None] \in Slots
    BY <2>1 DEF Slots, Maybe
  <2> QED BY <2>2, DoneOutcome DEF a
<1>9. Outcome(i, Done([NoCopy(Guide(Await(sl, {"catalog"}, {"patron", "book"}), {"catalog"}, {"issue"}))
                 EXCEPT !.patron = None]))
  <2> DEFINE a == NoCopy(Guide(Await(sl, {"catalog"}, {"patron", "book"}), {"catalog"}, {"issue"}))
  <2>1. a \in Slots
    BY AwaitSlots, GuideSlots, DropSlots DEF Prompts, Flows
  <2> HIDE DEF a
  <2>2. [a EXCEPT !.patron = None] \in Slots
    BY <2>1 DEF Slots, Maybe
  <2> QED BY <2>2, DoneOutcome DEF a
<1>10. Outcome(i, Done([Guide(Await(sl, {"lookup"}, {}), {"lookup"}, {})
                 EXCEPT !.patronCands = {}, !.patron = None]))
  <2> DEFINE a == Guide(Await(sl, {"lookup"}, {}), {"lookup"}, {})
  <2>1. a \in Slots
    BY AwaitSlots, GuideSlots DEF Prompts, Flows
  <2> HIDE DEF a
  <2>2. [a EXCEPT !.patronCands = {}, !.patron = None] \in Slots
    BY <2>1 DEF Slots, Maybe
  <2> QED BY <2>2, DoneOutcome DEF a
<1>11. i.action \in DOMAIN LoanKind => Outcome(i, Ask(sl, LoanKind[i.action], None))
  <2>1. i.action \in DOMAIN LoanKind => LoanKind[i.action] \in Kinds \ {"SELECT_RETURN"}
    BY DEF LoanKind, Kinds
  <2> QED BY <2>1, AskOutcome DEF Maybe
<1> QED BY <1>1, <1>2, <1>3, <1>4, <1>5, <1>6, <1>7, <1>8, <1>9, <1>10, <1>11 DEF Handled

-----------------------------------------------------------------------------
(* The read tools *)

\* The slots after a loan was chosen: its copy and its patron come from the table.
LEMMA WithLoanSlots ==
  ASSUME loans \in [LoanIds -> LoanRow], NEW sl \in Slots, NEW l \in LoanIds
  PROVE  WithLoan(sl, l) \in Slots
BY DEF WithLoan, Slots, LoanRow, Maybe

\* The read tools, one by one.
LEMMA IdentifiedOutcome ==
  ASSUME NEW i \in Intent, NEW sl \in Slots
  PROVE  Outcome(i, Identified(i, sl)) /\ Outcome(i, NotIdentified(i, sl))
<1>1. /\ Await(sl, {"book"}, {"patron"}) \in Slots
      /\ Guide(Await(sl, {}, {"lookup"}), {}, {"lookup"}) \in Slots
      /\ Guide(Await(sl, {}, {"book"}), {}, {"issue"}) \in Slots
      /\ Await(sl, {"deskPatron"}, {}) \in Slots
  BY AwaitSlots, GuideSlots DEF Prompts
<1>2. /\ Outcome(i, Done(Await(sl, {"book"}, {"patron"})))
      /\ Outcome(i, Done(Guide(Await(sl, {}, {"lookup"}), {}, {"lookup"})))
      /\ Outcome(i, Done(Guide(Await(sl, {}, {"book"}), {}, {"issue"})))
      /\ Outcome(i, Done(Await(sl, {"deskPatron"}, {})))
      /\ Outcome(i, Done(sl))
  BY <1>1, DoneOutcome
<1>3. Outcome(i, Go(sl, "listLoans")) /\ Outcome(i, Go(sl, "searchLendable")) /\ Outcome(i, Go(sl, "validate"))
  BY GoOutcome DEF TurnSteps, ReadTools
<1> QED BY <1>2, <1>3 DEF Identified, NotIdentified

LEMMA ResolveOutcome ==
  ASSUME NEW i \in Intent, NEW sl \in Slots, NEW valid \in BOOLEAN
  PROVE  Outcome(i, Resolve(i, sl, valid))
<1> DEFINE found == IF Cardinality(i.who) = 1 THEN [sl EXCEPT !.patron = CHOOSE p \in i.who : TRUE]
                    ELSE IF Cardinality(i.who) > 1 THEN [sl EXCEPT !.patronCands = i.who] ELSE sl
<1>1. found \in Slots
  BY OneOf, FieldSlots DEF Intent, Maybe
<1>2. Resolve(i, sl, valid) =
        IF Cardinality(i.who) = 1 /\ valid THEN Identified(i, found)
        ELSE IF i.by = "key"
        THEN Done(IF i.action = "PROVIDE_PATRON_LOOKUP" THEN Await(found, {"lookup"}, {}) ELSE found)
        ELSE IF i.action # "PROVIDE_PATRON_LOOKUP" /\ found.patronCands # {} THEN Done(found)
        ELSE Go(found, "searchPatrons")
  BY DEF Resolve
<1> HIDE DEF found
<1>3. Await(found, {"lookup"}, {}) \in Slots
  BY <1>1, AwaitSlots DEF Prompts
<1>4. /\ Outcome(i, Done(Await(found, {"lookup"}, {}))) /\ Outcome(i, Done(found))
      /\ Outcome(i, Go(found, "searchPatrons")) /\ Outcome(i, Identified(i, found))
  BY <1>1, <1>3, DoneOutcome, GoOutcome, IdentifiedOutcome DEF TurnSteps, ReadTools
<1> QED BY <1>2, <1>4

\* Only a search that found one patron goes on to resolve that patron.
LEMMA SearchPatronsOutcome ==
  ASSUME NEW i \in Intent, NEW sl \in Slots
  PROVE  Outcome(i, SearchPatrons(i, sl))
<1> DEFINE found == IF Cardinality(i.who) > 1 THEN [sl EXCEPT !.patronCands = i.who] ELSE sl
<1>1. found \in Slots
  BY FieldSlots DEF Intent
<1>2. SearchPatrons(i, sl) =
        IF i.action = "PROVIDE_PATRON_LOOKUP"
        THEN CASE i.who = {} -> Done(Await(found, {"lookup"}, {}))
               [] Cardinality(i.who) = 1 -> Go(found, "resolveId")
               [] OTHER -> Done(Await(found, {}, {"lookup"}))
        ELSE IF found.patronCands = {} /\ Cardinality(i.who) = 1 THEN Go(found, "resolveId")
        ELSE NotIdentified(i, found)
  BY DEF SearchPatrons
<1> HIDE DEF found
<1>3. /\ Outcome(i, Done(Await(found, {"lookup"}, {}))) /\ Outcome(i, Done(Await(found, {}, {"lookup"})))
      /\ Outcome(i, NotIdentified(i, found))
  BY <1>1, AwaitSlots, DoneOutcome, IdentifiedOutcome DEF Prompts
<1>4. Cardinality(i.who) = 1 => Outcome(i, Go(found, "resolveId"))
  BY <1>1, OneOf, GoOutcome DEF TurnSteps, ReadTools
<1> QED BY <1>2, <1>3, <1>4, OneOf

LEMMA ResolveIdOutcome ==
  ASSUME NEW i \in Intent, NEW sl \in Slots, NEW valid \in BOOLEAN, i.who # {}
  PROVE  Outcome(i, ResolveId(i, sl, valid))
<1> DEFINE found == [sl EXCEPT !.patron = CHOOSE p \in i.who : TRUE]
<1>1. found \in Slots
  BY FieldSlots DEF Intent, Maybe
<1> HIDE DEF found
<1>2. Outcome(i, Identified(i, found)) /\ Outcome(i, NotIdentified(i, found))
      /\ Outcome(i, Done(Await(found, {}, {"lookup"})))
  BY <1>1, IdentifiedOutcome, AwaitSlots, DoneOutcome
<1> QED BY <1>2 DEF ResolveId, found

LEMMA SelectPatronSlots ==
  ASSUME NEW i \in Intent, NEW sl \in Slots
  PROVE  SelectPatron(i, sl) \in Slots
<1> DEFINE matches == sl.patronCands \cap i.who
           a == Await(sl, {}, {"lookup"})
<1>1. a \in Slots /\ matches \in SUBSET Patrons
  BY AwaitSlots DEF Slots
<1>2. SelectPatron(i, sl) =
        IF Cardinality(matches) = 1
        THEN [a EXCEPT !.patron = CHOOSE p \in matches : TRUE, !.patronCands = {}]
        ELSE IF matches = {} THEN sl ELSE [sl EXCEPT !.patronCands = matches]
  BY DEF SelectPatron
<1> HIDE DEF a, matches
<1>3. Cardinality(matches) = 1 => (CHOOSE p \in matches : TRUE) \in Patrons
  BY <1>1, OneOf
<1>4. \A p \in Patrons : [a EXCEPT !.patron = p, !.patronCands = {}] \in Slots
  BY <1>1 DEF Slots, Maybe
<1> QED BY <1>1, <1>2, <1>3, <1>4, FieldSlots

\* The loans that are open, and those of the patrons found.
LEMMA SomeLoans ==
  /\ OpenLoans \in SUBSET LoanIds
  /\ \A P : LoansOf(P) \in SUBSET OpenLoans
  /\ \A i, sl : ListedLoans(i, sl) \in SUBSET OpenLoans
BY DEF OpenLoans, LoansOf, ListedLoans

LEMMA ListedSlots ==
  ASSUME loans \in [LoanIds -> LoanRow], NEW sl \in Slots, NEW found \in SUBSET LoanIds, NEW returning,
         NEW first \in AnyOf(found)
  PROVE  Listed(sl, found, first, returning) \in Slots
<1>1. CASE found = {}
  BY <1>1, DropSlots, FieldSlots DEF Listed
<1>2. CASE found # {} /\ returning /\ Cardinality(found) = 1
  BY <1>2, WithLoanSlots, FieldSlots DEF Listed, AnyOf
<1>3. CASE found # {} /\ ~(returning /\ Cardinality(found) = 1)
  <2>1. loans[first].patron \in Maybe(Patrons)
    BY <1>3 DEF LoanRow, AnyOf
  <2> DEFINE a == NoLoan(sl)
  <2>2. a \in Slots
    BY DropSlots
  <2> HIDE DEF a
  <2>3. [a EXCEPT !.patron = loans[first].patron, !.loanCands = found] \in Slots
    BY <2>1, <2>2 DEF Slots
  <2> QED BY <1>3, <2>3 DEF Listed, a
<1> QED BY <1>1, <1>2, <1>3

LEMMA ListLoansOutcome ==
  ASSUME loans \in [LoanIds -> LoanRow], NEW i \in Intent, NEW sl \in Slots,
         NEW first \in AnyOf(ListedLoans(i, sl))
  PROVE  Outcome(i, ListLoans(i, sl, first))
<1> DEFINE found == ListedLoans(i, sl)
           new == Listed(sl, found, first, sl.returnIntent)
           prompt == IF sl.returnIntent /\ Cardinality(found) = 1 THEN {}
                     ELSE IF sl.returnIntent /\ found # {} THEN {"deskPick"} ELSE {"deskNext"}
<1>1. new \in Slots
  BY ListedSlots, SomeLoans
<1>2. prompt \in SUBSET Prompts
  BY DEF Prompts
<1>3. ListLoans(i, sl, first) = IF i.action = "PROVIDE_PATRON_FOR_DESK" /\ i.by = "key" /\ i.who = {}
                                THEN Done(Await(sl, {"deskPatron"}, {})) ELSE Done(Await(new, prompt, DeskPrompts))
  BY DEF ListLoans
<1> HIDE DEF new, prompt
<1>4. Await(new, prompt, DeskPrompts) \in Slots /\ Await(sl, {"deskPatron"}, {}) \in Slots
  BY <1>1, <1>2, AwaitSlots DEF Prompts
<1> QED BY <1>3, <1>4, DoneOutcome

LEMMA LookupOutcome ==
  ASSUME loans \in [LoanIds -> LoanRow], NEW i \in Intent, NEW sl \in Slots
  PROVE  Outcome(i, Lookup(i, sl))
<1> DEFINE ls == {l \in OpenLoans : loans[l].holding \in i.what}
           l0 == CHOOSE l \in ls : TRUE
           found == [WithLoan(sl, l0) EXCEPT !.loanCands = {}]
           new == IF ls = {} THEN sl ELSE found
<1>1. ls # {} => found \in Slots
  <2>1. ls # {} => l0 \in LoanIds
    BY SomeLoans
  <2> HIDE DEF l0
  <2> QED BY <2>1, WithLoanSlots, FieldSlots
<1>2. Lookup(i, sl) =
        IF i.action # "PROVIDE_PATRON_FOR_DESK" THEN Done(new)
        ELSE IF sl.returnIntent THEN Done(Await(new, {}, DeskPrompts))
        ELSE IF ls = {} THEN Done(Await(sl, {"deskPatron"}, {}))
        ELSE Go(NoLoan(found), "listLoans")
  BY DEF Lookup
<1> HIDE DEF ls, found
<1>3. new \in Slots
  BY <1>1
<1> HIDE DEF new
<1>4. /\ Outcome(i, Done(new)) /\ Outcome(i, Done(Await(new, {}, DeskPrompts)))
      /\ Outcome(i, Done(Await(sl, {"deskPatron"}, {})))
  BY <1>3, AwaitSlots, DoneOutcome DEF Prompts
<1>5. ls # {} => Outcome(i, Go(NoLoan(found), "listLoans"))
  BY <1>1, DropSlots, GoOutcome DEF TurnSteps, ReadTools
<1> QED BY <1>2, <1>4, <1>5

LEMMA SearchCatalogSlots ==
  ASSUME NEW i \in Intent, NEW sl \in Slots
  PROVE  SearchCatalog(i, sl) \in Slots
<1> DEFINE found == {h \in i.what : ~OnLoan(h)}
           prompt == IF "catalog" \in sl.guided THEN {"catalog"} ELSE {"book"}
           a == Await(sl, {}, prompt)
           new == IF Cardinality(found) = 1
                  THEN [a EXCEPT !.holding = CHOOSE h \in found : TRUE, !.copyCands = {}]
                  ELSE [a EXCEPT !.copyCands = found]
           retry == CASE i.action = "PROVIDE_BOOK_CRITERIA" -> {"book"}
                      [] i.action = "PROVIDE_CATALOG_CRITERIA" -> {"catalog"}
                      [] OTHER -> {}
<1>1. found \in SUBSET Holdings
  BY DEF Intent
<1>2. a \in Slots
  BY AwaitSlots
<1>3. SearchCatalog(i, sl) =
        IF found = {} THEN Await(new, prompt \cup retry, {})
        ELSE IF i.action = "PROVIDE_CATALOG_CRITERIA" /\ "return" \in sl.guided /\ sl.patron # None
        THEN Guide(Await(new, {"deskNext"}, {"catalog"}), {}, {"catalog"})
        ELSE new
  BY DEF SearchCatalog
<1>4. prompt \cup retry \in SUBSET Prompts
  BY DEF Prompts
<1> HIDE DEF found, a, prompt, retry
<1>5. new \in Slots
  <2>1. Cardinality(found) = 1 => (CHOOSE h \in found : TRUE) \in Holdings
    BY <1>1, OneOf
  <2>2. \A h \in Holdings : [a EXCEPT !.holding = h, !.copyCands = {}] \in Slots
    BY <1>2 DEF Slots, Maybe
  <2> QED BY <1>1, <1>2, <2>1, <2>2, FieldSlots
<1> HIDE DEF new
<1>6. /\ Await(new, prompt \cup retry, {}) \in Slots
      /\ Guide(Await(new, {"deskNext"}, {"catalog"}), {}, {"catalog"}) \in Slots
  BY <1>4, <1>5, AwaitSlots, GuideSlots DEF Prompts
<1> QED BY <1>3, <1>5, <1>6

LEMMA SelectCopySlots ==
  ASSUME NEW i \in Intent, NEW sl \in Slots
  PROVE  SelectCopy(i, sl) \in Slots
<1> DEFINE matches == IF sl.copyCands # {} THEN sl.copyCands \cap i.what
                      ELSE IF i.code = "barcode" THEN {h \in i.what : ~OnLoan(h)} ELSE {}
           prompts == IF sl.copyCands # {} THEN {"book", "catalog"} ELSE {"book"}
           a == Await(sl, {}, prompts)
<1>1. matches \in SUBSET Holdings
  BY DEF Intent
<1>2. a \in Slots
  BY AwaitSlots
<1>3. SelectCopy(i, sl) =
        IF matches = {} THEN sl
        ELSE IF Cardinality(matches) > 1 THEN [sl EXCEPT !.copyCands = matches]
        ELSE [a EXCEPT !.holding = CHOOSE h \in matches : TRUE, !.copyCands = {}]
  BY DEF SelectCopy
<1> HIDE DEF matches, a
<1>4. matches # {} => (CHOOSE h \in matches : TRUE) \in Holdings
  BY <1>1
<1>5. \A h \in Holdings : [a EXCEPT !.holding = h, !.copyCands = {}] \in Slots
  BY <1>2 DEF Slots, Maybe
<1> QED BY <1>1, <1>3, <1>4, <1>5, FieldSlots

LEMMA SelectBarcodeSlots ==
  ASSUME NEW i \in Intent, NEW sl \in Slots
  PROVE  SelectBarcode(i, sl) \in Slots
<1> DEFINE free == {h \in i.what : ~OnLoan(h)}
<1>1. free # {} => (CHOOSE h \in free : TRUE) \in Maybe(Holdings)
  BY DEF Intent, Maybe
<1>2. SelectBarcode(i, sl) = IF free = {} THEN sl ELSE [sl EXCEPT !.holding = CHOOSE h \in free : TRUE]
  BY DEF SelectBarcode
<1> HIDE DEF free
<1> QED BY <1>1, <1>2, FieldSlots

LEMMA SearchLendableOutcome ==
  ASSUME NEW i \in Intent, NEW sl \in Slots
  PROVE  Outcome(i, SearchLendable(i, sl))
<1> DEFINE found == IF sl.patron = None THEN {} ELSE {h \in i.what : ~OnLoan(h)}
           new == IF found = {} THEN sl
                  ELSE IF Cardinality(found) = 1
                  THEN [sl EXCEPT !.holding = CHOOSE h \in found : TRUE, !.copyCands = {}]
                  ELSE [sl EXCEPT !.copyCands = found]
<1>1. found \in SUBSET Holdings
  BY DEF Intent
<1>2. SearchLendable(i, sl) =
        IF i.action = "REQUEST_COMMIT" /\ new.copyCands = {} THEN Go(new, "validate") ELSE Done(new)
  BY DEF SearchLendable
<1> HIDE DEF found
<1>3. Cardinality(found) = 1 => (CHOOSE h \in found : TRUE) \in Holdings
  BY <1>1, OneOf
<1>4. \A h \in Holdings : [sl EXCEPT !.holding = h, !.copyCands = {}] \in Slots
  BY DEF Slots, Maybe
<1>5. new \in Slots
  BY <1>1, <1>3, <1>4, FieldSlots
<1> HIDE DEF new
<1> QED BY <1>2, <1>5, GoOutcome, DoneOutcome DEF TurnSteps, ReadTools

\* The tools after which the agent may ask for an approval.
LEMMA AskingOutcome ==
  ASSUME loans \in [LoanIds -> LoanRow], NEW i \in Intent, NEW sl \in Slots
  PROVE  /\ \A valid \in BOOLEAN : Outcome(i, Validate(i, sl, valid))
         /\ \A found \in Maybe(Fulfils) : Outcome(i, FulfilStatus(sl, found))
         /\ Outcome(i, SelectLoan(i, sl))
<1>1. ASSUME NEW valid \in BOOLEAN PROVE Outcome(i, Validate(i, sl, valid))
  BY DoneOutcome, AskOutcome DEF Validate, Kinds, Maybe
<1>2. ASSUME NEW found \in Maybe(Fulfils) PROVE Outcome(i, FulfilStatus(sl, found))
  <2> DEFINE own == IF sl.fulfil # None THEN sl.fulfil ELSE found
  <2>1. own \in Maybe(Fulfils)
    BY DEF Slots
  <2>2. FulfilStatus(sl, found) = IF own = None THEN Done(sl)
                           ELSE Ask([sl EXCEPT !.fulfil = own], "TRANSITION_FULFILLMENT", None)
    BY DEF FulfilStatus
  <2> HIDE DEF own
  <2>3. [sl EXCEPT !.fulfil = own] \in Slots
    BY <2>1, FieldSlots
  <2>4. Outcome(i, Ask([sl EXCEPT !.fulfil = own], "TRANSITION_FULFILLMENT", None))
    BY <2>3, AskOutcome DEF Kinds, Maybe
  <2> QED BY <2>2, <2>4, DoneOutcome
<1>3. Outcome(i, SelectLoan(i, sl))
  <2> DEFINE matches == {l \in sl.loanCands : loans[l].holding \in i.what}
             l0 == CHOOSE l \in matches : TRUE
             a == Await(sl, {}, {"deskPick"})
  <2>1. matches \in SUBSET LoanIds
    BY DEF Slots
  <2>2. matches # {} => l0 \in LoanIds
    BY <2>1
  <2>3. SelectLoan(i, sl) = IF matches = {} THEN Done(sl)
                            ELSE IF Cardinality(matches) > 1 THEN Done([sl EXCEPT !.loanCands = matches])
                            ELSE Ask(a, "SELECT_RETURN", l0)
    BY DEF SelectLoan
  <2>4. a \in Slots
    BY AwaitSlots
  <2> HIDE DEF matches, l0, a
  <2>5. matches # {} => Outcome(i, Ask(a, "SELECT_RETURN", l0))
    BY <2>2, <2>4, AskOutcome DEF Kinds, Maybe
  <2>6. Outcome(i, Done([sl EXCEPT !.loanCands = matches])) /\ Outcome(i, Done(sl))
    BY <2>1, FieldSlots, DoneOutcome
  <2> QED BY <2>3, <2>5, <2>6
<1> QED BY <1>1, <1>2, <1>3

LEMMA SearchReturnSlots ==
  ASSUME loans \in [LoanIds -> LoanRow], NEW i \in Intent, NEW sl \in Slots
  PROVE  SearchReturn(i, sl) \in Slots
<1> DEFINE ofPatron == IF i.by = "none" THEN OpenLoans ELSE LoansOf(i.who)
           found == {l \in ofPatron : i.code = "title" => loans[l].holding \in i.what}
           l0 == CHOOSE l \in found : TRUE
<1>1. found \in SUBSET LoanIds
  BY SomeLoans
<1>2. Cardinality(found) = 1 => l0 \in LoanIds
  <2> HIDE DEF found
  <2> QED BY <1>1, OneOf
<1>3. SearchReturn(i, sl) = IF i.by = "key" /\ i.who = {} THEN sl
                            ELSE IF Cardinality(found) = 1 THEN [WithLoan(sl, l0) EXCEPT !.loanCands = {}]
                            ELSE [sl EXCEPT !.loanCands = found]
  BY DEF SearchReturn
<1> HIDE DEF found, l0
<1>4. Cardinality(found) = 1 => [WithLoan(sl, l0) EXCEPT !.loanCands = {}] \in Slots
  BY <1>2, WithLoanSlots, FieldSlots
<1> QED BY <1>1, <1>3, <1>4, FieldSlots

-----------------------------------------------------------------------------
(* The invariant, and the steps that keep it *)

USE NamesakesAssumption, ToolCallsAssumption, AgentNoneAssumption, SaidAssumption, LlmActionsAssumption

\* The keys under which an approval was asked for.
Made == {k \in Keys : approval[k] # NoApproval}
WriteSteps == {"execute", "checkout", "deliver", "insert", "executed", "refresh"}

\* What a thread has in hand at each of its steps.
ThreadOK(q) ==
  /\ q \in Request
  /\ q.at = "idle" => q = NoRequest
  /\ q.at # "idle" => q.session \in Sessions
  /\ q.at = "resolveId" => q.intent.who # {}
  /\ q.at \in WriteSteps => q.key \in Keys
  /\ q.at = "executed" /\ q.result = "ok" => q.loan \in LoanIds
  /\ q.at = "checkout" => HasPatronAndHolding(q.seen)
  /\ q.at \in {"deliver", "insert"} => q.loan \in LoanIds /\ q.result = "ok"

LedgerOK   == loans \in [LoanIds -> LoanRow] /\ fulfils \subseteq Fulfils /\ done \subseteq Effect
SessionsOK == slots \in [Sessions -> Slots] /\ calls \in [Sessions -> 0 .. MaxToolCalls]
AskedOK ==
  /\ approval \in [Keys -> Approval \cup {NoApproval}] /\ approved \subseteq Keys
  /\ disturbed \subseteq Keys
  /\ \A k \in Keys : approval[k].kind = "SELECT_RETURN" => approval[k].loan \in LoanIds
  /\ pending \in [Sessions -> Maybe(Made)]
ThreadsOK ==
  /\ request \in [Requests -> Request]
  /\ \A r \in Requests : ThreadOK(request[r])
  /\ \A r \in Requests : request[r].at \in WriteSteps => request[r].key \in Made

\* The inductive invariant: with the types, that a thread between its approval and its
\* answer, and a pending approval, hold a key that was asked for.
TypeInv == LedgerOK /\ SessionsOK /\ AskedOK /\ ThreadsOK

LEMMA InvImpliesType == TypeInv => AgentTypeOK
BY DEF TypeInv, LedgerOK, SessionsOK, AskedOK, ThreadsOK, AgentTypeOK, Made, Maybe

LEMMA NoRequestOK == ThreadOK(NoRequest)
<1>1. EmptySlots \in Slots
  BY DEF EmptySlots, Slots, Maybe
<1> HIDE DEF EmptySlots
<1>2. NoIntent \in Intent
  BY DEF NoIntent, Intent, Actions
<1> HIDE DEF NoIntent
<1>3. NoRequest \in Request
  BY <1>1, <1>2 DEF NoRequest, Request, Maybe, Steps
<1> QED BY <1>3 DEF ThreadOK, NoRequest, WriteSteps

LEMMA InitTyped == Init => TypeInv
<1> SUFFICES ASSUME Init PROVE TypeInv
  OBVIOUS
<1>1. LedgerOK
  BY DEF Init, LedgerOK, UnusedLoan, LoanRow, Maybe
<1>2. SessionsOK
  <2>1. EmptySlots \in Slots
    BY DEF EmptySlots, Slots, Maybe
  <2> HIDE DEF EmptySlots
  <2> QED BY <2>1 DEF Init, SessionsOK
<1>3. AskedOK
  <2>1. NoApproval.kind # "SELECT_RETURN"
    BY DEF NoApproval
  <2> QED BY <2>1 DEF Init, AskedOK, Maybe
<1>4. ThreadsOK
  <2>1. NoRequest \in Request /\ NoRequest.at \notin WriteSteps
    BY NoRequestOK DEF ThreadOK, WriteSteps, NoRequest
  <2> QED BY <2>1, NoRequestOK DEF Init, ThreadsOK
<1> QED BY <1>1, <1>2, <1>3, <1>4 DEF TypeInv

\* A step of one thread that asks for nothing or adds an approval.
LEMMA ThreadType ==
  ASSUME ThreadsOK, NEW r \in Requests, NEW q, ThreadOK(q),
         request' = [request EXCEPT ![r] = q], Made \subseteq Made', q.at \in WriteSteps => q.key \in Made'
  PROVE  ThreadsOK'
<1>1. q \in Request
  BY DEF ThreadOK
<1>2. request' \in [Requests -> Request]
  BY <1>1 DEF ThreadsOK
<1>3. request'[r] = q /\ \A x \in Requests : x # r => request'[x] = request[x]
  BY DEF ThreadsOK
<1>4. ASSUME NEW x \in Requests
      PROVE  ThreadOK(request'[x]) /\ (request'[x].at \in WriteSteps => request'[x].key \in Made')
  BY <1>3 DEF ThreadsOK
<1> HIDE DEF ThreadOK
<1>5. \A x \in Requests : ThreadOK(request[x])'
  BY <1>4 DEF ThreadOK
<1> QED BY <1>2, <1>4, <1>5 DEF ThreadsOK

\* The turn of a message goes on.
LEMMA TurnType ==
  ASSUME TypeInv, NEW r \in Requests, NEW out, Outcome(request[r].intent, out), Turn(r, out),
         request[r].at \notin {"idle"} \cup WriteSteps, calls' \in [Sessions -> 0 .. MaxToolCalls]
  PROVE  TypeInv'
<1> DEFINE s == request[r].session
           q == IF out.at = "idle" THEN NoRequest ELSE [request[r] EXCEPT !.at = out.at]
<1>1. /\ ThreadOK(request[r]) /\ request[r] \in Request /\ s \in Sessions
  BY DEF TypeInv, ThreadsOK, ThreadOK
<1>2. LedgerOK'
  BY DEF TypeInv, LedgerOK, Turn, ledger
<1>3. SessionsOK'
  BY <1>1 DEF TypeInv, SessionsOK, Turn, Outcome
<1>4. ThreadOK(q) /\ q.at \notin WriteSteps
  <2>1. CASE out.at = "idle"
    BY <2>1, NoRequestOK DEF NoRequest, WriteSteps
  <2>2. CASE out.at # "idle"
    <3>1. out.at \in Steps \ ({"idle"} \cup WriteSteps) /\ (out.at = "resolveId" => request[r].intent.who # {})
      BY <2>2 DEF Outcome, TurnSteps, Steps, ReadTools, WriteSteps
    <3>2. q = [request[r] EXCEPT !.at = out.at] /\ q \in Request
      BY <1>1, <2>2, <3>1 DEF Request
    <3>3. q.at = out.at /\ q.session = s /\ q.intent = request[r].intent
      BY <1>1, <3>2 DEF Request
    <3> HIDE DEF q
    <3> QED BY <1>1, <3>1, <3>2, <3>3 DEF ThreadOK, WriteSteps
  <2> QED BY <2>1, <2>2
<1>5. request' = [request EXCEPT ![r] = q]
  BY DEF Turn
<1> HIDE DEF q
<1>6. AskedOK' /\ Made \subseteq Made'
  <2>1. CASE out.ask = NoApproval
    <3>1. approval' = approval /\ pending' = pending /\ approved' = approved /\ disturbed' = disturbed
      BY <2>1 DEF Turn
    <3> QED BY <3>1 DEF TypeInv, AskedOK, Made, Maybe
  <2>2. CASE out.ask # NoApproval
    <3>1. PICK k \in KeysLeft : /\ approval' = [approval EXCEPT ![k] = out.ask]
                              /\ pending' = [pending EXCEPT ![s] = k]
                              /\ disturbed' \subseteq disturbed \cup {k}
      BY <2>2 DEF Turn
    <3>2. k \in Keys /\ approval[k] = NoApproval
      BY DEF KeysLeft
    <3>3. /\ out.ask \in Approval \cup {NoApproval}
          /\ out.ask.kind = "SELECT_RETURN" => out.ask.loan \in LoanIds
      BY DEF Outcome
    <3>4. /\ approval' \in [Keys -> Approval \cup {NoApproval}]
          /\ approval'[k] = out.ask /\ \A x \in Keys : x # k => approval'[x] = approval[x]
      BY <3>1, <3>2, <3>3 DEF TypeInv, AskedOK
    <3>5. \A x \in Keys : approval'[x].kind = "SELECT_RETURN" => approval'[x].loan \in LoanIds
      BY <3>3, <3>4 DEF TypeInv, AskedOK
    <3>6. Made \subseteq Made' /\ k \in Made'
      BY <2>2, <3>2, <3>4 DEF Made
    <3>7. pending' \in [Sessions -> Maybe(Made')]
      BY <3>1, <3>6 DEF TypeInv, AskedOK, Maybe
    <3>8. approved' = approved /\ disturbed' \subseteq Keys
      BY <3>1, <3>2 DEF Turn, TypeInv, AskedOK
    <3> QED BY <3>4, <3>5, <3>6, <3>7, <3>8 DEF TypeInv, AskedOK, Maybe
  <2> QED BY <2>1, <2>2
<1>7. ThreadsOK'
  BY <1>4, <1>5, <1>6, ThreadType DEF TypeInv
<1> QED BY <1>2, <1>3, <1>6, <1>7 DEF TypeInv

\* A counted call leaves the counter within the budget.
LEMMA CallsType ==
  ASSUME TypeInv, NEW r \in Requests, NEW tool, tool # "idle", Calls(r, tool)
  PROVE  /\ calls' \in [Sessions -> 0 .. MaxToolCalls]
         /\ request[r].at = tool /\ request[r] \in Request /\ request[r].session \in Sessions
         /\ request[r].intent \in Intent /\ SlotsOf(r) \in Slots /\ ThreadOK(request[r])
<1>1. /\ request[r].at = tool /\ ThreadOK(request[r])
      /\ request[r] \in Request /\ request[r].session \in Sessions
  BY DEF Calls, TypeInv, ThreadsOK, ThreadOK
<1>2. calls' \in [Sessions -> 0 .. MaxToolCalls]
  BY <1>1 DEF Calls, TypeInv, SessionsOK
<1>3. request[r].intent \in Intent /\ SlotsOf(r) \in Slots
  BY <1>1 DEF Request, SlotsOf, TypeInv, SessionsOK
<1> QED BY <1>1, <1>2, <1>3

\* Each read tool ends in an outcome.
LEMMA ReadToolType ==
  ASSUME TypeInv, NEW r \in Requests, ReadTool(r)
  PROVE  TypeInv'
<1> DEFINE i  == request[r].intent
           sl == SlotsOf(r)
<1>0. loans \in [LoanIds -> LoanRow] /\ fulfils \subseteq Fulfils
  BY DEF TypeInv, LedgerOK
<1>t. ASSUME NEW tool \in ReadTools \ {"refresh"}, Calls(r, tool), NEW out, Turn(r, out), Outcome(i, out)
      PROVE  TypeInv'
  <2>1. calls' \in [Sessions -> 0 .. MaxToolCalls] /\ request[r].at = tool
    BY <1>t, CallsType DEF ReadTools
  <2>2. tool \notin {"idle"} \cup WriteSteps
    BY DEF ReadTools, WriteSteps
  <2> QED BY <1>t, <2>1, <2>2, TurnType
<1>i. ASSUME NEW tool \in ReadTools \ {"refresh"}, Calls(r, tool)
      PROVE  i \in Intent /\ sl \in Slots /\ (tool = "resolveId" => i.who # {})
  BY <1>i, CallsType DEF ReadTools, ThreadOK
<1>1. CASE ResolveTool(r)
  BY <1>1, <1>t, <1>i, ResolveOutcome DEF ResolveTool, IntentOf, ReadTools
<1>2. CASE SearchPatronsTool(r)
  BY <1>2, <1>t, <1>i, SearchPatronsOutcome DEF SearchPatronsTool, IntentOf, ReadTools
<1>3. CASE ResolveIdTool(r)
  BY <1>3, <1>t, <1>i, ResolveIdOutcome DEF ResolveIdTool, IntentOf, ReadTools
<1>4. CASE SelectPatronTool(r)
  BY <1>4, <1>t, <1>i, SelectPatronSlots, DoneOutcome DEF SelectPatronTool, IntentOf, ReadTools
<1>5. CASE ListLoansTool(r)
  BY <1>0, <1>5, <1>t, <1>i, ListLoansOutcome DEF ListLoansTool, IntentOf, ReadTools
<1>6. CASE LookupTool(r)
  BY <1>0, <1>6, <1>t, <1>i, LookupOutcome DEF LookupTool, IntentOf, ReadTools
<1>7. CASE SearchReturnTool(r)
  BY <1>0, <1>7, <1>t, <1>i, SearchReturnSlots, DoneOutcome DEF SearchReturnTool, IntentOf, ReadTools
<1>8. CASE SelectLoanTool(r)
  BY <1>0, <1>8, <1>t, <1>i, AskingOutcome DEF SelectLoanTool, IntentOf, ReadTools
<1>9. CASE SearchCatalogTool(r)
  BY <1>9, <1>t, <1>i, SearchCatalogSlots, DoneOutcome DEF SearchCatalogTool, IntentOf, ReadTools
<1>10. CASE SelectCopyTool(r)
  BY <1>10, <1>t, <1>i, SelectCopySlots, DoneOutcome DEF SelectCopyTool, IntentOf, ReadTools
<1>11. CASE SelectBarcodeTool(r)
  BY <1>11, <1>t, <1>i, SelectBarcodeSlots, DoneOutcome DEF SelectBarcodeTool, IntentOf, ReadTools
<1>12. CASE SearchLendableTool(r)
  BY <1>12, <1>t, <1>i, SearchLendableOutcome DEF SearchLendableTool, IntentOf, ReadTools
<1>13. CASE ValidateTool(r)
  BY <1>0, <1>13, <1>t, <1>i, AskingOutcome DEF ValidateTool, IntentOf, ReadTools
<1>14. CASE FulfilStatusTool(r)
  <2>1. PICK f \in AnyOf(IssueFulfils(sl.loan)) : Calls(r, "fulfilStatus") /\ Turn(r, FulfilStatus(sl, f))
    BY <1>14 DEF FulfilStatusTool
  <2>2. f \in Maybe(Fulfils)
    BY <1>0, <2>1 DEF AnyOf, IssueFulfils, Maybe
  <2> QED BY <1>0, <2>1, <2>2, <1>t, <1>i, AskingOutcome DEF ReadTools
<1> QED BY <1>1, <1>2, <1>3, <1>4, <1>5, <1>6, <1>7, <1>8, <1>9, <1>10, <1>11, <1>12, <1>13, <1>14 DEF ReadTool

LEMMA ApplyType ==
  ASSUME TypeInv, NEW r \in Requests, Apply(r)
  PROVE  TypeInv'
<1> DEFINE i  == request[r].intent
           sl == IF i.mode = "unsaid" THEN SlotsOf(r) ELSE [SlotsOf(r) EXCEPT !.mode = i.mode]
<1>1. /\ request[r].at = "apply" /\ request[r] \in Request /\ request[r].session \in Sessions
  BY DEF Apply, TypeInv, ThreadsOK, ThreadOK
<1>2. i \in Intent /\ SlotsOf(r) \in Slots
  BY <1>1 DEF Request, SlotsOf, TypeInv, SessionsOK
<1>3. sl \in Slots
  BY <1>2, FieldSlots DEF Intent
<1>4. Outcome(i, Done(SlotsOf(r))) /\ Outcome(i, Handled(i, sl))
  BY <1>2, <1>3, DoneOutcome, HandledOutcome
<1>5. Turn(r, Done(SlotsOf(r))) \/ Turn(r, Handled(i, sl))
  BY DEF Apply
<1>6. calls' \in [Sessions -> 0 .. MaxToolCalls] /\ request[r].at \notin {"idle"} \cup WriteSteps
  BY <1>1 DEF Apply, TypeInv, SessionsOK, WriteSteps
<1> HIDE DEF sl
<1> QED BY <1>4, <1>5, <1>6, TurnType

\* The parts that a step of a thread leaves alone.
LEMMA Unchanged ==
  /\ LedgerOK /\ UNCHANGED ledger => LedgerOK'
  /\ AskedOK /\ UNCHANGED <<asked, pending>> => AskedOK'
  /\ UNCHANGED approval => Made' = Made
  /\ SessionsOK /\ UNCHANGED <<slots, calls>> => SessionsOK'
BY DEF LedgerOK, ledger, AskedOK, asked, Made, SessionsOK, Maybe

LEMMA ReceiveType ==
  ASSUME TypeInv, NEW r \in Requests, NEW s \in Sessions, NEW t \in Said, Receive(r, s, t)
  PROVE  TypeInv'
<1>0. disturbed' \subseteq Keys
  <2>1. RunningKeys(s) \subseteq Keys
    BY DEF RunningKeys, TypeInv, ThreadsOK, Request, Maybe
  <2> QED BY <2>1 DEF Receive, TypeInv, AskedOK
<1>1. LedgerOK' /\ AskedOK' /\ Made' = Made
  <2>1. UNCHANGED <<ledger, pending, approval, approved>>
    BY DEF Receive
  <2> QED BY <1>0, <2>1, Unchanged DEF TypeInv, AskedOK, Made, Maybe
<1>2. SessionsOK'
  <2>1. calls' = [calls EXCEPT ![s] = 0] /\ slots' = slots
    BY DEF Receive
  <2>2. 0 \in 0 .. MaxToolCalls
    OBVIOUS
  <2> QED BY <2>1, <2>2 DEF TypeInv, SessionsOK
<1>3. ThreadsOK'
  <2>1. CASE UNCHANGED request
    BY <1>1, <2>1 DEF TypeInv, ThreadsOK
  <2>2. CASE ~ UNCHANGED request
    <3>1. PICK i \in {RuleParse(t, slots[s])} \cup LlmParse(t) :
            request' = [request EXCEPT ![r] = [@ EXCEPT !.session = s, !.at = "apply", !.intent = i]]
      BY <2>2 DEF Receive
    <3>2. t \in Text /\ slots[s] \in Slots
      BY DEF TypeInv, SessionsOK
    <3>3. i \in Intent
      <4>1. RuleParse(t, slots[s]) \in Intent /\ LlmParse(t) \subseteq Intent
        BY <3>2, RuleParseType, LlmParseType
      <4> QED BY <4>1
    <3> DEFINE q == [request[r] EXCEPT !.session = s, !.at = "apply", !.intent = i]
    <3>4. request[r] \in Request
      BY DEF TypeInv, ThreadsOK
    <3>5. q \in Request /\ q.at = "apply" /\ q.session = s
      BY <3>3, <3>4 DEF Request, Maybe, Steps
    <3>6. request' = [request EXCEPT ![r] = q]
      BY <3>1
    <3> HIDE DEF q
    <3>7. ThreadOK(q) /\ q.at \notin WriteSteps
      BY <3>5 DEF ThreadOK, WriteSteps
    <3> QED BY <1>1, <3>6, <3>7, ThreadType DEF TypeInv
  <2> QED BY <2>1, <2>2
<1> QED BY <1>1, <1>2, <1>3 DEF TypeInv

LEMMA TooManyType ==
  ASSUME TypeInv, NEW r \in Requests, TooManyCalls(r)
  PROVE  TypeInv'
<1>1. LedgerOK' /\ AskedOK' /\ SessionsOK' /\ Made' = Made
  BY Unchanged DEF TooManyCalls, TypeInv, asked
<1>2. NoRequest.at \notin WriteSteps
  BY DEF NoRequest, WriteSteps
<1>3. ThreadsOK'
  BY <1>1, <1>2, NoRequestOK, ThreadType DEF TooManyCalls, TypeInv
<1> QED BY <1>1, <1>3 DEF TypeInv

LEMMA ApproveType ==
  ASSUME TypeInv, NEW r \in Requests, NEW s \in Sessions, Approve(r, s)
  PROVE  TypeInv'
<1>1. LedgerOK' /\ SessionsOK' /\ Made' = Made
  BY Unchanged DEF Approve, TypeInv, ledger
<1>2. pending[s] \in Made /\ pending[s] \in Keys
  BY DEF Approve, TypeInv, AskedOK, Maybe, Made
<1>3. AskedOK'
  BY <1>1, <1>2 DEF Approve, TypeInv, AskedOK
<1> DEFINE q == [request[r] EXCEPT !.session = s, !.at = "execute", !.key = pending[s]]
<1>4. request[r] \in Request
  BY DEF TypeInv, ThreadsOK
<1>5. q \in Request /\ q.at = "execute" /\ q.session = s /\ q.key = pending[s]
  BY <1>2, <1>4 DEF Request, Maybe, Steps
<1>6. request' = [request EXCEPT ![r] = q]
  BY DEF Approve
<1> HIDE DEF q
<1>7. ThreadOK(q)
  BY <1>2, <1>5 DEF ThreadOK, WriteSteps
<1>8. ThreadsOK'
  BY <1>1, <1>2, <1>5, <1>6, <1>7, ThreadType DEF TypeInv
<1> QED BY <1>1, <1>3, <1>8 DEF TypeInv

LEMMA DenyType ==
  ASSUME TypeInv, NEW s \in Sessions, Deny(s)
  PROVE  TypeInv'
<1>1. LedgerOK' /\ SessionsOK' /\ Made' = Made
  BY Unchanged DEF Deny, TypeInv, ledger, asked
<1>2. AskedOK'
  BY <1>1 DEF Deny, TypeInv, AskedOK, Maybe, asked
<1>3. ThreadsOK'
  BY <1>1 DEF Deny, TypeInv, ThreadsOK
<1> QED BY <1>1, <1>2, <1>3 DEF TypeInv

\* The thread of a write tool goes on with the approval it has, or ends.
LEMMA WriteType ==
  ASSUME TypeInv, NEW r \in Requests, UNCHANGED <<slots, pending, asked>>,
         calls' \in [Sessions -> 0 .. MaxToolCalls], LedgerOK',
         NEW q, ThreadOK(q), request' = [request EXCEPT ![r] = q],
         q = NoRequest \/ (request[r].at \in WriteSteps /\ q.key = request[r].key)
  PROVE  TypeInv'
<1>1. AskedOK' /\ Made' = Made /\ SessionsOK'
  BY Unchanged DEF TypeInv, asked, SessionsOK
<1>2. q.at \in WriteSteps => q.key \in Made'
  <2>1. NoRequest.at \notin WriteSteps
    BY DEF NoRequest, WriteSteps
  <2> QED BY <1>1, <2>1 DEF TypeInv, ThreadsOK
<1>3. ThreadsOK'
  BY <1>1, <1>2, ThreadType DEF TypeInv
<1> QED BY <1>1, <1>3 DEF TypeInv

\* What a thread with an approval has in hand, and the counter of its session.
LEMMA HasApproval ==
  ASSUME TypeInv, NEW r \in Requests, request[r].at \in WriteSteps
  PROVE  /\ request[r] \in Request /\ request[r].session \in Sessions /\ request[r].key \in Keys
         /\ SlotsOf(r) \in Slots /\ request[r].seen \in Slots /\ ThreadOK(request[r])
         /\ UNCHANGED calls => calls' \in [Sessions -> 0 .. MaxToolCalls]
<1>1. /\ request[r] \in Request /\ request[r].session \in Sessions /\ request[r].key \in Keys
      /\ ThreadOK(request[r])
  BY DEF TypeInv, ThreadsOK, ThreadOK, WriteSteps
<1>2. SlotsOf(r) \in Slots /\ request[r].seen \in Slots
  BY <1>1 DEF SlotsOf, TypeInv, SessionsOK, Request
<1> QED BY <1>1, <1>2 DEF TypeInv, SessionsOK

\* A tool that ran its only transaction goes on to the update of the slots.
LEMMA AnsweredType ==
  ASSUME TypeInv, NEW r \in Requests, request[r].at \in WriteSteps, UNCHANGED <<slots, pending, asked>>,
         calls' \in [Sessions -> 0 .. MaxToolCalls], LedgerOK',
         NEW result \in {"none", "ok", "error"}, NEW l \in Maybe(LoanIds), result = "ok" => l \in LoanIds,
         NEW f \in Maybe(Fulfils),
         request' = [request EXCEPT ![r] = [@ EXCEPT !.at = "executed", !.result = result, !.loan = l,
                                                     !.fulfil = f, !.seen = SlotsOf(r)]]
  PROVE  TypeInv'
<1> DEFINE q == [request[r] EXCEPT !.at = "executed", !.result = result, !.loan = l, !.fulfil = f,
                                   !.seen = SlotsOf(r)]
<1>1. /\ request[r] \in Request /\ request[r].session \in Sessions /\ request[r].key \in Keys
      /\ SlotsOf(r) \in Slots
  BY HasApproval
<1>2. /\ q \in Request /\ q.at = "executed" /\ q.key = request[r].key /\ q.session = request[r].session
      /\ q.result = result /\ q.loan = l
  BY <1>1 DEF Request, Steps
<1>3. request' = [request EXCEPT ![r] = q]
  OBVIOUS
<1> HIDE DEF q
<1>4. ThreadOK(q)
  BY <1>1, <1>2 DEF ThreadOK
<1> QED BY <1>2, <1>3, <1>4, WriteType

LEMMA RanType ==
  ASSUME TypeInv, NEW r \in Requests, request[r].at = "execute", UNCHANGED <<slots, pending, asked>>,
         calls' \in [Sessions -> 0 .. MaxToolCalls], LedgerOK',
         NEW result \in {"none", "ok", "error"}, NEW l \in Maybe(LoanIds), result = "ok" => l \in LoanIds,
         Ran(r, result, l)
  PROVE  TypeInv'
<1> DEFINE q == [request[r] EXCEPT !.at = "executed", !.result = result, !.loan = l, !.seen = SlotsOf(r)]
<1>0. request[r].at \in WriteSteps
  BY DEF WriteSteps
<1>1. /\ request[r] \in Request /\ request[r].session \in Sessions /\ request[r].key \in Keys
      /\ SlotsOf(r) \in Slots
  BY <1>0, HasApproval
<1>2. /\ q \in Request /\ q.at = "executed" /\ q.key = request[r].key /\ q.session = request[r].session
      /\ q.result = result /\ q.loan = l
  BY <1>1 DEF Request, Steps
<1>3. request' = [request EXCEPT ![r] = q]
  BY DEF Ran
<1> HIDE DEF q
<1>4. ThreadOK(q)
  BY <1>1, <1>2 DEF ThreadOK
<1> QED BY <1>0, <1>2, <1>3, <1>4, WriteType

LEMMA ToolFailsType ==
  ASSUME TypeInv, NEW r \in Requests, ToolFails(r)
  PROVE  TypeInv'
<1>1. LedgerOK' /\ UNCHANGED <<slots, pending, asked>> /\ request' = [request EXCEPT ![r] = NoRequest]
  BY Unchanged DEF ToolFails, TypeInv
<1>2. calls' \in [Sessions -> 0 .. MaxToolCalls]
  BY CallsType DEF ToolFails, TypeInv, SessionsOK
<1> QED BY <1>1, <1>2, NoRequestOK, WriteType

\* What a thread executes with, and what it may record.
LEMMA ExecutesType ==
  ASSUME TypeInv, NEW r \in Requests, NEW kind, Executes(r, kind)
  PROVE  /\ request[r].at = "execute" /\ request[r].key \in Keys /\ approval[request[r].key] \in Approval
         /\ SlotsOf(r) \in Slots /\ calls' \in [Sessions -> 0 .. MaxToolCalls]
         /\ approval[request[r].key].kind = kind
<1>1. Calls(r, "execute") /\ approval[request[r].key].kind = kind
  BY DEF Executes
<1>2. /\ request[r].at = "execute" /\ SlotsOf(r) \in Slots /\ calls' \in [Sessions -> 0 .. MaxToolCalls]
  BY <1>1, CallsType
<1>3. request[r].key \in Made
  BY <1>2 DEF TypeInv, ThreadsOK, WriteSteps
<1> QED BY <1>1, <1>2, <1>3 DEF Made, TypeInv, AskedOK

LEMMA LedgerParts ==
  ASSUME TypeInv
  PROVE  /\ loans \in [LoanIds -> LoanRow] /\ fulfils \subseteq Fulfils /\ done \subseteq Effect
         /\ \A l \in LoanIds : Close(l) => loans' \in [LoanIds -> LoanRow]
         /\ \A e \in done : e.loan \in LoanIds
<1>1. loans \in [LoanIds -> LoanRow] /\ fulfils \subseteq Fulfils /\ done \subseteq Effect
  BY DEF TypeInv, LedgerOK
<1>2. ASSUME NEW l \in LoanIds, Close(l) PROVE loans' \in [LoanIds -> LoanRow]
  BY <1>1, <1>2 DEF Close, LoanRow
<1> QED BY <1>1, <1>2 DEF Effect

LEMMA RecordType ==
  ASSUME TypeInv, NEW r \in Requests, request[r].key \in Keys, loans' \in [LoanIds -> LoanRow],
         NEW op \in {"checkout", "return", "transition", "pickup"},
         NEW on \in Holdings \cup LoanIds \cup Fulfils, NEW l \in LoanIds, Record(r, op, on, l)
  PROVE  done' \subseteq Effect
<1> DEFINE e == [key |-> request[r].key, op |-> op, on |-> on, patron |-> loans'[l].patron, loan |-> l]
<1>1. loans'[l].patron \in Maybe(Patrons)
  BY DEF LoanRow
<1>2. e \in Effect
  BY <1>1 DEF Effect
<1>3. done' = done \cup {e}
  BY DEF Record
<1> HIDE DEF e
<1> QED BY <1>2, <1>3, LedgerParts

\* The write tools, one by one.
LEMMA CommitIssueType ==
  ASSUME TypeInv, NEW r \in Requests, CommitIssue(r)
  PROVE  TypeInv'
<1> DEFINE sl == SlotsOf(r)
           cached == Prior(r, "checkout", sl.holding) # {}
           q == [request[r] EXCEPT !.at = "checkout", !.cached = cached, !.seen = sl]
<1>1. /\ request[r].at = "execute" /\ request[r].key \in Keys
      /\ SlotsOf(r) \in Slots /\ calls' \in [Sessions -> 0 .. MaxToolCalls]
  BY ExecutesType DEF CommitIssue
<1>2. UNCHANGED <<slots, pending, asked>> /\ LedgerOK'
  BY Unchanged DEF CommitIssue, TypeInv
<1>3. CASE Ran(r, "none", None)
  BY <1>1, <1>2, <1>3, RanType DEF Maybe
<1>4. CASE HasPatronAndHolding(sl) /\ request' = [request EXCEPT ![r] = q]
  <2>1. request[r].at \in WriteSteps
    BY <1>1 DEF WriteSteps
  <2>2. request[r] \in Request /\ request[r].session \in Sessions
    BY <2>1, HasApproval
  <2>3. cached \in BOOLEAN
    OBVIOUS
  <2> HIDE DEF sl, cached
  <2>4. /\ q \in Request /\ q.at = "checkout" /\ q.key = request[r].key /\ q.session = request[r].session
        /\ q.seen = sl
    BY <1>1, <2>2, <2>3 DEF Request, Steps, sl
  <2> HIDE DEF q
  <2>5. ThreadOK(q)
    BY <1>1, <1>4, <2>2, <2>4 DEF ThreadOK
  <2> QED BY <1>1, <1>2, <1>4, <2>1, <2>4, <2>5, WriteType
<1> QED BY <1>3, <1>4 DEF CommitIssue

\* The thread after a checkout.
LEMMA CheckedOutType ==
  ASSUME TypeInv, NEW r \in Requests, request[r].at = "checkout", UNCHANGED <<slots, pending, calls, asked>>,
         LedgerOK', NEW l \in LoanIds, CheckedOut(r, l)
  PROVE  TypeInv'
<1> DEFINE at == IF request[r].seen.mode = "DELIVERY" THEN "deliver" ELSE "executed"
           q == [request[r] EXCEPT !.loan = l, !.result = "ok", !.at = at]
<1>0. request[r].at \in WriteSteps /\ at \in {"deliver", "executed"}
  BY DEF WriteSteps
<1>1. /\ request[r] \in Request /\ request[r].session \in Sessions /\ request[r].key \in Keys
      /\ calls' \in [Sessions -> 0 .. MaxToolCalls]
  BY <1>0, HasApproval
<1>2. request' = [request EXCEPT ![r] = q]
  BY <1>1 DEF CheckedOut, Request
<1> HIDE DEF at
<1>3. /\ q \in Request /\ q.at = at /\ q.key = request[r].key /\ q.session = request[r].session
      /\ q.result = "ok" /\ q.loan = l
  BY <1>0, <1>1 DEF Request, Steps, Maybe
<1> HIDE DEF q
<1>4. ThreadOK(q)
  BY <1>0, <1>1, <1>3 DEF ThreadOK
<1> QED BY <1>0, <1>1, <1>2, <1>3, <1>4, WriteType

LEMMA CheckoutType ==
  ASSUME TypeInv, NEW r \in Requests, Checkout(r)
  PROVE  TypeInv'
<1> DEFINE p == request[r].seen.patron
           h == request[r].seen.holding
           prior == Prior(r, "checkout", h)
<1>1. request[r].at = "checkout" /\ UNCHANGED <<slots, pending, calls, asked>>
  BY DEF Checkout
<1>2. /\ request[r].key \in Keys /\ request[r].seen \in Slots
      /\ HasPatronAndHolding(request[r].seen)
  <2>1. request[r].at \in WriteSteps
    BY <1>1 DEF WriteSteps
  <2> QED BY <1>1, <2>1, HasApproval DEF ThreadOK
<1>3. CASE UNCHANGED ledger /\ \E e \in prior : CheckedOut(r, e.loan)
  <2>1. PICK e \in done : CheckedOut(r, e.loan)
    BY <1>3 DEF Prior
  <2>2. e.loan \in LoanIds /\ LedgerOK'
    BY <1>3, LedgerParts, Unchanged DEF TypeInv
  <2> QED BY <1>1, <2>1, <2>2, CheckedOutType
<1>4. CASE UNCHANGED fulfils
           /\ \E l \in LoanIds : /\ loans' = [loans EXCEPT ![l] = [state |-> "open", patron |-> p, holding |-> h]]
                                /\ Record(r, "checkout", h, l) /\ CheckedOut(r, l)
  <2>1. PICK l \in LoanIds :
          /\ loans' = [loans EXCEPT ![l] = [state |-> "open", patron |-> p, holding |-> h]]
          /\ Record(r, "checkout", h, l) /\ CheckedOut(r, l)
    BY <1>4
  <2>2. p \in Patrons /\ h \in Holdings
    BY <1>2 DEF HasPatronAndHolding, Slots, Maybe
  <2> HIDE DEF p, h
  <2>3. [state |-> "open", patron |-> p, holding |-> h] \in LoanRow
    BY <2>2 DEF LoanRow, Maybe
  <2>4. loans' \in [LoanIds -> LoanRow]
    BY <2>1, <2>3, LedgerParts
  <2>5. done' \subseteq Effect
    BY <1>2, <2>1, <2>2, <2>4, RecordType
  <2>6. LedgerOK'
    BY <1>4, <2>4, <2>5, LedgerParts DEF LedgerOK
  <2> QED BY <1>1, <2>1, <2>6, CheckedOutType
<1> QED BY <1>3, <1>4 DEF Checkout

\* The two steps of a delivery after its checkout.
LEMMA DeliveryType ==
  ASSUME TypeInv, NEW r \in Requests, Deliver(r) \/ InsertFulfilment(r)
  PROVE  TypeInv'
<1>1. /\ request[r].at \in {"deliver", "insert"} /\ request[r].at \in WriteSteps
      /\ UNCHANGED <<slots, pending, calls, asked>>
  BY DEF Deliver, InsertFulfilment, WriteSteps
<1>2. /\ request[r] \in Request /\ request[r].session \in Sessions /\ request[r].key \in Keys
      /\ calls' \in [Sessions -> 0 .. MaxToolCalls] /\ request[r].loan \in LoanIds /\ request[r].result = "ok"
  BY <1>1, HasApproval DEF ThreadOK
<1>3. ASSUME LedgerOK', NEW f \in Maybe(Fulfils),
             request' = [request EXCEPT ![r].at = "executed", ![r].fulfil = f]
      PROVE  TypeInv'
  <2> DEFINE q == [request[r] EXCEPT !.at = "executed", !.fulfil = f]
  <2>1. request' = [request EXCEPT ![r] = q]
    BY <1>2, <1>3 DEF Request
  <2>2. /\ q \in Request /\ q.at = "executed" /\ q.key = request[r].key /\ q.session = request[r].session
        /\ q.loan = request[r].loan
    BY <1>2 DEF Request, Steps
  <2> HIDE DEF q
  <2>3. ThreadOK(q)
    BY <1>2, <2>2 DEF ThreadOK
  <2> QED BY <1>1, <1>2, <1>3, <2>1, <2>2, <2>3, WriteType
<1>4. CASE \E f \in AnyOf(IssueFulfils(request[r].loan)) :
             UNCHANGED ledger /\ request' = [request EXCEPT ![r].at = "executed", ![r].fulfil = f]
  <2>1. PICK f \in AnyOf(IssueFulfils(request[r].loan)) :
             UNCHANGED ledger /\ request' = [request EXCEPT ![r].at = "executed", ![r].fulfil = f]
    BY <1>4
  <2>2. f \in Maybe(Fulfils) /\ LedgerOK'
    BY <2>1, LedgerParts, Unchanged DEF AnyOf, IssueFulfils, Maybe, TypeInv
  <2> QED BY <1>3, <2>1, <2>2
<1>5. CASE UNCHANGED ledger /\ request' = [request EXCEPT ![r].at = "insert"]
  <2> DEFINE q == [request[r] EXCEPT !.at = "insert"]
  <2>1. request' = [request EXCEPT ![r] = q] /\ LedgerOK'
    BY <1>2, <1>5, Unchanged DEF Request, TypeInv
  <2>2. /\ q \in Request /\ q.at = "insert" /\ q.key = request[r].key /\ q.session = request[r].session
        /\ q.loan = request[r].loan /\ q.result = "ok"
    BY <1>2 DEF Request, Steps
  <2> HIDE DEF q
  <2>3. ThreadOK(q)
    BY <1>2, <2>2 DEF ThreadOK
  <2> QED BY <1>1, <1>2, <2>1, <2>2, <2>3, WriteType
<1>6. CASE InsertFulfilment(r)
  <2> DEFINE f == NewFulfil(r, "ISSUE", request[r].loan)
  <2>1. f \in Fulfils
    BY <1>2 DEF NewFulfil, Fulfils
  <2>2. /\ fulfils' = fulfils \cup {f} /\ UNCHANGED <<loans, done>>
        /\ request' = [request EXCEPT ![r].at = "executed", ![r].fulfil = f]
    BY <1>6 DEF InsertFulfilment
  <2> HIDE DEF f
  <2>3. LedgerOK'
    BY <2>1, <2>2, LedgerParts DEF LedgerOK
  <2> QED BY <1>3, <2>1, <2>2, <2>3 DEF Maybe
<1> QED BY <1>4, <1>5, <1>6 DEF Deliver

LEMMA CancelIssueType ==
  ASSUME TypeInv, NEW r \in Requests, CancelIssue(r)
  PROVE  TypeInv'
<1> DEFINE l == SlotsOf(r).loan
<1>1. /\ request[r].at = "execute" /\ request[r].key \in Keys
      /\ SlotsOf(r) \in Slots /\ calls' \in [Sessions -> 0 .. MaxToolCalls]
  BY ExecutesType DEF CancelIssue
<1>2. UNCHANGED <<slots, pending, asked>> /\ UNCHANGED fulfils
  BY DEF CancelIssue
<1>3. CASE Ran(r, "none", None) /\ UNCHANGED <<loans, done>>
  BY <1>1, <1>2, <1>3, RanType, LedgerParts DEF Maybe, LedgerOK
<1>4. CASE l # None /\ Close(l) /\ Record(r, "return", l, l) /\ Ran(r, "ok", l)
  <2>1. l \in LoanIds
    BY <1>1, <1>4 DEF Slots, Maybe
  <2> HIDE DEF l
  <2>2. loans' \in [LoanIds -> LoanRow] /\ done' \subseteq Effect
    BY <1>1, <1>4, <2>1, LedgerParts, RecordType
  <2> QED BY <1>1, <1>2, <1>4, <2>1, <2>2, RanType, LedgerParts DEF LedgerOK, Maybe
<1> QED BY <1>3, <1>4 DEF CancelIssue

LEMMA TransitionType ==
  ASSUME TypeInv, NEW r \in Requests, TransitionFulfillment(r)
  PROVE  TypeInv'
<1> DEFINE f == SlotsOf(r).fulfil
<1>1. /\ request[r].at = "execute" /\ request[r].key \in Keys
      /\ SlotsOf(r) \in Slots /\ calls' \in [Sessions -> 0 .. MaxToolCalls]
  BY ExecutesType DEF TransitionFulfillment
<1>2. UNCHANGED <<slots, pending, asked>>
  BY DEF TransitionFulfillment
<1>3. CASE Ran(r, "none", None) /\ UNCHANGED ledger
  BY <1>1, <1>2, <1>3, RanType, Unchanged DEF Maybe, TypeInv
<1>4. CASE f # None /\ Ran(r, "ok", f[2]) /\ UNCHANGED <<loans, fulfils>> /\ Record(r, "transition", f, f[2])
  <2>1. f \in Fulfils /\ f[2] \in LoanIds
    BY <1>1, <1>4 DEF Slots, Maybe, Fulfils
  <2> HIDE DEF f
  <2>2. loans' \in [LoanIds -> LoanRow] /\ done' \subseteq Effect
    BY <1>1, <1>4, <2>1, LedgerParts, RecordType
  <2> QED BY <1>1, <1>2, <1>4, <2>1, <2>2, RanType, LedgerParts DEF LedgerOK, Maybe
<1>5. CASE f # None /\ Ran(r, "ok", f[2]) /\ UNCHANGED ledger
  <2>1. f[2] \in LoanIds
    BY <1>1, <1>5 DEF Slots, Maybe, Fulfils
  <2> QED BY <1>1, <1>2, <1>5, <2>1, RanType, Unchanged DEF Maybe, TypeInv
<1> QED BY <1>3, <1>4, <1>5 DEF TransitionFulfillment

LEMMA CommitReturnType ==
  ASSUME TypeInv, NEW r \in Requests, CommitReturn(r)
  PROVE  TypeInv'
<1> DEFINE sl == SlotsOf(r)
           on == IF sl.holding # None THEN sl.holding ELSE sl.loan
           ls == IF sl.holding # None THEN {l \in OpenLoans : loans[l].holding = sl.holding} ELSE {sl.loan}
           prior == Prior(r, "return", on)
<1>1. /\ request[r].at = "execute" /\ request[r].key \in Keys
      /\ sl \in Slots /\ calls' \in [Sessions -> 0 .. MaxToolCalls]
  BY ExecutesType DEF CommitReturn
<1>2. UNCHANGED <<slots, pending, asked>> /\ UNCHANGED fulfils
  BY DEF CommitReturn
<1>3. CASE Ran(r, "none", None) /\ UNCHANGED <<loans, done>>
  BY <1>1, <1>2, <1>3, RanType, LedgerParts DEF Maybe, LedgerOK
<1>4. CASE UNCHANGED <<loans, done>> /\ \E e \in prior : Ran(r, "ok", e.loan)
  <2>1. PICK e \in done : Ran(r, "ok", e.loan)
    BY <1>4 DEF Prior
  <2>2. e.loan \in LoanIds
    BY LedgerParts
  <2> QED BY <1>1, <1>2, <1>4, <2>1, <2>2, RanType, LedgerParts DEF Maybe, LedgerOK
<1>5. CASE sl.loan # None /\ \E l \in ls : Close(l) /\ Record(r, "return", on, l) /\ Ran(r, "ok", l)
  <2>1. sl.loan \in LoanIds /\ sl.holding \in Maybe(Holdings)
    BY <1>1, <1>5 DEF Slots, Maybe
  <2>2. ls \subseteq LoanIds /\ on \in Holdings \cup LoanIds \cup Fulfils
    BY <2>1, SomeLoans DEF Maybe
  <2>3. PICK l \in ls : Close(l) /\ Record(r, "return", on, l) /\ Ran(r, "ok", l)
    BY <1>5
  <2> HIDE DEF ls, on
  <2>4. l \in LoanIds
    BY <2>2
  <2>5. loans' \in [LoanIds -> LoanRow] /\ done' \subseteq Effect
    BY <1>1, <2>2, <2>3, <2>4, LedgerParts, RecordType
  <2> QED BY <1>1, <1>2, <2>3, <2>4, <2>5, RanType, LedgerParts DEF LedgerOK, Maybe
<1>6. CASE Ran(r, "error", None) /\ UNCHANGED <<loans, done>>
  BY <1>1, <1>2, <1>6, RanType, LedgerParts DEF Maybe, LedgerOK
<1> QED BY <1>3, <1>4, <1>5, <1>6 DEF CommitReturn

LEMMA SelectReturnType ==
  ASSUME TypeInv, NEW r \in Requests, SelectReturn(r)
  PROVE  TypeInv'
<1>1. /\ request[r].at = "execute" /\ request[r].key \in Keys
      /\ calls' \in [Sessions -> 0 .. MaxToolCalls]
      /\ approval[request[r].key].kind = "SELECT_RETURN"
  BY ExecutesType DEF SelectReturn
<1>2. approval[request[r].key].loan \in LoanIds
  BY <1>1 DEF TypeInv, AskedOK
<1>3. UNCHANGED <<slots, pending, asked>> /\ LedgerOK' /\ Ran(r, "ok", approval[request[r].key].loan)
  BY Unchanged DEF SelectReturn, TypeInv
<1> QED BY <1>1, <1>2, <1>3, RanType DEF Maybe

LEMMA PickupType ==
  ASSUME TypeInv, NEW r \in Requests, InitiateReturnPickup(r)
  PROVE  TypeInv'
<1> DEFINE l == SlotsOf(r).loan
<1>1. /\ request[r].at = "execute" /\ request[r].key \in Keys
      /\ SlotsOf(r) \in Slots /\ calls' \in [Sessions -> 0 .. MaxToolCalls]
  BY ExecutesType DEF InitiateReturnPickup
<1>2. UNCHANGED <<slots, pending, asked>>
  BY DEF InitiateReturnPickup
<1>3. CASE UNCHANGED ledger /\ (Ran(r, "none", None) \/ Ran(r, "error", None))
  BY <1>1, <1>2, <1>3, RanType, Unchanged DEF Maybe, TypeInv
<1> DEFINE Answers(f) == request' = [request EXCEPT ![r] = [@ EXCEPT !.at = "executed", !.result = "ok",
                                                       !.loan = l, !.fulfil = f, !.seen = SlotsOf(r)]]
<1>4. request[r].at \in WriteSteps /\ (l # None => l \in LoanIds)
  BY <1>1 DEF WriteSteps, Slots, Maybe
<1>5. CASE l # None /\ UNCHANGED ledger /\ \E f \in fulfils : Answers(f)
  <2>1. PICK f \in fulfils : Answers(f)
    BY <1>5
  <2>2. f \in Maybe(Fulfils) /\ l \in LoanIds /\ l \in Maybe(LoanIds) /\ LedgerOK'
    BY <1>4, <1>5, LedgerParts, Unchanged DEF Maybe, TypeInv
  <2> HIDE DEF l
  <2> QED BY <1>1, <1>2, <1>4, <2>1, <2>2, AnsweredType
<1>6. CASE /\ l # None /\ fulfils' = fulfils \cup {NewFulfil(r, "RETURN", l)} /\ UNCHANGED loans
           /\ Record(r, "pickup", l, l) /\ Answers(NewFulfil(r, "RETURN", l))
  <2> DEFINE f == NewFulfil(r, "RETURN", l)
  <2>1. l \in LoanIds /\ l \in Maybe(LoanIds)
    BY <1>4, <1>6 DEF Maybe
  <2>2. f \in Fulfils /\ f \in Maybe(Fulfils)
    BY <1>1, <2>1 DEF NewFulfil, Fulfils, Maybe
  <2>3. fulfils' = fulfils \cup {f} /\ Record(r, "pickup", l, l) /\ UNCHANGED loans /\ Answers(f)
    BY <1>6
  <2> HIDE DEF f, l
  <2>4. loans' \in [LoanIds -> LoanRow] /\ done' \subseteq Effect
    BY <1>1, <2>1, <2>3, LedgerParts, RecordType
  <2>5. LedgerOK'
    BY <2>2, <2>3, <2>4, LedgerParts DEF LedgerOK
  <2> QED BY <1>1, <1>2, <1>4, <2>1, <2>2, <2>3, <2>5, AnsweredType
<1> QED BY <1>3, <1>5, <1>6 DEF InitiateReturnPickup

\* The slots after a write, for each kind of approval.
LEMMA ClearedSlots ==
  ASSUME NEW sl \in Slots
  PROVE  Cleared(sl) \in Slots
<1> DEFINE a == NoLoan(sl)
<1>1. a \in Slots
  BY DropSlots
<1> HIDE DEF a
<1>2. [a EXCEPT !.patron = None, !.loanCands = {}, !.fulfil = None] \in Slots
  BY <1>1 DEF Slots, Maybe
<1> QED BY <1>2 DEF Cleared, a

LEMMA RestoredSlots ==
  ASSUME NEW sl \in Slots, NEW seen \in Slots
  PROVE  Restored(sl, seen) \in Slots
BY DEF Restored, Slots

LEMMA WrittenSlots ==
  ASSUME TypeInv, NEW r \in Requests, request[r].at = "executed"
  PROVE  Written(request[r], SlotsOf(r)) \in Slots
<1> DEFINE q == request[r]
           sl == SlotsOf(r)
           kind == approval[q.key].kind
<1>1. /\ q \in Request /\ q.session \in Sessions /\ q.key \in Keys /\ q.key \in Made
      /\ q.result = "ok" => q.loan \in LoanIds
  BY DEF TypeInv, ThreadsOK, ThreadOK, WriteSteps
<1>2. sl \in Slots /\ q.seen \in Slots
  BY <1>1 DEF SlotsOf, TypeInv, SessionsOK, Request
<1>3. loans \in [LoanIds -> LoanRow] /\ fulfils \subseteq Fulfils
  BY LedgerParts
<1>4. kind = "SELECT_RETURN" => approval[q.key].loan \in LoanIds
  BY <1>1 DEF TypeInv, AskedOK
<1> HIDE DEF sl
<1>5. CASE kind = "COMMIT_ISSUE"
  <2> DEFINE f == IF q.fulfil # None THEN q.fulfil ELSE sl.fulfil
             new == IF q.result = "ok" THEN [sl EXCEPT !.loan = q.loan, !.fulfil = f] ELSE sl
  <2>1. f \in Maybe(Fulfils)
    BY <1>1, <1>2 DEF Slots, Request
  <2>2. Written(q, sl) = IF "return" \in sl.guided THEN new
                         ELSE Guide(Await(new, {}, {"patron", "book"}), {}, {"issue"})
    BY <1>5 DEF Written
  <2> HIDE DEF f
  <2>3. new \in Slots
    BY <1>1, <1>2, <2>1 DEF Slots, Maybe
  <2> HIDE DEF new
  <2> QED BY <2>2, <2>3, AwaitSlots, GuideSlots DEF sl
<1>6. CASE kind = "CANCEL_ISSUE"
  <2>1. [sl EXCEPT !.loan = None, !.fulfil = None] \in Slots
    BY <1>2 DEF Slots, Maybe
  <2> QED BY <1>2, <1>6, <2>1 DEF Written, sl
<1>7. CASE kind = "SELECT_RETURN"
  BY <1>2, <1>3, <1>4, <1>7, WithLoanSlots DEF Written, sl
<1>8. CASE kind = "COMMIT_RETURN"
  <2> DEFINE new == CASE q.result = "ok" -> Cleared(sl) [] q.result = "error" -> Restored(sl, q.seen) [] OTHER -> sl
             g == Guide(new, {"return"}, {})
  <2>1. new \in Slots
    BY <1>2, ClearedSlots, RestoredSlots
  <2>2. Written(q, sl) = IF Refreshes(q, sl) THEN [g EXCEPT !.patron = q.seen.patron]
                         ELSE Guide(Await(new, {}, {"deskPatron", "deskNext"}), {}, {"return"})
    BY <1>8 DEF Written
  <2> HIDE DEF new
  <2>3. g \in Slots /\ Guide(Await(new, {}, {"deskPatron", "deskNext"}), {}, {"return"}) \in Slots
    BY <2>1, AwaitSlots, GuideSlots DEF Flows
  <2> HIDE DEF g
  <2>4. [g EXCEPT !.patron = q.seen.patron] \in Slots
    BY <1>2, <2>3 DEF Slots
  <2> QED BY <2>2, <2>3, <2>4 DEF sl
<1>9. CASE kind = "INITIATE_RETURN_PICKUP"
  <2>1. [sl EXCEPT !.fulfil = q.fulfil] \in Slots
    BY <1>1, <1>2 DEF Slots, Request
  <2>2. Written(q, sl) = CASE q.result = "ok" -> [sl EXCEPT !.fulfil = q.fulfil]
                           [] q.result = "error" -> Restored(sl, q.seen) [] OTHER -> sl
    BY <1>9 DEF Written
  <2> QED BY <1>2, <2>1, <2>2, RestoredSlots DEF sl
<1>10. CASE kind \notin {"COMMIT_ISSUE", "CANCEL_ISSUE", "SELECT_RETURN", "COMMIT_RETURN", "INITIATE_RETURN_PICKUP"}
  BY <1>2, <1>10 DEF Written, sl
<1> QED BY <1>5, <1>6, <1>7, <1>8, <1>9, <1>10

\* The end of a resume.
LEMMA AnswerType ==
  ASSUME TypeInv, NEW r \in Requests, request[r].session \in Sessions, NEW sl \in Slots, Answer(r, sl),
         UNCHANGED <<ledger, asked>>, calls' \in [Sessions -> 0 .. MaxToolCalls]
  PROVE  TypeInv'
<1>1. LedgerOK' /\ Made' = Made
  BY Unchanged DEF TypeInv, asked
<1>2. SessionsOK'
  BY DEF Answer, TypeInv, SessionsOK
<1>3. AskedOK'
  BY <1>1 DEF Answer, TypeInv, AskedOK, Maybe, asked
<1>4. NoRequest.at \notin WriteSteps
  BY DEF NoRequest, WriteSteps
<1>5. ThreadsOK'
  BY <1>1, <1>4, NoRequestOK, ThreadType DEF Answer, TypeInv
<1> QED BY <1>1, <1>2, <1>3, <1>5 DEF TypeInv

LEMMA AfterWriteType ==
  ASSUME TypeInv, NEW r \in Requests, AfterWrite(r)
  PROVE  TypeInv'
<1> DEFINE new == Written(request[r], SlotsOf(r))
<1>1. /\ request[r].at = "executed" /\ request[r] \in Request /\ request[r].session \in Sessions
      /\ request[r].key \in Keys /\ request[r].key \in Made
  BY DEF AfterWrite, TypeInv, ThreadsOK, ThreadOK, WriteSteps
<1>2. new \in Slots
  BY <1>1, WrittenSlots
<1>3. UNCHANGED <<ledger, calls, asked>>
  BY DEF AfterWrite
<1>4. CASE Refreshes(request[r], SlotsOf(r))
  <2>1. LedgerOK' /\ Made' = Made
    BY <1>3, Unchanged DEF TypeInv, asked
  <2>2. slots' = [slots EXCEPT ![request[r].session] = new] /\ pending' = pending
    BY <1>4 DEF AfterWrite, SlotsOf
  <2> HIDE DEF new
  <2>3. SessionsOK'
    BY <1>1, <1>2, <1>3, <2>2 DEF TypeInv, SessionsOK
  <2>4. AskedOK'
    BY <1>3, <2>2, Unchanged DEF TypeInv
  <2> DEFINE q == [request[r] EXCEPT !.at = "refresh"]
  <2>5. q \in Request /\ q.at = "refresh" /\ q.session = request[r].session /\ q.key = request[r].key
    BY <1>1 DEF Request, Steps, ReadTools
  <2>6. request' = [request EXCEPT ![r] = q]
    BY <1>4 DEF AfterWrite
  <2> HIDE DEF q
  <2>7. ThreadOK(q)
    BY <1>1, <2>5 DEF ThreadOK
  <2>8. ThreadsOK'
    BY <1>1, <2>1, <2>5, <2>6, <2>7, ThreadType DEF TypeInv
  <2> QED BY <2>1, <2>3, <2>4, <2>8 DEF TypeInv
<1>5. CASE ~Refreshes(request[r], SlotsOf(r))
  <2>1. Answer(r, new)
    BY <1>5 DEF AfterWrite
  <2>2. calls' \in [Sessions -> 0 .. MaxToolCalls]
    BY <1>3 DEF TypeInv, SessionsOK
  <2> HIDE DEF new
  <2> QED BY <1>1, <1>2, <1>3, <2>1, <2>2, AnswerType
<1> QED BY <1>4, <1>5

LEMMA RefreshType ==
  ASSUME TypeInv, NEW r \in Requests, Refresh(r)
  PROVE  TypeInv'
<1> DEFINE sl == SlotsOf(r)
           found == IF sl.patron = None THEN OpenLoans ELSE LoansOf(Namesakes[sl.patron])
<1>1. Calls(r, "refresh") /\ UNCHANGED <<ledger, asked>>
  BY DEF Refresh
<1>2. sl \in Slots /\ calls' \in [Sessions -> 0 .. MaxToolCalls] /\ request[r].session \in Sessions
  BY <1>1, CallsType
<1>3. PICK first \in AnyOf(found) :
        Answer(r, Guide(Await(Listed(sl, found, first, FALSE), {"deskNext"}, {"book", "catalog"}),
                          {}, {"issue", "catalog"}))
  BY DEF Refresh
<1>4. found \in SUBSET LoanIds
  BY SomeLoans
<1> HIDE DEF found, sl
<1>5. Listed(sl, found, first, FALSE) \in Slots
  BY <1>2, <1>4, ListedSlots, LedgerParts
<1>6. Guide(Await(Listed(sl, found, first, FALSE), {"deskNext"}, {"book", "catalog"}), {}, {"issue", "catalog"}) \in Slots
  BY <1>5, AwaitSlots, GuideSlots DEF Prompts
<1> QED BY <1>1, <1>2, <1>3, <1>6, AnswerType

\* The other clients, and a restart.
LEMMA OutsideType ==
  ASSUME TypeInv,
         \/ \E h \in Holdings, p \in Patrons : OutsideIssue(h, p)
         \/ \E l \in LoanIds : OutsideReturn(l)
  PROVE  TypeInv'
<1>1. loans' \in [LoanIds -> LoanRow]
  <2>1. ASSUME NEW h \in Holdings, NEW p \in Patrons, OutsideIssue(h, p) PROVE loans' \in [LoanIds -> LoanRow]
    <3>1. [state |-> "open", patron |-> p, holding |-> h] \in LoanRow
      BY DEF LoanRow, Maybe
    <3> QED BY <2>1, <3>1, LedgerParts DEF OutsideIssue
  <2>2. ASSUME NEW l \in LoanIds, OutsideReturn(l) PROVE loans' \in [LoanIds -> LoanRow]
    BY <2>2, LedgerParts DEF OutsideReturn
  <2> QED BY <2>1, <2>2
<1>2. UNCHANGED <<fulfils, done, slots, pending, calls, asked, request>>
  BY DEF OutsideIssue, OutsideReturn
<1>3. LedgerOK'
  BY <1>1, <1>2 DEF TypeInv, LedgerOK
<1>4. AskedOK' /\ Made' = Made /\ SessionsOK'
  BY <1>2, Unchanged DEF TypeInv, asked
<1>5. ThreadsOK'
  BY <1>2, <1>4 DEF TypeInv, ThreadsOK
<1> QED BY <1>3, <1>4, <1>5 DEF TypeInv

LEMMA CrashType ==
  ASSUME TypeInv, Crash
  PROVE  TypeInv'
<1>1. LedgerOK' /\ Made' = Made
  BY Unchanged DEF Crash, TypeInv, asked
<1>2. SessionsOK'
  <2>1. EmptySlots \in Slots
    BY DEF EmptySlots, Slots, Maybe
  <2>2. 0 \in 0 .. MaxToolCalls
    OBVIOUS
  <2> HIDE DEF EmptySlots
  <2> QED BY <2>1, <2>2 DEF Crash, SessionsOK
<1>3. AskedOK'
  BY <1>1 DEF Crash, TypeInv, AskedOK, Maybe, asked
<1>4. ThreadsOK'
  <2>1. NoRequest \in Request /\ NoRequest.at \notin WriteSteps
    BY NoRequestOK DEF ThreadOK, NoRequest, WriteSteps
  <2>2. request' = [r \in Requests |-> NoRequest]
    BY DEF Crash
  <2>3. request' \in [Requests -> Request] /\ \A r \in Requests : request'[r] = NoRequest
    BY <2>1, <2>2
  <2>4. \A r \in Requests : ThreadOK(request'[r])
    BY <2>3, NoRequestOK
  <2>5. \A r \in Requests : ThreadOK(request[r])'
    BY <2>4 DEF ThreadOK
  <2> QED BY <2>1, <2>3, <2>5 DEF ThreadsOK
<1> QED BY <1>1, <1>2, <1>3, <1>4 DEF TypeInv

LEMMA NextTyped == TypeInv /\ [Next]_vars => TypeInv'
<1> SUFFICES ASSUME TypeInv, [Next]_vars PROVE TypeInv'
  OBVIOUS
<1>1. ASSUME NEW r \in Requests, NEW s \in Sessions, (\E t \in Said : Receive(r, s, t)) \/ Approve(r, s)
      PROVE  TypeInv'
  BY <1>1, ReceiveType, ApproveType
<1>2. ASSUME NEW r \in Requests,
             Apply(r) \/ ReadTool(r) \/ TooManyCalls(r) \/ WriteTool(r) \/ AfterWrite(r) \/ Refresh(r)
      PROVE  TypeInv'
  <2>1. WriteTool(r) => TypeInv'
    BY CommitIssueType, CheckoutType, DeliveryType, CancelIssueType, TransitionType, CommitReturnType,
       SelectReturnType, PickupType, ToolFailsType DEF WriteTool
  <2> QED BY <1>2, <2>1, ApplyType, ReadToolType, TooManyType, AfterWriteType, RefreshType
<1>3. ASSUME NEW s \in Sessions, Deny(s) PROVE TypeInv'
  BY <1>3, DenyType
<1>4. CASE UNCHANGED vars
  <2>1. UNCHANGED <<ledger, slots, pending, calls, asked, request>>
    BY <1>4 DEF vars
  <2>2. LedgerOK' /\ AskedOK' /\ Made' = Made /\ SessionsOK'
    BY <2>1, Unchanged DEF TypeInv, asked
  <2>3. ThreadsOK'
    BY <2>1, <2>2 DEF TypeInv, ThreadsOK
  <2> QED BY <2>2, <2>3 DEF TypeInv
<1> QED BY <1>1, <1>2, <1>3, <1>4, OutsideType, CrashType DEF Next

\* The type invariant holds of every behaviour: the tables hold rows, each session holds
\* slots whose patron, copy, loan and fulfilment exist, every thread is at a step of its
\* program with what that step needs, and no turn spends more tool calls than its budget.
THEOREM AgentTypeCorrect == Spec => []AgentTypeOK
BY InitTyped, NextTyped, InvImpliesType, PTL DEF Spec

=============================================================================
