------------------------------ MODULE Registry ------------------------------
(***************************************************************************)
(* The master data a desk relies on: patrons with their business keys and  *)
(* blocks, patron types, class sections and copies.  Every operation reads *)
(* rows without a lock, decides, and writes in one commit; other sessions  *)
(* commit in between.  An ORM session writes only the columns it changed,  *)
(* compared with the row as the session read it.                           *)
(*                                                                         *)
(* One key column stands for external_ref and card_barcode of a patron, as *)
(* for barcode and accession_number of a copy; names, types and sections   *)
(* of a patron decide nothing here and are left out.  An operation that is *)
(* refused by its checks changes nothing and has no action.                *)
(***************************************************************************)
EXTENDS FiniteSets

CONSTANTS
  Patrons, Blocks, Rows,
  Requests,  \* ORM sessions
  Values,    \* business keys, barcodes, sections and codes
  Upper,     \* the upper case of a value
  None

ASSUME UpperAssumption ==
  /\ Upper \in [Values -> Values]
  /\ \A v \in Values : Upper[Upper[v]] = Upper[v]
ASSUME RegistryNoneAssumption == None \notin Patrons \cup Blocks \cup Rows \cup Values

VARIABLES
  patron,   \* the table of patrons
  block,    \* the table of their blocks
  codes,    \* the unique column of the other tables
  request   \* what each session has read and is about to write

vars == <<patron, block, codes, request>>

-----------------------------------------------------------------------------
(* Data *)

Tables   == {"holdings", "sections", "types"}
Statuses == {"ACTIVE", "SUSPENDED", "EXITED"}
Windows  == {"later", "now", "over"}   \* start_at and end_at, against the clock

PatronRow == [status: Statuses \cup {"none"}, blocked: BOOLEAN, key: Values \cup {None}]
NoPatron  == [status |-> "none", blocked |-> FALSE, key |-> None]
BlockRow  == [patron: Patrons \cup {None}, active: BOOLEAN, window: Windows]
NoBlock   == [patron |-> None, active |-> FALSE, window |-> "later"]

\* A session: the patron row as it was loaded and as the session has changed it, the
\* block row or the coded row it will write.
Request ==
  [at: {"idle", "clearing", "patron", "block", "code"}, on: Patrons \cup {None},
   seen: PatronRow, new: PatronRow, blockId: Blocks \cup {None}, row: BlockRow,
   slot: (Tables \X Rows) \cup {None}, value: Values \cup {None}]
NoRequest ==
  [at |-> "idle", on |-> None, seen |-> NoPatron, new |-> NoPatron, blockId |-> None,
   row |-> NoBlock, slot |-> None, value |-> None]

Registered(p)   == patron[p].status # "none"
ActiveBlocks(p) == {b \in Blocks : block[b].patron = p /\ block[b].active}
KeyTaken(v, p)  == v # None /\ \E q \in Patrons \ {p} : patron[q].key = v
CodeTaken(t, v) == \E i \in Rows : codes[t][i] = v

\* The code of a patron type is looked up as it was typed and stored in capitals.
\* Mutant: it is stored as it was typed.
StoredAsTyped(t, v) == v
Stored(t, v) == IF t = "types" THEN Upper[v] ELSE v

\* The row after a flush: the session writes the columns it changed since it loaded
\* them. Mutant: it writes the whole row it has in memory.
FlushedWhole(row, seen, new) == new
Column(row, seen, new) == IF new # seen THEN new ELSE row
Flushed(row, seen, new) ==
  [status  |-> Column(row.status, seen.status, new.status),
   blocked |-> Column(row.blocked, seen.blocked, new.blocked),
   key     |-> Column(row.key, seen.key, new.key)]

-----------------------------------------------------------------------------
(* Reads: the checks of an operation, and the rows it loads *)

Idle(r) == request[r] = NoRequest
Fresh(x, field) == \A q \in Requests : request[q][field] # x

\* Session r will write the patron p, which it has just loaded, with these changes.
Changes(r, p, new) ==
  request' = [request EXCEPT ![r] = [@ EXCEPT !.at = "patron", !.on = p, !.seen = patron[p], !.new = new]]

RegisterPatron(r, p, v) ==
  /\ Idle(r) /\ ~Registered(p) /\ Fresh(p, "on") /\ ~KeyTaken(v, p)
  /\ Changes(r, p, [status |-> "ACTIVE", blocked |-> FALSE, key |-> v])
  /\ UNCHANGED <<patron, block, codes>>

UpdatePatron(r, p, v) ==
  /\ Idle(r) /\ Registered(p) /\ ~KeyTaken(v, p)
  /\ Changes(r, p, [patron[p] EXCEPT !.key = v])
  /\ UNCHANGED <<patron, block, codes>>

\* suspend_patron and exit_patron.
SetStatus(r, p, status) ==
  /\ Idle(r) /\ Registered(p)
  /\ Changes(r, p, [patron[p] EXCEPT !.status = status])
  /\ UNCHANGED <<patron, block, codes>>

\* Mutant: only a block that applies already sets the flag.
FlagOfNow(p, window)  == [patron[p] EXCEPT !.blocked = @ \/ window = "now"]
FlagOfSet(p, window)  == [patron[p] EXCEPT !.blocked = TRUE]

SetPatronBlock(r, b, p, window) ==
  /\ Idle(r) /\ Registered(p) /\ block[b] = NoBlock /\ Fresh(b, "blockId")
  /\ request' = [request EXCEPT ![r] =
       [@ EXCEPT !.at = "block", !.on = p, !.seen = patron[p], !.new = FlagOfSet(p, window),
                 !.blockId = b, !.row = [patron |-> p, active |-> TRUE, window |-> window]]]
  /\ UNCHANGED <<patron, block, codes>>

\* The other active blocks are read first, the patron only if there are none.
ClearPatronBlock(r, b) ==
  LET p == block[b].patron IN
  /\ Idle(r) /\ p # None
  /\ request' = [request EXCEPT ![r] =
       [@ EXCEPT !.at = IF ActiveBlocks(p) \ {b} = {} THEN "clearing" ELSE "block",
                 !.on = p, !.blockId = b, !.row = [block[b] EXCEPT !.active = FALSE]]]
  /\ UNCHANGED <<patron, block, codes>>

ClearFlag(r) ==
  LET p == request[r].on IN
  /\ request[r].at = "clearing"
  /\ request' = [request EXCEPT ![r].at = "block", ![r].seen = patron[p],
                                ![r].new = [patron[p] EXCEPT !.blocked = FALSE]]
  /\ UNCHANGED <<patron, block, codes>>

\* create_patron_type, create_class_section and add_holding.
Create(r, t, i, v) ==
  /\ Idle(r) /\ codes[t][i] = None /\ Fresh(<<t, i>>, "slot") /\ ~CodeTaken(t, v)
  /\ request' = [request EXCEPT ![r] = [@ EXCEPT !.at = "code", !.slot = <<t, i>>, !.value = v]]
  /\ UNCHANGED <<patron, block, codes>>

-----------------------------------------------------------------------------
(* Writes: the one commit of an operation *)

\* The unique constraints.
KeyConflict(r)   == request[r].new.key # request[r].seen.key /\ KeyTaken(request[r].new.key, request[r].on)
CodeConflict(r)  == CodeTaken(request[r].slot[1], Stored(request[r].slot[1], request[r].value))

Ends(r) == request' = [request EXCEPT ![r] = NoRequest]
PatronFlushed(r) ==
  LET p == request[r].on
  IN  [patron EXCEPT ![p] = Flushed(@, request[r].seen, request[r].new)]

CommitPatron(r) ==
  /\ request[r].at = "patron" /\ ~KeyConflict(r)
  /\ patron' = PatronFlushed(r)
  /\ Ends(r) /\ UNCHANGED <<block, codes>>

CommitBlock(r) ==
  /\ request[r].at = "block"
  /\ patron' = PatronFlushed(r)
  /\ block' = [block EXCEPT ![request[r].blockId] = [request[r].row EXCEPT !.window =
                 IF block[request[r].blockId] = NoBlock THEN @ ELSE block[request[r].blockId].window]]
  /\ Ends(r) /\ UNCHANGED codes

CommitCode(r) ==
  /\ request[r].at = "code" /\ ~CodeConflict(r)
  /\ codes' = [codes EXCEPT ![request[r].slot[1]][request[r].slot[2]] =
                 Stored(request[r].slot[1], request[r].value)]
  /\ Ends(r) /\ UNCHANGED <<patron, block>>

\* A constraint fails, or the worker or its connection is lost before the commit.
Rollback(r) ==
  /\ ~Idle(r)
  /\ Ends(r) /\ UNCHANGED <<patron, block, codes>>

\* A block begins or ends to apply.
TimePasses(b) ==
  /\ block[b] # NoBlock /\ block[b].window # "over"
  /\ block' = [block EXCEPT ![b].window = IF @ = "later" THEN "now" ELSE "over"]
  /\ UNCHANGED <<patron, codes, request>>

Init ==
  /\ patron = [p \in Patrons |-> NoPatron]
  /\ block = [b \in Blocks |-> NoBlock]
  /\ codes = [t \in Tables |-> [i \in Rows |-> None]]
  /\ request = [r \in Requests |-> NoRequest]

PatronStep(r) ==
  \/ \E p \in Patrons, v \in Values \cup {None} : RegisterPatron(r, p, v)
  \/ \E p \in Patrons, v \in Values : UpdatePatron(r, p, v)
  \/ CommitPatron(r)
StandingStep(r) ==
  \/ \E p \in Patrons, status \in {"SUSPENDED", "EXITED"} : SetStatus(r, p, status)
  \/ \E b \in Blocks, p \in Patrons, window \in {"later", "now"} : SetPatronBlock(r, b, p, window)
  \/ \E b \in Blocks : ClearPatronBlock(r, b)
  \/ ClearFlag(r) \/ CommitBlock(r)
CodeStep(r) ==
  \/ \E t \in Tables, i \in Rows, v \in Values : Create(r, t, i, v)
  \/ CommitCode(r)

Next ==
  \/ \E r \in Requests : PatronStep(r) \/ StandingStep(r) \/ CodeStep(r) \/ Rollback(r)
  \/ \E b \in Blocks : TimePasses(b)
Spec == Init /\ [][Next]_vars

-----------------------------------------------------------------------------
(* Properties *)

\* Every table and session keeps a value of its type, and the code of a patron type
\* is in capitals (service.py stores code.upper()).
RegistryTypeOK ==
  /\ patron \in [Patrons -> PatronRow]
  /\ block \in [Blocks -> BlockRow]
  /\ codes \in [Tables -> [Rows -> Values \cup {None}]]
  /\ request \in [Requests -> Request]
  /\ \A i \in Rows : codes["types"][i] # None => Upper[codes["types"][i]] = codes["types"][i]

\* A patron who is suspended or has left stays so: no session that loaded the patron
\* before, to change a key or a block, writes the status back.
NoReactivation ==
  [][\A p \in Patrons : patron[p].status \in {"SUSPENDED", "EXITED"} => patron'[p].status # "ACTIVE"]_vars

\* While no block of a patron has been cleared, an active block means the flag: however
\* the sessions that set blocks overlap, none leaves the patron unflagged.
NeverClearedMeansBlocked ==
  \A p \in Patrons :
    (\A b \in Blocks : block[b].patron = p => block[b].active) /\ ActiveBlocks(p) # {}
      => patron[p].blocked

=============================================================================
