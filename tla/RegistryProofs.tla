--------------------------- MODULE RegistryProofs ---------------------------
(***************************************************************************)
(* Theorems about Registry, for any number of patrons, blocks, sessions,   *)
(* rows and keys.                                                          *)
(***************************************************************************)
EXTENDS Registry, TLAPS

USE UpperAssumption, RegistryNoneAssumption

\* What a session has in hand at each point of its operation.  A session that
\* registers a patron, or adds a block, is the only one that knows the new row.
Sound(r) ==
  LET q == request[r] IN
  /\ q.at \in {"idle", "code"} => q.on = None /\ q.blockId = None
  /\ q.at = "code" => q.slot \in Tables \X Rows /\ q.value \in Values
  /\ q.at = "patron" =>
       /\ q.on \in Patrons /\ q.blockId = None /\ q.new.blocked = q.seen.blocked
       /\ IF q.seen.status = "none"
            THEN /\ ~Registered(q.on) /\ q.new.status = "ACTIVE"
                 /\ \A x \in Requests \ {r} : request[x].on # q.on
            ELSE /\ Registered(q.on)
                 /\ q.new.status \in {q.seen.status, "SUSPENDED", "EXITED"}
  /\ q.at \in {"clearing", "block"} =>
       /\ q.on \in Patrons /\ Registered(q.on) /\ q.blockId \in Blocks /\ q.row.patron = q.on
       /\ q.new.key = q.seen.key /\ q.new.status = q.seen.status
       /\ q.at = "clearing" => ~q.row.active
       /\ IF q.row.active
            THEN /\ block[q.blockId] = NoBlock
                 /\ \A x \in Requests \ {r} : request[x].blockId # q.blockId
            ELSE block[q.blockId].patron = q.on

BlocksOfRegistered == \A b \in Blocks : block[b].patron # None => Registered(block[b].patron)

AbsentPatrons == \A p \in Patrons : ~Registered(p) => patron[p] = NoPatron

TypeInv ==
  RegistryTypeOK /\ BlocksOfRegistered /\ AbsentPatrons /\ \A r \in Requests : Sound(r)

\* A session's request stays a record of its type, whatever it reads: patron, block
\* and coded rows are of their types already.
LEMMA ReadsTyped ==
  ASSUME TypeInv, NEW r \in Requests, NEW new \in Request,
         request' = [request EXCEPT ![r] = new], UNCHANGED <<patron, block, codes>>
  PROVE  RegistryTypeOK'
BY DEF TypeInv, RegistryTypeOK

\* A read step of session r that leaves the others as they are keeps every session
\* sound if it makes r sound and takes no row that another session has for itself.
LEMMA ReadsSound ==
  ASSUME TypeInv, NEW r \in Requests, NEW new \in Request,
         request' = [request EXCEPT ![r] = new], UNCHANGED <<patron, block, codes>>,
         Sound(r)',
         new.on = None \/ new.on = request[r].on \/ Registered(new.on) \/ Fresh(new.on, "on"),
         new.blockId = None \/ new.blockId = request[r].blockId
           \/ block[new.blockId] # NoBlock \/ Fresh(new.blockId, "blockId")
  PROVE  BlocksOfRegistered' /\ AbsentPatrons' /\ \A x \in Requests : Sound(x)'
<1>1. BlocksOfRegistered' /\ AbsentPatrons'
  BY DEF TypeInv, BlocksOfRegistered, AbsentPatrons, Registered
<1>2. ASSUME NEW x \in Requests, x # r PROVE Sound(x)'
  <2>1. request'[x] = request[x] /\ request'[r] = new
    BY <1>2 DEF TypeInv, RegistryTypeOK
  <2>2. \A y \in Requests : y # r => request'[y] = request[y]
    BY DEF TypeInv, RegistryTypeOK
  <2>3. Sound(x) /\ request[x] \in Request
    BY DEF TypeInv, RegistryTypeOK
  <2>4. request[x].at = "patron" /\ request[x].seen.status = "none" => new.on # request[x].on
    BY <2>3, <1>2 DEF Sound, Fresh, TypeInv
  <2>5. request[x].at = "block" /\ request[x].row.active => new.blockId # request[x].blockId
    BY <2>3, <1>2 DEF Sound, Fresh, TypeInv
  <2>6. request[x].at = "clearing" => ~request[x].row.active
    BY <2>3 DEF Sound
  <2> QED
    BY <2>1, <2>2, <2>3, <2>4, <2>5, <2>6, <1>2 DEF Sound, Registered
<1> QED BY <1>1, <1>2

\* A registration starts: nobody else uses the id of the new patron.
LEMMA RegisterPatronStep ==
  ASSUME TypeInv, NEW r \in Requests, NEW p \in Patrons, NEW v \in Values \cup {None},
         RegisterPatron(r, p, v)
  PROVE  TypeInv'
<1> DEFINE new == [NoRequest EXCEPT !.at = "patron", !.on = p, !.seen = patron[p],
                               !.new = [status |-> "ACTIVE", blocked |-> FALSE, key |-> v]]
<1>1. /\ request[r] = NoRequest
      /\ patron[p] = NoPatron /\ ~Registered(p) /\ Fresh(p, "on")
  BY DEF Idle, RegisterPatron, TypeInv, AbsentPatrons
<1>2. new \in Request
  BY <1>1 DEF TypeInv, RegistryTypeOK, Request, NoRequest, NoPatron, NoBlock, PatronRow, BlockRow, Windows, Statuses
<1>3. request' = [request EXCEPT ![r] = new] /\ UNCHANGED <<patron, block, codes>>
  BY <1>1 DEF RegisterPatron, Changes
<1>4. /\ new.at = "patron" /\ new.on = p /\ new.blockId = None /\ new.seen = patron[p]
      /\ new.new.blocked = FALSE /\ new.new.status = "ACTIVE"
  BY <1>1 DEF NoRequest
<1> HIDE DEF new
<1>5. request'[r] = new /\ \A x \in Requests : x # r => request'[x] = request[x]
  BY <1>2, <1>3 DEF TypeInv, RegistryTypeOK
<1>6. Sound(r)'
  <2>1. patron[p].status = "none" /\ patron[p].blocked = FALSE
    BY <1>1 DEF NoPatron
  <2>2. \A x \in Requests \ {r} : request[x].on # p
    BY <1>1 DEF Fresh
  <2>3. \A x \in Requests \ {r} : request'[x].on # p
    BY <2>2, <1>5
  <2>4. ~Registered(p)'
    BY <2>1, <1>3 DEF Registered
  <2>5. /\ request'[r].at = "patron" /\ request'[r].on = p /\ request'[r].blockId = None
        /\ request'[r].seen.status = "none" /\ request'[r].new.status = "ACTIVE"
        /\ request'[r].new.blocked = request'[r].seen.blocked
    BY <2>1, <1>4, <1>5
  <2> QED BY <2>3, <2>4, <2>5 DEF Sound
<1>7. /\ new.on = None \/ new.on = request[r].on \/ Registered(new.on) \/ Fresh(new.on, "on")
      /\ new.blockId = None \/ new.blockId = request[r].blockId
           \/ block[new.blockId] # NoBlock \/ Fresh(new.blockId, "blockId")
  BY <1>1, <1>4
<1> QED BY <1>2, <1>3, <1>6, <1>7, ReadsTyped, ReadsSound DEF TypeInv

\* An update loads a registered patron and changes the key.
LEMMA UpdatePatronStep ==
  ASSUME TypeInv, NEW r \in Requests, NEW p \in Patrons, NEW v \in Values,
         UpdatePatron(r, p, v)
  PROVE  TypeInv'
<1> DEFINE new == [NoRequest EXCEPT !.at = "patron", !.on = p, !.seen = patron[p],
                               !.new = [patron[p] EXCEPT !.key = v]]
<1>1. /\ request[r] = NoRequest
      /\ patron[p] \in PatronRow /\ Registered(p)
  BY DEF Idle, UpdatePatron, TypeInv, RegistryTypeOK
<1>2. new \in Request
  BY <1>1 DEF TypeInv, RegistryTypeOK, Request, NoRequest, NoPatron, NoBlock, PatronRow, BlockRow, Windows, Statuses
<1>3. request' = [request EXCEPT ![r] = new] /\ UNCHANGED <<patron, block, codes>>
  BY <1>1 DEF UpdatePatron, Changes
<1>4. /\ new.at = "patron" /\ new.on = p /\ new.blockId = None /\ new.seen = patron[p]
      /\ new.new.blocked = patron[p].blocked /\ new.new.status = patron[p].status
  BY <1>1 DEF NoRequest, PatronRow, BlockRow
<1> HIDE DEF new
<1>5. request'[r] = new /\ \A x \in Requests : x # r => request'[x] = request[x]
  BY <1>2, <1>3 DEF TypeInv, RegistryTypeOK
<1>6. Sound(r)'
  BY <1>1, <1>3, <1>4, <1>5 DEF Sound, Registered, Fresh
<1>7. /\ new.on = None \/ new.on = request[r].on \/ Registered(new.on) \/ Fresh(new.on, "on")
      /\ new.blockId = None \/ new.blockId = request[r].blockId
           \/ block[new.blockId] # NoBlock \/ Fresh(new.blockId, "blockId")
  BY <1>1, <1>4
<1> QED BY <1>2, <1>3, <1>6, <1>7, ReadsTyped, ReadsSound DEF TypeInv

\* A suspension or an exit loads a registered patron and changes the status.
LEMMA SetStatusStep ==
  ASSUME TypeInv, NEW r \in Requests, NEW p \in Patrons, NEW status \in {"SUSPENDED", "EXITED"},
         SetStatus(r, p, status)
  PROVE  TypeInv'
<1> DEFINE new == [NoRequest EXCEPT !.at = "patron", !.on = p, !.seen = patron[p],
                               !.new = [patron[p] EXCEPT !.status = status]]
<1>1. /\ request[r] = NoRequest
      /\ patron[p] \in PatronRow /\ Registered(p)
  BY DEF Idle, SetStatus, TypeInv, RegistryTypeOK
<1>2. new \in Request
  BY <1>1 DEF TypeInv, RegistryTypeOK, Request, NoRequest, NoPatron, NoBlock, PatronRow, BlockRow, Windows, Statuses
<1>3. request' = [request EXCEPT ![r] = new] /\ UNCHANGED <<patron, block, codes>>
  BY <1>1 DEF SetStatus, Changes
<1>4. /\ new.at = "patron" /\ new.on = p /\ new.blockId = None /\ new.seen = patron[p]
      /\ new.new.blocked = patron[p].blocked /\ new.new.status = status
  BY <1>1 DEF NoRequest, PatronRow, BlockRow
<1> HIDE DEF new
<1>5. request'[r] = new /\ \A x \in Requests : x # r => request'[x] = request[x]
  BY <1>2, <1>3 DEF TypeInv, RegistryTypeOK
<1>6. Sound(r)'
  BY <1>1, <1>3, <1>4, <1>5 DEF Sound, Registered, Fresh
<1>7. /\ new.on = None \/ new.on = request[r].on \/ Registered(new.on) \/ Fresh(new.on, "on")
      /\ new.blockId = None \/ new.blockId = request[r].blockId
           \/ block[new.blockId] # NoBlock \/ Fresh(new.blockId, "blockId")
  BY <1>1, <1>4
<1> QED BY <1>2, <1>3, <1>6, <1>7, ReadsTyped, ReadsSound DEF TypeInv

\* A block is set on a registered patron, under an id nobody else uses.
LEMMA SetPatronBlockStep ==
  ASSUME TypeInv, NEW r \in Requests, NEW b \in Blocks, NEW p \in Patrons, NEW window \in {"later", "now"},
         SetPatronBlock(r, b, p, window)
  PROVE  TypeInv'
<1> DEFINE new == [NoRequest EXCEPT
         !.at = "block", !.on = p, !.seen = patron[p], !.new = FlagOfSet(p, window),
         !.blockId = b, !.row = [patron |-> p, active |-> TRUE, window |-> window]]
<1>1. /\ request[r] = NoRequest
      /\ patron[p] \in PatronRow /\ Registered(p)
      /\ block[b] = NoBlock /\ Fresh(b, "blockId")
  BY DEF Idle, SetPatronBlock, TypeInv, RegistryTypeOK
<1>2. new \in Request
  BY <1>1 DEF TypeInv, RegistryTypeOK, Request, NoRequest, NoPatron, NoBlock, PatronRow, BlockRow, Windows, Statuses, FlagOfSet
<1>3. request' = [request EXCEPT ![r] = new] /\ UNCHANGED <<patron, block, codes>>
  BY <1>1 DEF SetPatronBlock
<1>4. /\ new.at = "block" /\ new.on = p /\ new.blockId = b /\ new.seen = patron[p]
      /\ new.new.key = patron[p].key /\ new.new.status = patron[p].status
      /\ new.row.patron = p /\ new.row.active
  BY <1>1 DEF NoRequest, PatronRow, BlockRow, FlagOfSet
<1> HIDE DEF new
<1>5. request'[r] = new /\ \A x \in Requests : x # r => request'[x] = request[x]
  BY <1>2, <1>3 DEF TypeInv, RegistryTypeOK
<1>6. Sound(r)'
  BY <1>1, <1>3, <1>4, <1>5 DEF Sound, Registered, Fresh
<1>7. /\ new.on = None \/ new.on = request[r].on \/ Registered(new.on) \/ Fresh(new.on, "on")
      /\ new.blockId = None \/ new.blockId = request[r].blockId
           \/ block[new.blockId] # NoBlock \/ Fresh(new.blockId, "blockId")
  BY <1>1, <1>4
<1> QED BY <1>2, <1>3, <1>6, <1>7, ReadsTyped, ReadsSound DEF TypeInv

\* A clear loads a recorded block, and with it its patron.
LEMMA ClearPatronBlockStep ==
  ASSUME TypeInv, NEW r \in Requests, NEW b \in Blocks,
         ClearPatronBlock(r, b)
  PROVE  TypeInv'
<1> DEFINE new == [NoRequest EXCEPT
         !.at = IF ActiveBlocks(block[b].patron) \ {b} = {} THEN "clearing" ELSE "block",
         !.on = block[b].patron, !.blockId = b, !.row = [block[b] EXCEPT !.active = FALSE]]
<1>1. /\ request[r] = NoRequest
      /\ block[b] \in BlockRow /\ block[b].patron \in Patrons /\ block[b] # NoBlock
      /\ Registered(block[b].patron)
  BY DEF Idle, ClearPatronBlock, TypeInv, RegistryTypeOK, BlocksOfRegistered, BlockRow, NoBlock
<1>2. new \in Request
  BY <1>1 DEF TypeInv, RegistryTypeOK, Request, NoRequest, NoPatron, NoBlock, PatronRow, BlockRow, Windows, Statuses
<1>3. request' = [request EXCEPT ![r] = new] /\ UNCHANGED <<patron, block, codes>>
  BY <1>1 DEF ClearPatronBlock
<1>4. /\ new.at \in {"clearing", "block"} /\ new.on = block[b].patron /\ new.blockId = b
      /\ new.new = new.seen /\ new.row.patron = block[b].patron /\ ~new.row.active
  BY <1>1 DEF NoRequest, PatronRow, BlockRow
<1> HIDE DEF new
<1>5. request'[r] = new /\ \A x \in Requests : x # r => request'[x] = request[x]
  BY <1>2, <1>3 DEF TypeInv, RegistryTypeOK
<1>6. Sound(r)'
  BY <1>1, <1>3, <1>4, <1>5 DEF Sound, Registered, Fresh
<1>7. /\ new.on = None \/ new.on = request[r].on \/ Registered(new.on) \/ Fresh(new.on, "on")
      /\ new.blockId = None \/ new.blockId = request[r].blockId
           \/ block[new.blockId] # NoBlock \/ Fresh(new.blockId, "blockId")
  BY <1>1, <1>4
<1> QED BY <1>2, <1>3, <1>6, <1>7, ReadsTyped, ReadsSound DEF TypeInv

\* A type, a section or a copy is created: no patron and no block is at stake.
LEMMA CreateStep ==
  ASSUME TypeInv, NEW r \in Requests, NEW t \in Tables, NEW i \in Rows, NEW v \in Values,
         Create(r, t, i, v)
  PROVE  TypeInv'
<1> DEFINE new == [NoRequest EXCEPT !.at = "code", !.slot = <<t, i>>, !.value = v]
<1>1. /\ request[r] = NoRequest
      /\ <<t, i>> \in Tables \X Rows
  BY DEF Create, Idle
<1>2. new \in Request
  BY <1>1 DEF TypeInv, RegistryTypeOK, Request, NoRequest, NoPatron, NoBlock, PatronRow, BlockRow, Windows, Statuses
<1>3. request' = [request EXCEPT ![r] = new] /\ UNCHANGED <<patron, block, codes>>
  BY <1>1 DEF Create
<1>4. /\ new.at = "code" /\ new.on = None /\ new.blockId = None
      /\ new.slot = <<t, i>> /\ new.value = v
  BY <1>1 DEF NoRequest, PatronRow, BlockRow
<1> HIDE DEF new
<1>5. request'[r] = new /\ \A x \in Requests : x # r => request'[x] = request[x]
  BY <1>2, <1>3 DEF TypeInv, RegistryTypeOK
<1>6. Sound(r)'
  BY <1>1, <1>3, <1>4, <1>5 DEF Sound, Registered, Fresh
<1>7. /\ new.on = None \/ new.on = request[r].on \/ Registered(new.on) \/ Fresh(new.on, "on")
      /\ new.blockId = None \/ new.blockId = request[r].blockId
           \/ block[new.blockId] # NoBlock \/ Fresh(new.blockId, "blockId")
  BY <1>1, <1>4
<1> QED BY <1>2, <1>3, <1>6, <1>7, ReadsTyped, ReadsSound DEF TypeInv

\* The clear of the last active block reads the patron.
LEMMA ClearFlagStep ==
  ASSUME TypeInv, NEW r \in Requests, ClearFlag(r)
  PROVE  TypeInv'
<1> DEFINE p == request[r].on
           new == [request[r] EXCEPT !.at = "block", !.seen = patron[p],
                                     !.new = [patron[p] EXCEPT !.blocked = FALSE]]
<1>1. /\ request[r] \in Request /\ request[r].at = "clearing"
      /\ p \in Patrons /\ patron[p] \in PatronRow /\ Sound(r)
  BY DEF TypeInv, RegistryTypeOK, ClearFlag, Sound
<1>2. new \in Request
  BY <1>1 DEF Request, PatronRow
<1>3. request' = [request EXCEPT ![r] = new] /\ UNCHANGED <<patron, block, codes>>
  BY <1>1 DEF ClearFlag, TypeInv, RegistryTypeOK, Request
<1>4. /\ new.at = "block" /\ new.on = p /\ new.blockId = request[r].blockId
      /\ new.new.key = new.seen.key /\ new.new.status = new.seen.status
      /\ new.row = request[r].row
  BY <1>1 DEF Request, PatronRow
<1> HIDE DEF new
<1>5. request'[r] = new /\ \A x \in Requests : x # r => request'[x] = request[x]
  BY <1>2, <1>3 DEF TypeInv, RegistryTypeOK
<1>6. Sound(r)'
  BY <1>1, <1>3, <1>4, <1>5 DEF Sound, Registered
<1> QED BY <1>2, <1>3, <1>4, <1>6, ReadsTyped, ReadsSound DEF TypeInv

-----------------------------------------------------------------------------
(* Commits *)

\* What a commit, or the passing of time, owes the session x it does not belong to.
LEMMA OthersSound ==
  ASSUME TypeInv, NEW x \in Requests, request'[x] = request[x],
         \A p \in Patrons : patron[p].status # "none" => patron'[p].status # "none",
         \A b \in Blocks : block[b].patron # None => block'[b].patron = block[b].patron,
         \A y \in Requests :
           request'[y] = request[y] \/ (request'[y].on = None /\ request'[y].blockId = None),
         request[x].at = "patron" /\ request[x].seen.status = "none" => patron'[request[x].on].status = "none",
         request[x].at = "block" /\ request[x].row.active
           => block'[request[x].blockId] = block[request[x].blockId]
  PROVE  Sound(x)'
<1>1. Sound(x) /\ None \notin Patrons \cup Blocks
  BY DEF TypeInv
<1>2. CASE request[x].at \in {"idle", "code"}
  BY <1>1, <1>2 DEF Sound, Registered
<1>3. CASE request[x].at = "patron"
  <2>1. CASE request[x].seen.status = "none"
    <3>1. \A y \in Requests \ {x} : request'[y].on # request[x].on
      BY <1>1, <1>3, <2>1 DEF Sound, Registered
    <3> QED BY <1>1, <1>3, <2>1, <3>1 DEF Sound, Registered
  <2>2. CASE request[x].seen.status # "none"
    BY <1>1, <1>3, <2>2 DEF Sound, Registered
  <2> QED BY <2>1, <2>2
<1>4. CASE request[x].at \in {"clearing", "block"}
  <2>1. CASE request[x].row.active
    <3>1. \A y \in Requests \ {x} : request'[y].blockId # request[x].blockId
      BY <1>1, <1>4, <2>1 DEF Sound, Registered
    <3> QED BY <1>1, <1>4, <2>1, <3>1 DEF Sound, Registered
  <2>2. CASE ~request[x].row.active
    BY <1>1, <1>4, <2>2 DEF Sound, Registered
  <2> QED BY <2>1, <2>2
<1>5. request[x].at \in {"idle", "clearing", "patron", "block", "code"}
  BY DEF TypeInv, RegistryTypeOK, Request
<1> QED BY <1>2, <1>3, <1>4, <1>5

\* A flush is a row of patrons; it keeps a status that is not "none".
LEMMA FlushTyped ==
  ASSUME NEW row \in PatronRow, NEW seen \in PatronRow, NEW new \in PatronRow
  PROVE  /\ Flushed(row, seen, new) \in PatronRow
         /\ Flushed(row, seen, new).status = Column(row.status, seen.status, new.status)
         /\ Flushed(row, seen, new).blocked = Column(row.blocked, seen.blocked, new.blocked)
         /\ Flushed(row, seen, new).key = Column(row.key, seen.key, new.key)
BY DEF Flushed, Column, PatronRow

\* A session that ends has nothing in hand.
LEMMA EndsIdle ==
  ASSUME TypeInv, NEW r \in Requests, Ends(r)
  PROVE  /\ request' \in [Requests -> Request] /\ request'[r] = NoRequest
         /\ \A x \in Requests : x # r => request'[x] = request[x]
         /\ request'[r].at = "idle" /\ request'[r].on = None /\ request'[r].blockId = None
         /\ Sound(r)'
<1>1. NoRequest \in Request
  BY DEF Request, NoRequest, NoPatron, NoBlock, PatronRow, BlockRow, Windows, Statuses
<1>2. /\ request' \in [Requests -> Request] /\ request'[r] = NoRequest
      /\ \A x \in Requests : x # r => request'[x] = request[x]
  BY <1>1 DEF Ends, TypeInv, RegistryTypeOK
<1>3. NoRequest.at = "idle" /\ NoRequest.on = None /\ NoRequest.blockId = None
  BY DEF NoRequest
<1>4. Sound(r)'
  BY <1>2, <1>3 DEF Sound
<1> QED BY <1>2, <1>3, <1>4

\* The row a session flushes: of its type, registered, and no other row is touched.
LEMMA FlushedRow ==
  ASSUME TypeInv, NEW r \in Requests, request[r].at \in {"patron", "block"}, patron' = PatronFlushed(r)
  PROVE  /\ request[r].on \in Patrons /\ patron' \in [Patrons -> PatronRow]
         /\ patron'[request[r].on] = Flushed(patron[request[r].on], request[r].seen, request[r].new)
         /\ \A p \in Patrons : p # request[r].on => patron'[p] = patron[p]
         /\ patron'[request[r].on].status # "none"
<1> DEFINE p == request[r].on
<1>1. /\ p \in Patrons /\ patron[p] \in PatronRow /\ request[r].seen \in PatronRow
      /\ request[r].new \in PatronRow /\ Sound(r)
  BY DEF TypeInv, RegistryTypeOK, Sound, Request
<1>2. /\ patron' \in [Patrons -> PatronRow]
      /\ patron'[p] = Flushed(patron[p], request[r].seen, request[r].new)
      /\ \A q \in Patrons : q # p => patron'[q] = patron[q]
  BY <1>1, FlushTyped DEF PatronFlushed, TypeInv, RegistryTypeOK
<1>3. patron'[p].status = Column(patron[p].status, request[r].seen.status, request[r].new.status)
  BY <1>1, <1>2, FlushTyped
<1>4. /\ request[r].seen.status # request[r].new.status => request[r].new.status # "none"
      /\ request[r].seen.status = request[r].new.status => patron[p].status # "none"
  BY <1>1 DEF Sound, Registered
<1>5. patron'[p].status # "none"
  BY <1>3, <1>4 DEF Column
<1> QED BY <1>1, <1>2, <1>5

LEMMA CommitPatronStep ==
  ASSUME TypeInv, NEW r \in Requests, CommitPatron(r)
  PROVE  TypeInv'
<1> DEFINE p == request[r].on
<1>1. /\ request[r].at = "patron" /\ patron' = PatronFlushed(r) /\ UNCHANGED <<block, codes>>
      /\ Ends(r)
  BY DEF CommitPatron
<1>2. /\ p \in Patrons /\ patron' \in [Patrons -> PatronRow] /\ patron'[p].status # "none"
      /\ \A q \in Patrons : q # p => patron'[q] = patron[q]
  BY <1>1, FlushedRow
<1>3. /\ request' \in [Requests -> Request] /\ Sound(r)'
      /\ \A x \in Requests : x # r => request'[x] = request[x]
      /\ request'[r].on = None /\ request'[r].blockId = None
  BY <1>1, EndsIdle
<1>4. \A q \in Patrons : patron[q].status # "none" => patron'[q].status # "none"
  BY <1>2 DEF Registered
<1>5. RegistryTypeOK' /\ BlocksOfRegistered' /\ AbsentPatrons'
  <2>1. RegistryTypeOK'
    BY <1>1, <1>2, <1>3 DEF TypeInv, RegistryTypeOK
  <2>2. BlocksOfRegistered'
    BY <1>1, <1>4 DEF TypeInv, RegistryTypeOK, BlocksOfRegistered, BlockRow, Registered
  <2>3. AbsentPatrons'
    BY <1>2 DEF TypeInv, AbsentPatrons, Registered
  <2> QED BY <2>1, <2>2, <2>3
<1>6. ASSUME NEW x \in Requests, x # r PROVE Sound(x)'
  <2>1. request[x].at = "patron" /\ request[x].seen.status = "none" => patron'[request[x].on].status = "none"
    BY <1>2, <1>6 DEF TypeInv, Sound, Registered
  <2> QED BY <1>1, <1>3, <1>4, <1>6, <2>1, OthersSound
<1> QED BY <1>3, <1>5, <1>6 DEF TypeInv

LEMMA CommitBlockStep ==
  ASSUME TypeInv, NEW r \in Requests, CommitBlock(r)
  PROVE  TypeInv'
<1> DEFINE p == request[r].on
           b == request[r].blockId
           row == [request[r].row EXCEPT !.window =
                     IF block[b] = NoBlock THEN @ ELSE block[b].window]
<1>1. /\ request[r].at = "block" /\ patron' = PatronFlushed(r) /\ UNCHANGED codes
      /\ block' = [block EXCEPT ![b] = row] /\ Ends(r)
  BY DEF CommitBlock
<1>2. /\ p \in Patrons /\ patron' \in [Patrons -> PatronRow] /\ patron'[p].status # "none"
      /\ \A q \in Patrons : q # p => patron'[q] = patron[q]
  BY <1>1, FlushedRow
<1>3. /\ request' \in [Requests -> Request] /\ Sound(r)'
      /\ \A x \in Requests : x # r => request'[x] = request[x]
      /\ request'[r].on = None /\ request'[r].blockId = None
  BY <1>1, EndsIdle
<1>4. \A q \in Patrons : patron[q].status # "none" => patron'[q].status # "none"
  BY <1>2 DEF Registered
<1>5. /\ b \in Blocks /\ request[r].row \in BlockRow /\ block[b] \in BlockRow /\ Sound(r)
  BY <1>1 DEF TypeInv, RegistryTypeOK, Sound, Request
<1>6. row \in BlockRow /\ row.patron = p
  BY <1>1, <1>5 DEF BlockRow, Sound
<1> HIDE DEF row
<1>7. /\ block' \in [Blocks -> BlockRow] /\ block'[b] = row
      /\ \A c \in Blocks : c # b => block'[c] = block[c]
  BY <1>1, <1>5, <1>6 DEF TypeInv, RegistryTypeOK
<1>8. block[b].patron # None => block[b].patron = p
  BY <1>1, <1>5 DEF Sound, NoBlock
<1>9. RegistryTypeOK' /\ BlocksOfRegistered' /\ AbsentPatrons'
  <2>1. RegistryTypeOK'
    BY <1>1, <1>2, <1>3, <1>7 DEF TypeInv, RegistryTypeOK
  <2>2. BlocksOfRegistered'
    BY <1>2, <1>4, <1>6, <1>7 DEF TypeInv, RegistryTypeOK, BlocksOfRegistered, BlockRow, Registered
  <2>3. AbsentPatrons'
    BY <1>2 DEF TypeInv, AbsentPatrons, Registered
  <2> QED BY <2>1, <2>2, <2>3
<1>10. ASSUME NEW x \in Requests, x # r PROVE Sound(x)'
  <2>1. request[x].at = "patron" /\ request[x].seen.status = "none" => patron'[request[x].on].status = "none"
    BY <1>2, <1>10 DEF TypeInv, Sound, Registered
  <2>2. request[x].at = "block" /\ request[x].row.active
          => block'[request[x].blockId] = block[request[x].blockId]
    BY <1>7, <1>10 DEF TypeInv, Sound
  <2>3. \A c \in Blocks : block[c].patron # None => block'[c].patron = block[c].patron
    BY <1>6, <1>7, <1>8
  <2> QED BY <1>3, <1>4, <1>10, <2>1, <2>2, <2>3, OthersSound
<1> QED BY <1>3, <1>9, <1>10 DEF TypeInv

LEMMA CommitCodeStep ==
  ASSUME TypeInv, NEW r \in Requests, CommitCode(r)
  PROVE  TypeInv'
<1> DEFINE t == request[r].slot[1]
           i == request[r].slot[2]
           v == Stored(t, request[r].value)
<1>1. /\ request[r].at = "code" /\ UNCHANGED <<patron, block>>
      /\ codes' = [codes EXCEPT ![t][i] = v] /\ Ends(r)
  BY DEF CommitCode
<1>2. /\ request' \in [Requests -> Request] /\ Sound(r)'
      /\ \A x \in Requests : x # r => request'[x] = request[x]
      /\ request'[r].on = None /\ request'[r].blockId = None
  BY <1>1, EndsIdle
<1>3. t \in Tables /\ i \in Rows /\ request[r].value \in Values
  BY <1>1 DEF TypeInv, Sound
<1>4. v \in Values /\ (t = "types" => Upper[v] = v)
  BY <1>3 DEF Stored
<1>5. RegistryTypeOK' /\ BlocksOfRegistered' /\ AbsentPatrons'
  <2>1. RegistryTypeOK'
    BY <1>1, <1>2, <1>3, <1>4 DEF TypeInv, RegistryTypeOK, Tables
  <2>2. BlocksOfRegistered' /\ AbsentPatrons'
    BY <1>1 DEF TypeInv, BlocksOfRegistered, AbsentPatrons, Registered
  <2> QED BY <2>1, <2>2
<1>6. ASSUME NEW x \in Requests, x # r PROVE Sound(x)'
  <2>1. \A q \in Patrons : patron[q].status # "none" => patron'[q].status # "none"
    BY <1>1 DEF Registered
  <2>2. request[x].at = "patron" /\ request[x].seen.status = "none" => patron'[request[x].on].status = "none"
    BY <1>1, <1>6 DEF TypeInv, Sound, Registered
  <2> QED BY <1>1, <1>2, <1>6, <2>1, <2>2, OthersSound
<1> QED BY <1>2, <1>5, <1>6 DEF TypeInv

LEMMA RollbackStep ==
  ASSUME TypeInv, NEW r \in Requests, Rollback(r)
  PROVE  TypeInv'
<1>1. UNCHANGED <<patron, block, codes>>
  BY DEF Rollback
<1>2. /\ request' \in [Requests -> Request] /\ Sound(r)'
      /\ \A x \in Requests : x # r => request'[x] = request[x]
      /\ request'[r].on = None /\ request'[r].blockId = None
  BY EndsIdle DEF Rollback
<1>3. RegistryTypeOK' /\ BlocksOfRegistered' /\ AbsentPatrons'
  BY <1>1, <1>2 DEF TypeInv, RegistryTypeOK, BlocksOfRegistered, AbsentPatrons, Registered
<1>4. ASSUME NEW x \in Requests, x # r PROVE Sound(x)'
  <2>1. request[x].at = "patron" /\ request[x].seen.status = "none" => patron'[request[x].on].status = "none"
    BY <1>1 DEF TypeInv, Sound, Registered
  <2>2. \A q \in Patrons : patron[q].status # "none" => patron'[q].status # "none"
    BY <1>1 DEF Registered
  <2> QED BY <1>1, <1>2, <1>4, <2>1, <2>2, OthersSound
<1> QED BY <1>2, <1>3, <1>4 DEF TypeInv

LEMMA TimePassesStep ==
  ASSUME TypeInv, NEW b \in Blocks, TimePasses(b)
  PROVE  TypeInv'
<1> DEFINE row == [block[b] EXCEPT !.window = IF @ = "later" THEN "now" ELSE "over"]
<1>1. block[b] \in BlockRow /\ block[b] # NoBlock /\ UNCHANGED <<patron, codes, request>>
  BY DEF TimePasses, TypeInv, RegistryTypeOK
<1>2. row \in BlockRow /\ row.patron = block[b].patron
  BY <1>1 DEF BlockRow, Windows
<1>3. block' = [block EXCEPT ![b] = row]
  BY DEF TimePasses
<1> HIDE DEF row
<1>4. /\ block' \in [Blocks -> BlockRow] /\ \A c \in Blocks : c # b => block'[c] = block[c]
      /\ \A c \in Blocks : block'[c].patron = block[c].patron
  BY <1>2, <1>3 DEF TypeInv, RegistryTypeOK
<1>5. RegistryTypeOK' /\ BlocksOfRegistered' /\ AbsentPatrons'
  BY <1>1, <1>4 DEF TypeInv, RegistryTypeOK, BlocksOfRegistered, AbsentPatrons, Registered
<1>6. ASSUME NEW x \in Requests PROVE Sound(x)'
  <2>1. request[x].at = "patron" /\ request[x].seen.status = "none" => patron'[request[x].on].status = "none"
    BY <1>1 DEF TypeInv, Sound, Registered
  <2>2. \A q \in Patrons : patron[q].status # "none" => patron'[q].status # "none"
    BY <1>1 DEF Registered
  <2>3. request[x].at = "block" /\ request[x].row.active
          => block'[request[x].blockId] = block[request[x].blockId]
    BY <1>1, <1>4 DEF TypeInv, Sound
  <2> QED BY <1>1, <1>4, <2>1, <2>2, <2>3, OthersSound
<1> QED BY <1>5, <1>6 DEF TypeInv

-----------------------------------------------------------------------------
(* Theorems *)

LEMMA TypeInvInit == Init => TypeInv
<1> SUFFICES ASSUME Init PROVE TypeInv
  OBVIOUS
<1>1. NoPatron \in PatronRow /\ NoBlock \in BlockRow /\ NoRequest \in Request
  BY DEF Request, NoRequest, NoPatron, NoBlock, PatronRow, BlockRow, Windows, Statuses
<1>2. RegistryTypeOK
  BY <1>1 DEF Init, RegistryTypeOK, Tables
<1>3. NoBlock.patron = None /\ NoRequest.at = "idle" /\ NoRequest.on = None /\ NoRequest.blockId = None
  BY DEF NoBlock, NoRequest
<1>4. BlocksOfRegistered /\ AbsentPatrons
  BY <1>3 DEF Init, BlocksOfRegistered, AbsentPatrons
<1>5. \A r \in Requests : Sound(r)
  BY <1>3 DEF Init, Sound
<1> QED BY <1>2, <1>4, <1>5 DEF TypeInv

LEMMA TypeInvStep == TypeInv /\ [Next]_vars => TypeInv'
<1> SUFFICES ASSUME TypeInv, [Next]_vars PROVE TypeInv'
  OBVIOUS
<1>1. ASSUME NEW r \in Requests, PatronStep(r) \/ StandingStep(r) PROVE TypeInv'
  BY <1>1, RegisterPatronStep, UpdatePatronStep, SetStatusStep, SetPatronBlockStep,
     ClearPatronBlockStep, ClearFlagStep, CommitPatronStep, CommitBlockStep DEF PatronStep, StandingStep
<1>2. ASSUME NEW r \in Requests, CodeStep(r) PROVE TypeInv'
  BY <1>2, CreateStep, CommitCodeStep DEF CodeStep
<1>3. ASSUME UNCHANGED vars PROVE TypeInv'
  BY <1>3 DEF vars, TypeInv, RegistryTypeOK, BlocksOfRegistered, AbsentPatrons, Sound, Registered
<1> QED BY <1>1, <1>2, <1>3, RollbackStep, TimePassesStep DEF Next

\* The tables and sessions keep values of their types, type codes are in capitals, and
\* every session holds rows it may write.
THEOREM RegistryTypeCorrect == Spec => []RegistryTypeOK
<1>1. TypeInv => RegistryTypeOK
  BY DEF TypeInv
<1> QED BY <1>1, TypeInvInit, TypeInvStep, PTL DEF Spec

\* Only a commit writes a table: a flush one patron, a coded row one code.
LEMMA OnlyCommitsWrite ==
  ASSUME Next
  PROVE  /\ UNCHANGED patron \/ \E r \in Requests : CommitPatron(r) \/ CommitBlock(r)
         /\ UNCHANGED codes \/ \E r \in Requests : CommitCode(r)
         /\ \/ UNCHANGED block
            \/ \E r \in Requests : CommitBlock(r)
            \/ \E b \in Blocks : TimePasses(b)
BY DEF Next, PatronStep, StandingStep, CodeStep, RegisterPatron, UpdatePatron, SetStatus,
       SetPatronBlock, ClearPatronBlock, ClearFlag, Create, CommitPatron, CommitBlock, CommitCode, Rollback, TimePasses

\* The columns of the one patron that a commit may change.
LEMMA FlushedColumns ==
  ASSUME TypeInv, NEW r \in Requests, CommitPatron(r) \/ CommitBlock(r)
  PROVE  LET p == request[r].on  seen == request[r].seen  new == request[r].new IN
         /\ p \in Patrons /\ \A q \in Patrons : q # p => patron'[q] = patron[q]
         /\ patron'[p].status = Column(patron[p].status, seen.status, new.status)
         /\ patron'[p].blocked = Column(patron[p].blocked, seen.blocked, new.blocked)
         /\ patron'[p].key = Column(patron[p].key, seen.key, new.key)
<1>1. request[r].at \in {"patron", "block"} /\ patron' = PatronFlushed(r)
  BY DEF CommitPatron, CommitBlock
<1>2. request[r].seen \in PatronRow /\ request[r].new \in PatronRow
  BY DEF TypeInv, RegistryTypeOK, Request
<1>3. request[r].on \in Patrons => patron[request[r].on] \in PatronRow
  BY DEF TypeInv, RegistryTypeOK
<1> QED BY <1>1, <1>2, <1>3, FlushedRow, FlushTyped

\* No session that loaded a patron before the suspension or the exit writes ACTIVE back.
THEOREM NoReactivationAlways == Spec => NoReactivation
<1> DEFINE Gone(p) == patron[p].status \in {"SUSPENDED", "EXITED"}
           Kept == \A p \in Patrons : Gone(p) => patron'[p].status # "ACTIVE"
<1>1. ASSUME TypeInv, Next PROVE Kept
  <2>1. CASE UNCHANGED patron
    BY <2>1
  <2>2. ASSUME NEW r \in Requests, CommitPatron(r) \/ CommitBlock(r) PROVE Kept
    <3> DEFINE p == request[r].on
    <3>1. /\ p \in Patrons /\ \A q \in Patrons : q # p => patron'[q] = patron[q]
          /\ patron'[p].status = Column(patron[p].status, request[r].seen.status, request[r].new.status)
      BY <1>1, <2>2, FlushedColumns
    <3>2. Sound(r) /\ request[r].at \in {"patron", "block"}
      BY <2>2, <1>1 DEF TypeInv, CommitPatron, CommitBlock
    <3>3. Gone(p) /\ request[r].new.status # request[r].seen.status => request[r].new.status # "ACTIVE"
      BY <3>2 DEF Sound, Registered
    <3>4. Gone(p) => patron'[p].status # "ACTIVE"
      BY <3>1, <3>3 DEF Column
    <3> QED BY <3>1, <3>4
  <2> QED BY <1>1, <2>1, <2>2, OnlyCommitsWrite
<1>2. TypeInv /\ [Next]_vars => [Kept]_vars
  BY <1>1
<1> QED BY <1>2, TypeInvInit, TypeInvStep, PTL DEF Spec, NoReactivation

-----------------------------------------------------------------------------
(* The flag of a blocked patron *)

Cleared(p) == \E b \in Blocks : block[b].patron = p /\ ~block[b].active

\* A session that sets a block will raise the flag, or has found it raised, and then it
\* is raised still unless some block of the patron has been cleared; a session that
\* leaves blocks alone leaves the flag alone.
Flagging(r) ==
  LET q == request[r] IN
  /\ q.at = "patron" => q.new.blocked = q.seen.blocked
  /\ q.at = "block" /\ q.row.active =>
       q.new.blocked /\ (q.seen.blocked => patron[q.on].blocked \/ Cleared(q.on))

FlagInv ==
  /\ \A p \in Patrons : ActiveBlocks(p) # {} => patron[p].blocked \/ Cleared(p)
  /\ \A r \in Requests : Flagging(r)

\* A session that reads leaves the flags and the blocks as they are.
LEMMA ReadsFlag ==
  ASSUME TypeInv, FlagInv, NEW r \in Requests, UNCHANGED <<patron, block, codes>>,
         \A x \in Requests : x # r => request'[x] = request[x], Flagging(r)'
  PROVE  FlagInv'
<1>1. \A x \in Requests : Flagging(x)'
  BY DEF FlagInv, Flagging, Cleared
<1> QED BY <1>1 DEF FlagInv, ActiveBlocks, Cleared

\* What a write may do to flags and blocks without breaking the invariant.
LEMMA WritesFlag ==
  ASSUME TypeInv, FlagInv, NEW r \in Requests,
         \A x \in Requests : x # r => request'[x] = request[x], request'[r].at = "idle",
         \A p \in Patrons : Cleared(p) => Cleared(p)',
         \A p \in Patrons : patron[p].blocked => patron'[p].blocked \/ Cleared(p)',
         \A p \in Patrons : ActiveBlocks(p)' # {} =>
            ActiveBlocks(p) # {} \/ patron'[p].blocked \/ Cleared(p)'
  PROVE  FlagInv'
<1>1. \A p \in Patrons : patron[p].blocked \/ Cleared(p) => patron'[p].blocked \/ Cleared(p)'
  OBVIOUS
<1>2. \A p \in Patrons : ActiveBlocks(p)' # {} => patron'[p].blocked \/ Cleared(p)'
  BY <1>1 DEF FlagInv
<1>3. ASSUME NEW x \in Requests PROVE Flagging(x)'
  <2>1. CASE x = r
    BY <2>1 DEF Flagging
  <2>2. CASE x # r
    <3>1. Flagging(x) /\ request'[x] = request[x]
      BY <2>2 DEF FlagInv
    <3>2. request[x].at = "block" => request[x].on \in Patrons
      BY DEF TypeInv, Sound
    <3> QED BY <1>1, <3>1, <3>2 DEF Flagging
  <2> QED BY <2>1, <2>2
<1> QED BY <1>2, <1>3 DEF FlagInv

LEMMA FlagReadStep ==
  ASSUME TypeInv, FlagInv, NEW r \in Requests,
         \/ \E p \in Patrons, v \in Values \cup {None} : RegisterPatron(r, p, v)
         \/ \E p \in Patrons, v \in Values : UpdatePatron(r, p, v)
         \/ \E p \in Patrons, status \in {"SUSPENDED", "EXITED"} : SetStatus(r, p, status)
         \/ \E b \in Blocks, p \in Patrons, window \in {"later", "now"} : SetPatronBlock(r, b, p, window)
         \/ \E b \in Blocks : ClearPatronBlock(r, b)
         \/ ClearFlag(r)
         \/ \E t \in Tables, i \in Rows, v \in Values : Create(r, t, i, v)
  PROVE  FlagInv'
<1> DEFINE Reads(new) ==
      /\ request' = [request EXCEPT ![r] = new] /\ UNCHANGED <<patron, block, codes>>
<1>1. ASSUME NEW new, Reads(new),
             new.at = "patron" => new.new.blocked = new.seen.blocked,
             new.at = "block" /\ new.row.active =>
               new.new.blocked /\ (new.seen.blocked => patron[new.on].blocked)
      PROVE  FlagInv'
  <2>1. request'[r] = new /\ \A x \in Requests : x # r => request'[x] = request[x]
    BY <1>1 DEF TypeInv, RegistryTypeOK
  <2>2. Flagging(r)'
    BY <1>1, <2>1 DEF Flagging
  <2> QED BY <1>1, <2>1, <2>2, ReadsFlag
<1>2. ASSUME NEW p \in Patrons, NEW v \in Values \cup {None}, RegisterPatron(r, p, v) PROVE FlagInv'
  <2> DEFINE new == [request[r] EXCEPT !.at = "patron", !.on = p, !.seen = patron[p],
                               !.new = [status |-> "ACTIVE", blocked |-> FALSE, key |-> v]]
  <2>1. Reads(new) /\ request[r] = NoRequest
    BY <1>2 DEF RegisterPatron, Changes, Idle
  <2>2. patron[p].blocked = FALSE
    BY <1>2 DEF RegisterPatron, TypeInv, AbsentPatrons, NoPatron
  <2>3. new.at = "patron" /\ new.new.blocked = new.seen.blocked
    BY <2>1, <2>2 DEF NoRequest
  <2> HIDE DEF new
  <2> QED BY <1>1, <2>1, <2>3
<1>3. ASSUME NEW p \in Patrons, NEW v \in Values, UpdatePatron(r, p, v) PROVE FlagInv'
  <2> DEFINE new == [request[r] EXCEPT !.at = "patron", !.on = p, !.seen = patron[p],
                               !.new = [patron[p] EXCEPT !.key = v]]
  <2>1. Reads(new) /\ request[r] = NoRequest
    BY <1>3 DEF UpdatePatron, Changes, Idle
  <2>2. patron[p] \in PatronRow
    BY DEF TypeInv, RegistryTypeOK
  <2>3. new.at = "patron" /\ new.new.blocked = new.seen.blocked
    BY <2>1, <2>2 DEF NoRequest, PatronRow
  <2> HIDE DEF new
  <2> QED BY <1>1, <2>1, <2>3
<1>4. ASSUME NEW p \in Patrons, NEW status \in {"SUSPENDED", "EXITED"}, SetStatus(r, p, status)
      PROVE  FlagInv'
  <2> DEFINE new == [request[r] EXCEPT !.at = "patron", !.on = p, !.seen = patron[p],
                               !.new = [patron[p] EXCEPT !.status = status]]
  <2>1. Reads(new) /\ request[r] = NoRequest
    BY <1>4 DEF SetStatus, Changes, Idle
  <2>2. patron[p] \in PatronRow
    BY DEF TypeInv, RegistryTypeOK
  <2>3. new.at = "patron" /\ new.new.blocked = new.seen.blocked
    BY <2>1, <2>2 DEF NoRequest, PatronRow
  <2> HIDE DEF new
  <2> QED BY <1>1, <2>1, <2>3
<1>5. ASSUME NEW b \in Blocks, NEW p \in Patrons, NEW window \in {"later", "now"},
             SetPatronBlock(r, b, p, window)
      PROVE  FlagInv'
  <2> DEFINE new == [request[r] EXCEPT
                       !.at = "block", !.on = p, !.seen = patron[p], !.new = FlagOfSet(p, window),
                       !.blockId = b, !.row = [patron |-> p, active |-> TRUE, window |-> window]]
  <2>1. Reads(new) /\ request[r] = NoRequest
    BY <1>5 DEF SetPatronBlock, Idle
  <2>2. patron[p] \in PatronRow
    BY DEF TypeInv, RegistryTypeOK
  <2>3. new.at = "block" /\ new.on = p /\ new.seen = patron[p] /\ new.new.blocked
    BY <2>1, <2>2 DEF NoRequest, PatronRow, FlagOfSet
  <2> HIDE DEF new
  <2> QED BY <1>1, <2>1, <2>3
<1>6. ASSUME NEW b \in Blocks, ClearPatronBlock(r, b) PROVE FlagInv'
  <2> DEFINE new == [request[r] EXCEPT
         !.at = IF ActiveBlocks(block[b].patron) \ {b} = {} THEN "clearing" ELSE "block",
         !.on = block[b].patron, !.blockId = b, !.row = [block[b] EXCEPT !.active = FALSE]]
  <2>1. Reads(new) /\ request[r] = NoRequest
    BY <1>6 DEF ClearPatronBlock, Idle
  <2>2. block[b] \in BlockRow
    BY DEF TypeInv, RegistryTypeOK
  <2>3. new.at # "patron" /\ ~new.row.active
    BY <2>1, <2>2 DEF NoRequest, BlockRow
  <2> HIDE DEF new
  <2> QED BY <1>1, <2>1, <2>3
<1>7. CASE ClearFlag(r)
  <2> DEFINE new == [request[r] EXCEPT !.at = "block", !.seen = patron[request[r].on],
                               !.new = [patron[request[r].on] EXCEPT !.blocked = FALSE]]
  <2>1. request[r] \in Request /\ request[r].at = "clearing" /\ Sound(r)
    BY <1>7 DEF ClearFlag, TypeInv, RegistryTypeOK
  <2>2. Reads(new)
    BY <1>7, <2>1 DEF ClearFlag, TypeInv, RegistryTypeOK, Request
  <2>3. new.at = "block" /\ ~new.row.active
    BY <2>1 DEF Request, Sound
  <2> HIDE DEF new
  <2> QED BY <1>1, <2>2, <2>3
<1>8. ASSUME NEW t \in Tables, NEW i \in Rows, NEW v \in Values, Create(r, t, i, v) PROVE FlagInv'
  <2> DEFINE new == [request[r] EXCEPT !.at = "code", !.slot = <<t, i>>, !.value = v]
  <2>1. Reads(new) /\ request[r] = NoRequest
    BY <1>8 DEF Create, Idle
  <2>2. new.at = "code"
    BY <2>1 DEF NoRequest
  <2> HIDE DEF new
  <2> QED BY <1>1, <2>1, <2>2
<1> QED BY <1>2, <1>3, <1>4, <1>5, <1>6, <1>7, <1>8

\* A commit clears a block, raises the flag, or finds both as the invariant has them.
LEMMA FlagCommitStep ==
  ASSUME TypeInv, FlagInv, NEW r \in Requests, CommitPatron(r) \/ CommitBlock(r)
  PROVE  FlagInv'
<1> DEFINE p == request[r].on
           c == request[r].blockId
<1>1. /\ p \in Patrons /\ \A q \in Patrons : q # p => patron'[q] = patron[q]
      /\ patron'[p].blocked = Column(patron[p].blocked, request[r].seen.blocked, request[r].new.blocked)
  BY FlushedColumns
<1>2. Ends(r)
  BY DEF CommitPatron, CommitBlock
<1>3. request'[r].at = "idle" /\ \A x \in Requests : x # r => request'[x] = request[x]
  BY <1>2, EndsIdle
<1>4. Sound(r) /\ Flagging(r)
  BY DEF TypeInv, FlagInv
<1>5. CASE CommitPatron(r)
  <2>1. patron'[p].blocked = patron[p].blocked /\ UNCHANGED block
    BY <1>1, <1>4, <1>5 DEF CommitPatron, Flagging, Column
  <2>2. \A q \in Patrons : patron'[q].blocked = patron[q].blocked
    BY <1>1, <2>1
  <2>3. /\ \A q \in Patrons : Cleared(q) => Cleared(q)'
        /\ \A q \in Patrons : ActiveBlocks(q)' # {} => ActiveBlocks(q) # {}
    BY <2>1 DEF Cleared, ActiveBlocks
  <2> QED BY <1>3, <2>2, <2>3, WritesFlag
<1>6. CASE CommitBlock(r)
  <2>1. /\ c \in Blocks /\ request[r].row \in BlockRow /\ request[r].row.patron = p
        /\ request[r].at = "block"
    BY <1>4, <1>6 DEF CommitBlock, Sound, TypeInv, RegistryTypeOK, Request
  <2>2. /\ block'[c].patron = p /\ block'[c].active = request[r].row.active
        /\ \A b \in Blocks : b # c => block'[b] = block[b]
    BY <1>6, <2>1 DEF CommitBlock, TypeInv, RegistryTypeOK, BlockRow
  <2>3. /\ \A q \in Patrons : q # p /\ Cleared(q) => Cleared(q)'
        /\ \A q \in Patrons : q # p /\ ActiveBlocks(q)' # {} => ActiveBlocks(q) # {}
    <3>1. block[c].patron = None \/ block[c].patron = p
      BY <1>4, <2>1 DEF Sound, NoBlock
    <3> QED BY <2>2, <3>1 DEF Cleared, ActiveBlocks
  <2>4. CASE ~request[r].row.active
    <3>1. \E b \in Blocks : block'[b].patron = p /\ ~block'[b].active
      BY <2>1, <2>2, <2>4
    <3>2. \A q \in Patrons : q = p => Cleared(q)'
      BY <3>1 DEF Cleared
    <3> QED BY <1>1, <1>3, <2>3, <3>2, WritesFlag
  <2>5. CASE request[r].row.active
    <3>1. block[c] = NoBlock
      BY <1>4, <2>1, <2>5 DEF Sound
    <3>2. \A q \in Patrons : Cleared(q) => Cleared(q)'
      BY <2>2, <2>3, <3>1 DEF Cleared, NoBlock
    <3>3. patron[p].blocked => patron'[p].blocked
      BY <1>1, <1>4, <2>1, <2>5 DEF Flagging, Column
    <3>4. \A q \in Patrons : q = p => patron'[q].blocked \/ Cleared(q)'
      BY <1>1, <1>4, <2>1, <2>5, <3>2 DEF Flagging, Column
    <3> QED BY <1>1, <1>3, <2>3, <3>2, <3>3, <3>4, WritesFlag
  <2> QED BY <2>4, <2>5
<1> QED BY <1>5, <1>6

LEMMA FlagStep ==
  ASSUME TypeInv, FlagInv, [Next]_vars
  PROVE  FlagInv'
<1>1. ASSUME NEW r \in Requests, PatronStep(r) \/ StandingStep(r) PROVE FlagInv'
  BY <1>1, FlagReadStep, FlagCommitStep DEF PatronStep, StandingStep
<1>2. ASSUME NEW r \in Requests, CodeStep(r) PROVE FlagInv'
  <2>1. ASSUME CommitCode(r) PROVE FlagInv'
    <3>1. UNCHANGED <<patron, block>> /\ Ends(r)
      BY <2>1 DEF CommitCode
    <3>2. request'[r].at = "idle" /\ \A x \in Requests : x # r => request'[x] = request[x]
      BY <3>1, EndsIdle
    <3> QED BY <3>1, <3>2, WritesFlag DEF Cleared, ActiveBlocks
  <2> QED BY <1>2, <2>1, FlagReadStep DEF CodeStep
<1>3. ASSUME NEW r \in Requests, Rollback(r) PROVE FlagInv'
  <2>1. UNCHANGED <<patron, block>> /\ Ends(r)
    BY <1>3 DEF Rollback
  <2>2. request'[r].at = "idle" /\ \A x \in Requests : x # r => request'[x] = request[x]
    BY <2>1, EndsIdle
  <2> QED BY <2>1, <2>2, WritesFlag DEF Cleared, ActiveBlocks
<1>4. ASSUME NEW b \in Blocks, TimePasses(b) PROVE FlagInv'
  <2>1. UNCHANGED <<patron, request>>
    BY <1>4 DEF TimePasses
  <2>2. \A d \in Blocks : block'[d].patron = block[d].patron /\ block'[d].active = block[d].active
    BY <1>4 DEF TimePasses, TypeInv, RegistryTypeOK, BlockRow
  <2> QED BY <2>1, <2>2 DEF FlagInv, Flagging, Cleared, ActiveBlocks
<1>5. CASE UNCHANGED vars
  BY <1>5 DEF vars, FlagInv, Flagging, Cleared, ActiveBlocks
<1> QED BY <1>1, <1>2, <1>3, <1>4, <1>5 DEF Next

\* A patron none of whose blocks has been cleared is flagged as soon as one of them is
\* active, however the sessions that set the blocks overlap.
THEOREM NeverClearedMeansBlockedAlways == Spec => []NeverClearedMeansBlocked
<1>1. Init => FlagInv
  BY DEF Init, FlagInv, Flagging, ActiveBlocks, NoBlock, NoRequest
<1>2. TypeInv /\ FlagInv => NeverClearedMeansBlocked
  BY DEF FlagInv, NeverClearedMeansBlocked, Cleared, ActiveBlocks
<1> QED BY <1>1, <1>2, TypeInvInit, TypeInvStep, FlagStep, PTL DEF Spec

=============================================================================
