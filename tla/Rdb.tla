-------------------------------- MODULE Rdb --------------------------------
(***************************************************************************)
(* The dump file: what the child of a bgsave writes (Server::rdbSave) and  *)
(* what rdbLoad makes of it (Database::rdbLoad), text abstracted to        *)
(* sections, blocks and entries.                                           *)
(*                                                                         *)
(*   file    = HEAD SD<i> block ... EOF  HEAD SD<i> ...   (appended to)    *)
(*   block   = ^<type> entry ...                                           *)
(*   entry   = ST<deadline> !<len>#<key> and the object, a string as       *)
(*             !<len>$<text>, any other as !<count> and its elements       *)
(*                                                                         *)
(* A dump is the sequence of its sections [db, blocks]; a block is         *)
(* [type, entries] and an entry [key, due, count, items], items the        *)
(* sequence in which the elements were written and count the number that   *)
(* was announced.  rdbLoad does not parse this grammar: it moves a cursor  *)
(* with find("SD"), find('^'), find("ST"), find('!'), and where the cursor *)
(* stands after an object decides what is read next.  That is kept: Read-  *)
(* Items, ReadFields and LoadEntry say for every object what is stored and *)
(* where the cursor is left.                                               *)
(*                                                                         *)
(* Keys and texts hold none of the marks the searches look for.            *)
(***************************************************************************)
EXTENDS Database

CONSTANTS
  IntMax,    \* the largest int, the type that atoi returns
  Cuts,      \* what may be cut out of the wrong bytes: any text
  ShiftEnds  \* whether pos2 << end, in the guard of rdbLoad's loop, may be 0

ASSUME IntMaxAssumption == IntMax \in Nat
\* A key and a text are strings in memory, of which there are finitely many.
ASSUME FinitelyMany == IsFiniteSet(Keys) /\ IsFiniteSet(Texts)
ASSUME CutsAssumption == Cuts \subseteq Texts
ASSUME ShiftEndsAssumption == ShiftEnds \in BOOLEAN

\* The order in which rdbSave writes the types.
TypeOrder == <<"string", "list", "hash", "set", "zset">>

\* The functions that pick an element of every set of a family of sets.
Picks(S) == {f \in [DOMAIN S -> UNION Range(S)] : \A x \in DOMAIN S : f[x] \in S[x]}

\* The numbers of a set in their order: a set of one sequence.
Ascending(S) == {s \in SetToSeqs(S) : \A i, j \in DOMAIN s : i < j => s[i] < s[j]}

-----------------------------------------------------------------------------
(* Saving.                                                                 *)

\* The rest of a zset, from the first member with a score above 0.
AboveZero(zset) ==
  SubSeq(zset, Cardinality({i \in DOMAIN zset : zset[i].score <= 0}) + 1, Len(zset))

\* The sequences in which the elements of an object may be written: a hash
\* table is walked in any order, a list and a zset in their own.  Of a zset, in
\* which members are in the order of their scores, those above DBL_MIN are.
Written(t, object) ==
  CASE t = "string" -> {<<object>>}
    [] t = "list"   -> {object}
    [] t = "hash"   -> {[i \in DOMAIN s |-> [field |-> s[i], value |-> object[s[i]]]] :
                          s \in SetToSeqs(DOMAIN object)}
    [] t = "set"    -> SetToSeqs(object)
    [] t = "zset"   -> LET positive == AboveZero(object)
                       IN {[i \in DOMAIN positive |->
                              [field |-> positive[i].obj, value |-> ScoreText(positive[i].score)]]}

\* The number of elements in front of them: of a zset, all it has.
Announced(t, object, items) == IF t = "zset" THEN Len(object) ELSE Len(items)

\* The keys of a dictionary.
StoredKeys(db, t) == {k \in Keys : Has(db, t, k)}

\* The block of the keys of order, and of what is written for each of them.
SavedBlock(db, t, order, items) ==
  [type |-> t,
   entries |-> [i \in DOMAIN order |-> [key   |-> order[i],
                                       due   |-> GetKeyExpiredTime(db, t, order[i]),
                                       count |-> Announced(t, db.dict[t][order[i]], items[order[i]]),
                                       items |-> items[order[i]]]]]

\* The block of one type, as a sequence of no block if its dictionary is empty.
\* Keys come in any order, and nothing asks whether they have expired.
SavedBlocks(db, t) ==
  LET keys == StoredKeys(db, t)
  IN IF keys = {} THEN {<<>>}
     ELSE {<<SavedBlock(db, t, order, items)>> :
             order \in SetToSeqs(keys),
             items \in Picks([k \in keys |-> Written(t, db.dict[t][k])])}

\* The section of database i.
SavedSections(db, i) ==
  {[db |-> i, blocks |-> FlattenSeq(b)] :
     b \in Picks([n \in DOMAIN TypeOrder |-> SavedBlocks(db, TypeOrder[n])])}

\* What the child writes, one element per out.write: the string it builds is
\* not emptied between databases, so each write repeats the sections before.
Saves(database) ==
  LET used == {i \in DOMAIN database : GetKeySize(database[i]) # 0}
      Sections(order) == Picks([n \in DOMAIN order |-> SavedSections(database[order[n]], order[n])])
  IN {[n \in DOMAIN sections |-> SubSeq(sections, 1, n)] :
        sections \in UNION {Sections(order) : order \in Ascending(used)}}

-----------------------------------------------------------------------------
(* Loading.                                                                *)

\* atoi keeps the low bits of a number that is too long for an int.
Atoi(n) == ((n + IntMax + 1) % (2 * IntMax + 2)) - IntMax - 1

\* Mutant of ReadString: the text is measured by the length of the key.
ReadStringByKey(items) == <<Blank>>

\* A string is read as it was written.
ReadString(items) == items

\* A list or set with several elements leaves the cursor short of the last: it
\* is read as empty.
ReadItems(items) ==
  IF Len(items) < 2 THEN items ELSE Append(Front(items), Blank)

\* In a hash the name of the last of several fields is measured by the value
\* before it: empty, cut from the wrong bytes, or, by chance, right.
ReadFields(items) ==
  IF Len(items) < 2 THEN {items}
  ELSE {[items EXCEPT ![Len(items)].field = name] : name \in Cuts \cup {Last(items).field}}

\* Mutant of RestoreDue: what was read is handed on unseen.
RestoreDueUnseen(db, t, k, due, now) == SetPexpireTime(db, t, k, Atoi(due), now)

\* setPexpireTime, called with what atoi makes of the deadline.
RestoreDue(db, t, k, due, now) ==
  LET expiredTime == Atoi(due)
  IN IF expiredTime > 0 /\ expiredTime > now
       THEN SetPexpireTime(db, t, k, expiredTime, now) ELSE db

\* One more element for the object under k, whichever of dbs there is: addKey.
AddPair(dbs, t, k, p) == UNION {AddKey(d, t, k, p.field, p.value) : d \in dbs}

\* Mutant of AddAll: the key is deleted before its elements are added.
AddAllAnew(db, t, k, pairs) ==
  LET after[n \in 0..Len(pairs)] ==
        IF n = 0 THEN {DelKey(db, t, k)} ELSE AddPair(after[n - 1], t, k, pairs[n])
  IN after[Len(pairs)]

\* Adding elements to the object under k, one addKey each.
AddAll(db, t, k, pairs) ==
  LET after[n \in 0..Len(pairs)] ==
        IF n = 0 THEN {db} ELSE AddPair(after[n - 1], t, k, pairs[n])
  IN after[Len(pairs)]

AsPairs(items) == [i \in DOMAIN items |-> [field |-> items[i], value |-> NoVal]]

\* The fields and values that may be put together from the wrong bytes.
Scraps == UNION {[F -> Cuts] : F \in SUBSET Cuts}

\* A hash, or none, with the fields of s put in.
Overlaid(object, s) ==
  IF DOMAIN s = {} THEN object
  ELSE [f \in DOMAIN s \cup (IF object = NoVal THEN {} ELSE DOMAIN object) |->
          IF f \in DOMAIN s THEN s[f] ELSE object[f]]

\* The members of a zset that were announced and not written are looked for
\* behind it, in whatever follows, and in further rounds of the loop, if they
\* leave the cursor in front of an "ST", under the keys found there: any hashes
\* may have got any scraps.
Strewn(db) ==
  {[dict |-> [db.dict EXCEPT !["hash"] = [k \in Keys |-> Overlaid(db.dict["hash"][k], s[k])]],
    due  |-> db.due] : s \in [Keys -> Scraps]}

\* One entry of a block of type t.  A block is read on only while the cursor
\* stands "after" an entry; it may also be left "inside" one, or, by a list
\* without elements, "beyond" it, in the first entry that follows.  A zset that
\* came "short" of its count sends it "astray", to where another entry may be
\* read as it should or not at all.  A zset is loaded into the hashes.
LoadEntry(r, t, e, now) ==
  LET target == IF t = "zset" THEN "hash" ELSE t
      many   == t \in {"list", "set"} /\ Len(e.items) > 1
      none   == Len(e.items) = 0
      short  == e.count > Len(e.items)
      cursor == IF short THEN "short" ELSE IF many THEN "inside"
                ELSE IF none THEN "beyond" ELSE "after"
      pairs  == IF short THEN {e.items}
                ELSE IF t \in {"hash", "zset"} THEN ReadFields(e.items)
                ELSE IF t = "string" THEN {AsPairs(ReadString(e.items))}
                ELSE {AsPairs(ReadItems(e.items))}
      added  == UNION {AddAll(r.db, target, e.key, p) : p \in pairs}
      left   == IF short THEN UNION {Strewn(d) : d \in added} ELSE added
      read   == {[db |-> RestoreDue(d, target, e.key, e.due, now), cursor |-> cursor] : d \in left}
  IN CASE r.cursor = "after"               -> read
       [] r.cursor \in {"inside", "beyond"} -> {[r EXCEPT !.cursor = "inside"]}
       [] r.cursor \in {"short", "astray"}  -> {[r EXCEPT !.cursor = "astray"]} \cup read

LoadEntries(rs, t, e, now) == UNION {LoadEntry(r, t, e, now) : r \in rs}

LoadBlock(db, block, now) ==
  LET after[n \in 0..Len(block.entries)] ==
        IF n = 0 THEN {[db |-> db, cursor |-> "after"]}
        ELSE LoadEntries(after[n - 1], block.type, block.entries[n], now)
  IN after[Len(block.entries)]

\* If pos2 << end, in the guard of the loop (where pos2 < end was meant), can be
\* 0, which depends on where things lie in the file, then the loop may end in
\* front of any block.
ShiftStops == IF ShiftEnds THEN {"done"} ELSE {}

\* Where a search that has gone astray may end.
Lost(past, last) == {"done", "abort"} \cup (IF past \/ last THEN {} ELSE {"astray"})

\* Mutant of GoesOn: the loop looks for another block behind the last.
GoesOnPastEnd(cursor, past, last) ==
  CASE cursor = "after"  -> IF past THEN {"done"} ELSE IF last THEN {"abort"} ELSE {"next"}
    [] cursor = "inside" -> IF past THEN {"done"}
                            ELSE IF last THEN {"abort"} \cup ShiftStops ELSE {"next"}
    [] cursor = "beyond" -> IF last THEN {"abort"} ELSE {"skip"}
    [] cursor = "short"  -> IF last THEN {"abort"} ELSE Lost(past, last)
    [] cursor = "astray" -> Lost(past, last)

\* Where a block leaves the loop, which goes on to read the "next" block, or to
\* "skip" it, and ends when the cursor has passed the section looked for.
\* Looking for a mark behind the last block of the file makes substr throw.
GoesOn(cursor, past, last) ==
  CASE cursor = "after"  -> IF past \/ last THEN {"done"} ELSE {"next"}
    [] cursor = "inside" -> IF past THEN {"done"}
                            ELSE IF last THEN {"abort"} \cup ShiftStops ELSE {"next"}
    [] cursor = "beyond" -> IF last THEN {"abort"} ELSE {"skip"}
    [] cursor = "short"  -> IF last THEN {"abort"} ELSE Lost(past, last)
    [] cursor = "astray" -> Lost(past, last)

\* One turn of the outer loop of rdbLoad, at a block.  After the last block of
\* the section it looked for, the cursor stands in front of its end, and the
\* first block of the next section is read too: past is TRUE of that block.
Turn(r, block, past, last, now) ==
  LET stop == {[r EXCEPT !.go = g] : g \in ShiftStops}
      read == UNION {{[db |-> l.db, go |-> g] : g \in GoesOn(l.cursor, past, last)} :
                       l \in LoadBlock(r.db, block, now)}
      leave(cursor) == {[r EXCEPT !.go = g] : g \in GoesOn(cursor, past, last)}
  IN CASE r.go = "next"   -> stop \cup read
       [] r.go = "skip"   -> leave("inside")
       [] r.go = "astray" -> leave("astray") \cup read
       [] OTHER           -> {r}

Turns(rs, dump, s, b, p, now) ==
  UNION {Turn(r, dump[s].blocks[b], s # p, s = Len(dump) /\ b = Len(dump[s].blocks), now) :
           r \in rs}

LoadSection(rs, dump, s, p, now) ==
  LET after[b \in 0..Len(dump[s].blocks)] ==
        IF b = 0 THEN rs ELSE Turns(after[b - 1], dump, s, b, p, now)
  IN after[Len(dump[s].blocks)]

\* rdbLoad(index) on database db: the databases it may leave, and whether it
\* ended or threw.  The first section of that index is looked for.  The end of
\* a section is the start of the next; behind the last one it is taken to be
\* the first EOF of the file, which lies before that section unless the file
\* has no other.
RdbLoad(dump, index, db, now) ==
  LET mine == {s \in DOMAIN dump : dump[s].db = index}
      p    == Min(mine)
      after[s \in p - 1..Len(dump)] ==
        IF s = p - 1 THEN {[db |-> db, go |-> "next"]}
        ELSE LoadSection(after[s - 1], dump, s, p, now)
  IN IF mine = {} \/ (p = Len(dump) /\ p > 1)
       THEN {[db |-> db, go |-> "done"]}
       ELSE after[Len(dump)]
=============================================================================
