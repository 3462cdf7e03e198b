------------------------------ MODULE Database ------------------------------
(***************************************************************************)
(* One database of the Sidis server (server/db/Database.{h,cc}): five      *)
(* dictionaries, one per object type, and beside each of them a dictionary *)
(* of deadlines.  The module holds no state of its own: a database is a    *)
(* record, and every member function is an operator from a database to the *)
(* database, or the databases, it may leave behind.  Keyspace and          *)
(* Persistence put such records in variables.                              *)
(*                                                                         *)
(* The dictionaries are total functions: an absent key maps to NoVal, an   *)
(* absent deadline to NoDeadline, the -1 getKeyExpiredTime returns for it. *)
(* The five LRU caches that addKey also feeds are written and never read   *)
(* by any of these functions; they are left out here.                      *)
(***************************************************************************)
EXTENDS Integers, Sequences, FiniteSets, SequencesExt

CONSTANTS
  Keys,       \* keys of the dictionaries
  Texts,      \* string values, list and set elements, hash fields, members
  Blank,      \* the empty text: what a missing argument of a command reads as
  Scores,     \* scores of sorted sets
  NoVal       \* what a dictionary holds for an absent key

Types == {"string", "list", "hash", "set", "zset"}

NoDeadline == -1

\* A zset entry is loaded from a dump into a hash, its score printed as text.
ScoreText(s) == <<"score", s>>

HashTexts == Texts \cup {ScoreText(s) : s \in Scores}

Members == [obj : Texts, score : Scores]

\* The values a dictionary of type t holds.
Objects(t) ==
  CASE t = "string" -> Texts
    [] t = "list"   -> Seq(Texts)
    [] t = "hash"   -> UNION {[F -> HashTexts] : F \in SUBSET Texts}
    [] t = "set"    -> SUBSET Texts
    [] t = "zset"   -> Seq(Members)

ASSUME BlankAssumption == Blank \in Texts
ASSUME ScoresAssumption == Scores \subseteq Int
ASSUME NoValAssumption ==
  /\ \A t \in Types \ {"set"} : NoVal \notin Objects(t)
  /\ \A S \in Objects("set") : NoVal # S

IsDatabase(db) ==
  /\ db.dict = [t \in Types |-> db.dict[t]]
  /\ \A t \in Types :
       /\ db.dict[t] = [k \in Keys |-> db.dict[t][k]]
       /\ \A k \in Keys : db.dict[t][k] \in {NoVal} \cup Objects(t)
  /\ db.due \in [Types -> [Keys -> Int]]

EmptyDb == [dict |-> [t \in Types |-> [k \in Keys |-> NoVal]],
            due  |-> [t \in Types |-> [k \in Keys |-> NoDeadline]]]

Has(db, t, k) == db.dict[t][k] # NoVal

Put(db, t, k, object) ==
  [dict |-> [db.dict EXCEPT ![t][k] = object], due |-> db.due]

PutDue(db, t, k, deadline) ==
  [dict |-> db.dict, due |-> [db.due EXCEPT ![t][k] = deadline]]

-----------------------------------------------------------------------------
(* Writing.  The order of a zset is that of its skip list's bottom level:  *)
(* insertNode passes smaller scores, and equal scores of other members; it *)
(* stops in front of a node with the very same member and score, unless a  *)
(* higher level has carried it past that node.                             *)

\* Mutant of InsertPositions: a node is always put at the end.
InsertPositionsLast(z, obj, score) == {Len(z) + 1}

InsertPositions(z, obj, score) ==
  {p \in 1..Len(z) + 1 :
     /\ \A i \in 1..Len(z) : IF i < p THEN z[i].score <= score ELSE z[i].score >= score
     /\ IF p <= Len(z) /\ z[p].score = score
          THEN z[p].obj = obj
          ELSE p = 1 \/ z[p - 1] # [obj |-> obj, score |-> score]}

\* The objects that adding (objKey, objValue) to an object of type t, or to
\* none, can give.  Only a zset leaves a choice.
Grown(t, object, objKey, objValue) ==
  LET fresh == object = NoVal
  IN CASE t = "string" -> {objKey}
       [] t = "list"   -> {Append(IF fresh THEN <<>> ELSE object, objKey)}
       [] t = "hash"   -> {[f \in {objKey} \cup (IF fresh THEN {} ELSE DOMAIN object) |->
                              IF f = objKey THEN objValue ELSE object[f]]}
       [] t = "set"    -> {{objKey} \cup (IF fresh THEN {} ELSE object)}
       [] t = "zset"   -> LET z == IF fresh THEN <<>> ELSE object
                          IN {InsertAt(z, p, [obj |-> objKey, score |-> objValue]) :
                                p \in InsertPositions(z, objKey, objValue)}

\* Mutant of AddKey: the two parts of an element change places.
AddKeySwapped(db, t, k, objKey, objValue) ==
  {Put(db, t, k, o) : o \in Grown(t, db.dict[t][k], objValue, objKey)}

\* Neither the old deadline of the key nor any other key is touched.
AddKey(db, t, k, objKey, objValue) ==
  {Put(db, t, k, o) : o \in Grown(t, db.dict[t][k], objKey, objValue)}

\* Mutant of DelKey: the deadline stays.
DelKeyOnly(db, t, k) == IF Has(db, t, k) THEN Put(db, t, k, NoVal) ELSE db

\* Mutant of DelKey: every object of that name goes, whatever its type.
DelKeyOfAllTypes(db, t, k) ==
  IF Has(db, t, k)
    THEN PutDue([dict |-> [u \in Types |-> [db.dict[u] EXCEPT ![k] = NoVal]], due |-> db.due],
                t, k, NoDeadline)
    ELSE db

DelKey(db, t, k) ==
  IF Has(db, t, k)
    THEN PutDue(Put(db, t, k, NoVal), t, k, NoDeadline)
    ELSE db

\* list::pop_back, on a list that has an element; the emptied list stays.
RpopList(db, k) == Put(db, "list", k, Front(db.dict["list"][k]))

-----------------------------------------------------------------------------
(* Deadlines.                                                              *)

GetKeyExpiredTime(db, t, k) == db.due[t][k]

\* Any negative deadline counts as none.
JudgeKeyExpiredTime(db, t, k, now) ==
  LET expired == GetKeyExpiredTime(db, t, k)
  IN ~(expired < 0) /\ now > expired

\* Mutant of SetPexpireTime: whatever has that name gets the deadline.
SetPexpireTimeOfAll(db, t, k, ms, now) ==
  [dict |-> db.dict,
   due  |-> [u \in Types |-> IF Has(db, u, k) THEN [db.due[u] EXCEPT ![k] = ms + now]
                             ELSE db.due[u]]]

\* The key must be in the dictionary; whether it has expired is not asked.
SetPexpireTime(db, t, k, ms, now) ==
  IF Has(db, t, k) THEN PutDue(db, t, k, ms + now) ELSE db

-----------------------------------------------------------------------------
(* getKey judges the deadline, with a clock reading of its own, before it  *)
(* looks the key up.                                                       *)

GetKey(db, t, k, now) ==
  IF JudgeKeyExpiredTime(db, t, k, now) THEN DelKey(db, t, k) ELSE db

GetKeySize(db) == Cardinality({o \in Types \X Keys : Has(db, o[1], o[2])})

\* What the bounds of the models count: an object is one item, and each of its
\* elements one more.
Items(t, object) ==
  CASE t = "string"           -> 1
    [] t \in {"list", "zset"} -> 1 + Len(object)
    [] t = "hash"             -> 1 + Cardinality(DOMAIN object)
    [] t = "set"              -> 1 + Cardinality(object)

Size(db) ==
  MapThenSumSet(LAMBDA o : Items(o[1], db.dict[o[1]][o[2]]),
                {o \in Types \X Keys : Has(db, o[1], o[2])})

-----------------------------------------------------------------------------
(* What every database the program reaches satisfies.                      *)

\* A deadline belongs to a key that is in the dictionary: had delKey left one
\* behind, the next key of that name would die at a stranger's deadline.
DeadlinesHaveKeys(db) ==
  \A t \in Types, k \in Keys : ~Has(db, t, k) => db.due[t][k] = NoDeadline

\* A zset is sorted by score.
Sorted(z) == \A i, j \in 1..Len(z) : i < j => z[i].score <= z[j].score

ZsetsSorted(db) == \A k \in Keys : Has(db, "zset", k) => Sorted(db.dict["zset"][k])
=============================================================================
