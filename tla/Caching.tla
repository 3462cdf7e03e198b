------------------------------ MODULE Caching ------------------------------
(***************************************************************************)
(* One dictionary of a database and the LRU cache beside it: addKey feeds  *)
(* the cache with a copy of what it stores, which it builds by itself, or  *)
(* for a zset with the pointer to it (Database.cc:13-122), and no other    *)
(* function knows of it.  The five pairs do not touch each other, so a     *)
(* behaviour has one of them, of the type it begins with.                  *)
(***************************************************************************)
EXTENDS LRUCache, SequencesExt

CONSTANTS
  Kinds,                         \* the types a behaviour may be about
  Texts, Scores, Blank, NoVal    \* of Database

D == INSTANCE Database

ASSUME KindsAssumption == Kinds \subseteq D!Types

VARIABLES type, db

InitWithDatabase == type \in Kinds /\ db = D!EmptyDb /\ Init

Stored(k) == D!Has(db, type, k)

\* The second part of an element: a value for a hash, which a load may put
\* there as a score printed, and a score for a zset.
Seconds == CASE type = "hash" -> D!HashTexts [] type = "zset" -> Scores [] OTHER -> {NoVal}

\* The hash tmp: the fields that are there, copied one by one, and objKey on top.
copied(k, objKey, objValue) ==
  LET old == IF Stored(k) THEN db.dict["hash"][k] ELSE <<>>
  IN [f \in DOMAIN old \cup {objKey} |-> IF f = objKey THEN objValue ELSE old[f]]

\* Mutant of cached: a list is copied before the new element is put in.
cachedEarly(k, objKey, objValue) ==
  IF type = "list" /\ Stored(k) THEN db.dict["list"][k] ELSE db'.dict[type][k]

\* What addKey gives the cache: a copy built beside the object, but for a zset
\* the pointer that is in the dictionary.
cached(k, objKey, objValue) ==
  CASE type = "string" -> objKey
    [] type = "list"   -> (IF Stored(k) THEN db.dict["list"][k] ELSE <<>>) \o <<objKey>>
    [] type = "hash"   -> copied(k, objKey, objValue)
    [] type = "set"    -> {objKey} \cup (IF Stored(k) THEN db.dict["set"][k] ELSE {})
    [] type = "zset"   -> db'.dict["zset"][k]

\* Values bounds the objects.
addKey(k, objKey, objValue) ==
  /\ db' \in D!AddKey(db, type, k, objKey, objValue)
  /\ cached(k, objKey, objValue) \in Values
  /\ set(k, cached(k, objKey, objValue))

\* Only strings expire, and so only they are ever deleted.
delKey(k) ==
  /\ type = "string" /\ Stored(k)
  /\ db' = D!DelKey(db, type, k)
  /\ UNCHANGED vars

rpop(k) ==
  /\ type = "list" /\ Stored(k) /\ db.dict[type][k] # <<>>
  /\ db' = D!RpopList(db, k)
  /\ UNCHANGED vars

\* Nobody calls get yet.
NextWithDatabase ==
  /\ UNCHANGED type
  /\ \/ \E k \in Keys, objKey \in Texts, objValue \in Seconds : addKey(k, objKey, objValue)
     \/ \E k \in Keys : delKey(k) \/ rpop(k)
     \/ \E k \in Keys : get(k) /\ UNCHANGED db

SpecWithDatabase == InitWithDatabase /\ [][NextWithDatabase]_<<vars, type, db>>

-----------------------------------------------------------------------------
\* A cached copy never falls behind the dictionary, though each is changed by
\* itself: whatever fields were overwritten, and whatever keys were dropped from
\* the cache, deleted, and added again, the copy of a key that is in the
\* dictionary is the present object, except that a list may since have been
\* popped (Database.cc:13-122).
CopiesKeepUp ==
  \A k \in Keys :
    Stored(k) /\ cache[k] # Null =>
      LET copy == entry[cache[k]].value
      IN IF type = "list" THEN IsPrefix(db.dict[type][k], copy) ELSE copy = db.dict[type][k]
=============================================================================
