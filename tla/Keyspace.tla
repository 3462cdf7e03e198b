------------------------------ MODULE Keyspace ------------------------------
(***************************************************************************)
(* The command handlers of server/db/Server.cc on the selected database.   *)
(* The server is one thread, so a handler runs to its end before the next  *)
(* one starts; what moves under it is the clock.  A handler that reads the *)
(* clock once, or not at all, is one action.  getCommand reads it twice,   *)
(* in judgeKeyExpiredTime and again inside getKey, and is two actions with *)
(* any number of ticks between them.                                       *)
(*                                                                         *)
(* Saving, loading and switching databases are in Persistence.             *)
(***************************************************************************)
EXTENDS Database

CONSTANTS
  Ttls,        \* milliseconds a client may give to pexpire, negative ones too
  MaxTime,     \* bound on the clock
  MaxItems,    \* bound on what the five dictionaries hold together
  NoKey        \* no get is between its two clock readings

ASSUME TtlsAssumption == Ttls \subseteq Int
ASSUME MaxTimeAssumption == MaxTime \in Nat
ASSUME NoKeyAssumption == NoKey \notin Keys

VARIABLES
  up,       \* FALSE once the process has died
  now,      \* gettimeofday, in ticks
  db,       \* database[dbIndex]
  pending,  \* the key of the get that has judged its key and not fetched it
  reply     \* the last answer: command, kind, what it carries (of a get: for which key)

vars == <<up, now, db, pending, reply>>

Kinds == {"none", "ok", "error", "notfound", "value", "gone"}

TypeOK ==
  /\ up \in BOOLEAN
  /\ now \in 0..MaxTime
  /\ IsDatabase(db)
  /\ pending \in Keys \cup {NoKey}
  /\ reply = <<reply[1], reply[2], reply[3]>>
  /\ reply[2] \in Kinds
  /\ reply[1] = "get" => reply[3] \in [key : Keys, value : {NoVal} \cup Texts]

Init ==
  /\ up = TRUE
  /\ now = 0
  /\ db = EmptyDb
  /\ pending = NoKey
  /\ reply = <<"none", "none", NoVal>>

Idle == up /\ pending = NoKey

Answer(cmd, kind, body) == reply' = <<cmd, kind, body>>

AnswerGet(k, kind, v) == Answer("get", kind, [key |-> k, value |-> v])

\* The bound on growth, in every command that may add to the dictionaries.
Room == Size(db) < MaxItems

-----------------------------------------------------------------------------
\* Mutant of SetCommand: an expired key is set without being deleted first.
SetCommandUnjudged(k, v) ==
  /\ Idle
  /\ Room
  /\ db' \in AddKey(db, "string", k, v, NoVal)
  /\ Answer("set", "ok", NoVal)
  /\ UNCHANGED <<up, now, pending>>

\* A key past its deadline is deleted first, and its deadline with it; a key
\* that is alive keeps its deadline under the new value.
SetCommand(k, v) ==
  /\ Idle
  /\ Room
  /\ db' \in AddKey(IF JudgeKeyExpiredTime(db, "string", k, now)
                       THEN DelKey(db, "string", k) ELSE db,
                    "string", k, v, NoVal)
  /\ Answer("set", "ok", NoVal)
  /\ UNCHANGED <<up, now, pending>>

\* getCommand up to its call of getKey.
GetJudge(k) ==
  /\ Idle
  /\ IF JudgeKeyExpiredTime(db, "string", k, now)
       THEN /\ db' = DelKey(db, "string", k)
            /\ AnswerGet(k, "error", NoVal)
            /\ UNCHANGED pending
       ELSE /\ pending' = k
            /\ UNCHANGED <<db, reply>>
  /\ UNCHANGED <<up, now>>

\* getKey, and the end of getCommand.
GetFetch ==
  /\ up
  /\ pending # NoKey
  /\ pending' = NoKey
  /\ db' = GetKey(db, "string", pending, now)
  /\ IF JudgeKeyExpiredTime(db, "string", pending, now)
       THEN AnswerGet(pending, "gone", NoVal)
       ELSE AnswerGet(pending, IF Has(db, "string", pending) THEN "value" ELSE "notfound",
                      db.dict["string"][pending])
  /\ UNCHANGED <<up, now>>

PexpireCommand(k, ms) ==
  /\ Idle
  /\ db' = SetPexpireTime(db, "string", k, ms, now)
  /\ Answer("pexpire", IF Has(db, "string", k) THEN "ok" ELSE "error", NoVal)
  /\ UNCHANGED <<up, now, pending>>

RpushCommand(k, v) ==
  /\ Idle
  /\ Room
  /\ db' \in AddKey(db, "list", k, v, NoVal)
  /\ Answer("rpush", "ok", NoVal)
  /\ UNCHANGED <<up, now, pending>>

\* The element is removed before it is looked at: a blank one is answered as
\* an error.  A list that is not there is answered as if it held the message.
RpopCommand(k) ==
  /\ Idle
  /\ IF ~Has(db, "list", k)
       THEN Answer("rpop", "notfound", NoVal) /\ UNCHANGED db
       ELSE /\ db.dict["list"][k] # <<>>
            /\ db' = RpopList(db, k)
            /\ LET popped == Last(db.dict["list"][k])
               IN Answer("rpop", IF popped = Blank THEN "error" ELSE "value", popped)
  /\ UNCHANGED <<up, now, pending>>

\* rpop of a list whose last element is gone: back() and pop_back() on an
\* empty std::list, which takes the process down.
RpopEmpty(k) ==
  /\ Idle
  /\ Has(db, "list", k)
  /\ db.dict["list"][k] = <<>>
  /\ up' = FALSE
  /\ UNCHANGED <<now, db, pending, reply>>

HsetCommand(k, f, v) ==
  /\ Idle
  /\ Room
  /\ db' \in AddKey(db, "hash", k, f, v)
  /\ Answer("hset", "ok", NoVal)
  /\ UNCHANGED <<up, now, pending>>

HgetCommand(k, f) ==
  /\ Idle
  /\ IF Has(db, "hash", k) /\ f \in DOMAIN db.dict["hash"][k]
       THEN Answer("hget", "value", db.dict["hash"][k][f])
       ELSE Answer("hget", "notfound", NoVal)
  /\ UNCHANGED <<up, now, db, pending>>

\* hgetall and smembers: getKey on a hash, on a set.
GetAll(cmd, t, k) ==
  /\ Idle
  /\ db' = GetKey(db, t, k, now)
  /\ IF JudgeKeyExpiredTime(db, t, k, now)
       THEN Answer(cmd, "gone", NoVal)
       ELSE Answer(cmd, IF Has(db, t, k) THEN "value" ELSE "notfound", db.dict[t][k])
  /\ UNCHANGED <<up, now, pending>>

HgetallCommand(k) == GetAll("hgetall", "hash", k)

SmembersCommand(k) == GetAll("smembers", "set", k)

SaddCommand(k, v) ==
  /\ Idle
  /\ Room
  /\ db' \in AddKey(db, "set", k, v, NoVal)
  /\ Answer("sadd", "ok", NoVal)
  /\ UNCHANGED <<up, now, pending>>

ZaddCommand(k, m, s) ==
  /\ Idle
  /\ Room
  /\ db' \in AddKey(db, "zset", k, m, s)
  /\ Answer("zadd", "ok", NoVal)
  /\ UNCHANGED <<up, now, pending>>

ZcardCommand(k) ==
  /\ Idle
  /\ IF Has(db, "zset", k)
       THEN Answer("zcard", "value", Len(db.dict["zset"][k]))
       ELSE Answer("zcard", "notfound", NoVal)
  /\ UNCHANGED <<up, now, db, pending>>

\* The clock moves whatever the server is doing.
Tick ==
  /\ up
  /\ now < MaxTime
  /\ now' = now + 1
  /\ UNCHANGED <<up, db, pending, reply>>

Next ==
  \/ \E k \in Keys, v \in Texts : SetCommand(k, v)
  \/ \E k \in Keys : GetJudge(k)
  \/ GetFetch
  \/ \E k \in Keys, ms \in Ttls : PexpireCommand(k, ms)
  \/ \E k \in Keys, v \in Texts : RpushCommand(k, v)
  \/ \E k \in Keys : RpopCommand(k)
  \/ \E k \in Keys : RpopEmpty(k)
  \/ \E k \in Keys, f \in Texts, v \in Texts : HsetCommand(k, f, v)
  \/ \E k \in Keys, f \in Texts : HgetCommand(k, f)
  \/ \E k \in Keys : HgetallCommand(k)
  \/ \E k \in Keys, v \in Texts : SaddCommand(k, v)
  \/ \E k \in Keys : SmembersCommand(k)
  \/ \E k \in Keys, m \in Texts, s \in Scores : ZaddCommand(k, m, s)
  \/ \E k \in Keys : ZcardCommand(k)
  \/ Tick

Spec == Init /\ [][Next]_vars

-----------------------------------------------------------------------------
(* Safety.                                                                 *)

\* No deadline outlives its key, so a key that is created again never dies at
\* the deadline of an earlier one (delKey, Database.cc:134-213).
ExpireHasKey == DeadlinesHaveKeys(db)

\* Only strings ever have a deadline: pexpire reaches no other dictionary, so
\* the judging in getKey never deletes a hash or a set that is being listed.
OnlyStringsExpire ==
  \A t \in Types \ {"string"}, k \in Keys : db.due[t][k] = NoDeadline

\* Wherever the ties between equal scores put a member, a zset stays sorted by
\* score (Skiplist::insertNode).
ZsetOrdered == ZsetsSorted(db)

\* No object disappears, except a string whose deadline has passed: not by a
\* pop that empties a list, nor by a command on another key or another type.
OnlyExpiredVanish ==
  [][\A t \in Types, k \in Keys :
        Has(db, t, k) /\ ~Has(db', t, k)
          => t = "string" /\ JudgeKeyExpiredTime(db, t, k, now)]_vars

\* Lazy deletion: a key that has expired is gone for good, and only a set
\* makes a key of that name again.  What README.md:19 says of eviction; the
\* code's pexpire does not ask whether the key has expired.
ExpiredStaysGone ==
  [][\A k \in Keys :
        (/\ Has(db, "string", k)
         /\ JudgeKeyExpiredTime(db, "string", k, now)
         /\ reply'[1] # "set")
        => ~Has(db', "string", k) \/ JudgeKeyExpiredTime(db', "string", k, now')]_vars

-----------------------------------------------------------------------------
(* Refinement.  To a client of the string commands, lazy deletion is the   *)
(* eager expiry of TtlStore.                                               *)

Expired(k) == JudgeKeyExpiredTime(db, "string", k, now)

Ttl == INSTANCE TtlStore WITH
         live   <- [k \in Keys |-> IF Expired(k) THEN NoVal ELSE db.dict["string"][k]],
         lapsed <- [k \in Keys |-> IF Expired(k) THEN db.dict["string"][k] ELSE NoVal],
         due    <- db.due["string"],
         answer <- IF reply[1] = "get" THEN reply[3] ELSE NoVal

\* Every set, get and pexpire does what TtlStore promises, in spite of the
\* lazy deletion and of the clock moving between the two readings of a get.
RefinesTtlStore == Ttl!Spec
=============================================================================
