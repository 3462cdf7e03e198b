---------------------------- MODULE Persistence ----------------------------
(***************************************************************************)
(* The whole server around its 16 databases (server/db/Server.{h,cc}):     *)
(* the selected database, bgsave and the children it forks, the dump file  *)
(* they append to, the loads that select and a restart make from it, and   *)
(* the death and restart of the process.  What a command does to one       *)
(* database is Database's; what a dump holds and how it is read is Rdb's.  *)
(*                                                                         *)
(* The dump and the children outlive the server process.  A child is the   *)
(* sequence of writes it has still to make.  Writes of a KiB or more go to *)
(* the file at once, together with the shorter ones before them, and the   *)
(* rest when the file is closed: any number of whole writes reaches the    *)
(* file in one step.                                                       *)
(*                                                                         *)
(* A get that reads the clock twice is in Keyspace; here it is one step.   *)
(* An rpop of a list that is empty kills the process and is a Crash.       *)
(* Commands that change nothing are steps that stutter, and are left out:  *)
(* hget, zcard, a bgsave that comes too soon and is refused, and hgetall   *)
(* and smembers, because only a string has a deadline (DeadlinesWereGiven).*)
(***************************************************************************)
EXTENDS Rdb

CONSTANTS
  DBNUM,        \* number of databases
  Interval,     \* the time that must pass between saves, rdbDefaultTime
  ClockStart,   \* the clock when the first server starts: far from 0
  Args,         \* the texts clients send
  Ttls,         \* the milliseconds they send to pexpire
  Writable,     \* the types of object they write
  MaxTime, MaxItems, MaxChildren, MaxSaves, MaxSelects, MaxCrashes   \* bounds

ASSUME DBNUMAssumption == DBNUM \in Nat \ {0}
ASSUME ArgsAssumption == Args \subseteq Texts
ASSUME TtlsAssumption == Ttls \subseteq Int
\* The time of day in milliseconds has not fitted an int since 1970.
ASSUME ClockAssumption == ClockStart \in Nat /\ ClockStart > IntMax
ASSUME MaxTimeAssumption == MaxTime \in Nat /\ MaxTime >= ClockStart

VARIABLES
  up,         \* the server process is alive
  now,        \* gettimeofday
  dbIndex,
  database,
  lastsave,
  dump,       \* dump.rdb, a sequence of sections
  children,   \* children of bgsave that have not exited
  said,       \* history: what clients have set, a set of <<key, value>>
  given,      \* history: the deadlines clients gave, a set of <<key, time>>
  budget      \* saves, selects and crashes left

vars == <<up, now, dbIndex, database, lastsave, dump, children, said, given, budget>>

Indices == 0..DBNUM - 1

TypeOK ==
  /\ up \in BOOLEAN
  /\ now \in ClockStart..MaxTime
  /\ dbIndex \in -1..DBNUM
  /\ DOMAIN database = Indices
  /\ \A i \in Indices : IsDatabase(database[i])
  /\ lastsave \in {0} \cup ClockStart..MaxTime
  /\ \A s \in Range(dump) : s.db \in Indices /\ s.blocks # <<>>
  /\ \A c \in Range(children) : c # <<>> /\ \A s \in Range(FlattenSeq(c)) : s.db \in Indices
  /\ said \subseteq Keys \X Args
  /\ given \subseteq Keys \X Int

Init ==
  /\ up = TRUE
  /\ dbIndex = 0
  /\ lastsave = 0
  /\ given = {}
  /\ now = ClockStart
  /\ database = [i \in Indices |-> EmptyDb]
  /\ dump = <<>>
  /\ children = <<>>
  /\ said = {}
  /\ budget = [saves |-> MaxSaves, selects |-> MaxSelects, crashes |-> MaxCrashes]

Spend(what) ==
  /\ budget[what] > 0
  /\ budget' = [budget EXCEPT ![what] = @ - 1]

selected == database[dbIndex]

\* A command on the selected database, which leaves it as one of dbs.
Serve(dbs) ==
  /\ up
  /\ dbIndex \in Indices
  /\ \E d \in dbs : database' = [database EXCEPT ![dbIndex] = d]
  /\ UNCHANGED <<up, now, dbIndex, lastsave, dump, children, budget>>

\* The bounds on growth, for a command that writes an object of type t.
Room(t) ==
  /\ dbIndex \in Indices
  /\ t \in Writable
  /\ MapThenSumSet(LAMBDA i : Size(database[i]), Indices) < MaxItems

-----------------------------------------------------------------------------
SetCommand(k, v) ==
  /\ Room("string")
  /\ Serve(AddKey(GetKey(selected, "string", k, now), "string", k, v, NoVal))
  /\ said' = said \cup {<<k, v>>}
  /\ UNCHANGED given

GetCommand(k) ==
  /\ dbIndex \in Indices
  /\ Serve({GetKey(selected, "string", k, now)})
  /\ UNCHANGED <<said, given>>

PexpireCommand(k, ms) ==
  /\ dbIndex \in Indices
  /\ Serve({SetPexpireTime(selected, "string", k, ms, now)})
  /\ given' = given \cup (IF Has(selected, "string", k) THEN {<<k, ms + now>>} ELSE {})
  /\ UNCHANGED said

RpushCommand(k, v) ==
  /\ Room("list")
  /\ Serve(AddKey(selected, "list", k, v, NoVal))
  /\ UNCHANGED <<said, given>>

RpopCommand(k) ==
  /\ dbIndex \in Indices
  /\ Has(selected, "list", k)
  /\ selected.dict["list"][k] # <<>>
  /\ Serve({RpopList(selected, k)})
  /\ UNCHANGED <<said, given>>

HsetCommand(k, f, v) ==
  /\ Room("hash")
  /\ Serve(AddKey(selected, "hash", k, f, v))
  /\ UNCHANGED <<said, given>>

SaddCommand(k, v) ==
  /\ Room("set")
  /\ Serve(AddKey(selected, "set", k, v, NoVal))
  /\ UNCHANGED <<said, given>>

ZaddCommand(k, m, s) ==
  /\ Room("zset")
  /\ Serve(AddKey(selected, "zset", k, m, s))
  /\ UNCHANGED <<said, given>>

-----------------------------------------------------------------------------
(* Saving.                                                                 *)

\* The child has a copy of the databases as they are now.  If fork fails the
\* client is told OK all the same, and the next save is put off all the same.
BgsaveCommand ==
  /\ up
  /\ now - lastsave > Interval
  /\ Len(children) < MaxChildren
  /\ Spend("saves")
  /\ \/ \E chunks \in Saves(database) : children' = children \o (IF chunks = <<>> THEN <<>> ELSE <<chunks>>)
     \/ UNCHANGED children
  /\ lastsave' = now
  /\ UNCHANGED <<up, now, dbIndex, database, dump, said, given>>

\* Child c gets its next n writes into the file; after the last it exits.
ChildWrite(c, n) ==
  /\ dump' = dump \o FlattenSeq(SubSeq(children[c], 1, n))
  /\ children' = IF n = Len(children[c]) THEN RemoveAt(children, c)
                 ELSE [children EXCEPT ![c] = SubSeq(@, n + 1, Len(@))]
  /\ UNCHANGED <<up, now, dbIndex, database, lastsave, said, given, budget>>

\* Child c is killed; what it had not got into the file is lost.
ChildDies(c) ==
  /\ Spend("crashes")
  /\ children' = RemoveAt(children, c)
  /\ UNCHANGED <<up, now, dbIndex, database, lastsave, dump, said, given>>

-----------------------------------------------------------------------------
(* Loading.                                                                *)

\* The process is gone, and its memory with it.  The children are not.
Die ==
  /\ up' = FALSE
  /\ dbIndex' = 0
  /\ lastsave' = 0
  /\ database' = [i \in Indices |-> EmptyDb]
  /\ UNCHANGED <<now, dump, children, said, given>>

\* Mutant of SelectCommand: the section is loaded into the old database.
SelectCommandOld(index) ==
  /\ up
  /\ Spend("selects")
  /\ index - 1 \in Indices
  /\ dbIndex \in Indices
  /\ \E r \in RdbLoad(dump, index - 1, database[dbIndex], now) :
       /\ r.go = "done"
       /\ dbIndex' = index - 1
       /\ database' = [database EXCEPT ![dbIndex] = r.db]
  /\ UNCHANGED <<up, now, lastsave, dump, children, said, given>>

\* select counts from 1.  The dump is loaded over what the database holds.
SelectCommand(index) ==
  /\ up
  /\ Spend("selects")
  /\ index - 1 \in Indices
  /\ \E r \in RdbLoad(dump, index - 1, database[index - 1], now) :
       IF r.go = "done"
         THEN /\ dbIndex' = index - 1
              /\ database' = [database EXCEPT ![index - 1] = r.db]
              /\ UNCHANGED <<up, now, lastsave, dump, children, said, given>>
         ELSE Die

\* No dump has a section for a database that does not exist, and rdbLoad
\* returns before it touches the object it was called on.
SelectNowhere(index) ==
  /\ up
  /\ Spend("selects")
  /\ index - 1 \notin Indices
  /\ dbIndex' = index - 1
  /\ UNCHANGED <<up, now, database, lastsave, dump, children, said, given>>

\* Any other command but bgsave, on a database that does not exist.
StrayCommand ==
  /\ up
  /\ dbIndex \notin Indices
  /\ Die
  /\ UNCHANGED budget

Crash ==
  /\ up
  /\ Spend("crashes")
  /\ Die

\* The constructor of Server.  A load that throws takes the new process down
\* again, and leaves everything as it was.
Restart ==
  /\ ~up
  /\ \E r \in RdbLoad(dump, 0, EmptyDb, now) :
       /\ r.go = "done"
       /\ database' = [database EXCEPT ![0] = r.db]
  /\ up' = TRUE
  /\ UNCHANGED <<now, dbIndex, lastsave, dump, children, said, given, budget>>

Tick ==
  /\ now < MaxTime
  /\ now' = now + 1
  /\ UNCHANGED <<up, dbIndex, database, lastsave, dump, children, said, given, budget>>

Next ==
  \/ \E k \in Keys, v \in Args : SetCommand(k, v)
  \/ \E k \in Keys : GetCommand(k)
  \/ \E k \in Keys, ms \in Ttls : PexpireCommand(k, ms)
  \/ \E k \in Keys, v \in Args : RpushCommand(k, v)
  \/ \E k \in Keys : RpopCommand(k)
  \/ \E k \in Keys, f \in Args, v \in Args : HsetCommand(k, f, v)
  \/ \E k \in Keys, v \in Args : SaddCommand(k, v)
  \/ \E k \in Keys, m \in Args, s \in Scores : ZaddCommand(k, m, s)
  \/ BgsaveCommand
  \/ \E c \in DOMAIN children : \E n \in DOMAIN children[c] : ChildWrite(c, n)
  \/ \E c \in DOMAIN children : ChildDies(c)
  \/ \E index \in 1..DBNUM : SelectCommand(index)
  \/ \E index \in {0, DBNUM + 1} : SelectNowhere(index)
  \/ StrayCommand
  \/ Crash
  \/ Restart
  \/ Tick

Spec == Init /\ [][Next]_vars

-----------------------------------------------------------------------------
(* Safety.                                                                 *)

\* Whatever crashes, partly written dumps, interleaved children and repeated
\* loads the server has been through, a string is found only under a key under
\* which a client has set it (rdbSave, rdbLoad's string block).
StringsWereSet ==
  \A i \in Indices, k \in Keys :
     Has(database[i], "string", k) => <<k, database[i].dict["string"][k]>> \in said

\* A deadline is one that a pexpire gave to that key, in whichever life of the
\* server and of whichever database.  rdbLoad hands setPexpireTime, which adds
\* the clock (Database.cc:388), the deadline itself, and every key without one
\* has -1 in the dump: its guard keeps both out (Database.cc:567).
DeadlinesWereGiven ==
  \A i \in Indices, t \in Types, k \in Keys :
     database[i].due[t][k] # NoDeadline => t = "string" /\ <<k, database[i].due[t][k]>> \in given

\* While the server lives, a step changes no database but the one that is
\* selected when the step ends: a select loads into the new one, although the
\* section it parses may run on into one of another database.
OnlySelectedChanges ==
  [][up /\ up' => \A i \in Indices \ {dbIndex'} : database'[i] = database[i]]_vars

\* A load only adds: of what a database holds, a select loses no key, no hash
\* field, no set element and no zset member, and takes nothing off the front of
\* a list.
SelectKeeps ==
  [][budget'.selects # budget.selects /\ up' /\ dbIndex' \in Indices =>
         \A k \in Keys :
           LET old(t) == database[dbIndex'].dict[t][k]
               new(t) == database'[dbIndex'].dict[t][k]
           IN /\ \A t \in Types : old(t) # NoVal => new(t) # NoVal
              /\ old("list") # NoVal => IsPrefix(old("list"), new("list"))
              /\ old("hash") # NoVal => DOMAIN old("hash") \subseteq DOMAIN new("hash")
              /\ old("set") # NoVal => old("set") \subseteq new("set")
              /\ old("zset") # NoVal =>
                   {m.obj : m \in Range(old("zset"))} \subseteq {m.obj : m \in Range(new("zset"))}]_vars

\* A dump can be loaded, by a restart and by any select, whichever whole writes
\* of whichever children have reached it, if every list and every set in it has
\* one element and every zset the members that were announced (a zadd with a
\* score of 0 makes one that has not: DumpsLoad): rdbLoad never runs off the
\* end of such a file.
SimpleDumpsLoad ==
  (\A s \in Range(dump) : \A b \in Range(s.blocks) : \A e \in Range(b.entries) :
     e.count = Len(e.items) /\ (b.type \in {"list", "set"} => Len(e.items) = 1))
    => \A i \in Indices : \A r \in RdbLoad(dump, i, EmptyDb, now) : r.go = "done"

-----------------------------------------------------------------------------
(* What README.md says and the code does not do: each is checked by a run  *)
(* that expects it to be violated.                                         *)

\* A restart brings back the strings of database 0 as the last save that
\* reached the file had them: README.md:18, RDB persistence after the model of
\* Redis.  The code's dump grows at its end and is read from its beginning.
RestartRestoresStrings ==
  [][~up /\ up' =>
       LET mine == SelectSeq(dump, LAMBDA s : s.db = 0)
       IN mine # <<>> =>
            \A b \in Range(Last(mine).blocks) : b.type = "string" =>
              \A e \in Range(b.entries) : database'[0].dict["string"][e.key] = e.items[1]]_vars

\* A key that had not expired when it was saved comes back with its deadline:
\* README.md:18 again, and rdbLoad's own call of setPexpireTime.
RestartRestoresDeadlines ==
  [][~up /\ up' =>
       \A s \in Range(dump) : s.db = 0 =>
         \A b \in Range(s.blocks) : \A e \in Range(b.entries) :
           e.due >= now /\ Has(database'[0], b.type, e.key)
             => database'[0].due[b.type][e.key] # NoDeadline]_vars

\* What a bgsave has written can be loaded: README.md:18.  rdbSave announces
\* all members of a zset and writes those with a score above 0
\* (Server.cc:351-358); rdbLoad looks for as many as were announced.
DumpsLoad ==
  \A i \in Indices : \A r \in RdbLoad(dump, i, EmptyDb, now) : r.go = "done"
=============================================================================
