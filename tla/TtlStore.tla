------------------------------ MODULE TtlStore ------------------------------
(***************************************************************************)
(* What set, get, pexpire and the passing of time promise a client about   *)
(* string keys, with expiry as a client sees it: a key lapses at the very  *)
(* tick its deadline passes, whoever looks and whenever.  The server does  *)
(* nothing at that tick; it deletes a lapsed key when a command next meets *)
(* it.  Keyspace implements this module (server/db/Server.cc, the string   *)
(* commands; server/db/Database.cc, judgeKeyExpiredTime).                  *)
(*                                                                         *)
(* A lapsed key is not forgotten at once: until a set or a get meets it,   *)
(* pexpire can still give it a new deadline and bring its value back.      *)
(***************************************************************************)
EXTENDS Integers

CONSTANTS Keys, Texts, NoVal, Ttls, MaxTime

VARIABLES
  live,     \* the value of each key a get would find
  lapsed,   \* the value of each key past its deadline that is still stored
  due,      \* deadlines; a negative one is none
  now,
  answer    \* key and value of the last get, if that was the last command

vars == <<live, lapsed, due, now, answer>>

Past(deadline, time) == deadline >= 0 /\ time > deadline

Init ==
  /\ live = [k \in Keys |-> NoVal]
  /\ lapsed = [k \in Keys |-> NoVal]
  /\ due = [k \in Keys |-> -1]
  /\ now = 0
  /\ answer = NoVal

\* A key that is live keeps its deadline; any other starts without one.
Set(k, v) ==
  /\ live' = [live EXCEPT ![k] = v]
  /\ lapsed' = [lapsed EXCEPT ![k] = NoVal]
  /\ due' = IF lapsed[k] = NoVal THEN due ELSE [due EXCEPT ![k] = -1]
  /\ answer' = NoVal
  /\ UNCHANGED now

\* A get answers what is live, and is the end of what has lapsed.
Get(k) ==
  /\ answer' = [key |-> k, value |-> live[k]]
  /\ lapsed' = [lapsed EXCEPT ![k] = NoVal]
  /\ due' = IF lapsed[k] = NoVal THEN due ELSE [due EXCEPT ![k] = -1]
  /\ UNCHANGED <<live, now>>

Stored(k) == IF live[k] # NoVal THEN live[k] ELSE lapsed[k]

Pexpire(k, ms) ==
  /\ answer' = NoVal
  /\ IF Stored(k) = NoVal
       THEN UNCHANGED <<live, lapsed, due>>
       ELSE /\ due' = [due EXCEPT ![k] = ms + now]
            /\ live' = [live EXCEPT ![k] = IF Past(ms + now, now) THEN NoVal ELSE Stored(k)]
            /\ lapsed' = [lapsed EXCEPT ![k] = IF Past(ms + now, now) THEN Stored(k) ELSE NoVal]
  /\ UNCHANGED now

\* Every key whose deadline passes lapses now.
Tick ==
  /\ now < MaxTime
  /\ now' = now + 1
  /\ live' = [k \in Keys |-> IF Past(due[k], now') THEN NoVal ELSE live[k]]
  /\ lapsed' = [k \in Keys |-> IF Past(due[k], now') THEN Stored(k) ELSE lapsed[k]]
  /\ UNCHANGED <<due, answer>>

\* A command on another type of object.
Other ==
  /\ answer' = NoVal
  /\ UNCHANGED <<live, lapsed, due, now>>

Next ==
  \/ \E k \in Keys, v \in Texts : Set(k, v)
  \/ \E k \in Keys : Get(k)
  \/ \E k \in Keys, ms \in Ttls : Pexpire(k, ms)
  \/ Tick
  \/ Other

Spec == Init /\ [][Next]_vars
=============================================================================
