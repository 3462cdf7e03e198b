--------------------------- MODULE KeyspaceProofs ---------------------------
(***************************************************************************)
(* What Keyspace guarantees for every set of keys, texts, scores and       *)
(* deadlines.  The invariant is proved of one database at a time: Sound    *)
(* holds of the empty database and every operator the commands are made of *)
(* preserves it.                                                           *)
(***************************************************************************)
EXTENDS Keyspace, DatabaseProofs

\* A database whose objects and deadlines have their types, in which only
\* strings that are there have deadlines, and whose zsets are sorted.
Sound(d) ==
  /\ IsDatabase(d)
  /\ DeadlinesHaveKeys(d)
  /\ \A t \in Types \ {"string"}, k \in Keys : d.due[t][k] = NoDeadline
  /\ ZsetsSorted(d)

IInv == TypeOK /\ Sound(db)

-----------------------------------------------------------------------------

\* A database starts sound (Database.h:47-57).
LEMMA EmptyDbSound == Sound(EmptyDb)
<1>1. IsDatabase(EmptyDb)
  BY DEF IsDatabase, EmptyDb, NoDeadline
<1>2. \A t \in Types, k \in Keys : ~Has(EmptyDb, t, k) /\ EmptyDb.due[t][k] = NoDeadline
  BY DEF EmptyDb, Has
<1> QED
  BY <1>1, <1>2 DEF Sound, DeadlinesHaveKeys, ZsetsSorted, Types

\* addKey keeps a database sound (Database.cc:3-132).
LEMMA AddKeySound ==
  ASSUME NEW d, Sound(d), NEW t \in Types, NEW k \in Keys,
         NEW objKey \in Texts, NEW objValue,
         t = "hash" => objValue \in HashTexts,
         t = "zset" => objValue \in Scores,
         NEW e \in AddKey(d, t, k, objKey, objValue)
  PROVE  Sound(e)
<1>1. /\ IsDatabase(e)
      /\ e.due = d.due
      /\ \A u \in Types, j \in Keys :
           u # t \/ j # k => e.dict[u][j] = d.dict[u][j]
      /\ e.dict[t][k] \in Grown(t, d.dict[t][k], objKey, objValue)
      /\ Has(e, t, k)
  BY AddKeyEffect DEF Sound
<1>2. DeadlinesHaveKeys(e)
  BY <1>1 DEF Sound, DeadlinesHaveKeys, Has
<1>3. ASSUME NEW j \in Keys, Has(e, "zset", j)
      PROVE  Sorted(e.dict["zset"][j])
  <2>1. CASE t # "zset" \/ j # k
    BY <1>1, <1>3, <2>1 DEF Sound, ZsetsSorted, Has, Types
  <2>2. CASE t = "zset" /\ j = k
    <3> DEFINE z == IF d.dict[t][k] = NoVal THEN <<>> ELSE d.dict[t][k]
    <3>1. PICK p \in InsertPositions(z, objKey, objValue) :
            e.dict[t][k] = InsertAt(z, p, [obj |-> objKey, score |-> objValue])
      BY <1>1, <2>2 DEF Grown
    <3>2. z \in Seq(Members)
      <4>1. d.dict[t][k] \in {NoVal} \cup Seq(Members)
        BY <2>2 DEF Sound, IsDatabase, Objects
      <4> QED
        BY <4>1, EmptySeq
    <3>3. Sorted(z)
      <4>1. CASE d.dict[t][k] = NoVal
        BY <4>1, EmptySeq DEF Sorted
      <4>2. CASE d.dict[t][k] # NoVal
        BY <4>2, <2>2 DEF Sound, ZsetsSorted, Has
      <4> QED
        BY <4>1, <4>2
    <3>4. objValue \in Scores
      BY <2>2
    <3> HIDE DEF z
    <3>5. Sorted(InsertAt(z, p, [obj |-> objKey, score |-> objValue]))
      BY <3>2, <3>3, <3>4, SortedInsert
    <3> QED
      BY <2>2, <3>1, <3>5
  <2> QED
    BY <2>1, <2>2
<1> QED
  BY <1>1, <1>2, <1>3 DEF Sound, ZsetsSorted

\* delKey takes the deadline with the key (Database.cc:134-213).
LEMMA DelKeySound ==
  ASSUME NEW d, Sound(d), NEW t \in Types, NEW k \in Keys
  PROVE  Sound(DelKey(d, t, k))
<1> DEFINE e == DelKey(d, t, k)
<1>1. /\ IsDatabase(e)
      /\ \A u \in Types, j \in Keys :
           /\ e.dict[u][j] = IF u = t /\ j = k THEN NoVal ELSE d.dict[u][j]
           /\ e.due[u][j] = IF u = t /\ j = k /\ Has(d, t, k)
                              THEN NoDeadline ELSE d.due[u][j]
  BY DelKeyEffect DEF Sound
<1> HIDE DEF e
<1>2. DeadlinesHaveKeys(e)
  BY <1>1 DEF Sound, DeadlinesHaveKeys, Has
<1>3. \A u \in Types \ {"string"}, j \in Keys : e.due[u][j] = NoDeadline
  BY <1>1 DEF Sound
<1>4. ZsetsSorted(e)
  BY <1>1 DEF Sound, ZsetsSorted, Has, Types
<1> QED
  BY <1>1, <1>2, <1>3, <1>4 DEF Sound, e

\* getKey changes nothing, or does what delKey does (Database.cc:215-293).
LEMMA GetKeySound ==
  ASSUME NEW d, Sound(d), NEW t \in Types, NEW k \in Keys, NEW time
  PROVE  Sound(GetKey(d, t, k, time))
BY DelKeySound DEF GetKey

\* pexpire gives a deadline to a string that is there (Database.cc:381-435).
LEMMA SetPexpireTimeSound ==
  ASSUME NEW d, Sound(d), NEW k \in Keys, NEW ms \in Int, NEW time \in Int
  PROVE  Sound(SetPexpireTime(d, "string", k, ms, time))
<1> DEFINE e == SetPexpireTime(d, "string", k, ms, time)
<1>1. "string" \in Types
  BY DEF Types
<1>2. /\ IsDatabase(e)
      /\ e.dict = d.dict
      /\ \A u \in Types, j \in Keys :
           e.due[u][j] = IF u = "string" /\ j = k /\ Has(d, "string", k)
                           THEN ms + time ELSE d.due[u][j]
  BY <1>1, SetPexpireTimeEffect DEF Sound
<1> HIDE DEF e
<1> QED
  BY <1>2 DEF Sound, DeadlinesHaveKeys, ZsetsSorted, Has, e

\* rpop leaves a list behind, if an empty one (Database.cc:437-448).
LEMMA RpopListSound ==
  ASSUME NEW d, Sound(d), NEW k \in Keys,
         Has(d, "list", k), d.dict["list"][k] # <<>>
  PROVE  Sound(RpopList(d, k))
<1> DEFINE e == RpopList(d, k)
<1>1. /\ IsDatabase(e)
      /\ e.due = d.due
      /\ \A u \in Types, j \in Keys :
           u # "list" \/ j # k => e.dict[u][j] = d.dict[u][j]
      /\ Has(e, "list", k)
  BY RpopListEffect DEF Sound
<1> HIDE DEF e
<1>2. DeadlinesHaveKeys(e)
  BY <1>1 DEF Sound, DeadlinesHaveKeys, Has
<1>3. ZsetsSorted(e)
  BY <1>1 DEF Sound, ZsetsSorted, Has, Types
<1> QED
  BY <1>1, <1>2, <1>3 DEF Sound, e

-----------------------------------------------------------------------------
(* The inductive invariant.                                                *)

\* A server that has just started satisfies the invariant.
LEMMA InitIInv == Init => IInv
<1> SUFFICES ASSUME Init PROVE IInv
  OBVIOUS
<1>1. Sound(db)
  BY EmptyDbSound DEF Init
<1>2. TypeOK
  BY <1>1, MaxTimeAssumption DEF Init, TypeOK, Sound, Kinds
<1> QED
  BY <1>1, <1>2 DEF IInv

\* What is left to show of TypeOK once the database is known to be sound.
LEMMA ReplyType ==
  ASSUME NEW cmd, cmd # "get", NEW kind \in Kinds, NEW body,
         up' \in BOOLEAN, now' \in 0..MaxTime, pending' \in Keys \cup {NoKey},
         Sound(db'), Answer(cmd, kind, body)
  PROVE  IInv'
BY DEF IInv, TypeOK, Sound, Answer

\* A step that ends in an answer to a get keeps the invariant.
LEMMA GetReplyType ==
  ASSUME NEW k \in Keys, NEW kind \in Kinds, NEW v \in {NoVal} \cup Texts,
         up' \in BOOLEAN, now' \in 0..MaxTime, pending' \in Keys \cup {NoKey},
         Sound(db'), AnswerGet(k, kind, v)
  PROVE  IInv'
BY DEF IInv, TypeOK, Sound, AnswerGet, Answer

\* Every command and every tick keeps the invariant: one step per action.
LEMMA NextIInv == IInv /\ [Next]_vars => IInv'
<1> SUFFICES ASSUME IInv, [Next]_vars PROVE IInv'
  OBVIOUS
<1>0. /\ TypeOK
      /\ Sound(db)
      /\ up \in BOOLEAN
      /\ now \in 0..MaxTime
      /\ now \in Int
      /\ pending \in Keys \cup {NoKey}
      /\ Types = {"string", "list", "hash", "set", "zset"}
      /\ {"ok", "error", "notfound", "value", "gone"} \subseteq Kinds
  BY MaxTimeAssumption DEF IInv, TypeOK, Types, Kinds
<1>1. ASSUME NEW k \in Keys, NEW v \in Texts, SetCommand(k, v)
      PROVE  IInv'
  <2> DEFINE d == IF JudgeKeyExpiredTime(db, "string", k, now)
                    THEN DelKey(db, "string", k) ELSE db
  <2>1. Sound(d)
    BY <1>0, DelKeySound
  <2>2. db' \in AddKey(d, "string", k, v, NoVal)
    BY <1>1 DEF SetCommand
  <2> HIDE DEF d
  <2>3. Sound(db')
    BY <1>0, <2>1, <2>2, AddKeySound
  <2> QED
    BY <1>0, <1>1, <2>3, ReplyType DEF SetCommand
<1>2. ASSUME NEW k \in Keys, GetJudge(k)
      PROVE  IInv'
  <2>1. CASE JudgeKeyExpiredTime(db, "string", k, now)
    <3>1. Sound(db')
      BY <1>0, <1>2, <2>1, DelKeySound DEF GetJudge
    <3> QED
      BY <1>0, <1>2, <2>1, <3>1, GetReplyType DEF GetJudge
  <2>2. CASE ~JudgeKeyExpiredTime(db, "string", k, now)
    BY <1>0, <1>2, <2>2 DEF GetJudge, IInv, TypeOK
  <2> QED
    BY <2>1, <2>2
<1>3. ASSUME GetFetch
      PROVE  IInv'
  <2>1. pending \in Keys /\ pending' = NoKey /\ up' = up /\ now' = now
    BY <1>0, <1>3 DEF GetFetch
  <2>2. Sound(db')
    BY <1>0, <1>3, <2>1, GetKeySound DEF GetFetch
  <2>3. db.dict["string"][pending] \in {NoVal} \cup Texts
    BY <1>0, <2>1 DEF Sound, IsDatabase, Objects
  <2> QED
    BY <1>0, <1>3, <2>1, <2>2, <2>3, GetReplyType DEF GetFetch
<1>4. ASSUME NEW k \in Keys, NEW ms \in Ttls, PexpireCommand(k, ms)
      PROVE  IInv'
  <2>1. Sound(db')
    BY <1>0, <1>4, SetPexpireTimeSound, TtlsAssumption DEF PexpireCommand
  <2> QED
    BY <1>0, <1>4, <2>1, ReplyType DEF PexpireCommand
<1>5. ASSUME NEW k \in Keys, NEW v \in Texts, RpushCommand(k, v)
      PROVE  IInv'
  <2>1. Sound(db')
    BY <1>0, <1>5, AddKeySound DEF RpushCommand
  <2> QED
    BY <1>0, <1>5, <2>1, ReplyType DEF RpushCommand
<1>6. ASSUME NEW k \in Keys, RpopCommand(k)
      PROVE  IInv'
  <2>1. Sound(db')
    BY <1>0, <1>6, RpopListSound DEF RpopCommand
  <2>2. PICK kind, body : kind \in Kinds /\ Answer("rpop", kind, body)
    BY <1>0, <1>6 DEF RpopCommand
  <2> QED
    BY <1>0, <1>6, <2>1, <2>2, ReplyType DEF RpopCommand
<1>7. ASSUME NEW k \in Keys, RpopEmpty(k)
      PROVE  IInv'
  BY <1>0, <1>7 DEF RpopEmpty, IInv, TypeOK
<1>8. ASSUME NEW k \in Keys, NEW f \in Texts, NEW v \in Texts, HsetCommand(k, f, v)
      PROVE  IInv'
  <2>1. v \in HashTexts
    BY DEF HashTexts
  <2>2. Sound(db')
    BY <1>0, <1>8, <2>1, AddKeySound DEF HsetCommand
  <2> QED
    BY <1>0, <1>8, <2>2, ReplyType DEF HsetCommand
<1>9. ASSUME NEW k \in Keys, NEW f \in Texts, HgetCommand(k, f)
      PROVE  IInv'
  <2>1. PICK kind, body : kind \in Kinds /\ Answer("hget", kind, body)
    BY <1>0, <1>9 DEF HgetCommand
  <2> QED
    BY <1>0, <1>9, <2>1, ReplyType DEF HgetCommand
<1>10. ASSUME NEW k \in Keys, NEW t \in Types, NEW cmd, cmd # "get", GetAll(cmd, t, k)
       PROVE  IInv'
  <2>1. Sound(db')
    BY <1>0, <1>10, GetKeySound DEF GetAll
  <2>2. PICK kind, body : kind \in Kinds /\ Answer(cmd, kind, body)
    BY <1>0, <1>10 DEF GetAll
  <2> QED
    BY <1>0, <1>10, <2>1, <2>2, ReplyType DEF GetAll
<1>11. ASSUME NEW k \in Keys, NEW v \in Texts, SaddCommand(k, v)
       PROVE  IInv'
  <2>1. Sound(db')
    BY <1>0, <1>11, AddKeySound DEF SaddCommand
  <2> QED
    BY <1>0, <1>11, <2>1, ReplyType DEF SaddCommand
<1>12. ASSUME NEW k \in Keys, NEW m \in Texts, NEW s \in Scores, ZaddCommand(k, m, s)
       PROVE  IInv'
  <2>1. Sound(db')
    BY <1>0, <1>12, AddKeySound DEF ZaddCommand
  <2> QED
    BY <1>0, <1>12, <2>1, ReplyType DEF ZaddCommand
<1>13. ASSUME NEW k \in Keys, ZcardCommand(k)
       PROVE  IInv'
  <2>1. PICK kind, body : kind \in Kinds /\ Answer("zcard", kind, body)
    BY <1>0, <1>13 DEF ZcardCommand
  <2> QED
    BY <1>0, <1>13, <2>1, ReplyType DEF ZcardCommand
<1>14. ASSUME Tick
       PROVE  IInv'
  <2>1. now' \in 0..MaxTime
    BY <1>0, <1>14, MaxTimeAssumption DEF Tick
  <2> QED
    BY <1>14, <2>1 DEF Tick, IInv, TypeOK
<1>15. CASE UNCHANGED vars
  BY <1>15 DEF vars, IInv, TypeOK
<1> QED
  BY <1>0, <1>1, <1>2, <1>3, <1>4, <1>5, <1>6, <1>7, <1>8, <1>9, <1>10, <1>11,
     <1>12, <1>13, <1>14, <1>15 DEF Next, HgetallCommand, SmembersCommand

\* The inductive invariant holds in every reachable state.
THEOREM Invariance == Spec => []IInv
<1> QED
  BY InitIInv, NextIInv, PTL DEF Spec

\* Every reachable state is well typed; every object is of the type of the
\* dictionary it is in.
THEOREM TypeCorrect == Spec => []TypeOK
<1>1. IInv => TypeOK
  BY DEF IInv
<1> QED
  BY <1>1, Invariance, PTL

\* No deadline outlives its key, for any keys, texts and deadlines.
THEOREM DeadlinesDieWithKeys == Spec => []ExpireHasKey
<1>1. IInv => ExpireHasKey
  BY DEF IInv, Sound, ExpireHasKey
<1> QED
  BY <1>1, Invariance, PTL

\* No list, hash, set or zset ever carries a deadline.
THEOREM StringsAloneExpire == Spec => []OnlyStringsExpire
<1>1. IInv => OnlyStringsExpire
  BY DEF IInv, Sound, OnlyStringsExpire
<1> QED
  BY <1>1, Invariance, PTL

\* Every zset is sorted by score, wherever the ties have put its members.
THEOREM ZsetsStaySorted == Spec => []ZsetOrdered
<1>1. IInv => ZsetOrdered
  BY DEF IInv, Sound, ZsetOrdered
<1> QED
  BY <1>1, Invariance, PTL

-----------------------------------------------------------------------------
(* No object vanishes but a string past its deadline.                      *)

\* What deleting an expired key of any dictionary takes away.
LEMMA DelExpiredVanish ==
  ASSUME NEW d, Sound(d), NEW t \in Types, NEW k \in Keys, NEW time,
         JudgeKeyExpiredTime(d, t, k, time),
         NEW u \in Types, NEW j \in Keys,
         Has(d, u, j), ~Has(DelKey(d, t, k), u, j)
  PROVE  u = "string" /\ JudgeKeyExpiredTime(d, u, j, time)
<1>1. u = t /\ j = k
  BY DelKeyEffect DEF Sound, Has
<1>2. t = "string"
  BY NoDeadlineNeverExpires DEF Sound
<1> QED
  BY <1>1, <1>2

\* addKey makes nothing disappear.
LEMMA AddKeyVanish ==
  ASSUME NEW d, Sound(d), NEW t \in Types, NEW k \in Keys,
         NEW objKey \in Texts, NEW objValue,
         t = "hash" => objValue \in HashTexts,
         t = "zset" => objValue \in Scores,
         NEW e \in AddKey(d, t, k, objKey, objValue),
         NEW u \in Types, NEW j \in Keys, Has(d, u, j)
  PROVE  Has(e, u, j)
<1>1. /\ \A u1 \in Types, j1 \in Keys :
           u1 # t \/ j1 # k => e.dict[u1][j1] = d.dict[u1][j1]
      /\ Has(e, t, k)
  BY AddKeyEffect DEF Sound
<1> QED
  BY <1>1 DEF Has

Vanish(t, k) == Has(db, t, k) /\ ~Has(db', t, k)

\* What can have disappeared after a step: one step per action.
LEMMA NextVanish ==
  ASSUME IInv, [Next]_vars, NEW u \in Types, NEW j \in Keys, Vanish(u, j)
  PROVE  u = "string" /\ JudgeKeyExpiredTime(db, u, j, now)
<1> DEFINE Goal == u = "string" /\ JudgeKeyExpiredTime(db, u, j, now)
<1>0. /\ Sound(db)
      /\ now \in Int
      /\ pending \in Keys \cup {NoKey}
      /\ Types = {"string", "list", "hash", "set", "zset"}
      /\ Has(db, u, j)
      /\ ~Has(db', u, j)
  BY MaxTimeAssumption DEF IInv, TypeOK, Types, Vanish
<1>1. ASSUME NEW k \in Keys, NEW v \in Texts, SetCommand(k, v)
      PROVE  Goal
  <2>1. CASE JudgeKeyExpiredTime(db, "string", k, now)
    <3> DEFINE d == DelKey(db, "string", k)
    <3>1. Sound(d) /\ db' \in AddKey(d, "string", k, v, NoVal)
      BY <1>0, <1>1, <2>1, DelKeySound DEF SetCommand
    <3>2. CASE Has(d, u, j)
      <4> HIDE DEF d
      <4> QED
        BY <1>0, <3>1, <3>2, AddKeyVanish
    <3>3. CASE ~Has(d, u, j)
      BY <1>0, <2>1, <3>3, DelExpiredVanish
    <3> QED
      BY <3>2, <3>3
  <2>2. CASE ~JudgeKeyExpiredTime(db, "string", k, now)
    BY <1>0, <1>1, <2>2, AddKeyVanish DEF SetCommand
  <2> QED
    BY <2>1, <2>2
<1>2. ASSUME NEW k \in Keys, GetJudge(k)
      PROVE  Goal
  BY <1>0, <1>2, DelExpiredVanish DEF GetJudge
<1>3. ASSUME GetFetch
      PROVE  Goal
  BY <1>0, <1>3, DelExpiredVanish DEF GetFetch, GetKey
<1>4. ASSUME NEW k \in Keys, NEW ms \in Ttls, PexpireCommand(k, ms)
      PROVE  Goal
  <2>1. db'.dict = db.dict
    BY <1>0, <1>4, SetPexpireTimeEffect, TtlsAssumption DEF PexpireCommand, Sound
  <2> QED
    BY <1>0, <2>1 DEF Has
<1>5. ASSUME NEW k \in Keys, NEW v \in Texts, RpushCommand(k, v)
      PROVE  Goal
  BY <1>0, <1>5, AddKeyVanish DEF RpushCommand
<1>6. ASSUME NEW k \in Keys, RpopCommand(k)
      PROVE  Goal
  BY <1>0, <1>6, RpopListEffect DEF RpopCommand, Sound, Has
<1>7. ASSUME NEW k \in Keys, NEW f \in Texts, NEW v \in Texts, HsetCommand(k, f, v)
      PROVE  Goal
  BY <1>0, <1>7, AddKeyVanish DEF HsetCommand, HashTexts
<1>8. ASSUME NEW k \in Keys, NEW t \in Types, NEW cmd, GetAll(cmd, t, k)
      PROVE  Goal
  BY <1>0, <1>8, DelExpiredVanish DEF GetAll, GetKey
<1>9. ASSUME NEW k \in Keys, NEW v \in Texts, SaddCommand(k, v)
      PROVE  Goal
  BY <1>0, <1>9, AddKeyVanish DEF SaddCommand
<1>10. ASSUME NEW k \in Keys, NEW m \in Texts, NEW s \in Scores, ZaddCommand(k, m, s)
       PROVE  Goal
  BY <1>0, <1>10, AddKeyVanish DEF ZaddCommand
<1>11. CASE UNCHANGED db
  BY <1>0, <1>11
<1> QED
  BY <1>0, <1>1, <1>2, <1>3, <1>4, <1>5, <1>6, <1>7, <1>8, <1>9, <1>10, <1>11
  DEF Next, vars, RpopEmpty, HgetCommand, HgetallCommand, SmembersCommand, ZcardCommand, Tick

\* Nothing a client stored disappears, except a string whose deadline has
\* passed, for any keys, texts and deadlines.
THEOREM NothingElseVanishes == Spec => OnlyExpiredVanish
<1>1. IInv /\ [Next]_vars =>
        [\A t \in Types, k \in Keys :
           Has(db, t, k) /\ ~Has(db', t, k)
             => t = "string" /\ JudgeKeyExpiredTime(db, t, k, now)]_vars
  BY NextVanish DEF Vanish
<1> QED
  BY <1>1, Invariance, PTL DEF Spec, OnlyExpiredVanish

-----------------------------------------------------------------------------
(* Keyspace implements TtlStore.                                           *)

Strings(d) == d.dict["string"]
Dues(d) == d.due["string"]
LiveOf(d, time) ==
  [k \in Keys |-> IF JudgeKeyExpiredTime(d, "string", k, time) THEN NoVal ELSE Strings(d)[k]]
LapsedOf(d, time) ==
  [k \in Keys |-> IF JudgeKeyExpiredTime(d, "string", k, time) THEN Strings(d)[k] ELSE NoVal]
AnswerOf(r) == IF r[1] = "get" THEN r[3] ELSE NoVal

\* The abstract step, with the abstract variables written out.
LEMMA AbstractVars ==
  /\ Ttl!vars = <<LiveOf(db, now), LapsedOf(db, now), Dues(db), now, AnswerOf(reply)>>
  /\ LiveOf(db, now) = [k \in Keys |-> IF Expired(k) THEN NoVal ELSE db.dict["string"][k]]
  /\ LapsedOf(db, now) = [k \in Keys |-> IF Expired(k) THEN db.dict["string"][k] ELSE NoVal]
BY DEF Ttl!vars, LiveOf, LapsedOf, AnswerOf, Strings, Dues, Expired

\* The strings of a sound database, and that only a stored key has a deadline.
LEMMA StringView ==
  ASSUME NEW d, Sound(d)
  PROVE  /\ "string" \in Types
         /\ Strings(d) = [k \in Keys |-> Strings(d)[k]]
         /\ Dues(d) \in [Keys -> Int]
         /\ \A k \in Keys : Strings(d)[k] \in {NoVal} \cup Texts
         /\ \A k \in Keys : Dues(d)[k] # -1 => Strings(d)[k] # NoVal
         /\ \A k \in Keys : Has(d, "string", k) <=> Strings(d)[k] # NoVal
         /\ \A k \in Keys : \A time :
              JudgeKeyExpiredTime(d, "string", k, time)
                <=> ~(Dues(d)[k] < 0) /\ time > Dues(d)[k]
BY DEF Sound, IsDatabase, DeadlinesHaveKeys, Strings, Dues, Types, Has, NoDeadline,
       Objects, JudgeKeyExpiredTime, GetKeyExpiredTime

\* Two sound databases whose strings agree key by key have the same strings.
LEMMA SameStrings ==
  ASSUME NEW d, Sound(d), NEW e, Sound(e),
         \A k \in Keys : /\ e.dict["string"][k] = d.dict["string"][k]
                        /\ e.due["string"][k] = d.due["string"][k]
  PROVE  Strings(e) = Strings(d) /\ Dues(e) = Dues(d)
<1>1. /\ Strings(d) = [k \in Keys |-> Strings(d)[k]]
      /\ Strings(e) = [k \in Keys |-> Strings(e)[k]]
      /\ Dues(d) \in [Keys -> Int]
      /\ Dues(e) \in [Keys -> Int]
  BY StringView
<1>2. \A k \in Keys : Strings(e)[k] = Strings(d)[k] /\ Dues(e)[k] = Dues(d)[k]
  BY DEF Strings, Dues
<1> QED
  BY <1>1, <1>2

\* Meeting a key: if it has expired it goes, with its deadline, and it was
\* stored; if not, nothing happens.
LEMMA MeetView ==
  ASSUME NEW d, Sound(d), NEW k \in Keys, NEW time \in Int,
         NEW e, e = GetKey(d, "string", k, time)
  PROVE  /\ LiveOf(e, time) = LiveOf(d, time)
         /\ LapsedOf(e, time) = [LapsedOf(d, time) EXCEPT ![k] = NoVal]
         /\ Dues(e) = IF LapsedOf(d, time)[k] = NoVal
                         THEN Dues(d) ELSE [Dues(d) EXCEPT ![k] = -1]
         /\ ~JudgeKeyExpiredTime(e, "string", k, time)
<1> DEFINE x == JudgeKeyExpiredTime(d, "string", k, time)
<1>1. Sound(e)
  BY GetKeySound, StringView
<1>2. /\ x <=> ~(Dues(d)[k] < 0) /\ time > Dues(d)[k]
      /\ x => Has(d, "string", k) /\ Strings(d)[k] # NoVal
  BY StringView
<1>3. \A j \in Keys :
        /\ Strings(e)[j] = IF j = k /\ x THEN NoVal ELSE Strings(d)[j]
        /\ Dues(e)[j] = IF j = k /\ x THEN -1 ELSE Dues(d)[j]
  <2>1. CASE x
    <3>1. e = DelKey(d, "string", k) /\ "string" \in Types /\ IsDatabase(d)
      BY <2>1, StringView DEF GetKey, Sound
    <3>2. \A j \in Keys :
            /\ e.dict["string"][j] = IF j = k THEN NoVal ELSE d.dict["string"][j]
            /\ e.due["string"][j] = IF j = k /\ Has(d, "string", k)
                                      THEN NoDeadline ELSE d.due["string"][j]
      BY <3>1, DelKeyEffect
    <3> QED
      BY <2>1, <1>2, <3>2 DEF Strings, Dues, NoDeadline
  <2>2. CASE ~x
    BY <2>2 DEF GetKey
  <2> QED
    BY <2>1, <2>2
<1>4. \A j \in Keys :
        /\ JudgeKeyExpiredTime(d, "string", j, time) <=> ~(Dues(d)[j] < 0) /\ time > Dues(d)[j]
        /\ JudgeKeyExpiredTime(e, "string", j, time) <=> ~(Dues(e)[j] < 0) /\ time > Dues(e)[j]
  BY <1>1, StringView
<1> HIDE DEF x
<1>5. \A j \in Keys : JudgeKeyExpiredTime(e, "string", j, time)
                      <=> JudgeKeyExpiredTime(d, "string", j, time) /\ j # k
  BY <1>3, <1>4 DEF x
<1>6. LiveOf(e, time) = LiveOf(d, time)
  BY <1>3, <1>5 DEF LiveOf, x
<1>7. LapsedOf(e, time) = [LapsedOf(d, time) EXCEPT ![k] = NoVal]
  BY <1>3, <1>5 DEF LapsedOf, x
<1>8. LapsedOf(d, time)[k] = NoVal <=> ~x
  BY <1>2 DEF LapsedOf, x
<1>9. Dues(d) \in [Keys -> Int] /\ Dues(e) \in [Keys -> Int]
  BY <1>1, StringView
<1>10. Dues(e) = IF x THEN [Dues(d) EXCEPT ![k] = -1] ELSE Dues(d)
  BY <1>3, <1>9
<1> QED
  BY <1>5, <1>6, <1>7, <1>8, <1>10

\* Storing a string under a key that has not expired.
LEMMA StoreView ==
  ASSUME NEW d, Sound(d), NEW k \in Keys, NEW v \in Texts, NEW time \in Int,
         ~JudgeKeyExpiredTime(d, "string", k, time),
         NEW e \in AddKey(d, "string", k, v, NoVal)
  PROVE  /\ LiveOf(e, time) = [LiveOf(d, time) EXCEPT ![k] = v]
         /\ LapsedOf(e, time) = LapsedOf(d, time)
         /\ Dues(e) = Dues(d)
<1>1. Sound(e) /\ "string" \in Types
  BY AddKeySound, StringView
<1>2. /\ e.due = d.due
      /\ \A j \in Keys : Strings(e)[j] = IF j = k THEN v ELSE Strings(d)[j]
  <2>1. /\ e.due = d.due
        /\ \A u \in Types, j \in Keys :
             u # "string" \/ j # k => e.dict[u][j] = d.dict[u][j]
        /\ e.dict["string"][k] \in Grown("string", d.dict["string"][k], v, NoVal)
    BY <1>1, AddKeyEffect DEF Sound
  <2>2. e.dict["string"][k] = v
    BY <2>1 DEF Grown
  <2> QED
    BY <1>1, <2>1, <2>2 DEF Strings
<1>3. \A j \in Keys : JudgeKeyExpiredTime(e, "string", j, time)
                      <=> JudgeKeyExpiredTime(d, "string", j, time)
  BY <1>2 DEF JudgeKeyExpiredTime, GetKeyExpiredTime
<1> QED
  BY <1>2, <1>3 DEF LiveOf, LapsedOf, Dues

\* pexpire on a stored key, expired or not.
LEMMA PexpireView ==
  ASSUME NEW d, Sound(d), NEW k \in Keys, NEW ms \in Int, NEW time \in Int,
         NEW e, e = SetPexpireTime(d, "string", k, ms, time),
         Strings(d)[k] # NoVal
  PROVE  /\ Dues(e) = [Dues(d) EXCEPT ![k] = ms + time]
         /\ LiveOf(e, time) =
              [LiveOf(d, time) EXCEPT ![k] =
                 IF ms + time >= 0 /\ time > ms + time THEN NoVal ELSE Strings(d)[k]]
         /\ LapsedOf(e, time) =
              [LapsedOf(d, time) EXCEPT ![k] =
                 IF ms + time >= 0 /\ time > ms + time THEN Strings(d)[k] ELSE NoVal]
<1>1. Sound(e)
  BY SetPexpireTimeSound
<1>2. /\ Strings(e) = Strings(d)
      /\ \A j \in Keys : Dues(e)[j] = IF j = k THEN ms + time ELSE Dues(d)[j]
  <2>1. "string" \in Types /\ IsDatabase(d) /\ Has(d, "string", k)
    BY StringView DEF Sound
  <2>2. /\ e.dict = d.dict
        /\ \A u \in Types, j \in Keys :
             e.due[u][j] = IF u = "string" /\ j = k /\ Has(d, "string", k)
                             THEN ms + time ELSE d.due[u][j]
    BY <2>1, SetPexpireTimeEffect
  <2> QED
    BY <2>1, <2>2 DEF Strings, Dues
<1>3. Dues(d) \in [Keys -> Int] /\ Dues(e) \in [Keys -> Int]
  BY <1>1, StringView
<1>4. \A j \in Keys :
        /\ JudgeKeyExpiredTime(d, "string", j, time) <=> ~(Dues(d)[j] < 0) /\ time > Dues(d)[j]
        /\ JudgeKeyExpiredTime(e, "string", j, time) <=> ~(Dues(e)[j] < 0) /\ time > Dues(e)[j]
  BY <1>1, StringView
<1>5. \A j \in Keys :
        JudgeKeyExpiredTime(e, "string", j, time)
          <=> IF j = k THEN ms + time >= 0 /\ time > ms + time
                       ELSE JudgeKeyExpiredTime(d, "string", j, time)
  BY <1>2, <1>3, <1>4
<1>6. Dues(e) = [Dues(d) EXCEPT ![k] = ms + time]
  BY <1>2, <1>3
<1>7. LiveOf(e, time) =
        [LiveOf(d, time) EXCEPT ![k] =
           IF ms + time >= 0 /\ time > ms + time THEN NoVal ELSE Strings(d)[k]]
  BY <1>2, <1>5 DEF LiveOf
<1>8. LapsedOf(e, time) =
        [LapsedOf(d, time) EXCEPT ![k] =
           IF ms + time >= 0 /\ time > ms + time THEN Strings(d)[k] ELSE NoVal]
  BY <1>2, <1>5 DEF LapsedOf
<1> QED
  BY <1>6, <1>7, <1>8

\* At every tick the keys whose deadline has passed lapse, stored as they are.
LEMMA TickView ==
  ASSUME NEW d, Sound(d), NEW time \in Int
  PROVE  LET stored(j) == IF LiveOf(d, time)[j] # NoVal
                            THEN LiveOf(d, time)[j] ELSE LapsedOf(d, time)[j]
             past(j) == Dues(d)[j] >= 0 /\ time + 1 > Dues(d)[j]
         IN /\ LiveOf(d, time + 1) =
                 [j \in Keys |-> IF past(j) THEN NoVal ELSE LiveOf(d, time)[j]]
            /\ LapsedOf(d, time + 1) =
                 [j \in Keys |-> IF past(j) THEN stored(j) ELSE LapsedOf(d, time)[j]]
<1>1. \A j \in Keys :
        /\ Dues(d)[j] \in Int
        /\ JudgeKeyExpiredTime(d, "string", j, time) <=> ~(Dues(d)[j] < 0) /\ time > Dues(d)[j]
        /\ JudgeKeyExpiredTime(d, "string", j, time + 1)
             <=> ~(Dues(d)[j] < 0) /\ time + 1 > Dues(d)[j]
  BY StringView
<1>2. \A j \in Keys :
        /\ JudgeKeyExpiredTime(d, "string", j, time + 1)
             <=> Dues(d)[j] >= 0 /\ time + 1 > Dues(d)[j]
        /\ JudgeKeyExpiredTime(d, "string", j, time)
             => JudgeKeyExpiredTime(d, "string", j, time + 1)
  BY <1>1
<1> QED
  BY <1>2 DEF LiveOf, LapsedOf

\* A server that has just started is an empty TtlStore.
LEMMA InitRefines == Init => Ttl!Init
<1> SUFFICES ASSUME Init PROVE Ttl!Init
  OBVIOUS
<1>1. /\ Strings(db) = [k \in Keys |-> NoVal]
      /\ Dues(db) = [k \in Keys |-> -1]
      /\ now = 0
      /\ reply[1] = "none"
  BY DEF Init, EmptyDb, Strings, Dues, Types, NoDeadline
<1>2. /\ LiveOf(db, now) = [k \in Keys |-> NoVal]
      /\ LapsedOf(db, now) = [k \in Keys |-> NoVal]
  BY <1>1 DEF LiveOf, LapsedOf
<1> QED
  BY <1>1, <1>2, AbstractVars DEF Ttl!Init, AnswerOf, Dues

\* A step that leaves the strings and the clock alone and answers something
\* other than a get is no more than TtlStore's Other.
LEMMA OtherRefines ==
  ASSUME Strings(db') = Strings(db), Dues(db') = Dues(db), now' = now,
         NEW cmd, cmd # "get", NEW kind, NEW body, Answer(cmd, kind, body)
  PROVE  Ttl!Other
<1>1. LiveOf(db', now') = LiveOf(db, now) /\ LapsedOf(db', now') = LapsedOf(db, now)
  BY DEF LiveOf, LapsedOf, JudgeKeyExpiredTime, GetKeyExpiredTime, Dues
<1>2. AnswerOf(reply') = NoVal
  BY DEF Answer, AnswerOf
<1> QED
  BY <1>1, <1>2, AbstractVars
  DEF Ttl!Other, LiveOf, LapsedOf, AnswerOf, Strings, Dues, Expired

\* TtlStore's actions, with the abstract variables written out.
LEMMA AbstractSet ==
  ASSUME NEW k \in Keys, NEW v \in Texts,
         LiveOf(db', now') = [LiveOf(db, now) EXCEPT ![k] = v],
         LapsedOf(db', now') = [LapsedOf(db, now) EXCEPT ![k] = NoVal],
         Dues(db') = IF LapsedOf(db, now)[k] = NoVal
                       THEN Dues(db) ELSE [Dues(db) EXCEPT ![k] = -1],
         AnswerOf(reply') = NoVal, now' = now
  PROVE  Ttl!Set(k, v)
BY DEF Ttl!Set, LiveOf, LapsedOf, AnswerOf, Strings, Dues, Expired

\* A get that answers what is live, and clears its key if that has lapsed, is
\* the abstract Get.
LEMMA AbstractGet ==
  ASSUME NEW k \in Keys,
         LiveOf(db', now') = LiveOf(db, now),
         LapsedOf(db', now') = [LapsedOf(db, now) EXCEPT ![k] = NoVal],
         Dues(db') = IF LapsedOf(db, now)[k] = NoVal
                       THEN Dues(db) ELSE [Dues(db) EXCEPT ![k] = -1],
         AnswerOf(reply') = [key |-> k, value |-> LiveOf(db, now)[k]], now' = now
  PROVE  Ttl!Get(k)
BY DEF Ttl!Get, LiveOf, LapsedOf, AnswerOf, Strings, Dues, Expired

\* pexpire on a string that is there, alive or expired, is the abstract one.
LEMMA AbstractPexpire ==
  ASSUME NEW k \in Keys, NEW ms \in Ttls, Strings(db)[k] # NoVal,
         LiveOf(db', now') =
           [LiveOf(db, now) EXCEPT ![k] =
              IF ms + now >= 0 /\ now > ms + now THEN NoVal ELSE Strings(db)[k]],
         LapsedOf(db', now') =
           [LapsedOf(db, now) EXCEPT ![k] =
              IF ms + now >= 0 /\ now > ms + now THEN Strings(db)[k] ELSE NoVal],
         Dues(db') = [Dues(db) EXCEPT ![k] = ms + now],
         AnswerOf(reply') = NoVal, now' = now
  PROVE  Ttl!Pexpire(k, ms)
<1>1. Ttl!Stored(k) = Strings(db)[k]
  BY DEF Ttl!Stored, Strings, Expired
<1> QED
  BY <1>1 DEF Ttl!Pexpire, Ttl!Past, LiveOf, LapsedOf, AnswerOf, Strings, Dues, Expired

\* So is pexpire on a key that is not there.
LEMMA AbstractPexpireNone ==
  ASSUME NEW k \in Keys, NEW ms \in Ttls, Strings(db)[k] = NoVal,
         LiveOf(db', now') = LiveOf(db, now),
         LapsedOf(db', now') = LapsedOf(db, now),
         Dues(db') = Dues(db), AnswerOf(reply') = NoVal, now' = now
  PROVE  Ttl!Pexpire(k, ms)
<1>1. Ttl!Stored(k) = NoVal
  BY DEF Ttl!Stored, Strings, Expired
<1> QED
  BY <1>1 DEF Ttl!Pexpire, LiveOf, LapsedOf, AnswerOf, Strings, Dues, Expired

\* A tick of the server is a tick of the store: the keys whose deadline it
\* passes lapse.
LEMMA AbstractTick ==
  ASSUME Sound(db), now \in Int, now < MaxTime, now' = now + 1, db' = db, reply' = reply
  PROVE  Ttl!Tick
<1>1. \A k \in Keys :
        Ttl!Stored(k) = IF LiveOf(db, now)[k] # NoVal
                          THEN LiveOf(db, now)[k] ELSE LapsedOf(db, now)[k]
  BY DEF Ttl!Stored, LiveOf, LapsedOf, Strings, Expired
<1>2. \A k \in Keys :
        Ttl!Past(Dues(db)[k], now') <=> Dues(db)[k] >= 0 /\ now + 1 > Dues(db)[k]
  BY DEF Ttl!Past
<1>3. /\ LiveOf(db', now') =
           [k \in Keys |-> IF Ttl!Past(Dues(db)[k], now') THEN NoVal ELSE LiveOf(db, now)[k]]
      /\ LapsedOf(db', now') =
           [k \in Keys |-> IF Ttl!Past(Dues(db)[k], now')
                             THEN Ttl!Stored(k) ELSE LapsedOf(db, now)[k]]
  BY <1>1, <1>2, TickView
<1> QED
  BY <1>3 DEF Ttl!Tick, LiveOf, LapsedOf, Strings, Dues, Expired

\* A command on another type of object touches no string and no deadline.
LEMMA AddKeyOther ==
  ASSUME NEW d, Sound(d), NEW t \in Types \ {"string"}, NEW k \in Keys,
         NEW objKey \in Texts, NEW objValue,
         t = "hash" => objValue \in HashTexts,
         t = "zset" => objValue \in Scores,
         NEW e \in AddKey(d, t, k, objKey, objValue)
  PROVE  Strings(e) = Strings(d) /\ Dues(e) = Dues(d)
<1>1. /\ e.due = d.due
      /\ \A u \in Types, j \in Keys :
           u # t \/ j # k => e.dict[u][j] = d.dict[u][j]
  BY AddKeyEffect DEF Sound
<1>2. Sound(e)
  BY AddKeySound
<1> QED
  BY <1>1, <1>2, StringView, SameStrings

\* Every step is a step of TtlStore or changes nothing it speaks of.
LEMMA NextRefines == IInv /\ [Next]_vars => [Ttl!Next]_(Ttl!vars)
<1> SUFFICES ASSUME IInv, [Next]_vars PROVE [Ttl!Next]_(Ttl!vars)
  OBVIOUS
<1>0. /\ Sound(db)
      /\ IInv'
      /\ Sound(db')
      /\ now \in Int
      /\ pending \in Keys \cup {NoKey}
      /\ Types = {"string", "list", "hash", "set", "zset"}
  BY NextIInv, MaxTimeAssumption DEF IInv, TypeOK, Types
<1>1. ASSUME NEW k \in Keys, NEW v \in Texts, SetCommand(k, v)
      PROVE  Ttl!Set(k, v)
  <2> DEFINE d == GetKey(db, "string", k, now)
  <2>1. Sound(d)
    BY <1>0, GetKeySound
  <2>2. /\ db' \in AddKey(d, "string", k, v, NoVal)
        /\ now' = now
        /\ AnswerOf(reply') = NoVal
    BY <1>1 DEF SetCommand, GetKey, Answer, AnswerOf
  <2>3. /\ LiveOf(d, now) = LiveOf(db, now)
        /\ LapsedOf(d, now) = [LapsedOf(db, now) EXCEPT ![k] = NoVal]
        /\ Dues(d) = IF LapsedOf(db, now)[k] = NoVal
                        THEN Dues(db) ELSE [Dues(db) EXCEPT ![k] = -1]
        /\ ~JudgeKeyExpiredTime(d, "string", k, now)
    BY <1>0, MeetView
  <2> HIDE DEF d
  <2>4. /\ LiveOf(db', now) = [LiveOf(d, now) EXCEPT ![k] = v]
        /\ LapsedOf(db', now) = LapsedOf(d, now)
        /\ Dues(db') = Dues(d)
    BY <1>0, <2>1, <2>2, <2>3, StoreView
  <2> QED
    BY <2>2, <2>3, <2>4, AbstractSet
<1>2. ASSUME NEW k \in Keys, GetJudge(k), JudgeKeyExpiredTime(db, "string", k, now)
      PROVE  Ttl!Get(k)
  <2>1. /\ db' = GetKey(db, "string", k, now)
        /\ now' = now
        /\ AnswerOf(reply') = [key |-> k, value |-> NoVal]
    BY <1>2 DEF GetJudge, GetKey, AnswerGet, Answer, AnswerOf
  <2>2. LiveOf(db, now)[k] = NoVal
    BY <1>2 DEF LiveOf
  <2> QED
    BY <1>0, <2>1, <2>2, MeetView, AbstractGet
<1>3. ASSUME NEW k \in Keys, GetJudge(k), ~JudgeKeyExpiredTime(db, "string", k, now)
      PROVE  UNCHANGED <<db, now, reply>>
  BY <1>3 DEF GetJudge
<1>4. ASSUME GetFetch
      PROVE  \E k \in Keys : Ttl!Get(k)
  <2>1. PICK k \in Keys : k = pending
    BY <1>0, <1>4 DEF GetFetch
  <2>2. /\ db' = GetKey(db, "string", k, now)
        /\ now' = now
        /\ AnswerOf(reply') = [key |-> k, value |-> LiveOf(db, now)[k]]
    BY <1>4, <2>1 DEF GetFetch, AnswerGet, Answer, AnswerOf, LiveOf, Strings
  <2>3. Ttl!Get(k)
    BY <1>0, <2>2, MeetView, AbstractGet
  <2> QED
    BY <2>3
<1>5. ASSUME NEW k \in Keys, NEW ms \in Ttls, PexpireCommand(k, ms)
      PROVE  Ttl!Pexpire(k, ms)
  <2>1. /\ db' = SetPexpireTime(db, "string", k, ms, now)
        /\ now' = now
        /\ AnswerOf(reply') = NoVal
        /\ ms \in Int
    BY <1>5, TtlsAssumption DEF PexpireCommand, Answer, AnswerOf
  <2>2. CASE Strings(db)[k] = NoVal
    BY <1>0, <2>1, <2>2, AbstractPexpireNone DEF SetPexpireTime, Has, Strings
  <2>3. CASE Strings(db)[k] # NoVal
    BY <1>0, <2>1, <2>3, PexpireView, AbstractPexpire
  <2> QED
    BY <2>2, <2>3
<1>6. ASSUME NEW k \in Keys, NEW v \in Texts, RpushCommand(k, v)
      PROVE  Ttl!Other
  <2>1. Strings(db') = Strings(db) /\ Dues(db') = Dues(db)
    BY <1>0, <1>6, AddKeyOther DEF RpushCommand
  <2> QED
    BY <1>6, <2>1, OtherRefines DEF RpushCommand
<1>7. ASSUME NEW k \in Keys, RpopCommand(k)
      PROVE  Ttl!Other
  <2>1. Strings(db') = Strings(db) /\ Dues(db') = Dues(db)
    <3>1. CASE ~Has(db, "list", k)
      BY <1>7, <3>1 DEF RpopCommand
    <3>2. CASE Has(db, "list", k)
      <4>1. /\ db'.due = db.due
            /\ \A u \in Types, j \in Keys :
                 u # "list" \/ j # k => db'.dict[u][j] = db.dict[u][j]
        BY <1>0, <1>7, <3>2, RpopListEffect DEF RpopCommand, Sound
      <4> QED
        BY <1>0, <4>1, SameStrings
    <3> QED
      BY <3>1, <3>2
  <2>2. PICK kind, body : Answer("rpop", kind, body)
    BY <1>7 DEF RpopCommand
  <2> QED
    BY <1>7, <2>1, <2>2, OtherRefines DEF RpopCommand
<1>8. ASSUME NEW k \in Keys, NEW f \in Texts, NEW v \in Texts, HsetCommand(k, f, v)
      PROVE  Ttl!Other
  <2>1. Strings(db') = Strings(db) /\ Dues(db') = Dues(db)
    BY <1>0, <1>8, AddKeyOther DEF HsetCommand, HashTexts
  <2> QED
    BY <1>8, <2>1, OtherRefines DEF HsetCommand
<1>9. ASSUME NEW k \in Keys, NEW f \in Texts, HgetCommand(k, f)
      PROVE  Ttl!Other
  <2>1. PICK kind, body : Answer("hget", kind, body)
    BY <1>9 DEF HgetCommand
  <2> QED
    BY <1>9, <2>1, OtherRefines DEF HgetCommand
<1>10. ASSUME NEW k \in Keys, NEW t \in Types \ {"string"}, NEW cmd, cmd # "get",
              GetAll(cmd, t, k)
       PROVE  Ttl!Other
  <2>1. ~JudgeKeyExpiredTime(db, t, k, now)
    BY <1>0, NoDeadlineNeverExpires DEF Sound
  <2>2. db' = db
    BY <1>10, <2>1 DEF GetAll, GetKey
  <2>3. PICK kind, body : Answer(cmd, kind, body)
    BY <1>10 DEF GetAll
  <2> QED
    BY <1>10, <2>2, <2>3, OtherRefines DEF GetAll
<1>11. ASSUME NEW k \in Keys, NEW v \in Texts, SaddCommand(k, v)
       PROVE  Ttl!Other
  <2>1. Strings(db') = Strings(db) /\ Dues(db') = Dues(db)
    BY <1>0, <1>11, AddKeyOther DEF SaddCommand
  <2> QED
    BY <1>11, <2>1, OtherRefines DEF SaddCommand
<1>12. ASSUME NEW k \in Keys, NEW m \in Texts, NEW s \in Scores, ZaddCommand(k, m, s)
       PROVE  Ttl!Other
  <2>1. Strings(db') = Strings(db) /\ Dues(db') = Dues(db)
    BY <1>0, <1>12, AddKeyOther DEF ZaddCommand
  <2> QED
    BY <1>12, <2>1, OtherRefines DEF ZaddCommand
<1>13. ASSUME NEW k \in Keys, ZcardCommand(k)
       PROVE  Ttl!Other
  <2>1. PICK kind, body : Answer("zcard", kind, body)
    BY <1>13 DEF ZcardCommand
  <2> QED
    BY <1>13, <2>1, OtherRefines DEF ZcardCommand
<1>14. ASSUME Tick
       PROVE  Ttl!Tick
  BY <1>0, <1>14, AbstractTick DEF Tick
<1>15. ASSUME UNCHANGED <<db, now, reply>>
       PROVE  UNCHANGED Ttl!vars
  BY <1>15 DEF Ttl!vars, Expired
<1>16. Next => Ttl!Next \/ UNCHANGED <<db, now, reply>>
  <2> SUFFICES ASSUME Next PROVE Ttl!Next \/ UNCHANGED <<db, now, reply>>
    OBVIOUS
  <2>1. CASE \E k \in Keys, v \in Texts : SetCommand(k, v)
    BY <1>1, <2>1 DEF Ttl!Next
  <2>2. CASE \E k \in Keys : GetJudge(k)
    BY <1>2, <1>3, <2>2 DEF Ttl!Next
  <2>3. CASE GetFetch
    BY <1>4, <2>3 DEF Ttl!Next
  <2>4. CASE \E k \in Keys, ms \in Ttls : PexpireCommand(k, ms)
    BY <1>5, <2>4 DEF Ttl!Next
  <2>5. CASE \E k \in Keys : HgetallCommand(k) \/ SmembersCommand(k)
    BY <1>0, <1>10, <2>5 DEF Ttl!Next, HgetallCommand, SmembersCommand
  <2>6. CASE \/ \E k \in Keys, v \in Texts : RpushCommand(k, v) \/ SaddCommand(k, v)
             \/ \E k \in Keys : RpopCommand(k) \/ ZcardCommand(k)
             \/ \E k \in Keys, f \in Texts, v \in Texts : HsetCommand(k, f, v)
             \/ \E k \in Keys, f \in Texts : HgetCommand(k, f)
             \/ \E k \in Keys, m \in Texts, s \in Scores : ZaddCommand(k, m, s)
    BY <1>6, <1>7, <1>8, <1>9, <1>11, <1>12, <1>13, <2>6 DEF Ttl!Next
  <2>7. CASE Tick
    BY <1>14, <2>7 DEF Ttl!Next
  <2>8. CASE \E k \in Keys : RpopEmpty(k)
    BY <2>8 DEF RpopEmpty
  <2> QED
    BY <2>1, <2>2, <2>3, <2>4, <2>5, <2>6, <2>7, <2>8 DEF Next
<1> QED
  BY <1>15, <1>16 DEF vars

\* To a client of set, get and pexpire the server does what TtlStore says: lazy
\* deletion cannot be told from expiry on the tick, whatever the keys, the
\* values and the deadlines, and whenever the clock moves during a get.
THEOREM KeyspaceRefinesTtlStore == Spec => RefinesTtlStore
<1> QED
  BY InitRefines, NextRefines, Invariance, PTL DEF Spec, Ttl!Spec, RefinesTtlStore
=============================================================================
