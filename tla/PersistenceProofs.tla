------------------------- MODULE PersistenceProofs -------------------------
(***************************************************************************)
(* What is proved of the whole server, for any number of databases, keys,  *)
(* children, crashes and loads.                                            *)
(*                                                                         *)
(* The inductive invariant IInv says of the databases, of the dump and of  *)
(* what the children have still to write that they are what the code takes *)
(* them for, and hold no strings but those clients have set.  That a save  *)
(* and a load keep it is shown for each loop of theirs by an induction on  *)
(* its turns (Recursion): a set of states that every turn keeps to holds   *)
(* the last state.  That set is Loaded(V, old) for a load: the databases   *)
(* that hold strings of V and have lost nothing of old.                    *)
(***************************************************************************)
EXTENDS Persistence, DatabaseProofs, FiniteSetTheorems, Recursion

-----------------------------------------------------------------------------
(* Databases as elements of a set.                                         *)

\* The records that databases are.
Records == [dict : [Types -> [Keys -> {NoVal} \cup UNION {Objects(t) : t \in Types}]],
            due  : [Types -> [Keys -> Int]]]

\* The strings of d are of V, and it has no empty hash and no empty zset.
Holds(d, V) ==
  \A k \in Keys :
    /\ Has(d, "string", k) => <<k, d.dict["string"][k]>> \in V
    /\ Has(d, "hash", k) => DOMAIN d.dict["hash"][k] # {}
    /\ Has(d, "zset", k) => d.dict["zset"][k] # <<>>

Databases(V) == {d \in Records : IsDatabase(d) /\ Holds(d, V)}

\* What a load keeps of an object o of type t, when it leaves n.
Kept(t, o, n) ==
  /\ n # NoVal
  /\ t = "list" => IsPrefix(o, n)
  /\ t = "hash" => DOMAIN o \subseteq DOMAIN n
  /\ t = "set" => o \subseteq n

Extends(d, old) ==
  /\ d.due = old.due
  /\ \A k \in Keys :
       /\ \A t \in Types : Has(old, t, k) => Kept(t, old.dict[t][k], d.dict[t][k])
       /\ d.dict["zset"][k] = old.dict["zset"][k]

\* What may become of old by a load of strings of V.
Loaded(V, old) == {d \in Databases(V) : Extends(d, old)}

\* The records of the data model, as an element of a set.
LEMMA ADatabaseIsARecord ==
  ASSUME NEW d, d = [dict |-> d.dict, due |-> d.due], IsDatabase(d)
  PROVE  d \in Records
<1> DEFINE Values == {NoVal} \cup UNION {Objects(t) : t \in Types}
<1>1. \A t \in Types : Objects(t) \subseteq Values
  OBVIOUS
<1>2. \A t \in Types, k \in Keys : d.dict[t][k] \in Values
  BY <1>1 DEF IsDatabase
<1> HIDE DEF Values
<1>3. \A t \in Types : d.dict[t] \in [Keys -> Values]
  BY <1>2 DEF IsDatabase
<1>4. d.dict \in [Types -> [Keys -> Values]]
  BY <1>3 DEF IsDatabase
<1>5. d.due \in [Types -> [Keys -> Int]]
  BY DEF IsDatabase
<1>6. d \in [dict : [Types -> [Keys -> Values]], due : [Types -> [Keys -> Int]]]
  BY <1>4, <1>5
<1> QED
  BY <1>6 DEF Records, Values

\* A database nothing was written to is one.
LEMMA EmptyIsDatabase ==
  ASSUME NEW V
  PROVE  EmptyDb \in Databases(V)
<1>1. IsDatabase(EmptyDb)
  BY DEF IsDatabase, EmptyDb, NoDeadline
<1>2. EmptyDb = [dict |-> EmptyDb.dict, due |-> EmptyDb.due]
  BY DEF EmptyDb
<1>3. Holds(EmptyDb, V)
  BY DEF Holds, Has, EmptyDb, Types
<1> QED
  BY <1>1, <1>2, <1>3, ADatabaseIsARecord DEF Databases

\* No database loses a string when more are allowed.
LEMMA DatabasesMonotone ==
  ASSUME NEW V, NEW W, V \subseteq W
  PROVE  Databases(V) \subseteq Databases(W)
BY DEF Databases, Holds

\* An object that replaces none or another of its type.
LEMMA PutHolds ==
  ASSUME NEW V, NEW d \in Databases(V), NEW t \in Types, NEW k \in Keys,
         NEW o \in {NoVal} \cup Objects(t),
         o # NoVal =>
           /\ t = "string" => <<k, o>> \in V
           /\ t = "hash" => DOMAIN o # {}
           /\ t = "zset" => o # <<>>
  PROVE  Put(d, t, k, o) \in Databases(V)
<1> DEFINE e == Put(d, t, k, o)
<1>1. e = [dict |-> e.dict, due |-> e.due]
  BY DEF Put
<1>2. IsDatabase(d) /\ Holds(d, V)
  BY DEF Databases
<1>3. /\ IsDatabase(e)
      /\ \A u \in Types, j \in Keys :
           e.dict[u][j] = IF u = t /\ j = k THEN o ELSE d.dict[u][j]
  BY <1>2, PutObject
<1> HIDE DEF e
<1>4. Holds(e, V)
  <2> SUFFICES ASSUME NEW j \in Keys
               PROVE  /\ Has(e, "string", j) => <<j, e.dict["string"][j]>> \in V
                      /\ Has(e, "hash", j) => DOMAIN e.dict["hash"][j] # {}
                      /\ Has(e, "zset", j) => e.dict["zset"][j] # <<>>
    BY DEF Holds
  <2>1. {"string", "hash", "zset"} \subseteq Types
    BY DEF Types
  <2>2. /\ d.dict["string"][j] # NoVal => <<j, d.dict["string"][j]>> \in V
        /\ d.dict["hash"][j] # NoVal => DOMAIN d.dict["hash"][j] # {}
        /\ d.dict["zset"][j] # NoVal => d.dict["zset"][j] # <<>>
    BY <1>2 DEF Holds, Has
  <2>3. \A u \in {"string", "hash", "zset"} :
          e.dict[u][j] = IF u = t /\ j = k THEN o ELSE d.dict[u][j]
    BY <1>3, <2>1
  <2>4. Has(e, "string", j) => <<j, e.dict["string"][j]>> \in V
    BY <2>2, <2>3 DEF Has
  <2>5. Has(e, "hash", j) => DOMAIN e.dict["hash"][j] # {}
    BY <2>2, <2>3 DEF Has
  <2>6. Has(e, "zset", j) => e.dict["zset"][j] # <<>>
    BY <2>2, <2>3 DEF Has
  <2> QED
    BY <2>4, <2>5, <2>6
<1> QED
  BY <1>1, <1>3, <1>4, ADatabaseIsARecord DEF Databases, e

\* Writing a deadline, whatever its value, leaves a database of the same strings.
LEMMA PutDueHolds ==
  ASSUME NEW V, NEW d \in Databases(V), NEW t \in Types, NEW k \in Keys, NEW x \in Int
  PROVE  PutDue(d, t, k, x) \in Databases(V)
<1> DEFINE e == PutDue(d, t, k, x)
<1>1. e = [dict |-> e.dict, due |-> e.due]
  BY DEF PutDue
<1>2. IsDatabase(d) /\ Holds(d, V)
  BY DEF Databases
<1>3. /\ IsDatabase(e)
      /\ e.dict = d.dict
      /\ e.due = [d.due EXCEPT ![t] = [d.due[t] EXCEPT ![k] = x]]
  BY <1>2, PutDeadline
<1> HIDE DEF e
<1>4. Holds(e, V)
  BY <1>2, <1>3 DEF Holds, Has
<1> QED
  BY <1>1, <1>3, <1>4, ADatabaseIsARecord DEF Databases, e

\* An object to which something was added is not empty.
LEMMA GrownIsNotEmpty ==
  ASSUME NEW t \in Types, NEW object \in {NoVal} \cup Objects(t),
         NEW objKey \in Texts, NEW objValue,
         t = "zset" => objValue \in Scores,
         NEW o \in Grown(t, object, objKey, objValue)
  PROVE  /\ t = "string" => o = objKey
         /\ t = "hash" => DOMAIN o # {}
         /\ t = "zset" => o # <<>>
<1>1. t = "string" => o = objKey
  BY DEF Grown
<1>2. ASSUME t = "hash" PROVE DOMAIN o # {}
  <2> DEFINE F == {objKey} \cup (IF object = NoVal THEN {} ELSE DOMAIN object)
  <2>1. o = [f \in F |-> IF f = objKey THEN objValue ELSE object[f]]
    BY <1>2 DEF Grown
  <2> QED
    BY <2>1
<1>3. ASSUME t = "zset" PROVE o # <<>>
  <2> DEFINE z == IF object = NoVal THEN <<>> ELSE object
             e == [obj |-> objKey, score |-> objValue]
  <2>1. z \in Seq(Members)
    BY <1>3, EmptySeq DEF Objects
  <2>2. PICK p \in InsertPositions(z, objKey, objValue) : o = InsertAt(z, p, e)
    BY <1>3 DEF Grown
  <2>3. e \in Members /\ p \in 1..Len(z) + 1
    BY <1>3, <2>2 DEF Members, InsertPositions
  <2> HIDE DEF z, e
  <2>4. /\ InsertAt(z, p, e) \in Seq(Members)
        /\ Len(InsertAt(z, p, e)) = Len(z) + 1
    BY <2>1, <2>3, InsertAtEffect
  <2>5. o \in Seq(Members) /\ Len(o) = Len(z) + 1 /\ Len(z) \in Nat
    BY <2>1, <2>2, <2>4
  <2> QED
    BY <2>5, EmptySeq
<1> QED
  BY <1>1, <1>2, <1>3

\* addKey leaves a database of the set, if a string is one of V.
LEMMA AddKeyHolds ==
  ASSUME NEW V, NEW d \in Databases(V), NEW t \in Types, NEW k \in Keys,
         NEW objKey \in Texts, NEW objValue,
         t = "string" => <<k, objKey>> \in V,
         t = "hash" => objValue \in HashTexts,
         t = "zset" => objValue \in Scores
  PROVE  AddKey(d, t, k, objKey, objValue) \subseteq Databases(V)
<1> SUFFICES ASSUME NEW o \in Grown(t, d.dict[t][k], objKey, objValue)
             PROVE  Put(d, t, k, o) \in Databases(V)
  BY DEF AddKey
<1>1. d.dict[t][k] \in {NoVal} \cup Objects(t)
  BY DEF Databases, IsDatabase
<1>2. o \in Objects(t)
  BY <1>1, GrownIsObject
<1>3. /\ t = "string" => o = objKey
      /\ t = "hash" => DOMAIN o # {}
      /\ t = "zset" => o # <<>>
  BY <1>1, GrownIsNotEmpty
<1> QED
  BY <1>2, <1>3, PutHolds

\* Database::delKey: what is left is still a database of the same strings.
LEMMA DelKeyHolds ==
  ASSUME NEW V, NEW d \in Databases(V), NEW t \in Types, NEW k \in Keys
  PROVE  DelKey(d, t, k) \in Databases(V)
<1>1. Put(d, t, k, NoVal) \in Databases(V)
  BY PutHolds
<1>2. NoDeadline \in Int
  BY DEF NoDeadline
<1>3. PutDue(Put(d, t, k, NoVal), t, k, NoDeadline) \in Databases(V)
  BY <1>1, <1>2, PutDueHolds
<1> QED
  BY <1>3 DEF DelKey

\* The lookup every handler starts with drops an expired key or nothing.
LEMMA GetKeyHolds ==
  ASSUME NEW V, NEW d \in Databases(V), NEW t \in Types, NEW k \in Keys, NEW time
  PROVE  GetKey(d, t, k, time) \in Databases(V)
BY DelKeyHolds DEF GetKey

\* The deadline PEXPIRE writes is an integer, even when it is the past.
LEMMA SetPexpireTimeHolds ==
  ASSUME NEW V, NEW d \in Databases(V), NEW t \in Types, NEW k \in Keys,
         NEW ms \in Int, NEW time \in Int
  PROVE  SetPexpireTime(d, t, k, ms, time) \in Databases(V)
<1> DEFINE x == ms + time
<1>1. x \in Int
  OBVIOUS
<1> HIDE DEF x
<1>2. PutDue(d, t, k, x) \in Databases(V)
  BY <1>1, PutDueHolds
<1> QED
  BY <1>2 DEF SetPexpireTime, x

\* RPOP of a list that has an element: the shorter list stays in the domain, even
\* when it becomes empty.
LEMMA RpopListHolds ==
  ASSUME NEW V, NEW d \in Databases(V), NEW k \in Keys,
         Has(d, "list", k), d.dict["list"][k] # <<>>
  PROVE  RpopList(d, k) \in Databases(V)
<1> DEFINE s == d.dict["list"][k]
           o == Front(s)
<1>1. "list" \in Types /\ s \in Seq(Texts)
  <2>1. "list" \in Types /\ s \in {NoVal} \cup Objects("list")
    BY DEF Databases, IsDatabase, Types
  <2> QED
    BY <2>1 DEF Has, Objects
<1>2. o \in Objects("list")
  <2>1. /\ Len(s) \in Nat
        /\ \A i \in 1..Len(s) - 1 : s[i] \in Texts
    BY <1>1, LenProperties, ElementOfSeq
  <2>2. SubSeq(s, 1, Len(s) - 1) \in Seq(Texts)
    BY <2>1, SubSeqProperties
  <2> QED
    BY <2>2 DEF Front, Objects
<1>3. RpopList(d, k) = Put(d, "list", k, o)
  BY DEF RpopList
<1> HIDE DEF o
<1> QED
  BY <1>1, <1>2, <1>3, PutHolds

\* What addKey makes of an object has kept whatever the object had kept.
LEMMA GrownKeeps ==
  ASSUME NEW t \in Types \ {"zset"}, NEW a \in Objects(t), NEW b \in Objects(t),
         Kept(t, a, b), NEW objKey \in Texts, NEW objValue,
         NEW c \in Grown(t, b, objKey, objValue), c # NoVal
  PROVE  Kept(t, a, c)
<1>0. b # NoVal
  BY ObjectIsNotNoVal
<1>1. CASE t = "list"
  <2>1. a \in Seq(Texts) /\ b \in Seq(Texts) /\ IsPrefix(a, b)
    BY <1>1 DEF Objects, Kept
  <2>2. c = Append(b, objKey)
    BY <1>0, <1>1 DEF Grown
  <2>3. Len(a) \in Nat /\ Len(b) \in Nat /\ Len(a) <= Len(b) /\ Len(c) = Len(b) + 1
    BY <2>1, <2>2, LenProperties, AppendProperties DEF IsPrefix
  <2>4. \A i \in 1..Len(a) : c[i] = b[i]
    BY <2>1, <2>2, <2>3, AppendProperties
  <2>5. SubSeq(c, 1, Len(a)) = SubSeq(b, 1, Len(a))
    BY <2>1, <2>2, <2>3, <2>4
  <2> QED
    BY <1>1, <2>1, <2>3, <2>5 DEF Kept, IsPrefix
<1>2. CASE t = "hash"
  <2> DEFINE F == {objKey} \cup DOMAIN b
  <2>1. c = [f \in F |-> IF f = objKey THEN objValue ELSE b[f]]
    BY <1>0, <1>2 DEF Grown
  <2>2. DOMAIN c = F
    BY <2>1
  <2> QED
    BY <1>2, <2>2 DEF Kept
<1>3. CASE t = "set"
  BY <1>0, <1>3 DEF Grown, Kept
<1>4. CASE t = "string"
  BY <1>4 DEF Kept
<1> QED
  BY <1>1, <1>2, <1>3, <1>4 DEF Types

\* addKey, on a database that a load is filling.
LEMMA AddKeyLoaded ==
  ASSUME NEW V, NEW old \in Databases(V), NEW d \in Loaded(V, old),
         NEW t \in Types \ {"zset"}, NEW k \in Keys,
         NEW objKey \in Texts, NEW objValue,
         t = "string" => <<k, objKey>> \in V,
         t = "hash" => objValue \in HashTexts
  PROVE  AddKey(d, t, k, objKey, objValue) \subseteq Loaded(V, old)
<1> SUFFICES ASSUME NEW e \in AddKey(d, t, k, objKey, objValue)
             PROVE  e \in Loaded(V, old)
  OBVIOUS
<1>1. d \in Databases(V) /\ Extends(d, old) /\ IsDatabase(d) /\ IsDatabase(old)
  BY DEF Loaded, Databases
<1>2. e \in Databases(V)
  BY <1>1, AddKeyHolds
<1>3. /\ e.due = d.due
      /\ \A u \in Types, j \in Keys :
           u # t \/ j # k => e.dict[u][j] = d.dict[u][j]
      /\ e.dict[t][k] \in Grown(t, d.dict[t][k], objKey, objValue)
      /\ e.dict[t][k] # NoVal
  BY <1>1, AddKeyEffect DEF Has
<1>4. ASSUME NEW j \in Keys, NEW u \in Types, Has(old, u, j)
      PROVE  Kept(u, old.dict[u][j], e.dict[u][j])
  <2>1. Kept(u, old.dict[u][j], d.dict[u][j])
    BY <1>1, <1>4 DEF Extends
  <2>2. CASE u # t \/ j # k
    BY <1>3, <2>1, <2>2
  <2>3. CASE u = t /\ j = k
    <3>1. old.dict[t][k] \in Objects(t) /\ d.dict[t][k] \in Objects(t)
      BY <1>1, <1>4, <2>1, <2>3 DEF IsDatabase, Has, Kept
    <3> QED
      BY <1>3, <2>1, <2>3, <3>1, GrownKeeps
  <2> QED
    BY <2>2, <2>3
<1>5. \A j \in Keys : e.dict["zset"][j] = old.dict["zset"][j]
  <2>1. "zset" \in Types /\ t # "zset"
    BY DEF Types
  <2> QED
    BY <1>1, <1>3, <2>1 DEF Extends
<1>6. Extends(e, old)
  BY <1>1, <1>3, <1>4, <1>5 DEF Extends
<1> QED
  BY <1>2, <1>6 DEF Loaded

\* A load that has not begun.
LEMMA LoadedFirst ==
  ASSUME NEW V, NEW old \in Databases(V)
  PROVE  old \in Loaded(V, old)
<1>1. ASSUME NEW k \in Keys, NEW t \in Types, Has(old, t, k)
      PROVE  Kept(t, old.dict[t][k], old.dict[t][k])
  <2>1. old.dict[t][k] \in Objects(t)
    BY <1>1 DEF Databases, IsDatabase, Has
  <2>2. t = "list" => Len(old.dict[t][k]) \in Nat
    BY <2>1 DEF Objects
  <2> QED
    BY <1>1, <2>2 DEF Kept, Has, IsPrefix
<1>2. Extends(old, old)
  BY <1>1 DEF Extends
<1> QED
  BY <1>2 DEF Loaded

\* Whatever holds of the first database and is kept by every addKey holds of
\* what AddAll leaves: D is the set of the databases of which it holds.
LEMMA AddAllWithin ==
  ASSUME NEW D, NEW db \in D, NEW t, NEW k, NEW E, NEW pairs \in Seq(E),
         \A i \in 1..Len(pairs), d \in D : AddKey(d, t, k, pairs[i].field, pairs[i].value) \subseteq D
  PROVE  AddAll(db, t, k, pairs) \subseteq D
<1> DEFINE N == Len(pairs)
           Is(f) == f = [n \in 0..N |-> IF n = 0 THEN {db} ELSE AddPair(f[n - 1], t, k, pairs[n])]
           step == [n \in 0..N |-> [X \in SUBSET D |->
                      IF n = 0 THEN X ELSE AddPair(X, t, k, pairs[n])]]
<1>1. N \in Nat
  OBVIOUS
<1>2. \A n \in 1..N, X \in SUBSET D : AddPair(X, t, k, pairs[n]) \in SUBSET D
  BY DEF AddPair
<1> HIDE DEF N
<1>3. \E f : Is(f)
  <2>1. step \in [0..N -> [SUBSET D -> SUBSET D]]
    <3>1. \A n \in 0..N : n = 0 \/ n \in 1..N
      BY <1>1
    <3>2. \A n \in 0..N : [X \in SUBSET D |-> IF n = 0 THEN X ELSE AddPair(X, t, k, pairs[n])]
                            \in [SUBSET D -> SUBSET D]
      BY <1>2, <3>1
    <3> QED
      BY <3>2
  <2>2. PICK g \in [0..N -> SUBSET D] :
          \A n \in 0..N : g[n] = IF n = 0 THEN {db} ELSE step[n][g[n - 1]]
    <3> DEFINE S == SUBSET D
               first == {db}
    <3>1. first \in S /\ step \in Steps(0, N, S) /\ 0 \in Nat
      BY <2>1 DEF Steps
    <3> HIDE DEF step, S, first
    <3>2. \E g \in [0..N -> S] : Iterates(g, 0, N, first, step)
      BY <1>1, <3>1, RecursiveFunction
    <3> QED
      BY <3>2 DEF S, first, Iterates
  <2>3. ASSUME NEW n \in 0..N, n # 0
        PROVE  step[n][g[n - 1]] = AddPair(g[n - 1], t, k, pairs[n])
    <3>1. g[n - 1] \in SUBSET D
      BY <1>1, <2>3
    <3>2. step[n] = [X \in SUBSET D |-> AddPair(X, t, k, pairs[n])]
      BY <2>3
    <3> HIDE DEF step
    <3> QED
      BY <3>1, <3>2
  <2>4. \A n \in 0..N : g[n] = IF n = 0 THEN {db} ELSE AddPair(g[n - 1], t, k, pairs[n])
    <3> HIDE DEF step
    <3> QED
      BY <1>1, <2>2, <2>3
  <2>5. Is(g)
    BY <2>4
  <2> QED
    BY <2>5
<1>4. PICK f : Is(f) /\ AddAll(db, t, k, pairs) = f[N]
  BY <1>3 DEF AddAll, N
<1> DEFINE T == {n \in 0..N : f[n] \in SUBSET D}
<1>5. 0 \in T
  BY <1>1, <1>4
<1>6. ASSUME NEW n \in 0..N - 1, n \in T
      PROVE  n + 1 \in T
  <2>1. n + 1 \in 0..N /\ n + 1 # 0 /\ (n + 1) - 1 = n /\ n + 1 \in 1..N
    BY <1>1
  <2>2. f[n + 1] = AddPair(f[n], t, k, pairs[n + 1])
    BY <1>4, <2>1
  <2> QED
    BY <1>2, <1>6, <2>1, <2>2
<1>7. 0..N \subseteq T
  <2> HIDE DEF T
  <2> QED
    BY <1>1, <1>5, <1>6, SetInduction
<1> QED
  BY <1>1, <1>4, <1>7

\* Whatever holds in front of a block and is kept by every entry holds behind
\* it.
LEMMA LoadBlockWithin ==
  ASSUME NEW D, NEW db, [db |-> db, cursor |-> "after"] \in D,
         NEW E, NEW block, block.entries \in Seq(E), NEW time,
         \A i \in 1..Len(block.entries), r \in D :
           LoadEntry(r, block.type, block.entries[i], time) \subseteq D
  PROVE  LoadBlock(db, block, time) \subseteq D
<1> DEFINE N == Len(block.entries)
           Is(f) == f = [n \in 0..N |->
                      IF n = 0 THEN {[db |-> db, cursor |-> "after"]}
                      ELSE LoadEntries(f[n - 1], block.type, block.entries[n], time)]
           step == [n \in 0..N |-> [X \in SUBSET D |->
                      IF n = 0 THEN X ELSE LoadEntries(X, block.type, block.entries[n], time)]]
<1>1. N \in Nat
  OBVIOUS
<1>2. \A n \in 1..N, X \in SUBSET D : LoadEntries(X, block.type, block.entries[n], time) \in SUBSET D
  BY DEF LoadEntries
<1> HIDE DEF N
<1>3. \E f : Is(f)
  <2>1. step \in [0..N -> [SUBSET D -> SUBSET D]]
    <3>1. \A n \in 0..N : n = 0 \/ n \in 1..N
      BY <1>1
    <3>2. \A n \in 0..N :
            [X \in SUBSET D |->
               IF n = 0 THEN X ELSE LoadEntries(X, block.type, block.entries[n], time)]
                            \in [SUBSET D -> SUBSET D]
      BY <1>2, <3>1
    <3> QED
      BY <3>2
  <2>2. PICK g \in [0..N -> SUBSET D] :
          \A n \in 0..N : g[n] = IF n = 0 THEN {[db |-> db, cursor |-> "after"]} ELSE step[n][g[n - 1]]
    <3> DEFINE S == SUBSET D
               first == {[db |-> db, cursor |-> "after"]}
    <3>1. first \in S /\ step \in Steps(0, N, S) /\ 0 \in Nat
      BY <1>1, <2>1 DEF Steps
    <3> HIDE DEF step, S, first
    <3>2. \E g \in [0..N -> S] : Iterates(g, 0, N, first, step)
      BY <1>1, <3>1, RecursiveFunction
    <3> QED
      BY <3>2 DEF S, first, Iterates
  <2>3. ASSUME NEW n \in 0..N, n # 0
        PROVE  step[n][g[n - 1]] = LoadEntries(g[n - 1], block.type, block.entries[n], time)
    <3>1. g[n - 1] \in SUBSET D
      BY <1>1, <2>3
    <3>2. step[n] = [X \in SUBSET D |-> LoadEntries(X, block.type, block.entries[n], time)]
      BY <2>3
    <3> HIDE DEF step
    <3> QED
      BY <3>1, <3>2
  <2>4. \A n \in 0..N :
          g[n] = IF n = 0 THEN {[db |-> db, cursor |-> "after"]}
                 ELSE LoadEntries(g[n - 1], block.type, block.entries[n], time)
    <3> HIDE DEF step
    <3> QED
      BY <1>1, <2>2, <2>3
  <2>5. Is(g)
    BY <2>4
  <2> QED
    BY <2>5
<1>4. PICK f : Is(f) /\ LoadBlock(db, block, time) = f[N]
  BY <1>3 DEF LoadBlock, N
<1> DEFINE T == {n \in 0..N : f[n] \in SUBSET D}
<1>5. 0 \in T
  BY <1>1, <1>4
<1>6. ASSUME NEW n \in 0..N - 1, n \in T
      PROVE  n + 1 \in T
  <2>1. n + 1 \in 0..N /\ n + 1 # 0 /\ (n + 1) - 1 = n /\ n + 1 \in 1..N
    BY <1>1
  <2>2. f[n + 1] = LoadEntries(f[n], block.type, block.entries[n + 1], time)
    BY <1>4, <2>1
  <2> QED
    BY <1>2, <1>6, <2>1, <2>2
<1>7. 0..N \subseteq T
  <2> HIDE DEF T
  <2> QED
    BY <1>1, <1>5, <1>6, SetInduction
<1> QED
  BY <1>1, <1>4, <1>7

\* Every turn at a block of section s keeps to D, and the last one leads to F.
TurnsWithin(D, file, s, p, time) ==
  \A b \in 1..Len(file[s].blocks), X \in SUBSET D : Turns(X, file, s, b, p, time) \subseteq D

LastTurnLeads(D, F, file, s, p, time) ==
  \A X \in SUBSET D : Turns(X, file, s, Len(file[s].blocks), p, time) \subseteq F

\* Then so does the section.
LEMMA LoadSectionWithin ==
  ASSUME NEW D, NEW F, NEW rs \in SUBSET D, NEW E, NEW S, NEW file \in Seq(S),
         NEW s \in 1..Len(file), file[s].blocks \in Seq(E), Len(file[s].blocks) # 0,
         NEW p, NEW time,
         TurnsWithin(D, file, s, p, time), LastTurnLeads(D, F, file, s, p, time)
  PROVE  /\ LoadSection(rs, file, s, p, time) \subseteq D
         /\ LoadSection(rs, file, s, p, time) \subseteq F
<1> DEFINE N == Len(file[s].blocks)
           Is(f) == f = [n \in 0..N |-> IF n = 0 THEN rs ELSE Turns(f[n - 1], file, s, n, p, time)]
           step == [n \in 0..N |-> [X \in SUBSET D |->
                      IF n = 0 THEN X ELSE Turns(X, file, s, n, p, time)]]
<1>1. N \in Nat
  OBVIOUS
<1>2. \A n \in 1..N, X \in SUBSET D : Turns(X, file, s, n, p, time) \in SUBSET D
  BY DEF TurnsWithin
<1>0. N # 0
  OBVIOUS
<1> HIDE DEF N
<1>3. \E f : Is(f)
  <2>1. step \in [0..N -> [SUBSET D -> SUBSET D]]
    <3>1. \A n \in 0..N : n = 0 \/ n \in 1..N
      BY <1>1
    <3>2. \A n \in 0..N : [X \in SUBSET D |-> IF n = 0 THEN X ELSE Turns(X, file, s, n, p, time)]
                            \in [SUBSET D -> SUBSET D]
      BY <1>2, <3>1
    <3> QED
      BY <3>2
  <2>2. PICK g \in [0..N -> SUBSET D] :
          \A n \in 0..N : g[n] = IF n = 0 THEN rs ELSE step[n][g[n - 1]]
    <3> DEFINE States == SUBSET D
               first == rs
    <3>1. first \in States /\ step \in Steps(0, N, States) /\ 0 \in Nat
      BY <1>1, <2>1 DEF Steps
    <3> HIDE DEF step, States, first
    <3>2. \E g \in [0..N -> States] : Iterates(g, 0, N, first, step)
      BY <1>1, <3>1, RecursiveFunction
    <3> QED
      BY <3>2 DEF States, first, Iterates
  <2>3. ASSUME NEW n \in 0..N, n # 0
        PROVE  step[n][g[n - 1]] = Turns(g[n - 1], file, s, n, p, time)
    <3>1. g[n - 1] \in SUBSET D
      BY <1>1, <2>3
    <3>2. step[n] = [X \in SUBSET D |-> Turns(X, file, s, n, p, time)]
      BY <2>3
    <3> HIDE DEF step
    <3> QED
      BY <3>1, <3>2
  <2>4. \A n \in 0..N : g[n] = IF n = 0 THEN rs ELSE Turns(g[n - 1], file, s, n, p, time)
    <3> HIDE DEF step
    <3> QED
      BY <1>1, <2>2, <2>3
  <2>5. Is(g)
    BY <2>4
  <2> QED
    BY <2>5
<1>4. PICK f : Is(f) /\ LoadSection(rs, file, s, p, time) = f[N]
  BY <1>3 DEF LoadSection, N
<1> DEFINE T == {n \in 0..N : f[n] \in SUBSET D}
<1>5. 0 \in T
  BY <1>1, <1>4
<1>6. ASSUME NEW n \in 0..N - 1, n \in T
      PROVE  n + 1 \in T
  <2>1. n + 1 \in 0..N /\ n + 1 # 0 /\ (n + 1) - 1 = n /\ n + 1 \in 1..N
    BY <1>1
  <2>2. f[n + 1] = Turns(f[n], file, s, n + 1, p, time)
    BY <1>4, <2>1
  <2> QED
    BY <1>2, <1>6, <2>1, <2>2
<1>7. 0..N \subseteq T
  <2> HIDE DEF T
  <2> QED
    BY <1>1, <1>5, <1>6, SetInduction
<1>8. f[N] \subseteq F
  <2>1. N \in 0..N /\ N # 0 /\ N - 1 \in 0..N
    BY <1>0, <1>1
  <2>2. f[N - 1] \in SUBSET D /\ f[N] = Turns(f[N - 1], file, s, N, p, time)
    BY <1>4, <1>7, <2>1
  <2> QED
    BY <2>2 DEF N, LastTurnLeads
<1> QED
  BY <1>1, <1>4, <1>7, <1>8

\* The section that rdbLoad looks for.
First(file, index) == Min({s \in DOMAIN file : file[s].db = index})

\* The same of a load, from the first section that is looked for to the last
\* one of the file.
LEMMA RdbLoadWithin ==
  ASSUME NEW D, NEW db, [db |-> db, go |-> "next"] \in D,
         NEW E, NEW file \in Seq(E), NEW index, NEW time,
         First(file, index) \in 1..Len(file), file[First(file, index)].db = index,
         First(file, index) # Len(file) \/ First(file, index) = 1,
         \A s \in First(file, index)..Len(file), X \in SUBSET D :
           LoadSection(X, file, s, First(file, index), time) \subseteq D
  PROVE  /\ RdbLoad(file, index, db, time) \subseteq D
         /\ \E X \in SUBSET D :
              RdbLoad(file, index, db, time)
                = LoadSection(X, file, Len(file), First(file, index), time)
<1> DEFINE p == First(file, index)
           N == Len(file)
           m == p - 1
           Is(f) == f = [n \in m..N |-> IF n = m THEN {[db |-> db, go |-> "next"]}
                                        ELSE LoadSection(f[n - 1], file, n, p, time)]
           step == [n \in m..N |-> [X \in SUBSET D |->
                      IF n = m THEN X ELSE LoadSection(X, file, n, p, time)]]
<1>1. N \in Nat /\ m \in Nat /\ m < N
  OBVIOUS
<1>2. \A n \in m + 1..N, X \in SUBSET D : LoadSection(X, file, n, p, time) \in SUBSET D
  OBVIOUS
<1> HIDE DEF N, m, p
<1>3. \E f : Is(f)
  <2>1. step \in [m..N -> [SUBSET D -> SUBSET D]]
    <3>1. \A n \in m..N : n = m \/ n \in m + 1..N
      BY <1>1
    <3>2. \A n \in m..N : [X \in SUBSET D |-> IF n = m THEN X ELSE LoadSection(X, file, n, p, time)]
                            \in [SUBSET D -> SUBSET D]
      BY <1>2, <3>1
    <3> QED
      BY <3>2
  <2>2. PICK g \in [m..N -> SUBSET D] :
          \A n \in m..N : g[n] = IF n = m THEN {[db |-> db, go |-> "next"]} ELSE step[n][g[n - 1]]
    <3> DEFINE S == SUBSET D
               first == {[db |-> db, go |-> "next"]}
    <3>1. first \in S /\ step \in Steps(m, N, S) /\ m \in Nat
      BY <1>1, <2>1 DEF Steps
    <3> HIDE DEF step, S, first
    <3>2. \E g \in [m..N -> S] : Iterates(g, m, N, first, step)
      BY <1>1, <3>1, RecursiveFunction
    <3> QED
      BY <3>2 DEF S, first, Iterates
  <2>3. ASSUME NEW n \in m..N, n # m
        PROVE  step[n][g[n - 1]] = LoadSection(g[n - 1], file, n, p, time)
    <3>1. g[n - 1] \in SUBSET D
      BY <1>1, <2>3
    <3>2. step[n] = [X \in SUBSET D |-> LoadSection(X, file, n, p, time)]
      BY <2>3
    <3> HIDE DEF step
    <3> QED
      BY <3>1, <3>2
  <2>4. \A n \in m..N :
          g[n] = IF n = m THEN {[db |-> db, go |-> "next"]}
                 ELSE LoadSection(g[n - 1], file, n, p, time)
    <3> HIDE DEF step
    <3> QED
      BY <1>1, <2>2, <2>3
  <2>5. Is(g)
    BY <2>4
  <2> QED
    BY <2>5
<1>9. {s \in DOMAIN file : file[s].db = index} # {} /\ ~(p = Len(file) /\ p > 1)
  <2>1. p \in DOMAIN file /\ file[p].db = index /\ p \in Nat
    BY DEF p
  <2> QED
    BY <2>1 DEF p
<1>4. PICK f : Is(f) /\ RdbLoad(file, index, db, time) = f[N]
  BY <1>3, <1>9 DEF RdbLoad, N, m, p, First
<1> DEFINE T == {n \in m..N : f[n] \in SUBSET D}
<1>5. m \in T
  BY <1>1, <1>4
<1>6. ASSUME NEW n \in m..N - 1, n \in T
      PROVE  n + 1 \in T
  <2>1. n + 1 \in m..N /\ n + 1 # m /\ (n + 1) - 1 = n /\ n + 1 \in m + 1..N
    BY <1>1
  <2>2. f[n + 1] = LoadSection(f[n], file, n + 1, p, time)
    BY <1>4, <2>1
  <2> QED
    BY <1>2, <1>6, <2>1, <2>2
<1>7. m..N \subseteq T
  <2> HIDE DEF T
  <2> QED
    BY <1>1, <1>5, <1>6, SetInduction
<1>8. \E X \in SUBSET D :
        RdbLoad(file, index, db, time) = LoadSection(X, file, Len(file), First(file, index), time)
  <2>1. N \in m..N /\ N # m /\ N - 1 \in m..N
    BY <1>1, <1>1 DEF N
  <2>2. f[N - 1] \in SUBSET D /\ f[N] = LoadSection(f[N - 1], file, N, p, time)
    BY <1>4, <1>7, <2>1
  <2> QED
    BY <1>4, <2>2 DEF N, p
<1>10. f[N] \subseteq D
  <2>1. N \in m..N
    BY <1>1
  <2> QED
    BY <1>7, <2>1
<1> QED
  BY <1>4, <1>8, <1>10

\* What FlattenSeq makes of sequences over a set is one over that set.

-----------------------------------------------------------------------------
(* What a dump holds.                                                      *)

\* The types whose entries are pairs.
Paired == {"hash", "zset"}

Element(t) == IF t \in Paired THEN [field : Texts, value : HashTexts] ELSE Texts

\* The entries that rdbSave writes for objects of type t, its strings in V.  No
\* hash and no zset is empty, but there may be nothing written of a zset.
Entries(t, V) ==
  {e \in [key : Keys, due : Int, count : Nat, items : Seq(Element(t))] :
     /\ t = "string" => Len(e.items) = 1 /\ <<e.key, e.items[1]>> \in V
     /\ t \in Paired => e.count > 0
     /\ t # "zset" => e.count = Len(e.items)}

Blocks(V) == UNION {[type : {t}, entries : Seq(Entries(t, V))] : t \in Types}

Sections(V) == {s \in [db : Indices, blocks : Seq(Blocks(V))] : s.blocks # <<>>}

\* An entry that leaves the cursor behind it.
SimpleEntry(t, e) ==
  e.count = Len(e.items) /\ (t \in {"list", "set"} => Len(e.items) = 1)

-----------------------------------------------------------------------------
(* Loading an entry.                                                       *)

\* What the reading loop of rdbLoad makes of the bytes of an entry are texts still.
LEMMA ReadItemsAreTexts ==
  ASSUME NEW items \in Seq(Texts)
  PROVE  ReadItems(items) \in Seq(Texts)
<1>1. CASE Len(items) < 2
  BY <1>1 DEF ReadItems
<1>2. CASE ~(Len(items) < 2)
  <2>1. Len(items) \in Nat /\ \A i \in 1..Len(items) - 1 : items[i] \in Texts
    BY LenProperties, ElementOfSeq
  <2>2. Front(items) \in Seq(Texts)
    BY <2>1, SubSeqProperties DEF Front
  <2>3. Append(Front(items), Blank) \in Seq(Texts)
    BY <2>2, BlankAssumption, AppendProperties
  <2> QED
    BY <1>2, <2>3 DEF ReadItems
<1> QED
  BY <1>1, <1>2

\* The same of a hash or a sorted set, whose fields and values come in pairs.
LEMMA ReadFieldsArePairs ==
  ASSUME NEW items \in Seq([field : Texts, value : HashTexts]),
         NEW p \in ReadFields(items)
  PROVE  p \in Seq([field : Texts, value : HashTexts])
<1> DEFINE P == [field : Texts, value : HashTexts]
<1>1. CASE Len(items) < 2
  BY <1>1 DEF ReadFields
<1>2. CASE ~(Len(items) < 2)
  <2>1. /\ Len(items) \in Nat /\ DOMAIN items = 1..Len(items)
        /\ \A i \in 1..Len(items) : items[i] \in P
    BY LenProperties, ElementOfSeq
  <2>2. PICK name \in Cuts \cup {Last(items).field} :
          p = [items EXCEPT ![Len(items)].field = name]
    BY <1>2 DEF ReadFields
  <2>3. name \in Texts
    BY <1>2, <2>1, CutsAssumption DEF Last
  <2>4. p = [i \in 1..Len(items) |->
               IF i = Len(items) THEN [items[i] EXCEPT !.field = name] ELSE items[i]]
    BY <2>1, <2>2
  <2>5. \A i \in 1..Len(items) : p[i] \in P
    BY <2>1, <2>3, <2>4
  <2> HIDE DEF P
  <2>6. DOMAIN p = 1..Len(items)
    BY <2>4
  <2>7. p = [i \in 1..Len(items) |-> p[i]]
    BY <2>4
  <2>8. p \in [1..Len(items) -> P]
    BY <2>5, <2>7
  <2>9. p \in Seq(P)
    BY <2>1, <2>8
  <2> QED
    BY <2>9 DEF P
<1> QED
  BY <1>1, <1>2

\* What LoadEntry hands to addKey for an entry of a dump.
Pairs(t, k, V) ==
  {p \in [field : Texts, value : HashTexts \cup {NoVal}] :
     /\ t = "string" => <<k, p.field>> \in V
     /\ t = "hash" => p.value \in HashTexts}

\* The sequences of elements that an entry of type t may be read as.
LoadedPairs(t, e) ==
  IF t = "zset" /\ e.count > Len(e.items) THEN {e.items}
  ELSE IF t \in Paired THEN ReadFields(e.items)
  ELSE {AsPairs(e.items), AsPairs(ReadItems(e.items))}

\* So whatever an entry yields, its turns of the loop are pairs of its own key.
LEMMA PairsOfEntry ==
  ASSUME NEW V, NEW t \in Types, NEW e \in Entries(t, V), NEW p,
         p \in LoadedPairs(t, e)
  PROVE  p \in Seq(Pairs(IF t = "zset" THEN "hash" ELSE t, e.key, V))
<1>1. CASE t \in Paired
  <2> DEFINE P == [field : Texts, value : HashTexts]
             Q == Pairs("hash", e.key, V)
  <2>1. e.items \in Seq(P)
    BY <1>1 DEF Entries, Element
  <2>2. p \in Seq(P)
    BY <1>1, <2>1, ReadFieldsArePairs DEF LoadedPairs
  <2>3. P \subseteq Q
    BY DEF Pairs
  <2> HIDE DEF P, Q
  <2>4. p \in Seq(Q)
    <3>1. Len(p) \in Nat /\ p \in [1..Len(p) -> P]
      BY <2>2
    <3>2. p \in [1..Len(p) -> Q]
      BY <2>3, <3>1
    <3> QED
      BY <3>1, <3>2
  <2> QED
    BY <1>1, <2>4 DEF Q, Paired
<1>2. CASE t \notin Paired
  <2> DEFINE Q == Pairs(t, e.key, V)
  <2>0. PICK r \in {e.items, ReadItems(e.items)} : p = AsPairs(r)
    BY <1>2 DEF LoadedPairs, Paired
  <2>1. /\ e.items \in Seq(Texts)
        /\ t = "string" => Len(e.items) = 1 /\ <<e.key, e.items[1]>> \in V
    BY <1>2 DEF Entries, Element
  <2>2. r \in Seq(Texts)
    BY <2>0, <2>1, ReadItemsAreTexts
  <2>3. t = "string" => r = e.items
    <3>1. Len(e.items) = 1 => ReadItems(e.items) = e.items
      BY DEF ReadItems
    <3> QED
      BY <2>0, <2>1, <3>1
  <2>4. Len(r) \in Nat /\ DOMAIN r = 1..Len(r) /\ \A i \in 1..Len(r) : r[i] \in Texts
    BY <2>2, LenProperties, ElementOfSeq
  <2>5. p = [i \in 1..Len(r) |-> [field |-> r[i], value |-> NoVal]]
    BY <2>0, <2>4 DEF AsPairs
  <2>6. ASSUME NEW i \in 1..Len(r)
        PROVE  [field |-> r[i], value |-> NoVal] \in Q
    <3>1. ASSUME t = "string"
          PROVE  <<e.key, r[i]>> \in V
      <4>1. Len(r) = 1 /\ <<e.key, r[1]>> \in V
        BY <2>1, <2>3, <3>1
      <4>2. i = 1
        BY <4>1
      <4> QED
        BY <4>1, <4>2
    <3> QED
      BY <1>2, <2>4, <3>1 DEF Pairs, Paired
  <2> HIDE DEF Q
  <2>7. p \in [1..Len(r) -> Q]
    BY <2>5, <2>6
  <2>8. p \in Seq(Q)
    BY <2>4, <2>7
  <2> QED
    BY <1>2, <2>8 DEF Q, Paired
<1> QED
  BY <1>1, <1>2

\* Elements of a dump go into a database as clients' own would.
LEMMA AddAllLoaded ==
  ASSUME NEW V, NEW old \in Databases(V), NEW d \in Loaded(V, old),
         NEW t \in Types \ {"zset"}, NEW k \in Keys, NEW pairs \in Seq(Pairs(t, k, V))
  PROVE  AddAll(d, t, k, pairs) \subseteq Loaded(V, old)
<1>1. ASSUME NEW i \in 1..Len(pairs), NEW x \in Loaded(V, old)
      PROVE  AddKey(x, t, k, pairs[i].field, pairs[i].value) \subseteq Loaded(V, old)
  <2>1. pairs[i] \in Pairs(t, k, V)
    BY ElementOfSeq
  <2>2. /\ pairs[i].field \in Texts
        /\ t = "string" => <<k, pairs[i].field>> \in V
        /\ t = "hash" => pairs[i].value \in HashTexts
    BY <2>1 DEF Pairs
  <2> QED
    BY <2>2, AddKeyLoaded
<1> DEFINE D == Loaded(V, old)
           E == Pairs(t, k, V)
<1> HIDE DEF D, E
<1>2. /\ d \in D /\ pairs \in Seq(E)
      /\ \A i \in 1..Len(pairs), x \in D : AddKey(x, t, k, pairs[i].field, pairs[i].value) \subseteq D
  BY <1>1 DEF D, E
<1>3. AddAll(d, t, k, pairs) \subseteq D
  BY <1>2, AddAllWithin
<1> QED
  BY <1>3 DEF D

\* No deadline comes back from a dump: what atoi returns is no later than
\* IntMax, and the clock is past it.
LEMMA NoDeadlineRestored ==
  ASSUME NEW db, NEW t, NEW k, NEW due \in Int, NEW time \in Int, time > IntMax
  PROVE  RestoreDue(db, t, k, due, time) = db
<1> DEFINE h == IntMax + 1
<1>1. h \in Nat /\ h > 0 /\ Atoi(due) = ((due + h) % (2 * h)) - h
  <2>1. 2 * h = 2 * IntMax + 2 /\ due + h = due + IntMax + 1
    BY IntMaxAssumption
  <2> HIDE DEF h
  <2>2. ((due + IntMax + 1) % (2 * IntMax + 2)) \in Int
    BY IntMaxAssumption
  <2>3. Atoi(due) = ((due + h) % (2 * h)) - IntMax - 1
    BY <2>1 DEF Atoi
  <2>4. h \in Nat /\ h > 0 /\ h = IntMax + 1
    BY IntMaxAssumption DEF h
  <2>5. ((due + h) % (2 * h)) \in Int
    BY <2>4
  <2>6. ((due + h) % (2 * h)) - IntMax - 1 = ((due + h) % (2 * h)) - h
    BY <2>4, <2>5, IntMaxAssumption
  <2> QED
    BY <2>3, <2>4, <2>6
<1>2. h = IntMax + 1
  OBVIOUS
<1> HIDE DEF h
<1>3. Atoi(due) < h /\ Atoi(due) \in Int
  BY <1>1
<1>4. ~(Atoi(due) > time)
  BY <1>2, <1>3, IntMaxAssumption
<1> QED
  BY <1>4 DEF RestoreDue

\* Scraps put into a hash, or into none, make a hash of the same fields and more.
LEMMA OverlaidHash ==
  ASSUME NEW a \in {NoVal} \cup Objects("hash"), a # NoVal => DOMAIN a # {},
         NEW x \in Scraps
  PROVE  /\ Overlaid(a, x) \in {NoVal} \cup Objects("hash")
         /\ Overlaid(a, x) # NoVal => DOMAIN Overlaid(a, x) # {}
         /\ a # NoVal => Kept("hash", a, Overlaid(a, x))
<1>0. "hash" \in Types
  BY DEF Types
<1>1. PICK F \in SUBSET Cuts : x \in [F -> Cuts]
  BY DEF Scraps
<1>2. CASE F = {}
  <2>1. Overlaid(a, x) = a
    BY <1>1, <1>2 DEF Overlaid
  <2> QED
    BY <2>1 DEF Kept
<1>3. CASE F # {}
  <2> DEFINE G == F \cup (IF a = NoVal THEN {} ELSE DOMAIN a)
             o == [f \in G |-> IF f \in F THEN x[f] ELSE a[f]]
  <2>1. Overlaid(a, x) = o
    BY <1>1, <1>3 DEF Overlaid
  <2>2. G \in SUBSET Texts /\ \A f \in G \ F : a[f] \in HashTexts
    <3>1. a = NoVal \/ (DOMAIN a \in SUBSET Texts /\ \A f \in DOMAIN a : a[f] \in HashTexts)
      BY DEF Objects
    <3> QED
      BY <3>1, CutsAssumption
  <2>3. \A f \in F : x[f] \in HashTexts
    BY <1>1, CutsAssumption DEF HashTexts
  <2> HIDE DEF G
  <2>4. o \in [G -> HashTexts]
    BY <2>2, <2>3
  <2> HIDE DEF o
  <2>5. o \in Objects("hash") /\ DOMAIN o = G
    BY <2>2, <2>4 DEF Objects
  <2>6. o # NoVal
    BY <1>0, <2>5, ObjectIsNotNoVal
  <2>7. F \subseteq G /\ (a # NoVal => DOMAIN a \subseteq G)
    BY DEF G
  <2> QED
    BY <1>3, <2>1, <2>5, <2>6, <2>7 DEF Kept
<1> QED
  BY <1>2, <1>3

\* What a zset short of its count strews over the hashes takes nothing away.
LEMMA StrewnLoaded ==
  ASSUME NEW V, NEW old \in Databases(V), NEW d \in Loaded(V, old), NEW e \in Strewn(d)
  PROVE  e \in Loaded(V, old)
<1>0. "hash" \in Types /\ "zset" \in Types /\ "string" \in Types
  BY DEF Types
<1>1. PICK s \in [Keys -> Scraps] :
        e = [dict |-> [d.dict EXCEPT !["hash"] = [k \in Keys |-> Overlaid(d.dict["hash"][k], s[k])]],
             due  |-> d.due]
  BY DEF Strewn
<1>2. IsDatabase(d) /\ Holds(d, V) /\ Extends(d, old) /\ IsDatabase(old)
  BY DEF Loaded, Databases
<1>3. ASSUME NEW k \in Keys
      PROVE  /\ Overlaid(d.dict["hash"][k], s[k]) \in {NoVal} \cup Objects("hash")
             /\ Overlaid(d.dict["hash"][k], s[k]) # NoVal => DOMAIN Overlaid(d.dict["hash"][k], s[k]) # {}
             /\ d.dict["hash"][k] # NoVal => Kept("hash", d.dict["hash"][k], Overlaid(d.dict["hash"][k], s[k]))
  <2>1. d.dict["hash"][k] \in {NoVal} \cup Objects("hash")
    BY <1>0, <1>2 DEF IsDatabase
  <2>2. d.dict["hash"][k] # NoVal => DOMAIN d.dict["hash"][k] # {}
    BY <1>2 DEF Holds, Has
  <2> QED
    BY <2>1, <2>2, OverlaidHash
<1> DEFINE hashes == [k \in Keys |-> Overlaid(d.dict["hash"][k], s[k])]
<1>4. /\ \A k \in Keys : hashes[k] = Overlaid(d.dict["hash"][k], s[k])
      /\ hashes = [k \in Keys |-> hashes[k]]
  OBVIOUS
<1>5. e = [dict |-> [d.dict EXCEPT !["hash"] = hashes], due |-> d.due]
  BY <1>1
<1> HIDE DEF hashes
<1>6. /\ e.due = d.due /\ e = [dict |-> e.dict, due |-> e.due]
      /\ e.dict = [t \in Types |-> e.dict[t]]
      /\ \A t \in Types : e.dict[t] = IF t = "hash" THEN hashes ELSE d.dict[t]
  BY <1>0, <1>2, <1>5 DEF IsDatabase
<1>7. IsDatabase(e)
  <2>1. ASSUME NEW t \in Types
        PROVE  /\ e.dict[t] = [k \in Keys |-> e.dict[t][k]]
               /\ \A k \in Keys : e.dict[t][k] \in {NoVal} \cup Objects(t)
    <3>1. CASE t = "hash"
      BY <1>3, <1>4, <1>6, <3>1
    <3>2. CASE t # "hash"
      BY <1>2, <1>6, <3>2 DEF IsDatabase
    <3> QED
      BY <3>1, <3>2
  <2> QED
    BY <1>2, <1>6, <2>1 DEF IsDatabase
<1>8. Holds(e, V)
  <2> SUFFICES ASSUME NEW k \in Keys
               PROVE  /\ Has(e, "string", k) => <<k, e.dict["string"][k]>> \in V
                      /\ Has(e, "hash", k) => DOMAIN e.dict["hash"][k] # {}
                      /\ Has(e, "zset", k) => e.dict["zset"][k] # <<>>
    BY DEF Holds
  <2>1. e.dict["string"] = d.dict["string"] /\ e.dict["zset"] = d.dict["zset"] /\ e.dict["hash"] = hashes
    BY <1>0, <1>6
  <2>2. Has(e, "hash", k) => DOMAIN e.dict["hash"][k] # {}
    BY <1>3, <1>4, <2>1 DEF Has
  <2>3. /\ Has(e, "string", k) => <<k, e.dict["string"][k]>> \in V
        /\ Has(e, "zset", k) => e.dict["zset"][k] # <<>>
    BY <1>2, <2>1 DEF Holds, Has
  <2> QED
    BY <2>2, <2>3
<1>9. Extends(e, old)
  <2>1. ASSUME NEW k \in Keys, NEW t \in Types, Has(old, t, k)
        PROVE  Kept(t, old.dict[t][k], e.dict[t][k])
    <3>1. Kept(t, old.dict[t][k], d.dict[t][k])
      BY <1>2, <2>1 DEF Extends
    <3>2. CASE t = "hash"
      <4>1. /\ DOMAIN old.dict["hash"][k] \subseteq DOMAIN d.dict["hash"][k]
            /\ Kept("hash", d.dict["hash"][k], hashes[k])
        BY <1>3, <1>4, <3>1, <3>2 DEF Kept
      <4> QED
        BY <1>6, <3>2, <4>1 DEF Kept
    <3>3. CASE t # "hash"
      BY <1>6, <3>1, <3>3
    <3> QED
      BY <3>2, <3>3
  <2>2. \A k \in Keys : e.dict["zset"][k] = old.dict["zset"][k]
    BY <1>0, <1>2, <1>6 DEF Extends
  <2> QED
    BY <1>2, <1>6, <2>1, <2>2 DEF Extends
<1>10. e \in Databases(V)
  BY <1>6, <1>7, <1>8, ADatabaseIsARecord DEF Databases
<1> QED
  BY <1>9, <1>10 DEF Loaded

Cursors == {"after", "inside", "beyond", "short", "astray"}

\* An entry is loaded, or skipped, and nothing else happens to the database;
\* behind one that is simple the block is read on.
LEMMA LoadEntryLoaded ==
  ASSUME NEW V, NEW old \in Databases(V), NEW t \in Types, NEW e \in Entries(t, V),
         NEW time \in Int, time > IntMax, NEW C \in {Cursors, {"after"}},
         C = {"after"} => SimpleEntry(t, e),
         NEW r \in [db : Loaded(V, old), cursor : C]
  PROVE  LoadEntry(r, t, e, time) \subseteq [db : Loaded(V, old), cursor : C]
<1> DEFINE target == IF t = "zset" THEN "hash" ELSE t
           many   == t \in {"list", "set"} /\ Len(e.items) > 1
           none   == Len(e.items) = 0
           short  == e.count > Len(e.items)
           cursor == IF short THEN "short" ELSE IF many THEN "inside"
                     ELSE IF none THEN "beyond" ELSE "after"
           pairs  == IF short THEN {e.items}
                     ELSE IF t \in {"hash", "zset"} THEN ReadFields(e.items)
                     ELSE IF t = "string" THEN {AsPairs(ReadString(e.items))}
                     ELSE {AsPairs(ReadItems(e.items))}
           added  == UNION {AddAll(r.db, target, e.key, p) : p \in pairs}
           left   == IF short THEN UNION {Strewn(d) : d \in added} ELSE added
           read   == {[db |-> RestoreDue(d, target, e.key, e.due, time), cursor |-> cursor] : d \in left}
<1>1. /\ e.key \in Keys /\ e.due \in Int /\ e.count \in Nat /\ Len(e.items) \in Nat
      /\ t = "string" => Len(e.items) = 1
      /\ t \in Paired => e.count > 0
      /\ t # "zset" => e.count = Len(e.items)
  <2>1. e.items \in Seq(Element(t))
    BY DEF Entries
  <2>2. Len(e.items) \in Nat
    BY <2>1, LenProperties
  <2> QED
    BY <2>2 DEF Entries
<1>2. cursor \in C
  <2>1. CASE C = Cursors
    BY <2>1 DEF Cursors
  <2>2. CASE C = {"after"}
    <3>1. e.count = Len(e.items) /\ (t \in {"list", "set"} => Len(e.items) = 1)
      BY <2>2 DEF SimpleEntry
    <3> DEFINE n == Len(e.items)
    <3>2. n \in Nat /\ (t \in {"list", "set"} => n = 1) /\ (t = "string" => n = 1)
      BY <1>1, <3>1
    <3>3. t \in Paired => n > 0
      BY <1>1, <3>1
    <3>4. t \in {"string", "list", "set"} \/ t \in Paired
      BY DEF Types, Paired
    <3> HIDE DEF n
    <3>5. n > 0
      BY <3>2, <3>3, <3>4
    <3>6. ~short
      <4>1. e.count = n /\ ~(n > n)
        BY <3>1, <3>2 DEF n
      <4> QED
        BY <4>1 DEF n
    <3>7. ~many
      <4>1. t \in {"list", "set"} => ~(n > 1)
        BY <3>2
      <4> QED
        BY <4>1 DEF n
    <3>8. ~none
      BY <3>2, <3>5 DEF n
    <3> QED
      BY <2>2, <3>6, <3>7, <3>8
  <2> QED
    BY <2>1, <2>2
<1>3. pairs \subseteq LoadedPairs(t, e)
  <2>1. short => t = "zset"
    BY <1>1
  <2>2. CASE short
    BY <2>1, <2>2 DEF LoadedPairs
  <2>3. CASE ~short
    BY <2>3 DEF LoadedPairs, Paired, ReadString
  <2> QED
    BY <2>2, <2>3
<1>4. target \in Types \ {"zset"} /\ r.db \in Loaded(V, old)
  BY DEF Types
<1>5. \A p \in pairs : p \in Seq(Pairs(target, e.key, V))
  BY <1>3, PairsOfEntry
<1>6. LoadEntry(r, t, e, time)
        = CASE r.cursor = "after"               -> read
            [] r.cursor \in {"inside", "beyond"} -> {[r EXCEPT !.cursor = "inside"]}
            [] r.cursor \in {"short", "astray"}  -> {[r EXCEPT !.cursor = "astray"]} \cup read
  BY DEF LoadEntry
<1> HIDE DEF target, cursor, pairs
<1>7. added \subseteq Loaded(V, old)
  BY <1>1, <1>4, <1>5, AddAllLoaded
<1> HIDE DEF added
<1>8. left \subseteq Loaded(V, old)
  <2>1. CASE short
    BY <1>7, <2>1, StrewnLoaded
  <2>2. CASE ~short
    BY <1>7, <2>2
  <2> QED
    BY <2>1, <2>2
<1> HIDE DEF short, left
<1>9. read \subseteq [db : Loaded(V, old), cursor : C]
  <2>1. \A d \in left : RestoreDue(d, target, e.key, e.due, time) = d
    BY <1>1, NoDeadlineRestored
  <2> QED
    BY <1>2, <1>8, <2>1
<1> HIDE DEF read
<1>10. CASE r.cursor = "after"
  BY <1>6, <1>9, <1>10
<1>11. CASE r.cursor # "after"
  <2>1. C = Cursors
    BY <1>11
  <2>2. \A c : [r EXCEPT !.cursor = c] = [db |-> r.db, cursor |-> c]
    OBVIOUS
  <2>3. /\ [r EXCEPT !.cursor = "inside"] \in [db : Loaded(V, old), cursor : C]
        /\ [r EXCEPT !.cursor = "astray"] \in [db : Loaded(V, old), cursor : C]
    BY <1>4, <2>1, <2>2 DEF Cursors
  <2>4. r.cursor \in {"inside", "beyond", "short", "astray"}
    BY <1>11, <2>1 DEF Cursors
  <2> QED
    BY <1>6, <1>9, <2>3, <2>4
<1> QED
  BY <1>10, <1>11

\* A block behind every entry of which the cursor stands where it should.
SimpleBlock(b) == \A e \in Range(b.entries) : SimpleEntry(b.type, e)

SimpleFile(file) == \A s \in Range(file) : \A b \in Range(s.blocks) : SimpleBlock(b)

\* rdbLoad on one block: the database has only grown by what the block says, and the
\* cursor a block of strings leaves is always past its end.
LEMMA LoadBlockLoaded ==
  ASSUME NEW V, NEW old \in Databases(V), NEW db \in Loaded(V, old), NEW block \in Blocks(V),
         NEW time \in Int, time > IntMax, NEW C \in {Cursors, {"after"}},
         C = {"after"} => SimpleBlock(block)
  PROVE  LoadBlock(db, block, time) \subseteq [db : Loaded(V, old), cursor : C]
<1> DEFINE D == [db : Loaded(V, old), cursor : C]
           E == Entries(block.type, V)
<1>1. block.type \in Types /\ block.entries \in Seq(E)
  BY DEF Blocks
<1>2. [db |-> db, cursor |-> "after"] \in D
  BY DEF Cursors
<1>3. ASSUME NEW i \in 1..Len(block.entries), NEW r \in D
      PROVE  LoadEntry(r, block.type, block.entries[i], time) \subseteq D
  <2>1. block.entries[i] \in E /\ i \in DOMAIN block.entries
    BY <1>1, LenProperties, ElementOfSeq
  <2>2. C = {"after"} => SimpleEntry(block.type, block.entries[i])
    BY <2>1 DEF SimpleBlock, Range
  <2> QED
    BY <1>1, <2>1, <2>2, LoadEntryLoaded
<1> HIDE DEF D, E
<1>4. LoadBlock(db, block, time) \subseteq D
  BY <1>1, <1>2, <1>3, LoadBlockWithin
<1> QED
  BY <1>4 DEF D

Ends == {"next", "skip", "astray", "done", "abort"}

\* One turn of the loop; in a file of simple blocks the loop goes on, and it
\* ends at the last block of the file at the latest.
LEMMA TurnLoaded ==
  ASSUME NEW V, NEW old \in Databases(V), NEW block \in Blocks(V),
         NEW past \in BOOLEAN, NEW last \in BOOLEAN, NEW time \in Int, time > IntMax,
         NEW G \in {Ends, {"next", "done"}}, G # Ends => SimpleBlock(block),
         NEW r \in [db : Loaded(V, old), go : G]
  PROVE  /\ Turn(r, block, past, last, time) \subseteq [db : Loaded(V, old), go : G]
         /\ G # Ends /\ last =>
              Turn(r, block, past, last, time) \subseteq [db : Loaded(V, old), go : {"done"}]
<1> DEFINE C == IF G = Ends THEN Cursors ELSE {"after"}
           Here == LoadBlock(r.db, block, time)
           stop == {[r EXCEPT !.go = g] : g \in ShiftStops}
           read == UNION {{[db |-> l.db, go |-> g] : g \in GoesOn(l.cursor, past, last)} : l \in Here}
           leave(cursor) == {[r EXCEPT !.go = g] : g \in GoesOn(cursor, past, last)}
<1>1. r.db \in Loaded(V, old) /\ r.go \in G /\ "done" \in G /\ "next" \in G
  BY DEF Ends
<1>2. \A g : [r EXCEPT !.go = g] = [db |-> r.db, go |-> g]
  OBVIOUS
<1>3. stop \subseteq [db : Loaded(V, old), go : {"done"}]
  BY <1>1, <1>2 DEF ShiftStops
<1>4. \A c \in Cursors : GoesOn(c, past, last) \subseteq Ends
  BY DEF GoesOn, ShiftStops, Lost, Ends, Cursors
<1>5. ASSUME NEW l \in Here
      PROVE  /\ l.db \in Loaded(V, old)
             /\ GoesOn(l.cursor, past, last) \subseteq G
             /\ G # Ends /\ last => GoesOn(l.cursor, past, last) \subseteq {"done"}
  <2>1. C \in {Cursors, {"after"}} /\ (C = {"after"} => SimpleBlock(block))
    <3>1. "inside" \in Cursors
      BY DEF Cursors
    <3> QED
      BY <3>1
  <2>2. l.db \in Loaded(V, old) /\ l.cursor \in C
    <3> HIDE DEF C
    <3> QED
      BY <1>1, <2>1, LoadBlockLoaded
  <2>3. CASE G = Ends
    BY <1>4, <2>2, <2>3
  <2>4. CASE G # Ends
    <3>1. l.cursor = "after" /\ G = {"next", "done"}
      BY <2>2, <2>4
    <3>2. GoesOn("after", past, last) = IF past \/ last THEN {"done"} ELSE {"next"}
      BY DEF GoesOn
    <3> QED
      BY <2>2, <3>1, <3>2
  <2> QED
    BY <2>3, <2>4
<1> HIDE DEF C, Here, stop
<1>6. /\ read \subseteq [db : Loaded(V, old), go : G]
      /\ G # Ends /\ last => read \subseteq [db : Loaded(V, old), go : {"done"}]
  BY <1>5
<1> HIDE DEF read
<1>7. CASE r.go = "next"
  <2>1. Turn(r, block, past, last, time) = stop \cup read
    BY <1>7 DEF Turn, stop, read, Here
  <2> QED
    BY <1>1, <1>3, <1>6, <2>1
<1>8. \A c \in Cursors : G = Ends => leave(c) \subseteq [db : Loaded(V, old), go : G]
  BY <1>1, <1>2, <1>4
<1>9. CASE r.go = "skip"
  <2>1. G = Ends /\ "inside" \in Cursors
    BY <1>1, <1>9 DEF Cursors
  <2>2. Turn(r, block, past, last, time) = leave("inside")
    BY <1>9 DEF Turn
  <2> QED
    BY <1>8, <2>1, <2>2
<1>10. CASE r.go = "astray"
  <2>1. G = Ends /\ "astray" \in Cursors
    BY <1>1, <1>10 DEF Cursors
  <2>2. Turn(r, block, past, last, time) = leave("astray") \cup read
    BY <1>10 DEF Turn, read, Here
  <2> QED
    BY <1>6, <1>8, <2>1, <2>2
<1>11. CASE r.go \notin {"next", "skip", "astray"}
  <2>1. Turn(r, block, past, last, time) = {r}
    BY <1>11 DEF Turn
  <2>2. G # Ends => r.go = "done"
    BY <1>1, <1>11
  <2>3. r = [db |-> r.db, go |-> r.go]
    OBVIOUS
  <2> QED
    BY <1>1, <2>1, <2>2, <2>3
<1> QED
  BY <1>7, <1>9, <1>10, <1>11

\* A section, whichever of its blocks the loop reads.
LEMMA LoadSectionLoaded ==
  ASSUME NEW V, NEW old \in Databases(V), NEW file \in Seq(Sections(V)),
         NEW s \in 1..Len(file), NEW p, NEW time \in Int, time > IntMax,
         NEW G \in {Ends, {"next", "done"}}, G # Ends => SimpleFile(file),
         NEW X \in SUBSET [db : Loaded(V, old), go : G]
  PROVE  /\ LoadSection(X, file, s, p, time) \subseteq [db : Loaded(V, old), go : G]
         /\ G # Ends /\ s = Len(file) =>
              LoadSection(X, file, s, p, time) \subseteq [db : Loaded(V, old), go : {"done"}]
<1> DEFINE D == [db : Loaded(V, old), go : G]
           F == [db : Loaded(V, old), go : {"done"}]
           B == Blocks(V)
           L == Len(file[s].blocks)
           last(b) == s = Len(file) /\ b = L
<1>1. /\ file[s] \in Range(file) /\ file[s].blocks \in Seq(B)
      /\ file[s].blocks # <<>> /\ L \in Nat \ {0}
  <2>1. file[s] \in Sections(V) /\ s \in DOMAIN file
    BY LenProperties, ElementOfSeq
  <2>2. file[s].blocks \in Seq(B) /\ file[s].blocks # <<>>
    BY <2>1 DEF Sections
  <2>3. L \in Nat \ {0}
    BY <2>2, LenProperties, EmptySeq
  <2> QED
    BY <2>1, <2>2, <2>3 DEF Range
<1>2. ASSUME NEW b \in 1..L, NEW r \in D
      PROVE  /\ Turn(r, file[s].blocks[b], s # p, last(b), time) \subseteq D
             /\ G # Ends /\ last(b) => Turn(r, file[s].blocks[b], s # p, last(b), time) \subseteq F
  <2>1. file[s].blocks[b] \in B /\ b \in DOMAIN file[s].blocks
    BY <1>1, LenProperties, ElementOfSeq
  <2>2. G # Ends => SimpleBlock(file[s].blocks[b])
    BY <1>1, <2>1 DEF SimpleFile, Range
  <2> DEFINE past == s # p
             final == last(b)
             block == file[s].blocks[b]
  <2>3. past \in BOOLEAN /\ final \in BOOLEAN /\ block \in Blocks(V)
    BY <2>1
  <2>4. G # Ends => SimpleBlock(block)
    BY <2>2
  <2> HIDE DEF past, final, block
  <2>5. r \in [db : Loaded(V, old), go : G]
    BY DEF D
  <2> HIDE DEF D, F
  <2>6. /\ Turn(r, block, past, final, time) \subseteq [db : Loaded(V, old), go : G]
        /\ G # Ends /\ final =>
             Turn(r, block, past, final, time) \subseteq [db : Loaded(V, old), go : {"done"}]
    BY <2>3, <2>4, <2>5, TurnLoaded, ZenonT(30)
  <2> QED
    BY <2>6 DEF past, final, block, D, F
<1> HIDE DEF D, F, B
<1>3. ASSUME NEW b \in 1..L, NEW Y \in SUBSET D
      PROVE  /\ Turns(Y, file, s, b, p, time) \subseteq D
             /\ G # Ends /\ last(b) => Turns(Y, file, s, b, p, time) \subseteq F
  BY <1>2 DEF Turns
<1>4. X \in SUBSET D
  BY DEF D
<1> DEFINE Q == IF G # Ends /\ s = Len(file) THEN F ELSE D
<1>5. /\ LoadSection(X, file, s, p, time) \subseteq D
      /\ LoadSection(X, file, s, p, time) \subseteq Q
  <2>1. TurnsWithin(D, file, s, p, time)
    BY <1>3 DEF TurnsWithin
  <2>2. LastTurnLeads(D, Q, file, s, p, time)
    <3>1. L \in 1..L
      BY <1>1
    <3> QED
      BY <1>3, <3>1 DEF LastTurnLeads
  <2>3. file[s].blocks \in Seq(B) /\ Len(file[s].blocks) # 0
    BY <1>1
  <2> HIDE DEF last, Q, L
  <2> DEFINE S == Sections(V)
  <2>4. file \in Seq(S)
    OBVIOUS
  <2> HIDE DEF S
  <2> QED
    BY <1>4, <2>1, <2>2, <2>3, <2>4, LoadSectionWithin
<1> QED
  BY <1>5 DEF D, F

\* A load only adds to the database, keeps its deadlines, and stores only
\* strings of V; and it ends well if the file is simple.
LEMMA RdbLoadLoaded ==
  ASSUME NEW V, NEW old \in Databases(V), NEW file \in Seq(Sections(V)), NEW index,
         NEW time \in Int, time > IntMax,
         NEW r \in RdbLoad(file, index, old, time)
  PROVE  /\ r.db \in Loaded(V, old)
         /\ SimpleFile(file) => r.go = "done"
<1> DEFINE mine == {s \in DOMAIN file : file[s].db = index}
           p == First(file, index)
           G == IF SimpleFile(file) THEN {"next", "done"} ELSE Ends
           D == [db : Loaded(V, old), go : G]
           F == [db : Loaded(V, old), go : {"done"}]
<1>0. old \in Loaded(V, old)
  BY LoadedFirst
<1>1. CASE mine = {} \/ (p = Len(file) /\ p > 1)
  <2>1. RdbLoad(file, index, old, time) = {[db |-> old, go |-> "done"]}
    BY <1>1 DEF RdbLoad, First
  <2> QED
    BY <1>0, <2>1
<1>2. CASE ~(mine = {} \/ (p = Len(file) /\ p > 1))
  <2>1. p \in 1..Len(file) /\ file[p].db = index
    <3>1. mine \in SUBSET Nat /\ DOMAIN file = 1..Len(file)
      BY LenProperties
    <3>2. p = Min(mine)
      BY DEF First
    <3> HIDE DEF p
    <3>3. \E x \in mine : \A y \in mine : x <= y
      <4> HIDE DEF mine
      <4> QED
        BY <1>2, <3>1, Least
    <3>4. p \in mine
      <4> HIDE DEF mine
      <4> QED
        BY <3>2, <3>3 DEF Min
    <3> QED
      BY <3>1, <3>4
  <2>2. p # Len(file) \/ p = 1
    BY <1>2, <2>1
  <2>3. [db |-> old, go |-> "next"] \in D
    BY <1>0 DEF Ends
  <2>4. G \in {Ends, {"next", "done"}} /\ (G # Ends <=> SimpleFile(file))
    <3>1. "skip" \in Ends
      BY DEF Ends
    <3> QED
      BY <3>1
  <2> HIDE DEF G
  <2>5. ASSUME NEW s \in p..Len(file), NEW X \in SUBSET D
        PROVE  /\ LoadSection(X, file, s, p, time) \subseteq D
               /\ G # Ends /\ s = Len(file) => LoadSection(X, file, s, p, time) \subseteq F
    <3>1. s \in 1..Len(file)
      BY <2>1
    <3> HIDE DEF p
    <3> QED
      BY <2>4, <3>1, LoadSectionLoaded
  <2>6. /\ RdbLoad(file, index, old, time) \subseteq D
        /\ \E X \in SUBSET D :
             RdbLoad(file, index, old, time) = LoadSection(X, file, Len(file), p, time)
    <3> HIDE DEF D, F
    <3> DEFINE E == Sections(V)
    <3>1. file \in Seq(E)
      OBVIOUS
    <3> HIDE DEF E
    <3> QED
      BY <2>1, <2>2, <2>3, <2>5, <3>1, RdbLoadWithin
  <2>7. SimpleFile(file) => RdbLoad(file, index, old, time) \subseteq F
    <3>1. PICK X \in SUBSET D :
            RdbLoad(file, index, old, time) = LoadSection(X, file, Len(file), p, time)
      BY <2>6
    <3>2. Len(file) \in p..Len(file)
      BY <2>1
    <3> QED
      BY <2>4, <2>5, <3>1, <3>2
  <2> QED
    BY <2>6, <2>7
<1> QED
  BY <1>1, <1>2

-----------------------------------------------------------------------------
(* Saving.                                                                 *)

\* A sequence of sequences over a set is flattened to one over that set, and
\* to an empty one only if all of them are.
LEMMA FlattenIsSeq ==
  ASSUME NEW S, NEW seqs \in Seq(Seq(S))
  PROVE  /\ FlattenSeq(seqs) \in Seq(S)
         /\ \A j \in 1..Len(seqs) : Len(seqs[j]) > 0 => Len(FlattenSeq(seqs)) > 0
<1> DEFINE N == Len(seqs)
           Q == Seq(S)
           Is(f) == f = [i \in 1..N |-> IF i = 1 THEN seqs[i] ELSE f[i - 1] \o seqs[i]]
           step == [n \in 1..N |-> [x \in Q |-> IF n = 1 THEN x ELSE x \o seqs[n]]]
<1>1. N \in Nat /\ \A n \in 1..N : seqs[n] \in Q
  BY LenProperties, ElementOfSeq
<1>2. CASE N = 0
  <2>1. FlattenSeq(seqs) = seqs /\ seqs = <<>>
    BY <1>2, EmptySeq DEF FlattenSeq
  <2> QED
    BY <1>2, <2>1, EmptySeq
<1>3. CASE N # 0
  <2>1. \A x \in Q, n \in 1..N : x \o seqs[n] \in Q /\ Len(x \o seqs[n]) = Len(x) + Len(seqs[n])
    BY <1>1, ConcatProperties
  <2>2. \A x \in Q : Len(x) \in Nat
    BY LenProperties
  <2> HIDE DEF N
  <2>3. \E f : Is(f)
    <3> HIDE DEF Q
    <3>1. step \in [1..N -> [Q -> Q]]
      <4>1. \A n \in 1..N : [x \in Q |-> IF n = 1 THEN x ELSE x \o seqs[n]] \in [Q -> Q]
        BY <2>1
      <4> QED
        BY <4>1
    <3>2. PICK g \in [1..N -> Q] :
            \A n \in 1..N : g[n] = IF n = 1 THEN seqs[1] ELSE step[n][g[n - 1]]
      <4> DEFINE first == seqs[1]
      <4>1. first \in Q /\ step \in Steps(1, N, Q) /\ 1 \in Nat
        BY <1>1, <1>3, <3>1 DEF Steps
      <4> HIDE DEF step, first
      <4>2. \E g \in [1..N -> Q] : Iterates(g, 1, N, first, step)
        BY <1>1, <4>1, RecursiveFunction
      <4> QED
        BY <4>2 DEF first, Iterates
    <3>3. ASSUME NEW n \in 1..N, n # 1
          PROVE  step[n][g[n - 1]] = g[n - 1] \o seqs[n]
      <4>1. g[n - 1] \in Q
        BY <1>1, <3>3
      <4>2. step[n] = [x \in Q |-> x \o seqs[n]]
        BY <3>3
      <4> HIDE DEF step
      <4> QED
        BY <4>1, <4>2
    <3>4. \A n \in 1..N : g[n] = IF n = 1 THEN seqs[n] ELSE g[n - 1] \o seqs[n]
      <4> HIDE DEF step
      <4> QED
        BY <1>1, <3>2, <3>3
    <3>5. Is(g)
      BY <3>4
    <3> QED
      BY <3>5
  <2>4. PICK f : Is(f) /\ FlattenSeq(seqs) = f[N]
    BY <1>3, <2>3 DEF FlattenSeq, N
  <2>0. \A a, b \in Nat : a > 0 \/ b > 0 => a + b > 0
    OBVIOUS
  <2> DEFINE T == {n \in 1..N : f[n] \in Q}
             U(j) == {n \in j..N : Len(f[n]) > 0}
  <2> HIDE DEF Q
  <2>5. \A n \in 1..N - 1 : n + 1 \in 1..N /\ n + 1 # 1 /\ (n + 1) - 1 = n /\ n \in 1..N
    BY <1>1
  <2>6. \A n \in 1..N - 1 : f[n + 1] = f[n] \o seqs[n + 1]
    BY <2>4, <2>5
  <2>7. \A n \in 1..N : f[n] \in Q
    <3>1. 1 \in T
      BY <1>1, <1>3, <2>4
    <3>2. ASSUME NEW n \in 1..N - 1, n \in T
          PROVE  n + 1 \in T
      BY <2>1, <2>5, <2>6, <3>2
    <3>3. 1..N \subseteq T
      <4> HIDE DEF T
      <4> QED
        BY <1>1, <3>1, <3>2, SetInduction
    <3> QED
      BY <3>3
  <2>8. ASSUME NEW j \in 1..N, Len(seqs[j]) > 0
        PROVE  Len(f[N]) > 0
    <3>1. Len(f[j]) > 0
      <4>1. CASE j = 1
        BY <2>4, <2>8, <4>1
      <4>2. CASE j # 1
        <5>1. j - 1 \in 1..N - 1 /\ (j - 1) + 1 = j /\ j - 1 \in 1..N
          BY <1>1, <4>2
        <5>2. f[j] = f[j - 1] \o seqs[j] /\ f[j - 1] \in Q
          BY <2>6, <2>7, <5>1
        <5>3. Len(f[j]) = Len(f[j - 1]) + Len(seqs[j])
          BY <2>1, <5>2
        <5>4. Len(f[j - 1]) \in Nat /\ Len(seqs[j]) \in Nat
          BY <1>1, <2>2, <5>2
        <5> QED
          BY <2>0, <2>8, <5>3, <5>4, Zenon
      <4> QED
        BY <4>1, <4>2
    <3>2. j \in U(j)
      BY <1>1, <3>1
    <3>3. ASSUME NEW n \in j..N - 1, n \in U(j)
          PROVE  n + 1 \in U(j)
      <4>1. n \in 1..N - 1 /\ n \in 1..N /\ n + 1 \in 1..N /\ n + 1 \in j..N
        BY <1>1
      <4>2. Len(f[n + 1]) = Len(f[n]) + Len(seqs[n + 1])
        BY <2>1, <2>6, <2>7, <4>1
      <4>3. Len(f[n]) > 0 /\ Len(f[n]) \in Nat /\ Len(seqs[n + 1]) \in Nat
        BY <1>1, <2>2, <2>7, <3>3, <4>1
      <4>4. Len(f[n + 1]) > 0
        BY <2>0, <4>2, <4>3, Zenon
      <4> QED
        BY <4>1, <4>4
    <3>4. j..N \subseteq U(j)
      <4> HIDE DEF U
      <4>1. j \in Nat
        OBVIOUS
      <4> QED
        BY <1>1, <3>2, <3>3, <4>1, SetInduction
    <3>5. N \in j..N
      BY <1>1
    <3> QED
      BY <3>4, <3>5
  <2>9. N \in 1..N
    BY <1>1, <1>3
  <2> QED
    BY <2>4, <2>7, <2>8, <2>9 DEF N, Q
<1> QED
  BY <1>2, <1>3

\* The sequences in which a finite set may be written.
LEMMA OrdersAreSeqs ==
  ASSUME NEW S, IsFiniteSet(S), NEW s \in SetToSeqs(S)
  PROVE  s \in Seq(S) /\ (S # {} => Len(s) > 0)
<1>1. Cardinality(S) \in Nat /\ (Cardinality(S) = 0 <=> S = {})
  BY FS_CardinalityType, FS_EmptySet
<1>2. s \in [1..Cardinality(S) -> S]
  BY DEF SetToSeqs
<1> QED
  BY <1>1, <1>2

\* The rest of a zset is a zset.
LEMMA AboveZeroIsSeq ==
  ASSUME NEW zset \in Seq(Members)
  PROVE  AboveZero(zset) \in Seq(Members)
<1> DEFINE low == {i \in DOMAIN zset : zset[i].score <= 0}
           m == Cardinality(low) + 1
           n == Len(zset)
<1>1. n \in Nat /\ DOMAIN zset = 1..n /\ \A i \in 1..n : zset[i] \in Members
  BY LenProperties, ElementOfSeq
<1>2. IsFiniteSet(low)
  <2>1. low \subseteq 1..n /\ IsFiniteSet(1..n)
    BY <1>1, FS_Interval
  <2> HIDE DEF low, n
  <2> QED
    BY <2>1, FS_Subset
<1>3. m \in Nat /\ m >= 1
  <2>1. Cardinality(low) \in Nat
    BY <1>2, FS_CardinalityType
  <2> HIDE DEF low
  <2> QED
    BY <2>1
<1>4. AboveZero(zset) = SubSeq(zset, m, n)
  BY DEF AboveZero
<1> HIDE DEF m, n, low
<1>5. \A i \in m..n : zset[i] \in Members
  BY <1>1, <1>3
<1> QED
  BY <1>1, <1>3, <1>4, <1>5, SubSeqProperties

\* What rdbSave writes for an object is what the blocks of its type hold.
LEMMA WrittenAreItems ==
  ASSUME NEW t \in Types, NEW object \in Objects(t),
         t = "hash" => DOMAIN object # {}, NEW items \in Written(t, object)
  PROVE  /\ items \in Seq(Element(t))
         /\ t = "string" => Len(items) = 1 /\ items[1] = object
         /\ t = "hash" => Len(items) > 0
<1> DEFINE P == [field : Texts, value : HashTexts]
<1>1. CASE t = "string"
  <2>1. items = <<object>> /\ object \in Texts /\ Element(t) = Texts
    BY <1>1 DEF Written, Objects, Element, Paired
  <2> QED
    BY <1>1, <2>1 DEF Paired
<1>2. CASE t = "list"
  <2>1. items = object /\ object \in Seq(Texts) /\ Element(t) = Texts
    BY <1>2 DEF Written, Objects, Element, Paired
  <2> QED
    BY <1>2, <2>1 DEF Paired
<1>3. CASE t = "set"
  <2>1. items \in SetToSeqs(object) /\ object \in SUBSET Texts /\ Element(t) = Texts
    BY <1>3 DEF Written, Objects, Element, Paired
  <2>2. items \in Seq(object)
    BY <2>1, FinitelyMany, FS_Subset, OrdersAreSeqs
  <2>3. items \in Seq(Texts)
    BY <2>1, <2>2, SeqMonotonic
  <2> QED
    BY <1>3, <2>1, <2>3 DEF Paired
<1>4. CASE t = "hash"
  <2> DEFINE F == DOMAIN object
  <2>1. PICK s \in SetToSeqs(F) :
          items = [i \in DOMAIN s |-> [field |-> s[i], value |-> object[s[i]]]]
    BY <1>4 DEF Written
  <2>2. F \in SUBSET Texts /\ \A f \in F : object[f] \in HashTexts
    BY <1>4 DEF Objects
  <2>3. Element(t) = P
    BY <1>4 DEF Element, Paired
  <2>4. s \in Seq(F) /\ Len(s) > 0
    BY <1>4, <2>2, FinitelyMany, FS_Subset, OrdersAreSeqs
  <2> HIDE DEF F
  <2>5. DOMAIN s = 1..Len(s) /\ Len(s) \in Nat /\ \A i \in 1..Len(s) : s[i] \in F
    BY <2>4, LenProperties, ElementOfSeq
  <2>6. \A i \in 1..Len(s) : [field |-> s[i], value |-> object[s[i]]] \in P
    BY <2>2, <2>5
  <2> HIDE DEF P
  <2>7. items \in [1..Len(s) -> P]
    BY <2>1, <2>5, <2>6
  <2>8. items \in Seq(P) /\ Len(items) = Len(s)
    BY <2>5, <2>7
  <2> QED
    BY <1>4, <2>3, <2>4, <2>8
<1>5. CASE t = "zset"
  <2> DEFINE z == AboveZero(object)
  <2>1. items = [i \in DOMAIN z |-> [field |-> z[i].obj, value |-> ScoreText(z[i].score)]]
    BY <1>5 DEF Written
  <2>2. z \in Seq(Members) /\ Element(t) = P
    BY <1>5, AboveZeroIsSeq DEF Objects, Element, Paired
  <2> HIDE DEF z
  <2>3. DOMAIN z = 1..Len(z) /\ Len(z) \in Nat /\ \A i \in 1..Len(z) : z[i] \in Members
    BY <2>2, LenProperties, ElementOfSeq
  <2>4. \A m \in Members : [field |-> m.obj, value |-> ScoreText(m.score)] \in P
    BY DEF Members, HashTexts
  <2> HIDE DEF P
  <2>5. items \in [1..Len(z) -> P]
    BY <2>1, <2>3, <2>4
  <2>6. items \in Seq(P)
    BY <2>3, <2>5
  <2> QED
    BY <1>5, <2>2, <2>6
<1> QED
  BY <1>1, <1>2, <1>3, <1>4, <1>5 DEF Types

\* One block of a type of which there is an object, none of any other.
LEMMA SavedBlocksAreBlocks ==
  ASSUME NEW V, NEW db \in Databases(V), NEW t \in Types, NEW b \in SavedBlocks(db, t)
  PROVE  /\ b \in Seq(Blocks(V))
         /\ (\E k \in Keys : Has(db, t, k)) => Len(b) > 0
<1> DEFINE keys == StoredKeys(db, t)
           E == Entries(t, V)
<1>1. CASE keys = {}
  <2>1. b = <<>>
    BY <1>1 DEF SavedBlocks
  <2> QED
    BY <1>1, <2>1, EmptySeq DEF StoredKeys
<1>2. CASE keys # {}
  <2>1. PICK order \in SetToSeqs(keys), items \in Picks([k \in keys |-> Written(t, db.dict[t][k])]) :
          b = <<SavedBlock(db, t, order, items)>>
    <3>1. keys # {}
      BY <1>2
    <3> QED
      BY <3>1 DEF SavedBlocks
  <2>2. order \in Seq(keys)
    <3>1. keys \in SUBSET Keys
      BY DEF StoredKeys
    <3> HIDE DEF keys
    <3> QED
      BY <3>1, FinitelyMany, FS_Subset, OrdersAreSeqs
  <2>3. \A k \in keys : items[k] \in Written(t, db.dict[t][k])
    <3> HIDE DEF keys
    <3> QED
      BY DEF Picks
  <2>4. ASSUME NEW k \in keys
        PROVE  [key |-> k, due |-> GetKeyExpiredTime(db, t, k),
                count |-> Announced(t, db.dict[t][k], items[k]), items |-> items[k]] \in E
    <3> DEFINE o == db.dict[t][k]
               c == Announced(t, o, items[k])
    <3>1. IsDatabase(db) /\ Holds(db, V) /\ Has(db, t, k) /\ k \in Keys
      BY DEF Databases, StoredKeys
    <3>2. o \in Objects(t) /\ GetKeyExpiredTime(db, t, k) \in Int
      BY <3>1 DEF IsDatabase, Has, GetKeyExpiredTime, StoredKeys
    <3>3. /\ t = "string" => <<k, o>> \in V
          /\ t = "hash" => DOMAIN o # {}
          /\ t = "zset" => o # <<>>
      BY <3>1 DEF Holds, StoredKeys
    <3>4. items[k] \in Written(t, o)
      BY <2>3
    <3> HIDE DEF o, keys
    <3>5. /\ items[k] \in Seq(Element(t))
          /\ t = "string" => Len(items[k]) = 1 /\ items[k][1] = o
          /\ t = "hash" => Len(items[k]) > 0
      BY <3>2, <3>3, <3>4, WrittenAreItems
    <3>6. /\ t # "zset" => c = Len(items[k])
          /\ t = "zset" => c = Len(o)
      BY DEF Announced
    <3>7. t = "zset" => Len(o) \in Nat /\ Len(o) > 0
      <4>1. t = "zset" => o \in Seq(Members)
        BY <3>2 DEF Objects
      <4> QED
        BY <3>3, <4>1, LenProperties, EmptySeq
    <3>8. Len(items[k]) \in Nat
      BY <3>5, LenProperties
    <3> HIDE DEF c
    <3>9. c \in Nat /\ (t \in Paired => c > 0)
      BY <3>5, <3>6, <3>7, <3>8 DEF Paired
    <3>10. [key |-> k, due |-> GetKeyExpiredTime(db, t, k), count |-> c, items |-> items[k]] \in Entries(t, V)
      BY <3>1, <3>2, <3>3, <3>5, <3>6, <3>9 DEF Entries
    <3> QED
      BY <3>10 DEF c, o
  <2>5. SavedBlock(db, t, order, items).entries \in Seq(E)
    <3> DEFINE L == Len(order)
               e == [i \in 1..L |-> [key   |-> order[i],
                                     due   |-> GetKeyExpiredTime(db, t, order[i]),
                                     count |-> Announced(t, db.dict[t][order[i]], items[order[i]]),
                                     items |-> items[order[i]]]]
    <3>1. DOMAIN order = 1..L /\ L \in Nat /\ \A i \in 1..L : order[i] \in keys
      BY <2>2, LenProperties, ElementOfSeq
    <3> HIDE DEF keys, E, L
    <3>2. e \in [1..L -> E]
      BY <2>4, <3>1
    <3>3. e \in Seq(E)
      BY <3>1, <3>2
    <3>4. SavedBlock(db, t, order, items).entries = e
      BY <3>1 DEF SavedBlock
    <3> QED
      BY <3>3, <3>4
  <2>6. SavedBlock(db, t, order, items) = [type |-> t, entries |-> SavedBlock(db, t, order, items).entries]
    BY DEF SavedBlock
  <2>7. SavedBlock(db, t, order, items) \in Blocks(V)
    BY <2>5, <2>6 DEF Blocks
  <2> QED
    BY <2>1, <2>7
<1> QED
  BY <1>1, <1>2

\* The section of a database that has a key.
LEMMA SavedSectionsAreSections ==
  ASSUME NEW V, NEW db \in Databases(V), NEW i \in Indices, GetKeySize(db) # 0,
         NEW s \in SavedSections(db, i)
  PROVE  s \in Sections(V)
<1> DEFINE Blockings == [n \in DOMAIN TypeOrder |-> SavedBlocks(db, TypeOrder[n])]
           B == Blocks(V)
<1>1. PICK b \in Picks(Blockings) : s = [db |-> i, blocks |-> FlattenSeq(b)]
  BY DEF SavedSections
<1>2. /\ DOMAIN TypeOrder = 1..5
      /\ \A n \in 1..5 : TypeOrder[n] \in Types
      /\ \A t \in Types : \E n \in 1..5 : TypeOrder[n] = t
  BY DEF TypeOrder, Types
<1>3. DOMAIN b = 1..5 /\ b = [n \in 1..5 |-> b[n]] /\ \A n \in 1..5 : b[n] \in SavedBlocks(db, TypeOrder[n])
  BY <1>1, <1>2 DEF Picks
<1>4. \A n \in 1..5 : b[n] \in Seq(B)
  BY <1>2, <1>3, SavedBlocksAreBlocks
<1>5. PICK t \in Types, k \in Keys : Has(db, t, k)
  <2> DEFINE U == {o \in Types \X Keys : Has(db, o[1], o[2])}
  <2>1. U # {}
    <3>1. Cardinality(U) # 0
      BY DEF GetKeySize
    <3> HIDE DEF U
    <3> QED
      BY <3>1, FS_EmptySet
  <2>2. PICK o \in U : TRUE
    BY <2>1
  <2> QED
    BY <2>2
<1>6. PICK n \in 1..5 : TypeOrder[n] = t
  BY <1>2
<1>7. Len(b[n]) > 0
  BY <1>3, <1>5, <1>6, SavedBlocksAreBlocks
<1> HIDE DEF B, Blockings
<1>8. b \in Seq(Seq(B)) /\ Len(b) = 5
  <2> DEFINE Q == Seq(B)
  <2>1. \A x \in 1..5 : b[x] \in Q
    BY <1>4
  <2> HIDE DEF Q
  <2>2. b \in [1..5 -> Q]
    BY <1>3, <2>1
  <2>3. \A f \in [1..5 -> Q] : f \in Seq(Q) /\ Len(f) = 5
    BY FunctionIsSeq
  <2>4. b \in Seq(Q) /\ Len(b) = 5
    BY <2>2, <2>3
  <2> QED
    BY <2>4 DEF Q
<1>9. FlattenSeq(b) \in Seq(B) /\ Len(FlattenSeq(b)) > 0
  BY <1>7, <1>8, FlattenIsSeq
<1>10. FlattenSeq(b) # <<>>
  BY <1>9, EmptySeq
<1> QED
  BY <1>1, <1>9, <1>10 DEF Sections, B

\* What a child has to write: sequences of sections, none of them empty.
Chunks(V) == {c \in Seq(Sections(V)) : c # <<>>}

\* What rdbSave writes of databases of said strings is a list of sections of them.
LEMMA SavesAreChunks ==
  ASSUME NEW V, NEW dbs \in [Indices -> Databases(V)], NEW chunks \in Saves(dbs)
  PROVE  chunks \in Seq(Chunks(V))
<1> DEFINE used == {i \in DOMAIN dbs : GetKeySize(dbs[i]) # 0}
           S == Sections(V)
<1>0. PICK order \in Ascending(used) :
        \E sections \in Picks([n \in DOMAIN order |-> SavedSections(dbs[order[n]], order[n])]) :
          chunks = [n \in DOMAIN sections |-> SubSeq(sections, 1, n)]
  BY DEF Saves
<1>1. PICK sections \in Picks([n \in DOMAIN order |-> SavedSections(dbs[order[n]], order[n])]) :
        chunks = [n \in DOMAIN sections |-> SubSeq(sections, 1, n)]
  BY <1>0
<1>2. order \in Seq(used) /\ used \subseteq Indices
  <2>1. used \in SUBSET (0..DBNUM - 1) /\ IsFiniteSet(0..DBNUM - 1)
    BY DBNUMAssumption, FS_Interval DEF Indices
  <2>2. order \in SetToSeqs(used)
    BY DEF Ascending
  <2> HIDE DEF used
  <2> QED
    BY <2>1, <2>2, FS_Subset, OrdersAreSeqs DEF Indices
<1> DEFINE L == Len(order)
<1>3. DOMAIN order = 1..L /\ L \in Nat /\ \A n \in 1..L : order[n] \in used
  BY <1>2, LenProperties, ElementOfSeq
<1>4. /\ sections = [n \in 1..L |-> sections[n]] /\ DOMAIN sections = 1..L
      /\ \A n \in 1..L : sections[n] \in SavedSections(dbs[order[n]], order[n])
  <2> HIDE DEF L
  <2> QED
    BY <1>3 DEF Picks
<1>5. \A n \in 1..L : sections[n] \in S
  <2> SUFFICES ASSUME NEW n \in 1..L
               PROVE  sections[n] \in Sections(V)
    OBVIOUS
  <2>1. order[n] \in Indices /\ GetKeySize(dbs[order[n]]) # 0
    BY <1>2, <1>3
  <2>2. dbs[order[n]] \in Databases(V)
    BY <2>1
  <2> QED
    BY <1>4, <2>1, <2>2, SavedSectionsAreSections
<1> HIDE DEF S, L
<1>6. ASSUME NEW n \in 1..L
      PROVE  SubSeq(sections, 1, n) \in {c \in Seq(S) : c # <<>>}
  <2>1. \A x \in 1..n : sections[x] \in S
    BY <1>3, <1>5
  <2>2. SubSeq(sections, 1, n) \in Seq(S) /\ Len(SubSeq(sections, 1, n)) = n
    BY <1>3, <2>1, SubSeqProperties
  <2>3. SubSeq(sections, 1, n) # <<>>
    <3>1. n # 0 /\ Len(<<>>) = 0
      BY <1>3, EmptySeq
    <3> QED
      BY <2>2, <3>1, Zenon
  <2> QED
    BY <2>2, <2>3
<1> DEFINE C == Chunks(V)
<1>7. \A n \in 1..L : SubSeq(sections, 1, n) \in C
  BY <1>6 DEF Chunks, S
<1> HIDE DEF C
<1>8. chunks \in [1..L -> C]
  BY <1>1, <1>4, <1>7
<1>9. chunks \in Seq(C)
  BY <1>3, <1>8
<1> QED
  BY <1>9 DEF C

-----------------------------------------------------------------------------
(* The inductive invariant.                                                *)

Basics ==
  /\ up \in BOOLEAN
  /\ now \in ClockStart..MaxTime
  /\ dbIndex \in -1..DBNUM
  /\ lastsave \in {0} \cup ClockStart..MaxTime
  /\ said \subseteq Keys \X Args
  /\ given \subseteq Keys \X Int
  /\ budget = [saves |-> budget.saves, selects |-> budget.selects, crashes |-> budget.crashes]

\* What a child has still to write: it exits after the last write.
Children(V) == {c \in Seq(Chunks(V)) : c # <<>>}

\* The strings of the databases, of the dump and of what the children have
\* still to write are clients' own, and so is every deadline.
IInv ==
  /\ Basics
  /\ database \in [Indices -> Databases(said)]
  /\ dump \in Seq(Sections(said))
  /\ children \in Seq(Children(said))
  /\ DeadlinesWereGiven

\* What a dump holds is still clients' own when they have set more.
LEMMA SectionsMonotone ==
  ASSUME NEW V, NEW W, V \subseteq W
  PROVE  Sections(V) \subseteq Sections(W)
<1>1. \A t : Entries(t, V) \subseteq Entries(t, W)
  BY DEF Entries
<1>2. \A t : Seq(Entries(t, V)) \subseteq Seq(Entries(t, W))
  <2> SUFFICES ASSUME NEW t, NEW s \in Seq(Entries(t, V))
               PROVE  s \in Seq(Entries(t, W))
    OBVIOUS
  <2> QED
    BY <1>1, SeqMonotonic
<1>3. Blocks(V) \subseteq Blocks(W)
  BY <1>2 DEF Blocks
<1>4. Seq(Blocks(V)) \subseteq Seq(Blocks(W))
  BY <1>3, SeqMonotonic
<1> QED
  BY <1>4 DEF Sections

\* A chunk of what was said so far is one of what will have been said,
LEMMA ChunksMonotone ==
  ASSUME NEW V, NEW W, V \subseteq W
  PROVE  Chunks(V) \subseteq Chunks(W)
<1>1. Sections(V) \subseteq Sections(W)
  BY SectionsMonotone
<1>2. Seq(Sections(V)) \subseteq Seq(Sections(W))
  BY <1>1, SeqMonotonic
<1> QED
  BY <1>2 DEF Chunks

\* and so is what a child of BGSAVE holds: SET only adds to `said`.
LEMMA ChildrenMonotone ==
  ASSUME NEW V, NEW W, V \subseteq W
  PROVE  Children(V) \subseteq Children(W)
<1>1. Chunks(V) \subseteq Chunks(W)
  BY ChunksMonotone
<1>2. Seq(Chunks(V)) \subseteq Seq(Chunks(W))
  BY <1>1, SeqMonotonic
<1> QED
  BY <1>2 DEF Children

\* The writes of a child, one after the other, are sections.
LEMMA ChunksFlatten ==
  ASSUME NEW V, NEW c \in Seq(Chunks(V))
  PROVE  FlattenSeq(c) \in Seq(Sections(V))
<1> DEFINE S == Sections(V)
<1>1. Chunks(V) \subseteq Seq(S)
  BY DEF Chunks
<1>2. c \in Seq(Seq(S))
  <2> DEFINE Q == Seq(S)
             C == Chunks(V)
  <2> HIDE DEF Q, C
  <2>1. C \subseteq Q /\ c \in Seq(C)
    BY <1>1 DEF C, Q
  <2>2. c \in Seq(Q)
    BY <2>1, SeqMonotonic
  <2> QED
    BY <2>2 DEF Q
<1> HIDE DEF S
<1>3. FlattenSeq(c) \in Seq(S)
  BY <1>2, FlattenIsSeq
<1> QED
  BY <1>3 DEF S

\* The invariant gives the types, and that strings are clients' own.
LEMMA InvariantImplies ==
  ASSUME IInv
  PROVE  TypeOK /\ StringsWereSet
<1>1. /\ DOMAIN database = Indices
      /\ \A i \in Indices : IsDatabase(database[i]) /\ Holds(database[i], said)
  BY DEF IInv, Databases
<1>2. \A s \in Range(dump) : s.db \in Indices /\ s.blocks # <<>>
  <2>1. \A s \in Range(dump) : s \in Sections(said)
    BY LenProperties, ElementOfSeq DEF IInv, Range
  <2> QED
    BY <2>1 DEF Sections
<1>3. ASSUME NEW c \in Range(children)
      PROVE  c # <<>> /\ \A s \in Range(FlattenSeq(c)) : s.db \in Indices
  <2>1. c \in Children(said)
    BY LenProperties, ElementOfSeq DEF IInv, Range
  <2>2. c \in Seq(Chunks(said)) /\ c # <<>>
    BY <2>1 DEF Children
  <2>3. FlattenSeq(c) \in Seq(Sections(said))
    BY <2>2, ChunksFlatten
  <2>4. \A s \in Range(FlattenSeq(c)) : s \in Sections(said)
    BY <2>3, LenProperties, ElementOfSeq DEF Range
  <2> QED
    BY <2>2, <2>4 DEF Sections
<1>4. TypeOK
  BY <1>1, <1>2, <1>3 DEF IInv, Basics, TypeOK
<1>5. StringsWereSet
  BY <1>1 DEF StringsWereSet, Holds
<1> QED
  BY <1>4, <1>5

\* A fresh server satisfies the invariant.
LEMMA InitInvariant ==
  ASSUME Init
  PROVE  IInv
<1>1. Basics
  BY DBNUMAssumption, ClockAssumption, MaxTimeAssumption DEF Init, Basics
<1>2. database \in [Indices -> Databases(said)]
  BY EmptyIsDatabase DEF Init
<1>3. dump \in Seq(Sections(said)) /\ children \in Seq(Children(said))
  BY EmptySeq DEF Init
<1>4. DeadlinesWereGiven
  BY DEF Init, DeadlinesWereGiven, EmptyDb
<1> QED
  BY <1>1, <1>2, <1>3, <1>4 DEF IInv

\* The clock is past every int.
LEMMA ClockIsPast ==
  ASSUME Basics
  PROVE  now \in Int /\ now > IntMax
BY ClockAssumption, MaxTimeAssumption, IntMaxAssumption DEF Basics

\* A command leaves the invariant if what it makes of the selected database
\* holds strings of clients, and deadlines that it had or has been given.
LEMMA CommandKeepsInvariant ==
  ASSUME IInv, NEW d, dbIndex \in Indices,
         database' = [database EXCEPT ![dbIndex] = d],
         d \in Databases(said'),
         \A t \in Types, k \in Keys :
           \/ d.due[t][k] \in {NoDeadline, selected.due[t][k]}
           \/ t = "string" /\ <<k, d.due[t][k]>> \in given',
         said \subseteq said', said' \subseteq Keys \X Args,
         given \subseteq given', given' \subseteq Keys \X Int,
         UNCHANGED <<up, now, dbIndex, lastsave, dump, children, budget>>
  PROVE  IInv'
<1>1. Basics'
  BY DEF IInv, Basics
<1>2. Databases(said) \subseteq Databases(said')
  BY DatabasesMonotone
<1>3. Sections(said) \subseteq Sections(said')
  BY SectionsMonotone
<1>4. Children(said) \subseteq Children(said')
  BY ChildrenMonotone
<1>5. database' \in [Indices -> Databases(said')]
  BY <1>2 DEF IInv, Indices
<1>6. dump' \in Seq(Sections(said'))
  BY <1>3, SeqMonotonic DEF IInv
<1>7. children' \in Seq(Children(said'))
  BY <1>4, SeqMonotonic DEF IInv
<1>8. DeadlinesWereGiven'
  <2>1. ASSUME NEW i \in Indices, NEW t \in Types, NEW k \in Keys,
               database'[i].due[t][k] # NoDeadline
        PROVE  t = "string" /\ <<k, database'[i].due[t][k]>> \in given'
    <3>1. CASE i = dbIndex
      <4>1. database'[i] = d
        BY <3>1 DEF IInv
      <4>2. d.due[t][k] = selected.due[t][k] \/ (t = "string" /\ <<k, d.due[t][k]>> \in given')
        BY <2>1, <4>1
      <4> QED
        BY <2>1, <3>1, <4>1, <4>2 DEF IInv, DeadlinesWereGiven, selected
    <3>2. CASE i # dbIndex
      BY <2>1, <3>2 DEF IInv, DeadlinesWereGiven
    <3> QED
      BY <3>1, <3>2
  <2> QED
    BY <2>1 DEF DeadlinesWereGiven
<1> QED
  BY <1>1, <1>5, <1>6, <1>7, <1>8 DEF IInv

\* What the invariant says of the selected database.
LEMMA SelectedIsDatabase ==
  ASSUME IInv, dbIndex \in Indices
  PROVE  selected \in Databases(said) /\ IsDatabase(selected)
BY DEF IInv, selected, Databases

\* getKey takes a deadline, and gives none.
LEMMA GetKeyDeadlines ==
  ASSUME NEW d, IsDatabase(d), NEW t \in Types, NEW k \in Keys, NEW time
  PROVE  \A u \in Types, j \in Keys :
           GetKey(d, t, k, time).due[u][j] \in {NoDeadline, d.due[u][j]}
<1>1. CASE JudgeKeyExpiredTime(d, t, k, time)
  <2> DEFINE e == DelKey(d, t, k)
  <2>1. GetKey(d, t, k, time) = e
    BY <1>1 DEF GetKey
  <2>2. \A u \in Types, j \in Keys :
          e.due[u][j] = IF u = t /\ j = k /\ Has(d, t, k) THEN NoDeadline ELSE d.due[u][j]
    BY DelKeyEffect
  <2> HIDE DEF e
  <2> QED
    BY <2>1, <2>2
<1>2. CASE ~JudgeKeyExpiredTime(d, t, k, time)
  BY <1>2 DEF GetKey
<1> QED
  BY <1>1, <1>2

\* SET says its value before it stores it.
LEMMA SetKeepsInvariant ==
  ASSUME IInv, NEW k \in Keys, NEW v \in Args, SetCommand(k, v)
  PROVE  IInv'
<1> DEFINE e == GetKey(selected, "string", k, now)
<1>1. /\ dbIndex \in Indices /\ said' = said \cup {<<k, v>>} /\ given' = given
      /\ UNCHANGED <<up, now, dbIndex, lastsave, dump, children, budget>>
  BY DEF SetCommand, Room, Serve
<1>2. PICK d \in AddKey(e, "string", k, v, NoVal) : database' = [database EXCEPT ![dbIndex] = d]
  BY DEF SetCommand, Serve
<1>3. "string" \in Types /\ v \in Texts /\ <<k, v>> \in said' /\ said \subseteq said'
  BY <1>1, ArgsAssumption DEF Types
<1>4. selected \in Databases(said) /\ IsDatabase(selected)
  BY <1>1, SelectedIsDatabase
<1>5. e \in Databases(said')
  BY <1>3, <1>4, GetKeyHolds, DatabasesMonotone
<1>6. \A u \in Types, j \in Keys : e.due[u][j] \in {NoDeadline, selected.due[u][j]}
  BY <1>3, <1>4, GetKeyDeadlines
<1> HIDE DEF e
<1>7. d \in Databases(said')
  <2>1. AddKey(e, "string", k, v, NoVal) \subseteq Databases(said')
    BY <1>3, <1>5, AddKeyHolds
  <2> QED
    BY <2>1
<1>8. d.due = e.due
  <2>1. IsDatabase(e)
    BY <1>5 DEF Databases
  <2> QED
    BY <1>3, <2>1, AddKeyEffect
<1>9. said' \subseteq Keys \X Args /\ given' \subseteq Keys \X Int
  BY <1>1 DEF IInv, Basics
<1> QED
  BY <1>1, <1>2, <1>3, <1>6, <1>7, <1>8, <1>9, CommandKeepsInvariant

\* The commands that set no string and give no deadline.
LEMMA QuietKeepsInvariant ==
  ASSUME IInv, NEW d, dbIndex \in Indices,
         database' = [database EXCEPT ![dbIndex] = d],
         d \in Databases(said),
         \A t \in Types, k \in Keys : d.due[t][k] \in {NoDeadline, selected.due[t][k]},
         UNCHANGED <<up, now, dbIndex, lastsave, dump, children, said, given, budget>>
  PROVE  IInv'
<1>1. said' \subseteq Keys \X Args /\ given' \subseteq Keys \X Int
  BY DEF IInv, Basics
<1> QED
  BY <1>1, CommandKeepsInvariant

\* GET may drop the expired key it looks up.
LEMMA GetKeepsInvariant ==
  ASSUME IInv, NEW k \in Keys, GetCommand(k)
  PROVE  IInv'
<1>1. /\ dbIndex \in Indices
      /\ UNCHANGED <<up, now, dbIndex, lastsave, dump, children, said, given, budget>>
  BY DEF GetCommand, Serve
<1>2. PICK d \in {GetKey(selected, "string", k, now)} : database' = [database EXCEPT ![dbIndex] = d]
  BY DEF GetCommand, Serve
<1>3. d \in Databases(said)
  BY <1>1, <1>2, SelectedIsDatabase, GetKeyHolds DEF Types
<1>4. \A u \in Types, j \in Keys : d.due[u][j] \in {NoDeadline, selected.due[u][j]}
  <2>1. "string" \in Types /\ IsDatabase(selected)
    BY <1>1, SelectedIsDatabase DEF Types
  <2>2. \A u \in Types, j \in Keys :
          GetKey(selected, "string", k, now).due[u][j] \in {NoDeadline, selected.due[u][j]}
    BY <2>1, GetKeyDeadlines
  <2> QED
    BY <1>2, <2>2
<1> QED
  BY <1>1, <1>2, <1>3, <1>4, QuietKeepsInvariant

\* PEXPIRE gives a string the deadline that is then found under its key.
LEMMA PexpireKeepsInvariant ==
  ASSUME IInv, NEW k \in Keys, NEW ms \in Ttls, PexpireCommand(k, ms)
  PROVE  IInv'
<1>1. /\ dbIndex \in Indices /\ said' = said
      /\ given' = given \cup (IF Has(selected, "string", k) THEN {<<k, ms + now>>} ELSE {})
      /\ UNCHANGED <<up, now, dbIndex, lastsave, dump, children, budget>>
  BY DEF PexpireCommand, Serve
<1>2. PICK d \in {SetPexpireTime(selected, "string", k, ms, now)} :
        database' = [database EXCEPT ![dbIndex] = d]
  BY DEF PexpireCommand, Serve
<1>3. ms \in Int /\ now \in Int /\ "string" \in Types
  BY TtlsAssumption, ClockIsPast DEF IInv, Types
<1>4. selected \in Databases(said) /\ IsDatabase(selected)
  BY <1>1, SelectedIsDatabase
<1>5. d \in Databases(said')
  BY <1>1, <1>2, <1>3, <1>4, SetPexpireTimeHolds
<1>6. \A u \in Types, j \in Keys :
        d.due[u][j] = IF u = "string" /\ j = k /\ Has(selected, "string", k)
                        THEN ms + now ELSE selected.due[u][j]
  <2> DEFINE e == SetPexpireTime(selected, "string", k, ms, now)
  <2>1. /\ IsDatabase(e)
        /\ e.dict = selected.dict
        /\ \A u \in Types, j \in Keys :
             e.due[u][j] = IF u = "string" /\ j = k /\ Has(selected, "string", k)
                             THEN ms + now ELSE selected.due[u][j]
    BY <1>3, <1>4, SetPexpireTimeEffect
  <2> HIDE DEF e
  <2>2. d = e
    BY <1>2 DEF e
  <2> QED
    BY <2>1, <2>2
<1>7. \A u \in Types, j \in Keys :
        \/ d.due[u][j] \in {NoDeadline, selected.due[u][j]}
        \/ u = "string" /\ <<j, d.due[u][j]>> \in given'
  BY <1>1, <1>6
<1>8. said' \subseteq Keys \X Args /\ given' \subseteq Keys \X Int
  BY <1>1, <1>3 DEF IInv, Basics
<1> QED
  BY <1>1, <1>2, <1>5, <1>7, <1>8, CommandKeepsInvariant

\* The commands that add an element, but for set.
LEMMA AddKeepsInvariant ==
  ASSUME IInv, NEW t \in Types \ {"string"}, NEW k \in Keys, NEW objKey \in Texts, NEW objValue,
         t = "hash" => objValue \in HashTexts, t = "zset" => objValue \in Scores,
         dbIndex \in Indices, Serve(AddKey(selected, t, k, objKey, objValue)),
         UNCHANGED <<said, given>>
  PROVE  IInv'
<1>1. UNCHANGED <<up, now, dbIndex, lastsave, dump, children, said, given, budget>>
  BY DEF Serve
<1>2. PICK d \in AddKey(selected, t, k, objKey, objValue) : database' = [database EXCEPT ![dbIndex] = d]
  BY DEF Serve
<1>3. selected \in Databases(said) /\ IsDatabase(selected)
  BY SelectedIsDatabase
<1>4. d \in Databases(said)
  <2>1. AddKey(selected, t, k, objKey, objValue) \subseteq Databases(said)
    BY <1>3, AddKeyHolds
  <2> QED
    BY <2>1
<1>5. d.due = selected.due
  BY <1>3, AddKeyEffect
<1> QED
  BY <1>1, <1>2, <1>4, <1>5, QuietKeepsInvariant

\* RPOP touches one list.
LEMMA RpopKeepsInvariant ==
  ASSUME IInv, NEW k \in Keys, RpopCommand(k)
  PROVE  IInv'
<1>1. /\ dbIndex \in Indices /\ Has(selected, "list", k) /\ selected.dict["list"][k] # <<>>
      /\ UNCHANGED <<up, now, dbIndex, lastsave, dump, children, said, given, budget>>
  BY DEF RpopCommand, Serve
<1>2. PICK d \in {RpopList(selected, k)} : database' = [database EXCEPT ![dbIndex] = d]
  BY DEF RpopCommand, Serve
<1>3. selected \in Databases(said) /\ IsDatabase(selected)
  BY <1>1, SelectedIsDatabase
<1>4. d \in Databases(said)
  BY <1>1, <1>2, <1>3, RpopListHolds
<1>5. d.due = selected.due
  BY <1>1, <1>2, <1>3, RpopListEffect
<1> QED
  BY <1>1, <1>2, <1>4, <1>5, QuietKeepsInvariant

-----------------------------------------------------------------------------
\* When the process dies nothing is left of the databases and the deadlines.
LEMMA DieKeepsInvariant ==
  ASSUME IInv, Die,
         budget' = [saves |-> budget'.saves, selects |-> budget'.selects,
                    crashes |-> budget'.crashes]
  PROVE  IInv'
<1>1. Basics'
  <2>1. Basics /\ up' = FALSE /\ dbIndex' = 0 /\ lastsave' = 0 /\ given' = given /\ now' = now /\ said' = said
    BY DEF IInv, Die
  <2>2. dbIndex' \in -1..DBNUM
    BY <2>1, DBNUMAssumption
  <2>3. up' \in BOOLEAN
    BY <2>1
  <2> QED
    BY <2>1, <2>2, <2>3 DEF Basics
<1>2. database' \in [Indices -> Databases(said')]
  BY EmptyIsDatabase DEF Die
<1>3. dump' \in Seq(Sections(said')) /\ children' \in Seq(Children(said'))
  BY DEF IInv, Die
<1>4. DeadlinesWereGiven'
  BY DEF Die, DeadlinesWereGiven, EmptyDb
<1> QED
  BY <1>1, <1>2, <1>3, <1>4 DEF IInv

\* A load replaces one database by another that has the same deadlines.
LEMMA LoadKeepsInvariant ==
  ASSUME IInv, NEW i \in Indices, NEW d \in Databases(said),
         \A t \in Types, k \in Keys : d.due[t][k] \in {NoDeadline, database[i].due[t][k]},
         database' = [database EXCEPT ![i] = d],
         Basics', UNCHANGED <<dump, children, said, given>>
  PROVE  IInv'
<1>1. database' \in [Indices -> Databases(said')]
  BY DEF IInv
<1>2. DeadlinesWereGiven'
  <2>1. ASSUME NEW j \in Indices, NEW t \in Types, NEW k \in Keys,
               database'[j].due[t][k] # NoDeadline
        PROVE  t = "string" /\ <<k, database'[j].due[t][k]>> \in given'
    <3>1. database'[j].due[t][k] = database[j].due[t][k]
      BY <2>1 DEF IInv
    <3> QED
      BY <2>1, <3>1 DEF IInv, DeadlinesWereGiven
  <2> QED
    BY <2>1 DEF DeadlinesWereGiven
<1> QED
  BY <1>1, <1>2 DEF IInv

\* What is spent is one of three, and the rest of the budget stays.
LEMMA SpendLeavesBudget ==
  ASSUME Basics, NEW what \in {"saves", "selects", "crashes"}, Spend(what)
  PROVE  /\ budget' = [saves |-> budget'.saves, selects |-> budget'.selects,
                       crashes |-> budget'.crashes]
         /\ what # "selects" => budget'.selects = budget.selects
BY DEF Basics, Spend

\* A child is forked, or fork fails.
LEMMA BgsaveKeepsInvariant ==
  ASSUME IInv, BgsaveCommand
  PROVE  IInv'
<1>1. UNCHANGED <<up, now, dbIndex, database, dump, said, given>> /\ lastsave' = now
  BY DEF BgsaveCommand
<1>2. Basics'
  <2>1. budget' = [saves |-> budget'.saves, selects |-> budget'.selects, crashes |-> budget'.crashes]
    BY SpendLeavesBudget DEF BgsaveCommand, IInv
  <2> QED
    BY <1>1, <2>1 DEF IInv, Basics
<1>3. children' \in Seq(Children(said))
  <2>1. CASE children' = children
    BY <2>1 DEF IInv
  <2>2. ASSUME NEW chunks \in Saves(database),
               children' = children \o (IF chunks = <<>> THEN <<>> ELSE <<chunks>>)
        PROVE  children' \in Seq(Children(said))
    <3> DEFINE K == Children(said)
               more == IF chunks = <<>> THEN <<>> ELSE <<chunks>>
    <3>1. chunks \in Seq(Chunks(said))
      BY SavesAreChunks DEF IInv
    <3>2. chunks # <<>> => chunks \in K
      BY <3>1 DEF Children
    <3>3. children \in Seq(K)
      BY DEF IInv
    <3> HIDE DEF K
    <3>4. more \in Seq(K)
      BY <3>2, EmptySeq
    <3> HIDE DEF more
    <3>5. children \o more \in Seq(K)
      BY <3>3, <3>4, ConcatProperties
    <3> QED
      BY <2>2, <3>5 DEF K, more
  <2> QED
    BY <2>1, <2>2 DEF BgsaveCommand
<1>4. DeadlinesWereGiven'
  BY <1>1 DEF IInv, DeadlinesWereGiven
<1> QED
  BY <1>1, <1>2, <1>3, <1>4 DEF IInv

\* A sequence from which an element is taken.
LEMMA RemoveAtIsSeq ==
  ASSUME NEW S, NEW s \in Seq(S), NEW i \in 1..Len(s)
  PROVE  RemoveAt(s, i) \in Seq(S)
<1>1. Len(s) \in Nat /\ \A j \in 1..Len(s) : s[j] \in S
  BY LenProperties, ElementOfSeq
<1>2. SubSeq(s, 1, i - 1) \in Seq(S)
  BY <1>1, SubSeqProperties
<1>3. SubSeq(s, i + 1, Len(s)) \in Seq(S)
  BY <1>1, SubSeqProperties
<1> QED
  BY <1>2, <1>3, ConcatProperties DEF RemoveAt

\* Whole writes of a child get into the file.
LEMMA ChildWriteKeepsInvariant ==
  ASSUME IInv, NEW c \in DOMAIN children, NEW n \in DOMAIN children[c], ChildWrite(c, n)
  PROVE  IInv'
<1> DEFINE C == Chunks(said)
           K == Children(said)
           S == Sections(said)
           s == children[c]
           first == SubSeq(s, 1, n)
           rest == SubSeq(s, n + 1, Len(s))
<1>1. UNCHANGED <<up, now, dbIndex, database, lastsave, said, given, budget>>
  BY DEF ChildWrite
<1>2. children \in Seq(K) /\ c \in 1..Len(children) /\ s \in K
  BY LenProperties, ElementOfSeq DEF IInv
<1>3. s \in Seq(C)
  BY <1>2 DEF Children
<1>4. n \in 1..Len(s) /\ Len(s) \in Nat /\ \A j \in 1..Len(s) : s[j] \in C
  BY <1>3, LenProperties, ElementOfSeq
<1>5. dump' = dump \o FlattenSeq(first)
  BY DEF ChildWrite
<1>6. children' = IF n = Len(s) THEN RemoveAt(children, c) ELSE [children EXCEPT ![c] = rest]
  BY DEF ChildWrite
<1> HIDE DEF s, C
<1>7. first \in Seq(C)
  BY <1>4, SubSeqProperties
<1>8. rest \in Seq(C) /\ (n # Len(s) => rest # <<>>)
  <2>1. rest \in Seq(C) /\ Len(rest) = IF n + 1 <= Len(s) THEN Len(s) - (n + 1) + 1 ELSE 0
    BY <1>4, SubSeqProperties
  <2>2. n # Len(s) => Len(rest) # 0
    BY <1>4, <2>1
  <2> HIDE DEF rest
  <2> QED
    BY <2>1, <2>2, EmptySeq
<1> HIDE DEF first, rest
<1>9. FlattenSeq(first) \in Seq(S)
  BY <1>7, ChunksFlatten DEF C
<1>10. dump' \in Seq(S)
  <2>1. dump \in Seq(S)
    BY DEF IInv
  <2> HIDE DEF S
  <2> QED
    BY <1>5, <1>9, <2>1, ConcatProperties
<1>11. n # Len(s) => rest \in K
  BY <1>8 DEF Children, C
<1>12. children' \in Seq(K)
  <2> HIDE DEF K
  <2>1. RemoveAt(children, c) \in Seq(K)
    BY <1>2, RemoveAtIsSeq
  <2>2. n # Len(s) => [children EXCEPT ![c] = rest] \in Seq(K)
    BY <1>2, <1>11, ExceptSeq
  <2> QED
    BY <1>6, <2>1, <2>2
<1>13. Basics' /\ DeadlinesWereGiven'
  BY <1>1 DEF IInv, Basics, DeadlinesWereGiven
<1> QED
  BY <1>1, <1>10, <1>12, <1>13 DEF IInv

\* What a child had not got into the file is lost with it.
LEMMA ChildDiesKeepsInvariant ==
  ASSUME IInv, NEW c \in DOMAIN children, ChildDies(c)
  PROVE  IInv'
<1> DEFINE K == Children(said)
<1>1. UNCHANGED <<up, now, dbIndex, database, lastsave, dump, said, given>>
  BY DEF ChildDies
<1>2. children' \in Seq(K)
  <2>1. children \in Seq(K) /\ c \in 1..Len(children)
    BY LenProperties DEF IInv
  <2> HIDE DEF K
  <2>2. RemoveAt(children, c) \in Seq(K)
    BY <2>1, RemoveAtIsSeq
  <2> QED
    BY <2>2 DEF ChildDies
<1>3. Basics'
  <2>1. budget' = [saves |-> budget'.saves, selects |-> budget'.selects, crashes |-> budget'.crashes]
    BY SpendLeavesBudget DEF ChildDies, IInv
  <2> QED
    BY <1>1, <2>1 DEF IInv, Basics
<1>4. DeadlinesWereGiven'
  BY <1>1 DEF IInv, DeadlinesWereGiven
<1> QED
  BY <1>1, <1>2, <1>3, <1>4 DEF IInv

-----------------------------------------------------------------------------
\* What a load from the dump makes of a database.
LEMMA DumpIsLoaded ==
  ASSUME IInv, NEW index, NEW old \in Databases(said), NEW r \in RdbLoad(dump, index, old, now)
  PROVE  r.db \in Loaded(said, old)
BY ClockIsPast, RdbLoadLoaded DEF IInv

\* A select that ends well adds to the database it selects; one that throws
\* takes the process down.
LEMMA SelectEffect ==
  ASSUME IInv, NEW index \in 1..DBNUM, SelectCommand(index)
  PROVE  \/ /\ index - 1 \in Indices
            /\ dbIndex' = index - 1
            /\ \E d \in Loaded(said, database[index - 1]) : database' = [database EXCEPT ![index - 1] = d]
            /\ UNCHANGED <<up, now, lastsave, dump, children, said, given>>
         \/ Die
<1>1. index - 1 \in Indices
  BY DEF SelectCommand
<1>2. PICK r \in RdbLoad(dump, index - 1, database[index - 1], now) :
        IF r.go = "done"
          THEN /\ dbIndex' = index - 1
               /\ database' = [database EXCEPT ![index - 1] = r.db]
               /\ UNCHANGED <<up, now, lastsave, dump, children, said, given>>
          ELSE Die
  BY DEF SelectCommand
<1>3. database[index - 1] \in Databases(said)
  BY <1>1 DEF IInv
<1>4. r.db \in Loaded(said, database[index - 1])
  BY <1>3, DumpIsLoaded
<1> QED
  BY <1>1, <1>2, <1>4

\* SELECT loads the dump into the database it selects: the load is where strings and
\* deadlines come back from the file, and where the server may die.
LEMMA SelectKeepsInvariant ==
  ASSUME IInv, NEW index \in 1..DBNUM, SelectCommand(index)
  PROVE  IInv'
<1>1. budget' = [saves |-> budget'.saves, selects |-> budget'.selects, crashes |-> budget'.crashes]
  BY SpendLeavesBudget DEF SelectCommand, IInv
<1>2. CASE Die
  BY <1>1, <1>2, DieKeepsInvariant
<1>3. CASE /\ index - 1 \in Indices
           /\ dbIndex' = index - 1
           /\ \E d \in Loaded(said, database[index - 1]) : database' = [database EXCEPT ![index - 1] = d]
           /\ UNCHANGED <<up, now, lastsave, dump, children, said, given>>
  <2>1. PICK d \in Loaded(said, database[index - 1]) : database' = [database EXCEPT ![index - 1] = d]
    BY <1>3
  <2>2. d \in Databases(said) /\ d.due = database[index - 1].due
    BY DEF Loaded, Extends
  <2>3. Basics'
    <3>1. dbIndex' \in -1..DBNUM
      BY <1>3, DBNUMAssumption DEF Indices
    <3> QED
      BY <1>1, <1>3, <3>1 DEF IInv, Basics
  <2> QED
    BY <1>3, <2>1, <2>2, <2>3, LoadKeepsInvariant
<1> QED
  BY <1>2, <1>3, SelectEffect

\* SELECT of an index there is no database for only moves dbIndex.
LEMMA SelectNowhereKeepsInvariant ==
  ASSUME IInv, NEW index \in {0, DBNUM + 1}, SelectNowhere(index)
  PROVE  IInv'
<1>1. UNCHANGED <<up, now, database, lastsave, dump, children, said, given>> /\ dbIndex' = index - 1
  BY DEF SelectNowhere
<1>2. budget' = [saves |-> budget'.saves, selects |-> budget'.selects, crashes |-> budget'.crashes]
  BY SpendLeavesBudget DEF SelectNowhere, IInv
<1>3. dbIndex' \in -1..DBNUM
  BY <1>1, DBNUMAssumption
<1>4. Basics'
  BY <1>1, <1>2, <1>3 DEF IInv, Basics
<1>5. DeadlinesWereGiven'
  BY <1>1 DEF IInv, DeadlinesWereGiven
<1> QED
  BY <1>1, <1>4, <1>5 DEF IInv

\* A restart loads the dump into database 0.
LEMMA RestartKeepsInvariant ==
  ASSUME IInv, Restart
  PROVE  IInv'
<1>1. up' = TRUE /\ UNCHANGED <<now, dbIndex, lastsave, dump, children, said, given, budget>>
  BY DEF Restart
<1>2. PICK r \in RdbLoad(dump, 0, EmptyDb, now) : database' = [database EXCEPT ![0] = r.db]
  BY DEF Restart
<1>3. r.db \in Loaded(said, EmptyDb)
  BY EmptyIsDatabase, DumpIsLoaded
<1>4. r.db \in Databases(said) /\ \A t \in Types, k \in Keys : r.db.due[t][k] = NoDeadline
  BY <1>3 DEF Loaded, Extends, EmptyDb
<1>5. 0 \in Indices
  BY DBNUMAssumption DEF Indices
<1>6. Basics'
  BY <1>1 DEF IInv, Basics
<1> DEFINE d == r.db
<1> HIDE DEF d
<1>7. /\ d \in Databases(said) /\ database' = [database EXCEPT ![0] = d]
      /\ \A t \in Types, k \in Keys : d.due[t][k] \in {NoDeadline, database[0].due[t][k]}
  BY <1>2, <1>4 DEF d
<1> QED
  BY <1>1, <1>5, <1>6, <1>7, LoadKeepsInvariant

\* Time passes, and stays an integer after every one the dump can hold.
LEMMA TickKeepsInvariant ==
  ASSUME IInv, Tick
  PROVE  IInv'
<1>1. UNCHANGED <<up, dbIndex, database, lastsave, dump, children, said, given, budget>>
  BY DEF Tick
<1>2. now' \in ClockStart..MaxTime
  BY ClockAssumption, MaxTimeAssumption DEF Tick, IInv, Basics
<1>3. Basics' /\ DeadlinesWereGiven'
  BY <1>1, <1>2 DEF IInv, Basics, DeadlinesWereGiven
<1> QED
  BY <1>1, <1>3 DEF IInv

\* Nothing happens.
LEMMA StutterKeepsInvariant ==
  ASSUME IInv, UNCHANGED vars
  PROVE  IInv'
BY DEF IInv, Basics, DeadlinesWereGiven, vars

\* Every step keeps the invariant: one step per action.
LEMMA NextKeepsInvariant ==
  ASSUME IInv, [Next]_vars
  PROVE  IInv'
<1>1. ASSUME NEW k \in Keys, NEW v \in Args, SetCommand(k, v) PROVE IInv'
  BY <1>1, SetKeepsInvariant
<1>2. ASSUME NEW k \in Keys, GetCommand(k) PROVE IInv'
  BY <1>2, GetKeepsInvariant
<1>3. ASSUME NEW k \in Keys, NEW ms \in Ttls, PexpireCommand(k, ms) PROVE IInv'
  BY <1>3, PexpireKeepsInvariant
<1>4. ASSUME NEW k \in Keys, NEW v \in Args, RpushCommand(k, v) PROVE IInv'
  <2>1. "list" \in Types \ {"string"} /\ v \in Texts
    BY ArgsAssumption DEF Types
  <2> QED
    BY <1>4, <2>1, AddKeepsInvariant DEF RpushCommand, Room
<1>5. ASSUME NEW k \in Keys, RpopCommand(k) PROVE IInv'
  BY <1>5, RpopKeepsInvariant
<1>6. ASSUME NEW k \in Keys, NEW f \in Args, NEW v \in Args, HsetCommand(k, f, v) PROVE IInv'
  <2>1. "hash" \in Types \ {"string"} /\ f \in Texts /\ v \in HashTexts
    BY ArgsAssumption DEF Types, HashTexts
  <2> QED
    BY <1>6, <2>1, AddKeepsInvariant DEF HsetCommand, Room
<1>7. ASSUME NEW k \in Keys, NEW v \in Args, SaddCommand(k, v) PROVE IInv'
  <2>1. "set" \in Types \ {"string"} /\ v \in Texts
    BY ArgsAssumption DEF Types
  <2> QED
    BY <1>7, <2>1, AddKeepsInvariant DEF SaddCommand, Room
<1>8. ASSUME NEW k \in Keys, NEW m \in Args, NEW s \in Scores, ZaddCommand(k, m, s) PROVE IInv'
  <2>1. "zset" \in Types \ {"string"} /\ m \in Texts
    BY ArgsAssumption DEF Types
  <2> QED
    BY <1>8, <2>1, AddKeepsInvariant DEF ZaddCommand, Room
<1>9. ASSUME BgsaveCommand PROVE IInv'
  BY <1>9, BgsaveKeepsInvariant
<1>10. ASSUME NEW c \in DOMAIN children, NEW n \in DOMAIN children[c], ChildWrite(c, n) PROVE IInv'
  BY <1>10, ChildWriteKeepsInvariant
<1>11. ASSUME NEW c \in DOMAIN children, ChildDies(c) PROVE IInv'
  BY <1>11, ChildDiesKeepsInvariant
<1>12. ASSUME NEW index \in 1..DBNUM, SelectCommand(index) PROVE IInv'
  BY <1>12, SelectKeepsInvariant
<1>13. ASSUME NEW index \in {0, DBNUM + 1}, SelectNowhere(index) PROVE IInv'
  BY <1>13, SelectNowhereKeepsInvariant
<1>14. ASSUME StrayCommand PROVE IInv'
  <2>1. Die /\ budget' = budget
    BY <1>14 DEF StrayCommand
  <2>2. budget' = [saves |-> budget'.saves, selects |-> budget'.selects, crashes |-> budget'.crashes]
    BY <2>1 DEF IInv, Basics
  <2> QED
    BY <2>1, <2>2, DieKeepsInvariant
<1>15. ASSUME Crash PROVE IInv'
  <2>1. Die /\ Spend("crashes")
    BY <1>15 DEF Crash
  <2>2. budget' = [saves |-> budget'.saves, selects |-> budget'.selects, crashes |-> budget'.crashes]
    BY <2>1, SpendLeavesBudget DEF IInv
  <2> QED
    BY <2>1, <2>2, DieKeepsInvariant
<1>16. ASSUME Restart PROVE IInv'
  BY <1>16, RestartKeepsInvariant
<1>17. ASSUME Tick PROVE IInv'
  BY <1>17, TickKeepsInvariant
<1>18. ASSUME UNCHANGED vars PROVE IInv'
  BY <1>18, StutterKeepsInvariant
<1> QED
  BY <1>1, <1>2, <1>3, <1>4, <1>5, <1>6, <1>7, <1>8, <1>9, <1>10, <1>11, <1>12, <1>13,
     <1>14, <1>15, <1>16, <1>17, <1>18 DEF Next

\* The invariant holds of every state.
LEMMA Invariant == Spec => []IInv
<1>1. Init => IInv
  BY InitInvariant
<1>2. IInv /\ [Next]_vars => IInv'
  BY NextKeepsInvariant
<1> QED
  BY <1>1, <1>2, PTL DEF Spec

\* The databases, the dump and the children are always what the program takes
\* them for: no load, however its sections run into each other, stores
\* anything but an object of the type of its dictionary (Database::rdbLoad).
THEOREM TypeCorrect == Spec => []TypeOK
<1>1. IInv => TypeOK
  BY InvariantImplies
<1> QED
  BY <1>1, Invariant, PTL

\* Whatever crashes, partly written dumps and repeated loads there have been, a
\* string is found only under a key under which a client has set it
\* (Server::rdbSave, Database::rdbLoad).
THEOREM StringsAreClientsOwn == Spec => []StringsWereSet
<1>1. IInv => StringsWereSet
  BY InvariantImplies
<1> QED
  BY <1>1, Invariant, PTL

\* Every deadline is one that a pexpire gave to its key, whatever dumps have been
\* loaded (Database::rdbLoad, the guard of setPexpireTime).
THEOREM DeadlinesAreClientsOwn == Spec => []DeadlinesWereGiven
<1>1. IInv => DeadlinesWereGiven
  BY DEF IInv
<1> QED
  BY <1>1, Invariant, PTL

\* A dump can be loaded whose lists and sets have one element each and whose
\* zsets have the members that were announced, whichever whole writes have
\* reached it and in whatever order (Database::rdbLoad).
THEOREM SimpleDumpsCanBeLoaded == Spec => []SimpleDumpsLoad
<1>1. ASSUME IInv PROVE SimpleDumpsLoad
  <2> SUFFICES ASSUME \A s \in Range(dump) : \A b \in Range(s.blocks) :
                        \A e \in Range(b.entries) :
                          e.count = Len(e.items) /\ (b.type \in {"list", "set"} => Len(e.items) = 1),
                      NEW i \in Indices, NEW r \in RdbLoad(dump, i, EmptyDb, now)
               PROVE  r.go = "done"
    BY DEF SimpleDumpsLoad
  <2>1. SimpleFile(dump)
    BY DEF SimpleFile, SimpleBlock, SimpleEntry
  <2>2. EmptyDb \in Databases(said) /\ dump \in Seq(Sections(said)) /\ now \in Int /\ now > IntMax
    BY <1>1, EmptyIsDatabase, ClockIsPast DEF IInv
  <2> QED
    BY <2>1, <2>2, RdbLoadLoaded
<1> QED
  BY <1>1, Invariant, PTL

-----------------------------------------------------------------------------
\* What SelectKeeps says of a step.
SelectOnlyAdds ==
  budget'.selects # budget.selects /\ up' /\ dbIndex' \in Indices =>
     \A k \in Keys :
       LET old(t) == database[dbIndex'].dict[t][k]
           new(t) == database'[dbIndex'].dict[t][k]
       IN /\ \A t \in Types : old(t) # NoVal => new(t) # NoVal
          /\ old("list") # NoVal => IsPrefix(old("list"), new("list"))
          /\ old("hash") # NoVal => DOMAIN old("hash") \subseteq DOMAIN new("hash")
          /\ old("set") # NoVal => old("set") \subseteq new("set")
          /\ old("zset") # NoVal =>
               {m.obj : m \in Range(old("zset"))} \subseteq {m.obj : m \in Range(new("zset"))}

\* What Loaded says of every key: nothing goes, and containers grow at their end.
LEMMA LoadOnlyAdds ==
  ASSUME NEW V, NEW a, NEW b \in Loaded(V, a), NEW k \in Keys
  PROVE  /\ \A t \in Types : a.dict[t][k] # NoVal => b.dict[t][k] # NoVal
         /\ a.dict["list"][k] # NoVal => IsPrefix(a.dict["list"][k], b.dict["list"][k])
         /\ a.dict["hash"][k] # NoVal => DOMAIN a.dict["hash"][k] \subseteq DOMAIN b.dict["hash"][k]
         /\ a.dict["set"][k] # NoVal => a.dict["set"][k] \subseteq b.dict["set"][k]
         /\ a.dict["zset"][k] = b.dict["zset"][k]
<1>1. \A t \in Types : Has(a, t, k) => Kept(t, a.dict[t][k], b.dict[t][k])
  BY DEF Loaded, Extends
<1>2. a.dict["zset"][k] = b.dict["zset"][k]
  BY DEF Loaded, Extends
<1>3. {"list", "hash", "set"} \subseteq Types
  BY DEF Types
<1> QED
  BY <1>1, <1>2, <1>3 DEF Has, Kept

\* Only a select spends a select, and of those only one that ends well leaves
\* a process that lives, with a database of that number.
LEMMA StepOnlyAdds ==
  ASSUME IInv, [Next]_vars
  PROVE  SelectOnlyAdds
<1> SUFFICES ASSUME budget'.selects # budget.selects, up', dbIndex' \in Indices
             PROVE  SelectOnlyAdds
  BY DEF SelectOnlyAdds
<1>1. Basics
  BY DEF IInv
<1>2. ~UNCHANGED budget
  OBVIOUS
<1>3. ~Spend("saves") /\ ~Spend("crashes")
  BY <1>1, SpendLeavesBudget
<1>4. ~Die
  BY DEF Die
<1>5. ASSUME NEW index \in {0, DBNUM + 1}, SelectNowhere(index)
      PROVE  FALSE
  BY <1>5 DEF SelectNowhere
<1>6. PICK index \in 1..DBNUM : SelectCommand(index)
  BY <1>2, <1>3, <1>4, <1>5
     DEF Next, vars, Serve, SetCommand, GetCommand, PexpireCommand, RpushCommand, RpopCommand,
         HsetCommand, SaddCommand, ZaddCommand, BgsaveCommand, ChildWrite, ChildDies,
         StrayCommand, Crash, Restart, Tick
<1>7. PICK d \in Loaded(said, database[index - 1]) :
        /\ index - 1 \in Indices /\ dbIndex' = index - 1
        /\ database' = [database EXCEPT ![index - 1] = d]
  BY <1>4, <1>6, SelectEffect
<1>8. database'[dbIndex'] = d /\ database[dbIndex'] = database[index - 1]
  BY <1>7 DEF IInv
<1> QED
  BY <1>7, <1>8, LoadOnlyAdds DEF SelectOnlyAdds

\* A select takes nothing away from the database it loads into: no key, no hash
\* field, no set element, no zset member, nothing from the front of a list
\* (Database::rdbLoad).
THEOREM LoadsOnlyAdd == Spec => SelectKeeps
<1>1. IInv /\ [Next]_vars => [SelectOnlyAdds]_vars
  BY StepOnlyAdds
<1> QED
  BY <1>1, Invariant, PTL DEF Spec, SelectKeeps, SelectOnlyAdds

-----------------------------------------------------------------------------
(* Every database but the selected one is out of reach of every command,   *)
(* load, save and restart of another.                                      *)

\* The server always has its databases, all of them.
EveryDatabase == DOMAIN database = Indices

\* What a command leaves of the databases: the selected one may be another.
Confined ==
  /\ dbIndex' = dbIndex
  /\ \E d : database' = [database EXCEPT ![dbIndex] = d]

\* A command is served by the selected database, and no other one changes.
LEMMA ConfinedKeepsOthers ==
  ASSUME EveryDatabase, Confined
  PROVE  /\ EveryDatabase'
         /\ \A i \in Indices \ {dbIndex'} : database'[i] = database[i]
<1>1. PICK d : database' = [database EXCEPT ![dbIndex] = d]
  BY DEF Confined
<1> QED
  BY <1>1 DEF EveryDatabase, Indices, Confined

\* When the process dies its databases are made anew.
LEMMA DieEmptiesAll ==
  ASSUME Die
  PROVE  EveryDatabase' /\ ~up'
<1> QED
  BY DEF Die, EveryDatabase, Indices

\* A select that ends well loads into the database it selects; one that throws
\* takes the process down.
LEMMA SelectKeepsOthers ==
  ASSUME NEW index, EveryDatabase, SelectCommand(index)
  PROVE  /\ EveryDatabase'
         /\ up' => \A i \in Indices \ {dbIndex'} : database'[i] = database[i]
<1>1. PICK r \in RdbLoad(dump, index - 1, database[index - 1], now) :
        IF r.go = "done"
          THEN /\ dbIndex' = index - 1
               /\ database' = [database EXCEPT ![index - 1] = r.db]
               /\ UNCHANGED <<up, now, lastsave, dump, children, said, given>>
          ELSE Die
  BY DEF SelectCommand
<1>2. CASE r.go = "done"
  <2>1. dbIndex' = index - 1 /\ database' = [database EXCEPT ![index - 1] = r.db]
    BY <1>1, <1>2
  <2>2. EveryDatabase'
    BY <2>1 DEF EveryDatabase, Indices
  <2> QED
    BY <2>1, <2>2 DEF EveryDatabase
<1>3. CASE r.go # "done"
  BY <1>1, <1>3, DieEmptiesAll
<1> QED
  BY <1>2, <1>3

\* One step, whichever it is: a command by ConfinedKeepsOthers, a select by
\* SelectKeepsOthers, and no other step of a living server writes a database.
LEMMA StepKeepsOthers ==
  ASSUME EveryDatabase, [Next]_vars
  PROVE  /\ EveryDatabase'
         /\ up /\ up' => \A i \in Indices \ {dbIndex'} : database'[i] = database[i]
<1> DEFINE Keeps == /\ EveryDatabase'
                    /\ up /\ up' => \A i \in Indices \ {dbIndex'} : database'[i] = database[i]
<1>1. ASSUME Confined PROVE Keeps
  BY <1>1, ConfinedKeepsOthers
<1>2. ASSUME UNCHANGED database PROVE Keeps
  BY <1>2 DEF EveryDatabase, Indices
<1>3. ASSUME Die PROVE Keeps
  BY <1>3, DieEmptiesAll
<1>4. ASSUME NEW index \in 1..DBNUM, SelectCommand(index) PROVE Keeps
  BY <1>4, SelectKeepsOthers
<1> SUFFICES Keeps
  OBVIOUS
<1> HIDE DEF Keeps
<1>5. CASE Restart
  <2>1. PICK r \in RdbLoad(dump, 0, EmptyDb, now) : database' = [database EXCEPT ![0] = r.db]
    BY <1>5 DEF Restart
  <2> QED
    BY <1>5, <2>1 DEF Restart, EveryDatabase, Indices, Keeps
<1>6. CASE \E k \in Keys, v \in Args : SetCommand(k, v)
  BY <1>6, <1>1 DEF SetCommand, Serve, Confined
<1>7. CASE \E k \in Keys : GetCommand(k)
  BY <1>7, <1>1 DEF GetCommand, Serve, Confined
<1>8. CASE \E k \in Keys, ms \in Ttls : PexpireCommand(k, ms)
  BY <1>8, <1>1 DEF PexpireCommand, Serve, Confined
<1>9. CASE \E k \in Keys, v \in Args : RpushCommand(k, v)
  BY <1>9, <1>1 DEF RpushCommand, Serve, Confined
<1>10. CASE \E k \in Keys : RpopCommand(k)
  BY <1>10, <1>1 DEF RpopCommand, Serve, Confined
<1>11. CASE \E k \in Keys, f \in Args, v \in Args : HsetCommand(k, f, v)
  BY <1>11, <1>1 DEF HsetCommand, Serve, Confined
<1>12. CASE \E k \in Keys, v \in Args : SaddCommand(k, v)
  BY <1>12, <1>1 DEF SaddCommand, Serve, Confined
<1>13. CASE \E k \in Keys, m \in Args, s \in Scores : ZaddCommand(k, m, s)
  BY <1>13, <1>1 DEF ZaddCommand, Serve, Confined
<1>14. CASE BgsaveCommand
  BY <1>14, <1>2 DEF BgsaveCommand
<1>15. CASE \E c \in DOMAIN children : \E n \in DOMAIN children[c] : ChildWrite(c, n)
  BY <1>15, <1>2 DEF ChildWrite
<1>16. CASE \E c \in DOMAIN children : ChildDies(c)
  BY <1>16, <1>2 DEF ChildDies
<1>17. CASE \E index \in 1..DBNUM : SelectCommand(index)
  BY <1>17, <1>4
<1>18. CASE \E index \in {0, DBNUM + 1} : SelectNowhere(index)
  BY <1>18, <1>2 DEF SelectNowhere
<1>19. CASE StrayCommand \/ Crash
  BY <1>19, <1>3 DEF StrayCommand, Crash
<1>20. CASE Tick
  BY <1>20, <1>2 DEF Tick
<1>21. CASE UNCHANGED vars
  BY <1>21, <1>2 DEF vars
<1> QED
  BY <1>5, <1>6, <1>7, <1>8, <1>9, <1>10, <1>11, <1>12, <1>13, <1>14, <1>15, <1>16,
     <1>17, <1>18, <1>19, <1>20, <1>21 DEF Next

\* Whatever the dump holds, however its sections run into each other, and
\* however often the server has died: a step of a living server changes no
\* database but the one that is selected when the step ends (Server::selectDB,
\* Database::rdbLoad).
THEOREM OthersOutOfReach == Spec => OnlySelectedChanges
<1>1. Init => EveryDatabase
  BY DEF Init, EveryDatabase, Indices
<1>2. EveryDatabase /\ [Next]_vars => EveryDatabase'
  BY StepKeepsOthers
<1>3. EveryDatabase /\ [Next]_vars
        => [up /\ up' => \A i \in Indices \ {dbIndex'} : database'[i] = database[i]]_vars
  BY StepKeepsOthers
<1> QED
  BY <1>1, <1>2, <1>3, PTL DEF Spec, OnlySelectedChanges
=============================================================================
