--------------------------- MODULE DatabaseProofs ---------------------------
(* What the operators of Database return and preserve, for every set of     *)
(* keys, texts and scores.                                                  *)
EXTENDS Database, SequenceTheorems, TLAPS

\* Storing an object of the right type, or none, under a key of dictionary t
\* gives a database again, which differs from the old one in that key alone.
LEMMA PutObject ==
  ASSUME NEW d, IsDatabase(d), NEW t \in Types, NEW k \in Keys,
         NEW o \in {NoVal} \cup Objects(t)
  PROVE  LET e == Put(d, t, k, o)
         IN /\ IsDatabase(e)
            /\ e.due = d.due
            /\ \A u \in Types, j \in Keys :
                 e.dict[u][j] = IF u = t /\ j = k THEN o ELSE d.dict[u][j]
<1> DEFINE e == Put(d, t, k, o)
<1>1. /\ e.due = d.due
      /\ e.dict = [d.dict EXCEPT ![t] = [d.dict[t] EXCEPT ![k] = o]]
  BY DEF Put
<1>2. \A u \in Types, j \in Keys :
        e.dict[u][j] = IF u = t /\ j = k THEN o ELSE d.dict[u][j]
  <2> HIDE DEF e
  <2>1. DOMAIN d.dict = Types /\ \A u \in Types : DOMAIN d.dict[u] = Keys
    BY DEF IsDatabase
  <2>2. e.dict[t] = [d.dict[t] EXCEPT ![k] = o] /\ \A u \in Types \ {t} : e.dict[u] = d.dict[u]
    BY <1>1, <2>1
  <2> QED
    BY <2>1, <2>2
<1>3. e.dict = [u \in Types |-> e.dict[u]]
  BY <1>1 DEF IsDatabase
<1> HIDE DEF e
<1>4. ASSUME NEW u \in Types PROVE e.dict[u] = [j \in Keys |-> e.dict[u][j]]
  <2> DEFINE f == d.dict[u]
  <2>1. DOMAIN d.dict = Types /\ f = [j \in Keys |-> f[j]]
    BY DEF IsDatabase
  <2>2. CASE u = t
    <3>1. e.dict[u] = [f EXCEPT ![k] = o]
      BY <1>1, <2>1, <2>2
    <3> HIDE DEF f
    <3> QED
      BY <2>1, <3>1
  <2>3. CASE u # t
    <3>1. e.dict[u] = f
      BY <1>1, <2>1, <2>3
    <3> HIDE DEF f
    <3> QED
      BY <2>1, <3>1
  <2> QED
    BY <2>2, <2>3
<1>5. IsDatabase(e)
  <2>1. \A u \in Types, j \in Keys : e.dict[u][j] \in {NoVal} \cup Objects(u)
    <3>1. \A u \in Types, j \in Keys : d.dict[u][j] \in {NoVal} \cup Objects(u)
      BY DEF IsDatabase
    <3> QED
      BY <1>2, <3>1
  <2>2. e.due \in [Types -> [Keys -> Int]]
    BY <1>1 DEF IsDatabase
  <2> QED
    BY <1>3, <1>4, <2>1, <2>2 DEF IsDatabase
<1> QED
  BY <1>1, <1>2, <1>5 DEF e

\* Setting a deadline changes that deadline and nothing else.
LEMMA PutDeadline ==
  ASSUME NEW d, IsDatabase(d), NEW t \in Types, NEW k \in Keys, NEW x \in Int
  PROVE  LET e == PutDue(d, t, k, x)
         IN /\ IsDatabase(e)
            /\ e.dict = d.dict
            /\ e.due = [d.due EXCEPT ![t] = [d.due[t] EXCEPT ![k] = x]]
<1> DEFINE e == PutDue(d, t, k, x)
<1>1. /\ e.dict = d.dict
      /\ e.due = [d.due EXCEPT ![t] = [d.due[t] EXCEPT ![k] = x]]
  BY DEF PutDue
<1>2. e.due \in [Types -> [Keys -> Int]]
  BY <1>1 DEF IsDatabase
<1> HIDE DEF e
<1>3. /\ e.dict = [u \in Types |-> e.dict[u]]
      /\ \A u \in Types :
           /\ e.dict[u] = [j \in Keys |-> e.dict[u][j]]
           /\ \A j \in Keys : e.dict[u][j] \in {NoVal} \cup Objects(u)
  <2>1. /\ d.dict = [u \in Types |-> d.dict[u]]
        /\ \A u \in Types :
             /\ d.dict[u] = [j \in Keys |-> d.dict[u][j]]
             /\ \A j \in Keys : d.dict[u][j] \in {NoVal} \cup Objects(u)
    BY DEF IsDatabase
  <2>2. e.dict = d.dict
    BY <1>1
  <2> QED
    BY <2>1, <2>2
<1>4. IsDatabase(e)
  BY <1>2, <1>3 DEF IsDatabase
<1> QED
  BY <1>1, <1>4 DEF e

\* delKey leaves a database without the key and, if the key was there, without
\* its deadline (Database::delKey).
LEMMA DelKeyEffect ==
  ASSUME NEW d, IsDatabase(d), NEW t \in Types, NEW k \in Keys
  PROVE  LET e == DelKey(d, t, k)
         IN /\ IsDatabase(e)
            /\ \A u \in Types, j \in Keys :
                 /\ e.dict[u][j] = IF u = t /\ j = k THEN NoVal ELSE d.dict[u][j]
                 /\ e.due[u][j] = IF u = t /\ j = k /\ Has(d, t, k)
                                    THEN NoDeadline ELSE d.due[u][j]
<1>1. CASE ~Has(d, t, k)
  BY <1>1 DEF DelKey, Has
<1>2. CASE Has(d, t, k)
  <2> DEFINE p == Put(d, t, k, NoVal)
             e == PutDue(p, t, k, NoDeadline)
  <2>1. /\ IsDatabase(p)
        /\ p.due = d.due
        /\ \A u \in Types, j \in Keys :
             p.dict[u][j] = IF u = t /\ j = k THEN NoVal ELSE d.dict[u][j]
    BY PutObject
  <2>2. NoDeadline \in Int
    BY DEF NoDeadline
  <2> HIDE DEF p
  <2>3. /\ IsDatabase(e)
        /\ e.dict = p.dict
        /\ e.due = [p.due EXCEPT ![t] = [p.due[t] EXCEPT ![k] = NoDeadline]]
    BY <2>1, <2>2, PutDeadline
  <2>4. DelKey(d, t, k) = e
    BY <1>2 DEF DelKey, p
  <2> HIDE DEF e
  <2>5. \A u \in Types, j \in Keys :
          e.due[u][j] = IF u = t /\ j = k THEN NoDeadline ELSE d.due[u][j]
    <3>1. p.due \in [Types -> [Keys -> Int]]
      BY <2>1 DEF IsDatabase
    <3>2. e.due[t] = [p.due[t] EXCEPT ![k] = NoDeadline] /\ \A u \in Types \ {t} : e.due[u] = p.due[u]
      BY <2>3, <3>1
    <3> QED
      BY <2>1, <3>1, <3>2
  <2>6. \A u \in Types, j \in Keys :
          e.dict[u][j] = IF u = t /\ j = k THEN NoVal ELSE d.dict[u][j]
    BY <2>1, <2>3
  <2> QED
    BY <1>2, <2>3, <2>4, <2>5, <2>6
<1> QED
  BY <1>1, <1>2

\* A negative deadline is none, so NoDeadline never expires.
LEMMA NoDeadlineNeverExpires ==
  ASSUME NEW d, NEW t, NEW k, NEW time, d.due[t][k] = NoDeadline
  PROVE  ~JudgeKeyExpiredTime(d, t, k, time)
BY DEF JudgeKeyExpiredTime, GetKeyExpiredTime, NoDeadline

\* A function on 1..n is a sequence of n elements.
LEMMA FunctionIsSeq ==
  ASSUME NEW S, NEW n \in Nat, NEW f \in [1..n -> S]
  PROVE  f \in Seq(S) /\ Len(f) = n
OBVIOUS

\* InsertAt puts e at place i and moves what was there and after it up by one.
LEMMA InsertAtEffect ==
  ASSUME NEW S, NEW s \in Seq(S), NEW i \in 1..Len(s) + 1, NEW e \in S
  PROVE  /\ InsertAt(s, i, e) \in Seq(S)
         /\ Len(InsertAt(s, i, e)) = Len(s) + 1
         /\ \A j \in 1..Len(s) + 1 :
              InsertAt(s, i, e)[j] =
                IF j < i THEN s[j] ELSE IF j = i THEN e ELSE s[j - 1]
<1> DEFINE l == SubSeq(s, 1, i - 1)
           m == <<e>>
           r == SubSeq(s, i, Len(s))
<1>1. Len(s) \in Nat /\ \A j \in 1..Len(s) : s[j] \in S
  BY LenProperties, ElementOfSeq
<1>2. l \in Seq(S) /\ Len(l) = i - 1 /\ \A j \in 1..i - 1 : l[j] = s[j]
  BY <1>1, SubSeqProperties
<1>3. /\ r \in Seq(S)
      /\ Len(r) = Len(s) - i + 1
      /\ \A j \in 1..Len(s) - i + 1 : r[j] = s[i + j - 1]
  BY <1>1, SubSeqProperties
<1>4. m \in Seq(S) /\ Len(m) = 1 /\ m[1] = e
  OBVIOUS
<1> HIDE DEF l, m, r
<1>5. /\ l \o m \in Seq(S)
      /\ Len(l \o m) = i
      /\ \A j \in 1..i : (l \o m)[j] = IF j < i THEN s[j] ELSE e
  <2>1. /\ l \o m \in Seq(S)
        /\ Len(l \o m) = Len(l) + Len(m)
        /\ \A j \in 1..Len(l) + Len(m) :
             (l \o m)[j] = IF j <= Len(l) THEN l[j] ELSE m[j - Len(l)]
    BY <1>2, <1>4, ConcatProperties
  <2>2. \A j \in 1..i : IF j <= i - 1 THEN j \in 1..i - 1 ELSE j = i /\ j - (i - 1) = 1
    BY <1>1
  <2> QED
    BY <1>1, <1>2, <1>4, <2>1, <2>2
<1>6. /\ (l \o m) \o r \in Seq(S)
      /\ Len((l \o m) \o r) = Len(s) + 1
      /\ \A j \in 1..Len(s) + 1 :
           ((l \o m) \o r)[j] = IF j <= i THEN (l \o m)[j] ELSE r[j - i]
  <2> DEFINE lm == l \o m
  <2>1. lm \in Seq(S) /\ Len(lm) = i
    BY <1>5
  <2> HIDE DEF lm
  <2>2. /\ lm \o r \in Seq(S)
        /\ Len(lm \o r) = Len(lm) + Len(r)
        /\ \A j \in 1..Len(lm) + Len(r) :
             (lm \o r)[j] = IF j <= Len(lm) THEN lm[j] ELSE r[j - Len(lm)]
    BY <1>3, <2>1, ConcatProperties
  <2>3. Len(lm) + Len(r) = Len(s) + 1
    BY <1>1, <1>3, <2>1
  <2> QED
    BY <2>1, <2>2, <2>3 DEF lm
<1>7. InsertAt(s, i, e) = (l \o m) \o r
  BY DEF InsertAt, l, m, r
<1>8. ASSUME NEW j \in 1..Len(s) + 1
      PROVE  ((l \o m) \o r)[j] = IF j < i THEN s[j] ELSE IF j = i THEN e ELSE s[j - 1]
  <2>1. CASE j <= i
    <3>1. j \in 1..i
      BY <1>1, <2>1
    <3>2. (l \o m)[j] = IF j < i THEN s[j] ELSE e
      BY <1>5, <3>1
    <3>3. ((l \o m) \o r)[j] = (l \o m)[j]
      BY <1>6, <2>1
    <3> QED
      BY <1>1, <2>1, <3>2, <3>3
  <2>2. CASE ~(j <= i)
    <3>1. j - i \in 1..Len(s) - i + 1 /\ i + (j - i) - 1 = j - 1 /\ ~(j < i) /\ j # i
      BY <1>1, <2>2
    <3>2. r[j - i] = s[i + (j - i) - 1]
      BY <1>3, <3>1
    <3>3. ((l \o m) \o r)[j] = r[j - i]
      BY <1>6, <2>2
    <3> QED
      BY <3>1, <3>2, <3>3
  <2> QED
    BY <2>1, <2>2
<1> QED
  BY <1>6, <1>7, <1>8

\* No object is mistaken for an absent key.
LEMMA ObjectIsNotNoVal ==
  ASSUME NEW t \in Types, NEW o \in Objects(t)
  PROVE  o # NoVal
<1>1. CASE t = "set"
  BY <1>1, NoValAssumption
<1>2. CASE t # "set"
  BY <1>2, NoValAssumption
<1> QED
  BY <1>1, <1>2

\* A new member goes to a place where it leaves the zset sorted
\* (Skiplist::insertNode).
LEMMA SortedInsert ==
  ASSUME NEW z \in Seq(Members), Sorted(z),
         NEW m \in Texts, NEW score \in Scores, NEW p \in InsertPositions(z, m, score)
  PROVE  LET w == InsertAt(z, p, [obj |-> m, score |-> score])
         IN w \in Seq(Members) /\ Sorted(w)
<1> DEFINE e == [obj |-> m, score |-> score]
           w == InsertAt(z, p, e)
<1>1. Len(z) \in Nat /\ \A i \in 1..Len(z) : z[i].score \in Int
  <2>1. Len(z) \in Nat /\ \A i \in 1..Len(z) : z[i] \in Members
    BY LenProperties, ElementOfSeq
  <2> QED
    BY <2>1, ScoresAssumption DEF Members
<1>2. e \in Members /\ e.score = score /\ score \in Int
  BY ScoresAssumption DEF Members
<1>3. /\ p \in 1..Len(z) + 1
      /\ \A i \in 1..Len(z) : IF i < p THEN z[i].score <= score ELSE z[i].score >= score
  BY DEF InsertPositions
<1> HIDE DEF e
<1>4. /\ w \in Seq(Members)
      /\ Len(w) = Len(z) + 1
      /\ \A j \in 1..Len(z) + 1 :
           w[j] = IF j < p THEN z[j] ELSE IF j = p THEN e ELSE z[j - 1]
  BY <1>2, <1>3, InsertAtEffect
<1> HIDE DEF w
<1>5. ASSUME NEW i \in 1..Len(w), NEW j \in 1..Len(w), i < j
      PROVE  w[i].score <= w[j].score
  <2>1. \A a, b \in 1..Len(z) : a < b => z[a].score <= z[b].score
    BY DEF Sorted
  <2>2. /\ i < p => i \in 1..Len(z) /\ w[i].score = z[i].score
        /\ i = p => w[i].score = score
        /\ i > p => i - 1 \in 1..Len(z) /\ w[i].score = z[i - 1].score
    BY <1>1, <1>2, <1>3, <1>4
  <2>3. /\ j < p => j \in 1..Len(z) /\ w[j].score = z[j].score
        /\ j = p => w[j].score = score
        /\ j > p => j - 1 \in 1..Len(z) /\ w[j].score = z[j - 1].score
    BY <1>1, <1>2, <1>3, <1>4
  <2>4. CASE j < p
    BY <1>5, <2>1, <2>2, <2>3, <2>4, <1>3
  <2>5. CASE j = p
    BY <1>5, <2>2, <2>3, <2>5, <1>3, <1>1
  <2>6. CASE j > p /\ i < p
    <3>1. z[i].score <= score /\ score <= z[j - 1].score
      BY <2>2, <2>3, <2>6, <1>3, <1>1, <1>2
    <3> QED
      BY <2>2, <2>3, <2>6, <3>1, <1>1, <1>2
  <2>7. CASE j > p /\ i = p
    BY <2>2, <2>3, <2>7, <1>3, <1>1, <1>2
  <2>8. CASE j > p /\ i > p
    BY <1>5, <2>1, <2>2, <2>3, <2>8, <1>1
  <2> QED
    BY <2>4, <2>5, <2>6, <2>7, <2>8, <1>3, <1>4, <1>1
<1> QED
  BY <1>4, <1>5 DEF Sorted, w, e

\* What addKey can store is an object of the key's type (Database::addKey).
LEMMA GrownIsObject ==
  ASSUME NEW t \in Types, NEW object \in {NoVal} \cup Objects(t),
         NEW objKey \in Texts, NEW objValue,
         t = "hash" => objValue \in HashTexts,
         t = "zset" => objValue \in Scores,
         NEW o \in Grown(t, object, objKey, objValue)
  PROVE  o \in Objects(t)
<1>1. CASE t = "string"
  BY <1>1 DEF Grown, Objects
<1>2. CASE t = "list"
  <2>1. PICK s \in Seq(Texts) : o = Append(s, objKey)
    BY <1>2, EmptySeq DEF Grown, Objects
  <2> QED
    BY <1>2, <2>1, AppendProperties DEF Objects
<1>3. CASE t = "hash"
  <2>1. object # NoVal => \E F \in SUBSET Texts : object \in [F -> HashTexts]
    BY <1>3 DEF Objects
  <2>2. PICK F \in SUBSET Texts : o \in [F -> HashTexts]
    <3> DEFINE F == {objKey} \cup (IF object = NoVal THEN {} ELSE DOMAIN object)
    <3>1. F \in SUBSET Texts
      BY <2>1
    <3>2. o = [f \in F |-> IF f = objKey THEN objValue ELSE object[f]]
      BY <1>3 DEF Grown
    <3>3. \A f \in F : (IF f = objKey THEN objValue ELSE object[f]) \in HashTexts
      BY <1>3, <2>1
    <3> QED
      BY <3>1, <3>2, <3>3
  <2> QED
    BY <1>3, <2>2 DEF Objects
<1>4. CASE t = "set"
  BY <1>4 DEF Grown, Objects
<1>5. CASE t = "zset"
  <2> DEFINE z == IF object = NoVal THEN <<>> ELSE object
             e == [obj |-> objKey, score |-> objValue]
  <2>1. z \in Seq(Members)
    BY <1>5, EmptySeq DEF Objects
  <2>2. PICK p \in InsertPositions(z, objKey, objValue) : o = InsertAt(z, p, e)
    BY <1>5 DEF Grown
  <2>3. e \in Members /\ p \in 1..Len(z) + 1
    BY <1>5 DEF Members, InsertPositions
  <2> HIDE DEF z, e
  <2>4. o \in Seq(Members)
    BY <2>1, <2>2, <2>3, InsertAtEffect
  <2> QED
    BY <1>5, <2>4 DEF Objects
<1> QED
  BY <1>1, <1>2, <1>3, <1>4, <1>5 DEF Types

\* addKey leaves a database with the key in it, and changes no deadline and
\* no other key (Database::addKey).
LEMMA AddKeyEffect ==
  ASSUME NEW d, IsDatabase(d), NEW t \in Types, NEW k \in Keys,
         NEW objKey \in Texts, NEW objValue,
         t = "hash" => objValue \in HashTexts,
         t = "zset" => objValue \in Scores,
         NEW e \in AddKey(d, t, k, objKey, objValue)
  PROVE  /\ IsDatabase(e)
         /\ e.due = d.due
         /\ \A u \in Types, j \in Keys :
              u # t \/ j # k => e.dict[u][j] = d.dict[u][j]
         /\ e.dict[t][k] \in Grown(t, d.dict[t][k], objKey, objValue)
         /\ Has(e, t, k)
<1>1. PICK o \in Grown(t, d.dict[t][k], objKey, objValue) : e = Put(d, t, k, o)
  BY DEF AddKey
<1>2. d.dict[t][k] \in {NoVal} \cup Objects(t)
  BY DEF IsDatabase
<1>3. o \in Objects(t)
  BY <1>2, GrownIsObject
<1>4. o # NoVal
  BY <1>3, ObjectIsNotNoVal
<1>5. /\ IsDatabase(e)
      /\ e.due = d.due
      /\ \A u \in Types, j \in Keys :
           e.dict[u][j] = IF u = t /\ j = k THEN o ELSE d.dict[u][j]
  BY <1>1, <1>3, PutObject
<1> QED
  BY <1>1, <1>4, <1>5 DEF Has

\* getKey deletes the key if it has expired, and changes nothing otherwise
\* (Database::getKey).
LEMMA GetKeyEffect ==
  ASSUME NEW d, IsDatabase(d), NEW t \in Types, NEW k \in Keys, NEW time
  PROVE  /\ JudgeKeyExpiredTime(d, t, k, time) => GetKey(d, t, k, time) = DelKey(d, t, k)
         /\ ~JudgeKeyExpiredTime(d, t, k, time) => GetKey(d, t, k, time) = d
BY DEF GetKey

\* setPexpireTime gives a key that is there a deadline, and does nothing for
\* any other (Database::setPexpireTime).
LEMMA SetPexpireTimeEffect ==
  ASSUME NEW d, IsDatabase(d), NEW t \in Types, NEW k \in Keys,
         NEW ms \in Int, NEW time \in Int
  PROVE  LET e == SetPexpireTime(d, t, k, ms, time)
         IN /\ IsDatabase(e)
            /\ e.dict = d.dict
            /\ \A u \in Types, j \in Keys :
                 e.due[u][j] = IF u = t /\ j = k /\ Has(d, t, k)
                                 THEN ms + time ELSE d.due[u][j]
<1> DEFINE e == PutDue(d, t, k, ms + time)
<1>1. CASE ~Has(d, t, k)
  BY <1>1 DEF SetPexpireTime
<1>2. CASE Has(d, t, k)
  <2>1. /\ IsDatabase(e)
        /\ e.dict = d.dict
        /\ e.due = [d.due EXCEPT ![t] = [d.due[t] EXCEPT ![k] = ms + time]]
    <3> DEFINE x == ms + time
    <3>1. x \in Int
      OBVIOUS
    <3> HIDE DEF x
    <3>2. LET f == PutDue(d, t, k, x)
          IN /\ IsDatabase(f)
             /\ f.dict = d.dict
             /\ f.due = [d.due EXCEPT ![t] = [d.due[t] EXCEPT ![k] = x]]
      BY <3>1, PutDeadline
    <3> QED
      BY <3>2 DEF x
  <2>2. SetPexpireTime(d, t, k, ms, time) = e
    BY <1>2 DEF SetPexpireTime
  <2> HIDE DEF e
  <2>3. \A u \in Types, j \in Keys :
          e.due[u][j] = IF u = t /\ j = k THEN ms + time ELSE d.due[u][j]
    <3>1. d.due \in [Types -> [Keys -> Int]]
      BY DEF IsDatabase
    <3>2. /\ e.due[t] = [d.due[t] EXCEPT ![k] = ms + time]
          /\ \A u \in Types \ {t} : e.due[u] = d.due[u]
      BY <2>1, <3>1
    <3> QED
      BY <3>1, <3>2
  <2>4. \A u \in Types, j \in Keys :
          e.due[u][j] = IF u = t /\ j = k /\ Has(d, t, k) THEN ms + time ELSE d.due[u][j]
    BY <1>2, <2>3
  <2> QED
    BY <2>1, <2>2, <2>4
<1> QED
  BY <1>1, <1>2

\* A pop leaves the list in its dictionary, empty or not (Database::rpopList).
LEMMA RpopListEffect ==
  ASSUME NEW d, IsDatabase(d), NEW k \in Keys,
         Has(d, "list", k), d.dict["list"][k] # <<>>
  PROVE  LET e == RpopList(d, k)
         IN /\ IsDatabase(e)
            /\ e.due = d.due
            /\ \A u \in Types, j \in Keys :
                 u # "list" \/ j # k => e.dict[u][j] = d.dict[u][j]
            /\ Has(e, "list", k)
<1> DEFINE s == d.dict["list"][k]
           o == Front(s)
<1>1. s \in Seq(Texts)
  <2>1. "list" \in Types /\ s \in {NoVal} \cup Objects("list")
    BY DEF IsDatabase, Types
  <2> QED
    BY <2>1 DEF Has, Objects
<1>2. o \in Objects("list")
  <2>1. /\ Len(s) \in Nat
        /\ \A i \in 1..Len(s) - 1 : s[i] \in Texts
    BY <1>1, LenProperties, ElementOfSeq
  <2>2. SubSeq(s, 1, Len(s) - 1) \in Seq(Texts)
    BY <2>1, SubSeqProperties
  <2> QED
    BY <2>2 DEF Front, Objects
<1>3. o # NoVal
  BY <1>2, ObjectIsNotNoVal DEF Types
<1>4. RpopList(d, k) = Put(d, "list", k, o)
  BY DEF RpopList
<1> HIDE DEF o
<1>5. "list" \in Types
  BY DEF Types
<1> DEFINE e == Put(d, "list", k, o)
<1>6. /\ IsDatabase(e)
      /\ e.due = d.due
      /\ \A u \in Types, j \in Keys :
           e.dict[u][j] = IF u = "list" /\ j = k THEN o ELSE d.dict[u][j]
  BY <1>2, <1>5, PutObject
<1> HIDE DEF e
<1> QED
  BY <1>3, <1>4, <1>5, <1>6 DEF Has, e
=============================================================================
