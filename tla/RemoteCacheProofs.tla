------------------------- MODULE RemoteCacheProofs -------------------------
(***************************************************************************)
(* Proofs about RemoteCache: the types, the budget of the body cache, that *)
(* the gateway reads its own writes, and that every stale entry of a cache *)
(* at rest has one of the listed reasons.                                  *)
(***************************************************************************)
EXTENDS RemoteCache, InductionFacts

-----------------------------------------------------------------------------
(* Bytes: the recursive function on the prefixes of a queue.                *)

(* What a function that sums the sizes of the prefixes of q satisfies. *)
Sums(t, q) ==
  /\ t \in [0..Len(q) -> Nat]
  /\ t[0] = 0
  /\ \A i \in 1..Len(q) : t[i] = t[i - 1] + Size[q[i].ver]

(* The size of an entry is a number. *)
LEMMA SizeOf ==
  ASSUME NEW q \in Seq(Entries), NEW i \in 1..Len(q)
  PROVE  q[i] \in Entries /\ q[i].ver \in Versions /\ Size[q[i].ver] \in Nat
<1>1. q[i] \in Entries OBVIOUS
<1>2. q[i].ver \in 1..MaxVersion BY <1>1 DEF Entries, Versions
<1> QED BY <1>1, <1>2, CacheAssumption DEF Versions

(* The recursive definition of the sums has a solution. *)
LEMMA SumsExist ==
  ASSUME NEW q \in Seq(Entries)
  PROVE  \E t : t = [i \in 0..Len(q) |->
                       IF i = 0 THEN 0 ELSE t[i - 1] + Size[q[i].ver]]
<1> DEFINE F(t, n) == [i \in 0..n |-> IF i = 0 THEN 0 ELSE t[i - 1] + Size[q[i].ver]]
           S == {n \in 0..Len(q) : \E t : t = F(t, n)}
<1>1. 0 \in S
  <2> DEFINE t == [i \in 0..0 |-> 0]
  <2>1. t = F(t, 0) OBVIOUS
  <2> HIDE DEF t, F
  <2>2. \E z : z = F(z, 0) BY <2>1
  <2> QED BY <2>2
<1>2. ASSUME NEW n \in 0..(Len(q) - 1), n \in S PROVE n + 1 \in S
  <2>1. PICK t : t = F(t, n) BY <1>2
  <2> DEFINE u == [i \in 0..(n + 1) |->
                     IF i <= n THEN t[i] ELSE t[n] + Size[q[n + 1].ver]]
  <2>2. ASSUME NEW i \in 0..(n + 1)
        PROVE  u[i] = IF i = 0 THEN 0 ELSE u[i - 1] + Size[q[i].ver]
    <3>1. CASE i = 0 BY <3>1, <2>1
    <3>2. CASE i # 0 /\ i <= n
      <4>1. i - 1 \in 0..n /\ i \in 0..n BY <3>2
      <4>2. t[i] = t[i - 1] + Size[q[i].ver] BY <2>1, <4>1, <3>2
      <4> QED BY <4>1, <4>2, <3>2
    <3>3. CASE i = n + 1 BY <3>3
    <3> QED BY <3>1, <3>2, <3>3
  <2>3. u = F(u, n + 1) BY <2>2
  <2> HIDE DEF u, F
  <2>4. \E z : z = F(z, n + 1) BY <2>3
  <2> QED BY <2>4
<1>3. Len(q) \in S
  <2> HIDE DEF S
  <2>1. \A n \in 0..Len(q) : n \in S BY <1>1, <1>2, Induct
  <2> QED BY <2>1
<1> QED BY <1>3

(* Bytes is the last of the sums. *)
LEMMA BytesSums ==
  ASSUME NEW q \in Seq(Entries)
  PROVE  \E t : Sums(t, q) /\ Bytes(q) = t[Len(q)]
<1> DEFINE t == CHOOSE t : t = [i \in 0..Len(q) |->
                                 IF i = 0 THEN 0 ELSE t[i - 1] + Size[q[i].ver]]
<1>1. t = [i \in 0..Len(q) |-> IF i = 0 THEN 0 ELSE t[i - 1] + Size[q[i].ver]]
  BY SumsExist
<1>2. Bytes(q) = t[Len(q)] BY DEF Bytes
<1> HIDE DEF t
<1>3. t[0] = 0 /\ \A i \in 1..Len(q) : t[i] = t[i - 1] + Size[q[i].ver]
  <2>1. t[0] = 0 BY <1>1
  <2>2. ASSUME NEW i \in 1..Len(q) PROVE t[i] = t[i - 1] + Size[q[i].ver]
    <3>1. i \in 0..Len(q) /\ i # 0 OBVIOUS
    <3> QED BY <3>1, <1>1
  <2> QED BY <2>1, <2>2
<1>4. \A i \in 0..Len(q) : t[i] \in Nat
  <2> DEFINE S == {i \in 0..Len(q) : t[i] \in Nat}
  <2>1. 0 \in S BY <1>3
  <2>2. ASSUME NEW i \in 0..(Len(q) - 1), i \in S PROVE i + 1 \in S
    <3>1. i + 1 \in 1..Len(q) /\ (i + 1) - 1 = i OBVIOUS
    <3>2. t[i + 1] = t[i] + Size[q[i + 1].ver] BY <1>3, <3>1
    <3>3. t[i] \in Nat BY <2>2
    <3>4. Size[q[i + 1].ver] \in Nat BY <3>1, SizeOf
    <3> QED BY <3>1, <3>2, <3>3, <3>4
  <2> HIDE DEF S
  <2>3. \A i \in 0..Len(q) : i \in S BY <2>1, <2>2, Induct
  <2> USE DEF S
  <2> QED BY <2>3
<1>5. t \in [0..Len(q) -> Nat] BY <1>1, <1>4
<1> QED BY <1>2, <1>3, <1>5 DEF Sums

(* Two functions that sum the same sizes agree. *)
LEMMA SumsAgree ==
  ASSUME NEW q \in Seq(Entries), NEW t, NEW u, Sums(t, q), Sums(u, q)
  PROVE  t[Len(q)] = u[Len(q)]
<1> DEFINE S == {i \in 0..Len(q) : t[i] = u[i]}
<1>1. 0 \in S BY DEF Sums
<1>2. ASSUME NEW i \in 0..(Len(q) - 1), i \in S PROVE i + 1 \in S
  <2>1. i + 1 \in 1..Len(q) /\ (i + 1) - 1 = i OBVIOUS
  <2>2. t[i + 1] = t[i] + Size[q[i + 1].ver] BY <2>1 DEF Sums
  <2>3. u[i + 1] = u[i] + Size[q[i + 1].ver] BY <2>1 DEF Sums
  <2> QED BY <1>2, <2>1, <2>2, <2>3
<1> HIDE DEF S
<1>3. \A i \in 0..Len(q) : i \in S BY <1>1, <1>2, Induct
<1> USE DEF S
<1> QED BY <1>3

(* An empty queue holds no byte. *)
LEMMA BytesEmpty == Bytes(<<>>) = 0
<1>1. <<>> \in Seq(Entries) /\ Len(<<>>) = 0 OBVIOUS
<1>2. PICK t : Sums(t, <<>>) /\ Bytes(<<>>) = t[Len(<<>>)] BY <1>1, BytesSums
<1> QED BY <1>1, <1>2 DEF Sums

(* The bytes of a queue are a number. *)
LEMMA BytesType ==
  ASSUME NEW q \in Seq(Entries)
  PROVE  Bytes(q) \in Nat
BY BytesSums DEF Sums

(* An entry put at the end of a queue adds its size. *)
LEMMA BytesAppend ==
  ASSUME NEW q \in Seq(Entries), NEW e \in Entries
  PROVE  Bytes(Append(q, e)) = Bytes(q) + Size[e.ver]
<1>1. PICK t : Sums(t, q) /\ Bytes(q) = t[Len(q)] BY BytesSums
<1> DEFINE n == Len(q)
           a == Append(q, e)
           u == [i \in 0..(n + 1) |-> IF i <= n THEN t[i] ELSE t[n] + Size[e.ver]]
<1>2. /\ a \in Seq(Entries) /\ Len(a) = n + 1 /\ n \in Nat
      /\ a[n + 1] = e /\ \A i \in 1..n : a[i] = q[i]
  OBVIOUS
<1>3. Size[e.ver] \in Nat BY CacheAssumption DEF Entries, Versions
<1> HIDE DEF a
<1>4. Sums(u, a)
  <2>1. t[n] \in Nat /\ \A i \in 0..n : t[i] \in Nat BY <1>1, <1>2 DEF Sums
  <2>2. u \in [0..(n + 1) -> Nat] BY <1>2, <1>3, <2>1
  <2>3. u[0] = 0 BY <1>1, <1>2 DEF Sums
  <2>4. ASSUME NEW i \in 1..(n + 1) PROVE u[i] = u[i - 1] + Size[a[i].ver]
    <3>1. CASE i \in 1..n
      <4>1. t[i] = t[i - 1] + Size[q[i].ver] BY <1>1, <3>1 DEF Sums
      <4> QED BY <1>2, <3>1, <4>1
    <3>2. CASE i = n + 1 BY <1>2, <3>2
    <3> QED BY <1>2, <3>1, <3>2
  <2> HIDE DEF u
  <2> QED BY <1>2, <2>2, <2>3, <2>4 DEF Sums
<1>5. PICK w : Sums(w, a) /\ Bytes(a) = w[Len(a)] BY <1>2, BytesSums
<1>6. w[Len(a)] = u[Len(a)]
  <2> HIDE DEF u
  <2> QED BY <1>2, <1>4, <1>5, SumsAgree
<1>7. u[n + 1] = t[n] + Size[e.ver] BY <1>2
<1> QED BY <1>1, <1>2, <1>5, <1>6, <1>7 DEF a

-----------------------------------------------------------------------------
(* The operations on queues of entries.                                     *)

(* No two entries of a queue are for the same path. *)
Distinct(q) == \A i, j \in DOMAIN q : i # j => q[i].path # q[j].path

(* The entries of a queue are entries, and have paths. *)
LEMMA RangeType ==
  ASSUME NEW q \in Seq(Entries)
  PROVE  Range(q) \subseteq Entries /\ PathsIn(q) \subseteq Paths
<1>1. Range(q) \subseteq Entries BY DEF Range
<1>2. \A e \in Entries : e.path \in Paths BY DEF Entries
<1> QED BY <1>1, <1>2 DEF PathsIn

(* What Append adds. *)
LEMMA AppendRange ==
  ASSUME NEW q \in Seq(Entries), NEW e \in Entries
  PROVE  /\ Append(q, e) \in Seq(Entries)
         /\ Range(Append(q, e)) = Range(q) \cup {e}
<1> DEFINE a == Append(q, e)
<1>1. /\ a \in Seq(Entries) /\ Len(q) \in Nat /\ DOMAIN q = 1..Len(q)
      /\ DOMAIN a = 1..(Len(q) + 1)
      /\ a[Len(q) + 1] = e /\ \A i \in 1..Len(q) : a[i] = q[i]
  OBVIOUS
<1> HIDE DEF a
<1>2. Range(a) \subseteq Range(q) \cup {e}
  <2> SUFFICES ASSUME NEW i \in DOMAIN a PROVE a[i] \in Range(q) \cup {e} BY DEF Range
  <2>1. CASE i = Len(q) + 1 BY <1>1, <2>1
  <2>2. CASE i \in 1..Len(q) BY <1>1, <2>2 DEF Range
  <2> QED BY <1>1, <2>1, <2>2
<1>3. Range(q) \subseteq Range(a)
  <2> SUFFICES ASSUME NEW i \in DOMAIN q PROVE q[i] \in Range(a) BY DEF Range
  <2>1. i \in DOMAIN a /\ a[i] = q[i] BY <1>1
  <2> QED BY <2>1 DEF Range
<1>4. e \in Range(a)
  <2>1. Len(q) + 1 \in DOMAIN a BY <1>1
  <2> QED BY <1>1, <2>1 DEF Range
<1>5. a \in Seq(Entries) /\ Range(a) = Range(q) \cup {e} BY <1>1, <1>2, <1>3, <1>4
<1> QED BY <1>5 DEF a

(* An entry for a path that the queue does not hold keeps it distinct. *)
LEMMA AppendDistinct ==
  ASSUME NEW q \in Seq(Entries), NEW e \in Entries, Distinct(q), e.path \notin PathsIn(q)
  PROVE  Distinct(Append(q, e))
<1> DEFINE a == Append(q, e)
<1>1. /\ Len(q) \in Nat /\ DOMAIN q = 1..Len(q) /\ DOMAIN a = 1..(Len(q) + 1)
      /\ a[Len(q) + 1] = e /\ \A i \in 1..Len(q) : a[i] = q[i]
  OBVIOUS
<1> HIDE DEF a
<1>2. \A i \in 1..Len(q) : a[i].path # e.path
  <2> SUFFICES ASSUME NEW i \in 1..Len(q) PROVE q[i].path # e.path BY <1>1
  <2>1. q[i] \in Range(q) BY <1>1 DEF Range
  <2> QED BY <2>1 DEF PathsIn
<1>3. ASSUME NEW i \in DOMAIN a, NEW j \in DOMAIN a, i # j
      PROVE  a[i].path # a[j].path
  <2>1. CASE i \in 1..Len(q) /\ j \in 1..Len(q)
    <3>1. i \in DOMAIN q /\ j \in DOMAIN q /\ a[i] = q[i] /\ a[j] = q[j] BY <1>1, <2>1
    <3>2. q[i].path # q[j].path BY <1>3, <3>1 DEF Distinct
    <3> QED BY <3>1, <3>2
  <2>2. CASE i = Len(q) + 1 /\ j \in 1..Len(q) BY <1>1, <1>2, <2>2
  <2>3. CASE j = Len(q) + 1 /\ i \in 1..Len(q) BY <1>1, <1>2, <2>3
  <2>4. \A m \in DOMAIN a : m \in 1..Len(q) \/ m = Len(q) + 1 BY <1>1
  <2> QED BY <1>3, <2>1, <2>2, <2>3, <2>4
<1>4. Distinct(a) BY <1>3 DEF Distinct
<1> QED BY <1>4 DEF a

(* What the recursive function of Without satisfies. *)
Keeps(k, q, ps) ==
  /\ k[0] = <<>>
  /\ \A i \in 1..Len(q) :
       k[i] = IF q[i].path \in ps THEN k[i - 1] ELSE Append(k[i - 1], q[i])

(* The recursive definition of Without has a solution. *)
LEMMA KeptExist ==
  ASSUME NEW q \in Seq(Entries), NEW ps
  PROVE  \E k : k = [i \in 0..Len(q) |->
           IF i = 0 THEN <<>>
           ELSE IF q[i].path \in ps THEN k[i - 1] ELSE Append(k[i - 1], q[i])]
<1> DEFINE G(k, i) == IF q[i].path \in ps THEN k[i - 1] ELSE Append(k[i - 1], q[i])
           F(k, n) == [i \in 0..n |-> IF i = 0 THEN <<>> ELSE G(k, i)]
           S == {n \in 0..Len(q) : \E k : k = F(k, n)}
<1>1. 0 \in S
  <2> DEFINE k == [i \in 0..0 |-> <<>>]
  <2>1. k = F(k, 0) OBVIOUS
  <2> HIDE DEF k, F
  <2>2. \E z : z = F(z, 0) BY <2>1
  <2> QED BY <2>2
<1>2. ASSUME NEW n \in 0..(Len(q) - 1), n \in S PROVE n + 1 \in S
  <2>1. PICK k : k = F(k, n) BY <1>2
  <2> DEFINE u == [i \in 0..(n + 1) |-> IF i <= n THEN k[i] ELSE G(k, n + 1)]
  <2>2. ASSUME NEW i \in 0..(n + 1)
        PROVE  u[i] = IF i = 0 THEN <<>> ELSE G(u, i)
    <3>1. CASE i = 0 BY <3>1, <2>1
    <3>2. CASE i # 0 /\ i <= n
      <4>1. i - 1 \in 0..n /\ i \in 0..n BY <3>2
      <4>2. k[i] = G(k, i) BY <2>1, <4>1, <3>2
      <4>3. u[i] = k[i] /\ u[i - 1] = k[i - 1] BY <4>1, <3>2
      <4> HIDE DEF u
      <4> QED BY <4>2, <4>3, <3>2
    <3>3. CASE i = n + 1
      <4>1. u[i] = G(k, n + 1) /\ u[n] = k[n] /\ i - 1 = n /\ i # 0 BY <3>3
      <4> HIDE DEF u
      <4> QED BY <4>1, <3>3
    <3> QED BY <3>1, <3>2, <3>3
  <2> HIDE DEF G
  <2>3. u = F(u, n + 1) BY <2>2
  <2> HIDE DEF u, F
  <2>4. \E z : z = F(z, n + 1) BY <2>3
  <2> QED BY <2>4
<1>3. Len(q) \in S
  <2> HIDE DEF S
  <2>1. \A n \in 0..Len(q) : n \in S BY <1>1, <1>2, Induct
  <2> QED BY <2>1
<1> QED BY <1>3

(* Without is the last queue of that function. *)
LEMMA WithoutKeeps ==
  ASSUME NEW q \in Seq(Entries), NEW ps
  PROVE  \E k : Keeps(k, q, ps) /\ Without(q, ps) = k[Len(q)]
<1> DEFINE Solves(f) == f = [i \in 0..Len(q) |->
             IF i = 0 THEN <<>>
             ELSE IF q[i].path \in ps THEN f[i - 1] ELSE Append(f[i - 1], q[i])]
           k == CHOOSE f : Solves(f)
<1>1. Solves(k)
  <2>1. \E f : Solves(f) BY KeptExist
  <2> HIDE DEF Solves
  <2> QED BY <2>1
<1>2. Without(q, ps) = k[Len(q)] BY DEF Without
<1> HIDE DEF k
<1>3. k[0] = <<>> BY <1>1
<1>4. ASSUME NEW i \in 1..Len(q)
      PROVE  k[i] = IF q[i].path \in ps THEN k[i - 1] ELSE Append(k[i - 1], q[i])
  <2>1. i \in 0..Len(q) /\ i # 0 OBVIOUS
  <2> QED BY <2>1, <1>1
<1> QED BY <1>2, <1>3, <1>4 DEF Keeps

(* What Without leaves of a queue: the entries for other paths, as many    *)
(* bytes at most, and still one for a path.                                *)
LEMMA WithoutIs ==
  ASSUME NEW q \in Seq(Entries), NEW ps
  PROVE  /\ Without(q, ps) \in Seq(Entries)
         /\ Range(Without(q, ps)) = {e \in Range(q) : e.path \notin ps}
         /\ Bytes(Without(q, ps)) <= Bytes(q)
         /\ Distinct(q) => Distinct(Without(q, ps))
<1>1. PICK k : Keeps(k, q, ps) /\ Without(q, ps) = k[Len(q)] BY WithoutKeeps
<1>2. PICK t : Sums(t, q) /\ Bytes(q) = t[Len(q)] BY BytesSums
<1> DEFINE First(i) == {q[j] : j \in 1..i}
           Good(i) == /\ k[i] \in Seq(Entries)
                      /\ Range(k[i]) = {e \in First(i) : e.path \notin ps}
                      /\ Bytes(k[i]) <= t[i]
                      /\ Distinct(q) => Distinct(k[i])
           S == {i \in 0..Len(q) : Good(i)}
<1>3. 0 \in S
  <2>1. k[0] = <<>> /\ t[0] = 0 BY <1>1, <1>2 DEF Keeps, Sums
  <2>2. First(0) = {} OBVIOUS
  <2>3. Range(<<>>) = {} BY DEF Range
  <2>4. Distinct(<<>>) BY DEF Distinct
  <2>5. <<>> \in Seq(Entries) OBVIOUS
  <2> HIDE DEF First
  <2>6. Good(0) BY <2>1, <2>2, <2>3, <2>4, <2>5, BytesEmpty
  <2> QED BY <2>6
<1>4. ASSUME NEW n \in 0..(Len(q) - 1), n \in S PROVE n + 1 \in S
  <2> DEFINE e == q[n + 1]
  <2>1. Good(n) BY <1>4
  <2>2. n + 1 \in 1..Len(q) /\ (n + 1) - 1 = n OBVIOUS
  <2>3. e \in Entries /\ Size[e.ver] \in Nat BY <2>2, SizeOf
  <2>4. First(n + 1) = First(n) \cup {e}
    <3>1. 1..(n + 1) = (1..n) \cup {n + 1} OBVIOUS
    <3> QED BY <3>1
  <2>5. k[n + 1] = IF e.path \in ps THEN k[n] ELSE Append(k[n], e)
    BY <1>1, <2>2 DEF Keeps
  <2>6. t[n + 1] = t[n] + Size[e.ver] /\ t[n] \in Nat BY <1>2, <2>2 DEF Sums
  <2>7. Distinct(q) => \A d \in First(n) : d.path # e.path
    <3> SUFFICES ASSUME Distinct(q), NEW j \in 1..n PROVE q[j].path # e.path OBVIOUS
    <3>1. j \in DOMAIN q /\ n + 1 \in DOMAIN q /\ j # n + 1 BY <2>2
    <3> QED BY <3>1 DEF Distinct
  <2> HIDE DEF First, e
  <2>8. Bytes(k[n]) \in Nat BY <2>1, BytesType
  <2>9. CASE e.path \in ps
    <3>1. k[n + 1] = k[n] BY <2>5, <2>9
    <3>2. Range(k[n]) = {d \in First(n + 1) : d.path \notin ps} BY <2>1, <2>4, <2>9
    <3>3. Bytes(k[n]) <= t[n + 1]
      <4>1. Bytes(k[n]) <= t[n] BY <2>1
      <4> QED BY <4>1, <2>3, <2>6, <2>8
    <3>4. Good(n + 1) BY <3>1, <3>2, <3>3, <2>1
    <3> QED BY <3>4, <2>2
  <2>10. CASE e.path \notin ps
    <3>1. k[n + 1] = Append(k[n], e) BY <2>5, <2>10
    <3>2. k[n] \in Seq(Entries) BY <2>1
    <3>3. k[n + 1] \in Seq(Entries) /\ Range(k[n + 1]) = Range(k[n]) \cup {e}
      BY <3>1, <3>2, <2>3, AppendRange
    <3>4. Range(k[n + 1]) = {d \in First(n + 1) : d.path \notin ps}
      BY <3>3, <2>1, <2>4, <2>10
    <3>5. Bytes(k[n + 1]) <= t[n + 1]
      <4>1. Bytes(k[n + 1]) = Bytes(k[n]) + Size[e.ver]
        BY <3>1, <3>2, <2>3, BytesAppend
      <4>2. Bytes(k[n]) <= t[n] BY <2>1
      <4> QED BY <4>1, <4>2, <2>3, <2>6, <2>8
    <3>6. Distinct(q) => Distinct(k[n + 1])
      <4> SUFFICES ASSUME Distinct(q) PROVE Distinct(k[n + 1]) OBVIOUS
      <4>1. Distinct(k[n]) BY <2>1
      <4>2. Range(k[n]) \subseteq First(n) BY <2>1
      <4>3. e.path \notin PathsIn(k[n]) BY <2>7, <4>2 DEF PathsIn
      <4> QED BY <3>1, <3>2, <2>3, <4>1, <4>3, AppendDistinct
    <3>7. Good(n + 1) BY <3>3, <3>4, <3>5, <3>6
    <3> QED BY <3>7, <2>2
  <2> QED BY <2>9, <2>10
<1>5. Len(q) \in 0..Len(q) OBVIOUS
<1>6. Good(Len(q))
  <2> HIDE DEF S
  <2>1. \A n \in 0..Len(q) : n \in S BY <1>3, <1>4, <1>5, Induct
  <2> USE DEF S
  <2>2. Len(q) \in S BY <2>1, <1>5
  <2> HIDE DEF Good
  <2> QED BY <2>2
<1>7. First(Len(q)) = Range(q) BY DEF Range
<1> QED BY <1>1, <1>2, <1>6, <1>7

(* Evicting from the front keeps a part of the queue that fits, with the   *)
(* bytes to come if these are within the capacity.                         *)
LEMMA MakeRoomIs ==
  ASSUME NEW q \in Seq(Entries), NEW size \in Nat
  PROVE  /\ MakeRoom(q, size) \in Seq(Entries)
         /\ Range(MakeRoom(q, size)) \subseteq Range(q)
         /\ Bytes(MakeRoom(q, size)) <= MaxBytes
         /\ size <= MaxBytes => Bytes(MakeRoom(q, size)) + size <= MaxBytes
         /\ Distinct(q) => Distinct(MakeRoom(q, size))
<1> DEFINE From(i) == SubSeq(q, i, Len(q))
           fits == {i \in 1..(Len(q) + 1) : Bytes(From(i)) + size <= MaxBytes}
           r == MakeRoom(q, size)
           k == CHOOSE i \in fits : \A j \in fits : i <= j
<1>1. Len(q) \in Nat /\ MaxBytes \in Nat BY CacheAssumption
<1>2. CASE fits = {}
  <2>1. r = <<>> BY <1>2 DEF MakeRoom
  <2>2. ~(size <= MaxBytes)
    <3>1. From(Len(q) + 1) = <<>> /\ Len(q) + 1 \in 1..(Len(q) + 1) BY <1>1
    <3>2. ~(Bytes(<<>>) + size <= MaxBytes) BY <3>1, <1>2
    <3> QED BY <3>2, BytesEmpty
  <2>3. Range(<<>>) = {} /\ Distinct(<<>>) BY DEF Range, Distinct
  <2>4. <<>> \in Seq(Entries) /\ Bytes(<<>>) <= MaxBytes BY <1>1, BytesEmpty
  <2> HIDE DEF r
  <2>5. /\ r \in Seq(Entries) /\ Range(r) \subseteq Range(q) /\ Bytes(r) <= MaxBytes
        /\ size <= MaxBytes => Bytes(r) + size <= MaxBytes
        /\ Distinct(q) => Distinct(r)
    BY <2>1, <2>2, <2>3, <2>4
  <2> QED BY <2>5 DEF r
<1>3. CASE fits # {}
  <2>1. r = From(k) BY <1>3 DEF MakeRoom
  <2>2. fits \in SUBSET Nat BY <1>1
  <2>3. k \in fits
    <3> HIDE DEF fits
    <3>1. \E i \in fits : \A j \in fits : i <= j BY <1>3, <2>2, Least
    <3> QED BY <3>1
  <2>4. k \in 1..(Len(q) + 1) /\ Bytes(From(k)) + size <= MaxBytes BY <2>3
  <2> HIDE DEF k, fits
  <2>5. /\ From(k) \in Seq(Entries)
        /\ DOMAIN From(k) = 1..(Len(q) - k + 1)
        /\ \A i \in 1..(Len(q) - k + 1) : From(k)[i] = q[k + i - 1]
    BY <1>1, <2>4
  <2> HIDE DEF From, r
  <2>6. Range(r) \subseteq Range(q)
    <3> SUFFICES ASSUME NEW i \in DOMAIN r PROVE r[i] \in Range(q) BY DEF Range
    <3>1. i \in 1..(Len(q) - k + 1) /\ r[i] = q[k + i - 1] BY <2>1, <2>5
    <3>2. k + i - 1 \in DOMAIN q BY <1>1, <2>4, <3>1
    <3> QED BY <3>1, <3>2 DEF Range
  <2>7. Distinct(q) => Distinct(r)
    <3> SUFFICES ASSUME Distinct(q), NEW i \in DOMAIN r, NEW j \in DOMAIN r, i # j
                 PROVE  r[i].path # r[j].path
      BY DEF Distinct
    <3>1. /\ i \in 1..(Len(q) - k + 1) /\ r[i] = q[k + i - 1]
          /\ j \in 1..(Len(q) - k + 1) /\ r[j] = q[k + j - 1]
      BY <2>1, <2>5
    <3>2. k + i - 1 \in DOMAIN q /\ k + j - 1 \in DOMAIN q /\ k + i - 1 # k + j - 1
      BY <1>1, <2>4, <3>1
    <3> QED BY <3>1, <3>2 DEF Distinct
  <2>8. Bytes(r) + size <= MaxBytes /\ r \in Seq(Entries) BY <2>1, <2>4, <2>5
  <2>9. Bytes(r) <= MaxBytes
    <3>1. Bytes(r) \in Nat BY <2>8, BytesType
    <3> QED BY <3>1, <2>8, <1>1
  <2>10. /\ r \in Seq(Entries) /\ Range(r) \subseteq Range(q) /\ Bytes(r) <= MaxBytes
         /\ size <= MaxBytes => Bytes(r) + size <= MaxBytes
         /\ Distinct(q) => Distinct(r)
    BY <2>6, <2>7, <2>8, <2>9
  <2> QED BY <2>10 DEF r
<1> QED BY <1>2, <1>3

(* What set leaves in the cache: entries it had for other paths and the    *)
(* new one, within the capacity, one for a path.                           *)
LEMMA CacheSetIs ==
  ASSUME NEW q \in Seq(Entries), NEW p \in Paths, NEW v \in Versions, Distinct(q)
  PROVE  /\ CacheSet(q, p, v) \in Seq(Entries)
         /\ \A e \in Range(CacheSet(q, p, v)) :
              (e \in Range(q) /\ e.path # p) \/ (e.path = p /\ e.ver = v)
         /\ Bytes(CacheSet(q, p, v)) <= MaxBytes
         /\ Distinct(CacheSet(q, p, v))
<1> DEFINE w == Without(q, {p})
           room == MakeRoom(w, Size[v])
           new == [path |-> p, ver |-> v]
           s == CacheSet(q, p, v)
<1>1. Size[v] \in Nat /\ MaxBytes \in Nat BY CacheAssumption DEF Versions
<1>2. w \in Seq(Entries) /\ Distinct(w) /\ Range(w) = {e \in Range(q) : e.path \notin {p}}
  BY WithoutIs
<1> HIDE DEF w
<1>3. /\ room \in Seq(Entries) /\ Range(room) \subseteq Range(w)
      /\ Bytes(room) <= MaxBytes /\ Distinct(room)
      /\ Size[v] <= MaxBytes => Bytes(room) + Size[v] <= MaxBytes
  BY <1>1, <1>2, MakeRoomIs
<1>4. new \in Entries /\ new.path = p /\ new.ver = v BY DEF Entries
<1>5. s = IF Size[v] > MaxBytes THEN room ELSE Append(room, new) BY DEF CacheSet, w
<1> HIDE DEF room, new, s
<1>6. \A e \in Range(room) : e \in Range(q) /\ e.path # p BY <1>2, <1>3
<1>7. CASE Size[v] > MaxBytes BY <1>3, <1>5, <1>6, <1>7 DEF s
<1>8. CASE ~(Size[v] > MaxBytes)
  <2>1. s = Append(room, new) BY <1>5, <1>8
  <2>2. s \in Seq(Entries) /\ Range(s) = Range(room) \cup {new}
    BY <2>1, <1>3, <1>4, AppendRange
  <2>3. Bytes(s) <= MaxBytes
    <3>1. Bytes(s) = Bytes(room) + Size[v] BY <2>1, <1>3, <1>4, BytesAppend
    <3>2. Size[v] <= MaxBytes BY <1>1, <1>8
    <3> QED BY <3>1, <3>2, <1>3
  <2>4. Distinct(s)
    <3>1. new.path \notin PathsIn(room) BY <1>4, <1>6 DEF PathsIn
    <3> QED BY <2>1, <3>1, <1>3, <1>4, AppendDistinct
  <2>5. \A e \in Range(s) : (e \in Range(q) /\ e.path # p) \/ (e.path = p /\ e.ver = v)
    BY <2>2, <1>4, <1>6
  <2> QED BY <2>2, <2>3, <2>4, <2>5 DEF s
<1> QED BY <1>7, <1>8

-----------------------------------------------------------------------------
(* The types of the jobs, the listings and the buffers.                     *)

Events == Paths \cup {Misspelt}
Jobs == GetJob \cup QueryJob \cup WriteJob

(* A buffer is a sequence of events within the capacity. *)
LEMMA BufferIs ==
  ASSUME NEW b
  PROVE  b \in Buffers <=> b \in Seq(Events) /\ Len(b) <= BufCap
<1>1. ASSUME b \in Buffers PROVE b \in Seq(Events) /\ Len(b) <= BufCap
  <2>1. PICK n \in 0..BufCap : b \in [1..n -> Events] BY <1>1 DEF Buffers, Events
  <2>2. n \in Nat /\ n <= BufCap BY CacheAssumption
  <2> QED BY <2>1, <2>2
<1>2. ASSUME b \in Seq(Events), Len(b) <= BufCap PROVE b \in Buffers
  <2>1. b \in [1..Len(b) -> Events] BY <1>2
  <2>2. Len(b) \in 0..BufCap BY <1>2, CacheAssumption
  <2> QED BY <2>1, <2>2 DEF Buffers, Events
<1> QED BY <1>1, <1>2

(* The empty buffer, and what sending an event and taking one do to it. *)
LEMMA BufferOps ==
  /\ <<>> \in Buffers /\ Range(<<>>) = {}
  /\ \A b \in Buffers, e \in Events :
       /\ Range(Append(b, e)) = Range(b) \cup {e}
       /\ ~(Len(b) >= BufCap) => Append(b, e) \in Buffers
  /\ \A b \in Buffers : b # <<>> =>
       /\ Head(b) \in Events /\ Tail(b) \in Buffers
       /\ Range(b) = Range(Tail(b)) \cup {Head(b)}
<1>1. <<>> \in Buffers /\ Range(<<>>) = {}
  <2>1. <<>> \in Seq(Events) /\ Len(<<>>) <= BufCap BY CacheAssumption
  <2>2. Range(<<>>) = {} BY DEF Range
  <2> QED BY <2>1, <2>2, BufferIs
<1>2. ASSUME NEW b \in Buffers, NEW e \in Events
      PROVE  /\ Range(Append(b, e)) = Range(b) \cup {e}
             /\ ~(Len(b) >= BufCap) => Append(b, e) \in Buffers
  <2> DEFINE a == Append(b, e)
  <2>1. b \in Seq(Events) /\ Len(b) <= BufCap /\ BufCap \in Nat BY BufferIs, CacheAssumption
  <2>2. /\ a \in Seq(Events) /\ Len(a) = Len(b) + 1 /\ Len(b) \in Nat
        /\ DOMAIN a = 1..(Len(b) + 1) /\ DOMAIN b = 1..Len(b)
        /\ a[Len(b) + 1] = e /\ \A i \in 1..Len(b) : a[i] = b[i]
    BY <2>1
  <2> HIDE DEF a
  <2>3. Range(a) = Range(b) \cup {e}
    <3>1. ASSUME NEW i \in DOMAIN a PROVE a[i] \in Range(b) \cup {e}
      <4>1. i = Len(b) + 1 \/ i \in 1..Len(b) BY <2>2
      <4> QED BY <2>2, <4>1 DEF Range
    <3>2. ASSUME NEW i \in DOMAIN b PROVE b[i] \in Range(a)
      <4>1. i \in DOMAIN a /\ a[i] = b[i] BY <2>2
      <4> QED BY <4>1 DEF Range
    <3>3. e \in Range(a)
      <4>1. Len(b) + 1 \in DOMAIN a BY <2>2
      <4> QED BY <2>2, <4>1 DEF Range
    <3> QED BY <3>1, <3>2, <3>3 DEF Range
  <2>4. ASSUME ~(Len(b) >= BufCap) PROVE a \in Buffers
    <3>1. Len(a) <= BufCap BY <2>1, <2>2, <2>4
    <3> QED BY <2>2, <3>1, BufferIs
  <2> QED BY <2>3, <2>4 DEF a
<1>3. ASSUME NEW b \in Buffers, b # <<>>
      PROVE  /\ Head(b) \in Events /\ Tail(b) \in Buffers
             /\ Range(b) = Range(Tail(b)) \cup {Head(b)}
  <2> DEFINE t == Tail(b)
  <2>1. b \in Seq(Events) /\ Len(b) <= BufCap /\ BufCap \in Nat BY BufferIs, CacheAssumption
  <2>2. /\ t \in Seq(Events) /\ Len(b) \in Nat \ {0} /\ Len(t) = Len(b) - 1
        /\ DOMAIN b = 1..Len(b) /\ DOMAIN t = 1..(Len(b) - 1)
        /\ Head(b) = b[1] /\ \A i \in 1..(Len(b) - 1) : t[i] = b[i + 1]
        /\ Head(b) \in Events
    BY <2>1, <1>3
  <2> HIDE DEF t
  <2>3. t \in Buffers
    <3>1. Len(t) <= BufCap BY <2>1, <2>2
    <3> QED BY <2>2, <3>1, BufferIs
  <2>4. Range(b) = Range(t) \cup {Head(b)}
    <3>1. ASSUME NEW i \in DOMAIN b PROVE b[i] \in Range(t) \cup {Head(b)}
      <4>1. CASE i = 1 BY <2>2, <4>1
      <4>2. CASE i # 1
        <5>1. i - 1 \in 1..(Len(b) - 1) /\ (i - 1) + 1 = i BY <2>2, <4>2
        <5>2. i - 1 \in DOMAIN t /\ t[i - 1] = b[i] BY <2>2, <5>1
        <5> QED BY <5>2 DEF Range
      <4> QED BY <4>1, <4>2
    <3>2. ASSUME NEW i \in DOMAIN t PROVE t[i] \in Range(b)
      <4>1. i + 1 \in DOMAIN b /\ t[i] = b[i + 1] BY <2>2
      <4> QED BY <4>1 DEF Range
    <3>3. Head(b) \in Range(b)
      <4>1. 1 \in DOMAIN b /\ b[1] = Head(b) BY <2>2
      <4> QED BY <4>1 DEF Range
    <3> QED BY <3>1, <3>2, <3>3 DEF Range
  <2> QED BY <2>2, <2>3, <2>4 DEF t
<1> QED BY <1>1, <1>2, <1>3

(* The events a handler has yet to publish. *)
LEMMA PendingOps ==
  /\ <<>> \in Pending /\ Range(<<>>) = {}
  /\ \A p, q \in Paths :
       /\ <<p>> \in Pending /\ Range(<<p>>) = {p}
       /\ <<p, q>> \in Pending /\ Range(<<p, q>>) = {p, q}
  /\ \A b \in Pending : b # <<>> =>
       /\ Head(b) \in Paths /\ Tail(b) \in Pending
       /\ Range(b) = Range(Tail(b)) \cup {Head(b)}
<1>1. <<>> \in Pending /\ Range(<<>>) = {} BY DEF Pending, Range
<1>2. ASSUME NEW p \in Paths, NEW q \in Paths
      PROVE  /\ <<p>> \in Pending /\ Range(<<p>>) = {p}
             /\ <<p, q>> \in Pending /\ Range(<<p, q>>) = {p, q}
  <2>1. <<p>> \in Pending /\ <<p, q>> \in Pending BY DEF Pending
  <2>2. Range(<<p>>) = {p}
    <3>1. DOMAIN <<p>> = {1} /\ <<p>>[1] = p OBVIOUS
    <3> QED BY <3>1 DEF Range
  <2>3. Range(<<p, q>>) = {p, q}
    <3>1. DOMAIN <<p, q>> = {1, 2} /\ <<p, q>>[1] = p /\ <<p, q>>[2] = q OBVIOUS
    <3> QED BY <3>1 DEF Range
  <2> QED BY <2>1, <2>2, <2>3
<1>3. ASSUME NEW b \in Pending, b # <<>>
      PROVE  /\ Head(b) \in Paths /\ Tail(b) \in Pending
             /\ Range(b) = Range(Tail(b)) \cup {Head(b)}
  <2>1. CASE \E p \in Paths : b = <<p>>
    <3>1. PICK p \in Paths : b = <<p>> BY <2>1
    <3>2. Head(b) = p /\ Tail(b) = <<>> BY <3>1
    <3> QED BY <3>1, <3>2, <1>1, <1>2
  <2>2. CASE \E p, q \in Paths : b = <<p, q>>
    <3>1. PICK p \in Paths, q \in Paths : b = <<p, q>> BY <2>2
    <3>2. Head(b) = p /\ Tail(b) = <<q>> BY <3>1
    <3>3. Range(b) = {p, q} /\ Range(Tail(b)) = {q} /\ Tail(b) \in Pending
      BY <3>1, <3>2, <1>2
    <3> QED BY <3>2, <3>3
  <2> QED BY <1>3, <2>1, <2>2 DEF Pending
<1> QED BY <1>1, <1>2, <1>3

(* The kinds of jobs are told apart, and Nil is none of them. *)
LEMMA JobsApart ==
  ASSUME NEW j
  PROVE  /\ j \in GetJob => j \notin QueryJob /\ j \notin WriteJob /\ j # Nil
         /\ j \in QueryJob => j \notin WriteJob /\ j # Nil
         /\ j \in WriteJob => j # Nil
         /\ j \in GetJob => j.op = "get" /\ j.at \in {"call", "set"}
         /\ j \in QueryJob => j.op = "query" /\ j.at \in {"call", "set"}
         /\ j \in WriteJob => j.op \in Writes /\ j.at = "publish"
<1>1. /\ j \in GetJob => j.op = "get" /\ j.at \in {"call", "set"}
      /\ j \in QueryJob => j.op = "query" /\ j.at \in {"call", "set"}
      /\ j \in WriteJob => j.op \in Writes /\ j.at = "publish"
  BY DEF GetJob, QueryJob, WriteJob
<1>2. "get" \notin Writes /\ "query" \notin Writes BY DEF Writes
<1> QED BY <1>1, <1>2, NilAssumption

(* What a job is, from where it stands. *)
LEMMA JobAt ==
  ASSUME TypeOK, NEW c \in Clients
  PROVE  /\ job[c] \in Jobs \cup {Nil}
         /\ At(c, "publish") => job[c] \in WriteJob
         /\ At(c, "call") /\ job[c].op = "get" => job[c] \in GetJob
         /\ At(c, "set") /\ job[c].op = "get" => job[c] \in GetJob
         /\ At(c, "call") /\ job[c].op = "query" => job[c] \in QueryJob
         /\ At(c, "set") /\ job[c].op = "query" => job[c] \in QueryJob
<1> DEFINE j == job[c]
<1>1. j \in GetJob \cup QueryJob \cup WriteJob \cup {Nil} BY DEF TypeOK
<1>2. At(c, "publish") => j # Nil /\ j.at = "publish" BY DEF At
<1>3. At(c, "call") => j # Nil /\ j.at = "call" BY DEF At
<1>4. At(c, "set") => j # Nil /\ j.at = "set" BY DEF At
<1>5. "get" \notin Writes /\ "query" \notin Writes BY DEF Writes
<1> HIDE DEF j
<1>6. At(c, "publish") => j \in WriteJob BY <1>1, <1>2, JobsApart
<1>7. At(c, "call") \/ At(c, "set") =>
        (j.op = "get" => j \in GetJob) /\ (j.op = "query" => j \in QueryJob)
  BY <1>1, <1>3, <1>4, <1>5, JobsApart
<1> QED BY <1>1, <1>6, <1>7 DEF j, Jobs

(* The effect of giving c another job. *)
LEMMA JobPut ==
  ASSUME TypeOK, NEW c \in Clients, NEW j \in Jobs \cup {Nil},
         job' = [job EXCEPT ![c] = j]
  PROVE  /\ job' \in [Clients -> GetJob \cup QueryJob \cup WriteJob \cup {Nil}]
         /\ job'[c] = j /\ \A d \in Clients \ {c} : job'[d] = job[d]
<1>1. job \in [Clients -> GetJob \cup QueryJob \cup WriteJob \cup {Nil}] BY DEF TypeOK
<1> QED BY <1>1 DEF Jobs

(* A call of c that ends leaves it without a job. *)
LEMMA JobReturn ==
  ASSUME TypeOK, NEW c \in Clients, Return(c)
  PROVE  /\ job' \in [Clients -> GetJob \cup QueryJob \cup WriteJob \cup {Nil}]
         /\ job'[c] = Nil /\ \A d \in Clients \ {c} : job'[d] = job[d]
<1>1. job \in [Clients -> GetJob \cup QueryJob \cup WriteJob \cup {Nil}] BY DEF TypeOK
<1> QED BY <1>1 DEF Return

(* The record of a read after the server answered. *)
LEMMA GetJobSet ==
  ASSUME NEW j \in GetJob, NEW v \in 0..MaxVersion
  PROVE  /\ [j EXCEPT !.at = "set", !.ver = v] \in GetJob
         /\ [j EXCEPT !.at = "set", !.ver = v].path = j.path
         /\ [j EXCEPT !.at = "set", !.ver = v].ver = v
BY DEF GetJob

(* The record of a listing after the server answered. *)
LEMMA QueryJobSet ==
  ASSUME NEW j \in QueryJob, NEW l \in Listings
  PROVE  [j EXCEPT !.at = "set", !.rows = l] \in QueryJob
BY DEF QueryJob

(* The record of a write after one of its events was published. *)
LEMMA WriteJobPub ==
  ASSUME NEW j \in WriteJob, NEW b \in Pending
  PROVE  /\ [j EXCEPT !.pub = b] \in WriteJob
         /\ [j EXCEPT !.pub = b].path = j.path /\ [j EXCEPT !.pub = b].to = j.to
         /\ [j EXCEPT !.pub = b].done = j.done /\ [j EXCEPT !.pub = b].pub = b
         /\ [j EXCEPT !.pub = b].op = j.op
BY DEF WriteJob

(* What the server answers to a listing. *)
LEMMA SnapshotType ==
  ASSUME TypeOK
  PROVE  Snapshot \in Listings
<1>1. live \subseteq Paths /\ srv \in [Paths -> Versions] BY DEF TypeOK
<1>2. Snapshot \in [live -> Versions] BY <1>1 DEF Snapshot
<1> QED BY <1>1, <1>2 DEF Listings

(* Versions that a listing is put over are still versions. *)
LEMMA OverwrittenIs ==
  ASSUME NEW V, NEW old \in [Paths -> V], NEW new, DOMAIN new \subseteq Paths,
         \A p \in DOMAIN new : new[p] \in V
  PROVE  /\ Overwritten(old, new) \in [Paths -> V]
         /\ \A p \in Paths : Overwritten(old, new)[p] =
              IF p \in DOMAIN new THEN new[p] ELSE old[p]
BY DEF Overwritten

-----------------------------------------------------------------------------
(* What the operations of the caches leave.                                 *)

(* Only a cached path has a reason to be stale. *)
BlameType ==
  /\ blame \in [Paths -> SUBSET Causes]
  /\ \A p \in Paths : p \notin Cached => blame[p] = {}

(* Dropping the bodies of ps: the other bodies stay, with their reasons. *)
LEMMA InvalidateIs ==
  ASSUME TypeOK, NEW ps, InvalidateBodies(ps)
  PROVE  /\ bodies' \in Seq(Entries)
         /\ Range(bodies') = {e \in Range(bodies) : e.path \notin ps}
         /\ Bytes(bodies') <= Bytes(bodies)
         /\ Distinct(bodies) => Distinct(bodies')
         /\ \A p \in Paths : blame'[p] = IF p \in ps THEN {} ELSE blame[p]
         /\ BlameType'
<1>1. bodies \in Seq(Entries) /\ BlameType BY DEF TypeOK, BlameType
<1>2. /\ bodies' = Without(bodies, ps)
      /\ blame' = [p \in Paths |-> IF p \in ps THEN {} ELSE blame[p]]
  BY DEF InvalidateBodies, Forget
<1>3. /\ bodies' \in Seq(Entries)
      /\ Range(bodies') = {e \in Range(bodies) : e.path \notin ps}
      /\ Bytes(bodies') <= Bytes(bodies)
      /\ Distinct(bodies) => Distinct(bodies')
  BY <1>1, <1>2, WithoutIs
<1>4. \A p \in Paths : blame'[p] = IF p \in ps THEN {} ELSE blame[p] BY <1>2
<1>5. blame' \in [Paths -> SUBSET Causes] BY <1>1, <1>2 DEF BlameType
<1>6. ASSUME NEW p \in Paths, p \notin Cached', p \notin ps PROVE blame[p] = {}
  <2>1. p \notin Cached BY <1>3, <1>6 DEF Cached, PathsIn
  <2> QED BY <2>1, <1>1 DEF BlameType
<1>7. BlameType' BY <1>4, <1>5, <1>6 DEF BlameType
<1> QED BY <1>3, <1>4, <1>7

(* Suspecting ps gives a reason to those of its paths that are cached, and *)
(* takes none away.                                                        *)
LEMMA SuspectIs ==
  ASSUME TypeOK, NEW ps, NEW why \in Causes, Suspect(ps, why), UNCHANGED bodies
  PROVE  /\ BlameType'
         /\ \A p \in Paths : blame[p] # {} => blame'[p] # {}
         /\ \A p \in ps \cap Cached : blame'[p] # {}
<1>1. BlameType /\ Cached' = Cached /\ Cached \subseteq Paths
  BY RangeType DEF TypeOK, BlameType, Cached
<1>2. blame' = [x \in Paths |->
                  IF x \in ps \cap Cached THEN blame[x] \cup {why} ELSE blame[x]]
  BY DEF Suspect
<1> QED BY <1>1, <1>2 DEF BlameType

(* The read that fills the cache. *)
LEMMA GetSetIs ==
  ASSUME TypeOK, Distinct(bodies), NEW c \in Clients, GetSet(c),
         job[c].path \in Paths, job[c].ver \in Versions
  PROVE  /\ bodies' \in Seq(Entries) /\ Distinct(bodies') /\ Bytes(bodies') <= MaxBytes
         /\ \A e \in Range(bodies') :
              \/ e \in Range(bodies) /\ e.path # job[c].path
              \/ e.path = job[c].path /\ e.ver = job[c].ver
         /\ \A p \in Cached' \ {job[c].path} : blame'[p] = blame[p]
         /\ job[c].path \in Cached' /\ job[c].ver # srv[job[c].path] =>
              blame'[job[c].path] # {}
         /\ BlameType'
         /\ wrote' = [wrote EXCEPT ![job[c].path] =
              IF job[c].path \in Cached' /\ job[c].ver < srv[job[c].path] /\ job[c].ver < @
              THEN job[c].ver ELSE @]
<1> DEFINE p == job[c].path
           v == job[c].ver
<1>1. bodies \in Seq(Entries) /\ BlameType BY DEF TypeOK, BlameType
<1>2. /\ bodies' = CacheSet(bodies, p, v)
      /\ blame' = [x \in Paths |->
             IF x \notin PathsIn(bodies') THEN {}
             ELSE IF x # p THEN blame[x]
             ELSE IF v # srv[p] THEN {"race"} ELSE {}]
      /\ wrote' = [wrote EXCEPT ![p] =
             IF p \in PathsIn(bodies') /\ v < srv[p] /\ v < @ THEN v ELSE @]
  BY DEF GetSet
<1>3. p \in Paths /\ v \in Versions OBVIOUS
<1> HIDE DEF p, v
<1>4. /\ bodies' \in Seq(Entries) /\ Distinct(bodies') /\ Bytes(bodies') <= MaxBytes
      /\ \A e \in Range(bodies') :
           (e \in Range(bodies) /\ e.path # p) \/ (e.path = p /\ e.ver = v)
  BY <1>1, <1>2, <1>3, CacheSetIs
<1>5. PathsIn(bodies') = Cached' /\ Cached' \subseteq Paths
  BY <1>4, RangeType DEF Cached
<1>6. blame' \in [Paths -> SUBSET Causes] BY <1>1, <1>2 DEF BlameType, Causes
<1>7. \A x \in Paths : x \notin Cached' => blame'[x] = {} BY <1>2, <1>5
<1>8. BlameType' BY <1>6, <1>7 DEF BlameType
<1>9. \A x \in Cached' \ {p} : blame'[x] = blame[x] BY <1>2, <1>5
<1>10. p \in Cached' /\ v # srv[p] => blame'[p] # {} BY <1>2, <1>3, <1>5
<1>11. wrote' = [wrote EXCEPT ![p] =
             IF p \in Cached' /\ v < srv[p] /\ v < @ THEN v ELSE @]
  BY <1>2, <1>5
<1> QED BY <1>4, <1>8, <1>9, <1>10, <1>11 DEF p, v

-----------------------------------------------------------------------------
(* The inductive invariant. *)

(* The paths whose event is still on its way: to be published by a handler *)
(* or to be received from the subscription.                                *)
ToPublish(c) == IF job[c] \in WriteJob THEN Range(job[c].pub) ELSE {}
ToReceive == IF sub \in Buffers THEN Range(sub) ELSE {}

Budget == Bytes(bodies) <= MaxBytes

(* A version that a read brings back is no newer than the server's, and    *)
(* when it is the server's the note is there.                              *)
GetCurrent ==
  \A c \in Clients : job[c] \in GetJob /\ job[c].at = "set" =>
    /\ job[c].ver \in 1..srv[job[c].path]
    /\ job[c].ver = srv[job[c].path] => job[c].path \in live

(* The server has at least the versions that a write made. *)
WriteDone ==
  \A c \in Clients : job[c] \in WriteJob =>
    /\ DOMAIN job[c].done = Named(job[c].op, job[c].path, job[c].to)
    /\ \A p \in DOMAIN job[c].done : job[c].done[p] <= srv[p]

(* The versions that were written are the server's at most, and the least  *)
(* that the body cache has of their paths.                                 *)
WroteKept ==
  /\ \A p \in Paths : wrote[p] <= srv[p]
  /\ \A e \in Range(bodies) : wrote[e.path] <= e.ver

(* A stale body has a reason, or something is on its way to drop it. *)
Excused(p) ==
  \/ blame[p] # {}
  \/ stream = "broken"
  \/ p \in ToReceive
  \/ \E c \in Clients : p \in ToPublish(c)

BodyExcused ==
  \A e \in Range(bodies) : e.ver # srv[e.path] \/ e.path \notin live => Excused(e.path)

(* So does a stale listing. *)
ListExcuse ==
  \/ sblame # {}
  \/ stream = "broken"
  \/ ToReceive # {}
  \/ \E c \in Clients : ToPublish(c) # {}

ListingExcused == listing # Nil /\ listing # Snapshot => ListExcuse

CacheInv ==
  /\ TypeOK
  /\ Distinct(bodies)
  /\ Budget
  /\ GetCurrent
  /\ WriteDone
  /\ WroteKept
  /\ BodyExcused
  /\ ListingExcused

-----------------------------------------------------------------------------
(* The types. *)

ListType ==
  /\ listing \in Listings \cup {Nil} /\ sblame \subseteq Causes
  /\ listing = Nil => sblame = {}

StreamType ==
  /\ sub \in Buffers \cup {Nil} /\ stream \in {"down", "up", "broken"}
  /\ stream = "up" <=> sub # Nil

ServerType == srv \in [Paths -> Versions] /\ live \subseteq Paths
JobType == job \in [Clients -> GetJob \cup QueryJob \cup WriteJob \cup {Nil}]
BodiesType == bodies \in Seq(Entries)
WroteType == wrote \in [Paths -> 0..MaxVersion]

(* The type invariant, part by part. *)
LEMMA TypeParts ==
  TypeOK <=> /\ ServerType /\ StreamType /\ BodiesType /\ ListType
             /\ JobType /\ BlameType /\ WroteType
BY DEF TypeOK, ServerType, StreamType, BodiesType, ListType, JobType, BlameType, WroteType

(* The same, in the next state. *)
LEMMA TypePartsNext ==
  TypeOK' <=> /\ ServerType' /\ StreamType' /\ BodiesType' /\ ListType'
              /\ JobType' /\ BlameType' /\ WroteType'
BY DEF TypeOK, ServerType, StreamType, BodiesType, ListType, JobType, BlameType, WroteType

(* What a write of c asks for and leaves. *)
LEMMA MutateIs ==
  ASSUME TypeOK, NEW c \in Clients, NEW op \in Writes, NEW p \in Paths, NEW q \in Paths,
         NEW raw \in BOOLEAN, Mutate(c, op, p, q, raw)
  PROVE  /\ JobType' /\ ServerType'
         /\ job[c] = Nil /\ job'[c] \in WriteJob
         /\ \A d \in Clients \ {c} : job'[d] = job[d]
         /\ job'[c].op = op /\ job'[c].path = p /\ job'[c].to = q
         /\ job'[c].pub = EventsOf(op, p, q)
         /\ DOMAIN job'[c].done = Named(op, p, q)
         /\ \A x \in Named(op, p, q) : x \in {p, q} /\ job'[c].done[x] = srv'[x]
         /\ \A x \in {p, q} : srv'[x] = srv[x] + 1
         /\ \A x \in Paths \ {p, q} : srv'[x] = srv[x] /\ (x \in live' <=> x \in live)
<1> DEFINE new == [x \in {p, q} |-> srv[x] + 1]
           done == [x \in Named(op, p, q) |-> new[x]]
           j == [op |-> op, at |-> "publish", path |-> p, to |-> q, raw |-> raw,
                 pub |-> EventsOf(op, p, q), done |-> done]
<1>1. srv \in [Paths -> Versions] /\ live \subseteq Paths /\ JobType
  BY DEF TypeOK, JobType
<1>2. job[c] = Nil /\ srv' = Overwritten(srv, new) /\ live' = LiveAfter(op, p, q)
      /\ job' = [job EXCEPT ![c] = j]
      /\ \A x \in {p, q} : srv[x] < MaxVersion
  BY DEF Mutate
<1>3. ASSUME NEW x \in {p, q} PROVE srv[x] + 1 \in Versions
  <2>1. srv[x] \in 1..MaxVersion /\ srv[x] < MaxVersion BY <1>1, <1>2 DEF Versions
  <2> QED BY <2>1, CacheAssumption DEF Versions
<1>4. DOMAIN new = {p, q} /\ \A x \in {p, q} : new[x] = srv[x] + 1 OBVIOUS
<1>5. new \in [{p, q} -> Versions] BY <1>3
<1> HIDE DEF new
<1>6. /\ done \in Listings /\ DOMAIN done = Named(op, p, q) /\ Named(op, p, q) \subseteq {p, q}
      /\ \A x \in Named(op, p, q) : done[x] = new[x]
  <2>1. Named(op, p, q) \subseteq {p, q} BY DEF Named
  <2>2. done \in [Named(op, p, q) -> Versions] BY <1>5, <2>1
  <2>3. Named(op, p, q) \in SUBSET Paths BY <2>1
  <2> QED BY <2>1, <2>2, <2>3 DEF Listings
<1>7. /\ srv' \in [Paths -> Versions]
      /\ \A x \in Paths : srv'[x] = IF x \in DOMAIN new THEN new[x] ELSE srv[x]
  <2>1. \A x \in DOMAIN new : new[x] \in Versions BY <1>3, <1>4
  <2>2. DOMAIN new \subseteq Paths BY <1>4
  <2> QED BY <1>1, <1>2, <2>1, <2>2, OverwrittenIs
<1>8. EventsOf(op, p, q) \in Pending BY PendingOps DEF EventsOf
<1>9. j \in WriteJob BY <1>6, <1>8 DEF WriteJob
<1>10. j.op = op /\ j.path = p /\ j.to = q /\ j.pub = EventsOf(op, p, q) /\ j.done = done
  OBVIOUS
<1> HIDE DEF j, done
<1>11. JobType' /\ job'[c] = j /\ \A d \in Clients \ {c} : job'[d] = job[d]
  <2>1. j \in Jobs \cup {Nil} BY <1>9 DEF Jobs
  <2> QED BY <1>2, <2>1, JobPut DEF JobType
<1>12. live' \subseteq Paths /\ \A x \in Paths \ {p, q} : x \in live' <=> x \in live
  BY <1>1, <1>2 DEF LiveAfter
<1>13. \A x \in {p, q} : new[x] = srv'[x] /\ srv'[x] = srv[x] + 1 BY <1>4, <1>7
<1>14. \A x \in Paths \ {p, q} : srv'[x] = srv[x] BY <1>4, <1>7
<1> QED BY <1>2, <1>6, <1>7, <1>9, <1>10, <1>11, <1>12, <1>13, <1>14 DEF ServerType

(* What a write leaves on record of the notes that no event is about.      *)
LEMMA UnpublishedIs ==
  ASSUME TypeOK, NEW op, NEW p \in Paths, NEW q \in Paths, Unpublished(op, p, q),
         UNCHANGED <<bodies, listing>>
  PROVE  /\ BlameType' /\ ListType'
         /\ \A x \in Paths : blame[x] # {} => blame'[x] # {}
         /\ \A x \in {p, q} : x \notin Range(EventsOf(op, p, q)) /\ x \in Cached => blame'[x] # {}
         /\ op \in Batch /\ listing # Nil => sblame' # {}
<1>1. "unpublished" \in Causes BY DEF Causes
<1>2. Suspect({p, q} \ Range(EventsOf(op, p, q)), "unpublished") BY DEF Unpublished
<1>3. /\ sblame' = IF op \in Batch /\ listing # Nil THEN sblame \cup {"unpublished"}
                   ELSE IF op \in Batch THEN {} ELSE sblame
      /\ sblame \subseteq Causes /\ (listing = Nil => sblame = {})
      /\ listing \in Listings \cup {Nil}
  BY DEF Unpublished, SuspectListing, TypeOK
<1>4. ListType' BY <1>1, <1>3 DEF ListType
<1> QED BY <1>1, <1>2, <1>3, <1>4, SuspectIs

(* What a change behind the server's tools leaves. *)
LEMMA EditIs ==
  ASSUME TypeOK, NEW p \in Paths, Edit(p)
  PROVE  /\ ServerType' /\ BlameType' /\ ListType'
         /\ UNCHANGED <<sub, stream, bodies, listing, job, wrote>>
         /\ srv'[p] = srv[p] + 1
         /\ \A x \in Paths \ {p} : srv'[x] = srv[x] /\ (x \in live' <=> x \in live)
         /\ \A x \in Paths : blame[x] # {} => blame'[x] # {}
         /\ p \in Cached => blame'[p] # {}
         /\ listing # Nil => sblame' # {}
<1> DEFINE new == [x \in {p} |-> srv[x] + 1]
<1>1. /\ srv[p] < MaxVersion /\ srv' = Overwritten(srv, new)
      /\ live' \in {live \cup {p}, live \ {p}}
      /\ Suspect({p}, "unpublished")
      /\ sblame' = IF listing = Nil THEN {} ELSE sblame \cup {"unpublished"}
      /\ UNCHANGED <<sub, stream, bodies, listing, job, wrote>>
  BY DEF Edit, SuspectListing
<1>2. srv \in [Paths -> Versions] /\ live \subseteq Paths /\ sblame \subseteq Causes
      /\ listing \in Listings \cup {Nil} /\ "unpublished" \in Causes
  BY DEF TypeOK, Causes
<1>3. srv[p] + 1 \in Versions
  <2>1. srv[p] \in 1..MaxVersion BY <1>2 DEF Versions
  <2> QED BY <1>1, <2>1, CacheAssumption DEF Versions
<1>4. DOMAIN new = {p} /\ \A x \in DOMAIN new : new[x] = srv[p] + 1 /\ new[x] \in Versions
  BY <1>3
<1> HIDE DEF new
<1>5. /\ srv' \in [Paths -> Versions]
      /\ \A x \in Paths : srv'[x] = IF x \in DOMAIN new THEN new[x] ELSE srv[x]
  <2>1. DOMAIN new \subseteq Paths BY <1>4
  <2> QED BY <1>1, <1>2, <1>4, <2>1, OverwrittenIs
<1>6. /\ live' \subseteq Paths
      /\ \A x \in Paths \ {p} : x \in live' <=> x \in live
  BY <1>1, <1>2
<1>7. ListType' BY <1>1, <1>2 DEF ListType
<1>8. /\ BlameType' /\ (p \in Cached => blame'[p] # {})
      /\ \A x \in Paths : blame[x] # {} => blame'[x] # {}
  BY <1>1, <1>2, SuspectIs
<1> QED BY <1>1, <1>4, <1>5, <1>6, <1>7, <1>8 DEF ServerType

(* What publishing leaves: the job has one event less, and that event is   *)
(* in the buffer, or its path and the listing are suspected.               *)
LEMMA PublishIs ==
  ASSUME TypeOK, NEW c \in Clients, Publish(c)
  PROVE  /\ JobType' /\ StreamType' /\ BlameType' /\ ListType'
         /\ job[c] \in WriteJob /\ job'[c] \in WriteJob
         /\ job[c].pub \in Pending /\ job[c].pub # <<>>
         /\ \A d \in Clients \ {c} : job'[d] = job[d]
         /\ job'[c].op = job[c].op /\ job'[c].path = job[c].path /\ job'[c].to = job[c].to
         /\ job'[c].done = job[c].done /\ job'[c].pub = Tail(job[c].pub)
         /\ \A p \in Paths : blame[p] # {} => blame'[p] # {}
         /\ sblame # {} => sblame' # {}
         /\ ToReceive \subseteq ToReceive'
         /\ \/ Head(job[c].pub) \in ToReceive'
            \/ Head(job[c].pub) \in Cached => blame'[Head(job[c].pub)] # {}
         /\ ToReceive' # {} \/ (listing # Nil => sblame' # {})
<1> DEFINE b == job[c].pub
           p == Head(b)
           why == LossOf(job[c].raw)
           e == IF job[c].raw THEN Misspelt ELSE p
<1>1. At(c, "publish") /\ b # <<>> /\ job' = [job EXCEPT ![c].pub = Tail(@)]
  BY DEF Publish
<1>2. /\ Send(e)
      /\ IF why = "none" THEN UNCHANGED blame ELSE Suspect({p}, why)
      /\ sblame' = IF why \in {"unsubscribed", "dropped"} /\ listing # Nil
                   THEN sblame \cup {why} ELSE sblame
      /\ UNCHANGED <<srv, live, stream, bodies, listing, wrote>>
  BY DEF Publish
<1>3. job[c] \in WriteJob BY <1>1, JobAt
<1>4. b \in Pending /\ job[c].raw \in BOOLEAN BY <1>3 DEF WriteJob
<1>5. p \in Paths /\ Tail(b) \in Pending BY <1>1, <1>4, PendingOps
<1> DEFINE j == [job[c] EXCEPT !.pub = Tail(b)]
<1>6. job' = [job EXCEPT ![c] = j] BY <1>1
<1>7. /\ j \in WriteJob /\ j.path = job[c].path /\ j.to = job[c].to
      /\ j.done = job[c].done /\ j.pub = Tail(b) /\ j.op = job[c].op
  BY <1>3, <1>5, WriteJobPub
<1> HIDE DEF j
<1>8. JobType' /\ job'[c] = j /\ \A d \in Clients \ {c} : job'[d] = job[d]
  <2>1. j \in Jobs \cup {Nil} BY <1>7 DEF Jobs
  <2> QED BY <1>6, <2>1, JobPut DEF JobType
<1>9. why \in Causes \cup {"none"} BY DEF LossOf, Causes
<1>10. /\ why = "none" => sub # Nil /\ ~(Len(sub) >= BufCap) /\ ~job[c].raw
       /\ why = "misspelt" => sub # Nil /\ ~(Len(sub) >= BufCap)
       /\ why \in {"none", "misspelt", "unsubscribed", "dropped"}
  <2>1. CASE sub = Nil BY <2>1 DEF LossOf
  <2>2. CASE sub # Nil /\ Len(sub) >= BufCap BY <2>2 DEF LossOf
  <2>3. CASE sub # Nil /\ ~(Len(sub) >= BufCap) /\ job[c].raw BY <2>3 DEF LossOf
  <2>4. CASE sub # Nil /\ ~(Len(sub) >= BufCap) /\ ~job[c].raw BY <2>4 DEF LossOf
  <2> QED BY <1>4, <2>1, <2>2, <2>3, <2>4
<1>11. e \in Events /\ (~job[c].raw => e = p) BY <1>5 DEF Events
<1> HIDE DEF why, e
<1>12. sub \in Buffers \cup {Nil} /\ (stream = "up" <=> sub # Nil) /\ BlameType /\ ListType
       /\ stream \in {"down", "up", "broken"}
  BY TypeParts DEF StreamType
<1>13. StreamType' /\ ToReceive \subseteq ToReceive'
       /\ (why \in {"none", "misspelt"} => e \in ToReceive')
  <2>1. CASE sub = Nil \/ Len(sub) >= BufCap
    <3>1. sub' = sub BY <1>2, <2>1 DEF Send
    <3>2. ~(why \in {"none", "misspelt"}) BY <1>10, <2>1
    <3> QED BY <1>2, <1>12, <3>1, <3>2 DEF StreamType, ToReceive
  <2>2. CASE ~(sub = Nil \/ Len(sub) >= BufCap)
    <3>1. sub \in Buffers /\ sub' = Append(sub, e) BY <1>2, <1>12, <2>2 DEF Send
    <3>2. sub' \in Buffers /\ Range(sub') = Range(sub) \cup {e}
      BY <1>11, <2>2, <3>1, BufferOps
    <3>3. sub' # Nil BY <3>2, NilAssumption
    <3> QED BY <1>2, <1>12, <2>2, <3>1, <3>2, <3>3 DEF StreamType, ToReceive
  <2> QED BY <2>1, <2>2
<1>14. BlameType' /\ (\A x \in Paths : blame[x] # {} => blame'[x] # {})
       /\ (why # "none" /\ p \in Cached => blame'[p] # {})
  <2>1. CASE why = "none" BY <1>2, <1>12, <2>1 DEF BlameType, Cached
  <2>2. CASE why # "none"
    <3>1. why \in Causes /\ Suspect({p}, why) /\ UNCHANGED bodies BY <1>2, <1>9, <2>2
    <3> HIDE DEF p
    <3> QED BY <3>1, SuspectIs
  <2> QED BY <2>1, <2>2
<1>15. ListType' /\ (sblame # {} => sblame' # {})
       /\ (why \in {"unsubscribed", "dropped"} /\ listing # Nil => sblame' # {})
  BY <1>2, <1>12 DEF ListType, Causes
<1>16. p \in ToReceive' \/ (p \in Cached => blame'[p] # {})
  BY <1>10, <1>11, <1>13, <1>14
<1>17. ToReceive' # {} \/ (listing # Nil => sblame' # {})
  BY <1>10, <1>13, <1>15
<1> QED BY <1>1, <1>3, <1>4, <1>7, <1>8, <1>13, <1>14, <1>15, <1>16, <1>17

(* The version that a read is about to cache. *)
LEMMA SetVersion ==
  ASSUME TypeOK, GetCurrent, NEW c \in Clients, At(c, "set"), job[c].op = "get"
  PROVE  /\ job[c] \in GetJob /\ job[c].path \in Paths /\ job[c].ver \in Versions
         /\ job[c].ver <= srv[job[c].path]
         /\ job[c].ver = srv[job[c].path] => job[c].path \in live
<1>1. job[c] \in GetJob BY JobAt
<1>2. job[c].path \in Paths BY <1>1 DEF GetJob
<1>3. srv[job[c].path] \in 1..MaxVersion BY <1>2 DEF TypeOK, Versions
<1>4. job[c].at = "set" BY DEF At
<1>5. job[c].ver \in 1..srv[job[c].path]
      /\ (job[c].ver = srv[job[c].path] => job[c].path \in live)
  BY <1>1, <1>4 DEF GetCurrent
<1> QED BY <1>1, <1>2, <1>3, <1>5, CacheAssumption DEF Versions

(* A read of a note that is not cached starts a call. *)
LEMMA GetMissIs ==
  ASSUME TypeOK, NEW c \in Clients, NEW p \in Paths, GetMiss(c, p)
  PROVE  /\ JobType' /\ job[c] = Nil
         /\ job'[c] \in GetJob /\ job'[c].at = "call"
         /\ \A d \in Clients \ {c} : job'[d] = job[d]
<1> DEFINE j == [op |-> "get", at |-> "call", path |-> p, ver |-> 0]
<1>1. j \in GetJob /\ j.at = "call" BY CacheAssumption DEF GetJob
<1>2. job[c] = Nil /\ job' = [job EXCEPT ![c] = j] BY DEF GetMiss
<1> HIDE DEF j
<1>3. j \in Jobs \cup {Nil} BY <1>1 DEF Jobs
<1>4. JobType' /\ job'[c] = j /\ \A d \in Clients \ {c} : job'[d] = job[d]
  BY <1>2, <1>3, JobPut DEF JobType
<1> QED BY <1>1, <1>2, <1>4

(* The server answers a read with the version it has, or that there is none. *)
LEMMA GetCallIs ==
  ASSUME TypeOK, NEW c \in Clients, GetCall(c)
  PROVE  /\ JobType' /\ job[c] \in GetJob
         /\ \A d \in Clients \ {c} : job'[d] = job[d]
         /\ \/ job'[c] = Nil
            \/ /\ job'[c] \in GetJob /\ job'[c].path \in live
               /\ job'[c].ver = srv[job'[c].path]
<1>1. At(c, "call") /\ job[c].op = "get" BY DEF GetCall
<1>2. job[c] \in GetJob BY <1>1, JobAt
<1>3. job[c].path \in Paths BY <1>2 DEF GetJob
<1>4. CASE job[c].path \notin live
  <2>1. Return(c) BY <1>4 DEF GetCall
  <2> QED BY <1>2, <2>1, JobReturn DEF JobType
<1>5. CASE job[c].path \in live
  <2> DEFINE v == srv[job[c].path]
             j == [job[c] EXCEPT !.at = "set", !.ver = v]
  <2>1. job' = [job EXCEPT ![c] = j] BY <1>5 DEF GetCall
  <2>2. v \in 0..MaxVersion BY <1>3, CacheAssumption DEF TypeOK, Versions
  <2> HIDE DEF v
  <2>3. j \in GetJob /\ j.path = job[c].path /\ j.ver = v BY <1>2, <2>2, GetJobSet
  <2> HIDE DEF j
  <2>4. j \in Jobs \cup {Nil} BY <2>3 DEF Jobs
  <2>5. JobType' /\ job'[c] = j /\ \A d \in Clients \ {c} : job'[d] = job[d]
    BY <2>1, <2>4, JobPut DEF JobType
  <2>6. job'[c] \in GetJob /\ job'[c].path \in live /\ job'[c].ver = srv[job'[c].path]
    BY <1>5, <2>3, <2>5 DEF v
  <2> QED BY <1>2, <2>5, <2>6
<1> QED BY <1>4, <1>5

(* A listing that is not cached starts a call, and the server answers it. *)
LEMMA QueryIs ==
  ASSUME TypeOK, NEW c \in Clients, QueryMiss(c) \/ QueryCall(c)
  PROVE  /\ JobType' /\ job[c] \notin WriteJob /\ job'[c] \in QueryJob
         /\ \A d \in Clients \ {c} : job'[d] = job[d]
<1>1. CASE QueryMiss(c)
  <2> DEFINE j == [op |-> "query", at |-> "call", rows |-> Nil]
  <2>1. j \in QueryJob BY DEF QueryJob
  <2>2. job[c] = Nil /\ job' = [job EXCEPT ![c] = j] BY <1>1 DEF QueryMiss
  <2> HIDE DEF j
  <2>3. j \in Jobs \cup {Nil} BY <2>1 DEF Jobs
  <2>4. JobType' /\ job'[c] = j /\ \A d \in Clients \ {c} : job'[d] = job[d]
    BY <2>2, <2>3, JobPut DEF JobType
  <2> QED BY <2>1, <2>2, <2>4, NilAssumption
<1>2. CASE QueryCall(c)
  <2>1. job[c] \in QueryJob BY <1>2, JobAt DEF QueryCall
  <2> DEFINE j == [job[c] EXCEPT !.at = "set", !.rows = Snapshot]
  <2>2. job' = [job EXCEPT ![c] = j] BY <1>2 DEF QueryCall
  <2>3. j \in QueryJob BY <2>1, SnapshotType, QueryJobSet
  <2> HIDE DEF j
  <2>4. j \in Jobs \cup {Nil} BY <2>3 DEF Jobs
  <2>5. JobType' /\ job'[c] = j /\ \A d \in Clients \ {c} : job'[d] = job[d]
    BY <2>2, <2>4, JobPut DEF JobType
  <2> QED BY <2>1, <2>3, <2>5, JobsApart
<1> QED BY <1>1, <1>2

(* Dropping the listing drops the reasons for which it may be stale. *)
LEMMA NoListing ==
  ASSUME InvalidateListing
  PROVE  ListType' /\ listing' = Nil
BY DEF InvalidateListing, ListType

(* The steps that end a call. *)
LEMMA ReturnIs ==
  ASSUME TypeOK, NEW c \in Clients,
         GetSet(c) \/ QuerySet(c) \/ Answer(c) \/ AnswerLost(c)
  PROVE  /\ JobType' /\ job'[c] = Nil
         /\ \A d \in Clients \ {c} : job'[d] = job[d]
<1>1. Return(c) BY DEF GetSet, QuerySet, Answer, AnswerLost
<1> QED BY <1>1, JobReturn DEF JobType

(* A handler that answers has published all its events. *)
LEMMA AnswerIs ==
  ASSUME TypeOK, NEW c \in Clients, Answer(c) \/ AnswerLost(c)
  PROVE  job[c] \in WriteJob /\ ToPublish(c) = {}
         /\ job[c].path \in Paths /\ job[c].to \in Paths /\ job[c].op \in Writes
<1>1. At(c, "publish") /\ job[c].pub = <<>> BY DEF Answer, AnswerLost
<1>2. job[c] \in WriteJob BY <1>1, JobAt
<1>3. ToPublish(c) = {} BY <1>1, <1>2, PendingOps DEF ToPublish
<1> QED BY <1>2, <1>3 DEF WriteJob

(* Every step keeps the types. *)
LEMMA TypeNext ==
  ASSUME CacheInv, [Next]_vars
  PROVE  TypeOK'
<1> USE DEF server, gateway
<1>0. /\ TypeOK /\ GetCurrent /\ WriteDone /\ Distinct(bodies)
      /\ ServerType /\ StreamType /\ BodiesType /\ ListType /\ JobType /\ BlameType
      /\ WroteType
  BY TypeParts DEF CacheInv
<1>1. CASE UNCHANGED vars
  BY <1>0, <1>1 DEF vars, TypeOK, Cached
<1>2. ASSUME NEW c \in Clients, NEW p \in Paths, GetMiss(c, p) PROVE TypeOK'
  <2>1. JobType' BY <1>0, <1>2, GetMissIs
  <2> QED BY <1>0, <1>2, <2>1 DEF GetMiss, TypeOK, JobType, Cached
<1>3. ASSUME NEW c \in Clients, GetCall(c) PROVE TypeOK'
  <2>1. JobType' BY <1>0, <1>3, GetCallIs
  <2>2. UNCHANGED <<server, stream, gateway>> BY <1>3 DEF GetCall
  <2> QED BY <1>0, <2>1, <2>2 DEF TypeOK, JobType, Cached
<1>4. ASSUME NEW c \in Clients, GetSet(c) PROVE TypeOK'
  <2>1. JobType' BY <1>0, <1>4, ReturnIs
  <2>2. At(c, "set") /\ job[c].op = "get" /\ UNCHANGED <<server, stream, listing, sblame>>
    BY <1>4 DEF GetSet
  <2>3. job[c].path \in Paths /\ job[c].ver \in Versions BY <1>0, <2>2, SetVersion
  <2>4. /\ bodies' \in Seq(Entries) /\ BlameType'
        /\ wrote' = [wrote EXCEPT ![job[c].path] =
              IF job[c].path \in Cached' /\ job[c].ver < srv[job[c].path] /\ job[c].ver < @
              THEN job[c].ver ELSE @]
    BY <1>0, <1>4, <2>3, GetSetIs
  <2>5. WroteType' BY <1>0, <2>3, <2>4, CacheAssumption DEF WroteType, Versions
  <2>6. ServerType' /\ StreamType' /\ ListType'
    BY <1>0, <2>2 DEF ServerType, StreamType, ListType
  <2> QED BY <2>1, <2>4, <2>5, <2>6, TypePartsNext DEF BodiesType
<1>5. ASSUME NEW c \in Clients, QueryMiss(c) \/ QueryCall(c) PROVE TypeOK'
  <2>1. JobType' BY <1>0, <1>5, QueryIs
  <2>2. UNCHANGED <<server, stream, gateway>> BY <1>5 DEF QueryMiss, QueryCall
  <2> QED BY <1>0, <2>1, <2>2 DEF TypeOK, JobType, Cached
<1>6. ASSUME NEW c \in Clients, QuerySet(c) PROVE TypeOK'
  <2>1. JobType' BY <1>0, <1>6, ReturnIs
  <2>2. job[c] \in QueryJob /\ job[c].at = "set" BY <1>0, <1>6, JobAt DEF QuerySet, At
  <2>3. job[c].rows \in Listings /\ job[c].rows # Nil
    BY <2>2, NilAssumption DEF QueryJob
  <2>4. /\ UNCHANGED <<server, stream, bodies, blame, wrote>> /\ listing' = job[c].rows
        /\ sblame' = IF job[c].rows # Snapshot THEN {"race"} ELSE {}
    BY <1>6 DEF QuerySet
  <2>5. ListType' BY <2>3, <2>4 DEF ListType, Causes
  <2> QED BY <1>0, <2>1, <2>4, <2>5 DEF TypeOK, JobType, ListType, Cached
<1>7. ASSUME NEW c \in Clients, NEW op \in Writes, NEW p \in Paths, NEW q \in Paths,
             NEW raw \in BOOLEAN, Mutate(c, op, p, q, raw)
      PROVE  TypeOK'
  <2>1. JobType' /\ ServerType' BY <1>0, <1>7, MutateIs
  <2>2. UNCHANGED <<sub, stream, bodies, listing, wrote>> BY <1>7 DEF Mutate
  <2>3. BlameType' /\ ListType'
    <3>1. Unpublished(op, p, q) BY <1>7 DEF Mutate
    <3> QED BY <1>0, <2>2, <3>1, UnpublishedIs
  <2>4. StreamType' /\ BodiesType' /\ WroteType'
    BY <1>0, <2>2 DEF StreamType, BodiesType, WroteType
  <2> QED BY <2>1, <2>3, <2>4, TypePartsNext
<1>8. ASSUME NEW c \in Clients, Publish(c) PROVE TypeOK'
  <2>1. JobType' /\ StreamType' /\ BlameType' /\ ListType' BY <1>0, <1>8, PublishIs
  <2>2. UNCHANGED <<srv, live, bodies, wrote>> BY <1>8 DEF Publish
  <2>3. ServerType' /\ BodiesType' /\ WroteType'
    BY <1>0, <2>2 DEF ServerType, BodiesType, WroteType
  <2> QED BY <2>1, <2>3, TypePartsNext
<1>9. ASSUME NEW c \in Clients, Answer(c) PROVE TypeOK'
  <2> DEFINE ps == Invalidated(job[c].op, job[c].path, job[c].to)
  <2>1. JobType' BY <1>0, <1>9, ReturnIs
  <2>2. InvalidateBodies(ps) /\ InvalidateListing /\ UNCHANGED <<server, stream>>
        /\ wrote' = IF job[c].op \in Creates \cup Batch THEN wrote
                    ELSE Overwritten(wrote, job[c].done)
    BY <1>9 DEF Answer
  <2> HIDE DEF ps
  <2>3. BodiesType' /\ BlameType' BY <1>0, <2>2, InvalidateIs DEF BodiesType
  <2>4. ListType' BY <2>2, NoListing
  <2>5. WroteType'
    <3>1. job[c] \in WriteJob BY <1>0, <1>9, AnswerIs
    <3>2. job[c].done \in Listings BY <3>1 DEF WriteJob
    <3>3. DOMAIN job[c].done \subseteq Paths
          /\ \A p \in DOMAIN job[c].done : job[c].done[p] \in Versions
      BY <3>2 DEF Listings
    <3>4. \A p \in DOMAIN job[c].done : job[c].done[p] \in 0..MaxVersion
      BY <3>3, CacheAssumption DEF Versions
    <3>5. wrote \in [Paths -> 0..MaxVersion] BY <1>0 DEF WroteType
    <3>6. Overwritten(wrote, job[c].done) \in [Paths -> 0..MaxVersion]
      BY <3>3, <3>4, <3>5, OverwrittenIs
    <3> QED BY <2>2, <3>5, <3>6 DEF WroteType
  <2>6. ServerType' /\ StreamType' BY <1>0, <2>2 DEF ServerType, StreamType
  <2> QED BY <2>1, <2>3, <2>4, <2>5, <2>6, TypePartsNext
<1>10. ASSUME NEW c \in Clients, AnswerLost(c) PROVE TypeOK'
  <2>1. JobType' BY <1>0, <1>10, ReturnIs
  <2>2. UNCHANGED <<server, stream, gateway>> BY <1>10 DEF AnswerLost
  <2> QED BY <1>0, <2>1, <2>2 DEF TypeOK, JobType, Cached
<1>11. CASE Connect
  <2>1. StreamType' BY <1>11, BufferOps, NilAssumption DEF Connect, StreamType
  <2>2. UNCHANGED <<srv, live, gateway, job>> BY <1>11 DEF Connect
  <2> QED BY <1>0, <2>1, <2>2 DEF TypeOK, StreamType, Cached
<1>12. CASE Receive
  <2>1. /\ stream = "up" /\ sub # <<>> /\ sub' = Tail(sub)
        /\ InvalidateBodies({Head(sub)}) /\ InvalidateListing
        /\ UNCHANGED <<srv, live, stream, job, wrote>>
    BY <1>12 DEF Receive, OnEvent
  <2>2. sub \in Buffers BY <1>0, <2>1 DEF StreamType
  <2>3. sub' \in Buffers BY <2>1, <2>2, BufferOps
  <2>4. StreamType' BY <2>1, <2>3, NilAssumption DEF StreamType
  <2>5. BodiesType' /\ BlameType' BY <1>0, <2>1, InvalidateIs DEF BodiesType
  <2>6. ListType' BY <2>1, NoListing
  <2>7. ServerType' /\ JobType' /\ WroteType'
    BY <1>0, <2>1 DEF ServerType, JobType, WroteType
  <2> QED BY <2>4, <2>5, <2>6, <2>7, TypePartsNext
<1>13. CASE Cut
  <2>1. StreamType' BY <1>13 DEF Cut, StreamType
  <2>2. UNCHANGED <<srv, live, gateway, job>> BY <1>13 DEF Cut
  <2> QED BY <1>0, <2>1, <2>2 DEF TypeOK, StreamType, Cached
<1>14. CASE Disconnect
  <2>1. /\ stream = "broken" /\ stream' = "down"
        /\ InvalidateBodies(Paths) /\ InvalidateListing
        /\ UNCHANGED <<server, job, wrote>>
    BY <1>14 DEF Disconnect, OnDisconnect
  <2>2. StreamType' BY <1>0, <2>1 DEF StreamType
  <2>3. BodiesType' /\ BlameType' BY <1>0, <2>1, InvalidateIs DEF BodiesType
  <2>4. ListType' BY <2>1, NoListing
  <2>5. ServerType' /\ JobType' /\ WroteType'
    BY <1>0, <2>1 DEF ServerType, JobType, WroteType
  <2> QED BY <2>2, <2>3, <2>4, <2>5, TypePartsNext
<1>15. CASE ExpireListing
  <2>1. InvalidateListing /\ UNCHANGED <<server, stream, bodies, job, blame, wrote>>
    BY <1>15 DEF ExpireListing
  <2>2. ListType' BY <2>1, NoListing
  <2> QED BY <1>0, <2>1, <2>2 DEF TypeOK, ListType, Cached
<1>16. ASSUME NEW p \in Paths, ExpireBody(p) PROVE TypeOK'
  <2>1. InvalidateBodies({p}) /\ UNCHANGED <<server, stream, listing, job, sblame, wrote>>
    BY <1>16 DEF ExpireBody
  <2>2. BodiesType' /\ BlameType' BY <1>0, <2>1, InvalidateIs DEF BodiesType
  <2>3. ServerType' /\ StreamType' /\ ListType' /\ JobType' /\ WroteType'
    BY <1>0, <2>1 DEF ServerType, StreamType, ListType, JobType, WroteType
  <2> QED BY <2>2, <2>3, TypePartsNext
<1>17. ASSUME NEW p \in Paths, Edit(p) PROVE TypeOK'
  <2>1. /\ ServerType' /\ BlameType' /\ ListType'
        /\ UNCHANGED <<sub, stream, bodies, listing, job, wrote>>
    BY <1>0, <1>17, EditIs
  <2>2. StreamType' /\ BodiesType' /\ JobType' /\ WroteType'
    BY <1>0, <2>1 DEF StreamType, BodiesType, JobType, WroteType
  <2> QED BY <2>1, <2>2, TypePartsNext
<1> QED
  BY <1>1, <1>2, <1>3, <1>4, <1>5, <1>6, <1>7, <1>8, <1>9, <1>10, <1>11, <1>12,
     <1>13, <1>14, <1>15, <1>16, <1>17
  DEF Next, Stream, Expire, Read, Write

-----------------------------------------------------------------------------
(* What a step does to each part of the state. *)

(* A step leaves the bodies, fills the cache with what a read brought, or   *)
(* drops the bodies of some paths.                                         *)
LEMMA BodiesStep ==
  ASSUME CacheInv, [Next]_vars
  PROVE  \/ UNCHANGED bodies
         \/ \E c \in Clients : GetSet(c)
         \/ \E ps : InvalidateBodies(ps)
<1> USE DEF server, gateway
<1>1. CASE UNCHANGED vars BY <1>1 DEF vars
<1>2. ASSUME NEW c \in Clients, Read(c)
      PROVE  UNCHANGED bodies \/ GetSet(c)
  BY <1>2 DEF Read, GetMiss, GetCall, QueryMiss, QueryCall, QuerySet
<1>3. ASSUME NEW c \in Clients, Write(c)
      PROVE  UNCHANGED bodies \/ \E ps : InvalidateBodies(ps)
  BY <1>3 DEF Write, Mutate, Publish, Answer, AnswerLost
<1>4. CASE Stream
  BY <1>4 DEF Stream, Connect, Receive, OnEvent, Cut, Disconnect, OnDisconnect
<1>5. CASE Expire BY <1>5 DEF Expire, ExpireBody, ExpireListing
<1>6. ASSUME NEW p \in Paths, Edit(p) PROVE UNCHANGED <<wrote, bodies>> BY <1>6 DEF Edit
<1> QED BY <1>1, <1>2, <1>3, <1>4, <1>5, <1>6 DEF Next

(* Only a write and an edit change what the server has. *)
LEMMA ServerStep ==
  ASSUME CacheInv, [Next]_vars
  PROVE  /\ \A p \in Paths : srv[p] \in Nat /\ srv'[p] \in Nat
         /\ \A p \in Paths : \/ srv'[p] = srv[p] /\ (p \in live' <=> p \in live)
                             \/ srv'[p] = srv[p] + 1
<1> USE DEF server, gateway
<1>1. TypeOK /\ TypeOK' BY TypeNext DEF CacheInv
<1>2. \A p \in Paths : srv[p] \in Nat /\ srv'[p] \in Nat
  BY <1>1, CacheAssumption DEF TypeOK, Versions
<1>3. CASE UNCHANGED <<srv, live>> BY <1>2, <1>3
<1>4. ASSUME NEW c \in Clients, NEW op \in Writes, NEW p \in Paths, NEW q \in Paths,
             NEW raw \in BOOLEAN, Mutate(c, op, p, q, raw)
      PROVE  \A x \in Paths : \/ srv'[x] = srv[x] /\ (x \in live' <=> x \in live)
                              \/ srv'[x] = srv[x] + 1
  BY <1>1, <1>4, MutateIs
<1>6. ASSUME NEW p \in Paths, Edit(p)
      PROVE  \A x \in Paths : \/ srv'[x] = srv[x] /\ (x \in live' <=> x \in live)
                              \/ srv'[x] = srv[x] + 1
  BY <1>1, <1>6, EditIs
<1>5. \/ UNCHANGED <<srv, live>>
      \/ \E c \in Clients, op \in Writes, p, q \in Paths, raw \in BOOLEAN : Mutate(c, op, p, q, raw)
      \/ \E p \in Paths : Edit(p)
  <2>1. CASE UNCHANGED vars BY <2>1 DEF vars
  <2>2. ASSUME NEW c \in Clients, Read(c) PROVE UNCHANGED <<srv, live>>
    BY <2>2 DEF Read, GetMiss, GetCall, GetSet, QueryMiss, QueryCall, QuerySet
  <2>3. ASSUME NEW c \in Clients, Publish(c) \/ Answer(c) \/ AnswerLost(c)
        PROVE  UNCHANGED <<srv, live>>
    BY <2>3 DEF Publish, Answer, AnswerLost
  <2>4. CASE Stream BY <2>4 DEF Stream, Connect, Receive, Cut, Disconnect
  <2>5. CASE Expire BY <2>5 DEF Expire, ExpireBody, ExpireListing
  <2> QED BY <2>1, <2>2, <2>3, <2>4, <2>5 DEF Next, Write
<1> QED BY <1>2, <1>3, <1>4, <1>5, <1>6

(* The jobs that a step can give to c. *)
LEMMA JobStep ==
  ASSUME CacheInv, [Next]_vars, NEW c \in Clients
  PROVE  \/ job'[c] = job[c]
         \/ job'[c] \in QueryJob \cup {Nil}
         \/ job'[c] \in GetJob /\ job'[c].at = "call"
         \/ /\ job'[c] \in GetJob /\ UNCHANGED <<srv, live>>
            /\ job'[c].path \in live /\ job'[c].ver = srv[job'[c].path]
         \/ /\ job'[c] \in WriteJob
            /\ DOMAIN job'[c].done = Named(job'[c].op, job'[c].path, job'[c].to)
            /\ \A x \in DOMAIN job'[c].done : job'[c].done[x] <= srv'[x]
<1> USE DEF server, gateway
<1> DEFINE Goal == \/ job'[c] = job[c]
                   \/ job'[c] \in QueryJob \cup {Nil}
                   \/ job'[c] \in GetJob /\ job'[c].at = "call"
                   \/ /\ job'[c] \in GetJob /\ UNCHANGED <<srv, live>>
                      /\ job'[c].path \in live /\ job'[c].ver = srv[job'[c].path]
                   \/ /\ job'[c] \in WriteJob
                      /\ DOMAIN job'[c].done = Named(job'[c].op, job'[c].path, job'[c].to)
                      /\ \A x \in DOMAIN job'[c].done : job'[c].done[x] <= srv'[x]
<1>1. TypeOK /\ WriteDone BY DEF CacheInv
<1>2. ASSUME UNCHANGED vars PROVE Goal BY <1>2 DEF vars
<1>3. ASSUME Stream PROVE Goal
  BY <1>3 DEF Stream, Connect, Receive, Cut, Disconnect
<1>4. ASSUME Expire PROVE Goal BY <1>4 DEF Expire, ExpireBody, ExpireListing
<1>5. ASSUME NEW d \in Clients, NEW p \in Paths, GetMiss(d, p) PROVE Goal
  BY <1>1, <1>5, GetMissIs
<1>6. ASSUME NEW d \in Clients, GetCall(d) PROVE Goal
  <2>1. UNCHANGED <<srv, live>> BY <1>6 DEF GetCall
  <2> QED BY <1>1, <1>6, <2>1, GetCallIs
<1>7. ASSUME NEW d \in Clients, GetSet(d) \/ QuerySet(d) \/ Answer(d) \/ AnswerLost(d)
      PROVE  Goal
  BY <1>1, <1>7, ReturnIs
<1>8. ASSUME NEW d \in Clients, QueryMiss(d) \/ QueryCall(d) PROVE Goal
  BY <1>1, <1>8, QueryIs
<1>9. ASSUME NEW d \in Clients, NEW op \in Writes, NEW p \in Paths, NEW q \in Paths,
             NEW raw \in BOOLEAN, Mutate(d, op, p, q, raw)
      PROVE  Goal
  <2>1. CASE c # d BY <1>1, <1>9, <2>1, MutateIs
  <2>2. CASE c = d
    <3>1. /\ job'[c] \in WriteJob /\ job'[c].op = op /\ job'[c].path = p /\ job'[c].to = q
          /\ DOMAIN job'[c].done = Named(op, p, q)
          /\ \A x \in Named(op, p, q) : x \in {p, q} /\ job'[c].done[x] = srv'[x]
      BY <1>1, <1>9, <2>2, MutateIs
    <3>2. \A x \in {p, q} : srv'[x] \in Nat BY ServerStep
    <3>3. \A x \in DOMAIN job'[c].done : job'[c].done[x] <= srv'[x] BY <3>1, <3>2
    <3> QED BY <3>1, <3>3
  <2> QED BY <2>1, <2>2
<1>10. ASSUME NEW d \in Clients, Publish(d) PROVE Goal
  <2>1. CASE c # d BY <1>1, <1>10, <2>1, PublishIs
  <2>2. CASE c = d
    <3>1. /\ job[c] \in WriteJob /\ job'[c] \in WriteJob /\ job'[c].path = job[c].path
          /\ job'[c].to = job[c].to /\ job'[c].done = job[c].done /\ job'[c].op = job[c].op
      BY <1>1, <1>10, <2>2, PublishIs
    <3>2. UNCHANGED srv BY <1>10 DEF Publish
    <3>3. /\ DOMAIN job[c].done = Named(job[c].op, job[c].path, job[c].to)
          /\ \A p \in DOMAIN job[c].done : job[c].done[p] <= srv[p]
      BY <1>1, <3>1 DEF WriteDone
    <3> QED BY <3>1, <3>2, <3>3
  <2> QED BY <2>1, <2>2
<1>12. ASSUME NEW p \in Paths, Edit(p) PROVE Goal BY <1>12 DEF Edit
<1> HIDE DEF Goal
<1>11. Goal
  BY <1>2, <1>3, <1>4, <1>5, <1>6, <1>7, <1>8, <1>9, <1>10, <1>12
  DEF Next, Stream, Expire, Read, Write
<1> QED BY <1>11 DEF Goal

-----------------------------------------------------------------------------
(* The parts of the invariant are kept by every step. *)

(* The body cache stays within its capacity, with one entry for a path. *)
LEMMA BodiesNext ==
  ASSUME CacheInv, [Next]_vars
  PROVE  Distinct(bodies)' /\ Budget'
<1>1. TypeOK /\ Distinct(bodies) /\ Budget /\ GetCurrent BY DEF CacheInv
<1>2. CASE UNCHANGED bodies BY <1>1, <1>2 DEF Distinct, Budget, Bytes
<1>3. ASSUME NEW c \in Clients, GetSet(c) PROVE Distinct(bodies)' /\ Budget'
  <2>1. At(c, "set") /\ job[c].op = "get" BY <1>3 DEF GetSet
  <2>2. job[c].path \in Paths /\ job[c].ver \in Versions BY <1>1, <2>1, SetVersion
  <2>3. Distinct(bodies') /\ Bytes(bodies') <= MaxBytes BY <1>1, <1>3, <2>2, GetSetIs
  <2> QED BY <2>3 DEF Distinct, Budget, Bytes
<1>4. ASSUME NEW ps, InvalidateBodies(ps) PROVE Distinct(bodies)' /\ Budget'
  <2>1. bodies' \in Seq(Entries) /\ Bytes(bodies') <= Bytes(bodies) /\ Distinct(bodies')
    BY <1>1, <1>4, InvalidateIs
  <2>2. Bytes(bodies') \in Nat /\ Bytes(bodies) \in Nat /\ MaxBytes \in Nat
    BY <1>1, <2>1, BytesType, CacheAssumption DEF TypeOK
  <2>3. Bytes(bodies') <= MaxBytes BY <1>1, <2>1, <2>2 DEF Budget
  <2> QED BY <2>1, <2>3 DEF Distinct, Budget, Bytes
<1> QED BY <1>2, <1>3, <1>4, BodiesStep

(* A read brings back no version newer than the server's. *)
LEMMA GetCurrentNext ==
  ASSUME CacheInv, [Next]_vars
  PROVE  GetCurrent'
<1>1. TypeOK /\ TypeOK' /\ GetCurrent BY TypeNext DEF CacheInv
<1>2. SUFFICES ASSUME NEW c \in Clients, job'[c] \in GetJob, job'[c].at = "set"
               PROVE  /\ job'[c].ver \in 1..srv'[job'[c].path]
                      /\ job'[c].ver = srv'[job'[c].path] => job'[c].path \in live'
  BY DEF GetCurrent
<1> DEFINE p == job'[c].path
           v == job'[c].ver
<1>3. p \in Paths BY <1>2 DEF GetJob
<1>4. srv[p] \in 1..MaxVersion /\ srv'[p] \in 1..MaxVersion
  BY <1>1, <1>3 DEF TypeOK, Versions
<1>5. \/ srv'[p] = srv[p] /\ (p \in live' <=> p \in live)
      \/ srv'[p] = srv[p] + 1
  BY <1>3, ServerStep
<1>6. job'[c] \notin QueryJob \cup {Nil} /\ job'[c] \notin WriteJob
  BY <1>2, JobsApart
<1>7. CASE job'[c] = job[c]
  <2>1. v \in 1..srv[p] /\ (v = srv[p] => p \in live)
    BY <1>1, <1>2, <1>7 DEF GetCurrent
  <2> HIDE DEF p, v
  <2>2. v \in 1..srv'[p] /\ (v = srv'[p] => p \in live')
    BY <2>1, <1>4, <1>5, CacheAssumption
  <2> QED BY <2>2 DEF p, v
<1>8. CASE UNCHANGED <<srv, live>> /\ p \in live /\ v = srv[p]
  BY <1>4, <1>8, CacheAssumption
<1> QED BY <1>2, <1>6, <1>7, <1>8, JobStep

(* The server has the versions that the writes made. *)
LEMMA WriteDoneNext ==
  ASSUME CacheInv, [Next]_vars
  PROVE  WriteDone'
<1>1. TypeOK /\ TypeOK' /\ WriteDone BY TypeNext DEF CacheInv
<1>2. SUFFICES ASSUME NEW c \in Clients, job'[c] \in WriteJob
               PROVE  /\ DOMAIN job'[c].done = Named(job'[c].op, job'[c].path, job'[c].to)
                      /\ \A x \in DOMAIN job'[c].done : job'[c].done[x] <= srv'[x]
  BY DEF WriteDone
<1>3. job'[c] \notin QueryJob \cup {Nil} /\ job'[c] \notin GetJob
  BY <1>2, JobsApart
<1>4. CASE job'[c] = job[c]
  <2> DEFINE d == job'[c].done
             ps == Named(job'[c].op, job'[c].path, job'[c].to)
  <2>1. DOMAIN d = ps /\ \A x \in ps : d[x] <= srv[x]
    BY <1>1, <1>2, <1>4 DEF WriteDone
  <2>2. ps \subseteq Paths /\ d \in Listings BY <1>2 DEF WriteJob, Named
  <2> HIDE DEF d, ps
  <2>3. \A x \in ps : d[x] \in Nat
    <3>1. \A x \in DOMAIN d : d[x] \in 1..MaxVersion BY <2>2 DEF Listings, Versions
    <3> QED BY <2>1, <3>1, CacheAssumption
  <2>4. ASSUME NEW x \in ps PROVE d[x] <= srv'[x]
    <3>1. srv[x] \in Nat /\ srv'[x] \in Nat /\ (srv'[x] = srv[x] \/ srv'[x] = srv[x] + 1)
      BY <2>2, ServerStep
    <3> QED BY <3>1, <2>1, <2>3
  <2>5. DOMAIN d = ps /\ \A x \in ps : d[x] <= srv'[x] BY <2>1, <2>4
  <2> QED BY <2>5 DEF d, ps
<1> QED BY <1>3, <1>4, JobStep

(* Only a read that fills the cache and an answer change what is known of  *)
(* the versions that were written.                                         *)
LEMMA WroteStep ==
  ASSUME CacheInv, [Next]_vars
  PROVE  \/ \E c \in Clients : GetSet(c) \/ Answer(c)
         \/ UNCHANGED wrote /\ (UNCHANGED bodies \/ \E ps : InvalidateBodies(ps))
<1> USE DEF server, gateway
<1>1. CASE UNCHANGED vars BY <1>1 DEF vars
<1>2. ASSUME NEW c \in Clients, Read(c)
      PROVE  UNCHANGED <<wrote, bodies>> \/ GetSet(c)
  BY <1>2 DEF Read, GetMiss, GetCall, QueryMiss, QueryCall, QuerySet
<1>3. ASSUME NEW c \in Clients, Write(c)
      PROVE  UNCHANGED <<wrote, bodies>> \/ Answer(c)
  <2>1. ASSUME NEW op, NEW p, NEW q, NEW raw, Mutate(c, op, p, q, raw)
        PROVE  UNCHANGED <<wrote, bodies>>
    BY <2>1 DEF Mutate
  <2>2. ASSUME Publish(c) \/ AnswerLost(c) PROVE UNCHANGED <<wrote, bodies>>
    BY <2>2 DEF Publish, AnswerLost
  <2> QED BY <1>3, <2>1, <2>2 DEF Write
<1>4. CASE Stream
  BY <1>4 DEF Stream, Connect, Receive, OnEvent, Cut, Disconnect, OnDisconnect
<1>5. CASE Expire BY <1>5 DEF Expire, ExpireBody, ExpireListing
<1>6. ASSUME NEW p \in Paths, Edit(p) PROVE UNCHANGED <<wrote, bodies>> BY <1>6 DEF Edit
<1> QED BY <1>1, <1>2, <1>3, <1>4, <1>5, <1>6 DEF Next

(* No body that is older than a version written through the gateway. *)
LEMMA WroteNext ==
  ASSUME CacheInv, [Next]_vars
  PROVE  WroteKept'
<1>1. /\ TypeOK /\ TypeOK' /\ Distinct(bodies) /\ GetCurrent /\ WriteDone /\ WroteKept
  BY TypeNext DEF CacheInv
<1>2. bodies \in Seq(Entries) /\ bodies' \in Seq(Entries)
      /\ wrote \in [Paths -> 0..MaxVersion] /\ wrote' \in [Paths -> 0..MaxVersion]
  BY <1>1 DEF TypeOK
<1>3. \A e \in Range(bodies) \cup Range(bodies') : e.path \in Paths /\ e.ver \in Nat
  <2>1. \A e \in Entries : e.path \in Paths /\ e.ver \in Nat
    BY CacheAssumption DEF Entries, Versions
  <2> QED BY <1>2, <2>1, RangeType
<1>4. \A p \in Paths : /\ srv[p] \in Nat /\ srv'[p] \in Nat /\ srv[p] <= srv'[p]
                       /\ wrote[p] \in Nat /\ wrote'[p] \in Nat /\ wrote[p] <= srv'[p]
  <2> TAKE p \in Paths
  <2>1. srv[p] \in Nat /\ srv'[p] \in Nat /\ (srv'[p] = srv[p] \/ srv'[p] = srv[p] + 1)
    BY ServerStep
  <2>2. wrote[p] \in Nat /\ wrote'[p] \in Nat BY <1>2, CacheAssumption
  <2>3. wrote[p] <= srv[p] BY <1>1 DEF WroteKept
  <2> QED BY <2>1, <2>2, <2>3
<1>5. ASSUME NEW c \in Clients, GetSet(c) PROVE WroteKept'
  <2> DEFINE p == job[c].path
             v == job[c].ver
  <2>1. At(c, "set") /\ job[c].op = "get" BY <1>5 DEF GetSet
  <2>2. job[c].path \in Paths /\ job[c].ver \in Versions BY <1>1, <2>1, SetVersion
  <2>3. p \in Paths /\ v \in Nat /\ v <= srv[p]
    BY <1>1, <2>1, SetVersion, CacheAssumption DEF Versions
  <2>4. /\ \A e \in Range(bodies') : \/ e \in Range(bodies) /\ e.path # p
                                     \/ e.path = p /\ e.ver = v
        /\ wrote' = [wrote EXCEPT ![p] =
              IF p \in Cached' /\ v < srv[p] /\ v < @ THEN v ELSE @]
    BY <1>1, <1>5, <2>2, GetSetIs
  <2> HIDE DEF p, v
  <2>5. /\ \A x \in Paths \ {p} : wrote'[x] = wrote[x]
        /\ wrote'[p] = IF p \in Cached' /\ v < srv[p] /\ v < wrote[p] THEN v ELSE wrote[p]
    BY <1>2, <2>3, <2>4
  <2>6. \A x \in Paths : wrote'[x] <= srv'[x] BY <1>4, <2>3, <2>5
  <2>7. ASSUME NEW e \in Range(bodies') PROVE wrote'[e.path] <= e.ver
    <3>1. CASE e \in Range(bodies) /\ e.path # p
      <4>1. wrote[e.path] <= e.ver BY <1>1, <3>1 DEF WroteKept
      <4> QED BY <1>3, <2>5, <3>1, <4>1
    <3>2. CASE e.path = p /\ e.ver = v
      <4>1. p \in Cached' BY <3>2 DEF Cached, PathsIn
      <4>2. wrote[p] <= srv[p] BY <1>1, <2>3 DEF WroteKept
      <4>3. wrote'[p] <= v BY <1>4, <2>3, <2>5, <4>1, <4>2
      <4> QED BY <3>2, <4>3
    <3> QED BY <2>4, <3>1, <3>2
  <2> QED BY <2>6, <2>7 DEF WroteKept
<1>6. ASSUME NEW c \in Clients, Answer(c) PROVE WroteKept'
  <2> DEFINE ps == Invalidated(job[c].op, job[c].path, job[c].to)
             d == job[c].done
  <2>1. InvalidateBodies(ps)
        /\ wrote' = IF job[c].op \in Creates \cup Batch THEN wrote ELSE Overwritten(wrote, d)
    BY <1>6 DEF Answer
  <2>2. job[c] \in WriteJob /\ job[c].path \in Paths /\ job[c].to \in Paths
    BY <1>1, <1>6, AnswerIs
  <2>3. /\ DOMAIN d = Named(job[c].op, job[c].path, job[c].to)
        /\ \A p \in DOMAIN d : d[p] <= srv[p]
    BY <1>1, <2>2 DEF WriteDone
  <2>4. d \in Listings BY <2>2 DEF WriteJob
  <2>5. \A p \in DOMAIN d : d[p] \in 0..MaxVersion
    <3>1. \A p \in DOMAIN d : d[p] \in 1..MaxVersion BY <2>4 DEF Listings, Versions
    <3> QED BY <3>1, CacheAssumption
  <2>6. ~(job[c].op \in Creates \cup Batch) => ps = DOMAIN d BY <2>3 DEF Invalidated
  <2> HIDE DEF ps, d
  <2>7. Range(bodies') = {e \in Range(bodies) : e.path \notin ps}
    BY <1>1, <2>1, InvalidateIs
  <2>8. CASE job[c].op \in Creates \cup Batch
    <3>1. wrote' = wrote BY <2>1, <2>8
    <3>2. \A e \in Range(bodies') : wrote'[e.path] <= e.ver
      BY <1>1, <2>7, <3>1 DEF WroteKept
    <3> QED BY <1>4, <3>1, <3>2 DEF WroteKept
  <2>9. CASE ~(job[c].op \in Creates \cup Batch)
    <3>1. \A p \in Paths : wrote'[p] = IF p \in DOMAIN d THEN d[p] ELSE wrote[p]
      BY <2>1, <2>9 DEF Overwritten
    <3>2. ASSUME NEW p \in Paths PROVE wrote'[p] <= srv'[p]
      <4>1. CASE p \in DOMAIN d
        <5>1. wrote'[p] = d[p] /\ d[p] <= srv[p] BY <2>3, <3>1, <4>1
        <5> QED BY <1>4, <5>1
      <4>2. CASE p \notin DOMAIN d BY <1>4, <3>1, <4>2
      <4> QED BY <4>1, <4>2
    <3>3. ASSUME NEW e \in Range(bodies') PROVE wrote'[e.path] <= e.ver
      <4>1. e \in Range(bodies) /\ e.path \notin DOMAIN d BY <2>6, <2>7, <2>9
      <4>2. wrote'[e.path] = wrote[e.path] BY <1>3, <3>1, <4>1
      <4> QED BY <1>1, <4>1, <4>2 DEF WroteKept
    <3> QED BY <3>2, <3>3 DEF WroteKept
  <2> QED BY <2>8, <2>9
<1>7. ASSUME UNCHANGED wrote, UNCHANGED bodies \/ \E ps : InvalidateBodies(ps)
      PROVE  WroteKept'
  <2>1. Range(bodies') \subseteq Range(bodies) BY <1>1, <1>7, InvalidateIs
  <2> QED BY <1>1, <1>4, <1>7, <2>1 DEF WroteKept
<1> QED BY <1>5, <1>6, <1>7, WroteStep

(* A step that leaves the server and the stream alone and publishes nothing. *)
Quiet ==
  /\ UNCHANGED <<srv, live, sub, stream>>
  /\ \A d \in Clients : ToPublish(d)' = ToPublish(d)

(* The quiet steps, and what each does to the caches. *)
LEMMA QuietStep ==
  ASSUME TypeOK
  PROVE  /\ UNCHANGED vars => Quiet /\ UNCHANGED <<bodies, blame, listing, sblame>>
         /\ \A c \in Clients :
              /\ \A p \in Paths : GetMiss(c, p) =>
                   Quiet /\ UNCHANGED <<bodies, blame, listing, sblame>>
              /\ GetCall(c) \/ QueryMiss(c) \/ QueryCall(c) \/ AnswerLost(c) =>
                   Quiet /\ UNCHANGED <<bodies, blame, listing, sblame>>
              /\ GetSet(c) => Quiet /\ UNCHANGED <<listing, sblame>>
              /\ QuerySet(c) => Quiet /\ UNCHANGED <<bodies, blame>>
              /\ Answer(c) => Quiet
         /\ ExpireListing => Quiet /\ UNCHANGED <<bodies, blame>>
         /\ \A p \in Paths : ExpireBody(p) => Quiet /\ UNCHANGED <<listing, sblame>>
<1> USE DEF server, gateway
<1>1. ASSUME NEW d \in Clients, job'[d] = job[d] PROVE ToPublish(d)' = ToPublish(d)
  BY <1>1 DEF ToPublish
<1>2. ASSUME NEW c \in Clients, \A d \in Clients \ {c} : job'[d] = job[d],
             job'[c] \notin WriteJob, ToPublish(c) = {}, UNCHANGED <<srv, live, sub, stream>>
      PROVE  Quiet
  <2>1. ToPublish(c)' = {} BY <1>2 DEF ToPublish
  <2>2. \A d \in Clients \ {c} : ToPublish(d)' = ToPublish(d) BY <1>1, <1>2
  <2> QED BY <1>2, <2>1, <2>2 DEF Quiet
<1>3. ASSUME UNCHANGED <<srv, live, sub, stream, job>> PROVE Quiet
  BY <1>1, <1>3 DEF Quiet
<1>4. ASSUME NEW c \in Clients, job[c] \notin WriteJob PROVE ToPublish(c) = {}
  BY <1>4 DEF ToPublish
<1>5. ASSUME UNCHANGED vars PROVE Quiet /\ UNCHANGED <<bodies, blame, listing, sblame>>
  BY <1>3, <1>5 DEF vars
<1>6. ASSUME NEW c \in Clients, NEW p \in Paths, GetMiss(c, p)
      PROVE  Quiet /\ UNCHANGED <<bodies, blame, listing, sblame>>
  <2>1. UNCHANGED <<srv, live, sub, stream, bodies, blame, listing, sblame>>
    BY <1>6 DEF GetMiss
  <2>2. job[c] = Nil /\ job'[c] \in GetJob /\ \A d \in Clients \ {c} : job'[d] = job[d]
    BY <1>6, GetMissIs
  <2>3. job[c] \notin WriteJob /\ job'[c] \notin WriteJob BY <2>2, NilAssumption, JobsApart
  <2> QED BY <1>2, <1>4, <2>1, <2>2, <2>3
<1>7. ASSUME NEW c \in Clients, GetCall(c)
      PROVE  Quiet /\ UNCHANGED <<bodies, blame, listing, sblame>>
  <2>1. UNCHANGED <<srv, live, sub, stream, bodies, blame, listing, sblame>>
    BY <1>7 DEF GetCall
  <2>2. /\ job[c] \in GetJob /\ job'[c] \in GetJob \cup {Nil}
        /\ \A d \in Clients \ {c} : job'[d] = job[d]
    BY <1>7, GetCallIs
  <2>3. job[c] \notin WriteJob /\ job'[c] \notin WriteJob BY <2>2, NilAssumption, JobsApart
  <2> QED BY <1>2, <1>4, <2>1, <2>2, <2>3
<1>8. ASSUME NEW c \in Clients, QueryMiss(c) \/ QueryCall(c)
      PROVE  Quiet /\ UNCHANGED <<bodies, blame, listing, sblame>>
  <2>1. UNCHANGED <<srv, live, sub, stream, bodies, blame, listing, sblame>>
    BY <1>8 DEF QueryMiss, QueryCall
  <2>2. /\ job[c] \notin WriteJob /\ job'[c] \in QueryJob
        /\ \A d \in Clients \ {c} : job'[d] = job[d]
    BY <1>8, QueryIs
  <2>3. job'[c] \notin WriteJob BY <2>2, JobsApart
  <2> QED BY <1>2, <1>4, <2>1, <2>2, <2>3
<1>9. ASSUME NEW c \in Clients, GetSet(c) \/ QuerySet(c) \/ Answer(c) \/ AnswerLost(c)
      PROVE  Quiet
  <2>1. UNCHANGED <<srv, live, sub, stream>>
    BY <1>9 DEF GetSet, QuerySet, Answer, AnswerLost
  <2>2. job'[c] = Nil /\ \A d \in Clients \ {c} : job'[d] = job[d] BY <1>9, ReturnIs
  <2>3. job'[c] \notin WriteJob BY <2>2, NilAssumption
  <2>4. ToPublish(c) = {}
    <3>1. CASE GetSet(c)
      <4>1. job[c] \in GetJob BY <3>1, JobAt DEF GetSet
      <4> QED BY <4>1, JobsApart, <1>4
    <3>2. CASE QuerySet(c)
      <4>1. job[c] \in QueryJob BY <3>2, JobAt DEF QuerySet
      <4> QED BY <4>1, JobsApart, <1>4
    <3>3. CASE Answer(c) \/ AnswerLost(c) BY <3>3, AnswerIs
    <3> QED BY <1>9, <3>1, <3>2, <3>3
  <2> QED BY <1>2, <2>1, <2>2, <2>3, <2>4
<1>10. \A c \in Clients :
         /\ GetSet(c) => UNCHANGED <<listing, sblame>>
         /\ QuerySet(c) => UNCHANGED <<bodies, blame>>
         /\ AnswerLost(c) => UNCHANGED <<bodies, blame, listing, sblame>>
  BY DEF GetSet, QuerySet, AnswerLost
<1>11. ASSUME ExpireListing PROVE Quiet /\ UNCHANGED <<bodies, blame>>
  BY <1>3, <1>11 DEF ExpireListing
<1>12. ASSUME NEW p \in Paths, ExpireBody(p) PROVE Quiet /\ UNCHANGED <<listing, sblame>>
  BY <1>3, <1>12 DEF ExpireBody
<1> QED BY <1>5, <1>6, <1>7, <1>8, <1>9, <1>10, <1>11, <1>12

(* A reason is kept when what makes it is. *)
LEMMA ExcuseKept ==
  ASSUME NEW p, Excused(p), blame[p] # {} => blame'[p] # {},
         stream = "broken" => stream' = "broken",
         p \in ToReceive => p \in ToReceive',
         \A c \in Clients : p \in ToPublish(c) => p \in ToPublish(c)'
  PROVE  Excused(p)'
<1>1. CASE blame[p] # {} BY <1>1 DEF Excused
<1>2. CASE stream = "broken" BY <1>2 DEF Excused
<1>3. CASE p \in ToReceive BY <1>3 DEF Excused
<1>4. CASE \E c \in Clients : p \in ToPublish(c)
  <2>1. PICK c \in Clients : p \in ToPublish(c)' BY <1>4
  <2> QED BY <2>1 DEF Excused
<1> QED BY <1>1, <1>2, <1>3, <1>4 DEF Excused

(* A write leaves its events to publish, and takes none from the others. *)
LEMMA MutatePublishes ==
  ASSUME TypeOK, NEW c \in Clients, NEW op \in Writes, NEW p \in Paths, NEW q \in Paths,
         NEW raw \in BOOLEAN, Mutate(c, op, p, q, raw)
  PROVE  /\ \A d \in Clients : ToPublish(d) \subseteq ToPublish(d)'
         /\ ToPublish(c)' = Range(EventsOf(op, p, q))
         /\ op \notin Batch => p \in ToPublish(c)'
<1>1. /\ job[c] = Nil /\ job'[c] \in WriteJob /\ job'[c].pub = EventsOf(op, p, q)
      /\ \A d \in Clients \ {c} : job'[d] = job[d]
  BY MutateIs
<1>2. ToPublish(c) = {} BY <1>1, NilAssumption DEF ToPublish
<1>3. \A d \in Clients \ {c} : ToPublish(d)' = ToPublish(d) BY <1>1 DEF ToPublish
<1>4. ToPublish(c)' = Range(EventsOf(op, p, q)) BY <1>1 DEF ToPublish
<1>5. op \notin Batch => p \in Range(EventsOf(op, p, q))
  BY PendingOps DEF EventsOf
<1> QED BY <1>1, <1>2, <1>3, <1>4, <1>5

(* What publishing takes from the events that are to be published. *)
LEMMA PublishTakes ==
  ASSUME TypeOK, NEW c \in Clients, Publish(c)
  PROVE  /\ \A d \in Clients \ {c} : ToPublish(d)' = ToPublish(d)
         /\ ToPublish(c) = ToPublish(c)' \cup {Head(job[c].pub)}
<1>1. /\ job[c] \in WriteJob /\ job'[c] \in WriteJob
      /\ job[c].pub \in Pending /\ job[c].pub # <<>>
      /\ job'[c].pub = Tail(job[c].pub)
      /\ \A d \in Clients \ {c} : job'[d] = job[d]
  BY PublishIs
<1>2. Range(job[c].pub) = Range(Tail(job[c].pub)) \cup {Head(job[c].pub)}
  BY <1>1, PendingOps
<1> QED BY <1>1, <1>2 DEF ToPublish

(* A stale body keeps a reason, or something on its way to drop it. *)
LEMMA BodyExcusedNext ==
  ASSUME CacheInv, [Next]_vars
  PROVE  BodyExcused'
<1>1. /\ TypeOK /\ TypeOK' /\ Distinct(bodies) /\ GetCurrent /\ BodyExcused
  BY TypeNext DEF CacheInv
<1>2. bodies \in Seq(Entries) /\ bodies' \in Seq(Entries) BY <1>1 DEF TypeOK
<1>3. \A e \in Range(bodies) \cup Range(bodies') : e.path \in Paths
  <2>1. \A e \in Entries : e.path \in Paths BY DEF Entries
  <2> QED BY <1>2, <2>1, RangeType
<1>4. \A e \in Range(bodies) : e.path \in Cached BY DEF Cached, PathsIn
<1>5. ASSUME Quiet, UNCHANGED <<bodies, blame>> PROVE BodyExcused'
  <2>1. ASSUME NEW e \in Range(bodies'), e.ver # srv'[e.path] \/ e.path \notin live'
        PROVE  Excused(e.path)'
    <3>1. Excused(e.path) BY <1>1, <1>5, <2>1 DEF BodyExcused, Quiet
    <3> QED BY <1>5, <3>1, ExcuseKept DEF Quiet, ToReceive
  <2> QED BY <2>1 DEF BodyExcused
<1>6. ASSUME Quiet, NEW ps, InvalidateBodies(ps) PROVE BodyExcused'
  <2>1. ASSUME NEW e \in Range(bodies'), e.ver # srv'[e.path] \/ e.path \notin live'
        PROVE  Excused(e.path)'
    <3>1. e \in Range(bodies) /\ e.path \notin ps /\ blame'[e.path] = blame[e.path]
      BY <1>1, <1>3, <1>6, InvalidateIs
    <3>2. Excused(e.path) BY <1>1, <1>6, <2>1, <3>1 DEF BodyExcused, Quiet
    <3> QED BY <1>6, <3>1, <3>2, ExcuseKept DEF Quiet, ToReceive
  <2> QED BY <2>1 DEF BodyExcused
<1>7. ASSUME NEW c \in Clients, GetSet(c) PROVE BodyExcused'
  <2> DEFINE p == job[c].path
             v == job[c].ver
  <2>1. At(c, "set") /\ job[c].op = "get" BY <1>7 DEF GetSet
  <2>2. job[c].path \in Paths /\ job[c].ver \in Versions BY <1>1, <2>1, SetVersion
  <2>3. v = srv[p] => p \in live BY <1>1, <2>1, SetVersion
  <2>4. /\ \A e \in Range(bodies') : \/ e \in Range(bodies) /\ e.path # p
                                     \/ e.path = p /\ e.ver = v
        /\ \A x \in Cached' \ {p} : blame'[x] = blame[x]
        /\ p \in Cached' /\ v # srv[p] => blame'[p] # {}
    BY <1>1, <1>7, <2>2, GetSetIs
  <2>5. Quiet BY <1>1, <1>7, QuietStep
  <2> HIDE DEF p, v
  <2>6. ASSUME NEW e \in Range(bodies'), e.ver # srv'[e.path] \/ e.path \notin live'
        PROVE  Excused(e.path)'
    <3>1. e.path \in Cached' BY DEF Cached, PathsIn
    <3>2. CASE e \in Range(bodies) /\ e.path # p
      <4>1. Excused(e.path) BY <1>1, <2>5, <2>6, <3>2 DEF BodyExcused, Quiet
      <4>2. blame'[e.path] = blame[e.path] BY <2>4, <3>1, <3>2
      <4> QED BY <2>5, <4>1, <4>2, ExcuseKept DEF Quiet, ToReceive
    <3>3. CASE e.path = p /\ e.ver = v
      <4>1. v # srv[p] BY <2>3, <2>5, <2>6, <3>3 DEF Quiet
      <4>2. blame'[e.path] # {} BY <2>4, <3>1, <3>3, <4>1
      <4> QED BY <4>2 DEF Excused
    <3> QED BY <2>4, <3>2, <3>3
  <2> QED BY <2>6 DEF BodyExcused
<1>8. ASSUME NEW c \in Clients, NEW op \in Writes, NEW p \in Paths, NEW q \in Paths,
             NEW raw \in BOOLEAN, Mutate(c, op, p, q, raw)
      PROVE  BodyExcused'
  <2>1. UNCHANGED <<sub, stream, bodies, listing>> BY <1>8 DEF Mutate
  <2>2. /\ \A d \in Clients : ToPublish(d) \subseteq ToPublish(d)'
        /\ ToPublish(c)' = Range(EventsOf(op, p, q))
    BY <1>1, <1>8, MutatePublishes
  <2>3. \A x \in Paths \ {p, q} : srv'[x] = srv[x] /\ (x \in live' <=> x \in live)
    BY <1>1, <1>8, MutateIs
  <2>4. /\ \A x \in Paths : blame[x] # {} => blame'[x] # {}
        /\ \A x \in {p, q} : x \notin Range(EventsOf(op, p, q)) /\ x \in Cached => blame'[x] # {}
    <3>1. Unpublished(op, p, q) BY <1>8 DEF Mutate
    <3> QED BY <1>1, <2>1, <3>1, UnpublishedIs
  <2>5. ASSUME NEW e \in Range(bodies'), e.ver # srv'[e.path] \/ e.path \notin live'
        PROVE  Excused(e.path)'
    <3>1. e \in Range(bodies) /\ e.path \in Paths /\ e.path \in Cached
      BY <1>3, <1>4, <2>1
    <3>2. CASE e.path \notin {p, q}
      <4>1. Excused(e.path) BY <1>1, <2>3, <2>5, <3>1, <3>2 DEF BodyExcused
      <4> QED BY <2>1, <2>2, <2>4, <3>1, <4>1, ExcuseKept DEF ToReceive
    <3>3. CASE e.path \in ToPublish(c)' BY <3>3 DEF Excused
    <3>4. CASE e.path \in {p, q} /\ e.path \notin ToPublish(c)'
      <4>1. blame'[e.path] # {} BY <2>2, <2>4, <3>1, <3>4
      <4> QED BY <4>1 DEF Excused
    <3> QED BY <3>2, <3>3, <3>4
  <2> QED BY <2>5 DEF BodyExcused
<1>9. ASSUME NEW c \in Clients, Publish(c) PROVE BodyExcused'
  <2> DEFINE h == Head(job[c].pub)
  <2>1. UNCHANGED <<srv, live, stream, bodies>> BY <1>9 DEF Publish
  <2>2. /\ \A x \in Paths : blame[x] # {} => blame'[x] # {}
        /\ ToReceive \subseteq ToReceive'
        /\ h \in ToReceive' \/ (h \in Cached => blame'[h] # {})
    BY <1>1, <1>9, PublishIs
  <2>3. /\ \A d \in Clients \ {c} : ToPublish(d)' = ToPublish(d)
        /\ ToPublish(c) = ToPublish(c)' \cup {h}
    BY <1>1, <1>9, PublishTakes
  <2> HIDE DEF h
  <2>4. ASSUME NEW e \in Range(bodies'), e.ver # srv'[e.path] \/ e.path \notin live'
        PROVE  Excused(e.path)'
    <3>1. e \in Range(bodies) /\ e.path \in Paths /\ e.path \in Cached
      BY <1>3, <1>4, <2>1
    <3>2. Excused(e.path) BY <1>1, <2>1, <2>4, <3>1 DEF BodyExcused
    <3>3. CASE e.path = h
      <4>1. h \in ToReceive' \/ blame'[h] # {} BY <2>2, <3>1, <3>3
      <4> QED BY <3>3, <4>1 DEF Excused
    <3>4. CASE e.path # h
      <4>1. \A d \in Clients : e.path \in ToPublish(d) => e.path \in ToPublish(d)'
        BY <2>3, <3>4
      <4> QED BY <2>1, <2>2, <3>1, <3>2, <4>1, ExcuseKept
    <3> QED BY <3>3, <3>4
  <2> QED BY <2>4 DEF BodyExcused
<1>10. CASE Connect
  <2>1. stream = "down" /\ UNCHANGED <<srv, live, gateway, job>> BY <1>10 DEF Connect
  <2>2. ToReceive = {}
    <3>1. sub = Nil BY <1>1, <2>1 DEF TypeOK
    <3> QED BY <3>1, NilAssumption DEF ToReceive
  <2>3. \A d \in Clients : ToPublish(d)' = ToPublish(d) BY <2>1 DEF ToPublish
  <2>4. ASSUME NEW e \in Range(bodies'), e.ver # srv'[e.path] \/ e.path \notin live'
        PROVE  Excused(e.path)'
    <3>1. Excused(e.path) BY <1>1, <2>1, <2>4 DEF BodyExcused, gateway
    <3> QED BY <2>1, <2>2, <2>3, <3>1, ExcuseKept DEF gateway
  <2> QED BY <2>4 DEF BodyExcused
<1>11. CASE Receive
  <2> DEFINE h == Head(sub)
  <2>1. /\ stream = "up" /\ sub # <<>> /\ sub' = Tail(sub)
        /\ InvalidateBodies({h}) /\ UNCHANGED <<srv, live, stream, job>>
    BY <1>11 DEF Receive, OnEvent
  <2>2. sub \in Buffers BY <1>1, <2>1 DEF TypeOK
  <2>3. ToReceive = ToReceive' \cup {h} BY <2>1, <2>2, BufferOps DEF ToReceive
  <2>4. \A d \in Clients : ToPublish(d)' = ToPublish(d) BY <2>1 DEF ToPublish
  <2> HIDE DEF h
  <2>5. ASSUME NEW e \in Range(bodies'), e.ver # srv'[e.path] \/ e.path \notin live'
        PROVE  Excused(e.path)'
    <3>1. e \in Range(bodies) /\ e.path # h /\ blame'[e.path] = blame[e.path]
      BY <1>1, <1>3, <2>1, InvalidateIs
    <3>2. Excused(e.path) BY <1>1, <2>1, <2>5, <3>1 DEF BodyExcused
    <3> QED BY <2>1, <2>3, <2>4, <3>1, <3>2, ExcuseKept
  <2> QED BY <2>5 DEF BodyExcused
<1>12. CASE Cut
  <2>1. \A e : Excused(e)' BY <1>12 DEF Cut, Excused
  <2> QED BY <2>1 DEF BodyExcused
<1>13. CASE Disconnect
  <2>1. InvalidateBodies(Paths) BY <1>13 DEF Disconnect, OnDisconnect
  <2>2. Range(bodies') = {e \in Range(bodies) : e.path \notin Paths}
    BY <1>1, <2>1, InvalidateIs
  <2>3. Range(bodies') = {} BY <1>3, <2>2
  <2> QED BY <2>3 DEF BodyExcused
<1>14. ASSUME NEW c \in Clients, Read(c) PROVE BodyExcused'
  BY <1>1, <1>5, <1>7, <1>14, QuietStep DEF Read
<1>15. ASSUME NEW c \in Clients, Answer(c) PROVE BodyExcused'
  BY <1>1, <1>6, <1>15, QuietStep DEF Answer
<1>16. ASSUME NEW c \in Clients, AnswerLost(c) PROVE BodyExcused'
  BY <1>1, <1>5, <1>16, QuietStep
<1>17. CASE Expire
  <2>1. CASE ExpireListing BY <1>1, <1>5, <2>1, QuietStep
  <2>2. ASSUME NEW p \in Paths, ExpireBody(p) PROVE BodyExcused'
    BY <1>1, <1>6, <2>2, QuietStep DEF ExpireBody
  <2> QED BY <1>17, <2>1, <2>2 DEF Expire
<1>18. CASE UNCHANGED vars BY <1>1, <1>5, <1>18, QuietStep
<1>19. ASSUME NEW p \in Paths, Edit(p) PROVE BodyExcused'
  <2>1. /\ UNCHANGED <<sub, stream, bodies, job>>
        /\ \A x \in Paths \ {p} : srv'[x] = srv[x] /\ (x \in live' <=> x \in live)
        /\ \A x \in Paths : blame[x] # {} => blame'[x] # {}
        /\ p \in Cached => blame'[p] # {}
    BY <1>1, <1>19, EditIs
  <2>2. \A d \in Clients : ToPublish(d)' = ToPublish(d) BY <2>1 DEF ToPublish
  <2>3. ASSUME NEW e \in Range(bodies'), e.ver # srv'[e.path] \/ e.path \notin live'
        PROVE  Excused(e.path)'
    <3>1. e \in Range(bodies) /\ e.path \in Paths /\ e.path \in Cached
      BY <1>3, <1>4, <2>1
    <3>2. CASE e.path # p
      <4>1. Excused(e.path) BY <1>1, <2>1, <2>3, <3>1, <3>2 DEF BodyExcused
      <4> QED BY <2>1, <2>2, <3>1, <4>1, ExcuseKept DEF ToReceive
    <3>3. CASE e.path = p BY <2>1, <3>1, <3>3 DEF Excused
    <3> QED BY <3>2, <3>3
  <2> QED BY <2>3 DEF BodyExcused
<1> QED
  BY <1>8, <1>9, <1>10, <1>11, <1>12, <1>13, <1>14, <1>15, <1>16, <1>17, <1>18, <1>19
  DEF Next, Stream, Write

(* A stale listing keeps a reason, or something on its way to drop it. *)
LEMMA ListingExcusedNext ==
  ASSUME CacheInv, [Next]_vars
  PROVE  ListingExcused'
<1>1. TypeOK /\ TypeOK' /\ ListingExcused BY TypeNext DEF CacheInv
<1>2. ASSUME listing' = Nil PROVE ListingExcused' BY <1>2 DEF ListingExcused
<1>3. ASSUME ListExcuse, sblame # {} => sblame' # {},
             stream = "broken" => stream' = "broken", ToReceive # {} => ToReceive' # {},
             \A d \in Clients : ToPublish(d) # {} => ToPublish(d)' # {}
      PROVE  ListExcuse'
  BY <1>3 DEF ListExcuse
<1>4. ASSUME Quiet, UNCHANGED <<listing, sblame>> PROVE ListingExcused'
  <2>1. Snapshot' = Snapshot BY <1>4 DEF Quiet, Snapshot
  <2>2. ListExcuse => ListExcuse' BY <1>4, <1>3 DEF Quiet, ToReceive
  <2> QED BY <1>1, <1>4, <2>1, <2>2 DEF ListingExcused
<1>5. ASSUME NEW c \in Clients, QuerySet(c) PROVE ListingExcused'
  <2>1. /\ UNCHANGED <<server, stream>> /\ listing' = job[c].rows
        /\ sblame' = IF job[c].rows # Snapshot THEN {"race"} ELSE {}
    BY <1>5 DEF QuerySet
  <2>2. Snapshot' = Snapshot BY <2>1 DEF server, Snapshot
  <2> QED BY <2>1, <2>2 DEF ListingExcused, ListExcuse
<1>6. ASSUME NEW c \in Clients, NEW op \in Writes, NEW p \in Paths, NEW q \in Paths,
             NEW raw \in BOOLEAN, Mutate(c, op, p, q, raw)
      PROVE  ListingExcused'
  <2>1. CASE op \in Batch
    <3>1. Unpublished(op, p, q) /\ UNCHANGED <<bodies, listing>> BY <1>6 DEF Mutate
    <3>2. listing # Nil => sblame' # {} BY <1>1, <2>1, <3>1, UnpublishedIs
    <3> QED BY <3>1, <3>2 DEF ListingExcused, ListExcuse
  <2>2. CASE op \notin Batch
    <3>1. p \in ToPublish(c)' BY <1>1, <1>6, <2>2, MutatePublishes
    <3> QED BY <3>1 DEF ListingExcused, ListExcuse
  <2> QED BY <2>1, <2>2
<1>7. ASSUME NEW c \in Clients, Publish(c) PROVE ListingExcused'
  <2>1. UNCHANGED <<srv, live, stream, listing>> BY <1>7 DEF Publish
  <2>2. ToReceive' # {} \/ (listing # Nil => sblame' # {}) BY <1>1, <1>7, PublishIs
  <2> QED BY <2>1, <2>2 DEF ListingExcused, ListExcuse
<1>8. CASE Connect
  <2>1. stream = "down" /\ UNCHANGED <<srv, live, gateway, job>> BY <1>8 DEF Connect
  <2>2. ToReceive = {}
    <3>1. sub = Nil BY <1>1, <2>1 DEF TypeOK
    <3> QED BY <3>1, NilAssumption DEF ToReceive
  <2>3. \A d \in Clients : ToPublish(d)' = ToPublish(d) BY <2>1 DEF ToPublish
  <2>4. Snapshot' = Snapshot BY <2>1 DEF Snapshot
  <2>5. ListExcuse => ListExcuse' BY <1>3, <2>1, <2>2, <2>3 DEF gateway
  <2> QED BY <1>1, <2>1, <2>4, <2>5 DEF ListingExcused, gateway
<1>9. CASE Cut BY <1>9 DEF Cut, ListingExcused, ListExcuse
<1>10. CASE Receive BY <1>2, <1>10 DEF Receive, OnEvent, InvalidateListing
<1>11. CASE Disconnect BY <1>2, <1>11 DEF Disconnect, OnDisconnect, InvalidateListing
<1>12. ASSUME NEW c \in Clients, Read(c) PROVE ListingExcused'
  BY <1>1, <1>4, <1>5, <1>12, QuietStep DEF Read
<1>13. ASSUME NEW c \in Clients, Answer(c) PROVE ListingExcused'
  BY <1>2, <1>13 DEF Answer, InvalidateListing
<1>14. ASSUME NEW c \in Clients, AnswerLost(c) PROVE ListingExcused'
  BY <1>1, <1>4, <1>14, QuietStep
<1>15. CASE Expire
  <2>1. CASE ExpireListing BY <1>2, <2>1 DEF ExpireListing, InvalidateListing
  <2>2. ASSUME NEW p \in Paths, ExpireBody(p) PROVE ListingExcused'
    BY <1>1, <1>4, <2>2, QuietStep
  <2> QED BY <1>15, <2>1, <2>2 DEF Expire
<1>16. CASE UNCHANGED vars BY <1>1, <1>4, <1>16, QuietStep
<1>17. ASSUME NEW p \in Paths, Edit(p) PROVE ListingExcused'
  <2>1. UNCHANGED listing /\ (listing # Nil => sblame' # {}) BY <1>1, <1>17, EditIs
  <2> QED BY <2>1 DEF ListingExcused, ListExcuse
<1> QED
  BY <1>6, <1>7, <1>8, <1>9, <1>10, <1>11, <1>12, <1>13, <1>14, <1>15, <1>16, <1>17
  DEF Next, Stream, Write

-----------------------------------------------------------------------------
(* The invariant holds, and what it implies. *)

(* It holds at first: nothing is cached, and nobody is at work. *)
LEMMA CacheInit == Init => CacheInv
<1> SUFFICES ASSUME Init PROVE CacheInv OBVIOUS
<1>1. bodies = <<>> /\ \A c \in Clients : job[c] = Nil BY DEF Init
<1>2. <<>> \in Seq(Entries) /\ Range(<<>>) = {} /\ Distinct(<<>>)
  BY DEF Range, Distinct
<1>3. TypeOK
  <2>1. ServerType /\ WroteType
    BY CacheAssumption DEF Init, ServerType, WroteType, Versions
  <2>2. StreamType /\ ListType /\ JobType BY DEF Init, StreamType, ListType, JobType
  <2>3. BodiesType BY <1>1, <1>2 DEF BodiesType
  <2>4. BlameType BY DEF Init, BlameType
  <2> QED BY <2>1, <2>2, <2>3, <2>4, TypeParts
<1>4. Distinct(bodies) BY <1>1, <1>2
<1>5. Budget BY <1>1, BytesEmpty, CacheAssumption DEF Budget
<1>6. GetCurrent /\ WriteDone BY <1>1, NilAssumption DEF GetCurrent, WriteDone
<1>7. WroteKept
  <2>1. \A p \in Paths : wrote[p] = 0 /\ srv[p] = 1 BY DEF Init
  <2> QED BY <1>1, <1>2, <2>1 DEF WroteKept
<1>8. BodyExcused BY <1>1, <1>2 DEF BodyExcused
<1>9. ListingExcused BY DEF Init, ListingExcused
<1> QED BY <1>3, <1>4, <1>5, <1>6, <1>7, <1>8, <1>9 DEF CacheInv

(* Every step keeps it. *)
LEMMA CacheNext == CacheInv /\ [Next]_vars => CacheInv'
<1> SUFFICES ASSUME CacheInv, [Next]_vars PROVE CacheInv' OBVIOUS
<1>1. TypeOK' BY TypeNext
<1>2. Distinct(bodies)' /\ Budget' BY BodiesNext
<1>3. GetCurrent' /\ WriteDone' /\ WroteKept' BY GetCurrentNext, WriteDoneNext, WroteNext
<1>4. BodyExcused' /\ ListingExcused' BY BodyExcusedNext, ListingExcusedNext
<1> QED BY <1>1, <1>2, <1>3, <1>4 DEF CacheInv

(* So it holds in every reachable state. *)
LEMMA CacheInvariant == Spec => []CacheInv
<1> QED BY CacheInit, CacheNext, PTL DEF Spec

(* The entry of a cached path is one of the bodies, for that path. *)
LEMMA EntryOfIs ==
  ASSUME NEW p \in Cached
  PROVE  EntryOf(p) \in Range(bodies) /\ EntryOf(p).path = p
<1>1. \E e \in Range(bodies) : e.path = p BY DEF Cached, PathsIn
<1> QED BY <1>1 DEF EntryOf

(* The types of the caches, the stream and the jobs (bodyCache,            *)
(* summaryCache, EventBus), whatever the sizes of the notes.               *)
THEOREM CacheTypeCorrect == Spec => []TypeOK
<1>1. CacheInv => TypeOK BY DEF CacheInv
<1> QED BY <1>1, CacheInvariant, PTL

(* bodyCache.set never lets the cache hold more than maxBytes, nor a path   *)
(* twice.                                                                  *)
THEOREM CacheBounded == Spec => []BodyBudget
<1>1. CacheInv => BodyBudget BY DEF CacheInv, Budget, Distinct, BodyBudget
<1> QED BY <1>1, CacheInvariant, PTL

(* After a write through the RemoteVault returned, Get serves no older body *)
(* from the cache, but for a read that straddled the write.                *)
THEOREM GatewayReadsItsWrites == Spec => []ReadYourWrite
<1>1. ASSUME CacheInv PROVE ReadYourWrite
  <2> SUFFICES ASSUME NEW p \in Cached PROVE EntryOf(p).ver >= wrote[p]
    BY DEF ReadYourWrite
  <2> DEFINE e == EntryOf(p)
  <2>1. e \in Range(bodies) /\ e.path = p BY EntryOfIs
  <2> HIDE DEF e
  <2>2. wrote[e.path] <= e.ver BY <1>1, <2>1 DEF CacheInv, WroteKept
  <2>3. e.ver \in Nat /\ p \in Paths
    <3>1. e \in Entries BY <1>1, <2>1, RangeType DEF CacheInv, TypeOK
    <3> QED BY <2>1, <3>1, CacheAssumption DEF Entries, Versions
  <2>4. wrote[p] \in Nat BY <1>1, <2>3, CacheAssumption DEF CacheInv, TypeOK
  <2>5. e.ver >= wrote[p] BY <2>1, <2>2, <2>3, <2>4
  <2> QED BY <2>5 DEF e
<1> QED BY <1>1, CacheInvariant, PTL

(* With the stream up and nothing on its way, a cached body or listing that *)
(* differs from the server's has one of the listed reasons: the events of   *)
(* publishChange, onEvent and onDisconnect leave no other one stale.       *)
THEOREM StaleHasAReason == Spec => []StaleExplained
<1>1. ASSUME CacheInv PROVE StaleExplained
  <2> SUFFICES ASSUME AtRest
               PROVE  /\ \A p \in Cached :
                           EntryOf(p).ver # srv[p] \/ p \notin live => blame[p] # {}
                      /\ listing # Nil /\ listing # Snapshot => sblame # {}
    BY DEF StaleExplained
  <2>1. stream # "broken" BY DEF AtRest
  <2>2. ToReceive = {} BY PendingOps DEF AtRest, ToReceive
  <2>3. \A c \in Clients : ToPublish(c) = {} BY NilAssumption DEF AtRest, ToPublish
  <2>4. ASSUME NEW p \in Cached, EntryOf(p).ver # srv[p] \/ p \notin live
        PROVE  blame[p] # {}
    <3>1. EntryOf(p) \in Range(bodies) /\ EntryOf(p).path = p BY EntryOfIs
    <3>2. Excused(p) BY <1>1, <2>4, <3>1 DEF CacheInv, BodyExcused
    <3> QED BY <2>1, <2>2, <2>3, <3>2 DEF Excused
  <2>5. ASSUME listing # Nil, listing # Snapshot PROVE sblame # {}
    <3>1. ListExcuse BY <1>1, <2>5 DEF CacheInv, ListingExcused
    <3> QED BY <2>1, <2>2, <2>3, <3>1 DEF ListExcuse
  <2> QED BY <2>4, <2>5
<1> QED BY <1>1, CacheInvariant, PTL
=============================================================================
