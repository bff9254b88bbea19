--------------------------- MODULE GatewayProofs ---------------------------
(***************************************************************************)
(* Proofs about the request path of cc-gateway (Gateway), for any clients, *)
(* keys, sizes, freshness window and bounds.                               *)
(*                                                                         *)
(* The argument is about evidence.  A reply is evidence of the digest it   *)
(* names at the instant its read was requested: the node has answered      *)
(* since, and every earlier admission is covered.  The generation of the   *)
(* cache, the recorded probe outcome and the digest a request looks up     *)
(* under all carry the evidence of some reply, dated no later than it was. *)
(*                                                                         *)
(* The first part is about the accounts of the response cache              *)
(* (GatewayCache): what an eviction, a store and a hit do to the use order *)
(* and to the byte count.                                                  *)
(***************************************************************************)
EXTENDS Gateway, FiniteSetTheorems, SequenceTheorems, TLAPS

(* A nonempty set of natural numbers has a least element.                  *)
LEMMA LeastNat ==
    ASSUME NEW T \in SUBSET Nat, T # {}
    PROVE  \E x \in T : \A y \in T : x <= y
  <1> DEFINE R == OpToRel(<, Nat)
  <1>1. \A a, b \in Nat : a < b => <<a, b>> \in R
    BY DEF OpToRel
  <1>2. IsWellFoundedOn(R, Nat)
    BY NatLessThanWellFounded
  <1> HIDE DEF R
  <1>3. PICK x \in T : \A y \in T : ~(<<y, x>> \in R)
    BY <1>2, WFMin
  <1>4. ASSUME NEW y \in T PROVE x <= y
    <2>1. x \in Nat /\ y \in Nat
      OBVIOUS
    <2>2. y < x => <<y, x>> \in R
      BY <1>1, <2>1
    <2>3. ~(<<y, x>> \in R)
      BY <1>3
    <2> QED
      BY <2>1, <2>2, <2>3
  <1> QED
    BY <1>4

(* Every key has a size.                                                   *)
Sized(K) == \A k \in K : Size(k) \in Nat

(* Running totals of a sequence of keys, as BytesOf defines them.          *)
Totals(s, f) ==
    f = [n \in 0..Len(s) |-> IF n = 0 THEN 0 ELSE f[n - 1] + Size(s[n])]

(* Running totals exist, are unique and are natural numbers.               *)
LEMMA TotalsExist ==
    ASSUME NEW K, Sized(K), NEW s \in Seq(K)
    PROVE  \E f : Totals(s, f)
  <1> DEFINE Upto(m, f) ==
        /\ DOMAIN f = 0..m
        /\ f = [n \in 0..m |-> IF n = 0 THEN 0 ELSE f[n - 1] + Size(s[n])]
             Bad == {m \in 0..Len(s) : ~\E f : Upto(m, f)}
  <1>1. Len(s) \in Nat
    OBVIOUS
  <1>2. Bad = {}
    <2> SUFFICES ASSUME Bad # {} PROVE FALSE
      OBVIOUS
    <2>1. PICK m \in Bad : \A y \in Bad : m <= y
      <3>1. Bad \in SUBSET Nat
        BY <1>1
      <3> HIDE DEF Bad
      <3> QED
        BY <3>1, LeastNat
    <2>2. CASE m = 0
      <3>1. Upto(0, [n \in 0..0 |-> 0])
        OBVIOUS
      <3> QED
        BY <2>2, <3>1
    <2>3. CASE m # 0
      <3>1. m - 1 \in 0..Len(s) /\ m - 1 \notin Bad
        <4>1. m \in 0..Len(s)
          OBVIOUS
        <4> HIDE DEF Bad
        <4> QED
          BY <1>1, <2>1, <2>3, <4>1
      <3>2. PICK f : Upto(m - 1, f)
        BY <3>1
      <3> DEFINE g == [n \in 0..m |-> IF n = m THEN f[m - 1] + Size(s[m]) ELSE f[n]]
      <3>3. ASSUME NEW n \in 0..m
            PROVE  g[n] = IF n = 0 THEN 0 ELSE g[n - 1] + Size(s[n])
        <4>0. m \in Nat
          BY <1>1
        <4>1. CASE n = m
          BY <2>3, <4>0, <4>1
        <4>2. CASE n # m
          <5>1. n \in 0..(m - 1) /\ (n # 0 => n - 1 \in 0..m /\ n - 1 # m)
            BY <4>0, <4>2
          <5> QED
            BY <3>2, <4>2, <5>1
        <4> QED
          BY <4>1, <4>2
      <3>4. Upto(m, g)
        BY <3>3
      <3> QED
        BY <3>4
    <2> QED
      BY <2>2, <2>3
  <1>3. PICK f : Upto(Len(s), f)
    BY <1>1, <1>2
  <1> QED
    BY <1>3 DEF Totals

(* BytesOf is the last of the running totals.                              *)
LEMMA BytesOfTotals ==
    ASSUME NEW K, Sized(K), NEW s \in Seq(K)
    PROVE  \E f : /\ f \in [0..Len(s) -> Nat]
                  /\ f[0] = 0
                  /\ \A n \in 1..Len(s) : f[n] = f[n - 1] + Size(s[n])
                  /\ BytesOf(s) = f[Len(s)]
  <1> DEFINE f == CHOOSE g : Totals(s, g)
  <1>1. Totals(s, f)
    BY TotalsExist
  <1>2. BytesOf(s) = f[Len(s)]
    BY DEF BytesOf, Totals
  <1> HIDE DEF f
  <1>3. Len(s) \in Nat
    OBVIOUS
  <1>4. DOMAIN f = 0..Len(s) /\ f = [n \in 0..Len(s) |-> f[n]]
    BY <1>1 DEF Totals
  <1>5. f[0] = 0
    BY <1>1, <1>3 DEF Totals
  <1>6. ASSUME NEW n \in 1..Len(s) PROVE f[n] = f[n - 1] + Size(s[n])
    <2>1. \A i \in 0..Len(s) : f[i] = IF i = 0 THEN 0 ELSE f[i - 1] + Size(s[i])
      BY <1>1 DEF Totals
    <2>2. n \in 0..Len(s) /\ n # 0
      BY <1>3
    <2> QED
      BY <2>1, <2>2
  <1> DEFINE Bad == {n \in 0..Len(s) : f[n] \notin Nat}
  <1>7. Bad = {}
    <2> SUFFICES ASSUME Bad # {} PROVE FALSE
      OBVIOUS
    <2>0. Bad \in SUBSET Nat
      BY <1>3
    <2>1. PICK m \in Bad : \A y \in Bad : m <= y
      <3> HIDE DEF Bad
      <3> QED
        BY <2>0, LeastNat
    <2>2. m \in 1..Len(s)
      BY <1>3, <1>5
    <2>3. m - 1 \in 0..Len(s) /\ m - 1 \notin Bad
      <3> HIDE DEF Bad
      <3> QED
        BY <1>3, <2>1, <2>2
    <2>4. f[m - 1] \in Nat /\ Size(s[m]) \in Nat
      BY <2>2, <2>3 DEF Sized
    <2> QED
      BY <1>6, <2>2, <2>4
  <1>8. f \in [0..Len(s) -> Nat]
    BY <1>4, <1>7
  <1> QED
    BY <1>2, <1>5, <1>6, <1>8

(* The bytes of a sequence are those of its parts.                         *)
LEMMA BytesOfConcat ==
    ASSUME NEW K, Sized(K), NEW s \in Seq(K), NEW t \in Seq(K)
    PROVE  /\ BytesOf(s) \in Nat
           /\ BytesOf(s \o t) = BytesOf(s) + BytesOf(t)
  <1> DEFINE u == s \o t
  <1>1. /\ Len(s) \in Nat /\ Len(t) \in Nat /\ Len(u) = Len(s) + Len(t)
        /\ u \in Seq(K)
        /\ \A n \in 1..Len(s) : u[n] = s[n]
        /\ \A n \in 1..Len(t) : u[Len(s) + n] = t[n]
    OBVIOUS
  <1> HIDE DEF u
  <1>2. PICK f : /\ f \in [0..Len(s) -> Nat] /\ f[0] = 0
                 /\ \A n \in 1..Len(s) : f[n] = f[n - 1] + Size(s[n])
                 /\ BytesOf(s) = f[Len(s)]
    BY BytesOfTotals
  <1>3. PICK g : /\ g \in [0..Len(t) -> Nat] /\ g[0] = 0
                 /\ \A n \in 1..Len(t) : g[n] = g[n - 1] + Size(t[n])
                 /\ BytesOf(t) = g[Len(t)]
    BY BytesOfTotals
  <1>4. PICK h : /\ h \in [0..Len(u) -> Nat] /\ h[0] = 0
                 /\ \A n \in 1..Len(u) : h[n] = h[n - 1] + Size(u[n])
                 /\ BytesOf(u) = h[Len(u)]
    BY <1>1, BytesOfTotals
  <1>a. Len(s) \in 0..Len(s) /\ Len(t) \in 0..Len(t)
    BY <1>1
  <1>8. f[Len(s)] \in Nat
    BY <1>2, <1>a
  <1> DEFINE Bad == {n \in 0..Len(s) : h[n] # f[n]}
             Worse == {n \in 0..Len(t) : h[Len(s) + n] # f[Len(s)] + g[n]}
  <1>5. Bad = {}
    <2> SUFFICES ASSUME Bad # {} PROVE FALSE
      OBVIOUS
    <2>0. Bad \in SUBSET Nat
      BY <1>1
    <2>1. PICK m \in Bad : \A y \in Bad : m <= y
      <3> HIDE DEF Bad
      <3> QED
        BY <2>0, LeastNat
    <2>2. m \in 1..Len(s) /\ m \in 1..Len(u)
      BY <1>1, <1>2, <1>4
    <2>3. m - 1 \in 0..Len(s) /\ m - 1 \notin Bad
      <3> HIDE DEF Bad
      <3> QED
        BY <1>1, <2>1, <2>2
    <2>4. h[m - 1] = f[m - 1] /\ u[m] = s[m]
      BY <1>1, <2>2, <2>3
    <2>5. h[m] = h[m - 1] + Size(u[m]) /\ f[m] = f[m - 1] + Size(s[m])
      BY <1>2, <1>4, <2>2
    <2> QED
      BY <2>1, <2>4, <2>5
  <1>6. Worse = {}
    <2> SUFFICES ASSUME Worse # {} PROVE FALSE
      OBVIOUS
    <2>0. Worse \in SUBSET Nat
      BY <1>1
    <2>1. PICK m \in Worse : \A y \in Worse : m <= y
      <3> HIDE DEF Worse
      <3> QED
        BY <2>0, LeastNat
    <2>a. h[Len(s)] = f[Len(s)] /\ f[Len(s)] \in Nat
      BY <1>5, <1>8, <1>a
    <2>b. m # 0
      <3>1. SUFFICES ASSUME m = 0 PROVE FALSE
        OBVIOUS
      <3>2. Len(s) + m = Len(s)
        BY <1>1, <3>1
      <3> QED
        BY <1>3, <2>a, <3>1, <3>2
    <2>2. m \in 1..Len(t) /\ Len(s) + m \in 1..Len(u)
      BY <1>1, <2>b
    <2>3. m - 1 \in 0..Len(t) /\ m - 1 \notin Worse
      <3> HIDE DEF Worse
      <3> QED
        BY <1>1, <2>1, <2>2
    <2>4. h[Len(s) + (m - 1)] = f[Len(s)] + g[m - 1] /\ u[Len(s) + m] = t[m]
      BY <1>1, <2>2, <2>3
    <2>5. h[Len(s) + m] = h[(Len(s) + m) - 1] + Size(u[Len(s) + m])
      BY <1>4, <2>2
    <2>6. g[m] = g[m - 1] + Size(t[m]) /\ g[m - 1] \in Nat /\ Size(t[m]) \in Nat
      <3>1. t[m] \in K
        BY <2>2
      <3>2. g[m - 1] \in Nat
        BY <1>3, <2>3
      <3>3. g[m] = g[m - 1] + Size(t[m])
        BY <1>3, <2>2
      <3> QED
        BY <3>1, <3>2, <3>3 DEF Sized
    <2>7. (Len(s) + m) - 1 = Len(s) + (m - 1)
      BY <1>1, <2>2
    <2>8. h[Len(s) + m] = f[Len(s)] + g[m]
      BY <2>a, <2>4, <2>5, <2>6, <2>7
    <2> QED
      BY <2>1, <2>8
  <1>7. h[Len(s) + Len(t)] = f[Len(s)] + g[Len(t)]
    BY <1>6, <1>a
  <1> QED
    BY <1>1, <1>2, <1>3, <1>4, <1>7, <1>8 DEF u

(* One more key adds its size.                                             *)
LEMMA BytesOfAppend ==
    ASSUME NEW K, Sized(K), NEW s \in Seq(K), NEW k \in K
    PROVE  BytesOf(Append(s, k)) = BytesOf(s) + Size(k) /\ BytesOf(<<k>>) = Size(k)
  <1>1. <<k>> \in Seq(K) /\ Append(s, k) = s \o <<k>>
    OBVIOUS
  <1>2. BytesOf(<<k>>) = Size(k)
    <2> DEFINE o == <<k>>
    <2>0. o \in Seq(K) /\ Len(o) = 1 /\ o[1] = k
      OBVIOUS
    <2> HIDE DEF o
    <2>1. PICK f : /\ f \in [0..Len(o) -> Nat] /\ f[0] = 0
                   /\ \A n \in 1..Len(o) : f[n] = f[n - 1] + Size(o[n])
                   /\ BytesOf(o) = f[Len(o)]
      BY <2>0, BytesOfTotals
    <2>2. f[1] = f[1 - 1] + Size(o[1])
      BY <2>0, <2>1
    <2>3. Size(k) \in Nat /\ 1 - 1 = 0
      BY DEF Sized
    <2> QED
      BY <2>0, <2>1, <2>2, <2>3 DEF o
  <1> QED
    BY <1>1, <1>2, BytesOfConcat

-----------------------------------------------------------------------------
(* The keys in use order: each key once.                                   *)
Order(s, K) == s \in Seq(K) /\ IsInjective(s)

(* The set of keys in a use order, by index.                               *)
LEMMA OrderKeys ==
    ASSUME NEW K, NEW s \in Seq(K)
    PROVE  /\ ToSet(s) = {s[i] : i \in 1..Len(s)}
           /\ IsInjective(s) <=> \A i, j \in 1..Len(s) : s[i] = s[j] => i = j
           /\ Len(s) \in Nat
  BY DEF ToSet, IsInjective

(* The two parts of a use order cut after place n.                         *)
Parts(s, n, K) ==
    LET a == SubSeq(s, 1, n)
        b == SubSeq(s, n + 1, Len(s))
    IN  /\ Order(a, K) /\ Order(b, K)
        /\ Len(a) = n
        /\ ToSet(b) = ToSet(s) \ ToSet(a)
        /\ BytesOf(s) = BytesOf(a) + BytesOf(b)
        /\ BytesOf(a) \in Nat /\ BytesOf(b) \in Nat

(* Cutting a use order in two.                                             *)
LEMMA SplitOrder ==
    ASSUME NEW K, Sized(K), NEW s, Order(s, K), NEW n \in 0..Len(s)
    PROVE  Parts(s, n, K)
  <1> DEFINE a == SubSeq(s, 1, n)
             b == SubSeq(s, n + 1, Len(s))
  <1>1. s \in Seq(K) /\ Len(s) \in Nat /\ n \in Nat /\ n <= Len(s)
    BY DEF Order
  <1>2. a \in Seq(K) /\ Len(a) = n /\ \A i \in 1..n : a[i] = s[i]
    <2>1. \A i \in 1..n : s[i] \in K
      BY <1>1
    <2>2. a = [i \in 1..n |-> s[i]]
      BY <1>1
    <2> QED
      BY <1>1, <2>1, <2>2
  <1>3. /\ b \in Seq(K) /\ Len(b) = Len(s) - n
        /\ \A i \in 1..(Len(s) - n) : b[i] = s[n + i]
    <2>1. \A i \in 1..(Len(s) - n) : s[n + i] \in K
      BY <1>1
    <2>2. b = [i \in 1..(Len(s) - n) |-> s[n + i]]
      BY <1>1
    <2> QED
      BY <1>1, <2>1, <2>2
  <1> HIDE DEF a, b
  <1>a. a \in Seq(K) /\ b \in Seq(K)
    BY <1>2, <1>3
  <1>4. a \o b = s
    <2>0. /\ a \o b \in Seq(K) /\ Len(a \o b) = Len(a) + Len(b)
          /\ \A i \in 1..(Len(a) + Len(b)) :
               (a \o b)[i] = IF i <= Len(a) THEN a[i] ELSE b[i - Len(a)]
      BY <1>a, ConcatProperties
    <2>1. Len(a) + Len(b) = Len(s)
      BY <1>1, <1>2, <1>3
    <2>2. ASSUME NEW i \in 1..Len(s) PROVE (a \o b)[i] = s[i]
      <3>1. CASE i \in 1..n
        BY <1>1, <1>2, <2>0, <2>1, <3>1
      <3>2. CASE i \notin 1..n
        <4>1. i - n \in 1..(Len(s) - n) /\ n + (i - n) = i
          BY <1>1, <3>2
        <4>2. ~(i <= Len(a))
          BY <1>1, <1>2, <3>2
        <4>3. (a \o b)[i] = b[i - n]
          BY <1>2, <2>0, <2>1, <4>2
        <4> QED
          BY <1>3, <4>1, <4>3
      <3> QED
        BY <3>1, <3>2
    <2> QED
      BY <1>1, <2>0, <2>1, <2>2, SeqEqual
  <1>5. \A i, j \in 1..Len(s) : s[i] = s[j] => i = j
    BY <1>1, OrderKeys DEF Order
  <1>6. IsInjective(a)
    <2>1. ASSUME NEW i \in 1..Len(a), NEW j \in 1..Len(a), a[i] = a[j] PROVE i = j
      <3>1. i \in 1..Len(s) /\ j \in 1..Len(s) /\ i \in 1..n /\ j \in 1..n
        BY <1>1, <1>2
      <3> QED
        BY <1>2, <1>5, <2>1, <3>1
    <2> QED
      BY <1>a, <2>1, OrderKeys
  <1>7. IsInjective(b)
    <2>1. ASSUME NEW i \in 1..Len(b), NEW j \in 1..Len(b), b[i] = b[j] PROVE i = j
      <3>1. /\ i \in 1..(Len(s) - n) /\ j \in 1..(Len(s) - n)
            /\ n + i \in 1..Len(s) /\ n + j \in 1..Len(s)
        BY <1>1, <1>3
      <3>2. n + i = n + j
        BY <1>3, <1>5, <2>1, <3>1
      <3> QED
        BY <1>1, <3>1, <3>2
    <2> QED
      BY <1>a, <2>1, OrderKeys
  <1>8. ToSet(b) = ToSet(s) \ ToSet(a)
    <2>1. /\ ToSet(b) = {b[i] : i \in 1..Len(b)} /\ ToSet(a) = {a[i] : i \in 1..Len(a)}
          /\ ToSet(s) = {s[i] : i \in 1..Len(s)}
      <3>1. s \in Seq(K)
        BY <1>1
      <3> QED
        BY <1>a, <3>1, OrderKeys
    <2>2. ASSUME NEW x \in ToSet(b) PROVE x \in ToSet(s) \ ToSet(a)
      <3>1. PICK i \in 1..Len(b) : x = b[i]
        BY <2>1
      <3>2. n + i \in 1..Len(s) /\ x = s[n + i]
        BY <1>1, <1>3, <3>1
      <3>3. \A j \in 1..n : s[j] # x
        BY <1>1, <1>3, <1>5, <3>2
      <3> QED
        BY <1>2, <2>1, <3>2, <3>3
    <2>3. ASSUME NEW x \in ToSet(s) \ ToSet(a) PROVE x \in ToSet(b)
      <3>1. PICK i \in 1..Len(s) : x = s[i]
        BY <2>1
      <3>2. i \notin 1..n
        BY <1>2, <2>1, <3>1
      <3>3. i - n \in 1..(Len(s) - n) /\ n + (i - n) = i
        BY <1>1, <3>2
      <3> QED
        BY <1>3, <2>1, <3>1, <3>3
    <2> QED
      BY <2>2, <2>3
  <1>9. BytesOf(s) = BytesOf(a) + BytesOf(b) /\ BytesOf(a) \in Nat /\ BytesOf(b) \in Nat
    BY <1>2, <1>3, <1>4, BytesOfConcat
  <1> QED
    BY <1>2, <1>3, <1>6, <1>7, <1>8, <1>9 DEF a, b, Order, Parts

(* Two use orders, one after the other.                                    *)
Joined(a, b, K) ==
    /\ Order(a \o b, K)
    /\ ToSet(a \o b) = ToSet(a) \cup ToSet(b)
    /\ BytesOf(a \o b) = BytesOf(a) + BytesOf(b)

(* Joining use orders of different keys.                                   *)
LEMMA JoinOrder ==
    ASSUME NEW K, Sized(K), NEW a, NEW b, Order(a, K), Order(b, K),
           ToSet(a) \cap ToSet(b) = {}
    PROVE  Joined(a, b, K)
  <1> DEFINE s == a \o b
  <1>1. a \in Seq(K) /\ b \in Seq(K)
    BY DEF Order
  <1>2. /\ s \in Seq(K) /\ Len(s) = Len(a) + Len(b)
        /\ \A i \in 1..(Len(a) + Len(b)) : s[i] = IF i <= Len(a) THEN a[i] ELSE b[i - Len(a)]
    BY <1>1, ConcatProperties
  <1> HIDE DEF s
  <1>3. Len(a) \in Nat /\ Len(b) \in Nat
    BY <1>1
  <1>4. /\ ToSet(a) = {a[i] : i \in 1..Len(a)} /\ ToSet(b) = {b[i] : i \in 1..Len(b)}
        /\ \A i, j \in 1..Len(a) : a[i] = a[j] => i = j
        /\ \A i, j \in 1..Len(b) : b[i] = b[j] => i = j
    BY <1>1, OrderKeys DEF Order
  <1>5. ToSet(s) = {s[i] : i \in 1..Len(s)}
    <2>1. s \in Seq(K)
      BY <1>2
    <2> QED
      BY <2>1, OrderKeys
  <1>6. ASSUME NEW i \in 1..Len(s)
        PROVE  \/ i \in 1..Len(a) /\ s[i] = a[i] /\ s[i] \in ToSet(a)
               \/ i > Len(a) /\ i - Len(a) \in 1..Len(b) /\ s[i] = b[i - Len(a)]
                  /\ s[i] \in ToSet(b)
    <2>1. CASE i <= Len(a)
      <3>1. i \in 1..Len(a) /\ s[i] = a[i]
        BY <1>2, <1>3, <2>1
      <3> QED
        BY <1>4, <3>1
    <2>2. CASE ~(i <= Len(a))
      <3>1. i > Len(a) /\ i - Len(a) \in 1..Len(b) /\ s[i] = b[i - Len(a)]
        BY <1>2, <1>3, <2>2
      <3> QED
        BY <1>4, <3>1
    <2> QED
      BY <2>1, <2>2
  <1>7. ASSUME NEW i \in 1..Len(s), NEW j \in 1..Len(s), s[i] = s[j] PROVE i = j
    <2>1. CASE s[i] \in ToSet(a)
      <3>1. i \in 1..Len(a) /\ j \in 1..Len(a) /\ a[i] = a[j]
        BY <1>6, <1>7, <2>1
      <3> QED
        BY <1>4, <3>1
    <2>2. CASE s[i] \notin ToSet(a)
      <3>1. /\ i - Len(a) \in 1..Len(b) /\ j - Len(a) \in 1..Len(b)
            /\ b[i - Len(a)] = b[j - Len(a)]
        BY <1>6, <1>7, <2>2
      <3>2. i - Len(a) = j - Len(a)
        BY <1>4, <3>1
      <3> QED
        BY <1>2, <1>3, <3>2
    <2> QED
      BY <2>1, <2>2
  <1>8. ToSet(s) = ToSet(a) \cup ToSet(b)
    <2>1. ToSet(s) \subseteq ToSet(a) \cup ToSet(b)
      BY <1>5, <1>6
    <2>2. ASSUME NEW x \in ToSet(a) PROVE x \in ToSet(s)
      <3>1. PICK i \in 1..Len(a) : x = a[i]
        BY <1>4
      <3>2. i \in 1..Len(s) /\ s[i] = a[i]
        BY <1>2, <1>3
      <3> QED
        BY <1>5, <3>1, <3>2
    <2>3. ASSUME NEW x \in ToSet(b) PROVE x \in ToSet(s)
      <3>1. PICK i \in 1..Len(b) : x = b[i]
        BY <1>4
      <3>2. /\ Len(a) + i \in 1..(Len(a) + Len(b)) /\ ~(Len(a) + i <= Len(a))
            /\ (Len(a) + i) - Len(a) = i
        BY <1>3
      <3>3. Len(a) + i \in 1..Len(s) /\ s[Len(a) + i] = b[i]
        BY <1>2, <3>2
      <3> QED
        BY <1>5, <3>1, <3>3
    <2> QED
      BY <2>1, <2>2, <2>3
  <1>9. IsInjective(s)
    BY <1>2, <1>7, OrderKeys
  <1>10. BytesOf(a \o b) = BytesOf(a) + BytesOf(b)
    BY <1>1, BytesOfConcat
  <1> QED
    BY <1>2, <1>8, <1>9, <1>10 DEF s, Order, Joined

(* A key used for the first time goes last.                                *)
LEMMA AppendOrder ==
    ASSUME NEW K, Sized(K), NEW s, Order(s, K), NEW k \in K,
           k \notin ToSet(s)
    PROVE  /\ Order(Append(s, k), K)
           /\ ToSet(Append(s, k)) = ToSet(s) \cup {k}
           /\ BytesOf(Append(s, k)) = BytesOf(s) + Size(k)
           /\ RemoveFirst(s, k) = s
  <1> DEFINE o == <<k>>
  <1>1. s \in Seq(K) /\ o \in Seq(K) /\ Len(o) = 1 /\ o[1] = k /\ Append(s, k) = s \o o
    BY DEF Order
  <1> HIDE DEF o
  <1>2. ToSet(o) = {k} /\ IsInjective(o)
    BY <1>1, OrderKeys
  <1>3. BytesOf(Append(s, k)) = BytesOf(s) + Size(k)
    BY <1>1, BytesOfAppend
  <1>4. RemoveFirst(s, k) = s
    <2>1. ~\E i \in 1..Len(s) : s[i] = k
      BY <1>1, OrderKeys
    <2> QED
      BY <2>1 DEF RemoveFirst
  <1>5. Joined(s, o, K)
    <2>1. Order(o, K) /\ ToSet(s) \cap ToSet(o) = {}
      BY <1>1, <1>2 DEF Order
    <2> QED
      BY <2>1, JoinOrder
  <1> QED
    BY <1>1, <1>2, <1>3, <1>4, <1>5 DEF Joined

(* A key used again leaves its old place.                                  *)
LEMMA RemoveOrder ==
    ASSUME NEW K, Sized(K), NEW s, Order(s, K), NEW k \in ToSet(s)
    PROVE  /\ Order(RemoveFirst(s, k), K)
           /\ ToSet(RemoveFirst(s, k)) = ToSet(s) \ {k}
           /\ BytesOf(s) = BytesOf(RemoveFirst(s, k)) + Size(k)
           /\ k \in K
  <1>1. /\ s \in Seq(K) /\ Len(s) \in Nat /\ ToSet(s) = {s[i] : i \in 1..Len(s)}
        /\ \A i, j \in 1..Len(s) : s[i] = s[j] => i = j
    BY OrderKeys DEF Order
  <1>2. PICK i \in 1..Len(s) : s[i] = k
    BY <1>1
  <1>3. k \in K
    BY <1>1, <1>2
  <1> DEFINE a == SubSeq(s, 1, i - 1)
             w == SubSeq(s, 1, i)
             b == SubSeq(s, i + 1, Len(s))
  <1>4. RemoveFirst(s, k) = a \o b
    <2> DEFINE I == {j \in 1..Len(s) : s[j] = k}
    <2>1. I = {i}
      BY <1>1, <1>2
    <2>2. Min(I) = i
      BY <1>1, <2>1 DEF Min
    <2> QED
      BY <1>2, <2>1, <2>2 DEF RemoveFirst, SelectInSeq, RemoveAt
  <1>5. i - 1 \in 0..Len(s) /\ i \in 0..Len(s)
    BY <1>1
  <1>6. Order(a, K) /\ ToSet(a) \subseteq ToSet(s) /\ Len(a) = i - 1
    <2>0. Parts(s, i - 1, K)
      BY <1>5, SplitOrder
    <2>1. Order(a, K) /\ Len(a) = i - 1
      BY <2>0 DEF Parts
    <2>2. \A j \in 1..(i - 1) : a[j] = s[j] /\ j \in 1..Len(s)
      BY <1>1
    <2>3. ToSet(a) = {a[j] : j \in 1..(i - 1)}
      <3> HIDE DEF a
      <3> QED
        BY <2>1, OrderKeys DEF Order
    <2> QED
      BY <1>1, <2>1, <2>2, <2>3
  <1>7. /\ Order(w, K) /\ Order(b, K) /\ Len(w) = i /\ ToSet(b) = ToSet(s) \ ToSet(w)
        /\ BytesOf(s) = BytesOf(w) + BytesOf(b) /\ BytesOf(b) \in Nat
    <2>1. Parts(s, i, K)
      BY <1>5, SplitOrder
    <2> QED
      BY <2>1 DEF Parts
  <1>8. w = Append(a, k)
    <2>1. w = [j \in 1..i |-> s[j]] /\ a = [j \in 1..(i - 1) |-> s[j]]
      BY <1>1
    <2>2. a \in Seq(K) /\ Len(a) = i - 1
      BY <1>6 DEF Order
    <2>3. /\ Append(a, k) \in Seq(K) /\ Len(Append(a, k)) = i
          /\ \A j \in 1..(i - 1) : Append(a, k)[j] = a[j]
          /\ Append(a, k)[i] = k
      <3> HIDE DEF a
      <3>1. Len(a) + 1 = i
        BY <1>1, <2>2
      <3> QED
        BY <1>3, <2>2, <3>1, AppendProperties
    <2>4. \A j \in 1..i : w[j] = Append(a, k)[j]
      <3>1. \A j \in 1..(i - 1) : a[j] = s[j]
        BY <2>1
      <3>2. \A j \in 1..i : w[j] = s[j]
        BY <2>1
      <3> HIDE DEF a, w
      <3> QED
        BY <1>1, <1>2, <2>3, <3>1, <3>2
    <2>5. w \in Seq(K) /\ Len(w) = i
      BY <1>7 DEF Order
    <2> HIDE DEF a, w
    <2> QED
      BY <2>3, <2>4, <2>5, SeqEqual
  <1> HIDE DEF a, b, w
  <1>9. k \notin ToSet(a)
    <2> SUFFICES ASSUME k \in ToSet(a) PROVE FALSE
      OBVIOUS
    <2>1. PICK j \in 1..(i - 1) : a[j] = k
      BY <1>6, OrderKeys DEF Order
    <2>2. j \in 1..i /\ i \in 1..i /\ j # i
      BY <1>1
    <2>3. a \in Seq(K)
      BY <1>6 DEF Order
    <2>4. w[j] = k /\ w[i] = k
      BY <1>1, <1>3, <1>6, <1>8, <2>1, <2>3
    <2>5. \A x, y \in 1..i : w[x] = w[y] => x = y
      BY <1>7, OrderKeys DEF Order
    <2> QED
      BY <2>2, <2>4, <2>5
  <1>10. ToSet(w) = ToSet(a) \cup {k} /\ BytesOf(w) = BytesOf(a) + Size(k)
    BY <1>3, <1>6, <1>8, <1>9, AppendOrder
  <1>11. ToSet(a) \cap ToSet(b) = {}
    BY <1>7, <1>10
  <1>12. /\ Order(a \o b, K) /\ ToSet(a \o b) = ToSet(a) \cup ToSet(b)
         /\ BytesOf(a \o b) = BytesOf(a) + BytesOf(b)
    <2>1. Order(a, K) /\ Order(b, K)
      BY <1>6, <1>7
    <2> QED
      BY <1>11, <2>1, JoinOrder DEF Joined
  <1>13. ToSet(a \o b) = ToSet(s) \ {k}
    BY <1>6, <1>7, <1>9, <1>10, <1>12
  <1>14. BytesOf(a) \in Nat /\ Size(k) \in Nat
    <2>1. a \in Seq(K)
      BY <1>6 DEF Order
    <2> QED
      BY <1>3, <2>1, BytesOfConcat DEF Sized
  <1>15. BytesOf(s) = BytesOf(a \o b) + Size(k)
    BY <1>7, <1>10, <1>12, <1>14
  <1> QED
    BY <1>3, <1>4, <1>12, <1>13, <1>15

(* A use order is as long as it has keys.                                  *)
LEMMA OrderCounts ==
    ASSUME NEW K, NEW s, Order(s, K)
    PROVE  IsFiniteSet(ToSet(s)) /\ Cardinality(ToSet(s)) = Len(s)
  <1>1. /\ s \in Seq(K) /\ Len(s) \in Nat /\ ToSet(s) = {s[i] : i \in 1..Len(s)}
        /\ \A i, j \in 1..Len(s) : s[i] = s[j] => i = j
    BY OrderKeys DEF Order
  <1> DEFINE T == ToSet(s)
             f == [i \in 1..Len(s) |-> s[i]]
  <1>2. f \in [1..Len(s) -> T] /\ IsInjective(f) /\ \A t \in T : \E i \in 1..Len(s) : f[i] = t
    BY <1>1 DEF IsInjective
  <1>3. f \in Bijection(1..Len(s), T)
    <2> HIDE DEF f, T
    <2> QED
      BY <1>2 DEF Bijection, Injection, Surjection
  <1>4. IsFiniteSet(1..Len(s)) /\ Cardinality(1..Len(s)) = Len(s)
    <2>1. Len(s) \in Nat
      BY <1>1
    <2> HIDE DEF T, f
    <2>2. \A n \in Nat : 1 \in Int /\ n \in Int /\ (IF 1 > n THEN 0 ELSE n - 1 + 1) = n
      OBVIOUS
    <2>3. \A n \in Nat : IsFiniteSet(1..n) /\ Cardinality(1..n) = n
      BY <2>2, FS_Interval
    <2> QED
      BY <2>1, <2>3
  <1> QED
    <2> HIDE DEF T, f
    <2>1. ExistsBijection(1..Len(s), T)
      BY <1>3 DEF ExistsBijection
    <2>2. IsFiniteSet(T) /\ Cardinality(T) = Len(s)
      BY <1>4, <2>1, FS_Bijection
    <2> QED
      BY <2>2 DEF T

-----------------------------------------------------------------------------
(* The accounts of a cache: the use order lists the entries, each once, and *)
(* the byte count is theirs and within the bound.                          *)
CacheOK(c, K) ==
    /\ c = [gen |-> c.gen, entries |-> c.entries, order |-> c.order, bytes |-> c.bytes]
    /\ Order(c.order, K) /\ ToSet(c.order) = DOMAIN c.entries
    /\ c.bytes = BytesOf(c.order) /\ c.bytes <= MaxBytes

(* An empty sequence of keys has no bytes.                                 *)
LEMMA EmptyOrder ==
    ASSUME NEW K, Sized(K)
    PROVE  Order(<<>>, K) /\ ToSet(<<>>) = {} /\ BytesOf(<<>>) = 0
  <1> DEFINE o == <<>>
  <1>1. o \in Seq(K) /\ Len(o) = 0
    OBVIOUS
  <1> HIDE DEF o
  <1>2. ToSet(o) = {} /\ IsInjective(o)
    <2>1. 1..Len(o) = {}
      BY <1>1
    <2>2. o \in Seq(K)
      BY <1>1
    <2>3. ToSet(o) = {o[i] : i \in 1..Len(o)}
      BY <2>2, OrderKeys
    <2>4. IsInjective(o) <=> \A i, j \in 1..Len(o) : o[i] = o[j] => i = j
      BY <2>2, OrderKeys
    <2> QED
      BY <2>1, <2>3, <2>4
  <1>3. PICK f : f \in [0..Len(o) -> Nat] /\ f[0] = 0 /\ BytesOf(o) = f[Len(o)]
    BY <1>1, BytesOfTotals
  <1> QED
    BY <1>1, <1>2, <1>3 DEF o, Order

(* Cache::new and Inner::clear.                                            *)
LEMMA RenewKeeps ==
    ASSUME NEW K, Sized(K), MaxBytes \in Nat, NEW c, NEW d, NEW t
    PROVE  /\ CacheOK(Empty, K) /\ DOMAIN Empty.entries = {} /\ Empty.gen = None
           /\ CacheOK(Renew(c, d, t), K) /\ DOMAIN Renew(c, d, t).entries = {}
           /\ Renew(c, d, t).gen = [d |-> d, at |-> t]
  <1> DEFINE e == <<>>
  <1>1. Order(e, K) /\ ToSet(e) = {} /\ BytesOf(e) = 0 /\ DOMAIN e = {}
    BY EmptyOrder
  <1>2. /\ Empty = [gen |-> None, entries |-> e, order |-> e, bytes |-> 0]
        /\ Renew(c, d, t) = [gen |-> [d |-> d, at |-> t], entries |-> e, order |-> e, bytes |-> 0]
    BY DEF Empty, Renew
  <1> HIDE DEF e
  <1> QED
    BY <1>1, <1>2 DEF CacheOK

(* Cache::observe keeps the entries of the digest it names, or none.       *)
LEMMA ObserveKeeps ==
    ASSUME NEW K, Sized(K), MaxBytes \in Nat, NEW c, CacheOK(c, K), NEW d, NEW t
    PROVE  LET o == Observe(c, d, t) IN
           /\ CacheOK(o, K)
           /\ \/ o = c /\ c.gen # None /\ c.gen.at > t
              \/ Current(c, d) /\ o.entries = c.entries /\ o.gen = [c.gen EXCEPT !.at = t]
              \/ DOMAIN o.entries = {} /\ o.gen = [d |-> d, at |-> t]
  <1>1. CASE c.gen # None /\ c.gen.at > t
    BY <1>1 DEF Observe
  <1>2. CASE ~(c.gen # None /\ c.gen.at > t) /\ Current(c, d)
    <2> DEFINE o == [c EXCEPT !.gen.at = t]
    <2>1. Observe(c, d, t) = o
      BY <1>2 DEF Observe
    <2>2. /\ o.gen = [c.gen EXCEPT !.at = t] /\ o.entries = c.entries
          /\ o.order = c.order /\ o.bytes = c.bytes
          /\ o = [gen |-> o.gen, entries |-> o.entries, order |-> o.order, bytes |-> o.bytes]
      BY DEF CacheOK
    <2> HIDE DEF o
    <2> QED
      BY <1>2, <2>1, <2>2 DEF CacheOK
  <1>3. CASE ~(c.gen # None /\ c.gen.at > t) /\ ~Current(c, d)
    <2>1. Observe(c, d, t) = Renew(c, d, t)
      BY <1>3 DEF Observe
    <2> QED
      BY <2>1, RenewKeeps
  <1> QED
    BY <1>1, <1>2, <1>3

(* Inner::touch on a hit.                                                  *)
LEMMA TouchKeeps ==
    ASSUME NEW K, Sized(K), NEW c, CacheOK(c, K), NEW k \in DOMAIN c.entries
    PROVE  LET o == Touch(c, k) IN
           CacheOK(o, K) /\ o.gen = c.gen /\ o.entries = c.entries
  <1> DEFINE o == Touch(c, k)
             r == RemoveFirst(c.order, k)
  <1>1. k \in ToSet(c.order) /\ Order(c.order, K)
    BY DEF CacheOK
  <1>2. /\ Order(r, K) /\ ToSet(r) = ToSet(c.order) \ {k} /\ k \in K
        /\ BytesOf(c.order) = BytesOf(r) + Size(k)
    BY <1>1, RemoveOrder
  <1>3. /\ Order(Append(r, k), K) /\ ToSet(Append(r, k)) = ToSet(r) \cup {k}
        /\ BytesOf(Append(r, k)) = BytesOf(r) + Size(k)
    BY <1>2, AppendOrder
  <1>4. /\ o.gen = c.gen /\ o.entries = c.entries /\ o.order = Append(r, k) /\ o.bytes = c.bytes
        /\ o = [gen |-> o.gen, entries |-> o.entries, order |-> o.order, bytes |-> o.bytes]
    BY DEF Touch, CacheOK
  <1> HIDE DEF o, r
  <1>5. ToSet(o.order) = DOMAIN o.entries
    BY <1>1, <1>2, <1>3, <1>4 DEF CacheOK
  <1>6. o.bytes = BytesOf(o.order) /\ o.bytes <= MaxBytes
    BY <1>2, <1>3, <1>4 DEF CacheOK
  <1>7. CacheOK(o, K)
    BY <1>3, <1>4, <1>5, <1>6 DEF CacheOK
  <1> QED
    BY <1>4, <1>7 DEF o

(* The keys that make room are a beginning of the use order, and without   *)
(* them the new key fits.                                                  *)
LEMMA EvictedFits ==
    ASSUME NEW K, Sized(K), MaxBytes \in Nat, NEW c, CacheOK(c, K),
           NEW size \in Nat, size <= MaxBytes
    PROVE  \E n \in 0..Len(c.order) :
              /\ Evicted(c, size) = SubSeq(c.order, 1, n)
              /\ (c.bytes - BytesOf(SubSeq(c.order, 1, n))) + size <= MaxBytes
  <1> DEFINE L == Len(c.order)
             Fits(n) == (c.bytes - BytesOf(SubSeq(c.order, 1, n))) + size <= MaxBytes
             enough == {n \in 0..L : Fits(n)}
             all == enough \cup {L}
  <1>1. L \in Nat /\ c.order \in Seq(K) /\ Order(c.order, K) /\ c.bytes = BytesOf(c.order)
    BY OrderKeys DEF CacheOK, Order
  <1>2. Fits(L)
    <2>1. SubSeq(c.order, 1, L) = c.order
      BY <1>1
    <2>2. c.bytes \in Nat
      BY <1>1, BytesOfConcat
    <2>3. BytesOf(SubSeq(c.order, 1, L)) = c.bytes
      BY <1>1, <2>1
    <2> HIDE DEF L
    <2> QED
      BY <2>2, <2>3
  <1>3. L \in 0..L
    BY <1>1
  <1>4. all \in SUBSET Nat /\ all # {} /\ \A n \in all : n \in 0..L /\ Fits(n)
    BY <1>1, <1>2, <1>3
  <1>5. Evicted(c, size) = SubSeq(c.order, 1, Min(all))
    BY DEF Evicted
  <1> HIDE DEF all
  <1>6. PICK x \in all : \A y \in all : x <= y
    BY <1>4, LeastNat
  <1>7. Min(all) \in all
    BY <1>6 DEF Min
  <1> QED
    BY <1>4, <1>5, <1>7

(* What a store leaves: the old entries, or fewer, and the new one when the *)
(* digest is the current one.                                              *)
Stored(o, c, d, k, a, K) ==
    /\ CacheOK(o, K) /\ o.gen = c.gen
    /\ \A x \in DOMAIN o.entries :
         \/ x \in DOMAIN c.entries /\ o.entries[x] = c.entries[x]
         \/ x = k /\ o.entries[x] = a /\ Current(c, d)

(* Cache::put under the digest of the generation: evictions make room, the  *)
(* accounts stay right, and the entry is the answer.                       *)
LEMMA PutKeeps ==
    ASSUME NEW K, Sized(K), MaxBytes \in Nat, NEW c, CacheOK(c, K), NEW d,
           NEW k \in K, NEW a
    PROVE  Stored(Put(c, d, k, a), c, d, k, a, K)
  <1> DEFINE stays == ~Current(c, d) \/ k \in DOMAIN c.entries \/ Size(k) > MaxBytes
  <1>1. CASE stays
    BY <1>1 DEF Put, Stored
  <1>2. CASE ~stays
    <2> DEFINE old == Evicted(c, Size(k))
               kept == DOMAIN c.entries \ ToSet(old)
               rest == SubSeq(c.order, Len(old) + 1, Len(c.order))
               ent == [x \in kept \cup {k} |-> IF x = k THEN a ELSE c.entries[x]]
               b == (c.bytes - BytesOf(old)) + Size(k)
               m == [gen |-> c.gen, entries |-> ent, order |-> rest, bytes |-> b]
               o == Touch(m, k)
    <2>1. Put(c, d, k, a) = o
      <3>1. [c EXCEPT !.entries = ent, !.order = rest, !.bytes = b] = m
        <4> HIDE DEF ent, rest, b
        <4>1. PICK g, e, r, y : c = [gen |-> g, entries |-> e, order |-> r, bytes |-> y]
          BY DEF CacheOK
        <4>2. c.gen = g
          BY <4>1
        <4> DEFINE c1 == [c EXCEPT !.entries = ent]
                   c2 == [c1 EXCEPT !.order = rest]
                   c3 == [c2 EXCEPT !.bytes = b]
        <4>3. [c EXCEPT !.entries = ent, !.order = rest, !.bytes = b] = c3
          OBVIOUS
        <4>4. c1 = [gen |-> g, entries |-> ent, order |-> r, bytes |-> y]
          BY <4>1
        <4> HIDE DEF c1
        <4>5. c2 = [gen |-> g, entries |-> ent, order |-> rest, bytes |-> y]
          BY <4>4
        <4> HIDE DEF c2
        <4>6. c3 = [gen |-> g, entries |-> ent, order |-> rest, bytes |-> b]
          BY <4>5
        <4> HIDE DEF c3
        <4> QED
          BY <4>2, <4>3, <4>6
      <3>2. Put(c, d, k, a) = Touch([c EXCEPT !.entries = ent, !.order = rest, !.bytes = b], k)
        BY <1>2, Zenon DEF Put
      <3> QED
        BY <3>1, <3>2
    <2>2. Size(k) \in Nat /\ Size(k) <= MaxBytes
      BY <1>2 DEF Sized
    <2>3. PICK n \in 0..Len(c.order) :
             old = SubSeq(c.order, 1, n) /\ (c.bytes - BytesOf(old)) + Size(k) <= MaxBytes
      BY <2>2, EvictedFits
    <2>4. Order(c.order, K) /\ ToSet(c.order) = DOMAIN c.entries /\ c.bytes = BytesOf(c.order)
      BY DEF CacheOK
    <2>5. Parts(c.order, n, K)
      <3> HIDE DEF old
      <3> QED
        BY <2>4, SplitOrder
    <2> HIDE DEF old
    <2>6. /\ Order(rest, K) /\ ToSet(rest) = ToSet(c.order) \ ToSet(old)
          /\ c.bytes = BytesOf(old) + BytesOf(rest)
          /\ BytesOf(old) \in Nat /\ BytesOf(rest) \in Nat
      BY <2>3, <2>4, <2>5 DEF Parts
    <2> HIDE DEF rest
    <2>7. k \notin ToSet(rest)
      BY <1>2, <2>4, <2>6
    <2>8. /\ Order(Append(rest, k), K) /\ ToSet(Append(rest, k)) = ToSet(rest) \cup {k}
          /\ BytesOf(Append(rest, k)) = BytesOf(rest) + Size(k)
          /\ RemoveFirst(rest, k) = rest
      BY <2>6, <2>7, AppendOrder
    <2>9. b = BytesOf(Append(rest, k)) /\ b <= MaxBytes
      BY <2>2, <2>3, <2>6, <2>8
    <2>10. o = [gen |-> c.gen, entries |-> ent, order |-> Append(rest, k), bytes |-> b]
      <3>1. RemoveFirst(rest, k) = rest
        BY <2>8
      <3> HIDE DEF ent, b
      <3>2. m.order = rest
        OBVIOUS
      <3>3. o = [m EXCEPT !.order = Append(rest, k)]
        BY <3>1, <3>2 DEF Touch
      <3> QED
        BY <3>3
    <2>11. DOMAIN ent = ToSet(Append(rest, k))
      BY <2>4, <2>6, <2>8
    <2>12. \A x \in DOMAIN ent : \/ x \in DOMAIN c.entries /\ ent[x] = c.entries[x]
                                 \/ x = k /\ ent[x] = a /\ Current(c, d)
      BY <1>2
    <2> HIDE DEF ent, b
    <2>13. /\ o.gen = c.gen /\ o.entries = ent /\ o.order = Append(rest, k) /\ o.bytes = b
           /\ o = [gen |-> o.gen, entries |-> o.entries, order |-> o.order, bytes |-> o.bytes]
      BY <2>10
    <2> HIDE DEF o
    <2>14. CacheOK(o, K)
      BY <2>8, <2>9, <2>11, <2>13 DEF CacheOK
    <2> QED
      BY <2>1, <2>12, <2>13, <2>14 DEF Stored
  <1> QED
    BY <1>1, <1>2

-----------------------------------------------------------------------------
(* The request path                                                        *)

(* The node has answered a read at t or later, and d covers what was       *)
(* admitted before t.                                                      *)
Evidence(d, t) ==
    /\ t <= answered
    /\ \A n \in DOMAIN admits : admits[n] < t => n <= d

(* The reads whose answers name a digest.                                  *)
Naming == Cacheable \cup {ProbeKey}

(* The reply to a read of k requested at t.                                *)
ReplyOK(r, t, k) ==
    \/ r \in Failures
    \/ /\ r \in Answers
       /\ k \in Naming <=> r.digest # None
       /\ t <= answered
       /\ k \in Naming => Evidence(r.digest, t)

ClockOK ==
    /\ answered <= now
    /\ \A n \in DOMAIN admits : admits[n] <= now
    /\ last # None => last.started <= now

SharedOK ==
    /\ CacheOK(cache, Cacheable)
    /\ cache.gen # None => Evidence(cache.gen.d, cache.gen.at)
    /\ EntriesShareOneDigest
    /\ last # None /\ last.outcome \notin Failures => Evidence(last.outcome, last.started)

ClientOK(c) ==
    LET r == req[c]
        g == call[c]
    IN  /\ r.arrived <= now
        /\ r.pc # "idle" => r.key \in Keys
        /\ r.pc = "fetch" <=> g.st \in {"sent", "replied"}
        /\ r.pc = "store" <=> g.st = "held"
        /\ g.st # "spawned"
        /\ g.st # "idle" => r.arrived <= g.requested /\ g.requested <= now
        /\ g.st \in {"replied", "held"} => ReplyOK(g.reply, g.requested, r.key)
        /\ g.st = "held" => g.reply \notin Failures /\ r.key \in Cacheable
        /\ r.pc = "lookup" => r.digest \in Nat /\ Evidence(r.digest, r.arrived - Freshness)
        /\ Answered(c) => /\ r.arrived - Freshness <= answered
                          /\ r.key \in Cacheable =>
                               Evidence(r.out.digest, r.arrived - Freshness)

TaskOK(p) ==
    LET g == call[p]
    IN  /\ g.st # "idle" => g.started <= now
        /\ g.st \in {"sent", "replied", "held"} => g.started <= g.requested /\ g.requested <= now
        /\ g.st \in {"replied", "held"} => ReplyOK(g.reply, g.requested, ProbeKey)

AnswersOK ==
    /\ TypeOK /\ ClockOK /\ SharedOK
    /\ \A c \in Clients : ClientOK(c)
    /\ \A p \in Tasks : TaskOK(p)

Running == {p \in Tasks : call[p].st # "idle"}
Failed == {c \in Clients : req[c].pc = "done" /\ req[c].out = BadGateway}

(* Each failed receiver of a dead probe lets in one more probe.            *)
ProbesOK == Cardinality(Running) + (IF inflight = None THEN 1 ELSE 0) <= 1 + Cardinality(Failed)

WaitsOK(c) ==
    LET r == req[c]
    IN  /\ r.pc # "orphan"
        /\ r.waits <= 2
        /\ r.pc = "idle" => r.waits = 0
        /\ r.pc = "wait" => /\ r.on = inflight /\ inflight \in Running
                            /\ r.waits = 2 => r.arrived <= call[inflight].started
        /\ r.pc = "loop" =>
             /\ r.waits = 1 /\ inflight \in Tasks => r.arrived <= call[inflight].started
             /\ r.waits = 2 => last # None /\ r.arrived <= last.started

(* While no probe task has died, the slot names the one that runs, and a   *)
(* request that has waited twice has an outcome of its own.                *)
SlotOK ==
    /\ inflight # Dead /\ (inflight \in Tasks => inflight \in Running)
    /\ \A p \in Running : inflight = p /\ (last # None => last.started <= call[p].started)
    /\ \A c \in Clients : WaitsOK(c)

IInv == AnswersOK /\ ProbesOK /\ deaths \in Nat /\ (deaths = 0 => SlotOK)

-----------------------------------------------------------------------------
CallType == [st : {"idle", "spawned", "sent", "replied", "held"},
             started : 0..MaxTime, requested : 0..MaxTime,
             reply : Answers \cup Failures \cup {None}]

ReqType == [pc : {"idle", "loop", "wait", "orphan", "lookup", "fetch", "store", "done"},
            key : Keys \cup {None}, arrived : 0..MaxTime,
            digest : Nat \cup {None}, waits : Nat,
            on : Tasks \cup {None, Dead},
            out : Answers \cup Failures \cup {Gone, None}]

NodeTypes == now \in 0..MaxTime /\ admits \in Seq(0..MaxTime) /\ body \in BOOLEAN
             /\ answered \in -1..MaxTime

CacheTypes ==
    /\ DOMAIN cache.entries \subseteq Cacheable
    /\ \A k \in DOMAIN cache.entries : cache.entries[k] \in Answers
    /\ cache.gen \in [d : Nat, at : 0..MaxTime] \cup {None}

ProbeTypes ==
    /\ last \in [started : 0..MaxTime, outcome : Nat \cup Failures] \cup {None}
    /\ inflight \in Tasks \cup {None, Dead}

(* The type invariant by parts, and what the assumptions say of the        *)
(* constants.                                                              *)
LEMMA TypeParts ==
    /\ TypeOK <=> /\ NodeTypes /\ CacheTypes /\ ProbeTypes
                  /\ call \in [Owners -> CallType] /\ req \in [Clients -> ReqType]
    /\ TypeOK' <=> /\ NodeTypes' /\ CacheTypes' /\ ProbeTypes'
                   /\ call' \in [Owners -> CallType] /\ req' \in [Clients -> ReqType]
  BY DEF TypeOK, NodeTypes, CacheTypes, ProbeTypes, CallType, ReqType

LEMMA Constants ==
    /\ Sized(Cacheable) /\ MaxBytes \in Nat /\ Freshness \in Nat /\ MaxTime \in Nat
    /\ MaxAdmits \in Nat /\ MaxDeaths \in Nat
  BY GatewayAssumption DEF Sized

(* What every step leaves in force: time and the node only go forward.     *)
Onward ==
    /\ now <= now' /\ answered <= answered' /\ answered' <= now'
    /\ admits' = admits \/ admits' = Append(admits, now)

(* A step of the system goes forward.                                      *)
LEMMA StepOnward ==
    ASSUME AnswersOK, [Next]_vars
    PROVE  Onward /\ NodeTypes'
  <1>1. NodeTypes /\ answered <= now /\ MaxTime \in Nat
    BY TypeParts, Constants DEF AnswersOK, ClockOK
  <1>2. CASE Tick
    BY <1>1, <1>2 DEF Tick, node, Onward, NodeTypes
  <1>3. CASE Admit
    BY <1>1, <1>3 DEF Admit, node, Onward, NodeTypes
  <1>4. CASE RetainBody
    BY <1>1, <1>4 DEF RetainBody, node, Onward, NodeTypes
  <1>5. CASE \E o \in Owners : NodeAnswers(o)
    BY <1>1, <1>5 DEF NodeAnswers, node, Onward, NodeTypes
  <1>6. CASE UNCHANGED <<now, node, answered>>
    BY <1>1, <1>6 DEF node, Onward, NodeTypes
  <1>7. ASSUME NEW c \in Clients, Request(c) PROVE UNCHANGED <<now, node, answered>>
    BY <1>7 DEF Request, TakeLast, Join, Recheck, Spawn, Orphan, Lookup, Miss, Fetched, StoreAnswer
  <1>8. ASSUME NEW p \in Tasks, ProbeTask(p) \/ ProbeDies(p)
        PROVE  UNCHANGED <<now, node, answered>>
    BY <1>8 DEF ProbeTask, ProbeSend, ProbeObserve, ProbeRecord, ProbeDies
  <1>9. ASSUME NEW c \in Clients, NEW k \in Keys,
               Arrive(c, k) \/ ArriveDirect(c, k) \/ Disconnect(c)
        PROVE  UNCHANGED <<now, node, answered>>
    BY <1>9 DEF Arrive, ArriveDirect, Disconnect
  <1>9a. ASSUME NEW c \in Clients, Disconnect(c) PROVE UNCHANGED <<now, node, answered>>
    BY <1>9a DEF Disconnect
  <1>10. ASSUME NEW o \in Owners, NodeFails(o) PROVE UNCHANGED <<now, node, answered>>
    BY <1>10 DEF NodeFails
  <1>11. Terminated \/ UNCHANGED vars => UNCHANGED <<now, node, answered>>
    BY DEF Terminated, vars
  <1>12. \A k \in DirectKeys : k \in Keys
    BY DEF Keys
  <1> QED
    BY <1>2, <1>3, <1>4, <1>5, <1>6, <1>7, <1>8, <1>9, <1>9a, <1>10, <1>11, <1>12 DEF Next

(* Evidence stays evidence, and holds for earlier instants.                *)
LEMMA EvidenceKept ==
    ASSUME NodeTypes, Onward, answered <= now, NodeTypes'
    PROVE  \A d, t : t \in Int /\ Evidence(d, t) => Evidence(d, t)'
  <1> SUFFICES ASSUME NEW d, NEW t \in Int, Evidence(d, t) PROVE Evidence(d, t)'
    BY DEF Evidence
  <1>0. answered \in Int /\ now \in Int
    BY Constants DEF NodeTypes
  <1>b. answered' \in Int
    BY Constants DEF NodeTypes
  <1>1. t <= answered' /\ t <= now
    BY <1>0, <1>b DEF Onward, Evidence
  <1>2. ASSUME NEW n \in DOMAIN admits', admits'[n] < t PROVE n <= d
    <2>1. CASE admits' = admits
      BY <1>2, <2>1 DEF Evidence
    <2>2. CASE admits' = Append(admits, now)
      <3>1. n \in 1..Len(admits) \/ admits'[n] = now
        BY <2>2 DEF NodeTypes
      <3>2. n \in 1..Len(admits)
        BY <1>1, <1>2, <3>1 DEF NodeTypes
      <3>3. n \in DOMAIN admits /\ admits'[n] = admits[n]
        BY <2>2, <3>2 DEF NodeTypes
      <3> QED
        BY <1>2, <3>3 DEF Evidence
    <2> QED
      BY <2>1, <2>2 DEF Onward
  <1> QED
    BY <1>1, <1>2 DEF Evidence

LEMMA EvidenceWeakens ==
    ASSUME NodeTypes, NEW d, NEW t \in Int, NEW u \in Int, u <= t, Evidence(d, t)
    PROVE  Evidence(d, u)
  <1>1. \A n \in DOMAIN admits : admits[n] \in Int
    <2>1. admits \in Seq(0..MaxTime) /\ MaxTime \in Nat
      BY Constants DEF NodeTypes
    <2>2. \A i \in 0..MaxTime : i \in Int
      BY <2>1
    <2>3. \A n \in DOMAIN admits : admits[n] \in 0..MaxTime
      BY <2>1
    <2> QED
      BY <2>2, <2>3
  <1>2. answered \in Int
    BY Constants DEF NodeTypes
  <1> QED
    BY <1>1, <1>2 DEF Evidence

(* A reply stays a reply.                                                  *)
LEMMA ReplyKept ==
    ASSUME NodeTypes, Onward, answered <= now, NodeTypes', NEW r, NEW t \in Int, NEW k,
           ReplyOK(r, t, k)
    PROVE  ReplyOK(r, t, k)'
  <1>1. t <= answered => t <= answered'
    BY DEF Onward, NodeTypes
  <1>2. Evidence(r.digest, t) => Evidence(r.digest, t)'
    BY EvidenceKept
  <1> QED
    BY <1>1, <1>2 DEF ReplyOK

(* A request that a step does not touch keeps what it had.                 *)
LEMMA ClientKept ==
    ASSUME TypeOK, Onward, ClockOK, NodeTypes', NEW c \in Clients, ClientOK(c),
           req'[c] = req[c], call'[c] = call[c]
    PROVE  ClientOK(c)'
  <1>1. NodeTypes /\ req[c] \in ReqType /\ call[c] \in CallType /\ answered <= now
        /\ Freshness \in Nat
    BY TypeParts, Constants DEF Owners, ClockOK
  <1>2. /\ req[c].arrived \in Nat /\ call[c].requested \in Nat
        /\ req[c].arrived - Freshness \in Int
    BY <1>1, Constants DEF ReqType, CallType
  <1>3. now \in Int /\ now' \in Int /\ answered \in Int /\ answered' \in Int
        /\ now <= now' /\ answered <= answered'
    BY <1>1, Constants DEF NodeTypes, Onward
  <1>4. \A d, t : t \in Int /\ Evidence(d, t) => Evidence(d, t)'
    BY <1>1, EvidenceKept
  <1>5. ReplyOK(call[c].reply, call[c].requested, req[c].key)
           => ReplyOK(call[c].reply, call[c].requested, req[c].key)'
    BY <1>1, <1>2, ReplyKept
  <1> QED
    BY <1>2, <1>3, <1>4, <1>5 DEF ClientOK, Answered

LEMMA TaskKept ==
    ASSUME TypeOK, Onward, ClockOK, NodeTypes', NEW p \in Tasks, TaskOK(p), call'[p] = call[p]
    PROVE  TaskOK(p)'
  <1>1. NodeTypes /\ call[p] \in CallType /\ answered <= now
    BY TypeParts DEF Owners, ClockOK
  <1>2. call[p].requested \in Nat /\ call[p].started \in Nat
    BY <1>1, Constants DEF CallType
  <1>3. now \in Int /\ now' \in Int /\ now <= now'
    BY <1>1, Constants DEF NodeTypes, Onward
  <1>4. ReplyOK(call[p].reply, call[p].requested, ProbeKey)
           => ReplyOK(call[p].reply, call[p].requested, ProbeKey)'
    BY <1>1, <1>2, ReplyKept
  <1> QED
    BY <1>2, <1>3, <1>4 DEF TaskOK

-----------------------------------------------------------------------------
(* What holds of the cache.                                                *)
CacheParts ==
    /\ CacheTypes /\ CacheOK(cache, Cacheable) /\ EntriesShareOneDigest
    /\ cache.gen # None => Evidence(cache.gen.d, cache.gen.at)

(* The keys of the use order are cacheable.                                *)
LEMMA EntriesCacheable ==
    ASSUME NEW c, NEW K, CacheOK(c, K)
    PROVE  DOMAIN c.entries \subseteq K
  <1>1. c.order \in Seq(K) /\ DOMAIN c.entries = ToSet(c.order)
    BY DEF CacheOK, Order
  <1>2. ToSet(c.order) = {c.order[i] : i \in 1..Len(c.order)}
    BY <1>1, OrderKeys
  <1> QED
    BY <1>1, <1>2

(* A generation is not the absent one.                                     *)
LEMMA GenPresent ==
    ASSUME NEW g \in [d : Nat, at : 0..MaxTime] PROVE g # None
  <1>1. g \in [d : Nat, at : Nat]
    BY Constants
  <1> QED
    BY <1>1, GatewayAssumption

(* The premises of a step that the lemmas below share.                     *)
Stepping == AnswersOK /\ Onward /\ NodeTypes'

(* A step that does not touch the cache.                                   *)
LEMMA CacheKept ==
    ASSUME Stepping, cache' = cache PROVE CacheParts'
  <1>1. CacheParts /\ NodeTypes /\ answered <= now
    BY TypeParts DEF Stepping, AnswersOK, ClockOK, SharedOK, CacheParts
  <1>2. cache.gen # None => cache.gen.at \in Int
    BY <1>1, Constants DEF CacheParts, CacheTypes
  <1>3. \A d, t : t \in Int /\ Evidence(d, t) => Evidence(d, t)'
    BY <1>1, EvidenceKept DEF Stepping
  <1>4. (cache.gen # None => Evidence(cache.gen.d, cache.gen.at))'
    BY <1>1, <1>2, <1>3 DEF CacheParts
  <1>5. (CacheTypes /\ CacheOK(cache, Cacheable) /\ EntriesShareOneDigest)'
    BY <1>1 DEF CacheParts, CacheTypes, CacheOK, EntriesShareOneDigest
  <1> QED
    BY <1>4, <1>5 DEF CacheParts

(* The reply of a call that is back.                                       *)
LEMMA ReplyBack ==
    ASSUME AnswersOK, NEW o \in Owners, call[o].st \in {"replied", "held"},
           call[o].reply \notin Failures
    PROVE  /\ call[o].reply \in Answers /\ call[o].requested \in 0..MaxTime
           /\ call[o].reply.digest # None =>
                 call[o].reply.digest \in Nat /\ Evidence(call[o].reply.digest, call[o].requested)
           /\ o \in Tasks => call[o].reply.digest # None
           /\ o \in Clients /\ req[o].key \in Cacheable => call[o].reply.digest # None
           /\ o \in Clients /\ call[o].reply.digest # None => req[o].key \in Cacheable
           /\ call[o].requested <= answered
  <1>1. call[o] \in CallType
    BY TypeParts DEF AnswersOK
  <1>2. call[o].requested \in 0..MaxTime
    BY <1>1 DEF CallType
  <1>3. CASE o \in Tasks
    <2>1. ReplyOK(call[o].reply, call[o].requested, ProbeKey)
      BY <1>3 DEF AnswersOK, TaskOK
    <2>2. o \notin Clients
      BY <1>3, GatewayAssumption
    <2> QED
      BY <1>2, <1>3, <2>1, <2>2 DEF ReplyOK, Naming, Answers
  <1>4. CASE o \in Clients
    <2>0. o \notin Tasks
      BY <1>4, GatewayAssumption
    <2>1. ReplyOK(call[o].reply, call[o].requested, req[o].key)
      BY <1>4 DEF AnswersOK, ClientOK
    <2>2. req[o].pc \in {"fetch", "store"} => req[o].key \in Keys
      BY <1>4 DEF AnswersOK, ClientOK
    <2>3. req[o].pc \in {"fetch", "store"}
      <3>1. ClientOK(o)
        BY <1>4 DEF AnswersOK
      <3> QED
        BY <3>1 DEF ClientOK
    <2>4. req[o].key # ProbeKey
      BY <2>2, <2>3, GatewayAssumption
    <2> QED
      BY <1>2, <2>0, <2>1, <2>4 DEF ReplyOK, Naming, Answers
  <1> QED
    BY <1>3, <1>4 DEF Owners

(* The digest of an answer is observed.                                    *)
LEMMA CacheObserved ==
    ASSUME Stepping, NEW o \in Owners, call[o].st = "replied", cache' = Observed(o)
    PROVE  CacheParts'
  <1> DEFINE r == call[o].reply
             t == call[o].requested
  <1>1. CASE r \in Failures \/ r.digest = None
    BY <1>1, CacheKept DEF Observed
  <1>2. CASE ~(r \in Failures \/ r.digest = None)
    <2>1. cache' = Observe(cache, r.digest, t)
      BY <1>2 DEF Observed
    <2>2. r.digest \in Nat /\ t \in 0..MaxTime /\ Evidence(r.digest, t)
      BY <1>2, ReplyBack DEF Stepping
    <2>3. PICK d, u : d = r.digest /\ u = t
      OBVIOUS
    <2>4. /\ d \in Nat /\ u \in 0..MaxTime /\ u \in Int /\ Evidence(d, u)
          /\ cache' = Observe(cache, d, u)
      BY <2>1, <2>2, <2>3
    <2>5. NodeTypes /\ answered <= now /\ CacheOK(cache, Cacheable) /\ CacheTypes
          /\ EntriesShareOneDigest
      BY TypeParts DEF Stepping, AnswersOK, ClockOK, SharedOK
    <2>6. Evidence(d, u)'
      BY <2>4, <2>5, EvidenceKept DEF Stepping
    <2>7. /\ CacheOK(cache', Cacheable)
          /\ \/ cache' = cache /\ cache.gen # None /\ cache.gen.at > u
             \/ Current(cache, d) /\ cache'.entries = cache.entries
                /\ cache'.gen = [cache.gen EXCEPT !.at = u]
             \/ DOMAIN cache'.entries = {} /\ cache'.gen = [d |-> d, at |-> u]
      BY <2>4, <2>5, Constants, ObserveKeeps
    <2>8. CASE cache' = cache
      BY <2>8, CacheKept
    <2>9. CASE /\ Current(cache, d) /\ cache'.entries = cache.entries
               /\ cache'.gen = [cache.gen EXCEPT !.at = u]
      <3>1. /\ cache'.gen \in [d : Nat, at : 0..MaxTime]
            /\ cache'.gen.d = d /\ cache'.gen.at = u /\ cache.gen.d = d
        <4>1. cache.gen \in [d : Nat, at : 0..MaxTime] /\ cache.gen.d = d
          BY <2>5, <2>9 DEF Current, CacheTypes
        <4> QED
          BY <2>4, <2>9, <4>1
      <3>2. cache'.gen # None
        BY <3>1, GenPresent
      <3>3. CacheTypes'
        BY <2>5, <2>9, <3>1 DEF CacheTypes
      <3>4. EntriesShareOneDigest'
        BY <2>5, <2>9, <3>1, <3>2 DEF EntriesShareOneDigest
      <3>5. Evidence(cache.gen.d, cache.gen.at)'
        BY <2>6, <3>1
      <3>6. CacheOK(cache, Cacheable)'
        BY <2>7 DEF CacheOK
      <3> QED
        BY <3>3, <3>4, <3>5, <3>6 DEF CacheParts
    <2>10. CASE DOMAIN cache'.entries = {} /\ cache'.gen = [d |-> d, at |-> u]
      <3>1. /\ cache'.gen \in [d : Nat, at : 0..MaxTime]
            /\ cache'.gen.d = d /\ cache'.gen.at = u
        BY <2>4, <2>10
      <3>2. CacheTypes' /\ EntriesShareOneDigest'
        BY <2>10, <3>1 DEF CacheTypes, EntriesShareOneDigest
      <3>3. Evidence(cache.gen.d, cache.gen.at)'
        BY <2>6, <3>1
      <3>4. CacheOK(cache, Cacheable)'
        BY <2>7 DEF CacheOK
      <3> QED
        BY <3>2, <3>3, <3>4 DEF CacheParts
    <2> QED
      BY <2>7, <2>8, <2>9, <2>10
  <1> QED
    BY <1>1, <1>2

(* A hit renews the use of its key.                                        *)
LEMMA CacheTouched ==
    ASSUME Stepping, NEW k \in DOMAIN cache.entries, cache' = Touch(cache, k)
    PROVE  CacheParts'
  <1>1. CacheParts /\ NodeTypes /\ answered <= now
    BY TypeParts DEF Stepping, AnswersOK, ClockOK, SharedOK, CacheParts
  <1>2. CacheOK(cache', Cacheable) /\ cache'.gen = cache.gen /\ cache'.entries = cache.entries
    BY <1>1, Constants, TouchKeeps DEF CacheParts
  <1>3. cache.gen # None => cache.gen.at \in Int
    BY <1>1, Constants DEF CacheParts, CacheTypes
  <1>4. \A d, t : t \in Int /\ Evidence(d, t) => Evidence(d, t)'
    BY <1>1, EvidenceKept DEF Stepping
  <1>5. (cache.gen # None => Evidence(cache.gen.d, cache.gen.at))'
    BY <1>1, <1>2, <1>3, <1>4 DEF CacheParts
  <1>6. CacheTypes' /\ EntriesShareOneDigest'
    BY <1>1, <1>2 DEF CacheParts, CacheTypes, EntriesShareOneDigest
  <1>7. CacheOK(cache, Cacheable)'
    BY <1>2 DEF CacheOK
  <1> QED
    BY <1>5, <1>6, <1>7 DEF CacheParts

(* An answer is stored under its own digest.                               *)
LEMMA CacheStored ==
    ASSUME Stepping, NEW k \in Cacheable, NEW a \in Answers, a.digest # None,
           cache' = Put(cache, a.digest, k, a)
    PROVE  CacheParts'
  <1>1. CacheParts /\ NodeTypes /\ answered <= now
    BY TypeParts DEF Stepping, AnswersOK, ClockOK, SharedOK, CacheParts
  <1>2. /\ CacheOK(cache', Cacheable) /\ cache'.gen = cache.gen
        /\ \A x \in DOMAIN cache'.entries :
              \/ x \in DOMAIN cache.entries /\ cache'.entries[x] = cache.entries[x]
              \/ x = k /\ cache'.entries[x] = a /\ Current(cache, a.digest)
    <2>1. Stored(cache', cache, a.digest, k, a, Cacheable)
      BY <1>1, Constants, PutKeeps DEF CacheParts
    <2> QED
      BY <2>1 DEF Stored
  <1>3. cache.gen # None => cache.gen.at \in Int
    BY <1>1, Constants DEF CacheParts, CacheTypes
  <1>4. \A d, t : t \in Int /\ Evidence(d, t) => Evidence(d, t)'
    BY <1>1, EvidenceKept DEF Stepping
  <1>5. (cache.gen # None => Evidence(cache.gen.d, cache.gen.at))'
    BY <1>1, <1>2, <1>3, <1>4 DEF CacheParts
  <1>6. DOMAIN cache'.entries \subseteq Cacheable
    BY <1>2, EntriesCacheable
  <1>7. CacheTypes'
    BY <1>1, <1>2, <1>6 DEF CacheParts, CacheTypes
  <1>8. EntriesShareOneDigest'
    BY <1>1, <1>2 DEF CacheParts, Current, EntriesShareOneDigest
  <1>9. CacheOK(cache, Cacheable)'
    BY <1>2 DEF CacheOK
  <1> QED
    BY <1>5, <1>7, <1>8, <1>9 DEF CacheParts

-----------------------------------------------------------------------------
(* What holds of the recorded probe outcome.                               *)
LastOK ==
    last # None => /\ last.started <= now
                   /\ last.outcome \notin Failures => Evidence(last.outcome, last.started)

LEMMA LastKept ==
    ASSUME Stepping, last' = last PROVE LastOK'
  <1>1. NodeTypes /\ answered <= now /\ ProbeTypes /\ LastOK
    BY TypeParts DEF Stepping, AnswersOK, ClockOK, SharedOK, LastOK
  <1>2. last # None => last.started \in Int
    BY <1>1, Constants DEF ProbeTypes
  <1>3. \A d, t : t \in Int /\ Evidence(d, t) => Evidence(d, t)'
    BY <1>1, EvidenceKept DEF Stepping
  <1>4. now \in Int /\ now' \in Int /\ now <= now'
    BY <1>1, Constants DEF Stepping, Onward, NodeTypes
  <1> QED
    BY <1>1, <1>2, <1>3, <1>4 DEF LastOK

(* The parts that a step has to show.                                      *)
LEMMA Assemble ==
    ASSUME Stepping, CacheParts', LastOK', ProbeTypes',
           call' \in [Owners -> CallType], req' \in [Clients -> ReqType],
           \A c \in Clients : (req'[c] = req[c] /\ call'[c] = call[c]) \/ ClientOK(c)',
           \A p \in Tasks : call'[p] = call[p] \/ TaskOK(p)'
    PROVE  AnswersOK'
  <1>1. NodeTypes /\ TypeOK /\ ClockOK
    BY TypeParts DEF Stepping, AnswersOK
  <1>2. TypeOK'
    BY TypeParts DEF Stepping, CacheParts
  <1>3. ClockOK'
    <2>1. ASSUME NEW n \in DOMAIN admits' PROVE admits'[n] <= now'
      <3>1. CASE admits' = admits
        <4>1. admits[n] \in Int /\ admits[n] <= now
          <5>1. admits \in Seq(0..MaxTime) /\ MaxTime \in Nat
            BY <1>1, Constants DEF NodeTypes
          <5>2. admits[n] \in 0..MaxTime
            BY <3>1, <5>1
          <5> QED
            BY <1>1, <3>1, <5>1, <5>2 DEF ClockOK
        <4> QED
          BY <1>1, <3>1, <4>1, Constants DEF Stepping, Onward, NodeTypes
      <3>2. CASE admits' = Append(admits, now)
        <4>0. admits \in Seq(0..MaxTime) /\ MaxTime \in Nat /\ now \in 0..MaxTime
          BY <1>1, Constants DEF NodeTypes
        <4>1. (n \in 1..Len(admits) /\ admits'[n] = admits[n]) \/ admits'[n] = now
          BY <3>2, <4>0
        <4>2. n \in 1..Len(admits) => admits[n] \in 0..MaxTime /\ admits[n] <= now
          BY <1>1, <4>0 DEF ClockOK
        <4>3. admits'[n] \in 0..MaxTime /\ admits'[n] <= now
          BY <4>0, <4>1, <4>2
        <4> QED
          BY <4>0, <4>3, Constants DEF Stepping, Onward, NodeTypes
      <3> QED
        BY <3>1, <3>2 DEF Stepping, Onward
    <2> QED
      BY <2>1 DEF ClockOK, Stepping, Onward, LastOK
  <1>4. SharedOK'
    BY DEF SharedOK, CacheParts, LastOK
  <1>5. ASSUME NEW c \in Clients PROVE ClientOK(c)'
    <2>1. ClientOK(c)
      BY DEF Stepping, AnswersOK
    <2> QED
      BY <1>1, <2>1, ClientKept DEF Stepping
  <1>6. ASSUME NEW p \in Tasks PROVE TaskOK(p)'
    <2>1. TaskOK(p)
      BY DEF Stepping, AnswersOK
    <2> QED
      BY <1>1, <2>1, TaskKept DEF Stepping
  <1> QED
    BY <1>2, <1>3, <1>4, <1>5, <1>6 DEF AnswersOK

(* The facts a step of one request starts from.                            *)
LEMMA ClientFacts ==
    ASSUME Stepping, NEW c \in Clients
    PROVE  /\ req \in [Clients -> ReqType] /\ call \in [Owners -> CallType]
           /\ req[c] \in ReqType /\ call[c] \in CallType /\ c \in Owners /\ c \notin Tasks
           /\ ClientOK(c) /\ CacheParts /\ LastOK /\ ProbeTypes
           /\ now \in 0..MaxTime /\ now' \in 0..MaxTime /\ now <= now'
           /\ answered \in Int /\ answered' \in Int /\ answered <= answered'
           /\ req[c].arrived \in 0..MaxTime /\ req[c].arrived \in Int
           /\ req[c].arrived - Freshness \in Int
           /\ req[c].arrived <= now
  <1>1. TypeOK /\ ClientOK(c) /\ ClockOK /\ SharedOK
    BY DEF Stepping, AnswersOK
  <1>2. /\ req \in [Clients -> ReqType] /\ call \in [Owners -> CallType] /\ NodeTypes
        /\ CacheTypes /\ ProbeTypes
    BY <1>1, TypeParts
  <1>3. req[c] \in ReqType /\ c \in Owners /\ call[c] \in CallType
    BY <1>2 DEF Owners
  <1>4. req[c].arrived \in 0..MaxTime
    BY <1>3 DEF ReqType
  <1>5. req[c].arrived \in Int /\ req[c].arrived - Freshness \in Int
    BY <1>4, Constants
  <1>6. CacheParts /\ LastOK
    BY <1>1, <1>2 DEF CacheParts, LastOK, ClockOK, SharedOK
  <1>7. /\ now \in 0..MaxTime /\ now' \in 0..MaxTime /\ now <= now'
        /\ answered \in Int /\ answered' \in Int /\ answered <= answered'
    BY <1>2, Constants DEF Stepping, Onward, NodeTypes
  <1>8. c \notin Tasks
    BY GatewayAssumption
  <1>9. req[c].arrived <= now
    BY <1>1 DEF ClientOK
  <1> QED
    BY <1>1, <1>2, <1>3, <1>4, <1>5, <1>6, <1>7, <1>8, <1>9

(* A request ends: failed, gone, or with an answer that has its evidence.  *)
LEMMA DoneClient ==
    ASSUME Stepping, NEW c \in Clients, NEW out \in Answers \cup Failures \cup {Gone},
           NEW t \in Int, t = req[c].arrived - Freshness,
           req' = Done(c, out), req[c].pc # "idle", call'[c].st = "idle",
           out \notin Failures \cup {Gone} =>
              t <= answered' /\ (req[c].key \in Cacheable => Evidence(out.digest, t)')
    PROVE  /\ req' \in [Clients -> ReqType] /\ ClientOK(c)'
           /\ \A x \in Clients \ {c} : req'[x] = req[x]
  <1>1. /\ req \in [Clients -> ReqType] /\ req[c] \in ReqType /\ ClientOK(c)
        /\ req[c].arrived \in Int /\ now \in Int /\ now' \in Int /\ now <= now'
        /\ req[c].arrived <= now
    BY ClientFacts, Constants
  <1> DEFINE r == [req[c] EXCEPT !.pc = "done", !.out = out, !.on = None, !.digest = None]
  <1>2. r \in ReqType
    BY <1>1 DEF ReqType
  <1>3. /\ r.pc = "done" /\ r.out = out /\ r.arrived = req[c].arrived /\ r.key = req[c].key
    BY <1>1 DEF ReqType
  <1>4. req' = [req EXCEPT ![c] = r]
    BY DEF Done
  <1> HIDE DEF r
  <1>5. req' \in [Clients -> ReqType] /\ req'[c] = r /\ \A x \in Clients \ {c} : req'[x] = req[x]
    BY <1>1, <1>2, <1>4
  <1>6. req[c].key \in Keys
    BY <1>1 DEF ClientOK
  <1>7. /\ req'[c].pc = "done" /\ req'[c].out = out /\ req'[c].arrived - Freshness = t
        /\ req'[c].key = req[c].key /\ req'[c].arrived <= now'
    BY <1>1, <1>3, <1>5
  <1>8. Answered(c)' => /\ req'[c].arrived - Freshness <= answered'
                        /\ req'[c].key \in Cacheable =>
                              Evidence(req[c].out.digest, req[c].arrived - Freshness)'
    BY <1>7 DEF Answered
  <1> QED
    BY <1>5, <1>6, <1>7, <1>8 DEF ClientOK

(* A request gets the outcome of a probe or of an observation.             *)
LEMMA ResolvedClient ==
    ASSUME Stepping, NEW c \in Clients, NEW outcome \in Nat \cup Failures,
           NEW t \in Int, t = req[c].arrived - Freshness,
           req' = Resolved(c, outcome), req[c].pc = "loop", call' = call,
           outcome \notin Failures => Evidence(outcome, t)'
    PROVE  /\ req' \in [Clients -> ReqType] /\ ClientOK(c)'
           /\ \A x \in Clients \ {c} : req'[x] = req[x]
  <1>1. /\ req \in [Clients -> ReqType] /\ req[c] \in ReqType /\ ClientOK(c)
        /\ call[c] \in CallType
        /\ req[c].arrived \in Int /\ now \in Int /\ now' \in Int /\ now <= now'
        /\ req[c].arrived <= now
    BY ClientFacts, Constants
  <1>2. call[c].st = "idle"
    BY <1>1 DEF ClientOK, CallType
  <1>3. CASE outcome \in Failures
    <2>1. req' = Done(c, outcome)
      BY <1>3 DEF Resolved
    <2> QED
      BY <1>2, <1>3, <2>1, DoneClient
  <1>4. CASE outcome \notin Failures
    <2> DEFINE r == [req[c] EXCEPT !.pc = "lookup", !.digest = outcome, !.on = None]
    <2>1. r \in ReqType
      BY <1>1, <1>4 DEF ReqType
    <2>2. /\ r.pc = "lookup" /\ r.digest = outcome /\ r.arrived = req[c].arrived
          /\ r.key = req[c].key
      BY <1>1 DEF ReqType
    <2>3. req' = [req EXCEPT ![c] = r]
      BY <1>4 DEF Resolved
    <2> HIDE DEF r
    <2>4. req' \in [Clients -> ReqType] /\ req'[c] = r /\ \A x \in Clients \ {c} : req'[x] = req[x]
      BY <1>1, <2>1, <2>3
    <2>5. req[c].key \in Keys
      BY <1>1 DEF ClientOK
    <2>6. /\ req'[c].pc = "lookup" /\ req'[c].digest = outcome /\ req'[c].arrived - Freshness = t
          /\ req'[c].key = req[c].key /\ req'[c].arrived <= now' /\ call'[c].st = "idle"
      BY <1>1, <1>2, <2>2, <2>4
    <2>7. ~Answered(c)' /\ Evidence(req[c].digest, req[c].arrived - Freshness)'
      BY <1>4, <2>6 DEF Answered
    <2>8. outcome \in Nat
      BY <1>4
    <2> QED
      BY <2>4, <2>5, <2>6, <2>7, <2>8 DEF ClientOK
  <1> QED
    BY <1>3, <1>4

(* A digest that is fresh covers what is older than the window.            *)
LEMMA FreshEvidence ==
    ASSUME CacheParts, NodeTypes, FreshDigest(cache, now) # None
    PROVE  FreshDigest(cache, now) \in Nat /\ Evidence(FreshDigest(cache, now), now - Freshness)
  <1>1. /\ cache.gen # None /\ Since(cache.gen.at, now) < Freshness
        /\ FreshDigest(cache, now) = cache.gen.d
    BY DEF FreshDigest
  <1>2. cache.gen.d \in Nat /\ cache.gen.at \in Int /\ now \in Int /\ now - Freshness \in Int
        /\ Freshness \in Int
    BY <1>1, Constants DEF CacheParts, CacheTypes, NodeTypes
  <1>3. now - Freshness <= cache.gen.at
    BY <1>1, <1>2 DEF Since
  <1>4. Evidence(cache.gen.d, cache.gen.at)
    BY <1>1 DEF CacheParts
  <1>5. Evidence(cache.gen.d, now - Freshness)
    BY <1>2, <1>3, <1>4, EvidenceWeakens
  <1> QED
    BY <1>1, <1>2, <1>5

-----------------------------------------------------------------------------
(* The actions, one by one.  Steps of the node.                            *)
LEMMA NodeSteps ==
    ASSUME Stepping, UNCHANGED <<cache, last, inflight, call, req>>
    PROVE  AnswersOK'
  <1>1. ProbeTypes /\ call \in [Owners -> CallType] /\ req \in [Clients -> ReqType]
    BY TypeParts DEF Stepping, AnswersOK
  <1>2. CacheParts' /\ LastOK'
    BY CacheKept, LastKept
  <1>3. ProbeTypes'
    BY <1>1 DEF ProbeTypes
  <1> QED
    BY <1>1, <1>2, <1>3, Assemble

(* The node answers or fails a read.                                       *)
LEMMA NodeReplies ==
    ASSUME Stepping, NEW o \in Owners, NodeAnswers(o) \/ NodeFails(o)
    PROVE  AnswersOK'
  <1>1. ProbeTypes /\ call \in [Owners -> CallType] /\ req \in [Clients -> ReqType]
        /\ NodeTypes
    BY TypeParts DEF Stepping, AnswersOK
  <1>2. CacheParts' /\ LastOK'
    BY CacheKept, LastKept DEF NodeAnswers, NodeFails
  <1>3. ProbeTypes' /\ req' = req
    BY <1>1 DEF ProbeTypes, NodeAnswers, NodeFails
  <1>4. PICK v : /\ call' = [call EXCEPT ![o].st = "replied", ![o].reply = v]
                 /\ v \in Failures \/ (v = NodeRead(KeyOf(o)) /\ answered' = now
                                        /\ admits' = admits)
    BY DEF NodeAnswers, NodeFails, node
  <1>5. NodeRead(KeyOf(o)) \in Answers
    BY <1>1, Constants DEF NodeRead, Answers, Digest, NodeTypes
  <1>6. call[o] \in CallType /\ call[o].st = "sent"
    BY <1>1 DEF NodeAnswers, NodeFails
  <1> DEFINE g == [call[o] EXCEPT !.st = "replied", !.reply = v]
  <1>7. g \in CallType
    BY <1>4, <1>5, <1>6 DEF CallType
  <1>8. /\ g.st = "replied" /\ g.reply = v /\ g.requested = call[o].requested
        /\ g.started = call[o].started
    BY <1>6 DEF CallType
  <1>9. call' = [call EXCEPT ![o] = g]
    BY <1>1, <1>4
  <1> HIDE DEF g
  <1>10. call' \in [Owners -> CallType] /\ call'[o] = g
         /\ \A x \in Owners \ {o} : call'[x] = call[x]
    BY <1>1, <1>7, <1>9
  <1>11. PICK u : u = call[o].requested
    OBVIOUS
  <1>12. u \in Int
    BY <1>6, <1>11, Constants DEF CallType
  <1>13. ASSUME u <= now PROVE ReplyOK(v, u, KeyOf(o))'
    <2>1. CASE v \in Failures
      BY <2>1 DEF ReplyOK
    <2>2. CASE v = NodeRead(KeyOf(o)) /\ answered' = now /\ admits' = admits
      <3>1. PICK k : k = KeyOf(o)
        OBVIOUS
      <3>2. KeyOf(o)' = k
        BY <1>3, <3>1 DEF KeyOf
      <3>3. v \in Answers /\ (k \in Naming => v.digest = Len(admits))
            /\ (k \notin Naming => v.digest = None)
        BY <1>5, <2>2, <3>1 DEF NodeRead, Naming, Digest
      <3>4. Len(admits) \in Nat /\ None \notin Nat /\ \A n \in DOMAIN admits : n <= Len(admits)
        BY <1>1, GatewayAssumption DEF NodeTypes
      <3>5. k \in Naming => Evidence(v.digest, u)'
        BY <1>13, <2>2, <3>3, <3>4 DEF Evidence
      <3> QED
        BY <1>13, <2>2, <3>2, <3>3, <3>4, <3>5 DEF ReplyOK
    <2> QED
      BY <1>4, <2>1, <2>2
  <1>14. CASE o \in Clients
    <2>1. /\ ClientOK(o) /\ req[o] \in ReqType /\ o \notin Tasks
          /\ now \in Int /\ now' \in Int /\ now <= now'
          /\ req[o].arrived \in Int /\ req[o].arrived <= now
      BY <1>14, ClientFacts, Constants
    <2>2. /\ req[o].pc = "fetch" /\ req[o].arrived <= u /\ u <= now /\ req[o].key \in Keys
      BY <1>6, <1>11, <2>1 DEF ClientOK
    <2>3. KeyOf(o)' = req'[o].key
      BY <2>1 DEF KeyOf
    <2>4. ReplyOK(call[o].reply, call[o].requested, req[o].key)'
      BY <1>8, <1>10, <1>11, <1>13, <2>2, <2>3
    <2>5. ~Answered(o)'
      BY <1>3, <2>2 DEF Answered
    <2>6. ClientOK(o)'
      BY <1>3, <1>8, <1>10, <1>11, <1>12, <2>1, <2>2, <2>4, <2>5 DEF ClientOK
    <2>7. \A x \in Clients : (req'[x] = req[x] /\ call'[x] = call[x]) \/ ClientOK(x)'
      BY <1>3, <1>10, <2>6 DEF Owners
    <2>8. \A p \in Tasks : call'[p] = call[p]
      BY <1>10, <2>1 DEF Owners
    <2> QED
      BY <1>1, <1>2, <1>3, <1>10, <2>7, <2>8, Assemble
  <1>15. CASE o \in Tasks
    <2>1. o \notin Clients /\ TaskOK(o) /\ now \in Int /\ now' \in Int /\ now <= now'
      BY <1>1, <1>15, GatewayAssumption, Constants DEF Stepping, AnswersOK, Onward, NodeTypes
    <2>2. /\ call[o].started <= u /\ u <= now /\ call[o].started <= now
          /\ call[o].started \in Int
      BY <1>6, <1>11, <2>1, Constants DEF TaskOK, CallType
    <2>3. KeyOf(o)' = ProbeKey
      BY <1>15 DEF KeyOf
    <2>4. ReplyOK(call[o].reply, call[o].requested, ProbeKey)'
      BY <1>8, <1>10, <1>11, <1>13, <2>2, <2>3
    <2>5. TaskOK(o)'
      BY <1>8, <1>10, <1>11, <1>12, <2>1, <2>2, <2>4 DEF TaskOK
    <2>6. \A x \in Clients : req'[x] = req[x] /\ call'[x] = call[x]
      BY <1>3, <1>10, <2>1 DEF Owners
    <2>7. \A p \in Tasks : call'[p] = call[p] \/ TaskOK(p)'
      BY <1>10, <2>5 DEF Owners
    <2> QED
      BY <1>1, <1>2, <1>3, <1>10, <2>6, <2>7, Assemble
  <1> QED
    BY <1>14, <1>15 DEF Owners

(* What a step of one request has to show.                                 *)
LEMMA ClientStep ==
    ASSUME Stepping, NEW c \in Clients, CacheParts', last' = last, ProbeTypes',
           call' \in [Owners -> CallType], req' \in [Clients -> ReqType],
           \A x \in Owners \ {c} : call'[x] = call[x],
           \A x \in Clients \ {c} : req'[x] = req[x],
           ClientOK(c)'
    PROVE  AnswersOK'
  <1>1. LastOK'
    BY LastKept
  <1>2. c \notin Tasks
    BY GatewayAssumption
  <1>3. \A x \in Clients : (req'[x] = req[x] /\ call'[x] = call[x]) \/ ClientOK(x)'
    BY DEF Owners
  <1>4. \A p \in Tasks : call'[p] = call[p]
    BY <1>2 DEF Owners
  <1> QED
    BY <1>1, <1>3, <1>4, Assemble

LEMMA ArriveStep ==
    ASSUME Stepping, NEW c \in Clients, NEW k \in Keys, Arrive(c, k)
    PROVE  AnswersOK'
  <1>1. /\ req \in [Clients -> ReqType] /\ call \in [Owners -> CallType]
        /\ req[c] \in ReqType /\ call[c] \in CallType /\ ClientOK(c) /\ CacheParts /\ ProbeTypes
        /\ now \in 0..MaxTime /\ now' = now /\ req[c].pc = "idle" /\ NodeTypes
    BY ClientFacts, TypeParts DEF Arrive, Stepping, AnswersOK
  <1>2. /\ call' = call /\ cache' = cache /\ last' = last /\ inflight' = inflight
        /\ admits' = admits /\ answered' = answered
    BY DEF Arrive, node
  <1>3. PICK d : d = FreshDigest(cache, now)
    OBVIOUS
  <1>4. d = None \/ (d \in Nat /\ Evidence(d, now - Freshness))
    BY <1>1, <1>3, FreshEvidence
  <1> DEFINE r == [req[c] EXCEPT !.key = k, !.arrived = now,
                     !.pc = IF d = None THEN "loop" ELSE "lookup", !.digest = d]
  <1>5. r \in ReqType
    BY <1>1, <1>4 DEF ReqType
  <1>6. /\ r.pc = IF d = None THEN "loop" ELSE "lookup"
        /\ r.key = k /\ r.arrived = now /\ r.digest = d
    BY <1>1 DEF ReqType
  <1>7. req' = [req EXCEPT ![c] = r]
    BY <1>3 DEF Arrive
  <1> HIDE DEF r
  <1>8. req' \in [Clients -> ReqType] /\ req'[c] = r /\ \A x \in Clients \ {c} : req'[x] = req[x]
    BY <1>1, <1>5, <1>7
  <1>9. call[c].st = "idle"
    BY <1>1 DEF ClientOK, CallType
  <1>10. /\ req'[c].pc \in {"loop", "lookup"} /\ req'[c].key = k /\ req'[c].arrived = now
         /\ req'[c].digest = d /\ call'[c].st = "idle" /\ (req'[c].pc = "lookup" => d # None)
    BY <1>2, <1>6, <1>8, <1>9
  <1>11. d # None => Evidence(d, now - Freshness)'
    BY <1>1, <1>2, <1>4 DEF Evidence
  <1>12. req'[c].pc = "lookup" => Evidence(req[c].digest, req[c].arrived - Freshness)'
    BY <1>1, <1>10, <1>11
  <1>13. ~Answered(c)' /\ now <= now'
    BY <1>1, <1>10 DEF Answered
  <1>14. ClientOK(c)'
    BY <1>4, <1>10, <1>12, <1>13 DEF ClientOK
  <1>15. CacheParts' /\ ProbeTypes'
    BY <1>1, <1>2, CacheKept DEF ProbeTypes
  <1> QED
    BY <1>1, <1>2, <1>8, <1>14, <1>15, ClientStep

(* A GET is sent: by a request that missed, or for a direct read.          *)
LEMMA GetStep ==
    ASSUME Stepping, NEW c \in Clients, NEW k \in Keys,
           Miss(c) \/ ArriveDirect(c, k)
    PROVE  AnswersOK'
  <1>1. /\ req \in [Clients -> ReqType] /\ call \in [Owners -> CallType] /\ c \in Owners
        /\ req[c] \in ReqType /\ call[c] \in CallType /\ ClientOK(c) /\ CacheParts /\ ProbeTypes
        /\ now \in 0..MaxTime /\ now' = now /\ req[c].pc \in {"idle", "lookup"}
        /\ req[c].arrived \in 0..MaxTime /\ req[c].arrived <= now
    BY ClientFacts DEF Miss, ArriveDirect
  <1>2. cache' = cache /\ last' = last /\ inflight' = inflight
    BY DEF Miss, ArriveDirect
  <1>3. PICK key, at : /\ key \in Keys /\ at \in 0..MaxTime /\ at <= now
                       /\ req' = [req EXCEPT ![c] = [@ EXCEPT !.key = key, !.arrived = at, !.pc = "fetch"]]
    <2>1. CASE Miss(c)
      <3> DEFINE r == req[c]
      <3>1. req' = [req EXCEPT ![c] = [r EXCEPT !.pc = "fetch"]] /\ r.key \in Keys
        BY <1>1, <2>1 DEF Miss, ClientOK
      <3>2. [r EXCEPT !.pc = "fetch"] = [r EXCEPT !.key = r.key, !.arrived = r.arrived, !.pc = "fetch"]
        <4>1. r \in ReqType
          BY <1>1
        <4> HIDE DEF r
        <4> QED
          BY <4>1 DEF ReqType
      <3> QED
        BY <1>1, <3>1, <3>2
    <2>2. CASE ArriveDirect(c, k)
      <3>1. now <= now
        BY <1>1, Constants
      <3> QED
        BY <1>1, <2>2, <3>1 DEF ArriveDirect
    <2> QED
      BY <2>1, <2>2
  <1> DEFINE r == [req[c] EXCEPT !.key = key, !.arrived = at, !.pc = "fetch"]
             g == [call[c] EXCEPT !.st = "sent", !.requested = now]
  <1>4. r \in ReqType /\ r.pc = "fetch" /\ r.key = key /\ r.arrived = at
    BY <1>1, <1>3 DEF ReqType
  <1>5. g \in CallType /\ g.st = "sent" /\ g.requested = now
    BY <1>1 DEF CallType
  <1>6. req' = [req EXCEPT ![c] = r] /\ call' = [call EXCEPT ![c] = g]
    BY <1>3 DEF Miss, ArriveDirect, Get
  <1> HIDE DEF r, g
  <1>7. /\ req' \in [Clients -> ReqType] /\ req'[c] = r /\ \A x \in Clients \ {c} : req'[x] = req[x]
        /\ call' \in [Owners -> CallType] /\ call'[c] = g /\ \A x \in Owners \ {c} : call'[x] = call[x]
    BY <1>1, <1>4, <1>5, <1>6
  <1>8. at <= now' /\ now <= now'
    BY <1>1, <1>3, Constants
  <1>9. ~Answered(c)'
    BY <1>4, <1>7 DEF Answered
  <1>10. ClientOK(c)'
    BY <1>3, <1>4, <1>5, <1>7, <1>8, <1>9 DEF ClientOK
  <1>11. CacheParts' /\ ProbeTypes'
    BY <1>1, <1>2, CacheKept DEF ProbeTypes
  <1> QED
    BY <1>2, <1>7, <1>10, <1>11, ClientStep

(* A request takes the outcome of a probe, or a digest that is fresh again.*)
LEMMA ResolveStep ==
    ASSUME Stepping, NEW c \in Clients, TakeLast(c) \/ Recheck(c)
    PROVE  AnswersOK'
  <1>1. /\ call \in [Owners -> CallType] /\ CacheParts /\ ProbeTypes /\ LastOK /\ NodeTypes
        /\ now \in Int /\ req[c].arrived \in Int /\ req[c].arrived <= now
        /\ req[c].arrived - Freshness \in Int /\ Freshness \in Nat /\ req[c].pc = "loop"
        /\ answered <= now
    BY ClientFacts, TypeParts, Constants DEF TakeLast, Recheck, Stepping, AnswersOK, ClockOK
  <1>2. /\ call' = call /\ cache' = cache /\ last' = last /\ inflight' = inflight
    BY DEF TakeLast, Recheck
  <1>3. PICK t \in Int : t = req[c].arrived - Freshness
    BY <1>1
  <1>4. \E outcome \in Nat \cup Failures :
           /\ req' = Resolved(c, outcome)
           /\ outcome \notin Failures => Evidence(outcome, t)
    <2>1. CASE TakeLast(c)
      <3>1. /\ last # None /\ last.started >= req[c].arrived /\ req' = Resolved(c, last.outcome)
            /\ last.outcome \in Nat \cup Failures /\ last.started \in Int
        BY <1>1, <2>1, Constants DEF TakeLast, LastAnswers, ProbeTypes
      <3>2. t <= last.started
        BY <1>1, <1>3, <3>1
      <3>3. last.outcome \notin Failures => Evidence(last.outcome, last.started)
        BY <1>1, <3>1 DEF LastOK
      <3>4. last.outcome \notin Failures => Evidence(last.outcome, t)
        BY <1>1, <3>1, <3>2, <3>3, EvidenceWeakens
      <3> QED
        BY <3>1, <3>4
    <2>2. CASE Recheck(c)
      <3>1. FreshDigest(cache, now) # None /\ req' = Resolved(c, FreshDigest(cache, now))
        BY <2>2 DEF Recheck
      <3>2. FreshDigest(cache, now) \in Nat /\ Evidence(FreshDigest(cache, now), now - Freshness)
        BY <1>1, <3>1, FreshEvidence
      <3>3. now - Freshness \in Int /\ t <= now - Freshness
        BY <1>1, <1>3
      <3>4. Evidence(FreshDigest(cache, now), t)
        BY <1>1, <3>2, <3>3, EvidenceWeakens
      <3> QED
        BY <3>1, <3>2, <3>4
    <2> QED
      BY <2>1, <2>2
  <1>5. PICK outcome \in Nat \cup Failures :
           req' = Resolved(c, outcome) /\ (outcome \notin Failures => Evidence(outcome, t))
    BY <1>4
  <1>6. outcome \notin Failures => Evidence(outcome, t)'
    BY <1>1, <1>5, EvidenceKept DEF Stepping
  <1>7. /\ req' \in [Clients -> ReqType] /\ ClientOK(c)'
        /\ \A x \in Clients \ {c} : req'[x] = req[x]
    BY <1>1, <1>2, <1>3, <1>5, <1>6, ResolvedClient
  <1>8. CacheParts' /\ ProbeTypes'
    BY <1>1, <1>2, CacheKept DEF ProbeTypes
  <1> QED
    BY <1>1, <1>2, <1>7, <1>8, ClientStep

(* A request waits, is woken or finds its probe dead: it has no call and no *)
(* digest yet.                                                             *)
LEMMA WaitingClient ==
    ASSUME Stepping, NEW c \in Clients, req[c].pc \in {"loop", "wait"},
           req'[c].pc \in {"loop", "wait", "orphan"},
           req'[c].key = req[c].key, req'[c].arrived = req[c].arrived, call'[c] = call[c]
    PROVE  ClientOK(c)'
  <1>1. /\ req[c] \in ReqType /\ call[c] \in CallType /\ ClientOK(c)
        /\ now \in Int /\ now' \in Int /\ now <= now'
        /\ req[c].arrived \in Int /\ req[c].arrived <= now
    BY ClientFacts, Constants
  <1>2. call'[c].st = "idle" /\ req[c].key \in Keys
    BY <1>1 DEF ClientOK, CallType
  <1>3. ~Answered(c)'
    BY DEF Answered
  <1>4. req'[c].arrived <= now'
    BY <1>1
  <1> QED
    BY <1>2, <1>3, <1>4 DEF ClientOK

LEMMA JoinStep ==
    ASSUME Stepping, NEW c \in Clients, Join(c)
    PROVE  AnswersOK'
  <1>1. /\ req \in [Clients -> ReqType] /\ call \in [Owners -> CallType]
        /\ req[c] \in ReqType /\ CacheParts /\ ProbeTypes /\ req[c].pc = "loop"
        /\ inflight \in Tasks \cup {None, Dead}
    BY ClientFacts DEF Join, ProbeTypes
  <1>2. call' = call /\ cache' = cache /\ last' = last /\ inflight' = inflight
    BY DEF Join
  <1>3. PICK w, pc, on : /\ w = req[c].waits + 1 /\ pc = (IF inflight = Dead THEN "orphan" ELSE "wait")
                         /\ on = inflight
    OBVIOUS
  <1>4. w \in Nat /\ pc \in {"loop", "wait", "orphan"} /\ on \in Tasks \cup {None, Dead}
    BY <1>1, <1>3 DEF ReqType
  <1>5. req' = [req EXCEPT ![c] = [req[c] EXCEPT !.waits = w, !.on = on, !.pc = pc]]
    BY <1>3 DEF Join
  <1> DEFINE r == [req[c] EXCEPT !.waits = w, !.on = on, !.pc = pc]
  <1>6. r \in ReqType /\ r.pc = pc /\ r.key = req[c].key /\ r.arrived = req[c].arrived
    BY <1>1, <1>4 DEF ReqType
  <1> HIDE DEF r
  <1>7. /\ req'[c] = r /\ req' \in [Clients -> ReqType]
        /\ \A x \in Clients \ {c} : req'[x] = req[x]
    BY <1>1, <1>5, <1>6 DEF r
  <1>8. ClientOK(c)'
    BY <1>1, <1>2, <1>4, <1>6, <1>7, WaitingClient
  <1>9. CacheParts' /\ ProbeTypes'
    BY <1>1, <1>2, CacheKept DEF ProbeTypes
  <1> QED
    BY <1>1, <1>2, <1>7, <1>8, <1>9, ClientStep

(* A request ends with a failure or because its client is gone.            *)
LEMMA EndStep ==
    ASSUME Stepping, NEW c \in Clients, Orphan(c) \/ Disconnect(c)
    PROVE  AnswersOK'
  <1>1. /\ call \in [Owners -> CallType] /\ call[c] \in CallType /\ ProbeTypes /\ ClientOK(c)
        /\ req[c].pc \in {"orphan", "wait", "fetch"} /\ req[c].arrived - Freshness \in Int
    BY ClientFacts DEF Orphan, Disconnect
  <1>2. cache' = cache /\ last' = last /\ inflight' \in {inflight, None}
    BY DEF Orphan, Disconnect
  <1>3. PICK out \in Failures \cup {Gone} : req' = Done(c, out)
    BY DEF Orphan, Disconnect, Failures
  <1>4. Idle \in CallType
    BY Constants DEF Idle, CallType
  <1>5. /\ call' \in [Owners -> CallType] /\ call'[c].st = "idle"
        /\ \A x \in Owners \ {c} : call'[x] = call[x]
    <2>1. CASE Orphan(c)
      <3>1. req[c].pc = "orphan" /\ call' = call
        BY <2>1 DEF Orphan
      <3> QED
        BY <1>1, <3>1 DEF ClientOK, CallType
    <2>2. CASE Disconnect(c)
      <3>1. call' = [call EXCEPT ![c] = Idle] /\ c \in Owners /\ Idle.st = "idle"
        BY <2>2 DEF Disconnect, Owners, Idle
      <3> QED
        BY <1>1, <1>4, <3>1
    <2> QED
      BY <2>1, <2>2
  <1>6. PICK t \in Int : t = req[c].arrived - Freshness
    BY <1>1
  <1>7. /\ req' \in [Clients -> ReqType] /\ ClientOK(c)'
        /\ \A x \in Clients \ {c} : req'[x] = req[x]
    BY <1>1, <1>3, <1>5, <1>6, DoneClient
  <1>8. CacheParts' /\ ProbeTypes'
    BY <1>1, <1>2, CacheKept DEF ProbeTypes
  <1> QED
    BY <1>2, <1>5, <1>7, <1>8, ClientStep

(* A hit is served from the cache.                                         *)
LEMMA LookupStep ==
    ASSUME Stepping, NEW c \in Clients, Lookup(c)
    PROVE  AnswersOK'
  <1>1. /\ call \in [Owners -> CallType] /\ call[c] \in CallType /\ ProbeTypes /\ ClientOK(c)
        /\ req[c].pc = "lookup" /\ req[c].arrived - Freshness \in Int /\ CacheParts
        /\ NodeTypes /\ answered <= now /\ answered \in Int /\ answered' \in Int
        /\ answered <= answered'
    BY ClientFacts, TypeParts DEF Lookup, Stepping, AnswersOK, ClockOK
  <1>2. last' = last /\ inflight' = inflight /\ call' = call /\ cache' = Touch(cache, req[c].key)
    BY DEF Lookup
  <1>3. req[c].key \in DOMAIN cache.entries /\ cache.gen.d = req[c].digest
    BY DEF Lookup, Hit, Current
  <1>4. PICK out : out = cache.entries[req[c].key]
    OBVIOUS
  <1>5. req' = Done(c, out) /\ out \in Answers /\ out.digest = req[c].digest
    BY <1>1, <1>3, <1>4 DEF Lookup, CacheParts, CacheTypes, EntriesShareOneDigest
  <1>6. PICK t \in Int : t = req[c].arrived - Freshness
    BY <1>1
  <1>7. Evidence(out.digest, t)
    BY <1>1, <1>5, <1>6 DEF ClientOK
  <1>8. Evidence(out.digest, t)'
    BY <1>1, <1>7, EvidenceKept DEF Stepping
  <1>9. t <= answered'
    BY <1>8 DEF Evidence
  <1>10. call'[c].st = "idle"
    BY <1>1, <1>2 DEF ClientOK, CallType
  <1>11. /\ req' \in [Clients -> ReqType] /\ ClientOK(c)'
         /\ \A x \in Clients \ {c} : req'[x] = req[x]
    BY <1>1, <1>5, <1>6, <1>8, <1>9, <1>10, DoneClient
  <1>12. CacheParts' /\ ProbeTypes'
    <2>1. PICK k : k = req[c].key
      OBVIOUS
    <2>2. CacheParts'
      BY <1>2, <1>3, <2>1, CacheTouched
    <2> QED
      BY <1>1, <1>2, <2>2 DEF ProbeTypes
  <1> QED
    BY <1>1, <1>2, <1>11, <1>12, ClientStep

(* The answer of the node is returned, after it was stored or because it   *)
(* names no digest, or the failure is.                                     *)
LEMMA AnswerStep ==
    ASSUME Stepping, NEW c \in Clients, CacheParts', last' = last, inflight' = inflight,
           req' = Done(c, call[c].reply), call' = [call EXCEPT ![c] = Idle],
           call[c].st \in {"replied", "held"}
    PROVE  AnswersOK'
  <1>1. /\ call \in [Owners -> CallType] /\ call[c] \in CallType /\ ProbeTypes /\ ClientOK(c)
        /\ req[c].arrived - Freshness \in Int /\ c \in Owners /\ c \notin Tasks /\ req[c].arrived \in Int
        /\ NodeTypes /\ answered <= now /\ answered \in Int /\ answered' \in Int
        /\ answered <= answered' /\ Freshness \in Nat /\ AnswersOK
    BY ClientFacts, TypeParts, Constants DEF Stepping, AnswersOK, ClockOK
  <1>2. Idle \in CallType /\ Idle.st = "idle"
    BY Constants DEF Idle, CallType
  <1>3. /\ call' \in [Owners -> CallType] /\ call'[c].st = "idle"
        /\ \A x \in Owners \ {c} : call'[x] = call[x]
    BY <1>1, <1>2
  <1>4. PICK out : out = call[c].reply
    OBVIOUS
  <1>5. /\ out \in Answers \cup Failures /\ req[c].pc # "idle" /\ req[c].arrived <= call[c].requested
    BY <1>1, <1>4 DEF ClientOK, ReplyOK
  <1>6. PICK t \in Int : t = req[c].arrived - Freshness
    BY <1>1
  <1>7. ASSUME out \notin Failures
        PROVE  t <= answered' /\ (req[c].key \in Cacheable => Evidence(out.digest, t)')
    <2>1. PICK u : u = call[c].requested
      OBVIOUS
    <2>2. /\ u \in 0..MaxTime /\ u <= answered
          /\ req[c].key \in Cacheable => Evidence(out.digest, u)
      BY <1>1, <1>4, <1>7, <2>1, ReplyBack
    <2>3. u \in Int /\ t <= u
      BY <1>1, <1>5, <1>6, <2>1, <2>2, Constants
    <2>4. req[c].key \in Cacheable => Evidence(out.digest, t)
      BY <1>1, <2>2, <2>3, EvidenceWeakens
    <2>5. Evidence(out.digest, t) => Evidence(out.digest, t)'
      BY <1>1, EvidenceKept DEF Stepping
    <2> QED
      BY <1>1, <2>2, <2>3, <2>4, <2>5
  <1>8. /\ req' \in [Clients -> ReqType] /\ ClientOK(c)'
        /\ \A x \in Clients \ {c} : req'[x] = req[x]
    <2>1. req' = Done(c, out)
      BY <1>4
    <2>2. out \in Answers \cup Failures \cup {Gone}
      BY <1>5
    <2> QED
      BY <1>3, <1>5, <1>6, <1>7, <2>1, <2>2, DoneClient
  <1>9. ProbeTypes'
    BY <1>1 DEF ProbeTypes
  <1> QED
    BY <1>3, <1>8, <1>9, ClientStep

LEMMA FetchStep ==
    ASSUME Stepping, NEW c \in Clients, Fetched(c) \/ StoreAnswer(c)
    PROVE  AnswersOK'
  <1>1. /\ call \in [Owners -> CallType] /\ call[c] \in CallType /\ ProbeTypes /\ ClientOK(c)
        /\ req \in [Clients -> ReqType] /\ req[c] \in ReqType
        /\ c \in Owners /\ c \notin Tasks /\ AnswersOK
        /\ now \in Int /\ now' = now
    BY ClientFacts, Constants DEF Stepping, Fetched, StoreAnswer
  <1>2. last' = last /\ inflight' = inflight
    BY DEF Fetched, StoreAnswer
  <1> DEFINE r == call[c].reply
  <1>3. CASE Fetched(c)
    <2>1. CacheParts' /\ call[c].st = "replied"
      BY <1>1, <1>3, CacheObserved DEF Fetched
    <2>2. CASE r \in Failures \/ r.digest = None
      <3>1. req' = Done(c, r) /\ call' = [call EXCEPT ![c] = Idle]
        BY <1>3, <2>2 DEF Fetched
      <3> QED
        BY <1>2, <2>1, <3>1, AnswerStep
    <2>3. CASE ~(r \in Failures \/ r.digest = None)
      <3> DEFINE q == [req[c] EXCEPT !.pc = "store"]
                 g == [call[c] EXCEPT !.st = "held"]
      <3>1. req' = [req EXCEPT ![c] = q] /\ call' = [call EXCEPT ![c] = g]
        BY <1>3, <2>3 DEF Fetched
      <3>2. q \in ReqType /\ q.pc = "store" /\ q.key = req[c].key /\ q.arrived = req[c].arrived
        BY <1>1 DEF ReqType
      <3>3. /\ g \in CallType /\ g.st = "held" /\ g.reply = r /\ g.requested = call[c].requested
        BY <1>1 DEF CallType
      <3> HIDE DEF q, g
      <3>4. /\ req' \in [Clients -> ReqType] /\ req'[c] = q /\ \A x \in Clients \ {c} : req'[x] = req[x]
            /\ call' \in [Owners -> CallType] /\ call'[c] = g
            /\ \A x \in Owners \ {c} : call'[x] = call[x]
        BY <1>1, <3>1, <3>2, <3>3
      <3>5. ReplyOK(r, call[c].requested, req[c].key)
        BY <1>1, <2>1 DEF ClientOK
      <3>6. ReplyOK(call[c].reply, call[c].requested, req[c].key)'
        <4>1. PICK a, u, k : a = r /\ u = call[c].requested /\ k = req[c].key
          OBVIOUS
        <4>2. u \in Int
          BY <1>1, <4>1, Constants DEF CallType
        <4>3. NodeTypes /\ answered <= now
          BY TypeParts DEF Stepping, AnswersOK, ClockOK
        <4>4. ReplyOK(a, u, k)'
          BY <3>5, <4>1, <4>2, <4>3, ReplyKept DEF Stepping
        <4> QED
          BY <3>2, <3>3, <3>4, <4>1, <4>4
      <3>7. req[c].key \in Cacheable /\ r \notin Failures
        BY <1>1, <2>1, <2>3, ReplyBack
      <3>8. ~Answered(c)' /\ req[c].key \in Keys
        BY <3>2, <3>4, <3>7 DEF Answered, Keys, Cacheable
      <3>9. /\ req[c].arrived <= now' /\ req[c].arrived <= call[c].requested
            /\ call[c].requested <= now'
        BY <1>1, <2>1 DEF ClientOK
      <3>10. ClientOK(c)'
        BY <3>2, <3>3, <3>4, <3>6, <3>7, <3>8, <3>9 DEF ClientOK
      <3>11. ProbeTypes'
        BY <1>1, <1>2 DEF ProbeTypes
      <3> QED
        BY <1>2, <2>1, <3>4, <3>10, <3>11, ClientStep
    <2> QED
      BY <2>2, <2>3
  <1>4. CASE StoreAnswer(c)
    <2>1. /\ call[c].st = "held" /\ r \notin Failures /\ req[c].key \in Cacheable
      BY <1>1, <1>4 DEF StoreAnswer, ClientOK
    <2>2. r \in Answers /\ r.digest # None
      BY <1>1, <2>1, ReplyBack
    <2>3. PICK a, k : a = r /\ k = req[c].key
      OBVIOUS
    <2>4. cache' = Put(cache, a.digest, k, a)
      BY <1>4, <2>3 DEF StoreAnswer
    <2>5. CacheParts'
      BY <2>1, <2>2, <2>3, <2>4, CacheStored
    <2>6. req' = Done(c, r) /\ call' = [call EXCEPT ![c] = Idle]
      BY <1>4 DEF StoreAnswer
    <2> QED
      BY <1>2, <2>1, <2>5, <2>6, AnswerStep
  <1> QED
    BY <1>3, <1>4

(* The facts a step of a probe task starts from.                           *)
LEMMA TaskFacts ==
    ASSUME Stepping, NEW p \in Tasks
    PROVE  /\ req \in [Clients -> ReqType] /\ call \in [Owners -> CallType]
           /\ call[p] \in CallType /\ p \in Owners /\ p \notin Clients
           /\ TaskOK(p) /\ CacheParts /\ LastOK /\ ProbeTypes /\ NodeTypes /\ answered <= now
           /\ now \in 0..MaxTime /\ now' \in 0..MaxTime /\ now <= now'
           /\ now \in Int /\ now' \in Int
           /\ call[p].started \in 0..MaxTime /\ call[p].started \in Int
           /\ call[p].requested \in 0..MaxTime /\ call[p].requested \in Int
  <1>1. TypeOK /\ TaskOK(p) /\ ClockOK /\ SharedOK
    BY DEF Stepping, AnswersOK
  <1>2. /\ req \in [Clients -> ReqType] /\ call \in [Owners -> CallType] /\ NodeTypes
        /\ CacheTypes /\ ProbeTypes
    BY <1>1, TypeParts
  <1>3. p \in Owners /\ call[p] \in CallType /\ p \notin Clients
    BY <1>2, GatewayAssumption DEF Owners
  <1>4. call[p].started \in 0..MaxTime /\ call[p].requested \in 0..MaxTime
    BY <1>3 DEF CallType
  <1>5. call[p].started \in Int /\ call[p].requested \in Int
    BY <1>4, Constants
  <1>6. CacheParts /\ LastOK /\ answered <= now
    BY <1>1, <1>2 DEF CacheParts, LastOK, ClockOK, SharedOK
  <1>7. /\ now \in 0..MaxTime /\ now' \in 0..MaxTime /\ now <= now'
        /\ now \in Int /\ now' \in Int
    BY <1>2, Constants DEF Stepping, Onward, NodeTypes
  <1> QED
    BY <1>1, <1>2, <1>3, <1>4, <1>5, <1>6, <1>7

(* The task that Spawn starts is a task that was idle.                     *)
LEMMA FreeTaskIsFree ==
    ASSUME \E p \in Tasks : call[p].st = "idle"
    PROVE  FreeTask \in Tasks /\ call[FreeTask].st = "idle"
  BY DEF FreeTask

LEMMA SpawnStep ==
    ASSUME Stepping, NEW c \in Clients, Spawn(c)
    PROVE  AnswersOK'
  <1>1. /\ req \in [Clients -> ReqType] /\ call \in [Owners -> CallType] /\ c \in Owners
        /\ c \notin Tasks /\ req[c] \in ReqType /\ ProbeTypes /\ req[c].pc = "loop"
        /\ now \in 0..MaxTime
    BY ClientFacts DEF Spawn
  <1>2. cache' = cache /\ last' = last /\ now' = now
    BY DEF Spawn
  <1>3. PICK p : p = FreeTask
    OBVIOUS
  <1>4. /\ p \in Tasks /\ inflight' = p
        /\ call' = [call EXCEPT ![p] = [Idle EXCEPT !.st = "spawned", !.started = now]]
        /\ req' = [req EXCEPT ![c] = [@ EXCEPT !.waits = req[c].waits + 1, !.on = p, !.pc = "wait"]]
    BY <1>3, FreeTaskIsFree DEF Spawn
  <1>5. p \in Owners /\ p \notin Clients /\ now <= now'
    BY <1>1, <1>2, <1>4, TaskFacts DEF Owners
  <1> DEFINE g == [Idle EXCEPT !.st = "spawned", !.started = now]
             r == [req[c] EXCEPT !.waits = req[c].waits + 1, !.on = p, !.pc = "wait"]
  <1>6. g \in CallType /\ g.st = "spawned" /\ g.started = now
    <2>1. Idle \in CallType
      BY Constants DEF Idle, CallType
    <2> QED
      BY <1>1, <2>1 DEF CallType
  <1>7. r \in ReqType /\ r.pc = "wait" /\ r.key = req[c].key /\ r.arrived = req[c].arrived
    <2>1. req[c].waits + 1 \in Nat
      BY <1>1 DEF ReqType
    <2> QED
      BY <1>1, <1>4, <2>1 DEF ReqType
  <1>8. call' = [call EXCEPT ![p] = g] /\ req' = [req EXCEPT ![c] = r]
    BY <1>4
  <1> HIDE DEF g, r
  <1>9. /\ call' \in [Owners -> CallType] /\ call'[p] = g /\ \A x \in Owners \ {p} : call'[x] = call[x]
        /\ req' \in [Clients -> ReqType] /\ req'[c] = r /\ \A x \in Clients \ {c} : req'[x] = req[x]
    BY <1>1, <1>5, <1>6, <1>7, <1>8
  <1>10. ClientOK(c)'
    <2>1. call'[c] = call[c]
      BY <1>1, <1>4, <1>9
    <2> QED
      BY <1>1, <1>7, <1>9, <2>1, WaitingClient
  <1>11. TaskOK(p)'
    BY <1>5, <1>6, <1>9 DEF TaskOK
  <1>12. CacheParts' /\ LastOK' /\ ProbeTypes'
    BY <1>1, <1>2, <1>4, CacheKept, LastKept DEF ProbeTypes
  <1>13. \A x \in Clients : (req'[x] = req[x] /\ call'[x] = call[x]) \/ ClientOK(x)'
    BY <1>5, <1>9, <1>10 DEF Owners
  <1>14. \A x \in Tasks : call'[x] = call[x] \/ TaskOK(x)'
    BY <1>9, <1>11 DEF Owners
  <1> QED
    BY <1>9, <1>12, <1>13, <1>14, Assemble

(* The probe's GET is sent, and its answer observed.                       *)
LEMMA ProbeGetStep ==
    ASSUME Stepping, NEW p \in Tasks, ProbeSend(p) \/ ProbeObserve(p)
    PROVE  AnswersOK'
  <1>1. /\ req \in [Clients -> ReqType] /\ call \in [Owners -> CallType]
        /\ call[p] \in CallType /\ p \in Owners /\ p \notin Clients
        /\ TaskOK(p) /\ ProbeTypes /\ NodeTypes /\ answered <= now
        /\ now \in 0..MaxTime /\ now \in Int
        /\ call[p].started \in Int /\ call[p].requested \in Int
    BY TaskFacts
  <1>2. last' = last /\ inflight' = inflight /\ req' = req /\ now' = now
    BY DEF ProbeSend, ProbeObserve
  <1>3. CacheParts'
    BY <1>1, CacheKept, CacheObserved DEF ProbeSend, ProbeObserve
  <1>4. /\ call' \in [Owners -> CallType] /\ \A x \in Owners \ {p} : call'[x] = call[x]
        /\ TaskOK(p)'
    <2>1. CASE ProbeSend(p)
      <3> DEFINE g == [call[p] EXCEPT !.st = "sent", !.requested = now]
      <3>1. g \in CallType /\ g.st = "sent" /\ g.requested = now /\ g.started = call[p].started
        BY <1>1 DEF CallType
      <3>2. call' = [call EXCEPT ![p] = g] /\ call[p].st = "spawned"
        BY <2>1 DEF ProbeSend, Get
      <3> HIDE DEF g
      <3>3. /\ call' \in [Owners -> CallType] /\ \A x \in Owners \ {p} : call'[x] = call[x]
            /\ call'[p] = g
        BY <1>1, <3>1, <3>2
      <3>4. call[p].started <= now
        BY <1>1, <3>2 DEF TaskOK
      <3> QED
        BY <1>1, <1>2, <3>1, <3>3, <3>4 DEF TaskOK
    <2>2. CASE ProbeObserve(p)
      <3> DEFINE g == [call[p] EXCEPT !.st = "held"]
      <3>1. /\ g \in CallType /\ g.st = "held" /\ g.requested = call[p].requested
            /\ g.started = call[p].started /\ g.reply = call[p].reply
        BY <1>1 DEF CallType
      <3>2. call' = [call EXCEPT ![p] = g] /\ call[p].st = "replied"
        BY <2>2 DEF ProbeObserve
      <3> HIDE DEF g
      <3>3. /\ call' \in [Owners -> CallType] /\ \A x \in Owners \ {p} : call'[x] = call[x]
            /\ call'[p] = g
        BY <1>1, <3>1, <3>2
      <3>4. PICK a, u : a = call[p].reply /\ u = call[p].requested
        OBVIOUS
      <3>5. ReplyOK(a, u, ProbeKey) /\ u \in Int
        BY <1>1, <3>2, <3>4 DEF TaskOK
      <3>6. ReplyOK(a, u, ProbeKey)'
        BY <1>1, <3>5, ReplyKept DEF Stepping
      <3>7. ReplyOK(call[p].reply, call[p].requested, ProbeKey)'
        BY <3>1, <3>3, <3>4, <3>6
      <3>8. /\ call[p].started <= now' /\ call[p].started <= call[p].requested
            /\ call[p].requested <= now'
        BY <1>1, <1>2, <3>2 DEF TaskOK
      <3> QED
        BY <3>1, <3>3, <3>7, <3>8 DEF TaskOK
    <2> QED
      BY <2>1, <2>2
  <1>5. LastOK' /\ ProbeTypes'
    BY <1>1, <1>2, LastKept DEF ProbeTypes
  <1>6. \A x \in Clients : req'[x] = req[x] /\ call'[x] = call[x]
    BY <1>1, <1>2, <1>4 DEF Owners
  <1>7. \A x \in Tasks : call'[x] = call[x] \/ TaskOK(x)'
    BY <1>4 DEF Owners
  <1> QED
    BY <1>1, <1>2, <1>3, <1>4, <1>5, <1>6, <1>7, Assemble

(* The receivers of a task are woken.                                      *)
LEMMA WokenClients ==
    ASSUME Stepping, NEW p \in Tasks, NEW pc \in {"loop", "orphan"}, req' = Woken(p, pc),
           \A c \in Clients : call'[c] = call[c]
    PROVE  /\ req' \in [Clients -> ReqType]
           /\ \A c \in Clients : (req'[c] = req[c] /\ call'[c] = call[c]) \/ ClientOK(c)'
  <1>1. req \in [Clients -> ReqType]
    BY TaskFacts
  <1>2. ASSUME NEW c \in Clients
        PROVE  /\ req'[c] \in ReqType
               /\ (req'[c] = req[c] /\ call'[c] = call[c]) \/ ClientOK(c)'
    <2>1. CASE req[c].pc = "wait" /\ req[c].on = p
      <3> DEFINE r == [req[c] EXCEPT !.pc = pc, !.on = None]
      <3>1. req'[c] = r
        BY <2>1 DEF Woken
      <3>2. /\ r \in ReqType /\ r.pc = pc /\ r.key = req[c].key /\ r.arrived = req[c].arrived
        BY <1>1 DEF ReqType
      <3> HIDE DEF r
      <3>3. ClientOK(c)'
        BY <2>1, <3>1, <3>2, WaitingClient
      <3> QED
        BY <3>1, <3>2, <3>3
    <2>2. CASE ~(req[c].pc = "wait" /\ req[c].on = p)
      BY <1>1, <2>2 DEF Woken
    <2> QED
      BY <2>1, <2>2
  <1>3. DOMAIN req' = Clients /\ req' = [c \in Clients |-> req'[c]]
    BY DEF Woken
  <1> QED
    BY <1>2, <1>3

(* A probe task ends, with its outcome or without.                         *)
LEMMA ProbeEndStep ==
    ASSUME Stepping, NEW p \in Tasks, ProbeRecord(p) \/ ProbeDies(p)
    PROVE  AnswersOK'
  <1>1. /\ req \in [Clients -> ReqType] /\ call \in [Owners -> CallType]
        /\ call[p] \in CallType /\ p \in Owners /\ p \notin Clients
        /\ TaskOK(p) /\ ProbeTypes /\ NodeTypes /\ answered <= now
        /\ now \in 0..MaxTime /\ now \in Int /\ AnswersOK
        /\ call[p].started \in Int /\ call[p].requested \in Int
        /\ call[p].started \in 0..MaxTime
    BY TaskFacts DEF Stepping
  <1>2. /\ cache' = cache /\ call' = [call EXCEPT ![p] = Idle] /\ now' = now
        /\ inflight' \in {inflight, Dead, None}
    BY DEF ProbeRecord, ProbeDies
  <1>3. Idle \in CallType /\ Idle.st = "idle"
    BY Constants DEF Idle, CallType
  <1>4. /\ call' \in [Owners -> CallType] /\ \A x \in Owners \ {p} : call'[x] = call[x]
        /\ call'[p].st = "idle"
    BY <1>1, <1>2, <1>3
  <1>5. TaskOK(p)'
    BY <1>4 DEF TaskOK
  <1>6. \A x \in Clients : call'[x] = call[x]
    BY <1>1, <1>4 DEF Owners
  <1>7. /\ req' \in [Clients -> ReqType]
        /\ \A c \in Clients : (req'[c] = req[c] /\ call'[c] = call[c]) \/ ClientOK(c)'
    <2>1. PICK pc \in {"loop", "orphan"} : req' = Woken(p, pc)
      BY DEF ProbeRecord, ProbeDies
    <2> QED
      BY <1>6, <2>1, WokenClients
  <1>8. LastOK' /\ ProbeTypes'
    <2>1. CASE ProbeRecord(p)
      <3>1. PICK s, v : s = call[p].started /\ v = Outcome(p)
        OBVIOUS
      <3>2. last' = [started |-> s, outcome |-> v] /\ call[p].st = "held" /\ inflight' = None
        BY <2>1, <3>1 DEF ProbeRecord
      <3>3. s \in 0..MaxTime /\ s <= now'
        BY <1>1, <1>2, <3>1, <3>2 DEF TaskOK
      <3>4. v \in Nat \cup Failures /\ (v \notin Failures => Evidence(v, s))
        <4>1. CASE call[p].reply \in Failures
          BY <3>1, <4>1 DEF Outcome
        <4>2. CASE call[p].reply \notin Failures
          <5>1. /\ v = call[p].reply.digest /\ v \in Nat /\ Evidence(v, call[p].requested)
            BY <1>1, <3>1, <3>2, <4>2, ReplyBack DEF Outcome
          <5>2. s <= call[p].requested /\ s \in Int
            BY <1>1, <3>1, <3>2 DEF TaskOK
          <5> QED
            BY <1>1, <5>1, <5>2, EvidenceWeakens
        <4> QED
          BY <4>1, <4>2
      <3>5. v \notin Failures => Evidence(v, s)'
        BY <1>1, <3>1, <3>4, EvidenceKept DEF Stepping
      <3>6. last'.started = s /\ last'.outcome = v
        BY <3>2
      <3>7. LastOK'
        BY <3>3, <3>5, <3>6 DEF LastOK
      <3>8. ProbeTypes'
        BY <3>2, <3>3, <3>4 DEF ProbeTypes
      <3> QED
        BY <3>7, <3>8
    <2>2. CASE ProbeDies(p)
      <3>1. last' = last
        BY <2>2 DEF ProbeDies
      <3> QED
        BY <1>1, <1>2, <3>1, LastKept DEF ProbeTypes
    <2> QED
      BY <2>1, <2>2
  <1>9. \A x \in Tasks : call'[x] = call[x] \/ TaskOK(x)'
    BY <1>4, <1>5 DEF Owners
  <1>10. CacheParts'
    BY <1>2, CacheKept
  <1> QED
    BY <1>4, <1>7, <1>8, <1>9, <1>10, Assemble

(* Every step keeps the evidence.                                          *)
LEMMA AnswersStep ==
    ASSUME AnswersOK, [Next]_vars PROVE AnswersOK'
  <1>1. Stepping
    BY StepOnward DEF Stepping
  <1>2. ASSUME UNCHANGED <<cache, last, inflight, call, req>> PROVE AnswersOK'
    BY <1>1, <1>2, NodeSteps
  <1>3. Tick \/ Admit \/ RetainBody \/ Terminated \/ UNCHANGED vars
          => UNCHANGED <<cache, last, inflight, call, req>>
    BY DEF Tick, Admit, RetainBody, Terminated, vars
  <1>4. ASSUME NEW o \in Owners, NodeAnswers(o) \/ NodeFails(o) PROVE AnswersOK'
    BY <1>1, <1>4, NodeReplies
  <1>5. ASSUME NEW c \in Clients, NEW k \in Keys, Arrive(c, k) PROVE AnswersOK'
    BY <1>1, <1>5, ArriveStep
  <1>6. ASSUME NEW c \in Clients, NEW k \in DirectKeys, ArriveDirect(c, k) PROVE AnswersOK'
    <2>1. k \in Keys
      BY DEF Keys
    <2> QED
      BY <1>1, <1>6, <2>1, GetStep
  <1>7. ASSUME NEW c \in Clients, Disconnect(c) PROVE AnswersOK'
    BY <1>1, <1>7, EndStep
  <1>8. ASSUME NEW c \in Clients, Request(c) PROVE AnswersOK'
    <2>1. CASE TakeLast(c) \/ Recheck(c)
      BY <1>1, <2>1, ResolveStep
    <2>2. CASE Join(c)
      BY <1>1, <2>2, JoinStep
    <2>3. CASE Spawn(c)
      BY <1>1, <2>3, SpawnStep
    <2>4. CASE Orphan(c)
      BY <1>1, <2>4, EndStep
    <2>5. CASE Lookup(c)
      BY <1>1, <2>5, LookupStep
    <2>6. CASE Miss(c)
      <3>1. req[c].pc = "lookup" /\ ClientOK(c)
        BY <2>6 DEF Miss, AnswersOK
      <3>2. req[c].key \in Keys
        BY <3>1 DEF ClientOK
      <3>3. PICK k \in Keys : TRUE
        BY <3>2
      <3> QED
        BY <1>1, <2>6, <3>3, GetStep
    <2>7. CASE Fetched(c) \/ StoreAnswer(c)
      BY <1>1, <2>7, FetchStep
    <2> QED
      BY <1>8, <2>1, <2>2, <2>3, <2>4, <2>5, <2>6, <2>7 DEF Request
  <1>9. ASSUME NEW p \in Tasks, ProbeTask(p) \/ ProbeDies(p) PROVE AnswersOK'
    BY <1>1, <1>9, ProbeGetStep, ProbeEndStep DEF ProbeTask
  <1> QED
    BY <1>2, <1>3, <1>4, <1>5, <1>6, <1>7, <1>8, <1>9 DEF Next

-----------------------------------------------------------------------------
(* The counting of probes.  A set that gains or loses one element.         *)
LEMMA CountStep ==
    ASSUME NEW S, NEW T, NEW x, IsFiniteSet(S), T \subseteq S \cup {x}
    PROVE  /\ IsFiniteSet(T) /\ Cardinality(T) \in Nat /\ Cardinality(S) \in Nat
           /\ Cardinality(T) <= Cardinality(S) + 1
           /\ T \subseteq S => Cardinality(T) <= Cardinality(S)
           /\ T \subseteq S \ {x} /\ x \in S => Cardinality(T) + 1 <= Cardinality(S)
           /\ S \cup {x} \subseteq T /\ x \notin S => Cardinality(T) = Cardinality(S) + 1
  <1>1. /\ IsFiniteSet(S \cup {x}) /\ Cardinality(S) \in Nat
        /\ Cardinality(S \cup {x}) = IF x \in S THEN Cardinality(S) ELSE Cardinality(S) + 1
    BY FS_AddElement, FS_CardinalityType
  <1>2. /\ IsFiniteSet(S \ {x})
        /\ Cardinality(S \ {x}) = IF x \in S THEN Cardinality(S) - 1 ELSE Cardinality(S)
    BY FS_RemoveElement
  <1>3. IsFiniteSet(T) /\ Cardinality(T) <= Cardinality(S \cup {x})
    BY <1>1, FS_Subset
  <1>4. Cardinality(T) \in Nat
    BY <1>3, FS_CardinalityType
  <1>5. T \subseteq S => Cardinality(T) <= Cardinality(S)
    BY FS_Subset
  <1>6. T \subseteq S \ {x} => Cardinality(T) <= Cardinality(S \ {x})
    BY <1>2, FS_Subset
  <1>7. Cardinality(T) <= Cardinality(S) + 1
    BY <1>1, <1>3, <1>4
  <1>8. T \subseteq S \ {x} /\ x \in S => Cardinality(T) + 1 <= Cardinality(S)
    BY <1>1, <1>2, <1>4, <1>6
  <1>9. ASSUME S \cup {x} \subseteq T, x \notin S PROVE Cardinality(T) = Cardinality(S) + 1
    <2>1. T = S \cup {x}
      BY <1>9
    <2> QED
      BY <1>1, <1>9, <2>1
  <1> QED
    BY <1>1, <1>3, <1>4, <1>5, <1>7, <1>8, <1>9

(* The sets that are counted.                                              *)
LEMMA CountedSets ==
    /\ IsFiniteSet(Running) /\ IsFiniteSet(Failed)
    /\ Cardinality(Running) \in Nat /\ Cardinality(Failed) \in Nat
    /\ IsFiniteSet(Running') /\ IsFiniteSet(Failed')
    /\ Cardinality(Running') \in Nat /\ Cardinality(Failed') \in Nat
  <1>1. /\ Running \subseteq Tasks /\ Running' \subseteq Tasks
        /\ Failed \subseteq Clients /\ Failed' \subseteq Clients
    BY DEF Running, Failed
  <1>2. IsFiniteSet(Tasks) /\ IsFiniteSet(Clients)
    BY GatewayAssumption
  <1>3. IsFiniteSet(Running) /\ IsFiniteSet(Failed) /\ IsFiniteSet(Running') /\ IsFiniteSet(Failed')
    BY <1>1, <1>2, FS_Subset
  <1> QED
    BY <1>3, FS_CardinalityType

(* A request that ended stays as it ended.                                 *)
LEMMA DoneStays ==
    ASSUME TypeOK, [Next]_vars, NEW c \in Clients, req[c].pc = "done", call[c].st = "idle"
    PROVE  req'[c] = req[c]
  <1>1. req \in [Clients -> ReqType]
    BY TypeParts
  <1>2. ASSUME NEW x \in Clients, req[x].pc # "done", NEW v, req' = [req EXCEPT ![x] = v]
        PROVE  req'[c] = req[c]
    BY <1>1, <1>2
  <1>3. ASSUME NEW x \in Clients, NEW k, Arrive(x, k) \/ ArriveDirect(x, k) \/ Disconnect(x)
        PROVE  req'[c] = req[c]
    BY <1>1, <1>3 DEF Arrive, ArriveDirect, Disconnect, Done
  <1>4. ASSUME NEW x \in Clients, Request(x) PROVE req'[c] = req[c]
    <2>1. CASE TakeLast(x) \/ Join(x) \/ Recheck(x) \/ Spawn(x)
      BY <1>1, <2>1 DEF TakeLast, Join, Recheck, Spawn, Resolved, Done
    <2>2. CASE Orphan(x) \/ Lookup(x) \/ Miss(x) \/ StoreAnswer(x)
      BY <1>1, <2>2 DEF Orphan, Lookup, Miss, StoreAnswer, Done
    <2>3. CASE Fetched(x)
      <3>1. x # c
        BY <2>3 DEF Fetched
      <3> QED
        BY <1>1, <2>3, <3>1 DEF Fetched, Done
    <2> QED
      BY <1>4, <2>1, <2>2, <2>3 DEF Request
  <1>5. ASSUME NEW p, NEW pc, req' = Woken(p, pc) PROVE req'[c] = req[c]
    BY <1>5 DEF Woken
  <1>6. ASSUME NEW p \in Tasks, ProbeTask(p) \/ ProbeDies(p) PROVE req'[c] = req[c]
    BY <1>5, <1>6 DEF ProbeTask, ProbeSend, ProbeObserve, ProbeRecord, ProbeDies
  <1>7. ASSUME NEW o \in Owners, NodeAnswers(o) \/ NodeFails(o) PROVE req' = req
    BY <1>7 DEF NodeAnswers, NodeFails
  <1>8. Tick \/ Admit \/ RetainBody \/ Terminated \/ UNCHANGED vars => req' = req
    BY DEF Tick, Admit, RetainBody, Terminated, vars
  <1> QED
    BY <1>3, <1>4, <1>6, <1>7, <1>8 DEF Next

(* Every step keeps the count of probes within the failed receivers.       *)
LEMMA ProbesStep ==
    ASSUME AnswersOK, ProbesOK, [Next]_vars PROVE ProbesOK'
  <1>1. /\ TypeOK /\ ProbeTypes /\ call \in [Owners -> CallType] /\ req \in [Clients -> ReqType]
    BY TypeParts DEF AnswersOK
  <1>2. ASSUME NEW c \in Failed PROVE c \in Failed'
    <2>1. c \in Clients /\ req[c].pc = "done" /\ call[c] \in CallType /\ ClientOK(c)
      BY <1>1 DEF Failed, AnswersOK, Owners
    <2>2. call[c].st = "idle"
      BY <2>1 DEF ClientOK, CallType
    <2>3. req'[c] = req[c]
      BY <1>1, <2>1, <2>2, DoneStays
    <2> QED
      BY <2>3 DEF Failed
  <1> DEFINE n == Cardinality(Running)
             m == Cardinality(Running')
             f == Cardinality(Failed)
             h == Cardinality(Failed')
  <1>3. IsFiniteSet(Running) /\ IsFiniteSet(Failed) /\ IsFiniteSet(Failed')
        /\ n \in Nat /\ m \in Nat /\ f \in Nat /\ h \in Nat
    BY CountedSets
  <1>4. f <= h
    BY <1>2, <1>3, FS_Subset
  <1>5. n + (IF inflight = None THEN 1 ELSE 0) <= 1 + f
    BY DEF ProbesOK
  <1>6. SUFFICES m + (IF inflight' = None THEN 1 ELSE 0) <= 1 + h
    BY DEF ProbesOK
  <1>7. None \notin Tasks /\ Dead # None
    BY GatewayAssumption
  <1>8. ASSUME \A p \in Tasks : call[p].st = "idle" => call'[p].st = "idle",
               inflight' = inflight \/ inflight' # None
        PROVE  m + (IF inflight' = None THEN 1 ELSE 0) <= 1 + h
    <2>1. Running' \subseteq Running
      BY <1>8 DEF Running
    <2>2. m <= n
      BY <1>3, <2>1, FS_Subset
    <2> QED
      BY <1>3, <1>4, <1>5, <1>8, <2>2
  <1>9. ASSUME NEW c \in Clients, Spawn(c)
        PROVE  m + (IF inflight' = None THEN 1 ELSE 0) <= 1 + h
    <2>1. FreeTask \in Tasks /\ inflight' = FreeTask /\ inflight = None
          /\ call' = [call EXCEPT ![FreeTask] = [Idle EXCEPT !.st = "spawned", !.started = now]]
      BY <1>9, FreeTaskIsFree DEF Spawn
    <2>2. Running' \subseteq Running \cup {FreeTask}
      BY <1>1, <2>1 DEF Running, Owners
    <2>3. m <= n + 1
      BY <1>3, <2>2, CountStep
    <2> QED
      BY <1>3, <1>4, <1>5, <1>7, <2>1, <2>3
  <1>10. ASSUME NEW c \in Clients, Orphan(c)
         PROVE  m + (IF inflight' = None THEN 1 ELSE 0) <= 1 + h
    <2>1. call' = call /\ req' = Done(c, BadGateway) /\ req[c].pc = "orphan"
      BY <1>10 DEF Orphan
    <2>2. Running' = Running
      BY <2>1 DEF Running
    <2>3. c \notin Failed
      BY <2>1 DEF Failed
    <2>4. req'[c].pc = "done" /\ req'[c].out = BadGateway
      <3>1. req[c] \in ReqType
        BY <1>1
      <3>2. req'[c] = [req[c] EXCEPT !.pc = "done", !.out = BadGateway, !.on = None, !.digest = None]
        BY <1>1, <2>1 DEF Done
      <3> QED
        BY <3>1, <3>2 DEF ReqType
    <2>5. Failed \cup {c} \subseteq Failed'
      BY <1>2, <2>4 DEF Failed
    <2>6. IsFiniteSet(Failed \cup {c}) /\ Cardinality(Failed \cup {c}) = f + 1
      BY <1>3, <2>3, FS_AddElement
    <2>7. f + 1 <= h
      BY <1>3, <2>5, <2>6, FS_Subset
    <2>8. m = n
      BY <2>2
    <2> HIDE DEF n, m, f, h
    <2> QED
      BY <1>3, <1>5, <2>7, <2>8
  <1>11. ASSUME NEW p \in Tasks, ProbeRecord(p)
         PROVE  m + (IF inflight' = None THEN 1 ELSE 0) <= 1 + h
    <2>1. call[p].st = "held" /\ call' = [call EXCEPT ![p] = Idle]
      BY <1>11 DEF ProbeRecord
    <2>2. p \in Running /\ Running' \subseteq Running \ {p}
      <3>1. call'[p].st = "idle" /\ \A x \in Tasks \ {p} : call'[x] = call[x]
        BY <1>1, <2>1 DEF Owners, Idle
      <3> QED
        BY <2>1, <3>1 DEF Running
    <2>3. m + 1 <= n
      <3>1. Running' \subseteq Running \cup {p}
        BY <2>2
      <3> QED
        BY <1>3, <2>2, <3>1, CountStep
    <2> HIDE DEF n, m, f, h
    <2> QED
      BY <1>3, <1>4, <1>5, <2>3
  <1>12. ASSUME NEW o \in Owners, NEW v, call' = [call EXCEPT ![o] = v], call[o].st # "idle" \/ o \notin Tasks
         PROVE  \A p \in Tasks : call[p].st = "idle" => call'[p].st = "idle"
    BY <1>1, <1>12 DEF Owners
  <1>13. ASSUME NEW o \in Owners, NodeAnswers(o) \/ NodeFails(o)
         PROVE  m + (IF inflight' = None THEN 1 ELSE 0) <= 1 + h
    <2>1. call[o].st = "sent" /\ inflight' = inflight
          /\ \E v : call' = [call EXCEPT ![o].st = "replied", ![o].reply = v]
      BY <1>13 DEF NodeAnswers, NodeFails
    <2>2. \A p \in Tasks : call[p].st = "idle" => call'[p].st = "idle"
      BY <1>1, <2>1 DEF Owners
    <2> QED
      BY <1>8, <2>1, <2>2
  <1>14. ASSUME NEW c \in Clients, NEW k, Arrive(c, k) \/ ArriveDirect(c, k) \/ Disconnect(c)
         PROVE  m + (IF inflight' = None THEN 1 ELSE 0) <= 1 + h
    <2>1. inflight' = inflight /\ (call' = call \/ \E v : call' = [call EXCEPT ![c] = v])
      BY <1>14 DEF Arrive, ArriveDirect, Disconnect, Get
    <2>2. c \in Owners /\ c \notin Tasks
      BY GatewayAssumption DEF Owners
    <2>3. \A p \in Tasks : call[p].st = "idle" => call'[p].st = "idle"
      BY <1>12, <2>1, <2>2
    <2> QED
      BY <1>8, <2>1, <2>3
  <1>15. ASSUME NEW c \in Clients, Request(c)
         PROVE  m + (IF inflight' = None THEN 1 ELSE 0) <= 1 + h
    <2>1. CASE TakeLast(c) \/ Join(c) \/ Recheck(c) \/ Lookup(c)
      <3>1. call' = call /\ inflight' = inflight
        BY <2>1 DEF TakeLast, Join, Recheck, Lookup
      <3> QED
        BY <1>8, <3>1
    <2>2. CASE Miss(c) \/ Fetched(c) \/ StoreAnswer(c)
      <3>1. inflight' = inflight /\ \E v : call' = [call EXCEPT ![c] = v]
        <4>1. CASE Miss(c)
          BY <4>1 DEF Miss, Get
        <4>2. CASE StoreAnswer(c)
          BY <4>2 DEF StoreAnswer
        <4>3. CASE Fetched(c)
          <5>1. \/ call' = [call EXCEPT ![c] = Idle] \/ call' = [call EXCEPT ![c].st = "held"]
            BY <4>3 DEF Fetched
          <5>2. [call EXCEPT ![c].st = "held"] = [call EXCEPT ![c] = [call[c] EXCEPT !.st = "held"]]
            OBVIOUS
          <5> QED
            BY <4>3, <5>1, <5>2 DEF Fetched
        <4> QED
          BY <2>2, <4>1, <4>2, <4>3
      <3>2. c \in Owners /\ c \notin Tasks
        BY GatewayAssumption DEF Owners
      <3>3. \A p \in Tasks : call[p].st = "idle" => call'[p].st = "idle"
        BY <1>12, <3>1, <3>2
      <3> QED
        BY <1>8, <3>1, <3>3
    <2> QED
      BY <1>9, <1>10, <1>15, <2>1, <2>2 DEF Request
  <1>16. ASSUME NEW p \in Tasks, ProbeSend(p) \/ ProbeObserve(p) \/ ProbeDies(p)
         PROVE  m + (IF inflight' = None THEN 1 ELSE 0) <= 1 + h
    <2>1. /\ call[p].st # "idle" /\ p \in Owners /\ (inflight' = inflight \/ inflight' # None)
          /\ \A x \in Tasks \ {p} : call'[x] = call[x]
      BY <1>1, <1>7, <1>16 DEF ProbeSend, ProbeObserve, ProbeDies, Get, Owners
    <2>2. \A x \in Tasks : call[x].st = "idle" => call'[x].st = "idle"
      BY <2>1
    <2> QED
      BY <1>8, <2>1, <2>2
  <1>17. ASSUME Tick \/ Admit \/ RetainBody \/ Terminated \/ UNCHANGED vars
         PROVE  m + (IF inflight' = None THEN 1 ELSE 0) <= 1 + h
    <2>1. call' = call /\ inflight' = inflight
      BY <1>17 DEF Tick, Admit, RetainBody, Terminated, vars
    <2> QED
      BY <1>8, <2>1
  <1> HIDE DEF m, h
  <1> QED
    BY <1>11, <1>13, <1>14, <1>15, <1>16, <1>17 DEF Next, ProbeTask

-----------------------------------------------------------------------------
(* The probe slot while no task has died.  A step that leaves the probes   *)
(* and their slot as they are.                                             *)
Steady ==
    /\ inflight' = inflight /\ last' = last
    /\ \A p \in Tasks : /\ call[p].st = "idle" <=> call'[p].st = "idle"
                        /\ call'[p].started = call[p].started

LEMMA SteadySlot ==
    ASSUME SlotOK, Steady, \A c \in Clients : req'[c] = req[c] \/ WaitsOK(c)'
    PROVE  SlotOK'
  <1>1. Running' = Running
    BY DEF Steady, Running
  <1>2. ASSUME NEW c \in Clients PROVE WaitsOK(c)'
    <2>1. CASE req'[c] = req[c]
      <3>1. WaitsOK(c)
        BY DEF SlotOK
      <3>2. inflight \in Running => inflight \in Tasks
        BY DEF Running
      <3> QED
        BY <1>1, <2>1, <3>1, <3>2 DEF WaitsOK, Steady
    <2> QED
      BY <2>1
  <1>3. \A p \in Running : p \in Tasks
    BY DEF Running
  <1> QED
    BY <1>1, <1>2, <1>3 DEF SlotOK, Steady

(* A request that neither loops nor waits.                                 *)
LEMMA WaitsOver ==
    ASSUME NEW c \in Clients, WaitsOK(c), req'[c].waits = req[c].waits,
           req'[c].pc \in {"lookup", "fetch", "store", "done"}
    PROVE  WaitsOK(c)'
  BY DEF WaitsOK

(* A step that changes one request and no probe.                           *)
LEMMA SteadyClient ==
    ASSUME SlotOK, NEW c \in Clients, inflight' = inflight, last' = last,
           call \in [Owners -> CallType], req \in [Clients -> ReqType],
           call' = call \/ \E v : call' = [call EXCEPT ![c] = v],
           \E r : /\ req' = [req EXCEPT ![c] = r] /\ r.waits = req[c].waits
                  /\ r.pc \in {"lookup", "fetch", "store", "done"}
    PROVE  SlotOK'
  <1>1. c \notin Tasks
    BY GatewayAssumption
  <1>2. Steady
    BY <1>1 DEF Steady, Owners
  <1>3. WaitsOK(c)
    BY DEF SlotOK
  <1>4. PICK r : /\ req' = [req EXCEPT ![c] = r] /\ r.waits = req[c].waits
                 /\ r.pc \in {"lookup", "fetch", "store", "done"}
    OBVIOUS
  <1>5. req'[c] = r /\ \A x \in Clients \ {c} : req'[x] = req[x]
    BY <1>4
  <1>6. WaitsOK(c)'
    BY <1>3, <1>4, <1>5, WaitsOver
  <1> QED
    BY <1>2, <1>5, <1>6, SteadySlot

(* Done and Resolved leave the count of waits.                             *)
LEMMA DoneWaits ==
    ASSUME req \in [Clients -> ReqType], NEW c \in Clients, NEW out,
           req' = Done(c, out) \/ req' = Resolved(c, out)
    PROVE  \E r : /\ req' = [req EXCEPT ![c] = r] /\ r.waits = req[c].waits
                  /\ r.pc \in {"lookup", "fetch", "store", "done"}
  <1> DEFINE d == [req[c] EXCEPT !.pc = "done", !.out = out, !.on = None, !.digest = None]
             l == [req[c] EXCEPT !.pc = "lookup", !.digest = out, !.on = None]
  <1>1. req[c] \in ReqType
    OBVIOUS
  <1>2. d.waits = req[c].waits /\ d.pc = "done" /\ l.waits = req[c].waits /\ l.pc = "lookup"
    BY <1>1 DEF ReqType
  <1>3. req' = [req EXCEPT ![c] = d] \/ req' = [req EXCEPT ![c] = l]
    BY DEF Done, Resolved
  <1> HIDE DEF d, l
  <1> QED
    BY <1>2, <1>3

(* No request waits for a third probe.                                     *)
LEMMA WaitsBelowTwo ==
    ASSUME SlotOK, NEW c \in Clients, req[c].pc = "loop", ~LastAnswers(c), req[c] \in ReqType,
           ProbeTypes
    PROVE  req[c].waits \in {0, 1}
  <1>1. WaitsOK(c) /\ req[c].waits \in Nat /\ req[c].arrived \in Int
    BY Constants DEF SlotOK, ReqType
  <1>2. last # None => last.started \in Int
    BY Constants DEF ProbeTypes
  <1>3. req[c].waits # 2
    BY <1>1, <1>2 DEF WaitsOK, LastAnswers
  <1>4. req[c].waits <= 2
    BY <1>1 DEF WaitsOK
  <1> QED
    BY <1>1, <1>3, <1>4

LEMMA SlotJoin ==
    ASSUME SlotOK, AnswersOK, NEW c \in Clients, Join(c) PROVE SlotOK'
  <1>1. /\ req \in [Clients -> ReqType] /\ req[c] \in ReqType /\ ProbeTypes
    BY TypeParts DEF AnswersOK
  <1>2. /\ inflight' = inflight /\ last' = last /\ call' = call /\ req[c].pc = "loop"
        /\ ~LastAnswers(c) /\ inflight # None
    BY DEF Join
  <1>3. inflight \in Tasks /\ inflight \in Running /\ inflight # Dead
    BY <1>1, <1>2 DEF SlotOK, ProbeTypes
  <1>4. req[c].waits \in {0, 1} /\ WaitsOK(c)
    BY <1>1, <1>2, WaitsBelowTwo DEF SlotOK
  <1> DEFINE r == [req[c] EXCEPT !.waits = req[c].waits + 1, !.on = inflight, !.pc = "wait"]
  <1>5. /\ r.pc = "wait" /\ r.waits = req[c].waits + 1 /\ r.on = inflight
        /\ r.arrived = req[c].arrived
    BY <1>1 DEF ReqType
  <1>6. req' = [req EXCEPT ![c] = r]
    BY <1>3 DEF Join
  <1> HIDE DEF r
  <1>7. req'[c] = r /\ \A x \in Clients \ {c} : req'[x] = req[x]
    BY <1>1, <1>6
  <1>8. Running' = Running
    BY <1>2 DEF Running
  <1>9. r.waits \in {1, 2} /\ (r.waits = 2 => req[c].waits = 1)
    BY <1>4, <1>5
  <1>10. r.waits = 2 => req[c].arrived <= call[inflight].started
    BY <1>2, <1>3, <1>4, <1>9 DEF WaitsOK
  <1>11. r.waits <= 2
    BY <1>9
  <1>12. WaitsOK(c)'
    BY <1>2, <1>3, <1>5, <1>7, <1>8, <1>10, <1>11 DEF WaitsOK
  <1>13. Steady
    BY <1>2 DEF Steady
  <1> QED
    BY <1>7, <1>12, <1>13, SteadySlot

LEMMA SlotSpawn ==
    ASSUME SlotOK, AnswersOK, NEW c \in Clients, Spawn(c) PROVE SlotOK'
  <1>1. /\ req \in [Clients -> ReqType] /\ req[c] \in ReqType /\ ProbeTypes
        /\ call \in [Owners -> CallType] /\ now \in 0..MaxTime /\ now \in Int
    BY TypeParts, Constants DEF AnswersOK, NodeTypes
  <1>2. /\ last' = last /\ inflight = None /\ req[c].pc = "loop" /\ ~LastAnswers(c)
    BY DEF Spawn
  <1>3. PICK p : p = FreeTask
    OBVIOUS
  <1>4. /\ p \in Tasks /\ inflight' = p
        /\ call' = [call EXCEPT ![p] = [Idle EXCEPT !.st = "spawned", !.started = now]]
        /\ req' = [req EXCEPT ![c] = [@ EXCEPT !.waits = req[c].waits + 1, !.on = p, !.pc = "wait"]]
    BY <1>3, FreeTaskIsFree DEF Spawn
  <1>5. p # None /\ p # Dead /\ None \notin Tasks
    BY <1>4, GatewayAssumption
  <1>6. Running = {}
    BY <1>2, <1>5 DEF SlotOK, Running
  <1>7. /\ call'[p].st = "spawned" /\ call'[p].started = now
        /\ \A x \in Tasks \ {p} : call'[x] = call[x]
    <2> DEFINE g == [Idle EXCEPT !.st = "spawned", !.started = now]
    <2>1. g.st = "spawned" /\ g.started = now
      BY DEF Idle
    <2> HIDE DEF g
    <2> QED
      BY <1>1, <1>4, <2>1 DEF g, Owners
  <1>8. Running' = {p}
    BY <1>4, <1>6, <1>7 DEF Running
  <1>9. req[c].waits \in {0, 1}
    BY <1>1, <1>2, WaitsBelowTwo
  <1> DEFINE r == [req[c] EXCEPT !.waits = req[c].waits + 1, !.on = p, !.pc = "wait"]
  <1>10. /\ r.pc = "wait" /\ r.waits = req[c].waits + 1 /\ r.on = p
         /\ r.arrived = req[c].arrived
    BY <1>1 DEF ReqType
  <1>11. req' = [req EXCEPT ![c] = r]
    BY <1>4
  <1> HIDE DEF r
  <1>12. req'[c] = r /\ \A x \in Clients \ {c} : req'[x] = req[x]
    BY <1>1, <1>11
  <1>13. ASSUME NEW x \in Clients PROVE WaitsOK(x)'
    <2>1. req[x].arrived <= now
      BY DEF AnswersOK, ClientOK
    <2>2. CASE x = c
      <3>1. r.waits <= 2
        BY <1>9, <1>10
      <3>2. req'[x] = r /\ r.arrived <= call'[p].started
        BY <1>7, <1>10, <1>12, <2>1, <2>2
      <3> QED
        BY <1>4, <1>8, <1>10, <3>1, <3>2 DEF WaitsOK
    <2>3. CASE x # c
      <3>1. req'[x] = req[x] /\ WaitsOK(x)
        BY <1>12, <2>3 DEF SlotOK
      <3>2. req[x].pc # "wait"
        BY <1>6, <3>1 DEF WaitsOK
      <3>3. req[x].arrived <= call'[p].started
        BY <1>7, <2>1
      <3> QED
        BY <1>2, <1>4, <3>1, <3>2, <3>3 DEF WaitsOK
    <2> QED
      BY <2>2, <2>3
  <1>14. last # None => last.started <= call'[p].started
    BY <1>7 DEF AnswersOK, ClockOK
  <1> QED
    BY <1>2, <1>4, <1>5, <1>8, <1>13, <1>14 DEF SlotOK

LEMMA SlotRecord ==
    ASSUME SlotOK, AnswersOK, NEW p \in Tasks, ProbeRecord(p), ProbeTypes' PROVE SlotOK'
  <1>1. /\ req \in [Clients -> ReqType] /\ ProbeTypes /\ call \in [Owners -> CallType]
        /\ call[p] \in CallType
    BY TypeParts DEF AnswersOK, Owners
  <1>2. PICK s, v : s = call[p].started /\ v = Outcome(p)
    OBVIOUS
  <1>3. /\ last' = [started |-> s, outcome |-> v] /\ call[p].st = "held" /\ inflight' = None
        /\ call' = [call EXCEPT ![p] = Idle] /\ req' = Woken(p, "loop")
    BY <1>2 DEF ProbeRecord
  <1>4. /\ None \notin Tasks /\ None # Dead
    BY GatewayAssumption
  <1>5. p \in Running /\ inflight = p /\ (last # None => last.started <= s)
    BY <1>2, <1>3 DEF SlotOK, Running
  <1>6. last'.started = s /\ s \in 0..MaxTime /\ s \in Int
    BY <1>1, <1>2, <1>3, Constants DEF CallType
  <1>7. last' # None
    <2>1. s \in Nat /\ v \in Nat \cup Failures
      <3>1. last' \in [started : 0..MaxTime, outcome : Nat \cup Failures] \cup {None}
        BY DEF ProbeTypes
      <3>2. CASE last' = None
        <4>1. v \in Nat \cup Failures
          <5>1. CASE call[p].reply \in Failures
            BY <1>2, <5>1 DEF Outcome
          <5>2. CASE call[p].reply \notin Failures
            BY <1>2, <1>3, <5>2, ReplyBack DEF Outcome, Owners
          <5> QED
            BY <5>1, <5>2
        <4> QED
          BY <1>6, <4>1, Constants
      <3>3. CASE last' # None
        BY <1>3, <1>6, <3>1, <3>3, Constants
      <3> QED
        BY <3>2, <3>3
    <2>2. last' \in [started : Nat, outcome : Nat \cup Failures]
      BY <1>3, <2>1
    <2> QED
      BY <2>2, GatewayAssumption
  <1>8. Running' = {}
    <2>1. \A x \in Tasks : x # p => call[x].st = "idle"
      BY <1>5 DEF SlotOK, Running
    <2>2. \A x \in Tasks : call'[x].st = "idle"
      BY <1>1, <1>3, <2>1 DEF Owners, Idle
    <2> QED
      BY <2>2 DEF Running
  <1>9. ASSUME NEW c \in Clients PROVE WaitsOK(c)'
    <2>1. WaitsOK(c) /\ req[c] \in ReqType /\ req[c].arrived \in Int /\ req[c].waits \in Nat
      BY <1>1, Constants DEF SlotOK, ReqType
    <2>2. CASE req[c].pc = "wait"
      <3> DEFINE r == [req[c] EXCEPT !.pc = "loop", !.on = None]
      <3>1. req[c].on = p
        BY <1>5, <2>1, <2>2 DEF WaitsOK
      <3>2. req'[c] = r
        BY <1>3, <2>2, <3>1 DEF Woken
      <3>3. r.pc = "loop" /\ r.waits = req[c].waits /\ r.arrived = req[c].arrived
        BY <2>1 DEF ReqType
      <3> HIDE DEF r
      <3>4. req[c].waits = 2 => req[c].arrived <= s
        BY <1>2, <1>5, <2>1, <2>2 DEF WaitsOK
      <3>5. req[c].waits <= 2
        BY <2>1 DEF WaitsOK
      <3> QED
        BY <1>3, <1>4, <1>6, <1>7, <3>2, <3>3, <3>4, <3>5 DEF WaitsOK
    <2>3. CASE req[c].pc # "wait"
      <3>1. req'[c] = req[c]
        BY <1>3, <2>3 DEF Woken
      <3>2. req[c].pc = "loop" /\ req[c].waits = 2 => req[c].arrived <= s
        <4>1. last # None => last.started \in Int
          BY <1>1, Constants DEF ProbeTypes
        <4> QED
          BY <1>5, <1>6, <2>1, <4>1 DEF WaitsOK
      <3> QED
        BY <1>3, <1>4, <1>6, <1>7, <2>1, <2>3, <3>1, <3>2 DEF WaitsOK
    <2> QED
      BY <2>2, <2>3
  <1> QED
    BY <1>3, <1>4, <1>8, <1>9 DEF SlotOK

(* Every step keeps the slot, as long as no probe task dies.               *)
LEMMA SlotStep ==
    ASSUME SlotOK, AnswersOK, AnswersOK', [Next]_vars, deaths \in Nat, deaths' = 0
    PROVE  SlotOK'
  <1>1. /\ req \in [Clients -> ReqType] /\ call \in [Owners -> CallType] /\ ProbeTypes'
    BY TypeParts DEF AnswersOK
  <1>2. ASSUME Steady, req' = req PROVE SlotOK'
    BY <1>2, SteadySlot
  <1>3. Tick \/ Admit \/ RetainBody \/ Terminated \/ UNCHANGED vars => Steady /\ req' = req
    BY DEF Tick, Admit, RetainBody, Terminated, vars, Steady
  <1>4. ASSUME NEW o \in Owners, NodeAnswers(o) \/ NodeFails(o) PROVE SlotOK'
    <2>1. PICK v : call' = [call EXCEPT ![o].st = "replied", ![o].reply = v]
      BY <1>4 DEF NodeAnswers, NodeFails
    <2>2. call[o].st = "sent" /\ inflight' = inflight /\ last' = last /\ req' = req
      BY <1>4 DEF NodeAnswers, NodeFails
    <2> DEFINE g == [call[o] EXCEPT !.st = "replied", !.reply = v]
    <2>3. g.st = "replied" /\ g.started = call[o].started
      <3>1. call[o] \in CallType
        BY <1>1
      <3> QED
        BY <3>1 DEF CallType
    <2>4. call' = [call EXCEPT ![o] = g]
      BY <2>1
    <2> HIDE DEF g
    <2>5. call'[o] = g /\ \A x \in Owners \ {o} : call'[x] = call[x]
      BY <1>1, <2>4
    <2>6. Steady
      BY <2>2, <2>3, <2>5 DEF Steady, Owners
    <2> QED
      BY <1>2, <2>2, <2>6
  <1>5. ASSUME NEW c \in Clients, NEW k, Arrive(c, k) PROVE SlotOK'
    <2>1. /\ req[c].pc = "idle" /\ call' = call /\ inflight' = inflight /\ last' = last
      BY <1>5 DEF Arrive
    <2>2. PICK d : d = FreshDigest(cache, now)
      OBVIOUS
    <2> DEFINE r == [req[c] EXCEPT !.key = k, !.arrived = now,
                       !.pc = IF d = None THEN "loop" ELSE "lookup", !.digest = d]
    <2>3. req' = [req EXCEPT ![c] = r]
      BY <1>5, <2>2 DEF Arrive
    <2>4. req[c] \in ReqType /\ WaitsOK(c)
      BY <1>1 DEF SlotOK
    <2>5. r.pc \in {"loop", "lookup"} /\ r.waits = req[c].waits
      BY <2>4 DEF ReqType
    <2> HIDE DEF r
    <2>6. req'[c] = r /\ \A x \in Clients \ {c} : req'[x] = req[x]
      BY <1>1, <2>3
    <2>7. req[c].waits = 0
      BY <2>1, <2>4 DEF WaitsOK
    <2>8. WaitsOK(c)'
      BY <2>5, <2>6, <2>7 DEF WaitsOK
    <2>9. Steady
      BY <2>1 DEF Steady
    <2> QED
      BY <2>6, <2>8, <2>9, SteadySlot
  <1>6. ASSUME NEW c \in Clients, NEW k, ArriveDirect(c, k) PROVE SlotOK'
    <2> DEFINE r == [req[c] EXCEPT !.key = k, !.arrived = now, !.pc = "fetch"]
    <2>1. req[c] \in ReqType
      BY <1>1
    <2>2. req' = [req EXCEPT ![c] = r] /\ inflight' = inflight /\ last' = last
      BY <1>6 DEF ArriveDirect
    <2>3. r.waits = req[c].waits /\ r.pc = "fetch"
      BY <2>1 DEF ReqType
    <2>4. \E v : call' = [call EXCEPT ![c] = v]
      BY <1>6 DEF ArriveDirect, Get
    <2> HIDE DEF r
    <2>5. \E x : /\ req' = [req EXCEPT ![c] = x] /\ x.waits = req[c].waits
                 /\ x.pc \in {"lookup", "fetch", "store", "done"}
      BY <2>2, <2>3
    <2> QED
      BY <1>1, <2>2, <2>4, <2>5, SteadyClient
  <1>7. ASSUME NEW c \in Clients, Disconnect(c) PROVE SlotOK'
    <2>1. /\ req' = Done(c, Gone) /\ inflight' = inflight /\ last' = last
          /\ \E v : call' = [call EXCEPT ![c] = v]
      BY <1>7 DEF Disconnect
    <2>2. \E x : /\ req' = [req EXCEPT ![c] = x] /\ x.waits = req[c].waits
                 /\ x.pc \in {"lookup", "fetch", "store", "done"}
      BY <1>1, <2>1, DoneWaits
    <2> QED
      BY <1>1, <2>1, <2>2, SteadyClient
  <1>8. ASSUME NEW c \in Clients, Request(c) PROVE SlotOK'
    <2>1. CASE TakeLast(c) \/ Recheck(c) \/ Lookup(c) \/ StoreAnswer(c)
      <3>1. /\ \E v : req' = Done(c, v) \/ req' = Resolved(c, v)
            /\ inflight' = inflight /\ last' = last
            /\ call' = call \/ \E v : call' = [call EXCEPT ![c] = v]
        BY <2>1 DEF TakeLast, Recheck, Lookup, StoreAnswer
      <3>2. \E x : /\ req' = [req EXCEPT ![c] = x] /\ x.waits = req[c].waits
                   /\ x.pc \in {"lookup", "fetch", "store", "done"}
        BY <1>1, <3>1, DoneWaits
      <3> QED
        BY <1>1, <3>1, <3>2, SteadyClient
    <2>2. CASE Miss(c) \/ Fetched(c)
      <3>1. req[c] \in ReqType
        BY <1>1
      <3>2. inflight' = inflight /\ last' = last
        BY <2>2 DEF Miss, Fetched
      <3>3. \E v : call' = [call EXCEPT ![c] = v]
        <4>1. CASE Miss(c)
          BY <4>1 DEF Miss, Get
        <4>2. CASE Fetched(c)
          <5>1. \/ call' = [call EXCEPT ![c] = Idle] \/ call' = [call EXCEPT ![c].st = "held"]
            BY <4>2 DEF Fetched
          <5>2. [call EXCEPT ![c].st = "held"] = [call EXCEPT ![c] = [call[c] EXCEPT !.st = "held"]]
            OBVIOUS
          <5> QED
            BY <5>1, <5>2
        <4> QED
          BY <2>2, <4>1, <4>2
      <3>4. \E x : /\ req' = [req EXCEPT ![c] = x] /\ x.waits = req[c].waits
                   /\ x.pc \in {"lookup", "fetch", "store", "done"}
        <4>1. ASSUME NEW pc \in {"fetch", "store"}, req' = [req EXCEPT ![c].pc = pc]
              PROVE  \E x : /\ req' = [req EXCEPT ![c] = x] /\ x.waits = req[c].waits
                            /\ x.pc \in {"lookup", "fetch", "store", "done"}
          <5> DEFINE r == [req[c] EXCEPT !.pc = pc]
          <5>1. req' = [req EXCEPT ![c] = r]
            BY <4>1
          <5>2. r.waits = req[c].waits /\ r.pc = pc
            BY <3>1 DEF ReqType
          <5> HIDE DEF r
          <5> QED
            BY <5>1, <5>2
        <4>2. CASE Miss(c)
          <5>1. req' = [req EXCEPT ![c].pc = "fetch"]
            BY <4>2 DEF Miss
          <5> QED
            BY <4>1, <5>1
        <4>3. CASE Fetched(c)
          <5>1. req' = Done(c, call[c].reply) \/ req' = [req EXCEPT ![c].pc = "store"]
            BY <4>3 DEF Fetched
          <5> QED
            BY <1>1, <4>1, <5>1, DoneWaits
        <4> QED
          BY <2>2, <4>2, <4>3
      <3> QED
        BY <1>1, <3>2, <3>3, <3>4, SteadyClient
    <2>3. CASE Join(c)
      BY <2>3, SlotJoin
    <2>4. CASE Spawn(c)
      BY <2>4, SlotSpawn
    <2>5. CASE Orphan(c)
      <3>1. req[c].pc = "orphan" /\ WaitsOK(c)
        BY <2>5 DEF Orphan, SlotOK
      <3> QED
        BY <3>1 DEF WaitsOK
    <2> QED
      BY <1>8, <2>1, <2>2, <2>3, <2>4, <2>5 DEF Request
  <1>9. ASSUME NEW p \in Tasks, ProbeSend(p) \/ ProbeObserve(p) PROVE SlotOK'
    <2>1. p \in Owners /\ call[p] \in CallType
      BY <1>1 DEF Owners
    <2>2. inflight' = inflight /\ last' = last /\ req' = req /\ call[p].st # "idle"
      BY <1>9 DEF ProbeSend, ProbeObserve
    <2>3. /\ call'[p].st # "idle" /\ call'[p].started = call[p].started
          /\ \A x \in Tasks \ {p} : call'[x] = call[x]
      <3>1. CASE ProbeSend(p)
        <4> DEFINE g == [call[p] EXCEPT !.st = "sent", !.requested = now]
        <4>1. g.st = "sent" /\ g.started = call[p].started
          BY <2>1 DEF CallType
        <4>2. call' = [call EXCEPT ![p] = g]
          BY <3>1 DEF ProbeSend, Get
        <4> HIDE DEF g
        <4> QED
          BY <1>1, <2>1, <4>1, <4>2 DEF Owners
      <3>2. CASE ProbeObserve(p)
        <4> DEFINE g == [call[p] EXCEPT !.st = "held"]
        <4>1. g.st = "held" /\ g.started = call[p].started
          BY <2>1 DEF CallType
        <4>2. call' = [call EXCEPT ![p] = g]
          BY <3>2 DEF ProbeObserve
        <4> HIDE DEF g
        <4> QED
          BY <1>1, <2>1, <4>1, <4>2 DEF Owners
      <3> QED
        BY <1>9, <3>1, <3>2
    <2>4. Steady
      BY <2>2, <2>3 DEF Steady
    <2> QED
      BY <1>2, <2>2, <2>4
  <1>10. ASSUME NEW p \in Tasks, ProbeRecord(p) PROVE SlotOK'
    BY <1>1, <1>10, SlotRecord
  <1>11. ASSUME NEW p \in Tasks, ProbeDies(p) PROVE FALSE
    BY <1>11 DEF ProbeDies
  <1> QED
    BY <1>2, <1>3, <1>4, <1>5, <1>6, <1>7, <1>8, <1>9, <1>10, <1>11 DEF Next, ProbeTask

(* The number of deaths only grows.                                        *)
LEMMA DeathsStep ==
    ASSUME deaths \in Nat, [Next]_vars PROVE deaths' \in Nat /\ (deaths' = 0 => deaths = 0)
  <1>1. ASSUME NEW c \in Clients, Request(c) PROVE deaths' = deaths
    BY <1>1 DEF Request, TakeLast, Join, Recheck, Spawn, Orphan, Lookup, Miss, Fetched, StoreAnswer
  <1>2. ASSUME NEW c \in Clients, NEW k, Arrive(c, k) \/ ArriveDirect(c, k) \/ Disconnect(c)
        PROVE  deaths' = deaths
    BY <1>2 DEF Arrive, ArriveDirect, Disconnect
  <1>3. ASSUME NEW o \in Owners, NodeAnswers(o) \/ NodeFails(o) PROVE deaths' = deaths
    BY <1>3 DEF NodeAnswers, NodeFails
  <1>4. ASSUME NEW p \in Tasks, ProbeTask(p) PROVE deaths' = deaths
    BY <1>4 DEF ProbeTask, ProbeSend, ProbeObserve, ProbeRecord
  <1>5. ASSUME NEW p \in Tasks, ProbeDies(p) PROVE deaths' = deaths + 1
    BY <1>5 DEF ProbeDies
  <1>6. Tick \/ Admit \/ RetainBody \/ Terminated \/ UNCHANGED vars => deaths' = deaths
    BY DEF Tick, Admit, RetainBody, Terminated, vars
  <1>7. deaths' = deaths \/ deaths' = deaths + 1
    BY <1>1, <1>2, <1>3, <1>4, <1>5, <1>6 DEF Next
  <1> QED
    BY <1>7

-----------------------------------------------------------------------------
(* A gateway that has just started.                                        *)
LEMMA InitInv == Init => IInv
  <1> SUFFICES ASSUME Init PROVE IInv
    OBVIOUS
  <1>1. Idle \in CallType /\ Idle.st = "idle" /\ Fresh \in ReqType /\ Fresh.pc = "idle"
        /\ Fresh.waits = 0 /\ Fresh.arrived = 0
    BY Constants DEF Idle, CallType, Fresh, ReqType
  <1>2. /\ call \in [Owners -> CallType] /\ req \in [Clients -> ReqType]
        /\ \A o \in Owners : call[o].st = "idle"
        /\ \A c \in Clients : req[c].pc = "idle" /\ req[c].waits = 0 /\ req[c].arrived = 0
    BY <1>1 DEF Init
  <1>3. /\ CacheOK(Empty, Cacheable) /\ DOMAIN Empty.entries = {} /\ Empty.gen = None
    BY Constants, RenewKeeps
  <1>4. NodeTypes /\ ProbeTypes /\ CacheTypes
    <2>1. NodeTypes
      <3>1. MaxTime \in Nat /\ admits = <<>> /\ body = FALSE /\ now = 0 /\ answered = -1
        BY Constants DEF Init
      <3>2. 0 \in 0..MaxTime /\ -1 \in -1..MaxTime
        BY <3>1
      <3>3. <<>> \in Seq(0..MaxTime) /\ FALSE \in BOOLEAN
        OBVIOUS
      <3> QED
        BY <3>1, <3>2, <3>3, Zenon DEF NodeTypes
    <2>2. ProbeTypes
      BY DEF Init, ProbeTypes
    <2>3. CacheTypes
      BY <1>3 DEF Init, CacheTypes
    <2> QED
      BY <2>1, <2>2, <2>3
  <1>5. TypeOK
    BY <1>2, <1>4, TypeParts
  <1>6. ClockOK
    BY DEF Init, ClockOK
  <1>7. SharedOK
    BY <1>3 DEF Init, SharedOK, EntriesShareOneDigest
  <1>8. \A c \in Clients : ClientOK(c)
    BY <1>2 DEF Init, ClientOK, Answered, Owners
  <1>9. \A p \in Tasks : TaskOK(p)
    BY <1>2 DEF TaskOK, Owners
  <1>10. Running = {}
    BY <1>2 DEF Running, Owners
  <1>11. Cardinality(Running) = 0 /\ Cardinality(Failed) \in Nat
    BY <1>10, FS_EmptySet, CountedSets
  <1>12. ProbesOK
    BY <1>11 DEF Init, ProbesOK
  <1>13. SlotOK
    <2>1. None # Dead /\ None \notin Tasks
      BY GatewayAssumption
    <2>2. \A c \in Clients : WaitsOK(c)
      BY <1>2 DEF WaitsOK
    <2> QED
      BY <1>10, <2>1, <2>2 DEF Init, SlotOK
  <1>14. deaths \in Nat
    BY DEF Init
  <1> QED
    BY <1>5, <1>6, <1>7, <1>8, <1>9, <1>12, <1>13, <1>14 DEF IInv, AnswersOK

LEMMA InvStep == IInv /\ [Next]_vars => IInv'
  <1> SUFFICES ASSUME IInv, [Next]_vars PROVE IInv'
    OBVIOUS
  <1>1. AnswersOK /\ ProbesOK /\ deaths \in Nat /\ (deaths = 0 => SlotOK)
    BY DEF IInv
  <1>2. AnswersOK'
    BY <1>1, AnswersStep
  <1>3. ProbesOK'
    BY <1>1, ProbesStep
  <1>4. deaths' \in Nat /\ (deaths' = 0 => deaths = 0)
    BY <1>1, DeathsStep
  <1>5. deaths' = 0 => SlotOK'
    BY <1>1, <1>2, <1>4, SlotStep
  <1> QED
    BY <1>2, <1>3, <1>4, <1>5 DEF IInv

(* The evidence behind every digest, the accounts of the cache and the      *)
(* count of probes are invariant (lib.rs, cache.rs).                       *)
THEOREM Invariance == Spec => []IInv
  BY InitInv, InvStep, PTL DEF Spec

(* PUBLIC-ACCESS.md, cache.rs: whatever mix of cached digests, shared      *)
(* probes, hits and slow node answers a request met, its answer covers     *)
(* every admission older than the freshness window when it arrived.        *)
THEOREM AdmissionsBecomeVisible == Spec => []AdmitIsVisible
  <1>1. IInv => AdmitIsVisible
    <2> SUFFICES ASSUME IInv, NEW c \in Clients, Answered(c), req[c].key \in Cacheable,
                        NEW n \in DOMAIN admits, admits[n] < req[c].arrived - Freshness
                 PROVE  req[c].out.digest >= n
      BY DEF AdmitIsVisible
    <2>1. Evidence(req[c].out.digest, req[c].arrived - Freshness)
      BY DEF IInv, AnswersOK, ClientOK
    <2> QED
      BY <2>1 DEF Evidence
  <1> QED
    BY <1>1, Invariance, PTL

(* lib.rs: a node that has been down for longer than the window is visible:*)
(* an answer implies that it answered some read since.                     *)
THEOREM OutagesBecomeVisible == Spec => []OutageIsVisible
  <1>1. IInv => OutageIsVisible
    <2> SUFFICES ASSUME IInv, NEW c \in Clients, Answered(c)
                 PROVE  answered > req[c].arrived - Freshness - 1
      BY DEF OutageIsVisible
    <2>1. req[c].arrived - Freshness <= answered
      BY DEF IInv, AnswersOK, ClientOK
    <2>2. req[c] \in ReqType /\ NodeTypes
      BY TypeParts DEF IInv, AnswersOK
    <2>3. req[c].arrived \in Int /\ answered \in Int /\ Freshness \in Int
      BY <2>2, Constants DEF ReqType, NodeTypes
    <2> QED
      BY <2>1, <2>3
  <1> QED
    BY <1>1, Invariance, PTL

(* cache.rs, lib.rs: the entries belong to one digest, the byte count and  *)
(* the use order are theirs and within the bound, one probe runs at a time *)
(* unless a task dies, and a request then waits for at most two, for any   *)
(* clients, keys and sizes.                                                *)
THEOREM SharedStateIsCoherent == Spec => []SharedStateHolds
  <1>1. ASSUME IInv PROVE SharedStateHolds
    <2>1. TypeOK /\ EntriesShareOneDigest /\ CacheOK(cache, Cacheable)
      BY <1>1 DEF IInv, AnswersOK, SharedOK
    <2>2. CacheAccounting
      <3>1. Order(cache.order, Cacheable)
        BY <2>1 DEF CacheOK
      <3>2. Cardinality(ToSet(cache.order)) = Len(cache.order)
        BY <3>1, OrderCounts
      <3> QED
        BY <2>1, <3>2 DEF CacheOK, CacheAccounting
    <2>3. Cardinality(Running) \in Nat /\ Cardinality(Failed) \in Nat
      BY CountedSets
    <2>4. OneProbeAtATime
      <3>1. CASE deaths = 0
        <4>1. Running \subseteq {inflight}
          BY <1>1, <3>1 DEF IInv, SlotOK
        <4>2. IsFiniteSet({inflight}) /\ Cardinality({inflight}) = 1
          BY FS_Singleton
        <4>3. Cardinality(Running) <= 1
          BY <4>1, <4>2, FS_Subset
        <4> QED
          BY <2>3, <3>1, <4>3 DEF OneProbeAtATime, Running
      <3>2. CASE deaths # 0
        <4>1. Cardinality(Running) <= 1 + Cardinality(Failed)
          BY <1>1, <2>3 DEF IInv, ProbesOK
        <4> QED
          BY <3>2, <4>1 DEF OneProbeAtATime, Running, Failed
      <3> QED
        BY <3>1, <3>2
    <2>5. AtMostTwoProbes
      BY <1>1 DEF IInv, SlotOK, WaitsOK, AtMostTwoProbes
    <2> QED
      BY <2>1, <2>2, <2>4, <2>5 DEF SharedStateHolds
  <1> QED
    BY <1>1, Invariance, PTL
=============================================================================
