------------------------------ MODULE FoldProofs ------------------------------
(***************************************************************************)
(* Lemmas about the v1 fold (LedgerFold, EdgeFold), for any history.       *)
(*                                                                         *)
(* Every loop of the code runs until nothing changes.  A loop that fills   *)
(* gaps from the smaller ids up ends at the one solution of its equations  *)
(* (Solves, SolvesEdges, Settled, the strata of effective revokes), so     *)
(* neither the hash order nor later arrivals matter.                       *)
(***************************************************************************)
EXTENDS Ledger, FiniteSetTheorems, WellFoundedInduction, TLAPS

-----------------------------------------------------------------------------
(* Natural numbers, recursion over them and loops that fill a set          *)

(* A nonempty set of natural numbers has a least element.                  *)
LEMMA LeastNat ==
    ASSUME NEW T \in SUBSET Nat, T # {}
    PROVE  \E x \in T : \A y \in T : x <= y
  <1> DEFINE R == OpToRel(<, Nat)
  <1>1. \A a, b \in Nat : a < b => <<a, b>> \in R
    BY DEF OpToRel
  <1>2. IsWellFoundedOn(R, Nat)
    BY NatLessThanWellFounded
  <1> HIDE DEF R
  <1>3. PICK x \in T : \A y \in T : ~(<<y, x>> \in R)
    BY <1>2, WFMin
  <1>4. ASSUME NEW y \in T PROVE x <= y
    <2>1. x \in Nat /\ y \in Nat
      OBVIOUS
    <2>2. y < x => <<y, x>> \in R
      BY <1>1, <2>1
    <2>3. ~(<<y, x>> \in R)
      BY <1>3
    <2> QED
      BY <2>1, <2>2, <2>3
  <1> QED
    BY <1>4

(* The numbers up to m are finitely many.                                  *)
LEMMA UptoFinite ==
    ASSUME NEW m \in Nat
    PROVE  IsFiniteSet(0 .. m)
  <1>1. 0 \in Int /\ m \in Int
    OBVIOUS
  <1> QED
    BY <1>1, FS_Interval

(* Induction from the smaller numbers of a set, as a fact about sets.      *)
LEMMA FromBelow ==
    ASSUME NEW D \in SUBSET Nat, NEW G,
           \A d \in D : (\A c \in D : c < d => c \in G) => d \in G
    PROVE  D \subseteq G
  <1> DEFINE Bad == {d \in D : d \notin G}
  <1> SUFFICES ASSUME Bad # {} PROVE FALSE
    OBVIOUS
  <1>1. Bad \in SUBSET Nat
    OBVIOUS
  <1>2. PICK n \in Bad : \A y \in Bad : n <= y
    <2> HIDE DEF Bad
    <2> QED
      BY <1>1, LeastNat
  <1>3. ASSUME NEW c \in D, c < n PROVE c \in G
    <2>1. c \in Nat /\ n \in Nat
      BY <1>1
    <2>2. c \notin Bad
      <3> HIDE DEF Bad
      <3> QED
        BY <1>2, <1>3, <2>1
    <2> QED
      BY <2>2
  <1> QED
    BY <1>3

(* Induction up to a bound.                                                *)
LEMMA Upward ==
    ASSUME NEW m \in Nat, NEW G, 0 \in G, \A n \in 0 .. m - 1 : n \in G => n + 1 \in G
    PROVE  0 .. m \subseteq G
  <1> DEFINE D == 0 .. m
  <1>1. ASSUME NEW d \in D, \A c \in D : c < d => c \in G
        PROVE  d \in G
    <2>1. CASE d = 0
      BY <2>1
    <2>2. CASE d # 0
      <3>1. d - 1 \in 0 .. m - 1 /\ d - 1 \in D /\ d - 1 < d /\ (d - 1) + 1 = d
        BY <2>2
      <3> QED
        BY <1>1, <3>1
    <2> QED
      BY <2>1, <2>2
  <1>2. D \in SUBSET Nat
    OBVIOUS
  <1> HIDE DEF D
  <1>3. D \subseteq G
    BY <1>1, <1>2, FromBelow
  <1> QED
    BY <1>3 DEF D

(* A rule that computes a value at d of D from the values at smaller ones. *)
Rule(D, Y, G) ==
    /\ \A d \in D : \A f \in [D -> Y] : G[d][f] \in Y
    /\ \A d \in D : \A f, g \in [D -> Y] :
          (\A c \in D : c < d => f[c] = g[c]) => G[d][f] = G[d][g]

Solution(D, Y, G, f) == f \in [D -> Y] /\ \A d \in D : f[d] = G[d][f]

(* A recursive function exists.                                            *)
LEMMA Recursion ==
    ASSUME NEW m \in Nat, NEW D \in SUBSET (0 .. m), NEW Y, Y # {}, NEW G, Rule(D, Y, G)
    PROVE  \E f : Solution(D, Y, G, f)
  <1>0. /\ \A d \in D : \A f \in [D -> Y] : G[d][f] \in Y
        /\ \A d \in D : \A f, g \in [D -> Y] :
              (\A c \in D : c < d => f[c] = g[c]) => G[d][f] = G[d][g]
    BY DEF Rule
  <1> DEFINE Upto(n, f) == \A d \in D : d < n => f[d] = G[d][f]
             Good == {n \in 0 .. m + 1 : \E f \in [D -> Y] : Upto(n, f)}
  <1>1. 0 \in Good
    <2>0. PICK y \in Y : TRUE
      OBVIOUS
    <2>1. [d \in D |-> y] \in [D -> Y]
      OBVIOUS
    <2>2. Upto(0, [d \in D |-> y])
      <3>1. \A d \in D : ~(d < 0)
        OBVIOUS
      <3> QED
        BY <3>1
    <2> QED
      BY <2>1, <2>2
  <1>2. ASSUME NEW n \in 0 .. m, n \in Good PROVE n + 1 \in Good
    <2>1. PICK f \in [D -> Y] : Upto(n, f)
      BY <1>2
    <2>2. CASE n \notin D
      <3>1. ASSUME NEW d \in D, d < n + 1 PROVE d < n
        <4>1. d \in Nat /\ d # n
          BY <2>2
        <4> QED
          BY <3>1, <4>1
      <3>2. Upto(n + 1, f)
        BY <2>1, <3>1
      <3> QED
        BY <3>2
    <2>3. CASE n \in D
      <3> DEFINE g == [f EXCEPT ![n] = G[n][f]]
      <3>1. G[n][f] \in Y
        BY <1>0, <2>3
      <3>2. g \in [D -> Y] /\ g[n] = G[n][f] /\ \A c \in D : c # n => g[c] = f[c]
        BY <2>3, <3>1
      <3> HIDE DEF g
      <3>3. ASSUME NEW d \in D, d < n + 1 PROVE g[d] = G[d][g]
        <4>1. d \in Nat /\ d <= n
          BY <3>3
        <4>2. \A c \in D : c < d => f[c] = g[c]
          BY <3>2, <4>1
        <4>3. G[d][f] = G[d][g]
          BY <1>0, <3>2, <4>2
        <4>4. CASE d = n
          BY <3>2, <4>3, <4>4
        <4>5. CASE d # n
          <5>1. d < n
            BY <4>1, <4>5
          <5> QED
            BY <2>1, <3>2, <4>3, <4>5, <5>1
        <4> QED
          BY <4>4, <4>5
      <3> QED
        BY <3>2, <3>3
    <2> QED
      BY <2>2, <2>3
  <1>3. m + 1 \in Nat /\ (m + 1) - 1 = m
    OBVIOUS
  <1>4. 0 .. m + 1 \subseteq Good
    <2> HIDE DEF Good
    <2> QED
      BY <1>1, <1>2, <1>3, Upward
  <1>5. PICK f \in [D -> Y] : Upto(m + 1, f)
    BY <1>4, m + 1 \in 0 .. m + 1
  <1>6. \A d \in D : d < m + 1
    OBVIOUS
  <1> QED
    BY <1>5, <1>6 DEF Solution

(* The turns of a loop: `at[n]' is the state after the n-th.               *)
Turns(m, X, x, step, at) ==
    at \in [0 .. m -> X] /\ at[0] = x /\ \A n \in 1 .. m : at[n] = step[n][at[n - 1]]

(* A loop of m turns has a course, whatever its turns do.                  *)
LEMMA TurnsExist ==
    ASSUME NEW m \in Nat, NEW X, NEW x \in X, NEW step, step \in [1 .. m -> [X -> X]]
    PROVE  \E at : Turns(m, X, x, step, at)
  <1> DEFINE D == 0 .. m
             G == [d \in D |-> [f \in [D -> X] |-> IF d = 0 THEN x ELSE step[d][f[d - 1]]]]
  <1>1. ASSUME NEW d \in D, d # 0, NEW f \in [D -> X]
        PROVE  d \in 1 .. m /\ d - 1 \in D /\ d - 1 < d /\ step[d][f[d - 1]] \in X
    <2>1. d \in 1 .. m /\ d - 1 \in D /\ d - 1 < d
      BY <1>1
    <2> QED
      BY <2>1
  <1>2. \A d \in D : \A f \in [D -> X] : G[d][f] \in X
    BY <1>1
  <1>3. ASSUME NEW d \in D, NEW f \in [D -> X], NEW g \in [D -> X],
               \A c \in D : c < d => f[c] = g[c]
        PROVE  G[d][f] = G[d][g]
    BY <1>1, <1>3
  <1>4. Rule(D, X, G)
    <2> HIDE DEF G, D
    <2> QED
      BY <1>2, <1>3 DEF Rule
  <1>5. D \in SUBSET (0 .. m) /\ X # {}
    OBVIOUS
  <1>6. PICK f : Solution(D, X, G, f)
    <2> HIDE DEF G, D
    <2> QED
      BY <1>4, <1>5, Recursion
  <1>7. f \in [D -> X] /\ \A d \in D : f[d] = G[d][f]
    BY <1>6 DEF Solution
  <1>8. \A d \in D : f[d] = IF d = 0 THEN x ELSE step[d][f[d - 1]]
    BY <1>7
  <1>9. f[0] = x /\ \A n \in 1 .. m : f[n] = step[n][f[n - 1]]
    <2>1. 0 \in D /\ \A n \in 1 .. m : n \in D /\ n # 0
      OBVIOUS
    <2> HIDE DEF D
    <2> QED
      BY <1>8, <2>1
  <1> QED
    BY <1>7, <1>9 DEF Turns

(* What one turn keeps, all turns keep.                                    *)
LEMMA TurnsKeep ==
    ASSUME NEW m \in Nat, NEW at, NEW H, at[0] \in H,
           \A n \in 1 .. m : at[n - 1] \in H => at[n] \in H
    PROVE  \A n \in 0 .. m : at[n] \in H
  <1> DEFINE G == {n \in 0 .. m : at[n] \in H}
  <1>1. 0 \in G
    OBVIOUS
  <1>2. ASSUME NEW n \in 0 .. m - 1, n \in G PROVE n + 1 \in G
    <2>1. n + 1 \in 1 .. m /\ (n + 1) - 1 = n /\ n + 1 \in 0 .. m
      OBVIOUS
    <2> QED
      BY <1>2, <2>1
  <1>3. 0 .. m \subseteq G
    <2> HIDE DEF G
    <2> QED
      BY <1>1, <1>2, Upward
  <1> QED
    BY <1>3

(* A set that grows at every turn until it is full is full after as many   *)
(* turns as it has elements.                                               *)
LEMMA Filled ==
    ASSUME NEW S, IsFiniteSet(S), NEW G \in [0 .. Cardinality(S) -> SUBSET S],
           \A n \in 1 .. Cardinality(S) : G[n - 1] \subseteq G[n]
              /\ (G[n - 1] # S => G[n] # G[n - 1])
    PROVE  G[Cardinality(S)] = S
  <1> DEFINE k == Cardinality(S)
             H == {n \in 0 .. k : G[n] = S \/ Cardinality(G[n]) >= n}
  <1>0. k \in Nat
    BY FS_CardinalityType
  <1>1. 0 \in H
    <2>1. IsFiniteSet(G[0]) /\ G[0] \subseteq S
      BY <1>0, FS_Subset
    <2>2. Cardinality(G[0]) \in Nat
      BY <2>1, FS_CardinalityType
    <2> QED
      BY <1>0, <2>2
  <1>2. ASSUME NEW n \in 0 .. k - 1, n \in H PROVE n + 1 \in H
    <2>1. n + 1 \in 1 .. k /\ (n + 1) - 1 = n /\ n \in 0 .. k /\ n + 1 \in 0 .. k
      BY <1>0
    <2>2. G[n] \subseteq G[n + 1] /\ (G[n] # S => G[n + 1] # G[n])
      BY <2>1
    <2>3. G[n] \subseteq S /\ G[n + 1] \subseteq S
      BY <2>1
    <2>4. CASE G[n] = S
      BY <2>1, <2>2, <2>3, <2>4
    <2>5. CASE G[n] # S
      <3>1. IsFiniteSet(G[n]) /\ IsFiniteSet(G[n + 1])
        BY <2>3, FS_Subset
      <3>2. Cardinality(G[n]) < Cardinality(G[n + 1])
        <4>1. G[n] # G[n + 1]
          BY <2>2, <2>5
        <4>2. Cardinality(G[n]) <= Cardinality(G[n + 1]) /\ Cardinality(G[n]) # Cardinality(G[n + 1])
          BY <2>2, <3>1, <4>1, FS_Subset
        <4>3. Cardinality(G[n]) \in Nat /\ Cardinality(G[n + 1]) \in Nat
          BY <3>1, FS_CardinalityType
        <4> QED
          BY <4>2, <4>3
      <3>3. Cardinality(G[n]) \in Nat /\ Cardinality(G[n + 1]) \in Nat
        BY <3>1, FS_CardinalityType
      <3>4. Cardinality(G[n]) >= n
        BY <1>2, <2>5
      <3>5. Cardinality(G[n + 1]) >= n + 1
        BY <3>2, <3>3, <3>4
      <3> QED
        BY <2>1, <3>5
    <2> QED
      BY <2>4, <2>5
  <1>3. 0 .. k \subseteq H
    <2> HIDE DEF H
    <2> QED
      BY <1>0, <1>1, <1>2, Upward
  <1>4. G[k] = S \/ Cardinality(G[k]) >= k
    BY <1>0, <1>3
  <1>5. G[k] \subseteq S
    BY <1>0
  <1>6. Cardinality(G[k]) \in Nat /\ Cardinality(G[k]) <= k /\ (Cardinality(G[k]) = k => G[k] = S)
    BY <1>5, FS_Subset, FS_CardinalityType
  <1> QED
    BY <1>0, <1>4, <1>6
(* A function that turns like the loop is the loop.                        *)
LEMMA TurnsIs ==
    ASSUME NEW m \in Nat, NEW X, NEW x \in X, NEW step, step \in [1 .. m -> [X -> X]],
           NEW at, at = [n \in 0 .. m |-> at[n]], at[0] = x,
           \A n \in 1 .. m : at[n - 1] \in X => at[n] = step[n][at[n - 1]]
    PROVE  Turns(m, X, x, step, at)
  <1>1. ASSUME NEW n \in 1 .. m, at[n - 1] \in X PROVE at[n] \in X
    <2>1. step[n] \in [X -> X]
      OBVIOUS
    <2>2. step[n][at[n - 1]] \in X
      BY <1>1, <2>1
    <2> QED
      BY <1>1, <2>2
  <1>2. \A n \in 0 .. m : at[n] \in X
    BY <1>1, TurnsKeep
  <1>3. \A n \in 1 .. m : n - 1 \in 0 .. m
    OBVIOUS
  <1> QED
    BY <1>2, <1>3 DEF Turns

(* The states x of a loop have got right[x] of D right.  A turn from x to  *)
(* y forgets nothing and, unless all is right, adds something.             *)
Gains(D, X, right, x, y) ==
    /\ y \in X
    /\ right[x] \subseteq right[y]
    /\ right[x] # D => right[y] # right[x]

Progress(D, X, right, f) == f \in [X -> X] /\ \A x \in X : Gains(D, X, right, x, f[x])

(* As many turns as D has elements get all of it right.                    *)
LEMMA AllPasses ==
    ASSUME NEW D, IsFiniteSet(D), NEW X, NEW x \in X, NEW right, right \in [X -> SUBSET D],
           NEW f, Progress(D, X, right, f), NEW k, k = Cardinality(D), NEW at,
           Turns(k, X, x, [n \in 1 .. k |-> f], at)
    PROVE  at[k] \in X /\ right[at[k]] = D
  <1> DEFINE G == [n \in 0 .. k |-> right[at[n]]]
  <1>0. k \in Nat
    BY FS_CardinalityType
  <1>1. at \in [0 .. k -> X] /\ \A n \in 1 .. k : at[n] = f[at[n - 1]]
    BY DEF Turns
  <1>2. \A n \in 0 .. k : at[n] \in X /\ right[at[n]] \in SUBSET D
    BY <1>1
  <1>3. G \in [0 .. k -> SUBSET D]
    BY <1>2
  <1>4. ASSUME NEW n \in 1 .. k
        PROVE  G[n - 1] \subseteq G[n] /\ (G[n - 1] # D => G[n] # G[n - 1])
    <2>1. n \in 0 .. k /\ n - 1 \in 0 .. k
      BY <1>0
    <2>2. at[n - 1] \in X /\ at[n] = f[at[n - 1]]
      BY <1>1, <2>1
    <2>3. right[at[n - 1]] \subseteq right[at[n]]
          /\ (right[at[n - 1]] # D => right[at[n]] # right[at[n - 1]])
      BY <2>2 DEF Progress, Gains
    <2> QED
      BY <2>1, <2>3
  <1>5. G[k] = D
    <2> HIDE DEF G
    <2> QED
      BY <1>3, <1>4, Filled
  <1> QED
    BY <1>0, <1>2, <1>5

(* The steps of one pass: none forgets, and the one of d gets d right when *)
(* everything smaller is.                                                  *)
Steps(D, I, X, right, step) ==
    /\ step \in [I -> [X -> X]]
    /\ \A i \in I : \A x \in X : right[x] \subseteq right[step[i][x]]
    /\ \A d \in D : \A x \in X :
          (\A c \in D : c < d => c \in right[x]) => d \in right[step[d][x]]

(* Turn n takes the step of order[n]; every d of D has its turn.           *)
Visits(m, order, D, I, step, turn) ==
    /\ D \subseteq I
    /\ \A n \in 1 .. m : order[n] \in I /\ turn[n] = step[order[n]]
    /\ \A d \in D : \E n \in 1 .. m : order[n] = d

(* A pass over the order gains on every gap: a loop visits every id.       *)
LEMMA OnePass ==
    ASSUME NEW D \in SUBSET Nat, NEW I, NEW X, NEW x \in X,
           NEW right, right \in [X -> SUBSET D], NEW step, Steps(D, I, X, right, step),
           NEW m \in Nat, NEW order, NEW turn, Visits(m, order, D, I, step, turn),
           NEW at, Turns(m, X, x, turn, at)
    PROVE  Gains(D, X, right, x, at[m])
  <1>0. /\ D \subseteq I
        /\ \A n \in 1 .. m : order[n] \in I /\ turn[n] = step[order[n]]
        /\ \A d \in D : \E n \in 1 .. m : order[n] = d
    BY DEF Visits
  <1>1. at \in [0 .. m -> X] /\ at[0] = x /\ \A n \in 1 .. m : at[n] = step[order[n]][at[n - 1]]
    BY <1>0 DEF Turns
  <1>2. ASSUME NEW n \in 1 .. m PROVE at[n - 1] \in X /\ right[at[n - 1]] \subseteq right[at[n]]
    <2>1. n - 1 \in 0 .. m
      OBVIOUS
    <2>2. at[n - 1] \in X /\ order[n] \in I
      BY <1>0, <1>1, <2>1
    <2> QED
      BY <1>1, <2>2 DEF Steps
  <1>3. ASSUME NEW j \in 0 .. m
        PROVE  \A n \in 0 .. m : j <= n => right[at[j]] \subseteq right[at[n]]
    <2> DEFINE G == {n \in 0 .. m : j <= n => right[at[j]] \subseteq right[at[n]]}
    <2>1. 0 \in G
      OBVIOUS
    <2>2. ASSUME NEW n \in 0 .. m - 1, n \in G PROVE n + 1 \in G
      <3>1. n + 1 \in 1 .. m /\ (n + 1) - 1 = n /\ n + 1 \in 0 .. m
        OBVIOUS
      <3>2. right[at[n]] \subseteq right[at[n + 1]]
        BY <1>2, <3>1
      <3>3. CASE j <= n
        BY <2>2, <3>1, <3>2, <3>3
      <3>4. CASE ~(j <= n)
        <4>1. j <= n + 1 => j = n + 1
          BY <3>4
        <4> QED
          BY <3>1, <4>1
      <3> QED
        BY <3>3, <3>4
    <2>3. 0 .. m \subseteq G
      <3> HIDE DEF G
      <3> QED
        BY <2>1, <2>2, Upward
    <2> QED
      BY <2>3
  <1>4. right[x] \subseteq right[at[m]]
    BY <1>1, <1>3
  <1>5. ASSUME right[x] # D PROVE right[at[m]] # right[x]
    <2> DEFINE T == D \ right[x]
    <2>1. T # {} /\ T \in SUBSET Nat
      BY <1>5
    <2>2. PICK d \in T : \A y \in T : d <= y
      <3> HIDE DEF T
      <3> QED
        BY <2>1, LeastNat
    <2>3. \A c \in D : c < d => c \in right[x]
      BY <2>2
    <2>4. PICK n \in 1 .. m : order[n] = d
      BY <1>0, <2>2
    <2>5. n - 1 \in 0 .. m /\ n \in 0 .. m /\ 0 <= n - 1 /\ n <= m /\ 0 \in 0 .. m /\ m \in 0 .. m
      OBVIOUS
    <2>6. right[x] \subseteq right[at[n - 1]]
      BY <1>1, <1>3, <2>5
    <2>7. at[n - 1] \in X /\ \A c \in D : c < d => c \in right[at[n - 1]]
      BY <1>2, <2>3, <2>6
    <2>8. d \in right[step[d][at[n - 1]]]
      BY <2>2, <2>7 DEF Steps
    <2>9. d \in right[at[n]]
      BY <1>1, <2>4, <2>8
    <2>10. right[at[n]] \subseteq right[at[m]]
      BY <1>3, <2>5
    <2> QED
      BY <2>2, <2>9, <2>10
  <1> QED
    BY <1>1, <1>4, <1>5 DEF Gains

-----------------------------------------------------------------------------
(* The recursive readings of a set of envelopes                            *)

(* Finitely many envelopes, each naming only smaller ids.                  *)
Sane(all) ==
    /\ \E m \in Nat : DOMAIN all \subseteq 1 .. m
    /\ \A id \in DOMAIN all : NamesThePast(all[id], id)

(* Every parent is there.                                                  *)
Closed(all) == \A id \in DOMAIN all : all[id].parents \subseteq DOMAIN all

(* Ids are positive numbers above those of their parents, and finite.      *)
LEMMA SaneIds ==
    ASSUME NEW all, Sane(all)
    PROVE  /\ DOMAIN all \subseteq Nat \ {0}
           /\ IsFiniteSet(DOMAIN all)
           /\ \A id \in DOMAIN all : \A p \in all[id].parents : p \in Nat /\ p < id
  <1>1. PICK m \in Nat : DOMAIN all \subseteq 1 .. m
    BY DEF Sane
  <1>2. IsFiniteSet(1 .. m)
    BY FS_Interval
  <1>3. ASSUME NEW id \in DOMAIN all, NEW p \in all[id].parents
        PROVE  p \in Nat /\ p < id
    <2>1. all[id].parents \subseteq 1 .. id - 1
      BY DEF Sane, NamesThePast
    <2>2. id \in Nat
      BY <1>1
    <2> QED
      BY <2>1, <2>2
  <1> QED
    BY <1>1, <1>2, <1>3, FS_Subset

(* Cones satisfy the equation that defines them.                           *)
LEMMA ConeFacts ==
    ASSUME NEW all, Sane(all)
    PROVE  /\ Cones(all) \in [DOMAIN all -> SUBSET DOMAIN all]
           /\ \A id \in DOMAIN all : Cones(all)[id] =
                 {id} \cup UNION {Cones(all)[p] : p \in all[id].parents \cap DOMAIN all}
  <1> DEFINE D == DOMAIN all
             Y == SUBSET D
             up(f, d) == {d} \cup UNION {f[p] : p \in all[d].parents \cap D}
             G == [d \in D |-> [f \in [D -> Y] |-> up(f, d)]]
             Eq(f) == f = [d \in D |-> up(f, d)]
  <1>1. PICK m \in Nat : D \in SUBSET (0 .. m)
    <2>1. PICK m \in Nat : D \subseteq 1 .. m
      BY DEF Sane
    <2>2. D \subseteq 0 .. m
      BY <2>1
    <2> QED
      BY <2>2
  <1>2. \A d \in D : \A p \in all[d].parents : p \in Nat /\ p < d
    BY SaneIds
  <1>3. \A d \in D : \A f \in [D -> Y] : up(f, d) \in Y
    OBVIOUS
  <1>4. ASSUME NEW d \in D, NEW f, NEW g, \A c \in D : c < d => f[c] = g[c]
        PROVE  up(f, d) = up(g, d)
    <2>1. \A p \in all[d].parents \cap D : f[p] = g[p]
      BY <1>2, <1>4
    <2> QED
      BY <2>1
  <1>5. \A d \in D : \A f \in [D -> Y] : G[d][f] = up(f, d)
    OBVIOUS
  <1>6. Rule(D, Y, G)
    <2> HIDE DEF G, D, Y, up
    <2> QED
      BY <1>3, <1>4, <1>5 DEF Rule
  <1>7. Y # {}
    OBVIOUS
  <1>8. PICK f : Solution(D, Y, G, f)
    <2> HIDE DEF G, D, Y, up
    <2> QED
      BY <1>1, <1>6, <1>7, Recursion
  <1>9. Eq(f)
    <2> HIDE DEF G, D, Y, up
    <2>1. f \in [D -> Y] /\ \A d \in D : f[d] = up(f, d)
      BY <1>5, <1>8 DEF Solution
    <2> QED
      BY <2>1
  <1>10. Eq(Cones(all))
    <2>1. Cones(all) = CHOOSE h : Eq(h)
      BY DEF Cones
    <2> HIDE DEF Eq
    <2> QED
      BY <1>9, <2>1
  <1>11. \A d \in D : Cones(all)[d] = up(Cones(all), d)
    BY <1>10
  <1>12. \A d \in D : Cones(all)[d] \in Y
    <2> DEFINE H == {d \in D : Cones(all)[d] \in Y}
    <2>1. ASSUME NEW d \in D, \A c \in D : c < d => c \in H PROVE d \in H
      <3>1. \A p \in all[d].parents \cap D : Cones(all)[p] \in Y
        BY <1>2, <2>1
      <3> QED
        BY <1>11, <3>1
    <2>2. D \in SUBSET Nat
      BY <1>1
    <2>3. D \subseteq H
      <3> HIDE DEF D, H
      <3> QED
        BY <2>1, <2>2, FromBelow
    <2> QED
      BY <2>3
  <1>13. DOMAIN Cones(all) = D /\ Cones(all) = [d \in D |-> Cones(all)[d]]
    BY <1>10
  <1> QED
    BY <1>11, <1>12, <1>13

(* What is closed under parents holds the cones of its members.            *)
LEMMA ConeWithin ==
    ASSUME NEW all, Sane(all), NEW C,
           \A id \in C \cap DOMAIN all : all[id].parents \cap DOMAIN all \subseteq C
    PROVE  \A id \in C \cap DOMAIN all : Cones(all)[id] \subseteq C
  <1> DEFINE D == DOMAIN all
             H == {id \in D : id \in C => Cones(all)[id] \subseteq C}
  <1>1. \A d \in D : \A p \in all[d].parents : p < d
    BY SaneIds
  <1>2. ASSUME NEW d \in D, \A c \in D : c < d => c \in H PROVE d \in H
    <2>1. CASE d \notin C
      BY <2>1
    <2>2. CASE d \in C
      <3>1. ASSUME NEW p \in all[d].parents \cap D PROVE Cones(all)[p] \subseteq C
        <4>1. p \in C /\ p \in H
          BY <1>1, <1>2, <2>2
        <4> QED
          BY <4>1
      <3>2. Cones(all)[d] = {d} \cup UNION {Cones(all)[p] : p \in all[d].parents \cap D}
        BY ConeFacts
      <3>3. Cones(all)[d] \subseteq C
        BY <2>2, <3>1, <3>2
      <3> QED
        BY <3>3
    <2> QED
      BY <2>1, <2>2
  <1>3. D \in SUBSET Nat
    BY SaneIds
  <1>4. D \subseteq H
    <2> HIDE DEF D, H
    <2> QED
      BY <1>2, <1>3, FromBelow
  <1> QED
    BY <1>4

(* The same envelopes, and perhaps more.                                   *)
Extends(a, b) == DOMAIN a \subseteq DOMAIN b /\ \A id \in DOMAIN a : b[id] = a[id]

(* Cones whose every parent is there do not grow.                          *)
LEMMA ConesStay ==
    ASSUME NEW a, NEW b, Sane(a), Sane(b), Extends(a, b), NEW C \in SUBSET DOMAIN a,
           \A id \in C : a[id].parents \subseteq C
    PROVE  \A id \in C : Cones(b)[id] = Cones(a)[id] /\ Cones(a)[id] \subseteq C
  <1> DEFINE H == {id \in C : Cones(b)[id] = Cones(a)[id]}
  <1>1. \A d \in C : \A p \in a[d].parents : p \in C /\ p < d
    BY SaneIds
  <1>2. ASSUME NEW d \in C, \A c \in C : c < d => c \in H PROVE d \in H
    <2>1. d \in DOMAIN a /\ d \in DOMAIN b /\ b[d] = a[d]
      BY DEF Extends
    <2>2. a[d].parents \cap DOMAIN a = a[d].parents /\ b[d].parents \cap DOMAIN b = a[d].parents
      BY <2>1 DEF Extends
    <2>3. \A p \in a[d].parents : Cones(b)[p] = Cones(a)[p]
      BY <1>1, <1>2
    <2>4. Cones(a)[d] = {d} \cup UNION {Cones(a)[p] : p \in a[d].parents}
      BY <2>1, <2>2, ConeFacts
    <2>5. Cones(b)[d] = {d} \cup UNION {Cones(b)[p] : p \in a[d].parents}
      BY <2>1, <2>2, ConeFacts
    <2>6. Cones(b)[d] = Cones(a)[d]
      BY <2>3, <2>4, <2>5
    <2> QED
      BY <2>6
  <1>3. C \in SUBSET Nat
    BY SaneIds
  <1>4. C \subseteq H
    <2> HIDE DEF H
    <2> QED
      BY <1>2, <1>3, FromBelow
  <1>5. \A id \in C \cap DOMAIN a : Cones(a)[id] \subseteq C
    BY ConeWithin
  <1> QED
    BY <1>4, <1>5

(* Lineages satisfy the equation that defines them, and ids grow along     *)
(* them.                                                                   *)
LEMMA LineFacts ==
    ASSUME NEW all, Sane(all)
    PROVE  /\ Lineages(all) \in [GrantsOf(all) -> SUBSET GrantsOf(all)]
           /\ \A g \in GrantsOf(all) : Lineages(all)[g] =
                 {g} \cup (IF Issuer(all, g) \in GrantsOf(all)
                           THEN Lineages(all)[Issuer(all, g)] ELSE {})
           /\ \A g \in GrantsOf(all) : Issuer(all, g) \in Nat /\ Issuer(all, g) < g
  <1> DEFINE D == GrantsOf(all)
             Y == SUBSET D
             up(f, d) == {d} \cup (IF Issuer(all, d) \in D THEN f[Issuer(all, d)] ELSE {})
             G == [d \in D |-> [f \in [D -> Y] |-> up(f, d)]]
             Eq(f) == f = [d \in D |-> up(f, d)]
  <1>0. D \subseteq DOMAIN all
    BY DEF GrantsOf
  <1>1. PICK m \in Nat : D \in SUBSET (0 .. m)
    <2>1. PICK m \in Nat : DOMAIN all \subseteq 1 .. m
      BY DEF Sane
    <2>2. D \subseteq 0 .. m
      BY <1>0, <2>1
    <2> QED
      BY <2>2
  <1>2. ASSUME NEW d \in D PROVE Issuer(all, d) \in Nat /\ Issuer(all, d) < d
    <2>1. d \in DOMAIN all /\ all[d].kind \in {"genesis", "delegate"}
      BY DEF GrantsOf
    <2>2. d \in Nat \ {0}
      BY <2>1, SaneIds
    <2>3. CASE all[d].kind = "genesis"
      BY <2>2, <2>3 DEF Issuer, None
    <2>4. CASE all[d].kind = "delegate"
      <3>1. all[d].issuer \in 0 .. d - 1
        BY <2>1, <2>4 DEF Sane, NamesThePast
      <3> QED
        BY <2>2, <2>4, <3>1 DEF Issuer
    <2> QED
      BY <2>1, <2>3, <2>4
  <1> HIDE DEF D
  <1>3. \A d \in D : \A f \in [D -> Y] : up(f, d) \in Y
    OBVIOUS
  <1>4. ASSUME NEW d \in D, NEW f, NEW g, \A c \in D : c < d => f[c] = g[c]
        PROVE  up(f, d) = up(g, d)
    <2>1. Issuer(all, d) \in D => f[Issuer(all, d)] = g[Issuer(all, d)]
      BY <1>2, <1>4
    <2> QED
      BY <2>1
  <1>5. \A d \in D : \A f \in [D -> Y] : G[d][f] = up(f, d)
    OBVIOUS
  <1>6. Rule(D, Y, G)
    <2> HIDE DEF G, Y, up
    <2> QED
      BY <1>3, <1>4, <1>5 DEF Rule
  <1>7. Y # {}
    OBVIOUS
  <1>8. PICK f : Solution(D, Y, G, f)
    <2> HIDE DEF G, Y, up
    <2> QED
      BY <1>1, <1>6, <1>7, Recursion
  <1>9. Eq(f)
    <2> HIDE DEF G, Y, up
    <2>1. f \in [D -> Y] /\ \A d \in D : f[d] = up(f, d)
      BY <1>5, <1>8 DEF Solution
    <2> QED
      BY <2>1
  <1>10. Eq(Lineages(all))
    <2>1. Lineages(all) = CHOOSE h : Eq(h)
      BY DEF Lineages, D
    <2> HIDE DEF Eq
    <2> QED
      BY <1>9, <2>1
  <1>11. \A d \in D : Lineages(all)[d] = up(Lineages(all), d)
    BY <1>10
  <1>12. \A d \in D : Lineages(all)[d] \in Y
    <2> DEFINE H == {d \in D : Lineages(all)[d] \in Y}
    <2>1. ASSUME NEW d \in D, \A c \in D : c < d => c \in H PROVE d \in H
      <3>1. Issuer(all, d) \in D => Lineages(all)[Issuer(all, d)] \in Y
        BY <1>2, <2>1
      <3> QED
        BY <1>11, <3>1
    <2>2. D \in SUBSET Nat
      BY <1>1
    <2>3. D \subseteq H
      <3> HIDE DEF H
      <3> QED
        BY <2>1, <2>2, FromBelow
    <2> QED
      BY <2>3
  <1>13. DOMAIN Lineages(all) = D /\ Lineages(all) = [d \in D |-> Lineages(all)[d]]
    BY <1>10
  <1> QED
    BY <1>2, <1>11, <1>12, <1>13 DEF D

(* Only a genesis has no parent.                                           *)
Rooted(all) == \A id \in DOMAIN all : all[id].kind = "genesis" \/ all[id].parents # {}

(* Selections satisfy the equation that defines them.                      *)
LEMMA SelectionFacts ==
    ASSUME NEW all, Sane(all), Rooted(all)
    PROVE  /\ Selections(all) \in [DOMAIN all -> Nat]
           /\ \A id \in DOMAIN all : Selections(all)[id] =
                 IF CreatesRevision(all[id]) THEN id
                 ELSE IF all[id].kind = "resolve" THEN all[id].pick
                 ELSE IF ParentOf(all[id]) \in DOMAIN all
                 THEN Selections(all)[ParentOf(all[id])] ELSE None
           /\ \A id \in DOMAIN all : ~CreatesRevision(all[id]) =>
                 ParentOf(all[id]) \in all[id].parents /\ ParentOf(all[id]) < id
  <1> DEFINE D == DOMAIN all
             Y == Nat
             up(f, d) == IF CreatesRevision(all[d]) THEN d
                         ELSE IF all[d].kind = "resolve" THEN all[d].pick
                         ELSE IF ParentOf(all[d]) \in D THEN f[ParentOf(all[d])] ELSE None
             G == [d \in D |-> [f \in [D -> Y] |-> up(f, d)]]
             Eq(f) == f = [d \in D |-> up(f, d)]
  <1>1. PICK m \in Nat : D \in SUBSET (0 .. m)
    <2>1. PICK m \in Nat : D \subseteq 1 .. m
      BY DEF Sane
    <2>2. D \subseteq 0 .. m
      BY <2>1
    <2> QED
      BY <2>2
  <1>2. ASSUME NEW d \in D, ~CreatesRevision(all[d])
        PROVE  ParentOf(all[d]) \in all[d].parents /\ ParentOf(all[d]) < d
    <2>1. all[d].parents # {}
      BY <1>2 DEF CreatesRevision, Rooted
    <2>2. ParentOf(all[d]) \in all[d].parents
      BY <2>1 DEF ParentOf
    <2> QED
      BY <2>2, SaneIds
  <1>a. ASSUME NEW d \in D, all[d].kind = "resolve" PROVE all[d].pick \in Nat
    <2>1. all[d].pick \in 0 .. d - 1
      BY <1>a DEF Sane, NamesThePast
    <2> QED
      BY <2>1
  <1>3. ASSUME NEW d \in D, NEW f \in [D -> Y] PROVE up(f, d) \in Y
    <2>1. d \in Nat /\ None \in Nat
      BY <1>1 DEF None
    <2> QED
      BY <1>a, <2>1
  <1>4. ASSUME NEW d \in D, NEW f, NEW g, \A c \in D : c < d => f[c] = g[c]
        PROVE  up(f, d) = up(g, d)
    <2>1. ~CreatesRevision(all[d]) /\ ParentOf(all[d]) \in D
          => f[ParentOf(all[d])] = g[ParentOf(all[d])]
      BY <1>2, <1>4
    <2> QED
      BY <2>1
  <1>5. \A d \in D : \A f \in [D -> Y] : G[d][f] = up(f, d)
    OBVIOUS
  <1>6. Rule(D, Y, G)
    <2> HIDE DEF G, D, Y, up
    <2> QED
      BY <1>3, <1>4, <1>5 DEF Rule
  <1>7. Y # {}
    OBVIOUS
  <1>8. PICK f : Solution(D, Y, G, f)
    <2> HIDE DEF G, D, Y, up
    <2> QED
      BY <1>1, <1>6, <1>7, Recursion
  <1>9. Eq(f)
    <2> HIDE DEF G, D, Y, up
    <2>1. f \in [D -> Y] /\ \A d \in D : f[d] = up(f, d)
      BY <1>5, <1>8 DEF Solution
    <2> QED
      BY <2>1
  <1>10. Eq(Selections(all))
    <2>1. Selections(all) = CHOOSE h : Eq(h)
      BY DEF Selections
    <2> HIDE DEF Eq
    <2> QED
      BY <1>9, <2>1
  <1>11. \A d \in D : Selections(all)[d] = up(Selections(all), d)
    BY <1>10
  <1>12. \A d \in D : Selections(all)[d] \in Y
    <2> DEFINE H == {d \in D : Selections(all)[d] \in Y}
    <2>1. ASSUME NEW d \in D, \A c \in D : c < d => c \in H PROVE d \in H
      <3>1. ~CreatesRevision(all[d]) /\ ParentOf(all[d]) \in D
            => Selections(all)[ParentOf(all[d])] \in Y
        BY <1>2, <2>1
      <3>2. d \in Nat /\ None \in Nat
        BY <1>1 DEF None
      <3> QED
        BY <1>a, <1>11, <3>1, <3>2
    <2>2. D \in SUBSET Nat
      BY <1>1
    <2>3. D \subseteq H
      <3> HIDE DEF D, H
      <3> QED
        BY <2>1, <2>2, FromBelow
    <2> QED
      BY <2>3
  <1>13. DOMAIN Selections(all) = D /\ Selections(all) = [d \in D |-> Selections(all)[d]]
    BY <1>10
  <1> QED
    BY <1>2, <1>11, <1>12, <1>13

(* What an event selects depends on its past only.                         *)
LEMMA SelectionsStay ==
    ASSUME NEW a, NEW b, Sane(a), Sane(b), Rooted(a), Rooted(b), Extends(a, b), Closed(a)
    PROVE  \A id \in DOMAIN a : Selections(b)[id] = Selections(a)[id]
  <1> DEFINE D == DOMAIN a
             H == {id \in D : Selections(b)[id] = Selections(a)[id]}
  <1>2. ASSUME NEW d \in D, \A c \in D : c < d => c \in H PROVE d \in H
    <2>1. d \in DOMAIN b /\ b[d] = a[d]
      BY DEF Extends
    <2>2. ~CreatesRevision(a[d]) => ParentOf(a[d]) \in D /\ ParentOf(a[d]) < d
      BY SelectionFacts DEF Closed
    <2>3. ~CreatesRevision(a[d]) =>
             ParentOf(a[d]) \in DOMAIN b /\ Selections(b)[ParentOf(a[d])] = Selections(a)[ParentOf(a[d])]
      BY <1>2, <2>2 DEF Extends
    <2>4. Selections(a)[d] = IF CreatesRevision(a[d]) THEN d
                             ELSE IF a[d].kind = "resolve" THEN a[d].pick
                             ELSE IF ParentOf(a[d]) \in DOMAIN a
                             THEN Selections(a)[ParentOf(a[d])] ELSE None
      BY SelectionFacts
    <2>5. Selections(b)[d] = IF CreatesRevision(a[d]) THEN d
                             ELSE IF a[d].kind = "resolve" THEN a[d].pick
                             ELSE IF ParentOf(a[d]) \in DOMAIN b
                             THEN Selections(b)[ParentOf(a[d])] ELSE None
      BY <2>1, SelectionFacts
    <2> QED
      BY <2>2, <2>3, <2>4, <2>5
  <1>3. D \in SUBSET Nat
    BY SaneIds
  <1>4. D \subseteq H
    <2> HIDE DEF D, H
    <2> QED
      BY <1>2, <1>3, FromBelow
  <1> QED
    BY <1>4

-----------------------------------------------------------------------------
(* The revoked_ancestor loop                                               *)

(* A sequence in which every id of the map occurs.                         *)
Covering(all, order) ==
    /\ Len(order) \in Nat
    /\ \A id \in DOMAIN all : \E n \in 1 .. Len(order) : order[n] = id

Silencing(reason) == reason \notin {"", "root_relinquished"}

EffectReasons == {"", "root_relinquished", "revoked_concurrent", "canceled_grant",
                  "canceled_authority", "revoked_ancestor"}
Effect == [reason : EffectReasons, controls : SUBSET Nat]

(* Own effects say by which revokes.                                       *)
OwnEffects(all, own) ==
    own \in [DOMAIN all -> Effect]
    /\ \A id \in DOMAIN all : own[id].reason # "" => own[id].controls # {}

(* They come from effective revokes.                                       *)
Provoked(all, own, effective) ==
    effective = {} => \A id \in DOMAIN all : own[id].reason = ""

(* The reason of every event, as the loop leaves it: its own, or that a    *)
(* parent is suppressed.                                                   *)
Settled(all, own, fin) ==
    /\ fin \in [DOMAIN all -> EffectReasons]
    /\ \A id \in DOMAIN all : fin[id] =
          IF own[id].reason # "" THEN own[id].reason
          ELSE IF \E p \in all[id].parents : Silencing(fin[p]) THEN "revoked_ancestor" ELSE ""

(* The revoked_ancestor loop has a state at which it rests.                *)
LEMMA SettledExists ==
    ASSUME NEW all, Sane(all), Closed(all), NEW own, OwnEffects(all, own)
    PROVE  \E fin : Settled(all, own, fin)
  <1> DEFINE D == DOMAIN all
             up(f, d) == IF own[d].reason # "" THEN own[d].reason
                         ELSE IF \E p \in all[d].parents : Silencing(f[p])
                         THEN "revoked_ancestor" ELSE ""
             G == [d \in D |-> [f \in [D -> EffectReasons] |-> up(f, d)]]
  <1>1. PICK m \in Nat : D \in SUBSET (0 .. m)
    <2>1. PICK m \in Nat : D \subseteq 1 .. m
      BY DEF Sane
    <2>2. D \subseteq 0 .. m
      BY <2>1
    <2> QED
      BY <2>2
  <1>2. \A d \in D : \A p \in all[d].parents : p \in D /\ p < d
    BY SaneIds DEF Closed
  <1>3. \A d \in D : \A f \in [D -> EffectReasons] : up(f, d) \in EffectReasons
    BY DEF OwnEffects, Effect, EffectReasons
  <1>4. ASSUME NEW d \in D, NEW f, NEW g, \A c \in D : c < d => f[c] = g[c]
        PROVE  up(f, d) = up(g, d)
    <2>1. \A p \in all[d].parents : f[p] = g[p]
      BY <1>2, <1>4
    <2> QED
      BY <2>1
  <1>5. \A d \in D : \A f \in [D -> EffectReasons] : G[d][f] = up(f, d)
    OBVIOUS
  <1>6. Rule(D, EffectReasons, G)
    <2> HIDE DEF G, D, up
    <2> QED
      BY <1>3, <1>4, <1>5 DEF Rule
  <1>7. EffectReasons # {}
    BY DEF EffectReasons
  <1>8. PICK f : Solution(D, EffectReasons, G, f)
    <2> HIDE DEF G, D, up
    <2> QED
      BY <1>1, <1>6, <1>7, Recursion
  <1>9. f \in [D -> EffectReasons] /\ \A d \in D : f[d] = up(f, d)
    <2> HIDE DEF G, D, up
    <2> QED
      BY <1>5, <1>8 DEF Solution
  <1> QED
    BY <1>9 DEF Settled

(* It has only one such state, as to who is marked.                        *)
LEMMA SettledIsOne ==
    ASSUME NEW all, Sane(all), Closed(all), NEW own, NEW f, NEW g,
           Settled(all, own, f), Settled(all, own, g)
    PROVE  f = g
  <1> DEFINE D == DOMAIN all
             H == {d \in D : f[d] = g[d]}
  <1>1. \A d \in D : \A p \in all[d].parents : p \in D /\ p < d
    BY SaneIds DEF Closed
  <1>2. ASSUME NEW d \in D, \A c \in D : c < d => c \in H PROVE d \in H
    <2>1. \A p \in all[d].parents : f[p] = g[p]
      BY <1>1, <1>2
    <2> QED
      BY <2>1 DEF Settled
  <1>3. D \in SUBSET Nat
    BY SaneIds
  <1>4. D \subseteq H
    <2> HIDE DEF D, H
    <2> QED
      BY <1>2, <1>3, FromBelow
  <1>5. f \in [D -> EffectReasons] /\ g \in [D -> EffectReasons]
    BY DEF Settled
  <1> QED
    BY <1>4, <1>5

(* The effects known so far, none of them wrong.                           *)
Partial(all, own, fin) ==
    {eff \in [DOMAIN all -> Effect] : \A id \in DOMAIN all :
        /\ eff[id].reason # "" => eff[id].reason = fin[id] /\ eff[id].controls # {}
        /\ own[id].reason # "" => eff[id].reason = fin[id]}

RightIn(all, fin, eff) == {id \in DOMAIN all : eff[id].reason = fin[id]}

(* One turn of the loop stays below the state of rest and fills gaps.      *)
LEMMA MarkedStep ==
    ASSUME NEW all, Sane(all), Closed(all), NEW own, NEW fin, Settled(all, own, fin),
           NEW eff \in Partial(all, own, fin), NEW id
    PROVE  /\ Marked(all, eff, id) \in Partial(all, own, fin)
           /\ RightIn(all, fin, eff) \subseteq RightIn(all, fin, Marked(all, eff, id))
           /\ (id \in DOMAIN all /\ \A c \in DOMAIN all : c < id => c \in RightIn(all, fin, eff))
              => id \in RightIn(all, fin, Marked(all, eff, id))
  <1> DEFINE D == DOMAIN all
             new == [reason |-> "revoked_ancestor", controls |-> Inherited(all, eff, id)]
  <1>1. \A d \in D : \A p \in all[d].parents : p \in D /\ p < d
    BY SaneIds DEF Closed
  <1>2. eff \in [D -> Effect] /\ \A d \in D : eff[d].controls \in SUBSET Nat
    BY DEF Partial, Effect
  <1>3. ASSUME id \in D PROVE Inherited(all, eff, id) \in SUBSET Nat
    BY <1>1, <1>2, <1>3 DEF Inherited
  <1>4. ASSUME id \in D, NEW q \in all[id].parents, Silencing(eff[q].reason)
        PROVE  Inherited(all, eff, id) # {} /\ fin[q] = eff[q].reason
    <2>1. q \in D
      BY <1>1, <1>4
    <2>2. eff[q].controls # {} /\ fin[q] = eff[q].reason
      BY <1>4, <2>1 DEF Partial, Silencing
    <2>3. eff[q].controls \subseteq Inherited(all, eff, id)
      BY <1>4 DEF Inherited, Silencing
    <2> QED
      BY <2>2, <2>3
  <1>5. ASSUME id \in D, eff[id].reason = "", Inherited(all, eff, id) # {}
        PROVE  fin[id] = "revoked_ancestor"
    <2>1. PICK q \in all[id].parents : Silencing(eff[q].reason)
      BY <1>5 DEF Inherited, Silencing
    <2>2. Silencing(fin[q])
      BY <1>4, <1>5, <2>1
    <2>3. own[id].reason # "" => fin[id] = own[id].reason /\ eff[id].reason = fin[id]
      BY <1>5 DEF Settled, Partial
    <2>4. own[id].reason = ""
      BY <1>5, <2>3
    <2> QED
      BY <1>5, <2>2, <2>4 DEF Settled
  <1>6. CASE id \in D /\ eff[id].reason = "" /\ Inherited(all, eff, id) # {}
    <2>1. Marked(all, eff, id) = [eff EXCEPT ![id] = new]
      BY <1>6 DEF Marked
    <2>2. new \in Effect /\ new.reason = fin[id] /\ new.controls # {}
      BY <1>3, <1>5, <1>6 DEF Effect, EffectReasons
    <2> HIDE DEF new
    <2>3. /\ [eff EXCEPT ![id] = new] \in [D -> Effect]
          /\ [eff EXCEPT ![id] = new][id] = new
          /\ \A d \in D : d # id => [eff EXCEPT ![id] = new][d] = eff[d]
      BY <1>2, <1>6, <2>2
    <2>4. [eff EXCEPT ![id] = new] \in Partial(all, own, fin)
      BY <2>2, <2>3 DEF Partial
    <2>5. RightIn(all, fin, eff) \subseteq RightIn(all, fin, [eff EXCEPT ![id] = new])
      BY <2>2, <2>3 DEF RightIn
    <2>6. id \in RightIn(all, fin, [eff EXCEPT ![id] = new])
      BY <1>6, <2>2, <2>3 DEF RightIn
    <2> QED
      BY <2>1, <2>4, <2>5, <2>6
  <1>7. CASE ~(id \in D /\ eff[id].reason = "" /\ Inherited(all, eff, id) # {})
    <2>1. Marked(all, eff, id) = eff
      BY <1>7 DEF Marked
    <2>2. ASSUME id \in D, \A c \in D : c < id => c \in RightIn(all, fin, eff)
          PROVE  eff[id].reason = fin[id]
      <3>1. CASE own[id].reason # "" \/ eff[id].reason # ""
        BY <2>2, <3>1 DEF Partial
      <3>2. CASE own[id].reason = "" /\ eff[id].reason = ""
        <4>1. Inherited(all, eff, id) = {}
          BY <1>7, <2>2, <3>2
        <4>2. ASSUME NEW p \in all[id].parents PROVE ~Silencing(fin[p])
          <5>1. p \in RightIn(all, fin, eff)
            BY <1>1, <2>2
          <5>2. fin[p] = eff[p].reason
            BY <5>1 DEF RightIn
          <5> QED
            BY <1>4, <2>2, <4>1, <5>2
        <4> QED
          BY <2>2, <3>2, <4>2 DEF Settled
      <3> QED
        BY <3>1, <3>2
    <2> QED
      BY <2>1, <2>2 DEF RightIn
  <1> QED
    BY <1>6, <1>7

(* One pass of the loop gains an id, unless nothing is left.               *)
LEMMA AncestorPassProgress ==
    ASSUME NEW all, Sane(all), Closed(all), NEW own, NEW fin, Settled(all, own, fin),
           NEW order, Covering(all, order)
    PROVE  Progress(DOMAIN all, Partial(all, own, fin),
                    [x \in Partial(all, own, fin) |-> RightIn(all, fin, x)],
                    [x \in Partial(all, own, fin) |-> AncestorPass(all, order, x)])
  <1>0. PICK m \in Nat : m = Len(order)
    BY DEF Covering
  <1> DEFINE D == DOMAIN all
             X == Partial(all, own, fin)
             right == [x \in X |-> RightIn(all, fin, x)]
             I == D \cup {order[n] : n \in 1 .. m}
             step == [i \in I |-> [x \in X |-> Marked(all, x, i)]]
             turn == [n \in 1 .. m |-> step[order[n]]]
  <1>1. m \in Nat /\ \A d \in D : \E n \in 1 .. m : order[n] = d
    BY <1>0 DEF Covering
  <1>2. D \in SUBSET Nat
    BY SaneIds
  <1>3. \A i : \A x \in X :
          /\ Marked(all, x, i) \in X
          /\ RightIn(all, fin, x) \subseteq RightIn(all, fin, Marked(all, x, i))
          /\ (i \in D /\ \A c \in D : c < i => c \in RightIn(all, fin, x))
             => i \in RightIn(all, fin, Marked(all, x, i))
    BY MarkedStep
  <1>4. right \in [X -> SUBSET D] /\ \A x \in X : right[x] = RightIn(all, fin, x)
    BY DEF RightIn
  <1>5. step \in [I -> [X -> X]] /\ \A i \in I : \A x \in X : step[i][x] = Marked(all, x, i)
    BY <1>3
  <1>6. D \subseteq I /\ \A n \in 1 .. m : order[n] \in I
    OBVIOUS
  <1>7. turn \in [1 .. m -> [X -> X]]
        /\ \A n \in 1 .. m : \A x \in X : turn[n][x] = Marked(all, x, order[n])
    <2> HIDE DEF step, I, X
    <2> QED
      BY <1>5, <1>6
  <1>8. Steps(D, I, X, right, step)
    <2>1. ASSUME NEW i \in I, NEW x \in X PROVE right[x] \subseteq right[step[i][x]]
      <3> HIDE DEF right, step, I, X, D
      <3> QED
        BY <1>3, <1>4, <1>5
    <2>2. ASSUME NEW d \in D, NEW x \in X, \A c \in D : c < d => c \in right[x]
          PROVE  d \in right[step[d][x]]
      <3>1. d \in I
        OBVIOUS
      <3> HIDE DEF right, step, I, X, D
      <3> QED
        BY <1>3, <1>4, <1>5, <2>2, <3>1
    <2> HIDE DEF right, step, I, X, D
    <2> QED
      BY <1>5, <2>1, <2>2 DEF Steps
  <1>9. ASSUME NEW x \in X
        PROVE  Gains(D, X, right, x, AncestorPass(all, order, x))
    <2> DEFINE Eq(h) == h = [i \in 0 .. Len(order) |->
                               IF i = 0 THEN x ELSE Marked(all, h[i - 1], order[i])]
               at == CHOOSE h : Eq(h)
    <2> HIDE DEF right, step, I, X, D, turn
    <2>1. PICK f : Turns(m, X, x, turn, f)
      BY <1>1, <1>7, TurnsExist
    <2>2. Eq(f)
      <3>1. f \in [0 .. m -> X] /\ f[0] = x /\ \A n \in 1 .. m : f[n] = turn[n][f[n - 1]]
        BY <2>1 DEF Turns
      <3>2. \A n \in 1 .. m : n - 1 \in 0 .. m
        BY <1>1
      <3>3. \A n \in 1 .. m : f[n] = Marked(all, f[n - 1], order[n])
        BY <1>7, <3>1, <3>2
      <3>4. \A n \in 0 .. m : n # 0 => n \in 1 .. m
        BY <1>1
      <3> QED
        BY <1>0, <3>1, <3>3, <3>4
    <2>3. Eq(at)
      <3> HIDE DEF Eq
      <3> QED
        BY <2>2
    <2> HIDE DEF at
    <2>4. at = [n \in 0 .. m |-> at[n]] /\ at[0] = x
          /\ \A n \in 1 .. m : at[n] = Marked(all, at[n - 1], order[n])
      BY <1>0, <2>3
    <2>5. Turns(m, X, x, turn, at)
      <3>1. \A n \in 1 .. m : at[n - 1] \in X => at[n] = turn[n][at[n - 1]]
        BY <1>7, <2>4
      <3> QED
        BY <1>1, <1>7, <2>4, <3>1, TurnsIs
    <2>6. AncestorPass(all, order, x) = at[m]
      BY <1>0 DEF AncestorPass, at
    <2>7. Visits(m, order, D, I, step, turn)
      BY <1>1, <1>6 DEF Visits, turn
    <2>8. right \in [X -> SUBSET D] /\ x \in X /\ m \in Nat
      BY <1>4
    <2>9. Gains(D, X, right, x, at[m])
      BY <1>2, <1>8, <2>5, <2>7, <2>8, OnePass
    <2> QED
      BY <2>6, <2>9
  <1> HIDE DEF right, X, D
  <1>10. [x \in X |-> AncestorPass(all, order, x)] \in [X -> X]
    BY <1>9 DEF Gains
  <1>11. Progress(D, X, right, [x \in X |-> AncestorPass(all, order, x)])
    BY <1>9, <1>10 DEF Progress
  <1> QED
    BY <1>11 DEF right, X, D

(* Whatever the order, the loop ends with the settled reasons.             *)
LEMMA EffectsSettle ==
    ASSUME NEW all, Sane(all), Closed(all), NEW own, OwnEffects(all, own),
           NEW fin, Settled(all, own, fin), NEW order, Covering(all, order),
           NEW effective, Provoked(all, own, effective)
    PROVE  \A id \in DOMAIN all : Effects(all, own, effective, order)[id].reason = fin[id]
  <1>0. PICK k \in Nat : k = Cardinality(DOMAIN all)
    BY SaneIds, FS_CardinalityType
  <1> DEFINE D == DOMAIN all
             X == Partial(all, own, fin)
             right == [x \in X |-> RightIn(all, fin, x)]
             pass == [x \in X |-> AncestorPass(all, order, x)]
             turn == [n \in 1 .. k |-> pass]
             Eq(h) == h = [n \in 0 .. Cardinality(DOMAIN all) |->
                             IF n = 0 THEN own ELSE AncestorPass(all, order, h[n - 1])]
             at == CHOOSE h : Eq(h)
  <1>1. D \in SUBSET Nat /\ IsFiniteSet(D)
    BY SaneIds
  <1>2. k \in Nat /\ k = Cardinality(D)
    BY <1>0
  <1>3. own \in X
    BY DEF OwnEffects, Partial, Settled
  <1>4. Progress(D, X, right, pass)
    BY AncestorPassProgress
  <1>5. right \in [X -> SUBSET D] /\ \A x \in X : right[x] = RightIn(all, fin, x)
    BY DEF RightIn
  <1>6. pass \in [X -> X] /\ \A x \in X : pass[x] = AncestorPass(all, order, x)
    BY <1>4 DEF Progress
  <1>7. CASE effective = {}
    <2>1. \A id \in D : own[id].reason = ""
      BY <1>7 DEF Provoked
    <2> DEFINE H == {id \in D : fin[id] = ""}
    <2>2. ASSUME NEW d \in D, \A c \in D : c < d => c \in H PROVE d \in H
      <3>1. \A p \in all[d].parents : p \in D /\ p < d
        BY SaneIds DEF Closed
      <3>2. \A p \in all[d].parents : ~Silencing(fin[p])
        BY <2>2, <3>1 DEF Silencing
      <3> QED
        BY <2>1, <3>2 DEF Settled
    <2>3. D \subseteq H
      <3> HIDE DEF D, H
      <3> QED
        BY <1>1, <2>2, FromBelow
    <2> QED
      BY <1>7, <2>1, <2>3 DEF Effects
  <1>8. CASE effective # {}
    <2> HIDE DEF right, X, D, pass, turn
    <2>0. turn \in [1 .. k -> [X -> X]] /\ \A n \in 1 .. k : turn[n] = pass
      BY <1>6 DEF turn
    <2>1. PICK f : Turns(k, X, own, turn, f)
      BY <1>2, <1>3, <2>0, TurnsExist
    <2>2. Eq(f)
      <3>1. f \in [0 .. k -> X] /\ f[0] = own /\ \A n \in 1 .. k : f[n] = turn[n][f[n - 1]]
        BY <2>1 DEF Turns
      <3>2. \A n \in 1 .. k : n - 1 \in 0 .. k
        BY <1>2
      <3>3. \A n \in 1 .. k : f[n] = AncestorPass(all, order, f[n - 1])
        BY <1>6, <2>0, <3>1, <3>2
      <3>4. \A n \in 0 .. k : n # 0 => n \in 1 .. k
        BY <1>2
      <3> QED
        BY <1>0, <3>1, <3>3, <3>4
    <2>3. Eq(at)
      <3> HIDE DEF Eq
      <3> QED
        BY <2>2
    <2>4. at = [n \in 0 .. k |-> at[n]] /\ at[0] = own
          /\ \A n \in 1 .. k : at[n] = AncestorPass(all, order, at[n - 1])
      <3> HIDE DEF at
      <3> QED
        BY <1>0, <2>3
    <2> HIDE DEF at
    <2>5. Turns(k, X, own, turn, at)
      <3>1. \A n \in 1 .. k : at[n - 1] \in X => at[n] = turn[n][at[n - 1]]
        BY <1>6, <2>0, <2>4
      <3> QED
        BY <1>2, <1>3, <2>0, <2>4, <3>1, TurnsIs
    <2>6. Turns(k, X, own, [n \in 1 .. k |-> pass], at)
      BY <2>5 DEF turn
    <2>7. at[k] \in X /\ right[at[k]] = D
      BY <1>1, <1>2, <1>3, <1>4, <1>5, <2>6, AllPasses
    <2>8. Effects(all, own, effective, order) = at[k]
      BY <1>0, <1>8 DEF Effects, at
    <2> QED
      BY <1>5, <2>7, <2>8 DEF RightIn, D
  <1> QED
    BY <1>7, <1>8

-----------------------------------------------------------------------------
(* derive                                                                  *)

(* The strata of effective revokes.                                        *)
Strata(all, lineage, cones, k, upto) ==
    /\ upto \in [0 .. k -> SUBSET RevokesOf(all)]
    /\ upto[0] = Relinquishments(all)
    /\ \A d \in 1 .. k : upto[d] = upto[d - 1] \cup Batch(all, lineage, cones, upto[d - 1], d)

(* EffectiveRevokes is the last of its strata.                             *)
LEMMA StrataExist ==
    ASSUME NEW all, Sane(all), NEW lineage, NEW cones
    PROVE  \E k \in Nat : \E upto :
              /\ k = Cardinality(GrantsOf(all))
              /\ Strata(all, lineage, cones, k, upto)
              /\ EffectiveRevokes(all, lineage, cones) = upto[k]
  <1>1. PICK k \in Nat : k = Cardinality(GrantsOf(all))
    <2>1. GrantsOf(all) \subseteq DOMAIN all
      BY DEF GrantsOf
    <2>2. IsFiniteSet(GrantsOf(all))
      BY <2>1, SaneIds, FS_Subset
    <2> QED
      BY <2>2, FS_CardinalityType
  <1> DEFINE X == SUBSET RevokesOf(all)
             next(x, d) == x \cup Batch(all, lineage, cones, x, d)
             turn == [d \in 1 .. k |-> [x \in X |-> next(x, d)]]
             start == Relinquishments(all)
             Eq(h) == h = [d \in 0 .. Cardinality(GrantsOf(all)) |->
                             IF d = 0 THEN Relinquishments(all)
                             ELSE h[d - 1] \cup Batch(all, lineage, cones, h[d - 1], d)]
             at == CHOOSE h : Eq(h)
  <1>2. start \in X
    BY DEF Relinquishments
  <1>3. \A x, d : Batch(all, lineage, cones, x, d) \subseteq RevokesOf(all)
    BY DEF Batch
  <1>4. turn \in [1 .. k -> [X -> X]] /\ \A d \in 1 .. k : \A x \in X : turn[d][x] = next(x, d)
    BY <1>3
  <1> HIDE DEF X, turn
  <1>5. PICK f : Turns(k, X, start, turn, f)
    <2> HIDE DEF start
    <2> QED
      BY <1>2, <1>4, TurnsExist
  <1>6. Eq(f)
    <2>1. f \in [0 .. k -> X] /\ f[0] = start /\ \A n \in 1 .. k : f[n] = turn[n][f[n - 1]]
      BY <1>5 DEF Turns
    <2>2. \A n \in 1 .. k : n - 1 \in 0 .. k
      OBVIOUS
    <2>3. \A n \in 1 .. k : f[n] = next(f[n - 1], n)
      <3> HIDE DEF next, start
      <3> QED
        BY <1>4, <2>1, <2>2
    <2>4. \A n \in 0 .. k : n # 0 => n \in 1 .. k
      OBVIOUS
    <2> QED
      BY <1>1, <2>1, <2>3, <2>4
  <1>7. Eq(at)
    <2> HIDE DEF Eq
    <2> QED
      BY <1>6
  <1> HIDE DEF at
  <1>8. at = [n \in 0 .. k |-> at[n]] /\ at[0] = start
        /\ \A n \in 1 .. k : at[n] = next(at[n - 1], n)
    <2>1. at = [d \in 0 .. k |-> IF d = 0 THEN start ELSE next(at[d - 1], d)]
      BY <1>1, <1>7
    <2>2. \A n \in 1 .. k : n \in 0 .. k /\ n # 0
      OBVIOUS
    <2> HIDE DEF next, start
    <2> QED
      BY <2>1, <2>2
  <1>9. Turns(k, X, start, turn, at)
    <2> HIDE DEF next, start
    <2>1. \A n \in 1 .. k : at[n - 1] \in X => at[n] = turn[n][at[n - 1]]
      BY <1>4, <1>8
    <2> QED
      BY <1>2, <1>4, <1>8, <2>1, TurnsIs
  <1>10. at \in [0 .. k -> SUBSET RevokesOf(all)]
    BY <1>9 DEF Turns, X
  <1>11. Strata(all, lineage, cones, k, at)
    BY <1>8, <1>10 DEF Strata
  <1>12. EffectiveRevokes(all, lineage, cones) = at[k]
    BY <1>1 DEF EffectiveRevokes, at
  <1> QED
    BY <1>1, <1>11, <1>12

(* A stratum holds the ones above it.                                      *)
LEMMA StrataGrow ==
    ASSUME NEW all, NEW lineage, NEW cones, NEW k \in Nat, NEW upto,
           Strata(all, lineage, cones, k, upto), NEW j \in 0 .. k
    PROVE  \A n \in 0 .. k : j <= n => upto[j] \subseteq upto[n]
  <1> DEFINE G == {n \in 0 .. k : j <= n => upto[j] \subseteq upto[n]}
  <1>1. 0 \in G
    OBVIOUS
  <1>2. ASSUME NEW n \in 0 .. k - 1, n \in G PROVE n + 1 \in G
    <2>1. n + 1 \in 1 .. k /\ (n + 1) - 1 = n /\ n + 1 \in 0 .. k
      OBVIOUS
    <2>2. upto[n] \subseteq upto[n + 1]
      BY <2>1 DEF Strata
    <2>3. CASE j <= n
      BY <1>2, <2>1, <2>2, <2>3
    <2>4. CASE ~(j <= n)
      <3>1. j <= n + 1 => j = n + 1
        BY <2>4
      <3> QED
        BY <2>1, <3>1
    <2> QED
      BY <2>3, <2>4
  <1>3. 0 .. k \subseteq G
    <2> HIDE DEF G
    <2> QED
      BY <1>1, <1>2, Upward
  <1> QED
    BY <1>3

(* Effective revokes are revokes, relinquishments among them.              *)
LEMMA EffectiveFacts ==
    ASSUME NEW all, Sane(all), NEW lineage, NEW cones
    PROVE  /\ EffectiveRevokes(all, lineage, cones) \subseteq RevokesOf(all)
           /\ Relinquishments(all) \subseteq EffectiveRevokes(all, lineage, cones)
  <1>0. PICK k \in Nat : \E upto :
              /\ k = Cardinality(GrantsOf(all))
              /\ Strata(all, lineage, cones, k, upto)
              /\ EffectiveRevokes(all, lineage, cones) = upto[k]
    BY StrataExist
  <1>1. PICK upto : /\ Strata(all, lineage, cones, k, upto)
                    /\ EffectiveRevokes(all, lineage, cones) = upto[k]
    BY <1>0
  <1>2. 0 \in 0 .. k /\ k \in 0 .. k /\ 0 <= k
    OBVIOUS
  <1>3. upto[0] \subseteq upto[k]
    BY <1>1, <1>2, StrataGrow
  <1> QED
    BY <1>1, <1>2, <1>3 DEF Strata

(* The own effects that derive starts from.                                *)
OwnOf(all, lineage, cones, effective) ==
    [id \in DOMAIN all |-> OwnEffect(all, lineage, cones, effective, id)]

(* Own effects are of the shapes that the loop expects.                    *)
LEMMA OwnOfFacts ==
    ASSUME NEW all, Sane(all), NEW lineage, NEW cones, NEW effective,
           effective \subseteq RevokesOf(all), Relinquishments(all) \subseteq effective
    PROVE  /\ OwnEffects(all, OwnOf(all, lineage, cones, effective))
           /\ Provoked(all, OwnOf(all, lineage, cones, effective), effective)
  <1>1. DOMAIN all \subseteq Nat
    BY SaneIds
  <1>2. effective \in SUBSET Nat
    BY <1>1 DEF RevokesOf
  <1>3. ASSUME NEW id \in DOMAIN all
        PROVE  LET e == OwnEffect(all, lineage, cones, effective, id) IN
               /\ e \in Effect
               /\ e.reason # "" => e.controls # {} /\ effective # {}
    <2> DEFINE controls == {r \in effective : Covers(all, lineage, r, Signer(all, id))
                                              /\ Outside(all, cones, id, r)}
               mine == Cancellers(all, lineage, cones, effective, id)
               its == Cancellers(all, lineage, cones, effective, Signer(all, id))
    <2>1. controls \subseteq effective /\ mine \subseteq effective /\ its \subseteq effective
      BY DEF Cancellers
    <2>2. id \in Nat
      BY <1>1
    <2>3. OwnEffect(all, lineage, cones, effective, id) =
            IF id \in Relinquishments(all)
            THEN [reason |-> "root_relinquished", controls |-> {id}]
            ELSE IF controls # {}
            THEN [reason |-> "revoked_concurrent", controls |-> controls]
            ELSE IF id \in GrantsOf(all) /\ mine # {}
            THEN [reason |-> "canceled_grant", controls |-> mine]
            ELSE IF its # {}
            THEN [reason |-> "canceled_authority", controls |-> its]
            ELSE [reason |-> "", controls |-> {}]
      BY DEF OwnEffect
    <2> HIDE DEF controls, mine, its
    <2>4. controls \in SUBSET Nat /\ mine \in SUBSET Nat /\ its \in SUBSET Nat
      BY <1>2, <2>1
    <2> DEFINE own == OwnEffect(all, lineage, cones, effective, id)
    <2>5. \/ id \in Relinquishments(all) /\ own = [reason |-> "root_relinquished", controls |-> {id}]
          \/ controls # {} /\ own = [reason |-> "revoked_concurrent", controls |-> controls]
          \/ mine # {} /\ own = [reason |-> "canceled_grant", controls |-> mine]
          \/ its # {} /\ own = [reason |-> "canceled_authority", controls |-> its]
          \/ own = [reason |-> "", controls |-> {}]
      <3> HIDE DEF own
      <3> QED
        BY <2>3 DEF own
    <2> HIDE DEF own
    <2>6. ASSUME NEW why \in EffectReasons, NEW C \in SUBSET Nat,
                 own = [reason |-> why, controls |-> C], why # "" => C # {} /\ effective # {}
          PROVE  own \in Effect /\ (own.reason # "" => own.controls # {} /\ effective # {})
      BY <2>6 DEF Effect
    <2>7. {"root_relinquished", "revoked_concurrent", "canceled_grant",
           "canceled_authority", ""} \subseteq EffectReasons
      BY DEF EffectReasons
    <2>8. id \in Relinquishments(all) => effective # {}
      OBVIOUS
    <2>9. own \in Effect /\ (own.reason # "" => own.controls # {} /\ effective # {})
      <3>1. CASE id \in Relinquishments(all)
                 /\ own = [reason |-> "root_relinquished", controls |-> {id}]
        <4>1. {id} \in SUBSET Nat /\ {id} # {}
          BY <2>2
        <4> QED
          BY <2>6, <2>7, <2>8, <3>1, <4>1
      <3>2. CASE controls # {} /\ own = [reason |-> "revoked_concurrent", controls |-> controls]
        BY <2>1, <2>4, <2>6, <2>7, <3>2
      <3>3. CASE mine # {} /\ own = [reason |-> "canceled_grant", controls |-> mine]
        BY <2>1, <2>4, <2>6, <2>7, <3>3
      <3>4. CASE its # {} /\ own = [reason |-> "canceled_authority", controls |-> its]
        BY <2>1, <2>4, <2>6, <2>7, <3>4
      <3>5. CASE own = [reason |-> "", controls |-> {}]
        BY <2>6, <2>7, <3>5
      <3> QED
        BY <2>5, <3>1, <3>2, <3>3, <3>4, <3>5
    <2> QED
      BY <2>9 DEF own
  <1> QED
    BY <1>3 DEF OwnEffects, Provoked, OwnOf

(* What derive says of every event does not depend on the order, nor on    *)
(* what else the order names.                                              *)
LEMMA DeriveSettles ==
    ASSUME NEW all, Sane(all), Closed(all), NEW lineage, NEW cones,
           NEW order, Covering(all, order), NEW fin,
           Settled(all, OwnOf(all, lineage, cones, EffectiveRevokes(all, lineage, cones)), fin)
    PROVE  \A id \in DOMAIN all :
              DeriveFrom(all, lineage, cones, order).effects[id].reason = fin[id]
  <1> DEFINE effective == EffectiveRevokes(all, lineage, cones)
             own == OwnOf(all, lineage, cones, effective)
  <1>1. effective \subseteq RevokesOf(all) /\ Relinquishments(all) \subseteq effective
    BY EffectiveFacts
  <1>2. OwnEffects(all, own) /\ Provoked(all, own, effective)
    <2> HIDE DEF effective
    <2> QED
      BY <1>1, OwnOfFacts
  <1>3. DeriveFrom(all, lineage, cones, order).effects = Effects(all, own, effective, order)
    BY DEF DeriveFrom, Standing, OwnOf
  <1>4. Settled(all, own, fin)
    OBVIOUS
  <1> HIDE DEF own, effective
  <1>5. \A id \in DOMAIN all : Effects(all, own, effective, order)[id].reason = fin[id]
    BY <1>2, <1>4, EffectsSettle
  <1> QED
    BY <1>3, <1>5

(* authority::derive: the hash order only shows in the reported controls.  *)
LEMMA DeriveAlike ==
    ASSUME NEW all, Sane(all), Closed(all), NEW lineage, NEW cones,
           NEW o, Covering(all, o), NEW q, Covering(all, q)
    PROVE  LET v == DeriveFrom(all, lineage, cones, o)
               w == DeriveFrom(all, lineage, cones, q)
           IN  /\ v.grants = w.grants /\ v.effective = w.effective /\ v.active = w.active
               /\ v.canceled = w.canceled /\ v.tombstones = w.tombstones
               /\ \A id \in DOMAIN all : v.effects[id].reason = w.effects[id].reason
  <1>1. PICK fin : Settled(all, OwnOf(all, lineage, cones,
                                      EffectiveRevokes(all, lineage, cones)), fin)
    <2> DEFINE effective == EffectiveRevokes(all, lineage, cones)
    <2>1. effective \subseteq RevokesOf(all) /\ Relinquishments(all) \subseteq effective
      BY EffectiveFacts
    <2> HIDE DEF effective
    <2>2. OwnEffects(all, OwnOf(all, lineage, cones, effective))
      BY <2>1, OwnOfFacts
    <2>3. \E fin : Settled(all, OwnOf(all, lineage, cones, effective), fin)
      BY <2>2, SettledExists
    <2> QED
      BY <2>3 DEF effective
  <1>2. \A id \in DOMAIN all : DeriveFrom(all, lineage, cones, o).effects[id].reason
                               = DeriveFrom(all, lineage, cones, q).effects[id].reason
    BY <1>1, DeriveSettles
  <1> QED
    BY <1>2 DEF DeriveFrom, Standing

-----------------------------------------------------------------------------
(* classify                                                                *)

StatusReasons ==
    {"", "precision", "genesis", "parents", "subject_header", "parent_missing",
     "wrong_subject", "ancestor", "subject_key_changed", "subject_missing",
     "decision_mismatch", "authority_time_edit", "comparable_parents",
     "parent_authority", "issuer_grant_mismatch", "key_not_fresh", "revocation_scope",
     "disposition_mismatch", "revision_unreachable", "revision_ineligible",
     "selection_time_edit", "cycle", "pin_missing", "pin_subject", "pin_invalid",
     "pin_pending", "pin_revision", "pin_body", "relation", "dispute_counterclaim",
     "endpoint_changed", "wrong_edge", "edge_author", "artifact_kind",
     "revision_missing", "target_missing", "attestation_target", "target_invalid",
     "target_pending", "non_subject_header"}
Status == [state : {"valid", "invalid", "pending"}, reason : StatusReasons,
           missing : SUBSET Nat]

(* What Valid, Invalid and Pending make are statuses.                      *)
LEMMA StatusFacts ==
    /\ Valid \in Status /\ Valid.state = "valid"
    /\ \A r \in StatusReasons : Invalid(r) \in Status /\ Invalid(r).state = "invalid"
    /\ \A r \in StatusReasons : \A M \in SUBSET Nat :
          Pending(r, M) \in Status /\ Pending(r, M).state = "pending"
  <1>1. "" \in StatusReasons
    BY DEF StatusReasons
  <1> QED
    BY <1>1 DEF Status, Valid, Invalid, Pending

(* The first refusal is the verdict.                                       *)
LEMMA VerdictIs ==
    ASSUME NEW a, NEW b, NEW c
    PROVE  Verdict(<<a, b, c>>) =
             IF a # "" THEN Invalid(a) ELSE IF b # "" THEN Invalid(b)
             ELSE IF c # "" THEN Invalid(c) ELSE Valid
  <1> DEFINE f == <<a, b, c>>
             refused == {i \in DOMAIN f : f[i] # ""}
             first == CHOOSE i \in refused : \A j \in refused : i <= j
  <1>1. DOMAIN f = {1, 2, 3} /\ f[1] = a /\ f[2] = b /\ f[3] = c
    OBVIOUS
  <1>2. refused \subseteq {1, 2, 3}
        /\ (1 \in refused <=> a # "") /\ (2 \in refused <=> b # "") /\ (3 \in refused <=> c # "")
    BY <1>1
  <1>3. Verdict(f) = IF refused = {} THEN Valid ELSE Invalid(f[first])
    BY DEF Verdict
  <1> HIDE DEF f, refused
  <1>4. ASSUME NEW i \in refused, \A j \in refused : i <= j PROVE first = i
    <2>1. first \in refused /\ \A j \in refused : first <= j
      BY <1>4
    <2>2. first <= i /\ i <= first /\ first \in {1, 2, 3} /\ i \in {1, 2, 3}
      BY <1>2, <1>4, <2>1
    <2> HIDE DEF first
    <2> QED
      BY <2>2
  <1> HIDE DEF first
  <1>5. CASE a # ""
    <2>0. 1 \in refused
      BY <1>2, <1>5
    <2>1. ASSUME NEW j \in refused PROVE 1 <= j
      <3>1. j = 1 \/ j = 2 \/ j = 3
        BY <1>2
      <3> QED
        BY <3>1
    <2>2. first = 1
      BY <1>4, <2>0, <2>1
    <2> QED
      BY <1>1, <1>3, <1>5, <2>0, <2>2 DEF f
  <1>6. CASE a = "" /\ b # ""
    <2>0. 2 \in refused
      BY <1>2, <1>6
    <2>1. ASSUME NEW j \in refused PROVE 2 <= j
      <3>1. j = 1 \/ j = 2 \/ j = 3
        BY <1>2
      <3>2. j # 1
        BY <1>2, <1>6
      <3> QED
        BY <3>1, <3>2
    <2>2. first = 2
      BY <1>4, <2>0, <2>1
    <2> QED
      BY <1>1, <1>3, <1>6, <2>0, <2>2 DEF f
  <1>7. CASE a = "" /\ b = "" /\ c # ""
    <2>0. 3 \in refused
      BY <1>2, <1>7
    <2>1. ASSUME NEW j \in refused PROVE 3 <= j
      <3>1. j = 1 \/ j = 2 \/ j = 3
        BY <1>2
      <3>2. j # 1 /\ j # 2
        BY <1>2, <1>7
      <3> QED
        BY <3>1, <3>2
    <2>2. first = 3
      BY <1>4, <2>0, <2>1
    <2> QED
      BY <1>1, <1>3, <1>7, <2>0, <2>2 DEF f
  <1>8. CASE a = "" /\ b = "" /\ c = ""
    <2>1. refused = {}
      BY <1>2, <1>8
    <2> QED
      BY <1>3, <1>8, <2>1 DEF f
  <1> QED
    BY <1>5, <1>6, <1>7, <1>8

(* The verdict on an event whose parents are valid is a status.            *)
LEMMA SemanticsType ==
    ASSUME NEW all, NEW e, e.kind \in SubjectKinds \ {"genesis"},
           NEW past, NEW seen, NEW order
    PROVE  Semantics(all, e, past, seen, order) \in Status
  <1>1. DecisionFault(e) \in StatusReasons
    BY DEF DecisionFault, StatusReasons
  <1>2. AuthorityFault(all, e, seen, order) \in StatusReasons
    BY DEF AuthorityFault, StatusReasons
  <1>3. KindFault(all, e, past, seen) \in StatusReasons
    <2>1. /\ CorrectionFault(all, e, past) \in StatusReasons
          /\ DelegateFault(all, e, seen) \in StatusReasons
          /\ RevokeFault(all, e, past, seen) \in StatusReasons
      BY DEF CorrectionFault, DelegateFault, RevokeFault, StatusReasons
    <2>2. ResolveFault(all, e, past, seen) \in StatusReasons
      BY DEF ResolveFault, StatusReasons
    <2> QED
      BY <2>1, <2>2 DEF KindFault, SubjectKinds
  <1>4. Valid \in Status /\ \A r \in StatusReasons : Invalid(r) \in Status
    BY StatusFacts
  <1> DEFINE a == DecisionFault(e)
             b == AuthorityFault(all, e, seen, order)
             c == KindFault(all, e, past, seen)
  <1>5. Semantics(all, e, past, seen, order) = Verdict(<<a, b, c>>)
    BY DEF Semantics
  <1>6. a \in StatusReasons /\ b \in StatusReasons /\ c \in StatusReasons
    BY <1>1, <1>2, <1>3
  <1> HIDE DEF a, b, c
  <1>7. Verdict(<<a, b, c>>) = IF a # "" THEN Invalid(a) ELSE IF b # "" THEN Invalid(b)
                               ELSE IF c # "" THEN Invalid(c) ELSE Valid
    BY VerdictIs
  <1> QED
    BY <1>4, <1>5, <1>6, <1>7

(* evaluate returns a status.                                              *)
LEMMA EvaluateType ==
    ASSUME NEW all, Sane(all), NEW id \in SubjectIds(all), NEW out, NEW order
    PROVE  Evaluate(id, all, out, order) \in Status
  <1>0. id \in DOMAIN all /\ IsSubject(all[id])
    BY DEF SubjectIds
  <1>1. all[id].kind \in SubjectKinds
    BY <1>0 DEF Sane, NamesThePast, IsSubject, EdgeKinds, SubjectKinds
  <1>2. MissingParents(all, all[id]) \in SUBSET Nat /\ {all[id].subject} \in SUBSET Nat /\ {} \in SUBSET Nat
    <2>1. all[id].parents \subseteq Nat
      BY <1>0, SaneIds
    <2>2. all[id].subject \in Nat
      BY <1>0 DEF Sane, NamesThePast
    <2> QED
      BY <2>1, <2>2 DEF MissingParents
  <1>3. ParentsFault(all[id]) \in StatusReasons /\ SubjectFault(all, all[id]) \in StatusReasons
    BY DEF ParentsFault, SubjectFault, StatusReasons
  <1>4. all[id].kind # "genesis" =>
          Semantics(all, all[id], Sub(all, PastIds(all, all[id])),
                    Derive(all, PastIds(all, all[id]), order), order) \in Status
    BY <1>1, SemanticsType
  <1>5. {"precision", "genesis", "parent_missing", "wrong_subject", "ancestor",
         "subject_missing"} \subseteq StatusReasons
    BY DEF StatusReasons
  <1> QED
    BY <1>2, <1>3, <1>4, <1>5, StatusFacts DEF Evaluate

(* Only the states of the parents are read, and only when all of them are  *)
(* retained subject events.                                                *)
LEMMA EvaluateReads ==
    ASSUME NEW all, NEW id, NEW out, NEW other, NEW order, Ready(id, all, out),
           \A p \in DOMAIN out : other[p] = out[p]
    PROVE  Evaluate(id, all, other, order) = Evaluate(id, all, out, order)
  <1> DEFINE e == all[id]
             states(o) == {o[p].state : p \in e.parents}
  <1>1. CASE e.kind = "genesis"
    BY <1>1 DEF Evaluate
  <1>2. CASE \E p \in e.parents : ~(p \in DOMAIN all /\ IsSubject(all[p]))
    <2>1. MissingParents(all, e) # {} \/ \E p \in e.parents : ~IsSubject(all[p])
      BY <1>2 DEF MissingParents
    <2> QED
      BY <2>1 DEF Evaluate
  <1>3. CASE e.parents \subseteq DOMAIN out
    <2>1. states(other) = states(out)
      BY <1>3
    <2> QED
      BY <2>1 DEF Evaluate
  <1> QED
    BY <1>1, <1>2, <1>3 DEF Ready

(* The statuses found so far.                                              *)
Found(all, order) ==
    {out \in UNION {[T -> Status] : T \in SUBSET SubjectIds(all)} :
        \A id \in DOMAIN out : /\ Ready(id, all, out)
                               /\ out[id] = Evaluate(id, all, out, order)}

(* What it is to have decided some subject events correctly.               *)
LEMMA FoundFacts ==
    ASSUME NEW all, NEW order, NEW out
    PROVE  out \in Found(all, order) <=>
             /\ DOMAIN out \subseteq SubjectIds(all)
             /\ out \in [DOMAIN out -> Status]
             /\ \A id \in DOMAIN out : /\ Ready(id, all, out)
                                       /\ out[id] = Evaluate(id, all, out, order)
  BY DEF Found

(* One turn of classify keeps that, and decides the least undecided event. *)
LEMMA DecidedStep ==
    ASSUME NEW all, Sane(all), NEW order, NEW out \in Found(all, order), NEW id
    PROVE  LET next == Decided(all, order, out, id) IN
           /\ next \in Found(all, order)
           /\ DOMAIN out \subseteq DOMAIN next
           /\ (id \in SubjectIds(all)
               /\ \A c \in SubjectIds(all) : c < id => c \in DOMAIN out) => id \in DOMAIN next
  <1> DEFINE S == SubjectIds(all)
             new == With(out, id, Evaluate(id, all, out, order))
  <1>0. /\ DOMAIN out \subseteq S
        /\ out \in [DOMAIN out -> Status]
        /\ \A i \in DOMAIN out : Ready(i, all, out) /\ out[i] = Evaluate(i, all, out, order)
    BY FoundFacts
  <1>1. CASE id \in S \ DOMAIN out /\ Ready(id, all, out)
    <2>1. Decided(all, order, out, id) = new
      BY <1>1 DEF Decided
    <2>2. Evaluate(id, all, out, order) \in Status
      BY <1>1, EvaluateType
    <2>3. /\ DOMAIN new = DOMAIN out \cup {id}
          /\ new[id] = Evaluate(id, all, out, order)
          /\ \A i \in DOMAIN out : new[i] = out[i]
      BY <1>1 DEF With
    <2>4. new \in [DOMAIN new -> Status]
      <3>1. new = [x \in DOMAIN new |-> new[x]]
        BY DEF With
      <3>2. \A x \in DOMAIN new : new[x] \in Status
        BY <1>0, <2>2, <2>3
      <3> HIDE DEF new
      <3> QED
        BY <3>1, <3>2
    <2> HIDE DEF new
    <2>5. ASSUME NEW i \in DOMAIN new
          PROVE  Ready(i, all, new) /\ new[i] = Evaluate(i, all, new, order)
      <3>1. Ready(i, all, out) /\ new[i] = Evaluate(i, all, out, order)
        BY <1>0, <1>1, <2>3
      <3>2. Ready(i, all, new)
        BY <2>3, <3>1 DEF Ready
      <3>3. Evaluate(i, all, new, order) = Evaluate(i, all, out, order)
        BY <2>3, <3>1, EvaluateReads
      <3> QED
        BY <3>1, <3>2, <3>3
    <2>6. new \in Found(all, order)
      BY <1>0, <1>1, <2>3, <2>4, <2>5, FoundFacts
    <2> QED
      BY <2>1, <2>3, <2>6
  <1>2. CASE ~(id \in S \ DOMAIN out /\ Ready(id, all, out))
    <2>1. Decided(all, order, out, id) = out
      BY <1>2 DEF Decided
    <2>2. ASSUME id \in S, \A c \in S : c < id => c \in DOMAIN out PROVE id \in DOMAIN out
      <3>1. Ready(id, all, out)
        <4>1. ASSUME NEW p \in all[id].parents, p \in DOMAIN all /\ IsSubject(all[p])
              PROVE  p \in DOMAIN out
          <5>1. p \in S /\ p < id
            BY <2>2, <4>1, SaneIds DEF SubjectIds
          <5> QED
            BY <2>2, <5>1
        <4> QED
          BY <4>1 DEF Ready
      <3> QED
        BY <1>2, <2>2, <3>1
    <2> QED
      BY <2>1, <2>2
  <1> QED
    BY <1>1, <1>2

(* One pass of classify decides an event, unless none is left.             *)
LEMMA ClassifyPassProgress ==
    ASSUME NEW all, Sane(all), NEW order, Covering(all, order)
    PROVE  \A x \in Found(all, order) :
              Gains(SubjectIds(all), Found(all, order), [y \in Found(all, order) |-> DOMAIN y],
                    x, ClassifyPass(all, order, x))
  <1>0. PICK m \in Nat : m = Len(order)
    BY DEF Covering
  <1> DEFINE D == SubjectIds(all)
             X == Found(all, order)
             right == [x \in X |-> DOMAIN x]
             I == D \cup {order[n] : n \in 1 .. m}
             step == [i \in I |-> [x \in X |-> Decided(all, order, x, i)]]
             turn == [n \in 1 .. m |-> step[order[n]]]
  <1>1. \A d \in D : \E n \in 1 .. m : order[n] = d
    BY <1>0 DEF Covering, SubjectIds
  <1>2. D \in SUBSET Nat
    BY SaneIds DEF SubjectIds
  <1>3. \A i : \A x \in X :
          /\ Decided(all, order, x, i) \in X
          /\ DOMAIN x \subseteq DOMAIN Decided(all, order, x, i)
          /\ (i \in D /\ \A c \in D : c < i => c \in DOMAIN x)
             => i \in DOMAIN Decided(all, order, x, i)
    BY DecidedStep
  <1>4. right \in [X -> SUBSET D] /\ \A x \in X : right[x] = DOMAIN x
    BY FoundFacts
  <1>5. step \in [I -> [X -> X]] /\ \A i \in I : \A x \in X : step[i][x] = Decided(all, order, x, i)
    BY <1>3
  <1>6. D \subseteq I /\ \A n \in 1 .. m : order[n] \in I
    OBVIOUS
  <1>7. turn \in [1 .. m -> [X -> X]]
        /\ \A n \in 1 .. m : \A x \in X : turn[n][x] = Decided(all, order, x, order[n])
    <2> HIDE DEF step, I, X
    <2> QED
      BY <1>5, <1>6
  <1>8. Steps(D, I, X, right, step)
    <2>1. ASSUME NEW i \in I, NEW x \in X PROVE right[x] \subseteq right[step[i][x]]
      <3> HIDE DEF right, step, I, X, D
      <3> QED
        BY <1>3, <1>4, <1>5
    <2>2. ASSUME NEW d \in D, NEW x \in X, \A c \in D : c < d => c \in right[x]
          PROVE  d \in right[step[d][x]]
      <3>1. d \in I
        OBVIOUS
      <3> HIDE DEF right, step, I, X, D
      <3> QED
        BY <1>3, <1>4, <1>5, <2>2, <3>1
    <2> HIDE DEF right, step, I, X, D
    <2> QED
      BY <1>5, <2>1, <2>2 DEF Steps
  <1>9. ASSUME NEW x \in X
        PROVE  Gains(D, X, right, x, ClassifyPass(all, order, x))
    <2> DEFINE Eq(h) == h = [i \in 0 .. Len(order) |->
                               IF i = 0 THEN x ELSE Decided(all, order, h[i - 1], order[i])]
               at == CHOOSE h : Eq(h)
    <2> HIDE DEF right, step, I, X, D, turn
    <2>1. PICK f : Turns(m, X, x, turn, f)
      BY <1>7, TurnsExist
    <2>2. Eq(f)
      <3>1. f \in [0 .. m -> X] /\ f[0] = x /\ \A n \in 1 .. m : f[n] = turn[n][f[n - 1]]
        BY <2>1 DEF Turns
      <3>2. \A n \in 1 .. m : n - 1 \in 0 .. m
        OBVIOUS
      <3>3. \A n \in 1 .. m : f[n] = Decided(all, order, f[n - 1], order[n])
        BY <1>7, <3>1, <3>2
      <3>4. \A n \in 0 .. m : n # 0 => n \in 1 .. m
        OBVIOUS
      <3> QED
        BY <1>0, <3>1, <3>3, <3>4
    <2>3. Eq(at)
      <3> HIDE DEF Eq
      <3> QED
        BY <2>2
    <2> HIDE DEF at
    <2>4. at = [n \in 0 .. m |-> at[n]] /\ at[0] = x
          /\ \A n \in 1 .. m : at[n] = Decided(all, order, at[n - 1], order[n])
      BY <1>0, <2>3
    <2>5. Turns(m, X, x, turn, at)
      <3>1. \A n \in 1 .. m : at[n - 1] \in X => at[n] = turn[n][at[n - 1]]
        BY <1>7, <2>4
      <3> QED
        BY <1>7, <2>4, <3>1, TurnsIs
    <2>6. ClassifyPass(all, order, x) = at[m]
      BY <1>0 DEF ClassifyPass, at
    <2>7. Visits(m, order, D, I, step, turn)
      BY <1>1, <1>6 DEF Visits, turn
    <2>8. right \in [X -> SUBSET D] /\ x \in X /\ m \in Nat
      BY <1>4
    <2>9. Gains(D, X, right, x, at[m])
      BY <1>2, <1>8, <2>5, <2>7, <2>8, OnePass
    <2> QED
      BY <2>6, <2>9
  <1> QED
    BY <1>9

(* The statuses that classify is to find: each event is what evaluate says *)
(* of it, given those of its parents.                                      *)
Solves(all, order, status) ==
    /\ status \in [SubjectIds(all) -> Status]
    /\ \A id \in SubjectIds(all) : status[id] = Evaluate(id, all, status, order)

(* classify, in any order, solves the equations of evaluate.               *)
LEMMA ClassifySolves ==
    ASSUME NEW all, Sane(all), NEW order, Covering(all, order)
    PROVE  Solves(all, order, Classify(all, order))
  <1>0. PICK k \in Nat : k = Cardinality(SubjectIds(all))
    <2>1. SubjectIds(all) \subseteq DOMAIN all
      BY DEF SubjectIds
    <2>2. IsFiniteSet(SubjectIds(all))
      BY <2>1, SaneIds, FS_Subset
    <2> QED
      BY <2>2, FS_CardinalityType
  <1> DEFINE D == SubjectIds(all)
             X == Found(all, order)
             right == [x \in X |-> DOMAIN x]
             loop(x) == IF DOMAIN x = SubjectIds(all) THEN x ELSE ClassifyPass(all, order, x)
             pass == [x \in X |-> loop(x)]
             turn == [n \in 1 .. k |-> pass]
             Eq(h) == h = [n \in 0 .. Cardinality(SubjectIds(all)) |->
                             IF n = 0 THEN <<>> ELSE
                             IF DOMAIN h[n - 1] = SubjectIds(all) THEN h[n - 1]
                             ELSE ClassifyPass(all, order, h[n - 1])]
             at == CHOOSE h : Eq(h)
  <1>1. D \in SUBSET Nat /\ IsFiniteSet(D)
    <2>1. D \subseteq DOMAIN all
      BY DEF SubjectIds
    <2> QED
      BY <2>1, SaneIds, FS_Subset
  <1>2. k \in Nat /\ k = Cardinality(D)
    BY <1>0
  <1>3. <<>> \in X
    <2>1. DOMAIN <<>> = {} /\ <<>> \in [{} -> Status]
      OBVIOUS
    <2> QED
      BY <2>1, FoundFacts
  <1>4. right \in [X -> SUBSET D] /\ \A x \in X : right[x] = DOMAIN x
    BY FoundFacts
  <1>5. ASSUME NEW x \in X PROVE Gains(D, X, right, x, loop(x))
    <2>1. CASE DOMAIN x = D
      <3>1. loop(x) = x /\ right[x] = D
        BY <1>4, <2>1
      <3> QED
        BY <3>1 DEF Gains
    <2>2. CASE DOMAIN x # D
      <3>1. loop(x) = ClassifyPass(all, order, x)
        BY <2>2
      <3>2. Gains(D, X, right, x, ClassifyPass(all, order, x))
        BY ClassifyPassProgress
      <3> QED
        BY <3>1, <3>2
    <2> QED
      BY <2>1, <2>2
  <1>6. pass \in [X -> X] /\ \A x \in X : pass[x] = loop(x)
    <2>1. \A x \in X : loop(x) \in X
      <3> HIDE DEF X, D, right, loop
      <3> QED
        BY <1>5 DEF Gains
    <2> HIDE DEF X, loop
    <2> QED
      BY <2>1
  <1>7. Progress(D, X, right, pass)
    <2> HIDE DEF X, D, right, pass, loop
    <2> QED
      BY <1>5, <1>6 DEF Progress
  <1> HIDE DEF right, X, D, pass, turn
  <1>8. turn \in [1 .. k -> [X -> X]] /\ \A n \in 1 .. k : turn[n] = pass
    BY <1>6 DEF turn
  <1>9. PICK f : Turns(k, X, <<>>, turn, f)
    BY <1>2, <1>3, <1>8, TurnsExist
  <1>10. Eq(f)
    <2>1. f \in [0 .. k -> X] /\ f[0] = <<>> /\ \A n \in 1 .. k : f[n] = turn[n][f[n - 1]]
      BY <1>9 DEF Turns
    <2>2. \A n \in 1 .. k : n - 1 \in 0 .. k
      BY <1>2
    <2>3. \A n \in 1 .. k : f[n] = loop(f[n - 1])
      <3> HIDE DEF loop
      <3> QED
        BY <1>6, <1>8, <2>1, <2>2
    <2>4. \A n \in 0 .. k : n # 0 => n \in 1 .. k
      BY <1>2
    <2> QED
      BY <1>0, <2>1, <2>3, <2>4
  <1>11. Eq(at)
    <2> HIDE DEF Eq
    <2> QED
      BY <1>10
  <1> HIDE DEF at
  <1>12. at = [n \in 0 .. k |-> at[n]] /\ at[0] = <<>> /\ \A n \in 1 .. k : at[n] = loop(at[n - 1])
    <2>1. at = [n \in 0 .. k |-> IF n = 0 THEN <<>> ELSE loop(at[n - 1])]
      BY <1>0, <1>11
    <2>2. \A n \in 1 .. k : n \in 0 .. k /\ n # 0
      OBVIOUS
    <2> HIDE DEF loop
    <2> QED
      BY <2>1, <2>2
  <1>13. Turns(k, X, <<>>, turn, at)
    <2> HIDE DEF loop
    <2>1. \A n \in 1 .. k : at[n - 1] \in X => at[n] = turn[n][at[n - 1]]
      BY <1>6, <1>8, <1>12
    <2> QED
      BY <1>2, <1>3, <1>8, <1>12, <2>1, TurnsIs
  <1>14. Turns(k, X, <<>>, [n \in 1 .. k |-> pass], at)
    BY <1>13 DEF turn
  <1>15. at[k] \in X /\ right[at[k]] = D
    BY <1>1, <1>2, <1>3, <1>4, <1>7, <1>14, AllPasses
  <1>16. DOMAIN at[k] = D
    BY <1>4, <1>15
  <1>17. /\ at[k] \in [D -> Status]
         /\ \A id \in D : at[k][id] = Evaluate(id, all, at[k], order)
    BY <1>15, <1>16, FoundFacts DEF X
  <1>18. Classify(all, order) = Completed(D, at[k])
    BY <1>0 DEF Classify, at, D
  <1>19. Completed(D, at[k]) = at[k]
    BY <1>16, <1>17 DEF Completed
  <1> QED
    BY <1>17, <1>18, <1>19 DEF Solves, D

-----------------------------------------------------------------------------
(* edges::classify                                                         *)

(* The check of a pin returns a status.                                    *)
LEMMA PinType ==
    ASSUME NEW pin, pin.subject \in Nat, pin.basis \in Nat, NEW all, NEW out, NEW s
    PROVE  CheckPin(pin, all, out, s) \in Status
  <1>1. {pin.subject, pin.basis} \ DOMAIN all \in SUBSET Nat /\ {} \in SUBSET Nat
    OBVIOUS
  <1>2. {"pin_missing", "pin_subject", "pin_invalid", "pin_pending", "pin_revision",
         "pin_body"} \subseteq StatusReasons
    BY DEF StatusReasons
  <1> QED
    BY <1>1, <1>2, StatusFacts DEF CheckPin

(* The pins of an edge event name natural numbers.                         *)
NatPins(pins) ==
    \A pin \in {pins.source, pins.target} : pin.subject \in Nat /\ pin.basis \in Nat

(* The check of both pins returns a status.                                *)
LEMMA PinsType ==
    ASSUME NEW pins, NatPins(pins), NEW all, NEW out, NEW s
    PROVE  CheckPins(pins, all, out, s) \in Status
  <1> DEFINE src == CheckPin(pins.source, all, out, s)
             tgt == CheckPin(pins.target, all, out, s)
  <1>1. src \in Status /\ tgt \in Status
    BY PinType DEF NatPins
  <1>2. CheckPins(pins, all, out, s) =
          IF src.state = "invalid" THEN src
          ELSE IF tgt.state = "invalid" THEN tgt
          ELSE IF src.missing \cup tgt.missing # {}
          THEN Pending("pin_missing", src.missing \cup tgt.missing)
          ELSE IF src.state = "pending" THEN src ELSE tgt
    BY DEF CheckPins
  <1> HIDE DEF src, tgt
  <1>3. src.missing \cup tgt.missing \in SUBSET Nat
    BY <1>1 DEF Status
  <1>4. "pin_missing" \in StatusReasons
    BY DEF StatusReasons
  <1> QED
    BY <1>1, <1>2, <1>3, <1>4, StatusFacts

(* What Sane says of an edge event.                                        *)
LEMMA EdgeNames ==
    ASSUME NEW all, Sane(all), NEW id \in DOMAIN all \ SubjectIds(all)
    PROVE  /\ all[id].kind \in EdgeKinds
           /\ all[id].kind \in {"edge_assert", "edge_reaffirm"} => NatPins(all[id].pins)
           /\ all[id].kind = "edge_reaffirm" => all[id].edge \in Nat /\ all[id].edge < id
           /\ all[id].kind = "attestation" => all[id].target \in Nat
  <1>1. NamesThePast(all[id], id) /\ id \in Nat
    BY SaneIds DEF Sane
  <1>2. all[id].kind \in EdgeKinds
    BY DEF SubjectIds, IsSubject
  <1>3. ASSUME all[id].kind \in {"edge_assert", "edge_reaffirm"} PROVE NatPins(all[id].pins)
    <2>1. \A pin \in {all[id].pins.source, all[id].pins.target} :
             {pin.subject, pin.basis, pin.revision} \subseteq 0 .. id - 1
      BY <1>1, <1>3 DEF NamesThePast
    <2> QED
      BY <2>1 DEF NatPins
  <1>4. ASSUME all[id].kind = "edge_reaffirm" PROVE all[id].edge \in Nat /\ all[id].edge < id
    <2>1. all[id].edge \in 0 .. id - 1
      BY <1>1, <1>4 DEF NamesThePast
    <2> QED
      BY <1>1, <2>1
  <1>5. ASSUME all[id].kind = "attestation" PROVE all[id].target \in Nat
    <2>1. all[id].target \in 0 .. id - 1
      BY <1>1, <1>5 DEF NamesThePast
    <2> QED
      BY <1>1, <2>1
  <1> QED
    BY <1>2, <1>3, <1>4, <1>5

(* evaluate of an edge or attestation returns a status.                    *)
LEMMA EvaluateEdgeType ==
    ASSUME NEW all, Sane(all), NEW id \in DOMAIN all \ SubjectIds(all), NEW out, NEW s
    PROVE  EvaluateEdge(id, all, out, s) \in Status
  <1> DEFINE e == all[id]
  <1>1. /\ e.kind \in EdgeKinds
        /\ e.kind \in {"edge_assert", "edge_reaffirm"} => NatPins(e.pins)
        /\ e.kind = "edge_reaffirm" => e.edge \in Nat
        /\ e.kind = "attestation" => e.target \in Nat
    BY EdgeNames
  <1>2. e.parents \subseteq Nat
    BY SaneIds
  <1>3. e.kind = "edge_assert" => EvaluateAssert(all, e, out, s) \in Status
    <2> DEFINE pins == CheckPins(e.pins, all, out, s)
    <2>1. e.kind = "edge_assert" => pins \in Status
      BY <1>1, PinsType
    <2>2. {"parents", "decision_mismatch", "relation", "dispute_counterclaim"} \subseteq StatusReasons
      BY DEF StatusReasons
    <2>3. \/ EvaluateAssert(all, e, out, s) \in
               {Invalid("parents"), Invalid("decision_mismatch"), Invalid("relation"),
                Invalid("dispute_counterclaim"), Valid}
          \/ EvaluateAssert(all, e, out, s) = pins
      BY DEF EvaluateAssert
    <2> HIDE DEF pins
    <2> QED
      BY <2>1, <2>2, <2>3, StatusFacts
  <1>4. e.kind = "edge_reaffirm" => EvaluateReaffirm(all, e, out, s) \in Status
    <2> DEFINE pins == CheckPins(e.pins, all, out, s)
               missing == (e.parents \cup {e.edge}) \ DOMAIN all
    <2>1. e.kind = "edge_reaffirm" => pins \in Status /\ missing \in SUBSET Nat
      BY <1>1, <1>2, PinsType
    <2>2. {"parents", "parent_missing", "wrong_edge", "ancestor", "edge_author"} \subseteq StatusReasons
          /\ ReaffirmFault(all, e) \in StatusReasons /\ {} \in SUBSET Nat
      BY DEF StatusReasons, ReaffirmFault
    <2>3. \/ EvaluateReaffirm(all, e, out, s) \in
               {Invalid("parents"), Pending("parent_missing", missing), Invalid("wrong_edge"),
                Invalid("ancestor"), Invalid("edge_author"), Pending("ancestor", {}),
                Invalid(ReaffirmFault(all, e))}
          \/ EvaluateReaffirm(all, e, out, s) = pins
      BY DEF EvaluateReaffirm
    <2> HIDE DEF pins, missing
    <2> QED
      BY <2>1, <2>2, <2>3, StatusFacts
  <1>5. e.kind = "attestation" => EvaluateAttestation(all, e, out, s) \in Status
    <2>1. e.kind = "attestation" => {e.target} \in SUBSET Nat
      BY <1>1
    <2>2. {"parents", "artifact_kind", "revision_missing", "target_missing",
           "attestation_target", "target_invalid", "target_pending"} \subseteq StatusReasons
          /\ {} \in SUBSET Nat
      BY DEF StatusReasons
    <2>3. EvaluateAttestation(all, e, out, s) \in
            {Invalid("parents"), Invalid("artifact_kind"), Valid,
             Pending("revision_missing", {e.target}), Pending("target_missing", {e.target}),
             Invalid("attestation_target"), Invalid("target_invalid"),
             Pending("target_pending", {})}
      BY DEF EvaluateAttestation
    <2> QED
      BY <2>1, <2>2, <2>3, StatusFacts
  <1>6. Invalid("non_subject_header") \in Status
    <2>1. "non_subject_header" \in StatusReasons
      BY DEF StatusReasons
    <2> QED
      BY <2>1, StatusFacts
  <1> QED
    BY <1>1, <1>3, <1>4, <1>5, <1>6 DEF EvaluateEdge, EdgeKinds

(* Everything an edge event can read is there.                             *)
Grounded(all, id, out) ==
    /\ SubjectIds(all) \subseteq DOMAIN out
    /\ EdgeReady(id, all, out)
    /\ all[id].kind = "attestation" =>
          \A d \in DOMAIN all : all[d].kind # "attestation" => d \in DOMAIN out

(* It reads nothing but what it has waited for.                            *)
LEMMA EvaluateEdgeReads ==
    ASSUME NEW all, Sane(all), NEW id \in DOMAIN all \ SubjectIds(all),
           NEW out, NEW other, NEW s, Grounded(all, id, out),
           \A p \in DOMAIN out : other[p] = out[p]
    PROVE  EvaluateEdge(id, all, other, s) = EvaluateEdge(id, all, out, s)
  <1> DEFINE e == all[id]
  <1>1. e.kind \in EdgeKinds
    BY EdgeNames
  <1>2. ASSUME NEW pin PROVE CheckPin(pin, all, other, s) = CheckPin(pin, all, out, s)
    <2>1. CASE pin.basis \in DOMAIN all /\ IsSubject(all[pin.basis])
      <3>1. other[pin.basis] = out[pin.basis]
        BY <2>1 DEF Grounded, SubjectIds
      <3> QED
        BY <3>1 DEF CheckPin
    <2>2. CASE ~(pin.basis \in DOMAIN all /\ IsSubject(all[pin.basis]))
      BY <2>2 DEF CheckPin
    <2> QED
      BY <2>1, <2>2
  <1>3. \A pins : CheckPins(pins, all, other, s) = CheckPins(pins, all, out, s)
    BY <1>2 DEF CheckPins
  <1>4. EvaluateAssert(all, e, other, s) = EvaluateAssert(all, e, out, s)
    BY <1>3 DEF EvaluateAssert
  <1>5. e.kind = "edge_reaffirm" =>
           EvaluateReaffirm(all, e, other, s) = EvaluateReaffirm(all, e, out, s)
    <2> SUFFICES ASSUME e.kind = "edge_reaffirm"
                 PROVE  EvaluateReaffirm(all, e, other, s) = EvaluateReaffirm(all, e, out, s)
      OBVIOUS
    <2> DEFINE deps == e.parents \cup {e.edge}
               missing == deps \ DOMAIN all
               wrong == \/ all[e.edge].kind # "edge_assert"
                        \/ \E p \in e.parents : EdgeOf(all, p) # e.edge
    <2>1. CASE missing # {} \/ wrong
      BY <2>1, <1>3 DEF EvaluateReaffirm
    <2>2. CASE missing = {} /\ ~wrong
      <3>1. ASSUME NEW d \in deps PROVE other[d] = out[d]
        <4>1. d \in DOMAIN all /\ e.edge \in DOMAIN all /\ e.edge # None
          BY <2>2, SaneIds DEF None
        <4>2. all[d].kind # "attestation"
          BY <2>2, <4>1 DEF EdgeOf
        <4>3. d \in DOMAIN out
          BY <4>1, <4>2 DEF Grounded, EdgeReady
        <4> QED
          BY <4>3
      <3>2. {other[p].state : p \in deps} = {out[p].state : p \in deps}
        BY <3>1
      <3> QED
        BY <1>3, <3>2 DEF EvaluateReaffirm
    <2> QED
      BY <2>1, <2>2
  <1>6. e.kind = "attestation" =>
           EvaluateAttestation(all, e, other, s) = EvaluateAttestation(all, e, out, s)
    <2> SUFFICES ASSUME e.kind = "attestation"
                 PROVE  EvaluateAttestation(all, e, other, s) = EvaluateAttestation(all, e, out, s)
      OBVIOUS
    <2>1. CASE e.target \in DOMAIN all /\ all[e.target].kind # "attestation"
      <3>1. other[e.target] = out[e.target]
        BY <2>1 DEF Grounded
      <3> QED
        BY <3>1 DEF EvaluateAttestation
    <2>2. CASE ~(e.target \in DOMAIN all /\ all[e.target].kind # "attestation")
      BY <2>2 DEF EvaluateAttestation
    <2> QED
      BY <2>1, <2>2
  <1> QED
    BY <1>1, <1>4, <1>5, <1>6 DEF EvaluateEdge, EdgeKinds

(* A base of statuses on which those of `ids' can be found: what is not an *)
(* attestation has a status or is to get one.                              *)
Base(all, ids, status) ==
    /\ ids \subseteq DOMAIN all \ SubjectIds(all)
    /\ ids \cap DOMAIN status = {}
    /\ SubjectIds(all) \subseteq DOMAIN status
    /\ DOMAIN status \subseteq DOMAIN all
    /\ status \in [DOMAIN status -> Status]
    /\ \A d \in DOMAIN all : all[d].kind # "attestation" => d \in DOMAIN status \cup ids
    /\ (\E id \in ids : all[id].kind = "attestation") =>
          \A d \in DOMAIN all : all[d].kind # "attestation" => d \in DOMAIN status

FoundEdges(all, ids, status, s) ==
    {out \in UNION {[DOMAIN status \cup T -> Status] : T \in SUBSET ids} :
        /\ \A id \in DOMAIN status : out[id] = status[id]
        /\ \A id \in DOMAIN out \cap ids : /\ EdgeReady(id, all, out)
                                           /\ out[id] = EvaluateEdge(id, all, out, s)}

(* What it is to have decided some edge events correctly.                  *)
LEMMA FoundEdgesFacts ==
    ASSUME NEW all, NEW ids, NEW status, NEW s, NEW out
    PROVE  out \in FoundEdges(all, ids, status, s) <=>
             /\ DOMAIN status \subseteq DOMAIN out
             /\ DOMAIN out \subseteq DOMAIN status \cup ids
             /\ out \in [DOMAIN out -> Status]
             /\ \A id \in DOMAIN status : out[id] = status[id]
             /\ \A id \in DOMAIN out \cap ids : /\ EdgeReady(id, all, out)
                                                /\ out[id] = EvaluateEdge(id, all, out, s)
  <1>1. ASSUME out \in FoundEdges(all, ids, status, s)
        PROVE  /\ DOMAIN status \subseteq DOMAIN out
               /\ DOMAIN out \subseteq DOMAIN status \cup ids
               /\ out \in [DOMAIN out -> Status]
    <2>1. PICK T \in SUBSET ids : out \in [DOMAIN status \cup T -> Status]
      BY <1>1 DEF FoundEdges
    <2> QED
      BY <2>1
  <1>2. ASSUME DOMAIN status \subseteq DOMAIN out, DOMAIN out \subseteq DOMAIN status \cup ids,
               out \in [DOMAIN out -> Status]
        PROVE  out \in UNION {[DOMAIN status \cup T -> Status] : T \in SUBSET ids}
    <2>1. DOMAIN out \cap ids \in SUBSET ids
          /\ DOMAIN out = DOMAIN status \cup (DOMAIN out \cap ids)
      BY <1>2
    <2>2. out \in [DOMAIN status \cup (DOMAIN out \cap ids) -> Status]
      BY <1>2, <2>1
    <2> QED
      BY <2>1, <2>2
  <1> QED
    BY <1>1, <1>2 DEF FoundEdges

(* One turn of the edge loops keeps that, and decides the least undecided. *)
LEMMA DecidedEdgeStep ==
    ASSUME NEW all, Sane(all), NEW ids, NEW status, Base(all, ids, status), NEW s,
           NEW out \in FoundEdges(all, ids, status, s), NEW id
    PROVE  LET next == DecidedEdge(all, ids, s, out, id) IN
           /\ next \in FoundEdges(all, ids, status, s)
           /\ DOMAIN out \subseteq DOMAIN next
           /\ (id \in ids /\ \A c \in ids : c < id => c \in DOMAIN out) => id \in DOMAIN next
  <1> DEFINE new == With(out, id, EvaluateEdge(id, all, out, s))
  <1>0. /\ DOMAIN status \subseteq DOMAIN out
        /\ DOMAIN out \subseteq DOMAIN status \cup ids
        /\ out \in [DOMAIN out -> Status]
        /\ \A i \in DOMAIN status : out[i] = status[i]
        /\ \A i \in DOMAIN out \cap ids : EdgeReady(i, all, out) /\ out[i] = EvaluateEdge(i, all, out, s)
    BY FoundEdgesFacts
  <1>a. ASSUME NEW i \in ids, EdgeReady(i, all, out) PROVE Grounded(all, i, out)
    BY <1>0, <1>a DEF Grounded, Base
  <1>1. CASE id \in ids \ DOMAIN out /\ EdgeReady(id, all, out)
    <2>1. DecidedEdge(all, ids, s, out, id) = new
      BY <1>1 DEF DecidedEdge
    <2>2. EvaluateEdge(id, all, out, s) \in Status
      <3>1. id \in DOMAIN all \ SubjectIds(all)
        BY <1>1 DEF Base
      <3> QED
        BY <3>1, EvaluateEdgeType
    <2>3. /\ DOMAIN new = DOMAIN out \cup {id}
          /\ new[id] = EvaluateEdge(id, all, out, s)
          /\ \A i \in DOMAIN out : new[i] = out[i]
      BY <1>1 DEF With
    <2>4. new \in [DOMAIN new -> Status]
      <3>1. new = [x \in DOMAIN new |-> new[x]]
        BY DEF With
      <3>2. \A x \in DOMAIN new : new[x] \in Status
        BY <1>0, <2>2, <2>3
      <3> HIDE DEF new
      <3> QED
        BY <3>1, <3>2
    <2> HIDE DEF new
    <2>5. ASSUME NEW i \in DOMAIN new \cap ids
          PROVE  EdgeReady(i, all, new) /\ new[i] = EvaluateEdge(i, all, new, s)
      <3>1. EdgeReady(i, all, out) /\ new[i] = EvaluateEdge(i, all, out, s)
        BY <1>0, <1>1, <2>3
      <3>2. EdgeReady(i, all, new)
        BY <2>3, <3>1 DEF EdgeReady
      <3>3. i \in DOMAIN all \ SubjectIds(all) /\ Grounded(all, i, out)
        BY <1>a, <3>1 DEF Base
      <3>4. EvaluateEdge(i, all, new, s) = EvaluateEdge(i, all, out, s)
        BY <2>3, <3>3, EvaluateEdgeReads
      <3> QED
        BY <3>1, <3>2, <3>4
    <2>6. \A i \in DOMAIN status : new[i] = status[i]
      BY <1>0, <2>3
    <2>7. DOMAIN status \subseteq DOMAIN new /\ DOMAIN new \subseteq DOMAIN status \cup ids
      BY <1>0, <1>1, <2>3
    <2>8. new \in FoundEdges(all, ids, status, s)
      BY <2>4, <2>5, <2>6, <2>7, FoundEdgesFacts
    <2> QED
      BY <2>1, <2>3, <2>8
  <1>2. CASE ~(id \in ids \ DOMAIN out /\ EdgeReady(id, all, out))
    <2>1. DecidedEdge(all, ids, s, out, id) = out
      BY <1>2 DEF DecidedEdge
    <2>2. ASSUME id \in ids, \A c \in ids : c < id => c \in DOMAIN out PROVE id \in DOMAIN out
      <3>0. id \in DOMAIN all \ SubjectIds(all)
        BY <2>2 DEF Base
      <3>1. ASSUME NEW d \in all[id].parents \cup
                        (IF all[id].kind = "edge_reaffirm" THEN {all[id].edge} ELSE {}),
                   d \in DOMAIN all, all[d].kind # "attestation"
            PROVE  d \in DOMAIN out
        <4>1. d < id
          BY <3>0, <3>1, SaneIds, EdgeNames
        <4>2. d \in DOMAIN status \cup ids
          BY <3>1 DEF Base
        <4> QED
          BY <1>0, <2>2, <4>1, <4>2
      <3>2. EdgeReady(id, all, out)
        BY <3>1 DEF EdgeReady
      <3> QED
        BY <1>2, <2>2, <3>2
    <2> QED
      BY <2>1, <2>2
  <1> QED
    BY <1>1, <1>2

(* One pass decides an event, unless none is left.                         *)
LEMMA EdgePassProgress ==
    ASSUME NEW all, Sane(all), NEW order, Covering(all, order),
           NEW ids, NEW status, Base(all, ids, status), NEW s
    PROVE  \A x \in FoundEdges(all, ids, status, s) :
              Gains(ids, FoundEdges(all, ids, status, s),
                    [y \in FoundEdges(all, ids, status, s) |-> DOMAIN y \cap ids],
                    x, EdgePass(all, ids, order, s, x))
  <1>0. PICK m \in Nat : m = Len(order)
    BY DEF Covering
  <1> DEFINE X == FoundEdges(all, ids, status, s)
             right == [x \in X |-> DOMAIN x \cap ids]
             I == ids \cup {order[n] : n \in 1 .. m}
             step == [i \in I |-> [x \in X |-> DecidedEdge(all, ids, s, x, i)]]
             turn == [n \in 1 .. m |-> step[order[n]]]
  <1>1. \A d \in ids : \E n \in 1 .. m : order[n] = d
    BY <1>0 DEF Covering, Base
  <1>2. ids \in SUBSET Nat
    BY SaneIds DEF Base
  <1>3. \A i : \A x \in X :
          /\ DecidedEdge(all, ids, s, x, i) \in X
          /\ DOMAIN x \subseteq DOMAIN DecidedEdge(all, ids, s, x, i)
          /\ (i \in ids /\ \A c \in ids : c < i => c \in DOMAIN x)
             => i \in DOMAIN DecidedEdge(all, ids, s, x, i)
    BY DecidedEdgeStep
  <1>4. right \in [X -> SUBSET ids] /\ \A x \in X : right[x] = DOMAIN x \cap ids
    OBVIOUS
  <1>5. step \in [I -> [X -> X]] /\ \A i \in I : \A x \in X : step[i][x] = DecidedEdge(all, ids, s, x, i)
    BY <1>3
  <1>6. ids \subseteq I /\ \A n \in 1 .. m : order[n] \in I
    OBVIOUS
  <1>7. turn \in [1 .. m -> [X -> X]]
        /\ \A n \in 1 .. m : \A x \in X : turn[n][x] = DecidedEdge(all, ids, s, x, order[n])
    <2> HIDE DEF step, I, X
    <2> QED
      BY <1>5, <1>6
  <1>8. Steps(ids, I, X, right, step)
    <2>1. ASSUME NEW i \in I, NEW x \in X PROVE right[x] \subseteq right[step[i][x]]
      <3>1. DecidedEdge(all, ids, s, x, i) \in X
            /\ DOMAIN x \subseteq DOMAIN DecidedEdge(all, ids, s, x, i)
            /\ step[i][x] = DecidedEdge(all, ids, s, x, i)
        <4> HIDE DEF right, step, I, X
        <4> QED
          BY <1>3, <1>5
      <3> HIDE DEF right, step, I, X
      <3> QED
        BY <1>4, <3>1
    <2>2. ASSUME NEW d \in ids, NEW x \in X, \A c \in ids : c < d => c \in right[x]
          PROVE  d \in right[step[d][x]]
      <3>1. d \in I
        OBVIOUS
      <3> HIDE DEF right, step, I, X
      <3>2. \A c \in ids : c < d => c \in DOMAIN x
        BY <1>4, <2>2
      <3>3. d \in DOMAIN DecidedEdge(all, ids, s, x, d) /\ DecidedEdge(all, ids, s, x, d) \in X
            /\ step[d][x] = DecidedEdge(all, ids, s, x, d)
        BY <1>3, <1>5, <3>1, <3>2
      <3> QED
        BY <1>4, <3>3
    <2> HIDE DEF right, step, I, X
    <2> QED
      BY <1>5, <2>1, <2>2 DEF Steps
  <1>9. ASSUME NEW x \in X
        PROVE  Gains(ids, X, right, x, EdgePass(all, ids, order, s, x))
    <2> DEFINE Eq(h) == h = [i \in 0 .. Len(order) |->
                               IF i = 0 THEN x ELSE DecidedEdge(all, ids, s, h[i - 1], order[i])]
               at == CHOOSE h : Eq(h)
    <2> HIDE DEF right, step, I, X, turn
    <2>1. PICK f : Turns(m, X, x, turn, f)
      BY <1>7, TurnsExist
    <2>2. Eq(f)
      <3>1. f \in [0 .. m -> X] /\ f[0] = x /\ \A n \in 1 .. m : f[n] = turn[n][f[n - 1]]
        BY <2>1 DEF Turns
      <3>2. \A n \in 1 .. m : n - 1 \in 0 .. m
        OBVIOUS
      <3>3. \A n \in 1 .. m : f[n] = DecidedEdge(all, ids, s, f[n - 1], order[n])
        BY <1>7, <3>1, <3>2
      <3>4. \A n \in 0 .. m : n # 0 => n \in 1 .. m
        OBVIOUS
      <3> QED
        BY <1>0, <3>1, <3>3, <3>4
    <2>3. Eq(at)
      <3> HIDE DEF Eq
      <3> QED
        BY <2>2
    <2> HIDE DEF at
    <2>4. at = [n \in 0 .. m |-> at[n]] /\ at[0] = x
          /\ \A n \in 1 .. m : at[n] = DecidedEdge(all, ids, s, at[n - 1], order[n])
      BY <1>0, <2>3
    <2>5. Turns(m, X, x, turn, at)
      <3>1. \A n \in 1 .. m : at[n - 1] \in X => at[n] = turn[n][at[n - 1]]
        BY <1>7, <2>4
      <3> QED
        BY <1>7, <2>4, <3>1, TurnsIs
    <2>6. EdgePass(all, ids, order, s, x) = at[m]
      BY <1>0 DEF EdgePass, at
    <2>7. Visits(m, order, ids, I, step, turn)
      BY <1>1, <1>6 DEF Visits, turn
    <2>8. right \in [X -> SUBSET ids] /\ x \in X /\ m \in Nat
      BY <1>4
    <2>9. Gains(ids, X, right, x, at[m])
      BY <1>2, <1>8, <2>5, <2>7, <2>8, OnePass
    <2> QED
      BY <2>6, <2>9
  <1> QED
    BY <1>9

(* The passes left nothing of `ids' undecided.                             *)
FoundAll(all, ids, status, s, out) ==
    /\ out \in [DOMAIN status \cup ids -> Status]
    /\ \A id \in DOMAIN status : out[id] = status[id]
    /\ \A id \in ids : EdgeReady(id, all, out) /\ out[id] = EvaluateEdge(id, all, out, s)

(* One of the two edge loops, in any order, solves its equations.          *)
LEMMA EdgePassesSolve ==
    ASSUME NEW all, Sane(all), NEW order, Covering(all, order),
           NEW ids, NEW status, Base(all, ids, status), NEW s
    PROVE  FoundAll(all, ids, status, s, EdgePasses(all, ids, order, status, s))
  <1>1. ids \in SUBSET Nat /\ IsFiniteSet(ids)
    <2>1. ids \subseteq DOMAIN all
      BY DEF Base
    <2> QED
      BY <2>1, SaneIds, FS_Subset
  <1>2. PICK k \in Nat : k = Cardinality(ids)
    BY <1>1, FS_CardinalityType
  <1> DEFINE X == FoundEdges(all, ids, status, s)
             right == [x \in X |-> DOMAIN x \cap ids]
             pass == [x \in X |-> EdgePass(all, ids, order, s, x)]
             turn == [n \in 1 .. k |-> pass]
             Eq(h) == h = [n \in 0 .. Cardinality(ids) |->
                             IF n = 0 THEN status ELSE EdgePass(all, ids, order, s, h[n - 1])]
             at == CHOOSE h : Eq(h)
  <1>3. status \in X
    <2>1. DOMAIN status \cap ids = {} /\ status \in [DOMAIN status -> Status]
      BY DEF Base
    <2> QED
      BY <2>1, FoundEdgesFacts
  <1>4. right \in [X -> SUBSET ids] /\ \A x \in X : right[x] = DOMAIN x \cap ids
    OBVIOUS
  <1>5. \A x \in X : Gains(ids, X, right, x, EdgePass(all, ids, order, s, x))
    BY EdgePassProgress
  <1>6. pass \in [X -> X] /\ \A x \in X : pass[x] = EdgePass(all, ids, order, s, x)
    <2> HIDE DEF X, right
    <2>1. \A x \in X : EdgePass(all, ids, order, s, x) \in X
      BY <1>5 DEF Gains
    <2> QED
      BY <2>1
  <1>7. Progress(ids, X, right, pass)
    <2> HIDE DEF X, right, pass
    <2> QED
      BY <1>5, <1>6 DEF Progress
  <1> HIDE DEF right, X, pass, turn
  <1>8. turn \in [1 .. k -> [X -> X]] /\ \A n \in 1 .. k : turn[n] = pass
    BY <1>6 DEF turn
  <1>9. PICK f : Turns(k, X, status, turn, f)
    BY <1>3, <1>8, TurnsExist
  <1>10. Eq(f)
    <2>1. f \in [0 .. k -> X] /\ f[0] = status /\ \A n \in 1 .. k : f[n] = turn[n][f[n - 1]]
      BY <1>9 DEF Turns
    <2>2. \A n \in 1 .. k : n - 1 \in 0 .. k
      OBVIOUS
    <2>3. \A n \in 1 .. k : f[n] = EdgePass(all, ids, order, s, f[n - 1])
      BY <1>6, <1>8, <2>1, <2>2
    <2>4. \A n \in 0 .. k : n # 0 => n \in 1 .. k
      OBVIOUS
    <2> QED
      BY <1>2, <2>1, <2>3, <2>4
  <1>11. Eq(at)
    <2> HIDE DEF Eq
    <2> QED
      BY <1>10
  <1> HIDE DEF at
  <1>12. at = [n \in 0 .. k |-> at[n]] /\ at[0] = status
         /\ \A n \in 1 .. k : at[n] = EdgePass(all, ids, order, s, at[n - 1])
    BY <1>2, <1>11
  <1>13. Turns(k, X, status, turn, at)
    <2>1. \A n \in 1 .. k : at[n - 1] \in X => at[n] = turn[n][at[n - 1]]
      BY <1>6, <1>8, <1>12
    <2> QED
      BY <1>3, <1>8, <1>12, <2>1, TurnsIs
  <1>14. Turns(k, X, status, [n \in 1 .. k |-> pass], at)
    BY <1>13 DEF turn
  <1>15. at[k] \in X /\ right[at[k]] = ids
    BY <1>1, <1>2, <1>3, <1>4, <1>7, <1>14, AllPasses
  <1>16. /\ DOMAIN status \subseteq DOMAIN at[k]
         /\ DOMAIN at[k] \subseteq DOMAIN status \cup ids
         /\ at[k] \in [DOMAIN at[k] -> Status]
         /\ \A id \in DOMAIN status : at[k][id] = status[id]
         /\ \A id \in DOMAIN at[k] \cap ids :
               EdgeReady(id, all, at[k]) /\ at[k][id] = EvaluateEdge(id, all, at[k], s)
    BY <1>15, FoundEdgesFacts DEF X
  <1>17. DOMAIN at[k] = DOMAIN status \cup ids /\ DOMAIN at[k] \cap ids = ids
    BY <1>4, <1>15, <1>16
  <1>18. EdgePasses(all, ids, order, status, s) = Completed(DOMAIN status \cup ids, at[k])
    BY <1>2 DEF EdgePasses, at
  <1>19. Completed(DOMAIN status \cup ids, at[k]) = at[k]
    BY <1>16, <1>17 DEF Completed
  <1> QED
    BY <1>16, <1>17, <1>18, <1>19 DEF FoundAll

(* The statuses of all retained envelopes, those of the subject events     *)
(* given.                                                                  *)
SolvesEdges(all, status, full) ==
    /\ full \in [DOMAIN all -> Status]
    /\ \A id \in SubjectIds(all) : full[id] = status[id]
    /\ \A id \in DOMAIN all \ SubjectIds(all) :
          full[id] = EvaluateEdge(id, all, full, Subjects(all, status))

(* Both loops together solve the equations of edges and attestations.      *)
LEMMA ClassifyEdgesSolve ==
    ASSUME NEW all, Sane(all), NEW order, Covering(all, order),
           NEW status, status \in [SubjectIds(all) -> Status]
    PROVE  SolvesEdges(all, status, ClassifyEdges(all, status, order))
  <1> DEFINE s == Subjects(all, status)
             rest == {id \in DOMAIN all : ~IsSubject(all[id])}
             first == rest \ Attestations(all)
             edges == EdgePasses(all, first, order, status, s)
             full == EdgePasses(all, Attestations(all), order, edges, s)
  <1>1. ClassifyEdges(all, status, order) = full
    BY DEF ClassifyEdges
  <1>2. DOMAIN all = SubjectIds(all) \cup first \cup Attestations(all)
        /\ rest = DOMAIN all \ SubjectIds(all)
        /\ Attestations(all) \subseteq rest
        /\ SubjectIds(all) \cap rest = {}
    BY DEF SubjectIds, Attestations, IsSubject, EdgeKinds
  <1>3. \A d \in DOMAIN all : all[d].kind # "attestation" <=> d \notin Attestations(all)
    BY DEF Attestations
  <1>4. Base(all, first, status)
    BY <1>2, <1>3 DEF Base
  <1> HIDE DEF s, rest
  <1>5. /\ edges \in [DOMAIN status \cup first -> Status]
        /\ \A id \in DOMAIN status : edges[id] = status[id]
        /\ \A id \in first : EdgeReady(id, all, edges) /\ edges[id] = EvaluateEdge(id, all, edges, s)
    <2>1. FoundAll(all, first, status, s, edges)
      BY <1>4, EdgePassesSolve
    <2> HIDE DEF first, edges
    <2> QED
      BY <2>1 DEF FoundAll
  <1>6. DOMAIN status = SubjectIds(all)
    OBVIOUS
  <1> HIDE DEF edges
  <1>7. DOMAIN edges = SubjectIds(all) \cup first
    BY <1>5, <1>6
  <1>8. Base(all, Attestations(all), edges)
    <2>1. edges \in [DOMAIN edges -> Status]
      BY <1>5, <1>7
    <2> QED
      BY <1>2, <1>3, <1>7, <2>1 DEF Base
  <1>9. /\ full \in [DOMAIN edges \cup Attestations(all) -> Status]
        /\ \A id \in DOMAIN edges : full[id] = edges[id]
        /\ \A id \in Attestations(all) : full[id] = EvaluateEdge(id, all, full, s)
    <2>1. FoundAll(all, Attestations(all), edges, s, full)
      BY <1>8, EdgePassesSolve
    <2> HIDE DEF full
    <2> QED
      BY <2>1 DEF FoundAll
  <1> HIDE DEF full
  <1>10. ASSUME NEW id \in first PROVE full[id] = EvaluateEdge(id, all, full, s)
    <2>1. id \in DOMAIN all \ SubjectIds(all) /\ all[id].kind # "attestation"
      BY <1>2, <1>3
    <2>2. Grounded(all, id, edges)
      BY <1>5, <1>7, <2>1 DEF Grounded
    <2>3. EvaluateEdge(id, all, full, s) = EvaluateEdge(id, all, edges, s)
      BY <1>9, <2>1, <2>2, EvaluateEdgeReads
    <2> QED
      BY <1>5, <1>7, <1>9, <2>3
  <1>11. DOMAIN edges \cup Attestations(all) = DOMAIN all
    BY <1>2, <1>7
  <1>12. \A id \in DOMAIN all \ SubjectIds(all) : full[id] = EvaluateEdge(id, all, full, s)
    BY <1>2, <1>9, <1>10
  <1>13. \A id \in SubjectIds(all) : full[id] = status[id]
    BY <1>5, <1>6, <1>7, <1>9
  <1> QED
    BY <1>1, <1>9, <1>11, <1>12, <1>13 DEF SolvesEdges, s

-----------------------------------------------------------------------------
(* What the retained envelopes say about an event once its past is there   *)

(* A causally closed set of them.                                          *)
Upright(all, C) == C \subseteq DOMAIN all /\ \A id \in C : all[id].parents \subseteq C

(* The cone of an event in a causally closed set is closed and in it.      *)
LEMMA UprightCone ==
    ASSUME NEW all, Sane(all), NEW C, Upright(all, C), NEW id \in C
    PROVE  /\ Upright(all, Cones(all)[id])
           /\ id \in Cones(all)[id] /\ Cones(all)[id] \subseteq C
  <1> DEFINE cone == Cones(all)
             H == {d \in C : Upright(all, cone[d])}
  <1>1. C \subseteq DOMAIN all /\ \A d \in C : all[d].parents \subseteq C
    BY DEF Upright
  <1>2. \A d \in C : \A p \in all[d].parents : p \in C /\ p < d
    BY <1>1, SaneIds
  <1>3. ASSUME NEW d \in C
        PROVE  cone[d] = {d} \cup UNION {cone[p] : p \in all[d].parents}
    <2>1. d \in DOMAIN all /\ all[d].parents \cap DOMAIN all = all[d].parents
      BY <1>1
    <2> QED
      BY <2>1, ConeFacts
  <1>4. \A d \in C : d \in cone[d] /\ cone[d] \subseteq C
    <2>1. \A d \in C \cap DOMAIN all : all[d].parents \cap DOMAIN all \subseteq C
      BY <1>1
    <2>2. \A d \in C \cap DOMAIN all : cone[d] \subseteq C
      BY <2>1, ConeWithin
    <2> QED
      BY <1>1, <1>3, <2>2
  <1> HIDE DEF cone
  <1>5. ASSUME NEW d \in C, \A c \in C : c < d => c \in H PROVE d \in H
    <2>1. ASSUME NEW x \in cone[d] PROVE all[x].parents \subseteq cone[d]
      <3>1. CASE x = d
        BY <1>2, <1>3, <1>4, <3>1
      <3>2. CASE x # d
        <4>1. PICK p \in all[d].parents : x \in cone[p]
          BY <1>3, <3>2
        <4>2. all[x].parents \subseteq cone[p]
          BY <1>2, <1>5, <4>1 DEF Upright
        <4> QED
          BY <1>3, <4>2
      <3> QED
        BY <3>1, <3>2
    <2>2. cone[d] \subseteq DOMAIN all
      BY <1>1, <1>4
    <2> QED
      BY <2>1, <2>2 DEF Upright
  <1>6. C \in SUBSET Nat
    BY <1>1, SaneIds
  <1>7. C \subseteq H
    <2> HIDE DEF H
    <2> QED
      BY <1>5, <1>6, FromBelow
  <1> QED
    BY <1>4, <1>7 DEF cone

(* Some events and their past.                                             *)
PastUnder(all, P) == UNION {Cones(all)[p] : p \in P}

(* So is a union of cones.                                                 *)
LEMMA UprightCones ==
    ASSUME NEW all, Sane(all), NEW C, Upright(all, C), NEW P, P \subseteq C
    PROVE  /\ Upright(all, PastUnder(all, P))
           /\ P \subseteq PastUnder(all, P) /\ PastUnder(all, P) \subseteq C
  <1>1. \A p \in P : /\ Upright(all, Cones(all)[p])
                     /\ p \in Cones(all)[p] /\ Cones(all)[p] \subseteq C
    BY UprightCone
  <1>2. \A p \in P : /\ Cones(all)[p] \subseteq DOMAIN all
                     /\ \A id \in Cones(all)[p] : all[id].parents \subseteq Cones(all)[p]
    BY <1>1 DEF Upright
  <1>3. Upright(all, PastUnder(all, P))
    BY <1>2 DEF Upright, PastUnder
  <1> QED
    BY <1>1, <1>3 DEF PastUnder

(* Two derivations that say the same of the events in ids.                 *)
Alike(v, w, ids) ==
    /\ v.grants = w.grants /\ v.effective = w.effective /\ v.active = w.active
    /\ v.canceled = w.canceled /\ v.tombstones = w.tombstones
    /\ v.active \subseteq v.grants /\ v.grants \subseteq ids
    /\ \A id \in ids : v.effects[id].reason = w.effects[id].reason

(* What is restricted to a causally closed set is a closed history.        *)
LEMMA SubFacts ==
    ASSUME NEW all, Sane(all), NEW ids, Upright(all, ids)
    PROVE  /\ DOMAIN Sub(all, ids) = ids /\ \A id \in ids : Sub(all, ids)[id] = all[id]
           /\ Sane(Sub(all, ids)) /\ Closed(Sub(all, ids)) /\ Extends(Sub(all, ids), all)
  <1>1. DOMAIN Sub(all, ids) = ids /\ \A id \in ids : Sub(all, ids)[id] = all[id]
    BY DEF Sub
  <1>2. ids \subseteq DOMAIN all /\ \A id \in ids : all[id].parents \subseteq ids
    BY DEF Upright
  <1>3. PICK m \in Nat : DOMAIN all \subseteq 1 .. m
    BY DEF Sane
  <1>4. ids \subseteq 1 .. m
    BY <1>2, <1>3
  <1>5. \A id \in ids : NamesThePast(all[id], id)
    BY <1>2 DEF Sane
  <1>6. \A id \in ids : NamesThePast(Sub(all, ids)[id], id)
    BY <1>1, <1>5
  <1> QED
    BY <1>1, <1>2, <1>4, <1>6 DEF Sane, Closed, Extends

(* What is derived from a closed past depends on that past alone.          *)
LEMMA DeriveOn ==
    ASSUME NEW a, NEW b, Sane(a), Sane(b), Extends(a, b), NEW o, NEW q,
           Covering(a, o), Covering(b, q), NEW ids, Upright(a, ids)
    PROVE  Alike(Derive(a, ids, o), Derive(b, ids, q), ids)
  <1> DEFINE s == Sub(a, ids)
             v == DeriveFrom(s, Lineages(s), Cones(s), o)
             w == DeriveFrom(s, Lineages(s), Cones(s), q)
  <1>1. Sub(b, ids) = s
    BY DEF Sub, Extends, Upright
  <1>2. Sane(s) /\ Closed(s) /\ DOMAIN s = ids
    BY SubFacts
  <1>3. Covering(s, o) /\ Covering(s, q)
    BY <1>2 DEF Covering, Extends, Upright
  <1>4. Derive(a, ids, o) = v /\ Derive(b, ids, q) = w
    BY <1>1 DEF Derive
  <1>5. v.active \subseteq v.grants /\ v.grants \subseteq DOMAIN s
    BY DEF DeriveFrom, Standing, GrantsOf
  <1> HIDE DEF s
  <1>6. /\ v.grants = w.grants /\ v.effective = w.effective /\ v.active = w.active
        /\ v.canceled = w.canceled /\ v.tombstones = w.tombstones
        /\ \A id \in DOMAIN s : v.effects[id].reason = w.effects[id].reason
    BY <1>2, <1>3, DeriveAlike
  <1> HIDE DEF v, w
  <1> QED
    BY <1>2, <1>4, <1>5, <1>6 DEF Alike

(* What is left of Evaluate once the parents are valid.                    *)
Judge(all, e, order) ==
    Semantics(all, e, Sub(all, PastIds(all, e)), Derive(all, PastIds(all, e), order), order)

(* The past of an event stays what it was.                                 *)
LEMMA PastStays ==
    ASSUME NEW a, NEW b, Sane(a), Sane(b), Extends(a, b), NEW C, Upright(a, C),
           NEW e, e.parents \subseteq C
    PROVE  /\ \A p \in e.parents : /\ ConeOf(b, p) = ConeOf(a, p)
                                   /\ Upright(a, ConeOf(a, p))
           /\ PastIds(b, e) = PastIds(a, e) /\ PastIds(a, e) \subseteq C
           /\ Upright(a, PastIds(a, e))
  <1>1. C \in SUBSET DOMAIN a /\ \A id \in C : a[id].parents \subseteq C
    BY DEF Upright
  <1>2. \A p \in C : Cones(b)[p] = Cones(a)[p]
    BY <1>1, ConesStay
  <1>3. \A p \in e.parents : Cones(b)[p] = Cones(a)[p] /\ Upright(a, Cones(a)[p])
    BY <1>2, UprightCone
  <1>4. PastIds(b, e) = PastIds(a, e)
    BY <1>3 DEF PastIds, ConeOf
  <1>5. Upright(a, PastUnder(a, e.parents)) /\ PastUnder(a, e.parents) \subseteq C
    BY UprightCones
  <1> QED
    BY <1>3, <1>4, <1>5 DEF PastIds, PastUnder, ConeOf

(* So does the verdict on an event whose parents are valid.                *)
LEMMA JudgeAlike ==
    ASSUME NEW a, NEW b, Sane(a), Sane(b), Extends(a, b), NEW o, NEW q,
           Covering(a, o), Covering(b, q), NEW C, Upright(a, C), NEW e, e.parents \subseteq C
    PROVE  Judge(a, e, o) = Judge(b, e, q)
  <1> DEFINE ids == PastIds(a, e)
             past == Sub(a, ids)
             v == Derive(a, ids, o)
             w == Derive(b, ids, q)
  <1>1. /\ \A p \in e.parents : ConeOf(b, p) = ConeOf(a, p) /\ Upright(a, ConeOf(a, p))
        /\ PastIds(b, e) = ids /\ Upright(a, ids)
    BY PastStays
  <1>2. ids \subseteq DOMAIN a /\ (\A id \in ids : b[id] = a[id]) /\ Sub(b, ids) = past
        /\ DOMAIN past = ids
    BY <1>1 DEF Upright, Extends, Sub
  <1>3. Alike(v, w, ids)
    BY <1>1, DeriveOn
  <1>4. \A p \in e.parents :
           Alike(Derive(a, ConeOf(a, p), o), Derive(b, ConeOf(a, p), q), ConeOf(a, p))
    BY <1>1, DeriveOn
  <1>5. \A p \in e.parents :
           Derive(a, ConeOf(a, p), o).active = Derive(b, ConeOf(b, p), q).active
    BY <1>1, <1>4 DEF Alike
  <1> HIDE DEF v, w, past, ids
  <1>6. /\ v.grants = w.grants /\ v.active = w.active
        /\ v.active \subseteq v.grants /\ v.grants \subseteq ids
        /\ \A id \in ids : v.effects[id].reason = w.effects[id].reason
    BY <1>3 DEF Alike
  <1>7. \A g \in ids : Holder(b, g) = Holder(a, g)
    BY <1>2 DEF Holder
  <1>8. AuthorityFault(a, e, v, o) = AuthorityFault(b, e, w, q)
    <2>1. (\E p \in e.parents : ConeOf(a, p) \cap e.parents # {p})
          <=> \E p \in e.parents : ConeOf(b, p) \cap e.parents # {p}
      BY <1>1
    <2>2. (\/ e.grant \notin v.active \/ Holder(a, e.grant) # e.author
           \/ \E p \in e.parents : e.grant \notin Derive(a, ConeOf(a, p), o).active)
          <=> \/ e.grant \notin w.active \/ Holder(b, e.grant) # e.author
              \/ \E p \in e.parents : e.grant \notin Derive(b, ConeOf(b, p), q).active
      BY <1>5, <1>6, <1>7
    <2> QED
      BY <2>1, <2>2 DEF AuthorityFault
  <1>9. DelegateFault(a, e, v) = DelegateFault(b, e, w)
    <2>1. (\E g \in v.grants : Holder(a, g) = e.grantee)
          <=> \E g \in w.grants : Holder(b, g) = e.grantee
      BY <1>6, <1>7
    <2> QED
      BY <2>1 DEF DelegateFault
  <1>10. RevokeFault(a, e, past, v) = RevokeFault(b, e, past, w)
    BY <1>6 DEF RevokeFault
  <1>11. ResolveFault(a, e, past, v) = ResolveFault(b, e, past, w)
    <2>1. e.pick \in DOMAIN past => /\ a[e.pick] = b[e.pick]
                                    /\ v.effects[e.pick].reason = w.effects[e.pick].reason
      BY <1>2, <1>6
    <2> QED
      BY <2>1 DEF ResolveFault
  <1>12. CorrectionFault(a, e, past) = CorrectionFault(b, e, past)
    BY DEF CorrectionFault
  <1>13. KindFault(a, e, past, v) = KindFault(b, e, past, w)
    BY <1>9, <1>10, <1>11, <1>12 DEF KindFault
  <1>14. Semantics(a, e, past, v, o) = Semantics(b, e, past, w, q)
    BY <1>8, <1>13 DEF Semantics
  <1>15. Judge(a, e, o) = Semantics(a, e, past, v, o)
    BY DEF Judge, past, v, ids
  <1>16. Judge(b, e, q) = Semantics(b, e, past, w, q)
    BY <1>1, <1>2 DEF Judge, w
  <1> QED
    BY <1>14, <1>15, <1>16

(* evaluate, with what follows valid parents under one name.               *)
LEMMA EvaluateIs ==
    ASSUME NEW all, NEW id, NEW out, NEW order
    PROVE  Evaluate(id, all, out, order) =
             LET e == all[id]
                 states == {out[p].state : p \in e.parents}
             IN  IF e.time = Imprecise THEN Invalid("precision")
                 ELSE IF e.kind = "genesis"
                 THEN IF e.subject = None /\ e.grant = None /\ e.parents = {} /\ e.key # None
                      THEN Valid ELSE Invalid("genesis")
                 ELSE IF ParentsFault(e) # "" THEN Invalid(ParentsFault(e))
                 ELSE IF MissingParents(all, e) # {}
                 THEN Pending("parent_missing", MissingParents(all, e))
                 ELSE IF \E p \in e.parents : ~IsSubject(all[p]) THEN Invalid("wrong_subject")
                 ELSE IF "invalid" \in states THEN Invalid("ancestor")
                 ELSE IF SubjectFault(all, e) # "" THEN Invalid(SubjectFault(all, e))
                 ELSE IF "pending" \in states THEN Pending("ancestor", {})
                 ELSE IF e.subject \notin DOMAIN all THEN Pending("subject_missing", {e.subject})
                 ELSE IF all[e.subject].kind # "genesis" THEN Invalid("wrong_subject")
                 ELSE Judge(all, e, order)
  BY DEF Evaluate, Judge

(* That verdict is valid when no part refuses, and else invalid.           *)
LEMMA JudgeIs ==
    ASSUME NEW all, NEW e, NEW order
    PROVE  \/ /\ Judge(all, e, order) = Valid
              /\ DecisionFault(e) = ""
              /\ AuthorityFault(all, e, Derive(all, PastIds(all, e), order), order) = ""
              /\ KindFault(all, e, Sub(all, PastIds(all, e)),
                           Derive(all, PastIds(all, e), order)) = ""
           \/ Judge(all, e, order).state = "invalid"
  <1> DEFINE a == DecisionFault(e)
             b == AuthorityFault(all, e, Derive(all, PastIds(all, e), order), order)
             c == KindFault(all, e, Sub(all, PastIds(all, e)),
                            Derive(all, PastIds(all, e), order))
  <1>1. Judge(all, e, order) = Verdict(<<a, b, c>>)
    BY DEF Judge, Semantics
  <1> HIDE DEF a, b, c
  <1>2. Judge(all, e, order) =
          IF a # "" THEN Invalid(a) ELSE IF b # "" THEN Invalid(b)
          ELSE IF c # "" THEN Invalid(c) ELSE Valid
    BY <1>1, VerdictIs
  <1>3. \/ a = "" /\ b = "" /\ c = "" /\ Judge(all, e, order) = Valid
        \/ Judge(all, e, order).state = "invalid"
    <2>1. \A r : Invalid(r).state = "invalid"
      BY DEF Invalid
    <2>2. CASE a = "" /\ b = "" /\ c = ""
      BY <1>2, <2>2
    <2>3. CASE a # ""
      BY <1>2, <2>1, <2>3
    <2>4. CASE a = "" /\ b # ""
      BY <1>2, <2>1, <2>4
    <2>5. CASE a = "" /\ b = "" /\ c # ""
      BY <1>2, <2>1, <2>5
    <2> QED
      BY <2>2, <2>3, <2>4, <2>5
  <1> QED
    BY <1>3 DEF a, b, c

(* A valid event with a past.                                              *)
Founded(all, order, status, e) ==
    /\ ParentsFault(e) = "" /\ e.parents # {}
    /\ e.parents \subseteq ValidIn(status)
    /\ \A p \in e.parents : p \in DOMAIN all /\ IsSubject(all[p])
    /\ SubjectFault(all, e) = ""
    /\ e.subject \in DOMAIN all /\ all[e.subject].kind = "genesis"
    /\ Judge(all, e, order) = Valid

(* What is valid was signed properly on valid parents.                     *)
LEMMA ValidFacts ==
    ASSUME NEW all, Sane(all), NEW order, NEW status, Solves(all, order, status),
           NEW id \in ValidIn(status)
    PROVE  /\ id \in SubjectIds(all) /\ status[id] = Valid
           /\ all[id].kind = "genesis" =>
                 all[id].parents = {} /\ all[id].subject = None /\ all[id].grant = None
           /\ all[id].kind # "genesis" => Founded(all, order, status, all[id])
  <1> DEFINE e == all[id]
             states == {status[p].state : p \in e.parents}
  <1>1. /\ id \in SubjectIds(all) /\ status[id].state = "valid"
        /\ status \in [SubjectIds(all) -> Status]
        /\ status[id] = Evaluate(id, all, status, order)
    BY DEF ValidIn, Solves
  <1>2. Evaluate(id, all, status, order).state = "valid"
    BY <1>1
  <1>3. \A r, M : Invalid(r).state = "invalid" /\ Pending(r, M).state = "pending"
    BY DEF Invalid, Pending
  <1>4. CASE e.kind = "genesis"
    BY <1>1, <1>2, <1>3, <1>4, EvaluateIs
  <1>5. CASE e.kind # "genesis"
    <2>1. /\ ParentsFault(e) = "" /\ MissingParents(all, e) = {}
          /\ \A p \in e.parents : IsSubject(all[p])
          /\ "invalid" \notin states /\ "pending" \notin states
          /\ SubjectFault(all, e) = ""
          /\ e.subject \in DOMAIN all /\ all[e.subject].kind = "genesis"
          /\ Judge(all, e, order).state = "valid" /\ status[id] = Judge(all, e, order)
      BY <1>1, <1>2, <1>3, <1>5, EvaluateIs
    <2>2. Judge(all, e, order) = Valid
      BY <2>1, JudgeIs
    <2>3. e.parents # {}
      BY <2>1 DEF ParentsFault
    <2>4. ASSUME NEW p \in e.parents PROVE p \in ValidIn(status) /\ p \in DOMAIN all
      <3>1. p \in SubjectIds(all)
        BY <2>1 DEF MissingParents, SubjectIds
      <3>2. status[p].state \in {"valid", "invalid", "pending"}
        BY <1>1, <3>1 DEF Status
      <3>3. status[p].state = "valid"
        BY <2>1, <3>2
      <3>4. p \in DOMAIN status
        BY <1>1, <3>1
      <3> QED
        BY <3>1, <3>3, <3>4 DEF ValidIn, SubjectIds
    <2> QED
      BY <1>1, <1>5, <2>1, <2>2, <2>3, <2>4 DEF Founded
  <1> QED
    BY <1>4, <1>5

(* The valid subject events are causally closed.                           *)
LEMMA ValidUpright ==
    ASSUME NEW all, Sane(all), NEW order, NEW status, Solves(all, order, status)
    PROVE  Upright(all, ValidIn(status))
  <1>1. ASSUME NEW id \in ValidIn(status)
        PROVE  id \in DOMAIN all /\ all[id].parents \subseteq ValidIn(status)
    BY ValidFacts DEF Founded, SubjectIds
  <1> QED
    BY <1>1 DEF Upright

(* Decided is decided: more envelopes change the state of no event that    *)
(* has one.                                                                *)
Lasts(before, after, id) ==
    before[id].state # "pending" => after[id].state = before[id].state

(* classify: a decided subject event stays decided in a larger history.    *)
LEMMA StatusesStay ==
    ASSUME NEW a, NEW b, Sane(a), Sane(b), Extends(a, b), NEW o, NEW q,
           Covering(a, o), Covering(b, q), NEW s, NEW t, Solves(a, o, s), Solves(b, q, t)
    PROVE  \A id \in SubjectIds(a) : id \in SubjectIds(b) /\ Lasts(s, t, id)
  <1> DEFINE D == SubjectIds(a)
             G == {id \in D : Lasts(s, t, id)}
  <1>1. D \in SUBSET Nat /\ D \subseteq SubjectIds(b)
    BY SaneIds DEF SubjectIds, Extends
  <1>2. \A r, M : Invalid(r).state = "invalid" /\ Pending(r, M).state = "pending"
    BY DEF Invalid, Pending
  <1>3. ASSUME NEW id \in D, \A c \in D : c < id => c \in G PROVE Lasts(s, t, id)
    <2> DEFINE e == a[id]
               S == {s[p].state : p \in e.parents}
               T == {t[p].state : p \in e.parents}
    <2>1. id \in DOMAIN a /\ id \in DOMAIN b /\ b[id] = e /\ DOMAIN a \subseteq DOMAIN b
          /\ \A d \in DOMAIN a : b[d] = a[d]
      BY DEF SubjectIds, Extends
    <2>2. s[id] = Evaluate(id, a, s, o) /\ t[id] = Evaluate(id, b, t, q)
      BY <1>1 DEF Solves
    <2> SUFFICES ASSUME s[id].state # "pending" PROVE t[id].state = s[id].state
      BY DEF Lasts
    <2>3. CASE e.time = Imprecise
      BY <2>1, <2>2, <2>3, EvaluateIs
    <2>4. CASE e.time # Imprecise /\ e.kind = "genesis"
      BY <2>1, <2>2, <2>4, EvaluateIs
    <2>5. CASE e.time # Imprecise /\ e.kind # "genesis" /\ ParentsFault(e) # ""
      BY <2>1, <2>2, <2>5, EvaluateIs
    <2>6. CASE e.time # Imprecise /\ e.kind # "genesis" /\ ParentsFault(e) = ""
      <3>1. MissingParents(a, e) = {}
        BY <1>2, <2>2, <2>6, EvaluateIs
      <3>2. e.parents \subseteq DOMAIN a /\ MissingParents(b, e) = {}
            /\ \A p \in e.parents : b[p] = a[p]
        BY <2>1, <3>1 DEF MissingParents
      <3>3. CASE \E p \in e.parents : ~IsSubject(a[p])
        <4>1. \E p \in e.parents : ~IsSubject(b[p])
          BY <3>2, <3>3
        <4> QED
          BY <2>1, <2>2, <2>6, <3>1, <3>2, <3>3, <4>1, EvaluateIs
      <3>4. CASE \A p \in e.parents : IsSubject(a[p])
        <4>1. \A p \in e.parents : p \in D /\ p < id /\ IsSubject(b[p])
          BY <2>1, <3>2, <3>4, SaneIds DEF SubjectIds
        <4>2. \A p \in e.parents : s[p].state # "pending" => t[p].state = s[p].state
          BY <1>3, <4>1 DEF Lasts
        <4>3. \A p \in e.parents : /\ s[p].state \in {"valid", "invalid", "pending"}
                                   /\ t[p].state \in {"valid", "invalid", "pending"}
          BY <1>1, <4>1 DEF Solves, Status
        <4>4. CASE "invalid" \in S
          <5>1. "invalid" \in T
            BY <4>2, <4>4
          <5> QED
            BY <1>2, <2>1, <2>2, <2>6, <3>1, <3>2, <3>4, <4>1, <4>4, <5>1, EvaluateIs
        <4>5. CASE "invalid" \notin S /\ SubjectFault(a, e) # ""
          <5>1. s[id].state = "invalid"
            BY <1>2, <2>2, <2>6, <3>1, <3>4, <4>5, EvaluateIs
          <5>2. SubjectFault(b, e) # ""
            <6>1. \A p \in e.parents : SubjectOf(b, p) = SubjectOf(a, p) /\ b[p].key = a[p].key
              BY <3>2 DEF SubjectOf
            <6> QED
              BY <4>5, <6>1 DEF SubjectFault
          <5>3. t[id].state = "invalid"
            BY <1>2, <2>1, <2>2, <2>6, <3>2, <4>1, <5>2, EvaluateIs
          <5> QED
            BY <5>1, <5>3
        <4>6. CASE "invalid" \notin S /\ SubjectFault(a, e) = ""
          <5>1. "pending" \notin S
            BY <1>2, <2>2, <2>6, <3>1, <3>4, <4>6, EvaluateIs
          <5>2. "pending" \notin T /\ "invalid" \notin T /\ e.parents \subseteq ValidIn(s)
            <6>1. \A p \in e.parents : s[p].state = "valid" /\ t[p].state = "valid"
              BY <4>2, <4>3, <4>6, <5>1
            <6>2. D = DOMAIN s
              BY DEF Solves
            <6> QED
              BY <4>1, <6>1, <6>2 DEF ValidIn
          <5>3. e.subject \in DOMAIN a
            BY <1>2, <2>2, <2>6, <3>1, <3>4, <4>6, <5>1, EvaluateIs
          <5>4. e.subject \in DOMAIN b /\ b[e.subject] = a[e.subject]
            BY <2>1, <5>3
          <5>5. SubjectFault(b, e) = ""
            <6>1. \A p \in e.parents : SubjectOf(b, p) = SubjectOf(a, p) /\ b[p].key = a[p].key
              BY <3>2 DEF SubjectOf
            <6> QED
              BY <4>6, <6>1 DEF SubjectFault
          <5>6. Judge(a, e, o) = Judge(b, e, q)
            BY <5>2, ValidUpright, JudgeAlike
          <5>7. Evaluate(id, a, s, o) = IF a[e.subject].kind # "genesis" THEN Invalid("wrong_subject")
                                        ELSE Judge(a, e, o)
            BY <2>6, <3>1, <3>4, <4>6, <5>1, <5>3, EvaluateIs
          <5>8. Evaluate(id, b, t, q) = IF b[e.subject].kind # "genesis" THEN Invalid("wrong_subject")
                                        ELSE Judge(b, e, q)
            BY <2>1, <2>6, <3>2, <4>1, <5>2, <5>4, <5>5, EvaluateIs
          <5> QED
            BY <2>2, <5>4, <5>6, <5>7, <5>8
        <4> QED
          BY <4>4, <4>5, <4>6
      <3> QED
        BY <3>3, <3>4
    <2> QED
      BY <2>3, <2>4, <2>5, <2>6
  <1>4. D \subseteq G
    <2> HIDE DEF D
    <2>1. ASSUME NEW id \in D, \A c \in D : c < id => c \in G PROVE id \in G
      BY <1>3, <2>1
    <2> HIDE DEF G
    <2> QED
      BY <1>1, <2>1, FromBelow
  <1> QED
    BY <1>1, <1>4

(* There is one solution, whatever the order.                              *)
LEMMA StatusesAlike ==
    ASSUME NEW all, Sane(all), NEW o, NEW q, Covering(all, o), Covering(all, q),
           NEW s, NEW t, Solves(all, o, s), Solves(all, q, t)
    PROVE  s = t
  <1> DEFINE D == SubjectIds(all)
             G == {id \in D : s[id] = t[id]}
  <1>1. D \in SUBSET Nat
    BY SaneIds DEF SubjectIds
  <1>2. Extends(all, all)
    BY DEF Extends
  <1>3. ASSUME NEW id \in D, \A c \in D : c < id => c \in G PROVE s[id] = t[id]
    <2> DEFINE e == all[id]
               S == {s[p].state : p \in e.parents}
               T == {t[p].state : p \in e.parents}
    <2>1. id \in DOMAIN all /\ s[id] = Evaluate(id, all, s, o) /\ t[id] = Evaluate(id, all, t, q)
      BY DEF Solves, SubjectIds
    <2>2. CASE \E p \in e.parents : ~(p \in DOMAIN all /\ IsSubject(all[p]))
      <3>1. MissingParents(all, e) # {} \/ \E p \in e.parents : ~IsSubject(all[p])
        BY <2>2 DEF MissingParents
      <3>2. ASSUME NEW x, NEW y
            PROVE  Evaluate(id, all, x, y) =
                     IF e.time = Imprecise THEN Invalid("precision")
                     ELSE IF e.kind = "genesis"
                     THEN IF e.subject = None /\ e.grant = None /\ e.parents = {} /\ e.key # None
                          THEN Valid ELSE Invalid("genesis")
                     ELSE IF ParentsFault(e) # "" THEN Invalid(ParentsFault(e))
                     ELSE IF MissingParents(all, e) # {}
                     THEN Pending("parent_missing", MissingParents(all, e))
                     ELSE Invalid("wrong_subject")
        BY <3>1 DEF Evaluate
      <3> QED
        BY <2>1, <3>2
    <2>3. CASE \A p \in e.parents : p \in DOMAIN all /\ IsSubject(all[p])
      <3>1. \A p \in e.parents : p \in D /\ p < id
        BY <2>1, <2>3, SaneIds DEF SubjectIds
      <3>2. S = T /\ \A p \in e.parents : s[p] = t[p]
        BY <1>3, <3>1
      <3>3. CASE "invalid" \in S \/ "pending" \in S
        BY <2>1, <3>2, <3>3, EvaluateIs
      <3>4. CASE "invalid" \notin S /\ "pending" \notin S
        <4>1. e.parents \subseteq ValidIn(s)
          <5>1. \A p \in e.parents : s[p].state \in {"valid", "invalid", "pending"} /\ p \in DOMAIN s
            BY <3>1 DEF Solves, Status
          <5> QED
            BY <3>4, <5>1 DEF ValidIn
        <4>2. Judge(all, e, o) = Judge(all, e, q)
          BY <1>2, <4>1, ValidUpright, JudgeAlike
        <4> QED
          BY <2>1, <3>2, <4>2, EvaluateIs
      <3> QED
        BY <3>3, <3>4
    <2> QED
      BY <2>2, <2>3
  <1>4. D \subseteq G
    <2> HIDE DEF D
    <2>1. ASSUME NEW id \in D, \A c \in D : c < id => c \in G PROVE id \in G
      BY <1>3, <2>1
    <2> HIDE DEF G
    <2> QED
      BY <1>1, <2>1, FromBelow
  <1>5. \A id \in D : s[id] = t[id]
    BY <1>4
  <1>6. s \in [D -> Status] /\ t \in [D -> Status]
    BY DEF Solves
  <1> HIDE DEF D
  <1> QED
    BY <1>5, <1>6

-----------------------------------------------------------------------------
(* What edges read of the valid subject events                             *)

(* A valid event selects a revision that a valid event created.            *)
LEMMA SelectionIsValid ==
    ASSUME NEW all, Sane(all), NEW order, NEW status, Solves(all, order, status)
    PROVE  LET V == ValidIn(status) IN
           /\ Rooted(Sub(all, V))
           /\ \A id \in V : /\ Selections(Sub(all, V))[id] \in V
                            /\ CreatesRevision(all[Selections(Sub(all, V))[id]])
  <1> DEFINE V == ValidIn(status)
             v == Sub(all, V)
             sel == Selections(v)
             G == {id \in V : sel[id] \in V /\ CreatesRevision(all[sel[id]])}
  <1>1. Upright(all, V)
    BY ValidUpright
  <1>2. DOMAIN v = V /\ (\A id \in V : v[id] = all[id]) /\ Sane(v) /\ Closed(v)
    BY <1>1, SubFacts
  <1>3. V \in SUBSET Nat /\ V \subseteq DOMAIN all
    BY <1>1, SaneIds DEF Upright
  <1>4. Rooted(v)
    <2>1. ASSUME NEW id \in V PROVE all[id].kind = "genesis" \/ all[id].parents # {}
      <3>1. all[id].kind # "genesis" => Founded(all, order, status, all[id])
        BY ValidFacts
      <3> QED
        BY <3>1 DEF Founded
    <2> QED
      BY <1>2, <2>1 DEF Rooted
  <1> HIDE DEF v
  <1>5. /\ \A id \in V : sel[id] = IF CreatesRevision(all[id]) THEN id
                                   ELSE IF all[id].kind = "resolve" THEN all[id].pick
                                   ELSE IF ParentOf(all[id]) \in V THEN sel[ParentOf(all[id])] ELSE None
        /\ \A id \in V : ~CreatesRevision(all[id]) =>
                ParentOf(all[id]) \in all[id].parents /\ ParentOf(all[id]) < id
    BY <1>2, <1>4, SelectionFacts
  <1> HIDE DEF V, sel
  <1>6. ASSUME NEW id \in V, \A c \in V : c < id => c \in G PROVE id \in G
    <2>1. CASE CreatesRevision(all[id])
      BY <1>5, <2>1
    <2>2. CASE ~CreatesRevision(all[id]) /\ all[id].kind = "resolve"
      <3> DEFINE e == all[id]
                 past == PastIds(all, e)
                 w == Derive(all, past, order)
      <3>1. e.pick # None /\ e.kind # "genesis" /\ sel[id] = e.pick
        BY <1>5, <2>2 DEF CreatesRevision
      <3>2. Founded(all, order, status, e)
        BY <3>1, ValidFacts DEF V
      <3>3. KindFault(all, e, Sub(all, past), w) = ""
        <4>1. Judge(all, e, order) = Valid /\ Valid.state # "invalid"
          BY <3>2 DEF Founded, Valid
        <4> QED
          BY <4>1, JudgeIs
      <3> HIDE DEF past, w
      <3>4. ResolveFault(all, e, Sub(all, past), w) = ""
        BY <2>2, <3>3 DEF KindFault
      <3>5. e.pick \in DOMAIN Sub(all, past) /\ CreatesRevision(all[e.pick])
        BY <3>1, <3>4 DEF ResolveFault
      <3>6. past \subseteq V
        <4>1. e.parents \subseteq V /\ Extends(all, all)
          BY <3>2 DEF Founded, Extends, V
        <4>2. PastIds(all, e) \subseteq V
          BY <1>1, <4>1, PastStays
        <4> QED
          BY <4>2 DEF past
      <3> QED
        BY <3>1, <3>5, <3>6 DEF Sub
    <2>3. CASE ~CreatesRevision(all[id]) /\ all[id].kind # "resolve"
      <3>1. ParentOf(all[id]) \in V /\ ParentOf(all[id]) < id
        BY <1>1, <1>5, <2>3 DEF Upright
      <3> QED
        BY <1>5, <1>6, <2>3, <3>1
    <2> QED
      BY <2>1, <2>2, <2>3
  <1>7. V \subseteq G
    <2> HIDE DEF G
    <2> QED
      BY <1>3, <1>6, FromBelow
  <1> QED
    BY <1>4, <1>7 DEF V, sel, v

(* What the valid subject events in a, with the statuses s, let edges      *)
(* read, still stands in b with the statuses t.                            *)
Stands(a, b, s, t) ==
    /\ Extends(a, b)
    /\ ValidIn(s) \subseteq SubjectIds(a)
    /\ \A id \in SubjectIds(a) : id \in SubjectIds(b) /\ Lasts(s, t, id)
    /\ \A id \in ValidIn(s) :
          /\ Subjects(a, s).selected[id] \in DOMAIN a
          /\ Subjects(b, t).selected[id] = Subjects(a, s).selected[id]
    /\ Subjects(a, s).revisions \subseteq Subjects(b, t).revisions

(* What edges read of the subject events.                                  *)
LEMMA SubjectsAre ==
    ASSUME NEW all, NEW order, NEW status, Solves(all, order, status)
    PROVE  LET v == Sub(all, ValidIn(status)) IN
           /\ ValidIn(status) \subseteq SubjectIds(all)
           /\ Subjects(all, status).valid = v
           /\ Subjects(all, status).selected = Selections(v)
           /\ Subjects(all, status).revisions = {id \in ValidIn(status) : CreatesRevision(all[id])}
  <1>1. ValidIn(status) \subseteq SubjectIds(all)
    BY DEF Solves, ValidIn
  <1>2. {id \in ValidIn(status) : IsSubject(all[id])} = ValidIn(status)
    BY <1>1 DEF SubjectIds
  <1>3. {id \in DOMAIN Sub(all, ValidIn(status)) : CreatesRevision(Sub(all, ValidIn(status))[id])}
        = {id \in ValidIn(status) : CreatesRevision(all[id])}
    BY DEF Sub
  <1> QED
    BY <1>1, <1>2, <1>3 DEF Subjects

(* It is not disturbed by a larger history.                                *)
LEMMA SubjectsStand ==
    ASSUME NEW a, NEW b, Sane(a), Sane(b), Extends(a, b), NEW o, NEW q,
           Covering(a, o), Covering(b, q), NEW s, NEW t, Solves(a, o, s), Solves(b, q, t)
    PROVE  Stands(a, b, s, t) /\ ValidIn(s) \subseteq ValidIn(t)
  <1> DEFINE v == Sub(a, ValidIn(s))
             w == Sub(b, ValidIn(t))
  <1>1. \A id \in SubjectIds(a) : id \in SubjectIds(b) /\ Lasts(s, t, id)
    BY StatusesStay
  <1>2. ValidIn(s) \subseteq SubjectIds(a) /\ ValidIn(t) \subseteq SubjectIds(b)
    BY SubjectsAre
  <1>3. ValidIn(s) \subseteq ValidIn(t)
    <2>1. ASSUME NEW id \in ValidIn(s) PROVE id \in ValidIn(t)
      <3>1. t[id].state = "valid"
        BY <1>1, <1>2 DEF Lasts, ValidIn
      <3>2. id \in DOMAIN t
        BY <1>1, <1>2 DEF Solves
      <3> QED
        BY <3>1, <3>2 DEF ValidIn
    <2> QED
      BY <2>1
  <1>4. Upright(a, ValidIn(s)) /\ Upright(b, ValidIn(t))
    BY ValidUpright
  <1>5. /\ DOMAIN v = ValidIn(s) /\ Sane(v) /\ Closed(v) /\ \A id \in ValidIn(s) : v[id] = a[id]
        /\ DOMAIN w = ValidIn(t) /\ Sane(w) /\ \A id \in ValidIn(t) : w[id] = b[id]
    BY <1>4, SubFacts
  <1>6. \A id \in ValidIn(s) : b[id] = a[id]
    BY <1>2 DEF Extends, SubjectIds
  <1>7. Extends(v, w)
    <2> HIDE DEF v, w
    <2> QED
      BY <1>3, <1>5, <1>6 DEF Extends
  <1>8. /\ Rooted(v) /\ Rooted(w)
        /\ \A id \in ValidIn(s) : Selections(v)[id] \in ValidIn(s)
    BY SelectionIsValid
  <1>9. \A id \in DOMAIN v : Selections(w)[id] = Selections(v)[id]
    <2> HIDE DEF v, w
    <2> QED
      BY <1>5, <1>7, <1>8, SelectionsStay
  <1>10. Subjects(a, s).selected = Selections(v) /\ Subjects(b, t).selected = Selections(w)
    BY SubjectsAre
  <1>11. /\ Subjects(a, s).revisions = {id \in ValidIn(s) : CreatesRevision(a[id])}
         /\ Subjects(b, t).revisions = {id \in ValidIn(t) : CreatesRevision(b[id])}
    BY SubjectsAre
  <1> HIDE DEF v, w
  <1>12. ValidIn(s) \subseteq DOMAIN a
    BY <1>2 DEF SubjectIds
  <1>13. \A id \in ValidIn(s) : /\ Subjects(a, s).selected[id] \in DOMAIN a
                                /\ Subjects(b, t).selected[id] = Subjects(a, s).selected[id]
    BY <1>5, <1>8, <1>9, <1>10, <1>12
  <1>14. Subjects(a, s).revisions \subseteq Subjects(b, t).revisions
    BY <1>3, <1>6, <1>11
  <1> QED
    BY <1>1, <1>2, <1>3, <1>13, <1>14 DEF Stands

-----------------------------------------------------------------------------
(* Edges and attestations, decided once and for all                        *)

(* The statuses f of all the envelopes in `all', over those of its         *)
(* subject events.                                                         *)
Over(all, s, f) ==
    /\ s \in [SubjectIds(all) -> Status]
    /\ \A id \in SubjectIds(all) : f[id] = s[id]

(* A pin that is not valid is refused or pending.                          *)
LEMMA PinIs ==
    ASSUME NEW pin, NEW all, NEW out, NEW s
    PROVE  \/ CheckPin(pin, all, out, s) = Valid
           \/ CheckPin(pin, all, out, s).state \in {"invalid", "pending"}
  BY DEF CheckPin, Invalid, Pending

(* A decided pin stays decided.                                            *)
LEMMA PinStays ==
    ASSUME NEW a, NEW b, NEW s, NEW t, Stands(a, b, s, t), NEW f, NEW g,
           Over(a, s, f), Over(b, t, g), NEW pin,
           CheckPin(pin, a, f, Subjects(a, s)).state # "pending"
    PROVE  /\ CheckPin(pin, b, g, Subjects(b, t)).state = CheckPin(pin, a, f, Subjects(a, s)).state
           /\ pin.subject \in DOMAIN a
  <1> DEFINE S == Subjects(a, s)
             T == Subjects(b, t)
  <1>1. DOMAIN a \subseteq DOMAIN b /\ \A id \in DOMAIN a : b[id] = a[id]
    BY DEF Stands, Extends
  <1>2. \A r, M : Invalid(r).state = "invalid" /\ Pending(r, M).state = "pending"
    BY DEF Invalid, Pending
  <1>3. {pin.subject, pin.basis} \subseteq DOMAIN a
    BY <1>2 DEF CheckPin
  <1>4. b[pin.subject] = a[pin.subject] /\ b[pin.basis] = a[pin.basis]
        /\ {pin.subject, pin.basis} \subseteq DOMAIN b
    BY <1>1, <1>3
  <1>5. CASE \/ a[pin.subject].kind # "genesis" \/ ~IsSubject(a[pin.basis])
             \/ SubjectOf(a, pin.basis) # pin.subject
    <2>1. \/ b[pin.subject].kind # "genesis" \/ ~IsSubject(b[pin.basis])
          \/ SubjectOf(b, pin.basis) # pin.subject
      BY <1>4, <1>5 DEF SubjectOf
    <2>2. CheckPin(pin, a, f, S) = Invalid("pin_subject")
      BY <1>3, <1>5 DEF CheckPin
    <2>3. CheckPin(pin, b, g, T) = Invalid("pin_subject")
      BY <1>4, <2>1 DEF CheckPin
    <2> QED
      BY <1>3, <2>2, <2>3
  <1>6. CASE ~ \/ a[pin.subject].kind # "genesis" \/ ~IsSubject(a[pin.basis])
               \/ SubjectOf(a, pin.basis) # pin.subject
    <2>1. ~ \/ b[pin.subject].kind # "genesis" \/ ~IsSubject(b[pin.basis])
            \/ SubjectOf(b, pin.basis) # pin.subject
      BY <1>4, <1>6 DEF SubjectOf
    <2>2. pin.basis \in SubjectIds(a)
      BY <1>3, <1>6 DEF SubjectIds
    <2>3. f[pin.basis] = s[pin.basis] /\ g[pin.basis] = t[pin.basis]
          /\ Lasts(s, t, pin.basis)
      BY <2>2 DEF Over, Stands
    <2>4. CheckPin(pin, a, f, S) =
            IF s[pin.basis].state = "invalid" THEN Invalid("pin_invalid")
            ELSE IF s[pin.basis].state = "pending" THEN Pending("pin_pending", {})
            ELSE IF S.selected[pin.basis] # pin.revision THEN Invalid("pin_revision")
            ELSE IF a[pin.revision].body # pin.body THEN Invalid("pin_body")
            ELSE Valid
      BY <1>3, <1>6, <2>3 DEF CheckPin
    <2>5. CheckPin(pin, b, g, T) =
            IF t[pin.basis].state = "invalid" THEN Invalid("pin_invalid")
            ELSE IF t[pin.basis].state = "pending" THEN Pending("pin_pending", {})
            ELSE IF T.selected[pin.basis] # pin.revision THEN Invalid("pin_revision")
            ELSE IF b[pin.revision].body # pin.body THEN Invalid("pin_body")
            ELSE Valid
      BY <1>4, <2>1, <2>3 DEF CheckPin
    <2>6. t[pin.basis].state = s[pin.basis].state /\ s[pin.basis].state # "pending"
      <3>1. s[pin.basis].state # "pending"
        BY <1>2, <2>4
      <3> QED
        BY <2>3, <3>1 DEF Lasts
    <2>7. CASE s[pin.basis].state = "invalid"
      BY <1>3, <2>4, <2>5, <2>6, <2>7
    <2>8. CASE s[pin.basis].state # "invalid"
      <3> HIDE DEF S, T
      <3>1. s[pin.basis].state = "valid" => pin.basis \in ValidIn(s)
        BY <2>2 DEF ValidIn, Over
      <3>2. s[pin.basis].state = "valid" =>
               /\ S.selected[pin.basis] \in DOMAIN a
               /\ T.selected[pin.basis] = S.selected[pin.basis]
        BY <3>1 DEF Stands, S, T
      <3>3. s[pin.basis].state = "valid"
        BY <2>2, <2>6, <2>8 DEF Over, Status
      <3> QED
        <4>1. CASE S.selected[pin.basis] # pin.revision
          <5>1. CheckPin(pin, b, g, T) = CheckPin(pin, a, f, S)
            BY <2>4, <2>5, <2>6, <2>8, <3>2, <3>3, <4>1
          <5> QED
            BY <1>3, <5>1 DEF S, T
        <4>2. CASE S.selected[pin.basis] = pin.revision
          <5>1. b[pin.revision] = a[pin.revision]
            BY <1>1, <3>2, <3>3, <4>2
          <5>2. CheckPin(pin, b, g, T) = CheckPin(pin, a, f, S)
            BY <2>4, <2>5, <2>6, <2>8, <3>2, <3>3, <4>2, <5>1
          <5> QED
            BY <1>3, <5>2 DEF S, T
        <4> QED
          BY <4>1, <4>2
    <2> QED
      BY <2>7, <2>8
  <1> QED
    BY <1>5, <1>6

(* So do both pins of an event.                                            *)
LEMMA PinsStay ==
    ASSUME NEW a, NEW b, NEW s, NEW t, Stands(a, b, s, t), NEW f, NEW g,
           Over(a, s, f), Over(b, t, g), NEW pins,
           CheckPins(pins, a, f, Subjects(a, s)).state # "pending"
    PROVE  LET before == CheckPins(pins, a, f, Subjects(a, s))
               after == CheckPins(pins, b, g, Subjects(b, t))
           IN  \/ before.state = "invalid" /\ after.state = "invalid"
               \/ before = Valid /\ after = Valid /\ pins.source.subject \in DOMAIN a
  <1> DEFINE S == Subjects(a, s)
             T == Subjects(b, t)
             src == CheckPin(pins.source, a, f, S)
             tgt == CheckPin(pins.target, a, f, S)
             srd == CheckPin(pins.source, b, g, T)
             tgd == CheckPin(pins.target, b, g, T)
  <1>1. /\ src = Valid \/ src.state \in {"invalid", "pending"}
        /\ tgt = Valid \/ tgt.state \in {"invalid", "pending"}
        /\ srd = Valid \/ srd.state \in {"invalid", "pending"}
        /\ tgd = Valid \/ tgd.state \in {"invalid", "pending"}
    BY PinIs
  <1>2. src.state # "pending" => srd.state = src.state /\ pins.source.subject \in DOMAIN a
    BY PinStays
  <1>3. tgt.state # "pending" => tgd.state = tgt.state
    BY PinStays
  <1>4. CheckPins(pins, a, f, S) =
          IF src.state = "invalid" THEN src ELSE IF tgt.state = "invalid" THEN tgt
          ELSE IF src.missing \cup tgt.missing # {}
          THEN Pending("pin_missing", src.missing \cup tgt.missing)
          ELSE IF src.state = "pending" THEN src ELSE tgt
    BY DEF CheckPins
  <1>5. CheckPins(pins, b, g, T) =
          IF srd.state = "invalid" THEN srd ELSE IF tgd.state = "invalid" THEN tgd
          ELSE IF srd.missing \cup tgd.missing # {}
          THEN Pending("pin_missing", srd.missing \cup tgd.missing)
          ELSE IF srd.state = "pending" THEN srd ELSE tgd
    BY DEF CheckPins
  <1>6. Valid.state = "valid" /\ Valid.missing = {} /\ \A r, M : Pending(r, M).state = "pending"
    BY DEF Valid, Pending
  <1> DEFINE before == CheckPins(pins, a, f, S)
             after == CheckPins(pins, b, g, T)
  <1>7. before.state # "pending"
    OBVIOUS
  <1> HIDE DEF S, T, src, tgt, srd, tgd, before, after
  <1>8. CASE src.state = "invalid"
    BY <1>2, <1>4, <1>5, <1>8 DEF before, after, S, T
  <1>9. CASE src.state # "invalid" /\ tgt.state = "invalid"
    <2>1. before.state = "invalid" /\ after.state = "invalid"
      BY <1>3, <1>4, <1>5, <1>9 DEF before, after
    <2> QED
      BY <2>1 DEF before, after, S, T
  <1>10. CASE src.state # "invalid" /\ tgt.state # "invalid"
    <2>1. src = Valid /\ tgt = Valid
      <3>1. before = IF src.missing \cup tgt.missing # {}
                     THEN Pending("pin_missing", src.missing \cup tgt.missing)
                     ELSE IF src.state = "pending" THEN src ELSE tgt
        BY <1>4, <1>10 DEF before
      <3>2. src.state # "pending" /\ tgt.state # "pending"
        BY <1>6, <1>7, <3>1
      <3> QED
        BY <1>1, <1>10, <3>2
    <2>2. srd = Valid /\ tgd = Valid /\ pins.source.subject \in DOMAIN a
      BY <1>1, <1>2, <1>3, <1>6, <2>1
    <2>3. before = Valid /\ after = Valid
      BY <1>4, <1>5, <1>6, <2>1, <2>2 DEF before, after
    <2> QED
      BY <2>2, <2>3 DEF before, after, S, T
  <1> QED
    BY <1>8, <1>9, <1>10

(* A decided assertion stays decided.                                      *)
LEMMA AssertStays ==
    ASSUME NEW a, NEW b, NEW s, NEW t, Stands(a, b, s, t), NEW f, NEW g,
           Over(a, s, f), Over(b, t, g), NEW e,
           EvaluateAssert(a, e, f, Subjects(a, s)).state # "pending"
    PROVE  EvaluateAssert(b, e, g, Subjects(b, t)).state
           = EvaluateAssert(a, e, f, Subjects(a, s)).state
  <1> DEFINE before == CheckPins(e.pins, a, f, Subjects(a, s))
             after == CheckPins(e.pins, b, g, Subjects(b, t))
             early == e.parents # {} \/ e.decision # "sound" \/ e.relation \notin RELATIONS
             dispute(all) == /\ e.relation = "disputes"
                             /\ \/ e.pins.source.subject = e.pins.target.subject
                                \/ all[e.pins.source.subject].author # e.author
  <1>1. Valid.state = "valid" /\ \A r : Invalid(r).state = "invalid"
    BY DEF Valid, Invalid
  <1>2. CASE early
    BY <1>1, <1>2 DEF EvaluateAssert
  <1>3. CASE ~early
    <2>1. EvaluateAssert(a, e, f, Subjects(a, s)) =
            IF before # Valid THEN before
            ELSE IF dispute(a) THEN Invalid("dispute_counterclaim") ELSE Valid
      BY <1>3 DEF EvaluateAssert
    <2>2. EvaluateAssert(b, e, g, Subjects(b, t)) =
            IF after # Valid THEN after
            ELSE IF dispute(b) THEN Invalid("dispute_counterclaim") ELSE Valid
      BY <1>3 DEF EvaluateAssert
    <2>3. before.state # "pending"
      BY <1>1, <2>1
    <2>4. \/ before.state = "invalid" /\ after.state = "invalid"
          \/ before = Valid /\ after = Valid /\ e.pins.source.subject \in DOMAIN a
      BY <2>3, PinsStay
    <2>5. e.pins.source.subject \in DOMAIN a => (dispute(a) <=> dispute(b))
      BY DEF Stands, Extends
    <2> HIDE DEF before, after, dispute
    <2> QED
      BY <1>1, <2>1, <2>2, <2>4, <2>5
  <1> QED
    BY <1>2, <1>3

(* A valid reaffirmation stands on valid events of its edge.               *)
EdgeEvents(all, f) ==
    {id \in DOMAIN all \ SubjectIds(all) :
        all[id].kind # "attestation" /\ f[id].state = "valid"}

(* The decided events of chains are causally closed.                       *)
LEMMA EdgeEventsUpright ==
    ASSUME NEW all, Sane(all), NEW s, NEW f, SolvesEdges(all, s, f)
    PROVE  Upright(all, EdgeEvents(all, f))
  <1> DEFINE C == EdgeEvents(all, f)
             S == Subjects(all, s)
  <1>1. ASSUME NEW id \in C PROVE all[id].parents \subseteq C
    <2> DEFINE e == all[id]
               deps == e.parents \cup {e.edge}
               states == {f[p].state : p \in deps}
    <2>1. /\ id \in DOMAIN all \ SubjectIds(all) /\ e.kind # "attestation"
          /\ f[id].state = "valid" /\ f[id] = EvaluateEdge(id, all, f, S)
      BY DEF EdgeEvents, SolvesEdges
    <2>2. e.kind \in {"edge_assert", "edge_reaffirm"}
      BY <2>1, EdgeNames DEF EdgeKinds
    <2>3. \A r, M : Invalid(r).state = "invalid" /\ Pending(r, M).state = "pending"
      BY DEF Invalid, Pending
    <2>4. CASE e.kind = "edge_assert"
      <3>1. EvaluateAssert(all, e, f, S).state = "valid"
        BY <2>1, <2>3, <2>4 DEF EvaluateEdge
      <3> QED
        BY <2>3, <3>1 DEF EvaluateAssert
    <2>5. CASE e.kind = "edge_reaffirm"
      <3>1. EvaluateReaffirm(all, e, f, S).state = "valid"
        BY <2>1, <2>3, <2>5 DEF EvaluateEdge
      <3>2. /\ deps \subseteq DOMAIN all /\ all[e.edge].kind = "edge_assert"
            /\ \A p \in e.parents : EdgeOf(all, p) = e.edge
            /\ "invalid" \notin states /\ "pending" \notin states
        <4>1. deps \ DOMAIN all = {}
          BY <2>3, <3>1 DEF EvaluateReaffirm
        <4> QED
          BY <2>3, <3>1, <4>1 DEF EvaluateReaffirm
      <3>3. ASSUME NEW p \in e.parents PROVE p \in C
        <4>1. p \in DOMAIN all /\ e.edge \in DOMAIN all /\ e.edge # None
          BY <3>2, SaneIds DEF None
        <4>2. all[p].kind \in {"edge_assert", "edge_reaffirm"}
          BY <3>2, <4>1 DEF EdgeOf
        <4>3. p \notin SubjectIds(all) /\ all[p].kind # "attestation"
          BY <4>2 DEF SubjectIds, IsSubject, EdgeKinds
        <4>4. f[p].state \in {"valid", "invalid", "pending"}
          BY <4>1 DEF SolvesEdges, Status
        <4>5. f[p].state = "valid"
          BY <3>2, <4>4
        <4> QED
          BY <4>1, <4>3, <4>5 DEF EdgeEvents
      <3> QED
        BY <3>3
    <2> QED
      BY <2>2, <2>4, <2>5
  <1>2. C \subseteq DOMAIN all
    BY DEF EdgeEvents
  <1> QED
    BY <1>1, <1>2 DEF Upright

(* A decided reaffirmation stays decided.                                  *)
LEMMA ReaffirmStays ==
    ASSUME NEW a, NEW b, Sane(a), Sane(b), NEW s, NEW t, Stands(a, b, s, t), NEW f, NEW g,
           Over(a, s, f), Over(b, t, g), SolvesEdges(a, s, f), SolvesEdges(b, t, g),
           NEW e, \A p \in (e.parents \cup {e.edge}) \cap DOMAIN a : Lasts(f, g, p),
           EvaluateReaffirm(a, e, f, Subjects(a, s)).state # "pending"
    PROVE  EvaluateReaffirm(b, e, g, Subjects(b, t)).state
           = EvaluateReaffirm(a, e, f, Subjects(a, s)).state
  <1> DEFINE deps == e.parents \cup {e.edge}
             S == {f[p].state : p \in deps}
             T == {g[p].state : p \in deps}
             before == CheckPins(e.pins, a, f, Subjects(a, s))
             after == CheckPins(e.pins, b, g, Subjects(b, t))
             wrong(all) == \/ all[e.edge].kind # "edge_assert"
                           \/ \E p \in e.parents : EdgeOf(all, p) # e.edge
  <1>1. Valid.state = "valid"
        /\ \A r, M : Invalid(r).state = "invalid" /\ Pending(r, M).state = "pending"
    BY DEF Valid, Invalid, Pending
  <1>2. CASE e.parents = {}
    BY <1>2 DEF EvaluateReaffirm
  <1>3. CASE e.parents # {}
    <2>1. deps \ DOMAIN a = {}
      BY <1>1, <1>3 DEF EvaluateReaffirm
    <2>2. deps \ DOMAIN b = {} /\ deps \subseteq DOMAIN a /\ \A p \in deps : b[p] = a[p]
      BY <2>1 DEF Stands, Extends
    <2>3. wrong(a) <=> wrong(b)
      BY <2>2 DEF EdgeOf
    <2>4. CASE wrong(a)
      BY <1>3, <2>1, <2>2, <2>3, <2>4 DEF EvaluateReaffirm
    <2>5. CASE ~wrong(a)
      <3>1. EvaluateReaffirm(a, e, f, Subjects(a, s)) =
              IF "invalid" \in S THEN Invalid("ancestor")
              ELSE IF e.author # a[e.edge].author THEN Invalid("edge_author")
              ELSE IF "pending" \in S THEN Pending("ancestor", {})
              ELSE IF ReaffirmFault(a, e) # "" THEN Invalid(ReaffirmFault(a, e))
              ELSE before
        BY <1>3, <2>1, <2>5 DEF EvaluateReaffirm
      <3>2. EvaluateReaffirm(b, e, g, Subjects(b, t)) =
              IF "invalid" \in T THEN Invalid("ancestor")
              ELSE IF e.author # b[e.edge].author THEN Invalid("edge_author")
              ELSE IF "pending" \in T THEN Pending("ancestor", {})
              ELSE IF ReaffirmFault(b, e) # "" THEN Invalid(ReaffirmFault(b, e))
              ELSE after
        BY <1>3, <2>2, <2>3, <2>5 DEF EvaluateReaffirm
      <3>3. \A p \in deps : f[p].state # "pending" => g[p].state = f[p].state
        BY <2>2 DEF Lasts
      <3>4. \A p \in deps : f[p].state \in {"valid", "invalid", "pending"}
        BY <2>2 DEF SolvesEdges, Status
      <3>5. e.edge \in deps /\ b[e.edge] = a[e.edge]
        BY <2>2
      <3>6. CASE "invalid" \in S
        <4>1. "invalid" \in T
          BY <3>3, <3>6
        <4> QED
          BY <3>1, <3>2, <3>6, <4>1
      <3>7. CASE "invalid" \notin S /\ e.author # a[e.edge].author
        BY <1>1, <3>1, <3>2, <3>5, <3>7
      <3>8. CASE "invalid" \notin S /\ e.author = a[e.edge].author
        <4>1. "pending" \notin S
          BY <1>1, <3>1, <3>8
        <4>2. \A p \in deps : f[p].state = "valid" /\ g[p].state = "valid"
          BY <3>3, <3>4, <3>8, <4>1
        <4>3. "pending" \notin T /\ "invalid" \notin T
          BY <4>2
        <4>4. e.parents \subseteq EdgeEvents(a, f)
          <5>1. ASSUME NEW p \in e.parents PROVE p \in EdgeEvents(a, f)
            <6>1. EdgeOf(a, p) = e.edge /\ e.edge # None
              BY <2>2, <2>5, SaneIds DEF None
            <6>2. a[p].kind \in {"edge_assert", "edge_reaffirm"}
              BY <6>1 DEF EdgeOf
            <6> QED
              BY <2>2, <4>2, <6>2 DEF EdgeEvents, SubjectIds, IsSubject, EdgeKinds
          <5> QED
            BY <5>1
        <4>5. \A p \in e.parents : ConeOf(b, p) = ConeOf(a, p)
          BY <4>4, EdgeEventsUpright, PastStays DEF Stands
        <4>6. ReaffirmFault(a, e) = ReaffirmFault(b, e)
          <5>1. (\E p \in e.parents : ConeOf(a, p) \cap e.parents # {p})
                <=> \E p \in e.parents : ConeOf(b, p) \cap e.parents # {p}
            BY <4>5
          <5>2. (\E p \in e.parents : e.old[p] # a[p].pins)
                <=> \E p \in e.parents : e.old[p] # b[p].pins
            BY <2>2
          <5> QED
            BY <3>5, <5>1, <5>2 DEF ReaffirmFault
        <4>7. CASE ReaffirmFault(a, e) # ""
          BY <1>1, <3>1, <3>2, <3>5, <3>8, <4>1, <4>3, <4>6, <4>7
        <4>8. CASE ReaffirmFault(a, e) = ""
          <5>1. EvaluateReaffirm(a, e, f, Subjects(a, s)) = before
                /\ EvaluateReaffirm(b, e, g, Subjects(b, t)) = after
            BY <3>1, <3>2, <3>5, <3>8, <4>1, <4>3, <4>6, <4>8
          <5>2. after.state = before.state
            BY <5>1, PinsStay
          <5> QED
            BY <5>1, <5>2
        <4> QED
          BY <4>7, <4>8
      <3> QED
        BY <3>6, <3>7, <3>8
    <2> QED
      BY <2>4, <2>5
  <1> QED
    BY <1>2, <1>3

Kept(a, f, g, d) == d \in DOMAIN a => f[d] \in Status /\ Lasts(f, g, d)

(* A decided attestation stays decided.                                    *)
LEMMA AttestationStays ==
    ASSUME NEW a, NEW b, NEW s, NEW t, Stands(a, b, s, t), NEW f, NEW g,
           NEW e, Kept(a, f, g, e.target),
           EvaluateAttestation(a, e, f, Subjects(a, s)).state # "pending"
    PROVE  EvaluateAttestation(b, e, g, Subjects(b, t)).state
           = EvaluateAttestation(a, e, f, Subjects(a, s)).state
  <1> DEFINE S == Subjects(a, s)
             T == Subjects(b, t)
  <1>1. Valid.state = "valid"
        /\ \A r, M : Invalid(r).state = "invalid" /\ Pending(r, M).state = "pending"
    BY DEF Valid, Invalid, Pending
  <1>2. S.revisions \subseteq T.revisions /\ DOMAIN a \subseteq DOMAIN b
        /\ \A id \in DOMAIN a : b[id] = a[id]
    BY DEF Stands, Extends
  <1> HIDE DEF S, T
  <1>3. EvaluateAttestation(a, e, f, S).state # "pending"
    BY DEF S
  <1>4. EvaluateAttestation(b, e, g, T).state = EvaluateAttestation(a, e, f, S).state
    <2>1. CASE e.parents # {} \/ e.artifact = "none"
      BY <1>1, <2>1 DEF EvaluateAttestation
    <2>2. CASE e.parents = {} /\ e.artifact # "none" /\ e.tkind = "revision"
      BY <1>1, <1>2, <1>3, <2>2 DEF EvaluateAttestation
    <2>3. CASE e.parents = {} /\ e.artifact # "none" /\ e.tkind # "revision"
      <3>1. e.target \in DOMAIN a
        BY <1>1, <1>3, <2>3 DEF EvaluateAttestation
      <3>2. e.target \in DOMAIN b /\ b[e.target] = a[e.target]
        BY <1>2, <3>1
      <3>3. f[e.target].state \in {"valid", "invalid", "pending"}
            /\ (f[e.target].state # "pending" => g[e.target].state = f[e.target].state)
        BY <3>1 DEF Kept, Lasts, Status
      <3>4. CASE a[e.target].kind = "attestation"
        BY <2>3, <3>1, <3>2, <3>4 DEF EvaluateAttestation
      <3>5. CASE a[e.target].kind # "attestation"
        <4>1. f[e.target].state # "pending"
          BY <1>1, <1>3, <2>3, <3>1, <3>5 DEF EvaluateAttestation
        <4>2. g[e.target].state = f[e.target].state
          BY <3>3, <4>1
        <4> QED
          BY <2>3, <3>1, <3>2, <3>5, <4>1, <4>2 DEF EvaluateAttestation
      <3> QED
        BY <3>4, <3>5
    <2> QED
      BY <2>1, <2>2, <2>3
  <1> QED
    BY <1>4 DEF S, T

(* edges::classify: what is decided stays decided in a larger history.     *)
LEMMA EdgesStay ==
    ASSUME NEW a, NEW b, Sane(a), Sane(b), NEW s, NEW t, Stands(a, b, s, t),
           s \in [SubjectIds(a) -> Status], t \in [SubjectIds(b) -> Status],
           NEW f, NEW g, SolvesEdges(a, s, f), SolvesEdges(b, t, g)
    PROVE  \A id \in DOMAIN a : id \in DOMAIN b /\ Lasts(f, g, id)
  <1> DEFINE D == DOMAIN a
             G == {id \in D : Lasts(f, g, id)}
  <1>1. D \in SUBSET Nat /\ D \subseteq DOMAIN b /\ \A id \in D : b[id] = a[id]
    BY SaneIds DEF Stands, Extends
  <1>2. Over(a, s, f) /\ Over(b, t, g)
    BY DEF Over, SolvesEdges
  <1>3. ASSUME NEW id \in D, \A c \in D : c < id => c \in G PROVE Lasts(f, g, id)
    <2>1. CASE id \in SubjectIds(a)
      <3>1. Lasts(s, t, id) /\ id \in SubjectIds(b)
        BY <2>1 DEF Stands
      <3>2. f[id] = s[id] /\ g[id] = t[id]
        BY <1>2, <2>1, <3>1 DEF Over
      <3> QED
        BY <3>1, <3>2 DEF Lasts
    <2>2. CASE id \notin SubjectIds(a)
      <3> DEFINE e == a[id]
                 S == Subjects(a, s)
                 T == Subjects(b, t)
      <3>1. b[id] = e /\ id \in DOMAIN b /\ id \in DOMAIN a /\ id \notin SubjectIds(b)
        BY <1>1, <2>2 DEF SubjectIds
      <3>2. f[id] = EvaluateEdge(id, a, f, S) /\ g[id] = EvaluateEdge(id, b, g, T)
        BY <2>2, <3>1 DEF SolvesEdges
      <3>3. id \in DOMAIN a \ SubjectIds(a)
        BY <2>2
      <3>4. /\ e.kind \in EdgeKinds
            /\ e.kind = "edge_reaffirm" => e.edge \in Nat /\ e.edge < id
        BY <3>3, EdgeNames
      <3>5. \A p \in e.parents : p < id
        BY SaneIds
      <3>6. SUFFICES ASSUME f[id].state # "pending" PROVE g[id].state = f[id].state
        BY DEF Lasts
      <3> DEFINE header == e.subject # None \/ e.key # None \/ e.grant # None \/ e.time # NoTime
      <3>7. CASE header
        BY <3>1, <3>2, <3>7 DEF EvaluateEdge
      <3>8. CASE ~header /\ e.kind = "edge_assert"
        <4>1. f[id] = EvaluateAssert(a, e, f, S) /\ g[id] = EvaluateAssert(b, e, g, T)
          BY <3>1, <3>2, <3>8 DEF EvaluateEdge
        <4>2. EvaluateAssert(b, e, g, T).state = EvaluateAssert(a, e, f, S).state
          BY <1>2, <3>6, <4>1, AssertStays
        <4> QED
          BY <4>1, <4>2
      <3>9. CASE ~header /\ e.kind = "edge_reaffirm"
        <4>1. f[id] = EvaluateReaffirm(a, e, f, S) /\ g[id] = EvaluateReaffirm(b, e, g, T)
          BY <3>1, <3>2, <3>9 DEF EvaluateEdge
        <4>2. \A p \in (e.parents \cup {e.edge}) \cap DOMAIN a : Lasts(f, g, p)
          BY <1>3, <3>4, <3>5, <3>9
        <4>3. EvaluateReaffirm(b, e, g, T).state = EvaluateReaffirm(a, e, f, S).state
          <5> HIDE DEF e, D, G
          <5> QED
            BY <1>2, <3>6, <4>1, <4>2, ReaffirmStays
        <4> QED
          BY <4>1, <4>3
      <3>10. CASE ~header /\ e.kind = "attestation"
        <4>1. f[id] = EvaluateAttestation(a, e, f, S) /\ g[id] = EvaluateAttestation(b, e, g, T)
          BY <3>1, <3>2, <3>10 DEF EvaluateEdge
        <4>2. Kept(a, f, g, e.target)
          <5>1. e.target \in 0 .. id - 1 /\ id \in Nat
            BY <1>1, <3>10 DEF Sane, NamesThePast
          <5> QED
            BY <1>3, <5>1 DEF Kept, SolvesEdges
        <4>4. EvaluateAttestation(b, e, g, T).state = EvaluateAttestation(a, e, f, S).state
          <5> HIDE DEF e, D, G
          <5> QED
            BY <3>6, <4>1, <4>2, AttestationStays
        <4> QED
          BY <4>1, <4>4
      <3> QED
        BY <3>4, <3>7, <3>8, <3>9, <3>10 DEF EdgeKinds
    <2> QED
      BY <2>1, <2>2
  <1>4. D \subseteq G
    <2>1. ASSUME NEW id \in D, \A c \in D : c < id => c \in G PROVE id \in G
      BY <1>3, <2>1
    <2> HIDE DEF G, D
    <2> QED
      BY <1>1, <2>1, FromBelow
  <1> QED
    BY <1>1, <1>4

(* There is one solution for them too.                                     *)
LEMMA EdgesAlike ==
    ASSUME NEW all, Sane(all), NEW s, NEW f, NEW g, SolvesEdges(all, s, f), SolvesEdges(all, s, g)
    PROVE  f = g
  <1> DEFINE D == DOMAIN all
             G == {id \in D : f[id] = g[id]}
             S == Subjects(all, s)
  <1>1. D \in SUBSET Nat
    BY SaneIds
  <1>2. ASSUME NEW id \in D, \A c \in D : c < id => c \in G PROVE f[id] = g[id]
    <2>1. \A d \in SubjectIds(all) : f[d] = g[d]
      BY DEF SolvesEdges
    <2>2. CASE id \notin SubjectIds(all)
      <3> DEFINE e == all[id]
      <3>1. f[id] = EvaluateEdge(id, all, f, S) /\ g[id] = EvaluateEdge(id, all, g, S)
        BY <2>2 DEF SolvesEdges
      <3>2. \A pin : CheckPin(pin, all, f, S) = CheckPin(pin, all, g, S)
        <4>1. ASSUME NEW pin PROVE CheckPin(pin, all, f, S) = CheckPin(pin, all, g, S)
          <5>1. CASE pin.basis \in SubjectIds(all)
            BY <2>1, <5>1 DEF CheckPin
          <5>2. CASE pin.basis \notin SubjectIds(all)
            <6>1. {pin.subject, pin.basis} \ DOMAIN all # {} \/ ~IsSubject(all[pin.basis])
              BY <5>2 DEF SubjectIds
            <6> QED
              BY <6>1 DEF CheckPin
          <5> QED
            BY <5>1, <5>2
        <4> QED
          BY <4>1
      <3>3. CheckPins(e.pins, all, f, S) = CheckPins(e.pins, all, g, S)
        BY <3>2 DEF CheckPins
      <3>4. id \in DOMAIN all \ SubjectIds(all)
        BY <2>2
      <3>5. /\ e.kind \in EdgeKinds
            /\ e.kind = "edge_reaffirm" => e.edge \in Nat /\ e.edge < id
        BY <3>4, EdgeNames
      <3>6. EvaluateAssert(all, e, f, S) = EvaluateAssert(all, e, g, S)
        BY <3>3 DEF EvaluateAssert
      <3>7. CASE e.kind = "edge_assert"
        BY <3>1, <3>6, <3>7 DEF EvaluateEdge
      <3>8. CASE e.kind = "edge_reaffirm"
        <4> DEFINE deps == e.parents \cup {e.edge}
        <4>1. EvaluateReaffirm(all, e, f, S) = EvaluateReaffirm(all, e, g, S)
          <5>1. CASE deps \ DOMAIN all # {}
            BY <5>1 DEF EvaluateReaffirm
          <5>2. CASE deps \ DOMAIN all = {}
            <6>1. \A p \in deps : f[p] = g[p]
              BY <1>2, <3>5, <3>8, <5>2, SaneIds
            <6>2. {f[p].state : p \in deps} = {g[p].state : p \in deps}
              BY <6>1
            <6> QED
              BY <3>3, <6>2 DEF EvaluateReaffirm
          <5> QED
            BY <5>1, <5>2
        <4> QED
          BY <3>1, <3>8, <4>1 DEF EvaluateEdge
      <3>9. CASE e.kind = "attestation"
        <4>1. e.target \in DOMAIN all => f[e.target] = g[e.target]
          <5>1. e.target \in 0 .. id - 1 /\ id \in Nat
            BY <1>1, <3>9 DEF Sane, NamesThePast
          <5> QED
            BY <1>2, <5>1
        <4>2. EvaluateAttestation(all, e, f, S) = EvaluateAttestation(all, e, g, S)
          BY <4>1 DEF EvaluateAttestation
        <4> QED
          BY <3>1, <3>9, <4>2 DEF EvaluateEdge
      <3> QED
        BY <3>5, <3>7, <3>8, <3>9 DEF EdgeKinds
    <2> QED
      BY <2>1, <2>2
  <1>3. D \subseteq G
    <2>1. ASSUME NEW id \in D, \A c \in D : c < id => c \in G PROVE id \in G
      BY <1>2, <2>1
    <2> HIDE DEF G, D
    <2> QED
      BY <1>1, <2>1, FromBelow
  <1>4. f \in [D -> Status] /\ g \in [D -> Status]
    BY DEF SolvesEdges
  <1> QED
    BY <1>3, <1>4

-----------------------------------------------------------------------------
(* The committed view                                                      *)

(* The two parts of a fold solve their equations.                          *)
LEMMA ProjectionSolves ==
    ASSUME NEW all, Sane(all), NEW order, Covering(all, order)
    PROVE  /\ Solves(all, order, Classify(all, order))
           /\ SolvesEdges(all, Classify(all, order), ProjectAll(all, order).status)
  <1> DEFINE c == Classify(all, order)
  <1>1. Solves(all, order, c)
    BY ClassifySolves
  <1>2. c \in [SubjectIds(all) -> Status]
    BY <1>1 DEF Solves
  <1>3. ProjectAll(all, order).status = ClassifyEdges(all, c, order)
    BY DEF ProjectAll, WithEdges
  <1> HIDE DEF c
  <1>4. SolvesEdges(all, c, ClassifyEdges(all, c, order))
    BY <1>2, ClassifyEdgesSolve
  <1> QED
    BY <1>1, <1>3, <1>4 DEF c

(* What classify has decided about some envelopes stands when there are    *)
(* more.                                                                   *)
LEMMA AdmissionLasts ==
    ASSUME NEW a, NEW b, Sane(a), Sane(b), Extends(a, b), NEW o, NEW q,
           Covering(a, o), Covering(b, q)
    PROVE  \A id \in DOMAIN ProjectAll(a, o).status :
              Lasts(ProjectAll(a, o).status, ProjectAll(b, q).status, id)
  <1> DEFINE s == Classify(a, o)
             t == Classify(b, q)
             f == ProjectAll(a, o).status
             g == ProjectAll(b, q).status
  <1>1. Solves(a, o, s) /\ SolvesEdges(a, s, f) /\ Solves(b, q, t) /\ SolvesEdges(b, t, g)
    BY ProjectionSolves
  <1> HIDE DEF s, t, f, g
  <1>2. Stands(a, b, s, t)
    BY <1>1, SubjectsStand
  <1>3. s \in [SubjectIds(a) -> Status] /\ t \in [SubjectIds(b) -> Status]
    BY <1>1 DEF Solves
  <1>4. \A id \in DOMAIN a : Lasts(f, g, id)
    BY <1>1, <1>2, <1>3, EdgesStay
  <1>5. DOMAIN f = DOMAIN a
    BY <1>1 DEF SolvesEdges
  <1> QED
    BY <1>4, <1>5 DEF f, g

(* The readings of two hash orders.                                        *)
SameReadings(v, w, ids) ==
    /\ v.status = w.status /\ v.frontier = w.frontier
    /\ v.authority.active = w.authority.active
    /\ \A id \in ids : v.authority.effects[id].reason = w.authority.effects[id].reason
    /\ v.edges = w.edges /\ v.media = w.media

(* Equal derivations give equal readings of subjects.                      *)
LEMMA ReadingsAlike ==
    ASSUME NEW valid, NEW status, NEW v, NEW w, Alike(v, w, DOMAIN valid), NEW cones
    PROVE  LET x == Readings(valid, status, v, cones)
               y == Readings(valid, status, w, cones)
           IN  x.frontier = y.frontier /\ x.state = y.state /\ x.cones = y.cones
               /\ x.authority = v /\ y.authority = w
  <1>1. /\ v.effective = w.effective
        /\ \A id \in DOMAIN valid : v.effects[id].reason = w.effects[id].reason
    BY DEF Alike
  <1>2. ASSUME NEW s PROVE Frontier(valid, cones, v, s) = Frontier(valid, cones, w, s)
    <2> DEFINE ids == {id \in DOMAIN valid : SubjectOf(valid, id) = s}
    <2>1. {id \in ids : v.effects[id].reason = ""} = {id \in ids : w.effects[id].reason = ""}
      BY <1>1
    <2> QED
      BY <1>1, <2>1 DEF Frontier
  <1> DEFINE roots == {id \in DOMAIN valid : valid[id].kind = "genesis"}
  <1>3. [s \in roots |-> Frontier(valid, cones, v, s)] = [s \in roots |-> Frontier(valid, cones, w, s)]
    BY <1>2
  <1> QED
    BY <1>3 DEF Readings

(* Folds in two orders read alike.                                         *)
LEMMA ProjectionAlike ==
    ASSUME NEW all, Sane(all), NEW o, NEW q, Covering(all, o), Covering(all, q)
    PROVE  SameReadings(ProjectAll(all, o), ProjectAll(all, q), ValidIn(Classify(all, o)))
  <1> DEFINE c == Classify(all, o)
             V == ValidIn(c)
             f == ClassifyEdges(all, c, o)
             S == Subjects(all, c)
             x == ProjectOf(all, c, o)
             y == ProjectOf(all, c, q)
  <1>1. Solves(all, o, c) /\ Solves(all, q, Classify(all, q))
    BY ProjectionSolves
  <1>2. Classify(all, q) = c
    <2> HIDE DEF c
    <2> QED
      BY <1>1, StatusesAlike
  <1>3. c \in [SubjectIds(all) -> Status]
    BY <1>1 DEF Solves
  <1> HIDE DEF c
  <1>4. ClassifyEdges(all, c, q) = f
    <2>1. SolvesEdges(all, c, ClassifyEdges(all, c, q)) /\ SolvesEdges(all, c, f)
      BY <1>3, ClassifyEdgesSolve
    <2> HIDE DEF f
    <2> QED
      BY <2>1, EdgesAlike
  <1>5. Upright(all, V)
    BY <1>1, ValidUpright
  <1>6. Extends(all, all)
    BY DEF Extends
  <1>7. Alike(Derive(all, V, o), Derive(all, V, q), V)
    <2> HIDE DEF V
    <2> QED
      BY <1>5, <1>6, DeriveOn
  <1>8. DOMAIN Sub(all, V) = V
    BY DEF Sub
  <1>9. /\ x.frontier = y.frontier /\ x.state = y.state /\ x.cones = y.cones
        /\ x.authority = Derive(all, V, o) /\ y.authority = Derive(all, V, q)
    <2> DEFINE v == Derive(all, V, o)
               w == Derive(all, V, q)
               u == Sub(all, V)
               k == Cones(Sub(all, V))
    <2>1. x = Readings(u, c, v, k) /\ y = Readings(u, c, w, k)
      BY DEF ProjectOf, Analyze
    <2>2. Alike(v, w, DOMAIN u)
      BY <1>7, <1>8
    <2> HIDE DEF v, w, u, k, x, y
    <2>3. /\ x.frontier = y.frontier /\ x.state = y.state /\ x.cones = y.cones
          /\ x.authority = v /\ y.authority = w
      BY <2>1, <2>2, ReadingsAlike
    <2> QED
      BY <2>3 DEF v, w
  <1>10. ProjectAll(all, o) = WithEdges(all, x, f, S)
    BY DEF ProjectAll, c
  <1>11. ProjectAll(all, q) = WithEdges(all, y, f, S)
    BY <1>2, <1>4 DEF ProjectAll
  <1> HIDE DEF x, y, f, S, V
  <1>12. ASSUME NEW e PROVE EdgeReading(all, f, x, S, e) = EdgeReading(all, f, y, S, e)
    <2>1. \A pin : Endpoint(pin, x, S) = Endpoint(pin, y, S)
      BY <1>9 DEF Endpoint
    <2> QED
      BY <2>1 DEF EdgeReading
  <1>13. [e \in Asserts(all) \cap ValidIn(f) |-> EdgeReading(all, f, x, S, e)]
         = [e \in Asserts(all) \cap ValidIn(f) |-> EdgeReading(all, f, y, S, e)]
    BY <1>12
  <1>14. \A id \in V : x.authority.effects[id].reason = y.authority.effects[id].reason
    BY <1>7, <1>9 DEF Alike
  <1>15. x.authority.active = y.authority.active
    BY <1>7, <1>9 DEF Alike
  <1>16. SameReadings(WithEdges(all, x, f, S), WithEdges(all, y, f, S), V)
    BY <1>9, <1>13, <1>14, <1>15 DEF SameReadings, WithEdges
  <1> QED
    BY <1>10, <1>11, <1>16 DEF V, c

-----------------------------------------------------------------------------
(* Verdicts: reaching and walking along edges                              *)

(* Two courses that start and turn alike are alike.                        *)
LEMMA SameCourse ==
    ASSUME NEW m \in Nat, NEW f, NEW g, f[0] = g[0],
           \A n \in 1 .. m : f[n - 1] = g[n - 1] => f[n] = g[n]
    PROVE  \A n \in 0 .. m : f[n] = g[n]
  <1> DEFINE G == {n \in 0 .. m : f[n] = g[n]}
  <1>1. 0 \in G
    OBVIOUS
  <1>2. ASSUME NEW n \in 0 .. m - 1, n \in G PROVE n + 1 \in G
    <2>1. n + 1 \in 1 .. m /\ (n + 1) - 1 = n /\ n + 1 \in 0 .. m
      OBVIOUS
    <2> QED
      BY <1>2, <2>1
  <1>3. 0 .. m \subseteq G
    <2> HIDE DEF G
    <2> QED
      BY <1>1, <1>2, Upward
  <1> QED
    BY <1>3

(* A course that keeps to X, as a function of the turn, exists.            *)
Course(m, X, x, turn, f) ==
    /\ f = [n \in 0 .. m |-> IF n = 0 THEN x ELSE turn[n][f[n - 1]]]
    /\ f \in [0 .. m -> X]

(* Such a course exists.                                                   *)
LEMMA CourseExists ==
    ASSUME NEW m \in Nat, NEW X, NEW x \in X, NEW turn, turn \in [1 .. m -> [X -> X]]
    PROVE  \E f : Course(m, X, x, turn, f)
  <1>1. PICK f : Turns(m, X, x, turn, f)
    BY TurnsExist
  <1>2. f \in [0 .. m -> X] /\ f[0] = x /\ \A n \in 1 .. m : f[n] = turn[n][f[n - 1]]
    BY <1>1 DEF Turns
  <1>3. \A n \in 0 .. m : f[n] = IF n = 0 THEN x ELSE turn[n][f[n - 1]]
    <2>1. \A n \in 0 .. m : n # 0 => n \in 1 .. m
      OBVIOUS
    <2> QED
      BY <1>2, <2>1
  <1> QED
    BY <1>2, <1>3 DEF Course

(* What one more edge reaches.                                             *)
Wider(edges, near) ==
    near \cup UNION {Range(view.edges[e].ends) :
                       e \in {d \in edges : Range(view.edges[d].ends) \cap near # {}}}

(* What Within computes, level by level.                                   *)
Reaching(edges, from, m, near) ==
    /\ near[0] = {from} /\ \A n \in 1 .. m : near[n] = Wider(edges, near[n - 1])
    /\ Within(edges, from, m) = near[m]

(* The levels of Within exist.                                             *)
LEMMA WithinIs ==
    ASSUME NEW edges, NEW from, NEW m \in Nat
    PROVE  \E near : Reaching(edges, from, m, near)
  <1> DEFINE W == {from} \cup UNION {Range(view.edges[e].ends) : e \in edges}
             X == SUBSET W
             pass == [x \in X |-> Wider(edges, x)]
             turn == [n \in 1 .. m |-> pass]
             Eq(h) == h = [i \in 0 .. m |->
                             IF i = 0 THEN {from}
                             ELSE h[i - 1] \cup
                                  UNION {Range(view.edges[e].ends) :
                                           e \in {d \in edges : Range(view.edges[d].ends)
                                                                 \cap h[i - 1] # {}}}]
             near == CHOOSE h : Eq(h)
  <1>1. \A x \in X : Wider(edges, x) \in X
    BY DEF Wider
  <1>2. pass \in [X -> X] /\ {from} \in X
    <2> HIDE DEF X
    <2>1. pass \in [X -> X]
      BY <1>1
    <2> QED
      BY <2>1 DEF X
  <1> HIDE DEF X, pass
  <1>3. turn \in [1 .. m -> [X -> X]]
    BY <1>2
  <1>4. PICK f : f = [n \in 0 .. m |-> IF n = 0 THEN {from} ELSE turn[n][f[n - 1]]]
                 /\ f \in [0 .. m -> X]
    <2> HIDE DEF turn
    <2>1. PICK f : Course(m, X, {from}, turn, f)
      BY <1>2, <1>3, CourseExists
    <2> QED
      BY <2>1 DEF Course
  <1>5. \A n \in 1 .. m : n - 1 \in 0 .. m /\ n \in 0 .. m /\ n # 0
    OBVIOUS
  <1>6. \A n \in 1 .. m : f[n] = Wider(edges, f[n - 1])
    <2>1. \A n \in 1 .. m : f[n] = turn[n][f[n - 1]] /\ f[n - 1] \in X
      BY <1>4, <1>5
    <2> QED
      BY <2>1 DEF turn, pass
  <1>7. f = [n \in 0 .. m |-> IF n = 0 THEN {from} ELSE Wider(edges, f[n - 1])]
    <2>1. \A n \in 0 .. m : n # 0 => n \in 1 .. m
      OBVIOUS
    <2>2. \A n \in 0 .. m : f[n] = IF n = 0 THEN {from} ELSE Wider(edges, f[n - 1])
      BY <1>4, <1>6, <2>1
    <2>3. f = [n \in 0 .. m |-> f[n]]
      BY <1>4
    <2> QED
      BY <2>2, <2>3
  <1>8. Eq(f)
    BY <1>7 DEF Wider
  <1>9. Eq(near)
    <2> HIDE DEF Eq
    <2> QED
      BY <1>8
  <1> HIDE DEF near
  <1>10. near = [n \in 0 .. m |-> IF n = 0 THEN {from} ELSE Wider(edges, near[n - 1])]
    BY <1>9 DEF Wider
  <1>11. near[0] = {from} /\ \A n \in 1 .. m : near[n] = Wider(edges, near[n - 1])
    <2>1. 0 \in 0 .. m
      OBVIOUS
    <2> QED
      BY <1>5, <1>10, <2>1
  <1>12. Within(edges, from, m) = near[m]
    BY DEF Within, near
  <1> QED
    BY <1>11, <1>12 DEF Reaching

(* Within one more edge is one edge more.                                  *)
LEMMA WithinGrows ==
    ASSUME NEW edges, NEW from
    PROVE  /\ Within(edges, from, 0) = {from}
           /\ \A n \in Nat : Within(edges, from, n + 1) = Wider(edges, Within(edges, from, n))
  <1>1. Within(edges, from, 0) = {from}
    <2>1. PICK f : Reaching(edges, from, 0, f)
      BY WithinIs
    <2> QED
      BY <2>1 DEF Reaching
  <1>2. ASSUME NEW n \in Nat
        PROVE  Within(edges, from, n + 1) = Wider(edges, Within(edges, from, n))
    <2>1. n + 1 \in Nat /\ n + 1 \in 1 .. n + 1 /\ (n + 1) - 1 = n /\ n \in 0 .. n
      OBVIOUS
    <2>2. PICK f : Reaching(edges, from, n, f)
      BY WithinIs
    <2>3. PICK g : Reaching(edges, from, n + 1, g)
      BY <2>1, WithinIs
    <2>4. \A i \in 1 .. n : i \in 1 .. n + 1
      OBVIOUS
    <2>5. \A i \in 1 .. n : f[i - 1] = g[i - 1] => f[i] = g[i]
      BY <2>2, <2>3, <2>4 DEF Reaching
    <2>6. f[0] = g[0]
      BY <2>2, <2>3 DEF Reaching
    <2>7. \A i \in 0 .. n : f[i] = g[i]
      BY <2>5, <2>6, SameCourse
    <2> QED
      BY <2>1, <2>2, <2>3, <2>7 DEF Reaching
  <1> QED
    BY <1>1, <1>2

(* Where one edge leads.                                                   *)
Hop(here, e) ==
    LET ends == view.edges[e].ends IN
    IF here = ends[1] THEN ends[2] ELSE IF here = ends[2] THEN ends[1] ELSE None

(* What Along computes, edge by edge.                                      *)
Walking(path, from, at) ==
    /\ at[0] = from /\ \A n \in 1 .. Len(path) : at[n] = Hop(at[n - 1], path[n])
    /\ Along(path, from) = at[Len(path)]

(* The places that Along passes exist.                                     *)
LEMMA AlongIs ==
    ASSUME NEW E, NEW path \in Seq(E), NEW from
    PROVE  \E at : Walking(path, from, at)
  <1> DEFINE m == Len(path)
             X == {from, None} \cup UNION {{view.edges[e].ends[1], view.edges[e].ends[2]} : e \in E}
             turn == [n \in 1 .. m |-> [x \in X |-> Hop(x, path[n])]]
             Eq(h) == h = [i \in 0 .. m |->
                             IF i = 0 THEN from
                             ELSE LET here == h[i - 1]
                                      ends == view.edges[path[i]].ends
                                  IN  IF here = ends[1] THEN ends[2]
                                      ELSE IF here = ends[2] THEN ends[1] ELSE None]
             at == CHOOSE h : Eq(h)
  <1>1. m \in Nat /\ \A n \in 1 .. m : path[n] \in E
    OBVIOUS
  <1>2. \A x \in X, e \in E : Hop(x, e) \in X
    BY DEF Hop
  <1>3. from \in X
    OBVIOUS
  <1> HIDE DEF X, m
  <1>4. turn \in [1 .. m -> [X -> X]]
    BY <1>1, <1>2
  <1>5. PICK f : f = [n \in 0 .. m |-> IF n = 0 THEN from ELSE turn[n][f[n - 1]]]
                 /\ f \in [0 .. m -> X]
    <2> HIDE DEF turn
    <2>1. PICK f : Course(m, X, from, turn, f)
      BY <1>1, <1>3, <1>4, CourseExists
    <2> QED
      BY <2>1 DEF Course
  <1>6. \A n \in 1 .. m : n - 1 \in 0 .. m /\ n \in 0 .. m /\ n # 0
    BY <1>1
  <1>7. \A n \in 1 .. m : f[n] = Hop(f[n - 1], path[n])
    <2>1. \A n \in 1 .. m : f[n] = turn[n][f[n - 1]] /\ f[n - 1] \in X
      BY <1>5, <1>6
    <2> QED
      BY <2>1 DEF turn
  <1>8. f = [n \in 0 .. m |-> IF n = 0 THEN from ELSE Hop(f[n - 1], path[n])]
    <2>1. \A n \in 0 .. m : n # 0 => n \in 1 .. m
      BY <1>1
    <2>2. \A n \in 0 .. m : f[n] = IF n = 0 THEN from ELSE Hop(f[n - 1], path[n])
      BY <1>5, <1>7, <2>1
    <2>3. f = [n \in 0 .. m |-> f[n]]
      BY <1>5
    <2> QED
      BY <2>2, <2>3
  <1>9. Eq(f)
    BY <1>8 DEF Hop
  <1>10. Eq(at)
    <2> HIDE DEF Eq
    <2> QED
      BY <1>9
  <1> HIDE DEF at
  <1>11. at = [n \in 0 .. m |-> IF n = 0 THEN from ELSE Hop(at[n - 1], path[n])]
    BY <1>10 DEF Hop
  <1>12. at[0] = from /\ \A n \in 1 .. m : at[n] = Hop(at[n - 1], path[n])
    <2>1. 0 \in 0 .. m
      BY <1>1
    <2> QED
      BY <1>6, <1>11, <2>1
  <1>13. Along(path, from) = at[m]
    BY DEF Along, at, m
  <1> QED
    BY <1>12, <1>13 DEF m, Walking

(* One edge and the rest of the path.                                      *)
LEMMA AlongFirst ==
    ASSUME NEW E, NEW path \in Seq(E), NEW e \in E, NEW from
    PROVE  Along(<<e>> \o path, from) = Along(path, Hop(from, e))
  <1> DEFINE long == <<e>> \o path
             m == Len(path)
  <1>1. /\ m \in Nat /\ long \in Seq(E) /\ Len(long) = m + 1 /\ long[1] = e
        /\ \A n \in 1 .. m : long[n + 1] = path[n]
    OBVIOUS
  <1> HIDE DEF long
  <1>2. PICK f : /\ f[0] = from /\ \A n \in 1 .. m + 1 : f[n] = Hop(f[n - 1], long[n])
                 /\ Along(long, from) = f[m + 1]
    <2>1. PICK f : Walking(long, from, f)
      BY <1>1, AlongIs
    <2> QED
      BY <1>1, <2>1 DEF Walking
  <1>3. PICK g : /\ g[0] = Hop(from, e) /\ \A n \in 1 .. m : g[n] = Hop(g[n - 1], path[n])
                 /\ Along(path, Hop(from, e)) = g[m]
    <2>1. PICK g : Walking(path, Hop(from, e), g)
      BY AlongIs
    <2> QED
      BY <2>1 DEF Walking
  <1> HIDE DEF m
  <1> DEFINE h == [n \in 0 .. m |-> f[n + 1]]
  <1>4. h[0] = g[0]
    <2>1. 1 \in 1 .. m + 1 /\ 1 - 1 = 0 /\ 0 \in 0 .. m /\ 0 + 1 = 1
      BY <1>1
    <2> QED
      BY <1>1, <1>2, <1>3, <2>1
  <1>5. ASSUME NEW n \in 1 .. m, h[n - 1] = g[n - 1] PROVE h[n] = g[n]
    <2>1. n + 1 \in 1 .. m + 1 /\ (n + 1) - 1 = n /\ n \in 0 .. m /\ n - 1 \in 0 .. m /\ (n - 1) + 1 = n
      BY <1>1
    <2>2. f[n + 1] = Hop(f[n], path[n])
      BY <1>1, <1>2, <2>1
    <2>3. h[n] = f[n + 1] /\ h[n - 1] = f[n]
      BY <2>1
    <2> QED
      BY <1>3, <1>5, <2>2, <2>3
  <1>6. \A n \in 0 .. m : h[n] = g[n]
    <2>1. m \in Nat
      BY <1>1
    <2>2. \A n \in 1 .. m : h[n - 1] = g[n - 1] => h[n] = g[n]
      BY <1>5
    <2> HIDE DEF h
    <2> QED
      BY <1>4, <2>1, <2>2, SameCourse
  <1>7. m \in 0 .. m /\ h[m] = f[m + 1]
    BY <1>1
  <1> QED
    BY <1>2, <1>3, <1>6, <1>7 DEF long

(* No edge at all.                                                         *)
LEMMA AlongNone ==
    ASSUME NEW from
    PROVE  Along(<<>>, from) = from
  <1>1. <<>> \in Seq({}) /\ Len(<<>>) = 0
    OBVIOUS
  <1>2. PICK at : Walking(<<>>, from, at)
    BY <1>1, AlongIs
  <1> QED
    BY <1>1, <1>2 DEF Walking

-----------------------------------------------------------------------------
(* Verdicts: the search                                                    *)

(* A usable edge has s and t as its two ends, in either order.             *)
Joins(usable, e, s, t) == e \in usable /\ view.edges[e].ends \in {<<s, t>>, <<t, s>>}

(* The graph g offers exactly the usable edges, in both directions.        *)
Net(g, D, usable) ==
    /\ \A e \in usable : view.edges[e].ends \in D \X D
    /\ \A s \in D : g.neighbors[s] = {n \in [subject : D, edge : usable] :
                                         Joins(usable, n.edge, s, n.subject)}

(* The subjects n edges away or nearer.                                    *)
Balls(D, usable, from, B) ==
    /\ B \in [Nat -> SUBSET D] /\ B[0] = {from}
    /\ \A i, j \in Nat : i <= j => B[i] \subseteq B[j]
    /\ \A n \in Nat : \A s \in B[n], e \in usable, t \in D :
          Joins(usable, e, s, t) => t \in B[n + 1]
    /\ \A n \in Nat : \A t \in B[n + 1] \ B[n] :
          \E s \in B[n], e \in usable : Joins(usable, e, s, t)

(* One more edge reaches whatever a usable edge joins to what is near.     *)
LEMMA WiderIs ==
    ASSUME NEW g, NEW D, NEW usable, Net(g, D, usable), NEW near \in SUBSET D
    PROVE  Wider(usable, near) = near \cup {t \in D : \E s \in near, e \in usable : Joins(usable, e, s, t)}
  <1>1. \A e \in usable : \E a, b \in D : view.edges[e].ends = <<a, b>>
    BY DEF Net
  <1>2. \A a, b : Range(<<a, b>>) = {a, b}
    BY DEF Range
  <1>3. ASSUME NEW t \in Wider(usable, near), t \notin near
        PROVE  t \in D /\ \E s \in near, e \in usable : Joins(usable, e, s, t)
    <2>1. PICK e \in usable : Range(view.edges[e].ends) \cap near # {} /\ t \in Range(view.edges[e].ends)
      BY <1>3 DEF Wider
    <2>2. PICK a, b \in D : view.edges[e].ends = <<a, b>>
      BY <1>1
    <2>3. t \in {a, b} /\ {a, b} \cap near # {}
      BY <1>2, <2>1, <2>2
    <2>4. \/ t = a /\ b \in near
          \/ t = b /\ a \in near
      BY <1>3, <2>3
    <2> QED
      BY <2>2, <2>4 DEF Joins
  <1>4. ASSUME NEW t \in D, NEW s \in near, NEW e \in usable, Joins(usable, e, s, t)
        PROVE  t \in Wider(usable, near)
    <2>1. Range(view.edges[e].ends) = {s, t}
      BY <1>2, <1>4 DEF Joins
    <2> QED
      BY <2>1 DEF Wider
  <1>5. near \subseteq Wider(usable, near)
    BY DEF Wider
  <1> QED
    BY <1>3, <1>4, <1>5

(* What is within n edges, for every n, forms balls.                       *)
LEMMA BallsAre ==
    ASSUME NEW g, NEW D, NEW usable, Net(g, D, usable), NEW from \in D
    PROVE  Balls(D, usable, from, [n \in Nat |-> Within(usable, from, n)])
  <1> DEFINE B == [n \in Nat |-> Within(usable, from, n)]
             more(near) == {t \in D : \E s \in near, e \in usable : Joins(usable, e, s, t)}
  <1>1. B[0] = {from} /\ \A n \in Nat : B[n + 1] = Wider(usable, B[n])
    <2>1. \A n \in Nat : n + 1 \in Nat
      OBVIOUS
    <2> QED
      BY <2>1, WithinGrows
  <1>2. B = [n \in Nat |-> B[n]]
    OBVIOUS
  <1> HIDE DEF B
  <1>3. \A n \in Nat : B[n] \in SUBSET D
    <2> SUFFICES ASSUME NEW m \in Nat PROVE B[m] \in SUBSET D
      OBVIOUS
    <2> DEFINE G == {n \in 0 .. m : B[n] \in SUBSET D}
    <2>1. 0 \in G
      BY <1>1
    <2>2. ASSUME NEW n \in 0 .. m - 1, n \in G PROVE n + 1 \in G
      <3>1. n \in Nat /\ n + 1 \in 0 .. m /\ B[n] \in SUBSET D
        BY <2>2
      <3>2. B[n + 1] = B[n] \cup more(B[n])
        BY <1>1, <3>1, WiderIs
      <3> QED
        BY <3>1, <3>2
    <2>3. 0 .. m \subseteq G
      <3> HIDE DEF G
      <3> QED
        BY <2>1, <2>2, Upward
    <2> QED
      BY <2>3
  <1>4. \A n \in Nat : B[n + 1] = B[n] \cup more(B[n])
    BY <1>1, <1>3, WiderIs
  <1>5. ASSUME NEW i \in Nat, NEW j \in Nat, i <= j PROVE B[i] \subseteq B[j]
    <2> DEFINE m == j - i
               G == {n \in 0 .. m : B[i] \subseteq B[i + n]}
    <2>1. m \in Nat /\ i + m = j /\ i + 0 = i
      BY <1>5
    <2>2. 0 \in G
      BY <2>1
    <2>3. ASSUME NEW n \in 0 .. m - 1, n \in G PROVE n + 1 \in G
      <3>1. i + n \in Nat /\ i + (n + 1) = (i + n) + 1 /\ n + 1 \in 0 .. m /\ B[i] \subseteq B[i + n]
        BY <2>1, <2>3
      <3>2. B[i + n] \subseteq B[(i + n) + 1]
        BY <1>4, <3>1
      <3> QED
        BY <3>1, <3>2
    <2> HIDE DEF m
    <2>4. 0 .. m \subseteq G
      <3> HIDE DEF G
      <3> QED
        BY <2>1, <2>2, <2>3, Upward
    <2>5. m \in G
      BY <2>1, <2>4
    <2> QED
      BY <2>1, <2>5
  <1>6. B \in [Nat -> SUBSET D]
    BY <1>2, <1>3
  <1>7. \A n \in Nat : \A s \in B[n], e \in usable, t \in D : Joins(usable, e, s, t) => t \in B[n + 1]
    BY <1>4
  <1>8. \A n \in Nat : \A t \in B[n + 1] \ B[n] : \E s \in B[n], e \in usable : Joins(usable, e, s, t)
    BY <1>4
  <1>9. Balls(D, usable, from, B)
    BY <1>1, <1>5, <1>6, <1>7, <1>8 DEF Balls
  <1> QED
    BY <1>9 DEF B

(* One level of the search finds what one more edge reaches, each with the *)
(* step that led there.                                                    *)
Leveled(D, usable, found, level, b) ==
    LET new == {t \in D \ DOMAIN found : \E s \in level, e \in usable : Joins(usable, e, s, t)} IN
    /\ b = [found |-> b.found, level |-> new]
    /\ b.found = [x \in DOMAIN found \cup new |-> b.found[x]]
    /\ \A x \in DOMAIN found : b.found[x] = found[x]
    /\ \A t \in new : b.found[t] \in level \X usable /\ Joins(usable, b.found[t][2], b.found[t][1], t)

(* A subject is reached when some neighbour of the level is it.            *)
LEMMA ReachedIs ==
    ASSUME NEW g, NEW S, NEW t
    PROVE  t \in Reached(g, S) <=> \E s \in S : \E n \in g.neighbors[s] : t = n.subject
  BY DEF Reached

(* One level of the search, over the usable edges.                         *)
LEMMA NextLevelIs ==
    ASSUME NEW g, NEW D, NEW usable, Net(g, D, usable), NEW found, NEW level \in SUBSET D
    PROVE  Leveled(D, usable, found, level, NextLevel(g, found, level))
  <1> DEFINE new == {t \in D \ DOMAIN found : \E s \in level, e \in usable : Joins(usable, e, s, t)}
             fresh == Reached(g, level) \ DOMAIN found
             via(t) == Via(g, level, t)
             b == NextLevel(g, found, level)
  <1>1. ASSUME NEW s \in level, NEW n
        PROVE  n \in g.neighbors[s] <=> n \in [subject : D, edge : usable]
                                        /\ Joins(usable, n.edge, s, n.subject)
    <2>1. s \in D
      OBVIOUS
    <2> QED
      BY <2>1 DEF Net
  <1>2. fresh = new
    <2>1. ASSUME NEW t \in fresh PROVE t \in new
      <3>0. t \in Reached(g, level) /\ t \notin DOMAIN found
        BY <2>1
      <3>1. PICK s \in level : \E n \in g.neighbors[s] : t = n.subject
        BY <3>0, ReachedIs
      <3>3. PICK n \in g.neighbors[s] : t = n.subject
        BY <3>1
      <3>2. n \in [subject : D, edge : usable] /\ Joins(usable, n.edge, s, n.subject)
        BY <1>1, <3>3
      <3> QED
        BY <3>0, <3>2, <3>3
    <2>2. ASSUME NEW t \in new PROVE t \in fresh
      <3>1. PICK s \in level, e \in usable : Joins(usable, e, s, t) /\ t \in D /\ t \notin DOMAIN found
        BY <2>2
      <3> DEFINE n == [subject |-> t, edge |-> e]
      <3>2. n \in [subject : D, edge : usable] /\ n.subject = t /\ n.edge = e
        BY <3>1
      <3>3. n \in g.neighbors[s]
        BY <1>1, <3>1, <3>2
      <3> HIDE DEF n
      <3>4. t \in Reached(g, level)
        BY <3>2, <3>3, ReachedIs
      <3> QED
        BY <3>1, <3>4
    <2> QED
      BY <2>1, <2>2
  <1>3. ASSUME NEW t \in new
        PROVE  via(t) \in level \X usable /\ Joins(usable, via(t)[2], via(t)[1], t)
    <2>1. PICK s \in level, e \in usable : Joins(usable, e, s, t) /\ t \in D
      BY <1>3
    <2> DEFINE steps == {<<z, m.edge>> : z \in level, m \in UNION {g.neighbors[q] : q \in level}}
               leads(x) == \E m \in g.neighbors[x[1]] : m.subject = t /\ m.edge = x[2]
               n == [subject |-> t, edge |-> e]
    <2>0. via(t) = CHOOSE x \in steps : leads(x)
      BY DEF Via
    <2>2. n \in [subject : D, edge : usable] /\ n.subject = t /\ n.edge = e
      BY <2>1
    <2>3. n \in g.neighbors[s]
      BY <1>1, <2>1, <2>2
    <2> HIDE DEF n
    <2>4. <<s, e>> \in steps /\ leads(<<s, e>>)
      BY <2>1, <2>2, <2>3
    <2>5. via(t) \in steps /\ leads(via(t))
      <3> HIDE DEF steps, leads, via
      <3> QED
        BY <2>0, <2>4
    <2> HIDE DEF via
    <2>6. PICK p \in level : \E d : via(t) = <<p, d>>
      BY <2>5
    <2>61. PICK d : via(t) = <<p, d>>
      BY <2>6
    <2>7. PICK x \in g.neighbors[p] : x.subject = t /\ x.edge = d
      BY <2>5, <2>61
    <2>8. x \in [subject : D, edge : usable] /\ Joins(usable, d, p, t)
      BY <1>1, <2>7
    <2> QED
      BY <2>61, <2>7, <2>8
  <1>4. b = [found |-> [x \in DOMAIN found \cup fresh |-> IF x \in DOMAIN found THEN found[x] ELSE via(x)],
             level |-> fresh]
    BY DEF NextLevel
  <1> HIDE DEF new, fresh, via, b
  <1>5. b.level = new /\ b = [found |-> b.found, level |-> new]
    BY <1>2, <1>4
  <1>6. b.found = [x \in DOMAIN found \cup new |-> IF x \in DOMAIN found THEN found[x] ELSE via(x)]
    BY <1>2, <1>4
  <1>7. \A t \in new : t \notin DOMAIN found
    BY DEF new
  <1>8. b.found = [x \in DOMAIN found \cup new |-> b.found[x]]
    BY <1>6
  <1>9. \A x \in DOMAIN found : b.found[x] = found[x]
    BY <1>6
  <1>10. \A t \in new : b.found[t] = via(t)
    BY <1>6, <1>7
  <1> QED
    BY <1>3, <1>5, <1>8, <1>9, <1>10 DEF Leveled, new, b

(* Every subject found was found at its distance, by an edge from one that *)
(* is one step nearer.                                                     *)
FoundAt(usable, B, k, found, t) ==
    \E j \in 1 .. k : /\ t \in B[j] \ B[j - 1] /\ found[t][1] \in B[j - 1]
                      /\ found[t][2] \in usable /\ Joins(usable, found[t][2], found[t][1], t)

(* Where the search is after n turns: k levels deep, and no deeper than    *)
(* its target.                                                             *)
Searched(D, usable, B, from, to, n, k, b) ==
    /\ k \in 0 .. n
    /\ b = [found |-> b.found, level |-> b.level]
    /\ b.found \in [B[k] -> (D \X usable) \cup {<<None, None>>}]
    /\ b.level = IF k = 0 THEN {from} ELSE B[k] \ B[k - 1]
    /\ to \notin B[k] => k = n
    /\ k > 0 => to \notin B[k - 1]
    /\ \A t \in B[k] \ {from} : FoundAt(usable, B, k, b.found, t)

(* One turn of the search.                                                 *)
Forward(g, to, b) == IF to \in DOMAIN b.found THEN b ELSE NextLevel(g, b.found, b.level)

(* A turn takes the search one level deeper, or it has found its target.   *)
LEMMA SearchedNext ==
    ASSUME NEW g, NEW D, NEW usable, Net(g, D, usable), NEW from \in D, NEW to, NEW B,
           Balls(D, usable, from, B), NEW n \in Nat, NEW k, NEW b,
           Searched(D, usable, B, from, to, n, k, b)
    PROVE  \E l : Searched(D, usable, B, from, to, n + 1, l, Forward(g, to, b))
  <1>0. /\ k \in 0 .. n /\ k \in Nat /\ n + 1 \in Nat /\ k \in 0 .. n + 1
        /\ b = [found |-> b.found, level |-> b.level]
        /\ b.found \in [B[k] -> (D \X usable) \cup {<<None, None>>}] /\ DOMAIN b.found = B[k]
        /\ b.level = IF k = 0 THEN {from} ELSE B[k] \ B[k - 1]
        /\ to \notin B[k] => k = n
        /\ k > 0 => to \notin B[k - 1]
        /\ \A t \in B[k] \ {from} : FoundAt(usable, B, k, b.found, t)
    BY DEF Searched
  <1>1. CASE to \in B[k]
    <2>1. Forward(g, to, b) = b
      BY <1>0, <1>1 DEF Forward
    <2>2. Searched(D, usable, B, from, to, n + 1, k, b)
      BY <1>0, <1>1 DEF Searched
    <2> QED
      BY <2>1, <2>2
  <1>2. CASE to \notin B[k]
    <2> DEFINE c == NextLevel(g, b.found, b.level)
               new == {t \in D \ B[n] : \E s \in b.level, e \in usable : Joins(usable, e, s, t)}
    <2>1. k = n /\ Forward(g, to, b) = c
      BY <1>0, <1>2 DEF Forward
    <2>2. /\ B \in [Nat -> SUBSET D] /\ B[0] = {from} /\ B[n] \subseteq D /\ B[n + 1] \subseteq D
          /\ B[n] \subseteq B[n + 1]
          /\ n > 0 => n - 1 \in Nat /\ (n - 1) + 1 = n
          /\ \A m \in Nat : \A s \in B[m], e \in usable, t \in D :
                Joins(usable, e, s, t) => t \in B[m + 1]
          /\ \A m \in Nat : \A t \in B[m + 1] \ B[m] :
                \E s \in B[m], e \in usable : Joins(usable, e, s, t)
      BY DEF Balls
    <2>3. b.level \in SUBSET D /\ b.level \subseteq B[n]
      BY <1>0, <2>1, <2>2
    <2>4. Leveled(D, usable, b.found, b.level, c)
      <3> HIDE DEF c
      <3> QED
        BY <2>3, NextLevelIs DEF c
    <2>5. new = B[n + 1] \ B[n]
      <3>1. ASSUME NEW t \in new PROVE t \in B[n + 1] \ B[n]
        <4>1. PICK s \in b.level, e \in usable : Joins(usable, e, s, t) /\ t \in D /\ t \notin B[n]
          BY <3>1
        <4> QED
          BY <2>2, <2>3, <4>1
      <3>2. ASSUME NEW t \in B[n + 1] \ B[n] PROVE t \in new
        <4>1. PICK s \in B[n], e \in usable : Joins(usable, e, s, t)
          BY <2>2, <3>2
        <4>2. t \in D
          BY <2>2, <3>2
        <4>3. s \in b.level
          <5>1. CASE n = 0
            BY <1>0, <2>1, <2>2, <4>1, <5>1
          <5>2. CASE n > 0
            <6>1. s \notin B[n - 1]
              BY <2>2, <3>2, <4>1, <4>2, <5>2
            <6> QED
              BY <1>0, <2>1, <4>1, <5>2, <6>1
          <5> QED
            BY <5>1, <5>2
        <4> QED
          BY <3>2, <4>1, <4>2, <4>3
      <3> QED
        BY <3>1, <3>2
    <2>6. /\ c = [found |-> c.found, level |-> new]
          /\ c.found = [x \in B[n] \cup new |-> c.found[x]]
          /\ \A x \in B[n] : c.found[x] = b.found[x]
          /\ \A t \in new : c.found[t] \in b.level \X usable
                            /\ Joins(usable, c.found[t][2], c.found[t][1], t)
      BY <1>0, <2>1, <2>4 DEF Leveled
    <2> HIDE DEF c, new
    <2>70. \A x \in B[n] \cup new : c.found[x] \in (D \X usable) \cup {<<None, None>>}
      <3>1. \A x \in B[n] : c.found[x] \in (D \X usable) \cup {<<None, None>>}
        BY <1>0, <2>1, <2>6
      <3>2. \A x \in new : c.found[x] \in D \X usable
        BY <2>3, <2>6
      <3> QED
        BY <3>1, <3>2
    <2>7. c.found \in [B[n + 1] -> (D \X usable) \cup {<<None, None>>}] /\ c.level = B[n + 1] \ B[n]
          /\ c = [found |-> c.found, level |-> c.level]
      <3>1. B[n] \cup new = B[n + 1]
        BY <2>2, <2>5
      <3>2. c.level = new
        BY <2>6
      <3> QED
        BY <2>5, <2>6, <2>70, <3>1, <3>2
    <2>8. ASSUME NEW t \in B[n + 1] \ {from} PROVE FoundAt(usable, B, n + 1, c.found, t)
      <3>1. CASE t \in B[n]
        <4>1. PICK j \in 1 .. n : /\ t \in B[j] \ B[j - 1] /\ b.found[t][1] \in B[j - 1]
                                  /\ b.found[t][2] \in usable
                                  /\ Joins(usable, b.found[t][2], b.found[t][1], t)
          BY <1>0, <2>1, <2>8, <3>1 DEF FoundAt
        <4>2. c.found[t] = b.found[t]
          BY <2>6, <3>1
        <4>3. \A i \in 1 .. n : i \in 1 .. n + 1
          OBVIOUS
        <4> QED
          BY <4>1, <4>2, <4>3 DEF FoundAt
      <3>2. CASE t \notin B[n]
        <4>1. t \in new
          BY <2>5, <2>8, <3>2
        <4>2. n + 1 \in 1 .. n + 1 /\ (n + 1) - 1 = n /\ t \in B[n + 1] \ B[n]
          BY <2>8, <3>2
        <4>3. c.found[t] \in b.level \X usable /\ Joins(usable, c.found[t][2], c.found[t][1], t)
          BY <2>6, <4>1
        <4>4. c.found[t][1] \in B[n] /\ c.found[t][2] \in usable
          BY <2>3, <4>3
        <4> QED
          BY <4>2, <4>3, <4>4 DEF FoundAt
      <3> QED
        BY <3>1, <3>2
    <2>9. Searched(D, usable, B, from, to, n + 1, n + 1, c)
      <3>1. n + 1 \in 0 .. n + 1 /\ n + 1 # 0 /\ (n + 1) - 1 = n
        OBVIOUS
      <3> QED
        BY <1>2, <2>1, <2>7, <2>8, <3>1 DEF Searched
    <2> QED
      BY <2>1, <2>9
  <1> QED
    BY <1>1, <1>2

(* The search starts with one subject, at distance 0.                      *)
LEMMA SearchedFirst ==
    ASSUME NEW D, NEW usable, NEW from \in D, NEW to, NEW B, Balls(D, usable, from, B)
    PROVE  Searched(D, usable, B, from, to, 0, 0, [found |-> [s \in {from} |-> <<None, None>>],
                                                level |-> {from}])
  BY DEF Searched, Balls

(* The notes that a search may take.                                       *)
Notes(D, usable) ==
    [found : UNION {[S -> (D \X usable) \cup {<<None, None>>}] : S \in SUBSET D},
     level : SUBSET D]

(* A search takes notes of one shape.                                      *)
LEMMA SearchedTyped ==
    ASSUME NEW D, NEW usable, NEW from \in D, NEW to, NEW B, Balls(D, usable, from, B),
           NEW n \in Nat, NEW k, NEW b, Searched(D, usable, B, from, to, n, k, b)
    PROVE  b \in Notes(D, usable)
  <1>1. k \in Nat /\ B[k] \subseteq D
    BY DEF Searched, Balls
  <1>2. b.found \in [B[k] -> (D \X usable) \cup {<<None, None>>}] /\ b.level \in SUBSET D
        /\ b = [found |-> b.found, level |-> b.level]
    BY <1>1 DEF Searched
  <1>3. b.found \in UNION {[S -> (D \X usable) \cup {<<None, None>>}] : S \in SUBSET D}
    BY <1>1, <1>2
  <1> QED
    BY <1>2, <1>3 DEF Notes

(* What Search returns is where the search is after m turns.               *)
LEMMA SearchIs ==
    ASSUME NEW g, NEW D, NEW usable, Net(g, D, usable), NEW from \in D, NEW to, NEW B,
           Balls(D, usable, from, B), NEW m \in Nat
    PROVE  \E k, b : Searched(D, usable, B, from, to, m, k, b) /\ Search(g, from, to, m) = b.found
  <1> DEFINE start == [found |-> [s \in {from} |-> <<None, None>>], level |-> {from}]
             X == {b \in Notes(D, usable) :
                      \E n \in Nat : \E k : Searched(D, usable, B, from, to, n, k, b)}
             pass == [x \in X |-> Forward(g, to, x)]
             turn == [n \in 1 .. m |-> pass]
             Eq(h) == h = [n \in 0 .. m |->
                             IF n = 0 THEN start
                             ELSE IF to \in DOMAIN h[n - 1].found THEN h[n - 1]
                             ELSE NextLevel(g, h[n - 1].found, h[n - 1].level)]
             after == CHOOSE h : Eq(h)
  <1>1. ASSUME NEW x \in X PROVE Forward(g, to, x) \in X
    <2>1. PICK n \in Nat : \E k : Searched(D, usable, B, from, to, n, k, x)
      BY <1>1
    <2>2. PICK k : Searched(D, usable, B, from, to, n, k, x)
      BY <2>1
    <2>3. PICK l : Searched(D, usable, B, from, to, n + 1, l, Forward(g, to, x))
      BY <2>2, SearchedNext
    <2>4. n + 1 \in Nat
      OBVIOUS
    <2>5. Forward(g, to, x) \in Notes(D, usable)
      BY <2>3, <2>4, SearchedTyped
    <2> QED
      BY <2>3, <2>4, <2>5
  <1>2. Searched(D, usable, B, from, to, 0, 0, start)
    BY SearchedFirst
  <1> HIDE DEF start
  <1>3. start \in X
    <2>1. 0 \in Nat
      OBVIOUS
    <2>2. start \in Notes(D, usable)
      BY <1>2, <2>1, SearchedTyped
    <2> QED
      BY <1>2, <2>1, <2>2
  <1>4. pass \in [X -> X]
    <2> HIDE DEF X
    <2> QED
      BY <1>1
  <1> HIDE DEF X, pass
  <1>5. turn \in [1 .. m -> [X -> X]]
    BY <1>4
  <1>6. PICK f : f = [n \in 0 .. m |-> IF n = 0 THEN start ELSE turn[n][f[n - 1]]]
                 /\ f \in [0 .. m -> X]
    <2> HIDE DEF turn
    <2>1. PICK f : Course(m, X, start, turn, f)
      BY <1>3, <1>5, CourseExists
    <2> QED
      BY <2>1 DEF Course
  <1>7. \A n \in 1 .. m : n - 1 \in 0 .. m /\ n \in 0 .. m /\ n # 0
    OBVIOUS
  <1>8. \A n \in 1 .. m : f[n] = Forward(g, to, f[n - 1])
    <2>1. \A n \in 1 .. m : f[n] = turn[n][f[n - 1]] /\ f[n - 1] \in X
      BY <1>6, <1>7
    <2> QED
      BY <2>1 DEF turn, pass
  <1>9. f = [n \in 0 .. m |-> IF n = 0 THEN start ELSE Forward(g, to, f[n - 1])]
    <2>1. \A n \in 0 .. m : n # 0 => n \in 1 .. m
      OBVIOUS
    <2>2. \A n \in 0 .. m : f[n] = IF n = 0 THEN start ELSE Forward(g, to, f[n - 1])
      BY <1>6, <1>8, <2>1
    <2>3. f = [n \in 0 .. m |-> f[n]]
      BY <1>6
    <2> QED
      BY <2>2, <2>3
  <1>10. Eq(f)
    BY <1>9 DEF Forward
  <1>11. Eq(after)
    <2> HIDE DEF Eq
    <2> QED
      BY <1>10
  <1>12. Search(g, from, to, m) = after[m].found
    BY DEF Search, after, start
  <1> HIDE DEF after
  <1>13. after = [n \in 0 .. m |-> IF n = 0 THEN start ELSE Forward(g, to, after[n - 1])]
    BY <1>11 DEF Forward
  <1>14. after[0] = start /\ \A n \in 0 .. m - 1 : after[n + 1] = Forward(g, to, after[n])
    <2>1. 0 \in 0 .. m
      OBVIOUS
    <2>2. \A n \in 0 .. m - 1 : n + 1 \in 0 .. m /\ n + 1 # 0 /\ (n + 1) - 1 = n
      OBVIOUS
    <2> QED
      BY <1>13, <2>1, <2>2
  <1> DEFINE G == {n \in 0 .. m : \E k : Searched(D, usable, B, from, to, n, k, after[n])}
  <1>15. 0 \in G
    BY <1>2, <1>14
  <1>16. ASSUME NEW n \in 0 .. m - 1, n \in G PROVE n + 1 \in G
    <2>1. PICK k : Searched(D, usable, B, from, to, n, k, after[n])
      BY <1>16
    <2>2. n \in Nat /\ n + 1 \in 0 .. m
      OBVIOUS
    <2>3. \E l : Searched(D, usable, B, from, to, n + 1, l, Forward(g, to, after[n]))
      BY <2>1, <2>2, SearchedNext
    <2> QED
      BY <1>14, <2>2, <2>3
  <1>17. 0 .. m \subseteq G
    <2> HIDE DEF G
    <2> QED
      BY <1>15, <1>16, Upward
  <1>18. m \in G
    BY <1>17
  <1> QED
    BY <1>12, <1>18

(* Where the reading back is after n turns: the path so far leads from a   *)
(* subject j edges away to the target, and is k - j edges long.            *)
RetracedTo(B, usable, to, k, n, j, x) ==
    /\ j \in 0 .. k /\ x.at \in B[j] /\ (j > 0 => x.at \notin B[j - 1])
    /\ x.path \in Seq(usable) /\ Len(x.path) = k - j
    /\ Along(x.path, x.at) = to
    /\ j > 0 => n = k - j

(* One turn of the reading back.                                           *)
Backward(found, from, x) ==
    IF x.at = from THEN x
    ELSE [at |-> found[x.at][1], path |-> <<found[x.at][2]>> \o x.path]

(* Over an edge that joins them, a hop leads from one to the other.        *)
LEMMA HopJoins ==
    ASSUME NEW usable, NEW e, NEW s, NEW t, Joins(usable, e, s, t)
    PROVE  Hop(s, e) = t
  BY DEF Joins, Hop

(* A path with one more edge in front.                                     *)
LEMMA OneMore ==
    ASSUME NEW E, NEW path \in Seq(E), NEW e \in E
    PROVE  <<e>> \o path \in Seq(E) /\ Len(<<e>> \o path) = Len(path) + 1
  OBVIOUS

(* A turn goes one edge nearer to the start of the search.                 *)
LEMMA RetracedNext ==
    ASSUME NEW D, NEW usable, NEW from \in D, NEW B, Balls(D, usable, from, B),
           NEW k \in Nat, NEW found, \A t \in B[k] \ {from} : FoundAt(usable, B, k, found, t),
           NEW to, NEW n \in Nat, NEW j, NEW x, RetracedTo(B, usable, to, k, n, j, x)
    PROVE  \E i : RetracedTo(B, usable, to, k, n + 1, i, Backward(found, from, x))
  <1>0. /\ j \in 0 .. k /\ j \in Nat /\ x.at \in B[j] /\ (j > 0 => x.at \notin B[j - 1])
        /\ x.path \in Seq(usable) /\ Len(x.path) = k - j
        /\ Along(x.path, x.at) = to
        /\ j > 0 => n = k - j
    BY DEF RetracedTo
  <1>1. /\ B \in [Nat -> SUBSET D] /\ B[0] = {from}
        /\ \A a, b \in Nat : a <= b => B[a] \subseteq B[b]
        /\ \A a \in Nat : \A s \in B[a], e \in usable, t \in D :
              Joins(usable, e, s, t) => t \in B[a + 1]
    BY DEF Balls
  <1>2. CASE x.at = from
    <2>1. j = 0
      <3> SUFFICES ASSUME j > 0 PROVE FALSE
        BY <1>0
      <3>1. j - 1 \in Nat /\ 0 <= j - 1 /\ 0 \in Nat
        BY <1>0
      <3> QED
        BY <1>0, <1>1, <1>2, <3>1
    <2>2. Backward(found, from, x) = x
      BY <1>2 DEF Backward
    <2> QED
      BY <1>0, <2>1, <2>2 DEF RetracedTo
  <1>3. CASE x.at # from
    <2> DEFINE p == found[x.at][1]
               e == found[x.at][2]
    <2>1. j > 0 /\ j \in 1 .. k /\ j - 1 \in Nat /\ j - 1 \in 0 .. k /\ (j - 1) + 1 = j /\ k - (j - 1) = (k - j) + 1
      BY <1>0, <1>1, <1>3
    <2>2. x.at \in B[k] \ {from} /\ x.at \in D
      BY <1>0, <1>1, <1>3
    <2>3. PICK i \in 1 .. k : x.at \in B[i] \ B[i - 1] /\ p \in B[i - 1] /\ e \in usable
                              /\ Joins(usable, e, p, x.at)
      BY <2>2 DEF FoundAt
    <2>4. i = j
      <3>1. i \in Nat /\ i - 1 \in Nat
        OBVIOUS
      <3>2. CASE i < j
        <4>1. i <= j - 1
          BY <1>0, <3>1, <3>2
        <4> QED
          BY <1>0, <1>1, <2>1, <2>3, <3>1, <4>1
      <3>3. CASE j < i
        <4>1. j <= i - 1
          BY <1>0, <3>1, <3>3
        <4> QED
          BY <1>0, <1>1, <2>3, <3>1, <4>1
      <3> QED
        BY <1>0, <3>1, <3>2, <3>3
    <2> HIDE DEF p, e
    <2>5. p \in B[j - 1] /\ Hop(p, e) = x.at
      BY <2>3, <2>4, HopJoins
    <2>6. j - 1 > 0 => p \notin B[(j - 1) - 1]
      <3> SUFFICES ASSUME j - 1 > 0, p \in B[(j - 1) - 1] PROVE FALSE
        OBVIOUS
      <3>1. (j - 1) - 1 \in Nat /\ ((j - 1) - 1) + 1 = j - 1
        BY <2>1
      <3>2. x.at \in B[j - 1]
        BY <1>1, <2>2, <2>3, <3>1
      <3> QED
        BY <1>0, <2>1, <3>2
    <2> DEFINE y == [at |-> p, path |-> <<e>> \o x.path]
    <2>7. Backward(found, from, x) = y
      BY <1>3 DEF Backward, p, e
    <2>8. y.at = p /\ y.path = <<e>> \o x.path
      OBVIOUS
    <2>9. y.path \in Seq(usable) /\ Len(y.path) = Len(x.path) + 1
      <3> DEFINE tail == x.path
      <3>1. tail \in Seq(usable) /\ e \in usable
        BY <1>0, <2>3
      <3> HIDE DEF tail
      <3>2. <<e>> \o tail \in Seq(usable) /\ Len(<<e>> \o tail) = Len(tail) + 1
        BY <3>1, OneMore
      <3> QED
        BY <3>2 DEF tail
    <2>10. Along(y.path, y.at) = to
      BY <1>0, <2>3, <2>5, <2>8, AlongFirst
    <2>11. Len(y.path) = k - (j - 1) /\ (n + 1 = k - (j - 1))
      BY <1>0, <2>1, <2>9
    <2> HIDE DEF y
    <2>12. RetracedTo(B, usable, to, k, n + 1, j - 1, y)
      BY <2>1, <2>5, <2>6, <2>8, <2>9, <2>10, <2>11 DEF RetracedTo
    <2> QED
      BY <2>7, <2>12
  <1> QED
    BY <1>2, <1>3

(* The path read back uses usable edges, is as long as the target is deep, *)
(* and leads there.                                                        *)
LEMMA PathBackIs ==
    ASSUME NEW D, NEW usable, NEW from \in D, NEW B, Balls(D, usable, from, B),
           NEW m \in Nat, NEW k \in 0 .. m, NEW found,
           \A t \in B[k] \ {from} : FoundAt(usable, B, k, found, t),
           NEW to \in B[k], k > 0 => to \notin B[k - 1]
    PROVE  LET path == PathBack(found, from, to, m) IN
           path \in Seq(usable) /\ Len(path) = k /\ Along(path, from) = to
  <1> DEFINE start == [at |-> to, path |-> <<>>]
             X == [at : B[k], path : Seq(usable)]
             pass == [x \in X |-> Backward(found, from, x)]
             turn == [n \in 1 .. m |-> pass]
             Eq(h) == h = [n \in 0 .. m |->
                             IF n = 0 THEN start
                             ELSE IF h[n - 1].at = from THEN h[n - 1]
                             ELSE [at |-> found[h[n - 1].at][1],
                                   path |-> <<found[h[n - 1].at][2]>> \o h[n - 1].path]]
             back == CHOOSE h : Eq(h)
  <1>0. k \in Nat /\ B \in [Nat -> SUBSET D] /\ B[0] = {from}
        /\ \A a, b \in Nat : a <= b => B[a] \subseteq B[b]
    BY DEF Balls
  <1>1. ASSUME NEW x \in X PROVE Backward(found, from, x) \in X
    <2>1. CASE x.at = from
      BY <1>1, <2>1 DEF Backward
    <2>2. CASE x.at # from
      <3>1. PICK i \in 1 .. k : found[x.at][1] \in B[i - 1] /\ found[x.at][2] \in usable
        BY <1>1, <2>2 DEF FoundAt
      <3>2. i - 1 \in Nat /\ i - 1 <= k
        BY <1>0
      <3>3. found[x.at][1] \in B[k]
        BY <1>0, <3>1, <3>2
      <3>4. x.path \in Seq(usable)
        BY <1>1
      <3>5. <<found[x.at][2]>> \o x.path \in Seq(usable)
        BY <3>1, <3>4
      <3> QED
        BY <2>2, <3>3, <3>5 DEF Backward
    <2> QED
      BY <2>1, <2>2
  <1>2. start \in X /\ start.at = to /\ start.path = <<>>
    OBVIOUS
  <1>3. RetracedTo(B, usable, to, k, 0, k, start)
    <2>1. <<>> \in Seq(usable) /\ Len(<<>>) = 0
      OBVIOUS
    <2>2. k \in 0 .. k /\ k - k = 0
      BY <1>0
    <2> QED
      BY <1>2, <2>1, <2>2, AlongNone DEF RetracedTo
  <1> HIDE DEF start
  <1>4. pass \in [X -> X]
    <2> HIDE DEF X
    <2> QED
      BY <1>1
  <1> HIDE DEF X, pass
  <1>5. turn \in [1 .. m -> [X -> X]]
    BY <1>4
  <1>6. PICK f : f = [n \in 0 .. m |-> IF n = 0 THEN start ELSE turn[n][f[n - 1]]]
                 /\ f \in [0 .. m -> X]
    <2> HIDE DEF turn
    <2>1. PICK f : Course(m, X, start, turn, f)
      BY <1>2, <1>5, CourseExists
    <2> QED
      BY <2>1 DEF Course
  <1>7. \A n \in 1 .. m : n - 1 \in 0 .. m /\ n \in 0 .. m /\ n # 0
    OBVIOUS
  <1>8. \A n \in 1 .. m : f[n] = Backward(found, from, f[n - 1])
    <2>1. \A n \in 1 .. m : f[n] = turn[n][f[n - 1]] /\ f[n - 1] \in X
      BY <1>6, <1>7
    <2> QED
      BY <2>1 DEF turn, pass
  <1>9. f = [n \in 0 .. m |-> IF n = 0 THEN start ELSE Backward(found, from, f[n - 1])]
    <2>1. \A n \in 0 .. m : n # 0 => n \in 1 .. m
      OBVIOUS
    <2>2. \A n \in 0 .. m : f[n] = IF n = 0 THEN start ELSE Backward(found, from, f[n - 1])
      BY <1>6, <1>8, <2>1
    <2>3. f = [n \in 0 .. m |-> f[n]]
      BY <1>6
    <2> QED
      BY <2>2, <2>3
  <1>10. Eq(f)
    BY <1>9 DEF Backward
  <1>11. Eq(back)
    <2> HIDE DEF Eq
    <2> QED
      BY <1>10
  <1>12. PathBack(found, from, to, m) = back[m].path
    BY DEF PathBack, back, start
  <1> HIDE DEF back
  <1>13. back = [n \in 0 .. m |-> IF n = 0 THEN start ELSE Backward(found, from, back[n - 1])]
    BY <1>11 DEF Backward
  <1>14. back[0] = start /\ \A n \in 0 .. m - 1 : back[n + 1] = Backward(found, from, back[n])
    <2>1. 0 \in 0 .. m
      OBVIOUS
    <2>2. \A n \in 0 .. m - 1 : n + 1 \in 0 .. m /\ n + 1 # 0 /\ (n + 1) - 1 = n
      OBVIOUS
    <2> QED
      BY <1>13, <2>1, <2>2
  <1> DEFINE G == {n \in 0 .. m : \E j : RetracedTo(B, usable, to, k, n, j, back[n])}
  <1>15. 0 \in G
    BY <1>3, <1>14
  <1>16. ASSUME NEW n \in 0 .. m - 1, n \in G PROVE n + 1 \in G
    <2>1. PICK j : RetracedTo(B, usable, to, k, n, j, back[n])
      BY <1>16
    <2>2. n \in Nat /\ n + 1 \in 0 .. m
      OBVIOUS
    <2>3. \E i : RetracedTo(B, usable, to, k, n + 1, i, Backward(found, from, back[n]))
      BY <1>0, <2>1, <2>2, RetracedNext
    <2> QED
      BY <1>14, <2>2, <2>3
  <1>17. 0 .. m \subseteq G
    <2> HIDE DEF G
    <2> QED
      BY <1>15, <1>16, Upward
  <1>18. PICK j : RetracedTo(B, usable, to, k, m, j, back[m])
    BY <1>17
  <1>19. j = 0
    BY <1>0, <1>18 DEF RetracedTo
  <1>20. /\ back[m].at \in B[0] /\ back[m].path \in Seq(usable) /\ Len(back[m].path) = k
         /\ Along(back[m].path, back[m].at) = to
    BY <1>0, <1>18, <1>19 DEF RetracedTo
  <1>21. back[m].at = from
    BY <1>0, <1>20
  <1> QED
    BY <1>12, <1>20, <1>21

(* What keeps a query from being searched at all.                          *)
Faults(g, from, to) == {EndFault(g, from), EndFault(g, to)} \ {""}

(* Every subject is in a state that has a name.                            *)
Spoken(g) == \A s \in DOMAIN g.subjects : g.subjects[s] # ""

(* Nothing does exactly when both subjects are resolved in the graph.      *)
LEMMA FaultsAre ==
    ASSUME NEW g, NEW from \in DOMAIN g.subjects, NEW to \in DOMAIN g.subjects, Spoken(g)
    PROVE  Faults(g, from, to) = {}
              <=> g.subjects[from] = "resolved" /\ g.subjects[to] = "resolved"
  <1>1. \A s \in DOMAIN g.subjects : EndFault(g, s) = "" <=> g.subjects[s] = "resolved"
    BY DEF EndFault, Spoken
  <1> QED
    BY <1>1 DEF Faults

(* The three kinds of answer.                                              *)
Answered(g, from, to, m, answer) ==
    LET found == Search(g, from, to, m)
        joined == Faults(g, from, to) = {} /\ from # to /\ to \in DOMAIN found
    IN  /\ answer.excluded = {x \in g.excluded : x.ends \cap {from, to} # {}}
        /\ answer.supported <=> joined
        /\ joined => answer.path = PathBack(found, from, to, m)

(* Query gives one of these answers.                                       *)
LEMMA AnswersAre ==
    ASSUME NEW g, NEW from, NEW to, NEW m
    PROVE  Answered(g, from, to, m, Query(g, from, to, m))
  <1> DEFINE faults == Faults(g, from, to)
             found == Search(g, from, to, m)
             touching == {x \in g.excluded : x.ends \cap {from, to} # {}}
             path == PathBack(found, from, to, m)
             no(why) == [supported |-> FALSE, reasons |-> why, excluded |-> touching]
             yes == [supported |-> TRUE, path |-> path, excluded |-> touching]
             answer == Query(g, from, to, m)
             joined == faults = {} /\ from # to /\ to \in DOMAIN found
  <1>1. answer = IF faults # {} THEN no(faults)
                 ELSE IF from = to THEN no({"same_subject"})
                 ELSE IF to \in DOMAIN found THEN yes
                 ELSE no({"no_current_support_path"})
    BY DEF Query, Faults
  <1> HIDE DEF faults, found, touching, path, answer
  <1>2. \A why : no(why).supported = FALSE /\ no(why).excluded = touching
    OBVIOUS
  <1>3. yes.supported = TRUE /\ yes.excluded = touching /\ yes.path = path
    OBVIOUS
  <1> HIDE DEF no, yes
  <1>4. joined => answer = yes
    BY <1>1
  <1>5. ~joined => \E why : answer = no(why)
    BY <1>1
  <1>6. joined \in BOOLEAN
    OBVIOUS
  <1> HIDE DEF joined
  <1>7. /\ answer.excluded = touching /\ (answer.supported <=> joined)
        /\ joined => answer.path = path
    <2>1. CASE joined
      BY <1>3, <1>4, <2>1
    <2>2. CASE ~joined
      <3>1. PICK why : answer = no(why)
        BY <1>5, <2>2
      <3>2. answer.supported = FALSE /\ answer.excluded = touching
        BY <1>2, <3>1
      <3> QED
        BY <1>6, <2>2, <3>2
    <2> QED
      BY <1>6, <2>1, <2>2
  <1>8. Answered(g, from, to, m, answer)
    BY <1>7 DEF Answered, touching, found, path, joined, faults
  <1> QED
    BY <1>8 DEF answer

(* What a search over the usable edges answers: whether one subject is     *)
(* within m edges of the other, and then by a shortest path.               *)
Tells(g, usable, from, to, m, answer) ==
    /\ answer.excluded = {x \in g.excluded : x.ends \cap {from, to} # {}}
    /\ answer.supported <=> /\ g.subjects[from] = "resolved" /\ g.subjects[to] = "resolved"
                            /\ from # to /\ to \in Within(usable, from, m)
    /\ answer.supported => /\ Range(answer.path) \subseteq usable
                           /\ Along(answer.path, from) = to
                           /\ to \notin Within(usable, from, Len(answer.path) - 1)

(* Over a graph that offers exactly the usable edges, Query tells just     *)
(* this.                                                                   *)
LEMMA QueryIs ==
    ASSUME NEW g, NEW D, NEW usable, Net(g, D, usable), DOMAIN g.subjects = D,
           Spoken(g), NEW from \in D, NEW to \in D, NEW m \in Nat
    PROVE  Tells(g, usable, from, to, m, Query(g, from, to, m))
  <1> DEFINE answer == Query(g, from, to, m)
             found == Search(g, from, to, m)
             path == PathBack(found, from, to, m)
             B == [n \in Nat |-> Within(usable, from, n)]
             faults == Faults(g, from, to)
             clear == g.subjects[from] = "resolved" /\ g.subjects[to] = "resolved"
             touching == {x \in g.excluded : x.ends \cap {from, to} # {}}
  <1>1. /\ answer.excluded = touching
        /\ answer.supported <=> (faults = {} /\ from # to /\ to \in DOMAIN found)
        /\ faults = {} /\ from # to /\ to \in DOMAIN found => answer.path = path
    BY AnswersAre DEF Answered
  <1>2. faults = {} <=> clear
    BY FaultsAre
  <1>3. Balls(D, usable, from, B)
    BY BallsAre
  <1>4. \A n \in Nat : B[n] = Within(usable, from, n)
    OBVIOUS
  <1> HIDE DEF B, answer, faults, clear, touching
  <1>5. \E k, b : Searched(D, usable, B, from, to, m, k, b) /\ found = b.found
    BY <1>3, SearchIs
  <1>6. PICK k, b : Searched(D, usable, B, from, to, m, k, b) /\ found = b.found
    BY <1>5
  <1> HIDE DEF found
  <1>7. k \in 0 .. m
    BY <1>6 DEF Searched
  <1>8. DOMAIN found = B[k]
    BY <1>6 DEF Searched
  <1>9. (to \notin B[k] => k = m) /\ (k > 0 => to \notin B[k - 1])
    BY <1>6 DEF Searched
  <1>10. \A t \in B[k] \ {from} : FoundAt(usable, B, k, found, t)
    BY <1>6 DEF Searched
  <1>11. to \in DOMAIN found <=> to \in Within(usable, from, m)
    <2>1. k \in Nat /\ k <= m
      BY <1>7
    <2>2. B[k] \subseteq B[m]
      BY <1>3, <2>1 DEF Balls
    <2> QED
      BY <1>4, <1>8, <1>9, <2>2
  <1>12. ASSUME from # to, to \in DOMAIN found
        PROVE  /\ Range(path) \subseteq usable /\ Along(path, from) = to
               /\ to \notin Within(usable, from, Len(path) - 1)
    <2>1. to \in B[k]
      BY <1>8, <1>12
    <2>2. path \in Seq(usable) /\ Len(path) = k /\ Along(path, from) = to
      BY <1>3, <1>7, <1>9, <1>10, <2>1, PathBackIs
    <2> HIDE DEF path
    <2>3. k # 0
      <3>1. B[0] = {from}
        BY <1>3 DEF Balls
      <3> QED
        BY <1>12, <2>1, <3>1
    <2>4. k > 0 /\ k - 1 \in Nat
      BY <1>7, <2>3
    <2>5. to \notin Within(usable, from, k - 1)
      BY <1>4, <1>9, <2>4
    <2>6. Range(path) \subseteq usable
      <3>1. \A i \in DOMAIN path : path[i] \in usable
        BY <2>2
      <3> QED
        BY <3>1 DEF Range
    <2> QED
      BY <2>2, <2>5, <2>6
  <1> HIDE DEF path
  <1>13. answer.supported <=> clear /\ from # to /\ to \in Within(usable, from, m)
    BY <1>1, <1>2, <1>11
  <1>14. answer.supported => /\ Range(answer.path) \subseteq usable
                             /\ Along(answer.path, from) = to
                             /\ to \notin Within(usable, from, Len(answer.path) - 1)
    BY <1>1, <1>12
  <1>15. Tells(g, usable, from, to, m, answer)
    BY <1>1, <1>13, <1>14 DEF Tells, clear, touching
  <1> QED
    BY <1>15 DEF answer
=============================================================================
