-------------------------- MODULE PublicationProofs --------------------------
(***************************************************************************)
(* Theorems about EventLog and Publication, for any events and worlds, any *)
(* number of writers, clients, rebuilders and publishers, any briefs,      *)
(* candidates, payloads and any MAX_CHAIN.                                 *)
(*                                                                         *)
(* The projector: the incremental fold, in whatever order the events       *)
(* arrive, and the batch fold of rebuild both compute ViewOf, which        *)
(* mentions neither walks nor counters.  The transactions: what the locks  *)
(* of the guarded writers protect, and that the ledger with them           *)
(* implements the atomic log.                                              *)
(***************************************************************************)
EXTENDS Publication, FiniteSetTheorems, SequenceTheorems, WellFoundedInduction, TLAPS

(* The supersedes of a moment names a moment.  Nothing in the code makes   *)
(* it so; RebuildIsLive fails without it (an orphan).                      *)
MomentsCorrectMoments ==
  \A e \in Ids : IsMoment(e) /\ Parent(e) \in Ids => IsMoment(Parent(e))

(* A nonempty set of natural numbers has a least element.                  *)
LEMMA LeastNat ==
    ASSUME NEW T \in SUBSET Nat, T # {}
    PROVE  \E x \in T : \A y \in T : x <= y
  <1> DEFINE R == OpToRel(<, Nat)
  <1>1. \A a, b \in Nat : a < b => <<a, b>> \in R
    BY DEF OpToRel
  <1>2. IsWellFoundedOn(R, Nat)
    BY NatLessThanWellFounded
  <1> HIDE DEF R
  <1>3. PICK x \in T : \A y \in T : ~(<<y, x>> \in R)
    BY <1>2, WFMin
  <1>4. ASSUME NEW y \in T PROVE x <= y
    <2>1. x \in Nat /\ y \in Nat
      OBVIOUS
    <2>2. y < x => <<y, x>> \in R
      BY <1>1, <2>1
    <2>3. ~(<<y, x>> \in R)
      BY <1>3
    <2> QED
      BY <2>1, <2>2, <2>3
  <1> QED
    BY <1>4

(* Induction up to a bound, as a fact about sets.                          *)
LEMMA Upward ==
    ASSUME NEW m \in Nat, NEW G, 0 \in G, \A n \in 0 .. m - 1 : n \in G => n + 1 \in G
    PROVE  0 .. m \subseteq G
  <1> DEFINE Bad == {n \in 0 .. m : n \notin G}
  <1> SUFFICES ASSUME Bad # {} PROVE FALSE
    OBVIOUS
  <1>1. Bad \in SUBSET Nat
    OBVIOUS
  <1>2. PICK n \in Bad : \A y \in Bad : n <= y
    <2> HIDE DEF Bad
    <2> QED
      BY <1>1, LeastNat
  <1>3. n \in 0 .. m /\ n \notin G /\ n # 0
    OBVIOUS
  <1>4. n - 1 \in 0 .. m - 1 /\ n - 1 \in 0 .. m /\ (n - 1) + 1 = n
    BY <1>3
  <1>5. n - 1 \notin Bad
    <2> HIDE DEF Bad
    <2> QED
      BY <1>2, <1>3
  <1>6. n - 1 \in G
    BY <1>4, <1>5
  <1> QED
    BY <1>3, <1>4, <1>6
-----------------------------------------------------------------------------
(* The turns of a loop, up to the m-th.                                    *)
Turns(step, start, m, at) ==
  at = [n \in 0 .. m |-> IF n = 0 THEN start ELSE step[at[n - 1]]]

LEMMA TurnsGive ==
    ASSUME NEW step, NEW start, NEW m \in Nat, NEW at, Turns(step, start, m, at)
    PROVE  at[0] = start /\ \A n \in 0 .. m - 1 : at[n + 1] = step[at[n]]
  <1>1. \A n \in 0 .. m : at[n] = IF n = 0 THEN start ELSE step[at[n - 1]]
    BY DEF Turns
  <1>2. ASSUME NEW n \in 0 .. m - 1 PROVE n + 1 \in 0 .. m /\ n + 1 # 0 /\ (n + 1) - 1 = n
    OBVIOUS
  <1> QED
    BY <1>1, <1>2

LEMMA TurnsExist ==
    ASSUME NEW step, NEW start, NEW k \in Nat
    PROVE  \E at : Turns(step, start, k, at)
  <1> DEFINE G == {m \in Nat : \E at : Turns(step, start, m, at)}
  <1>1. 0 \in G
    <2>1. Turns(step, start, 0, [n \in 0 .. 0 |-> start])
      BY DEF Turns
    <2> QED
      BY <2>1
  <1>2. ASSUME NEW m \in 0 .. k - 1, m \in G PROVE m + 1 \in G
    <2>1. PICK f : Turns(step, start, m, f)
      BY <1>2
    <2>2. m \in Nat /\ f[0] = start /\ \A n \in 0 .. m - 1 : f[n + 1] = step[f[n]]
      BY <2>1, TurnsGive
    <2> DEFINE g == [n \in 0 .. m + 1 |-> IF n = m + 1 THEN step[f[m]] ELSE f[n]]
    <2>3. ASSUME NEW n \in 0 .. m + 1
          PROVE  g[n] = IF n = 0 THEN start ELSE step[g[n - 1]]
      <3>1. CASE n = m + 1
        BY <2>2, <3>1
      <3>2. CASE n # m + 1 /\ n # 0
        <4>1. n - 1 \in 0 .. m - 1 /\ n - 1 \in 0 .. m + 1 /\ n - 1 # m + 1 /\ (n - 1) + 1 = n
          BY <2>2, <3>2
        <4>2. g[n] = f[n] /\ g[n - 1] = f[n - 1] /\ f[n] = step[f[n - 1]]
          BY <2>2, <3>2, <4>1
        <4> QED
          BY <3>2, <4>2
      <3>3. CASE n = 0
        BY <2>2, <3>3
      <3> QED
        BY <3>1, <3>2, <3>3
    <2>4. g = [n \in 0 .. m + 1 |-> g[n]]
      OBVIOUS
    <2> HIDE DEF g
    <2>5. Turns(step, start, m + 1, g)
      BY <2>3, <2>4 DEF Turns
    <2> QED
      BY <2>2, <2>5
  <1> HIDE DEF G
  <1>3. 0 .. k \subseteq G
    BY <1>1, <1>2, Upward
  <1> QED
    BY <1>3 DEF G

FinalTurn == MaxChain - 1

(* A walk has its turns, and ends where the last of them stands.           *)
LEMMA WalkTurns ==
    ASSUME NEW step, NEW start
    PROVE  \E at : /\ at[0] = start /\ \A n \in 0 .. FinalTurn - 1 : at[n + 1] = step[at[n]]
                   /\ Walk(step, start) = at[FinalTurn]
  <1> DEFINE at == CHOOSE f : Turns(step, start, FinalTurn, f)
  <1>1. FinalTurn \in Nat
    BY LogAssumption DEF FinalTurn
  <1>2. Turns(step, start, FinalTurn, at)
    BY <1>1, TurnsExist
  <1>3. Walk(step, start) = at[FinalTurn]
    BY DEF Walk, Turns, FinalTurn
  <1>4. PICK f : f = at
    OBVIOUS
  <1> HIDE DEF at
  <1>5. Turns(step, start, FinalTurn, f)
    BY <1>2, <1>4
  <1>6. f[0] = start /\ \A n \in 0 .. FinalTurn - 1 : f[n + 1] = step[f[n]]
    <2>1. PICK k \in Nat : k = FinalTurn
      BY <1>1
    <2>2. Turns(step, start, k, f)
      BY <1>5, <2>1
    <2>3. f[0] = start /\ \A n \in 0 .. k - 1 : f[n + 1] = step[f[n]]
      BY <2>2, TurnsGive
    <2> QED
      BY <2>1, <2>3
  <1> QED
    BY <1>3, <1>4, <1>6

(* What the start has and a turn keeps, the end of the walk has.           *)
LEMMA WalkStays ==
    ASSUME NEW step, NEW start, NEW X, start \in X, \A x \in X : step[x] \in X
    PROVE  Walk(step, start) \in X
  <1>1. PICK at : /\ at[0] = start /\ \A n \in 0 .. FinalTurn - 1 : at[n + 1] = step[at[n]]
                  /\ Walk(step, start) = at[FinalTurn]
    BY WalkTurns
  <1> DEFINE G == {n \in Nat : at[n] \in X}
  <1>2. FinalTurn \in Nat
    BY LogAssumption DEF FinalTurn
  <1>3. 0 \in G /\ \A n \in 0 .. FinalTurn - 1 : n \in G => n + 1 \in G
    BY <1>1, <1>2
  <1> HIDE DEF G
  <1>4. 0 .. FinalTurn \subseteq G
    BY <1>2, <1>3, Upward
  <1> QED
    BY <1>1, <1>2, <1>4 DEF G

(* Two walks that agree wherever the first can be, end alike.              *)
LEMMA WalksAgree ==
    ASSUME NEW f, NEW g, NEW start, NEW X, start \in X,
           \A x \in X : f[x] \in X /\ g[x] = f[x]
    PROVE  Walk(f, start) = Walk(g, start)
  <1>1. PICK a : /\ a[0] = start /\ \A n \in 0 .. FinalTurn - 1 : a[n + 1] = f[a[n]]
                 /\ Walk(f, start) = a[FinalTurn]
    BY WalkTurns
  <1>2. PICK b : /\ b[0] = start /\ \A n \in 0 .. FinalTurn - 1 : b[n + 1] = g[b[n]]
                 /\ Walk(g, start) = b[FinalTurn]
    BY WalkTurns
  <1> DEFINE G == {n \in Nat : a[n] \in X /\ b[n] = a[n]}
  <1>3. FinalTurn \in Nat
    BY LogAssumption DEF FinalTurn
  <1>4. 0 \in G
    BY <1>1, <1>2
  <1>5. ASSUME NEW n \in 0 .. FinalTurn - 1, n \in G PROVE n + 1 \in G
    BY <1>1, <1>2, <1>3, <1>5
  <1> HIDE DEF G
  <1>6. 0 .. FinalTurn \subseteq G
    BY <1>3, <1>4, <1>5, Upward
  <1> QED
    BY <1>1, <1>2, <1>3, <1>6 DEF G
-----------------------------------------------------------------------------
LEMMA IdNumbers == Ids \subseteq Nat /\ None \notin Ids /\ Held \notin Ids /\ Overrun \notin Ids
  BY LogAssumption DEF Ids, None, Held, Overrun

LEMMA EarliestGives ==
    ASSUME NEW T \in SUBSET Ids, T # {}
    PROVE  /\ Earliest(T) \in T /\ \A n \in T : Earliest(T) <= n
           /\ \A m \in T : (\A n \in T : m <= n) => m = Earliest(T)
  <1>1. T \in SUBSET Nat
    BY IdNumbers
  <1>2. \E m \in T : \A n \in T : m <= n
    BY <1>1, LeastNat
  <1>3. Earliest(T) \in T /\ \A n \in T : Earliest(T) <= n
    BY <1>2 DEF Earliest
  <1>4. ASSUME NEW m \in T, \A n \in T : m <= n PROVE m = Earliest(T)
    <2>1. PICK k \in Nat : k = Earliest(T)
      BY <1>1, <1>3
    <2>2. m \in Nat /\ m <= k /\ k <= m
      BY <1>1, <1>3, <1>4, <2>1
    <2> QED
      BY <2>1, <2>2
  <1> QED
    BY <1>3, <1>4

(* The moments that go back to r, by supersedes.                           *)
Under(S, r) ==
  {m \in S : \A X \in SUBSET S :
               r \in X /\ (\A c \in S : IsMoment(c) /\ Parent(c) \in X => c \in X) => m \in X}

LEMMA UnderGives ==
    ASSUME NEW S, NEW r \in S
    PROVE  /\ r \in Under(S, r) /\ Under(S, r) \subseteq S
           /\ \A c \in S : IsMoment(c) /\ Parent(c) \in Under(S, r) => c \in Under(S, r)
           /\ \A m \in Under(S, r) : m = r \/ (IsMoment(m) /\ Parent(m) \in Under(S, r))
  <1>1. r \in Under(S, r) /\ Under(S, r) \subseteq S
    BY DEF Under
  <1>2. \A c \in S : IsMoment(c) /\ Parent(c) \in Under(S, r) => c \in Under(S, r)
    BY DEF Under
  <1> DEFINE X == {m \in Under(S, r) : m = r \/ (IsMoment(m) /\ Parent(m) \in Under(S, r))}
  <1>3. X \in SUBSET S /\ r \in X
    BY <1>1
  <1>4. \A c \in S : IsMoment(c) /\ Parent(c) \in X => c \in X
    BY <1>2
  <1>5. \A m \in Under(S, r) : m \in X
    <2> HIDE DEF X
    <2> QED
      BY <1>3, <1>4 DEF Under
  <1> QED
    BY <1>1, <1>2, <1>5

LEMMA RootsGive ==
    ASSUME NEW S \in SUBSET Ids, NEW r \in Roots(S)
    PROVE  r \in S /\ r \in Ids /\ IsMoment(r) /\ ~ HasParent(S, r) /\ Parent(r) \in S \union {None}
  BY IdNumbers DEF Roots, Of, IsMoment, HasParent

(* Walking up from anything that goes back to the root r ends at r.        *)
LEMMA RootOfUnder ==
    ASSUME NEW S \in SUBSET Ids, NEW r \in Roots(S), NEW m \in Under(S, r)
    PROVE  ChainRoot(S, m) \in {r, Overrun}
  <1> DEFINE U == Under(S, r)
             top == Walk(Climb(S), m)
  <1>1. r \in S /\ IsMoment(r) /\ ~ HasParent(S, r) /\ Parent(r) \in S \union {None}
    BY RootsGive
  <1>2. /\ r \in U /\ U \subseteq S
        /\ \A x \in U : x = r \/ (IsMoment(x) /\ Parent(x) \in U)
    BY <1>1, UnderGives
  <1> HIDE DEF U
  <1>3. \A x \in U : Climb(S)[x] \in U
    BY <1>1, <1>2 DEF Climb
  <1>4. m \in U
    BY DEF U
  <1>5. top \in U
    BY <1>3, <1>4, WalkStays
  <1>6. ~ HasParent(S, top) => top = r
    BY <1>1, <1>2, <1>5 DEF HasParent
  <1> QED
    BY <1>1, <1>6 DEF ChainRoot

(* The walk up from a moment ends at a root, or fails.                     *)
LEMMA RootIsRoot ==
    ASSUME NEW S \in SUBSET Ids, NEW e \in S, IsMoment(e)
    PROVE  ChainRoot(S, e) \in Roots(S) \union {Held, Overrun}
  <1> DEFINE M == {m \in S : IsMoment(m)}
             top == Walk(Climb(S), e)
  <1>1. \A x \in M : Climb(S)[x] \in M
    BY DEF Climb, HasParent
  <1>2. e \in M
    OBVIOUS
  <1> HIDE DEF M
  <1>3. top \in M
    BY <1>1, <1>2, WalkStays
  <1> HIDE DEF top
  <1>4. ~ HasParent(S, top) /\ Parent(top) \in S \union {None} => top \in Roots(S)
    BY <1>3 DEF HasParent, Roots, Of, IsMoment, M
  <1> QED
    BY <1>4 DEF ChainRoot, top

LEMMA OwnRoot ==
    ASSUME NEW S \in SUBSET Ids, NEW r \in Roots(S)
    PROVE  ChainRoot(S, r) = r
  <1>1. r \in Ids /\ ~ HasParent(S, r) /\ Parent(r) \in S \union {None}
    BY RootsGive
  <1>2. \A x \in {r} : Climb(S)[x] \in {r}
    BY <1>1 DEF Climb
  <1>3. Walk(Climb(S), r) \in {r}
    BY <1>2, WalkStays
  <1> QED
    BY <1>1, <1>3 DEF ChainRoot

LEMMA ChildrenGive ==
    ASSUME NEW S \in SUBSET Ids, NEW m, Children(S, m) # {}
    PROVE  /\ Earliest(Children(S, m)) \in S /\ IsMoment(Earliest(Children(S, m)))
           /\ Parent(Earliest(Children(S, m))) = m
  <1>1. Children(S, m) \in SUBSET Ids
    BY DEF Children
  <1>2. Earliest(Children(S, m)) \in Children(S, m)
    BY <1>1, EarliestGives
  <1> QED
    BY <1>2 DEF Children

(* The walk down from a root stays with what goes back to it.              *)
LEMMA DownStays ==
    ASSUME NEW S \in SUBSET Ids, NEW r \in Roots(S)
    PROVE  /\ \A x \in Under(S, r) : Descend(S)[x] \in Under(S, r)
           /\ Walk(Descend(S), r) \in Under(S, r)
  <1>1. r \in S
    BY RootsGive
  <1>2. /\ r \in Under(S, r) /\ Under(S, r) \subseteq S
        /\ \A c \in S : IsMoment(c) /\ Parent(c) \in Under(S, r) => c \in Under(S, r)
    BY <1>1, UnderGives
  <1>3. ASSUME NEW x \in Under(S, r) PROVE Descend(S)[x] \in Under(S, r)
    <2>1. x \in Ids
      BY <1>2
    <2>2. CASE Children(S, x) = {}
      BY <2>1, <2>2 DEF Descend
    <2>3. CASE Children(S, x) # {}
      <3>1. Descend(S)[x] = Earliest(Children(S, x))
        BY <2>1, <2>3 DEF Descend
      <3> QED
        BY <1>2, <2>3, <3>1, ChildrenGive
    <2> QED
      BY <2>2, <2>3
  <1> QED
    BY <1>2, <1>3, WalkStays

(* A new moment that does not go back to r leaves the head of r alone.     *)
LEMMA OtherHeadsStay ==
    ASSUME NEW S \in SUBSET Ids, NEW e \in Ids, NEW r \in Roots(S), r \in Roots(S \union {e}),
           IsMoment(e) => ChainRoot(S \union {e}, e) \notin {r, Overrun}
    PROVE  ChainHead(S \union {e}, r) = ChainHead(S, r)
  <1> DEFINE T == S \union {e}
             U == Under(T, r)
  <1>1. T \in SUBSET Ids
    OBVIOUS
  <1>2. r \in T
    BY RootsGive
  <1>3. /\ r \in U /\ U \subseteq T
        /\ \A c \in T : IsMoment(c) /\ Parent(c) \in U => c \in U
    BY <1>2, UnderGives
  <1>4. IsMoment(e) => e \notin U
    BY <1>1, RootOfUnder
  <1>5. \A x \in U : Children(T, x) = Children(S, x)
    BY <1>3, <1>4 DEF Children
  <1>6. (\A x \in U : Descend(T)[x] \in U) /\ Walk(Descend(T), r) \in U
    BY <1>1, DownStays
  <1> HIDE DEF T, U
  <1>7. \A x \in U : Descend(S)[x] = Descend(T)[x]
    BY <1>1, <1>3, <1>5 DEF Descend
  <1>8. Walk(Descend(T), r) = Walk(Descend(S), r)
    BY <1>3, <1>6, <1>7, WalksAgree
  <1> QED
    BY <1>5, <1>6, <1>8 DEF ChainHead, T

(* What Line asks of a set of moments.                                     *)
IsLine(S, r, L) ==
  /\ r \in L
  /\ \A m \in L \ {r} : Parent(m) \in L /\ m = Earliest(Children(S, Parent(m)))
  /\ \A m \in L : Children(S, m) = {} \/ Earliest(Children(S, m)) \in L

(* Where the walk down from r has been is a line of r.                     *)
LEMMA VisitedIsLine ==
    ASSUME NEW S \in SUBSET Ids, NEW r \in Roots(S), NEW at, at[0] = r,
           \A n \in 0 .. FinalTurn - 1 : at[n + 1] = Descend(S)[at[n]],
           Children(S, at[FinalTurn]) = {}
    PROVE  LET D == {at[n] : n \in 0 .. FinalTurn}
           IN  D \subseteq Of(S, "moment") /\ IsLine(S, r, D)
  <1> DEFINE D == {at[n] : n \in 0 .. FinalTurn}
             G == {n \in Nat : at[n] \in Of(S, "moment")}
  <1>1. FinalTurn \in Nat
    BY LogAssumption DEF FinalTurn
  <1>2. \A x \in Ids : Descend(S)[x] = IF Children(S, x) = {} THEN x ELSE Earliest(Children(S, x))
    BY DEF Descend
  <1>3. 0 \in G
    BY RootsGive DEF Of, IsMoment
  <1>4. ASSUME NEW n \in 0 .. FinalTurn - 1, n \in G PROVE n + 1 \in G
    <2>1. at[n] \in S /\ at[n] \in Ids /\ at[n] \in Of(S, "moment")
      BY <1>4 DEF Of
    <2>2. at[n + 1] \in Of(S, "moment")
      BY <1>2, <2>1, ChildrenGive DEF Of, IsMoment
    <2> QED
      BY <1>1, <2>2
  <1> HIDE DEF G
  <1>5. 0 .. FinalTurn \subseteq G
    BY <1>1, <1>3, <1>4, Upward
  <1>6. \A n \in 0 .. FinalTurn : at[n] \in Of(S, "moment") /\ at[n] \in Ids
    BY <1>5 DEF G, Of
  <1>7. r \in D
    BY <1>1
  <1>8. ASSUME NEW m \in D \ {r} PROVE Parent(m) \in D /\ m = Earliest(Children(S, Parent(m)))
    <2> DEFINE N == {n \in 0 .. FinalTurn : at[n] = m}
    <2>1. N \in SUBSET Nat /\ N # {}
      BY <1>1
    <2>2. PICK n \in N : \A k \in N : n <= k
      <3> HIDE DEF N
      <3> QED
        BY <2>1, LeastNat
    <2>3. n \in 0 .. FinalTurn /\ at[n] = m /\ n # 0
      OBVIOUS
    <2>4. n - 1 \in 0 .. FinalTurn /\ n - 1 \in 0 .. FinalTurn - 1 /\ (n - 1) + 1 = n
      BY <1>1, <2>3
    <2>5. at[n - 1] # m
      <3>1. n - 1 \notin N
        <4> HIDE DEF N
        <4> QED
          BY <2>2, <2>3
      <3> QED
        BY <2>4, <3>1
    <2>6. m = Descend(S)[at[n - 1]] /\ at[n - 1] \in Ids
      BY <1>6, <2>3, <2>4
    <2>7. Children(S, at[n - 1]) # {} /\ m = Earliest(Children(S, at[n - 1]))
      BY <1>2, <2>5, <2>6
    <2>8. Parent(m) = at[n - 1]
      BY <2>7, ChildrenGive
    <2> QED
      BY <2>4, <2>7, <2>8
  <1>9. ASSUME NEW m \in D PROVE Children(S, m) = {} \/ Earliest(Children(S, m)) \in D
    <2>1. PICK n \in 0 .. FinalTurn : at[n] = m
      OBVIOUS
    <2>2. CASE n = FinalTurn
      BY <2>1, <2>2
    <2>3. CASE n # FinalTurn
      <3>1. n \in 0 .. FinalTurn - 1 /\ n + 1 \in 0 .. FinalTurn
        BY <1>1, <2>3
      <3> QED
        BY <1>2, <1>6, <2>1, <3>1
    <2> QED
      BY <2>2, <2>3
  <1>10. D \subseteq Of(S, "moment")
    BY <1>6
  <1> HIDE DEF D
  <1>11. IsLine(S, r, D)
    BY <1>7, <1>8, <1>9 DEF IsLine
  <1> QED
    BY <1>10, <1>11 DEF D

(* Every line of r contains what the walk visits, and has no other end: on *)
(* the rest of it, taking parents is one to one, and so has no last moment.*)
LEMMA LineEndsOnce ==
    ASSUME NEW S \in SUBSET Ids, IsFiniteSet(S), NEW r \in Roots(S),
           NEW D \in SUBSET S, IsLine(S, r, D), NEW L \in SUBSET S, IsLine(S, r, L), D \subseteq L,
           \A m \in L : IsMoment(m),
           NEW m \in L, Children(S, m) = {}
    PROVE  m \in D
  <1> SUFFICES ASSUME m \notin D PROVE FALSE
    OBVIOUS
  <1> DEFINE A == L \ D
             f == [x \in A |-> Parent(x)]
  <1>1. IsFiniteSet(A)
    BY FS_Subset
  <1>2. \A x \in A : x # r /\ Parent(x) \in L /\ x = Earliest(Children(S, Parent(x))) /\ x \in Children(S, Parent(x))
    BY DEF IsLine, Children
  <1>3. \A x \in A : Parent(x) \in A
    BY <1>2 DEF IsLine
  <1>4. f \in Injection(A, A)
    BY <1>2, <1>3 DEF Injection, IsInjective
  <1>5. f \in Surjection(A, A)
    BY <1>1, <1>4, FS_Injection
  <1>6. m \in A
    OBVIOUS
  <1>7. PICK x \in A : f[x] = m
    BY <1>5, <1>6 DEF Surjection
  <1>8. x \in Children(S, m)
    BY <1>2, <1>7
  <1> QED
    BY <1>8

(* The tip of a line is where the walk down ends.                          *)
LEMMA TipIsHead ==
    ASSUME NEW S \in SUBSET Ids, IsFiniteSet(S), NEW r \in Roots(S), ChainHead(S, r) # Overrun
    PROVE  Tip(S, r) = ChainHead(S, r)
  <1>1. PICK at : /\ at[0] = r /\ \A n \in 0 .. FinalTurn - 1 : at[n + 1] = Descend(S)[at[n]]
                  /\ Walk(Descend(S), r) = at[FinalTurn]
    BY WalkTurns
  <1> DEFINE D == {at[n] : n \in 0 .. FinalTurn}
             h == at[FinalTurn]
             L == Line(S, r)
  <1>2. ChainHead(S, r) = h /\ Children(S, h) = {}
    BY <1>1 DEF ChainHead
  <1>3. D \in SUBSET Of(S, "moment") /\ IsLine(S, r, D)
    BY <1>1, <1>2, VisitedIsLine
  <1>4. L \in SUBSET Of(S, "moment") /\ IsLine(S, r, L)
    BY <1>3 DEF Line, IsLine
  <1>5. FinalTurn \in Nat
    BY LogAssumption DEF FinalTurn
  <1>6. D \subseteq L
    <2> DEFINE G == {n \in Nat : at[n] \in L}
    <2> HIDE DEF L
    <2>1. 0 \in G
      BY <1>1, <1>4 DEF IsLine
    <2>2. ASSUME NEW n \in 0 .. FinalTurn - 1, n \in G PROVE n + 1 \in G
      <3>1. at[n] \in L /\ at[n] \in Ids
        BY <1>4, <2>2 DEF Of
      <3>2. at[n + 1] \in L
        BY <1>1, <1>4, <3>1 DEF IsLine, Descend
      <3> QED
        BY <1>5, <3>2
    <2> HIDE DEF G
    <2>3. 0 .. FinalTurn \subseteq G
      BY <1>5, <2>1, <2>2, Upward
    <2> QED
      BY <2>3 DEF G
  <1>7. h \in L
    BY <1>5, <1>6
  <1>8. ASSUME NEW m \in L, Children(S, m) = {} PROVE m = h
    <2> HIDE DEF L, D, h
    <2>1. D \in SUBSET S /\ L \in SUBSET S /\ \A x \in L : IsMoment(x)
      BY <1>3, <1>4 DEF Of, IsMoment
    <2>2. m \in D
      BY <1>3, <1>4, <1>6, <1>8, <2>1, LineEndsOnce
    <2>3. PICK n \in 0 .. FinalTurn : at[n] = m
      BY <2>2 DEF D
    <2> DEFINE G == {k \in Nat : n + k <= FinalTurn => at[n + k] = m}
    <2>4. 0 \in G
      BY <2>3
    <2>5. ASSUME NEW k \in 0 .. FinalTurn - 1, k \in G PROVE k + 1 \in G
      <3> SUFFICES ASSUME n + (k + 1) <= FinalTurn PROVE at[n + (k + 1)] = m
        BY <1>5
      <3>1. n + k \in 0 .. FinalTurn - 1 /\ n + (k + 1) = (n + k) + 1 /\ n + k <= FinalTurn
        BY <1>5
      <3>2. at[n + k] = m /\ m \in Ids
        BY <2>1, <2>5, <3>1
      <3> QED
        BY <1>1, <1>8, <3>1, <3>2 DEF Descend
    <2> HIDE DEF G
    <2>6. 0 .. FinalTurn \subseteq G
      BY <1>5, <2>4, <2>5, Upward
    <2>7. FinalTurn - n \in G
      BY <1>5, <2>6
    <2>8. n + (FinalTurn - n) = FinalTurn
      BY <1>5
    <2> QED
      BY <1>5, <2>7, <2>8 DEF G, h
  <1> HIDE DEF L, h
  <1>9. Tip(S, r) = h
    BY <1>2, <1>7, <1>8 DEF Tip, L
  <1> QED
    BY <1>2, <1>9
-----------------------------------------------------------------------------
(***************************************************************************)
(* A view in the making: every table is that of the events P folded so far *)
(* but the moments, which are m.                                           *)
(***************************************************************************)
EntityIds(P) == {Event[e].entity : e \in Of(P, "entity")}
Entities(P) == [x \in EntityIds(P) |-> Earliest(Births(P, x))]
Vocabulary(P) == [c \in {Event[e].code : e \in Of(P, "vocabulary")} |-> Earliest(Declarations(P, c))]
Edges(P) == [ed \in Of(P, "edge") |-> [in_g |-> InG(P, ed), cross |-> Cross(P, ed)]]
AllInG(P) == {ed \in Of(P, "edge") : InG(P, ed)}
AllCross(P) == {ed \in Of(P, "edge") : Cross(P, ed)}
Counts(P, m) ==
  [rows |-> IF P = {} THEN 0 ELSE 1,
   entity |-> Cardinality(EntityIds(P)),
   moment |-> Cardinality(DOMAIN m),
   edge |-> Cardinality(Of(P, "edge")),
   attestation |-> Cardinality(Of(P, "attestation")),
   contested |-> Cardinality(AllInG(P)),
   cross |-> Cardinality(AllCross(P))]
Folded(P, m) ==
  [entities |-> Entities(P), vocabulary |-> Vocabulary(P), moments |-> m, edges |-> Edges(P),
   attestations |-> Of(P, "attestation"), stats |-> Counts(P, m)]

(* The rows of the chains, each from its head.                             *)
MomentRows(S) == [r \in Roots(S) |-> MomentColumns(ChainHead(S, r))]
Bounded(S) == \A r \in Roots(S) : ChainHead(S, r) # Overrun

LEMMA ViewIsFolded ==
    ASSUME NEW S \in SUBSET Ids, IsFiniteSet(S), Bounded(S)
    PROVE  ViewOf(S) = Folded(S, MomentRows(S))
  <1>1. \A r \in Roots(S) : Tip(S, r) = ChainHead(S, r)
    BY TipIsHead DEF Bounded
  <1>2. [r \in Roots(S) |-> MomentColumns(Tip(S, r))] = MomentRows(S)
    BY <1>1 DEF MomentRows
  <1>3. DOMAIN MomentRows(S) = Roots(S)
    BY DEF MomentRows
  <1> QED
    BY <1>2, <1>3 DEF ViewOf, Folded, EntityIds, Counts, Entities, Vocabulary, Edges, AllInG, AllCross

(* Views and statistics by column, so that an update rewrites one.         *)
Cols(E, V, M, D, A, st) == [entities |-> E, vocabulary |-> V, moments |-> M, edges |-> D,
                            attestations |-> A, stats |-> st]
Stat(en, mo, ed, at, co, cr) == [rows |-> 1, entity |-> en, moment |-> mo, edge |-> ed,
                                 attestation |-> at, contested |-> co, cross |-> cr]

LEMMA ColsRead ==
    ASSUME NEW E, NEW V, NEW M, NEW D, NEW A, NEW st
    PROVE  /\ Cols(E, V, M, D, A, st).entities = E /\ Cols(E, V, M, D, A, st).vocabulary = V
           /\ Cols(E, V, M, D, A, st).moments = M /\ Cols(E, V, M, D, A, st).edges = D
           /\ Cols(E, V, M, D, A, st).attestations = A /\ Cols(E, V, M, D, A, st).stats = st
  BY DEF Cols

LEMMA BumpCols ==
    ASSUME NEW E, NEW V, NEW M, NEW D, NEW A,
           NEW en, NEW mo, NEW ed, NEW at, NEW co, NEW cr
    PROVE  LET v == Cols(E, V, M, D, A, Stat(en, mo, ed, at, co, cr))
           IN  /\ Bump(v, "entity") = Cols(E, V, M, D, A, Stat(en + 1, mo, ed, at, co, cr))
               /\ Bump(v, "moment") = Cols(E, V, M, D, A, Stat(en, mo + 1, ed, at, co, cr))
               /\ Bump(v, "edge") = Cols(E, V, M, D, A, Stat(en, mo, ed + 1, at, co, cr))
               /\ Bump(v, "attestation") = Cols(E, V, M, D, A, Stat(en, mo, ed, at + 1, co, cr))
  <1> DEFINE st == Stat(en, mo, ed, at, co, cr)
             v == Cols(E, V, M, D, A, st)
  <1>1. [st EXCEPT !["entity"] = @ + 1] = Stat(en + 1, mo, ed, at, co, cr)
    BY DEF Stat
  <1>2. [st EXCEPT !["moment"] = @ + 1] = Stat(en, mo + 1, ed, at, co, cr)
    BY DEF Stat
  <1>3. [st EXCEPT !["edge"] = @ + 1] = Stat(en, mo, ed + 1, at, co, cr)
    BY DEF Stat
  <1>4. [st EXCEPT !["attestation"] = @ + 1] = Stat(en, mo, ed, at + 1, co, cr)
    BY DEF Stat
  <1>5. ASSUME NEW column PROVE Bump(v, column) = Cols(E, V, M, D, A, [st EXCEPT ![column] = @ + 1])
    <2> HIDE DEF st
    <2> QED
      BY DEF Bump, Cols
  <1> QED
    BY <1>1, <1>2, <1>3, <1>4, <1>5

Statistics(P, m) ==
  Stat(Cardinality(EntityIds(P)), Cardinality(DOMAIN m),
       Cardinality(Of(P, "edge")), Cardinality(Of(P, "attestation")),
       Cardinality(AllInG(P)), Cardinality(AllCross(P)))
Rowed(P, m) ==
  Cols(Entities(P), Vocabulary(P), m, Edges(P), Of(P, "attestation"), Statistics(P, m))

LEMMA ApplyRows ==
    ASSUME NEW P, NEW m
    PROVE  [Folded(P, m) EXCEPT !.stats = StatsRow(Folded(P, m))] = Rowed(P, m)
  <1>1. StatsRow(Folded(P, m)) = Statistics(P, m)
    <2>1. Folded(P, m).stats = Counts(P, m)
      BY DEF Folded
    <2>2. PICK r, en, mo, ed, at, co, cr :
              /\ Counts(P, m) = [rows |-> r, entity |-> en, moment |-> mo, edge |-> ed,
                                 attestation |-> at, contested |-> co, cross |-> cr]
              /\ Statistics(P, m) = Stat(en, mo, ed, at, co, cr)
      BY DEF Counts, Statistics
    <2>3. [Counts(P, m) EXCEPT !.rows = 1] = Statistics(P, m)
      BY <2>2 DEF Stat
    <2> QED
      BY <2>1, <2>3 DEF StatsRow
  <1>2. Folded(P, m) = Cols(Entities(P), Vocabulary(P), m, Edges(P), Of(P, "attestation"), Counts(P, m))
    BY DEF Folded, Cols
  <1> QED
    BY <1>1, <1>2 DEF Rowed, Cols

LEMMA FoldedRows ==
    ASSUME NEW P, P # {}, NEW m
    PROVE  Folded(P, m) = Rowed(P, m)
  <1>1. Counts(P, m) = Statistics(P, m)
    BY DEF Counts, Statistics, Stat
  <1> QED
    BY <1>1 DEF Folded, Rowed, Cols

LEMMA Finite ==
    ASSUME NEW P, IsFiniteSet(P)
    PROVE  /\ \A k : IsFiniteSet(Of(P, k))
           /\ IsFiniteSet(AllInG(P)) /\ IsFiniteSet(AllCross(P))
           /\ IsFiniteSet(EntityIds(P))
  <1>1. ASSUME NEW k PROVE IsFiniteSet(Of(P, k))
    BY FS_Subset DEF Of
  <1>2. AllInG(P) \in SUBSET Of(P, "edge") /\ AllCross(P) \in SUBSET Of(P, "edge")
    BY DEF AllInG, AllCross
  <1>3. IsFiniteSet(AllInG(P)) /\ IsFiniteSet(AllCross(P))
    BY <1>1, <1>2, FS_Subset
  <1> DEFINE E == Of(P, "entity")
             X == {Event[e].entity : e \in E}
             f == [e \in E |-> Event[e].entity]
  <1>4. f \in Surjection(E, X)
    BY DEF Surjection
  <1> HIDE DEF f, X, E
  <1>5. IsFiniteSet(E)
    BY <1>1 DEF E
  <1>6. IsFiniteSet(X)
    BY <1>4, <1>5, FS_Surjection
  <1> QED
    BY <1>1, <1>3, <1>6 DEF X, E, EntityIds

(* An event that is no entity leaves entities and the standing of edges.   *)
LEMMA NoEntity ==
    ASSUME NEW P, NEW e, e \notin P, Event[e].kind # "entity"
    PROVE  /\ Entities(P \union {e}) = Entities(P)
           /\ EntityIds(P \union {e}) = EntityIds(P)
           /\ \A ed : /\ InG(P \union {e}, ed) = InG(P, ed) /\ Cross(P \union {e}, ed) = Cross(P, ed)
           /\ Event[e].kind # "edge" => /\ Edges(P \union {e}) = Edges(P)
                                         /\ AllInG(P \union {e}) = AllInG(P)
                                         /\ AllCross(P \union {e}) = AllCross(P)
  <1> DEFINE Q == P \union {e}
  <1>1. Of(Q, "entity") = Of(P, "entity") /\ \A x : Births(Q, x) = Births(P, x)
    BY DEF Of, Births
  <1>2. Event[e].kind # "edge" => Of(Q, "edge") = Of(P, "edge")
    BY DEF Of
  <1> HIDE DEF Q
  <1>3. \A x : Survivor(Q, x) = Survivor(P, x)
    BY <1>1 DEF Survivor
  <1>4. \A ed : InG(Q, ed) = InG(P, ed)
    BY <1>1 DEF InG
  <1>5. \A ed : Cross(Q, ed) = Cross(P, ed)
    BY <1>3, <1>4 DEF Cross
  <1>6. EntityIds(Q) = EntityIds(P) /\ Entities(Q) = Entities(P)
    BY <1>1 DEF Entities, EntityIds
  <1>7. Event[e].kind # "edge" => AllInG(Q) = AllInG(P) /\ AllCross(Q) = AllCross(P)
    BY <1>2, <1>4, <1>5 DEF AllInG, AllCross
  <1>8. Event[e].kind # "edge" => Edges(Q) = Edges(P)
    BY <1>2, <1>4, <1>5 DEF Edges
  <1> QED
    BY <1>1, <1>4, <1>5, <1>6, <1>7, <1>8 DEF Q

LEMMA NoVocabulary ==
    ASSUME NEW P, NEW e, e \notin P, Event[e].kind # "vocabulary"
    PROVE  Vocabulary(P \union {e}) = Vocabulary(P)
  <1> DEFINE Q == P \union {e}
  <1>1. Of(Q, "vocabulary") = Of(P, "vocabulary") /\ \A c : Declarations(Q, c) = Declarations(P, c)
    BY DEF Of, Declarations
  <1> HIDE DEF Q
  <1>2. Vocabulary(Q) = Vocabulary(P)
    BY <1>1 DEF Vocabulary
  <1> QED
    BY <1>2 DEF Q

LEMMA FoldAttestation ==
    ASSUME NEW P, IsFiniteSet(P), NEW e, e \notin P, NEW m, NEW db, Event[e].kind = "attestation"
    PROVE  Apply(db, Folded(P, m), e) = Folded(P \union {e}, m)
  <1> DEFINE Q == P \union {e}
             w == Rowed(P, m)
             A == Of(P, "attestation")
  <1>1. /\ Entities(Q) = Entities(P) /\ Edges(Q) = Edges(P) /\ AllInG(Q) = AllInG(P)
        /\ AllCross(Q) = AllCross(P) /\ Vocabulary(Q) = Vocabulary(P)
        /\ EntityIds(Q) = EntityIds(P)
    BY NoEntity, NoVocabulary
  <1>2. Of(Q, "attestation") = A \union {e} /\ Of(Q, "edge") = Of(P, "edge") /\ e \notin A
    BY DEF Of, Declarations
  <1>3. Cardinality(Of(Q, "attestation")) = Cardinality(A) + 1
    BY <1>2, Finite, FS_AddElement
  <1>30. Q # {}
    OBVIOUS
  <1> HIDE DEF Q
  <1>4. Apply(db, Folded(P, m), e) = ProjectAttestation(w, e)
    BY ApplyRows DEF Apply
  <1>5. w.attestations = A
    BY ColsRead DEF Rowed
  <1>6. PICK row : /\ row = [w EXCEPT !.attestations = A \union {e}]
                   /\ ProjectAttestation(w, e) = Bump(row, "attestation")
    BY <1>2, <1>5 DEF ProjectAttestation
  <1>7. row = Cols(Entities(P), Vocabulary(P), m, Edges(P), A \union {e}, Statistics(P, m))
    BY <1>6 DEF Rowed, Cols
  <1> HIDE DEF w, A
  <1>8. Bump(row, "attestation") = Rowed(Q, m)
    <2>1. A = Of(P, "attestation")
      BY DEF A
    <2>2. PICK en, mo, ed, co, cr :
            /\ Statistics(P, m) = Stat(en, mo, ed, Cardinality(A), co, cr)
            /\ Statistics(Q, m) = Stat(en, mo, ed, Cardinality(A) + 1, co, cr)
      BY <1>1, <1>2, <1>3, <2>1 DEF Statistics
    <2>3. Bump(row, "attestation") = Cols(Entities(P), Vocabulary(P), m, Edges(P), A \union {e}, Statistics(Q, m))
      BY <1>7, <2>2, BumpCols
    <2> QED
      BY <1>1, <1>2, <2>3 DEF Rowed
  <1> QED
    BY <1>30, <1>4, <1>6, <1>8, FoldedRows DEF Q

(* The earliest of a set and one more.                                     *)
LEMMA EarliestOfMore ==
    ASSUME NEW D \in SUBSET Ids, NEW e \in Ids, e \notin D
    PROVE  /\ D = {} \/ e < Earliest(D) => Earliest(D \union {e}) = e
           /\ D # {} /\ ~ (e < Earliest(D)) => Earliest(D \union {e}) = Earliest(D)
  <1>1. e \in Nat /\ D \in SUBSET Nat /\ D \union {e} \in SUBSET Ids
    BY IdNumbers
  <1>2. ASSUME D = {} \/ e < Earliest(D) PROVE Earliest(D \union {e}) = e
    <2>1. ASSUME NEW n \in D PROVE e <= n
      <3>1. n \in Nat /\ Earliest(D) \in Nat /\ Earliest(D) <= n
        BY <1>1, EarliestGives
      <3> QED
        BY <1>1, <1>2, <3>1
    <2>2. \A n \in D \union {e} : e <= n
      BY <1>1, <2>1
    <2> QED
      BY <1>1, <2>2, EarliestGives
  <1>3. ASSUME D # {}, ~ (e < Earliest(D)) PROVE Earliest(D \union {e}) = Earliest(D)
    <2>1. PICK k \in D : k = Earliest(D) /\ \A n \in D : k <= n
      BY <1>3, EarliestGives
    <2>2. k \in Nat /\ ~ (e < k)
      BY <1>1, <1>3, <2>1
    <2>3. k <= e
      BY <1>1, <2>2
    <2>4. k \in D \union {e} /\ \A n \in D \union {e} : k <= n
      BY <2>1, <2>3
    <2> QED
      BY <1>1, <2>1, <2>4, EarliestGives
  <1> QED
    BY <1>2, <1>3

LEMMA FoldVocabulary ==
    ASSUME NEW P \in SUBSET Ids, NEW e \in Ids, e \notin P, NEW m, NEW db, Event[e].kind = "vocabulary"
    PROVE  Apply(db, Folded(P, m), e) = Folded(P \union {e}, m)
  <1> DEFINE Q == P \union {e}
             w == Rowed(P, m)
             code == Event[e].code
             codes == {Event[d].code : d \in Of(P, "vocabulary")}
             D == Declarations(P, code)
             new == D = {} \/ e < Earliest(D)
  <1>1. /\ Entities(Q) = Entities(P) /\ Edges(Q) = Edges(P) /\ AllInG(Q) = AllInG(P)
        /\ AllCross(Q) = AllCross(P)
        /\ EntityIds(Q) = EntityIds(P)
    BY NoEntity
  <1>2. /\ Of(Q, "attestation") = Of(P, "attestation") /\ Of(Q, "edge") = Of(P, "edge")
        /\ Of(Q, "vocabulary") = Of(P, "vocabulary") \union {e}
        /\ Declarations(Q, code) = D \union {e}
        /\ \A c : c # code => Declarations(Q, c) = Declarations(P, c)
    BY DEF Of, Declarations
  <1>3. {Event[d].code : d \in Of(Q, "vocabulary")} = codes \union {code}
    BY <1>2
  <1>4. (code \in codes <=> D # {}) /\ D \in SUBSET Ids /\ e \notin D
    BY DEF Declarations, Of
  <1>5. DOMAIN Vocabulary(P) = codes /\ \A c \in codes : Vocabulary(P)[c] = Earliest(Declarations(P, c))
    BY DEF Vocabulary
  <1>6. Vocabulary(Q) = [c \in codes \union {code} |-> Earliest(Declarations(Q, c))]
    BY <1>3 DEF Vocabulary
  <1>7. /\ new => Earliest(Declarations(Q, code)) = e
        /\ ~ new => Earliest(Declarations(Q, code)) = Earliest(D)
    <2>1. /\ new => Earliest(D \union {e}) = e
          /\ ~ new => Earliest(D \union {e}) = Earliest(D)
      BY <1>4, EarliestOfMore
    <2> HIDE DEF new, D, Q, code
    <2> QED
      BY <1>2, <2>1
  <1>8. Apply(db, Folded(P, m), e) = ProjectVocabulary(w, e)
    BY ApplyRows DEF Apply
  <1>9. w.vocabulary = Vocabulary(P)
    BY ColsRead DEF Rowed
  <1>10. ProjectVocabulary(w, e) = IF new THEN [w EXCEPT !.vocabulary = Put(Vocabulary(P), code, e)] ELSE w
    BY <1>4, <1>5, <1>9 DEF ProjectVocabulary
  <1>11. D = Declarations(P, code)
    OBVIOUS
  <1>30. Q # {}
    OBVIOUS
  <1> HIDE DEF Q, w, codes, code, D, new
  <1>12. Vocabulary(Q) = IF new THEN Put(Vocabulary(P), code, e) ELSE Vocabulary(P)
    <2>1. CASE new
      <3>1. \A c \in codes \union {code} :
              Earliest(Declarations(Q, c)) = IF c = code THEN e ELSE Vocabulary(P)[c]
        BY <1>2, <1>5, <1>7, <2>1
      <3> QED
        BY <1>5, <1>6, <2>1, <3>1 DEF Put
    <2>2. CASE ~ new
      <3>1. codes \union {code} = codes
        BY <1>4, <2>2 DEF new
      <3>2. \A c \in codes : Earliest(Declarations(Q, c)) = Vocabulary(P)[c]
        BY <1>2, <1>5, <1>7, <1>11, <2>2
      <3>3. Vocabulary(P) = [c \in codes |-> Vocabulary(P)[c]]
        BY DEF Vocabulary, codes
      <3> QED
        BY <1>6, <2>2, <3>1, <3>2, <3>3
    <2> QED
      BY <2>1, <2>2
  <1>13. ASSUME NEW V PROVE [w EXCEPT !.vocabulary = V] =
                              Cols(Entities(P), V, m, Edges(P), Of(P, "attestation"), Statistics(P, m))
    BY DEF Rowed, Cols, w
  <1>14. Statistics(Q, m) = Statistics(P, m)
    BY <1>1, <1>2 DEF Statistics
  <1>15. ProjectVocabulary(w, e) = Rowed(Q, m)
    <2>1. CASE new
      BY <1>1, <1>2, <1>10, <1>12, <1>13, <1>14, <2>1 DEF Rowed
    <2>2. CASE ~ new
      BY <1>1, <1>2, <1>10, <1>12, <1>14, <2>2 DEF Rowed, w
    <2> QED
      BY <2>1, <2>2
  <1> QED
    BY <1>30, <1>8, <1>15, FoldedRows DEF Q

(* The moments after e, which db shows with the rest of its chain.         *)
Moved(db, m, e) ==
  IF ChainRoot(db, e) = Held THEN m
  ELSE Put(m, ChainRoot(db, e), MomentColumns(ChainHead(db, ChainRoot(db, e))))

LEMMA FoldMoment ==
    ASSUME NEW P, NEW e, e \notin P, NEW m, IsFiniteSet(DOMAIN m), NEW db, Event[e].kind = "moment"
    PROVE  Apply(db, Folded(P, m), e) = Folded(P \union {e}, Moved(db, m, e))
  <1> DEFINE Q == P \union {e}
             w == Rowed(P, m)
             root == ChainRoot(db, e)
             n == Moved(db, m, e)
  <1>1. /\ Entities(Q) = Entities(P) /\ Edges(Q) = Edges(P) /\ AllInG(Q) = AllInG(P)
        /\ AllCross(Q) = AllCross(P) /\ Vocabulary(Q) = Vocabulary(P)
        /\ EntityIds(Q) = EntityIds(P)
    BY NoEntity, NoVocabulary
  <1>2. Of(Q, "attestation") = Of(P, "attestation") /\ Of(Q, "edge") = Of(P, "edge")
    BY DEF Of, Declarations
  <1>30. Q # {}
    OBVIOUS
  <1> HIDE DEF Q
  <1>3. Apply(db, Folded(P, m), e) = ProjectMoment(db, w, e)
    BY ApplyRows DEF Apply
  <1>4. w.moments = m
    BY ColsRead DEF Rowed
  <1>5. ASSUME NEW x PROVE [w EXCEPT !.moments = x] =
          Cols(Entities(P), Vocabulary(P), x, Edges(P), Of(P, "attestation"), Statistics(P, m))
    BY DEF Rowed, Cols
  <1>6. CASE root = Held
    <2>1. n = m /\ ProjectMoment(db, w, e) = w
      BY <1>6 DEF ProjectMoment, Moved
    <2>2. w = Rowed(Q, m)
      BY <1>1, <1>2 DEF Rowed, Statistics
    <2> QED
      BY <1>30, <1>3, <2>1, <2>2, FoldedRows DEF Q
  <1>7. CASE root # Held
    <2>1. n = Put(m, root, MomentColumns(ChainHead(db, root)))
      BY <1>7 DEF Moved
    <2>2. PICK row : /\ row = [w EXCEPT !.moments = n]
                     /\ ProjectMoment(db, w, e) = IF root \in DOMAIN m THEN row ELSE Bump(row, "moment")
      BY <1>4, <1>7, <2>1 DEF ProjectMoment, ProjectMomentAt
    <2>3. DOMAIN n = DOMAIN m \union {root}
      BY <2>1 DEF Put
    <2>4. Cardinality(DOMAIN n) = IF root \in DOMAIN m THEN Cardinality(DOMAIN m)
                                  ELSE Cardinality(DOMAIN m) + 1
      BY <2>3, FS_AddElement
    <2> HIDE DEF w, n, root
    <2>5. ProjectMoment(db, w, e) = Rowed(Q, n)
      <3>1. CASE root \in DOMAIN m
        BY <1>1, <1>2, <1>5, <2>2, <2>4, <3>1 DEF Rowed, Statistics
      <3>2. CASE root \notin DOMAIN m
        BY <1>1, <1>2, <1>5, <2>2, <2>4, <3>2, BumpCols DEF Rowed, Statistics
      <3> QED
        BY <3>1, <3>2
    <2> QED
      BY <1>30, <1>3, <2>5, FoldedRows DEF Q, n
  <1> QED
    BY <1>6, <1>7
-----------------------------------------------------------------------------
(* The edges J, of which G are in the graph and X cross writers.           *)
Standing(J, G, X) == [ed \in J |-> [in_g |-> ed \in G, cross |-> ed \in X]]

LEMMA EdgesStand ==
    ASSUME NEW P
    PROVE  /\ Edges(P) = Standing(Of(P, "edge"), AllInG(P), AllCross(P))
           /\ AllInG(P) \subseteq Of(P, "edge") /\ AllCross(P) \subseteq AllInG(P)
  <1>1. AllInG(P) \subseteq Of(P, "edge") /\ AllCross(P) \subseteq AllInG(P)
    BY DEF AllInG, AllCross, Cross
  <1>2. ASSUME NEW ed \in Of(P, "edge")
        PROVE  InG(P, ed) = (ed \in AllInG(P)) /\ Cross(P, ed) = (ed \in AllCross(P))
    BY DEF AllInG, AllCross, InG, Cross
  <1>3. Edges(P) = Standing(Of(P, "edge"), AllInG(P), AllCross(P))
    BY <1>2 DEF Edges, Standing
  <1> QED
    BY <1>1, <1>3

(* Counting by what joined and left is counting what is there.             *)
LEMMA CountChange ==
    ASSUME NEW X, IsFiniteSet(X), NEW Y, IsFiniteSet(Y)
    PROVE  Cardinality(Y) = Cardinality(X) + Cardinality(Y \ X) - Cardinality(X \ Y)
  <1>1. /\ Cardinality(Y \ X) = Cardinality(Y) - Cardinality(Y \cap X)
        /\ Cardinality(X \ Y) = Cardinality(X) - Cardinality(X \cap Y)
    BY FS_Difference
  <1>2. X \cap Y = Y \cap X /\ IsFiniteSet(X \cap Y)
    BY FS_Subset
  <1>3. Cardinality(X) \in Nat /\ Cardinality(Y) \in Nat /\ Cardinality(X \cap Y) \in Nat
    BY <1>2, FS_CardinalityType
  <1>4. PICK x \in Nat, y \in Nat, b \in Nat :
          x = Cardinality(X) /\ y = Cardinality(Y) /\ b = Cardinality(X \cap Y)
    BY <1>3
  <1>5. Cardinality(Y \ X) = y - b /\ Cardinality(X \ Y) = x - b
    BY <1>1, <1>2, <1>4
  <1>6. y = x + (y - b) - (x - b)
    OBVIOUS
  <1> QED
    BY <1>4, <1>5, <1>6

(* refresh_edge over `eds`, when the rest need not change.                 *)
LEMMA RefreshCounts ==
    ASSUME NEW J, IsFiniteSet(J), NEW G \in SUBSET J, NEW X \in SUBSET G,
           NEW H \in SUBSET J, NEW Y \in SUBSET H, G \subseteq H, NEW eds \in SUBSET J,
           NEW E, NEW V, NEW M, NEW A, NEW en, NEW mo, NEW ec, NEW at, NEW v,
           v = Cols(E, V, M, Standing(J, G, X), A, Stat(en, mo, ec, at, Cardinality(G), Cardinality(X))),
           \A ed \in eds : ed \in H <=> Known(v, ed),
           \A ed \in eds : ed \in H => (ed \in Y <=> Crosses(v, ed)),
           \A ed \in J \ eds : (ed \in H <=> ed \in G) /\ (ed \in Y <=> ed \in X)
    PROVE  RefreshEdges(v, eds) =
             Cols(E, V, M, Standing(J, H, Y), A, Stat(en, mo, ec, at, Cardinality(H), Cardinality(Y)))
  <1> DEFINE known == {ed \in eds : Known(v, ed)}
             joined == {ed \in known : ~ v.edges[ed].in_g}
             risen == {ed \in known : Crosses(v, ed) /\ ~ Crossed(v, ed)}
             fallen == {ed \in known : Crossed(v, ed) /\ ~ Crosses(v, ed)}
             D == [ed \in DOMAIN v.edges |->
                     IF ed \in known THEN [in_g |-> TRUE, cross |-> Crosses(v, ed)] ELSE v.edges[ed]]
  <1>1. v.edges = Standing(J, G, X)
    BY ColsRead
  <1>2. /\ DOMAIN v.edges = J
        /\ \A ed \in J : v.edges[ed] = [in_g |-> ed \in G, cross |-> ed \in X]
        /\ \A ed \in J : (v.edges[ed].in_g <=> ed \in G) /\ (Crossed(v, ed) <=> ed \in X)
    <2>1. DOMAIN v.edges = J /\ \A ed \in J : v.edges[ed] = [in_g |-> ed \in G, cross |-> ed \in X]
      BY <1>1 DEF Standing
    <2>2. ASSUME NEW ed \in J PROVE v.edges[ed].in_g = (ed \in G) /\ v.edges[ed].cross = (ed \in X)
      <3>1. v.edges[ed] = [in_g |-> ed \in G, cross |-> ed \in X]
        BY <2>1
      <3> QED
        BY <3>1
    <2>3. ASSUME NEW ed \in J
          PROVE  (v.edges[ed].in_g <=> ed \in G) /\ (Crossed(v, ed) <=> ed \in X)
      BY <2>2 DEF Crossed
    <2> QED
      BY <2>1, <2>3
  <1>3. known = H \cap eds
    OBVIOUS
  <1>4. joined = H \ G
    BY <1>2, <1>3
  <1>5. risen = Y \ X /\ fallen = X \ Y
    BY <1>2, <1>3
  <1>6. D = Standing(J, H, Y)
    <2>1. ASSUME NEW ed \in J
          PROVE  (IF ed \in known THEN [in_g |-> TRUE, cross |-> Crosses(v, ed)] ELSE v.edges[ed])
                 = [in_g |-> ed \in H, cross |-> ed \in Y]
      <3>1. CASE ed \in known
        <4>1. (ed \in H) = TRUE /\ (ed \in Y) = Crosses(v, ed)
          BY <1>3, <3>1 DEF Crosses
        <4> QED
          BY <3>1, <4>1
      <3>2. CASE ed \notin known
        <4>1. (ed \in H) = (ed \in G) /\ (ed \in Y) = (ed \in X)
          BY <1>3, <3>2
        <4> QED
          BY <1>2, <3>2, <4>1
      <3> QED
        BY <3>1, <3>2
    <2> HIDE DEF known
    <2> QED
      BY <1>2, <2>1 DEF Standing
  <1>7. IsFiniteSet(G) /\ IsFiniteSet(H) /\ IsFiniteSet(X) /\ IsFiniteSet(Y)
    BY FS_Subset
  <1>8. Cardinality(Y) = Cardinality(X) + Cardinality(risen) - Cardinality(fallen)
    BY <1>5, <1>7, CountChange
  <1>9. Cardinality(H) = Cardinality(G) + Cardinality(joined)
    <2>1. G \ H = {} /\ Cardinality({}) = 0
      BY FS_EmptySet
    <2>2. Cardinality(H) = Cardinality(G) + Cardinality(H \ G) - 0
      BY <1>7, <2>1, CountChange
    <2>3. Cardinality(G) \in Nat /\ Cardinality(H \ G) \in Nat
      BY <1>7, FS_CardinalityType, FS_Subset
    <2>4. PICK g \in Nat, d \in Nat : g = Cardinality(G) /\ d = Cardinality(H \ G)
      BY <2>3
    <2>5. g + d - 0 = g + d
      OBVIOUS
    <2> QED
      BY <1>4, <2>2, <2>4, <2>5
  <1>10. PICK z, j, k : /\ z = D /\ j = v.stats.contested + Cardinality(joined)
                        /\ k = v.stats.cross + Cardinality(risen) - Cardinality(fallen)
                        /\ RefreshEdges(v, eds) =
                              [v EXCEPT !.edges = z, !.stats.contested = j, !.stats.cross = k]
    BY DEF RefreshEdges
  <1> HIDE DEF known, joined, risen, fallen, D
  <1>11. v.stats.contested = Cardinality(G) /\ v.stats.cross = Cardinality(X)
    BY DEF Cols, Stat
  <1>12. z = Standing(J, H, Y) /\ j = Cardinality(H) /\ k = Cardinality(Y)
    BY <1>6, <1>8, <1>9, <1>10, <1>11
  <1>13. [v EXCEPT !.edges = z, !.stats.contested = j, !.stats.cross = k] =
           Cols(E, V, M, z, A, Stat(en, mo, ec, at, j, k))
    <2>1. PICK o, g, x : o = Standing(J, G, X) /\ g = Cardinality(G) /\ x = Cardinality(X)
      OBVIOUS
    <2>2. v = Cols(E, V, M, o, A, Stat(en, mo, ec, at, g, x))
      BY <2>1
    <2>3. v.stats = Stat(en, mo, ec, at, g, x)
      BY <2>2, ColsRead
    <2>4. [[v.stats EXCEPT !.contested = j] EXCEPT !.cross = k] = Stat(en, mo, ec, at, j, k)
      <3>1. PICK a : a = [v.stats EXCEPT !.contested = j]
        OBVIOUS
      <3>2. a = Stat(en, mo, ec, at, j, x)
        BY <2>3, <3>1 DEF Stat
      <3>3. [a EXCEPT !.cross = k] = Stat(en, mo, ec, at, j, k)
        BY <3>2 DEF Stat
      <3> QED
        BY <3>1, <3>3
    <2>5. PICK st : st = [[v.stats EXCEPT !.contested = j] EXCEPT !.cross = k]
      OBVIOUS
    <2>6. [v EXCEPT !.edges = z, !.stats.contested = j, !.stats.cross = k] =
            [[v EXCEPT !.edges = z] EXCEPT !.stats = st]
      BY <2>2, <2>5 DEF Cols
    <2>7. [[v EXCEPT !.edges = z] EXCEPT !.stats = st] = Cols(E, V, M, z, A, st)
      <3>1. PICK s : s = Stat(en, mo, ec, at, g, x)
        OBVIOUS
      <3>2. PICK u : u = [v EXCEPT !.edges = z]
        OBVIOUS
      <3>3. u = Cols(E, V, M, z, A, s)
        BY <2>2, <3>1, <3>2 DEF Cols
      <3>4. [u EXCEPT !.stats = st] = Cols(E, V, M, z, A, st)
        BY <3>3 DEF Cols
      <3> QED
        BY <3>2, <3>4
    <2> QED
      BY <2>4, <2>5, <2>6, <2>7
  <1> QED
    BY <1>10, <1>12, <1>13

LEMMA EntitiesGive ==
    ASSUME NEW P
    PROVE  /\ DOMAIN Entities(P) = EntityIds(P)
           /\ \A x : x \in EntityIds(P) <=> Births(P, x) # {}
           /\ \A x \in EntityIds(P) : Entities(P)[x] = Earliest(Births(P, x))
  <1>1. DOMAIN Entities(P) = EntityIds(P) /\ \A x \in EntityIds(P) : Entities(P)[x] = Earliest(Births(P, x))
    BY DEF Entities, EntityIds
  <1>2. \A x : x \in EntityIds(P) <=> Births(P, x) # {}
    BY DEF EntityIds, Births, Of
  <1> QED
    BY <1>1, <1>2

(* What refresh_edge reads of an edge is what the events say of it.        *)
LEMMA KnownIsInG ==
    ASSUME NEW P, NEW v, v.entities = Entities(P), NEW ed
    PROVE  /\ Known(v, ed) <=> InG(P, ed)
           /\ InG(P, ed) => (Crosses(v, ed) <=> Cross(P, ed))
  <1>1. Known(v, ed) <=> InG(P, ed)
    BY EntitiesGive DEF Known, InG
  <1>2. ASSUME InG(P, ed) PROVE Crosses(v, ed) <=> Cross(P, ed)
    <2>1. Event[ed].src \in EntityIds(P) /\ Event[ed].dst \in EntityIds(P)
      BY <1>2, EntitiesGive DEF InG
    <2>2. /\ v.entities[Event[ed].src] = Earliest(Births(P, Event[ed].src))
          /\ v.entities[Event[ed].dst] = Earliest(Births(P, Event[ed].dst))
      BY <2>1, EntitiesGive
    <2> QED
      BY <1>2, <2>2 DEF Crosses, Cross, Survivor
  <1> QED
    BY <1>1, <1>2

LEMMA FoldEdge ==
    ASSUME NEW P, IsFiniteSet(P), NEW e, e \notin P, NEW m, NEW db, Event[e].kind = "edge"
    PROVE  Apply(db, Folded(P, m), e) = Folded(P \union {e}, m)
  <1> DEFINE Q == P \union {e}
             w == Rowed(P, m)
             J == Of(P, "edge")
             K == J \union {e}
             G == AllInG(P)
             X == AllCross(P)
             H == AllInG(Q)
             Y == AllCross(Q)
             none == [in_g |-> FALSE, cross |-> FALSE]
             A == Of(P, "attestation")
  <1>1. /\ Entities(Q) = Entities(P) /\ EntityIds(Q) = EntityIds(P) /\ Vocabulary(Q) = Vocabulary(P)
        /\ \A ed : InG(Q, ed) = InG(P, ed) /\ Cross(Q, ed) = Cross(P, ed)
    BY NoEntity, NoVocabulary
  <1>2. Of(Q, "edge") = K /\ Of(Q, "attestation") = A /\ e \notin J /\ e \in K
    BY DEF Of
  <1>3. Q # {}
    OBVIOUS
  <1> HIDE DEF Q
  <1>4. IsFiniteSet(J) /\ IsFiniteSet(K) /\ Cardinality(K) = Cardinality(J) + 1
    BY <1>2, Finite, FS_AddElement
  <1>5. Edges(P) = Standing(J, G, X) /\ G \subseteq J /\ X \subseteq G
    BY EdgesStand
  <1>6. Edges(Q) = Standing(K, H, Y) /\ H \subseteq K /\ Y \subseteq H
    BY <1>2, EdgesStand
  <1>7. G \subseteq H /\ \A ed \in J : (ed \in H <=> ed \in G) /\ (ed \in Y <=> ed \in X)
    BY <1>1, <1>2 DEF AllInG, AllCross
  <1>8. (e \in H <=> InG(P, e)) /\ (e \in Y <=> Cross(P, e))
    BY <1>1, <1>2 DEF AllInG, AllCross
  <1>9. Apply(db, Folded(P, m), e) = ProjectEdge(w, e)
    BY ApplyRows DEF Apply
  <1>10. w.edges = Standing(J, G, X) /\ DOMAIN w.edges = J
    BY <1>5, ColsRead DEF Rowed, Standing
  <1> HIDE DEF w, J, K, G, X, H, Y, A
  <1>11. Put(w.edges, e, none) = Standing(K, G, X)
    <2>1. ASSUME NEW ed \in K PROVE (IF ed = e THEN none ELSE w.edges[ed]) = [in_g |-> ed \in G, cross |-> ed \in X]
      <3>1. CASE ed = e
        <4>1. (ed \in G) = FALSE /\ (ed \in X) = FALSE
          BY <1>2, <1>5, <3>1
        <4> QED
          BY <3>1, <4>1
      <3>2. CASE ed # e
        BY <1>10, <3>2 DEF Standing, K
      <3> QED
        BY <3>1, <3>2
    <2> QED
      BY <1>10, <2>1 DEF Put, Standing, K
  <1>12. PICK z, row : /\ z = Put(w.edges, e, none) /\ row = [w EXCEPT !.edges = z]
                       /\ ProjectEdge(w, e) = RefreshEdges(Bump(row, "edge"), {e})
    BY <1>2, <1>10 DEF ProjectEdge
  <1>13. row = Cols(Entities(P), Vocabulary(P), m, z, A, Statistics(P, m))
    BY <1>12 DEF Rowed, Cols, w, A
  <1>14. PICK en, mo, at :
           /\ Statistics(P, m) = Stat(en, mo, Cardinality(J), at, Cardinality(G), Cardinality(X))
           /\ Statistics(Q, m) = Stat(en, mo, Cardinality(K), at, Cardinality(H), Cardinality(Y))
    BY <1>1, <1>2 DEF Statistics, J, G, X, H, Y, A
  <1>15. PICK v : v = Bump(row, "edge")
    OBVIOUS
  <1>16. v = Cols(Entities(P), Vocabulary(P), m, Standing(K, G, X), A,
                  Stat(en, mo, Cardinality(K), at, Cardinality(G), Cardinality(X)))
    BY <1>4, <1>11, <1>12, <1>13, <1>14, <1>15, BumpCols
  <1>17. v.entities = Entities(P)
    BY <1>16, ColsRead
  <1>18. /\ e \in H <=> Known(v, e)
         /\ e \in H => (e \in Y <=> Crosses(v, e))
    BY <1>8, <1>17, KnownIsInG
  <1>19. /\ G \in SUBSET K /\ X \in SUBSET G /\ H \in SUBSET K /\ Y \in SUBSET H /\ {e} \in SUBSET K
         /\ K \ {e} = J
    BY <1>2, <1>5, <1>6 DEF K
  <1>20. RefreshEdges(v, {e}) = Cols(Entities(P), Vocabulary(P), m, Standing(K, H, Y), A,
                  Stat(en, mo, Cardinality(K), at, Cardinality(H), Cardinality(Y)))
    BY <1>4, <1>7, <1>16, <1>18, <1>19, RefreshCounts
  <1>21. RefreshEdges(v, {e}) = Rowed(Q, m)
    BY <1>1, <1>2, <1>6, <1>14, <1>20 DEF Rowed
  <1> QED
    BY <1>3, <1>9, <1>12, <1>15, <1>21, FoldedRows DEF Q

(* A birth leaves the edges of other entities alone, and takes none away.  *)
LEMMA OneBirth ==
    ASSUME NEW P, NEW e, e \notin P, Event[e].kind = "entity", NEW ed
    PROVE  /\ Event[e].entity # Event[ed].src /\ Event[e].entity # Event[ed].dst =>
                InG(P \union {e}, ed) = InG(P, ed) /\ Cross(P \union {e}, ed) = Cross(P, ed)
           /\ InG(P, ed) => InG(P \union {e}, ed)
  <1> DEFINE Q == P \union {e}
             x == Event[e].entity
  <1>1. \A y : y # x => Births(Q, y) = Births(P, y)
    BY DEF Births
  <1>2. \A y : Births(P, y) \subseteq Births(Q, y)
    BY DEF Births
  <1> HIDE DEF Q, x
  <1>3. ASSUME x # Event[ed].src, x # Event[ed].dst
        PROVE  InG(Q, ed) = InG(P, ed) /\ Cross(Q, ed) = Cross(P, ed)
    <2>1. Births(Q, Event[ed].src) = Births(P, Event[ed].src) /\ Births(Q, Event[ed].dst) = Births(P, Event[ed].dst)
      BY <1>1, <1>3
    <2> QED
      BY <2>1 DEF InG, Cross, Survivor
  <1>4. InG(P, ed) => InG(Q, ed)
    BY <1>2 DEF InG
  <1> QED
    BY <1>3, <1>4 DEF Q, x

(* A later claim to an entity that has a birth changes nothing.            *)
LEMMA LateBirth ==
    ASSUME NEW P \in SUBSET Ids, NEW e \in Ids, e \notin P, Event[e].kind = "entity",
           NEW x, x = Event[e].entity, Births(P, x) # {}, ~ (e < Earliest(Births(P, x)))
    PROVE  /\ Entities(P \union {e}) = Entities(P) /\ EntityIds(P \union {e}) = EntityIds(P)
           /\ Edges(P \union {e}) = Edges(P)
           /\ AllInG(P \union {e}) = AllInG(P) /\ AllCross(P \union {e}) = AllCross(P)
  <1> DEFINE Q == P \union {e}
  <1>0. Births(Q, x) = Births(P, x) \union {e} /\ \A y : y # x => Births(Q, y) = Births(P, y)
    BY DEF Births
  <1>1. EntityIds(Q) = EntityIds(P) \union {x} /\ Of(Q, "edge") = Of(P, "edge")
    BY DEF EntityIds, Of
  <1>2. Births(P, x) \in SUBSET Ids /\ e \notin Births(P, x)
    BY DEF Births
  <1>3. Earliest(Births(P, x) \union {e}) = Earliest(Births(P, x))
    BY <1>2, EarliestOfMore
  <1> HIDE DEF Q
  <1>4. \A y : Earliest(Births(Q, y)) = Earliest(Births(P, y)) /\ (Births(Q, y) = {} <=> Births(P, y) = {})
    BY <1>0, <1>3
  <1>5. EntityIds(Q) = EntityIds(P)
    BY <1>1, EntitiesGive
  <1>6. Entities(Q) = Entities(P)
    BY <1>4, <1>5 DEF Entities
  <1>7. \A ed : InG(Q, ed) = InG(P, ed)
    BY <1>4 DEF InG
  <1>8. \A ed : Cross(Q, ed) = Cross(P, ed)
    BY <1>4, <1>7 DEF Cross, Survivor
  <1>9. AllInG(Q) = AllInG(P) /\ AllCross(Q) = AllCross(P)
    BY <1>1, <1>7, <1>8 DEF AllInG, AllCross
  <1>10. Edges(Q) = Edges(P)
    BY <1>1, <1>7, <1>8 DEF Edges
  <1> QED
    BY <1>5, <1>6, <1>9, <1>10 DEF Q

LEMMA FoldEntity ==
    ASSUME NEW P \in SUBSET Ids, IsFiniteSet(P), NEW e \in Ids, e \notin P, NEW m, NEW db,
           Event[e].kind = "entity"
    PROVE  Apply(db, Folded(P, m), e) = Folded(P \union {e}, m)
  <1> DEFINE Q == P \union {e}
             w == Rowed(P, m)
             x == Event[e].entity
             B == Births(P, x)
             J == Of(P, "edge")
             G == AllInG(P)
             X == AllCross(P)
             H == AllInG(Q)
             Y == AllCross(Q)
             A == Of(P, "attestation")
             eds == {ed \in J : x \in {Event[ed].src, Event[ed].dst}}
  <1>0. Births(Q, x) = B \union {e} /\ \A y : y # x => Births(Q, y) = Births(P, y)
    BY DEF Births
  <1>1. EntityIds(Q) = EntityIds(P) \union {x} /\ Of(Q, "edge") = J /\ Of(Q, "attestation") = A
    BY DEF EntityIds, Of
  <1>10. \A ed : /\ x # Event[ed].src /\ x # Event[ed].dst =>
                      InG(Q, ed) = InG(P, ed) /\ Cross(Q, ed) = Cross(P, ed)
                 /\ InG(P, ed) => InG(Q, ed)
    BY OneBirth
  <1>2. Vocabulary(Q) = Vocabulary(P)
    BY NoVocabulary
  <1>3. B \in SUBSET Ids /\ e \notin B
    BY DEF Births
  <1>4. Q # {}
    OBVIOUS
  <1>5. Apply(db, Folded(P, m), e) = ProjectEntity(w, e)
    BY ApplyRows DEF Apply
  <1>6. w.entities = Entities(P) /\ w.edges = Edges(P) /\ DOMAIN w.edges = J
    BY ColsRead DEF Rowed, Edges
  <1>7. /\ x \in DOMAIN w.entities <=> B # {}
        /\ B # {} => w.entities[x] = Earliest(B)
    BY <1>6, EntitiesGive
  <1>8. CASE B # {} /\ ~ (e < Earliest(B))
    <2>1. /\ Entities(Q) = Entities(P) /\ EntityIds(Q) = EntityIds(P) /\ Edges(Q) = Edges(P)
          /\ AllInG(Q) = AllInG(P) /\ AllCross(Q) = AllCross(P)
      BY <1>8, LateBirth
    <2> HIDE DEF Q
    <2>2. Rowed(Q, m) = w
      BY <1>1, <1>2, <2>1 DEF Rowed, Statistics
    <2>3. ProjectEntity(w, e) = w
      BY <1>7, <1>8 DEF ProjectEntity
    <2> QED
      BY <1>4, <1>5, <2>2, <2>3, FoldedRows DEF Q
  <1>9. CASE B = {} \/ e < Earliest(B)
    <2>1. Earliest(Births(Q, x)) = e
      BY <1>0, <1>3, <1>9, EarliestOfMore
    <2> HIDE DEF Q
    <2>2. Entities(Q) = Put(w.entities, x, e)
      <3>1. DOMAIN w.entities = EntityIds(P) /\ \A y \in EntityIds(P) : w.entities[y] = Earliest(Births(P, y))
        BY <1>6, EntitiesGive
      <3>2. \A y \in EntityIds(P) \union {x} :
              Earliest(Births(Q, y)) = IF y = x THEN e ELSE w.entities[y]
        BY <1>0, <1>1, <2>1, <3>1
      <3> HIDE DEF x, w
      <3> QED
        BY <1>1, <3>1, <3>2 DEF Entities, Put
    <2>3. Edges(P) = Standing(J, G, X) /\ G \in SUBSET J /\ X \in SUBSET G
      BY EdgesStand
    <2>4. Edges(Q) = Standing(J, H, Y) /\ H \in SUBSET J /\ Y \in SUBSET H
      BY <1>1, EdgesStand
    <2>5. G \subseteq H /\ \A ed \in J \ eds : (ed \in H <=> ed \in G) /\ (ed \in Y <=> ed \in X)
      BY <1>1, <1>10 DEF AllInG, AllCross
    <2>6. \A ed \in J : (ed \in H <=> InG(Q, ed)) /\ (ed \in Y <=> Cross(Q, ed))
      BY <1>1 DEF AllInG, AllCross
    <2>7. IsFiniteSet(J) /\ IsFiniteSet(EntityIds(P))
      BY Finite
    <2>8. PICK mo, ec, at :
            /\ Statistics(P, m) = Stat(Cardinality(EntityIds(P)), mo, ec, at, Cardinality(G), Cardinality(X))
            /\ Statistics(Q, m) = Stat(Cardinality(EntityIds(Q)), mo, ec, at, Cardinality(H), Cardinality(Y))
      BY <1>1 DEF Statistics
    <2>9. PICK v : /\ v = IF B = {} THEN Bump([w EXCEPT !.entities = Put(w.entities, x, e)], "entity")
                          ELSE [w EXCEPT !.entities = Put(w.entities, x, e)]
                   /\ ProjectEntity(w, e) = RefreshIncidentEdges(v, x)
      <3> HIDE DEF x, w, B
      <3>1. x = Event[e].entity
        BY DEF x
      <3>2. CASE B = {}
        BY <1>7, <3>1, <3>2 DEF ProjectEntity
      <3>3. CASE B # {}
        BY <1>7, <1>9, <3>1, <3>3 DEF ProjectEntity
      <3> QED
        BY <3>2, <3>3
    <2>10. ASSUME NEW E PROVE [w EXCEPT !.entities = E] =
             Cols(E, Vocabulary(P), m, Edges(P), A, Statistics(P, m))
      BY DEF Rowed, Cols
    <2>11. v = Cols(Entities(Q), Vocabulary(P), m, Standing(J, G, X), A,
                    Stat(Cardinality(EntityIds(Q)), mo, ec, at, Cardinality(G), Cardinality(X)))
      <3>1. PICK row : row = [w EXCEPT !.entities = Put(w.entities, x, e)]
        OBVIOUS
      <3>2. row = Cols(Entities(Q), Vocabulary(P), m, Standing(J, G, X), A,
                    Stat(Cardinality(EntityIds(P)), mo, ec, at, Cardinality(G), Cardinality(X)))
        <4> HIDE DEF w, x, A, J, G, X
        <4> QED
          BY <2>2, <2>3, <2>8, <2>10, <3>1
      <3>3. x \in EntityIds(P) <=> B # {}
        BY EntitiesGive
      <3>4. Cardinality(EntityIds(Q)) = IF B = {} THEN Cardinality(EntityIds(P)) + 1 ELSE Cardinality(EntityIds(P))
        <4>1. CASE B = {}
          <5>1. x \notin EntityIds(P)
            BY <3>3, <4>1
          <5>2. Cardinality(EntityIds(P) \union {x}) = Cardinality(EntityIds(P)) + 1
            BY <2>7, <5>1, FS_AddElement
          <5> QED
            BY <1>1, <4>1, <5>2
        <4>2. CASE B # {}
          <5>1. EntityIds(Q) = EntityIds(P)
            BY <1>1, <3>3, <4>2
          <5> QED
            BY <4>2, <5>1
        <4> QED
          BY <4>1, <4>2
      <3>5. v = IF B = {} THEN Bump(row, "entity") ELSE row
        BY <2>9, <3>1
      <3> HIDE DEF w, x, A, J, G, X, B
      <3>6. CASE B = {}
        BY <3>2, <3>4, <3>5, <3>6, BumpCols
      <3>7. CASE B # {}
        BY <3>2, <3>4, <3>5, <3>7
      <3> QED
        BY <3>6, <3>7
    <2>12. v.entities = Entities(Q) /\ v.edges = Standing(J, G, X)
      BY <2>11, ColsRead
    <2>13. Incident(v, x) = eds /\ eds \in SUBSET J
      BY <2>12 DEF Incident, Standing
    <2>14. \A ed : (Known(v, ed) <=> InG(Q, ed)) /\ (InG(Q, ed) => (Crosses(v, ed) <=> Cross(Q, ed)))
      BY <2>12, KnownIsInG
    <2>15. /\ \A ed \in eds : ed \in H <=> Known(v, ed)
           /\ \A ed \in eds : ed \in H => (ed \in Y <=> Crosses(v, ed))
      BY <2>6, <2>14
    <2> HIDE DEF w, x, A, J, G, X, H, Y, B, eds
    <2>16. RefreshEdges(v, eds) = Cols(Entities(Q), Vocabulary(P), m, Standing(J, H, Y), A,
                    Stat(Cardinality(EntityIds(Q)), mo, ec, at, Cardinality(H), Cardinality(Y)))
      BY <2>3, <2>4, <2>5, <2>7, <2>11, <2>13, <2>15, RefreshCounts
    <2>17. RefreshEdges(v, eds) = Rowed(Q, m)
      BY <1>1, <1>2, <2>4, <2>8, <2>16 DEF Rowed
    <2> QED
      BY <1>4, <1>5, <2>9, <2>13, <2>17, FoldedRows DEF RefreshIncidentEdges, Q
  <1> QED
    BY <1>8, <1>9

(* An event that is no moment, folded.                                     *)
LEMMA FoldOther ==
    ASSUME NEW P \in SUBSET Ids, IsFiniteSet(P), NEW e \in Ids, e \notin P, NEW m, NEW db, ~ IsMoment(e)
    PROVE  Apply(db, Folded(P, m), e) = Folded(P \union {e}, m)
  <1>1. Event[e].kind \in {"entity", "edge", "attestation", "vocabulary"}
    BY KindAssumption DEF Kinds, IsMoment
  <1> QED
    BY <1>1, FoldEntity, FoldEdge, FoldAttestation, FoldVocabulary
-----------------------------------------------------------------------------
(***************************************************************************)
(* The live fold: events one at a time, each against what came before it.  *)
(***************************************************************************)
LEMMA RootsAre ==
    ASSUME MomentsCorrectMoments, NEW S \in SUBSET Ids
    PROVE  \A r : r \in Roots(S) <=> r \in S /\ IsMoment(r) /\ Parent(r) = None
  BY DEF MomentsCorrectMoments, Roots, Of, IsMoment

LEMMA RootsFinite ==
    ASSUME NEW S, IsFiniteSet(S)
    PROVE  IsFiniteSet(Roots(S)) /\ DOMAIN MomentRows(S) = Roots(S)
  <1>1. Roots(S) \in SUBSET S
    BY DEF Roots, Of
  <1>2. IsFiniteSet(Roots(S))
    BY <1>1, FS_Subset
  <1> QED
    BY <1>2 DEF MomentRows

(* An event that is no moment leaves every chain as it was.                *)
LEMMA RowsStay ==
    ASSUME MomentsCorrectMoments, NEW S \in SUBSET Ids, Bounded(S), NEW e \in Ids, e \notin S,
           ~ IsMoment(e)
    PROVE  MomentRows(S \union {e}) = MomentRows(S) /\ Bounded(S \union {e})
  <1> DEFINE T == S \union {e}
  <1>1. T \in SUBSET Ids
    OBVIOUS
  <1>2. Roots(T) = Roots(S)
    BY <1>1, RootsAre
  <1>3. \A r \in Roots(S) : ChainHead(T, r) = ChainHead(S, r)
    BY <1>2, OtherHeadsStay
  <1> HIDE DEF T
  <1>4. MomentRows(T) = MomentRows(S)
    BY <1>2, <1>3 DEF MomentRows
  <1>5. Bounded(T)
    BY <1>2, <1>3 DEF Bounded
  <1> QED
    BY <1>4, <1>5 DEF T

(* A moment that is not refused moves the row of its chain, and no other;  *)
(* a moment that is held moves none.                                       *)
LEMMA RowsMove ==
    ASSUME MomentsCorrectMoments, NEW S \in SUBSET Ids, Bounded(S), NEW e \in Ids, e \notin S,
           IsMoment(e), ~ Corrupt(S \union {e}, e)
    PROVE  Moved(S \union {e}, MomentRows(S), e) = MomentRows(S \union {e}) /\ Bounded(S \union {e})
  <1> DEFINE T == S \union {e}
             root == ChainRoot(T, e)
  <1>1. T \in SUBSET Ids /\ e \in T
    OBVIOUS
  <1>2. root # Overrun /\ (root # Held => ChainHead(T, root) # Overrun)
    BY DEF Corrupt
  <1>3. root \in Roots(T) \union {Held}
    BY <1>1, <1>2, RootIsRoot
  <1>4. \A r : r \in Roots(T) <=> r \in Roots(S) \/ (r = e /\ r \in Roots(T))
    BY <1>1, RootsAre
  <1>5. e \in Roots(T) => root = e
    BY <1>1, OwnRoot
  <1>6. \A r \in Roots(T) : r # Held /\ r # Overrun
    BY <1>1, RootsGive, IdNumbers
  <1>7. ASSUME NEW r \in Roots(S), r # root PROVE ChainHead(T, r) = ChainHead(S, r)
    BY <1>2, <1>4, <1>7, OtherHeadsStay
  <1>8. DOMAIN MomentRows(S) = Roots(S) /\ \A r \in Roots(S) : MomentRows(S)[r] = MomentColumns(ChainHead(S, r))
    BY DEF MomentRows
  <1> HIDE DEF T, root
  <1>9. CASE root = Held
    <2>1. Roots(T) = Roots(S)
      BY <1>4, <1>5, <1>6, <1>9
    <2>2. \A r \in Roots(S) : ChainHead(T, r) = ChainHead(S, r)
      BY <1>6, <1>7, <1>9, <2>1
    <2>3. MomentRows(T) = MomentRows(S)
      BY <2>1, <2>2 DEF MomentRows
    <2>4. Moved(T, MomentRows(S), e) = MomentRows(S)
      BY <1>9 DEF Moved, root
    <2>5. Bounded(T)
      BY <2>1, <2>2 DEF Bounded
    <2> QED
      BY <2>3, <2>4, <2>5 DEF T
  <1>10. CASE root # Held
    <2>1. Roots(T) = Roots(S) \union {root}
      BY <1>3, <1>4, <1>5, <1>10
    <2>2. Moved(T, MomentRows(S), e) = Put(MomentRows(S), root, MomentColumns(ChainHead(T, root)))
      BY <1>10 DEF Moved, root
    <2>3. \A r \in Roots(S) \union {root} :
            MomentColumns(ChainHead(T, r)) =
              IF r = root THEN MomentColumns(ChainHead(T, root)) ELSE MomentRows(S)[r]
      BY <1>7, <1>8
    <2>4. MomentRows(T) = Put(MomentRows(S), root, MomentColumns(ChainHead(T, root)))
      BY <1>8, <2>1, <2>3 DEF MomentRows, Put
    <2>5. Bounded(T)
      BY <1>2, <1>7, <1>10, <2>1 DEF Bounded
    <2> QED
      BY <2>2, <2>4, <2>5 DEF T
  <1> QED
    BY <1>9, <1>10

(* The projector applied to the view of the events S and one more event    *)
(* that it does not refuse is the view of both: whatever the order events  *)
(* arrive in, births that conflict, corrections that wait for what they    *)
(* correct and edges that come before their entities, the rows and the     *)
(* counters are those of the set of events.                                *)
THEOREM LiveFoldIsView ==
    ASSUME MomentsCorrectMoments, NEW S \in SUBSET Ids, IsFiniteSet(S), Bounded(S),
           NEW e \in Ids, e \notin S, ~ Corrupt(S \union {e}, e)
    PROVE  Apply(S \union {e}, ViewOf(S), e) = ViewOf(S \union {e}) /\ Bounded(S \union {e})
  <1> DEFINE T == S \union {e}
  <1>1. T \in SUBSET Ids /\ IsFiniteSet(T)
    BY FS_AddElement
  <1>2. ViewOf(S) = Folded(S, MomentRows(S))
    BY ViewIsFolded
  <1>3. CASE IsMoment(e)
    <2>1. Moved(T, MomentRows(S), e) = MomentRows(T) /\ Bounded(T)
      BY <1>3, RowsMove
    <2>2. Event[e].kind = "moment" /\ IsFiniteSet(DOMAIN MomentRows(S))
      BY <1>3, RootsFinite DEF IsMoment
    <2>3. Apply(T, Folded(S, MomentRows(S)), e) = Folded(T, Moved(T, MomentRows(S), e))
      BY <2>2, FoldMoment
    <2> HIDE DEF T
    <2>4. ViewOf(T) = Folded(T, MomentRows(T))
      BY <1>1, <2>1, ViewIsFolded
    <2> QED
      BY <1>2, <2>1, <2>3, <2>4 DEF T
  <1>4. CASE ~ IsMoment(e)
    <2>1. MomentRows(T) = MomentRows(S) /\ Bounded(T)
      BY <1>4, RowsStay
    <2>2. Apply(T, Folded(S, MomentRows(S)), e) = Folded(T, MomentRows(S))
      BY <1>4, FoldOther
    <2> HIDE DEF T
    <2>3. ViewOf(T) = Folded(T, MomentRows(T))
      BY <1>1, <2>1, ViewIsFolded
    <2> QED
      BY <1>2, <2>1, <2>2, <2>3 DEF T
  <1> QED
    BY <1>3, <1>4

(* No events, no rows.                                                     *)
LEMMA NothingFolded ==
    ASSUME NEW m, m = <<>>
    PROVE  Folded({}, m) = EmptyView
  <1>1. /\ \A k : Of({}, k) = {}
        /\ EntityIds({}) = {} /\ AllInG({}) = {} /\ AllCross({}) = {}
    BY DEF Of, EntityIds, AllInG, AllCross
  <1>3. Entities({}) = <<>>
    BY <1>1 DEF Entities
  <1>4. Edges({}) = <<>>
    BY <1>1 DEF Edges
  <1>5. Vocabulary({}) = <<>>
    <2>1. PICK C : C = {Event[e].code : e \in Of({}, "vocabulary")}
      OBVIOUS
    <2>2. C = {}
      BY <1>1, <2>1
    <2>3. Vocabulary({}) = [c \in C |-> Earliest(Declarations({}, c))]
      BY <2>1 DEF Vocabulary
    <2> QED
      BY <2>2, <2>3
  <1>6. Cardinality({}) = 0 /\ DOMAIN m = {}
    BY FS_EmptySet
  <1>7. Counts({}, m) = NoStats
    <2>1. Counts({}, m) = [rows |-> 0, entity |-> 0, moment |-> 0, edge |-> 0, attestation |-> 0,
                           contested |-> 0, cross |-> 0]
      BY <1>1, <1>6 DEF Counts
    <2>2. NoStats = [rows |-> 0, entity |-> 0, moment |-> 0, edge |-> 0, attestation |-> 0,
                     contested |-> 0, cross |-> 0]
      BY DEF NoStats, Stats0
    <2> QED
      BY <2>1, <2>2
  <1> QED
    BY <1>1, <1>3, <1>4, <1>5, <1>7 DEF Folded, EmptyView

LEMMA EmptyIsViewOfNone == ViewOf({}) = EmptyView /\ Bounded({})
  <1>1. Roots({}) = {}
    BY DEF Roots, Of
  <1>2. Bounded({})
    BY <1>1 DEF Bounded
  <1>3. MomentRows({}) = <<>>
    BY <1>1 DEF MomentRows
  <1>4. ViewOf({}) = Folded({}, MomentRows({}))
    BY <1>2, FS_EmptySet, ViewIsFolded
  <1> QED
    BY <1>2, <1>3, <1>4, NothingFolded
-----------------------------------------------------------------------------
(***************************************************************************)
(* The batch fold: rebuild, over all events in the canonical order.        *)
(***************************************************************************)
Rank(S, e) == Cardinality({x \in S : x < e})

LEMMA RankGives ==
    ASSUME NEW S \in SUBSET Nat, IsFiniteSet(S)
    PROVE  /\ \A e \in S : Rank(S, e) \in 0 .. Cardinality(S) - 1
           /\ \A e, f \in S : e < f => Rank(S, e) # Rank(S, f)
  <1>2. ASSUME NEW e \in S PROVE Rank(S, e) \in 0 .. Cardinality(S) - 1
    <2>1. PICK B : B = {x \in S : x < e}
      OBVIOUS
    <2>20. B \in SUBSET S /\ e \notin B
      BY <2>1
    <2>2. Cardinality(B) <= Cardinality(S) /\ Cardinality(S) # Cardinality(B) /\ IsFiniteSet(B)
      BY <2>20, FS_Subset
    <2>3. PICK b \in Nat, n \in Nat : b = Cardinality(B) /\ n = Cardinality(S)
      BY <2>2, FS_CardinalityType
    <2>4. b \in 0 .. n - 1
      BY <2>2, <2>3
    <2> QED
      BY <2>1, <2>3, <2>4 DEF Rank
  <1>3. ASSUME NEW e \in S, NEW f \in S, e < f PROVE Rank(S, e) # Rank(S, f)
    <2>1. PICK A, B : A = {x \in S : x < e} /\ B = {x \in S : x < f}
      OBVIOUS
    <2>20. \A x \in S : x < e => x < f
      <3> SUFFICES ASSUME NEW x \in S, x < e PROVE x < f
        OBVIOUS
      <3>1. x \in Nat /\ e \in Nat /\ f \in Nat
        OBVIOUS
      <3> QED
        BY <1>3, <3>1
    <2>21. ~ (e < e)
      OBVIOUS
    <2>2. B \in SUBSET S /\ A \in SUBSET B /\ e \in B /\ e \notin A
      <3>1. e \in B /\ e \notin A
        BY <1>3, <2>1, <2>21
      <3>2. B \in SUBSET S /\ A \in SUBSET B
        BY <2>1, <2>20
      <3> QED
        BY <3>1, <3>2
    <2>3. Cardinality(A) # Cardinality(B)
      BY <2>2, FS_Subset
    <2> QED
      BY <2>1, <2>3 DEF Rank
  <1> QED
    BY <1>2, <1>3

(* Canonical lists every event of S once.                                  *)
LEMMA CanonicalGives ==
    ASSUME NEW S \in SUBSET Nat, IsFiniteSet(S), NEW n \in 0 .. Cardinality(S) - 1
    PROVE  /\ Canonical(S)[n + 1] \in S /\ Rank(S, Canonical(S)[n + 1]) = n
           /\ \A e \in S : Rank(S, e) = n => e = Canonical(S)[n + 1]
  <1> DEFINE k == Cardinality(S)
             T == 0 .. k - 1
             f == [e \in S |-> Rank(S, e)]
  <1>1. k \in Nat
    BY FS_CardinalityType
  <1>2. \A e, d \in S : Rank(S, e) = Rank(S, d) => e = d
    <2>1. \A e, d \in S : e < d \/ d < e \/ e = d
      OBVIOUS
    <2> QED
      BY <2>1, RankGives
  <1>3. f \in Injection(S, T)
    BY <1>2, RankGives DEF Injection, IsInjective
  <1>4. IsFiniteSet(T) /\ Cardinality(T) = k
    <2>1. PICK a \in Int, b \in Int : a = 0 /\ b = k - 1
      BY <1>1
    <2>2. IsFiniteSet(a .. b) /\ Cardinality(a .. b) = IF a > b THEN 0 ELSE b - a + 1
      BY FS_Interval
    <2>3. (IF a > b THEN 0 ELSE b - a + 1) = k
      BY <1>1, <2>1
    <2> QED
      BY <2>1, <2>2, <2>3
  <1> HIDE DEF T, f
  <1>5. f \in Surjection(S, T)
    BY <1>3, <1>4, FS_Injection DEF k
  <1>6. PICK e \in S : f[e] = n
    BY <1>5 DEF Surjection, T, k
  <1>7. Rank(S, e) = n
    BY <1>6 DEF f
  <1>8. Canonical(S)[n + 1] = CHOOSE d \in S : Rank(S, d) = n
    <2>1. n + 1 \in 1 .. Cardinality(S) /\ (n + 1) - 1 = n
      BY <1>1
    <2> QED
      BY <2>1 DEF Canonical, Rank
  <1>9. Canonical(S)[n + 1] \in S /\ Rank(S, Canonical(S)[n + 1]) = n
    BY <1>7, <1>8
  <1> QED
    BY <1>2, <1>9

(* The partial folds that Refold is the last of.                           *)
Partials(S, m, f) ==
  f = [n \in 0 .. m |-> IF n = 0 THEN EmptyView ELSE Apply(S, f[n - 1], Canonical(S)[n])]

LEMMA FoldsExist ==
    ASSUME NEW S, NEW k \in Nat
    PROVE  \E f : Partials(S, k, f)
  <1> DEFINE Bad == {m \in Nat : ~ \E f : Partials(S, m, f)}
  <1> SUFFICES ASSUME Bad # {} PROVE FALSE
    OBVIOUS
  <1>1. PICK m \in Bad : \A y \in Bad : m <= y
    <2>1. Bad \in SUBSET Nat
      OBVIOUS
    <2> HIDE DEF Bad
    <2> QED
      BY <2>1, LeastNat
  <1>2. CASE m = 0
    <2>1. Partials(S, 0, [n \in 0 .. 0 |-> EmptyView])
      BY DEF Partials
    <2> QED
      BY <1>2, <2>1
  <1>3. CASE m # 0
    <2>1. m \in Nat /\ m - 1 \in Nat /\ m - 1 \notin Bad
      <3>1. m \in Nat
        OBVIOUS
      <3> HIDE DEF Bad
      <3> QED
        BY <1>1, <1>3, <3>1
    <2>2. PICK f : Partials(S, m - 1, f)
      BY <2>1
    <2> DEFINE g == [n \in 0 .. m |-> IF n = m THEN Apply(S, f[m - 1], Canonical(S)[m]) ELSE f[n]]
    <2>3. ASSUME NEW n \in 0 .. m
          PROVE  g[n] = IF n = 0 THEN EmptyView ELSE Apply(S, g[n - 1], Canonical(S)[n])
      <3>1. CASE n = m
        <4>1. g[n] = Apply(S, f[m - 1], Canonical(S)[m]) /\ n # 0
          BY <1>3, <3>1
        <4>2. g[n - 1] = f[m - 1]
          BY <1>3, <2>1, <3>1
        <4> QED
          BY <3>1, <4>1, <4>2
      <3>2. CASE n # m
        <4>1. n \in 0 .. (m - 1) /\ (n # 0 => n - 1 \in 0 .. m /\ n - 1 # m)
          BY <2>1, <3>2
        <4>2. f[n] = IF n = 0 THEN EmptyView ELSE Apply(S, f[n - 1], Canonical(S)[n])
          BY <2>2, <4>1 DEF Partials
        <4>3. g[n] = f[n] /\ (n # 0 => g[n - 1] = f[n - 1])
          BY <3>2, <4>1
        <4> QED
          BY <4>2, <4>3
      <3> QED
        BY <3>1, <3>2
    <2>4. Partials(S, m, g)
      <3>1. g = [n \in 0 .. m |-> g[n]]
        OBVIOUS
      <3> HIDE DEF g
      <3> QED
        BY <2>3, <3>1 DEF Partials
    <2> QED
      BY <2>4
  <1> QED
    BY <1>2, <1>3

(* The rows of the chains that some event of P belongs to.                 *)
Seen(S, P) == {ChainRoot(S, e) : e \in Of(P, "moment")} \ {Held}
RowsSeen(S, P) == [r \in Seen(S, P) |-> MomentColumns(ChainHead(S, r))]

LEMMA SeenGives ==
    ASSUME NEW S, NEW P, IsFiniteSet(P), NEW e, e \notin P
    PROVE  /\ IsFiniteSet(Seen(S, P)) /\ DOMAIN RowsSeen(S, P) = Seen(S, P)
           /\ ~ IsMoment(e) => RowsSeen(S, P \union {e}) = RowsSeen(S, P)
           /\ IsMoment(e) => RowsSeen(S, P \union {e}) = Moved(S, RowsSeen(S, P), e)
  <1> DEFINE Q == P \union {e}
             M == Of(P, "moment")
             X == {ChainRoot(S, d) : d \in M}
             f == [d \in M |-> ChainRoot(S, d)]
  <1>1. IsFiniteSet(Seen(S, P))
    <2>1. f \in Surjection(M, X)
      BY DEF Surjection
    <2>2. IsFiniteSet(M)
      BY Finite
    <2> HIDE DEF f, M, X
    <2>3. IsFiniteSet(X)
      BY <2>1, <2>2, FS_Surjection
    <2>4. Seen(S, P) \in SUBSET X
      BY DEF Seen, X, M
    <2> QED
      BY <2>3, <2>4, FS_Subset
  <1>2. DOMAIN RowsSeen(S, P) = Seen(S, P) /\
        \A r \in Seen(S, P) : RowsSeen(S, P)[r] = MomentColumns(ChainHead(S, r))
    BY DEF RowsSeen
  <1>3. ~ IsMoment(e) => Seen(S, Q) = Seen(S, P)
    BY DEF Seen, Of, IsMoment
  <1>4. IsMoment(e) => Seen(S, Q) = (Seen(S, P) \union {ChainRoot(S, e)}) \ {Held}
    BY DEF Seen, Of, IsMoment
  <1>5. Held \notin Seen(S, P)
    BY DEF Seen
  <1> HIDE DEF Q
  <1>6. ~ IsMoment(e) => RowsSeen(S, Q) = RowsSeen(S, P)
    BY <1>3 DEF RowsSeen
  <1>7. ASSUME IsMoment(e) PROVE RowsSeen(S, Q) = Moved(S, RowsSeen(S, P), e)
    <2>1. CASE ChainRoot(S, e) = Held
      <3>1. Seen(S, Q) = Seen(S, P)
        BY <1>4, <1>5, <1>7, <2>1
      <3> QED
        BY <2>1, <3>1 DEF RowsSeen, Moved
    <2>2. CASE ChainRoot(S, e) # Held
      <3>1. PICK root : root = ChainRoot(S, e)
        OBVIOUS
      <3>2. Seen(S, Q) = Seen(S, P) \union {root}
        BY <1>4, <1>5, <1>7, <2>2, <3>1
      <3>3. Moved(S, RowsSeen(S, P), e) = Put(RowsSeen(S, P), root, MomentColumns(ChainHead(S, root)))
        BY <2>2, <3>1 DEF Moved
      <3>4. \A r \in Seen(S, P) \union {root} :
              MomentColumns(ChainHead(S, r)) =
                IF r = root THEN MomentColumns(ChainHead(S, root)) ELSE RowsSeen(S, P)[r]
        BY <1>2
      <3>5. RowsSeen(S, Q) = Put(RowsSeen(S, P), root, MomentColumns(ChainHead(S, root)))
        BY <1>2, <3>2, <3>4 DEF RowsSeen, Put
      <3> QED
        BY <3>3, <3>5
    <2> QED
      BY <2>1, <2>2
  <1> QED
    BY <1>1, <1>2, <1>6, <1>7 DEF Q

LEMMA FoldOne ==
    ASSUME NEW S, NEW P \in SUBSET Ids, IsFiniteSet(P), NEW e \in Ids, e \notin P
    PROVE  Apply(S, Folded(P, RowsSeen(S, P)), e) = Folded(P \union {e}, RowsSeen(S, P \union {e}))
  <1>1. CASE IsMoment(e)
    <2>1. Event[e].kind = "moment" /\ IsFiniteSet(DOMAIN RowsSeen(S, P))
      BY <1>1, SeenGives DEF IsMoment
    <2>2. Apply(S, Folded(P, RowsSeen(S, P)), e) = Folded(P \union {e}, Moved(S, RowsSeen(S, P), e))
      BY <2>1, FoldMoment
    <2> QED
      BY <1>1, <2>2, SeenGives
  <1>2. CASE ~ IsMoment(e)
    <2>1. Apply(S, Folded(P, RowsSeen(S, P)), e) = Folded(P \union {e}, RowsSeen(S, P))
      BY <1>2, FoldOther
    <2> QED
      BY <1>2, <2>1, SeenGives
  <1> QED
    BY <1>1, <1>2

(* Where nothing is refused, every chain that is seen has its root, and    *)
(* every root is seen.                                                     *)
LEMMA AllSeen ==
    ASSUME NEW S \in SUBSET Ids, \A e \in S : ~ Corrupt(S, e)
    PROVE  Bounded(S) /\ RowsSeen(S, S) = MomentRows(S)
  <1>1. \A r \in Roots(S) : r \in S /\ IsMoment(r) /\ ChainRoot(S, r) = r /\ r # Held
    BY RootsGive, OwnRoot, IdNumbers
  <1>2. Bounded(S)
    BY <1>1 DEF Bounded, Corrupt
  <1>3. \A e \in S : IsMoment(e) => ChainRoot(S, e) \in Roots(S) \union {Held}
    BY RootIsRoot DEF Corrupt
  <1>4. Seen(S, S) = Roots(S)
    BY <1>1, <1>3 DEF Seen, Of, IsMoment
  <1> QED
    BY <1>2, <1>4 DEF RowsSeen, MomentRows

(* A rebuild that does not fail leaves the view of exactly the events it   *)
(* folded: what the live fold leaves, so "rebuild equal to the incremental *)
(* fold" (apply and rebuild in cc-ledger).                                 *)
THEOREM BatchFoldIsView ==
    ASSUME NEW S \in SUBSET Ids, IsFiniteSet(S), \A e \in S : ~ Corrupt(S, e)
    PROVE  Refold(S) = ViewOf(S)
  <1> DEFINE k == Cardinality(S)
             f == CHOOSE g : Partials(S, k, g)
             P(n) == {e \in S : Rank(S, e) < n}
             G == {n \in Nat : n <= k => f[n] = Folded(P(n), RowsSeen(S, P(n)))}
  <1>1. k \in Nat /\ S \in SUBSET Nat
    BY FS_CardinalityType, IdNumbers
  <1>2. Partials(S, k, f)
    BY <1>1, FoldsExist
  <1>3. Refold(S) = f[k]
    BY DEF Refold, Partials
  <1> HIDE DEF f
  <1>4. f[0] = EmptyView /\ \A n \in 0 .. k - 1 : f[n + 1] = Apply(S, f[n], Canonical(S)[n + 1])
    <2>1. \A n \in 0 .. k : f[n] = IF n = 0 THEN EmptyView ELSE Apply(S, f[n - 1], Canonical(S)[n])
      BY <1>2 DEF Partials
    <2>2. ASSUME NEW n \in 0 .. k - 1 PROVE n + 1 \in 0 .. k /\ n + 1 # 0 /\ (n + 1) - 1 = n
      BY <1>1
    <2> HIDE DEF k
    <2> QED
      BY <1>1, <2>1, <2>2
  <1>5. \A e \in S : Rank(S, e) \in 0 .. k - 1
    BY <1>1, RankGives
  <1>6. 0 \in G
    <2>1. P(0) = {}
      <3>1. ASSUME NEW e \in S PROVE ~ (Rank(S, e) < 0)
        BY <1>1, <1>5
      <3> QED
        BY <3>1
    <2>2. Seen(S, {}) = {}
      BY DEF Seen, Of
    <2>3. RowsSeen(S, {}) = <<>>
      BY <2>2 DEF RowsSeen
    <2> QED
      BY <1>4, <2>1, <2>3, NothingFolded
  <1>7. ASSUME NEW n \in 0 .. k - 1, n \in G PROVE n + 1 \in G
    <2>1. PICK e : e = Canonical(S)[n + 1]
      OBVIOUS
    <2>2. e \in S /\ Rank(S, e) = n /\ \A d \in S : Rank(S, d) = n => d = e
      BY <1>1, <2>1, CanonicalGives
    <2>3. P(n) \in SUBSET S /\ e \notin P(n) /\ P(n + 1) = P(n) \union {e}
      <3>1. ASSUME NEW d \in S
            PROVE  (Rank(S, d) < n + 1 <=> Rank(S, d) < n \/ d = e) /\ (d = e => ~ (Rank(S, d) < n))
        <4>1. PICK i \in Int : i = Rank(S, d)
          BY <1>1, <1>5
        <4>2. n \in Int /\ (i < n + 1 <=> i < n \/ i = n)
          BY <1>1
        <4>3. i = n <=> d = e
          BY <2>2, <4>1
        <4>4. i = n => ~ (i < n)
          BY <4>2
        <4> QED
          BY <4>1, <4>2, <4>3, <4>4
      <3> QED
        BY <2>2, <3>1
    <2>4. n \in Nat /\ n <= k /\ n + 1 \in Nat
      BY <1>1
    <2>5. f[n] = Folded(P(n), RowsSeen(S, P(n)))
      BY <1>7, <2>4
    <2> HIDE DEF P, k
    <2>6. IsFiniteSet(P(n))
      BY <2>3, FS_Subset
    <2>7. f[n + 1] = Folded(P(n + 1), RowsSeen(S, P(n + 1)))
      BY <1>4, <2>1, <2>2, <2>3, <2>5, <2>6, FoldOne
    <2> QED
      BY <2>4, <2>7
  <1> HIDE DEF G
  <1>8. 0 .. k \subseteq G
    BY <1>1, <1>6, <1>7, Upward
  <1>9. f[k] = Folded(P(k), RowsSeen(S, P(k)))
    BY <1>1, <1>8 DEF G
  <1>10. P(k) = S
    <2>1. ASSUME NEW e \in S PROVE Rank(S, e) < k
      BY <1>1, <1>5
    <2> QED
      BY <2>1
  <1>11. Bounded(S) /\ RowsSeen(S, S) = MomentRows(S)
    BY AllSeen
  <1> HIDE DEF P, k
  <1> QED
    BY <1>3, <1>9, <1>10, <1>11, ViewIsFolded

-----------------------------------------------------------------------------
(***************************************************************************)
(* Shapes.  Nothing is assumed of what the projector computes, only that a *)
(* view and a transaction have their fields.                               *)
(***************************************************************************)
ViewFields == {"entities", "vocabulary", "moments", "edges", "attestations", "stats"}
IsView(v) == /\ v = [f \in ViewFields |-> v[f]]
             /\ v.edges = [ed \in DOMAIN v.edges |-> v.edges[ed]]

TxFields == {"pc", "step", "todo", "mine", "work", "dirty", "holds", "since", "settled", "root",
             "out", "cand", "expected"}
IsTx(r) == r = [f \in TxFields |-> r[f]]
-----------------------------------------------------------------------------
(***************************************************************************)
(* What the record r of transaction t may be by itself.                    *)
(***************************************************************************)
Appending == {"insert", "digest", "stats", "apply", "commit"}
Before == {"idle", "lock", "check", "row", "control", "moments", "heads",
           "truncate", "fold", "after", "report"}
Pcs(t) == CASE t \in Writers    -> {"idle"} \union Appending
            [] t \in Clients    -> {"idle", "lock", "check"} \union Appending
            [] t \in Publishers -> {"idle", "row", "control", "moments", "heads"} \union Appending
            [] OTHER            -> {"idle", "truncate", "fold", "after", "report"}

(* The batch: what is left of it, and what is inserted.                    *)
BatchOK(r) ==
  /\ r.mine \in SUBSET Ids /\ IsFiniteSet(r.mine)
  /\ r.pc = "idle" => r = Idle
  /\ r.pc \in Before => r.mine = {} /\ ~ r.dirty
  /\ r.pc \in {"lock", "check"} => \E e \in Ids : r.todo = <<e>>
  /\ r.pc \in Appending \ {"commit"} => r.todo \in Seq(Ids) /\ r.todo # <<>>
  /\ r.pc = "commit" => r.todo = <<>>
  /\ r.pc \in {"digest", "stats", "apply"} => Head(r.todo) \in r.mine

(* The locks t has: an insert took the digest, a projection the statistics,*)
(* a client its three tables, a publisher its candidate, the control row   *)
(* and the moments, a rebuild everything it truncated.                     *)
LocksOK(t, r) ==
  /\ r.dirty \/ r.pc \in {"stats", "apply"} => <<"digest", "row">> \in r.holds
  /\ r.dirty \/ r.pc = "apply" => <<"stats", "RX">> \in r.holds
  /\ r.pc = "lock" => /\ r.step \in 1 .. Len(HttpLocks)
                      /\ r.step = 1 => r.holds = {}
                      /\ \A i \in 1 .. r.step - 1 : <<HttpLocks[i], "SRX">> \in r.holds
  /\ t \in Clients /\ r.pc \in {"check"} \union Appending =>
       \A i \in 1 .. Len(HttpLocks) : <<HttpLocks[i], "SRX">> \in r.holds
  /\ r.pc = "row" => r.holds = {}
  /\ r.pc = "control" => r.holds = {<<r.cand, "row">>}
  /\ r.pc = "moments" => r.holds = {<<r.cand, "row">>, <<"control", "share">>}
  /\ t \in Publishers /\ r.pc \in {"heads"} \union Appending =>
       {<<"control", "share">>, <<"moments", "SRX">>} \subseteq r.holds
  /\ r.pc = "truncate" => /\ r.step \in 1 .. Len(TruncateLocks)
                          /\ \A i \in 1 .. r.step - 1 : <<TruncateLocks[i], "AX">> \in r.holds
  /\ r.pc = "fold" => \A i \in 1 .. Len(TruncateLocks) : <<TruncateLocks[i], "AX">> \in r.holds

Shaped == /\ tx = [t \in Conns |-> tx[t]]
          /\ \A t \in Conns : IsTx(tx[t]) /\ IsView(tx[t].work)
          /\ IsView(view) /\ events \in SUBSET Ids /\ IsFiniteSet(events)
Placed == \A t \in Conns : tx[t].pc \in Pcs(t) /\ BatchOK(tx[t]) /\ LocksOK(t, tx[t])

(* The lock manager: no two transactions hold conflicting locks.           *)
Compatible(a, b) == \A l \in a, h \in b : l[1] = h[1] => ~ Conflicts(l[2], h[2])
Exclusive == \A t, u \in Conns : t # u => Compatible(tx[t].holds, tx[u].holds)

(* A transaction that has not locked a table for writing would not change  *)
(* it: its private view still agrees with the committed one.               *)
Tables == {"moments", "entities", "edges"}
Clean == \A t \in Conns : tx[t].dirty =>
           \A f \in Tables : <<f, "RX">> \in tx[t].holds \/ tx[t].work[f] = view[f]

LogInv == Shaped /\ Placed /\ Exclusive /\ Clean
-----------------------------------------------------------------------------
(* An edge that a client sends has passed the check, or is in the ledger.  *)
Checked ==
  \A t \in Clients : tx[t].pc \in Appending =>
    \A e \in tx[t].mine \union ToSet(tx[t].todo) :
      Event[e].kind = "edge" => e \in events \/ AdmitEdge(e)

(* What others than publishers insert was signed outside the publisher.    *)
Outside ==
  \A t \in Writers \union Clients : tx[t].mine \union ToSet(tx[t].todo) \subseteq world.ids

(* Candidates are staged once, under a brief that is staged.               *)
Staged == \A c \in DOMAIN cands : /\ c \in DOMAIN Candidates
                                  /\ cands[c].payload \in DOMAIN Payload
                                  /\ cands[c].brief \in DOMAIN briefs

(* Where a publisher is tells what it has checked, and its locks keep that.*)
Publishing(t) ==
  LET c == tx[t].cand
      p == cands[c].payload
  IN  /\ tx[t].pc # "idle" => c \in DOMAIN cands
      /\ tx[t].pc \in {"control", "moments", "heads"} \union Appending => Exact(c)
      /\ tx[t].pc \in {"moments", "heads"} \union Appending => ~ paused
      /\ tx[t].pc \in Appending => /\ tx[t].expected = Heads(p)
                                   /\ tx[t].mine \subseteq Batch(p)
                                   /\ ToSet(tx[t].todo) \subseteq Batch(p)
                                   /\ Batch(p) \subseteq Sees(t) \union ToSet(tx[t].todo)

Receipted == \A c \in DOMAIN receipts :
               /\ c \in DOMAIN cands /\ receipts[c] = cands[c].payload
               /\ Evidenced(receipts[c]) \subseteq DOMAIN evidence

IInv == /\ LogInv /\ Checked /\ Outside /\ Staged /\ Receipted /\ AllOrNothing
        /\ \A t \in Publishers : Publishing(t)
-----------------------------------------------------------------------------
(* The projector writes only the tables it has locked for writing, and its *)
(* result is a view.                                                       *)
LEMMA EdgesReplaced ==
    ASSUME NEW v, IsView(v), NEW E, E = [ed \in DOMAIN E |-> E[ed]]
    PROVE  /\ IsView([v EXCEPT !.edges = E])
           /\ \A f \in ViewFields \ {"edges"} : [v EXCEPT !.edges = E][f] = v[f]
           /\ [v EXCEPT !.edges = E].edges = E
  <1> DEFINE u == [v EXCEPT !.edges = E]
  <1>1. u = [f \in ViewFields |-> u[f]] /\ u.edges = E
    BY DEF IsView, ViewFields
  <1>2. \A f \in ViewFields \ {"edges"} : u[f] = v[f]
    BY DEF IsView, ViewFields
  <1> HIDE DEF u
  <1>3. IsView(u)
    BY <1>1 DEF IsView
  <1> QED
    BY <1>1, <1>2, <1>3 DEF u

LEMMA StatsReplaced ==
    ASSUME NEW v, IsView(v), NEW column, NEW n
    PROVE  /\ IsView([v EXCEPT !.stats[column] = n])
           /\ \A f \in ViewFields \ {"stats"} : [v EXCEPT !.stats[column] = n][f] = v[f]
  BY DEF IsView, ViewFields

LEMMA RefreshKeeps ==
    ASSUME NEW v, IsView(v), NEW eds
    PROVE  /\ IsView(RefreshEdges(v, eds))
           /\ RefreshEdges(v, eds).moments = v.moments
           /\ RefreshEdges(v, eds).entities = v.entities
           /\ eds = {} => RefreshEdges(v, eds).edges = v.edges
  <1> DEFINE known == {ed \in eds : Known(v, ed)}
             E == [ed \in DOMAIN v.edges |->
                     IF ed \in known THEN [in_g |-> TRUE, cross |-> Crosses(v, ed)] ELSE v.edges[ed]]
             u == [v EXCEPT !.edges = E]
  <1>1. PICK i, j : RefreshEdges(v, eds) =
            [[[v EXCEPT !.edges = E] EXCEPT !.stats["contested"] = i] EXCEPT !.stats["cross"] = j]
    BY DEF RefreshEdges, IsView, ViewFields
  <1>2. E = [ed \in DOMAIN E |-> E[ed]] /\ (eds = {} => E = v.edges)
    BY DEF IsView
  <1> HIDE DEF E
  <1>3. IsView(u) /\ u.moments = v.moments /\ u.entities = v.entities /\ u.edges = E
    BY <1>2, EdgesReplaced DEF ViewFields
  <1> HIDE DEF u
  <1> DEFINE w == [u EXCEPT !.stats["contested"] = i]
  <1>4. IsView(w) /\ w.moments = v.moments /\ w.entities = v.entities /\ w.edges = E
    BY <1>3, StatsReplaced DEF ViewFields
  <1> HIDE DEF w
  <1> DEFINE z == [w EXCEPT !.stats["cross"] = j]
  <1>5. IsView(z) /\ z.moments = v.moments /\ z.entities = v.entities /\ z.edges = E
    BY <1>4, StatsReplaced DEF ViewFields
  <1>6. RefreshEdges(v, eds) = z
    BY <1>1 DEF z, w, u
  <1> QED
    BY <1>2, <1>5, <1>6

LEMMA BumpKeeps ==
    ASSUME NEW v, IsView(v), NEW column
    PROVE  /\ IsView(Bump(v, column))
           /\ \A f \in ViewFields \ {"stats"} : Bump(v, column)[f] = v[f]
  BY DEF Bump, IsView, ViewFields

LEMMA ApplyKeeps ==
    ASSUME NEW db, NEW v, IsView(v), NEW e
    PROVE  /\ IsView(Apply(db, v, e))
           /\ \A f \in Tables : <<f, "RX">> \in ApplyLocks(db, v, e) \/ Apply(db, v, e)[f] = v[f]
  <1> DEFINE w == [v EXCEPT !.stats = StatsRow(v)]
             a == Apply(db, v, e)
  <1>1. /\ IsView(w) /\ w.moments = v.moments /\ w.entities = v.entities /\ w.edges = v.edges
    BY DEF IsView, ViewFields
  <1> HIDE DEF w
  <1>2. CASE Event[e].kind = "entity"
    <2> DEFINE x == Event[e].entity
               row == [w EXCEPT !.entities = Put(w.entities, x, e)]
    <2>1. IsView(row) /\ row.moments = v.moments /\ row.edges = v.edges
      BY <1>1 DEF IsView, ViewFields
    <2>2. a = ProjectEntity(w, e)
      BY <1>2 DEF Apply, w
    <2>3. a \in {RefreshIncidentEdges(Bump(row, "entity"), x), RefreshIncidentEdges(row, x), w}
      BY <2>2 DEF ProjectEntity
    <2> HIDE DEF row, a
    <2>4. /\ IsView(Bump(row, "entity")) /\ Bump(row, "entity").moments = v.moments
          /\ Bump(row, "entity").edges = v.edges
      BY <2>1, BumpKeeps DEF ViewFields
    <2>5. Incident(row, x) = Incident(v, x) /\ Incident(Bump(row, "entity"), x) = Incident(v, x)
      BY <2>1, <2>4 DEF Incident
    <2>6. /\ IsView(a) /\ a.moments = v.moments
          /\ Incident(v, x) = {} => a.edges = v.edges
      BY <1>1, <2>1, <2>3, <2>4, <2>5, RefreshKeeps DEF RefreshIncidentEdges
    <2>7. ApplyLocks(db, v, e) = {<<"entities", "RX">>,
                                  <<"edges", IF Incident(v, x) = {} THEN "AS" ELSE "RX">>}
      BY <1>2 DEF ApplyLocks
    <2> QED
      BY <2>6, <2>7 DEF Tables, a
  <1>3. CASE Event[e].kind = "moment"
    <2>1. a = ProjectMoment(db, w, e)
      BY <1>3 DEF Apply, w
    <2>2. CASE ChainRoot(db, e) = Held
      BY <1>1, <2>1, <2>2 DEF ProjectMoment, Tables
    <2>3. CASE ChainRoot(db, e) # Held
      <3> DEFINE root == ChainRoot(db, e)
                 row == [w EXCEPT !.moments = Put(w.moments, root, MomentColumns(ChainHead(db, root)))]
      <3>1. IsView(row) /\ row.entities = v.entities /\ row.edges = v.edges
        BY <1>1 DEF IsView, ViewFields
      <3>2. a \in {row, Bump(row, "moment")}
        BY <2>1, <2>3 DEF ProjectMoment, ProjectMomentAt
      <3>3. ApplyLocks(db, v, e) = {<<"moments", "RX">>}
        BY <1>3, <2>3 DEF ApplyLocks
      <3> HIDE DEF row, a
      <3>4. IsView(a) /\ a.entities = v.entities /\ a.edges = v.edges
        BY <3>1, <3>2, BumpKeeps DEF ViewFields
      <3> QED
        BY <3>3, <3>4 DEF Tables, a
    <2> QED
      BY <2>2, <2>3
  <1>4. CASE Event[e].kind = "edge"
    <2> DEFINE row == [w EXCEPT !.edges = Put(w.edges, e, [in_g |-> FALSE, cross |-> FALSE])]
    <2>1. IsView(row) /\ row.entities = v.entities /\ row.moments = v.moments
      <3> DEFINE E == Put(w.edges, e, [in_g |-> FALSE, cross |-> FALSE])
      <3>1. E = [ed \in DOMAIN E |-> E[ed]]
        BY DEF Put
      <3> HIDE DEF E
      <3>2. IsView([w EXCEPT !.edges = E])
        BY <1>1, <3>1, EdgesReplaced
      <3>3. [w EXCEPT !.edges = E].entities = v.entities /\ [w EXCEPT !.edges = E].moments = v.moments
        BY <1>1, <3>1, EdgesReplaced DEF ViewFields
      <3> QED
        BY <3>2, <3>3 DEF E
    <2>2. a \in {w, RefreshEdges(Bump(row, "edge"), {e})}
      BY <1>4 DEF Apply, ProjectEdge, w
    <2>3. <<"edges", "RX">> \in ApplyLocks(db, v, e)
      BY <1>4 DEF ApplyLocks
    <2> HIDE DEF row, a
    <2>4. /\ IsView(Bump(row, "edge")) /\ Bump(row, "edge").moments = v.moments
          /\ Bump(row, "edge").entities = v.entities
      BY <2>1, BumpKeeps DEF ViewFields
    <2>5. IsView(a) /\ a.entities = v.entities /\ a.moments = v.moments
      BY <1>1, <2>2, <2>4, RefreshKeeps
    <2> QED
      BY <2>3, <2>5 DEF Tables, a
  <1>5. CASE Event[e].kind = "attestation"
    <2> DEFINE row == [w EXCEPT !.attestations = w.attestations \union {e}]
    <2>1. IsView(row) /\ \A f \in Tables : row[f] = v[f]
      BY <1>1 DEF IsView, ViewFields, Tables
    <2>2. a \in {w, Bump(row, "attestation")}
      BY <1>5 DEF Apply, ProjectAttestation, w
    <2> HIDE DEF row, a
    <2>3. IsView(a) /\ \A f \in Tables : a[f] = v[f]
      BY <1>1, <2>1, <2>2, BumpKeeps DEF ViewFields, Tables
    <2> QED
      BY <2>3 DEF a
  <1>6. CASE Event[e].kind \notin {"entity", "moment", "edge", "attestation"}
    <2> DEFINE row == [w EXCEPT !.vocabulary = Put(w.vocabulary, Event[e].code, e)]
    <2>1. IsView(row) /\ \A f \in Tables : row[f] = v[f]
      BY <1>1 DEF IsView, ViewFields, Tables
    <2>2. a \in {w, row}
      BY <1>6 DEF Apply, ProjectVocabulary, w
    <2> QED
      BY <1>1, <2>1, <2>2 DEF Tables
  <1> QED
    BY <1>2, <1>3, <1>4, <1>5, <1>6

LEMMA EmptyIsView == IsView(EmptyView)
  <1>1. EmptyView = [f \in ViewFields |-> EmptyView[f]] /\ EmptyView.edges = <<>>
    BY DEF EmptyView, ViewFields
  <1>2. <<>> = [ed \in DOMAIN <<>> |-> <<>>[ed]]
    OBVIOUS
  <1> QED
    BY <1>1, <1>2 DEF IsView

LEMMA RefoldIsView ==
    ASSUME NEW S, IsFiniteSet(S)
    PROVE  IsView(Refold(S))
  <1> DEFINE k == Cardinality(S)
             f == CHOOSE g : Partials(S, k, g)
  <1>1. k \in Nat
    BY FS_CardinalityType
  <1>2. Partials(S, k, f)
    BY <1>1, FoldsExist
  <1>3. Refold(S) = f[k]
    BY DEF Refold, Partials
  <1> HIDE DEF f, k
  <1>4. f[0] = EmptyView /\ \A n \in 1 .. k : f[n] = Apply(S, f[n - 1], Canonical(S)[n])
    <2>1. \A n \in 0 .. k : f[n] = IF n = 0 THEN EmptyView ELSE Apply(S, f[n - 1], Canonical(S)[n])
      BY <1>2 DEF Partials
    <2>2. 0 \in 0 .. k /\ \A n \in 1 .. k : n \in 0 .. k /\ n # 0
      BY <1>1
    <2> QED
      BY <2>1, <2>2
  <1> DEFINE Bad == {n \in 0 .. k : ~ IsView(f[n])}
  <1>5. Bad = {}
    <2> SUFFICES ASSUME Bad # {} PROVE FALSE
      OBVIOUS
    <2>1. PICK n \in Bad : \A y \in Bad : n <= y
      <3>1. Bad \in SUBSET Nat
        BY <1>1
      <3> HIDE DEF Bad
      <3> QED
        BY <3>1, LeastNat
    <2>2. n # 0
      BY <1>4, EmptyIsView
    <2>3. n \in 1 .. k /\ n - 1 \in 0 .. k /\ n - 1 \notin Bad
      <3>1. n \in 0 .. k
        OBVIOUS
      <3> HIDE DEF Bad
      <3> QED
        BY <1>1, <2>1, <2>2, <3>1
    <2>4. IsView(f[n - 1])
      BY <2>3
    <2>5. IsView(f[n])
      BY <1>4, <2>3, <2>4, ApplyKeeps
    <2> QED
      BY <2>5
  <1> QED
    BY <1>1, <1>3, <1>5
-----------------------------------------------------------------------------
(***************************************************************************)
(* Every action changes the record of one transaction.  What such a step   *)
(* does to that record, to the locks and to the tables.                    *)
(***************************************************************************)
Alone(t) == /\ tx' = [u \in Conns |-> tx'[u]] /\ IsTx(tx'[t]) /\ IsView(tx'[t].work)
            /\ \A u \in Conns : u # t => tx'[u] = tx[u]
Same(t, F) == \A f \in TxFields \ F : tx'[t][f] = tx[t][f]
Fits(t) == tx'[t].pc \in Pcs(t) /\ BatchOK(tx'[t]) /\ LocksOK(t, tx'[t])
Granted(t) == \E ls : Blockers(t, ls) = {} /\ tx'[t].holds \subseteq tx[t].holds \union ls
Agrees(t) == tx'[t].dirty =>
               \A f \in Tables : <<f, "RX">> \in tx'[t].holds \/ tx'[t].work[f] = view'[f]
Writes(t) == \/ view' = view /\ events' = events
             \/ /\ tx[t].pc = "commit" /\ tx'[t] = Idle
                /\ view' = Base(t) /\ events' = events \union tx[t].mine
             \/ tx[t].pc = "fold" /\ view' = Refold(events) /\ events' = events

(* Within its batch a transaction inserts what is left of it, and drops    *)
(* what it can see.                                                        *)
Flows(t) ==
  tx[t].pc \in Appending =>
    \/ tx'[t] = Idle
    \/ /\ tx'[t].pc \in Appending
       /\ tx'[t].cand = tx[t].cand /\ tx'[t].expected = tx[t].expected
       /\ tx[t].mine \subseteq tx'[t].mine
       /\ tx'[t].mine \union ToSet(tx'[t].todo) \subseteq tx[t].mine \union ToSet(tx[t].todo)
       /\ ToSet(tx[t].todo) \subseteq events \union tx'[t].mine \union ToSet(tx'[t].todo)
       /\ ToSet(tx'[t].todo) \subseteq ToSet(tx[t].todo)
Step(t) == Alone(t) /\ Fits(t) /\ Granted(t) /\ Agrees(t) /\ Writes(t) /\ Flows(t)

LEMMA IdleIsTx == IsTx(Idle) /\ IsView(Idle.work)
  <1>1. IsTx(Idle)
    BY DEF IsTx, Idle, TxFields
  <1>2. Idle.work = EmptyView
    BY DEF Idle
  <1> QED
    BY <1>1, <1>2, EmptyIsView

LEMMA EndGives ==
    ASSUME Shaped, NEW t \in Conns, End(t)
    PROVE  Alone(t) /\ tx'[t] = Idle
  <1>1. tx'[t] = Idle /\ tx' = [u \in Conns |-> tx'[u]] /\ \A u \in Conns : u # t => tx'[u] = tx[u]
    BY DEF Shaped, End
  <1> QED
    BY <1>1, IdleIsTx DEF Alone

LEMMA GotoGives ==
    ASSUME Shaped, NEW t \in Conns, NEW pc, Goto(t, pc)
    PROVE  Alone(t) /\ tx'[t].pc = pc /\ Same(t, {"pc"})
  <1>1. /\ tx' = [u \in Conns |-> tx'[u]] /\ \A u \in Conns : u # t => tx'[u] = tx[u]
        /\ IsTx(tx'[t]) /\ tx'[t].pc = pc /\ Same(t, {"pc"})
    BY DEF Shaped, Goto, IsTx, TxFields, Same
  <1>2. tx'[t].work = tx[t].work
    BY <1>1 DEF Same, TxFields
  <1> QED
    BY <1>1, <1>2 DEF Alone, Shaped

LEMMA TakeGives ==
    ASSUME Shaped, NEW t \in Conns, NEW ls, NEW pc, Take(t, ls, pc)
    PROVE  /\ Alone(t) /\ tx'[t].pc = pc /\ Same(t, {"pc", "holds"})
           /\ tx'[t].holds = tx[t].holds \union ls
  <1>1. /\ tx' = [u \in Conns |-> tx'[u]] /\ \A u \in Conns : u # t => tx'[u] = tx[u]
        /\ IsTx(tx'[t]) /\ tx'[t].pc = pc /\ Same(t, {"pc", "holds"})
        /\ tx'[t].holds = tx[t].holds \union ls
    BY DEF Shaped, Take, IsTx, TxFields, Same
  <1>2. tx'[t].work = tx[t].work
    BY <1>1 DEF Same, TxFields
  <1> QED
    BY <1>1, <1>2 DEF Alone, Shaped

LEMMA TakeNextGives ==
    ASSUME Shaped, NEW t \in Conns, NEW ls, NEW pc, NEW n, TakeNext(t, ls, n, pc)
    PROVE  /\ Alone(t) /\ Same(t, {"pc", "holds", "step"})
           /\ tx'[t].pc = IF tx[t].step = n THEN pc ELSE tx[t].pc
           /\ tx'[t].holds = tx[t].holds \union ls
           /\ tx'[t].step = tx[t].step + 1
  <1>1. /\ tx' = [u \in Conns |-> tx'[u]] /\ \A u \in Conns : u # t => tx'[u] = tx[u]
        /\ IsTx(tx'[t]) /\ Same(t, {"pc", "holds", "step"})
        /\ tx'[t].pc = IF tx[t].step = n THEN pc ELSE tx[t].pc
        /\ tx'[t].holds = tx[t].holds \union ls
        /\ tx'[t].step = tx[t].step + 1
    BY DEF Shaped, TakeNext, IsTx, TxFields, Same
  <1>2. tx'[t].work = tx[t].work
    BY <1>1 DEF Same, TxFields
  <1> QED
    BY <1>1, <1>2 DEF Alone, Shaped

(* Conflicting locks are never granted, so a table that u has locked is    *)
(* not written by another, and nothing is written beside a private view.   *)
LEMMA StepLeaves ==
    ASSUME LogInv, NEW t \in Conns, Step(t), NEW u \in Conns, u # t
    PROVE  /\ tx[u].dirty => view' = view
           /\ \A f \in Tables : <<f, "SRX">> \in tx[u].holds => view'[f] = view[f]
  <1>1. ASSUME NEW n, NEW a, NEW b, <<n, a>> \in tx[t].holds, <<n, b>> \in tx[u].holds
        PROVE  ~ Conflicts(a, b)
    BY <1>1 DEF LogInv, Exclusive, Compatible
  <1>2. CASE view' = view
    BY <1>2
  <1>3. CASE tx[t].pc = "commit" /\ view' = Base(t) /\ view' # view
    <2>1. tx[t].dirty /\ view' = tx[t].work
      BY <1>3 DEF Base
    <2>2. <<"digest", "row">> \in tx[t].holds
      BY <2>1 DEF LogInv, Placed, LocksOK
    <2>3. tx[u].dirty => <<"digest", "row">> \in tx[u].holds
      BY DEF LogInv, Placed, LocksOK
    <2>4. ~ tx[u].dirty
      BY <1>1, <2>2, <2>3 DEF Conflicts
    <2>5. ASSUME NEW f \in Tables, <<f, "SRX">> \in tx[u].holds PROVE view'[f] = view[f]
      <3>1. ~(<<f, "RX">> \in tx[t].holds)
        BY <1>1, <2>5 DEF Conflicts
      <3> QED
        BY <2>1, <3>1 DEF LogInv, Clean
    <2> QED
      BY <2>4, <2>5
  <1>4. CASE tx[t].pc = "fold"
    <2>1. \A i \in 1 .. 6 : <<TruncateLocks[i], "AX">> \in tx[t].holds
      <3>1. Len(TruncateLocks) = 6
        BY DEF TruncateLocks
      <3> QED
        BY <1>4, <3>1 DEF LogInv, Placed, LocksOK
    <2>2. \A f \in Tables \union {"stats"} : <<f, "AX">> \in tx[t].holds
      <3>1. /\ TruncateLocks[1] = "entities" /\ TruncateLocks[2] = "moments"
            /\ TruncateLocks[3] = "edges" /\ TruncateLocks[6] = "stats"
        BY DEF TruncateLocks
      <3> QED
        BY <2>1, <3>1 DEF Tables
    <2>3. tx[u].dirty => <<"stats", "RX">> \in tx[u].holds
      BY DEF LogInv, Placed, LocksOK
    <2>4. ~ tx[u].dirty
      <3>1. <<"stats", "AX">> \in tx[t].holds
        BY <2>2
      <3> QED
        BY <1>1, <2>3, <3>1 DEF Conflicts
    <2>5. ASSUME NEW f \in Tables PROVE ~(<<f, "SRX">> \in tx[u].holds)
      <3>1. <<f, "AX">> \in tx[t].holds
        BY <2>2
      <3> QED
        BY <1>1, <3>1 DEF Conflicts
    <2> QED
      BY <2>4, <2>5
  <1> QED
    BY <1>2, <1>3, <1>4 DEF Step, Writes

LEMMA StepKeeps ==
    ASSUME LogInv, NEW t \in Conns, Step(t)
    PROVE  LogInv'
  <1>0. \A u \in Conns : u # t => tx'[u] = tx[u]
    BY DEF Step, Alone
  <1>1. Shaped'
    <2>1. tx' = [u \in Conns |-> tx'[u]] /\ \A u \in Conns : IsTx(tx'[u]) /\ IsView(tx'[u].work)
      BY <1>0 DEF Step, Alone, LogInv, Shaped
    <2>2. IsView(view') /\ events' \in SUBSET Ids /\ IsFiniteSet(events')
      <3>1. CASE view' = view /\ events' = events
        BY <3>1 DEF LogInv, Shaped
      <3>2. CASE view' = Base(t) /\ events' = events \union tx[t].mine
        <4>1. IsView(view')
          BY <3>2 DEF Base, LogInv, Shaped
        <4>2. tx[t].mine \in SUBSET Ids /\ IsFiniteSet(tx[t].mine)
          BY DEF LogInv, Placed, BatchOK
        <4>3. events \in SUBSET Ids /\ IsFiniteSet(events)
          BY DEF LogInv, Shaped
        <4> QED
          BY <3>2, <4>1, <4>2, <4>3, FS_Union
      <3>3. CASE view' = Refold(events) /\ events' = events
        BY <3>3, RefoldIsView DEF LogInv, Shaped
      <3> QED
        BY <3>1, <3>2, <3>3 DEF Step, Writes
    <2> QED
      BY <2>1, <2>2 DEF Shaped
  <1>2. Placed'
    BY <1>0 DEF Step, Fits, LogInv, Placed
  <1>3. Exclusive'
    <2> SUFFICES ASSUME NEW a \in Conns, NEW b \in Conns, a # b
                 PROVE  Compatible(tx'[a].holds, tx'[b].holds)
      BY DEF Exclusive
    <2>1. PICK ls : Blockers(t, ls) = {} /\ tx'[t].holds \subseteq tx[t].holds \union ls
      BY DEF Step, Granted
    <2>2. \A u \in Conns : u # t => Compatible(tx'[t].holds, tx[u].holds)
      BY <2>1 DEF Blockers, Compatible, LogInv, Exclusive
    <2>3. \A x, y : Compatible(x, y) => Compatible(y, x)
      BY DEF Compatible, Conflicts
    <2>4. Compatible(tx[a].holds, tx[b].holds)
      BY DEF LogInv, Exclusive
    <2> QED
      BY <1>0, <2>2, <2>3, <2>4
  <1>4. Clean'
    <2> SUFFICES ASSUME NEW u \in Conns, tx'[u].dirty, NEW f \in Tables
                 PROVE  <<f, "RX">> \in tx'[u].holds \/ tx'[u].work[f] = view'[f]
      BY DEF Clean
    <2>1. CASE u = t
      BY <2>1 DEF Step, Agrees
    <2>2. CASE u # t
      BY <1>0, <2>2, StepLeaves DEF LogInv, Clean
    <2> QED
      BY <2>1, <2>2
  <1> QED
    BY <1>1, <1>2, <1>3, <1>4 DEF LogInv

LEMMA IdleFits ==
    ASSUME NEW t \in Conns
    PROVE  "idle" \in Pcs(t) /\ BatchOK(Idle) /\ LocksOK(t, Idle) /\ ~ Idle.dirty /\ Idle.holds = {}
  <1>1. "idle" \in Pcs(t)
    BY DEF Pcs
  <1>2. /\ Idle.pc = "idle" /\ Idle.mine = {} /\ Idle.holds = {} /\ Idle.dirty = FALSE
    BY DEF Idle
  <1>3. BatchOK(Idle)
    BY <1>2, FS_EmptySet DEF BatchOK, Appending
  <1>4. LocksOK(t, Idle)
    BY <1>2 DEF LocksOK, Appending
  <1> QED
    BY <1>1, <1>2, <1>3, <1>4

(* A transaction ends, and with it what it had done: Abort, a refusal.     *)
LEMMA EndStep ==
    ASSUME LogInv, NEW t \in Conns, End(t), view' = view, events' = events
    PROVE  Step(t)
  <1>1. Alone(t) /\ tx'[t] = Idle
    BY EndGives DEF LogInv
  <1>2. Idle.pc = "idle"
    BY DEF Idle
  <1>3. Fits(t) /\ Agrees(t)
    BY <1>1, <1>2, IdleFits DEF Fits, Agrees
  <1>4. Granted(t)
    <2>1. Blockers(t, {}) = {}
      BY DEF Blockers
    <2> QED
      BY <1>1, <2>1, IdleFits DEF Granted
  <1> QED
    BY <1>1, <1>3, <1>4 DEF Step, Writes, Flows
-----------------------------------------------------------------------------
(* A step that leaves the private view alone and releases no lock.         *)
Quiet(t) == /\ view' = view /\ events' = events
            /\ tx'[t].dirty = tx[t].dirty /\ tx'[t].work = tx[t].work
            /\ tx[t].holds \subseteq tx'[t].holds

LEMMA QuietStep ==
    ASSUME LogInv, NEW t \in Conns, Quiet(t)
    PROVE  Agrees(t) /\ Writes(t)
  BY DEF Quiet, Agrees, Writes, LogInv, Clean

LEMMA NothingTaken ==
    ASSUME NEW t \in Conns, tx'[t].holds = tx[t].holds
    PROVE  Granted(t)
  <1>1. Blockers(t, {}) = {}
    BY DEF Blockers
  <1> QED
    BY <1>1 DEF Granted

(* The first statement of the four kinds of transaction.                   *)
LEMMA BeginStep ==
    ASSUME LogInv, NEW t \in Conns, tx[t].pc = "idle", view' = view, events' = events,
           Alone(t), Same(t, {"pc", "todo", "root", "since", "settled", "cand"}),
           \/ t \in Writers /\ tx'[t].pc = "insert" /\ \E e \in Ids : tx'[t].todo = <<e>>
           \/ t \in Clients /\ tx'[t].pc = "lock" /\ \E e \in Ids : tx'[t].todo = <<e>>
           \/ t \in Rebuilders /\ tx'[t].pc = "truncate"
           \/ t \in Publishers /\ tx'[t].pc = "row"
    PROVE  Step(t)
  <1>1. tx[t] = Idle
    BY DEF LogInv, Placed, BatchOK
  <1>2. /\ tx'[t].step = 1 /\ tx'[t].mine = {} /\ tx'[t].work = tx[t].work /\ tx'[t].dirty = FALSE
        /\ tx[t].dirty = FALSE /\ tx'[t].holds = {} /\ tx[t].holds = {}
    BY <1>1 DEF Idle, Same, TxFields
  <1>3. BatchOK(tx'[t])
    <2>1. \A e \in Ids : <<e>> \in Seq(Ids) /\ <<e>> # <<>>
      OBVIOUS
    <2> QED
      BY <1>2, <2>1, FS_EmptySet DEF BatchOK, Appending
  <1>4. LocksOK(t, tx'[t])
    <2>1. Len(HttpLocks) = 3 /\ Len(TruncateLocks) = 6
      BY DEF HttpLocks, TruncateLocks
    <2> QED
      BY <1>2, <2>1, PublicationAssumption DEF LocksOK, Appending
  <1>5. tx'[t].pc \in Pcs(t)
    BY PublicationAssumption DEF Pcs, Appending
  <1>6. Granted(t)
    BY <1>2, NothingTaken
  <1>7. Agrees(t) /\ Writes(t)
    BY <1>2, QuietStep DEF Quiet
  <1>8. Flows(t)
    BY DEF Flows, Appending
  <1> QED
    BY <1>3, <1>4, <1>5, <1>6, <1>7, <1>8 DEF Step, Fits

LEMMA CommitStep ==
    ASSUME LogInv, NEW t \in Writers, NEW e \in Ids, Commit(t, e)
    PROVE  Step(t) /\ tx'[t].todo = <<e>> /\ tx'[t].mine = {}
  <1>1. t \in Conns
    BY DEF Conns
  <1>2. Alone(t) /\ Same(t, {"pc", "todo"}) /\ tx'[t].pc = "insert" /\ tx'[t].todo = <<e>>
    <2>1. /\ tx' = [u \in Conns |-> tx'[u]] /\ \A u \in Conns : u # t => tx'[u] = tx[u]
          /\ IsTx(tx'[t]) /\ tx'[t].pc = "insert" /\ tx'[t].todo = <<e>> /\ Same(t, {"pc", "todo"})
      BY <1>1 DEF LogInv, Shaped, Commit, IsTx, TxFields, Same
    <2>2. tx'[t].work = tx[t].work
      BY <2>1 DEF Same, TxFields
    <2> QED
      BY <1>1, <2>1, <2>2 DEF Alone, LogInv, Shaped
  <1>3. Same(t, {"pc", "todo", "root", "since", "settled", "cand"})
    BY <1>2 DEF Same
  <1>4. tx[t].pc = "idle" /\ view' = view /\ events' = events
    BY DEF Commit
  <1>5. tx'[t].mine = {}
    <2>1. tx[t].mine = {}
      BY <1>1, <1>4 DEF LogInv, Placed, BatchOK, Before
    <2> QED
      BY <1>2, <2>1 DEF Same, TxFields
  <1> QED
    BY <1>1, <1>2, <1>3, <1>4, <1>5, BeginStep

LEMMA BeginHttpStep ==
    ASSUME LogInv, NEW t \in Clients, NEW e \in Ids, BeginHttp(t, e)
    PROVE  Step(t) /\ tx'[t].pc = "lock" /\ tx'[t].todo = <<e>> /\ tx'[t].mine = {}
  <1>1. t \in Conns
    BY DEF Conns
  <1>2. Alone(t) /\ Same(t, {"pc", "todo"}) /\ tx'[t].pc = "lock" /\ tx'[t].todo = <<e>>
    <2>1. /\ tx' = [u \in Conns |-> tx'[u]] /\ \A u \in Conns : u # t => tx'[u] = tx[u]
          /\ IsTx(tx'[t]) /\ tx'[t].pc = "lock" /\ tx'[t].todo = <<e>> /\ Same(t, {"pc", "todo"})
      BY <1>1 DEF LogInv, Shaped, BeginHttp, IsTx, TxFields, Same
    <2>2. tx'[t].work = tx[t].work
      BY <2>1 DEF Same, TxFields
    <2> QED
      BY <1>1, <2>1, <2>2 DEF Alone, LogInv, Shaped
  <1>3. Same(t, {"pc", "todo", "root", "since", "settled", "cand"})
    BY <1>2 DEF Same
  <1>4. tx[t].pc = "idle" /\ view' = view /\ events' = events
    BY DEF BeginHttp
  <1>5. tx'[t].mine = {}
    <2>1. tx[t].mine = {}
      BY <1>1, <1>4 DEF LogInv, Placed, BatchOK, Before
    <2> QED
      BY <1>2, <2>1 DEF Same, TxFields
  <1> QED
    BY <1>1, <1>2, <1>3, <1>4, <1>5, BeginStep

LEMMA BeginRebuildStep ==
    ASSUME LogInv, NEW t \in Rebuilders, BeginRebuild(t)
    PROVE  Step(t)
  <1>1. t \in Conns
    BY DEF Conns
  <1>2. Alone(t) /\ Same(t, {"pc", "root", "since", "settled"}) /\ tx'[t].pc = "truncate"
    <2>1. /\ tx' = [u \in Conns |-> tx'[u]] /\ \A u \in Conns : u # t => tx'[u] = tx[u]
          /\ IsTx(tx'[t]) /\ tx'[t].pc = "truncate" /\ Same(t, {"pc", "root", "since", "settled"})
      BY <1>1 DEF LogInv, Shaped, BeginRebuild, IsTx, TxFields, Same
    <2>2. tx'[t].work = tx[t].work
      BY <2>1 DEF Same, TxFields
    <2> QED
      BY <1>1, <2>1, <2>2 DEF Alone, LogInv, Shaped
  <1>3. Same(t, {"pc", "todo", "root", "since", "settled", "cand"})
    BY <1>2 DEF Same
  <1>4. tx[t].pc = "idle" /\ view' = view /\ events' = events
    BY DEF BeginRebuild
  <1> QED
    BY <1>1, <1>2, <1>3, <1>4, BeginStep

LEMMA BeginPublishStep ==
    ASSUME LogInv, NEW t \in Publishers, NEW c, BeginPublish(t, c)
    PROVE  Step(t) /\ tx'[t].pc = "row" /\ tx'[t].cand = c
  <1>1. t \in Conns
    BY DEF Conns
  <1>2. Alone(t) /\ Same(t, {"pc", "cand"}) /\ tx'[t].pc = "row" /\ tx'[t].cand = c
    <2>1. /\ tx' = [u \in Conns |-> tx'[u]] /\ \A u \in Conns : u # t => tx'[u] = tx[u]
          /\ IsTx(tx'[t]) /\ tx'[t].pc = "row" /\ tx'[t].cand = c /\ Same(t, {"pc", "cand"})
      BY <1>1 DEF LogInv, Shaped, BeginPublish, IsTx, TxFields, Same
    <2>2. tx'[t].work = tx[t].work
      BY <2>1 DEF Same, TxFields
    <2> QED
      BY <1>1, <2>1, <2>2 DEF Alone, LogInv, Shaped
  <1>3. Same(t, {"pc", "todo", "root", "since", "settled", "cand"})
    BY <1>2 DEF Same
  <1>4. tx[t].pc = "idle" /\ view' = view /\ events' = events
    BY DEF BeginPublish
  <1> QED
    BY <1>1, <1>2, <1>3, <1>4, BeginStep

(* What the next statement has to lock.                                    *)
LEMMA Wants ==
    ASSUME NEW t
    PROVE  /\ tx[t].pc = "lock" => Wanted(t) = {<<HttpLocks[tx[t].step], "SRX">>}
           /\ tx[t].pc = "truncate" => Wanted(t) = {<<TruncateLocks[tx[t].step], "AX">>}
           /\ tx[t].pc = "row" => Wanted(t) = {<<tx[t].cand, "row">>}
           /\ tx[t].pc = "control" => Wanted(t) = {<<"control", "share">>}
           /\ tx[t].pc = "moments" => Wanted(t) = {<<"moments", "SRX">>}
           /\ tx[t].pc = "digest" => Wanted(t) = {<<"digest", "row">>}
           /\ tx[t].pc = "stats" => Wanted(t) = {<<"stats", "RX">>}
           /\ tx[t].pc = "apply" => Wanted(t) = ApplyLocks(Sees(t), Base(t), Now(t))
           /\ tx[t].pc \in {"idle", "check", "heads", "insert", "commit"} => Wanted(t) = {}
  BY DEF Wanted

LEMMA Unblocked ==
    ASSUME NEW t, WaitsFor(t) = {}
    PROVE  Blockers(t, Wanted(t)) = {} /\ SameEvent(t) = {}
  BY DEF WaitsFor

(* The node's three table locks, one after the other.                      *)
LEMMA LockTablesStep ==
    ASSUME LogInv, NEW t \in Clients, LockTables(t)
    PROVE  Step(t) /\ tx'[t].pc \in {"lock", "check"} /\ tx'[t].todo = tx[t].todo
                   /\ tx'[t].mine = {}
  <1>1. t \in Conns
    BY DEF Conns
  <1>2. /\ Alone(t) /\ Same(t, {"pc", "holds", "step"})
        /\ tx'[t].pc = IF tx[t].step = 3 THEN "check" ELSE "lock"
        /\ tx'[t].holds = tx[t].holds \union {<<HttpLocks[tx[t].step], "SRX">>}
        /\ tx'[t].step = tx[t].step + 1
    <2>1. Len(HttpLocks) = 3 /\ tx[t].pc = "lock"
      BY DEF HttpLocks, LockTables
    <2> QED
      BY <1>1, <2>1, TakeNextGives, Wants DEF LockTables, LogInv
  <1>3. /\ tx[t].pc = "lock" /\ Blockers(t, Wanted(t)) = {} /\ view' = view /\ events' = events
        /\ Wanted(t) = {<<HttpLocks[tx[t].step], "SRX">>}
    BY Unblocked, Wants DEF LockTables
  <1>4. /\ tx'[t].mine = tx[t].mine /\ tx'[t].dirty = tx[t].dirty /\ tx'[t].todo = tx[t].todo
        /\ tx'[t].work = tx[t].work
    BY <1>2 DEF Same, TxFields
  <1>5. /\ tx[t].mine = {} /\ ~ tx[t].dirty /\ \E e \in Ids : tx[t].todo = <<e>>
        /\ tx[t].step \in 1 .. 3
        /\ \A i \in 1 .. tx[t].step - 1 : <<HttpLocks[i], "SRX">> \in tx[t].holds
    <2>1. Len(HttpLocks) = 3
      BY DEF HttpLocks
    <2> QED
      BY <1>1, <1>3, <2>1 DEF LogInv, Placed, BatchOK, LocksOK, Before
  <1>6. BatchOK(tx'[t])
    BY <1>2, <1>4, <1>5, FS_EmptySet DEF BatchOK, Appending
  <1>7. LocksOK(t, tx'[t])
    <2>1. Len(HttpLocks) = 3
      BY DEF HttpLocks
    <2>2. \A i \in 1 .. tx'[t].step - 1 : <<HttpLocks[i], "SRX">> \in tx'[t].holds
      <3> SUFFICES ASSUME NEW i \in 1 .. tx'[t].step - 1
                   PROVE  <<HttpLocks[i], "SRX">> \in tx'[t].holds
        OBVIOUS
      <3>1. i = tx[t].step \/ i \in 1 .. tx[t].step - 1
        BY <1>2, <1>5
      <3> QED
        BY <1>2, <1>5, <3>1
    <2>3. CASE tx[t].step = 3
      <3>1. tx'[t].pc = "check" /\ \A i \in 1 .. 3 : <<HttpLocks[i], "SRX">> \in tx'[t].holds
        BY <1>2, <2>2, <2>3
      <3> QED
        BY <1>4, <1>5, <2>1, <3>1, PublicationAssumption DEF LocksOK, Appending
    <2>4. CASE tx[t].step # 3
      <3>1. tx'[t].pc = "lock" /\ tx'[t].step \in 1 .. 3 /\ tx'[t].step # 1
        BY <1>2, <1>5, <2>4
      <3> QED
        BY <1>4, <1>5, <2>1, <2>2, <3>1, PublicationAssumption DEF LocksOK, Appending
    <2> QED
      BY <2>3, <2>4
  <1>8. tx'[t].pc \in Pcs(t)
    BY <1>2, PublicationAssumption DEF Pcs
  <1>9. Granted(t)
    BY <1>2, <1>3 DEF Granted
  <1>10. Agrees(t) /\ Writes(t)
    BY <1>1, <1>2, <1>3, <1>4, QuietStep DEF Quiet
  <1>11. Flows(t)
    BY <1>3 DEF Flows, Appending
  <1> QED
    BY <1>2, <1>4, <1>5, <1>6, <1>7, <1>8, <1>9, <1>10, <1>11 DEF Step, Fits

LEMMA CheckHttpStep ==
    ASSUME LogInv, NEW t \in Clients, CheckHttp(t)
    PROVE  /\ Step(t)
           /\ \/ tx'[t] = Idle
              \/ /\ tx'[t].pc = "insert" /\ tx'[t].mine = {} /\ tx'[t].todo = tx[t].todo
                 /\ tx[t].todo = <<Now(t)>>
                 /\ Now(t) \in events \/ Check(Now(t))
  <1>1. t \in Conns
    BY DEF Conns
  <1>2. tx[t].pc = "check" /\ view' = view /\ events' = events
    BY DEF CheckHttp
  <1>3. CASE End(t)
    BY <1>1, <1>2, <1>3, EndStep, EndGives DEF LogInv
  <1>4. CASE Goto(t, "insert") /\ (Now(t) \in events \/ Check(Now(t)))
    <2>1. Alone(t) /\ tx'[t].pc = "insert" /\ Same(t, {"pc"})
      BY <1>1, <1>4, GotoGives DEF LogInv
    <2>2. /\ tx'[t].mine = tx[t].mine /\ tx'[t].dirty = tx[t].dirty /\ tx'[t].todo = tx[t].todo
          /\ tx'[t].work = tx[t].work /\ tx'[t].holds = tx[t].holds
      BY <2>1 DEF Same, TxFields
    <2>3. tx[t].mine = {} /\ ~ tx[t].dirty /\ \E e \in Ids : tx[t].todo = <<e>>
      BY <1>1, <1>2 DEF LogInv, Placed, BatchOK, Before
    <2>4. tx[t].todo \in Seq(Ids) /\ tx[t].todo # <<>> /\ tx[t].todo = <<Now(t)>>
      BY <2>3 DEF Now
    <2>5. BatchOK(tx'[t])
      BY <2>1, <2>2, <2>3, <2>4, FS_EmptySet DEF BatchOK, Before
    <2>6. LocksOK(t, tx'[t])
      <3>1. \A i \in 1 .. Len(HttpLocks) : <<HttpLocks[i], "SRX">> \in tx[t].holds
        BY <1>1, <1>2 DEF LogInv, Placed, LocksOK
      <3> QED
        BY <2>1, <2>2, <2>3, <3>1, PublicationAssumption DEF LocksOK
    <2>7. tx'[t].pc \in Pcs(t)
      BY <2>1, PublicationAssumption DEF Pcs, Appending
    <2>8. Granted(t)
      BY <1>1, <2>2, NothingTaken
    <2>9. Agrees(t) /\ Writes(t)
      BY <1>1, <1>2, <2>2, QuietStep DEF Quiet
    <2>10. Flows(t)
      BY <1>2 DEF Flows, Appending
    <2> QED
      BY <1>4, <2>1, <2>2, <2>3, <2>4, <2>5, <2>6, <2>7, <2>8, <2>9, <2>10 DEF Step, Fits
  <1> QED
    BY <1>3, <1>4 DEF CheckHttp

LEMMA TailGives ==
    ASSUME NEW s \in Seq(Ids), s # <<>>
    PROVE  /\ Head(s) \in Ids /\ Head(s) \in ToSet(s) /\ Tail(s) \in Seq(Ids)
           /\ ToSet(s) = {Head(s)} \union ToSet(Tail(s))
           /\ Tail(s) = <<>> <=> Len(s) = 1
  <1>1. Len(s) \in Nat /\ Len(s) > 0 /\ Head(s) = s[1] /\ s[1] \in Ids
    OBVIOUS
  <1>2. Tail(s) \in Seq(Ids) /\ Len(Tail(s)) = Len(s) - 1
    BY <1>1
  <1>3. \A i \in 1 .. Len(s) - 1 : Tail(s)[i] = s[i + 1]
    BY <1>1
  <1>4. DOMAIN s = 1 .. Len(s) /\ DOMAIN Tail(s) = 1 .. Len(s) - 1
    BY <1>2
  <1>5. ToSet(s) = {s[i] : i \in 1 .. Len(s)} /\ ToSet(Tail(s)) = {Tail(s)[i] : i \in 1 .. Len(s) - 1}
    BY <1>4 DEF ToSet
  <1>6. ToSet(s) \subseteq {Head(s)} \union ToSet(Tail(s))
    <2> SUFFICES ASSUME NEW i \in 1 .. Len(s), i # 1 PROVE s[i] \in ToSet(Tail(s))
      BY <1>1, <1>5
    <2>1. i - 1 \in 1 .. Len(s) - 1 /\ Tail(s)[i - 1] = s[i]
      BY <1>1, <1>3
    <2> QED
      BY <1>5, <2>1
  <1>7. {Head(s)} \union ToSet(Tail(s)) \subseteq ToSet(s)
    <2>1. 1 \in 1 .. Len(s) /\ \A i \in 1 .. Len(s) - 1 : i + 1 \in 1 .. Len(s)
      BY <1>1
    <2> QED
      BY <1>1, <1>3, <1>5, <2>1
  <1>8. Tail(s) = <<>> <=> Len(s) = 1
    BY <1>1, <1>2
  <1> QED
    BY <1>1, <1>2, <1>6, <1>7, <1>8

(* Where a batch is under way every lock stays, so the class locks do.     *)
LEMMA AppendingFits ==
    ASSUME LogInv, NEW t \in Conns, tx[t].pc \in Appending, tx'[t].pc \in Appending,
           tx[t].holds \subseteq tx'[t].holds,
           tx'[t].dirty \/ tx'[t].pc \in {"stats", "apply"} => <<"digest", "row">> \in tx'[t].holds,
           tx'[t].dirty \/ tx'[t].pc = "apply" => <<"stats", "RX">> \in tx'[t].holds
    PROVE  tx'[t].pc \in Pcs(t) /\ LocksOK(t, tx'[t])
  <1>1. tx[t].pc \in Pcs(t) /\ LocksOK(t, tx[t])
    BY DEF LogInv, Placed
  <1>2. tx'[t].pc \in Pcs(t)
    BY <1>1 DEF Pcs, Appending
  <1>3. LocksOK(t, tx'[t])
    BY <1>1 DEF LocksOK, Appending
  <1> QED
    BY <1>2, <1>3

LEMMA AppendTxStep ==
    ASSUME LogInv, NEW t \in Conns, AppendTx(t)
    PROVE  Step(t)
  <1>1. tx[t].pc = "insert" /\ view' = view /\ events' = events
    BY DEF AppendTx
  <1>2. tx[t].todo \in Seq(Ids) /\ tx[t].todo # <<>> /\ tx[t].mine \in SUBSET Ids /\ IsFiniteSet(tx[t].mine)
    BY <1>1 DEF LogInv, Placed, BatchOK, Appending
  <1>3. /\ Now(t) \in Ids /\ Now(t) \in ToSet(tx[t].todo) /\ Tail(tx[t].todo) \in Seq(Ids)
        /\ ToSet(tx[t].todo) = {Now(t)} \union ToSet(Tail(tx[t].todo))
        /\ Tail(tx[t].todo) = <<>> <=> Len(tx[t].todo) = 1
    BY <1>2, TailGives DEF Now
  <1>4. tx[t].dirty => <<"digest", "row">> \in tx[t].holds /\ <<"stats", "RX">> \in tx[t].holds
    BY DEF LogInv, Placed, LocksOK
  <1>5. CASE Now(t) \in Sees(t) /\ Skip(t)
    <2>1. /\ Alone(t) /\ Same(t, {"pc", "todo"}) /\ tx'[t].todo = Tail(tx[t].todo)
          /\ tx'[t].pc = IF Len(tx[t].todo) = 1 THEN "commit" ELSE "insert"
      <3>1. /\ tx' = [u \in Conns |-> tx'[u]] /\ \A u \in Conns : u # t => tx'[u] = tx[u]
            /\ IsTx(tx'[t]) /\ Same(t, {"pc", "todo"}) /\ tx'[t].todo = Tail(tx[t].todo)
            /\ tx'[t].pc = IF Len(tx[t].todo) = 1 THEN "commit" ELSE "insert"
        BY <1>5 DEF LogInv, Shaped, Skip, IsTx, TxFields, Same
      <3>2. tx'[t].work = tx[t].work
        BY <3>1 DEF Same, TxFields
      <3> QED
        BY <3>1, <3>2 DEF Alone, LogInv, Shaped
    <2>2. /\ tx'[t].mine = tx[t].mine /\ tx'[t].dirty = tx[t].dirty /\ tx'[t].work = tx[t].work
          /\ tx'[t].holds = tx[t].holds /\ tx'[t].cand = tx[t].cand
          /\ tx'[t].expected = tx[t].expected
      BY <2>1 DEF Same, TxFields
    <2>3. BatchOK(tx'[t])
      BY <1>2, <1>3, <2>1, <2>2 DEF BatchOK, Before, Appending
    <2>4. tx'[t].pc \in Pcs(t) /\ LocksOK(t, tx'[t])
      BY <1>1, <1>4, <2>1, <2>2, AppendingFits DEF Appending
    <2>5. Granted(t)
      BY <2>2, NothingTaken
    <2>6. Agrees(t) /\ Writes(t)
      BY <1>1, <2>2, QuietStep DEF Quiet
    <2>7. Flows(t)
      BY <1>3, <1>5, <2>1, <2>2 DEF Flows, Sees, Appending
    <2> QED
      BY <2>1, <2>3, <2>4, <2>5, <2>6, <2>7 DEF Step, Fits
  <1>6. CASE tx' = [tx EXCEPT ![t].pc = "digest", ![t].mine = @ \union {Now(t)}]
    <2>1. /\ Alone(t) /\ Same(t, {"pc", "mine"}) /\ tx'[t].pc = "digest"
          /\ tx'[t].mine = tx[t].mine \union {Now(t)}
      <3>1. /\ tx' = [u \in Conns |-> tx'[u]] /\ \A u \in Conns : u # t => tx'[u] = tx[u]
            /\ IsTx(tx'[t]) /\ Same(t, {"pc", "mine"}) /\ tx'[t].pc = "digest"
            /\ tx'[t].mine = tx[t].mine \union {Now(t)}
        BY <1>6 DEF LogInv, Shaped, IsTx, TxFields, Same
      <3>2. tx'[t].work = tx[t].work
        BY <3>1 DEF Same, TxFields
      <3> QED
        BY <3>1, <3>2 DEF Alone, LogInv, Shaped
    <2>2. /\ tx'[t].todo = tx[t].todo /\ tx'[t].dirty = tx[t].dirty /\ tx'[t].work = tx[t].work
          /\ tx'[t].holds = tx[t].holds /\ tx'[t].cand = tx[t].cand
          /\ tx'[t].expected = tx[t].expected
      BY <2>1 DEF Same, TxFields
    <2>3. BatchOK(tx'[t])
      <3>1. IsFiniteSet(tx'[t].mine)
        BY <1>2, <2>1, FS_AddElement
      <3> QED
        BY <1>2, <1>3, <2>1, <2>2, <3>1 DEF BatchOK, Before, Appending, Now
    <2>4. tx'[t].pc \in Pcs(t) /\ LocksOK(t, tx'[t])
      BY <1>1, <1>4, <2>1, <2>2, AppendingFits DEF Appending
    <2>5. Granted(t)
      BY <2>2, NothingTaken
    <2>6. Agrees(t) /\ Writes(t)
      BY <1>1, <2>2, QuietStep DEF Quiet
    <2>7. Flows(t)
      BY <1>3, <2>1, <2>2 DEF Flows, Appending
    <2> QED
      BY <2>1, <2>3, <2>4, <2>5, <2>6, <2>7 DEF Step, Fits
  <1> QED
    BY <1>5, <1>6 DEF AppendTx

(* The two statements between the insert and its projection take a lock.   *)
LEMMA DigestAndStatsStep ==
    ASSUME LogInv, NEW t \in Conns, LockDigest(t) \/ EnsureStatsRow(t)
    PROVE  Step(t)
  <1> DEFINE next == IF tx[t].pc = "digest" THEN "stats" ELSE "apply"
             lock == IF tx[t].pc = "digest" THEN <<"digest", "row">> ELSE <<"stats", "RX">>
  <1>1. /\ tx[t].pc \in {"digest", "stats"} /\ view' = view /\ events' = events
        /\ WaitsFor(t) = {} /\ Take(t, Wanted(t), next)
    BY DEF LockDigest, EnsureStatsRow
  <1>2. Wanted(t) = {lock} /\ Blockers(t, {lock}) = {}
    BY <1>1, Wants, Unblocked
  <1>3. /\ Alone(t) /\ tx'[t].pc = next /\ Same(t, {"pc", "holds"})
        /\ tx'[t].holds = tx[t].holds \union {lock}
    BY <1>1, <1>2, TakeGives DEF LogInv
  <1>4. /\ tx'[t].mine = tx[t].mine /\ tx'[t].dirty = tx[t].dirty /\ tx'[t].work = tx[t].work
        /\ tx'[t].todo = tx[t].todo /\ tx'[t].cand = tx[t].cand
        /\ tx'[t].expected = tx[t].expected
    BY <1>3 DEF Same, TxFields
  <1>5. BatchOK(tx[t]) /\ LocksOK(t, tx[t])
    BY DEF LogInv, Placed
  <1>6. BatchOK(tx'[t])
    BY <1>1, <1>3, <1>4, <1>5 DEF BatchOK, Before, Appending
  <1>7. tx'[t].pc \in Pcs(t) /\ LocksOK(t, tx'[t])
    <2>1. /\ <<"digest", "row">> \in tx'[t].holds
          /\ tx'[t].dirty \/ tx'[t].pc = "apply" => <<"stats", "RX">> \in tx'[t].holds
      BY <1>1, <1>3, <1>4, <1>5 DEF LocksOK
    <2>2. tx[t].pc \in Appending /\ tx'[t].pc \in Appending /\ tx[t].holds \subseteq tx'[t].holds
      BY <1>1, <1>3 DEF Appending
    <2> QED
      BY <2>1, <2>2, AppendingFits
  <1>8. Granted(t)
    BY <1>2, <1>3 DEF Granted
  <1>9. Agrees(t) /\ Writes(t)
    BY <1>1, <1>3, <1>4, QuietStep DEF Quiet
  <1>10. Flows(t)
    BY <1>3, <1>4 DEF Flows, Appending
  <1> QED
    BY <1>3, <1>6, <1>7, <1>8, <1>9, <1>10 DEF Step, Fits

(* A projection writes private copies of the tables it locks.              *)
LEMMA ProjectStep ==
    ASSUME LogInv, NEW t \in Conns, Project(t)
    PROVE  Step(t)
  <1>1. tx[t].pc = "apply" /\ view' = view /\ events' = events /\ WaitsFor(t) = {}
    BY DEF Project
  <1>2. CASE End(t)
    BY <1>1, <1>2, EndStep
  <1>3. CASE tx' = [tx EXCEPT ![t].work = Apply(Sees(t), Base(t), Now(t)),
                              ![t].dirty = TRUE,
                              ![t].holds = @ \union Wanted(t),
                              ![t].todo = Tail(@),
                              ![t].pc = IF Len(tx[t].todo) = 1 THEN "commit" ELSE "insert"]
    <2> DEFINE new == Apply(Sees(t), Base(t), Now(t))
               ls == ApplyLocks(Sees(t), Base(t), Now(t))
    <2>1. Wanted(t) = ls /\ Blockers(t, ls) = {}
      BY <1>1, Wants, Unblocked
    <2>2. IsView(Base(t))
      BY DEF Base, LogInv, Shaped
    <2>3. /\ IsView(new)
          /\ \A f \in Tables : <<f, "RX">> \in ls \/ new[f] = Base(t)[f]
      BY <2>2, ApplyKeeps
    <2>4. \A f \in Tables : <<f, "RX">> \in tx[t].holds \/ Base(t)[f] = view[f]
      BY DEF Base, LogInv, Clean
    <2>5. /\ tx[t].todo \in Seq(Ids) /\ tx[t].todo # <<>> /\ tx[t].mine \in SUBSET Ids
          /\ IsFiniteSet(tx[t].mine) /\ Now(t) \in tx[t].mine
      BY <1>1 DEF LogInv, Placed, BatchOK, Appending, Now
    <2>6. /\ Tail(tx[t].todo) \in Seq(Ids)
          /\ ToSet(tx[t].todo) = {Now(t)} \union ToSet(Tail(tx[t].todo))
          /\ Tail(tx[t].todo) = <<>> <=> Len(tx[t].todo) = 1
      BY <2>5, TailGives DEF Now
    <2> HIDE DEF new, ls
    <2>7. /\ Alone(t) /\ tx'[t].work = new /\ tx'[t].dirty = TRUE
          /\ tx'[t].holds = tx[t].holds \union ls /\ tx'[t].todo = Tail(tx[t].todo)
          /\ tx'[t].pc = IF Len(tx[t].todo) = 1 THEN "commit" ELSE "insert"
          /\ Same(t, {"pc", "work", "dirty", "holds", "todo"})
      <3>1. tx' = [tx EXCEPT ![t].work = new, ![t].dirty = TRUE, ![t].holds = @ \union ls,
                             ![t].todo = Tail(@),
                             ![t].pc = IF Len(tx[t].todo) = 1 THEN "commit" ELSE "insert"]
        BY <1>3, <2>1 DEF new
      <3>2. tx' = [u \in Conns |-> tx'[u]] /\ \A u \in Conns : u # t => tx'[u] = tx[u]
        BY <3>1 DEF LogInv, Shaped
      <3> DEFINE last == IF Len(tx[t].todo) = 1 THEN "commit" ELSE "insert"
      <3>3. tx'[t] = [tx[t] EXCEPT !.work = new, !.dirty = TRUE, !.holds = tx[t].holds \union ls,
                                   !.todo = Tail(tx[t].todo), !.pc = last]
        BY <3>1 DEF LogInv, Shaped, IsTx, TxFields
      <3> HIDE DEF last
      <3>4. IsTx(tx[t])
        BY DEF LogInv, Shaped
      <3>5. IsTx(tx'[t])
        BY <3>3, <3>4 DEF IsTx, TxFields
      <3>6. /\ tx'[t].work = new /\ tx'[t].dirty = TRUE /\ tx'[t].holds = tx[t].holds \union ls
            /\ tx'[t].todo = Tail(tx[t].todo) /\ tx'[t].pc = last
        BY <3>3, <3>4 DEF IsTx, TxFields
      <3>7. Same(t, {"pc", "work", "dirty", "holds", "todo"})
        BY <3>3, <3>4 DEF IsTx, TxFields, Same
      <3> QED
        BY <2>3, <3>2, <3>5, <3>6, <3>7 DEF Alone, last
    <2>8. /\ tx'[t].mine = tx[t].mine /\ tx'[t].cand = tx[t].cand
          /\ tx'[t].expected = tx[t].expected
      BY <2>7 DEF Same, TxFields
    <2>9. BatchOK(tx'[t])
      BY <2>5, <2>6, <2>7, <2>8 DEF BatchOK, Before, Appending
    <2>10. tx'[t].pc \in Pcs(t) /\ LocksOK(t, tx'[t])
      <3>1. <<"digest", "row">> \in tx[t].holds /\ <<"stats", "RX">> \in tx[t].holds
        BY <1>1 DEF LogInv, Placed, LocksOK
      <3> QED
        BY <1>1, <2>7, <3>1, AppendingFits DEF Appending
    <2>11. Granted(t)
      BY <2>1, <2>7 DEF Granted
    <2>12. Agrees(t) /\ Writes(t)
      BY <1>1, <2>3, <2>4, <2>7 DEF Agrees, Writes
    <2>13. Flows(t)
      BY <2>5, <2>6, <2>7, <2>8 DEF Flows, Appending
    <2> QED
      BY <2>7, <2>9, <2>10, <2>11, <2>12, <2>13 DEF Step, Fits
  <1> QED
    BY <1>2, <1>3 DEF Project

LEMMA CommitTxStep ==
    ASSUME LogInv, NEW t \in Conns, CommitTx(t)
    PROVE  Step(t) /\ tx'[t] = Idle
  <1>1. Alone(t) /\ tx'[t] = Idle
    BY EndGives DEF LogInv, CommitTx
  <1>2. Idle.pc = "idle"
    BY DEF Idle
  <1>3. Fits(t) /\ Agrees(t)
    BY <1>1, <1>2, IdleFits DEF Fits, Agrees
  <1>4. Granted(t)
    <2>1. Blockers(t, {}) = {}
      BY DEF Blockers
    <2> QED
      BY <1>1, <2>1, IdleFits DEF Granted
  <1> QED
    BY <1>1, <1>3, <1>4 DEF Step, Writes, Flows, CommitTx

LEMMA TruncateStep ==
    ASSUME LogInv, NEW t \in Rebuilders, Truncate(t)
    PROVE  Step(t)
  <1>1. t \in Conns /\ Len(TruncateLocks) = 6
    BY DEF Conns, TruncateLocks
  <1>2. /\ tx[t].pc = "truncate" /\ Blockers(t, Wanted(t)) = {} /\ view' = view /\ events' = events
        /\ Wanted(t) = {<<TruncateLocks[tx[t].step], "AX">>}
    BY Unblocked, Wants DEF Truncate
  <1>3. /\ Alone(t) /\ Same(t, {"pc", "holds", "step"})
        /\ tx'[t].pc = IF tx[t].step = 6 THEN "fold" ELSE "truncate"
        /\ tx'[t].holds = tx[t].holds \union {<<TruncateLocks[tx[t].step], "AX">>}
        /\ tx'[t].step = tx[t].step + 1
    BY <1>1, <1>2, TakeNextGives DEF Truncate, LogInv
  <1>4. /\ tx'[t].mine = tx[t].mine /\ tx'[t].dirty = tx[t].dirty /\ tx'[t].work = tx[t].work
    BY <1>3 DEF Same, TxFields
  <1>5. /\ tx[t].mine = {} /\ ~ tx[t].dirty /\ tx[t].step \in 1 .. 6
        /\ \A i \in 1 .. tx[t].step - 1 : <<TruncateLocks[i], "AX">> \in tx[t].holds
    BY <1>1, <1>2 DEF LogInv, Placed, BatchOK, LocksOK, Before
  <1>6. BatchOK(tx'[t])
    BY <1>3, <1>4, <1>5, FS_EmptySet DEF BatchOK, Appending
  <1>7. LocksOK(t, tx'[t])
    <2>1. \A i \in 1 .. tx'[t].step - 1 : <<TruncateLocks[i], "AX">> \in tx'[t].holds
      <3> SUFFICES ASSUME NEW i \in 1 .. tx'[t].step - 1
                   PROVE  <<TruncateLocks[i], "AX">> \in tx'[t].holds
        OBVIOUS
      <3>1. i = tx[t].step \/ i \in 1 .. tx[t].step - 1
        BY <1>3, <1>5
      <3> QED
        BY <1>3, <1>5, <3>1
    <2>2. CASE tx[t].step = 6
      <3>1. tx'[t].pc = "fold" /\ \A i \in 1 .. 6 : <<TruncateLocks[i], "AX">> \in tx'[t].holds
        BY <1>3, <2>1, <2>2
      <3> QED
        BY <1>1, <1>4, <1>5, <3>1, PublicationAssumption DEF LocksOK, Appending
    <2>3. CASE tx[t].step # 6
      <3>1. tx'[t].pc = "truncate" /\ tx'[t].step \in 1 .. 6
        BY <1>3, <1>5, <2>3
      <3> QED
        BY <1>1, <1>4, <1>5, <2>1, <3>1, PublicationAssumption DEF LocksOK, Appending
    <2> QED
      BY <2>2, <2>3
  <1>8. tx'[t].pc \in Pcs(t)
    BY <1>3, PublicationAssumption DEF Pcs
  <1>9. Granted(t)
    BY <1>2, <1>3 DEF Granted
  <1>10. Agrees(t) /\ Writes(t)
    BY <1>1, <1>2, <1>3, <1>4, QuietStep DEF Quiet
  <1>11. Flows(t)
    BY <1>2 DEF Flows, Appending
  <1> QED
    BY <1>3, <1>6, <1>7, <1>8, <1>9, <1>10, <1>11 DEF Step, Fits

(* The two statements of rebuild after the truncation.                     *)
LEMMA RebuildStep ==
    ASSUME LogInv, NEW t \in Rebuilders, Rebuild(t) \/ Compare(t)
    PROVE  Step(t)
  <1>1. t \in Conns /\ events' = events /\ tx[t].pc \in {"fold", "after"}
    BY DEF Conns, Rebuild, Compare
  <1>2. tx[t].mine = {} /\ ~ tx[t].dirty
    BY <1>1 DEF LogInv, Placed, BatchOK, Before
  <1>3. CASE End(t) /\ view' = view
    BY <1>1, <1>3, EndStep
  <1>4. CASE /\ Alone(t) /\ Writes(t) /\ tx'[t].pc \in {"after", "report"}
             /\ tx'[t].holds \subseteq tx[t].holds /\ tx'[t].mine = {} /\ ~ tx'[t].dirty
    <2>1. BatchOK(tx'[t])
      BY <1>4, FS_EmptySet DEF BatchOK, Appending
    <2>2. LocksOK(t, tx'[t])
      BY <1>4 DEF LocksOK, Appending
    <2>3. tx'[t].pc \in Pcs(t)
      BY <1>4, PublicationAssumption DEF Pcs
    <2>4. Granted(t)
      <3>1. Blockers(t, {}) = {}
        BY DEF Blockers
      <3> QED
        BY <1>4, <3>1 DEF Granted
    <2>5. Agrees(t) /\ Flows(t)
      BY <1>1, <1>4 DEF Agrees, Flows, Appending
    <2> QED
      BY <1>4, <2>1, <2>2, <2>3, <2>4, <2>5 DEF Step, Fits
  <1>5. CASE /\ tx[t].pc = "fold" /\ view' = Refold(events)
             /\ tx' = [tx EXCEPT ![t].pc = "after", ![t].holds = {}]
    <2>1. /\ tx' = [u \in Conns |-> tx'[u]] /\ \A u \in Conns : u # t => tx'[u] = tx[u]
          /\ IsTx(tx'[t]) /\ Same(t, {"pc", "holds"}) /\ tx'[t].pc = "after" /\ tx'[t].holds = {}
      BY <1>1, <1>5 DEF LogInv, Shaped, IsTx, TxFields, Same
    <2>2. tx'[t].work = tx[t].work /\ tx'[t].mine = tx[t].mine /\ tx'[t].dirty = tx[t].dirty
      BY <2>1 DEF Same, TxFields
    <2>3. Alone(t) /\ Writes(t)
      BY <1>1, <1>5, <2>1, <2>2 DEF Alone, Writes, LogInv, Shaped
    <2> QED
      BY <1>2, <1>4, <2>1, <2>2, <2>3
  <1>6. CASE Compare(t)
    <2> DEFINE said == IF ViewRoot(view, settled) = tx[t].root THEN "same" ELSE "diverged"
    <2>0. tx' = [tx EXCEPT ![t].pc = "report", ![t].root = <<>>, ![t].out = said] /\ view' = view
      BY <1>6 DEF Compare
    <2> HIDE DEF said
    <2>1. /\ tx' = [u \in Conns |-> tx'[u]] /\ \A u \in Conns : u # t => tx'[u] = tx[u]
          /\ IsTx(tx'[t]) /\ Same(t, {"pc", "root", "out"}) /\ tx'[t].pc = "report"
      BY <1>1, <2>0 DEF LogInv, Shaped, IsTx, TxFields, Same
    <2>2. /\ tx'[t].work = tx[t].work /\ tx'[t].mine = tx[t].mine /\ tx'[t].dirty = tx[t].dirty
          /\ tx'[t].holds = tx[t].holds
      BY <2>1 DEF Same, TxFields
    <2>3. Alone(t) /\ Writes(t)
      BY <1>1, <2>0, <2>1, <2>2 DEF Alone, Writes, LogInv, Shaped
    <2> QED
      BY <1>2, <1>4, <2>1, <2>2, <2>3
  <1> QED
    BY <1>1, <1>3, <1>5, <1>6 DEF Rebuild

(***************************************************************************)
(* What a step of the ledger alone (TxNext) does besides: it starts a      *)
(* batch only with what was signed outside the publisher, and for a client *)
(* after its check; it ends a publisher or goes on with its batch, but     *)
(* never commits it.                                                       *)
(***************************************************************************)
Enters(t) ==
  /\ t \in Writers \union Clients /\ tx[t].pc \notin Appending =>
       tx'[t].mine \union ToSet(tx'[t].todo)
         \subseteq tx[t].mine \union ToSet(tx[t].todo) \union world.ids
  /\ t \in Clients /\ tx[t].pc \notin Appending /\ tx'[t].pc \in Appending =>
       /\ tx'[t].mine = {}
       /\ \E e : tx'[t].todo = <<e>> /\ (e \in events \/ Check(e))
  /\ t \in Publishers => /\ events' = events
                         /\ tx[t].pc \notin Appending => tx'[t] = Idle

LEMMA Singles == ToSet(<<>>) = {} /\ \A e : ToSet(<<e>>) = {e}
  BY DEF ToSet

LEMMA IdleOwns == Idle.pc = "idle" /\ Idle.mine = {} /\ Idle.todo = <<>>
  BY DEF Idle

(* Every step of the ledger is the step of one transaction.                *)
LEMMA TxNextStep ==
    ASSUME LogInv, TxNext
    PROVE  /\ world' = world
           /\ \E t \in Conns : Step(t) /\ Enters(t)
  <1>1. ASSUME NEW t \in Writers, NEW e \in Ids, Commit(t, e)
        PROVE  Step(t) /\ Enters(t) /\ world' = world
    <2>1. t \notin Publishers /\ t \notin Clients /\ e \in world.ids /\ world' = world
      BY <1>1, PublicationAssumption DEF Commit
    <2>2. Step(t) /\ tx'[t].todo = <<e>> /\ tx'[t].mine = {}
      BY <1>1, CommitStep
    <2>3. ToSet(tx'[t].todo) = {e}
      BY <2>2, Singles
    <2> QED
      BY <2>1, <2>2, <2>3 DEF Enters
  <1>2. ASSUME NEW t \in Clients, NEW e \in Ids, BeginHttp(t, e)
        PROVE  Step(t) /\ Enters(t) /\ world' = world
    <2>1. t \notin Publishers /\ e \in world.ids /\ world' = world
      BY <1>2, PublicationAssumption DEF BeginHttp
    <2>2. "lock" \notin Appending
      BY DEF Appending
    <2>3. Step(t) /\ tx'[t].pc = "lock" /\ tx'[t].todo = <<e>> /\ tx'[t].mine = {}
      BY <1>2, BeginHttpStep
    <2>4. ToSet(tx'[t].todo) = {e}
      BY <2>3, Singles
    <2> QED
      BY <2>1, <2>2, <2>3, <2>4 DEF Enters
  <1>3. ASSUME NEW t \in Clients, LockTables(t)
        PROVE  Step(t) /\ Enters(t) /\ world' = world
    <2>1. t \notin Publishers /\ world' = world
      BY <1>3, PublicationAssumption DEF LockTables
    <2>2. "lock" \notin Appending /\ "check" \notin Appending
      BY DEF Appending
    <2> QED
      BY <1>3, <2>1, <2>2, LockTablesStep DEF Enters
  <1>4. ASSUME NEW t \in Clients, CheckHttp(t)
        PROVE  Step(t) /\ Enters(t) /\ world' = world
    <2>1. t \notin Publishers /\ world' = world
      BY <1>4, PublicationAssumption DEF CheckHttp
    <2>2. "idle" \notin Appending
      BY DEF Appending
    <2> QED
      BY <1>4, <2>1, <2>2, CheckHttpStep, IdleOwns, Singles DEF Enters
  <1>5. ASSUME NEW t \in Rebuilders, BeginRebuild(t) \/ Truncate(t) \/ Rebuild(t) \/ Compare(t)
        PROVE  Step(t) /\ Enters(t) /\ world' = world
    <2>1. t \notin Publishers \union Writers \union Clients
      BY PublicationAssumption
    <2>2. Step(t) /\ world' = world
      BY <1>5, BeginRebuildStep, TruncateStep, RebuildStep
         DEF BeginRebuild, Truncate, Rebuild, Compare
    <2> QED
      BY <2>1, <2>2 DEF Enters
  <1>6. ASSUME NEW t \in Conns, AppendTx(t) \/ LockDigest(t) \/ EnsureStatsRow(t) \/ Project(t)
        PROVE  Step(t) /\ Enters(t) /\ world' = world
    <2>1. tx[t].pc \in Appending /\ events' = events /\ world' = world
      BY <1>6 DEF AppendTx, LockDigest, EnsureStatsRow, Project, Appending
    <2> QED
      BY <1>6, <2>1, AppendTxStep, DigestAndStatsStep, ProjectStep DEF Enters
  <1>7. ASSUME NEW t \in Conns, Abort(t)
        PROVE  Step(t) /\ Enters(t) /\ world' = world
    <2>1. End(t) /\ view' = view /\ events' = events /\ world' = world
      BY <1>7 DEF Abort
    <2>2. tx'[t] = Idle /\ Step(t)
      BY <2>1, EndGives, EndStep DEF LogInv
    <2>3. "idle" \notin Appending
      BY DEF Appending
    <2> QED
      BY <2>1, <2>2, <2>3, IdleOwns, Singles DEF Enters
  <1>8. ASSUME NEW t \in Writers \union Clients, CommitTx(t)
        PROVE  Step(t) /\ Enters(t) /\ world' = world
    <2>1. t \notin Publishers /\ t \in Conns /\ world' = world /\ tx[t].pc = "commit"
      BY <1>8, PublicationAssumption DEF CommitTx, Conns
    <2>2. "commit" \in Appending
      BY DEF Appending
    <2> QED
      BY <1>8, <2>1, <2>2, CommitTxStep DEF Enters
  <1> QED
    BY <1>1, <1>2, <1>3, <1>4, <1>5, <1>6, <1>7, <1>8 DEF TxNext, Conns
-----------------------------------------------------------------------------
(* The statements of publish before its batch.                             *)
LEMMA LockCandidateStep ==
    ASSUME LogInv, NEW t \in Publishers, LockCandidate(t)
    PROVE  /\ Step(t)
           /\ \/ tx'[t] = Idle
              \/ tx'[t].pc = "control" /\ tx'[t].cand = tx[t].cand /\ Exact(tx[t].cand)
  <1>1. t \in Conns
    BY DEF Conns
  <1>2. tx[t].pc = "row" /\ view' = view /\ events' = events /\ WaitsFor(t) = {}
    BY DEF LockCandidate
  <1>3. CASE End(t)
    BY <1>1, <1>2, <1>3, EndStep, EndGives DEF LogInv
  <1>4. CASE Take(t, Wanted(t), "control") /\ Exact(tx[t].cand)
    <2>1. Wanted(t) = {<<tx[t].cand, "row">>} /\ Blockers(t, Wanted(t)) = {}
      BY <1>2, Wants, Unblocked
    <2>2. /\ Alone(t) /\ tx'[t].pc = "control" /\ Same(t, {"pc", "holds"})
          /\ tx'[t].holds = tx[t].holds \union {<<tx[t].cand, "row">>}
      BY <1>1, <1>4, <2>1, TakeGives DEF LogInv
    <2>3. /\ tx'[t].mine = tx[t].mine /\ tx'[t].dirty = tx[t].dirty /\ tx'[t].work = tx[t].work
          /\ tx'[t].cand = tx[t].cand
      BY <2>2 DEF Same, TxFields
    <2>4. tx[t].mine = {} /\ ~ tx[t].dirty /\ tx[t].holds = {}
      BY <1>1, <1>2 DEF LogInv, Placed, BatchOK, LocksOK, Before
    <2>5. BatchOK(tx'[t])
      BY <2>2, <2>3, <2>4, FS_EmptySet DEF BatchOK, Appending
    <2>6. LocksOK(t, tx'[t])
      BY <2>2, <2>3, <2>4, PublicationAssumption DEF LocksOK, Appending
    <2>7. tx'[t].pc \in Pcs(t)
      BY <2>2, PublicationAssumption DEF Pcs
    <2>8. Granted(t)
      BY <2>1, <2>2 DEF Granted
    <2>9. Agrees(t) /\ Writes(t)
      BY <1>1, <1>2, <2>2, <2>3, QuietStep DEF Quiet
    <2>10. Flows(t)
      BY <1>2 DEF Flows, Appending
    <2> QED
      BY <1>4, <2>2, <2>3, <2>5, <2>6, <2>7, <2>8, <2>9, <2>10 DEF Step, Fits
  <1> QED
    BY <1>3, <1>4 DEF LockCandidate

LEMMA ReadControlStep ==
    ASSUME LogInv, NEW t \in Publishers, ReadControl(t)
    PROVE  /\ Step(t)
           /\ \/ tx'[t] = Idle
              \/ tx'[t].pc = "moments" /\ tx'[t].cand = tx[t].cand /\ ~ paused
  <1>1. t \in Conns
    BY DEF Conns
  <1>2. tx[t].pc = "control" /\ view' = view /\ events' = events /\ WaitsFor(t) = {}
    BY DEF ReadControl
  <1>3. CASE End(t)
    BY <1>1, <1>2, <1>3, EndStep, EndGives DEF LogInv
  <1>4. CASE Take(t, Wanted(t), "moments") /\ ~ paused
    <2>1. Wanted(t) = {<<"control", "share">>} /\ Blockers(t, Wanted(t)) = {}
      BY <1>2, Wants, Unblocked
    <2>2. /\ Alone(t) /\ tx'[t].pc = "moments" /\ Same(t, {"pc", "holds"})
          /\ tx'[t].holds = tx[t].holds \union {<<"control", "share">>}
      BY <1>1, <1>4, <2>1, TakeGives DEF LogInv
    <2>3. /\ tx'[t].mine = tx[t].mine /\ tx'[t].dirty = tx[t].dirty /\ tx'[t].work = tx[t].work
          /\ tx'[t].cand = tx[t].cand
      BY <2>2 DEF Same, TxFields
    <2>4. tx[t].mine = {} /\ ~ tx[t].dirty /\ tx[t].holds = {<<tx[t].cand, "row">>}
      BY <1>1, <1>2 DEF LogInv, Placed, BatchOK, LocksOK, Before
    <2>5. BatchOK(tx'[t])
      BY <2>2, <2>3, <2>4, FS_EmptySet DEF BatchOK, Appending
    <2>6. LocksOK(t, tx'[t])
      BY <2>2, <2>3, <2>4, PublicationAssumption DEF LocksOK, Appending
    <2>7. tx'[t].pc \in Pcs(t)
      BY <2>2, PublicationAssumption DEF Pcs
    <2>8. Granted(t)
      BY <2>1, <2>2 DEF Granted
    <2>9. Agrees(t) /\ Writes(t)
      BY <1>1, <1>2, <2>2, <2>3, QuietStep DEF Quiet
    <2>10. Flows(t)
      BY <1>2 DEF Flows, Appending
    <2> QED
      BY <1>4, <2>2, <2>3, <2>5, <2>6, <2>7, <2>8, <2>9, <2>10 DEF Step, Fits
  <1> QED
    BY <1>3, <1>4 DEF ReadControl, ControlLock

LEMMA LockMomentsStep ==
    ASSUME LogInv, NEW t \in Publishers, LockMoments(t)
    PROVE  Step(t) /\ tx'[t].pc = "heads" /\ tx'[t].cand = tx[t].cand
  <1>1. t \in Conns
    BY DEF Conns
  <1>2. /\ tx[t].pc = "moments" /\ view' = view /\ events' = events
        /\ Blockers(t, Wanted(t)) = {} /\ Take(t, Wanted(t), "heads")
    BY DEF LockMoments, MomentsLock
  <1>3. Wanted(t) = {<<"moments", "SRX">>}
    BY <1>2, Wants
  <1>4. /\ Alone(t) /\ tx'[t].pc = "heads" /\ Same(t, {"pc", "holds"})
        /\ tx'[t].holds = tx[t].holds \union {<<"moments", "SRX">>}
    BY <1>1, <1>2, <1>3, TakeGives DEF LogInv
  <1>5. /\ tx'[t].mine = tx[t].mine /\ tx'[t].dirty = tx[t].dirty /\ tx'[t].work = tx[t].work
        /\ tx'[t].cand = tx[t].cand
    BY <1>4 DEF Same, TxFields
  <1>6. tx[t].mine = {} /\ ~ tx[t].dirty /\ <<"control", "share">> \in tx[t].holds
    BY <1>1, <1>2 DEF LogInv, Placed, BatchOK, LocksOK, Before
  <1>7. BatchOK(tx'[t])
    BY <1>4, <1>5, <1>6, FS_EmptySet DEF BatchOK, Appending
  <1>8. LocksOK(t, tx'[t])
    BY <1>4, <1>5, <1>6, PublicationAssumption DEF LocksOK, Appending
  <1>9. tx'[t].pc \in Pcs(t)
    BY <1>4, PublicationAssumption DEF Pcs
  <1>10. Granted(t)
    BY <1>2, <1>3, <1>4 DEF Granted
  <1>11. Agrees(t) /\ Writes(t)
    BY <1>1, <1>2, <1>4, <1>5, QuietStep DEF Quiet
  <1>12. Flows(t)
    BY <1>2 DEF Flows, Appending
  <1> QED
    BY <1>4, <1>5, <1>7, <1>8, <1>9, <1>10, <1>11, <1>12 DEF Step, Fits

LEMMA CheckHeadsStep ==
    ASSUME LogInv, Staged, NEW t \in Publishers, CheckHeads(t), tx[t].cand \in DOMAIN cands
    PROVE  /\ Step(t)
           /\ \/ tx'[t] = Idle
              \/ /\ tx'[t].pc = "insert" /\ tx'[t].cand = tx[t].cand /\ tx'[t].mine = {}
                 /\ tx'[t].expected = Heads(cands[tx[t].cand].payload)
                 /\ tx'[t].todo = Payload[cands[tx[t].cand].payload].events
  <1>1. t \in Conns
    BY DEF Conns
  <1>2. tx[t].pc = "heads" /\ view' = view /\ events' = events
    BY DEF CheckHeads
  <1>3. CASE End(t)
    BY <1>1, <1>2, <1>3, EndStep, EndGives DEF LogInv
  <1> DEFINE p == cands[tx[t].cand].payload
             todo == Payload[p].events
             heads == approvals[CandKey(tx[t].cand, p)]
  <1>4. CASE /\ heads = Heads(p)
             /\ tx' = [tx EXCEPT ![t].pc = "insert", ![t].todo = todo, ![t].expected = heads]
    <2>1. todo \in Seq(Ids) /\ todo # <<>>
      BY PublicationAssumption DEF Staged
    <2> HIDE DEF todo, heads, p
    <2>2. /\ tx' = [u \in Conns |-> tx'[u]] /\ \A u \in Conns : u # t => tx'[u] = tx[u]
          /\ IsTx(tx'[t]) /\ tx'[t].pc = "insert" /\ tx'[t].todo = todo /\ tx'[t].expected = heads
          /\ Same(t, {"pc", "todo", "expected"})
      BY <1>1, <1>4 DEF LogInv, Shaped, IsTx, TxFields, Same
    <2>3. /\ tx'[t].mine = tx[t].mine /\ tx'[t].dirty = tx[t].dirty /\ tx'[t].work = tx[t].work
          /\ tx'[t].cand = tx[t].cand /\ tx'[t].holds = tx[t].holds
      BY <2>2 DEF Same, TxFields
    <2>4. /\ tx[t].mine = {} /\ ~ tx[t].dirty
          /\ {<<"control", "share">>, <<"moments", "SRX">>} \subseteq tx[t].holds
      BY <1>1, <1>2 DEF LogInv, Placed, BatchOK, LocksOK, Before
    <2>5. Alone(t)
      BY <1>1, <2>2, <2>3 DEF Alone, LogInv, Shaped
    <2>6. BatchOK(tx'[t])
      BY <2>1, <2>2, <2>3, <2>4, FS_EmptySet DEF BatchOK, Before
    <2>7. LocksOK(t, tx'[t])
      BY <2>2, <2>3, <2>4, PublicationAssumption DEF LocksOK
    <2>8. tx'[t].pc \in Pcs(t)
      BY <2>2, PublicationAssumption DEF Pcs, Appending
    <2>9. Granted(t)
      BY <1>1, <2>3, NothingTaken
    <2>10. Agrees(t) /\ Writes(t)
      BY <1>1, <1>2, <2>3, QuietStep DEF Quiet
    <2>11. Flows(t)
      BY <1>2 DEF Flows, Appending
    <2>12. Step(t)
      BY <2>5, <2>6, <2>7, <2>8, <2>9, <2>10, <2>11 DEF Step, Fits
    <2> QED
      BY <1>4, <2>2, <2>3, <2>4, <2>12 DEF todo, p
  <1> QED
    BY <1>3, <1>4 DEF CheckHeads
-----------------------------------------------------------------------------
(* What the checks of publish and of the node read of the view.            *)
HeadsIn(m, p) ==
  [x \in Subjects(p) |->
     [b \in {r.body : r \in {m[q] : q \in {q \in DOMAIN m : m[q].subject = x}}} |->
        Cardinality({q \in DOMAIN m : m[q].subject = x /\ m[q].body = b})]]
EdgeFits(m, n, e) ==
  \A x \in {Event[e].src, Event[e].dst} :
    /\ x \in DOMAIN n
    /\ Cardinality({r.body : r \in {m[q] : q \in {q \in DOMAIN m : m[q].subject = x}}}) = 1

LEMMA HeadsReadMoments ==
    ASSUME NEW p
    PROVE  Heads(p) = HeadsIn(view.moments, p) /\ Heads(p)' = HeadsIn(view'.moments, p)
  BY DEF Heads, HeadsIn, RowsOf, Showing

LEMMA AdmitReadsTables ==
    ASSUME NEW e
    PROVE  /\ AdmitEdge(e) <=> EdgeFits(view.moments, view.entities, e)
           /\ AdmitEdge(e)' <=> EdgeFits(view'.moments, view'.entities, e)
  BY DEF AdmitEdge, EdgeFits, RowsOf

LEMMA EventsGrow ==
    ASSUME NEW t \in Conns, Step(t)
    PROVE  events \subseteq events'
  BY DEF Step, Writes

(* Within a batch the view changes only with the commit that ends it.      *)
LEMMA OwnViewStays ==
    ASSUME NEW t \in Conns, Step(t), tx[t].pc \in Appending, tx'[t].pc \in Appending
    PROVE  view' = view
  <1>1. tx'[t] # Idle
    BY DEF Idle, Appending
  <1>2. tx[t].pc # "fold"
    BY DEF Appending
  <1> QED
    BY <1>1, <1>2 DEF Step, Writes

(* A client's three table locks keep what its check has read.              *)
LEMMA CheckedKept ==
    ASSUME LogInv, Checked, NEW t \in Conns, Step(t),
           t \in Clients /\ tx[t].pc \notin Appending /\ tx'[t].pc \in Appending =>
             /\ tx'[t].mine = {}
             /\ \E e : tx'[t].todo = <<e>> /\ (e \in events \/ Check(e))
    PROVE  Checked'
  <1> SUFFICES ASSUME NEW u \in Clients, tx'[u].pc \in Appending,
                      NEW e \in tx'[u].mine \union ToSet(tx'[u].todo), Event[e].kind = "edge"
               PROVE  e \in events' \/ AdmitEdge(e)'
    BY DEF Checked
  <1>0. u \in Conns /\ events \subseteq events'
    BY EventsGrow DEF Conns
  <1>1. CASE u # t
    <2>1. tx'[u] = tx[u]
      BY <1>0, <1>1 DEF Step, Alone
    <2>2. e \in events \/ AdmitEdge(e)
      BY <2>1 DEF Checked
    <2>3. \A i \in 1 .. Len(HttpLocks) : <<HttpLocks[i], "SRX">> \in tx[u].holds
      BY <1>0, <2>1 DEF LogInv, Placed, LocksOK
    <2>4. <<"moments", "SRX">> \in tx[u].holds /\ <<"entities", "SRX">> \in tx[u].holds
      <3>1. Len(HttpLocks) = 3 /\ HttpLocks[1] = "moments" /\ HttpLocks[3] = "entities"
        BY DEF HttpLocks
      <3> QED
        BY <2>3, <3>1
    <2>5. view'.moments = view.moments /\ view'.entities = view.entities
      BY <1>0, <1>1, <2>4, StepLeaves DEF Tables
    <2> QED
      BY <1>0, <2>2, <2>5, AdmitReadsTables
  <1>2. CASE u = t /\ tx[t].pc \in Appending
    <2>1. view' = view
      BY <1>2, OwnViewStays
    <2>2. tx'[t] # Idle
      BY <1>2 DEF Idle, Appending
    <2>3. e \in tx[t].mine \union ToSet(tx[t].todo)
      BY <1>2, <2>2 DEF Step, Flows
    <2>4. e \in events \/ AdmitEdge(e)
      BY <1>2, <2>3 DEF Checked
    <2> QED
      BY <1>0, <2>1, <2>4, AdmitReadsTables
  <1>3. CASE u = t /\ tx[t].pc \notin Appending
    <2>1. PICK x : tx'[t].todo = <<x>> /\ (x \in events \/ Check(x))
      BY <1>3
    <2>2. ToSet(tx'[t].todo) = {x} /\ tx'[t].mine = {}
      BY <1>3, <2>1, Singles
    <2>3. e \in events \/ Check(e)
      BY <1>3, <2>1, <2>2
    <2>4. e \in events \/ AdmitEdge(e)
      BY <2>3 DEF Check
    <2>5. view' = view
      <3>1. tx[t].pc # "commit" /\ tx[t].pc # "fold"
        BY <1>3, PublicationAssumption DEF LogInv, Placed, Pcs, Appending
      <3> QED
        BY <3>1 DEF Step, Writes
    <2> QED
      BY <1>0, <2>4, <2>5, AdmitReadsTables
  <1> QED
    BY <1>1, <1>2, <1>3

LEMMA OutsideKept ==
    ASSUME Outside, NEW t \in Conns, Step(t), world' = world,
           t \in Writers \union Clients /\ tx[t].pc \notin Appending =>
             tx'[t].mine \union ToSet(tx'[t].todo)
               \subseteq tx[t].mine \union ToSet(tx[t].todo) \union world.ids
    PROVE  Outside'
  <1> SUFFICES ASSUME NEW u \in Writers \union Clients
               PROVE  tx'[u].mine \union ToSet(tx'[u].todo) \subseteq world.ids
    BY DEF Outside
  <1>1. CASE u # t
    <2>1. u \in Conns
      BY DEF Conns
    <2> QED
      BY <1>1, <2>1 DEF Step, Alone, Outside
  <1>2. CASE u = t /\ tx[t].pc \notin Appending
    BY <1>2 DEF Outside
  <1>3. CASE u = t /\ tx[t].pc \in Appending
    <2>1. CASE tx'[t] = Idle
      BY <1>3, <2>1, IdleOwns, Singles
    <2>2. CASE tx'[t] # Idle
      BY <1>3, <2>2 DEF Step, Flows, Outside
    <2> QED
      BY <2>1, <2>2
  <1> QED
    BY <1>1, <1>2, <1>3

(* Staged proposals and approvals are never withdrawn.                     *)
PubKept == /\ \A c \in DOMAIN cands : c \in DOMAIN cands' /\ cands'[c] = cands[c]
           /\ \A b \in DOMAIN briefs : b \in DOMAIN briefs' /\ briefs'[b] = briefs[b]
           /\ DOMAIN approvals \subseteq DOMAIN approvals'

LEMMA ExactKept ==
    ASSUME Staged, PubKept, NEW c \in DOMAIN cands, Exact(c)
    PROVE  Exact(c)'
  BY DEF Staged, PubKept, Exact, Approved, BriefKey, CandKey

LEMMA IdlePublishes ==
    ASSUME NEW u, tx'[u] = Idle
    PROVE  Publishing(u)'
  BY IdleOwns DEF Publishing, Appending

(* What a publisher has checked stays true while others move.              *)
LEMMA PublishingKept ==
    ASSUME Staged, PubKept, NEW u \in Publishers, Publishing(u),
           tx'[u] = tx[u], events \subseteq events',
           tx[u].pc \in Appending => view'.moments = view.moments,
           tx[u].pc \in {"moments", "heads"} \union Appending => paused' = paused
    PROVE  Publishing(u)'
  <1>1. CASE tx[u].pc = "idle"
    BY <1>1 DEF Publishing, Appending
  <1>2. CASE tx[u].pc # "idle"
    <2>1. PICK c : c = tx[u].cand
      OBVIOUS
    <2>2. c \in DOMAIN cands
      BY <1>2, <2>1 DEF Publishing
    <2>3. PICK p : p = cands[c].payload
      OBVIOUS
    <2>4. c \in DOMAIN cands' /\ cands'[c] = cands[c]
      BY <2>2 DEF PubKept
    <2>5. tx[u].pc \in {"control", "moments", "heads"} \union Appending => Exact(c)'
      BY <2>1, <2>2, ExactKept DEF Publishing
    <2>6. tx[u].pc \in {"moments", "heads"} \union Appending => ~ paused'
      BY DEF Publishing
    <2>7. tx[u].pc \in Appending => tx[u].expected = Heads(p)'
      BY <2>1, <2>3, HeadsReadMoments DEF Publishing
    <2>8. tx[u].pc \in Appending => /\ tx[u].mine \subseteq Batch(p)
                                    /\ ToSet(tx[u].todo) \subseteq Batch(p)
                                    /\ Batch(p) \subseteq Sees(u)' \union ToSet(tx[u].todo)
      BY <2>1, <2>3 DEF Publishing, Sees
    <2>9. tx'[u].cand = c /\ cands'[c].payload = p
      BY <2>1, <2>3, <2>4
    <2> QED
      BY <2>4, <2>5, <2>6, <2>7, <2>8, <2>9 DEF Publishing
  <1> QED
    BY <1>1, <1>2

(* ... and while it goes through its own batch.                            *)
LEMMA PublishingFlows ==
    ASSUME Staged, PubKept, NEW t \in Publishers, Publishing(t), Step(t),
           tx[t].pc \in Appending, tx'[t].pc \in Appending, paused' = paused
    PROVE  Publishing(t)'
  <1>0. t \in Conns
    BY DEF Conns
  <1>1. PICK c : c = tx[t].cand
    OBVIOUS
  <1>2. c \in DOMAIN cands
    BY <1>1 DEF Publishing, Appending
  <1>3. PICK p : p = cands[c].payload
    OBVIOUS
  <1>4. c \in DOMAIN cands' /\ cands'[c] = cands[c]
    BY <1>2 DEF PubKept
  <1>5. Exact(c)' /\ ~ paused'
    BY <1>1, <1>2, ExactKept DEF Publishing
  <1>6. view' = view /\ events \subseteq events'
    BY <1>0, OwnViewStays, EventsGrow
  <1>7. tx'[t] # Idle
    BY DEF Idle, Appending
  <1>8. /\ tx'[t].cand = c /\ tx'[t].expected = tx[t].expected
        /\ tx[t].mine \subseteq tx'[t].mine
        /\ tx'[t].mine \union ToSet(tx'[t].todo) \subseteq tx[t].mine \union ToSet(tx[t].todo)
        /\ ToSet(tx[t].todo) \subseteq events \union tx'[t].mine \union ToSet(tx'[t].todo)
        /\ ToSet(tx'[t].todo) \subseteq ToSet(tx[t].todo)
    BY <1>1, <1>7 DEF Step, Flows
  <1>9. /\ tx[t].expected = Heads(p) /\ tx[t].mine \subseteq Batch(p)
        /\ ToSet(tx[t].todo) \subseteq Batch(p)
        /\ Batch(p) \subseteq events \union tx[t].mine \union ToSet(tx[t].todo)
    BY <1>1, <1>3 DEF Publishing, Sees
  <1>10. tx'[t].expected = Heads(p)'
    BY <1>6, <1>8, <1>9, HeadsReadMoments
  <1>11. /\ tx'[t].mine \subseteq Batch(p) /\ ToSet(tx'[t].todo) \subseteq Batch(p)
         /\ Batch(p) \subseteq Sees(t)' \union ToSet(tx'[t].todo)
    BY <1>6, <1>8, <1>9 DEF Sees
  <1>12. cands'[c].payload = p
    BY <1>3, <1>4
  <1> QED
    BY <1>4, <1>5, <1>8, <1>10, <1>11, <1>12 DEF Publishing

(***************************************************************************)
(* A step of one transaction that stages, approves and publishes nothing.  *)
(***************************************************************************)
LEMMA TxStepKeeps ==
    ASSUME IInv, UNCHANGED pubvars, world' = world, NEW t \in Conns, Step(t), Enters(t) \/ t \in Publishers,
           t \in Publishers => events' = events /\ Publishing(t)'
    PROVE  IInv'
  <1>0. /\ LogInv /\ Checked /\ Outside /\ Staged /\ Receipted /\ AllOrNothing
        /\ \A u \in Publishers : Publishing(u)
    BY DEF IInv
  <1>1. /\ t \in Publishers => t \notin Writers \union Clients
        /\ briefs' = briefs /\ cands' = cands /\ approvals' = approvals /\ paused' = paused
        /\ receipts' = receipts /\ bodies' = bodies /\ evidence' = evidence
    BY PublicationAssumption DEF pubvars
  <1>2. LogInv'
    BY <1>0, StepKeeps
  <1>3. Checked'
    BY <1>0, <1>1, CheckedKept DEF Enters
  <1>4. Outside'
    BY <1>0, <1>1, OutsideKept DEF Enters
  <1>5. Staged' /\ Receipted'
    BY <1>0, <1>1 DEF Staged, Receipted, Evidenced
  <1>6. ASSUME NEW u \in Publishers PROVE Publishing(u)'
    <2>1. CASE u = t
      BY <2>1
    <2>2. CASE u # t
      <3>1. u \in Conns
        BY DEF Conns
      <3>2. tx'[u] = tx[u] /\ events \subseteq events'
        BY <2>2, <3>1, EventsGrow DEF Step, Alone
      <3>3. tx[u].pc \in Appending => <<"moments", "SRX">> \in tx[u].holds
        BY <1>0, <3>1 DEF LogInv, Placed, LocksOK
      <3>4. tx[u].pc \in Appending => view'.moments = view.moments
        BY <1>0, <2>2, <3>1, <3>3, StepLeaves DEF Tables
      <3>5. PubKept
        BY <1>1 DEF PubKept
      <3> QED
        BY <1>0, <1>1, <3>2, <3>4, <3>5, PublishingKept
    <2> QED
      BY <2>1, <2>2
  <1>7. AllOrNothing'
    <2>1. events \subseteq events'
      BY EventsGrow
    <2>2. events' \subseteq events \union world.ids
      <3>1. CASE t \in Publishers
        BY <3>1
      <3>2. CASE t \in Writers \union Clients
        BY <1>0, <3>2 DEF Step, Writes, Outside
      <3>3. CASE t \notin Publishers \union Writers \union Clients
        <4>1. tx[t].pc # "commit"
          BY <1>0, <3>3 DEF LogInv, Placed, Pcs
        <4> QED
          BY <4>1 DEF Step, Writes
      <3> QED
        BY <3>1, <3>2, <3>3
    <2> QED
      BY <1>0, <1>1, <2>1, <2>2 DEF AllOrNothing, Evidenced
  <1> QED
    BY <1>2, <1>3, <1>4, <1>5, <1>6, <1>7 DEF IInv

LEMMA TxNextKeeps ==
    ASSUME IInv, TxNext, UNCHANGED pubvars
    PROVE  IInv'
  <1>1. LogInv /\ Staged /\ \A u \in Publishers : Publishing(u)
    BY DEF IInv
  <1>2. PICK t \in Conns : Step(t) /\ Enters(t) /\ world' = world
    BY <1>1, TxNextStep
  <1>3. ASSUME t \in Publishers PROVE events' = events /\ Publishing(t)'
    <2>1. CASE tx'[t] = Idle
      BY <1>2, <1>3, <2>1, IdlePublishes DEF Enters
    <2>2. CASE tx'[t] # Idle
      <3>1. tx[t].pc \in Appending /\ tx'[t].pc \in Appending
        BY <1>2, <1>3, <2>2 DEF Enters, Step, Flows
      <3>2. PubKept /\ paused' = paused
        BY DEF PubKept, pubvars
      <3> QED
        BY <1>1, <1>2, <1>3, <3>1, <3>2, PublishingFlows DEF Enters
    <2> QED
      BY <2>1, <2>2
  <1> QED
    BY <1>2, <1>3, TxStepKeeps

(* Briefs, candidates, approvals and the pause switch.                     *)
LEMMA DeskKeeps ==
    ASSUME IInv, UNCHANGED <<events, view, tx, world>>, UNCHANGED <<receipts, bodies, evidence>>,
           PubKept, Staged',
           \/ paused' = paused
           \/ \A t \in Conns : <<"control", "share">> \notin tx[t].holds
    PROVE  IInv'
  <1>0. /\ LogInv /\ Checked /\ Outside /\ Staged /\ Receipted /\ AllOrNothing
        /\ \A u \in Publishers : Publishing(u)
    BY DEF IInv
  <1>1. /\ tx' = tx /\ view' = view /\ events' = events /\ world' = world
        /\ receipts' = receipts /\ bodies' = bodies /\ evidence' = evidence
    OBVIOUS
  <1>2. LogInv'
    BY <1>0, <1>1 DEF LogInv, Shaped, Placed, Exclusive, Clean
  <1>3. Checked'
    BY <1>0, <1>1, AdmitReadsTables DEF Checked
  <1>4. Outside' /\ AllOrNothing'
    BY <1>0, <1>1 DEF Outside, AllOrNothing, Evidenced
  <1>5. Receipted'
    BY <1>0, <1>1 DEF Receipted, PubKept, Evidenced
  <1>6. ASSUME NEW u \in Publishers PROVE Publishing(u)'
    <2>1. u \in Conns
      BY DEF Conns
    <2>2. tx[u].pc \in {"moments", "heads"} \union Appending => <<"control", "share">> \in tx[u].holds
      BY <1>0, <2>1 DEF LogInv, Placed, LocksOK
    <2>3. tx[u].pc \in {"moments", "heads"} \union Appending => paused' = paused
      BY <2>1, <2>2
    <2> QED
      BY <1>0, <1>1, <2>3, PublishingKept
  <1> QED
    BY <1>2, <1>3, <1>4, <1>5, <1>6 DEF IInv

LEMMA StagingKeeps ==
    ASSUME IInv,
           \/ \E b \in DOMAIN Briefs : \E content \in Briefs[b] : StageBrief(b, content)
           \/ \E c \in DOMAIN Candidates, b \in DOMAIN Briefs : \E p \in Candidates[c] :
                StageCandidate(c, b, p)
           \/ \E b \in DOMAIN Briefs : ApproveBrief(b)
           \/ \E c \in DOMAIN Candidates : ReadHeads(c)
           \/ WriteApproval
           \/ \E flag \in BOOLEAN : SetPaused(flag)
    PROVE  IInv'
  <1>0. Staged
    BY DEF IInv
  <1>1. ASSUME NEW b, NEW content, StageBrief(b, content) PROVE IInv'
    <2>1. PubKept /\ Staged'
      BY <1>0, <1>1 DEF StageBrief, Put, PubKept, Staged
    <2> QED
      BY <1>1, <2>1, DeskKeeps DEF StageBrief, vars
  <1>2. ASSUME NEW c \in DOMAIN Candidates, NEW b, NEW p \in Candidates[c], StageCandidate(c, b, p)
        PROVE  IInv'
    <2>1. PubKept
      BY <1>2 DEF StageCandidate, Put, PubKept
    <2>2. p \in DOMAIN Payload /\ b \in DOMAIN briefs
      BY <1>2, PublicationAssumption DEF StageCandidate
    <2>3. ASSUME NEW d \in DOMAIN cands'
          PROVE  /\ d \in DOMAIN Candidates /\ cands'[d].payload \in DOMAIN Payload
                 /\ cands'[d].brief \in DOMAIN briefs
      <3>1. DOMAIN cands' = DOMAIN cands \union {c}
        BY <1>2 DEF StageCandidate, Put
      <3>2. cands'[d] = IF d = c THEN [brief |-> b, payload |-> p] ELSE cands[d]
        BY <1>2, <3>1 DEF StageCandidate, Put
      <3> QED
        BY <1>0, <2>2, <3>1, <3>2 DEF Staged
    <2>4. Staged'
      BY <1>2, <2>3 DEF StageCandidate, Staged
    <2> QED
      BY <1>2, <2>1, <2>4, DeskKeeps DEF StageCandidate, vars
  <1>3. ASSUME NEW b, ApproveBrief(b) PROVE IInv'
    <2>1. PubKept /\ Staged'
      BY <1>0, <1>3 DEF ApproveBrief, Put, PubKept, Staged
    <2> QED
      BY <1>3, <2>1, DeskKeeps DEF ApproveBrief, vars
  <1>4. ASSUME NEW c, ReadHeads(c) PROVE IInv'
    <2>1. PubKept /\ Staged'
      BY <1>0, <1>4 DEF ReadHeads, PubKept, Staged
    <2> QED
      BY <1>4, <2>1, DeskKeeps DEF ReadHeads, vars
  <1>5. ASSUME WriteApproval PROVE IInv'
    <2>1. PubKept /\ Staged'
      BY <1>0, <1>5 DEF WriteApproval, Put, PubKept, Staged
    <2> QED
      BY <1>5, <2>1, DeskKeeps DEF WriteApproval, vars
  <1>6. ASSUME NEW flag, SetPaused(flag) PROVE IInv'
    <2>1. PubKept /\ Staged'
      BY <1>0, <1>6 DEF SetPaused, PubKept, Staged
    <2> QED
      BY <1>6, <2>1, DeskKeeps DEF SetPaused, vars
  <1> QED
    BY <1>1, <1>2, <1>3, <1>4, <1>5, <1>6

(* The statements of publish up to its batch, and its refusals.            *)
LEMMA PublisherKeeps ==
    ASSUME IInv, NEW t \in Publishers,
           \/ \E c \in DOMAIN Candidates : BeginPublish(t, c)
           \/ LockCandidate(t) \/ ReadControl(t) \/ LockMoments(t) \/ CheckHeads(t)
           \/ RefuseEvidence(t)
    PROVE  IInv'
  <1>0. /\ LogInv /\ Staged /\ Publishing(t) /\ t \in Conns
        /\ UNCHANGED pubvars /\ world' = world /\ view' = view /\ events' = events
    BY DEF IInv, Conns, BeginPublish, LockCandidate, ReadControl, LockMoments, CheckHeads,
           RefuseEvidence
  <1>1. PubKept /\ paused' = paused /\ cands' = cands
    BY <1>0 DEF PubKept, pubvars
  <1>2. ASSUME Step(t), Publishing(t)' PROVE IInv'
    BY <1>0, <1>2, TxStepKeeps
  <1>3. ASSUME Step(t), tx'[t] = Idle PROVE IInv'
    BY <1>2, <1>3, IdlePublishes
  <1>4. ASSUME NEW c \in DOMAIN Candidates, BeginPublish(t, c) PROVE IInv'
    <2>1. Step(t) /\ tx'[t].pc = "row" /\ tx'[t].cand = c
      BY <1>0, <1>4, BeginPublishStep
    <2>2. c \in DOMAIN cands'
      BY <1>1, <1>4 DEF BeginPublish
    <2>3. Publishing(t)'
      BY <2>1, <2>2 DEF Publishing, Appending
    <2> QED
      BY <1>2, <2>1, <2>3
  <1>5. ASSUME LockCandidate(t) PROVE IInv'
    <2>1. CASE tx'[t] = Idle
      BY <1>0, <1>3, <1>5, <2>1, LockCandidateStep
    <2>2. CASE tx'[t] # Idle
      <3>1. /\ Step(t) /\ tx'[t].pc = "control" /\ tx'[t].cand = tx[t].cand /\ Exact(tx[t].cand)
        BY <1>0, <1>5, <2>2, LockCandidateStep
      <3>2. tx[t].cand \in DOMAIN cands
        BY <1>0, <1>5 DEF Publishing, LockCandidate
      <3>3. PICK c : c = tx[t].cand
        OBVIOUS
      <3>4. Exact(c)'
        BY <1>0, <1>1, <3>1, <3>2, <3>3, ExactKept
      <3>5. Publishing(t)'
        BY <1>1, <3>1, <3>2, <3>3, <3>4 DEF Publishing, Appending
      <3> QED
        BY <1>2, <3>1, <3>5
    <2> QED
      BY <2>1, <2>2
  <1>6. ASSUME ReadControl(t) PROVE IInv'
    <2>1. CASE tx'[t] = Idle
      BY <1>0, <1>3, <1>6, <2>1, ReadControlStep
    <2>2. CASE tx'[t] # Idle
      <3>1. Step(t) /\ tx'[t].pc = "moments" /\ tx'[t].cand = tx[t].cand /\ ~ paused
        BY <1>0, <1>6, <2>2, ReadControlStep
      <3>2. tx[t].cand \in DOMAIN cands /\ Exact(tx[t].cand)
        BY <1>0, <1>6 DEF Publishing, ReadControl
      <3>3. PICK c : c = tx[t].cand
        OBVIOUS
      <3>4. Exact(c)'
        BY <1>0, <1>1, <3>2, <3>3, ExactKept
      <3>5. Publishing(t)'
        BY <1>1, <3>1, <3>2, <3>3, <3>4 DEF Publishing, Appending
      <3> QED
        BY <1>2, <3>1, <3>5
    <2> QED
      BY <2>1, <2>2
  <1>7. ASSUME LockMoments(t) PROVE IInv'
    <2>1. Step(t) /\ tx'[t].pc = "heads" /\ tx'[t].cand = tx[t].cand
      BY <1>0, <1>7, LockMomentsStep
    <2>2. tx[t].cand \in DOMAIN cands /\ Exact(tx[t].cand) /\ ~ paused
      BY <1>0, <1>7 DEF Publishing, LockMoments
    <2>3. PICK c : c = tx[t].cand
      OBVIOUS
    <2>4. Exact(c)'
      BY <1>0, <1>1, <2>2, <2>3, ExactKept
    <2>5. Publishing(t)'
      BY <1>1, <2>1, <2>2, <2>3, <2>4 DEF Publishing, Appending
    <2> QED
      BY <1>2, <2>1, <2>5
  <1>8. ASSUME CheckHeads(t) PROVE IInv'
    <2>1. tx[t].cand \in DOMAIN cands /\ Exact(tx[t].cand) /\ ~ paused
      BY <1>0, <1>8 DEF Publishing, CheckHeads
    <2>2. CASE tx'[t] = Idle
      BY <1>0, <1>3, <1>8, <2>1, <2>2, CheckHeadsStep
    <2>3. CASE tx'[t] # Idle
      <3>1. PICK c, p : c = tx[t].cand /\ p = cands[c].payload
        OBVIOUS
      <3>2. /\ Step(t) /\ tx'[t].pc = "insert" /\ tx'[t].cand = c /\ tx'[t].mine = {}
            /\ tx'[t].expected = Heads(p) /\ tx'[t].todo = Payload[p].events
        BY <1>0, <1>8, <2>1, <2>3, <3>1, CheckHeadsStep
      <3>3. Exact(c)'
        BY <1>0, <1>1, <2>1, <3>1, ExactKept
      <3>4. tx'[t].expected = Heads(p)'
        BY <1>0, <3>2, HeadsReadMoments
      <3>5. ToSet(tx'[t].todo) = Batch(p)
        BY <3>2 DEF Batch
      <3>6. c \in DOMAIN cands' /\ cands'[c].payload = p /\ ~ paused'
        BY <1>1, <2>1, <3>1
      <3>7. Publishing(t)'
        BY <3>2, <3>3, <3>4, <3>5, <3>6 DEF Publishing
      <3> QED
        BY <1>2, <3>2, <3>7
    <2> QED
      BY <2>2, <2>3
  <1>9. ASSUME RefuseEvidence(t) PROVE IInv'
    <2>1. Step(t) /\ tx'[t] = Idle
      BY <1>0, <1>9, EndStep, EndGives DEF RefuseEvidence, LogInv
    <2> QED
      BY <1>3, <2>1
  <1> QED
    BY <1>4, <1>5, <1>6, <1>7, <1>8, <1>9

(* The commit of a publication.                                            *)
LEMMA PublishTxKeeps ==
    ASSUME IInv, NEW t \in Publishers, PublishTx(t)
    PROVE  IInv'
  <1>0. /\ LogInv /\ Checked /\ Outside /\ Staged /\ Receipted /\ AllOrNothing
        /\ \A u \in Publishers : Publishing(u)
    BY DEF IInv
  <1>1. PICK c, p : c = tx[t].cand /\ p = cands[c].payload
    OBVIOUS
  <1>2. /\ t \in Conns /\ t \notin Writers \union Clients /\ tx[t].pc = "commit" /\ CommitTx(t)
        /\ ~ Contradicts(p) /\ receipts' = Put(receipts, c, p)
        /\ bodies' = bodies \union {Event[e].body : e \in {e \in Batch(p) : IsMoment(e)}}
        /\ evidence' = [e \in DOMAIN evidence \union Evidenced(p) |->
                          IF e \in DOMAIN evidence THEN evidence[e] ELSE Payload[p].evidence]
        /\ briefs' = briefs /\ cands' = cands /\ approvals' = approvals /\ paused' = paused
    BY <1>1, PublicationAssumption DEF PublishTx, Conns
  <1>3. /\ Step(t) /\ tx'[t] = Idle /\ events' = events \union tx[t].mine /\ world' = world
    BY <1>0, <1>2, CommitTxStep DEF CommitTx
  <1>4. LogInv' /\ Checked' /\ Outside'
    <2>1. t \notin Clients
      BY <1>2
    <2> QED
      BY <1>0, <1>2, <1>3, <2>1, StepKeeps, CheckedKept, OutsideKept
  <1>5. c \in DOMAIN cands /\ tx[t].mine \subseteq Batch(p) /\ Batch(p) \subseteq events'
    <2>1. /\ c \in DOMAIN cands /\ tx[t].mine \subseteq Batch(p)
          /\ Batch(p) \subseteq Sees(t) \union ToSet(tx[t].todo)
      BY <1>0, <1>1, <1>2 DEF Publishing, Appending
    <2>2. tx[t].todo = <<>>
      BY <1>0, <1>2 DEF LogInv, Placed, BatchOK
    <2> QED
      BY <1>3, <2>1, <2>2, Singles DEF Sees
  <1>6. /\ DOMAIN receipts' = DOMAIN receipts \union {c} /\ receipts'[c] = p
        /\ \A d \in DOMAIN receipts : receipts'[d] = receipts[d]
    <2>1. c \in DOMAIN receipts => receipts[c] = p
      BY <1>0, <1>1 DEF Receipted
    <2> QED
      BY <1>2, <2>1 DEF Put
  <1>7. /\ DOMAIN evidence' = DOMAIN evidence \union Evidenced(p)
        /\ \A e \in DOMAIN evidence : evidence'[e] = evidence[e]
        /\ \A e \in Evidenced(p) : evidence'[e] = Payload[p].evidence
    BY <1>2 DEF Contradicts
  <1>8. Staged'
    BY <1>0, <1>2 DEF Staged
  <1>9. Receipted'
    <2> SUFFICES ASSUME NEW d \in DOMAIN receipts'
                 PROVE  /\ d \in DOMAIN cands' /\ receipts'[d] = cands'[d].payload
                        /\ Evidenced(receipts'[d]) \subseteq DOMAIN evidence'
      BY DEF Receipted, Evidenced
    <2>1. CASE d = c
      BY <1>1, <1>2, <1>5, <1>6, <1>7, <2>1
    <2>2. CASE d # c
      BY <1>0, <1>2, <1>6, <1>7, <2>2 DEF Receipted
    <2> QED
      BY <2>1, <2>2
  <1>10. AllOrNothing'
    <2>1. ASSUME NEW d \in DOMAIN receipts'
          PROVE  /\ Batch(receipts'[d]) \subseteq events'
                 /\ {Event[e].body : e \in {e \in Batch(receipts'[d]) : IsMoment(e)}} \subseteq bodies'
                 /\ \A e \in Evidenced(receipts'[d]) : evidence'[e] = Payload[receipts'[d]].evidence
      <3>1. CASE d = c
        BY <1>2, <1>5, <1>6, <1>7, <3>1
      <3>2. CASE d # c
        <4>1. d \in DOMAIN receipts /\ receipts'[d] = receipts[d]
          BY <1>6, <3>2
        <4>2. /\ Batch(receipts[d]) \subseteq events
              /\ {Event[e].body : e \in {e \in Batch(receipts[d]) : IsMoment(e)}} \subseteq bodies
              /\ \A e \in Evidenced(receipts[d]) : evidence[e] = Payload[receipts[d]].evidence
          BY <1>0, <4>1 DEF AllOrNothing
        <4>3. Evidenced(receipts[d]) \subseteq DOMAIN evidence
          BY <1>0, <4>1 DEF Receipted
        <4> QED
          BY <1>2, <1>3, <1>7, <4>1, <4>2, <4>3
      <3> QED
        BY <3>1, <3>2
    <2>2. ASSUME NEW e \in events' \ world'.ids
          PROVE  \E d \in DOMAIN receipts' : e \in Batch(receipts'[d])
      <3>1. CASE e \in tx[t].mine
        BY <1>5, <1>6, <3>1
      <3>2. CASE e \notin tx[t].mine
        <4>1. PICK d \in DOMAIN receipts : e \in Batch(receipts[d])
          BY <1>0, <1>3, <3>2 DEF AllOrNothing
        <4> QED
          BY <1>6, <4>1
      <3> QED
        BY <3>1, <3>2
    <2> QED
      BY <2>1, <2>2 DEF AllOrNothing, Evidenced
  <1>11. ASSUME NEW u \in Publishers PROVE Publishing(u)'
    <2>1. CASE u = t
      BY <1>3, <2>1, IdlePublishes
    <2>2. CASE u # t
      <3>1. u \in Conns
        BY DEF Conns
      <3>2. tx'[u] = tx[u] /\ events \subseteq events'
        BY <1>2, <1>3, <2>2, <3>1, EventsGrow DEF Step, Alone
      <3>3. tx[u].pc \in Appending => <<"moments", "SRX">> \in tx[u].holds
        BY <1>0, <3>1 DEF LogInv, Placed, LocksOK
      <3>4. tx[u].pc \in Appending => view'.moments = view.moments
        BY <1>0, <1>2, <1>3, <2>2, <3>1, <3>3, StepLeaves DEF Tables
      <3>5. PubKept
        BY <1>2 DEF PubKept
      <3> QED
        BY <1>0, <1>2, <3>2, <3>4, <3>5, PublishingKept
    <2> QED
      BY <2>1, <2>2
  <1> QED
    BY <1>4, <1>8, <1>9, <1>10, <1>11 DEF IInv

LEMMA InitHolds == PubInit => IInv
  <1> SUFFICES ASSUME PubInit PROVE IInv
    OBVIOUS
  <1>1. /\ events = {} /\ view = EmptyView /\ tx = [t \in Conns |-> Idle]
        /\ cands = <<>> /\ receipts = <<>>
    BY DEF PubInit, LogInit
  <1>2. \A t \in Conns : tx[t] = Idle
    BY <1>1
  <1>3. Shaped
    <2>1. IsFiniteSet(events) /\ events \in SUBSET Ids
      BY <1>1, FS_EmptySet
    <2>2. tx = [t \in Conns |-> tx[t]]
      BY <1>1
    <2> QED
      BY <1>1, <1>2, <2>1, <2>2, IdleIsTx, EmptyIsView DEF Shaped
  <1>4. Placed
    BY <1>2, IdleFits, IdleOwns DEF Placed
  <1>5. Exclusive /\ Clean
    BY <1>2, IdleFits DEF Exclusive, Clean, Compatible
  <1>6. Checked /\ Outside
    <2>1. Writers \union Clients \subseteq Conns
      BY DEF Conns
    <2> QED
      BY <1>2, <2>1, IdleOwns, Singles DEF Checked, Outside, Appending
  <1>7. DOMAIN cands = {} /\ DOMAIN receipts = {}
    BY <1>1
  <1>8. Staged /\ Receipted /\ AllOrNothing
    BY <1>1, <1>7 DEF Staged, Receipted, AllOrNothing
  <1>9. ASSUME NEW t \in Publishers PROVE Publishing(t)
    <2>1. tx[t] = Idle
      BY <1>2 DEF Conns
    <2> QED
      BY <2>1, IdleOwns DEF Publishing, Appending
  <1> QED
    BY <1>3, <1>4, <1>5, <1>6, <1>8, <1>9 DEF IInv, LogInv

LEMMA NextKeeps == IInv /\ [PubNext]_allvars => IInv'
  <1> SUFFICES ASSUME IInv, [PubNext]_allvars PROVE IInv'
    OBVIOUS
  <1>1. CASE TxNext /\ UNCHANGED pubvars
    BY <1>1, TxNextKeeps
  <1>2. CASE UNCHANGED <<events, view, tx, world>> /\ UNCHANGED pubvars
    <2>1. PubKept /\ Staged' /\ paused' = paused
      BY <1>2 DEF pubvars, PubKept, Staged, IInv
    <2> QED
      BY <1>2, <2>1, DeskKeeps DEF pubvars
  <1>3. UNCHANGED allvars \/ (Settle /\ UNCHANGED pubvars)
          => UNCHANGED <<events, view, tx, world>> /\ UNCHANGED pubvars
    BY DEF allvars, vars, Settle
  <1>4. CASE PubNext /\ ~(LogNext /\ UNCHANGED pubvars)
    BY <1>4, StagingKeeps, PublisherKeeps, PublishTxKeeps DEF PubNext
  <1> QED
    BY <1>1, <1>2, <1>3, <1>4 DEF LogNext

(* The inductive invariant holds in every reachable state.                 *)
THEOREM Invariance == PubSpec => []IInv
  BY InitHolds, NextKeeps, PTL DEF PubSpec

(* For any candidates and payloads, whatever dies, is refused or commits   *)
(* meanwhile: publish (one transaction for events, bodies, evidence and    *)
(* receipt) publishes a candidate as a whole or not at all.                *)
THEOREM PublicationsAreWhole == PubSpec => []AllOrNothing
  <1>1. IInv => AllOrNothing
    BY DEF IInv
  <1> QED
    BY <1>1, Invariance, PTL

(* The locks of publish (candidate FOR UPDATE, control FOR SHARE, moments  *)
(* in SHARE ROW EXCLUSIVE) keep what it checked until it commits: every    *)
(* receipt is of an approved digest, unpaused, over the bodies that the    *)
(* approval expected when publish read it.                                 *)
THEOREM PublicationsAreApproved == PubSpec => PublishedAsApproved
  <1> DEFINE New(c) == /\ ~ paused
                       /\ Exact(c)
                       /\ \E t \in Publishers : /\ tx[t].pc = "commit" /\ tx[t].cand = c
                                                /\ tx[t].expected = Heads(cands[c].payload)
             All    == \A c \in DOMAIN receipts' \ DOMAIN receipts :
                         /\ ~ paused
                         /\ Exact(c)
                         /\ \E t \in Publishers : /\ tx[t].pc = "commit" /\ tx[t].cand = c
                                                 /\ tx[t].expected = Heads(cands[c].payload)
  <1>1. ASSUME IInv, [PubNext]_allvars, NEW c \in DOMAIN receipts' \ DOMAIN receipts
        PROVE  New(c)
    <2>1. PICK t \in Publishers : PublishTx(t)
      <3>1. receipts' # receipts
        OBVIOUS
      <3>2. ~ UNCHANGED receipts => PubNext /\ ~ UNCHANGED pubvars
        BY <1>1 DEF allvars, pubvars
      <3> QED
        BY <3>1, <3>2 DEF PubNext, StageBrief, StageCandidate, ApproveBrief, ReadHeads, WriteApproval,
           SetPaused, BeginPublish, LockCandidate, ReadControl, LockMoments, CheckHeads,
           RefuseEvidence, pubvars
    <2>2. tx[t].pc = "commit" /\ receipts' = Put(receipts, tx[t].cand, cands[tx[t].cand].payload)
      BY <2>1 DEF PublishTx
    <2>3. c = tx[t].cand
      BY <2>2 DEF Put
    <2>4. Publishing(t)
      BY <1>1 DEF IInv
    <2>5. ~ paused /\ Exact(c) /\ tx[t].expected = Heads(cands[c].payload)
      BY <2>2, <2>3, <2>4 DEF Publishing, Appending
    <2> QED
      BY <2>2, <2>3, <2>5
  <1>2. IInv /\ [PubNext]_allvars => [All]_allvars
    BY <1>1
  <1> QED
    BY <1>2, Invariance, PTL DEF PubSpec, PublishedAsApproved

(* The node's table locks keep what its check of an edge saw: the edges it *)
(* commits join subjects that have one body each, whatever interleaves.    *)
THEOREM EdgesJoinBoundSubjects == PubSpec => EdgeJoinsBoundSubjects
  <1> DEFINE Bound == \A t \in Clients : \A e \in events' \ events :
                        (tx[t].pc = "commit" /\ e \in tx[t].mine /\ Event[e].kind = "edge")
                          => AdmitEdge(e)
  <1>1. IInv /\ [PubNext]_allvars => [Bound]_vars
    <2>1. IInv => Bound
      BY DEF IInv, Checked, Appending
    <2> QED
      BY <2>1
  <1> QED
    BY <1>1, Invariance, PTL DEF PubSpec, EdgeJoinsBoundSubjects

(* Publishers and HTTP requests never wait for each other in a circle:     *)
(* the one that has locked the moments waits for none of them, and the     *)
(* others hold at most a candidate's row and a share of the control row,   *)
(* which nobody behind them waits for.                                     *)
Leads(t) == <<"moments", "SRX">> \in tx[t].holds

LEMMA OthersHoldLittle ==
    ASSUME LogInv, Staged, NEW t \in Guarded, ~ Leads(t), t \in Publishers => Publishing(t)
    PROVE  /\ tx[t].mine = {}
           /\ tx[t].pc \in {"idle", "lock", "row", "control", "moments"}
           /\ tx[t].pc = "lock" => tx[t].step = 1
           /\ tx[t].pc \in {"lock", "row"} => tx[t].holds = {}
           /\ \A h \in tx[t].holds : h = <<"control", "share">>
                                     \/ (h[1] \in DOMAIN Candidates /\ t \in Publishers)
  <1>1. t \in Conns
    BY DEF Guarded, Conns
  <1>2. tx[t].pc \in Pcs(t) /\ BatchOK(tx[t]) /\ LocksOK(t, tx[t])
    BY <1>1 DEF LogInv, Placed
  <1>3. CASE t \in Clients
    <2>1. Len(HttpLocks) = 3 /\ HttpLocks[1] = "moments" /\ 1 \in 1 .. 3
      BY DEF HttpLocks
    <2>2. tx[t].pc \in {"idle", "lock", "check"} \union Appending
      BY <1>2, <1>3, PublicationAssumption DEF Pcs
    <2>3. tx[t].pc \notin {"check"} \union Appending
      BY <1>2, <1>3, <2>1 DEF LocksOK, Leads
    <2>4. tx[t].pc = "lock" => tx[t].step = 1
      <3> SUFFICES ASSUME tx[t].pc = "lock", tx[t].step # 1 PROVE FALSE
        OBVIOUS
      <3>1. tx[t].step \in 1 .. 3 /\ \A i \in 1 .. tx[t].step - 1 : <<HttpLocks[i], "SRX">> \in tx[t].holds
        BY <1>2, <2>1 DEF LocksOK
      <3>2. 1 \in 1 .. tx[t].step - 1
        BY <3>1
      <3> QED
        BY <2>1, <3>1, <3>2 DEF Leads
    <2>5. tx[t].pc = "lock" => tx[t].holds = {}
      BY <1>2, <2>4 DEF LocksOK
    <2>6. tx[t].pc = "idle" => tx[t].holds = {}
      BY <1>1, <1>2, IdleFits DEF BatchOK
    <2>7. tx[t].mine = {}
      BY <1>2, <2>2, <2>3 DEF BatchOK, Before
    <2> QED
      BY <2>2, <2>3, <2>4, <2>5, <2>6, <2>7
  <1>4. CASE t \in Publishers
    <2>1. tx[t].pc \in {"idle", "row", "control", "moments", "heads"} \union Appending
      BY <1>2, <1>4, PublicationAssumption DEF Pcs
    <2>2. tx[t].pc \notin {"heads"} \union Appending
      BY <1>2, <1>4 DEF LocksOK, Leads
    <2>3. tx[t].pc \in {"idle", "row"} => tx[t].holds = {}
      BY <1>1, <1>2, IdleFits DEF BatchOK, LocksOK
    <2>4. tx[t].pc \in {"control", "moments"} => tx[t].cand \in DOMAIN Candidates
      BY <1>4 DEF Publishing, Staged
    <2>5. \A h \in tx[t].holds : h = <<"control", "share">> \/ h[1] \in DOMAIN Candidates
      BY <1>2, <2>1, <2>2, <2>3, <2>4 DEF LocksOK
    <2>6. tx[t].mine = {}
      BY <1>2, <2>1, <2>2 DEF BatchOK, Before
    <2> QED
      BY <1>4, <2>1, <2>2, <2>3, <2>5, <2>6
  <1> QED
    BY <1>3, <1>4 DEF Guarded

(* The locks a transaction may wait for after it has locked the moments.   *)
TableNames == {"digest", "entities", "moments", "edges", "attestations", "vocabulary", "stats"}

LEMMA LeaderWants ==
    ASSUME LogInv, NEW t \in Guarded, Leads(t), t \in Publishers => Publishing(t), Staged
    PROVE  \A l \in Wanted(t) : l[1] \in TableNames
  <1>1. t \in Conns
    BY DEF Guarded, Conns
  <1>2. tx[t].pc \in Pcs(t) /\ BatchOK(tx[t]) /\ LocksOK(t, tx[t])
    BY <1>1 DEF LogInv, Placed
  <1>3. tx[t].pc \in {"idle", "lock", "check", "row", "control", "moments", "heads"} \union Appending
    BY <1>2, PublicationAssumption DEF Guarded, Pcs
  <1>4. tx[t].pc \notin {"row", "control", "moments"}
    <2>1. CASE tx[t].pc = "row"
      BY <1>2, <2>1 DEF LocksOK, Leads
    <2>2. CASE tx[t].pc \in {"control", "moments"}
      <3>1. t \in Publishers
        BY <1>2, <2>2, PublicationAssumption DEF Guarded, Pcs, Appending
      <3>2. tx[t].cand \in DOMAIN Candidates
        BY <2>2, <3>1 DEF Publishing, Staged
      <3>3. "moments" \in ToSet(TruncateLocks)
        <4>1. TruncateLocks[2] = "moments" /\ 2 \in DOMAIN TruncateLocks
          BY DEF TruncateLocks
        <4> QED
          BY <4>1 DEF ToSet
      <3>4. tx[t].cand # "moments"
        BY <3>2, <3>3, PublicationAssumption
      <3>5. tx[t].holds \subseteq {<<tx[t].cand, "row">>, <<"control", "share">>}
        BY <1>2, <2>2 DEF LocksOK
      <3> QED
        BY <3>4, <3>5 DEF Leads
    <2> QED
      BY <2>1, <2>2
  <1>5. CASE tx[t].pc = "lock"
    <2>1. tx[t].step \in 1 .. 3
      <3>1. Len(HttpLocks) = 3
        BY DEF HttpLocks
      <3> QED
        BY <1>2, <1>5, <3>1 DEF LocksOK
    <2>2. HttpLocks[1] = "moments" /\ HttpLocks[2] = "edges" /\ HttpLocks[3] = "entities"
      BY DEF HttpLocks
    <2>3. HttpLocks[tx[t].step] \in TableNames
      BY <2>1, <2>2 DEF TableNames
    <2> QED
      BY <1>5, <2>3, Wants
  <1>6. CASE tx[t].pc = "apply"
    <2>1. \A db, v, e : \A l \in ApplyLocks(db, v, e) : l[1] \in TableNames
      BY DEF ApplyLocks, TableNames
    <2> QED
      BY <1>6, <2>1, Wants
  <1>7. CASE tx[t].pc \in {"digest", "stats"}
    BY <1>7, Wants DEF TableNames
  <1>8. CASE tx[t].pc \in {"idle", "check", "heads", "insert", "commit"}
    BY <1>8, Wants
  <1> QED
    BY <1>3, <1>4, <1>5, <1>6, <1>7, <1>8 DEF Appending

(* publish and the node's commit (admission.rs, lib.rs of cc-publisher)    *)
(* never deadlock among themselves, for any number of either.              *)
THEOREM GuardedNeverDeadlock == PubSpec => []NoGuardedDeadlock
  <1>1. IInv => NoGuardedDeadlock
    <2> SUFFICES ASSUME IInv, NEW S \in SUBSET Guarded, S # {},
                        \A t \in S : WaitsFor(t) \intersect S # {}
                 PROVE  FALSE
      BY DEF NoGuardedDeadlock, Circle
    <2>0. /\ LogInv /\ Staged /\ \A t \in Guarded : t \in Publishers => Publishing(t)
      BY DEF IInv
    <2>1. DOMAIN Candidates \intersect TableNames = {} /\ "control" \notin DOMAIN Candidates
      <3>1. ToSet(TruncateLocks) = {"entities", "moments", "edges", "attestations", "vocabulary", "stats"}
        <4>1. /\ DOMAIN TruncateLocks = 1 .. 6
              /\ TruncateLocks[1] = "entities" /\ TruncateLocks[2] = "moments"
              /\ TruncateLocks[3] = "edges" /\ TruncateLocks[4] = "attestations"
              /\ TruncateLocks[5] = "vocabulary" /\ TruncateLocks[6] = "stats"
          BY DEF TruncateLocks
        <4>2. 1 .. 6 = {1, 2, 3, 4, 5, 6}
          OBVIOUS
        <4> HIDE DEF TruncateLocks
        <4> QED
          BY <4>1, <4>2 DEF ToSet
      <3> QED
        BY <3>1, PublicationAssumption DEF TableNames
    <2>2. ASSUME NEW t \in S PROVE ~ Leads(t)
      <3> SUFFICES ASSUME Leads(t), NEW u \in S, u \in WaitsFor(t) PROVE FALSE
        OBVIOUS
      <3>1. t \in Guarded /\ u \in Guarded /\ t \in Conns /\ u \in Conns /\ u # t
        BY DEF Guarded, Conns, WaitsFor, Blockers, SameEvent
      <3>2. ~ Leads(u)
        BY <2>0, <3>1 DEF Leads, LogInv, Exclusive, Compatible, Conflicts
      <3>3. /\ tx[u].mine = {}
            /\ \A h \in tx[u].holds : h = <<"control", "share">> \/ h[1] \in DOMAIN Candidates
        BY <2>0, <3>1, <3>2, OthersHoldLittle
      <3>4. \A l \in Wanted(t) : l[1] \in TableNames
        BY <2>0, <3>1, LeaderWants
      <3>5. PICK l \in Wanted(t), h \in tx[u].holds : l[1] = h[1]
        BY <3>3 DEF WaitsFor, Blockers, SameEvent
      <3>6. h[1] = "control" \/ h[1] \in DOMAIN Candidates
        BY <3>3
      <3> QED
        BY <2>1, <3>4, <3>5, <3>6 DEF TableNames
    <2>3. ASSUME NEW t \in S
          PROVE  tx[t].pc = "row" /\ \E u \in S : tx[u].holds # {}
      <3>1. PICK u \in S : u \in WaitsFor(t)
        OBVIOUS
      <3>2. t \in Guarded /\ u \in Guarded /\ ~ Leads(t) /\ ~ Leads(u)
        BY <2>2
      <3>3. /\ tx[t].pc \in {"idle", "lock", "row", "control", "moments"}
            /\ tx[t].pc = "lock" => tx[t].step = 1
            /\ tx[u].mine = {}
            /\ \A h \in tx[u].holds : h = <<"control", "share">> \/ h[1] \in DOMAIN Candidates
        BY <2>0, <3>2, OthersHoldLittle
      <3>4. PICK l \in Wanted(t), h \in tx[u].holds : l[1] = h[1] /\ Conflicts(l[2], h[2])
        BY <3>1, <3>3 DEF WaitsFor, Blockers, SameEvent
      <3>5. CASE tx[t].pc = "idle"
        BY <3>4, <3>5, Wants
      <3>6. CASE tx[t].pc \in {"lock", "moments"}
        <4>1. HttpLocks[1] = "moments"
          BY DEF HttpLocks
        <4>2. l = <<"moments", "SRX">>
          BY <3>3, <3>4, <3>6, <4>1, Wants
        <4>3. h[1] = "control" \/ h[1] \in DOMAIN Candidates
          BY <3>3
        <4> QED
          BY <2>1, <3>4, <4>2, <4>3 DEF TableNames
      <3>7. CASE tx[t].pc = "control"
        <4>1. l = <<"control", "share">>
          BY <3>4, <3>7, Wants
        <4>2. h = <<"control", "share">>
          BY <2>1, <3>3, <3>4, <4>1
        <4> QED
          BY <3>4, <4>1, <4>2 DEF Conflicts
      <3> QED
        BY <3>3, <3>4, <3>5, <3>6, <3>7
    <2>4. PICK t \in S : TRUE
      OBVIOUS
    <2>5. PICK u \in S : tx[u].holds # {}
      BY <2>3, <2>4
    <2>6. tx[u].pc = "row" /\ u \in Guarded /\ ~ Leads(u)
      BY <2>2, <2>3, <2>5
    <2> QED
      BY <2>0, <2>5, <2>6, OthersHoldLittle
  <1> QED
    BY <1>1, Invariance, PTL
-----------------------------------------------------------------------------
(***************************************************************************)
(* The view.  What the record r of a transaction may be beside the events  *)
(* S of the ledger: its inserts are its own and not yet in the ledger; its *)
(* private view is that of the ledger and of the inserts it has projected, *)
(* all but the one it is at; a rebuild remembers the view it began with    *)
(* and the n changes of the settlement so far.                             *)
(***************************************************************************)
Pending(r) == IF r.pc \in {"digest", "stats", "apply"} THEN {Head(r.todo)} ELSE {}
Done(r, S) == S \union (r.mine \ Pending(r))
Rebuilding == {"truncate", "fold", "after"}
Began(r, S, n) == r.since \subseteq S /\ r.settled \in Nat /\ r.settled <= n
Owns(r, S, n) ==
  /\ r.mine \intersect S = {}
  /\ r.dirty => r.work = ViewOf(Done(r, S)) /\ Bounded(Done(r, S))
  /\ ~ r.dirty => r.mine \subseteq Pending(r)
  /\ r.pc \in Rebuilding => Began(r, S, n) /\ r.root = ViewRoot(ViewOf(r.since), r.settled)
  /\ r.out = "diverged" => r.pc = "report" /\ Began(r, S, n) /\ (r.since # S \/ r.settled # n)

Live == view = ViewOf(events) /\ Bounded(events)
Apart == \A t, u \in Conns : t # u => tx[t].mine \intersect tx[u].mine = {}
Projected == Live /\ Apart /\ settled \in Nat /\ \A t \in Conns : Owns(tx[t], events, settled)

LEMMA IdleOwnsNothing == \A S, n : Owns(Idle, S, n)
  <1>1. Idle.mine = {} /\ Idle.dirty = FALSE /\ Idle.pc = "idle" /\ Idle.out = "none"
    BY DEF Idle
  <1> QED
    BY <1>1 DEF Owns, Rebuilding

(* A step of t that leaves the ledger alone.                               *)
LEMMA OwnStep ==
    ASSUME Projected, settled' = settled, NEW t \in Conns, Alone(t), events' = events, view' = view,
           Owns(tx'[t], events, settled),
           \A u \in Conns : u # t => tx'[t].mine \intersect tx[u].mine = {}
    PROVE  Projected'
  <1>1. \A u \in Conns : u # t => tx'[u] = tx[u]
    BY DEF Alone
  <1>2. Live'
    BY DEF Projected, Live
  <1>3. Apart'
    BY <1>1 DEF Projected, Apart
  <1>4. \A u \in Conns : Owns(tx'[u], events', settled)
    BY <1>1 DEF Projected
  <1> QED
    BY <1>2, <1>3, <1>4 DEF Projected

LEMMA EndProjected ==
    ASSUME LogInv, Projected, settled' = settled, NEW t \in Conns, End(t), events' = events, view' = view
    PROVE  Projected'
  <1>1. Alone(t) /\ tx'[t] = Idle /\ Idle.mine = {}
    BY EndGives, IdleOwns DEF LogInv
  <1> QED
    BY <1>1, IdleOwnsNothing, OwnStep

(* A step that takes a lock, moves on or drops what the ledger has.        *)
Passes(t) ==
  /\ Alone(t) /\ events' = events /\ view' = view
  /\ Same(t, {"pc", "step", "todo", "holds", "cand", "expected"})
  /\ Pending(tx'[t]) = Pending(tx[t])
  /\ tx[t].pc # "report" /\ (tx'[t].pc \in Rebuilding => tx[t].pc \in Rebuilding)

LEMMA PassProjected ==
    ASSUME Projected, settled' = settled, NEW t \in Conns, Passes(t)
    PROVE  Projected'
  <1>1. /\ tx'[t].mine = tx[t].mine /\ tx'[t].dirty = tx[t].dirty /\ tx'[t].work = tx[t].work
        /\ tx'[t].since = tx[t].since /\ tx'[t].settled = tx[t].settled
        /\ tx'[t].root = tx[t].root /\ tx'[t].out = tx[t].out
    BY DEF Passes, Same, TxFields
  <1>2. Owns(tx[t], events, settled)
    BY DEF Projected
  <1>3. Done(tx'[t], events) = Done(tx[t], events)
    BY <1>1 DEF Done, Passes
  <1>4. Owns(tx'[t], events, settled)
    BY <1>1, <1>2, <1>3 DEF Owns, Began, Passes
  <1> QED
    BY <1>1, <1>4, OwnStep DEF Passes, Projected, Apart

LEMMA NotPending ==
    ASSUME NEW r, r.pc \notin {"digest", "stats", "apply"}
    PROVE  Pending(r) = {}
  BY DEF Pending

(* The statements before a batch, of every kind of transaction.            *)
LEMMA BeforeProjected ==
    ASSUME LogInv, Projected, settled' = settled, NEW t \in Conns,
           \/ \E e \in Ids : Commit(t, e) \/ BeginHttp(t, e)
           \/ \E c : BeginPublish(t, c)
           \/ LockTables(t) \/ CheckHttp(t) \/ Truncate(t)
           \/ LockCandidate(t) \/ ReadControl(t) \/ LockMoments(t) \/ CheckHeads(t)
           \/ RefuseEvidence(t)
    PROVE  Projected'
  <1>0. Shaped
    BY DEF LogInv
  <1>1. ASSUME Alone(t), events' = events, view' = view,
               Same(t, {"pc", "step", "todo", "holds", "cand", "expected"}),
               tx[t].pc \notin {"digest", "stats", "apply", "report"},
               tx'[t].pc \notin {"digest", "stats", "apply"},
               tx'[t].pc \in Rebuilding => tx[t].pc \in Rebuilding
        PROVE  Projected'
    <2>1. Pending(tx[t]) = {} /\ Pending(tx'[t]) = {}
      BY <1>1, NotPending
    <2> QED
      BY <1>1, <2>1, PassProjected DEF Passes
  <1>2. ASSUME NEW e \in Ids, Commit(t, e) \/ BeginHttp(t, e) PROVE Projected'
    <2>1. PICK pc : /\ pc \in {"insert", "lock"} /\ tx' = [tx EXCEPT ![t].pc = pc, ![t].todo = <<e>>]
                    /\ tx[t].pc = "idle" /\ view' = view /\ events' = events
      BY <1>2 DEF Commit, BeginHttp
    <2>2. /\ tx' = [u \in Conns |-> tx'[u]] /\ \A u \in Conns : u # t => tx'[u] = tx[u]
          /\ IsTx(tx'[t]) /\ tx'[t].pc = pc /\ Same(t, {"pc", "todo"})
      BY <1>0, <2>1 DEF Shaped, IsTx, TxFields, Same
    <2>3. tx'[t].work = tx[t].work /\ Same(t, {"pc", "step", "todo", "holds", "cand", "expected"})
      BY <2>2 DEF Same, TxFields
    <2>4. Alone(t)
      BY <1>0, <2>2, <2>3 DEF Alone, Shaped
    <2> QED
      BY <1>1, <2>1, <2>2, <2>3, <2>4 DEF Rebuilding
  <1>3. ASSUME NEW c, BeginPublish(t, c) PROVE Projected'
    <2>1. /\ tx' = [tx EXCEPT ![t].pc = "row", ![t].cand = c]
          /\ tx[t].pc = "idle" /\ view' = view /\ events' = events
      BY <1>3 DEF BeginPublish
    <2>2. /\ tx' = [u \in Conns |-> tx'[u]] /\ \A u \in Conns : u # t => tx'[u] = tx[u]
          /\ IsTx(tx'[t]) /\ tx'[t].pc = "row" /\ Same(t, {"pc", "cand"})
      BY <1>0, <2>1 DEF Shaped, IsTx, TxFields, Same
    <2>3. tx'[t].work = tx[t].work /\ Same(t, {"pc", "step", "todo", "holds", "cand", "expected"})
      BY <2>2 DEF Same, TxFields
    <2>4. Alone(t)
      BY <1>0, <2>2, <2>3 DEF Alone, Shaped
    <2> QED
      BY <1>1, <2>1, <2>2, <2>3, <2>4 DEF Rebuilding
  <1>4. ASSUME LockTables(t) \/ Truncate(t) PROVE Projected'
    <2>1. PICK ls, n, pc : /\ TakeNext(t, ls, n, pc) /\ view' = view /\ events' = events
                           /\ \/ tx[t].pc = "lock" /\ pc = "check"
                              \/ tx[t].pc = "truncate" /\ pc = "fold"
      BY <1>4 DEF LockTables, Truncate
    <2>2. /\ Alone(t) /\ Same(t, {"pc", "holds", "step"})
          /\ tx'[t].pc = IF tx[t].step = n THEN pc ELSE tx[t].pc
      BY <1>0, <2>1, TakeNextGives
    <2>3. Same(t, {"pc", "step", "todo", "holds", "cand", "expected"})
      BY <2>2 DEF Same
    <2> QED
      BY <1>1, <2>1, <2>2, <2>3 DEF Rebuilding
  <1>5. ASSUME NEW pc, NEW ls, Goto(t, pc) \/ Take(t, ls, pc), view' = view, events' = events,
               tx[t].pc \in {"check", "row", "control", "moments"},
               pc \in {"insert", "control", "moments", "heads"}
        PROVE  Projected'
    <2>1. Alone(t) /\ tx'[t].pc = pc /\ Same(t, {"pc", "holds"})
      BY <1>0, <1>5, GotoGives, TakeGives DEF Same
    <2>2. Same(t, {"pc", "step", "todo", "holds", "cand", "expected"})
      BY <2>1 DEF Same
    <2> QED
      BY <1>1, <1>5, <2>1, <2>2 DEF Rebuilding
  <1>6. ASSUME CheckHttp(t) \/ LockCandidate(t) \/ ReadControl(t) \/ LockMoments(t) PROVE Projected'
    <2>1. view' = view /\ events' = events
      BY <1>6 DEF CheckHttp, LockCandidate, ReadControl, LockMoments
    <2>2. End(t) => Projected'
      BY <2>1, EndProjected
    <2>3. ASSUME CheckHttp(t) PROVE Projected'
      BY <1>5, <2>1, <2>2, <2>3 DEF CheckHttp
    <2>4. ASSUME LockCandidate(t) PROVE Projected'
      BY <1>5, <2>1, <2>2, <2>4 DEF LockCandidate
    <2>5. ASSUME ReadControl(t) PROVE Projected'
      BY <1>5, <2>1, <2>2, <2>5 DEF ReadControl
    <2>6. ASSUME LockMoments(t) PROVE Projected'
      BY <1>5, <2>1, <2>6 DEF LockMoments
    <2> QED
      BY <1>6, <2>3, <2>4, <2>5, <2>6
  <1>7. ASSUME CheckHeads(t) \/ RefuseEvidence(t) PROVE Projected'
    <2>1. CASE End(t) /\ view' = view /\ events' = events
      BY <2>1, EndProjected
    <2>2. CASE CheckHeads(t) /\ ~ End(t)
      <3>1. PICK todo, heads :
              tx' = [tx EXCEPT ![t].pc = "insert", ![t].todo = todo, ![t].expected = heads]
        BY <2>2 DEF CheckHeads
      <3>2. tx[t].pc = "heads" /\ view' = view /\ events' = events
        BY <2>2 DEF CheckHeads
      <3>3. /\ tx' = [u \in Conns |-> tx'[u]] /\ \A u \in Conns : u # t => tx'[u] = tx[u]
            /\ IsTx(tx'[t]) /\ tx'[t].pc = "insert" /\ Same(t, {"pc", "todo", "expected"})
        BY <1>0, <3>1 DEF Shaped, IsTx, TxFields, Same
      <3>4. tx'[t].work = tx[t].work /\ Same(t, {"pc", "step", "todo", "holds", "cand", "expected"})
        BY <3>3 DEF Same, TxFields
      <3>5. Alone(t)
        BY <1>0, <3>3, <3>4 DEF Alone, Shaped
      <3> QED
        BY <1>1, <3>2, <3>3, <3>4, <3>5 DEF Rebuilding
    <2> QED
      BY <1>7, <2>1, <2>2 DEF CheckHeads, RefuseEvidence
  <1> QED
    BY <1>2, <1>3, <1>4, <1>6, <1>7

(* An insert waits for whoever has inserted the same event, and so is of   *)
(* an event that nobody else has.                                          *)
LEMMA AppendTxProjected ==
    ASSUME LogInv, Projected, settled' = settled, NEW t \in Conns, AppendTx(t)
    PROVE  Projected'
  <1>0. Shaped /\ Owns(tx[t], events, settled)
    BY DEF LogInv, Projected
  <1>1. tx[t].pc = "insert" /\ view' = view /\ events' = events /\ SameEvent(t) = {}
    BY DEF AppendTx
  <1>2. Pending(tx[t]) = {}
    BY <1>1, NotPending
  <1>3. CASE Skip(t)
    <2>1. /\ tx' = [u \in Conns |-> tx'[u]] /\ \A u \in Conns : u # t => tx'[u] = tx[u]
          /\ IsTx(tx'[t]) /\ Same(t, {"pc", "todo"})
          /\ tx'[t].pc = IF Len(tx[t].todo) = 1 THEN "commit" ELSE "insert"
      BY <1>0, <1>3 DEF Shaped, Skip, IsTx, TxFields, Same
    <2>2. tx'[t].work = tx[t].work /\ Same(t, {"pc", "step", "todo", "holds", "cand", "expected"})
      BY <2>1 DEF Same, TxFields
    <2>3. Alone(t)
      BY <1>0, <2>1, <2>2 DEF Alone, Shaped
    <2>4. Pending(tx'[t]) = {}
      BY <2>1, NotPending
    <2> QED
      BY <1>1, <1>2, <2>1, <2>2, <2>3, <2>4, PassProjected DEF Passes, Rebuilding
  <1>4. CASE Now(t) \notin Sees(t) /\ tx' = [tx EXCEPT ![t].pc = "digest", ![t].mine = @ \union {Now(t)}]
    <2>1. /\ tx' = [u \in Conns |-> tx'[u]] /\ \A u \in Conns : u # t => tx'[u] = tx[u]
          /\ IsTx(tx'[t]) /\ Same(t, {"pc", "mine"}) /\ tx'[t].pc = "digest"
          /\ tx'[t].mine = tx[t].mine \union {Now(t)}
      BY <1>0, <1>4 DEF Shaped, IsTx, TxFields, Same
    <2>2. /\ tx'[t].todo = tx[t].todo /\ tx'[t].dirty = tx[t].dirty /\ tx'[t].work = tx[t].work
          /\ tx'[t].out = tx[t].out
      BY <2>1 DEF Same, TxFields
    <2>3. Alone(t)
      BY <1>0, <2>1, <2>2 DEF Alone, Shaped
    <2>4. PICK e : e = Now(t)
      OBVIOUS
    <2>5. e \notin events /\ e \notin tx[t].mine /\ Pending(tx'[t]) = {e}
      BY <1>4, <2>1, <2>2, <2>4 DEF Sees, Pending, Now
    <2>6. Done(tx'[t], events) = Done(tx[t], events)
      BY <1>2, <2>1, <2>4, <2>5 DEF Done
    <2>7. Owns(tx'[t], events, settled)
      BY <1>0, <1>1, <1>2, <2>1, <2>2, <2>4, <2>5, <2>6 DEF Owns, Rebuilding
    <2>8. ASSUME NEW u \in Conns, u # t PROVE tx'[t].mine \intersect tx[u].mine = {}
      <3>1. e \notin tx[u].mine
        BY <1>1, <2>4, <2>8 DEF SameEvent
      <3>2. tx[t].mine \intersect tx[u].mine = {}
        BY <2>8 DEF Projected, Apart
      <3> QED
        BY <2>1, <2>4, <3>1, <3>2
    <2> QED
      BY <1>1, <2>3, <2>7, <2>8, OwnStep
  <1> QED
    BY <1>3, <1>4 DEF AppendTx

LEMMA LockProjected ==
    ASSUME LogInv, Projected, settled' = settled, NEW t \in Conns, LockDigest(t) \/ EnsureStatsRow(t)
    PROVE  Projected'
  <1>1. PICK ls, pc : /\ Take(t, ls, pc) /\ view' = view /\ events' = events
                      /\ tx[t].pc \in {"digest", "stats"} /\ pc \in {"stats", "apply"}
    BY DEF LockDigest, EnsureStatsRow
  <1>2. Alone(t) /\ tx'[t].pc = pc /\ Same(t, {"pc", "holds"})
    BY <1>1, TakeGives DEF LogInv
  <1>3. tx'[t].todo = tx[t].todo /\ Same(t, {"pc", "step", "todo", "holds", "cand", "expected"})
    BY <1>2 DEF Same, TxFields
  <1>4. Pending(tx'[t]) = Pending(tx[t])
    BY <1>1, <1>2, <1>3 DEF Pending
  <1> QED
    BY <1>1, <1>2, <1>3, <1>4, PassProjected DEF Passes, Rebuilding

(* A projection folds the inserted event into the private view, or into    *)
(* the ledger's if it is the first: with the digest locked that is the     *)
(* view of what the event joins.                                           *)
LEMMA ProjectProjected ==
    ASSUME settled' = settled, MomentsCorrectMoments, LogInv, Projected, NEW t \in Conns, Project(t)
    PROVE  Projected'
  <1>0. Shaped /\ Owns(tx[t], events, settled) /\ Live
    BY DEF LogInv, Projected
  <1>1. tx[t].pc = "apply" /\ view' = view /\ events' = events
    BY DEF Project
  <1>2. CASE End(t)
    BY <1>1, <1>2, EndProjected
  <1>3. CASE /\ ~ Corrupt(Sees(t), Now(t))
             /\ tx' = [tx EXCEPT ![t].work = Apply(Sees(t), Base(t), Now(t)),
                                 ![t].dirty = TRUE,
                                 ![t].holds = @ \union Wanted(t),
                                 ![t].todo = Tail(@),
                                 ![t].pc = IF Len(tx[t].todo) = 1 THEN "commit" ELSE "insert"]
    <2>1. PICK e, S, new : e = Now(t) /\ S = Done(tx[t], events) /\ new = Apply(Sees(t), Base(t), Now(t))
      OBVIOUS
    <2>2. /\ tx[t].mine \in SUBSET Ids /\ IsFiniteSet(tx[t].mine) /\ e \in tx[t].mine
          /\ events \in SUBSET Ids /\ IsFiniteSet(events)
      BY <1>1, <2>1 DEF LogInv, Placed, BatchOK, Now, Shaped
    <2>3. Pending(tx[t]) = {e}
      BY <1>1, <2>1 DEF Pending, Now
    <2>4. e \notin events
      BY <1>0, <2>2 DEF Owns
    <2>5. S \in SUBSET Ids /\ e \in Ids /\ e \notin S /\ Sees(t) = S \union {e}
      BY <2>1, <2>2, <2>3, <2>4 DEF Done, Sees
    <2>6. IsFiniteSet(S)
      <3>1. IsFiniteSet(tx[t].mine \ {e})
        BY <2>2, FS_Subset
      <3>2. S = events \union (tx[t].mine \ {e})
        BY <2>1, <2>3 DEF Done
      <3> QED
        BY <2>2, <3>1, <3>2, FS_Union
    <2>7. Base(t) = ViewOf(S) /\ Bounded(S)
      <3>1. CASE tx[t].dirty
        BY <1>0, <2>1, <3>1 DEF Base, Owns
      <3>2. CASE ~ tx[t].dirty
        <4>1. S = events
          BY <1>0, <2>1, <2>3, <3>2 DEF Owns, Done
        <4> QED
          BY <1>0, <3>2, <4>1 DEF Base, Live
      <3> QED
        BY <3>1, <3>2
    <2>8. new = ViewOf(Sees(t)) /\ Bounded(Sees(t))
      BY <1>3, <2>1, <2>5, <2>6, <2>7, LiveFoldIsView
    <2>9. /\ Alone(t) /\ tx'[t].work = new /\ tx'[t].dirty = TRUE
          /\ tx'[t].pc = IF Len(tx[t].todo) = 1 THEN "commit" ELSE "insert"
          /\ tx'[t].mine = tx[t].mine /\ tx'[t].out = tx[t].out
      <3> DEFINE ls == Wanted(t)
                 last == IF Len(tx[t].todo) = 1 THEN "commit" ELSE "insert"
      <3>1. tx' = [tx EXCEPT ![t].work = new, ![t].dirty = TRUE, ![t].holds = @ \union ls,
                             ![t].todo = Tail(@), ![t].pc = last]
        BY <1>3, <2>1
      <3> HIDE DEF ls, last
      <3>2. tx' = [u \in Conns |-> tx'[u]] /\ \A u \in Conns : u # t => tx'[u] = tx[u]
        BY <1>0, <3>1 DEF Shaped
      <3>3. tx'[t] = [tx[t] EXCEPT !.work = new, !.dirty = TRUE, !.holds = tx[t].holds \union ls,
                                   !.todo = Tail(tx[t].todo), !.pc = last]
        BY <1>0, <3>1 DEF Shaped, IsTx, TxFields
      <3>4. IsTx(tx[t]) /\ IsView(Base(t))
        BY <1>0 DEF Shaped, Base
      <3>5. IsTx(tx'[t])
        BY <3>3, <3>4 DEF IsTx, TxFields
      <3>6. /\ tx'[t].work = new /\ tx'[t].dirty = TRUE /\ tx'[t].mine = tx[t].mine
            /\ tx'[t].out = tx[t].out /\ tx'[t].pc = last
        BY <3>3, <3>4 DEF IsTx, TxFields
      <3>7. IsView(new)
        BY <2>1, <3>4, ApplyKeeps
      <3> QED
        BY <3>2, <3>5, <3>6, <3>7 DEF Alone, last
    <2>10. Pending(tx'[t]) = {}
      BY <2>9, NotPending
    <2>11. Done(tx'[t], events) = Sees(t)
      BY <2>9, <2>10 DEF Done, Sees
    <2>12. Owns(tx'[t], events, settled)
      BY <1>0, <1>1, <2>8, <2>9, <2>11 DEF Owns, Rebuilding
    <2> QED
      BY <1>1, <2>9, <2>12, OwnStep DEF Projected, Apart
  <1> QED
    BY <1>2, <1>3 DEF Project

(* A commit publishes the private view, which is that of the ledger with   *)
(* the inserts.  It brings new events only if its transaction has the      *)
(* digest, and then nobody else has projected anything.                    *)
LEMMA CommitTxProjected ==
    ASSUME LogInv, Projected, settled' = settled, NEW t \in Conns, CommitTx(t)
    PROVE  Projected'
  <1>0. Owns(tx[t], events, settled) /\ Live /\ Apart
    BY DEF Projected
  <1>1. /\ tx[t].pc = "commit" /\ events' = events \union tx[t].mine /\ view' = Base(t)
        /\ Alone(t) /\ tx'[t] = Idle /\ Idle.mine = {}
    BY EndGives, IdleOwns DEF CommitTx, LogInv
  <1>2. Pending(tx[t]) = {}
    BY <1>1, NotPending
  <1>3. Done(tx[t], events) = events'
    BY <1>1, <1>2 DEF Done
  <1>4. ~ tx[t].dirty => events' = events
    BY <1>0, <1>1, <1>2 DEF Owns
  <1>5. Live'
    <2>1. CASE tx[t].dirty
      BY <1>0, <1>1, <1>3, <2>1 DEF Owns, Live, Base
    <2>2. CASE ~ tx[t].dirty
      BY <1>0, <1>1, <1>4, <2>2 DEF Live, Base
    <2> QED
      BY <2>1, <2>2
  <1>6. \A u \in Conns : u # t => tx'[u] = tx[u]
    BY <1>1 DEF Alone
  <1>7. Apart'
    BY <1>0, <1>1, <1>6 DEF Apart
  <1>8. ASSUME NEW u \in Conns, u # t PROVE Owns(tx[u], events', settled)
    <2>1. Owns(tx[u], events, settled) /\ tx[t].mine \intersect tx[u].mine = {}
      BY <1>0, <1>8 DEF Projected, Apart
    <2>2. tx[u].dirty => events' = events
      <3>1. ASSUME tx[u].dirty, tx[t].dirty PROVE FALSE
        <4>1. <<"digest", "row">> \in tx[t].holds /\ <<"digest", "row">> \in tx[u].holds
          BY <3>1 DEF LogInv, Placed, LocksOK
        <4> QED
          BY <1>8, <4>1 DEF LogInv, Exclusive, Compatible, Conflicts
      <3> QED
        BY <1>4, <3>1
    <2>3. tx[u].mine \intersect events' = {}
      BY <1>1, <2>1 DEF Owns
    <2>4. \A since : since \subseteq events => since \subseteq events' /\ (since # events => since # events')
      BY <1>1
    <2> QED
      BY <2>1, <2>2, <2>3, <2>4 DEF Owns, Began
  <1>9. \A u \in Conns : Owns(tx'[u], events', settled)
    BY <1>1, <1>6, <1>8, IdleOwnsNothing
  <1> QED
    BY <1>5, <1>7, <1>9 DEF Projected

LEMMA BeginRebuildProjected ==
    ASSUME LogInv, Projected, settled' = settled, NEW t \in Conns, BeginRebuild(t)
    PROVE  Projected'
  <1>0. Shaped /\ Live /\ Owns(tx[t], events, settled) /\ settled \in Nat
    BY DEF LogInv, Projected
  <1>1. PICK root : /\ root = ViewRoot(view, settled) /\ tx[t].pc = "idle" /\ view' = view /\ events' = events
                    /\ tx' = [tx EXCEPT ![t].pc = "truncate", ![t].root = root, ![t].since = events,
                                        ![t].settled = settled]
    BY DEF BeginRebuild
  <1>2. /\ tx' = [u \in Conns |-> tx'[u]] /\ \A u \in Conns : u # t => tx'[u] = tx[u]
        /\ IsTx(tx'[t]) /\ tx'[t].pc = "truncate" /\ tx'[t].root = root /\ tx'[t].since = events
        /\ tx'[t].settled = settled
        /\ Same(t, {"pc", "root", "since", "settled"})
    BY <1>0, <1>1 DEF Shaped, IsTx, TxFields, Same
  <1>3. /\ tx'[t].work = tx[t].work /\ tx'[t].mine = tx[t].mine /\ tx'[t].dirty = tx[t].dirty
        /\ tx'[t].out = tx[t].out
    BY <1>2 DEF Same, TxFields
  <1>4. Alone(t)
    BY <1>0, <1>2, <1>3 DEF Alone, Shaped
  <1>5. Pending(tx[t]) = {} /\ Pending(tx'[t]) = {}
    BY <1>1, <1>2, NotPending
  <1>6. Done(tx'[t], events) = Done(tx[t], events)
    BY <1>3, <1>5 DEF Done
  <1>7. Began(tx'[t], events, settled)
    BY <1>0, <1>2 DEF Began
  <1>8. tx'[t].root = ViewRoot(ViewOf(tx'[t].since), tx'[t].settled)
    BY <1>0, <1>1, <1>2 DEF Live
  <1>9. tx'[t].out # "diverged"
    BY <1>0, <1>1, <1>3 DEF Owns
  <1>10. Owns(tx'[t], events, settled)
    BY <1>0, <1>2, <1>3, <1>5, <1>6, <1>7, <1>8, <1>9 DEF Owns
  <1> QED
    BY <1>1, <1>3, <1>4, <1>10, OwnStep DEF Projected, Apart

(* The batch fold writes the view that is there.                           *)
LEMMA RebuildProjected ==
    ASSUME LogInv, Projected, settled' = settled, NEW t \in Conns, Rebuild(t)
    PROVE  Projected'
  <1>0. Shaped /\ Live /\ Owns(tx[t], events, settled)
    BY DEF LogInv, Projected
  <1>1. tx[t].pc = "fold" /\ events' = events
    BY DEF Rebuild
  <1>2. CASE End(t) /\ view' = view
    BY <1>1, <1>2, EndProjected
  <1>3. CASE /\ \A e \in events : ~ Corrupt(events, e)
             /\ view' = Refold(events) /\ tx' = [tx EXCEPT ![t].pc = "after", ![t].holds = {}]
    <2>1. view' = view
      BY <1>0, <1>3, BatchFoldIsView DEF Live, Shaped
    <2>2. /\ tx' = [u \in Conns |-> tx'[u]] /\ \A u \in Conns : u # t => tx'[u] = tx[u]
          /\ IsTx(tx'[t]) /\ Same(t, {"pc", "holds"}) /\ tx'[t].pc = "after"
      BY <1>0, <1>3 DEF Shaped, IsTx, TxFields, Same
    <2>3. tx'[t].work = tx[t].work /\ Same(t, {"pc", "step", "todo", "holds", "cand", "expected"})
      BY <2>2 DEF Same, TxFields
    <2>4. Alone(t)
      BY <1>0, <2>2, <2>3 DEF Alone, Shaped
    <2>5. Pending(tx[t]) = {} /\ Pending(tx'[t]) = {}
      BY <1>1, <2>2, NotPending
    <2> QED
      BY <1>1, <2>1, <2>2, <2>3, <2>4, <2>5, PassProjected DEF Passes, Rebuilding
  <1> QED
    BY <1>2, <1>3 DEF Rebuild

(* Two digests that differ are of views of different sets of events.       *)
LEMMA CompareProjected ==
    ASSUME LogInv, Projected, settled' = settled, NEW t \in Conns, Compare(t)
    PROVE  Projected'
  <1>0. Shaped /\ Live /\ Owns(tx[t], events, settled)
    BY DEF LogInv, Projected
  <1>1. PICK said : /\ said = IF ViewRoot(view, settled) = tx[t].root THEN "same" ELSE "diverged"
                    /\ tx[t].pc = "after" /\ view' = view /\ events' = events
                    /\ tx' = [tx EXCEPT ![t].pc = "report", ![t].root = <<>>, ![t].out = said]
    BY DEF Compare
  <1>2. /\ tx' = [u \in Conns |-> tx'[u]] /\ \A u \in Conns : u # t => tx'[u] = tx[u]
        /\ IsTx(tx'[t]) /\ tx'[t].pc = "report" /\ tx'[t].out = said
        /\ Same(t, {"pc", "root", "out"})
    BY <1>0, <1>1 DEF Shaped, IsTx, TxFields, Same
  <1>3. /\ tx'[t].work = tx[t].work /\ tx'[t].mine = tx[t].mine /\ tx'[t].dirty = tx[t].dirty
        /\ tx'[t].since = tx[t].since /\ tx'[t].settled = tx[t].settled
    BY <1>2 DEF Same, TxFields
  <1>4. Alone(t)
    BY <1>0, <1>2, <1>3 DEF Alone, Shaped
  <1>5. Pending(tx[t]) = {} /\ Pending(tx'[t]) = {}
    BY <1>1, <1>2, NotPending
  <1>6. Done(tx'[t], events) = Done(tx[t], events)
    BY <1>3, <1>5 DEF Done
  <1>7. Began(tx[t], events, settled) /\ tx[t].root = ViewRoot(ViewOf(tx[t].since), tx[t].settled)
    BY <1>0, <1>1 DEF Owns, Rebuilding
  <1>8. said = "diverged" => tx[t].since # events \/ tx[t].settled # settled
    BY <1>0, <1>1, <1>7 DEF Live
  <1>9. Owns(tx'[t], events, settled)
    BY <1>0, <1>2, <1>3, <1>5, <1>6, <1>7, <1>8 DEF Owns, Began, Rebuilding
  <1> QED
    BY <1>1, <1>3, <1>4, <1>9, OwnStep DEF Projected, Apart

(* No transaction of the ledger or of a publisher writes roots or anchors. *)
LEMMA SettledByAnchor ==
    ASSUME \/ TxNext
           \/ \E t \in Publishers, c \in DOMAIN Candidates : BeginPublish(t, c)
           \/ \E t \in Publishers : \/ LockCandidate(t) \/ ReadControl(t) \/ LockMoments(t)
                                    \/ CheckHeads(t) \/ PublishTx(t) \/ RefuseEvidence(t)
    PROVE  settled' = settled
  BY DEF TxNext, Commit, BeginHttp, LockTables, CheckHttp, BeginRebuild, Truncate, Rebuild, Compare,
     AppendTx, LockDigest, EnsureStatsRow, Project, Abort, CommitTx, BeginPublish, LockCandidate,
     ReadControl, LockMoments, CheckHeads, PublishTx, RefuseEvidence

(* cc-anchor settles: the view and the transactions stay, and what a       *)
(* rebuild has said remains explained.                                     *)
LEMMA SettleProjected ==
    ASSUME Projected, Settle
    PROVE  Projected'
  <1>1. /\ settled \in Nat /\ settled' = settled + 1
        /\ events' = events /\ view' = view /\ tx' = tx
    BY DEF Projected, Settle
  <1>2. Live' /\ Apart' /\ settled' \in Nat
    BY <1>1 DEF Projected, Live, Apart
  <1>3. ASSUME NEW t \in Conns PROVE Owns(tx[t], events, settled + 1)
    <2>1. Owns(tx[t], events, settled)
      BY DEF Projected
    <2>2. Began(tx[t], events, settled)
            => Began(tx[t], events, settled + 1) /\ tx[t].settled # settled + 1
      BY <1>1 DEF Began
    <2> QED
      BY <2>1, <2>2 DEF Owns
  <1> QED
    BY <1>1, <1>2, <1>3 DEF Projected

(* Every step keeps the view that of the ledger.                           *)
LEMMA ProjectedKept ==
    ASSUME MomentsCorrectMoments, IInv, Projected, [PubNext]_allvars
    PROVE  Projected'
  <1>0. LogInv
    BY DEF IInv
  <1>1. ASSUME UNCHANGED vars PROVE Projected'
    BY <1>1 DEF vars, Projected, Live, Apart
  <1>2. ASSUME TxNext PROVE Projected'
    <2>0. settled' = settled
      BY <1>2, SettledByAnchor
    <2>1. Writers \subseteq Conns /\ Clients \subseteq Conns /\ Rebuilders \subseteq Conns
      BY DEF Conns
    <2>2. ASSUME NEW t \in Conns, NEW e \in Ids, Commit(t, e) \/ BeginHttp(t, e) PROVE Projected'
      BY <1>0, <2>0, <2>2, BeforeProjected
    <2>3. ASSUME NEW t \in Conns, LockTables(t) \/ CheckHttp(t) \/ Truncate(t) PROVE Projected'
      BY <1>0, <2>0, <2>3, BeforeProjected
    <2>4. ASSUME NEW t \in Conns, BeginRebuild(t) \/ Rebuild(t) \/ Compare(t) PROVE Projected'
      BY <1>0, <2>0, <2>4, BeginRebuildProjected, RebuildProjected, CompareProjected
    <2>5. ASSUME NEW t \in Conns, AppendTx(t) \/ LockDigest(t) \/ EnsureStatsRow(t) \/ Project(t) PROVE Projected'
      BY <1>0, <2>0, <2>5, AppendTxProjected, LockProjected, ProjectProjected
    <2>6. ASSUME NEW t \in Conns, CommitTx(t) PROVE Projected'
      BY <1>0, <2>0, <2>6, CommitTxProjected
    <2>7. ASSUME NEW t \in Conns, Abort(t) PROVE Projected'
      BY <1>0, <2>0, <2>7, EndProjected DEF Abort
    <2> QED
      BY <1>2, <2>1, <2>2, <2>3, <2>4, <2>5, <2>6, <2>7 DEF TxNext
  <1>3. ASSUME NEW t \in Publishers,
               \/ \E c \in DOMAIN Candidates : BeginPublish(t, c)
               \/ LockCandidate(t) \/ ReadControl(t) \/ LockMoments(t) \/ CheckHeads(t)
               \/ RefuseEvidence(t)
        PROVE  Projected'
    <2>1. t \in Conns /\ settled' = settled
      BY <1>3, SettledByAnchor DEF Conns
    <2> QED
      BY <1>0, <1>3, <2>1, BeforeProjected
  <1>4. ASSUME NEW t \in Publishers, PublishTx(t) PROVE Projected'
    <2>1. t \in Conns /\ CommitTx(t) /\ settled' = settled
      BY <1>4, SettledByAnchor DEF Conns, PublishTx
    <2> QED
      BY <1>0, <2>1, CommitTxProjected
  <1>5. ASSUME \/ \E b \in DOMAIN Briefs : \E content \in Briefs[b] : StageBrief(b, content)
               \/ \E c \in DOMAIN Candidates, b \in DOMAIN Briefs : \E p \in Candidates[c] :
                    StageCandidate(c, b, p)
               \/ \E b \in DOMAIN Briefs : ApproveBrief(b)
               \/ \E c \in DOMAIN Candidates : ReadHeads(c)
               \/ WriteApproval
               \/ \E flag \in BOOLEAN : SetPaused(flag)
        PROVE  UNCHANGED vars
    BY <1>5 DEF StageBrief, StageCandidate, ApproveBrief, ReadHeads, WriteApproval, SetPaused
  <1>6. UNCHANGED allvars => UNCHANGED vars
    BY DEF allvars
  <1>7. ASSUME Settle PROVE Projected'
    BY <1>7, SettleProjected
  <1> QED
    BY <1>1, <1>2, <1>3, <1>4, <1>5, <1>6, <1>7 DEF PubNext, LogNext

LEMMA ProjectedInit == PubInit => Projected
  <1> SUFFICES ASSUME PubInit PROVE Projected
    OBVIOUS
  <1>1. events = {} /\ view = EmptyView /\ settled = 0 /\ \A t \in Conns : tx[t] = Idle
    BY DEF PubInit, LogInit
  <1>2. Live
    BY <1>1, EmptyIsViewOfNone DEF Live
  <1>3. Apart
    BY <1>1, IdleOwns DEF Apart
  <1> QED
    BY <1>1, <1>2, <1>3, IdleOwnsNothing DEF Projected

(* Only a commit adds events, and nothing takes any away.                  *)
LEMMA LedgerGrows ==
    ASSUME IInv, [PubNext]_allvars
    PROVE  events \subseteq events'
  <1>0. LogInv
    BY DEF IInv
  <1>1. ASSUME TxNext PROVE events \subseteq events'
    <2>1. PICK t \in Conns : Step(t)
      BY <1>0, <1>1, TxNextStep
    <2> QED
      BY <2>1, EventsGrow
  <1>2. CASE ~ TxNext /\ PubNext
    BY <1>2 DEF PubNext, LogNext, Settle, StageBrief, StageCandidate, ApproveBrief, ReadHeads,
       WriteApproval, SetPaused, BeginPublish, LockCandidate, ReadControl, LockMoments, CheckHeads, RefuseEvidence, PublishTx,
       CommitTx, vars
  <1>3. UNCHANGED allvars => events' = events
    BY DEF allvars, vars
  <1> QED
    BY <1>1, <1>2, <1>3

(* The view, the private views and what rebuilds remember are always those *)
(* of the events committed and projected.                                  *)
THEOREM ProjectedAlways ==
    ASSUME MomentsCorrectMoments
    PROVE  PubSpec => []Projected
  <1>1. IInv /\ Projected /\ [PubNext]_allvars => Projected'
    BY ProjectedKept
  <1> QED
    BY <1>1, ProjectedInit, Invariance, PTL DEF PubSpec

(* The ledger implements the atomic log, for any events (whose corrections *)
(* correct moments), worlds and connections: whatever the arrival order,   *)
(* conflicting births, held corrections and the interleaving of commits,   *)
(* publications, crashes and rebuilds, what a reader of cc-ledger sees is  *)
(* whole batches and the view of exactly the events committed.             *)
THEOREM ImplementsAtomicLog ==
    ASSUME MomentsCorrectMoments
    PROVE  PubSpec => IsAtomicLog
  <1>1. Projected /\ PubInit => Log!Init
    BY DEF Projected, Live, PubInit, LogInit, Log!Init
  <1>2. /\ IInv /\ IInv' /\ Projected /\ Projected' /\ [PubNext]_allvars
        => [Log!Append]_<<events, view>>
    <2> SUFFICES ASSUME IInv, IInv', Projected, Projected', [PubNext]_allvars
                 PROVE  [Log!Append]_<<events, view>>
      OBVIOUS
    <2>1. events \subseteq events'
      BY LedgerGrows
    <2>2. view = ViewOf(events) /\ view' = ViewOf(events')
      BY DEF Projected, Live
    <2>3. events' \subseteq Ids
      BY DEF IInv, LogInv, Shaped
    <2>4. CASE events' = events
      BY <2>2, <2>4
    <2>5. CASE events' # events
      BY <2>1, <2>2, <2>3, <2>5 DEF Log!Append
    <2> QED
      BY <2>4, <2>5
  <1> QED
    BY <1>1, <1>2, Invariance, ProjectedAlways, PTL DEF PubSpec, IsAtomicLog, Log!Spec

(* rebuild reports a divergence only when, while it ran, events were       *)
(* committed or cc-anchor wrote roots or anchors, which both digests of    *)
(* view_root cover: never because the live fold and the batch fold differ. *)
THEOREM DivergenceIsOfWrites ==
    ASSUME MomentsCorrectMoments
    PROVE  PubSpec => []DivergenceMeansWrites
  <1>1. Projected => DivergenceMeansWrites
    BY DEF Projected, Owns, DivergenceMeansWrites, Conns
  <1> QED
    BY <1>1, ProjectedAlways, PTL

==============================================================================
