---------------------------- MODULE PublicProofs ----------------------------
(***************************************************************************)
(* What a public reader meets.  First the limiter: its table stays within  *)
(* its bound, no client exceeds the documented window by more than it was  *)
(* forgiven, and none is refused below its rate, for every rate, table     *)
(* size, delay and number of clients and threads.  Then the read requests: *)
(* for every record, whatever the projector commits while a request reads, *)
(* a verdict is true of the record and an entity holds together.           *)
(***************************************************************************)
EXTENDS RateLimiter, NodeRead, FiniteSetTheorems, WellFoundedInduction, TLAPS

(***************************************************************************)
(* Arithmetic.                                                             *)
(***************************************************************************)
\* The interval is a positive number of ticks and Rate of them last a minute.
LEMMA IntervalFacts ==
    /\ Interval \in Nat
    /\ Interval >= 1
    /\ Rate * Interval >= Minute
<1> DEFINE a == Minute + (Rate - 1)
           q == a \div Rate
           r == a % Rate
<1>1. Rate \in Nat /\ Rate >= 1 /\ Minute \in Nat /\ Minute >= 1 /\ a \in Nat
  BY LimiterAssumption
<1>2. q \in Int /\ r \in 0..(Rate - 1) /\ a = Rate * q + r
  BY <1>1, SMT
<1> HIDE DEF q, r
<1>3. Rate * q > Minute - 1
  BY <1>1, <1>2, SMT
<1>4. q >= 1
  BY <1>1, <1>2, <1>3, SMT
<1>5. q = Interval
  BY DEF q, Interval
<1> QED
  BY <1>1, <1>2, <1>3, <1>4, <1>5, SMT

\* One more interval.
LEMMA OneMore ==
    ASSUME NEW x \in Int, NEW y \in Int
    PROVE  (x + 1) * y = x * y + y
  BY SMT

\* The tolerance is one interval short of Rate intervals.
LEMMA ToleranceFacts == Tolerance \in Nat /\ Tolerance + Interval = Rate * Interval
<1>1. Rate - 1 \in Nat /\ Interval \in Nat
  BY LimiterAssumption, IntervalFacts
<1>2. Interval * (Rate - 1) \in Nat /\ Interval * (Rate - 1) = (Rate - 1) * Interval
  BY <1>1, SMT
<1>3. Rate * Interval = (Rate - 1) * Interval + Interval
  <2>1. Rate = (Rate - 1) + 1
    BY LimiterAssumption
  <2>2. ((Rate - 1) + 1) * Interval = (Rate - 1) * Interval + Interval
    BY <1>1, OneMore
  <2> QED
    BY <2>1, <2>2
<1> QED
  BY <1>1, <1>2, <1>3, SMT DEF Tolerance

(***************************************************************************)
(* Decisions.                                                              *)
(***************************************************************************)
\* The table after dropping idle buckets is a part of the table.
LEMMA TablePart ==
    ASSUME TypeOK, NEW b \in Buckets, NEW at \in Nat
    PROVE  /\ DOMAIN Table(b, at) \subseteq DOMAIN tat
           /\ \A x \in DOMAIN Table(b, at) : Table(b, at)[x] = tat[x]
           /\ \A x \in DOMAIN tat \ DOMAIN Table(b, at) : tat[x] <= at /\ Full(tat, b)
           /\ Table(b, at) \in [DOMAIN Table(b, at) -> Nat]
           /\ DOMAIN Table(b, at) \subseteq Buckets
<1>1. CASE Full(tat, b)
  <2> DEFINE D == {y \in DOMAIN tat : tat[y] > at}
  <2>1. Table(b, at) = [x \in D |-> tat[x]]
    BY <1>1 DEF Table
  <2>2. DOMAIN Table(b, at) = D
    BY <2>1
  <2>3. \A x \in DOMAIN tat : tat[x] \in Nat
    BY DEF TypeOK
  <2> QED
    BY <1>1, <2>1, <2>2, <2>3 DEF TypeOK
<1>2. CASE ~Full(tat, b)
  <2>1. Table(b, at) = tat
    BY <1>2 DEF Table
  <2> QED
    BY <2>1 DEF TypeOK
<1> QED
  BY <1>1, <1>2

\* A due instant is not in the past and not before the bucket's schedule.
LEMMA DueFacts ==
    ASSUME TypeOK, NEW b \in Buckets, NEW at \in Nat
    PROVE  /\ Due(Table(b, at), b, at) \in Nat
           /\ Due(Table(b, at), b, at) >= at
           /\ b \in DOMAIN tat => /\ b \in DOMAIN Table(b, at)
                                 /\ Due(Table(b, at), b, at) >= tat[b]
           /\ b \notin DOMAIN tat => Due(Table(b, at), b, at) = at
<1>1. b \in DOMAIN tat => Table(b, at) = tat
  BY DEF Table, Full
<1>2. b \in DOMAIN tat => tat[b] \in Nat
  BY DEF TypeOK
<1>3. CASE b \in DOMAIN tat
  BY <1>1, <1>2, <1>3 DEF Due
<1>4. CASE b \notin DOMAIN tat
  <2>1. b \notin DOMAIN Table(b, at)
    BY <1>4, TablePart
  <2> QED
    BY <1>4, <2>1 DEF Due
<1> QED
  BY <1>3, <1>4

(***************************************************************************)
(* Type correctness.                                                       *)
(***************************************************************************)
\* The new table after an admission.
Charged(b, at) ==
    [x \in DOMAIN Table(b, at) \cup {b} |->
       IF x = b THEN Due(Table(b, at), b, at) + Interval ELSE Table(b, at)[x]]

\* The charged table is well typed.
LEMMA ChargedType ==
    ASSUME TypeOK, NEW b \in Buckets, NEW at \in Nat
    PROVE  /\ DOMAIN Charged(b, at) = DOMAIN Table(b, at) \cup {b}
           /\ DOMAIN Charged(b, at) \subseteq Buckets
           /\ Charged(b, at) \in [DOMAIN Charged(b, at) -> Nat]
           /\ Charged(b, at)[b] = Due(Table(b, at), b, at) + Interval
           /\ \A x \in DOMAIN Table(b, at) : x # b => Charged(b, at)[x] = tat[x]
<1>1. Due(Table(b, at), b, at) + Interval \in Nat
  BY DueFacts, IntervalFacts
<1> QED
  BY <1>1, TablePart DEF Charged

\* What a bucket is forgiven after an admission.
Forgave(b, at) ==
    LET due == Due(Table(b, at), b, at)
    IN  IF due < owed[b] THEN forgiven[b] + (owed[b] - due) ELSE forgiven[b]

\* An admission of b at the instant at, with its account.
Admitted(b, at) ==
    /\ log' = [log EXCEPT ![b] = Append(@, at)]
    /\ tat' = Charged(b, at)
    /\ owed' = [owed EXCEPT ![b] = Due(Table(b, at), b, at) + Interval]
    /\ forgiven' = [forgiven EXCEPT ![b] = Forgave(b, at)]
    /\ ~Full(Table(b, at), b)
    /\ Due(Table(b, at), b, at) - at <= Tolerance

\* Every step of a thread decides about one bucket and one instant.
LEMMA StepOfThread ==
    ASSUME TypeOK, NEW t \in Threads,
           RefuseFull(t) \/ RefuseAhead(t) \/ Accept(t)
    PROVE  \E b \in Buckets, at \in Nat :
             /\ sampled[t] # None
             /\ b = sampled[t].bucket
             /\ at = sampled[t].at
             /\ sampled' = [sampled EXCEPT ![t] = None]
             /\ now' = now
             /\ (UNCHANGED history /\ tat' = Table(b, at)) \/ Admitted(b, at)
<1>1. sampled[t] # None
  BY DEF RefuseFull, RefuseAhead, Accept
<1>2. sampled[t].bucket \in Buckets /\ sampled[t].at \in Nat
  BY <1>1 DEF TypeOK
<1> DEFINE b == sampled[t].bucket
           at == sampled[t].at
<1>3. CASE RefuseFull(t)
  BY <1>1, <1>2, <1>3 DEF RefuseFull, Decided
<1>4. CASE RefuseAhead(t)
  BY <1>1, <1>2, <1>4 DEF RefuseAhead, Decided
<1>5. CASE Accept(t)
  <2>1. forgiven' = [forgiven EXCEPT ![b] = Forgave(b, at)]
    BY <1>2, <1>5 DEF Accept, Forgave, TypeOK
  <2> QED
    BY <1>1, <1>2, <1>5, <2>1 DEF Accept, Decided, Charged, Admitted
<1> QED
  BY <1>3, <1>4, <1>5

\* Type correctness of the limiter.
THEOREM TypeCorrect == Spec => []TypeOK
<1>1. Init => TypeOK
  BY DEF Init, TypeOK
<1>2. TypeOK /\ [Next]_vars => TypeOK'
  <2> SUFFICES ASSUME TypeOK, [Next]_vars PROVE TypeOK'
    OBVIOUS
  <2>1. CASE Tick
    BY <2>1 DEF TypeOK, Tick, history
  <2>2. ASSUME NEW t \in Threads, NEW a \in Addresses, Sample(t, a) PROVE TypeOK'
    <3>1. ClientKey(a) \in Buckets
      BY DEF Buckets
    <3> QED
      BY <2>2, <3>1 DEF TypeOK, Sample, history
  <2>3. ASSUME NEW t \in Threads, RefuseFull(t) \/ RefuseAhead(t) \/ Accept(t) PROVE TypeOK'
    <3>1. PICK b \in Buckets, at \in Nat :
             /\ sampled' = [sampled EXCEPT ![t] = None]
             /\ now' = now
             /\ (UNCHANGED history /\ tat' = Table(b, at)) \/ Admitted(b, at)
      BY <2>3, StepOfThread
    <3>2. DOMAIN tat' \subseteq Buckets /\ tat' \in [DOMAIN tat' -> Nat]
      <4>1. CASE tat' = Table(b, at)
        <5>1. DOMAIN Table(b, at) \subseteq Buckets /\ Table(b, at) \in [DOMAIN Table(b, at) -> Nat]
          BY TablePart
        <5> QED
          BY <4>1, <5>1, Zenon
      <4>2. CASE tat' = Charged(b, at)
        <5>1. DOMAIN Charged(b, at) \subseteq Buckets /\ Charged(b, at) \in [DOMAIN Charged(b, at) -> Nat]
          BY ChargedType
        <5> QED
          BY <4>2, <5>1, Zenon
      <4> QED
        BY <3>1, <4>1, <4>2 DEF Admitted
    <3>3. log' \in [Buckets -> Seq(Nat)]
      <4>1. log[b] \in Seq(Nat)
        BY DEF TypeOK
      <4>2. Append(log[b], at) \in Seq(Nat)
        BY <4>1
      <4> QED
        BY <3>1, <4>2 DEF TypeOK, Admitted, history
    <3>4. owed' \in [Buckets -> Nat] /\ forgiven' \in [Buckets -> Nat]
      <4>1. Due(Table(b, at), b, at) + Interval \in Nat
        BY DueFacts, IntervalFacts
      <4>2. Forgave(b, at) \in Nat
        BY DueFacts DEF Forgave, TypeOK
      <4> QED
        BY <3>1, <4>1, <4>2 DEF TypeOK, Admitted, history
    <3>5. sampled' \in [Threads -> [bucket : Buckets, at : Nat] \cup {None}]
      BY <3>1 DEF TypeOK
    <3> QED
      BY <3>1, <3>2, <3>3, <3>4, <3>5 DEF TypeOK
  <2>4. CASE UNCHANGED vars
    BY <2>4 DEF TypeOK, vars, history
  <2> QED
    BY <2>1, <2>2, <2>3, <2>4 DEF Next
<1> QED
  BY <1>1, <1>2, PTL DEF Spec

(***************************************************************************)
(* The table bound.                                                        *)
(***************************************************************************)
\* There are finitely many buckets, so every table is finite.
LEMMA BucketsFinite == IsFiniteSet(Buckets)
<1> DEFINE f == [a \in Addresses |-> ClientKey(a)]
<1>1. Buckets = {f[a] : a \in Addresses}
  BY DEF Buckets
<1>2. Buckets = {ClientKey(a) : a \in Addresses}
  BY DEF Buckets
<1>3. f \in Surjection(Addresses, Buckets)
  BY <1>2 DEF Surjection
<1> QED
  BY <1>3, FS_Surjection, LimiterAssumption

\* Cardinalities of the parts of a table.
LEMMA PartOfTable ==
    ASSUME NEW S, S \subseteq Buckets, NEW T, T \subseteq S
    PROVE  /\ IsFiniteSet(T)
           /\ Cardinality(S) \in Nat
           /\ Cardinality(T) \in Nat
           /\ Cardinality(T) <= Cardinality(S)
           /\ Cardinality(T) = Cardinality(S) => S = T
  BY BucketsFinite, FS_Subset, FS_CardinalityType

\* The table never outgrows MaxTracked.
THEOREM TableStaysBounded == Spec => []TableBounded
<1> DEFINE Inv == TypeOK /\ TableBounded
<1>1. Init => TableBounded
  <2> SUFFICES ASSUME Init PROVE TableBounded
    OBVIOUS
  <2>1. DOMAIN tat = {}
    BY DEF Init
  <2> QED
    BY <2>1, FS_EmptySet, LimiterAssumption DEF TableBounded
<1>2. TypeOK /\ TableBounded /\ [Next]_vars => TableBounded'
  <2> SUFFICES ASSUME TypeOK, TableBounded, [Next]_vars PROVE TableBounded'
    OBVIOUS
  <2>1. CASE tat' = tat
    BY <2>1 DEF TableBounded
  <2>2. ASSUME NEW t \in Threads, RefuseFull(t) \/ RefuseAhead(t) \/ Accept(t)
        PROVE  TableBounded'
    <3>1. PICK b \in Buckets, at \in Nat :
             \/ tat' = Table(b, at)
             \/ tat' = Charged(b, at) /\ ~Full(Table(b, at), b)
      BY <2>2, StepOfThread DEF Admitted
    <3> DEFINE D == DOMAIN Table(b, at)
    <3>2. D \subseteq DOMAIN tat /\ DOMAIN tat \subseteq Buckets
      BY TablePart DEF TypeOK
    <3>3. IsFiniteSet(D) /\ Cardinality(D) \in Nat /\ Cardinality(D) <= Cardinality(DOMAIN tat)
          /\ Cardinality(DOMAIN tat) \in Nat
      BY <3>2, PartOfTable
    <3>4. Cardinality(D) <= MaxTracked
      BY <3>3, LimiterAssumption DEF TableBounded
    <3>5. CASE tat' = Table(b, at)
      BY <3>4, <3>5 DEF TableBounded
    <3>6. CASE tat' = Charged(b, at) /\ ~Full(Table(b, at), b)
      <4>1. DOMAIN tat' = D \cup {b}
        BY <3>6, ChargedType
      <4>2. CASE b \in D
        <5>1. D \cup {b} = D
          BY <4>2
        <5> QED
          BY <4>1, <5>1, <3>4 DEF TableBounded
      <4>3. CASE b \notin D
        <5>1. Cardinality(D) < MaxTracked
          BY <3>3, <3>6, <4>3, LimiterAssumption DEF Full
        <5>2. Cardinality(D \cup {b}) = Cardinality(D) + 1
          BY <3>3, <4>3, FS_AddElement
        <5> QED
          BY <4>1, <5>1, <5>2, <3>3, LimiterAssumption DEF TableBounded
      <4> QED
        BY <4>2, <4>3
    <3> QED
      BY <3>1, <3>5, <3>6
  <2>3. ASSUME NEW t \in Threads, NEW a \in Addresses, Sample(t, a) PROVE tat' = tat
    BY <2>3 DEF Sample
  <2> QED
    BY <2>1, <2>2, <2>3 DEF Next, Tick, vars
<1> QED
  BY <1>1, <1>2, TypeCorrect, PTL DEF Spec

(***************************************************************************)
(* The pace.  What a bucket owes is ahead of each of its admissions by one *)
(* interval per admission since, less what it was forgiven; while it is    *)
(* tracked its schedule is what it owes.                                   *)
(***************************************************************************)
\* The schedule that admission m of bucket b has earned so far.
Earned(b, m) == log[b][m] + (Len(log[b]) - m + 1) * Interval

Scheduled ==
    /\ \A b \in DOMAIN tat : tat[b] = owed[b]
    /\ \A b \in Buckets : \A m \in DOMAIN log[b] : owed[b] + forgiven[b] >= Earned(b, m)

PaceInv == TypeOK /\ Scheduled /\ Paced

\* Instants and intervals are integers.
LEMMA EarnedType ==
    ASSUME TypeOK, NEW b \in Buckets, NEW m \in DOMAIN log[b]
    PROVE  /\ log[b] \in Seq(Nat)
           /\ Len(log[b]) \in Nat
           /\ DOMAIN log[b] = 1..Len(log[b])
           /\ m \in 1..Len(log[b])
           /\ log[b][m] \in Nat
           /\ (Len(log[b]) - m + 1) * Interval \in Int
           /\ Earned(b, m) \in Int
<1>1. log[b] \in Seq(Nat)
  BY DEF TypeOK
<1>2. Len(log[b]) \in Nat /\ DOMAIN log[b] = 1..Len(log[b]) /\ log[b][m] \in Nat
  BY <1>1
<1>3. Interval \in Int /\ Len(log[b]) - m + 1 \in Int
  BY <1>2, IntervalFacts
<1>4. (Len(log[b]) - m + 1) * Interval \in Int
  BY <1>3, SMT
<1> QED
  BY <1>1, <1>2, <1>4 DEF Earned

\* A step that admits nothing and at most drops buckets leaves the pace.
LEMMA PaceQuiet ==
    ASSUME Scheduled, Paced, UNCHANGED history,
           DOMAIN tat' \subseteq DOMAIN tat, \A x \in DOMAIN tat' : tat'[x] = tat[x]
    PROVE  Scheduled' /\ Paced'
<1>1. Paced'
  BY DEF Paced, history
<1>2. Scheduled'
  BY DEF Scheduled, Earned, history
<1> QED
  BY <1>1, <1>2

\* What is forgiven makes up for a due instant before what is owed, and only a
\* bucket that was dropped is forgiven anything.
LEMMA ForgaveFacts ==
    ASSUME TypeOK, Scheduled, NEW b \in Buckets, NEW at \in Nat
    PROVE  /\ Forgave(b, at) \in Nat
           /\ Forgave(b, at) >= forgiven[b]
           /\ Due(Table(b, at), b, at) + Forgave(b, at) >= owed[b] + forgiven[b]
           /\ b \in DOMAIN tat => Forgave(b, at) = forgiven[b]
           /\ b \notin DOMAIN tat /\ owed[b] <= at + MaxStall
                => Forgave(b, at) <= forgiven[b] + MaxStall
<1>1. owed[b] \in Nat /\ forgiven[b] \in Nat /\ Due(Table(b, at), b, at) \in Nat /\ MaxStall \in Nat
  BY DueFacts, LimiterAssumption DEF TypeOK
<1>2. b \in DOMAIN tat => Due(Table(b, at), b, at) >= owed[b]
  BY DueFacts DEF Scheduled
<1>3. b \notin DOMAIN tat => Due(Table(b, at), b, at) = at
  BY DueFacts
<1> QED
  BY <1>1, <1>2, <1>3 DEF Forgave

\* An admission keeps its distance from every earlier one.
LEMMA PaceAccepted ==
    ASSUME PaceInv, NEW b \in Buckets, NEW at \in Nat, Admitted(b, at)
    PROVE  Scheduled' /\ Paced'
<1> DEFINE T == Table(b, at)
           due == Due(T, b, at)
           L == Len(log[b])
           f == Forgave(b, at)
<1>1. TypeOK /\ Scheduled
  BY DEF PaceInv
<1>2. /\ log[b] \in Seq(Nat)
      /\ L \in Nat
      /\ DOMAIN log[b] = 1..L
      /\ log'[b] = Append(log[b], at)
      /\ \A x \in Buckets : x # b => log'[x] = log[x]
  BY <1>1 DEF TypeOK, Admitted
<1>3. /\ Len(log'[b]) = L + 1
      /\ DOMAIN log'[b] = 1..(L + 1)
      /\ log'[b][L + 1] = at
      /\ \A m \in 1..L : log'[b][m] = log[b][m] /\ log[b][m] \in Nat
  BY <1>2
<1>4. /\ due \in Nat /\ due >= at /\ due - at <= Tolerance
      /\ f \in Nat /\ f >= forgiven[b] /\ due + f >= owed[b] + forgiven[b]
      /\ forgiven[b] \in Nat /\ owed[b] \in Nat
  BY <1>1, DueFacts, ForgaveFacts DEF Admitted, TypeOK
<1>5. Interval \in Nat /\ Interval >= 1 /\ Tolerance \in Nat
      /\ Tolerance + Interval = Rate * Interval
  BY IntervalFacts, ToleranceFacts
<1>6. \A m \in 1..L : due + f >= Earned(b, m) /\ Earned(b, m) \in Int
  <2> SUFFICES ASSUME NEW m \in 1..L PROVE due + f >= Earned(b, m) /\ Earned(b, m) \in Int
    OBVIOUS
  <2>1. Earned(b, m) \in Int
    BY <1>1, <1>2, EarnedType
  <2>2. owed[b] + forgiven[b] >= Earned(b, m)
    BY <1>1, <1>2 DEF Scheduled
  <2> QED
    BY <1>4, <2>1, <2>2
<1>7. /\ owed'[b] = due + Interval /\ forgiven'[b] = f
      /\ \A x \in Buckets : x # b => owed'[x] = owed[x] /\ forgiven'[x] = forgiven[x]
  BY <1>1 DEF Admitted, TypeOK
<1> HIDE DEF L
<1>8. \A m \in 1..L :
         /\ (L - m + 1) * Interval \in Int
         /\ ((L + 1) - m + 1) * Interval = (L - m + 1) * Interval + Interval
  <2> SUFFICES ASSUME NEW m \in 1..L
               PROVE  /\ (L - m + 1) * Interval \in Int
                      /\ ((L + 1) - m + 1) * Interval = (L - m + 1) * Interval + Interval
    OBVIOUS
  <2>1. L - m + 1 \in Int /\ (L + 1) - m + 1 = (L - m + 1) + 1
    BY <1>2
  <2>2. ((L - m + 1) + 1) * Interval = (L - m + 1) * Interval + Interval
    BY <1>5, <2>1, OneMore
  <2> QED
    BY <1>5, <2>1, <2>2, SMT
<1>9. \A m \in 1..L : Earned(b, m) = log[b][m] + (L - m + 1) * Interval
  BY DEF Earned, L
<1>10. DOMAIN tat' \subseteq DOMAIN tat \cup {b} /\ tat'[b] = due + Interval
       /\ \A y \in DOMAIN tat' : y # b => y \in DOMAIN tat /\ tat'[y] = tat[y]
  <2>1. /\ DOMAIN Charged(b, at) = DOMAIN T \cup {b}
        /\ Charged(b, at)[b] = due + Interval
        /\ \A x \in DOMAIN T : x # b => Charged(b, at)[x] = tat[x]
    BY <1>1, ChargedType
  <2>2. DOMAIN T \subseteq DOMAIN tat /\ tat' = Charged(b, at)
    BY <1>1, TablePart DEF Admitted
  <2> HIDE DEF T, due
  <2> QED
    BY <2>1, <2>2
<1>11. DOMAIN tat \subseteq Buckets
  BY <1>1 DEF TypeOK
<1> HIDE DEF T, due, f
<1>12. Paced'
  <2> SUFFICES ASSUME NEW x \in Buckets, NEW m \in DOMAIN log'[x], NEW n \in DOMAIN log'[x], m < n
               PROVE  log'[x][n] + Rate * Interval + forgiven'[x]
                        >= log'[x][m] + (n - m + 1) * Interval
    BY DEF Paced
  <2>1. CASE x # b
    BY <1>2, <1>7, <2>1 DEF PaceInv, Paced
  <2>2. CASE x = b /\ n <= L
    <3>1. m \in 1..L /\ n \in 1..L
      BY <1>2, <1>3, <2>2
    <3>2. log[b][n] + Rate * Interval + forgiven[b] >= log[b][m] + (n - m + 1) * Interval
      BY <1>2, <2>2, <3>1 DEF PaceInv, Paced
    <3> DEFINE p == (n - m + 1) * Interval
               q == Rate * Interval
    <3>3. p \in Int /\ q \in Int
      BY <1>5, <3>1, LimiterAssumption, SMT
    <3>4. log[b][n] + q + forgiven[b] >= log[b][m] + p
      BY <3>2
    <3>5. log[b][n] \in Int /\ log[b][m] \in Int /\ log'[b][n] = log[b][n] /\ log'[b][m] = log[b][m]
      BY <1>3, <3>1
    <3> HIDE DEF p, q
    <3>6. log[b][n] + q + f >= log[b][m] + p
      BY <1>4, <3>3, <3>4, <3>5
    <3> QED
      BY <1>7, <2>2, <3>5, <3>6 DEF p, q
  <2>3. CASE x = b /\ ~(n <= L)
    <3>1. n = L + 1 /\ m \in 1..L
      BY <1>2, <1>3, <2>3
    <3>2. due + f >= log[b][m] + (L - m + 1) * Interval
      BY <1>6, <1>9, <3>1
    <3> DEFINE p == (L - m + 1) * Interval
    <3>3. p \in Int /\ log[b][m] \in Int /\ ((L + 1) - m + 1) * Interval = p + Interval
      BY <1>3, <1>8, <3>1
    <3>4. due + f >= log[b][m] + p
      BY <3>2
    <3> HIDE DEF p
    <3>5. at + (Tolerance + Interval) + f >= log[b][m] + (p + Interval)
      BY <1>4, <1>5, <3>3, <3>4
    <3>6. at + Rate * Interval + f >= log[b][m] + ((L + 1) - m + 1) * Interval
      BY <1>5, <3>3, <3>5
    <3> QED
      BY <1>3, <1>7, <2>3, <3>1, <3>6
  <2> QED
    BY <2>1, <2>2, <2>3
<1>13. Scheduled'
  <2>1. ASSUME NEW x \in DOMAIN tat' PROVE tat'[x] = owed'[x]
    BY <1>1, <1>7, <1>10, <1>11, <2>1 DEF Scheduled
  <2>2. ASSUME NEW x \in Buckets, NEW m \in DOMAIN log'[x]
        PROVE  owed'[x] + forgiven'[x] >= log'[x][m] + (Len(log'[x]) - m + 1) * Interval
    <3>1. CASE x # b
      BY <1>1, <1>2, <1>7, <2>2, <3>1 DEF Scheduled, Earned
    <3>2. CASE x = b /\ m = L + 1
      <4>1. (Len(log'[b]) - m + 1) * Interval = Interval
        <5>1. Len(log'[b]) - m + 1 = 1
          BY <1>2, <1>3, <3>2
        <5> QED
          BY <1>5, <5>1, SMT
      <4>2. (due + Interval) + f >= at + Interval
        BY <1>4, <1>5
      <4> QED
        BY <1>3, <1>7, <3>2, <4>1, <4>2
    <3>3. CASE x = b /\ m # L + 1
      <4>1. m \in 1..L
        BY <1>2, <1>3, <2>2, <3>3
      <4> DEFINE p == (L - m + 1) * Interval
      <4>2. due + f >= log[b][m] + p
        BY <1>6, <1>9, <4>1
      <4>3. p \in Int /\ log[b][m] \in Int /\ ((L + 1) - m + 1) * Interval = p + Interval
        BY <1>3, <1>8, <4>1
      <4> HIDE DEF p
      <4>4. (due + Interval) + f >= log[b][m] + (p + Interval)
        BY <1>4, <1>5, <4>2, <4>3
      <4>5. (Len(log'[b]) - m + 1) * Interval = p + Interval /\ log'[b][m] = log[b][m]
        BY <1>3, <4>1, <4>3
      <4> QED
        BY <1>7, <3>3, <4>4, <4>5
    <3> QED
      BY <3>1, <3>2, <3>3
  <2> QED
    BY <2>1, <2>2 DEF Scheduled, Earned
<1> QED
  BY <1>12, <1>13

\* limit.rs: every admission of a bucket keeps its distance up to what the
\* bucket was forgiven, for every interleaving of arbitrarily delayed threads.
THEOREM PaceIsKept == Spec => [](Scheduled /\ Paced)
<1>1. Init => Scheduled /\ Paced
  <2> SUFFICES ASSUME Init PROVE Scheduled /\ Paced
    OBVIOUS
  <2>1. (\A b \in Buckets : DOMAIN log[b] = {}) /\ DOMAIN tat = {}
    BY DEF Init
  <2> QED
    BY <2>1 DEF Scheduled, Paced
<1>2. TypeOK /\ (Scheduled /\ Paced) /\ [Next]_vars => (Scheduled /\ Paced)'
  <2> SUFFICES ASSUME PaceInv, [Next]_vars PROVE Scheduled' /\ Paced'
    BY DEF PaceInv
  <2>1. CASE Tick
    BY <2>1, PaceQuiet DEF Tick, PaceInv
  <2>2. ASSUME NEW t \in Threads, NEW a \in Addresses, Sample(t, a) PROVE Scheduled' /\ Paced'
    BY <2>2, PaceQuiet DEF Sample, PaceInv
  <2>3. ASSUME NEW t \in Threads, RefuseFull(t) \/ RefuseAhead(t) \/ Accept(t)
        PROVE  Scheduled' /\ Paced'
    <3>1. PICK b \in Buckets, at \in Nat :
             (UNCHANGED history /\ tat' = Table(b, at)) \/ Admitted(b, at)
      BY <2>3, StepOfThread DEF PaceInv
    <3>2. CASE UNCHANGED history /\ tat' = Table(b, at)
      BY <3>2, TablePart, PaceQuiet DEF PaceInv
    <3> QED
      BY <3>1, <3>2, PaceAccepted
  <2>4. CASE UNCHANGED vars
    BY <2>4, PaceQuiet DEF vars, PaceInv
  <2> QED
    BY <2>1, <2>2, <2>3, <2>4 DEF Next
<1> QED
  BY <1>1, <1>2, TypeCorrect, PTL DEF Spec

(***************************************************************************)
(* What is forgiven.  An instant a thread read is at most MaxStall before  *)
(* the lock, and what a dropped bucket owes is past by then.               *)
(***************************************************************************)
Timely ==
    /\ \A t \in Threads :
         sampled[t] # None => sampled[t].at <= now /\ now <= sampled[t].at + MaxStall
    /\ \A b \in Buckets \ DOMAIN tat : owed[b] <= now

\* A decision leaves the instants of the others and drops only what is past.
LEMMA TimelyDecided ==
    ASSUME TypeOK, Scheduled, Timely, Lenient,
           NEW t \in Threads, RefuseFull(t) \/ RefuseAhead(t) \/ Accept(t)
    PROVE  Timely' /\ Lenient'
<1>1. PICK b \in Buckets, at \in Nat :
         /\ sampled[t] # None /\ b = sampled[t].bucket /\ at = sampled[t].at
         /\ sampled' = [sampled EXCEPT ![t] = None]
         /\ now' = now
         /\ (UNCHANGED history /\ tat' = Table(b, at)) \/ Admitted(b, at)
  BY StepOfThread
<1>2. at <= now /\ now <= at + MaxStall /\ now \in Nat /\ MaxStall \in Nat
  BY <1>1, LimiterAssumption DEF Timely, TypeOK
<1>3. \A u \in Threads :
        sampled'[u] # None => sampled'[u].at <= now' /\ now' <= sampled'[u].at + MaxStall
  BY <1>1 DEF Timely, TypeOK
<1>4. \A x \in Buckets : owed[x] \in Nat /\ forgiven[x] \in Nat
  BY DEF TypeOK
<1>5. ASSUME NEW x \in Buckets, x \notin DOMAIN Table(b, at) PROVE owed[x] <= now
  <2>1. CASE x \in DOMAIN tat
    <3>1. tat[x] <= at /\ tat[x] = owed[x]
      BY <1>5, <2>1, TablePart DEF Scheduled
    <3> QED
      BY <1>2, <1>4, <3>1
  <2>2. CASE x \notin DOMAIN tat
    BY <2>2 DEF Timely
  <2> QED
    BY <2>1, <2>2
<1>6. CASE UNCHANGED history /\ tat' = Table(b, at)
  BY <1>1, <1>3, <1>5, <1>6 DEF Timely, Lenient, history
<1>7. CASE Admitted(b, at)
  <2>1. /\ DOMAIN tat' = DOMAIN Table(b, at) \cup {b}
        /\ forgiven'[b] = Forgave(b, at)
        /\ \A x \in Buckets : x # b => owed'[x] = owed[x] /\ forgiven'[x] = forgiven[x]
                                       /\ log'[x] = log[x]
    BY <1>7, ChargedType DEF Admitted, TypeOK
  <2>2. Timely'
    BY <1>1, <1>3, <1>5, <2>1 DEF Timely
  <2>3. Forgave(b, at) <= forgiven[b] + MaxStall
    <3>1. b \notin DOMAIN tat => owed[b] <= at + MaxStall
      BY <1>2, <1>4 DEF Timely
    <3> QED
      BY <1>2, <1>4, <3>1, ForgaveFacts
  <2>4. /\ Len(log'[b]) = Len(log[b]) + 1 /\ Len(log[b]) \in Nat
    <3>1. log[b] \in Seq(Nat) /\ log'[b] = Append(log[b], at)
      BY <1>7 DEF TypeOK, Admitted
    <3> QED
      BY <3>1
  <2> DEFINE p == Len(log[b]) * MaxStall
  <2>5. Len(log'[b]) * MaxStall = p + MaxStall /\ p \in Int
    <3>1. (Len(log[b]) + 1) * MaxStall = p + MaxStall
      BY <1>2, <2>4, OneMore
    <3>2. p \in Int
      BY <1>2, <2>4, SMT
    <3> QED
      BY <2>4, <3>1, <3>2
  <2>6. forgiven[b] <= p
    BY DEF Lenient
  <2> HIDE DEF p
  <2>7. forgiven'[b] <= Len(log'[b]) * MaxStall
    <3>1. Forgave(b, at) \in Nat
      BY ForgaveFacts
    <3> QED
      BY <1>2, <1>4, <2>1, <2>3, <2>5, <2>6, <3>1
  <2>8. Lenient'
    <3> SUFFICES ASSUME NEW x \in Buckets PROVE forgiven'[x] <= Len(log'[x]) * MaxStall
      BY DEF Lenient
    <3>1. CASE x = b
      BY <2>7, <3>1
    <3>2. CASE x # b
      BY <2>1, <3>2 DEF Lenient
    <3> QED
      BY <3>1, <3>2
  <2> QED
    BY <2>2, <2>8
<1> QED
  BY <1>1, <1>6, <1>7

\* limit.rs: a bucket is forgiven at most the delay of a thread, once for each
\* admission; nothing where no thread is delayed.
THEOREM ForgivesOnlyDelays == Spec => []Lenient
<1>1. Init => Timely /\ Lenient
  <2> SUFFICES ASSUME Init PROVE Timely /\ Lenient
    OBVIOUS
  <2>1. /\ now = 0 /\ \A t \in Threads : sampled[t] = None
        /\ \A b \in Buckets : log[b] = <<>> /\ owed[b] = 0 /\ forgiven[b] = 0
    BY DEF Init
  <2>2. Len(<<>>) = 0 /\ 0 * MaxStall = 0
    BY LimiterAssumption, SMT
  <2> QED
    BY <2>1, <2>2 DEF Timely, Lenient
<1>2. TypeOK /\ (Scheduled /\ Paced) /\ (Timely /\ Lenient) /\ [Next]_vars => (Timely /\ Lenient)'
  <2> SUFFICES ASSUME TypeOK, Scheduled, Timely, Lenient, [Next]_vars PROVE Timely' /\ Lenient'
    OBVIOUS
  <2>1. MaxStall \in Nat /\ now \in Nat
        /\ (\A t \in Threads : sampled[t] # None => sampled[t].at \in Nat)
        /\ (\A b \in Buckets : owed[b] \in Nat)
    BY LimiterAssumption DEF TypeOK
  <2>2. CASE Tick
    <3>1. Lenient'
      BY <2>2 DEF Tick, Lenient, history
    <3>2. \A t \in Threads : sampled[t] # None
            => sampled[t].at <= now + 1 /\ now + 1 <= sampled[t].at + MaxStall
      BY <2>1, <2>2 DEF Tick, Timely
    <3>3. \A b \in Buckets \ DOMAIN tat : owed[b] <= now + 1
      BY <2>1 DEF Timely
    <3> QED
      BY <2>2, <3>1, <3>2, <3>3 DEF Tick, Timely, history
  <2>3. ASSUME NEW t \in Threads, NEW a \in Addresses, Sample(t, a) PROVE Timely' /\ Lenient'
    <3>1. Lenient'
      BY <2>3 DEF Sample, Lenient, history
    <3>2. \A u \in Threads : sampled'[u] # None
            => sampled'[u].at <= now /\ now <= sampled'[u].at + MaxStall
      BY <2>1, <2>3 DEF Sample, Timely, TypeOK
    <3> QED
      BY <2>3, <3>1, <3>2 DEF Sample, Timely, history
  <2>4. ASSUME NEW t \in Threads, RefuseFull(t) \/ RefuseAhead(t) \/ Accept(t)
        PROVE  Timely' /\ Lenient'
    BY <2>4, TimelyDecided
  <2>5. CASE UNCHANGED vars
    BY <2>5 DEF vars, Timely, Lenient, history
  <2> QED
    BY <2>2, <2>3, <2>4, <2>5 DEF Next
<1> QED
  BY <1>1, <1>2, TypeCorrect, PaceIsKept, PTL DEF Spec

(***************************************************************************)
(* Spans of time.                                                          *)
(***************************************************************************)
\* So many intervals.
Span(n) == n * Interval

\* Spans are integers that grow with the number of intervals.
LEMMA SpanFacts ==
    /\ \A n \in Int : Span(n) \in Int /\ Span(n + 1) = Span(n) + Interval
    /\ \A m, n \in Int : m <= n => Span(m) <= Span(n)
    /\ Span(1) = Interval
    /\ Span(Rate) = Tolerance + Interval /\ Span(Rate - 1) = Tolerance
<1>1. Interval \in Nat /\ Rate \in Nat
  BY IntervalFacts, LimiterAssumption
<1>2. \A n \in Int : Span(n) \in Int /\ Span(n + 1) = Span(n) + Interval
  <2> SUFFICES ASSUME NEW n \in Int PROVE Span(n) \in Int /\ Span(n + 1) = Span(n) + Interval
    OBVIOUS
  <2>1. (n + 1) * Interval = n * Interval + Interval
    BY <1>1, OneMore
  <2>2. n * Interval \in Int
    BY <1>1, SMT
  <2> QED
    BY <2>1, <2>2 DEF Span
<1>3. \A m, n \in Int : m <= n => Span(m) <= Span(n)
  <2> SUFFICES ASSUME NEW m \in Int, NEW n \in Int, m <= n PROVE Span(m) <= Span(n)
    OBVIOUS
  <2>1. (n - m) * Interval >= 0
    BY <1>1, SMT
  <2>2. (n - m) * Interval = n * Interval - m * Interval
    BY <1>1, SMT
  <2>3. n * Interval \in Int /\ m * Interval \in Int
    BY <1>1, SMT
  <2> QED
    BY <2>1, <2>2, <2>3 DEF Span
<1>4. Span(1) = Interval
  BY <1>1 DEF Span
<1>5. Span(Rate) = Tolerance + Interval
  BY ToleranceFacts DEF Span
<1>6. Span((Rate - 1) + 1) = Span(Rate - 1) + Interval /\ Span(Rate - 1) \in Int
  BY <1>1, <1>2
<1>7. (Rate - 1) + 1 = Rate
  BY <1>1
<1>8. Span(Rate) = Span(Rate - 1) + Interval
  BY <1>6, <1>7
<1>9. Span(Rate - 1) = Tolerance
  <2>1. Tolerance \in Nat
    BY ToleranceFacts
  <2> QED
    BY <1>1, <1>5, <1>6, <1>8, <2>1
<1> QED
  BY <1>2, <1>3, <1>4, <1>5, <1>9

(***************************************************************************)
(* The window.                                                             *)
(***************************************************************************)
\* A nonempty set of naturals has a least element.
LEMMA LeastElement ==
    ASSUME NEW S, S \subseteq Nat, S # {}
    PROVE  \E x \in S : \A y \in S : x <= y
<1>1. \E x \in S : \A y \in S : ~(<<y, x>> \in OpToRel(<, Nat))
  BY NatLessThanWellFounded, WFMin, Zenon
<1>2. \A x, y \in Nat : <<y, x>> \in OpToRel(<, Nat) <=> y < x
  BY DEF OpToRel
<1>3. PICK x \in S : \A y \in S : ~(<<y, x>> \in OpToRel(<, Nat))
  BY <1>1
<1>4. \A y \in S : ~(y < x)
  BY <1>2, <1>3, Zenon
<1>5. \A y \in S : x <= y
  BY <1>4
<1> QED
  BY <1>5

\* Indices that differ by at most k number at most k + 1.
LEMMA CloseIndices ==
    ASSUME NEW S, S \subseteq Nat, NEW k \in Nat,
           \A x, y \in S : y - x <= k
    PROVE  Cardinality(S) <= k + 1
<1>1. CASE S = {}
  BY <1>1, FS_EmptySet
<1>2. CASE S # {}
  <2>1. PICK x \in S : \A y \in S : x <= y
    BY <1>2, LeastElement
  <2>2. S \subseteq x..(x + k)
    BY <2>1
  <2>3. x \in Int /\ x + k \in Int /\ ~(x > x + k)
    OBVIOUS
  <2>4. IsFiniteSet(x..(x + k)) /\ Cardinality(x..(x + k)) = (x + k) - x + 1
    BY <2>3, FS_Interval
  <2>5. Cardinality(S) <= Cardinality(x..(x + k))
    BY <2>2, <2>4, FS_Subset
  <2> QED
    BY <2>3, <2>4, <2>5
<1> QED
  BY <1>1, <1>2

\* Admissions that keep their distance respect the window.
LEMMA PacedImpliesWindow == TypeOK /\ Paced => WindowBound
<1> SUFFICES ASSUME TypeOK, Paced, NEW b \in Buckets, NEW w \in 0..now,
                    ~(Cardinality(Window(b, w)) * Interval < 2 * Rate * Interval + forgiven[b])
             PROVE  FALSE
  BY DEF WindowBound
<1> DEFINE S == Window(b, w)
           c == Cardinality(S)
           r == Rate * Interval
           f == forgiven[b]
<1>1. log[b] \in Seq(Nat) /\ w \in Nat /\ f \in Nat
  BY DEF TypeOK
<1>2. /\ DOMAIN log[b] = 1..Len(log[b]) /\ Len(log[b]) \in Nat
      /\ \A i \in DOMAIN log[b] : log[b][i] \in Nat
  BY <1>1
<1>3. Rate \in Nat /\ Rate >= 1 /\ Minute \in Nat
  BY LimiterAssumption
<1>4. S \subseteq Nat /\ c \in Nat
  <2>1. S \subseteq 1..Len(log[b])
    BY <1>2 DEF Window
  <2>2. IsFiniteSet(1..Len(log[b]))
    BY <1>2, FS_Interval
  <2> QED
    BY <2>1, <2>2, FS_Subset, FS_CardinalityType
<1>5. r \in Int /\ r >= Minute /\ Span(2 * Rate) = r + r /\ Span(c) \in Int
  <2>1. r \in Int /\ (2 * Rate) * Interval = r + r
    BY <1>3, IntervalFacts, SMT
  <2> QED
    BY <1>4, <2>1, IntervalFacts, SpanFacts DEF Span
<1>6. Span(c) >= (r + r) + f
  <2>1. Span(c) = c * Interval /\ Span(2 * Rate) = 2 * Rate * Interval
    BY DEF Span
  <2>2. ~(Span(c) < Span(2 * Rate) + f)
    BY <2>1
  <2> QED
    BY <1>1, <1>5, <2>2
<1>7. c >= 2
  <2> SUFFICES ASSUME c < 2 PROVE FALSE
    BY <1>4
  <2>1. c + 1 <= 2 * Rate /\ c + 1 \in Int /\ 2 * Rate \in Int /\ c \in Int
    BY <1>3, <1>4
  <2>2. Span(c + 1) <= Span(2 * Rate) /\ Span(c + 1) = Span(c) + Interval
    BY <2>1, SpanFacts
  <2>3. Interval \in Nat /\ Interval >= 1
    BY IntervalFacts
  <2> QED
    BY <1>1, <1>5, <1>6, <2>2, <2>3
<1>8. PICK m \in S, n \in S : ~(n - m <= c - 2)
  <2> HIDE DEF S
  <2> SUFFICES ASSUME \A x, y \in S : y - x <= c - 2 PROVE FALSE
    OBVIOUS
  <2>1. c - 2 \in Nat
    BY <1>4, <1>7
  <2>2. Cardinality(S) <= (c - 2) + 1
    BY <1>4, <2>1, CloseIndices
  <2> QED
    BY <1>4, <2>2
<1>9. m \in DOMAIN log[b] /\ n \in DOMAIN log[b] /\ m \in Nat /\ n \in Nat /\ m < n /\ c <= n - m + 1
  BY <1>4, <1>7, <1>8 DEF Window
<1>10. log[b][n] < log[b][m] + Minute
  <2>1. w <= log[b][m] /\ log[b][n] < w + Minute
    BY <1>8 DEF Window
  <2>2. log[b][m] \in Nat /\ log[b][n] \in Nat
    BY <1>2, <1>9
  <2> QED
    BY <1>1, <1>3, <2>1, <2>2
<1>11. log[b][n] + r + f >= log[b][m] + Span(n - m + 1)
  BY <1>9 DEF Paced, Span
<1>12. Span(c) <= Span(n - m + 1) /\ Span(n - m + 1) \in Int
  <2>1. c \in Int /\ n - m + 1 \in Int
    BY <1>4, <1>9
  <2> QED
    BY <1>9, <2>1, SpanFacts
<1>13. log[b][n] \in Nat /\ log[b][m] \in Nat
  BY <1>2, <1>9
<1> DEFINE ln == log[b][n]
           lm == log[b][m]
           p == Span(n - m + 1)
           q == Span(c)
<1>14. p \in Int /\ q \in Int /\ q <= p
  BY <1>5, <1>12, Zenon
<1>15. ln \in Nat /\ lm \in Nat /\ ln < lm + Minute
  BY <1>10, <1>13, Zenon
<1>16. ln + r + f >= lm + p
  BY <1>11, Zenon
<1>17. r \in Int /\ r >= Minute /\ q >= (r + r) + f
  BY <1>5, <1>6, Zenon
<1>18. f \in Nat /\ Minute \in Nat
  BY <1>1, <1>3
<1> HIDE DEF ln, lm, p, q, S, c, r, f
<1> QED
  BY <1>14, <1>15, <1>16, <1>17, <1>18

\* limit.rs: no window of a minute holds more of a client's requests than
\* documented, but for what the client was forgiven.
THEOREM WindowIsBounded == Spec => []WindowBound
<1>1. Spec => []Paced
  BY PaceIsKept, PTL
<1> QED
  BY <1>1, TypeCorrect, PacedImpliesWindow, PTL

\* The four together, as the run checks them: table, pace, window and what is
\* forgiven.
THEOREM ClientsAreMetered == Spec => []Metered
<1>1. TableBounded /\ (Scheduled /\ Paced) /\ WindowBound /\ Lenient => Metered
  BY DEF Metered
<1> QED
  BY <1>1, TableStaysBounded, PaceIsKept, WindowIsBounded, ForgivesOnlyDelays, PTL

(***************************************************************************)
(* Refusals.  A schedule that lies ahead was earned: since the admission k *)
(* that found the bucket idle, each admission moved it by one interval and *)
(* none was let in more than Rate intervals before the end of its own.     *)
(***************************************************************************)
Accounted ==
    \A b \in DOMAIN tat : \E k \in DOMAIN log[b] :
      /\ tat[b] = log[b][k] + Span(Len(log[b]) - k + 1)
      /\ \A i \in DOMAIN log[b] :
           i >= k => tat[b] <= log[b][i] + Span(Rate + (Len(log[b]) - i))

\* Dropping idle buckets leaves the account of the others.
LEMMA AccountedRefused ==
    ASSUME TypeOK, Accounted, NEW b \in Buckets, NEW at \in Nat,
           log' = log, tat' = Table(b, at)
    PROVE  Accounted'
<1>1. /\ DOMAIN tat' \subseteq DOMAIN tat
      /\ \A x \in DOMAIN tat' : tat'[x] = tat[x]
  BY TablePart
<1> QED
  BY <1>1 DEF Accounted

\* An admission adds an interval to a schedule that is ahead, or begins one.
LEMMA AccountedAccepted ==
    ASSUME TypeOK, Accounted, NEW b \in Buckets, NEW at \in Nat,
           log' = [log EXCEPT ![b] = Append(@, at)], tat' = Charged(b, at),
           Due(Table(b, at), b, at) - at <= Tolerance
    PROVE  Accounted'
<1> DEFINE T == Table(b, at)
           due == Due(T, b, at)
           L == Len(log[b])
<1>1. /\ log[b] \in Seq(Nat) /\ L \in Nat /\ DOMAIN log[b] = 1..L
      /\ log'[b] = Append(log[b], at)
      /\ \A x \in Buckets : x # b => log'[x] = log[x]
  BY DEF TypeOK
<1>2. /\ Len(log'[b]) = L + 1 /\ DOMAIN log'[b] = 1..(L + 1) /\ log'[b][L + 1] = at
      /\ \A i \in 1..L : log'[b][i] = log[b][i] /\ log[b][i] \in Nat
  BY <1>1
<1>3. /\ DOMAIN tat' = DOMAIN T \cup {b} /\ DOMAIN T \subseteq DOMAIN tat
      /\ DOMAIN tat \subseteq Buckets
      /\ tat'[b] = due + Interval
      /\ \A x \in DOMAIN T : x # b => tat'[x] = tat[x]
  BY ChargedType, TablePart DEF TypeOK
<1>4. /\ due \in Nat /\ due - at <= Tolerance /\ Interval \in Nat /\ Tolerance \in Nat
      /\ Rate \in Nat /\ Rate >= 1
  BY DueFacts, IntervalFacts, ToleranceFacts, LimiterAssumption
<1>5. due = at \/ (b \in DOMAIN tat /\ due = tat[b])
  <2>1. CASE b \in DOMAIN T
    BY <1>3, <2>1, TablePart DEF Due
  <2>2. CASE b \notin DOMAIN T
    BY <2>2 DEF Due
  <2> QED
    BY <2>1, <2>2
<1> DEFINE N == Len(log'[b])
<1>9. L \in Nat /\ N = L + 1
  BY <1>1, <1>2
<1> HIDE DEF T, due, N
<1> SUFFICES ASSUME NEW x \in DOMAIN tat'
             PROVE  \E k \in DOMAIN log'[x] :
                      /\ tat'[x] = log'[x][k] + Span(Len(log'[x]) - k + 1)
                      /\ \A i \in DOMAIN log'[x] :
                           i >= k => tat'[x] <= log'[x][i] + Span(Rate + (Len(log'[x]) - i))
  BY DEF Accounted, Span
<1>6. CASE x # b
  BY <1>1, <1>3, <1>6 DEF Accounted
<1>7. CASE x = b /\ due = at
  <2> HIDE DEF L
  <2>1. L + 1 \in DOMAIN log'[b] /\ Len(log'[b]) - (L + 1) + 1 = 1
    BY <1>1, <1>2
  <2>2. tat'[b] = log'[b][L + 1] + Span(Len(log'[b]) - (L + 1) + 1)
    BY <1>2, <1>3, <1>7, <2>1, SpanFacts
  <2>3. ASSUME NEW i \in DOMAIN log'[b], i >= L + 1
        PROVE  tat'[b] <= log'[b][i] + Span(Rate + (Len(log'[b]) - i))
    <3>1. i = L + 1 /\ Rate + (N - i) = Rate
      BY <1>2, <1>4, <1>9, <2>3
    <3>2. Span(Rate) = Tolerance + Interval
      BY SpanFacts
    <3>3. tat'[b] = at + Interval /\ log'[b][i] = at
      BY <1>2, <1>3, <1>7, <3>1
    <3>4. at + Interval <= at + (Tolerance + Interval)
      BY <1>4
    <3> QED
      BY <3>1, <3>2, <3>3, <3>4 DEF N
  <2> QED
    BY <1>7, <2>1, <2>2, <2>3
<1>8. CASE x = b /\ b \in DOMAIN tat /\ due = tat[b]
  <2>1. PICK k \in DOMAIN log[b] :
           /\ tat[b] = log[b][k] + Span(L - k + 1)
           /\ \A i \in DOMAIN log[b] : i >= k => tat[b] <= log[b][i] + Span(Rate + (L - i))
    BY <1>8 DEF Accounted
  <2> HIDE DEF L
  <2>2. k \in 1..L /\ k \in DOMAIN log'[b] /\ log'[b][k] = log[b][k] /\ log[b][k] \in Nat
    BY <1>1, <1>2
  <2>3. tat'[b] = log'[b][k] + Span(Len(log'[b]) - k + 1)
    <3>1. L - k + 1 \in Int /\ N - k + 1 = (L - k + 1) + 1
      BY <1>9, <2>2
    <3>2. Span((L - k + 1) + 1) = Span(L - k + 1) + Interval /\ Span(L - k + 1) \in Int
      BY <3>1, SpanFacts
    <3> DEFINE p == Span(L - k + 1)
    <3>3. tat[b] = log[b][k] + p /\ p \in Int /\ Span(N - k + 1) = p + Interval
      BY <2>1, <3>1, <3>2
    <3>4. tat'[b] = tat[b] + Interval
      BY <1>3, <1>8
    <3> HIDE DEF p
    <3>5. (log[b][k] + p) + Interval = log[b][k] + (p + Interval)
      BY <1>4, <2>2, <3>3
    <3> QED
      BY <2>2, <3>3, <3>4, <3>5, Zenon DEF N
  <2>4. ASSUME NEW i \in DOMAIN log'[b], i >= k
        PROVE  tat'[b] <= log'[b][i] + Span(Rate + (Len(log'[b]) - i))
    <3>1. CASE i = L + 1
      <4>1. Rate + (N - i) = Rate /\ log'[b][i] = at
        BY <1>2, <1>4, <1>9, <3>1
      <4>2. Span(Rate) = Tolerance + Interval
        BY SpanFacts
      <4>3. due + Interval <= at + (Tolerance + Interval)
        BY <1>4
      <4> QED
        BY <1>3, <4>1, <4>2, <4>3 DEF N
    <3>2. CASE i # L + 1
      <4>1. i \in 1..L
        BY <1>1, <1>2, <3>2
      <4>2. tat[b] <= log[b][i] + Span(Rate + (L - i))
        BY <1>1, <2>1, <2>4, <4>1
      <4>3. Rate + (L - i) \in Int /\ Rate + (N - i) = (Rate + (L - i)) + 1
        BY <1>4, <1>9, <4>1
      <4>4. /\ Span((Rate + (L - i)) + 1) = Span(Rate + (L - i)) + Interval
            /\ Span(Rate + (L - i)) \in Int
        BY <4>3, SpanFacts
      <4>5. log'[b][i] = log[b][i] /\ log[b][i] \in Nat
        BY <1>2, <4>1
      <4> DEFINE p == Span(Rate + (L - i))
      <4>6. p \in Int /\ tat[b] <= log[b][i] + p /\ Span(Rate + (N - i)) = p + Interval
        BY <4>2, <4>3, <4>4
      <4>7. tat'[b] = tat[b] + Interval /\ tat[b] \in Nat
        BY <1>3, <1>4, <1>8
      <4> HIDE DEF p
      <4>8. tat[b] + Interval <= log[b][i] + (p + Interval)
        BY <1>4, <4>5, <4>6, <4>7
      <4> QED
        BY <4>5, <4>6, <4>7, <4>8 DEF N
    <3> QED
      BY <3>1, <3>2
  <2> QED
    BY <1>8, <2>2, <2>3, <2>4
<1> QED
  BY <1>5, <1>6, <1>7, <1>8

\* Every step keeps the accounts.
LEMMA AccountedStep ==
    ASSUME TypeOK, Accounted, [Next]_vars
    PROVE  Accounted'
<1>1. CASE Tick
  BY <1>1 DEF Tick, Accounted, Span, history
<1>2. ASSUME NEW t \in Threads, NEW a \in Addresses, Sample(t, a) PROVE Accounted'
  BY <1>2 DEF Sample, Accounted, Span, history
<1>3. ASSUME NEW t \in Threads, RefuseFull(t) \/ RefuseAhead(t) \/ Accept(t) PROVE Accounted'
  <2>1. PICK b \in Buckets, at \in Nat :
           (UNCHANGED history /\ tat' = Table(b, at)) \/ Admitted(b, at)
    BY <1>3, StepOfThread
  <2> QED
    BY <2>1, AccountedRefused, AccountedAccepted DEF Admitted, history
<1>4. CASE UNCHANGED vars
  BY <1>4 DEF vars, history, Accounted, Span
<1> QED
  BY <1>1, <1>2, <1>3, <1>4 DEF Next

\* Schedules are accounted for at every instant, however threads are delayed.
LEMMA AccountedAlways == Spec => []Accounted
<1>1. Init => Accounted
  BY DEF Init, Accounted
<1>2. TypeOK /\ Accounted /\ [Next]_vars => Accounted'
  BY AccountedStep
<1> QED
  BY <1>1, <1>2, TypeCorrect, PTL DEF Spec

\* Linear facts about a schedule y, an admission x and a request at a.
LEMMA Ahead ==
    ASSUME NEW y \in Int, NEW x \in Int, NEW p \in Int, NEW a \in Int, NEW tol \in Int,
           y - a > tol
    PROVE  /\ y = x + p /\ p <= tol => x > a
           /\ y <= x + (p + tol) => x + p > a
  BY SMT

\* A schedule too far ahead weighs at least Rate admissions, unless one of
\* them had read the clock after the request.
LEMMA AheadIsEarned ==
    ASSUME TypeOK, Accounted, NEW b \in DOMAIN tat, NEW at \in Nat,
           tat[b] - at > Tolerance,
           \A i \in DOMAIN log[b] : log[b][i] <= at
    PROVE  Cardinality(Recent(b, at)) >= Rate
<1> DEFINE L == Len(log[b])
<1>1. b \in Buckets /\ tat[b] \in Nat /\ log[b] \in Seq(Nat)
  BY DEF TypeOK
<1>2. L \in Nat /\ DOMAIN log[b] = 1..L /\ \A i \in 1..L : log[b][i] \in Nat
  BY <1>1
<1>3. Rate \in Nat /\ Rate >= 1 /\ Interval \in Nat /\ Tolerance \in Nat
  BY LimiterAssumption, IntervalFacts, ToleranceFacts
<1>4. PICK k \in 1..L :
         /\ tat[b] = log[b][k] + Span(L - k + 1)
         /\ \A i \in 1..L : i >= k => tat[b] <= log[b][i] + Span(Rate + (L - i))
  BY <1>2 DEF Accounted
<1> HIDE DEF L
<1>5. k <= L - Rate + 1
  <2> SUFFICES ASSUME L - k + 1 <= Rate - 1 PROVE FALSE
    BY <1>2, <1>3
  <2>1. L - k + 1 \in Int /\ Rate - 1 \in Int
    BY <1>2, <1>3
  <2>2. Span(L - k + 1) <= Span(Rate - 1) /\ Span(Rate - 1) = Tolerance /\ Span(L - k + 1) \in Int
    BY <2>1, SpanFacts
  <2>3. log[b][k] \in Nat /\ log[b][k] <= at
    BY <1>2
  <2> DEFINE p == Span(L - k + 1)
  <2>4. p \in Int /\ p <= Tolerance /\ tat[b] = log[b][k] + p
    BY <1>4, <2>2
  <2> HIDE DEF p
  <2>5. log[b][k] > at
    BY <1>1, <1>3, <2>3, <2>4, Ahead
  <2> QED
    BY <2>3, <2>5
<1> DEFINE I == (L - Rate + 1)..L
<1>6. I \subseteq Recent(b, at)
  <2> SUFFICES ASSUME NEW i \in I PROVE i \in DOMAIN log[b] /\ log[b][i] + Rate * Interval > at
    BY DEF Recent
  <2>1. i \in 1..L /\ i >= k /\ Rate + (L - i) \in Int /\ Rate + (L - i) <= Rate + (Rate - 1)
    BY <1>2, <1>3, <1>5
  <2>2. tat[b] <= log[b][i] + Span(Rate + (L - i))
    BY <1>4, <2>1
  <2>3. Rate + (Rate - 1) \in Int
    BY <1>3
  <2>4. Span(Rate + (L - i)) <= Span(Rate + (Rate - 1)) /\ Span(Rate + (L - i)) \in Int
        /\ Span(Rate + (Rate - 1)) \in Int
    BY <2>1, <2>3, SpanFacts
  <2>5. Span(Rate + (Rate - 1)) = Rate * Interval + Tolerance
    <3>1. (Rate + (Rate - 1)) * Interval = Rate * Interval + (Rate - 1) * Interval
      BY <1>3, SMT
    <3>2. (Rate - 1) * Interval = Tolerance
      BY SpanFacts DEF Span
    <3> QED
      BY <3>1, <3>2 DEF Span
  <2>6. log[b][i] \in Nat /\ Rate * Interval \in Int
    BY <1>2, <1>3, <2>1, SMT
  <2> DEFINE r == Rate * Interval
  <2>7. r \in Int /\ tat[b] <= log[b][i] + (r + Tolerance)
    BY <1>1, <2>2, <2>4, <2>5, <2>6
  <2> HIDE DEF r
  <2>8. log[b][i] + r > at
    <3>1. log[b][i] \in Int /\ tat[b] \in Int /\ at \in Int /\ Tolerance \in Int
      BY <1>1, <1>3, <2>6
    <3> QED
      BY <2>7, <3>1, Ahead
  <2> QED
    BY <1>2, <2>1, <2>8 DEF r
<1>7. Cardinality(I) = Rate /\ IsFiniteSet(I)
  <2>1. L - Rate + 1 \in Int /\ L \in Int /\ ~(L - Rate + 1 > L) /\ L - (L - Rate + 1) + 1 = Rate
    BY <1>2, <1>3
  <2> QED
    BY <2>1, FS_Interval
<1> HIDE DEF I
<1>8. IsFiniteSet(Recent(b, at))
  <2>1. IsFiniteSet(1..L)
    BY <1>2, FS_Interval
  <2> QED
    BY <1>2, <2>1, FS_Subset DEF Recent
<1>9. Cardinality(I) <= Cardinality(Recent(b, at))
  BY <1>6, <1>8, FS_Subset
<1>10. Cardinality(Recent(b, at)) \in Nat
  BY <1>8, FS_CardinalityType
<1> QED
  BY <1>3, <1>7, <1>9, <1>10

\* A tracked client whose request ends without being admitted was ahead.
LEMMA RefusedIsAhead ==
    ASSUME TypeOK, Next, NEW t \in Threads, sampled[t] # None, sampled'[t] = None, log' = log,
           sampled[t].bucket \in DOMAIN tat
    PROVE  tat[sampled[t].bucket] - sampled[t].at > Tolerance
<1> DEFINE b == sampled[t].bucket
           at == sampled[t].at
<1>1. b \in Buckets /\ at \in Nat /\ Table(b, at) = tat /\ tat[b] \in Nat
  BY DEF TypeOK, Table, Full
<1>2. ~Tick
  BY DEF Tick
<1>3. \A u \in Threads, a \in Addresses : ~Sample(u, a)
  <2> SUFFICES ASSUME NEW u \in Threads, NEW a \in Addresses, Sample(u, a) PROVE FALSE
    OBVIOUS
  <2>1. u # t /\ sampled' = [sampled EXCEPT ![u] = [bucket |-> ClientKey(a), at |-> now]]
    BY DEF Sample
  <2> QED
    BY <2>1 DEF TypeOK
<1>4. PICK u \in Threads : RefuseFull(u) \/ RefuseAhead(u) \/ Accept(u)
  BY <1>2, <1>3 DEF Next
<1>5. u = t
  <2>1. sampled' = [sampled EXCEPT ![u] = None]
    BY <1>4 DEF RefuseFull, RefuseAhead, Accept, Decided
  <2> QED
    BY <2>1 DEF TypeOK
<1>6. ~RefuseFull(t)
  BY <1>1 DEF RefuseFull, Full
<1>7. ~Accept(t)
  <2> SUFFICES ASSUME Accept(t) PROVE FALSE
    OBVIOUS
  <2>1. log' = [log EXCEPT ![b] = Append(@, at)]
    BY DEF Accept
  <2>2. log[b] \in Seq(Nat) /\ log[b] = Append(log[b], at)
    BY <1>1, <2>1 DEF TypeOK
  <2>3. Len(Append(log[b], at)) = Len(log[b]) + 1 /\ Len(log[b]) \in Nat
    BY <1>1, <2>2
  <2>4. Len(log[b]) = Len(log[b]) + 1
    BY <2>2, <2>3, Zenon
  <2> QED
    BY <2>3, <2>4
<1>8. RefuseAhead(t)
  BY <1>4, <1>5, <1>6, <1>7
<1>9. Due(tat, b, at) - at > Tolerance
  BY <1>1, <1>8 DEF RefuseAhead
<1> QED
  BY <1>1, <1>9, ToleranceFacts DEF Due

\* limit.rs: for arbitrarily delayed threads, a tracked client is refused only
\* at the limit or when a later request of its own was decided before.
THEOREM RefusalsAreEarned == Spec => RefusedOnlyAtTheLimit
<1>1. TypeOK /\ Accounted /\ [Next]_vars =>
        [\A t \in Threads :
           LET s == sampled[t]
           IN  s # None /\ sampled'[t] = None /\ log' = log /\ s.bucket \in DOMAIN tat
               => \/ Cardinality(Recent(s.bucket, s.at)) >= Rate
                  \/ \E i \in DOMAIN log[s.bucket] : log[s.bucket][i] > s.at]_vars
  <2> SUFFICES ASSUME TypeOK, Accounted, Next, NEW t \in Threads,
                      sampled[t] # None, sampled'[t] = None, log' = log,
                      sampled[t].bucket \in DOMAIN tat,
                      ~ \E i \in DOMAIN log[sampled[t].bucket] :
                          log[sampled[t].bucket][i] > sampled[t].at
               PROVE  Cardinality(Recent(sampled[t].bucket, sampled[t].at)) >= Rate
    OBVIOUS
  <2> DEFINE b == sampled[t].bucket
             at == sampled[t].at
  <2>1. tat[b] - at > Tolerance
    BY RefusedIsAhead
  <2>2. b \in Buckets /\ at \in Nat /\ log[b] \in Seq(Nat)
    BY DEF TypeOK
  <2>3. \A i \in DOMAIN log[b] : log[b][i] \in Nat
    BY <2>2
  <2>4. \A i \in DOMAIN log[b] : log[b][i] <= at
    BY <2>2, <2>3
  <2> QED
    BY <2>1, <2>2, <2>4, AheadIsEarned
<1> QED
  BY <1>1, AccountedAlways, TypeCorrect, PTL DEF Spec, RefusedOnlyAtTheLimit

(***************************************************************************)
(* What the requests of NodeRead read.                                     *)
(***************************************************************************)
(* A nonempty set of numbers has a least one.                              *)
LEMMA LeastNumber ==
    ASSUME NEW S \in SUBSET Nat, S # {}
    PROVE  \E m \in S : \A y \in S : m <= y
  <1>1. PICK m \in S : \A y \in S : ~ <<y, m>> \in OpToRel(<, Nat)
    BY NatLessThanWellFounded, WFMin
  <1>2. \A y \in S : y \in Nat /\ m \in Nat /\ ~ (y < m)
    BY <1>1 DEF OpToRel
  <1> QED
    BY <1>2

(* What holds first and is handed on holds up to a bound.                  *)
LEMMA HandedOn ==
    ASSUME NEW n \in Nat, NEW G, 0 \in G, \A i \in 0 .. n - 1 : i \in G => i + 1 \in G
    PROVE  0 .. n \subseteq G
  <1> DEFINE Bad == {i \in 0 .. n : i \notin G}
  <1> SUFFICES ASSUME Bad # {} PROVE FALSE
    OBVIOUS
  <1>1. Bad \in SUBSET Nat
    OBVIOUS
  <1> HIDE DEF Bad
  <1>2. PICK m \in Bad : \A y \in Bad : m <= y
    BY <1>1, LeastNumber
  <1>3. m \in 0 .. n /\ m \notin G /\ m # 0
    BY DEF Bad
  <1>4. m - 1 \in 0 .. n - 1 /\ m - 1 \in 0 .. n /\ (m - 1) + 1 = m /\ ~ (m <= m - 1)
    BY <1>3
  <1>5. m - 1 \in G
    BY <1>2, <1>4 DEF Bad
  <1> QED
    BY <1>3, <1>4, <1>5

(* A step of a walk: where it leads, and the event that evidences it.      *)
Hop == [other : Nat, via : Nat]

(* The least of the steps that may be taken is one of them.                *)
LEMMA LeastIsOne ==
    ASSUME NEW on \in SUBSET Hop, on # {}
    PROVE  LeastOf(on) \in on
  <1>1. PICK m \in {e.other : e \in on} : \A y \in {e.other : e \in on} : m <= y
    <2>1. {e.other : e \in on} \in SUBSET Nat /\ {e.other : e \in on} # {}
      BY DEF Hop
    <2> QED
      BY <2>1, LeastNumber
  <1> DEFINE at == {e \in on : e.other = m}
  <1>2. PICK v \in {e.via : e \in at} : \A y \in {e.via : e \in at} : v <= y
    <2>1. {e.via : e \in at} \in SUBSET Nat /\ {e.via : e \in at} # {}
      BY DEF Hop
    <2> QED
      BY <2>1, LeastNumber
  <1>3. PICK e \in on : e.other = m /\ e.via = v
    BY <1>2
  <1>4. ASSUME NEW f \in on PROVE Before(e, f)
    <2>1. m <= f.other /\ m \in Nat /\ f.other \in Nat
      BY <1>1 DEF Hop
    <2>2. f.other = m => v <= f.via
      BY <1>2
    <2> QED
      BY <1>3, <2>1, <2>2 DEF Before
  <1> QED
    BY <1>4 DEF LeastOf

(* Two entities that an edge of a table joins at a coordinate.             *)
Joined(edges, x, y, t) == \E r \in edges : r.at <= t /\ {r.src, r.dst} = {x, y}

(* The neighbours a view of the store reads.                               *)
LEMMA NeighborsAre ==
    ASSUME NEW v, v.kind = "store", NEW x, NEW t
    PROVE  \A e : e \in neighbors(v, x, t) <=>
                     \E r \in v.edges : /\ r.at <= t
                                        /\ \/ r.src = x /\ e = [other |-> r.dst, via |-> r.via]
                                           \/ r.dst = x /\ e = [other |-> r.src, via |-> r.via]
  BY DEF neighbors, neighbors_at, Touching, AtOrBefore

(* A query for a level reads what a query for each of its entities does.   *)
LEMMA LevelsAre ==
    ASSUME NEW v, v.kind = "store", NEW S, NEW x \in S, NEW t
    PROVE  neighbors_many(v, S, t)[x] = neighbors(v, x, t)
  BY DEF neighbors_many, neighbors_many_at, neighbors, neighbors_at, Touching

(* A query of the neighbours of x finds exactly what is joined to x by t   *)
(* (cc-node, view.rs neighbors).                                           *)
LEMMA NeighborsJoin ==
    ASSUME NEW v, v.kind = "store", NEW x, NEW y, NEW t
    PROVE  (\E e \in neighbors(v, x, t) : e.other = y) <=> Joined(v.edges, x, y, t)
  <1>1. ASSUME NEW e \in neighbors(v, x, t), e.other = y PROVE Joined(v.edges, x, y, t)
    BY <1>1, NeighborsAre DEF Joined
  <1>2. ASSUME NEW r \in v.edges, r.at <= t, {r.src, r.dst} = {x, y}
        PROVE  \E e \in neighbors(v, x, t) : e.other = y
    <2>1. (r.src = x /\ r.dst = y) \/ (r.dst = x /\ r.src = y)
      BY <1>2
    <2>2. CASE r.src = x /\ r.dst = y
      <3>1. [other |-> r.dst, via |-> r.via] \in neighbors(v, x, t)
        BY <1>2, <2>2, NeighborsAre
      <3> QED
        BY <2>2, <3>1
    <2>3. CASE r.dst = x /\ r.src = y
      <3>1. [other |-> r.src, via |-> r.via] \in neighbors(v, x, t)
        BY <1>2, <2>3, NeighborsAre
      <3> QED
        BY <2>3, <3>1
    <2> QED
      BY <2>1, <2>2, <2>3
  <1> QED
    BY <1>1, <1>2 DEF Joined

(* A level of the search: the entities joined to a frontier that have no   *)
(* distance yet get one.                                                   *)
Advanced(edges, front, dist, depth, t, level) ==
    /\ level = [dist |-> level.dist, frontier |-> level.frontier]
    /\ level.dist = [x \in DOMAIN dist \cup level.frontier |->
                        IF x \in DOMAIN dist THEN dist[x] ELSE depth]
    /\ \A y : y \in level.frontier <=> y \notin DOMAIN dist /\ \E x \in front : Joined(edges, x, y, t)

LEMMA ExpandAdvances ==
    ASSUME NEW v, v.kind = "store", NEW front, NEW dist, NEW depth, NEW t
    PROVE  Advanced(v.edges, front, dist, depth, t, expand(v, front, dist, depth, t))
  <1> DEFINE next == {y \in UNION {{e.other : e \in neighbors(v, x, t)} : x \in front} : y \notin DOMAIN dist}
             many == neighbors_many(v, front, t)
  <1>1. {e.other : e \in UNION {many[x] : x \in front}} \ DOMAIN dist = next
    <2>1. \A x \in front : many[x] = neighbors(v, x, t)
      BY LevelsAre
    <2> HIDE DEF many
    <2> QED
      BY <2>1
  <1>2. expand(v, front, dist, depth, t) = Level(dist, next, depth)
    BY <1>1 DEF expand
  <1>3. \A y : y \in next <=> y \notin DOMAIN dist /\ \E x \in front : Joined(v.edges, x, y, t)
    <2>1. \A y : y \in next <=> y \notin DOMAIN dist /\ \E x \in front : \E e \in neighbors(v, x, t) : e.other = y
      OBVIOUS
    <2>2. \A x, y : (\E e \in neighbors(v, x, t) : e.other = y) <=> Joined(v.edges, x, y, t)
      BY NeighborsJoin
    <2> HIDE DEF next
    <2> QED
      BY <2>1, <2>2
  <1> HIDE DEF next
  <1>4. PICK level : level = Level(dist, next, depth)
    OBVIOUS
  <1>5. /\ level.frontier = next
        /\ level.dist = [x \in DOMAIN dist \cup next |-> IF x \in DOMAIN dist THEN dist[x] ELSE depth]
        /\ level = [dist |-> level.dist, frontier |-> level.frontier]
    BY <1>4 DEF Level
  <1> QED
    BY <1>2, <1>3, <1>4, <1>5 DEF Advanced

(* One side of the search from root, among the facts G: distances of walks *)
(* up to depth, closed under a step of G except at the frontier.           *)
Side(G, t, root, dist, front, depth) ==
    /\ depth \in Nat
    /\ dist = [x \in DOMAIN dist |-> dist[x]]
    /\ root \in DOMAIN dist /\ dist[root] = 0
    /\ \A x \in DOMAIN dist : dist[x] \in 0 .. depth /\ (dist[x] = 0 => x = root)
    /\ front = {x \in DOMAIN dist : dist[x] = depth}
    /\ \A x \in DOMAIN dist : dist[x] < depth =>
          \A y \in Places(G) : Evidenced(G, x, y, t) => y \in DOMAIN dist /\ dist[y] <= dist[x] + 1

(* A search that has gone nowhere covers its root to depth zero            *)
(* (cc-filter, reach.rs).                                                  *)
LEMMA SideStarts ==
    ASSUME NEW G, NEW t, NEW root
    PROVE  Side(G, t, root, [x \in {root} |-> 0], {root}, 0)
  BY DEF Side

(* What G evidences is joined in the table whose level is read.            *)
LEMMA SideAdvances ==
    ASSUME NEW G, NEW t, NEW edges, \A x, y : Evidenced(G, x, y, t) => Joined(edges, x, y, t),
           NEW root, NEW dist, NEW front, NEW depth, Side(G, t, root, dist, front, depth),
           NEW level, Advanced(edges, front, dist, depth + 1, t, level)
    PROVE  Side(G, t, root, level.dist, level.frontier, depth + 1)
  <1>1. /\ depth \in Nat /\ depth + 1 \in Nat /\ depth + 1 # 0 /\ depth + 1 # depth
        /\ \A i \in 0 .. depth : i \in 0 .. depth + 1 /\ i # depth + 1 /\ i \in Int
                                 /\ (i < depth + 1) /\ (i < depth \/ i = depth)
    BY DEF Side
  <1>2. /\ level.dist = [x \in DOMAIN level.dist |-> level.dist[x]]
        /\ DOMAIN level.dist = DOMAIN dist \cup level.frontier
        /\ \A x \in DOMAIN dist : level.dist[x] = dist[x]
        /\ \A x \in level.frontier : x \notin DOMAIN dist /\ level.dist[x] = depth + 1
    BY DEF Advanced
  <1>3. root \in DOMAIN level.dist /\ level.dist[root] = 0
    BY <1>2 DEF Side
  <1>4. \A x \in DOMAIN level.dist : level.dist[x] \in 0 .. depth + 1 /\ (level.dist[x] = 0 => x = root)
    <2>1. \A x \in DOMAIN dist : dist[x] \in 0 .. depth /\ (dist[x] = 0 => x = root)
      BY DEF Side
    <2>2. depth + 1 \in 0 .. depth + 1
      BY <1>1
    <2> QED
      BY <1>1, <1>2, <2>1, <2>2
  <1>5. level.frontier = {x \in DOMAIN level.dist : level.dist[x] = depth + 1}
    <2>1. \A x \in DOMAIN dist : dist[x] # depth + 1
      BY <1>1 DEF Side
    <2> QED
      BY <1>2, <2>1
  <1>6. ASSUME NEW x \in DOMAIN level.dist, level.dist[x] < depth + 1,
               NEW y \in Places(G), Evidenced(G, x, y, t)
        PROVE  y \in DOMAIN level.dist /\ level.dist[y] <= level.dist[x] + 1
    <2>1. x \in DOMAIN dist /\ level.dist[x] = dist[x] /\ dist[x] \in 0 .. depth
      <3>1. ~ (depth + 1 < depth + 1)
        BY <1>1
      <3>2. x \in DOMAIN dist
        BY <1>2, <1>6, <3>1
      <3> QED
        BY <1>2, <3>2 DEF Side
    <2>2. CASE dist[x] < depth
      <3>1. y \in DOMAIN dist /\ dist[y] <= dist[x] + 1
        BY <1>6, <2>1, <2>2 DEF Side
      <3> QED
        BY <1>2, <2>1, <3>1
    <2>3. CASE dist[x] = depth
      <3>1. x \in front /\ Joined(edges, x, y, t)
        BY <1>6, <2>1, <2>3 DEF Side
      <3>2. y \in DOMAIN level.dist
        BY <1>2, <3>1 DEF Advanced
      <3>3. level.dist[y] \in 0 .. depth + 1
        BY <1>4, <3>2
      <3> QED
        BY <1>1, <2>1, <2>3, <3>2, <3>3
    <2> QED
      BY <1>1, <2>1, <2>2, <2>3
  <1> QED
    BY <1>1, <1>2, <1>3, <1>4, <1>5, <1>6 DEF Side

(* A walk in G from the root is covered as far as the side is deep, and    *)
(* wholly when there is no frontier left.                                  *)
LEMMA SideCovers ==
    ASSUME NEW G, NEW t, NEW root, NEW dist, NEW front, NEW depth, Side(G, t, root, dist, front, depth),
           NEW d \in Nat, NEW w, w[0] = root,
           \A i \in 1 .. d : w[i] \in Places(G) /\ Evidenced(G, w[i - 1], w[i], t)
    PROVE  \A i \in 0 .. d : i <= depth \/ front = {} => w[i] \in DOMAIN dist
  <1> DEFINE C == {i \in Nat : i <= depth \/ front = {} => w[i] \in DOMAIN dist /\ dist[w[i]] <= i}
  <1>1. 0 \in C
    BY DEF Side
  <1>2. ASSUME NEW i \in 0 .. d - 1, i \in C PROVE i + 1 \in C
    <2>1. i \in Nat /\ i + 1 \in Nat /\ i + 1 \in 1 .. d /\ (i + 1) - 1 = i /\ depth \in Nat
      BY DEF Side
    <2>2. SUFFICES ASSUME i + 1 <= depth \/ front = {}
                   PROVE  w[i + 1] \in DOMAIN dist /\ dist[w[i + 1]] <= i + 1
      BY <2>1
    <2>3. i <= depth \/ front = {}
      BY <2>1, <2>2
    <2>4. w[i] \in DOMAIN dist /\ dist[w[i]] <= i /\ dist[w[i]] \in 0 .. depth
      BY <1>2, <2>3 DEF Side
    <2>5. dist[w[i]] < depth
      <3>1. CASE i + 1 <= depth
        BY <2>1, <2>4, <3>1
      <3>2. CASE front = {}
        <4>1. dist[w[i]] # depth
          BY <2>4, <3>2 DEF Side
        <4> QED
          BY <2>1, <2>4, <4>1
      <3> QED
        BY <2>2, <3>1, <3>2
    <2>6. w[i + 1] \in Places(G) /\ Evidenced(G, w[i], w[i + 1], t)
      BY <2>1
    <2>7. w[i + 1] \in DOMAIN dist /\ dist[w[i + 1]] <= dist[w[i]] + 1
      BY <2>4, <2>5, <2>6 DEF Side
    <2>8. dist[w[i + 1]] \in 0 .. depth
      BY <2>7 DEF Side
    <2> QED
      BY <2>1, <2>4, <2>7, <2>8
  <1> HIDE DEF C
  <1>3. 0 .. d \subseteq C
    BY <1>1, <1>2, HandedOn
  <1> QED
    BY <1>3 DEF C

(* Two sides that share nothing and are deep enough together, or one of    *)
(* which is exhausted, show that there is no walk.                         *)
LEMMA NoWalkBetween ==
    ASSUME NEW G, NEW t, NEW from, NEW to,
           NEW distF, NEW frontF, NEW depthF, Side(G, t, from, distF, frontF, depthF),
           NEW distB, NEW frontB, NEW depthB, Side(G, t, to, distB, frontB, depthB),
           DOMAIN distF \cap DOMAIN distB = {},
           NEW k \in Nat, depthF + depthB >= k \/ frontF = {} \/ frontB = {},
           NEW d \in 0 .. k
    PROVE  Walks(G, from, to, d, t) = {}
  <1> SUFFICES ASSUME NEW w \in Walks(G, from, to, d, t) PROVE FALSE
    OBVIOUS
  <1>1. d \in Nat /\ depthF \in Nat /\ depthB \in Nat /\ d <= k
    BY DEF Side
  <1>2. w \in [0 .. d -> Places(G) \cup {from, to}] /\ w[0] = from /\ w[d] = to
        /\ \A i \in 1 .. d : Evidenced(G, w[i - 1], w[i], t)
    BY DEF Walks
  <1>3. \A x, y : Evidenced(G, x, y, t) => x \in Places(G) /\ y \in Places(G) /\ Evidenced(G, y, x, t)
    <2>1. ASSUME NEW x, NEW y, Evidenced(G, x, y, t)
          PROVE  x \in Places(G) /\ y \in Places(G) /\ Evidenced(G, y, x, t)
      <3>1. PICK f \in G : f.type = "edge" /\ f.at <= t /\ {f.src, f.dst} = {x, y}
        BY <2>1 DEF Evidenced
      <3>2. {f.src, f.dst} = {y, x} /\ x \in {f.src, f.dst} /\ y \in {f.src, f.dst}
        BY <3>1
      <3> QED
        BY <3>1, <3>2 DEF Evidenced, Places
    <2> QED
      BY <2>1
  <1> DEFINE u == [i \in 0 .. d |-> w[d - i]]
  <1>4. \A i \in 0 .. d : i <= depthF \/ frontF = {} => w[i] \in DOMAIN distF
    <2>1. \A i \in 1 .. d : w[i] \in Places(G) /\ Evidenced(G, w[i - 1], w[i], t)
      BY <1>2, <1>3
    <2> QED
      BY <1>1, <1>2, <2>1, SideCovers
  <1>5. \A i \in 0 .. d : i <= depthB \/ frontB = {} => u[i] \in DOMAIN distB
    <2>1. u[0] = to
      BY <1>1, <1>2
    <2>2. ASSUME NEW i \in 1 .. d PROVE u[i] \in Places(G) /\ Evidenced(G, u[i - 1], u[i], t)
      <3>1. d - i \in 0 .. d /\ i - 1 \in 0 .. d /\ i \in 0 .. d /\ d - (i - 1) = (d - i) + 1
            /\ (d - i) + 1 \in 1 .. d /\ ((d - i) + 1) - 1 = d - i
        BY <1>1
      <3>2. Evidenced(G, w[d - i], w[(d - i) + 1], t)
        BY <1>2, <3>1
      <3>3. u[i] = w[d - i] /\ u[i - 1] = w[(d - i) + 1]
        BY <3>1
      <3> HIDE DEF u
      <3> QED
        BY <1>3, <3>2, <3>3
    <2> HIDE DEF u
    <2> QED
      BY <1>1, <2>1, <2>2, SideCovers
  <1>6. \A i \in 0 .. d : i >= d - depthB \/ frontB = {} => w[i] \in DOMAIN distB
    <2>1. ASSUME NEW i \in 0 .. d, i >= d - depthB \/ frontB = {} PROVE w[i] \in DOMAIN distB
      <3>1. d - i \in 0 .. d /\ d - (d - i) = i /\ (i >= d - depthB => d - i <= depthB)
        BY <1>1
      <3>2. u[d - i] = w[i]
        BY <3>1
      <3> HIDE DEF u
      <3> QED
        BY <1>5, <2>1, <3>1, <3>2
    <2> QED
      BY <2>1
  <1>7. CASE depthF + depthB >= k
    <2>1. PICK a \in 0 .. d : a <= depthF /\ a >= d - depthB
      <3>1. CASE d <= depthF
        BY <1>1, <3>1
      <3>2. CASE depthF < d
        <4>1. depthF \in 0 .. d /\ depthF >= d - depthB
          BY <1>1, <1>7, <3>2
        <4> QED
          BY <1>1, <4>1
      <3> QED
        BY <1>1, <3>1, <3>2
    <2> QED
      BY <1>4, <1>6, <2>1
  <1>8. CASE frontF = {}
    <2>1. d \in 0 .. d /\ d >= d - depthB
      BY <1>1
    <2> QED
      BY <1>4, <1>6, <1>8, <2>1
  <1>9. CASE frontB = {}
    <2>1. 0 \in 0 .. d /\ 0 <= depthF
      BY <1>1
    <2> QED
      BY <1>4, <1>6, <1>9, <2>1
  <1> QED
    BY <1>7, <1>8, <1>9

(* When the sides meet, the least sum is a positive number of steps that   *)
(* the search has gone.                                                    *)
LEMMA MetIs ==
    ASSUME NEW G, NEW t, NEW from, NEW to, from # to,
           NEW distF, NEW frontF, NEW depthF, Side(G, t, from, distF, frontF, depthF),
           NEW distB, NEW frontB, NEW depthB, Side(G, t, to, distB, frontB, depthB)
    PROVE  \/ Met(distF, distB) = NotMet /\ DOMAIN distF \cap DOMAIN distB = {}
           \/ Met(distF, distB) \in 1 .. depthF + depthB
  <1> DEFINE both == DOMAIN distF \cap DOMAIN distB
             sums == {distF[e] + distB[e] : e \in both}
  <1>1. depthF \in Nat /\ depthB \in Nat
    BY DEF Side
  <1>2. ASSUME NEW e \in both PROVE distF[e] + distB[e] \in 1 .. depthF + depthB
    <2>1. distF[e] \in 0 .. depthF /\ distB[e] \in 0 .. depthB /\ (distF[e] # 0 \/ distB[e] # 0)
      BY DEF Side
    <2> QED
      BY <1>1, <2>1
  <1>3. CASE both = {}
    BY <1>3 DEF Met
  <1>4. CASE both # {}
    <2>1. sums \in SUBSET Nat /\ sums # {} /\ sums \subseteq 1 .. depthF + depthB
      BY <1>1, <1>2, <1>4
    <2>2. Met(distF, distB) = CHOOSE d \in sums : \A x \in sums : d <= x
      BY <1>4 DEF Met
    <2> HIDE DEF sums
    <2>3. \E d \in sums : \A x \in sums : d <= x
      BY <2>1, LeastNumber
    <2> QED
      BY <2>1, <2>2, <2>3
  <1> QED
    BY <1>3, <1>4

(* What the certificate says of the support it was given.                  *)
Says(c, w1, w2, a, support) ==
    /\ c.verdict.kind \in {"Supported", "Unsupported", "Contradicted"}
    /\ c.verdict.kind = "Supported" => c.verdict.support = support /\ support # NoSupport
    /\ \A e \in c.consulted : \/ e \in w1.derived_from \cup w2.derived_from \cup a.derived_from
                              \/ \E i \in DOMAIN support.steps : e = support.steps[i].via
    /\ (\E f \in c.absences : f.why = "no_evidenced_walk") => support = NoSupport

(* Of a certificate (cc-filter, certify): what is supported is the         *)
(* support, what was consulted are the events of the two windows, the      *)
(* ruling and the support, and a walk is missing only where there is no    *)
(* support.                                                                *)
LEMMA CertificateSays ==
    ASSUME NEW w1, NEW w2, NEW a, a.tag \in {"valid", "unrecorded", "outside"}, NEW support, NEW q
    PROVE  Says(Certificate(w1, w2, a, support, q), w1, w2, a, support)
  <1> DEFINE c == Certificate(w1, w2, a, support, q)
             o1 == window_factor(w1, q.t, q.from)
             o2 == window_factor(w2, q.t, q.to)
             o3 == admiss_factor(a, q.claim)
             o4 == reach_factor(support, q)
             outcomes == <<o1, o2, o3, o4>>
  <1>1. /\ c.verdict = combine(outcomes, support)
        /\ c.absences = Vanished(outcomes, "absent")
        /\ c.consulted = w1.derived_from \cup w2.derived_from \cup a.derived_from
                           \cup {support.steps[i].via : i \in DOMAIN support.steps}
    BY DEF Certificate
  <1>2. /\ combine(outcomes, support).kind \in {"Supported", "Unsupported", "Contradicted"}
        /\ combine(outcomes, support).kind = "Supported" =>
              combine(outcomes, support).support = support /\ \A f \in Range(outcomes) : f.arm = "holds"
    <2> HIDE DEF outcomes
    <2>1. \A f : Rejected(f).kind \in {"Unsupported", "Contradicted"}
      BY DEF Rejected, Verdict
    <2> QED
      BY <2>1 DEF combine, Verdict
  <1>3. Range(outcomes) = {o1, o2, o3, o4}
    <2> HIDE DEF o1, o2, o3, o4
    <2>1. DOMAIN outcomes = {1, 2, 3, 4}
      OBVIOUS
    <2>2. outcomes[1] = o1 /\ outcomes[2] = o2 /\ outcomes[3] = o3 /\ outcomes[4] = o4
      OBVIOUS
    <2> HIDE DEF outcomes
    <2> QED
      BY <2>1, <2>2 DEF Range
  <1>4. o1.why # "no_evidenced_walk" /\ o2.why # "no_evidenced_walk" /\ o3.why # "no_evidenced_walk"
    <2>1. \A w, t, f : window_factor(w, t, f).why # "no_evidenced_walk"
      BY DEF window_factor, Holds, Absent, Contrary
    <2>2. admiss_factor(a, q.claim).why # "no_evidenced_walk"
      BY DEF admiss_factor, Holds, Absent, Contrary
    <2> QED
      BY <2>1, <2>2
  <1>5. (support # NoSupport) <=> (o4.arm = "holds")
    BY DEF reach_factor, Holds, Absent
  <1> HIDE DEF o1, o2, o3, o4, outcomes, c
  <1>6. ASSUME NEW f \in c.absences, f.why = "no_evidenced_walk" PROVE support = NoSupport
    <2>1. f \in {o1, o2, o3, o4} /\ f.arm = "absent"
      BY <1>1, <1>3 DEF Vanished
    <2> QED
      BY <1>4, <1>5, <1>6, <2>1
  <1>7. c.verdict.kind = "Supported" => support # NoSupport
    BY <1>1, <1>2, <1>3, <1>5
  <1>8. Says(c, w1, w2, a, support)
    BY <1>1, <1>2, <1>6, <1>7 DEF Says
  <1> QED
    BY <1>8 DEF c

(***************************************************************************)
(* The invariant.                                                          *)
(***************************************************************************)
Judging == {"window1", "window2", "admissibility", "search", "labels", "walk"}
Looking == {"entity", "entity_window", "readings", "claim_body", "incident"}
Phases == {"asked", "open", "moments", "recents", "done"} \cup Judging \cup Looking

(* A request is where its kind may be, and only what was committed by then *)
(* was there when its view was opened.                                     *)
RequestInv ==
    /\ req = [q |-> req.q, pc |-> req.pc, opened |-> req.opened, w1 |-> req.w1, w2 |-> req.w2,
              a |-> req.a, s |-> req.s, d |-> req.d, b |-> req.b, w |-> req.w, row |-> req.row,
              rs |-> req.rs, body |-> req.body, ans |-> req.ans]
    /\ req.q \in Requests /\ req.pc \in Phases /\ req.opened \subseteq known
    /\ req.pc \notin {"asked", "done"} => t_q \in Int
    /\ req.pc \in Judging => req.q.kind = "feasibility" /\ req.q.k \in 0 .. KMax

(* The tables say what is committed, one row to a key.                     *)
TablesInv ==
    /\ db = [kind |-> "store", edges |-> db.edges, entities |-> db.entities,
             vocabulary |-> db.vocabulary, moments |-> db.moments, bodies |-> db.bodies]
    /\ known \subseteq req.q.world
    /\ db.edges = {EdgeRow(f) : f \in {f \in known : f.type = "edge"}}
    /\ \A r \in db.entities : \E f \in known : f.type = "birth" /\ r = EntityRow(f)
    /\ \A r, p \in db.entities : r.key = p.key => r = p
    /\ \A r \in db.vocabulary : \E f \in known : f.type = "declaration" /\ r = VocabularyRow(f)
    /\ IsFiniteSet(db.moments)
    /\ \A b \in db.bodies : \E f \in known : f.type = "body" /\ b = f.row

(* What a factor was read from is committed and counts at t_q.             *)
Counted(events) == \A e \in events : \E f \in known : f.via = e /\ Begins(f) <= t_q
FactorsInv ==
    /\ Counted(req.w1.derived_from) /\ Counted(req.w2.derived_from) /\ Counted(req.a.derived_from)
    /\ req.a.tag \in {"valid", "unrecorded", "outside"}

(* Both sides of the search go as far as their depth, and no walk of fewer *)
(* steps than the sum of their depths is there while they do not meet.     *)
SearchInv ==
    req.pc = "search" =>
       LET s == req.s IN
       /\ s = [distF |-> s.distF, distB |-> s.distB, frontF |-> s.frontF, frontB |-> s.frontB,
               depthF |-> s.depthF, depthB |-> s.depthB, met |-> s.met]
       /\ Side(req.opened, t_q, req.q.from, s.distF, s.frontF, s.depthF)
       /\ Side(req.opened, t_q, req.q.to, s.distB, s.frontB, s.depthB)
       /\ s.depthF + s.depthB <= req.q.k
       /\ req.q.from # req.q.to =>
             \/ s.met = NotMet /\ DOMAIN s.distF \cap DOMAIN s.distB = {}
             \/ s.met \in 1 .. s.depthF + s.depthB

(* Labels are dense from 0, which the target alone has.                    *)
LabelsInv ==
    req.pc \in {"labels", "walk"} =>
       /\ req.d \in 1 .. req.q.k
       /\ req.b = [dist |-> req.b.dist, frontier |-> req.b.frontier]
       /\ Depth \in Nat /\ {req.b.dist[x] : x \in DOMAIN req.b.dist} = 0 .. Depth
       /\ \A x \in DOMAIN req.b.dist : req.b.dist[x] = 0 => x = req.q.to

(* The walk so far is recorded, and ends with the label that remains.      *)
Place(from, steps, i) == IF i = 0 THEN from ELSE steps[i].other
Recorded(edges, t, from, steps) ==
    \A i \in 1 .. Len(steps) :
       \E x \in edges : /\ x.via = steps[i].via /\ x.at <= t
                        /\ {x.src, x.dst} = {Place(from, steps, i - 1), Place(from, steps, i)}
WalkInv ==
    req.pc = "walk" =>
       LET w == req.w IN
       /\ w = [cur |-> w.cur, remaining |-> w.remaining, steps |-> w.steps,
               inconsistent |-> w.inconsistent]
       /\ w.inconsistent \in BOOLEAN
       /\ ~w.inconsistent =>
             /\ w.remaining \in 0 .. req.d /\ w.steps \in Seq(Hop)
             /\ Len(w.steps) = req.d - w.remaining
             /\ w.cur = Place(req.q.from, w.steps, Len(w.steps))
             /\ w.steps # <<>> => w.cur \in DOMAIN req.b.dist /\ req.b.dist[w.cur] = w.remaining
             /\ Recorded(db.edges, t_q, req.q.from, w.steps)

(* The row of the entity, and once its window is read the birth that it    *)
(* comes from; then its readings, each with one body or none.              *)
NotLater(f, r) ==
    f.at < r.birth_event_time \/ (f.at = r.birth_event_time /\ f.via <= r.birth_event)
IsSeq(s) == Len(s) \in Nat /\ s = [i \in 1 .. Len(s) |-> s[i]]
EntityInv ==
    /\ req.pc = "entity_window" =>
          /\ req.row # {}
          /\ \A r \in req.row :
                /\ r.birth_event_time \in Int /\ r.birth_event_time <= t_q /\ r.birth_event \in Nat
                /\ \E p \in db.entities : p.key = req.q.entity /\ NotLater(p, r)
    /\ req.pc \in {"readings", "claim_body", "incident"} =>
          /\ req.row # {}
          /\ \E f \in known : /\ f.type = "birth" /\ req.w1.derived_from = {f.via}
                              /\ \A r \in req.row : NotLater(f, r)
    /\ req.pc \in {"claim_body", "incident"} =>
          IsSeq(req.rs) /\ \A i \in 1 .. Len(req.rs) : req.rs[i].body = {} \/ \E b \in db.bodies : req.rs[i].body = {b}

ReadInv == /\ RequestInv /\ TablesInv /\ FactorsInv /\ SearchInv /\ LabelsInv /\ WalkInv /\ EntityInv
           /\ VerdictIsTrue /\ EntityHoldsTogether

(* The facts that are known are typed, and bodies are unique by hash.      *)
LEMMA Typing ==
    ASSUME ReadInv
    PROVE  /\ known \subseteq req.q.world
           /\ \A f \in known : FactTyped(f)
           /\ \A b, c \in db.bodies : b.hash = c.hash => b = c
           /\ db.kind = "store"
  <1>1. req.q \in Requests /\ known \subseteq req.q.world
    BY DEF ReadInv, RequestInv, TablesInv
  <1>2. \A f \in known : FactTyped(f)
    BY <1>1, WorldAssumption
  <1>3. ASSUME NEW b \in db.bodies, NEW c \in db.bodies, b.hash = c.hash PROVE b = c
    <2>1. PICK f \in known : f.type = "body" /\ b = f.row
      BY DEF ReadInv, TablesInv
    <2>2. PICK g \in known : g.type = "body" /\ c = g.row
      BY DEF ReadInv, TablesInv
    <2> QED
      BY <1>1, <1>3, <2>1, <2>2, WorldAssumption
  <1>4. db.kind = "store"
    BY DEF ReadInv, TablesInv
  <1> QED
    BY <1>1, <1>2, <1>3, <1>4

(* A request does not change the tables.                                   *)
LEMMA TablesStay ==
    ASSUME TablesInv, Unread, req'.q = req.q
    PROVE  TablesInv'
  BY DEF TablesInv, Unread

(* An answer: what remains to be shown is that it is right.                *)
LEMMA AnswerKeeps ==
    ASSUME ReadInv, Unread, NEW a, Answer(a)
    PROVE  /\ RequestInv' /\ TablesInv' /\ FactorsInv' /\ SearchInv' /\ LabelsInv' /\ WalkInv' /\ EntityInv'
           /\ req'.pc = "done" /\ req'.ans = a /\ req'.q = req.q /\ req'.opened = req.opened
           /\ t_q' = t_q
  <1>1. /\ req'.pc = "done" /\ req'.ans = a /\ req'.q = req.q /\ req'.opened = req.opened
        /\ req'.w1 = req.w1 /\ req'.w2 = req.w2 /\ req'.a = req.a
    BY DEF Answer, ReadInv, RequestInv
  <1>2. RequestInv'
    BY <1>1 DEF Answer, Unread, ReadInv, RequestInv, Phases, Judging, Looking
  <1>3. TablesInv'
    BY <1>1, TablesStay DEF ReadInv
  <1>4. FactorsInv'
    BY <1>1 DEF ReadInv, FactorsInv, Counted, Unread, t_q
  <1>5. SearchInv' /\ LabelsInv' /\ WalkInv' /\ EntityInv'
    BY <1>1 DEF SearchInv, LabelsInv, WalkInv, EntityInv
  <1> QED
    BY <1>1, <1>2, <1>3, <1>4, <1>5 DEF t_q

(* An answer that is neither a verdict nor an entity says nothing.         *)
LEMMA NoVerdict ==
    ASSUME ReadInv, Unread, NEW a, Answer(a),
           a.result \notin {"Supported", "Unsupported", "Contradicted", "entity"}
    PROVE  ReadInv'
  <1>1. /\ RequestInv' /\ TablesInv' /\ FactorsInv' /\ SearchInv' /\ LabelsInv' /\ WalkInv' /\ EntityInv'
        /\ req'.ans = a
    BY AnswerKeeps
  <1>2. VerdictIsTrue' /\ EntityHoldsTogether'
    BY <1>1 DEF VerdictIsTrue, SupportIsRecorded, SilenceWasTrue, EntityHoldsTogether, Done
  <1> QED
    BY <1>1, <1>2 DEF ReadInv

(* A request that goes on has said nothing yet.                            *)
LEMMA NothingYet ==
    ASSUME req'.pc # "done"
    PROVE  VerdictIsTrue' /\ EntityHoldsTogether'
  BY DEF VerdictIsTrue, SupportIsRecorded, SilenceWasTrue, EntityHoldsTogether, Done

(* A request that has just arrived satisfies the invariant.                *)
LEMMA ReadStarts ==
    ASSUME ReadInit
    PROVE  ReadInv
  <1>1. PICK q \in Requests : req = Asked(q)
    BY DEF ReadInit
  <1>2. db = EmptyStore /\ known = {}
    BY DEF ReadInit
  <1>3. req.pc = "asked" /\ req.q = q /\ req.opened = {}
    BY <1>1 DEF Asked
  <1>4. RequestInv
    BY <1>1, <1>2, <1>3 DEF RequestInv, Asked, Phases, Judging
  <1>5. TablesInv
    BY <1>2, FS_EmptySet DEF TablesInv, EmptyStore
  <1>6. FactorsInv
    <2>1. req.w1.derived_from = {} /\ req.w2.derived_from = {} /\ req.a.derived_from = {} /\ req.a.tag = "unrecorded"
      BY <1>1 DEF Asked, unrecorded, Windowed, Unrecorded
    <2> QED
      BY <2>1 DEF FactorsInv, Counted
  <1>7. SearchInv /\ LabelsInv /\ WalkInv /\ EntityInv
    BY <1>3 DEF SearchInv, LabelsInv, WalkInv, EntityInv
  <1>8. VerdictIsTrue /\ EntityHoldsTogether
    BY <1>3 DEF VerdictIsTrue, SupportIsRecorded, SilenceWasTrue, EntityHoldsTogether, Done
  <1> QED
    BY <1>4, <1>5, <1>6, <1>7, <1>8 DEF ReadInv

(* Parsing a request (cc-node, api.rs), which may refuse it, keeps the     *)
(* invariant.                                                              *)
LEMMA ParseKeeps ==
    ASSUME ReadInv, Parse
    PROVE  ReadInv'
  <1>1. CASE Malformed(req.q)
    <2>1. Answer([result |-> "bad_request"]) /\ Unread
      BY <1>1 DEF Parse
    <2> QED
      BY <2>1, NoVerdict
  <1>2. CASE ~ Malformed(req.q)
    <2>1. To("open") /\ Unread /\ req.pc = "asked"
      BY <1>2 DEF Parse
    <2>2. /\ req'.pc = "open" /\ req'.q = req.q /\ req'.opened = req.opened
          /\ req'.w1 = req.w1 /\ req'.w2 = req.w2 /\ req'.a = req.a
      BY <2>1 DEF To, ReadInv, RequestInv
    <2>3. t_q \in Int
      <3>1. parse_as_of(req.q.as_of) = "ok"
        BY <1>2 DEF Malformed
      <3>2. req.q.as_of.form \notin {"missing", "blank", "malformed", "overflow"}
        BY <3>1 DEF parse_as_of
      <3> QED
        BY <3>2, QueryAssumption DEF t_q, ReadInv, RequestInv
    <2>4. RequestInv'
      BY <2>1, <2>2, <2>3 DEF To, Unread, ReadInv, RequestInv, Phases, Judging, Looking, t_q
    <2>5. TablesInv'
      BY <2>1, <2>2, TablesStay DEF ReadInv
    <2>6. FactorsInv'
      BY <2>1, <2>2 DEF ReadInv, FactorsInv, Counted, Unread, t_q
    <2>7. SearchInv' /\ LabelsInv' /\ WalkInv' /\ EntityInv'
      BY <2>2 DEF SearchInv, LabelsInv, WalkInv, EntityInv
    <2> QED
      BY <2>2, <2>4, <2>5, <2>6, <2>7, NothingYet DEF ReadInv
  <1> QED
    BY <1>1, <1>2

(* Opening the view, where the request starts to read (cc-node, view.rs),  *)
(* keeps the invariant.                                                    *)
LEMMA OpenKeeps ==
    ASSUME ReadInv, Open
    PROVE  ReadInv'
  <1>1. CASE req.q.kind = "feasibility" /\ check_query(Query, KMax) # "ok"
    <2>1. Answer([result |-> "bad_request"]) /\ Unread
      BY <1>1 DEF Open
    <2> QED
      BY <2>1, NoVerdict
  <1>2. CASE ~ (req.q.kind = "feasibility" /\ check_query(Query, KMax) # "ok")
    <2> DEFINE next == IF req.q.kind = "feasibility" THEN "window1" ELSE req.q.kind
    <2>1. req' = [req EXCEPT !.pc = next, !.opened = known] /\ Unread /\ req.pc = "open"
      BY <1>2 DEF Open
    <2>2. /\ req'.pc = next /\ req'.q = req.q /\ req'.opened = known
          /\ req'.w1 = req.w1 /\ req'.w2 = req.w2 /\ req'.a = req.a
      BY <2>1 DEF ReadInv, RequestInv
    <2>3. /\ next \in {"window1", "entity", "moments", "recents"}
          /\ next = "window1" => req.q.kind = "feasibility" /\ req.q.k \in 0 .. KMax
      <3>1. req.q.kind \in {"feasibility", "entity", "moments", "recents"}
        BY QueryAssumption DEF ReadInv, RequestInv
      <3>2. ASSUME req.q.kind = "feasibility" PROVE req.q.k \in 0 .. KMax
        <4>1. req.q.k \in Nat /\ KMax \in Nat
          BY <3>2, QueryAssumption DEF ReadInv, RequestInv
        <4>2. ~ (req.q.k > KMax)
          BY <1>2, <3>2 DEF check_query, Query
        <4> QED
          BY <4>1, <4>2
      <3> QED
        BY <3>1, <3>2
    <2> HIDE DEF next
    <2>4. RequestInv'
      BY <2>1, <2>2, <2>3 DEF Unread, ReadInv, RequestInv, Phases, Judging, Looking, t_q
    <2>5. TablesInv'
      BY <2>1, <2>2, TablesStay DEF ReadInv
    <2>6. FactorsInv'
      BY <2>1, <2>2 DEF ReadInv, FactorsInv, Counted, Unread, t_q
    <2>7. SearchInv' /\ LabelsInv' /\ WalkInv' /\ EntityInv'
      BY <2>2, <2>3 DEF SearchInv, LabelsInv, WalkInv, EntityInv
    <2> QED
      BY <2>2, <2>3, <2>4, <2>5, <2>6, <2>7, NothingYet DEF ReadInv
  <1> QED
    BY <1>1, <1>2

(* The window read of an entity is that of a row born by t_q, or none.     *)
LEMMA WindowRead ==
    ASSUME ReadInv, NEW e
    PROVE  LET rows == {r \in db.entities : r.entity_id = e /\ r.birth_event_time <= t_q}
           IN  /\ rows = {} => window(db, e, t_q).derived_from = {}
               /\ rows # {} => \E r \in rows : window(db, e, t_q).derived_from = {r.birth_event}
  <1> DEFINE rows == {r \in db.entities : r.entity_id = e /\ r.birth_event_time <= t_q}
  <1>1. window(db, e, t_q) = IF rows = {} THEN unrecorded ELSE decode_window(CHOOSE r \in rows : TRUE)
    BY Typing DEF window, window_at
  <1> HIDE DEF rows
  <1>2. unrecorded.derived_from = {}
    BY DEF unrecorded, Windowed
  <1>3. \A r : decode_window(r).derived_from = {r.birth_event}
    BY DEF decode_window, Windowed
  <1>4. rows # {} => (CHOOSE r \in rows : TRUE) \in rows
    OBVIOUS
  <1>5. /\ rows = {} => window(db, e, t_q).derived_from = {}
        /\ rows # {} => \E r \in rows : window(db, e, t_q).derived_from = {r.birth_event}
    BY <1>1, <1>2, <1>3, <1>4
  <1> QED
    BY <1>5 DEF rows

(* A window that was read rests on a birth that is recorded and has begun. *)
LEMMA WindowCounts ==
    ASSUME ReadInv, NEW e
    PROVE  Counted(window(db, e, t_q).derived_from)
  <1>1. ASSUME NEW r \in db.entities, r.birth_event_time <= t_q
        PROVE  \E f \in known : f.via = r.birth_event /\ Begins(f) <= t_q
    <2>1. PICK f \in known : f.type = "birth" /\ r = EntityRow(f)
      BY DEF ReadInv, TablesInv
    <2> QED
      BY <1>1, <2>1 DEF EntityRow, Begins
  <1> QED
    BY <1>1, WindowRead DEF Counted

(* A ruling that was read rests on a declaration whose band has begun, or  *)
(* on a recorded correction (cc-node, view.rs admissibility_at).           *)
LEMMA RulingCounts ==
    ASSUME ReadInv, t_q \in Int, NEW c
    PROVE  LET a == admissibility(db, c, t_q)
           IN  a.tag \in {"valid", "unrecorded", "outside"} /\ Counted(a.derived_from)
  <1> DEFINE rows == {r \in db.vocabulary : r.claim_type = c}
             r == CHOOSE r \in rows : TRUE
  <1>1. admissibility(db, c, t_q) =
           IF rows = {} THEN Unrecorded
           ELSE IF r.start.tag # "known" \/ t_q < r.start.at THEN Unrecorded
           ELSE IF BandEnded(r, t_q) THEN OutsideValidity(r.end.at, {r.declared_by})
           ELSE Valid({r.declared_by})
    BY Typing DEF admissibility, admissibility_at
  <1>2. rows # {} => r \in db.vocabulary
    OBVIOUS
  <1> HIDE DEF r, rows
  <1>3. ASSUME rows # {}, ~ (t_q < r.start.at)
        PROVE  \E f \in known : f.via = r.declared_by /\ Begins(f) <= t_q
    <2>1. PICK f \in known : f.type = "declaration" /\ r = VocabularyRow(f)
      BY <1>2, <1>3 DEF ReadInv, TablesInv
    <2>2. f.start.at \in Int
      BY <2>1, Typing DEF FactTyped
    <2>3. r.declared_by = f.via /\ r.start = f.start
      BY <2>1 DEF VocabularyRow
    <2> QED
      BY <1>3, <2>1, <2>2, <2>3 DEF Begins
  <1>4. Unrecorded.tag = "unrecorded" /\ Unrecorded.derived_from = {}
    BY DEF Unrecorded
  <1>5. \A e : /\ Valid(e).tag = "valid" /\ Valid(e).derived_from = e
               /\ \A n : OutsideValidity(n, e).tag = "outside" /\ OutsideValidity(n, e).derived_from = e
    BY DEF Valid, OutsideValidity
  <1> QED
    BY <1>1, <1>3, <1>4, <1>5 DEF Counted

(* Reading the window of the source of a feasibility request keeps the     *)
(* invariant.                                                              *)
LEMMA Window1Keeps ==
    ASSUME ReadInv, ReadWindow1
    PROVE  ReadInv'
  <1> DEFINE w == window(db, req.q.from, t_q)
  <1>1. req' = [req EXCEPT !.pc = "window2", !.w1 = w] /\ Unread /\ req.pc = "window1"
    BY DEF ReadWindow1
  <1>2. Counted(w.derived_from)
    BY WindowCounts
  <1> HIDE DEF w
  <1>3. /\ req'.pc = "window2" /\ req'.q = req.q /\ req'.opened = req.opened
        /\ req'.w1 = w /\ req'.w2 = req.w2 /\ req'.a = req.a
    BY <1>1 DEF ReadInv, RequestInv
  <1>4. RequestInv'
    BY <1>1, <1>3 DEF Unread, ReadInv, RequestInv, Phases, Judging, t_q
  <1>5. TablesInv'
    BY <1>1, <1>3, TablesStay DEF ReadInv
  <1>6. FactorsInv'
    BY <1>1, <1>2, <1>3 DEF ReadInv, FactorsInv, Counted, Unread, t_q
  <1>7. SearchInv' /\ LabelsInv' /\ WalkInv' /\ EntityInv'
    BY <1>3 DEF SearchInv, LabelsInv, WalkInv, EntityInv
  <1> QED
    BY <1>3, <1>4, <1>5, <1>6, <1>7, NothingYet DEF ReadInv

(* Reading the window of its target keeps the invariant.                   *)
LEMMA Window2Keeps ==
    ASSUME ReadInv, ReadWindow2
    PROVE  ReadInv'
  <1> DEFINE w == window(db, req.q.to, t_q)
  <1>1. req' = [req EXCEPT !.pc = "admissibility", !.w2 = w] /\ Unread /\ req.pc = "window2"
    BY DEF ReadWindow2
  <1>2. Counted(w.derived_from)
    BY WindowCounts
  <1> HIDE DEF w
  <1>3. /\ req'.pc = "admissibility" /\ req'.q = req.q /\ req'.opened = req.opened
        /\ req'.w2 = w /\ req'.w1 = req.w1 /\ req'.a = req.a
    BY <1>1 DEF ReadInv, RequestInv
  <1>4. RequestInv'
    BY <1>1, <1>3 DEF Unread, ReadInv, RequestInv, Phases, Judging, t_q
  <1>5. TablesInv'
    BY <1>1, <1>3, TablesStay DEF ReadInv
  <1>6. FactorsInv'
    BY <1>1, <1>2, <1>3 DEF ReadInv, FactorsInv, Counted, Unread, t_q
  <1>7. SearchInv' /\ LabelsInv' /\ WalkInv' /\ EntityInv'
    BY <1>3 DEF SearchInv, LabelsInv, WalkInv, EntityInv
  <1> QED
    BY <1>3, <1>4, <1>5, <1>6, <1>7, NothingYet DEF ReadInv

(* Reading the ruling, which may end the request, keeps the invariant.     *)
LEMMA AdmissibilityKeeps ==
    ASSUME ReadInv, ReadAdmissibility
    PROVE  ReadInv'
  <1> DEFINE a == admissibility(db, Query.claim, t_q)
             s == StartSearch(req.q.from, req.q.to)
  <1>1. req' = [req EXCEPT !.pc = "search", !.a = a, !.s = s] /\ Unread /\ req.pc = "admissibility"
    BY DEF ReadAdmissibility
  <1>2. t_q \in Int /\ req.q.k \in 0 .. KMax /\ KMax \in Nat
    BY <1>1, QueryAssumption DEF ReadInv, RequestInv, Judging
  <1>3. a.tag \in {"valid", "unrecorded", "outside"} /\ Counted(a.derived_from)
    BY <1>2, RulingCounts
  <1>4. /\ s = [distF |-> s.distF, distB |-> s.distB, frontF |-> s.frontF, frontB |-> s.frontB,
                depthF |-> s.depthF, depthB |-> s.depthB, met |-> s.met]
        /\ s.distF = [x \in {req.q.from} |-> 0] /\ s.frontF = {req.q.from} /\ s.depthF = 0
        /\ s.distB = [x \in {req.q.to} |-> 0] /\ s.frontB = {req.q.to} /\ s.depthB = 0
        /\ s.met = NotMet
    BY DEF StartSearch
  <1> HIDE DEF a, s
  <1>5. /\ req'.pc = "search" /\ req'.q = req.q /\ req'.opened = req.opened
        /\ req'.w1 = req.w1 /\ req'.w2 = req.w2 /\ req'.a = a /\ req'.s = s
    BY <1>1 DEF ReadInv, RequestInv
  <1>6. RequestInv'
    BY <1>1, <1>5 DEF Unread, ReadInv, RequestInv, Phases, Judging, t_q
  <1>7. TablesInv'
    BY <1>1, <1>5, TablesStay DEF ReadInv
  <1>8. FactorsInv'
    BY <1>1, <1>3, <1>5 DEF ReadInv, FactorsInv, Counted, Unread, t_q
  <1>9. SearchInv'
    <2>1. /\ Side(req.opened, t_q, req.q.from, s.distF, s.frontF, s.depthF)
          /\ Side(req.opened, t_q, req.q.to, s.distB, s.frontB, s.depthB)
      <3>1. /\ Side(req.opened, t_q, req.q.from, [x \in {req.q.from} |-> 0], {req.q.from}, 0)
            /\ Side(req.opened, t_q, req.q.to, [x \in {req.q.to} |-> 0], {req.q.to}, 0)
        BY SideStarts
      <3> QED
        BY <1>4, <3>1
    <2>2. s.depthF + s.depthB <= req.q.k
      BY <1>2, <1>4
    <2>3. req.q.from # req.q.to => DOMAIN s.distF \cap DOMAIN s.distB = {}
      BY <1>4
    <2>4. t_q' = t_q
      BY <1>5 DEF t_q
    <2> QED
      BY <1>4, <1>5, <2>1, <2>2, <2>3, <2>4 DEF SearchInv
  <1>10. LabelsInv' /\ WalkInv' /\ EntityInv'
    BY <1>5 DEF LabelsInv, WalkInv, EntityInv
  <1> QED
    BY <1>5, <1>6, <1>7, <1>8, <1>9, <1>10, NothingYet DEF ReadInv

(* A verdict: what its support says is to be shown.                        *)
LEMMA JudgedIsTrue ==
    ASSUME ReadInv, Unread, NEW support, Answer(Judged(support)),
           support # NoSupport =>
              LET place(i) == IF i = 0 THEN req.q.from ELSE support.steps[i].other IN
              /\ Len(support.steps) <= req.q.k /\ place(Len(support.steps)) = req.q.to
              /\ \A i \in DOMAIN support.steps :
                    \E x \in db.edges : /\ x.via = support.steps[i].via /\ x.at <= t_q
                                        /\ {x.src, x.dst} = {place(i - 1), place(i)},
           support = NoSupport =>
              \A d \in 0 .. req.q.k : Walks(req.opened, req.q.from, req.q.to, d, t_q) = {}
    PROVE  ReadInv'
  <1> DEFINE c == Certificate(req.w1, req.w2, req.a, support, Query)
             a == [result |-> c.verdict.kind, certificate |-> c]
  <1>1. Judged(support) = a
    BY DEF Judged
  <1>2. /\ c.verdict.kind \in {"Supported", "Unsupported", "Contradicted"}
        /\ c.verdict.kind = "Supported" => c.verdict.support = support /\ support # NoSupport
        /\ \A e \in c.consulted :
              \/ e \in req.w1.derived_from \cup req.w2.derived_from \cup req.a.derived_from
              \/ \E i \in DOMAIN support.steps : e = support.steps[i].via
        /\ (\E f \in c.absences : f.why = "no_evidenced_walk") => support = NoSupport
    <2>1. req.a.tag \in {"valid", "unrecorded", "outside"}
      BY DEF ReadInv, FactorsInv
    <2>2. Says(c, req.w1, req.w2, req.a, support)
      BY <2>1, CertificateSays
    <2> HIDE DEF c
    <2> QED
      BY <2>2 DEF Says
  <1> HIDE DEF c
  <1>3. a.result = c.verdict.kind /\ a.certificate = c
    OBVIOUS
  <1> HIDE DEF a
  <1>4. /\ RequestInv' /\ TablesInv' /\ FactorsInv' /\ SearchInv' /\ LabelsInv' /\ WalkInv' /\ EntityInv'
        /\ req'.ans = a /\ req'.q = req.q /\ req'.opened = req.opened /\ t_q' = t_q
    BY <1>1, AnswerKeeps
  <1>5. SupportIsRecorded'
    <2> SUFFICES ASSUME c.verdict.kind = "Supported"
                 PROVE  SupportIsRecorded'
      BY <1>3, <1>4 DEF SupportIsRecorded, Done
    <2>1. support # NoSupport /\ req'.ans.certificate.verdict.support.steps = support.steps
          /\ req'.ans.certificate.consulted = c.consulted
      BY <1>2, <1>3, <1>4
    <2>2. ASSUME NEW e \in c.consulted PROVE \E f \in known : f.via = e /\ Begins(f) <= t_q
      <3>1. CASE e \in req.w1.derived_from \cup req.w2.derived_from \cup req.a.derived_from
        BY <3>1 DEF ReadInv, FactorsInv, Counted
      <3>2. CASE \E i \in DOMAIN support.steps : e = support.steps[i].via
        <4>1. PICK x \in db.edges : x.via = e /\ x.at <= t_q
          BY <2>1, <3>2
        <4>2. PICK f \in known : f.type = "edge" /\ x = EdgeRow(f)
          BY DEF ReadInv, TablesInv
        <4> QED
          BY <4>1, <4>2 DEF EdgeRow, Begins
      <3> QED
        BY <1>2, <3>1, <3>2
    <2>3. db' = db /\ known' = known /\ req'.q.from = req.q.from /\ req'.q.to = req.q.to /\ req'.q.k = req.q.k
      BY <1>4 DEF Unread
    <2>4. \A f : Begins(f)' = Begins(f)
      BY DEF Begins
    <2> DEFINE at(i) == IF i = 0 THEN req.q.from ELSE support.steps[i].other
    <2>5. /\ Len(support.steps) <= req.q.k /\ at(Len(support.steps)) = req.q.to
          /\ \A i \in DOMAIN support.steps :
                \E x \in db.edges : /\ x.via = support.steps[i].via /\ x.at <= t_q
                                    /\ {x.src, x.dst} = {at(i - 1), at(i)}
      BY <2>1
    <2>6. SupportIsRecorded' <=>
             (Done("Supported")' =>
                /\ Len(support.steps) <= req.q.k /\ at(Len(support.steps)) = req.q.to
                /\ \A i \in DOMAIN support.steps :
                      \E x \in db.edges : /\ x.via = support.steps[i].via /\ x.at <= t_q
                                          /\ {x.src, x.dst} = {at(i - 1), at(i)}
                /\ \A e \in c.consulted : \E f \in known : f.via = e /\ Begins(f) <= t_q)
      BY <1>4, <2>1, <2>3, <2>4 DEF SupportIsRecorded
    <2> HIDE DEF at
    <2> QED
      BY <2>2, <2>5, <2>6
  <1>6. SilenceWasTrue'
    BY <1>2, <1>3, <1>4 DEF SilenceWasTrue
  <1>7. EntityHoldsTogether'
    BY <1>2, <1>3, <1>4 DEF EntityHoldsTogether, Done
  <1> QED
    BY <1>4, <1>5, <1>6, <1>7 DEF ReadInv, VerdictIsTrue

(* What was recorded when the view was opened is in the tables.            *)
LEMMA OpenedIsJoined ==
    ASSUME ReadInv, NEW t
    PROVE  \A x, y : Evidenced(req.opened, x, y, t) => Joined(db.edges, x, y, t)
  <1> SUFFICES ASSUME NEW x, NEW y, Evidenced(req.opened, x, y, t) PROVE Joined(db.edges, x, y, t)
    OBVIOUS
  <1>1. PICK f \in req.opened : f.type = "edge" /\ f.at <= t /\ {f.src, f.dst} = {x, y}
    BY DEF Evidenced
  <1>2. EdgeRow(f) \in db.edges
    BY <1>1 DEF ReadInv, RequestInv, TablesInv
  <1>3. EdgeRow(f).at = f.at /\ EdgeRow(f).src = f.src /\ EdgeRow(f).dst = f.dst
    BY DEF EdgeRow
  <1> QED
    BY <1>1, <1>2, <1>3 DEF Joined

(* The bound k of a feasibility request is below the distance that stands  *)
(* for sides that have not met.                                            *)
LEMMA Bounds ==
    ASSUME ReadInv, req.pc \in Judging
    PROVE  req.q.k \in Nat /\ req.q.k < NotMet /\ NotMet \in Nat /\ t_q \in Int
  <1>1. req.q.k \in 0 .. KMax /\ KMax \in Nat /\ KMax < NotMet
    BY QueryAssumption DEF ReadInv, RequestInv
  <1> QED
    BY <1>1 DEF NotMet, ReadInv, RequestInv, Judging

(* The end of the search (cc-filter, reach.rs), silent or met, keeps the   *)
(* invariant.                                                              *)
LEMMA SearchEndKeeps ==
    ASSUME ReadInv, SearchEnds
    PROVE  ReadInv'
  <1>1. req.pc = "search" /\ req.pc \in Judging /\ Unread
    BY DEF SearchEnds, Judging
  <1>2. req.q.k \in Nat /\ req.q.k < NotMet /\ NotMet \in Nat
    BY <1>1, Bounds
  <1>3. CASE req.q.from = req.q.to
    <2>1. Answer(Judged(ReflexiveSupport))
      BY <1>3 DEF SearchEnds
    <2>2. /\ ReflexiveSupport # NoSupport
          /\ ReflexiveSupport.steps = <<>> /\ Len(ReflexiveSupport.steps) = 0
          /\ DOMAIN ReflexiveSupport.steps = {}
      BY DEF ReflexiveSupport, NoSupport, NotMet
    <2> QED
      BY <1>1, <1>2, <1>3, <2>1, <2>2, JudgedIsTrue
  <1>4. CASE req.q.from # req.q.to /\ req.s.met <= Query.k
    <2> DEFINE b == StartLabels(req.q.to)
    <2>1. req' = [req EXCEPT !.pc = "labels", !.d = req.s.met, !.b = b]
      BY <1>4 DEF SearchEnds
    <2>2. b.dist = [x \in {req.q.to} |-> 0] /\ b = [dist |-> b.dist, frontier |-> b.frontier]
      BY DEF StartLabels
    <2> HIDE DEF b
    <2>3. /\ req'.pc = "labels" /\ req'.q = req.q /\ req'.opened = req.opened
          /\ req'.w1 = req.w1 /\ req'.w2 = req.w2 /\ req'.a = req.a
          /\ req'.d = req.s.met /\ req'.b = b
      BY <2>1 DEF ReadInv, RequestInv
    <2>4. RequestInv'
      BY <1>1, <2>1, <2>3 DEF Unread, ReadInv, RequestInv, Phases, Judging, t_q
    <2>5. TablesInv'
      BY <1>1, <2>3, TablesStay DEF ReadInv
    <2>6. FactorsInv'
      BY <1>1, <2>3 DEF ReadInv, FactorsInv, Counted, Unread, t_q
    <2>7. req.s.met \in 1 .. req.q.k
      <3>1. req.s.met # NotMet
        BY <1>2, <1>4 DEF Query
      <3>2. req.s.met \in 1 .. req.s.depthF + req.s.depthB
        BY <1>1, <1>4, <3>1 DEF ReadInv, SearchInv
      <3>3. req.s.depthF \in Nat /\ req.s.depthB \in Nat /\ req.s.depthF + req.s.depthB <= req.q.k
        BY <1>1 DEF ReadInv, SearchInv, Side
      <3> QED
        BY <1>2, <3>2, <3>3
    <2>8. LabelsInv'
      <3>1. {b.dist[x] : x \in DOMAIN b.dist} = {0}
        BY <2>2
      <3>2. Cardinality({0}) = 1 /\ 0 .. 0 = {0}
        BY FS_Singleton
      <3>3. Depth' = 0
        BY <2>3, <3>1, <3>2 DEF Depth
      <3> QED
        BY <2>2, <2>3, <2>7, <3>1, <3>2, <3>3 DEF LabelsInv
    <2>9. SearchInv' /\ WalkInv' /\ EntityInv'
      BY <2>3 DEF SearchInv, WalkInv, EntityInv
    <2> QED
      BY <2>3, <2>4, <2>5, <2>6, <2>8, <2>9, NothingYet DEF ReadInv
  <1>5. CASE req.q.from # req.q.to /\ ~ (req.s.met <= Query.k)
    <2>1. Answer(Judged(NoSupport)) /\ ~ Searching(req.s, Query.k)
      BY <1>5 DEF SearchEnds
    <2>2. /\ Side(req.opened, t_q, req.q.from, req.s.distF, req.s.frontF, req.s.depthF)
          /\ Side(req.opened, t_q, req.q.to, req.s.distB, req.s.frontB, req.s.depthB)
          /\ req.s.depthF + req.s.depthB <= req.q.k
          /\ req.s.depthF \in Nat /\ req.s.depthB \in Nat
      BY <1>1 DEF ReadInv, SearchInv, Side
    <2>3. req.s.met = NotMet /\ DOMAIN req.s.distF \cap DOMAIN req.s.distB = {}
      <3>1. \/ req.s.met = NotMet /\ DOMAIN req.s.distF \cap DOMAIN req.s.distB = {}
            \/ req.s.met \in 1 .. req.s.depthF + req.s.depthB
        BY <1>1, <1>5 DEF ReadInv, SearchInv
      <3>2. req.s.met \notin 1 .. req.s.depthF + req.s.depthB
        BY <1>2, <1>5, <2>2 DEF Query
      <3> QED
        BY <3>1, <3>2
    <2>4. req.s.depthF + req.s.depthB >= req.q.k \/ req.s.frontF = {} \/ req.s.frontB = {}
      BY <1>2, <2>1, <2>2, <2>3 DEF Searching, Query
    <2>5. ASSUME NEW d \in 0 .. req.q.k
          PROVE  Walks(req.opened, req.q.from, req.q.to, d, t_q) = {}
      BY <1>2, <2>2, <2>3, <2>4, NoWalkBetween
    <2> QED
      BY <1>1, <2>1, <2>5, JudgedIsTrue
  <1> QED
    BY <1>3, <1>4, <1>5

(* A turn of the search goes one deeper on one side.                       *)
LEMMA Turned ==
    ASSUME ReadInv, req.pc = "search", NEW s, s = SearchStep(db, req.s, t_q)
    PROVE  /\ s = [distF |-> s.distF, distB |-> s.distB, frontF |-> s.frontF, frontB |-> s.frontB,
                   depthF |-> s.depthF, depthB |-> s.depthB, met |-> s.met]
           /\ Side(req.opened, t_q, req.q.from, s.distF, s.frontF, s.depthF)
           /\ Side(req.opened, t_q, req.q.to, s.distB, s.frontB, s.depthB)
           /\ s.depthF + s.depthB = req.s.depthF + req.s.depthB + 1
           /\ s.met = Met(s.distF, s.distB)
  <1> DEFINE o == req.s
             f == expand(db, o.frontF, o.distF, o.depthF + 1, t_q)
             b == expand(db, o.frontB, o.distB, o.depthB + 1, t_q)
  <1>1. /\ o = [distF |-> o.distF, distB |-> o.distB, frontF |-> o.frontF, frontB |-> o.frontB,
                depthF |-> o.depthF, depthB |-> o.depthB, met |-> o.met]
        /\ Side(req.opened, t_q, req.q.from, o.distF, o.frontF, o.depthF)
        /\ Side(req.opened, t_q, req.q.to, o.distB, o.frontB, o.depthB)
        /\ o.depthF \in Nat /\ o.depthB \in Nat
    BY DEF ReadInv, SearchInv, Side
  <1>2. db.kind = "store" /\ \A x, y : Evidenced(req.opened, x, y, t_q) => Joined(db.edges, x, y, t_q)
    BY Typing, OpenedIsJoined
  <1>3. /\ Advanced(db.edges, o.frontF, o.distF, o.depthF + 1, t_q, f)
        /\ Advanced(db.edges, o.frontB, o.distB, o.depthB + 1, t_q, b)
    BY <1>2, ExpandAdvances
  <1>4. s = Compared(IF Cardinality(o.frontF) <= Cardinality(o.frontB) THEN Forward(o, f) ELSE Backward(o, b))
    BY DEF SearchStep
  <1> HIDE DEF o, f, b
  <1>5. /\ Side(req.opened, t_q, req.q.from, f.dist, f.frontier, o.depthF + 1)
        /\ Side(req.opened, t_q, req.q.to, b.dist, b.frontier, o.depthB + 1)
    BY <1>1, <1>2, <1>3, SideAdvances
  <1>6. CASE Cardinality(o.frontF) <= Cardinality(o.frontB)
    <2>1. /\ s = [distF |-> s.distF, distB |-> s.distB, frontF |-> s.frontF, frontB |-> s.frontB,
                  depthF |-> s.depthF, depthB |-> s.depthB, met |-> s.met]
          /\ s.distF = f.dist /\ s.frontF = f.frontier /\ s.depthF = o.depthF + 1
          /\ s.distB = o.distB /\ s.frontB = o.frontB /\ s.depthB = o.depthB
          /\ s.met = Met(s.distF, s.distB)
      BY <1>1, <1>4, <1>6 DEF Compared, Forward
    <2> QED
      BY <1>1, <1>5, <2>1 DEF o
  <1>7. CASE ~ (Cardinality(o.frontF) <= Cardinality(o.frontB))
    <2>1. /\ s = [distF |-> s.distF, distB |-> s.distB, frontF |-> s.frontF, frontB |-> s.frontB,
                  depthF |-> s.depthF, depthB |-> s.depthB, met |-> s.met]
          /\ s.distB = b.dist /\ s.frontB = b.frontier /\ s.depthB = o.depthB + 1
          /\ s.distF = o.distF /\ s.frontF = o.frontF /\ s.depthF = o.depthF
          /\ s.met = Met(s.distF, s.distB)
      BY <1>1, <1>4, <1>7 DEF Compared, Backward
    <2> QED
      BY <1>1, <1>5, <2>1 DEF o
  <1> QED
    BY <1>6, <1>7

(* One level of the search, read in one query, keeps the invariant.        *)
LEMMA SearchLevelKeeps ==
    ASSUME ReadInv, SearchLevel
    PROVE  ReadInv'
  <1>1. /\ req.pc = "search" /\ req.pc \in Judging /\ Unread /\ req.q.from # req.q.to
        /\ Searching(req.s, Query.k)
    BY DEF SearchLevel, Judging
  <1>2. PICK s : s = SearchStep(db, req.s, t_q)
    OBVIOUS
  <1>3. req' = [req EXCEPT !.s = s]
    BY <1>2 DEF SearchLevel, ReadInv, RequestInv
  <1>4. /\ req'.pc = "search" /\ req'.q = req.q /\ req'.opened = req.opened
        /\ req'.w1 = req.w1 /\ req'.w2 = req.w2 /\ req'.a = req.a /\ req'.s = s
    BY <1>1, <1>3 DEF ReadInv, RequestInv
  <1>5. RequestInv'
    BY <1>1, <1>3, <1>4 DEF Unread, ReadInv, RequestInv, Phases, Judging, t_q
  <1>6. TablesInv'
    BY <1>1, <1>4, TablesStay DEF ReadInv
  <1>7. FactorsInv'
    BY <1>1, <1>4 DEF ReadInv, FactorsInv, Counted, Unread, t_q
  <1>8. SearchInv'
    <2>1. /\ s = [distF |-> s.distF, distB |-> s.distB, frontF |-> s.frontF, frontB |-> s.frontB,
                  depthF |-> s.depthF, depthB |-> s.depthB, met |-> s.met]
          /\ Side(req.opened, t_q, req.q.from, s.distF, s.frontF, s.depthF)
          /\ Side(req.opened, t_q, req.q.to, s.distB, s.frontB, s.depthB)
          /\ s.depthF + s.depthB = req.s.depthF + req.s.depthB + 1
          /\ s.met = Met(s.distF, s.distB)
      BY <1>1, <1>2, Turned
    <2>2. s.depthF + s.depthB <= req.q.k
      <3>1. req.s.depthF + req.s.depthB < req.q.k
        BY <1>1 DEF Searching, Query
      <3>2. req.s.depthF \in Nat /\ req.s.depthB \in Nat /\ req.q.k \in Nat
        BY <1>1, Bounds DEF ReadInv, SearchInv, Side
      <3> QED
        BY <2>1, <3>1, <3>2
    <2>3. \/ s.met = NotMet /\ DOMAIN s.distF \cap DOMAIN s.distB = {}
          \/ s.met \in 1 .. s.depthF + s.depthB
      BY <1>1, <2>1, MetIs
    <2>4. t_q' = t_q
      BY <1>4 DEF t_q
    <2> QED
      BY <1>4, <2>1, <2>2, <2>3, <2>4 DEF SearchInv
  <1>9. LabelsInv' /\ WalkInv' /\ EntityInv'
    BY <1>4 DEF LabelsInv, WalkInv, EntityInv
  <1> QED
    BY <1>4, <1>5, <1>6, <1>7, <1>8, <1>9, NothingYet DEF ReadInv

(* A level of labels keeps them dense.                                     *)
LEMMA LabelsGrow ==
    ASSUME NEW m \in Nat, NEW dist, {dist[x] : x \in DOMAIN dist} = 0 .. m,
           NEW edges, NEW front, NEW t, NEW level, Advanced(edges, front, dist, m + 1, t, level)
    PROVE  {level.dist[x] : x \in DOMAIN level.dist} = 0 .. (IF level.frontier = {} THEN m ELSE m + 1)
  <1>1. /\ DOMAIN level.dist = DOMAIN dist \cup level.frontier
        /\ \A x \in DOMAIN dist : level.dist[x] = dist[x]
        /\ \A x \in level.frontier : x \notin DOMAIN dist /\ level.dist[x] = m + 1
    BY DEF Advanced
  <1>2. CASE level.frontier = {}
    BY <1>1, <1>2
  <1>3. CASE level.frontier # {}
    <2>1. 0 .. m + 1 = (0 .. m) \cup {m + 1}
      OBVIOUS
    <2>2. {level.dist[x] : x \in DOMAIN level.dist} = {dist[x] : x \in DOMAIN dist} \cup {m + 1}
      BY <1>1, <1>3
    <2> QED
      BY <1>3, <2>1, <2>2
  <1> QED
    BY <1>2, <1>3

(* One level of the distances from the target keeps the invariant.         *)
LEMMA LabelLevelKeeps ==
    ASSUME ReadInv, LabelLevel
    PROVE  ReadInv'
  <1>1. req.pc = "labels" /\ req.pc \in Judging /\ Unread
    BY DEF LabelLevel, Judging
  <1>2. /\ req.d \in 1 .. req.q.k /\ req.q.k \in Nat
        /\ req.b = [dist |-> req.b.dist, frontier |-> req.b.frontier]
        /\ Depth \in Nat /\ {req.b.dist[x] : x \in DOMAIN req.b.dist} = 0 .. Depth
        /\ \A x \in DOMAIN req.b.dist : req.b.dist[x] = 0 => x = req.q.to
    BY <1>1, Bounds DEF ReadInv, LabelsInv
  <1>3. CASE Depth < req.d /\ req.b.frontier # {}
    <2>1. PICK b : b = LabelStep(db, req.b, Depth + 1, t_q)
      OBVIOUS
    <2>2. req' = [req EXCEPT !.b = b]
      BY <1>3, <2>1 DEF LabelLevel, ReadInv, RequestInv
    <2>3. Advanced(db.edges, req.b.frontier, req.b.dist, Depth + 1, t_q, b)
      BY <2>1, Typing, ExpandAdvances DEF LabelStep
    <2>4. /\ req'.pc = "labels" /\ req'.q = req.q /\ req'.opened = req.opened
          /\ req'.w1 = req.w1 /\ req'.w2 = req.w2 /\ req'.a = req.a /\ req'.d = req.d /\ req'.b = b
      BY <1>1, <2>2 DEF ReadInv, RequestInv
    <2>5. RequestInv'
      BY <1>1, <2>2, <2>4 DEF Unread, ReadInv, RequestInv, Phases, Judging, t_q
    <2>6. TablesInv'
      BY <1>1, <2>4, TablesStay DEF ReadInv
    <2>7. FactorsInv'
      BY <1>1, <2>4 DEF ReadInv, FactorsInv, Counted, Unread, t_q
    <2>8. LabelsInv'
      <3> DEFINE n == IF b.frontier = {} THEN Depth ELSE Depth + 1
      <3>1. {b.dist[x] : x \in DOMAIN b.dist} = 0 .. n
        BY <1>2, <2>3, LabelsGrow
      <3>2. n \in Nat
        BY <1>2
      <3>3. Cardinality(0 .. n) = n + 1
        <4> HIDE DEF n
        <4> QED
          BY <3>2, FS_Interval
      <3>4. \A x \in DOMAIN b.dist : b.dist[x] = 0 => x = req.q.to
        <4>1. /\ DOMAIN b.dist = DOMAIN req.b.dist \cup b.frontier
              /\ \A x \in DOMAIN req.b.dist : b.dist[x] = req.b.dist[x]
              /\ \A x \in b.frontier : x \notin DOMAIN req.b.dist /\ b.dist[x] = Depth + 1
          BY <2>3 DEF Advanced
        <4>2. Depth + 1 # 0
          BY <1>2
        <4> QED
          BY <1>2, <4>1, <4>2
      <3> HIDE DEF n
      <3>5. Depth' = n
        <4>1. Depth' = Cardinality({b.dist[x] : x \in DOMAIN b.dist}) - 1
          BY <2>4 DEF Depth
        <4>2. Depth' = (n + 1) - 1
          BY <3>1, <3>3, <4>1
        <4> QED
          BY <3>2, <4>2
      <3>6. b = [dist |-> b.dist, frontier |-> b.frontier]
        BY <2>3 DEF Advanced
      <3> QED
        BY <1>2, <2>4, <3>1, <3>2, <3>4, <3>5, <3>6 DEF LabelsInv
    <2>9. SearchInv' /\ WalkInv' /\ EntityInv'
      BY <2>4 DEF SearchInv, WalkInv, EntityInv
    <2> QED
      BY <2>4, <2>5, <2>6, <2>7, <2>8, <2>9, NothingYet DEF ReadInv
  <1>4. CASE ~ (Depth < req.d /\ req.b.frontier # {})
    <2> DEFINE w == StartWalk(req.q.from, req.d)
    <2>1. req' = [req EXCEPT !.pc = "walk", !.w = w]
      BY <1>4 DEF LabelLevel
    <2>2. /\ w = [cur |-> w.cur, remaining |-> w.remaining, steps |-> w.steps,
                  inconsistent |-> w.inconsistent]
          /\ w.cur = req.q.from /\ w.remaining = req.d /\ w.steps = <<>> /\ w.inconsistent = FALSE
      BY DEF StartWalk
    <2> HIDE DEF w
    <2>3. /\ req'.pc = "walk" /\ req'.q = req.q /\ req'.opened = req.opened
          /\ req'.w1 = req.w1 /\ req'.w2 = req.w2 /\ req'.a = req.a /\ req'.d = req.d /\ req'.b = req.b
          /\ req'.w = w
      BY <2>1 DEF ReadInv, RequestInv
    <2>4. RequestInv'
      BY <1>1, <2>1, <2>3 DEF Unread, ReadInv, RequestInv, Phases, Judging, t_q
    <2>5. TablesInv'
      BY <1>1, <2>3, TablesStay DEF ReadInv
    <2>6. FactorsInv'
      BY <1>1, <2>3 DEF ReadInv, FactorsInv, Counted, Unread, t_q
    <2>7. LabelsInv'
      <3>1. Depth' = Depth
        BY <2>3 DEF Depth
      <3> QED
        BY <1>2, <2>3, <3>1 DEF LabelsInv
    <2>8. WalkInv'
      <3>1. PICK u : u = w
        OBVIOUS
      <3>2. /\ u = [cur |-> u.cur, remaining |-> u.remaining, steps |-> u.steps,
                    inconsistent |-> u.inconsistent]
            /\ u.cur = req.q.from /\ u.remaining = req.d /\ u.steps = <<>> /\ u.inconsistent = FALSE
            /\ req'.w = u
        BY <2>2, <2>3, <3>1
      <3>3. Len(u.steps) = 0 /\ u.steps \in Seq(Hop) /\ Place(req.q.from, u.steps, 0) = req.q.from
        BY <3>2 DEF Place
      <3>4. \A edges, t : Recorded(edges, t, req.q.from, u.steps)
        BY <3>3 DEF Recorded
      <3>5. req.d \in 0 .. req.d /\ req.d - req.d = 0
        BY <1>2
      <3> QED
        BY <2>3, <3>2, <3>3, <3>4, <3>5 DEF WalkInv
    <2>9. SearchInv' /\ EntityInv'
      BY <2>3 DEF SearchInv, EntityInv
    <2> QED
      BY <2>3, <2>4, <2>5, <2>6, <2>7, <2>8, <2>9, NothingYet DEF ReadInv
  <1> QED
    BY <1>3, <1>4

(* A step the walk may take is recorded, and leads to the label below.     *)
LEMMA StepsAreHops ==
    ASSUME ReadInv, NEW x
    PROVE  /\ neighbors(db, x, t_q) \in SUBSET Hop
           /\ \A e \in neighbors(db, x, t_q) :
                 \E r \in db.edges : r.via = e.via /\ r.at <= t_q /\ {r.src, r.dst} = {x, e.other}
  <1> SUFFICES ASSUME NEW e \in neighbors(db, x, t_q)
               PROVE  /\ e \in Hop
                      /\ \E r \in db.edges : r.via = e.via /\ r.at <= t_q /\ {r.src, r.dst} = {x, e.other}
    OBVIOUS
  <1>1. PICK r \in db.edges : /\ r.at <= t_q
                              /\ \/ r.src = x /\ e = [other |-> r.dst, via |-> r.via]
                                 \/ r.dst = x /\ e = [other |-> r.src, via |-> r.via]
    BY Typing, NeighborsAre
  <1>2. PICK f \in known : f.type = "edge" /\ r = EdgeRow(f)
    BY DEF ReadInv, TablesInv
  <1>3. r.src \in Nat /\ r.dst \in Nat /\ r.via \in Nat
    BY <1>2, Typing DEF FactTyped, EdgeRow
  <1> QED
    BY <1>1, <1>3 DEF Hop

(* One more step of a walk.                                                *)
LEMMA WalkGrows ==
    ASSUME NEW s \in Seq(Hop), NEW e \in Hop, NEW edges, NEW t, NEW from, Recorded(edges, t, from, s),
           \E r \in edges : r.via = e.via /\ r.at <= t /\ {r.src, r.dst} = {Place(from, s, Len(s)), e.other}
    PROVE  /\ Append(s, e) \in Seq(Hop) /\ Len(Append(s, e)) = Len(s) + 1 /\ Append(s, e) # <<>>
           /\ Place(from, Append(s, e), Len(s) + 1) = e.other
           /\ Recorded(edges, t, from, Append(s, e))
  <1> DEFINE u == Append(s, e)
             n == Len(s)
  <1>1. /\ u \in Seq(Hop) /\ Len(u) = n + 1 /\ u # <<>> /\ n \in Nat
        /\ u[n + 1] = e /\ \A i \in 1 .. n : u[i] = s[i]
    OBVIOUS
  <1>2. \E r \in edges : r.via = e.via /\ r.at <= t /\ {r.src, r.dst} = {Place(from, s, n), e.other}
    OBVIOUS
  <1> HIDE DEF u, n
  <1>3. /\ \A i \in 0 .. n : Place(from, u, i) = Place(from, s, i)
        /\ Place(from, u, n + 1) = e.other
    BY <1>1 DEF Place
  <1>4. ASSUME NEW i \in 1 .. n + 1
        PROVE  \E x \in edges : /\ x.via = u[i].via /\ x.at <= t
                                /\ {x.src, x.dst} = {Place(from, u, i - 1), Place(from, u, i)}
    <2>1. CASE i = n + 1
      <3>1. (n + 1) - 1 = n /\ n \in 0 .. n
        BY <1>1
      <3> QED
        BY <1>1, <1>2, <1>3, <2>1, <3>1
    <2>2. CASE i \in 1 .. n
      <3>1. i - 1 \in 0 .. n /\ i \in 0 .. n
        BY <1>1, <2>2
      <3>2. \E x \in edges : /\ x.via = s[i].via /\ x.at <= t
                             /\ {x.src, x.dst} = {Place(from, s, i - 1), Place(from, s, i)}
        BY <2>2 DEF Recorded, n
      <3> QED
        BY <1>1, <1>3, <2>2, <3>1, <3>2
    <2>3. i = n + 1 \/ i \in 1 .. n
      <3>1. n \in Nat
        BY <1>1
      <3> QED
        BY <3>1
    <2> QED
      BY <2>1, <2>2, <2>3
  <1>5. Recorded(edges, t, from, u)
    BY <1>1, <1>4 DEF Recorded
  <1> QED
    BY <1>1, <1>3, <1>5 DEF u, n

(* One step of the walk along the labels keeps the invariant.              *)
LEMMA WalkLevelKeeps ==
    ASSUME ReadInv, WalkLevel
    PROVE  ReadInv'
  <1>1. req.pc = "walk" /\ req.pc \in Judging /\ Unread
    BY DEF WalkLevel, Judging
  <1>2. /\ req.d \in 1 .. req.q.k /\ req.q.k \in Nat /\ req.q.k < NotMet /\ NotMet \in Nat
        /\ \A x \in DOMAIN req.b.dist : req.b.dist[x] = 0 => x = req.q.to
    BY <1>1, Bounds DEF ReadInv, LabelsInv
  <1> DEFINE w == req.w
  <1>3. /\ w = [cur |-> w.cur, remaining |-> w.remaining, steps |-> w.steps,
                inconsistent |-> w.inconsistent]
        /\ w.inconsistent \in BOOLEAN
        /\ ~w.inconsistent =>
              /\ w.remaining \in 0 .. req.d /\ w.steps \in Seq(Hop)
              /\ Len(w.steps) = req.d - w.remaining
              /\ w.cur = Place(req.q.from, w.steps, Len(w.steps))
              /\ w.steps # <<>> => w.cur \in DOMAIN req.b.dist /\ req.b.dist[w.cur] = w.remaining
              /\ Recorded(db.edges, t_q, req.q.from, w.steps)
    BY <1>1 DEF ReadInv, WalkInv
  <1>4. CASE w.inconsistent
    <2>1. Answer([result |-> "undecodable"])
      BY <1>4 DEF WalkLevel
    <2> QED
      BY <1>1, <2>1, NoVerdict
  <1>5. CASE ~ w.inconsistent /\ w.remaining = 0
    <2> DEFINE support == [hops |-> req.d, steps |-> w.steps]
    <2>1. Answer(Judged(support))
      BY <1>5 DEF WalkLevel
    <2>2. support # NoSupport
      BY <1>2 DEF NoSupport
    <2>3. Len(w.steps) = req.d /\ Len(w.steps) # 0 /\ w.steps # <<>> /\ DOMAIN w.steps = 1 .. Len(w.steps)
      BY <1>2, <1>3, <1>5
    <2>4. w.cur = req.q.to
      BY <1>2, <1>3, <1>5, <2>3
    <2>5. support.steps = w.steps
      OBVIOUS
    <2> HIDE DEF support, w
    <2> DEFINE at(i) == IF i = 0 THEN req.q.from ELSE support.steps[i].other
    <2>6. \A i : at(i) = Place(req.q.from, support.steps, i)
      BY DEF Place
    <2>7. LET place(i) == IF i = 0 THEN req.q.from ELSE support.steps[i].other IN
          /\ Len(support.steps) <= req.q.k /\ place(Len(support.steps)) = req.q.to
          /\ \A i \in DOMAIN support.steps :
                \E x \in db.edges : /\ x.via = support.steps[i].via /\ x.at <= t_q
                                    /\ {x.src, x.dst} = {place(i - 1), place(i)}
      <3> HIDE DEF at
      <3>1. /\ w.cur = Place(req.q.from, w.steps, Len(w.steps))
            /\ Recorded(db.edges, t_q, req.q.from, w.steps)
        BY <1>3, <1>5
      <3>2. PICK u : u = support.steps
        OBVIOUS
      <3>3. /\ Len(u) = req.d /\ DOMAIN u = 1 .. Len(u) /\ req.q.to = Place(req.q.from, u, Len(u))
            /\ Recorded(db.edges, t_q, req.q.from, u)
        BY <2>3, <2>4, <2>5, <3>1, <3>2
      <3>4. req.d <= req.q.k
        BY <1>2
      <3>5. \A i \in DOMAIN u :
                  \E x \in db.edges : /\ x.via = u[i].via /\ x.at <= t_q
                                      /\ {x.src, x.dst} = {at(i - 1), at(i)}
        BY <2>6, <3>2, <3>3 DEF Recorded
      <3>6. /\ Len(support.steps) <= req.q.k /\ at(Len(support.steps)) = req.q.to
            /\ \A i \in DOMAIN support.steps :
                  \E x \in db.edges : /\ x.via = support.steps[i].via /\ x.at <= t_q
                                      /\ {x.src, x.dst} = {at(i - 1), at(i)}
        BY <2>6, <3>2, <3>3, <3>4, <3>5
      <3> QED
        BY <3>6 DEF at
    <2> QED
      BY <1>1, <2>1, <2>2, <2>7, JudgedIsTrue
  <1>6. CASE ~ w.inconsistent /\ w.remaining # 0
    <2>1. PICK v : v = WalkStep(db, w, req.b.dist, t_q)
      OBVIOUS
    <2>2. req' = [req EXCEPT !.w = v]
      BY <1>6, <2>1 DEF WalkLevel, ReadInv, RequestInv
    <2>3. /\ req'.pc = "walk" /\ req'.q = req.q /\ req'.opened = req.opened
          /\ req'.w1 = req.w1 /\ req'.w2 = req.w2 /\ req'.a = req.a /\ req'.d = req.d /\ req'.b = req.b
          /\ req'.w = v
      BY <1>1, <2>2 DEF ReadInv, RequestInv
    <2>4. RequestInv'
      BY <1>1, <2>2, <2>3 DEF Unread, ReadInv, RequestInv, Phases, Judging, t_q
    <2>5. TablesInv'
      BY <1>1, <2>3, TablesStay DEF ReadInv
    <2>6. FactorsInv'
      BY <1>1, <2>3 DEF ReadInv, FactorsInv, Counted, Unread, t_q
    <2>7. LabelsInv'
      <3>1. Depth' = Depth
        BY <2>3 DEF Depth
      <3> QED
        BY <1>1, <2>3, <3>1 DEF ReadInv, LabelsInv
    <2>8. WalkInv'
      <3> DEFINE on == {e \in neighbors(db, w.cur, t_q) :
                           e.other \in DOMAIN req.b.dist /\ req.b.dist[e.other] = w.remaining - 1}
      <3>1. v = IF on = {} THEN [w EXCEPT !.inconsistent = TRUE] ELSE Taken(w, LeastOf(on))
        BY <2>1 DEF WalkStep
      <3>2. on \in SUBSET Hop
        BY StepsAreHops
      <3>3. CASE on = {}
        <4>1. v = [w EXCEPT !.inconsistent = TRUE]
          BY <3>1, <3>3
        <4>2. v.inconsistent = TRUE /\ v = [cur |-> v.cur, remaining |-> v.remaining, steps |-> v.steps,
                                            inconsistent |-> v.inconsistent]
          BY <1>3, <4>1
        <4> QED
          BY <2>3, <4>2 DEF WalkInv
      <3>4. CASE on # {}
        <4>1. PICK e \in on : e = LeastOf(on)
          BY <3>2, <3>4, LeastIsOne
        <4>2. v = Taken(w, e)
          BY <3>1, <3>4, <4>1
        <4>3. /\ v.cur = e.other /\ v.remaining = w.remaining - 1 /\ v.steps = Append(w.steps, e)
              /\ v.inconsistent = FALSE
              /\ v = [cur |-> v.cur, remaining |-> v.remaining, steps |-> v.steps,
                      inconsistent |-> v.inconsistent]
          BY <1>3, <1>6, <4>2 DEF Taken
        <4>4. e \in Hop /\ e.other \in DOMAIN req.b.dist /\ req.b.dist[e.other] = w.remaining - 1
              /\ \E r \in db.edges : r.via = e.via /\ r.at <= t_q /\ {r.src, r.dst} = {w.cur, e.other}
          BY <3>2, StepsAreHops
        <4> HIDE DEF on
        <4>5. PICK u : u = w.steps
          OBVIOUS
        <4>6. /\ u \in Seq(Hop) /\ w.remaining \in 0 .. req.d /\ Len(u) = req.d - w.remaining
              /\ w.cur = Place(req.q.from, u, Len(u)) /\ Recorded(db.edges, t_q, req.q.from, u)
          BY <1>3, <1>6, <4>5
        <4>7. v.steps = Append(u, e)
          BY <4>3, <4>5
        <4> HIDE DEF w
        <4>8. /\ v.steps \in Seq(Hop) /\ Len(v.steps) = Len(u) + 1 /\ v.steps # <<>>
              /\ Place(req.q.from, v.steps, Len(u) + 1) = e.other
              /\ Recorded(db.edges, t_q, req.q.from, v.steps)
          <5>1. PICK edges, t, from : edges = db.edges /\ t = t_q /\ from = req.q.from
            OBVIOUS
          <5>2. /\ Recorded(edges, t, from, u)
                /\ \E r \in edges : r.via = e.via /\ r.at <= t /\ {r.src, r.dst} = {Place(from, u, Len(u)), e.other}
            BY <4>4, <4>6, <5>1
          <5>3. /\ Append(u, e) \in Seq(Hop) /\ Len(Append(u, e)) = Len(u) + 1 /\ Append(u, e) # <<>>
                /\ Place(from, Append(u, e), Len(u) + 1) = e.other
                /\ Recorded(edges, t, from, Append(u, e))
            BY <4>4, <4>6, <5>2, WalkGrows
          <5> QED
            BY <4>7, <5>1, <5>3
        <4>9. v.remaining \in 0 .. req.d /\ Len(v.steps) = req.d - v.remaining
          <5>1. /\ w.remaining \in 0 .. req.d /\ w.remaining # 0 /\ Len(u) = req.d - w.remaining
                /\ v.remaining = w.remaining - 1 /\ Len(v.steps) = Len(u) + 1 /\ req.d \in Int
            BY <1>2, <1>6, <4>3, <4>6, <4>8
          <5> QED
            BY <5>1
        <4>10. db' = db /\ t_q' = t_q
          BY <1>1, <2>3 DEF Unread, t_q
        <4> QED
          BY <2>3, <4>3, <4>4, <4>8, <4>9, <4>10 DEF WalkInv
      <3> QED
        BY <3>3, <3>4
    <2>9. SearchInv' /\ EntityInv'
      BY <2>3 DEF SearchInv, EntityInv
    <2> QED
      BY <2>3, <2>4, <2>5, <2>6, <2>7, <2>8, <2>9, NothingYet DEF ReadInv
  <1> QED
    BY <1>4, <1>5, <1>6

(* The rows of entities are typed as the births they come from.            *)
LEMMA RowsAre ==
    ASSUME ReadInv, NEW r \in db.entities
    PROVE  /\ r.entity_id = r.key /\ r.birth_event = r.via /\ r.birth_event_time = r.at
           /\ r.at \in Int /\ r.via \in Nat
           /\ \E f \in known : f.type = "birth" /\ f.at = r.at /\ f.via = r.via
  <1>1. PICK f \in known : f.type = "birth" /\ r = EntityRow(f)
    BY DEF ReadInv, TablesInv
  <1>2. f.at \in Int /\ f.via \in Nat
    BY Typing DEF FactTyped
  <1> QED
    BY <1>1, <1>2 DEF EntityRow

(* Reading the row of an entity (cc-node, api.rs entity) keeps the         *)
(* invariant.                                                              *)
LEMMA EntityKeeps ==
    ASSUME ReadInv, ReadEntity
    PROVE  ReadInv'
  <1> DEFINE row == entity_projection(db, req.q.entity, t_q)
  <1>1. req.pc = "entity" /\ Unread
    BY DEF ReadEntity
  <1>2. CASE row = {}
    <2>1. Answer([result |-> "not_found"])
      BY <1>2 DEF ReadEntity
    <2> QED
      BY <1>1, <2>1, NoVerdict
  <1>3. CASE row # {}
    <2>1. req' = [req EXCEPT !.pc = "entity_window", !.row = row]
      BY <1>3 DEF ReadEntity
    <2>2. \A r \in row : r \in db.entities /\ r.entity_id = req.q.entity /\ r.birth_event_time <= t_q
      BY DEF entity_projection
    <2> HIDE DEF row
    <2>3. /\ req'.pc = "entity_window" /\ req'.q = req.q /\ req'.opened = req.opened
          /\ req'.w1 = req.w1 /\ req'.w2 = req.w2 /\ req'.a = req.a /\ req'.row = row
      BY <2>1 DEF ReadInv, RequestInv
    <2>4. RequestInv'
      BY <1>1, <2>1, <2>3 DEF Unread, ReadInv, RequestInv, Phases, Judging, Looking, t_q
    <2>5. TablesInv'
      BY <1>1, <2>3, TablesStay DEF ReadInv
    <2>6. FactorsInv'
      BY <1>1, <2>3 DEF ReadInv, FactorsInv, Counted, Unread, t_q
    <2>7. ASSUME NEW r \in row
          PROVE  /\ r.birth_event_time \in Int /\ r.birth_event_time <= t_q /\ r.birth_event \in Nat
                 /\ \E p \in db.entities : p.key = req.q.entity /\ NotLater(p, r)
      BY <2>2, RowsAre DEF NotLater
    <2>8. EntityInv'
      BY <1>1, <1>3, <2>3, <2>7 DEF EntityInv, Unread, t_q
    <2>9. SearchInv' /\ LabelsInv' /\ WalkInv'
      BY <2>3 DEF SearchInv, LabelsInv, WalkInv
    <2> QED
      BY <2>3, <2>4, <2>5, <2>6, <2>8, <2>9, NothingYet DEF ReadInv
  <1> QED
    BY <1>2, <1>3

(* Reading its window, a query of its own that an earlier row may          *)
(* meanwhile answer, keeps the invariant.                                  *)
LEMMA EntityWindowKeeps ==
    ASSUME ReadInv, ReadEntityWindow
    PROVE  ReadInv'
  <1> DEFINE w == window(db, req.q.entity, t_q)
  <1>1. req' = [req EXCEPT !.pc = "readings", !.w1 = w] /\ Unread /\ req.pc = "entity_window"
    BY DEF ReadEntityWindow
  <1>2. Counted(w.derived_from)
    BY WindowCounts
  <1>3. PICK r0 \in req.row : TRUE
    BY <1>1 DEF ReadInv, EntityInv
  <1>4. \A r \in req.row :
           /\ r.birth_event_time \in Int /\ r.birth_event_time <= t_q /\ r.birth_event \in Nat
           /\ \E p \in db.entities : p.key = req.q.entity /\ NotLater(p, r)
    BY <1>1 DEF ReadInv, EntityInv
  <1>5. t_q \in Int
    BY <1>1 DEF ReadInv, RequestInv
  <1>6. PICK p \in db.entities : p.key = req.q.entity /\ NotLater(p, r0)
    BY <1>4
  <1>7. p.entity_id = req.q.entity /\ p.birth_event_time <= t_q
    BY <1>4, <1>5, <1>6, RowsAre DEF NotLater
  <1>8. \A r \in db.entities : r.entity_id = req.q.entity => r = p
    BY <1>6, RowsAre DEF ReadInv, TablesInv
  <1>9. w.derived_from = {p.birth_event}
    BY <1>7, <1>8, WindowRead
  <1>10. PICK f \in known : f.type = "birth" /\ f.at = p.at /\ f.via = p.via
    BY RowsAre
  <1>11. w.derived_from = {f.via} /\ \A r \in req.row : NotLater(f, r)
    <2>1. \A r \in req.row : NotLater(p, r)
      BY <1>4, <1>6 DEF ReadInv, TablesInv
    <2>2. p.birth_event = p.via
      BY RowsAre
    <2> QED
      BY <1>9, <1>10, <2>1, <2>2 DEF NotLater
  <1> HIDE DEF w
  <1>12. /\ req'.pc = "readings" /\ req'.q = req.q /\ req'.opened = req.opened
         /\ req'.w1 = w /\ req'.w2 = req.w2 /\ req'.a = req.a /\ req'.row = req.row
    BY <1>1 DEF ReadInv, RequestInv
  <1>13. RequestInv'
    BY <1>1, <1>12 DEF Unread, ReadInv, RequestInv, Phases, Judging, Looking, t_q
  <1>14. TablesInv'
    BY <1>1, <1>12, TablesStay DEF ReadInv
  <1>15. FactorsInv'
    BY <1>1, <1>2, <1>12 DEF ReadInv, FactorsInv, Counted, Unread, t_q
  <1>16. EntityInv'
    BY <1>1, <1>3, <1>10, <1>11, <1>12 DEF EntityInv, Unread
  <1>17. SearchInv' /\ LabelsInv' /\ WalkInv'
    BY <1>12 DEF SearchInv, LabelsInv, WalkInv
  <1> QED
    BY <1>12, <1>13, <1>14, <1>15, <1>16, <1>17, NothingYet DEF ReadInv

(* Reading what was read of a claim keeps the invariant.                   *)
LEMMA ReadingsKeeps ==
    ASSUME ReadInv, ReadReadings
    PROVE  ReadInv'
  <1> DEFINE rs == readings_for(db, req.q.entity, t_q)
             rows == NewestFirst(MomentsOf(db, req.q.entity, t_q))
  <1>1. req' = [req EXCEPT !.pc = "claim_body", !.rs = rs] /\ Unread /\ req.pc = "readings"
    BY DEF ReadReadings
  <1>2. IsSeq(rs) /\ \A i \in 1 .. Len(rs) : rs[i].body = {} \/ \E b \in db.bodies : rs[i].body = {b}
    <2>1. PICK n \in Nat : n = Cardinality(MomentsOf(db, req.q.entity, t_q))
      <3>1. IsFiniteSet(db.moments) /\ MomentsOf(db, req.q.entity, t_q) \in SUBSET db.moments
        BY DEF ReadInv, TablesInv, MomentsOf
      <3> QED
        BY <3>1, FS_Subset, FS_CardinalityType
    <2>2. DOMAIN rows = 1 .. n
      BY <2>1 DEF NewestFirst, Ranked
    <2>3. rs = [i \in DOMAIN rows |-> [hash |-> rows[i].body, body |-> BodyOf(db, rows[i])]]
      BY DEF readings_for
    <2> HIDE DEF rs, rows
    <2>4. DOMAIN rs = 1 .. n /\ \A i \in 1 .. n : rs[i].body = BodyOf(db, rows[i])
      BY <2>2, <2>3
    <2>5. Len(rs) = n /\ rs = [i \in 1 .. n |-> rs[i]]
      BY <2>1, <2>2, <2>3, <2>4
    <2>6. ASSUME NEW m PROVE BodyOf(db, m) = {} \/ \E b \in db.bodies : BodyOf(db, m) = {b}
      <3>1. \A b, c \in BodyOf(db, m) : b = c
        BY Typing DEF BodyOf
      <3>2. BodyOf(db, m) \subseteq db.bodies
        BY DEF BodyOf
      <3> QED
        BY <3>1, <3>2
    <2> QED
      BY <2>1, <2>4, <2>5, <2>6 DEF IsSeq
  <1> HIDE DEF rs
  <1>3. /\ req'.pc = "claim_body" /\ req'.q = req.q /\ req'.opened = req.opened
        /\ req'.w1 = req.w1 /\ req'.w2 = req.w2 /\ req'.a = req.a /\ req'.row = req.row /\ req'.rs = rs
    BY <1>1 DEF ReadInv, RequestInv
  <1>4. RequestInv'
    BY <1>1, <1>3 DEF Unread, ReadInv, RequestInv, Phases, Judging, Looking, t_q
  <1>5. TablesInv'
    BY <1>1, <1>3, TablesStay DEF ReadInv
  <1>6. FactorsInv'
    BY <1>1, <1>3 DEF ReadInv, FactorsInv, Counted, Unread, t_q
  <1>7. EntityInv'
    <2>1. /\ req.row # {}
          /\ \E f \in known : /\ f.type = "birth" /\ req.w1.derived_from = {f.via}
                              /\ \A r \in req.row : NotLater(f, r)
      BY <1>1 DEF ReadInv, EntityInv
    <2>2. PICK u : u = rs
      OBVIOUS
    <2>3. /\ IsSeq(u) /\ \A i \in 1 .. Len(u) : u[i].body = {} \/ \E b \in db.bodies : u[i].body = {b}
          /\ req'.rs = u
      BY <1>2, <1>3, <2>2
    <2> QED
      BY <1>1, <1>3, <2>1, <2>3 DEF EntityInv, Unread
  <1>8. SearchInv' /\ LabelsInv' /\ WalkInv'
    BY <1>3 DEF SearchInv, LabelsInv, WalkInv
  <1> QED
    BY <1>3, <1>4, <1>5, <1>6, <1>7, <1>8, NothingYet DEF ReadInv

(* Reading the body of a claim keeps the invariant.                        *)
LEMMA ClaimBodyKeeps ==
    ASSUME ReadInv, ReadClaimBody
    PROVE  ReadInv'
  <1> DEFINE body == claim_body_for(db, req.q.entity, t_q)
  <1>1. req' = [req EXCEPT !.pc = "incident", !.body = body] /\ Unread /\ req.pc = "claim_body"
    BY DEF ReadClaimBody
  <1> HIDE DEF body
  <1>2. /\ req'.pc = "incident" /\ req'.q = req.q /\ req'.opened = req.opened
        /\ req'.w1 = req.w1 /\ req'.w2 = req.w2 /\ req'.a = req.a /\ req'.row = req.row /\ req'.rs = req.rs
    BY <1>1 DEF ReadInv, RequestInv
  <1>3. RequestInv'
    BY <1>1, <1>2 DEF Unread, ReadInv, RequestInv, Phases, Judging, Looking, t_q
  <1>4. TablesInv'
    BY <1>1, <1>2, TablesStay DEF ReadInv
  <1>5. FactorsInv'
    BY <1>1, <1>2 DEF ReadInv, FactorsInv, Counted, Unread, t_q
  <1>6. EntityInv'
    BY <1>1, <1>2 DEF ReadInv, EntityInv, Unread
  <1>7. SearchInv' /\ LabelsInv' /\ WalkInv'
    BY <1>2 DEF SearchInv, LabelsInv, WalkInv
  <1> QED
    BY <1>2, <1>3, <1>4, <1>5, <1>6, <1>7, NothingYet DEF ReadInv

(* What readings_relation says of a list of readings.                      *)
LEMMA RelationIsRight ==
    ASSUME NEW rs, IsSeq(rs), \A i \in 1 .. Len(rs) : rs[i].body = {} \/ \E b : rs[i].body = {b}
    PROVE  LET claims == UNION {Claims(rs[i]) : i \in DOMAIN rs}
           IN  (readings_relation(rs) = "one_claim_many_readings") <=>
                  (Cardinality(claims) = 1 /\ \A i \in DOMAIN rs : rs[i].body # {})
  <1> DEFINE n == Len(rs)
             all == {Claims(rs[i]) : i \in DOMAIN rs}
             claims == UNION all
  <1>1. n \in Nat /\ DOMAIN rs = 1 .. n
    BY DEF IsSeq
  <1>2. CASE rs = <<>>
    <2>1. readings_relation(rs) # "one_claim_many_readings"
      BY <1>2 DEF readings_relation
    <2>2. claims = {}
      BY <1>2
    <2>3. Cardinality({}) = 0
      BY FS_EmptySet
    <2> QED
      BY <2>1, <2>2, <2>3
  <1>3. CASE rs # <<>> /\ \E i \in DOMAIN rs : rs[i].body = {}
    BY <1>3 DEF readings_relation
  <1>4. CASE rs # <<>> /\ \A i \in DOMAIN rs : rs[i].body # {}
    <2>1. n # 0
      <3> SUFFICES ASSUME n = 0 PROVE FALSE
        OBVIOUS
      <3>1. rs = [i \in 1 .. 0 |-> rs[i]]
        BY DEF IsSeq
      <3> QED
        BY <1>4, <3>1
    <2>2. \A i \in 1 .. n : \E x : Claims(rs[i]) = {x}
      <3> SUFFICES ASSUME NEW i \in 1 .. n PROVE \E x : Claims(rs[i]) = {x}
        OBVIOUS
      <3>1. PICK b : rs[i].body = {b}
        BY <1>1, <1>4
      <3>2. Claims(rs[i]) = {b.claim}
        BY <3>1 DEF Claims
      <3> QED
        BY <3>2
    <2>3. (readings_relation(rs) = "one_claim_many_readings") <=>
             \A i \in 1 .. n - 1 : Claims(rs[i]) = Claims(rs[i + 1])
      BY <1>4 DEF readings_relation
    <2>4. ASSUME \A i \in 1 .. n - 1 : Claims(rs[i]) = Claims(rs[i + 1])
          PROVE  Cardinality(claims) = 1
      <3> DEFINE G == {i \in Nat : i + 1 \in 1 .. n /\ Claims(rs[i + 1]) = Claims(rs[1])}
      <3>1. n - 1 \in Nat /\ 0 \in G
        BY <1>1, <2>1
      <3>2. ASSUME NEW i \in 0 .. (n - 1) - 1, i \in G PROVE i + 1 \in G
        <4>1. i + 1 \in 1 .. n - 1 /\ (i + 1) + 1 \in 1 .. n /\ i + 1 \in Nat
          BY <1>1, <3>1
        <4>2. Claims(rs[i + 1]) = Claims(rs[(i + 1) + 1])
          BY <2>4, <4>1
        <4> QED
          BY <3>2, <4>1, <4>2
      <3> HIDE DEF G
      <3>3. 0 .. n - 1 \subseteq G
        BY <3>1, <3>2, HandedOn
      <3>4. ASSUME NEW i \in 1 .. n PROVE Claims(rs[i]) = Claims(rs[1])
        <4>1. PICK j \in 0 .. n - 1 : j + 1 = i
          <5>1. i - 1 \in 0 .. n - 1 /\ (i - 1) + 1 = i
            BY <1>1
          <5> QED
            BY <5>1
        <4>2. j \in G
          BY <3>3, <4>1
        <4>3. Claims(rs[j + 1]) = Claims(rs[1])
          BY <4>2 DEF G
        <4> QED
          BY <4>1, <4>3, Zenon
      <3>5. 1 \in DOMAIN rs
        BY <1>1, <2>1
      <3>6. PICK x : Claims(rs[1]) = {x}
        BY <1>1, <2>2, <3>5
      <3>7. claims = {x}
        BY <1>1, <3>4, <3>5, <3>6
      <3> QED
        BY <3>7, FS_Singleton
    <2>5. ASSUME Cardinality(claims) = 1, NEW i \in 1 .. n - 1
          PROVE  Claims(rs[i]) = Claims(rs[i + 1])
      <3>1. IsFiniteSet(claims)
        <4> DEFINE f == [j \in 1 .. n |-> Claims(rs[j])]
        <4>1. f \in Surjection(1 .. n, all)
          BY <1>1 DEF Surjection
        <4>2. IsFiniteSet(1 .. n)
          BY <1>1, FS_Interval
        <4>3. ASSUME NEW T \in all PROVE IsFiniteSet(T)
          <5>1. PICK j \in 1 .. n : T = Claims(rs[j])
            BY <1>1
          <5>2. PICK x : T = {x}
            BY <2>2, <5>1
          <5> QED
            BY <5>2, FS_Singleton
        <4> HIDE DEF all, f
        <4>4. IsFiniteSet(all)
          BY <4>1, <4>2, FS_Surjection
        <4> QED
          BY <4>3, <4>4, FS_UNION
      <3>2. PICK x : claims = {x}
        <4> HIDE DEF claims
        <4> QED
          BY <2>5, <3>1, FS_Singleton
      <3>3. i \in 1 .. n /\ i + 1 \in 1 .. n
        BY <1>1
      <3>4. Claims(rs[i]) \subseteq claims /\ Claims(rs[i + 1]) \subseteq claims
        BY <1>1, <3>3
      <3> QED
        BY <2>2, <3>2, <3>3, <3>4
    <2> QED
      BY <1>4, <2>3, <2>4, <2>5
  <1> QED
    BY <1>2, <1>3, <1>4

(* Reading the edges of an entity, which answers the request, keeps the    *)
(* invariant.                                                              *)
LEMMA IncidentKeeps ==
    ASSUME ReadInv, ReadIncident
    PROVE  ReadInv'
  <1> DEFINE a == [result |-> "entity", row |-> req.row, window |-> req.w1,
                   relation |-> readings_relation(req.rs), readings |-> req.rs, tt |-> req.body,
                   edges |-> incident_edges(db, req.q.entity, t_q)]
  <1>1. Answer(a) /\ Unread /\ req.pc = "incident"
    BY DEF ReadIncident
  <1>2. /\ a.result = "entity" /\ a.row = req.row /\ a.window = req.w1 /\ a.readings = req.rs
        /\ a.relation = readings_relation(req.rs)
    OBVIOUS
  <1> HIDE DEF a
  <1>3. /\ RequestInv' /\ TablesInv' /\ FactorsInv' /\ SearchInv' /\ LabelsInv' /\ WalkInv' /\ EntityInv'
        /\ req'.pc = "done" /\ req'.ans = a
    BY <1>1, AnswerKeeps
  <1>4. VerdictIsTrue'
    BY <1>2, <1>3 DEF VerdictIsTrue, SupportIsRecorded, SilenceWasTrue, Done
  <1>5. PICK row, rs, w : row = req.row /\ rs = req.rs /\ w = req.w1
    OBVIOUS
  <1>6. (CHOOSE r \in row : TRUE) \in row
    BY <1>1, <1>5 DEF ReadInv, EntityInv
  <1>7. PICK f \in known : f.type = "birth" /\ w.derived_from = {f.via} /\ \A r \in row : NotLater(f, r)
    BY <1>1, <1>5 DEF ReadInv, EntityInv
  <1>8. LET claims == UNION {Claims(rs[i]) : i \in DOMAIN rs}
        IN  (readings_relation(rs) = "one_claim_many_readings") <=>
               (Cardinality(claims) = 1 /\ \A i \in DOMAIN rs : rs[i].body # {})
    <2>1. IsSeq(rs) /\ \A i \in 1 .. Len(rs) : rs[i].body = {} \/ \E b : rs[i].body = {b}
      BY <1>1, <1>5 DEF ReadInv, EntityInv
    <2> QED
      BY <2>1, RelationIsRight
  <1>9. EntityHoldsTogether'
    <2>1. f \in known' /\ NotLater(f, CHOOSE r \in row : TRUE)
      BY <1>1, <1>6, <1>7 DEF Unread
    <2>2. req'.ans.row = row /\ req'.ans.readings = rs /\ req'.ans.window = w
          /\ req'.ans.relation = readings_relation(rs)
      BY <1>2, <1>3, <1>5
    <2> QED
      BY <1>7, <1>8, <2>1, <2>2 DEF EntityHoldsTogether, NotLater
  <1> QED
    BY <1>3, <1>4, <1>9 DEF ReadInv

(* The answers that are neither a verdict nor an entity keep the           *)
(* invariant.                                                              *)
LEMMA OtherAnswersKeep ==
    ASSUME ReadInv, ListMoments \/ ListRecents \/ Unavailable
    PROVE  ReadInv'
  <1>1. PICK a : Answer(a) /\ a.result \in {"page", "unavailable"} /\ Unread
    BY DEF ListMoments, ListRecents, Unavailable
  <1> QED
    BY <1>1, NoVerdict

(* Of the rows with one key one is left, and never a later one.            *)
LEMMA OneSurvives ==
    ASSUME NEW rows, NEW r, r.at \in Int, r.via \in Nat,
           \A p \in rows : p.at \in Int /\ p.via \in Nat,
           \A p, q \in rows : p.key = q.key => p = q
    PROVE  /\ Survive(rows, r) \subseteq rows \cup {r}
           /\ \A p, q \in Survive(rows, r) : p.key = q.key => p = q
           /\ \A p \in rows : \E q \in Survive(rows, r) :
                 q.key = p.key /\ (q.at < p.at \/ (q.at = p.at /\ q.via <= p.via))
  <1> DEFINE rival == {p \in rows : p.key = r.key}
  <1>1. CASE \E p \in rival : p.at < r.at \/ (p.at = r.at /\ p.via <= r.via)
    <2>1. Survive(rows, r) = rows
      BY <1>1 DEF Survive
    <2> QED
      BY <2>1
  <1>2. CASE \A p \in rival : ~ (p.at < r.at \/ (p.at = r.at /\ p.via <= r.via))
    <2>1. Survive(rows, r) = (rows \ rival) \cup {r}
      BY <1>2 DEF Survive
    <2>2. ASSUME NEW p \in rows
          PROVE  \E q \in Survive(rows, r) : q.key = p.key /\ (q.at < p.at \/ (q.at = p.at /\ q.via <= p.via))
      <3>1. CASE p \in rival
        BY <1>2, <2>1, <3>1
      <3>2. CASE p \notin rival
        BY <2>1, <3>2
      <3> QED
        BY <3>1, <3>2
    <2> QED
      BY <2>1, <2>2
  <1> QED
    BY <1>1, <1>2

(* A commit adds to the tables, or puts an earlier row in place of a row.  *)
LEMMA CommitGrows ==
    ASSUME ReadInv, NEW f \in req.q.world, CommitFact(f)
    PROVE  /\ TablesInv' /\ known' = known \cup {f} /\ req' = req
           /\ db.edges \subseteq db'.edges /\ db.bodies \subseteq db'.bodies
           /\ \A p \in db.entities : \E q \in db'.entities :
                 q.key = p.key /\ (q.at < p.at \/ (q.at = p.at /\ q.via <= p.via))
  <1>1. known' = known \cup {f} /\ req' = req /\ db' = Applied(db, f)
    BY DEF CommitFact
  <1>2. FactTyped(f)
    BY WorldAssumption DEF ReadInv, RequestInv
  <1>3. /\ db = [kind |-> "store", edges |-> db.edges, entities |-> db.entities,
                 vocabulary |-> db.vocabulary, moments |-> db.moments, bodies |-> db.bodies]
        /\ known \subseteq req.q.world
        /\ db.edges = {EdgeRow(g) : g \in {g \in known : g.type = "edge"}}
        /\ \A r \in db.entities : \E g \in known : g.type = "birth" /\ r = EntityRow(g)
        /\ \A r, p \in db.entities : r.key = p.key => r = p
        /\ \A r \in db.vocabulary : \E g \in known : g.type = "declaration" /\ r = VocabularyRow(g)
        /\ IsFiniteSet(db.moments)
        /\ \A b \in db.bodies : \E g \in known : g.type = "body" /\ b = g.row
    BY DEF ReadInv, TablesInv
  <1>0. db = [kind |-> "store", edges |-> db.edges, entities |-> db.entities,
              vocabulary |-> db.vocabulary, moments |-> db.moments, bodies |-> db.bodies]
    BY <1>3
  <1>4. \A p \in db.entities : p.at \in Int /\ p.via \in Nat
    BY RowsAre
  <1> DEFINE same(d) == /\ d.kind = "store"
                        /\ d = [kind |-> d.kind, edges |-> d.edges, entities |-> d.entities,
                                vocabulary |-> d.vocabulary, moments |-> d.moments, bodies |-> d.bodies]
  <1>5. \A p \in db.entities : p.at < p.at \/ (p.at = p.at /\ p.via <= p.via)
    BY <1>4
  <1>6. known' \subseteq req.q.world
    BY <1>1, <1>3
  <1>7. CASE f.type = "edge"
    <2>1. db' = [db EXCEPT !.edges = @ \cup {EdgeRow(f)}]
      BY <1>1, <1>7 DEF Applied
    <2>2. /\ same(db') /\ db'.edges = db.edges \cup {EdgeRow(f)} /\ db'.entities = db.entities
          /\ db'.vocabulary = db.vocabulary /\ db'.moments = db.moments /\ db'.bodies = db.bodies
      BY <1>0, <2>1
    <2>3. db'.edges = {EdgeRow(g) : g \in {g \in known' : g.type = "edge"}}
      BY <1>1, <1>3, <1>7, <2>2
    <2> QED
      BY <1>1, <1>3, <1>5, <1>6, <2>2, <2>3 DEF TablesInv
  <1> DEFINE edgesStay == db'.edges = {EdgeRow(g) : g \in {g \in known' : g.type = "edge"}}
  <1>8. ASSUME f.type # "edge", db'.edges = db.edges PROVE edgesStay
    BY <1>1, <1>3, <1>8
  <1>9. CASE f.type = "birth"
    <2>1. db' = [db EXCEPT !.entities = Survive(@, EntityRow(f))]
      BY <1>1, <1>9 DEF Applied
    <2>2. /\ same(db') /\ db'.edges = db.edges /\ db'.entities = Survive(db.entities, EntityRow(f))
          /\ db'.vocabulary = db.vocabulary /\ db'.moments = db.moments /\ db'.bodies = db.bodies
      BY <1>0, <2>1
    <2>3. EntityRow(f).at \in Int /\ EntityRow(f).via \in Nat
      BY <1>2 DEF EntityRow, FactTyped
    <2>4. /\ db'.entities \subseteq db.entities \cup {EntityRow(f)}
          /\ \A p, q \in db'.entities : p.key = q.key => p = q
          /\ \A p \in db.entities : \E q \in db'.entities :
                q.key = p.key /\ (q.at < p.at \/ (q.at = p.at /\ q.via <= p.via))
      BY <1>3, <1>4, <2>2, <2>3, OneSurvives
    <2>5. \A r \in db'.entities : \E g \in known' : g.type = "birth" /\ r = EntityRow(g)
      BY <1>1, <1>3, <1>9, <2>4
    <2>6. edgesStay
      BY <1>8, <1>9, <2>2
    <2> QED
      BY <1>1, <1>3, <1>6, <2>2, <2>4, <2>5, <2>6 DEF TablesInv
  <1>10. CASE f.type = "declaration"
    <2>1. db' = [db EXCEPT !.vocabulary = Survive(@, VocabularyRow(f))]
      BY <1>1, <1>10 DEF Applied
    <2>2. /\ same(db') /\ db'.edges = db.edges /\ db'.entities = db.entities
          /\ db'.vocabulary = Survive(db.vocabulary, VocabularyRow(f))
          /\ db'.moments = db.moments /\ db'.bodies = db.bodies
      BY <1>0, <2>1
    <2>3. db'.vocabulary \subseteq db.vocabulary \cup {VocabularyRow(f)}
      BY <2>2 DEF Survive
    <2>4. \A r \in db'.vocabulary : \E g \in known' : g.type = "declaration" /\ r = VocabularyRow(g)
      BY <1>1, <1>3, <1>10, <2>3
    <2>5. edgesStay
      BY <1>8, <1>10, <2>2
    <2> QED
      BY <1>1, <1>3, <1>5, <1>6, <2>2, <2>4, <2>5 DEF TablesInv
  <1>11. CASE f.type \in {"moment", "correction"}
    <2>1. /\ same(db') /\ db'.edges = db.edges /\ db'.entities = db.entities
          /\ db'.vocabulary = db.vocabulary /\ db'.bodies = db.bodies
          /\ db'.moments \in {db.moments \cup {f.row}, {IF m.root = f.row.root THEN f.row ELSE m : m \in db.moments}}
      <3>1. CASE f.type = "moment"
        <4>1. db' = [db EXCEPT !.moments = @ \cup {f.row}]
          BY <1>1, <3>1 DEF Applied
        <4> QED
          BY <1>0, <4>1
      <3>2. CASE f.type = "correction"
        <4>1. db' = [db EXCEPT !.moments = {IF m.root = f.row.root THEN f.row ELSE m : m \in @}]
          BY <1>1, <3>2 DEF Applied
        <4> QED
          BY <1>0, <4>1
      <3> QED
        BY <1>11, <3>1, <3>2
    <2>2. {IF m.root = f.row.root THEN f.row ELSE m : m \in db.moments} \in SUBSET (db.moments \cup {f.row})
      OBVIOUS
    <2>3. IsFiniteSet(db.moments \cup {f.row})
      BY <1>3, FS_AddElement
    <2>4. IsFiniteSet(db'.moments)
      BY <2>1, <2>2, <2>3, FS_Subset
    <2>5. edgesStay
      BY <1>8, <1>11, <2>1
    <2> QED
      BY <1>1, <1>3, <1>5, <1>6, <2>1, <2>4, <2>5 DEF TablesInv
  <1>12. CASE f.type = "body"
    <2>1. db' = [db EXCEPT !.bodies = @ \cup {f.row}]
      BY <1>1, <1>12 DEF Applied
    <2>2. /\ same(db') /\ db'.edges = db.edges /\ db'.entities = db.entities
          /\ db'.vocabulary = db.vocabulary /\ db'.moments = db.moments
          /\ db'.bodies = db.bodies \cup {f.row}
      BY <1>0, <2>1
    <2>3. \A b \in db'.bodies : \E g \in known' : g.type = "body" /\ b = g.row
      BY <1>1, <1>3, <1>12, <2>2
    <2>4. edgesStay
      BY <1>8, <1>12, <2>2
    <2> QED
      BY <1>1, <1>3, <1>5, <1>6, <2>2, <2>3, <2>4 DEF TablesInv
  <1> QED
    BY <1>2, <1>7, <1>9, <1>10, <1>11, <1>12 DEF FactTyped

(* A commit of the projector between two queries of a request keeps the    *)
(* invariant.                                                              *)
LEMMA CommitKeeps ==
    ASSUME ReadInv, NEW f \in req.q.world, CommitFact(f)
    PROVE  ReadInv'
  <1>1. /\ TablesInv' /\ known \subseteq known' /\ req' = req
        /\ db.edges \subseteq db'.edges /\ db.bodies \subseteq db'.bodies
        /\ \A p \in db.entities : \E q \in db'.entities :
              q.key = p.key /\ (q.at < p.at \/ (q.at = p.at /\ q.via <= p.via))
    BY CommitGrows
  <1>2. t_q' = t_q
    BY <1>1 DEF t_q
  <1>3. RequestInv'
    BY <1>1, <1>2 DEF ReadInv, RequestInv
  <1>4. FactorsInv'
    BY <1>1, <1>2 DEF ReadInv, FactorsInv, Counted
  <1>5. SearchInv'
    BY <1>1, <1>2 DEF ReadInv, SearchInv
  <1>6. LabelsInv'
    <2>1. Depth' = Depth
      BY <1>1 DEF Depth
    <2> QED
      BY <1>1, <2>1 DEF ReadInv, LabelsInv
  <1>7. WalkInv'
    <2>1. \A t, from, steps : Recorded(db.edges, t, from, steps) => Recorded(db'.edges, t, from, steps)
      BY <1>1 DEF Recorded
    <2> QED
      BY <1>1, <1>2, <2>1 DEF ReadInv, WalkInv
  <1>8. EntityInv'
    <2>1. ASSUME req.pc = "entity_window", NEW r \in req.row
          PROVE  \E q \in db'.entities : q.key = req.q.entity /\ NotLater(q, r)
      <3>1. PICK p \in db.entities : p.key = req.q.entity /\ NotLater(p, r)
        BY <2>1 DEF ReadInv, EntityInv
      <3>2. PICK q \in db'.entities : q.key = p.key /\ (q.at < p.at \/ (q.at = p.at /\ q.via <= p.via))
        BY <1>1
      <3>3. p.at \in Int /\ p.via \in Nat /\ r.birth_event_time \in Int /\ r.birth_event \in Nat
        BY <2>1, RowsAre DEF ReadInv, EntityInv
      <3>4. q.at \in Int /\ q.via \in Nat
        <4>1. PICK g \in known' : g.type = "birth" /\ q = EntityRow(g)
          BY <1>1 DEF TablesInv
        <4>2. g \in req.q.world
          BY <1>1 DEF TablesInv
        <4>3. FactTyped(g)
          BY <4>2, WorldAssumption DEF ReadInv, RequestInv
        <4> QED
          BY <4>1, <4>3 DEF FactTyped, EntityRow
      <3>5. NotLater(q, r)
        BY <3>1, <3>2, <3>3, <3>4 DEF NotLater
      <3> QED
        BY <3>1, <3>2, <3>5
    <2>2. req.pc = "entity_window" =>
             /\ req.row # {}
             /\ \A r \in req.row :
                   r.birth_event_time \in Int /\ r.birth_event_time <= t_q /\ r.birth_event \in Nat
      BY DEF ReadInv, EntityInv
    <2>3. req.pc \in {"readings", "claim_body", "incident"} =>
             /\ req.row # {}
             /\ \E g \in known' : /\ g.type = "birth" /\ req.w1.derived_from = {g.via}
                                  /\ \A r \in req.row : NotLater(g, r)
      BY <1>1 DEF ReadInv, EntityInv
    <2>4. req.pc \in {"claim_body", "incident"} =>
             /\ IsSeq(req.rs)
             /\ \A i \in 1 .. Len(req.rs) : req.rs[i].body = {} \/ \E b \in db'.bodies : req.rs[i].body = {b}
      BY <1>1 DEF ReadInv, EntityInv
    <2> QED
      BY <1>1, <1>2, <2>1, <2>2, <2>3, <2>4 DEF EntityInv
  <1>9. VerdictIsTrue'
    <2>1. SupportIsRecorded'
      BY <1>1, <1>2 DEF ReadInv, VerdictIsTrue, SupportIsRecorded, Done
    <2>2. SilenceWasTrue'
      BY <1>1, <1>2 DEF ReadInv, VerdictIsTrue, SilenceWasTrue
    <2> QED
      BY <2>1, <2>2 DEF VerdictIsTrue
  <1>10. EntityHoldsTogether'
    BY <1>1 DEF ReadInv, EntityHoldsTogether, Done
  <1> QED
    BY <1>1, <1>3, <1>4, <1>5, <1>6, <1>7, <1>8, <1>9, <1>10 DEF ReadInv

(* A step in which nothing happens keeps the invariant.                    *)
LEMMA NothingKeeps ==
    ASSUME ReadInv, UNCHANGED readvars
    PROVE  ReadInv'
  <1>1. db' = db /\ known' = known /\ req' = req
    BY DEF readvars
  <1>2. t_q' = t_q /\ Depth' = Depth /\ \A e : Counted(e)' = Counted(e)
    BY <1>1 DEF t_q, Depth, Counted
  <1>3. RequestInv' /\ TablesInv' /\ FactorsInv'
    BY <1>1, <1>2 DEF ReadInv, RequestInv, TablesInv, FactorsInv, Counted
  <1>4. SearchInv' /\ LabelsInv' /\ WalkInv' /\ EntityInv'
    BY <1>1, <1>2 DEF ReadInv, SearchInv, LabelsInv, WalkInv, EntityInv
  <1>5. VerdictIsTrue'
    <2>1. SupportIsRecorded'
      BY <1>1, <1>2 DEF ReadInv, VerdictIsTrue, SupportIsRecorded, Done
    <2>2. SilenceWasTrue'
      BY <1>1, <1>2 DEF ReadInv, VerdictIsTrue, SilenceWasTrue
    <2> QED
      BY <2>1, <2>2 DEF VerdictIsTrue
  <1>6. EntityHoldsTogether'
    BY <1>1 DEF ReadInv, EntityHoldsTogether, Done
  <1> QED
    BY <1>3, <1>4, <1>5, <1>6 DEF ReadInv

(* Every behaviour of the read requests of cc-node, with commits between   *)
(* any two of their queries, satisfies the invariant.                      *)
THEOREM ReadInvariance == ReadSpec => []ReadInv
  <1>1. ReadInit => ReadInv
    BY ReadStarts
  <1>2. ReadInv /\ [ReadNext]_readvars => ReadInv'
    <2> SUFFICES ASSUME ReadInv, [ReadNext]_readvars PROVE ReadInv'
      OBVIOUS
    <2>1. CASE \E f \in req.q.world : CommitFact(f)
      BY <2>1, CommitKeeps
    <2>2. CASE Parse
      BY <2>2, ParseKeeps
    <2>3. CASE Open
      BY <2>3, OpenKeeps
    <2>4. CASE ReadWindow1
      BY <2>4, Window1Keeps
    <2>5. CASE ReadWindow2
      BY <2>5, Window2Keeps
    <2>6. CASE ReadAdmissibility
      BY <2>6, AdmissibilityKeeps
    <2>7. CASE SearchEnds
      BY <2>7, SearchEndKeeps
    <2>8. CASE SearchLevel
      BY <2>8, SearchLevelKeeps
    <2>9. CASE LabelLevel
      BY <2>9, LabelLevelKeeps
    <2>10. CASE WalkLevel
      BY <2>10, WalkLevelKeeps
    <2>11. CASE ReadEntity
      BY <2>11, EntityKeeps
    <2>12. CASE ReadEntityWindow
      BY <2>12, EntityWindowKeeps
    <2>13. CASE ReadReadings
      BY <2>13, ReadingsKeeps
    <2>14. CASE ReadClaimBody
      BY <2>14, ClaimBodyKeeps
    <2>15. CASE ReadIncident
      BY <2>15, IncidentKeeps
    <2>16. CASE ListMoments \/ ListRecents \/ Unavailable
      BY <2>16, OtherAnswersKeep
    <2>17. CASE UNCHANGED readvars
      BY <2>17, NothingKeeps
    <2> QED
      BY <2>1, <2>2, <2>3, <2>4, <2>5, <2>6, <2>7, <2>8, <2>9, <2>10, <2>11, <2>12, <2>13, <2>14,
         <2>15, <2>16, <2>17 DEF ReadNext
  <1> QED
    BY <1>1, <1>2, PTL DEF ReadSpec

(* A verdict of the feasibility route (cc-node, api.rs and view.rs;        *)
(* cc-filter, certify) says only what is recorded by its t_q: the steps of *)
(* its support are recorded and join the two ends within k, all it         *)
(* consulted is recorded and has begun, and where it finds no walk there   *)
(* was none in what had been committed when its view was opened, whatever  *)
(* is committed while it reads and however large the record is.            *)
THEOREM VerdictsAreTrue == ReadSpec => []VerdictIsTrue
  <1>1. ReadInv => VerdictIsTrue
    BY DEF ReadInv
  <1> QED
    BY <1>1, ReadInvariance, PTL

(* An answer of the entity route, put together from several queries, never *)
(* contradicts itself although the projector commits between them: its     *)
(* window is that of a row no later than the one it names, and its         *)
(* readings stand in the relation it states.                               *)
THEOREM EntitiesHoldTogether == ReadSpec => []EntityHoldsTogether
  <1>1. ReadInv => EntityHoldsTogether
    BY DEF ReadInv
  <1> QED
    BY <1>1, ReadInvariance, PTL
=============================================================================
