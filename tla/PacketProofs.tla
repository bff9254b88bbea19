---------------------------- MODULE PacketProofs ----------------------------
(***************************************************************************)
(* Theorems about PacketSubmit, for any packets, events, bodies and causal *)
(* pasts, any number of overlapping runs and of writes lost or late.       *)
(***************************************************************************)
EXTENDS PacketSubmit, FiniteSetTheorems, SequenceTheorems, TLAPS

(* The bodies the events of a packet sign.                                 *)
Signed(p) == UNION {Body(e) : e \in Own(p)}

Items == Events \cup UNION {Body(e) : e \in Events}

(* Every body of every event is listed by SetToSeq: an injection from an   *)
(* interval into a set of the same size reaches all of it.                 *)
LEMMA SetToSeqLists ==
    ASSUME NEW S, IsFiniteSet(S)
    PROVE  /\ SetToSeq(S) \in Seq(S)
           /\ \A x \in S : \E i \in 1..Len(SetToSeq(S)) : SetToSeq(S)[i] = x
  <1> DEFINE n == Cardinality(S)
             f == SetToSeq(S)
  <1>1. n \in Nat
    BY FS_CardinalityType
  <1>2. \E g \in [1..n -> S] : IsInjective(g)
    <2>1. ExistsBijection(1..n, S)
      BY FS_CardinalityType
    <2>2. PICK g \in Bijection(1..n, S) : TRUE
      BY <2>1 DEF ExistsBijection
    <2> QED
      BY <2>2 DEF Bijection, Injection
  <1>3. f \in [1..n -> S] /\ IsInjective(f)
    BY <1>2 DEF SetToSeq
  <1>4. f \in Seq(S) /\ Len(f) = n
    BY <1>1, <1>3
  <1> DEFINE T == {f[i] : i \in 1..n}
  <1>5. T \subseteq S
    BY <1>3
  <1>6. f \in Bijection(1..n, T)
    BY <1>3 DEF Bijection, Injection, Surjection, IsInjective
  <1>7. IsFiniteSet(T) /\ Cardinality(T) = n
    <2>1. IsFiniteSet(1..n) /\ Cardinality(1..n) = n
      BY <1>1, FS_Interval
    <2> HIDE DEF T, f
    <2> QED
      BY <1>1, <1>6, <2>1, FS_Bijection DEF ExistsBijection
  <1>8. T = S
    <2> HIDE DEF T
    <2> QED
      BY <1>5, <1>7, FS_Subset
  <1> QED
    BY <1>4, <1>8

(* A packet signs finitely many bodies.                                    *)
LEMMA SignedFinite ==
    ASSUME NEW p \in Packets
    PROVE  IsFiniteSet(Signed(p))
  <1> DEFINE s == EventsOf[p]
             g == [i \in 1..Len(s) |-> Body(s[i])]
             T == {Body(e) : e \in Own(p)}
  <1>1. s \in Seq(Events) /\ Own(p) = {s[i] : i \in 1..Len(s)}
    BY PacketAssumption DEF Own, ToSet
  <1>2. IsFiniteSet(1..Len(s))
    <2> HIDE DEF s
    <2>1. 1 \in Int /\ Len(s) \in Int
      BY <1>1
    <2> QED
      BY <2>1, FS_Interval
  <1>3. g \in Surjection(1..Len(s), T)
    <2>1. g \in [1..Len(s) -> T]
      BY <1>1
    <2>2. \A t \in T : \E i \in 1..Len(s) : g[i] = t
      BY <1>1
    <2> QED
      BY <2>1, <2>2 DEF Surjection
  <1>4. IsFiniteSet(T)
    <2> HIDE DEF T, g
    <2> QED
      BY <1>2, <1>3, FS_Surjection DEF ExistsSurjection
  <1>5. \A t \in T : IsFiniteSet(t)
    BY <1>1, PacketAssumption
  <1> QED
    <2> HIDE DEF T
    <2>1. IsFiniteSet(UNION T)
      BY <1>4, <1>5, FS_UNION
    <2> QED
      BY <2>1 DEF T, Signed

(* The order of a run's writes: whatever its items are, an event comes     *)
(* after the bodies it signs and after those of its past in the packet.    *)
LEMMA WorkOrder ==
    ASSUME NEW p \in Packets
    PROVE  /\ Work(p) \in Seq(Items)
           /\ Len(Work(p)) \in Nat \ {0}
           /\ \A i \in 1..Len(Work(p)) :
                /\ Work(p)[i] \in Items
                /\ Work(p)[i] \in Events =>
                     /\ Work(p)[i] \in Own(p)
                     /\ \A d \in Body(Work(p)[i]) \cup (Past[Work(p)[i]] \cap Own(p)) :
                          \E j \in 1..(i - 1) : Work(p)[j] = d
  <1> DEFINE s == EventsOf[p]
             b == SetToSeq(Signed(p))
             w == Work(p)
  <1>1. s \in Seq(Events) /\ s # <<>>
        /\ Own(p) = {s[i] : i \in 1..Len(s)} /\ Own(p) \subseteq Events
    BY PacketAssumption DEF Own, ToSet
  <1>2. /\ b \in Seq(Signed(p))
        /\ \A x \in Signed(p) : \E i \in 1..Len(b) : b[i] = x
    BY SignedFinite, SetToSeqLists
  <1>3. w = b \o s
    BY DEF Work, Signed
  <1>4. Signed(p) \subseteq Items /\ Events \subseteq Items
    BY <1>1 DEF Signed, Items
  <1>5. Signed(p) \cap Events = {}
    BY <1>1, PacketAssumption DEF Signed
  <1>a. \A k \in 1..Len(s) :
          \A d \in Past[s[k]] \cap Own(p) : \E j \in 1..(k - 1) : s[j] = d
    <2>1. DOMAIN s = 1..Len(s)
      BY <1>1
    <2> QED
      BY <2>1, OrderAssumption
  <1> HIDE DEF s, b, w
  <1>6. Len(b) \in Nat /\ Len(s) \in Nat \ {0}
    BY <1>1, <1>2
  <1>7. b \in Seq(Items) /\ s \in Seq(Items)
    BY <1>1, <1>2, <1>4
  <1>8. /\ w \in Seq(Items) /\ Len(w) = Len(b) + Len(s)
        /\ \A i \in 1..Len(b) : w[i] = b[i]
        /\ \A i \in (Len(b) + 1)..(Len(b) + Len(s)) : w[i] = s[i - Len(b)]
    BY <1>3, <1>6, <1>7
  <1>9. ASSUME NEW i \in 1..Len(w), w[i] \in Events
        PROVE  /\ w[i] \in Own(p)
               /\ \A d \in Body(w[i]) \cup (Past[w[i]] \cap Own(p)) :
                    \E j \in 1..(i - 1) : w[j] = d
    <2>1. i > Len(b)
      <3> SUFFICES ASSUME i \in 1..Len(b) PROVE FALSE
        BY <1>6, <1>8
      <3>1. b[i] \in Signed(p)
        BY <1>2
      <3>2. w[i] = b[i]
        BY <1>8
      <3> QED
        BY <1>5, <1>9, <3>1, <3>2
    <2> DEFINE k == i - Len(b)
    <2>2. k \in 1..Len(s) /\ w[i] = s[k]
      BY <1>6, <1>8, <2>1
    <2>3. w[i] \in Own(p)
      BY <1>1, <2>2
    <2>4. ASSUME NEW d \in Body(w[i])
          PROVE  \E j \in 1..(i - 1) : w[j] = d
      <3>1. d \in Signed(p)
        BY <2>3 DEF Signed
      <3>2. PICK j \in 1..Len(b) : b[j] = d
        BY <1>2, <3>1
      <3> QED
        BY <1>6, <1>8, <2>1, <3>2
    <2>5. ASSUME NEW d \in Past[w[i]] \cap Own(p)
          PROVE  \E j \in 1..(i - 1) : w[j] = d
      <3>1. PICK j \in 1..(k - 1) : s[j] = d
        BY <1>a, <2>2
      <3>2. i \in Nat /\ k \in Nat /\ k <= Len(s)
        BY <1>6, <1>8, <2>2
      <3>3. /\ Len(b) + j \in 1..(i - 1)
            /\ Len(b) + j \in (Len(b) + 1)..(Len(b) + Len(s))
            /\ (Len(b) + j) - Len(b) = j
        BY <1>6, <3>2
      <3>4. w[Len(b) + j] = s[j]
        BY <1>8, <3>3
      <3> QED
        BY <3>1, <3>3, <3>4
    <2> QED
      BY <2>3, <2>4, <2>5
  <1> QED
    BY <1>6, <1>8, <1>9 DEF w

-----------------------------------------------------------------------------
(* The inductive invariant                                                 *)

Labels == Ended \cup {"idle", "health", "export", "write", "wait", "readback"}

(* Every variable has its type.                                            *)
TypeInv ==
    /\ corpus \subseteq Events /\ live \in BOOLEAN
    /\ bodies \subseteq UNION {Body(e) : e \in Events}
    /\ saved \in (SUBSET Events) \cup {None}
    /\ disk \in [Packets -> (SUBSET Events) \cup {None}]
    /\ builds \in 0..MaxBuilds
    /\ approved \subseteq Digest
    /\ pc \in [Runs -> Labels]
    /\ packet \in [Runs -> Digest \cup {None}]
    /\ healthy \in [Runs -> BOOLEAN]
    /\ seen \in [Runs -> SUBSET Events]
    /\ next \in [Runs -> Nat]

(* The first n - 1 writes of packet p have reached the node.               *)
Written(n, p) == \A i \in 1..(n - 1) : Work(p.name)[i] \in corpus \cup bodies

(* What a run concluded from the corpus it read, which only grew since.    *)
Cleared(r) ==
    /\ seen[r] \subseteq corpus
    /\ Unchanged(seen[r], packet[r])
    /\ SelfCheck(seen[r], Own(packet[r].name) \ seen[r])

(* Where a run is says what it has read and what it has written.           *)
ProgressInv(r) ==
    /\ pc[r] \in {"idle", "health", "export"} => next[r] = 1
    /\ pc[r] \notin {"idle", "refused"} => packet[r] \in approved
    /\ pc[r] \in {"write", "wait", "readback", "done"} => Cleared(r)
    /\ pc[r] \in {"write", "wait"} =>
         /\ next[r] \in 1..Len(Work(packet[r].name))
         /\ Written(next[r], packet[r])
    /\ pc[r] = "done" =>
         \A e \in Own(packet[r].name) :
            Classify(corpus, e) = "valid" /\ Body(e) \subseteq bodies

RunInv == \A r \in Runs : ProgressInv(r)

(* A request on its way, however late, is of the packet its run loaded,    *)
(* and all of the run's earlier writes have reached the node.              *)
RequestInv(m) ==
    /\ m.run \in Runs /\ pc[m.run] \notin {"idle", "health", "export"}
    /\ m.packet = packet[m.run] /\ m.packet \in approved
    /\ m.at \in 1..Len(Work(m.packet.name))
    /\ m.item = Work(m.packet.name)[m.at]
    /\ Cleared(m.run)
    /\ Written(m.at, m.packet)

WireInv == \A m \in wire : RequestInv(m)

IInv ==
    /\ TypeInv /\ RunInv /\ WireInv
    /\ NoneUndecided /\ BodiesFirst
-----------------------------------------------------------------------------
(* The node only keeps what it has, and may get more.                      *)
Grows == corpus \subseteq corpus' /\ bodies \subseteq bodies' /\ approved \subseteq approved'

(* What the rule says of a valid event.                                    *)
LEMMA ValidMeans ==
    ASSUME NEW ids, NEW e
    PROVE  Classify(ids, e) = "valid" <=>
             /\ e \in ids /\ Past[e] \subseteq ids
             /\ ({e} \cup Past[e]) \cap Refused = {}
  BY DEF Classify

(* What was written, read and found valid stays so on a growing node.      *)
LEMMA GrowthKeeps ==
    ASSUME Grows
    PROVE  /\ \A n, p : Written(n, p) => Written(n, p)'
           /\ \A r : Cleared(r) /\ seen'[r] = seen[r] /\ packet'[r] = packet[r] => Cleared(r)'
           /\ \A e : Classify(corpus, e) = "valid" => Classify(corpus', e) = "valid"
  <1>1. ASSUME NEW n, NEW p, Written(n, p) PROVE Written(n, p)'
    BY <1>1 DEF Grows, Written
  <1>2. ASSUME NEW r, Cleared(r), seen'[r] = seen[r], packet'[r] = packet[r]
        PROVE  Cleared(r)'
    BY <1>2 DEF Grows, Cleared
  <1>3. ASSUME NEW e, Classify(corpus, e) = "valid"
        PROVE  Classify(corpus', e) = "valid"
    BY <1>3, ValidMeans DEF Grows
  <1> QED
    BY <1>1, <1>2, <1>3

(* A run that does not move keeps what it relies on.                       *)
LEMMA RunKept ==
    ASSUME Grows, NEW r \in Runs, ProgressInv(r), pc'[r] = pc[r],
           packet'[r] = packet[r], seen'[r] = seen[r], next'[r] = next[r]
    PROVE  ProgressInv(r)'
  <1>1. Written(next[r], packet[r]) => Written(next[r], packet[r])'
    BY DEF Written, Grows
  <1>2. Cleared(r) => Cleared(r)'
    BY GrowthKeeps
  <1>3. \A e : Classify(corpus, e) = "valid" => Classify(corpus', e) = "valid"
    BY GrowthKeeps
  <1> QED
    BY <1>1, <1>2, <1>3 DEF Grows, ProgressInv

(* A request on its way keeps what it relies on while others move.         *)
LEMMA RequestKept ==
    ASSUME Grows, NEW m, RequestInv(m), pc'[m.run] \notin {"idle", "health", "export"},
           packet'[m.run] = packet[m.run], seen'[m.run] = seen[m.run]
    PROVE  RequestInv(m)'
  <1>1. Written(m.at, m.packet) => Written(m.at, m.packet)'
    BY GrowthKeeps
  <1>2. Cleared(m.run) => Cleared(m.run)'
    BY GrowthKeeps
  <1> QED
    BY <1>1, <1>2 DEF Grows, RequestInv

(* Steps outside the runs: what is on its way is at most what was.         *)
LEMMA OutsideKeeps ==
    ASSUME IInv, Grows, wire' \subseteq wire, UNCHANGED <<pc, packet, seen, next>>
    PROVE  RunInv' /\ WireInv'
  <1>1. ASSUME NEW r \in Runs PROVE ProgressInv(r)'
    BY RunKept DEF IInv, RunInv
  <1>2. ASSUME NEW m \in wire' PROVE RequestInv(m)'
    <2>1. RequestInv(m)
      BY DEF IInv, WireInv
    <2> QED
      BY <2>1, RequestKept DEF RequestInv
  <1> QED
    BY <1>1, <1>2 DEF RunInv, WireInv

(* A run's own step leaves the node, the other runs and the requests of    *)
(* every run but itself alone.                                             *)
LEMMA OwnStepKeeps ==
    ASSUME IInv, NEW r \in Runs, wire' = wire, UNCHANGED <<node, approved>>,
           \A q \in Runs \ {r} : /\ pc'[q] = pc[q] /\ packet'[q] = packet[q]
                                 /\ seen'[q] = seen[q] /\ next'[q] = next[q],
           ProgressInv(r)',
           \/ pc[r] \in {"idle", "health", "export"}
           \/ /\ pc'[r] \notin {"idle", "health", "export"}
              /\ packet'[r] = packet[r] /\ seen'[r] = seen[r]
    PROVE  RunInv' /\ WireInv' /\ NoneUndecided' /\ BodiesFirst'
  <1>1. Grows
    BY DEF Grows, node
  <1>2. ASSUME NEW q \in Runs PROVE ProgressInv(q)'
    <2>1. CASE q = r
      BY <2>1
    <2>2. CASE q # r
      BY <1>1, <2>2, RunKept DEF IInv, RunInv
    <2> QED
      BY <2>1, <2>2
  <1>3. ASSUME NEW m \in wire' PROVE RequestInv(m)'
    <2>1. RequestInv(m)
      BY DEF IInv, WireInv
    <2>2. /\ pc'[m.run] \notin {"idle", "health", "export"}
          /\ packet'[m.run] = packet[m.run] /\ seen'[m.run] = seen[m.run]
      BY <2>1 DEF RequestInv
    <2> QED
      BY <1>1, <2>1, <2>2, RequestKept
  <1> QED
    BY <1>2, <1>3 DEF RunInv, WireInv, IInv, node, NoneUndecided, BodiesFirst

(* Why a late or overtaken write is safe: the event it carries is decided  *)
(* by what the node has, and its bodies are there.                         *)
LEMMA ServedIsDecided ==
    ASSUME IInv, NEW m \in wire, m.item \in Events
    PROVE  /\ m.item \in Own(m.packet.name)
           /\ Classify(corpus \cup {m.item}, m.item) = "valid"
           /\ Body(m.item) \subseteq bodies
  <1> DEFINE p == m.packet.name
             w == Work(p)
             e == m.item
             r == m.run
  <1>1. RequestInv(m)
    BY DEF IInv, WireInv
  <1>2. p \in Packets
    BY <1>1 DEF RequestInv, IInv, TypeInv, Digest
  <1>3. m.at \in 1..Len(w) /\ e = w[m.at]
    BY <1>1 DEF RequestInv
  <1>4. /\ e \in Own(p)
        /\ \A d \in Body(e) \cup (Past[e] \cap Own(p)) : \E j \in 1..(m.at - 1) : w[j] = d
    <2> HIDE DEF p, w, e
    <2>1. w[m.at] \in Events
      BY <1>3 DEF e
    <2> QED
      BY <1>2, <1>3, <2>1, WorkOrder DEF w
  <1>5. \A d \in Body(e) \cup (Past[e] \cap Own(p)) : d \in corpus \cup bodies
    BY <1>1, <1>4 DEF RequestInv, Written
  <1>6. corpus \cap UNION {Body(x) : x \in Events} = {} /\ bodies \cap Events = {}
    BY PacketAssumption DEF IInv, TypeInv
  <1>7. Body(e) \subseteq bodies
    BY <1>5, <1>6
  <1>8. Classify(corpus \cup {e}, e) = "valid"
    <2>1. CASE e \in seen[r]
      <3>1. e \in corpus /\ e \in OwnEvents
        BY <1>1, <1>2, <1>4, <2>1 DEF RequestInv, Cleared, OwnEvents
      <3>2. Classify(corpus, e) = "valid"
        BY <3>1 DEF IInv, NoneUndecided
      <3> QED
        BY <3>2, ValidMeans
    <2>2. CASE e \notin seen[r]
      <3>1. Classify(seen[r] \cup (Own(p) \ seen[r]), e) = "valid"
        BY <1>1, <1>4, <2>2 DEF RequestInv, Cleared, SelfCheck
      <3>2. Past[e] \subseteq seen[r] \cup Own(p) /\ ({e} \cup Past[e]) \cap Refused = {}
        BY <3>1, ValidMeans
      <3>3. Own(p) \subseteq Events
        BY <1>2, PacketAssumption DEF Own, ToSet
      <3>4. Past[e] \subseteq corpus
        BY <1>1, <1>5, <1>6, <3>2, <3>3 DEF RequestInv, Cleared
      <3> QED
        BY <3>2, <3>4, ValidMeans
    <2> QED
      BY <2>1, <2>2
  <1> QED
    BY <1>4, <1>7, <1>8
-----------------------------------------------------------------------------
(* Nothing of a packet is on the node at the start.                        *)
LEMMA InitInv == Init => IInv
  <1> SUFFICES ASSUME Init PROVE IInv
    OBVIOUS
  <1>1. TypeInv
    BY PacketAssumption DEF Init, TypeInv, Labels, Digest
  <1>2. corpus \cap OwnEvents = {}
    BY OrderAssumption DEF Init, OwnEvents
  <1>3. RunInv /\ WireInv
    BY DEF Init, RunInv, ProgressInv, WireInv
  <1> QED
    BY <1>1, <1>2, <1>3 DEF IInv, NoneUndecided, BodiesFirst

(* The types are kept by every step.                                       *)
LEMMA TypeStep ==
    ASSUME IInv, [Next]_vars
    PROVE  TypeInv'
  <1> USE DEF IInv, TypeInv, node, local
  <1>1. CASE SaveContext
    BY <1>1 DEF SaveContext
  <1>2. CASE Restart
    BY <1>2 DEF Restart
  <1>3. ASSUME NEW p \in Packets, Build(p) PROVE TypeInv'
    BY <1>3, PacketAssumption DEF Build
  <1>4. ASSUME NEW p \in Packets, Approve(p) PROVE TypeInv'
    BY <1>4 DEF Approve, Digest
  <1>5. ASSUME NEW r \in Runs, NEW d \in approved, Load(r, d) PROVE TypeInv'
    BY <1>5 DEF Load, Labels, Ended
  <1>6. ASSUME NEW r \in Runs, Health(r) PROVE TypeInv'
    BY <1>6 DEF Health, Labels
  <1>7. ASSUME NEW r \in Runs, Export(r) PROVE TypeInv'
    <2>1. Verdict(r, corpus) \in Labels
      BY DEF Verdict, Labels, Ended
    <2> QED
      BY <1>7, <2>1 DEF Export
  <1>8. ASSUME NEW r \in Runs, Send(r) PROVE TypeInv'
    BY <1>8 DEF Send, Labels
  <1>9. ASSUME NEW r \in Runs, Readback(r) PROVE TypeInv'
    BY <1>9 DEF Readback, Labels, Ended
  <1>10. ASSUME NEW r \in Runs, Abort(r) PROVE TypeInv'
    BY <1>10 DEF Abort, Labels, Ended
  <1>11. ASSUME NEW m \in wire, Serve(m) PROVE TypeInv'
    <2>1. RequestInv(m)
      BY DEF WireInv
    <2>2. m.packet.name \in Packets /\ m.run \in Runs
      BY <2>1 DEF RequestInv, Digest
    <2>3. m.item \in Items
      BY <2>1, <2>2, WorkOrder DEF RequestInv
    <2>4. corpus' \subseteq Events /\ bodies' \subseteq UNION {Body(e) : e \in Events}
      BY <1>11, <2>3 DEF Serve, Items
    <2>5. pc' \in [Runs -> Labels]
      BY <1>11, <2>2 DEF Serve, Answer, Labels, Ended
    <2>6. next' \in [Runs -> Nat]
      <3> DEFINE n == [next EXCEPT ![m.run] = @ + 1]
      <3>1. n \in [Runs -> Nat]
        BY <2>2
      <3>2. next' = next \/ next' = n
        BY <1>11 DEF Serve, Answer
      <3> QED
        BY <3>1, <3>2
    <2> QED
      BY <1>11, <2>4, <2>5, <2>6 DEF Serve
  <1>12. ASSUME NEW m \in wire, Lose(m) PROVE TypeInv'
    BY <1>12 DEF Lose
  <1>13. ASSUME NEW e \in Others, Other(e) PROVE TypeInv'
    BY <1>13, PacketAssumption DEF Other
  <1>14. CASE UNCHANGED vars
    BY <1>14 DEF vars
  <1> QED
    BY <1>1, <1>2, <1>3, <1>4, <1>5, <1>6, <1>7, <1>8, <1>9, <1>10, <1>11, <1>12,
       <1>13, <1>14 DEF Next

(* A served request leaves the node in order, and the run that waits for   *)
(* it goes on only past a write that is there.                             *)
LEMMA ServeStep ==
    ASSUME IInv, NEW m \in wire, Serve(m)
    PROVE  RunInv' /\ WireInv' /\ NoneUndecided' /\ BodiesFirst'
  <1> DEFINE r == m.run
  <1>1. RequestInv(m) /\ r \in Runs
    BY DEF IInv, WireInv, RequestInv
  <1>2. Grows /\ wire' \subseteq wire /\ UNCHANGED <<packet, seen>>
    BY DEF Serve, Grows
  <1>3. \A e : Classify(corpus, e) = "valid" => Classify(corpus', e) = "valid"
    BY <1>2, GrowthKeeps
  <1>4. NoneUndecided' /\ BodiesFirst'
    <2>1. CASE m.item \in Events /\ live
      <3>1. corpus' = corpus \cup {m.item} /\ bodies' = bodies
        BY <2>1 DEF Serve
      <3>2. Classify(corpus', m.item) = "valid" /\ Body(m.item) \subseteq bodies'
        BY <2>1, <3>1, ServedIsDecided
      <3> QED
        BY <1>3, <3>1, <3>2 DEF IInv, NoneUndecided, BodiesFirst
    <2>2. CASE ~(m.item \in Events /\ live)
      <3>1. corpus' = corpus /\ bodies \subseteq bodies'
        BY <2>2 DEF Serve
      <3> QED
        BY <1>3, <3>1 DEF IInv, NoneUndecided, BodiesFirst
    <2> QED
      BY <2>1, <2>2
  <1>5. ASSUME NEW q \in Runs PROVE ProgressInv(q)'
    <2>0. ProgressInv(q)
      BY DEF IInv, RunInv
    <2>1. CASE pc'[q] = pc[q] /\ next'[q] = next[q]
      BY <1>2, <2>0, <2>1, RunKept
    <2>2. CASE ~(pc'[q] = pc[q] /\ next'[q] = next[q])
      <3>1. q = r /\ pc[r] = "wait" /\ next[r] = m.at
        BY <1>1, <2>2 DEF Serve, Answer, IInv, TypeInv
      <3>2. CASE ~Accepted(m)
        <4>1. pc'[r] = "failed"
          BY <1>1, <3>1, <3>2 DEF Serve, Answer, IInv, TypeInv
        <4> QED
          BY <1>2, <2>0, <3>1, <4>1 DEF ProgressInv, Grows
      <3>3. CASE Accepted(m)
        <4>1. /\ next'[r] = m.at + 1
              /\ pc'[r] = IF m.at = Len(Work(m.packet.name)) THEN "readback" ELSE "write"
          BY <1>1, <3>1, <3>3 DEF Serve, Answer, IInv, TypeInv
        <4>2. packet'[r] = packet[r] /\ m.packet = packet[r] /\ packet[r] \in approved'
          BY <1>1, <1>2 DEF RequestInv, Grows
        <4>3. Cleared(r)'
          BY <1>1, <1>2, GrowthKeeps DEF RequestInv
        <4>4. m.item \in corpus' \cup bodies'
          BY <3>3 DEF Accepted, Serve
        <4>5. m.packet.name \in Packets
          BY <1>1 DEF RequestInv, IInv, TypeInv, Digest
        <4>6. Len(Work(m.packet.name)) \in Nat /\ m.at \in 1..Len(Work(m.packet.name))
          BY <1>1, <4>5, WorkOrder DEF RequestInv
        <4>7. \A i \in 1..m.at : Work(m.packet.name)[i] \in corpus' \cup bodies'
          <5>1. Work(m.packet.name)[m.at] \in corpus' \cup bodies'
            BY <1>1, <4>4 DEF RequestInv
          <5>2. \A i \in 1..(m.at - 1) : Work(m.packet.name)[i] \in corpus' \cup bodies'
            BY <1>1, <1>2 DEF RequestInv, Written, Grows
          <5> QED
            BY <4>6, <5>1, <5>2
        <4>8. Written(next[r], packet[r])'
          BY <4>1, <4>2, <4>6, <4>7 DEF Written
        <4>9. pc'[r] = "write" => next'[r] \in 1..Len(Work(packet'[r].name))
          BY <4>1, <4>2, <4>6
        <4> QED
          BY <3>1, <4>1, <4>2, <4>3, <4>8, <4>9 DEF ProgressInv
      <3> QED
        BY <3>2, <3>3
    <2> QED
      BY <2>1, <2>2
  <1>6. ASSUME NEW n \in wire' PROVE RequestInv(n)'
    <2>1. RequestInv(n)
      BY <1>2 DEF IInv, WireInv
    <2>2. pc'[n.run] \notin {"idle", "health", "export"}
      BY <1>1, <2>1 DEF Serve, Answer, RequestInv, IInv, TypeInv
    <2> QED
      BY <1>2, <2>1, <2>2, RequestKept
  <1> QED
    BY <1>4, <1>5, <1>6 DEF RunInv, WireInv
(* Every step keeps the invariant.                                         *)
LEMMA InvStep == IInv /\ [Next]_vars => IInv'
  <1> SUFFICES ASSUME IInv, [Next]_vars PROVE IInv'
    OBVIOUS
  <1>0. TypeInv'
    BY TypeStep
  <1> DEFINE Rest == RunInv /\ WireInv /\ NoneUndecided /\ BodiesFirst
  <1> SUFFICES Rest'
    BY <1>0 DEF IInv
  <1> USE DEF node, local
  <1>1. CASE SaveContext
    BY <1>1, OutsideKeeps DEF SaveContext, Grows, IInv, NoneUndecided, BodiesFirst
  <1>2. CASE Restart
    BY <1>2, OutsideKeeps DEF Restart, Grows, IInv, NoneUndecided, BodiesFirst
  <1>3. ASSUME NEW p \in Packets, Build(p) PROVE Rest'
    BY <1>3, OutsideKeeps DEF Build, Grows, IInv, NoneUndecided, BodiesFirst
  <1>4. ASSUME NEW p \in Packets, Approve(p) PROVE Rest'
    BY <1>4, OutsideKeeps DEF Approve, Grows, IInv, NoneUndecided, BodiesFirst
  <1>5. ASSUME NEW r \in Runs, NEW d \in approved, Load(r, d) PROVE Rest'
    <2>1. ProgressInv(r)'
      BY <1>5 DEF Load, ProgressInv, RunInv, IInv, TypeInv
    <2> QED
      BY <1>5, <2>1, OwnStepKeeps DEF Load, IInv, TypeInv
  <1>6. ASSUME NEW r \in Runs, Health(r) PROVE Rest'
    <2>1. ProgressInv(r)'
      BY <1>6 DEF Health, ProgressInv, RunInv, IInv, TypeInv
    <2> QED
      BY <1>6, <2>1, OwnStepKeeps DEF Health, IInv, TypeInv
  <1>7. ASSUME NEW r \in Runs, Export(r) PROVE Rest'
    <2>1. /\ pc'[r] = Verdict(r, corpus) /\ seen'[r] = corpus
          /\ packet'[r] = packet[r] /\ corpus' = corpus /\ approved' = approved
      BY <1>7 DEF Export, IInv, TypeInv
    <2>2. packet[r] \in approved
      BY <1>7 DEF Export, ProgressInv, RunInv, IInv
    <2>3. Verdict(r, corpus) = "write" => Cleared(r)'
      BY <2>1 DEF Verdict, Cleared
    <2>4. pc'[r] \notin {"idle", "health", "export", "wait", "readback", "done"}
      BY <2>1 DEF Verdict
    <2>5. pc'[r] = "write" => /\ next'[r] \in 1..Len(Work(packet'[r].name))
                              /\ Written(next[r], packet[r])'
      <3>1. next[r] = 1 /\ next' = next
        BY <1>7 DEF Export, IInv, RunInv, ProgressInv
      <3>2. packet[r].name \in Packets
        BY <2>2 DEF IInv, TypeInv, Digest
      <3>3. Len(Work(packet[r].name)) \in Nat \ {0}
        BY <3>2, WorkOrder
      <3> QED
        BY <2>1, <3>1, <3>3 DEF Written
    <2>6. ProgressInv(r)'
      BY <2>1, <2>2, <2>3, <2>4, <2>5 DEF ProgressInv
    <2> QED
      BY <1>7, <2>6, OwnStepKeeps DEF Export, IInv, TypeInv
  <1>8. ASSUME NEW r \in Runs, Send(r) PROVE Rest'
    <2>1. ProgressInv(r)
      BY DEF IInv, RunInv
    <2>2. /\ pc[r] = "write" /\ pc' = [pc EXCEPT ![r] = "wait"]
          /\ Grows /\ UNCHANGED <<corpus, bodies, packet, seen, next, approved>>
      BY <1>8 DEF Send, Grows
    <2>3. pc'[r] = "wait" /\ \A q \in Runs \ {r} : pc'[q] = pc[q]
      BY <2>2 DEF IInv, TypeInv
    <2>4. ProgressInv(r)'
      BY <2>1, <2>2, <2>3 DEF ProgressInv, Cleared, Written
    <2>5. ASSUME NEW q \in Runs PROVE ProgressInv(q)'
      <3>1. CASE q = r
        BY <2>4, <3>1
      <3>2. CASE q # r
        BY <2>2, <2>3, <3>2, RunKept DEF IInv, RunInv
      <3> QED
        BY <3>1, <3>2
    <2>6. ASSUME NEW m \in wire' PROVE RequestInv(m)'
      <3>1. CASE m \in wire
        <4>1. RequestInv(m)
          BY <3>1 DEF IInv, WireInv
        <4>2. pc'[m.run] \notin {"idle", "health", "export"}
          BY <2>3, <4>1 DEF RequestInv
        <4> QED
          BY <2>2, <4>1, <4>2, RequestKept
      <3>2. CASE m = Request(r)
        <4>1. /\ m.run = r /\ m.at = next[r] /\ m.packet = packet[r]
              /\ m.item = Work(packet[r].name)[next[r]]
          BY <3>2 DEF Request
        <4> QED
          BY <2>1, <2>2, <2>3, <4>1 DEF ProgressInv, RequestInv, Cleared, Written
      <3> QED
        BY <1>8, <3>1, <3>2 DEF Send
    <2> QED
      BY <2>2, <2>5, <2>6 DEF RunInv, WireInv, IInv, NoneUndecided, BodiesFirst
  <1>9. ASSUME NEW r \in Runs, Readback(r) PROVE Rest'
    <2>1. ProgressInv(r)
      BY DEF IInv, RunInv
    <2>2. /\ pc'[r] = IF \A e \in Own(packet[r].name) : Classify(corpus, e) = "valid"
                      THEN "done" ELSE "failed"
          /\ pc[r] = "readback"
          /\ UNCHANGED <<corpus, bodies, packet, seen, next, approved>>
      BY <1>9 DEF Readback, IInv, TypeInv
    <2>3. ASSUME pc'[r] = "done", NEW e \in Own(packet[r].name)
          PROVE  Classify(corpus, e) = "valid" /\ Body(e) \subseteq bodies
      <3>1. Classify(corpus, e) = "valid"
        BY <2>2, <2>3
      <3>2. packet[r].name \in Packets
        BY <2>1, <2>2 DEF ProgressInv, IInv, TypeInv, Digest
      <3>3. e \in corpus \cap OwnEvents
        BY <2>3, <3>1, <3>2, ValidMeans DEF OwnEvents
      <3> QED
        BY <3>1, <3>3 DEF IInv, BodiesFirst
    <2>4. ProgressInv(r)'
      BY <2>1, <2>2, <2>3 DEF ProgressInv, Cleared
    <2> QED
      BY <1>9, <2>4, OwnStepKeeps DEF Readback, IInv, TypeInv
  <1>10. ASSUME NEW r \in Runs, Abort(r) PROVE Rest'
    <2>1. ProgressInv(r)'
      BY <1>10 DEF Abort, Ended, ProgressInv, RunInv, IInv, TypeInv
    <2> QED
      BY <1>10, <2>1, OwnStepKeeps DEF Abort, IInv, TypeInv
  <1>11. ASSUME NEW m \in wire, Serve(m) PROVE Rest'
    BY <1>11, ServeStep
  <1>12. ASSUME NEW m \in wire, Lose(m) PROVE Rest'
    BY <1>12, OutsideKeeps DEF Lose, Grows, IInv, NoneUndecided, BodiesFirst
  <1>13. ASSUME NEW e \in Others, Other(e) PROVE Rest'
    <2>1. e \notin OwnEvents
      BY OrderAssumption DEF OwnEvents
    <2>2. Grows /\ corpus' = corpus \cup {e} /\ bodies' = bodies
      BY <1>13 DEF Other, Grows
    <2>3. \A d : Classify(corpus, d) = "valid" => Classify(corpus', d) = "valid"
      BY <2>2, GrowthKeeps
    <2>4. NoneUndecided' /\ BodiesFirst'
      BY <2>1, <2>2, <2>3 DEF IInv, NoneUndecided, BodiesFirst
    <2> QED
      BY <1>13, <2>2, <2>4, OutsideKeeps DEF Other
  <1>14. CASE UNCHANGED vars
    BY <1>14, OutsideKeeps DEF vars, Grows, IInv, NoneUndecided, BodiesFirst
  <1> QED
    BY <1>1, <1>2, <1>3, <1>4, <1>5, <1>6, <1>7, <1>8, <1>9, <1>10, <1>11, <1>12,
       <1>13, <1>14 DEF Next
-----------------------------------------------------------------------------
(* The invariant holds of every behaviour.                                 *)
THEOREM Invariance == Spec => []IInv
  <1>1. Init => IInv
    BY InitInv
  <1>2. IInv /\ [Next]_vars => IInv'
    BY InvStep
  <1> QED
    BY <1>1, <1>2, PTL DEF Spec

(* A run that is writing is within its packet's writes, and every variable *)
(* has its type.                                                           *)
LEMMA InvGivesTypes == IInv => TypeOK
  <1> SUFFICES ASSUME IInv PROVE TypeOK
    OBVIOUS
  <1>1. ASSUME NEW r \in Runs
        PROVE  /\ pc[r] \in Labels /\ packet[r] \in Digest \cup {None}
               /\ pc[r] \in {"write", "wait"} => next[r] \in 1..Len(Work(packet[r].name))
    BY DEF IInv, TypeInv, RunInv, ProgressInv
  <1>2. ASSUME NEW m \in wire PROVE m.run \in Runs /\ m.packet \in Digest
    BY DEF IInv, TypeInv, WireInv, RequestInv
  <1> QED
    BY <1>1, <1>2 DEF IInv, TypeInv, TypeOK, Labels

(* submit-packet sends nothing but what the owner approved: the packet on  *)
(* disk was compared with --approve before the first request, and a        *)
(* rebuild afterwards cannot reach the packet in memory.                   *)
THEOREM OnlyApprovedIsSent == Spec => []OnlyApproved
  <1>1. IInv => OnlyApproved
    BY DEF IInv, WireInv, RequestInv, OnlyApproved
  <1> QED
    BY <1>1, Invariance, PTL

(* What runs leave on the node, killed, overtaken or late: events decided  *)
(* valid, with their bodies, and only for packets checked against the      *)
(* corpus they were read with (steps 3 to 5 of submit_unredacted).         *)
THEOREM NothingUndecidedIsLeft == Spec => []WrittenInOrder
  <1>1. IInv => StaleNeverWrites
    <2> SUFFICES ASSUME IInv PROVE StaleNeverWrites
      OBVIOUS
    <2>1. ASSUME NEW r, Cleared(r) PROVE Unreviewed(seen[r], packet[r]) = {}
      BY <2>1 DEF Cleared, Unchanged, WithoutPacket, Unreviewed
    <2>2. ASSUME NEW r \in Runs, pc[r] \in {"write", "wait", "readback", "done"}
          PROVE  Unreviewed(seen[r], packet[r]) = {}
      BY <2>1, <2>2 DEF IInv, RunInv, ProgressInv
    <2>3. ASSUME NEW m \in wire
          PROVE  Unreviewed(seen[m.run], m.packet) = {}
      BY <2>1 DEF IInv, WireInv, RequestInv
    <2> QED
      BY <2>2, <2>3 DEF StaleNeverWrites
  <1>2. IInv => NoneUndecided /\ BodiesFirst
    BY DEF IInv
  <1>3. IInv => WrittenInOrder
    BY <1>1, <1>2, InvGivesTypes DEF WrittenInOrder
  <1> QED
    BY <1>3, Invariance, PTL

(* A run that reports success has all of its packet on the node, valid and *)
(* with its bodies, and nothing that happens later makes the report false. *)
THEOREM ReportsAreTrue == Spec => []ReportIsTrue
  <1>1. IInv => ReportIsTrue
    BY DEF IInv, RunInv, ProgressInv, ReportIsTrue
  <1> QED
    BY <1>1, Invariance, PTL
=============================================================================
