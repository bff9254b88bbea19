---------------------------- MODULE AnchorProofs ----------------------------
(***************************************************************************)
(* Theorems about Anchor, for any events, any number of overlapping runs   *)
(* of cc-anchor-tick and any bound on them.  Nothing is assumed of         *)
(* merkle_root: what is proved is which leaves, in which order, each root  *)
(* was computed from.                                                      *)
(***************************************************************************)
EXTENDS Anchor, FiniteSetTheorems, SequenceTheorems, TLAPS

(* Shapes: a sequence of anything, and records with their fields.          *)
IsSeq(s) == Len(s) \in Nat /\ s = [i \in 1..Len(s) |-> s[i]]
RunFields == {"pc", "now", "height", "next", "rows", "root", "proof", "row", "block", "leaves",
              "out"}
IsRun(r) == r = [f \in RunFields |-> r[f]]
IsRoot(r) == r = [f \in {"root", "size", "moment", "prev", "path"} |-> r[f]]
IsAnchor(a) == a = [f \in {"status", "blob", "block", "moment"} |-> a[f]]

(* Rows number the positions from n without a gap, one event each.         *)
Numbered(l, n) ==
    /\ IsFiniteSet(l)
    /\ \A r \in l : r.seq \in n..(n + Cardinality(l) - 1)
    /\ \A i \in n..(n + Cardinality(l) - 1) : \E r \in l : r.seq = i
    /\ \A r, s \in l : r.seq = s.seq \/ r.event = s.event => r = s

Size == Cardinality(log)

(* The log is numbered from 0 and holds events that are committed.         *)
LogInv == /\ IsFiniteSet(events)
          /\ Numbered(log, 0)
          /\ \A r \in log : r.event \in events

(* Every root is that of a longer prefix of the log, the last one of all   *)
(* of it, and every row lies between the root of its epoch and the one     *)
(* before.                                                                 *)
RootInv ==
    /\ IsSeq(roots)
    /\ \A h \in 1..Len(roots) :
         /\ IsRoot(roots[h])
         /\ roots[h].size \in 1..Size
         /\ roots[h].root = merkle_root(SubSeq(LoadLeaves(log), 1, roots[h].size))
    /\ \A h, i \in 1..Len(roots) : h < i => roots[h].size < roots[i].size
    /\ roots # <<>> => roots[Len(roots)].size = Size
    /\ roots # <<>> => \A r \in log : /\ r.epoch \in 0..(Len(roots) - 1)
                                      /\ r.seq < roots[r.epoch + 1].size
                                      /\ r.epoch > 0 => roots[r.epoch].size <= r.seq

(* The history of roots is the table, unless the table was lost.           *)
PublishedInv ==
    /\ IsSeq(published)
    /\ published # <<>> => log # {}
    /\ roots # <<>> => /\ Len(published) = Len(roots)
                       /\ \A h \in 1..Len(roots) : published[h] = [root |-> roots[h].root,
                                                                   size |-> roots[h].size]

(* The table of roots is gone and the log is not: no root is ever added.   *)
Lost == roots = <<>> /\ log # {}

(* What the run under the advisory lock has read still holds.              *)
Sealing == {"insert", "seal-commit"}
SealInv(r) ==
    /\ r.pc \in Sealing => ~Lost /\ r.height = Len(roots) /\ r.next = Size
    /\ r.pc = "seal-commit" =>
         /\ Numbered(r.rows, Size)
         /\ r.rows # {}
         /\ \A s \in r.rows : /\ s.event \in events /\ s.epoch = Len(roots)
                              /\ \A x \in log : x.event # s.event
OneSeals == \A p, q \in Procs : run[p].pc \in Sealing /\ run[q].pc \in Sealing => p = q

(* A moment about root and proof, and one that such a moment supersedes.   *)
Tells(m, root, status, proof, block) ==
    /\ m \in events /\ m.root = root /\ m.status = status /\ m.blob = proof /\ m.block = block
Supersedes(m, proof) == m \in events /\ m.status = "pending" /\ m.blob = proof

(* What record_stamp has done by now, and what confirm_anchor has.         *)
StampInv(r) ==
    /\ r.pc \in {"stamp-proof", "stamp-moment", "stamp-row"} => commits_to(r.proof, Digest(r.root))
    /\ r.pc \in {"stamp-moment", "stamp-row"} => r.proof \in proofs
    /\ r.pc = "stamp-row" => Tells(r.row, r.root, "pending", r.proof, -1)
ConfirmInv(r) ==
    /\ r.pc \in {"confirm-moment", "confirm-row"} =>
         /\ r.root \in DOMAIN anchors => anchors[r.root].blob = r.proof
         /\ r.root \notin DOMAIN anchors => Lost
    /\ r.pc = "confirm-moment" => Supersedes(r.row, r.proof)
    /\ r.pc = "confirm-row" => /\ Tells(r.row, r.root, "confirmed", r.proof, r.block)
                               /\ Supersedes(r.row.supersedes, r.proof)
RunInv == /\ run = [p \in Procs |-> run[p]]
          /\ \A p \in Procs : /\ IsRun(run[p]) /\ SealInv(run[p])
                              /\ StampInv(run[p]) /\ ConfirmInv(run[p])
          /\ OneSeals

(* Anchors are of roots in the table (the foreign key).                    *)
AnchorInv == /\ anchors = [r \in DOMAIN anchors |-> anchors[r]]
             /\ \A r \in DOMAIN anchors : /\ IsAnchor(anchors[r])
                                          /\ \E h \in 1..Len(roots) : roots[h].root = r
             /\ RowsTellMoments

IInv == LogInv /\ RootInv /\ PublishedInv /\ RunInv /\ AnchorInv
-----------------------------------------------------------------------------
(***************************************************************************)
(* Sequences and numbered rows.                                            *)
(***************************************************************************)
(* A shape in IsSeq is a sequence of its own elements.                     *)
LEMMA SeqShape ==
    ASSUME NEW s, IsSeq(s)
    PROVE  /\ s \in Seq({s[i] : i \in 1..Len(s)})
           /\ DOMAIN s = 1..Len(s)
           /\ (s = <<>>) <=> (Len(s) = 0)
  <1> DEFINE S == {s[i] : i \in 1..Len(s)}
  <1>1. Len(s) \in Nat /\ s \in [1..Len(s) -> S]
    BY DEF IsSeq
  <1>2. s \in Seq(S)
    BY <1>1
  <1> QED
    BY <1>1, <1>2, EmptySeq

(* And a sequence of anything has that shape.                              *)
LEMMA SeqIsSeq ==
    ASSUME NEW S, NEW s \in Seq(S)
    PROVE  IsSeq(s)
  BY LenProperties DEF IsSeq

LEMMA AppendShape ==
    ASSUME NEW s, IsSeq(s), NEW x
    PROVE  /\ IsSeq(Append(s, x))
           /\ Len(Append(s, x)) = Len(s) + 1
           /\ \A i \in 1..Len(s) : Append(s, x)[i] = s[i]
           /\ Append(s, x)[Len(s) + 1] = x
           /\ Append(s, x) # <<>>
  <1> DEFINE S == {s[i] : i \in 1..Len(s)}
             T == S \cup {x}
  <1>1. s \in Seq(S)
    BY SeqShape
  <1>2. s \in Seq(T)
    <2>1. s \in [1..Len(s) -> T] /\ Len(s) \in Nat
      BY DEF IsSeq
    <2> QED
      BY <2>1
  <1>3. x \in T
    OBVIOUS
  <1> HIDE DEF S, T
  <1>4. /\ Append(s, x) \in Seq(T)
        /\ Append(s, x) # <<>>
        /\ Len(Append(s, x)) = Len(s) + 1
        /\ \A i \in 1..Len(s) : Append(s, x)[i] = s[i]
        /\ Append(s, x)[Len(s) + 1] = x
    BY <1>2, <1>3, AppendProperties
  <1>5. IsSeq(Append(s, x))
    BY <1>4, SeqIsSeq
  <1> QED
    BY <1>4, <1>5

(* A prefix is determined by its elements.                                 *)
LEMMA SamePrefix ==
    ASSUME NEW s, NEW t, NEW k \in Nat, \A i \in 1..k : s[i] = t[i]
    PROVE  SubSeq(s, 1, k) = SubSeq(t, 1, k)
  <1> DEFINE S == {s[i] : i \in 1..k}
             u == SubSeq(s, 1, k)
             v == SubSeq(t, 1, k)
  <1>1. \A i \in 1..k : s[i] \in S /\ t[i] \in S
    OBVIOUS
  <1> HIDE DEF S
  <1>2. u \in Seq(S) /\ Len(u) = k /\ \A i \in 1..k : u[i] = s[i]
    BY <1>1, SubSeqProperties
  <1>3. v \in Seq(S) /\ Len(v) = k /\ \A i \in 1..k : v[i] = t[i]
    BY <1>1, SubSeqProperties
  <1> HIDE DEF u, v
  <1>4. u \in [1..k -> S] /\ v \in [1..k -> S]
    BY <1>2, <1>3, LenProperties
  <1>5. u = v
    BY <1>2, <1>3, <1>4
  <1> QED
    BY <1>5 DEF u, v

(* The whole of a sequence is a prefix of it.                              *)
LEMMA WholePrefix ==
    ASSUME NEW s, IsSeq(s)
    PROVE  SubSeq(s, 1, Len(s)) = s
  <1> DEFINE S == {s[i] : i \in 1..Len(s)}
             u == SubSeq(s, 1, Len(s))
  <1>1. s \in Seq(S) /\ Len(s) \in Nat
    BY SeqShape DEF IsSeq
  <1>2. \A i \in 1..Len(s) : s[i] \in S
    OBVIOUS
  <1> HIDE DEF S
  <1>3. u \in Seq(S) /\ Len(u) = Len(s) /\ \A i \in 1..Len(s) : u[i] = s[i]
    BY <1>1, <1>2, SubSeqProperties
  <1> HIDE DEF u
  <1>4. u \in [1..Len(s) -> S] /\ s \in [1..Len(s) -> S]
    BY <1>1, <1>3, LenProperties
  <1>5. u = s
    BY <1>3, <1>4
  <1> QED
    BY <1>5 DEF u

(* SetToSeq lists a finite set without repetition.                         *)
LEMMA SetToSeqIsList ==
    ASSUME NEW S, IsFiniteSet(S)
    PROVE  /\ Cardinality(S) \in Nat
           /\ SetToSeq(S) \in [1..Cardinality(S) -> S]
           /\ \A i, j \in 1..Cardinality(S) : SetToSeq(S)[i] = SetToSeq(S)[j] => i = j
  <1> DEFINE n == Cardinality(S)
             f == SetToSeq(S)
  <1>1. n \in Nat
    BY FS_CardinalityType
  <1>2. \E g \in [1..n -> S] : IsInjective(g)
    <2>1. ExistsBijection(1..n, S)
      BY FS_CardinalityType
    <2>2. PICK g \in Bijection(1..n, S) : TRUE
      BY <2>1 DEF ExistsBijection
    <2> QED
      BY <2>2 DEF Bijection, Injection
  <1>3. f \in [1..n -> S] /\ IsInjective(f)
    BY <1>2 DEF SetToSeq
  <1> QED
    BY <1>1, <1>3 DEF IsInjective

(* In a numbered set of rows, k of them are below the k-th number.         *)
LEMMA Below ==
    ASSUME NEW l, Numbered(l, 0), NEW k \in 0..Cardinality(l)
    PROVE  Cardinality({s \in l : s.seq < k}) = k
  <1> DEFINE B == {s \in l : s.seq < k}
             g == [i \in 1..k |-> CHOOSE s \in l : s.seq = i - 1]
  <1>1. Cardinality(l) \in Nat /\ k \in Nat
    BY FS_CardinalityType DEF Numbered
  <1>2. ASSUME NEW i \in 1..k PROVE g[i] \in l /\ g[i].seq = i - 1
    <2>1. \E s \in l : s.seq = i - 1
      BY <1>1 DEF Numbered
    <2> QED
      BY <2>1
  <1> HIDE DEF g
  <1>3. g \in [1..k -> B]
    <2>1. DOMAIN g = 1..k /\ g = [i \in 1..k |-> g[i]]
      BY DEF g
    <2> QED
      BY <1>1, <1>2, <2>1
  <1>4. \A i, j \in 1..k : g[i] = g[j] => i = j
    BY <1>1, <1>2
  <1>5. \A s \in B : \E i \in 1..k : g[i] = s
    <2> TAKE s \in B
    <2>1. s.seq \in 0..(k - 1)
      BY <1>1 DEF Numbered
    <2>2. g[s.seq + 1] \in l /\ g[s.seq + 1].seq = s.seq
      BY <1>1, <1>2, <2>1
    <2>3. g[s.seq + 1] = s
      BY <2>2 DEF Numbered
    <2> QED
      BY <1>1, <2>1, <2>3
  <1> HIDE DEF B
  <1>6. g \in Bijection(1..k, B)
    BY <1>3, <1>4, <1>5 DEF Bijection, Injection, Surjection, IsInjective
  <1>7. Cardinality(B) = k
    BY <1>1, <1>6, FS_CountingElements DEF ExistsBijection
  <1> QED
    BY <1>7 DEF B

(* ORDER BY seq puts every row at its number.                              *)
LEMMA RowsInOrder ==
    ASSUME NEW l, Numbered(l, 0), NEW r \in l
    PROVE  /\ r.seq + 1 \in 1..Cardinality(l)
           /\ Rows(l)[r.seq + 1] = r
  <1> DEFINE P(x) == Cardinality({s \in l : s.seq < x.seq})
  <1>1. Cardinality(l) \in Nat
    BY FS_CardinalityType DEF Numbered
  <1>2. \A x \in l : x.seq \in 0..Cardinality(l) /\ x.seq + 1 \in 1..Cardinality(l)
    BY <1>1 DEF Numbered
  <1>3. \A x \in l : P(x) = x.seq
    BY <1>2, Below
  <1> HIDE DEF P
  <1>4. \A x \in l : P(x) = (r.seq + 1) - 1 <=> x = r
    BY <1>2, <1>3 DEF Numbered
  <1>5. Rows(l)[r.seq + 1] = CHOOSE x \in l : P(x) = (r.seq + 1) - 1
    BY <1>2 DEF Rows, P
  <1> QED
    BY <1>2, <1>4, <1>5

(* The leaves of a numbered log, in order.                                 *)
LEMMA LeavesInOrder ==
    ASSUME NEW l, Numbered(l, 0)
    PROVE  /\ GapFree(l)
           /\ IsSeq(LoadLeaves(l))
           /\ Len(LoadLeaves(l)) = Cardinality(l)
           /\ \A r \in l : LoadLeaves(l)[r.seq + 1] = leaf_hash(r.event)
  <1> DEFINE n == Cardinality(l)
             S == {leaf_hash(Rows(l)[i].event) : i \in 1..n}
  <1>1. n \in Nat
    BY FS_CardinalityType DEF Numbered
  <1>2. DOMAIN Rows(l) = 1..n
    BY DEF Rows
  <1>3. GapFree(l)
    <2>1. ASSUME NEW i \in 1..n PROVE Rows(l)[i].seq = i - 1
      <3>1. PICK r \in l : r.seq = i - 1
        BY <1>1 DEF Numbered
      <3>2. r.seq + 1 = i /\ Rows(l)[r.seq + 1] = r
        BY <1>1, <3>1, RowsInOrder
      <3> QED
        BY <3>1, <3>2
    <2> QED
      BY <1>2, <2>1 DEF GapFree
  <1>4. LoadLeaves(l) \in [1..n -> S]
    BY DEF LoadLeaves
  <1>5. LoadLeaves(l) \in Seq(S) /\ Len(LoadLeaves(l)) = n
    <2> HIDE DEF S
    <2> QED BY <1>1, <1>4
  <1>6. ASSUME NEW r \in l PROVE LoadLeaves(l)[r.seq + 1] = leaf_hash(r.event)
    BY <1>1, RowsInOrder DEF LoadLeaves
  <1> HIDE DEF S
  <1> QED
    BY <1>3, <1>5, <1>6, SeqIsSeq

(* Rows numbered from the end of a numbered log extend it: the leaves that *)
(* were there stay where they are.                                         *)
LEMMA LogGrows ==
    ASSUME NEW l, Numbered(l, 0), NEW new, Numbered(new, Cardinality(l)),
           \A r \in l, s \in new : r.event # s.event
    PROVE  /\ Numbered(l \cup new, 0)
           /\ Cardinality(l \cup new) = Cardinality(l) + Cardinality(new)
           /\ \A i \in 1..Cardinality(l) : LoadLeaves(l \cup new)[i] = LoadLeaves(l)[i]
  <1> DEFINE n == Cardinality(l)
             m == Cardinality(new)
             g == l \cup new
  <1>1. n \in Nat /\ m \in Nat
    BY FS_CardinalityType DEF Numbered
  <1>2. \A r \in l, s \in new : r.seq \in 0..(n - 1) /\ s.seq \in n..(n + m - 1)
    BY <1>1 DEF Numbered
  <1>3. l \cap new = {}
    BY <1>1, <1>2
  <1>4. IsFiniteSet(g) /\ Cardinality(g) = n + m
    <2>1. IsFiniteSet(l) /\ IsFiniteSet(new)
      BY DEF Numbered
    <2>2. IsFiniteSet(g) /\ Cardinality(g) = n + m - Cardinality(l \cap new)
      BY <2>1, FS_Union
    <2>3. Cardinality(l \cap new) = 0
      BY <1>3, FS_EmptySet
    <2> QED
      BY <1>1, <2>2, <2>3
  <1>5. Numbered(g, 0)
    <2>1. \A r \in g : r.seq \in 0..(0 + (n + m) - 1)
      BY <1>1 DEF Numbered
    <2>2. \A i \in 0..(0 + (n + m) - 1) : \E r \in g : r.seq = i
      BY <1>1 DEF Numbered
    <2>3. \A r, s \in g : r.seq = s.seq \/ r.event = s.event => r = s
      BY <1>1, <1>2 DEF Numbered
    <2> QED
      BY <1>4, <2>1, <2>2, <2>3 DEF Numbered
  <1>6. ASSUME NEW i \in 1..n PROVE LoadLeaves(g)[i] = LoadLeaves(l)[i]
    <2>1. PICK r \in l : r.seq = i - 1
      BY <1>1 DEF Numbered
    <2>2. r \in g /\ r.seq + 1 = i
      BY <1>1, <2>1
    <2> HIDE DEF g
    <2> QED
      BY <1>5, <2>2, LeavesInOrder
  <1> QED
    BY <1>4, <1>5, <1>6
-----------------------------------------------------------------------------
(***************************************************************************)
(* The invariant is preserved.                                             *)
(***************************************************************************)
(* The labels at which the invariant says something of a run.              *)
Busy == Sealing \cup {"stamp-proof", "stamp-moment", "stamp-row", "confirm-moment", "confirm-row"}

LEMMA QuietRun ==
    ASSUME NEW r, r.pc \notin Busy
    PROVE  /\ SealInv(r) /\ StampInv(r) /\ ConfirmInv(r)
           /\ SealInv(r)' /\ StampInv(r)' /\ ConfirmInv(r)'
  BY DEF SealInv, StampInv, ConfirmInv, Busy, Sealing

LEMMA IdleRun ==
    /\ IsRun(Idle) /\ Idle.pc \notin Busy
    /\ \A out : IsRun([Idle EXCEPT !.out = out]) /\ [Idle EXCEPT !.out = out].pc \notin Busy
    /\ \A cmd, now : /\ IsRun([Idle EXCEPT !.pc = cmd, !.now = now])
                     /\ [Idle EXCEPT !.pc = cmd, !.now = now].pc = cmd
  BY DEF IsRun, RunFields, Idle, Busy, Sealing

(* A step that adds events and proofs and leaves the tables alone.         *)
Grows == /\ IsFiniteSet(events') /\ events \subseteq events' /\ proofs \subseteq proofs'
         /\ UNCHANGED <<log, roots, anchors, published>>

LEMMA TablesKeep ==
    ASSUME IInv, Grows
    PROVE  LogInv' /\ RootInv' /\ PublishedInv' /\ AnchorInv'
  <1>1. LogInv'
    BY DEF IInv, LogInv, Grows
  <1>2. RootInv'
    BY DEF IInv, RootInv, Grows, Size
  <1>3. PublishedInv'
    BY DEF IInv, PublishedInv, Grows
  <1>4. RowsTellMoments'
    BY DEF IInv, AnchorInv, RowsTellMoments, Grows
  <1>5. AnchorInv'
    BY <1>4 DEF IInv, AnchorInv, Grows
  <1> QED
    BY <1>1, <1>2, <1>3, <1>5

LEMMA RunsKeep ==
    ASSUME Grows, NEW r
    PROVE  /\ SealInv(r) => SealInv(r)'
           /\ StampInv(r) => StampInv(r)'
           /\ ConfirmInv(r) => ConfirmInv(r)'
  <1>1. SealInv(r) => SealInv(r)'
    BY DEF SealInv, Grows, Size, Lost
  <1>2. StampInv(r) => StampInv(r)'
    BY DEF StampInv, Grows, Tells
  <1>3. ConfirmInv(r) => ConfirmInv(r)'
    BY DEF ConfirmInv, Grows, Tells, Supersedes, Lost
  <1> QED
    BY <1>1, <1>2, <1>3

(* The runs after p has gone to r.                                         *)
LEMMA RunsAfter ==
    ASSUME IInv, NEW p \in Procs, NEW r, run' = [run EXCEPT ![p] = r],
           IsRun(r), SealInv(r)', StampInv(r)', ConfirmInv(r)',
           r.pc \in Sealing => run[p].pc \in Sealing \/ ~SealLocked,
           \A q \in Procs \ {p} : SealInv(run[q])' /\ StampInv(run[q])' /\ ConfirmInv(run[q])'
    PROVE  RunInv'
  <1>1. run = [q \in Procs |-> run[q]] /\ OneSeals /\ \A q \in Procs : IsRun(run[q])
    BY DEF IInv, RunInv
  <1>2. run' = [q \in Procs |-> run'[q]]
    BY <1>1
  <1>3. run'[p] = r /\ \A q \in Procs \ {p} : run'[q] = run[q]
    BY <1>1
  <1>4. OneSeals'
    BY <1>1, <1>3 DEF OneSeals, SealLocked, Sealing
  <1>5. ASSUME NEW q \in Procs
        PROVE  IsRun(run'[q]) /\ SealInv(run[q])' /\ StampInv(run[q])' /\ ConfirmInv(run[q])'
    <2>1. CASE q = p
      <3>1. IsRun(run'[q])
        BY <1>3, <2>1
      <3>2. SealInv(run[q])'
        BY <1>3, <2>1 DEF SealInv
      <3>3. StampInv(run[q])' /\ ConfirmInv(run[q])'
        BY <1>3, <2>1 DEF StampInv, ConfirmInv
      <3> QED
        BY <3>1, <3>2, <3>3
    <2>2. CASE q # p
      BY <1>1, <1>3, <2>2
    <2> QED
      BY <2>1, <2>2
  <1> QED
    BY <1>2, <1>4, <1>5 DEF RunInv

(* A rigid copy carries what holds of a run over a step that leaves it.    *)
LEMMA OthersKeep ==
    ASSUME IInv, NEW q \in Procs, run'[q] = run[q],
           ASSUME NEW r, r = run[q]
           PROVE  SealInv(r)' /\ StampInv(r)' /\ ConfirmInv(r)'
    PROVE  SealInv(run[q])' /\ StampInv(run[q])' /\ ConfirmInv(run[q])'
  <1>1. PICK r : r = run[q]
    OBVIOUS
  <1>2. SealInv(r)' /\ StampInv(r)' /\ ConfirmInv(r)'
    BY <1>1
  <1>3. run'[q] = r
    BY <1>1
  <1> QED
    BY <1>2, <1>3 DEF SealInv, StampInv, ConfirmInv

(* A step of p that at most adds events and proofs.                        *)
LEMMA StepKeeps ==
    ASSUME IInv, Grows, NEW p \in Procs, NEW r, run' = [run EXCEPT ![p] = r],
           IsRun(r), SealInv(r)', StampInv(r)', ConfirmInv(r)',
           r.pc \in Sealing => run[p].pc \in Sealing \/ ~SealLocked
    PROVE  IInv'
  <1>1. ASSUME NEW q \in Procs \ {p}
        PROVE  SealInv(run[q])' /\ StampInv(run[q])' /\ ConfirmInv(run[q])'
    <2>1. run'[q] = run[q]
      BY DEF IInv, RunInv
    <2>2. SealInv(run[q]) /\ StampInv(run[q]) /\ ConfirmInv(run[q])
      BY DEF IInv, RunInv
    <2>3. ASSUME NEW x, x = run[q] PROVE SealInv(x)' /\ StampInv(x)' /\ ConfirmInv(x)'
      <3>1. SealInv(x) /\ StampInv(x) /\ ConfirmInv(x)
        BY <2>2, <2>3
      <3> QED
        BY <3>1, RunsKeep
    <2> QED
      BY <2>1, <2>3, OthersKeep
  <1>2. RunInv'
    BY <1>1, RunsAfter
  <1> QED
    BY <1>2, TablesKeep DEF IInv

(* A step of p alone, to a place where nothing is claimed of it.           *)
LEMMA QuietStep ==
    ASSUME IInv, NEW p \in Procs, NEW r, run' = [run EXCEPT ![p] = r], IsRun(r), r.pc \notin Busy,
           UNCHANGED <<events, log, roots, anchors, proofs, published>>
    PROVE  IInv'
  <1>1. Grows
    BY DEF Grows, IInv, LogInv
  <1>2. r.pc \notin Sealing
    BY DEF Busy
  <1> QED
    BY <1>1, <1>2, QuietRun, StepKeeps

LEMMA EndStep ==
    ASSUME IInv, NEW p \in Procs, End(p),
           UNCHANGED <<events, log, roots, anchors, proofs, published>>
    PROVE  IInv'
  <1>1. PICK r : r = Idle
    OBVIOUS
  <1>2. run' = [run EXCEPT ![p] = r] /\ IsRun(r) /\ r.pc \notin Busy
    BY <1>1, IdleRun DEF End, Goto
  <1> QED
    BY <1>2, QuietStep

(* The rows of publish_root are numbered from the end of the log.          *)
LEMMA NewRowsNumbered ==
    ASSUME IInv, NEW p \in Procs, run[p].next = Size, Unsealed # {}
    PROVE  /\ Numbered(NewRows(p), Size)
           /\ NewRows(p) # {}
           /\ \A s \in NewRows(p) : /\ s.event \in events /\ s.epoch = run[p].height
                                    /\ \A x \in log : x.event # s.event
  <1> DEFINE U == Unsealed
             k == Cardinality(U)
             f == SetToSeq(U)
             n == Size
             g == [i \in 1..k |-> [seq |-> n + i - 1, event |-> f[i], epoch |-> run[p].height]]
             N == NewRows(p)
  <1>1. IsFiniteSet(U) /\ n \in Nat
    <2>1. IsFiniteSet(events) /\ U \in SUBSET events
      BY DEF IInv, LogInv, Unsealed
    <2> HIDE DEF U
    <2>2. IsFiniteSet(U)
      BY <2>1, FS_Subset
    <2>3. IsFiniteSet(log)
      BY DEF IInv, LogInv, Numbered
    <2> QED
      BY <2>2, <2>3, FS_CardinalityType DEF Size
  <1>2. k \in Nat /\ k # 0 /\ f \in [1..k -> U] /\ \A i, j \in 1..k : f[i] = f[j] => i = j
    <2>1. k # 0
      BY <1>1, FS_EmptySet
    <2> QED
      BY <1>1, <2>1, SetToSeqIsList
  <1>3. N = {g[i] : i \in 1..k}
    <2>1. DOMAIN f = 1..k
      BY <1>2
    <2> QED
      BY <2>1 DEF NewRows
  <1> HIDE DEF U, k, f, n, N
  <1>4. \A i \in 1..k : g[i].seq = n + i - 1 /\ g[i].event = f[i] /\ g[i].epoch = run[p].height
    OBVIOUS
  <1> HIDE DEF g
  <1>5. IsFiniteSet(N) /\ Cardinality(N) = k
    <2>1. g \in [1..k -> N]
      <3>1. DOMAIN g = 1..k /\ g = [i \in 1..k |-> g[i]]
        BY DEF g
      <3> QED
        BY <1>3, <3>1
    <2>2. \A i, j \in 1..k : g[i] = g[j] => i = j
      <3> TAKE i, j \in 1..k
      <3>1. g[i] = g[j] => f[i] = f[j]
        BY <1>4
      <3> QED
        BY <1>2, <3>1
    <2>3. g \in Bijection(1..k, N)
      BY <1>3, <2>1, <2>2 DEF Bijection, Injection, Surjection, IsInjective
    <2>4. ExistsBijection(1..k, N)
      BY <2>3 DEF ExistsBijection
    <2>5. IsFiniteSet(1..k) /\ Cardinality(1..k) = k
      BY <1>2, FS_Interval
    <2> QED
      BY <2>4, <2>5, FS_Bijection
  <1>6. \A r \in N : r.seq \in n..(n + k - 1)
    BY <1>1, <1>2, <1>3, <1>4
  <1>7. \A j \in n..(n + k - 1) : \E r \in N : r.seq = j
    <2> TAKE j \in n..(n + k - 1)
    <2>1. j - n + 1 \in 1..k /\ n + (j - n + 1) - 1 = j
      BY <1>1, <1>2
    <2>2. g[j - n + 1].seq = j /\ g[j - n + 1] \in N
      BY <1>3, <1>4, <2>1
    <2> QED
      BY <2>2
  <1>8. \A r, s \in N : r.seq = s.seq \/ r.event = s.event => r = s
    <2> TAKE r, s \in N
    <2>1. PICK i, j \in 1..k : r = g[i] /\ s = g[j]
      BY <1>3
    <2>2. r.seq = s.seq => i = j
      BY <1>1, <1>2, <1>4, <2>1
    <2>3. r.event = s.event => i = j
      BY <1>2, <1>4, <2>1
    <2> QED
      BY <2>1, <2>2, <2>3
  <1>9. N # {}
    <2>1. 1 \in 1..k
      BY <1>2
    <2> QED
      BY <1>3, <2>1
  <1>10. \A s \in N : s.event \in U /\ s.epoch = run[p].height
    BY <1>2, <1>3, <1>4
  <1>11. Numbered(N, n)
    BY <1>5, <1>6, <1>7, <1>8 DEF Numbered
  <1> QED
    BY <1>9, <1>10, <1>11 DEF U, Unsealed, N, n

(* The steps of p alone that lead to a place where nothing is claimed.     *)
LEMMA QuietSteps ==
    ASSUME IInv, NEW p \in Procs,
           \/ \E now \in Ticks : \E cmd \in {"seal", "anchor", "upgrade", "audit"} : Start(p, cmd, now)
           \/ ReadLatest(p, "anchor", "submit") \/ ReadLatest(p, "upgrade", "upgrade-row")
           \/ SubmitDigest(p) \/ LoadAnchor(p) \/ FetchUpgrade(p)
           \/ AuditLeaves(p) \/ AuditRoots(p) \/ Die(p)
    PROVE  IInv'
  <1> DEFINE Same == UNCHANGED <<events, log, roots, anchors, proofs, published>>
  <1>1. IsRun(run[p])
    BY DEF IInv, RunInv
  <1>2. ASSUME NEW r, run' = [run EXCEPT ![p] = r], IsRun(r), r.pc \notin Busy, Same PROVE IInv'
    BY <1>2, QuietStep
  <1>3. ASSUME End(p), Same PROVE IInv'
    BY <1>3, EndStep
  <1>4. ASSUME NEW now \in Ticks, NEW cmd \in {"seal", "anchor", "upgrade", "audit"},
               Start(p, cmd, now)
        PROVE  IInv'
    <2>1. PICK r : r = [Idle EXCEPT !.pc = cmd, !.now = now]
      OBVIOUS
    <2>2. IsRun(r) /\ r.pc \notin Busy
      BY <2>1, IdleRun DEF Busy, Sealing
    <2> QED
      BY <1>2, <1>4, <2>1, <2>2 DEF Start, Goto
  <1>5. ASSUME NEW from, NEW to, to \notin Busy, ReadLatest(p, from, to) PROVE IInv'
    <2>1. PICK r : r = [run[p] EXCEPT !.pc = to, !.root = Height(LatestHeight).root,
                                      !.height = LatestHeight]
      OBVIOUS
    <2>2. IsRun(r) /\ r.pc \notin Busy
      BY <1>1, <1>5, <2>1 DEF IsRun, RunFields
    <2> QED
      BY <1>2, <1>3, <1>5, <2>1, <2>2 DEF ReadLatest, Goto
  <1>6. CASE SubmitDigest(p)
    <2>1. PICK reply \in Replies(stamps + 1) :
             LET proof == from_calendar_reply(Digest(run[p].root), reply) IN
             IF proof = NoProof THEN End(p)
             ELSE Goto(p, [run[p] EXCEPT !.pc = "stamp", !.proof = proof])
      BY <1>6 DEF SubmitDigest
    <2>2. PICK r : r = [run[p] EXCEPT !.pc = "stamp",
                                      !.proof = from_calendar_reply(Digest(run[p].root), reply)]
      OBVIOUS
    <2>3. IsRun(r) /\ r.pc \notin Busy
      BY <1>1, <2>2 DEF IsRun, RunFields, Busy, Sealing
    <2>4. End(p) \/ run' = [run EXCEPT ![p] = r]
      BY <2>1, <2>2 DEF Goto
    <2> QED
      BY <1>2, <1>3, <1>6, <2>3, <2>4 DEF SubmitDigest
  <1>7. CASE LoadAnchor(p)
    <2>1. PICK r : r = [run[p] EXCEPT !.pc = "fetch", !.proof = anchors[run[p].root].blob]
      OBVIOUS
    <2>2. IsRun(r) /\ r.pc \notin Busy
      BY <1>1, <2>1 DEF IsRun, RunFields, Busy, Sealing
    <2> QED
      BY <1>2, <1>3, <1>7, <2>1, <2>2 DEF LoadAnchor, Goto
  <1>8. CASE FetchUpgrade(p)
    <2>1. PICK block : End(p) \/ Goto(p, [run[p] EXCEPT !.pc = "confirm", !.block = block])
      BY <1>8 DEF FetchUpgrade
    <2>2. PICK r : r = [run[p] EXCEPT !.pc = "confirm", !.block = block]
      OBVIOUS
    <2>3. IsRun(r) /\ r.pc \notin Busy
      BY <1>1, <2>2 DEF IsRun, RunFields, Busy, Sealing
    <2> QED
      BY <1>2, <1>3, <1>8, <2>1, <2>2, <2>3 DEF FetchUpgrade, Goto
  <1>9. ASSUME NEW out, Report(p, out), Same PROVE IInv'
    <2>1. PICK r : r = [Idle EXCEPT !.out = out]
      OBVIOUS
    <2> QED
      BY <1>2, <1>9, <2>1, IdleRun DEF Report, Goto
  <1>10. CASE AuditLeaves(p)
    <2>1. PICK r : r = [run[p] EXCEPT !.pc = "audit-roots", !.leaves = LoadLeaves(log)]
      OBVIOUS
    <2>2. IsRun(r) /\ r.pc \notin Busy
      BY <1>1, <2>1 DEF IsRun, RunFields, Busy, Sealing
    <2> QED
      BY <1>2, <1>9, <1>10, <2>1, <2>2 DEF AuditLeaves, Goto
  <1>11. CASE AuditRoots(p)
    <2>1. PICK out : Report(p, out)
      BY <1>11 DEF AuditRoots
    <2> QED
      BY <1>9, <1>11, <2>1 DEF AuditRoots
  <1>12. CASE Die(p)
    BY <1>3, <1>12 DEF Die
  <1> QED
    BY <1>4, <1>5, <1>6, <1>7, <1>8, <1>10, <1>11, <1>12 DEF Busy, Sealing

(* publish_root takes the lock and reads; then it numbers its rows.        *)
LEMMA SealSteps ==
    ASSUME IInv, NEW p \in Procs, BeginSeal(p) \/ InsertRows(p)
    PROVE  IInv'
  <1> DEFINE Same == UNCHANGED <<events, log, roots, anchors, proofs, published>>
  <1>1. IsRun(run[p]) /\ SealInv(run[p])
    BY DEF IInv, RunInv
  <1>2. Same => Grows
    BY DEF Grows, IInv, LogInv
  <1>3. CASE BeginSeal(p) /\ Sealable /\ GapFree(log)
    <2>1. PICK r : r = [run[p] EXCEPT !.pc = "insert", !.height = Len(roots),
                                      !.next = Cardinality(log)]
      OBVIOUS
    <2>2. IsRun(r) /\ r.pc = "insert" /\ r.height = Len(roots) /\ r.next = Size
      BY <1>1, <2>1 DEF IsRun, RunFields, Size
    <2>3. run' = [run EXCEPT ![p] = r] /\ ~SealLocked /\ Same
      BY <1>3, <2>1 DEF BeginSeal, Goto
    <2>4. ~Lost
      BY <1>3 DEF Sealable, Lost
    <2>5. SealInv(r)' /\ StampInv(r)' /\ ConfirmInv(r)'
      BY <2>2, <2>3, <2>4 DEF SealInv, StampInv, ConfirmInv, Sealing, Lost, Size
    <2> QED
      BY <1>2, <2>2, <2>3, <2>5, StepKeeps
  <1>4. CASE BeginSeal(p) /\ ~(Sealable /\ GapFree(log))
    BY <1>4, EndStep DEF BeginSeal
  <1>5. CASE InsertRows(p) /\ Unsealed # {}
    <2>1. PICK r : r = [run[p] EXCEPT !.pc = "seal-commit", !.rows = NewRows(p)]
      OBVIOUS
    <2>2. IsRun(r) /\ r.pc = "seal-commit" /\ r.rows = NewRows(p)
          /\ r.height = run[p].height /\ r.next = run[p].next
      BY <1>1, <2>1 DEF IsRun, RunFields
    <2>3. run' = [run EXCEPT ![p] = r] /\ run[p].pc = "insert" /\ Same
      BY <1>5, <2>1 DEF InsertRows, Goto, At
    <2>4. ~Lost /\ run[p].height = Len(roots) /\ run[p].next = Size
      BY <1>1, <2>3 DEF SealInv, Sealing
    <2>5. /\ Numbered(r.rows, Size) /\ r.rows # {}
          /\ \A s \in r.rows : /\ s.event \in events /\ s.epoch = Len(roots)
                               /\ \A x \in log : x.event # s.event
      BY <1>5, <2>2, <2>4, NewRowsNumbered
    <2>6. SealInv(r)
      BY <2>2, <2>4, <2>5 DEF SealInv, Sealing
    <2>7. SealInv(r)'
      BY <1>2, <2>3, <2>6, RunsKeep
    <2>8. StampInv(r)' /\ ConfirmInv(r)'
      BY <2>2 DEF StampInv, ConfirmInv
    <2>9. run[p].pc \in Sealing
      BY <2>3 DEF Sealing
    <2> QED
      BY <1>2, <2>2, <2>3, <2>7, <2>8, <2>9, StepKeeps
  <1>6. CASE InsertRows(p) /\ Unsealed = {}
    BY <1>6, EndStep DEF InsertRows
  <1> QED
    BY <1>3, <1>4, <1>5, <1>6

(* Another program's event.                                                *)
LEMMA AppendEventKeeps ==
    ASSUME IInv, NEW u \in Users, AppendEvent(u)
    PROVE  IInv'
  <1>1. Grows
    BY FS_AddElement DEF AppendEvent, Grows, IInv, LogInv
  <1>2. ASSUME NEW q \in Procs PROVE SealInv(run[q])' /\ StampInv(run[q])' /\ ConfirmInv(run[q])'
    <2>1. SealInv(run[q]) /\ StampInv(run[q]) /\ ConfirmInv(run[q]) /\ run'[q] = run[q]
      BY DEF IInv, RunInv, AppendEvent
    <2>2. ASSUME NEW x, x = run[q] PROVE SealInv(x)' /\ StampInv(x)' /\ ConfirmInv(x)'
      <3>1. SealInv(x) /\ StampInv(x) /\ ConfirmInv(x)
        BY <2>1, <2>2
      <3> QED
        BY <1>1, <3>1, RunsKeep
    <2> QED
      BY <2>1, <2>2, OthersKeep
  <1>3. RunInv'
    <2>1. run' = run
      BY DEF AppendEvent
    <2>2. run' = [p \in Procs |-> run'[p]] /\ (\A p \in Procs : IsRun(run'[p])) /\ OneSeals'
      BY <2>1 DEF IInv, RunInv, OneSeals
    <2> QED
      BY <1>2, <2>2 DEF RunInv
  <1> QED
    BY <1>1, <1>3, TablesKeep DEF IInv

(* The moment of a root, and the first three steps of record_stamp.        *)
LEMMA StampSteps ==
    ASSUME IInv, NEW p \in Procs,
           RecordRootMoment(p) \/ CheckStamp(p) \/ StoreProof(p) \/ CommitStamp(p)
    PROVE  IInv'
  <1>1. IsRun(run[p]) /\ StampInv(run[p]) /\ IsFiniteSet(events)
    BY DEF IInv, RunInv, LogInv
  <1>2. ASSUME NEW r, run' = [run EXCEPT ![p] = r], IsRun(r), r.pc \notin Sealing, Grows,
               SealInv(r)', StampInv(r)', ConfirmInv(r)'
        PROVE  IInv'
    BY <1>2, StepKeeps
  <1>3. CASE RecordRootMoment(p)
    <2>1. PICK m : /\ events' = events \cup {m}
                   /\ Goto(p, [run[p] EXCEPT !.pc = "record-row", !.row = m])
                   /\ UNCHANGED <<log, roots, anchors, proofs, stamps, started, published>>
      BY <1>3 DEF RecordRootMoment
    <2>2. PICK r : r = [run[p] EXCEPT !.pc = "record-row", !.row = m]
      OBVIOUS
    <2>3. IsRun(r) /\ r.pc \notin Busy /\ r.pc \notin Sealing
      BY <1>1, <2>2 DEF IsRun, RunFields, Busy, Sealing
    <2>4. Grows
      BY <1>1, <2>1, FS_AddElement DEF Grows
    <2> QED
      BY <1>2, <2>1, <2>2, <2>3, <2>4, QuietRun DEF Goto
  <1>4. CASE CheckStamp(p)
    <2> DEFINE may == /\ commits_to(run[p].proof, Digest(run[p].root))
                      /\ Row(run[p].root) # 0 /\ run[p].root \notin DOMAIN anchors
    <2>1. CASE may
      <3>1. PICK r : r = [run[p] EXCEPT !.pc = "stamp-proof"]
        OBVIOUS
      <3>2. IsRun(r) /\ r.pc = "stamp-proof" /\ r.proof = run[p].proof /\ r.root = run[p].root
        BY <1>1, <3>1 DEF IsRun, RunFields
      <3>3. run' = [run EXCEPT ![p] = r] /\ Grows
        BY <1>1, <1>4, <2>1, <3>1 DEF CheckStamp, Goto, Grows
      <3>4. commits_to(r.proof, Digest(r.root))
        BY <2>1, <3>2
      <3>5. SealInv(r)' /\ StampInv(r)' /\ ConfirmInv(r)' /\ r.pc \notin Sealing
        BY <3>2, <3>4 DEF SealInv, StampInv, ConfirmInv, Sealing
      <3> QED
        BY <1>2, <3>2, <3>3, <3>5
    <2>2. CASE ~may
      BY <1>4, <2>2, EndStep DEF CheckStamp
    <2> QED
      BY <2>1, <2>2
  <1>5. CASE StoreProof(p)
    <2>1. PICK r : r = [run[p] EXCEPT !.pc = "stamp-moment"]
      OBVIOUS
    <2>2. IsRun(r) /\ r.pc = "stamp-moment" /\ r.proof = run[p].proof /\ r.root = run[p].root
      BY <1>1, <2>1 DEF IsRun, RunFields
    <2>3. /\ run' = [run EXCEPT ![p] = r] /\ run[p].pc = "stamp-proof"
          /\ proofs' = proofs \cup {r.proof} /\ Grows
      BY <1>1, <1>5, <2>1, <2>2 DEF StoreProof, Goto, Grows, At
    <2>4. commits_to(r.proof, Digest(r.root))
      BY <1>1, <2>2, <2>3 DEF StampInv
    <2>5. SealInv(r)' /\ StampInv(r)' /\ ConfirmInv(r)' /\ r.pc \notin Sealing
      BY <2>2, <2>3, <2>4 DEF SealInv, StampInv, ConfirmInv, Sealing
    <2> QED
      BY <1>2, <2>2, <2>3, <2>5
  <1>6. CASE CommitStamp(p)
    <2>1. PICK m : m = AnchorMoment(run[p].root, run[p].height, "pending", run[p].proof, -1, NoRow,
                                    run[p].now)
      OBVIOUS
    <2>2. m.root = run[p].root /\ m.status = "pending" /\ m.blob = run[p].proof /\ m.block = -1
      BY <2>1 DEF AnchorMoment
    <2>3. PICK r : r = [run[p] EXCEPT !.pc = "stamp-row", !.row = m]
      OBVIOUS
    <2>4. /\ IsRun(r) /\ r.pc = "stamp-row" /\ r.row = m
          /\ r.proof = run[p].proof /\ r.root = run[p].root
      BY <1>1, <2>3 DEF IsRun, RunFields
    <2>5. /\ run' = [run EXCEPT ![p] = r] /\ run[p].pc = "stamp-moment"
          /\ events' = events \cup {m}
          /\ UNCHANGED <<log, roots, anchors, proofs, published>>
      BY <1>6, <2>1, <2>3 DEF CommitStamp, Goto, At
    <2>6. Grows
      BY <1>1, <2>5, FS_AddElement DEF Grows
    <2>7. commits_to(r.proof, Digest(r.root)) /\ r.proof \in proofs'
      BY <1>1, <2>4, <2>5 DEF StampInv
    <2>8. Tells(r.row, r.root, "pending", r.proof, -1)'
      BY <2>2, <2>4, <2>5 DEF Tells
    <2>9. SealInv(r)' /\ StampInv(r)' /\ ConfirmInv(r)' /\ r.pc \notin Sealing
      BY <2>4, <2>7, <2>8 DEF SealInv, StampInv, ConfirmInv, Sealing
    <2> QED
      BY <1>2, <2>4, <2>5, <2>6, <2>9
  <1> QED
    BY <1>3, <1>4, <1>5, <1>6

(* The first two steps of confirm_anchor.                                  *)
LEMMA ConfirmSteps ==
    ASSUME IInv, NEW p \in Procs, CheckConfirm(p) \/ CommitConfirm(p)
    PROVE  IInv'
  <1>1. IsRun(run[p]) /\ ConfirmInv(run[p]) /\ IsFiniteSet(events) /\ RowsTellMoments
    BY DEF IInv, RunInv, LogInv, AnchorInv
  <1>2. ASSUME NEW r, run' = [run EXCEPT ![p] = r], IsRun(r), r.pc \notin Sealing, Grows,
               SealInv(r)', StampInv(r)', ConfirmInv(r)'
        PROVE  IInv'
    BY <1>2, StepKeeps
  <1>3. CASE CheckConfirm(p)
    <2> DEFINE may == /\ Row(run[p].root) # 0 /\ run[p].root \in DOMAIN anchors
                      /\ anchors[run[p].root].status = "pending"
    <2>1. CASE may
      <3>1. PICK r : r = [run[p] EXCEPT !.pc = "confirm-moment",
                                        !.proof = anchors[run[p].root].blob,
                                        !.row = anchors[run[p].root].moment]
        OBVIOUS
      <3>2. /\ IsRun(r) /\ r.pc = "confirm-moment" /\ r.root = run[p].root
            /\ r.proof = anchors[run[p].root].blob /\ r.row = anchors[run[p].root].moment
        BY <1>1, <3>1 DEF IsRun, RunFields
      <3>3. run' = [run EXCEPT ![p] = r] /\ Grows
        BY <1>1, <1>3, <2>1, <3>1 DEF CheckConfirm, Goto, Grows
      <3>4. Supersedes(r.row, r.proof)
        BY <1>1, <2>1, <3>2 DEF RowsTellMoments, Supersedes
      <3>5. ConfirmInv(r)
        BY <2>1, <3>2, <3>4 DEF ConfirmInv
      <3>6. ConfirmInv(r)'
        BY <3>3, <3>5, RunsKeep
      <3>7. SealInv(r)' /\ StampInv(r)' /\ r.pc \notin Sealing
        BY <3>2 DEF SealInv, StampInv, Sealing
      <3> QED
        BY <1>2, <3>2, <3>3, <3>6, <3>7
    <2>2. CASE ~may
      BY <1>3, <2>2, EndStep DEF CheckConfirm
    <2> QED
      BY <2>1, <2>2
  <1>4. CASE CommitConfirm(p)
    <2>1. PICK m : m = AnchorMoment(run[p].root, run[p].height, "confirmed", run[p].proof,
                                    run[p].block, run[p].row, run[p].now)
      OBVIOUS
    <2>2. /\ m.root = run[p].root /\ m.status = "confirmed" /\ m.blob = run[p].proof
          /\ m.block = run[p].block /\ m.supersedes = run[p].row
      BY <2>1 DEF AnchorMoment
    <2>3. PICK r : r = [run[p] EXCEPT !.pc = "confirm-row", !.row = m]
      OBVIOUS
    <2>4. /\ IsRun(r) /\ r.pc = "confirm-row" /\ r.row = m
          /\ r.proof = run[p].proof /\ r.root = run[p].root /\ r.block = run[p].block
      BY <1>1, <2>3 DEF IsRun, RunFields
    <2>5. /\ run' = [run EXCEPT ![p] = r] /\ run[p].pc = "confirm-moment"
          /\ events' = events \cup {m}
          /\ UNCHANGED <<log, roots, anchors, proofs, published>>
      BY <1>4, <2>1, <2>3 DEF CommitConfirm, Goto, At
    <2>6. Grows
      BY <1>1, <2>5, FS_AddElement DEF Grows
    <2>7. Tells(r.row, r.root, "confirmed", r.proof, r.block)'
      BY <2>2, <2>4, <2>5 DEF Tells
    <2>8. Supersedes(r.row.supersedes, r.proof)'
      BY <1>1, <2>2, <2>4, <2>5 DEF Supersedes, ConfirmInv
    <2>9. /\ r.root \in DOMAIN anchors' => anchors'[r.root].blob = r.proof
          /\ r.root \notin DOMAIN anchors' => Lost'
      BY <1>1, <2>4, <2>5 DEF ConfirmInv, Lost
    <2>10. SealInv(r)' /\ StampInv(r)' /\ ConfirmInv(r)' /\ r.pc \notin Sealing
      BY <2>4, <2>7, <2>8, <2>9 DEF SealInv, StampInv, ConfirmInv, Sealing
    <2> QED
      BY <1>2, <2>4, <2>5, <2>6, <2>10
  <1> QED
    BY <1>3, <1>4
-----------------------------------------------------------------------------
(* The table of roots and the anchors are lost, and with them every claim  *)
(* about them.                                                             *)
LEMMA LoseRootsKeeps ==
    ASSUME IInv, LoseRoots
    PROVE  IInv'
  <1>1. /\ roots' = <<>> /\ anchors' = <<>> /\ run' = run /\ log' = log
        /\ UNCHANGED <<events, proofs, published>>
        /\ \A p \in Procs : run[p].pc \notin Sealing
        /\ roots # <<>>
    BY DEF LoseRoots, Sealing
  <1>2. log # {}
    <2>1. Len(roots) \in 1..Len(roots)
      BY <1>1, SeqShape DEF IInv, RootInv, IsSeq
    <2>2. Size # 0
      BY <2>1 DEF IInv, RootInv
    <2> QED
      BY <2>2, FS_EmptySet DEF Size
  <1>3. LogInv'
    BY <1>1 DEF IInv, LogInv
  <1>4. IsSeq(<<>>) /\ Len(<<>>) = 0 /\ DOMAIN <<>> = {}
    BY EmptySeq DEF IsSeq
  <1>5. RootInv'
    BY <1>1, <1>4 DEF RootInv
  <1>6. PublishedInv'
    BY <1>1, <1>2 DEF IInv, PublishedInv
  <1>7. AnchorInv'
    <2>1. DOMAIN anchors' = {}
      BY <1>1, <1>4
    <2>2. anchors' = [r \in DOMAIN anchors' |-> anchors'[r]]
      BY <1>1, <2>1
    <2> QED
      BY <2>1, <2>2 DEF AnchorInv, RowsTellMoments
  <1>8. ASSUME NEW q \in Procs PROVE SealInv(run[q])' /\ StampInv(run[q])' /\ ConfirmInv(run[q])'
    <2>1. SealInv(run[q])'
      BY <1>1 DEF SealInv, Sealing
    <2>2. StampInv(run[q])'
      BY <1>1 DEF IInv, RunInv, StampInv, Tells
    <2>3. Lost' /\ DOMAIN anchors' = {}
      BY <1>1, <1>2, <1>4 DEF Lost
    <2>4. ConfirmInv(run[q])'
      BY <1>1, <2>3 DEF IInv, RunInv, ConfirmInv, Tells, Supersedes
    <2> QED
      BY <2>1, <2>2, <2>4
  <1>9. RunInv'
    <2>1. run' = [p \in Procs |-> run'[p]] /\ (\A p \in Procs : IsRun(run'[p])) /\ OneSeals'
      BY <1>1 DEF IInv, RunInv, OneSeals
    <2> QED
      BY <1>8, <2>1 DEF RunInv
  <1> QED
    BY <1>3, <1>5, <1>6, <1>7, <1>9 DEF IInv

(* What the commit of publish_root does, and that its constraints hold.    *)
LEMMA PublishAppends ==
    ASSUME IInv, NEW p \in Procs, PublishRoot(p)
    PROVE  /\ ~Lost
           /\ Numbered(log', 0) /\ Cardinality(log') \in Nat /\ Cardinality(log') > Size
           /\ log \subseteq log' /\ \A r \in log' : r.event \in events
           /\ \A i \in 1..Size : LoadLeaves(log')[i] = LoadLeaves(log)[i]
           /\ \E new : /\ roots' = Append(roots, new)
                       /\ published' = Append(published, [root |-> new.root, size |-> new.size])
                       /\ IsRoot(new)
                       /\ new.size = Cardinality(log') /\ new.root = merkle_root(LoadLeaves(log'))
                       /\ roots # <<>> => new.prev = roots[Len(roots)].root
                       /\ run' = [run EXCEPT ![p] = [run[p] EXCEPT !.pc = "record",
                                    !.root = new.root, !.row = new, !.rows = {}]]
           /\ \A s \in log' \ log : s.epoch = Len(roots) /\ s.seq \in Size..(Cardinality(log') - 1)
           /\ UNCHANGED <<events, anchors, proofs>>
  <1>1. run[p].pc = "seal-commit"
    BY DEF PublishRoot, At
  <1>2. /\ ~Lost /\ run[p].height = Len(roots)
        /\ Numbered(run[p].rows, Size) /\ run[p].rows # {}
        /\ \A s \in run[p].rows : /\ s.event \in events /\ s.epoch = Len(roots)
                                  /\ \A x \in log : x.event # s.event
    BY <1>1 DEF IInv, RunInv, SealInv, Sealing
  <1>3. Numbered(log, 0) /\ Size \in Nat /\ \A r \in log : r.event \in events
    BY FS_CardinalityType DEF IInv, LogInv, Size, Numbered
  <1>4. Cardinality(run[p].rows) \in Nat /\ Cardinality(run[p].rows) # 0
    BY <1>2, FS_CardinalityType, FS_EmptySet DEF Numbered
  <1>5. ~Clashes(p)
    <2>1. \A r \in log, s \in run[p].rows : r.seq < s.seq
      BY <1>2, <1>3, <1>4 DEF Numbered, Size
    <2>2. \A r \in log, s \in run[p].rows : r.seq \in Nat /\ s.seq \in Nat
      BY <1>2, <1>3, <1>4 DEF Numbered, Size
    <2>3. \A r \in log, s \in run[p].rows : r.seq # s.seq
      BY <2>1, <2>2
    <2> QED
      BY <1>2, <2>3 DEF Clashes
  <1> DEFINE grown == log \cup run[p].rows
             leaves == LoadLeaves(grown)
  <1>6. /\ Numbered(grown, 0) /\ Cardinality(grown) = Size + Cardinality(run[p].rows)
        /\ \A i \in 1..Size : LoadLeaves(grown)[i] = LoadLeaves(log)[i]
    <2>1. /\ Numbered(log, 0) /\ Numbered(run[p].rows, Cardinality(log))
          /\ \A r \in log, s \in run[p].rows : r.event # s.event
      BY <1>2, <1>3 DEF Size
    <2> QED
      BY <2>1, LogGrows DEF Size
  <1>7. Len(leaves) = Cardinality(grown)
    BY <1>6, LeavesInOrder
  <1>8. PICK new :
          /\ new = [root |-> merkle_root(leaves), size |-> Len(leaves), moment |-> NoRow,
                    prev |-> IF run[p].height = 0 THEN EmptyTree
                             ELSE Height(run[p].height - 1).root,
                    path |-> IF run[p].height = 0 THEN Refused
                             ELSE prove_consistency(leaves, Height(run[p].height - 1).size)]
          /\ log' = grown /\ roots' = Append(roots, new)
          /\ published' = Append(published, [root |-> new.root, size |-> new.size])
          /\ run' = [run EXCEPT ![p] = [run[p] EXCEPT !.pc = "record", !.root = new.root,
                                                      !.row = new, !.rows = {}]]
    BY <1>5 DEF PublishRoot, Goto
  <1>9. roots # <<>> => new.prev = roots[Len(roots)].root
    <2>1. SUFFICES ASSUME roots # <<>> PROVE new.prev = roots[Len(roots)].root
      OBVIOUS
    <2>2. Len(roots) \in Nat /\ Len(roots) # 0
      BY <2>1, SeqShape DEF IInv, RootInv, IsSeq
    <2>3. run[p].height # 0 /\ (run[p].height - 1) + 1 = Len(roots)
      BY <1>2, <2>2
    <2> QED
      BY <1>8, <2>3 DEF Height
  <1>10. IsRoot(new) /\ new.size = Len(leaves) /\ new.root = merkle_root(leaves)
    BY <1>8 DEF IsRoot
  <1>11. UNCHANGED <<events, anchors, proofs>>
    BY DEF PublishRoot
  <1>12. \A s \in grown \ log : s.epoch = Len(roots) /\ s.seq \in Size..(Cardinality(grown) - 1)
    BY <1>2, <1>3, <1>4, <1>6 DEF Numbered
  <1>13. Cardinality(grown) \in Nat /\ Cardinality(grown) > Size
    BY <1>3, <1>4, <1>6
  <1>14. \A r \in grown : r.event \in events
    BY <1>2, <1>3
  <1>15. log' = grown /\ log \subseteq grown
    BY <1>8
  <1>16. \E x : /\ roots' = Append(roots, x)
                /\ published' = Append(published, [root |-> x.root, size |-> x.size])
                /\ IsRoot(x)
                /\ x.size = Cardinality(grown) /\ x.root = merkle_root(leaves)
                /\ roots # <<>> => x.prev = roots[Len(roots)].root
                /\ run' = [run EXCEPT ![p] = [run[p] EXCEPT !.pc = "record",
                             !.root = x.root, !.row = x, !.rows = {}]]
    BY <1>7, <1>8, <1>9, <1>10
  <1> HIDE DEF grown
  <1> QED
    BY <1>2, <1>6, <1>11, <1>12, <1>13, <1>14, <1>15, <1>16

LEMMA PublishRootKeeps ==
    ASSUME IInv, NEW p \in Procs, PublishRoot(p)
    PROVE  IInv'
  <1> DEFINE n == Len(roots)
  <1>1. PICK new :
          /\ roots' = Append(roots, new)
          /\ published' = Append(published, [root |-> new.root, size |-> new.size])
          /\ IsRoot(new)
          /\ new.size = Cardinality(log') /\ new.root = merkle_root(LoadLeaves(log'))
          /\ run' = [run EXCEPT ![p] = [run[p] EXCEPT !.pc = "record", !.root = new.root,
                                                      !.row = new, !.rows = {}]]
    BY PublishAppends
  <1>2. /\ ~Lost
        /\ Numbered(log', 0) /\ Size' \in Nat /\ Size' > Size /\ Size \in Nat
        /\ log \subseteq log' /\ (\A r \in log' : r.event \in events)
        /\ (\A i \in 1..Size : LoadLeaves(log')[i] = LoadLeaves(log)[i])
        /\ (\A s \in log' \ log : s.epoch = n /\ s.seq \in Size..(Size' - 1))
        /\ UNCHANGED <<events, anchors, proofs>>
    BY PublishAppends, FS_CardinalityType DEF Size, IInv, LogInv, Numbered
  <1>3. IsSeq(roots) /\ n \in Nat
    BY DEF IInv, RootInv, IsSeq
  <1>4. /\ IsSeq(roots') /\ Len(roots') = n + 1 /\ roots'[n + 1] = new /\ roots' # <<>>
        /\ \A h \in 1..n : roots'[h] = roots[h]
    BY <1>1, <1>3, AppendShape
  <1>5. LogInv'
    BY <1>2 DEF LogInv, IInv
  <1>6. \A h \in 1..n : /\ IsRoot(roots[h]) /\ roots[h].size \in 1..Size
                        /\ roots[h].root = merkle_root(SubSeq(LoadLeaves(log), 1, roots[h].size))
    BY DEF IInv, RootInv
  <1>7. ASSUME NEW h \in 1..(n + 1)
        PROVE  /\ IsRoot(roots'[h])
               /\ roots'[h].size \in 1..Size'
               /\ roots'[h].root = merkle_root(SubSeq(LoadLeaves(log'), 1, roots'[h].size))
    <2>1. CASE h \in 1..n
      <3>1. PICK k : k = roots[h].size
        OBVIOUS
      <3>2. k \in Nat /\ k \in 1..Size
        BY <1>2, <1>6, <2>1, <3>1
      <3>3. \A i \in 1..k : LoadLeaves(log')[i] = LoadLeaves(log)[i]
        BY <1>2, <3>2
      <3>4. SubSeq(LoadLeaves(log'), 1, k) = SubSeq(LoadLeaves(log), 1, k)
        BY <3>2, <3>3, SamePrefix
      <3>5. roots'[h] = roots[h] /\ k \in 1..Size'
        BY <1>2, <1>4, <2>1, <3>2
      <3>6. IsRoot(roots[h]) /\ roots[h].root = merkle_root(SubSeq(LoadLeaves(log), 1, k))
        BY <1>6, <2>1, <3>1
      <3> QED
        BY <3>1, <3>4, <3>5, <3>6
    <2>2. CASE h = n + 1
      <3>1. IsSeq(LoadLeaves(log')) /\ Len(LoadLeaves(log')) = Size'
        BY <1>2, LeavesInOrder DEF Size
      <3>2. SubSeq(LoadLeaves(log'), 1, Size') = LoadLeaves(log')
        BY <3>1, WholePrefix
      <3>3. new.size = Size'
        BY <1>1 DEF Size
      <3>4. Size' \in 1..Size'
        BY <1>2
      <3> QED
        BY <1>1, <1>4, <2>2, <3>2, <3>3, <3>4
    <2> QED
      BY <1>3, <2>1, <2>2
  <1>8. \A h, i \in 1..(n + 1) : h < i => roots'[h].size < roots'[i].size
    <2> TAKE h, i \in 1..(n + 1)
    <2>1. SUFFICES ASSUME h < i PROVE roots'[h].size < roots'[i].size
      OBVIOUS
    <2>2. h \in 1..n /\ roots'[h] = roots[h] /\ roots[h].size \in 1..Size
      BY <1>3, <1>4, <1>6, <2>1
    <2>3. CASE i \in 1..n
      BY <1>4, <2>1, <2>2, <2>3 DEF IInv, RootInv
    <2>4. CASE i = n + 1
      <3>1. roots'[i].size = Size'
        BY <1>1, <1>4, <2>4 DEF Size
      <3> QED
        BY <1>2, <2>2, <3>1
    <2> QED
      BY <1>3, <2>3, <2>4
  <1>9. roots'[n + 1].size = Size'
    BY <1>1, <1>4 DEF Size
  <1>10. n > 0 => roots[n].size = Size
    BY <1>3, SeqShape DEF IInv, RootInv
  <1>11. ASSUME NEW r \in log'
         PROVE  /\ r.epoch \in 0..n
                /\ r.seq < roots'[r.epoch + 1].size
                /\ r.epoch > 0 => roots'[r.epoch].size <= r.seq
    <2>1. CASE r \in log
      <3>1. n > 0
        BY <1>2, <1>3, <2>1, SeqShape DEF Lost
      <3>2. /\ r.epoch \in 0..(n - 1) /\ r.seq < roots[r.epoch + 1].size
            /\ r.epoch > 0 => roots[r.epoch].size <= r.seq
        BY <1>3, <2>1, <3>1, SeqShape DEF IInv, RootInv
      <3>3. /\ roots'[r.epoch + 1] = roots[r.epoch + 1]
            /\ r.epoch > 0 => roots'[r.epoch] = roots[r.epoch]
        BY <1>3, <1>4, <3>2
      <3> QED
        BY <1>3, <3>2, <3>3
    <2>2. CASE r \in log' \ log
      <3>1. r.epoch = n /\ r.seq \in Size..(Size' - 1)
        BY <1>2, <2>2
      <3>2. n > 0 => roots'[n] = roots[n]
        BY <1>3, <1>4
      <3> QED
        BY <1>2, <1>3, <1>9, <1>10, <3>1, <3>2
    <2> QED
      BY <2>1, <2>2
  <1>12. RootInv'
    <2>1. (Len(roots') - 1) = n
      BY <1>3, <1>4
    <2> QED
      BY <1>4, <1>7, <1>8, <1>9, <1>11, <2>1 DEF RootInv
  <1>13. PublishedInv'
    <2>1. IsSeq(published) /\ (published # <<>> => log # {})
      BY DEF IInv, PublishedInv
    <2>2. Len(published) = n /\ \A h \in 1..n : published[h] = [root |-> roots[h].root,
                                                               size |-> roots[h].size]
      <3>1. CASE roots # <<>>
        BY <3>1 DEF IInv, PublishedInv
      <3>2. CASE roots = <<>>
        <4>1. log = {} /\ published = <<>>
          BY <1>2, <2>1, <3>2 DEF Lost
        <4> QED
          BY <1>3, <2>1, <3>2, <4>1, SeqShape
      <3> QED
        BY <3>1, <3>2
    <2>3. PICK x : x = [root |-> new.root, size |-> new.size]
      OBVIOUS
    <2>4. /\ IsSeq(published') /\ Len(published') = n + 1 /\ published'[n + 1] = x
          /\ \A h \in 1..n : published'[h] = published[h]
      BY <1>1, <2>1, <2>2, <2>3, AppendShape
    <2>5. \A h \in 1..(n + 1) : published'[h] = [root |-> roots'[h].root, size |-> roots'[h].size]
      <3> TAKE h \in 1..(n + 1)
      <3>1. CASE h \in 1..n
        BY <1>4, <2>2, <2>4, <3>1
      <3>2. CASE h = n + 1
        BY <1>4, <2>3, <2>4, <3>2
      <3> QED
        BY <1>3, <3>1, <3>2
    <2>6. log' # {}
      <3>1. Cardinality(log') # 0
        BY <1>2 DEF Size
      <3> QED
        BY <3>1, FS_EmptySet
    <2> QED
      BY <1>4, <2>4, <2>5, <2>6 DEF PublishedInv
  <1>14. AnchorInv'
    <2>1. RowsTellMoments'
      BY <1>2 DEF IInv, AnchorInv, RowsTellMoments
    <2>2. \A r \in DOMAIN anchors' : \E h \in 1..(n + 1) : roots'[h].root = r
      BY <1>2, <1>3, <1>4 DEF IInv, AnchorInv
    <2> QED
      BY <1>2, <1>4, <2>1, <2>2 DEF IInv, AnchorInv
  <1>15. RunInv'
    <2>1. PICK r : r = [run[p] EXCEPT !.pc = "record", !.root = new.root, !.row = new, !.rows = {}]
      OBVIOUS
    <2>2. IsRun(run[p])
      BY DEF IInv, RunInv
    <2>3. IsRun(r) /\ r.pc \notin Busy /\ r.pc \notin Sealing
      BY <2>1, <2>2 DEF IsRun, RunFields, Busy, Sealing
    <2>4. run' = [run EXCEPT ![p] = r]
      BY <1>1, <2>1
    <2>5. run[p].pc \in Sealing
      BY DEF PublishRoot, At, Sealing
    <2>6. ASSUME NEW q \in Procs \ {p}
          PROVE  SealInv(run[q])' /\ StampInv(run[q])' /\ ConfirmInv(run[q])'
      <3>1. run'[q] = run[q] /\ run[q].pc \notin Sealing
        BY <2>4, <2>5 DEF IInv, RunInv, OneSeals
      <3>2. StampInv(run[q]) /\ ConfirmInv(run[q])
        BY DEF IInv, RunInv
      <3>3. SealInv(run[q])'
        BY <3>1 DEF SealInv, Sealing
      <3>4. StampInv(run[q])'
        BY <1>2, <3>1, <3>2 DEF StampInv, Tells
      <3>5. ConfirmInv(run[q])'
        BY <1>2, <3>1, <3>2 DEF ConfirmInv, Tells, Supersedes
      <3> QED
        BY <3>3, <3>4, <3>5
    <2> QED
      BY <2>3, <2>4, <2>6, QuietRun, RunsAfter
  <1> QED
    BY <1>5, <1>12, <1>13, <1>14, <1>15 DEF IInv

(* record_root_moment names the moment in the row of the root.             *)
LEMMA RecordRowKeeps ==
    ASSUME IInv, NEW p \in Procs, RecordRow(p)
    PROVE  IInv'
  <1> DEFINE n == Len(roots)
  <1>1. /\ End(p) /\ UNCHANGED <<events, log, anchors, proofs, published>>
        /\ roots' = [h \in DOMAIN roots |->
                       IF roots[h].root = run[p].root
                       THEN [roots[h] EXCEPT !.moment = run[p].row] ELSE roots[h]]
    BY DEF RecordRow
  <1>2. IsSeq(roots) /\ n \in Nat /\ DOMAIN roots = 1..n
    BY SeqShape DEF IInv, RootInv, IsSeq
  <1>3. IsSeq(roots') /\ Len(roots') = n
    <2>1. PICK S : S = {roots'[h] : h \in 1..n}
      OBVIOUS
    <2>2. roots' \in [1..n -> S]
      BY <1>1, <1>2, <2>1
    <2>3. roots' \in Seq(S) /\ Len(roots') = n
      BY <1>2, <2>2
    <2> QED
      BY <2>3, SeqIsSeq
  <1>4. ASSUME NEW h \in 1..n
        PROVE  IsRoot(roots'[h]) /\ roots'[h].root = roots[h].root /\ roots'[h].size = roots[h].size
    <2>1. IsRoot(roots[h])
      BY DEF IInv, RootInv
    <2> QED
      BY <1>1, <1>2, <2>1 DEF IsRoot
  <1>5. (roots' = <<>>) <=> (roots = <<>>)
    BY <1>2, <1>3, SeqShape
  <1>6. LogInv' /\ Size' = Size
    BY <1>1 DEF IInv, LogInv, Size
  <1>7. RootInv'
    <2>1. ASSUME NEW h \in 1..n
          PROVE  /\ roots'[h].size \in 1..Size
                 /\ roots'[h].root = merkle_root(SubSeq(LoadLeaves(log), 1, roots'[h].size))
      BY <1>4 DEF IInv, RootInv
    <2>2. \A h, i \in 1..n : h < i => roots'[h].size < roots'[i].size
      BY <1>4 DEF IInv, RootInv
    <2>3. roots # <<>> => roots'[n].size = Size
      <3>1. roots # <<>> => n \in 1..n
        BY <1>2, SeqShape
      <3> QED
        BY <1>4, <3>1 DEF IInv, RootInv
    <2>4. roots # <<>> => \A r \in log : /\ r.epoch \in 0..(n - 1)
                                         /\ r.seq < roots'[r.epoch + 1].size
                                         /\ r.epoch > 0 => roots'[r.epoch].size <= r.seq
      <3>1. SUFFICES ASSUME roots # <<>>, NEW r \in log
                     PROVE  /\ r.epoch \in 0..(n - 1)
                            /\ r.seq < roots'[r.epoch + 1].size
                            /\ r.epoch > 0 => roots'[r.epoch].size <= r.seq
        OBVIOUS
      <3>2. /\ r.epoch \in 0..(n - 1) /\ r.seq < roots[r.epoch + 1].size
            /\ r.epoch > 0 => roots[r.epoch].size <= r.seq
        BY <3>1 DEF IInv, RootInv
      <3>3. r.epoch + 1 \in 1..n /\ (r.epoch > 0 => r.epoch \in 1..n)
        BY <1>2, <3>2
      <3> QED
        BY <1>4, <3>2, <3>3
    <2>5. log' = log
      BY <1>1
    <2> HIDE DEF n
    <2> QED
      BY <1>3, <1>4, <1>5, <1>6, <2>1, <2>2, <2>3, <2>4, <2>5 DEF RootInv
  <1>8. PublishedInv'
    <2>1. ASSUME roots # <<>>, NEW h \in 1..n
          PROVE  published[h] = [root |-> roots'[h].root, size |-> roots'[h].size]
      <3>1. published[h] = [root |-> roots[h].root, size |-> roots[h].size]
        BY <2>1 DEF IInv, PublishedInv
      <3> QED
        BY <1>4, <3>1
    <2> QED
      BY <1>1, <1>3, <1>5, <2>1 DEF IInv, PublishedInv
  <1>9. AnchorInv'
    <2>1. RowsTellMoments'
      BY <1>1 DEF IInv, AnchorInv, RowsTellMoments
    <2>2. \A r \in DOMAIN anchors : \E h \in 1..n : roots'[h].root = r
      BY <1>4 DEF IInv, AnchorInv
    <2> QED
      BY <1>1, <1>3, <2>1, <2>2 DEF IInv, AnchorInv
  <1>10. Lost' <=> Lost
    BY <1>1, <1>5 DEF Lost
  <1>11. PICK r : r = Idle
    OBVIOUS
  <1>12. run' = [run EXCEPT ![p] = r] /\ IsRun(r) /\ r.pc \notin Busy /\ r.pc \notin Sealing
    BY <1>1, <1>11, IdleRun DEF End, Goto, Busy
  <1>13. ASSUME NEW q \in Procs \ {p}
         PROVE  SealInv(run[q])' /\ StampInv(run[q])' /\ ConfirmInv(run[q])'
    <2>1. run'[q] = run[q] /\ SealInv(run[q]) /\ StampInv(run[q]) /\ ConfirmInv(run[q])
      BY <1>12 DEF IInv, RunInv
    <2>2. SealInv(run[q])'
      BY <1>1, <1>3, <1>6, <1>10, <2>1 DEF SealInv
    <2>3. StampInv(run[q])'
      BY <1>1, <2>1 DEF StampInv, Tells
    <2>4. ConfirmInv(run[q])'
      BY <1>1, <1>10, <2>1 DEF ConfirmInv, Tells, Supersedes
    <2> QED
      BY <2>2, <2>3, <2>4
  <1>14. RunInv'
    BY <1>12, <1>13, QuietRun, RunsAfter
  <1> QED
    BY <1>6, <1>7, <1>8, <1>9, <1>14 DEF IInv

(* A step that ends a run and changes the anchors, keeping the proof of    *)
(* every row there is and losing none.                                     *)
LEMMA AnchorStep ==
    ASSUME IInv, NEW p \in Procs, End(p), UNCHANGED <<events, log, roots, proofs, published>>,
           \A r \in DOMAIN anchors : r \in DOMAIN anchors' /\ anchors'[r].blob = anchors[r].blob,
           \A r \in DOMAIN anchors' : r \notin DOMAIN anchors => ~Lost,
           AnchorInv'
    PROVE  IInv'
  <1>1. LogInv'
    BY DEF IInv, LogInv
  <1>2. RootInv'
    BY DEF IInv, RootInv, Size
  <1>3. PublishedInv'
    BY DEF IInv, PublishedInv
  <1>4. PICK r : r = Idle
    OBVIOUS
  <1>5. run' = [run EXCEPT ![p] = r] /\ IsRun(r) /\ r.pc \notin Busy /\ r.pc \notin Sealing
    BY <1>4, IdleRun DEF End, Goto, Busy
  <1>6. ASSUME NEW q \in Procs \ {p}
        PROVE  SealInv(run[q])' /\ StampInv(run[q])' /\ ConfirmInv(run[q])'
    <2>1. run'[q] = run[q] /\ SealInv(run[q]) /\ StampInv(run[q]) /\ ConfirmInv(run[q])
      BY <1>5 DEF IInv, RunInv
    <2>2. SealInv(run[q])'
      BY <2>1 DEF SealInv, Size, Lost
    <2>3. StampInv(run[q])'
      BY <2>1 DEF StampInv, Tells
    <2>4. ConfirmInv(run[q])'
      BY <2>1 DEF ConfirmInv, Tells, Supersedes, Lost
    <2> QED
      BY <2>2, <2>3, <2>4
  <1>7. RunInv'
    BY <1>5, <1>6, QuietRun, RunsAfter
  <1> QED
    BY <1>1, <1>2, <1>3, <1>7 DEF IInv

LEMMA InsertAnchorKeeps ==
    ASSUME IInv, NEW p \in Procs, InsertAnchor(p)
    PROVE  IInv'
  <1>1. End(p) /\ UNCHANGED <<events, log, roots, proofs, published>> /\ run[p].pc = "stamp-row"
    BY DEF InsertAnchor, At
  <1>2. CASE ~MayInsert(run[p].root)
    BY <1>1, <1>2, EndStep DEF InsertAnchor
  <1>3. CASE MayInsert(run[p].root)
    <2>1. PICK root, a : /\ root = run[p].root
                         /\ a = [status |-> "pending", blob |-> run[p].proof, block |-> -1,
                                 moment |-> run[p].row]
      OBVIOUS
    <2>2. anchors' = Put(anchors, root, a)
      BY <1>3, <2>1 DEF InsertAnchor
    <2>3. root \notin DOMAIN anchors /\ \E h \in DOMAIN roots : roots[h].root = root
      BY <1>3, <2>1 DEF MayInsert, Row
    <2>4. DOMAIN roots = 1..Len(roots) /\ ~Lost
      <3>1. DOMAIN roots = 1..Len(roots) /\ (roots = <<>> => Len(roots) = 0)
        BY SeqShape DEF IInv, RootInv
      <3> QED
        BY <2>3, <3>1 DEF Lost
    <2>5. /\ DOMAIN anchors' = DOMAIN anchors \cup {root}
          /\ anchors'[root] = a /\ \A r \in DOMAIN anchors : anchors'[r] = anchors[r]
          /\ anchors' = [r \in DOMAIN anchors' |-> anchors'[r]]
      BY <2>2, <2>3 DEF Put
    <2>6. /\ commits_to(a.blob, Digest(root)) /\ a.blob \in proofs
          /\ Tells(a.moment, root, "pending", a.blob, -1)
          /\ IsAnchor(a) /\ a.status = "pending" /\ a.block = -1
      BY <1>1, <2>1 DEF IInv, RunInv, StampInv, IsAnchor
    <2>7. RowsTellMoments'
      <3>1. RowsTellMoments
        BY DEF IInv, AnchorInv
      <3> QED
        BY <1>1, <2>5, <2>6, <3>1 DEF RowsTellMoments, Tells
    <2>8. \A r \in DOMAIN anchors' : IsAnchor(anchors'[r]) /\ \E h \in 1..Len(roots) : roots[h].root = r
      BY <2>3, <2>4, <2>5, <2>6 DEF IInv, AnchorInv
    <2>9. AnchorInv'
      BY <1>1, <2>5, <2>7, <2>8 DEF AnchorInv
    <2> QED
      BY <1>1, <2>4, <2>5, <2>9, AnchorStep
  <1> QED
    BY <1>2, <1>3

LEMMA UpdateAnchorKeeps ==
    ASSUME IInv, NEW p \in Procs, UpdateAnchor(p)
    PROVE  IInv'
  <1>1. End(p) /\ UNCHANGED <<events, log, roots, proofs, published>> /\ run[p].pc = "confirm-row"
    BY DEF UpdateAnchor, At
  <1>2. PICK root, block, m : root = run[p].root /\ block = run[p].block /\ m = run[p].row
    OBVIOUS
  <1>3. anchors' = [r \in DOMAIN anchors |->
                      IF r = root THEN [anchors[r] EXCEPT !.status = "confirmed", !.block = block,
                                                          !.moment = m]
                      ELSE anchors[r]]
    BY <1>2 DEF UpdateAnchor
  <1>4. root \in DOMAIN anchors =>
          /\ Tells(m, root, "confirmed", anchors[root].blob, block)
          /\ Supersedes(m.supersedes, anchors[root].blob)
    BY <1>1, <1>2 DEF IInv, RunInv, ConfirmInv
  <1>5. /\ DOMAIN anchors' = DOMAIN anchors
        /\ anchors' = [r \in DOMAIN anchors' |-> anchors'[r]]
        /\ \A r \in DOMAIN anchors : r # root => anchors'[r] = anchors[r]
    BY <1>3
  <1>6. root \in DOMAIN anchors =>
          /\ IsAnchor(anchors'[root]) /\ anchors'[root].status = "confirmed"
          /\ anchors'[root].block = block /\ anchors'[root].moment = m
          /\ anchors'[root].blob = anchors[root].blob
    <2>1. root \in DOMAIN anchors => IsAnchor(anchors[root])
      BY DEF IInv, AnchorInv
    <2> QED
      BY <1>3, <2>1 DEF IsAnchor
  <1>7. RowsTellMoments'
    <2>1. RowsTellMoments
      BY DEF IInv, AnchorInv
    <2> QED
      BY <1>1, <1>4, <1>5, <1>6, <2>1 DEF RowsTellMoments, Tells, Supersedes
  <1>8. AnchorInv'
    <2>1. \A r \in DOMAIN anchors' : IsAnchor(anchors'[r]) /\ \E h \in 1..Len(roots) : roots[h].root = r
      BY <1>5, <1>6 DEF IInv, AnchorInv
    <2> QED
      BY <1>1, <1>5, <1>7, <2>1 DEF AnchorInv
  <1> QED
    BY <1>1, <1>5, <1>6, <1>8, AnchorStep
-----------------------------------------------------------------------------
LEMMA InitHolds ==
    ASSUME Init
    PROVE  IInv
  <1>1. IsSeq(<<>>) /\ Len(<<>>) = 0 /\ DOMAIN <<>> = {}
    BY EmptySeq DEF IsSeq
  <1>2. LogInv
    <2>1. IsFiniteSet({}) /\ Cardinality({}) = 0
      BY FS_EmptySet
    <2> QED
      BY <2>1 DEF Init, LogInv, Numbered
  <1>3. RootInv /\ PublishedInv
    BY <1>1 DEF Init, RootInv, PublishedInv
  <1>4. AnchorInv
    BY <1>1 DEF Init, AnchorInv, RowsTellMoments
  <1>5. \A p \in Procs : run[p] = Idle
    BY DEF Init
  <1>6. ASSUME NEW p \in Procs
        PROVE  IsRun(run[p]) /\ SealInv(run[p]) /\ StampInv(run[p]) /\ ConfirmInv(run[p])
               /\ run[p].pc \notin Sealing
    <2>1. IsRun(run[p]) /\ run[p].pc \notin Busy
      BY <1>5, IdleRun
    <2> QED
      BY <2>1 DEF SealInv, StampInv, ConfirmInv, Busy, Sealing
  <1>7. RunInv
    BY <1>6 DEF Init, RunInv, OneSeals
  <1> QED
    BY <1>2, <1>3, <1>4, <1>7 DEF IInv

LEMMA NextKeeps ==
    ASSUME IInv, [Next]_vars
    PROVE  IInv'
  <1>1. CASE UNCHANGED vars
    <2>1. LogInv'
      BY <1>1 DEF IInv, LogInv, vars
    <2>2. RootInv'
      BY <1>1 DEF IInv, RootInv, Size, vars
    <2>3. PublishedInv'
      BY <1>1 DEF IInv, PublishedInv, vars
    <2>4. AnchorInv'
      BY <1>1 DEF IInv, AnchorInv, RowsTellMoments, vars
    <2>5. RunInv'
      BY <1>1 DEF IInv, RunInv, OneSeals, SealInv, StampInv, ConfirmInv, Tells, Supersedes, Lost,
         Size, vars
    <2> QED
      BY <2>1, <2>2, <2>3, <2>4, <2>5 DEF IInv
  <1>2. ASSUME NEW u \in Users, AppendEvent(u) PROVE IInv'
    BY <1>2, AppendEventKeeps
  <1>3. CASE LoseRoots
    BY <1>3, LoseRootsKeeps
  <1>4. ASSUME NEW p \in Procs, NEW now \in Ticks,
               NEW cmd \in {"seal", "anchor", "upgrade", "audit"}, Start(p, cmd, now)
        PROVE  IInv'
    BY <1>4, QuietSteps
  <1>5. ASSUME NEW p \in Procs,
               \/ ReadLatest(p, "anchor", "submit") \/ ReadLatest(p, "upgrade", "upgrade-row")
               \/ SubmitDigest(p) \/ LoadAnchor(p) \/ FetchUpgrade(p)
               \/ AuditLeaves(p) \/ AuditRoots(p) \/ Die(p)
        PROVE  IInv'
    BY <1>5, QuietSteps
  <1>6. ASSUME NEW p \in Procs, BeginSeal(p) \/ InsertRows(p) PROVE IInv'
    BY <1>6, SealSteps
  <1>7. ASSUME NEW p \in Procs, PublishRoot(p) PROVE IInv'
    BY <1>7, PublishRootKeeps
  <1>8. ASSUME NEW p \in Procs,
               RecordRootMoment(p) \/ CheckStamp(p) \/ StoreProof(p) \/ CommitStamp(p)
        PROVE  IInv'
    BY <1>8, StampSteps
  <1>9. ASSUME NEW p \in Procs, RecordRow(p) PROVE IInv'
    BY <1>9, RecordRowKeeps
  <1>10. ASSUME NEW p \in Procs, InsertAnchor(p) PROVE IInv'
    BY <1>10, InsertAnchorKeeps
  <1>11. ASSUME NEW p \in Procs, CheckConfirm(p) \/ CommitConfirm(p) PROVE IInv'
    BY <1>11, ConfirmSteps
  <1>12. ASSUME NEW p \in Procs, UpdateAnchor(p) PROVE IInv'
    BY <1>12, UpdateAnchorKeeps
  <1> QED
    BY <1>1, <1>2, <1>3, <1>4, <1>5, <1>6, <1>7, <1>8, <1>9, <1>10, <1>11, <1>12 DEF Next

(* What the tables of cc-anchor hold, and what every run has read of them  *)
(* and done so far, holds at every step of every run.                      *)
THEOREM Invariance == Spec => []IInv
  BY InitHolds, NextKeeps, PTL DEF Spec

(* store.rs, verify_root_chain and prove_event: however seals overlap, die *)
(* or meet late events, the log has no gap, every root is the root of a    *)
(* prefix of it, and an event is found under the root of its epoch.        *)
THEOREM RootsAlwaysRecompute == Spec => []RootsRecompute
  <1>1. ASSUME IInv PROVE RootsRecompute
    <2> DEFINE n == Len(roots)
               leaves == LoadLeaves(log)
    <2>1. Numbered(log, 0) /\ Size \in Nat
      BY <1>1, FS_CardinalityType DEF IInv, LogInv, Numbered, Size
    <2>2. GapFree(log) /\ Len(leaves) = Size /\ \A r \in log : leaves[r.seq + 1] = leaf_hash(r.event)
      BY <2>1, LeavesInOrder DEF Size
    <2>3. n \in Nat /\ (roots # <<>> <=> n # 0)
      BY <1>1, SeqShape DEF IInv, RootInv, IsSeq
    <2> HIDE DEF leaves
    <2>4. VerifyRootChain(leaves) # "mismatch"
      <3>1. ASSUME NEW h \in 0..LatestHeight
            PROVE  /\ ~(Height(h).size > Len(leaves))
                   /\ merkle_root(SubSeq(leaves, 1, Height(h).size)) = Height(h).root
        <4>1. h + 1 \in 1..n /\ Height(h) = roots[h + 1]
          BY <2>3 DEF LatestHeight, Height
        <4>2. /\ roots[h + 1].size \in 1..Size
              /\ roots[h + 1].root = merkle_root(SubSeq(leaves, 1, roots[h + 1].size))
          BY <1>1, <4>1 DEF IInv, RootInv, leaves
        <4> QED
          BY <2>1, <2>2, <4>1, <4>2
      <3> QED
        BY <3>1 DEF VerifyRootChain
    <2>5. ASSUME roots # <<>>, NEW r \in log
          PROVE  /\ ProveEvent(r.event).leaf = leaf_hash(r.event)
                 /\ ProveEvent(r.event).height = r.epoch
                 /\ ProveEvent(r.event).root = Height(r.epoch).root
      <3>1. (CHOOSE x \in log : x.event = r.event) = r
        BY <2>1 DEF Numbered
      <3>2. /\ r.epoch \in 0..(n - 1) /\ r.seq < roots[r.epoch + 1].size
            /\ r.epoch > 0 => roots[r.epoch].size <= r.seq
        BY <1>1, <2>5 DEF IInv, RootInv
      <3>3. r.seq \in 0..(Size - 1)
        BY <2>1 DEF Numbered, Size
      <3>4. \A h \in 1..n : roots[h].size \in 1..Size
        BY <1>1 DEF IInv, RootInv
      <3>5. \A h, i \in 1..n : h < i => roots[h].size < roots[i].size
        BY <1>1 DEF IInv, RootInv
      <3>6. r.epoch \in Covering(r.seq)
        BY <2>1, <2>3, <3>2, <3>3, <3>4 DEF Covering, LatestHeight, Height
      <3>7. ASSUME NEW h \in Covering(r.seq) PROVE h \in 0..(n - 1) /\ r.epoch <= h
        <4>1. h \in 0..(n - 1) /\ roots[h + 1].size > r.seq
          BY <2>3, <3>7 DEF Covering, LatestHeight, Height
        <4>2. SUFFICES ASSUME h < r.epoch PROVE FALSE
          BY <3>2, <4>1
        <4>3. r.epoch \in 1..n /\ h + 1 \in 1..n /\ (h + 1 = r.epoch \/ h + 1 < r.epoch)
          <5>1. PICK e : e = r.epoch
            OBVIOUS
          <5>2. e \in 0..(n - 1) /\ h \in 0..(n - 1) /\ h < e
            BY <3>2, <4>1, <4>2, <5>1
          <5>3. e \in 1..n /\ h + 1 \in 1..n /\ (h + 1 = e \/ h + 1 < e)
            BY <2>3, <5>2
          <5> QED
            BY <5>1, <5>3
        <4>4. roots[h + 1].size <= roots[r.epoch].size
          BY <2>1, <3>4, <3>5, <4>3
        <4> QED
          BY <2>1, <3>2, <3>3, <3>4, <4>1, <4>2, <4>3, <4>4
      <3>8. (CHOOSE h \in Covering(r.seq) : \A i \in Covering(r.seq) : h <= i) = r.epoch
        BY <2>3, <3>2, <3>6, <3>7
      <3>9. PICK k : k = roots[r.epoch + 1].size
        OBVIOUS
      <3>10. k \in 1..Size /\ r.seq + 1 \in 1..k
        <4>1. r.epoch + 1 \in 1..n
          BY <2>3, <3>2
        <4>2. k \in 1..Size /\ r.seq < k
          BY <3>2, <3>4, <3>9, <4>1
        <4> QED
          BY <2>1, <3>3, <4>2
      <3>11. SubSeq(leaves, 1, k)[r.seq + 1] = leaves[r.seq + 1]
        <4>1. PICK S : S = {leaves[i] : i \in 1..k}
          OBVIOUS
        <4>2. k \in Int /\ 1 \in Int /\ \A i \in 1..k : leaves[i] \in S
          BY <2>1, <3>10, <4>1
        <4>3. \A i \in 1..(k - 1 + 1) : SubSeq(leaves, 1, k)[i] = leaves[1 + i - 1]
          BY <4>2, SubSeqProperties
        <4>4. r.seq + 1 \in 1..(k - 1 + 1) /\ 1 + (r.seq + 1) - 1 = r.seq + 1
          BY <2>1, <3>3, <3>10
        <4> QED
          BY <4>3, <4>4
      <3>12. ProveEvent(r.event) = [leaf |-> SubSeq(leaves, 1, k)[r.seq + 1],
                                    root |-> Height(r.epoch).root, height |-> r.epoch,
                                    proof |-> prove_inclusion(SubSeq(leaves, 1, k), r.seq)]
        BY <3>1, <3>6, <3>8, <3>9 DEF ProveEvent, leaves, Height
      <3>13. SubSeq(leaves, 1, k)[r.seq + 1] = leaf_hash(r.event)
        BY <2>2, <3>11
      <3>14. PICK inc, l, rt, pf : /\ inc = ProveEvent(r.event) /\ l = leaf_hash(r.event)
                                   /\ rt = Height(r.epoch).root
                                   /\ pf = prove_inclusion(SubSeq(leaves, 1, k), r.seq)
        OBVIOUS
      <3>15. inc = [leaf |-> l, root |-> rt, height |-> r.epoch, proof |-> pf]
        BY <3>12, <3>13, <3>14
      <3>16. inc.leaf = l /\ inc.height = r.epoch /\ inc.root = rt
        BY <3>15
      <3> QED
        BY <3>14, <3>16
    <2> QED
      BY <2>2, <2>4, <2>5 DEF RootsRecompute, leaves
  <1> QED
    BY <1>1, Invariance, PTL

(* publish_root, RootStreamLost: a root that is published follows the last *)
(* one that ever was, even when the table of roots was lost in between.    *)
THEOREM StreamAlwaysContinues == Spec => StreamContinues
  <1> DEFINE Continues ==
               published' # published /\ published # <<>> =>
                 LET last == published[Len(published)]
                     h == Len(roots') - 1
                 IN  /\ h > 0 /\ roots'[h].root = last.root /\ roots'[h].size = last.size
                     /\ roots'[h + 1].prev = last.root /\ roots'[h + 1].size > last.size
  <1>1. ASSUME IInv, [Next]_vars, published' # published, published # <<>> PROVE Continues
    <2>1. PICK p \in Procs : PublishRoot(p)
      BY <1>1 DEF Next, vars, AppendEvent, LoseRoots, Start, BeginSeal, InsertRows,
         RecordRootMoment, RecordRow, ReadLatest, SubmitDigest, CheckStamp, StoreProof, CommitStamp,
         InsertAnchor, LoadAnchor, FetchUpgrade, CheckConfirm, CommitConfirm, UpdateAnchor,
         AuditLeaves, AuditRoots, Die
    <2>2. PICK new : /\ roots' = Append(roots, new) /\ new.size = Cardinality(log')
                     /\ roots # <<>> => new.prev = roots[Len(roots)].root
      BY <1>1, <2>1, PublishAppends
    <2>3. ~Lost /\ Cardinality(log') > Size
      BY <1>1, <2>1, PublishAppends
    <2>4. roots # <<>> /\ IsSeq(roots) /\ Len(roots) \in Nat /\ Len(roots) # 0
      BY <1>1, <2>3, SeqShape DEF IInv, PublishedInv, RootInv, Lost, IsSeq
    <2>5. /\ Len(published) = Len(roots) /\ roots[Len(roots)].size = Size
          /\ published[Len(roots)] = [root |-> roots[Len(roots)].root,
                                      size |-> roots[Len(roots)].size]
      BY <1>1, <2>4 DEF IInv, PublishedInv, RootInv
    <2>6. /\ Len(roots') = Len(roots) + 1 /\ roots'[Len(roots) + 1] = new
          /\ roots'[Len(roots)] = roots[Len(roots)]
      BY <2>2, <2>4, AppendShape
    <2>7. Len(roots') - 1 = Len(roots) /\ Len(roots) > 0
      BY <2>4, <2>6
    <2> QED
      BY <2>2, <2>3, <2>4, <2>5, <2>6, <2>7
  <1>2. IInv /\ [Next]_vars => [Continues]_vars
    BY <1>1
  <1> QED
    BY <1>2, Invariance, PTL DEF Spec, StreamContinues

(* store.rs, the anchors table as "the collapsed view" of signed moments:  *)
(* a row names a committed moment that says what it says, and a stored     *)
(* proof of its root, however stamps and confirmations race and die.       *)
THEOREM RowsAlwaysTellMoments == Spec => []RowsTellMoments
  <1>1. IInv => RowsTellMoments
    BY DEF IInv, AnchorInv
  <1> QED
    BY <1>1, Invariance, PTL

(* record_stamp and confirm_anchor never replace the proof of a root nor   *)
(* take its settlement back.                                               *)
THEOREM EvidenceAlwaysStays == Spec => EvidenceStays
  <1> DEFINE Stays == \A r \in DOMAIN anchors \intersect DOMAIN anchors' :
                        /\ anchors'[r].blob = anchors[r].blob
                        /\ anchors[r].status = "confirmed" => anchors'[r].status = "confirmed"
  <1>1. ASSUME IInv, [Next]_vars PROVE Stays
    <2>1. ASSUME NEW p \in Procs, InsertAnchor(p) PROVE Stays
      BY <2>1 DEF InsertAnchor, MayInsert, Put
    <2>2. ASSUME NEW p \in Procs, UpdateAnchor(p) PROVE Stays
      <3>1. \A r \in DOMAIN anchors : IsAnchor(anchors[r])
        BY <1>1 DEF IInv, AnchorInv
      <3>2. PICK root, block, m :
               anchors' = [r \in DOMAIN anchors |->
                             IF r = root THEN [anchors[r] EXCEPT !.status = "confirmed",
                                                          !.block = block, !.moment = m]
                             ELSE anchors[r]]
        BY <2>2 DEF UpdateAnchor
      <3>3. ASSUME NEW r \in DOMAIN anchors
            PROVE  /\ anchors'[r].blob = anchors[r].blob
                   /\ anchors[r].status = "confirmed" => anchors'[r].status = "confirmed"
        BY <3>1, <3>2 DEF IsAnchor
      <3> QED
        BY <3>3
    <2>3. CASE LoseRoots
      <3>1. DOMAIN anchors' = {}
        BY <2>3, EmptySeq DEF LoseRoots
      <3> QED
        BY <3>1
    <2>4. CASE UNCHANGED anchors
      BY <2>4
    <2> QED
      BY <1>1, <2>1, <2>2, <2>3, <2>4 DEF Next, vars, AppendEvent, Start, BeginSeal, InsertRows,
         PublishRoot, RecordRootMoment, RecordRow, ReadLatest, SubmitDigest, CheckStamp, StoreProof,
         CommitStamp, LoadAnchor, FetchUpgrade, CheckConfirm, CommitConfirm, AuditLeaves,
         AuditRoots, Die
  <1>2. IInv /\ [Next]_vars => [Stays]_vars
    BY <1>1
  <1> QED
    BY <1>2, Invariance, PTL DEF Spec, EvidenceStays

(* store.rs: the roots agree with the log and the anchor rows with the     *)
(* signed moments, for any number of overlapping runs.                     *)
THEOREM AnchorsAreAlwaysSound == Spec => []AnchorsAreSound
  BY RootsAlwaysRecompute, RowsAlwaysTellMoments, PTL DEF AnchorsAreSound

(* store.rs: no step of any run takes back a published root, nor the proof *)
(* or the settlement of an anchored one.                                   *)
THEOREM EvidenceIsAlwaysKept == Spec => EvidenceIsKept
  BY StreamAlwaysContinues, EvidenceAlwaysStays DEF EvidenceIsKept
=============================================================================
