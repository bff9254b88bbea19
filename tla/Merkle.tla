------------------------------- MODULE Merkle -------------------------------
(***************************************************************************)
(* The accumulator of cc-anchor (merkle.rs): RFC 6962 trees over the leaf  *)
(* commitments of the commitment log, inclusion and consistency proofs,    *)
(* and the verifiers an outside auditor runs.  SHA-256 is injective: a     *)
(* hash is the term it is the hash of, and the two domain prefixes are the *)
(* two shapes of term.                                                     *)
(***************************************************************************)
EXTENDS Integers, Sequences, SequencesExt

leaf_hash(id) == <<"leaf", id>>
node_hash(l, r) == <<"node", l, r>>
EmptyTree == <<"empty">>

(* The largest power of two strictly below n, for n > 1. *)
split_point(n) == CHOOSE k \in {2^i : i \in 0..30} : k < n /\ n <= 2 * k

(* Lines [lo, hi) of the leaves, as mth sees its slices. *)
Slice(leaves, lo, hi) ==
    LET mth[a \in 0..hi, b \in 0..hi] ==
            IF b - a = 1 THEN leaves[a + 1]
            ELSE LET k == split_point(b - a)
                 IN  node_hash(mth[a, a + k], mth[a + k, b])
    IN  IF lo = hi THEN EmptyTree ELSE mth[lo, hi]

mth(leaves) == Slice(leaves, 0, Len(leaves))
merkle_root(leaves) == mth(leaves)

(* PATH: sibling hashes, leaf-ward first. *)
audit_path(leaves, m) ==
    LET path[a \in 0..Len(leaves), b \in 0..Len(leaves)] ==
            IF b - a <= 1 THEN <<>>
            ELSE LET k == a + split_point(b - a)
                 IN  IF m < k THEN Append(path[a, k], Slice(leaves, k, b))
                     ELSE Append(path[k, b], Slice(leaves, a, k))
    IN  path[0, Len(leaves)]

Refused == [refused |-> TRUE]
IsProof(p) == p # Refused

prove_inclusion(leaves, index) ==
    IF index >= Len(leaves) THEN Refused
    ELSE [refused |-> FALSE, index |-> index, size |-> Len(leaves),
          path |-> audit_path(leaves, index)]

(* while f is even and not zero, f and s are halved together. *)
Strip(f, s) ==
    LET z == CHOOSE i \in 0..31 : f % 2^i = 0 /\ (f \div 2^i) % 2 = 1
    IN  IF f = 0 THEN <<f, s>> ELSE <<f \div 2^z, s \div 2^z>>

(* What one hash of a path does to the two node numbers. *)
Climb(f, s) ==
    LET t == IF f = s /\ f % 2 = 0 THEN Strip(f, s) ELSE <<f, s>>
    IN  <<t[1] \div 2, t[2] \div 2>>

(* Mutant: the last node of a ragged row is taken for a left child. *)
OnLeft_Odd(f, s) == f % 2 = 1
OnLeft(f, s) == f % 2 = 1 \/ f = s

VerifyInclusion(p, leaf, root) ==
    LET step(c, w) ==
            LET t == Climb(w.f, w.s) IN
            [f |-> t[1], s |-> t[2], ok |-> w.ok /\ w.s # 0,
             r |-> IF OnLeft(w.f, w.s) THEN node_hash(c, w.r) ELSE node_hash(w.r, c)]
        end == FoldLeft(LAMBDA w, c : step(c, w),
                        [f |-> p.index, s |-> p.size - 1, ok |-> TRUE, r |-> leaf],
                        p.path)
    IN  p.index < p.size /\ end.ok /\ end.s = 0 /\ end.r = root

(* SUBPROOF(m, D[a..b), whole): whole says that the old tree is still whole
   in this subtree, and so its root need not be handed over.               *)
subproof(leaves, m) ==
    LET sub[a \in 0..Len(leaves), b \in 0..Len(leaves), whole \in BOOLEAN] ==
            LET k == a + split_point(b - a) IN
            CASE m = b -> IF whole THEN <<>> ELSE <<Slice(leaves, a, b)>>
              [] m # b /\ m <= k -> Append(sub[a, k, whole], Slice(leaves, k, b))
              [] m # b /\ m > k -> Append(sub[k, b, FALSE], Slice(leaves, a, k))
    IN  sub[0, Len(leaves), TRUE]

prove_consistency(leaves, old) ==
    IF old = 0 \/ old > Len(leaves) THEN Refused
    ELSE [refused |-> FALSE, old |-> old, new |-> Len(leaves),
          path |-> subproof(leaves, old)]

IsPowerOfTwo(n) == \E i \in 0..30 : n = 2^i

(* while f is odd, f and s are halved together. *)
StripOnes(f, s) ==
    LET z == CHOOSE i \in 0..31 : (f \div 2^i) % 2 = 0
                                  /\ \A j \in 0..(i - 1) : (f \div 2^j) % 2 = 1
    IN  <<f \div 2^z, s \div 2^z>>

VerifyConsistency(p, oldRoot, newRoot) ==
    LET nodes == (IF IsPowerOfTwo(p.old) THEN <<oldRoot>> ELSE <<>>) \o p.path
        start == StripOnes(p.old - 1, p.new - 1)
        step(c, w) ==
            LET t == Climb(w.f, w.s) IN
            [f |-> t[1], s |-> t[2], ok |-> w.ok /\ w.s # 0,
             fr |-> IF OnLeft(w.f, w.s) THEN node_hash(c, w.fr) ELSE w.fr,
             sr |-> IF OnLeft(w.f, w.s) THEN node_hash(c, w.sr) ELSE node_hash(w.sr, c)]
        end == FoldLeft(LAMBDA w, c : step(c, w),
                        [f |-> start[1], s |-> start[2], ok |-> TRUE,
                         fr |-> nodes[1], sr |-> nodes[1]],
                        Tail(nodes))
    IN  /\ p.old <= p.new /\ p.old # 0
        /\ IF p.old = p.new THEN p.path = <<>> /\ oldRoot = newRoot
           ELSE nodes # <<>> /\ end.ok /\ end.s = 0
                /\ end.fr = oldRoot /\ end.sr = newRoot

-----------------------------------------------------------------------------
(* A path of m leaves, the first of which are those of another tree. *)
Leaves(n) == [i \in 1..n |-> leaf_hash(i)]
Rewritten(n, at) == [Leaves(n) EXCEPT ![at] = leaf_hash(0)]

(***************************************************************************)
(* An audit path proves one leaf at one index: in a tree of n leaves the   *)
(* path of leaf i is accepted with leaf l at index j exactly when both are *)
(* the i-th, and against no root of a tree in which that leaf, or any      *)
(* other, was rewritten.                                                   *)
(***************************************************************************)
InclusionIsExact(n, i) ==
    LET p == prove_inclusion(Leaves(n), i)
        accepts(j, leaf, root) == VerifyInclusion([p EXCEPT !.index = j], leaf, root)
    IN  \A j, l \in 0..(n - 1) :
           /\ accepts(j, Leaves(n)[l + 1], mth(Leaves(n))) <=> (j = i /\ l = i)
           /\ ~accepts(j, Leaves(n)[l + 1], mth(Rewritten(n, l + 1)))

(***************************************************************************)
(* A consistency proof cut from a log convinces exactly the mirrors that   *)
(* hold a root of a prefix of it: a mirror whose old root covers a leaf    *)
(* that the new log has rewritten, or a new root that is not this log's,   *)
(* is refused.                                                             *)
(***************************************************************************)
ConsistencyIsExact(m, n) ==
    LET p == prove_consistency(Leaves(n), m)
        old(at) == IF at = 0 THEN mth(Leaves(m)) ELSE mth(Rewritten(m, at))
        new(at) == IF at = 0 THEN mth(Leaves(n)) ELSE mth(Rewritten(n, at))
    IN  /\ VerifyConsistency(p, old(0), new(0))
        /\ \A at \in 1..m : ~VerifyConsistency(p, old(at), new(0))
        /\ \A at \in 1..n : ~VerifyConsistency(p, old(0), new(at))
        /\ \A at \in 1..m : LET q == prove_consistency(Rewritten(n, at), m)
                            IN  /\ ~VerifyConsistency(q, old(0), new(at))
                                /\ VerifyConsistency(q, old(at), new(at))
=============================================================================
