--------------------------------- MODULE Ots ---------------------------------
(***************************************************************************)
(* OpenTimestamps proofs as cc-anchor reads them (ots.rs).  A stream is a  *)
(* sequence of tokens: an attestation (0x00), a continuation (0xff) or an  *)
(* operation.  A message is a sequence of bytes; SHA-256 is injective, so  *)
(* a digest is one symbol that names what was hashed.  The recursive walk  *)
(* is a stack of running messages, one per open branch.                    *)
(***************************************************************************)
EXTENDS Integers, FiniteSets, Sequences, SequencesExt

Att(a) == [t |-> "att", v |-> a]
Cont == [t |-> "cont", v |-> "none"]
Op(o) == [t |-> "op", v |-> o]
Pending(uri) == [k |-> "pending", n |-> uri]
Bitcoin(height) == [k |-> "bitcoin", n |-> height]
Unknown == [k |-> "unknown", n |-> 0]
BadAttestation == [k |-> "bad", n |-> 0]

Byte(b) == <<"byte", b>>
Supported == {"append", "prepend", "sha256", "reverse", "hexlify"}
Hexlify(m) == [i \in 1..(2 * Len(m)) |-> <<IF i % 2 = 1 THEN "hi" ELSE "lo", m[(i + 1) \div 2]>>]

(* One operation on the running message; the argument is Byte(0). *)
apply(o, m) == CASE o = "append" -> Append(m, Byte(0))
                 [] o = "prepend" -> <<Byte(0)>> \o m
                 [] o = "sha256" -> <<<<"sha256", m>>>>
                 [] o = "reverse" -> Reverse(m)
                 [] o = "hexlify" -> Hexlify(m)

(* A continuation's operation opens a branch; a last one goes on inline. *)
Branch(stack, m) == <<m>> \o stack

(* One token of walk: the top of the stack is the message of the node that
   is being read, `cont` says that a continuation tag came just before.     *)
WalkToken(w, tok) ==
    IF w.bad \/ w.stack = <<>> THEN [w EXCEPT !.bad = TRUE]
    ELSE CASE tok.t = "cont" -> [w EXCEPT !.cont = TRUE, !.bad = w.cont]
           [] tok.t = "att" ->
                [w EXCEPT !.out = Append(@, [attestation |-> tok.v, message |-> Head(w.stack)]),
                          !.bad = tok.v = BadAttestation,
                          !.cont = FALSE,
                          !.stack = IF w.cont THEN @ ELSE Tail(@)]
           [] tok.t = "op" ->
                IF tok.v \notin Supported THEN [w EXCEPT !.bad = TRUE]
                ELSE LET m == apply(tok.v, Head(w.stack)) IN
                     [w EXCEPT !.cont = FALSE,
                               !.stack = IF w.cont THEN Branch(@, m) ELSE <<m>> \o Tail(@)]

Malformed == <<[attestation |-> [k |-> "malformed", n |-> 0], message |-> <<>>]>>

(* walk to the end of the stream: an open branch is truncation, a token
   after the last one closed is trailing bytes.                            *)
attestations_in(stream, from) ==
    LET w == FoldLeft(WalkToken, [stack |-> <<from>>, cont |-> FALSE, out |-> <<>>, bad |-> FALSE],
                      stream)
    IN  IF w.bad \/ w.stack # <<>> THEN Malformed ELSE w.out

(* A detached proof: a digest and the stream that starts from it. *)
commitments(proof) == attestations_in(proof.stream, proof.digest)
Heights(cs) == SelectSeq(cs, LAMBDA c : c.attestation.k = "bitcoin")
bitcoin_height(cs) == IF cs = Malformed \/ Heights(cs) = <<>> THEN -1
                      ELSE Heights(cs)[1].attestation.n
pending(proof) == SelectSeq(commitments(proof), LAMBDA c : c.attestation.k = "pending")

NoProof == [digest |-> <<>>, stream |-> <<>>]
from_calendar_reply(digest, reply) ==
    LET p == [digest |-> digest, stream |-> reply]
    IN  IF commitments(p) \in {Malformed, <<>>} THEN NoProof ELSE p
commits_to(proof, digest) == proof.digest = digest

(* Varints of `bits` bits per byte in words of `width` bits.  A shift past  *)
(* the width is refused; bits shifted out at the edge are lost.             *)
write_varuint(n, bits, width) ==
    LET digits == {i \in 0..(width \div bits) : i = 0 \/ n >= 2^(bits * i)}
    IN  [i \in 1..Cardinality(digits) |->
           [chunk |-> (n \div 2^(bits * (i - 1))) % 2^bits,
            more |-> i < Cardinality(digits)]]
varuint(bytes, bits, width) ==
    LET n == CHOOSE i \in 1..Len(bytes) : ~bytes[i].more /\ \A j \in 1..(i - 1) : bytes[j].more
    IN  IF bits * (n - 1) >= width THEN -1
        ELSE FoldLeftDomain(LAMBDA acc, i : acc + ((bytes[i].chunk * 2^(bits * (i - 1))) % 2^width),
                            0, bytes)
-----------------------------------------------------------------------------
(***************************************************************************)
(* The reference: a timestamp is a tree, a sequence of items that are      *)
(* attestations or operations with a subtree, written depth first with a   *)
(* continuation tag before every item but the last.                        *)
(***************************************************************************)
Leaf(a) == [op |-> "none", att |-> a, sub |-> <<>>]
Then(o, sub) == [op |-> o, att |-> Unknown, sub |-> sub]
Trees0 == {<<Leaf(Pending(1))>>, <<Leaf(Unknown), Leaf(Bitcoin(7))>>}
Trees1 == Trees0 \union
          {<<Then(o, s)>> : o \in {"append", "hexlify"}, s \in Trees0} \union
          {<<Then(o, s), Leaf(Pending(2))>> : o \in {"prepend", "sha256"}, s \in Trees0} \union
          {<<Leaf(Bitcoin(8)), Then("reverse", s)>> : s \in Trees0}
Trees2 == Trees1 \union
          {<<Then("prepend", s), Then(o, u)>> : o \in {"sha256", "append"}, s \in Trees1, u \in Trees1} \union
          {<<Then("append", s)>> : s \in Trees1}

Serialize ==
    LET ser[tree \in Trees2] ==
            FoldLeftDomain(LAMBDA acc, i :
                acc \o (IF i < Len(tree) THEN <<Cont>> ELSE <<>>)
                    \o (IF tree[i].op = "none" THEN <<Att(tree[i].att)>>
                        ELSE <<Op(tree[i].op)>> \o ser[tree[i].sub]), <<>>, tree)
    IN  ser
(* The attestations with the operations that lead to them. *)
Leads ==
    LET at[tree \in Trees2] ==
            FoldLeftDomain(LAMBDA acc, i :
                acc \o (IF tree[i].op = "none" THEN <<[a |-> tree[i].att, ops |-> <<>>]>>
                        ELSE LET sub == at[tree[i].sub] IN
                             [j \in DOMAIN sub |-> [sub[j] EXCEPT !.ops = <<tree[i].op>> \o @]]),
                <<>>, tree)
    IN  at
Attested(tree, digest) ==
    [j \in DOMAIN Leads[tree] |->
       [attestation |-> Leads[tree][j].a,
        message |-> FoldLeft(LAMBDA m, o : apply(o, m), digest, Leads[tree][j].ops)]]
Root == <<Byte(1), Byte(2)>>

(***************************************************************************)
(* The walk finds exactly the attestations of the tree, each with the      *)
(* message its own branch leads to, and refuses a stream that is cut short *)
(* anywhere, goes on after its end, or has an operation this build cannot  *)
(* execute.                                                                *)
(***************************************************************************)
WalkReadsTheTree(tree) ==
    LET s == Serialize[tree] IN
    /\ attestations_in(s, Root) = Attested(tree, Root)
    /\ \A n \in 0..(Len(s) - 1) : attestations_in(SubSeq(s, 1, n), Root) = Malformed
    /\ \A tok \in {Cont, Op("sha256"), Att(Unknown)} :
          attestations_in(Append(s, tok), Root) = Malformed
    /\ \A i \in 1..Len(s) : s[i].t = "op" =>
          attestations_in([s EXCEPT ![i] = Op("sha1")], Root) = Malformed

(* What is written is read back, up to the width of the word. *)
VaruintRoundTrip(n, bits, width) == varuint(write_varuint(n, bits, width), bits, width) = n
=============================================================================
