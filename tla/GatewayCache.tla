---------------------------- MODULE GatewayCache ----------------------------
(***************************************************************************)
(* The response cache of cc-gateway (cache.rs) as operators on its state.  *)
(* One corpus digest is current, the generation, with the instant at which *)
(* the read that named it was requested; the entries belong to it.         *)
(*                                                                         *)
(* A digest is the number of admissions it covers: the corpus only grows,  *)
(* so digests and these numbers correspond.  An entry is the node's answer *)
(* (status and stripped body).  The map of last-use ticks is the sequence  *)
(* of keys it sorts, the least recently used first, and Size(k) stands for *)
(* the bytes of key k and its body.                                        *)
(***************************************************************************)
EXTENDS Integers, Sequences, SequencesExt, FiniteSets

CONSTANTS
    Size(_),     \* bytes of a key with its body
    MaxBytes,    \* CC_GATEWAY_CACHE_BYTES
    Freshness,   \* CC_GATEWAY_FRESHNESS_MS, in ticks
    None         \* absent: no digest, no generation, no probe, no call

Empty == [gen |-> None, entries |-> <<>>, order |-> <<>>, bytes |-> 0]

Current(c, d) == c.gen # None /\ c.gen.d = d

\* Instant::saturating_duration_since
Since(at, now) == IF now > at THEN now - at ELSE 0

FreshDigest(c, now) ==
    IF c.gen # None /\ Since(c.gen.at, now) < Freshness THEN c.gen.d ELSE None

\* A different digest starts a new generation and empties the cache.
Renew(c, d, requested) == [Empty EXCEPT !.gen = [d |-> d, at |-> requested]]

Observe(c, d, requested) ==
    IF c.gen # None /\ c.gen.at > requested THEN c
    ELSE IF Current(c, d) THEN [c EXCEPT !.gen.at = requested]
    ELSE Renew(c, d, requested)

Touch(c, k) == [c EXCEPT !.order = Append(RemoveFirst(@, k), k)]

Hit(c, d, k) == Current(c, d) /\ k \in DOMAIN c.entries

BytesOf(keys) ==
    LET upTo[n \in 0..Len(keys)] == IF n = 0 THEN 0 ELSE upTo[n - 1] + Size(keys[n])
    IN  upTo[Len(keys)]

\* The least recently used keys that must go before size more bytes fit.
Evicted(c, size) ==
    LET enough == {n \in 0..Len(c.order) :
                     (c.bytes - BytesOf(SubSeq(c.order, 1, n))) + size <= MaxBytes}
    IN  SubSeq(c.order, 1, Min(enough \cup {Len(c.order)}))

Put(c, d, k, answer) ==
    IF \/ ~Current(c, d)
       \/ k \in DOMAIN c.entries
       \/ Size(k) > MaxBytes
    THEN c
    ELSE LET old == Evicted(c, Size(k))
             kept == DOMAIN c.entries \ ToSet(old)
         IN  Touch([c EXCEPT
                 !.entries = [x \in kept \cup {k} |-> IF x = k THEN answer ELSE @[x]],
                 !.order = SubSeq(@, Len(old) + 1, Len(@)),
                 !.bytes = (@ - BytesOf(old)) + Size(k)], k)
=============================================================================
