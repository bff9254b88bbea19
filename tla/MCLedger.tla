------------------------------ MODULE MCLedger ------------------------------
(* Instances of Ledger for TLC.                                            *)
EXTENDS Ledger

CONSTANTS A, J, K, L

(* Envelopes of the one subject, whose genesis is event 1.                 *)
Ev(kind, author, grant, parents) ==
    [kind |-> kind, parents |-> parents, subject |-> 1, key |-> 1, grant |-> grant,
     author |-> author, body |-> "none", time |-> NoTime, decision |-> "sound",
     old |-> "none", grantee |-> "none", issuer |-> 0, target |-> 0,
     cascade |-> FALSE, pick |-> 0, actions |-> <<>>]
Genesis(author) ==
    [Ev("genesis", author, 0, {}) EXCEPT !.subject = 0, !.body = "b"]
Delegate(author, grant, p, k) ==
    [Ev("delegate", author, grant, {p}) EXCEPT !.grantee = k, !.issuer = grant]
Correct(author, grant, p) ==
    [Ev("correction", author, grant, {p}) EXCEPT !.body = "b", !.old = "b"]
Revoke(author, grant, p, target, cascade) ==
    [Ev("revoke", author, grant, {p}) EXCEPT !.target = target, !.cascade = cascade]
Merge(author, grant, P) ==
    [Ev("resolve", author, grant, P) EXCEPT !.body = "b",
                                            !.actions = [p \in P |-> "merged"]]

JustGenesis == <<Genesis(A)>>

(* A delegated J, who delegated K.                                         *)
Chain == <<Genesis(A), Delegate(A, 1, 1, J), Delegate(J, 2, 2, K)>>

(* Nine envelopes of two subjects, most of them refused for a reason of    *)
(* their own, next to a non-subject event and a child of a refused one.    *)
Malformed == <<
    Genesis(A),
    [Genesis(K) EXCEPT !.key = 2],
    Delegate(A, 1, 1, J),
    Correct(J, 3, 3),
    [Correct(J, 3, 4) EXCEPT !.subject = 2],
    [Correct(J, 3, 4) EXCEPT !.key = 2],
    [Delegate(A, 1, 4, L) EXCEPT !.time = 1],
    [Ev("attestation", K, 0, {}) EXCEPT !.subject = 0],
    Correct(J, 3, 8),
    Correct(J, 3, 5),
    [Correct(J, 3, 4) EXCEPT !.time = Imprecise],
    [Correct(J, 3, 3) EXCEPT !.old = "other"] >>

(* J revokes K without having seen K's correction 4, merges it anyway (6), *)
(* the root relinquishes on top of the merge (7) and J goes on (8).        *)
Relinquished == <<
    Genesis(A), Delegate(A, 1, 1, J), Delegate(J, 2, 2, K),
    Correct(K, 3, 3), Revoke(J, 2, 3, 3, FALSE), Merge(J, 2, {4, 5}),
    Revoke(A, 1, 6, 1, FALSE), Delegate(J, 2, 7, L) >>

(* Edges.  Subjects 1 and 2 by A and K, 3 by K, each with a first body;    *)
(* times are asserted coordinates.                                         *)
Claim(author, key, time) == [Genesis(author) EXCEPT !.key = key, !.time = time]
Pin(s, basis, revision) ==
    [subject |-> s, basis |-> basis, revision |-> revision, body |-> "b"]
Between(source, target) == [source |-> source, target |-> target]
Bare(kind, author) ==
    [kind |-> kind, parents |-> {}, subject |-> 0, key |-> 0, grant |-> 0,
     author |-> author, time |-> NoTime, decision |-> "sound"]
Edge(author, relation, pins) ==
    Bare("edge_assert", author) @@ [relation |-> relation, pins |-> pins]
Reaffirm(author, edge, old, new) ==
    [Bare("edge_reaffirm", author) EXCEPT !.parents = DOMAIN old]
    @@ [edge |-> edge, old |-> old, pins |-> new]
Attest(tkind, target) ==
    Bare("attestation", A) @@ [tkind |-> tkind, target |-> target, artifact |-> "image"]

P11 == Pin(1, 1, 1)
P22 == Pin(2, 2, 2)
P13 == Pin(1, 3, 3)

(* A corrects subject 1 (3), reaffirms the edge 4 twice, concurrently (5   *)
(* and 6), and joins the two (7); a second correction beside the first (8) *)
(* contests subject 1 until A picks the first body again (9).              *)
Reaffirmed == <<
    Claim(A, 1, 1), Claim(K, 2, 2), Correct(A, 1, 1),
    Edge(A, "causation", Between(P11, P22)),
    Reaffirm(A, 4, 4 :> Between(P11, P22), Between(P13, P22)),
    Reaffirm(A, 4, 4 :> Between(P11, P22), Between(P11, P22)),
    Reaffirm(A, 4, (5 :> Between(P13, P22)) @@ (6 :> Between(P11, P22)), Between(P13, P22)),
    Correct(A, 1, 1),
    [Ev("resolve", A, 1, {3, 8}) EXCEPT !.pick = 3,
        !.actions = (3 :> "selected") @@ (8 :> "not_selected")],
    Attest("revision", 3), Attest("event", 4) >>

(* Two concurrent corrections of subject 1 are resolved back to its first  *)
(* body, which the edge pins.                                              *)
Returned == <<
    Claim(A, 1, 1), Claim(K, 2, 2), Edge(A, "causation", Between(P11, P22)),
    Correct(A, 1, 1), [Correct(A, 1, 1) EXCEPT !.body = "c"],
    [Ev("resolve", A, 1, {4, 5}) EXCEPT !.pick = 1,
        !.actions = (4 :> "selected") @@ (5 :> "not_selected")] >>

(* Paths: 1-2, 2-3, a dispute, an edge of an untrusted author and a second *)
(* way round through 4, whose coordinate is not asserted.                  *)
P33 == Pin(3, 3, 3)
P44 == Pin(4, 4, 4)
Woven == <<
    Claim(A, 1, 1), Claim(K, 2, 2), Claim(A, 3, 3), Claim(K, 4, 0),
    Edge(A, "causation", Between(P11, P22)),
    Edge(K, "influence", Between(P33, P22)),
    Edge(A, "participation", Between(P11, P44)),
    Edge(K, "co_occurrence", Between(P44, P33)),
    Edge(A, "disputes", Between(P11, P33)),
    Edge(L, "causation", Between(P11, P33)),
    Edge(A, "rumour", Between(P33, P44)) >>

(* Edge events that are refused, each for a reason of its own.             *)
Refused == <<
    Claim(A, 1, 1), Claim(K, 2, 2),
    Edge(A, "causation", Between(P11, P22)),
    Edge(A, "causation", Between(P11, [P22 EXCEPT !.body = "other"])),
    Edge(A, "causation", Between(Pin(1, 2, 2), P22)),
    Edge(A, "disputes", Between(P22, P11)),
    Reaffirm(K, 3, 3 :> Between(P11, P22), Between(P11, P22)),
    Reaffirm(A, 3, 3 :> Between(P11, P11), Between(P11, P22)),
    Reaffirm(A, 4, 4 :> Between(P11, P22), Between(P11, P22)),
    [Correct(K, 2, 2) EXCEPT !.old = "other"],
    Edge(A, "causation", Between(P11, Pin(2, 10, 10))),
    Attest("event", 10) >>

Setup(signed, keys, max, withheld, checked, orders) ==
    [signed |-> signed, keys |-> keys, max |-> max, withheld |-> withheld,
     checked |-> checked, orders |-> orders]
Arriving(signed) == Setup(signed, {}, Len(signed), Len(signed), TRUE, 4)

MCSetups ==
    {Setup(JustGenesis, {J}, 4, 2, FALSE, 3),
     Setup(Chain, {}, 6, 0, TRUE, 0), Setup(Chain, {L}, 5, 0, TRUE, 0)}
    \cup {Arriving(s) : s \in {Malformed, Reaffirmed, Returned, Woven, Refused}}
Relinquishing == {Arriving(Relinquished)}
=============================================================================
