------------------------------ MODULE MCEventLog ------------------------------
(***************************************************************************)
(* Small worlds of signed events.  Births: two births claim entity "x", so *)
(* the surviving asserter, and with it the edge's cross_writer, may change *)
(* late.  Chain: a moment, two conflicting corrections of it, a correction *)
(* of one.  Mixed: what the node admits, with a vocabulary and an          *)
(* attestation.  Published: candidates p and q give "x" different bodies   *)
(* and q also joins it to "y"; q2 is q with other evidence; meanwhile the  *)
(* migrator may commit one more moment of "x", or the node the moment of p *)
(* itself.  Orphan: a moment whose parent is no moment.  In two of the     *)
(* worlds with a rebuild cc-anchor changes a row of roots or anchors.      *)
(***************************************************************************)
EXTENDS Publication

CONSTANTS c1, w1, r1, p1, p2

Blank == [kind |-> "moment", author |-> "a", entity |-> "x", name |-> "n", subject |-> "x",
          body |-> "b", src |-> "x", dst |-> "y", code |-> 1, supersedes |-> None]
Birth(x, who, name) == [Blank EXCEPT !.kind = "entity", !.entity = x, !.author = who, !.name = name]
Moment(x, body, parent) == [Blank EXCEPT !.subject = x, !.body = body, !.supersedes = parent]
Edge(s, d) == [Blank EXCEPT !.kind = "edge", !.src = s, !.dst = d]
Declare(code) == [Blank EXCEPT !.kind = "vocabulary", !.code = code]

MCEvent == <<Birth("x", "b", "n"), Birth("y", "a", "n"), Edge("x", "y"), Birth("x", "a", "n"),
             Moment("x", "b2", 8), Moment("x", "b", 7), Moment("x", "b3", 8), Moment("x", "b", None),
             Moment("x", "b4", 5), Edge("x", "x"), Moment("x", "c", None), Moment("x", "b", 8),
             [Blank EXCEPT !.kind = "attestation"], Declare(1), Declare(1), Declare(0),
             Birth("x", "a", "m"), Moment("x", "d", None)>>
OrphanEvent == Append(MCEvent, Moment("x", "c", 13))

World(ids, conns, settles) ==
    [ids |-> ids, conns |-> conns, cands |-> {}, settles |-> settles]
PubWorld(ids, other) ==
    [ids |-> ids, conns |-> {other, p1, p2}, cands |-> {"p", "q"}, settles |-> 0]
MCWorlds ==
    {World(ids, {w1, c1, r1}, 0) : ids \in {{1, 2, 3, 4}, {5, 6, 7, 8}}}
      \cup {World(ids, {w1, c1, r1}, 1) : ids \in {{5, 8, 9}, {13, 14, 15, 16}}}
      \cup {World(ids, {w1, c1}, 0) : ids \in {{1, 8, 10, 11}, {1, 5, 8, 12}, {1, 17}}}
      \cup {PubWorld({18}, w1), PubWorld({8}, c1)}
OrphanWorld == {World({13, 19}, {w1, c1, r1}, 0)}

MCPayload == [p |-> [events |-> <<1, 8>>, size |-> 1, evidence |-> "none"],
              q |-> [events |-> <<11, 3>>, size |-> 2, evidence |-> "e"],
              q2 |-> [events |-> <<3>>, size |-> 2, evidence |-> "e2"]]
MCBriefs == [b |-> {2}]
MCCandidates == [p |-> {"p", "q2"}, q |-> {"q"}]
Symmetry == Permutations(Publishers)
=============================================================================
