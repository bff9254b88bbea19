------------------------------- MODULE MCCalc -------------------------------
(***************************************************************************)
(* The pure algorithms of the repository, each against a reference         *)
(* definition, and the requests of the node's read side.  A state is one   *)
(* case, an algorithm with its bounded input, or a request under way.      *)
(*                                                                         *)
(* The worlds of the requests: a path of three edges that a commit         *)
(* shortens, a rival birth that comes before the recorded one, a type that *)
(* is declared after its band has begun, a moment and its correction, and  *)
(* bodies that arrive late.                                                *)
(***************************************************************************)
EXTENDS NodeRead

M == INSTANCE Merkle
O == INSTANCE Ots
C == INSTANCE Candidate
K == INSTANCE Codec

VARIABLES case, ledger, bodies, exhibits, job, started, finished, runs, replica, world

migratevars == <<ledger, bodies, exhibits, job, started, finished, runs, replica, world>>

(* A dump with a table before and one after those that are read, rows that
   do not parse, an undated row, and edges in both spellings.              *)
Line(is, table) == [is |-> is, table |-> table]
Copied(table, rows) == <<Line("copy", table)>> \o rows \o <<Line("end", "")>>
Tag(label, code, order) == [label |-> label, code |-> code, order |-> order, tax |-> TRUE]
NodeLine(fields, path, year, month, tags) ==
    [is |-> "row", fields |-> fields, path |-> path, name |-> path, year |-> year,
     month |-> month, day |-> {40}, tags |-> tags]
EdgeLine(source, kind, target) ==
    [is |-> "row", fields |-> 8, source |-> source, kind |-> kind, target |-> target]
MCDump ==
    Copied("edge_cleanup_audit", <<EdgeLine("p", "causes", "q")>>)
      \o Copied("edges", <<EdgeLine("p", "caused_by", "q"), EdgeLine("q", "causes", "p"),
                           EdgeLine("p", "precedes", "q"), EdgeLine("p", "same_era", "p"),
                           EdgeLine("q", "same_era", "u"), EdgeLine("q", "thematic", "u"),
                           EdgeLine("p", "influences", "zz")>>)
      \o Copied("nodes", <<NodeLine(16, "p", {-44}, {3}, {Tag("tax:x", "n1", 1), Tag("tax:y", "n1", 2)}),
                           NodeLine(6, "r", {1}, {}, {}), NodeLine(16, "q", {-45}, {13}, {Tag("tax:x", "n1", 1)}),
                           NodeLine(16, "u", {}, {}, {Tag("tax:z", "n2", 3)})>>)

Claim(w, year, type) == [C!Entry EXCEPT !.title = <<C!Word(w)>>, !.year = year, !.claim_type = type]
MintOf(es, eds) == [cmd |-> "mint", exhibit |-> {}, entries |-> es, edges |-> eds]
Spoken(f, relation, t) == [from |-> f, to |-> t, relation |-> relation]
Cause == Claim("Siege", 640, "a1")
Effect == Claim("Fall", 700, "a1")
Exhibited(cmd, limit) == [cmd |-> cmd, exhibit |-> {"dump"}, limit |-> limit]
FirstMint == MintOf(<<Effect, Cause>>, {Spoken({Effect}, "caused", {Cause})})
MCWorlds ==
    {[mirrored |-> FALSE, commands |-> {Exhibited("migrate-batch", 4), Exhibited("migrate-edges", 0)}],
     [mirrored |-> FALSE, commands |-> {Exhibited("genesis", 0), Exhibited("declare-vocabulary", 0)}],
     [mirrored |-> FALSE, commands |->
        {FirstMint, MintOf(<<Claim("Revolt", 600, "a1"), Cause>>, {}),
         MintOf(<<Effect>>, {Spoken({Effect}, "influence", {Effect})}),
         MintOf(<<Effect>>, {Spoken({Effect}, "near", {Cause})}), MintOf(<<Effect, Effect>>, {})}],
     [mirrored |-> TRUE, commands |-> {[cmd |-> "genesis", exhibit |-> {}], FirstMint}]}

G == INSTANCE Migrator WITH Dump <- MCDump, Worlds <- MCWorlds, MaxRuns <- 3

Edge(a, b, at, via) == [type |-> "edge", src |-> a, dst |-> b, at |-> at, via |-> via]
Birth(e, at, via, end) == [type |-> "birth", key |-> e, at |-> at, via |-> via,
                           start |-> Known(1), end |-> end]
Declaration(end) == [type |-> "declaration", key |-> 7, at |-> 3, via |-> 31,
                     start |-> Known(1), end |-> end]
Row(root, head, record, body) ==
    [root |-> root, head |-> head, subject |-> 1, coord |-> 1, record |-> record, body |-> body]
Moment(root, record, body) ==
    [type |-> "moment", at |-> 1, via |-> root, row |-> Row(root, root, record, body)]
Correction(root, head, record, body) ==
    [type |-> "correction", at |-> 1, via |-> head, row |-> Row(root, head, record, body)]
Body(hash, claim) == [type |-> "body", at |-> 1, via |-> hash,
                      row |-> [hash |-> hash, claim |-> claim]]

Path == {Edge(1, 2, 1, 51), Edge(2, 3, 1, 52), Edge(3, 4, 2, 53), Edge(2, 4, 1, 54)}
Late == {Edge(1, 4, 3, 55), Edge(1, 4, 2, 56)}
Subjects == {Birth(1, 2, 12, KnownOpen), Birth(1, 1, 11, KnownClosed(1)),
             Birth(4, 1, 14, KnownOpen), Declaration(KnownOpen)}
Readings == {Birth(1, 2, 12, KnownOpen), Birth(1, 1, 11, KnownClosed(1)), Birth(1, 1, 13, KnownOpen),
             Moment(61, 1, 71), Moment(62, 1, 72), Body(71, "a"), Body(72, "b"), Correction(61, 63, 3, 72)}

Decimal(t) == [form |-> "decimal", tick |-> t]
Label(id) == [form |-> "label", id |-> id]
Feasible(facts, k, claim) ==
    [kind |-> "feasibility", as_of |-> Decimal(2), world |-> facts,
     from |-> 1, to |-> 4, k |-> k, claim |-> claim]
Listed(kind, limit) == [kind |-> kind, as_of |-> Decimal(2), world |-> Readings,
                        lower |-> 0, limit |-> limit]

MCSuccessor == (7 :> 7) @@ (8 :> 7)
MCRequests ==
    {Feasible(Path \cup Late, 3, Label(8)), Feasible(Late \cup Subjects, 1, Label(7)),
     Feasible(Late \cup Subjects, 1, [form |-> "code", id |-> 9]),
     [Feasible(Late, 1, Label(7)) EXCEPT !.to = 1],
     Feasible({}, 1, Label(9)), Feasible({}, 4, Label(7)),
     [Feasible({}, 1, Label(7)) EXCEPT !.as_of = [form |-> "hex", tick |-> SENTINEL]],
     [kind |-> "entity", as_of |-> Decimal(2), world |-> Readings, entity |-> 1],
     Listed("moments", 1), Listed("recents", 2), Listed("recents", 3)}

-----------------------------------------------------------------------------
calcvars == <<case, readvars, migratevars>>
NoRequest == [Asked(Feasible({}, 1, Label(7))) EXCEPT !.pc = "done"]

Init ==
    /\ G!MigrateInit
    /\ \/ case = <<"request">> /\ ReadInit
       \/ case \in {<<"start">>, <<"migration">>} /\ db = EmptyStore /\ known = {} /\ req = NoRequest
    /\ case # <<"migration">> => world = CHOOSE w \in MCWorlds : TRUE

Accumulator ==
    \/ \E n \in 1..8 : \E i \in 0..(n - 1) : case' = <<"inclusion", n, i>>
    \/ \E n \in 1..8 : \E m \in 1..n : case' = <<"consistency", m, n>>
    \/ \E t \in O!Trees2 : case' = <<"walk", t>>

Rulings ==
    \/ \E g \in SUBSET Pairs, k \in 0..4 : case' = <<"reach", g, k>>
    \/ \E g \in SUBSET Pairs, r \in 1..3 : case' = <<"ball", g, r>>
    \/ \E h \in Histories : case' = <<"judgment", h>>
    \/ \E s \in [1..3 -> Deck] : case' = <<"records", s>>
    \/ \E w, b \in Bands, born \in 1..2 : case' = <<"views", w, born, b>>

Authoring ==
    \/ \E l \in C!Links : case' = <<"links", l>>
    \/ \E e \in C!Typed \cup C!Rivals \cup C!Shapes : case' = <<"entry", e>>
    \/ \E y \in C!Years : case' = <<"year", y>>
    \/ \E es \in C!Batches : case' = <<"batch", es>>

Encodings ==
    \/ \E k \in 1..5 : case' = <<"claims", k>>
    \/ \E c \in K!Contents : case' = <<"content", c>>
    \/ \E t \in K!Ticks : case' = <<"tick", t>>
    \/ \E e \in K!Envelopes : case' = <<"envelope", e>>

Next ==
    \/ /\ case = <<"start">> /\ (Accumulator \/ Rulings \/ Authoring \/ Encodings)
       /\ UNCHANGED <<readvars, migratevars>>
    \/ case = <<"request">> /\ ReadNext /\ UNCHANGED <<case, migratevars>>
    \/ case = <<"migration">> /\ G!MigrateNext /\ UNCHANGED <<case, readvars>>

Spec == Init /\ [][Next]_calcvars

Of(name) == case[1] = name

(* The proofs of cc-anchor merkle.rs verify for what they were made of and
   for nothing else, for every tree of up to eight leaves.                 *)
MerkleProofs ==
    /\ Of("inclusion") => M!InclusionIsExact(case[2], case[3])
    /\ Of("consistency") => M!ConsistencyIsExact(case[2], case[3])

(* The iterative walk of ots.rs reads every attestation of a tree of
   branches, under the message that leads to it.                           *)
OtsWalk == Of("walk") => O!WalkReadsTheTree(case[2])

(* The bidirectional search of reach.rs finds the distance and the
   canonically least shortest walk, and a ball is enough for colours.      *)
Reachability ==
    /\ Of("reach") => ReachIsExact(case[2], case[3])
    /\ Of("ball") => BallIsEnough(case[2], case[3])

(* The audit of a certificate (verdict.rs) repeats the judgment, and what
   takes effect after t_q does not change either.                          *)
Judgments ==
    Of("judgment") => AuditAgrees(case[2]) /\ JudgmentIsPinned(case[2])

(* The order of the records does not matter to from_records (snapshot.rs),
   and the store's view and a snapshot's answer alike (cc-node view.rs).   *)
EvidenceAgrees ==
    /\ Of("records") => OrderIsFree(case[2])
    /\ Of("views") => ViewsAgree(case[2], case[3], case[4])

(* The walks of version.rs read a released bundle exactly, and what the
   gate of admission.rs admits the node and the verifier can show; of an
   alternative it asks less than of the type itself, which must be live.   *)
ClassifiedAsShown ==
    /\ Of("links") => C!WalksAreExact(case[2])
    /\ Of("entry") => C!ShownAsAdmitted(case[2]) /\ C!AdmittedAsCompeting(case[2])

(* Years and days have exact coordinates (year_tick, entry_coordinate), and
   the migrator's v1_coordinate gives a day the same one, but a day late
   before March of -4800 in years that are not leap years.                 *)
CalendarIsExact == Of("year") => C!CalendarIsExact(case[2]) /\ G!CoordinatesAgree(case[2])

(* admission.rs on duplicate-identity: "it asks for one identity, two
   rows" is refused, for the identity entries are published under.         *)
OneRowPerIdentity == Of("batch") => C!OneRowPerIdentity(case[2])

(* Commands of cc-migrator that die and are run again leave every claim
   once, and a mirror is a copy (main.rs).                                 *)
MigrationReplays == Of("migration") => G!Replayed

(* An edge takes effect where both its ends exist, and a minted claim's
   type is admissible where the claim is (main.rs).                        *)
MigratedInOrder == Of("migration") => G!InOrder

(* Different v0 claims have different bytes, bytes are read back as they
   were written, and the v1 reader takes nothing but canonical bytes
   (cc-core lib.rs, v1.rs).                                                *)
EncodingsAreCanonical ==
    /\ Of("claims") => K!DistinctClaims(case[2])
    /\ Of("content") => K!ParsesBack(case[2])
    /\ Of("tick") => K!TickOrder(case[2])
    /\ Of("envelope") => K!SignedAsWritten(case[2])

(* Migrations can be repeated and put every claim where it is admissible.  *)
MigrationsAreSound == MigrationReplays /\ MigratedInOrder

(* What the run checks together: proofs of both kinds,                     *)
ProofsAreExact == MerkleProofs /\ OtsWalk

(* the rulings of cc-filter: search, judgment and the two kinds of view,   *)
RulingsAreExact == Reachability /\ Judgments /\ EvidenceAgrees

(* and entries: their classification and their coordinates.                *)
EntriesAreExact == ClassifiedAsShown /\ CalendarIsExact
=============================================================================
