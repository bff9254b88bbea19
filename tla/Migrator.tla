------------------------------ MODULE Migrator ------------------------------
(***************************************************************************)
(* The writer of the founding exhibit and of minted batches                *)
(* (crates/cc-migrator/src/main.rs).  A command reads a frozen dump or a   *)
(* batch, plans its events, and commits them: row by row, each in a        *)
(* transaction of its own, or for mint all in one.  The process may die    *)
(* between two commits; the operator then runs the command again, under a  *)
(* later record time.                                                      *)
(*                                                                         *)
(* A dump is a sequence of lines [is, table, fields, ...]; an offset is a  *)
(* line number.  A text column that does not parse is {}.  Coordinates are *)
(* half days since 1970, so that ORIGIN, noon of 2000-01-01, is a whole    *)
(* number.  A hash is what it is taken of, except claim_code, which is cut *)
(* to 32 bits: a label carries its code.                                   *)
(***************************************************************************)
EXTENDS Candidate

CONSTANTS Dump,           \* the frozen corpus
          Worlds,         \* [commands, mirrored]: what happens in one behaviour
          MaxRuns         \* bound: how often a command is started

VARIABLES ledger,         \* committed events [id, content, exhibit]
          bodies,         \* claim_bodies: the hashes whose bytes are kept
          exhibits,       \* committed exhibits
          job,            \* the running command: its commits still to make
          started,        \* what the commands started so far claim, and
          finished,       \* what those claim that ran to their end
          runs,           \* commands started so far, the record time
          replica,        \* the mirror of this ledger, and the copy under way
          world           \* one of Worlds

migratevars == <<ledger, bodies, exhibits, job, started, finished, runs, replica, world>>

ORIGIN == 2 * 10957 + 1
NODE_ZERO == <<"node-0">>

-----------------------------------------------------------------------------
(* The exhibit. *)

(* The rows of one COPY block: from its header to the first "\." after it. *)
ExhibitRows(dump, table) ==
    LET heads == {i \in DOMAIN dump : dump[i].is = "copy" /\ dump[i].table = table}
        ends == {i \in DOMAIN dump : dump[i].is = "end" /\ \E h \in heads : h < i}
        first == Min(heads) + 1
        last == IF ends = {} THEN Len(dump) ELSE Min(ends) - 1
    IN  IF heads = {} THEN <<>>
        ELSE [k \in 1..(last - first + 1) |->
                [offset |-> first + k - 1, line |-> dump[first + k - 1]]]

Clamped(texts, lo, hi) == IF texts = {} THEN lo ELSE Min({hi, Max({lo, Max(texts)})})

(* The proleptic Gregorian day number, in Rust's truncating division. *)
v1_coordinate(year, month_num, day) ==
    LET m == Clamped(month_num, 1, 12)
        d == Clamped(day, 1, 31)
        a == (14 - m) \div 12
        yy(y) == y + 4800 - a
        jdn(y) == d + (153 * (m + 12 * a - 3) + 2) \div 5 + 365 * yy(y) + Truncated(yy(y), 4)
                    - Truncated(yy(y), 100) + Truncated(yy(y), 400) - 32045
    IN  {2 * (jdn(y) - 2440588) : y \in year}

(* Both writers give a day one coordinate, with one exception: before March
   of -4800 the truncating divisions of v1_coordinate are off, and it puts
   the days of a year that is not a leap year a day late.  Its years begin
   in March.                                                               *)
MarchYear(y, m) == IF m <= 2 THEN y - 1 ELSE y
DaysLate(y, m) == IF MarchYear(y, m) < -4800 /\ ~Leap(MarchYear(y, m)) THEN 1 ELSE 0
CoordinatesAgree(y) ==
    \A m \in 1..12 : \A d \in {1, 28, MonthDays(y)[m]} :
        v1_coordinate({y}, {m}, {d}) = {2 * (entry_coordinate(Dated(y, m, d)) + DaysLate(y, m))}

stable_entity_id(path) == <<"path", path>>

ParseNode(row) ==
    LET dated == v1_coordinate(row.line.year, row.line.month, row.line.day)
    IN  IF row.line.fields < 7 \/ row.line.path \in {"", "\\N"} THEN {}
        ELSE {[entity |-> stable_entity_id(row.line.path), path |-> row.line.path,
               name |-> row.line.name, window_start |-> dated, offset |-> row.offset,
               event_time |-> IF dated = {} THEN ORIGIN ELSE Min(dated)]}

(* Only what begins with tax: becomes a claim type. *)
parse_tags(line) == {t \in line.tags : t.tax}
claim_code(label) == label.code

ParseEdge(row) ==
    IF row.line.fields < 3 \/ {row.line.source, row.line.target} \cap {"", "\\N"} # {}
         \/ row.line.kind = ""
    THEN {} ELSE {row.line}

(* What a v1 type says, with the direction it says it in. *)
map_relation(kind) ==
    CASE kind \in {"same_figure", "same_era", "thematic", "contemporaneous", "same_location",
                   "same_conflict"} -> {<<"forward", "CoOccurrence">>}
      [] kind = "influences" -> {<<"forward", "Influence">>}
      [] kind = "causes" -> {<<"forward", "Causation">>}
      [] kind = "caused_by" -> {<<"converse", "Causation">>}
      [] OTHER -> {}                      \* withheld, or never guessed

(* Every path of the nodes block; the last row of a path is the one kept. *)
node_coords(dump) ==
    LET rows == ExhibitRows(dump, "nodes")
        at(path) == {k \in DOMAIN rows : \E n \in ParseNode(rows[k]) : n.path = path}
        paths == UNION {{n.path : n \in ParseNode(rows[k])} : k \in DOMAIN rows}
    IN  [p \in paths |-> CHOOSE n \in ParseNode(rows[Max(at(p))]) : TRUE]

-----------------------------------------------------------------------------
(* Events.  An identity leaves out the record time and the author. *)

Content(at, rt, body) == [event_time |-> at, record_time |-> rt, body |-> body]
EntityCreate(id, name, start, end) ==   \* the resolution key is a function of id
    [kind |-> "entity", entity |-> id, name |-> name, start |-> start, end |-> end]
Moment(id, hash) == [kind |-> "moment", subject |-> id, body_hash |-> hash]
EdgeOf(src, dst, relation, class) ==
    [kind |-> "edge", src |-> src, dst |-> dst, relation |-> relation, class |-> class]
VocabularyDeclare(label, start) ==
    [kind |-> "vocabulary", claim_type |-> claim_code(label), label |-> label.label,
     start |-> start]

(* Mutant: the record time is part of an identity. *)
event_id_Recorded(c) == <<c.event_time, c.body, c.record_time>>
event_id(c) == <<c.event_time, c.body>>

(* An identity that is there already is left as it is. *)
commit(db, cs, exhibit) ==
    db \cup {[id |-> event_id(c), content |-> c, exhibit |-> exhibit] :
               c \in {c \in cs : ~ \E e \in db : e.id = event_id(c)}}

-----------------------------------------------------------------------------
(* The plan of a command: one element for every transaction it commits. *)

Singles(cs) == [k \in DOMAIN cs |-> {cs[k]}]

Births(rt) ==
    <<Content(rt, rt, EntityCreate(NODE_ZERO, NODE_ZERO, {rt}, "KnownOpen"))>>
Genesis(rt, exhibit) ==
    Singles(Births(rt)
      \o (IF exhibit = {} THEN <<>>
          ELSE <<Content(rt, rt, Moment(NODE_ZERO, <<"exhibit_commit", exhibit>>))>>)
      \o <<Content(rt, rt, Moment(NODE_ZERO, <<"protocol_constants_v0", {}>>))>>)

(* A birth for the first row of an entity, a moment for every row. *)
MigrateBatch(rt, limit) ==
    LET rows == ExhibitRows(Dump, "nodes")
        read == SubSeq(rows, 1, Min({limit, Len(rows)}))
        row(acc, r) ==
            LET nodes == ParseNode(r)
                n == CHOOSE n \in nodes : TRUE
                birth == EntityCreate(n.entity, <<"name", n.name>>, n.window_start, "UnknownClosure")
            IN  IF nodes = {} THEN acc
                ELSE [seen |-> acc.seen \cup {n.entity},
                      out |-> acc.out
                        \o (IF n.entity \in acc.seen THEN <<>> ELSE <<Content(n.event_time, rt, birth)>>)
                        \o <<Content(n.event_time, rt, Moment(n.entity, <<"v1_node", {r.line}>>))>>]
    IN  Singles(FoldLeft(row, [seen |-> {}, out |-> <<>>], read).out)

(* Mutant: an edge takes effect at its source. *)
EdgeTime_Source(src, dst) == src.event_time
EdgeTime(src, dst) == Max({src.event_time, dst.event_time})

(* The edges block: an identity already emitted in this run is skipped. *)
MigrateEdges(rt, limit) ==
    LET rows == ExhibitRows(Dump, "edges")
        read == SubSeq(rows, 1, IF limit = 0 THEN Len(rows) ELSE Min({limit, Len(rows)}))
        coords == node_coords(Dump)
        ends(e, way) == IF way = "forward" THEN <<e.source, e.target>> ELSE <<e.target, e.source>>
        edge(p, relation) ==
            Content(EdgeTime(coords[p[1]], coords[p[2]]), rt,
                    EdgeOf(coords[p[1]].entity, coords[p[2]].entity, relation, "Inference"))
        resolved(p) == {p[1], p[2]} \subseteq DOMAIN coords
                         /\ coords[p[1]].entity # coords[p[2]].entity
        found(r) == UNION {{edge(ends(e, m[1]), m[2]) :
                              m \in {m \in map_relation(e.kind) : resolved(ends(e, m[1]))}} :
                           e \in ParseEdge(r)}
        row(acc, r) ==
            LET new == {c \in found(r) : \A k \in DOMAIN acc : event_id(acc[k]) # event_id(c)}
            IN  acc \o SetToSeq(new)
    IN  Singles(FoldLeft(row, <<>>, read))

(* A band begins at the earliest dated row that carries the tag; of two
   labels with one code the second is skipped.                             *)
DeclareVocabulary(rt) ==
    LET rows == ExhibitRows(Dump, "nodes")
        carry(t) == {k \in DOMAIN rows : rows[k].line.fields > 15 /\ t \in parse_tags(rows[k].line)}
        starts(t) == UNION {UNION {n.window_start : n \in ParseNode(rows[k])} : k \in carry(t)}
        tags == {t \in UNION {parse_tags(rows[k].line) : k \in DOMAIN rows} : starts(t) # {}}
        least(t) == \A u \in tags : claim_code(u) = claim_code(t) => t.order <= u.order
    IN  Singles(SetToSeq({Content(Min(starts(t)), rt, VocabularyDeclare(t, {Min(starts(t))})) :
                            t \in {t \in tags : least(t)}}))

(* One claim of a batch: identity from the title and the year alone. *)
ClaimOf(e) == <<"claim", claim_identity(e)[1], claim_identity(e)[2]>>
At(year) == 2 * year_tick(year)

MintRelation(r) ==
    CASE r \in {"causation", "caused", "causes"} -> {"Causation"}
      [] r = "participation" -> {"Participation"}
      [] r = "influence" -> {"Influence"}
      [] r = "co_occurrence" -> {"CoOccurrence"}
      [] OTHER -> {}

(* Everything one mint commits, or nothing: a rule an entry breaks refuses
   the batch before the transaction, a bad edge inside it.                 *)
EdgeSpecAdmitted(ed) ==
    /\ ed.from # {} /\ ed.to # {} /\ MintRelation(ed.relation) # {}
    /\ \A f \in ed.from, t \in ed.to : ClaimOf(f) # ClaimOf(t)

Minted(rt, e) ==
    {Content(At(e.year), rt, EntityCreate(ClaimOf(e), <<"title", e.title>>,
                                          IF e.date_is_known = "true" THEN {At(e.year)} ELSE {},
                                          "UnknownClosure")),
     Content(At(e.year), rt, Moment(ClaimOf(e), <<"claim_v4", {e}>>))}

FirstSeen(es, ct) == Min({es[i].year : i \in {i \in DOMAIN es : es[i].claim_type = ct}})

MintDeclared(rt, es) ==
    {Content(At(FirstSeen(es, ct)), rt,
             VocabularyDeclare([label |-> ct, code |-> ct], {At(FirstSeen(es, ct))})) :
        ct \in {es[i].claim_type : i \in DOMAIN es}}

MintEdges(rt, eds) ==
    {Content(At(Max({f.year, t.year})), rt, EdgeOf(ClaimOf(f), ClaimOf(t), r, "Assertion")) :
        <<f, t, r>> \in UNION {ed.from \X ed.to \X MintRelation(ed.relation) : ed \in eds}}

Mint(rt, es, eds) ==
    IF admit_batch(Bundle, es) # {} \/ ~(\A ed \in eds : EdgeSpecAdmitted(ed)) THEN <<>>
    ELSE <<(UNION {Minted(rt, es[i]) : i \in DOMAIN es}) \cup MintDeclared(rt, es) \cup MintEdges(rt, eds)>>

Plan(c, rt) ==
    CASE c.cmd = "genesis" -> Genesis(rt, c.exhibit)
      [] c.cmd = "migrate-batch" -> MigrateBatch(rt, c.limit)
      [] c.cmd = "migrate-edges" -> MigrateEdges(rt, c.limit)
      [] c.cmd = "declare-vocabulary" -> DeclareVocabulary(rt)
      [] c.cmd = "mint" -> Mint(rt, c.entries, c.edges)

-----------------------------------------------------------------------------
Claims(cs) == {<<c.event_time, c.body>> : c \in cs}
Idle == [cmd |-> {}, todo |-> <<>>, claims |-> {}]
NoCopy == [held |-> {}, rows |-> {}, of |-> {}, said |-> "nothing"]

MigrateInit ==
    /\ ledger = {} /\ bodies = {} /\ exhibits = {} /\ job = Idle
    /\ started = {} /\ finished = {} /\ runs = 0 /\ replica = NoCopy /\ world \in Worlds

CommitExhibit ==
    /\ exhibits = {} /\ exhibits' = {"dump"}
    /\ UNCHANGED <<ledger, bodies, job, started, finished, runs, replica, world>>

(* A command that names an exhibit asks for a committed one; declare-
   vocabulary does not, and the foreign key refuses its first commit.      *)
Start(c) ==
    /\ job = Idle /\ runs < MaxRuns
    /\ c.exhibit \subseteq exhibits
    /\ \E plan \in {Plan(c, runs + 1)} :
          /\ job' = [cmd |-> {c}, todo |-> plan, claims |-> Claims(UNION Range(plan))]
          /\ started' = started \cup Claims(UNION Range(plan))
    /\ runs' = runs + 1
    /\ UNCHANGED <<ledger, bodies, exhibits, finished, replica, world>>

(* Where an event says it comes from: of a genesis only the exhibit's moment. *)
Provenance(c, cs) ==
    IF c.cmd = "genesis" /\ \A x \in cs : x.body.kind = "entity" \/ x.body.body_hash[1] # "exhibit_commit"
    THEN {} ELSE c.exhibit

(* The next transaction; mint keeps the bytes of its claims in it. *)
CommitNext ==
    /\ job.todo # <<>>
    /\ \E c \in job.cmd :
          /\ ledger' = commit(ledger, Head(job.todo), Provenance(c, Head(job.todo)))
          /\ bodies' = bodies \cup
                (IF c.cmd = "mint" THEN {<<"claim_v4", {c.entries[i]}>> : i \in DOMAIN c.entries} ELSE {})
    /\ job' = [job EXCEPT !.todo = Tail(@)]
    /\ UNCHANGED <<exhibits, started, finished, runs, replica, world>>

Finish ==
    /\ job.cmd # {} /\ job.todo = <<>>
    /\ job' = Idle /\ finished' = finished \cup job.claims
    /\ UNCHANGED <<ledger, bodies, exhibits, started, runs, replica, world>>

Die ==
    /\ job.cmd # {} /\ job.todo # <<>> /\ job' = Idle
    /\ UNCHANGED <<ledger, bodies, exhibits, started, finished, runs, replica, world>>

-----------------------------------------------------------------------------
(* mirror: every event read from this ledger is committed to the other, and
   the two views are compared at the end.  held: what the mirror holds.    *)

(* At any time, after a run that died too. *)
MirrorStart ==
    /\ world.mirrored /\ ledger # {}
    /\ replica' = [replica EXCEPT !.rows = ledger, !.of = ledger, !.said = "copying"]
    /\ UNCHANGED <<ledger, bodies, exhibits, job, started, finished, runs, world>>

MirrorRow ==
    /\ replica.said = "copying" /\ replica.rows # {}
    /\ LET next == CHOOSE e \in replica.rows :
                      \A f \in replica.rows : e.content.event_time <= f.content.event_time
       IN  replica' = [replica EXCEPT !.rows = @ \ {next},
                                      !.held = commit(@, {next.content}, {})]
    /\ UNCHANGED <<ledger, bodies, exhibits, job, started, finished, runs, world>>

Ids(db) == {e.id : e \in db}
view_root(db) == Ids(db)                  \* a function of the events held: module EventLog

MirrorEnd ==
    /\ replica.said = "copying" /\ replica.rows = {}
    /\ replica' = [replica EXCEPT
                     !.said = IF view_root(ledger) = view_root(replica.held) THEN "converged" ELSE "diverged"]
    /\ UNCHANGED <<ledger, bodies, exhibits, job, started, finished, runs, world>>

MigrateNext ==
    \/ CommitExhibit \/ (\E c \in world.commands : Start(c)) \/ CommitNext \/ Finish \/ Die
    \/ MirrorStart \/ MirrorRow \/ MirrorEnd
-----------------------------------------------------------------------------
Holds(db) == Claims({e.content : e \in db})

(***************************************************************************)
(* However often commands die and are run again, under whatever record     *)
(* time, the ledger holds every claim once: those of each finished command *)
(* and no others than those of the started ones; a mirror copies exactly   *)
(* what it read.                                                           *)
(***************************************************************************)
Replayed ==
    /\ Cardinality(ledger) = Cardinality(Holds(ledger))
    /\ finished \subseteq Holds(ledger) /\ Holds(ledger) \subseteq started
    /\ replica.rows = {} => Holds(replica.held) = Holds(replica.of)

Born(x) == {e.content.event_time : e \in {e \in ledger : e.content.body.kind = "entity"
                                                          /\ e.content.body.entity = x}}
Declared(code) == {e.content.body.start : e \in {e \in ledger : e.content.body.kind = "vocabulary"
                                                                 /\ e.content.body.claim_type = code}}

(***************************************************************************)
(* "It cannot be evidenced before both the things it relates exist"        *)
(* (migrate-edges), and a minted claim's type is admissible where the      *)
(* claim is: of several declarations the earliest is the one in force.     *)
(***************************************************************************)
InOrder ==
    /\ \A e \in ledger : e.content.body.kind = "edge" =>
          \A x \in {e.content.body.src, e.content.body.dst} :
             Born(x) # {} => Min(Born(x)) <= e.content.event_time
    /\ \A e \in ledger : (e.content.body.kind = "moment" /\ e.content.body.body_hash[1] = "claim_v4") =>
          \A m \in e.content.body.body_hash[2] :
             /\ Declared(m.claim_type) # {}
             /\ Min(UNION Declared(m.claim_type)) <= e.content.event_time
             /\ e.content.body.body_hash \in bodies
=============================================================================
