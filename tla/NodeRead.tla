------------------------------ MODULE NodeRead ------------------------------
(***************************************************************************)
(* The read surface of the v0 node (cc-node api.rs over view.rs): one      *)
(* request of POST /v1/feasibility, GET /v1/entities/{id}, GET /v1/moments *)
(* or GET /v1/recents.  A view has no transaction: every query it issues,  *)
(* and the search issues one per level, sees whatever other processes have *)
(* committed by then.  The projection rows change as module EventLog says: *)
(* the canonically earliest birth and declaration survive, a correction    *)
(* moves the row of its moment and is held until there is one, nothing is  *)
(* deleted.                                                                *)
(***************************************************************************)
EXTENDS Filter

CONSTANTS Requests,       \* the requests that may be asked, each with the "world" of
                          \* events and bodies that others may commit meanwhile
          KMax,           \* FilterParams::k_max
          Successor,      \* the TT ids of the pinned bundle -> their successor, or itself
          MaxLimit        \* MAX_LIMIT

(* Ids and coordinates are numbers, as they are ordered by them, and a body
   is named by the hash of its bytes.                                      *)
FactTyped(f) ==
    /\ f.type \in {"edge", "birth", "declaration", "moment", "correction", "body"}
    /\ f.via \in Nat /\ f.at \in Int
    /\ f.type = "edge" => f.src \in Nat /\ f.dst \in Nat
    /\ f.type = "declaration" => f.start.at \in Int

ASSUME WorldAssumption ==
    \A q \in Requests :
       /\ \A f \in q.world : FactTyped(f)
       /\ \A f, g \in {f \in q.world : f.type = "body"} : f.row.hash = g.row.hash => f.row = g.row

(* k_max is a u16; an as_of that can be read is a coordinate. *)
ASSUME QueryAssumption ==
    /\ KMax \in Nat /\ KMax < NotMet
    /\ \A q \in Requests :
          /\ q.kind \in {"feasibility", "entity", "moments", "recents"}
          /\ q.kind = "feasibility" => q.k \in Nat
          /\ q.as_of.form \notin {"missing", "blank", "malformed", "overflow"} => q.as_of.tick \in Int

VARIABLES db,             \* the projection tables
          known,          \* the facts that are committed
          req             \* the request under way

readvars == <<db, known, req>>

EmptyStore == [kind |-> "store", edges |-> {}, entities |-> {}, vocabulary |-> {},
               moments |-> {}, bodies |-> {}]

-----------------------------------------------------------------------------
(* What others commit. *)

EdgeRow(f) == [src |-> f.src, dst |-> f.dst, at |-> f.at, via |-> f.via]

(* Of two rows with one key, the one whose event comes first survives. *)
Survive(rows, r) ==
    LET rival == {p \in rows : p.key = r.key} IN
    IF \E p \in rival : p.at < r.at \/ (p.at = r.at /\ p.via <= r.via) THEN rows
    ELSE (rows \ rival) \cup {r}

EntityRow(f) == [entity_id |-> f.key, birth_event |-> f.via, birth_event_time |-> f.at,
                 start |-> f.start, end |-> f.end, key |-> f.key, at |-> f.at, via |-> f.via]
VocabularyRow(f) == [claim_type |-> f.key, declared_by |-> f.via, start |-> f.start,
                     end |-> f.end, key |-> f.key, at |-> f.at, via |-> f.via]

Applied(d, f) ==
    CASE f.type = "edge" -> [d EXCEPT !.edges = @ \cup {EdgeRow(f)}]
      [] f.type = "birth" -> [d EXCEPT !.entities = Survive(@, EntityRow(f))]
      [] f.type = "declaration" -> [d EXCEPT !.vocabulary = Survive(@, VocabularyRow(f))]
      [] f.type = "moment" -> [d EXCEPT !.moments = @ \cup {f.row}]
      [] f.type = "correction" ->
            [d EXCEPT !.moments = {IF m.root = f.row.root THEN f.row ELSE m : m \in @}]
      [] f.type = "body" -> [d EXCEPT !.bodies = @ \cup {f.row}]

CommitFact(f) ==
    /\ f \notin known
    /\ f.type = "correction" => \E m \in db.moments : m.root = f.row.root
    /\ known' = known \cup {f}
    /\ db' = Applied(db, f)
    /\ UNCHANGED req

-----------------------------------------------------------------------------
(* The rows the other reads select. *)

entity_projection(d, e, asOf) ==
    {r \in d.entities : r.entity_id = e /\ r.birth_event_time <= asOf}

(* ORDER BY: a row has the place of the number of rows that come before it. *)
Ranked(rows, Earlier(_, _)) ==
    [i \in 1..Cardinality(rows) |->
        CHOOSE m \in rows : Cardinality({n \in rows : Earlier(n, m)}) = i - 1]

(* ORDER BY record_coord DESC, root_event_id DESC. *)
Newer(m, n) == m.record > n.record \/ (m.record = n.record /\ m.root > n.root)
NewestFirst(rows) == Ranked(rows, Newer)

BodyOf(d, m) == {b \in d.bodies : b.hash = m.body}
MomentsOf(d, e, asOf) == {m \in d.moments : m.subject = e /\ m.coord <= asOf}

(* Every reading with its body, or without one (LEFT JOIN). *)
readings_for(d, e, asOf) ==
    LET rows == NewestFirst(MomentsOf(d, e, asOf))
    IN  [i \in DOMAIN rows |-> [hash |-> rows[i].body, body |-> BodyOf(d, rows[i])]]

(* The newest reading that has a body (JOIN). *)
claim_body_for(d, e, asOf) ==
    LET rows == NewestFirst({m \in MomentsOf(d, e, asOf) : BodyOf(d, m) # {}})
    IN  IF rows = <<>> THEN {} ELSE BodyOf(d, rows[1])

incident_edges(d, e, asOf) == {x \in d.edges : e \in {x.src, x.dst} /\ x.at <= asOf}

Page(rows, limit) == SubSeq(rows, 1, IF Len(rows) < limit THEN Len(rows) ELSE limit)
LaterCoord(m, n) == m.coord > n.coord \/ (m.coord = n.coord /\ m.root > n.root)
moments_before(d, asOf, from, limit) ==
    Page(Ranked({m \in d.moments : m.coord <= asOf /\ m.coord >= from}, LaterCoord), limit)

(* JOIN entities: a moment whose subject has no row is left out. *)
recents(d, asOf, limit) ==
    Page(NewestFirst({m \in d.moments : m.record <= asOf
                                        /\ \E r \in d.entities : r.entity_id = m.subject}), limit)

Claims(r) == {b.claim : b \in r.body}

(* Mutant: the claims are compared before anything is known to be there. *)
readings_relation_Compared(rs) ==
    IF \A i \in 1..(Len(rs) - 1) : Claims(rs[i]) = Claims(rs[i + 1])
    THEN "one_claim_many_readings"
    ELSE IF \E i \in DOMAIN rs : rs[i].body = {} THEN "cannot_compare"
    ELSE "several_claims_sharing_an_entity"

(* Emptiness first, then a body that was not kept, then the claims. *)
readings_relation(rs) ==
    IF rs = <<>> THEN "no_readings"
    ELSE IF \E i \in DOMAIN rs : rs[i].body = {} THEN "cannot_compare"
    ELSE IF \A i \in 1..(Len(rs) - 1) : Claims(rs[i]) = Claims(rs[i + 1])
         THEN "one_claim_many_readings"
    ELSE "several_claims_sharing_an_entity"

-----------------------------------------------------------------------------
(* One request, query by query. *)

NoAnswer == [result |-> "none"]
Asked(q) == [q |-> q, pc |-> "asked", opened |-> {}, w1 |-> unrecorded, w2 |-> unrecorded,
             a |-> Unrecorded, s |-> StartSearch(0, 0), d |-> NotMet, b |-> StartLabels(0),
             w |-> StartWalk(0, 0), row |-> {}, rs |-> <<>>, body |-> {}, ans |-> NoAnswer]

ReadInit == /\ db = EmptyStore /\ known = {}
            /\ \E q \in Requests : req = Asked(q)

To(pc) == req' = [req EXCEPT !.pc = pc]
Answer(a) == req' = [req EXCEPT !.pc = "done", !.ans = a]
Unread == UNCHANGED <<db, known>>

(* parse_as_of: absent, unreadable and the sentinel are refused. *)
parse_as_of(spelling) ==
    CASE spelling.form \in {"missing", "blank"} -> "missing"
      [] spelling.form \in {"malformed", "overflow"} -> "malformed"
      [] spelling.form = "hex" /\ spelling.tick = SENTINEL -> "sentinel"
      [] OTHER -> "ok"

(* ClaimRef::resolve: a label that is no node of the bundle is refused, a
   retired one is answered through its successor, a code is taken as it is. *)
UnknownLabel(c) == c.form = "label" /\ c.id \notin DOMAIN Successor
resolve(c) == IF c.form = "label" THEN Successor[c.id] ELSE c.id

Malformed(q) ==
    \/ parse_as_of(q.as_of) # "ok"
    \/ q.kind = "feasibility" /\ UnknownLabel(q.claim)
    \/ q.kind \in {"moments", "recents"} /\ q.limit \notin 1..MaxLimit

Parse ==
    /\ req.pc = "asked" /\ Unread
    /\ IF Malformed(req.q) THEN Answer([result |-> "bad_request"]) ELSE To("open")

t_q == req.q.as_of.tick
Query == [from |-> req.q.from, to |-> req.q.to, t |-> t_q, claim |-> resolve(req.q.claim),
          k |-> req.q.k]

(* PgCorpusView::open reads the digest of the event set; certify refuses a
   question the rule does not sanction before it reads anything.           *)
Open ==
    /\ req.pc = "open" /\ Unread
    /\ CASE req.q.kind = "feasibility" /\ check_query(Query, KMax) # "ok" ->
              Answer([result |-> "bad_request"])
         [] req.q.kind = "feasibility" /\ check_query(Query, KMax) = "ok" ->
              req' = [req EXCEPT !.pc = "window1", !.opened = known]
         [] OTHER -> req' = [req EXCEPT !.pc = req.q.kind, !.opened = known]

ReadWindow1 ==
    /\ req.pc = "window1" /\ Unread
    /\ req' = [req EXCEPT !.pc = "window2", !.w1 = window(db, req.q.from, t_q)]
ReadWindow2 ==
    /\ req.pc = "window2" /\ Unread
    /\ req' = [req EXCEPT !.pc = "admissibility", !.w2 = window(db, req.q.to, t_q)]

Judged(support) ==
    LET c == Certificate(req.w1, req.w2, req.a, support, Query) IN
    [result |-> c.verdict.kind, certificate |-> c]

(* The claim type, and the first lines of known_k. *)
ReadAdmissibility ==
    /\ req.pc = "admissibility" /\ Unread
    /\ req' = [req EXCEPT !.pc = "search", !.a = admissibility(db, Query.claim, t_q),
                          !.s = StartSearch(req.q.from, req.q.to)]

SearchEnds ==
    /\ req.pc = "search" /\ Unread
    /\ IF req.q.from = req.q.to THEN Answer(Judged(ReflexiveSupport))
       ELSE IF req.s.met <= Query.k
            THEN req' = [req EXCEPT !.pc = "labels", !.d = req.s.met, !.b = StartLabels(req.q.to)]
       ELSE ~Searching(req.s, Query.k) /\ Answer(Judged(NoSupport))

SearchLevel ==
    /\ req.pc = "search" /\ req.q.from # req.q.to
    /\ Searching(req.s, Query.k)
    /\ req' = [req EXCEPT !.s = SearchStep(db, @, t_q)]
    /\ Unread

(* The labels go as deep as the distance the search found. *)
Depth == Cardinality({req.b.dist[e] : e \in DOMAIN req.b.dist}) - 1
LabelLevel ==
    /\ req.pc = "labels" /\ Unread
    /\ IF Depth < req.d /\ req.b.frontier # {}
       THEN req' = [req EXCEPT !.b = LabelStep(db, @, Depth + 1, t_q)]
       ELSE req' = [req EXCEPT !.pc = "walk", !.w = StartWalk(req.q.from, req.d)]

WalkLevel ==
    /\ req.pc = "walk" /\ Unread
    /\ IF req.w.inconsistent THEN Answer([result |-> "undecodable"])
       ELSE IF req.w.remaining = 0
            THEN Answer(Judged([hops |-> req.d, steps |-> req.w.steps]))
       ELSE req' = [req EXCEPT !.w = WalkStep(db, @, req.b.dist, t_q)]

(* GET /v1/entities/{id}: five reads. *)
ReadEntity ==
    /\ req.pc = "entity" /\ Unread
    /\ LET row == entity_projection(db, req.q.entity, t_q) IN
       IF row = {} THEN Answer([result |-> "not_found"])
       ELSE req' = [req EXCEPT !.pc = "entity_window", !.row = row]
ReadEntityWindow ==
    /\ req.pc = "entity_window" /\ Unread
    /\ req' = [req EXCEPT !.pc = "readings", !.w1 = window(db, req.q.entity, t_q)]
ReadReadings ==
    /\ req.pc = "readings" /\ Unread
    /\ req' = [req EXCEPT !.pc = "claim_body", !.rs = readings_for(db, req.q.entity, t_q)]
ReadClaimBody ==
    /\ req.pc = "claim_body" /\ Unread
    /\ req' = [req EXCEPT !.pc = "incident", !.body = claim_body_for(db, req.q.entity, t_q)]
ReadIncident ==
    /\ req.pc = "incident" /\ Unread
    /\ Answer([result |-> "entity", row |-> req.row, window |-> req.w1,
               relation |-> readings_relation(req.rs), readings |-> req.rs, tt |-> req.body,
               edges |-> incident_edges(db, req.q.entity, t_q)])

ListMoments ==
    /\ req.pc = "moments" /\ Unread
    /\ Answer([result |-> "page", rows |-> moments_before(db, t_q, req.q.lower, req.q.limit)])
ListRecents ==
    /\ req.pc = "recents" /\ Unread
    /\ Answer([result |-> "page", rows |-> recents(db, t_q, req.q.limit)])

(* The store cannot be reached: a 503, never a verdict. *)
Unavailable ==
    /\ req.pc \notin {"asked", "done"} /\ Unread
    /\ Answer([result |-> "unavailable"])

ReadNext ==
    \/ \E f \in req.q.world : CommitFact(f)
    \/ Parse \/ Open \/ ReadWindow1 \/ ReadWindow2 \/ ReadAdmissibility
    \/ SearchEnds \/ SearchLevel \/ LabelLevel \/ WalkLevel
    \/ ReadEntity \/ ReadEntityWindow \/ ReadReadings \/ ReadClaimBody \/ ReadIncident
    \/ ListMoments \/ ListRecents \/ Unavailable

ReadSpec == ReadInit /\ [][ReadNext]_readvars

-----------------------------------------------------------------------------
Done(result) == req.pc = "done" /\ req.ans.result = result

(* When what a fact says begins to count. *)
Begins(f) == IF f.type = "declaration" THEN f.start.at ELSE f.at

(* The walks of d edges that a set of facts evidences at a time. *)
Evidenced(facts, x, y, t) ==
    \E f \in facts : f.type = "edge" /\ f.at <= t /\ {f.src, f.dst} = {x, y}
Places(facts) == UNION {{f.src, f.dst} : f \in {f \in facts : f.type = "edge"}}
Walks(facts, from, to, d, t) ==
    {w \in [0..d -> Places(facts) \cup {from, to}] :
       w[0] = from /\ w[d] = to /\ \A i \in 1..d : Evidenced(facts, w[i - 1], w[i], t)}

(***************************************************************************)
(* Whatever commits between the queries of one request, a Supported        *)
(* verdict rests on recorded evidence: its witness is a walk of at most k  *)
(* recorded edges, each in effect at t_q, from the first subject to the    *)
(* second, and every event it consulted is in the record and not of a time *)
(* after t_q.  Of a declaration it is the band that must have begun: its   *)
(* event may be of a later time.                                           *)
(***************************************************************************)
SupportIsRecorded ==
    Done("Supported") =>
        LET steps == req.ans.certificate.verdict.support.steps
            place(i) == IF i = 0 THEN req.q.from ELSE steps[i].other
        IN  /\ Len(steps) <= req.q.k /\ place(Len(steps)) = req.q.to
            /\ \A i \in DOMAIN steps :
                  \E x \in db.edges : /\ x.via = steps[i].via /\ x.at <= t_q
                                      /\ {x.src, x.dst} = {place(i - 1), place(i)}
            /\ \A e \in req.ans.certificate.consulted :
                  \E f \in known : f.via = e /\ Begins(f) <= t_q

(***************************************************************************)
(* Evidence that was recorded when the view was opened is never overlooked *)
(* because the graph grew under the search: a request that reports no      *)
(* evidenced walk was asked when there was none.                           *)
(***************************************************************************)
SilenceWasTrue ==
    (/\ req.pc = "done" /\ req.ans.result \in {"Unsupported", "Contradicted"}
     /\ \E f \in req.ans.certificate.absences : f.why = "no_evidenced_walk")
      => \A d \in 0..req.q.k : Walks(req.opened, req.q.from, req.q.to, d, t_q) = {}

(***************************************************************************)
(* A verdict is true of the record, in either direction: what it supports  *)
(* is recorded, and what it calls unevidenced was so when it was asked.    *)
(***************************************************************************)
VerdictIsTrue == SupportIsRecorded /\ SilenceWasTrue

(***************************************************************************)
(* The answer about an entity holds together although its parts are read   *)
(* one after the other: an entity that was found has a recorded window,    *)
(* derived from its birth or from one that comes before it, and a reading  *)
(* called the same claim, different or incomparable is so in the readings  *)
(* listed beside it.                                                       *)
(***************************************************************************)
EntityHoldsTogether ==
    Done("entity") =>
        LET row == CHOOSE r \in req.ans.row : TRUE
            rs == req.ans.readings
            claims == UNION {Claims(rs[i]) : i \in DOMAIN rs}
        IN  /\ \E f \in known : /\ req.ans.window.derived_from = {f.via} /\ f.type = "birth"
                                /\ f.at < row.birth_event_time
                                   \/ (f.at = row.birth_event_time /\ f.via <= row.birth_event)
            /\ (req.ans.relation = "one_claim_many_readings") <=>
                  (Cardinality(claims) = 1 /\ \A i \in DOMAIN rs : rs[i].body # {})

(***************************************************************************)
(* "Unreachable by construction": the greedy walk always finds a neighbour *)
(* with the next label (reach.rs).                                         *)
(***************************************************************************)
LabelsAreConsistent == ~req.w.inconsistent
=============================================================================
