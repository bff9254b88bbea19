------------------------------ MODULE EdgeFold ------------------------------
(***************************************************************************)
(* The second half of the cc-ledger v1 fold: pinned edges, their author's  *)
(* reaffirmations, attestations of media (edges.rs) and the support graph  *)
(* that verdicts are read from (edges.rs, rule.rs).                        *)
(*                                                                         *)
(* An edge event has the fields kind, parents, author, time, decision,     *)
(* subject, key, grant (all three absent in a proper one) and              *)
(*   edge_assert    relation, pins                                         *)
(*   edge_reaffirm  edge, pins (the new ones), old (pins by parent)        *)
(*   attestation    tkind, target, artifact                                *)
(* with pins = [source, target] of [subject, basis, revision, body].  A    *)
(* revision is named by the event that creates it, as in LedgerFold.       *)
(***************************************************************************)
EXTENDS LedgerFold

RELATIONS == {"causation", "co_occurrence", "disputes", "influence", "participation"}

(* The edge an event belongs to.                                           *)
EdgeOf(all, id) ==
    CASE all[id].kind = "edge_assert" -> id
      [] all[id].kind = "edge_reaffirm" -> all[id].edge
      [] OTHER -> None

Asserts(all) == {id \in DOMAIN all : all[id].kind = "edge_assert"}
Attestations(all) == {id \in DOMAIN all : all[id].kind = "attestation"}

(* What edges read of the valid subject events.                            *)
Subjects(all, status) ==
    LET valid == Sub(all, {id \in ValidIn(status) : IsSubject(all[id])})
    IN  [valid |-> valid, selected |-> Selections(valid),
         revisions |-> {id \in DOMAIN valid : CreatesRevision(valid[id])}]

-----------------------------------------------------------------------------
(* Admission of edges and attestations                                     *)

(* The basis is a valid event of the pinned subject that selects exactly   *)
(* the pinned revision, which binds exactly the pinned body.               *)
CheckPin(pin, all, out, s) ==
    LET missing == {pin.subject, pin.basis} \ DOMAIN all IN
    IF missing # {} THEN Pending("pin_missing", missing)
    ELSE IF \/ all[pin.subject].kind # "genesis"
            \/ ~IsSubject(all[pin.basis])
            \/ SubjectOf(all, pin.basis) # pin.subject
    THEN Invalid("pin_subject")
    ELSE IF out[pin.basis].state = "invalid" THEN Invalid("pin_invalid")
    ELSE IF out[pin.basis].state = "pending" THEN Pending("pin_pending", {})
    ELSE IF s.selected[pin.basis] # pin.revision THEN Invalid("pin_revision")
    ELSE IF all[pin.revision].body # pin.body THEN Invalid("pin_body")
    ELSE Valid

(* An invalid pin decides; else what is missing on either side; else a     *)
(* pending pin.                                                            *)
CheckPins(pins, all, out, s) ==
    LET src == CheckPin(pins.source, all, out, s)
        tgt == CheckPin(pins.target, all, out, s)
        missing == src.missing \cup tgt.missing
    IN  IF src.state = "invalid" THEN src
        ELSE IF tgt.state = "invalid" THEN tgt
        ELSE IF missing # {} THEN Pending("pin_missing", missing)
        ELSE IF src.state = "pending" THEN src
        ELSE tgt

EvaluateAssert(all, e, out, s) ==
    LET pins == CheckPins(e.pins, all, out, s) IN
    IF e.parents # {} THEN Invalid("parents")
    ELSE IF e.decision # "sound" THEN Invalid("decision_mismatch")
    ELSE IF e.relation \notin RELATIONS THEN Invalid("relation")
    ELSE IF pins # Valid THEN pins
    ELSE IF /\ e.relation = "disputes"
            /\ \/ e.pins.source.subject = e.pins.target.subject
               \/ all[e.pins.source.subject].author # e.author
    THEN Invalid("dispute_counterclaim")
    ELSE Valid

(* What a reaffirmation says against its parents, all of them valid.       *)
ReaffirmFault(all, e) ==
    LET base == all[e.edge] IN
    IF \E p \in e.parents : ConeOf(all, p) \cap e.parents # {p} THEN "comparable_parents"
    ELSE IF \/ e.pins.source.subject # base.pins.source.subject
            \/ e.pins.target.subject # base.pins.target.subject
    THEN "endpoint_changed"
    ELSE IF \/ DOMAIN e.old # e.parents
            \/ \E p \in e.parents : e.old[p] # all[p].pins
            \/ e.decision # "sound"
    THEN "decision_mismatch" ELSE ""

EvaluateReaffirm(all, e, out, s) ==
    LET deps == e.parents \cup {e.edge}
        missing == deps \ DOMAIN all
        states == {out[p].state : p \in deps}
    IN  IF e.parents = {} THEN Invalid("parents")
        ELSE IF missing # {} THEN Pending("parent_missing", missing)
        ELSE IF \/ all[e.edge].kind # "edge_assert"
                \/ \E p \in e.parents : EdgeOf(all, p) # e.edge
        THEN Invalid("wrong_edge")
        ELSE IF "invalid" \in states THEN Invalid("ancestor")
        ELSE IF e.author # all[e.edge].author THEN Invalid("edge_author")
        ELSE IF "pending" \in states THEN Pending("ancestor", {})
        ELSE IF ReaffirmFault(all, e) # "" THEN Invalid(ReaffirmFault(all, e))
        ELSE CheckPins(e.pins, all, out, s)

EvaluateAttestation(all, e, out, s) ==
    IF e.parents # {} THEN Invalid("parents")
    ELSE IF e.artifact = "none" THEN Invalid("artifact_kind")
    ELSE IF e.tkind = "revision"
    THEN IF e.target \in s.revisions THEN Valid
         ELSE Pending("revision_missing", {e.target})
    ELSE IF e.target \notin DOMAIN all THEN Pending("target_missing", {e.target})
    ELSE IF all[e.target].kind = "attestation" THEN Invalid("attestation_target")
    ELSE IF out[e.target].state = "invalid" THEN Invalid("target_invalid")
    ELSE IF out[e.target].state = "pending" THEN Pending("target_pending", {})
    ELSE Valid

EvaluateEdge(id, all, out, s) ==
    LET e == all[id] IN
    IF e.subject # None \/ e.key # None \/ e.grant # None \/ e.time # NoTime
    THEN Invalid("non_subject_header")
    ELSE CASE e.kind = "edge_assert" -> EvaluateAssert(all, e, out, s)
           [] e.kind = "edge_reaffirm" -> EvaluateReaffirm(all, e, out, s)
           [] e.kind = "attestation" -> EvaluateAttestation(all, e, out, s)

(* What an edge event waits for; an absent one or an attestation is not    *)
(* waited for.                                                             *)
EdgeReady(id, all, out) ==
    LET e == all[id] IN
    \A d \in e.parents \cup (IF e.kind = "edge_reaffirm" THEN {e.edge} ELSE {}) :
        d \in DOMAIN all /\ all[d].kind # "attestation" => d \in DOMAIN out

(* The edge event or attestation looked at next is decided if it can be.   *)
DecidedEdge(all, ids, s, out, id) ==
    IF id \in ids \ DOMAIN out /\ EdgeReady(id, all, out)
    THEN With(out, id, EvaluateEdge(id, all, out, s))
    ELSE out

EdgePass(all, ids, order, s, out) ==
    LET acc[i \in 0..Len(order)] ==
            IF i = 0 THEN out ELSE DecidedEdge(all, ids, s, acc[i - 1], order[i])
    IN  acc[Len(order)]

(* Repeated passes, in hash order, over the edges and then over the        *)
(* attestations (`ids'); what no pass reaches is a cycle.                  *)
EdgePasses(all, ids, order, status, s) ==
    LET after[n \in 0..Cardinality(ids)] ==
            IF n = 0 THEN status ELSE EdgePass(all, ids, order, s, after[n - 1])
    IN  Completed(DOMAIN status \cup ids, after[Cardinality(ids)])

ClassifyEdges(all, status, order) ==
    LET s == Subjects(all, status)
        rest == {id \in DOMAIN all : ~IsSubject(all[id])}
        edges == EdgePasses(all, rest \ Attestations(all), order, status, s)
    IN  EdgePasses(all, Attestations(all), order, edges, s)

-----------------------------------------------------------------------------
(* Readings of edges and media                                             *)

(* Mutant: only the selected revision is compared.                         *)
Endpoint_RevisionOnly(pin, p, s) ==
    IF p.state[pin.subject] = "contested" THEN "subject_contested"
    ELSE IF p.state[pin.subject] = "no_current_body" THEN "no_current_body"
    ELSE LET head == CHOOSE h \in p.frontier[pin.subject] : TRUE
         IN  IF s.selected[head] # pin.revision THEN "revision_changed" ELSE ""

(* What keeps a pin from being current under the projection p of the       *)
(* subjects: "" when nothing does.                                         *)
Endpoint(pin, p, s) ==
    IF p.state[pin.subject] = "contested" THEN "subject_contested"
    ELSE IF p.state[pin.subject] = "no_current_body" THEN "no_current_body"
    ELSE LET head == CHOOSE h \in p.frontier[pin.subject] : TRUE
             since == p.cones[head] \ p.cones[pin.basis]
         IN  IF pin.basis \notin p.cones[head] THEN "basis_not_ancestor"
             ELSE IF s.selected[head] # pin.revision THEN "revision_changed"
             ELSE IF \E id \in since : CreatesRevision(s.valid[id])
                                       /\ s.valid[id].kind # "genesis"
             THEN "revision_created_since_basis" ELSE ""

(* The valid chain of an edge and its maximal events.                      *)
ChainOf(all, status, edge) ==
    {id \in ValidIn(status) : EdgeOf(all, id) = edge}

HeadsOf(all, chain) == chain \ UNION {ConeOf(all, id) \ {id} : id \in chain}

EdgeRow(all, chain, heads, id) ==
    LET common == {x \in chain : \A h \in heads : x \in ConeOf(all, h)} IN
    IF heads = {id} THEN "head"
    ELSE IF Cardinality(heads) > 1 /\ (id \in heads \/ id \notin common)
    THEN "branch" ELSE "superseded"

(* The reading of one valid edge.                                          *)
EdgeReading(all, status, p, s, edge) ==
    LET chain == ChainOf(all, status, edge)
        heads == HeadsOf(all, chain)
        pins == {all[h].pins : h \in heads}
        one == CHOOSE x \in pins : TRUE
        src == Endpoint(one.source, p, s)
        tgt == Endpoint(one.target, p, s)
        conflict == Cardinality(heads) > 1
    IN  [author |-> all[edge].author, relation |-> all[edge].relation,
         ends |-> <<one.source.subject, one.target.subject>>,
         heads |-> heads, pins |-> pins, history |-> chain,
         rows |-> [id \in chain |-> EdgeRow(all, chain, heads, id)],
         reasons |-> IF conflict THEN {"edge_conflict"} ELSE {src, tgt} \ {""},
         status |-> IF conflict THEN "edge_conflict"
                    ELSE IF {src, tgt} = {""} THEN "current"
                    ELSE IF "subject_contested" \in {src, tgt} THEN "endpoint_contested"
                    ELSE "stale"]

(* The revision a valid attestation is about: the one it names, or the one *)
(* the event it names created.                                             *)
MediaReading(all, s, id) ==
    LET t == all[id].target
        revision == IF t \in s.revisions THEN t ELSE None
    IN  [author |-> all[id].author, target |-> t, revision |-> revision,
         body |-> IF revision = None THEN "none" ELSE all[revision].body]

(* project, the edges and media added to the readings p of the subjects.   *)
WithEdges(all, p, status, s) ==
    LET valid == ValidIn(status) IN
    [status |-> status, authority |-> p.authority, cones |-> p.cones,
     selected |-> p.selected, frontier |-> p.frontier, state |-> p.state,
     rows |-> p.rows, frozen |-> p.frozen,
     edges |-> [e \in Asserts(all) \cap valid |-> EdgeReading(all, status, p, s, e)],
     media |-> [m \in Attestations(all) \cap valid |-> MediaReading(all, s, m)]]

ProjectAll(all, order) ==
    LET subjects == Classify(all, order) IN
    WithEdges(all, ProjectOf(all, subjects, order),
              ClassifyEdges(all, subjects, order), Subjects(all, subjects))

-----------------------------------------------------------------------------
(* support_graph, and Snapshot::support: the graph that queries read.      *)

(* Why an edge is not support, given who is trusted.                       *)
Exclusions(all, edge, curators) ==
    (IF edge.status # "current" THEN {edge.status} \cup edge.reasons ELSE {})
    \cup (IF edge.relation = "disputes" THEN {"disputes_not_support"} ELSE {})
    \cup (IF edge.author \notin curators THEN {"untrusted_edge_author"} ELSE {})
    \cup (IF \E i \in 1..2 : all[edge.ends[i]].author \notin curators
          THEN {"untrusted_origin"} ELSE {})

(* Neighbours by subject, what each queried edge was withheld for, and the *)
(* state of each subject under the trusted authors.                        *)
SupportGraph(all, view, curators) ==
    LET why == [e \in DOMAIN view.edges |-> Exclusions(all, view.edges[e], curators)]
        used == {e \in DOMAIN view.edges : why[e] = {}}
        undecided == {id \in DOMAIN all : /\ all[id].kind \in {"edge_assert", "edge_reaffirm"}
                                          /\ view.status[id].state # "valid"}
    IN  [neighbors |-> [s \in DOMAIN view.state |->
            UNION {{[subject |-> view.edges[e].ends[3 - i], edge |-> e] :
                       i \in {j \in 1..2 : view.edges[e].ends[j] = s}} : e \in used}],
         excluded |-> {[event |-> e, ends |-> Range(view.edges[e].ends),
                        reasons |-> why[e]] : e \in DOMAIN why \ used}
                      \cup {[event |-> id, ends |-> {all[id].pins.source.subject,
                                                    all[id].pins.target.subject},
                             reasons |-> {view.status[id].reason}] : id \in undecided},
         subjects |-> [s \in DOMAIN view.state |->
            IF all[s].author \in curators THEN view.state[s] ELSE "untrusted_origin"]]

(* Snapshot::visibility of a resolved subject: its current revision must   *)
(* carry an asserted coordinate at or before as_of (0 when not asked).     *)
Visibility(all, view, subject, asOf) ==
    LET head == CHOOSE h \in view.frontier[subject] : TRUE
        time == all[view.selected[head]].time
    IN  IF asOf = 0 THEN "visible"
        ELSE IF time = NoTime THEN "asserted_time_unknown"
        ELSE IF time > asOf THEN "after_as_of" ELSE "visible"

(* Mutant: a hidden subject keeps being named as a neighbour of others.    *)
Hide_OneSide(g, s, reason) ==
    [g EXCEPT !.subjects[s] = reason, !.neighbors[s] = {}]

(* One hidden subject loses its neighbours, and they lose it; each edge    *)
(* becomes an exclusion.                                                   *)
Hide(g, s, reason) ==
    LET lost == {n.edge : n \in g.neighbors[s]}
    IN  [neighbors |-> [t \in DOMAIN g.neighbors |->
            IF t = s THEN {} ELSE {m \in g.neighbors[t] : m.edge \notin lost}],
         excluded |-> g.excluded \cup {[event |-> n.edge, ends |-> {s, n.subject},
                                       reasons |-> {reason}] : n \in g.neighbors[s]},
         subjects |-> [g.subjects EXCEPT ![s] = reason]]

SupportAt(all, view, curators, asOf, order) ==
    LET g == SupportGraph(all, view, curators)
        seen(s) == Visibility(all, view, s, asOf)
        hides(s) == s \in DOMAIN g.subjects /\ g.subjects[s] = "resolved" /\ seen(s) # "visible"
        after[i \in 0..Len(order)] ==
            IF i = 0 THEN g
            ELSE IF hides(order[i]) THEN Hide(after[i - 1], order[i], seen(order[i]))
            ELSE after[i - 1]
    IN  after[Len(order)]

(* What the current level reaches, and one step that leads to t from it.   *)
Reached(g, level) == UNION {{n.subject : n \in g.neighbors[s]} : s \in level}

Via(g, level, t) ==
    CHOOSE x \in {<<s, n.edge>> : s \in level, n \in UNION {g.neighbors[q] : q \in level}} :
        \E n \in g.neighbors[x[1]] : n.subject = t /\ n.edge = x[2]

(* One hop of the search: what the current level reaches first, each found *)
(* subject with the step that led to it.                                   *)
NextLevel(g, found, level) ==
    LET new == Reached(g, level) \ DOMAIN found
    IN  [found |-> [t \in DOMAIN found \cup new |->
                       IF t \in DOMAIN found THEN found[t] ELSE Via(g, level, t)],
         level |-> new]

(* The reason a queried subject cannot be an end of a path, "" if none.    *)
EndFault(g, s) ==
    IF s \notin DOMAIN g.subjects THEN "subject_unknown"
    ELSE IF g.subjects[s] = "resolved" THEN "" ELSE g.subjects[s]

(* SupportGraph::query: breadth first up to `hops' steps, no further once  *)
(* the target is found, and the path read back from the target.            *)
Search(g, from, to, hops) ==
    LET after[n \in 0..hops] ==
            IF n = 0 THEN [found |-> [s \in {from} |-> <<None, None>>], level |-> {from}]
            ELSE LET b == after[n - 1] IN
                 IF to \in DOMAIN b.found THEN b ELSE NextLevel(g, b.found, b.level)
    IN  after[hops].found

PathBack(found, from, to, hops) ==
    LET back[n \in 0..hops] ==
            IF n = 0 THEN [at |-> to, path |-> <<>>]
            ELSE LET b == back[n - 1] IN
                 IF b.at = from THEN b
                 ELSE [at |-> found[b.at][1], path |-> <<found[b.at][2]>> \o b.path]
    IN  back[hops].path

Query(g, from, to, hops) ==
    LET faults == ({EndFault(g, from), EndFault(g, to)} \ {""})
        found == Search(g, from, to, hops)
        touching == {x \in g.excluded : x.ends \cap {from, to} # {}}
        unsupported(why) == [supported |-> FALSE, reasons |-> why, excluded |-> touching]
    IN  IF faults # {} THEN unsupported(faults)
        ELSE IF from = to THEN unsupported({"same_subject"})
        ELSE IF to \in DOMAIN found
        THEN [supported |-> TRUE, path |-> PathBack(found, from, to, hops), excluded |-> touching]
        ELSE unsupported({"no_current_support_path"})
=============================================================================
