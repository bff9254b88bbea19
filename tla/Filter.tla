------------------------------- MODULE Filter -------------------------------
(***************************************************************************)
(* The consensus rule of cc-filter: the evidence views it reads through,   *)
(* the bounded search Known_k with its canonical witness, the product of   *)
(* factors on the hot path and on the audit path, and the colour           *)
(* refinement kernel.                                                      *)
(*                                                                         *)
(* A view is a record with a "kind".  A snapshot keeps the three indexes   *)
(* SnapshotCorpus builds from records.  A store view keeps what the        *)
(* queries of PgCorpusView select from: the rows of edges, entities and    *)
(* vocabulary.  Entities, claim types, events and ticks are numbers, and a *)
(* list that the code sorts and deduplicates is a set.                     *)
(***************************************************************************)
EXTENDS Integers, Sequences, FiniteSets, SequencesExt, TLC

SENTINEL == 99                      \* Tick::SENTINEL

Known(t) == [tag |-> "known", at |-> t]
Unknown == [tag |-> "unknown", at |-> SENTINEL]
KnownOpen == [tag |-> "known_open", at |-> SENTINEL]
KnownClosed(t) == [tag |-> "known_closed", at |-> t]
UnknownClosure == [tag |-> "unknown_closure", at |-> SENTINEL]

Windowed(start, end, from) == [start |-> start, end |-> end, derived_from |-> from]
unrecorded == Windowed(Unknown, UnknownClosure, {})

Valid(from) == [tag |-> "valid", band_end |-> SENTINEL, derived_from |-> from]
Unrecorded == [tag |-> "unrecorded", band_end |-> SENTINEL, derived_from |-> {}]
OutsideValidity(end, from) == [tag |-> "outside", band_end |-> end, derived_from |-> from]

-----------------------------------------------------------------------------
(* SnapshotCorpus *)

EmptyCorpus == [kind |-> "snapshot", error |-> FALSE,
                cooccurrence |-> {}, windows |-> {}, rulings |-> {}]

(* Two records name one piece of evidence and disagree about what it says. *)
Disputed(set, r) ==
    \E p \in set : p.key = r.key /\ p.at = r.at /\ p.via = r.via /\ p.says # r.says

(* The last of two records about one piece of evidence replaces the first. *)
Insert(set, r) == {p \in set : ~(p.key = r.key /\ p.at = r.at /\ p.via = r.via)} \cup {r}

(* One turn of the loop of from_records; an error ends it. *)
Accrete(c, r) ==
    IF c.error THEN c
    ELSE CASE r.type = "cooccurrence" ->
                IF r.a = r.b THEN [c EXCEPT !.error = TRUE]
                ELSE [c EXCEPT !.cooccurrence = @ \cup
                        {[src |-> IF r.a < r.b THEN r.a ELSE r.b,
                          dst |-> IF r.a < r.b THEN r.b ELSE r.a,
                          at |-> r.at, via |-> r.via]}]
           [] r.type = "window" ->
                IF Disputed(c.windows, r) THEN [c EXCEPT !.error = TRUE]
                ELSE [c EXCEPT !.windows = Insert(@, r)]
           [] r.type = "ruling" ->
                IF Disputed(c.rulings, r) THEN [c EXCEPT !.error = TRUE]
                ELSE [c EXCEPT !.rulings = Insert(@, r)]

from_records(records) == FoldLeft(Accrete, EmptyCorpus, records)

(* Mutant: the bound is dropped. *)
AtOrBefore_Any(rows, asOf) == rows
AtOrBefore(rows, asOf) == {r \in rows : r.at <= asOf}

(* The last record at or before as_of, ties broken by event id. *)
Latest(rows, asOf) ==
    LET seen == AtOrBefore(rows, asOf) IN
    {r \in seen : \A p \in seen : p.at < r.at \/ (p.at = r.at /\ p.via <= r.via)}

SnapshotWindow(v, entity, asOf) ==
    LET latest == Latest({r \in v.windows : r.key = entity}, asOf) IN
    IF latest = {} THEN unrecorded
    ELSE LET r == CHOOSE r \in latest : TRUE
         IN  Windowed(r.says.start, r.says.end, {r.via})

SnapshotAdmissibility(v, c, asOf) ==
    LET latest == Latest({r \in v.rulings : r.key = c}, asOf) IN
    IF latest = {} THEN Unrecorded
    ELSE LET r == CHOOSE r \in latest : TRUE
         IN  IF r.says.tag = "valid" THEN Valid({r.via})
             ELSE OutsideValidity(r.says.at, {r.via})

-----------------------------------------------------------------------------
(* PgCorpusView *)

decode_window(row) == Windowed(row.start, row.end, {row.birth_event})

window_at(v, entity, asOf) ==
    LET rows == {r \in v.entities : r.entity_id = entity /\ r.birth_event_time <= asOf} IN
    IF rows = {} THEN unrecorded ELSE decode_window(CHOOSE r \in rows : TRUE)

BandEnded(row, asOf) == row.end.tag = "known_closed" /\ asOf > row.end.at

(* A declared type that has not begun is silence; one that was retired is
   contrary evidence.                                                      *)
admissibility_at(v, c, asOf) ==
    LET rows == {r \in v.vocabulary : r.claim_type = c} IN
    IF rows = {} THEN Unrecorded
    ELSE LET r == CHOOSE r \in rows : TRUE IN
         IF r.start.tag # "known" \/ asOf < r.start.at THEN Unrecorded
         ELSE IF BandEnded(r, asOf) THEN OutsideValidity(r.end.at, {r.declared_by})
         ELSE Valid({r.declared_by})

-----------------------------------------------------------------------------
(* The CorpusView trait. *)

(* Either end of an edge or of a co-occurrence sees the other. *)
Touching(rows, entity, asOf) ==
    LET seen == AtOrBefore(rows, asOf) IN
    {[other |-> r.dst, via |-> r.via] : r \in {x \in seen : x.src = entity}}
       \cup {[other |-> r.src, via |-> r.via] : r \in {x \in seen : x.dst = entity}}

neighbors_at(v, entity, asOf) == Touching(v.edges, entity, asOf)

neighbors(v, entity, asOf) ==
    IF v.kind = "snapshot" THEN Touching(v.cooccurrence, entity, asOf)
    ELSE neighbors_at(v, entity, asOf)

(* One query for a level: either end of an edge may be among the asked. *)
neighbors_many_at(v, entities, asOf) ==
    LET seen == AtOrBefore(v.edges, asOf) IN
    [e \in entities |-> {[other |-> r.dst, via |-> r.via] : r \in {x \in seen : x.src = e}}
                          \cup {[other |-> r.src, via |-> r.via] : r \in {x \in seen : x.dst = e}}]

neighbors_many(v, entities, asOf) ==
    IF v.kind = "snapshot" THEN [e \in entities |-> neighbors(v, e, asOf)]
    ELSE neighbors_many_at(v, entities, asOf)

window(v, entity, asOf) ==
    IF v.kind = "snapshot" THEN SnapshotWindow(v, entity, asOf) ELSE window_at(v, entity, asOf)

admissibility(v, c, asOf) ==
    IF v.kind = "snapshot" THEN SnapshotAdmissibility(v, c, asOf)
    ELSE admissibility_at(v, c, asOf)

-----------------------------------------------------------------------------
(* Known_k: one level of a breadth-first search, and the two phases. *)

Level(dist, next, depth) ==
    [dist |-> [x \in DOMAIN dist \cup next |-> IF x \in DOMAIN dist THEN dist[x] ELSE depth],
     frontier |-> next]
expand(v, frontier, dist, depth, asOf) ==
    LET fetched == neighbors_many(v, frontier, asOf)
    IN  Level(dist, {e.other : e \in UNION {fetched[x] : x \in frontier}} \ DOMAIN dist, depth)

NotMet == 65536           \* None: a distance is a u16

StartSearch(from, to) ==
    [distF |-> [x \in {from} |-> 0], distB |-> [x \in {to} |-> 0], frontF |-> {from}, frontB |-> {to},
     depthF |-> 0, depthB |-> 0, met |-> NotMet]

(* The condition of the while loop, and its early return. *)
Searching(s, k) ==
    s.met = NotMet /\ s.depthF + s.depthB < k /\ s.frontF # {} /\ s.frontB # {}

Met(distF, distB) ==
    LET both == DOMAIN distF \cap DOMAIN distB
        sums == {distF[e] + distB[e] : e \in both}
    IN  IF both = {} THEN NotMet ELSE CHOOSE d \in sums : \A x \in sums : d <= x

(* One turn: the smaller frontier is expanded, then the sides are compared. *)
Compared(s) == [s EXCEPT !.met = Met(s.distF, s.distB)]
Forward(s, level) ==
    [s EXCEPT !.depthF = @ + 1, !.distF = level.dist, !.frontF = level.frontier]
Backward(s, level) ==
    [s EXCEPT !.depthB = @ + 1, !.distB = level.dist, !.frontB = level.frontier]
SearchStep(v, s, asOf) ==
    Compared(IF Cardinality(s.frontF) <= Cardinality(s.frontB)
             THEN Forward(s, expand(v, s.frontF, s.distF, s.depthF + 1, asOf))
             ELSE Backward(s, expand(v, s.frontB, s.distB, s.depthB + 1, asOf)))

Turns(k) == [i \in 1..k |-> i]

shortest_distance(v, from, to, k, asOf) ==
    LET end == FoldLeft(LAMBDA s, i : IF Searching(s, k) THEN SearchStep(v, s, asOf) ELSE s,
                        StartSearch(from, to), Turns(k))
    IN  IF end.met <= k THEN end.met ELSE NotMet

StartLabels(target) == [dist |-> [x \in {target} |-> 0], frontier |-> {target}]

(* A level of labels from an empty frontier adds nothing. *)
LabelStep(v, b, depth, asOf) == expand(v, b.frontier, b.dist, depth, asOf)

backward_labels(v, target, d, asOf) ==
    FoldLeft(LAMBDA b, i : LabelStep(v, b, i, asOf), StartLabels(target), Turns(d)).dist

StartWalk(from, d) == [cur |-> from, remaining |-> d, steps |-> <<>>, inconsistent |-> FALSE]

(* The least (other, via) whose label is one less. *)
Before(e, f) == e.other < f.other \/ (e.other = f.other /\ e.via <= f.via)
Before_ByEvent(e, f) == e.via < f.via \/ (e.via = f.via /\ e.other <= f.other)
(* Mutant: the event decides before the entity. *)
LeastOf_ByEvent(edges) == CHOOSE e \in edges : \A f \in edges : Before_ByEvent(e, f)
LeastOf(edges) == CHOOSE e \in edges : \A f \in edges : Before(e, f)

Taken(w, e) == [w EXCEPT !.cur = e.other, !.remaining = @ - 1, !.steps = Append(@, e)]
WalkStep(v, w, back, asOf) ==
    LET on == {e \in neighbors(v, w.cur, asOf) :
                 e.other \in DOMAIN back /\ back[e.other] = w.remaining - 1}
    IN  IF on = {} THEN [w EXCEPT !.inconsistent = TRUE] ELSE Taken(w, LeastOf(on))

greedy_lex_min_walk(v, from, d, back, asOf) ==
    FoldLeft(LAMBDA w, i : IF w.inconsistent THEN w ELSE WalkStep(v, w, back, asOf),
             StartWalk(from, d), Turns(d))

NoSupport == [hops |-> NotMet, steps |-> <<>>]
ReflexiveSupport == [hops |-> 0, steps |-> <<>>]

known_k(v, from, to, k, asOf) ==
    IF from = to THEN ReflexiveSupport
    ELSE LET d == shortest_distance(v, from, to, k, asOf) IN
         IF k = 0 \/ d = NotMet THEN NoSupport
         ELSE [hops |-> d,
               steps |-> greedy_lex_min_walk(v, from, d, backward_labels(v, to, d, asOf), asOf).steps]

-----------------------------------------------------------------------------
(* The product of the factors. *)

Holds == [arm |-> "holds", why |-> "none", of |-> 0]
Absent(why, of) == [arm |-> "absent", why |-> why, of |-> of]
Contrary(why, of) == [arm |-> "contrary", why |-> why, of |-> of]

(* A recorded cessation is looked at before an unknown start. *)
window_factor(w, t, f) ==
    IF w.end.tag = "known_closed" /\ t > w.end.at THEN Contrary("after_recorded_cessation", f)
    ELSE IF w.start.tag = "unknown" THEN Absent("no_recorded_start", f)
    ELSE IF t < w.start.at THEN Absent("before_recorded_start", f)
    ELSE Holds

admiss_factor(a, c) ==
    CASE a.tag = "valid" -> Holds
      [] a.tag = "unrecorded" -> Absent("claim_type_unrecorded", c)
      [] a.tag = "outside" -> Contrary("claim_type_outside_validity", c)

reach_factor(support, q) ==
    IF support = NoSupport THEN Absent("no_evidenced_walk", q.k) ELSE Holds

Verdict(kind, because, support) == [kind |-> kind, because |-> because, support |-> support]
Refusal(why) == [kind |-> "refused", because |-> {why}, support |-> NoSupport]
Rejected(f) ==
    Verdict(IF f.arm = "absent" THEN "Unsupported" ELSE "Contradicted", {f}, NoSupport)

check_query(q, kMax) ==
    IF q.k > kMax THEN "hop_bound" ELSE IF q.t = SENTINEL THEN "sentinel" ELSE "ok"

(* Hot path: the first factor that vanishes decides. *)
feasibility(v, q, kMax) ==
    LET w1 == window_factor(window(v, q.from, q.t), q.t, q.from)
        w2 == window_factor(window(v, q.to, q.t), q.t, q.to)
        a == admiss_factor(admissibility(v, q.claim, q.t), q.claim)
        support == known_k(v, q.from, q.to, q.k, q.t)
        r == reach_factor(support, q)
    IN  IF check_query(q, kMax) # "ok" THEN Refusal(check_query(q, kMax))
        ELSE IF w1 # Holds THEN Rejected(w1)
        ELSE IF w2 # Holds THEN Rejected(w2)
        ELSE IF a # Holds THEN Rejected(a)
        ELSE IF r # Holds THEN Rejected(r)
        ELSE Verdict("Supported", {}, support)

Vanished(outcomes, arm) == {f \in Range(outcomes) : f.arm = arm}
FirstZero(outcomes) == outcomes[Min({i \in DOMAIN outcomes : outcomes[i].arm # "holds"})]

(* The kind comes from the first factor that vanishes, the witnesses of an
   absence from all of them.                                               *)
combine(outcomes, support) ==
    IF \A f \in Range(outcomes) : f.arm = "holds" THEN Verdict("Supported", {}, support)
    ELSE IF FirstZero(outcomes).arm = "contrary" THEN Rejected(FirstZero(outcomes))
    ELSE Verdict("Unsupported", Vanished(outcomes, "absent"), NoSupport)

(* Audit path: all factors, and every event they were read from. *)
Certificate(w1, w2, a, support, q) ==
    LET outcomes == <<window_factor(w1, q.t, q.from), window_factor(w2, q.t, q.to),
                      admiss_factor(a, q.claim), reach_factor(support, q)>>
    IN  [verdict |-> combine(outcomes, support),
         consulted |-> w1.derived_from \cup w2.derived_from \cup a.derived_from
                         \cup {support.steps[i].via : i \in DOMAIN support.steps},
         absences |-> Vanished(outcomes, "absent"),
         contradictions |-> Vanished(outcomes, "contrary")]

certify(v, q, kMax) ==
    IF check_query(q, kMax) # "ok"
    THEN [verdict |-> Refusal(check_query(q, kMax)), consulted |-> {},
          absences |-> {}, contradictions |-> {}]
    ELSE Certificate(window(v, q.from, q.t), window(v, q.to, q.t),
                     admissibility(v, q.claim, q.t), known_k(v, q.from, q.to, q.k, q.t), q)

consensus_projection(verdict) == [kind |-> verdict.kind, support |-> verdict.support]

-----------------------------------------------------------------------------
(* Colour refinement.  A colour is the derivation it is the hash of; the
   sorted list of neighbour colours is the bag of them.                    *)

ball(v, seeds, asOf, radius) ==
    FoldLeft(LAMBDA b, i :
                LET next == {e.other : e \in UNION {neighbors(v, x, asOf) : x \in b.frontier}}
                              \ b.scope
                IN  [scope |-> b.scope \cup next, frontier |-> next],
             [scope |-> seeds, frontier |-> seeds], Turns(radius)).scope

Recolour(v, scope, colors, e, asOf) ==
    LET seen == {n \in neighbors(v, e, asOf) : n.other \in scope}
    IN  [own |-> colors[e],
         bag |-> [c \in {colors[n.other] : n \in seen} |->
                    Cardinality({n \in seen : colors[n.other] = c})]]

SEED == [own |-> "seed", bag |-> <<>>]

refine(v, scope, asOf, rounds) ==
    FoldLeft(LAMBDA colors, i : [e \in scope |-> Recolour(v, scope, colors, e, asOf)],
             [e \in scope |-> SEED], Turns(rounds))
-----------------------------------------------------------------------------
(* The instances the properties are checked on. *)

Pairs == {p \in (1..5) \X (1..5) : p[1] < p[2]}

(* Every pair of a graph is evidenced once, those with an odd sum twice. *)
Graph(g) ==
    [EmptyCorpus EXCEPT !.cooccurrence =
        {[src |-> p[1], dst |-> p[2], at |-> 1, via |-> 60 - 10 * p[1] - p[2]] : p \in g}
          \cup {[src |-> p[1], dst |-> p[2], at |-> 1, via |-> 70] :
                  p \in {x \in g : (x[1] + x[2]) % 2 = 1}}]

(* The walks of d evidenced steps that leave from an entity. *)
WalksFrom(v, from, d) ==
    LET ends(w) == IF w = <<>> THEN from ELSE w[Len(w)].other
        walks[i \in 0..d] ==
            IF i = 0 THEN {<<>>}
            ELSE UNION {{Append(w, e) : e \in neighbors(v, ends(w), 1)} : w \in walks[i - 1]}
    IN  walks[d]

ReachedIn(v, from, d, asOf) ==
    LET level[i \in 0..d] ==
            IF i = 0 THEN {from}
            ELSE {e.other : e \in UNION {neighbors(v, x, asOf) : x \in level[i - 1]}}
    IN  level[d]

Precedes(w, u) ==
    w = u \/ \E i \in DOMAIN w : w[i] # u[i] /\ Before(w[i], u[i])
                                /\ \A j \in 1..(i - 1) : w[j] = u[j]

(***************************************************************************)
(* The bidirectional search of reach.rs decides exactly whether an         *)
(* evidenced walk of at most k steps exists, reports the length of the     *)
(* shortest one, and its greedy witness is the least of all walks of that  *)
(* length in the (other, via) order, whichever side was expanded first.    *)
(***************************************************************************)
ReachIsExact(g, k) ==
    LET v == Graph(g)
        support == known_k(v, 1, 5, k, 1)
        lengths == {d \in 0..k : 5 \in ReachedIn(v, 1, d, 1)}
    IN  IF lengths = {} THEN support = NoSupport
        ELSE LET d == CHOOSE d \in lengths : \A x \in lengths : d <= x
                 walks == {w \in WalksFrom(v, 1, d) : w[d].other = 5}
             IN  /\ support.hops = d /\ support.steps \in walks
                 /\ \A w \in walks : Precedes(support.steps, w)

(***************************************************************************)
(* A colour refined inside a ball of as many hops as there are rounds is   *)
(* the colour the entity has in the whole graph (wl.rs promises it for a   *)
(* radius of at least the rounds).                                         *)
(***************************************************************************)
BallIsEnough(g, rounds) ==
    LET v == Graph(g)
    IN  refine(v, ball(v, {1}, 1, rounds), 1, rounds)[1] = refine(v, 1..5, 1, rounds)[1]

Cooc(a, b, at, via) == [type |-> "cooccurrence", a |-> a, b |-> b, at |-> at, via |-> via]
Win(e, at, via, start, end) ==
    [type |-> "window", key |-> e, at |-> at, via |-> via, says |-> [start |-> start, end |-> end]]
Rule(c, at, via, tag, end) ==
    [type |-> "ruling", key |-> c, at |-> at, via |-> via, says |-> [tag |-> tag, at |-> end]]

Histories ==
    [one : {<<>>, <<Win(1, 1, 11, Known(1), KnownOpen)>>,
            <<Win(1, 1, 11, Known(1), KnownClosed(2))>>,
            <<Win(1, 1, 11, Unknown, KnownClosed(1))>>,
            <<Win(1, 1, 11, Known(1), UnknownClosure), Win(1, 3, 12, Known(1), KnownClosed(1))>>},
     two : {<<>>, <<Win(2, 1, 21, Known(1), KnownOpen)>>, <<Win(2, 1, 21, Known(3), KnownOpen)>>},
     rules : {<<>>, <<Rule(7, 1, 31, "valid", 0)>>,
              <<Rule(7, 1, 31, "valid", 0), Rule(7, 3, 32, "outside", 2)>>},
     met : {<<>>, <<Cooc(2, 1, 1, 41)>>, <<Cooc(1, 2, 3, 42)>>,
            <<Cooc(1, 3, 1, 43), Cooc(3, 2, 2, 44)>>},
     t : 1..3, k : 0..2, kMax : 1..2]

CorpusOf(h) == from_records(h.one \o h.two \o h.rules \o h.met)
QueryOf(h) == [from |-> 1, to |-> 2, t |-> h.t, claim |-> 7, k |-> h.k]

(***************************************************************************)
(* The audit path of certify never differs from the short-circuit of       *)
(* feasibility in what two nodes compare, its witnesses are empty exactly  *)
(* when the claim is supported, and what vanished first is among them.     *)
(***************************************************************************)
AuditAgrees(h) ==
    \E v \in {CorpusOf(h)} :
    \E f \in {feasibility(v, QueryOf(h), h.kMax)}, c \in {certify(v, QueryOf(h), h.kMax)} :
        LET found == c.absences \cup c.contradictions
        IN  /\ consensus_projection(f) = consensus_projection(c.verdict)
            /\ f.kind = "refused" \/ ((found = {}) <=> (f.kind = "Supported"))
            /\ f.kind \in {"Unsupported", "Contradicted"} =>
                 f.because \subseteq found

(***************************************************************************)
(* A verdict pinned to t_q does not change when evidence that takes effect *)
(* after t_q is recorded: the certificate is the one taken over the        *)
(* records at or before t_q.                                               *)
(***************************************************************************)
JudgmentIsPinned(h) ==
    \E v \in {CorpusOf(h)} :
        LET early(rows) == {r \in rows : r.at <= h.t}
            past == [v EXCEPT !.cooccurrence = early(@), !.windows = early(@), !.rulings = early(@)]
        IN  Cardinality({certify(x, QueryOf(h), h.kMax) : x \in {v, past}}) = 1

Deck == {Cooc(1, 2, 1, 41), Cooc(2, 1, 1, 41), Cooc(3, 3, 1, 45),
         Win(1, 1, 11, Known(1), KnownOpen), Win(1, 1, 11, Known(1), UnknownClosure),
         Win(2, 1, 11, Known(1), KnownOpen), Rule(7, 1, 31, "valid", 0),
         Rule(7, 1, 31, "outside", 1), Rule(7, 2, 31, "outside", 1)}

(***************************************************************************)
(* The order in which records arrive decides neither whether from_records  *)
(* accepts them nor the corpus it builds from them.                        *)
(***************************************************************************)
OrderIsFree(records) ==
    \A perm \in Permutations(DOMAIN records) :
        LET one == from_records(records)
            other == from_records([i \in DOMAIN records |-> records[perm[i]]])
        IN  one.error = other.error /\ (one.error \/ one = other)

Bands == {[start |-> s, end |-> e] : s \in {Unknown, Known(1), Known(2)},
                                     e \in {KnownOpen, KnownClosed(2), KnownClosed(3), UnknownClosure}}

StoreView(w, born, band) ==
    [kind |-> "store", edges |-> {},
     entities |-> {[entity_id |-> 1, birth_event |-> 11, birth_event_time |-> born,
                    start |-> w.start, end |-> w.end]},
     vocabulary |-> {[claim_type |-> 7, declared_by |-> 31,
                      start |-> band.start, end |-> band.end]}]

(* The same evidence as records: the type is ruled valid when its band
   begins, and outside when it has ended.                                  *)
SnapshotOf(w, born, band) ==
    from_records(<<Win(1, born, 11, w.start, w.end)>>
      \o (IF band.start.tag = "known" THEN <<Rule(7, band.start.at, 31, "valid", 0)>> ELSE <<>>)
      \o (IF band.start.tag = "known" /\ band.end.tag = "known_closed"
          THEN <<Rule(7, band.end.at + 1, 31, "outside", band.end.at)>> ELSE <<>>))

(***************************************************************************)
(* The view over the store and the view over a snapshot of the same        *)
(* evidence answer every factor alike at every coordinate, the edges of a  *)
(* validity band included.                                                 *)
(***************************************************************************)
ViewsAgree(w, born, band) ==
    \A t \in 0..5 :
        LET a == StoreView(w, born, band)
            b == SnapshotOf(w, born, band)
        IN  /\ window(a, 1, t) = window(b, 1, t)
            /\ admissibility(a, 7, t) = admissibility(b, 7, t)
=============================================================================
