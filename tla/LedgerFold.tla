----------------------------- MODULE LedgerFold -----------------------------
(***************************************************************************)
(* The pure fold of cc-ledger v1: branch-local admission (classify), the   *)
(* authority calculus (authority::derive) and the subject projection       *)
(* (projection::project), as functions of a set of retained envelopes.     *)
(*                                                                         *)
(* `all' maps event ids to envelopes.  Ids are positive numbers standing   *)
(* for hashes: an envelope can only name ids signed before it, and 0 is    *)
(* "absent".  The root grant of a subject is named by its genesis, every   *)
(* other grant by its Delegate event, and a revision by the event that     *)
(* creates it: root_grant and revision_id are injective hashes of these.   *)
(* The code walks its maps in hash order; where that order could matter    *)
(* the operator takes it as the sequence `order', in which ids that are    *)
(* not in the map are passed over.                                         *)
(*                                                                         *)
(* Envelope fields: kind, parents, subject, key (subject_key), grant,      *)
(* author, body, time, decision, old (the decision's old body), grantee,   *)
(* issuer, target, cascade, pick (the revision a Resolve selects, 0 when   *)
(* it merges) and actions (its dispositions by parent).                    *)
(***************************************************************************)
EXTENDS Naturals, Sequences, FiniteSets, SequencesExt, TLC

None == 0

(* Asserted coordinates are numbers; one stands for a time whose precision *)
(* is left empty.                                                          *)
NoTime == 0
Imprecise == 9

(* Kinds that are not subject events: classified by edges::classify.       *)
EdgeKinds == {"edge_assert", "edge_reaffirm", "attestation"}
IsSubject(e) == e.kind \notin EdgeKinds

Valid == [state |-> "valid", reason |-> "", missing |-> {}]
Invalid(reason) == [state |-> "invalid", reason |-> reason, missing |-> {}]

(* Mutant: what cannot be decided yet is refused.                          *)
Pending_AsInvalid(reason, missing) == Invalid(reason)

Pending(reason, missing) == [state |-> "pending", reason |-> reason, missing |-> missing]

(* The only parent of an event that has one.                               *)
ParentOf(e) == CHOOSE p \in e.parents : TRUE

Sub(all, ids) == [id \in ids |-> all[id]]

With(f, id, value) == [x \in DOMAIN f \cup {id} |-> IF x = id THEN value ELSE f[x]]

SubjectOf(all, id) == IF all[id].subject = None THEN id ELSE all[id].subject

-----------------------------------------------------------------------------
(* authority.rs                                                            *)

(* Reflexive causal cones; of interest where every parent is there.        *)
Cones(all) ==
    LET cone[id \in DOMAIN all] ==
            {id} \cup UNION {cone[p] : p \in all[id].parents \cap DOMAIN all}
    IN  cone

ConeOf(all, head) == Cones(all)[head]

(* The grant an event is signed through.                                   *)
Signer(all, id) == IF all[id].grant = None THEN id ELSE all[id].grant

GrantsOf(all) == {id \in DOMAIN all : all[id].kind \in {"genesis", "delegate"}}
RevokesOf(all) == {id \in DOMAIN all : all[id].kind = "revoke"}
Issuer(all, g) == IF all[g].kind = "genesis" THEN None ELSE all[g].issuer
Holder(all, g) == IF all[g].kind = "genesis" THEN all[g].author ELSE all[g].grantee

(* The grants from the root down to g, g included.                         *)
Lineages(all) ==
    LET line[g \in GrantsOf(all)] ==
            {g} \cup (IF Issuer(all, g) \in GrantsOf(all) THEN line[Issuer(all, g)] ELSE {})
    IN  line

(* Revoke r retires grant g: its target, or below it when it cascades.     *)
Covers(all, lineage, r, g) ==
    all[r].target = g \/ (all[r].cascade /\ all[r].target \in lineage[g])

(* Mutant: only acts that follow the revoke are outside its cut.           *)
Outside_AfterOnly(all, cones, e, r) == r \in cones[e]

(* Event e is outside the past that revoke r acknowledges.                 *)
Outside(all, cones, e, r) == e \notin cones[ParentOf(all[r])]

(* The revokes by which the issuance of g, or of a grant above it, is      *)
(* cancelled: it was issued through a covered grant outside the cut.       *)
Cancellers(all, lineage, cones, effective, g) ==
    {r \in effective : \E a \in lineage[g] :
        /\ Issuer(all, a) # None
        /\ Covers(all, lineage, r, Issuer(all, a))
        /\ Outside(all, cones, a, r)}

(* Root self-revocations.                                                  *)
Relinquishments(all) ==
    {r \in RevokesOf(all) :
        Signer(all, r) = all[r].target /\ Issuer(all, all[r].target) = None}

(* Mutant: a revoke is not held to the cut of its own signing grant.       *)
Batch_NoCut(all, lineage, cones, effective, depth) ==
    {r \in RevokesOf(all) \ Relinquishments(all) :
        LET g == Signer(all, r) IN
        /\ Cardinality(lineage[g]) = depth
        /\ Cancellers(all, lineage, cones, effective, g) = {}}

(* The revokes signed at one depth of the grant tree that no effective     *)
(* revoke from above suppresses.                                           *)
Batch(all, lineage, cones, effective, depth) ==
    {r \in RevokesOf(all) \ Relinquishments(all) :
        LET g == Signer(all, r) IN
        /\ Cardinality(lineage[g]) = depth
        /\ Cancellers(all, lineage, cones, effective, g) = {}
        /\ ~\E q \in effective :
              Covers(all, lineage, q, g) /\ Outside(all, cones, r, q)}

(* Effective revokes, stratum by stratum from the root down.               *)
EffectiveRevokes(all, lineage, cones) ==
    LET upto[d \in 0..Cardinality(GrantsOf(all))] ==
            IF d = 0 THEN Relinquishments(all)
            ELSE LET above == upto[d - 1]
                 IN  above \cup Batch(all, lineage, cones, above, d)
    IN  upto[Cardinality(GrantsOf(all))]

(* Why an event has no authority effect of its own, before its ancestry is *)
(* looked at.                                                              *)
OwnEffect(all, lineage, cones, effective, id) ==
    LET g == Signer(all, id)
        controls == {r \in effective :
                        Covers(all, lineage, r, g) /\ Outside(all, cones, id, r)}
        cancels(h) == Cancellers(all, lineage, cones, effective, h)
    IN  IF id \in Relinquishments(all)
        THEN [reason |-> "root_relinquished", controls |-> {id}]
        ELSE IF controls # {}
        THEN [reason |-> "revoked_concurrent", controls |-> controls]
        ELSE IF id \in GrantsOf(all) /\ cancels(id) # {}
        THEN [reason |-> "canceled_grant", controls |-> cancels(id)]
        ELSE IF cancels(g) # {}
        THEN [reason |-> "canceled_authority", controls |-> cancels(g)]
        ELSE [reason |-> "", controls |-> {}]

(* The revokes an event inherits from suppressed parents, as known so far. *)
Inherited(all, effects, id) ==
    UNION {effects[p].controls :
             p \in {q \in all[id].parents :
                       effects[q].reason \notin {"", "root_relinquished"}}}

(* An event is marked the first time it inherits anything and not looked   *)
(* at again.                                                               *)
Marked(all, effects, id) ==
    IF id \in DOMAIN all /\ effects[id].reason = "" /\ Inherited(all, effects, id) # {}
    THEN [effects EXCEPT ![id] = [reason |-> "revoked_ancestor",
                                  controls |-> Inherited(all, effects, id)]]
    ELSE effects

(* One pass of the revoked_ancestor loop, in hash order.                   *)
AncestorPass(all, order, effects) ==
    LET eff[i \in 0..Len(order)] ==
            IF i = 0 THEN effects ELSE Marked(all, eff[i - 1], order[i])
    IN  eff[Len(order)]

(* Passes until nothing is left to inherit; `own' holds the own effects.   *)
Effects(all, own, effective, order) ==
    LET after[n \in 0..Cardinality(DOMAIN all)] ==
            IF n = 0 THEN own ELSE AncestorPass(all, order, after[n - 1])
    IN  IF effective = {} THEN own ELSE after[Cardinality(DOMAIN all)]

(* What derive concludes from the effective revokes.                       *)
Standing(all, lineage, cones, effective, order) ==
    LET own == [id \in DOMAIN all |-> OwnEffect(all, lineage, cones, effective, id)]
        canceled == {g \in GrantsOf(all) :
                        Cancellers(all, lineage, cones, effective, g) # {}}
        tombstones == {g \in GrantsOf(all) :
                          \E r \in effective : Covers(all, lineage, r, g)}
    IN  [grants |-> GrantsOf(all), effective |-> effective, canceled |-> canceled,
         tombstones |-> tombstones,
         active |-> GrantsOf(all) \ (canceled \cup tombstones),
         effects |-> Effects(all, own, effective, order)]

DeriveFrom(all, lineage, cones, order) ==
    Standing(all, lineage, cones, EffectiveRevokes(all, lineage, cones), order)

(* authority::derive over the causally closed set ids of valid subject     *)
(* events.                                                                 *)
Derive(all, ids, order) ==
    DeriveFrom(Sub(all, ids), Lineages(Sub(all, ids)), Cones(Sub(all, ids)), order)

(* A grant may revoke the grants strictly below it; a root also itself.    *)
InScope(all, signer, target) ==
    IF signer = target THEN Issuer(all, target) = None
    ELSE signer \in Lineages(all)[target]

-----------------------------------------------------------------------------
(* projection.rs: revisions and selections                                 *)

CreatesRevision(e) ==
    e.kind \in {"genesis", "correction"} \/ (e.kind = "resolve" /\ e.pick = None)

(* The revision each event selects: its own, the one a Resolve picks, or   *)
(* its parent's.                                                           *)
Selections(all) ==
    LET sel[id \in DOMAIN all] ==
            IF CreatesRevision(all[id]) THEN id
            ELSE IF all[id].kind = "resolve" THEN all[id].pick
            ELSE IF ParentOf(all[id]) \in DOMAIN all THEN sel[ParentOf(all[id])]
            ELSE None
    IN  sel

BodyAt(all, id) == all[Selections(all)[id]].body

-----------------------------------------------------------------------------
(* v1.rs: evaluate.  Each part returns "" or the reason it refuses.        *)

ParentsFault(e) ==
    IF \/ e.parents = {}
       \/ e.kind # "resolve" /\ Cardinality(e.parents) # 1
       \/ e.kind = "resolve" /\ Cardinality(e.parents) < 2
    THEN "parents"
    ELSE IF e.subject = None \/ e.key = None \/ e.grant = None
    THEN "subject_header" ELSE ""

(* Every parent belongs to the subject named and repeats its key (the code *)
(* asks both of one parent before the next, which only moves the reason).  *)
SubjectFault(all, e) ==
    IF \E p \in e.parents : SubjectOf(all, p) # e.subject THEN "wrong_subject"
    ELSE IF \E p \in e.parents : all[p].key # e.key THEN "subject_key_changed"
    ELSE ""

(* A decision that is not sound in itself (kind, parents, rationale,       *)
(* evidence); its old and new values matter to a correction only, where    *)
(* the old body depends on the history.                                    *)
DecisionFault(e) ==
    IF e.decision # "sound" THEN "decision_mismatch"
    ELSE IF e.kind \in {"delegate", "revoke"} /\ e.time # NoTime
    THEN "authority_time_edit" ELSE ""

(* The signing grant is active in every parent's cone and in their union.  *)
AuthorityFault(all, e, view, order) ==
    IF e.kind = "resolve" /\ \E p \in e.parents : ConeOf(all, p) \cap e.parents # {p}
    THEN "comparable_parents"
    ELSE IF \/ e.grant \notin view.active
            \/ Holder(all, e.grant) # e.author
            \/ \E p \in e.parents :
                  e.grant \notin Derive(all, ConeOf(all, p), order).active
    THEN "parent_authority" ELSE ""

CorrectionFault(all, e, past) ==
    IF e.old # BodyAt(past, ParentOf(e)) THEN "decision_mismatch" ELSE ""

DelegateFault(all, e, view) ==
    IF e.issuer # e.grant THEN "issuer_grant_mismatch"
    ELSE IF \E g \in view.grants : Holder(all, g) = e.grantee THEN "key_not_fresh"
    ELSE ""

RevokeFault(all, e, past, view) ==
    IF e.target \notin view.active \/ ~InScope(past, e.grant, e.target)
    THEN "revocation_scope" ELSE ""

ResolveFault(all, e, past, view) ==
    LET acts == {e.actions[p] : p \in e.parents} IN
    IF e.pick = None
    THEN IF "selected" \in acts \/ "merged" \notin acts
         THEN "disposition_mismatch" ELSE ""
    ELSE IF e.pick \notin DOMAIN past \/ ~CreatesRevision(all[e.pick])
    THEN "revision_unreachable"
    ELSE IF view.effects[e.pick].reason # "" THEN "revision_ineligible"
    ELSE IF e.time # NoTime THEN "selection_time_edit"
    ELSE IF \/ "merged" \in acts \/ "selected" \notin acts
            \/ \E p \in e.parents : e.actions[p] = "selected"
                                    /\ e.pick \notin ConeOf(past, p)
    THEN "disposition_mismatch" ELSE ""

KindFault(all, e, past, view) ==
    CASE e.kind = "correction" -> CorrectionFault(all, e, past)
      [] e.kind = "delegate" -> DelegateFault(all, e, view)
      [] e.kind = "revoke" -> RevokeFault(all, e, past, view)
      [] e.kind = "resolve" -> ResolveFault(all, e, past, view)

(* The checks run in this order and the first refusal is the verdict.      *)
Verdict(faults) ==
    LET refused == {i \in DOMAIN faults : faults[i] # ""}
    IN  IF refused = {} THEN Valid
        ELSE Invalid(faults[CHOOSE i \in refused : \A j \in refused : i <= j])

(* What follows once the parents are known to be valid: past holds their   *)
(* cones and view is the authority derived from it.                        *)
Semantics(all, e, past, view, order) ==
    Verdict(<<DecisionFault(e), AuthorityFault(all, e, view, order),
              KindFault(all, e, past, view)>>)

PastIds(all, e) == UNION {ConeOf(all, p) : p \in e.parents}

MissingParents(all, e) == e.parents \ DOMAIN all

(* The status of subject event id, given those of its parents in `out'.    *)
Evaluate(id, all, out, order) ==
    LET e == all[id]
        missing == MissingParents(all, e)
        parentStates == {out[p].state : p \in e.parents}
    IN  IF e.time = Imprecise THEN Invalid("precision")
        ELSE IF e.kind = "genesis"
        THEN IF e.subject = None /\ e.grant = None /\ e.parents = {} /\ e.key # None
             THEN Valid ELSE Invalid("genesis")
        ELSE IF ParentsFault(e) # "" THEN Invalid(ParentsFault(e))
        ELSE IF missing # {} THEN Pending("parent_missing", missing)
        ELSE IF \E p \in e.parents : ~IsSubject(all[p]) THEN Invalid("wrong_subject")
        ELSE IF "invalid" \in parentStates THEN Invalid("ancestor")
        ELSE IF SubjectFault(all, e) # "" THEN Invalid(SubjectFault(all, e))
        ELSE IF "pending" \in parentStates THEN Pending("ancestor", {})
        ELSE IF e.subject \notin DOMAIN all THEN Pending("subject_missing", {e.subject})
        ELSE IF all[e.subject].kind # "genesis" THEN Invalid("wrong_subject")
        ELSE Semantics(all, e, Sub(all, PastIds(all, e)),
                       Derive(all, PastIds(all, e), order), order)

SubjectIds(all) == {id \in DOMAIN all : IsSubject(all[id])}

(* An event can be evaluated when its parents have been, or when one of    *)
(* them is not a retained subject event (it is then pending or invalid).   *)
Ready(id, all, out) ==
    \/ all[id].kind = "genesis"
    \/ \E p \in all[id].parents : ~(p \in DOMAIN all /\ IsSubject(all[p]))
    \/ all[id].parents \subseteq DOMAIN out

(* The candidate looked at next is decided if it can be.                   *)
Decided(all, order, out, id) ==
    IF id \in SubjectIds(all) \ DOMAIN out /\ Ready(id, all, out)
    THEN With(out, id, Evaluate(id, all, out, order))
    ELSE out

(* One pass of the classification loop over the candidates in hash order.  *)
ClassifyPass(all, order, out) ==
    LET acc[i \in 0..Len(order)] ==
            IF i = 0 THEN out ELSE Decided(all, order, acc[i - 1], order[i])
    IN  acc[Len(order)]

(* What no pass could reach is a cycle.                                    *)
Completed(subjects, out) ==
    [id \in subjects |-> IF id \in DOMAIN out THEN out[id] ELSE Invalid("cycle")]

(* Mutant: a single pass, what it could not reach is a cycle.              *)
Classify_OnePass(all, order) ==
    Completed(SubjectIds(all), ClassifyPass(all, order, <<>>))

(* classify, for the subject events: passes until every one has a status,  *)
(* or until a pass adds nothing.                                           *)
Classify(all, order) ==
    LET after[n \in 0..Cardinality(SubjectIds(all))] ==
            IF n = 0 THEN <<>>
            ELSE LET out == after[n - 1] IN
                 IF DOMAIN out = SubjectIds(all) THEN out
                 ELSE ClassifyPass(all, order, out)
    IN  Completed(SubjectIds(all), after[Cardinality(SubjectIds(all))])

-----------------------------------------------------------------------------
(* v1.rs analyze and projection.rs project                                 *)

ValidIn(status) == {id \in DOMAIN status : status[id].state = "valid"}

(* The maximal eligible events of a subject; effective revokes consume     *)
(* their past even when they are not eligible themselves.                  *)
Frontier(all, cones, authority, subject) ==
    LET ids == {id \in DOMAIN all : SubjectOf(all, id) = subject}
        eligible == {id \in ids : authority.effects[id].reason = ""}
        consumers == eligible \cup (authority.effective \cap ids)
    IN  eligible \ UNION {cones[id] \ {id} : id \in consumers}

SubjectState(frontier) ==
    CASE Cardinality(frontier) = 0 -> "no_current_body"
      [] Cardinality(frontier) = 1 -> "resolved"
      [] OTHER -> "contested"

(* The projected state of one valid event.                                 *)
RowState(all, cones, authority, frontier, id) ==
    LET reason == authority.effects[id].reason
        common == {x \in DOMAIN all : \A f \in frontier : x \in cones[f]}
    IN  IF reason = "root_relinquished" THEN "superseded"
        ELSE IF reason # "" THEN "branch"
        ELSE IF frontier = {id} THEN "head"
        ELSE IF Cardinality(frontier) > 1 /\ (id \in frontier \/ id \notin common)
        THEN "branch" ELSE "superseded"

(* The projection of the valid events, given what was derived from them.   *)
Readings(valid, status, authority, cones) ==
    LET roots == {id \in DOMAIN valid : valid[id].kind = "genesis"}
        frontier == [s \in roots |-> Frontier(valid, cones, authority, s)]
    IN  [status |-> status, authority |-> authority, cones |-> cones,
         selected |-> Selections(valid), frontier |-> frontier,
         state |-> [s \in roots |-> SubjectState(frontier[s])],
         rows |-> [id \in DOMAIN valid |->
                     RowState(valid, cones, authority, frontier[SubjectOf(valid, id)], id)],
         frozen |-> {s \in roots :
                       ~\E g \in authority.active : SubjectOf(valid, g) = s}]

Analyze(all, status, ids, order) ==
    Readings(Sub(all, ids), status, Derive(all, ids, order), Cones(Sub(all, ids)))

ProjectOf(all, status, order) == Analyze(all, status, ValidIn(status), order)

Project(all, order) == ProjectOf(all, Classify(all, order), order)
=============================================================================
