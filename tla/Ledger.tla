------------------------------- MODULE Ledger -------------------------------
(***************************************************************************)
(* Curators sign events and the store admits them in any order.  After     *)
(* every admission the committed view is the fold of exactly what is       *)
(* retained (Store::admit recomputes analyze; Snapshot::of project).       *)
(* Subject events are signed freely; edges, reaffirmations and             *)
(* attestations come from the setups.                                      *)
(*                                                                         *)
(* An event id is its position in `events': an envelope names only ids     *)
(* that already exist, as hashes force it to.  An event may be withheld    *)
(* after it is signed and arrive late, so parents may be missing.          *)
(***************************************************************************)
EXTENDS EdgeFold

CONSTANTS
    Setups,       \* what is signed and how far signing goes on: records of
                  \*   signed    envelopes that are already signed
                  \*   keys      keys that may be delegated to
                  \*   max       bound on the envelopes up to which more are signed
                  \*   withheld  bound on new envelopes signed and not submitted
                  \*   checked   signers first run the fold over what they extend
                  \*   orders    bound on the events whose every order is tried
    Curators,     \* authors the bound filter trusts
    MaxHops       \* its bound on the length of a support path

SubjectKinds == {"genesis", "correction", "delegate", "revoke", "resolve"}

(* What an envelope with the hash `id' can say: only envelopes that were   *)
(* there before it can be named by their hashes.                           *)
NamesThePast(e, id) ==
    /\ e.kind \in SubjectKinds \cup EdgeKinds
    /\ e.parents \subseteq 1..id - 1
    /\ {e.subject, e.grant} \subseteq 0..id - 1
    /\ e.kind = "delegate" => e.issuer \in 0..id - 1
    /\ e.kind \in {"revoke", "attestation"} => e.target \in 0..id - 1
    /\ e.kind = "resolve" => e.pick \in 0..id - 1
    /\ e.kind = "edge_reaffirm" => e.edge \in 0..id - 1
    /\ e.kind \in {"edge_assert", "edge_reaffirm"} =>
          \A pin \in {e.pins.source, e.pins.target} :
             {pin.subject, pin.basis, pin.revision} \subseteq 0..id - 1

ASSUME SetupAssumption ==
    \A s \in Setups : /\ s.signed \in Seq(ToSet(s.signed))
                      /\ \A id \in DOMAIN s.signed : NamesThePast(s.signed[id], id)

ASSUME HopsAssumption == MaxHops \in Nat

VARIABLES
    setup,        \* the setup of this behaviour, which never changes
    events,       \* every envelope signed so far, by id
    retained,     \* ids in cc_v1.candidates
    view          \* the fold of the retained envelopes

vars == <<setup, events, retained, view>>

Ids == DOMAIN events
Withheld == Ids \ retained

(* Ids stand in hash order here; properties about that order quantify over *)
(* every other one.                                                        *)
InOrder(evs) == [i \in 1..Len(evs) |-> i]
Fold(evs, ids) == ProjectAll(Sub(evs, ids), InOrder(evs))

-----------------------------------------------------------------------------
(* What a curator can sign through a grant: publisher v1/authority.rs      *)

Blank(kind, parents, g) ==
    [kind |-> kind, parents |-> parents, subject |-> SubjectOf(events, g),
     key |-> events[g].key, grant |-> g, author |-> Holder(events, g),
     body |-> "none", time |-> NoTime, decision |-> "sound", old |-> "none",
     grantee |-> "none", issuer |-> None, target |-> None, cascade |-> FALSE,
     pick |-> None, actions |-> <<>>]

Correction(g, p) ==
    [Blank("correction", {p}, g) EXCEPT !.body = "b", !.old = BodyAt(events, p)]

Delegation(g, p, k) ==
    [Blank("delegate", {p}, g) EXCEPT !.grantee = k, !.issuer = g]

Revocation(g, p, t, c) ==
    [Blank("revoke", {p}, g) EXCEPT !.target = t, !.cascade = c]

Merging(g, P) ==
    [Blank("resolve", P, g) EXCEPT !.body = "b", !.actions = [p \in P |-> "merged"]]

(* Dispositions that agree with the selection; the fold checks the others. *)
Selection(g, P, r) ==
    [Blank("resolve", P, g) EXCEPT !.pick = r,
        !.actions = [p \in P |-> IF r \in ConeOf(events, p) THEN "selected"
                                                            ELSE "not_selected"]]

DraftsOf(g) ==
    LET Pairs == {P \in SUBSET Ids : Cardinality(P) = 2} IN
    {Correction(g, p) : p \in Ids}
    \cup {Delegation(g, p, k) : p \in Ids, k \in setup.keys}
    \cup {Revocation(g, p, t, c) : p \in Ids, t \in GrantsOf(events), c \in BOOLEAN}
    \cup {Merging(g, P) : P \in Pairs}
    \cup {Selection(g, P, r) : P \in Pairs, r \in {id \in Ids : CreatesRevision(events[id])}}

Drafts == UNION {DraftsOf(g) : g \in GrantsOf(events)}

(* The fold of everything the draft builds on finds it valid.              *)
Checks(e) ==
    LET evs == Append(events, e)
    IN  Evaluate(Len(evs), evs, [id \in Ids |-> Valid], InOrder(evs)) = Valid

-----------------------------------------------------------------------------
Init ==
    /\ setup \in Setups
    /\ events = setup.signed
    /\ retained = {}
    /\ view = Fold(events, {})

(* Sign an envelope and submit it, or keep it for later.                   *)
Sign(e) ==
    /\ e \notin ToSet(events)
    /\ setup.checked => Checks(e)
    /\ events' = Append(events, e)
    /\ \/ retained' = retained \cup {Len(events) + 1}
       \/ Cardinality(Withheld) < setup.withheld /\ retained' = retained
    /\ view' = Fold(events', retained')
    /\ UNCHANGED setup

(* Store::admit of an envelope not yet retained; a duplicate changes       *)
(* nothing.                                                                *)
Admit(id) ==
    /\ id \in Withheld
    /\ retained' = retained \cup {id}
    /\ view' = Fold(events, retained')
    /\ UNCHANGED <<setup, events>>

Done ==
    /\ Withheld = {} /\ Len(events) >= setup.max
    /\ UNCHANGED vars

Next ==
    \/ /\ Len(events) < setup.max
       /\ Cardinality(Withheld) <= setup.withheld
       /\ \E e \in Drafts : Sign(e)
    \/ \E id \in Ids : Admit(id)
    \/ Done

Spec == Init /\ [][Next]_vars

-----------------------------------------------------------------------------
(* Vocabulary of the properties                                            *)

ValidIds == {id \in ValidIn(view.status) : IsSubject(events[id])}
Envelopes == Sub(events, ValidIds)
Newly == {id \in ValidIn(view'.status) : IsSubject(events'[id])} \ ValidIds

Reason(id) == view.authority.effects[id].reason
Suppressed(id) == Reason(id) \notin {"", "root_relinquished"}

(* Act a, signed through a grant that effective revoke r retires, is not   *)
(* part of the past r acknowledges.                                        *)
OutOfCut(a, r) ==
    /\ Covers(Envelopes, Lineages(Envelopes), r, Signer(Envelopes, a))
    /\ Outside(Envelopes, view.cones, a, r)

-----------------------------------------------------------------------------
(* Properties                                                              *)

(* classify: a candidate, subject event or edge or attestation, found      *)
(* valid or invalid stays so, whatever is retained later and in whatever   *)
(* order it arrives; only a pending one is ever decided again.  (The       *)
(* reason of an invalid one may still change, from its own fault to        *)
(* "ancestor".)                                                            *)
AdmissionIsFinal ==
    [][\A id \in DOMAIN view.status :
         view.status[id].state # "pending" =>
            view'.status[id].state = view.status[id].state]_vars

(* authority::derive: the revokes found effective stratum by stratum are   *)
(* the solution of the rule they stand for: a revoke counts unless its     *)
(* signing grant was cancelled or the act is out of the cut of a revoke    *)
(* that counts.                                                            *)
EffectiveIsFixpoint ==
    LET effective == view.authority.effective
        root == Relinquishments(Envelopes)
    IN  \A r \in RevokesOf(Envelopes) :
          r \in effective <=>
            \/ r \in root
            \/ /\ Signer(Envelopes, r) \notin view.authority.canceled
               /\ ~\E q \in effective : OutOfCut(r, q)

(* revocation scope: what a signer does can change the standing of grants  *)
(* strictly below its own only; siblings, issuers and the root are out of  *)
(* its reach, except that a root may give itself up.                       *)
AuthorityFlowsDown ==
    [][\A g \in view.authority.grants :
         (g \in view.authority.active) # (g \in view'.authority.active) =>
            \E r \in Newly \cap view'.authority.effective :
               LET s == Signer(events', r) IN
               /\ s \in Lineages(Envelopes')[g]
               /\ s = g => r \in Relinquishments(Envelopes')]_vars

(* project: acts that are suppressed and contribute no revocation change   *)
(* nothing: a resolved subject is not contested, no grant and no earlier   *)
(* reading moves because of them.                                          *)
SuppressedIsInert ==
    [][(\A n \in Newly : /\ view'.authority.effects[n].reason \notin {"", "root_relinquished"}
                         /\ n \notin view'.authority.effective) =>
         /\ \A s \in DOMAIN view.frontier : view'.frontier[s] = view.frontier[s]
         /\ view'.authority.active \cap view.authority.grants = view.authority.active
         /\ \A id \in ValidIds : view'.authority.effects[id] = view.authority.effects[id]]_vars

(* authority::derive: as long as a revoke that retires a grant counts,     *)
(* whatever is learnt to have been signed through that grant stays without *)
(* effect, wherever in the past the signer attached it.  (When one revoke  *)
(* takes the place of another the grant can stay retired all the while and *)
(* a new act still be in the cut of the one that now counts.)              *)
RetiredGrantsAreSilent ==
    [][\A n \in Newly, r \in view.authority.effective \cap view'.authority.effective :
         Covers(Envelopes', Lineages(Envelopes'), r, Signer(events', n)) =>
            view'.authority.effects[n].reason # ""]_vars

(* project: apart from what a root relinquishment lets through, a frontier *)
(* event has no suppressed ancestor and no out-of-cut act in its past.     *)
FrontierIsClean ==
    \A s \in DOMAIN view.frontier : \A h \in view.frontier[s] :
        view.cones[h] \cap Relinquishments(Envelopes) = {} =>
            \A a \in view.cones[h] :
               Reason(a) = "" /\ ~\E r \in view.authority.effective : OutOfCut(a, r)

(* authority.rs: "Suppressed body dependencies never become eligible       *)
(* through a good signer."                                                 *)
NoLaundering ==
    \A id \in ValidIds : Reason(id) = "" =>
        \A a \in view.cones[id] : ~Suppressed(a)

(* Hash orders of the retained events: every one of a few, the reverse one *)
(* of more; none where the setup asks for none.                            *)
Orders ==
    IF setup.orders = 0 THEN {}
    ELSE IF Cardinality(retained) <= setup.orders THEN SetToSeqs(retained)
    ELSE {Reverse(InOrder(events))}

ReadsAlike(v) ==
    /\ v.status = view.status /\ v.frontier = view.frontier
    /\ v.authority.active = view.authority.active
    /\ \A id \in ValidIds : v.authority.effects[id].reason = Reason(id)
    /\ v.edges = view.edges /\ v.media = view.media

(* classify and derive: "Dependency scheduling only. ID order never        *)
(* chooses an authority or body": statuses, reasons, grants, frontiers,    *)
(* edges and media are the same in every hash order.                       *)
OrderIsIrrelevant ==
    \A o \in Orders : ReadsAlike(ProjectAll(Sub(events, retained), o))

-----------------------------------------------------------------------------
(* Edges and verdicts                                                      *)

NewlyAny == ValidIn(view'.status) \ ValidIn(view.status)

(* edges.rs: "Edges never ... retarget a pin or infer a media decision":   *)
(* the reading of an edge moves only with its own chain or with a subject  *)
(* at one of its ends, and what an attestation is bound to never moves,    *)
(* whatever corrections arrive.                                            *)
EdgesAreLocal ==
    [][/\ \A e \in DOMAIN view.edges :
            view'.edges[e] # view.edges[e] =>
               \E n \in NewlyAny :
                  IF IsSubject(events'[n])
                  THEN SubjectOf(events', n) \in Range(view.edges[e].ends)
                  ELSE EdgeOf(events', n) = e
       /\ \A m \in DOMAIN view.media : view'.media[m] = view.media[m]]_vars

(* edges.rs evaluate: whatever chain is admitted, in whatever order, each  *)
(* head still joins the asserted subjects, was signed by the author of the *)
(* assertion, and pins a revision its basis selects.                       *)
ChainsKeepTheirEdge ==
    \A e \in DOMAIN view.edges :
        LET reading == view.edges[e] IN
        /\ e \in reading.history /\ reading.heads # {}
        /\ \A h \in reading.history :
             /\ events[h].author = reading.author
             /\ \A side \in {"source", "target"} :
                  LET pin == events[h].pins[side] IN
                  /\ pin.subject = events[e].pins[side].subject
                  /\ SubjectOf(events, pin.basis) = pin.subject
                  /\ view.selected[pin.basis] = pin.revision
                  /\ events[pin.revision].body = pin.body

(* edges.rs endpoint, read as what it is for: an edge reads current only   *)
(* while no one has written a body at either end that its pins have not    *)
(* seen, on the way to the one head that decides.                          *)
CurrentMeansUnmoved ==
    \A e \in DOMAIN view.edges : view.edges[e].status = "current" =>
        \A pins \in view.edges[e].pins : \A side \in {"source", "target"} :
            LET pin == pins[side] IN
            \E h \in ValidIds :
               /\ view.frontier[pin.subject] = {h}
               /\ pin.basis \in view.cones[h]
               /\ view.selected[h] = pin.revision
               /\ \A id \in view.cones[h] :
                    CreatesRevision(events[id]) => id \in view.cones[pin.basis]

Coordinates == {0} \cup ({events[id].time : id \in SubjectIds(events)} \ {Imprecise})

(* The subjects and the edges a verdict at asOf may use.                   *)
Shown(asOf) ==
    {s \in DOMAIN view.state :
        /\ view.state[s] = "resolved" /\ events[s].author \in Curators
        /\ Visibility(events, view, s, asOf) = "visible"}
Usable(asOf) ==
    {e \in DOMAIN view.edges :
        /\ view.edges[e].status = "current" /\ view.edges[e].relation # "disputes"
        /\ view.edges[e].author \in Curators
        /\ Range(view.edges[e].ends) \subseteq Shown(asOf)}

(* The subjects at most n of the given edges away from one.                *)
Within(edges, from, n) ==
    LET near[i \in 0..n] ==
            IF i = 0 THEN {from}
            ELSE near[i - 1] \cup
                 UNION {Range(view.edges[e].ends) :
                          e \in {d \in edges : Range(view.edges[d].ends)
                                                \cap near[i - 1] # {}}}
    IN  near[n]

(* Where a sequence of edges leads to from a subject, None when it breaks. *)
Along(path, from) ==
    LET at[i \in 0..Len(path)] ==
            IF i = 0 THEN from
            ELSE LET here == at[i - 1]
                     ends == view.edges[path[i]].ends
                 IN  IF here = ends[1] THEN ends[2]
                     ELSE IF here = ends[2] THEN ends[1] ELSE None
    IN  at[Len(path)]

Touches(id, ends) ==
    {events[id].pins.source.subject, events[id].pins.target.subject} \cap ends # {}

(* Snapshot::verdict: an answer is Supported exactly when the two distinct *)
(* subjects are shown and joined by usable edges within the hop bound, and *)
(* then by a shortest such path; and "excluded edges and disputes touching *)
(* either queried subject stay visible in both answers" (edges.rs).        *)
VerdictIsExact ==
    LET edgeEvents == {id \in retained : events[id].kind \in {"edge_assert", "edge_reaffirm"}}
        inChains == UNION {view.edges[e].history \ {e} : e \in DOMAIN view.edges}
    IN  edgeEvents # {} => \A asOf \in Coordinates :
        LET g == SupportAt(Sub(events, retained), view, Curators, asOf,
                           InOrder(events))
            shown == Shown(asOf)
            usable == Usable(asOf)
        IN  \A from, to \in DOMAIN view.state :
              LET answer == Query(g, from, to, MaxHops) IN
              /\ answer.supported <=> /\ from # to /\ {from, to} \subseteq shown
                                      /\ to \in Within(usable, from, MaxHops)
              /\ answer.supported =>
                    /\ Range(answer.path) \subseteq usable
                    /\ Along(answer.path, from) = to
                    /\ to \notin Within(usable, from, Len(answer.path) - 1)
              /\ {x.event : x \in answer.excluded} =
                    {id \in edgeEvents \ (inChains \cup usable) : Touches(id, {from, to})}
-----------------------------------------------------------------------------
(* What the runs check together.                                           *)

(* authority::derive and project: the effective revokes solve the rule,    *)
(* and nothing they suppress is under a frontier.                          *)
AuthorityIsSolved == EffectiveIsFixpoint /\ FrontierIsClean

(* edges.rs: a chain keeps what its assertion pinned, and a current edge   *)
(* pins what is current.                                                   *)
EdgesKeepTheirPins == ChainsKeepTheirEdge /\ CurrentMeansUnmoved

(* authority.rs, projection.rs and edges.rs: no new event has an effect    *)
(* outside its scope, be it a revoke, an act that is suppressed, one of a  *)
(* retired signer, or a correction that an edge or attestation looks at.   *)
EffectsStayInScope ==
    AuthorityFlowsDown /\ SuppressedIsInert /\ RetiredGrantsAreSilent /\ EdgesAreLocal
=============================================================================
