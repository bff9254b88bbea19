---------------------------- MODULE LedgerProofs ----------------------------
(***************************************************************************)
(* Theorems about the curators and the store (Ledger) and the publisher's  *)
(* submit (Submit), for any envelopes signed and admitted in any order.    *)
(*                                                                         *)
(* What is valid is a causally closed set in which every grant comes from  *)
(* an active issuer; frontiers, pins, verdicts and the publisher's checks  *)
(* are read off that set, and what a later event changes of them is traced *)
(* to the revoke, the subject or the edge that changed it.                 *)
(***************************************************************************)
EXTENDS FoldProofs, Submit

-----------------------------------------------------------------------------
(* Ledger                                                                  *)

(* The envelopes name only earlier ones, and what is committed is the fold *)
(* of what is retained.                                                    *)
Recorded(evs) ==
    /\ evs \in Seq(ToSet(evs))
    /\ \A id \in DOMAIN evs : NamesThePast(evs[id], id)

LedgerInv == Recorded(events) /\ retained \subseteq Ids /\ view = Fold(events, retained)

(* Recorded envelopes form a history.                                      *)
LEMMA RecordedSane ==
    ASSUME NEW evs, Recorded(evs)
    PROVE  Len(evs) \in Nat /\ DOMAIN evs = 1 .. Len(evs) /\ Sane(evs)
  <1>1. Len(evs) \in Nat /\ DOMAIN evs = 1 .. Len(evs)
    BY DEF Recorded
  <1> QED
    BY <1>1 DEF Recorded, Sane

(* So do those retained of them, and the order of the ids covers them.     *)
LEMMA FoldGround ==
    ASSUME NEW evs, Recorded(evs), NEW ids, ids \subseteq DOMAIN evs
    PROVE  /\ Sane(Sub(evs, ids)) /\ DOMAIN Sub(evs, ids) = ids
           /\ Covering(Sub(evs, ids), InOrder(evs))
  <1>1. Len(evs) \in Nat /\ DOMAIN evs = 1 .. Len(evs) /\ Sane(evs)
    BY RecordedSane
  <1>2. DOMAIN Sub(evs, ids) = ids /\ \A id \in ids : Sub(evs, ids)[id] = evs[id]
    BY DEF Sub
  <1>3. Sane(Sub(evs, ids))
    <2>1. \A id \in ids : NamesThePast(evs[id], id)
      BY DEF Recorded
    <2>2. \A id \in ids : NamesThePast(Sub(evs, ids)[id], id)
      BY <1>2, <2>1
    <2> QED
      BY <1>1, <1>2, <2>2 DEF Sane
  <1>4. PICK n \in Nat : n = Len(evs)
    BY <1>1
  <1>5. InOrder(evs) = [i \in 1 .. n |-> i]
    BY <1>4 DEF InOrder
  <1>6. Len(InOrder(evs)) = n
    <2>1. [i \in 1 .. n |-> i] \in Seq(Nat)
      OBVIOUS
    <2> QED
      BY <1>5
  <1>7. \A id \in ids : \E i \in 1 .. n : InOrder(evs)[i] = id
    BY <1>1, <1>4, <1>5
  <1> QED
    BY <1>2, <1>3, <1>6, <1>7 DEF Covering

(* A draft names what is there.                                            *)
LEMMA BlankNames ==
    ASSUME Recorded(events), NEW g \in GrantsOf(events), NEW kind, NEW P
    PROVE  LET e == Blank(kind, P, g) IN
           /\ e.kind = kind /\ e.parents = P /\ e.grant = g /\ e.pick = None
           /\ {e.subject, e.grant} \subseteq 0 .. Len(events)
  <1>1. Len(events) \in Nat /\ g \in 1 .. Len(events) /\ g \in Ids
    BY RecordedSane DEF GrantsOf, Ids
  <1>2. events[g].subject \in 0 .. g - 1
    BY <1>1 DEF Recorded, NamesThePast, Ids
  <1>3. SubjectOf(events, g) \in 0 .. Len(events)
    BY <1>1, <1>2 DEF SubjectOf
  <1> QED
    BY <1>1, <1>3 DEF Blank

(* So do all drafts of a curator.                                          *)
LEMMA DraftNames ==
    ASSUME Recorded(events), NEW e \in Drafts
    PROVE  NamesThePast(e, Len(events) + 1)
  <1>1. PICK g \in GrantsOf(events) : e \in DraftsOf(g)
    BY DEF Drafts
  <1>2. PICK n \in Nat : n = Len(events)
    BY RecordedSane
  <1>3. n + 1 - 1 = n /\ Ids = 1 .. n /\ Ids \subseteq 0 .. n /\ g \in 0 .. n
        /\ GrantsOf(events) \subseteq 0 .. n
    BY <1>1, <1>2, RecordedSane DEF Ids, GrantsOf
  <1>4. \A kind, P : LET d == Blank(kind, P, g) IN
           /\ d.kind = kind /\ d.parents = P /\ d.grant = g /\ d.pick = None
           /\ {d.subject, d.grant} \subseteq 0 .. n
    BY <1>2, BlankNames
  <1>5. ASSUME NEW p \in Ids, e = Correction(g, p) PROVE NamesThePast(e, n + 1)
    <2> DEFINE d == Blank("correction", {p}, g)
    <2>1. e.kind = d.kind /\ e.parents = d.parents /\ e.subject = d.subject /\ e.grant = d.grant
      BY <1>5 DEF Blank, Correction
    <2>2. d.kind = "correction" /\ d.parents = {p} /\ {d.subject, d.grant} \subseteq 0 .. n
      BY <1>4
    <2>3. e.kind = "correction" /\ e.parents \subseteq 1 .. n /\ {e.subject, e.grant} \subseteq 0 .. n
      BY <1>3, <2>1, <2>2
    <2> QED
      BY <1>3, <2>3 DEF NamesThePast, SubjectKinds
  <1>6. ASSUME NEW p \in Ids, NEW k, e = Delegation(g, p, k) PROVE NamesThePast(e, n + 1)
    <2> DEFINE d == Blank("delegate", {p}, g)
    <2>1. e.kind = d.kind /\ e.parents = d.parents /\ e.subject = d.subject /\ e.grant = d.grant
          /\ e.issuer = g
      BY <1>6 DEF Blank, Delegation
    <2>2. d.kind = "delegate" /\ d.parents = {p} /\ {d.subject, d.grant} \subseteq 0 .. n
      BY <1>4
    <2>3. e.kind = "delegate" /\ e.parents \subseteq 1 .. n /\ {e.subject, e.grant} \subseteq 0 .. n
          /\ e.issuer \in 0 .. n
      BY <1>3, <2>1, <2>2
    <2> QED
      BY <1>3, <2>3 DEF NamesThePast, SubjectKinds
  <1>7. ASSUME NEW p \in Ids, NEW t \in GrantsOf(events), NEW c, e = Revocation(g, p, t, c)
        PROVE  NamesThePast(e, n + 1)
    <2> DEFINE d == Blank("revoke", {p}, g)
    <2>1. e.kind = d.kind /\ e.parents = d.parents /\ e.subject = d.subject /\ e.grant = d.grant
          /\ e.target = t
      BY <1>7 DEF Blank, Revocation
    <2>2. d.kind = "revoke" /\ d.parents = {p} /\ {d.subject, d.grant} \subseteq 0 .. n
      BY <1>4
    <2>3. e.kind = "revoke" /\ e.parents \subseteq 1 .. n /\ {e.subject, e.grant} \subseteq 0 .. n
          /\ e.target \in 0 .. n
      BY <1>3, <2>1, <2>2
    <2> QED
      BY <1>3, <2>3 DEF NamesThePast, SubjectKinds
  <1>8. ASSUME NEW P \in SUBSET Ids, e = Merging(g, P) PROVE NamesThePast(e, n + 1)
    <2> DEFINE d == Blank("resolve", P, g)
    <2>1. e.kind = d.kind /\ e.parents = d.parents /\ e.subject = d.subject /\ e.grant = d.grant
          /\ e.pick = d.pick
      BY <1>8 DEF Blank, Merging
    <2>2. d.kind = "resolve" /\ d.parents = P /\ d.pick = None /\ {d.subject, d.grant} \subseteq 0 .. n
      BY <1>4
    <2>3. e.kind = "resolve" /\ e.parents \subseteq 1 .. n /\ {e.subject, e.grant} \subseteq 0 .. n
          /\ e.pick = None
      BY <1>3, <2>1, <2>2
    <2>4. None \in 0 .. n
      BY DEF None
    <2> QED
      BY <1>3, <2>3, <2>4 DEF NamesThePast, SubjectKinds
  <1>9. ASSUME NEW P \in SUBSET Ids, NEW r \in Ids, e = Selection(g, P, r)
        PROVE  NamesThePast(e, n + 1)
    <2> DEFINE d == Blank("resolve", P, g)
    <2>1. e.kind = d.kind /\ e.parents = d.parents /\ e.subject = d.subject /\ e.grant = d.grant
          /\ e.pick = r
      BY <1>9 DEF Blank, Selection
    <2>2. d.kind = "resolve" /\ d.parents = P /\ {d.subject, d.grant} \subseteq 0 .. n
      BY <1>4
    <2>3. e.kind = "resolve" /\ e.parents \subseteq 1 .. n /\ {e.subject, e.grant} \subseteq 0 .. n
          /\ e.pick \in 0 .. n
      BY <1>3, <2>1, <2>2
    <2> QED
      BY <1>3, <2>3 DEF NamesThePast, SubjectKinds
  <1>10. \/ \E p \in Ids : e = Correction(g, p)
         \/ \E p \in Ids, k \in setup.keys : e = Delegation(g, p, k)
         \/ \E p \in Ids, t \in GrantsOf(events), c \in BOOLEAN : e = Revocation(g, p, t, c)
         \/ \E P \in SUBSET Ids : e = Merging(g, P)
         \/ \E P \in SUBSET Ids, r \in Ids : e = Selection(g, P, r)
    BY <1>1 DEF DraftsOf
  <1>11. NamesThePast(e, n + 1)
    BY <1>5, <1>6, <1>7, <1>8, <1>9, <1>10
  <1> QED
    BY <1>2, <1>11

(* The record stays one when a draft is signed.                            *)
LEMMA RecordedGrows ==
    ASSUME NEW evs, Recorded(evs), NEW e, NamesThePast(e, Len(evs) + 1)
    PROVE  /\ Recorded(Append(evs, e)) /\ Extends(evs, Append(evs, e))
           /\ DOMAIN Append(evs, e) = DOMAIN evs \cup {Len(evs) + 1}
  <1> DEFINE next == Append(evs, e)
  <1>1. PICK n \in Nat : n = Len(evs) /\ DOMAIN evs = 1 .. n
    BY RecordedSane
  <1>2. evs \in Seq(ToSet(evs) \cup {e})
    BY DEF Recorded
  <1>3. Len(next) = n + 1 /\ DOMAIN next = 1 .. n + 1
        /\ (\A i \in 1 .. n : next[i] = evs[i]) /\ next[n + 1] = e
    BY <1>1, <1>2
  <1>4. next \in Seq(ToSet(evs) \cup {e})
    BY <1>2
  <1> HIDE DEF next
  <1>5. ToSet(next) = ToSet(evs) \cup {e}
    BY <1>1, <1>3 DEF ToSet
  <1>6. \A id \in 1 .. n + 1 : id \in 1 .. n \/ id = n + 1
    BY <1>1
  <1>7. \A id \in DOMAIN next : NamesThePast(next[id], id)
    BY <1>1, <1>3, <1>6 DEF Recorded
  <1>8. Recorded(next)
    BY <1>4, <1>5, <1>7 DEF Recorded
  <1>9. Extends(evs, next)
    BY <1>1, <1>3 DEF Extends
  <1>10. DOMAIN next = DOMAIN evs \cup {Len(evs) + 1}
    BY <1>1, <1>3
  <1> QED
    BY <1>8, <1>9, <1>10 DEF next

(* Ledger: the committed view is always the fold of what is retained.      *)
THEOREM ViewIsTheFold == Spec => []LedgerInv
  <1>1. Init => LedgerInv
    <2> SUFFICES ASSUME Init PROVE LedgerInv
      OBVIOUS
    <2>1. Recorded(events)
      BY SetupAssumption DEF Init, Recorded
    <2> QED
      BY <2>1 DEF Init, LedgerInv
  <1>2. LedgerInv /\ [Next]_vars => LedgerInv'
    <2> SUFFICES ASSUME LedgerInv, [Next]_vars PROVE LedgerInv'
      OBVIOUS
    <2> USE DEF LedgerInv
    <2>1. ASSUME NEW e \in Drafts, Sign(e) PROVE LedgerInv'
      <3>1. Recorded(events') /\ Ids' = Ids \cup {Len(events) + 1}
        BY <2>1, DraftNames, RecordedGrows DEF Sign, Ids
      <3> QED
        BY <2>1, <3>1 DEF Sign
    <2>2. ASSUME NEW id \in Ids, Admit(id) PROVE LedgerInv'
      BY <2>2 DEF Admit, Ids
    <2>3. CASE UNCHANGED vars
      BY <2>3 DEF vars, Ids, Fold
    <2> QED
      BY <2>1, <2>2, <2>3 DEF Next, Done
  <1> QED
    BY <1>1, <1>2, PTL DEF Spec

(* A step keeps what is recorded and retained, and folds again.            *)
LEMMA StepExtends ==
    ASSUME LedgerInv, Next
    PROVE  \/ UNCHANGED vars
           \/ /\ Recorded(events') /\ retained' \subseteq DOMAIN events'
              /\ Extends(events, events')
              /\ retained \subseteq retained' /\ view' = Fold(events', retained')
  <1> USE DEF LedgerInv
  <1>1. ASSUME NEW e \in Drafts, Sign(e)
        PROVE  /\ Recorded(events') /\ retained' \subseteq DOMAIN events'
               /\ Extends(events, events')
               /\ retained \subseteq retained' /\ view' = Fold(events', retained')
    <2>1. Recorded(events') /\ DOMAIN events' = Ids \cup {Len(events) + 1}
          /\ Extends(events, events')
      BY <1>1, DraftNames, RecordedGrows DEF Sign, Ids
    <2> QED
      BY <1>1, <2>1 DEF Sign, Ids
  <1>2. ASSUME NEW id \in Ids, Admit(id)
        PROVE  /\ Recorded(events') /\ retained' \subseteq DOMAIN events'
               /\ Extends(events, events')
               /\ retained \subseteq retained' /\ view' = Fold(events', retained')
    BY <1>2 DEF Admit, Ids, Extends
  <1> QED
    BY <1>1, <1>2 DEF Next, Done

(* A fold of more decides nothing again.                                   *)
LEMMA FoldsLast ==
    ASSUME NEW evs, NEW more, Recorded(evs), Recorded(more), Extends(evs, more),
           NEW ids, NEW jds, ids \subseteq jds, ids \subseteq DOMAIN evs, jds \subseteq DOMAIN more
    PROVE  \A id \in DOMAIN Fold(evs, ids).status :
              Lasts(Fold(evs, ids).status, Fold(more, jds).status, id)
  <1> DEFINE a == Sub(evs, ids)
             b == Sub(more, jds)
  <1>1. Sane(a) /\ Covering(a, InOrder(evs)) /\ Sane(b) /\ Covering(b, InOrder(more))
    BY FoldGround
  <1>2. Extends(a, b)
    BY DEF Extends, Sub
  <1> HIDE DEF a, b
  <1>3. \A id \in DOMAIN ProjectAll(a, InOrder(evs)).status :
           Lasts(ProjectAll(a, InOrder(evs)).status, ProjectAll(b, InOrder(more)).status, id)
    BY <1>1, <1>2, AdmissionLasts
  <1> QED
    BY <1>3 DEF Fold, a, b

(* classify: what has been found valid or invalid stays so, whatever is    *)
(* admitted later and in whatever order.                                   *)
THEOREM AdmittedForGood == Spec => AdmissionIsFinal
  <1>1. LedgerInv /\ [Next]_vars =>
           [\A id \in DOMAIN view.status :
               view.status[id].state # "pending" =>
                  view'.status[id].state = view.status[id].state]_vars
    <2> SUFFICES ASSUME LedgerInv, Next, ~UNCHANGED vars
                 PROVE  \A id \in DOMAIN view.status :
                           view.status[id].state # "pending" =>
                              view'.status[id].state = view.status[id].state
      OBVIOUS
    <2>1. /\ Recorded(events') /\ retained' \subseteq DOMAIN events'
          /\ Extends(events, events')
          /\ retained \subseteq retained' /\ view' = Fold(events', retained')
      BY StepExtends
    <2>2. Recorded(events) /\ retained \subseteq DOMAIN events /\ view = Fold(events, retained)
      BY DEF LedgerInv, Ids
    <2>3. \A id \in DOMAIN view.status : Lasts(view.status, view'.status, id)
      BY <2>1, <2>2, FoldsLast
    <2> QED
      BY <2>3 DEF Lasts
  <1> QED
    BY <1>1, ViewIsTheFold, PTL DEF Spec, AdmissionIsFinal

(* The orders of the property visit every retained event.                  *)
LEMMA OrdersCover ==
    ASSUME LedgerInv, NEW o \in Orders
    PROVE  Covering(Sub(events, retained), o)
  <1>1. PICK n \in Nat : n = Len(events) /\ DOMAIN events = 1 .. n
    BY RecordedSane DEF LedgerInv
  <1>2. retained \subseteq 1 .. n /\ DOMAIN Sub(events, retained) = retained
    BY <1>1 DEF LedgerInv, Ids, Sub
  <1>3. CASE o \in SetToSeqs(retained)
    <2>1. IsFiniteSet(retained)
      <3>1. IsFiniteSet(1 .. n)
        BY FS_Interval
      <3> QED
        BY <1>2, <3>1, FS_Subset
    <2>2. PICK k \in Nat : k = Cardinality(retained)
      BY <2>1, FS_CardinalityType
    <2>3. o \in [1 .. k -> retained] /\ \A i, j \in 1 .. k : i # j => o[i] # o[j]
      BY <1>3, <2>2 DEF SetToSeqs
    <2>4. o \in Injection(1 .. k, retained)
      BY <2>3 DEF Injection, IsInjective
    <2>5. Cardinality(1 .. k) = k
      BY FS_Interval
    <2>6. o \in Surjection(1 .. k, retained)
      BY <2>1, <2>2, <2>4, <2>5, FS_Injection
    <2>7. \A id \in retained : \E i \in 1 .. k : o[i] = id
      BY <2>6 DEF Surjection
    <2>8. o \in Seq(retained) /\ Len(o) = k
      BY <2>3
    <2> QED
      BY <1>2, <2>7, <2>8 DEF Covering
  <1>4. CASE o = Reverse(InOrder(events))
    <2>1. InOrder(events) = [i \in 1 .. n |-> i] /\ [i \in 1 .. n |-> i] \in Seq(Nat)
      BY <1>1 DEF InOrder
    <2>2. Len(InOrder(events)) = n
      BY <2>1
    <2>3. o = [i \in 1 .. n |-> InOrder(events)[(n - i) + 1]]
      BY <1>4, <2>2 DEF Reverse
    <2>4. o = [i \in 1 .. n |-> (n - i) + 1]
      <3>1. \A i \in 1 .. n : (n - i) + 1 \in 1 .. n
        OBVIOUS
      <3> QED
        BY <2>1, <2>3, <3>1
    <2>5. o \in Seq(Nat) /\ Len(o) = n
      <3>1. \A i \in 1 .. n : (n - i) + 1 \in Nat
        OBVIOUS
      <3> QED
        BY <2>4, <3>1
    <2>6. \A id \in 1 .. n : (n - id) + 1 \in 1 .. n /\ o[(n - id) + 1] = id
      <3>1. \A id \in 1 .. n : (n - id) + 1 \in 1 .. n /\ (n - ((n - id) + 1)) + 1 = id
        OBVIOUS
      <3> QED
        BY <2>4, <3>1
    <2> QED
      BY <1>2, <2>5, <2>6 DEF Covering
  <1> QED
    BY <1>3, <1>4 DEF Orders

(* classify and derive: no reading depends on the order of the hashes.     *)
THEOREM HashOrderIsIrrelevant == Spec => []OrderIsIrrelevant
  <1>1. LedgerInv => OrderIsIrrelevant
    <2> SUFFICES ASSUME LedgerInv, NEW o \in Orders
                 PROVE  ReadsAlike(ProjectAll(Sub(events, retained), o))
      BY DEF OrderIsIrrelevant
    <2> DEFINE all == Sub(events, retained)
               q == InOrder(events)
               v == ProjectAll(all, o)
               c == Classify(all, q)
    <2>1. Sane(all) /\ Covering(all, q) /\ DOMAIN all = retained
      BY FoldGround DEF LedgerInv, Ids
    <2>2. Covering(all, o)
      BY OrdersCover
    <2>3. view = ProjectAll(all, q)
      BY DEF LedgerInv, Fold
    <2>4. \A id \in retained : all[id] = events[id]
      BY DEF Sub
    <2> HIDE DEF all, q
    <2>5. SameReadings(view, v, ValidIn(c))
      BY <2>1, <2>2, <2>3, ProjectionAlike
    <2>6. Solves(all, q, c) /\ SolvesEdges(all, c, view.status)
      BY <2>1, <2>3, ProjectionSolves
    <2> HIDE DEF c, v
    <2>7. ValidIds \subseteq ValidIn(c)
      <3>1. ASSUME NEW id \in ValidIds PROVE id \in ValidIn(c)
        <4>1. id \in DOMAIN view.status /\ view.status[id].state = "valid" /\ IsSubject(events[id])
          BY DEF ValidIds, ValidIn
        <4>2. DOMAIN view.status = retained
          BY <2>1, <2>6 DEF SolvesEdges
        <4>3. id \in SubjectIds(all)
          BY <2>1, <2>4, <4>1, <4>2 DEF SubjectIds
        <4>4. view.status[id] = c[id] /\ DOMAIN c = SubjectIds(all)
          BY <2>6, <4>3 DEF SolvesEdges, Solves
        <4> QED
          BY <4>1, <4>3, <4>4 DEF ValidIn
      <3> QED
        BY <3>1
    <2>8. ReadsAlike(v)
      BY <2>5, <2>7 DEF SameReadings, ReadsAlike, Reason
    <2> QED
      BY <2>8 DEF v, all
  <1> QED
    BY <1>1, ViewIsTheFold, PTL

-----------------------------------------------------------------------------
(* The grant tree of the valid events                                      *)

(* Lineages are nested, from the root down.                                *)
LEMMA LinesNest ==
    ASSUME NEW all, Sane(all)
    PROVE  \A g \in GrantsOf(all) :
              /\ g \in Lineages(all)[g]
              /\ \A a \in Lineages(all)[g] :
                    a \in GrantsOf(all) /\ a <= g /\ Lineages(all)[a] \subseteq Lineages(all)[g]
  <1> DEFINE D == GrantsOf(all)
             line == Lineages(all)
             G == {g \in D : \A a \in line[g] : a \in D /\ a <= g /\ line[a] \subseteq line[g]}
  <1>1. D \in SUBSET Nat
    BY SaneIds DEF GrantsOf
  <1>2. \A g \in D : /\ line[g] = {g} \cup (IF Issuer(all, g) \in D THEN line[Issuer(all, g)] ELSE {})
                     /\ Issuer(all, g) \in Nat /\ Issuer(all, g) < g
    BY LineFacts
  <1> HIDE DEF D, line
  <1>3. ASSUME NEW g \in D, \A c \in D : c < g => c \in G PROVE g \in G
    <2>1. ASSUME NEW a \in line[g] PROVE a \in D /\ a <= g /\ line[a] \subseteq line[g]
      <3>1. CASE a = g
        BY <1>1, <3>1
      <3>2. CASE a # g
        <4>1. Issuer(all, g) \in D /\ a \in line[Issuer(all, g)]
              /\ line[Issuer(all, g)] \subseteq line[g]
          BY <1>2, <3>2
        <4>2. a \in D /\ a <= Issuer(all, g) /\ line[a] \subseteq line[Issuer(all, g)]
          BY <1>2, <1>3, <4>1
        <4>3. a \in Nat /\ g \in Nat /\ Issuer(all, g) \in Nat /\ Issuer(all, g) < g
          BY <1>1, <1>2, <4>2
        <4> QED
          BY <4>1, <4>2, <4>3
      <3> QED
        BY <3>1, <3>2
    <2> QED
      BY <2>1
  <1>4. D \subseteq G
    <2> HIDE DEF G
    <2> QED
      BY <1>1, <1>3, FromBelow
  <1> QED
    BY <1>2, <1>4 DEF D, line

(* The depth of a grant in the tree.                                       *)
Depth(all, g) == Cardinality(Lineages(all)[g])

(* A grant lies deeper than those above it.                                *)
LEMMA Depths ==
    ASSUME NEW all, Sane(all), NEW k, k = Cardinality(GrantsOf(all))
    PROVE  \A g \in GrantsOf(all) :
              /\ Depth(all, g) \in 1 .. k /\ k \in Nat
              /\ \A a \in Lineages(all)[g] :
                    /\ Depth(all, a) <= Depth(all, g)
                    /\ a # g => Depth(all, a) < Depth(all, g)
  <1> DEFINE D == GrantsOf(all)
             line == Lineages(all)
  <1>1. IsFiniteSet(D) /\ D \in SUBSET Nat
    <2>1. D \subseteq DOMAIN all
      BY DEF GrantsOf
    <2> QED
      BY <2>1, SaneIds, FS_Subset
  <1>2. \A g \in D : /\ g \in line[g]
                     /\ \A a \in line[g] : a \in D /\ a <= g /\ line[a] \subseteq line[g]
    BY LinesNest
  <1> HIDE DEF D, line
  <1>3. ASSUME NEW g \in D
        PROVE  IsFiniteSet(line[g]) /\ Cardinality(line[g]) \in Nat
               /\ Cardinality(line[g]) <= Cardinality(D) /\ Cardinality(line[g]) # 0
    <2>1. line[g] \subseteq D /\ line[g] # {}
      BY <1>2
    <2>2. IsFiniteSet(line[g]) /\ Cardinality(line[g]) <= Cardinality(D)
      BY <1>1, <2>1, FS_Subset
    <2>3. Cardinality(line[g]) \in Nat
      BY <2>2, FS_CardinalityType
    <2>4. Cardinality(line[g]) # 0
      BY <2>1, <2>2, FS_EmptySet
    <2> QED
      BY <2>2, <2>3, <2>4
  <1>4. k \in Nat /\ k = Cardinality(D)
    BY <1>1, FS_CardinalityType DEF D
  <1>5. ASSUME NEW g \in D, NEW a \in line[g]
        PROVE  /\ Cardinality(line[a]) <= Cardinality(line[g])
               /\ a # g => Cardinality(line[a]) < Cardinality(line[g])
    <2>1. a \in D /\ line[a] \subseteq line[g] /\ a <= g /\ g \in line[g]
      BY <1>2
    <2>2. /\ Cardinality(line[a]) <= Cardinality(line[g])
          /\ Cardinality(line[a]) = Cardinality(line[g]) => line[a] = line[g]
      BY <1>3, <2>1, FS_Subset
    <2>3. a # g => g \notin line[a]
      <3>1. g \in line[a] => g <= a
        BY <1>2, <2>1
      <3>2. a \in Nat /\ g \in Nat
        BY <1>1, <2>1
      <3> QED
        BY <2>1, <3>1, <3>2
    <2>4. Cardinality(line[a]) \in Nat /\ Cardinality(line[g]) \in Nat
      BY <1>3, <2>1
    <2>5. a # g => Cardinality(line[a]) # Cardinality(line[g])
      BY <2>1, <2>2, <2>3
    <2> QED
      BY <2>2, <2>4, <2>5
  <1>6. \A g \in D : Cardinality(line[g]) \in 1 .. k
    <2>1. ASSUME NEW g \in D PROVE Cardinality(line[g]) \in 1 .. k
      <3>1. PICK m \in Nat : m = Cardinality(line[g])
        BY <1>3
      <3>2. m <= k /\ m # 0
        BY <1>3, <1>4, <3>1
      <3>3. m \in 1 .. k
        BY <1>4, <3>2
      <3> QED
        BY <3>1, <3>3
    <2> QED
      BY <2>1
  <1> QED
    BY <1>4, <1>5, <1>6 DEF D, line, Depth

(* A lineage is not lost in a larger history.                              *)
LEMMA LinesGrow ==
    ASSUME NEW a, NEW b, Sane(a), Sane(b), Extends(a, b)
    PROVE  \A g \in GrantsOf(a) : g \in GrantsOf(b) /\ Lineages(a)[g] \subseteq Lineages(b)[g]
  <1> DEFINE D == GrantsOf(a)
             G == {g \in D : Lineages(a)[g] \subseteq Lineages(b)[g]}
  <1>1. D \in SUBSET Nat /\ D \subseteq GrantsOf(b) /\ \A g \in D : b[g] = a[g]
    BY SaneIds DEF GrantsOf, Extends
  <1>2. \A g \in D : Issuer(b, g) = Issuer(a, g)
    BY <1>1 DEF Issuer
  <1>3. \A g \in D : /\ Lineages(a)[g] =
                          {g} \cup (IF Issuer(a, g) \in D THEN Lineages(a)[Issuer(a, g)] ELSE {})
                     /\ Issuer(a, g) < g
    BY LineFacts
  <1>4. \A g \in GrantsOf(b) : Lineages(b)[g] =
           {g} \cup (IF Issuer(b, g) \in GrantsOf(b) THEN Lineages(b)[Issuer(b, g)] ELSE {})
    BY LineFacts
  <1> HIDE DEF D
  <1>5. ASSUME NEW g \in D, \A c \in D : c < g => c \in G PROVE g \in G
    <2>1. CASE Issuer(a, g) \notin D
      BY <1>1, <1>3, <1>4, <2>1
    <2>2. CASE Issuer(a, g) \in D
      <3>1. Lineages(a)[Issuer(a, g)] \subseteq Lineages(b)[Issuer(a, g)]
        BY <1>3, <1>5, <2>2
      <3>2. Lineages(b)[g] = {g} \cup Lineages(b)[Issuer(a, g)]
        BY <1>1, <1>2, <1>4, <2>2
      <3>3. Lineages(a)[g] = {g} \cup Lineages(a)[Issuer(a, g)]
        BY <1>3, <2>2
      <3>4. Lineages(a)[g] \subseteq Lineages(b)[g]
        BY <3>1, <3>2, <3>3
      <3> QED
        BY <3>4
    <2> QED
      BY <2>1, <2>2
  <1>6. D \subseteq G
    <2> HIDE DEF G
    <2> QED
      BY <1>1, <1>5, FromBelow
  <1> QED
    BY <1>1, <1>6 DEF D

(* Delegations come from a grant, and a revoke from a grant strictly above *)
(* its target, or from a root that gives itself up.                        *)
Ordained(all) ==
    /\ \A g \in GrantsOf(all) : Issuer(all, g) = None \/ Issuer(all, g) \in GrantsOf(all)
    /\ \A r \in RevokesOf(all) :
          /\ Signer(all, r) \in GrantsOf(all) /\ all[r].target \in GrantsOf(all)
          /\ \/ r \in Relinquishments(all)
             \/ /\ Signer(all, r) # all[r].target
                /\ Signer(all, r) \in Lineages(all)[all[r].target]

(* In a closed set of valid events every grant is passed on by its issuer. *)
LEMMA PastOrdained ==
    ASSUME NEW all, Sane(all), NEW order, NEW status, Solves(all, order, status),
           NEW V, Upright(all, V), V \subseteq ValidIn(status)
    PROVE  Ordained(Sub(all, V))
  <1> DEFINE v == Sub(all, V)
  <1>1. Upright(all, V)
    OBVIOUS
  <1>2. DOMAIN v = V /\ (\A id \in V : v[id] = all[id]) /\ Sane(v)
    BY <1>1, SubFacts
  <1> HIDE DEF v
  <1>3. ASSUME NEW id \in V, all[id].kind \in {"delegate", "revoke"}
        PROVE  LET e == all[id]
                   past == Sub(all, PastIds(all, e))
                   w == Derive(all, PastIds(all, e), order)
               IN  /\ e.grant \in w.active /\ KindFault(all, e, past, w) = ""
                   /\ w.active \subseteq GrantsOf(past) /\ Extends(past, v) /\ Sane(past)
    <2> DEFINE e == all[id]
               ids == PastIds(all, e)
               past == Sub(all, ids)
               w == Derive(all, ids, order)
    <2>1. Founded(all, order, status, e)
      <3>1. e.kind # "genesis"
        BY <1>3
      <3> QED
        BY <3>1, ValidFacts
    <2>2. e.parents \subseteq V /\ Judge(all, e, order) = Valid /\ Valid.state # "invalid"
      BY <1>1, <2>1 DEF Founded, Valid, Upright
    <2>3. AuthorityFault(all, e, w, order) = "" /\ KindFault(all, e, past, w) = ""
      BY <2>2, JudgeIs
    <2>4. Extends(all, all)
      BY DEF Extends
    <2>5. Upright(all, ids) /\ ids \subseteq V
      BY <1>1, <2>2, <2>4, PastStays
    <2>6. DOMAIN past = ids /\ (\A d \in ids : past[d] = all[d]) /\ Sane(past)
      <3> HIDE DEF ids
      <3> QED
        BY <2>5, SubFacts
    <2>7. w.active \subseteq GrantsOf(past)
      BY DEF Derive, DeriveFrom, Standing
    <2> HIDE DEF w, past, ids
    <2>8. e.grant \in w.active
      BY <2>3 DEF AuthorityFault
    <2>9. Extends(past, v)
      BY <1>2, <2>5, <2>6 DEF Extends
    <2> QED
      BY <2>3, <2>6, <2>7, <2>8, <2>9 DEF w, past, ids
  <1>4. 0 \notin GrantsOf(v)
    BY <1>2, SaneIds DEF GrantsOf
  <1>5. ASSUME NEW g \in GrantsOf(v) PROVE Issuer(v, g) = None \/ Issuer(v, g) \in GrantsOf(v)
    <2>1. CASE v[g].kind = "genesis"
      BY <2>1 DEF Issuer
    <2>2. CASE v[g].kind # "genesis"
      <3> DEFINE e == all[g]
                 past == Sub(all, PastIds(all, e))
                 w == Derive(all, PastIds(all, e), order)
      <3>1. g \in V /\ e.kind = "delegate" /\ v[g] = e
        BY <1>2, <2>2 DEF GrantsOf
      <3>2. /\ e.grant \in w.active /\ KindFault(all, e, past, w) = ""
            /\ w.active \subseteq GrantsOf(past) /\ Extends(past, v) /\ Sane(past)
        BY <1>3, <3>1
      <3> HIDE DEF past, w
      <3>3. DelegateFault(all, e, w) = ""
        BY <3>1, <3>2 DEF KindFault
      <3>4. e.issuer = e.grant
        BY <3>3 DEF DelegateFault
      <3>5. e.grant \in GrantsOf(v)
        BY <1>2, <3>2, LinesGrow
      <3> QED
        BY <3>1, <3>4, <3>5 DEF Issuer
    <2> QED
      BY <2>1, <2>2
  <1>6. ASSUME NEW r \in RevokesOf(v)
        PROVE  /\ Signer(v, r) \in GrantsOf(v) /\ v[r].target \in GrantsOf(v)
               /\ \/ r \in Relinquishments(v)
                  \/ Signer(v, r) # v[r].target /\ Signer(v, r) \in Lineages(v)[v[r].target]
    <2> DEFINE e == all[r]
               past == Sub(all, PastIds(all, e))
               w == Derive(all, PastIds(all, e), order)
    <2>1. r \in V /\ e.kind = "revoke" /\ v[r] = e
      BY <1>2 DEF RevokesOf
    <2>2. /\ e.grant \in w.active /\ KindFault(all, e, past, w) = ""
          /\ w.active \subseteq GrantsOf(past) /\ Extends(past, v) /\ Sane(past)
      BY <1>3, <2>1
    <2> HIDE DEF past, w
    <2>3. RevokeFault(all, e, past, w) = ""
      BY <2>1, <2>2 DEF KindFault
    <2>4. e.target \in w.active /\ InScope(past, e.grant, e.target)
      BY <2>3 DEF RevokeFault
    <2>5. \A g \in GrantsOf(past) : g \in GrantsOf(v) /\ Lineages(past)[g] \subseteq Lineages(v)[g]
      BY <1>2, <2>2, LinesGrow
    <2>6. e.grant \in GrantsOf(v) /\ e.target \in GrantsOf(v)
      BY <2>2, <2>4, <2>5
    <2>7. Signer(v, r) = e.grant
      BY <1>4, <2>1, <2>6 DEF Signer, None
    <2>8. CASE e.grant = e.target
      <3>1. Issuer(past, e.target) = None
        BY <2>4, <2>8 DEF InScope
      <3>2. v[e.target] = past[e.target]
        BY <2>2, <2>4 DEF Extends, GrantsOf
      <3>3. Issuer(v, e.target) = None
        BY <3>1, <3>2 DEF Issuer
      <3>4. r \in Relinquishments(v)
        BY <2>1, <2>7, <2>8, <3>3 DEF Relinquishments
      <3>5. Signer(v, r) \in GrantsOf(v) /\ v[r].target \in GrantsOf(v)
        BY <2>1, <2>6, <2>7
      <3> QED
        BY <3>4, <3>5
    <2>9. CASE e.grant # e.target
      <3>1. e.grant \in Lineages(past)[e.target]
        BY <2>4, <2>9 DEF InScope
      <3>2. e.grant \in Lineages(v)[e.target]
        BY <2>2, <2>4, <2>5, <3>1
      <3> QED
        BY <2>1, <2>6, <2>7, <2>9, <3>2
    <2> QED
      BY <2>8, <2>9
  <1> QED
    BY <1>5, <1>6 DEF Ordained, v

(* So it is in all valid events.                                           *)
LEMMA ValidOrdained ==
    ASSUME NEW all, Sane(all), NEW order, NEW status, Solves(all, order, status)
    PROVE  Ordained(Sub(all, ValidIn(status)))
  <1> DEFINE V == ValidIn(status)
  <1>1. Upright(all, V) /\ V \subseteq ValidIn(status)
    BY ValidUpright
  <1> HIDE DEF V
  <1>2. Ordained(Sub(all, V))
    BY <1>1, PastOrdained
  <1> QED
    BY <1>2 DEF V

(* A revoke counts unless a revoke that counts cancels its signing grant   *)
(* or does not acknowledge it.                                             *)
Counts(all, lineage, cones, effective, r) ==
    /\ Cancellers(all, lineage, cones, effective, Signer(all, r)) = {}
    /\ ~\E q \in effective : Covers(all, lineage, q, Signer(all, r)) /\ Outside(all, cones, r, q)

(* Revokes are decided at the depth of their signing grants: the ones that *)
(* cover a grant were signed strictly above it.                            *)
LEMMA EffectiveSolves ==
    ASSUME NEW all, Sane(all), Ordained(all), NEW cones
    PROVE  LET effective == EffectiveRevokes(all, Lineages(all), cones) IN
           \A r \in RevokesOf(all) :
              r \in effective <=>
                 r \in Relinquishments(all) \/ Counts(all, Lineages(all), cones, effective, r)
  <1> DEFINE line == Lineages(all)
             effective == EffectiveRevokes(all, line, cones)
             root == Relinquishments(all)
             deep(q) == Depth(all, Signer(all, q))
  <1>1. PICK k \in Nat : \E upto :
           /\ k = Cardinality(GrantsOf(all))
           /\ Strata(all, line, cones, k, upto)
           /\ effective = upto[k]
    BY StrataExist
  <1>2. PICK upto : /\ Strata(all, line, cones, k, upto)
                    /\ effective = upto[k]
    BY <1>1
  <1> HIDE DEF effective
  <1>3. /\ upto \in [0 .. k -> SUBSET RevokesOf(all)] /\ upto[0] = root
        /\ \A d \in 1 .. k : upto[d] = upto[d - 1] \cup Batch(all, line, cones, upto[d - 1], d)
    BY <1>2 DEF Strata
  <1>4. \A j, n \in 0 .. k : j <= n => upto[j] \subseteq upto[n]
    BY <1>2, StrataGrow
  <1>5. \A g \in GrantsOf(all) :
           /\ Depth(all, g) \in 1 .. k
           /\ \A a \in line[g] : /\ Depth(all, a) <= Depth(all, g)
                                 /\ a # g => Depth(all, a) < Depth(all, g)
    BY <1>1, Depths
  <1>6. \A g \in GrantsOf(all) : /\ g \in line[g]
                                 /\ \A a \in line[g] : a \in GrantsOf(all)
    BY LinesNest
  <1>7. \A r \in RevokesOf(all) :
           /\ Signer(all, r) \in GrantsOf(all) /\ all[r].target \in GrantsOf(all)
           /\ \/ r \in root
              \/ Signer(all, r) # all[r].target /\ Signer(all, r) \in line[all[r].target]
    BY DEF Ordained
  <1>8. \A g \in GrantsOf(all) : Issuer(all, g) # None => Issuer(all, g) \in GrantsOf(all)
    BY DEF Ordained
  <1>9. \A n \in 0 .. k : \A q \in upto[n] \ root : deep(q) \in 1 .. n /\ q \in upto[deep(q)]
    <2> DEFINE H == {n \in 0 .. k : \A q \in upto[n] \ root : deep(q) \in 1 .. n /\ q \in upto[deep(q)]}
    <2>1. 0 \in H
      BY <1>3
    <2>2. ASSUME NEW n \in 0 .. k - 1, n \in H PROVE n + 1 \in H
      <3>1. n + 1 \in 1 .. k /\ n + 1 \in 0 .. k /\ (n + 1) - 1 = n /\ 1 .. n \subseteq 1 .. n + 1
            /\ n + 1 \in 1 .. n + 1
        OBVIOUS
      <3>2. upto[n + 1] = upto[n] \cup Batch(all, line, cones, upto[n], n + 1)
        BY <1>3, <3>1
      <3>3. ASSUME NEW q \in upto[n + 1] \ root
            PROVE  deep(q) \in 1 .. n + 1 /\ q \in upto[deep(q)]
        <4>1. CASE q \in upto[n]
          BY <2>2, <3>1, <4>1
        <4>2. CASE q \in Batch(all, line, cones, upto[n], n + 1)
          <5>1. deep(q) = n + 1
            BY <4>2 DEF Batch, Depth
          <5> QED
            BY <3>1, <5>1
        <4> QED
          BY <3>2, <4>1, <4>2
      <3> QED
        BY <3>1, <3>3
    <2>3. 0 .. k \subseteq H
      <3> HIDE DEF H
      <3> QED
        BY <2>1, <2>2, Upward
    <2> QED
      BY <2>3
  <1>10. ASSUME NEW d \in 1 .. k, NEW g \in GrantsOf(all), Depth(all, g) <= d,
                NEW q \in effective, Covers(all, line, q, g)
         PROVE  q \in upto[d - 1]
    <2>1. q \in RevokesOf(all) /\ k \in 0 .. k
      BY <1>2, <1>3
    <2>2. d - 1 \in 0 .. k /\ 0 \in 0 .. k /\ 0 <= d - 1
      OBVIOUS
    <2>3. CASE q \in root
      BY <1>3, <1>4, <2>2, <2>3
    <2>4. CASE q \notin root
      <3> DEFINE t == all[q].target
                 s == Signer(all, q)
      <3>1. t \in line[g]
        BY <1>6, <1>10 DEF Covers
      <3>2. s # t /\ s \in line[t] /\ t \in GrantsOf(all) /\ s \in GrantsOf(all)
        BY <1>7, <2>1, <2>4
      <3>3. Depth(all, s) < Depth(all, t) /\ Depth(all, t) <= Depth(all, g)
            /\ Depth(all, s) \in 1 .. k /\ Depth(all, t) \in 1 .. k /\ Depth(all, g) \in 1 .. k
        BY <1>5, <3>1, <3>2
      <3> DEFINE x == Depth(all, s)
      <3>4. x \in 0 .. k /\ x <= d - 1
        <4>1. \A y, z, u \in 1 .. k : y < z /\ z <= u /\ u <= d => y \in 0 .. k /\ y <= d - 1
          OBVIOUS
        <4> QED
          BY <1>10, <3>3, <4>1
      <3>5. q \in upto[x]
        BY <1>2, <1>9, <2>1, <2>4
      <3> HIDE DEF x
      <3> QED
        BY <1>4, <2>2, <3>4, <3>5
    <2> QED
      BY <2>3, <2>4
  <1>11. ASSUME NEW r \in RevokesOf(all), r \notin root
         PROVE  r \in effective <=> Counts(all, line, cones, effective, r)
    <2> DEFINE g == Signer(all, r)
    <2>1. g \in GrantsOf(all)
      BY <1>7
    <2>2. PICK d \in 1 .. k : d = Depth(all, g)
      BY <1>5, <2>1
    <2>3. d - 1 \in 0 .. k /\ d \in 0 .. k /\ k \in 0 .. k /\ d - 1 <= k /\ d <= k /\ d \notin 1 .. d - 1
      OBVIOUS
    <2>4. upto[d - 1] \subseteq effective /\ upto[d] \subseteq effective
      BY <1>2, <1>4, <2>3
    <2> DEFINE above == upto[d - 1]
    <2>5. \A q \in effective : Covers(all, line, q, g) => q \in above
      BY <1>10, <2>1, <2>2, <2>3
    <2>6. ASSUME NEW q \in effective, NEW a \in line[g], Issuer(all, a) # None,
                 Covers(all, line, q, Issuer(all, a))
          PROVE  q \in above
      <3> DEFINE i == Issuer(all, a)
      <3>1. a \in GrantsOf(all) /\ i \in GrantsOf(all)
        BY <1>6, <1>8, <2>1, <2>6
      <3>2. i \in line[a]
        <4>1. line[a] = {a} \cup (IF i \in GrantsOf(all) THEN line[i] ELSE {})
          BY <3>1, LineFacts
        <4>2. i \in line[i]
          BY <1>6, <3>1
        <4> QED
          BY <3>1, <4>1, <4>2
      <3>3. /\ Depth(all, i) <= Depth(all, a) /\ Depth(all, a) <= Depth(all, g)
            /\ Depth(all, i) \in 1 .. k /\ Depth(all, a) \in 1 .. k
        BY <1>5, <2>1, <3>1, <3>2
      <3>4. Depth(all, i) <= d
        <4>1. \A y, z \in 1 .. k : y <= z /\ z <= d => y <= d
          OBVIOUS
        <4> QED
          BY <2>2, <3>3, <4>1
      <3> QED
        BY <1>10, <2>6, <3>1, <3>4
    <2>7. Cancellers(all, line, cones, above, g) = Cancellers(all, line, cones, effective, g)
      <3> HIDE DEF g, above, line
      <3> QED
        BY <2>4, <2>6 DEF Cancellers, above
    <2>8. r \in Batch(all, line, cones, above, d) <=> Counts(all, line, cones, effective, r)
      <3>1. (\E q \in above : Covers(all, line, q, g) /\ Outside(all, cones, r, q))
            <=> \E q \in effective : Covers(all, line, q, g) /\ Outside(all, cones, r, q)
        BY <2>4, <2>5
      <3>2. Cardinality(line[g]) = d
        BY <2>2 DEF Depth
      <3> HIDE DEF line, above
      <3> QED
        BY <1>11, <2>7, <3>1, <3>2 DEF Batch, Counts
    <2>9. r \in effective => r \in Batch(all, line, cones, above, d)
      <3> SUFFICES ASSUME r \in effective PROVE r \in Batch(all, line, cones, above, d)
        OBVIOUS
      <3>1. r \in upto[d]
        BY <1>2, <1>9, <1>11, <2>2, <2>3
      <3>2. r \notin above
        BY <1>9, <1>11, <2>2, <2>3
      <3> QED
        BY <1>3, <3>1, <3>2
    <2>10. r \in Batch(all, line, cones, above, d) => r \in effective
      BY <1>3, <2>4
    <2> QED
      BY <2>8, <2>9, <2>10
  <1>12. ASSUME NEW r \in root PROVE r \in effective
    <2>1. 0 \in 0 .. k /\ k \in 0 .. k /\ 0 <= k
      OBVIOUS
    <2> QED
      BY <1>2, <1>3, <1>4, <2>1
  <1>13. \A r \in RevokesOf(all) : r \in effective <=> r \in root \/ Counts(all, line, cones, effective, r)
    BY <1>11, <1>12
  <1> QED
    BY <1>13 DEF effective

-----------------------------------------------------------------------------
(* What the view holds                                                     *)

Retained == Sub(events, retained)
Judged == Classify(Retained, InOrder(events))

(* The statuses of the view solve the equations of the fold.               *)
LEMMA ViewStatuses ==
    ASSUME LedgerInv
    PROVE  /\ Sane(Retained) /\ Covering(Retained, InOrder(events))
           /\ DOMAIN Retained = retained /\ \A id \in retained : Retained[id] = events[id]
           /\ Solves(Retained, InOrder(events), Judged)
           /\ SolvesEdges(Retained, Judged, view.status)
           /\ DOMAIN view.status = retained
           /\ ValidIds = ValidIn(Judged)
  <1>1. Sane(Retained) /\ Covering(Retained, InOrder(events)) /\ DOMAIN Retained = retained
    BY FoldGround DEF LedgerInv, Ids, Retained
  <1>2. \A id \in retained : Retained[id] = events[id]
    BY DEF Retained, Sub
  <1>3. view = ProjectAll(Retained, InOrder(events))
    BY DEF LedgerInv, Fold, Retained
  <1>4. Solves(Retained, InOrder(events), Judged) /\ SolvesEdges(Retained, Judged, view.status)
    BY <1>1, <1>3, ProjectionSolves DEF Judged
  <1>5. DOMAIN view.status = retained
    BY <1>1, <1>4 DEF SolvesEdges
  <1>6. DOMAIN Judged = SubjectIds(Retained)
    BY <1>4 DEF Solves
  <1>7. \A id \in SubjectIds(Retained) : view.status[id] = Judged[id]
    BY <1>4 DEF SolvesEdges
  <1>8. SubjectIds(Retained) = {id \in retained : IsSubject(events[id])}
    BY <1>1, <1>2 DEF SubjectIds
  <1>9. ValidIds = ValidIn(Judged)
    BY <1>5, <1>6, <1>7, <1>8 DEF ValidIds, ValidIn
  <1> QED
    BY <1>1, <1>2, <1>4, <1>5, <1>9

(* Its readings are derived from the valid subject events.                 *)
LEMMA ViewReadings ==
    ASSUME LedgerInv
    PROVE  /\ Upright(Retained, ValidIds) /\ Envelopes = Sub(Retained, ValidIds)
           /\ DOMAIN Envelopes = ValidIds /\ \A id \in ValidIds : Envelopes[id] = events[id]
           /\ Sane(Envelopes) /\ Closed(Envelopes) /\ Covering(Envelopes, InOrder(events))
           /\ view.cones = Cones(Envelopes) /\ view.selected = Selections(Envelopes)
           /\ view.authority = DeriveFrom(Envelopes, Lineages(Envelopes), Cones(Envelopes),
                                          InOrder(events))
           /\ view.frontier = [s \in {id \in ValidIds : events[id].kind = "genesis"} |->
                                 Frontier(Envelopes, view.cones, view.authority, s)]
           /\ view.state = [s \in {id \in ValidIds : events[id].kind = "genesis"} |->
                                 SubjectState(view.frontier[s])]
  <1> DEFINE o == InOrder(events)
             p == ProjectOf(Retained, Judged, o)
  <1>1. /\ Sane(Retained) /\ Covering(Retained, o) /\ DOMAIN Retained = retained
        /\ \A id \in retained : Retained[id] = events[id]
        /\ Solves(Retained, o, Judged) /\ ValidIds = ValidIn(Judged)
    BY ViewStatuses
  <1>2. Upright(Retained, ValidIds)
    BY <1>1, ValidUpright
  <1>3. ValidIds \subseteq retained
    BY <1>1, <1>2 DEF Upright
  <1>4. Envelopes = Sub(Retained, ValidIds)
    BY <1>1, <1>3 DEF Envelopes, Sub
  <1>5. DOMAIN Envelopes = ValidIds /\ \A id \in ValidIds : Envelopes[id] = events[id]
    BY DEF Envelopes, Sub
  <1>6. Sane(Envelopes) /\ Closed(Envelopes)
    BY <1>1, <1>2, <1>4, SubFacts
  <1>7. Covering(Envelopes, o)
    BY <1>1, <1>3, <1>5 DEF Covering
  <1>8. /\ view.cones = p.cones /\ view.selected = p.selected /\ view.authority = p.authority
        /\ view.frontier = p.frontier /\ view.state = p.state
    <2>1. view = ProjectAll(Retained, o)
      BY DEF LedgerInv, Fold, Retained
    <2>2. view = WithEdges(Retained, p, ClassifyEdges(Retained, Judged, o), Subjects(Retained, Judged))
      BY <2>1 DEF ProjectAll, Judged
    <2> HIDE DEF p
    <2> QED
      BY <2>2 DEF WithEdges
  <1>9. p = Readings(Envelopes, Judged, Derive(Retained, ValidIds, o), Cones(Envelopes))
    BY <1>1, <1>4 DEF ProjectOf, Analyze
  <1>10. Derive(Retained, ValidIds, o) = DeriveFrom(Envelopes, Lineages(Envelopes), Cones(Envelopes), o)
    BY <1>4 DEF Derive
  <1> DEFINE d == Derive(Retained, ValidIds, o)
             roots == {id \in ValidIds : events[id].kind = "genesis"}
  <1>11. roots = {id \in DOMAIN Envelopes : Envelopes[id].kind = "genesis"}
    BY <1>5
  <1> HIDE DEF p, d, roots
  <1>12. /\ p.cones = Cones(Envelopes) /\ p.selected = Selections(Envelopes) /\ p.authority = d
         /\ p.frontier = [s \in roots |-> Frontier(Envelopes, Cones(Envelopes), d, s)]
         /\ p.state = [s \in roots |-> SubjectState(p.frontier[s])]
    BY <1>9, <1>11 DEF Readings, d
  <1>13. /\ view.frontier = [s \in roots |-> Frontier(Envelopes, view.cones, view.authority, s)]
         /\ view.state = [s \in roots |-> SubjectState(view.frontier[s])]
         /\ view.cones = Cones(Envelopes) /\ view.selected = Selections(Envelopes)
         /\ view.authority = d
    BY <1>8, <1>12
  <1> QED
    BY <1>2, <1>4, <1>5, <1>6, <1>7, <1>10, <1>13 DEF d, roots

(* The effective revokes solve the rule they stand for.                    *)
LEMMA EffectiveAreSolved == LedgerInv => EffectiveIsFixpoint
  <1> SUFFICES ASSUME LedgerInv, NEW r \in RevokesOf(Envelopes)
               PROVE  r \in view.authority.effective <=>
                        \/ r \in Relinquishments(Envelopes)
                        \/ /\ Signer(Envelopes, r) \notin view.authority.canceled
                           /\ ~\E q \in view.authority.effective : OutOfCut(r, q)
    BY DEF EffectiveIsFixpoint
  <1> DEFINE E == Envelopes
             line == Lineages(E)
             effective == EffectiveRevokes(E, line, view.cones)
  <1>1. /\ Sane(E) /\ Envelopes = Sub(Retained, ValidIn(Judged))
        /\ view.cones = Cones(E)
        /\ view.authority = DeriveFrom(E, line, view.cones, InOrder(events))
    BY ViewReadings, ViewStatuses
  <1>2. /\ view.authority.effective = effective
        /\ view.authority.canceled = {g \in GrantsOf(E) : Cancellers(E, line, view.cones, effective, g) # {}}
    BY <1>1 DEF DeriveFrom, Standing
  <1>3. Ordained(E)
    BY <1>1, ViewStatuses, ValidOrdained
  <1> HIDE DEF E
  <1>4. r \in RevokesOf(E)
    BY DEF E
  <1>5. r \in effective <=> r \in Relinquishments(E) \/ Counts(E, line, view.cones, effective, r)
    BY <1>1, <1>3, <1>4, EffectiveSolves
  <1>6. Signer(E, r) \in GrantsOf(E)
    BY <1>3, <1>4 DEF Ordained
  <1>7. (\E q \in effective : OutOfCut(r, q))
        <=> \E q \in effective : Covers(E, line, q, Signer(E, r)) /\ Outside(E, view.cones, r, q)
    BY DEF OutOfCut, E
  <1> HIDE DEF effective
  <1>8. Counts(E, line, view.cones, effective, r)
        <=> Signer(E, r) \notin view.authority.canceled /\ ~\E q \in effective : OutOfCut(r, q)
    BY <1>2, <1>6, <1>7 DEF Counts
  <1> QED
    BY <1>2, <1>5, <1>8 DEF E

(* What an event's own effect says of the revokes that reach it.           *)
LEMMA OwnReasons ==
  ASSUME NEW all, NEW lineage, NEW cones, NEW effective, NEW id
  PROVE  LET own == OwnEffect(all, lineage, cones, effective, id)
         IN  /\ own.reason = "root_relinquished" => id \in Relinquishments(all)
             /\ own.reason = "" =>
                  /\ {r \in effective : Covers(all, lineage, r, Signer(all, id))
                                         /\ Outside(all, cones, id, r)} = {}
                  /\ Cancellers(all, lineage, cones, effective, Signer(all, id)) = {}
  <1> DEFINE own == OwnEffect(all, lineage, cones, effective, id)
             controls == {r \in effective : Covers(all, lineage, r, Signer(all, id))
                                             /\ Outside(all, cones, id, r)}
             why == own.reason
  <1>1. CASE id \in Relinquishments(all)
    <2>1. why = "root_relinquished"
      BY <1>1 DEF OwnEffect
    <2> HIDE DEF why
    <2>2. why # ""
      BY <2>1
    <2> QED
      BY <1>1, <2>2 DEF why
  <1>2. CASE id \notin Relinquishments(all) /\ controls # {}
    <2>1. own = [reason |-> "revoked_concurrent", controls |-> controls]
      BY <1>2, Zenon DEF OwnEffect
    <2>2. why = "revoked_concurrent"
      BY <2>1
    <2> HIDE DEF why
    <2>3. why # "" /\ why # "root_relinquished"
      BY <2>2
    <2> QED
      BY <2>3 DEF why
  <1>3. CASE id \notin Relinquishments(all) /\ controls = {}
    <2> DEFINE rest == IF id \in GrantsOf(all) /\ Cancellers(all, lineage, cones, effective, id) # {}
                       THEN [reason |-> "canceled_grant",
                             controls |-> Cancellers(all, lineage, cones, effective, id)]
                       ELSE IF Cancellers(all, lineage, cones, effective, Signer(all, id)) # {}
                       THEN [reason |-> "canceled_authority",
                             controls |-> Cancellers(all, lineage, cones, effective, Signer(all, id))]
                       ELSE [reason |-> "", controls |-> {}]
    <2>1. own = rest
      BY <1>3, Zenon DEF OwnEffect
    <2>2. rest.reason \in {"canceled_grant", "canceled_authority", ""}
      OBVIOUS
    <2>4. rest.reason = "" => Cancellers(all, lineage, cones, effective, Signer(all, id)) = {}
      OBVIOUS
    <2> HIDE DEF rest
    <2>3. why # "root_relinquished"
      BY <2>1, <2>2
    <2> QED
      BY <1>3, <2>1, <2>3, <2>4
  <1> QED
    BY <1>1, <1>2, <1>3

(* What is under a frontier is in force, and so is the grant it was signed *)
(* through.                                                                *)
LEMMA FrontierStands ==
    ASSUME LedgerInv, NEW s \in DOMAIN view.frontier, NEW h \in view.frontier[s],
           view.cones[h] \cap Relinquishments(Envelopes) = {},
           NEW a \in view.cones[h]
    PROVE  /\ Reason(a) = "" /\ ~\E r \in view.authority.effective : OutOfCut(a, r)
           /\ Signer(Envelopes, a) \notin view.authority.canceled
  <1> DEFINE E == Envelopes
             line == Lineages(E)
             cones == Cones(E)
             effective == EffectiveRevokes(E, line, cones)
             own == OwnOf(E, line, cones, effective)
             root == Relinquishments(E)
  <1>1. /\ Sane(E) /\ Closed(E) /\ Covering(E, InOrder(events)) /\ DOMAIN E = ValidIds
        /\ view.cones = cones /\ view.authority = DeriveFrom(E, line, cones, InOrder(events))
        /\ view.frontier = [x \in {id \in ValidIds : events[id].kind = "genesis"} |->
                              Frontier(E, view.cones, view.authority, x)]
    BY ViewReadings
  <1>2. h \in DOMAIN E /\ view.authority.effects[h].reason = ""
    <2>1. h \in Frontier(E, view.cones, view.authority, s)
      BY <1>1
    <2> QED
      BY <2>1 DEF Frontier
  <1>3. view.authority.effective = effective
    BY <1>1 DEF DeriveFrom, Standing
  <1>4. effective \subseteq RevokesOf(E) /\ root \subseteq effective
    BY <1>1, EffectiveFacts
  <1>5. cones[h] \cap root = {} /\ a \in cones[h]
    BY <1>1
  <1> HIDE DEF E, effective, root
  <1>6. PICK fin : Settled(E, own, fin)
    <2>1. OwnEffects(E, own)
      BY <1>1, <1>4, OwnOfFacts DEF root
    <2> HIDE DEF own
    <2> QED
      BY <1>1, <2>1, SettledExists
  <1>7. \A id \in DOMAIN E : view.authority.effects[id].reason = fin[id]
    BY <1>1, <1>6, DeriveSettles DEF effective
  <1>8. \A id \in DOMAIN E : own[id] = OwnEffect(E, line, cones, effective, id)
    BY DEF OwnOf
  <1> HIDE DEF own, line, cones
  <1>9. \A id \in DOMAIN E : own[id].reason = "root_relinquished" => id \in root
    BY <1>8, OwnReasons DEF root
  <1>10. \A id \in DOMAIN E : fin[id] = "" =>
            own[id].reason = "" /\ \A p \in E[id].parents : ~Silencing(fin[p])
    BY <1>6 DEF Settled
  <1>11. \A id \in DOMAIN E : fin[id] = "root_relinquished" => id \in root
    <2>1. \A id \in DOMAIN E : fin[id] = "root_relinquished" => own[id].reason = "root_relinquished"
      BY <1>6 DEF Settled
    <2> QED
      BY <1>9, <2>1
  <1> DEFINE D == DOMAIN E
             G == {id \in D : fin[id] = "" /\ cones[id] \cap root = {} => \A x \in cones[id] : fin[x] = ""}
  <1>12. \A id \in D : /\ cones[id] = {id} \cup UNION {cones[p] : p \in E[id].parents}
                       /\ \A p \in E[id].parents : p \in D /\ p < id /\ p \in cones[p]
    <2>1. \A id \in D : cones[id] = {id} \cup UNION {cones[p] : p \in E[id].parents \cap D}
      BY <1>1, ConeFacts DEF cones
    <2>2. \A id \in D : E[id].parents \subseteq D
      BY <1>1 DEF Closed
    <2>3. \A id \in D : \A p \in E[id].parents : p < id
      BY <1>1, SaneIds
    <2>4. \A id \in D : E[id].parents \cap D = E[id].parents
      BY <2>2
    <2> HIDE DEF D
    <2>5. \A id \in D : id \in cones[id]
      BY <2>1
    <2> QED
      BY <2>1, <2>2, <2>3, <2>4, <2>5
  <1>13. ASSUME NEW id \in D, \A c \in D : c < id => c \in G PROVE id \in G
    <2> SUFFICES ASSUME fin[id] = "", cones[id] \cap root = {}, NEW x \in cones[id] PROVE fin[x] = ""
      OBVIOUS
    <2>0. /\ cones[id] = {id} \cup UNION {cones[p] : p \in E[id].parents}
          /\ \A p \in E[id].parents : p \in D /\ p < id /\ p \in cones[p]
      BY <1>12
    <2>1. CASE x = id
      BY <2>1
    <2>2. CASE x # id
      <3>1. PICK p \in E[id].parents : x \in cones[p]
        BY <2>0, <2>2
      <3>2. p \in D /\ p < id /\ p \in cones[p] /\ cones[p] \subseteq cones[id]
        BY <2>0, <3>1
      <3>3. fin[p] = ""
        <4>1. ~Silencing(fin[p])
          BY <1>10
        <4>2. p \notin root
          BY <3>2
        <4> QED
          BY <1>11, <3>2, <4>1, <4>2 DEF Silencing
      <3>4. cones[p] \cap root = {} /\ p \in G
        BY <1>13, <3>2
      <3> QED
        BY <3>1, <3>3, <3>4
    <2> QED
      BY <2>1, <2>2
  <1>14. D \subseteq G
    <2>1. D \in SUBSET Nat
      BY <1>1, SaneIds
    <2> HIDE DEF D, G
    <2> QED
      BY <1>13, <2>1, FromBelow
  <1>15. fin[a] = "" /\ a \in D
    <2>1. fin[h] = "" /\ h \in G
      BY <1>2, <1>7, <1>14
    <2>3. \A x \in DOMAIN E : Cones(E)[x] \subseteq DOMAIN E
      BY <1>1, ConeFacts
    <2>2. cones[h] \subseteq D
      BY <1>2, <2>3 DEF cones
    <2> QED
      BY <1>5, <2>1, <2>2
  <1>16. Reason(a) = ""
    BY <1>7, <1>15 DEF Reason
  <1>17. own[a].reason = ""
    BY <1>10, <1>15
  <1>18. {r \in effective : Covers(E, line, r, Signer(E, a)) /\ Outside(E, cones, a, r)} = {}
    BY <1>8, <1>15, <1>17, OwnReasons
  <1>19. ~\E r \in effective : OutOfCut(a, r)
    BY <1>1, <1>18 DEF OutOfCut, E, line
  <1>20. Cancellers(E, line, cones, effective, Signer(E, a)) = {}
    BY <1>8, <1>15, <1>17, OwnReasons
  <1>21. view.authority.canceled = {g \in GrantsOf(E) : Cancellers(E, line, cones, effective, g) # {}}
    BY <1>1 DEF DeriveFrom, Standing, line, cones, effective
  <1>22. Signer(E, a) \notin view.authority.canceled
    BY <1>20, <1>21
  <1> QED
    BY <1>3, <1>16, <1>19, <1>22 DEF E

(* No frontier stands on what is suppressed.                               *)
LEMMA FrontiersAreClean == LedgerInv => FrontierIsClean
  BY FrontierStands DEF FrontierIsClean

(* authority::derive and project: the effective revokes are the solution   *)
(* of their rule, whatever the envelopes, and no frontier stands on what   *)
(* they suppress.                                                          *)
THEOREM AuthorityAlwaysSolved == Spec => []AuthorityIsSolved
  <1>1. LedgerInv => AuthorityIsSolved
    BY EffectiveAreSolved, FrontiersAreClean DEF AuthorityIsSolved
  <1> QED
    BY <1>1, ViewIsTheFold, PTL

-----------------------------------------------------------------------------
(* Edges and what they pin                                                 *)

(* A nonempty bounded set of natural numbers has a greatest element.       *)
LEMMA Greatest ==
    ASSUME NEW m \in Nat, NEW S, S \subseteq 0 .. m, S # {}
    PROVE  \E x \in S : \A y \in S : y <= x
  <1> DEFINE B == {k \in Nat : \A y \in S : y <= k}
  <1>1. m \in B /\ B \in SUBSET Nat
    OBVIOUS
  <1>2. PICK k \in B : \A j \in B : k <= j
    <2> HIDE DEF B
    <2> QED
      BY <1>1, LeastNat
  <1>3. CASE k \in S
    BY <1>3
  <1>4. CASE k \notin S
    <2>1. \A y \in S : y \in Nat /\ y < k
      BY <1>2, <1>4
    <2> PICK z \in S : TRUE
      OBVIOUS
    <2>2. k \in Nat /\ k # 0
      BY <1>2, <2>1
    <2>5. k - 1 \in Nat
      BY <2>2
    <2>3. \A y \in S : y <= k - 1
      BY <2>1
    <2>4. k - 1 \in B
      BY <2>3, <2>5
    <2> QED
      BY <1>2, <2>2, <2>4
  <1> QED
    BY <1>3, <1>4

(* Nothing in a past is later than what it is the past of.                 *)
LEMMA ConesLookBack ==
    ASSUME NEW all, Sane(all), NEW id \in DOMAIN all
    PROVE  \A x \in Cones(all)[id] : x \in Nat /\ x <= id
  <1> DEFINE C == {x \in DOMAIN all : x <= id}
  <1>1. DOMAIN all \subseteq Nat /\ \A d \in DOMAIN all : \A p \in all[d].parents : p \in Nat /\ p < d
    BY SaneIds
  <1>2. \A d \in C \cap DOMAIN all : all[d].parents \cap DOMAIN all \subseteq C
    BY <1>1
  <1>3. id \in C \cap DOMAIN all
    BY <1>1
  <1>4. Cones(all)[id] \subseteq C
    <2> HIDE DEF C
    <2> QED
      BY <1>2, <1>3, ConeWithin
  <1> QED
    BY <1>1, <1>4

(* A valid event belongs to the subject of its whole past, and that        *)
(* subject's genesis is in it.                                             *)
LEMMA SubjectsReach ==
    ASSUME NEW all, Sane(all), NEW order, NEW status, Solves(all, order, status)
    PROVE  LET v == Sub(all, ValidIn(status)) IN
           \A id \in ValidIn(status) :
              /\ SubjectOf(all, id) \in Cones(v)[id] /\ all[SubjectOf(all, id)].kind = "genesis"
              /\ \A x \in Cones(v)[id] : SubjectOf(all, x) = SubjectOf(all, id)
  <1> DEFINE V == ValidIn(status)
             v == Sub(all, V)
             cone == Cones(v)
             G == {id \in V : /\ SubjectOf(all, id) \in cone[id]
                              /\ all[SubjectOf(all, id)].kind = "genesis"
                              /\ \A x \in cone[id] : SubjectOf(all, x) = SubjectOf(all, id)}
  <1>1. Upright(all, V)
    BY ValidUpright
  <1>2. DOMAIN v = V /\ (\A id \in V : v[id] = all[id]) /\ Sane(v)
    BY <1>1, SubFacts
  <1>3. V \in SUBSET Nat
    BY <1>1, SaneIds DEF Upright
  <1> HIDE DEF v
  <1>4. \A id \in V : cone[id] = {id} \cup UNION {cone[p] : p \in all[id].parents}
    <2>1. \A id \in V : cone[id] = {id} \cup UNION {cone[p] : p \in all[id].parents \cap V}
      BY <1>2, ConeFacts
    <2>2. \A id \in V : all[id].parents \cap V = all[id].parents
      BY <1>1 DEF Upright
    <2> QED
      BY <2>1, <2>2
  <1>5. \A id \in V : \A p \in all[id].parents : p \in V /\ p < id
    BY <1>1, SaneIds DEF Upright
  <1>6. \A id \in V : /\ all[id].kind = "genesis" => all[id].parents = {} /\ all[id].subject = None
                      /\ all[id].kind # "genesis" => Founded(all, order, status, all[id])
    BY ValidFacts
  <1> HIDE DEF V, cone
  <1>7. ASSUME NEW id \in V, \A c \in V : c < id => c \in G PROVE id \in G
    <2> DEFINE e == all[id]
    <2>1. cone[id] = {id} \cup UNION {cone[p] : p \in e.parents}
      BY <1>4
    <2>2. CASE e.kind = "genesis"
      <3>1. e.parents = {} /\ SubjectOf(all, id) = id
        BY <1>6, <2>2 DEF SubjectOf
      <3>2. cone[id] = {id}
        BY <2>1, <3>1
      <3> QED
        BY <2>2, <3>1, <3>2
    <2>3. CASE e.kind # "genesis"
      <3>1. Founded(all, order, status, e)
        BY <1>6, <2>3
      <3>2. e.subject # None /\ e.parents # {}
        BY <3>1 DEF Founded, ParentsFault
      <3>3. \A p \in e.parents : SubjectOf(all, p) = e.subject
        BY <3>1 DEF Founded, SubjectFault
      <3>4. SubjectOf(all, id) = e.subject
        BY <3>2 DEF SubjectOf
      <3>5. \A p \in e.parents : p \in G
        BY <1>5, <1>7
      <3>6. \A x \in cone[id] : SubjectOf(all, x) = e.subject
        <4>1. ASSUME NEW x \in cone[id], x # id PROVE SubjectOf(all, x) = e.subject
          <5>1. PICK p \in e.parents : x \in cone[p]
            BY <2>1, <4>1
          <5> QED
            BY <3>3, <3>5, <5>1
        <4> QED
          BY <3>4, <4>1
      <3>7. PICK p \in e.parents : TRUE
        BY <3>2
      <3>8. e.subject \in cone[p] /\ all[e.subject].kind = "genesis"
        BY <3>3, <3>5, <3>7
      <3>9. e.subject \in cone[id]
        BY <2>1, <3>8
      <3> QED
        BY <3>4, <3>6, <3>8, <3>9
    <2> QED
      BY <2>2, <2>3
  <1>8. V \subseteq G
    <2> HIDE DEF G
    <2> QED
      BY <1>3, <1>7, FromBelow
  <1> QED
    BY <1>8 DEF V, v, cone

(* A pin that checks.                                                      *)
Holds(pin, all, out, s) ==
    /\ {pin.subject, pin.basis} \subseteq DOMAIN all
    /\ all[pin.subject].kind = "genesis" /\ IsSubject(all[pin.basis])
    /\ SubjectOf(all, pin.basis) = pin.subject
    /\ out[pin.basis].state \notin {"invalid", "pending"}
    /\ s.selected[pin.basis] = pin.revision
    /\ all[pin.revision].body = pin.body

(* Pins found valid hold what they claim.                                  *)
LEMMA PinsHold ==
    ASSUME NEW pins, NEW all, NEW out, NEW s, CheckPins(pins, all, out, s).state = "valid"
    PROVE  Holds(pins.source, all, out, s) /\ Holds(pins.target, all, out, s)
  <1> DEFINE src == CheckPin(pins.source, all, out, s)
             tgt == CheckPin(pins.target, all, out, s)
  <1>1. \A r, M : Invalid(r).state = "invalid" /\ Pending(r, M).state = "pending"
    BY DEF Invalid, Pending
  <1>2. ASSUME NEW pin, CheckPin(pin, all, out, s) = Valid PROVE Holds(pin, all, out, s)
    <2>1. Valid.state = "valid"
      BY DEF Valid
    <2>2. {pin.subject, pin.basis} \ DOMAIN all = {}
      BY <1>1, <1>2, <2>1 DEF CheckPin
    <2>3. /\ all[pin.subject].kind = "genesis" /\ IsSubject(all[pin.basis])
          /\ SubjectOf(all, pin.basis) = pin.subject
      BY <1>1, <1>2, <2>1, <2>2 DEF CheckPin
    <2>4. out[pin.basis].state \notin {"invalid", "pending"}
      BY <1>1, <1>2, <2>1, <2>2, <2>3 DEF CheckPin
    <2>5. s.selected[pin.basis] = pin.revision /\ all[pin.revision].body = pin.body
      BY <1>1, <1>2, <2>1, <2>2, <2>3, <2>4 DEF CheckPin
    <2> QED
      BY <2>2, <2>3, <2>4, <2>5 DEF Holds
  <1>3. /\ src = Valid \/ src.state \in {"invalid", "pending"}
        /\ tgt = Valid \/ tgt.state \in {"invalid", "pending"}
    BY PinIs
  <1>4. CheckPins(pins, all, out, s) =
          IF src.state = "invalid" THEN src ELSE IF tgt.state = "invalid" THEN tgt
          ELSE IF src.missing \cup tgt.missing # {}
          THEN Pending("pin_missing", src.missing \cup tgt.missing)
          ELSE IF src.state = "pending" THEN src ELSE tgt
    BY DEF CheckPins
  <1> HIDE DEF src, tgt
  <1>5. src = Valid /\ tgt = Valid
    BY <1>1, <1>3, <1>4
  <1> QED
    BY <1>2, <1>5 DEF src, tgt

(* What a valid event of an edge keeps of its assertion.                   *)
LEMMA EdgeHolds ==
    ASSUME NEW all, Sane(all), NEW s, NEW f, SolvesEdges(all, s, f),
           NEW edge \in Asserts(all), NEW id \in ChainOf(all, f, edge)
    PROVE  /\ id \in DOMAIN all /\ all[id].author = all[edge].author
           /\ \A side \in {"source", "target"} :
                 /\ Holds(all[id].pins[side], all, f, Subjects(all, s))
                 /\ all[id].pins[side].subject = all[edge].pins[side].subject
  <1> DEFINE e == all[id]
             S == Subjects(all, s)
  <1>1. /\ id \in DOMAIN all /\ f[id].state = "valid" /\ EdgeOf(all, id) = edge
        /\ edge \in DOMAIN all /\ edge # None
    BY SaneIds DEF ChainOf, ValidIn, SolvesEdges, Asserts, None
  <1>2. e.kind \in {"edge_assert", "edge_reaffirm"}
    BY <1>1 DEF EdgeOf
  <1>3. id \in DOMAIN all \ SubjectIds(all) /\ f[id] = EvaluateEdge(id, all, f, S)
    BY <1>1, <1>2 DEF SolvesEdges, SubjectIds, IsSubject, EdgeKinds
  <1>4. \A r, M : Invalid(r).state = "invalid" /\ Pending(r, M).state = "pending"
    BY DEF Invalid, Pending
  <1> HIDE DEF S
  <1>5. CASE e.kind = "edge_assert"
    <2>1. id = edge
      BY <1>1, <1>5 DEF EdgeOf
    <2>2. EvaluateAssert(all, e, f, S).state = "valid"
      BY <1>1, <1>3, <1>4, <1>5 DEF EvaluateEdge
    <2> DEFINE pinned == CheckPins(e.pins, all, f, S)
               fault == /\ e.relation = "disputes"
                        /\ \/ e.pins.source.subject = e.pins.target.subject
                           \/ all[e.pins.source.subject].author # e.author
    <2>3. EvaluateAssert(all, e, f, S) =
            IF e.parents # {} THEN Invalid("parents")
            ELSE IF e.decision # "sound" THEN Invalid("decision_mismatch")
            ELSE IF e.relation \notin RELATIONS THEN Invalid("relation")
            ELSE IF pinned # Valid THEN pinned
            ELSE IF fault THEN Invalid("dispute_counterclaim") ELSE Valid
      BY DEF EvaluateAssert
    <2>6. Valid.state = "valid"
      BY DEF Valid
    <2> HIDE DEF pinned, fault
    <2>7. pinned.state = "valid"
      BY <1>4, <2>2, <2>3, <2>6
    <2>4. CheckPins(e.pins, all, f, S).state = "valid"
      BY <2>7 DEF pinned
    <2>5. Holds(e.pins.source, all, f, S) /\ Holds(e.pins.target, all, f, S)
      BY <2>4, PinsHold
    <2> QED
      BY <1>1, <2>1, <2>5 DEF S
  <1>6. CASE e.kind = "edge_reaffirm"
    <2>1. e.edge = edge
      BY <1>1, <1>6 DEF EdgeOf
    <2>2. EvaluateReaffirm(all, e, f, S).state = "valid"
      BY <1>1, <1>3, <1>4, <1>6 DEF EvaluateEdge
    <2>3. e.author = all[edge].author
      BY <1>4, <2>1, <2>2 DEF EvaluateReaffirm
    <2>4. ReaffirmFault(all, e) = "" /\ CheckPins(e.pins, all, f, S).state = "valid"
      BY <1>4, <2>2 DEF EvaluateReaffirm
    <2>5. /\ e.pins.source.subject = all[edge].pins.source.subject
          /\ e.pins.target.subject = all[edge].pins.target.subject
      BY <2>1, <2>4 DEF ReaffirmFault
    <2>6. Holds(e.pins.source, all, f, S) /\ Holds(e.pins.target, all, f, S)
      BY <2>4, PinsHold
    <2> QED
      BY <1>1, <2>3, <2>5, <2>6 DEF S
  <1> QED
    BY <1>2, <1>5, <1>6

(* A chain that is not empty has heads.                                    *)
LEMMA HeadsExist ==
    ASSUME NEW all, Sane(all), NEW chain, chain \subseteq DOMAIN all, chain # {}
    PROVE  HeadsOf(all, chain) # {} /\ HeadsOf(all, chain) \subseteq chain
  <1>1. PICK m \in Nat : chain \subseteq 0 .. m
    <2>1. PICK m \in Nat : DOMAIN all \subseteq 1 .. m
      BY DEF Sane
    <2> QED
      BY <2>1
  <1>2. PICK x \in chain : \A y \in chain : y <= x
    BY <1>1, Greatest
  <1>3. ASSUME NEW id \in chain, x \in ConeOf(all, id) \ {id} PROVE FALSE
    <2>1. x <= id /\ id <= x /\ x # id
      BY <1>2, <1>3, ConesLookBack DEF ConeOf
    <2> QED
      BY <1>1, <2>1
  <1>4. x \in HeadsOf(all, chain)
    BY <1>2, <1>3 DEF HeadsOf
  <1> QED
    BY <1>4 DEF HeadsOf

(* What the view holds of edges.                                           *)
LEMMA ViewEdges ==
    ASSUME LedgerInv
    PROVE  \E p :
             /\ p.cones = view.cones /\ p.frontier = view.frontier /\ p.state = view.state
             /\ view.edges = [e \in Asserts(Retained) \cap ValidIn(view.status) |->
                   EdgeReading(Retained, view.status, p, Subjects(Retained, Judged), e)]
  <1> DEFINE o == InOrder(events)
             p == ProjectOf(Retained, Judged, o)
             f == ClassifyEdges(Retained, Judged, o)
             S == Subjects(Retained, Judged)
  <1>1. view = ProjectAll(Retained, o)
    BY DEF LedgerInv, Fold, Retained
  <1>2. view = WithEdges(Retained, p, f, S)
    BY <1>1 DEF ProjectAll, Judged
  <1> HIDE DEF p, f, S
  <1>3. /\ view.cones = p.cones /\ view.frontier = p.frontier /\ view.state = p.state
        /\ view.status = f
        /\ view.edges = [e \in Asserts(Retained) \cap ValidIn(f) |-> EdgeReading(Retained, f, p, S, e)]
    BY <1>2 DEF WithEdges
  <1> QED
    BY <1>3 DEF S

(* A pin that holds, in the view's own words.                              *)
LEMMA ViewPin ==
    ASSUME LedgerInv, NEW pin, Holds(pin, Retained, view.status, Subjects(Retained, Judged))
    PROVE  /\ pin.basis \in ValidIds /\ pin.subject \in ValidIds
           /\ events[pin.subject].kind = "genesis"
           /\ SubjectOf(events, pin.basis) = pin.subject
           /\ view.selected[pin.basis] = pin.revision
           /\ events[pin.revision].body = pin.body
           /\ pin.subject \in view.cones[pin.basis]
  <1> DEFINE S == Subjects(Retained, Judged)
  <1>1. /\ Sane(Retained) /\ DOMAIN Retained = retained
        /\ \A id \in retained : Retained[id] = events[id]
        /\ Solves(Retained, InOrder(events), Judged) /\ SolvesEdges(Retained, Judged, view.status)
        /\ DOMAIN view.status = retained /\ ValidIds = ValidIn(Judged)
    BY ViewStatuses
  <1>2. /\ Envelopes = Sub(Retained, ValidIds) /\ view.cones = Cones(Envelopes)
        /\ view.selected = Selections(Envelopes) /\ Upright(Retained, ValidIds)
    BY ViewReadings
  <1>3. /\ {pin.subject, pin.basis} \subseteq retained
        /\ Retained[pin.subject].kind = "genesis" /\ IsSubject(Retained[pin.basis])
        /\ SubjectOf(Retained, pin.basis) = pin.subject
        /\ view.status[pin.basis].state \notin {"invalid", "pending"}
        /\ S.selected[pin.basis] = pin.revision /\ Retained[pin.revision].body = pin.body
    BY <1>1 DEF Holds
  <1>4. pin.basis \in SubjectIds(Retained)
    BY <1>1, <1>3 DEF SubjectIds
  <1>5. view.status[pin.basis] = Judged[pin.basis] /\ Judged[pin.basis] \in Status
        /\ pin.basis \in DOMAIN Judged
    BY <1>1, <1>4 DEF SolvesEdges, Solves
  <1>6. Judged[pin.basis].state = "valid"
    <2>1. Judged[pin.basis].state \in {"valid", "invalid", "pending"}
      BY <1>5 DEF Status
    <2> QED
      BY <1>3, <1>5, <2>1
  <1>7. pin.basis \in ValidIds
    BY <1>1, <1>5, <1>6 DEF ValidIn
  <1>8. S.selected = Selections(Envelopes)
    BY <1>1, <1>2, SubjectsAre
  <1>9. view.selected[pin.basis] = pin.revision
    BY <1>2, <1>3, <1>8
  <1>10. Selections(Sub(Retained, ValidIn(Judged)))[pin.basis] \in ValidIn(Judged)
    BY <1>1, <1>7, SelectionIsValid
  <1>11. ValidIds \subseteq retained
    BY <1>1, <1>2 DEF Upright
  <1>12. pin.revision \in retained
    BY <1>1, <1>2, <1>9, <1>10, <1>11
  <1>13. /\ pin.subject \in view.cones[pin.basis]
    BY <1>1, <1>2, <1>3, <1>7, SubjectsReach
  <1>14. view.cones[pin.basis] \subseteq ValidIds
    <2>1. Sane(Envelopes) /\ DOMAIN Envelopes = ValidIds
      BY ViewReadings
    <2> QED
      BY <1>2, <1>7, <2>1, ConeFacts
  <1>15. SubjectOf(events, pin.basis) = pin.subject
    BY <1>1, <1>3 DEF SubjectOf
  <1> QED
    BY <1>1, <1>3, <1>7, <1>9, <1>12, <1>13, <1>14, <1>15

(* What it takes for a reading to be current.                              *)
Clear(all, heads, p, s) ==
    /\ ~(Cardinality(heads) > 1)
    /\ \E x \in heads : /\ Endpoint(all[x].pins.source, p, s) = ""
                        /\ Endpoint(all[x].pins.target, p, s) = ""

(* What the reading of an edge says of its chain.                          *)
LEMMA ReadingIs ==
    ASSUME NEW all, NEW status, NEW p, NEW s, NEW edge
    PROVE  LET reading == EdgeReading(all, status, p, s, edge)
               chain == ChainOf(all, status, edge)
           IN  /\ reading.author = all[edge].author
               /\ reading.history = chain /\ reading.heads = HeadsOf(all, chain)
               /\ \A q \in reading.pins : \E h \in HeadsOf(all, chain) : q = all[h].pins
               /\ reading.status = "current" /\ HeadsOf(all, chain) # {} =>
                    Clear(all, HeadsOf(all, chain), p, s)
  <1> DEFINE reading == EdgeReading(all, status, p, s, edge)
             chain == ChainOf(all, status, edge)
             heads == HeadsOf(all, chain)
             pins == {all[h].pins : h \in heads}
             one == CHOOSE x \in pins : TRUE
             src == Endpoint(one.source, p, s)
             tgt == Endpoint(one.target, p, s)
             conflict == Cardinality(heads) > 1
             why == IF conflict THEN {"edge_conflict"} ELSE {src, tgt} \ {""}
             found == IF conflict THEN "edge_conflict"
                      ELSE IF {src, tgt} = {""} THEN "current"
                      ELSE IF "subject_contested" \in {src, tgt} THEN "endpoint_contested"
                      ELSE "stale"
             ends == <<one.source.subject, one.target.subject>>
             rows == [id \in chain |-> EdgeRow(all, chain, heads, id)]
  <1>1. reading = [author |-> all[edge].author, relation |-> all[edge].relation, ends |-> ends,
                   heads |-> heads, pins |-> pins, history |-> chain, rows |-> rows,
                   reasons |-> why, status |-> found]
    BY Zenon DEF EdgeReading
  <1> HIDE DEF reading, ends, heads, pins, chain, rows, why, found
  <1>2. /\ reading.author = all[edge].author /\ reading.heads = heads
        /\ reading.pins = pins /\ reading.history = chain /\ reading.status = found
    BY <1>1
  <1> HIDE DEF src, tgt, conflict
  <1>3. found = "current" => ~conflict /\ {src, tgt} = {""}
    BY DEF found
  <1>4. heads # {} => \E x \in heads : one = all[x].pins
    BY DEF pins
  <1>5. found = "current" => src = "" /\ tgt = ""
    BY <1>3
  <1>6. found = "current" /\ heads # {} =>
           \E x \in heads : /\ Endpoint(all[x].pins.source, p, s) = ""
                            /\ Endpoint(all[x].pins.target, p, s) = ""
    <2> HIDE DEF one
    <2> QED
      BY <1>4, <1>5 DEF src, tgt
  <1>7. found = "current" => ~(Cardinality(heads) > 1)
    BY <1>3 DEF conflict
  <1> QED
    BY <1>2, <1>6, <1>7 DEF Clear, reading, heads, pins, chain

(* A chain keeps what its assertion pinned.                                *)
LEMMA ChainsKeep == LedgerInv => ChainsKeepTheirEdge
  <1> SUFFICES ASSUME LedgerInv, NEW e \in DOMAIN view.edges
               PROVE  /\ e \in view.edges[e].history /\ view.edges[e].heads # {}
                      /\ \A h \in view.edges[e].history :
                           /\ events[h].author = view.edges[e].author
                           /\ \A side \in {"source", "target"} :
                                LET pin == events[h].pins[side] IN
                                /\ pin.subject = events[e].pins[side].subject
                                /\ SubjectOf(events, pin.basis) = pin.subject
                                /\ view.selected[pin.basis] = pin.revision
                                /\ events[pin.revision].body = pin.body
    BY DEF ChainsKeepTheirEdge
  <1> DEFINE S == Subjects(Retained, Judged)
             chain == ChainOf(Retained, view.status, e)
  <1>1. /\ Sane(Retained) /\ DOMAIN Retained = retained
        /\ \A id \in retained : Retained[id] = events[id]
        /\ SolvesEdges(Retained, Judged, view.status) /\ DOMAIN view.status = retained
    BY ViewStatuses
  <1>2. PICK p : view.edges = [x \in Asserts(Retained) \cap ValidIn(view.status) |->
                                 EdgeReading(Retained, view.status, p, S, x)]
    BY ViewEdges
  <1>3. e \in Asserts(Retained) /\ e \in ValidIn(view.status)
        /\ view.edges[e] = EdgeReading(Retained, view.status, p, S, e)
    BY <1>2
  <1>4. /\ view.edges[e].history = chain /\ view.edges[e].heads = HeadsOf(Retained, chain)
        /\ view.edges[e].author = Retained[e].author
    BY <1>3, ReadingIs
  <1>5. e \in chain /\ chain \subseteq DOMAIN Retained
    BY <1>1, <1>3 DEF ChainOf, EdgeOf, Asserts, ValidIn
  <1>6. HeadsOf(Retained, chain) # {}
    <2> HIDE DEF chain
    <2> QED
      BY <1>1, <1>5, HeadsExist
  <1>7. ASSUME NEW h \in chain, NEW side \in {"source", "target"}
        PROVE  LET pin == events[h].pins[side] IN
               /\ events[h].author = events[e].author
               /\ pin.subject = events[e].pins[side].subject
               /\ SubjectOf(events, pin.basis) = pin.subject
               /\ view.selected[pin.basis] = pin.revision
               /\ events[pin.revision].body = pin.body
    <2>1. /\ Retained[h].author = Retained[e].author
          /\ Holds(Retained[h].pins[side], Retained, view.status, S)
          /\ Retained[h].pins[side].subject = Retained[e].pins[side].subject
      BY <1>1, <1>3, EdgeHolds
    <2>2. Retained[h] = events[h] /\ Retained[e] = events[e]
      BY <1>1, <1>5
    <2>3. Holds(events[h].pins[side], Retained, view.status, S)
      BY <2>1, <2>2
    <2> QED
      BY <2>1, <2>2, <2>3, ViewPin
  <1>8. Retained[e] = events[e]
    BY <1>1, <1>5
  <1> HIDE DEF chain
  <1> QED
    BY <1>4, <1>5, <1>6, <1>7, <1>8

(* A set of cardinality one has one element.                               *)
LEMMA OnlyOne ==
    ASSUME NEW m \in Nat, NEW S, S \subseteq 0 .. m, Cardinality(S) = 1
    PROVE  \E x : S = {x}
  <1>1. IsFiniteSet(S)
    <2>1. IsFiniteSet(0 .. m)
      BY UptoFinite
    <2> QED
      BY <2>1, FS_Subset
  <1> QED
    BY <1>1, FS_Singleton

(* An edge that reads current pins what no one has rewritten.              *)
LEMMA CurrentUnmoved == LedgerInv => CurrentMeansUnmoved
  <1> SUFFICES ASSUME LedgerInv, NEW e \in DOMAIN view.edges, view.edges[e].status = "current",
                      NEW pins \in view.edges[e].pins, NEW side \in {"source", "target"}
               PROVE  LET pin == pins[side] IN
                      \E h \in ValidIds :
                         /\ view.frontier[pin.subject] = {h} /\ pin.basis \in view.cones[h]
                         /\ view.selected[h] = pin.revision
                         /\ \A id \in view.cones[h] :
                              CreatesRevision(events[id]) => id \in view.cones[pin.basis]
    BY DEF CurrentMeansUnmoved
  <1> DEFINE S == Subjects(Retained, Judged)
             chain == ChainOf(Retained, view.status, e)
             heads == HeadsOf(Retained, chain)
             pin == pins[side]
  <1>1. /\ Sane(Retained) /\ DOMAIN Retained = retained
        /\ \A id \in retained : Retained[id] = events[id]
        /\ Solves(Retained, InOrder(events), Judged) /\ SolvesEdges(Retained, Judged, view.status)
        /\ DOMAIN view.status = retained /\ ValidIds = ValidIn(Judged)
    BY ViewStatuses
  <1>2. PICK p : /\ p.cones = view.cones /\ p.frontier = view.frontier /\ p.state = view.state
                 /\ view.edges = [x \in Asserts(Retained) \cap ValidIn(view.status) |->
                                     EdgeReading(Retained, view.status, p, S, x)]
    BY ViewEdges
  <1>3. e \in Asserts(Retained) /\ e \in ValidIn(view.status)
        /\ view.edges[e] = EdgeReading(Retained, view.status, p, S, e)
    BY <1>2
  <1>5. e \in chain /\ chain \subseteq DOMAIN Retained
    BY <1>1, <1>3 DEF ChainOf, EdgeOf, Asserts, ValidIn
  <1>6. heads # {} /\ heads \subseteq chain
    <2> HIDE DEF chain
    <2> QED
      BY <1>1, <1>5, HeadsExist
  <1>7. PICK m \in Nat : retained \subseteq 1 .. m
    BY <1>1 DEF Sane
  <1>4. /\ pins \in {Retained[h].pins : h \in heads} /\ ~(Cardinality(heads) > 1)
        /\ \E x \in heads : /\ Endpoint(Retained[x].pins.source, p, S) = ""
                            /\ Endpoint(Retained[x].pins.target, p, S) = ""
    <2>1. /\ \E h \in heads : pins = Retained[h].pins
          /\ Clear(Retained, heads, p, S)
      BY <1>3, <1>6, ReadingIs
    <2> QED
      BY <2>1 DEF Clear
  <1> HIDE DEF chain, heads
  <1>9. PICK x : heads = {x}
    <2>1. heads \subseteq 0 .. m
      <3>1. heads \subseteq 1 .. m
        BY <1>1, <1>5, <1>6, <1>7
      <3> QED
        BY <3>1
    <2>2. IsFiniteSet(heads)
      <3>1. IsFiniteSet(0 .. m)
        BY UptoFinite
      <3> QED
        BY <2>1, <3>1, FS_Subset
    <2>3. Cardinality(heads) \in Nat /\ Cardinality(heads) # 0
      BY <1>6, <2>2, FS_CardinalityType, FS_EmptySet
    <2>4. Cardinality(heads) = 1
      <3>1. PICK n \in Nat : n = Cardinality(heads)
        BY <2>3
      <3>2. ~(n > 1)
        BY <1>4, <3>1
      <3> QED
        BY <2>3, <3>1, <3>2
    <2> QED
      BY <2>1, <2>4, OnlyOne
  <1>10. pins = Retained[x].pins
    BY <1>4, <1>9
  <1>11. Endpoint(pin, p, S) = ""
    BY <1>4, <1>9, <1>10
  <1>12. Holds(pin, Retained, view.status, S)
    <2>1. x \in ChainOf(Retained, view.status, e)
      BY <1>6, <1>9 DEF chain
    <2> QED
      BY <1>1, <1>3, <1>10, <2>1, EdgeHolds
  <1>13. /\ pin.basis \in ValidIds /\ pin.subject \in ValidIds
         /\ events[pin.subject].kind = "genesis" /\ SubjectOf(events, pin.basis) = pin.subject
         /\ pin.subject \in view.cones[pin.basis]
    BY <1>12, ViewPin
  <1> HIDE DEF pin
  <1> DEFINE F == view.frontier[pin.subject]
             E == Envelopes
  <1>14. /\ Sane(E) /\ DOMAIN E = ValidIds /\ (\A id \in ValidIds : E[id] = events[id])
         /\ E = Sub(Retained, ValidIds) /\ view.cones = Cones(E) /\ view.selected = Selections(E)
         /\ F = Frontier(E, view.cones, view.authority, pin.subject)
         /\ view.state[pin.subject] = SubjectState(F)
         /\ Upright(Retained, ValidIds)
    BY <1>13, ViewReadings
  <1>15. /\ view.state[pin.subject] # "contested" /\ view.state[pin.subject] # "no_current_body"
         /\ LET head == CHOOSE h \in F : TRUE IN
            /\ pin.basis \in view.cones[head] /\ S.selected[head] = pin.revision
            /\ ~\E id \in view.cones[head] \ view.cones[pin.basis] :
                  CreatesRevision(S.valid[id]) /\ S.valid[id].kind # "genesis"
    BY <1>2, <1>11 DEF Endpoint
  <1>16. F \subseteq {id \in ValidIds : SubjectOf(E, id) = pin.subject}
    BY <1>14 DEF Frontier
  <1> HIDE DEF F, E, S
  <1>17. ValidIds \subseteq retained
    BY <1>1, <1>14 DEF Upright
  <1>18. PICK h : F = {h}
    <2>1. F \subseteq 0 .. m
      BY <1>7, <1>16, <1>17
    <2>2. IsFiniteSet(F)
      <3>1. IsFiniteSet(0 .. m)
        BY UptoFinite
      <3> QED
        BY <2>1, <3>1, FS_Subset
    <2>3. Cardinality(F) \in Nat
      BY <2>2, FS_CardinalityType
    <2>4. Cardinality(F) = 1
      BY <1>14, <1>15, <2>3 DEF SubjectState
    <2> QED
      BY <2>1, <2>4, OnlyOne
  <1>19. h \in ValidIds /\ SubjectOf(E, h) = pin.subject
    BY <1>16, <1>18
  <1>20. (CHOOSE y \in F : TRUE) = h
    BY <1>18
  <1>21. S.selected = view.selected /\ S.valid = E
    BY <1>1, <1>14, SubjectsAre DEF S
  <1>22. /\ pin.basis \in view.cones[h] /\ view.selected[h] = pin.revision
         /\ ~\E id \in view.cones[h] \ view.cones[pin.basis] :
               CreatesRevision(E[id]) /\ E[id].kind # "genesis"
    BY <1>15, <1>20, <1>21
  <1>23. ASSUME NEW id \in view.cones[h], CreatesRevision(events[id])
         PROVE  id \in view.cones[pin.basis]
    <2>1. id \in ValidIds
      BY <1>14, <1>19, ConeFacts
    <2>2. CASE events[id].kind # "genesis"
      BY <1>14, <1>22, <1>23, <2>1, <2>2
    <2>3. CASE events[id].kind = "genesis"
      <3>1. /\ Retained[id] = events[id] /\ Retained[h] = events[h]
        BY <1>1, <1>17, <1>19, <2>1
      <3>2. SubjectOf(Retained, id) = id
        <4>1. Retained[id].subject = None
          BY <1>1, <2>1, <2>3, <3>1, ValidFacts
        <4> QED
          BY <4>1 DEF SubjectOf
      <3>3. SubjectOf(Retained, id) = SubjectOf(Retained, h)
        BY <1>1, <1>14, <1>19, SubjectsReach
      <3>4. SubjectOf(Retained, h) = pin.subject
        BY <1>14, <1>19, <3>1 DEF SubjectOf
      <3> QED
        BY <1>13, <3>2, <3>3, <3>4
    <2> QED
      BY <2>2, <2>3
  <1> QED
    BY <1>18, <1>19, <1>22, <1>23 DEF F, pin

(* edges.rs: whatever is retained, a chain keeps the author, the ends and  *)
(* checked pins of its assertion, and an edge that reads current pins what *)
(* no one has rewritten since.                                             *)
THEOREM EdgesAlwaysKeepTheirPins == Spec => []EdgesKeepTheirPins
  <1>1. LedgerInv => EdgesKeepTheirPins
    BY ChainsKeep, CurrentUnmoved DEF EdgesKeepTheirPins
  <1> QED
    BY <1>1, ViewIsTheFold, PTL

-----------------------------------------------------------------------------
(* Submit                                                                  *)

PCs == Ended \cup {"idle", "look", "put", "putting", "post", "posting",
                   "read", "receipt", "create", "fill"}

(* Where the runs are, what they were given and what is on its way.        *)
RunsTyped ==
    /\ pc \in [Runs -> PCs] /\ dir \in [Runs -> Nat] /\ already \in [Runs -> BOOLEAN]
    /\ wire \subseteq [run : Runs, what : {"body", "event"}]
    /\ file \in [DOMAIN file -> [by : Runs, whole : BOOLEAN]]
    /\ vouched \subseteq dirs
    /\ dirs \subseteq Ids
    /\ \A r \in Runs : pc[r] # "idle" => dir[r] \in dirs
    /\ \A m \in wire : pc[m.run] # "idle"
    /\ \A r \in Runs : pc[r] = "fill" => dir[r] \in DOMAIN file

(* Only a run that found its Delegate or Revoke valid goes on to read it   *)
(* back as one of old.                                                     *)
Recalled(r) ==
    /\ pc[r] \in {"idle", "look"} => ~already[r]
    /\ pc[r] \in {"put", "putting"} => IsGenesis(dir[r])
    /\ pc[r] \in {"post", "posting"} => IsGenesis(dir[r]) \/ ~already[r]
    /\ pc[r] \in {"read", "receipt", "create", "fill", "done", "mismatch"} =>
          IsGenesis(dir[r]) \/ ~already[r] \/ dir[r] \in ValidIds
    /\ pc[r] = "mismatch" => IsGenesis(dir[r]) \/ ~already[r]

(* The body of a Genesis is there before the Genesis is on its way.        *)
Bodied ==
    /\ \A id \in dirs \cap retained : IsGenesis(id) => id \in bodies
    /\ \A r \in Runs : pc[r] \in {"post", "posting"} /\ IsGenesis(dir[r]) => dir[r] \in bodies
    /\ \A m \in wire : m.what = "event" /\ IsGenesis(dir[m.run]) => dir[m.run] \in bodies

SubmitInv == LedgerInv /\ RunsTyped /\ (\A r \in Runs : Recalled(r)) /\ Bodied

(* What a step can do to the ledger.                                       *)
Moves ==
    /\ Recorded(events') /\ retained' \subseteq DOMAIN events'
    /\ Extends(events, events')
    /\ retained \subseteq retained' /\ view' = Fold(events', retained')

(* A change of the ledger keeps what is recorded and what is valid.        *)
LEMMA MovesKeep ==
    ASSUME LedgerInv, Moves \/ UNCHANGED ledger
    PROVE  /\ LedgerInv' /\ Moves
           /\ Ids \subseteq Ids' /\ (\A id \in Ids : events'[id] = events[id] /\ IsGenesis(id)' = IsGenesis(id))
           /\ ValidIds \subseteq ValidIds'
  <1>1. Recorded(events) /\ retained \subseteq DOMAIN events /\ view = Fold(events, retained)
    BY DEF LedgerInv, Ids
  <1>2. Moves
    <2>1. CASE UNCHANGED ledger
      BY <1>1, <2>1 DEF ledger, Moves, Extends, Fold
    <2> QED
      BY <2>1
  <1>3. LedgerInv'
    BY <1>2 DEF Moves, LedgerInv, Ids
  <1>4. Ids \subseteq Ids' /\ \A id \in Ids : events'[id] = events[id] /\ IsGenesis(id)' = IsGenesis(id)
    BY <1>2 DEF Moves, Extends, Ids, IsGenesis
  <1>5. \A id \in DOMAIN view.status : Lasts(view.status, view'.status, id)
    BY <1>1, <1>2, FoldsLast DEF Moves
  <1>6. DOMAIN view.status = retained
    BY ViewStatuses
  <1>7. (DOMAIN view.status = retained)'
    <2>1. Sane(Sub(events', retained')) /\ Covering(Sub(events', retained'), InOrder(events'))
          /\ DOMAIN Sub(events', retained') = retained'
      BY <1>2, FoldGround DEF Moves
    <2>2. DOMAIN view'.status = retained'
      BY <1>2, <2>1, ProjectionSolves DEF Moves, Fold, SolvesEdges
    <2> QED
      BY <2>2
  <1>8. ASSUME NEW id \in ValidIds PROVE id \in ValidIds'
    <2>1. id \in retained /\ view.status[id].state = "valid" /\ IsSubject(events[id])
      BY <1>6 DEF ValidIds, ValidIn
    <2>2. view'.status[id].state = "valid"
      BY <1>5, <1>6, <2>1 DEF Lasts
    <2>3. id \in retained' /\ events'[id] = events[id]
      BY <1>1, <1>2, <1>4, <2>1 DEF Moves, Ids
    <2> QED
      BY <1>7, <2>1, <2>2, <2>3 DEF ValidIds, ValidIn
  <1> QED
    BY <1>2, <1>3, <1>4, <1>8

(* Every step of Submit changes the ledger as the store would, or not.     *)
LEMMA SubmitMoves ==
    ASSUME SubmitInv, [SubmitNext]_submitVars
    PROVE  Moves \/ UNCHANGED ledger
  <1> USE DEF SubmitInv, LedgerInv
  <1>1. ASSUME NEW e \in Drafts, Curate(e) \/ Prepare(e) PROVE Moves
    <2>1. Recorded(Append(events, e)) /\ Extends(events, Append(events, e))
          /\ DOMAIN Append(events, e) = Ids \cup {Len(events) + 1}
      BY DraftNames, RecordedGrows DEF Ids
    <2>2. CASE Curate(e)
      BY <2>1, <2>2 DEF Curate, Moves
    <2>3. CASE Prepare(e)
      BY <2>1, <2>3 DEF Prepare, Moves
    <2> QED
      BY <1>1, <2>2, <2>3
  <1>2. ASSUME NEW r \in Runs, ServeEvent(r) PROVE Moves
    <2>1. dir[r] \in Ids
      BY <1>2 DEF ServeEvent, RunsTyped
    <2> QED
      BY <1>2, <2>1 DEF ServeEvent, Moves, Extends, Ids
  <1>3. ASSUME NEW r \in Runs,
               \/ \E id \in dirs, allow \in setup.flags : Begin(r, id, allow)
               \/ LookGenesis(r) \/ LookAuthority(r) \/ Put(r) \/ Post(r)
               \/ ServeBody(r) \/ ReadBack(r) \/ Exists(r) \/ Create(r) \/ Fill(r) \/ Abort(r)
        PROVE  UNCHANGED ledger
    BY <1>3 DEF Begin, LookGenesis, LookAuthority, Put, Post, ServeBody, ReadBack, Exists,
                Create, Fill, Abort, ledger
  <1>4. CASE Finished \/ UNCHANGED submitVars
    BY <1>4 DEF Finished, submitVars
  <1> QED
    BY <1>1, <1>2, <1>3, <1>4 DEF SubmitNext

(* The step of one run: where it goes, and what it leaves alone.           *)
RunStep(r) ==
    \/ \E id \in dirs, allow \in setup.flags : Begin(r, id, allow)
    \/ LookGenesis(r) \/ LookAuthority(r) \/ Put(r) \/ Post(r)
    \/ ServeBody(r) \/ ServeEvent(r) \/ ReadBack(r)
    \/ Exists(r) \/ Create(r) \/ Fill(r) \/ Abort(r)

(* The invariant of Submit holds at the start.                             *)
LEMMA TypedInit == SubmitInit => SubmitInv
  <1> SUFFICES ASSUME SubmitInit PROVE SubmitInv
    OBVIOUS
  <1>1. setup \in Setups /\ events = setup.signed /\ retained \in setup.known
    BY DEF SubmitInit
  <1>2. Recorded(events)
    BY <1>1, SetupAssumption DEF Recorded
  <1>3. retained \subseteq Ids
    BY <1>1, KnownAssumption DEF Ids
  <1>4. LedgerInv
    BY <1>2, <1>3 DEF SubmitInit, LedgerInv
  <1>5. RunsTyped
    <2>1. dir \in [Runs -> Nat] /\ pc \in [Runs -> PCs] /\ already \in [Runs -> BOOLEAN]
      BY DEF SubmitInit, None, PCs
    <2>2. file \in [DOMAIN file -> [by : Runs, whole : BOOLEAN]]
      BY DEF SubmitInit
    <2>3. \A r \in Runs : pc[r] = "idle"
      BY DEF SubmitInit
    <2> QED
      BY <2>1, <2>2, <2>3 DEF SubmitInit, RunsTyped
  <1>6. ASSUME NEW r \in Runs PROVE Recalled(r)
    <2>1. pc[r] = "idle" /\ already[r] = FALSE
      BY DEF SubmitInit
    <2> QED
      BY <2>1 DEF Recalled
  <1>7. Bodied
    <2>1. dirs \cap retained = {} /\ wire = {}
      BY DEF SubmitInit
    <2>2. \A r \in Runs : pc[r] = "idle"
      BY DEF SubmitInit
    <2> QED
      BY <2>1, <2>2 DEF Bodied
  <1> QED
    BY <1>4, <1>5, <1>6, <1>7 DEF SubmitInv

(* An entry added to a function leaves the others alone.                   *)
LEMMA WithKeeps ==
    ASSUME NEW f, NEW V, f \in [DOMAIN f -> V], NEW x, NEW v \in V
    PROVE  /\ With(f, x, v) \in [DOMAIN f \cup {x} -> V]
           /\ With(f, x, v)[x] = v /\ \A d \in DOMAIN f : d # x => With(f, x, v)[d] = f[d]
  BY DEF With

(* Frame of the invariant: nothing a run holds has changed.                *)
LEMMA RunStepTyped ==
    ASSUME SubmitInv, NEW r \in Runs, RunStep(r), Moves \/ UNCHANGED ledger
    PROVE  RunsTyped'
  <1> USE DEF SubmitInv
  <1>1. /\ pc \in [Runs -> PCs] /\ dir \in [Runs -> Nat] /\ already \in [Runs -> BOOLEAN]
        /\ wire \subseteq [run : Runs, what : {"body", "event"}]
        /\ file \in [DOMAIN file -> [by : Runs, whole : BOOLEAN]]
        /\ vouched \subseteq dirs /\ dirs \subseteq Ids
        /\ \A q \in Runs : pc[q] # "idle" => dir[q] \in dirs
        /\ \A m \in wire : pc[m.run] # "idle"
        /\ \A q \in Runs : pc[q] = "fill" => dir[q] \in DOMAIN file
    BY DEF RunsTyped
  <1>2. Ids \subseteq Ids'
    BY MovesKeep
  <1>3. PICK next : \/ pc' = [pc EXCEPT ![r] = next] /\ next \in PCs /\ next # "idle"
                    \/ UNCHANGED pc
    <2>1. \A q \in {"look", "put", "refused", "unknown", "read", "undecided", "post", "putting",
                    "posting", "failed", "receipt", "mismatch", "done", "create", "fill"} :
             q \in PCs /\ q # "idle"
      BY DEF PCs, Ended
    <2> QED
      BY <2>1 DEF RunStep, Begin, LookGenesis, LookAuthority, Put, Post, ServeBody, ServeEvent,
                  ReadBack, Exists, Create, Fill, Abort, Goto
  <1>4. \/ dir' = dir /\ pc[r] # "idle"
        \/ \E id \in dirs : /\ dir' = [dir EXCEPT ![r] = id] /\ pc[r] = "idle"
                            /\ pc' = [pc EXCEPT ![r] = "look"]
    BY <1>1 DEF RunStep, Begin, LookGenesis, LookAuthority, Put, Post, ServeBody, ServeEvent,
                  ReadBack, Exists, Create, Fill, Abort, Goto, local
  <1>5. wire' \subseteq wire \cup {[run |-> r, what |-> "body"], [run |-> r, what |-> "event"]}
        /\ (wire' \subseteq wire \/ pc'[r] # "idle") /\ vouched' \subseteq vouched \cup {dir[r]}
        /\ dirs' = dirs
    BY <1>1, <1>3 DEF RunStep, Begin, LookGenesis, LookAuthority, Put, Post, ServeBody, ServeEvent,
                  ReadBack, Exists, Create, Fill, Abort, Goto, PCs, Ended
  <1>6. already' \in [Runs -> BOOLEAN]
    <2>1. CASE LookGenesis(r)
      <3> DEFINE b == dir[r] \in ValidIds
      <3>1. already' = [already EXCEPT ![r] = b] \/ already' = already
        BY <2>1, Zenon DEF LookGenesis
      <3>2. b \in BOOLEAN
        OBVIOUS
      <3> HIDE DEF b
      <3> QED
        BY <1>1, <3>1, <3>2
    <2>2. CASE LookAuthority(r)
      <3>1. already' = [already EXCEPT ![r] = TRUE] \/ already' = already
        BY <2>2 DEF LookAuthority
      <3> QED
        BY <1>1, <3>1
    <2>3. CASE UNCHANGED already
      BY <1>1, <2>3
    <2>4. RunStep(r) => LookGenesis(r) \/ LookAuthority(r) \/ UNCHANGED already
      BY DEF RunStep, Begin, Put, Post, ServeBody, ServeEvent,
             ReadBack, Exists, Create, Fill, Abort, local
    <2> QED
      BY <2>1, <2>2, <2>3, <2>4
  <1>7. /\ file' \in [DOMAIN file' -> [by : Runs, whole : BOOLEAN]] /\ DOMAIN file \subseteq DOMAIN file'
        /\ pc'[r] = "fill" => dir[r] \in DOMAIN file'
    <2>1. CASE Create(r) /\ dir[r] \notin DOMAIN file
      <3> DEFINE v == [by |-> r, whole |-> FALSE]
      <3>1. v \in [by : Runs, whole : BOOLEAN] /\ file' = With(file, dir[r], v)
        BY <2>1 DEF Create
      <3> HIDE DEF v
      <3>2. file' \in [DOMAIN file \cup {dir[r]} -> [by : Runs, whole : BOOLEAN]]
        BY <1>1, <3>1, WithKeeps
      <3> QED
        BY <3>2
    <2>2. CASE Fill(r)
      <3>1. dir[r] \in DOMAIN file
        BY <1>1, <2>2 DEF Fill
      <3>2. file' = [file EXCEPT ![dir[r]].whole = TRUE]
        BY <2>2 DEF Fill
      <3>3. file' \in [DOMAIN file -> [by : Runs, whole : BOOLEAN]]
        BY <1>1, <3>1, <3>2
      <3> QED
        BY <3>1, <3>3
    <2>3. CASE UNCHANGED file /\ (pc'[r] = "fill" => pc[r] = "fill")
      BY <1>1, <2>3
    <2>4. RunStep(r) => Fill(r) \/ (Create(r) /\ dir[r] \notin DOMAIN file)
                        \/ (UNCHANGED file /\ (pc'[r] = "fill" => pc[r] = "fill"))
      BY <1>1 DEF RunStep, Begin, LookGenesis, LookAuthority, Put, Post, ServeBody, ServeEvent,
                  ReadBack, Exists, Create, Fill, Abort, Goto
    <2> QED
      BY <2>1, <2>2, <2>3, <2>4
  <1>8. /\ pc' \in [Runs -> PCs] /\ dir' \in [Runs -> Nat]
        /\ \A q \in Runs : q # r => pc'[q] = pc[q] /\ dir'[q] = dir[q]
        /\ dir'[r] \in dirs /\ (pc[r] # "idle" => pc'[r] # "idle" /\ dir'[r] = dir[r])
    <2>1. Ids \subseteq Nat
      BY RecordedSane DEF LedgerInv, Ids
    <2> QED
      BY <1>1, <1>3, <1>4, <2>1
  <1>9. wire' \subseteq [run : Runs, what : {"body", "event"}] /\ \A m \in wire' : pc'[m.run] # "idle"
    <2>1. \A m \in wire : m.run \in Runs /\ pc'[m.run] # "idle"
      BY <1>1, <1>8
    <2> QED
      BY <1>1, <1>5, <2>1
  <1>10. vouched' \subseteq dirs /\ dirs \subseteq Ids'
    <2>1. vouched' \subseteq vouched \/ pc[r] # "idle"
      BY DEF RunStep, Begin, LookGenesis, LookAuthority, Put, Post, ServeBody, ServeEvent,
                  ReadBack, Exists, Create, Fill, Abort, Goto
    <2> QED
      BY <1>1, <1>2, <1>5, <2>1
  <1>11. \A q \in Runs : pc'[q] = "fill" => dir'[q] \in DOMAIN file'
    BY <1>1, <1>4, <1>7, <1>8
  <1>12. \A q \in Runs : pc'[q] # "idle" => dir'[q] \in dirs'
    BY <1>1, <1>5, <1>8
  <1> QED
    BY <1>5, <1>6, <1>7, <1>8, <1>9, <1>10, <1>11, <1>12 DEF RunsTyped

(* What a run has read back stays.                                         *)
LEMMA RecalledStays ==
    ASSUME SubmitInv, NEW r \in Runs, RunStep(r), Moves \/ UNCHANGED ledger, NEW q \in Runs
    PROVE  Recalled(q)'
  <1> USE DEF SubmitInv
  <1>1. /\ pc \in [Runs -> PCs] /\ dir \in [Runs -> Nat] /\ already \in [Runs -> BOOLEAN]
        /\ dirs \subseteq Ids
        /\ \A x \in Runs : pc[x] # "idle" => dir[x] \in dirs
    BY DEF RunsTyped
  <1>2. /\ \A id \in Ids : IsGenesis(id)' = IsGenesis(id)
        /\ ValidIds \subseteq ValidIds'
    BY MovesKeep
  <1>3. Recalled(q)
    OBVIOUS
  <1>4. CASE q # r
    <2>1. pc'[q] = pc[q] /\ dir'[q] = dir[q] /\ already'[q] = already[q]
      BY <1>1, <1>4 DEF RunStep, Begin, LookGenesis, LookAuthority, Put, Post, ServeBody, ServeEvent,
                  ReadBack, Exists, Create, Fill, Abort, Goto, local
    <2>2. pc[q] # "idle" => (events'[dir[q]].kind = "genesis" <=> events[dir[q]].kind = "genesis")
      BY <1>1, <1>2 DEF IsGenesis
    <2> QED
      BY <1>2, <1>3, <2>1, <2>2 DEF Recalled, IsGenesis
  <1>5. CASE q = r
    <2>1. CASE \E id \in dirs, allow \in setup.flags : Begin(r, id, allow)
      BY <1>1, <1>3, <1>5, <2>1 DEF Begin, Goto, Recalled
    <2> DEFINE G == IsGenesis(dir[r])
    <2>2. CASE ~\E id \in dirs, allow \in setup.flags : Begin(r, id, allow)
      <3>0. \A m \in wire : pc[m.run] # "idle"
        BY DEF RunsTyped
      <3>1. dir' = dir /\ pc[r] # "idle"
        BY <1>1, <2>2, <3>0 DEF RunStep, LookGenesis, LookAuthority, Put, Post, ServeBody, ServeEvent,
                  ReadBack, Exists, Create, Fill, Abort, Goto, local
      <3>2. IsGenesis(dir[r])' = G
        BY <1>1, <1>2, <3>1
      <3>3. CASE LookGenesis(r)
        <4>1. \/ pc' = [pc EXCEPT ![r] = "put"]
              \/ already' = already /\ pc' = [pc EXCEPT ![r] = "refused"]
          BY <3>3, Zenon DEF LookGenesis, Goto
        <4>3. pc'[r] = "put" \/ (pc'[r] = "refused" /\ already'[r] = already[r])
          BY <1>1, <4>1
        <4>4. G
          BY <3>3, Zenon DEF LookGenesis
        <4>2. G /\ (pc'[r] = "put" \/ (pc'[r] = "refused" /\ already'[r] = already[r]))
          BY <4>3, <4>4
        <4> HIDE DEF G
        <4> QED
          BY <1>3, <1>5, <3>1, <3>2, <4>2 DEF Recalled
      <3>4. CASE LookAuthority(r)
        <4>1. \/ already'[r] = already[r] /\ pc'[r] \in {"unknown", "refused", "post"}
              \/ already'[r] = TRUE /\ pc'[r] = "undecided"
              \/ already'[r] = TRUE /\ pc'[r] = "read" /\ dir[r] \in ValidIds
          BY <1>1, <3>4 DEF LookAuthority, Goto
        <4>2. ~already[r]
          BY <1>3, <1>5, <3>4 DEF LookAuthority, Recalled
        <4> QED
          BY <1>2, <1>5, <3>1, <4>1, <4>2 DEF Recalled
      <3>5. CASE ReadBack(r)
        <4>1. already' = already /\ pc[r] = "read" /\ pc'[r] \in {"receipt", "mismatch"}
          BY <1>1, <3>5 DEF ReadBack, Goto, local
        <4>2. ASSUME pc'[r] = "mismatch", ~G PROVE ~already[r]
          <5>1. ~AuthorityReadsBack(dir[r], ~already[r])
            BY <1>1, <3>5, <4>2 DEF ReadBack, Goto
          <5>2. already[r] => dir[r] \in ValidIds
            BY <1>3, <1>5, <4>1, <4>2 DEF Recalled
          <5> QED
            BY <5>1, <5>2 DEF AuthorityReadsBack
        <4> HIDE DEF G
        <4>3. G \/ ~already[r] \/ dir[r] \in ValidIds
          BY <1>3, <1>5, <4>1 DEF Recalled, G
        <4> QED
          BY <1>2, <1>5, <3>1, <3>2, <4>1, <4>2, <4>3 DEF Recalled
      <3>6. CASE Put(r) \/ Post(r) \/ ServeBody(r) \/ ServeEvent(r)
        <4>1. /\ already' = already
              /\ \/ pc[r] = "put" /\ pc'[r] = "putting"
                 \/ pc[r] = "post" /\ pc'[r] = "posting"
                 \/ pc[r] = "putting" /\ already[r] /\ pc'[r] = "read"
                 \/ pc[r] = "putting" /\ ~already[r] /\ pc'[r] = "post"
                 \/ pc[r] = "posting" /\ pc'[r] \in {"read", "failed"}
                 \/ pc'[r] = pc[r]
          <5>1. CASE Put(r) \/ Post(r)
            BY <1>1, <5>1 DEF Put, Post, Goto, local
          <5>2. CASE ServeBody(r)
            <6> DEFINE at == IF already[r] THEN "read" ELSE "post"
            <6>1. already' = already /\ (UNCHANGED pc \/ (pc[r] = "putting" /\ pc' = [pc EXCEPT ![r] = at]))
              BY <5>2, Zenon DEF ServeBody, Goto, local
            <6>2. (already[r] /\ at = "read") \/ (~already[r] /\ at = "post")
              OBVIOUS
            <6> HIDE DEF at
            <6>4. pc' = pc \/ (pc[r] = "putting" /\ pc'[r] = at)
              BY <1>1, <6>1
            <6> QED
              BY <6>1, <6>2, <6>4
          <5>3. CASE ServeEvent(r)
            <6> DEFINE at == IF view'.status[dir[r]] = Valid THEN "read" ELSE "failed"
            <6>1. already' = already /\ (UNCHANGED pc \/ (pc[r] = "posting" /\ pc' = [pc EXCEPT ![r] = at]))
              BY <5>3, Zenon DEF ServeEvent, Goto, local
            <6>2. at \in {"read", "failed"}
              OBVIOUS
            <6> HIDE DEF at
            <6> QED
              BY <1>1, <6>1, <6>2
          <5> QED
            BY <3>6, <5>1, <5>2, <5>3
        <4> HIDE DEF G
        <4> QED
          BY <1>2, <1>3, <1>5, <3>1, <3>2, <4>1 DEF Recalled, G
      <3>7. CASE Exists(r) \/ Create(r) \/ Fill(r) \/ Abort(r)
        <4>1. /\ already' = already
              /\ \/ pc[r] \in {"receipt", "create", "fill"} /\ pc'[r] \in {"done", "create", "fill", "failed"}
                 \/ pc'[r] = "failed"
          BY <1>1, <3>7 DEF Exists, Create, Fill, Abort, Goto, local
        <4> HIDE DEF G
        <4> QED
          BY <1>2, <1>3, <1>5, <3>1, <3>2, <4>1 DEF Recalled, G
      <3> QED
        BY <2>2, <3>3, <3>4, <3>5, <3>6, <3>7 DEF RunStep
    <2> QED
      BY <2>1, <2>2
  <1> QED
    BY <1>4, <1>5

(* No step puts a Genesis on the node before its body.                     *)
LEMMA BodiedStays ==
    ASSUME SubmitInv, NEW r \in Runs, RunStep(r), Moves \/ UNCHANGED ledger
    PROVE  Bodied'
  <1> USE DEF SubmitInv
  <1>1. /\ pc \in [Runs -> PCs] /\ dir \in [Runs -> Nat]
        /\ wire \subseteq [run : Runs, what : {"body", "event"}]
        /\ dirs \subseteq Ids
        /\ \A x \in Runs : pc[x] # "idle" => dir[x] \in dirs
        /\ \A m \in wire : pc[m.run] # "idle"
    BY DEF RunsTyped
  <1>2. /\ \A id \in Ids : IsGenesis(id)' = IsGenesis(id)
    BY MovesKeep
  <1>3. /\ \A id \in dirs \cap retained : IsGenesis(id) => id \in bodies
        /\ \A q \in Runs : pc[q] \in {"post", "posting"} /\ IsGenesis(dir[q]) => dir[q] \in bodies
        /\ \A m \in wire : m.what = "event" /\ IsGenesis(dir[m.run]) => dir[m.run] \in bodies
    BY DEF Bodied
  <1>4. dirs' = dirs /\ bodies \subseteq bodies'
    BY DEF RunStep, Begin, LookGenesis, LookAuthority, Put, Post, ServeBody, ServeEvent,
           ReadBack, Exists, Create, Fill, Abort
  <1>5. \A q \in Runs : pc[q] # "idle" => dir'[q] = dir[q]
    BY <1>1 DEF RunStep, Begin, LookGenesis, LookAuthority, Put, Post, ServeBody, ServeEvent,
           ReadBack, Exists, Create, Fill, Abort, local
  <1>6. ASSUME NEW id \in dirs', id \in retained', IsGenesis(id)' PROVE id \in bodies'
    <2>1. id \in dirs /\ IsGenesis(id)
      BY <1>1, <1>2, <1>4, <1>6
    <2>2. \/ retained' = retained
          \/ retained' = retained \cup {dir[r]} /\ [run |-> r, what |-> "event"] \in wire
      <3>1. CASE ServeEvent(r)
        BY <3>1 DEF ServeEvent
      <3>2. ~ServeEvent(r) => UNCHANGED ledger
        BY DEF RunStep, Begin, LookGenesis, LookAuthority, Put, Post, ServeBody,
               ReadBack, Exists, Create, Fill, Abort
      <3> QED
        BY <3>1, <3>2 DEF ledger
    <2> QED
      BY <1>3, <1>4, <1>6, <2>1, <2>2
  <1>7. ASSUME NEW q \in Runs, pc'[q] \in {"post", "posting"}, IsGenesis(dir[q])' PROVE dir'[q] \in bodies'
    <2>1. \/ pc[q] \in {"post", "posting"}
          \/ q = r /\ LookAuthority(r)
          \/ q = r /\ ServeBody(r)
      BY <1>1, <1>7 DEF RunStep, Begin, LookGenesis, LookAuthority, Put, Post, ServeBody, ServeEvent,
             ReadBack, Exists, Create, Fill, Abort, Goto
    <2>2. pc[q] # "idle"
      BY <1>1, <2>1 DEF LookAuthority, ServeBody
    <2>3. IsGenesis(dir[q]) /\ dir'[q] = dir[q]
      BY <1>1, <1>2, <1>5, <1>7, <2>2 DEF IsGenesis
    <2>4. ~(q = r /\ LookAuthority(r))
      BY <2>3 DEF LookAuthority
    <2> QED
      BY <1>3, <1>4, <2>1, <2>3, <2>4 DEF ServeBody
  <1>8. ASSUME NEW m \in wire', m.what = "event", IsGenesis(dir[m.run])' PROVE dir'[m.run] \in bodies'
    <2>1. \/ m \in wire
          \/ m = [run |-> r, what |-> "event"] /\ pc[r] = "post"
          \/ m = [run |-> r, what |-> "body"]
      <3>1. CASE Post(r)
        BY <3>1 DEF Post
      <3>2. CASE Put(r)
        BY <3>2 DEF Put
      <3>3. ~Post(r) /\ ~Put(r) => wire' \subseteq wire
        BY DEF RunStep, Begin, LookGenesis, LookAuthority, ServeBody, ServeEvent,
               ReadBack, Exists, Create, Fill, Abort
      <3> QED
        BY <3>1, <3>2, <3>3
    <2>2. m.run \in Runs /\ pc[m.run] # "idle" /\ (m \in wire \/ (m.run = r /\ pc[r] = "post"))
      BY <1>1, <1>8, <2>1
    <2>3. IsGenesis(dir[m.run]) /\ dir'[m.run] = dir[m.run]
      BY <1>1, <1>2, <1>5, <1>8, <2>2 DEF IsGenesis
    <2> QED
      BY <1>3, <1>4, <1>8, <2>2, <2>3
  <1> QED
    BY <1>6, <1>7, <1>8 DEF Bodied

(* Signing, by others or for a directory, leaves the runs where they are.  *)
LEMMA SigningKeeps ==
    ASSUME SubmitInv, NEW e \in Drafts, Curate(e) \/ Prepare(e), Moves
    PROVE  RunsTyped' /\ (\A r \in Runs : Recalled(r)') /\ Bodied'
  <1> USE DEF SubmitInv
  <1>1. /\ pc \in [Runs -> PCs] /\ dir \in [Runs -> Nat] /\ already \in [Runs -> BOOLEAN]
        /\ wire \subseteq [run : Runs, what : {"body", "event"}]
        /\ file \in [DOMAIN file -> [by : Runs, whole : BOOLEAN]]
        /\ vouched \subseteq dirs
        /\ dirs \subseteq Ids
        /\ \A x \in Runs : pc[x] # "idle" => dir[x] \in dirs
        /\ \A m \in wire : pc[m.run] # "idle"
        /\ \A x \in Runs : pc[x] = "fill" => dir[x] \in DOMAIN file
    BY DEF RunsTyped
  <1>2. /\ \A id \in Ids : IsGenesis(id)' = IsGenesis(id)
        /\ ValidIds \subseteq ValidIds' /\ Ids \subseteq Ids'
    BY MovesKeep
  <1>3. /\ pc' = pc /\ dir' = dir /\ already' = already /\ wire' = wire /\ file' = file
        /\ vouched' = vouched /\ bodies' = bodies
    BY DEF Curate, Prepare, local
  <1>4. /\ Len(events) + 1 \notin Ids /\ Len(events) + 1 \in Ids'
        /\ events'[Len(events) + 1] = e /\ retained \subseteq Ids
    <2>1. Len(events) \in Nat /\ DOMAIN events = 1 .. Len(events) /\ Recorded(events)
      BY RecordedSane DEF LedgerInv
    <2>2. events' = Append(events, e)
      BY DEF Curate, Prepare
    <2>3. DOMAIN events' = Ids \cup {Len(events) + 1}
      BY <2>1, <2>2, DraftNames, RecordedGrows DEF Ids, LedgerInv
    <2>4. events'[Len(events) + 1] = e
      <3>1. events \in Seq(ToSet(events) \cup {e})
        BY <2>1 DEF Recorded
      <3> QED
        BY <2>1, <2>2, <3>1
    <2> QED
      BY <2>1, <2>3, <2>4 DEF Ids, LedgerInv
  <1>5. \/ dirs' = dirs /\ retained' = retained \cup {Len(events) + 1}
        \/ dirs' = dirs \cup {Len(events) + 1} /\ retained' = retained
    BY DEF Curate, Prepare
  <1>6. RunsTyped'
    BY <1>1, <1>2, <1>3, <1>4, <1>5 DEF RunsTyped
  <1>7. ASSUME NEW r \in Runs PROVE Recalled(r)'
    <2>1. Recalled(r)
      OBVIOUS
    <2>2. pc[r] # "idle" => IsGenesis(dir[r])' = IsGenesis(dir[r])
      BY <1>1, <1>2, <1>3 DEF IsGenesis
    <2> QED
      BY <1>2, <1>3, <2>1, <2>2 DEF Recalled
  <1>8. Bodied'
    <2>1. ASSUME NEW id \in dirs', id \in retained', IsGenesis(id)' PROVE id \in bodies'
      <3>1. id \in dirs /\ id \in retained
        BY <1>1, <1>4, <1>5, <2>1
      <3> QED
        BY <1>1, <1>2, <1>3, <2>1, <3>1 DEF Bodied
    <2>2. \A r \in Runs : pc[r] # "idle" => IsGenesis(dir[r])' = IsGenesis(dir[r])
      BY <1>1, <1>2, <1>3 DEF IsGenesis
    <2>3. \A m \in wire : m.run \in Runs /\ pc[m.run] # "idle"
      BY <1>1
    <2> QED
      BY <1>3, <2>1, <2>2, <2>3 DEF Bodied
  <1> QED
    BY <1>6, <1>7, <1>8

(* Submit: what the runs hold and what the node shows go together.         *)
THEOREM SubmitHolds == SubmitSpec => []SubmitInv
  <1>1. SubmitInv /\ [SubmitNext]_submitVars => SubmitInv'
    <2> SUFFICES ASSUME SubmitInv, [SubmitNext]_submitVars PROVE SubmitInv'
      OBVIOUS
    <2>1. (Moves \/ UNCHANGED ledger) /\ LedgerInv'
      BY SubmitMoves, MovesKeep DEF SubmitInv
    <2>2. ASSUME NEW e \in Drafts, Curate(e) \/ Prepare(e) PROVE SubmitInv'
      <3>1. Moves
        BY <2>1, MovesKeep DEF SubmitInv
      <3> QED
        BY <2>1, <2>2, <3>1, SigningKeeps DEF SubmitInv
    <2>3. ASSUME NEW r \in Runs, RunStep(r) PROVE SubmitInv'
      BY <2>1, <2>3, RunStepTyped, RecalledStays, BodiedStays DEF SubmitInv
    <2>4. CASE UNCHANGED submitVars
      <3>1. RunsTyped'
        BY <2>4 DEF SubmitInv, submitVars, ledger, local, RunsTyped, Ids
      <3>2. \A r \in Runs : Recalled(r)'
        BY <2>4 DEF SubmitInv, submitVars, ledger, local, Recalled, IsGenesis, ValidIds
      <3>3. Bodied'
        BY <2>4 DEF SubmitInv, submitVars, ledger, local, Bodied, IsGenesis
      <3> QED
        BY <2>1, <3>1, <3>2, <3>3 DEF SubmitInv
    <2>5. SubmitNext => \/ \E e \in Drafts : Curate(e) \/ Prepare(e)
                        \/ \E r \in Runs : RunStep(r)
                        \/ UNCHANGED submitVars
      BY DEF SubmitNext, RunStep, Finished
    <2> QED
      BY <2>2, <2>3, <2>4, <2>5
  <1> QED
    BY <1>1, TypedInit, PTL DEF SubmitSpec

(* authority_node.rs readback: a rerun finds the Delegate or Revoke it     *)
(* left behind, whatever was revoked since.                                *)
THEOREM RerunsReadBack == SubmitSpec => []RerunReadsBack
  <1>1. SubmitInv => RerunReadsBack
    BY DEF SubmitInv, Recalled, RerunReadsBack
  <1> QED
    BY <1>1, SubmitHolds, PTL

(* node.rs: no Genesis that submit published is on the node without its    *)
(* body, wherever the runs were killed.                                    *)
THEOREM GenesisNeverBare == SubmitSpec => []GenesisHasBody
  <1>1. SubmitInv => GenesisHasBody
    <2> SUFFICES ASSUME SubmitInv, NEW id \in ValidIds \cap dirs, IsGenesis(id) PROVE id \in bodies
      BY DEF GenesisHasBody
    <2>1. id \in retained
      <3>1. DOMAIN view.status = retained
        BY ViewStatuses DEF SubmitInv
      <3> QED
        BY <3>1 DEF ValidIds, ValidIn
    <2> QED
      BY <2>1 DEF SubmitInv, Bodied
  <1> QED
    BY <1>1, SubmitHolds, PTL

(* write_new: a receipt is the one its first writer left, and once whole   *)
(* stays whole.                                                            *)
THEOREM ReceiptsStay == SubmitSpec => FirstReceiptStays
  <1>1. SubmitInv /\ [SubmitNext]_submitVars =>
           [\A d \in DOMAIN file : d \in DOMAIN file' /\ file'[d].by = file[d].by
                                   /\ (file[d].whole => file'[d].whole)]_submitVars
    <2> SUFFICES ASSUME SubmitInv, SubmitNext, NEW d \in DOMAIN file
                 PROVE  d \in DOMAIN file' /\ file'[d].by = file[d].by /\ (file[d].whole => file'[d].whole)
      BY DEF submitVars
    <2>1. CASE UNCHANGED file
      BY <2>1
    <2>2. ASSUME NEW r \in Runs, Create(r), dir[r] \notin DOMAIN file
          PROVE  d \in DOMAIN file' /\ file'[d].by = file[d].by /\ (file[d].whole => file'[d].whole)
      BY <2>2 DEF Create, With
    <2>3. ASSUME NEW r \in Runs, Fill(r)
          PROVE  d \in DOMAIN file' /\ file'[d].by = file[d].by /\ (file[d].whole => file'[d].whole)
      <3>1. file \in [DOMAIN file -> [by : Runs, whole : BOOLEAN]]
        BY DEF SubmitInv, RunsTyped
      <3>2. file' = [file EXCEPT ![dir[r]].whole = TRUE]
        BY <2>3 DEF Fill
      <3> QED
        BY <3>1, <3>2
    <2>4. \/ UNCHANGED file \/ \E r \in Runs : Fill(r) \/ (Create(r) /\ dir[r] \notin DOMAIN file)
      BY DEF SubmitNext, Curate, Prepare, Begin, LookGenesis, LookAuthority, Put, Post, ServeBody,
             ServeEvent, ReadBack, Exists, Create, Fill, Abort, Finished, submitVars
    <2> QED
      BY <2>1, <2>2, <2>3, <2>4
  <1> QED
    BY <1>1, SubmitHolds, PTL DEF SubmitSpec, FirstReceiptStays

-----------------------------------------------------------------------------
(* What the publisher's checks say of the fold                             *)

(* The key of a subject is the same all over the past of a valid event.    *)
LEMMA KeysReach ==
    ASSUME NEW all, Sane(all), NEW order, NEW status, Solves(all, order, status)
    PROVE  LET v == Sub(all, ValidIn(status)) IN
           \A id \in ValidIn(status) :
              /\ all[id].key # None
              /\ \A x \in Cones(v)[id] : all[x].key = all[id].key
  <1> DEFINE V == ValidIn(status)
             v == Sub(all, V)
             cone == Cones(v)
             G == {id \in V : \A x \in cone[id] : all[x].key = all[id].key}
  <1>1. Upright(all, V)
    BY ValidUpright
  <1>2. DOMAIN v = V /\ (\A id \in V : v[id] = all[id]) /\ Sane(v)
    BY <1>1, SubFacts
  <1>3. V \in SUBSET Nat
    BY <1>1, SaneIds DEF Upright
  <1>7. ASSUME NEW id \in V PROVE all[id].key # None
    <2>1. CASE all[id].kind = "genesis"
      <3>1. status[id] = Evaluate(id, all, status, order) /\ status[id].state = "valid"
        BY DEF Solves, ValidIn
      <3>2. Invalid("precision").state = "invalid" /\ Invalid("genesis").state = "invalid"
        BY DEF Invalid
      <3> QED
        BY <2>1, <3>1, <3>2, EvaluateIs
    <2>2. CASE all[id].kind # "genesis"
      <3>2. Founded(all, order, status, all[id])
        BY <2>2, ValidFacts
      <3>1. ParentsFault(all[id]) = ""
        BY <3>2 DEF Founded
      <3> QED
        BY <3>1 DEF ParentsFault
    <2> QED
      BY <2>1, <2>2
  <1> HIDE DEF v
  <1>4. \A id \in V : cone[id] = {id} \cup UNION {cone[p] : p \in all[id].parents}
    <2>1. \A id \in V : cone[id] = {id} \cup UNION {cone[p] : p \in all[id].parents \cap V}
      BY <1>2, ConeFacts
    <2>2. \A id \in V : all[id].parents \cap V = all[id].parents
      BY <1>1 DEF Upright
    <2> QED
      BY <2>1, <2>2
  <1>5. \A id \in V : \A p \in all[id].parents : p \in V /\ p < id
    BY <1>1, SaneIds DEF Upright
  <1>6. \A id \in V : \A p \in all[id].parents : all[p].key = all[id].key
    <2>1. ASSUME NEW id \in V, NEW p \in all[id].parents PROVE all[p].key = all[id].key
      <3>1. CASE all[id].kind = "genesis"
        BY <3>1, ValidFacts
      <3>2. CASE all[id].kind # "genesis"
        <4>1. SubjectFault(all, all[id]) = ""
          BY <3>2, ValidFacts DEF Founded
        <4> QED
          BY <4>1 DEF SubjectFault
      <3> QED
        BY <3>1, <3>2
    <2> QED
      BY <2>1
  <1> HIDE DEF V, cone
  <1>8. ASSUME NEW id \in V, \A c \in V : c < id => c \in G PROVE id \in G
    <2>1. ASSUME NEW x \in cone[id] PROVE all[x].key = all[id].key
      <3>1. CASE x = id
        BY <3>1
      <3>2. CASE x # id
        <4>1. PICK p \in all[id].parents : x \in cone[p]
          BY <1>4, <3>2
        <4>2. p \in G
          BY <1>5, <1>8
        <4> QED
          BY <1>6, <4>1, <4>2
      <3> QED
        BY <3>1, <3>2
    <2> QED
      BY <2>1
  <1>9. V \subseteq G
    <2> HIDE DEF G
    <2> QED
      BY <1>3, <1>8, FromBelow
  <1> QED
    BY <1>7, <1>9 DEF V, v, cone

(* Where every issuer is there, the lines of the grant tree do not grow.   *)
LEMMA LinesStay ==
    ASSUME NEW a, NEW b, Sane(a), Sane(b), Extends(a, b), Ordained(a)
    PROVE  \A g \in GrantsOf(a) : Lineages(b)[g] = Lineages(a)[g]
  <1> DEFINE D == GrantsOf(a)
             G == {g \in D : Lineages(b)[g] = Lineages(a)[g]}
  <1>1. D \in SUBSET Nat /\ D \subseteq GrantsOf(b) /\ (\A g \in D : b[g] = a[g]) /\ 0 \notin GrantsOf(b)
    BY SaneIds DEF GrantsOf, Extends
  <1>2. \A g \in D : Issuer(b, g) = Issuer(a, g) /\ (Issuer(a, g) = 0 \/ Issuer(a, g) \in D)
    BY <1>1 DEF Issuer, Ordained, None
  <1>3. \A g \in D : /\ Lineages(a)[g] =
                          {g} \cup (IF Issuer(a, g) \in D THEN Lineages(a)[Issuer(a, g)] ELSE {})
                     /\ Issuer(a, g) < g
    BY LineFacts
  <1>4. \A g \in GrantsOf(b) : Lineages(b)[g] =
           {g} \cup (IF Issuer(b, g) \in GrantsOf(b) THEN Lineages(b)[Issuer(b, g)] ELSE {})
    BY LineFacts
  <1> HIDE DEF D
  <1>5. ASSUME NEW g \in D, \A c \in D : c < g => c \in G PROVE g \in G
    <2>1. CASE Issuer(a, g) \notin D
      BY <1>1, <1>2, <1>3, <1>4, <2>1
    <2>2. CASE Issuer(a, g) \in D
      <3>1. Lineages(b)[Issuer(a, g)] = Lineages(a)[Issuer(a, g)]
        BY <1>3, <1>5, <2>2
      <3>2. Lineages(a)[g] = {g} \cup Lineages(a)[Issuer(a, g)]
        BY <1>3, <2>2
      <3>3. Lineages(b)[g] = {g} \cup Lineages(b)[Issuer(a, g)]
        BY <1>1, <1>2, <1>4, <2>2
      <3> QED
        BY <3>1, <3>2, <3>3
    <2> QED
      BY <2>1, <2>2
  <1>6. D \subseteq G
    <2> HIDE DEF G
    <2> QED
      BY <1>1, <1>5, FromBelow
  <1> QED
    BY <1>6 DEF D

(* The effective revokes and the cancellers below a frontier event are     *)
(* those of the whole: nothing there is out of any cut.                    *)
LEMMA ActiveBelow ==
    ASSUME LedgerInv, NEW s \in DOMAIN view.frontier, NEW h \in view.frontier[s],
           view.cones[h] \cap Relinquishments(Envelopes) = {}, NEW o
    PROVE  LET P == Sub(Envelopes, view.cones[h])
               v == DeriveFrom(P, Lineages(P), Cones(P), o)
           IN  /\ v.grants = view.authority.grants \cap view.cones[h]
               /\ view.authority.active \cap view.cones[h] \subseteq v.active
               /\ \A g \in v.grants : Lineages(P)[g] = Lineages(Envelopes)[g]
  <1> DEFINE C == view.cones[h]
             P == Sub(Envelopes, C)
             E == Envelopes
             line == Lineages(P)
             cones == Cones(P)
             effective == EffectiveRevokes(P, line, cones)
             all == EffectiveRevokes(E, Lineages(E), Cones(E))
             v == DeriveFrom(P, line, cones, o)
  <1>1. /\ Upright(Retained, ValidIds) /\ E = Sub(Retained, ValidIds)
        /\ DOMAIN E = ValidIds /\ (\A id \in ValidIds : E[id] = events[id])
        /\ Sane(E) /\ Closed(E) /\ Covering(E, InOrder(events))
        /\ view.cones = Cones(E)
        /\ view.authority = DeriveFrom(E, Lineages(E), Cones(E), InOrder(events))
        /\ view.frontier = [x \in {id \in ValidIds : events[id].kind = "genesis"} |->
                              Frontier(E, view.cones, view.authority, x)]
    BY ViewReadings
  <1>2. /\ Sane(Retained) /\ ValidIds = ValidIn(Judged)
        /\ Solves(Retained, InOrder(events), Judged)
    BY ViewStatuses
  <1>3. h \in ValidIds
    <2>1. h \in Frontier(E, view.cones, view.authority, s)
      BY <1>1
    <2> QED
      BY <1>1, <2>1 DEF Frontier
  <1>4. Upright(E, C) /\ h \in C /\ C \subseteq ValidIds
    <2>1. Upright(E, ValidIds)
      BY <1>1 DEF Closed, Upright
    <2> QED
      BY <1>1, <1>3, <2>1, UprightCone
  <1>5. /\ DOMAIN P = C /\ \A id \in C : P[id] = E[id]
        /\ Sane(P) /\ Closed(P) /\ Extends(P, E)
    BY <1>1, <1>4, SubFacts
  <1>6. Ordained(P)
    <2>1. Upright(Retained, C)
      <3>1. \A id \in C : Retained[id] = E[id] /\ id \in DOMAIN Retained
        BY <1>1, <1>4 DEF Upright, Sub
      <3>2. C \subseteq DOMAIN Retained /\ \A id \in C : Retained[id].parents \subseteq C
        BY <1>4, <3>1 DEF Upright
      <3> QED
        BY <3>2 DEF Upright
    <2>2. Sub(Retained, C) = P
      BY <1>1, <1>4 DEF Sub
    <2>3. C \subseteq ValidIn(Judged)
      BY <1>2, <1>4
    <2> QED
      BY <1>2, <2>1, <2>2, <2>3, PastOrdained
  <1> HIDE DEF E, P, C
  <1>7. \A g \in GrantsOf(P) : line[g] = Lineages(E)[g]
    BY <1>1, <1>5, <1>6, LinesStay
  <1>8. \A id \in C : cones[id] = view.cones[id] /\ cones[id] \subseteq C
    <2>1. C \in SUBSET DOMAIN P /\ \A id \in C : P[id].parents \subseteq C
      BY <1>4, <1>5 DEF Upright
    <2> QED
      BY <1>1, <1>5, <2>1, ConesStay
  <1> HIDE DEF line, cones
  <1>9. GrantsOf(P) = GrantsOf(E) \cap C
    BY <1>1, <1>4, <1>5 DEF GrantsOf
  <1>10. /\ view.authority.effective = all /\ view.authority.grants = GrantsOf(E)
         /\ view.authority.canceled = {g \in GrantsOf(E) : Cancellers(E, Lineages(E), Cones(E), all, g) # {}}
         /\ view.authority.active = GrantsOf(E) \ (view.authority.canceled \cup
                 {g \in GrantsOf(E) : \E r \in all : Covers(E, Lineages(E), r, g)})
    BY <1>1 DEF DeriveFrom, Standing
  <1>11. /\ v.grants = GrantsOf(P)
         /\ v.active = GrantsOf(P) \ ({g \in GrantsOf(P) : Cancellers(P, line, cones, effective, g) # {}} \cup
                 {g \in GrantsOf(P) : \E r \in effective : Covers(P, line, r, g)})
    BY DEF DeriveFrom, Standing
  <1>12. effective \subseteq RevokesOf(P)
    BY <1>5, EffectiveFacts
  <1> HIDE DEF v, effective, all
  <1>13. ASSUME NEW r \in effective PROVE r \in all
    <2>1. r \in RevokesOf(P) /\ r \in C
      BY <1>5, <1>12 DEF RevokesOf
    <2>2. r \in RevokesOf(Envelopes)
      BY <1>1, <1>4, <1>5, <2>1 DEF RevokesOf, E
    <2>3. /\ ~\E q \in view.authority.effective : OutOfCut(r, q)
          /\ Signer(Envelopes, r) \notin view.authority.canceled
      BY <2>1, FrontierStands DEF C
    <2>4. r \in view.authority.effective
      BY <2>2, <2>3, EffectiveAreSolved DEF EffectiveIsFixpoint
    <2> QED
      BY <1>10, <2>4
  <1>14. ASSUME NEW r \in effective, NEW g \in GrantsOf(P), Covers(P, line, r, g)
         PROVE  Covers(E, Lineages(E), r, g)
    <2>1. r \in C
      BY <1>5, <1>12 DEF RevokesOf
    <2> QED
      BY <1>5, <1>7, <1>14, <2>1 DEF Covers
  <1>15. ASSUME NEW g \in GrantsOf(P), Cancellers(P, line, cones, effective, g) # {}
         PROVE  Cancellers(E, Lineages(E), Cones(E), all, g) # {}
    <2>1. PICK r \in effective, a \in line[g] :
             Issuer(P, a) # None /\ Covers(P, line, r, Issuer(P, a)) /\ Outside(P, cones, a, r)
      BY <1>15 DEF Cancellers
    <2>2. a \in GrantsOf(P) /\ Issuer(P, a) \in GrantsOf(P) /\ a \in Lineages(E)[g]
      BY <1>5, <1>6, <1>7, <2>1, LinesNest DEF Ordained, line
    <2>3. a \in C /\ r \in C /\ P[a] = E[a] /\ P[r] = E[r] /\ E[r].kind = "revoke"
      BY <1>5, <1>12, <2>1, <2>2 DEF GrantsOf, RevokesOf
    <2>4. Issuer(E, a) = Issuer(P, a)
      BY <2>3 DEF Issuer
    <2>5. Covers(E, Lineages(E), r, Issuer(E, a))
      BY <1>14, <2>1, <2>2, <2>4
    <2>6. Outside(E, Cones(E), a, r)
      <3>1. ParentOf(P[r]) \in C
        <4>1. r \in ValidIds /\ E[r] = Retained[r] /\ E[r].kind # "genesis"
          BY <1>1, <1>4, <2>3 DEF Sub, E
        <4>5. Founded(Retained, InOrder(events), Judged, Retained[r])
          <5>1. r \in ValidIn(Judged) /\ Retained[r].kind # "genesis"
            BY <1>2, <4>1
          <5> QED
            BY <1>2, <5>1, ValidFacts
        <4>2. E[r].parents # {}
          BY <4>1, <4>5 DEF Founded
        <4>3. E[r].parents \subseteq C
          BY <1>4, <2>3 DEF Upright
        <4>4. ParentOf(E[r]) \in E[r].parents
          BY <4>2 DEF ParentOf
        <4> QED
          BY <2>3, <4>3, <4>4
      <3> QED
        BY <1>1, <1>8, <2>1, <2>3, <3>1 DEF Outside
    <2>7. r \in all
      BY <1>13
    <2> QED
      BY <2>1, <2>2, <2>4, <2>5, <2>6, <2>7 DEF Cancellers
  <1>16. view.authority.active \cap C \subseteq v.active
    BY <1>9, <1>10, <1>11, <1>13, <1>14, <1>15
  <1> QED
    BY <1>7, <1>9, <1>10, <1>11, <1>16 DEF v, E, P, C, line, cones

-----------------------------------------------------------------------------
(* An event that a run found no fault with                                 *)

(* The node's past of a valid event is its cone.                           *)
LEMMA PastIsCone ==
    ASSUME LedgerInv, NEW p \in ValidIds
    PROVE  PastOf(p) = view.cones[p]
  <1> DEFINE D == Ids
             Y == SUBSET D
             up(f, d) == {d} \cup IF d \in retained THEN UNION {f[q] : q \in events[d].parents} ELSE {}
             G == [d \in D |-> [f \in [D -> Y] |-> up(f, d)]]
             Eq(f) == f = [d \in D |-> up(f, d)]
  <1>0. Recorded(events) /\ retained \subseteq Ids
    BY DEF LedgerInv
  <1>1. PICK m \in Nat : D = 1 .. m
    BY <1>0, RecordedSane DEF Ids
  <1>2. \A d \in D : \A q \in events[d].parents : q \in D /\ q < d
    <2>1. \A d \in D : events[d].parents \subseteq 1 .. d - 1
      BY <1>0 DEF Recorded, NamesThePast, Ids
    <2> QED
      BY <1>1, <2>1
  <1>3. \A d \in D : \A f \in [D -> Y] : up(f, d) \in Y
    BY <1>2
  <1>4. ASSUME NEW d \in D, NEW f, NEW g, \A c \in D : c < d => f[c] = g[c]
        PROVE  up(f, d) = up(g, d)
    <2>1. \A q \in events[d].parents : f[q] = g[q]
      BY <1>2, <1>4
    <2> QED
      BY <2>1
  <1>5. \A d \in D : \A f \in [D -> Y] : G[d][f] = up(f, d)
    OBVIOUS
  <1>6. Rule(D, Y, G)
    <2> HIDE DEF G, D, Y, up
    <2> QED
      BY <1>3, <1>4, <1>5 DEF Rule
  <1>7. Y # {}
    OBVIOUS
  <1>8. PICK f : Solution(D, Y, G, f)
    <2>1. D \in SUBSET (0 .. m)
      BY <1>1
    <2> HIDE DEF G, D, Y, up
    <2> QED
      BY <1>1, <1>6, <1>7, <2>1, Recursion
  <1>9. Eq(f)
    <2> HIDE DEF G, D, Y, up
    <2>1. f \in [D -> Y] /\ \A d \in D : f[d] = up(f, d)
      BY <1>5, <1>8 DEF Solution
    <2> QED
      BY <2>1
  <1> DEFINE past == CHOOSE h : Eq(h)
  <1>10. Eq(past)
    <2> HIDE DEF Eq
    <2> QED
      BY <1>9
  <1>11. \A id \in Ids : PastOf(id) = past[id]
    BY DEF PastOf
  <1> HIDE DEF past
  <1>12. \A d \in D : past[d] = {d} \cup IF d \in retained THEN UNION {past[q] : q \in events[d].parents} ELSE {}
    BY <1>10
  <1>13. /\ DOMAIN Envelopes = ValidIds /\ \A id \in ValidIds : Envelopes[id] = events[id]
         /\ Sane(Envelopes) /\ Closed(Envelopes) /\ view.cones = Cones(Envelopes)
         /\ ValidIds \subseteq retained
    BY ViewReadings, ViewStatuses DEF Upright
  <1>14. \A id \in ValidIds : view.cones[id] = {id} \cup UNION {view.cones[q] : q \in events[id].parents}
    <2>1. \A id \in ValidIds : Envelopes[id].parents \cap DOMAIN Envelopes = events[id].parents
      BY <1>13 DEF Closed
    <2>2. \A id \in DOMAIN Envelopes : Cones(Envelopes)[id] =
             {id} \cup UNION {Cones(Envelopes)[q] : q \in Envelopes[id].parents \cap DOMAIN Envelopes}
      BY <1>13, ConeFacts
    <2> QED
      BY <1>13, <2>1, <2>2
  <1> DEFINE H == {id \in ValidIds : past[id] = view.cones[id]}
  <1>15. ASSUME NEW id \in ValidIds, \A c \in ValidIds : c < id => c \in H PROVE id \in H
    <2>1. id \in retained /\ id \in Ids
      BY <1>0, <1>13
    <2>2. \A q \in events[id].parents : q \in ValidIds /\ q < id
      BY <1>2, <1>13, <2>1 DEF Closed
    <2>3. \A q \in events[id].parents : past[q] = view.cones[q]
      BY <1>15, <2>2
    <2>4. past[id] = {id} \cup UNION {past[q] : q \in events[id].parents}
      BY <1>12, <2>1
    <2>5. past[id] = view.cones[id]
      BY <1>14, <2>3, <2>4
    <2> QED
      BY <2>5
  <1>16. ValidIds \subseteq H
    <2>1. ValidIds \in SUBSET Nat
      BY <1>0, <1>1, <1>13
    <2> HIDE DEF H
    <2> QED
      BY <1>15, <2>1, FromBelow
  <1> QED
    BY <1>0, <1>11, <1>13, <1>16

(* What submit's offline commands write: a Delegate or Revoke signed       *)
(* through a grant, in its subject and under its key, by its holder.       *)
Formed(evs, e) ==
    /\ e.kind \in {"delegate", "revoke"} /\ e.time = NoTime /\ e.decision = "sound"
    /\ \E p \in DOMAIN evs : e.parents = {p}
    /\ e.grant \in DOMAIN evs
    /\ e.subject = SubjectOf(evs, e.grant) /\ e.key = evs[e.grant].key
    /\ e.author = Holder(evs, e.grant)
    /\ e.kind = "delegate" => e.issuer = e.grant

(* Drafts of delegations and revocations are formed as the builders form   *)
(* them.                                                                   *)
LEMMA DraftsFormed ==
    ASSUME NEW e \in Drafts, e.kind \in {"delegate", "revoke"}
    PROVE  Formed(events, e)
  <1>1. PICK g \in GrantsOf(events) : e \in DraftsOf(g)
    BY DEF Drafts
  <1>2. g \in Ids
    BY <1>1 DEF GrantsOf, Ids
  <1>3. \/ \E p \in Ids : e = Correction(g, p)
        \/ \E p \in Ids, k \in setup.keys : e = Delegation(g, p, k)
        \/ \E p \in Ids, t \in GrantsOf(events), c \in BOOLEAN : e = Revocation(g, p, t, c)
        \/ \E P \in SUBSET Ids : e = Merging(g, P)
        \/ \E P \in SUBSET Ids, r \in Ids : e = Selection(g, P, r)
    BY <1>1 DEF DraftsOf
  <1>4. ~\E p \in Ids : e = Correction(g, p)
    BY DEF Correction, Blank
  <1>5. ~\E P \in SUBSET Ids : e = Merging(g, P)
    BY DEF Merging, Blank
  <1>6. ~\E P \in SUBSET Ids, r \in Ids : e = Selection(g, P, r)
    BY DEF Selection, Blank
  <1>7. ASSUME NEW p \in Ids, NEW k, e = Delegation(g, p, k) PROVE Formed(events, e)
    <2> DEFINE d == Blank("delegate", {p}, g)
    <2>1. /\ e.kind = d.kind /\ e.time = d.time /\ e.decision = d.decision /\ e.parents = d.parents
          /\ e.grant = d.grant /\ e.subject = d.subject /\ e.key = d.key /\ e.author = d.author
          /\ e.issuer = g
      BY <1>7 DEF Delegation, Blank
    <2>2. /\ d.kind = "delegate" /\ d.time = NoTime /\ d.decision = "sound" /\ d.parents = {p}
          /\ d.grant = g /\ d.subject = SubjectOf(events, g) /\ d.key = events[g].key
          /\ d.author = Holder(events, g)
      BY DEF Blank
    <2> HIDE DEF d
    <2> QED
      BY <1>2, <2>1, <2>2 DEF Formed, Ids
  <1>8. ASSUME NEW p \in Ids, NEW t, NEW c, e = Revocation(g, p, t, c) PROVE Formed(events, e)
    <2> DEFINE d == Blank("revoke", {p}, g)
    <2>1. /\ e.kind = d.kind /\ e.time = d.time /\ e.decision = d.decision /\ e.parents = d.parents
          /\ e.grant = d.grant /\ e.subject = d.subject /\ e.key = d.key /\ e.author = d.author
      BY <1>8 DEF Revocation, Blank
    <2>2. /\ d.kind = "revoke" /\ d.time = NoTime /\ d.decision = "sound" /\ d.parents = {p}
          /\ d.grant = g /\ d.subject = SubjectOf(events, g) /\ d.key = events[g].key
          /\ d.author = Holder(events, g)
      BY DEF Blank
    <2> HIDE DEF d
    <2> QED
      BY <1>2, <2>1, <2>2 DEF Formed, Ids
  <1> QED
    BY <1>3, <1>4, <1>5, <1>6, <1>7, <1>8

(* The parent is the one frontier event of the subject, and whatever the   *)
(* event names is in the parent's past.                                    *)
LEMMA ParentStands ==
    ASSUME LedgerInv, NEW id \in Ids, Formed(events, events[id]), IssuedInPast(id), ParentCurrent(id)
    PROVE  LET e == events[id]
               p == Parent(id)
           IN  /\ e.parents = {p} /\ p \in ValidIds /\ Named(id) \subseteq view.cones[p]
               /\ Named(id) \subseteq view.authority.grants
               /\ e.subject = Subject(id) /\ Subject(id) \in ValidIds /\ Subject(id) # None
               /\ events[Subject(id)].kind = "genesis"
               /\ Subject(id) \in DOMAIN view.frontier /\ p \in view.frontier[Subject(id)]
               /\ SubjectOf(events, p) = Subject(id)
  <1> DEFINE e == events[id]
             p == Parent(id)
             g == e.grant
             s == SubjectOf(events, g)
             E == Envelopes
  <1>1. /\ DOMAIN E = ValidIds /\ (\A x \in ValidIds : E[x] = events[x]) /\ E = Sub(Retained, ValidIds)
        /\ Sane(E) /\ view.cones = Cones(E)
        /\ view.authority = DeriveFrom(E, Lineages(E), Cones(E), InOrder(events))
        /\ view.frontier = [x \in {y \in ValidIds : events[y].kind = "genesis"} |->
                              Frontier(E, view.cones, view.authority, x)]
    BY ViewReadings
  <1>2. /\ Sane(Retained) /\ Solves(Retained, InOrder(events), Judged) /\ ValidIds = ValidIn(Judged)
        /\ DOMAIN Retained = retained /\ (\A x \in retained : Retained[x] = events[x])
    BY ViewStatuses
  <1>3. view.authority.grants = GrantsOf(E)
    BY <1>1 DEF DeriveFrom, Standing
  <1>4. e.parents = {p}
    BY DEF Formed, Ids, Parent, ParentOf
  <1>5. /\ Named(id) \subseteq view.authority.grants /\ Named(id) \subseteq PastOf(p)
    BY DEF IssuedInPast
  <1>6. g \in ValidIds /\ g \in GrantsOf(E)
    BY <1>1, <1>3, <1>5 DEF Named, GrantsOf
  <1>7. E[g] = events[g] /\ g \in retained
    <2>1. ValidIds \subseteq retained
      BY ViewReadings, <1>2 DEF Upright
    <2> QED
      BY <1>1, <1>6, <2>1
  <1>8. SubjectOf(Retained, g) = s
    BY <1>2, <1>7 DEF SubjectOf
  <1>9. s \in Cones(E)[g] /\ Retained[s].kind = "genesis"
    BY <1>1, <1>2, <1>6, <1>8, SubjectsReach
  <1>10. s \in ValidIds /\ events[s].kind = "genesis" /\ s # None
    <2>1. s \in ValidIds
      BY <1>1, <1>6, <1>9, ConeFacts
    <2>2. E[s] = Retained[s] /\ E[s] = events[s]
      BY <1>1, <2>1 DEF Sub
    <2>3. s # 0
      BY <1>1, <2>1, SaneIds
    <2> QED
      BY <1>9, <2>1, <2>2, <2>3 DEF None
  <1>11. e.subject = s /\ Subject(id) = s
    BY <1>10 DEF Formed, Ids, Subject, SubjectOf
  <1>12. s \in DOMAIN view.frontier /\ p \in view.frontier[s]
    BY <1>1, <1>10, <1>11 DEF ParentCurrent
  <1>13. p \in ValidIds /\ SubjectOf(E, p) = s
    <2>1. p \in Frontier(E, view.cones, view.authority, s)
      BY <1>1, <1>12
    <2> QED
      BY <1>1, <2>1 DEF Frontier
  <1>14. SubjectOf(events, p) = s
    BY <1>1, <1>13 DEF SubjectOf
  <1>15. Named(id) \subseteq view.cones[p]
    BY <1>5, <1>13, PastIsCone
  <1> HIDE DEF s, p
  <1> QED
    BY <1>4, <1>5, <1>10, <1>11, <1>12, <1>13, <1>14, <1>15 DEF p

(* The fold with one more event.                                           *)
LEMMA FoldOne ==
    ASSUME LedgerInv, NEW id \in Ids
    PROVE  LET more == retained \cup {id}
               all == Sub(events, more)
               out == Classify(all, InOrder(events))
               status == Fold(events, more).status
           IN  /\ Sane(all) /\ Covering(all, InOrder(events)) /\ DOMAIN all = more
               /\ (\A x \in more : all[x] = events[x])
               /\ Extends(Retained, all)
               /\ Solves(all, InOrder(events), out)
               /\ DOMAIN status = more /\ \A x \in SubjectIds(all) : status[x] = out[x]
               /\ \A x \in retained : Lasts(view.status, status, x)
  <1> DEFINE more == retained \cup {id}
             all == Sub(events, more)
             status == Fold(events, more).status
  <1>1. Recorded(events) /\ more \subseteq DOMAIN events /\ retained \subseteq DOMAIN events
        /\ view = Fold(events, retained)
    BY DEF LedgerInv, Ids
  <1>2. Sane(all) /\ Covering(all, InOrder(events)) /\ DOMAIN all = more
    BY <1>1, FoldGround
  <1>3. Solves(all, InOrder(events), Classify(all, InOrder(events)))
        /\ SolvesEdges(all, Classify(all, InOrder(events)), ProjectAll(all, InOrder(events)).status)
    BY <1>2, ProjectionSolves
  <1>4. status = ProjectAll(all, InOrder(events)).status
    BY DEF Fold
  <1>5. Extends(events, events)
    BY DEF Extends
  <1>6. \A x \in DOMAIN Fold(events, retained).status :
           Lasts(Fold(events, retained).status, Fold(events, more).status, x)
    BY <1>1, <1>5, FoldsLast
  <1>7. DOMAIN view.status = retained
    BY ViewStatuses
  <1>8. \A x \in more : all[x] = events[x]
    BY DEF Sub
  <1>9. Extends(Retained, all)
    BY <1>2, <1>8, ViewStatuses DEF Extends
  <1> HIDE DEF all, more, status
  <1>10. DOMAIN status = more /\ \A x \in SubjectIds(all) : status[x] = Classify(all, InOrder(events))[x]
    BY <1>2, <1>3, <1>4 DEF SolvesEdges
  <1>11. \A x \in retained : Lasts(view.status, status, x)
    BY <1>1, <1>6, <1>7 DEF status
  <1> QED
    BY <1>2, <1>3, <1>8, <1>9, <1>10, <1>11 DEF all, more, status

(* classify, asked about an event that a run found no fault with, on what  *)
(* the run saw: it is valid.                                               *)
LEMMA FaultlessIsValid ==
    ASSUME LedgerInv, NEW id \in Ids, id \notin retained, Formed(events, events[id]),
           IssuedInPast(id), Faultless(id),
           view.cones[Parent(id)] \cap Relinquishments(Envelopes) = {}
    PROVE  Fold(events, retained \cup {id}).status[id].state = "valid"
  <1> DEFINE e == events[id]
             p == Parent(id)
             s == Subject(id)
             more == retained \cup {id}
             all == Sub(events, more)
             o == InOrder(events)
             out == Classify(all, o)
             status == Fold(events, more).status
             E == Envelopes
             C == view.cones[p]
             P == Sub(E, C)
             v == DeriveFrom(P, Lineages(P), Cones(P), o)
  <1>1. /\ Sane(all) /\ Covering(all, o) /\ DOMAIN all = more
        /\ (\A x \in more : all[x] = events[x]) /\ Extends(Retained, all)
        /\ Solves(all, o, out) /\ DOMAIN status = more
        /\ (\A x \in SubjectIds(all) : status[x] = out[x])
        /\ \A x \in retained : Lasts(view.status, status, x)
    BY FoldOne
  <1>2. /\ e.parents = {p} /\ p \in ValidIds /\ Named(id) \subseteq C
        /\ e.subject = s /\ s \in ValidIds /\ s # None
        /\ events[s].kind = "genesis" /\ s \in DOMAIN view.frontier /\ p \in view.frontier[s]
        /\ SubjectOf(events, p) = s /\ Named(id) \subseteq view.authority.grants
    BY ParentStands DEF Faultless
  <1>3. /\ Upright(Retained, ValidIds) /\ E = Sub(Retained, ValidIds)
        /\ DOMAIN E = ValidIds /\ (\A x \in ValidIds : E[x] = events[x])
        /\ Sane(E) /\ Closed(E) /\ view.cones = Cones(E)
    BY ViewReadings
  <1>4. /\ Sane(Retained) /\ Solves(Retained, o, Judged) /\ DOMAIN Retained = retained
        /\ ValidIds = ValidIn(Judged) /\ \A x \in retained : Retained[x] = events[x]
    BY ViewStatuses
  <1>5. ValidIds \subseteq retained
    BY <1>3, <1>4 DEF Upright
  <1>6. /\ e.kind \in {"delegate", "revoke"} /\ e.time = NoTime /\ e.decision = "sound"
        /\ e.grant \in Ids /\ e.key = events[e.grant].key
        /\ e.author = Holder(events, e.grant) /\ (e.kind = "delegate" => e.issuer = e.grant)
    BY DEF Formed, Ids
  <1>7. /\ v.grants = view.authority.grants \cap C
        /\ view.authority.active \cap C \subseteq v.active
        /\ \A g \in v.grants : Lineages(P)[g] = Lineages(E)[g]
    BY <1>2, ActiveBelow
  <1>8. /\ e.grant \in C /\ e.grant \in view.authority.active /\ e.grant \in v.grants
        /\ (e.kind = "revoke" => e.target \in C /\ e.target \in v.grants)
    BY <1>2, <1>7 DEF Named, Faultless, GrantActive
  <1>9. C \subseteq ValidIds /\ p \in C /\ DOMAIN P = C /\ Upright(Retained, C) /\ Upright(E, C)
    <2>1. Upright(E, ValidIds)
      BY <1>3 DEF Closed, Upright
    <2>2. Upright(E, C) /\ p \in C /\ C \subseteq ValidIds
      BY <1>2, <1>3, <2>1, UprightCone
    <2>3. \A x \in C : E[x] = Retained[x]
      BY <1>3, <2>2 DEF Sub
    <2> QED
      BY <1>4, <1>5, <2>2, <2>3 DEF Upright, Sub
  <1> HIDE DEF C, E, P, v, out, all, more, o, status, e, p, s
  (* What evaluate asks before it looks at the semantics.                  *)
  <1>10. all[id] = e /\ id \in more /\ p \in more /\ s \in more /\ id \in SubjectIds(all)
    <2>1. all[id] = e /\ id \in more /\ p \in more /\ s \in more
      BY <1>1, <1>2, <1>5 DEF more, e
    <2> QED
      BY <1>1, <1>6, <2>1 DEF SubjectIds, IsSubject, EdgeKinds
  <1>11. e.time # Imprecise /\ e.kind # "genesis" /\ e.kind # "resolve"
    BY <1>6 DEF NoTime, Imprecise
  <1>12. e.key # None /\ events[p].key = e.key
    <2>1. \A x \in C : Retained[x].key = Retained[p].key
      BY <1>2, <1>3, <1>4, KeysReach DEF C, E
    <2>2. Retained[p].key # None
      BY <1>2, <1>4, KeysReach
    <2> QED
      BY <1>2, <1>4, <1>5, <1>6, <1>8, <1>9, <2>1, <2>2
  <1>13. e.grant # None
    <2>1. e.grant \in DOMAIN E
      BY <1>3, <1>8, <1>9
    <2> QED
      BY <1>3, <2>1, SaneIds DEF None
  <1>14. ParentsFault(e) = ""
    <2>1. Cardinality({p}) = 1
      BY FS_Singleton
    <2> QED
      BY <1>2, <1>11, <1>12, <1>13, <2>1 DEF ParentsFault
  <1>15. MissingParents(all, e) = {} /\ ~(\E q \in e.parents : ~IsSubject(all[q]))
    <2>1. IsSubject(events[p])
      BY <1>2 DEF ValidIds
    <2> QED
      BY <1>1, <1>2, <1>10, <2>1 DEF MissingParents
  <1>16. out[p].state = "valid"
    <2>1. p \in SubjectIds(all) /\ p \in retained
      BY <1>1, <1>2, <1>5, <1>10 DEF SubjectIds, ValidIds
    <2>2. view.status[p].state = "valid"
      BY <1>2 DEF ValidIds, ValidIn
    <2>3. status[p].state = "valid"
      BY <1>1, <2>1, <2>2 DEF Lasts
    <2> QED
      BY <1>1, <2>1, <2>3
  <1>17. SubjectFault(all, e) = ""
    <2>1. SubjectOf(all, p) = s /\ all[p].key = e.key
      BY <1>1, <1>2, <1>10, <1>12 DEF SubjectOf
    <2> QED
      BY <1>2, <2>1 DEF SubjectFault
  <1>18. e.subject \in DOMAIN all /\ all[e.subject].kind = "genesis"
    BY <1>1, <1>2, <1>10
  (* The semantics.                                                        *)
  <1>19. ConeOf(all, p) = C /\ PastIds(all, e) = C
    <2>1. C \in SUBSET DOMAIN E /\ \A x \in C : E[x].parents \subseteq C
      BY <1>9 DEF Upright
    <2>2. Extends(E, all)
      BY <1>1, <1>3, <1>5 DEF Extends, more
    <2>3. Cones(all)[p] = Cones(E)[p]
      BY <1>1, <1>3, <1>9, <2>1, <2>2, ConesStay
    <2>4. ConeOf(all, p) = C
      BY <1>3, <2>3 DEF ConeOf, C, E
    <2> QED
      BY <1>2, <2>4 DEF PastIds
  <1>20. Sub(all, C) = P
    BY <1>1, <1>3, <1>5, <1>9 DEF Sub, P, more
  <1>21. Derive(all, C, o) = v
    BY <1>20 DEF Derive, v
  <1>22. DecisionFault(e) = ""
    BY <1>6 DEF DecisionFault
  <1>23. AuthorityFault(all, e, v, o) = ""
    <2>1. e.grant \in v.active
      BY <1>7, <1>8
    <2>2. Holder(all, e.grant) = e.author
      <3>1. all[e.grant] = events[e.grant]
        BY <1>1, <1>5, <1>8, <1>9 DEF more
      <3> QED
        BY <1>6, <3>1 DEF Holder
    <2>3. \A q \in e.parents : e.grant \in Derive(all, ConeOf(all, q), o).active
      BY <1>2, <1>19, <1>21, <2>1
    <2> QED
      BY <1>11, <2>1, <2>2, <2>3 DEF AuthorityFault
  <1>24. KindFault(all, e, P, v) = ""
    <2>1. CASE e.kind = "delegate"
      <3>1. ~\E g \in view.authority.grants : Holder(events, g) = e.grantee
        BY <2>1 DEF Faultless, Permitted, e
      <3>2. \A g \in v.grants : Holder(all, g) = Holder(events, g)
        <4>1. \A g \in v.grants : all[g] = events[g]
          BY <1>1, <1>5, <1>7, <1>9 DEF more
        <4> QED
          BY <4>1 DEF Holder
      <3>3. ~\E g \in v.grants : Holder(all, g) = e.grantee
        BY <1>7, <3>1, <3>2
      <3>4. DelegateFault(all, e, v) = ""
        BY <1>6, <2>1, <3>3 DEF DelegateFault
      <3> QED
        BY <2>1, <3>4 DEF KindFault
    <2>2. CASE e.kind = "revoke"
      <3>1. e.target \in view.authority.active /\ InScope(E, e.grant, e.target)
        BY <2>2 DEF Faultless, Permitted, e, E
      <3>2. e.target \in v.active
        BY <1>7, <1>8, <2>2, <3>1
      <3>3. InScope(P, e.grant, e.target)
        <4>1. P[e.target] = E[e.target]
          BY <1>8, <1>9, <2>2 DEF P, Sub
        <4>2. Issuer(P, e.target) = Issuer(E, e.target)
          BY <4>1 DEF Issuer
        <4>3. Lineages(P)[e.target] = Lineages(E)[e.target]
          BY <1>7, <1>8, <2>2
        <4> QED
          BY <3>1, <4>2, <4>3 DEF InScope
      <3>4. RevokeFault(all, e, P, v) = ""
        BY <3>2, <3>3 DEF RevokeFault
      <3> QED
        BY <2>2, <3>4 DEF KindFault
    <2> QED
      BY <1>6, <2>1, <2>2
  <1>25. Judge(all, e, o) = Valid
    <2>1. Judge(all, e, o) =
            Verdict(<<DecisionFault(e), AuthorityFault(all, e, v, o), KindFault(all, e, P, v)>>)
      BY <1>19, <1>20, <1>21 DEF Judge, Semantics
    <2>2. Verdict(<<"", "", "">>) = Valid
      BY VerdictIs
    <2> QED
      BY <1>22, <1>23, <1>24, <2>1, <2>2
  <1>26. Evaluate(id, all, out, o) = Valid
    <2>1. {out[q].state : q \in e.parents} = {"valid"}
      BY <1>2, <1>16
    <2> QED
      BY <1>10, <1>11, <1>14, <1>15, <1>17, <1>18, <1>25, <2>1, EvaluateIs
  <1>27. out[id] = Valid
    BY <1>1, <1>10, <1>26 DEF Solves
  <1>28. status[id] = Valid
    BY <1>1, <1>10, <1>27
  <1>29. Valid.state = "valid"
    BY DEF Valid
  <1>30. status[id].state = "valid"
    BY <1>28, <1>29
  <1> QED
    BY <1>30 DEF status, more

(* What lies in a directory is well formed.                                *)
DirsFormed == \A id \in dirs : IsGenesis(id) \/ Formed(events, events[id])

(* The history of a run that found no fault holds on: the fold of what is  *)
(* retained and its event finds it valid.                                  *)
Vouching ==
    \A id \in vouched :
        /\ Formed(events, events[id]) /\ Parent(id) \in ValidIds
        /\ view.cones[Parent(id)] \cap Relinquishments(Envelopes) = {} =>
              Fold(events, retained \cup {id}).status[id].state = "valid"

(* A formed event stays formed.                                            *)
LEMMA FormedStays ==
    ASSUME NEW evs, NEW more, Extends(evs, more), NEW e, Formed(evs, e)
    PROVE  Formed(more, e)
  <1>1. e.grant \in DOMAIN evs /\ more[e.grant] = evs[e.grant] /\ DOMAIN evs \subseteq DOMAIN more
    BY DEF Formed, Extends
  <1>2. SubjectOf(more, e.grant) = SubjectOf(evs, e.grant)
        /\ Holder(more, e.grant) = Holder(evs, e.grant)
    BY <1>1 DEF SubjectOf, Holder
  <1> QED
    BY <1>1, <1>2 DEF Formed

Readable == Sane(Envelopes) /\ view.cones = Cones(Envelopes)

(* A step of the ledger keeps what was found below a valid event.          *)
LEMMA VouchedStays ==
    ASSUME LedgerInv, Readable', Moves \/ UNCHANGED ledger, NEW id \in Ids, Parent(id) \in ValidIds
    PROVE  /\ Parent(id)' = Parent(id) /\ Parent(id) \in ValidIds'
           /\ view.cones[Parent(id)]' \cap Relinquishments(Envelopes)' =
                 view.cones[Parent(id)] \cap Relinquishments(Envelopes)
           /\ Fold(events, retained \cup {id}).status[id].state = "valid" =>
                 Fold(events, retained \cup {id})'.status[id].state = "valid"
  <1> DEFINE p == Parent(id)
             C == view.cones[p]
             E == Envelopes
  <1>1. /\ LedgerInv' /\ Moves /\ Ids \subseteq Ids' /\ (\A x \in Ids : events'[x] = events[x])
        /\ ValidIds \subseteq ValidIds'
    BY MovesKeep
  <1>2. p' = p /\ p \in ValidIds'
    BY <1>1 DEF Parent, ParentOf
  <1>3. /\ DOMAIN E = ValidIds /\ (\A x \in ValidIds : E[x] = events[x])
        /\ Sane(E) /\ Closed(E) /\ view.cones = Cones(E) /\ E = Sub(Retained, ValidIds)
        /\ ValidIds \subseteq Ids
    BY ViewReadings, ViewStatuses DEF Upright, LedgerInv
  <1>4. /\ DOMAIN E' = ValidIds' /\ (\A x \in ValidIds' : E'[x] = events'[x])
        /\ Sane(E') /\ view.cones' = Cones(E')
    BY DEF Readable, Envelopes, Sub
  <1>5. Extends(E, E')
    BY <1>1, <1>3, <1>4 DEF Extends
  <1>6. Ordained(E)
    BY <1>3, ViewStatuses, ValidOrdained
  <1>7. C \subseteq ValidIds /\ view.cones'[p] = C
    <2>1. DOMAIN E \in SUBSET DOMAIN E /\ \A x \in DOMAIN E : E[x].parents \subseteq DOMAIN E
      BY <1>3 DEF Closed
    <2>2. \A x \in DOMAIN E : Cones(E')[x] = Cones(E)[x] /\ Cones(E)[x] \subseteq DOMAIN E
      BY <1>3, <1>4, <1>5, <2>1, ConesStay
    <2> QED
      BY <1>3, <1>4, <2>2
  <1> HIDE DEF E, p, C
  <1>8. ASSUME NEW r \in ValidIds PROVE r \in Relinquishments(E') <=> r \in Relinquishments(E)
    <2>1. E'[r] = E[r] /\ r \in DOMAIN E'
      BY <1>3, <1>5 DEF Extends
    <2>2. r \in RevokesOf(E) => E[r].target \in DOMAIN E
      BY <1>6 DEF Ordained, GrantsOf
    <2>3. r \in RevokesOf(E) => Issuer(E', E[r].target) = Issuer(E, E[r].target)
      BY <1>5, <2>2 DEF Issuer, Extends
    <2>4. r \in RevokesOf(E') <=> r \in RevokesOf(E)
      BY <1>3, <2>1 DEF RevokesOf
    <2>5. Signer(E', r) = Signer(E, r)
      BY <2>1 DEF Signer
    <2> QED
      BY <2>1, <2>3, <2>4, <2>5 DEF Relinquishments
  <1>9. view.cones'[p] \cap Relinquishments(E') = C \cap Relinquishments(E)
    BY <1>7, <1>8
  <1>10. ASSUME Fold(events, retained \cup {id}).status[id].state = "valid"
         PROVE  Fold(events', retained' \cup {id}).status[id].state = "valid"
    <2> DEFINE ids == retained \cup {id}
               jds == retained' \cup {id}
    <2>1. /\ Recorded(events) /\ Recorded(events') /\ Extends(events, events')
          /\ ids \subseteq jds /\ ids \subseteq DOMAIN events /\ jds \subseteq DOMAIN events'
      BY <1>1 DEF Moves, LedgerInv, Ids
    <2>2. \A x \in DOMAIN Fold(events, ids).status :
             Lasts(Fold(events, ids).status, Fold(events', jds).status, x)
      BY <2>1, FoldsLast
    <2>3. DOMAIN Fold(events, ids).status = ids
      BY FoldOne
    <2> QED
      BY <1>10, <2>2, <2>3 DEF Lasts
  <1> QED
    BY <1>2, <1>9, <1>10 DEF p, C, E

(* One step: what was vouched for stays so, and what a run vouches for now *)
(* is so.                                                                  *)
LEMMA VouchingSteps ==
    ASSUME SubmitInv, Readable', DirsFormed, Vouching, [SubmitNext]_submitVars
    PROVE  DirsFormed' /\ Vouching'
  <1> USE DEF SubmitInv
  <1>1. Moves \/ UNCHANGED ledger
    BY SubmitMoves
  <1>2. Moves /\ Ids \subseteq Ids' /\ (\A id \in Ids : events'[id] = events[id])
        /\ Recorded(events) /\ Extends(events, events') /\ dirs \subseteq Ids /\ vouched \subseteq dirs
    BY <1>1, MovesKeep DEF Moves, LedgerInv, RunsTyped
  <1>3. ASSUME NEW id \in Ids, Formed(events, events[id]) PROVE Formed(events', events'[id])
    <2>1. events'[id] = events[id]
      BY <1>2
    <2> QED
      BY <1>2, <1>3, <2>1, FormedStays
  (* What was there before.                                                *)
  <1>4. ASSUME NEW id \in dirs PROVE (IsGenesis(id) \/ Formed(events, events[id]))'
    <2>1. id \in Ids /\ events'[id] = events[id]
      BY <1>2
    <2> QED
      BY <1>3, <2>1 DEF DirsFormed, IsGenesis
  <1>5. ASSUME NEW id \in vouched
        PROVE  /\ Formed(events, events[id])' /\ Parent(id)' \in ValidIds'
               /\ view.cones[Parent(id)]' \cap Relinquishments(Envelopes)' = {} =>
                     Fold(events, retained \cup {id})'.status[id].state = "valid"
    <2>1. id \in Ids /\ Parent(id) \in ValidIds /\ Formed(events, events[id])
          /\ (view.cones[Parent(id)] \cap Relinquishments(Envelopes) = {} =>
                Fold(events, retained \cup {id}).status[id].state = "valid")
      BY <1>2 DEF Vouching
    <2>2. /\ Parent(id)' = Parent(id) /\ Parent(id) \in ValidIds'
          /\ view.cones[Parent(id)]' \cap Relinquishments(Envelopes)' =
                view.cones[Parent(id)] \cap Relinquishments(Envelopes)
          /\ Fold(events, retained \cup {id}).status[id].state = "valid" =>
                Fold(events, retained \cup {id})'.status[id].state = "valid"
      BY <1>1, <2>1, VouchedStays
    <2>3. Formed(events', events'[id])
      BY <1>3, <2>1
    <2> QED
      BY <2>1, <2>2, <2>3
  <1>6. DirsFormed'
    <2>1. ASSUME NEW e \in Drafts, Prepare(e), NEW id \in dirs', id \notin dirs
          PROVE  (IsGenesis(id) \/ Formed(events, events[id]))'
      <3>1. id = Len(events) + 1 /\ events' = Append(events, e) /\ e.kind \in {"delegate", "revoke"}
        BY <2>1 DEF Prepare
      <3>2. events'[id] = e
        <4>1. events \in Seq(ToSet(events) \cup {e}) /\ Len(events) \in Nat
          BY <1>2, RecordedSane DEF Recorded
        <4> QED
          BY <3>1, <4>1
      <3>3. Formed(events, e)
        BY <3>1, DraftsFormed
      <3>4. Formed(events', e)
        BY <1>2, <3>3, FormedStays
      <3> QED
        BY <3>2, <3>4
    <2>2. dirs' = dirs \/ \E e \in Drafts : Prepare(e)
      BY DEF SubmitNext, Curate, Begin, LookGenesis, LookAuthority, Put, Post, ServeBody,
             ServeEvent, ReadBack, Exists, Create, Fill, Abort, Finished, submitVars
    <2> QED
      BY <1>4, <2>1, <2>2 DEF DirsFormed
  (* A run that now finds no fault.                                        *)
  <1>7. ASSUME NEW r \in Runs, LookAuthority(r), NEW id \in vouched', id \notin vouched
        PROVE  /\ Formed(events, events[id])' /\ Parent(id)' \in ValidIds'
               /\ view.cones[Parent(id)]' \cap Relinquishments(Envelopes)' = {} =>
                     Fold(events, retained \cup {id})'.status[id].state = "valid"
    <2>1. /\ id = dir[r] /\ ~IsGenesis(id) /\ id \notin retained
          /\ IssuedInPast(id) /\ Faultless(id) /\ pc[r] = "look"
      BY <1>7 DEF LookAuthority
    <2>2. id \in dirs /\ id \in Ids
      BY <1>2, <2>1 DEF RunsTyped
    <2>3. Formed(events, events[id])
      BY <2>1, <2>2 DEF DirsFormed
    <2>4. Parent(id) \in ValidIds
      BY <2>1, <2>2, <2>3, ParentStands DEF Faultless
    <2>5. view.cones[Parent(id)] \cap Relinquishments(Envelopes) = {} =>
             Fold(events, retained \cup {id}).status[id].state = "valid"
      BY <2>1, <2>2, <2>3, FaultlessIsValid
    <2>6. events' = events /\ view' = view /\ retained' = retained
      BY <1>7 DEF LookAuthority, ledger
    <2> QED
      BY <2>3, <2>4, <2>5, <2>6 DEF Parent, ValidIds, Envelopes, Fold
  <1>8. vouched' = vouched \/ \E r \in Runs : LookAuthority(r)
    BY DEF SubmitNext, Curate, Prepare, Begin, LookGenesis, Put, Post, ServeBody,
           ServeEvent, ReadBack, Exists, Create, Fill, Abort, Finished, submitVars
  <1>9. Vouching'
    BY <1>5, <1>7, <1>8 DEF Vouching
  <1> QED
    BY <1>6, <1>9

(* What was vouched for is valid once it is on the node.                   *)
LEMMA VouchedAreValid ==
    ASSUME SubmitInv, Vouching
    PROVE  VouchedIsValid
  <1> SUFFICES ASSUME NEW id \in vouched, id \in retained,
                      view.cones[Parent(id)] \cap Relinquishments(Envelopes) = {}
               PROVE  view.status[id] = Valid
    BY DEF VouchedIsValid
  <1>1. LedgerInv
    BY DEF SubmitInv
  <1>2. Formed(events, events[id]) /\ Fold(events, retained \cup {id}).status[id].state = "valid"
    BY DEF Vouching
  <1>3. view.status[id].state = "valid"
    <2>1. retained \cup {id} = retained
      OBVIOUS
    <2> QED
      BY <1>1, <1>2, <2>1 DEF LedgerInv
  <1>4. /\ Sane(Retained) /\ Solves(Retained, InOrder(events), Judged)
        /\ SolvesEdges(Retained, Judged, view.status) /\ DOMAIN view.status = retained
        /\ ValidIds = ValidIn(Judged) /\ DOMAIN Retained = retained
        /\ Retained[id] = events[id]
    BY <1>1, ViewStatuses
  <1>5. IsSubject(events[id])
    BY <1>2 DEF Formed, IsSubject, EdgeKinds
  <1>6. id \in ValidIds
    BY <1>3, <1>4, <1>5 DEF ValidIds, ValidIn
  <1>7. Judged[id] = Valid
    BY <1>4, <1>6, ValidFacts
  <1>8. view.status[id] = Judged[id]
    BY <1>4, <1>5 DEF SolvesEdges, SubjectIds
  <1> QED
    BY <1>7, <1>8

(* authority_node.rs check: an event that passed the publisher's checks is *)
(* valid on the node, whatever was admitted before it arrived, unless a    *)
(* root gave itself up in its past; and no Genesis is without its body.    *)
THEOREM SubmittedAlwaysSound == SubmitSpec => []SubmittedIsSound
  <1>1. SubmitInv => Readable
    <2>1. LedgerInv => Readable
      BY ViewReadings DEF Readable
    <2> QED
      BY <2>1 DEF SubmitInv
  <1>2. SubmitInit => DirsFormed /\ Vouching
    <2> SUFFICES ASSUME SubmitInit PROVE DirsFormed /\ Vouching
      OBVIOUS
    <2>1. setup \in Setups /\ events = setup.signed /\ retained \in setup.known
          /\ dirs = Ids \ retained /\ vouched = {}
      BY DEF SubmitInit
    <2>2. \A id \in dirs : events[id].kind = "genesis"
      BY <2>1, KnownAssumption DEF Ids
    <2> QED
      BY <2>1, <2>2 DEF DirsFormed, Vouching, IsGenesis
  <1>3. SubmitInv /\ Readable' /\ DirsFormed /\ Vouching /\ [SubmitNext]_submitVars
           => DirsFormed' /\ Vouching'
    BY VouchingSteps
  <1>4. SubmitInv /\ Vouching => VouchedIsValid
    BY VouchedAreValid
  <1>5. SubmitSpec => [](SubmitInv /\ Vouching)
    BY <1>1, <1>2, <1>3, SubmitHolds, PTL DEF SubmitSpec
  <1>6. VouchedIsValid /\ GenesisHasBody => SubmittedIsSound
    BY DEF SubmittedIsSound
  <1> QED
    BY <1>4, <1>5, <1>6, GenesisNeverBare, PTL

-----------------------------------------------------------------------------
(* What later envelopes can change                                         *)

(* The valid envelopes of a view: a closed history whose grants and        *)
(* revokes come from above.                                                *)
Whole(all) == Sane(all) /\ Closed(all) /\ Rooted(all) /\ Ordained(all)

Later(a, b) == Whole(a) /\ Whole(b) /\ Extends(a, b)

(* The effective revokes are the solution of the rule.                     *)
Ruled(all, effective) ==
    /\ effective \subseteq RevokesOf(all)
    /\ \A r \in RevokesOf(all) :
          r \in effective <=>
             r \in Relinquishments(all)
             \/ Counts(all, Lineages(all), Cones(all), effective, r)

(* The two sets of revokes agree on what bears on grant g.                 *)
Agree(a, b, effA, effB, g) ==
    \A q \in effA \cup effB : b[q].target \in Lineages(a)[g] => q \in effA /\ q \in effB

(* Grants, their lineages and cones are what they were.                    *)
LEMMA LaterKeeps ==
    ASSUME NEW a, NEW b, Later(a, b)
    PROVE  /\ GrantsOf(a) = GrantsOf(b) \cap DOMAIN a
           /\ RevokesOf(a) = RevokesOf(b) \cap DOMAIN a
           /\ Relinquishments(a) = Relinquishments(b) \cap DOMAIN a
           /\ \A g \in GrantsOf(a) : Lineages(b)[g] = Lineages(a)[g]
           /\ \A id \in DOMAIN a : /\ Cones(b)[id] = Cones(a)[id]
                                   /\ Cones(a)[id] \subseteq DOMAIN a
                                   /\ Signer(b, id) = Signer(a, id) /\ b[id] = a[id]
  <1>1. /\ Sane(a) /\ Sane(b) /\ Closed(a) /\ Ordained(a) /\ Ordained(b)
        /\ DOMAIN a \subseteq DOMAIN b /\ \A id \in DOMAIN a : b[id] = a[id]
    BY DEF Later, Whole, Extends
  <1>2. GrantsOf(a) = GrantsOf(b) \cap DOMAIN a /\ RevokesOf(a) = RevokesOf(b) \cap DOMAIN a
    BY <1>1 DEF GrantsOf, RevokesOf
  <1>3. \A id \in DOMAIN a : Signer(b, id) = Signer(a, id)
    BY <1>1 DEF Signer
  <1>4. \A g \in GrantsOf(a) : Issuer(b, g) = Issuer(a, g)
    BY <1>1 DEF GrantsOf, Issuer
  <1>5. Relinquishments(a) = Relinquishments(b) \cap DOMAIN a
    <2>1. \A r \in RevokesOf(a) : Signer(a, r) \in GrantsOf(a)
      BY <1>1 DEF Ordained
    <2>2. \A r \in RevokesOf(a) : b[r].target = a[r].target /\ Signer(b, r) = Signer(a, r)
      BY <1>1, <1>3 DEF RevokesOf
    <2> QED
      BY <1>2, <1>4, <2>1, <2>2 DEF Relinquishments
  <1>6. \A id \in DOMAIN a : Cones(b)[id] = Cones(a)[id] /\ Cones(a)[id] \subseteq DOMAIN a
    <2>1. DOMAIN a \in SUBSET DOMAIN a /\ \A id \in DOMAIN a : a[id].parents \subseteq DOMAIN a
      BY <1>1 DEF Closed
    <2>2. Extends(a, b)
      BY DEF Later
    <2> QED
      BY <1>1, <2>1, <2>2, ConesStay
  <1>7. \A g \in GrantsOf(a) : Lineages(b)[g] = Lineages(a)[g]
    <2> DEFINE D == GrantsOf(a)
               G == {g \in D : Lineages(b)[g] = Lineages(a)[g]}
    <2>1. D \in SUBSET Nat
      BY <1>1, SaneIds DEF GrantsOf
    <2>2. ASSUME NEW d \in D, \A c \in D : c < d => c \in G PROVE d \in G
      <3>1. Issuer(a, d) \in Nat /\ Issuer(a, d) < d
        BY <1>1, LineFacts
      <3>2. /\ Lineages(a)[d] = {d} \cup (IF Issuer(a, d) \in D THEN Lineages(a)[Issuer(a, d)] ELSE {})
            /\ Lineages(b)[d] = {d} \cup (IF Issuer(b, d) \in GrantsOf(b) THEN Lineages(b)[Issuer(b, d)] ELSE {})
        BY <1>1, <1>2, LineFacts
      <3>3. Issuer(a, d) \in D \/ Issuer(a, d) \notin GrantsOf(b)
        <4>1. Issuer(a, d) = None \/ Issuer(a, d) \in D
          BY <1>1 DEF Ordained
        <4>2. None \notin GrantsOf(b)
          BY <1>1, SaneIds DEF GrantsOf, None
        <4> QED
          BY <4>1, <4>2
      <3>4. Issuer(a, d) \in D => Lineages(b)[Issuer(a, d)] = Lineages(a)[Issuer(a, d)]
        BY <2>2, <3>1
      <3>5. Issuer(b, d) = Issuer(a, d) /\ D \subseteq GrantsOf(b)
        BY <1>2, <1>4
      <3> HIDE DEF D
      <3> QED
        BY <3>2, <3>3, <3>4, <3>5
    <2>3. D \subseteq G
      <3> HIDE DEF D, G
      <3> QED
        BY <2>1, <2>2, FromBelow
    <2> QED
      BY <2>3
  <1> QED
    BY <1>1, <1>2, <1>3, <1>5, <1>6, <1>7

(* A revoke that covers a grant has its target in the grant's lineage.     *)
LEMMA CoversAbove ==
    ASSUME NEW all, Whole(all), NEW g \in GrantsOf(all), NEW r, Covers(all, Lineages(all), r, g)
    PROVE  all[r].target \in Lineages(all)[g]
  <1>1. g \in Lineages(all)[g]
    BY LinesNest DEF Whole
  <1> QED
    BY <1>1 DEF Covers

(* Who is covered, and who is outside of whose cut, stays so.              *)
LEMMA CutsStay ==
    ASSUME NEW a, NEW b, Later(a, b), NEW r \in RevokesOf(a)
    PROVE  /\ \A g \in GrantsOf(a) :
                 Covers(b, Lineages(b), r, g) <=> Covers(a, Lineages(a), r, g)
           /\ \A id : Outside(b, Cones(b), id, r) <=> Outside(a, Cones(a), id, r)
           /\ Cones(b)[ParentOf(b[r])] \subseteq DOMAIN a
  <1>1. r \in DOMAIN a /\ b[r] = a[r] /\ a[r].kind = "revoke"
    BY LaterKeeps DEF RevokesOf
  <1>2. ParentOf(a[r]) \in DOMAIN a
    <2>1. a[r].parents # {} /\ a[r].parents \subseteq DOMAIN a
      BY <1>1 DEF Later, Whole, Rooted, Closed
    <2> QED
      BY <2>1 DEF ParentOf
  <1>3. Cones(b)[ParentOf(a[r])] = Cones(a)[ParentOf(a[r])]
        /\ Cones(a)[ParentOf(a[r])] \subseteq DOMAIN a
    BY <1>2, LaterKeeps
  <1>4. \A g \in GrantsOf(a) : Lineages(b)[g] = Lineages(a)[g]
    BY LaterKeeps
  <1> QED
    BY <1>1, <1>3, <1>4 DEF Covers, Outside

(* Where two sets agree on a grant, the same revokes control what it       *)
(* signed and cancel it.                                                   *)
LEMMA AgreeReads ==
    ASSUME NEW a, NEW b, Later(a, b), NEW effA, NEW effB,
           effA \subseteq RevokesOf(a), effB \subseteq RevokesOf(b),
           NEW g \in GrantsOf(a), Agree(a, b, effA, effB, g)
    PROVE  /\ {r \in effA : Covers(a, Lineages(a), r, g)}
               = {r \in effB : Covers(b, Lineages(b), r, g)}
           /\ \A id : {r \in effA : Covers(a, Lineages(a), r, g) /\ Outside(a, Cones(a), id, r)}
                       = {r \in effB : Covers(b, Lineages(b), r, g) /\ Outside(b, Cones(b), id, r)}
           /\ Cancellers(a, Lineages(a), Cones(a), effA, g)
               = Cancellers(b, Lineages(b), Cones(b), effB, g)
  <1>1. /\ Whole(a) /\ Whole(b) /\ Sane(a) /\ Sane(b) /\ Ordained(a)
    BY DEF Later, Whole
  <1>2. /\ GrantsOf(a) \subseteq GrantsOf(b) /\ RevokesOf(a) \subseteq DOMAIN a
        /\ \A h \in GrantsOf(a) : Lineages(b)[h] = Lineages(a)[h] /\ b[h] = a[h]
        /\ \A r \in RevokesOf(a) : b[r] = a[r]
    BY LaterKeeps DEF GrantsOf, RevokesOf
  <1>3. \A h \in Lineages(a)[g] : h \in GrantsOf(a) /\ Lineages(a)[h] \subseteq Lineages(a)[g]
    BY <1>1, LinesNest
  <1>4. ASSUME NEW h \in Lineages(a)[g]
        PROVE  /\ \A r \in effA : Covers(a, Lineages(a), r, h) => r \in effB
               /\ \A r \in effB : Covers(b, Lineages(b), r, h) => r \in effA
    <2>1. h \in GrantsOf(a) /\ h \in GrantsOf(b) /\ Lineages(b)[h] = Lineages(a)[h]
          /\ Lineages(a)[h] \subseteq Lineages(a)[g]
      BY <1>2, <1>3
    <2>2. ASSUME NEW r \in effA, Covers(a, Lineages(a), r, h) PROVE r \in effB
      <3>1. a[r].target \in Lineages(a)[h]
        BY <1>1, <2>1, <2>2, CoversAbove
      <3>2. b[r].target \in Lineages(a)[g]
        BY <1>2, <2>1, <3>1
      <3> QED
        BY <3>2 DEF Agree
    <2>3. ASSUME NEW r \in effB, Covers(b, Lineages(b), r, h) PROVE r \in effA
      <3>1. b[r].target \in Lineages(b)[h]
        BY <1>1, <2>1, <2>3, CoversAbove
      <3> QED
        BY <2>1, <3>1 DEF Agree
    <2> QED
      BY <2>2, <2>3
  <1>5. \A h \in Lineages(a)[g] : \A r \in effA \cap effB :
           /\ Covers(b, Lineages(b), r, h) <=> Covers(a, Lineages(a), r, h)
           /\ \A id : Outside(b, Cones(b), id, r) <=> Outside(a, Cones(a), id, r)
    BY <1>3, CutsStay
  <1>6. g \in Lineages(a)[g]
    BY <1>1, LinesNest
  <1>7. \A h \in Lineages(a)[g] : Issuer(b, h) = Issuer(a, h)
        /\ (Issuer(a, h) # None => Issuer(a, h) \in Lineages(a)[g])
    <2> SUFFICES ASSUME NEW h \in Lineages(a)[g]
                 PROVE  Issuer(b, h) = Issuer(a, h)
                        /\ (Issuer(a, h) # None => Issuer(a, h) \in Lineages(a)[g])
      OBVIOUS
    <2>1. h \in GrantsOf(a) /\ Lineages(a)[h] \subseteq Lineages(a)[g] /\ b[h] = a[h]
      BY <1>2, <1>3
    <2>2. Issuer(a, h) = None \/ Issuer(a, h) \in GrantsOf(a)
      BY <1>1, <2>1 DEF Ordained
    <2>3. Issuer(a, h) \in GrantsOf(a) => Issuer(a, h) \in Lineages(a)[h]
      <3>1. Lineages(a)[h] = {h} \cup (IF Issuer(a, h) \in GrantsOf(a) THEN Lineages(a)[Issuer(a, h)] ELSE {})
        BY <1>1, <2>1, LineFacts
      <3>2. Issuer(a, h) \in GrantsOf(a) => Issuer(a, h) \in Lineages(a)[Issuer(a, h)]
        BY <1>1, LinesNest
      <3> QED
        BY <3>1, <3>2
    <2> QED
      BY <2>1, <2>2, <2>3 DEF Issuer
  <1>8. {r \in effA : Covers(a, Lineages(a), r, g)} = {r \in effB : Covers(b, Lineages(b), r, g)}
    BY <1>4, <1>5, <1>6
  <1>9. \A id : {r \in effA : Covers(a, Lineages(a), r, g) /\ Outside(a, Cones(a), id, r)}
                 = {r \in effB : Covers(b, Lineages(b), r, g) /\ Outside(b, Cones(b), id, r)}
    BY <1>4, <1>5, <1>6
  <1>10. Cancellers(a, Lineages(a), Cones(a), effA, g) = Cancellers(b, Lineages(b), Cones(b), effB, g)
    <2>1. Lineages(b)[g] = Lineages(a)[g]
      BY <1>2
    <2>2. \A h \in Lineages(a)[g] : Issuer(a, h) # None =>
             \A r : (r \in effA /\ Covers(a, Lineages(a), r, Issuer(a, h)) /\ Outside(a, Cones(a), h, r))
                    <=> (r \in effB /\ Covers(b, Lineages(b), r, Issuer(b, h)) /\ Outside(b, Cones(b), h, r))
      BY <1>4, <1>5, <1>7
    <2> QED
      BY <2>1, <2>2, <1>7 DEF Cancellers
  <1> QED
    BY <1>8, <1>9, <1>10

(* Whatever changes what bears on a grant was set off by a new effective   *)
(* revoke, signed above the grant unless a root gives itself up.           *)
LEMMA Cause ==
    ASSUME NEW a, NEW b, Later(a, b), NEW effA, NEW effB, Ruled(a, effA), Ruled(b, effB),
           NEW g \in GrantsOf(a), ~Agree(a, b, effA, effB, g)
    PROVE  \E n \in effB \ DOMAIN a :
              /\ b[n].target \in Lineages(a)[g] /\ Signer(b, n) \in Lineages(a)[g]
              /\ Signer(b, n) = g => n \in Relinquishments(b)
  <1> DEFINE line == Lineages(a)
             D == GrantsOf(a)
             Behind(n, h) == /\ b[n].target \in line[h] /\ Signer(b, n) \in line[h]
                             /\ Signer(b, n) = h => n \in Relinquishments(b)
             G == {h \in D : Agree(a, b, effA, effB, h) \/ \E n \in effB \ DOMAIN a : Behind(n, h)}
  <1>1. /\ Whole(a) /\ Whole(b) /\ Sane(a) /\ Sane(b) /\ Ordained(a) /\ Ordained(b)
        /\ effA \subseteq RevokesOf(a) /\ effB \subseteq RevokesOf(b)
    BY DEF Later, Whole, Ruled
  <1>2. D \in SUBSET Nat
    BY <1>1, SaneIds DEF GrantsOf
  <1>3. /\ D = GrantsOf(b) \cap DOMAIN a /\ RevokesOf(a) = RevokesOf(b) \cap DOMAIN a
        /\ Relinquishments(a) = Relinquishments(b) \cap DOMAIN a
        /\ \A h \in D : Lineages(b)[h] = line[h]
        /\ \A id \in DOMAIN a : Signer(b, id) = Signer(a, id) /\ b[id] = a[id]
    BY LaterKeeps
  <1>4. \A h \in D : \A t \in line[h] : t \in D /\ t <= h /\ line[t] \subseteq line[h] /\ t \in line[t]
    BY <1>1, LinesNest
  <1>5. ASSUME NEW d \in D, \A c \in D : c < d => c \in G PROVE d \in G
    <2> SUFFICES ASSUME ~Agree(a, b, effA, effB, d)
                 PROVE  \E n \in effB \ DOMAIN a : Behind(n, d)
      OBVIOUS
    <2>1. PICK q \in effA \cup effB : b[q].target \in line[d] /\ ~(q \in effA /\ q \in effB)
      BY DEF Agree
    <2> DEFINE t == b[q].target
               s == Signer(b, q)
    <2>2. t \in D /\ t \in Nat /\ t <= d /\ d \in Nat /\ line[t] \subseteq line[d]
      BY <1>2, <1>4, <2>1
    <2>3. q \in RevokesOf(b)
      BY <1>1, <1>3, <2>1
    <2>4. q \in Relinquishments(b) \/ (s # t /\ s \in line[t])
      BY <1>1, <1>3, <2>2, <2>3 DEF Ordained
    <2>5. q \in Relinquishments(b) => s = t
      BY DEF Relinquishments
    <2>6. s \in line[t] /\ s \in D /\ s \in Nat /\ s <= t
      <3>1. t \in line[t]
        BY <1>4, <2>1
      <3>2. s \in line[t]
        BY <2>4, <2>5, <3>1
      <3>3. s \in D /\ s <= t
        BY <1>4, <2>2, <3>2
      <3> QED
        BY <1>2, <3>2, <3>3
    <2>7. CASE q \notin DOMAIN a
      <3>1. q \in effB \ DOMAIN a
        BY <1>1, <1>3, <2>1, <2>7
      <3>2. s = d => q \in Relinquishments(b)
        BY <2>2, <2>4, <2>6
      <3>3. Behind(q, d)
        BY <2>1, <2>2, <2>6, <3>2
      <3> QED
        BY <3>1, <3>3
    <2>8. CASE q \in DOMAIN a
      <3>1. q \in RevokesOf(a) /\ Signer(a, q) = s
        BY <1>3, <2>3, <2>8
      <3>2. q \notin Relinquishments(a) /\ q \notin Relinquishments(b)
        <4>1. q \in Relinquishments(a) <=> q \in Relinquishments(b)
          BY <1>3, <2>8
        <4>2. q \in Relinquishments(a) => q \in effA /\ q \in effB
          BY <2>3, <3>1, <4>1 DEF Ruled
        <4> QED
          BY <2>1, <4>1, <4>2
      <3>3. s < d
        BY <2>2, <2>4, <2>6, <3>2
      <3>4. ~Agree(a, b, effA, effB, s)
        <4> SUFFICES ASSUME Agree(a, b, effA, effB, s) PROVE FALSE
          OBVIOUS
        <4>1. /\ \A id : {r \in effA : Covers(a, Lineages(a), r, s) /\ Outside(a, Cones(a), id, r)}
                       = {r \in effB : Covers(b, Lineages(b), r, s) /\ Outside(b, Cones(b), id, r)}
              /\ Cancellers(a, Lineages(a), Cones(a), effA, s) = Cancellers(b, Lineages(b), Cones(b), effB, s)
          BY <1>1, <1>3, <2>6, AgreeReads
        <4>2. {r \in effA : Covers(a, Lineages(a), r, s) /\ Outside(a, Cones(a), q, r)}
              = {r \in effB : Covers(b, Lineages(b), r, s) /\ Outside(b, Cones(b), q, r)}
          BY <4>1
        <4>3. Counts(a, Lineages(a), Cones(a), effA, q) <=> Counts(b, Lineages(b), Cones(b), effB, q)
          BY <3>1, <4>1, <4>2 DEF Counts
        <4>4. q \in effA <=> q \in effB
          BY <2>3, <3>1, <3>2, <4>3 DEF Ruled
        <4> QED
          BY <2>1, <4>4
      <3>5. PICK n \in effB \ DOMAIN a : Behind(n, s)
        BY <1>5, <2>6, <3>3, <3>4
      <3>6. line[s] \subseteq line[d]
        BY <1>4, <2>2, <2>6
      <3>7. Signer(b, n) # d
        <4>1. Signer(b, n) \in Nat /\ Signer(b, n) <= s
          BY <1>2, <1>4, <2>6, <3>5
        <4> QED
          BY <2>2, <2>6, <3>3, <4>1
      <3> QED
        BY <3>5, <3>6, <3>7
    <2> QED
      BY <2>7, <2>8
  <1>6. D \subseteq G
    <2> HIDE DEF D, G
    <2> QED
      BY <1>2, <1>5, FromBelow
  <1> QED
    BY <1>6

-----------------------------------------------------------------------------
(* A step of the ledger                                                    *)

(* What a step may do to the view.                                         *)
Onward ==
    /\ LedgerInv /\ LedgerInv'
    /\ Extends(events, events') /\ retained \subseteq retained'

(* Every step does that.                                                   *)
LEMMA StepsOnward ==
    ASSUME LedgerInv, [Next]_vars
    PROVE  Onward
  <1>1. CASE UNCHANGED vars
    BY <1>1 DEF vars, Onward, LedgerInv, Extends, Recorded, Fold, Ids
  <1>2. CASE Next /\ ~UNCHANGED vars
    <2>1. /\ Recorded(events') /\ retained' \subseteq DOMAIN events'
          /\ Extends(events, events')
          /\ retained \subseteq retained' /\ view' = Fold(events', retained')
      BY <1>2, StepExtends
    <2> QED
      BY <2>1 DEF Onward, LedgerInv, Ids
  <1> QED
    BY <1>1, <1>2

(* The valid envelopes of a view are whole and its effective revokes the   *)
(* solution of their rule.                                                 *)
ViewIsRuled ==
    /\ Whole(Envelopes) /\ DOMAIN Envelopes = ValidIds
    /\ \A id \in ValidIds : Envelopes[id] = events[id]
    /\ Ruled(Envelopes, view.authority.effective)
    /\ view.cones = Cones(Envelopes)
    /\ view.authority = Standing(Envelopes, Lineages(Envelopes), Cones(Envelopes),
                                 view.authority.effective, InOrder(events))
    /\ Relinquishments(Envelopes) \subseteq view.authority.effective
    /\ Covering(Envelopes, InOrder(events))
    /\ DOMAIN view.status = retained

(* The invariant puts the view in this form.                               *)
LEMMA ViewRuled == LedgerInv => ViewIsRuled
  <1> SUFFICES ASSUME LedgerInv PROVE ViewIsRuled
    OBVIOUS
  <1> DEFINE E == Envelopes
             eff == EffectiveRevokes(E, Lineages(E), Cones(E))
  <1>1. /\ Sane(E) /\ Closed(E) /\ view.cones = Cones(E) /\ DOMAIN E = ValidIds
        /\ \A id \in ValidIds : E[id] = events[id]
        /\ E = Sub(Retained, ValidIn(Judged))
        /\ Sane(Retained) /\ Solves(Retained, InOrder(events), Judged)
        /\ view.authority = DeriveFrom(E, Lineages(E), Cones(E), InOrder(events))
        /\ Covering(E, InOrder(events)) /\ DOMAIN view.status = retained
    BY ViewReadings, ViewStatuses
  <1> HIDE DEF E
  <1>2. Ordained(E) /\ Rooted(E)
    BY <1>1, ValidOrdained, SelectionIsValid
  <1>3. \A r \in RevokesOf(E) :
           r \in eff <=> r \in Relinquishments(E) \/ Counts(E, Lineages(E), Cones(E), eff, r)
    BY <1>1, <1>2, EffectiveSolves
  <1>4. eff \subseteq RevokesOf(E) /\ Relinquishments(E) \subseteq eff
    BY <1>1, EffectiveFacts
  <1> HIDE DEF eff
  <1>5. view.authority = Standing(E, Lineages(E), Cones(E), eff, InOrder(events))
    BY <1>1 DEF DeriveFrom, eff
  <1>6. view.authority.effective = eff
    BY <1>5 DEF Standing
  <1> QED
    BY <1>1, <1>2, <1>3, <1>4, <1>5, <1>6 DEF Whole, Ruled, E, ViewIsRuled

(* Valid envelopes stay valid.                                             *)
Lasting ==
    /\ ValidIds \subseteq ValidIds' /\ ValidIn(view.status) \subseteq ValidIn(view'.status)
    /\ Later(Envelopes, Envelopes') /\ Newly = ValidIds' \ ValidIds
    /\ \A id \in ValidIds' : events'[id] = Envelopes'[id]
    /\ \A id \in ValidIds : events'[id] = Envelopes[id] /\ events[id] = Envelopes[id]

(* A step leads from one such view to a later one.                         *)
LEMMA ViewsLater ==
    ASSUME LedgerInv, [Next]_vars
    PROVE  LedgerInv' /\ ViewIsRuled /\ ViewIsRuled' /\ Lasting
  <1>1. LedgerInv /\ LedgerInv' /\ Extends(events, events') /\ retained \subseteq retained'
    BY StepsOnward DEF Onward
  <1>2. ViewIsRuled
    BY <1>1, ViewRuled
  <1>3. LedgerInv' => ViewIsRuled'
    BY ViewRuled, PTL
  <1>4. ViewIsRuled'
    BY <1>1, <1>3
  <1>5. \A id \in retained : id \in retained' /\ Lasts(view.status, view'.status, id)
    <2>1. view = Fold(events, retained) /\ view' = Fold(events', retained')
      BY <1>1 DEF LedgerInv
    <2>2. \A id \in DOMAIN Fold(events, retained).status :
             Lasts(Fold(events, retained).status, Fold(events', retained').status, id)
      BY <1>1, FoldsLast DEF LedgerInv, Ids
    <2> QED
      BY <1>1, <1>2, <2>1, <2>2 DEF ViewIsRuled
  <1>6. DOMAIN view.status = retained /\ DOMAIN view'.status = retained'
        /\ retained \subseteq DOMAIN events
    BY <1>1, <1>2, <1>4 DEF ViewIsRuled, LedgerInv, Ids
  <1>7. ValidIn(view.status) \subseteq ValidIn(view'.status)
    BY <1>5, <1>6 DEF ValidIn, Lasts
  <1>8. \A id \in ValidIn(view.status) : id \in DOMAIN events /\ events'[id] = events[id]
    BY <1>1, <1>6 DEF Extends, ValidIn
  <1>9. ValidIds \subseteq ValidIds' /\ Newly = ValidIds' \ ValidIds
    BY <1>7, <1>8 DEF ValidIds, Newly
  <1>10. /\ \A id \in ValidIds' : events'[id] = Envelopes'[id]
         /\ \A id \in ValidIds : events'[id] = Envelopes[id] /\ events[id] = Envelopes[id]
    BY <1>2, <1>4, <1>8 DEF ViewIsRuled, ValidIds
  <1>11. Extends(Envelopes, Envelopes')
    BY <1>2, <1>4, <1>9, <1>10 DEF Extends, ViewIsRuled
  <1> QED
    BY <1>1, <1>2, <1>4, <1>7, <1>9, <1>10, <1>11 DEF Later, Lasting, ViewIsRuled

-----------------------------------------------------------------------------
(* What one subject's events can reach                                     *)

(* What a valid event names as its authority is in its past, and so in its *)
(* subject.                                                                *)
LEMMA AuthorityInPast ==
    ASSUME NEW all, Sane(all), NEW order, NEW status, Solves(all, order, status),
           NEW id \in ValidIn(status), all[id].kind # "genesis"
    PROVE  LET e == all[id]
               G == {g \in PastIds(all, e) : all[g].kind \in {"genesis", "delegate"}}
           IN  /\ e.grant \in G
               /\ e.kind = "delegate" => e.issuer = e.grant
               /\ e.kind = "revoke" => e.target \in G
               /\ \A p \in e.parents : SubjectOf(all, p) = SubjectOf(all, id)
               /\ \A x \in PastIds(all, e) :
                     x \in ValidIn(status) /\ SubjectOf(all, x) = SubjectOf(all, id)
  <1> DEFINE V == ValidIn(status)
             v == Sub(all, V)
             e == all[id]
             ids == PastIds(all, e)
             past == Sub(all, ids)
             w == Derive(all, ids, order)
             G == {g \in ids : all[g].kind \in {"genesis", "delegate"}}
  <1>1. Upright(all, V)
    BY ValidUpright
  <1>2. DOMAIN v = V /\ (\A d \in V : v[d] = all[d]) /\ Sane(v) /\ Extends(v, all) /\ Closed(v)
    BY <1>1, SubFacts
  <1>3. Founded(all, order, status, e)
    BY ValidFacts
  <1>4. e.parents \subseteq V /\ Judge(all, e, order) = Valid /\ Valid.state # "invalid"
    BY <1>3 DEF Founded, Valid
  <1>5. AuthorityFault(all, e, w, order) = "" /\ KindFault(all, e, past, w) = ""
    BY <1>4, JudgeIs
  <1>6. Extends(all, all)
    BY DEF Extends
  <1>7. Upright(all, ids) /\ ids \subseteq V
    BY <1>1, <1>4, <1>6, PastStays
  <1>8. DOMAIN past = ids /\ (\A d \in ids : past[d] = all[d])
    <2> HIDE DEF ids
    <2> QED
      BY <1>7, SubFacts
  <1>9. w.active \subseteq GrantsOf(past)
    BY DEF Derive, DeriveFrom, Standing
  <1> HIDE DEF w, past, ids
  <1>10. GrantsOf(past) = G
    BY <1>8 DEF GrantsOf
  <1>11. e.grant \in G
    BY <1>5, <1>9, <1>10 DEF AuthorityFault
  <1>12. e.kind = "delegate" => e.issuer = e.grant
    <2> SUFFICES ASSUME e.kind = "delegate" PROVE e.issuer = e.grant
      OBVIOUS
    <2>1. DelegateFault(all, e, w) = ""
      BY <1>5 DEF KindFault
    <2> QED
      BY <2>1 DEF DelegateFault
  <1>13. e.kind = "revoke" => e.target \in G
    <2> SUFFICES ASSUME e.kind = "revoke" PROVE e.target \in G
      OBVIOUS
    <2>1. RevokeFault(all, e, past, w) = ""
      BY <1>5 DEF KindFault
    <2> QED
      BY <1>9, <1>10, <2>1 DEF RevokeFault
  <1>14. e.subject # None /\ \A p \in e.parents : SubjectOf(all, p) = e.subject
    BY <1>3 DEF Founded, ParentsFault, SubjectFault
  <1>15. SubjectOf(all, id) = e.subject
    BY <1>14 DEF SubjectOf
  <1>16. \A x \in ids : SubjectOf(all, x) = SubjectOf(all, id)
    <2> SUFFICES ASSUME NEW x \in ids PROVE SubjectOf(all, x) = e.subject
      BY <1>15
    <2>1. PICK p \in e.parents : x \in Cones(all)[p]
      BY DEF ids, PastIds, ConeOf
    <2>2. V \in SUBSET DOMAIN v /\ \A d \in V : v[d].parents \subseteq V
      BY <1>2 DEF Closed
    <2>3. Cones(all)[p] = Cones(v)[p]
      BY <1>2, <1>4, <2>1, <2>2, ConesStay
    <2>4. SubjectOf(all, x) = SubjectOf(all, p)
      BY <1>4, <2>1, <2>3, SubjectsReach
    <2> QED
      BY <1>14, <2>1, <2>4
  <1> QED
    BY <1>7, <1>11, <1>12, <1>13, <1>14, <1>15, <1>16 DEF ids

(* Parents, grants and targets belong to the subject of the event.         *)
Domestic(all) ==
    \A id \in DOMAIN all :
        /\ Signer(all, id) \in GrantsOf(all)
        /\ SubjectOf(all, Signer(all, id)) = SubjectOf(all, id)
        /\ \A p \in all[id].parents : SubjectOf(all, p) = SubjectOf(all, id)
        /\ all[id].kind = "revoke" => SubjectOf(all, all[id].target) = SubjectOf(all, id)
        /\ all[id].kind = "delegate" => SubjectOf(all, Issuer(all, id)) = SubjectOf(all, id)

(* So they do in the valid events.                                         *)
LEMMA ValidDomestic ==
    ASSUME NEW all, Sane(all), NEW order, NEW status, Solves(all, order, status)
    PROVE  Domestic(Sub(all, ValidIn(status)))
  <1> DEFINE V == ValidIn(status)
             v == Sub(all, V)
  <1>1. Upright(all, V)
    BY ValidUpright
  <1>2. DOMAIN v = V /\ (\A d \in V : v[d] = all[d]) /\ Sane(v)
    BY <1>1, SubFacts
  <1>3. \A d \in V : SubjectOf(v, d) = SubjectOf(all, d)
    BY <1>2 DEF SubjectOf
  <1>4. 0 \notin V
    BY <1>2, SaneIds
  <1> HIDE DEF v, V
  <1> SUFFICES ASSUME NEW id \in V
               PROVE  /\ Signer(v, id) \in GrantsOf(v)
                      /\ SubjectOf(v, Signer(v, id)) = SubjectOf(v, id)
                      /\ \A p \in v[id].parents : SubjectOf(v, p) = SubjectOf(v, id)
                      /\ v[id].kind = "revoke" => SubjectOf(v, v[id].target) = SubjectOf(v, id)
                      /\ v[id].kind = "delegate" => SubjectOf(v, Issuer(v, id)) = SubjectOf(v, id)
    BY <1>2 DEF Domestic, V, v
  <1>5. CASE all[id].kind = "genesis"
    <2>1. all[id].parents = {} /\ all[id].grant = None
      BY <1>5, ValidFacts DEF V
    <2>2. Signer(v, id) = id
      BY <1>2, <2>1 DEF Signer
    <2> QED
      BY <1>2, <1>5, <2>1, <2>2 DEF GrantsOf
  <1>6. CASE all[id].kind # "genesis"
    <2> DEFINE e == all[id]
               G == {g \in PastIds(all, e) : all[g].kind \in {"genesis", "delegate"}}
    <2>1. /\ e.grant \in G
          /\ e.kind = "delegate" => e.issuer = e.grant
          /\ e.kind = "revoke" => e.target \in G
          /\ \A p \in e.parents : SubjectOf(all, p) = SubjectOf(all, id)
          /\ \A x \in PastIds(all, e) : x \in V /\ SubjectOf(all, x) = SubjectOf(all, id)
      BY <1>6, AuthorityInPast DEF V
    <2>2. \A g \in G : g \in V /\ g \in GrantsOf(v) /\ SubjectOf(v, g) = SubjectOf(v, id)
      BY <1>2, <1>3, <2>1 DEF GrantsOf
    <2>3. e.parents \subseteq V
      BY <1>1 DEF Upright, V
    <2>4. v[id] = e
      BY <1>2
    <2> HIDE DEF G, e
    <2>5. Signer(v, id) = e.grant
      BY <1>4, <2>1, <2>2, <2>4 DEF Signer, None
    <2>6. e.kind = "delegate" => Issuer(v, id) = e.grant
      BY <2>1, <2>4 DEF Issuer
    <2>7. \A p \in e.parents : SubjectOf(v, p) = SubjectOf(v, id)
      BY <1>3, <2>1, <2>3
    <2> QED
      BY <2>1, <2>2, <2>4, <2>5, <2>6, <2>7
  <1> QED
    BY <1>5, <1>6

(* And the whole line of issuers.                                          *)
LEMMA LinesDomestic ==
    ASSUME NEW all, Whole(all), Domestic(all)
    PROVE  \A g \in GrantsOf(all) : \A t \in Lineages(all)[g] :
              SubjectOf(all, t) = SubjectOf(all, g)
  <1> DEFINE D == GrantsOf(all)
             H == {g \in D : \A t \in Lineages(all)[g] : SubjectOf(all, t) = SubjectOf(all, g)}
  <1>1. Sane(all)
    BY DEF Whole
  <1>2. D \in SUBSET Nat /\ 0 \notin D
    BY <1>1, SaneIds DEF GrantsOf
  <1>3. ASSUME NEW g \in D, \A c \in D : c < g => c \in H PROVE g \in H
    <2>1. /\ Lineages(all)[g] =
                {g} \cup (IF Issuer(all, g) \in D THEN Lineages(all)[Issuer(all, g)] ELSE {})
          /\ Issuer(all, g) < g
      BY <1>1, LineFacts
    <2>2. Issuer(all, g) \in D => SubjectOf(all, Issuer(all, g)) = SubjectOf(all, g)
      <3>1. Issuer(all, g) \in D => all[g].kind = "delegate"
        BY <1>2 DEF Issuer, GrantsOf, None
      <3>2. g \in DOMAIN all
        BY DEF GrantsOf
      <3> QED
        BY <3>1, <3>2 DEF Domestic
    <2> QED
      BY <1>3, <2>1, <2>2
  <1>4. D \subseteq H
    <2> HIDE DEF D, H
    <2> QED
      BY <1>2, <1>3, FromBelow
  <1> QED
    BY <1>4

(* The effects the loop comes to in the order of the ids, where parents    *)
(* are looked at before their children: who is marked and with what.       *)
Inherits(all, own, eff, id) ==
    IF own[id].reason # "" \/ Inherited(all, eff, id) = {} THEN own[id]
    ELSE [reason |-> "revoked_ancestor", controls |-> Inherited(all, eff, id)]

Carried(all, own, F) ==
    F \in [DOMAIN all -> Effect] /\ \A id \in DOMAIN all : F[id] = Inherits(all, own, F, id)

(* What an event inherits depends on its parents.                          *)
LEMMA InheritedReads ==
    ASSUME NEW a, NEW b, NEW id, b[id].parents = a[id].parents,
           NEW f, NEW g, \A p \in a[id].parents : f[p] = g[p]
    PROVE  Inherited(a, f, id) = Inherited(b, g, id)
  <1> DEFINE P == {q \in a[id].parents : f[q].reason \notin {"", "root_relinquished"}}
             Q == {q \in b[id].parents : g[q].reason \notin {"", "root_relinquished"}}
  <1>1. P = Q /\ \A p \in P : f[p].controls = g[p].controls
    OBVIOUS
  <1>2. UNION {f[p].controls : p \in P} = UNION {g[p].controls : p \in Q}
    <2> HIDE DEF P, Q
    <2> QED
      BY <1>1
  <1> QED
    BY <1>2 DEF Inherited

(* There is such an assignment of effects.                                 *)
LEMMA CarriedExists ==
    ASSUME NEW all, Sane(all), Closed(all), NEW own, OwnEffects(all, own)
    PROVE  \E F : Carried(all, own, F)
  <1> DEFINE D == DOMAIN all
             G == [d \in D |-> [f \in [D -> Effect] |-> Inherits(all, own, f, d)]]
  <1>1. PICK m \in Nat : D \in SUBSET (0 .. m)
    <2>1. PICK m \in Nat : D \subseteq 1 .. m
      BY DEF Sane
    <2>2. D \subseteq 0 .. m
      BY <2>1
    <2> QED
      BY <2>2
  <1>2. \A d \in D : \A p \in all[d].parents : p \in D /\ p < d
    BY SaneIds DEF Closed
  <1>3. \A d \in D : \A f \in [D -> Effect] : Inherits(all, own, f, d) \in Effect
    <2> SUFFICES ASSUME NEW d \in D, NEW f \in [D -> Effect]
                 PROVE  Inherits(all, own, f, d) \in Effect
      OBVIOUS
    <2>1. own[d] \in Effect
      BY DEF OwnEffects
    <2>2. Inherited(all, f, d) \in SUBSET Nat
      <3>1. \A p \in all[d].parents : f[p].controls \subseteq Nat
        BY <1>2 DEF Effect
      <3> QED
        BY <3>1 DEF Inherited
    <2>3. [reason |-> "revoked_ancestor", controls |-> Inherited(all, f, d)] \in Effect
      BY <2>2 DEF Effect, EffectReasons
    <2> QED
      BY <2>1, <2>3 DEF Inherits
  <1>4. ASSUME NEW d \in D, NEW f, NEW g, \A c \in D : c < d => f[c] = g[c]
        PROVE  Inherits(all, own, f, d) = Inherits(all, own, g, d)
    <2>1. \A p \in all[d].parents : f[p] = g[p]
      BY <1>2, <1>4
    <2>2. Inherited(all, f, d) = Inherited(all, g, d)
      BY <2>1, InheritedReads
    <2> QED
      BY <2>2 DEF Inherits
  <1>5. \A d \in D : \A f \in [D -> Effect] : G[d][f] = Inherits(all, own, f, d)
    OBVIOUS
  <1>6. Rule(D, Effect, G)
    <2> HIDE DEF G, D
    <2> QED
      BY <1>3, <1>4, <1>5 DEF Rule
  <1>7. Effect # {}
    <2>1. [reason |-> "", controls |-> {}] \in Effect
      BY DEF Effect, EffectReasons
    <2> QED
      BY <2>1
  <1>8. PICK f : Solution(D, Effect, G, f)
    <2> HIDE DEF G, D
    <2> QED
      BY <1>1, <1>6, <1>7, Recursion
  <1>9. f \in [D -> Effect] /\ \A d \in D : f[d] = Inherits(all, own, f, d)
    <2> HIDE DEF G, D
    <2> QED
      BY <1>5, <1>8 DEF Solution
  <1> QED
    BY <1>9 DEF Carried

(* Effects that are partly known, the ids before n for certain.            *)
Halfway(all, own, F, n) ==
    {x \in [DOMAIN all -> Effect] : \A id \in DOMAIN all :
        x[id] \in {own[id], F[id]} /\ (id < n => x[id] = F[id])}

(* Looking at id n settles it.                                             *)
LEMMA MarkedHalfway ==
    ASSUME NEW all, Sane(all), Closed(all), NEW own, NEW F, Carried(all, own, F),
           NEW n \in Nat, NEW x \in Halfway(all, own, F, n)
    PROVE  Marked(all, x, n) \in Halfway(all, own, F, n + 1)
  <1> DEFINE D == DOMAIN all
             z == Marked(all, x, n)
  <1>1. D \subseteq Nat /\ \A d \in D : \A p \in all[d].parents : p \in D /\ p < d
    BY SaneIds DEF Closed
  <1>2. /\ x \in [D -> Effect] /\ F \in [D -> Effect]
        /\ \A d \in D : x[d] \in {own[d], F[d]} /\ (d < n => x[d] = F[d])
        /\ \A d \in D : F[d] = Inherits(all, own, F, d)
    BY DEF Halfway, Carried
  <1>3. CASE n \notin D
    <2>1. z = x
      BY <1>3 DEF Marked
    <2>2. \A d \in D : d < n + 1 => d < n
      BY <1>1, <1>3
    <2> QED
      BY <1>2, <2>1, <2>2 DEF Halfway
  <1>4. CASE n \in D
    <2> DEFINE I == Inherited(all, F, n)
               mark == [reason |-> "revoked_ancestor", controls |-> I]
    <2>1. Inherited(all, x, n) = I
      <3>1. \A p \in all[n].parents : x[p] = F[p]
        BY <1>1, <1>2, <1>4
      <3> QED
        BY <3>1, InheritedReads
    <2>2. F[n] = IF own[n].reason # "" \/ I = {} THEN own[n] ELSE mark
      BY <1>2, <1>4 DEF Inherits
    <2>3. z = IF x[n].reason = "" /\ I # {} THEN [x EXCEPT ![n] = mark] ELSE x
      BY <1>4, <2>1 DEF Marked
    <2> HIDE DEF I, z
    <2>4. x[n] = own[n] \/ x[n] = F[n]
      BY <1>2, <1>4
    <2>5. x[n].reason = "" /\ I # {} => F[n] = mark
      BY <2>2, <2>4
    <2>6. ~(x[n].reason = "" /\ I # {}) => x[n] = F[n]
      BY <2>2, <2>4
    <2>7. z \in [D -> Effect] /\ z[n] = F[n] /\ \A d \in D : d # n => z[d] = x[d]
      <3>1. CASE x[n].reason = "" /\ I # {}
        BY <1>2, <1>4, <2>3, <2>5, <3>1
      <3>2. CASE ~(x[n].reason = "" /\ I # {})
        BY <1>2, <2>3, <2>6, <3>2
      <3> QED
        BY <3>1, <3>2
    <2>8. \A d \in D : d < n + 1 /\ d # n => d < n
      BY <1>1
    <2>9. \A d \in D : z[d] \in {own[d], F[d]} /\ (d < n + 1 => z[d] = F[d])
      BY <1>2, <2>7, <2>8
    <2> QED
      BY <2>7, <2>9 DEF Halfway, z
  <1> QED
    BY <1>3, <1>4

(* The identity order over all ids.                                        *)
Counting(all, order) ==
    /\ Len(order) \in Nat /\ DOMAIN all \subseteq 1 .. Len(order)
    /\ \A n \in 1 .. Len(order) : order[n] = n

(* A single pass in the order of the ids comes to the end.                 *)
LEMMA OrderedPass ==
    ASSUME NEW all, Sane(all), Closed(all), NEW own, NEW F, Carried(all, own, F),
           NEW order, Counting(all, order), NEW x \in Halfway(all, own, F, 0)
    PROVE  AncestorPass(all, order, x) = F
  <1>0. PICK m \in Nat : m = Len(order)
    BY DEF Counting
  <1> DEFINE X == [DOMAIN all -> Effect]
             turn == [n \in 1 .. m |-> [y \in X |-> Marked(all, y, n)]]
             Eq(h) == h = [i \in 0 .. Len(order) |->
                             IF i = 0 THEN x ELSE Marked(all, h[i - 1], order[i])]
             at == CHOOSE h : Eq(h)
  <1>1. \A n \in 1 .. m : order[n] = n
    BY <1>0 DEF Counting
  <1>2. x \in X
    BY DEF Halfway
  <1>3. DOMAIN all \subseteq 1 .. m
    BY <1>0 DEF Counting
  <1>4. ASSUME NEW y \in X, NEW n \in 1 .. m PROVE Marked(all, y, n) \in X
    <2>1. ASSUME n \in DOMAIN all PROVE Inherited(all, y, n) \in SUBSET Nat
      <3>1. \A p \in all[n].parents : y[p].controls \subseteq Nat
        BY <2>1 DEF Effect, Closed
      <3> QED
        BY <3>1 DEF Inherited
    <2>2. n \in DOMAIN all =>
             [reason |-> "revoked_ancestor", controls |-> Inherited(all, y, n)] \in Effect
      BY <2>1 DEF Effect, EffectReasons
    <2> QED
      BY <2>2 DEF Marked
  <1>5. turn \in [1 .. m -> [X -> X]]
        /\ \A n \in 1 .. m : \A y \in X : turn[n][y] = Marked(all, y, n)
    <2> HIDE DEF X
    <2> QED
      BY <1>4
  <1> HIDE DEF X, turn
  <1>6. PICK f : Turns(m, X, x, turn, f)
    BY <1>2, <1>5, TurnsExist
  <1>7. Eq(f)
    <2>1. f \in [0 .. m -> X] /\ f[0] = x /\ \A n \in 1 .. m : f[n] = turn[n][f[n - 1]]
      BY <1>6 DEF Turns
    <2>2. \A n \in 1 .. m : n - 1 \in 0 .. m
      OBVIOUS
    <2>3. \A n \in 1 .. m : f[n] = Marked(all, f[n - 1], order[n])
      BY <1>1, <1>5, <2>1, <2>2
    <2>4. \A n \in 0 .. m : n # 0 => n \in 1 .. m
      OBVIOUS
    <2> QED
      BY <1>0, <2>1, <2>3, <2>4
  <1>8. Eq(at)
    <2> HIDE DEF Eq
    <2> QED
      BY <1>7
  <1>9. at = [n \in 0 .. m |-> at[n]] /\ at[0] = x
        /\ \A n \in 1 .. m : at[n] = Marked(all, at[n - 1], n)
    <2> HIDE DEF at
    <2> QED
      BY <1>0, <1>1, <1>8
  <1>10. AncestorPass(all, order, x) = at[m]
    BY <1>0 DEF AncestorPass
  <1> HIDE DEF at
  <1> DEFINE H == {n \in 0 .. m : at[n] \in Halfway(all, own, F, n + 1)}
  <1>11. 0 \in H
    <2>1. \A id \in DOMAIN all : ~(id < 0 + 1)
      BY <1>3
    <2>2. x \in Halfway(all, own, F, 0 + 1)
      BY <2>1 DEF Halfway
    <2> QED
      BY <1>9, <2>2
  <1>12. ASSUME NEW n \in 0 .. m - 1, n \in H PROVE n + 1 \in H
    <2>1. n + 1 \in 1 .. m /\ n + 1 \in Nat /\ (n + 1) - 1 = n
      OBVIOUS
    <2>2. at[n + 1] = Marked(all, at[n], n + 1)
      BY <1>9, <2>1
    <2>3. at[n] \in Halfway(all, own, F, n + 1)
      BY <1>12
    <2>4. at[n + 1] \in Halfway(all, own, F, (n + 1) + 1)
      BY <2>1, <2>2, <2>3, MarkedHalfway
    <2> QED
      BY <2>1, <2>4
  <1>13. m \in H
    <2> HIDE DEF H
    <2>1. 0 .. m \subseteq H
      BY <1>11, <1>12, Upward
    <2> QED
      BY <2>1
  <1>14. at[m] \in [DOMAIN all -> Effect] /\ \A id \in DOMAIN all : at[m][id] = F[id]
    <2>1. \A id \in DOMAIN all : id < m + 1
      BY <1>3
    <2> QED
      BY <1>13, <2>1 DEF Halfway
  <1>15. F \in [DOMAIN all -> Effect]
    BY DEF Carried
  <1> QED
    BY <1>10, <1>14, <1>15

(* So the effects are what is carried down.                                *)
LEMMA EffectsCarried ==
    ASSUME NEW all, Sane(all), Closed(all), NEW own, OwnEffects(all, own),
           NEW effective, Provoked(all, own, effective),
           NEW order, Counting(all, order), NEW F, Carried(all, own, F)
    PROVE  Effects(all, own, effective, order) = F
  <1>0. PICK k \in Nat : k = Cardinality(DOMAIN all)
    BY SaneIds, FS_CardinalityType
  <1> DEFINE D == DOMAIN all
             X == {own, F}
             pass == [x \in X |-> F]
             turn == [n \in 1 .. k |-> pass]
             Eq(h) == h = [n \in 0 .. Cardinality(DOMAIN all) |->
                             IF n = 0 THEN own ELSE AncestorPass(all, order, h[n - 1])]
             at == CHOOSE h : Eq(h)
  <1>1. D \in SUBSET Nat /\ IsFiniteSet(D)
    BY SaneIds
  <1>2. /\ own \in [D -> Effect] /\ F \in [D -> Effect]
        /\ \A d \in D : F[d] = Inherits(all, own, F, d)
    BY DEF OwnEffects, Carried
  <1>3. \A x \in X : AncestorPass(all, order, x) = F
    <2>1. \A d \in D : ~(d < 0)
      BY <1>1
    <2>2. \A x \in X : x \in Halfway(all, own, F, 0)
      BY <1>2, <2>1 DEF Halfway
    <2> QED
      BY <2>2, OrderedPass
  <1>4. CASE effective = {} \/ k = 0
    <2> DEFINE H == {d \in D : F[d] = own[d]}
    <2>1. CASE k = 0
      <3>1. D = {}
        BY <1>0, <1>1, <2>1, FS_EmptySet
      <3>2. own = F
        BY <1>2, <3>1
      <3>3. CASE effective = {}
        BY <3>2, <3>3 DEF Effects
      <3>4. CASE effective # {}
        <4>1. at = [n \in 0 .. 0 |-> own]
          <5> DEFINE c == [n \in 0 .. 0 |-> own]
          <5>1. Eq(c)
            BY <1>0, <2>1
          <5>2. Eq(at)
            <6> HIDE DEF Eq
            <6> QED
              BY <5>1
          <5>3. at = [n \in 0 .. 0 |-> IF n = 0 THEN own ELSE AncestorPass(all, order, at[n - 1])]
            <6> HIDE DEF at
            <6> QED
              BY <1>0, <2>1, <5>2
          <5> HIDE DEF at
          <5> QED
            BY <5>3
        <4>2. Effects(all, own, effective, order) = at[k]
          BY <1>0, <3>4 DEF Effects
        <4> HIDE DEF at
        <4> QED
          BY <2>1, <3>2, <4>1, <4>2
      <3> QED
        BY <3>3, <3>4
    <2>2. CASE effective = {}
      <3>1. \A d \in D : own[d].reason = ""
        BY <2>2 DEF Provoked
      <3>2. ASSUME NEW d \in D, \A c \in D : c < d => c \in H PROVE d \in H
        <4>1. \A p \in all[d].parents : p \in D /\ p < d
          BY SaneIds DEF Closed
        <4>2. \A p \in all[d].parents : F[p].reason = ""
          BY <3>1, <3>2, <4>1
        <4>3. Inherited(all, F, d) = {}
          BY <4>2 DEF Inherited
        <4> QED
          BY <1>2, <4>3 DEF Inherits
      <3>3. D \subseteq H
        <4> HIDE DEF D, H
        <4> QED
          BY <1>1, <3>2, FromBelow
      <3>4. own = F
        BY <1>2, <3>3
      <3> QED
        BY <2>2, <3>4 DEF Effects
    <2> QED
      BY <1>4, <2>1, <2>2
  <1>5. CASE effective # {} /\ k # 0
    <2>1. pass \in [X -> X] /\ \A x \in X : pass[x] = AncestorPass(all, order, x) /\ pass[x] = F
      BY <1>3
    <2> HIDE DEF X, pass
    <2>2. turn \in [1 .. k -> [X -> X]] /\ \A n \in 1 .. k : turn[n] = pass
      BY <2>1
    <2>3. own \in X
      BY DEF X
    <2> HIDE DEF turn
    <2>4. PICK f : Turns(k, X, own, turn, f)
      BY <2>2, <2>3, TurnsExist
    <2>5. f \in [0 .. k -> X] /\ f[0] = own /\ \A n \in 1 .. k : f[n] = turn[n][f[n - 1]]
      BY <2>4 DEF Turns
    <2>6. Eq(f)
      <3>1. \A n \in 1 .. k : n - 1 \in 0 .. k
        OBVIOUS
      <3>2. \A n \in 1 .. k : f[n] = AncestorPass(all, order, f[n - 1])
        BY <2>1, <2>2, <2>5, <3>1
      <3>3. \A n \in 0 .. k : n # 0 => n \in 1 .. k
        OBVIOUS
      <3> QED
        BY <1>0, <2>5, <3>2, <3>3
    <2>7. Eq(at)
      <3> HIDE DEF Eq
      <3> QED
        BY <2>6
    <2>8. Effects(all, own, effective, order) = at[k]
      BY <1>0, <1>5 DEF Effects
    <2> HIDE DEF at
    <2>9. at = [n \in 0 .. k |-> at[n]] /\ at[0] = own
          /\ \A n \in 1 .. k : at[n] = AncestorPass(all, order, at[n - 1])
      BY <1>0, <2>7
    <2>10. Turns(k, X, own, turn, at)
      <3>1. \A n \in 1 .. k : at[n - 1] \in X => at[n] = turn[n][at[n - 1]]
        BY <2>1, <2>2, <2>9
      <3> QED
        BY <2>2, <2>3, <2>9, <3>1, TurnsIs
    <2>11. k \in 1 .. k /\ k - 1 \in 0 .. k
      BY <1>5
    <2>12. at[k - 1] \in X /\ at[k] = turn[k][at[k - 1]]
      BY <2>10, <2>11 DEF Turns
    <2> QED
      BY <2>1, <2>2, <2>8, <2>11, <2>12
  <1> QED
    BY <1>4, <1>5

(* An act whose grants are agreed on has the same effect of its own.       *)
LEMMA OwnAlike ==
    ASSUME NEW a, NEW b, Later(a, b), NEW effA, NEW effB,
           effA \subseteq RevokesOf(a), effB \subseteq RevokesOf(b), NEW id \in DOMAIN a,
           Signer(a, id) \in GrantsOf(a), Agree(a, b, effA, effB, Signer(a, id)),
           id \in GrantsOf(a) => Agree(a, b, effA, effB, id)
    PROVE  OwnOf(b, Lineages(b), Cones(b), effB)[id] = OwnOf(a, Lineages(a), Cones(a), effA)[id]
  <1> DEFINE g == Signer(a, id)
             la == Lineages(a)
             lb == Lineages(b)
             ca == Cones(a)
             cb == Cones(b)
             cutA == {r \in effA : Covers(a, la, r, g) /\ Outside(a, ca, id, r)}
             cutB == {r \in effB : Covers(b, lb, r, g) /\ Outside(b, cb, id, r)}
             offA(h) == Cancellers(a, la, ca, effA, h)
             offB(h) == Cancellers(b, lb, cb, effB, h)
             none == [reason |-> "", controls |-> {}]
  <1>1. /\ GrantsOf(a) = GrantsOf(b) \cap DOMAIN a
        /\ Relinquishments(a) = Relinquishments(b) \cap DOMAIN a
        /\ Signer(b, id) = g /\ id \in DOMAIN b
    BY LaterKeeps DEF Later, Extends
  <1>2. cutA = cutB /\ offA(g) = offB(g)
    BY AgreeReads
  <1>3. id \in GrantsOf(a) => offA(id) = offB(id)
    BY AgreeReads
  <1>4. OwnEffect(a, la, ca, effA, id) =
          IF id \in Relinquishments(a) THEN [reason |-> "root_relinquished", controls |-> {id}]
          ELSE IF cutA # {} THEN [reason |-> "revoked_concurrent", controls |-> cutA]
          ELSE IF id \in GrantsOf(a) /\ offA(id) # {}
          THEN [reason |-> "canceled_grant", controls |-> offA(id)]
          ELSE IF offA(g) # {} THEN [reason |-> "canceled_authority", controls |-> offA(g)]
          ELSE none
    BY DEF OwnEffect
  <1>5. OwnEffect(b, lb, cb, effB, id) =
          IF id \in Relinquishments(b) THEN [reason |-> "root_relinquished", controls |-> {id}]
          ELSE IF cutB # {} THEN [reason |-> "revoked_concurrent", controls |-> cutB]
          ELSE IF id \in GrantsOf(b) /\ offB(id) # {}
          THEN [reason |-> "canceled_grant", controls |-> offB(id)]
          ELSE IF offB(g) # {} THEN [reason |-> "canceled_authority", controls |-> offB(g)]
          ELSE none
    BY <1>1 DEF OwnEffect
  <1>6. (id \in Relinquishments(a) <=> id \in Relinquishments(b))
        /\ (id \in GrantsOf(a) <=> id \in GrantsOf(b))
    BY <1>1
  <1>7. OwnEffect(b, lb, cb, effB, id) = OwnEffect(a, la, ca, effA, id)
    <2> HIDE DEF cutA, cutB, offA, offB, la, lb, ca, cb, none, g
    <2> QED
      BY <1>2, <1>3, <1>4, <1>5, <1>6
  <1> QED
    BY <1>1, <1>7 DEF OwnOf

(* Events signed by valid authority, and what of their revokes counts.     *)
Judicious(all, effective) ==
    /\ Whole(all) /\ Domestic(all) /\ Ruled(all, effective)
    /\ Relinquishments(all) \subseteq effective

(* As long as no new revoke of a subject counts, its grants, revokes and   *)
(* acts stand as they did, whatever happens to other subjects.             *)
Undisturbed(a, b, effA, effB, s) ==
    /\ Later(a, b) /\ Judicious(a, effA) /\ Judicious(b, effB)
    /\ \A n \in effB \ DOMAIN a : SubjectOf(b, n) # s

(* In an undisturbed subject every old act keeps its effect.               *)
LEMMA SubjectStays ==
    ASSUME NEW a, NEW b, NEW effA, NEW effB, NEW s, Undisturbed(a, b, effA, effB, s)
    PROVE  /\ \A g \in GrantsOf(a) : SubjectOf(a, g) = s => Agree(a, b, effA, effB, g)
           /\ \A id \in DOMAIN a : SubjectOf(a, id) = s =>
                 /\ id \in effA <=> id \in effB
                 /\ OwnOf(b, Lineages(b), Cones(b), effB)[id]
                    = OwnOf(a, Lineages(a), Cones(a), effA)[id]
  <1>1. /\ Later(a, b) /\ Whole(a) /\ Whole(b) /\ Domestic(a) /\ Domestic(b)
        /\ Ruled(a, effA) /\ Ruled(b, effB) /\ Sane(a) /\ Ordained(a)
        /\ effA \subseteq RevokesOf(a) /\ effB \subseteq RevokesOf(b)
    BY DEF Undisturbed, Judicious, Ruled, Whole
  <1>2. /\ GrantsOf(a) = GrantsOf(b) \cap DOMAIN a /\ RevokesOf(a) = RevokesOf(b) \cap DOMAIN a
        /\ \A id \in DOMAIN a : b[id] = a[id]
    BY <1>1, LaterKeeps
  <1>3. \A id \in DOMAIN a : SubjectOf(b, id) = SubjectOf(a, id)
    BY <1>2 DEF SubjectOf
  <1>4. ASSUME NEW g \in GrantsOf(a), SubjectOf(a, g) = s PROVE Agree(a, b, effA, effB, g)
    <2> SUFFICES ASSUME ~Agree(a, b, effA, effB, g) PROVE FALSE
      OBVIOUS
    <2>1. PICK n \in effB \ DOMAIN a : b[n].target \in Lineages(a)[g]
      BY <1>1, Cause
    <2>2. b[n].target \in DOMAIN a
      BY <1>1, <2>1, LinesNest DEF GrantsOf
    <2>3. SubjectOf(b, b[n].target) = s
      BY <1>1, <1>3, <1>4, <2>1, <2>2, LinesDomestic
    <2>4. n \in DOMAIN b /\ b[n].kind = "revoke"
      BY <1>1, <2>1 DEF RevokesOf
    <2>5. SubjectOf(b, n) = s
      BY <1>1, <2>3, <2>4 DEF Domestic
    <2> QED
      BY <2>1, <2>5 DEF Undisturbed
  <1>5. ASSUME NEW id \in DOMAIN a, SubjectOf(a, id) = s, id \in effA \/ id \in effB
        PROVE  id \in effA /\ id \in effB
    <2> DEFINE t == a[id].target
    <2>1. id \in RevokesOf(a) /\ b[id] = a[id]
      BY <1>1, <1>2, <1>5
    <2>2. t \in GrantsOf(a) /\ t \in Lineages(a)[t]
      BY <1>1, <2>1, LinesNest DEF Ordained
    <2>3. SubjectOf(a, t) = s
      BY <1>1, <1>5, <2>1 DEF Domestic, RevokesOf
    <2>4. Agree(a, b, effA, effB, t)
      BY <1>4, <2>2, <2>3
    <2> QED
      BY <1>5, <2>1, <2>2, <2>4 DEF Agree
  <1>6. ASSUME NEW id \in DOMAIN a, SubjectOf(a, id) = s
        PROVE  OwnOf(b, Lineages(b), Cones(b), effB)[id]
               = OwnOf(a, Lineages(a), Cones(a), effA)[id]
    <2>1. Signer(a, id) \in GrantsOf(a) /\ SubjectOf(a, Signer(a, id)) = s
      BY <1>1, <1>6 DEF Domestic
    <2>2. Agree(a, b, effA, effB, Signer(a, id))
      BY <1>4, <2>1
    <2>3. id \in GrantsOf(a) => Agree(a, b, effA, effB, id)
      BY <1>4, <1>6
    <2> QED
      BY <1>1, <2>1, <2>2, <2>3, OwnAlike
  <1> QED
    BY <1>4, <1>5, <1>6

(* Two functions are the same on the events of subject s.                  *)
SameOn(all, s, f, g) == \A id \in DOMAIN all : SubjectOf(all, id) = s => g[id] = f[id]

(* Then they inherit what they did.                                        *)
LEMMA CarriedStays ==
    ASSUME NEW a, NEW b, NEW s, Later(a, b), Domestic(a), NEW ownA, NEW ownB,
           NEW F, NEW G, Carried(a, ownA, F), Carried(b, ownB, G),
           SameOn(a, s, ownA, ownB)
    PROVE  SameOn(a, s, F, G)
  <1> DEFINE D == {id \in DOMAIN a : SubjectOf(a, id) = s}
             H == {id \in D : G[id] = F[id]}
  <1>1. Sane(a) /\ Closed(a) /\ DOMAIN a \subseteq DOMAIN b /\ \A id \in DOMAIN a : b[id] = a[id]
    BY DEF Later, Whole, Extends
  <1>2. D \in SUBSET Nat
    BY <1>1, SaneIds
  <1>3. ASSUME NEW id \in D, \A c \in D : c < id => c \in H PROVE id \in H
    <2>1. \A p \in a[id].parents : p \in D /\ p < id
      BY <1>1, SaneIds DEF Closed, Domestic
    <2>2. \A p \in a[id].parents : G[p] = F[p]
      BY <1>3, <2>1
    <2>3. Inherited(b, G, id) = Inherited(a, F, id)
      BY <1>1, <2>2, InheritedReads
    <2>4. G[id] = Inherits(b, ownB, G, id) /\ F[id] = Inherits(a, ownA, F, id)
      BY <1>1 DEF Carried
    <2>5. ownB[id] = ownA[id]
      BY DEF SameOn
    <2> QED
      BY <2>3, <2>4, <2>5 DEF Inherits
  <1>4. D \subseteq H
    <2> HIDE DEF D, H
    <2> QED
      BY <1>2, <1>3, FromBelow
  <1> QED
    BY <1>4 DEF SameOn

(* Two derivations conclude the same for the events of subject s.          *)
SameStanding(all, s, v, w) ==
    /\ \A id \in DOMAIN all : SubjectOf(all, id) = s =>
          w.effects[id] = v.effects[id] /\ (id \in w.effective <=> id \in v.effective)
    /\ \A g \in GrantsOf(all) : SubjectOf(all, g) = s => (g \in w.active <=> g \in v.active)

(* What derive concludes, the effects looked at in the order of the ids.   *)
Concludes(all, effective, order, v) ==
    /\ Counting(all, order)
    /\ v = Standing(all, Lineages(all), Cones(all), effective, order)

(* What derive concludes for them, and where their frontier runs.          *)
LEMMA StandingStays ==
    ASSUME NEW a, NEW b, NEW effA, NEW effB, NEW s, Undisturbed(a, b, effA, effB, s),
           NEW o, NEW q, NEW v, NEW w, Concludes(a, effA, o, v), Concludes(b, effB, q, w)
    PROVE  SameStanding(a, s, v, w)
  <1> DEFINE ownA == OwnOf(a, Lineages(a), Cones(a), effA)
             ownB == OwnOf(b, Lineages(b), Cones(b), effB)
  <1>1. /\ Later(a, b) /\ Domestic(a) /\ Sane(a) /\ Sane(b) /\ Closed(a) /\ Closed(b)
        /\ effA \subseteq RevokesOf(a) /\ effB \subseteq RevokesOf(b)
        /\ Relinquishments(a) \subseteq effA /\ Relinquishments(b) \subseteq effB
    BY DEF Undisturbed, Judicious, Ruled, Whole
  <1>2. /\ OwnEffects(a, ownA) /\ Provoked(a, ownA, effA)
        /\ OwnEffects(b, ownB) /\ Provoked(b, ownB, effB)
    BY <1>1, OwnOfFacts
  <1>3. v.effects = Effects(a, ownA, effA, o) /\ w.effects = Effects(b, ownB, effB, q)
        /\ v.effective = effA /\ w.effective = effB
        /\ Counting(a, o) /\ Counting(b, q)
    BY DEF Concludes, Standing, OwnOf
  <1>4. /\ v.active = GrantsOf(a) \ ({g \in GrantsOf(a) :
                         Cancellers(a, Lineages(a), Cones(a), effA, g) # {}}
                         \cup {g \in GrantsOf(a) : \E r \in effA : Covers(a, Lineages(a), r, g)})
        /\ w.active = GrantsOf(b) \ ({g \in GrantsOf(b) :
                         Cancellers(b, Lineages(b), Cones(b), effB, g) # {}}
                         \cup {g \in GrantsOf(b) : \E r \in effB : Covers(b, Lineages(b), r, g)})
    BY DEF Concludes, Standing
  <1> HIDE DEF ownA, ownB
  <1>5. /\ \A g \in GrantsOf(a) : SubjectOf(a, g) = s => Agree(a, b, effA, effB, g)
        /\ \A id \in DOMAIN a : SubjectOf(a, id) = s =>
              (id \in effA <=> id \in effB) /\ ownB[id] = ownA[id]
    BY SubjectStays DEF ownA, ownB
  <1>6. PICK F : Carried(a, ownA, F)
    BY <1>1, <1>2, CarriedExists
  <1>7. PICK G : Carried(b, ownB, G)
    BY <1>1, <1>2, CarriedExists
  <1>8. \A id \in DOMAIN a : SubjectOf(a, id) = s => G[id] = F[id]
    <2>1. SameOn(a, s, ownA, ownB)
      BY <1>5 DEF SameOn
    <2>2. SameOn(a, s, F, G)
      BY <1>1, <1>6, <1>7, <2>1, CarriedStays
    <2> QED
      BY <2>2 DEF SameOn
  <1>9. v.effects = F /\ w.effects = G
    BY <1>1, <1>2, <1>3, <1>6, <1>7, EffectsCarried
  <1>10. ASSUME NEW g \in GrantsOf(a), SubjectOf(a, g) = s
         PROVE  g \in w.active <=> g \in v.active
    <2>1. /\ {r \in effA : Covers(a, Lineages(a), r, g)} = {r \in effB : Covers(b, Lineages(b), r, g)}
          /\ Cancellers(a, Lineages(a), Cones(a), effA, g)
             = Cancellers(b, Lineages(b), Cones(b), effB, g)
      BY <1>1, <1>5, <1>10, AgreeReads
    <2>2. g \in GrantsOf(b)
      BY <1>1, LaterKeeps
    <2>3. (\E r \in effA : Covers(a, Lineages(a), r, g)) <=> (\E r \in effB : Covers(b, Lineages(b), r, g))
      BY <2>1
    <2> QED
      BY <1>4, <2>1, <2>2, <2>3
  <1> QED
    BY <1>3, <1>5, <1>8, <1>9, <1>10 DEF SameStanding

(* Nothing that is new to the subject has an effect.                       *)
Mute(a, b, s, w) ==
    \A n \in DOMAIN b \ DOMAIN a : SubjectOf(b, n) = s => w.effects[n].reason # ""

SameFrontier(a, b, s, v, w) == Frontier(b, Cones(b), w, s) = Frontier(a, Cones(a), v, s)

(* An undisturbed subject that gains nothing eligible keeps its frontier.  *)
LEMMA FrontierStays ==
    ASSUME NEW a, NEW b, NEW effA, NEW effB, NEW s, Undisturbed(a, b, effA, effB, s),
           NEW o, NEW q, NEW v, NEW w, Concludes(a, effA, o, v), Concludes(b, effB, q, w),
           Mute(a, b, s, w)
    PROVE  SameFrontier(a, b, s, v, w)
  <1> DEFINE idsA == {id \in DOMAIN a : SubjectOf(a, id) = s}
             idsB == {id \in DOMAIN b : SubjectOf(b, id) = s}
             fineA == {id \in idsA : v.effects[id].reason = ""}
             fineB == {id \in idsB : w.effects[id].reason = ""}
             useA == fineA \cup (v.effective \cap idsA)
             useB == fineB \cup (w.effective \cap idsB)
  <1>1. Later(a, b) /\ DOMAIN a \subseteq DOMAIN b /\ \A id \in DOMAIN a : b[id] = a[id]
    BY DEF Undisturbed, Later, Extends
  <1>2. \A id \in DOMAIN a : SubjectOf(b, id) = SubjectOf(a, id) /\ Cones(b)[id] = Cones(a)[id]
    BY <1>1, LaterKeeps DEF SubjectOf
  <1>3. \A id \in idsA : /\ w.effects[id] = v.effects[id]
                         /\ id \in w.effective <=> id \in v.effective
    <2>1. SameStanding(a, s, v, w)
      BY StandingStays
    <2> QED
      BY <2>1 DEF SameStanding
  <1>4. w.effective = effB
    BY DEF Concludes, Standing
  <1>5. \A n \in idsB \ idsA : n \notin DOMAIN a
    BY <1>2
  <1>6. \A n \in idsB \ idsA : n \notin w.effective /\ n \notin fineB
    BY <1>4, <1>5 DEF Undisturbed, Mute
  <1>7. idsA \subseteq idsB
    BY <1>1, <1>2
  <1>8. fineA = fineB
    BY <1>3, <1>6, <1>7
  <1>9. useA = useB /\ useA \subseteq idsA
    BY <1>3, <1>6, <1>7, <1>8
  <1>10. \A id \in useA : Cones(b)[id] = Cones(a)[id]
    BY <1>2, <1>9
  <1>11. UNION {Cones(b)[id] \ {id} : id \in useB} = UNION {Cones(a)[id] \ {id} : id \in useA}
    <2> HIDE DEF useA, useB
    <2> QED
      BY <1>9, <1>10
  <1> QED
    BY <1>8, <1>11 DEF Frontier, SameFrontier

(* The view, as what derive and project conclude from the valid envelopes. *)
InForce ==
    /\ Judicious(Envelopes, view.authority.effective)
    /\ Counting(Envelopes, InOrder(events))
    /\ view.authority = Standing(Envelopes, Lineages(Envelopes), Cones(Envelopes),
                                 view.authority.effective, InOrder(events))
    /\ view.frontier = [s \in {id \in ValidIds : Envelopes[id].kind = "genesis"} |->
                          Frontier(Envelopes, Cones(Envelopes), view.authority, s)]
    /\ DOMAIN Envelopes = ValidIds

(* The invariant says so of every view.                                    *)
LEMMA ViewStands == LedgerInv => InForce
  <1> SUFFICES ASSUME LedgerInv PROVE InForce
    OBVIOUS
  <1> DEFINE E == Envelopes
  <1>1. /\ Whole(E) /\ DOMAIN E = ValidIds /\ \A id \in ValidIds : E[id] = events[id]
        /\ Ruled(E, view.authority.effective) /\ view.cones = Cones(E)
        /\ view.authority = Standing(E, Lineages(E), Cones(E),
                                     view.authority.effective, InOrder(events))
        /\ Relinquishments(E) \subseteq view.authority.effective
        /\ DOMAIN view.status = retained
    BY ViewRuled DEF ViewIsRuled
  <1>2. view.frontier = [s \in {id \in ValidIds : events[id].kind = "genesis"} |->
                            Frontier(E, view.cones, view.authority, s)]
        /\ E = Sub(Retained, ValidIds) /\ Upright(Retained, ValidIds)
    BY ViewReadings
  <1>3. /\ Sane(Retained) /\ Solves(Retained, InOrder(events), Judged)
        /\ ValidIds = ValidIn(Judged)
    BY ViewStatuses
  <1> HIDE DEF E
  <1>4. Domestic(E)
    BY <1>2, <1>3, ValidDomestic
  <1>5. Counting(E, InOrder(events))
    <2>1. PICK n \in Nat : n = Len(events) /\ DOMAIN events = 1 .. n
      BY RecordedSane DEF LedgerInv
    <2>2. InOrder(events) = [i \in 1 .. n |-> i]
      BY <2>1 DEF InOrder
    <2>3. Len(InOrder(events)) = n
      <3>1. [i \in 1 .. n |-> i] \in Seq(Nat)
        OBVIOUS
      <3> QED
        BY <2>2
    <2>4. ValidIds \subseteq 1 .. n
      BY <1>1, <2>1 DEF LedgerInv, Ids, ValidIds, ValidIn
    <2> QED
      BY <1>1, <2>2, <2>3, <2>4 DEF Counting
  <1>6. {id \in ValidIds : events[id].kind = "genesis"} = {id \in ValidIds : E[id].kind = "genesis"}
    BY <1>1
  <1>7. Judicious(E, view.authority.effective)
    BY <1>1, <1>4 DEF Judicious
  <1> QED
    BY <1>1, <1>2, <1>5, <1>6, <1>7 DEF InForce, E

(* A step takes the view from one such standing to a later one.            *)
LEMMA StepStands ==
    ASSUME LedgerInv, [Next]_vars
    PROVE  /\ LedgerInv' /\ InForce /\ InForce' /\ Lasting
           /\ Later(Envelopes, Envelopes')
           /\ DOMAIN Envelopes = ValidIds /\ DOMAIN Envelopes' = ValidIds'
  <1>1. LedgerInv' /\ Lasting
    BY ViewsLater
  <1>2. InForce
    BY ViewStands
  <1>3. LedgerInv' => InForce'
    BY ViewStands, PTL
  <1> QED
    BY <1>1, <1>2, <1>3 DEF InForce, Lasting

(* authority::derive: the standing of a grant changes by what is done by   *)
(* those above it.                                                         *)
LEMMA AuthorityFlows ==
    ASSUME LedgerInv, [Next]_vars, NEW g \in view.authority.grants,
           (g \in view.authority.active) # (g \in view'.authority.active)
    PROVE  \E r \in Newly \cap view'.authority.effective :
              LET s == Signer(events', r) IN
              /\ s \in Lineages(Envelopes')[g]
              /\ s = g => r \in Relinquishments(Envelopes')
  <1> DEFINE a == Envelopes
             b == Envelopes'
             effA == view.authority.effective
             effB == view'.authority.effective
             v == view.authority
             w == view'.authority
  <1>1. /\ Later(a, b) /\ Judicious(a, effA) /\ Judicious(b, effB)
        /\ v = Standing(a, Lineages(a), Cones(a), effA, InOrder(events))
        /\ w = Standing(b, Lineages(b), Cones(b), effB, InOrder(events'))
        /\ DOMAIN a = ValidIds /\ DOMAIN b = ValidIds' /\ Newly = ValidIds' \ ValidIds
        /\ \A id \in ValidIds' : events'[id] = b[id]
    BY StepStands DEF InForce, Lasting
  <1>2. Ruled(a, effA) /\ Ruled(b, effB) /\ effA \subseteq RevokesOf(a) /\ effB \subseteq RevokesOf(b)
    BY <1>1 DEF Judicious, Ruled
  <1>3. /\ v.grants = GrantsOf(a)
        /\ v.active = GrantsOf(a) \ ({h \in GrantsOf(a) :
                         Cancellers(a, Lineages(a), Cones(a), effA, h) # {}}
                         \cup {h \in GrantsOf(a) : \E r \in effA : Covers(a, Lineages(a), r, h)})
        /\ w.active = GrantsOf(b) \ ({h \in GrantsOf(b) :
                         Cancellers(b, Lineages(b), Cones(b), effB, h) # {}}
                         \cup {h \in GrantsOf(b) : \E r \in effB : Covers(b, Lineages(b), r, h)})
    <2> HIDE DEF a, b, effA, effB
    <2> QED
      BY <1>1 DEF Standing
  <1> HIDE DEF a, b, effA, effB
  <1>4. g \in GrantsOf(a) /\ g \in GrantsOf(b) /\ Lineages(b)[g] = Lineages(a)[g]
    BY <1>1, <1>3, LaterKeeps
  <1>5. ~Agree(a, b, effA, effB, g)
    <2> SUFFICES ASSUME Agree(a, b, effA, effB, g) PROVE FALSE
      OBVIOUS
    <2>1. /\ {r \in effA : Covers(a, Lineages(a), r, g)} = {r \in effB : Covers(b, Lineages(b), r, g)}
          /\ Cancellers(a, Lineages(a), Cones(a), effA, g)
             = Cancellers(b, Lineages(b), Cones(b), effB, g)
      BY <1>1, <1>2, <1>4, AgreeReads
    <2>2. (\E r \in effA : Covers(a, Lineages(a), r, g)) <=> (\E r \in effB : Covers(b, Lineages(b), r, g))
      BY <2>1
    <2> QED
      BY <1>3, <1>4, <2>1, <2>2
  <1>6. PICK n \in effB \ DOMAIN a :
              /\ b[n].target \in Lineages(a)[g] /\ Signer(b, n) \in Lineages(a)[g]
              /\ Signer(b, n) = g => n \in Relinquishments(b)
    BY <1>1, <1>2, <1>4, <1>5, Cause
  <1>7. n \in DOMAIN b /\ n \in Newly
    BY <1>1, <1>2, <1>6 DEF RevokesOf
  <1>8. Signer(events', n) = Signer(b, n)
    BY <1>1, <1>7 DEF Signer
  <1> QED
    BY <1>4, <1>6, <1>7, <1>8 DEF b, effB

(* authority::derive: an act learnt of a signer that a revoke, still       *)
(* effective, retires is without effect.                                   *)
LEMMA RetiredAreSilent ==
    ASSUME LedgerInv, [Next]_vars, NEW n \in Newly,
           NEW r \in view.authority.effective \cap view'.authority.effective,
           Covers(Envelopes', Lineages(Envelopes'), r, Signer(events', n))
    PROVE  view'.authority.effects[n].reason # ""
  <1> DEFINE a == Envelopes
             b == Envelopes'
             effA == view.authority.effective
             effB == view'.authority.effective
             own == OwnOf(b, Lineages(b), Cones(b), effB)
             w == view'.authority
  <1>1. /\ Later(a, b) /\ Judicious(a, effA) /\ Judicious(b, effB)
        /\ w = Standing(b, Lineages(b), Cones(b), effB, InOrder(events'))
        /\ Counting(b, InOrder(events'))
        /\ DOMAIN a = ValidIds /\ DOMAIN b = ValidIds' /\ Newly = ValidIds' \ ValidIds
        /\ \A id \in ValidIds' : events'[id] = b[id]
    BY StepStands DEF InForce, Lasting
  <1>2. effA \subseteq RevokesOf(a) /\ effB \subseteq RevokesOf(b) /\ Sane(b) /\ Closed(b)
        /\ Relinquishments(b) \subseteq effB
    BY <1>1 DEF Judicious, Ruled, Whole
  <1>3. r \in effA /\ r \in effB /\ n \in DOMAIN b /\ n \notin DOMAIN a
    BY <1>1
  <1>4. Covers(b, Lineages(b), r, Signer(b, n))
    <2>1. Signer(events', n) = Signer(b, n)
      BY <1>1, <1>3 DEF Signer
    <2> QED
      BY <2>1
  <1> HIDE DEF a, b, effA, effB, w, own
  <1>5. Cones(b)[ParentOf(b[r])] \subseteq DOMAIN a
    BY <1>1, <1>2, <1>3, CutsStay
  <1>6. Outside(b, Cones(b), n, r)
    BY <1>3, <1>5 DEF Outside
  <1>7. own[n].reason # ""
    <2>1. own[n] = OwnEffect(b, Lineages(b), Cones(b), effB, n)
      BY <1>3 DEF own, OwnOf
    <2>2. r \in {q \in effB : Covers(b, Lineages(b), q, Signer(b, n)) /\ Outside(b, Cones(b), n, q)}
      BY <1>3, <1>4, <1>6
    <2> QED
      BY <2>1, <2>2, OwnReasons
  <1>8. OwnEffects(b, own) /\ Provoked(b, own, effB)
    BY <1>2, OwnOfFacts DEF own
  <1>9. w.effects = Effects(b, own, effB, InOrder(events'))
    BY <1>1 DEF Standing, own, OwnOf
  <1>10. PICK F : Carried(b, own, F)
    BY <1>2, <1>8, CarriedExists
  <1>11. w.effects = F
    BY <1>1, <1>2, <1>8, <1>9, <1>10, EffectsCarried
  <1>12. F[n] = own[n]
    BY <1>3, <1>7, <1>10 DEF Carried, Inherits
  <1> QED
    BY <1>7, <1>11, <1>12 DEF w

(* project: what is suppressed, and no revoke that counts, changes nothing.*)
LEMMA SuppressedAreInert ==
    ASSUME LedgerInv, [Next]_vars,
           \A n \in Newly : /\ view'.authority.effects[n].reason \notin {"", "root_relinquished"}
                            /\ n \notin view'.authority.effective
    PROVE  /\ \A s \in DOMAIN view.frontier : view'.frontier[s] = view.frontier[s]
           /\ view'.authority.active \cap view.authority.grants = view.authority.active
           /\ \A id \in ValidIds : view'.authority.effects[id] = view.authority.effects[id]
  <1> DEFINE a == Envelopes
             b == Envelopes'
             effA == view.authority.effective
             effB == view'.authority.effective
             v == view.authority
             w == view'.authority
             o == InOrder(events)
             q == InOrder(events')
  <1>1. /\ Later(a, b) /\ Judicious(a, effA) /\ Judicious(b, effB)
        /\ Counting(a, o) /\ Counting(b, q)
        /\ v = Standing(a, Lineages(a), Cones(a), effA, o)
        /\ w = Standing(b, Lineages(b), Cones(b), effB, q)
        /\ DOMAIN a = ValidIds /\ DOMAIN b = ValidIds' /\ Newly = ValidIds' \ ValidIds
    BY StepStands DEF InForce, Lasting
  <1>2. /\ view.frontier = [s \in {id \in ValidIds : a[id].kind = "genesis"} |->
                              Frontier(a, Cones(a), v, s)]
        /\ view'.frontier = [s \in {id \in ValidIds' : b[id].kind = "genesis"} |->
                              Frontier(b, Cones(b), w, s)]
    BY StepStands DEF InForce
  <1>3. DOMAIN a \subseteq DOMAIN b /\ \A id \in DOMAIN a : b[id] = a[id]
    BY <1>1 DEF Later, Extends
  <1>4. \A n \in DOMAIN b \ DOMAIN a : w.effects[n].reason # "" /\ n \notin effB
    BY <1>1
  <1>40. effB \subseteq DOMAIN b
    BY <1>1 DEF Judicious, Ruled, RevokesOf
  <1>5. v.grants = GrantsOf(a) /\ v.active \subseteq GrantsOf(a)
    <2> HIDE DEF a, effA, o, v
    <2>1. v = Standing(a, Lineages(a), Cones(a), effA, o)
      BY <1>1
    <2> QED
      BY <2>1 DEF Standing
  <1> HIDE DEF a, b, effA, effB, v, w, o, q
  <1>6. \A s : Undisturbed(a, b, effA, effB, s)
    BY <1>1, <1>4, <1>40 DEF Undisturbed
  <1>60. Concludes(a, effA, o, v) /\ Concludes(b, effB, q, w)
    BY <1>1 DEF Concludes
  <1>7. \A s : SameStanding(a, s, v, w)
    BY <1>6, <1>60, StandingStays
  <1>80. \A s : Mute(a, b, s, w)
    BY <1>4 DEF Mute
  <1>8. \A s : SameFrontier(a, b, s, v, w)
    BY <1>6, <1>60, <1>80, FrontierStays
  <1>9. ASSUME NEW s \in DOMAIN view.frontier PROVE view'.frontier[s] = view.frontier[s]
    <2>1. s \in ValidIds /\ a[s].kind = "genesis"
      BY <1>2
    <2>2. s \in ValidIds' /\ b[s].kind = "genesis"
      BY <1>1, <1>3, <2>1
    <2>3. view.frontier[s] = Frontier(a, Cones(a), v, s)
      BY <1>2, <2>1
    <2>4. view'.frontier[s] = Frontier(b, Cones(b), w, s)
      BY <1>2, <2>2
    <2> QED
      BY <1>8, <2>3, <2>4 DEF SameFrontier
  <1>10. \A g \in GrantsOf(a) : g \in w.active <=> g \in v.active
    BY <1>7 DEF SameStanding
  <1>11. \A id \in DOMAIN a : w.effects[id] = v.effects[id]
    BY <1>7 DEF SameStanding
  <1> QED
    BY <1>1, <1>5, <1>9, <1>10, <1>11 DEF v, w, a

-----------------------------------------------------------------------------
(* What edges and attestations read                                        *)

(* What decides whether a pin is current.                                  *)
SameReach(pin, p, q, V) ==
    /\ pin.basis \in V
    /\ q.state[pin.subject] = p.state[pin.subject]
    /\ q.frontier[pin.subject] = p.frontier[pin.subject]
    /\ p.frontier[pin.subject] \subseteq V
    /\ p.frontier[pin.subject] = {} => p.state[pin.subject] = "no_current_body"
    /\ \A id \in V : q.cones[id] = p.cones[id] /\ p.cones[id] \subseteq V

(* Alike projections read a pin alike.                                     *)
LEMMA EndpointReads ==
    ASSUME NEW pin, NEW p, NEW q, NEW V, SameReach(pin, p, q, V), NEW s, NEW t,
           \A id \in V : t.selected[id] = s.selected[id] /\ t.valid[id] = s.valid[id]
    PROVE  Endpoint(pin, q, t) = Endpoint(pin, p, s)
  <1> DEFINE headOf(x) == CHOOSE h \in x.frontier[pin.subject] : TRUE
             news(x, z) == IF \E id \in x.cones[headOf(x)] \ x.cones[pin.basis] :
                              CreatesRevision(z.valid[id]) /\ z.valid[id].kind # "genesis"
                           THEN "revision_created_since_basis" ELSE ""
             end(state, cone, selected, new) ==
                IF state = "contested" THEN "subject_contested"
                ELSE IF state = "no_current_body" THEN "no_current_body"
                ELSE IF pin.basis \notin cone THEN "basis_not_ancestor"
                ELSE IF selected # pin.revision THEN "revision_changed"
                ELSE new
  <1>1. /\ Endpoint(pin, p, s) = end(p.state[pin.subject], p.cones[headOf(p)],
                                     s.selected[headOf(p)], news(p, s))
        /\ Endpoint(pin, q, t) = end(q.state[pin.subject], q.cones[headOf(q)],
                                     t.selected[headOf(q)], news(q, t))
    BY DEF Endpoint
  <1>2. q.state[pin.subject] = p.state[pin.subject] /\ headOf(q) = headOf(p)
    BY DEF SameReach
  <1>3. CASE p.frontier[pin.subject] = {}
    <2>1. p.state[pin.subject] = "no_current_body"
      BY <1>3 DEF SameReach
    <2> HIDE DEF headOf, news
    <2> QED
      BY <1>1, <1>2, <2>1
  <1>4. CASE p.frontier[pin.subject] # {}
    <2>1. headOf(p) \in V /\ pin.basis \in V
      BY <1>4 DEF SameReach
    <2> HIDE DEF headOf
    <2>2. /\ q.cones[headOf(p)] = p.cones[headOf(p)] /\ q.cones[pin.basis] = p.cones[pin.basis]
          /\ p.cones[headOf(p)] \subseteq V /\ t.selected[headOf(p)] = s.selected[headOf(p)]
      BY <2>1 DEF SameReach
    <2>3. news(q, t) = news(p, s)
      <3> DEFINE since == p.cones[headOf(p)] \ p.cones[pin.basis]
      <3>1. since = q.cones[headOf(q)] \ q.cones[pin.basis]
        BY <1>2, <2>2
      <3>2. \A id \in since : t.valid[id] = s.valid[id]
        BY <2>2
      <3> HIDE DEF since
      <3>3. news(p, s) = IF \E id \in since : CreatesRevision(s.valid[id]) /\ s.valid[id].kind # "genesis"
                         THEN "revision_created_since_basis" ELSE ""
        BY DEF since
      <3>4. news(q, t) = IF \E id \in since : CreatesRevision(t.valid[id]) /\ t.valid[id].kind # "genesis"
                         THEN "revision_created_since_basis" ELSE ""
        BY <3>1
      <3> HIDE DEF news
      <3> QED
        BY <3>2, <3>3, <3>4
    <2> HIDE DEF news
    <2> QED
      BY <1>1, <1>2, <2>2, <2>3
  <1> QED
    BY <1>3, <1>4

(* The reading of an edge, put together from what it is read from.         *)
ReadingOf(base, chain, heads, pins, rows, src, tgt) ==
    LET one == CHOOSE x \in pins : TRUE
        conflict == Cardinality(heads) > 1
    IN  [author |-> base.author, relation |-> base.relation,
         ends |-> <<one.source.subject, one.target.subject>>,
         heads |-> heads, pins |-> pins, history |-> chain, rows |-> rows,
         reasons |-> IF conflict THEN {"edge_conflict"} ELSE {src, tgt} \ {""},
         status |-> IF conflict THEN "edge_conflict"
                    ELSE IF {src, tgt} = {""} THEN "current"
                    ELSE IF "subject_contested" \in {src, tgt} THEN "endpoint_contested"
                    ELSE "stale"]

PinsOf(all, heads) == {all[h].pins : h \in heads}

(* The reading of an edge comes from its heads and its two endpoints.      *)
LEMMA ReadingFrom ==
    ASSUME NEW all, NEW status, NEW p, NEW s, NEW edge
    PROVE  LET chain == ChainOf(all, status, edge)
               heads == HeadsOf(all, chain)
               pins == PinsOf(all, heads)
               one == CHOOSE x \in pins : TRUE
           IN  EdgeReading(all, status, p, s, edge) =
                  ReadingOf(all[edge], chain, heads, pins,
                            [id \in chain |-> EdgeRow(all, chain, heads, id)],
                            Endpoint(one.source, p, s), Endpoint(one.target, p, s))
  BY DEF EdgeReading, ReadingOf, PinsOf

(* An endpoint is read from the state, the frontier and the cones.         *)
LEMMA EndpointFields ==
    ASSUME NEW pin, NEW p, NEW q, NEW s,
           q.state = p.state, q.frontier = p.frontier, q.cones = p.cones
    PROVE  Endpoint(pin, q, s) = Endpoint(pin, p, s)
  BY DEF Endpoint

(* So does the reading of an edge.                                         *)
LEMMA ReadingFields ==
    ASSUME NEW all, NEW status, NEW p, NEW q, NEW s, NEW edge,
           q.state = p.state, q.frontier = p.frontier, q.cones = p.cones
    PROVE  EdgeReading(all, status, q, s, edge) = EdgeReading(all, status, p, s, edge)
  <1>1. \A pin : Endpoint(pin, q, s) = Endpoint(pin, p, s)
    BY EndpointFields
  <1> QED
    BY <1>1, ReadingFrom

(* What the view holds of edges and media, and what they are read from.    *)
EdgeStands ==
    /\ Sane(Retained) /\ DOMAIN Retained = retained
    /\ \A id \in retained : Retained[id] = events[id]
    /\ Solves(Retained, InOrder(events), Judged)
    /\ SolvesEdges(Retained, Judged, view.status)
    /\ DOMAIN view.status = retained /\ ValidIds = ValidIn(Judged)
    /\ Subjects(Retained, Judged).valid = Envelopes
    /\ Subjects(Retained, Judged).selected = Selections(Envelopes)
    /\ Subjects(Retained, Judged).revisions = {id \in ValidIds : CreatesRevision(Retained[id])}
    /\ view.cones = Cones(Envelopes)
    /\ view.state = [s \in DOMAIN view.frontier |-> SubjectState(view.frontier[s])]
    /\ view.edges = [e \in Asserts(Retained) \cap ValidIn(view.status) |->
                       EdgeReading(Retained, view.status, view, Subjects(Retained, Judged), e)]
    /\ view.media = [m \in Attestations(Retained) \cap ValidIn(view.status) |->
                       MediaReading(Retained, Subjects(Retained, Judged), m)]

(* The invariant says so of every view.                                    *)
LEMMA ViewEdgeStands == LedgerInv => EdgeStands
  <1> SUFFICES ASSUME LedgerInv PROVE EdgeStands
    OBVIOUS
  <1> DEFINE o == InOrder(events)
             p == ProjectOf(Retained, Judged, o)
             f == ClassifyEdges(Retained, Judged, o)
             S == Subjects(Retained, Judged)
  <1>1. view = ProjectAll(Retained, o)
    BY DEF LedgerInv, Fold, Retained
  <1>2. view = WithEdges(Retained, p, f, S)
    BY <1>1 DEF ProjectAll, Judged
  <1>3. /\ Sane(Retained) /\ DOMAIN Retained = retained
        /\ (\A id \in retained : Retained[id] = events[id])
        /\ Solves(Retained, o, Judged) /\ SolvesEdges(Retained, Judged, view.status)
        /\ DOMAIN view.status = retained /\ ValidIds = ValidIn(Judged)
    BY ViewStatuses
  <1>4. /\ Envelopes = Sub(Retained, ValidIds) /\ view.cones = Cones(Envelopes)
        /\ view.frontier = [s \in {id \in ValidIds : events[id].kind = "genesis"} |->
                               Frontier(Envelopes, view.cones, view.authority, s)]
        /\ view.state = [s \in {id \in ValidIds : events[id].kind = "genesis"} |->
                               SubjectState(view.frontier[s])]
    BY ViewReadings
  <1> HIDE DEF p, f, o
  <1>5. S.valid = Envelopes /\ S.selected = Selections(Envelopes)
        /\ S.revisions = {id \in ValidIds : CreatesRevision(Retained[id])}
    BY <1>3, <1>4, SubjectsAre
  <1> HIDE DEF S
  <1>6. /\ view.cones = p.cones /\ view.frontier = p.frontier /\ view.state = p.state
        /\ view.status = f
        /\ view.edges = [e \in Asserts(Retained) \cap ValidIn(f) |-> EdgeReading(Retained, f, p, S, e)]
        /\ view.media = [m \in Attestations(Retained) \cap ValidIn(f) |-> MediaReading(Retained, S, m)]
    BY <1>2 DEF WithEdges
  <1>7. \A e : EdgeReading(Retained, f, view, S, e) = EdgeReading(Retained, f, p, S, e)
    BY <1>6, ReadingFields
  <1>8. view.edges = [e \in Asserts(Retained) \cap ValidIn(f) |-> EdgeReading(Retained, f, view, S, e)]
    BY <1>6, <1>7
  <1>9. view.state = [s \in DOMAIN view.frontier |-> SubjectState(view.frontier[s])]
    BY <1>4
  <1> QED
    BY <1>3, <1>4, <1>5, <1>6, <1>8, <1>9 DEF EdgeStands, S, o

(* A chain that gains no event is the same chain, in the same cones.       *)
LEMMA ChainStays ==
    ASSUME NEW a, NEW b, Sane(a), Sane(b), Extends(a, b), NEW s, NEW f, SolvesEdges(a, s, f), NEW g,
           ValidIn(f) \subseteq ValidIn(g), ValidIn(f) \subseteq DOMAIN a,
           NEW e \in Asserts(a),
           \A n \in ValidIn(g) \ ValidIn(f) : EdgeOf(b, n) # e
    PROVE  /\ ChainOf(b, g, e) = ChainOf(a, f, e) /\ ChainOf(a, f, e) \subseteq DOMAIN a
           /\ \A id \in ChainOf(a, f, e) : ConeOf(b, id) = ConeOf(a, id) /\ b[id] = a[id]
           /\ b[e] = a[e]
  <1>1. DOMAIN a \subseteq DOMAIN b /\ \A id \in DOMAIN a : b[id] = a[id]
    BY DEF Extends
  <1>2. \A id \in DOMAIN a : EdgeOf(b, id) = EdgeOf(a, id)
    BY <1>1 DEF EdgeOf
  <1>3. ChainOf(b, g, e) = ChainOf(a, f, e)
    BY <1>2 DEF ChainOf
  <1>4. e \in DOMAIN a /\ e # None
    BY SaneIds DEF Asserts, None
  <1>5. ChainOf(a, f, e) \subseteq EdgeEvents(a, f)
    <2> SUFFICES ASSUME NEW id \in ChainOf(a, f, e) PROVE id \in EdgeEvents(a, f)
      OBVIOUS
    <2>1. id \in DOMAIN a /\ f[id].state = "valid" /\ EdgeOf(a, id) = e
      BY DEF ChainOf, ValidIn
    <2>2. a[id].kind \in {"edge_assert", "edge_reaffirm"}
      BY <1>4, <2>1 DEF EdgeOf
    <2> QED
      BY <2>1, <2>2 DEF EdgeEvents, SubjectIds, IsSubject, EdgeKinds
  <1>6. Upright(a, EdgeEvents(a, f))
    BY EdgeEventsUpright
  <1>7. \A id \in EdgeEvents(a, f) : Cones(b)[id] = Cones(a)[id]
    BY <1>6, ConesStay DEF Upright
  <1> QED
    BY <1>1, <1>3, <1>4, <1>5, <1>7 DEF ConeOf, ChainOf

(* Then its heads, its pins and the rows of its events are the same.       *)
LEMMA HeadsStay ==
    ASSUME NEW a, NEW b, NEW chain, NEW heads, heads = HeadsOf(a, chain), heads \subseteq chain,
           \A id \in chain : ConeOf(b, id) = ConeOf(a, id) /\ b[id] = a[id]
    PROVE  /\ HeadsOf(b, chain) = heads /\ PinsOf(b, heads) = PinsOf(a, heads)
           /\ \A id \in chain : EdgeRow(b, chain, heads, id) = EdgeRow(a, chain, heads, id)
  <1>1. UNION {ConeOf(b, id) \ {id} : id \in chain} = UNION {ConeOf(a, id) \ {id} : id \in chain}
    OBVIOUS
  <1>2. HeadsOf(b, chain) = heads
    BY <1>1 DEF HeadsOf
  <1>3. PinsOf(b, heads) = PinsOf(a, heads)
    BY DEF PinsOf
  <1>4. {x \in chain : \A h \in heads : x \in ConeOf(b, h)} = {x \in chain : \A h \in heads : x \in ConeOf(a, h)}
    OBVIOUS
  <1>5. \A id \in chain : EdgeRow(b, chain, heads, id) = EdgeRow(a, chain, heads, id)
    BY <1>4 DEF EdgeRow
  <1> QED
    BY <1>2, <1>3, <1>5

(* What a step of the ledger does to all this.                             *)
LEMMA StepEdges ==
    ASSUME LedgerInv, [Next]_vars
    PROVE  /\ EdgeStands /\ EdgeStands' /\ InForce /\ InForce' /\ Lasting
           /\ Extends(Retained, Retained') /\ retained \subseteq DOMAIN events
           /\ \A id \in retained : events'[id] = events[id]
  <1>1. LedgerInv' /\ InForce /\ InForce' /\ Lasting
    BY StepStands
  <1>2. EdgeStands
    BY ViewEdgeStands
  <1>3. LedgerInv' => EdgeStands'
    BY ViewEdgeStands, PTL
  <1>4. Extends(events, events') /\ retained \subseteq retained'
    BY StepsOnward DEF Onward
  <1>5. retained \subseteq DOMAIN events
    BY DEF LedgerInv, Ids
  <1>6. /\ DOMAIN Retained = retained /\ \A id \in retained : Retained[id] = events[id]
        /\ DOMAIN Retained' = retained' /\ \A id \in retained' : Retained'[id] = events'[id]
    BY <1>1, <1>2, <1>3 DEF EdgeStands
  <1>7. Extends(Retained, Retained')
    BY <1>4, <1>5, <1>6 DEF Extends
  <1> QED
    BY <1>1, <1>2, <1>3, <1>4, <1>5, <1>7 DEF Extends

(* What is new to the subjects is new to the ledger.                       *)
LEMMA NewSubjects ==
    ASSUME LedgerInv, [Next]_vars, NEW n \in DOMAIN Envelopes' \ DOMAIN Envelopes
    PROVE  /\ n \in NewlyAny /\ IsSubject(events'[n])
           /\ SubjectOf(events', n) = SubjectOf(Envelopes', n)
  <1>1. /\ DOMAIN Envelopes = ValidIds /\ DOMAIN Envelopes' = ValidIds'
        /\ \A id \in ValidIds' : events'[id] = Envelopes'[id]
        /\ DOMAIN view.status = retained
        /\ \A id \in retained : events'[id] = events[id]
    BY StepEdges DEF InForce, EdgeStands, Lasting
  <1>2. n \in ValidIn(view'.status) /\ IsSubject(events'[n])
    BY <1>1 DEF ValidIds
  <1>3. n \notin ValidIn(view.status)
    BY <1>1, <1>2 DEF ValidIds, ValidIn
  <1> QED
    BY <1>1, <1>2, <1>3 DEF NewlyAny, SubjectOf

(* As long as nothing arrives for a subject its frontier stays.            *)
LEMMA QuietSubject ==
    ASSUME LedgerInv, [Next]_vars, NEW s \in DOMAIN view.frontier,
           \A n \in NewlyAny : IsSubject(events'[n]) => SubjectOf(events', n) # s
    PROVE  /\ s \in DOMAIN view'.frontier /\ view'.frontier[s] = view.frontier[s]
           /\ view'.state[s] = view.state[s]
  <1> DEFINE a == Envelopes
             b == Envelopes'
             effA == view.authority.effective
             effB == view'.authority.effective
             v == view.authority
             w == view'.authority
             o == InOrder(events)
             q == InOrder(events')
  <1>1. /\ Later(a, b) /\ Judicious(a, effA) /\ Judicious(b, effB)
        /\ Counting(a, o) /\ Counting(b, q)
        /\ v = Standing(a, Lineages(a), Cones(a), effA, o)
        /\ w = Standing(b, Lineages(b), Cones(b), effB, q)
        /\ DOMAIN a = ValidIds /\ DOMAIN b = ValidIds'
    BY StepEdges DEF InForce, Lasting
  <1>2. /\ view.frontier = [x \in {id \in ValidIds : a[id].kind = "genesis"} |->
                              Frontier(a, Cones(a), v, x)]
        /\ view'.frontier = [x \in {id \in ValidIds' : b[id].kind = "genesis"} |->
                              Frontier(b, Cones(b), w, x)]
    BY StepEdges DEF InForce
  <1>3. DOMAIN a \subseteq DOMAIN b /\ \A id \in DOMAIN a : b[id] = a[id]
    BY <1>1 DEF Later, Extends
  <1>4. /\ view.state = [x \in DOMAIN view.frontier |-> SubjectState(view.frontier[x])]
        /\ view'.state = [x \in DOMAIN view'.frontier |-> SubjectState(view'.frontier[x])]
    BY StepEdges DEF EdgeStands
  <1>5. \A n \in DOMAIN b \ DOMAIN a : SubjectOf(b, n) # s
    BY NewSubjects
  <1> HIDE DEF a, b, effA, effB, v, w, o, q
  <1>6. Undisturbed(a, b, effA, effB, s)
    <2>1. effB \subseteq DOMAIN b
      BY <1>1 DEF Judicious, Ruled, RevokesOf
    <2> QED
      BY <1>1, <1>5, <2>1 DEF Undisturbed
  <1>7. Mute(a, b, s, w)
    BY <1>5 DEF Mute
  <1>8. Concludes(a, effA, o, v) /\ Concludes(b, effB, q, w)
    BY <1>1 DEF Concludes
  <1>9. SameFrontier(a, b, s, v, w)
    BY <1>6, <1>7, <1>8, FrontierStays
  <1>10. s \in ValidIds /\ a[s].kind = "genesis"
    BY <1>2
  <1>11. s \in ValidIds' /\ b[s].kind = "genesis"
    BY <1>1, <1>3, <1>10
  <1>12. view.frontier[s] = Frontier(a, Cones(a), v, s)
    BY <1>2, <1>10
  <1>13. s \in DOMAIN view'.frontier /\ view'.frontier[s] = Frontier(b, Cones(b), w, s)
    BY <1>2, <1>11
  <1>14. view'.frontier[s] = view.frontier[s]
    BY <1>9, <1>12, <1>13 DEF SameFrontier
  <1> QED
    BY <1>4, <1>13, <1>14

(* Nor does what a pin of that subject comes to.                           *)
LEMMA QuietPin ==
    ASSUME LedgerInv, [Next]_vars, NEW pin,
           Holds(pin, Retained, view.status, Subjects(Retained, Judged)),
           \A n \in NewlyAny : IsSubject(events'[n]) => SubjectOf(events', n) # pin.subject
    PROVE  Endpoint(pin, view', Subjects(Retained, Judged)')
           = Endpoint(pin, view, Subjects(Retained, Judged))
  <1> DEFINE a == Envelopes
             b == Envelopes'
             S == Subjects(Retained, Judged)
             T == Subjects(Retained, Judged)'
             V == ValidIds
             front == view.frontier[pin.subject]
  <1>1. /\ pin.basis \in V /\ pin.subject \in V /\ events[pin.subject].kind = "genesis"
    BY ViewPin
  <1>2. /\ Later(a, b) /\ DOMAIN a = V /\ \A id \in V : events[id] = a[id]
        /\ view.frontier = [x \in {id \in V : a[id].kind = "genesis"} |->
                              Frontier(a, Cones(a), view.authority, x)]
    BY StepEdges DEF InForce, Lasting
  <1>3. /\ S.valid = a /\ S.selected = Selections(a) /\ T.valid = b /\ T.selected = Selections(b)
        /\ view.cones = Cones(a) /\ view'.cones = Cones(b)
        /\ view.state = [x \in DOMAIN view.frontier |-> SubjectState(view.frontier[x])]
    BY StepEdges DEF EdgeStands
  <1> HIDE DEF a, b, S, T
  <1>4. pin.subject \in DOMAIN view.frontier
    BY <1>1, <1>2
  <1>5. view'.frontier[pin.subject] = front /\ view'.state[pin.subject] = view.state[pin.subject]
    BY <1>4, QuietSubject
  <1>6. front \subseteq V
    <2>1. front = Frontier(a, Cones(a), view.authority, pin.subject)
      BY <1>2, <1>4
    <2>2. \A x : x \in Frontier(a, Cones(a), view.authority, pin.subject) => x \in DOMAIN a
      BY DEF Frontier
    <2> HIDE DEF front
    <2> QED
      BY <1>2, <2>1, <2>2
  <1>7. front = {} => view.state[pin.subject] = "no_current_body"
    <2>1. front = {} => Cardinality(front) = 0
      BY FS_EmptySet
    <2> QED
      BY <1>3, <1>4, <2>1 DEF SubjectState
  <1>8. \A id \in V : Cones(b)[id] = Cones(a)[id] /\ Cones(a)[id] \subseteq V /\ b[id] = a[id]
    BY <1>2, LaterKeeps
  <1>9. \A id \in V : Selections(b)[id] = Selections(a)[id]
    BY <1>2, SelectionsStay DEF Later, Whole
  <1>10. SameReach(pin, view, view', V)
    BY <1>1, <1>3, <1>5, <1>6, <1>7, <1>8 DEF SameReach
  <1>11. \A id \in V : T.selected[id] = S.selected[id] /\ T.valid[id] = S.valid[id]
    BY <1>3, <1>8, <1>9
  <1> HIDE DEF V
  <1>12. Endpoint(pin, view', T) = Endpoint(pin, view, S)
    BY <1>10, <1>11, EndpointReads
  <1> QED
    BY <1>12 DEF S, T

(* What is new in the chain of an edge has arrived with the step.          *)
LEMMA QuietChain ==
    ASSUME LedgerInv, [Next]_vars, NEW e \in DOMAIN view.edges,
           \A n \in NewlyAny : ~IsSubject(events'[n]) => EdgeOf(events', n) # e
    PROVE  /\ e \in DOMAIN view'.edges /\ e \in Asserts(Retained)
           /\ e \in ChainOf(Retained, view.status, e)
           /\ ChainOf(Retained', view'.status, e) = ChainOf(Retained, view.status, e)
           /\ ChainOf(Retained, view.status, e) \subseteq retained
           /\ \A id \in ChainOf(Retained, view.status, e) :
                 ConeOf(Retained', id) = ConeOf(Retained, id) /\ Retained'[id] = Retained[id]
           /\ Retained'[e] = Retained[e]
  <1> DEFINE f == view.status
             g == view'.status
             a == Retained
             b == Retained'
  <1>1. /\ Sane(a) /\ Sane(b) /\ Extends(a, b) /\ SolvesEdges(a, Judged, f)
        /\ DOMAIN a = retained /\ DOMAIN f = retained
        /\ DOMAIN b = retained' /\ DOMAIN g = retained'
        /\ \A id \in retained' : b[id] = events'[id]
    BY StepEdges DEF EdgeStands
  <1>2. ValidIn(f) \subseteq ValidIn(g)
    BY StepEdges DEF Lasting
  <1>3. ValidIn(f) \subseteq DOMAIN a /\ ValidIn(g) \subseteq retained'
    BY <1>1 DEF ValidIn
  <1>4. /\ DOMAIN view.edges = Asserts(a) \cap ValidIn(f)
        /\ DOMAIN view'.edges = Asserts(b) \cap ValidIn(g)
    BY StepEdges DEF EdgeStands
  <1>5. e \in Asserts(a) /\ e \in ValidIn(f) /\ e \in DOMAIN a /\ a[e].kind = "edge_assert"
    BY <1>3, <1>4 DEF Asserts
  <1>6. e \in DOMAIN view'.edges
    BY <1>1, <1>2, <1>4, <1>5 DEF Extends, Asserts
  <1>7. e # None
    BY <1>1, <1>5, SaneIds DEF None
  <1>8. \A n \in ValidIn(g) \ ValidIn(f) : EdgeOf(b, n) # e
    <2> SUFFICES ASSUME NEW n \in ValidIn(g) \ ValidIn(f), EdgeOf(b, n) = e PROVE FALSE
      OBVIOUS
    <2>1. n \in NewlyAny /\ b[n] = events'[n]
      BY <1>1, <1>3 DEF NewlyAny
    <2>2. EdgeOf(events', n) = e
      BY <2>1 DEF EdgeOf
    <2>3. IsSubject(events'[n])
      BY <2>1, <2>2
    <2>4. events'[n].kind \notin {"edge_assert", "edge_reaffirm"}
      BY <2>3 DEF IsSubject, EdgeKinds
    <2> QED
      BY <1>7, <2>2, <2>4 DEF EdgeOf
  <1>9. e \in ChainOf(a, f, e)
    BY <1>5 DEF ChainOf, EdgeOf
  <1> HIDE DEF a, b, f, g
  <1>10. /\ ChainOf(b, g, e) = ChainOf(a, f, e) /\ ChainOf(a, f, e) \subseteq DOMAIN a
         /\ \A id \in ChainOf(a, f, e) : ConeOf(b, id) = ConeOf(a, id) /\ b[id] = a[id]
         /\ b[e] = a[e]
    BY <1>1, <1>2, <1>3, <1>5, <1>8, ChainStays
  <1> QED
    BY <1>1, <1>5, <1>6, <1>9, <1>10 DEF a, b, f, g

(* The ends of a reading are the subjects of one of its pins.              *)
LEMMA ReadingEnds ==
    ASSUME NEW base, NEW chain, NEW heads, NEW pins, NEW rows, NEW src, NEW tgt, NEW one,
           one = CHOOSE x \in pins : TRUE
    PROVE  ReadingOf(base, chain, heads, pins, rows, src, tgt).ends
           = <<one.source.subject, one.target.subject>>
  BY DEF ReadingOf

(* edges.rs: the reading of an edge moves only with its own chain or with  *)
(* a subject at one of its ends.                                           *)
LEMMA EdgeIsLocal ==
    ASSUME LedgerInv, [Next]_vars, NEW e \in DOMAIN view.edges,
           \A n \in NewlyAny :
              ~(IF IsSubject(events'[n])
                THEN SubjectOf(events', n) \in Range(view.edges[e].ends)
                ELSE EdgeOf(events', n) = e)
    PROVE  view'.edges[e] = view.edges[e]
  <1> DEFINE f == view.status
             g == view'.status
             a == Retained
             b == Retained'
             S == Subjects(Retained, Judged)
             T == Subjects(Retained, Judged)'
             chain == ChainOf(a, f, e)
             heads == HeadsOf(a, chain)
             pins == PinsOf(a, heads)
             one == CHOOSE x \in pins : TRUE
  <1>1. \A n \in NewlyAny : ~IsSubject(events'[n]) => EdgeOf(events', n) # e
    OBVIOUS
  <1>2. /\ e \in DOMAIN view'.edges /\ e \in Asserts(a) /\ e \in chain
        /\ ChainOf(b, g, e) = chain /\ chain \subseteq retained
        /\ \A id \in chain : ConeOf(b, id) = ConeOf(a, id) /\ b[id] = a[id]
        /\ b[e] = a[e]
    BY <1>1, QuietChain
  <1>3. /\ Sane(a) /\ SolvesEdges(a, Judged, f) /\ DOMAIN a = retained
        /\ view.edges[e] = EdgeReading(a, f, view, S, e)
        /\ view'.edges[e] = EdgeReading(b, g, view', T, e)
    BY <1>2, StepEdges DEF EdgeStands
  <1> HIDE DEF a, b, f, g, S, T
  <1>4. heads # {} /\ heads \subseteq chain
    BY <1>2, <1>3, HeadsExist
  <1>5. one \in pins
    BY <1>4 DEF PinsOf
  <1>6. PICK h \in chain : one = a[h].pins
    BY <1>4, <1>5 DEF PinsOf
  <1>7. \A side \in {"source", "target"} : Holds(one[side], a, f, S)
    BY <1>2, <1>3, <1>6, EdgeHolds DEF S, a
  <1>8. view.edges[e] = ReadingOf(a[e], chain, heads, pins, [id \in chain |-> EdgeRow(a, chain, heads, id)],
                                  Endpoint(one.source, view, S), Endpoint(one.target, view, S))
    BY <1>3, ReadingFrom
  <1>9. HeadsOf(b, chain) = heads /\ PinsOf(b, heads) = pins
        /\ \A id \in chain : EdgeRow(b, chain, heads, id) = EdgeRow(a, chain, heads, id)
    BY <1>2, <1>4, HeadsStay
  <1>10. view'.edges[e] = ReadingOf(b[e], chain, heads, pins, [id \in chain |-> EdgeRow(b, chain, heads, id)],
                                    Endpoint(one.source, view', T), Endpoint(one.target, view', T))
    <2>1. LET bchain == ChainOf(b, g, e)
              bheads == HeadsOf(b, bchain)
              bpins == PinsOf(b, bheads)
              bone == CHOOSE x \in bpins : TRUE
          IN  view'.edges[e] = ReadingOf(b[e], bchain, bheads, bpins,
                                 [id \in bchain |-> EdgeRow(b, bchain, bheads, id)],
                                 Endpoint(bone.source, view', T), Endpoint(bone.target, view', T))
      BY <1>3, ReadingFrom
    <2> QED
      BY <1>2, <1>9, <2>1
  <1>11. view.edges[e].ends = <<one.source.subject, one.target.subject>>
    <2> HIDE DEF chain, heads, pins
    <2> QED
      BY <1>8, ReadingEnds
  <1>12. {one.source.subject, one.target.subject} \subseteq Range(view.edges[e].ends)
    BY <1>11 DEF Range
  <1>13. \A n \in NewlyAny : IsSubject(events'[n]) =>
            SubjectOf(events', n) \notin {one.source.subject, one.target.subject}
    BY <1>12
  <1>14. Endpoint(one.source, view', T) = Endpoint(one.source, view, S)
    BY <1>7, <1>13, QuietPin DEF S, T, a, f
  <1>15. Endpoint(one.target, view', T) = Endpoint(one.target, view, S)
    BY <1>7, <1>13, QuietPin DEF S, T, a, f
  <1>16. [id \in chain |-> EdgeRow(b, chain, heads, id)] = [id \in chain |-> EdgeRow(a, chain, heads, id)]
    BY <1>9
  <1> QED
    BY <1>2, <1>8, <1>10, <1>14, <1>15, <1>16

(* A valid attestation is about a valid event.                             *)
LEMMA TargetIsValid ==
    ASSUME NEW all, NEW e, NEW f, NEW s, NEW V, e.kind = "attestation",
           s.revisions \subseteq V, EvaluateAttestation(all, e, f, s).state = "valid",
           f \in [DOMAIN all -> Status]
    PROVE  e.target \in s.revisions \/ (e.target \in DOMAIN all /\ f[e.target].state = "valid")
  <1>1. CASE e.tkind = "revision"
    BY <1>1 DEF EvaluateAttestation, Pending, Invalid, Valid
  <1>2. CASE e.tkind # "revision"
    <2>1. /\ e.target \in DOMAIN all
          /\ f[e.target].state \notin {"invalid", "pending"}
      BY <1>2 DEF EvaluateAttestation, Pending, Invalid, Valid
    <2> QED
      BY <2>1 DEF Status
  <1> QED
    BY <1>1, <1>2

(* edges.rs: what an attestation is bound to never moves.                  *)
LEMMA MediaStay ==
    ASSUME LedgerInv, [Next]_vars, NEW m \in DOMAIN view.media
    PROVE  view'.media[m] = view.media[m]
  <1> DEFINE f == view.status
             g == view'.status
             a == Retained
             b == Retained'
             S == Subjects(Retained, Judged)
             T == Subjects(Retained, Judged)'
             t == a[m].target
  <1>1. /\ Sane(a) /\ Extends(a, b) /\ SolvesEdges(a, Judged, f)
        /\ DOMAIN a = retained /\ DOMAIN b = retained' /\ DOMAIN f = retained
        /\ DOMAIN view.media = Attestations(a) \cap ValidIn(f)
        /\ DOMAIN view'.media = Attestations(b) \cap ValidIn(g)
        /\ S.revisions = {id \in ValidIds : CreatesRevision(a[id])}
        /\ T.revisions = {id \in ValidIds' : CreatesRevision(b[id])}
    BY StepEdges DEF EdgeStands
  <1>2. ValidIn(f) \subseteq ValidIn(g) /\ ValidIds \subseteq ValidIds'
    BY StepEdges DEF Lasting
  <1>3. \A id : id \in ValidIds <=> id \in retained /\ f[id].state = "valid" /\ IsSubject(a[id])
    BY <1>1, StepEdges DEF EdgeStands, ValidIds, ValidIn
  <1>4. \A id \in ValidIds' : IsSubject(b[id])
    BY StepEdges DEF EdgeStands, ValidIds, ValidIn
  <1>5. /\ view.media = [x \in Attestations(a) \cap ValidIn(f) |-> MediaReading(a, S, x)]
        /\ view'.media = [x \in Attestations(b) \cap ValidIn(g) |-> MediaReading(b, T, x)]
    BY StepEdges DEF EdgeStands
  <1> HIDE DEF a, b, f, g, S, T
  <1>6. m \in retained /\ a[m].kind = "attestation" /\ f[m].state = "valid" /\ m \in DOMAIN view'.media
    BY <1>1, <1>2 DEF Attestations, ValidIn, Extends
  <1>7. f \in [DOMAIN a -> Status]
    BY <1>1 DEF SolvesEdges
  <1>8. f[m] = EvaluateEdge(m, a, f, S)
    BY <1>1, <1>6 DEF SolvesEdges, SubjectIds, IsSubject, EdgeKinds, S, a
  <1>9. EvaluateAttestation(a, a[m], f, S).state = "valid"
    BY <1>6, <1>8 DEF EvaluateEdge, Invalid
  <1>10. t \in S.revisions \/ (t \in DOMAIN a /\ f[t].state = "valid")
    BY <1>6, <1>7, <1>9, TargetIsValid
  <1>11. b[m] = a[m] /\ \A id \in retained : b[id] = a[id]
    BY <1>1, <1>6 DEF Extends
  <1>12. t \in T.revisions <=> t \in S.revisions
    <2>1. t \in retained
      BY <1>1, <1>3, <1>10
    <2>2. ASSUME t \in S.revisions PROVE t \in T.revisions
      BY <1>1, <1>2, <1>11, <2>1, <2>2
    <2>3. ASSUME t \in T.revisions, t \notin S.revisions PROVE FALSE
      <3>1. t \in ValidIds' /\ CreatesRevision(b[t]) /\ f[t].state = "valid"
        BY <1>1, <1>10, <2>3
      <3>2. t \in ValidIds
        BY <1>3, <1>4, <1>11, <2>1, <3>1
      <3> QED
        BY <1>1, <1>11, <2>1, <2>3, <3>1, <3>2
    <2> QED
      BY <2>2, <2>3
  <1>13. t \in S.revisions => b[t] = a[t]
    BY <1>1, <1>3, <1>11
  <1>14. MediaReading(b, T, m) = MediaReading(a, S, m)
    BY <1>11, <1>12, <1>13 DEF MediaReading
  <1> QED
    BY <1>1, <1>5, <1>6, <1>14

(* authority.rs, projection.rs and edges.rs: no new event has an effect    *)
(* outside its scope.  A grant's standing is the least revoke that reaches *)
(* it from above, so it changes only with a revoke signed above it; what   *)
(* an act is measured against is a cut, a closed part of the past, which   *)
(* later acts are never part of; and an edge reads its own chain and the   *)
(* frontiers of its two subjects, an attestation what its target created.  *)
THEOREM EffectsAlwaysInScope == Spec => EffectsStayInScope
  <1>1. LedgerInv /\ [Next]_vars =>
           [\A g \in view.authority.grants :
               (g \in view.authority.active) # (g \in view'.authority.active) =>
                  \E r \in Newly \cap view'.authority.effective :
                     LET s == Signer(events', r) IN
                     /\ s \in Lineages(Envelopes')[g]
                     /\ s = g => r \in Relinquishments(Envelopes')]_vars
    <2> SUFFICES ASSUME LedgerInv, [Next]_vars, NEW g \in view.authority.grants,
                        (g \in view.authority.active) # (g \in view'.authority.active)
                 PROVE  \E r \in Newly \cap view'.authority.effective :
                           LET s == Signer(events', r) IN
                           /\ s \in Lineages(Envelopes')[g]
                           /\ s = g => r \in Relinquishments(Envelopes')
      OBVIOUS
    <2> QED
      BY AuthorityFlows
  <1>2. LedgerInv /\ [Next]_vars =>
           [(\A n \in Newly : /\ view'.authority.effects[n].reason \notin {"", "root_relinquished"}
                              /\ n \notin view'.authority.effective) =>
               /\ \A s \in DOMAIN view.frontier : view'.frontier[s] = view.frontier[s]
               /\ view'.authority.active \cap view.authority.grants = view.authority.active
               /\ \A id \in ValidIds : view'.authority.effects[id] = view.authority.effects[id]]_vars
    BY SuppressedAreInert
  <1>3. LedgerInv /\ [Next]_vars =>
           [\A n \in Newly, r \in view.authority.effective \cap view'.authority.effective :
               Covers(Envelopes', Lineages(Envelopes'), r, Signer(events', n)) =>
                  view'.authority.effects[n].reason # ""]_vars
    BY RetiredAreSilent
  <1>4. LedgerInv /\ [Next]_vars =>
           [/\ \A e \in DOMAIN view.edges :
                  view'.edges[e] # view.edges[e] =>
                     \E n \in NewlyAny :
                        IF IsSubject(events'[n])
                        THEN SubjectOf(events', n) \in Range(view.edges[e].ends)
                        ELSE EdgeOf(events', n) = e
            /\ \A m \in DOMAIN view.media : view'.media[m] = view.media[m]]_vars
    <2> SUFFICES ASSUME LedgerInv, [Next]_vars
                 PROVE  /\ \A e \in DOMAIN view.edges :
                              view'.edges[e] # view.edges[e] =>
                                 \E n \in NewlyAny :
                                    IF IsSubject(events'[n])
                                    THEN SubjectOf(events', n) \in Range(view.edges[e].ends)
                                    ELSE EdgeOf(events', n) = e
                        /\ \A m \in DOMAIN view.media : view'.media[m] = view.media[m]
      OBVIOUS
    <2> QED
      BY EdgeIsLocal, MediaStay
  <1> QED
    BY <1>1, <1>2, <1>3, <1>4, ViewIsTheFold, PTL
       DEF Spec, EffectsStayInScope, AuthorityFlowsDown, SuppressedIsInert, RetiredGrantsAreSilent,
           EdgesAreLocal

-----------------------------------------------------------------------------
(* Verdicts: the graph that queries read                                   *)

(* An edge joins the subjects its assertion pins; they are subjects of the *)
(* view, and resolved when it reads current.                               *)
Anchored(e) ==
    LET r == view.edges[e] IN
    /\ e \in retained /\ events[e].kind = "edge_assert" /\ view.status[e].state = "valid"
    /\ r.ends = <<events[e].pins.source.subject, events[e].pins.target.subject>>
    /\ r.ends \in (DOMAIN view.state) \X (DOMAIN view.state)
    /\ r.status = "current" =>
          view.state[r.ends[1]] = "resolved" /\ view.state[r.ends[2]] = "resolved"

(* A subject with one frontier event is resolved.                          *)
LEMMA ResolvedByOne ==
    ASSUME LedgerInv, NEW s \in DOMAIN view.state, NEW h, view.frontier[s] = {h}
    PROVE  view.state[s] = "resolved"
  <1>1. view.state[s] = SubjectState(view.frontier[s])
    BY ViewReadings
  <1>2. Cardinality({h}) = 1
    BY FS_Singleton
  <1> QED
    BY <1>1, <1>2 DEF SubjectState

(* A reading keeps its pins, its chain and the relation.                   *)
LEMMA ReadingKeeps ==
    ASSUME NEW base, NEW chain, NEW heads, NEW pins, NEW rows, NEW src, NEW tgt
    PROVE  LET r == ReadingOf(base, chain, heads, pins, rows, src, tgt) IN
           r.pins = pins /\ r.history = chain /\ r.relation = base.relation
  BY DEF ReadingOf

(* Every edge of the view is anchored so.                                  *)
LEMMA ViewEdgesAnchored ==
    ASSUME LedgerInv
    PROVE  /\ DOMAIN view.edges = Asserts(Retained) \cap ValidIn(view.status)
           /\ \A e \in DOMAIN view.edges :
                 /\ Anchored(e) /\ view.edges[e].history = ChainOf(Retained, view.status, e)
                 /\ view.edges[e].relation = events[e].relation
  <1> DEFINE S == Subjects(Retained, Judged)
             D == DOMAIN view.state
  <1>1. EdgeStands
    BY ViewEdgeStands
  <1>2. /\ Sane(Retained) /\ DOMAIN Retained = retained
        /\ \A id \in retained : Retained[id] = events[id]
        /\ SolvesEdges(Retained, Judged, view.status) /\ DOMAIN view.status = retained
        /\ view.edges = [x \in Asserts(Retained) \cap ValidIn(view.status) |->
                            EdgeReading(Retained, view.status, view, S, x)]
    BY <1>1 DEF EdgeStands
  <1>3. D = {id \in ValidIds : events[id].kind = "genesis"}
    BY ViewReadings
  <1>4. DOMAIN view.edges = Asserts(Retained) \cap ValidIn(view.status)
    BY <1>2
  <1> HIDE DEF D
  <1>5. ASSUME NEW e \in DOMAIN view.edges
        PROVE  Anchored(e) /\ view.edges[e].history = ChainOf(Retained, view.status, e)
                           /\ view.edges[e].relation = events[e].relation
    <2> DEFINE chain == ChainOf(Retained, view.status, e)
               heads == HeadsOf(Retained, chain)
               pins == PinsOf(Retained, heads)
               one == CHOOSE x \in pins : TRUE
               rows == [id \in chain |-> EdgeRow(Retained, chain, heads, id)]
               src == Endpoint(one.source, view, S)
               tgt == Endpoint(one.target, view, S)
               r == view.edges[e]
    <2>1. e \in Asserts(Retained) /\ e \in ValidIn(view.status) /\ e \in DOMAIN Retained
          /\ r = EdgeReading(Retained, view.status, view, S, e)
      BY <1>2, <1>5 DEF Asserts
    <2>2. e \in retained /\ events[e].kind = "edge_assert" /\ view.status[e].state = "valid"
          /\ Retained[e] = events[e]
      BY <1>2, <2>1 DEF Asserts, ValidIn
    <2>3. r = ReadingOf(Retained[e], chain, heads, pins, rows, src, tgt)
      BY <2>1, ReadingFrom
    <2>4. e \in chain /\ chain \subseteq DOMAIN Retained
      BY <1>2, <2>1 DEF ChainOf, EdgeOf, Asserts, ValidIn
    <2>5. heads # {} /\ heads \subseteq chain
      <3> HIDE DEF chain
      <3> QED
        BY <1>2, <2>4, HeadsExist
    <2> HIDE DEF heads, rows, src, tgt
    <2>6. one \in pins
      <3>1. pins # {}
        BY <2>5 DEF PinsOf
      <3> HIDE DEF pins
      <3> QED
        BY <3>1
    <2>7. PICK h \in heads : one = Retained[h].pins
      <3> HIDE DEF one
      <3> QED
        BY <2>6 DEF PinsOf
    <2>8. r.ends = <<one.source.subject, one.target.subject>>
      BY <2>3, ReadingEnds
    <2>9. r.pins = pins /\ r.history = chain /\ r.relation = Retained[e].relation
      BY <2>3, ReadingKeeps
    <2> HIDE DEF one, pins, r
    <2>10. \A side \in {"source", "target"} :
              /\ Holds(one[side], Retained, view.status, S)
              /\ one[side].subject = events[e].pins[side].subject
      <3>1. h \in ChainOf(Retained, view.status, e)
        BY <2>5 DEF chain
      <3>2. \A side \in {"source", "target"} :
              /\ Holds(Retained[h].pins[side], Retained, view.status, S)
              /\ Retained[h].pins[side].subject = Retained[e].pins[side].subject
        BY <1>2, <2>1, <3>1, EdgeHolds
      <3> QED
        BY <2>2, <2>7, <3>2
    <2>11. /\ one.source.subject = events[e].pins.source.subject
           /\ one.target.subject = events[e].pins.target.subject
      BY <2>10
    <2>12. one.source.subject \in D /\ one.target.subject \in D
      <3>1. \A side \in {"source", "target"} :
               one[side].subject \in ValidIds /\ events[one[side].subject].kind = "genesis"
        BY <2>10, ViewPin
      <3> QED
        BY <1>3, <3>1
    <2>13. ASSUME r.status = "current"
           PROVE  view.state[one.source.subject] = "resolved" /\ view.state[one.target.subject] = "resolved"
      <3>1. \A side \in {"source", "target"} : \E x : view.frontier[one[side].subject] = {x}
        <4>1. one \in view.edges[e].pins
          BY <2>6, <2>9 DEF r
        <4>2. CurrentMeansUnmoved
          BY CurrentUnmoved
        <4>3. \A side \in {"source", "target"} : \E x \in ValidIds : view.frontier[one[side].subject] = {x}
          BY <1>5, <2>13, <4>1, <4>2 DEF CurrentMeansUnmoved, r
        <4> QED
          BY <4>3
      <3>2. (\E x : view.frontier[one.source.subject] = {x}) /\ (\E x : view.frontier[one.target.subject] = {x})
        BY <3>1
      <3> QED
        BY <2>12, <3>2, ResolvedByOne DEF D
    <2>14. r.ends[1] = one.source.subject /\ r.ends[2] = one.target.subject
           /\ r.ends = <<events[e].pins.source.subject, events[e].pins.target.subject>>
           /\ r.ends \in D \X D
      BY <2>8, <2>11, <2>12
    <2>15. Anchored(e)
      BY <2>2, <2>13, <2>14 DEF Anchored, r, D
    <2> QED
      BY <2>2, <2>9, <2>15 DEF r, chain
  <1> QED
    BY <1>4, <1>5

(* The filter trusts the author of a subject.                              *)
Trusted(s) == events[s].author \in Curators

(* The edges that support something, whatever as_of hides.                 *)
Used ==
    {e \in DOMAIN view.edges :
        /\ view.edges[e].status = "current" /\ view.edges[e].relation # "disputes"
        /\ view.edges[e].author \in Curators
        /\ Trusted(view.edges[e].ends[1]) /\ Trusted(view.edges[e].ends[2])}

(* What keeps an edge of the view from being support.                      *)
Why(e) == Exclusions(Retained, view.edges[e], Curators)

(* What one edge contributes to the neighbours of a subject.               *)
Sides(e, s) ==
    {[subject |-> view.edges[e].ends[3 - i], edge |-> e] :
        i \in {j \in 1..2 : view.edges[e].ends[j] = s}}

(* The edge events that are retained and not valid.                        *)
Undecided ==
    {id \in DOMAIN Retained : /\ Retained[id].kind \in {"edge_assert", "edge_reaffirm"}
                              /\ view.status[id].state # "valid"}

(* The exclusions of a graph without their reasons.                        *)
Sights(g) == {<<x.event, x.ends>> : x \in g.excluded}

(* The subjects of an edge event.                                          *)
Pinned(id) == {events[id].pins.source.subject, events[id].pins.target.subject}

(* The ends of an edge are the subjects it pins.                           *)
LEMMA EndsPinned ==
    ASSUME NEW e, Anchored(e)
    PROVE  /\ Range(view.edges[e].ends) = Pinned(e)
           /\ Range(view.edges[e].ends) = {view.edges[e].ends[1], view.edges[e].ends[2]}
  BY DEF Anchored, Pinned, Range

(* What is folded is what is retained, and the subjects are among it.      *)
LEMMA ViewKeepsEvents ==
    ASSUME LedgerInv
    PROVE  /\ DOMAIN Retained = retained /\ \A id \in retained : Retained[id] = events[id]
           /\ DOMAIN view.state \subseteq retained /\ DOMAIN view.state = DOMAIN view.frontier
           /\ retained \subseteq 1 .. Len(events) /\ Len(events) \in Nat
           /\ ValidIds \subseteq retained
  <1>1. DOMAIN Retained = retained /\ (\A id \in retained : Retained[id] = events[id])
        /\ DOMAIN view.status = retained
    BY ViewStatuses
  <1>2. ValidIds \subseteq retained
    BY <1>1 DEF ValidIds, ValidIn
  <1>3. DOMAIN view.state = {id \in ValidIds : events[id].kind = "genesis"}
        /\ DOMAIN view.frontier = {id \in ValidIds : events[id].kind = "genesis"}
    BY ViewReadings
  <1>4. retained \subseteq 1 .. Len(events) /\ Len(events) \in Nat
    BY RecordedSane DEF LedgerInv, Ids
  <1> QED
    BY <1>1, <1>2, <1>3, <1>4

(* An edge is used when nothing keeps it from being support.               *)
LEMMA UsedIs ==
    ASSUME LedgerInv, NEW e \in DOMAIN view.edges
    PROVE  Why(e) = {} <=> e \in Used
  <1> DEFINE r == view.edges[e]
  <1>1. Anchored(e)
    BY ViewEdgesAnchored
  <1>2. r.ends[1] \in DOMAIN view.state /\ r.ends[2] \in DOMAIN view.state
    BY <1>1 DEF Anchored
  <1>3. Retained[r.ends[1]] = events[r.ends[1]] /\ Retained[r.ends[2]] = events[r.ends[2]]
    BY <1>2, ViewKeepsEvents
  <1>4. Why(e) = {} <=> /\ r.status = "current" /\ r.relation # "disputes" /\ r.author \in Curators
                        /\ \A i \in 1..2 : Retained[r.ends[i]].author \in Curators
    BY DEF Why, Exclusions
  <1>5. (\A i \in 1..2 : Retained[r.ends[i]].author \in Curators)
           <=> Trusted(r.ends[1]) /\ Trusted(r.ends[2])
    <2>1. \A i \in 1..2 : i = 1 \/ i = 2
      OBVIOUS
    <2>2. 1 \in 1..2 /\ 2 \in 1..2
      OBVIOUS
    <2> QED
      BY <1>3, <2>1, <2>2 DEF Trusted
  <1> QED
    BY <1>4, <1>5 DEF Used

(* An edge makes its two ends neighbours of each other.                    *)
LEMMA SidesAre ==
    ASSUME NEW e, NEW D, view.edges[e].ends \in D \X D, NEW s, NEW usable, e \in usable, NEW n
    PROVE  n \in Sides(e, s) <=> /\ n \in [subject : D, edge : {e}]
                                 /\ Joins(usable, e, s, n.subject)
  <1> DEFINE ends == view.edges[e].ends
  <1>1. ends[1] \in D /\ ends[2] \in D /\ ends = <<ends[1], ends[2]>>
    OBVIOUS
  <1> HIDE DEF ends
  <1>2. n \in Sides(e, s) <=> \/ ends[1] = s /\ n = [subject |-> ends[2], edge |-> e]
                              \/ ends[2] = s /\ n = [subject |-> ends[1], edge |-> e]
    <2>1. \A i \in 1..2 : i = 1 \/ i = 2
      OBVIOUS
    <2>2. 1 \in 1..2 /\ 2 \in 1..2 /\ 3 - 1 = 2 /\ 3 - 2 = 1
      OBVIOUS
    <2> QED
      BY <2>1, <2>2 DEF Sides, ends
  <1>3. \A t : Joins(usable, e, s, t) <=> \/ ends[1] = s /\ t = ends[2]
                                          \/ ends[2] = s /\ t = ends[1]
    BY <1>1 DEF Joins, ends
  <1> QED
    BY <1>1, <1>2, <1>3

(* The used edges that the hiding of some subjects leaves.                 *)
Left(hidden) == {e \in Used : Pinned(e) \cap hidden = {}}

(* The visibility of a subject among the retained events.                  *)
Seen(s, asOf) == Visibility(Retained, view, s, asOf)

(* What hiding some subjects makes of a graph.                             *)
Veiled(g, asOf, hidden, x) ==
    /\ Net(x, DOMAIN view.state, Left(hidden)) /\ DOMAIN x.neighbors = DOMAIN view.state
    /\ x.subjects = [s \in DOMAIN view.state |->
                        IF s \in hidden THEN Seen(s, asOf) ELSE g.subjects[s]]
    /\ Sights(x) = Sights(g) \cup {<<e, Pinned(e)>> : e \in Used \ Left(hidden)}

(* The exclusion of an edge that something keeps from being support.       *)
Refused(e) == [event |-> e, ends |-> Range(view.edges[e].ends), reasons |-> Why(e)]

(* The exclusion of an edge event that is undecided.                       *)
Waiting(id) == [event |-> id, ends |-> {Retained[id].pins.source.subject,
                                        Retained[id].pins.target.subject},
                reasons |-> {view.status[id].reason}]

(* The graph, read field by field.                                         *)
LEMMA GraphFields ==
    LET g == SupportGraph(Retained, view, Curators)
        used == {e \in DOMAIN view.edges : Why(e) = {}}
    IN  /\ g.neighbors = [s \in DOMAIN view.state |-> UNION {Sides(e, s) : e \in used}]
        /\ g.excluded = {Refused(e) : e \in DOMAIN view.edges \ used}
                        \cup {Waiting(id) : id \in Undecided}
        /\ g.subjects = [s \in DOMAIN view.state |->
                            IF Retained[s].author \in Curators THEN view.state[s]
                            ELSE "untrusted_origin"]
  <1> DEFINE why == [e \in DOMAIN view.edges |-> Exclusions(Retained, view.edges[e], Curators)]
             used == {e \in DOMAIN view.edges : why[e] = {}}
             real == {e \in DOMAIN view.edges : Why(e) = {}}
             g == SupportGraph(Retained, view, Curators)
             Old(e) == [event |-> e, ends |-> Range(view.edges[e].ends), reasons |-> why[e]]
  <1>1. /\ g.neighbors = [s \in DOMAIN view.state |-> UNION {Sides(e, s) : e \in used}]
        /\ g.excluded = {Old(e) : e \in DOMAIN why \ used} \cup {Waiting(id) : id \in Undecided}
        /\ g.subjects = [s \in DOMAIN view.state |->
                            IF Retained[s].author \in Curators THEN view.state[s]
                            ELSE "untrusted_origin"]
    BY DEF SupportGraph, Sides, Waiting, Undecided
  <1>2. \A e \in DOMAIN view.edges : why[e] = Why(e) /\ Old(e) = Refused(e)
    BY DEF Why, Refused
  <1>3. DOMAIN why = DOMAIN view.edges /\ used = real
    BY <1>2
  <1>4. {Old(e) : e \in DOMAIN why \ used} = {Refused(e) : e \in DOMAIN view.edges \ real}
    <2> HIDE DEF Old, why
    <2> QED
      BY <1>2, <1>3
  <1> QED
    BY <1>1, <1>3, <1>4

(* The ends of the edges are subjects of the view.                         *)
LEMMA UsedEnds ==
    ASSUME LedgerInv
    PROVE  /\ Used \subseteq DOMAIN view.edges
           /\ \A e \in DOMAIN view.edges : view.edges[e].ends \in (DOMAIN view.state) \X (DOMAIN view.state)
           /\ \A e \in DOMAIN view.edges : Range(view.edges[e].ends) = Pinned(e)
           /\ \A e \in DOMAIN view.edges :
                 Pinned(e) = {view.edges[e].ends[1], view.edges[e].ends[2]}
  <1>1. \A e \in DOMAIN view.edges : Anchored(e)
    BY ViewEdgesAnchored
  <1>2. \A e \in DOMAIN view.edges : view.edges[e].ends \in (DOMAIN view.state) \X (DOMAIN view.state)
    BY <1>1 DEF Anchored
  <1>3. \A e \in DOMAIN view.edges :
           /\ Range(view.edges[e].ends) = Pinned(e)
           /\ Range(view.edges[e].ends) = {view.edges[e].ends[1], view.edges[e].ends[2]}
    BY <1>1, EndsPinned
  <1>4. Used \subseteq DOMAIN view.edges
    BY DEF Used
  <1> QED
    BY <1>2, <1>3, <1>4

(* The pairs an offer is made of.                                          *)
LEMMA UnionOfSides ==
    ASSUME NEW used, NEW s, NEW n
    PROVE  n \in UNION {Sides(e, s) : e \in used} <=> \E e \in used : n \in Sides(e, s)
  OBVIOUS

(* The support graph offers exactly the used edges.                        *)
LEMMA GraphNet ==
    ASSUME LedgerInv
    PROVE  LET g == SupportGraph(Retained, view, Curators) IN
           Net(g, DOMAIN view.state, Used) /\ DOMAIN g.neighbors = DOMAIN view.state
  <1> DEFINE g == SupportGraph(Retained, view, Curators)
             D == DOMAIN view.state
             real == {e \in DOMAIN view.edges : Why(e) = {}}
  <1>1. real = Used
    BY UsedIs, UsedEnds
  <1>2. g.neighbors = [s \in D |-> UNION {Sides(e, s) : e \in Used}]
    BY <1>1, GraphFields
  <1> HIDE DEF g, real
  <1>3. ASSUME NEW s \in D
        PROVE  g.neighbors[s] = {n \in [subject : D, edge : Used] : Joins(Used, n.edge, s, n.subject)}
    <2>1. g.neighbors[s] = UNION {Sides(e, s) : e \in Used}
      BY <1>2
    <2>2. ASSUME NEW n
          PROVE  n \in g.neighbors[s] <=> n \in [subject : D, edge : Used]
                                           /\ Joins(Used, n.edge, s, n.subject)
      <3>1. n \in g.neighbors[s] <=> \E e \in Used : n \in Sides(e, s)
        BY <2>1, UnionOfSides
      <3>2. \A e \in Used : n \in Sides(e, s) <=> /\ n \in [subject : D, edge : {e}]
                                                   /\ Joins(Used, e, s, n.subject)
        BY SidesAre, UsedEnds
      <3>3. ASSUME NEW e \in Used, n \in Sides(e, s)
            PROVE  n \in [subject : D, edge : Used] /\ Joins(Used, n.edge, s, n.subject)
        <4>1. n \in [subject : D, edge : {e}] /\ Joins(Used, e, s, n.subject)
          BY <3>2, <3>3
        <4>2. n.edge = e
          BY <4>1
        <4> QED
          BY <4>1, <4>2
      <3>4. ASSUME n \in [subject : D, edge : Used], Joins(Used, n.edge, s, n.subject)
            PROVE  \E e \in Used : n \in Sides(e, s)
        <4>1. n.edge \in Used /\ n \in [subject : D, edge : {n.edge}]
          BY <3>4
        <4>2. n \in Sides(n.edge, s)
          BY <3>2, <3>4, <4>1
        <4> QED
          BY <4>1, <4>2
      <3> QED
        BY <3>1, <3>3, <3>4
    <2> QED
      BY <2>2
  <1>4. \A e \in Used : view.edges[e].ends \in D \X D
    BY UsedEnds
  <1>5. Net(g, D, Used)
    BY <1>3, <1>4 DEF Net
  <1>6. DOMAIN g.neighbors = D
    BY <1>2
  <1> QED
    BY <1>5, <1>6 DEF g

(* It excludes every other edge and every undecided edge event, and trusts *)
(* the curators.                                                           *)
LEMMA GraphSights ==
    ASSUME LedgerInv
    PROVE  LET g == SupportGraph(Retained, view, Curators) IN
           /\ Sights(g) = {<<e, Pinned(e)>> : e \in DOMAIN view.edges \ Used}
                          \cup {<<id, Pinned(id)>> : id \in Undecided}
           /\ g.subjects = [s \in DOMAIN view.state |->
                               IF Trusted(s) THEN view.state[s] ELSE "untrusted_origin"]
  <1> DEFINE g == SupportGraph(Retained, view, Curators)
             D == DOMAIN view.state
             real == {e \in DOMAIN view.edges : Why(e) = {}}
  <1>1. real = Used
    BY UsedIs, UsedEnds
  <1>2. /\ g.excluded = {Refused(e) : e \in DOMAIN view.edges \ Used}
                        \cup {Waiting(id) : id \in Undecided}
        /\ g.subjects = [s \in D |-> IF Retained[s].author \in Curators THEN view.state[s]
                                     ELSE "untrusted_origin"]
    BY <1>1, GraphFields
  <1> HIDE DEF g, real
  <1>3. \A s \in D : Retained[s].author \in Curators <=> Trusted(s)
    BY ViewKeepsEvents DEF Trusted
  <1>4. g.subjects = [s \in D |-> IF Trusted(s) THEN view.state[s] ELSE "untrusted_origin"]
    BY <1>2, <1>3
  <1>5. \A e \in DOMAIN view.edges : Refused(e).event = e /\ Refused(e).ends = Pinned(e)
    BY UsedEnds DEF Refused
  <1>6. \A id \in Undecided : Waiting(id).event = id /\ Waiting(id).ends = Pinned(id)
    <2>1. \A id \in Undecided : Retained[id] = events[id]
      BY ViewKeepsEvents DEF Undecided
    <2> QED
      BY <2>1 DEF Waiting, Pinned
  <1>7. Sights(g) = {<<e, Pinned(e)>> : e \in DOMAIN view.edges \ Used}
                    \cup {<<id, Pinned(id)>> : id \in Undecided}
    <2>1. Sights(g) = {<<x.event, x.ends>> : x \in {Refused(e) : e \in DOMAIN view.edges \ Used}}
                      \cup {<<x.event, x.ends>> : x \in {Waiting(id) : id \in Undecided}}
      BY <1>2 DEF Sights
    <2>2. {<<x.event, x.ends>> : x \in {Refused(e) : e \in DOMAIN view.edges \ Used}}
          = {<<Refused(e).event, Refused(e).ends>> : e \in DOMAIN view.edges \ Used}
      OBVIOUS
    <2>3. {<<x.event, x.ends>> : x \in {Waiting(id) : id \in Undecided}}
          = {<<Waiting(id).event, Waiting(id).ends>> : id \in Undecided}
      OBVIOUS
    <2>4. {<<Refused(e).event, Refused(e).ends>> : e \in DOMAIN view.edges \ Used}
          = {<<e, Pinned(e)>> : e \in DOMAIN view.edges \ Used}
      BY <1>5
    <2>5. {<<Waiting(id).event, Waiting(id).ends>> : id \in Undecided}
          = {<<id, Pinned(id)>> : id \in Undecided}
      BY <1>6
    <2> QED
      BY <2>1, <2>2, <2>3, <2>4, <2>5
  <1> QED
    BY <1>4, <1>7 DEF g

(* What hiding one subject makes of a graph.                               *)
HiddenOnce(x, s, reason, y) ==
    LET lost == {n.edge : n \in x.neighbors[s]} IN
    /\ y.neighbors = [t \in DOMAIN x.neighbors |->
           IF t = s THEN {} ELSE {m \in x.neighbors[t] : m.edge \notin lost}]
    /\ y.subjects = [x.subjects EXCEPT ![s] = reason]
    /\ Sights(y) = Sights(x) \cup {<<n.edge, {s, n.subject}>> : n \in x.neighbors[s]}

(* Hide makes this of it.                                                  *)
LEMMA HideFields ==
    ASSUME NEW x, NEW s, NEW reason
    PROVE  HiddenOnce(x, s, reason, Hide(x, s, reason))
  <1> DEFINE y == Hide(x, s, reason)
             lost == {n.edge : n \in x.neighbors[s]}
             Note(n) == [event |-> n.edge, ends |-> {s, n.subject}, reasons |-> {reason}]
  <1>1. /\ y.neighbors = [t \in DOMAIN x.neighbors |->
                      IF t = s THEN {} ELSE {m \in x.neighbors[t] : m.edge \notin lost}]
        /\ y.subjects = [x.subjects EXCEPT ![s] = reason]
        /\ y.excluded = x.excluded \cup {Note(n) : n \in x.neighbors[s]}
    BY DEF Hide
  <1> HIDE DEF y
  <1>2. Sights(y) = Sights(x) \cup {<<z.event, z.ends>> : z \in {Note(n) : n \in x.neighbors[s]}}
    <2> HIDE DEF Note
    <2> QED
      BY <1>1 DEF Sights
  <1>3. {<<z.event, z.ends>> : z \in {Note(n) : n \in x.neighbors[s]}}
        = {<<n.edge, {s, n.subject}>> : n \in x.neighbors[s]}
    <2>1. \A n : Note(n).event = n.edge /\ Note(n).ends = {s, n.subject}
      OBVIOUS
    <2> HIDE DEF Note
    <2> QED
      BY <2>1
  <1>4. HiddenOnce(x, s, reason, y)
    BY <1>1, <1>2, <1>3 DEF HiddenOnce
  <1> QED
    BY <1>4 DEF y

(* An edge pins the two subjects it joins.                                 *)
LEMMA JoinsPinned ==
    ASSUME LedgerInv, NEW usable, NEW e \in Used, NEW s, NEW t, Joins(usable, e, s, t)
    PROVE  Pinned(e) = {s, t}
  <1>1. Pinned(e) = {view.edges[e].ends[1], view.edges[e].ends[2]}
    BY UsedEnds
  <1>2. view.edges[e].ends = <<s, t>> \/ view.edges[e].ends = <<t, s>>
    BY DEF Joins
  <1> QED
    BY <1>1, <1>2

(* Hiding one more subject, as the reason it is not visible.               *)
LEMMA VeiledNext ==
    ASSUME LedgerInv, NEW g, NEW asOf, NEW hidden, NEW x, Veiled(g, asOf, hidden, x),
           NEW s \in DOMAIN view.state
    PROVE  Veiled(g, asOf, hidden \cup {s}, Hide(x, s, Seen(s, asOf)))
  <1> DEFINE D == DOMAIN view.state
             y == Hide(x, s, Seen(s, asOf))
             lost == {n.edge : n \in x.neighbors[s]}
             more == hidden \cup {s}
  <1>1. /\ Net(x, D, Left(hidden)) /\ DOMAIN x.neighbors = D
        /\ x.subjects = [t \in D |-> IF t \in hidden THEN Seen(t, asOf) ELSE g.subjects[t]]
        /\ Sights(x) = Sights(g) \cup {<<e, Pinned(e)>> : e \in Used \ Left(hidden)}
    BY DEF Veiled
  <1>20. HiddenOnce(x, s, Seen(s, asOf), y)
    BY HideFields
  <1> HIDE DEF y
  <1>2. /\ y.neighbors = [t \in DOMAIN x.neighbors |->
                      IF t = s THEN {} ELSE {m \in x.neighbors[t] : m.edge \notin lost}]
        /\ y.subjects = [x.subjects EXCEPT ![s] = Seen(s, asOf)]
        /\ Sights(y) = Sights(x) \cup {<<n.edge, {s, n.subject}>> : n \in x.neighbors[s]}
    BY <1>20 DEF HiddenOnce
  <1>3. \A t \in D : \A n : n \in x.neighbors[t] <=> /\ n \in [subject : D, edge : Left(hidden)]
                                                     /\ Joins(Left(hidden), n.edge, t, n.subject)
    BY <1>1 DEF Net
  <1>4. /\ Left(hidden) \subseteq Used /\ Left(more) \subseteq Left(hidden)
        /\ \A e \in Left(hidden) : e \in Left(more) <=> s \notin Pinned(e)
    BY DEF Left
  <1>5. \A e \in Used : /\ view.edges[e].ends \in D \X D
                        /\ Pinned(e) = {view.edges[e].ends[1], view.edges[e].ends[2]}
    BY UsedEnds
  <1>6. \A n \in x.neighbors[s] : n.edge \in Left(hidden) \ Left(more) /\ {s, n.subject} = Pinned(n.edge)
    <2> SUFFICES ASSUME NEW n \in x.neighbors[s]
                 PROVE  n.edge \in Left(hidden) \ Left(more) /\ {s, n.subject} = Pinned(n.edge)
      OBVIOUS
    <2>1. n.edge \in Left(hidden) /\ Joins(Left(hidden), n.edge, s, n.subject)
      BY <1>3
    <2>2. {s, n.subject} = Pinned(n.edge)
      BY <1>4, <2>1, JoinsPinned
    <2> QED
      BY <1>4, <2>1, <2>2
  <1>7. \A e \in Left(hidden) \ Left(more) : \E n \in x.neighbors[s] : n.edge = e
    <2> SUFFICES ASSUME NEW e \in Left(hidden) \ Left(more) PROVE \E n \in x.neighbors[s] : n.edge = e
      OBVIOUS
    <2> DEFINE a == view.edges[e].ends[1]
               b == view.edges[e].ends[2]
    <2>0. e \in Used /\ s \in Pinned(e)
      BY <1>4
    <2>01. view.edges[e].ends \in D \X D /\ s \in {a, b}
      BY <1>5, <2>0
    <2>1. s \in {a, b} /\ a \in D /\ b \in D /\ view.edges[e].ends = <<a, b>>
      BY <2>01
    <2> HIDE DEF a, b
    <2>2. PICK t \in D : view.edges[e].ends \in {<<s, t>>, <<t, s>>}
      BY <2>1
    <2> DEFINE n == [subject |-> t, edge |-> e]
    <2>3. n \in [subject : D, edge : Left(hidden)] /\ n.edge = e /\ n.subject = t
      OBVIOUS
    <2>4. Joins(Left(hidden), e, s, t)
      BY <2>2 DEF Joins
    <2> HIDE DEF n
    <2> QED
      BY <1>3, <2>3, <2>4
  <1>8. lost = Left(hidden) \ Left(more)
    BY <1>6, <1>7
  <1> HIDE DEF lost
  <1>9. ASSUME NEW t \in D
        PROVE  y.neighbors[t] = {n \in [subject : D, edge : Left(more)] :
                                    Joins(Left(more), n.edge, t, n.subject)}
    <2>1. CASE t = s
      <3>1. y.neighbors[t] = {}
        BY <1>1, <1>2, <2>1
      <3>2. ASSUME NEW n \in [subject : D, edge : Left(more)],
                   Joins(Left(more), n.edge, t, n.subject)
            PROVE  FALSE
        <4>1. s \in Pinned(n.edge)
          <5>1. n.edge \in Used
            BY <1>4, <3>2
          <5> QED
            BY <2>1, <3>2, <5>1, JoinsPinned
        <4> QED
          BY <1>4, <3>2, <4>1
      <3> QED
        BY <3>1, <3>2
    <2>2. CASE t # s
      <3>1. \A n : n \in y.neighbors[t] <=> n \in x.neighbors[t] /\ n.edge \notin Left(hidden) \ Left(more)
        BY <1>1, <1>2, <1>8, <2>2
      <3>2. \A n : n \in y.neighbors[t] <=> /\ n \in [subject : D, edge : Left(more)]
                                            /\ Joins(Left(more), n.edge, t, n.subject)
        <4> SUFFICES ASSUME NEW n
                     PROVE  n \in y.neighbors[t] <=> /\ n \in [subject : D, edge : Left(more)]
                                                      /\ Joins(Left(more), n.edge, t, n.subject)
          OBVIOUS
        <4>1. n \in x.neighbors[t] <=> /\ n \in [subject : D, edge : Left(hidden)]
                                        /\ Joins(Left(hidden), n.edge, t, n.subject)
          BY <1>3
        <4>2. n \in [subject : D, edge : Left(more)]
                 <=> n \in [subject : D, edge : Left(hidden)] /\ n.edge \in Left(more)
          BY <1>4
        <4>3. n.edge \in Left(more) => (Joins(Left(more), n.edge, t, n.subject)
                                           <=> Joins(Left(hidden), n.edge, t, n.subject))
          BY <1>4 DEF Joins
        <4>4. n \in [subject : D, edge : Left(hidden)] => n.edge \in Left(hidden)
          OBVIOUS
        <4>5. n \in y.neighbors[t] <=> n \in x.neighbors[t] /\ n.edge \notin Left(hidden) \ Left(more)
          BY <3>1
        <4> HIDE DEF more
        <4> QED
          BY <4>1, <4>2, <4>3, <4>4, <4>5
      <3> QED
        BY <3>2
    <2> QED
      BY <2>1, <2>2
  <1>10. Net(y, D, Left(more))
    <2>1. \A e \in Left(more) : view.edges[e].ends \in D \X D
      BY <1>4, <1>5
    <2> QED
      BY <1>9, <2>1 DEF Net
  <1>11. DOMAIN y.neighbors = D
    BY <1>1, <1>2
  <1>12. y.subjects = [t \in D |-> IF t \in more THEN Seen(t, asOf) ELSE g.subjects[t]]
    BY <1>1, <1>2
  <1>13. Sights(y) = Sights(g) \cup {<<e, Pinned(e)>> : e \in Used \ Left(more)}
    <2>1. {<<n.edge, {s, n.subject}>> : n \in x.neighbors[s]}
          = {<<e, Pinned(e)>> : e \in Left(hidden) \ Left(more)}
      <3> DEFINE gone == Left(hidden) \ Left(more)
                 N == x.neighbors[s]
      <3>1. \A n \in N : n.edge \in gone /\ {s, n.subject} = Pinned(n.edge)
        BY <1>6
      <3>2. \A e \in gone : \E n \in N : n.edge = e
        BY <1>7
      <3> HIDE DEF gone, N
      <3>3. {<<n.edge, {s, n.subject}>> : n \in N} = {<<n.edge, Pinned(n.edge)>> : n \in N}
        BY <3>1
      <3>4. {<<n.edge, Pinned(n.edge)>> : n \in N} = {<<e, Pinned(e)>> : e \in gone}
        BY <3>1, <3>2
      <3> QED
        BY <3>3, <3>4 DEF gone, N
    <2>2. Used \ Left(more) = (Used \ Left(hidden)) \cup (Left(hidden) \ Left(more))
      BY <1>4
    <2>3. {<<e, Pinned(e)>> : e \in Used \ Left(more)}
          = {<<e, Pinned(e)>> : e \in Used \ Left(hidden)}
            \cup {<<e, Pinned(e)>> : e \in Left(hidden) \ Left(more)}
      BY <2>2
    <2> QED
      BY <1>1, <1>2, <2>1, <2>3
  <1> HIDE DEF more
  <1>14. Veiled(g, asOf, more, y)
    BY <1>10, <1>11, <1>12, <1>13 DEF Veiled
  <1> QED
    BY <1>14 DEF y, more

(* The subjects that as_of hides.                                          *)
Hidable(g, asOf) ==
    {s \in DOMAIN g.subjects : g.subjects[s] = "resolved" /\ Seen(s, asOf) # "visible"}

(* One turn of the hiding.                                                 *)
Veil(g, asOf, x, s) == IF s \in Hidable(g, asOf) THEN Hide(x, s, Seen(s, asOf)) ELSE x

(* Hiding them one after another, in the order of their ids.               *)
Veiling(g, asOf, m, f) ==
    f = [i \in 0 .. m |-> IF i = 0 THEN g ELSE Veil(g, asOf, f[i - 1], i)]

(* The hiding, turn by turn, exists.                                       *)
LEMMA VeilingExists ==
    ASSUME NEW g, NEW asOf, NEW m \in Nat
    PROVE  \E f : Veiling(g, asOf, m, f)
  <1> DEFINE G == {k \in 0 .. m : \E f : Veiling(g, asOf, k, f)}
  <1>1. 0 \in G
    <2> DEFINE f == [i \in 0 .. 0 |-> g]
    <2>1. \A i \in 0 .. 0 : i = 0
      OBVIOUS
    <2>2. f = [i \in 0 .. 0 |-> IF i = 0 THEN g ELSE Veil(g, asOf, f[i - 1], i)]
      BY <2>1
    <2>3. Veiling(g, asOf, 0, f)
      BY <2>2 DEF Veiling
    <2> QED
      BY <2>3
  <1>2. ASSUME NEW k \in 0 .. m - 1, k \in G PROVE k + 1 \in G
    <2>1. PICK f : Veiling(g, asOf, k, f)
      BY <1>2
    <2> DEFINE h == [i \in 0 .. k + 1 |-> IF i = k + 1 THEN Veil(g, asOf, f[k], k + 1) ELSE f[i]]
    <2>2. k + 1 \in 0 .. m /\ k \in Nat /\ k \in 0 .. k + 1 /\ k # k + 1 /\ k + 1 \in 0 .. k + 1
          /\ (k + 1) - 1 = k /\ k + 1 # 0
      OBVIOUS
    <2>3. h[k + 1] = Veil(g, asOf, f[k], k + 1) /\ h[k] = f[k]
      BY <2>2
    <2>4. \A i \in 0 .. k : h[i] = f[i] /\ (i # 0 => i - 1 \in 0 .. k /\ h[i - 1] = f[i - 1])
      BY <2>2
    <2>5. \A i \in 0 .. k : f[i] = IF i = 0 THEN g ELSE Veil(g, asOf, f[i - 1], i)
      BY <2>1 DEF Veiling
    <2>6. \A i \in 0 .. k + 1 : i \in 0 .. k \/ i = k + 1
      BY <2>2
    <2>7. h = [i \in 0 .. k + 1 |-> h[i]]
      OBVIOUS
    <2> HIDE DEF h
    <2>8. \A i \in 0 .. k + 1 : h[i] = IF i = 0 THEN g ELSE Veil(g, asOf, h[i - 1], i)
      <3> SUFFICES ASSUME NEW i \in 0 .. k + 1
                   PROVE  h[i] = IF i = 0 THEN g ELSE Veil(g, asOf, h[i - 1], i)
        OBVIOUS
      <3>1. CASE i = k + 1
        BY <2>2, <2>3, <3>1
      <3>2. CASE i \in 0 .. k
        BY <2>4, <2>5, <3>2
      <3> QED
        BY <2>6, <3>1, <3>2
    <2>9. Veiling(g, asOf, k + 1, h)
      BY <2>7, <2>8 DEF Veiling
    <2> QED
      BY <2>2, <2>9
  <1>3. 0 .. m \subseteq G
    <2> HIDE DEF G
    <2> QED
      BY <1>1, <1>2, Upward
  <1>4. m \in 0 .. m
    OBVIOUS
  <1> QED
    BY <1>3, <1>4

(* SupportAt is where the hiding ends.                                     *)
LEMMA SupportAtEnds ==
    ASSUME LedgerInv, NEW asOf, NEW g, g = SupportGraph(Retained, view, Curators)
    PROVE  \E f : /\ Veiling(g, asOf, Len(events), f)
                  /\ SupportAt(Retained, view, Curators, asOf, InOrder(events)) = f[Len(events)]
  <1> DEFINE m == Len(events)
             order == InOrder(events)
             hides(s) == s \in DOMAIN g.subjects /\ g.subjects[s] = "resolved" /\ Seen(s, asOf) # "visible"
             Eq(h) == h = [i \in 0 .. Len(order) |->
                             IF i = 0 THEN g
                             ELSE IF hides(order[i]) THEN Hide(h[i - 1], order[i], Seen(order[i], asOf))
                             ELSE h[i - 1]]
             after == CHOOSE h : Eq(h)
  <1>1. m \in Nat
    BY ViewKeepsEvents
  <1>2. Len(order) = m /\ \A i \in 1 .. m : order[i] = i
    BY <1>1 DEF InOrder
  <1>3. \A s : s \in Hidable(g, asOf) <=> hides(s)
    BY DEF Hidable
  <1>4. \A i \in 0 .. m : i # 0 => i \in 1 .. m
    BY <1>1
  <1>5. SupportAt(Retained, view, Curators, asOf, order) = after[Len(order)]
    BY DEF SupportAt, Seen
  <1> HIDE DEF order, hides, m
  <1>6. \A h : Eq(h) <=> Veiling(g, asOf, m, h)
    <2> SUFFICES ASSUME NEW h PROVE Eq(h) <=> Veiling(g, asOf, m, h)
      OBVIOUS
    <2>1. \A i \in 0 .. m : i # 0 =>
             Veil(g, asOf, h[i - 1], i)
             = IF hides(order[i]) THEN Hide(h[i - 1], order[i], Seen(order[i], asOf)) ELSE h[i - 1]
      BY <1>2, <1>3, <1>4 DEF Veil
    <2>2. [i \in 0 .. Len(order) |->
             IF i = 0 THEN g
             ELSE IF hides(order[i]) THEN Hide(h[i - 1], order[i], Seen(order[i], asOf))
             ELSE h[i - 1]]
          = [i \in 0 .. m |-> IF i = 0 THEN g ELSE Veil(g, asOf, h[i - 1], i)]
      BY <1>2, <2>1
    <2> QED
      BY <2>2 DEF Veiling
  <1>7. Eq(after)
    <2>1. PICK f : Veiling(g, asOf, m, f)
      BY <1>1, VeilingExists
    <2>2. Eq(f)
      <3> HIDE DEF Eq
      <3> QED
        BY <1>6, <2>1
    <2> HIDE DEF Eq
    <2> QED
      BY <2>2
  <1> HIDE DEF after, Eq
  <1>8. Veiling(g, asOf, m, after)
    BY <1>6, <1>7
  <1> QED
    BY <1>2, <1>5, <1>8 DEF m, order

(* The graph that queries read is the support graph without the subjects   *)
(* that as_of hides, whatever the order in which they are hidden.          *)
LEMMA SupportAtIs ==
    ASSUME LedgerInv, NEW asOf, NEW g, g = SupportGraph(Retained, view, Curators)
    PROVE  Veiled(g, asOf, Hidable(g, asOf),
                  SupportAt(Retained, view, Curators, asOf, InOrder(events)))
  <1> DEFINE m == Len(events)
             H == Hidable(g, asOf)
             D == DOMAIN view.state
  <1>1. m \in Nat /\ D \subseteq 1 .. m
    BY ViewKeepsEvents
  <1>2. DOMAIN g.subjects = D /\ g.subjects = [s \in D |-> g.subjects[s]]
    BY GraphSights
  <1>3. H \subseteq D
    BY <1>2 DEF Hidable
  <1>4. PICK f : Veiling(g, asOf, m, f)
                 /\ SupportAt(Retained, view, Curators, asOf, InOrder(events)) = f[m]
    BY SupportAtEnds
  <1>5. f[0] = g /\ \A i \in 0 .. m - 1 : f[i + 1] = Veil(g, asOf, f[i], i + 1)
    <2>1. 0 \in 0 .. m /\ \A i \in 0 .. m - 1 : i + 1 \in 0 .. m /\ i + 1 # 0 /\ (i + 1) - 1 = i
      BY <1>1
    <2> HIDE DEF m
    <2> QED
      BY <1>4, <2>1 DEF Veiling
  <1>6. Veiled(g, asOf, {}, g)
    <2>1. Left({}) = Used
      BY DEF Left
    <2>2. Net(g, D, Used) /\ DOMAIN g.neighbors = D
      BY GraphNet
    <2>3. {<<e, Pinned(e)>> : e \in Used \ Used} = {}
      OBVIOUS
    <2>4. g.subjects = [s \in D |-> IF s \in {} THEN Seen(s, asOf) ELSE g.subjects[s]]
      BY <1>2
    <2>5. Sights(g) = Sights(g) \cup {<<e, Pinned(e)>> : e \in Used \ Left({})}
      BY <2>1, <2>3
    <2> QED
      BY <2>1, <2>2, <2>4, <2>5 DEF Veiled
  <1> HIDE DEF m, H, D
  <1> DEFINE G == {k \in 0 .. m : Veiled(g, asOf, H \cap 1 .. k, f[k])}
  <1>7. 0 \in G
    <2>1. H \cap 1 .. 0 = {}
      OBVIOUS
    <2> QED
      BY <1>1, <1>5, <1>6, <2>1
  <1>8. ASSUME NEW k \in 0 .. m - 1, k \in G PROVE k + 1 \in G
    <2>1. k + 1 \in 0 .. m /\ 1 .. k + 1 = (1 .. k) \cup {k + 1}
      BY <1>1
    <2>2. Veiled(g, asOf, H \cap 1 .. k, f[k]) /\ f[k + 1] = Veil(g, asOf, f[k], k + 1)
      BY <1>5, <1>8
    <2>3. CASE k + 1 \in H
      <3>1. H \cap 1 .. k + 1 = (H \cap 1 .. k) \cup {k + 1}
        BY <2>1, <2>3
      <3>2. f[k + 1] = Hide(f[k], k + 1, Seen(k + 1, asOf))
        BY <2>2, <2>3 DEF Veil, H
      <3>3. k + 1 \in DOMAIN view.state
        BY <1>3, <2>3 DEF D
      <3>4. Veiled(g, asOf, (H \cap 1 .. k) \cup {k + 1}, Hide(f[k], k + 1, Seen(k + 1, asOf)))
        BY <2>2, <3>3, VeiledNext
      <3> QED
        BY <2>1, <3>1, <3>2, <3>4
    <2>4. CASE k + 1 \notin H
      <3>1. H \cap 1 .. k + 1 = H \cap 1 .. k
        BY <2>1, <2>4
      <3>2. f[k + 1] = f[k]
        BY <2>2, <2>4 DEF Veil, H
      <3> QED
        BY <2>1, <2>2, <3>1, <3>2
    <2> QED
      BY <2>3, <2>4
  <1>9. 0 .. m \subseteq G
    <2> HIDE DEF G
    <2> QED
      BY <1>1, <1>7, <1>8, Upward
  <1>10. m \in G
    BY <1>1, <1>9
  <1>11. H \cap 1 .. m = H
    BY <1>1, <1>3
  <1> QED
    BY <1>4, <1>10, <1>11 DEF H

(* A resolved subject is as visible among the retained events as among     *)
(* all.                                                                    *)
LEMMA SeenIs ==
    ASSUME LedgerInv, NEW asOf, NEW s \in DOMAIN view.state, view.state[s] = "resolved"
    PROVE  Seen(s, asOf) = Visibility(events, view, s, asOf)
  <1> DEFINE F == view.frontier[s]
             head == CHOOSE h \in F : TRUE
  <1>1. /\ DOMAIN Envelopes = ValidIds /\ Envelopes = Sub(Retained, ValidIds)
        /\ view.selected = Selections(Envelopes)
        /\ F = Frontier(Envelopes, view.cones, view.authority, s)
        /\ view.state[s] = SubjectState(F)
    BY ViewReadings
  <1>2. F \subseteq ValidIds
    BY <1>1 DEF Frontier
  <1>3. F # {}
    <2> SUFFICES ASSUME F = {} PROVE FALSE
      OBVIOUS
    <2>1. Cardinality(F) = 0
      BY FS_EmptySet
    <2> QED
      BY <1>1, <2>1 DEF SubjectState
  <1>4. head \in ValidIds
    <2> HIDE DEF F
    <2> QED
      BY <1>2, <1>3
  <1>5. view.selected[head] \in ValidIds
    <2>1. Sane(Retained) /\ Solves(Retained, InOrder(events), Judged) /\ ValidIds = ValidIn(Judged)
      BY ViewStatuses
    <2>2. \A id \in ValidIds : Selections(Sub(Retained, ValidIds))[id] \in ValidIds
      BY <2>1, SelectionIsValid
    <2> HIDE DEF head
    <2> QED
      BY <1>1, <1>4, <2>2
  <1>6. Retained[view.selected[head]] = events[view.selected[head]]
    BY <1>5, ViewKeepsEvents
  <1> QED
    BY <1>6 DEF Seen, Visibility

(* The visibilities.                                                       *)
LEMMA SeenKinds ==
    ASSUME NEW s, NEW asOf
    PROVE  Seen(s, asOf) \in {"visible", "asserted_time_unknown", "after_as_of"}
  BY DEF Seen, Visibility

(* The states of a subject.                                                *)
LEMMA StateKinds ==
    ASSUME NEW F
    PROVE  SubjectState(F) \in {"no_current_body", "resolved", "contested"}
  BY DEF SubjectState

(* Hidden or not, a subject is resolved in the graph exactly when it is    *)
(* shown.                                                                  *)
LEMMA GraphSubjects ==
    ASSUME LedgerInv, NEW asOf, NEW g, g = SupportGraph(Retained, view, Curators), NEW x,
           Veiled(g, asOf, Hidable(g, asOf), x)
    PROVE  /\ DOMAIN x.subjects = DOMAIN view.state
           /\ \A s \in DOMAIN view.state : x.subjects[s] = "resolved" <=> s \in Shown(asOf)
           /\ Spoken(x)
  <1> DEFINE D == DOMAIN view.state
             H == Hidable(g, asOf)
  <1>1. x.subjects = [s \in D |-> IF s \in H THEN Seen(s, asOf) ELSE g.subjects[s]]
    BY DEF Veiled
  <1>2. g.subjects = [s \in D |-> IF Trusted(s) THEN view.state[s] ELSE "untrusted_origin"]
    BY GraphSights
  <1>3. \A s \in D : s \in H <=> g.subjects[s] = "resolved" /\ Seen(s, asOf) # "visible"
    BY <1>2 DEF Hidable
  <1>4. \A s \in D : view.state[s] \in {"no_current_body", "resolved", "contested"}
    <2>1. \A s \in D : view.state[s] = SubjectState(view.frontier[s])
      BY ViewReadings
    <2> QED
      BY <2>1, StateKinds
  <1>5. \A s \in D : s \in Shown(asOf) <=> /\ view.state[s] = "resolved" /\ Trusted(s)
                                           /\ Seen(s, asOf) = "visible"
    BY SeenIs DEF Shown, Trusted
  <1>6. \A s \in D : Seen(s, asOf) \in {"visible", "asserted_time_unknown", "after_as_of"}
    BY SeenKinds
  <1> HIDE DEF H
  <1>7. ASSUME NEW s \in D
        PROVE  /\ x.subjects[s] = "resolved" <=> s \in Shown(asOf)
               /\ x.subjects[s] \in {"visible", "asserted_time_unknown", "after_as_of", "no_current_body",
                                     "resolved", "contested", "untrusted_origin"}
    <2>1. x.subjects[s] = IF s \in H THEN Seen(s, asOf) ELSE g.subjects[s]
      BY <1>1
    <2>2. g.subjects[s] = IF Trusted(s) THEN view.state[s] ELSE "untrusted_origin"
      BY <1>2
    <2> QED
      BY <1>3, <1>4, <1>5, <1>6, <2>1, <2>2
  <1>8. DOMAIN x.subjects = D
    BY <1>1
  <1>9. Spoken(x)
    <2> SUFFICES ASSUME NEW s \in D PROVE x.subjects[s] # ""
      BY <1>8 DEF Spoken
    <2> QED
      BY <1>7
  <1> QED
    BY <1>7, <1>8, <1>9

(* The used edges that hiding leaves are the usable ones.                  *)
LEMMA LeftIsUsable ==
    ASSUME LedgerInv, NEW asOf, NEW g, g = SupportGraph(Retained, view, Curators)
    PROVE  Left(Hidable(g, asOf)) = Usable(asOf)
  <1> DEFINE D == DOMAIN view.state
             H == Hidable(g, asOf)
  <1>2. g.subjects = [s \in D |-> IF Trusted(s) THEN view.state[s] ELSE "untrusted_origin"]
    BY GraphSights
  <1>3. \A s \in D : s \in H <=> g.subjects[s] = "resolved" /\ Seen(s, asOf) # "visible"
    BY <1>2 DEF Hidable
  <1>5. \A s \in D : s \in Shown(asOf) <=> /\ view.state[s] = "resolved" /\ Trusted(s)
                                           /\ Seen(s, asOf) = "visible"
    BY SeenIs DEF Shown, Trusted
  <1> HIDE DEF H
  <1>6. \A s \in D : s \in Shown(asOf) <=> view.state[s] = "resolved" /\ Trusted(s) /\ s \notin H
    BY <1>2, <1>3, <1>5
  <1>7. ASSUME NEW e \in DOMAIN view.edges PROVE e \in Left(H) <=> e \in Usable(asOf)
    <2> DEFINE a == view.edges[e].ends[1]
               b == view.edges[e].ends[2]
    <2>1. /\ a \in D /\ b \in D /\ Pinned(e) = {a, b} /\ Range(view.edges[e].ends) = Pinned(e)
      BY UsedEnds
    <2>2. view.edges[e].status = "current" => view.state[a] = "resolved" /\ view.state[b] = "resolved"
      BY ViewEdgesAnchored DEF Anchored
    <2>3. e \in Left(H) <=> /\ view.edges[e].status = "current" /\ view.edges[e].relation # "disputes"
                            /\ view.edges[e].author \in Curators /\ Trusted(a) /\ Trusted(b)
                            /\ {a, b} \cap H = {}
      BY <2>1 DEF Left, Used
    <2>4. e \in Usable(asOf) <=> /\ view.edges[e].status = "current" /\ view.edges[e].relation # "disputes"
                                 /\ view.edges[e].author \in Curators /\ {a, b} \subseteq Shown(asOf)
      BY <2>1 DEF Usable
    <2> HIDE DEF a, b
    <2> QED
      BY <1>6, <2>1, <2>2, <2>3, <2>4
  <1>8. Left(H) \subseteq DOMAIN view.edges /\ Usable(asOf) \subseteq DOMAIN view.edges
    BY DEF Left, Used, Usable
  <1> QED
    BY <1>7, <1>8 DEF H

(* A valid reaffirmation is of a valid edge.                               *)
LEMMA ReaffirmsValid ==
    ASSUME NEW all, NEW s, NEW f, SolvesEdges(all, s, f),
           NEW id \in DOMAIN all, all[id].kind = "edge_reaffirm", f[id].state = "valid"
    PROVE  /\ all[id].edge \in Asserts(all) /\ f[all[id].edge].state = "valid"
           /\ EdgeOf(all, id) = all[id].edge
  <1> DEFINE e == all[id]
             S == Subjects(all, s)
             deps == e.parents \cup {e.edge}
             states == {f[p].state : p \in deps}
  <1>1. id \notin SubjectIds(all)
    BY DEF SubjectIds, IsSubject, EdgeKinds
  <1>2. f \in [DOMAIN all -> Status] /\ f[id] = EvaluateEdge(id, all, f, S)
    BY <1>1 DEF SolvesEdges
  <1>3. \A reason, missing : Invalid(reason).state # "valid" /\ Pending(reason, missing).state # "valid"
    BY DEF Invalid, Pending
  <1> HIDE DEF S
  <1>4. EvaluateReaffirm(all, e, f, S).state = "valid"
    BY <1>2, <1>3 DEF EvaluateEdge
  <1>5. /\ deps \ DOMAIN all = {} /\ all[e.edge].kind = "edge_assert"
        /\ "invalid" \notin states /\ "pending" \notin states
    BY <1>3, <1>4 DEF EvaluateReaffirm
  <1>6. e.edge \in DOMAIN all
    BY <1>5
  <1>7. f[e.edge].state \in {"valid", "invalid", "pending"} /\ f[e.edge].state \in states
    BY <1>2, <1>6 DEF Status
  <1>8. f[e.edge].state = "valid"
    BY <1>5, <1>7
  <1>9. EdgeOf(all, id) = e.edge
    BY DEF EdgeOf
  <1> QED
    BY <1>5, <1>6, <1>8, <1>9 DEF Asserts

(* What no verdict uses and no chain explains is what was refused support, *)
(* and what is not decided or not valid.                                   *)
LEMMA UnusedAre ==
    ASSUME LedgerInv, NEW usable \in SUBSET DOMAIN view.edges
    PROVE  LET edgeEvents == {id \in retained : events[id].kind \in {"edge_assert", "edge_reaffirm"}}
               inChains == UNION {view.edges[e].history \ {e} : e \in DOMAIN view.edges}
           IN  edgeEvents \ (inChains \cup usable) = (DOMAIN view.edges \ usable) \cup Undecided
  <1> DEFINE edgeEvents == {id \in retained : events[id].kind \in {"edge_assert", "edge_reaffirm"}}
             inChains == UNION {view.edges[e].history \ {e} : e \in DOMAIN view.edges}
             E == DOMAIN view.edges
  <1>1. /\ SolvesEdges(Retained, Judged, view.status) /\ DOMAIN view.status = retained
        /\ DOMAIN Retained = retained /\ \A id \in retained : Retained[id] = events[id]
    BY ViewStatuses
  <1>2. /\ E = Asserts(Retained) \cap ValidIn(view.status)
        /\ \A e \in E : view.edges[e].history = ChainOf(Retained, view.status, e)
    BY ViewEdgesAnchored
  <1>3. \A id : id \in E <=> /\ id \in retained /\ events[id].kind = "edge_assert"
                             /\ view.status[id].state = "valid"
    BY <1>1, <1>2 DEF Asserts, ValidIn
  <1>4. \A id : id \in Undecided <=> id \in edgeEvents /\ view.status[id].state # "valid"
    BY <1>1 DEF Undecided
  <1>5. \A id : id \in inChains <=> \E e \in E : id # e /\ id \in view.edges[e].history
    OBVIOUS
  <1>6. \A e \in E : \A id : id \in view.edges[e].history
           <=> /\ id \in retained /\ view.status[id].state = "valid" /\ EdgeOf(Retained, id) = e
    BY <1>1, <1>2 DEF ChainOf, ValidIn
  <1> HIDE DEF inChains, E
  <1>7. ASSUME NEW id \in (E \ usable) \cup Undecided
        PROVE  id \in edgeEvents \ (inChains \cup usable)
    <2>1. CASE id \in E \ usable
      <3>1. id \in edgeEvents
        BY <1>3, <2>1
      <3>2. EdgeOf(Retained, id) = id
        BY <1>1, <1>3, <2>1 DEF EdgeOf
      <3>3. id \notin inChains
        BY <1>5, <1>6, <3>2
      <3> QED
        BY <2>1, <3>1, <3>3
    <2>2. CASE id \in Undecided
      <3>1. id \in edgeEvents /\ view.status[id].state # "valid"
        BY <1>4, <2>2
      <3>2. id \notin inChains
        BY <1>5, <1>6, <3>1
      <3>3. id \notin usable
        BY <1>3, <3>1 DEF E
      <3> QED
        BY <3>1, <3>2, <3>3
    <2> QED
      BY <1>7, <2>1, <2>2
  <1>8. ASSUME NEW id \in edgeEvents \ (inChains \cup usable), id \notin Undecided
        PROVE  id \in E \ usable
    <2>1. id \in retained /\ view.status[id].state = "valid"
      BY <1>4, <1>8
    <2>2. CASE events[id].kind = "edge_assert"
      BY <1>3, <1>8, <2>1, <2>2
    <2>3. CASE events[id].kind = "edge_reaffirm"
      <3> DEFINE e == Retained[id].edge
      <3>1. id \in DOMAIN Retained /\ Retained[id].kind = "edge_reaffirm"
        BY <1>1, <2>1, <2>3
      <3>2. e \in Asserts(Retained) /\ view.status[e].state = "valid" /\ EdgeOf(Retained, id) = e
        BY <1>1, <2>1, <3>1, ReaffirmsValid
      <3> HIDE DEF e
      <3>3. e \in E /\ id # e
        BY <1>1, <1>2, <2>3, <3>2 DEF Asserts, ValidIn
      <3>4. id \in inChains
        BY <1>5, <1>6, <2>1, <3>2, <3>3
      <3> QED
        BY <1>8, <3>4
    <2> QED
      BY <1>8, <2>2, <2>3
  <1> HIDE DEF edgeEvents
  <1>9. edgeEvents \ (inChains \cup usable) = (E \ usable) \cup Undecided
    BY <1>7, <1>8
  <1> QED
    BY <1>9 DEF edgeEvents, inChains, E

(* A graph excludes exactly the edge events T.                             *)
SightsOf(g, T) == Sights(g) = {<<id, Pinned(id)>> : id \in T}

(* Of those, an answer names the ones that touch the queried subjects.     *)
ToldOf(g, T, ends) ==
    {x.event : x \in {y \in g.excluded : y.ends \cap ends # {}}} = {id \in T : Touches(id, ends)}

(* A graph that excludes exactly T tells of T.                             *)
LEMMA SightsTell ==
    ASSUME NEW g, NEW T, SightsOf(g, T), NEW ends
    PROVE  ToldOf(g, T, ends)
  <1>1. \A x \in g.excluded : x.event \in T /\ x.ends = Pinned(x.event)
    <2> SUFFICES ASSUME NEW x \in g.excluded PROVE x.event \in T /\ x.ends = Pinned(x.event)
      OBVIOUS
    <2>1. <<x.event, x.ends>> \in {<<id, Pinned(id)>> : id \in T}
      BY DEF SightsOf, Sights
    <2> QED
      BY <2>1
  <1>2. \A id \in T : \E x \in g.excluded : x.event = id
    <2> SUFFICES ASSUME NEW id \in T PROVE \E x \in g.excluded : x.event = id
      OBVIOUS
    <2>1. <<id, Pinned(id)>> \in {<<x.event, x.ends>> : x \in g.excluded}
      BY DEF SightsOf, Sights
    <2> QED
      BY <2>1
  <1>3. \A id : Touches(id, ends) <=> Pinned(id) \cap ends # {}
    BY DEF Touches, Pinned
  <1> QED
    BY <1>1, <1>2, <1>3 DEF ToldOf

(* In every state of the ledger each verdict is exact.                     *)
LEMMA VerdictsAreExact == LedgerInv => VerdictIsExact
  <1> SUFFICES ASSUME LedgerInv PROVE VerdictIsExact
    OBVIOUS
  <1> DEFINE edgeEvents == {id \in retained : events[id].kind \in {"edge_assert", "edge_reaffirm"}}
             inChains == UNION {view.edges[e].history \ {e} : e \in DOMAIN view.edges}
             D == DOMAIN view.state
             Graph(asOf) == SupportAt(Retained, view, Curators, asOf, InOrder(events))
             Exact(asOf, from, to, answer) ==
                 /\ answer.supported <=> /\ from # to /\ {from, to} \subseteq Shown(asOf)
                                         /\ to \in Within(Usable(asOf), from, MaxHops)
                 /\ answer.supported =>
                       /\ Range(answer.path) \subseteq Usable(asOf)
                       /\ Along(answer.path, from) = to
                       /\ to \notin Within(Usable(asOf), from, Len(answer.path) - 1)
                 /\ {x.event : x \in answer.excluded} =
                       {id \in edgeEvents \ (inChains \cup Usable(asOf)) : Touches(id, {from, to})}
  <1>1. ASSUME NEW asOf, NEW from \in D, NEW to \in D
        PROVE  Exact(asOf, from, to, Query(Graph(asOf), from, to, MaxHops))
    <2> DEFINE g == SupportGraph(Retained, view, Curators)
               x == Graph(asOf)
               U == Usable(asOf)
               T == edgeEvents \ (inChains \cup U)
               answer == Query(x, from, to, MaxHops)
    <2>1. Veiled(g, asOf, Hidable(g, asOf), x)
      BY SupportAtIs
    <2>2. Left(Hidable(g, asOf)) = U
      BY LeftIsUsable
    <2> HIDE DEF g, x
    <2>3. /\ DOMAIN x.subjects = D /\ Spoken(x)
          /\ \A s \in D : x.subjects[s] = "resolved" <=> s \in Shown(asOf)
      BY <2>1, GraphSubjects DEF g
    <2>4. Net(x, D, U) /\ Sights(x) = Sights(g) \cup {<<e, Pinned(e)>> : e \in Used \ U}
      BY <2>1, <2>2 DEF Veiled
    <2>5. Sights(g) = {<<e, Pinned(e)>> : e \in DOMAIN view.edges \ Used}
                      \cup {<<id, Pinned(id)>> : id \in Undecided}
      BY GraphSights DEF g
    <2>6. U \subseteq DOMAIN view.edges /\ Used \subseteq DOMAIN view.edges /\ U \subseteq Used
      BY <2>2 DEF Usable, Used, Left
    <2>7. T = (DOMAIN view.edges \ U) \cup Undecided
      BY <2>6, UnusedAre
    <2> HIDE DEF U, T
    <2>8. SightsOf(x, T)
      <3>1. DOMAIN view.edges \ U = (DOMAIN view.edges \ Used) \cup (Used \ U)
        BY <2>6
      <3>2. T = (DOMAIN view.edges \ Used) \cup (Used \ U) \cup Undecided
        BY <2>7, <3>1
      <3>3. {<<id, Pinned(id)>> : id \in T}
            = {<<e, Pinned(e)>> : e \in DOMAIN view.edges \ Used}
              \cup {<<e, Pinned(e)>> : e \in Used \ U}
              \cup {<<id, Pinned(id)>> : id \in Undecided}
        BY <3>2
      <3> QED
        BY <2>4, <2>5, <3>3 DEF SightsOf
    <2>9. /\ answer.excluded = {y \in x.excluded : y.ends \cap {from, to} # {}}
          /\ answer.supported <=> /\ x.subjects[from] = "resolved" /\ x.subjects[to] = "resolved"
                                  /\ from # to /\ to \in Within(U, from, MaxHops)
          /\ answer.supported => /\ Range(answer.path) \subseteq U
                                 /\ Along(answer.path, from) = to
                                 /\ to \notin Within(U, from, Len(answer.path) - 1)
      <3>1. Tells(x, U, from, to, MaxHops, answer)
        BY <2>3, <2>4, QueryIs, HopsAssumption
      <3> HIDE DEF answer
      <3> QED
        BY <3>1 DEF Tells
    <2> HIDE DEF answer
    <2>10. {y.event : y \in answer.excluded} = {id \in T : Touches(id, {from, to})}
      <3> DEFINE ends == {from, to}
      <3>1. answer.excluded = {y \in x.excluded : y.ends \cap ends # {}}
        BY <2>9
      <3> HIDE DEF ends
      <3>2. {y.event : y \in {z \in x.excluded : z.ends \cap ends # {}}} = {id \in T : Touches(id, ends)}
        <4>1. ToldOf(x, T, ends)
          BY <2>8, SightsTell
        <4> QED
          BY <4>1 DEF ToldOf
      <3>3. {y.event : y \in answer.excluded} = {id \in T : Touches(id, ends)}
        BY <3>1, <3>2
      <3> QED
        BY <3>3 DEF ends
    <2>11. answer.supported <=> /\ from # to /\ {from, to} \subseteq Shown(asOf)
                                /\ to \in Within(U, from, MaxHops)
      BY <2>3, <2>9
    <2>12. Exact(asOf, from, to, answer)
      BY <2>9, <2>10, <2>11 DEF U, T
    <2> HIDE DEF Exact
    <2> QED
      BY <2>12 DEF answer, x
  <1>2. \A asOf : \A from, to \in D : Exact(asOf, from, to, Query(Graph(asOf), from, to, MaxHops))
    <2> HIDE DEF Exact, Graph, D
    <2> QED
      BY <1>1
  <1>3. VerdictIsExact <=>
          (edgeEvents # {} => \A asOf \in Coordinates : \A from, to \in D :
                                 Exact(asOf, from, to, Query(Graph(asOf), from, to, MaxHops)))
    BY DEF VerdictIsExact, Retained
  <1> HIDE DEF Exact, Graph, D
  <1> QED
    BY <1>2, <1>3

(* Snapshot::verdict: in every state, an answer is Supported exactly when  *)
(* the two subjects are shown and joined by usable edges within max_hops,  *)
(* then by a shortest path of them, and it names exactly the edge events   *)
(* that touch either subject and support nothing.                          *)
THEOREM VerdictsAlwaysExact == Spec => []VerdictIsExact
  BY VerdictsAreExact, ViewIsTheFold, PTL
=============================================================================
