------------------------------- MODULE EventLog -------------------------------
(***************************************************************************)
(* The v0 ledger (crates/cc-ledger/src/lib.rs): signed events are inserted *)
(* into the append-only table `events` and, in the same READ COMMITTED     *)
(* transaction, folded into the tables of the view.  Three kinds of        *)
(* transaction run side by side: a plain commit (migrator, anchor), the    *)
(* HTTP commit of the node with its subject checks                         *)
(* (crates/cc-node/src/admission.rs), and rebuild.                         *)
(*                                                                         *)
(* Event ids are numbered in the canonical order (event_time, event_id),   *)
(* so the canonically earliest of several events is the least number.      *)
(* PostgreSQL is external: a table or row lock is a pair in `holds` of the *)
(* transaction that has it, kept until the transaction ends; an insert     *)
(* into `events` updates the single row of event_digest by a trigger       *)
(* (migrations/0006_event_digest.sql), which is the row lock "digest".     *)
(***************************************************************************)
EXTENDS Integers, FiniteSets, Sequences, SequencesExt

CONSTANTS Event,          \* event id -> its signed content
          Worlds,         \* what happens in one behaviour: the ids signed outside the
                          \* publisher, the connections and candidates that come up
          Writers,        \* plain connections: migrator, anchor
          Clients,        \* requests the node is serving
          Rebuilders,     \* operators running rebuild
          Publishers,     \* runs of cc-publisher publish: module Publication
          MaxChain        \* MAX_CHAIN

ASSUME LogAssumption == MaxChain \in Nat \ {0} /\ DOMAIN Event \subseteq Nat \ {0}

Ids == DOMAIN Event
None == 0
Held == 0                 \* chain_root: an ancestor has not been seen
Overrun == -1             \* a walk reached MAX_CHAIN

VARIABLES events,         \* ids committed to the table events
          view,           \* the committed view
          tx,             \* the transaction of every connection
          settled,        \* how often cc-anchor has changed the rows of roots and anchors
          world           \* one of Worlds: [ids, conns, cands, settles]

vars == <<events, view, tx, settled, world>>
Conns == Writers \union Clients \union Rebuilders \union Publishers
-----------------------------------------------------------------------------
(***************************************************************************)
(* The projector: one event folded into the view `v`, `db` being the       *)
(* events the transaction can see, the new one included.                   *)
(***************************************************************************)
Stats0 == [rows |-> 1, entity |-> 0, moment |-> 0, edge |-> 0, attestation |-> 0,
           contested |-> 0, cross |-> 0]
NoStats == [Stats0 EXCEPT !.rows = 0]
EmptyView == [entities |-> <<>>, vocabulary |-> <<>>, moments |-> <<>>,
              edges |-> <<>>, attestations |-> {}, stats |-> NoStats]

Kinds == {"entity", "moment", "edge", "attestation", "vocabulary"}
ASSUME KindAssumption == \A e \in Ids : Event[e].kind \in Kinds
Parent(e) == Event[e].supersedes
IsMoment(e) == Event[e].kind = "moment"
Put(f, k, row) == [x \in DOMAIN f \union {k} |-> IF x = k THEN row ELSE f[x]]

(* ensure_stats_row: the row is there from the first folded event on.      *)
StatsRow(v) == [v.stats EXCEPT !.rows = 1]
Bump(v, column) == [v EXCEPT !.stats[column] = @ + 1]

(* Both walks are loops of at most MAX_CHAIN turns, and an error if the    *)
(* last of them finds no end: where the last turn stands.                  *)
Walk(step, start) ==
  LET at[n \in 0 .. MaxChain - 1] == IF n = 0 THEN start ELSE step[at[n - 1]]
  IN  at[MaxChain - 1]

(* Walk supersedes up to the root; a parent that is no moment is no parent.*)
HasParent(db, m) == Parent(m) \in db /\ IsMoment(Parent(m))
Climb(db) == [m \in Ids |-> IF HasParent(db, m) THEN Parent(m) ELSE m]
ChainRoot(db, e) ==
  LET top == Walk(Climb(db), e)
  IN  IF HasParent(db, top) THEN Overrun
      ELSE IF Parent(top) \notin db \union {None} THEN Held
      ELSE top

Children(db, e) == {c \in db : IsMoment(c) /\ Parent(c) = e}
Earliest(S) == CHOOSE m \in S : \A n \in S : m <= n

(* Walk down from the root, the canonically earliest child at every step.  *)
Descend(db) == [m \in Ids |-> IF Children(db, m) = {} THEN m ELSE Earliest(Children(db, m))]
ChainHead(db, root) ==
  LET end == Walk(Descend(db), root)
  IN  IF Children(db, end) = {} THEN end ELSE Overrun

(* The row of a chain takes every column from its head.                    *)
MomentColumns(head) == [head |-> head, subject |-> Event[head].subject,
                        body |-> Event[head].body, by |-> Event[head].author]

ProjectMomentAt(v, root, head) ==
  LET row == [v EXCEPT !.moments = Put(@, root, MomentColumns(head))]
  IN  IF root \in DOMAIN v.moments THEN row ELSE Bump(row, "moment")
ProjectMoment(db, v, e) ==
  IF ChainRoot(db, e) = Held THEN v
  ELSE ProjectMomentAt(v, ChainRoot(db, e), ChainHead(db, ChainRoot(db, e)))

(* refresh_edge for each of `eds`, which does not look at other edges: an  *)
(* edge whose endpoints both have a birth is contested, and counts as      *)
(* crossing writers when the surviving births have different authors.      *)
Known(v, ed) == {Event[ed].src, Event[ed].dst} \subseteq DOMAIN v.entities
Crosses(v, ed) == Event[v.entities[Event[ed].src]].author # Event[v.entities[Event[ed].dst]].author
Crossed(v, ed) == v.edges[ed].in_g /\ v.edges[ed].cross
RefreshEdges(v, eds) ==
  LET known == {ed \in eds : Known(v, ed)}
      joined == {ed \in known : ~ v.edges[ed].in_g}
      risen == {ed \in known : Crosses(v, ed) /\ ~ Crossed(v, ed)}
      fallen == {ed \in known : Crossed(v, ed) /\ ~ Crosses(v, ed)}
  IN  [v EXCEPT !.edges = [ed \in DOMAIN v.edges |->
                             IF ed \in known THEN [in_g |-> TRUE, cross |-> Crosses(v, ed)]
                             ELSE v.edges[ed]],
                !.stats.contested = @ + Cardinality(joined),
                !.stats.cross = @ + Cardinality(risen) - Cardinality(fallen)]

Incident(v, x) == {ed \in DOMAIN v.edges : x \in {Event[ed].src, Event[ed].dst}}
RefreshIncidentEdges(v, x) == RefreshEdges(v, Incident(v, x))

(* Mutant: a new survivor does not refresh the edges of its entity.        *)
ProjectEntity_NoRefresh(v, e) ==
  LET x == Event[e].entity
      row == [v EXCEPT !.entities = Put(@, x, e)]
  IN  IF x \notin DOMAIN v.entities THEN RefreshIncidentEdges(Bump(row, "entity"), x)
      ELSE IF e < v.entities[x] THEN row
      ELSE v

(* Two births may claim one entity: the canonically earliest survives.     *)
ProjectEntity(v, e) ==
  LET x == Event[e].entity
      row == [v EXCEPT !.entities = Put(@, x, e)]
  IN  IF x \notin DOMAIN v.entities THEN RefreshIncidentEdges(Bump(row, "entity"), x)
      ELSE IF e < v.entities[x] THEN RefreshIncidentEdges(row, x)
      ELSE v

ProjectVocabulary(v, e) ==
  LET code == Event[e].code
  IN  IF code \notin DOMAIN v.vocabulary \/ e < v.vocabulary[code]
      THEN [v EXCEPT !.vocabulary = Put(@, code, e)]
      ELSE v

ProjectEdge(v, e) ==
  IF e \in DOMAIN v.edges THEN v
  ELSE RefreshEdges(Bump([v EXCEPT !.edges = Put(@, e, [in_g |-> FALSE, cross |-> FALSE])],
                         "edge"), {e})

ProjectAttestation(v, e) ==
  IF e \in v.attestations THEN v
  ELSE Bump([v EXCEPT !.attestations = @ \union {e}], "attestation")

Apply(db, v, e) ==
  LET w == [v EXCEPT !.stats = StatsRow(v)]
  IN  CASE Event[e].kind = "entity"      -> ProjectEntity(w, e)
        [] Event[e].kind = "moment"      -> ProjectMoment(db, w, e)
        [] Event[e].kind = "edge"        -> ProjectEdge(w, e)
        [] Event[e].kind = "attestation" -> ProjectAttestation(w, e)
        [] OTHER                         -> ProjectVocabulary(w, e)

(* LedgerError::Corruption: the transaction, and so the event, is refused. *)
Corrupt(db, e) ==
  \/ Event[e].kind = "vocabulary" /\ Event[e].code = 0
  \/ /\ IsMoment(e)
     /\ \/ ChainRoot(db, e) = Overrun
        \/ ChainRoot(db, e) # Held /\ ChainHead(db, ChainRoot(db, e)) = Overrun
-----------------------------------------------------------------------------
(***************************************************************************)
(* Locks.  AS is taken by a read, RX by a write, SRX by LOCK TABLE, AX by  *)
(* TRUNCATE; "row" stands for the lock of a single row, "share" for its    *)
(* shared form, FOR SHARE.                                                 *)
(***************************************************************************)
Conflicts(a, b) == \/ "AX" \in {a, b} \/ "row" \in {a, b}
                   \/ "SRX" \in {a, b} /\ "AS" \notin {a, b}

(* The transactions that keep t from taking the locks `ls`.                *)
Blockers(t, ls) == {u \in Conns \ {t} :
                      \E l \in ls, h \in tx[u].holds : l[1] = h[1] /\ Conflicts(l[2], h[2])}

(* The tables the projection of e reads and writes.                        *)
ApplyLocks(db, v, e) ==
  CASE Event[e].kind = "entity" ->
         {<<"entities", "RX">>,
          <<"edges", IF Incident(v, Event[e].entity) = {} THEN "AS" ELSE "RX">>}
    [] Event[e].kind = "moment" ->
         IF ChainRoot(db, e) = Held THEN {} ELSE {<<"moments", "RX">>}
    [] Event[e].kind = "edge"        -> {<<"edges", "RX">>, <<"entities", "AS">>}
    [] Event[e].kind = "attestation" -> {<<"attestations", "RX">>}
    [] OTHER                         -> {<<"vocabulary", "RX">>}

Idle == [pc |-> "idle", step |-> 1, todo |-> <<>>, mine |-> {}, work |-> EmptyView, dirty |-> FALSE,
         holds |-> {}, since |-> {}, settled |-> 0, root |-> <<>>, out |-> "none",
         cand |-> "none", expected |-> <<>>]

LogInit == /\ events = {} /\ view = EmptyView
           /\ tx = [t \in Conns |-> Idle] /\ settled = 0 /\ world \in Worlds

Base(t) == IF tx[t].dirty THEN tx[t].work ELSE view
Now(t) == Head(tx[t].todo)
Sees(t) == events \union tx[t].mine
Goto(t, pc) == tx' = [tx EXCEPT ![t].pc = pc]
Take(t, ls, pc) == tx' = [tx EXCEPT ![t].pc = pc, ![t].holds = @ \union ls]
TakeNext(t, ls, n, pc) == tx' = [tx EXCEPT ![t].pc = IF tx[t].step = n THEN pc ELSE @,
                                          ![t].step = @ + 1,
                                          ![t].holds = @ \union ls]
End(t) == tx' = [tx EXCEPT ![t] = Idle]

(* Mutants: the node locks only the edges, or entities before moments.     *)
HttpLocks_EdgesOnly == <<"edges">>
HttpLocks_EntitiesFirst == <<"entities", "edges", "moments">>

(* LOCK TABLE takes its tables in the order they are named.                *)
HttpLocks == <<"moments", "edges", "entities">>
TruncateLocks == <<"entities", "moments", "edges", "attestations", "vocabulary", "stats">>

(* What t has to take before its next step can run.                        *)
Wanted(t) ==
  CASE tx[t].pc = "lock"     -> {<<HttpLocks[tx[t].step], "SRX">>}
    [] tx[t].pc = "truncate" -> {<<TruncateLocks[tx[t].step], "AX">>}
    [] tx[t].pc = "row"     -> {<<tx[t].cand, "row">>}
    [] tx[t].pc = "control" -> {<<"control", "share">>}
    [] tx[t].pc = "moments" -> {<<"moments", "SRX">>}
    [] tx[t].pc = "digest" -> {<<"digest", "row">>}
    [] tx[t].pc = "stats"  -> {<<"stats", "RX">>}
    [] tx[t].pc = "apply"  -> ApplyLocks(Sees(t), Base(t), Now(t))
    [] OTHER -> {}
SameEvent(t) == {u \in Conns \ {t} : tx[t].pc = "insert" /\ Now(t) \in tx[u].mine}
WaitsFor(t) == Blockers(t, Wanted(t)) \union SameEvent(t)
-----------------------------------------------------------------------------
(* cc_ledger::commit of one event by the migrator or the anchor.           *)
Commit(t, e) ==
  /\ tx[t].pc = "idle" /\ t \in world.conns /\ e \in world.ids
  /\ tx' = [tx EXCEPT ![t].pc = "insert", ![t].todo = <<e>>]
  /\ UNCHANGED <<events, view, world, settled>>

(* append_tx: INSERT ... ON CONFLICT DO NOTHING.  It waits for a           *)
(* transaction that has inserted the same id; a union is not projected.    *)
Skip(t) == tx' = [tx EXCEPT ![t].todo = Tail(@),
                            ![t].pc = IF Len(tx[t].todo) = 1 THEN "commit" ELSE "insert"]
AppendTx(t) ==
  /\ tx[t].pc = "insert" /\ SameEvent(t) = {}
  /\ IF Now(t) \in Sees(t) THEN Skip(t)
     ELSE tx' = [tx EXCEPT ![t].pc = "digest", ![t].mine = @ \union {Now(t)}]
  /\ UNCHANGED <<events, view, world, settled>>

(* Mutant: the digest is not maintained by a row that every insert locks.  *)
LockDigest_Unlocked(t) == /\ tx[t].pc = "digest"
                          /\ Goto(t, "stats")
                          /\ UNCHANGED <<events, view, world, settled>>

(* The trigger on events, and the first statement of apply.                *)
LockDigest(t) == /\ tx[t].pc = "digest" /\ WaitsFor(t) = {}
                 /\ Take(t, Wanted(t), "stats")
                 /\ UNCHANGED <<events, view, world, settled>>
EnsureStatsRow(t) == /\ tx[t].pc = "stats" /\ WaitsFor(t) = {}
                     /\ Take(t, Wanted(t), "apply")
                     /\ UNCHANGED <<events, view, world, settled>>

(* apply: fold the event; Corruption ends the transaction.                 *)
Project(t) ==
  /\ tx[t].pc = "apply" /\ WaitsFor(t) = {}
  /\ IF Corrupt(Sees(t), Now(t)) THEN End(t)
     ELSE tx' = [tx EXCEPT ![t].work = Apply(Sees(t), Base(t), Now(t)),
                           ![t].dirty = TRUE,
                           ![t].holds = @ \union Wanted(t),
                           ![t].todo = Tail(@),
                           ![t].pc = IF Len(tx[t].todo) = 1 THEN "commit" ELSE "insert"]
  /\ UNCHANGED <<events, view, world, settled>>

CommitTx(t) ==
  /\ tx[t].pc = "commit"
  /\ events' = events \union tx[t].mine
  /\ view' = Base(t)
  /\ End(t)
  /\ UNCHANGED <<world, settled>>

(* A connection, or its process, dies, or PostgreSQL ends a deadlock.      *)
Abort(t) == tx[t].pc # "idle" /\ End(t) /\ UNCHANGED <<events, view, world, settled>>
-----------------------------------------------------------------------------
(* The node's commit: table locks first, then the checks, then append.     *)
BeginHttp(t, e) ==
  /\ tx[t].pc = "idle" /\ t \in world.conns /\ e \in world.ids
  /\ tx' = [tx EXCEPT ![t].pc = "lock", ![t].todo = <<e>>]
  /\ UNCHANGED <<events, view, world, settled>>

LockTables(t) ==
  /\ tx[t].pc = "lock" /\ WaitsFor(t) = {}
  /\ TakeNext(t, Wanted(t), Len(HttpLocks), "check")
  /\ UNCHANGED <<events, view, world, settled>>

RowsOf(x) == {view.moments[r] : r \in {r \in DOMAIN view.moments : view.moments[r].subject = x}}
Incidents(x) == Incident(view, x) # {}
Names(e) == Event[e].name
HeadRow(e) == {view.moments[r] : r \in {r \in DOMAIN view.moments : view.moments[r].head = e}}

AdmitEntity(e) ==
  LET x == Event[e].entity
  IN  IF x \in DOMAIN view.entities THEN Names(view.entities[x]) = Names(e)
      ELSE RowsOf(x) = {} /\ ~ Incidents(x)
AdmitMoment(e) ==
  LET x == Event[e].subject
  IN  /\ x \in DOMAIN view.entities
      /\ \A r \in RowsOf(x) : r.body = Event[e].body
      /\ RowsOf(x) = {} => ~ Incidents(x)
      /\ Parent(e) # None => \E r \in HeadRow(Parent(e)) : r.subject = x /\ r.body = Event[e].body
      /\ ~ \E c \in events : Parent(c) = e
AdmitEdge(e) ==
  \A x \in {Event[e].src, Event[e].dst} :
    /\ x \in DOMAIN view.entities
    /\ Cardinality({r.body : r \in RowsOf(x)}) = 1

(* check: a refusal is a conflict answer, and the transaction ends.        *)
Check(e) == CASE Event[e].kind = "entity" -> AdmitEntity(e)
              [] Event[e].kind = "moment" -> AdmitMoment(e)
              [] Event[e].kind = "edge"   -> AdmitEdge(e)
              [] OTHER -> TRUE
CheckHttp(t) ==
  /\ tx[t].pc = "check"
  /\ IF Now(t) \in events \/ Check(Now(t)) THEN Goto(t, "insert") ELSE End(t)
  /\ UNCHANGED <<events, view, world, settled>>
-----------------------------------------------------------------------------
(* cc-anchor adds or changes a row of roots or anchors, in a statement     *)
(* that commits no event: a root is sealed or gets its moment, an anchor   *)
(* is stamped or confirmed.  None of these brings an earlier row back, so  *)
(* the number of changes stands for the rows, which no projector reads.    *)
(* The tick of cc-anchor itself is module Anchor.                          *)
Settle == /\ settled < world.settles
          /\ settled' = settled + 1
          /\ UNCHANGED <<events, view, tx, world>>

(* rebuild: view_root, then TRUNCATE and fold in one transaction, then     *)
(* view_root again.  Both digests are read outside the transaction.  Each  *)
(* is a hash over the rows of every table, roots and anchors included,     *)
(* which rebuild does not truncate, so it tells two views apart, and two   *)
(* states of the settlement; taxonomy_tags is hashed too, but nothing      *)
(* writes it.  `since` and `settled` are histories: what the first digest  *)
(* was taken of.                                                           *)
ViewRoot(v, rows) ==
  <<v.entities, v.vocabulary, v.moments, v.edges, v.attestations, rows, v.stats>>
BeginRebuild(t) ==
  /\ tx[t].pc = "idle" /\ t \in world.conns
  /\ tx' = [tx EXCEPT ![t].pc = "truncate", ![t].root = ViewRoot(view, settled),
                      ![t].since = events, ![t].settled = settled]
  /\ UNCHANGED <<events, view, world, settled>>
Truncate(t) ==
  /\ tx[t].pc = "truncate" /\ WaitsFor(t) = {}
  /\ TakeNext(t, Wanted(t), Len(TruncateLocks), "fold")
  /\ UNCHANGED <<events, view, world, settled>>
Canonical(S) == [n \in 1 .. Cardinality(S) |->
                   CHOOSE e \in S : Cardinality({x \in S : x < e}) = n - 1]
Refold(S) ==
  LET fold[n \in 0 .. Cardinality(S)] ==
        IF n = 0 THEN EmptyView ELSE Apply(S, fold[n - 1], Canonical(S)[n])
  IN  fold[Cardinality(S)]

(* The fold and its commit; a Corruption rolls the truncation back.        *)
Rebuild(t) ==
  /\ tx[t].pc = "fold"
  /\ IF \E e \in events : Corrupt(events, e) THEN End(t) /\ UNCHANGED view
     ELSE /\ view' = Refold(events)
          /\ tx' = [tx EXCEPT ![t].pc = "after", ![t].holds = {}]
  /\ UNCHANGED <<events, world, settled>>
Compare(t) ==
  /\ tx[t].pc = "after"
  /\ tx' = [tx EXCEPT ![t].pc = "report", ![t].root = <<>>,
                      ![t].out = IF ViewRoot(view, settled) = tx[t].root THEN "same" ELSE "diverged"]
  /\ UNCHANGED <<events, view, world, settled>>

TxNext ==
  \/ \E t \in Writers, e \in Ids : Commit(t, e)
  \/ \E t \in Clients, e \in Ids : BeginHttp(t, e)
  \/ \E t \in Clients : LockTables(t) \/ CheckHttp(t)
  \/ \E t \in Rebuilders : BeginRebuild(t) \/ Truncate(t) \/ Rebuild(t) \/ Compare(t)
  \/ \E t \in Conns : AppendTx(t) \/ LockDigest(t) \/ EnsureStatsRow(t) \/ Project(t)
                      \/ Abort(t)
  \/ \E t \in Writers \union Clients : CommitTx(t)
LogNext == TxNext \/ Settle
LogSpec == LogInit /\ [][LogNext]_vars
-----------------------------------------------------------------------------
(***************************************************************************)
(* The view a set of events stands for, said without walks or deltas.      *)
(***************************************************************************)
Births(S, x) == {e \in S : Event[e].kind = "entity" /\ Event[e].entity = x}
Declarations(S, c) == {e \in S : Event[e].kind = "vocabulary" /\ Event[e].code = c}
Of(S, kind) == {e \in S : Event[e].kind = kind}
Survivor(S, x) == Event[Earliest(Births(S, x))].author
Roots(S) == {e \in Of(S, "moment") : Parent(e) = None \/ (Parent(e) \in S /\ ~ IsMoment(Parent(e)))}

(* The chain of root r: the moments from r on, each but r the earliest     *)
(* correction of the one before it.                                        *)
Line(S, r) == CHOOSE L \in SUBSET Of(S, "moment") :
                /\ r \in L
                /\ \A m \in L \ {r} : Parent(m) \in L /\ m = Earliest(Children(S, Parent(m)))
                /\ \A m \in L : Children(S, m) = {} \/ Earliest(Children(S, m)) \in L
Tip(S, r) == CHOOSE m \in Line(S, r) : Children(S, m) = {}

InG(S, ed) == Births(S, Event[ed].src) # {} /\ Births(S, Event[ed].dst) # {}
Cross(S, ed) == InG(S, ed) /\ Survivor(S, Event[ed].src) # Survivor(S, Event[ed].dst)
ViewOf(S) ==
  [entities |-> [x \in {Event[e].entity : e \in Of(S, "entity")} |-> Earliest(Births(S, x))],
   vocabulary |-> [c \in {Event[e].code : e \in Of(S, "vocabulary")} |-> Earliest(Declarations(S, c))],
   moments |-> [r \in Roots(S) |-> MomentColumns(Tip(S, r))],
   edges |-> [ed \in Of(S, "edge") |-> [in_g |-> InG(S, ed), cross |-> Cross(S, ed)]],
   attestations |-> Of(S, "attestation"),
   stats |-> [rows |-> IF S = {} THEN 0 ELSE 1,
              entity |-> Cardinality({Event[e].entity : e \in Of(S, "entity")}),
              moment |-> Cardinality(Roots(S)),
              edge |-> Cardinality(Of(S, "edge")),
              attestation |-> Cardinality(Of(S, "attestation")),
              contested |-> Cardinality({ed \in Of(S, "edge") : InG(S, ed)}),
              cross |-> Cardinality({ed \in Of(S, "edge") : Cross(S, ed)})]]

(* The ledger implements the atomic log: whatever the arrival order, the   *)
(* conflicting births, the held corrections and the interleaving of        *)
(* transactions and rebuilds, a reader sees whole batches and the view of  *)
(* exactly the events committed, so live fold = batch fold = this one      *)
(* ("arrival order irrelevant, reproject a no-op, and rebuild equal to the *)
(* incremental fold").                                                     *)
Log == INSTANCE AtomicLog WITH log <- events
IsAtomicLog == Log!Spec

(* "Rebuild equal to the incremental fold": at every moment a rebuild      *)
(* would find the live view.                                               *)
RebuildIsLive == view = Refold(events)

(* rebuild cries divergence ("incremental view != batch view") only when,  *)
(* while it ran, events were committed or cc-anchor changed its rows:      *)
(* never because the live fold and the batch fold differ.                  *)
DivergenceMeansWrites ==
  \A t \in Rebuilders :
    tx[t].out = "diverged" => events # tx[t].since \/ settled # tx[t].settled

(* What the node's check saw of an edge's endpoints still holds when the   *)
(* edge is committed: an edge sent over HTTP joins two subjects that have  *)
(* one body each in the committed view, whatever ran in between.           *)
EdgeJoinsBoundSubjects ==
  [][\A t \in Clients : \A e \in events' \ events :
       (tx[t].pc = "commit" /\ e \in tx[t].mine /\ Event[e].kind = "edge") => AdmitEdge(e)]_vars
=============================================================================
