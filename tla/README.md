# Clockchain: TLA+ models and proofs

Clockchain keeps a signed, append-only graph of historical claims. This
directory models the parts of it in which order, failure and concurrency
matter, checks them with TLC on small instances, and proves what holds for
every instance with TLAPS. Paths below are relative to the repository (`src/`
in `PROJECT.json`); `PROJECT.json` maps every definition to the lines it models.

## 1. The system

| Part | State it keeps | Operations | Works with |
|---|---|---|---|
| v1 store (`cc-ledger/src/v1.rs`, `v1/serving.rs`, `v1/rule.rs`) | tables `identity`, `candidates`, `rejections`, `receipts`, `bodies`, `rule_identity`; one cached snapshot per process | admit, read a committed snapshot, export, restore, bind | the node's handlers call it; it calls the fold |
| v1 fold (`v1.rs` classify, `v1/authority.rs`, `v1/projection.rs`, `v1/edges.rs`) | none: a pure function of the retained envelopes | classify, derive grants and effects, project subjects and edges | store, publisher |
| node (`cc-node`) | posture, keys, pool | v1 routes; v0 reads query by query, guarded v0 commits | store, v0 ledger, filter |
| gateway (`cc-gateway`) | response cache, shared probe, rate-limit table | proxied GETs | clients on one side, one node on the other |
| publisher, v1 (`cc-publisher/src/v1`) | directories of signed events, packets, contexts, `receipt.json` | build, review, submit, submit-packet | the owner, the node over HTTP |
| publisher, v0 (`cc-publisher/src/lib.rs`) | briefs, candidates, approvals, receipts in the database | stage, approve, publish, pause | v0 ledger in one transaction |
| v0 ledger (`cc-ledger/src/lib.rs`) | append-only `events` and projections | commit, project, rebuild | v0 API, anchors, publisher, migrator |
| anchoring (`cc-anchor`) | commitment log, roots, anchors | seal, anchor, upgrade, audit | v0 ledger, OpenTimestamps calendars |
| filter (`cc-filter`) | none: the pinned bundle and parameters | reachability, verdicts, evidence views, audit | node, verifier |
| authoring (`cc-authoring`) | none | admission of entries and batches, identities, calendar | publisher, migrator |
| migrator (`cc-migrator`) | none of its own | genesis, exhibits, batches, edges, vocabulary, mint, mirror | v0 ledger |
| encodings (`cc-core`) | none | canonical bytes of v0 events, v1 wire format | everybody |
| generation worker, operator jobs (`ops/`) | jobs with leases, the seal log, backups, status files | run, seal, monitor, back up, deploy | node, database, external tools |
| verifier, clients, explorer | none | recompute and render | exports, the gateway |

What is hard to test, and what therefore the properties are about:

* **Concurrency.** Handlers of several node processes share one database and
  each process has its own cache; gateway requests share one cache and one
  probe; two runs of a publisher command may overlap.
* **Failure.** Handlers are dropped at any await, processes die between a
  commit and what follows it, acknowledgements are lost, requests time out and
  are served later, files are created and not yet written.
* **Order.** Envelopes arrive before their parents; event ids are hashes, so
  any order may be hash order; node answers overtake one another.
* **Authority.** Grants form a tree, revocations at several depths suppress
  one another, and a retired signer can still sign on top of an old parent.
* **Evidence.** Seals, stamps and confirmations are written by commands that may
  overlap or die between a row and the signed moment that tells of it.
* **Bounds.** The gateway's byte bound and table of clients, and arithmetic at
  the edge of a window.

The list of hazards, each at its line with the properties that cover it, is in
`PROJECT.json`. The parts that make a component correct:

* store: a read is the fold of one committed state that is not older than the
  read, altered bytes are never served, an admission's outcome and receipt
  describe the commit that made it, a restore that succeeds is complete, and no
  failure blocks the next request;
* fold: admission decisions are final, hash and arrival order do not matter,
  revocation reaches strictly downwards, and retired or suppressed acts have no
  effect;
* gateway: bounded staleness, no mixing of corpus digests, no hidden outage,
  shared probes, and a request that always ends; no client above its rate;
* publisher: only what the owner approved is written, nothing undecided is left
  on the node, reports and refusals are truthful, and a repeated run is safe;
* v0 ledger: readers see an atomic log and one function of it, whatever the
  arrival order and the interleaving; publications are whole and as approved;
* anchoring: the stream of roots recomputes and never forks, rows say what signed
  moments say, evidence is never taken back;
* read side: a verdict is true of the record although its queries see different
  commits; migrator: a run that died can be repeated; encodings: one value, one
  string of bytes.

## 2. Modules

| Module | Models | Uses |
|---|---|---|
| `Store` | the v1 store as concurrent requests see it | |
| `StoreProofs` | theorems about `Store` | `Store`, `TLAPS` |
| `LedgerFold` | classify, authority and projection as operators | |
| `EdgeFold` | edges, reaffirmations, attestations, support graph, verdicts | `LedgerFold` |
| `Ledger` | curators that sign, withhold and submit envelopes | `EdgeFold` |
| `Submit` | `submit` of a Genesis, Delegate or Revoke over the real fold | `Ledger` |
| `FoldProofs` | lemmas about the fold and about searches along edges | `Ledger`, `TLAPS` |
| `LedgerProofs` | theorems about the fold, `Ledger` and `Submit` | `FoldProofs`, `Submit` |
| `PacketSubmit` | contexts, packets, approval and `submit-packet` | |
| `PacketProofs` | theorems about `PacketSubmit` | `PacketSubmit`, `TLAPS` |
| `GatewayCache`, `Gateway` | the response cache; requests, shared probes and the node | |
| `GatewayProofs` | theorems about `GatewayCache` and `Gateway` | `Gateway`, `TLAPS` |
| `RateLimiter` | the rate limiter | |
| `PublicProofs` | theorems about `RateLimiter` and `NodeRead` | `RateLimiter`, `NodeRead`, `TLAPS` |
| `AtomicLog` | what the v0 ledger promises its readers (abstract) | |
| `EventLog` | v0 commits, HTTP commits and rebuild, statement by statement | `INSTANCE AtomicLog` |
| `Publication` | staging, approval, pause and publish | `EventLog` |
| `PublicationProofs` | theorems about the projector, `EventLog` and `Publication` | `Publication`, `TLAPS` |
| `Merkle`, `Ots` | trees and proofs; OpenTimestamps streams | |
| `Anchor` | seal, anchor, upgrade and audit | `Merkle`, `Ots` |
| `AnchorProofs` | theorems about `Anchor` | `Anchor`, `TLAPS` |
| `Filter` | evidence views, bounded search, judgments, audit | |
| `NodeRead` | the node's v0 read requests, query by query | `Filter` |
| `Taxonomy`, `Candidate` | the pinned bundle; admission, identity and calendar | |
| `Migrator` | the migrator's commands and the mirror | `Candidate` |
| `Codec` | canonical encodings, writer and strict reader | |
| `MC*` | instances for TLC | the module of that name |

`MCCalc` puts `NodeRead`, `Migrator` and the pure modules into one state machine
of which a behaviour is one case, and `MCPublicAccess` the rate limiter and the
requests behind it; the parts share no state, they share a run.

### Store

A request is one handler on one process. Every awaited database call is a step:
`AdmitLock` (the `FOR UPDATE` of the identity row and the decoding that follows),
`AdmitReject`, `AdmitLoad`, `AdmitCommit` (insert, receipt and COMMIT together,
with the acknowledgement received or lost) and `AdmitInvalidate`; a read is
`ReadSnapshot`, `ReadProbe`, `ReadLookup`, `ReadFold`, `ReadFill`. `DbError`, `Drop`
and `Crash` may interrupt any of them, and `Tamper` alters a retained row. A
snapshot is named by the set of candidates it was folded from, because the fold
is a pure function of it; `Admission(e, S)` is what classify says of `e` among
`S` and is a parameter, so the theorems hold for whatever the fold decides.
Retaining a body is not modelled here: it touches no candidate.

### LedgerFold, EdgeFold and Ledger

`LedgerFold` translates `classify`, `authority::derive` and `projection::project`
operator by operator, for Genesis, Correction, Delegate, Revoke and Resolve;
`EdgeFold` does the same for `edges.rs` (pins, evaluation in two passes, chains of
reaffirmations, currency of endpoints, media) and for the support graph, `as_of`
visibility, hiding and the bounded search of `rule.rs`. An event id is a position in
the sequence of signed envelopes, so an envelope can only name earlier ones, as
hashes force it to; the hash order the code iterates in is a separate argument. In
`Ledger` a curator signs any draft (`Sign`), submits it or keeps it for later, and
`Admit` delivers what was withheld in any order. `checked` signers run the fold
first, as the publisher does; without it anything that can be signed arrives.
The code recurses over the past of an event and loops until a pass changes nothing. Both are
written as functions: a cone or a lineage is a function on the ids that calls itself at
smaller ones, and a loop is a function of the number of passes made, with as many passes as
there are ids, each a function of the position in the hash order. (A pass that changes nothing is
followed by others that change nothing.)

### Gateway

Each lock of the cache or of the probe slot and each await ends a step. The node
answers a read from the state it has when it gets to it, at any moment between
request and reply, or fails. A request arrives, takes a fresh digest or joins or
starts a probe (`TakeLast`, `Join`, `Recheck`, `Spawn`), looks up, and on a miss reads
the node and stores the answer. The probe is a task of its own, so it survives
the request that started it; `ProbeDies` is a task that ends without
an outcome; a request that waited on it empties the slot although a newer probe may be
in it (`lib.rs:417`), and fails. `OneProbeAtATime` therefore allows one more probe for
each request that has failed, once a task has died, and not one more per death: a single
dead task may have many receivers.
Bodies of answers are abstracted to the digest they name and, for prose, whether
the text was there.

### RateLimiter

`check` reads the clock and then takes the lock, so `Sample` and the decision are
two steps and a thread may be delayed between them, by at most `MaxStall`. The
rest is the arithmetic of `check_at`: eviction of idle buckets when the table is
full, the theoretical arrival time and the tolerance, in integer ticks with the
code's rounding up. Three histories serve the properties: `log`, the instants admitted
for each bucket; `owed`, the schedule a bucket last had, which the table forgets when it
drops the bucket; and `forgiven`, what a bucket lost by that, when a thread whose instant
is from before the drop admits it again with a schedule earlier than it owes.

### PacketSubmit

`SaveContext`, `Build`, `Approve` and the steps of `submit-packet`: load, health,
export and checks, one request at a time, read back. Requests are messages: the
node may serve one after its sender gave up, or never (`Lose`). The owner may
rebuild and reapprove at any time, other writers admit events, the operator
freezes and thaws the node. A digest is modelled by what it hashes. Packet order
(a Genesis before the edges that name it) is a property of the builders.

### Submit

Both paths of `submit` over the ledger's own fold: the snapshot before, every
check of `authority_node::check`, the writes, the read-back rules, and
`receipt.json` as two steps, creating and filling. A directory holds whatever
can be signed, also from an old context. Checks that compare constants of a
deployment (instance, fold, filter version) are taken to succeed.

### AtomicLog, EventLog and Publication

`EventLog` is the v0 ledger at the granularity of SQL statements under READ
COMMITTED. A transaction is a record of what it has inserted and a set of held
locks; the trigger that keeps `event_digest` makes every insert take one row lock,
which is what serialises projections. Plain commits, the node's HTTP commit (locks,
checks of subjects and endpoints, held descendants) and `rebuild` each are actions
per statement; a projection is one operator per kind (`ProjectEntity`,
`ProjectMoment`, `ProjectEdge` and so on), with both chain walks and `MAX_CHAIN`.
Event ids are numbered in canonical order. `Log == INSTANCE AtomicLog WITH log <-
events` is the refinement: the variables of the implementation map to the log and
the view, and all that happens inside a transaction stutters. `Settle` is a change of a row
of `roots` or `anchors` by `cc-anchor`, which commits no event; the digest a rebuild takes
before and after covers those two tables as well (`lib.rs:1062` to 1097), and `settled`, the
number of such changes, stands for their rows. `taxonomy_tags` is in the digest too, but
nothing writes it. `Publication` adds the
publisher's commands to the same transactions. `publish` keeps the `expected` heads it has
read from the approval (`lib.rs:443`), whose row it does not lock.

### Anchor, Merkle and Ots

Each command of `cc-anchor-tick` is a run that goes from statement to statement,
may die between any two and may overlap with another; the advisory locks and
uniqueness constraints of the code are guards. The calendar answers, delays, fails
or returns a stream that proves something else. Hashes are terms, so a root
determines its leaves and the audit is a comparison of terms. What the tables say of each
other (`AnchorsAreSound`, `EvidenceIsKept`) is stated apart from what the verifiers of
`merkle.rs` accept (`AuditorIsConvinced`): the first needs nothing of the hash function and
is proved. `LoseRoots` empties
the table of roots, which `publish_root` guards against.

### Filter, NodeRead, Taxonomy, Candidate

`Filter` has both kinds of evidence view (the snapshot built from records and the
store's tables), the two-phase search with its canonical witness, the product of
factors and the audit. `NodeRead` issues the queries of one request one at a time
while others commit what `EventLog` allows. `Taxonomy` and `Candidate` are the rules
an entry must satisfy and what is derived from it; titles are sequences of tokens,
masses integers in tenths.

### Migrator and Codec

A command of the migrator plans its events and commits them one transaction at a
time (for `mint`, all in one); it may die between two and is run again under a later
record time. `replica` is a mirror taken meanwhile. `Codec` writes and reads values
along a description of their shape with bytes of four bits, so that every short
string can be enumerated; limits of the wire format are scaled down with it.

## 3. Runs

Every passing run takes between one and three minutes on two cores, with coverage
statistics. Deadlock is checked, with an explicit idle step where a model has done
all it may, except in `event_log`, `anchor` and `calc`, whose behaviours simply end
when the signed events, the commands or the case are used up.

| Run | Bounds | Shows |
|---|---|---|
| `store` | 2 requests and a third reader, 2 processes, 2 events of which one is the other's parent, 1 bad input | reads through the cache are current and never hide altered bytes, atomic outcomes, one receipt per event, complete restores, and `EveryRequestEnds` under fairness. Three requests are needed: one fills an entry, one admits, one reads |
| `ledger` | a root, its delegate and the delegate's delegate, then 3 corrections, revokes and resolves, or 2 events with delegations, attached anywhere; up to 3 arbitrary events on a genesis; five corpora of up to 12 envelopes in every order of arrival | decided candidates stay decided; hash order does not matter; effective revokes solve the rule they stand for; nothing has an effect outside its scope; edges keep their pins; a verdict is exactly bounded reachability |
| `ledger_launder` | one history of 8 events | *violation*, see section 6 |
| `gateway_cache` | 2 clients, 3 probe tasks, one of which may die, a subject and a prose key, cache of one answer, 1 admission, 3 instants | bounded staleness, coherent shared state (one digest per generation, accounts of the cache, one probe at a time), visible outages |
| `public_access` | 5 addresses in 3 buckets, a table of 2, 2 requests a minute of 3 ticks, 5 instants, 2 threads, each delayed by up to one tick between the clock and the lock; 2 clients, 2 probe tasks, one of which may die | the documented window across evictions up to what a dropped bucket is forgiven, at most one delay an admission; no refusal below the limit, unless a request that read the clock later was decided before; and every request ends |
| `packet_overlap` | 2 runs, 3 packets (good, untrusted, inadmissible), 3 builds, another writer, lost and late writes | only approved packets are written, decided and bodies first, and reports are true |
| `packet_rebuilt` | 2 runs, 1 packet, 2 builds | *violation*, see section 6 |
| `submit` | a subject with a revoked branch and any directory; 2 runs of one directory, Genesis or authority event, and another curator | what passes the checks is valid on arrival, bodies come first, reruns read back, the first receipt stays |
| `event_log` | 9 worlds of up to 4 events outside the publisher (two births of one entity, conflicting corrections, a chain longer than `MaxChain` = 2, edges, declarations), one plain writer, one HTTP client, one rebuild, two publishers with three candidates; in two worlds with a rebuild, one row of `roots` or `anchors` changes | the ledger implements `AtomicLog`; edges over HTTP join bound subjects; publications are approved, unpaused and whole; `rebuild` reports divergence only if, meanwhile, events were committed or `cc-anchor` wrote; guarded writers never deadlock |
| `event_log_orphan` | one world of two events | *violation*, see section 6 |
| `anchor` | 2 runs at a time, 4 commands, 2 events of others, 2 block heights | the roots recompute and anchor rows are what signed moments say; auditors are convinced by the proofs handed out; the stream never forks, no proof or settlement is taken back |
| `calc` | trees of up to 8 leaves, OpenTimestamps trees of depth 2, every graph of 5 entities up to 4 hops, sequences of 3 records, entries over a small bundle, years around every edge of the calendar and of both writers' divisions, down to the -50000 the gate admits, every coordinate and envelope over bytes of four bits; 11 requests over 3 worlds of facts; 4 worlds of migrations, 3 commands each | algorithms equal their reference definitions; a verdict and an entity's answer are true although their queries see different commits; migrations can be repeated |

Some properties are conjunctions of parts that can be read on their own, named
where they are defined: `EffectsStayInScope`, for instance, consists of
`AuthorityFlowsDown`, `SuppressedIsInert`, `RetiredGrantsAreSilent` and `EdgesAreLocal`.

Every property of a passing run has a mutant, a change to a mapped definition
such as a plausible bug would be, under which TLC finds it violated.

Symmetry is used where the permuted identities occur in nothing but the state
(clients of `gateway_cache`, runs of the publisher, connections of one kind,
processes of `anchor`) and never in a run with a liveness property. `store` orders its
first two requests by hand instead.

**Fairness.** `Store!FairSpec` asks that a handler that can take its next step
eventually does: tokio polls ready tasks, and PostgreSQL grants the row lock when
it is free. Only one transaction holds it at a time and each ends, so weak
fairness of every handler suffices. Arrivals, drops, crashes, errors and tampering
are not fair. `Gateway!Fairness` asks the same of requests and probe tasks, and adds
that the node's answer, its failure or the client's timeout eventually reaches a sent
read, which the request timeout of the HTTP client guarantees. No other run assumes fairness.

## 4. Proofs

`tlapm` proves every statement of the eight `*Proofs` modules, from nothing in about forty
minutes. Each specification has one inductive invariant (`IInv`; `ReadInv` for the read
requests), checked by TLC on the instance of the run before it was proved, a lemma per action
or group of actions, `Invariance` (`Spec => []IInv`), and the properties of the runs as
consequences. The theorems hold for every value
of the constants under the named assumptions of the modules, which TLC evaluates.

**Store**, for any requests, processes, events, inputs and any `Admission`. The
properties are not inductive. `IInv` adds: exactly the transactions past `FOR
UPDATE` hold the row (`LockInv`); committed sets are ordered below the present one
(`HistoryInv`); what a request was routed with (`RoutingInv`) and when it began
(`BegunInv`); a transaction about to commit has loaded precisely the present
candidates and its input (`LoadedInv`, which needs the lock: this is where an
admission without `FOR UPDATE` fails); a cache entry is the fold of a committed
set with no altered rows, and a read in progress carries a key not older than
itself (`ReadInv`, which shows that invalidation is an optimisation and the key is
what keeps the cache honest); receipts name the first committed set
(`ReceiptInv`); and how far a restore has come (`RestoreInv`). Each part has a
step lemma with one case per action. From it follow `TypeCorrect`,
`SnapshotsAreCurrent`, `TamperingIsRefused`, `OutcomesAreAtomic`, `ReceiptsAreFirst` and
`RestoresAreComplete`. The only assumption is `StoreAssumption`: `None` is not a
request, process or event, and inputs are good or bad.

**RateLimiter**, for every rate, minute, table size, set of addresses and threads.
Nothing is assumed of the delays: `limit.rs` reads `Instant::now` before it takes the lock, so
threads may decide out of the order of the clock.
`TableStaysBounded` bounds the table. `PaceIsKept` proves `Paced` with `Scheduled`: a bucket's
schedule, with what it was forgiven, is not before what its admissions earned, and while a
bucket is tracked its schedule is what it owes. An admission that finds the bucket dropped
may begin before what is owed; the difference is forgiven, and the sum is kept.
`WindowIsBounded` follows by arithmetic: fewer than `2 * Rate` intervals' worth of requests in
any minute, which is the documented `2 * rate - 1`, plus what was forgiven.
`ForgivesOnlyDelays` bounds that: an instant is at most `MaxStall` old when it is decided
with, and what a dropped bucket owes was past when it was dropped (`Timely`), so each
admission forgives at most `MaxStall`, and nothing where no thread is delayed.
`ClientsAreMetered` joins these into what the run `public_access` checks. In the other
direction `Accounted` says that a tracked schedule was earned: since the admission that found
the bucket idle, each one moved it by one interval, and none was let in more than `Rate`
intervals before the end of its own. It gives `RefusalsAreEarned`, the property
`RefusedOnlyAtTheLimit` of the run: a tracked client is refused only if `Rate` of its
admissions still weigh, or if a request of its own that read the clock later was decided
before. The second case occurs: without it the run fails.

**NodeRead**, for any requests and any record, of which any part may be committed between
any two queries of a request. `WorldAssumption` says that ids and coordinates are numbers
and that a body is determined by its hash, `QueryAssumption` that `k_max` and a readable `as_of`
are of their types. `ReadInv` consists of what the tables say about the commits (`TablesInv`: one
row per key, each from a committed fact), what each factor was read from (`FactorsInv`),
and how far the request has come. The search is the hard part: its levels are read
from a graph that grows, so neither side knows distances in any one graph. `Side`
says that what a side visited before its last level has all its neighbours of the graph at the
opening among the visited, each at most one step further out. It holds because a query reads at
least what was there at the opening. Then two
sides that share nothing leave no walk of that graph as long as their depths together
(`NoWalkBetween`): silence was true. `LabelsInv` and
`WalkInv` say that labels are dense and each step of the witness is recorded, although
the labels and the walk read later graphs; a walk that finds no next label ends in a 503
rather than a verdict. `EntityInv` says that the row of an entity is only ever replaced by an earlier
one. From it follow `VerdictsAreTrue` and `EntitiesHoldTogether`. `LabelsAreConsistent`, which
is false, is not among them (section 6).

**PacketSubmit**, for any packets, events, bodies, causal pasts and overlapping runs. The
assumptions say that a packet is a nonempty list of distinct events, each after those of its
own past that the packet carries; that a causal past is transitively closed; that a body is
finite and holds no event; and that only `submit-packet` brings a packet's own events to the
node. `RunInv` says how far a run has come:
before it writes it has compared the packet with its approval and with an export, and what
precedes its next request is on the node. `WireInv` says the same of a request that is
still under way, whatever became of its sender; that is why a late write is harmless. From
it follow `OnlyApprovedIsSent`, `NothingUndecidedIsLeft` and `ReportsAreTrue`.

**Gateway**, for any clients, keys, sizes, cache bound, freshness window and number of
probe tasks. The argument is about evidence: `Evidence(d, t)` says that the node has
answered a read at `t` or later and that `d` covers what was admitted before `t`. A reply
is evidence dated when its read was requested; the generation of the cache, the last probe
outcome and the digest a request looks up under each carry evidence of that kind
(`AnswersOK`), never dated later than it was obtained. `AdmissionsBecomeVisible` and
`OutagesBecomeVisible` are then arithmetic on the window. The accounts of the cache
(the first part of `GatewayProofs`: eviction, storing and hits keep the use order a permutation of the entries
and the byte count their sum) are induction over the number of evictions. `SlotOK` and
`ProbesOK` count probes: `SharedStateIsCoherent`.

**The v1 fold** (`FoldProofs`, `LedgerProofs`), for any envelopes, valid or not, signed and
admitted in any order, by any number of curators. `SetupAssumption` says only that an envelope
names ids that are smaller than its own, as hashes force it to, in fields that its kind has;
`HopsAssumption` that `max_hops` is a natural number (a `u16` in the code). The argument is in
layers:

* *Loops.* A loop that visits every id and gains, in each pass, the least id not yet gained
  ends within as many passes as there are ids, whatever the order (`OnePass`, `Progress`).
  `classify`, the two loops of `edges.rs` and the `revoked_ancestor` loop are three instances.
  Where they end the result satisfies an equation at every id: `Solves` (a status is what
  `evaluate` says, given the statuses of the parents), `SolvesEdges`, `Settled`.
* *Unique solutions.* Each of these equations looks at smaller ids only, so it has one solution
  (`Solution`, `FromBelow`), and one solution restricted to a causally closed part of a history
  is the solution there (`DeriveOn`, `StatusesStay`, `EdgesStay`). The first gives
  `HashOrderIsIrrelevant`, the second `AdmittedForGood`: a verdict that is not pending was
  reached from a past that is all there. `Pending` and `invalid` ancestors need care, since
  an invalid parent decides an event whose other parents are missing.
* *Strata.* `EffectiveRevokes` goes down the grant tree by depth. A revoke is judged by
  revokes of smaller depth only, since a valid one comes from strictly above what it covers
  (`Depths`, `Ordained`), so what is found stratum by stratum solves the rule at once.
* *Valid pasts.* What is valid is a causally closed set (`ValidUpright`), in which every grant
  has its issuer and every revoke but a relinquishment comes from strictly above its target
  (`PastOrdained`). A
  frontier event with no relinquishment in its past has nothing suppressed below it
  (`FrontierStands`); this completes `AuthorityAlwaysSolved`.
* *Pins.* What `check_pin` has checked once stays true, chains are closed under parents, and
  the head of a chain is one of its greatest ids: `EdgesAlwaysKeepTheirPins`.
* *Later histories.* `EffectsAlwaysInScope` compares the readings before and after a step. If two
  sets of effective revokes disagree on something that bears on a grant, follow the disagreement
  upwards: a revoke counts in one and not in the other only because a revoke on its signer's own
  line does so too, at a smaller depth, and the one at the top is new (`Cause`). Cuts are closed
  parts of the past, which later acts never join. Everything an act names lies in the past of its
  own subject (`ValidDomestic`), so a subject is out of reach of what arrives elsewhere
  (`SubjectStays`), as long as nothing arrives in it that is eligible or consumes (`Mute`) its
  frontier stays (`FrontierStays`), and an edge, which reads its chain and the frontiers and
  cones of its two subjects, stays with them (`EdgeIsLocal`).
* *Verdicts.* `VerdictsAlwaysExact` has two halves. The graph: removing the hidden subjects one
  by one, in whatever order, leaves the used edges between the others, seen from both ends
  (`Veiled`), and what is excluded is what is not used and what is still pending (`UnusedAre`,
  `SightsTell`). The search: after `k` passes it has found the subjects within `k` usable edges,
  as long as the target is not among them (`Searched`); each was noted with an edge from a
  subject one step nearer (`FoundAt`); so reading back from the target gives a path of exactly
  that length (`RetracedTo`), and no shorter one exists.

`LedgerInv` is then one line: the record names the past and `view` is the fold of what is
retained.

**Submit**, over the same fold, for any number of runs and any directories. `KnownAssumption`
says that what a setup has signed and the node does not know is a Genesis, as a directory holds
it. `RunsTyped`, `Recalled` and `Bodied` say where each run is, that what a run has found on the
node is retained and valid there, and that no Genesis of a directory is posted or on the node
before its body. `SubmittedAlwaysSound` needs more: `DirsFormed` (what lies in a directory was
formed by the builders) and `Vouching` (an event that a run has found no fault with would be valid
if it arrived now). When the checks pass, the parent is the only frontier event and the grant is
active, so by `FrontierStands` it was active in the past of the parent as well (`ActiveBelow`);
`FaultlessIsValid` compares the publisher's checks with those of `evaluate` one by one. That past
never changes, so `Vouching` survives whatever is admitted before the event arrives.

**Publication and EventLog**, for any events and worlds, any number of writers, clients,
rebuilds and publishers, any briefs, candidates and payloads. `PublicationAssumption` says that the four kinds of connection are disjoint,
payloads are nonempty and candidate ids are not names of tables. `LocksOK` says which locks
a transaction has at which statement, `Exclusive` that no two conflict, and `Clean` that a
transaction's private view agrees with the committed one in every table it has not locked
for writing: so what `publish` and the node's check have read in tables they locked cannot
have changed at their commit (`Publishing`, `Checked`). This gives
`PublicationsAreApproved`, `EdgesJoinBoundSubjects` and, with the batch each publisher still
has to insert, `PublicationsAreWhole`. `GuardedNeverDeadlock`: whoever holds the moments
waits for no guarded transaction, and the others hold nothing that another one waits for.
These hold whatever the projector computes.

**The projector**, for any events of the five kinds (`KindAssumption`) and any `MAX_CHAIN`
(`PublicationProofs`). `ViewOf(S)`, in `EventLog`, says what the tables hold for a set `S` of
events with no word about order: the least birth of an entity, for every root whose
ancestors are all there the end of the walk that takes the least child, the edges whose
endpoints have births, and the counters as cardinalities. `LiveFoldIsView`: folding one more
event into `ViewOf(S)`, whichever it is, gives `ViewOf(S \union {e})`. For births this is
the refreshing of incident edges, counted by the risen and the fallen; for a moment it is
that an event changes only the chain it ends up in, and that whatever it links (corrections
that were held for it) is reached by the same two walks. `BatchFoldIsView`: the fold of
`rebuild` over a canonical ordering, whose every walk sees all the events at once, gives
`ViewOf(S)` too, unless it refuses an event. Both walks are bounded recursive functions;
where they stop, and that they stop at the same place in a larger ledger, is shown with
`LeastNat` and `Upward` (induction up to a bound).

`LiveFoldIsView` assumes `MomentsCorrectMoments`: a moment that supersedes an event
supersedes a moment. The code does not enforce it, and without it the statement is false:
that is the finding `event_log_orphan` of section 6. The worlds of the run `event_log`
satisfy it. `BatchFoldIsView` does not need it.

**Refinement.** Under the same hypothesis `ImplementsAtomicLog` proves that the ledger,
statement by statement, with any number of plain commits, HTTP commits, rebuilds and
publications, implements `AtomicLog`; `DivergenceIsOfWrites` that `rebuild` reports a
divergence only if, while it ran, events were committed or `cc-anchor` wrote roots or anchors. The invariant is `Projected`: the
committed view is `ViewOf(events)`, and no projected chain is longer than the walks go
(`Live`, `Bounded`); the copy of a transaction that has written is the view of the events it
sees, short of the one it has inserted and not yet projected, and a rebuild remembers the
view it began with (`Owns`, `Pending`, `Rebuilding`); no two transactions insert one event
(`Apart`). It is kept because the locks of `IInv`, the digest row first of all, keep every
other transaction from committing between a projection and the end of its transaction: its
copy stays the view of a ledger that does not change below it. `CommitTx` then takes `events`
and `view` together
from one view of the abstract log to the next, and every other step stutters.

**Anchor**, for any events, any number of overlapping runs and commands, and any
`merkle_root`. `Numbered` says that the log is a gap-free numbering; `RootInv` that each root
is that of a longer prefix of it and that a row lies between the root of its epoch and the
one before; `SealInv` that what the run under the advisory lock has read is still so, and
that the unique indexes therefore never refuse it; `PublishedInv` that the history is the
table unless the table was lost, and `Lost` that then nobody seals any more. `StampInv` and
`ConfirmInv` say what a run has signed and stored when it comes to write a row. From it
follow `AnchorsAreAlwaysSound` (with `RootsAlwaysRecompute`) and `EvidenceIsAlwaysKept` (with
`StreamAlwaysContinues`).

**What attempts at proofs found.** Properties that the runs had confirmed were false in
general and were corrected. `VouchedIsValid` of `Submit` said that what passes the publisher's
checks is valid on the node. It is not, when a root has given itself up in the past of the
event: the relinquishment hides suppressed ancestors (`ledger_launder`), the publisher asks
whether the grant is active in the whole view, and the node whether it was active in the past
of each parent. A root, three nested delegates, two revokes, the relinquishment, two corrections
and a last revoke make a history of nine envelopes on which a Delegate passes and is refused with
`parent_authority`. The property now excepts such pasts. `OneProbeAtATime` allowed one more probe per dead task, but
every receiver of a dead probe empties the slot, so one death may let in as many probes as
it had receivers; `AtMostTwoProbes` likewise holds only if no task dies. And
`PublishedAsApproved` compared the heads with the approval at the time of the commit: the
row is read without a lock, so a second `approve` may replace it between the check and the
commit (TLC finds a trace of 38 states once a world has three events and `MaxChain` is 4).
What holds, and is now stated, is that the heads are those the approval expected when
`publish` read it. `RetiredGrantsAreSilent` said that whatever is learnt to have been signed
through a grant that is and stays retired has no effect. One revoke may take the place of another:
the root grants to J, J to K, and J revokes K; the root writes a correction that is withheld, K
one on top of it, and the root, having seen both, revokes K and J. As long as the first correction
is missing only J's revoke counts. When it arrives J's own grant is gone and the root's revoke
retires K instead, with K's correction in its cut: K was retired all the while, and the new act
counts. What holds is that new
acts are silent as long as one and the same revoke counts before and after.
`SupportIsRecorded` said that every event a verdict consulted is of a time not after `t_q`. The
declaration of a claim type need not be: `admissibility_at` asks only whether its band has
begun. The worlds of `calc` had no declaration that is later than its band; one has been
added, and the property now asks of a declaration that its band has begun.

**Induction over data.** The library's induction theorems cannot be instantiated by the
installed provers, but a least counterexample can be taken with `WFMin` and
`NatLessThanWellFounded` (`LeastNat`), and recursive functions over `0..n` and folds over
sequences are unfolded once such an argument has shown that they exist (`FoldsExist` in
`PublicationProofs`). What is out of reach is recursion over a structure rather than a bound.

Only model-checked, and why:

* liveness (`EveryRequestEnds` in both modules): beyond the prover;
* `AuditorIsConvinced` and `ProofsAreExact`: the verifiers are folds of an operator over a
  path, which the provers cannot unfold, and the theorem is the correctness of RFC 6962;
* `IsAtomicLog` and `DivergenceMeansWrites` for worlds in which a moment supersedes an event
  of another kind: there they fail (`event_log_orphan`);
* the action properties not named above;
* the algorithms of `MCCalc` against their reference definitions, among them the exactness of
  the search over a graph that does not change, and `Migrator`.

## 5. Not modelled

Configuration, authentication, signatures as bytes, rendering, the browser verifier
(its TT layer excepted), public clients, and the scripts that drive external tools:
`PROJECT.json` lists every part with the reason. Within modelled components:

* the bodies table of the store (`retain_body` touches no candidate) and binding a
  rule identity, which is one `INSERT ... ON CONFLICT DO NOTHING` that is read back:
  if two processes provision a database with different filters, the statement decides
  (`rule.rs:240`);
* the order among equally short paths of a v1 verdict, and texts of refusals;
* in the v0 publisher, image files that change (the command is then not run);
* the generation worker (`ops/generation_worker.py:68`: a worker that stalls past its
  lease) and the seal log (`ops/seal_v1.py:314`: a run killed while it appends leaves
  half a line), operator scripts with state of their own.

## 6. Disagreements between the code and its documentation

Shown by runs:

* `ledger_launder`. `authority.rs:211` says suppressed body dependencies "never
  become eligible through a good signer". The loop below it skips parents whose
  reason is `root_relinquished`, also when that relinquishment sits on a suppressed
  branch: an event on top of it is eligible and carries the suppressed body. The publisher and
  the node can then judge the same event differently (section 4).
* `packet_rebuilt`. After one event of a packet was admitted, `submit-packet`
  refuses a rebuilt packet as stale although nothing else was admitted, and its
  message (`entry_submit.rs:137`) advises the rebuild that leads there.
* `event_log_orphan`. A moment that supersedes an event which is not a moment is held
  if it arrives before it and is never looked at again; `rebuild`, which sees both,
  makes it a row. The live view and a rebuild then differ although
  `cc-ledger/src/lib.rs` calls them equal. The proof of `LiveFoldIsView` shows that this is
  the only way in which they differ.

Met while modelling, each reproduced with TLC at the time but without a run of its
own:

* `cc-gateway/src/cache.rs:16` says a slow response with an older digest cannot
  roll the generation back. `observe` compares the instants at which reads were
  requested, so a read requested later, answered before an admission and received
  after an earlier one that saw it does roll it back. `AdmitIsVisible` bounds the
  effect to the freshness window.
* `cache.rs:3` to 6 call an answer a pure function of rule, corpus and request. A
  prose answer also depends on whether the body was retained, which changes no
  digest: an answer saying unavailable is cached until the next admission.
* `limit.rs:6` promises at most `2 * rate - 1` requests in any window. A thread delayed
  between `Instant::now` and the lock, while a full table drops its bucket, decides
  against an empty bucket with an instant at which the bucket still owed time, and lets
  through what that time is worth. Where the minute is a whole number of intervals one
  tick is enough for one request more. `Paced` and `WindowBound` state the exception, as
  `forgiven`, and `Lenient` bounds it.
* `cc-ledger/src/lib.rs:940` calls it a divergence when the digest after a rebuild is not the
  one before. Both are taken outside the transaction (869, 939) and cover `roots` and
  `anchors`, which a rebuild does not touch and `cc-anchor` writes without an event
  (`store.rs:274`, 326, 756, 820): a rebuild that overlaps a tally or a settlement
  reports a divergence although no event was committed and both folds agree. So does one
  that overlaps a commit. `DivergenceMeansWrites` says that nothing else does.
* `entry_submit.rs:3` to 5 promise to submit only if nothing else was admitted since
  the context was taken. The corpus is compared once; what another writer admits
  between that export and the posts is not noticed.
* `docs/PUBLISHER-V1.md:296` to 298: a run killed between creating `receipt.json` and
  writing it leaves an empty file, which every rerun then takes for the receipt.
* `docs/design/MULTI-SIGNER.md:345` says ids only sort bytes. Which revokes are
  reported as controlling an event with two suppressed parents depends on the order
  in which the `revoked_ancestor` loop meets them (`authority.rs:215`).
* `cc-authoring/src/admission.rs:764` compares lowercased titles to give one identity to
  one entry, but `claim_identity` (`lib.rs:13`) keeps ASCII letters and digits only: two
  admitted entries whose titles differ in other letters share an identity
  (`OneRowPerIdentity` in `MCCalc` fails).
* Anchoring: an audit that reads leaves before a seal commits and roots after it
  reports `RootMismatch` of a sound stream (`store.rs:581`); two upgrades that overlap
  both sign a confirmation, though the message says it is recorded once (799 to 801);
  no command calls `record_root_moment` again after a run died before it (302), and
  pending anchors of older roots are never upgraded (845, 876).
* `cc-node/src/admission.rs:122`: a held correction with another body can be committed
  between the check for waiting descendants and the insert it guards. Plain commits
  take the digest row before any table and can be in a deadlock with the guarded
  writers; PostgreSQL ends one of them.
* `cc-filter/src/reach.rs:224` calls a missing label "unreachable by construction"; on the
  node an edge committed between the two search phases makes it happen, and the request
  ends in a 503 (`LabelsAreConsistent` in `NodeRead`).
* The node's read side: the corpus digest read at the start of a request does not name
  the rows judged (`view.rs:67`); vocabulary is read without `declared_at`, so a verdict may
  cite a declaration of a time after `as_of`, if its band has begun, although
  `cc-filter/src/view.rs:17` says "An implementation MUST return only evidence whose
  event-time is `<= as_of`" (`view.rs:263` reads the band alone);
  `incident_edges` has no tie-break and `edge_count` stops at its limit of 200; the
  body under `readings.this` and the one of the TT layer may differ, one being read
  with a LEFT JOIN and the other with a JOIN.
* `admission.rs:421` holds alternatives "to the same standard as the chosen one", but a
  retired type is refused and a retired alternative is admitted, also one that was retired
  in favour of the chosen type. `ShownAsAdmitted` and `AdmittedAsCompeting` say exactly what
  is admitted: distinct ids of the bundle, live or retired, none coarser or finer
  than the type.
* `v1_coordinate` of the migrator is one day late before March of -4800, where its division
  changes sign, on the days of years (counted from March) that are not leap years; on every
  other day it agrees with the publisher. `CoordinatesAgree` states this exception.
* Migrator: edges of a minted batch are checked neither against the batch nor the
  ledger, although a comment (`main.rs:936`) says minting in one pass guarantees it;
  `migrate-edges` reads all nodes and `migrate-batch` at most its limit, so edges can
  name entities without a birth; the exhibit is required to be committed and is not
  hashed again; `genesis` run twice writes two events; a mirror whose source grows
  meanwhile reports a divergence.
* `cc-ledger/src/lib.rs:605`: a side branch longer than `MAX_CHAIN` can be committed, when
  its far end arrives first and is held and its near end later joins it below a root whose
  head is an earlier sibling. The live fold walks only to that head; `rebuild` climbs from
  the far end, calls the ledger corrupt and rolls back. Hence the hypothesis of
  `BatchFoldIsView` that no event is refused. The view is unchanged, but can no longer be
  rebuilt (four events show it for a `MAX_CHAIN` of 2).
* `publish` reads an approval without locking its row (`cc-publisher/src/lib.rs:443`): a
  second `approve` can replace the expected heads while the publication is under way, and
  the first approval is then the one that was acted on.
* `cc-core/src/lib.rs:540` promises `parse(canon(x)) == x`. An attestation's `supersedes`
  is not written, and `parse_event` ignores the version fields.

## 7. Plan

Modelled: the store, the fold with edges and verdicts, the gateway and its limiter, both
online paths of the publisher, the v0 ledger with its abstract specification and
publications, anchoring, the read side, the filter, authoring, the migrator and the
encodings. Proved: store, limiter, gateway, packets, publications, the v0 lock discipline,
its projector and its refinement of the abstract log, anchoring, the v1 fold with every safety
property its run checks, `submit`, and the read requests. Next:

1. `GenerationJobs` (leases, fences, attempts, budgets) and `SealLog` of `ops/`.
2. Binding and readiness in the store; the bodies table.
