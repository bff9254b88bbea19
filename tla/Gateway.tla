------------------------------ MODULE Gateway ------------------------------
(***************************************************************************)
(* The request path of cc-gateway (lib.rs) over its response cache: the    *)
(* freshness check, the shared digest probe, the lookup, the node read and *)
(* the store of its answer, for concurrent clients on a multi-threaded     *)
(* runtime.  Every await and every separate lock of the cache or of the    *)
(* probe slot ends a step.                                                 *)
(*                                                                         *)
(* The node is external: it admits events, is given bodies, and answers a  *)
(* read from the state it has when it gets to it, at any time between the  *)
(* request and the answer, or fails (unreachable, timeout, 503, outside    *)
(* the contract).  Clients may disconnect at any await.                    *)
(***************************************************************************)
EXTENDS GatewayCache

CONSTANTS
    Clients,      \* one request each
    Tasks,        \* identities of spawned probe tasks
    CorpusKeys,   \* snapshot, subject and support reads
    ProseKeys,    \* prose reads: the answer also depends on a retained body
    RefusedKeys,  \* reads the node refuses with 400, 409 or 404, naming no digest
    DirectKeys,   \* health and receipts, never cached
    ProbeKey,     \* PROBE
    Unavailable, BadGateway, Gone,   \* how a request ends without an answer
    Dead,         \* a probe slot whose task ended without an outcome
    MaxTime, MaxAdmits, MaxDeaths    \* bounds

Failures == {Unavailable, BadGateway}
Keys == CorpusKeys \cup ProseKeys \cup RefusedKeys \cup DirectKeys
Cacheable == CorpusKeys \cup ProseKeys
Answers == [digest : Nat \cup {None}, prose : BOOLEAN]

ASSUME GatewayAssumption ==
    /\ IsFiniteSet(Clients) /\ IsFiniteSet(Tasks) /\ Clients \cap Tasks = {}
    /\ ProbeKey \notin Keys
    /\ \A k \in Cacheable : Size(k) \in Nat
    /\ {MaxBytes, Freshness, MaxTime, MaxAdmits, MaxDeaths} \subseteq Nat
    /\ None \notin Nat \cup Tasks
    /\ None \notin [d : Nat, at : Nat] \cup [started : Nat, outcome : Nat \cup Failures]
    /\ Dead \notin Tasks \cup {None}

VARIABLES
    now,       \* the monotonic clock
    admits,    \* node: when each admission committed; the digest is their number
    body,      \* node: the body of the prose is retained
    answered,  \* history: when the node last answered a read
    cache,     \* Inner::cache
    last,      \* Probe::last
    inflight,  \* Probe::inflight
    call,      \* the GET of each client and of each probe task
    req,       \* each request
    deaths     \* probe tasks that ended without an outcome

node == <<admits, body>>
vars == <<now, node, answered, cache, last, inflight, call, req, deaths>>

Owners == Clients \cup Tasks
Idle == [st |-> "idle", started |-> 0, requested |-> 0, reply |-> None]
Fresh == [pc |-> "idle", key |-> None, arrived |-> 0, digest |-> None,
          waits |-> 0, on |-> None, out |-> None]
Digest == Len(admits)

Init ==
    /\ now = 0
    /\ admits = <<>>
    /\ body = FALSE
    /\ answered = -1
    /\ cache = Empty
    /\ last = None
    /\ inflight = None
    /\ call = [o \in Owners |-> Idle]
    /\ req = [c \in Clients |-> Fresh]
    /\ deaths = 0

Tick == now < MaxTime /\ now' = now + 1
        /\ UNCHANGED <<node, answered, cache, last, inflight, call, req, deaths>>

(***************************************************************************)
(* The node.                                                               *)
(***************************************************************************)
Admit ==
    /\ Len(admits) < MaxAdmits
    /\ admits' = Append(admits, now)
    /\ UNCHANGED <<now, body, answered, cache, last, inflight, call, req, deaths>>

RetainBody ==
    /\ ProseKeys # {}
    /\ ~body
    /\ body' = TRUE
    /\ UNCHANGED <<now, admits, answered, cache, last, inflight, call, req, deaths>>

\* What the node answers a read of k: the digest it names and, for prose,
\* whether the body was available.
NodeRead(k) == [digest |-> IF k \in Cacheable \cup {ProbeKey} THEN Digest ELSE None,
                prose |-> k \in ProseKeys /\ body]

KeyOf(o) == IF o \in Tasks THEN ProbeKey ELSE req[o].key

NodeAnswers(o) ==
    /\ call[o].st = "sent"
    /\ call' = [call EXCEPT ![o].st = "replied", ![o].reply = NodeRead(KeyOf(o))]
    /\ answered' = now
    /\ UNCHANGED <<now, node, cache, last, inflight, req, deaths>>

\* Unreachable, timed out, cut off or 503; or outside the contract.
NodeFails(o) ==
    /\ call[o].st = "sent"
    /\ \E f \in Failures :
         call' = [call EXCEPT ![o].st = "replied", ![o].reply = f]
    /\ UNCHANGED <<now, node, answered, cache, last, inflight, req, deaths>>

(***************************************************************************)
(* Requests.                                                               *)
(***************************************************************************)
Get(o) == [call EXCEPT ![o] = [@ EXCEPT !.st = "sent", !.requested = now]]

Done(c, out) ==
    [req EXCEPT ![c] = [@ EXCEPT !.pc = "done", !.out = out, !.on = None, !.digest = None]]

\* current_digest returned the outcome of a probe or of an observation.
Resolved(c, outcome) ==
    IF outcome \in Failures THEN Done(c, outcome)
    ELSE [req EXCEPT ![c] = [@ EXCEPT !.pc = "lookup", !.digest = outcome, !.on = None]]

\* A corpus read arrives: with a fresh digest it goes to the cache at once.
Arrive(c, k) ==
    /\ req[c].pc = "idle"
    /\ LET d == FreshDigest(cache, now)
       IN  req' = [req EXCEPT ![c] = [@ EXCEPT !.key = k, !.arrived = now,
                     !.pc = IF d = None THEN "loop" ELSE "lookup", !.digest = d]]
    /\ UNCHANGED <<now, node, answered, cache, last, inflight, call, deaths>>

\* health and receipts: one node read, no digest and no cache.
ArriveDirect(c, k) ==
    /\ req[c].pc = "idle"
    /\ req' = [req EXCEPT ![c] = [@ EXCEPT !.key = k, !.arrived = now, !.pc = "fetch"]]
    /\ call' = Get(c)
    /\ UNCHANGED <<now, node, answered, cache, last, inflight, deaths>>

LastAnswers(c) == last # None /\ last.started >= req[c].arrived

TakeLast(c) ==
    /\ req[c].pc = "loop"
    /\ LastAnswers(c)
    /\ req' = Resolved(c, last.outcome)
    /\ UNCHANGED <<now, node, answered, cache, last, inflight, call, deaths>>

\* A slot whose task is dead fails its receiver at once.
Join(c) ==
    /\ req[c].pc = "loop"
    /\ ~LastAnswers(c)
    /\ inflight # None
    /\ req' = [req EXCEPT ![c] = [@ EXCEPT !.waits = req[c].waits + 1, !.on = inflight,
                 !.pc = IF inflight = Dead THEN "orphan" ELSE "wait"]]
    /\ UNCHANGED <<now, node, answered, cache, last, inflight, call, deaths>>

Recheck(c) ==
    /\ req[c].pc = "loop"
    /\ ~LastAnswers(c)
    /\ inflight = None
    /\ FreshDigest(cache, now) # None
    /\ req' = Resolved(c, FreshDigest(cache, now))
    /\ UNCHANGED <<now, node, answered, cache, last, inflight, call, deaths>>

FreeTask == CHOOSE p \in Tasks : call[p].st = "idle"

Spawn(c) ==
    /\ req[c].pc = "loop"
    /\ ~LastAnswers(c)
    /\ inflight = None
    /\ FreshDigest(cache, now) = None
    /\ \E p \in Tasks : call[p].st = "idle"
    /\ inflight' = FreeTask
    /\ call' = [call EXCEPT ![FreeTask] = [Idle EXCEPT !.st = "spawned", !.started = now]]
    /\ req' = [req EXCEPT ![c] = [@ EXCEPT !.waits = req[c].waits + 1, !.on = FreeTask, !.pc = "wait"]]
    /\ UNCHANGED <<now, node, answered, cache, last, deaths>>

\* The probe task ended without an outcome; never wait on it again.
Orphan(c) ==
    /\ req[c].pc = "orphan"
    /\ inflight' = None
    /\ req' = Done(c, BadGateway)
    /\ UNCHANGED <<now, node, answered, cache, last, call, deaths>>

Lookup(c) ==
    /\ req[c].pc = "lookup"
    /\ Hit(cache, req[c].digest, req[c].key)
    /\ cache' = Touch(cache, req[c].key)
    /\ req' = Done(c, cache.entries[req[c].key])
    /\ UNCHANGED <<now, node, answered, last, inflight, call, deaths>>

Miss(c) ==
    /\ req[c].pc = "lookup"
    /\ ~Hit(cache, req[c].digest, req[c].key)
    /\ req' = [req EXCEPT ![c].pc = "fetch"]
    /\ call' = Get(c)
    /\ UNCHANGED <<now, node, answered, cache, last, inflight, deaths>>

\* Mutant: the observation is dated when it is received.
Observed_AtReceipt(o) ==
    LET r == call[o].reply
    IN  IF r \in Failures \/ r.digest = None THEN cache
        ELSE Observe(cache, r.digest, now)

\* The end of fetch: a failure, or an answer whose digest is observed.
Observed(o) ==
    LET r == call[o].reply
    IN  IF r \in Failures \/ r.digest = None THEN cache
        ELSE Observe(cache, r.digest, call[o].requested)

Fetched(c) ==
    /\ call[c].st = "replied"
    /\ LET r == call[c].reply
       IN  /\ cache' = Observed(c)
           /\ IF r \in Failures \/ r.digest = None
              THEN req' = Done(c, r) /\ call' = [call EXCEPT ![c] = Idle]
              ELSE req' = [req EXCEPT ![c].pc = "store"] /\ call' = [call EXCEPT ![c].st = "held"]
    /\ UNCHANGED <<now, node, answered, last, inflight, deaths>>

\* Mutant: the answer is stored under the digest the request started with.
StoreAnswer_Asked(c) ==
    /\ req[c].pc = "store"
    /\ cache' = Put(cache, req[c].digest, req[c].key, call[c].reply)
    /\ req' = Done(c, call[c].reply)
    /\ call' = [call EXCEPT ![c] = Idle]
    /\ UNCHANGED <<now, node, answered, last, inflight, deaths>>

\* 200 and 404 answers that name a digest are kept under their own digest.
StoreAnswer(c) ==
    /\ req[c].pc = "store"
    /\ cache' = Put(cache, call[c].reply.digest, req[c].key, call[c].reply)
    /\ req' = Done(c, call[c].reply)
    /\ call' = [call EXCEPT ![c] = Idle]
    /\ UNCHANGED <<now, node, answered, last, inflight, deaths>>

\* Mutant: the probe is part of the request and is cancelled with it.
Disconnect_Cancels(c) ==
    /\ req[c].pc \in {"wait", "fetch"}
    /\ req' = Done(c, Gone)
    /\ call' = [o \in Owners |-> IF o \in {c, req[c].on} THEN Idle ELSE call[o]]
    /\ UNCHANGED <<now, node, answered, cache, last, inflight, deaths>>

\* The client goes away while its request waits for a probe or the node.
Disconnect(c) ==
    /\ req[c].pc \in {"wait", "fetch"}
    /\ req' = Done(c, Gone)
    /\ call' = [call EXCEPT ![c] = Idle]
    /\ UNCHANGED <<now, node, answered, cache, last, inflight, deaths>>

(***************************************************************************)
(* The probe task.                                                         *)
(***************************************************************************)
ProbeSend(p) ==
    /\ call[p].st = "spawned"
    /\ call' = Get(p)
    /\ UNCHANGED <<now, node, answered, cache, last, inflight, req, deaths>>

ProbeObserve(p) ==
    /\ call[p].st = "replied"
    /\ cache' = Observed(p)
    /\ call' = [call EXCEPT ![p].st = "held"]
    /\ UNCHANGED <<now, node, answered, last, inflight, req, deaths>>

Woken(p, pc) ==
    [c \in Clients |-> IF req[c].pc = "wait" /\ req[c].on = p
                       THEN [req[c] EXCEPT !.pc = pc, !.on = None] ELSE req[c]]

\* Mutant: a probe that fails answers with the digest the cache still has.
Outcome_Stale(p) ==
    LET r == call[p].reply
    IN  IF r \notin Failures THEN r.digest
        ELSE IF cache.gen # None THEN cache.gen.d ELSE r

Outcome(p) == LET r == call[p].reply IN IF r \in Failures THEN r ELSE r.digest

\* The outcome is recorded, the slot freed and every receiver woken.
ProbeRecord(p) ==
    /\ call[p].st = "held"
    /\ last' = [started |-> call[p].started, outcome |-> Outcome(p)]
    /\ inflight' = None
    /\ call' = [call EXCEPT ![p] = Idle]
    /\ req' = Woken(p, "loop")
    /\ UNCHANGED <<now, node, answered, cache, deaths>>

\* The task ends without an outcome (a panic): its receivers see it closed.
ProbeDies(p) ==
    /\ deaths < MaxDeaths
    /\ call[p].st \in {"spawned", "sent", "replied"}
    /\ deaths' = deaths + 1
    /\ call' = [call EXCEPT ![p] = Idle]
    /\ inflight' = IF inflight = p THEN Dead ELSE inflight
    /\ req' = Woken(p, "orphan")
    /\ UNCHANGED <<now, node, answered, cache, last>>

Request(c) ==
    \/ TakeLast(c) \/ Join(c) \/ Recheck(c) \/ Spawn(c) \/ Orphan(c)
    \/ Lookup(c) \/ Miss(c) \/ Fetched(c) \/ StoreAnswer(c)

ProbeTask(p) == ProbeSend(p) \/ ProbeObserve(p) \/ ProbeRecord(p)

Terminated ==
    /\ \A c \in Clients : req[c].pc = "done"
    /\ \A p \in Tasks : call[p].st = "idle"
    /\ UNCHANGED vars

Next ==
    \/ Tick \/ Admit \/ RetainBody
    \/ \E o \in Owners : NodeAnswers(o) \/ NodeFails(o)
    \/ \E c \in Clients, k \in Keys \ DirectKeys : Arrive(c, k)
    \/ \E c \in Clients, k \in DirectKeys : ArriveDirect(c, k)
    \/ \E c \in Clients : Request(c) \/ Disconnect(c)
    \/ \E p \in Tasks : ProbeTask(p) \/ ProbeDies(p)
    \/ Terminated

Spec == Init /\ [][Next]_vars

(***************************************************************************)
(* Requests and probe tasks are polled, and every GET ends: reqwest gives  *)
(* up after the configured timeout.  Nothing is assumed of arrivals, of    *)
(* the clock, or of what the node answers.                                 *)
(***************************************************************************)
Fairness ==
    /\ \A c \in Clients : WF_vars(Request(c))
    /\ \A p \in Tasks : WF_vars(ProbeTask(p))
    /\ \A o \in Owners : WF_vars(NodeAnswers(o) \/ NodeFails(o))
-----------------------------------------------------------------------------
\* The types of the gateway's state.
TypeOK ==
    /\ now \in 0..MaxTime
    /\ admits \in Seq(0..MaxTime)
    /\ body \in BOOLEAN
    /\ answered \in -1..MaxTime
    /\ DOMAIN cache.entries \subseteq Cacheable
    /\ \A k \in DOMAIN cache.entries : cache.entries[k] \in Answers
    /\ cache.gen \in [d : Nat, at : 0..MaxTime] \cup {None}
    /\ last \in [started : 0..MaxTime, outcome : Nat \cup Failures] \cup {None}
    /\ inflight \in Tasks \cup {None, Dead}
    /\ call \in [Owners -> [st : {"idle", "spawned", "sent", "replied", "held"},
                            started : 0..MaxTime, requested : 0..MaxTime,
                            reply : Answers \cup Failures \cup {None}]]
    /\ req \in [Clients -> [pc : {"idle", "loop", "wait", "orphan", "lookup", "fetch", "store", "done"},
                            key : Keys \cup {None}, arrived : 0..MaxTime,
                            digest : Nat \cup {None}, waits : Nat,
                            on : Tasks \cup {None, Dead},
                            out : Answers \cup Failures \cup {Gone, None}]]

Answered(c) == req[c].pc = "done" /\ req[c].out \notin Failures \cup {Gone}

\* cache.rs: an admission is visible through the gateway at most one freshness
\* window after it commits, whatever mix of cached digests, shared probes,
\* hits and slow node answers a request met: an answer never lacks an
\* admission that is older than the window when the request arrives.
AdmitIsVisible ==
    \A c \in Clients :
      Answered(c) /\ req[c].key \in Cacheable =>
        \A n \in DOMAIN admits :
          admits[n] < req[c].arrived - Freshness => req[c].out.digest >= n

\* lib.rs: a cached answer is never served in place of a failed node read.  An
\* answer implies that the node answered some read within the window before
\* the request arrived, or later: a node that has been down longer is visible.
OutageIsVisible ==
    \A c \in Clients : Answered(c) => answered > req[c].arrived - Freshness - 1

\* cache.rs: the entries all belong to the one digest of the generation, and
\* each is the answer the node gave for that digest: answers that raced with
\* an admission, a probe or another generation never mix.
EntriesShareOneDigest ==
    \A k \in DOMAIN cache.entries :
      cache.gen # None /\ cache.entries[k].digest = cache.gen.d

\* cache.rs: the byte count, the use order and the entries agree, and the
\* cache stays within its bound through hits, evictions and new generations.
CacheAccounting ==
    /\ Len(cache.order) = Cardinality(DOMAIN cache.entries)
    /\ ToSet(cache.order) = DOMAIN cache.entries
    /\ cache.bytes = BytesOf(cache.order)
    /\ cache.bytes <= MaxBytes

\* PUBLIC-ACCESS.md: one probe runs at a time, also across disconnects.  Only a
\* receiver of a task that died without an outcome frees the slot of a live
\* probe, and then it has failed: each such request lets in one more probe.
OneProbeAtATime ==
    LET running == {p \in Tasks : call[p].st # "idle"}
        failed == {c \in Clients : req[c].pc = "done" /\ req[c].out = BadGateway}
    IN  Cardinality(running) <= 1 + IF deaths = 0 THEN 0 ELSE Cardinality(failed)

\* lib.rs: a request waits for at most two probes, however many requests are
\* queued or dropped, as long as no probe task dies without an outcome.
AtMostTwoProbes == deaths = 0 => \A c \in Clients : req[c].waits <= 2

\* What the requests share is coherent at every step of any of them: the
\* entries and their generation, the accounts of the cache, and the one probe
\* (cache.rs, lib.rs).
SharedStateHolds ==
    TypeOK /\ EntriesShareOneDigest /\ CacheAccounting /\ OneProbeAtATime /\ AtMostTwoProbes

\* lib.rs: every request ends, whoever disconnects and whatever becomes of the
\* probe it waits for.
EveryRequestEnds == \A c \in Clients : req[c].pc # "idle" ~> req[c].pc = "done"
=============================================================================
