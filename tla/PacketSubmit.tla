---------------------------- MODULE PacketSubmit ----------------------------
(***************************************************************************)
(* The online half of content authoring in cc-publisher: a context is      *)
(* saved from the node, packets are built against it offline, the owner    *)
(* approves a packet's digest, and `submit-packet' checks and writes it.   *)
(* Several runs of the command may overlap, be killed or time out; a write *)
(* that timed out may still reach the node; other writers use the node.    *)
(*                                                                         *)
(* A packet is its name, which fixes its signed events, and the context    *)
(* digest it was built against; the digest the owner approves and the      *)
(* corpus digest are injective hashes, so they are modelled by what they   *)
(* hash.  A read of the node is one step, at the instant the node answers. *)
(* The node classifies an event from its causal past alone (LedgerFold).   *)
(***************************************************************************)
EXTENDS Naturals, Sequences, FiniteSets, SequencesExt

CONSTANTS
    Runs,       \* invocations of submit-packet
    Packets,    \* what the manifests describe
    EventsOf,   \* the events of a packet, in packet order
    BodyOf,     \* the body an event signs, if any, as a set
    Past,       \* the causal past of an event, itself excluded
    Refused,    \* events the node's rule finds invalid
    Trusted,    \* packets of this node's instance by one of its curators
    Handmade,   \* packets whose directory no builder of this version wrote
    Others,     \* events other writers may admit
    Retained,   \* events the node retains at the start
    MaxBuilds,  \* bound on the packets built
    None

VARIABLES
    corpus,     \* events in cc_v1.candidates
    bodies,     \* bodies in cc_v1.bodies
    live,       \* the node's posture is not frozen
    wire,       \* write requests sent and not yet served
    saved,      \* the context file: events of the last verified export
    disk,       \* the packet directories: context of the packet built, or None
    builds,     \* packets built so far
    approved,   \* packets whose digest the owner approved
    pc,         \* where each run is
    packet,     \* the packet a run loaded
    healthy,    \* the posture a run read from /health
    seen,       \* the corpus a run read from /v1/export
    next        \* position in the run's writes

node == <<corpus, bodies, live>>
local == <<packet, healthy, seen, next>>
vars == <<node, wire, saved, disk, builds, approved, pc, local>>

Events == DOMAIN Past
Own(name) == ToSet(EventsOf[name])
Body(e) == BodyOf[e]
Digest == [name : Packets, context : SUBSET Events]
Ended == {"refused", "frozen", "untrusted", "stale", "inadmissible", "failed", "done"}

ASSUME PacketAssumption ==
    /\ Retained \subseteq Events /\ Others \subseteq Events /\ Refused \subseteq Events
    /\ Trusted \cup Handmade \subseteq Packets
    /\ \A p \in Packets : /\ EventsOf[p] \in Seq(Events) /\ EventsOf[p] # <<>>
                         /\ IsInjective(EventsOf[p])
    /\ \A e \in Events : /\ \A d \in Past[e] : Past[d] \subseteq Past[e]
                        /\ IsFiniteSet(Body(e)) /\ Body(e) \cap Events = {}
    /\ MaxBuilds \in Nat

(* A packet lists its events in submission order, each after those of its  *)
(* past that it carries itself (the builders sign a Genesis before its     *)
(* edges), and only submit-packet brings them to the node.                 *)
ASSUME OrderAssumption ==
    \A p \in Packets :
        /\ Own(p) \cap (Retained \cup Others) = {}
        /\ \A i \in DOMAIN EventsOf[p] :
              Past[EventsOf[p][i]] \cap Own(p) \subseteq {EventsOf[p][j] : j \in 1..(i - 1)}

(* The node's admission of e over the retained events ids.                 *)
Classify(ids, e) ==
    IF e \notin ids THEN "absent"
    ELSE IF ~(Past[e] \subseteq ids) THEN "pending"
    ELSE IF ({e} \cup Past[e]) \cap Refused # {} THEN "invalid" ELSE "valid"

(* Mutant: only that the events are new is checked.                        *)
SelfCheck_Absent(ids, new) == new \cap ids = {}

(* Context::self_check                                                     *)
SelfCheck(ids, new) == \A e \in new : Classify(ids \cup new, e) = "valid"

(* without_packet: on a rerun own events may already be admitted.          *)
WithoutPacket(ids, name) == ids \ Own(name)

(* Step 3: nothing but the packet's own events since its context.          *)
Unchanged(ids, p) == WithoutPacket(ids, p.name) = p.context

(* Step 5: every body, then every event in packet order.                   *)
Work(name) ==
    SetToSeq(UNION {Body(e) : e \in Own(name)}) \o EventsOf[name]

Request(r) == [run |-> r, at |-> next[r], packet |-> packet[r],
               item |-> Work(packet[r].name)[next[r]]]

-----------------------------------------------------------------------------
Init ==
    /\ corpus = Retained /\ bodies = {} /\ live = TRUE
    /\ wire = {}
    /\ saved = None
    /\ disk = [p \in Packets |-> None]
    /\ builds = 0
    /\ approved = {}
    /\ pc = [r \in Runs |-> "idle"]
    /\ packet = [r \in Runs |-> None]
    /\ healthy = [r \in Runs |-> FALSE]
    /\ seen = [r \in Runs |-> {}]
    /\ next = [r \in Runs |-> 1]

(* cc-publisher v1 context                                                 *)
SaveContext ==
    /\ saved # corpus
    /\ saved' = corpus
    /\ UNCHANGED <<node, wire, disk, builds, approved, pc, local>>

(* The offline builders: the same manifest signs the same events, against  *)
(* whatever context file they are given.                                   *)
Build(p) ==
    /\ saved # None /\ builds < MaxBuilds
    /\ p \notin Handmade => SelfCheck(saved, Own(p))
    /\ disk' = [disk EXCEPT ![p] = saved]
    /\ builds' = builds + 1
    /\ UNCHANGED <<node, wire, saved, approved, pc, local>>

(* The owner reviews the packet on disk and takes note of its digest.      *)
Approve(p) ==
    /\ disk[p] # None
    /\ [name |-> p, context |-> disk[p]] \notin approved
    /\ approved' = approved \cup {[name |-> p, context |-> disk[p]]}
    /\ UNCHANGED <<node, wire, saved, disk, builds, pc, local>>

-----------------------------------------------------------------------------
(* submit-packet                                                           *)

(* Mutant: the packet on disk is taken whatever was approved.              *)
Load_Unapproved(r, digest) ==
    /\ pc[r] = "idle"
    /\ disk[digest.name] # None
    /\ packet' = [packet EXCEPT ![r] = [name |-> digest.name,
                                        context |-> disk[digest.name]]]
    /\ pc' = [pc EXCEPT ![r] = "health"]
    /\ UNCHANGED <<node, wire, saved, disk, builds, approved, healthy, seen, next>>

(* Step 1: --approve must be the digest of what the directory holds.       *)
Load(r, digest) ==
    /\ pc[r] = "idle"
    /\ IF disk[digest.name] = digest.context
       THEN /\ packet' = [packet EXCEPT ![r] = digest]
            /\ pc' = [pc EXCEPT ![r] = "health"]
       ELSE /\ pc' = [pc EXCEPT ![r] = "refused"]
            /\ UNCHANGED packet
    /\ UNCHANGED <<node, wire, saved, disk, builds, approved, healthy, seen, next>>

(* Step 2, first read.                                                     *)
Health(r) ==
    /\ pc[r] = "health"
    /\ healthy' = [healthy EXCEPT ![r] = live]
    /\ pc' = [pc EXCEPT ![r] = "export"]
    /\ UNCHANGED <<node, wire, saved, disk, builds, approved, packet, seen, next>>

(* What steps 2 to 4 conclude from the export they read.                   *)
Verdict(r, ids) ==
    IF ~healthy[r] THEN "frozen"
    ELSE IF packet[r].name \notin Trusted THEN "untrusted"
    ELSE IF ~Unchanged(ids, packet[r]) THEN "stale"
    ELSE IF ~SelfCheck(ids, Own(packet[r].name) \ ids) THEN "inadmissible"
    ELSE "write"

Export(r) ==
    /\ pc[r] = "export"
    /\ seen' = [seen EXCEPT ![r] = corpus]
    /\ pc' = [pc EXCEPT ![r] = Verdict(r, corpus)]
    /\ UNCHANGED <<node, wire, saved, disk, builds, approved, packet, healthy, next>>

(* Step 5: put the next body or post the next event.                       *)
Send(r) ==
    /\ pc[r] = "write"
    /\ wire' = wire \cup {Request(r)}
    /\ pc' = [pc EXCEPT ![r] = "wait"]
    /\ UNCHANGED <<node, saved, disk, builds, approved, local>>

(* Mutant: any reply counts as success.                                    *)
Accepted_Any(m) == TRUE

(* The reply lets the run go on: 200 or 201 for a body, 201 and valid for  *)
(* an event.                                                               *)
Accepted(m) == live /\ (m.item \in Events => Classify(corpus \cup {m.item}, m.item) = "valid")

(* The run that waits for m reads its reply; a run that gave up does not.  *)
Answer(m) ==
    LET r == m.run IN
    IF ~(pc[r] = "wait" /\ next[r] = m.at) THEN UNCHANGED <<pc, next>>
    ELSE IF ~Accepted(m) THEN pc' = [pc EXCEPT ![r] = "failed"] /\ UNCHANGED next
    ELSE /\ next' = [next EXCEPT ![r] = @ + 1]
         /\ pc' = [pc EXCEPT ![r] = IF m.at = Len(Work(m.packet.name))
                                    THEN "readback" ELSE "write"]

(* The node serves a write: PUT /v1/bodies or POST /v1/candidates.  It     *)
(* keeps an undecided or invalid event, and refuses everything when frozen.*)
Serve(m) ==
    /\ m \in wire
    /\ wire' = wire \ {m}
    /\ IF m.item \in Events
       THEN /\ corpus' = IF live THEN corpus \cup {m.item} ELSE corpus
            /\ UNCHANGED bodies
       ELSE /\ bodies' = IF live THEN bodies \cup {m.item} ELSE bodies
            /\ UNCHANGED corpus
    /\ Answer(m)
    /\ UNCHANGED <<live, saved, disk, builds, approved, packet, healthy, seen>>

(* A request that never reaches the node.                                  *)
Lose(m) ==
    /\ m \in wire
    /\ wire' = wire \ {m}
    /\ UNCHANGED <<node, saved, disk, builds, approved, pc, local>>

(* Step 6: every event of the packet is retained and valid.                *)
Readback(r) ==
    /\ pc[r] = "readback"
    /\ pc' = [pc EXCEPT ![r] =
                IF \A e \in Own(packet[r].name) : Classify(corpus, e) = "valid"
                THEN "done" ELSE "failed"]
    /\ UNCHANGED <<node, wire, saved, disk, builds, approved, local>>

(* A read fails, a request times out, or the process is killed.            *)
Abort(r) ==
    /\ pc[r] \notin Ended \cup {"idle"}
    /\ pc' = [pc EXCEPT ![r] = "failed"]
    /\ UNCHANGED <<node, wire, saved, disk, builds, approved, local>>

-----------------------------------------------------------------------------
(* The rest of the world                                                   *)

(* Another writer's event, decided when it arrives.                        *)
Other(e) ==
    /\ live /\ e \in Others \ corpus /\ Past[e] \subseteq corpus
    /\ corpus' = corpus \cup {e}
    /\ UNCHANGED <<bodies, live, wire, saved, disk, builds, approved, pc, local>>

(* The operator restarts the node in another posture.                      *)
Restart ==
    /\ live' = ~live
    /\ UNCHANGED <<corpus, bodies, wire, saved, disk, builds, approved, pc, local>>

Next ==
    \/ SaveContext \/ Restart
    \/ \E p \in Packets : Build(p) \/ Approve(p)
    \/ \E r \in Runs : \/ \E d \in approved : Load(r, d)
                       \/ Health(r) \/ Export(r) \/ Send(r) \/ Readback(r) \/ Abort(r)
    \/ \E m \in wire : Serve(m) \/ Lose(m)
    \/ \E e \in Others : Other(e)

Spec == Init /\ [][Next]_vars

-----------------------------------------------------------------------------
(* Every variable has its type, and a run that writes has a packet.        *)
TypeOK ==
    /\ corpus \subseteq Events /\ live \in BOOLEAN
    /\ bodies \subseteq UNION {Body(e) : e \in Events}
    /\ saved \in (SUBSET Events) \cup {None}
    /\ disk \in [Packets -> (SUBSET Events) \cup {None}]
    /\ builds \in 0..MaxBuilds
    /\ approved \subseteq Digest
    /\ \A r \in Runs :
          /\ pc[r] \in Ended \cup {"idle", "health", "export", "write", "wait", "readback"}
          /\ packet[r] \in Digest \cup {None}
          /\ pc[r] \in {"write", "wait"} => next[r] \in 1..Len(Work(packet[r].name))
    /\ \A m \in wire : m.run \in Runs /\ m.packet \in Digest

(* "The exact packet the owner approved": every write on its way to the    *)
(* node belongs to a packet approved with the context it was built on,     *)
(* also when the packet is rebuilt between its approval and the run.       *)
OnlyApproved == \A m \in wire : m.packet \in approved

OwnEvents == UNION {Own(p) : p \in Packets}

(* "Bodies, then events": whichever run, retry or late request wrote it,   *)
(* an admitted event of a packet can always be served with its body.       *)
BodiesFirst == \A e \in corpus \cap OwnEvents : Body(e) \subseteq bodies

(* submit-packet never leaves an undecided or an invalid event behind on   *)
(* the node, not even when it is killed between two posts or when another  *)
(* run of the same packet overtakes it.                                    *)
NoneUndecided == \A e \in corpus \cap OwnEvents : Classify(corpus, e) = "valid"

(* A run that reports a submission has all of its packet on the node, and  *)
(* that stays true.                                                        *)
ReportIsTrue ==
    \A r \in Runs : pc[r] = "done" =>
        \A e \in Own(packet[r].name) :
            Classify(corpus, e) = "valid" /\ Body(e) \subseteq bodies

(* Foreign events the run's packet was not built on.                       *)
Unreviewed(ids, p) == ids \ (p.context \cup Own(p.name))

(* A run that starts to write had read a corpus in which nothing but its   *)
(* own packet was new; what follows is only a race with that read.         *)
StaleNeverWrites ==
    /\ \A r \in Runs : pc[r] \in {"write", "wait", "readback", "done"} =>
          Unreviewed(seen[r], packet[r]) = {}
    /\ \A m \in wire : Unreviewed(seen[m.run], m.packet) = {}

(* What a run, killed or overtaken anywhere, leaves on the node: only      *)
(* decided events, with their bodies, checked against the corpus it read.  *)
WrittenInOrder == TypeOK /\ NoneUndecided /\ BodiesFirst /\ StaleNeverWrites

(* "the node's corpus changed since the packet's context was taken": a run *)
(* refuses as stale only when another event was admitted since.            *)
StaleMeansChanged ==
    \A r \in Runs : pc[r] = "stale" => Unreviewed(seen[r], packet[r]) # {}
=============================================================================
