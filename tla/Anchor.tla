------------------------------- MODULE Anchor -------------------------------
(***************************************************************************)
(* The commitment log and its anchors (cc-anchor: store.rs and the         *)
(* commands seal, anchor, upgrade and audit of bin/cc-anchor-tick.rs).     *)
(* Runs of the command overlap and die between any two statements while    *)
(* others append events; the calendar answers, delays, fails or babbles.   *)
(*                                                                         *)
(* An event is its signed content: a user's, or a node-0 moment with what  *)
(* its body hash covers.  Event ids are hashes, so ORDER BY event_id is    *)
(* some order of the events at hand.  The ledger's commit is one step: it  *)
(* is module EventLog.                                                     *)
(***************************************************************************)
EXTENDS Merkle, Ots, FiniteSets

CONSTANTS Users,        \* the events others append
          Procs,        \* runs of cc-anchor-tick
          Ticks,        \* values of `now`
          BlockHeights, \* heights a calendar may attest
          MaxCommands   \* bound on the runs started

ASSUME AnchorAssumption == MaxCommands \in Nat

VARIABLES events,       \* events
          log,          \* commitment_log: rows [seq, event, epoch]
          roots,        \* roots, the row of height h at h + 1
          anchors,      \* anchors: root -> row
          proofs,       \* anchor_proofs: the stored .ots files
          run,          \* the state of every run
          stamps,       \* replies so far: no two replies are alike
          started,      \* runs started so far
          published     \* every root ever published (a history)

vars == <<events, log, roots, anchors, proofs, run, stamps, started, published>>

NoRow == [none |-> TRUE]
Idle == [pc |-> "idle", now |-> 0, height |-> 0, next |-> 0, rows |-> {}, root |-> EmptyTree,
         proof |-> NoProof, row |-> NoRow, block |-> -1, leaves |-> <<>>, out |-> "none"]

Init == /\ events = {} /\ log = {} /\ roots = <<>> /\ anchors = <<>> /\ proofs = {}
        /\ run = [p \in Procs |-> Idle] /\ stamps = 0 /\ started = 0 /\ published = <<>>

Put(f, k, v) == [x \in DOMAIN f \union {k} |-> IF x = k THEN v ELSE f[x]]
User(u) == [k |-> "user", u |-> u]
At(p, pc) == run[p].pc = pc
Goto(p, r) == run' = [run EXCEPT ![p] = r]
End(p) == Goto(p, Idle)
Report(p, out) == Goto(p, [Idle EXCEPT !.out = out])

(* Another program commits an event. *)
AppendEvent(u) == /\ User(u) \notin events
                  /\ events' = events \union {User(u)}
                  /\ UNCHANGED <<log, roots, anchors, proofs, run, stamps, started, published>>

Start(p, cmd, now) == /\ At(p, "idle") /\ started < MaxCommands
                      /\ started' = started + 1
                      /\ Goto(p, [Idle EXCEPT !.pc = cmd, !.now = now])
                      /\ UNCHANGED <<events, log, roots, anchors, proofs, stamps, published>>

(* A run dies: an open transaction is rolled back, the rest stays. *)
Die(p) == /\ ~At(p, "idle")
          /\ End(p)
          /\ UNCHANGED <<events, log, roots, anchors, proofs, stamps, started, published>>

(* roots and anchors are lost (an old rebuild, a partial restore) while
   the protected commitment_log survives: the case RootStreamLost is for.  *)
LoseRoots == /\ roots # <<>>
             /\ \A p \in Procs : run[p].pc \notin {"insert", "seal-commit"}
             /\ roots' = <<>> /\ anchors' = <<>>
             /\ UNCHANGED <<events, log, proofs, run, stamps, started, published>>
-----------------------------------------------------------------------------
(* rows_to_leaves: the whole log ORDER BY seq, refused when it has a gap. *)
Rows(l) == [i \in 1..Cardinality(l) |->
              CHOOSE r \in l : Cardinality({s \in l : s.seq < r.seq}) = i - 1]
GapFree(l) == \A i \in DOMAIN Rows(l) : Rows(l)[i].seq = i - 1

(* Mutant: the leaves in the order of their event ids. *)
LoadLeaves_ById(l) == [i \in 1..Cardinality(l) |->
                         leaf_hash(SetToSeq({r.event : r \in l})[i])]
LoadLeaves(l) == [i \in 1..Cardinality(l) |-> leaf_hash(Rows(l)[i].event)]

Height(h) == roots[h + 1]
LatestHeight == Len(roots) - 1
SealLocked == \E p \in Procs : run[p].pc \in {"insert", "seal-commit"}

(* Mutant: a log without a root stream is sealed as if it were new. *)
Sealable_Fresh == TRUE

(* publish_root refuses to open a second stream over a committed log. *)
Sealable == ~(roots = <<>> /\ log # {})

(* publish_root under the advisory lock: what is there, then the rows of
   the events that no row has yet, then the root, all in one transaction.  *)
BeginSeal(p) ==
    /\ At(p, "seal") /\ ~SealLocked
    /\ IF Sealable /\ GapFree(log)
       THEN Goto(p, [run[p] EXCEPT !.pc = "insert", !.height = Len(roots),
                                   !.next = Cardinality(log)])
       ELSE End(p)
    /\ UNCHANGED <<events, log, roots, anchors, proofs, stamps, started, published>>

Unsealed == {e \in events : \A r \in log : r.event # e}
NewRows(p) == LET order == SetToSeq(Unsealed) IN
              {[seq |-> run[p].next + i - 1, event |-> order[i], epoch |-> run[p].height] :
                 i \in DOMAIN order}
InsertRows(p) ==
    /\ At(p, "insert")
    /\ IF Unsealed = {} THEN End(p)
       ELSE Goto(p, [run[p] EXCEPT !.pc = "seal-commit", !.rows = NewRows(p)])
    /\ UNCHANGED <<events, log, roots, anchors, proofs, stamps, started, published>>

(* The unique indexes of commitment_log and roots. *)
Clashes(p) == \/ \E r \in log, s \in run[p].rows : r.seq = s.seq \/ r.event = s.event
              \/ Len(roots) # run[p].height
PublishRoot(p) ==
    LET grown == log \union run[p].rows
        leaves == LoadLeaves(grown)
        h == run[p].height
        new == [root |-> merkle_root(leaves), size |-> Len(leaves), moment |-> NoRow,
                prev |-> IF h = 0 THEN EmptyTree ELSE Height(h - 1).root,
                path |-> IF h = 0 THEN Refused ELSE prove_consistency(leaves, Height(h - 1).size)]
    IN  /\ At(p, "seal-commit")
        /\ IF Clashes(p) THEN End(p) /\ UNCHANGED <<log, roots, published>>
           ELSE /\ log' = grown
                /\ roots' = Append(roots, new)
                /\ published' = Append(published, [root |-> new.root, size |-> new.size])
                /\ Goto(p, [run[p] EXCEPT !.pc = "record", !.root = new.root, !.row = new,
                                            !.rows = {}])
        /\ UNCHANGED <<events, anchors, proofs, stamps, started>>

(* record_root_moment: commit, then point the row at the moment. *)
Row(root) == LET hs == {h \in DOMAIN roots : roots[h].root = root}
             IN  IF hs = {} THEN 0 ELSE CHOOSE h \in hs : TRUE
RootMoment(h, size, root, prev, now) ==
    [k |-> "root", height |-> h, size |-> size, root |-> root, prev |-> prev, now |-> now]
RecordRootMoment(p) ==
    LET new == run[p].row
        moment == RootMoment(run[p].height, new.size, new.root, new.prev, run[p].now)
    IN  /\ At(p, "record")
        /\ events' = events \union {moment}
        /\ Goto(p, [run[p] EXCEPT !.pc = "record-row", !.row = moment])
        /\ UNCHANGED <<log, roots, anchors, proofs, stamps, started, published>>
RecordRow(p) ==
    /\ At(p, "record-row")
    /\ roots' = [h \in DOMAIN roots |-> IF roots[h].root = run[p].root
                                        THEN [roots[h] EXCEPT !.moment = run[p].row] ELSE roots[h]]
    /\ End(p)
    /\ UNCHANGED <<events, log, anchors, proofs, stamps, started, published>>
-----------------------------------------------------------------------------
(* anchor: submit the latest root, then record_stamp. *)
ReadLatest(p, from, to) ==
    /\ At(p, from)
    /\ IF roots = <<>> THEN End(p)
       ELSE Goto(p, [run[p] EXCEPT !.pc = to, !.root = Height(LatestHeight).root,
                                   !.height = LatestHeight])
    /\ UNCHANGED <<events, log, roots, anchors, proofs, stamps, started, published>>

(* What a calendar may send: a promise, or bytes that are no timestamp.  The
   nonce stands for what makes two replies to one submission differ.       *)
Replies(nonce) == {<<Op("append"), Op("sha256"), Att(Pending(nonce))>>, <<Op("sha1")>>}
Digest(root) == <<<<"root", root>>>>
SubmitDigest(p) ==
    /\ At(p, "submit")
    /\ stamps' = stamps + 1
    /\ \E reply \in Replies(stamps + 1) :
          LET proof == from_calendar_reply(Digest(run[p].root), reply) IN
          IF proof = NoProof THEN End(p)
          ELSE Goto(p, [run[p] EXCEPT !.pc = "stamp", !.proof = proof])
    /\ UNCHANGED <<events, log, roots, anchors, proofs, started, published>>

(* A second stamp would replace settled evidence: it is refused. *)
CheckStamp(p) ==
    /\ At(p, "stamp")
    /\ IF /\ commits_to(run[p].proof, Digest(run[p].root))
          /\ Row(run[p].root) # 0
          /\ run[p].root \notin DOMAIN anchors
       THEN Goto(p, [run[p] EXCEPT !.pc = "stamp-proof"]) ELSE End(p)
    /\ UNCHANGED <<events, log, roots, anchors, proofs, stamps, started, published>>
StoreProof(p) ==
    /\ At(p, "stamp-proof")
    /\ proofs' = proofs \union {run[p].proof}
    /\ Goto(p, [run[p] EXCEPT !.pc = "stamp-moment"])
    /\ UNCHANGED <<events, log, roots, anchors, stamps, started, published>>

AnchorMoment(root, h, status, proof, block, supersedes, now) ==
    [k |-> "anchor", root |-> root, height |-> h, status |-> status, blob |-> proof,
     block |-> block, supersedes |-> supersedes, now |-> now]
CommitStamp(p) ==
    LET m == AnchorMoment(run[p].root, run[p].height, "pending", run[p].proof, -1, NoRow, run[p].now)
    IN  /\ At(p, "stamp-moment")
        /\ events' = events \union {m}
        /\ Goto(p, [run[p] EXCEPT !.pc = "stamp-row", !.row = m])
        /\ UNCHANGED <<log, roots, anchors, proofs, stamps, started, published>>

(* INSERT INTO anchors: root_id is its primary key and refers to roots. *)
MayInsert(root) == Row(root) # 0 /\ root \notin DOMAIN anchors
InsertAnchor(p) ==
    /\ At(p, "stamp-row")
    /\ anchors' = IF MayInsert(run[p].root)
                  THEN Put(anchors, run[p].root,
                           [status |-> "pending", blob |-> run[p].proof, block |-> -1,
                            moment |-> run[p].row])
                  ELSE anchors
    /\ End(p)
    /\ UNCHANGED <<events, log, roots, proofs, stamps, started, published>>
-----------------------------------------------------------------------------
(* upgrade: ask the calendar about the anchor of the latest root. *)
LoadAnchor(p) ==
    /\ At(p, "upgrade-row")
    /\ IF /\ run[p].root \in DOMAIN anchors
          /\ anchors[run[p].root].status = "pending"
          /\ anchors[run[p].root].blob \in proofs
       THEN Goto(p, [run[p] EXCEPT !.pc = "fetch", !.proof = anchors[run[p].root].blob])
       ELSE End(p)
    /\ UNCHANGED <<events, log, roots, anchors, proofs, stamps, started, published>>

(* fetch_upgrade for each pending calendar: 404 and failures end the run as
   StillPending or an error; a fragment counts with its Bitcoin height.    *)
Upgrades == {<<Op("sha256"), Att(Bitcoin(h))>> : h \in BlockHeights}
            \union {<<Op("append"), Att(Unknown)>>}
FetchUpgrade(p) ==
    /\ At(p, "fetch")
    /\ \E c \in ToSet(pending(run[p].proof)), reply \in Upgrades :
          LET block == bitcoin_height(attestations_in(reply, c.message)) IN
          IF block = -1 THEN End(p)
          ELSE Goto(p, [run[p] EXCEPT !.pc = "confirm", !.block = block])
    /\ UNCHANGED <<events, log, roots, anchors, proofs, stamps, started, published>>

(* confirm_anchor: the pending row is read again; settlement is recorded
   once.                                                                   *)
CheckConfirm(p) ==
    /\ At(p, "confirm")
    /\ IF Row(run[p].root) # 0 /\ run[p].root \in DOMAIN anchors
          /\ anchors[run[p].root].status = "pending"
       THEN Goto(p, [run[p] EXCEPT !.pc = "confirm-moment",
                                   !.proof = anchors[run[p].root].blob,
                                   !.row = anchors[run[p].root].moment])
       ELSE End(p)
    /\ UNCHANGED <<events, log, roots, anchors, proofs, stamps, started, published>>
CommitConfirm(p) ==
    LET m == AnchorMoment(run[p].root, run[p].height, "confirmed", run[p].proof, run[p].block,
                          run[p].row, run[p].now)
    IN  /\ At(p, "confirm-moment")
        /\ events' = events \union {m}
        /\ Goto(p, [run[p] EXCEPT !.pc = "confirm-row", !.row = m])
        /\ UNCHANGED <<log, roots, anchors, proofs, stamps, started, published>>
UpdateAnchor(p) ==
    /\ At(p, "confirm-row")
    /\ anchors' = [r \in DOMAIN anchors |->
                     IF r = run[p].root
                     THEN [anchors[r] EXCEPT !.status = "confirmed", !.block = run[p].block,
                                             !.moment = run[p].row]
                     ELSE anchors[r]]
    /\ End(p)
    /\ UNCHANGED <<events, log, roots, proofs, stamps, started, published>>
-----------------------------------------------------------------------------
(* verify_root_chain: leaves first, roots in a later statement. *)
StoredProof(h) == IF h = 0 THEN Refused
                  ELSE [Height(h).path EXCEPT !.old = Height(h - 1).size, !.new = Height(h).size]
VerifyRootChain(leaves) ==
    IF \E h \in 0..LatestHeight : Height(h).size > Len(leaves) \/
          merkle_root(SubSeq(leaves, 1, Height(h).size)) # Height(h).root
    THEN "mismatch"
    ELSE IF \E h \in 1..LatestHeight :
               \/ ~IsProof(Height(h).path)
               \/ ~VerifyConsistency(StoredProof(h), Height(h - 1).root, Height(h).root)
    THEN "broken" ELSE "sound"
AuditLeaves(p) ==
    /\ At(p, "audit")
    /\ IF GapFree(log) THEN Goto(p, [run[p] EXCEPT !.pc = "audit-roots", !.leaves = LoadLeaves(log)])
       ELSE Report(p, "corrupt")
    /\ UNCHANGED <<events, log, roots, anchors, proofs, stamps, started, published>>
AuditRoots(p) ==
    /\ At(p, "audit-roots")
    /\ Report(p, VerifyRootChain(run[p].leaves))
    /\ UNCHANGED <<events, log, roots, anchors, proofs, stamps, started, published>>

(* prove_event: against the earliest root that covers the leaf. *)
Covering(seq) == {h \in 0..LatestHeight : Height(h).size > seq}
ProveEvent(e) ==
    LET seq == (CHOOSE r \in log : r.event = e).seq
        h == CHOOSE h \in Covering(seq) : \A i \in Covering(seq) : h <= i
        prefix == SubSeq(LoadLeaves(log), 1, Height(h).size)
    IN  IF ~(\E r \in log : r.event = e) \/ Covering(seq) = {} THEN Refused
        ELSE [leaf |-> prefix[seq + 1], root |-> Height(h).root, height |-> h,
              proof |-> prove_inclusion(prefix, seq)]

Next ==
    \/ \E u \in Users : AppendEvent(u)
    \/ LoseRoots
    \/ \E p \in Procs, now \in Ticks :
          \E cmd \in {"seal", "anchor", "upgrade", "audit"} : Start(p, cmd, now)
    \/ \E p \in Procs :
          \/ BeginSeal(p) \/ InsertRows(p) \/ PublishRoot(p) \/ RecordRootMoment(p) \/ RecordRow(p)
          \/ ReadLatest(p, "anchor", "submit") \/ SubmitDigest(p) \/ CheckStamp(p) \/ StoreProof(p)
          \/ CommitStamp(p) \/ InsertAnchor(p)
          \/ ReadLatest(p, "upgrade", "upgrade-row") \/ LoadAnchor(p) \/ FetchUpgrade(p)
          \/ CheckConfirm(p) \/ CommitConfirm(p) \/ UpdateAnchor(p)
          \/ AuditLeaves(p) \/ AuditRoots(p)
          \/ Die(p)
Spec == Init /\ [][Next]_vars
-----------------------------------------------------------------------------
(* However seals overlap, die, or meet late events, the log has no gap,    *)
(* every root in the table is the root of a prefix of it, and the earliest *)
(* root that covers an event is the one of the epoch its row names, with   *)
(* the event's own leaf at its place.                                      *)
RootsRecompute ==
    /\ GapFree(log)
    /\ VerifyRootChain(LoadLeaves(log)) # "mismatch"
    /\ roots # <<>> => \A r \in log :
          LET inc == ProveEvent(r.event) IN
          /\ inc.leaf = leaf_hash(r.event)
          /\ inc.height = r.epoch /\ inc.root = Height(r.epoch).root

(* And an auditor is convinced of it: every root is shown to extend the    *)
(* one before it, and every sealed event to be under the root that covers  *)
(* it (verify_root_chain, and what prove_event hands out).                 *)
AuditorIsConvinced ==
    /\ VerifyRootChain(LoadLeaves(log)) = "sound"
    /\ roots # <<>> => \A r \in log :
          LET inc == ProveEvent(r.event) IN
          VerifyInclusion(inc.proof, leaf_hash(r.event), inc.root)

(* The stream of roots that mirrors have seen is never forked or restarted *)
(* ("Publishing a fresh genesis root over an already-committed log would   *)
(* silently orphan every anchor ever made"): a new root follows the last   *)
(* one that was ever published, even if the table of roots was lost.       *)
StreamContinues ==
    [][published' # published /\ published # <<>> =>
         LET last == published[Len(published)]
             h == Len(roots') - 1
         IN  /\ h > 0 /\ roots'[h].root = last.root /\ roots'[h].size = last.size
             /\ roots'[h + 1].prev = last.root /\ roots'[h + 1].size > last.size]_vars

(* An anchor row is the collapsed view of signed moments: the moment it    *)
(* names is committed and says what the row says, its proof is stored and  *)
(* is about its root, and a confirmation supersedes a pending moment of    *)
(* the same proof.                                                         *)
RowsTellMoments ==
    \A r \in DOMAIN anchors :
       LET a == anchors[r] IN
       /\ a.moment \in events /\ a.blob \in proofs /\ commits_to(a.blob, Digest(r))
       /\ a.moment.root = r /\ a.moment.status = a.status
       /\ a.moment.blob = a.blob /\ a.moment.block = a.block
       /\ a.status = "confirmed" => /\ a.moment.supersedes \in events
                                    /\ a.moment.supersedes.status = "pending"
                                    /\ a.moment.supersedes.blob = a.blob

(* Evidence stays: however two stamps race, the proof that a root's row    *)
(* names is never replaced, and a confirmed root never becomes pending.    *)
EvidenceStays ==
    [][\A r \in DOMAIN anchors \intersect DOMAIN anchors' :
         /\ anchors'[r].blob = anchors[r].blob
         /\ anchors[r].status = "confirmed" => anchors'[r].status = "confirmed"]_vars

(* At every moment the tables agree: the roots with the log, and the       *)
(* anchor rows with the signed moments.                                    *)
AnchorsAreSound == RootsRecompute /\ RowsTellMoments

(* No step takes evidence back: the stream of published roots goes on from *)
(* its last one, and an anchored root keeps its proof and settlement.      *)
EvidenceIsKept == StreamContinues /\ EvidenceStays
=============================================================================
