----------------------------- MODULE Publication -----------------------------
(***************************************************************************)
(* Controlled publication of v0 candidates (crates/cc-publisher/src/lib.rs *)
(* and its commands in main.rs): briefs and candidates are staged under an *)
(* id, a human approves an exact digest, for a candidate together with the *)
(* bodies its subjects had, and publish commits the whole batch with its   *)
(* receipt in one transaction of the ledger, while other publishers, the   *)
(* node and plain writers commit too and an operator pauses and resumes.   *)
(* A digest stands for the content it is the digest of.  The candidate     *)
(* rules (validate_candidate) are module Candidate.  Image files that      *)
(* changed refuse a command before it writes anything: it is then not run, *)
(* or the transaction of publish ends (Abort).                             *)
(***************************************************************************)
EXTENDS EventLog

CONSTANTS Briefs,         \* brief id -> the contents it may be staged with
          Candidates,     \* candidate id -> the payloads it may be staged with
          Payload         \* payload -> [events, size, evidence]

(* Locks on candidates are not locks on tables; a candidate has an entry   *)
(* (validate_candidate) and so an event.                                   *)
ASSUME PublicationAssumption ==
  /\ Publishers \intersect (Writers \union Clients \union Rebuilders) = {}
  /\ Clients \intersect (Writers \union Rebuilders) = {} /\ Writers \intersect Rebuilders = {}
  /\ \A p \in DOMAIN Payload : Payload[p].events \in Seq(Ids) /\ Payload[p].events # <<>>
  /\ \A c \in DOMAIN Candidates : Candidates[c] \subseteq DOMAIN Payload
  /\ DOMAIN Candidates \intersect ({"digest", "control"} \union ToSet(TruncateLocks)) = {}

VARIABLES briefs,         \* generation_briefs: id -> content
          cands,          \* generation_candidates: id -> [brief, payload]
          approvals,      \* generation_approvals: <<kind, id, digest>> -> expected_heads
          approver,       \* a reviewer's approve command under way
          paused,         \* publication_control
          receipts,       \* publication_receipts: candidate id -> payload
          bodies,         \* claim_bodies
          evidence        \* edge_evidence: edge -> its evidence

pubvars == <<briefs, cands, approvals, approver, paused, receipts, bodies, evidence>>
allvars == <<vars, pubvars>>

NoApprover == [cand |-> "none", payload |-> "none", heads |-> <<>>]
PubInit == /\ LogInit
           /\ briefs = <<>> /\ cands = <<>> /\ approvals = <<>>
           /\ approver = NoApprover
           /\ paused = TRUE
           /\ receipts = <<>> /\ bodies = {} /\ evidence = <<>>

BriefKey(b) == <<"brief", b, briefs[b]>>
CandKey(c, p) == <<"candidate", c, p>>
Approved(key) == key \in DOMAIN approvals
Batch(p) == ToSet(Payload[p].events)
Subjects(p) == {Event[e].subject : e \in {e \in Batch(p) : IsMoment(e)}}

(* heads: the bodies every subject of the candidate has in the view, as    *)
(* often as they occur: the sorted list of the code.                       *)
Showing(x, b) == {r \in DOMAIN view.moments : view.moments[r].subject = x /\ view.moments[r].body = b}
Heads(p) == [x \in Subjects(p) |-> [b \in {r.body : r \in RowsOf(x)} |-> Cardinality(Showing(x, b))]]
-----------------------------------------------------------------------------
StageBrief(b, content) ==
  /\ b \notin DOMAIN briefs /\ world.cands # {}
  /\ briefs' = Put(briefs, b, content)
  /\ UNCHANGED <<vars, cands, approvals, approver, paused, receipts, bodies, evidence>>

(* Within the limit of an approved brief.                                  *)
StageCandidate(c, b, p) ==
  /\ c \notin DOMAIN cands /\ c \in world.cands
  /\ b \in DOMAIN briefs /\ Payload[p].size <= briefs[b]
  /\ Approved(BriefKey(b))
  /\ cands' = Put(cands, c, [brief |-> b, payload |-> p])
  /\ UNCHANGED <<vars, briefs, approvals, approver, paused, receipts, bodies, evidence>>

ApproveBrief(b) ==
  /\ b \in DOMAIN briefs
  /\ approvals' = Put(approvals, BriefKey(b), <<>>)
  /\ UNCHANGED <<vars, briefs, cands, approver, paused, receipts, bodies, evidence>>

(* approve reads the heads, then writes them with the approval: commits    *)
(* of others may fall in between.  A second approval replaces the first.   *)
ReadHeads(c) ==
  /\ approver = NoApprover
  /\ c \in DOMAIN cands
  /\ approver' = [cand |-> c, payload |-> cands[c].payload, heads |-> Heads(cands[c].payload)]
  /\ UNCHANGED <<vars, briefs, cands, approvals, paused, receipts, bodies, evidence>>
WriteApproval ==
  /\ approver # NoApprover
  /\ approvals' = Put(approvals, CandKey(approver.cand, approver.payload), approver.heads)
  /\ approver' = NoApprover
  /\ UNCHANGED <<vars, briefs, cands, paused, receipts, bodies, evidence>>

(* UPDATE publication_control waits for the publishers that read it FOR    *)
(* SHARE to end.                                                           *)
SetPaused(flag) ==
  /\ paused # flag /\ world.cands # {}
  /\ \A t \in Conns : <<"control", "share">> \notin tx[t].holds
  /\ paused' = flag
  /\ UNCHANGED <<vars, briefs, cands, approvals, approver, receipts, bodies, evidence>>
-----------------------------------------------------------------------------
(* publish, statement by statement up to the batch.                        *)
BeginPublish(t, c) ==
  /\ tx[t].pc = "idle" /\ t \in world.conns /\ c \in DOMAIN cands
  /\ tx' = [tx EXCEPT ![t].pc = "row", ![t].cand = c]
  /\ UNCHANGED <<events, view, settled, world, pubvars>>

(* The candidate FOR UPDATE; a receipt is the answer; both approvals.      *)
Exact(c) == /\ Approved(BriefKey(cands[c].brief))
            /\ Approved(CandKey(c, cands[c].payload))
LockCandidate(t) ==
  /\ tx[t].pc = "row" /\ WaitsFor(t) = {}
  /\ IF tx[t].cand \notin DOMAIN receipts /\ Exact(tx[t].cand)
     THEN Take(t, Wanted(t), "control")
     ELSE End(t)
  /\ UNCHANGED <<events, view, settled, world, pubvars>>

ControlLock(t) == Wanted(t)
ReadControl(t) ==
  /\ tx[t].pc = "control" /\ WaitsFor(t) = {}
  /\ IF ~ paused THEN Take(t, ControlLock(t), "moments") ELSE End(t)
  /\ UNCHANGED <<events, view, settled, world, pubvars>>

(* Mutant: the heads are compared without the table lock.                  *)
MomentsLock_None(t) == {}

(* LOCK TABLE moments, and only then the comparison of the heads.          *)
MomentsLock(t) == Wanted(t)
LockMoments(t) ==
  /\ tx[t].pc = "moments" /\ Blockers(t, MomentsLock(t)) = {}
  /\ Take(t, MomentsLock(t), "heads")
  /\ UNCHANGED <<events, view, settled, world, pubvars>>
CheckHeads(t) ==
  LET c == tx[t].cand
      p == cands[c].payload
  IN  /\ tx[t].pc = "heads"
      /\ IF approvals[CandKey(c, p)] = Heads(p)
         THEN tx' = [tx EXCEPT ![t].pc = "insert", ![t].todo = Payload[p].events,
                               ![t].expected = approvals[CandKey(c, p)]]
         ELSE End(t)
      /\ UNCHANGED <<events, view, settled, world, pubvars>>

(* The end of the batch: an edge that already has other evidence refuses   *)
(* the publication, else bodies, evidence, events, view and receipt become *)
(* visible together.                                                       *)
Evidenced(p) == {e \in Batch(p) : Event[e].kind = "edge"}

(* Mutant: the stored evidence is not read back.                           *)
Contradicts_Never(p) == FALSE
Contradicts(p) == \E e \in Evidenced(p) : e \in DOMAIN evidence /\ evidence[e] # Payload[p].evidence
PublishTx(t) ==
  LET c == tx[t].cand
      p == cands[c].payload
  IN  /\ tx[t].pc = "commit" /\ ~ Contradicts(p)
      /\ CommitTx(t)
      /\ receipts' = Put(receipts, c, p)
      /\ bodies' = bodies \union {Event[e].body : e \in {e \in Batch(p) : IsMoment(e)}}
      /\ evidence' = [e \in DOMAIN evidence \union Evidenced(p) |-> IF e \in DOMAIN evidence
                        THEN evidence[e] ELSE Payload[p].evidence]
      /\ UNCHANGED <<briefs, cands, approvals, approver, paused>>
RefuseEvidence(t) ==
  /\ tx[t].pc = "commit" /\ Contradicts(cands[tx[t].cand].payload)
  /\ End(t)
  /\ UNCHANGED <<events, view, settled, world, pubvars>>

PubNext ==
  \/ LogNext /\ UNCHANGED pubvars
  \/ \E b \in DOMAIN Briefs : \E content \in Briefs[b] : StageBrief(b, content)
  \/ \E c \in DOMAIN Candidates, b \in DOMAIN Briefs : \E p \in Candidates[c] : StageCandidate(c, b, p)
  \/ \E b \in DOMAIN Briefs : ApproveBrief(b)
  \/ \E c \in DOMAIN Candidates : ReadHeads(c)
  \/ WriteApproval
  \/ \E flag \in BOOLEAN : SetPaused(flag)
  \/ \E t \in Publishers, c \in DOMAIN Candidates : BeginPublish(t, c)
  \/ \E t \in Publishers : LockCandidate(t) \/ ReadControl(t) \/ LockMoments(t) \/ CheckHeads(t)
                           \/ PublishTx(t) \/ RefuseEvidence(t)
PubSpec == PubInit /\ [][PubNext]_allvars
-----------------------------------------------------------------------------
(* What is published is what was approved: when a receipt appears the      *)
(* operator has not paused publication, brief and candidate are approved   *)
(* with the digests they are staged with, and every subject still has the  *)
(* bodies that the approval `expected` when publish read it, whatever      *)
(* committed since.  The row of the approval is not locked: a second       *)
(* approval may have replaced it meanwhile.                                *)
PublishedAsApproved ==
  [][\A c \in DOMAIN receipts' \ DOMAIN receipts :
       /\ ~ paused
       /\ Exact(c)
       /\ \E t \in Publishers : /\ tx[t].pc = "commit" /\ tx[t].cand = c
                               /\ tx[t].expected = Heads(cands[c].payload)]_allvars

(* A candidate is published as a whole or not at all: a receipt has all    *)
(* its events, bodies and evidence, and an event that only candidates      *)
(* carry is in the ledger only with the receipt of one of them.            *)
AllOrNothing ==
  /\ \A c \in DOMAIN receipts :
       /\ Batch(receipts[c]) \subseteq events
       /\ {Event[e].body : e \in {e \in Batch(receipts[c]) : IsMoment(e)}} \subseteq bodies
       /\ \A e \in Evidenced(receipts[c]) : evidence[e] = Payload[receipts[c]].evidence
  /\ \A e \in events \ world.ids : \E c \in DOMAIN receipts : e \in Batch(receipts[c])

(* Publishers and HTTP requests never wait for each other in a circle      *)
(* ("match the publisher's moments-first ordering"), so PostgreSQL never   *)
(* has to end one of them; plain commits, which take the digest before     *)
(* any table, are not covered by the code's ordering.                      *)
Guarded == Clients \union Publishers
Circle(S) == S # {} /\ \A t \in S : WaitsFor(t) \intersect S # {}
NoGuardedDeadlock == \A S \in SUBSET Guarded : ~ Circle(S)
=============================================================================
