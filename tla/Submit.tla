------------------------------- MODULE Submit -------------------------------
(***************************************************************************)
(* `cc-publisher v1 submit' of one signed event, a Genesis (node.rs) or a  *)
(* Delegate or Revoke (authority_node.rs), against a node whose ledger is  *)
(* that of module Ledger.  The event lies in a directory; every run of the *)
(* command reads the node, checks, writes unless the node already has the  *)
(* event, reads back, and leaves receipt.json.  Runs of the same directory *)
(* may overlap, be killed and be repeated; other curators use the node.    *)
(*                                                                         *)
(* A directory is named by the id of the event it holds.  Each read of the *)
(* node is one step.  The identity checks (instance, fold, filter version) *)
(* compare constants of a deployment and are taken to succeed.             *)
(***************************************************************************)
EXTENDS Ledger

(* A setup also says: known, the sets of its events the node may retain at *)
(* the start; dirs and runs, bounds on the directories prepared and on the *)
(* runs begun; flags, the values of --allow-untrusted.                     *)
CONSTANT
    Runs        \* invocations of submit

(* What is not on the node at the start lies in a directory, and is then a *)
(* Genesis.                                                                *)
ASSUME KnownAssumption ==
    \A s \in Setups : \A k \in s.known :
        /\ k \subseteq DOMAIN s.signed
        /\ \A id \in DOMAIN s.signed \ k : s.signed[id].kind = "genesis"

VARIABLES
    dirs,       \* events that lie in a directory
    bodies,     \* Genesis events whose body the node retains
    wire,       \* write requests sent and not yet served
    file,       \* receipt.json by directory: [by, whole]
    pc,         \* where each run is
    dir,        \* the directory a run was given
    override,   \* it was given --allow-untrusted
    already,    \* it found its event on the node
    vouched     \* history: events a run posted having found no fault

ledger == <<setup, events, retained, view>>
local == <<dir, override, already>>
submitVars == <<ledger, dirs, bodies, wire, file, pc, local, vouched>>

Ended == {"refused", "unknown", "undecided", "failed", "mismatch", "done"}

IsGenesis(id) == events[id].kind = "genesis"
Subject(id) == SubjectOf(events, id)
Parent(id) == ParentOf(events[id])
Goto(r, next) == pc' = [pc EXCEPT ![r] = next]

(* Reflexive causal past among the events the node shows.                  *)
PastOf(id) ==
    LET past[i \in Ids] ==
            {i} \cup IF i \in retained THEN UNION {past[p] : p \in events[i].parents} ELSE {}
    IN  past[id]

(* The grants an event names: its signer's, and what it revokes.           *)
Named(id) == {events[id].grant} \cup
             IF events[id].kind = "revoke" THEN {events[id].target} ELSE {}

(* Mutant: any grant the node lists will do.                               *)
IssuedInPast_Listed(id) == Named(id) \subseteq view.authority.grants

(* issued_in_past: the node decides in the past of the parent.             *)
IssuedInPast(id) ==
    Named(id) \subseteq view.authority.grants \cap PastOf(Parent(id))

(* check, the authority part: what the signed event finds on the node.     *)
RootIsCurator(id) == Holder(events, Subject(id)) \in Curators
GrantActive(id) == events[id].grant \in view.authority.active
ParentCurrent(id) ==
    /\ view.frontier[Subject(id)] = {Parent(id)}
    /\ Subject(id) \notin view.frozen

Permitted(id) ==
    LET e == events[id] IN
    IF e.kind = "delegate"
    THEN ~\E g \in view.authority.grants : Holder(events, g) = e.grantee
    ELSE /\ e.target \in view.authority.active
         /\ InScope(Envelopes, e.grant, e.target)

Faultless(id) ==
    RootIsCurator(id) /\ GrantActive(id) /\ ParentCurrent(id) /\ Permitted(id)

SubmitInit ==
    /\ setup \in Setups /\ events = setup.signed
    /\ retained \in setup.known /\ view = Fold(events, retained)
    /\ dirs = Ids \ retained
    /\ bodies = {} /\ wire = {} /\ file = <<>> /\ vouched = {}
    /\ pc = [r \in Runs |-> "idle"]
    /\ dir = [r \in Runs |-> None]
    /\ override = [r \in Runs |-> FALSE]
    /\ already = [r \in Runs |-> FALSE]

-----------------------------------------------------------------------------
(* Other curators, and the offline commands that fill a directory          *)

(* Another curator's event, sound when signed, is admitted.                *)
Curate(e) ==
    /\ e.parents \subseteq retained /\ e \notin ToSet(events) /\ Checks(e)
    /\ events' = Append(events, e)
    /\ retained' = retained \cup {Len(events) + 1}
    /\ view' = Fold(events', retained')
    /\ UNCHANGED <<setup, dirs, bodies, wire, file, pc, local, vouched>>

(* A directory may come from an old context, or be signed without one: it  *)
(* is well formed, and nothing more.                                       *)
Prepare(e) ==
    /\ e.kind \in {"delegate", "revoke"} /\ e \notin ToSet(events)
    /\ e.grantee # e.author
    /\ Cardinality(dirs) < setup.dirs
    /\ events' = Append(events, e)
    /\ dirs' = dirs \cup {Len(events) + 1}
    /\ view' = Fold(events', retained)
    /\ UNCHANGED <<setup, retained, bodies, wire, file, pc, local, vouched>>

-----------------------------------------------------------------------------
(* submit                                                                  *)

RunsLeft == Cardinality({q \in Runs : pc[q] # "idle"}) < setup.runs

Begin(r, id, allow) ==
    /\ pc[r] = "idle"
    /\ RunsLeft
    /\ dir' = [dir EXCEPT ![r] = id]
    /\ override' = [override EXCEPT ![r] = allow]
    /\ Goto(r, "look")
    /\ UNCHANGED <<ledger, dirs, bodies, wire, file, already, vouched>>

(* node.rs: trust, then is the subject known?                              *)
LookGenesis(r) ==
    LET id == dir[r] IN
    /\ pc[r] = "look" /\ IsGenesis(id)
    /\ IF events[id].author \in Curators \/ override[r]
       THEN /\ already' = [already EXCEPT ![r] = id \in ValidIds]
            /\ Goto(r, "put")
       ELSE Goto(r, "refused") /\ UNCHANGED already
    /\ UNCHANGED <<ledger, dirs, bodies, wire, file, dir, override, vouched>>

(* authority_node.rs: the snapshot before, and every check on it.          *)
LookAuthority(r) ==
    LET id == dir[r]
        refuse == Parent(id) \notin retained \/ ~IssuedInPast(id)
        clean == Faultless(id)
    IN
    /\ pc[r] = "look" /\ ~IsGenesis(id)
    /\ IF Subject(id) \notin ValidIds THEN Goto(r, "unknown") /\ UNCHANGED <<already, vouched>>
       ELSE IF id \in retained
       THEN /\ already' = [already EXCEPT ![r] = TRUE]
            /\ Goto(r, IF id \in ValidIds THEN "read" ELSE "undecided")
            /\ UNCHANGED vouched
       ELSE IF refuse \/ ~(clean \/ override[r])
       THEN Goto(r, "refused") /\ UNCHANGED <<already, vouched>>
       ELSE /\ Goto(r, "post")
            /\ vouched' = IF clean THEN vouched \cup {id} ELSE vouched
            /\ UNCHANGED already
    /\ UNCHANGED <<ledger, dirs, bodies, wire, file, dir, override>>

Put(r) ==
    /\ pc[r] = "put"
    /\ wire' = wire \cup {[run |-> r, what |-> "body"]}
    /\ Goto(r, "putting")
    /\ UNCHANGED <<ledger, dirs, bodies, file, local, vouched>>

Post(r) ==
    /\ pc[r] = "post"
    /\ wire' = wire \cup {[run |-> r, what |-> "event"]}
    /\ Goto(r, "posting")
    /\ UNCHANGED <<ledger, dirs, bodies, file, local, vouched>>

(* The node serves a request, perhaps after its sender is gone.            *)
ServeBody(r) ==
    LET m == [run |-> r, what |-> "body"] IN
    /\ m \in wire /\ wire' = wire \ {m}
    /\ bodies' = bodies \cup {dir[r]}
    /\ IF pc[r] = "putting" THEN Goto(r, IF already[r] THEN "read" ELSE "post")
                            ELSE UNCHANGED pc
    /\ UNCHANGED <<ledger, dirs, file, local, vouched>>

ServeEvent(r) ==
    LET m == [run |-> r, what |-> "event"] IN
    /\ m \in wire /\ wire' = wire \ {m}
    /\ retained' = retained \cup {dir[r]}
    /\ view' = Fold(events, retained')
    /\ IF pc[r] = "posting"
       THEN Goto(r, IF view'.status[dir[r]] = Valid THEN "read" ELSE "failed")
       ELSE UNCHANGED pc
    /\ UNCHANGED <<setup, events, dirs, bodies, file, local, vouched>>

GenesisReadsBack(id) ==
    /\ id \in ValidIds
    /\ \E h \in Ids : view.frontier[id] = {h} /\ view.selected[h] = id
    /\ id \in bodies

(* Mutant: a rerun must find the change it signed still in force.          *)
AuthorityReadsBack_Always(id, fresh) ==
    LET e == events[id] IN
    /\ id \in ValidIds
    /\ Reason(id) \in {"", "root_relinquished"}
    /\ IF e.kind = "delegate" THEN id \in view.authority.active
       ELSE e.target \in view.authority.tombstones

(* authority_node.rs readback: valid; if just admitted, also in force.     *)
AuthorityReadsBack(id, fresh) ==
    LET e == events[id]
        below == {g \in view.authority.grants :
                    g # e.target /\ e.target \in Lineages(Envelopes)[g]}
    IN
    /\ id \in ValidIds
    /\ fresh => /\ \/ Reason(id) = ""
                   \/ Reason(id) = "root_relinquished" /\ id \in Relinquishments(events)
                /\ e.kind = "delegate" => id \in view.authority.active
                /\ e.kind = "revoke" => e.target \in view.authority.tombstones
                /\ e.cascade => below \subseteq view.authority.tombstones

ReadBack(r) ==
    /\ pc[r] = "read"
    /\ Goto(r, IF IF IsGenesis(dir[r]) THEN GenesisReadsBack(dir[r])
                  ELSE AuthorityReadsBack(dir[r], ~already[r])
               THEN "receipt" ELSE "mismatch")
    /\ UNCHANGED <<ledger, dirs, bodies, wire, file, local, vouched>>

(* receipt_written = !path.exists()                                        *)
Exists(r) ==
    /\ pc[r] = "receipt"
    /\ Goto(r, IF dir[r] \in DOMAIN file THEN "done" ELSE "create")
    /\ UNCHANGED <<ledger, dirs, bodies, wire, file, local, vouched>>

(* Mutant: the file is opened whether or not it exists.                    *)
Create_Truncates(r) ==
    /\ pc[r] = "create"
    /\ file' = With(file, dir[r], [by |-> r, whole |-> FALSE])
    /\ Goto(r, "fill")
    /\ UNCHANGED <<ledger, dirs, bodies, wire, local, vouched>>

(* write_new: create_new, then the bytes.                                  *)
Create(r) ==
    /\ pc[r] = "create"
    /\ IF dir[r] \in DOMAIN file
       THEN Goto(r, "failed") /\ UNCHANGED file
       ELSE /\ file' = With(file, dir[r], [by |-> r, whole |-> FALSE])
            /\ Goto(r, "fill")
    /\ UNCHANGED <<ledger, dirs, bodies, wire, local, vouched>>

Fill(r) ==
    /\ pc[r] = "fill"
    /\ file' = [file EXCEPT ![dir[r]].whole = TRUE]
    /\ Goto(r, "done")
    /\ UNCHANGED <<ledger, dirs, bodies, wire, local, vouched>>

(* A read fails, a request times out, or the process is killed.            *)
Abort(r) ==
    /\ pc[r] \notin Ended \cup {"idle"}
    /\ Goto(r, "failed")
    /\ UNCHANGED <<ledger, dirs, bodies, wire, file, local, vouched>>

Finished ==
    /\ \A r \in Runs : pc[r] \in Ended \cup {"idle"}
    /\ dirs = {} \/ ~RunsLeft
    /\ wire = {}
    /\ UNCHANGED submitVars

SubmitNext ==
    \/ /\ Len(events) < setup.max
       /\ \E e \in Drafts : Curate(e) \/ Prepare(e)
    \/ \E r \in Runs :
         \/ \E id \in dirs, allow \in setup.flags : Begin(r, id, allow)
         \/ LookGenesis(r) \/ LookAuthority(r) \/ Put(r) \/ Post(r)
         \/ ServeBody(r) \/ ServeEvent(r) \/ ReadBack(r)
         \/ Exists(r) \/ Create(r) \/ Fill(r) \/ Abort(r)
    \/ Finished

SubmitSpec == SubmitInit /\ [][SubmitNext]_submitVars

-----------------------------------------------------------------------------
(* "nothing was written" or a valid event: an authority event that passed  *)
(* the publisher's checks is valid on the node, whatever was admitted      *)
(* between the snapshot it was checked against and its arrival, so submit  *)
(* without overrides never makes the node keep a refused envelope.  Where  *)
(* a root has given itself up in the event's past the node can refuse what *)
(* the publisher found active: see NoLaundering.                           *)
VouchedIsValid ==
    \A id \in vouched \cap retained :
        view.cones[Parent(id)] \cap Relinquishments(Envelopes) = {} =>
            view.status[id] = Valid

(* "A rerun requires only that the event is retained and valid": once the  *)
(* node has it, no later revocation makes a rerun of a Delegate or Revoke  *)
(* fail its read-back.                                                     *)
RerunReadsBack ==
    \A r \in Runs : pc[r] = "mismatch" => IsGenesis(dir[r]) \/ ~already[r]

(* The body is retained before the Genesis that signs it, so a subject     *)
(* published by submit is never visible without its text, although a run   *)
(* may die between the two writes or after either.                         *)
GenesisHasBody ==
    \A id \in ValidIds \cap dirs : IsGenesis(id) => id \in bodies

(* What submit leaves on the node, wherever its runs died: valid events,   *)
(* and no Genesis without its body.                                        *)
SubmittedIsSound == VouchedIsValid /\ GenesisHasBody

(* "The file keeps the first successful result": no later run, however it  *)
(* overlaps the first, replaces a receipt.                                 *)
FirstReceiptStays ==
    [][\A d \in DOMAIN file : d \in DOMAIN file' /\ file'[d].by = file[d].by
                              /\ (file[d].whole => file'[d].whole)]_submitVars
=============================================================================
