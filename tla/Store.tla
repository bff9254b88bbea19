------------------------------- MODULE Store -------------------------------
(***************************************************************************)
(* The v1 store of cc-ledger as its concurrent callers see it: admission   *)
(* transactions serialised by the identity row, the committed-snapshot     *)
(* cache of each node process, verified reads, export and restore.         *)
(*                                                                         *)
(* A request is one HTTP handler (or operator command) running against one *)
(* node process; every awaited database call is a step of its own, so the  *)
(* steps of different requests and processes interleave.  A handler may be *)
(* dropped at any await (the client went away), a process may crash, a     *)
(* database call may fail, and retained bytes may be altered out of band.  *)
(*                                                                         *)
(* Data abstraction: a candidate is its event id, the table of candidates  *)
(* a set of ids, and a snapshot is named by the set it was folded from     *)
(* (Snapshot::of is a pure function of that set and of the bound filter).  *)
(* Admission(e, S) is the status classify gives e among candidates S.      *)
(***************************************************************************)
EXTENDS Naturals, FiniteSets

CONSTANTS
    Requests,        \* handlers; each serves one request
    Stores,          \* node processes over the one database
    Events,          \* decodable envelopes of this instance
    BadInputs,       \* undecodable or wrong-instance inputs
    Signers,         \* the processes configured with a receipt key
    Admission(_, _), \* classify, see the Fold module
    None             \* no lock holder, no cache entry, no request data

ASSUME StoreAssumption ==
    /\ None \notin Requests
    /\ None \notin Stores
    /\ Signers \subseteq Stores
    /\ Events \cap BadInputs = {}
    /\ None \notin Events \cup BadInputs
    /\ None \notin [ids : SUBSET Events, bad : SUBSET Events, snap : SUBSET Events]

VARIABLES
    candidates,   \* cc_v1.candidates: the retained event ids
    tampered,     \* those whose retained bytes were altered out of band
    rejections,   \* cc_v1.rejections
    receipts,     \* cc_v1.receipts signed by these processes
    lock,         \* the transaction holding the identity row, or None
    generation,   \* SnapshotCache: invalidations of each process
    entry,        \* SnapshotCache: the one cached snapshot of each process
    pc,           \* where each request is
    at,           \* the process serving it
    input,        \* the envelope being admitted
    manifest,     \* the envelopes a restore was given
    todo,         \* those it has not yet submitted
    loaded,       \* the candidates it read, its own input included
    genAt,        \* the generation a read started under
    probe,        \* the key a read probed
    snap,         \* the snapshot a read or export returned
    since,        \* history: the candidates when the request began
    badSince,     \* history: whether bytes were already altered then
    history       \* history: every set of candidates that was ever committed

database == <<candidates, tampered, rejections, receipts, lock, history>>
cache == <<generation, entry>>
readState == <<genAt, probe, snap>>
writeState == <<input, manifest, todo>>
begun == <<at, since, badSince>>
vars == <<database, cache, pc, loaded, readState, writeState, begun>>

Inputs == Events \cup BadInputs
Entry == [ids : SUBSET Events, bad : SUBSET Events, snap : SUBSET Events]
Terminal == {"answered", "read", "failed", "dropped"}
Locked == {"reject", "load", "commit"}
Writing == {"lock", "invalidate", "invalidate_err"} \cup Locked
Reading == {"probe", "lookup", "fold", "fill", "export"}

(* Mutant: the key covers the ids only, not the retained bytes.            *)
CacheKey_IdsOnly == [ids |-> candidates, bad |-> {}]

(* What a read of the table sees: ids, and which rows have other bytes.    *)
CacheKey == [ids |-> candidates, bad |-> tampered]

Init ==
    /\ candidates = {} /\ tampered = {} /\ rejections = {} /\ receipts = {}
    /\ lock = None /\ history = {{}}
    /\ generation = [s \in Stores |-> 0]
    /\ entry = [s \in Stores |-> None]
    /\ pc = [r \in Requests |-> "new"]
    /\ at = [r \in Requests |-> None]
    /\ input = [r \in Requests |-> None]
    /\ manifest = [r \in Requests |-> {}]
    /\ todo = [r \in Requests |-> {}]
    /\ loaded = [r \in Requests |-> {}]
    /\ genAt = [r \in Requests |-> 0]
    /\ probe = [r \in Requests |-> [ids |-> {}, bad |-> {}]]
    /\ snap = [r \in Requests |-> {}]
    /\ since = [r \in Requests |-> {}]
    /\ badSince = [r \in Requests |-> FALSE]

(* A request arrives at process s and is routed to the step `first'.       *)
Begin(r, s, first) ==
    /\ pc[r] = "new"
    /\ pc' = [pc EXCEPT ![r] = first]
    /\ at' = [at EXCEPT ![r] = s]
    /\ since' = [since EXCEPT ![r] = candidates]
    /\ badSince' = [badSince EXCEPT ![r] = tampered # {}]

Goto(r, next) == pc' = [pc EXCEPT ![r] = next]

(* The transaction of r ends; a dropped connection rolls back.             *)
Release(r) == lock' = IF lock = r THEN None ELSE lock

-----------------------------------------------------------------------------
(* Admission: admit_observed = admit_once; cache.invalidate()              *)

Submit(r) ==
    \E s \in Stores, x \in Inputs :
        /\ Begin(r, s, "lock")
        /\ input' = [input EXCEPT ![r] = x]
        /\ UNCHANGED <<database, cache, loaded, readState, manifest, todo>>

(* restore_export: nothing is admitted unless every envelope decodes and   *)
(* the root recomputed from them is the one the manifest claims.           *)
RestoreExport(r) ==
    \E s \in Stores, m \in (SUBSET Inputs) \ {{}}, root \in SUBSET Events :
        LET sound == m \subseteq Events /\ root = m IN
        /\ Begin(r, s, IF sound THEN "lock" ELSE "failed")
        /\ \E x \in m :
             /\ input' = [input EXCEPT ![r] = IF sound THEN x ELSE None]
             /\ todo' = [todo EXCEPT ![r] = IF sound THEN m \ {x} ELSE {}]
        /\ manifest' = [manifest EXCEPT ![r] = IF sound THEN m ELSE {}]
        /\ UNCHANGED <<database, cache, loaded, readState>>

(* Mutant: the identity row is read without FOR UPDATE.                    *)
AdmitLock_NoLock(r) ==
    /\ pc[r] = "lock"
    /\ Goto(r, IF input[r] \in BadInputs THEN "reject" ELSE "load")
    /\ UNCHANGED <<database, cache, loaded, readState, writeState, begun>>

(* SELECT ... FROM cc_v1.identity ... FOR UPDATE, then Signed::decode.     *)
AdmitLock(r) ==
    /\ pc[r] = "lock"
    /\ lock = None
    /\ lock' = r
    /\ Goto(r, IF input[r] \in BadInputs THEN "reject" ELSE "load")
    /\ UNCHANGED <<candidates, tampered, rejections, receipts, history>>
    /\ UNCHANGED <<cache, loaded, readState, writeState, begun>>

AdmitReject(r) ==
    /\ pc[r] = "reject"
    /\ rejections' = rejections \cup {input[r]}
    /\ Release(r)
    /\ Goto(r, "invalidate")
    /\ UNCHANGED <<candidates, tampered, receipts, history>>
    /\ UNCHANGED <<cache, loaded, readState, writeState, begun>>

(* Every retained row is decoded and checked; one bad row is Corrupt.      *)
AdmitLoad(r) ==
    /\ pc[r] = "load"
    /\ \/ /\ tampered = {}
          /\ loaded' = [loaded EXCEPT ![r] = candidates \cup {input[r]}]
          /\ Goto(r, "commit")
          /\ UNCHANGED lock
       \/ /\ tampered # {}
          /\ Release(r)
          /\ Goto(r, "invalidate_err")
          /\ UNCHANGED loaded
    /\ UNCHANGED <<candidates, tampered, rejections, receipts, history>>
    /\ UNCHANGED <<cache, readState, writeState, begun>>

(* Mutant: a receipt for every submission, new row or not.                 *)
NewReceipts_Always(r) ==
    IF at[r] \in Signers /\ manifest[r] = {}
    THEN {[event |-> input[r], result |-> Admission(input[r], loaded[r]), by |-> r]}
    ELSE {}

(* The receipt written with the row: only for a row this call inserted, by *)
(* a process with a receipt key, and only for a submission (admit_all      *)
(* passes no key).                                                         *)
NewReceipts(r) ==
    IF input[r] \notin candidates /\ at[r] \in Signers /\ manifest[r] = {}
    THEN {[event |-> input[r], result |-> Admission(input[r], loaded[r]), by |-> r]}
    ELSE {}

(* INSERT ... ON CONFLICT DO NOTHING, the receipt and COMMIT take effect   *)
(* together; the acknowledgement may be lost, which admit reports as an    *)
(* error.                                                                  *)
AdmitCommit(r) ==
    /\ pc[r] = "commit"
    /\ candidates' = candidates \cup {input[r]}
    /\ receipts' = receipts \cup NewReceipts(r)
    /\ history' = history \cup {candidates \cup {input[r]}}
    /\ Release(r)
    /\ Goto(r, "invalidate") \/ Goto(r, "invalidate_err")
    /\ UNCHANGED <<tampered, rejections>>
    /\ UNCHANGED <<cache, loaded, readState, writeState, begun>>

(* cache.invalidate() runs whatever admit_once returned; a restore goes on *)
(* with its next envelope, or stops at the first error.                    *)
AdmitInvalidate(r) ==
    /\ pc[r] \in {"invalidate", "invalidate_err"}
    /\ generation' = [generation EXCEPT ![at[r]] = @ + 1]
    /\ entry' = [entry EXCEPT ![at[r]] = None]
    /\ \/ /\ pc[r] = "invalidate" /\ todo[r] # {}
          /\ \E x \in todo[r] :
               /\ input' = [input EXCEPT ![r] = x]
               /\ todo' = [todo EXCEPT ![r] = @ \ {x}]
          /\ Goto(r, "lock")
       \/ /\ pc[r] = "invalidate" /\ todo[r] = {}
          /\ Goto(r, "answered")
          /\ UNCHANGED <<input, todo>>
       \/ /\ pc[r] = "invalidate_err"
          /\ Goto(r, "failed")
          /\ UNCHANGED <<input, todo>>
    /\ UNCHANGED <<database, loaded, readState, manifest, begun>>

-----------------------------------------------------------------------------
(* Reads: Store::snapshot -> committed, and Store::export                  *)

ReadSnapshot(r) ==
    \E s \in Stores :
        /\ Begin(r, s, "probe")
        /\ genAt' = [genAt EXCEPT ![r] = generation[s]]
        /\ UNCHANGED <<database, cache, loaded, probe, snap, writeState>>

ReadProbe(r) ==
    /\ pc[r] = "probe"
    /\ probe' = [probe EXCEPT ![r] = CacheKey]
    /\ Goto(r, "lookup")
    /\ UNCHANGED <<database, cache, loaded, genAt, snap, writeState, begun>>

(* Mutant: invalidation alone keeps the entry honest; the key is not       *)
(* compared.                                                               *)
Hit_AnyEntry(r) == entry[at[r]] # None

Hit(r) ==
    /\ entry[at[r]] # None
    /\ entry[at[r]].ids = probe[r].ids
    /\ entry[at[r]].bad = probe[r].bad

ReadLookup(r) ==
    /\ pc[r] = "lookup"
    /\ \/ /\ Hit(r)
          /\ snap' = [snap EXCEPT ![r] = entry[at[r]].snap]
          /\ Goto(r, "read")
       \/ /\ ~Hit(r)
          /\ Goto(r, "fold")
          /\ UNCHANGED snap
    /\ UNCHANGED <<database, cache, loaded, genAt, probe, writeState, begun>>

(* verified_candidates: a second read of the table, every row verified.    *)
ReadFold(r) ==
    /\ pc[r] = "fold"
    /\ \/ /\ tampered = {}
          /\ loaded' = [loaded EXCEPT ![r] = candidates]
          /\ Goto(r, "fill")
       \/ /\ tampered # {}
          /\ Goto(r, "failed")
          /\ UNCHANGED loaded
    /\ UNCHANGED <<database, cache, readState, writeState, begun>>

(* The entry is keyed by the rows folded, not by the key probed.           *)
ReadFill(r) ==
    /\ pc[r] = "fill"
    /\ entry' = IF generation[at[r]] = genAt[r]
                THEN [entry EXCEPT ![at[r]] =
                        [ids |-> loaded[r], bad |-> {}, snap |-> loaded[r]]]
                ELSE entry
    /\ snap' = [snap EXCEPT ![r] = loaded[r]]
    /\ Goto(r, "read")
    /\ UNCHANGED <<database, generation, loaded, genAt, probe, writeState, begun>>

(* export folds without the cache.                                         *)
Export(r) ==
    \E s \in Stores :
        /\ Begin(r, s, "export")
        /\ UNCHANGED <<database, cache, loaded, readState, writeState>>

ExportFold(r) ==
    /\ pc[r] = "export"
    /\ \/ /\ tampered = {}
          /\ snap' = [snap EXCEPT ![r] = candidates]
          /\ Goto(r, "read")
       \/ /\ tampered # {}
          /\ Goto(r, "failed")
          /\ UNCHANGED snap
    /\ UNCHANGED <<database, cache, loaded, genAt, probe, writeState, begun>>

-----------------------------------------------------------------------------
(* Failures                                                                *)

(* Mutant: a failed admission is reported like a finished one.             *)
DbError_Swallowed(r) ==
    /\ pc[r] \in {"lock", "probe", "fold", "export"} \cup Locked
    /\ Goto(r, IF pc[r] \in Writing THEN "invalidate" ELSE "failed")
    /\ Release(r)
    /\ UNCHANGED <<candidates, tampered, rejections, receipts, history>>
    /\ UNCHANGED <<cache, loaded, readState, writeState, begun>>

(* A database call fails: the transaction rolls back and `?' returns.      *)
DbError(r) ==
    /\ pc[r] \in {"lock", "probe", "fold", "export"} \cup Locked
    /\ Goto(r, IF pc[r] \in Writing THEN "invalidate_err" ELSE "failed")
    /\ Release(r)
    /\ UNCHANGED <<candidates, tampered, rejections, receipts, history>>
    /\ UNCHANGED <<cache, loaded, readState, writeState, begun>>

(* Mutant: dropping a handler leaves its transaction open.                 *)
Drop_KeepsLock(r) ==
    /\ pc[r] \in Writing \cup {"probe", "fold", "export"}
    /\ Goto(r, "dropped")
    /\ UNCHANGED <<database, cache, loaded, readState, writeState, begun>>

(* The handler's future is dropped at an await: no later step runs.  At    *)
(* "invalidate" the COMMIT was executed but its reply not yet received.    *)
Drop(r) ==
    /\ pc[r] \in Writing \cup {"probe", "fold", "export"}
    /\ Goto(r, "dropped")
    /\ Release(r)
    /\ UNCHANGED <<candidates, tampered, rejections, receipts, history>>
    /\ UNCHANGED <<cache, loaded, readState, writeState, begun>>

(* Process s dies and restarts with an empty cache.                        *)
Crash(s) ==
    /\ \E r \in Requests : at[r] = s /\ pc[r] \notin Terminal
    /\ pc' = [r \in Requests |->
                IF at[r] = s /\ pc[r] \notin Terminal THEN "dropped" ELSE pc[r]]
    /\ lock' = IF lock # None /\ at[lock] = s THEN None ELSE lock
    /\ generation' = [generation EXCEPT ![s] = 0]
    /\ entry' = [entry EXCEPT ![s] = None]
    /\ UNCHANGED <<candidates, tampered, rejections, receipts, history>>
    /\ UNCHANGED <<loaded, readState, writeState, begun>>

(* Retained bytes of e change outside the store.                           *)
Tamper(e) ==
    /\ e \in candidates \ tampered
    /\ tampered' = tampered \cup {e}
    /\ UNCHANGED <<candidates, rejections, receipts, lock, history>>
    /\ UNCHANGED <<cache, pc, loaded, readState, writeState, begun>>

-----------------------------------------------------------------------------
Arrive(r) == Submit(r) \/ RestoreExport(r) \/ ReadSnapshot(r) \/ Export(r)

(* What a running handler does next when nothing fails.                    *)
Step(r) ==
    \/ AdmitLock(r) \/ AdmitReject(r) \/ AdmitLoad(r) \/ AdmitCommit(r)
    \/ AdmitInvalidate(r)
    \/ ReadProbe(r) \/ ReadLookup(r) \/ ReadFold(r) \/ ReadFill(r)
    \/ ExportFold(r)

Done ==
    /\ \A r \in Requests : pc[r] \in Terminal
    /\ UNCHANGED vars

Next ==
    \/ \E r \in Requests : Arrive(r) \/ Step(r) \/ DbError(r) \/ Drop(r)
    \/ \E s \in Stores : Crash(s)
    \/ \E e \in Events : Tamper(e)
    \/ Done

Spec == Init /\ [][Next]_vars

(* The runtime keeps polling a ready handler; clients, failures and        *)
(* tampering owe nothing.                                                  *)
FairSpec == Spec /\ \A r \in Requests : WF_vars(Step(r))

-----------------------------------------------------------------------------
(* Properties                                                              *)

TypeOK ==
    /\ candidates \in SUBSET Events
    /\ tampered \in SUBSET Events
    /\ rejections \in SUBSET BadInputs
    /\ \A c \in receipts : c.event \in Events /\ c.by \in Requests
    /\ lock \in Requests \cup {None}
    /\ history \in SUBSET SUBSET Events
    /\ generation \in [Stores -> Nat]
    /\ entry \in [Stores -> Entry \cup {None}]
    /\ pc \in [Requests -> {"new"} \cup Writing \cup Reading \cup Terminal]
    /\ at \in [Requests -> Stores \cup {None}]
    /\ input \in [Requests -> Inputs \cup {None}]
    /\ manifest \in [Requests -> SUBSET Events]
    /\ todo \in [Requests -> SUBSET Events]
    /\ loaded \in [Requests -> SUBSET Events]
    /\ genAt \in [Requests -> Nat]
    /\ probe \in [Requests -> [ids : SUBSET Events, bad : SUBSET Events]]
    /\ snap \in [Requests -> SUBSET Events]
    /\ since \in [Requests -> SUBSET Events]
    /\ badSince \in [Requests -> BOOLEAN]

(* committed(): the snapshot a read returns, from the cache or not, is the *)
(* fold of the candidates as they were at some instant between the read's  *)
(* start and its answer, whatever other processes admitted, whichever      *)
(* handlers were dropped before invalidating, and whoever filled the entry.*)
SnapshotIsCurrent ==
    \A r \in Requests :
        pc[r] = "read" => snap[r] \in history /\ since[r] \subseteq snap[r]

(* verified_candidates and the content part of the cache key: once a       *)
(* retained row has other bytes, no read or export that begins afterwards  *)
(* succeeds; a snapshot folded earlier is not served in place of the error.*)
TamperedNeverServed ==
    \A r \in Requests : pc[r] = "read" => ~badSince[r]

(* admit_once: the status reported for an admission is the one of the      *)
(* candidate set its own commit produced, so two concurrent admissions     *)
(* never each overlook the other.                                          *)
OutcomeOfOwnCommit ==
    \A r \in Requests :
        pc[r] = "answered" /\ input[r] \in Events =>
            /\ loaded[r] \in history
            /\ input[r] \in loaded[r]
            /\ since[r] \subseteq loaded[r]

(* admit_observed: an event has at most one receipt from these nodes, and  *)
(* its result is the event's admission in the first candidate set that     *)
(* held it, never that of a later duplicate submission.                    *)
ReceiptOfFirstRetention ==
    \A c \in receipts :
        /\ \A d \in receipts : d.event = c.event => d = c
        /\ \E S \in history :
             /\ c.event \in S
             /\ c.result = Admission(c.event, S)
             /\ \A T \in history : c.event \in T => S \subseteq T

(* restore_export reports success only when every envelope of the manifest *)
(* is retained.                                                            *)
RestoreComplete ==
    \A r \in Requests :
        pc[r] = "answered" => manifest[r] \subseteq candidates

(* No handler waits for ever: dropped handlers, failed transactions and    *)
(* crashed processes all give the identity row back.                       *)
EveryRequestEnds ==
    \A r \in Requests : pc[r] # "new" ~> pc[r] \in Terminal
=============================================================================
