----------------------------- MODULE StoreProofs -----------------------------
(***************************************************************************)
(* Theorems about Store, for every set of requests, processes, events and  *)
(* inputs and whatever admission function the ledger uses.                 *)
(***************************************************************************)
EXTENDS Store, TLAPS

(* Exactly the requests inside a transaction past FOR UPDATE hold the row. *)
LockInv ==
    \A r \in Requests : pc[r] \in Locked <=> lock = r

(* Committed sets are below the present one, which is one of them.         *)
HistoryInv ==
    /\ candidates \in history
    /\ \A S \in history : S \subseteq candidates

(* A request that has begun has a process, and a transaction past the      *)
(* decoding of its input has the kind of input that branch handles.        *)
RoutingInv ==
    \A r \in Requests :
        /\ pc[r] # "new" => at[r] \in Stores
        /\ pc[r] \in Writing => input[r] \in Inputs
        /\ pc[r] \in {"load", "commit"} => input[r] \in Events
        /\ pc[r] = "reject" => input[r] \in BadInputs

(* A request began no later than now.                                      *)
BegunInv ==
    \A r \in Requests :
        /\ since[r] \subseteq candidates
        /\ badSince[r] => tampered # {}

(* The rows a transaction or a fold read.                                  *)
LoadedInv ==
    \A r \in Requests :
        /\ pc[r] = "commit" => loaded[r] = candidates \cup {input[r]}
        /\ pc[r] \in {"invalidate", "answered"} /\ input[r] \in Events =>
             /\ loaded[r] \in history
             /\ input[r] \in loaded[r]
             /\ since[r] \subseteq loaded[r]

(* What a cache entry and a read in progress stand for.                    *)
ReadInv ==
    /\ \A s \in Stores : entry[s] # None =>
         /\ entry[s].ids \in history
         /\ entry[s].bad = {}
         /\ entry[s].snap = entry[s].ids
    /\ \A r \in Requests :
         /\ pc[r] = "lookup" =>
              /\ since[r] \subseteq probe[r].ids
              /\ badSince[r] => probe[r].bad # {}
         /\ pc[r] = "fill" =>
              /\ loaded[r] \in history
              /\ since[r] \subseteq loaded[r]
              /\ ~badSince[r]
         /\ pc[r] = "read" =>
              /\ snap[r] \in history
              /\ since[r] \subseteq snap[r]
              /\ ~badSince[r]

(* A receipt names the first committed set that held its event.            *)
ReceiptInv ==
    \A c \in receipts :
        /\ c.event \in candidates
        /\ \A d \in receipts : d.event = c.event => d = c
        /\ \E S \in history :
             /\ c.event \in S
             /\ c.result = Admission(c.event, S)
             /\ \A T \in history : c.event \in T => S \subseteq T

(* A restore accounts for every envelope: retained, in hand or to come.    *)
RestoreInv ==
    \A r \in Requests :
        /\ pc[r] \in Writing => manifest[r] \subseteq candidates \cup todo[r] \cup {input[r]}
        /\ pc[r] \in {"new", "reject"} => manifest[r] = {}
        /\ pc[r] = "lock" /\ input[r] \in BadInputs => manifest[r] = {}
        /\ pc[r] = "invalidate" => manifest[r] \subseteq candidates \cup todo[r]
        /\ pc[r] = "answered" => manifest[r] \subseteq candidates

IInv ==
    /\ TypeOK /\ RoutingInv /\ LockInv /\ HistoryInv
    /\ BegunInv /\ LoadedInv /\ ReadInv /\ ReceiptInv /\ RestoreInv

(* Every step keeps the types. *)
LEMMA TypeStep == TypeOK /\ RoutingInv /\ [Next]_vars => TypeOK'
<1> SUFFICES ASSUME TypeOK, RoutingInv, [Next]_vars PROVE TypeOK'
  OBVIOUS
<1> USE StoreAssumption DEF TypeOK, RoutingInv, vars, database, cache, readState, writeState, begun, Writing, Reading, Locked, Terminal, Inputs, Entry
<1>1. ASSUME NEW r \in Requests, Submit(r) PROVE TypeOK'
  BY <1>1 DEF Submit, Begin
<1>2. ASSUME NEW r \in Requests, RestoreExport(r) PROVE TypeOK'
  BY <1>2 DEF RestoreExport, Begin
<1>3. ASSUME NEW r \in Requests, AdmitLock(r) PROVE TypeOK'
  BY <1>3 DEF AdmitLock, Goto
<1>4. ASSUME NEW r \in Requests, AdmitReject(r) PROVE TypeOK'
  BY <1>4 DEF AdmitReject, Goto, Release
<1>5. ASSUME NEW r \in Requests, AdmitLoad(r) PROVE TypeOK'
  <2>1. input[r] \in Events /\ candidates \cup {input[r]} \in SUBSET Events
    BY <1>5 DEF AdmitLoad
  <2>2. CASE tampered = {}
    <3>1. /\ loaded' = [loaded EXCEPT ![r] = candidates \cup {input[r]}]
          /\ pc' = [pc EXCEPT ![r] = "commit"]
      BY <1>5, <2>2 DEF AdmitLoad, Goto
    <3> QED BY <1>5, <2>1, <2>2, <3>1 DEF AdmitLoad
  <2>3. CASE tampered # {}
    BY <1>5, <2>3 DEF AdmitLoad, Goto, Release
  <2> QED BY <2>2, <2>3
<1>6. ASSUME NEW r \in Requests, AdmitCommit(r) PROVE TypeOK'
  BY <1>6 DEF AdmitCommit, Goto, Release, NewReceipts
<1>7. ASSUME NEW r \in Requests, AdmitInvalidate(r) PROVE TypeOK'
  <2>1. /\ at[r] \in Stores
        /\ generation' = [generation EXCEPT ![at[r]] = @ + 1]
        /\ entry' = [entry EXCEPT ![at[r]] = None]
    BY <1>7 DEF AdmitInvalidate
  <2>2. generation' \in [Stores -> Nat] /\ entry' \in [Stores -> Entry \cup {None}]
    BY <2>1
  <2>3. input' \in [Requests -> Inputs \cup {None}] /\ todo' \in [Requests -> SUBSET Events]
    <3>1. CASE pc[r] = "invalidate" /\ todo[r] # {}
      <4>1. PICK x \in todo[r] : /\ input' = [input EXCEPT ![r] = x]
                              /\ todo' = [todo EXCEPT ![r] = @ \ {x}]
        BY <1>7, <3>1 DEF AdmitInvalidate
      <4>2. x \in Inputs /\ todo[r] \ {x} \in SUBSET Events
        OBVIOUS
      <4> QED BY <4>1, <4>2
    <3>2. CASE ~(pc[r] = "invalidate" /\ todo[r] # {})
      BY <1>7, <3>2 DEF AdmitInvalidate
    <3> QED BY <3>1, <3>2
  <2>4. pc' \in [Requests -> {"new"} \cup Writing \cup Reading \cup Terminal]
    BY <1>7 DEF AdmitInvalidate, Goto
  <2> QED BY <1>7, <2>2, <2>3, <2>4 DEF AdmitInvalidate
<1>8. ASSUME NEW r \in Requests, ReadSnapshot(r) PROVE TypeOK'
  BY <1>8 DEF ReadSnapshot, Begin
<1>9. ASSUME NEW r \in Requests, ReadProbe(r) PROVE TypeOK'
  BY <1>9 DEF ReadProbe, Goto, CacheKey
<1>10. ASSUME NEW r \in Requests, ReadLookup(r) PROVE TypeOK'
  <2>1. CASE Hit(r)
    <3>1. entry[at[r]] \in Entry /\ pc[r] = "lookup" /\ at[r] \in Stores
      BY <1>10, <2>1 DEF Hit, ReadLookup
    <3>2. /\ snap' = [snap EXCEPT ![r] = entry[at[r]].snap]
          /\ pc' = [pc EXCEPT ![r] = "read"]
      BY <1>10, <2>1 DEF ReadLookup, Goto
    <3> QED BY <1>10, <2>1, <3>1, <3>2 DEF ReadLookup, Hit
  <2>2. CASE ~Hit(r)
    BY <1>10, <2>2 DEF ReadLookup, Goto
  <2> QED BY <2>1, <2>2
<1>11. ASSUME NEW r \in Requests, ReadFold(r) PROVE TypeOK'
  <2>1. CASE tampered = {}
    <3>1. /\ loaded' = [loaded EXCEPT ![r] = candidates]
          /\ pc' = [pc EXCEPT ![r] = "fill"]
      BY <1>11, <2>1 DEF ReadFold, Goto
    <3>2. loaded' \in [Requests -> SUBSET Events]
      BY <3>1
    <3> QED BY <1>11, <3>1, <3>2 DEF ReadFold
  <2>2. CASE tampered # {}
    BY <1>11, <2>2 DEF ReadFold, Goto
  <2> QED BY <1>11, <2>1, <2>2 DEF ReadFold
<1>12. ASSUME NEW r \in Requests, ReadFill(r) PROVE TypeOK'
  BY <1>12 DEF ReadFill, Goto
<1>13. ASSUME NEW r \in Requests, Export(r) PROVE TypeOK'
  BY <1>13 DEF Export, Begin
<1>14. ASSUME NEW r \in Requests, ExportFold(r) PROVE TypeOK'
  <2>1. CASE tampered = {}
    <3>1. /\ snap' = [snap EXCEPT ![r] = candidates]
          /\ pc' = [pc EXCEPT ![r] = "read"]
      BY <1>14, <2>1 DEF ExportFold, Goto
    <3>2. snap' \in [Requests -> SUBSET Events]
      BY <3>1
    <3>3. pc' \in [Requests -> {"new"} \cup Writing \cup Reading \cup Terminal]
      BY <3>1
    <3> QED BY <1>14, <3>2, <3>3 DEF ExportFold
  <2>2. CASE tampered # {}
    BY <1>14, <2>2 DEF ExportFold, Goto
  <2> QED BY <1>14, <2>1, <2>2 DEF ExportFold
<1>15. ASSUME NEW r \in Requests, DbError(r) PROVE TypeOK'
  BY <1>15 DEF DbError, Goto, Release
<1>16. ASSUME NEW r \in Requests, Drop(r) PROVE TypeOK'
  BY <1>16 DEF Drop, Goto, Release
<1>17. ASSUME NEW s \in Stores, Crash(s) PROVE TypeOK'
  BY <1>17 DEF Crash
<1>18. ASSUME NEW e \in Events, Tamper(e) PROVE TypeOK'
  BY <1>18 DEF Tamper
<1>19. CASE UNCHANGED vars
  BY <1>19
<1> QED
  BY <1>1, <1>2, <1>3, <1>4, <1>5, <1>6, <1>7, <1>8, <1>9, <1>10, <1>11, <1>12, <1>13, <1>14, <1>15, <1>16, <1>17, <1>18, <1>19 DEF Next, Arrive, Step, Done

(* Decoding routes an input to the branch that handles it. *)
LEMMA RoutingStep == TypeOK /\ RoutingInv /\ [Next]_vars => RoutingInv'
<1> SUFFICES ASSUME TypeOK, RoutingInv, [Next]_vars PROVE RoutingInv'
  OBVIOUS
<1> USE StoreAssumption DEF TypeOK, RoutingInv, vars, database, cache, readState, writeState, begun, Writing, Reading, Locked, Terminal, Inputs
<1>1. ASSUME NEW r \in Requests, Submit(r) PROVE RoutingInv'
  BY <1>1 DEF Submit, Begin
<1>2. ASSUME NEW r \in Requests, RestoreExport(r) PROVE RoutingInv'
  BY <1>2 DEF RestoreExport, Begin
<1>3. ASSUME NEW r \in Requests, AdmitLock(r) PROVE RoutingInv'
  BY <1>3 DEF AdmitLock, Goto
<1>4. ASSUME NEW r \in Requests, AdmitReject(r) PROVE RoutingInv'
  BY <1>4 DEF AdmitReject, Goto, Release
<1>5. ASSUME NEW r \in Requests, AdmitLoad(r) PROVE RoutingInv'
  BY <1>5 DEF AdmitLoad, Goto, Release
<1>6. ASSUME NEW r \in Requests, AdmitCommit(r) PROVE RoutingInv'
  BY <1>6 DEF AdmitCommit, Goto, Release
<1>7. ASSUME NEW r \in Requests, AdmitInvalidate(r) PROVE RoutingInv'
  BY <1>7 DEF AdmitInvalidate, Goto
<1>8. ASSUME NEW r \in Requests, ReadSnapshot(r) PROVE RoutingInv'
  BY <1>8 DEF ReadSnapshot, Begin
<1>9. ASSUME NEW r \in Requests, ReadProbe(r) PROVE RoutingInv'
  BY <1>9 DEF ReadProbe, Goto, CacheKey
<1>10. ASSUME NEW r \in Requests, ReadLookup(r) PROVE RoutingInv'
  BY <1>10 DEF ReadLookup, Goto, Hit
<1>11. ASSUME NEW r \in Requests, ReadFold(r) PROVE RoutingInv'
  BY <1>11 DEF ReadFold, Goto
<1>12. ASSUME NEW r \in Requests, ReadFill(r) PROVE RoutingInv'
  BY <1>12 DEF ReadFill, Goto
<1>13. ASSUME NEW r \in Requests, Export(r) PROVE RoutingInv'
  BY <1>13 DEF Export, Begin
<1>14. ASSUME NEW r \in Requests, ExportFold(r) PROVE RoutingInv'
  BY <1>14 DEF ExportFold, Goto
<1>15. ASSUME NEW r \in Requests, DbError(r) PROVE RoutingInv'
  BY <1>15 DEF DbError, Goto, Release
<1>16. ASSUME NEW r \in Requests, Drop(r) PROVE RoutingInv'
  BY <1>16 DEF Drop, Goto, Release
<1>17. ASSUME NEW s \in Stores, Crash(s) PROVE RoutingInv'
  BY <1>17 DEF Crash
<1>18. ASSUME NEW e \in Events, Tamper(e) PROVE RoutingInv'
  BY <1>18 DEF Tamper
<1>19. CASE UNCHANGED vars
  BY <1>19
<1> QED
  BY <1>1, <1>2, <1>3, <1>4, <1>5, <1>6, <1>7, <1>8, <1>9, <1>10, <1>11, <1>12, <1>13, <1>14, <1>15, <1>16, <1>17, <1>18, <1>19 DEF Next, Arrive, Step, Done

(* AdmitLock takes the identity row; commit, rollback, drop and crash give it back. *)
LEMMA LockStep == TypeOK /\ LockInv /\ [Next]_vars => LockInv'
<1> SUFFICES ASSUME TypeOK, LockInv, [Next]_vars PROVE LockInv'
  OBVIOUS
<1> USE StoreAssumption DEF TypeOK, LockInv, vars, database, cache, readState, writeState, begun, Writing, Reading, Locked, Terminal, Inputs
<1>1. ASSUME NEW r \in Requests, Submit(r) PROVE LockInv'
  BY <1>1 DEF Submit, Begin
<1>2. ASSUME NEW r \in Requests, RestoreExport(r) PROVE LockInv'
  BY <1>2 DEF RestoreExport, Begin
<1>3. ASSUME NEW r \in Requests, AdmitLock(r) PROVE LockInv'
  BY <1>3 DEF AdmitLock, Goto
<1>4. ASSUME NEW r \in Requests, AdmitReject(r) PROVE LockInv'
  BY <1>4 DEF AdmitReject, Goto, Release
<1>5. ASSUME NEW r \in Requests, AdmitLoad(r) PROVE LockInv'
  BY <1>5 DEF AdmitLoad, Goto, Release
<1>6. ASSUME NEW r \in Requests, AdmitCommit(r) PROVE LockInv'
  BY <1>6 DEF AdmitCommit, Goto, Release
<1>7. ASSUME NEW r \in Requests, AdmitInvalidate(r) PROVE LockInv'
  BY <1>7 DEF AdmitInvalidate, Goto
<1>8. ASSUME NEW r \in Requests, ReadSnapshot(r) PROVE LockInv'
  BY <1>8 DEF ReadSnapshot, Begin
<1>9. ASSUME NEW r \in Requests, ReadProbe(r) PROVE LockInv'
  BY <1>9 DEF ReadProbe, Goto, CacheKey
<1>10. ASSUME NEW r \in Requests, ReadLookup(r) PROVE LockInv'
  BY <1>10 DEF ReadLookup, Goto, Hit
<1>11. ASSUME NEW r \in Requests, ReadFold(r) PROVE LockInv'
  BY <1>11 DEF ReadFold, Goto
<1>12. ASSUME NEW r \in Requests, ReadFill(r) PROVE LockInv'
  BY <1>12 DEF ReadFill, Goto
<1>13. ASSUME NEW r \in Requests, Export(r) PROVE LockInv'
  BY <1>13 DEF Export, Begin
<1>14. ASSUME NEW r \in Requests, ExportFold(r) PROVE LockInv'
  BY <1>14 DEF ExportFold, Goto
<1>15. ASSUME NEW r \in Requests, DbError(r) PROVE LockInv'
  BY <1>15 DEF DbError, Goto, Release
<1>16. ASSUME NEW r \in Requests, Drop(r) PROVE LockInv'
  BY <1>16 DEF Drop, Goto, Release
<1>17. ASSUME NEW s \in Stores, Crash(s) PROVE LockInv'
  BY <1>17 DEF Crash
<1>18. ASSUME NEW e \in Events, Tamper(e) PROVE LockInv'
  BY <1>18 DEF Tamper
<1>19. CASE UNCHANGED vars
  BY <1>19
<1> QED
  BY <1>1, <1>2, <1>3, <1>4, <1>5, <1>6, <1>7, <1>8, <1>9, <1>10, <1>11, <1>12, <1>13, <1>14, <1>15, <1>16, <1>17, <1>18, <1>19 DEF Next, Arrive, Step, Done

(* Only AdmitCommit changes the candidates, and it only adds. *)
LEMMA HistoryStep == TypeOK /\ HistoryInv /\ [Next]_vars => HistoryInv'
<1> SUFFICES ASSUME TypeOK, HistoryInv, [Next]_vars PROVE HistoryInv'
  OBVIOUS
<1> USE StoreAssumption DEF HistoryInv, vars, database, cache, readState, writeState, begun
<1>1. ASSUME NEW r \in Requests, Submit(r) PROVE HistoryInv'
  BY <1>1 DEF Submit, Begin
<1>2. ASSUME NEW r \in Requests, RestoreExport(r) PROVE HistoryInv'
  BY <1>2 DEF RestoreExport, Begin
<1>3. ASSUME NEW r \in Requests, AdmitLock(r) PROVE HistoryInv'
  BY <1>3 DEF AdmitLock, Goto
<1>4. ASSUME NEW r \in Requests, AdmitReject(r) PROVE HistoryInv'
  BY <1>4 DEF AdmitReject, Goto, Release
<1>5. ASSUME NEW r \in Requests, AdmitLoad(r) PROVE HistoryInv'
  BY <1>5 DEF AdmitLoad, Goto, Release
<1>6. ASSUME NEW r \in Requests, AdmitCommit(r) PROVE HistoryInv'
  BY <1>6 DEF AdmitCommit, Goto, Release
<1>7. ASSUME NEW r \in Requests, AdmitInvalidate(r) PROVE HistoryInv'
  BY <1>7 DEF AdmitInvalidate, Goto
<1>8. ASSUME NEW r \in Requests, ReadSnapshot(r) PROVE HistoryInv'
  BY <1>8 DEF ReadSnapshot, Begin
<1>9. ASSUME NEW r \in Requests, ReadProbe(r) PROVE HistoryInv'
  BY <1>9 DEF ReadProbe, Goto, CacheKey
<1>10. ASSUME NEW r \in Requests, ReadLookup(r) PROVE HistoryInv'
  BY <1>10 DEF ReadLookup, Goto, Hit
<1>11. ASSUME NEW r \in Requests, ReadFold(r) PROVE HistoryInv'
  BY <1>11 DEF ReadFold, Goto
<1>12. ASSUME NEW r \in Requests, ReadFill(r) PROVE HistoryInv'
  BY <1>12 DEF ReadFill, Goto
<1>13. ASSUME NEW r \in Requests, Export(r) PROVE HistoryInv'
  BY <1>13 DEF Export, Begin
<1>14. ASSUME NEW r \in Requests, ExportFold(r) PROVE HistoryInv'
  BY <1>14 DEF ExportFold, Goto
<1>15. ASSUME NEW r \in Requests, DbError(r) PROVE HistoryInv'
  BY <1>15 DEF DbError, Goto, Release
<1>16. ASSUME NEW r \in Requests, Drop(r) PROVE HistoryInv'
  BY <1>16 DEF Drop, Goto, Release
<1>17. ASSUME NEW s \in Stores, Crash(s) PROVE HistoryInv'
  BY <1>17 DEF Crash
<1>18. ASSUME NEW e \in Events, Tamper(e) PROVE HistoryInv'
  BY <1>18 DEF Tamper
<1>19. CASE UNCHANGED vars
  BY <1>19
<1> QED
  BY <1>1, <1>2, <1>3, <1>4, <1>5, <1>6, <1>7, <1>8, <1>9, <1>10, <1>11, <1>12, <1>13, <1>14, <1>15, <1>16, <1>17, <1>18, <1>19 DEF Next, Arrive, Step, Done

(* What a request saw when it began stays below what is retained now. *)
LEMMA BegunStep == TypeOK /\ BegunInv /\ [Next]_vars => BegunInv'
<1> SUFFICES ASSUME TypeOK, BegunInv, [Next]_vars PROVE BegunInv'
  OBVIOUS
<1> USE StoreAssumption DEF TypeOK, BegunInv, vars, database, cache, readState, writeState, begun, Writing, Reading, Locked, Terminal, Inputs
<1>1. ASSUME NEW r \in Requests, Submit(r) PROVE BegunInv'
  BY <1>1 DEF Submit, Begin
<1>2. ASSUME NEW r \in Requests, RestoreExport(r) PROVE BegunInv'
  BY <1>2 DEF RestoreExport, Begin
<1>3. ASSUME NEW r \in Requests, AdmitLock(r) PROVE BegunInv'
  BY <1>3 DEF AdmitLock, Goto
<1>4. ASSUME NEW r \in Requests, AdmitReject(r) PROVE BegunInv'
  BY <1>4 DEF AdmitReject, Goto, Release
<1>5. ASSUME NEW r \in Requests, AdmitLoad(r) PROVE BegunInv'
  BY <1>5 DEF AdmitLoad, Goto, Release
<1>6. ASSUME NEW r \in Requests, AdmitCommit(r) PROVE BegunInv'
  BY <1>6 DEF AdmitCommit, Goto, Release
<1>7. ASSUME NEW r \in Requests, AdmitInvalidate(r) PROVE BegunInv'
  BY <1>7 DEF AdmitInvalidate, Goto
<1>8. ASSUME NEW r \in Requests, ReadSnapshot(r) PROVE BegunInv'
  BY <1>8 DEF ReadSnapshot, Begin
<1>9. ASSUME NEW r \in Requests, ReadProbe(r) PROVE BegunInv'
  BY <1>9 DEF ReadProbe, Goto, CacheKey
<1>10. ASSUME NEW r \in Requests, ReadLookup(r) PROVE BegunInv'
  BY <1>10 DEF ReadLookup, Goto, Hit
<1>11. ASSUME NEW r \in Requests, ReadFold(r) PROVE BegunInv'
  BY <1>11 DEF ReadFold, Goto
<1>12. ASSUME NEW r \in Requests, ReadFill(r) PROVE BegunInv'
  BY <1>12 DEF ReadFill, Goto
<1>13. ASSUME NEW r \in Requests, Export(r) PROVE BegunInv'
  BY <1>13 DEF Export, Begin
<1>14. ASSUME NEW r \in Requests, ExportFold(r) PROVE BegunInv'
  BY <1>14 DEF ExportFold, Goto
<1>15. ASSUME NEW r \in Requests, DbError(r) PROVE BegunInv'
  BY <1>15 DEF DbError, Goto, Release
<1>16. ASSUME NEW r \in Requests, Drop(r) PROVE BegunInv'
  BY <1>16 DEF Drop, Goto, Release
<1>17. ASSUME NEW s \in Stores, Crash(s) PROVE BegunInv'
  BY <1>17 DEF Crash
<1>18. ASSUME NEW e \in Events, Tamper(e) PROVE BegunInv'
  BY <1>18 DEF Tamper
<1>19. CASE UNCHANGED vars
  BY <1>19
<1> QED
  BY <1>1, <1>2, <1>3, <1>4, <1>5, <1>6, <1>7, <1>8, <1>9, <1>10, <1>11, <1>12, <1>13, <1>14, <1>15, <1>16, <1>17, <1>18, <1>19 DEF Next, Arrive, Step, Done

(* No other commit comes between a transaction's load and its own commit. *)
LEMMA LoadedStep == TypeOK /\ RoutingInv /\ LockInv /\ HistoryInv /\ BegunInv /\ LoadedInv /\ [Next]_vars => LoadedInv'
<1> SUFFICES ASSUME TypeOK, RoutingInv, LockInv, HistoryInv, BegunInv, LoadedInv, [Next]_vars PROVE LoadedInv'
  OBVIOUS
<1> USE StoreAssumption DEF TypeOK, RoutingInv, LockInv, HistoryInv, BegunInv, LoadedInv, vars, database, cache, readState, writeState, begun, Writing, Reading, Locked, Terminal, Inputs
<1>1. ASSUME NEW r \in Requests, Submit(r) PROVE LoadedInv'
  BY <1>1 DEF Submit, Begin
<1>2. ASSUME NEW r \in Requests, RestoreExport(r) PROVE LoadedInv'
  BY <1>2 DEF RestoreExport, Begin
<1>3. ASSUME NEW r \in Requests, AdmitLock(r) PROVE LoadedInv'
  BY <1>3 DEF AdmitLock, Goto
<1>4. ASSUME NEW r \in Requests, AdmitReject(r) PROVE LoadedInv'
  BY <1>4 DEF AdmitReject, Goto, Release
<1>5. ASSUME NEW r \in Requests, AdmitLoad(r) PROVE LoadedInv'
  BY <1>5 DEF AdmitLoad, Goto, Release
<1>6. ASSUME NEW r \in Requests, AdmitCommit(r) PROVE LoadedInv'
  BY <1>6 DEF AdmitCommit, Goto, Release
<1>7. ASSUME NEW r \in Requests, AdmitInvalidate(r) PROVE LoadedInv'
  BY <1>7 DEF AdmitInvalidate, Goto
<1>8. ASSUME NEW r \in Requests, ReadSnapshot(r) PROVE LoadedInv'
  BY <1>8 DEF ReadSnapshot, Begin
<1>9. ASSUME NEW r \in Requests, ReadProbe(r) PROVE LoadedInv'
  BY <1>9 DEF ReadProbe, Goto, CacheKey
<1>10. ASSUME NEW r \in Requests, ReadLookup(r) PROVE LoadedInv'
  BY <1>10 DEF ReadLookup, Goto, Hit
<1>11. ASSUME NEW r \in Requests, ReadFold(r) PROVE LoadedInv'
  BY <1>11 DEF ReadFold, Goto
<1>12. ASSUME NEW r \in Requests, ReadFill(r) PROVE LoadedInv'
  BY <1>12 DEF ReadFill, Goto
<1>13. ASSUME NEW r \in Requests, Export(r) PROVE LoadedInv'
  BY <1>13 DEF Export, Begin
<1>14. ASSUME NEW r \in Requests, ExportFold(r) PROVE LoadedInv'
  BY <1>14 DEF ExportFold, Goto
<1>15. ASSUME NEW r \in Requests, DbError(r) PROVE LoadedInv'
  BY <1>15 DEF DbError, Goto, Release
<1>16. ASSUME NEW r \in Requests, Drop(r) PROVE LoadedInv'
  BY <1>16 DEF Drop, Goto, Release
<1>17. ASSUME NEW s \in Stores, Crash(s) PROVE LoadedInv'
  BY <1>17 DEF Crash
<1>18. ASSUME NEW e \in Events, Tamper(e) PROVE LoadedInv'
  BY <1>18 DEF Tamper
<1>19. CASE UNCHANGED vars
  BY <1>19
<1> QED
  BY <1>1, <1>2, <1>3, <1>4, <1>5, <1>6, <1>7, <1>8, <1>9, <1>10, <1>11, <1>12, <1>13, <1>14, <1>15, <1>16, <1>17, <1>18, <1>19 DEF Next, Arrive, Step, Done

(* Probe, fold and fill keep the cache and the reads in progress within history. *)
LEMMA ReadStep == TypeOK /\ RoutingInv /\ HistoryInv /\ BegunInv /\ ReadInv /\ [Next]_vars => ReadInv'
<1> SUFFICES ASSUME TypeOK, RoutingInv, HistoryInv, BegunInv, ReadInv, [Next]_vars PROVE ReadInv'
  OBVIOUS
<1> USE StoreAssumption DEF TypeOK, RoutingInv, HistoryInv, BegunInv, ReadInv, vars, database, cache, readState, writeState, begun, Writing, Reading, Locked, Terminal, Inputs, Entry
<1>1. ASSUME NEW r \in Requests, Submit(r) PROVE ReadInv'
  BY <1>1 DEF Submit, Begin
<1>2. ASSUME NEW r \in Requests, RestoreExport(r) PROVE ReadInv'
  BY <1>2 DEF RestoreExport, Begin
<1>3. ASSUME NEW r \in Requests, AdmitLock(r) PROVE ReadInv'
  BY <1>3 DEF AdmitLock, Goto
<1>4. ASSUME NEW r \in Requests, AdmitReject(r) PROVE ReadInv'
  BY <1>4 DEF AdmitReject, Goto, Release
<1>5. ASSUME NEW r \in Requests, AdmitLoad(r) PROVE ReadInv'
  BY <1>5 DEF AdmitLoad, Goto, Release
<1>6. ASSUME NEW r \in Requests, AdmitCommit(r) PROVE ReadInv'
  BY <1>6 DEF AdmitCommit, Goto, Release
<1>7. ASSUME NEW r \in Requests, AdmitInvalidate(r) PROVE ReadInv'
  BY <1>7 DEF AdmitInvalidate, Goto
<1>8. ASSUME NEW r \in Requests, ReadSnapshot(r) PROVE ReadInv'
  BY <1>8 DEF ReadSnapshot, Begin
<1>9. ASSUME NEW r \in Requests, ReadProbe(r) PROVE ReadInv'
  BY <1>9 DEF ReadProbe, Goto, CacheKey
<1>10. ASSUME NEW r \in Requests, ReadLookup(r) PROVE ReadInv'
  <2>1. CASE Hit(r)
    <3>1. entry[at[r]] \in Entry /\ pc[r] = "lookup" /\ at[r] \in Stores
      BY <1>10, <2>1 DEF Hit, ReadLookup
    <3>2. /\ snap' = [snap EXCEPT ![r] = entry[at[r]].snap]
          /\ pc' = [pc EXCEPT ![r] = "read"]
      BY <1>10, <2>1 DEF ReadLookup, Goto
    <3> QED BY <1>10, <2>1, <3>1, <3>2 DEF ReadLookup, Hit
  <2>2. CASE ~Hit(r)
    BY <1>10, <2>2 DEF ReadLookup, Goto
  <2> QED BY <2>1, <2>2
<1>11. ASSUME NEW r \in Requests, ReadFold(r) PROVE ReadInv'
  BY <1>11 DEF ReadFold, Goto
<1>12. ASSUME NEW r \in Requests, ReadFill(r) PROVE ReadInv'
  BY <1>12 DEF ReadFill, Goto
<1>13. ASSUME NEW r \in Requests, Export(r) PROVE ReadInv'
  BY <1>13 DEF Export, Begin
<1>14. ASSUME NEW r \in Requests, ExportFold(r) PROVE ReadInv'
  BY <1>14 DEF ExportFold, Goto
<1>15. ASSUME NEW r \in Requests, DbError(r) PROVE ReadInv'
  BY <1>15 DEF DbError, Goto, Release
<1>16. ASSUME NEW r \in Requests, Drop(r) PROVE ReadInv'
  BY <1>16 DEF Drop, Goto, Release
<1>17. ASSUME NEW s \in Stores, Crash(s) PROVE ReadInv'
  BY <1>17 DEF Crash
<1>18. ASSUME NEW e \in Events, Tamper(e) PROVE ReadInv'
  BY <1>18 DEF Tamper
<1>19. CASE UNCHANGED vars
  BY <1>19
<1> QED
  BY <1>1, <1>2, <1>3, <1>4, <1>5, <1>6, <1>7, <1>8, <1>9, <1>10, <1>11, <1>12, <1>13, <1>14, <1>15, <1>16, <1>17, <1>18, <1>19 DEF Next, Arrive, Step, Done

(* A receipt is written with the row it is about, and later sets only grow. *)
LEMMA ReceiptStep == TypeOK /\ RoutingInv /\ LockInv /\ HistoryInv /\ LoadedInv /\ ReceiptInv /\ [Next]_vars => ReceiptInv'
<1> SUFFICES ASSUME TypeOK, RoutingInv, LockInv, HistoryInv, LoadedInv, ReceiptInv, [Next]_vars PROVE ReceiptInv'
  OBVIOUS
<1> USE StoreAssumption DEF TypeOK, RoutingInv, LockInv, HistoryInv, LoadedInv, ReceiptInv, vars, database, cache, readState, writeState, begun, Writing, Reading, Locked, Terminal, Inputs
<1>1. ASSUME NEW r \in Requests, Submit(r) PROVE ReceiptInv'
  BY <1>1 DEF Submit, Begin
<1>2. ASSUME NEW r \in Requests, RestoreExport(r) PROVE ReceiptInv'
  BY <1>2 DEF RestoreExport, Begin
<1>3. ASSUME NEW r \in Requests, AdmitLock(r) PROVE ReceiptInv'
  BY <1>3 DEF AdmitLock, Goto
<1>4. ASSUME NEW r \in Requests, AdmitReject(r) PROVE ReceiptInv'
  BY <1>4 DEF AdmitReject, Goto, Release
<1>5. ASSUME NEW r \in Requests, AdmitLoad(r) PROVE ReceiptInv'
  BY <1>5 DEF AdmitLoad, Goto, Release
<1>6. ASSUME NEW r \in Requests, AdmitCommit(r) PROVE ReceiptInv'
  <2> DEFINE S == candidates \cup {input[r]}
             First(c, U) == /\ c.event \in U
                            /\ c.result = Admission(c.event, U)
                            /\ \A T \in history' : c.event \in T => U \subseteq T
  <2>1. /\ candidates' = S /\ history' = history \cup {S}
        /\ receipts' = receipts \cup NewReceipts(r)
        /\ loaded[r] = S
    BY <1>6 DEF AdmitCommit
  <2>2. \A c \in NewReceipts(r) :
          /\ c = [event |-> input[r], result |-> Admission(input[r], S), by |-> r]
          /\ c.event = input[r] /\ c.event \notin candidates
          /\ c.result = Admission(c.event, S)
    BY <2>1 DEF NewReceipts
  <2>3. ASSUME NEW c \in receipts PROVE \E U \in history' : First(c, U)
    <3>1. PICK U \in history : /\ c.event \in U
                             /\ c.result = Admission(c.event, U)
                             /\ \A T \in history : c.event \in T => U \subseteq T
      OBVIOUS
    <3>2. U \subseteq S
      OBVIOUS
    <3>3. First(c, U)
      BY <2>1, <3>1, <3>2
    <3> QED BY <2>1, <3>3
  <2>4. ASSUME NEW c \in NewReceipts(r) PROVE \E U \in history' : First(c, U)
    <3>1. \A T \in history : c.event \notin T
      BY <2>2
    <3>2. c.event \in S /\ c.result = Admission(c.event, S)
      BY <2>2
    <3>3. \A T \in history' : c.event \in T => S \subseteq T
      BY <2>1, <3>1
    <3>4. S \in history'
      BY <2>1
    <3> HIDE DEF S
    <3> QED BY <3>2, <3>3, <3>4
  <2>5. ASSUME NEW c \in receipts', NEW d \in receipts', d.event = c.event
        PROVE  d = c
    BY <2>1, <2>2, <2>5
  <2>6. \A c \in receipts' : c.event \in candidates'
    BY <2>1, <2>2
  <2>7. \A c \in receipts' : \E U \in history' : First(c, U)
    BY <2>1, <2>3, <2>4
  <2> QED BY <2>5, <2>6, <2>7
<1>7. ASSUME NEW r \in Requests, AdmitInvalidate(r) PROVE ReceiptInv'
  BY <1>7 DEF AdmitInvalidate, Goto
<1>8. ASSUME NEW r \in Requests, ReadSnapshot(r) PROVE ReceiptInv'
  BY <1>8 DEF ReadSnapshot, Begin
<1>9. ASSUME NEW r \in Requests, ReadProbe(r) PROVE ReceiptInv'
  BY <1>9 DEF ReadProbe, Goto, CacheKey
<1>10. ASSUME NEW r \in Requests, ReadLookup(r) PROVE ReceiptInv'
  BY <1>10 DEF ReadLookup, Goto, Hit
<1>11. ASSUME NEW r \in Requests, ReadFold(r) PROVE ReceiptInv'
  BY <1>11 DEF ReadFold, Goto
<1>12. ASSUME NEW r \in Requests, ReadFill(r) PROVE ReceiptInv'
  BY <1>12 DEF ReadFill, Goto
<1>13. ASSUME NEW r \in Requests, Export(r) PROVE ReceiptInv'
  BY <1>13 DEF Export, Begin
<1>14. ASSUME NEW r \in Requests, ExportFold(r) PROVE ReceiptInv'
  BY <1>14 DEF ExportFold, Goto
<1>15. ASSUME NEW r \in Requests, DbError(r) PROVE ReceiptInv'
  BY <1>15 DEF DbError, Goto, Release
<1>16. ASSUME NEW r \in Requests, Drop(r) PROVE ReceiptInv'
  BY <1>16 DEF Drop, Goto, Release
<1>17. ASSUME NEW s \in Stores, Crash(s) PROVE ReceiptInv'
  BY <1>17 DEF Crash
<1>18. ASSUME NEW e \in Events, Tamper(e) PROVE ReceiptInv'
  BY <1>18 DEF Tamper
<1>19. CASE UNCHANGED vars
  BY <1>19
<1> QED
  BY <1>1, <1>2, <1>3, <1>4, <1>5, <1>6, <1>7, <1>8, <1>9, <1>10, <1>11, <1>12, <1>13, <1>14, <1>15, <1>16, <1>17, <1>18, <1>19 DEF Next, Arrive, Step, Done

(* A restore leaves an envelope only once it is retained, and stops at an error. *)
LEMMA RestoreStep == TypeOK /\ RoutingInv /\ RestoreInv /\ [Next]_vars => RestoreInv'
<1> SUFFICES ASSUME TypeOK, RoutingInv, RestoreInv, [Next]_vars PROVE RestoreInv'
  OBVIOUS
<1> USE StoreAssumption DEF TypeOK, RoutingInv, RestoreInv, vars, database, cache, readState, writeState, begun, Writing, Reading, Locked, Terminal, Inputs
<1>1. ASSUME NEW r \in Requests, Submit(r) PROVE RestoreInv'
  BY <1>1 DEF Submit, Begin
<1>2. ASSUME NEW r \in Requests, RestoreExport(r) PROVE RestoreInv'
  BY <1>2 DEF RestoreExport, Begin
<1>3. ASSUME NEW r \in Requests, AdmitLock(r) PROVE RestoreInv'
  BY <1>3 DEF AdmitLock, Goto
<1>4. ASSUME NEW r \in Requests, AdmitReject(r) PROVE RestoreInv'
  BY <1>4 DEF AdmitReject, Goto, Release
<1>5. ASSUME NEW r \in Requests, AdmitLoad(r) PROVE RestoreInv'
  BY <1>5 DEF AdmitLoad, Goto, Release
<1>6. ASSUME NEW r \in Requests, AdmitCommit(r) PROVE RestoreInv'
  BY <1>6 DEF AdmitCommit, Goto, Release
<1>7. ASSUME NEW r \in Requests, AdmitInvalidate(r) PROVE RestoreInv'
  BY <1>7 DEF AdmitInvalidate, Goto
<1>8. ASSUME NEW r \in Requests, ReadSnapshot(r) PROVE RestoreInv'
  BY <1>8 DEF ReadSnapshot, Begin
<1>9. ASSUME NEW r \in Requests, ReadProbe(r) PROVE RestoreInv'
  BY <1>9 DEF ReadProbe, Goto, CacheKey
<1>10. ASSUME NEW r \in Requests, ReadLookup(r) PROVE RestoreInv'
  BY <1>10 DEF ReadLookup, Goto, Hit
<1>11. ASSUME NEW r \in Requests, ReadFold(r) PROVE RestoreInv'
  BY <1>11 DEF ReadFold, Goto
<1>12. ASSUME NEW r \in Requests, ReadFill(r) PROVE RestoreInv'
  BY <1>12 DEF ReadFill, Goto
<1>13. ASSUME NEW r \in Requests, Export(r) PROVE RestoreInv'
  BY <1>13 DEF Export, Begin
<1>14. ASSUME NEW r \in Requests, ExportFold(r) PROVE RestoreInv'
  BY <1>14 DEF ExportFold, Goto
<1>15. ASSUME NEW r \in Requests, DbError(r) PROVE RestoreInv'
  BY <1>15 DEF DbError, Goto, Release
<1>16. ASSUME NEW r \in Requests, Drop(r) PROVE RestoreInv'
  BY <1>16 DEF Drop, Goto, Release
<1>17. ASSUME NEW s \in Stores, Crash(s) PROVE RestoreInv'
  BY <1>17 DEF Crash
<1>18. ASSUME NEW e \in Events, Tamper(e) PROVE RestoreInv'
  BY <1>18 DEF Tamper
<1>19. CASE UNCHANGED vars
  BY <1>19
<1> QED
  BY <1>1, <1>2, <1>3, <1>4, <1>5, <1>6, <1>7, <1>8, <1>9, <1>10, <1>11, <1>12, <1>13, <1>14, <1>15, <1>16, <1>17, <1>18, <1>19 DEF Next, Arrive, Step, Done

(* The initial state satisfies every part of the invariant. *)
LEMMA InitInv == Init => IInv
<1> SUFFICES ASSUME Init PROVE IInv
  OBVIOUS
<1> USE StoreAssumption DEF Init, Writing, Reading, Locked, Terminal, Inputs, Entry
<1>1. TypeOK /\ RoutingInv /\ LockInv
  BY DEF TypeOK, RoutingInv, LockInv
<1>2. HistoryInv /\ BegunInv /\ LoadedInv /\ ReadInv
  BY DEF HistoryInv, BegunInv, LoadedInv, ReadInv
<1>3. ReceiptInv /\ RestoreInv
  BY DEF ReceiptInv, RestoreInv
<1> QED
  BY <1>1, <1>2, <1>3 DEF IInv

(* The inductive invariant holds of every behaviour of the store.          *)
THEOREM Invariance == Spec => []IInv
<1>1. IInv /\ [Next]_vars => IInv'
  BY TypeStep, RoutingStep, LockStep, HistoryStep, BegunStep, LoadedStep,
     ReadStep, ReceiptStep, RestoreStep DEF IInv
<1> QED
  BY InitInv, <1>1, PTL DEF Spec

(* Every variable keeps its type.                                          *)
THEOREM TypeCorrect == Spec => []TypeOK
<1>1. IInv => TypeOK
  BY DEF IInv
<1> QED
  BY Invariance, <1>1, PTL

(* The snapshot cache is transparent: a served snapshot is the fold of the *)
(* candidates at an instant of the read.                                   *)
THEOREM SnapshotsAreCurrent == Spec => []SnapshotIsCurrent
<1>1. IInv => SnapshotIsCurrent
  BY DEF IInv, ReadInv, SnapshotIsCurrent
<1> QED
  BY Invariance, <1>1, PTL

(* Bytes altered before a read begins make the read fail, cache or not.    *)
THEOREM TamperingIsRefused == Spec => []TamperedNeverServed
<1>1. IInv => TamperedNeverServed
  BY DEF IInv, ReadInv, TamperedNeverServed
<1> QED
  BY Invariance, <1>1, PTL

(* The identity row makes admissions atomic: each outcome is computed over *)
(* the set its own commit leaves behind.                                   *)
THEOREM OutcomesAreAtomic == Spec => []OutcomeOfOwnCommit
<1>1. IInv => OutcomeOfOwnCommit
  BY DEF IInv, LoadedInv, OutcomeOfOwnCommit
<1> QED
  BY Invariance, <1>1, PTL

(* One receipt per event, for its first retention.                         *)
THEOREM ReceiptsAreFirst == Spec => []ReceiptOfFirstRetention
<1>1. IInv => ReceiptOfFirstRetention
  BY DEF IInv, ReceiptInv, ReceiptOfFirstRetention
<1> QED
  BY Invariance, <1>1, PTL

(* A restore that reports success retained its whole manifest.             *)
THEOREM RestoresAreComplete == Spec => []RestoreComplete
<1>1. IInv => RestoreComplete
  BY DEF IInv, RestoreInv, RestoreComplete
<1> QED
  BY Invariance, <1>1, PTL
=============================================================================
