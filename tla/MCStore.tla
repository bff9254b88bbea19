------------------------------- MODULE MCStore -------------------------------
(* Instances of Store for TLC.                                             *)
EXTENDS Store, TLC

CONSTANTS e1, e2, r1, r2, r3

(* e2 is a child of e1: pending while its parent is not retained.          *)
MCAdmission(e, S) == IF e = e2 /\ e1 \notin S THEN "pending" ELSE "valid"

(* A cached snapshot is at stake when one request fills the cache, another *)
(* admits and a third reads.  To keep the instance small r1 arrives before *)
(* r2, which loses nothing, and r3 only reads, after r1 has ended, and     *)
(* only if nothing but e1 was submitted; and the row altered is that of e1. *)
Arrivals ==
    \/ Arrive(r1)
    \/ pc[r1] # "new" /\ Arrive(r2)
    \/ /\ pc[r1] \in Terminal /\ pc[r2] # "new"
       /\ \A r \in Requests : input[r] \in {e1, None} /\ manifest[r] = {}
       /\ ReadSnapshot(r3)

(* No further request comes.                                               *)
Idle ==
    /\ pc[r1] \in Terminal /\ pc[r2] \in Terminal /\ pc[r3] \in Terminal \cup {"new"}
    /\ UNCHANGED vars

MCNext ==
    \/ Arrivals
    \/ \E r \in Requests : Step(r) \/ DbError(r) \/ Drop(r)
    \/ \E s \in Stores : Crash(s)
    \/ Tamper(e1)
    \/ Idle
MCSpec == Init /\ [][MCNext]_vars /\ \A r \in Requests : WF_vars(Step(r))
=============================================================================
