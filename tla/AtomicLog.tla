------------------------------ MODULE AtomicLog ------------------------------
(***************************************************************************)
(* What the v0 ledger promises to whoever reads it: a set of signed events *)
(* that only grows, by whole batches, and a materialised view that is      *)
(* always the same function of that set.  Nothing of transactions, locks,  *)
(* arrival order or rebuilds can be seen from here.                        *)
(***************************************************************************)
CONSTANTS Ids,            \* the events that can be signed
          ViewOf(_)       \* the view a set of events stands for

VARIABLES log, view

Init == log = {} /\ view = ViewOf({})

(* A commit makes one batch of new events visible, with its view.          *)
Append == /\ log \subseteq log' /\ log # log' /\ log' \subseteq Ids
          /\ view' = ViewOf(log')

Spec == Init /\ [][Append]_<<log, view>>
=============================================================================
