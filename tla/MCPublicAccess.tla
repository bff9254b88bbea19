--------------------------- MODULE MCPublicAccess ---------------------------
(***************************************************************************)
(* The two halves of the public gateway, a behaviour of either: the limit  *)
(* that every request passes first (limit.rs), and requests that passed it *)
(* under the fairness of the runtime (lib.rs).  They share no state.       *)
(***************************************************************************)
EXTENDS RateLimiter

CONSTANTS
    Clients, Tasks, CorpusKeys, RefusedKeys, DirectKeys, ProbeKey,
    Unavailable, BadGateway, Gone, Dead, MaxWait, MaxDeaths

VARIABLES part, clock, admits, body, answered, cache, last, inflight, call, req, deaths

requestvars == <<clock, admits, body, answered, cache, last, inflight, call, req, deaths>>

\* Every answer takes one unit of the byte bound.
UnitSize(k) == 1
W == INSTANCE Gateway WITH Size <- UnitSize, MaxBytes <- 1, Freshness <- 1, ProseKeys <- {},
                           now <- clock, MaxTime <- MaxWait, MaxAdmits <- 0

\* Two IPv6 hosts of one /64, an IPv4 client seen both ways, and another one.
FiveAddresses ==
    {[family |-> "v6", net |-> 1, host |-> 1], [family |-> "v6", net |-> 1, host |-> 2],
     [family |-> "v4", net |-> 1, host |-> 1], [family |-> "mapped", net |-> 1, host |-> 1],
     [family |-> "v4", net |-> 1, host |-> 2]}

PublicInit == part \in {"limit", "requests"} /\ Init /\ W!Init
PublicNext ==
    \/ part = "limit" /\ Next /\ UNCHANGED <<part, requestvars>>
    \/ part = "requests" /\ W!Next /\ UNCHANGED <<part, vars>>
PublicSpec == PublicInit /\ [][PublicNext]_<<part, vars, requestvars>> /\ W!Fairness

(* Every request ends, although clients disconnect, the node fails and a
   probe task may die without an outcome (lib.rs, current_digest).         *)
EveryRequestEnds == W!EveryRequestEnds
=============================================================================
