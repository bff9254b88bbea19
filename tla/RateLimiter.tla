---------------------------- MODULE RateLimiter ----------------------------
(***************************************************************************)
(* The per-client limit of cc-gateway (limit.rs), GCRA over a bounded      *)
(* table.  A thread samples the clock, then takes the table's lock and     *)
(* decides with the sampled instant; between the two it may be delayed by  *)
(* up to MaxStall ticks, so decisions need not be in the order of the      *)
(* clock.  log, owed and forgiven are history: the instants admitted, the  *)
(* schedule a bucket last had, and what it lost of it by being dropped     *)
(* before a decision with an older instant.                                *)
(***************************************************************************)
EXTENDS Integers, Sequences, FiniteSets

CONSTANTS
    Addresses,    \* [family : {"v4", "v6", "mapped"}, net, host]
    Threads,      \* gateway threads in the rate_limit middleware
    Rate,         \* rate_per_minute
    Minute,       \* 60 s, in ticks
    MaxTracked,   \* MAX_TRACKED
    MaxStall,     \* longest delay between Instant::now and the lock
    MaxTime,      \* bound on the clock
    None          \* a thread without a request

ASSUME LimiterAssumption ==
    /\ Rate \in Nat \ {0}
    /\ Minute \in Nat \ {0}
    /\ MaxTracked \in Nat \ {0}
    /\ MaxStall \in Nat
    /\ MaxTime \in Nat
    /\ IsFiniteSet(Addresses)

VARIABLES
    now,      \* the monotonic clock
    tat,      \* Limiter::tat, the theoretical arrival time of each tracked bucket
    sampled,  \* the bucket and the instant each thread will decide about
    log,      \* admitted instants of each bucket, in the order of the decisions
    owed,     \* the schedule each bucket last had, kept when it is dropped
    forgiven  \* ticks of it that later admissions began before

history == <<log, owed, forgiven>>
vars == <<now, tat, sampled, history>>

\* IPv6 clients share their /64, IPv4-mapped ones the bucket of the IPv4 address.
ClientKey(a) ==
    CASE a.family = "v4"     -> a
      [] a.family = "mapped" -> [a EXCEPT !.family = "v4"]
      [] a.family = "v6"     -> [a EXCEPT !.host = 0]

Buckets == {ClientKey(a) : a \in Addresses}

\* Mutant: the interval is rounded down.
Interval_Floor == Minute \div Rate

\* Rounded up, so Rate intervals never fit in less than a minute.
Interval == (Minute + (Rate - 1)) \div Rate

Tolerance == Interval * (Rate - 1)

Init ==
    /\ now = 0
    /\ tat = <<>>
    /\ sampled = [t \in Threads |-> None]
    /\ log = [b \in Buckets |-> <<>>]
    /\ owed = [b \in Buckets |-> 0]
    /\ forgiven = [b \in Buckets |-> 0]

Tick ==
    /\ now < MaxTime
    /\ \A t \in Threads : sampled[t] # None => now - sampled[t].at < MaxStall
    /\ now' = now + 1
    /\ UNCHANGED <<tat, sampled, history>>

\* A request arrives and reads the clock.
Sample(t, a) ==
    /\ sampled[t] = None
    /\ sampled' = [sampled EXCEPT ![t] = [bucket |-> ClientKey(a), at |-> now]]
    /\ UNCHANGED <<now, tat, history>>

Full(table, b) == b \notin DOMAIN table /\ Cardinality(DOMAIN table) >= MaxTracked

\* Idle buckets are dropped when a new one finds the table full.
Table(b, at) ==
    IF Full(tat, b)
    THEN [x \in {y \in DOMAIN tat : tat[y] > at} |-> tat[x]]
    ELSE tat

Due(table, b, at) == IF b \in DOMAIN table /\ table[b] > at THEN table[b] ELSE at

Decided(t) == sampled' = [sampled EXCEPT ![t] = None]

\* No bucket is idle: a new client is refused rather than admitted unmetered.
RefuseFull(t) ==
    /\ sampled[t] # None
    /\ LET s == sampled[t] table == Table(s.bucket, s.at)
       IN  /\ Full(table, s.bucket)
           /\ tat' = table
    /\ Decided(t)
    /\ UNCHANGED <<now, history>>

\* Mutant: a refused request is charged like an admitted one.
RefuseAhead_Charged(t) ==
    /\ sampled[t] # None
    /\ LET s == sampled[t] table == Table(s.bucket, s.at)
           due == Due(table, s.bucket, s.at)
       IN  /\ ~Full(table, s.bucket)
           /\ due - s.at > Tolerance
           /\ tat' = [x \in DOMAIN table \cup {s.bucket} |->
                        IF x = s.bucket THEN due + Interval ELSE table[x]]
    /\ Decided(t)
    /\ UNCHANGED <<now, history>>

\* The client's schedule runs too far ahead.
RefuseAhead(t) ==
    /\ sampled[t] # None
    /\ LET s == sampled[t] table == Table(s.bucket, s.at)
       IN  /\ ~Full(table, s.bucket)
           /\ Due(table, s.bucket, s.at) - s.at > Tolerance
           /\ tat' = table
    /\ Decided(t)
    /\ UNCHANGED <<now, history>>

Accept(t) ==
    /\ sampled[t] # None
    /\ LET s == sampled[t] table == Table(s.bucket, s.at)
           due == Due(table, s.bucket, s.at)
       IN  /\ ~Full(table, s.bucket)
           /\ due - s.at <= Tolerance
           /\ tat' = [x \in DOMAIN table \cup {s.bucket} |->
                        IF x = s.bucket THEN due + Interval ELSE table[x]]
           /\ log' = [log EXCEPT ![s.bucket] = Append(@, s.at)]
           /\ owed' = [owed EXCEPT ![s.bucket] = due + Interval]
           /\ forgiven' = [forgiven EXCEPT ![s.bucket] =
                             IF due < owed[s.bucket] THEN @ + (owed[s.bucket] - due) ELSE @]
    /\ Decided(t)
    /\ UNCHANGED now

Next ==
    \/ Tick
    \/ \E t \in Threads :
         \/ \E a \in Addresses : Sample(t, a)
         \/ RefuseFull(t) \/ RefuseAhead(t) \/ Accept(t)

Spec == Init /\ [][Next]_vars
-----------------------------------------------------------------------------
\* The types of the limiter's state.
TypeOK ==
    /\ now \in Nat
    /\ DOMAIN tat \subseteq Buckets
    /\ tat \in [DOMAIN tat -> Nat]
    /\ sampled \in [Threads -> [bucket : Buckets, at : Nat] \cup {None}]
    /\ log \in [Buckets -> Seq(Nat)]
    /\ owed \in [Buckets -> Nat]
    /\ forgiven \in [Buckets -> Nat]

\* limit.rs: the table never holds more buckets than its bound, although new
\* clients keep arriving, idle ones are dropped and refused ones retried.
TableBounded == Cardinality(DOMAIN tat) <= MaxTracked

\* limit.rs: two admissions of one bucket that are n - m apart in the order of
\* admission are at least n - m + 1 - Rate intervals apart in time, less what
\* the bucket was forgiven: also when it was dropped from a full table and
\* tracked again, and when threads decide out of the order of the clock.
Paced ==
    \A b \in Buckets : \A m, n \in DOMAIN log[b] :
      m < n => log[b][n] + Rate * Interval + forgiven[b]
                 >= log[b][m] + (n - m + 1) * Interval

\* The admissions of b whose instants lie in the minute from w.
Window(b, w) == {i \in DOMAIN log[b] : w <= log[b][i] /\ log[b][i] < w + Minute}

\* limit.rs: "any 60 s window holds at most 2 * rate_per_minute - 1 requests
\* from one client", that is, fewer intervals than 2 * Rate: so it is for a
\* bucket that was forgiven nothing, and the others exceed it by no more
\* intervals than they were forgiven.
WindowBound ==
    \A b \in Buckets, w \in 0..now :
      Cardinality(Window(b, w)) * Interval < 2 * Rate * Interval + forgiven[b]

\* limit.rs: dropping an idle bucket forgives at most the delay between a
\* thread's clock and the lock, once for each admission: nothing at all where
\* decisions are in the order of the clock.
Lenient == \A b \in Buckets : forgiven[b] <= Len(log[b]) * MaxStall

\* limit.rs: what an operator relies on, together: the bounded table, the pace
\* of each client, the documented window and the limit of its exception.
Metered == TableBounded /\ Paced /\ WindowBound /\ Lenient

\* The admissions of b that still weigh on a request at `at`.
Recent(b, at) == {i \in DOMAIN log[b] : log[b][i] + Rate * Interval > at}

\* limit.rs: each client may burst to the rate and then sustain it: a tracked
\* client is refused only when the last Rate intervals already hold Rate of
\* its requests, or when a request of its own that had read the clock later
\* was decided before; refusals are not charged.
RefusedOnlyAtTheLimit ==
    [][\A t \in Threads :
         LET s == sampled[t]
         IN  s # None /\ sampled'[t] = None /\ log' = log /\ s.bucket \in DOMAIN tat
             => \/ Cardinality(Recent(s.bucket, s.at)) >= Rate
                \/ \E i \in DOMAIN log[s.bucket] : log[s.bucket][i] > s.at]_vars
=============================================================================
