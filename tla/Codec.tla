-------------------------------- MODULE Codec --------------------------------
(***************************************************************************)
(* The canonical encodings of cc-core: v0 events (lib.rs canon_event and   *)
(* parse_event) and the v1 wire format (v1.rs, trait Wire).                *)
(*                                                                         *)
(* A byte is a number of 0..BYTES; an integer, a length, a tag or a hash   *)
(* is one byte, a coordinate two.  A value is read and written along its   *)
(* shape: <<"num">>, <<"bool">>, <<"tick">>, <<"str">>, <<"opt", s>>,      *)
(* <<"set", s>>, <<"rec", ss>> or <<"sum", shapes>>, a function from tags  *)
(* to shapes.  A record is a tuple, an option <<>> or <<v>>, a sum         *)
(* <<tag, v>>.  An error is {}, a result the set of it.                    *)
(***************************************************************************)
EXTENDS Integers, Sequences, FiniteSets, SequencesExt

BYTES == 15
HALF == (BYTES + 1) \div 2                \* the sign bit of the first byte of a coordinate
MAX_SET == 2                              \* 1024 in the code
MAX_KEY == 2                              \* 1024: a part of a subject key
MAX_ENVELOPE == 40                        \* 1 MiB
CANON_VERSION == 1
LEGACY_CANON_VERSION == 0
CONSTANTS_VERSION == 0

Bind(S, F(_)) == UNION {F(x) : x \in S}

-----------------------------------------------------------------------------
(* Coordinates: offset binary, big endian. *)

SENTINEL == HALF * (BYTES + 1) - 1
Ticks == (-SENTINEL - 1)..SENTINEL

to_canon_bytes(t) ==
    LET bits == IF t >= 0 THEN t ELSE t + (BYTES + 1) * (BYTES + 1)
    IN  <<((bits \div (BYTES + 1)) + HALF) % (BYTES + 1), bits % (BYTES + 1)>>
from_canon_bytes(b) ==
    LET bits == ((b[1] + HALF) % (BYTES + 1)) * (BYTES + 1) + b[2]
    IN  IF bits > SENTINEL THEN bits - (BYTES + 1) * (BYTES + 1) ELSE bits

-----------------------------------------------------------------------------
(* Writing and reading a value of a shape. *)

take(r, n) == IF n > Len(r) THEN {} ELSE {<<SubSeq(r, 1, n), SubSeq(r, n + 1, Len(r))>>}

framed(x) == <<Len(x)>> \o x

reference(s, v) == IF s[1] = "rec" THEN v[1] ELSE v
Increasing(s, vs) == \A i \in 1..(Len(vs) - 1) : reference(s, vs[i]) < reference(s, vs[i + 1])

RECURSIVE put(_, _), putAll(_, _)
put(s, v) ==
    CASE s[1] = "num" -> {<<v>>}
      [] s[1] = "bool" -> {<<IF v THEN 1 ELSE 0>>}
      [] s[1] = "tick" -> {to_canon_bytes(v)}
      [] s[1] = "str" -> {framed(v)}
      [] s[1] = "opt" -> IF v = <<>> THEN {<<0>>} ELSE {<<1>> \o b : b \in put(s[2], v[1])}
      [] s[1] = "set" -> IF Len(v) > MAX_SET \/ ~Increasing(s[2], v) THEN {}
                         ELSE {<<Len(v)>> \o b : b \in putAll([i \in DOMAIN v |-> s[2]], v)}
      [] s[1] = "rec" -> putAll(s[2], v)
      [] s[1] = "sum" -> {<<v[1]>> \o b : b \in put(s[2][v[1]], v[2])}
putAll(ss, vs) ==
    IF ss = <<>> THEN {<<>>}
    ELSE Bind(put(ss[1], vs[1]), LAMBDA a : {a \o b : b \in putAll(Tail(ss), Tail(vs))})

(* Mutant: any byte but zero is true. *)
getBool_Loose(b) == {b # 0}
getBool(b) == IF b \in {0, 1} THEN {b = 1} ELSE {}

(* get gives pairs <<value, the bytes left>>. *)
RECURSIVE get(_, _), getAll(_, _)
get(s, r) ==
    CASE s[1] = "num" -> {<<x[1][1], x[2]>> : x \in take(r, 1)}
      [] s[1] = "bool" -> Bind(take(r, 1), LAMBDA x : {<<b, x[2]>> : b \in getBool(x[1][1])})
      [] s[1] = "tick" -> {<<from_canon_bytes(x[1]), x[2]>> : x \in take(r, 2)}
      [] s[1] = "str" -> Bind(take(r, 1), LAMBDA x : take(x[2], x[1][1]))
      [] s[1] = "opt" -> Bind(get(<<"bool">>, r), LAMBDA x :
                            IF x[1] THEN {<<<<y[1]>>, y[2]>> : y \in get(s[2], x[2])} ELSE {<<<<>>, x[2]>>})
      [] s[1] = "set" -> Bind(take(r, 1), LAMBDA x :
                            IF x[1][1] > MAX_SET THEN {}
                            ELSE {y \in getAll([i \in 1..x[1][1] |-> s[2]], x[2]) : Increasing(s[2], y[1])})
      [] s[1] = "rec" -> getAll(s[2], r)
      [] s[1] = "sum" -> Bind(take(r, 1), LAMBDA x :
                            IF x[1][1] \notin DOMAIN s[2] THEN {}
                            ELSE {<<<<x[1][1], y[1]>>, y[2]>> : y \in get(s[2][x[1][1]], x[2])})
getAll(ss, r) ==
    IF ss = <<>> THEN {<<<<>>, r>>}
    ELSE Bind(get(ss[1], r), LAMBDA x :
            {<<<<x[1]>> \o y[1], y[2]>> : y \in getAll(Tail(ss), x[2])})

(* Everything is read, to the last byte. *)
getDone(s, r) == {x[1] : x \in {x \in get(s, r) : x[2] = <<>>}}

Num == <<"num">>
Bool == <<"bool">>
Tick == <<"tick">>
Str == <<"str">>
Nothing == <<"rec", <<>>>>
Opt(s) == <<"opt", s>>
SetOf(s) == <<"set", s>>
Rec(ss) == <<"rec", ss>>
Sum(shapes) == <<"sum", shapes>>
Tags(n) == Sum([t \in 1..n |-> Nothing])

-----------------------------------------------------------------------------
(* v0.  A window is [start, end]; its two states ride beside the stored
   coordinates.  A content is [event_time, record_time, author, supersedes,
   kind, body].                                                            *)

stored_end(w) == IF w.end[1] = "KnownClosed" THEN w.end[2] ELSE SENTINEL
stored_start(w) == IF w.start[1] = "Known" THEN w.start[2] ELSE SENTINEL
closure_state(w) == CASE w.end[1] = "KnownOpen" -> 0 [] w.end[1] = "KnownClosed" -> 1 [] OTHER -> 2
start_state(w) == IF w.start[1] = "Known" THEN 0 ELSE 1
from_stored(start, stored_s, closure, stored_e) ==
    [start |-> IF start = 0 THEN <<"Known", stored_s>> ELSE <<"Unknown", 0>>,
     end |-> CASE closure = 0 -> <<"KnownOpen", 0>>
               [] closure = 1 -> <<"KnownClosed", stored_e>>
               [] closure = 2 -> <<"UnknownClosure", 0>>]

Tagged(n) == Sum([t \in 0..(n - 1) |-> Nothing])
Plain(t) == <<t, <<>>>>
Stored(w) == <<Plain(closure_state(w)), Plain(start_state(w)), stored_start(w), stored_end(w)>>
Window == <<Tagged(3), Tagged(2), Tick, Tick>>
Restored(x) == from_stored(x[2][1], x[3], x[1][1], x[4])

EntityCreate == 1
Moment == 2
Edge == 3
Attestation == 4
VocabularyDeclare == 5
BodyShape ==
    [k \in {EntityCreate, Moment, Edge, VocabularyDeclare} |->
        Rec(CASE k = EntityCreate -> <<Num, Str, Str>> \o Window
              [] k = Moment -> <<Num, Num>>
              [] k = Edge -> <<Num, Num, Tagged(6), Tagged(4)>>
              [] k = VocabularyDeclare -> <<Num, Str>> \o Window)]

Header(kind) == framed(<<kind>>) \o <<LEGACY_CANON_VERSION, CONSTANTS_VERSION>>
AttestationShape == Rec(<<Num, Num, Tick>>)
ContentShape(kind) == Rec(<<Tick, Opt(Num), BodyShape[kind]>>)

HasWindow(kind) == kind \in {EntityCreate, VocabularyDeclare}
ToWire(c) ==
    IF ~HasWindow(c.kind) THEN c.body.fields ELSE c.body.fields \o Stored(c.body.window)
FromWire(kind, x) ==
    IF ~HasWindow(kind) THEN [fields |-> x, window |-> <<>>]
    ELSE [fields |-> SubSeq(x, 1, Len(x) - 4), window |-> Restored(SubSeq(x, Len(x) - 3, Len(x)))]

(* An attestation is an act of its author at a record time; everything else
   is its content, whoever says it and whenever.                           *)
canon_event(c) ==
    {Header(c.kind) \o b :
        b \in IF c.kind = Attestation
              THEN put(AttestationShape, <<c.body.fields[1], c.author, c.record_time>>)
              ELSE put(ContentShape(c.kind), <<c.event_time, c.supersedes, ToWire(c)>>)}

(* The versions are read and not looked at. *)
parse_event(payload, event_time, record_time, author) ==
    Bind(getAll(<<Str, Num, Num>>, payload), LAMBDA h :
        LET kind == h[1][1][1] IN
        IF Len(h[1][1]) # 1 THEN {}
        ELSE IF kind = Attestation
        THEN {[event_time |-> event_time, record_time |-> x[3], author |-> x[2], supersedes |-> <<>>,
               kind |-> kind, body |-> [fields |-> <<x[1]>>, window |-> <<>>]] :
                 x \in getDone(AttestationShape, h[2])}
        ELSE IF kind \in DOMAIN BodyShape
        THEN {[event_time |-> x[1], record_time |-> record_time, author |-> author,
               supersedes |-> x[2], kind |-> kind, body |-> FromWire(kind, x[3])] :
                 x \in getDone(ContentShape(kind), h[2])}
        ELSE {})

-----------------------------------------------------------------------------
(* v1.  An envelope is [head, kind, payload]; the head is <<instance,
   author, subject, subject_key, grant, parents, asserted_time>>.          *)

SubjectKey == Rec(<<Str, Str, Str>>)
AssertedTime == Rec(<<Num, Str>>)
Pin == Rec(<<Num, Num, Num, Num>>)
Pins == Rec(<<Pin, Pin>>)
ParentPins == Rec(<<Num, Pins>>)
Disposition == Rec(<<Num, Tags(3), Str>>)
Value ==
    Sum([t \in 0..8 |-> CASE t = 0 -> Nothing
                          [] t \in {1, 3, 6} -> Num       \* Body, ActiveGrant, Revision
                          [] t = 2 -> Rec(<<Num, Num>>)   \* Grant
                          [] t = 4 -> Rec(<<Num, Bool>>)  \* RevokedGrant
                          [] t = 5 -> SetOf(Num)          \* Heads
                          [] t = 7 -> Pins
                          [] t = 8 -> SetOf(ParentPins)])
Decision == Rec(<<Tags(8), Str, SetOf(Num), SetOf(Num), Value, Value>>)
Selection == Sum([t \in 0..1 |-> Num])
Payload ==
    [k \in 1..8 |->
        Rec(CASE k = 1 -> <<Num, Num, SetOf(Num)>>                        \* Genesis
              [] k = 2 -> <<Num, Decision>>                               \* Correction
              [] k = 3 -> <<Num, Num, Decision>>                          \* Delegate
              [] k = 4 -> <<Num, Bool, Decision>>                         \* Revoke
              [] k = 5 -> <<Selection, SetOf(Disposition), Decision>>     \* Resolve
              [] k = 6 -> <<Str, Pins, Decision>>                         \* EdgeAssert
              [] k = 7 -> <<Num, SetOf(ParentPins), Pins, Decision>>      \* EdgeReaffirm
              [] k = 8 -> <<Tags(2), Num, Str, Num>>)]                    \* Attestation

Domain == <<1>>                           \* "cc.event.v1"
Envelope(k) == <<Str, Num, Num, Num, Tags(8), Num, Opt(Num), Opt(SubjectKey), Opt(Num), SetOf(Num),
                 Opt(AssertedTime), Payload[k]>>

KeyAdmitted(e) == \A i \in DOMAIN e.head[4] : \A j \in 1..3 : Len(e.head[4][i][j]) \in 1..MAX_KEY
preimage(e) ==
    LET written == putAll(Envelope(e.kind),
                          <<Domain, CANON_VERSION, CONSTANTS_VERSION, e.head[1], Plain(e.kind)>>
                            \o Tail(e.head) \o <<e.payload>>)
    IN  IF KeyAdmitted(e) THEN {b \in written : Len(b) + 2 <= MAX_ENVELOPE} ELSE {}

(* What the bytes say, before they are compared with what would be written. *)
Read(b) ==
    Bind(getAll(<<Str, Num, Num, Num, Tags(8)>>, b), LAMBDA h :
        IF h[1][1] # Domain \/ h[1][2] # CANON_VERSION \/ h[1][3] # CONSTANTS_VERSION THEN {}
        ELSE {[kind |-> h[1][5][1], head |-> <<h[1][4]>> \o SubSeq(x, 1, 6), payload |-> x[7]] :
                x \in getDone(Rec(SubSeq(Envelope(h[1][5][1]), 6, 12)), h[2])})

(* A signature is modelled by what it signs and the key it is made with. *)
decode(m) ==
    {e \in Read(m.bytes) : /\ Len(m.bytes) + 2 <= MAX_ENVELOPE
                           /\ preimage(e) = {m.bytes}
                           /\ m.signature = <<e.head[2], m.bytes>>}
sign(key, e) ==
    Bind(preimage([e EXCEPT !.head[2] = key]),
         LAMBDA b : decode([bytes |-> b, signature |-> <<key, b>>]))

-----------------------------------------------------------------------------
(* The instances the properties are checked on. *)

Texts == UNION {[1..n -> {1, 2}] : n \in 0..2}
Starts == {<<"Known", t>> : t \in {-1, SENTINEL}} \cup {<<"Unknown", 0>>}
Ends == {<<"KnownClosed", t>> : t \in {0, SENTINEL}} \cup {<<"KnownOpen", 0>>, <<"UnknownClosure", 0>>}
Windows == [start : Starts, end : Ends]
Bodies ==
    {<<EntityCreate, [fields |-> <<1, k, n>>, window |-> w]>> : k, n \in Texts, w \in Windows}
      \cup {<<Moment, [fields |-> <<x, y>>, window |-> <<>>]>> : x, y \in 1..2}
      \cup {<<Edge, [fields |-> <<x, y, Plain(r), Plain(c)>>, window |-> <<>>]>> :
              x, y \in 1..2, r \in 0..5, c \in 0..3}
      \cup {<<VocabularyDeclare, [fields |-> <<1, k>>, window |-> w]>> : k \in Texts, w \in Windows}
      \cup {<<Attestation, [fields |-> <<x>>, window |-> <<>>]>> : x \in 1..2}
Contents ==
    {[kind |-> b[1], body |-> b[2], event_time |-> t, record_time |-> r, author |-> a, supersedes |-> s] :
        b \in Bodies, t \in {-1, 1}, r \in {0, 2}, a \in 1..2, s \in {<<>>, <<0>>}}

(* What two contents with one identity agree on. *)
Said(c) ==
    IF c.kind = Attestation THEN <<c.kind, <<c.body.fields[1], c.author, c.record_time>>>>
    ELSE <<c.kind, <<c.event_time, c.supersedes, c.body>>>>

(***************************************************************************)
(* "Two different claims must never share an H0" (canon_event), the bytes  *)
(* of a coordinate order as the coordinates do, and what is parsed back is *)
(* what was written: an attestation's supersedes alone is not written.     *)
(***************************************************************************)
DistinctClaims(kind) ==
    LET cs == {c \in Contents : c.kind = kind}
    IN  Cardinality({canon_event(c) : c \in cs}) = Cardinality({Said(c) : c \in cs})
ParsesBack(c) ==
    Bind(canon_event(c), LAMBDA b : parse_event(b, c.event_time, c.record_time, c.author))
      = {IF c.kind = Attestation THEN [c EXCEPT !.supersedes = <<>>] ELSE c}
Less(a, b) == a[1] < b[1] \/ (a[1] = b[1] /\ a[2] < b[2])
TickOrder(t) ==
    /\ from_canon_bytes(to_canon_bytes(t)) = t
    /\ \A u \in Ticks : Less(to_canon_bytes(t), to_canon_bytes(u)) <=> t < u

Reason == <<Plain(2), <<1>>, <<1, 2>>, <<3>>, <<0, <<>>>>, <<5, <<1, 4>>>>>>
Whole == <<<<1, 2, 3, 4>>, <<5, 6, 7, 8>>>>
Payloads ==
    {<<1, <<1, 2, <<>>>>>>, <<1, <<1, 2, <<3, 4>>>>>>, <<2, <<1, Reason>>>>, <<3, <<1, 2, Reason>>>>,
     <<4, <<1, TRUE, [Reason EXCEPT ![5] = <<4, <<1, FALSE>>>>]>>>>,
     <<5, <<<<1, 3>>, <<<<1, Plain(1), <<>>>>, <<2, Plain(3), <<1>>>>>>, Reason>>>>,
     <<6, <<<<1, 2>>, Whole, [Reason EXCEPT ![6] = <<2, <<1, 2>>>>]>>>>,
     <<7, <<1, <<<<9, Whole>>>>, Whole, [Reason EXCEPT ![2] = <<>>, ![3] = <<>>]>>>>,
     <<8, <<Plain(2), 1, <<2>>, 3>>>>}
Heads ==
    {<<1, 1, <<>>, <<>>, <<>>, <<>>, <<>>>>, <<1, 2, <<3>>, <<>>, <<4>>, <<5, 6>>, <<>>>>,
     <<1, 2, <<>>, <<<<<<1>>, <<1, 2>>, <<2>>>>>>, <<>>, <<>>, <<<<3, <<1>>>>>>>>,
     <<1, 2, <<>>, <<<<<<1>>, <<>>, <<2>>>>>>, <<>>, <<>>, <<>>>>,
     <<1, 2, <<3>>, <<>>, <<4>>, <<6, 5>>, <<>>>>, <<1, 2, <<3>>, <<>>, <<4>>, <<5, 6, 7>>, <<>>>>}
Envelopes == {[head |-> h, kind |-> p[1], payload |-> p[2]] : h \in Heads, p \in Payloads}

(* One byte changed, dropped, doubled or swapped with the next. *)
Spoiled(b) ==
    {[b EXCEPT ![i] = x] : i \in DOMAIN b, x \in 0..9}
      \cup {RemoveAt(b, i) : i \in DOMAIN b} \cup {InsertAt(b, i, b[i]) : i \in DOMAIN b}
      \cup {[b EXCEPT ![i] = b[i + 1], ![i + 1] = b[i]] : i \in 1..(Len(b) - 1)}

(***************************************************************************)
(* "Only verified, canonical wire bytes can construct this type" (v1.rs):  *)
(* an envelope that can be written is read back as it was; and the reader  *)
(* alone is strict: damaged bytes that still read as an envelope would be  *)
(* written as those very bytes, unless its key or size is out of bounds.   *)
(***************************************************************************)
SignedAsWritten(e) ==
    /\ sign(2, e) = {[e EXCEPT !.head[2] = 2] : b \in preimage(e)}
    /\ \A b \in preimage(e) : \A d \in Spoiled(b) : \A x \in Read(d) :
          preimage(x) \in {{d}, {}} /\ (preimage(x) = {} => ~KeyAdmitted(x) \/ Len(d) + 2 > MAX_ENVELOPE)
=============================================================================
