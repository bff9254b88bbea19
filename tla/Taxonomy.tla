------------------------------ MODULE Taxonomy ------------------------------
(***************************************************************************)
(* The pinned TT bundle as cc-filter version.rs reads it, the TT layer the *)
(* node (tt.rs) and the browser verifier (tt.rs) derive from it at read    *)
(* time, and the validator of classification profiles of cc-authoring.     *)
(*                                                                         *)
(* A bundle b is [ids, lens, parent, superseded, bridges]: the last four   *)
(* are functions over the ids that have an entry.  Masses are integers, in *)
(* tenths.  A profile is [lens_a, lens_b, abstain, bundle, extra]; a lens  *)
(* is a function from ids to masses, or NotObject.                         *)
(***************************************************************************)
EXTENDS Integers, Sequences, FiniteSets, FiniteSetsExt, SequencesExt

None == "none"
NotObject == [not |-> "object"]
NotNumber == 99
STEPS == 8                                \* the bound of both walks
MAX_ENTRIES_PER_LENS == 3
ONE == 10                                 \* mass 1.0

is_valid_tt_id(b, id) == id \in b.ids
lens_of(b, id) == IF id \in DOMAIN b.lens THEN b.lens[id] ELSE None
parent_of(b, id) == IF id \in DOMAIN b.parent THEN b.parent[id] ELSE None

(* Follow retirements, at most eight of them. *)
resolve_tt_id(b, id) ==
    LET walk[n \in 0..STEPS] ==
            IF n = 0 THEN id
            ELSE IF walk[n - 1] \in DOMAIN b.superseded THEN b.superseded[walk[n - 1]]
            ELSE walk[n - 1]
    IN  walk[STEPS]

(* Nearest first, at most eight. *)
ancestors_of(b, id) ==
    LET up[n \in 0..STEPS] ==
            IF n = 0 THEN <<>>
            ELSE LET cur == IF up[n - 1] = <<>> THEN id ELSE Last(up[n - 1])
                 IN  IF Len(up[n - 1]) < n - 1 \/ parent_of(b, cur) = None THEN up[n - 1]
                     ELSE Append(up[n - 1], parent_of(b, cur))
    IN  up[STEPS]

is_ancestor_of(b, maybe, id) == maybe = id \/ maybe \in ToSet(ancestors_of(b, id))

(* Not listed, listed as leaving no trace, or the event it shows up as. *)
bridge_of(b, action) ==
    IF action \notin DOMAIN b.bridges THEN [state |-> "unlisted", event |-> None]
    ELSE IF b.bridges[action] = None THEN [state |-> "unrecorded", event |-> None]
    ELSE [state |-> "to", event |-> b.bridges[action]]

-----------------------------------------------------------------------------
(* Read time. *)

shadow_of(b, ct) ==
    IF lens_of(b, ct) \in {"A", None} THEN [applicable |-> FALSE, bridge |-> None]
    ELSE [applicable |-> TRUE, bridge |-> bridge_of(b, ct)]

Single(ct, letter, under) == IF letter = under THEN [x \in {ct} |-> ONE] ELSE <<>>

(* classification_from_claim_type and from_single_type: one entry of mass 1
   in the lens the bundle assigns; none when the type is no node.         *)
classification_from_claim_type(b, ct) ==
    LET letter == lens_of(b, ct) IN
    IF letter = None THEN {}
    ELSE {[lens_a |-> Single(ct, letter, "A"), lens_b |-> Single(ct, letter, "B"),
           abstain |-> "false", bundle |-> "pinned", extra |-> {}]}

(* What the taxonomy says of an edge: nothing when an end has no type in
   the bundle; the ends of a crossing edge are compared with the bridge.   *)
edge_context(b, s, d) ==
    IF None \in {s, d} \/ None \in {lens_of(b, s), lens_of(b, d)} THEN [state |-> "untyped"]
    ELSE LET crossing == lens_of(b, s) # lens_of(b, d)
             action == IF lens_of(b, s) = "B" THEN s ELSE d
             event == IF lens_of(b, s) = "B" THEN d ELSE s
         IN  [state |-> "derived", crossing |-> crossing,
              related |-> crossing /\ bridge_of(b, action) = [state |-> "to", event |-> event],
              with_grain |-> crossing /\ action = s]

(* The verifier's path of a kind: branch first, ending at the kind. *)
kind_path(b, kind) ==
    [valid |-> is_valid_tt_id(b, kind), current |-> resolve_tt_id(b, kind),
     lens |-> lens_of(b, kind),
     path |-> IF is_valid_tt_id(b, kind) THEN Append(Reverse(ancestors_of(b, kind)), kind) ELSE <<>>]

-----------------------------------------------------------------------------
(* classification.rs *)

retired_successor(b, id) ==
    IF resolve_tt_id(b, id) = id \/ id \notin DOMAIN b.superseded THEN None ELSE b.superseded[id]

(* The first of the three that applies to an id under a lens. *)
IdErrors(b, id, letter) ==
    IF lens_of(b, id) = None THEN {"unknown-id"}
    ELSE IF retired_successor(b, id) # None THEN {"retired-id"}
    ELSE IF lens_of(b, id) # letter THEN {"wrong-lens"} ELSE {}

(* A mass that is no number is reported and neither summed nor looked up. *)
LensErrors(b, p, letter) ==
    IF p = NotObject THEN {"lens-not-object"}
    ELSE LET counted == {id \in DOMAIN p : p[id] # NotNumber} IN
         (IF Cardinality(DOMAIN p) > MAX_ENTRIES_PER_LENS THEN {"too-many-entries"} ELSE {})
           \cup (IF counted # DOMAIN p THEN {"mass-not-number"} ELSE {})
           \cup (IF \E id \in counted : p[id] \notin 1..ONE THEN {"mass-out-of-range"} ELSE {})
           \cup UNION {IdErrors(b, id, letter) : id \in counted}
           \cup (IF FoldSet(LAMBDA id, sum : sum + p[id], 0, counted) > ONE
                 THEN {"lens-sum-exceeded"} ELSE {})

Entries(p) == IF p = NotObject THEN 0 ELSE Cardinality(DOMAIN p)

ProfileErrors(b, c) ==
    (IF c.extra # {} THEN {"unknown-key"} ELSE {})
      \cup (IF c.abstain \notin {"true", "false", None} THEN {"abstain-not-bool"} ELSE {})
      \cup (IF c.bundle \notin {"pinned", None} THEN {"bundle-mismatch"} ELSE {})
      \cup LensErrors(b, c.lens_a, "A") \cup LensErrors(b, c.lens_b, "B")
      \cup (IF c.abstain = "true" /\ Entries(c.lens_a) + Entries(c.lens_b) > 0
            THEN {"abstain-with-mass"} ELSE {})

(* The profile with the pinned bundle stamped on it, or every error. *)
validate(b, c) ==
    IF c = NotObject THEN [errors |-> {"not-an-object"}, norm |-> {}]
    ELSE IF ProfileErrors(b, c) # {} THEN [errors |-> ProfileErrors(b, c), norm |-> {}]
    ELSE [errors |-> {}, norm |-> {[c EXCEPT !.bundle = "pinned",
                                             !.abstain = IF @ = "true" THEN @ ELSE "false"]}]

is_abstention(c) == c.abstain = "true" /\ Entries(c.lens_a) = 0 /\ Entries(c.lens_b) = 0

-----------------------------------------------------------------------------
(* The instances the properties are checked on: trees and retirements of
   four ids, cycles included, and one bundle with everything in it.        *)

Four == {"n1", "n2", "n3", "n4"}
Links == UNION {[D -> Four] : D \in SUBSET Four}
Tree(parents) == [ids |-> Four, lens |-> [x \in Four |-> "A"], parent |-> parents,
                  superseded |-> <<>>, bridges |-> <<>>]
Retired(successors) == [Tree(<<>>) EXCEPT !.superseded = successors]

Follows(links, x) ==
    LET ahead[n \in 0..4] ==
            IF n = 0 THEN {x}
            ELSE ahead[n - 1] \cup {links[y] : y \in ahead[n - 1] \cap DOMAIN links}
    IN  {links[y] : y \in ahead[4] \cap DOMAIN links}
Acyclic(links) == \A x \in Four : x \notin Follows(links, x)

(***************************************************************************)
(* The bounded walks of version.rs read any released bundle without        *)
(* cycles exactly: ancestors_of gives every node above an id, nearest      *)
(* first and ending at a branch, and resolve_tt_id ends at the one live    *)
(* successor, from wherever in the chain of retirements it is asked.       *)
(***************************************************************************)
WalksAreExact(links) ==
    Acyclic(links) =>
        \A x \in Four :
            LET up == ancestors_of(Tree(links), x)
                b == Retired(links)
                live == resolve_tt_id(b, x)
            IN  /\ ToSet(up) = Follows(links, x)
                /\ \A i \in 1..(Len(up) - 1) : links[up[i]] = up[i + 1]
                /\ live \notin DOMAIN links /\ live \in Follows(links, x) \cup {x}
                /\ \A y \in Follows(links, x) : resolve_tt_id(b, y) = live

Bundle ==
    [ids |-> {"a", "a1", "a11", "b", "b1", "old", "older"},
     lens |-> [x \in {"a", "a1", "a11", "b", "b1", "old", "older"} |->
                  IF x \in {"b", "b1", "older"} THEN "B" ELSE "A"],
     parent |-> [a1 |-> "a", a11 |-> "a1", b1 |-> "b", old |-> "a"],
     superseded |-> [old |-> "a1", older |-> "old"],
     bridges |-> [b |-> None, b1 |-> "a1"]]
=============================================================================
