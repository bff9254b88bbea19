----------------------------- MODULE Candidate -----------------------------
(***************************************************************************)
(* What may be published: admission of entries and batches (cc-authoring   *)
(* admission.rs), the identity and the coordinate of a claim (cc-authoring *)
(* lib.rs, cc-publisher lib.rs) and the rules of a candidate               *)
(* (validate_candidate).                                                   *)
(*                                                                         *)
(* A title is a sequence of tokens [w, case, script, class].  A script is  *)
(* "latin" (ASCII), "greek" (cased, not ASCII) or "han" (no case).  The    *)
(* class is "word", "stop", "filler", "punct", "paren_year", "comma_year"  *)
(* or "slug".  A field that is absent, or not of the type the code asks    *)
(* for, is None, or {} where the value is kept in a set.                   *)
(***************************************************************************)
EXTENDS Taxonomy

YEAR_MIN == -50000
YEAR_MAX == 2100
YEAR_TOLERANCE == 12
MIN_SUMMARY_CHARS == 20
PROV_MEASURED_FIELDS == {"text_model", "provider", "method", "run", "generated_at"}

If(broken, rule) == IF broken THEN {rule} ELSE {}

-----------------------------------------------------------------------------
(* Titles. *)

is_cased_script(t) == \E i \in DOMAIN t : t[i].script # "han" /\ t[i].class # "punct"

check_title(t) ==
    If(is_cased_script(t) /\ \A i \in DOMAIN t : t[i].case # "upper", "title-not-capitalised")
      \cup If(Last(t).class = "paren_year" \/ \E i \in DOMAIN t : t[i].class = "comma_year",
              "title-year-appended")
      \cup If(Len(t) >= 3 /\ \A i \in (Len(t) - 1)..Len(t) : t[i].class = "slug",
              "title-place-slug")

(* to_ascii_lowercase leaves a letter outside ASCII as it is. *)
AsciiLower(tok) == IF tok.script = "latin" THEN [tok EXCEPT !.case = "lower"] ELSE tok

content_words(t) ==
    {AsciiLower(t[i]) : i \in {i \in DOMAIN t : t[i].class \notin {"stop", "filler", "punct"}}}

(* One title's distinguishing words are among the other's. *)
is_restatement(e, f) ==
    LET we == content_words(e.title)
        wf == content_words(f.title)
    IN  /\ e.year - f.year \in -YEAR_TOLERANCE..YEAR_TOLERANCE
        /\ we # {} /\ wf # {}
        /\ we \subseteq wf \/ wf \subseteq we

SameTitle(t, u) == Len(t) = Len(u) /\ \A i \in DOMAIN t : AsciiLower(t[i]) = AsciiLower(u[i])

(* The key a claim is identified by: everything that is not ASCII
   alphanumeric is a space, and spaces are one.                            *)
claim_identity(e) ==
    LET ascii == SelectSeq(e.title, LAMBDA tok : tok.script = "latin" /\ tok.class # "punct")
    IN  <<[i \in DOMAIN ascii |-> ascii[i].w], e.year>>

-----------------------------------------------------------------------------
(* One entry. *)

YearErrors(e) ==
    CASE e.year_tag = "int" -> If(e.year \notin YEAR_MIN..YEAR_MAX, "year-implausible")
      [] e.year_tag = "other" -> {"year-not-integer"}
      [] e.year_tag = None -> {"year-missing"}

(* Mutant: a retired type is admitted. *)
TypeErrors_Retired(b, e) ==
    IF e.claim_type = None THEN {"claim-type-missing"}
    ELSE IF ~is_valid_tt_id(b, e.claim_type) THEN {"claim-type-invalid"}
    ELSE If(e.lens = None, "lens-missing")
TypeErrors(b, e) ==
    LET live == resolve_tt_id(b, e.claim_type) IN
    IF e.claim_type = None THEN {"claim-type-missing"}
    ELSE IF ~is_valid_tt_id(b, e.claim_type) THEN {"claim-type-invalid"}
    ELSE If(live # e.claim_type, "claim-type-retired")
           \cup If(e.lens = None, "lens-missing")
           \cup If(e.lens # None /\ lens_of(b, live) \notin {None, e.lens}, "lens-mismatch")

Carries(c, id) == \E p \in {c.lens_a, c.lens_b} : p # NotObject /\ id \in DOMAIN p

(* A derived profile is a copy of the claim type; one that was read
   independently may disagree with it, and an abstention says nothing.     *)
ClassificationErrors(b, e) ==
    LET read == {validate(b, c) : c \in e.classification} IN
    If(\E r \in read : r.errors # {}, "classification-invalid")
      \cup If(/\ e.source # "independent" /\ e.claim_type # None
              /\ \E c \in UNION {r.norm : r \in read} :
                    ~is_abstention(c) /\ ~Carries(c, e.claim_type),
              "derived-classification-disagrees-with-claim-type")

(* The first rule an alternative breaks, those before it being given. *)
AlternativeError(b, chosen, a, seen) ==
    IF ~is_valid_tt_id(b, a) \/ a = chosen THEN "claim-type-alternative-invalid"
    ELSE IF is_ancestor_of(b, a, chosen) THEN "claim-type-alternative-is-ancestor"
    ELSE IF is_ancestor_of(b, chosen, a) THEN "claim-type-alternative-is-descendant"
    ELSE IF a \in seen THEN "claim-type-alternative-invalid"
    ELSE None

Alternatives(b, e) ==
    FoldLeft(LAMBDA acc, a :
               LET err == AlternativeError(b, e.claim_type, a, acc.seen)
               IN  IF err = None THEN [acc EXCEPT !.seen = @ \cup {a}]
                   ELSE [acc EXCEPT !.errors = @ \cup {err}],
             [seen |-> {}, errors |-> {}], e.alternatives)

(* The flag is derived from the bundle and checked, never trusted. *)
AlternativeErrors(b, e) ==
    LET alts == Alternatives(b, e)
        crosses == \E a \in alts.seen : lens_of(b, a) \notin {None, lens_of(b, e.claim_type)}
    IN  CASE e.alternatives_tag = None -> If(e.cross = "true", "alternatives-cross-lens-mismatch")
          [] e.alternatives_tag = "other" -> {"claim-type-alternative-invalid"}
          [] e.alternatives_tag = "array" ->
                alts.errors \cup If(e.cross \notin {None, IF crosses THEN "true" ELSE "false"},
                                    "alternatives-cross-lens-mismatch")

(* The rest of the shape, field by field. *)
ShapeErrors(e) ==
    If(e.unknown_fields # {}, "field-unknown")
      \cup If(e.date_is_known # "true", "date-not-known")
      \cup If(e.tt_release = None, "tt-release-missing")
      \cup If(e.tt_bundle # "pinned", "tt-bundle-mismatch")
      \cup If(e.summary_chars < MIN_SUMMARY_CHARS, "summary-too-short")
      \cup If(e.temporal_kind \notin {"event", "process"}, "temporal-kind-invalid")
      \cup If(e.observed_count < 1, "observed-count-invalid")
      \cup If(~(PROV_MEASURED_FIELDS \subseteq e.prov_measured), "prov-measured-incomplete")
      \cup If(e.historical_claim = None, "prov-asserted-incomplete")

TitleErrors(e) == IF e.title = <<>> THEN {"title-missing"} ELSE check_title(e.title)

admit(b, e) ==
    ShapeErrors(e) \cup TitleErrors(e) \cup YearErrors(e) \cup TypeErrors(b, e)
      \cup ClassificationErrors(b, e) \cup AlternativeErrors(b, e)

-----------------------------------------------------------------------------
(* A batch: the rules that compare entries look only at those with a title
   and a year.                                                             *)

Keyed(es) == {i \in DOMAIN es : es[i].title # <<>> /\ es[i].year_tag = "int"}

PairError(e, f) ==
    IF SameTitle(e.title, f.title) /\ e.year = f.year THEN {"duplicate-identity"}
    ELSE If(is_restatement(e, f), "restatement-unresolved")

admit_batch(b, es) ==
    UNION {{<<i, r>> : r \in admit(b, es[i])} : i \in DOMAIN es}
      \cup UNION {{<<p[2], r>> : r \in PairError(es[p[1]], es[p[2]])} :
                    p \in {p \in Keyed(es) \X Keyed(es) : p[1] < p[2]}}

-----------------------------------------------------------------------------
(* Coordinates, in days since 1970-01-01. *)

Truncated(a, n) == IF a >= 0 THEN a \div n ELSE -((-a) \div n)      \* Rust's division

Era(y) == Truncated(IF y >= 0 THEN y ELSE y - 399, 400)

year_tick(year) ==
    LET y == year - 1                     \* January belongs to the year before
        yoe == y - Era(y) * 400
        doy == (153 * 10 + 2) \div 5
    IN  Era(y) * 146097 + (yoe * 365 + (yoe \div 4) - (yoe \div 100) + doy) - 719468

Leap(y) == y % 4 = 0 /\ (y % 100 # 0 \/ y % 400 = 0)
MonthDays(y) == <<31, IF Leap(y) THEN 29 ELSE 28, 31, 30, 31, 30, 31, 31, 30, 31, 30, 31>>
Sum(s) == FoldLeft(LAMBDA a, x : a + x, 0, s)

(* A day is given only with day precision, for a year of the common era
   that is the entry's own; an entry without one starts its year.          *)
DateAdmitted(e) ==
    IF e.date = {} THEN e.precision \in {None, "year"}
    ELSE /\ e.precision = "day"
         /\ \A d \in e.date : /\ d.y = e.year /\ d.y \in 1..2100 /\ d.m \in 1..12
                              /\ d.d \in 1..MonthDays(d.y)[d.m]

entry_coordinate(e) ==
    IF e.date = {} THEN year_tick(e.year)
    ELSE LET d == CHOOSE d \in e.date : TRUE
         IN  year_tick(e.year) + Sum(SubSeq(MonthDays(d.y), 1, d.m - 1)) + d.d - 1

-----------------------------------------------------------------------------
(* A candidate [entries, edges, images, extra].  An edge names its ends by
   title and year.                                                         *)

(* Every row is captured, hashed and excerpted; together they support what
   is required.                                                            *)
source_profile(rows, required) ==
    /\ rows # {} /\ \A r \in rows : r.https /\ r.complete /\ r.hash_matches /\ r.excerpt_found
    /\ required \subseteq UNION {r.supports : r \in rows}

source_support(e) ==
    /\ e.support.schema /\ e.support.kind \in {"observed", "attributed_announcement"}
    /\ e.support.explained
    /\ e.support.urls # {} /\ e.support.urls \subseteq {r.url : r \in e.sources}

EntrySourced(e) ==
    /\ e.source_schema
    /\ source_profile(e.sources, {"title", "year", "summary"})
    /\ source_support(e) /\ DateAdmitted(e)
    /\ e.date # {} => source_profile(e.sources, {"date"})

Directed(ed) == ed.relation \in {"causation", "influence"}

(* The last entry with an identity gives it its coordinate. *)
Coordinate(es, id) ==
    LET last == Max({i \in DOMAIN es : claim_identity(es[i]) = id}) IN entry_coordinate(es[last])

EdgeAdmitted(es, ed) ==
    LET src == claim_identity(ed.from)
        dst == claim_identity(ed.to)
        ids == {claim_identity(es[i]) : i \in DOMAIN es}
    IN  /\ ed.rationale /\ ed.class # None
        /\ ed.relation \in {"causation", "influence", "participation", "co_occurrence"}
        /\ Directed(ed) => ed.from.year <= ed.to.year
        /\ src # dst /\ {src, dst} \subseteq ids
        /\ Directed(ed) => Coordinate(es, src) <= Coordinate(es, dst)
        /\ source_profile(ed.evidence, {"relation"})

ImageAdmitted(es, im) == im.hash_wide /\ im.manifest_matches /\ im.entry_index < Len(es)

validate_candidate(b, c) ==
    /\ c.extra = {} /\ Len(c.entries) \in 1..5
    /\ admit_batch(b, c.entries) = {}
    /\ \A i \in DOMAIN c.entries : EntrySourced(c.entries[i])
    /\ \A ed \in c.edges : EdgeAdmitted(c.entries, ed)
    /\ \A im \in c.images : ImageAdmitted(c.entries, im)

-----------------------------------------------------------------------------
(* The instances the properties are checked on. *)

Token(w, case, script, class) == [w |-> w, case |-> case, script |-> script, class |-> class]
Word(w) == Token(w, "upper", "latin", "word")
Small(w, class) == Token(w, "lower", "latin", class)
Han(w) == Token(w, "none", "han", "word")

Titles == {<<Word("Arab"), Small("of", "stop"), Word("Egypt")>>,
           <<Word("Arab"), Word("Ctesiphon")>>, <<Small("arab", "word"), Word("Egypt")>>,
           <<Word("Arab")>>, <<Token("founding", "upper", "latin", "filler")>>,
           <<Token("founding", "upper", "latin", "filler"), Token("!", "none", "latin", "punct")>>,
           <<Han("jing")>>, <<Han("dong")>>, <<Token("athina", "upper", "greek", "word")>>,
           <<Small("slug", "slug")>>,
           <<Word("Egypt"), Small("nile", "slug"), Small("africa", "slug")>>,
           <<Word("Arab"), Small("(12)", "paren_year")>>, <<Word("Arab"), Small(", -12", "comma_year")>>}

Source == [https |-> TRUE, complete |-> TRUE, hash_matches |-> TRUE, excerpt_found |-> TRUE,
           url |-> "u", supports |-> {"title", "year", "summary", "relation", "date"}]
Entry ==
    [unknown_fields |-> {}, title |-> <<Word("Arab")>>, year_tag |-> "int", year |-> 640,
     date_is_known |-> "true", claim_type |-> "a1", lens |-> "A", classification |-> {},
     source |-> None, alternatives_tag |-> None, alternatives |-> <<>>, cross |-> None,
     tt_release |-> "2.1.0", tt_bundle |-> "pinned", summary_chars |-> 20, temporal_kind |-> "event",
     observed_count |-> 1, prov_measured |-> PROV_MEASURED_FIELDS, historical_claim |-> "c",
     source_schema |-> TRUE, sources |-> {Source}, date |-> {}, precision |-> None,
     support |-> [schema |-> TRUE, kind |-> "observed", explained |-> TRUE, urls |-> {"u"}]]

Profile(a, b) == [lens_a |-> a, lens_b |-> b, abstain |-> None, bundle |-> None, extra |-> {}]
Profiles ==
    {Profile([x \in S |-> m], [x \in T |-> 5]) : S \in SUBSET {"a", "a1", "old"}, m \in {0, 4, 10},
                                                T \in SUBSET {"b1", "older"}}
      \cup {[Profile(<<>>, <<>>) EXCEPT !.abstain = "true"],
             [Profile([a1 |-> 10], <<>>) EXCEPT !.abstain = "true"],
             [Profile([a1 |-> 10], <<>>) EXCEPT !.abstain = "maybe"],
             [Profile([a1 |-> 10], <<>>) EXCEPT !.bundle = "other"],
             [Profile([a1 |-> 10], <<>>) EXCEPT !.extra = {"x"}],
             Profile([zz |-> 10], <<>>), Profile([b1 |-> 10], <<>>), Profile([a1 |-> NotNumber], <<>>),
             Profile(NotObject, <<>>), NotObject}

Types == Bundle.ids \cup {"zz", None}
Typed ==
    {[Entry EXCEPT !.claim_type = ct, !.lens = l, !.classification = c, !.source = s] :
        ct \in Types, l \in {"A", "B", None}, c \in {{}} \cup {{p} : p \in Profiles},
        s \in {None, "independent"}}
Rivals ==
    {[Entry EXCEPT !.claim_type = ct, !.lens = IF ct = "b1" THEN "B" ELSE "A", !.cross = x,
                   !.alternatives_tag = tag, !.alternatives = alts] :
        ct \in {"a1", "b1", "a"}, x \in {None, "true", "false"}, tag \in {"array", "other", None},
        alts \in UNION {[1..n -> Bundle.ids \cup {"zz"}] : n \in 0..2}}
Shapes ==
    {[Entry EXCEPT !.title = t] : t \in Titles \cup {<<>>}}
      \cup {[Entry EXCEPT !.year_tag = "other"], [Entry EXCEPT !.year_tag = None],
             [Entry EXCEPT !.year = 2101], [Entry EXCEPT !.date_is_known = "false"],
             [Entry EXCEPT !.tt_release = None], [Entry EXCEPT !.tt_bundle = "other"],
             [Entry EXCEPT !.summary_chars = 19], [Entry EXCEPT !.temporal_kind = None],
             [Entry EXCEPT !.observed_count = 0], [Entry EXCEPT !.prov_measured = {}],
             [Entry EXCEPT !.historical_claim = None], [Entry EXCEPT !.unknown_fields = {"x"}]}

(* What the gate asks of the alternatives of an entry: distinct ids of the *)
(* bundle, none coarser or finer than the chosen type.                     *)
Competing(e) ==
    /\ IsInjective(e.alternatives)
    /\ \A a \in ToSet(e.alternatives) :
          /\ is_valid_tt_id(Bundle, a)
          /\ ~is_ancestor_of(Bundle, a, e.claim_type) /\ ~is_ancestor_of(Bundle, e.claim_type, a)

(***************************************************************************)
(* What the gate admits, the read side can show: the profile the node      *)
(* projects for an admitted entry, stored or derived from the claim type,  *)
(* is one the TT validator accepts as it stands; its type is live and on a *)
(* path from a branch; and its alternatives compete with it and can be     *)
(* named by an edge context.                                               *)
(*                                                                         *)
(* Alternatives are admitted exactly when they compete, and this is weaker *)
(* than what is asked of the type: a retired alternative is admitted, even *)
(* one retired in favour of the chosen type ("old" beside "a1"), although  *)
(* admission.rs:421 says "Held to the same standard as the chosen one".    *)
(***************************************************************************)
ShownAsAdmitted(e) ==
    admit(Bundle, e) = {} =>
        LET stored == UNION {validate(Bundle, c).norm : c \in e.classification}
            shown == IF e.classification = {} THEN classification_from_claim_type(Bundle, e.claim_type)
                     ELSE stored
            kind == kind_path(Bundle, e.claim_type)
        IN  /\ shown # {}
            /\ \A c \in shown : validate(Bundle, c) = [errors |-> {}, norm |-> {c}]
            /\ kind.current = e.claim_type /\ kind.lens = e.lens
            /\ kind.path[1] \notin DOMAIN Bundle.parent /\ Last(kind.path) = e.claim_type
            /\ shadow_of(Bundle, e.claim_type).applicable <=> e.lens = "B"
            /\ e.alternatives_tag = "array" =>
                  \A a \in ToSet(e.alternatives) : edge_context(Bundle, e.claim_type, a).state = "derived"
AdmittedAsCompeting(e) ==
    e \in Rivals /\ e.alternatives_tag = "array" /\ e.cross = None =>
        (admit(Bundle, e) = {} <=> Competing(e))

Years == (-50000..-49990) \cup (-5205..-4395) \cup (-805..-395) \cup (-5..5) \cup (1895..1905)
           \cup (1968..2004) \cup (2095..2101)
Dated(y, m, d) == [Entry EXCEPT !.year = y, !.precision = "day",
                                !.date = {[y |-> y, m |-> m, d |-> d]}]
Days(y) == {Dated(y, m, d) : m \in 1..13, d \in {0, 1, 28, 29, 30, 31, 32}}

(***************************************************************************)
(* The coordinate of a year is exact, before the common era and across     *)
(* centuries too: consecutive years are 365 or 366 days apart, 1970 begins *)
(* at zero, and the days a date may name fall in their year, in order.     *)
(***************************************************************************)
CalendarIsExact(y) ==
    /\ year_tick(1970) = 0 /\ year_tick(2000) = 10957
    /\ year_tick(y + 1) - year_tick(y) = IF Leap(y) THEN 366 ELSE 365
    /\ LET days == {e \in Days(y) : DateAdmitted(e)}
           at(e) == CHOOSE d \in e.date : TRUE
       IN  /\ \A e \in days : entry_coordinate(e) \in year_tick(y)..(year_tick(y + 1) - 1)
           /\ \A e, f \in days :
                 (at(e).m < at(f).m \/ (at(e).m = at(f).m /\ at(e).d < at(f).d))
                    => entry_coordinate(e) < entry_coordinate(f)

Batches == {<<[Entry EXCEPT !.title = t], [Entry EXCEPT !.title = u, !.year = y]>> :
              t, u \in Titles, y \in {640, 652, 653}}
Joined(es) ==
    [entries |-> es, extra |-> {}, images |-> {[hash_wide |-> TRUE, manifest_matches |-> TRUE,
                                                entry_index |-> 1]},
     edges |-> IF claim_identity(es[1]) = claim_identity(es[2]) THEN {}
               ELSE {[from |-> es[1], to |-> es[2], rationale |-> TRUE, class |-> "Inference",
                      relation |-> "causation", evidence |-> {Source}]}]

(***************************************************************************)
(* "One identity, two rows" is refused (duplicate-identity, admission.rs): *)
(* the entries of a candidate that passes all rules have distinct          *)
(* identities, under which they are then published.                        *)
(***************************************************************************)
OneRowPerIdentity(es) ==
    validate_candidate(Bundle, Joined(es)) => claim_identity(es[1]) # claim_identity(es[2])
=============================================================================
