---------------------------- MODULE AccessFilter ----------------------------
(***************************************************************************)
(* Which requests an access logger writes, and what of them: the filters,  *)
(* the mode of each field with the shortcuts taken when no key has a mode  *)
(* of its own, and the formats.  A map is a function from keys to          *)
(* sequences of values, cookies are a sequence of <<key, value>>.          *)
(***************************************************************************)
EXTENDS Integers, Sequences, SequencesExt, FiniteSets

CONSTANTS FieldKeys,     \* keys of headers, query and cookies
          FieldValues,   \* values: whatever a client sent
          MaxCookies     \* bound: cookies of a request

ASSUME AccessFilterAssumption == MaxCookies \in Nat

FieldModes == {"keep", "drop", "redact"}
RedactedValue == "REDACTED"

(* Some keys have a mode of their own, the rest the default one.           *)
FieldConfigs == [default : FieldModes, config : UNION {[K -> FieldModes] : K \in SUBSET FieldKeys}]

VARIABLE af

AccessFilterInit == af = [pc |-> "idle"]

-----------------------------------------------------------------------------
(* CheckKeep of a filter: a value of its list that is fulfilled decides;   *)
(* an empty list keeps all, or nothing if it is negative.                  *)
CheckKeep(filter, fulfilled) ==
  IF filter.values = {} \/ fulfilled # {}
    THEN ~filter.negative ELSE filter.negative

Includes(range, code) == range[1] <= code /\ code <= range[2]

(* HTTPHeader: present, or present with the wanted value among its values. *)
HeaderFulfills(h, headers) ==
  /\ h.key \in DOMAIN headers
  /\ h.value = "" \/ h.value \in ToSet(headers[h.key])

ShouldLogRequest(f, req) ==
  /\ CheckKeep(f.status, {r \in f.status.values : Includes(r, req.status)})
  /\ CheckKeep(f.method, f.method.values \cap {req.method})
  /\ CheckKeep(f.headers, {h \in f.headers.values : HeaderFulfills(h, req.headers)})
  /\ CheckKeep(f.cidr, {net \in f.cidr.values : req.ip \in net})

-----------------------------------------------------------------------------
ModeOf(cfg, k) == IF k \in DOMAIN cfg.config THEN cfg.config[k] ELSE cfg.default

(* The general iteration: each key with the mode that applies to it.       *)
IterWithConfig(cfg, m) ==
  [k \in {x \in DOMAIN m : ModeOf(cfg, x) # "drop"} |->
     IF ModeOf(cfg, k) = "keep" THEN m[k] ELSE <<RedactedValue>>]

(* Mutant: the default alone decides.                                      *)
MapIterMutant(cfg, m) == IF cfg.default = "keep" THEN m ELSE IterWithConfig(cfg, m)

(* mapIter: shortcuts when there is only a default.                        *)
MapIter(cfg, m) ==
  IF DOMAIN cfg.config = {}
    THEN CASE cfg.default = "keep"   -> m
           [] cfg.default = "drop"   -> [k \in {} |-> << >>]
           [] cfg.default = "redact" -> [k \in DOMAIN m |-> <<RedactedValue>>]
    ELSE IterWithConfig(cfg, m)

(* iterSlice, for cookies: what the loop writes for one of them.           *)
Cookies == FieldKeys \X FieldValues
Written(cfg, c) ==
  CASE ModeOf(cfg, c[1]) = "keep"   -> <<c>>
    [] ModeOf(cfg, c[1]) = "redact" -> << <<c[1], RedactedValue>> >>
    [] OTHER -> << >>

FlatMap(M, s) == FoldLeft(LAMBDA out, c : out \o M[c], << >>, s)

IterSlice(cfg, cookies) ==
  IF cookies = << >> \/ (DOMAIN cfg.config = {} /\ cfg.default = "drop") THEN << >>
  ELSE FlatMap([c \in Cookies |-> Written(cfg, c)], cookies)

(* The formats differ in the fields they write: common and combined have   *)
(* the query in the URI, the console too, JSON has all three.              *)
Formatted(format, fields, req) ==
  [query   |-> MapIter(fields.query, req.query),
   headers |-> IF format = "json" THEN MapIter(fields.headers, req.headers) ELSE << >>,
   cookies |-> IF format = "json" THEN IterSlice(fields.cookies, req.cookies) ELSE << >>]

Maps == UNION {[K -> {<< >>} \union {<<v>> : v \in FieldValues}] : K \in SUBSET FieldKeys}

Ranges  == {<<200, 299>>, <<404, 404>>}
NoFilter == [negative |-> FALSE, values |-> {}]

(* LogRequest: the filters, then the formatter.  The filters and the       *)
(* fields have nothing to do with each other: either varies by itself.     *)
LogFiltered ==
  /\ af.pc = "idle"
  /\ \E neg \in BOOLEAN, codes \in SUBSET Ranges, hs \in SUBSET [key : FieldKeys, value : {""} \union FieldValues],
        headers \in Maps, status \in {200, 404, 500}, inNet \in BOOLEAN :
       LET req == [status |-> status, method |-> "GET", headers |-> headers,
                   ip |-> IF inNet THEN "in" ELSE "out"]
           f == [status |-> [negative |-> neg, values |-> codes], method |-> NoFilter,
                 headers |-> [negative |-> neg, values |-> hs],
                 cidr |-> [negative |-> ~neg, values |-> {{"in"}}]] IN
       af' = [pc |-> "filtered", f |-> f, req |-> req, logged |-> ShouldLogRequest(f, req)]

LogFormatted ==
  /\ af.pc = "idle"
  /\ \E format \in {"common", "json"}, cfg \in FieldConfigs, m \in Maps,
        cookies \in UNION {[1..n -> Cookies] : n \in 0..MaxCookies} :
       LET req == [query |-> m, headers |-> m, cookies |-> cookies] IN
       af' = [pc |-> "formatted", format |-> format, cfg |-> cfg, req |-> req,
              line |-> Formatted(format, [query |-> cfg, headers |-> cfg, cookies |-> cfg], req)]

AccessFilterNext == LogFiltered \/ LogFormatted

AccessFilterSpec == AccessFilterInit /\ [][AccessFilterNext]_af

-----------------------------------------------------------------------------
(* The cookies of a key, as sent or as written.                            *)
OfKey(k, cookies) ==
  FlatMap([c \in FieldKeys \X (FieldValues \union {RedactedValue}) |-> IF c[1] = k THEN <<c>> ELSE << >>], cookies)

(* What a client sent under a key appears in a line only if the mode of    *)
(* that key is keep, and then completely, whichever shortcut is taken and  *)
(* whichever format is used; a redacted key still shows that it was there. *)
FieldsRespected ==
  af.pc = "formatted" =>
    \A k \in FieldKeys :
      LET mode == ModeOf(af.cfg, k)
          sent == k \in DOMAIN af.req.query IN
      /\ (k \in DOMAIN af.line.query) <=> (sent /\ mode # "drop")
      /\ sent /\ mode = "keep" => af.line.query[k] = af.req.query[k]
      /\ sent /\ mode = "redact" => ToSet(af.line.query[k]) = {RedactedValue}
      /\ af.format = "json" =>
           /\ af.line.headers = af.line.query
           /\ LET shown == OfKey(k, af.line.cookies)
                  given == OfKey(k, af.req.cookies) IN
              /\ Len(shown) = IF mode = "drop" THEN 0 ELSE Len(given)
              /\ mode = "keep" => shown = given
              /\ mode = "redact" => \A i \in 1..Len(shown) : shown[i][2] = RedactedValue

(* A positive and a negative filter with the same values are complements,  *)
(* and one more value only ever adds to what a positive list keeps.        *)
FiltersComplement ==
  af.pc = "filtered" =>
    LET flip(g) == [g EXCEPT !.negative = ~@]
        keep(g) == CheckKeep(g, {h \in g.values : HeaderFulfills(h, af.req.headers)})
        pos == [af.f.headers EXCEPT !.negative = FALSE] IN
    /\ keep(af.f.headers) # keep(flip(af.f.headers))
    /\ \A h \in [key : FieldKeys, value : {""}] :
         keep(pos) /\ pos.values # {} => keep([pos EXCEPT !.values = @ \union {h}])
    /\ af.logged => (af.req.ip = "in") # af.f.cidr.negative

(* A line is written for the requests the filters ask for, and shows of    *)
(* them what the fields allow (ShouldLogRequest and the formatters).       *)
LinesSound == FieldsRespected /\ FiltersComplement
=============================================================================
