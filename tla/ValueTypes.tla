----------------------------- MODULE ValueTypes -----------------------------
(***************************************************************************)
(* value.rs: which texts and which JSON values a declared type accepts.    *)
(* What a text reads as is the standard library's: IntOf and FloatOf give  *)
(* the number of the texts `parse` accepts, in units fine enough for the   *)
(* bounds that occur, and "NaN" is a float that is not a number.           *)
(***************************************************************************)
EXTENDS Integers, Sequences

CONSTANTS
  TypeOf,    \* name of a type -> TypeExpr
  IntOf,     \* text -> i64, of the texts that are one
  FloatOf,   \* text -> f64, of the texts that are one
  UuidTexts, \* texts Uuid::parse_str accepts
  RegexFits, \* pairs <<pattern, text>> that match from end to end
  JsonOf,    \* name of a JSON scalar -> its kind and value
  Shown      \* what an f64 is written as, a text that reads back as it

Kinds == {"int", "float", "boolean", "uuid", "intrange", "floatrange", "union", "regex",
          "string", "json", "binary"}

IsNaN(x) == x = [nan |-> TRUE]
Number(n) == [nan |-> FALSE, n |-> n]

\* f64's `<`: false where either side is not a number.
Below(x, y) == ~IsNaN(x) /\ ~IsNaN(y) /\ x.n < y.n

\* Mutant: only the lower bound is looked at.
FloatInLow(x, ty) == ~Below(x, Number(ty.min))

\* value.rs:53: refused if below or above.
FloatIn(x, ty) == ~(Below(x, Number(ty.min)) \/ Below(Number(ty.max), x))

\* validate_text
ValidateText(v, ty) ==
  CASE ty.kind = "int"        -> v \in DOMAIN IntOf
    [] ty.kind = "float"      -> v \in DOMAIN FloatOf
    [] ty.kind = "boolean"    -> v \in {<<"true">>, <<"false">>}
    [] ty.kind = "uuid"       -> v \in UuidTexts
    [] ty.kind = "intrange"   -> v \in DOMAIN IntOf /\ ~(IntOf[v] < ty.min \/ IntOf[v] > ty.max)
    [] ty.kind = "floatrange" -> v \in DOMAIN FloatOf /\ FloatIn(FloatOf[v], ty)
    [] ty.kind = "union"      -> v \in ty.variants
    [] ty.kind = "regex"      -> <<ty.pattern, v>> \in RegexFits
    [] ty.kind \in {"string", "json", "binary"} -> TRUE

\* as_i64, as_f64: a number written with a point or an exponent is no i64, nor is one
\* beyond its range; every number is an f64, and none is NaN.
AsInt(j) == j.kind = "integer" /\ j.fits
AsFloat(j) == j.kind \in {"integer", "real"}

\* validate_json_value, of a scalar
ValidateJson(j, ty) ==
  CASE ty.kind = "int"        -> AsInt(j)
    [] ty.kind = "float"      -> AsFloat(j)
    [] ty.kind = "boolean"    -> j.kind = "boolean"
    [] ty.kind = "intrange"   -> AsInt(j) /\ ValidateText(j.text, ty)
    [] ty.kind = "floatrange" -> AsFloat(j) /\ ValidateText(Shown[j.value], ty)
    [] ty.kind \in {"uuid", "union", "regex"} -> j.kind = "string" /\ ValidateText(j.text, ty)
    [] ty.kind \in {"string", "json"} -> TRUE
    [] ty.kind = "binary"     -> FALSE

\* A range has bounds, a number read from a text is one or NaN, and no JSON number is NaN
\* (i64, f64 of the standard library; serde_json).
ASSUME TypesAssumption ==
  /\ \A t \in DOMAIN TypeOf :
       /\ TypeOf[t].kind \in Kinds
       /\ TypeOf[t].kind \in {"intrange", "floatrange"} => TypeOf[t].min \in Int /\ TypeOf[t].max \in Int
  /\ \A v \in DOMAIN IntOf : IntOf[v] \in Int
  /\ \A v \in DOMAIN FloatOf :
       IsNaN(FloatOf[v]) \/ (FloatOf[v] = Number(FloatOf[v].n) /\ FloatOf[v].n \in Int)
  /\ \A x \in DOMAIN Shown : FloatOf[Shown[x]] = x
  /\ \A j \in DOMAIN JsonOf :
       AsFloat(JsonOf[j]) => ~IsNaN(JsonOf[j].value) /\ JsonOf[j].value \in DOMAIN Shown

\* The pairs RequestGate is given, over the texts a run uses.
FitsOver(texts) ==
  {p \in texts \X (DOMAIN TypeOf) : ValidateText(p[1], TypeOf[p[2]])}
FitsJsonAll ==
  {p \in (DOMAIN JsonOf) \X (DOMAIN TypeOf) : ValidateJson(JsonOf[p[1]], TypeOf[p[2]])}
=============================================================================
