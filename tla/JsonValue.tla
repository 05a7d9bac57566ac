----------------------------- MODULE JsonValue -----------------------------
(***************************************************************************)
(* The values of nlohmann::basic_json and the operations LegacyLib uses    *)
(* on them.  A value is a pair <<type, contents>>; a string is a sequence  *)
(* of octets 0..255, an array a sequence of values, an object a function   *)
(* from strings to values.  An operation that throws returns               *)
(* <<"throws", id>> with the number of the exception.                      *)
(*                                                                         *)
(* A float has the fields of an IEEE number, sign, exponent E and fraction *)
(* F, of a format small enough to go through: HiddenBit, kBias and the E   *)
(* of the infinities are constants.  Its integers reach past UIntMax, as   *)
(* those of a double do, and are not all exact, as those of a double are   *)
(* not.                                                                    *)
(***************************************************************************)
EXTENDS Integers, Sequences, SequencesExt, FiniteSets

CONSTANTS UIntMax,     \* the largest number_unsigned_t, 2^64 - 1 in the code
          HiddenBit,   \* 2^(p - 1), p the bits of a significand: 2^52 for a double
          InfinityE,   \* the exponent field of the infinities and NaN: 2047
          kBias        \* a float is F + HiddenBit times 2^(E - kBias): 1075

ASSUME ValueAssumption ==
  /\ UIntMax \in Nat /\ UIntMax % 2 = 1
  /\ HiddenBit \in Nat \ {0} /\ InfinityE \in Nat /\ kBias \in Nat
  /\ 2^kBias > 2 * HiddenBit
  /\ HiddenBit * 2^(InfinityE - 1 - kBias) > UIntMax

-----------------------------------------------------------------------------
(* value_t and the constructors.                                           *)

ValueTypes == {"null", "object", "array", "string", "boolean", "number_integer",
               "number_unsigned", "number_float", "binary"}

Null == <<"null">>
Boolean(b) == <<"boolean", b>>
Unsigned(n) == <<"number_unsigned", n>>
Integer(n) == <<"number_integer", n>>
String(s) == <<"string", s>>
Binary(s) == <<"binary", s>>
Array(s) == <<"array", s>>
Object(f) == <<"object", f>>

Throws(id) == <<"throws", id>>

(* The constructor from an initializer list: of arrays of two whose first  *)
(* is a string it makes an object, in which the first of equal keys stays; *)
(* of anything else an array.                                              *)
IsPair(v) == v[1] = "array" /\ Len(v[2]) = 2 /\ v[2][1][1] = "string"
FromList(list) ==
  IF \A i \in DOMAIN list : IsPair(list[i])
  THEN Object(FoldRight(LAMBDA pair, f : (pair[2][1][2] :> pair[2][2]) @@ f, list, <<>>))
  ELSE Array(list)

(* A member type of value_t, or an exception.                              *)
Type(v) == v[1]
Threw(v) == Type(v) = "throws"
IsNumber(v) == Type(v) \in {"number_integer", "number_unsigned", "number_float"}

-----------------------------------------------------------------------------
(* Floats.                                                                 *)

IntMax == UIntMax \div 2

(* The number of n's binary digits.                                        *)
BitLength(n) == CHOOSE b \in 0..30 : n < 2^b /\ (b = 0 \/ n >= 2^(b - 1))

Infinity(neg) == [neg |-> neg, E |-> InfinityE, F |-> 0]
NaN == [neg |-> FALSE, E |-> InfinityE, F |-> 1]
ZeroDouble(neg) == [neg |-> neg, E |-> 0, F |-> 0]

IsNaN(f) == f.E = InfinityE /\ f.F # 0
Finite(f) == f.E < InfinityE
IsZero(f) == f.E = 0 /\ f.F = 0

(* f is Significand(f) * 2^BinaryExponent(f), by its sign.                 *)
Significand(f) == IF f.E = 0 THEN f.F ELSE f.F + HiddenBit
BinaryExponent(f) == IF f.E = 0 THEN 1 - kBias ELSE f.E - kBias

(* The float nearest to x * 2^u, ties to the even significand; "more" says *)
(* that a little more than x is meant.                                     *)
Nearest(neg, x, more, u) ==
  LET e == Max({u + BitLength(x) - BitLength(HiddenBit), 1 - kBias})
      unit == 2^(e - u)
      rest == x % unit
      up == 2 * rest > unit \/ (2 * rest = unit /\ (more \/ (x \div unit) % 2 = 1))
      s == (x \div unit) + (IF up THEN 1 ELSE 0)
  IN CASE s < HiddenBit -> [neg |-> neg, E |-> 0, F |-> s]
       [] s >= HiddenBit /\ s < 2 * HiddenBit ->
            IF e + kBias >= InfinityE THEN Infinity(neg)
            ELSE [neg |-> neg, E |-> e + kBias, F |-> s - HiddenBit]
       [] OTHER ->
            IF e + kBias + 1 >= InfinityE THEN Infinity(neg)
            ELSE [neg |-> neg, E |-> e + kBias + 1, F |-> 0]

(* n / d in units of 2^-kBias, half the smallest float, when n / d is      *)
(* small, and in units of 1 when it is not.                                *)
Doubled(x, d) ==
  [q |-> 2 * x.q + (IF 2 * x.r >= d THEN 1 ELSE 0),
   r |-> 2 * x.r - (IF 2 * x.r >= d THEN d ELSE 0)]
NearestQuotient(neg, n, d, more) ==
  LET whole == [q |-> n \div d, r |-> n % d]
      scaled == FoldLeft(LAMBDA x, i : Doubled(x, d), whole, [i \in 1..kBias |-> i])
  IN IF whole.q >= 2^kBias THEN Nearest(neg, whole.q, more \/ whole.r > 0, 0)
     ELSE Nearest(neg, scaled.q, more \/ scaled.r > 0, -kBias)

(* strtod: the float nearest to m * 10^e, m of at most 8 digits; powers of *)
(* ten past 8 are dropped to stay within TLC's integers.                   *)
Double(neg, m, e) ==
  CASE m = 0 \/ e < -12 -> ZeroDouble(neg)
    [] m # 0 /\ e > 8 -> Infinity(neg)
    [] m # 0 /\ e \in 0..8 ->
         IF m > (2 * HiddenBit * 2^(InfinityE - 1 - kBias)) \div 10^e THEN Infinity(neg)
         ELSE NearestQuotient(neg, m * 10^e, 1, FALSE)
    [] m # 0 /\ e \in -8..-1 -> NearestQuotient(neg, m, 10^(-e), FALSE)
    [] OTHER -> NearestQuotient(neg, m \div 10^(-8 - e), 10^8, m % 10^(-8 - e) # 0)

Float(f) == <<"number_float", f>>
FloatOf(neg, m, e) == Float(Double(neg, m, e))

(* static_cast<number_float_t> of an integer, and the truncation back.     *)
AsDouble(n) == Double(n < 0, IF n < 0 THEN -n ELSE n, 0)
(* A float that no integer holds has no truncation (undefined behaviour:   *)
(* the processor's answer is the least integer).                           *)
IndefiniteInteger == -IntMax - 1
Truncated(f) ==
  LET e == BinaryExponent(f)
      size == IF e >= 0 THEN Significand(f) * 2^e ELSE Significand(f) \div 2^(-e)
  IN IF ~Finite(f) \/ size > IntMax THEN IndefiniteInteger
     ELSE IF f.neg THEN -size ELSE size

(* Doubles compare as numbers: a NaN equals nothing, -0.0 equals 0.0.      *)
SameDouble(f, g) == ~IsNaN(f) /\ (f = g \/ (IsZero(f) /\ IsZero(g)))

-----------------------------------------------------------------------------
(* operator==.  An unsigned number met with a signed one is cast to        *)
(* number_integer_t and wraps; numbers of two types compare by value,      *)
(* values of any other two types differ.                                   *)

Wrap(n) == IF n > IntMax THEN n - UIntMax - 1 ELSE n

NumberEqual(v, w) ==
  CASE Type(v) = "number_float" /\ Type(w) = "number_float" -> SameDouble(v[2], w[2])
    [] Type(v) = "number_float" /\ Type(w) # "number_float" -> SameDouble(v[2], AsDouble(w[2]))
    [] Type(v) # "number_float" /\ Type(w) = "number_float" -> SameDouble(AsDouble(v[2]), w[2])
    [] OTHER -> Wrap(v[2]) = Wrap(w[2])

RECURSIVE Equal(_, _)
Equal(v, w) ==
  \/ IsNumber(v) /\ IsNumber(w) /\ NumberEqual(v, w)
  \/ /\ Type(v) = Type(w) /\ ~IsNumber(v)
     /\ CASE Type(v) = "array" ->
               /\ Len(v[2]) = Len(w[2])
               /\ \A i \in DOMAIN v[2] : Equal(v[2][i], w[2][i])
          [] Type(v) = "object" ->
               /\ DOMAIN v[2] = DOMAIN w[2]
               /\ \A k \in DOMAIN v[2] : Equal(v[2][k], w[2][k])
          [] OTHER -> v = w

-----------------------------------------------------------------------------
(* Objects: std::map orders the keys by their octets.                      *)

RECURSIVE Before(_, _)
Before(a, b) ==
  /\ b # <<>>
  /\ \/ a = <<>>
     \/ Head(a) < Head(b)
     \/ Head(a) = Head(b) /\ Before(Tail(a), Tail(b))

SortedKeys(f) == SetToSortSeq(DOMAIN f, Before)

NoMembers == [k \in {} |-> Null]

HasMember(v, key) == Type(v) = "object" /\ key \in DOMAIN v[2]

(* The value operator[] refers to once it has run: a null becomes an       *)
(* object, a missing member becomes null.                                  *)
Opened(v, key) ==
  CASE Type(v) = "null" -> Object(key :> Null)
    [] Type(v) = "object" -> Object(v[2] @@ (key :> Null))
    [] OTHER -> Throws(305)

Member(v, key) == IF Threw(Opened(v, key)) THEN Throws(305) ELSE Opened(v, key)[2][key]

(* v[key] = w.                                                             *)
Assign(v, key, w) == Object([Opened(v, key)[2] EXCEPT ![key] = w])

(* get<T>(): an arithmetic T that is not one of basic_json's own number    *)
(* types also takes a boolean; strings and booleans are strict.            *)
GetBoolean(v) == IF Type(v) = "boolean" THEN v ELSE Throws(302)
GetString(v) == IF Type(v) = "string" THEN v ELSE Throws(302)
GetArithmetic(v) ==
  CASE Type(v) \in {"number_integer", "number_unsigned"} -> v
    [] Type(v) = "number_float" -> Integer(Truncated(v[2]))
    [] Type(v) = "boolean" -> Integer(IF v[2] THEN 1 ELSE 0)
    [] OTHER -> Throws(302)

(* value(key, default): the type of the default is the one asked for.      *)
GetLike(default, v) ==
  CASE Type(default) = "boolean" -> GetBoolean(v)
    [] Type(default) = "string"  -> GetString(v)
    [] OTHER -> GetArithmetic(v)

ValueOr(v, key, default) ==
  CASE Type(v) # "object" -> Throws(306)
    [] HasMember(v, key) -> GetLike(default, v[2][key])
    [] OTHER -> default

=============================================================================
