------------------------------- MODULE Grisu2 -------------------------------
(***************************************************************************)
(* nlohmann::detail::dtoa_impl: the decimal digits of a float that dump    *)
(* prints (Loitsch's Grisu2).  A diyfp is f * 2^e with f of kPrecision     *)
(* bits; the code has 64 of them for a double of 53, this module 14 for a  *)
(* float of 5, and its range of exponents and table of powers of ten are   *)
(* those the same derivation gives.                                        *)
(***************************************************************************)
EXTENDS JsonValue

kPrecision == 14   \* 64 in the code
kAlpha == -10      \* -60: 10 * p2 must not overflow kPrecision bits
kGamma == -3       \* -32: an integral part within half the bits

ASSUME GrisuAssumption == BitLength(HiddenBit) + 3 <= kPrecision   \* the static_assert of grisu2

-----------------------------------------------------------------------------
Diyfp(f, e) == [f |-> f, e |-> e]

(* The product, rounded to its upper kPrecision bits.                      *)
Mul(x, y) ==
  Diyfp((x.f * y.f + 2^(kPrecision - 1)) \div 2^kPrecision, x.e + y.e + kPrecision)

NormalizeTo(x, e) == Diyfp(x.f * 2^(x.e - e), e)
Normalize(x) == NormalizeTo(x, x.e - (kPrecision - BitLength(x.f)))

(* Plausible bug: the predecessor of a power of two is taken to be as far  *)
(* as its successor.                                                       *)
EvenlySpaced(f) ==
  LET v == Diyfp(Significand(f), BinaryExponent(f))
      plus == Normalize(Diyfp(2 * v.f + 1, v.e - 1))
  IN [w |-> Normalize(v), minus |-> NormalizeTo(Diyfp(2 * v.f - 1, v.e - 1), plus.e), plus |-> plus]

(* compute_boundaries: the float and the middles between it and its two    *)
(* neighbours; the lower one is closer below a power of two.               *)
Boundaries(f) ==
  LET v == Diyfp(Significand(f), BinaryExponent(f))
      plus == Normalize(Diyfp(2 * v.f + 1, v.e - 1))
      minus == IF f.F = 0 /\ f.E > 1 THEN Diyfp(4 * v.f - 1, v.e - 2) ELSE Diyfp(2 * v.f - 1, v.e - 1)
  IN [w |-> Normalize(v), minus |-> NormalizeTo(minus, plus.e), plus |-> plus]

-----------------------------------------------------------------------------
(* c = f * 2^e is 10^k, rounded to kPrecision bits.                        *)
kCachedPowersMinDecExp == -6
kCachedPowersDecStep == 2
kCachedPowers ==
  << [f |-> 8590, e |-> -33, k |-> -6], [f |-> 13422, e |-> -27, k |-> -4],
     [f |-> 10486, e |-> -20, k |-> -2], [f |-> 8192, e |-> -13, k |-> 0],
     [f |-> 12800, e |-> -7, k |-> 2], [f |-> 10000, e |-> 0, k |-> 4] >>

(* C++ divides towards zero.                                               *)
Quotient(a, b) == IF a < 0 THEN -((-a) \div b) ELSE a \div b

(* get_cached_power_for_binary_exponent: log_10(2) is 78913 / 2^18.        *)
CachedPower(e) ==
  LET f == kAlpha - e - 1
      k == Quotient(f * 78913, 2^18) + (IF f > 0 THEN 1 ELSE 0)
  IN kCachedPowers[Quotient(k - kCachedPowersMinDecExp + kCachedPowersDecStep - 1, kCachedPowersDecStep) + 1]

-----------------------------------------------------------------------------
(* grisu2_digit_gen: the digits of M+ until what is left of it is within   *)
(* delta, first those of the integral part, then those of the fraction.    *)

(* find_largest_pow10.                                                     *)
LargestPow10(n) == CHOOSE k \in 1..5 : n < 10^k /\ (k = 1 \/ n >= 10^(k - 1))

(* grisu2_round: the last digit goes down while that brings V closer to w. *)
RECURSIVE Rounded(_, _, _, _, _)
Rounded(buf, dist, delta, rest, ten) ==
  IF /\ rest < dist
     /\ delta - rest >= ten
     /\ rest + ten < dist \/ dist - rest > rest + ten - dist
  THEN Rounded([buf EXCEPT ![Len(buf)] = @ - 1], dist, delta, rest + ten, ten)
  ELSE buf

Generated(digits, exponent) == [digits |-> digits, exponent |-> exponent]

(* After m digits of the fraction; p2, delta and dist are scaled by 10^m.  *)
RECURSIVE FractionDigits(_, _, _, _, _, _)
FractionDigits(buf, p2, one, delta, dist, m) ==
  LET digits == Append(buf, (10 * p2) \div one)
      rest == (10 * p2) % one
  IN IF rest <= 10 * delta
     THEN Generated(Rounded(digits, 10 * dist, 10 * delta, rest, one), -(m + 1))
     ELSE FractionDigits(digits, rest, one, 10 * delta, 10 * dist, m + 1)

(* With n digits of the integral part p1 to come.                          *)
RECURSIVE IntegralDigits(_, _, _, _, _, _, _)
IntegralDigits(buf, p1, p2, one, delta, dist, n) ==
  LET pow10 == 10^(n - 1)
      digits == Append(buf, p1 \div pow10)
      rest == (p1 % pow10) * one + p2
  IN IF n = 0 THEN FractionDigits(buf, p2, one, delta, dist, 0)
     ELSE IF rest <= delta THEN Generated(Rounded(digits, dist, delta, rest, pow10 * one), n - 1)
     ELSE IntegralDigits(digits, p1 % pow10, p2, one, delta, dist, n - 1)

DigitGen(minus, w, plus) ==
  LET one == 2^(-plus.e)
      p1 == plus.f \div one
  IN IntegralDigits(<<>>, p1, plus.f % one, one, plus.f - minus.f, plus.f - w.f, LargestPow10(p1))

(* The products are off by less than one unit: the interval shrinks by one *)
(* at each end, so that what lies in it reads back as the float.           *)
Scaled(b, c) ==
  LET minus == Mul(b.minus, c)
      plus == Mul(b.plus, c)
      generated == DigitGen(Diyfp(minus.f + 1, minus.e), Mul(b.w, c), Diyfp(plus.f - 1, plus.e))
  IN [generated EXCEPT !.exponent = @ - c.k]

(* grisu2: the float, finite and not zero, is the digits * 10^exponent.    *)
ShortestDigits(f) == LET b == Boundaries(f) IN Scaled(b, CachedPower(b.plus.e))

(* The digits that suffice for p bits: 1 + ceil(p * log_10(2)).            *)
MaxDigits10 == 2 + ((BitLength(HiddenBit) * 78913) \div 2^18)

=============================================================================
