--------------------------- MODULE JsonSerializer --------------------------
(***************************************************************************)
(* nlohmann::detail::serializer as basic_json::dump() calls it: compact,   *)
(* UTF-8 kept as it is, error_handler_t::strict.  The output is a sequence *)
(* of octets; a string that is not UTF-8 makes dump throw type_error 316.  *)
(***************************************************************************)
EXTENDS Grisu2

CONSTANT StringBuffer   \* the size of string_buffer, 512 in the code

ASSUME BufferAssumption == StringBuffer \in Nat /\ StringBuffer > 13

-----------------------------------------------------------------------------
(* decode: one step of Hoehrmann's automaton.  State 0 accepts, state 1    *)
(* rejects; the class of an octet and the row of a state are read off      *)
(* utf8d.                                                                  *)

Accept == 0
Reject == 1

OctetClass(c) ==
  CASE c \in 0..127 -> 0
    [] c \in 128..143 -> 1
    [] c \in 144..159 -> 9
    [] c \in 160..191 -> 7
    [] c \in {192, 193} \cup (245..255) -> 8
    [] c \in 194..223 -> 2
    [] c = 224 -> 10
    [] c \in (225..236) \cup {238, 239} -> 3
    [] c = 237 -> 4
    [] c = 240 -> 11
    [] c \in 241..243 -> 6
    [] c = 244 -> 5

Row(state) ==
  CASE state = 0 -> 0 :> 0 @@ 2 :> 2 @@ 3 :> 3 @@ 4 :> 5 @@ 5 :> 8 @@ 6 :> 7 @@ 10 :> 4 @@ 11 :> 6
    [] state = 2 -> 1 :> 0 @@ 7 :> 0 @@ 9 :> 0
    [] state = 3 -> 1 :> 2 @@ 7 :> 2 @@ 9 :> 2
    [] state = 4 -> 7 :> 2
    [] state = 5 -> 1 :> 2 @@ 9 :> 2
    [] state = 6 -> 7 :> 3 @@ 9 :> 3
    [] state = 7 -> 1 :> 3 @@ 7 :> 3 @@ 9 :> 3
    [] state = 8 -> 1 :> 3
    [] OTHER -> <<>>

Decode(d, c) ==
  LET class == OctetClass(c)
      payload == IF class > 8 THEN 0 ELSE c % 2^(8 - class)
  IN [d EXCEPT !.codepoint = IF d.state # Accept THEN 64 * @ + (c % 64) ELSE payload,
               !.state = IF class \in DOMAIN Row(d.state) THEN Row(d.state)[class] ELSE Reject]

-----------------------------------------------------------------------------
(* Strings.                                                                *)

Hex(n) == LET d == n % 16 IN IF d < 10 THEN 48 + d ELSE 87 + d

ShortEscapes == 8 :> 98 @@ 9 :> 116 @@ 10 :> 110 @@ 12 :> 102 @@ 13 :> 114 @@ 34 :> 34 @@ 92 :> 92

EscapeOf(codepoint) ==
  IF codepoint \in DOMAIN ShortEscapes THEN <<92, ShortEscapes[codepoint]>>
  ELSE <<92, 117, 48, 48, Hex(codepoint \div 16), Hex(codepoint)>>

NeedsEscape(codepoint) == codepoint <= 31 \/ codepoint \in DOMAIN ShortEscapes

(* One octet of dump_escaped.  "bytes" counts what waits in string_buffer, *)
(* which is written out after a code point that leaves less than 13 free;  *)
(* "overrun" records a write past its end.                                 *)
EscapeOctet(d, c) ==
  LET next == Decode(d, c)
      written == IF next.state = Accept /\ NeedsEscape(next.codepoint)
                 THEN EscapeOf(next.codepoint) ELSE <<c>>
      filled == d.bytes + Len(written)
      flushes == next.state = Accept /\ StringBuffer - filled < 13
  IN IF d.state = Reject THEN d
     ELSE IF next.state = Reject THEN next
     ELSE [next EXCEPT !.out = @ \o written,
                       !.bytes = IF flushes THEN 0 ELSE filled,
                       !.overrun = @ \/ filled > StringBuffer]

DumpEscaped(s) ==
  FoldLeft(EscapeOctet, [state |-> Accept, codepoint |-> 0, bytes |-> 0, out |-> <<>>, overrun |-> FALSE], s)

(* Strict: neither an octet rejected nor a code point left incomplete.     *)
EscapesFully(s) == DumpEscaped(s).state = Accept

-----------------------------------------------------------------------------
(* Numbers.                                                                *)

(* count_digits: the digits of number_buffer that dump_integer fills.      *)
RECURSIVE CountDigits(_)
CountDigits(n) ==
  IF n < 10000 THEN CHOOSE k \in 1..4 : n < 10^k /\ (k = 1 \/ n >= 10^(k - 1))
  ELSE 4 + CountDigits(n \div 10000)

(* They are filled from the end.                                           *)
DigitOctets(n) ==
  LET k == CountDigits(n) IN [i \in 1..k |-> 48 + ((n \div 10^(k - i)) % 10)]

(* The absolute value of the least integer is taken safely.                *)
RemoveSign(n) == -(n + 1) + 1

DumpInteger(n) == IF n < 0 THEN <<45>> \o DigitOctets(RemoveSign(n)) ELSE DigitOctets(n)

Zeros(n) == [i \in 1..n |-> 48]

(* append_exponent: at least two digits.                                   *)
Exponent(e) ==
  LET k == IF e < 0 THEN -e ELSE e
  IN <<IF e < 0 THEN 45 ELSE 43>> \o (IF k < 10 THEN <<48>> ELSE <<>>) \o DigitOctets(k)

(* format_buffer: fixed notation between 10^MinExp and 10^MaxExp, which    *)
(* are -4 and 15 in the code and nearer to 1 here, as the floats are.      *)
MinExp == -2
MaxExp == 4


FormatBuffer(digits, e) ==
  LET k == Len(digits)
      n == k + e
  IN CASE k <= n /\ n <= MaxExp -> digits \o Zeros(n - k) \o <<46, 48>>
       [] 0 < n /\ n < k /\ n <= MaxExp ->
            SubSeq(digits, 1, n) \o <<46>> \o SubSeq(digits, n + 1, k)
       [] MinExp < n /\ n <= 0 -> <<48, 46>> \o Zeros(-n) \o digits
       [] OTHER -> (IF k = 1 THEN digits ELSE <<digits[1], 46>> \o Tail(digits))
                   \o <<101>> \o Exponent(n - 1)

ToChars(f) ==
  LET sign == IF f.neg THEN <<45>> ELSE <<>>
      shortest == ShortestDigits(f)
  IN IF IsZero(f) THEN sign \o <<48, 46, 48>>
     ELSE sign \o FormatBuffer([i \in DOMAIN shortest.digits |-> 48 + shortest.digits[i]],
                               shortest.exponent)

(* What is not finite is written as null.                                  *)
DumpFloat(f) == IF Finite(f) THEN ToChars(f) ELSE <<110, 117, 108, 108>>

-----------------------------------------------------------------------------
(* Values.                                                                 *)

Quoted(s) == <<34>> \o DumpEscaped(s).out \o <<34>>

(* The parts with a comma between them.                                    *)
Separated(parts) ==
  FoldLeft(LAMBDA acc, part : IF acc = <<>> THEN part ELSE acc \o <<44>> \o part, <<>>, parts)

Bytes == <<123, 34, 98, 121, 116, 101, 115, 34, 58, 91>>    \* {"bytes":[
Subtype == <<93, 44, 34, 115, 117, 98, 116, 121, 112, 101, 34, 58, 110, 117, 108, 108, 125>>
                                                             \* ],"subtype":null}

WrittenBinary(s) == Bytes \o Separated([i \in DOMAIN s |-> DumpInteger(s[i])]) \o Subtype

RECURSIVE Written(_)
Written(v) ==
  CASE Type(v) = "object" ->
         LET keys == SortedKeys(v[2])
         IN <<123>> \o Separated([i \in DOMAIN keys |-> Quoted(keys[i]) \o <<58>> \o Written(v[2][keys[i]])])
            \o <<125>>
    [] Type(v) = "array" -> <<91>> \o Separated([i \in DOMAIN v[2] |-> Written(v[2][i])]) \o <<93>>
    [] Type(v) = "string" -> Quoted(v[2])
    [] Type(v) = "binary" -> WrittenBinary(v[2])
    [] Type(v) = "boolean" -> IF v[2] THEN <<116, 114, 117, 101>> ELSE <<102, 97, 108, 115, 101>>
    [] Type(v) \in {"number_integer", "number_unsigned"} -> DumpInteger(v[2])
    [] Type(v) = "number_float" -> DumpFloat(v[2])
    [] Type(v) = "null" -> <<110, 117, 108, 108>>

(* Every string in v, keys included.                                       *)
RECURSIVE StringsOf(_)
StringsOf(v) ==
  CASE Type(v) = "string" -> {v[2]}
    [] Type(v) = "array" -> UNION {StringsOf(v[2][i]) : i \in DOMAIN v[2]}
    [] Type(v) = "object" -> DOMAIN v[2] \cup UNION {StringsOf(v[2][k]) : k \in DOMAIN v[2]}
    [] OTHER -> {}

(* dump(): the text, or the exception that a string not in UTF-8 throws.   *)
Dump(v) ==
  IF \A s \in StringsOf(v) : EscapesFully(s) THEN String(Written(v)) ELSE Throws(316)

=============================================================================
