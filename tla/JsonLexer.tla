----------------------------- MODULE JsonLexer -----------------------------
(***************************************************************************)
(* nlohmann::detail::lexer: the tokens of a text.  A text is a sequence of *)
(* octets; the octet read past its end is Eof.  Scan(text, i) is the token *)
(* that starts at i or after the whitespace there, with the place of the   *)
(* first octet it leaves unread (unget() is a place not advanced), or of   *)
(* the octet the scanner stopped at with a parse error.                    *)
(*                                                                         *)
(* Comments are not ignored (json::parse is called without flags) and the  *)
(* decimal point is that of the C locale, which the program never changes. *)
(***************************************************************************)
EXTENDS JsonValue

Eof == -1
At(text, i) == IF i \in 1..Len(text) THEN text[i] ELSE Eof

Whitespace == {9, 10, 13, 32}
Quote == 34
Backslash == 92
Minus == 45
Plus == 43
Point == 46
Zero == 48
Nine == 57
Exponents == {69, 101}

-----------------------------------------------------------------------------
(* Numbers: one state per label of scan_number, the longest run of octets  *)
(* the automaton can read, and the state it stops in.                      *)

NumberClass(c) ==
  CASE c = Minus -> "minus"
    [] c = Plus -> "plus"
    [] c = Zero -> "zero"
    [] c \in Zero + 1..Nine -> "nonzero"
    [] c = Point -> "point"
    [] c \in Exponents -> "exponent"
    [] OTHER -> "other"

To(state, classes, next) == {<<state, class, next>> : class \in classes}
DigitClasses == {"zero", "nonzero"}

IntegerEdges ==
  UNION { To("init", {"minus"}, "minus"),
          To("init", {"zero"}, "zero"),
          To("init", {"nonzero"}, "any1"),
          To("minus", {"zero"}, "zero"),
          To("minus", {"nonzero"}, "any1"),
          To("zero", {"point"}, "decimal1"),
          To("zero", {"exponent"}, "exponent"),
          To("any1", DigitClasses, "any1"),
          To("any1", {"point"}, "decimal1"),
          To("any1", {"exponent"}, "exponent") }

FractionEdges ==
  UNION { To("decimal1", DigitClasses, "decimal2"),
          To("decimal2", DigitClasses, "decimal2"),
          To("decimal2", {"exponent"}, "exponent"),
          To("exponent", {"plus", "minus"}, "sign"),
          To("exponent", DigitClasses, "any2"),
          To("sign", DigitClasses, "any2"),
          To("any2", DigitClasses, "any2") }

NumberEdges == IntegerEdges \cup FractionEdges

NumberStates == {edge[1] : edge \in NumberEdges}
NumberMoves ==
  [state \in NumberStates |->
     [class \in {edge[2] : edge \in {x \in NumberEdges : x[1] = state}} |->
        CHOOSE next \in NumberStates : <<state, class, next>> \in NumberEdges]]

(* The states in which the run may end: scan_number_done.                  *)
NumberDone == {"zero", "any1", "decimal2", "any2"}

RECURSIVE NumberRun(_, _, _)
NumberRun(text, i, state) ==
  LET class == NumberClass(At(text, i))
  IN IF class \in DOMAIN NumberMoves[state]
     THEN NumberRun(text, i + 1, NumberMoves[state][class])
     ELSE [state |-> state, next |-> i]

(* strtoull, capped above UIntMax: a larger magnitude is ERANGE.           *)
TooLarge == UIntMax + 1
Magnitude(digits) ==
  FoldLeft(LAMBDA n, d : IF n > ((UIntMax - (d - Zero)) \div 10) THEN TooLarge ELSE 10 * n + (d - Zero),
           0, digits)

IsDigit(c) == c \in Zero..Nine

(* strtod of a number's text, sign excluded: the digits of its mantissa    *)
(* less the places of its fraction, and its exponent.                      *)
Decimal(neg, t) ==
  LET From(c) == {i \in DOMAIN t : t[i] \in c}
      e == CHOOSE i \in From(Exponents) \cup {Len(t) + 1} : From(Exponents) \subseteq {i}
      digits == SelectSeq(SubSeq(t, 1, e - 1), IsDigit)
      places == IF From({Point}) = {} THEN 0 ELSE e - 1 - CHOOSE i \in From({Point}) : TRUE
      power == Magnitude(SelectSeq(SubSeq(t, e + 1, Len(t)), IsDigit))
      signed == IF At(t, e + 1) = Minus THEN -power ELSE power
      m == FoldLeft(LAMBDA n, d : 10 * n + d - Zero, 0, digits)
  IN Double(neg, m, signed - places)

(* scan_number: an integer that does not fit its type becomes a float.     *)
ScanNumber(text, i) ==
  LET run == NumberRun(text, i, "init")
      token == SubSeq(text, i, run.next - 1)
      neg == text[i] = Minus
      digits == IF neg THEN Tail(token) ELSE token
      isFloat == \E k \in DOMAIN token : token[k] \in Exponents \cup {Point}
      size == Magnitude(digits)
      Value == CASE ~isFloat /\ ~neg /\ size <= UIntMax -> Unsigned(size)
                 [] ~isFloat /\ neg /\ size <= IntMax + 1 -> Integer(-size)
                 [] OTHER -> Float(Decimal(neg, digits))
  IN IF run.state \in NumberDone
     THEN [type |-> "value_number", value |-> Value, next |-> run.next]
     ELSE [type |-> "parse_error", next |-> run.next]

-----------------------------------------------------------------------------
(* Strings: the octets one unit of the source stands for, and the place    *)
(* after it; a unit that is not allowed has no octets, and its place is    *)
(* that of the octet where the scanner stopped.                            *)

HexDigit(c) ==
  CASE c \in Zero..Nine -> c - 48
    [] c \in 65..70 -> c - 55
    [] c \in 97..102 -> c - 87
    [] OTHER -> -1

IllFormed(i) == [octets |-> <<>>, next |-> i]

(* get_codepoint: four hexadecimal digits; the octets that are none.       *)
NotHex(text, i) == {k \in i..i + 3 : HexDigit(At(text, k)) = -1}
Codepoint(text, i) ==
  FoldLeft(LAMBDA n, c : 16 * n + HexDigit(c), 0, SubSeq(text, i, i + 3))

HighSurrogates == 55296..56319   \* 0xD800..0xDBFF
LowSurrogates == 56320..57343    \* 0xDC00..0xDFFF

ToUtf8(cp) ==
  LET Low(shift) == 128 + ((cp \div shift) % 64)
  IN CASE cp < 128 -> <<cp>>
       [] cp \in 128..2047 -> <<192 + (cp \div 64), Low(1)>>
       [] cp \in 2048..65535 -> <<224 + (cp \div 4096), Low(64), Low(1)>>
       [] OTHER -> <<240 + (cp \div 262144), Low(4096), Low(64), Low(1)>>

(* \uXXXX: a high surrogate must be followed by an escaped low one, which  *)
(* completes it; a low surrogate may not stand alone.                      *)
HighSurrogate(text, i) ==
  LET second == Codepoint(text, i + 6)
  IN CASE At(text, i + 4) # Backslash -> IllFormed(i + 4)
       [] At(text, i + 4) = Backslash /\ At(text, i + 5) # 117 -> IllFormed(i + 5)
       [] OTHER ->
            IF NotHex(text, i + 6) # {} THEN IllFormed(Min(NotHex(text, i + 6)))
            ELSE IF second \notin LowSurrogates THEN IllFormed(i + 9)
            ELSE [octets |-> ToUtf8((Codepoint(text, i) - 55296) * 1024 + second - 56320 + 65536),
                  next |-> i + 10]

UnicodeEscape(text, i) ==
  IF NotHex(text, i) # {} THEN IllFormed(Min(NotHex(text, i)))
  ELSE CASE Codepoint(text, i) \in HighSurrogates -> HighSurrogate(text, i)
         [] Codepoint(text, i) \in LowSurrogates -> IllFormed(i + 3)
         [] OTHER -> [octets |-> ToUtf8(Codepoint(text, i)), next |-> i + 4]

(* quote, backslash, slash, b, f, n, r and t after a backslash.            *)
Escapes == 34 :> 34 @@ 92 :> 92 @@ 47 :> 47 @@ 98 :> 8 @@ 102 :> 12
           @@ 110 :> 10 @@ 114 :> 13 @@ 116 :> 9

Escape(text, i) ==
  CASE At(text, i) \in DOMAIN Escapes -> [octets |-> <<Escapes[text[i]]>>, next |-> i + 1]
    [] At(text, i) = 117 -> UnicodeEscape(text, i + 1)
    [] OTHER -> IllFormed(i)

(* The ranges that must follow a lead octet of well-formed UTF-8.          *)
Continuation == 128..191
Trailing(lead) ==
  CASE lead \in 194..223 -> <<Continuation>>
    [] lead = 224 -> <<160..191, Continuation>>
    [] lead \in (225..236) \cup {238, 239} -> <<Continuation, Continuation>>
    [] lead = 237 -> <<128..159, Continuation>>
    [] lead = 240 -> <<144..191, Continuation, Continuation>>
    [] lead \in 241..243 -> <<Continuation, Continuation, Continuation>>
    [] lead = 244 -> <<128..143, Continuation, Continuation>>
    [] OTHER -> <<>>

(* next_byte_in_range.                                                     *)
Multibyte(text, i) ==
  LET ranges == Trailing(At(text, i))
      bad == {k \in DOMAIN ranges : At(text, i + k) \notin ranges[k]}
  IN CASE ranges = <<>> -> IllFormed(i)
       [] bad # {} -> IllFormed(i + Min(bad))
       [] OTHER -> [octets |-> SubSeq(text, i, i + Len(ranges)), next |-> i + Len(ranges) + 1]

Controls == 0..31
Unescaped == (32..127) \ {Quote, Backslash}

StringUnit(text, i) ==
  CASE At(text, i) = Backslash -> Escape(text, i + 1)
    [] At(text, i) \in Unescaped -> [octets |-> <<text[i]>>, next |-> i + 1]
    [] At(text, i) \in Controls \cup {Eof} -> IllFormed(i)
    [] OTHER -> Multibyte(text, i)

(* scan_string, from the octet after the opening quote.                    *)
RECURSIVE ScanFrom(_, _, _)
ScanFrom(text, unit, buffer) ==
  LET all == buffer \o unit.octets
  IN CASE unit.octets = <<>> -> [type |-> "parse_error", next |-> unit.next]
       [] unit.octets # <<>> /\ At(text, unit.next) = Quote ->
            [type |-> "value_string", value |-> String(all), next |-> unit.next + 1]
       [] OTHER -> ScanFrom(text, StringUnit(text, unit.next), all)

ScanString(text, i) ==
  IF At(text, i) = Quote THEN [type |-> "value_string", value |-> String(<<>>), next |-> i + 1]
  ELSE ScanFrom(text, StringUnit(text, i), <<>>)

-----------------------------------------------------------------------------
(* The scanner.                                                            *)

Structural == 91 :> "begin_array" @@ 93 :> "end_array" @@ 123 :> "begin_object"
              @@ 125 :> "end_object" @@ 58 :> "name_separator" @@ 44 :> "value_separator"

Literals == 116 :> [text |-> <<116, 114, 117, 101>>, value |-> Boolean(TRUE)]
            @@ 102 :> [text |-> <<102, 97, 108, 115, 101>>, value |-> Boolean(FALSE)]
            @@ 110 :> [text |-> <<110, 117, 108, 108>>, value |-> Null]

(* scan_literal: the whole word must follow.                               *)
ScanLiteral(text, i) ==
  LET literal == Literals[text[i]]
      bad == {k \in DOMAIN literal.text : At(text, i + k - 1) # literal.text[k]}
  IN IF bad = {}
     THEN [type |-> "literal", value |-> literal.value, next |-> i + Len(literal.text)]
     ELSE [type |-> "parse_error", next |-> i + Min(bad) - 1]

RECURSIVE SkipWhitespace(_, _)
SkipWhitespace(text, i) ==
  IF At(text, i) \in Whitespace THEN SkipWhitespace(text, i + 1) ELSE i

ByteOrderMark == <<239, 187, 191>>

(* skip_bom: a text that begins like a byte order mark must have all of it. *)
BomErrors(text) == {k \in 1..3 : At(text, 1) = 239 /\ At(text, k) # ByteOrderMark[k]}
FirstToken(text) == IF At(text, 1) = 239 THEN 4 ELSE 1

Scan(text, from) ==
  LET i == SkipWhitespace(text, from)
      c == At(text, i)
  IN CASE c \in DOMAIN Structural -> [type |-> Structural[c], next |-> i + 1]
       [] c \in DOMAIN Literals -> ScanLiteral(text, i)
       [] c = Quote -> ScanString(text, i + 1)
       [] c \in {Minus} \cup (Zero..Nine) -> ScanNumber(text, i)
       [] c \in {0, Eof} -> [type |-> "end_of_input", next |-> i]
       [] OTHER -> [type |-> "parse_error", next |-> i]

=============================================================================
