---------------------------- MODULE JsonGrammar ----------------------------
(***************************************************************************)
(* What a text means: RFC 8259 as a relation between texts and values,     *)
(* read off the grammar by cutting the text in parts, and UTF-8 as the     *)
(* encoding of code points.  It models no code: the lexer, the parser and  *)
(* the serializer are compared with it.                                    *)
(***************************************************************************)
EXTENDS JsonLexer

-----------------------------------------------------------------------------
(* UTF-8 by the arithmetic of its definition.                              *)

Surrogates == 55296..57343
Utf8Size(cp) == CASE cp < 128 -> 1 [] cp \in 128..2047 -> 2 [] cp \in 2048..65535 -> 3 [] OTHER -> 4
LeadBase == <<0, 192, 224, 240>>

CodePoint(char) ==
  FoldLeft(LAMBDA n, c : 64 * n + c - 128, Head(char) - LeadBase[Len(char)], Tail(char))

IsUtf8Char(char) ==
  /\ Len(char) \in 1..4
  /\ \A i \in 2..Len(char) : char[i] \in 128..191
  /\ CodePoint(char) \in 0..1114111 /\ CodePoint(char) \notin Surrogates
  /\ Utf8Size(CodePoint(char)) = Len(char)

RECURSIVE IsUtf8(_)
IsUtf8(s) ==
  \/ s = <<>>
  \/ \E n \in 1..Min({4, Len(s)}) :
       IsUtf8Char(SubSeq(s, 1, n)) /\ IsUtf8(SubSeq(s, n + 1, Len(s)))

(* The encoding of a code point, digit by digit.                           *)
EncodingOf(cp) ==
  LET n == Utf8Size(cp)
  IN [i \in 1..n |-> IF i = 1 THEN LeadBase[n] + (cp \div 64^(n - 1))
                              ELSE 128 + ((cp \div 64^(n - i)) % 64)]

-----------------------------------------------------------------------------
(* Each operator below is the set of what its text may mean: one thing, or *)
(* nothing when the text is not of that form.                              *)

Cuts(t, c) == {i \in DOMAIN t : t[i] = c}
Upto(t, i) == SubSeq(t, 1, i - 1)
After(t, i) == SubSeq(t, i + 1, Len(t))

AllDigits(t) == t # <<>> /\ \A i \in DOMAIN t : IsDigit(t[i])
NaturalOf(t) == FoldLeft(LAMBDA n, c : 10 * n + c - Zero, 0, t)

IntegerPart(t) == AllDigits(t) /\ (Head(t) = Zero => Len(t) = 1)
FractionPart(t) == t = <<>> \/ (Head(t) = Point /\ AllDigits(Tail(t)))
Unsigned10(t) == IF t # <<>> /\ Head(t) \in {Plus, Minus} THEN Tail(t) ELSE t
ExponentPart(t) == t = <<>> \/ (Head(t) \in Exponents /\ AllDigits(Unsigned10(Tail(t))))

(* int [frac] [exp]: integers where the type holds them.                   *)
NumberMeaning(t) ==
  LET neg == t # <<>> /\ Head(t) = Minus
      body == IF neg THEN Tail(t) ELSE t
      Form(i, f) == /\ IntegerPart(SubSeq(body, 1, i))
                    /\ FractionPart(SubSeq(body, i + 1, f))
                    /\ ExponentPart(SubSeq(body, f + 1, Len(body)))
      Power(e) == IF e = <<>> THEN 0
                  ELSE IF Head(Tail(e)) = Minus THEN -NaturalOf(Unsigned10(Tail(e)))
                  ELSE NaturalOf(Unsigned10(Tail(e)))
      Meaning(i, f) ==
        LET size == NaturalOf(SelectSeq(SubSeq(body, 1, f), IsDigit))
            places == IF f = i THEN 0 ELSE f - i - 1
            double == Double(neg, size, Power(SubSeq(body, f + 1, Len(body))) - places)
        IN CASE i = Len(body) /\ ~neg /\ size <= UIntMax -> {Unsigned(size)}
             [] i = Len(body) /\ neg /\ size <= IntMax + 1 -> {Integer(-size)}
             [] OTHER -> IF Finite(double) THEN {Float(double)} ELSE {}
  IN UNION {Meaning(cut[1], cut[2]) :
              cut \in {c \in (1..Len(body)) \X (1..Len(body)) : c[1] <= c[2] /\ Form(c[1], c[2])}}

HexOf(t) == FoldLeft(LAMBDA n, c : 16 * n + HexDigit(c), 0, t)
IsUnicode(t) == IsPrefix(<<Backslash, 117>>, t) /\ \A i \in 3..6 : HexDigit(At(t, i)) # -1

(* One character of a string as it is written, and the octets it means.    *)
CharMeaning(t) ==
  CASE Len(t) = 1 -> IF t[1] \in (32..127) \ {Quote, Backslash} THEN {t} ELSE {}
    [] Len(t) = 2 /\ t[1] = Backslash -> {<<Escapes[c]>> : c \in {t[2]} \cap DOMAIN Escapes}
    [] Len(t) = 6 ->
         IF IsUnicode(t) /\ HexOf(SubSeq(t, 3, 6)) \notin Surrogates
         THEN {EncodingOf(HexOf(SubSeq(t, 3, 6)))} ELSE {}
    [] Len(t) = 12 ->
         LET high == HexOf(SubSeq(t, 3, 6)) - 55296
             low == HexOf(SubSeq(t, 9, 12)) - 56320
         IN IF /\ IsUnicode(t) /\ IsUnicode(SubSeq(t, 7, 12))
               /\ high \in 0..1023 /\ low \in 0..1023
            THEN {EncodingOf(65536 + 1024 * high + low)} ELSE {}
    [] OTHER -> IF IsUtf8Char(t) THEN {t} ELSE {}

RECURSIVE CharsMeaning(_)
CharsMeaning(t) ==
  IF t = <<>> THEN {<<>>}
  ELSE UNION {{char \o rest : rest \in CharsMeaning(After(t, n)), char \in CharMeaning(SubSeq(t, 1, n))} :
                n \in {k \in {1, 2, 3, 4, 6, 12} : k <= Len(t) /\ CharMeaning(SubSeq(t, 1, k)) # {}}}

StringMeaning(t) ==
  IF Len(t) > 1 /\ Head(t) = Quote /\ Last(t) = Quote THEN CharsMeaning(SubSeq(t, 2, Len(t) - 1)) ELSE {}

Trimmed(t) ==
  LET kept == {i \in DOMAIN t : t[i] \notin Whitespace}
  IN IF kept = {} THEN <<>> ELSE SubSeq(t, Min(kept), Max(kept))

IsBracketed(t, open, close) == Len(t) > 1 /\ Head(t) = open /\ Last(t) = close
Inside(t) == Trimmed(SubSeq(t, 2, Len(t) - 1))

(* The last of the members with a name counts.                             *)
ObjectOf(members) ==
  FoldLeft(LAMBDA f, m : (m[1] :> m[2]) @@ f, NoMembers, members)

RECURSIVE ValueMeaning(_), ElementsMeaning(_), MembersMeaning(_)
ValueMeaning(t) ==
  LET s == Trimmed(t)
  IN {literal.value : literal \in {l \in {Literals[c] : c \in DOMAIN Literals} : l.text = s}}
     \cup NumberMeaning(s)
     \cup {String(octets) : octets \in StringMeaning(s)}
     \cup (IF ~IsBracketed(s, 91, 93) THEN {}
           ELSE IF Inside(s) = <<>> THEN {Array(<<>>)}
           ELSE {Array(elements) : elements \in ElementsMeaning(Inside(s))})
     \cup (IF ~IsBracketed(s, 123, 125) THEN {}
           ELSE IF Inside(s) = <<>> THEN {Object(NoMembers)}
           ELSE {Object(ObjectOf(members)) : members \in MembersMeaning(Inside(s))})

ElementsMeaning(t) ==
  {<<v>> : v \in ValueMeaning(t)}
  \cup UNION {{<<v>> \o rest : v \in ValueMeaning(Upto(t, i)), rest \in ElementsMeaning(After(t, i))} :
                i \in Cuts(t, 44)}

MemberMeaning(t) ==
  UNION {{<<k, v>> : k \in StringMeaning(Trimmed(Upto(t, i))), v \in ValueMeaning(After(t, i))} :
           i \in Cuts(t, 58)}

MembersMeaning(t) ==
  {<<m>> : m \in MemberMeaning(t)}
  \cup UNION {{<<m>> \o rest : m \in MemberMeaning(Upto(t, i)), rest \in MembersMeaning(After(t, i))} :
                i \in Cuts(t, 44)}

(* A text may begin with a byte order mark.                                *)
TextMeaning(t) ==
  ValueMeaning(IF IsPrefix(ByteOrderMark, t) THEN SubSeq(t, 4, Len(t)) ELSE t)

=============================================================================
