-------------------------------- MODULE Cbor -------------------------------
(***************************************************************************)
(* binary_writer::write_cbor and binary_reader::parse_cbor_internal: the   *)
(* octets json::to_cbor produces and the value json::from_cbor reads.      *)
(*                                                                         *)
(* An initial octet is that of the code, 32 * major + info.  A number that *)
(* follows it has 1, 2, 4 or 8 octets of base 256 in the code and 1, 2, 3  *)
(* or 4 of base OctetBase here, so that the largest, UIntMax, is within    *)
(* TLC's integers.  A float has 2 or 3 octets instead of 4 or 8.           *)
(***************************************************************************)
EXTENDS JsonValue

CONSTANT OctetBase   \* values of an octet of a number, 256 in the code

ASSUME CborAssumption == OctetBase \in Nat /\ OctetBase > 24 /\ UIntMax = OctetBase^4 - 1

Immediate == 23      \* numbers up to 0x17 are part of the initial octet
Indefinite == 31
Break == 255

Majors == [unsigned |-> 0, negative |-> 1, binary |-> 2, string |-> 3, array |-> 4, object |-> 5]

-----------------------------------------------------------------------------
(* Floats: sign, exponent and fraction in three octets (double precision) *)
(* or two (single precision, which has two bits less of fraction); a half  *)
(* precision number has a smaller exponent as well.                        *)

SingleBits == HiddenBit \div 4

Fields(f, size) == ((IF f.neg THEN InfinityE + 1 ELSE 0) + f.E) * size + (f.F \div (HiddenBit \div size))
OfFields(n, size) ==
  LET f == [neg |-> (n \div (size * (InfinityE + 1))) % 2 = 1,
            E |-> (n \div size) % (InfinityE + 1),
            F |-> (n % size) * (HiddenBit \div size)]
  IN IF IsNaN(f) THEN NaN ELSE f

(* The test of write_compact_float: does a float hold the double?          *)
IsSingle(f) == f.F % (HiddenBit \div SingleBits) = 0

(* The bits of a half precision number: two of mantissa, four of exponent, *)
(* one of sign (10, 5 and 1 in the code).  ldexp is exact here.            *)
Half(n) ==
  LET neg == (n \div 64) % 2 = 1
      exp == (n \div 4) % 16
      mant == n % 4
      Ldexp(m, k) == Nearest(neg, m * 2^(kBias + k), FALSE, -kBias)
  IN CASE exp = 15 -> IF mant = 0 THEN Infinity(neg) ELSE NaN
       [] exp = 0 -> Ldexp(mant, -8)
       [] OTHER -> Ldexp(mant + 4, exp - 9)

-----------------------------------------------------------------------------
(* The writer.                                                             *)

BigEndian(n, width) == [i \in 1..width |-> (n \div OctetBase^(width - i)) % OctetBase]

(* Plausible bug: the bound of a width is tested with <= instead of <.     *)
HeadTooShort(major, n) ==
  LET width == CHOOSE w \in 1..4 : n <= OctetBase^w /\ (w = 1 \/ n > OctetBase^(w - 1))
  IN IF n <= Immediate THEN <<32 * major + n>>
     ELSE <<32 * major + Immediate + width>> \o BigEndian(n, width)

(* The initial octet, and the number in as few octets as hold it.          *)
WriteHead(major, n) ==
  LET width == CHOOSE w \in 1..4 : n < OctetBase^w /\ (w = 1 \/ n >= OctetBase^(w - 1))
  IN IF n <= Immediate THEN <<32 * major + n>>
     ELSE <<32 * major + Immediate + width>> \o BigEndian(n, width)

WriteInteger(n) ==
  IF n >= 0 THEN WriteHead(Majors.unsigned, n) ELSE WriteHead(Majors.negative, -1 - n)

WriteOctets(major, s) == WriteHead(major, Len(s)) \o s

FloatPrefix == [single |-> 250, double |-> 251]

WriteFloat(f) ==
  CASE IsNaN(f) -> <<249>> \o BigEndian(62, 2)
    [] ~Finite(f) /\ ~IsNaN(f) -> <<249>> \o BigEndian(IF f.neg THEN 124 ELSE 60, 2)
    [] OTHER -> IF IsSingle(f) THEN <<FloatPrefix.single>> \o BigEndian(Fields(f, SingleBits), 2)
                               ELSE <<FloatPrefix.double>> \o BigEndian(Fields(f, HiddenBit), 3)

Concat(parts) == FoldLeft(LAMBDA acc, part : acc \o part, <<>>, parts)

RECURSIVE ToCbor(_)
ToCbor(v) ==
  CASE Type(v) = "null" -> <<246>>
    [] Type(v) = "boolean" -> <<IF v[2] THEN 245 ELSE 244>>
    [] Type(v) \in {"number_unsigned", "number_integer"} -> WriteInteger(v[2])
    [] Type(v) = "number_float" -> WriteFloat(v[2])
    [] Type(v) = "string" -> WriteOctets(Majors.string, v[2])
    [] Type(v) = "binary" -> WriteOctets(Majors.binary, v[2])
    [] Type(v) = "array" ->
         WriteHead(Majors.array, Len(v[2])) \o Concat([i \in DOMAIN v[2] |-> ToCbor(v[2][i])])
    [] Type(v) = "object" ->
         LET keys == SortedKeys(v[2])
         IN WriteHead(Majors.object, Len(keys))
            \o Concat([i \in DOMAIN keys |-> ToCbor(String(keys[i])) \o ToCbor(v[2][keys[i]])])

-----------------------------------------------------------------------------
(* The reader.  Reading from place i yields the value and the place after  *)
(* it, or an exception.                                                    *)

Read(v, next) == [value |-> v, next |-> next]
Refused(id) == Read(Throws(id), 0)
Failed(r) == Threw(r.value)

Ended(b, i) == i > Len(b)      \* get() returns eof

(* get_number: "width" octets, the high one first.                         *)
NumberAt(b, i, width) == FoldLeft(LAMBDA n, o : OctetBase * n + (o % OctetBase), 0, SubSeq(b, i, i + width - 1))

(* What an initial octet announces: its major type, the number with it and *)
(* the place after; 28..30 announce nothing, 31 an indefinite length.      *)
Malformed == [major |-> -1, n |-> 0, next |-> 0, indefinite |-> FALSE]

HeadOf(b, i, info, width) ==
  IF info \in 28..30 \/ Ended(b, i + width) THEN Malformed
  ELSE [major |-> b[i] \div 32,
        n |-> IF width = 0 THEN info ELSE NumberAt(b, i + 1, width),
        next |-> i + 1 + width,
        indefinite |-> info = Indefinite]

HeadAt(b, i) ==
  IF Ended(b, i) THEN Malformed
  ELSE HeadOf(b, i, b[i] % 32, IF b[i] % 32 \in 24..27 THEN (b[i] % 32) - Immediate ELSE 0)

AtBreak(b, i) == ~Ended(b, i) /\ b[i] = Break

(* get_cbor_string and get_cbor_binary: the octets, or chunks up to a      *)
(* break.  A chunk may have an indefinite length itself.                   *)
RECURSIVE OctetsFrom(_, _, _), ChunksFrom(_, _, _, _)
OctetsFrom(b, head, major) ==
  CASE head.major # major -> Refused(113)
    [] head.major = major /\ head.indefinite -> ChunksFrom(b, head.next, major, <<>>)
    [] OTHER -> IF Len(b) + 1 < head.next + head.n THEN Refused(110)
                ELSE Read(String(SubSeq(b, head.next, head.next + head.n - 1)), head.next + head.n)

ChunksFrom(b, i, major, result) ==
  LET chunk == OctetsFrom(b, HeadAt(b, i), major)
  IN IF AtBreak(b, i) THEN Read(String(result), i + 1)
     ELSE IF Failed(chunk) THEN chunk
     ELSE ChunksFrom(b, chunk.next, major, result \o chunk.value[2])

OctetsAt(b, i, major) == OctetsFrom(b, HeadAt(b, i), major)

AsBinary(r) == IF Failed(r) THEN r ELSE Read(Binary(r.value[2]), r.next)

(* Major type 7: what is not listed, 0xF7 undefined among it, is refused.  *)
SimpleAt(b, i) ==
  CASE b[i] = 244 -> Read(Boolean(FALSE), i + 1)
    [] b[i] = 245 -> Read(Boolean(TRUE), i + 1)
    [] b[i] = 246 -> Read(Null, i + 1)
    [] b[i] = 249 /\ ~Ended(b, i + 2) -> Read(Float(Half(NumberAt(b, i + 1, 2))), i + 3)
    [] b[i] = FloatPrefix.single /\ ~Ended(b, i + 2) -> Read(Float(OfFields(NumberAt(b, i + 1, 2), SingleBits)), i + 3)
    [] b[i] = FloatPrefix.double /\ ~Ended(b, i + 3) -> Read(Float(OfFields(NumberAt(b, i + 1, 3), HiddenBit)), i + 4)
    [] OTHER -> Refused(112)

(* How many items follow: a length of UIntMax is unknown_size(), the same  *)
(* as an indefinite one.                                                   *)
Unknown == -1
Count(head) == IF head.indefinite \/ head.n = UIntMax THEN Unknown ELSE head.n

(* parse_cbor_internal.  -1 - number wraps for the numbers past IntMax;    *)
(* tags are refused: from_cbor is called with cbor_tag_handler_t::error.   *)
(* get_cbor_array and get_cbor_object read the items left, or those up to  *)
(* a break; a key must be a string, and a repeated one takes the last      *)
(* value.                                                                  *)
RECURSIVE ItemFrom(_, _, _), ElementsFrom(_, _, _, _), MembersFrom(_, _, _, _)
ItemFrom(b, i, head) ==
  CASE Ended(b, i) -> Refused(110)
    [] ~Ended(b, i) /\ b[i] \div 32 = 7 -> SimpleAt(b, i)
    [] head.major = Majors.unsigned /\ ~head.indefinite -> Read(Unsigned(head.n), head.next)
    [] head.major = Majors.negative /\ ~head.indefinite -> Read(Integer(Wrap(UIntMax - head.n)), head.next)
    [] head.major = Majors.binary -> AsBinary(OctetsFrom(b, head, Majors.binary))
    [] head.major = Majors.string -> OctetsFrom(b, head, Majors.string)
    [] head.major = Majors.array -> ElementsFrom(b, Read(Array(<<>>), head.next), Count(head), <<>>)
    [] head.major = Majors.object -> MembersFrom(b, Read(Object(NoMembers), head.next), Count(head), NoMembers)
    [] OTHER -> Refused(112)

Left(left) == IF left = Unknown THEN left ELSE left - 1

(* "last" is what was read up to here.                                     *)
ElementsFrom(b, last, left, elements) ==
  IF Failed(last) THEN last
  ELSE IF left = 0 THEN Read(Array(elements), last.next)
  ELSE IF left = Unknown /\ AtBreak(b, last.next) THEN Read(Array(elements), last.next + 1)
  ELSE LET item == ItemFrom(b, last.next, HeadAt(b, last.next))
       IN ElementsFrom(b, item, Left(left), Append(elements, item.value))

MembersFrom(b, last, left, members) ==
  IF Failed(last) THEN last
  ELSE IF left = 0 THEN Read(Object(members), last.next)
  ELSE IF left = Unknown /\ AtBreak(b, last.next) THEN Read(Object(members), last.next + 1)
  ELSE LET key == OctetsAt(b, last.next, Majors.string)
           item == IF Failed(key) THEN key ELSE ItemFrom(b, key.next, HeadAt(b, key.next))
       IN MembersFrom(b, item, Left(left), (key.value[2] :> item.value) @@ members)

(* json::from_cbor: one item and nothing after it.                         *)
Whole(b, item) ==
  CASE Failed(item) -> item.value
    [] ~Failed(item) /\ item.next # Len(b) + 1 -> Throws(110)
    [] OTHER -> item.value

FromCbor(b) == Whole(b, ItemFrom(b, 1, HeadAt(b, 1)))

=============================================================================
