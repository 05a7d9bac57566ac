------------------------------ MODULE MCIpcWire -----------------------------
(* A model-checking instance of IpcWire.                                   *)
EXTENDS IpcWire

AtMost(octets, max) == [octets |-> octets, max |-> max]

\* One alphabet for each part of the grammar.
Alphabets ==
  { AtMost({91, 93, 44, 32, 49}, 5),              \* arrays:   [ ] , space 1
    AtMost({123, 125, 34, 58, 49}, 6),            \* objects:  { } " : 1
    AtMost({45, 43, 48, 49, 46, 101}, 5),         \* numbers:  - + 0 1 . e
    AtMost({34, 92, 117, 100, 56, 99}, 5),        \* escapes:  " \ u d 8 c
    AtMost({34, 92, 110, 47, 10, 127}, 5),        \* " \ n / newline DEL
    AtMost({34, 194, 128, 224, 160, 237, 159}, 5),           \* UTF-8 of 2 and 3 octets
    AtMost({34, 240, 144, 191, 244, 143, 241}, 6),           \* UTF-8 of 4 octets
    AtMost({116, 114, 117, 101, 102, 97, 108, 115, 110}, 5), \* true, false, null
    AtMost({239, 187, 191, 49, 9}, 5) }           \* byte order mark, 1, tab

Texts ==
  { <<123, 34, 98, 34, 58, 123, 34, 97, 34, 58, 91, 49, 44, 45, 50, 93, 125, 44, 34, 97, 34, 58, 110, 117, 108, 108, 125>>,
                                       \* {"b":{"a":[1,-2]},"a":null}
    <<123, 34, 97, 34, 58, 91, 49, 93, 44, 34, 97, 34, 58, 50, 125>>,   \* {"a":[1],"a":2}
    <<34, 92, 117, 100, 56, 52, 53, 92, 117, 100, 99, 57, 67, 34>>,     \* "\ud845\udc9C"
    <<34, 92, 117, 100, 56, 48, 48, 92, 117, 48, 48, 52, 49, 34>>,      \* "\ud800\u0041"
    <<34, 92, 117, 68, 67, 48, 48, 34>>, <<34, 92, 117, 50, 48, 65, 67, 34>>,   \* "\uDC00" "\u20AC"
    <<1, 2, 31, 32, 127, 1>>,                                           \* controls, no JSON
    <<194, 169, 32, 239, 191, 189, 32, 244, 143, 191, 191>>,            \* UTF-8, no JSON
    <<49, 48, 52, 56, 53, 55, 54>>, <<45, 53, 50, 52, 50, 56, 56>>, <<45, 53, 50, 52, 50, 56, 57>>,
                                       \* UIntMax + 1, the least integer, and one below
    <<91, 50, 52, 44, 50, 51, 44, 51, 50, 44, 49, 48, 50, 52, 44, 45, 50, 52, 44, 45, 50, 53, 93>>,
                                       \* [24,23,32,1024,-24,-25]
    <<91, 48, 46, 53, 44, 48, 46, 49, 44, 49, 50, 46, 53, 44, 49, 101, 45, 51, 93>>,
                                       \* [0.5,0.1,12.5,1e-3]
    <<56, 49, 50, 54, 52, 54, 52>>, <<56, 50, 53, 55, 53, 51, 53>>, <<56, 50, 53, 55, 53, 51, 54>>, <<49, 101, 49, 51>>,
                                       \* the largest double, below and at the middle to infinity, far past
    <<48, 46, 48, 48, 48, 50, 52, 52, 49, 52, 48>>, <<48, 46, 48, 48, 48, 55, 51, 50, 52, 50, 50>>, <<49, 101, 45, 49, 51>> }
                                       \* the middles below and above the smallest double, far below

\* One set of initial octets and contents for each group of types.
Foreign ==
  { AtMost({0, 23, 24, 25, 32, 56, 128, 130}, 4),           \* numbers, arrays
    AtMost({95, 65, 1, 255, 127, 97, 195}, 4),              \* strings, their chunks
    AtMost({159, 255, 129, 246, 155, 127}, 4),              \* arrays of both lengths
    AtMost({191, 161, 97, 255, 1, 96}, 4),                  \* objects of both lengths
    AtMost({249, 1, 3, 0, 28, 30}, 3),                      \* half precision
    AtMost({250, 251, 1, 30, 0}, 4),                        \* single and double precision
    AtMost({247, 28, 192, 216, 1, 31}, 3) }                 \* undefined, reserved, tags

Say(k, v) == k :> v
Samples ==
  LET event == Say(Topic, String(ATopic)) @@ Say(TypeName, String(AType))
      values == {Unsigned(1), Null, String(<<115>>), Float(NaN), Binary(<<1, 2>>),
                 String(<<255>>), Array(<<Boolean(TRUE), Object(NoMembers)>>)}
      pick == {Integer(-1), String(<<>>), Boolean(TRUE), Null, Float(Infinity(FALSE))}
  IN {Object(event @@ Say(Data, v)) : v \in values}
     \cup {Object(event @@ Say(Evt, String(DataName)))}
     \cup {Object(Say(Ok, v) @@ Say(Err, w) @@ Say(Msg, String(<<115>>))) : v \in pick, w \in pick}
     \cup {Object(Say(ReqId, v) @@ Say(Result, w)) : v \in pick, w \in pick \cup {Object(Say(Proto, Unsigned(2)))}}
     \cup {Object(Say(CorrId, v) @@ Say(OkUpper, Boolean(TRUE)) @@ Say(Proto, v)) : v \in pick}
     \cup {Object(Say(Op, String(DataName)) @@ Say(Topic, v)) : v \in pick}
     \cup {Array(<<>>), Unsigned(3), Object(NoMembers), FloatOf(TRUE, 15, -1)}
     \* every finite float
     \cup {Float([neg |-> n, E |-> e, F |-> f]) : n \in BOOLEAN, e \in 0..InfinityE - 1, f \in 0..HiddenBit - 1}
=============================================================================
