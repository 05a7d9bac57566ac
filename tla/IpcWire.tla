------------------------------ MODULE IpcWire ------------------------------
(***************************************************************************)
(* What travels between an application and the Agent: the JSON text of     *)
(* writeJson, the CBOR payload in its frame, and what receiveLoop makes of *)
(* the payload that comes back.  The text is typed octet by octet, so that *)
(* every text over an alphabet is met; so is a payload of an Agent whose   *)
(* encoder is not this library's.  IpcClient and EventDispatch take these  *)
(* conversions as given.                                                   *)
(*                                                                         *)
(* The names of the protocol's fields are one octet long here.             *)
(***************************************************************************)
EXTENDS JsonParser, JsonSerializer, JsonGrammar, Cbor

CONSTANTS TextAlphabets,     \* the octets a text is typed from and its length: [octets, max]
          Documents,         \* texts given whole
          PayloadAlphabets,  \* the same of a foreign payload
          Messages           \* the values a foreign Agent sends encoded by its own library

VARIABLES phase,      \* how far the message is
          alphabet,   \* the octets it is typed from
          text,       \* the application's data_json
          payload,    \* the octets of the datagram after the header
          declared,   \* the header's length field
          outcome     \* what became of the message at its receiver

vars == <<phase, alphabet, text, payload, declared, outcome>>

-----------------------------------------------------------------------------
(* The fields of the messages and the strings the code compares with.      *)

Op == <<111>>
Target == <<103>>
Kind == <<107>>
Topic == <<116>>
Args == <<97>>
Domain == <<109>>
Data == <<100>>
Proto == <<112>>
Evt == <<101>>
TypeName == <<121>>
Ok == <<75>>
OkUpper == <<85>>
Err == <<114>>
Msg == <<115>>
ReqId == <<113>>
CorrId == <<99>>
Result == <<117>>
Write == <<119>>
Writer == <<119, 114>>
DataName == Data
ATopic == <<84>>
AType == <<89>>

-----------------------------------------------------------------------------
(* The sender.                                                             *)

(* writeJson: data_json as JSON, or as a string when it does not parse.    *)
OrString(v, t) == IF Threw(v) THEN String(t) ELSE v
DataOf(t) == OrString(Parse(t), t)

(* j[key] = value for each field in turn, j a json without a value.        *)
Built(fields) == FoldLeft(LAMBDA j, field : Assign(j, field[1], field[2]), Null, fields)

WriteBody(t) ==
  LET target == Built(<< <<Kind, String(Writer)>>, <<Topic, String(ATopic)>> >>)
      args == Built(<< <<Domain, Integer(0)>> >>)
  IN Built(<< <<Op, String(Write)>>, <<Target, target>>, <<Args, args>>, <<Data, DataOf(t)>>,
              <<Proto, Integer(1)>> >>)

(* What DemoApp publishes: j["A_sourceID"] = {{...,1},{...,1}}, the time    *)
(* the same way, and the fields of the message.                            *)
SampleOf(seconds, nanoseconds, running) ==
  LET pair(key, v) == FromList(<<String(key), v>>)
      sourceId == FromList(<<pair(<<82>>, Integer(1)), pair(<<73>>, Integer(1))>>)
      time == FromList(<<pair(<<83>>, Integer(seconds)), pair(<<78>>, Integer(nanoseconds))>>)
  IN Built(<< <<Op, sourceId>>, <<Args, time>>, <<Data, Boolean(running)>> >>)

(* sendRequest: the text of the body is parsed again and encoded.          *)
Encoded(body) == ToCbor(Parse(body))

-----------------------------------------------------------------------------
(* The receiver.                                                           *)

(* Plausible bug: what there is of a payload that is too short is used.    *)
ReceivedAnyway(octets, length) ==
  IF length > Len(octets) THEN octets ELSE SubSeq(octets, 1, length)

(* DkmRtpIpc::receive: a datagram shorter than its header says is ignored, *)
(* octets past the length it says are cut off.                             *)
Received(octets, length) ==
  IF length > Len(octets) THEN <<>> ELSE SubSeq(octets, 1, length)

HasValue(j, key, v) == HasMember(j, key) /\ Equal(j[2][key], v)

IsEvent(j) ==
  \/ HasValue(j, Evt, String(DataName))
  \/ HasValue(j, Op, String(DataName))
  \/ ~HasMember(j, Ok) /\ HasMember(j, Topic) /\ HasMember(j, Data)

(* The first value that throws ends the handler: outside the try block, so *)
(* the exception leaves receiveLoop and the program terminates.            *)
Handler(values, result) == IF \E i \in DOMAIN values : Threw(values[i]) THEN <<"terminated">> ELSE result

(* data_json of an event: a string as it is, anything else as its text.    *)
DataJson(j) ==
  CASE ~HasMember(j, Data) -> <<>>
    [] HasMember(j, Data) /\ Type(j[2][Data]) = "string" -> j[2][Data][2]
    [] OTHER -> Dump(j[2][Data])[2]

Event(j) ==
  LET topic == ValueOr(j, Topic, String(<<>>))
      type == ValueOr(j, TypeName, String(<<>>))
  IN Handler(<<topic, type>>, <<"event", topic, type, DataJson(j)>>)

(* Plausible bug: a reply is taken to have one of the two numbers.         *)
RequiredId(j) ==
  CASE HasMember(j, ReqId) -> GetArithmetic(j[2][ReqId])
    [] ~HasMember(j, ReqId) /\ HasMember(j, CorrId) -> GetArithmetic(j[2][CorrId])
    [] OTHER -> Throws(403)

(* The number a reply is matched by: req_id, else corr_id, else 0.         *)
RequestId(j) ==
  CASE HasMember(j, ReqId) -> GetArithmetic(j[2][ReqId])
    [] ~HasMember(j, ReqId) /\ HasMember(j, CorrId) -> GetArithmetic(j[2][CorrId])
    [] OTHER -> Integer(0)

(* ok || Ok, err, msg and, for a hello, proto of the reply or its result.  *)
OkValue(j) ==
  LET ok == ValueOr(j, Ok, Boolean(FALSE))
  IN IF Threw(ok) \/ ok[2] THEN ok ELSE ValueOr(j, OkUpper, Boolean(FALSE))

HelloProto(j) ==
  LET own == ValueOr(j, Proto, Integer(-1))
  IN IF ~Threw(own) /\ HasMember(j, Result) /\ HasMember(j[2][Result], Proto)
     THEN GetArithmetic(j[2][Result][2][Proto]) ELSE own

Reply(j, hello) ==
  LET values == <<OkValue(j), ValueOr(j, Err, Integer(0)),
                  ValueOr(j, Msg, String(<<79, 75>>))>>
                \o (IF hello THEN <<HelloProto(j)>> ELSE <<>>)
  IN Handler(values, <<"reply", values>>)

(* receiveLoop on the payload it was handed.  Whether a request waits for  *)
(* the reply, and which kind, is IpcClient's matter.                       *)
Dispatch(j, waiting) ==
  CASE Threw(j) \/ Threw(Dump(j)) -> <<"undecoded">>
    [] ~Threw(j) /\ ~Threw(Dump(j)) /\ IsEvent(j) -> Event(j)
    [] OTHER -> IF Threw(RequestId(j)) THEN <<"terminated">>
                ELSE IF waiting = "none" THEN <<"unmatched">>
                ELSE Reply(j, waiting = "hello")

Handle(octets, waiting) ==
  IF octets = <<>> THEN <<"ignored">> ELSE Dispatch(FromCbor(octets), waiting)

-----------------------------------------------------------------------------
(* The run of one message.                                                 *)

Init ==
  /\ \/ phase = "typing" /\ alphabet \in TextAlphabets
     \/ phase = "composing" /\ alphabet \in PayloadAlphabets
  /\ text = <<>> /\ payload = <<>> /\ declared = 0 /\ outcome = <<"none">>

(* A text that no continuation makes valid is typed no further.            *)
Stuck(t) ==
  \E run \in {ParserRun(t)} :
    /\ run.control = "error"
    /\ run.last.type # "end_of_input"
    /\ run.last.type = "parse_error" => run.last.next <= Len(t)

TypeOctet ==
  /\ phase = "typing" /\ Len(text) < alphabet.max /\ ~Stuck(text)
  /\ \E c \in alphabet.octets : text' = Append(text, c)
  /\ UNCHANGED <<phase, alphabet, payload, declared, outcome>>

GiveDocument ==
  /\ phase = "typing" /\ text = <<>>
  /\ text' \in Documents \cup {Dump(SampleOf(s, 999, TRUE))[2] : s \in {0, 86399}}
  /\ UNCHANGED <<phase, alphabet, payload, declared, outcome>>

(* writeJson: dump throws to the caller when the string is not UTF-8.      *)
WriteJson ==
  /\ phase = "typing"
  /\ \E body \in {Dump(WriteBody(text))} :
       IF Threw(body)
       THEN /\ phase' = "done" /\ outcome' = <<"threw">>
            /\ UNCHANGED <<payload, declared>>
       ELSE /\ payload' = Encoded(body[2]) /\ declared' = Len(payload')
            /\ phase' = "atAgent"
            /\ UNCHANGED outcome
  /\ UNCHANGED <<alphabet, text>>

EventOf(sample) ==
  Object(Evt :> String(DataName) @@ Topic :> String(ATopic) @@ TypeName :> String(AType) @@ Data :> sample)

(* The Agent hands the sample it was given to a subscriber.                *)
Publish ==
  /\ phase = "atAgent"
  /\ payload' = ToCbor(EventOf(Member(FromCbor(payload), Data))) /\ declared' = Len(payload')
  /\ phase' = "arriving"
  /\ UNCHANGED <<alphabet, text, outcome>>

(* A foreign payload.                                                      *)
ComposeOctet ==
  /\ phase = "composing" /\ Len(payload) < alphabet.max
  /\ \E c \in alphabet.octets : payload' = Append(payload, c)
  /\ declared' = Len(payload')
  /\ UNCHANGED <<phase, alphabet, text, outcome>>

ComposeMessage ==
  /\ phase = "composing" /\ payload = <<>>
  /\ \E v \in Messages : payload' = ToCbor(v)
  /\ declared' = Len(payload')
  /\ UNCHANGED <<phase, alphabet, text, outcome>>

Send == phase = "composing" /\ phase' = "arriving" /\ UNCHANGED <<alphabet, text, payload, declared, outcome>>

(* A header whose length is not that of the payload.                       *)
Misdeclare ==
  /\ phase = "arriving" /\ declared = Len(payload) /\ payload # <<>>
  /\ declared' \in {Len(payload) - 1, Len(payload) + 1}
  /\ UNCHANGED <<phase, alphabet, text, payload, outcome>>

Receive ==
  /\ phase = "arriving"
  /\ \E waiting \in {"none", "simple", "hello"} :
       outcome' = Handle(Received(payload, declared), waiting)
  /\ phase' = "done"
  /\ UNCHANGED <<alphabet, text, payload, declared>>

Next == TypeOctet \/ GiveDocument \/ WriteJson \/ Publish
        \/ ComposeOctet \/ ComposeMessage \/ Send \/ Misdeclare \/ Receive

Spec == Init /\ [][Next]_vars

-----------------------------------------------------------------------------
(* Properties.                                                             *)

(* The parser decides what RFC 8259 says: a text it takes means the value  *)
(* it returns, types of numbers included, and one it refuses means none    *)
(* (json::parse, the tokens of lexer::scan, sax_parse_internal).           *)
ParseAgrees ==
  phase = "typing" => TextMeaning(text) = {v \in {Parse(text)} : ~Threw(v)}

(* The value at hand, if any: of the text typed, of the payload composed.  *)
AtHand ==
  CASE phase = "typing" -> {DataOf(text)}
    [] phase = "composing" -> {v \in {FromCbor(payload)} : ~Threw(v)}
    [] OTHER -> {}

(* Neither format tells a signed number that is not negative from an       *)
(* unsigned one; text has no word for NaN and the infinities, and none for *)
(* binary data.                                                            *)
RECURSIVE Canonical(_)
Canonical(v) ==
  CASE Type(v) = "number_integer" /\ v[2] >= 0 -> Unsigned(v[2])
    [] Type(v) = "array" -> Array([i \in DOMAIN v[2] |-> Canonical(v[2][i])])
    [] Type(v) = "object" -> Object([k \in DOMAIN v[2] |-> Canonical(v[2][k])])
    [] OTHER -> v

RECURSIVE InText(_)
InText(v) ==
  CASE Type(v) = "number_float" /\ ~Finite(v[2]) -> Null
    [] Type(v) = "binary" ->
         Object(<<98, 121, 116, 101, 115>> :> Array([i \in DOMAIN v[2] |-> Unsigned(v[2][i])])
                @@ <<115, 117, 98, 116, 121, 112, 101>> :> Null)
    [] Type(v) = "array" -> Array([i \in DOMAIN v[2] |-> InText(v[2][i])])
    [] Type(v) = "object" -> Object([k \in DOMAIN v[2] |-> InText(v[2][k])])
    [] OTHER -> v

(* What dump writes, parse reads back as the same value, a float to the    *)
(* last bit and from no more digits than a float of its precision needs;   *)
(* dump throws for the strings that are not UTF-8 and for no others, and   *)
(* never writes past string_buffer (serializer::dump, dump_escaped,        *)
(* decode, grisu2).                                                        *)
IsShort(f) == Finite(f) /\ ~IsZero(f) => Len(ShortestDigits(f).digits) <= MaxDigits10
ReadsBack(v, dumped) ==
  /\ Threw(dumped) <=> \E s \in StringsOf(v) : ~IsUtf8(s)
  /\ \A s \in StringsOf(v) : ~DumpEscaped(s).overrun
  /\ Type(v) = "number_float" => IsShort(v[2])
  /\ ~Threw(dumped) => Canonical(Parse(dumped[2])) = Canonical(InText(v))

TextRoundTrip == \A v \in AtHand : ReadsBack(v, Dump(v))

(* from_cbor inverts to_cbor, and no octets from_cbor takes are the        *)
(* beginning of others it takes: a payload that lost its end is never      *)
(* taken for a shorter message.                                            *)
CborRoundTrip ==
  \A v \in AtHand :
    /\ Canonical(FromCbor(ToCbor(v))) = Canonical(v)
    /\ \A octets \in {ToCbor(v)} \cup (IF phase = "composing" THEN {payload} ELSE {}) :
         \A n \in 0..Len(octets) - 1 : Threw(FromCbor(SubSeq(octets, 1, n)))

FromText == alphabet \in TextAlphabets

(* An application's data reaches a subscriber unchanged: a JSON text as a  *)
(* text of the same value (a JSON string loses its quotes), any other      *)
(* UTF-8 text octet for octet; writeJson throws for the rest, and a        *)
(* datagram whose header disagrees with its length delivers nothing.       *)
Delivered ==
  phase = "done" /\ FromText =>
    \A v \in {DataOf(text)} :
      CASE \E s \in StringsOf(v) : ~IsUtf8(s) -> outcome = <<"threw">>
        [] outcome # <<"threw">> /\ declared # Len(payload) -> outcome \in {<<"ignored">>, <<"undecoded">>}
        [] OTHER ->
             /\ outcome[1] = "event" /\ outcome[2] = String(ATopic) /\ outcome[3] = String(AType)
             /\ IF Type(v) = "string" THEN outcome[4] = v[2]
                ELSE Canonical(Parse(outcome[4])) = Canonical(InText(v))

(* The fields the receiver reads have the types it converts them to.       *)
IsFlexible(v) == GetArithmetic(v) # Throws(302)
WellTyped(j) ==
  /\ Type(j) = "object"
  /\ \A k \in DOMAIN j[2] :
       /\ k \in {Topic, TypeName, Msg} => Type(j[2][k]) = "string"
       /\ k \in {Ok, OkUpper} => Type(j[2][k]) = "boolean"
       /\ k \in {Err, Proto, ReqId, CorrId} => IsFlexible(j[2][k])
       /\ k = Result /\ HasMember(j[2][k], Proto) => IsFlexible(j[2][k][2][Proto])

(* No message whose fields have the types of the protocol, whatever is     *)
(* missing or added, ends the receive thread; nor does any payload that    *)
(* cannot be decoded (receiveLoop converts outside its try block).         *)
Survives ==
  phase = "done" /\ outcome = <<"terminated">> =>
    \A j \in {FromCbor(Received(payload, declared))} : ~Threw(j) /\ ~WellTyped(j)

=============================================================================
