----------------------------- MODULE JsonParser ----------------------------
(***************************************************************************)
(* nlohmann::detail::parser with json_sax_dom_parser: json::parse(text).   *)
(* The parser is a state machine over the tokens of the text.  Its control *)
(* point says what sax_parse_internal does with the next token:            *)
(*                                                                         *)
(*   "value"         the top of the loop: a value must start               *)
(*   "objectFirst"   after {: a key or }                                   *)
(*   "arrayFirst"    after [: a value or ]                                 *)
(*   "colon"         after a key                                           *)
(*   "key"           after a comma in an object                            *)
(*   "evaluate"      after a value inside a container: a comma or the end  *)
(*   "strict"        after the outermost value: the end of the input       *)
(*   "done", "error"                                                       *)
(*                                                                         *)
(* stack is ref_stack, innermost container last, each with the key         *)
(* object_element stands for; the vector "states" is the containers' type. *)
(***************************************************************************)
EXTENDS JsonLexer

Container(v) == [value |-> v, key |-> <<>>]

(* handle_value: the value becomes the root, the next element of the array *)
(* or the member under the pending key, in place of one already there.     *)
HandleValue(p, v) ==
  LET top == Last(p.stack)
      grown == IF Type(top.value) = "array" THEN Array(Append(top.value[2], v))
                                            ELSE Object((top.key :> v) @@ top.value[2])
  IN IF p.stack = <<>> THEN [p EXCEPT !.root = v, !.control = "strict"]
     ELSE [p EXCEPT !.stack[Len(p.stack)].value = grown, !.control = "evaluate"]

(* start_object and start_array.                                           *)
Open(p, v, control) ==
  [p EXCEPT !.stack = Append(@, Container(v)), !.control = control]

(* end_object and end_array: the container is a finished value.            *)
Close(p) == HandleValue([p EXCEPT !.stack = Front(@)], Last(p.stack).value)

Key(p, token) ==
  [p EXCEPT !.stack[Len(p.stack)].key = token.value[2], !.control = "colon"]

Fail(p) == [p EXCEPT !.control = "error"]

IsFinite(v) == Type(v) # "number_float" \/ Finite(v[2])

(* null, boolean, number and string events: the value is whole.            *)
Scalar(p, token) ==
  IF IsFinite(token.value) THEN HandleValue(p, token.value) ELSE Fail(p)

StartValue(p, token) ==
  CASE token.type = "begin_object" -> Open(p, Object(NoMembers), "objectFirst")
    [] token.type = "begin_array" -> Open(p, Array(<<>>), "arrayFirst")
    [] token.type \in {"literal", "value_string", "value_number"} -> Scalar(p, token)
    [] OTHER -> Fail(p)

(* Plausible bug: a comma may be followed by the end of the array.         *)
TrailingComma(p, token) ==
  LET inArray == Type(Last(p.stack).value) = "array"
  IN CASE token.type = "value_separator" ->
            [p EXCEPT !.control = IF inArray THEN "arrayFirst" ELSE "key"]
       [] token.type = (IF inArray THEN "end_array" ELSE "end_object") -> Close(p)
       [] OTHER -> Fail(p)

(* After a value: a comma goes on, the bracket of the container ends it.   *)
Evaluate(p, token) ==
  LET inArray == Type(Last(p.stack).value) = "array"
  IN CASE token.type = "value_separator" ->
            [p EXCEPT !.control = IF inArray THEN "value" ELSE "key"]
       [] token.type = (IF inArray THEN "end_array" ELSE "end_object") -> Close(p)
       [] OTHER -> Fail(p)

Step(p, token) ==
  CASE p.control = "value" -> StartValue(p, token)
    [] p.control = "arrayFirst" ->
         IF token.type = "end_array" THEN Close(p) ELSE StartValue(p, token)
    [] p.control = "objectFirst" /\ token.type = "end_object" -> Close(p)
    [] p.control \in {"objectFirst", "key"} /\ token.type = "value_string" -> Key(p, token)
    [] p.control = "colon" /\ token.type = "name_separator" -> [p EXCEPT !.control = "value"]
    [] p.control = "evaluate" -> Evaluate(p, token)
    [] p.control = "strict" /\ token.type = "end_of_input" -> [p EXCEPT !.control = "done"]
    [] OTHER -> Fail(p)

(* get_token, until the input ends or the lexer rejects it.                *)
RECURSIVE TokensFrom(_, _)
TokensFrom(text, token) ==
  IF token.type \in {"end_of_input", "parse_error"} THEN <<token>>
  ELSE <<token>> \o TokensFrom(text, Scan(text, token.next))

Tokens(text) == TokensFrom(text, Scan(text, FirstToken(text)))

NoToken == [type |-> "uninitialized", next |-> 1]
StartParser == [root |-> Null, stack |-> <<>>, control |-> "value", last |-> NoToken]

(* The parser's state when it stops, at the end or at the first error, and *)
(* the token it stopped at.                                                *)
Advance(p, token) ==
  IF p.control \in {"done", "error"} THEN p ELSE Step([p EXCEPT !.last = token], token)

ParserRun(text) ==
  IF BomErrors(text) = {} THEN FoldLeft(Advance, StartParser, Tokens(text))
  ELSE [StartParser EXCEPT !.control = "error", !.last = [type |-> "parse_error", next |-> Min(BomErrors(text))]]

(* json::parse: the document, or parse_error 101 (out_of_range 406 for a   *)
(* number past the largest double is an exception like it).                *)
Document(run) == IF run.control = "done" THEN run.root ELSE Throws(101)
Parse(text) == Document(ParserRun(text))

=============================================================================
