------------------------------ MODULE CliClient ------------------------------
(***************************************************************************)
(* The command-line client (cli/client.rs, cli/interactive.rs, bin/cli.rs) *)
(* against a server that answers each request with one reply.  The client  *)
(* encodes and decodes with one codec, so its buffer holds, at different   *)
(* times, the request being built and the replies being read; the reply    *)
(* arrives in chunks, cut anywhere.                                        *)
(***************************************************************************)
EXTENDS RespCodec

CONSTANT Sessions   \* sequences of commands with their replies: [cmd, reply]

VARIABLES
  session,   \* what the user types and the server answers
  turn,      \* how many commands were typed
  codec,     \* the buffer of the client's codec
  request,   \* bytes written to the server and not yet read by it
  wire,      \* bytes of replies not yet read by the client
  open,      \* the server has not closed the connection
  cst,       \* off, prompt, reading, exited
  shown      \* what was printed for each command

cliVars == <<session, turn, codec, request, wire, open, cst, shown>>

CurrentReply == session[turn].reply
Failure == [type |-> "failure"]

\* encode_value, on a reply; a simple string or an error is written as it is.
RECURSIVE encode_value(_)
encode_value(v) ==
  CASE v.type = "simple" -> <<"+">> \o v.bytes \o CRLF
    [] v.type = "error" -> <<"-">> \o v.bytes \o CRLF
    [] v.type = "integer" -> <<":", ToString(v.n)>> \o CRLF
    [] v.type = "nil" -> <<"$", "-1">> \o CRLF
    [] v.type = "bulk" -> encode_bulk(v.bytes)
    [] v.type = "array" ->
         <<"*", ToString(Len(v.elements))>> \o CRLF
           \o FlattenSeq([i \in DOMAIN v.elements |-> encode_value(v.elements[i])])

\* Mutant of encode_command_array: encode does not clear the buffer on exit.
encode_command_array_keeps(cmd) == [bytes |-> encode(cmd), buffer |-> encode(cmd)]

\* The request, and the buffer that RespCodec::encode leaves.
encode_command_array(cmd) == [bytes |-> encode(cmd), buffer |-> <<>>]

decode_resp_value(buf, data) ==
  IF Len(buf) + Len(data) > DefaultLimits.max_buffer_size THEN [kind |-> "error", buffer |-> buf]
  ELSE LET b == buf \o data
           r == parse_resp_value(b, 1, DefaultLimits)
       IN IF r.kind = "value"
          THEN [kind |-> "value", v |-> r.v, buffer |-> SubSeq(b, r.pos, Len(b))]
          ELSE [kind |-> r.kind, buffer |-> b]

\* An error, in an array too, is displayed as a string behind a prefix of its own.
RECURSIVE convert_resp_to_response(_)
convert_resp_to_response(v) ==
  CASE v.type = "error" -> [type |-> "simple", bytes |-> <<"ERR">> \o v.bytes]
    [] v.type = "array" ->
         [v EXCEPT !.elements = [i \in DOMAIN @ |-> convert_resp_to_response(@[i])]]
    [] OTHER -> v

-----------------------------------------------------------------------------

CliInit ==
  /\ session \in Sessions
  /\ turn = 0
  /\ codec = <<>> /\ request = <<>> /\ wire = <<>>
  /\ open = TRUE
  /\ cst = "prompt"
  /\ shown = <<>>

CliOff ==
  /\ session = <<>> /\ turn = 0
  /\ codec = <<>> /\ request = <<>> /\ wire = <<>>
  /\ open = FALSE
  /\ cst = "off"
  /\ shown = <<>>

\* parse_and_execute, execute_command: the line is sent; once the server has
\* closed the connection the write may fail.
execute_command ==
  /\ cst = "prompt" /\ turn < Len(session)
  /\ turn' = turn + 1
  /\ LET e == encode_command_array(session[turn'].cmd) IN
       /\ codec' = e.buffer
       /\ \/ /\ request' = IF open THEN request \o e.bytes ELSE request
             /\ cst' = "reading"
             /\ UNCHANGED shown
          \/ /\ ~open
             /\ shown' = Append(shown, Failure)
             /\ UNCHANGED <<cst, request>>
  /\ UNCHANGED <<session, wire, open>>

\* The server reads the request and writes its reply; QUIT closes.
ServerReplies ==
  LET r == decode_with_frame(<<>>, request, ConfiguredLimits) IN
  /\ open /\ r.kind = "value"
  /\ request' = r.buffer
  /\ wire' = wire \o encode_value(CurrentReply)
  /\ open' = ~is_terminal(r.cmd)
  /\ UNCHANGED <<session, turn, codec, cst, shown>>

\* The server closes an idle connection, or shuts down; what it had written may
\* be lost.
ServerCloses ==
  /\ open /\ cst # "exited"
  /\ open' = FALSE
  /\ wire' \in {wire, <<>>}
  /\ UNCHANGED <<session, turn, codec, request, cst, shown>>

\* What read_response does with a decoder's answer.
Show(r) ==
  /\ codec' = r.buffer
  /\ \/ r.kind = "value" /\ cst' = "prompt" /\ shown' = Append(shown, convert_resp_to_response(r.v))
     \/ r.kind = "error" /\ cst' = "prompt" /\ shown' = Append(shown, Failure)
     \/ r.kind = "more" /\ UNCHANGED <<cst, shown>>

\* A turn of read_response's loop: first what the codec already holds, then one
\* read.
read_response ==
  /\ cst = "reading"
  /\ LET r == decode_resp_value(codec, <<>>) IN
       \/ r.kind # "more" /\ Show(r) /\ UNCHANGED wire
       \/ /\ r.kind = "more"
          /\ \E n \in 1 .. Min({ReadSize, Len(wire)}) :
               /\ Show(decode_resp_value(codec, SubSeq(wire, 1, n)))
               /\ wire' = SubSeq(wire, n + 1, Len(wire))
  /\ UNCHANGED <<session, turn, request, open>>

\* read returns 0.
ReadsEof ==
  /\ cst = "reading" /\ ~open /\ wire = <<>>
  /\ decode_resp_value(codec, <<>>).kind = "more"
  /\ cst' = "prompt"
  /\ shown' = Append(shown, Failure)
  /\ UNCHANGED <<session, turn, codec, request, wire, open>>

\* quit, exit or end of input at the prompt; the one-shot commands of bin/cli.rs
\* end here after their first turn.
CliExit ==
  /\ cst = "prompt" /\ turn = Len(session)
  /\ cst' = "exited"
  /\ UNCHANGED <<session, turn, codec, request, wire, open, shown>>

CliNext == execute_command \/ ServerReplies \/ ServerCloses \/ read_response \/ ReadsEof \/ CliExit

-----------------------------------------------------------------------------
(* Properties *)

\* A reply the client can decode: one line, and within the limits of its codec.
RECURSIVE Decodable(_)
Decodable(v) ==
  CASE v.type \in {"simple", "error"} ->
         \A i \in 1 .. Len(v.bytes) - 1 : SubSeq(v.bytes, i, i + 1) # CRLF
    [] v.type = "bulk" -> Len(v.bytes) <= DefaultLimits.max_bulk_size
    [] v.type = "array" -> /\ Len(v.elements) <= DefaultLimits.max_array_length
                           /\ \A i \in DOMAIN v.elements : Decodable(v.elements[i])
    [] OTHER -> TRUE

Fits(v) ==
  Decodable(v) /\ Len(encode_value(v)) + ReadSize <= DefaultLimits.max_buffer_size

\* Every command is shown its own reply, however the replies are cut into reads:
\* not its own request, not the rest of an earlier reply.  It holds up to the
\* first reply the client cannot decode (a second line, a length over its own
\* limits), whose remaining bytes answer the commands after it, and a command
\* fails before that only when the server has closed the connection.
RepliesPaired ==
  \A i \in DOMAIN shown :
    (\A j \in 1 .. i : Fits(session[j].reply)) =>
      \/ shown[i] = convert_resp_to_response(session[i].reply)
      \/ shown[i] = Failure /\ ~open
=============================================================================
