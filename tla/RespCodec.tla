------------------------------ MODULE RespCodec ------------------------------
(***************************************************************************)
(* The RESP codec (network/protocol.rs) between the socket and the         *)
(* commands: a client's bytes arrive in chunks, cut anywhere, and          *)
(* process_buffer (network/server.rs) takes the commands out of the        *)
(* codec's buffer.  The frames it hands to the AOF are read back, in       *)
(* chunks of another size, by replay_aof_file (storage/persistence.rs).    *)
(*                                                                         *)
(* A byte is a string; a decimal number counts as one byte, since a line   *)
(* is looked at only when it is complete.                                  *)
(***************************************************************************)
EXTENDS Integers, Sequences, FiniteSets, SequencesExt

CONSTANTS
  Scripts,            \* what clients send: commands, then a tail
  ReadSize,           \* the handler's read buffer, 4096
  FileChunk,          \* replay's read buffer, 64 KiB
  ConfiguredLimits,   \* config.network's, which a connection decodes with
  DefaultLimits       \* CodecLimits::default(), which replay and the client do

Number == [n \in {"-2", "-1", "0", "1", "2", "3", "4", "5"} |->
             CHOOSE i \in -2 .. 5 : ToString(i) = n]
NotUtf8 == "0xFF"
CRLF == <<"CR", "LF">>
\* str::to_uppercase, on the letters in use.
Upper == [q |-> "Q", g |-> "G", s |-> "S"]

CodecLimits == [max_bulk_size : Nat, max_array_length : Nat, max_buffer_size : Nat]

ASSUME CodecAssumption ==
  /\ {ReadSize, FileChunk} \subseteq Nat \ {0}
  /\ {ConfiguredLimits, DefaultLimits} \subseteq CodecLimits

-----------------------------------------------------------------------------
(* Parsing.  A parser looks at b from position p on, with the codec's      *)
(* limits; the result is a value and the position behind it, an error, or  *)
(* the need for more data.                                                 *)

More == [kind |-> "more"]
Error == [kind |-> "error"]
Value(v, p) == [kind |-> "value", v |-> v, pos |-> p]
Then(r, Parse(_, _)) == IF r.kind = "value" THEN Parse(r.v, r.pos) ELSE r

read_line(b, p) ==
  LET ends == {i \in p .. Len(b) - 1 : SubSeq(b, i, i + 1) = CRLF} IN
  IF ends = {} THEN More
  ELSE LET line == SubSeq(b, p, Min(ends) - 1) IN
       IF NotUtf8 \in Range(line) THEN Error ELSE Value(line, Min(ends) + 2)

IsNumber(line) == Len(line) = 1 /\ line[1] \in DOMAIN Number

parse_line(b, p, type) ==
  Then(read_line(b, p), LAMBDA line, q : Value([type |-> type, bytes |-> line], q))

parse_integer(b, p) ==
  Then(read_line(b, p), LAMBDA line, q :
    IF IsNumber(line) THEN Value([type |-> "integer", n |-> Number[line[1]]], q) ELSE Error)

\* A bulk string of n bytes at q; what is missing may be its terminator only.
bulk_payload(b, q, n) ==
  IF Len(b) - q + 1 < n + 2 THEN More
  ELSE IF SubSeq(b, q + n, q + n + 1) # CRLF THEN Error
  ELSE Value([type |-> "bulk", bytes |-> SubSeq(b, q, q + n - 1)], q + n + 2)

\* Mutant of parse_bulk_string: the terminator is not waited for.
parse_bulk_string_short(b, p, limits) ==
  Then(read_line(b, p), LAMBDA line, q :
    IF ~IsNumber(line) THEN Error
    ELSE LET n == Number[line[1]] IN
      CASE n = -1 -> Value([type |-> "nil"], q)
        [] n < -1 \/ n > limits.max_bulk_size -> Error
        [] n \in 0 .. limits.max_bulk_size ->
             IF Len(b) - q + 1 \in n .. n + 1 THEN Error ELSE bulk_payload(b, q, n))

parse_bulk_string(b, p, limits) ==
  Then(read_line(b, p), LAMBDA line, q :
    IF ~IsNumber(line) THEN Error
    ELSE LET n == Number[line[1]] IN
      CASE n = -1 -> Value([type |-> "nil"], q)
        [] n < -1 \/ n > limits.max_bulk_size -> Error
        [] n \in 0 .. limits.max_bulk_size -> bulk_payload(b, q, n))

RECURSIVE parse_resp_value(_, _, _), parse_elements(_, _, _, _, _)

parse_elements(b, p, n, elements, limits) ==
  IF n = 0 THEN Value([type |-> "array", elements |-> elements], p)
  ELSE Then(parse_resp_value(b, p, limits), LAMBDA v, q :
         parse_elements(b, q, n - 1, Append(elements, v), limits))

parse_array(b, p, limits) ==
  Then(read_line(b, p), LAMBDA line, q :
    IF ~IsNumber(line) THEN Error
    ELSE LET n == Number[line[1]] IN
      CASE n = -1 -> Value([type |-> "array", elements |-> <<>>], q)
        [] n < -1 \/ n > limits.max_array_length -> Error
        [] n \in 0 .. limits.max_array_length -> parse_elements(b, q, n, <<>>, limits))

parse_resp_value(b, p, limits) ==
  IF p > Len(b) THEN More
  ELSE CASE b[p] = "+" -> parse_line(b, p + 1, "simple")
         [] b[p] = "-" -> parse_line(b, p + 1, "error")
         [] b[p] = ":" -> parse_integer(b, p + 1)
         [] b[p] = "$" -> parse_bulk_string(b, p + 1, limits)
         [] b[p] = "*" -> parse_array(b, p + 1, limits)
         [] OTHER -> Error

-----------------------------------------------------------------------------
(* Commands *)

to_uppercase(name) == [i \in DOMAIN name |-> IF name[i] \in DOMAIN Upper THEN Upper[name[i]] ELSE name[i]]

\* A command is the sequence of its arguments, the name first.
try_parse_command(b, limits) ==
  IF b = <<>> THEN More
  ELSE Then(parse_resp_value(b, 1, limits), LAMBDA v, q :
    IF \/ v.type # "array"
       \/ \E i \in DOMAIN v.elements : v.elements[i].type \notin {"bulk", "simple"}
       \/ v.elements = <<>>
    THEN Error
    ELSE LET args == [i \in DOMAIN v.elements |-> v.elements[i].bytes] IN
         IF NotUtf8 \in Range(args[1]) THEN Error
         ELSE Value([args EXCEPT ![1] = to_uppercase(@)], q))

\* Mutant of decode_with_frame: the new data alone is held against the limit.
decode_with_frame_grows(buf, data, limits) ==
  IF Len(data) > limits.max_buffer_size
  THEN [kind |-> "overflow", buffer |-> buf]
  ELSE LET b == buf \o data
           r == try_parse_command(b, limits)
       IN IF r.kind = "value"
          THEN [kind |-> "value", cmd |-> r.v, frame |-> SubSeq(b, 1, r.pos - 1),
                buffer |-> SubSeq(b, r.pos, Len(b))]
          ELSE [kind |-> r.kind, buffer |-> b]

decode_with_frame(buf, data, limits) ==
  IF Len(buf) + Len(data) > limits.max_buffer_size
  THEN [kind |-> "overflow", buffer |-> buf]
  ELSE LET b == buf \o data
           r == try_parse_command(b, limits)
       IN IF r.kind = "value"
          THEN [kind |-> "value", cmd |-> r.v, frame |-> SubSeq(b, 1, r.pos - 1),
                buffer |-> SubSeq(b, r.pos, Len(b))]
          ELSE [kind |-> r.kind, buffer |-> b]

\* A client's, and the snapshot's, encoding of a command: an array of bulk
\* strings.
encode_bulk(s) == <<"$", ToString(Len(s))>> \o CRLF \o s \o CRLF
encode(cmd) ==
  <<"*", ToString(Len(cmd))>> \o CRLF
    \o FlattenSeq([i \in DOMAIN cmd |-> encode_bulk(cmd[i])])

is_terminal(cmd) == cmd[1] = <<"Q">>

-----------------------------------------------------------------------------
(* replay_aof_file *)

\* Mutant of StopReplay: a frame cut by a chunk ends the replay.
StopReplayEarly(chunk, r) == r.kind # "value"

StopReplay(chunk, r) ==
  \/ r.kind \in {"error", "overflow"}
  \/ r.kind = "more" /\ chunk = <<>>

\* The commands that are whole in the buffer; an error ends the loop silently.
RECURSIVE drain(_, _)
drain(buf, cmds) ==
  LET r == decode_with_frame(buf, <<>>, DefaultLimits) IN
  IF r.kind = "value" THEN drain(r.buffer, Append(cmds, r.cmd))
  ELSE [buffer |-> r.buffer, cmds |-> cmds]

RECURSIVE replay_loop(_, _, _)
replay_loop(rest, buf, cmds) ==
  LET n == Min({FileChunk, Len(rest)})
      chunk == SubSeq(rest, 1, n)
      r == decode_with_frame(buf, chunk, DefaultLimits)
  IN
  IF StopReplay(chunk, r) THEN cmds
  ELSE LET d == IF r.kind = "value" THEN drain(r.buffer, Append(cmds, r.cmd))
                ELSE [buffer |-> r.buffer, cmds |-> cmds]
       IN replay_loop(SubSeq(rest, n + 1, Len(rest)), d.buffer, d.cmds)

replay_aof_file(bytes) == replay_loop(bytes, <<>>, <<>>)

-----------------------------------------------------------------------------
(* A connection: handle_connection reads, process_buffer decodes *)

VARIABLES
  script,       \* what the client sends: [cmds, tail, bad]
  sent,         \* how many bytes of it were read from the socket
  codec_buffer, \* the codec's buffer
  feed,         \* data_to_feed
  st,           \* read, decode; closed by: quit, error, overflow
  out,          \* the commands dispatched
  frames        \* their frames, as passed to the AOF

connectionVars == <<script, sent, codec_buffer, feed, st, out, frames>>

Stream == FlattenSeq([i \in DOMAIN script.cmds |-> encode(script.cmds[i])]) \o script.tail

ConnectionInit ==
  /\ script \in Scripts
  /\ sent = 0 /\ codec_buffer = <<>> /\ feed = <<>>
  /\ st = "read"
  /\ out = <<>> /\ frames = <<>>

Read ==
  /\ st = "read"
  /\ \E n \in 1 .. ReadSize :
       /\ sent + n <= Len(Stream)
       /\ feed' = SubSeq(Stream, sent + 1, sent + n)
       /\ sent' = sent + n
  /\ st' = "decode"
  /\ UNCHANGED <<script, codec_buffer, out, frames>>

\* Mutant of Command: the same bytes are fed again for the next command.
CommandFeedsAgain ==
  LET r == decode_with_frame(codec_buffer, feed, ConfiguredLimits) IN
  /\ st = "decode" /\ r.kind = "value"
  /\ codec_buffer' = r.buffer /\ UNCHANGED feed
  /\ out' = Append(out, r.cmd) /\ frames' = Append(frames, r.frame)
  /\ st' = IF is_terminal(r.cmd) THEN "quit" ELSE "decode"
  /\ UNCHANGED <<script, sent>>

Command ==
  LET r == decode_with_frame(codec_buffer, feed, ConfiguredLimits) IN
  /\ st = "decode" /\ r.kind = "value"
  /\ codec_buffer' = r.buffer /\ feed' = <<>>
  /\ out' = Append(out, r.cmd) /\ frames' = Append(frames, r.frame)
  /\ st' = IF is_terminal(r.cmd) THEN "quit" ELSE "decode"
  /\ UNCHANGED <<script, sent>>

NeedMore ==
  LET r == decode_with_frame(codec_buffer, feed, ConfiguredLimits) IN
  /\ st = "decode" /\ r.kind = "more"
  /\ codec_buffer' = r.buffer /\ feed' = <<>>
  /\ st' = "read"
  /\ UNCHANGED <<script, sent, out, frames>>

\* The error is sent to the client and the connection closed.
ProtocolError ==
  LET r == decode_with_frame(codec_buffer, feed, ConfiguredLimits) IN
  /\ st = "decode" /\ r.kind \in {"error", "overflow"}
  /\ codec_buffer' = r.buffer
  /\ feed' = IF r.kind = "overflow" THEN feed ELSE <<>>
  /\ st' = r.kind
  /\ UNCHANGED <<script, sent, out, frames>>

ConnectionNext == Read \/ Command \/ NeedMore \/ ProtocolError

ConnectionSpec == ConnectionInit /\ [][ConnectionNext]_connectionVars

-----------------------------------------------------------------------------
(* Properties *)

Expected == [i \in DOMAIN script.cmds |-> [script.cmds[i] EXCEPT ![1] = to_uppercase(@)]]

\* The shape of the state; the buffer never outgrows max_buffer_size.
ConnectionTypeOK ==
  /\ sent \in 0 .. Len(Stream)
  /\ Len(codec_buffer) <= ConfiguredLimits.max_buffer_size
  /\ Len(feed) <= ReadSize
  /\ st \in {"read", "decode", "quit", "error", "overflow"}
  /\ Len(out) = Len(frames)

\* However the stream is cut into reads, the commands come out whole, in order
\* and all of them; a malformed tail is an error after them and a partial one
\* is kept; nothing well-formed is refused but by the limit on the buffer.
ChunksDoNotMatter ==
  /\ IsPrefix(out, Expected)
  /\ (st = "read" /\ sent = Len(Stream)) =>
       out = Expected /\ codec_buffer = script.tail /\ ~script.bad
  /\ st = "error" => out = Expected /\ script.bad

\* No byte is lost, duplicated or reordered between the socket, the codec's
\* buffer and the frames for the AOF.
BytesConserved ==
  FlattenSeq(frames) \o codec_buffer \o feed = SubSeq(Stream, 1, sent)

\* What replay's own limits let through: the frame, and a chunk of the file
\* behind it in the buffer.
Admitted(frame) == try_parse_command(frame, DefaultLimits).kind = "value"
HasRoom(frame) == Len(frame) + FileChunk <= DefaultLimits.max_buffer_size

\* The frames written to the AOF, read back in the chunks of replay_aof_file with
\* the default limits and not the connection's (storage/persistence.rs), are the
\* commands that were dispatched, in order, up to the first frame beyond those
\* limits; from a frame with an argument or an array too long on, nothing is
\* replayed.
FramesReplay ==
  st # "decode" =>
    LET replayed == replay_aof_file(FlattenSeq(frames)) IN
    /\ IsPrefix(replayed, out)
    /\ \A n \in DOMAIN frames :
         /\ (\A i \in 1 .. n : Admitted(frames[i]) /\ HasRoom(frames[i])) => n <= Len(replayed)
         /\ ~Admitted(frames[n]) => Len(replayed) < n
=============================================================================
