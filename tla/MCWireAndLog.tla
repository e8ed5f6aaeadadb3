----------------------------- MODULE MCWireAndLog -----------------------------
(***************************************************************************)
(* From the socket to the disk.  Clients for RespCodec: up to two commands *)
(* and a tail.  Sessions for CliClient, and calls for CommandSyntax.       *)
(* Writers for AofPersistence.  A behaviour runs one of the four, the log  *)
(* if `part` says so, and leaves the others idle.                          *)
(***************************************************************************)
EXTENDS CliClient, CommandSyntax, AofPersistence

CONSTANTS c1, c2, k1, k2

VARIABLE part

\* Limits set above the defaults.
ServerLimits == [max_bulk_size |-> 4, max_array_length |-> 4, max_buffer_size |-> 34]
CodecDefaults == [max_bulk_size |-> 3, max_array_length |-> 4, max_buffer_size |-> 32]

\* With an empty argument, with arguments that are line ends or no UTF-8, with one
\* beyond the default limits only, at the edge of the buffer limit, beyond it, and
\* the one that closes the connection.
Cmds ==
  { << <<"g">>, <<>> >>,
    << <<"s">>, CRLF, <<NotUtf8>> >>,
    << <<"s">>, <<"k", "k", "k", "k">> >>,
    << <<"s">>, <<"k">>, <<>>, <<"$">> >>,
    << <<"s">>, <<"k", "k", "k">>, <<"k", "k", "k">>, <<"k", "k", "k">> >>,
    << <<"q">> >> }

Array(n) == <<"*", n>> \o CRLF

\* The beginning of a command, and a simple string that is still open.
PartialTails == { <<>>, Array("2") \o <<"$", "1">> \o CRLF \o <<"g", "CR">>, Array("1") \o <<"+", "g">> }

\* Lengths out of range, no terminator, no argument, an argument that is not a
\* string, a name that is not UTF-8, and no RESP at all.
BadTails ==
  { Array("-2"), Array("5"), Array("1") \o <<"$", "5">> \o CRLF,
    Array("1") \o <<"$", "-1">> \o CRLF,
    Array("1") \o <<"$", "1">> \o CRLF \o <<"g", "g", "g">>,
    Array("0"), Array("-1"), Array("1") \o <<":", "1">> \o CRLF,
    Array("1") \o encode_bulk(<<NotUtf8>>), Array("1") \o Array("1") \o encode_bulk(<<"g">>),
    <<"g">>, <<"-", "g">> \o CRLF }

ClientScripts ==
  {[cmds |-> cs, tail |-> t, bad |-> FALSE] : cs \in SeqOf(Cmds, 2), t \in PartialTails}
    \cup {[cmds |-> cs, tail |-> t, bad |-> TRUE] : cs \in SeqOf(Cmds, 1), t \in BadTails}

-----------------------------------------------------------------------------

Bulk(bs) == [type |-> "bulk", bytes |-> bs]

\* Of every type; an empty string and one that is a line end; beyond the limit on
\* a bulk string; an error of two lines.
Replies ==
  { [type |-> "simple", bytes |-> <<"g">>], [type |-> "error", bytes |-> <<"k">>],
    [type |-> "integer", n |-> 2], Bulk(CRLF),
    [type |-> "array", elements |-> << Bulk(<<>>), [type |-> "nil"], [type |-> "error", bytes |-> <<"k">>] >>],
    Bulk(<<"k", "k", "k", "k">>),
    [type |-> "error", bytes |-> <<"k">> \o CRLF \o <<"k">>] }

UserSessions ==
  SeqOf([cmd : {<< <<"g">> >>}, reply : Replies], 3)
    \cup {<< [cmd |-> << <<"q">> >>, reply |-> r], [cmd |-> << <<"g">> >>, reply |-> r] >> :
            r \in Replies}

-----------------------------------------------------------------------------

Holds == {"none", "integer", "text", "hash"}

Call(names, argLists, holds) == [name : names, args : argLists, holds : holds]

\* Words that may follow SET's value.
Words == {"nx", "XX", "KEEPTTL", "EX", "px", "PXAT", "get", "0", "7", Huge, BadUtf8}

\* Every command and an unknown one on up to four plain arguments, the variadic
\* ones on five, SET with up to three words, and the other commands with keywords.
CommandCalls ==
  Call(registered \cup {"NOSUCH"}, SeqOf({"k", BadUtf8, "7"}, 4), Holds)
    \cup Call({"HSET", "MSET", "HDEL", "DEL"}, [1 .. 5 -> {"k", BadUtf8}], Holds)
    \cup Call({"SET"}, {<<"k", BadUtf8>> \o ws : ws \in SeqOf(Words, 3)}, Holds)
    \cup Call({"EXPIRE", "PEXPIRE", "EXPIREAT", "PEXPIREAT"},
              {<<k, n>> \o f : k \in {"k", BadUtf8}, n \in U64, f \in {<<>>, <<"nx">>, <<"GT">>, <<"sync">>}},
              {"text"})
    \cup Call({"FLUSHDB", "COMMAND"},
              {<<"sync">>, <<"ASYNC">>, <<"count">>, <<"sync", "k">>, <<"count", "k">>}, {"text"})

WordLists == SeqOf(Words, 4)

\* Signs in and out of place: * ? a \* \ [a-c] [^a] [a-] [] [^] [a ] [-a]
Pieces ==
  { <<42>>, <<63>>, <<97>>, <<92, 42>>, <<92>>, <<91, 97, 45, 99, 93>>, <<91, 94, 97, 93>>,
    <<91, 97, 45, 93>>, <<91, 93>>, <<91, 94, 93>>, <<91, 97>>, <<93>>, <<91, 45, 97, 93>> }

Texts == SeqOf({97, 98, 42}, 2) \cup [1 .. 3 -> {97, 98}]

PatternsAndTexts == {FlattenSeq(s) : s \in SeqOf(Pieces, 3)} \X Texts

-----------------------------------------------------------------------------

\* Each client sets a key of its own.
OwnSets ==
  {[client |-> c1, op |-> "set", key |-> k1, n |-> v] : v \in {1, 2}}
    \cup {[client |-> c2, op |-> "set", key |-> k2, n |-> 1]}

-----------------------------------------------------------------------------

\* A connection on which nothing is sent.
ConnectionOff ==
  /\ script = [cmds |-> <<>>, tail |-> <<>>, bad |-> FALSE]
  /\ sent = 0 /\ codec_buffer = <<>> /\ feed = <<>> /\ st = "read" /\ out = <<>> /\ frames = <<>>

WireInit ==
  \/ ConnectionInit /\ CliOff /\ call = NoCall
  \/ ConnectionOff /\ CliInit /\ call = NoCall
  \/ ConnectionOff /\ CliOff /\ CallInit

MCInit ==
  /\ Init
  /\ \/ part = "wire" /\ WireInit /\ policy = "never"
     \/ part = "log" /\ ConnectionOff /\ CliOff /\ call = NoCall

MCNext ==
  \/ part = "wire" /\ ConnectionNext /\ UNCHANGED <<part, cliVars, call, vars>>
  \/ part = "wire" /\ CliNext /\ UNCHANGED <<part, connectionVars, call, vars>>
  \/ part = "log" /\ Next /\ UNCHANGED <<part, connectionVars, cliVars, call>>

MCSpec == MCInit /\ [][MCNext]_<<part, connectionVars, cliVars, call, vars>>
=============================================================================
