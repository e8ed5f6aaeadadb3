---------------------------- MODULE CommandSyntax ----------------------------
(***************************************************************************)
(* From a decoded command to its store calls: the registry's lookup and    *)
(* arity check (commands/registry.rs), each execute's own checks, SET's    *)
(* options and EXPIRE's flags, what process_buffer then logs, and the glob *)
(* matcher of KEYS (commands/server.rs).  All of it is sequential: the     *)
(* state is one call, picked at the start.                                 *)
(*                                                                         *)
(* An argument is a token.  Of the store only the type of the value at the *)
(* command's key matters here.                                             *)
(***************************************************************************)
EXTENDS Integers, Sequences, FiniteSets, SequencesExt

CONSTANTS
  Vectors,     \* calls of commands: [name, args, holds]
  OptionLists, \* what follows the value in a SET
  Globs        \* pairs of a pattern and a text

VARIABLE call

BadUtf8 == "0xFF"
\* to_ascii_uppercase, on the tokens in use.
UpperToken == [nx |-> "NX", px |-> "PX", get |-> "GET", sync |-> "SYNC", count |-> "COUNT"]
Token(arg) == IF arg \in DOMAIN UpperToken THEN UpperToken[arg] ELSE arg
\* str::parse::<u64> on the numerals in use: 18446744073709551615 is the largest.
U64 == {"0", "7", "18446744073709551615"}
Huge == "18446744073709551615"

Err(why) == [ok |-> FALSE, why |-> why]
Ok(v) == [ok |-> TRUE, v |-> v]

-----------------------------------------------------------------------------
(* SET's options and EXPIRE's flag *)

NoOptions == [ttl |-> "Default", n |-> "0", existence |-> "Always", get |-> FALSE]

\* Mutant of ttl_option: KEEPTTL may follow a deadline.
ttl_option_twice(opts, args, i) ==
  LET token == Token(args[i]) IN
  IF token = "KEEPTTL"
  THEN Ok([opts |-> [opts EXCEPT !.ttl = token], next |-> i + 1])
  ELSE IF opts.ttl # "Default" \/ i + 1 > Len(args) THEN Err("syntax")
  ELSE IF args[i + 1] \notin U64 THEN Err("not an integer")
  ELSE IF token \in {"EX", "PX"} /\ args[i + 1] = "0" THEN Err("invalid expire")
  ELSE Ok([opts |-> [opts EXCEPT !.ttl = token, !.n = args[i + 1]], next |-> i + 2])

\* At most one of KEEPTTL, EX, PX, EXAT and PXAT: ttl_set.
ttl_option(opts, args, i) ==
  LET token == Token(args[i]) IN
  IF opts.ttl # "Default" THEN Err("syntax")
  ELSE IF token = "KEEPTTL"
  THEN Ok([opts |-> [opts EXCEPT !.ttl = token], next |-> i + 1])
  ELSE IF i + 1 > Len(args) THEN Err("syntax")
  ELSE IF args[i + 1] \notin U64 THEN Err("not an integer")
  ELSE IF token \in {"EX", "PX"} /\ args[i + 1] = "0" THEN Err("invalid expire")
  ELSE Ok([opts |-> [opts EXCEPT !.ttl = token, !.n = args[i + 1]], next |-> i + 2])

set_option(opts, args, i) ==
  LET token == Token(args[i]) IN
  CASE token \in {"NX", "XX"} ->
         IF opts.existence # "Always" THEN Err("syntax")
         ELSE Ok([opts |-> [opts EXCEPT !.existence = token], next |-> i + 1])
    [] token \in {"KEEPTTL", "EX", "PX", "EXAT", "PXAT"} -> ttl_option(opts, args, i)
    [] token = "GET" ->
         IF opts.get THEN Err("syntax")
         ELSE Ok([opts |-> [opts EXCEPT !.get = TRUE], next |-> i + 1])
    [] OTHER -> Err("syntax")

RECURSIVE parse_from(_, _, _)
parse_from(opts, args, i) ==
  IF i > Len(args) THEN Ok(opts)
  ELSE LET r == set_option(opts, args, i) IN
       IF r.ok THEN parse_from(r.v.opts, args, r.v.next) ELSE r

parse_set_options(args) == parse_from(NoOptions, args, 1)

parse_expire_flag(args) ==
  IF args = <<>> THEN Ok("None")
  ELSE IF Len(args) > 1 \/ Token(args[1]) \notin {"NX", "XX", "GT", "LT"} THEN Err("syntax")
  ELSE Ok(Token(args[1]))

-----------------------------------------------------------------------------
(* The commands.  An arity counts the name; "counted" is execute's own     *)
(* check of the number of arguments; a step is a turn of execute's loop up *)
(* to its store call: the arguments it reads as UTF-8 and those it takes   *)
(* as bytes; "parsed" is what else must hold before the first call.        *)

Fixed(n) == [min |-> n, max |-> n]
Range_(m, n) == [min |-> m, max |-> n]
AtLeast(n) == [min |-> n, max |-> 99]

CommandOf(ar, mutation, counted, steps) ==
  [arity |-> ar, mutation |-> mutation, terminal |-> FALSE, counted |-> counted,
   steps |-> steps, parsed |-> TRUE]

Text(is) == [text |-> is, raw |-> {}]
OneKey(mutation, args) == CommandOf(Fixed(2), mutation, Len(args) = 1, << Text({1}) >>)
EachKey(mutation, args) ==
  CommandOf(AtLeast(2), mutation, args # <<>>, [i \in DOMAIN args |-> Text({i})])
EachField(mutation, args) ==
  CommandOf(AtLeast(3), mutation, Len(args) >= 2, [i \in 1..Len(args) - 1 |-> Text({1, i + 1})])

\* string.rs
SetCommand(args) ==
  [CommandOf(AtLeast(3), TRUE, Len(args) >= 2, << [text |-> {1}, raw |-> {2}] >>)
     EXCEPT !.parsed = parse_set_options(SubSeq(args, 3, Len(args))).ok]
GetCommand(args) == OneKey(FALSE, args)
DelCommand(args) == EachKey(TRUE, args)
ExistsCommand(args) == EachKey(FALSE, args)
MgetCommand(args) == EachKey(FALSE, args)
MsetCommand(args) ==
  CommandOf(AtLeast(3), TRUE, args # <<>> /\ Len(args) % 2 = 0,
      [i \in 1..(Len(args) + 1) \div 2 |-> [text |-> {2 * i - 1}, raw |-> {2 * i}]])

\* atomic.rs
IncrCommand(args) == CommandOf(Fixed(2), TRUE, args # <<>>, << Text({1}) >>)
DecrCommand(args) == CommandOf(Fixed(2), TRUE, args # <<>>, << Text({1}) >>)

\* ttl.rs: the key, then the number, then the flag.
Deadline(args) ==
  [CommandOf(Range_(3, 4), TRUE, Len(args) >= 2, << Text({1}) >>)
     EXCEPT !.parsed = Len(args) >= 2 /\ args[2] \in U64
                         /\ parse_expire_flag(SubSeq(args, 3, Len(args))).ok]
ExpireCommand(args) == Deadline(args)
PexpireCommand(args) == Deadline(args)
ExpireatCommand(args) == Deadline(args)
PexpireatCommand(args) == Deadline(args)
TtlCommand(args) == OneKey(FALSE, args)
PttlCommand(args) == OneKey(FALSE, args)

\* hash.rs
\* Mutant of HsetCommand: the pairs need not be balanced.
HsetCommand_unbalanced(args) ==
  CommandOf(AtLeast(4), TRUE, Len(args) >= 3,
      [i \in 1..Len(args) \div 2 |-> Text({1, 2 * i, 2 * i + 1})])

HsetCommand(args) ==
  CommandOf(AtLeast(4), TRUE, Len(args) >= 3 /\ (Len(args) - 1) % 2 = 0,
      [i \in 1..Len(args) \div 2 |-> Text({1, 2 * i, 2 * i + 1})])
HgetCommand(args) == CommandOf(Fixed(3), FALSE, Len(args) = 2, << Text({1, 2}) >>)
HdelCommand(args) == EachField(TRUE, args)
HgetallCommand(args) == OneKey(FALSE, args)
HmgetCommand(args) == EachField(FALSE, args)
HkeysCommand(args) == OneKey(FALSE, args)
HvalsCommand(args) == OneKey(FALSE, args)
HlenCommand(args) == OneKey(FALSE, args)
HexistsCommand(args) == CommandOf(Fixed(3), FALSE, Len(args) = 2, << Text({1, 2}) >>)

\* server.rs
PingCommand(args) ==
  CommandOf(Range_(1, 2), FALSE, Len(args) <= 1, << [text |-> {}, raw |-> DOMAIN args] >>)
EchoCommand(args) == CommandOf(Fixed(2), FALSE, Len(args) = 1, << [text |-> {}, raw |-> {1}] >>)
DbsizeCommand(args) == CommandOf(Fixed(1), FALSE, args = <<>>, << Text({}) >>)
TypeCommand(args) == OneKey(FALSE, args)
\* Mutant of FlushdbCommand: it overrides is_mutation like its neighbours.
FlushdbCommand_unlogged(args) ==
  [CommandOf(Range_(1, 2), FALSE, TRUE, << Text({}) >>)
     EXCEPT !.parsed = args = <<>> \/ (Len(args) = 1 /\ Token(args[1]) \in {"SYNC", "ASYNC"})]

FlushdbCommand(args) ==
  [CommandOf(Range_(1, 2), TRUE, TRUE, << Text({}) >>)
     EXCEPT !.parsed = args = <<>> \/ (Len(args) = 1 /\ Token(args[1]) \in {"SYNC", "ASYNC"})]
InfoCommand(args) == CommandOf(Range_(1, 2), FALSE, Len(args) <= 1, << Text(DOMAIN args) >>)
KeysCommand(args) == OneKey(FALSE, args)
CommandCommand(args) ==
  [CommandOf(AtLeast(1), FALSE, TRUE, << Text(DOMAIN args \cap {1}) >>)
     EXCEPT !.parsed = args = <<>> \/ Token(args[1]) \in {"COUNT", "LIST", "DOCS", "INFO"}]
BgrewriteaofCommand(args) == CommandOf(Fixed(1), FALSE, args = <<>>, << Text({}) >>)
QuitCommand(args) ==
  [CommandOf(Fixed(1), FALSE, args = <<>>, << Text({}) >>) EXCEPT !.terminal = TRUE]

-----------------------------------------------------------------------------
(* The registry *)

\* with_components_internal registers these.
registered ==
  {"SET", "GET", "DEL", "EXISTS", "MGET", "MSET", "EXPIRE", "PEXPIRE", "EXPIREAT", "PEXPIREAT",
   "TTL", "PTTL", "INCR", "DECR", "HSET", "HGET", "HMGET", "HDEL", "HGETALL", "HKEYS", "HVALS",
   "HLEN", "HEXISTS", "PING", "ECHO", "DBSIZE", "TYPE", "FLUSHDB", "INFO", "KEYS",
   "BGREWRITEAOF", "QUIT", "COMMAND"}

commands(name, args) ==
  CASE name = "SET" -> SetCommand(args)            [] name = "GET" -> GetCommand(args)
    [] name = "DEL" -> DelCommand(args)            [] name = "EXISTS" -> ExistsCommand(args)
    [] name = "MGET" -> MgetCommand(args)          [] name = "MSET" -> MsetCommand(args)
    [] name = "EXPIRE" -> ExpireCommand(args)      [] name = "PEXPIRE" -> PexpireCommand(args)
    [] name = "EXPIREAT" -> ExpireatCommand(args)  [] name = "PEXPIREAT" -> PexpireatCommand(args)
    [] name = "TTL" -> TtlCommand(args)            [] name = "PTTL" -> PttlCommand(args)
    [] name = "INCR" -> IncrCommand(args)          [] name = "DECR" -> DecrCommand(args)
    [] name = "HSET" -> HsetCommand(args)          [] name = "HGET" -> HgetCommand(args)
    [] name = "HMGET" -> HmgetCommand(args)        [] name = "HDEL" -> HdelCommand(args)
    [] name = "HGETALL" -> HgetallCommand(args)    [] name = "HKEYS" -> HkeysCommand(args)
    [] name = "HVALS" -> HvalsCommand(args)        [] name = "HLEN" -> HlenCommand(args)
    [] name = "HEXISTS" -> HexistsCommand(args)    [] name = "PING" -> PingCommand(args)
    [] name = "ECHO" -> EchoCommand(args)          [] name = "DBSIZE" -> DbsizeCommand(args)
    [] name = "TYPE" -> TypeCommand(args)          [] name = "FLUSHDB" -> FlushdbCommand(args)
    [] name = "INFO" -> InfoCommand(args)          [] name = "KEYS" -> KeysCommand(args)
    [] name = "COMMAND" -> CommandCommand(args)    [] name = "QUIT" -> QuitCommand(args)
    [] name = "BGREWRITEAOF" -> BgrewriteaofCommand(args)

\* The commands open() can replay.
replay_registry ==
  {"SET", "GET", "DEL", "EXISTS", "MSET", "EXPIRE", "TTL", "PEXPIRE", "EXPIREAT", "PEXPIREAT",
   "INCR", "DECR", "HSET", "HGET", "HDEL", "HGETALL", "HEXISTS", "FLUSHDB"}

is_mutation(name) == name \in registered /\ commands(name, <<>>).mutation

validate_arity(c, args) == Len(args) + 1 >= c.arity.min /\ Len(args) + 1 <= c.arity.max

-----------------------------------------------------------------------------
(* What a call does, when every key it names holds a value of one type *)

\* The store's refusals: ValueType::to_integer and as_hash.
WrongType(name, holds) ==
  \/ name \in {"INCR", "DECR"} /\ holds \in {"text", "hash"}
  \/ name \in {"HSET", "HGET", "HMGET", "HDEL", "HGETALL", "HKEYS", "HVALS", "HLEN", "HEXISTS"}
       /\ holds \in {"integer", "text"}

\* The commands whose store call writes.
Writers == {"SET", "DEL", "MSET", "EXPIRE", "PEXPIRE", "EXPIREAT", "PEXPIREAT", "INCR", "DECR",
            "HSET", "HDEL", "FLUSHDB"}

SetOptionsOf(args) == parse_set_options(SubSeq(args, 3, Len(args))).v

\* set_with_options writes unless NX or XX forbids it, and SET ... GET then
\* answers with an error if the old value was a hash.
store_call(name, args, holds) ==
  IF WrongType(name, holds) THEN [ok |-> FALSE, writes |-> 0]
  ELSE IF name # "SET" THEN [ok |-> TRUE, writes |-> IF name \in Writers THEN 1 ELSE 0]
  ELSE LET o == SetOptionsOf(args) IN
       [ok |-> ~(o.get /\ holds = "hash"),
        writes |-> IF \/ o.existence = "NX" /\ holds # "none"
                      \/ o.existence = "XX" /\ holds = "none" THEN 0 ELSE 1]

\* Instant + Duration panics when the sum is beyond the clock's range, which
\* only a relative number of seconds can reach: the absolute deadlines saturate
\* as milliseconds, and 2^64 milliseconds still fit.
resolve_ttl(o) == IF o.ttl = "EX" /\ o.n = Huge THEN "panic" ELSE "instant"

new_expires_at(ttl_seconds) == IF ttl_seconds = Huge THEN "panic" ELSE "instant"

deadline(name, args) ==
  CASE name = "SET" -> resolve_ttl(SetOptionsOf(args))
    [] name = "EXPIRE" -> new_expires_at(args[2])
    [] OTHER -> "instant"

Failed(n) == [ok |-> FALSE, writes |-> n, panic |-> FALSE]
Panicked(n) == [ok |-> FALSE, writes |-> n, panic |-> TRUE]

\* execute's loop from step i on: it stops at the first argument that is
\* missing (an index panic) or not UTF-8, and at the first refusal of the store.
RECURSIVE run_steps(_, _, _, _, _, _)
run_steps(name, args, holds, steps, i, writes) ==
  IF i > Len(steps) THEN [ok |-> TRUE, writes |-> writes, panic |-> FALSE]
  ELSE IF ~(steps[i].text \cup steps[i].raw \subseteq DOMAIN args) THEN Panicked(writes)
  ELSE IF \E j \in steps[i].text : args[j] = BadUtf8 THEN Failed(writes)
  ELSE IF deadline(name, args) = "panic" THEN Panicked(writes)
  ELSE LET r == store_call(name, args, holds) IN
       IF r.ok THEN run_steps(name, args, holds, steps, i + 1, writes + r.writes)
       ELSE Failed(writes + r.writes)

execute(name, args, holds) ==
  IF name \notin registered THEN Failed(0)
  ELSE LET c == commands(name, args) IN
       IF ~validate_arity(c, args) \/ ~c.counted \/ ~c.parsed THEN Failed(0)
       ELSE run_steps(name, args, holds, c.steps, 1, 0)

\* process_buffer hands to log_command what succeeded and is a mutation.
logged(name, result) == result.ok /\ is_mutation(name)

-----------------------------------------------------------------------------
(* KEYS: a pattern and a text are sequences of bytes. *)

Byte == [star |-> 42, question |-> 63, open |-> 91, close |-> 93, caret |-> 94,
         minus |-> 45, backslash |-> 92]

\* match_class from index i: the index after the class and whether it holds c;
\* 0 stands for None, a class without its closing bracket.
RECURSIVE class_items(_, _, _, _)
class_items(p, i, c, matched) ==
  IF i > Len(p) THEN [next |-> 0, ok |-> FALSE]
  ELSE IF p[i] = Byte.close THEN [next |-> i + 1, ok |-> matched]
  ELSE IF i + 2 <= Len(p) /\ p[i + 1] = Byte.minus /\ p[i + 2] # Byte.close
  THEN class_items(p, i + 3, c, matched \/ (p[i] <= c /\ c <= p[i + 2]))
  ELSE class_items(p, i + 1, c, matched \/ p[i] = c)

match_class(p, i, c) ==
  LET negate == i + 1 <= Len(p) /\ p[i + 1] = Byte.caret
      r == class_items(p, IF negate THEN i + 2 ELSE i + 1, c, FALSE)
  IN [next |-> r.next, ok |-> r.next # 0 /\ r.ok # negate]

\* The pattern index after one byte c is consumed at pi; 0 when it does not match.
match_one(p, pi, c) ==
  IF pi > Len(p) THEN 0
  ELSE CASE p[pi] = Byte.backslash ->
              IF pi + 1 <= Len(p) /\ p[pi + 1] = c THEN pi + 2 ELSE 0
         [] p[pi] = Byte.question -> pi + 1
         [] p[pi] = Byte.open ->
              LET r == match_class(p, pi, c) IN IF r.ok THEN r.next ELSE 0
         [] OTHER -> IF p[pi] = c THEN pi + 1 ELSE 0

OnlyStars(p, pi) == \A i \in pi..Len(p) : p[i] = Byte.star

\* For a mutant of glob_match_bytes: backtracking retries the star without giving it a byte
\* more than its first try.
RECURSIVE glob_stuck(_, _, _, _, _, _)
glob_stuck(p, t, pi, ti, star_p, star_t) ==
  IF ti > Len(t) THEN OnlyStars(p, pi)
  ELSE IF pi <= Len(p) /\ p[pi] = Byte.star THEN glob_stuck(p, t, pi + 1, ti, pi, ti)
  ELSE LET next == match_one(p, pi, t[ti]) IN
       IF next # 0 THEN glob_stuck(p, t, next, ti + 1, star_p, star_t)
       ELSE IF star_p # 0 THEN glob_stuck(p, t, star_p + 1, ti + 1, star_p, star_t)
       ELSE FALSE

\* The loop of glob_match_bytes: star_p is the last star met, 0 for none.
RECURSIVE glob_loop(_, _, _, _, _, _)
glob_loop(p, t, pi, ti, star_p, star_t) ==
  IF ti > Len(t) THEN OnlyStars(p, pi)
  ELSE IF pi <= Len(p) /\ p[pi] = Byte.star THEN glob_loop(p, t, pi + 1, ti, pi, ti)
  ELSE LET next == match_one(p, pi, t[ti]) IN
       IF next # 0 THEN glob_loop(p, t, next, ti + 1, star_p, star_t)
       ELSE IF star_p # 0 THEN glob_loop(p, t, star_p + 1, star_t + 1, star_p, star_t + 1)
       ELSE FALSE

\* Mutant of glob_match_bytes: by the stuck loop.
glob_match_bytes_stuck(p, t) == glob_stuck(p, t, 1, 1, 0, 0)

glob_match_bytes(p, t) == glob_loop(p, t, 1, 1, 0, 0)

-----------------------------------------------------------------------------
(* One call *)

NoCall == [idle |-> TRUE]

CallInit ==
  \/ \E v \in Vectors : call = [command |-> v]
  \/ \E v \in OptionLists : call = [options |-> v]
  \/ \E v \in Globs : call = [glob |-> v]

-----------------------------------------------------------------------------
(* Reference definitions *)

\* docs/COMMANDS.md: SET key value [NX | XX]
\*   [EX s | PX ms | EXAT ts | PXAT tsms | KEEPTTL] [GET]
Clauses ==
  {[group |-> "existence", words |-> <<e>>] : e \in {"NX", "XX"}}
    \cup {[group |-> "get", words |-> <<"GET">>], [group |-> "ttl", words |-> <<"KEEPTTL">>]}
    \cup {[group |-> "ttl", words |-> <<w, n>>] :
            w \in {"EX", "PX", "EXAT", "PXAT"}, n \in U64 \ {"0"}}
    \cup {[group |-> "ttl", words |-> <<w, "0">>] : w \in {"EXAT", "PXAT"}}

\* In any order, at most one clause of each group.
Sentences ==
  {s \in UNION {[1..n -> Clauses] : n \in 0..3} :
     \A i, j \in DOMAIN s : s[i].group = s[j].group => i = j}

Spoken(s) == FlattenSeq([i \in DOMAIN s |-> s[i].words])

Meaning(s) ==
  LET of(g) == {s[i].words : i \in {i \in DOMAIN s : s[i].group = g}}
      ttl == IF of("ttl") = {} THEN <<"Default">> ELSE CHOOSE w \in of("ttl") : TRUE
  IN [ttl |-> ttl[1], n |-> IF Len(ttl) = 2 THEN ttl[2] ELSE "0",
      existence |-> IF of("existence") = {} THEN "Always"
                    ELSE (CHOOSE w \in of("existence") : TRUE)[1],
      get |-> of("get") # {}]

\* Each accepted text with its one meaning.
Grammar == {<<Spoken(s), Meaning(s)>> : s \in Sentences}

\* The bytes a class body names: ranges from the left, then single bytes.
RECURSIVE ClassBytes(_)
ClassBytes(body) ==
  IF body = <<>> THEN {}
  ELSE IF Len(body) >= 3 /\ body[2] = Byte.minus
  THEN body[1]..body[3] \cup ClassBytes(SubSeq(body, 4, Len(body)))
  ELSE {body[1]} \cup ClassBytes(Tail(body))

Rest(s, n) == SubSeq(s, n + 1, Len(s))

\* Whether the pattern matches the whole text, from the meaning of each sign.
RECURSIVE GlobMatches(_, _)
GlobMatches(p, t) ==
  IF p = <<>> THEN t = <<>>
  ELSE IF Head(p) = Byte.star THEN \E k \in 0..Len(t) : GlobMatches(Rest(p, 1), Rest(t, k))
  ELSE /\ t # <<>>
       /\ CASE Head(p) = Byte.question -> GlobMatches(Rest(p, 1), Rest(t, 1))
            [] Head(p) = Byte.backslash ->
                 Len(p) > 1 /\ p[2] = t[1] /\ GlobMatches(Rest(p, 2), Rest(t, 1))
            [] Head(p) = Byte.open ->
                 \E e \in DOMAIN p :
                   LET neg == Len(p) > 1 /\ p[2] = Byte.caret
                       body == SubSeq(p, IF neg THEN 3 ELSE 2, e - 1)
                   IN /\ e > (IF neg THEN 2 ELSE 1)
                      /\ p[e] = Byte.close /\ ~Contains(body, Byte.close)
                      /\ (t[1] \in ClassBytes(body)) # neg
                      /\ GlobMatches(Rest(p, e), Rest(t, 1))
            [] OTHER -> Head(p) = t[1] /\ GlobMatches(Rest(p, 1), Rest(t, 1))

-----------------------------------------------------------------------------
(* Properties *)

IsCommand == "command" \in DOMAIN call
Result == execute(call.command.name, call.command.args, call.command.holds)

\* The calls that leave a change behind an error reply: a variadic command that
\* meets a bad argument after its first turn, and SET ... GET over a hash.
ChangesAndFails(v) ==
  \/ v.name \in {"DEL", "MSET", "HSET", "HDEL"} /\ \E i \in 2..Len(v.args) : v.args[i] = BadUtf8
  \/ v.name = "SET" /\ v.holds = "hash" /\ SetOptionsOf(v.args).get

\* What a command changed in the store is in the log, and replay knows the
\* command: whatever process_buffer does not hand to log_command (an error
\* reply, or a command that is no mutation) has changed nothing.  The only
\* exceptions are the calls of ChangesAndFails, whose change is lost at the
\* next restart.
ChangesAreLogged ==
  IsCommand =>
    /\ Result.writes > 0 => logged(call.command.name, Result) \/ ChangesAndFails(call.command)
    /\ logged(call.command.name, Result) => call.command.name \in replay_registry

\* No argument vector makes execute panic, by an index past its arguments
\* (the arity of the registry and execute's own check together leave no such
\* vector) or otherwise, except a deadline of seconds beyond the clock's range.
PanicsOnlyPastTheClock ==
  IsCommand /\ Result.panic => /\ call.command.name \in {"SET", "EXPIRE"}
                               /\ Contains(call.command.args, Huge)

\* parse_set_options accepts exactly the documented grammar, in any order and
\* letter case, and reads from it what it says.
SetOptionsMatchGrammar ==
  "options" \in DOMAIN call =>
    LET words == [i \in DOMAIN call.options |-> Token(call.options[i])]
        r == parse_set_options(call.options)
    IN IF r.ok THEN <<words, r.v>> \in Grammar ELSE \A g \in Grammar : g[1] # words

\* The one-star backtracking of glob_match_bytes finds a match whenever some
\* split of the text among the pattern's stars is one.
GlobMatchesReference ==
  "glob" \in DOMAIN call =>
    glob_match_bytes(call.glob[1], call.glob[2]) = GlobMatches(call.glob[1], call.glob[2])
=============================================================================
