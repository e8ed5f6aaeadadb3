---------------------------- MODULE StoreCommands ----------------------------
(***************************************************************************)
(* The data commands (src/src/commands): the store calls each execute      *)
(* makes, in order, once its arguments have parsed.  A command whose       *)
(* arguments do not parse makes no call and is left out, except where      *)
(* execute parses an argument after it has already made a call: a variadic *)
(* command meets the bad argument in the middle of its loop.               *)
(***************************************************************************)
EXTENDS Integers, Sequences

CONSTANT NotUtf8   \* an argument that arg_str rejects

arg_str(arg, call) == IF arg = NotUtf8 THEN [op |-> "badarg"] ELSE call

OnKey(op, k) == [op |-> op, key |-> k]
ForEach(args, MakeCall(_)) == [i \in DOMAIN args |-> arg_str(args[i], MakeCall(args[i]))]

-----------------------------------------------------------------------------
(* string.rs *)

\* SetOptions once parsed: [ttl, d, ex]
SetCommand(k, n, opts) ==
  << [op |-> "set_with_options", key |-> k, n |-> n,
      ttl |-> opts.ttl, d |-> opts.d, ex |-> opts.ex] >>

GetCommand(k) == << OnKey("get", k) >>
DelCommand(ks) == ForEach(ks, LAMBDA k : OnKey("delete", k))
ExistsCommand(ks) == ForEach(ks, LAMBDA k : OnKey("exists", k))
MgetCommand(ks) == ForEach(ks, LAMBDA k : OnKey("get", k))
MsetCommand(ks, n) == ForEach(ks, LAMBDA k : [op |-> "set", key |-> k, n |-> n])

-----------------------------------------------------------------------------
(* atomic.rs *)

IncrCommand(k) == << [op |-> "incr_by", key |-> k, by |-> 1] >>
DecrCommand(k) == << [op |-> "incr_by", key |-> k, by |-> -1] >>

-----------------------------------------------------------------------------
(* ttl.rs *)

ExpireCall(op, k, ttl, d, flag) ==
  << [op |-> op, key |-> k, ttl |-> ttl, d |-> d, flag |-> flag] >>

ExpireCommand(k, d, flag) == ExpireCall("expire_with_options", k, "at", d, flag)
PexpireCommand(k, d, flag) == ExpireCall("expire_at_with_options", k, "at", d, flag)
ExpireatCommand(k, d, flag) == ExpireCall("expire_at_with_options", k, "unix", d, flag)
PexpireatCommand(k, d, flag) == ExpireCall("expire_at_with_options", k, "unix", d, flag)
TtlCommand(k) == << OnKey("ttl", k) >>
PttlCommand(k) == << OnKey("pttl", k) >>

-----------------------------------------------------------------------------
(* hash.rs *)

HsetCommand(k, fs) == ForEach(fs, LAMBDA f : [op |-> "hset", key |-> k, f |-> f])
HdelCommand(k, fs) == ForEach(fs, LAMBDA f : [op |-> "hdel", key |-> k, f |-> f])
HmgetCommand(k, fs) == ForEach(fs, LAMBDA f : OnKey("hget", k))
HgetCommand(k) == << OnKey("hget", k) >>
HgetallCommand(k) == << OnKey("hgetall", k) >>
HkeysCommand(k) == << OnKey("hgetall", k) >>
HvalsCommand(k) == << OnKey("hgetall", k) >>
HlenCommand(k) == << OnKey("hgetall", k) >>
HexistsCommand(k) == << OnKey("hexists", k) >>

-----------------------------------------------------------------------------
(* server.rs: the two that touch keys.  DBSIZE, KEYS and INFO only read. *)

TypeCommand(k) == << OnKey("get", k) >>
FlushdbCommand == << [op |-> "clear"] >>

-----------------------------------------------------------------------------
(* Store methods no command calls. *)

SetWithTtl(k, n, d) == << [op |-> "set_with_ttl", key |-> k, n |-> n, d |-> d] >>
SetWithExpiration(k, n, d) ==
  << [op |-> "set_with_expiration", key |-> k, n |-> n, d |-> d] >>
PersistKey(k) == << OnKey("persist", k) >>
CleanupExpired == << [op |-> "cleanup_expired"] >>
=============================================================================
