----------------------------- MODULE MemoryStore -----------------------------
(***************************************************************************)
(* The in-memory store (src/src/storage/memory.rs) as its callers see it: *)
(* connection tasks ("threads") that run commands, each command a sequence *)
(* of store calls, over two DashMaps, `data` and `expiration_index`.       *)
(*                                                                         *)
(* One action is one DashMap operation, because that is the granularity at *)
(* which the code is atomic: a method that calls the maps twice can be     *)
(* interleaved between the two calls.  Where the code updates the index    *)
(* while it holds the data entry's shard lock (`entry`, `get_mut`), the two *)
(* updates are one action: every other data operation on that key waits    *)
(* for the lock, and the index operations of others commute with it.       *)
(*                                                                         *)
(* Abstractions: a string payload is the integer it parses to, or None;    *)
(* a hash is the set of its fields; lists have no command that creates     *)
(* them; access statistics and size metadata are left out.                 *)
(***************************************************************************)
EXTENDS Integers, Sequences, FiniteSets

CONSTANTS
  Threads,    \* tasks that run commands concurrently
  Keys,       \* the key space
  Fields,     \* hash field names
  Commands,   \* the commands clients may send, each a sequence of Calls
  MaxCmds,    \* bound: commands started in a behaviour
  MaxNow,     \* bound: the clock stops here
  MaxInt,     \* i64::MAX; the least value is -MaxInt - 1
  None        \* no entry, no deadline, not a number

Times == Int
IntRange == (-MaxInt - 1) .. MaxInt
Types == {"string", "integer", "hash"}

(***************************************************************************)
(* StoredValue.  `id` names the StoredValue that StoredValue::new created; *)
(* it is kept by in-place updates, as created_at is, and is read by no     *)
(* action, only by the properties.                                         *)
(***************************************************************************)
Entry == [type : Types, n : IntRange \cup {None}, fields : SUBSET Fields,
          exp : Times \cup {None}, id : Nat]

(***************************************************************************)
(* A call of one store method.  d is a time to live (ttl = "at") or a Unix *)
(* time (ttl = "unix"); the command resolves it to an Instant when it      *)
(* runs.  "badarg" is an argument that is not UTF-8.                       *)
(***************************************************************************)
SetExistence == {"always", "nx", "xx"}
SetTtlOption == {"none", "at", "unix", "keep"}
ExpireFlag == {"none", "nx", "xx", "gt", "lt"}

ReadOps == {"get", "exists", "ttl", "pttl"}
HashReadOps == {"hget", "hgetall", "hexists"}
ExpireOps == {"expire_with_options", "expire_at_with_options"}
SetTtlOps == {"set_with_ttl", "set_with_expiration"}

Calls ==
       [op : {"set"}, key : Keys, n : IntRange \cup {None}]
  \cup [op : SetTtlOps, key : Keys, n : IntRange \cup {None}, d : Int]
  \cup [op : {"set_with_options"}, key : Keys, n : IntRange \cup {None},
        ttl : SetTtlOption, d : Int, ex : SetExistence]
  \cup [op : ReadOps \cup HashReadOps \cup {"delete", "persist"}, key : Keys]
  \cup [op : ExpireOps, key : Keys, ttl : {"at", "unix"}, d : Int,
        flag : ExpireFlag]
  \cup [op : {"incr_by"}, key : Keys, by : {-1, 1}]
  \cup [op : {"hset", "hdel"}, key : Keys, f : Fields]
  \cup [op : {"clear", "cleanup_expired", "badarg"}]

ASSUME StoreAssumption ==
  /\ None \notin Int
  /\ None \notin Entry \cup Keys
  /\ MaxCmds \in Nat
  /\ MaxNow \in Nat
  /\ MaxInt \in Nat \ {0}
  /\ \A cmd \in Commands : cmd \in Seq(Calls) /\ cmd # <<>>

VARIABLES
  data,     \* DashMap<String, StoredValue>
  index,    \* expiration_index: DashMap<String, Instant>
  now,      \* Instant::now()
  pc,       \* where each thread stands
  todo,     \* the calls a thread's command still has to make, current first
  loc,      \* a thread's local variables
  started,  \* commands started so far (bound)
  next      \* the id of the next StoredValue

vars == <<data, index, now, pc, todo, loc, started, next>>

PCs == {"idle", "call", "set_data", "set_entry", "del_sync", "del_index",
        "del_data", "expire_entry", "incr_index", "incr_data", "hset_entry",
        "hdel_read", "hdel_key", "hdel_index", "hdel_field", "clear_data",
        "clear_index", "sweep_scan", "sweep_index", "sweep_data"}

\* deadline: a resolved TTL, or cleanup_expired's `now`; keys: the keys a
\* shard-by-shard loop still has to visit; due: expired_keys; sweep: the one
\* being deleted; since: ids from here on were created after the access found
\* an expired entry (read by the properties only).
Locals == [deadline : Times \cup {None}, since : Nat \cup {None},
           keys : SUBSET Keys, due : SUBSET Keys, sweep : Keys \cup {None}]
NoLocals == [deadline |-> None, since |-> None, keys |-> {}, due |-> {},
             sweep |-> None]

Init ==
  /\ data = [k \in Keys |-> None]
  /\ index = [k \in Keys |-> None]
  /\ now = 0
  /\ pc = [t \in Threads |-> "idle"]
  /\ todo = [t \in Threads |-> <<>>]
  /\ loc = [t \in Threads |-> NoLocals]
  /\ started = 0
  /\ next = 0

-----------------------------------------------------------------------------
(* Helpers *)

Fresh(type, n, fields, exp) ==
  [type |-> type, n |-> n, fields |-> fields, exp |-> exp, id |-> next]

\* StoredValue::is_expired: strictly after the deadline.
is_expired(e) == e.exp # None /\ now > e.exp

Present(k) == data[k] # None
Live(k) == Present(k) /\ ~is_expired(data[k])

Call(t) == Head(todo[t])
At(t, label) == pc[t] = label
AtCall(t, ops) == pc[t] = "call" /\ Call(t).op \in ops

Goto(t, label) ==
  /\ pc' = [pc EXCEPT ![t] = label]
  /\ UNCHANGED todo

\* The store call returned: the command makes its next one, or is done.
Return(t) ==
  /\ todo' = [todo EXCEPT ![t] = Tail(@)]
  /\ pc' = [pc EXCEPT ![t] = IF Tail(todo[t]) = <<>> THEN "idle" ELSE "call"]
  /\ loc' = [loc EXCEPT ![t] = NoLocals]

\* The call failed: the command returns the error and makes no other call.
Fail(t) ==
  /\ todo' = [todo EXCEPT ![t] = <<>>]
  /\ pc' = [pc EXCEPT ![t] = "idle"]
  /\ loc' = [loc EXCEPT ![t] = NoLocals]

Put(k, e) ==
  /\ data' = [data EXCEPT ![k] = e]
  /\ next' = IF e # None /\ e.id = next THEN next + 1 ELSE next

-----------------------------------------------------------------------------
(* Commands start; time passes. *)

Begin(t, cmd) ==
  /\ At(t, "idle")
  /\ started < MaxCmds
  /\ started' = started + 1
  /\ todo' = [todo EXCEPT ![t] = cmd]
  /\ pc' = [pc EXCEPT ![t] = "call"]
  /\ UNCHANGED <<data, index, now, loc, next>>

Tick ==
  /\ now < MaxNow
  /\ now' = now + 1
  /\ UNCHANGED <<data, index, pc, todo, loc, started, next>>

\* arg_str rejects an argument in the middle of a variadic command.
BadArg(t) ==
  /\ AtCall(t, {"badarg"})
  /\ Fail(t)
  /\ UNCHANGED <<data, index, now, started, next>>

-----------------------------------------------------------------------------
(* set, set_with_ttl, set_with_expiration: index first, then data *)

SetIndex(t) ==
  /\ AtCall(t, {"set"})
  /\ index' = [index EXCEPT ![Call(t).key] = None]
  /\ Goto(t, "set_data")
  /\ UNCHANGED <<data, now, loc, started, next>>

SetTtlIndex(t) ==
  LET at == now + Call(t).d IN
  /\ AtCall(t, SetTtlOps)
  /\ index' = [index EXCEPT ![Call(t).key] = at]
  /\ loc' = [loc EXCEPT ![t].deadline = at]
  /\ Goto(t, "set_data")
  /\ UNCHANGED <<data, now, started, next>>

SetData(t) ==
  /\ At(t, "set_data")
  /\ Put(Call(t).key, Fresh("string", Call(t).n, {}, loc[t].deadline))
  /\ Return(t)
  /\ UNCHANGED <<index, now, started>>

-----------------------------------------------------------------------------
(* set_with_options *)

\* The deadline as an Instant; a Unix time that has passed becomes the instant
\* just before the present one.
Deadline(ttl, d) ==
  CASE ttl = "none" -> None
    [] ttl = "at" -> now + d
    [] ttl = "unix" -> IF d <= now THEN now - 1 ELSE d

\* The TTL is resolved before the entry is locked; KEEPTTL is a separate
\* data.get.
SetResolve(t) ==
  /\ AtCall(t, {"set_with_options"})
  /\ LET c == Call(t)
         kept == IF Live(c.key) THEN data[c.key].exp ELSE None
     IN loc' = [loc EXCEPT ![t].deadline =
              IF c.ttl = "keep" THEN kept ELSE Deadline(c.ttl, c.d)]
  /\ Goto(t, "set_entry")
  /\ UNCHANGED <<data, index, now, started, next>>

Allowed(ex, present) ==
  \/ ex = "always"
  \/ ex = "nx" /\ ~present
  \/ ex = "xx" /\ present

\* Mutant of SetEntry: only an occupied entry updates the index.
SetEntryForgetsIndex(t) ==
  LET c == Call(t)
      k == c.key
      at == loc[t].deadline
  IN
  /\ At(t, "set_entry")
  /\ IF Allowed(c.ex, Live(k))
       THEN /\ Put(k, Fresh("string", c.n, {}, at))
            /\ index' = IF Present(k) THEN [index EXCEPT ![k] = at] ELSE index
       ELSE UNCHANGED <<data, index, next>>
  /\ Return(t)
  /\ UNCHANGED <<now, started>>

\* Under the entry lock.  A vacant entry leaves the index alone unless the
\* new value has a deadline.
SetEntry(t) ==
  LET c == Call(t)
      k == c.key
      at == loc[t].deadline
  IN
  /\ At(t, "set_entry")
  /\ IF Allowed(c.ex, Live(k))
       THEN /\ Put(k, Fresh("string", c.n, {}, at))
            /\ index' = IF Present(k) \/ at # None
                          THEN [index EXCEPT ![k] = at]
                          ELSE index
       ELSE UNCHANGED <<data, index, next>>
  /\ Return(t)
  /\ UNCHANGED <<now, started>>

-----------------------------------------------------------------------------
(* delete and delete_sync.  Both branches of the code remove the index      *)
(* entry and then the data entry, whatever the data entry is by then; they  *)
(* differ in the result only.                                               *)

Delete(t) ==
  /\ AtCall(t, {"delete"})
  /\ Goto(t, "del_index")
  /\ UNCHANGED <<data, index, now, loc, started, next>>

DeleteSync(t) ==
  /\ At(t, "del_sync")
  /\ Goto(t, "del_index")
  /\ UNCHANGED <<data, index, now, loc, started, next>>

DeleteIndex(t) ==
  /\ At(t, "del_index")
  /\ index' = [index EXCEPT ![Call(t).key] = None]
  /\ Goto(t, "del_data")
  /\ UNCHANGED <<data, now, loc, started, next>>

\* hset goes on to its entry once the expired hash is out of the way.
DeleteData(t) ==
  /\ At(t, "del_data")
  /\ Put(Call(t).key, None)
  /\ IF Call(t).op = "hset"
       THEN /\ Goto(t, "hset_entry")
            /\ loc' = [loc EXCEPT ![t] = NoLocals]
       ELSE Return(t)
  /\ UNCHANGED <<index, now, started>>

\* Mutant of FoundExpired: the deadline itself counts as passed.
FoundDue(t, k) ==
  /\ Present(k)
  /\ data[k].exp # None /\ now >= data[k].exp
  /\ loc' = [loc EXCEPT ![t].since = next]
  /\ Goto(t, "del_sync")
  /\ UNCHANGED <<data, index, next>>

\* An access that finds the entry expired deletes it.
FoundExpired(t, k) ==
  /\ Present(k)
  /\ is_expired(data[k])
  /\ loc' = [loc EXCEPT ![t].since = next]
  /\ Goto(t, "del_sync")
  /\ UNCHANGED <<data, index, next>>

\* Under the entry's read lock; the reply is left out.
Lookup(t, ops, wanted) ==
  LET k == Call(t).key IN
  /\ AtCall(t, ops)
  /\ \/ FoundExpired(t, k)
     \/ /\ Present(k) => Live(k)
        /\ IF Present(k) => data[k].type \in wanted THEN Return(t) ELSE Fail(t)
        /\ UNCHANGED <<data, index, next>>
  /\ UNCHANGED <<now, started>>

Get(t) == Lookup(t, {"get"}, Types)
Exists(t) == Lookup(t, {"exists"}, Types)
Ttl(t) == Lookup(t, {"ttl"}, Types)
Pttl(t) == Lookup(t, {"pttl"}, Types)
Hget(t) == Lookup(t, {"hget"}, {"hash"})
Hgetall(t) == Lookup(t, {"hgetall"}, {"hash"})
Hexists(t) == Lookup(t, {"hexists"}, {"hash"})

-----------------------------------------------------------------------------
(* expire_with_options, expire_at_with_options, persist *)

ExpireResolve(t) ==
  /\ AtCall(t, ExpireOps)
  /\ loc' = [loc EXCEPT ![t].deadline = Deadline(Call(t).ttl, Call(t).d)]
  /\ Goto(t, "expire_entry")
  /\ UNCHANGED <<data, index, now, started, next>>

\* No current deadline counts as +infinity for GT and LT.
ShouldApply(flag, new, current) ==
  \/ flag = "none"
  \/ flag = "nx" /\ current = None
  \/ flag = "xx" /\ current # None
  \/ flag = "gt" /\ current # None /\ new > current
  \/ flag = "lt" /\ (current = None \/ new < current)

\* Mutant of ExpireEntry: no expiry check under the entry lock.
ExpireEntryUnchecked(t) ==
  LET k == Call(t).key
      at == loc[t].deadline
  IN
  /\ At(t, "expire_entry")
  /\ IF Present(k) /\ ShouldApply(Call(t).flag, at, data[k].exp)
       THEN /\ data' = [data EXCEPT ![k].exp = at]
            /\ index' = [index EXCEPT ![k] = at]
       ELSE UNCHANGED <<data, index>>
  /\ Return(t)
  /\ UNCHANGED <<now, started, next>>

ExpireEntry(t) ==
  LET k == Call(t).key
      at == loc[t].deadline
  IN
  /\ At(t, "expire_entry")
  /\ \/ FoundExpired(t, k)
     \/ /\ Present(k) => Live(k)
        /\ IF Live(k) /\ ShouldApply(Call(t).flag, at, data[k].exp)
             THEN /\ data' = [data EXCEPT ![k].exp = at]
                  /\ index' = [index EXCEPT ![k] = at]
             ELSE UNCHANGED <<data, index>>
        /\ Return(t)
        /\ UNCHANGED next
  /\ UNCHANGED <<now, started>>

Persist(t) ==
  LET k == Call(t).key IN
  /\ AtCall(t, {"persist"})
  /\ \/ FoundExpired(t, k)
     \/ /\ Present(k) => Live(k)
        /\ IF Live(k)
             THEN /\ data' = [data EXCEPT ![k].exp = None]
                  /\ index' = [index EXCEPT ![k] = None]
             ELSE UNCHANGED <<data, index>>
        /\ Return(t)
        /\ UNCHANGED next
  /\ UNCHANGED <<now, started>>

-----------------------------------------------------------------------------
(* incr_by *)

\* Mutant of CanAdd: an unchecked addition.
CanAddUnchecked(e, by) == e.n # None

\* to_integer succeeded and checked_add did not overflow.
CanAdd(e, by) == e.n # None /\ e.n + by \in IntRange

IncrEntry(t) ==
  LET k == Call(t).key
      by == Call(t).by
  IN
  /\ AtCall(t, {"incr_by"})
  /\ \/ \* expired: entry.remove() drops the lock
        /\ Present(k) /\ ~Live(k)
        /\ Put(k, None)
        /\ Goto(t, "incr_index")
        /\ UNCHANGED loc
     \/ /\ Live(k) /\ CanAdd(data[k], by)
        /\ data' = [data EXCEPT ![k].type = "integer", ![k].n = @ + by]
        /\ Return(t)
        /\ UNCHANGED next
     \/ /\ Live(k) /\ ~CanAdd(data[k], by)
        /\ Fail(t)
        /\ UNCHANGED <<data, next>>
     \/ /\ ~Present(k)
        /\ Put(k, Fresh("integer", by, {}, None))
        /\ Return(t)
  /\ UNCHANGED <<index, now, started>>

IncrIndex(t) ==
  /\ At(t, "incr_index")
  /\ index' = [index EXCEPT ![Call(t).key] = None]
  /\ Goto(t, "incr_data")
  /\ UNCHANGED <<data, now, loc, started, next>>

IncrData(t) ==
  /\ At(t, "incr_data")
  /\ Put(Call(t).key, Fresh("integer", Call(t).by, {}, None))
  /\ Return(t)
  /\ UNCHANGED <<index, now, started>>

-----------------------------------------------------------------------------
(* hset and hdel *)

HsetCheck(t) ==
  LET k == Call(t).key IN
  /\ AtCall(t, {"hset"})
  /\ \/ FoundExpired(t, k)
     \/ /\ Present(k) => Live(k)
        /\ Goto(t, "hset_entry")
        /\ UNCHANGED <<data, index, loc, next>>
  /\ UNCHANGED <<now, started>>

\* Expiry is not looked at again under the entry lock.
HsetEntry(t) ==
  LET k == Call(t).key
      f == Call(t).f
  IN
  /\ At(t, "hset_entry")
  /\ \/ /\ Present(k) /\ data[k].type = "hash"
        /\ data' = [data EXCEPT ![k].fields = @ \cup {f}]
        /\ Return(t)
        /\ UNCHANGED next
     \/ /\ Present(k) /\ data[k].type # "hash"
        /\ Fail(t)
        /\ UNCHANGED <<data, next>>
     \/ /\ ~Present(k)
        /\ Put(k, Fresh("hash", None, {f}, None))
        /\ Return(t)
  /\ UNCHANGED <<index, now, started>>

HdelCheck(t) ==
  LET k == Call(t).key IN
  /\ AtCall(t, {"hdel"})
  /\ \/ FoundExpired(t, k)
     \/ /\ Present(k) => Live(k)
        /\ Goto(t, "hdel_read")
        /\ UNCHANGED <<data, index, loc, next>>
  /\ UNCHANGED <<now, started>>

\* The decision is made under a read lock that is released before it is
\* carried out.
HdelRead(t) ==
  LET k == Call(t).key
      f == Call(t).f
  IN
  /\ At(t, "hdel_read")
  /\ \/ /\ Present(k) => data[k].type = "hash" /\ f \notin data[k].fields
        /\ Return(t)
     \/ /\ Present(k) /\ data[k].type # "hash"
        /\ Fail(t)
     \/ /\ Present(k) /\ data[k].type = "hash" /\ f \in data[k].fields
        /\ Goto(t, IF data[k].fields = {f} THEN "hdel_key" ELSE "hdel_field")
        /\ UNCHANGED loc
  /\ UNCHANGED <<data, index, now, started, next>>

HdelKey(t) ==
  /\ At(t, "hdel_key")
  /\ Put(Call(t).key, None)
  /\ Goto(t, "hdel_index")
  /\ UNCHANGED <<index, now, loc, started>>

HdelIndex(t) ==
  /\ At(t, "hdel_index")
  /\ index' = [index EXCEPT ![Call(t).key] = None]
  /\ Return(t)
  /\ UNCHANGED <<data, now, started, next>>

HdelField(t) ==
  LET k == Call(t).key IN
  /\ At(t, "hdel_field")
  /\ data' = IF Present(k) /\ data[k].type = "hash"
               THEN [data EXCEPT ![k].fields = @ \ {Call(t).f}]
               ELSE data
  /\ Return(t)
  /\ UNCHANGED <<index, now, started, next>>

-----------------------------------------------------------------------------
(* clear and cleanup_expired visit the maps shard by shard; with a key per  *)
(* shard that is key by key, in an order the hashing fixes.                 *)

ClearBegin(t) ==
  /\ AtCall(t, {"clear"})
  /\ loc' = [loc EXCEPT ![t].keys = Keys]
  /\ Goto(t, "clear_data")
  /\ UNCHANGED <<data, index, now, started, next>>

ClearData(t, k) ==
  LET left == loc[t].keys \ {k} IN
  /\ At(t, "clear_data")
  /\ k \in loc[t].keys
  /\ Put(k, None)
  /\ loc' = [loc EXCEPT ![t].keys = IF left = {} THEN Keys ELSE left]
  /\ Goto(t, IF left = {} THEN "clear_index" ELSE "clear_data")
  /\ UNCHANGED <<index, now, started>>

ClearIndex(t, k) ==
  /\ At(t, "clear_index")
  /\ k \in loc[t].keys
  /\ index' = [index EXCEPT ![k] = None]
  /\ IF loc[t].keys = {k}
       THEN Return(t)
       ELSE /\ loc' = [loc EXCEPT ![t].keys = @ \ {k}]
            /\ Goto(t, "clear_index")
  /\ UNCHANGED <<data, now, started, next>>

\* cleanup_expired reads the clock, collects the keys whose index entry has
\* passed ...
SweepBegin(t) ==
  /\ AtCall(t, {"cleanup_expired"})
  /\ loc' = [loc EXCEPT ![t].deadline = now, ![t].keys = Keys]
  /\ Goto(t, "sweep_scan")
  /\ UNCHANGED <<data, index, now, started, next>>

SweepScan(t, k) ==
  LET left == loc[t].keys \ {k}
      hit == index[k] # None /\ index[k] <= loc[t].deadline
      due == loc[t].due \cup (IF hit THEN {k} ELSE {})
  IN
  /\ At(t, "sweep_scan")
  /\ k \in loc[t].keys
  /\ IF left = {} /\ due = {}
       THEN Return(t)
       ELSE /\ loc' = [loc EXCEPT ![t].keys = left, ![t].due = due]
            /\ Goto(t, IF left = {} THEN "sweep_index" ELSE "sweep_scan")
  /\ UNCHANGED <<data, index, now, started, next>>

\* ... and deletes each of them with delete_internal, without looking again:
\* the index entry of one key goes, then its data entry.
SweepIndex(t, k) ==
  /\ At(t, "sweep_index")
  /\ k \in loc[t].due
  /\ index' = [index EXCEPT ![k] = None]
  /\ loc' = [loc EXCEPT ![t].sweep = k]
  /\ Goto(t, "sweep_data")
  /\ UNCHANGED <<data, now, started, next>>

SweepData(t) ==
  LET k == loc[t].sweep IN
  /\ At(t, "sweep_data")
  /\ Put(k, None)
  /\ IF loc[t].due = {k}
       THEN Return(t)
       ELSE /\ loc' = [loc EXCEPT ![t].due = @ \ {k}, ![t].sweep = None]
            /\ Goto(t, "sweep_index")
  /\ UNCHANGED <<index, now, started>>

-----------------------------------------------------------------------------

Step(t) ==
  \/ BadArg(t)
  \/ SetIndex(t) \/ SetTtlIndex(t) \/ SetData(t)
  \/ SetResolve(t) \/ SetEntry(t)
  \/ Delete(t) \/ DeleteSync(t) \/ DeleteIndex(t) \/ DeleteData(t)
  \/ Get(t) \/ Exists(t) \/ Ttl(t) \/ Pttl(t)
  \/ Hget(t) \/ Hgetall(t) \/ Hexists(t)
  \/ ExpireResolve(t) \/ ExpireEntry(t) \/ Persist(t)
  \/ IncrEntry(t) \/ IncrIndex(t) \/ IncrData(t)
  \/ HsetCheck(t) \/ HsetEntry(t)
  \/ HdelCheck(t) \/ HdelRead(t)
  \/ HdelKey(t) \/ HdelIndex(t) \/ HdelField(t)
  \/ ClearBegin(t)
  \/ \E k \in Keys : ClearData(t, k) \/ ClearIndex(t, k)
  \/ SweepBegin(t)
  \/ \E k \in Keys : SweepScan(t, k) \/ SweepIndex(t, k)
  \/ SweepData(t)

Next ==
  \/ \E t \in Threads : Step(t)
  \/ \E t \in Threads, cmd \in Commands : Begin(t, cmd)
  \/ Tick

Spec == Init /\ [][Next]_vars

-----------------------------------------------------------------------------
(* Properties *)

MapsOK ==
  /\ data \in [Keys -> Entry \cup {None}]
  /\ index \in [Keys -> Times \cup {None}]
  /\ now \in 0 .. MaxNow
  /\ started \in 0 .. MaxCmds
  /\ next \in Nat

LazyOps == ReadOps \cup HashReadOps \cup ExpireOps \cup {"persist", "hset", "hdel"}
Deleting == {"del_sync", "del_index", "del_data"}

\* Where a thread is, which call it is making and what it remembers agree.
ThreadOK(t) ==
  LET op == Call(t).op IN
  /\ pc[t] = "idle" <=> todo[t] = <<>>
  /\ pc[t] \in {"idle", "call"} => loc[t] = NoLocals
  /\ pc[t] = "set_data" => op \in SetTtlOps \/ (op = "set" /\ loc[t].deadline = None)
  /\ pc[t] = "set_entry" => op = "set_with_options"
  /\ pc[t] \in Deleting => op = "delete" \/ (op \in LazyOps /\ loc[t].since # None)
  /\ pc[t] = "expire_entry" => op \in ExpireOps /\ loc[t].deadline # None
  /\ pc[t] \in {"incr_index", "incr_data"} => op = "incr_by"
  /\ pc[t] = "hset_entry" => op = "hset"
  /\ pc[t] \in {"hdel_read", "hdel_key", "hdel_index", "hdel_field"} => op = "hdel"
  /\ pc[t] \in {"clear_data", "clear_index"} => op = "clear"
  /\ pc[t] \in {"sweep_scan", "sweep_index", "sweep_data"} => op = "cleanup_expired"
  /\ pc[t] = "sweep_data" => loc[t].sweep # None

ThreadsOK ==
  /\ pc \in [Threads -> PCs]
  /\ todo \in [Threads -> Seq(Calls)]
  /\ loc \in [Threads -> Locals]
  /\ \A t \in Threads : ThreadOK(t)

\* The maps hold well-formed values (a counter never leaves the i64 range),
\* and every thread is inside the method of the call it is making.
TypeOK == MapsOK /\ ThreadsOK

SameEntry(k) ==
  /\ data[k] # None
  /\ data'[k] # None
  /\ data'[k].id = data[k].id

\* A stored value whose deadline has passed stays expired until it is
\* replaced: no EXPIRE, PERSIST, INCR, HSET or HDEL that was already under
\* way when the deadline passed gives it a new lease of life.
NoResurrection ==
  [][\A k \in Keys :
       SameEntry(k) /\ is_expired(data[k]) => data'[k].exp = data[k].exp]_vars

LazyDeleting(t) == pc[t] = "del_data" /\ Call(t).op # "delete"

\* Lazy expiry (GET, EXISTS, TTL, HGET, EXPIRE, HSET ... on an expired key)
\* never removes a live value that was in the store when the access found the
\* key expired, however the accesses and writers interleave.
LazyDeleteSparesOlderValues ==
  \A t \in Threads :
    LazyDeleting(t) /\ Live(Call(t).key) => data[Call(t).key].id >= loc[t].since

\* Thread t has dropped k's index entry and is about to drop or overwrite k's
\* data entry.
IndexDropped(t, k) ==
  \/ pc[t] \in {"del_data", "set_data", "incr_data"} /\ Call(t).key = k
  \/ pc[t] = "sweep_data" /\ loc[t].sweep = k

UnindexedOps == {"hdel", "clear"} \cup SetTtlOps
OnlyIndexedOps == \A cmd \in Commands : \A i \in DOMAIN cmd : cmd[i].op \notin UnindexedOps

\* Every stored deadline is in expiration_index, where cleanup_expired looks
\* for it, except while an operation that has dropped the index entry is about
\* to drop the value as well.  hdel, clear and set_with_ttl are excluded: they
\* touch the index last, or write it without the value.
IndexCovers ==
  OnlyIndexedOps =>
    \A k \in Keys :
      data[k] # None /\ data[k].exp # None =>
        index[k] = data[k].exp \/ \E t \in Threads : IndexDropped(t, k)

-----------------------------------------------------------------------------
(* What the comments and the documentation say, which the code does not do *)

\* "Remove expired key" (memory.rs:622): the lazy delete of an access that
\* found an expired entry removes that entry, never a live one.
LazyDeleteRemovesOnlyExpired ==
  \A t \in Threads : LazyDeleting(t) => ~Live(Call(t).key)
=============================================================================
