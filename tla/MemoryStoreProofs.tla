-------------------------- MODULE MemoryStoreProofs --------------------------
(***************************************************************************)
(* Proofs about MemoryStore for any number of threads, keys, fields and    *)
(* commands.                                                               *)
(***************************************************************************)
EXTENDS MemoryStore, TLAPS

-----------------------------------------------------------------------------
(* Calls and the control helpers *)

\* Which fields the calls of each store method carry.
LEMMA CallFields ==
  ASSUME NEW c \in Calls
  PROVE  /\ c.op \in {"set", "set_with_options"} \cup SetTtlOps
              => c.n \in IntRange \cup {None}
         /\ c.op \notin {"clear", "cleanup_expired", "badarg"} => c.key \in Keys
         /\ c.op \in SetTtlOps => c.d \in Int
         /\ c.op = "set_with_options" => c.ttl \in SetTtlOption /\ c.d \in Int
         /\ c.op \in ExpireOps => c.ttl \in {"at", "unix"} /\ c.d \in Int
         /\ c.op = "incr_by" => c.by \in {-1, 1}
         /\ c.op \in {"hset", "hdel"} => c.f \in Fields
  BY DEF Calls, ReadOps, HashReadOps, ExpireOps, SetTtlOps

\* A thread inside a command has a current call, and its rest is typed.
LEMMA CurrentCall ==
  ASSUME ThreadsOK, NEW t \in Threads, pc[t] # "idle"
  PROVE  /\ Call(t) \in Calls
         /\ todo[t] # <<>>
         /\ Tail(todo[t]) \in Seq(Calls)
  BY DEF ThreadsOK, ThreadOK, Call

\* The locals of a thread between calls (a method that has just been entered).
LEMMA NoLocalsType == NoLocals \in Locals
  BY DEF NoLocals, Locals

\* Another thread's control state survives a step of thread t.
LEMMA OthersOK ==
  ASSUME ThreadsOK, NEW t \in Threads, NEW u \in Threads, u # t,
         pc' = [pc EXCEPT ![t] = pc'[t]],
         todo' = [todo EXCEPT ![t] = todo'[t]],
         loc' = [loc EXCEPT ![t] = loc'[t]]
  PROVE  ThreadOK(u)'
  <1>1. pc'[u] = pc[u] /\ todo'[u] = todo[u] /\ loc'[u] = loc[u]
    BY DEF ThreadsOK
  <1> QED
    BY <1>1 DEF ThreadsOK, ThreadOK, Call

\* A call that returns, or fails, leaves its thread idle or at its next call.
LEMMA ReturnOK ==
  ASSUME ThreadsOK, NEW t \in Threads, pc[t] # "idle", Return(t) \/ Fail(t)
  PROVE  ThreadsOK'
  <1>1. Tail(todo[t]) \in Seq(Calls)
    BY CurrentCall
  <1>2. /\ pc' = [pc EXCEPT ![t] = pc'[t]]
        /\ todo' = [todo EXCEPT ![t] = todo'[t]]
        /\ loc' = [loc EXCEPT ![t] = NoLocals]
        /\ loc' = [loc EXCEPT ![t] = loc'[t]]
        /\ pc'[t] = IF todo'[t] = <<>> THEN "idle" ELSE "call"
        /\ todo'[t] \in Seq(Calls)
    <2>1. CASE Return(t)
      BY <2>1, <1>1 DEF Return, ThreadsOK
    <2>2. CASE Fail(t)
      BY <2>2 DEF Fail, ThreadsOK
    <2> QED BY <2>1, <2>2
  <1>3. pc' \in [Threads -> PCs]
    BY <1>2 DEF ThreadsOK, PCs
  <1>4. todo' \in [Threads -> Seq(Calls)]
    BY <1>2 DEF ThreadsOK
  <1>5. loc' \in [Threads -> Locals]
    BY <1>2, NoLocalsType DEF ThreadsOK
  <1>6. ThreadOK(t)'
    BY <1>2 DEF ThreadOK, ThreadsOK, Deleting, NoLocals
  <1>7. \A u \in Threads : ThreadOK(u)'
    BY <1>2, <1>6, OthersOK
  <1> QED
    BY <1>3, <1>4, <1>5, <1>7 DEF ThreadsOK

\* A thread that moves inside its call: enough to check the thread itself.
LEMMA GotoOK ==
  ASSUME ThreadsOK, NEW t \in Threads, pc[t] # "idle",
         NEW label \in PCs, label # "idle", Goto(t, label),
         NEW l \in Locals, loc' = [loc EXCEPT ![t] = l],
         ThreadOK(t)'
  PROVE  ThreadsOK'
  <1>1. /\ pc' = [pc EXCEPT ![t] = pc'[t]]
        /\ todo' = [todo EXCEPT ![t] = todo'[t]]
        /\ loc' = [loc EXCEPT ![t] = loc'[t]]
    BY DEF Goto, ThreadsOK
  <1>2. \A u \in Threads : ThreadOK(u)'
    BY <1>1, OthersOK
  <1> QED
    BY <1>2 DEF Goto, ThreadsOK

\* A step to another label that leaves the locals alone.
LEMMA StayOK ==
  ASSUME ThreadsOK, NEW t \in Threads, pc[t] # "idle",
         NEW label \in PCs, label # "idle", Goto(t, label),
         UNCHANGED loc,
         ThreadOK(t)'
  PROVE  ThreadsOK'
  <1>1. loc[t] \in Locals /\ loc' = [loc EXCEPT ![t] = loc[t]]
    BY DEF ThreadsOK
  <1> QED
    BY <1>1, GotoOK

-----------------------------------------------------------------------------
(* Type correctness *)

\* An access that finds its key expired is on its way into delete_sync.
LEMMA FoundExpiredThreads ==
  ASSUME TypeOK, NEW t \in Threads, pc[t] # "idle", Call(t).op \in LazyOps,
         FoundExpired(t, Call(t).key)
  PROVE  ThreadsOK'
  <1> DEFINE l == [loc[t] EXCEPT !.since = next]
  <1>1. l \in Locals /\ loc' = [loc EXCEPT ![t] = l]
    BY StoreAssumption DEF FoundExpired, TypeOK, MapsOK, ThreadsOK, Locals
  <1>2. Goto(t, "del_sync") /\ "del_sync" \in PCs
    BY DEF FoundExpired, PCs
  <1>3. ThreadOK(t)'
    BY <1>1, <1>2, StoreAssumption
       DEF FoundExpired, Goto, ThreadOK, TypeOK, MapsOK, ThreadsOK, Locals, Call, Deleting
  <1> QED
    BY <1>1, <1>2, <1>3, GotoOK DEF TypeOK

\* get, exists, ttl, pttl, hget, hgetall and hexists keep the control state
\* well-formed, whichever branch they take.
LEMMA LookupThreads ==
  ASSUME TypeOK, NEW t \in Threads,
         NEW ops \in SUBSET LazyOps, NEW wanted, Lookup(t, ops, wanted)
  PROVE  ThreadsOK'
  <1>1. pc[t] # "idle" /\ Call(t).op \in LazyOps
    BY DEF Lookup, AtCall
  <1>2. CASE FoundExpired(t, Call(t).key)
    BY <1>1, <1>2, FoundExpiredThreads
  <1>3. CASE Return(t) \/ Fail(t)
    BY <1>1, <1>3, ReturnOK DEF TypeOK
  <1> QED
    BY <1>2, <1>3 DEF Lookup

\* resolve_ttl and resolve_unix_target give an Instant, or none.
LEMMA DeadlineType ==
  ASSUME MapsOK, NEW d \in Int, NEW ttl \in {"none", "at", "unix"}
  PROVE  /\ Deadline(ttl, d) \in Times \cup {None}
         /\ ttl # "none" => Deadline(ttl, d) \in Int
  BY DEF MapsOK, Deadline, Times

\* The deadline set_with_options resolves before it locks the entry, KEEPTTL's
\* included, is an Instant or none.
LEMMA SetResolveDeadline ==
  ASSUME TypeOK, NEW t \in Threads, SetResolve(t)
  PROVE  \E at \in Times \cup {None} : loc' = [loc EXCEPT ![t].deadline = at]
  <1> DEFINE c == Call(t)
             kept == IF Live(c.key) THEN data[c.key].exp ELSE None
  <1>1. c \in Calls /\ c.op = "set_with_options"
    BY CurrentCall DEF SetResolve, AtCall, TypeOK
  <1>2. c.key \in Keys /\ c.d \in Int /\ c.ttl \in SetTtlOption
    BY <1>1, CallFields
  <1>3. kept \in Times \cup {None}
    BY <1>2 DEF TypeOK, MapsOK, Live, Present, Entry
  <1>4. c.ttl # "keep" => Deadline(c.ttl, c.d) \in Times \cup {None}
    BY <1>2, DeadlineType DEF TypeOK, SetTtlOption
  <1> QED
    BY <1>3, <1>4 DEF SetResolve

\* Every step of a thread keeps its position, its call and its locals in
\* agreement.
LEMMA StepThreads ==
  ASSUME TypeOK, NEW t \in Threads, Step(t)
  PROVE  ThreadsOK'
  <1> USE DEF TypeOK
  <1>0. pc[t] # "idle" => Call(t) \in Calls
    BY CurrentCall
  <1>1. CASE BadArg(t)
    BY <1>1, ReturnOK DEF BadArg, AtCall
  <1>2. CASE SetIndex(t)
    <2>1. pc[t] = "call" /\ Goto(t, "set_data") /\ "set_data" \in PCs /\ UNCHANGED loc
      BY <1>2 DEF SetIndex, AtCall, PCs
    <2>2. ThreadOK(t)'
      BY <1>2, <2>1 DEF SetIndex, AtCall, Goto, ThreadOK, ThreadsOK, Call, Deleting, NoLocals
    <2> QED BY <2>1, <2>2, StayOK
  <1>3. CASE SetTtlIndex(t)
    <2> DEFINE l == [loc[t] EXCEPT !.deadline = now + Call(t).d]
    <2>1. pc[t] # "idle" /\ Goto(t, "set_data") /\ "set_data" \in PCs
      BY <1>3 DEF SetTtlIndex, AtCall, PCs
    <2>4. now + Call(t).d \in Int
      BY <1>3, <1>0, CallFields, StoreAssumption DEF SetTtlIndex, AtCall, MapsOK
    <2>2. l \in Locals /\ loc' = [loc EXCEPT ![t] = l]
      BY <1>3, <2>4 DEF SetTtlIndex, ThreadsOK, Locals, Times
    <2>3. ThreadOK(t)'
      BY <1>3, <2>1, <2>2 DEF SetTtlIndex, AtCall, Goto, ThreadOK, ThreadsOK, Locals, Call, Deleting
    <2> QED BY <2>1, <2>2, <2>3, GotoOK
  <1>4. CASE SetData(t)
    BY <1>4, ReturnOK DEF SetData, At
  <1>5. CASE SetResolve(t)
    <2>1. PICK at \in Times \cup {None} : loc' = [loc EXCEPT ![t].deadline = at]
      BY <1>5, SetResolveDeadline
    <2> DEFINE l == [loc[t] EXCEPT !.deadline = at]
    <2>2. pc[t] # "idle" /\ Goto(t, "set_entry") /\ "set_entry" \in PCs
      BY <1>5 DEF SetResolve, AtCall, PCs
    <2>3. l \in Locals /\ loc' = [loc EXCEPT ![t] = l]
      BY <2>1 DEF ThreadsOK, Locals
    <2>4. ThreadOK(t)'
      BY <1>5, <2>2 DEF SetResolve, AtCall, Goto, ThreadOK, ThreadsOK, Call, Deleting
    <2> QED BY <2>2, <2>3, <2>4, GotoOK
  <1>6. CASE SetEntry(t)
    BY <1>6, ReturnOK DEF SetEntry, At
  <1>7. CASE Delete(t)
    <2>1. pc[t] # "idle" /\ Goto(t, "del_index") /\ "del_index" \in PCs /\ UNCHANGED loc
      BY <1>7 DEF Delete, AtCall, PCs
    <2>2. ThreadOK(t)'
      BY <1>7, <2>1 DEF Delete, AtCall, Goto, ThreadOK, ThreadsOK, Call, Deleting
    <2> QED BY <2>1, <2>2, StayOK
  <1>8. CASE DeleteSync(t)
    <2>1. pc[t] # "idle" /\ Goto(t, "del_index") /\ "del_index" \in PCs /\ UNCHANGED loc
      BY <1>8 DEF DeleteSync, At, PCs
    <2>2. ThreadOK(t)'
      BY <1>8, <2>1 DEF DeleteSync, At, Goto, ThreadOK, ThreadsOK, Call, Deleting
    <2> QED BY <2>1, <2>2, StayOK
  <1>9. CASE DeleteIndex(t)
    <2>1. pc[t] # "idle" /\ Goto(t, "del_data") /\ "del_data" \in PCs /\ UNCHANGED loc
      BY <1>9 DEF DeleteIndex, At, PCs
    <2>2. ThreadOK(t)'
      BY <1>9, <2>1 DEF DeleteIndex, At, Goto, ThreadOK, ThreadsOK, Call, Deleting
    <2> QED BY <2>1, <2>2, StayOK
  <1>10. CASE DeleteData(t)
    <2>1. pc[t] = "del_data"
      BY <1>10 DEF DeleteData, At
    <2>2. CASE Return(t)
      BY <2>1, <2>2, ReturnOK
    <2>3. CASE Goto(t, "hset_entry") /\ loc' = [loc EXCEPT ![t] = NoLocals] /\ Call(t).op = "hset"
      <3>1. "hset_entry" \in PCs
        BY DEF PCs
      <3>2. ThreadOK(t)'
        BY <2>1, <2>3 DEF Goto, ThreadOK, ThreadsOK, Call, Deleting
      <3> QED BY <2>1, <2>3, <3>1, <3>2, NoLocalsType, GotoOK
    <2> QED BY <1>10, <2>2, <2>3 DEF DeleteData
  <1>11. CASE Get(t) \/ Exists(t) \/ Ttl(t) \/ Pttl(t)
    <2>1. {"get"} \in SUBSET LazyOps /\ {"exists"} \in SUBSET LazyOps
          /\ {"ttl"} \in SUBSET LazyOps /\ {"pttl"} \in SUBSET LazyOps
      BY DEF LazyOps, ReadOps
    <2> QED BY <1>11, <2>1, LookupThreads DEF Get, Exists, Ttl, Pttl
  <1>12. CASE Hget(t) \/ Hgetall(t) \/ Hexists(t)
    <2>1. {"hget"} \in SUBSET LazyOps /\ {"hgetall"} \in SUBSET LazyOps
          /\ {"hexists"} \in SUBSET LazyOps
      BY DEF LazyOps, HashReadOps
    <2> QED BY <1>12, <2>1, LookupThreads DEF Hget, Hgetall, Hexists
  <1>13. CASE ExpireResolve(t)
    <2> DEFINE at == Deadline(Call(t).ttl, Call(t).d)
               l == [loc[t] EXCEPT !.deadline = at]
    <2>1. pc[t] # "idle" /\ Goto(t, "expire_entry") /\ "expire_entry" \in PCs
      BY <1>13 DEF ExpireResolve, AtCall, PCs
    <2>2. Call(t).op \in ExpireOps /\ Call(t).d \in Int /\ Call(t).ttl \in {"at", "unix"}
      BY <1>0, <1>13, CallFields DEF ExpireResolve, AtCall
    <2>3. at \in Int
      BY <2>2, DeadlineType
    <2>4. l \in Locals /\ loc' = [loc EXCEPT ![t] = l]
      BY <1>13, <2>3 DEF ExpireResolve, ThreadsOK, Locals, Times
    <2>5. ThreadOK(t)'
      BY <2>1, <2>2, <2>3, <2>4, StoreAssumption
         DEF Goto, ThreadOK, ThreadsOK, Locals, Call, Deleting
    <2> QED BY <2>1, <2>4, <2>5, GotoOK
  <1>14. CASE ExpireEntry(t)
    <2>1. pc[t] # "idle" /\ Call(t).op \in LazyOps
      BY <1>14 DEF ExpireEntry, At, ThreadsOK, ThreadOK, LazyOps
    <2> QED BY <1>14, <2>1, FoundExpiredThreads, ReturnOK DEF ExpireEntry
  <1>15. CASE Persist(t)
    <2>1. pc[t] # "idle" /\ Call(t).op \in LazyOps
      BY <1>15 DEF Persist, AtCall, LazyOps
    <2> QED BY <1>15, <2>1, FoundExpiredThreads, ReturnOK DEF Persist
  <1>16. CASE IncrEntry(t)
    <2>1. pc[t] = "call" /\ Call(t).op = "incr_by"
      BY <1>16 DEF IncrEntry, AtCall
    <2>2. CASE Return(t) \/ Fail(t)
      BY <2>1, <2>2, ReturnOK
    <2>3. CASE Goto(t, "incr_index") /\ UNCHANGED loc
      <3>1. "incr_index" \in PCs
        BY DEF PCs
      <3>2. ThreadOK(t)'
        BY <2>1, <2>3 DEF Goto, ThreadOK, ThreadsOK, Call, Deleting
      <3> QED BY <2>1, <2>3, <3>1, <3>2, StayOK
    <2> QED BY <1>16, <2>2, <2>3 DEF IncrEntry
  <1>17. CASE IncrIndex(t)
    <2>1. pc[t] # "idle" /\ Goto(t, "incr_data") /\ "incr_data" \in PCs /\ UNCHANGED loc
      BY <1>17 DEF IncrIndex, At, PCs
    <2>2. ThreadOK(t)'
      BY <1>17, <2>1 DEF IncrIndex, At, Goto, ThreadOK, ThreadsOK, Call, Deleting
    <2> QED BY <2>1, <2>2, StayOK
  <1>18. CASE IncrData(t)
    BY <1>18, ReturnOK DEF IncrData, At
  <1>19. CASE HsetCheck(t)
    <2>1. pc[t] = "call" /\ Call(t).op \in LazyOps /\ Call(t).op = "hset"
      BY <1>19 DEF HsetCheck, AtCall, LazyOps
    <2>2. CASE FoundExpired(t, Call(t).key)
      BY <2>1, <2>2, FoundExpiredThreads
    <2>3. CASE Goto(t, "hset_entry") /\ UNCHANGED loc
      <3>1. "hset_entry" \in PCs
        BY DEF PCs
      <3>2. ThreadOK(t)'
        BY <2>1, <2>3 DEF Goto, ThreadOK, ThreadsOK, Call, Deleting
      <3> QED BY <2>1, <2>3, <3>1, <3>2, StayOK
    <2> QED BY <1>19, <2>2, <2>3 DEF HsetCheck
  <1>20. CASE HsetEntry(t)
    BY <1>20, ReturnOK DEF HsetEntry, At
  <1>21. CASE HdelCheck(t)
    <2>1. pc[t] = "call" /\ Call(t).op \in LazyOps /\ Call(t).op = "hdel"
      BY <1>21 DEF HdelCheck, AtCall, LazyOps
    <2>2. CASE FoundExpired(t, Call(t).key)
      BY <2>1, <2>2, FoundExpiredThreads
    <2>3. CASE Goto(t, "hdel_read") /\ UNCHANGED loc
      <3>1. "hdel_read" \in PCs
        BY DEF PCs
      <3>2. ThreadOK(t)'
        BY <2>1, <2>3 DEF Goto, ThreadOK, ThreadsOK, Call, Deleting
      <3> QED BY <2>1, <2>3, <3>1, <3>2, StayOK
    <2> QED BY <1>21, <2>2, <2>3 DEF HdelCheck
  <1>22. CASE HdelRead(t)
    <2>1. pc[t] = "hdel_read" /\ Call(t).op = "hdel"
      BY <1>22 DEF HdelRead, At, ThreadsOK, ThreadOK
    <2>2. CASE Return(t) \/ Fail(t)
      BY <2>1, <2>2, ReturnOK
    <2>3. ASSUME NEW label \in {"hdel_key", "hdel_field"}, Goto(t, label), UNCHANGED loc
          PROVE  ThreadsOK'
      <3>1. label \in PCs /\ label # "idle"
        BY DEF PCs
      <3>2. ThreadOK(t)'
        BY <2>1, <2>3 DEF Goto, ThreadOK, ThreadsOK, Call, Deleting
      <3> QED BY <2>1, <2>3, <3>1, <3>2, StayOK
    <2> QED BY <1>22, <2>2, <2>3 DEF HdelRead
  <1>23. CASE HdelKey(t)
    <2>1. pc[t] # "idle" /\ Goto(t, "hdel_index") /\ "hdel_index" \in PCs /\ UNCHANGED loc
      BY <1>23 DEF HdelKey, At, PCs
    <2>2. ThreadOK(t)'
      BY <1>23, <2>1 DEF HdelKey, At, Goto, ThreadOK, ThreadsOK, Call, Deleting
    <2> QED BY <2>1, <2>2, StayOK
  <1>24. CASE HdelIndex(t)
    BY <1>24, ReturnOK DEF HdelIndex, At
  <1>25. CASE HdelField(t)
    BY <1>25, ReturnOK DEF HdelField, At
  <1>26. CASE ClearBegin(t)
    <2>1. pc[t] = "call" /\ Call(t).op = "clear"
      BY <1>26 DEF ClearBegin, AtCall
    <2>2. [loc[t] EXCEPT !.keys = Keys] \in Locals
          /\ loc' = [loc EXCEPT ![t] = [loc[t] EXCEPT !.keys = Keys]]
      BY <1>26 DEF ClearBegin, ThreadsOK, Locals
    <2>3. Goto(t, "clear_data") /\ "clear_data" \in PCs
      BY <1>26 DEF ClearBegin, PCs
    <2>4. ThreadOK(t)'
      BY <2>1, <2>3 DEF Goto, ThreadOK, ThreadsOK, Call, Deleting
    <2> QED BY <2>1, <2>2, <2>3, <2>4, GotoOK
  <1>27. ASSUME NEW k \in Keys, ClearData(t, k)
         PROVE  ThreadsOK'
    <2> DEFINE left == loc[t].keys \ {k}
               label == IF left = {} THEN "clear_index" ELSE "clear_data"
               l == [loc[t] EXCEPT !.keys = IF left = {} THEN Keys ELSE left]
    <2>1. pc[t] = "clear_data" /\ Call(t).op = "clear"
      BY <1>27 DEF ClearData, At, ThreadsOK, ThreadOK
    <2>2. l \in Locals /\ loc' = [loc EXCEPT ![t] = l]
      BY <1>27 DEF ClearData, ThreadsOK, Locals
    <2>3. Goto(t, label) /\ label \in PCs /\ label # "idle"
      BY <1>27 DEF ClearData, PCs
    <2>4. ThreadOK(t)'
      BY <2>1, <2>3 DEF Goto, ThreadOK, ThreadsOK, Call, Deleting
    <2> HIDE DEF label, l
    <2> QED BY <2>1, <2>2, <2>3, <2>4, GotoOK
  <1>28. ASSUME NEW k \in Keys, ClearIndex(t, k)
         PROVE  ThreadsOK'
    <2> DEFINE l == [loc[t] EXCEPT !.keys = @ \ {k}]
    <2>1. pc[t] = "clear_index" /\ Call(t).op = "clear"
      BY <1>28 DEF ClearIndex, At, ThreadsOK, ThreadOK
    <2>2. CASE Return(t)
      BY <2>1, <2>2, ReturnOK
    <2>3. CASE Goto(t, "clear_index") /\ loc' = [loc EXCEPT ![t].keys = @ \ {k}]
      <3>1. l \in Locals /\ loc' = [loc EXCEPT ![t] = l]
        BY <2>3 DEF ThreadsOK, Locals
      <3>2. "clear_index" \in PCs
        BY DEF PCs
      <3>3. ThreadOK(t)'
        BY <2>1, <2>3 DEF Goto, ThreadOK, ThreadsOK, Call, Deleting
      <3> QED BY <2>1, <2>3, <3>1, <3>2, <3>3, GotoOK
    <2> QED BY <1>28, <2>2, <2>3 DEF ClearIndex
  <1>29. CASE SweepBegin(t)
    <2> DEFINE l == [loc[t] EXCEPT !.deadline = now, !.keys = Keys]
    <2>1. pc[t] = "call" /\ Call(t).op = "cleanup_expired"
      BY <1>29 DEF SweepBegin, AtCall
    <2>5. now \in Times
      BY DEF MapsOK, Times
    <2>2. l \in Locals /\ loc' = [loc EXCEPT ![t] = l]
      BY <1>29, <2>5 DEF SweepBegin, ThreadsOK, Locals
    <2>3. Goto(t, "sweep_scan") /\ "sweep_scan" \in PCs
      BY <1>29 DEF SweepBegin, PCs
    <2>4. ThreadOK(t)'
      BY <2>1, <2>3 DEF Goto, ThreadOK, ThreadsOK, Call, Deleting
    <2> QED BY <2>1, <2>2, <2>3, <2>4, GotoOK
  <1>30. ASSUME NEW k \in Keys, SweepScan(t, k)
         PROVE  ThreadsOK'
    <2> DEFINE left == loc[t].keys \ {k}
               hit == index[k] # None /\ index[k] <= loc[t].deadline
               due == loc[t].due \cup (IF hit THEN {k} ELSE {})
               label == IF left = {} THEN "sweep_index" ELSE "sweep_scan"
               l == [loc[t] EXCEPT !.keys = left, !.due = due]
    <2>1. pc[t] = "sweep_scan" /\ Call(t).op = "cleanup_expired"
      BY <1>30 DEF SweepScan, At, ThreadsOK, ThreadOK
    <2>2. CASE Return(t)
      BY <2>1, <2>2, ReturnOK
    <2>3. CASE Goto(t, label) /\ loc' = [loc EXCEPT ![t].keys = left, ![t].due = due]
      <3>1. l \in Locals /\ loc' = [loc EXCEPT ![t] = l]
        BY <2>3 DEF ThreadsOK, Locals
      <3>2. label \in PCs /\ label # "idle"
        BY DEF PCs
      <3>3. ThreadOK(t)'
        BY <2>1, <2>3 DEF Goto, ThreadOK, ThreadsOK, Call, Deleting
      <3> HIDE DEF label, l
      <3> QED BY <2>1, <2>3, <3>1, <3>2, <3>3, GotoOK
    <2> QED BY <1>30, <2>2, <2>3 DEF SweepScan
  <1>31. ASSUME NEW k \in Keys, SweepIndex(t, k)
         PROVE  ThreadsOK'
    <2> DEFINE l == [loc[t] EXCEPT !.sweep = k]
    <2>1. pc[t] = "sweep_index" /\ Call(t).op = "cleanup_expired"
      BY <1>31 DEF SweepIndex, At, ThreadsOK, ThreadOK
    <2>2. l \in Locals /\ loc' = [loc EXCEPT ![t] = l] /\ l.sweep = k
      BY <1>31 DEF SweepIndex, ThreadsOK, Locals
    <2>3. Goto(t, "sweep_data") /\ "sweep_data" \in PCs
      BY <1>31 DEF SweepIndex, PCs
    <2>4. k # None
      BY StoreAssumption
    <2>5. ThreadOK(t)'
      BY <2>1, <2>2, <2>3, <2>4 DEF Goto, ThreadOK, ThreadsOK, Call, Deleting
    <2> QED BY <2>1, <2>2, <2>3, <2>5, GotoOK
  <1>32. CASE SweepData(t)
    <2> DEFINE k == loc[t].sweep
               l == [loc[t] EXCEPT !.due = @ \ {k}, !.sweep = None]
    <2>1. pc[t] = "sweep_data" /\ Call(t).op = "cleanup_expired"
      BY <1>32 DEF SweepData, At, ThreadsOK, ThreadOK
    <2>2. CASE Return(t)
      BY <2>1, <2>2, ReturnOK
    <2>3. CASE Goto(t, "sweep_index")
               /\ loc' = [loc EXCEPT ![t].due = @ \ {k}, ![t].sweep = None]
      <3>1. l \in Locals /\ loc' = [loc EXCEPT ![t] = l]
        BY <2>3 DEF ThreadsOK, Locals
      <3>2. "sweep_index" \in PCs
        BY DEF PCs
      <3>3. ThreadOK(t)'
        BY <2>1, <2>3 DEF Goto, ThreadOK, ThreadsOK, Call, Deleting
      <3> QED BY <2>1, <2>3, <3>1, <3>2, <3>3, GotoOK
    <2> QED BY <1>32, <2>2, <2>3 DEF SweepData
  <1> QED
    BY <1>1, <1>2, <1>3, <1>4, <1>5, <1>6, <1>7, <1>8, <1>9, <1>10, <1>11, <1>12,
       <1>13, <1>14, <1>15, <1>16, <1>17, <1>18, <1>19, <1>20, <1>21, <1>22, <1>23,
       <1>24, <1>25, <1>26, <1>27, <1>28, <1>29, <1>30, <1>31, <1>32
    DEF Step

-----------------------------------------------------------------------------
(* What a step does to the maps *)

\* One step leaves a key without an entry, keeps its entry (and the deadline,
\* if it has passed), or gives it a new one.
EntryStep(k) ==
  \/ data'[k] = None
  \/ SameEntry(k) /\ (is_expired(data[k]) => data'[k].exp = data[k].exp)
  \/ data'[k] # None /\ data'[k].id = next /\ next' = next + 1

DataStep ==
  /\ data' \in [Keys -> Entry \cup {None}]
  /\ next' \in Nat
  /\ next <= next'
  /\ \A k \in Keys : EntryStep(k)

\* StoredValue::new makes a well-formed value.
LEMMA FreshType ==
  ASSUME MapsOK, NEW type \in Types, NEW n \in IntRange \cup {None},
         NEW fields \in SUBSET Fields, NEW exp \in Times \cup {None}
  PROVE  Fresh(type, n, fields, exp) \in Entry /\ Fresh(type, n, fields, exp).id = next
  BY DEF MapsOK, Fresh, Entry

\* A step that leaves `data` alone changes no entry.
LEMMA NoDataStep ==
  ASSUME MapsOK, UNCHANGED <<data, next>>
  PROVE  DataStep
  BY DEF MapsOK, DataStep, EntryStep, SameEntry

\* An insert of a fresh value, or a remove, is an entry step of one key.
LEMMA PutStep ==
  ASSUME MapsOK, NEW k \in Keys, NEW e \in Entry \cup {None},
         e # None => e.id = next, Put(k, e)
  PROVE  DataStep
  <1>1. data' \in [Keys -> Entry \cup {None}] /\ next' \in Nat /\ next <= next'
    BY DEF MapsOK, Put
  <1>2. ASSUME NEW j \in Keys
        PROVE  EntryStep(j)
    BY <1>2 DEF MapsOK, Put, EntryStep, SameEntry
  <1> QED BY <1>1, <1>2 DEF DataStep

\* An update in place: the entry keeps its id, and its deadline unless live.
LEMMA UpdateStep ==
  ASSUME MapsOK, NEW k \in Keys, NEW e \in Entry, Present(k),
         e.id = data[k].id, e.exp = data[k].exp \/ Live(k),
         data' = [data EXCEPT ![k] = e], UNCHANGED next
  PROVE  DataStep
  <1>1. data' \in [Keys -> Entry \cup {None}] /\ next' \in Nat /\ next <= next'
    BY DEF MapsOK
  <1>2. ASSUME NEW j \in Keys
        PROVE  EntryStep(j)
    BY <1>2, StoreAssumption DEF MapsOK, EntryStep, SameEntry, Present, Live
  <1> QED BY <1>1, <1>2 DEF DataStep

\* Every store step keeps `data` well-formed and changes entries only in the
\* ways EntryStep lists.
LEMMA StepData ==
  ASSUME TypeOK, NEW t \in Threads, Step(t)
  PROVE  DataStep
  <1> DEFINE c == Call(t)
             k == Call(t).key
  <1> USE DEF TypeOK
  <1>0. pc[t] # "idle" => c \in Calls
    BY CurrentCall
  <1>1. CASE UNCHANGED <<data, next>>
    BY <1>1, NoDataStep
  <1>2. CASE SetData(t)
    <2>1. c.op \in {"set"} \cup SetTtlOps /\ pc[t] # "idle"
      BY <1>2 DEF SetData, At, ThreadsOK, ThreadOK
    <2>2. k \in Keys /\ c.n \in IntRange \cup {None}
      BY <2>1, <1>0, CallFields DEF SetTtlOps
    <2>3. loc[t].deadline \in Times \cup {None}
      BY DEF ThreadsOK, Locals
    <2>4. Fresh("string", c.n, {}, loc[t].deadline) \in Entry
          /\ Fresh("string", c.n, {}, loc[t].deadline).id = next
      BY <2>2, <2>3, FreshType DEF Types
    <2> QED BY <1>2, <2>2, <2>4, PutStep DEF SetData
  <1>3. CASE SetEntry(t)
    <2>1. c.op = "set_with_options" /\ pc[t] # "idle"
      BY <1>3 DEF SetEntry, At, ThreadsOK, ThreadOK
    <2>2. k \in Keys /\ c.n \in IntRange \cup {None}
      BY <2>1, <1>0, CallFields
    <2>3. loc[t].deadline \in Times \cup {None}
      BY DEF ThreadsOK, Locals
    <2>4. Fresh("string", c.n, {}, loc[t].deadline) \in Entry
          /\ Fresh("string", c.n, {}, loc[t].deadline).id = next
      BY <2>2, <2>3, FreshType DEF Types
    <2> QED BY <1>1, <1>3, <2>2, <2>4, PutStep DEF SetEntry
  <1>4. CASE DeleteData(t)
    <2>1. c.op \in LazyOps \cup {"delete"} /\ pc[t] # "idle"
      BY <1>4 DEF DeleteData, At, ThreadsOK, ThreadOK, Deleting
    <2>2. k \in Keys
      BY <2>1, <1>0, CallFields DEF LazyOps, ReadOps, HashReadOps, ExpireOps
    <2> QED BY <1>4, <2>2, PutStep DEF DeleteData
  <1>5. CASE ExpireEntry(t)
    <2> DEFINE e == [data[k] EXCEPT !.exp = loc[t].deadline]
    <2>1. c.op \in ExpireOps /\ pc[t] # "idle"
      BY <1>5 DEF ExpireEntry, At, ThreadsOK, ThreadOK
    <2>2. k \in Keys
      BY <2>1, <1>0, CallFields DEF ExpireOps
    <2>3. CASE Live(k) /\ data' = [data EXCEPT ![k].exp = loc[t].deadline] /\ UNCHANGED next
      <3>1. loc[t].deadline \in Times \cup {None}
        BY DEF ThreadsOK, Locals
      <3>2. Present(k) /\ data[k] \in Entry
        BY <2>2, <2>3 DEF MapsOK, Live, Present
      <3>3. e \in Entry /\ e.id = data[k].id
        BY <3>1, <3>2 DEF Entry
      <3>4. data' = [data EXCEPT ![k] = e]
        BY <2>2, <2>3, <3>2 DEF MapsOK
      <3> QED BY <2>2, <2>3, <3>2, <3>3, <3>4, UpdateStep
    <2> QED BY <1>1, <1>5, <2>3 DEF ExpireEntry, FoundExpired
  <1>6. CASE Persist(t)
    <2> DEFINE e == [data[k] EXCEPT !.exp = None]
    <2>1. k \in Keys
      BY <1>6, <1>0, CallFields DEF Persist, AtCall
    <2>2. CASE Live(k) /\ data' = [data EXCEPT ![k].exp = None] /\ UNCHANGED next
      <3>1. Present(k) /\ data[k] \in Entry
        BY <2>1, <2>2 DEF MapsOK, Live, Present
      <3>2. e \in Entry /\ e.id = data[k].id
        BY <3>1 DEF Entry
      <3>3. data' = [data EXCEPT ![k] = e]
        BY <2>1, <2>2, <3>1 DEF MapsOK
      <3> QED BY <2>1, <2>2, <3>1, <3>2, <3>3, UpdateStep
    <2> QED BY <1>1, <1>6, <2>2 DEF Persist, FoundExpired
  <1>7. CASE IncrEntry(t)
    <2> DEFINE e == [data[k] EXCEPT !.type = "integer", !.n = @ + c.by]
    <2>1. c.op = "incr_by" /\ k \in Keys /\ c.by \in {-1, 1}
      BY <1>7, <1>0, CallFields DEF IncrEntry, AtCall
    <2>2. c.by \in IntRange
      BY <2>1, StoreAssumption DEF IntRange
    <2>3. CASE Put(k, None)
      BY <2>1, <2>3, PutStep
    <2>4. CASE Put(k, Fresh("integer", c.by, {}, None))
      <3>1. Fresh("integer", c.by, {}, None) \in Entry
            /\ Fresh("integer", c.by, {}, None).id = next
        BY <2>2, FreshType DEF Types
      <3> QED BY <2>1, <2>4, <3>1, PutStep
    <2>5. CASE /\ Live(k) /\ CanAdd(data[k], c.by) /\ UNCHANGED next
               /\ data' = [data EXCEPT ![k].type = "integer", ![k].n = @ + c.by]
      <3>1. Present(k) /\ data[k] \in Entry
        BY <2>1, <2>5 DEF MapsOK, Live, Present
      <3>2. data[k].n + c.by \in IntRange
        BY <2>5 DEF CanAdd
      <3>3. e \in Entry /\ e.id = data[k].id
        BY <3>1, <3>2 DEF Entry, Types
      <3>4. data' = [data EXCEPT ![k] = e]
        BY <2>1, <2>5, <3>1 DEF MapsOK, Entry
      <3> QED BY <2>1, <2>5, <3>1, <3>3, <3>4, UpdateStep
    <2> QED BY <1>1, <1>7, <2>3, <2>4, <2>5 DEF IncrEntry
  <1>8. CASE IncrData(t)
    <2>1. c.op = "incr_by" /\ pc[t] # "idle"
      BY <1>8 DEF IncrData, At, ThreadsOK, ThreadOK
    <2>2. k \in Keys /\ c.by \in IntRange
      BY <2>1, <1>0, CallFields, StoreAssumption DEF IntRange
    <2>3. Fresh("integer", c.by, {}, None) \in Entry
          /\ Fresh("integer", c.by, {}, None).id = next
      BY <2>2, FreshType DEF Types
    <2> QED BY <1>8, <2>2, <2>3, PutStep DEF IncrData
  <1>9. CASE HsetEntry(t)
    <2> DEFINE e == [data[k] EXCEPT !.fields = @ \cup {c.f}]
    <2>1. c.op = "hset" /\ pc[t] # "idle"
      BY <1>9 DEF HsetEntry, At, ThreadsOK, ThreadOK
    <2>2. k \in Keys /\ c.f \in Fields
      BY <2>1, <1>0, CallFields
    <2>3. CASE Present(k) /\ data' = [data EXCEPT ![k].fields = @ \cup {c.f}] /\ UNCHANGED next
      <3>1. data[k] \in Entry
        BY <2>2, <2>3 DEF MapsOK, Present
      <3>2. e \in Entry /\ e.id = data[k].id /\ e.exp = data[k].exp
        BY <2>2, <3>1 DEF Entry
      <3>3. data' = [data EXCEPT ![k] = e]
        BY <2>2, <2>3, <3>1 DEF MapsOK
      <3> QED BY <2>2, <2>3, <3>1, <3>2, <3>3, UpdateStep
    <2>4. CASE Put(k, Fresh("hash", None, {c.f}, None))
      <3>1. Fresh("hash", None, {c.f}, None) \in Entry
            /\ Fresh("hash", None, {c.f}, None).id = next
        BY <2>2, FreshType DEF Types
      <3> QED BY <2>2, <2>4, <3>1, PutStep
    <2> QED BY <1>1, <1>9, <2>3, <2>4 DEF HsetEntry
  <1>10. CASE HdelKey(t)
    <2>1. c.op = "hdel" /\ pc[t] # "idle"
      BY <1>10 DEF HdelKey, At, ThreadsOK, ThreadOK
    <2>2. k \in Keys
      BY <2>1, <1>0, CallFields
    <2> QED BY <1>10, <2>2, PutStep DEF HdelKey
  <1>11. CASE HdelField(t)
    <2> DEFINE e == [data[k] EXCEPT !.fields = @ \ {c.f}]
    <2>1. c.op = "hdel" /\ pc[t] # "idle"
      BY <1>11 DEF HdelField, At, ThreadsOK, ThreadOK
    <2>2. k \in Keys
      BY <2>1, <1>0, CallFields
    <2>3. CASE Present(k) /\ data' = [data EXCEPT ![k].fields = @ \ {c.f}] /\ UNCHANGED next
      <3>1. data[k] \in Entry
        BY <2>2, <2>3 DEF MapsOK, Present
      <3>2. e \in Entry /\ e.id = data[k].id /\ e.exp = data[k].exp
        BY <2>2, <3>1 DEF Entry
      <3>3. data' = [data EXCEPT ![k] = e]
        BY <2>2, <2>3, <3>1 DEF MapsOK
      <3> QED BY <2>2, <2>3, <3>1, <3>2, <3>3, UpdateStep
    <2> QED BY <1>1, <1>11, <2>3 DEF HdelField
  <1>12. ASSUME NEW j \in Keys, ClearData(t, j)
         PROVE  DataStep
    BY <1>12, PutStep DEF ClearData
  <1>13. CASE SweepData(t)
    <2>1. loc[t].sweep \in Keys
      BY <1>13 DEF SweepData, At, ThreadsOK, ThreadOK, Locals
    <2> QED BY <1>13, <2>1, PutStep DEF SweepData
  <1>14. CASE \/ BadArg(t) \/ SetIndex(t) \/ SetTtlIndex(t) \/ SetResolve(t)
              \/ Delete(t) \/ DeleteSync(t) \/ DeleteIndex(t)
              \/ ExpireResolve(t) \/ IncrIndex(t) \/ HdelRead(t) \/ HdelIndex(t)
              \/ ClearBegin(t) \/ SweepBegin(t)
    BY <1>1, <1>14
       DEF BadArg, SetIndex, SetTtlIndex, SetResolve, Delete, DeleteSync, DeleteIndex,
           ExpireResolve, IncrIndex, HdelRead, HdelIndex, ClearBegin, SweepBegin
  <1>15. CASE \/ Get(t) \/ Exists(t) \/ Ttl(t) \/ Pttl(t)
              \/ Hget(t) \/ Hgetall(t) \/ Hexists(t)
              \/ HsetCheck(t) \/ HdelCheck(t)
    BY <1>1, <1>15
       DEF Get, Exists, Ttl, Pttl, Hget, Hgetall, Hexists, HsetCheck, HdelCheck,
           Lookup, FoundExpired
  <1>16. ASSUME NEW j \in Keys, ClearIndex(t, j) \/ SweepScan(t, j) \/ SweepIndex(t, j)
         PROVE  DataStep
    BY <1>1, <1>16 DEF ClearIndex, SweepScan, SweepIndex
  <1> QED
    BY <1>2, <1>3, <1>4, <1>5, <1>6, <1>7, <1>8, <1>9, <1>10, <1>11, <1>12, <1>13,
       <1>14, <1>15, <1>16
    DEF Step

\* A key a call names, for every call that names one.
LEMMA CallKey ==
  ASSUME ThreadsOK, NEW t \in Threads, pc[t] # "idle",
         Call(t).op \notin {"clear", "cleanup_expired", "badarg"}
  PROVE  Call(t).key \in Keys
  BY CurrentCall, CallFields

\* Every store step keeps expiration_index well-formed.
LEMMA StepIndex ==
  ASSUME TypeOK, NEW t \in Threads, Step(t)
  PROVE  index' \in [Keys -> Times \cup {None}] /\ UNCHANGED <<now, started>>
  <1> DEFINE k == Call(t).key
             Goal == index' \in [Keys -> Times \cup {None}] /\ UNCHANGED <<now, started>>
  <1> USE DEF TypeOK
  <1>1. ASSUME NEW j \in Keys, NEW at \in Times \cup {None},
               index' = [index EXCEPT ![j] = at] \/ UNCHANGED index,
               UNCHANGED <<now, started>>
        PROVE  Goal
    BY <1>1 DEF MapsOK
  <1>2. CASE UNCHANGED <<index, now, started>>
    BY <1>2 DEF MapsOK
  <1>3. loc[t].deadline \in Times \cup {None}
    BY DEF ThreadsOK, Locals
  <1>4. CASE SetIndex(t)
    BY <1>1, <1>4, CallKey DEF SetIndex, AtCall
  <1>5. CASE SetTtlIndex(t)
    <2>1. k \in Keys /\ now + Call(t).d \in Times
      BY <1>5, CurrentCall, CallFields, StoreAssumption
         DEF SetTtlIndex, AtCall, MapsOK, Times, SetTtlOps
    <2> QED BY <1>1, <1>5, <2>1 DEF SetTtlIndex
  <1>6. CASE SetEntry(t)
    <2>1. k \in Keys
      BY <1>6, CallKey DEF SetEntry, At, ThreadsOK, ThreadOK
    <2> QED BY <1>1, <1>3, <1>6, <2>1 DEF SetEntry
  <1>7. CASE DeleteIndex(t)
    <2>1. k \in Keys
      BY <1>7, CallKey
         DEF DeleteIndex, At, ThreadsOK, ThreadOK, Deleting, LazyOps, ReadOps, HashReadOps, ExpireOps
    <2> QED BY <1>1, <1>7, <2>1 DEF DeleteIndex
  <1>8. CASE ExpireEntry(t)
    <2>1. k \in Keys
      BY <1>8, CallKey DEF ExpireEntry, At, ThreadsOK, ThreadOK, ExpireOps
    <2> QED BY <1>1, <1>3, <1>8, <2>1 DEF ExpireEntry, FoundExpired
  <1>9. CASE Persist(t)
    <2>1. k \in Keys
      BY <1>9, CallKey DEF Persist, AtCall
    <2> QED BY <1>1, <1>9, <2>1 DEF Persist, FoundExpired
  <1>10. CASE IncrIndex(t)
    <2>1. k \in Keys
      BY <1>10, CallKey DEF IncrIndex, At, ThreadsOK, ThreadOK
    <2> QED BY <1>1, <1>10, <2>1 DEF IncrIndex
  <1>11. CASE HdelIndex(t)
    <2>1. k \in Keys
      BY <1>11, CallKey DEF HdelIndex, At, ThreadsOK, ThreadOK
    <2> QED BY <1>1, <1>11, <2>1 DEF HdelIndex
  <1>12. ASSUME NEW j \in Keys, ClearIndex(t, j) \/ SweepIndex(t, j)
         PROVE  Goal
    BY <1>1, <1>12 DEF ClearIndex, SweepIndex
  <1>13. CASE \/ BadArg(t) \/ SetData(t) \/ SetResolve(t)
              \/ Delete(t) \/ DeleteSync(t) \/ DeleteData(t)
              \/ ExpireResolve(t) \/ IncrEntry(t) \/ IncrData(t)
              \/ HdelRead(t) \/ HdelKey(t) \/ HdelField(t) \/ HsetEntry(t)
              \/ ClearBegin(t) \/ SweepBegin(t) \/ SweepData(t)
    BY <1>2, <1>13
       DEF BadArg, SetData, SetResolve, Delete, DeleteSync, DeleteData, ExpireResolve,
           IncrEntry, IncrData, HdelRead, HdelKey, HdelField, HsetEntry, ClearBegin,
           SweepBegin, SweepData
  <1>14. CASE \/ Get(t) \/ Exists(t) \/ Ttl(t) \/ Pttl(t)
              \/ Hget(t) \/ Hgetall(t) \/ Hexists(t)
              \/ HsetCheck(t) \/ HdelCheck(t)
    BY <1>2, <1>14
       DEF Get, Exists, Ttl, Pttl, Hget, Hgetall, Hexists, HsetCheck, HdelCheck,
           Lookup, FoundExpired
  <1>15. ASSUME NEW j \in Keys, ClearData(t, j) \/ SweepScan(t, j)
         PROVE  Goal
    BY <1>2, <1>15 DEF ClearData, SweepScan
  <1> QED
    BY <1>4, <1>5, <1>6, <1>7, <1>8, <1>9, <1>10, <1>11, <1>12, <1>13, <1>14, <1>15
    DEF Step

\* Dispatching a command to an idle connection task keeps the control state
\* well-formed.
LEMMA BeginThreads ==
  ASSUME TypeOK, NEW t \in Threads, NEW cmd \in Commands, Begin(t, cmd)
  PROVE  ThreadsOK'
  <1>1. cmd \in Seq(Calls) /\ cmd # <<>>
    BY StoreAssumption
  <1>2. pc' = [pc EXCEPT ![t] = "call"] /\ todo' = [todo EXCEPT ![t] = cmd] /\ loc' = loc
        /\ pc[t] = "idle"
    BY DEF Begin, At
  <1>3. pc' \in [Threads -> PCs] /\ todo' \in [Threads -> Seq(Calls)]
    BY <1>1, <1>2 DEF TypeOK, ThreadsOK, PCs
  <1>4. ThreadOK(t)'
    BY <1>1, <1>2 DEF TypeOK, ThreadsOK, ThreadOK, Deleting
  <1>5. pc' = [pc EXCEPT ![t] = pc'[t]] /\ todo' = [todo EXCEPT ![t] = todo'[t]]
        /\ loc' = [loc EXCEPT ![t] = loc'[t]]
    BY <1>2 DEF TypeOK, ThreadsOK
  <1>6. \A u \in Threads : ThreadOK(u)'
    BY <1>4, <1>5, OthersOK DEF TypeOK
  <1> QED
    BY <1>2, <1>3, <1>6 DEF TypeOK, ThreadsOK

\* Time passing (Instant::now) leaves the control state well-formed.
LEMMA StutterThreads ==
  ASSUME ThreadsOK, UNCHANGED <<pc, todo, loc>>
  PROVE  ThreadsOK'
  BY DEF ThreadsOK, ThreadOK, Call

\* MemoryStore::new gives a well-formed store with no command under way.
LEMMA InitType == Init => TypeOK
  <1> SUFFICES ASSUME Init PROVE TypeOK
    OBVIOUS
  <1>1. MapsOK
    BY StoreAssumption DEF Init, MapsOK, Times
  <1>2. ThreadsOK
    BY NoLocalsType DEF Init, ThreadsOK, ThreadOK, PCs, Deleting
  <1> QED BY <1>1, <1>2 DEF TypeOK

\* The next-state relation and stuttering, for the lemmas below.
LEMMA NextType == TypeOK /\ [Next]_vars => TypeOK' /\ DataStep
  <1> SUFFICES ASSUME TypeOK, [Next]_vars PROVE TypeOK' /\ DataStep
    OBVIOUS
  <1> USE DEF TypeOK
  <1>1. ASSUME NEW t \in Threads, Step(t)
        PROVE  TypeOK' /\ DataStep
    <2>1. ThreadsOK' /\ DataStep /\ index' \in [Keys -> Times \cup {None}]
          /\ UNCHANGED <<now, started>>
      BY <1>1, StepThreads, StepData, StepIndex
    <2> QED BY <2>1 DEF MapsOK, DataStep
  <1>2. ASSUME NEW t \in Threads, NEW cmd \in Commands, Begin(t, cmd)
        PROVE  TypeOK' /\ DataStep
    <2>1. MapsOK'
      BY <1>2, StoreAssumption DEF Begin, MapsOK
    <2>2. DataStep
      BY <1>2, NoDataStep DEF Begin
    <2> QED BY <1>2, <2>1, <2>2, BeginThreads
  <1>3. CASE Tick
    <2>1. MapsOK'
      BY <1>3, StoreAssumption DEF Tick, MapsOK
    <2>2. ThreadsOK' /\ DataStep
      BY <1>3, NoDataStep, StutterThreads DEF Tick
    <2> QED BY <2>1, <2>2
  <1>4. CASE UNCHANGED vars
    <2>1. MapsOK'
      BY <1>4 DEF vars, MapsOK
    <2>2. ThreadsOK' /\ DataStep
      BY <1>4, NoDataStep, StutterThreads DEF vars
    <2> QED BY <2>1, <2>2
  <1> QED BY <1>1, <1>2, <1>3, <1>4 DEF Next

\* The two maps, the counters they hold and every thread's control state stay
\* well-formed: in particular no counter leaves the i64 range (incr_by).
THEOREM TypeCorrect == Spec => []TypeOK
  <1> QED BY InitType, NextType, PTL DEF Spec

-----------------------------------------------------------------------------
(* Lazy expiry *)

\* A step of t touches the control state of t only.
LEMMA StepFrame ==
  ASSUME TypeOK, NEW t \in Threads, Step(t)
  PROVE  /\ pc[t] # "idle"
         /\ pc' = [pc EXCEPT ![t] = pc'[t]]
         /\ todo' = [todo EXCEPT ![t] = todo'[t]]
         /\ loc' = [loc EXCEPT ![t] = loc'[t]]
  <1> DEFINE Frame == /\ pc' = [pc EXCEPT ![t] = pc'[t]]
                      /\ todo' = [todo EXCEPT ![t] = todo'[t]]
                      /\ loc' = [loc EXCEPT ![t] = loc'[t]]
  <1> USE DEF TypeOK, ThreadsOK
  <1>1. ASSUME Return(t) \/ Fail(t)
        PROVE  Frame
    BY <1>1 DEF Return, Fail
  <1>2. ASSUME NEW label, Goto(t, label), NEW l, loc' = [loc EXCEPT ![t] = l] \/ UNCHANGED loc
        PROVE  Frame
    BY <1>2 DEF Goto
  <1>3. ASSUME NEW k, FoundExpired(t, k)
        PROVE  Frame
    BY <1>3 DEF FoundExpired, Goto
  <1>4. CASE \/ BadArg(t) \/ SetData(t) \/ SetEntry(t) \/ IncrData(t)
             \/ HdelIndex(t) \/ HdelField(t)
    BY <1>1, <1>4 DEF BadArg, SetData, SetEntry, IncrData, HdelIndex, HdelField, At, AtCall
  <1>5. CASE \/ SetIndex(t) \/ Delete(t) \/ DeleteSync(t) \/ DeleteIndex(t)
             \/ IncrIndex(t) \/ HdelKey(t)
    BY <1>2, <1>5 DEF SetIndex, Delete, DeleteSync, DeleteIndex, IncrIndex, HdelKey, At, AtCall
  <1>6. CASE \/ SetTtlIndex(t) \/ SetResolve(t) \/ ExpireResolve(t)
             \/ ClearBegin(t) \/ SweepBegin(t)
    BY <1>6 DEF SetTtlIndex, SetResolve, ExpireResolve, ClearBegin, SweepBegin, Goto, AtCall
  <1>7. CASE DeleteData(t)
    BY <1>1, <1>2, <1>7 DEF DeleteData, At
  <1>8. CASE \/ Get(t) \/ Exists(t) \/ Ttl(t) \/ Pttl(t)
             \/ Hget(t) \/ Hgetall(t) \/ Hexists(t)
    BY <1>1, <1>3, <1>8
       DEF Get, Exists, Ttl, Pttl, Hget, Hgetall, Hexists, Lookup, AtCall
  <1>9. CASE ExpireEntry(t) \/ Persist(t)
    BY <1>1, <1>3, <1>9 DEF ExpireEntry, Persist, At, AtCall
  <1>10. CASE IncrEntry(t) \/ HsetEntry(t) \/ HdelRead(t)
    BY <1>1, <1>2, <1>10 DEF IncrEntry, HsetEntry, HdelRead, At, AtCall
  <1>11. CASE HsetCheck(t) \/ HdelCheck(t)
    BY <1>2, <1>3, <1>11 DEF HsetCheck, HdelCheck, AtCall
  <1>12. ASSUME NEW k \in Keys,
                ClearData(t, k) \/ ClearIndex(t, k) \/ SweepScan(t, k) \/ SweepIndex(t, k)
         PROVE  Frame /\ pc[t] # "idle"
    BY <1>1, <1>12 DEF ClearData, ClearIndex, SweepScan, SweepIndex, Goto, At
  <1>13. CASE SweepData(t)
    BY <1>1, <1>13 DEF SweepData, Goto, At
  <1> QED
    BY <1>4, <1>5, <1>6, <1>7, <1>8, <1>9, <1>10, <1>11, <1>12, <1>13 DEF Step

\* How a thread comes to be, or stays, in the middle of a lazy delete.
LazyStep(u) ==
  pc'[u] \in Deleting /\ Head(todo'[u]).op # "delete" =>
    /\ todo'[u] = todo[u]
    /\ \/ pc[u] \in Deleting /\ loc'[u].since = loc[u].since
       \/ /\ loc'[u].since = next
          /\ Present(Call(u).key)
          /\ is_expired(data[Call(u).key])
          /\ UNCHANGED <<data, next>>

\* What one step does to the thread that takes it, as the lazy-expiry argument
\* needs it.
LEMMA StepLazy ==
  ASSUME TypeOK, NEW t \in Threads, Step(t), NEW u \in Threads
  PROVE  LazyStep(u)
  <1> USE DEF TypeOK, ThreadsOK
  <1>1. CASE u # t
    <2>1. pc'[u] = pc[u] /\ todo'[u] = todo[u] /\ loc'[u] = loc[u]
      BY <1>1, StepFrame
    <2> QED BY <2>1 DEF LazyStep
  <1>2. ASSUME Return(t) \/ Fail(t)
        PROVE  LazyStep(t)
    BY <1>2 DEF Return, Fail, LazyStep, Deleting
  <1>3. ASSUME NEW label, Goto(t, label), label \notin Deleting
        PROVE  LazyStep(t)
    BY <1>3 DEF Goto, LazyStep
  <1>4. ASSUME FoundExpired(t, Call(t).key)
        PROVE  LazyStep(t)
    <2>1. loc'[t].since = next
      BY <1>4 DEF FoundExpired, Locals
    <2> QED BY <1>4, <2>1 DEF FoundExpired, Goto, LazyStep
  <1>5. CASE \/ BadArg(t) \/ SetData(t) \/ SetEntry(t) \/ IncrData(t)
             \/ HdelIndex(t) \/ HdelField(t)
    BY <1>1, <1>2, <1>5 DEF BadArg, SetData, SetEntry, IncrData, HdelIndex, HdelField
  <1>6. CASE \/ SetIndex(t) \/ SetTtlIndex(t) \/ SetResolve(t) \/ ExpireResolve(t)
             \/ IncrIndex(t) \/ HdelKey(t) \/ ClearBegin(t) \/ SweepBegin(t)
    BY <1>1, <1>3, <1>6
       DEF SetIndex, SetTtlIndex, SetResolve, ExpireResolve, IncrIndex, HdelKey,
           ClearBegin, SweepBegin, Deleting
  <1>7. CASE Delete(t)
    BY <1>1, <1>7 DEF Delete, AtCall, Goto, LazyStep, Call
  <1>8. CASE DeleteSync(t) \/ DeleteIndex(t)
    BY <1>1, <1>8 DEF DeleteSync, DeleteIndex, At, Goto, LazyStep, Deleting
  <1>9. CASE DeleteData(t)
    BY <1>1, <1>2, <1>3, <1>9 DEF DeleteData, Deleting
  <1>10. CASE \/ Get(t) \/ Exists(t) \/ Ttl(t) \/ Pttl(t)
              \/ Hget(t) \/ Hgetall(t) \/ Hexists(t)
    BY <1>1, <1>2, <1>4, <1>10
       DEF Get, Exists, Ttl, Pttl, Hget, Hgetall, Hexists, Lookup
  <1>11. CASE ExpireEntry(t) \/ Persist(t)
    BY <1>1, <1>2, <1>4, <1>11 DEF ExpireEntry, Persist
  <1>12. CASE IncrEntry(t) \/ HsetEntry(t)
    BY <1>1, <1>2, <1>3, <1>12 DEF IncrEntry, HsetEntry, Deleting
  <1>13. CASE HdelRead(t)
    <2>1. "hdel_key" \notin Deleting /\ "hdel_field" \notin Deleting
      BY DEF Deleting
    <2> QED BY <1>1, <1>2, <1>3, <1>13, <2>1 DEF HdelRead
  <1>14. CASE HsetCheck(t) \/ HdelCheck(t)
    BY <1>1, <1>3, <1>4, <1>14 DEF HsetCheck, HdelCheck, Deleting
  <1>15. ASSUME NEW k \in Keys,
                ClearData(t, k) \/ ClearIndex(t, k) \/ SweepScan(t, k) \/ SweepIndex(t, k)
         PROVE  LazyStep(u)
    <2>1. \A label \in {"clear_data", "clear_index", "sweep_scan", "sweep_index", "sweep_data"} :
            label \notin Deleting
      BY DEF Deleting
    <2> QED BY <1>1, <1>2, <1>3, <1>15, <2>1 DEF ClearData, ClearIndex, SweepScan, SweepIndex
  <1>16. CASE SweepData(t)
    BY <1>1, <1>2, <1>3, <1>16 DEF SweepData, Deleting
  <1> QED
    BY <1>5, <1>6, <1>7, <1>8, <1>9, <1>10, <1>11, <1>12, <1>13, <1>14, <1>15, <1>16
    DEF Step

(***************************************************************************)
(* The inductive invariant.  What the check found was expired, so an entry *)
(* that is older than the check and still there is expired as well: it is  *)
(* the entry the check found, whose deadline can no longer move, or was    *)
(* there before it.                                                        *)
(***************************************************************************)
LazyInv ==
  /\ \A k \in Keys : data[k] # None => data[k].id < next
  /\ \A t \in Threads :
       pc[t] \in Deleting /\ Call(t).op # "delete" =>
         /\ loc[t].since <= next
         /\ LET e == data[Call(t).key]
            IN e # None /\ e.id < loc[t].since => is_expired(e)

\* A thread in a lazy delete: its call names a key and it remembers an id.
LEMMA DeletingType ==
  ASSUME ThreadsOK, NEW t \in Threads, pc[t] \in Deleting, Call(t).op # "delete"
  PROVE  Call(t).key \in Keys /\ loc[t].since \in Nat
  <1>1. Call(t).op \in LazyOps /\ loc[t].since # None /\ pc[t] # "idle"
    BY DEF ThreadsOK, ThreadOK, Deleting
  <1>2. loc[t].since \in Nat
    BY <1>1 DEF ThreadsOK, Locals
  <1> QED
    BY <1>1, <1>2, CallKey DEF LazyOps, ReadOps, HashReadOps, ExpireOps

\* The lazy-expiry invariant is preserved by every step.
LEMMA NextLazy == TypeOK /\ LazyInv /\ [Next]_vars => LazyInv'
  <1> SUFFICES ASSUME TypeOK, LazyInv, [Next]_vars PROVE LazyInv'
    OBVIOUS
  <1>1. TypeOK' /\ DataStep
    BY NextType
  <1>2. ASSUME NEW k \in Keys, data'[k] # None
        PROVE  data'[k].id < next'
    <2>1. EntryStep(k) /\ next \in Nat /\ next' \in Nat /\ next' >= next
      BY <1>1, <1>2 DEF DataStep, TypeOK, MapsOK
    <2>2. CASE SameEntry(k)
      <3>1. data'[k].id = data[k].id /\ data[k].id < next
        BY <2>2 DEF SameEntry, LazyInv
      <3>2. data[k].id \in Nat
        BY <2>2 DEF SameEntry, TypeOK, MapsOK, Entry
      <3> QED BY <2>1, <3>1, <3>2
    <2>3. CASE data'[k].id = next /\ next' = next + 1
      BY <2>1, <2>3
    <2> QED BY <1>2, <2>1, <2>2, <2>3 DEF EntryStep
  <1>3. now' >= now
    <2>1. ASSUME NEW t \in Threads, Step(t) PROVE now' = now
      BY <2>1, StepIndex
    <2>2. now \in Int
      BY DEF TypeOK, MapsOK
    <2> QED BY <2>1, <2>2 DEF Next, Begin, Tick, vars
  <1>4. ASSUME NEW u \in Threads
        PROVE  LazyStep(u)
    <2>1. ASSUME NEW t \in Threads, Step(t) PROVE LazyStep(u)
      BY <2>1, StepLazy
    <2>2. ASSUME NEW t \in Threads, NEW cmd \in Commands, Begin(t, cmd) PROVE LazyStep(u)
      BY <2>2 DEF Begin, LazyStep, Deleting, TypeOK, ThreadsOK
    <2>3. CASE UNCHANGED <<pc, todo, loc>>
      BY <2>3 DEF LazyStep
    <2> QED BY <2>1, <2>2, <2>3 DEF Next, Tick, vars
  <1>5. ASSUME NEW u \in Threads, pc'[u] \in Deleting, Head(todo'[u]).op # "delete"
        PROVE  /\ loc'[u].since <= next'
               /\ LET e == data'[Head(todo'[u]).key]
                  IN e # None /\ e.id < loc'[u].since => e.exp # None /\ now' > e.exp
    <2> DEFINE k == Call(u).key
    <2>1. todo'[u] = todo[u] /\ Head(todo'[u]) = Call(u) /\ Head(todo'[u]).key = k
      BY <1>4, <1>5 DEF LazyStep, Call
    <2>2. k \in Keys /\ loc'[u].since \in Nat
      <3>1. ThreadOK(u)' /\ loc'[u] \in Locals /\ todo'[u] \in Seq(Calls)
        BY <1>1 DEF TypeOK, ThreadsOK
      <3>2. /\ Call(u).op \in LazyOps /\ loc'[u].since # None
            /\ pc'[u] # "idle" /\ todo[u] # <<>>
        BY <1>5, <2>1, <3>1 DEF ThreadOK, Call, Deleting
      <3>3. Call(u) \in Calls
        BY <2>1, <3>1, <3>2 DEF Call
      <3>4. loc'[u].since \in Nat
        BY <3>1, <3>2 DEF Locals
      <3> QED
        BY <3>2, <3>3, <3>4, CallFields DEF LazyOps, ReadOps, HashReadOps, ExpireOps
    <2>3. CASE pc[u] \in Deleting /\ loc'[u].since = loc[u].since
      <3>1. /\ loc[u].since <= next
            /\ data[k] # None /\ data[k].id < loc[u].since => is_expired(data[k])
        <4>1. Call(u).op # "delete"
          BY <1>5, <2>1
        <4> QED BY <2>3, <4>1 DEF LazyInv
      <3>2. loc'[u].since <= next'
        BY <1>1, <2>2, <2>3, <3>1 DEF DataStep, TypeOK, MapsOK
      <3>3. ASSUME data'[k] # None, data'[k].id < loc'[u].since
            PROVE  data'[k].exp # None /\ now' > data'[k].exp
        <4>1. EntryStep(k) /\ data'[k] \in Entry
          BY <1>1, <2>2, <3>3 DEF DataStep
        <4>2. next \in Nat /\ data'[k].id \in Nat
          BY <4>1 DEF TypeOK, MapsOK, Entry
        <4>3. data'[k].id # next
          BY <2>2, <2>3, <3>1, <3>3, <4>2
        <4>4. SameEntry(k) /\ (is_expired(data[k]) => data'[k].exp = data[k].exp)
          BY <3>3, <4>1, <4>3, Zenon DEF EntryStep
        <4>5. is_expired(data[k]) /\ data'[k].exp = data[k].exp
          BY <2>3, <3>1, <3>3, <4>4 DEF SameEntry
        <4>6. data[k].exp \in Int
          BY <2>2, <4>4, <4>5 DEF SameEntry, is_expired, TypeOK, MapsOK, Entry, Times
        <4> QED BY <1>1, <1>3, <4>5, <4>6 DEF is_expired, TypeOK, MapsOK
      <3> QED BY <2>1, <3>2, <3>3
    <2>4. CASE /\ loc'[u].since = next
               /\ Present(k) /\ is_expired(data[k]) /\ UNCHANGED <<data, next>>
      <3>1. data[k].exp \in Int
        BY <2>2, <2>4 DEF Present, is_expired, TypeOK, MapsOK, Entry, Times
      <3>2. now \in Int /\ now' \in Int /\ next \in Nat
        BY <1>1 DEF TypeOK, MapsOK
      <3>3. loc'[u].since <= next'
        BY <2>4, <3>2
      <3>4. data'[k].exp # None /\ now' > data'[k].exp
        BY <1>3, <2>4, <3>1, <3>2 DEF is_expired
      <3> QED BY <2>1, <3>3, <3>4
    <2> QED BY <1>4, <1>5, <2>3, <2>4 DEF LazyStep
  <1> QED BY <1>2, <1>5 DEF LazyInv, Call, is_expired

\* The empty store of MemoryStore::new satisfies the lazy-expiry invariant.
LEMMA InitLazy == Init => LazyInv
  BY DEF Init, LazyInv, Deleting

\* While an access that found its key expired is on its way through
\* delete_sync, an entry at that key that is older than the access is still the
\* expired one: the inductive invariant behind the two theorems that follow.
THEOREM LazyInvariant == Spec => [](TypeOK /\ LazyInv)
  <1> QED BY InitType, InitLazy, NextType, NextLazy, PTL DEF Spec

\* A lazy delete (delete_sync after get, exists, ttl, hget, expire, hset ...
\* found the key expired) destroys no live value that is older than the check.
THEOREM LazyDeleteSafe == Spec => []LazyDeleteSparesOlderValues
  <1>1. TypeOK /\ LazyInv => LazyDeleteSparesOlderValues
    <2> SUFFICES ASSUME TypeOK, LazyInv, NEW t \in Threads,
                        LazyDeleting(t), Live(Call(t).key)
                 PROVE  data[Call(t).key].id >= loc[t].since
      BY DEF LazyDeleteSparesOlderValues
    <2>1. pc[t] \in Deleting /\ Call(t).op # "delete"
      BY DEF LazyDeleting, Deleting
    <2>2. Call(t).key \in Keys /\ loc[t].since \in Nat
      BY <2>1, DeletingType DEF TypeOK
    <2>3. data[Call(t).key].id \in Nat
      BY <2>2 DEF TypeOK, MapsOK, Live, Present, Entry
    <2> QED BY <2>1, <2>2, <2>3 DEF LazyInv, Live, Present
  <1> QED BY <1>1, LazyInvariant, PTL

\* No step of any thread changes the deadline of an entry that has expired.
THEOREM ExpiredStaysExpired == Spec => NoResurrection
  <1>1. TypeOK /\ LazyInv /\ [Next]_vars =>
          [\A k \in Keys :
             SameEntry(k) /\ is_expired(data[k]) => data'[k].exp = data[k].exp]_vars
    <2> SUFFICES ASSUME TypeOK, LazyInv, [Next]_vars,
                        NEW k \in Keys, SameEntry(k), is_expired(data[k])
                 PROVE  data'[k].exp = data[k].exp
      OBVIOUS
    <2>1. DataStep
      BY NextType
    <2>2. data[k].id < next /\ next \in Nat
      BY DEF LazyInv, SameEntry, TypeOK, MapsOK
    <2> QED BY <2>1, <2>2, StoreAssumption DEF DataStep, EntryStep, SameEntry
  <1> QED BY <1>1, LazyInvariant, PTL DEF Spec, NoResurrection

-----------------------------------------------------------------------------
(* The expiration index *)

\* Every call under way is one of those the workload consists of.
OnlyIndexedCalls ==
  \A t \in Threads : \A i \in DOMAIN todo[t] : todo[t][i].op \notin UnindexedOps

Covered(k) ==
  data[k] # None /\ data[k].exp # None =>
    index[k] = data[k].exp \/ \E t \in Threads : IndexDropped(t, k)

IndexInv == OnlyIndexedOps => OnlyIndexedCalls /\ \A k \in Keys : Covered(k)

\* What a step of t may do to key k.
CoverCase(t, k) ==
  \/ data'[k] = None
  \/ data'[k].exp = None
  \/ index'[k] = data'[k].exp
  \/ pc'[t] \in {"del_data", "set_data", "incr_data"} /\ Head(todo'[t]).key = k
  \/ pc'[t] = "sweep_data" /\ loc'[t].sweep = k
  \/ /\ data[k] # None
     /\ data'[k].exp = data[k].exp
     /\ index'[k] = index[k]
     /\ ~IndexDropped(t, k)

\* Each of the ways a step can treat a key (CoverCase) keeps the key covered.
LEMMA CoverStep ==
  ASSUME TypeOK, NEW t \in Threads, Step(t), NEW k \in Keys, Covered(k), CoverCase(t, k)
  PROVE  Covered(k)'
  <1>1. ASSUME NEW u \in Threads, u # t, IndexDropped(u, k)
        PROVE  IndexDropped(u, k)'
    <2>1. pc'[u] = pc[u] /\ todo'[u] = todo[u] /\ loc'[u] = loc[u]
      BY <1>1, StepFrame DEF TypeOK, ThreadsOK
    <2> QED BY <1>1, <2>1 DEF IndexDropped, Call
  <1> QED BY <1>1 DEF Covered, CoverCase, IndexDropped, Call

\* Every store step of an indexed operation keeps every deadline covered by
\* expiration_index.
LEMMA StepCover ==
  ASSUME TypeOK, OnlyIndexedCalls, NEW t \in Threads, Step(t), NEW k \in Keys
  PROVE  CoverCase(t, k)
  <1> DEFINE c == Call(t)
  <1> USE DEF TypeOK
  <1>0. pc[t] # "idle" => c.op \notin UnindexedOps
    BY CurrentCall DEF OnlyIndexedCalls, ThreadsOK, Call
  <1>1. ASSUME UNCHANGED <<data, index>>, ~IndexDropped(t, k)
        PROVE  CoverCase(t, k)
    BY <1>1 DEF CoverCase
  <1>2. CASE SetIndex(t)
    BY <1>2 DEF SetIndex, AtCall, Goto, CoverCase, IndexDropped, MapsOK, ThreadsOK, Call
  <1>3. CASE SetData(t)
    <2>1. c.op = "set" /\ loc[t].deadline = None /\ pc[t] = "set_data"
      BY <1>3, <1>0 DEF SetData, At, ThreadsOK, ThreadOK, UnindexedOps
    <2>2. c.key \in Keys
      BY <2>1, CallKey
    <2> QED BY <1>3, <2>1, <2>2 DEF SetData, Put, Fresh, CoverCase, IndexDropped, MapsOK
  <1>4. CASE SetEntry(t)
    <2>1. c.key \in Keys /\ pc[t] = "set_entry"
      BY <1>4, CallKey DEF SetEntry, At, ThreadsOK, ThreadOK
    <2>2. CASE UNCHANGED <<data, index>>
      BY <1>1, <2>1, <2>2 DEF IndexDropped
    <2>3. ASSUME data' = [data EXCEPT ![c.key] = Fresh("string", c.n, {}, loc[t].deadline)],
                 \/ index' = [index EXCEPT ![c.key] = loc[t].deadline]
                 \/ UNCHANGED index /\ loc[t].deadline = None
          PROVE  CoverCase(t, k)
      <3>1. CASE k = c.key
        <4>1. data'[k].exp = loc[t].deadline
          BY <2>3, <3>1 DEF Fresh, MapsOK
        <4>2. loc[t].deadline = None \/ index'[k] = loc[t].deadline
          BY <2>3, <3>1 DEF MapsOK
        <4> QED BY <4>1, <4>2 DEF CoverCase
      <3>2. CASE k # c.key
        <4>1. data'[k] = data[k] /\ index'[k] = index[k]
          BY <2>3, <3>2 DEF MapsOK
        <4>2. ~IndexDropped(t, k)
          BY <2>1 DEF IndexDropped
        <4> QED BY <4>1, <4>2 DEF CoverCase
      <3> QED BY <3>1, <3>2
    <2> QED BY <1>4, <2>2, <2>3 DEF SetEntry, Put
  <1>5. CASE DeleteIndex(t)
    BY <1>5 DEF DeleteIndex, At, Goto, CoverCase, IndexDropped, MapsOK, ThreadsOK, Call
  <1>6. CASE DeleteData(t)
    BY <1>6 DEF DeleteData, At, Put, CoverCase, IndexDropped, MapsOK
  <1>7. CASE ExpireEntry(t)
    <2>1. c.key \in Keys /\ pc[t] = "expire_entry"
      BY <1>7, CallKey DEF ExpireEntry, At, ThreadsOK, ThreadOK, ExpireOps
    <2>2. CASE Live(c.key) /\ data' = [data EXCEPT ![c.key].exp = loc[t].deadline]
               /\ index' = [index EXCEPT ![c.key] = loc[t].deadline]
      <3>1. data[c.key] \in Entry
        BY <2>1, <2>2 DEF Live, Present, MapsOK
      <3> QED BY <2>1, <2>2, <3>1 DEF CoverCase, IndexDropped, MapsOK, Entry
    <2> QED BY <1>1, <1>7, <2>1, <2>2 DEF ExpireEntry, FoundExpired, IndexDropped
  <1>8. CASE Persist(t)
    <2>1. c.key \in Keys /\ pc[t] = "call"
      BY <1>8, CallKey DEF Persist, AtCall
    <2>2. CASE Live(c.key) /\ data' = [data EXCEPT ![c.key].exp = None]
               /\ index' = [index EXCEPT ![c.key] = None]
      <3>1. data[c.key] \in Entry
        BY <2>1, <2>2 DEF Live, Present, MapsOK
      <3> QED BY <2>1, <2>2, <3>1 DEF CoverCase, IndexDropped, MapsOK, Entry
    <2> QED BY <1>1, <1>8, <2>1, <2>2 DEF Persist, FoundExpired, IndexDropped
  <1>9. CASE IncrEntry(t)
    <2>1. c.key \in Keys /\ pc[t] = "call" /\ UNCHANGED index
      BY <1>9, CallKey DEF IncrEntry, AtCall
    <2>2. CASE Live(c.key) /\ data' = [data EXCEPT ![c.key].type = "integer", ![c.key].n = @ + c.by]
      <3>1. data[c.key] \in Entry
        BY <2>1, <2>2 DEF Live, Present, MapsOK
      <3> QED BY <2>1, <2>2, <3>1, StoreAssumption DEF CoverCase, IndexDropped, MapsOK, Entry
    <2>3. CASE Put(c.key, None) \/ Put(c.key, Fresh("integer", c.by, {}, None))
      BY <2>1, <2>3 DEF Put, Fresh, CoverCase, IndexDropped, MapsOK
    <2> QED BY <1>1, <1>9, <2>1, <2>2, <2>3 DEF IncrEntry, IndexDropped
  <1>10. CASE IncrIndex(t)
    BY <1>10 DEF IncrIndex, At, Goto, CoverCase, IndexDropped, MapsOK, ThreadsOK, Call
  <1>11. CASE IncrData(t)
    <2>1. c.key \in Keys /\ pc[t] = "incr_data"
      BY <1>11, CallKey DEF IncrData, At, ThreadsOK, ThreadOK
    <2> QED BY <1>11, <2>1 DEF IncrData, Put, Fresh, CoverCase, IndexDropped, MapsOK
  <1>12. CASE HsetEntry(t)
    <2>1. c.key \in Keys /\ pc[t] = "hset_entry" /\ UNCHANGED index
      BY <1>12, CallKey DEF HsetEntry, At, ThreadsOK, ThreadOK
    <2>2. CASE Present(c.key) /\ data' = [data EXCEPT ![c.key].fields = @ \cup {c.f}]
      <3>1. data[c.key] \in Entry
        BY <2>1, <2>2 DEF Present, MapsOK
      <3> QED BY <2>1, <2>2, <3>1, StoreAssumption DEF CoverCase, IndexDropped, MapsOK, Entry
    <2>3. CASE Put(c.key, Fresh("hash", None, {c.f}, None))
      BY <2>1, <2>3 DEF Put, Fresh, CoverCase, IndexDropped, MapsOK
    <2> QED BY <1>1, <1>12, <2>1, <2>2, <2>3 DEF HsetEntry, IndexDropped
  <1>13. ASSUME NEW j \in Keys, SweepIndex(t, j)
         PROVE  CoverCase(t, k)
    BY <1>13 DEF SweepIndex, At, Goto, CoverCase, IndexDropped, MapsOK, ThreadsOK, Locals
  <1>14. CASE SweepData(t)
    BY <1>14 DEF SweepData, At, Put, CoverCase, IndexDropped, MapsOK
  <1>15. CASE SetTtlIndex(t) \/ HdelCheck(t) \/ ClearBegin(t)
    BY <1>0, <1>15 DEF SetTtlIndex, HdelCheck, ClearBegin, AtCall, UnindexedOps
  <1>16. CASE HdelRead(t) \/ HdelKey(t) \/ HdelIndex(t) \/ HdelField(t)
    BY <1>0, <1>16
       DEF HdelRead, HdelKey, HdelIndex, HdelField, At, ThreadsOK, ThreadOK, UnindexedOps
  <1>17. ASSUME NEW j \in Keys, ClearData(t, j) \/ ClearIndex(t, j)
         PROVE  CoverCase(t, k)
    BY <1>0, <1>17 DEF ClearData, ClearIndex, At, ThreadsOK, ThreadOK, UnindexedOps
  <1>18. CASE \/ BadArg(t) \/ SetResolve(t) \/ Delete(t) \/ DeleteSync(t)
              \/ ExpireResolve(t) \/ SweepBegin(t)
    BY <1>1, <1>18
       DEF BadArg, SetResolve, Delete, DeleteSync, ExpireResolve, SweepBegin, At, AtCall,
           IndexDropped
  <1>19. CASE \/ Get(t) \/ Exists(t) \/ Ttl(t) \/ Pttl(t)
              \/ Hget(t) \/ Hgetall(t) \/ Hexists(t) \/ HsetCheck(t)
    BY <1>1, <1>19
       DEF Get, Exists, Ttl, Pttl, Hget, Hgetall, Hexists, HsetCheck, Lookup, FoundExpired,
           AtCall, IndexDropped
  <1>20. ASSUME NEW j \in Keys, SweepScan(t, j)
         PROVE  CoverCase(t, k)
    BY <1>1, <1>20 DEF SweepScan, At, IndexDropped
  <1> QED
    BY <1>2, <1>3, <1>4, <1>5, <1>6, <1>7, <1>8, <1>9, <1>10, <1>11, <1>12, <1>13, <1>14,
       <1>15, <1>16, <1>17, <1>18, <1>19, <1>20
    DEF Step

\* A step makes no call that was not already in the thread's command.
LEMMA StepTodo ==
  ASSUME TypeOK, NEW t \in Threads, Step(t)
  PROVE  todo'[t] = todo[t] \/ todo'[t] = Tail(todo[t]) \/ todo'[t] = <<>>
  <1> DEFINE Goal == todo'[t] = todo[t] \/ todo'[t] = Tail(todo[t]) \/ todo'[t] = <<>>
  <1>1. ASSUME Return(t) \/ Fail(t)
        PROVE  Goal
    BY <1>1 DEF Return, Fail, TypeOK, ThreadsOK
  <1>2. ASSUME NEW label, Goto(t, label)
        PROVE  Goal
    BY <1>2 DEF Goto
  <1>3. CASE \/ BadArg(t) \/ SetIndex(t) \/ SetTtlIndex(t) \/ SetData(t)
             \/ SetResolve(t) \/ SetEntry(t)
             \/ Delete(t) \/ DeleteSync(t) \/ DeleteIndex(t) \/ DeleteData(t)
    BY <1>1, <1>2, <1>3
       DEF BadArg, SetIndex, SetTtlIndex, SetData, SetResolve, SetEntry,
           Delete, DeleteSync, DeleteIndex, DeleteData
  <1>4. CASE \/ Get(t) \/ Exists(t) \/ Ttl(t) \/ Pttl(t)
             \/ Hget(t) \/ Hgetall(t) \/ Hexists(t)
             \/ ExpireResolve(t) \/ ExpireEntry(t) \/ Persist(t)
    BY <1>1, <1>2, <1>4
       DEF Get, Exists, Ttl, Pttl, Hget, Hgetall, Hexists, Lookup, FoundExpired,
           ExpireResolve, ExpireEntry, Persist
  <1>5. CASE \/ IncrEntry(t) \/ IncrIndex(t) \/ IncrData(t)
             \/ HsetCheck(t) \/ HsetEntry(t) \/ HdelCheck(t) \/ HdelRead(t)
             \/ HdelKey(t) \/ HdelIndex(t) \/ HdelField(t)
    BY <1>1, <1>2, <1>5
       DEF IncrEntry, IncrIndex, IncrData, HsetCheck, HsetEntry, HdelCheck, HdelRead,
           HdelKey, HdelIndex, HdelField, FoundExpired
  <1>6. CASE ClearBegin(t) \/ SweepBegin(t) \/ SweepData(t)
    BY <1>1, <1>2, <1>6 DEF ClearBegin, SweepBegin, SweepData
  <1>7. ASSUME NEW k \in Keys,
               ClearData(t, k) \/ ClearIndex(t, k) \/ SweepScan(t, k) \/ SweepIndex(t, k)
        PROVE  Goal
    BY <1>1, <1>2, <1>7 DEF ClearData, ClearIndex, SweepScan, SweepIndex
  <1> QED BY <1>3, <1>4, <1>5, <1>6, <1>7 DEF Step

\* A thread that runs indexed operations only goes on doing so.
LEMMA StepIndexedCalls ==
  ASSUME TypeOK, OnlyIndexedCalls, NEW t \in Threads, Step(t)
  PROVE  OnlyIndexedCalls'
  <1> USE DEF TypeOK, ThreadsOK
  <1>1. todo[t] \in Seq(Calls) /\ todo[t] # <<>>
    BY StepFrame, CurrentCall
  <1>2. todo'[t] = todo[t] \/ todo'[t] = Tail(todo[t]) \/ todo'[t] = <<>>
    BY StepTodo
  <1>3. \A i \in DOMAIN todo'[t] : todo'[t][i].op \notin UnindexedOps
    <2>1. ASSUME NEW q \in Seq(Calls), q # <<>>, NEW i \in DOMAIN Tail(q)
          PROVE  i + 1 \in DOMAIN q /\ Tail(q)[i] = q[i + 1]
      BY <2>1
    <2>2. CASE todo'[t] = Tail(todo[t])
      BY <1>1, <2>1, <2>2 DEF OnlyIndexedCalls
    <2>3. CASE todo'[t] = todo[t] \/ todo'[t] = <<>>
      BY <2>3 DEF OnlyIndexedCalls
    <2> QED BY <1>2, <2>2, <2>3
  <1>4. ASSUME NEW u \in Threads, u # t PROVE todo'[u] = todo[u]
    BY <1>4, StepFrame
  <1> QED BY <1>3, <1>4 DEF OnlyIndexedCalls

\* The empty store of MemoryStore::new has nothing to cover.
LEMMA InitIndex == Init => IndexInv
  BY DEF Init, IndexInv, OnlyIndexedCalls, Covered

\* The index invariant is preserved by every step.
LEMMA NextIndex == TypeOK /\ IndexInv /\ [Next]_vars => IndexInv'
  <1> SUFFICES ASSUME TypeOK, IndexInv, [Next]_vars, OnlyIndexedOps
               PROVE  OnlyIndexedCalls' /\ \A k \in Keys : Covered(k)'
    BY DEF IndexInv, OnlyIndexedOps
  <1>1. OnlyIndexedCalls /\ \A k \in Keys : Covered(k)
    BY DEF IndexInv
  <1>2. ASSUME NEW t \in Threads, Step(t)
        PROVE  OnlyIndexedCalls' /\ \A k \in Keys : Covered(k)'
    BY <1>1, <1>2, StepIndexedCalls, StepCover, CoverStep
  <1>3. ASSUME NEW t \in Threads, NEW cmd \in Commands, Begin(t, cmd)
        PROVE  OnlyIndexedCalls' /\ \A k \in Keys : Covered(k)'
    <2>1. OnlyIndexedCalls'
      BY <1>1, <1>3 DEF OnlyIndexedOps, OnlyIndexedCalls, Begin, TypeOK, ThreadsOK
    <2>2. ASSUME NEW k \in Keys, NEW u \in Threads, IndexDropped(u, k)
          PROVE  IndexDropped(u, k)'
      BY <1>3, <2>2 DEF Begin, At, IndexDropped, Call, TypeOK, ThreadsOK
    <2> QED BY <1>1, <1>3, <2>1, <2>2 DEF Begin, Covered
  <1>4. CASE UNCHANGED <<data, index, pc, todo, loc>>
    BY <1>1, <1>4 DEF OnlyIndexedCalls, Covered, IndexDropped, Call
  <1> QED BY <1>2, <1>3, <1>4 DEF Next, Tick, vars

\* cleanup_expired can find every deadline in the store, as long as nobody
\* uses hdel, clear, set_with_ttl or set_with_expiration.
THEOREM IndexComplete == Spec => []IndexCovers
  <1>1. IndexInv => IndexCovers
    BY DEF IndexInv, IndexCovers, Covered
  <1> QED BY <1>1, InitType, NextType, InitIndex, NextIndex, PTL DEF Spec

=============================================================================
