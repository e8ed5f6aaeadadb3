--------------------------- MODULE AofControlProofs ---------------------------
(***************************************************************************)
(* The inductive invariant of the append-only file, and the proof that the *)
(* connection tasks and shutdown keep the part of it that is about         *)
(* control: types, identifiers, the rewrite barrier, who waits for what.   *)
(* The writer and the end of the process are in AofWriterProofs, the order *)
(* of the mutations in AofOrderProofs, recovery and the theorems in        *)
(* AofProofs.                                                              *)
(***************************************************************************)
EXTENDS AofPersistence, TLAPS

\* The obligations are easy but many: more than the default time for each.
USE SMTT(30)

-----------------------------------------------------------------------------
(* The inductive invariant *)

Flags == writable \in BOOLEAN /\ due \in BOOLEAN /\ lost \subseteq Nat

Types ==
  /\ policy \in Policies
  /\ history \in Seq(Write)
  /\ barrier \in Clients \cup {None}
  /\ cpc \in [Clients -> CPCs]
  /\ cur \in [Clients -> Nat]
  /\ acked \subseteq Nat
  /\ chan \in Seq(Message) /\ Len(chan) <= Cap
  /\ wpc \in WPCs
  /\ job \in Message
  /\ buffer \in Seq(Nat)
  /\ file \in Seq(Frame)
  /\ synced \in 0 .. Len(file)
  /\ phase \in Phases
  /\ calls \in Nat /\ restarts \in Nat /\ faults \in Nat

\* Whatever is in the file, in the buffer or on its way there names a mutation
\* of history, and a snapshot is the first frame of the file.
FileIds ==
  \A k \in 1 .. Len(file) :
    /\ file[k].kind = "cmd" => file[k].id \in 1 .. Len(history)
    /\ file[k].kind = "snap" => k = 1 /\ file[k].id <= Len(history)

BufferIds == \A k \in 1 .. Len(buffer) : buffer[k] \in 1 .. Len(history)

SentIds ==
  /\ \A k \in 1 .. Len(chan) :
       chan[k].kind = "record" => chan[k].id \in 1 .. Len(history)
  /\ \A c \in Clients :
       cpc[c] = "log" => cur[c] \in 1 .. Len(history) /\ history[cur[c]].client = c

Ids == FileIds /\ BufferIds /\ SentIds

\* A rewrite keeps the barrier from its snapshot to the swap, so that the
\* snapshot it has sent is still the whole store.
Barred ==
  /\ \A c \in Clients :
       /\ cpc[c] \in {"snapshot", "send"} => barrier = c
       /\ cpc[c] = "send" => cur[c] = Len(history)
  /\ \A k \in 1 .. Len(chan) :
       chan[k].kind = "swap" => barrier = chan[k].by /\ chan[k].id = Len(history)

\* Messages that are answered.
Asks(m) == m.kind \in {"swap", "flush"}

\* Whoever sent such a message waits, and has sent no other.
Waiting ==
  /\ \A k \in 1 .. Len(chan) :
       Asks(chan[k]) => chan[k].by \in Clients /\ cpc[chan[k].by] = "await"
  /\ \A k, l \in 1 .. Len(chan) :
       Asks(chan[k]) /\ Asks(chan[l]) /\ k # l => chan[k].by # chan[l].by
  /\ job.kind = "flush" =>
       /\ job.by \in Clients /\ cpc[job.by] = "await"
       /\ \A k \in 1 .. Len(chan) : Asks(chan[k]) => chan[k].by # job.by

\* The writer is told to stop once the drain is over; if that was because every
\* connection is closed, nothing follows the message.
Stopping ==
  /\ phase \in {"up", "draining"} =>
       /\ wpc # "stopped" /\ job.kind # "shutdown"
       /\ \A k \in 1 .. Len(chan) : chan[k].kind # "shutdown"
  /\ phase = "clean" =>
       /\ \A c \in Clients : cpc[c] = "closed"
       /\ \A k \in 1 .. Len(chan) : chan[k].kind = "shutdown" => k = Len(chan)
       /\ job.kind = "shutdown" => chan = <<>>
  /\ wpc = "stopped" => chan = <<>>

\* A process that is down has no memory.
Dead ==
  phase = "down" =>
    /\ wpc = "recv" /\ job = Tick /\ chan = <<>> /\ buffer = <<>> /\ barrier = None
    /\ \A c \in Clients : cpc[c] = "idle"

\* What I/O errors explain, and what the last flush leaves without one.
Io ==
  /\ lost # {} \/ ~writable => faults > 0
  /\ wpc = "sync" => buffer = <<>>
  /\ wpc = "stopped" /\ faults = 0 => buffer = <<>> /\ synced = Len(file)

\* A frame stands for position i of history.
Stands(f, i) == (f.kind = "cmd" /\ f.id = i) \/ (f.kind = "snap" /\ i \in 1 .. f.id)

\* A message carries position i.
Carries(m, i) == m.kind = "record" /\ m.id = i

InFile(i) == \E k \in 1 .. Len(file) : Stands(file[k], i)
InBuffer(i) == \E k \in 1 .. Len(buffer) : buffer[k] = i
InChan(i) == \E k \in 1 .. Len(chan) : Carries(chan[k], i)
Logging(i) == \E c \in Clients : cpc[c] = "log" /\ cur[c] = i

\* NothingLost, and also while a forced shutdown has not stopped the writer.
Serving == phase # "down" /\ (Open \/ phase = "clean")
OnItsWay(i) == InFile(i) \/ InBuffer(i) \/ InChan(i) \/ Logging(i)
Kept == Serving => \A i \in 1 .. Len(history) : i \notin lost => OnItsWay(i)

\* Two mutations of one client, in the order it sent them.
Follows(i, j) ==
  /\ i \in 1 .. Len(history) /\ j \in 1 .. Len(history)
  /\ i < j /\ history[i].client = history[j].client

\* Wherever j is on the way from its client to the file, i is there before it or
\* further on.
FrameOrder(f, i, j) ==
  \A k \in 1 .. Len(f) : Stands(f[k], j) => \E l \in 1 .. k : Stands(f[l], i)

BufferOrder(i, j) ==
  \A k \in 1 .. Len(buffer) :
    buffer[k] = j => InFile(i) \/ \E l \in 1 .. k : buffer[l] = i

ChanOrder(i, j) ==
  \A k \in 1 .. Len(chan) :
    Carries(chan[k], j) =>
      InFile(i) \/ InBuffer(i) \/ \E l \in 1 .. k : Carries(chan[l], i)

LogOrder(i, j) == Open /\ Logging(j) => InFile(i) \/ InBuffer(i) \/ InChan(i)

\* The pipeline from the client to the file keeps each client's order.
Ordered ==
  \A i, j \in 1 .. Len(history) :
    i \notin lost /\ Follows(i, j) =>
      FrameOrder(file, i, j) /\ BufferOrder(i, j) /\ ChanOrder(i, j) /\ LogOrder(i, j)

Control == Flags /\ Types /\ Ids /\ Barred /\ Waiting /\ Stopping /\ Dead /\ Io
Inv == Control /\ Kept /\ Ordered

-----------------------------------------------------------------------------
(* Frames *)

\* A sequence of identifiers as frames: one command frame each.
LEMMA FramesShape ==
  ASSUME NEW ids \in Seq(Nat)
  PROVE  /\ Frames(ids) \in Seq(Frame)
         /\ Len(Frames(ids)) = Len(ids)
         /\ \A k \in 1 .. Len(ids) : Frames(ids)[k] = Cmd(ids[k])
<1>1. DOMAIN ids = 1 .. Len(ids) /\ Len(ids) \in Nat
  OBVIOUS
<1>2. \A k \in 1 .. Len(ids) : Cmd(ids[k]) \in Frame
  BY DEF Cmd, Frame
<1>3. Frames(ids) = [k \in 1 .. Len(ids) |-> Cmd(ids[k])]
  BY Zenon, <1>1 DEF Frames
<1> QED
  BY <1>1, <1>2, <1>3

\* What concatenation does to each position.
LEMMA ConcatShape ==
  ASSUME NEW S, NEW a \in Seq(S), NEW b \in Seq(S)
  PROVE  /\ a \o b \in Seq(S)
         /\ Len(a \o b) = Len(a) + Len(b)
         /\ \A k \in 1 .. Len(a) : (a \o b)[k] = a[k]
         /\ \A k \in 1 .. Len(b) : (a \o b)[Len(a) + k] = b[k]
OBVIOUS

\* Receiving a message moves the others one place forward.
LEMMA TailShape ==
  ASSUME NEW S, NEW a \in Seq(S), a # <<>>
  PROVE  /\ Head(a) = a[1] /\ Head(a) \in S /\ 1 \in 1 .. Len(a)
         /\ Tail(a) \in Seq(S) /\ Len(Tail(a)) = Len(a) - 1
         /\ \A k \in 1 .. Len(Tail(a)) : k + 1 \in 1 .. Len(a) /\ Tail(a)[k] = a[k + 1]
OBVIOUS

\* Sending a message leaves the others where they are.
LEMMA AppendShape ==
  ASSUME NEW S, NEW a \in Seq(S), NEW e \in S
  PROVE  /\ Append(a, e) \in Seq(S)
         /\ Len(Append(a, e)) = Len(a) + 1
         /\ \A k \in 1 .. Len(a) : Append(a, e)[k] = a[k]
         /\ Append(a, e)[Len(a) + 1] = e
OBVIOUS

\* Covers, frame by frame.
LEMMA CoversStands ==
  ASSUME NEW fs \in Seq(Frame), NEW i
  PROVE  i \in Covers(fs) <=> \E k \in 1 .. Len(fs) : Stands(fs[k], i)
<1>1. DOMAIN fs = 1 .. Len(fs)
  OBVIOUS
<1>2. \A k \in 1 .. Len(fs) : fs[k].kind \in {"cmd", "snap", "torn"}
  <2>1. \A k \in 1 .. Len(fs) : fs[k] \in Frame
    OBVIOUS
  <2> QED BY Zenon, <2>1 DEF Frame
<1>3. ASSUME i \in Covers(fs) PROVE \E k \in 1 .. Len(fs) : Stands(fs[k], i)
  <2>1. PICK k \in {j \in DOMAIN fs : fs[j].kind # "torn"} :
          i \in IF fs[k].kind = "snap" THEN 1 .. fs[k].id ELSE {fs[k].id}
    BY Zenon, <1>3 DEF Covers
  <2> QED BY Zenon, <1>1, <1>2, <2>1 DEF Stands
<1>4. ASSUME NEW k \in 1 .. Len(fs), Stands(fs[k], i) PROVE i \in Covers(fs)
  <2>1. k \in {j \in DOMAIN fs : fs[j].kind # "torn"}
    BY Zenon, <1>1, <1>4 DEF Stands
  <2>2. i \in IF fs[k].kind = "snap" THEN 1 .. fs[k].id ELSE {fs[k].id}
    BY Zenon, <1>4 DEF Stands
  <2> QED BY Zenon, <2>1, <2>2 DEF Covers
<1> QED BY Zenon, <1>3, <1>4

-----------------------------------------------------------------------------
(* Control: the initial state and the connection tasks *)

\* The process starts with an empty file, channel and buffer.
LEMMA InitControl == Init => Control
<1> SUFFICES ASSUME Init PROVE Control
  BY Zenon
<1>1. Flags
  BY Zenon DEF Init, Flags
<1>2. Types
  BY AofAssumption DEF Init, Types, CPCs, WPCs, Phases, Message, Tick, Frame
<1>3. Ids /\ Barred /\ Waiting
  BY DEF Init, Ids, FileIds, BufferIds, SentIds, Barred, Waiting, Asks, Tick
<1>4. Stopping /\ Dead /\ Io
  BY DEF Init, Stopping, Dead, Io, Tick
<1> QED BY Zenon, <1>1, <1>2, <1>3, <1>4 DEF Control

\* What the steps of a task that touch neither the channel nor the store do:
\* a task that is not waiting for an answer goes on, and the barrier is taken
\* when it is free and given back with the answer.
Quiet ==
  UNCHANGED <<policy, history, wpc, job, buffer, writable, due, file, synced,
              lost, phase, restarts>>
Bounds ==
  /\ acked' \subseteq Nat /\ calls' \in Nat
  /\ faults' \in Nat /\ faults' >= faults

Goes(c, l, n) ==
  /\ Move(c, l)
  /\ cur' = [cur EXCEPT ![c] = n]
  /\ l \in {"snapshot", "send"} => barrier' = c
  /\ l = "send" => n = Len(history)

Local(c) ==
  /\ phase # "down" /\ cpc[c] \notin {"await", "closed"}
  /\ cpc[c] = "log" => ~Open
  /\ Quiet /\ Bounds /\ UNCHANGED chan
  /\ \E l \in CPCs \ {"log", "await"}, n \in Nat : Goes(c, l, n)
  /\ \/ barrier' = barrier
     \/ barrier = None /\ barrier' = c
     \/ barrier = c /\ barrier' = None /\ cpc[c] = "replied"

\* What the steps that send a message do.
Sends(c) ==
  /\ phase # "down" /\ Open /\ Len(chan) < Cap
  /\ Quiet /\ Bounds /\ UNCHANGED <<barrier, cur>>
  /\ \/ cpc[c] = "log" /\ chan' = Append(chan, Record(cur[c])) /\ Move(c, "reply")
     \/ /\ cpc[c] = "send" /\ chan' = Append(chan, SwapFile(c, cur[c]))
        /\ Move(c, "await")
     \/ cpc[c] = "idle" /\ chan' = Append(chan, Flush(c)) /\ Move(c, "await")

\* Each step of a connection task is local or sends one message.
LEMMA TaskSteps ==
  ASSUME Control, NEW c \in Clients,
         Client(c) \/ Close(c) \/ RewriteWait(c) \/ FlushSend(c)
  PROVE  Local(c) \/ Sends(c)
<1> USE DEF Control
<1>0. /\ cur \in [Clients -> Nat] /\ cur[c] \in Nat /\ cur = [cur EXCEPT ![c] = cur[c]]
      /\ acked \subseteq Nat /\ calls \in Nat /\ faults \in Nat
      /\ history \in Seq(Write) /\ Len(history) \in Nat
  BY DEF Types
<1>1. CASE Log(c)
  <2>1. Quiet /\ Bounds
    BY <1>0, <1>1 DEF Log, Quiet, Bounds, writerVars, diskVars, boundVars
  <2>2. CASE Send(Record(cur[c]))
    BY Zenon, <1>1, <2>1, <2>2 DEF Log, Send, Room, Sends, Running
  <2>3. CASE ~Open /\ UNCHANGED chan
    <3>1. Goes(c, "reply", cur[c])
      BY Zenon, <1>0, <1>1 DEF Log, Goes, Move
    <3>2. "reply" \in CPCs \ {"log", "await"}
      BY Zenon DEF CPCs
    <3> QED BY Zenon, <1>0, <1>1, <2>1, <2>3, <3>1, <3>2 DEF Log, Local, Running
  <2> QED BY Zenon, <1>1, <2>2, <2>3 DEF Log
<1>2. CASE Reply(c)
  <2>1. Goes(c, "idle", 0)
    BY Zenon, <1>0, <1>2 DEF Reply, Goes, Move
  <2>2. Quiet /\ Bounds
    <3>1. acked' \subseteq Nat
      BY Zenon, <1>0, <1>2 DEF Reply
    <3>2. UNCHANGED <<calls, faults>> /\ Quiet
      BY Zenon, <1>2 DEF Reply, Quiet, writerVars, diskVars, boundVars
    <3> QED BY <1>0, <3>1, <3>2 DEF Bounds
  <2>3. "idle" \in CPCs \ {"log", "await"} /\ 0 \in Nat
    BY Zenon, <1>0 DEF CPCs
  <2> QED BY Zenon, <1>2, <2>1, <2>2, <2>3
    DEF Reply, Local, Running, writerVars, diskVars, boundVars
<1>3. CASE RewriteBegin(c)
  <2>1. Goes(c, "snapshot", cur[c])
    BY Zenon, <1>0, <1>3 DEF RewriteBegin, Goes, Move
  <2>2. Quiet /\ Bounds
    BY <1>0, <1>3 DEF RewriteBegin, Quiet, Bounds, writerVars, diskVars, boundVars
  <2>3. "snapshot" \in CPCs \ {"log", "await"} /\ cur[c] \in Nat
    BY Zenon, <1>0 DEF CPCs
  <2> QED BY Zenon, <1>3, <2>1, <2>2, <2>3
    DEF RewriteBegin, Local, Running, writerVars, diskVars, boundVars
<1>4. CASE RewriteTemp(c)
  <2>1. barrier = c
    BY Zenon, <1>4 DEF RewriteTemp, Barred
  <2> QED BY <1>0, <1>4, <2>1 DEF RewriteTemp, Local, Goes, Quiet, Bounds, Running, Move,
      CPCs, writerVars, diskVars, boundVars
<1>5. CASE RewriteSend(c)
  BY <1>0, <1>5 DEF RewriteSend, Send, Room, Local, Goes, Sends, Quiet, Bounds, Running,
     Move, CPCs, writerVars, diskVars, boundVars
<1>6. CASE RewriteReturn(c)
  <2>1. Goes(c, "idle", 0)
    BY Zenon, <1>0, <1>6 DEF RewriteReturn, Goes, Move
  <2>2. Quiet /\ Bounds
    BY <1>0, <1>6 DEF RewriteReturn, Quiet, Bounds, writerVars, diskVars, boundVars
  <2>3. "idle" \in CPCs \ {"log", "await"} /\ 0 \in Nat
    BY Zenon, <1>0 DEF CPCs
  <2> QED BY Zenon, <1>6, <2>1, <2>2, <2>3
    DEF RewriteReturn, Local, Running, writerVars, diskVars, boundVars
<1>7. CASE Close(c)
  <2>1. Goes(c, "closed", cur[c])
    BY Zenon, <1>0, <1>7 DEF Close, Goes, Move
  <2>2. Quiet /\ Bounds
    BY <1>0, <1>7 DEF Close, Quiet, Bounds, writerVars, diskVars, boundVars
  <2>3. "closed" \in CPCs \ {"log", "await"} /\ cur[c] \in Nat
    BY Zenon, <1>0 DEF CPCs
  <2> QED BY Zenon, <1>7, <2>1, <2>2, <2>3
    DEF Close, Local, Running, writerVars, diskVars, boundVars
<1>8. CASE RewriteWait(c)
  <2>1. Goes(c, "wait", cur[c])
    BY Zenon, <1>0, <1>8 DEF RewriteWait, Goes, Move
  <2>2. Quiet /\ Bounds
    BY <1>0, <1>8 DEF RewriteWait, Quiet, Bounds, writerVars, diskVars, boundVars
  <2>3. "wait" \in CPCs \ {"log", "await"} /\ cur[c] \in Nat
    BY Zenon, <1>0 DEF CPCs
  <2> QED BY Zenon, <1>8, <2>1, <2>2, <2>3
    DEF RewriteWait, Local, Running, writerVars, diskVars, boundVars
<1>9. CASE FlushSend(c)
  BY <1>0, <1>9 DEF FlushSend, Send, Room, Local, Goes, Sends, Quiet, Bounds, Running,
     Move, CPCs, writerVars, diskVars, boundVars
<1> QED
  BY Zenon, <1>1, <1>2, <1>3, <1>4, <1>5, <1>6, <1>7, <1>8, <1>9 DEF Client

\* Steps of a task that send nothing keep the control part.
LEMMA LocalControl ==
  ASSUME Control, NEW c \in Clients, Local(c)
  PROVE  Control'
<1> USE DEF Control
<1>1. PICK l \in CPCs \ {"log", "await"}, n \in Nat :
        /\ cpc' = [cpc EXCEPT ![c] = l]
        /\ cur' = [cur EXCEPT ![c] = n]
        /\ l \in {"snapshot", "send"} => barrier' = c
        /\ l = "send" => n = Len(history)
  BY Zenon DEF Local, Goes, Move
<1>2. Flags'
  BY Zenon DEF Local, Quiet, Flags
<1>3. Types'
  BY Zenon, <1>1 DEF Local, Quiet, Bounds, Types
<1>4. Ids'
  BY Zenon, <1>1 DEF Local, Quiet, Types, Ids, FileIds, BufferIds, SentIds
<1>5. Barred'
  <2>0. history' = history /\ chan' = chan /\ None \notin Clients
    BY Zenon, AofAssumption DEF Local, Quiet
  <2>1. \A d \in Clients \ {c} : cpc'[d] = cpc[d] /\ cur'[d] = cur[d]
    BY Zenon, <1>1 DEF Types
  <2>2. cpc'[c] = l /\ cur'[c] = n
    BY Zenon, <1>1 DEF Types
  <2>3. \A d \in Clients \ {c} : barrier = d => barrier' = d
    BY Zenon, <2>0 DEF Local
  <2>4. ASSUME NEW k \in 1 .. Len(chan), chan[k].kind = "swap"
        PROVE  barrier' = chan[k].by /\ chan[k].id = Len(history)
    <3>1. chan[k].by \in Clients /\ cpc[chan[k].by] = "await"
      BY Zenon, <2>4 DEF Waiting, Asks
    <3>2. chan[k].by # c
      BY Zenon, <3>1 DEF Local
    <3> QED BY Zenon, <2>3, <2>4, <3>1, <3>2 DEF Barred
  <2>5. ASSUME NEW d \in Clients
        PROVE  /\ cpc'[d] \in {"snapshot", "send"} => barrier' = d
               /\ cpc'[d] = "send" => cur'[d] = Len(history)
    BY <1>1, <2>1, <2>2, <2>3 DEF Barred
  <2> QED BY Zenon, <2>0, <2>4, <2>5 DEF Barred
<1>6. Waiting'
  <2>1. \A d \in Clients : cpc[d] = "await" => cpc'[d] = "await"
    BY Zenon, <1>1 DEF Local, Types
  <2>2. chan' = chan /\ job' = job
    BY Zenon DEF Local, Quiet
  <2> QED BY Zenon, <2>1, <2>2 DEF Waiting
<1>7. Stopping' /\ Dead'
  BY Zenon, <1>1 DEF Local, Quiet, Types, Stopping, Dead
<1>8. Io'
  BY DEF Local, Quiet, Bounds, Types, Io
<1> QED BY Zenon, <1>2, <1>3, <1>4, <1>5, <1>6, <1>7, <1>8

\* So do the steps that send a message.
LEMMA SendsControl ==
  ASSUME Control, NEW c \in Clients, Sends(c)
  PROVE  Control'
<1> USE DEF Control
<1>1. PICK m \in Message, l \in {"reply", "await"} :
        /\ chan' = Append(chan, m) /\ cpc' = [cpc EXCEPT ![c] = l]
        /\ cpc[c] \in {"log", "send", "idle"}
        /\ m.kind \in {"record", "swap", "flush"}
        /\ m.kind = "record" => cpc[c] = "log" /\ m.id = cur[c]
        /\ m.kind = "swap" => cpc[c] = "send" /\ m.id = cur[c]
        /\ Asks(m) => m.by = c /\ l = "await"
  <2>0. cur[c] \in Nat
    BY Zenon DEF Types
  <2>1. CASE cpc[c] = "log" /\ chan' = Append(chan, Record(cur[c])) /\ Move(c, "reply")
    <3>1. Record(cur[c]) \in Message
      BY Zenon, <2>0 DEF Record, Message
    <3> QED BY Zenon, <2>1, <3>1 DEF Move, Record, Asks
  <2>2. CASE /\ cpc[c] = "send" /\ chan' = Append(chan, SwapFile(c, cur[c]))
             /\ Move(c, "await")
    <3>1. SwapFile(c, cur[c]) \in Message
      BY Zenon, <2>0 DEF SwapFile, Message
    <3> QED BY Zenon, <2>2, <3>1 DEF Move, SwapFile, Asks
  <2>3. CASE cpc[c] = "idle" /\ chan' = Append(chan, Flush(c)) /\ Move(c, "await")
    <3>1. Flush(c) \in Message
      BY Zenon DEF Flush, Message
    <3> QED BY Zenon, <2>3, <3>1 DEF Move, Flush, Asks
  <2> QED BY Zenon, <2>1, <2>2, <2>3 DEF Sends
<1>2. /\ chan' \in Seq(Message) /\ Len(chan') = Len(chan) + 1 /\ Len(chan) \in Nat
      /\ \A k \in 1 .. Len(chan) : chan'[k] = chan[k]
      /\ chan'[Len(chan) + 1] = m
  BY <1>1, AppendShape DEF Types
<1>3. Flags'
  BY Zenon DEF Sends, Quiet, Flags
<1>4. Types'
  <2>1. l \in CPCs
    BY Zenon, <1>1 DEF CPCs
  <2>2. cpc' \in [Clients -> CPCs]
    BY Zenon, <1>1, <2>1 DEF Types
  <2>3. Len(chan') <= Cap
    BY <1>2, AofAssumption DEF Sends
  <2> QED BY Zenon, <1>2, <2>2, <2>3 DEF Sends, Quiet, Bounds, Types
<1>5. Ids'
  <2>1. FileIds' /\ BufferIds'
    BY Zenon DEF Sends, Quiet, Ids, FileIds, BufferIds
  <2>2. history' = history /\ cur' = cur
    BY Zenon DEF Sends, Quiet
  <2>3. ASSUME NEW k \in 1 .. Len(chan'), chan'[k].kind = "record"
        PROVE  chan'[k].id \in 1 .. Len(history)
    <3>1. CASE k \in 1 .. Len(chan)
      BY Zenon, <1>2, <2>3, <3>1 DEF Ids, SentIds
    <3>2. CASE k = Len(chan) + 1
      BY Zenon, <1>1, <1>2, <2>3, <3>2 DEF Ids, SentIds
    <3> QED BY <1>2, <3>1, <3>2
  <2>4. \A d \in Clients : cpc'[d] = "log" => cpc[d] = "log"
    BY Zenon, <1>1 DEF Types
  <2> QED BY Zenon, <2>1, <2>2, <2>3, <2>4 DEF Ids, SentIds
<1>6. Barred'
  BY <1>1, <1>2 DEF Sends, Quiet, Types, Barred, Asks
<1>7. Waiting'
  BY <1>1, <1>2 DEF Sends, Quiet, Types, Waiting, Asks
<1>8. Stopping' /\ Dead'
  BY <1>1, <1>2 DEF Sends, Quiet, Open, Types, Stopping, Dead
<1>9. Io'
  BY DEF Sends, Quiet, Bounds, Types, Io
<1> QED BY Zenon, <1>3, <1>4, <1>5, <1>6, <1>7, <1>8, <1>9

\* Positions of a history stay positions of a longer one.
LEMMA GrownHistory ==
  ASSUME Control, Len(history') \in Nat, Len(history') >= Len(history),
         UNCHANGED <<file, buffer>>
  PROVE  FileIds' /\ BufferIds'
<1>1. \A k \in 1 .. Len(file) : file[k] \in Frame
  BY DEF Control, Types
<1>2. \A k \in 1 .. Len(file) : file[k].id \in Nat
  BY Zenon, <1>1 DEF Frame
<1>3. Len(history) \in Nat /\ FileIds /\ BufferIds
  BY DEF Control, Types, Ids
<1>4. FileIds'
  BY <1>2, <1>3 DEF FileIds
<1>5. BufferIds'
  BY <1>3 DEF BufferIds
<1> QED BY Zenon, <1>4, <1>5

\* A mutation executes only while no snapshot is on its way.
LEMMA ExecuteControl ==
  ASSUME Control, NEW c \in Clients, NEW w \in Writes, Execute(c, w)
  PROVE  Control'
<1> USE DEF Control
<1>1. /\ history' \in Seq(Write) /\ Len(history') = Len(history) + 1
      /\ Len(history) \in Nat
      /\ \A k \in 1 .. Len(history) : history'[k] = history[k]
      /\ history'[Len(history) + 1] = w /\ w.client = c
  BY AppendShape, AofAssumption DEF Execute, Types
<1>2. /\ cpc' = [cpc EXCEPT ![c] = "log"] /\ cpc[c] = "idle" /\ phase # "down"
      /\ cur' = [cur EXCEPT ![c] = Len(history) + 1]
      /\ barrier = None /\ None \notin Clients
      /\ UNCHANGED <<policy, barrier, acked, chan, wpc, job, buffer, file, synced,
                     phase, calls, restarts, faults>>
  BY Zenon, AofAssumption DEF Execute, Move, Running, writerVars, diskVars, boundVars
<1>3. UNCHANGED <<writable, due, lost>>
  BY Zenon DEF Execute, writerVars, diskVars
<1>4. Flags'
  BY <1>3, Zenon DEF Flags
<1>5. Types'
  <2>1. "log" \in CPCs
    BY Zenon DEF CPCs
  <2>2. cpc' \in [Clients -> CPCs]
    BY Zenon, <1>2, <2>1 DEF Types
  <2>3. cur' \in [Clients -> Nat]
    <3>1. cur \in [Clients -> Nat] /\ Len(history) + 1 \in Nat
      BY <1>1 DEF Types
    <3>2. cur' = [cur EXCEPT ![c] = Len(history) + 1]
      BY Zenon, <1>2
    <3> QED BY Zenon, <3>1, <3>2
  <2> QED BY Zenon, <1>1, <1>2, <2>2, <2>3 DEF Types
<1>6. FileIds' /\ BufferIds'
  <2>1. /\ Len(history') \in Nat /\ Len(history') >= Len(history)
        /\ UNCHANGED <<file, buffer>>
    BY <1>1, <1>2
  <2> QED BY Zenon, <2>1, GrownHistory
<1>7. SentIds'
  <2>1. \A k \in 1 .. Len(chan) :
          chan[k].kind = "record" => chan[k].id \in 1 .. Len(history')
    BY <1>1 DEF Ids, SentIds
  <2>2. ASSUME NEW d \in Clients, cpc'[d] = "log"
        PROVE  cur'[d] \in 1 .. Len(history') /\ history'[cur'[d]].client = d
    <3>1. CASE d = c
      BY <1>1, <1>2, <3>1 DEF Types
    <3>2. CASE d # c
      <4>1. cpc[d] = "log" /\ cur'[d] = cur[d]
        BY Zenon, <1>2, <2>2, <3>2 DEF Types
      <4> QED BY <1>1, <4>1 DEF Ids, SentIds
    <3> QED BY Zenon, <3>1, <3>2
  <2> QED BY Zenon, <1>2, <2>1, <2>2 DEF SentIds
<1>8. Barred'
  BY Zenon, <1>1, <1>2 DEF Types, Barred, Waiting, Asks
<1>9. Waiting' /\ Stopping' /\ Dead'
  BY <1>2 DEF Types, Waiting, Asks, Stopping, Dead
<1>10. Io'
  BY Zenon, <1>2, <1>3 DEF Io
<1> QED BY Zenon, <1>4, <1>5, <1>6, <1>7, <1>8, <1>9, <1>10 DEF Ids

\* The shutdown message is sent once, after the drain.
LEMMA ShutdownControl ==
  ASSUME Control, ShutdownSignal \/ ShutdownPersistence
  PROVE  Control'
<1> USE DEF Control
<1>1. /\ UNCHANGED <<policy, history, barrier, cpc, cur, acked, wpc, job, buffer, file,
                     synced, calls, restarts, faults>>
      /\ phase \in {"up", "draining"} /\ phase' \in {"draining", "clean", "forced"}
      /\ phase' = "clean" => \A c \in Clients : cpc[c] = "closed"
      /\ \/ chan' = chan /\ phase' = "draining"
         \/ /\ chan' = Append(chan, Shutdown) /\ Len(chan) < Cap
            /\ phase' \in {"clean", "forced"} /\ wpc # "stopped"
  BY Zenon DEF ShutdownSignal, ShutdownPersistence, Send, Open, Room, clientVars, writerVars,
     diskVars, boundVars
<1>2. UNCHANGED <<writable, due, lost>>
  BY Zenon DEF ShutdownSignal, ShutdownPersistence, writerVars, diskVars
<1>3. Flags'
  BY <1>2, Zenon DEF Flags
<1>4. /\ chan' \in Seq(Message) /\ Len(chan) \in Nat /\ Len(chan') \in Nat
      /\ Len(chan) <= Len(chan') /\ Len(chan') <= Cap
      /\ \A k \in 1 .. Len(chan) : chan'[k] = chan[k]
      /\ \A k \in 1 .. Len(chan') :
           \/ k \in 1 .. Len(chan)
           \/ chan'[k] = Shutdown /\ k = Len(chan') /\ phase' # "draining"
  <2>1. Shutdown \in Message
    BY Zenon DEF Shutdown, Message
  <2>2. chan \in Seq(Message) /\ Len(chan) \in Nat /\ Len(chan) <= Cap /\ Cap \in Nat
    BY AofAssumption DEF Types
  <2>3. CASE chan' = chan
    BY <2>2, <2>3
  <2>4. CASE /\ chan' = Append(chan, Shutdown) /\ Len(chan) < Cap
             /\ phase' \in {"clean", "forced"}
    <3>1. /\ chan' \in Seq(Message) /\ Len(chan') = Len(chan) + 1
          /\ \A k \in 1 .. Len(chan) : chan'[k] = chan[k]
          /\ chan'[Len(chan) + 1] = Shutdown
      BY <2>1, <2>2, <2>4, AppendShape
    <3> QED BY <2>2, <2>4, <3>1
  <2> QED BY Zenon, <1>1, <2>3, <2>4
<1>5. Types'
  BY Zenon, <1>1, <1>4 DEF Types, Phases
<1>0. ASSUME NEW k \in 1 .. Len(chan')
      PROVE  /\ chan'[k].kind # "shutdown" => k \in 1 .. Len(chan) /\ chan'[k] = chan[k]
             /\ chan'[k].kind = "shutdown" => k = Len(chan') /\ phase' # "draining"
  <2>1. CASE k \in 1 .. Len(chan)
    BY Zenon, <1>1, <1>4, <2>1 DEF Stopping
  <2>2. CASE chan'[k] = Shutdown /\ k = Len(chan') /\ phase' # "draining"
    BY <2>2 DEF Shutdown
  <2> QED BY Zenon, <1>4, <2>1, <2>2
<1>6. Ids' /\ Barred'
  <2>1. FileIds' /\ BufferIds'
    BY Zenon, <1>1 DEF Ids, FileIds, BufferIds
  <2>2. SentIds'
    BY Zenon, <1>0, <1>1 DEF Ids, SentIds
  <2>3. Barred'
    BY Zenon, <1>0, <1>1 DEF Barred
  <2> QED BY Zenon, <2>1, <2>2, <2>3 DEF Ids
<1>7. Waiting'
  <2>1. \A k \in 1 .. Len(chan') :
          Asks(chan'[k]) => k \in 1 .. Len(chan) /\ chan'[k] = chan[k]
    BY Zenon, <1>0 DEF Asks
  <2> QED BY <1>1, <2>1 DEF Waiting
<1>8. Stopping' /\ Dead'
  <2>1. job.kind # "shutdown" /\ wpc # "stopped"
    BY Zenon, <1>1 DEF Stopping
  <2> QED BY Zenon, <1>0, <1>1, <2>1 DEF Stopping, Dead
<1>9. Io'
  BY Zenon, <1>1, <1>2 DEF Io
<1> QED BY Zenon, <1>3, <1>5, <1>6, <1>7, <1>8, <1>9

=============================================================================
