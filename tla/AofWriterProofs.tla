--------------------------- MODULE AofWriterProofs ---------------------------
(***************************************************************************)
(* The writer task and the end of the process keep the control part of the *)
(* inductive invariant.                                                    *)
(***************************************************************************)
EXTENDS AofControlProofs

\* The obligations are easy but many: more than the default time for each.
USE SMTT(30)

-----------------------------------------------------------------------------
(* Control: the writer *)

\* A message is taken from the front.
LEMMA Received ==
  ASSUME Types, NEW kinds, Receive(kinds)
  PROVE  /\ phase # "down" /\ wpc = "recv"
         /\ Head(chan) = chan[1] /\ chan[1] \in Message /\ chan[1].kind \in kinds
         /\ 1 \in 1 .. Len(chan) /\ Len(chan) \in Nat
         /\ chan' \in Seq(Message) /\ Len(chan') = Len(chan) - 1
         /\ \A k \in 1 .. Len(chan') : k + 1 \in 1 .. Len(chan) /\ chan'[k] = chan[k + 1]
BY TailShape DEF Types, Receive, Running

\* What holds of the messages in the channel holds of the rest of them.
LEMMA ReceiveControl ==
  ASSUME Control, NEW kinds, Receive(kinds),
         UNCHANGED <<history, barrier, cpc, cur, phase>>
  PROVE  /\ SentIds' /\ Barred'
         /\ \A k \in 1 .. Len(chan') :
              /\ Asks(chan'[k]) =>
                   /\ chan'[k].by \in Clients /\ cpc[chan'[k].by] = "await"
                   /\ Asks(chan[1]) => chan'[k].by # chan[1].by
                   /\ job.kind = "flush" => chan'[k].by # job.by
              /\ phase \in {"up", "draining"} => chan'[k].kind # "shutdown"
              /\ phase = "clean" =>
                   /\ chan'[k].kind = "shutdown" => k = Len(chan')
                   /\ chan[1].kind # "shutdown"
         /\ \A k, l \in 1 .. Len(chan') :
              Asks(chan'[k]) /\ Asks(chan'[l]) /\ k # l => chan'[k].by # chan'[l].by
<1> USE DEF Control
<1>1. /\ 1 \in 1 .. Len(chan) /\ Len(chan) \in Nat /\ Len(chan') = Len(chan) - 1
      /\ \A k \in 1 .. Len(chan') : k + 1 \in 1 .. Len(chan) /\ chan'[k] = chan[k + 1]
  BY Zenon, Received
<1>2. ASSUME NEW k \in 1 .. Len(chan')
      PROVE  /\ k + 1 \in 1 .. Len(chan) /\ chan'[k] = chan[k + 1] /\ k + 1 # 1
             /\ k + 1 = Len(chan) => k = Len(chan')
             /\ 1 # Len(chan)
  BY <1>1
<1>3. SentIds'
  BY <1>2 DEF Ids, SentIds
<1>4. Barred'
  BY Zenon, <1>2 DEF Barred
<1>5. ASSUME NEW k \in 1 .. Len(chan')
      PROVE  /\ Asks(chan'[k]) =>
                  /\ chan'[k].by \in Clients /\ cpc[chan'[k].by] = "await"
                  /\ Asks(chan[1]) => chan'[k].by # chan[1].by
                  /\ job.kind = "flush" => chan'[k].by # job.by
             /\ phase \in {"up", "draining"} => chan'[k].kind # "shutdown"
             /\ phase = "clean" =>
                  /\ chan'[k].kind = "shutdown" => k = Len(chan')
                  /\ chan[1].kind # "shutdown"
  <2> DEFINE j == k + 1
  <2>1. /\ j \in 1 .. Len(chan) /\ chan'[k] = chan[j] /\ j # 1
        /\ j = Len(chan) => k = Len(chan')
        /\ 1 # Len(chan)
    BY Zenon, <1>2
  <2> HIDE DEF j
  <2>2. Asks(chan[j]) =>
          /\ chan[j].by \in Clients /\ cpc[chan[j].by] = "await"
          /\ Asks(chan[1]) => chan[j].by # chan[1].by
          /\ job.kind = "flush" => chan[j].by # job.by
    BY Zenon, <1>1, <2>1 DEF Waiting
  <2>3. /\ phase \in {"up", "draining"} => chan[j].kind # "shutdown"
        /\ phase = "clean" =>
             /\ chan[j].kind = "shutdown" => j = Len(chan)
             /\ chan[1].kind # "shutdown"
    BY Zenon, <1>1, <2>1 DEF Stopping
  <2> QED BY Zenon, <2>1, <2>2, <2>3
<1>6. ASSUME NEW k \in 1 .. Len(chan'), NEW l \in 1 .. Len(chan'),
             Asks(chan'[k]), Asks(chan'[l]), k # l
      PROVE  chan'[k].by # chan'[l].by
  <2>1. k + 1 \in 1 .. Len(chan) /\ l + 1 \in 1 .. Len(chan) /\ k + 1 # l + 1
    BY <1>1, <1>6
  <2>2. Asks(chan[k + 1]) /\ Asks(chan[l + 1])
    BY Zenon, <1>2, <1>6
  <2> QED BY <1>2, <2>1, <2>2 DEF Waiting
<1> QED BY Zenon, <1>3, <1>4, <1>5, <1>6

\* The writer buffers a record.
LEMMA WriterRecordControl ==
  ASSUME Control, WriterRecord
  PROVE  Control'
<1> USE DEF Control
<1>1. /\ phase # "down" /\ wpc = "recv"
      /\ Head(chan) = chan[1] /\ chan[1] \in Message /\ chan[1].kind = "record"
      /\ 1 \in 1 .. Len(chan) /\ Len(chan) \in Nat
      /\ chan' \in Seq(Message) /\ Len(chan') = Len(chan) - 1
      /\ \A k \in 1 .. Len(chan') : k + 1 \in 1 .. Len(chan) /\ chan'[k] = chan[k + 1]
  BY Received DEF WriterRecord
<1>2. /\ UNCHANGED <<policy, history, barrier, cpc, cur, acked, file, synced, phase,
                     calls, restarts, faults>>
      /\ buffer' = Append(buffer, chan[1].id)
      /\ wpc' \in {"recv", "write"} /\ job' \in {job, chan[1]}
  BY Zenon, <1>1 DEF WriterRecord, clientVars, diskVars, boundVars
<1>3. UNCHANGED <<writable, due, lost>>
  BY Zenon DEF WriterRecord, diskVars
<1>4. Flags'
  BY <1>3, Zenon DEF Flags
<1>5. /\ chan[1].id \in Nat /\ buffer' \in Seq(Nat) /\ Len(buffer') = Len(buffer) + 1
      /\ Len(buffer) \in Nat
      /\ \A k \in 1 .. Len(buffer) : buffer'[k] = buffer[k]
      /\ buffer'[Len(buffer) + 1] = chan[1].id
  <2>1. chan[1].id \in Nat
    BY Zenon, <1>1 DEF Message
  <2> QED BY <1>2, <2>1, AppendShape DEF Types
<1>6. Types'
  BY <1>1, <1>2, <1>5, AofAssumption DEF Types, WPCs
<1>7. FileIds' /\ BufferIds'
  BY <1>1, <1>2, <1>5 DEF Ids, FileIds, BufferIds, SentIds
<1>0. /\ SentIds' /\ Barred'
      /\ \A k \in 1 .. Len(chan') :
           /\ Asks(chan'[k]) =>
                /\ chan'[k].by \in Clients /\ cpc[chan'[k].by] = "await"
                /\ job.kind = "flush" => chan'[k].by # job.by
           /\ phase \in {"up", "draining"} => chan'[k].kind # "shutdown"
           /\ phase = "clean" => (chan'[k].kind = "shutdown" => k = Len(chan'))
      /\ \A k, l \in 1 .. Len(chan') :
           Asks(chan'[k]) /\ Asks(chan'[l]) /\ k # l => chan'[k].by # chan'[l].by
  BY Zenon, <1>2, ReceiveControl DEF WriterRecord
<1>8. job'.kind = "flush" => job' = job
  BY Zenon, <1>1, <1>2
<1>9. Waiting'
  BY Zenon, <1>0, <1>2, <1>8 DEF Waiting
<1>10. Stopping' /\ Dead'
  <2>1. chan # <<>> /\ (job'.kind = "shutdown" => job' = job)
    BY <1>1, <1>2
  <2> QED BY Zenon, <1>0, <1>1, <1>2, <2>1 DEF Stopping, Dead
<1>11. Io'
  BY Zenon, <1>1, <1>2, <1>3 DEF Io
<1> QED BY Zenon, <1>0, <1>4, <1>6, <1>7, <1>9, <1>10, <1>11 DEF Ids

\* The writer begins the flush a message asks for.
LEMMA WriterFlushControl ==
  ASSUME Control, WriterFlush
  PROVE  Control'
<1> USE DEF Control
<1>1. /\ phase # "down" /\ wpc = "recv"
      /\ Head(chan) = chan[1] /\ chan[1] \in Message
      /\ chan[1].kind \in {"flush", "shutdown"}
      /\ 1 \in 1 .. Len(chan) /\ Len(chan) \in Nat
      /\ chan' \in Seq(Message) /\ Len(chan') = Len(chan) - 1
      /\ \A k \in 1 .. Len(chan') : k + 1 \in 1 .. Len(chan) /\ chan'[k] = chan[k + 1]
  BY Zenon, Received DEF WriterFlush
<1>2. /\ UNCHANGED <<policy, history, barrier, cpc, cur, acked, buffer, file, synced,
                     phase, calls, restarts, faults>>
      /\ wpc' = "write" /\ job' = chan[1]
  BY Zenon, <1>1 DEF WriterFlush, clientVars, diskVars, boundVars
<1>3. UNCHANGED <<writable, due, lost>>
  BY Zenon DEF WriterFlush, diskVars
<1>4. Flags'
  BY <1>3, Zenon DEF Flags
<1>5. Types'
  BY <1>1, <1>2, AofAssumption DEF Types, WPCs
<1>0. /\ SentIds' /\ Barred'
      /\ \A k \in 1 .. Len(chan') :
           /\ Asks(chan'[k]) =>
                /\ chan'[k].by \in Clients /\ cpc[chan'[k].by] = "await"
                /\ Asks(chan[1]) => chan'[k].by # chan[1].by
           /\ phase \in {"up", "draining"} => chan'[k].kind # "shutdown"
           /\ phase = "clean" =>
                /\ chan'[k].kind = "shutdown" => k = Len(chan')
                /\ chan[1].kind # "shutdown"
      /\ \A k, l \in 1 .. Len(chan') :
           Asks(chan'[k]) /\ Asks(chan'[l]) /\ k # l => chan'[k].by # chan'[l].by
  BY Zenon, <1>2, ReceiveControl DEF WriterFlush
<1>6. Ids'
  BY Zenon, <1>0, <1>2 DEF Ids, FileIds, BufferIds
<1>7. Waiting'
  <2>1. chan[1].kind = "flush" =>
          Asks(chan[1]) /\ chan[1].by \in Clients /\ cpc[chan[1].by] = "await"
    BY Zenon, <1>1 DEF Waiting, Asks
  <2> QED BY Zenon, <1>0, <1>2, <2>1 DEF Waiting
<1>8. Stopping' /\ Dead'
  <2>1. phase \in {"up", "draining"} => chan[1].kind # "shutdown"
    BY Zenon, <1>1 DEF Stopping
  <2>2. phase = "clean" /\ chan[1].kind = "shutdown" => chan' = <<>>
    <3>1. phase = "clean" /\ chan[1].kind = "shutdown" => Len(chan') = 0
      BY <1>0, <1>1
    <3>2. \A s \in Seq(Message) : Len(s) = 0 => s = <<>>
      OBVIOUS
    <3> QED BY Zenon, <1>1, <3>1, <3>2
  <2> QED BY Zenon, <1>0, <1>1, <1>2, <2>1, <2>2 DEF Stopping, Dead
<1>9. Io'
  BY Zenon, <1>1, <1>2, <1>3 DEF Io
<1> QED BY Zenon, <1>0, <1>4, <1>5, <1>6, <1>7, <1>8, <1>9

\* A swap is sent with the whole store, which does not change until it is made.
LEMMA WriterSwapControl ==
  ASSUME Control, WriterSwap
  PROVE  Control'
<1> USE DEF Control
<1>1. /\ phase # "down" /\ wpc = "recv"
      /\ Head(chan) = chan[1] /\ chan[1] \in Message /\ chan[1].kind = "swap"
      /\ 1 \in 1 .. Len(chan) /\ Len(chan) \in Nat
      /\ chan' \in Seq(Message) /\ Len(chan') = Len(chan) - 1
      /\ \A k \in 1 .. Len(chan') : k + 1 \in 1 .. Len(chan) /\ chan'[k] = chan[k + 1]
  BY Received DEF WriterSwap
<1> DEFINE d == chan[1].by
           n == chan[1].id
<1>2. /\ d \in Clients /\ cpc[d] = "await" /\ barrier = d /\ n = Len(history)
      /\ n \in Nat /\ Asks(chan[1])
      /\ job.kind = "flush" => job.by # d
  BY Zenon, <1>1 DEF Waiting, Barred, Asks, Message
<1>3. /\ UNCHANGED <<policy, history, barrier, cur, acked, wpc, job, phase, calls,
                     restarts>>
      /\ buffer' = <<>> /\ cpc' = [cpc EXCEPT ![d] = "replied"]
      /\ faults' \in Nat /\ faults' >= faults
      /\ \/ file' = <<Snap(n)>> /\ synced' = 1
         \/ file' = file /\ synced' = synced
  <2>1. /\ UNCHANGED <<policy, history, barrier, cur, acked, wpc, job, phase, calls,
                       restarts>>
        /\ buffer' = <<>> /\ cpc' = [cpc EXCEPT ![d] = "replied"]
    BY Zenon, <1>1 DEF WriterSwap, Move
  <2>2. faults' = faults \/ faults' = faults + 1
    BY Zenon DEF WriterSwap, SwapFails
  <2>3. \/ file' = <<Snap(n)>> /\ synced' = 1
        \/ file' = file /\ synced' = synced
    BY Zenon, <1>1 DEF WriterSwap, SwapFails
  <2>4. faults \in Nat
    BY Zenon DEF Types
  <2> QED BY <2>1, <2>2, <2>3, <2>4
<1>4. Flags'
  <2>1. writable' \in {TRUE, FALSE, writable} /\ due' \in {FALSE, due}
    BY Zenon DEF WriterSwap, SwapFails
  <2>2. lost' = {} \/ lost' = lost \cup Range(buffer)
    BY Zenon DEF WriterSwap, SwapFails
  <2>3. Range(buffer) \subseteq Nat
    BY DEF Types, Range
  <2>4. lost' \subseteq Nat
    BY Zenon, <2>2, <2>3 DEF Flags
  <2> QED BY <2>1, <2>4, Zenon DEF Flags
<1>5. Io'
  <2>1. lost' # {} \/ ~writable' => faults' > 0
    <3>1. (lost' = {} /\ writable' = TRUE) \/ faults' = faults + 1
      BY Zenon DEF WriterSwap, SwapFails
    <3>2. faults \in Nat
      BY DEF Types
    <3>3. faults' = faults + 1 => faults' > 0
      BY <3>2
    <3> QED BY Zenon, <3>1, <3>3
  <2> QED BY Zenon, <1>1, <1>3, <2>1 DEF Io
<1> HIDE DEF d, n
<1>6. /\ file' \in Seq(Frame) /\ synced' \in 0 .. Len(file') /\ FileIds'
  <2>1. CASE file' = <<Snap(n)>> /\ synced' = 1
    <3>1. Snap(n) \in Frame
      BY Zenon, <1>2 DEF Snap, Frame
    <3>2. file' \in Seq(Frame) /\ Len(file') = 1 /\ file'[1] = Snap(n)
      BY <2>1, <3>1
    <3>3. FileIds'
      BY <1>2, <1>3, <3>2 DEF FileIds, Snap
    <3> QED BY <2>1, <3>2, <3>3
  <2>2. CASE file' = file /\ synced' = synced
    BY Zenon, <1>3, <2>2 DEF Types, Ids, FileIds
  <2> QED BY Zenon, <1>3, <2>1, <2>2
<1>7. Types'
  <2>1. cpc' \in [Clients -> CPCs] /\ buffer' \in Seq(Nat)
    <3>1. "replied" \in CPCs
      BY Zenon DEF CPCs
    <3>2. cpc' \in [Clients -> CPCs]
      BY Zenon, <1>3, <3>1 DEF Types
    <3> QED BY <1>3, <3>2
  <2>2. chan' \in Seq(Message) /\ Len(chan') <= Cap
    BY <1>1, AofAssumption DEF Types
  <2> QED BY Zenon, <1>3, <1>6, <2>1, <2>2 DEF Types
<1>8. ASSUME NEW k \in 1 .. Len(chan')
      PROVE  /\ k + 1 \in 1 .. Len(chan) /\ k + 1 # 1 /\ chan'[k] = chan[k + 1]
             /\ Asks(chan'[k]) => /\ chan'[k].by \in Clients /\ chan'[k].by # d
                                  /\ cpc[chan'[k].by] = "await"
  <2>1. k + 1 \in 1 .. Len(chan) /\ k + 1 # 1 /\ chan'[k] = chan[k + 1]
    BY <1>1
  <2>2. Asks(chan[k + 1]) => /\ chan[k + 1].by \in Clients /\ chan[k + 1].by # d
                             /\ cpc[chan[k + 1].by] = "await"
    BY Zenon, <1>1, <1>2, <2>1 DEF Waiting, d
  <2> QED BY Zenon, <2>1, <2>2
<1>9. \A c \in Clients : c # d => cpc'[c] = cpc[c]
  BY Zenon, <1>3 DEF Types
<1>10. cpc'[d] = "replied"
  BY Zenon, <1>2, <1>3 DEF Types
<1>11. SentIds' /\ BufferIds'
  <2>1. BufferIds'
    BY <1>3 DEF BufferIds
  <2>2. \A k \in 1 .. Len(chan') :
          chan'[k].kind = "record" => chan'[k].id \in 1 .. Len(history)
    BY <1>8 DEF Ids, SentIds
  <2>3. \A c \in Clients : cpc'[c] = "log" => cpc[c] = "log"
    BY Zenon, <1>9, <1>10
  <2> QED BY Zenon, <1>3, <2>1, <2>2, <2>3 DEF Ids, SentIds
<1>12. Barred'
  BY <1>3, <1>8, <1>9, <1>10 DEF Barred
<1>13. Waiting'
  <2>1. ASSUME NEW k \in 1 .. Len(chan'), NEW l \in 1 .. Len(chan'),
               Asks(chan'[k]), Asks(chan'[l]), k # l
        PROVE  chan'[k].by # chan'[l].by
    <3>1. k + 1 # l + 1
      BY <2>1
    <3> QED BY <1>8, <2>1, <3>1 DEF Waiting
  <2>2. \A k \in 1 .. Len(chan') :
          Asks(chan'[k]) /\ job.kind = "flush" => chan'[k].by # job.by
    BY Zenon, <1>8 DEF Waiting
  <2> QED BY <1>2, <1>3, <1>8, <1>9, <2>1, <2>2 DEF Waiting
<1>14. Stopping' /\ Dead'
  <2>1. phase # "clean"
    BY Zenon, <1>2 DEF Stopping
  <2> QED BY Zenon, <1>1, <1>3, <1>8, <2>1 DEF Stopping, Dead
<1> QED BY Zenon, <1>4, <1>5, <1>6, <1>7, <1>11, <1>12, <1>13, <1>14 DEF Ids

\* The periodic flush begins, or another second is due.
LEMMA TickControl ==
  ASSUME Control, PeriodicFlush \/ Second
  PROVE  Control'
<1> USE DEF Control
<1>1. /\ UNCHANGED <<policy, history, barrier, cpc, cur, acked, chan, buffer, file, synced,
                     phase, calls, restarts, faults>>
      /\ phase # "down" /\ wpc # "stopped"
      /\ \/ wpc' = wpc /\ job' = job
         \/ wpc' = "write" /\ job' = Tick
  BY Zenon DEF PeriodicFlush, Second, Running, Open, clientVars, diskVars, boundVars
<1>2. UNCHANGED <<writable, lost>> /\ due' \in {TRUE, due}
  BY Zenon DEF PeriodicFlush, Second, diskVars
<1>3. Flags'
  BY <1>2, Zenon DEF Flags
<1>4. Types'
  BY <1>1, AofAssumption DEF Types, WPCs, Tick, Message
<1>5. Ids' /\ Barred' /\ Dead'
  BY Zenon, <1>1 DEF Ids, FileIds, BufferIds, SentIds, Barred, Dead
<1>6. Waiting' /\ Stopping'
  <2>1. job' = job \/ job'.kind = "tick"
    BY <1>1 DEF Tick
  <2>2. Waiting'
    BY <1>1, <2>1 DEF Waiting
  <2>3. wpc' # "stopped"
    BY Zenon, <1>1
  <2>4. Stopping'
    BY Zenon, <1>1, <2>1, <2>3 DEF Stopping
  <2> QED BY Zenon, <2>2, <2>4
<1>7. Io'
  BY Zenon, <1>1, <1>2 DEF Io
<1> QED BY Zenon, <1>3, <1>4, <1>5, <1>6, <1>7

\* The end of a flush answers the one who asked for it and nobody else; a
\* shutdown releases all who wait and empties the channel.
LEMMA FlushDoneControl ==
  ASSUME Control, FlushDone, phase # "down", UNCHANGED <<history, barrier, cur, phase>>
  PROVE  /\ SentIds' /\ Barred' /\ Waiting' /\ Stopping' /\ Dead'
         /\ cpc' \in [Clients -> CPCs]
         /\ chan' \in Seq(Message) /\ Len(chan') <= Cap
         /\ job' \in Message /\ wpc' \in {"recv", "stopped"}
         /\ job.kind # "shutdown" => chan' = chan /\ wpc' = "recv"
         /\ job.kind = "shutdown" => chan' = <<>> /\ wpc' = "stopped"
         /\ \A c \in Clients : (cpc'[c] = "log") = (cpc[c] = "log")
<1> USE DEF Control
<1>0. /\ cpc \in [Clients -> CPCs] /\ chan \in Seq(Message) /\ Len(chan) <= Cap
      /\ Cap \in Nat /\ "replied" \in CPCs
  BY Zenon, AofAssumption DEF Types, CPCs
<1>1. job' = Tick /\ job'.kind = "tick" /\ job' \in Message
  BY Zenon DEF FlushDone, Tick, Message
<1>2. CASE job.kind = "flush"
  <2>1. /\ wpc' = "recv" /\ cpc' = [cpc EXCEPT ![job.by] = "replied"] /\ chan' = chan
        /\ job.by \in Clients /\ cpc[job.by] = "await"
        /\ \A k \in 1 .. Len(chan) : Asks(chan[k]) => chan[k].by # job.by
    BY Zenon, <1>2 DEF FlushDone, Move, Waiting
  <2>2. \A c \in Clients : c # job.by => cpc'[c] = cpc[c]
    BY Zenon, <1>0, <2>1
  <2>3. cpc'[job.by] = "replied" /\ cpc' \in [Clients -> CPCs]
    BY Zenon, <1>0, <2>1
  <2>4. SentIds' /\ Barred'
    BY Zenon, <2>1, <2>2, <2>3 DEF Ids, SentIds, Barred
  <2>5. Waiting'
    BY <1>1, <2>1, <2>2 DEF Waiting
  <2>6. Stopping' /\ Dead'
    <3>1. phase # "clean"
      BY Zenon, <2>1 DEF Stopping
    <3> QED BY Zenon, <1>1, <2>1, <3>1 DEF Stopping, Dead
  <2> QED BY Zenon, <1>0, <1>1, <1>2, <2>1, <2>2, <2>3, <2>4, <2>5, <2>6
<1>3. CASE job.kind = "shutdown"
  <2>1. /\ wpc' = "stopped" /\ chan' = <<>>
        /\ cpc' = [c \in Clients |-> IF cpc[c] = "await" THEN "replied" ELSE cpc[c]]
    BY Zenon, <1>3 DEF FlushDone
  <2>2. /\ cpc' \in [Clients -> CPCs]
        /\ \A c \in Clients : cpc'[c] = IF cpc[c] = "await" THEN "replied" ELSE cpc[c]
    BY Zenon, <1>0, <2>1
  <2>3. chan' \in Seq(Message) /\ Len(chan') = 0 /\ Len(chan') <= Cap
    BY <1>0, <2>1
  <2>4. SentIds' /\ Barred'
    BY <2>2, <2>3 DEF Ids, SentIds, Barred
  <2>5. Waiting'
    BY <1>1, <2>3 DEF Waiting
  <2>6. Stopping' /\ Dead'
    BY Zenon, <1>1, <1>3, <2>1, <2>2, <2>3 DEF Stopping, Dead
  <2> QED BY Zenon, <1>1, <1>3, <2>1, <2>2, <2>3, <2>4, <2>5, <2>6
<1>4. CASE job.kind \notin {"flush", "shutdown"}
  <2>1. wpc' = "recv" /\ chan' = chan /\ cpc' = cpc
    BY Zenon, <1>4 DEF FlushDone
  <2>2. SentIds' /\ Barred' /\ Waiting'
    BY <1>1, <2>1 DEF Ids, SentIds, Barred, Waiting
  <2>3. Stopping' /\ Dead'
    BY Zenon, <1>1, <2>1 DEF Stopping, Dead
  <2> QED BY Zenon, <1>0, <1>1, <1>4, <2>1, <2>2, <2>3
<1> QED BY Zenon, <1>2, <1>3, <1>4

\* The file after a write, whole or not: what there was, frames of the buffer,
\* perhaps half a frame.
Extends(f, a, ids) == \E tail \in {<<>>, <<Torn>>} : f = a \o Frames(ids) \o tail

\* Types and lengths of a file extended by frames.
LEMMA Extended ==
  ASSUME NEW a \in Seq(Frame), NEW ids \in Seq(Nat), NEW f, Extends(f, a, ids)
  PROVE  /\ f \in Seq(Frame) /\ Len(f) \in Nat /\ Len(a) \in Nat /\ Len(ids) \in Nat
         /\ Len(f) >= Len(a) + Len(ids)
         /\ \A k \in 1 .. Len(a) : f[k] = a[k]
         /\ \A k \in 1 .. Len(ids) : f[Len(a) + k] = Cmd(ids[k])
         /\ \A k \in 1 .. Len(f) :
              \/ k \in 1 .. Len(a)
              \/ k > Len(a) /\ k - Len(a) \in 1 .. Len(ids)
              \/ k > Len(a) + Len(ids) /\ f[k] = Torn
<1>0. PICK tail \in {<<>>, <<Torn>>} : f = a \o Frames(ids) \o tail
  BY Zenon DEF Extends
<1> DEFINE b == Frames(ids)
           ab == a \o b
<1>1. /\ b \in Seq(Frame) /\ Len(b) = Len(ids)
      /\ \A k \in 1 .. Len(ids) : b[k] = Cmd(ids[k])
  BY Zenon, FramesShape
<1>2. tail \in Seq(Frame) /\ (\A k \in 1 .. Len(tail) : tail[k] = Torn)
  <2>1. Torn \in Frame
    BY Zenon DEF Torn, Frame
  <2> HIDE DEF Torn
  <2>2. CASE tail = <<>>
    BY <2>2
  <2>3. CASE tail = <<Torn>>
    BY <2>1, <2>3
  <2> QED BY Zenon, <2>2, <2>3
<1>3. Len(a) \in Nat /\ Len(ids) \in Nat /\ Len(tail) \in Nat
  BY <1>2
<1> HIDE DEF b
<1>4. /\ ab \in Seq(Frame) /\ Len(ab) = Len(a) + Len(ids)
      /\ \A k \in 1 .. Len(a) : ab[k] = a[k]
      /\ \A k \in 1 .. Len(ids) : ab[Len(a) + k] = b[k]
  <2>1. /\ ab \in Seq(Frame) /\ Len(ab) = Len(a) + Len(b)
        /\ \A k \in 1 .. Len(a) : ab[k] = a[k]
        /\ \A k \in 1 .. Len(b) : ab[Len(a) + k] = b[k]
    <3>1. b \in Seq(Frame)
      BY Zenon, <1>1
    <3> QED BY <3>1, ConcatShape
  <2> HIDE DEF ab
  <2> QED BY Zenon, <1>1, <2>1
<1> HIDE DEF ab
<1>5. /\ f \in Seq(Frame) /\ Len(f) = Len(ab) + Len(tail)
      /\ \A k \in 1 .. Len(ab) : f[k] = ab[k]
      /\ \A k \in 1 .. Len(tail) : f[Len(ab) + k] = tail[k]
  <2>1. f = ab \o tail
    BY Zenon, <1>0 DEF ab, b
  <2>2. ab \in Seq(Frame) /\ tail \in Seq(Frame)
    BY Zenon, <1>2, <1>4
  <2>3. /\ ab \o tail \in Seq(Frame) /\ Len(ab \o tail) = Len(ab) + Len(tail)
        /\ \A k \in 1 .. Len(ab) : (ab \o tail)[k] = ab[k]
        /\ \A k \in 1 .. Len(tail) : (ab \o tail)[Len(ab) + k] = tail[k]
    BY <2>2, ConcatShape
  <2> QED BY Zenon, <2>1, <2>3
<1>6. \A k \in 1 .. Len(a) : f[k] = a[k]
  BY <1>3, <1>4, <1>5
<1>7. ASSUME NEW k \in 1 .. Len(ids) PROVE f[Len(a) + k] = Cmd(ids[k])
  <2>1. Len(a) + k \in 1 .. Len(ab)
    BY <1>3, <1>4
  <2> QED BY Zenon, <1>1, <1>4, <1>5, <2>1
<1>8. ASSUME NEW k \in 1 .. Len(f), k > Len(a) + Len(ids) PROVE f[k] = Torn
  <2>1. k - Len(ab) \in 1 .. Len(tail) /\ k = Len(ab) + (k - Len(ab))
    BY <1>3, <1>4, <1>5, <1>8
  <2> QED BY Zenon, <1>2, <1>5, <2>1
<1>9. /\ Len(f) \in Nat /\ Len(f) >= Len(a) + Len(ids)
  BY <1>3, <1>4, <1>5
<1>10. \A k \in 1 .. Len(f) :
         \/ k \in 1 .. Len(a)
         \/ k > Len(a) /\ k - Len(a) \in 1 .. Len(ids)
         \/ k > Len(a) + Len(ids)
  BY <1>3, <1>9
<1> QED BY Zenon, <1>3, <1>5, <1>6, <1>7, <1>8, <1>9, <1>10

\* A frame of the buffer names a mutation of history, so that a longer file is
\* as sound as the shorter one.
LEMMA ExtendedIds ==
  ASSUME Types, FileIds, NEW ids \in Seq(Nat),
         \A k \in 1 .. Len(ids) : ids[k] \in 1 .. Len(history),
         NEW f, Extends(f, file, ids), NEW k \in 1 .. Len(f)
  PROVE  /\ f[k].kind = "cmd" => f[k].id \in 1 .. Len(history)
         /\ f[k].kind = "snap" => k = 1 /\ f[k].id <= Len(history)
<1>1. file \in Seq(Frame)
  BY Zenon DEF Types
<1>2. /\ Len(file) \in Nat
      /\ \A l \in 1 .. Len(file) : f[l] = file[l]
      /\ \A l \in 1 .. Len(ids) : f[Len(file) + l] = Cmd(ids[l])
      /\ \/ k \in 1 .. Len(file)
         \/ k > Len(file) /\ k - Len(file) \in 1 .. Len(ids)
         \/ f[k] = Torn
  <2>1. /\ Len(file) \in Nat
        /\ \A l \in 1 .. Len(file) : f[l] = file[l]
        /\ \A l \in 1 .. Len(ids) : f[Len(file) + l] = Cmd(ids[l])
        /\ \A l \in 1 .. Len(f) :
             \/ l \in 1 .. Len(file)
             \/ l > Len(file) /\ l - Len(file) \in 1 .. Len(ids)
             \/ l > Len(file) + Len(ids) /\ f[l] = Torn
    BY <1>1, Extended
  <2> QED BY Zenon, <2>1
<1>3. CASE k \in 1 .. Len(file)
  BY Zenon, <1>2, <1>3 DEF FileIds
<1>4. CASE k - Len(file) \in 1 .. Len(ids)
  <2>1. f[k] = Cmd(ids[k - Len(file)])
    <3>1. k = Len(file) + (k - Len(file))
      BY <1>2, <1>4
    <3> QED BY Zenon, <1>2, <1>4, <3>1
  <2> QED BY <1>4, <2>1 DEF Cmd
<1>5. CASE f[k] = Torn
  BY <1>5 DEF Torn
<1> QED BY Zenon, <1>2, <1>3, <1>4, <1>5

\* The buffer is written, and synced later if the policy says so.
LEMMA FlushWriteControl ==
  ASSUME Control, FlushWrite
  PROVE  Control'
<1> USE DEF Control
<1>1. /\ UNCHANGED <<policy, history, barrier, cur, acked, synced, phase, calls, restarts,
                     faults>>
      /\ phase # "down" /\ wpc = "write" /\ buffer' = <<>>
      /\ file' = file \o Frames(buffer)
  BY Zenon DEF FlushWrite, Running, boundVars
<1>2. UNCHANGED <<writable, lost>> /\ due' \in {FALSE, due}
  BY Zenon DEF FlushWrite
<1>3. Flags'
  BY <1>2, Zenon DEF Flags
<1>4. /\ file' \in Seq(Frame) /\ synced' \in 0 .. Len(file') /\ FileIds' /\ BufferIds'
      /\ buffer' \in Seq(Nat)
  <2>1. file \in Seq(Frame) /\ buffer \in Seq(Nat) /\ synced \in 0 .. Len(file)
    BY Zenon DEF Types
  <2>2. Extends(file', file, buffer)
    <3>1. file \o Frames(buffer) \in Seq(Frame)
      BY Zenon, <2>1, FramesShape, ConcatShape
    <3>2. file' = file \o Frames(buffer) \o <<>>
      BY <1>1, <3>1
    <3> QED BY Zenon, <3>2 DEF Extends
  <2>3. file' \in Seq(Frame) /\ Len(file') \in Nat /\ Len(file) \in Nat
        /\ Len(buffer) \in Nat /\ Len(file') >= Len(file) + Len(buffer)
    BY Zenon, <2>1, <2>2, Extended
  <2>4. FileIds'
    <3>1. \A k \in 1 .. Len(buffer) : buffer[k] \in 1 .. Len(history)
      BY Zenon DEF Ids, BufferIds
    <3>2. ASSUME NEW k \in 1 .. Len(file')
          PROVE  /\ file'[k].kind = "cmd" => file'[k].id \in 1 .. Len(history)
                 /\ file'[k].kind = "snap" => k = 1 /\ file'[k].id <= Len(history)
      BY Zenon, <2>1, <2>2, <3>1, ExtendedIds DEF Ids
    <3> QED BY Zenon, <1>1, <3>2 DEF FileIds
  <2>5. buffer' \in Seq(Nat) /\ BufferIds'
    BY <1>1 DEF BufferIds
  <2> QED BY <1>1, <2>1, <2>3, <2>4, <2>5
<1>5. CASE policy = "never" /\ job.kind = "record"
  <2>1. FlushDone
    BY Zenon, <1>5 DEF FlushWrite
  <2>2. /\ SentIds' /\ Barred' /\ Waiting' /\ Stopping' /\ Dead'
        /\ cpc' \in [Clients -> CPCs]
        /\ chan' \in Seq(Message) /\ Len(chan') <= Cap
        /\ job' \in Message /\ wpc' = "recv"
    BY Zenon, <1>1, <1>5, <2>1, FlushDoneControl
  <2>3. Types'
    BY Zenon, <1>1, <1>4, <2>2 DEF Types, WPCs
  <2>4. Io'
    BY Zenon, <1>1, <1>2, <2>2 DEF Io
  <2> QED BY Zenon, <1>3, <1>4, <2>2, <2>3, <2>4 DEF Ids
<1>6. CASE ~(policy = "never" /\ job.kind = "record")
  <2>1. wpc' = "sync" /\ UNCHANGED <<chan, cpc, job>>
    BY Zenon, <1>6 DEF FlushWrite
  <2>2. Types'
    BY Zenon, <1>1, <1>4, <2>1 DEF Types, WPCs
  <2>3. SentIds' /\ Barred' /\ Waiting'
    BY ZenonT(30), <1>1, <2>1 DEF Ids, SentIds, Barred, Waiting
  <2>4. Stopping' /\ Dead'
    BY Zenon, <1>1, <2>1 DEF Stopping, Dead
  <2>5. Io'
    BY Zenon, <1>1, <1>2, <2>1 DEF Io
  <2> QED BY Zenon, <1>3, <1>4, <2>2, <2>3, <2>4, <2>5 DEF Ids
<1> QED BY Zenon, <1>5, <1>6

\* A part of the buffer, as long as it lasts.
LEMMA PartShape ==
  ASSUME NEW S, NEW s \in Seq(S), NEW n \in 0 .. Len(s)
  PROVE  /\ SubSeq(s, 1, n) \in Seq(S) /\ Len(SubSeq(s, 1, n)) = n
         /\ \A k \in 1 .. n : k \in 1 .. Len(s) /\ SubSeq(s, 1, n)[k] = s[k]
OBVIOUS

\* What a failed write leaves in the file.
LEMMA FailedWrite ==
  ASSUME Control, NEW n \in 0 .. Len(buffer) - 1, PartWritten(n)
  PROVE  /\ n \in 0 .. Len(buffer)
         /\ file' = file \/ Extends(file', file, SubSeq(buffer, 1, n))
         /\ faults' \in Nat /\ faults' > 0
<1>1. Len(buffer) \in Nat /\ faults \in Nat
  BY DEF Control, Types
<1>2. n \in 0 .. Len(buffer)
  BY <1>1
<1>3. CASE ~writable /\ UNCHANGED <<file, faults>>
  <2>1. faults > 0
    BY Zenon, <1>3 DEF Control, Io
  <2> QED BY Zenon, <1>1, <1>2, <1>3, <2>1
<1>4. CASE /\ faults' = faults + 1
           /\ \E tail \in {<<>>, <<Torn>>} :
                file' = file \o Frames(SubSeq(buffer, 1, n)) \o tail
  <2>1. Extends(file', file, SubSeq(buffer, 1, n))
    BY Zenon, <1>4 DEF Extends
  <2>2. faults' \in Nat /\ faults' > 0
    BY <1>1, <1>4
  <2> QED BY Zenon, <1>2, <2>1, <2>2
<1> QED BY Zenon, <1>3, <1>4 DEF PartWritten

\* What the two calls that can fail do to the buffer and to lost.
LEMMA FailedFlush ==
  ASSUME Control, WriteAllFails \/ FlushFails
  PROVE  \E n \in 0 .. Len(buffer) - 1 :
           /\ PartWritten(n)
           /\ \/ buffer' = buffer /\ lost' = lost
              \/ /\ buffer' = <<>>
                 /\ lost' = lost \cup {buffer[i] : i \in n + 1 .. Len(buffer)}
BY Zenon DEF WriteAllFails, FlushFails

\* A failed write keeps the buffer or drops it, and may leave part of it in the
\* file.
LEMMA FlushFailsControl ==
  ASSUME Control, WriteAllFails \/ FlushFails
  PROVE  Control'
<1>0. Flags /\ Types /\ FileIds /\ BufferIds /\ Stopping /\ Io
  BY Zenon DEF Control, Ids
<1>1. /\ UNCHANGED <<policy, history, barrier, cur, acked, synced, phase, calls,
                     restarts>>
      /\ phase # "down" /\ wpc = "write" /\ FlushDone
  BY Zenon DEF WriteAllFails, FlushFails, Running
<1>2. UNCHANGED <<writable, due>>
  BY Zenon DEF WriteAllFails, FlushFails
<1>3. PICK n \in 0 .. Len(buffer) - 1 :
        /\ PartWritten(n)
        /\ \/ buffer' = buffer /\ lost' = lost
           \/ /\ buffer' = <<>>
              /\ lost' = lost \cup {buffer[i] : i \in n + 1 .. Len(buffer)}
  BY Zenon, FailedFlush
<1>4. /\ n \in 0 .. Len(buffer)
      /\ file' = file \/ Extends(file', file, SubSeq(buffer, 1, n))
      /\ faults' \in Nat /\ faults' > 0
  BY Zenon, <1>3, FailedWrite
<1>5. /\ buffer' \in Seq(Nat) /\ BufferIds' /\ Flags'
  <2>1. buffer \in Seq(Nat) /\ lost \subseteq Nat
    BY Zenon, <1>0 DEF Types, Flags
  <2>2. {buffer[i] : i \in n + 1 .. Len(buffer)} \subseteq Nat
    BY <2>1, <1>4
  <2>3. lost' \subseteq Nat
    BY Zenon, <1>3, <2>1, <2>2
  <2>4. Flags'
    BY Zenon, <1>0, <1>2, <2>3 DEF Flags
  <2>5. CASE buffer' = buffer
    BY Zenon, <1>0, <1>1, <2>1, <2>4, <2>5 DEF BufferIds
  <2>6. CASE buffer' = <<>>
    <3>1. buffer' \in Seq(Nat) /\ 1 .. Len(buffer') = {}
      BY <2>6
    <3> QED BY Zenon, <2>4, <3>1 DEF BufferIds
  <2> QED BY Zenon, <1>3, <2>5, <2>6
<1>6. /\ SentIds' /\ Barred' /\ Waiting' /\ Stopping' /\ Dead'
      /\ cpc' \in [Clients -> CPCs]
      /\ chan' \in Seq(Message) /\ Len(chan') <= Cap
      /\ job' \in Message /\ wpc' \in {"recv", "stopped"}
  BY Zenon, <1>1, FlushDoneControl
<1>7. file' \in Seq(Frame) /\ synced' \in 0 .. Len(file') /\ FileIds'
  <2>0. file \in Seq(Frame) /\ buffer \in Seq(Nat) /\ synced \in 0 .. Len(file)
    BY Zenon, <1>0 DEF Types
  <2>2. CASE file' = file
    BY Zenon, <1>0, <1>1, <2>0, <2>2 DEF FileIds
  <2>3. CASE Extends(file', file, SubSeq(buffer, 1, n))
    <3> DEFINE ids == SubSeq(buffer, 1, n)
    <3>1. ids \in Seq(Nat) /\ Len(ids) = n /\ \A k \in 1 .. n : ids[k] = buffer[k]
      BY <2>0, PartShape
    <3>2. \A k \in 1 .. Len(ids) : ids[k] \in 1 .. Len(history)
      <4> HIDE DEF ids
      <4>1. \A k \in 1 .. n : k \in 1 .. Len(buffer)
        BY <2>0
      <4> QED BY Zenon, <1>0, <3>1, <4>1 DEF BufferIds
    <3>3. Extends(file', file, ids)
      BY Zenon, <2>3
    <3> HIDE DEF ids
    <3>4. /\ file' \in Seq(Frame) /\ Len(file') \in Nat /\ Len(file) \in Nat
          /\ Len(ids) \in Nat /\ Len(file') >= Len(file) + Len(ids)
      BY Zenon, <2>0, <3>1, <3>3, Extended
    <3>5. ASSUME NEW k \in 1 .. Len(file')
          PROVE  /\ file'[k].kind = "cmd" => file'[k].id \in 1 .. Len(history)
                 /\ file'[k].kind = "snap" => k = 1 /\ file'[k].id <= Len(history)
      BY Zenon, <1>0, <3>1, <3>2, <3>3, ExtendedIds
    <3>6. FileIds'
      BY Zenon, <1>1, <3>5 DEF FileIds
    <3> QED BY <1>1, <2>0, <3>4, <3>6
  <2> QED BY Zenon, <1>4, <2>2, <2>3
<1>8. Types'
  BY Zenon, <1>0, <1>1, <1>4, <1>6, <1>7, <1>5 DEF Types, WPCs
<1>9. Io'
  BY <1>4, <1>6 DEF Io
<1> QED BY Zenon, <1>6, <1>7, <1>5, <1>8, <1>9 DEF Control, Ids

\* fsync ends the flush, whether it fails or not.
LEMMA FlushSyncControl ==
  ASSUME Control, FlushSync
  PROVE  Control'
<1>0. Flags /\ Types /\ FileIds /\ BufferIds /\ Stopping /\ Io
  BY Zenon DEF Control, Ids
<1>1. /\ UNCHANGED <<policy, history, barrier, cur, acked, buffer, file, phase, calls,
                     restarts>>
      /\ phase # "down" /\ wpc = "sync" /\ FlushDone
      /\ \/ synced' = Len(file) /\ faults' = faults
         \/ synced' = synced /\ faults' = faults + 1
  BY Zenon DEF FlushSync, Running
<1>2. UNCHANGED <<writable, lost>> /\ due' \in {FALSE, due}
  BY Zenon DEF FlushSync
<1>3. Flags'
  BY <1>0, <1>2, Zenon DEF Flags
<1>4. /\ SentIds' /\ Barred' /\ Waiting' /\ Stopping' /\ Dead'
      /\ cpc' \in [Clients -> CPCs]
      /\ chan' \in Seq(Message) /\ Len(chan') <= Cap
      /\ job' \in Message /\ wpc' \in {"recv", "stopped"}
  BY Zenon, <1>1, FlushDoneControl
<1>5. Types'
  <2>1. faults' \in Nat /\ synced' \in 0 .. Len(file)
    BY <1>0, <1>1 DEF Types
  <2> QED BY Zenon, <1>0, <1>1, <1>4, <2>1 DEF Types, WPCs
<1>6. FileIds' /\ BufferIds'
  BY Zenon, <1>0, <1>1 DEF FileIds, BufferIds
<1>7. Io'
  <2>1. faults \in Nat
    BY Zenon, <1>0 DEF Types
  <2> QED BY <1>0, <1>1, <1>2, <1>4, <2>1 DEF Io
<1> QED BY Zenon, <1>3, <1>4, <1>5, <1>6, <1>7 DEF Control, Ids

-----------------------------------------------------------------------------
(* Control: the end of the process *)

\* What the operating system may have been given is the file, or the file and
\* the buffer.
LEMMA WrittenShape ==
  ASSUME Control
  PROVE  /\ Written \in Seq(Frame) /\ Len(Written) \in Nat /\ Len(Written) >= Len(file)
         /\ Written = file \/ Extends(Written, file, buffer)
         /\ \A k \in 1 .. Len(Written) :
              /\ Written[k].kind = "cmd" => Written[k].id \in 1 .. Len(history)
              /\ Written[k].kind = "snap" => k = 1 /\ Written[k].id <= Len(history)
<1>0. /\ Types /\ FileIds /\ BufferIds
      /\ file \in Seq(Frame) /\ buffer \in Seq(Nat) /\ Len(file) \in Nat
  BY DEF Control, Ids, Types
<1> DEFINE P(f) ==
      /\ f \in Seq(Frame) /\ Len(f) \in Nat /\ Len(f) >= Len(file)
      /\ f = file \/ Extends(f, file, buffer)
      /\ \A k \in 1 .. Len(f) :
           /\ f[k].kind = "cmd" => f[k].id \in 1 .. Len(history)
           /\ f[k].kind = "snap" => k = 1 /\ f[k].id <= Len(history)
<1>1. P(file)
  BY <1>0 DEF FileIds
<1>2. ASSUME NEW f, f = file \o Frames(buffer) PROVE P(f)
  <2>1. Extends(f, file, buffer)
    <3>1. file \o Frames(buffer) \in Seq(Frame)
      BY Zenon, <1>0, FramesShape, ConcatShape
    <3>2. f = file \o Frames(buffer) \o <<>>
      BY <1>2, <3>1
    <3> QED BY Zenon, <3>2 DEF Extends
  <2>2. \A k \in 1 .. Len(buffer) : buffer[k] \in 1 .. Len(history)
    BY Zenon, <1>0 DEF BufferIds
  <2>3. /\ f \in Seq(Frame) /\ Len(f) \in Nat /\ Len(buffer) \in Nat
        /\ Len(f) >= Len(file) + Len(buffer)
    BY Zenon, <1>0, <2>1, Extended
  <2>4. \A k \in 1 .. Len(f) :
          /\ f[k].kind = "cmd" => f[k].id \in 1 .. Len(history)
          /\ f[k].kind = "snap" => k = 1 /\ f[k].id <= Len(history)
    BY Zenon, <1>0, <2>1, <2>2, ExtendedIds
  <2> QED BY <1>0, <2>1, <2>3, <2>4
<1> HIDE DEF P
<1>3. P(Written)
  BY Zenon, <1>1, <1>2 DEF Written
<1> QED BY Zenon, <1>3 DEF P

\* Frames up to m, perhaps with half a frame behind them.
LEMMA CutShape ==
  ASSUME Control, NEW n \in 0 .. Len(file), Cut(n)
  PROVE  \E m \in n .. Len(Written) :
           /\ file' \in Seq(Frame) /\ Len(file') \in Nat /\ Len(file') >= m
           /\ \A k \in 1 .. m : k \in 1 .. Len(Written) /\ file'[k] = Written[k]
           /\ \A k \in 1 .. Len(file') : k \in 1 .. m \/ file'[k] = Torn
<1>1. PICK m \in n .. Len(Written), tail \in {<<>>, <<Torn>>} :
        file' = SubSeq(Written, 1, m) \o tail
  BY Zenon DEF Cut
<1>2. Written \in Seq(Frame) /\ Len(Written) \in Nat /\ Len(Written) >= Len(file)
  BY Zenon, WrittenShape
<1>3. n \in Nat /\ m \in 0 .. Len(Written)
  BY <1>2
<1> DEFINE w == Written
           a == SubSeq(w, 1, m)
<1>4. /\ a \in Seq(Frame) /\ Len(a) = m
      /\ \A k \in 1 .. m : k \in 1 .. Len(w) /\ a[k] = w[k]
  <2> HIDE DEF w
  <2>1. w \in Seq(Frame) /\ m \in 0 .. Len(w)
    BY Zenon, <1>2, <1>3 DEF w
  <2> QED BY Zenon, <2>1, PartShape
<1>5. tail \in Seq(Frame) /\ (\A k \in 1 .. Len(tail) : tail[k] = Torn) /\ Len(tail) \in Nat
  <2>1. Torn \in Frame
    BY Zenon DEF Torn, Frame
  <2>2. CASE tail = <<>>
    BY <2>2
  <2>3. CASE tail = <<Torn>>
    BY <2>1, <2>3
  <2> QED BY Zenon, <2>2, <2>3
<1>6. file' = a \o tail
  BY Zenon, <1>1
<1> HIDE DEF a, w
<1>7. /\ a \o tail \in Seq(Frame) /\ Len(a \o tail) = Len(a) + Len(tail)
      /\ \A k \in 1 .. Len(a) : (a \o tail)[k] = a[k]
      /\ \A k \in 1 .. Len(tail) : (a \o tail)[Len(a) + k] = tail[k]
  <2>1. a \in Seq(Frame) /\ tail \in Seq(Frame)
    BY Zenon, <1>4, <1>5
  <2> QED BY <2>1, ConcatShape
<1>8. Len(file') = m + Len(tail) /\ file' \in Seq(Frame)
  BY Zenon, <1>4, <1>6, <1>7
<1>9. \A k \in 1 .. m : k \in 1 .. Len(w) /\ file'[k] = w[k]
  BY Zenon, <1>4, <1>6, <1>7
<1>10. ASSUME NEW k \in 1 .. Len(file'), k \notin 1 .. m PROVE file'[k] = Torn
  <2>1. k - m \in 1 .. Len(tail) /\ k = m + (k - m)
    BY <1>3, <1>5, <1>8, <1>10
  <2> QED BY <1>4, <1>5, <1>6, <1>7, <2>1
<1>11. Len(file') \in Nat /\ Len(file') >= m
  BY <1>3, <1>5, <1>8
<1> WITNESS m \in n .. Len(Written)
<1> QED BY Zenon, <1>8, <1>9, <1>10, <1>11 DEF w

\* A crash, a kill or an exit forgets all but the file.
LEMMA EndControl ==
  ASSUME Control, Crash \/ Kill \/ Exit
  PROVE  Control'
<1>0. Flags /\ Types /\ FileIds /\ Io
  BY Zenon DEF Control, Ids
<1>1. Die /\ UNCHANGED <<policy, history, calls, restarts, faults>>
  BY Zenon DEF Crash, Kill, Exit, boundVars
<1>2. UNCHANGED lost /\ writable' = TRUE /\ due' = FALSE
  BY Zenon DEF Crash, Kill, Exit, Die, diskVars
<1>3. file' \in Seq(Frame) /\ synced' \in 0 .. Len(file') /\ FileIds'
  <2>0. synced \in 0 .. Len(file) /\ file \in Seq(Frame) /\ Len(file) \in 0 .. Len(file)
    BY <1>0 DEF Types
  <2>1. ASSUME NEW n \in 0 .. Len(file), Cut(n),
               synced' = Len(file') \/ (n = Len(file) /\ synced' = synced)
        PROVE  file' \in Seq(Frame) /\ synced' \in 0 .. Len(file') /\ FileIds'
    <3>1. PICK m \in n .. Len(Written) :
            /\ file' \in Seq(Frame) /\ Len(file') \in Nat /\ Len(file') >= m
            /\ \A k \in 1 .. m : k \in 1 .. Len(Written) /\ file'[k] = Written[k]
            /\ \A k \in 1 .. Len(file') : k \in 1 .. m \/ file'[k] = Torn
      BY Zenon, <2>1, CutShape
    <3>2. \A k \in 1 .. Len(Written) :
            /\ Written[k].kind = "cmd" => Written[k].id \in 1 .. Len(history)
            /\ Written[k].kind = "snap" => k = 1 /\ Written[k].id <= Len(history)
      BY Zenon, WrittenShape
    <3>3. FileIds'
      <4> SUFFICES ASSUME NEW k \in 1 .. Len(file')
                   PROVE  /\ file'[k].kind = "cmd" => file'[k].id \in 1 .. Len(history)
                          /\ file'[k].kind = "snap" => k = 1 /\ file'[k].id <= Len(history)
        BY Zenon, <1>1 DEF FileIds
      <4>1. CASE k \in 1 .. m
        BY Zenon, <3>1, <3>2, <4>1
      <4>2. CASE file'[k] = Torn
        BY <4>2 DEF Torn
      <4> QED BY Zenon, <3>1, <4>1, <4>2
    <3>4. synced' \in 0 .. Len(file')
      <4>1. Len(Written) \in Nat
        BY Zenon, WrittenShape
      <4> QED BY <2>0, <2>1, <3>1, <4>1
    <3> QED BY Zenon, <3>1, <3>3, <3>4
  <2>2. CASE Crash
    BY Zenon, <2>0, <2>1, <2>2 DEF Crash
  <2>3. CASE Kill
    BY Zenon, <2>0, <2>1, <2>3 DEF Kill
  <2>4. CASE Exit
    BY Zenon, <1>0, <1>1, <2>0, <2>4 DEF Exit, diskVars, FileIds
  <2> QED BY Zenon, <2>2, <2>3, <2>4
<1>4. Flags'
  BY <1>0, <1>2, Zenon DEF Flags
<1>5. /\ phase' = "down" /\ barrier' = None /\ chan' = <<>> /\ buffer' = <<>>
      /\ wpc' = "recv" /\ job' = Tick /\ acked' = {}
      /\ cpc' = [c \in Clients |-> "idle"] /\ cur' = [c \in Clients |-> 0]
  BY Zenon, <1>1 DEF Die
<1>6. Types'
  BY <1>0, <1>1, <1>3, <1>5, AofAssumption DEF Types, CPCs, WPCs, Phases, Tick, Message
<1>7. BufferIds' /\ SentIds' /\ Barred'
  BY <1>5 DEF BufferIds, SentIds, Barred
<1>8. Waiting' /\ Stopping' /\ Dead'
  BY <1>5 DEF Waiting, Stopping, Dead, Tick
<1>9. Io'
  BY Zenon, <1>0, <1>1, <1>2, <1>5 DEF Io
<1> QED BY Zenon, <1>3, <1>4, <1>6, <1>7, <1>8, <1>9 DEF Control, Ids
=============================================================================
