---------------------------- MODULE AofOrderProofs ----------------------------
(***************************************************************************)
(* Every step but recovery keeps each mutation on its way to the file, and *)
(* keeps the mutations of one client in order all the way.                 *)
(***************************************************************************)
EXTENDS AofWriterProofs

\* The obligations are easy but many: more than the default time for each.
USE SMTT(30)

\* What Ordered says of two mutations.
LEMMA InOrder ==
  ASSUME Ordered, NEW i, NEW j, i \notin lost, Follows(i, j)
  PROVE  FrameOrder(file, i, j) /\ BufferOrder(i, j) /\ ChanOrder(i, j) /\ LogOrder(i, j)
BY Zenon DEF Ordered, Follows

-----------------------------------------------------------------------------
(* Connection tasks *)

\* A step of a task that sends nothing moves no mutation.
LEMMA LocalOrder ==
  ASSUME Control, Kept, Ordered, NEW c \in Clients, Local(c)
  PROVE  Kept' /\ Ordered'
<1>1. UNCHANGED <<history, wpc, buffer, file, lost, phase, chan>>
  BY Zenon DEF Local, Quiet
<1>2. \A i : /\ InFile(i)' <=> InFile(i)
             /\ InBuffer(i)' <=> InBuffer(i)
             /\ InChan(i)' <=> InChan(i)
  BY Zenon, <1>1 DEF InFile, InBuffer, InChan
<1>3. PICK l \in CPCs \ {"log", "await"}, n \in Nat :
        cpc' = [cpc EXCEPT ![c] = l] /\ cur' = [cur EXCEPT ![c] = n]
  BY Zenon DEF Local, Goes, Move
<1>4. \A d \in Clients :
        /\ cpc'[d] = "log" => cpc[d] = "log" /\ cur'[d] = cur[d]
        /\ cpc[d] = "log" /\ Open => cpc'[d] = "log" /\ cur'[d] = cur[d]
  BY <1>3 DEF Control, Types, Local
<1>5. \A i : (Logging(i)' => Logging(i)) /\ (Logging(i) /\ Open => Logging(i)')
  BY Zenon, <1>4 DEF Logging
<1>6. phase # "clean"
  BY DEF Control, Stopping, Local
<1>7. Kept'
  BY Zenon, <1>1, <1>2, <1>5, <1>6 DEF Kept, Serving, OnItsWay, Open
<1>8. Ordered'
  <2> SUFFICES ASSUME NEW i, NEW j, i \notin lost', Follows(i, j)'
               PROVE  (FrameOrder(file, i, j) /\ BufferOrder(i, j)
                        /\ ChanOrder(i, j) /\ LogOrder(i, j))'
    BY Zenon DEF Ordered
  <2>1. i \notin lost /\ Follows(i, j)
    BY Zenon, <1>1 DEF Follows
  <2>2. FrameOrder(file, i, j) /\ BufferOrder(i, j) /\ ChanOrder(i, j) /\ LogOrder(i, j)
    BY Zenon, <2>1, InOrder
  <2>3. FrameOrder(file, i, j)' /\ BufferOrder(i, j)' /\ ChanOrder(i, j)'
    BY Zenon, <1>1, <1>2, <2>2 DEF FrameOrder, BufferOrder, ChanOrder
  <2>4. LogOrder(i, j)'
    BY Zenon, <1>1, <1>2, <1>5, <2>2 DEF LogOrder, Open
  <2> QED BY Zenon, <2>3, <2>4
<1> QED BY Zenon, <1>7, <1>8

\* A message at the end of the channel.
LEMMA Appended ==
  ASSUME Types, NEW m \in Message, chan' = Append(chan, m)
  PROVE  /\ Len(chan) \in Nat /\ Len(chan') = Len(chan) + 1
         /\ \A k \in 1 .. Len(chan) : k \in 1 .. Len(chan') /\ chan'[k] = chan[k]
         /\ \A k \in 1 .. Len(chan') : k \in 1 .. Len(chan) \/ k = Len(chan')
         /\ Len(chan') \in 1 .. Len(chan') /\ chan'[Len(chan')] = m
         /\ \A k \in 1 .. Len(chan) : \A l \in 1 .. k : l \in 1 .. Len(chan)
         /\ \A l \in 1 .. Len(chan) : l \in 1 .. Len(chan')
<1>1. chan \in Seq(Message)
  BY Zenon DEF Types
<1>2. /\ Len(Append(chan, m)) = Len(chan) + 1
      /\ \A k \in 1 .. Len(chan) : Append(chan, m)[k] = chan[k]
      /\ Append(chan, m)[Len(chan) + 1] = m
  BY <1>1, AppendShape
<1>3. Len(chan) \in Nat
  BY <1>1
<1> QED BY <1>2, <1>3

\* A message sent is in the channel, and so is what was there.
LEMMA AppendedChan ==
  ASSUME Types, NEW m \in Message, chan' = Append(chan, m)
  PROVE  \A i : InChan(i)' <=> InChan(i) \/ Carries(m, i)
<1>1. /\ \A k \in 1 .. Len(chan) : k \in 1 .. Len(chan') /\ chan'[k] = chan[k]
      /\ \A k \in 1 .. Len(chan') : k \in 1 .. Len(chan) \/ k = Len(chan')
      /\ Len(chan') \in 1 .. Len(chan') /\ chan'[Len(chan')] = m
  BY Zenon, Appended
<1> QED BY Zenon, <1>1 DEF InChan

\* A record sent after its predecessors comes after them in the channel.
LEMMA AppendedOrder ==
  ASSUME Types, NEW m \in Message, chan' = Append(chan, m), UNCHANGED <<file, buffer>>,
         NEW i, NEW j, ChanOrder(i, j),
         Carries(m, j) => InFile(i) \/ InBuffer(i) \/ InChan(i)
  PROVE  ChanOrder(i, j)'
<1>1. /\ \A k \in 1 .. Len(chan) : k \in 1 .. Len(chan') /\ chan'[k] = chan[k]
      /\ \A k \in 1 .. Len(chan') : k \in 1 .. Len(chan) \/ k = Len(chan')
      /\ Len(chan') \in 1 .. Len(chan') /\ chan'[Len(chan')] = m
      /\ \A k \in 1 .. Len(chan) : \A l \in 1 .. k : l \in 1 .. Len(chan)
      /\ \A l \in 1 .. Len(chan) : l \in 1 .. Len(chan')
  BY Zenon, Appended
<1>2. (InFile(i)' <=> InFile(i)) /\ (InBuffer(i)' <=> InBuffer(i))
  BY Zenon DEF InFile, InBuffer
<1>3. ASSUME NEW k \in 1 .. Len(chan'), Carries(chan'[k], j)
      PROVE  (InFile(i) \/ InBuffer(i))' \/ \E l \in 1 .. k : Carries(chan'[l], i)
  <2>1. CASE k \in 1 .. Len(chan)
    <3>1. InFile(i) \/ InBuffer(i) \/ \E l \in 1 .. k : Carries(chan[l], i)
      BY Zenon, <1>1, <1>3, <2>1 DEF ChanOrder
    <3> QED BY Zenon, <1>1, <1>2, <2>1, <3>1
  <2>2. CASE k = Len(chan')
    <3>1. InFile(i) \/ InBuffer(i) \/ InChan(i)
      BY Zenon, <1>1, <1>3, <2>2
    <3>2. InChan(i) => \E l \in 1 .. Len(chan') : Carries(chan'[l], i)
      BY Zenon, <1>1 DEF InChan
    <3> QED BY Zenon, <1>2, <2>2, <3>1, <3>2
  <2> QED BY Zenon, <1>1, <2>1, <2>2
<1> QED BY Zenon, <1>3 DEF ChanOrder

\* A record goes from its task to the channel; the other messages carry nothing.
LEMMA SendsOrder ==
  ASSUME Control, Kept, Ordered, NEW c \in Clients, Sends(c)
  PROVE  Kept' /\ Ordered'
<1>1. UNCHANGED <<history, wpc, buffer, file, lost, phase, cur>> /\ Open /\ Types
  BY Zenon DEF Sends, Quiet, Control
<1>2. PICK m \in Message :
        /\ chan' = Append(chan, m)
        /\ \A i : Carries(m, i) <=> cpc[c] = "log" /\ cur[c] = i
        /\ \A d \in Clients : cpc'[d] = "log" <=> d # c /\ cpc[d] = "log"
  <2>1. cpc \in [Clients -> CPCs] /\ cur[c] \in Nat
    BY <1>1 DEF Types
  <2>2. CASE cpc[c] = "log" /\ chan' = Append(chan, Record(cur[c])) /\ Move(c, "reply")
    <3>1. Record(cur[c]) \in Message /\ \A i : Carries(Record(cur[c]), i) <=> cur[c] = i
      BY <2>1 DEF Record, Message, Carries
    <3>2. \A d \in Clients : cpc'[d] = "log" <=> d # c /\ cpc[d] = "log"
      BY <2>1, <2>2 DEF Move
    <3> QED BY Zenon, <2>2, <3>1, <3>2
  <2>3. CASE cpc[c] = "send" /\ chan' = Append(chan, SwapFile(c, cur[c])) /\ Move(c, "await")
    <3>1. SwapFile(c, cur[c]) \in Message /\ \A i : ~Carries(SwapFile(c, cur[c]), i)
      BY <2>1 DEF SwapFile, Message, Carries
    <3>2. \A d \in Clients : cpc'[d] = "log" <=> d # c /\ cpc[d] = "log"
      BY <2>1, <2>3 DEF Move
    <3>3. cpc[c] # "log"
      BY <2>3
    <3> QED BY Zenon, <2>3, <3>1, <3>2, <3>3
  <2>4. CASE cpc[c] = "idle" /\ chan' = Append(chan, Flush(c)) /\ Move(c, "await")
    <3>1. Flush(c) \in Message /\ \A i : ~Carries(Flush(c), i)
      BY DEF Flush, Message, Carries
    <3>2. \A d \in Clients : cpc'[d] = "log" <=> d # c /\ cpc[d] = "log"
      BY <2>1, <2>4 DEF Move
    <3>3. cpc[c] # "log"
      BY <2>4
    <3> QED BY Zenon, <2>4, <3>1, <3>2, <3>3
  <2> QED BY Zenon, <2>2, <2>3, <2>4 DEF Sends
<1>3. \A i : InChan(i)' <=> InChan(i) \/ Carries(m, i)
  BY Zenon, <1>1, <1>2, AppendedChan
<1>4. \A i : /\ InFile(i)' <=> InFile(i)
             /\ InBuffer(i)' <=> InBuffer(i)
             /\ Logging(i)' => Logging(i)
             /\ Logging(i) => Logging(i)' \/ Carries(m, i)
             /\ Carries(m, i) => Logging(i)
  BY Zenon, <1>1, <1>2 DEF InFile, InBuffer, Logging
<1>5. Kept'
  BY Zenon, <1>1, <1>3, <1>4 DEF Kept, Serving, OnItsWay, Open
<1>6. Ordered'
  <2> SUFFICES ASSUME NEW i, NEW j, i \notin lost', Follows(i, j)'
               PROVE  (FrameOrder(file, i, j) /\ BufferOrder(i, j)
                        /\ ChanOrder(i, j) /\ LogOrder(i, j))'
    BY Zenon DEF Ordered
  <2>1. i \notin lost /\ Follows(i, j)
    BY Zenon, <1>1 DEF Follows
  <2>2. FrameOrder(file, i, j) /\ BufferOrder(i, j) /\ ChanOrder(i, j) /\ LogOrder(i, j)
    BY Zenon, <2>1, InOrder
  <2>3. FrameOrder(file, i, j)' /\ BufferOrder(i, j)'
    BY Zenon, <1>1, <1>4, <2>2 DEF FrameOrder, BufferOrder
  <2>4. Carries(m, j) => InFile(i) \/ InBuffer(i) \/ InChan(i)
    BY Zenon, <1>1, <1>4, <2>2 DEF LogOrder
  <2>5. ChanOrder(i, j)'
    BY Zenon, <1>1, <1>2, <2>2, <2>4, AppendedOrder
  <2>6. LogOrder(i, j)'
    BY Zenon, <1>1, <1>3, <1>4, <2>2 DEF LogOrder
  <2> QED BY Zenon, <2>3, <2>5, <2>6
<1> QED BY Zenon, <1>5, <1>6

\* What executes is logged next; no earlier mutation of its task is still on
\* the way to the channel.
LEMMA ExecuteOrder ==
  ASSUME Control, Kept, Ordered, NEW c \in Clients, NEW w \in Writes, Execute(c, w)
  PROVE  Kept' /\ Ordered'
<1> DEFINE n == Len(history) + 1
<1>1. /\ Len(history) \in Nat /\ Len(history') = n
      /\ \A k \in 1 .. Len(history) : history'[k] = history[k]
      /\ history'[n].client = c
  <2>1. history \in Seq(Write) /\ w \in Write /\ w.client = c /\ history' = Append(history, w)
    BY Zenon, AofAssumption DEF Execute, Control, Types
  <2>2. /\ Len(Append(history, w)) = Len(history) + 1
        /\ \A k \in 1 .. Len(history) : Append(history, w)[k] = history[k]
        /\ Append(history, w)[Len(history) + 1] = w
    BY <2>1, AppendShape
  <2>3. Len(history) \in Nat
    BY <2>1
  <2> QED BY Zenon, <2>1, <2>2, <2>3
<1>2. /\ cpc' = [cpc EXCEPT ![c] = "log"] /\ cpc[c] = "idle"
      /\ cur' = [cur EXCEPT ![c] = n] /\ phase # "down"
      /\ UNCHANGED <<chan, wpc, buffer, file, phase, lost>>
  BY Zenon DEF Execute, Move, Running, writerVars, diskVars
<1> HIDE DEF n
<1>3. n \in Nat /\ n \notin 1 .. Len(history)
      /\ \A i : i \in 1 .. n <=> i \in 1 .. Len(history) \/ i = n
  BY <1>1 DEF n
<1>4. \A d \in Clients :
        /\ d # c => cpc'[d] = cpc[d] /\ cur'[d] = cur[d]
        /\ d = c => cpc'[d] = "log" /\ cur'[d] = n /\ cpc[d] # "log"
  BY <1>2 DEF Control, Types
<1>5. \A i : /\ InFile(i)' <=> InFile(i)
             /\ InBuffer(i)' <=> InBuffer(i)
             /\ InChan(i)' <=> InChan(i)
             /\ Logging(i)' <=> Logging(i) \/ i = n
  BY Zenon, <1>2, <1>4 DEF InFile, InBuffer, InChan, Logging
<1>6. phase # "clean" /\ (Open' <=> Open)
  BY <1>2 DEF Control, Stopping, Open
<1>7. Kept'
  BY Zenon, <1>1, <1>2, <1>3, <1>5, <1>6 DEF Kept, Serving, OnItsWay
<1>8. ~InBuffer(n) /\ ~InChan(n) /\ ~InFile(n)
  <2>1. ~InBuffer(n) /\ ~InChan(n)
    BY Zenon, <1>3 DEF Control, Ids, BufferIds, SentIds, InBuffer, InChan, Carries
  <2>2. ASSUME NEW k \in 1 .. Len(file) PROVE ~Stands(file[k], n)
    <3>1. file[k] \in Frame
      BY DEF Control, Types
    <3>2. file[k].id \in Nat
      BY <3>1 DEF Frame
    <3> QED BY <1>1, <1>3, <3>2 DEF Control, Ids, FileIds, Stands, n
  <2> QED BY Zenon, <2>1, <2>2 DEF InFile
<1>9. Ordered'
  <2> SUFFICES ASSUME NEW i, NEW j, i \notin lost', Follows(i, j)'
               PROVE  (FrameOrder(file, i, j) /\ BufferOrder(i, j)
                        /\ ChanOrder(i, j) /\ LogOrder(i, j))'
    BY Zenon DEF Ordered
  <2>0. i \notin lost
    BY Zenon, <1>2
  <2>1. CASE j # n
    <3>1. Follows(i, j)
      BY <1>1, <1>3, <2>1 DEF Follows, n
    <3>2. /\ FrameOrder(file, i, j) /\ BufferOrder(i, j)
          /\ ChanOrder(i, j) /\ LogOrder(i, j)
      BY Zenon, <2>0, <3>1, InOrder
    <3>3. FrameOrder(file, i, j)' /\ BufferOrder(i, j)' /\ ChanOrder(i, j)'
      BY Zenon, <1>2, <1>5, <3>2 DEF FrameOrder, BufferOrder, ChanOrder
    <3>4. LogOrder(i, j)'
      BY Zenon, <1>5, <1>6, <2>1, <3>2 DEF LogOrder
    <3> QED BY Zenon, <3>3, <3>4
  <2>2. CASE j = n
    <3>1. i \in 1 .. Len(history) /\ history[i].client = c
      BY <1>1, <1>3, <2>2 DEF Follows, n
    <3>2. FrameOrder(file, i, j)' /\ BufferOrder(i, j)' /\ ChanOrder(i, j)'
      BY Zenon, <1>2, <1>8, <2>2
         DEF FrameOrder, BufferOrder, ChanOrder, InFile, InBuffer, InChan
    <3>3. ~Logging(i)
      BY Zenon, <1>2, <3>1 DEF Control, Ids, SentIds, Logging
    <3>4. LogOrder(i, j)'
      BY Zenon, <1>2, <1>5, <1>6, <2>0, <3>1, <3>3 DEF LogOrder, Kept, Serving, OnItsWay
    <3> QED BY Zenon, <3>2, <3>4
  <2> QED BY Zenon, <2>1, <2>2
<1> QED BY Zenon, <1>7, <1>9

\* The request to stop carries nothing, and comes while the writer runs.
LEMMA ShutdownOrder ==
  ASSUME Control, Kept, Ordered, ShutdownSignal \/ ShutdownPersistence
  PROVE  Kept' /\ Ordered'
<1>1. /\ UNCHANGED <<history, wpc, buffer, file, lost, cpc, cur>> /\ Types
      /\ phase \in {"up", "draining"}
  BY Zenon DEF ShutdownSignal, ShutdownPersistence, clientVars, writerVars, diskVars, Control
<1>2. Open /\ Serving /\ (Open' <=> Open)
  BY <1>1 DEF Control, Stopping, Open, Serving
<1>3. Shutdown \in Message /\ \A i : ~Carries(Shutdown, i)
  BY DEF Shutdown, Message, Carries
<1>4. chan' = chan \/ chan' = Append(chan, Shutdown)
  BY Zenon DEF ShutdownSignal, ShutdownPersistence, Send
<1>5. \A i : InChan(i)' <=> InChan(i)
  BY Zenon, <1>1, <1>3, <1>4, AppendedChan DEF InChan
<1>6. \A i : /\ InFile(i)' <=> InFile(i)
             /\ InBuffer(i)' <=> InBuffer(i)
             /\ Logging(i)' <=> Logging(i)
  BY Zenon, <1>1 DEF InFile, InBuffer, Logging
<1>7. Kept'
  BY Zenon, <1>1, <1>2, <1>5, <1>6 DEF Kept, OnItsWay
<1>8. Ordered'
  <2> SUFFICES ASSUME NEW i, NEW j, i \notin lost', Follows(i, j)'
               PROVE  (FrameOrder(file, i, j) /\ BufferOrder(i, j)
                        /\ ChanOrder(i, j) /\ LogOrder(i, j))'
    BY Zenon DEF Ordered
  <2>1. i \notin lost /\ Follows(i, j)
    BY Zenon, <1>1 DEF Follows
  <2>2. FrameOrder(file, i, j) /\ BufferOrder(i, j) /\ ChanOrder(i, j) /\ LogOrder(i, j)
    BY Zenon, <2>1, InOrder
  <2>3. FrameOrder(file, i, j)' /\ BufferOrder(i, j)' /\ LogOrder(i, j)'
    BY Zenon, <1>1, <1>2, <1>5, <1>6, <2>2 DEF FrameOrder, BufferOrder, LogOrder
  <2>4. ChanOrder(i, j)'
    <3>1. CASE chan' = chan
      BY Zenon, <1>1, <1>6, <2>2, <3>1 DEF ChanOrder
    <3>2. CASE chan' = Append(chan, Shutdown)
      BY Zenon, <1>1, <1>3, <2>2, <3>2, AppendedOrder
    <3> QED BY Zenon, <1>4, <3>1, <3>2
  <2> QED BY Zenon, <2>3, <2>4
<1> QED BY Zenon, <1>7, <1>8

-----------------------------------------------------------------------------
(* The writer *)

\* The rest of the channel.
LEMMA Shifted ==
  ASSUME Types, NEW kinds, Receive(kinds)
  PROVE  /\ 1 \in 1 .. Len(chan)
         /\ \A k \in 1 .. Len(chan') :
              /\ k + 1 \in 1 .. Len(chan) /\ chan'[k] = chan[k + 1]
              /\ \A l \in 1 .. k + 1 :
                   l = 1 \/ (l - 1 \in 1 .. k /\ chan'[l - 1] = chan[l])
         /\ \A l \in 1 .. Len(chan) :
              l = 1 \/ (l - 1 \in 1 .. Len(chan') /\ chan'[l - 1] = chan[l])
<1>1. /\ 1 \in 1 .. Len(chan) /\ Len(chan) \in Nat /\ Len(chan') = Len(chan) - 1
      /\ \A k \in 1 .. Len(chan') : k + 1 \in 1 .. Len(chan) /\ chan'[k] = chan[k + 1]
  BY Zenon, Received
<1>2. ASSUME NEW l \in 1 .. Len(chan), l # 1
      PROVE  l - 1 \in 1 .. Len(chan') /\ chan'[l - 1] = chan[l]
  <2>1. l - 1 \in 1 .. Len(chan') /\ (l - 1) + 1 = l
    BY <1>1, <1>2
  <2> QED BY Zenon, <1>1, <2>1
<1>3. ASSUME NEW k \in 1 .. Len(chan'), NEW l \in 1 .. k + 1, l # 1
      PROVE  l - 1 \in 1 .. k /\ chan'[l - 1] = chan[l]
  <2>1. l - 1 \in 1 .. k /\ l \in 1 .. Len(chan)
    BY <1>1, <1>3
  <2> QED BY Zenon, <1>2, <1>3, <2>1
<1> QED BY Zenon, <1>1, <1>2, <1>3

\* What the writer does not receive stays in the channel.
LEMMA ShiftedChan ==
  ASSUME Types, NEW kinds, Receive(kinds)
  PROVE  \A i : InChan(i) <=> InChan(i)' \/ Carries(chan[1], i)
BY Zenon, Shifted DEF InChan

\* A received record was the first, so no later one overtakes it.
LEMMA ShiftedOrder ==
  ASSUME Types, NEW kinds, Receive(kinds), NEW i, NEW j, ChanOrder(i, j),
         InFile(i) \/ InBuffer(i) \/ Carries(chan[1], i) => InFile(i)' \/ InBuffer(i)'
  PROVE  ChanOrder(i, j)'
<1>1. ASSUME NEW k \in 1 .. Len(chan'), Carries(chan'[k], j)
      PROVE  InFile(i)' \/ InBuffer(i)' \/ \E l \in 1 .. k : Carries(chan'[l], i)
  <2>1. k + 1 \in 1 .. Len(chan) /\ chan'[k] = chan[k + 1]
    BY Zenon, Shifted
  <2>2. InFile(i) \/ InBuffer(i) \/ \E l \in 1 .. k + 1 : Carries(chan[l], i)
    BY Zenon, <1>1, <2>1 DEF ChanOrder
  <2>3. ASSUME NEW l \in 1 .. k + 1, Carries(chan[l], i)
        PROVE  Carries(chan[1], i) \/ \E h \in 1 .. k : Carries(chan'[h], i)
    <3>1. l = 1 \/ (l - 1 \in 1 .. k /\ chan'[l - 1] = chan[l])
      BY Zenon, Shifted
    <3> QED BY Zenon, <2>3, <3>1
  <2> QED BY Zenon, <2>2, <2>3
<1> QED BY Zenon, <1>1 DEF ChanOrder

\* A record goes from the channel to the end of the buffer.
LEMMA WriterRecordOrder ==
  ASSUME Control, Kept, Ordered, WriterRecord
  PROVE  Kept' /\ Ordered'
<1>1. /\ UNCHANGED <<history, cpc, cur, file, lost, phase>> /\ Types
      /\ buffer' = Append(buffer, Head(chan).id) /\ Receive({"record"})
      /\ wpc' = "write" \/ wpc' = wpc
  BY Zenon DEF WriterRecord, clientVars, diskVars, Control
<1>2. /\ phase # "down" /\ wpc = "recv" /\ Head(chan) = chan[1]
      /\ chan[1] \in Message /\ chan[1].kind = "record"
  BY <1>1, Received
<1> DEFINE n == chan[1].id
<1>3. /\ \A k \in 1 .. Len(buffer) : k \in 1 .. Len(buffer') /\ buffer'[k] = buffer[k]
      /\ \A k \in 1 .. Len(buffer') : k \in 1 .. Len(buffer) \/ k = Len(buffer')
      /\ \A l \in 1 .. Len(buffer) : l \in 1 .. Len(buffer')
      /\ \A k \in 1 .. Len(buffer) : \A l \in 1 .. k : l \in 1 .. Len(buffer)
      /\ Len(buffer') \in 1 .. Len(buffer') /\ buffer'[Len(buffer')] = n
  <2>1. n \in Nat /\ buffer \in Seq(Nat)
    BY <1>1, <1>2 DEF Message, Types
  <2>2. /\ Len(Append(buffer, n)) = Len(buffer) + 1
        /\ \A k \in 1 .. Len(buffer) : Append(buffer, n)[k] = buffer[k]
        /\ Append(buffer, n)[Len(buffer) + 1] = n
    BY <2>1, AppendShape
  <2>3. Len(buffer) \in Nat
    BY <2>1
  <2> QED BY <1>1, <1>2, <2>2, <2>3
<1>4. \A i : Carries(chan[1], i) <=> i = n
  BY Zenon, <1>2 DEF Carries
<1> HIDE DEF n
<1>5. \A i : /\ InFile(i)' <=> InFile(i)
             /\ InBuffer(i)' <=> InBuffer(i) \/ i = n
             /\ Logging(i)' <=> Logging(i)
  BY Zenon, <1>1, <1>3 DEF InFile, InBuffer, Logging
<1>6. \A i : InChan(i) <=> InChan(i)' \/ i = n
  BY Zenon, <1>1, <1>4, ShiftedChan
<1>7. Open /\ Open' /\ Serving
  BY <1>1, <1>2 DEF Open, Serving
<1>8. Kept'
  BY Zenon, <1>1, <1>5, <1>6, <1>7 DEF Kept, OnItsWay
<1>9. Ordered'
  <2> SUFFICES ASSUME NEW i, NEW j, i \notin lost', Follows(i, j)'
               PROVE  (FrameOrder(file, i, j) /\ BufferOrder(i, j)
                        /\ ChanOrder(i, j) /\ LogOrder(i, j))'
    BY Zenon DEF Ordered
  <2>1. i \notin lost /\ Follows(i, j)
    BY Zenon, <1>1 DEF Follows
  <2>2. FrameOrder(file, i, j) /\ BufferOrder(i, j) /\ ChanOrder(i, j) /\ LogOrder(i, j)
    BY Zenon, <2>1, InOrder
  <2>3. FrameOrder(file, i, j)'
    BY Zenon, <1>1, <2>2 DEF FrameOrder
  <2>4. BufferOrder(i, j)'
    <3> SUFFICES ASSUME NEW k \in 1 .. Len(buffer'), buffer'[k] = j
                 PROVE  InFile(i)' \/ \E l \in 1 .. k : buffer'[l] = i
      BY Zenon DEF BufferOrder
    <3>1. CASE k \in 1 .. Len(buffer)
      <4>1. InFile(i) \/ \E l \in 1 .. k : buffer[l] = i
        BY Zenon, <1>3, <2>2, <3>1 DEF BufferOrder
      <4> QED BY Zenon, <1>3, <1>5, <3>1, <4>1
    <3>2. CASE k = Len(buffer')
      <4>1. Carries(chan[1], j) /\ 1 \in 1 .. Len(chan)
        BY Zenon, <1>1, <1>3, <1>4, <3>2, Shifted
      <4>2. InFile(i) \/ InBuffer(i) \/ \E l \in 1 .. 1 : Carries(chan[l], i)
        BY Zenon, <2>2, <4>1 DEF ChanOrder
      <4>3. \A l \in 1 .. 1 : l = 1
        OBVIOUS
      <4>4. InFile(i) \/ InBuffer(i)'
        BY Zenon, <1>4, <1>5, <4>2, <4>3
      <4> QED BY Zenon, <1>5, <3>2, <4>4 DEF InBuffer
    <3> QED BY Zenon, <1>3, <3>1, <3>2
  <2>5. ChanOrder(i, j)'
    BY Zenon, <1>1, <1>4, <1>5, <2>2, ShiftedOrder
  <2>6. LogOrder(i, j)'
    BY Zenon, <1>5, <1>6, <1>7, <2>2 DEF LogOrder
  <2> QED BY Zenon, <2>3, <2>4, <2>5, <2>6
<1> QED BY Zenon, <1>8, <1>9

\* The other messages carry nothing.
LEMMA WriterFlushOrder ==
  ASSUME Control, Kept, Ordered, WriterFlush
  PROVE  Kept' /\ Ordered'
<1>1. /\ UNCHANGED <<history, cpc, cur, file, buffer, lost, phase>> /\ Types
      /\ Receive({"flush", "shutdown"}) /\ wpc' = "write"
  BY Zenon DEF WriterFlush, clientVars, diskVars, Control
<1>2. phase # "down" /\ wpc = "recv" /\ chan[1].kind \in {"flush", "shutdown"}
  BY Zenon, <1>1, Received
<1>3. \A i : ~Carries(chan[1], i)
  BY <1>2 DEF Carries
<1>4. \A i : /\ InFile(i)' <=> InFile(i)
             /\ InBuffer(i)' <=> InBuffer(i)
             /\ Logging(i)' <=> Logging(i)
  BY Zenon, <1>1 DEF InFile, InBuffer, Logging
<1>5. \A i : InChan(i) <=> InChan(i)'
  BY Zenon, <1>1, <1>3, ShiftedChan
<1>6. Open /\ Open' /\ Serving
  BY <1>1, <1>2 DEF Open, Serving
<1>7. Kept'
  BY Zenon, <1>1, <1>4, <1>5, <1>6 DEF Kept, OnItsWay
<1>8. Ordered'
  <2> SUFFICES ASSUME NEW i, NEW j, i \notin lost', Follows(i, j)'
               PROVE  (FrameOrder(file, i, j) /\ BufferOrder(i, j)
                        /\ ChanOrder(i, j) /\ LogOrder(i, j))'
    BY Zenon DEF Ordered
  <2>1. i \notin lost /\ Follows(i, j)
    BY Zenon, <1>1 DEF Follows
  <2>2. FrameOrder(file, i, j) /\ BufferOrder(i, j) /\ ChanOrder(i, j) /\ LogOrder(i, j)
    BY Zenon, <2>1, InOrder
  <2>3. FrameOrder(file, i, j)' /\ BufferOrder(i, j)' /\ LogOrder(i, j)'
    BY Zenon, <1>1, <1>4, <1>5, <1>6, <2>2 DEF FrameOrder, BufferOrder, LogOrder
  <2>4. ChanOrder(i, j)'
    BY Zenon, <1>1, <1>3, <1>4, <2>2, ShiftedOrder
  <2> QED BY Zenon, <2>3, <2>4
<1> QED BY Zenon, <1>7, <1>8

\* The snapshot that replaces the file is of the whole history: the barrier has
\* kept it so.
LEMMA SwapOrder ==
  ASSUME Control, Receive({"swap"}), history' = history, buffer' = <<>>,
         file' = <<Snap(Head(chan).id)>>
  PROVE  Kept' /\ Ordered'
<1>1. Head(chan) = chan[1] /\ chan[1].id = Len(history) /\ Len(history) \in Nat
  <2>1. Head(chan) = chan[1] /\ 1 \in 1 .. Len(chan) /\ chan[1].kind \in {"swap"}
    BY Zenon, Received DEF Control
  <2>2. chan[1].id = Len(history)
    BY <2>1 DEF Control, Barred
  <2>3. Len(history) \in Nat
    BY DEF Control, Types
  <2> QED BY Zenon, <2>1, <2>2, <2>3
<1>2. /\ Len(file') = 1 /\ file'[1] = Snap(Len(history))
      /\ \A k \in 1 .. Len(file') : 1 \in 1 .. k
      /\ 1 \in 1 .. Len(file')
  BY <1>1
<1>3. \A i \in 1 .. Len(history') : Stands(file'[1], i)
  BY <1>1, <1>2 DEF Stands, Snap
<1>4. \A i \in 1 .. Len(history') : InFile(i)'
  BY Zenon, <1>2, <1>3 DEF InFile
<1>5. Kept'
  BY Zenon, <1>4 DEF Kept, OnItsWay
<1>6. Ordered'
  BY Zenon, <1>2, <1>3, <1>4
     DEF Ordered, FrameOrder, BufferOrder, ChanOrder, LogOrder, Follows
<1> QED BY Zenon, <1>5, <1>6

\* A swap that fails before the rename drops the buffer and nothing else.
LEMMA FailedSwapOrder ==
  ASSUME Control, Kept, Ordered, Receive({"swap"}), wpc' = wpc,
         UNCHANGED <<history, cur, file, phase>>, buffer' = <<>>,
         lost' = lost \cup Range(buffer),
         \A c \in Clients : (cpc'[c] = "log") = (cpc[c] = "log")
  PROVE  Kept' /\ Ordered'
<1>1. Types /\ phase # "down" /\ wpc = "recv" /\ chan[1].kind \in {"swap"}
  BY Zenon, Received DEF Control
<1>2. \A i : ~Carries(chan[1], i)
  BY <1>1 DEF Carries
<1>3. \A i : InBuffer(i) => i \in lost'
  BY DEF InBuffer, Range
<1>4. \A i : /\ InFile(i)' <=> InFile(i)
             /\ Logging(i)' <=> Logging(i)
  BY Zenon DEF InFile, Logging
<1>5. \A i : InChan(i) <=> InChan(i)'
  BY Zenon, <1>1, <1>2, ShiftedChan
<1>6. Open /\ Open' /\ Serving
  BY <1>1 DEF Open, Serving
<1>7. Kept'
  BY Zenon, <1>3, <1>4, <1>5, <1>6 DEF Kept, OnItsWay
<1>8. Ordered'
  <2> SUFFICES ASSUME NEW i, NEW j, i \notin lost', Follows(i, j)'
               PROVE  (FrameOrder(file, i, j) /\ BufferOrder(i, j)
                        /\ ChanOrder(i, j) /\ LogOrder(i, j))'
    BY Zenon DEF Ordered
  <2>1. i \notin lost /\ Follows(i, j) /\ ~InBuffer(i)
    BY Zenon, <1>3 DEF Follows
  <2>2. FrameOrder(file, i, j) /\ BufferOrder(i, j) /\ ChanOrder(i, j) /\ LogOrder(i, j)
    BY Zenon, <2>1, InOrder
  <2>3. FrameOrder(file, i, j)'
    BY Zenon, <2>2 DEF FrameOrder
  <2>4. BufferOrder(i, j)'
    <3>1. 1 .. Len(buffer') = {}
      OBVIOUS
    <3> QED BY Zenon, <3>1 DEF BufferOrder
  <2>5. ChanOrder(i, j)'
    BY Zenon, <1>1, <1>2, <1>4, <2>1, <2>2, ShiftedOrder
  <2>6. LogOrder(i, j)'
    BY Zenon, <1>4, <1>5, <1>6, <2>1, <2>2 DEF LogOrder
  <2> QED BY Zenon, <2>3, <2>4, <2>5, <2>6
<1> QED BY Zenon, <1>7, <1>8

\* Either way the swap ends, the sender's reply is all that the clients see.
LEMMA WriterSwapOrder ==
  ASSUME Control, Kept, Ordered, WriterSwap
  PROVE  Kept' /\ Ordered'
<1>1. /\ UNCHANGED <<history, cur, phase, wpc>> /\ buffer' = <<>>
      /\ Receive({"swap"}) /\ Move(Head(chan).by, "replied")
      /\ \/ file' = <<Snap(Head(chan).id)>>
         \/ file' = file /\ lost' = lost \cup Range(buffer)
  BY Zenon DEF WriterSwap, SwapFails
<1>2. \A c \in Clients : (cpc'[c] = "log") = (cpc[c] = "log")
  <2>1. Head(chan) = chan[1] /\ 1 \in 1 .. Len(chan) /\ chan[1].kind \in {"swap"}
    BY Zenon, <1>1, Received DEF Control
  <2>2. Waiting /\ cpc \in [Clients -> CPCs]
    BY Zenon DEF Control, Types
  <2>3. cpc[chan[1].by] # "log"
    BY <2>1, <2>2 DEF Waiting, Asks
  <2> QED BY <1>1, <2>1, <2>2, <2>3 DEF Move
<1>3. CASE file' = <<Snap(Head(chan).id)>>
  BY Zenon, <1>1, <1>3, SwapOrder
<1>4. CASE file' = file /\ lost' = lost \cup Range(buffer)
  BY Zenon, <1>1, <1>2, <1>4, FailedSwapOrder
<1> QED BY Zenon, <1>1, <1>3, <1>4

\* What the steps of a flush have in common.
LEMMA FlushedOrder ==
  ASSUME Kept, Ordered, phase # "down", Open, UNCHANGED <<history, phase>>,
         lost \subseteq lost',
         \A i : InFile(i) => InFile(i)',
         \A i : i \notin lost' /\ InBuffer(i) => InFile(i)' \/ InBuffer(i)',
         \A i : Logging(i)' <=> Logging(i),
         chan' = chan \/ (chan' = <<>> /\ ~Open'),
         Serving' => \A i : InChan(i) => InChan(i)',
         \A i, j : FrameOrder(file, i, j) /\ BufferOrder(i, j)
                     => FrameOrder(file', i, j) /\ BufferOrder(i, j)'
  PROVE  Kept' /\ Ordered'
<1>1. Serving
  BY Zenon DEF Serving
<1>2. Kept'
  BY Zenon, <1>1 DEF Kept, OnItsWay
<1>3. chan' = <<>> => Len(chan') = 0 /\ 1 .. 0 = {}
  OBVIOUS
<1>4. Ordered'
  <2> SUFFICES ASSUME NEW i, NEW j, i \notin lost', Follows(i, j)'
               PROVE  (FrameOrder(file, i, j) /\ BufferOrder(i, j)
                        /\ ChanOrder(i, j) /\ LogOrder(i, j))'
    BY Zenon DEF Ordered
  <2>1. i \notin lost /\ Follows(i, j)
    BY Zenon DEF Follows
  <2>2. FrameOrder(file, i, j) /\ BufferOrder(i, j) /\ ChanOrder(i, j) /\ LogOrder(i, j)
    BY Zenon, <2>1, InOrder
  <2>3. FrameOrder(file, i, j)' /\ BufferOrder(i, j)'
    BY Zenon, <2>2
  <2>4. ChanOrder(i, j)'
    BY Zenon, <1>3, <2>2 DEF ChanOrder
  <2>5. LogOrder(i, j)'
    BY Zenon, <2>2 DEF LogOrder, InChan
  <2> QED BY Zenon, <2>3, <2>4, <2>5
<1> QED BY Zenon, <1>2, <1>4

\* A periodic flush that begins, and a second that passes, move no mutation.
LEMMA TickOrder ==
  ASSUME Kept, Ordered, PeriodicFlush \/ Second
  PROVE  Kept' /\ Ordered'
<1>1. /\ UNCHANGED <<history, cpc, cur, chan, buffer, file, lost, phase>>
      /\ phase # "down" /\ Open
  <2>1. wpc = "recv" => Open
    BY DEF Open
  <2> QED BY Zenon, <2>1 DEF PeriodicFlush, Second, Running, clientVars, diskVars
<1>2. \A i : /\ InFile(i)' <=> InFile(i)
             /\ InBuffer(i)' <=> InBuffer(i)
             /\ InChan(i)' <=> InChan(i)
             /\ Logging(i)' <=> Logging(i)
  BY Zenon, <1>1 DEF InFile, InBuffer, InChan, Logging
<1>3. \A i, j : /\ FrameOrder(file', i, j) <=> FrameOrder(file, i, j)
                /\ BufferOrder(i, j)' <=> BufferOrder(i, j)
  BY Zenon, <1>1, <1>2 DEF FrameOrder, BufferOrder
<1> QED BY Zenon, <1>1, <1>2, <1>3, FlushedOrder

\* The frames of the first ids of the buffer, behind the file.
LEMMA ExtendedFrames ==
  ASSUME Types, NEW ids \in Seq(Nat), NEW f, Extends(f, file, ids)
  PROVE  /\ \A k \in 1 .. Len(file) : k \in 1 .. Len(f) /\ f[k] = file[k]
         /\ \A k \in 1 .. Len(ids) :
              /\ Len(file) + k \in 1 .. Len(f)
              /\ \A i : Stands(f[Len(file) + k], i) <=> ids[k] = i
         /\ \A k \in 1 .. Len(f) :
              \/ k \in 1 .. Len(file)
              \/ /\ k - Len(file) \in 1 .. Len(ids)
                 /\ \A i : Stands(f[k], i) <=> ids[k - Len(file)] = i
              \/ \A i : ~Stands(f[k], i)
<1>1. file \in Seq(Frame)
  BY Zenon DEF Types
<1>2. /\ Len(f) \in Nat /\ Len(file) \in Nat /\ Len(ids) \in Nat
      /\ Len(f) >= Len(file) + Len(ids)
      /\ \A k \in 1 .. Len(file) : f[k] = file[k]
      /\ \A k \in 1 .. Len(ids) : f[Len(file) + k] = Cmd(ids[k])
      /\ \A k \in 1 .. Len(f) :
           \/ k \in 1 .. Len(file)
           \/ k > Len(file) /\ k - Len(file) \in 1 .. Len(ids)
           \/ k > Len(file) + Len(ids) /\ f[k] = Torn
  BY <1>1, Extended
<1>3. \A x, i : Stands(Cmd(x), i) <=> x = i
  BY DEF Stands, Cmd
<1>4. \A i : ~Stands(Torn, i)
  BY DEF Stands, Torn
<1>5. \A k \in 1 .. Len(file) : k \in 1 .. Len(f)
  BY <1>2
<1>6. \A k \in 1 .. Len(ids) : Len(file) + k \in 1 .. Len(f)
  BY <1>2
<1>7. ASSUME NEW k \in 1 .. Len(f), k - Len(file) \in 1 .. Len(ids)
      PROVE  \A i : Stands(f[k], i) <=> ids[k - Len(file)] = i
  <2> DEFINE h == k - Len(file)
  <2>1. Len(file) + h = k
    BY <1>2
  <2>2. f[Len(file) + h] = Cmd(ids[h])
    BY Zenon, <1>2, <1>7
  <2>3. f[k] = Cmd(ids[h])
    BY Zenon, <2>1, <2>2
  <2> QED BY <1>3, <2>3
<1>8. ASSUME NEW k \in 1 .. Len(f)
      PROVE  \/ k \in 1 .. Len(file)
             \/ /\ k - Len(file) \in 1 .. Len(ids)
                /\ \A i : Stands(f[k], i) <=> ids[k - Len(file)] = i
             \/ \A i : ~Stands(f[k], i)
  BY Zenon, <1>2, <1>4, <1>7
<1>9. ASSUME NEW k \in 1 .. Len(ids)
      PROVE  \A i : Stands(f[Len(file) + k], i) <=> ids[k] = i
  BY <1>2, <1>3
<1> QED BY Zenon, <1>2, <1>5, <1>6, <1>8, <1>9

\* Frames of a prefix of the buffer, put after the file, keep the order.
LEMMA ExtendedOrder ==
  ASSUME Types, NEW ids \in Seq(Nat), NEW f, Extends(f, file, ids),
         \A k \in 1 .. Len(ids) : k \in 1 .. Len(buffer) /\ ids[k] = buffer[k],
         NEW i, NEW j, FrameOrder(file, i, j), BufferOrder(i, j)
  PROVE  FrameOrder(f, i, j)
<1> SUFFICES ASSUME NEW k \in 1 .. Len(f), Stands(f[k], j)
             PROVE  \E l \in 1 .. k : Stands(f[l], i)
  BY Zenon DEF FrameOrder
<1>0. /\ \A h \in 1 .. Len(file) : h \in 1 .. Len(f) /\ f[h] = file[h]
      /\ \A h \in 1 .. Len(ids) :
           /\ Len(file) + h \in 1 .. Len(f)
           /\ \A x : Stands(f[Len(file) + h], x) <=> ids[h] = x
      /\ \/ k \in 1 .. Len(file)
         \/ /\ k - Len(file) \in 1 .. Len(ids)
            /\ \A x : Stands(f[k], x) <=> ids[k - Len(file)] = x
         \/ \A x : ~Stands(f[k], x)
  BY Zenon, ExtendedFrames
<1>1. Len(file) \in Nat /\ Len(ids) \in Nat
  BY DEF Types
<1>2. CASE k \in 1 .. Len(file)
  <2>1. \A l \in 1 .. k : l \in 1 .. Len(file)
    BY <1>1, <1>2
  <2>2. f[k] = file[k] /\ \A l \in 1 .. k : f[l] = file[l]
    BY Zenon, <1>0, <1>2, <2>1
  <2> QED BY Zenon, <1>2, <2>2 DEF FrameOrder
<1>3. CASE k - Len(file) \in 1 .. Len(ids) /\ ids[k - Len(file)] = j
  <2> DEFINE h == k - Len(file)
  <2>1. /\ h \in 1 .. Len(ids) /\ \A l \in 1 .. Len(file) : l \in 1 .. k
        /\ \A l \in 1 .. h : l \in 1 .. Len(ids) /\ Len(file) + l \in 1 .. k
    BY <1>1, <1>3
  <2>2. h \in 1 .. Len(buffer) /\ buffer[h] = j
    BY Zenon, <1>3
  <2> HIDE DEF h
  <2>3. InFile(i) \/ \E l \in 1 .. h : buffer[l] = i
    BY Zenon, <2>2 DEF BufferOrder
  <2>4. CASE InFile(i)
    BY Zenon, <1>0, <2>1, <2>4 DEF InFile
  <2>5. ASSUME NEW l \in 1 .. h, buffer[l] = i PROVE Stands(f[Len(file) + l], i)
    <3>1. l \in 1 .. Len(ids) /\ ids[l] = i
      BY Zenon, <2>1, <2>5
    <3> QED BY Zenon, <1>0, <3>1
  <2> QED BY Zenon, <2>1, <2>3, <2>4, <2>5
<1> QED BY Zenon, <1>0, <1>2, <1>3

\* The end of a flush leaves the records alone.  After a shutdown the writer
\* drops what is left in the channel, which is nothing after a clean one.
LEMMA FlushDoneOrder ==
  ASSUME Control, FlushDone, phase # "down", UNCHANGED <<history, barrier, cur, phase>>
  PROVE  /\ \A i : Logging(i)' <=> Logging(i)
         /\ chan' = chan \/ (chan' = <<>> /\ ~Open')
         /\ Serving' => \A i : InChan(i) => InChan(i)'
<1>1. /\ job.kind # "shutdown" => chan' = chan /\ wpc' = "recv"
      /\ job.kind = "shutdown" => chan' = <<>> /\ wpc' = "stopped"
      /\ \A c \in Clients : (cpc'[c] = "log") = (cpc[c] = "log")
  BY Zenon, FlushDoneControl
<1>2. \A i : Logging(i)' <=> Logging(i)
  BY Zenon, <1>1 DEF Logging
<1>3. chan' = chan \/ (chan' = <<>> /\ ~Open')
  BY Zenon, <1>1 DEF Open
<1>4. Serving' /\ job.kind = "shutdown" => chan' = chan
  BY Zenon, <1>1 DEF Serving, Open, Control, Stopping
<1>5. Serving' => chan' = chan
  BY Zenon, <1>1, <1>4
<1> QED BY Zenon, <1>2, <1>3, <1>5 DEF InChan

\* The buffer goes to the end of the file.
LEMMA FlushWriteOrder ==
  ASSUME Control, Kept, Ordered, FlushWrite
  PROVE  Kept' /\ Ordered'
<1>1. /\ UNCHANGED <<history, barrier, cur, lost, phase>> /\ phase # "down"
      /\ wpc = "write" /\ file' = file \o Frames(buffer) /\ buffer' = <<>>
      /\ FlushDone \/ (wpc' = "sync" /\ UNCHANGED <<chan, cpc>>)
  BY Zenon DEF FlushWrite, Running
<1>2. Open /\ Types /\ buffer \in Seq(Nat) /\ file \in Seq(Frame)
  BY Zenon, <1>1 DEF Open, Control, Types
<1>3. Extends(file', file, buffer)
  <2>1. file \o Frames(buffer) \in Seq(Frame)
    BY <1>2, FramesShape, ConcatShape
  <2>2. file' = file \o Frames(buffer) \o <<>>
    BY <1>1, <2>1
  <2> QED BY Zenon, <2>2 DEF Extends
<1>4. \A i : (InFile(i) => InFile(i)') /\ (InBuffer(i) => InFile(i)')
  <2>0. /\ \A k \in 1 .. Len(file) : k \in 1 .. Len(file') /\ file'[k] = file[k]
        /\ \A k \in 1 .. Len(buffer) :
             /\ Len(file) + k \in 1 .. Len(file')
             /\ \A i : Stands(file'[Len(file) + k], i) <=> buffer[k] = i
    BY Zenon, <1>2, <1>3, ExtendedFrames
  <2>1. \A i : InFile(i) => InFile(i)'
    BY Zenon, <2>0 DEF InFile
  <2>2. \A i : InBuffer(i) => InFile(i)'
    BY Zenon, <2>0 DEF InFile, InBuffer
  <2> QED BY Zenon, <2>1, <2>2
<1>5. /\ \A i : Logging(i)' <=> Logging(i)
      /\ chan' = chan \/ (chan' = <<>> /\ ~Open')
      /\ Serving' => \A i : InChan(i) => InChan(i)'
  <2>1. CASE FlushDone
    BY Zenon, <1>1, <2>1, FlushDoneOrder
  <2>2. CASE wpc' = "sync" /\ UNCHANGED <<chan, cpc>>
    BY Zenon, <1>1, <2>2 DEF Logging, InChan
  <2> QED BY Zenon, <1>1, <2>1, <2>2
<1>6. ASSUME NEW i, NEW j, FrameOrder(file, i, j), BufferOrder(i, j)
      PROVE  FrameOrder(file', i, j) /\ BufferOrder(i, j)'
  <2>1. FrameOrder(file', i, j)
    BY Zenon, <1>2, <1>3, <1>6, ExtendedOrder
  <2>2. 1 .. Len(buffer') = {}
    BY <1>1
  <2> QED BY Zenon, <2>1, <2>2 DEF BufferOrder
<1> QED BY Zenon, <1>1, <1>2, <1>4, <1>5, <1>6, FlushedOrder

\* A failed write leaves some of the buffer in the file; it keeps all of it, or
\* drops it and counts the rest as lost.
LEMMA FlushFailsOrder ==
  ASSUME Control, Kept, Ordered, WriteAllFails \/ FlushFails
  PROVE  Kept' /\ Ordered'
<1>1. /\ UNCHANGED <<history, barrier, cur, phase>>
      /\ phase # "down" /\ wpc = "write" /\ FlushDone
  BY Zenon DEF WriteAllFails, FlushFails, Running
<1>2. Open /\ Types /\ buffer \in Seq(Nat) /\ Len(buffer) \in Nat
  <2>1. Open /\ Types
    BY Zenon, <1>1 DEF Open, Control
  <2> QED BY <2>1 DEF Types
<1>3. PICK n \in 0 .. Len(buffer) - 1 :
        /\ PartWritten(n)
        /\ \/ buffer' = buffer /\ lost' = lost
           \/ /\ buffer' = <<>>
              /\ lost' = lost \cup {buffer[i] : i \in n + 1 .. Len(buffer)}
  BY Zenon, FailedFlush
<1>4. /\ n \in 0 .. Len(buffer)
      /\ file' = file \/ Extends(file', file, SubSeq(buffer, 1, n))
  BY Zenon, <1>3, FailedWrite
<1>5. n = 0 \/ Extends(file', file, SubSeq(buffer, 1, n))
  BY Zenon, <1>3 DEF PartWritten, Extends
<1> DEFINE ids == SubSeq(buffer, 1, n)
<1>6. /\ ids \in Seq(Nat) /\ Len(ids) = n
      /\ \A k \in 1 .. Len(ids) : k \in 1 .. Len(buffer) /\ ids[k] = buffer[k]
  BY <1>2, <1>4, PartShape
<1> HIDE DEF ids
<1>7. ASSUME Extends(file', file, ids)
      PROVE  \A i : /\ InFile(i) => InFile(i)'
                    /\ \A k \in 1 .. Len(ids) : ids[k] = i => InFile(i)'
  <2>1. \A k \in 1 .. Len(file) : k \in 1 .. Len(file') /\ file'[k] = file[k]
    BY <1>2, <1>6, <1>7, ExtendedFrames
  <2>2. \A k \in 1 .. Len(ids) :
          /\ Len(file) + k \in 1 .. Len(file')
          /\ \A i : Stands(file'[Len(file) + k], i) <=> ids[k] = i
    BY Zenon, <1>2, <1>6, <1>7, ExtendedFrames
  <2>3. \A i : InFile(i) => InFile(i)'
    BY Zenon, <2>1 DEF InFile
  <2> QED BY Zenon, <2>2, <2>3 DEF InFile
<1>8. \A i : InFile(i) => InFile(i)'
  <2>1. CASE file' = file
    BY Zenon, <2>1 DEF InFile
  <2> QED BY Zenon, <1>4, <1>7, <2>1 DEF ids
<1>9. ASSUME NEW i, i \notin lost', InBuffer(i)
      PROVE  InFile(i)' \/ InBuffer(i)'
  <2>1. CASE buffer' = buffer
    BY Zenon, <1>9, <2>1 DEF InBuffer
  <2>2. CASE lost' = lost \cup {buffer[k] : k \in n + 1 .. Len(buffer)}
    <3>1. PICK k \in 1 .. Len(buffer) : buffer[k] = i
      BY Zenon, <1>9 DEF InBuffer
    <3>2. k \notin n + 1 .. Len(buffer)
      BY Zenon, <1>9, <2>2, <3>1
    <3>3. n # 0 /\ k \in 1 .. Len(ids)
      BY <1>2, <1>6, <3>1, <3>2
    <3> QED BY Zenon, <1>5, <1>6, <1>7, <3>1, <3>3 DEF ids
  <2> QED BY Zenon, <1>3, <2>1, <2>2
<1>10. /\ \A i : Logging(i)' <=> Logging(i)
       /\ chan' = chan \/ (chan' = <<>> /\ ~Open')
       /\ Serving' => \A i : InChan(i) => InChan(i)'
  BY Zenon, <1>1, FlushDoneOrder
<1>11. ASSUME NEW i, NEW j, FrameOrder(file, i, j), BufferOrder(i, j)
       PROVE  FrameOrder(file', i, j) /\ BufferOrder(i, j)'
  <2>1. FrameOrder(file', i, j)
    <3>1. CASE file' = file
      BY Zenon, <1>11, <3>1
    <3>2. CASE Extends(file', file, ids)
      BY Zenon, <1>2, <1>6, <1>11, <3>2, ExtendedOrder
    <3> QED BY Zenon, <1>4, <3>1, <3>2 DEF ids
  <2>2. buffer' = <<>> => 1 .. Len(buffer') = {}
    OBVIOUS
  <2>3. BufferOrder(i, j)'
    BY Zenon, <1>3, <1>8, <1>11, <2>2 DEF BufferOrder
  <2> QED BY Zenon, <2>1, <2>3
<1>12. lost \subseteq lost'
  BY Zenon, <1>3
<1> QED BY Zenon, <1>1, <1>2, <1>8, <1>9, <1>10, <1>11, <1>12, FlushedOrder

\* fsync, done or failed, moves no mutation.
LEMMA FlushSyncOrder ==
  ASSUME Control, Kept, Ordered, FlushSync
  PROVE  Kept' /\ Ordered'
<1>1. /\ UNCHANGED <<history, barrier, cur, buffer, file, lost, phase>>
      /\ phase # "down" /\ wpc = "sync" /\ FlushDone
  BY Zenon DEF FlushSync, Running
<1>2. Open
  BY Zenon, <1>1 DEF Open
<1>3. \A i : (InFile(i)' <=> InFile(i)) /\ (InBuffer(i)' <=> InBuffer(i))
  BY Zenon, <1>1 DEF InFile, InBuffer
<1>4. /\ \A i : Logging(i)' <=> Logging(i)
      /\ chan' = chan \/ (chan' = <<>> /\ ~Open')
      /\ Serving' => \A i : InChan(i) => InChan(i)'
  BY Zenon, <1>1, FlushDoneOrder
<1>5. \A i, j : /\ FrameOrder(file', i, j) <=> FrameOrder(file, i, j)
                /\ BufferOrder(i, j)' <=> BufferOrder(i, j)
  BY Zenon, <1>1, <1>3 DEF FrameOrder, BufferOrder
<1> QED BY Zenon, <1>1, <1>2, <1>3, <1>4, <1>5, FlushedOrder

-----------------------------------------------------------------------------
(* The end of the process *)

\* What a crash leaves of the file is in order, whatever was being written.
LEMMA CutOrder ==
  ASSUME Control, NEW n \in 0 .. Len(file), Cut(n),
         NEW i, NEW j, FrameOrder(file, i, j), BufferOrder(i, j)
  PROVE  FrameOrder(file', i, j)
<1>1. PICK m \in n .. Len(Written) :
        /\ \A k \in 1 .. m : k \in 1 .. Len(Written) /\ file'[k] = Written[k]
        /\ \A k \in 1 .. Len(file') : k \in 1 .. m \/ file'[k] = Torn
  BY Zenon, CutShape
<1>2. FrameOrder(Written, i, j)
  <2> DEFINE w == Written
  <2>1. /\ w = file \/ Extends(w, file, buffer)
        /\ Types /\ buffer \in Seq(Nat)
    BY Zenon, WrittenShape DEF Control, Types
  <2> HIDE DEF w
  <2>2. FrameOrder(w, i, j)
    BY Zenon, <2>1, ExtendedOrder
  <2> QED BY Zenon, <2>2 DEF w
<1>3. m \in Int
  BY <1>1, WrittenShape
<1> SUFFICES ASSUME NEW k \in 1 .. Len(file'), Stands(file'[k], j)
             PROVE  \E l \in 1 .. k : Stands(file'[l], i)
  BY Zenon DEF FrameOrder
<1>4. file'[k] # Torn
  BY DEF Stands, Torn
<1>5. k \in 1 .. m /\ \A l \in 1 .. k : l \in 1 .. m
  <2>1. k \in 1 .. m
    BY Zenon, <1>1, <1>4
  <2> QED BY <1>3, <2>1
<1>6. \E l \in 1 .. k : Stands(Written[l], i)
  <2>1. k \in 1 .. Len(Written) /\ Stands(Written[k], j)
    BY Zenon, <1>1, <1>5
  <2> QED BY Zenon, <1>2, <2>1 DEF FrameOrder
<1> QED BY Zenon, <1>1, <1>5, <1>6

\* The end of the process, clean or not, leaves a file in order.
LEMMA EndOrder ==
  ASSUME Control, Ordered, Crash \/ Kill \/ Exit
  PROVE  Kept' /\ Ordered'
<1>1. Die /\ UNCHANGED <<history, lost>>
  BY Zenon DEF Crash, Kill, Exit, diskVars
<1>2. /\ phase' = "down" /\ chan' = <<>> /\ buffer' = <<>>
      /\ \A c \in Clients : cpc'[c] = "idle"
  BY Zenon, <1>1 DEF Die
<1>3. Kept'
  BY Zenon, <1>2 DEF Kept, Serving
<1>4. \E n \in 0 .. Len(file) : file' = file \/ Cut(n)
  <2>1. synced \in 0 .. Len(file) /\ Len(file) \in 0 .. Len(file)
    BY DEF Control, Types
  <2> QED BY Zenon, <2>1 DEF Crash, Kill, Exit, diskVars
<1>5. Ordered'
  <2> SUFFICES ASSUME NEW i, NEW j, i \notin lost', Follows(i, j)'
               PROVE  (FrameOrder(file, i, j) /\ BufferOrder(i, j)
                        /\ ChanOrder(i, j) /\ LogOrder(i, j))'
    BY Zenon DEF Ordered
  <2>1. i \notin lost /\ Follows(i, j)
    BY Zenon, <1>1 DEF Follows
  <2>2. FrameOrder(file, i, j) /\ BufferOrder(i, j)
    BY Zenon, <2>1, InOrder
  <2>3. FrameOrder(file', i, j)
    BY Zenon, <1>4, <2>2, CutOrder
  <2>4. 1 .. Len(buffer') = {} /\ 1 .. Len(chan') = {}
    BY <1>2
  <2>5. BufferOrder(i, j)' /\ ChanOrder(i, j)'
    BY Zenon, <2>4 DEF BufferOrder, ChanOrder
  <2>6. LogOrder(i, j)'
    BY <1>2 DEF LogOrder, Logging
  <2> QED BY Zenon, <2>3, <2>5, <2>6
<1> QED BY Zenon, <1>3, <1>5

=============================================================================
