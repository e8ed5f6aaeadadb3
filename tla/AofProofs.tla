------------------------------ MODULE AofProofs ------------------------------
(***************************************************************************)
(* Recovery, and the theorems about the append-only file, for any clients, *)
(* mutations, channel capacity, policies and numbers of rewrites, I/O      *)
(* errors and restarts.                                                    *)
(***************************************************************************)
EXTENDS AofOrderProofs, WellFoundedInduction

\* The obligations are easy but many: more than the default time for each.
USE SMTT(30)

\* The first of some positions.
LEMMA MinNat ==
  ASSUME NEW T, T \subseteq Nat, T # {}
  PROVE  Min(T) \in T /\ \A y \in T : Min(T) <= y
<1>1. PICK x \in T : \A y \in T : ~(<<y, x>> \in OpToRel(<, Nat))
  <2> DEFINE R == OpToRel(<, Nat)
  <2>1. IsWellFoundedOn(R, Nat)
    BY Zenon, NatLessThanWellFounded
  <2> HIDE DEF R
  <2>2. \E x \in T : \A y \in T : ~(<<y, x>> \in R)
    BY Zenon, <2>1, WFMin
  <2> QED BY Zenon, <2>2 DEF R
<1>2. \A y \in T : x <= y
  <2> TAKE y \in T
  <2>1. ~(y < x)
    BY Zenon, <1>1 DEF OpToRel
  <2> QED BY <2>1
<1> QED BY Zenon, <1>2 DEF Min

\* Replay reads the frames before the first that is not whole.
LEMMA ReadableShape ==
  ASSUME NEW fs \in Seq(Frame)
  PROVE  \E r \in 0 .. Len(fs) :
           /\ Readable(fs) = SubSeq(fs, 1, r)
           /\ \A k \in 1 .. r : fs[k].kind # "torn"
           /\ r = Len(fs) => Readable(fs) = fs
           /\ r # Len(fs) => Readable(fs) # fs
<1> DEFINE bad == {i \in DOMAIN fs : fs[i].kind = "torn"}
<1>1. DOMAIN fs = 1 .. Len(fs) /\ Len(fs) \in Nat /\ bad \subseteq 1 .. Len(fs)
  OBVIOUS
<1>2. CASE bad = {}
  <2>1. Readable(fs) = fs /\ fs = SubSeq(fs, 1, Len(fs))
    BY <1>2 DEF Readable
  <2>2. \A k \in 1 .. Len(fs) : fs[k].kind # "torn"
    BY Zenon, <1>1, <1>2
  <2>3. Len(fs) \in 0 .. Len(fs)
    BY <1>1
  <2> QED BY Zenon, <2>1, <2>2, <2>3
<1>3. CASE bad # {}
  <2> DEFINE m == Min(bad)
  <2>1. m \in bad /\ \A y \in bad : m <= y
    <3> HIDE DEF bad
    <3>1. bad \subseteq Nat
      BY <1>1
    <3> QED BY Zenon, <1>3, <3>1, MinNat
  <2>2. Readable(fs) = SubSeq(fs, 1, m - 1)
    BY Zenon, <1>3 DEF Readable
  <2> HIDE DEF m
  <2>3. m \in 1 .. Len(fs) /\ m - 1 \in 0 .. Len(fs) /\ m - 1 # Len(fs)
    BY <1>1, <2>1
  <2>4. \A k \in 1 .. (m - 1) : fs[k].kind # "torn"
    BY <1>1, <2>1, <2>3
  <2>5. Readable(fs) # fs
    BY <2>2, <2>3
  <2> QED BY <2>2, <2>3, <2>4, <2>5
<1> QED BY Zenon, <1>2, <1>3

-----------------------------------------------------------------------------
(* Control: recovery *)

\* Recovery reads r frames, of which the first may be a snapshot of b mutations,
\* and names them after their places in the history they make.
Recovers(r, s, b) ==
  /\ r \in Nat /\ b \in Nat /\ s \in {0, 1} /\ s <= r /\ (s = 0 => b = 0)
  /\ history' \in Seq(Write) /\ Len(history') = b + r - s
  /\ file' \in Seq(Frame) /\ Len(file') \in Nat /\ Len(file') >= r
  /\ s = 1 => file'[1].kind = "snap" /\ file'[1].id = b
  /\ \A k \in 1 .. r : k > s => file'[k] = Cmd(b + k - s)
  /\ \A k \in 1 .. Len(file') : k \in 1 .. r \/ file'[k] = Torn

\* What recovery makes of the file has that shape.
LEMMA RecoverShape ==
  ASSUME Control, Recover
  PROVE  \E r, s, b \in Nat : Recovers(r, s, b)
<1>0. /\ Types /\ FileIds
      /\ file \in Seq(Frame) /\ history \in Seq(Write)
      /\ Len(file) \in Nat /\ Len(history) \in Nat
  BY DEF Control, Ids, Types
<1> DEFINE read == Readable(file)
           s == Snaps(read)
           b == Base(read)
           named == [i \in DOMAIN read |-> IF i <= s THEN read[i] ELSE Cmd(b + i - s)]
           rest == IF read = file THEN <<>> ELSE <<Torn>>
           old == SubSeq(history, 1, b)
<1>1. history' = Expand(read) /\ file' = named \o rest
  BY Zenon DEF Recover
<1>2. PICK r \in 0 .. Len(file) :
        read = SubSeq(file, 1, r) /\ \A k \in 1 .. r : file[k].kind # "torn"
  BY Zenon, <1>0, ReadableShape
<1> HIDE DEF read
<1>3. /\ read \in Seq(Frame) /\ Len(read) = r /\ r \in Nat /\ DOMAIN read = 1 .. r
      /\ \A k \in 1 .. r : k \in 1 .. Len(file) /\ read[k] = file[k]
  <2>1. /\ SubSeq(file, 1, r) \in Seq(Frame) /\ Len(SubSeq(file, 1, r)) = r
        /\ \A k \in 1 .. r : k \in 1 .. Len(file) /\ SubSeq(file, 1, r)[k] = file[k]
    BY Zenon, <1>0, PartShape
  <2>2. read \in Seq(Frame) /\ Len(read) = r /\ r \in Nat
    BY <1>0, <1>2, <2>1
  <2>3. DOMAIN read = 1 .. Len(read)
    BY <2>2
  <2> QED BY Zenon, <1>2, <2>1, <2>2, <2>3
<1>4. \A k \in 1 .. r :
        /\ read[k] \in Frame /\ read[k].kind \in {"cmd", "snap"} /\ read[k].id \in Nat
        /\ read[k].kind = "cmd" => read[k].id \in 1 .. Len(history)
        /\ read[k].kind = "snap" => k = 1 /\ read[k].id <= Len(history)
  <2>1. \A k \in 1 .. r : read[k] \in Frame
    BY <1>3
  <2>2. \A k \in 1 .. r : read[k].kind \in {"cmd", "snap", "torn"} /\ read[k].id \in Nat
    BY Zenon, <2>1 DEF Frame
  <2> QED BY <1>0, <1>2, <1>3, <2>1, <2>2 DEF FileIds
<1>5. /\ s \in {0, 1} /\ b \in 0 .. Len(history) /\ s <= r /\ (s = 0 => b = 0)
      /\ s = 1 => read[1].kind = "snap" /\ read[1].id = b /\ r >= 1
      /\ s = 0 /\ r >= 1 => read[1].kind # "snap"
  <2>1. read = <<>> <=> r = 0
    BY <1>3
  <2>2. CASE read # <<>> /\ read[1].kind = "snap"
    <3>1. s = 1 /\ b = read[1].id
      BY Zenon, <2>2 DEF Snaps, Base
    <3>2. r >= 1 /\ 1 \in 1 .. r
      BY <1>3, <2>1, <2>2
    <3> QED BY <1>0, <1>4, <2>2, <3>1, <3>2
  <2>3. CASE ~(read # <<>> /\ read[1].kind = "snap")
    <3>1. s = 0 /\ b = 0
      BY <2>3 DEF Snaps, Base
    <3> QED BY <1>0, <1>3, <2>1, <2>3, <3>1
  <2> QED BY Zenon, <2>2, <2>3
<1> DEFINE new == [i \in 1 .. r - s |-> history[read[i + s].id]]
<1>6. history' = old \o new
  BY Zenon, <1>1, <1>3 DEF Expand
<1> HIDE DEF s, b
<1>7. \A k \in 1 .. r : k > s => read[k].kind = "cmd"
  BY <1>3, <1>4, <1>5
<1>8. new \in Seq(Write) /\ Len(new) = r - s
  <2>1. ASSUME NEW i \in 1 .. r - s PROVE history[read[i + s].id] \in Write
    <3>1. i + s \in 1 .. r /\ i + s > s
      BY <1>3, <1>5
    <3>2. read[i + s].id \in 1 .. Len(history)
      BY Zenon, <1>4, <1>7, <3>1
    <3> QED BY <1>0, <3>2
  <2>2. r - s \in Nat
    BY <1>3, <1>5
  <2> QED BY <2>1, <2>2
<1>9. old \in Seq(Write) /\ Len(old) = b
  BY <1>0, <1>5, PartShape
<1>10. history' \in Seq(Write) /\ Len(history') = b + r - s
  <2> HIDE DEF old, new
  <2>1. old \o new \in Seq(Write) /\ Len(old \o new) = Len(old) + Len(new)
    BY Zenon, <1>8, <1>9, ConcatShape
  <2> QED BY Zenon, <1>3, <1>5, <1>6, <1>8, <1>9, <2>1
<1>11. /\ named \in Seq(Frame) /\ Len(named) = r
       /\ \A k \in 1 .. r : named[k] = IF k <= s THEN read[k] ELSE Cmd(b + k - s)
  <2>1. ASSUME NEW k \in 1 .. r
        PROVE  (IF k <= s THEN read[k] ELSE Cmd(b + k - s)) \in Frame
    <3>1. k > s => b + k - s \in Nat
      BY <1>0, <1>3, <1>5
    <3>2. k > s => Cmd(b + k - s) \in Frame
      BY Zenon, <3>1 DEF Cmd, Frame
    <3> QED BY <1>3, <1>4, <1>5, <3>2
  <2> QED BY <1>3, <2>1
<1>12. rest \in Seq(Frame) /\ Len(rest) \in Nat /\ \A k \in 1 .. Len(rest) : rest[k] = Torn
  <2>1. Torn \in Frame
    BY Zenon DEF Torn, Frame
  <2>2. CASE rest = <<>>
    BY <2>2
  <2>3. CASE rest = <<Torn>>
    BY <2>1, <2>3
  <2> QED BY Zenon, <2>2, <2>3
<1> HIDE DEF named, rest
<1>13. /\ file' \in Seq(Frame) /\ Len(file') = r + Len(rest)
       /\ \A k \in 1 .. r : file'[k] = named[k]
       /\ \A k \in 1 .. Len(rest) : file'[r + k] = rest[k]
  <2>1. named \in Seq(Frame) /\ rest \in Seq(Frame)
    BY Zenon, <1>11, <1>12
  <2>2. /\ named \o rest \in Seq(Frame) /\ Len(named \o rest) = Len(named) + Len(rest)
        /\ \A k \in 1 .. Len(named) : (named \o rest)[k] = named[k]
        /\ \A k \in 1 .. Len(rest) : (named \o rest)[Len(named) + k] = rest[k]
    BY <2>1, ConcatShape
  <2> QED BY Zenon, <1>1, <1>11, <2>2
<1>14. ASSUME NEW k \in 1 .. Len(file'), k \notin 1 .. r PROVE file'[k] = Torn
  <2>1. k - r \in 1 .. Len(rest) /\ k = r + (k - r)
    BY <1>3, <1>12, <1>13, <1>14
  <2> QED BY Zenon, <1>12, <1>13, <2>1
<1>15. Len(file') \in Nat /\ Len(file') >= r
  BY <1>3, <1>12, <1>13
<1>16. s = 1 => file'[1].kind = "snap" /\ file'[1].id = b
  BY <1>3, <1>5, <1>11, <1>13
<1>17. \A k \in 1 .. r : k > s => file'[k] = Cmd(b + k - s)
  BY <1>3, <1>5, <1>11, <1>13
<1>18. r \in Nat /\ s \in Nat /\ b \in Nat
  BY <1>0, <1>3, <1>5
<1>19. Recovers(r, s, b)
  BY Zenon, <1>5, <1>10, <1>13, <1>14, <1>15, <1>16, <1>17, <1>18 DEF Recovers
<1> QED BY Zenon, <1>18, <1>19

\* Recovery starts the tasks and the writer afresh.
LEMMA RecoverControl ==
  ASSUME Control, Recover
  PROVE  Control'
<1>0. Flags /\ Types /\ Barred /\ Waiting /\ Stopping /\ Dead /\ Io
  BY Zenon DEF Control
<1>1. /\ UNCHANGED <<policy, barrier, cpc, cur, acked, chan, wpc, job, buffer, calls, faults>>
      /\ phase = "down" /\ phase' = "up" /\ restarts' = restarts + 1
      /\ synced' = IF synced < Len(file') THEN synced ELSE Len(file')
  BY Zenon DEF Recover, clientVars, writerVars
<1>2. UNCHANGED <<writable, due>> /\ lost' = {}
  BY Zenon DEF Recover, writerVars
<1>3. PICK r \in Nat, s \in Nat, b \in Nat : Recovers(r, s, b)
  BY Zenon, RecoverShape
<1>4. /\ s \in {0, 1} /\ s <= r /\ (s = 0 => b = 0)
      /\ history' \in Seq(Write) /\ Len(history') = b + r - s
      /\ file' \in Seq(Frame) /\ Len(file') \in Nat /\ Len(file') >= r
      /\ s = 1 => file'[1].kind = "snap" /\ file'[1].id = b
      /\ \A k \in 1 .. r : k > s => file'[k] = Cmd(b + k - s)
      /\ \A k \in 1 .. Len(file') : k \in 1 .. r \/ file'[k] = Torn
  BY Zenon, <1>3 DEF Recovers
<1>5. FileIds'
  <2> SUFFICES ASSUME NEW k \in 1 .. Len(file')
               PROVE  /\ file'[k].kind = "cmd" => file'[k].id \in 1 .. Len(history')
                      /\ file'[k].kind = "snap" => k = 1 /\ file'[k].id <= Len(history')
    BY Zenon DEF FileIds
  <2>1. CASE k \in 1 .. r /\ k > s
    <3>1. b + k - s \in 1 .. Len(history')
      BY <1>4, <2>1
    <3>2. file'[k] = Cmd(b + k - s)
      BY Zenon, <1>4, <2>1
    <3>3. file'[k].kind = "cmd" /\ file'[k].id = b + k - s
      BY <3>2 DEF Cmd
    <3> QED BY Zenon, <3>1, <3>3
  <2>2. CASE k \in 1 .. r /\ ~(k > s)
    <3>1. k = 1 /\ s = 1
      BY <1>4, <2>2
    <3> QED BY <1>4, <3>1
  <2>3. CASE file'[k] = Torn
    BY <2>3 DEF Torn
  <2> QED BY Zenon, <1>4, <2>1, <2>2, <2>3
<1>6. /\ wpc = "recv" /\ job = Tick /\ chan = <<>> /\ buffer = <<>> /\ barrier = None
      /\ \A c \in Clients : cpc[c] = "idle"
  BY Zenon, <1>0, <1>1 DEF Dead
<1>7. Flags'
  BY <1>0, <1>2, Zenon DEF Flags
<1>8. Types'
  <2>1. synced' \in 0 .. Len(file')
    BY <1>0, <1>1, <1>4 DEF Types
  <2>2. restarts' \in Nat
    BY <1>0, <1>1 DEF Types
  <2> QED BY Zenon, <1>0, <1>1, <1>4, <2>1, <2>2 DEF Types, Phases
<1>9. BufferIds' /\ SentIds' /\ Barred'
  <2>1. /\ Len(chan') = 0 /\ Len(buffer') = 0
        /\ \A c \in Clients : cpc'[c] = "idle"
    BY Zenon, <1>1, <1>6
  <2> QED BY <2>1 DEF BufferIds, SentIds, Barred
<1>10. Waiting' /\ Stopping' /\ Dead'
  BY <1>1, <1>6 DEF Waiting, Stopping, Dead, Tick
<1>11. Io'
  BY Zenon, <1>0, <1>1, <1>2, <1>6 DEF Io
<1> QED BY Zenon, <1>5, <1>7, <1>8, <1>9, <1>10, <1>11 DEF Control, Ids

\* Recovery leaves frame after frame in the order of the history it makes.
LEMMA RecoverOrder ==
  ASSUME Control, Recover
  PROVE  Kept' /\ Ordered'
<1>1. /\ UNCHANGED <<cpc, chan, buffer>> /\ phase = "down"
      /\ chan = <<>> /\ buffer = <<>> /\ \A c \in Clients : cpc[c] = "idle"
  BY Zenon DEF Recover, clientVars, writerVars, Control, Dead
<1>2. PICK r \in Nat, s \in Nat, b \in Nat : Recovers(r, s, b)
  BY Zenon, RecoverShape
<1>3. /\ s \in {0, 1} /\ s <= r /\ (s = 0 => b = 0)
      /\ Len(history') = b + r - s /\ Len(file') \in Nat /\ Len(file') >= r
      /\ s = 1 => file'[1].kind = "snap" /\ file'[1].id = b
      /\ \A k \in 1 .. r : k > s => file'[k] = Cmd(b + k - s)
      /\ \A k \in 1 .. Len(file') : k \in 1 .. r \/ file'[k] = Torn
  BY Zenon, <1>2 DEF Recovers
<1> DEFINE pos(x) == IF x <= b THEN 1 ELSE x - b + s
<1>4. ASSUME NEW x \in 1 .. Len(history')
      PROVE  pos(x) \in 1 .. Len(file') /\ Stands(file'[pos(x)], x)
  <2>1. CASE x <= b
    <3>1. s = 1 /\ 1 \in 1 .. Len(file')
      BY <1>3, <2>1
    <3> QED BY <1>3, <2>1, <3>1 DEF Stands
  <2>2. CASE ~(x <= b)
    <3>1. /\ pos(x) \in 1 .. r /\ pos(x) > s /\ b + pos(x) - s = x
          /\ pos(x) \in 1 .. Len(file')
      BY <1>3, <2>2
    <3> HIDE DEF pos
    <3>2. file'[pos(x)] = Cmd(x)
      BY Zenon, <1>3, <3>1
    <3> QED BY <3>1, <3>2 DEF Stands, Cmd
  <2> QED BY Zenon, <2>1, <2>2
<1>5. ASSUME NEW i \in 1 .. Len(history'), NEW j \in 1 .. Len(history'), i < j,
             NEW k \in 1 .. Len(file'), Stands(file'[k], j)
      PROVE  pos(i) \in 1 .. k
  <2>1. k \in 1 .. r
    BY <1>3, <1>5 DEF Stands, Torn
  <2>2. CASE k > s
    <3>1. file'[k] = Cmd(b + k - s)
      BY Zenon, <1>3, <2>1, <2>2
    <3>2. j = b + k - s
      BY <1>5, <3>1 DEF Stands, Cmd
    <3> QED BY <1>3, <1>5, <2>1, <2>2, <3>2
  <2>3. CASE ~(k > s)
    <3>1. k = 1 /\ s = 1
      BY <1>3, <2>1, <2>3
    <3>2. j \in 1 .. b
      BY <1>3, <1>5, <3>1 DEF Stands
    <3> QED BY <1>5, <3>1, <3>2
  <2> QED BY Zenon, <2>2, <2>3
<1> HIDE DEF pos
<1>6. Kept'
  BY Zenon, <1>4 DEF Kept, OnItsWay, InFile
<1>7. Ordered'
  <2> SUFFICES ASSUME NEW i, NEW j, Follows(i, j)'
               PROVE  (FrameOrder(file, i, j) /\ BufferOrder(i, j)
                        /\ ChanOrder(i, j) /\ LogOrder(i, j))'
    BY Zenon DEF Ordered
  <2>1. FrameOrder(file, i, j)'
    BY Zenon, <1>4, <1>5 DEF FrameOrder, Follows
  <2>2. 1 .. Len(buffer') = {} /\ 1 .. Len(chan') = {}
    BY <1>1
  <2>3. BufferOrder(i, j)' /\ ChanOrder(i, j)'
    BY Zenon, <2>2 DEF BufferOrder, ChanOrder
  <2>4. LogOrder(i, j)'
    BY <1>1 DEF LogOrder, Logging
  <2> QED BY Zenon, <2>1, <2>3, <2>4
<1> QED BY Zenon, <1>6, <1>7

-----------------------------------------------------------------------------

\* Every step keeps the control part.
LEMMA NextControl == Control /\ [Next]_vars => Control'
<1> SUFFICES ASSUME Control, [Next]_vars PROVE Control'
  BY Zenon
<1>1. CASE UNCHANGED vars
  <2>1. /\ UNCHANGED <<policy, history, barrier, cpc, cur, acked, chan, wpc, job, buffer>>
        /\ UNCHANGED <<file, synced, phase, calls, restarts, faults>>
    BY Zenon, <1>1 DEF vars, clientVars, writerVars, diskVars, boundVars
  <2>2. UNCHANGED <<writable, due, lost>>
    BY Zenon, <1>1 DEF vars, writerVars, diskVars
  <2>3. Flags' /\ Io'
    BY Zenon, <2>1, <2>2 DEF Control, Flags, Io
  <2>4. Types' /\ Ids' /\ Barred'
    BY Zenon, <2>1 DEF Control, Types, Ids, FileIds, BufferIds, SentIds, Barred
  <2>5. Waiting' /\ Stopping' /\ Dead'
    BY <2>1 DEF Control, Waiting, Stopping, Dead
  <2> QED BY Zenon, <2>3, <2>4, <2>5 DEF Control
<1>2. ASSUME NEW c \in Clients, Client(c) \/ Close(c) \/ RewriteWait(c) \/ FlushSend(c)
      PROVE  Control'
  BY Zenon, <1>2, TaskSteps, LocalControl, SendsControl
<1>3. ASSUME NEW c \in Clients, NEW w \in Writes, Execute(c, w) PROVE Control'
  BY Zenon, <1>3, ExecuteControl
<1>4. CASE Writer
  BY Zenon, <1>4, WriterRecordControl, WriterFlushControl, WriterSwapControl, TickControl,
     FlushWriteControl, FlushFailsControl, FlushSyncControl DEF Writer, Serve
<1>5. CASE Second
  BY Zenon, <1>5, TickControl
<1>6. CASE ShutdownSignal \/ ShutdownPersistence
  BY Zenon, <1>6, ShutdownControl
<1>7. CASE Exit \/ Crash \/ Kill
  BY Zenon, <1>7, EndControl
<1>8. CASE Recover
  BY Zenon, <1>8, RecoverControl
<1> QED
  BY Zenon, <1>1, <1>2, <1>3, <1>4, <1>5, <1>6, <1>7, <1>8 DEF Next

\* The control part of the invariant: the rewrite barrier keeps a snapshot that
\* is on its way the whole store, each waiting task has one message, and nothing
\* follows the last message of a clean shutdown.
THEOREM ControlInvariance == Spec => []Control
BY InitControl, NextControl, PTL DEF Spec

\* The channel stays within AOF_CHANNEL_CAPACITY, nothing beyond the end of the
\* file counts as synced, and recovery makes a history of mutations from any
\* file a crash can leave (storage/persistence.rs).
THEOREM AofTypeCorrect == Spec => []TypeOK
<1>1. Control => TypeOK
  <2> SUFFICES ASSUME Control PROVE TypeOK
    BY Zenon
  <2>1. {writable, due} \subseteq BOOLEAN /\ lost \subseteq Nat
    BY Zenon DEF Control, Flags
  <2> QED BY Zenon, <2>1 DEF Control, Types, TypeOK
<1> QED BY <1>1, ControlInvariance, PTL

-----------------------------------------------------------------------------
(* Nothing lost, nothing out of order *)

\* There is no mutation yet.
LEMMA InitOrder == Init => Kept /\ Ordered
<1> SUFFICES ASSUME Init PROVE Kept /\ Ordered
  BY Zenon
<1>1. history = <<>>
  BY Zenon DEF Init
<1>2. 1 .. Len(history) = {}
  BY <1>1
<1> QED BY Zenon, <1>2 DEF Kept, Ordered

\* Every step keeps the whole invariant.
LEMMA NextInv == Inv /\ [Next]_vars => Inv'
<1> SUFFICES ASSUME Control, Kept, Ordered, [Next]_vars PROVE Kept' /\ Ordered'
  BY Zenon, NextControl DEF Inv
<1>1. CASE UNCHANGED vars
  <2>1. UNCHANGED <<history, cpc, cur, chan, wpc, buffer, file, phase, lost>>
    BY Zenon, <1>1 DEF vars, clientVars, writerVars, diskVars
  <2>2. Kept'
    BY Zenon, <2>1 DEF Kept, Serving, Open, OnItsWay, InFile, InBuffer, InChan, Logging
  <2>3. Ordered'
    <3> SUFFICES ASSUME NEW i, NEW j, i \notin lost, Follows(i, j)
                 PROVE  (FrameOrder(file, i, j) /\ BufferOrder(i, j)
                          /\ ChanOrder(i, j) /\ LogOrder(i, j))'
      BY Zenon, <2>1 DEF Ordered, Follows
    <3>1. FrameOrder(file, i, j) /\ BufferOrder(i, j) /\ ChanOrder(i, j) /\ LogOrder(i, j)
      BY Zenon, InOrder
    <3>2. FrameOrder(file, i, j)' /\ BufferOrder(i, j)' /\ ChanOrder(i, j)'
      BY Zenon, <2>1, <3>1 DEF FrameOrder, BufferOrder, ChanOrder, InFile, InBuffer
    <3>3. LogOrder(i, j)'
      BY Zenon, <2>1, <3>1 DEF LogOrder, Open, InFile, InBuffer, InChan, Logging
    <3> QED BY Zenon, <3>2, <3>3
  <2> QED BY Zenon, <2>2, <2>3
<1>2. ASSUME NEW c \in Clients, Client(c) \/ Close(c) \/ RewriteWait(c) \/ FlushSend(c)
      PROVE  Kept' /\ Ordered'
  BY Zenon, <1>2, TaskSteps, LocalOrder, SendsOrder
<1>3. ASSUME NEW c \in Clients, NEW w \in Writes, Execute(c, w) PROVE Kept' /\ Ordered'
  BY Zenon, <1>3, ExecuteOrder
<1>4. CASE Writer
  BY Zenon, <1>4, WriterRecordOrder, WriterFlushOrder, WriterSwapOrder, TickOrder,
     FlushWriteOrder, FlushFailsOrder, FlushSyncOrder DEF Writer, Serve
<1>5. CASE Second
  BY Zenon, <1>5, TickOrder
<1>6. CASE ShutdownSignal \/ ShutdownPersistence
  BY Zenon, <1>6, ShutdownOrder
<1>7. CASE Exit \/ Crash \/ Kill
  BY Zenon, <1>7, EndOrder
<1>8. CASE Recover
  BY Zenon, <1>8, RecoverOrder
<1> QED
  BY Zenon, <1>1, <1>2, <1>3, <1>4, <1>5, <1>6, <1>7, <1>8 DEF Next

\* The whole invariant: control; every mutation in the file or on its way there,
\* or lost by a flush or a swap that failed after the buffer was cleared; and
\* each client's other mutations in its order wherever they are on that way.
THEOREM AofInvariance == Spec => []Inv
<1>1. Init => Inv
  BY Zenon, InitControl, InitOrder DEF Inv
<1> QED BY <1>1, NextInv, PTL DEF Spec

\* Every mutation executed is in the file, in the writer's buffer, in the channel
\* or in the hands of its connection task, across rewrites, writes that are retried,
\* crashes and recoveries, but for those the buffer held when flush_to_disk or
\* swap_file failed after clearing it; without an I/O error there are no such
\* mutations (storage/persistence.rs).
THEOREM NothingLostAlways == Spec => []NothingLost
<1>1. Inv => NothingLost
  <2>0. Inv /\ faults = 0 => lost = {}
    <3>1. faults = 0 => ~(faults > 0)
      OBVIOUS
    <3> QED BY Zenon, <3>1 DEF Inv, Control, Io
  <2> SUFFICES ASSUME Control, Kept, phase \in {"up", "draining", "clean"},
                      NEW i \in DOMAIN history, i \notin lost
               PROVE  i \in Covers(file) \cup Pending
    BY Zenon, <2>0 DEF Inv, NothingLost
  <2>1. /\ file \in Seq(Frame) /\ buffer \in Seq(Nat) /\ chan \in Seq(Message)
        /\ history \in Seq(Write)
    BY Zenon DEF Control, Types
  <2>2. /\ DOMAIN history = 1 .. Len(history) /\ DOMAIN buffer = 1 .. Len(buffer)
        /\ DOMAIN chan = 1 .. Len(chan)
    BY <2>1
  <2>3. Serving
    BY DEF Control, Stopping, Serving, Open
  <2>4. OnItsWay(i)
    BY Zenon, <2>2, <2>3 DEF Kept
  <2>5. CASE InFile(i)
    BY Zenon, <2>1, <2>5, CoversStands DEF InFile
  <2>6. CASE InBuffer(i)
    BY Zenon, <2>2, <2>6 DEF InBuffer, Pending, Range
  <2>7. CASE InChan(i)
    BY Zenon, <2>2, <2>7 DEF InChan, Carries, Pending
  <2>8. CASE Logging(i)
    BY Zenon, <2>8 DEF Logging, Pending
  <2> QED BY Zenon, <2>4, <2>5, <2>6, <2>7, <2>8 DEF OnItsWay
<1> QED BY <1>1, AofInvariance, PTL

\* After a shutdown that closed every connection first and met no I/O error, every
\* mutation is on the disk, whatever the fsync policy: the writer drains its
\* channel before it stops, and its last flush syncs (storage/persistence.rs).
THEOREM CleanShutdownAlwaysSaves == Spec => []CleanShutdownSaves
<1>1. Inv => CleanShutdownSaves
  <2> SUFFICES ASSUME Control, Kept, phase = "clean", wpc = "stopped", faults = 0,
                      NEW i \in DOMAIN history
               PROVE  i \in Covers(SubSeq(file, 1, synced))
    BY Zenon DEF Inv, CleanShutdownSaves
  <2>1. file \in Seq(Frame) /\ history \in Seq(Write)
    BY Zenon DEF Control, Types
  <2>2. i \in 1 .. Len(history) /\ SubSeq(file, 1, Len(file)) = file
    BY <2>1
  <2>3. buffer = <<>> /\ synced = Len(file)
    BY Zenon DEF Control, Io
  <2>4. faults > 0 \/ lost = {}
    BY Zenon DEF Control, Io
  <2>5. ~(faults > 0)
    OBVIOUS
  <2>6. chan = <<>> /\ \A c \in Clients : cpc[c] = "closed"
    BY Zenon DEF Control, Stopping
  <2>7. ~InBuffer(i) /\ ~InChan(i) /\ ~Logging(i)
    BY <2>3, <2>6 DEF InBuffer, InChan, Logging
  <2>8. Serving
    BY DEF Serving
  <2>9. InFile(i)
    BY Zenon, <2>2, <2>4, <2>5, <2>7, <2>8 DEF Kept, OnItsWay
  <2> QED BY Zenon, <2>1, <2>2, <2>3, <2>9, CoversStands DEF InFile
<1> QED BY <1>1, AofInvariance, PTL

\* Whatever a crash keeps of the file beyond what was synced, the part recovery
\* reads has no hole but what a failed flush or swap has lost: with a mutation it
\* has every other earlier one of that client (storage/persistence.rs).
THEOREM CrashAlwaysKeepsPrefix == Spec => []CrashKeepsPrefix
<1>1. Inv => CrashKeepsPrefix
  <2> SUFFICES ASSUME Control, Ordered, NEW n \in synced .. Len(file),
                      NEW j \in Covers(Readable(SubSeq(file, 1, n))),
                      NEW i \in DOMAIN history, i \notin lost,
                      i < j, history[i].client = history[j].client
               PROVE  i \in Covers(Readable(SubSeq(file, 1, n)))
    BY Zenon DEF Inv, CrashKeepsPrefix
  <2>1. /\ file \in Seq(Frame) /\ history \in Seq(Write) /\ synced \in 0 .. Len(file)
        /\ FileIds
    BY Zenon DEF Control, Types, Ids
  <2> DEFINE left == SubSeq(file, 1, n)
             read == Readable(left)
  <2>2. left \in Seq(Frame) /\ Len(left) = n /\ \A k \in 1 .. n : left[k] = file[k]
    BY <2>1
  <2>3. PICK r \in 0 .. n : read = SubSeq(left, 1, r)
    <3> HIDE DEF left
    <3> QED BY Zenon, <2>2, ReadableShape
  <2> HIDE DEF left
  <2>4. read \in Seq(Frame) /\ Len(read) = r /\ \A k \in 1 .. r : read[k] = left[k]
    BY <2>1, <2>2, <2>3
  <2> HIDE DEF read
  <2>5. \A k \in 1 .. r : read[k] = file[k] /\ k \in 1 .. Len(file)
    BY <2>1, <2>2, <2>3, <2>4
  <2>6. PICK k \in 1 .. r : Stands(read[k], j)
    <3>1. j \in Covers(read)
      BY Zenon DEF read, left
    <3> QED BY Zenon, <2>4, <3>1, CoversStands
  <2>7. k \in 1 .. Len(file) /\ Stands(file[k], j)
    BY Zenon, <2>5, <2>6
  <2>8. j \in 1 .. Len(history) /\ i \in 1 .. Len(history)
    <3>1. Len(history) \in Nat /\ i \in 1 .. Len(history) /\ file[k] \in Frame
      BY <2>1, <2>7
    <3> QED BY <2>1, <2>7, <3>1 DEF FileIds, Stands, Frame
  <2>9. FrameOrder(file, i, j)
    BY Zenon, <2>8, InOrder DEF Follows
  <2>10. PICK l \in 1 .. k : Stands(file[l], i)
    BY Zenon, <2>7, <2>9 DEF FrameOrder
  <2>11. l \in 1 .. r
    BY <2>3, <2>6, <2>10
  <2>12. Stands(read[l], i)
    BY Zenon, <2>5, <2>10, <2>11
  <2>13. i \in Covers(read)
    BY Zenon, <2>4, <2>11, <2>12, CoversStands
  <2> QED BY Zenon, <2>13 DEF read, left
<1> QED BY <1>1, AofInvariance, PTL

=============================================================================
