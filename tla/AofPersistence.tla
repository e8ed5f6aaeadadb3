--------------------------- MODULE AofPersistence ---------------------------
(***************************************************************************)
(* The append-only file: connection tasks that execute mutations and log   *)
(* them (network/server.rs), BGREWRITEAOF (commands/server.rs), the        *)
(* channel to the single writer task, its buffer, the file and its fsyncs  *)
(* (storage/persistence.rs), shutdown, crash and recovery (lib.rs).        *)
(*                                                                         *)
(* The store is the sequence of mutations that made it (history); a frame  *)
(* of the file names a mutation by its position there, or stands for the   *)
(* whole snapshot of the first n.  A command is one atomic mutation: how   *)
(* commands interleave inside the store is MemoryStore's subject.  Reads,  *)
(* and commands that fail, never reach the file and are left out.          *)
(***************************************************************************)
EXTENDS Integers, Sequences, FiniteSets, FiniteSetsExt

CONSTANTS
  Clients,      \* connection tasks
  Keys,
  Writes,       \* the mutations each client may send
  Policies,     \* the fsync policies configured: "always", "everysec", "never"
  Cap,          \* AOF_CHANNEL_CAPACITY
  BufLimit,     \* the buffer size that makes policy "never" write (1 MiB)
  MaxWrites,    \* bound: mutations executed since the last recovery
  MaxCalls,     \* bound: calls of BGREWRITEAOF and flush
  MaxRestarts,  \* bound: crashes and shutdowns
  MaxFaults,    \* bound: I/O errors
  None

Write == [client : Clients, op : {"set"}, key : Keys, n : Nat]
           \cup [client : Clients, op : {"incr"}, key : Keys]

ASSUME AofAssumption ==
  /\ None \notin Clients
  /\ Writes \subseteq Write
  /\ Policies \subseteq {"always", "everysec", "never"}
  /\ Cap \in Nat \ {0}
  /\ BufLimit \in Nat \ {0}
  /\ {MaxWrites, MaxCalls, MaxRestarts, MaxFaults} \subseteq Nat

VARIABLES
  policy,    \* aof_fsync_policy
  history,   \* the mutations executed, in order: what the store holds
  barrier,   \* the client that holds the rewrite barrier's write side, or None
  cpc,       \* where each connection task stands
  cur,       \* the mutation a task is logging, or the size of its snapshot
  acked,     \* mutations whose reply has been sent
  chan,      \* mpsc channel of WriterCmd
  wpc,       \* where the writer task stands
  job,       \* the WriterCmd it is flushing for, or Tick
  buffer,    \* AofWriter.buffer
  writable,  \* AofWriter.file is open for appending
  due,       \* last_flush.elapsed() >= flush_interval
  file,      \* the frames written to the file
  synced,    \* how many of them are known to be on the disk
  lost,      \* mutations thrown away with the buffer by a flush or swap that
             \* failed, and in no snapshot since (history variable)
  phase,     \* of the server's life
  calls, restarts, faults   \* bounds

clientVars == <<cpc, cur, acked>>
writerVars == <<wpc, job, buffer, writable, due>>
diskVars == <<file, synced, lost>>
boundVars == <<calls, restarts, faults>>
vars == <<policy, history, barrier, clientVars, chan, writerVars, diskVars,
          phase, boundVars>>

CPCs == {"idle", "log", "reply", "wait", "snapshot", "send", "await",
         "replied", "closed"}
WPCs == {"recv", "write", "sync", "stopped"}
Phases == {"up", "draining", "clean", "forced", "down"}

Record(i) == [kind |-> "record", id |-> i, by |-> None]
SwapFile(c, n) == [kind |-> "swap", id |-> n, by |-> c]
Flush(c) == [kind |-> "flush", id |-> 0, by |-> c]
Shutdown == [kind |-> "shutdown", id |-> 0, by |-> None]
Tick == [kind |-> "tick", id |-> 0, by |-> None]
Message == [kind : {"record", "swap", "flush", "shutdown", "tick"}, id : Nat,
            by : Clients \cup {None}]

Frame == [kind : {"cmd", "snap", "torn"}, id : Nat]
Cmd(i) == [kind |-> "cmd", id |-> i]
Snap(n) == [kind |-> "snap", id |-> n]
Torn == [kind |-> "torn", id |-> 0]   \* bytes that are not a whole frame

Init ==
  /\ policy \in Policies
  /\ history = <<>>
  /\ barrier = None
  /\ cpc = [c \in Clients |-> "idle"]
  /\ cur = [c \in Clients |-> 0]
  /\ acked = {}
  /\ chan = <<>>
  /\ wpc = "recv" /\ job = Tick
  /\ buffer = <<>>
  /\ writable = TRUE
  /\ due = FALSE
  /\ file = <<>> /\ synced = 0 /\ lost = {}
  /\ phase = "up"
  /\ calls = 0 /\ restarts = 0 /\ faults = 0

-----------------------------------------------------------------------------
(* Connection tasks: process_buffer *)

Running == phase # "down"
Open == wpc # "stopped"          \* the channel's receiver is alive
\* Mutant: one more than the channel holds.
RoomForOneMore == Len(chan) <= Cap

Room == Len(chan) < Cap
Move(c, label) == cpc' = [cpc EXCEPT ![c] = label]
Send(m) == Open /\ Room /\ chan' = Append(chan, m)
\* Mutant: the barrier's read side is not taken.
ExecuteUnguarded(c, w) ==
  /\ Running /\ cpc[c] = "idle"
  /\ Len(history) < MaxWrites
  /\ w.client = c
  /\ history' = Append(history, w)
  /\ cur' = [cur EXCEPT ![c] = Len(history) + 1]
  /\ Move(c, "log")
  /\ UNCHANGED <<policy, barrier, acked, chan, writerVars, diskVars, phase, boundVars>>

\* A mutation runs under the barrier's read side, which is released when it
\* has executed.
Execute(c, w) ==
  /\ Running /\ cpc[c] = "idle"
  /\ barrier = None
  /\ Len(history) < MaxWrites
  /\ w.client = c
  /\ history' = Append(history, w)
  /\ cur' = [cur EXCEPT ![c] = Len(history) + 1]
  /\ Move(c, "log")
  /\ UNCHANGED <<policy, barrier, acked, chan, writerVars, diskVars, phase, boundVars>>

\* log_command waits for room in the channel.  When the writer is gone the
\* error is printed and the reply is sent all the same.
Log(c) ==
  /\ Running /\ cpc[c] = "log"
  /\ \/ Send(Record(cur[c]))
     \/ ~Open /\ UNCHANGED chan
  /\ Move(c, "reply")
  /\ UNCHANGED <<policy, history, barrier, cur, acked, writerVars, diskVars, phase, boundVars>>

Reply(c) ==
  /\ Running /\ cpc[c] = "reply"
  /\ acked' = acked \cup {cur[c]}
  /\ cur' = [cur EXCEPT ![c] = 0]
  /\ Move(c, "idle")
  /\ UNCHANGED <<policy, history, barrier, chan, writerVars, diskVars, phase, boundVars>>

\* The task leaves its read loop on the shutdown signal.
Close(c) ==
  /\ Running /\ phase # "up" /\ cpc[c] = "idle"
  /\ Move(c, "closed")
  /\ UNCHANGED <<policy, history, barrier, cur, acked, chan, writerVars, diskVars, phase, boundVars>>

-----------------------------------------------------------------------------
(* BGREWRITEAOF and PersistenceManager::flush *)

RewriteWait(c) ==
  /\ Running /\ cpc[c] = "idle"
  /\ calls < MaxCalls
  /\ calls' = calls + 1
  /\ Move(c, "wait")
  /\ UNCHANGED <<policy, history, barrier, cur, acked, chan, writerVars, diskVars,
                 phase, restarts, faults>>

\* barrier.write(): no mutation executes from here to RewriteReturn.
RewriteBegin(c) ==
  /\ Running /\ cpc[c] = "wait"
  /\ barrier = None
  /\ barrier' = c
  /\ Move(c, "snapshot")
  /\ UNCHANGED <<policy, history, cur, acked, chan, writerVars, diskVars, phase, boundVars>>
\* Mutant: the write guard is dropped once the snapshot is taken.
RewriteTempUnguarded(c) ==
  /\ Running /\ cpc[c] = "snapshot"
  /\ cur' = [cur EXCEPT ![c] = Len(history)]
  /\ barrier' = None
  /\ Move(c, "send")
  /\ UNCHANGED <<policy, history, acked, chan, writerVars, diskVars, phase, boundVars>>

\* The snapshot is written to the temporary file and fsynced, or that fails.
RewriteTemp(c) ==
  /\ Running /\ cpc[c] = "snapshot"
  /\ \/ /\ cur' = [cur EXCEPT ![c] = Len(history)]
        /\ Move(c, "send")
        /\ UNCHANGED faults
     \/ /\ faults < MaxFaults
        /\ faults' = faults + 1
        /\ Move(c, "replied")
        /\ UNCHANGED cur
  /\ UNCHANGED <<policy, history, barrier, acked, chan, writerVars, diskVars,
                 phase, calls, restarts>>

RewriteSend(c) ==
  /\ Running /\ cpc[c] = "send"
  /\ \/ Send(SwapFile(c, cur[c])) /\ Move(c, "await")
     \/ ~Open /\ Move(c, "replied") /\ UNCHANGED chan
  /\ UNCHANGED <<policy, history, barrier, cur, acked, writerVars, diskVars, phase, boundVars>>

\* The command returns and drops the write guard.
RewriteReturn(c) ==
  /\ Running /\ cpc[c] = "replied"
  /\ barrier' = IF barrier = c THEN None ELSE barrier
  /\ cur' = [cur EXCEPT ![c] = 0]
  /\ Move(c, "idle")
  /\ UNCHANGED <<policy, history, acked, chan, writerVars, diskVars, phase, boundVars>>

\* flush() sends its message and waits for the reply.
FlushSend(c) ==
  /\ Running /\ cpc[c] = "idle"
  /\ calls < MaxCalls
  /\ calls' = calls + 1
  /\ \/ Send(Flush(c)) /\ Move(c, "await")
     \/ ~Open /\ Move(c, "replied") /\ UNCHANGED chan
  /\ UNCHANGED <<policy, history, barrier, cur, acked, writerVars, diskVars, phase,
                 restarts, faults>>

-----------------------------------------------------------------------------
(* The writer task: run_writer_task and AofWriter *)

\* The messages are taken in order; select! takes the tick or a message.
Receive(kinds) ==
  /\ Running /\ wpc = "recv"
  /\ chan # <<>> /\ Head(chan).kind \in kinds
  /\ chan' = Tail(chan)

\* record appends to the buffer; the policy says whether it flushes.
FlushNow(len) ==
  \/ policy = "always"
  \/ policy = "everysec" /\ due
  \/ policy = "never" /\ len >= BufLimit

WriterRecord ==
  /\ Receive({"record"})
  /\ buffer' = Append(buffer, Head(chan).id)
  /\ IF FlushNow(Len(buffer) + 1)
       THEN wpc' = "write" /\ job' = Head(chan)
       ELSE UNCHANGED <<wpc, job>>
  /\ UNCHANGED <<policy, history, barrier, clientVars, writable, due, diskVars,
                 phase, boundVars>>

\* flush() and shutdown() flush whatever the policy.
WriterFlush ==
  /\ Receive({"flush", "shutdown"})
  /\ wpc' = "write" /\ job' = Head(chan)
  /\ UNCHANGED <<policy, history, barrier, clientVars, buffer, writable, due,
                 diskVars, phase, boundVars>>
\* Mutant: nothing to do when the buffer is empty.
PeriodicFlushUnlessEmpty ==
  /\ Running /\ wpc = "recv"
  /\ policy = "everysec" /\ due /\ buffer # <<>>
  /\ wpc' = "write" /\ job' = Tick
  /\ UNCHANGED <<policy, history, barrier, clientVars, chan, buffer, writable, due,
                 diskVars, phase, boundVars>>

PeriodicFlush ==
  /\ Running /\ wpc = "recv"
  /\ policy = "everysec" /\ due
  /\ wpc' = "write" /\ job' = Tick
  /\ UNCHANGED <<policy, history, barrier, clientVars, chan, buffer, writable, due,
                 diskVars, phase, boundVars>>

\* A second has passed since last_flush.
Second ==
  /\ Running /\ Open /\ policy = "everysec" /\ ~due
  /\ due' = TRUE
  /\ UNCHANGED <<policy, history, barrier, clientVars, chan, wpc, job, buffer, writable,
                 diskVars, phase, boundVars>>
\* Mutant: after a shutdown those who wait for an answer never get one.
FlushDoneForgets ==
  /\ job' = Tick
  /\ wpc' = IF job.kind = "shutdown" THEN "stopped" ELSE "recv"
  /\ chan' = IF job.kind = "shutdown" THEN <<>> ELSE chan
  /\ IF job.kind = "flush" THEN Move(job.by, "replied") ELSE UNCHANGED cpc

\* flush_to_disk is over, with or without an error: the one who asked hears of
\* it, and after a shutdown the task ends and drops what is in the channel.
FlushDone ==
  /\ job' = Tick
  /\ CASE job.kind = "flush" ->
            /\ wpc' = "recv"
            /\ Move(job.by, "replied")
            /\ UNCHANGED chan
       [] job.kind = "shutdown" ->
            /\ wpc' = "stopped"
            /\ chan' = <<>>
            /\ cpc' = [c \in Clients |-> IF cpc[c] = "await" THEN "replied" ELSE cpc[c]]
       [] OTHER -> wpc' = "recv" /\ UNCHANGED <<chan, cpc>>

Frames(ids) == [i \in DOMAIN ids |-> Cmd(ids[i])]
\* Mutant: policy never does not sync, whoever asks for the flush.
FlushWriteNeverSyncs ==
  /\ Running /\ wpc = "write"
  /\ writable \/ buffer = <<>>
  /\ file' = file \o Frames(buffer)
  /\ buffer' = <<>>
  /\ IF policy = "never"
       THEN due' = FALSE /\ FlushDone
       ELSE wpc' = "sync" /\ UNCHANGED <<due, chan, cpc, job>>
  /\ UNCHANGED <<policy, history, barrier, cur, acked, writable, synced, lost,
                 phase, boundVars>>

\* write_all and flush succeed: the frames are with the operating system.  The
\* handle a failed swap leaves behind is read-only, and an empty buffer is not
\* written.
FlushWrite ==
  /\ Running /\ wpc = "write"
  /\ writable \/ buffer = <<>>
  /\ file' = file \o Frames(buffer)
  /\ buffer' = <<>>
  /\ IF policy = "never" /\ job.kind = "record"
       THEN /\ due' = FALSE
            /\ FlushDone
       ELSE /\ wpc' = "sync"
            /\ UNCHANGED <<due, chan, cpc, job>>
  /\ UNCHANGED <<policy, history, barrier, cur, acked, writable, synced, lost,
                 phase, boundVars>>

\* What a write that fails leaves in the file: the first n frames of the buffer
\* and perhaps a part of the next; through a read-only handle, nothing.
PartWritten(n) ==
  \/ ~writable /\ n = 0 /\ UNCHANGED <<file, faults>>
  \/ /\ writable /\ faults < MaxFaults
     /\ faults' = faults + 1
     /\ \E tail \in {<<>>, <<Torn>>} :
          file' = file \o Frames(SubSeq(buffer, 1, n)) \o tail

\* tokio::fs::File copies up to 2 MiB at a time, writes them in the background
\* and reports an error to the next call.  Frames may have any size, so that
\* either call below can be the one that hears of it.

\* Mutant: the buffer is taken out of the writer before it is written.
WriteAllFailsTakes ==
  /\ Running /\ wpc = "write" /\ buffer # <<>>
  /\ \E n \in 0 .. Len(buffer) - 1 : PartWritten(n)
  /\ buffer' = <<>>
  /\ FlushDone
  /\ UNCHANGED <<policy, history, barrier, cur, acked, writable, due,
                 synced, lost, phase, calls, restarts>>

\* The next write_all of a buffer beyond 2 MiB: the buffer is kept and will be
\* written again as a whole.
WriteAllFails ==
  /\ Running /\ wpc = "write" /\ buffer # <<>>
  /\ \E n \in 0 .. Len(buffer) - 1 : PartWritten(n)
  /\ FlushDone
  /\ UNCHANGED <<policy, history, barrier, cur, acked, buffer, writable, due,
                 synced, lost, phase, calls, restarts>>

\* flush, after buffer.clear(): what was not written is lost.
FlushFails ==
  /\ Running /\ wpc = "write" /\ buffer # <<>>
  /\ \E n \in 0 .. Len(buffer) - 1 :
       /\ PartWritten(n)
       /\ lost' = lost \cup {buffer[i] : i \in n + 1 .. Len(buffer)}
  /\ buffer' = <<>>
  /\ FlushDone
  /\ UNCHANGED <<policy, history, barrier, cur, acked, writable, due,
                 synced, phase, calls, restarts>>

\* sync_all.
FlushSync ==
  /\ Running /\ wpc = "sync"
  /\ \/ synced' = Len(file) /\ due' = FALSE /\ UNCHANGED faults
     \/ faults < MaxFaults /\ faults' = faults + 1 /\ UNCHANGED <<synced, due>>
  /\ FlushDone
  /\ UNCHANGED <<policy, history, barrier, cur, acked, buffer, writable, file,
                 lost, phase, calls, restarts>>

\* swap_file drops the buffer, then opens the temporary file, renames it over
\* the live one and opens that again; each of the three can fail.
SwapFails ==
  /\ faults < MaxFaults
  /\ faults' = faults + 1
  /\ \/ /\ lost' = lost \cup Range(buffer)
        /\ writable' \in {writable, FALSE}
        /\ UNCHANGED <<file, synced>>
     \/ /\ file' = <<Snap(Head(chan).id)>> /\ synced' = 1
        /\ writable' = FALSE
        /\ lost' = {}
  /\ UNCHANGED due

WriterSwap ==
  /\ Receive({"swap"})
  /\ buffer' = <<>>
  /\ \/ /\ file' = <<Snap(Head(chan).id)>>
        /\ synced' = 1
        /\ writable' = TRUE
        /\ due' = FALSE
        /\ lost' = {}
        /\ UNCHANGED faults
     \/ SwapFails
  /\ Move(Head(chan).by, "replied")
  /\ UNCHANGED <<policy, history, barrier, cur, acked, wpc, job, phase, calls, restarts>>

Serve == WriterRecord \/ WriterFlush \/ WriterSwap

Writer == Serve \/ PeriodicFlush \/ FlushWrite \/ WriteAllFails \/ FlushFails
            \/ FlushSync

-----------------------------------------------------------------------------
(* Shutdown, crash and recovery *)

ShutdownSignal ==
  /\ phase = "up" /\ restarts < MaxRestarts
  /\ phase' = "draining"
  /\ UNCHANGED <<policy, history, barrier, clientVars, chan, writerVars, diskVars, boundVars>>

\* RustyPotatoServer::shutdown waits until no connection is left, or 30 s, and
\* asks the writer to stop.
ShutdownPersistence ==
  /\ phase = "draining"
  /\ phase' = IF \A c \in Clients : cpc[c] = "closed" THEN "clean" ELSE "forced"
  /\ Send(Shutdown)
  /\ UNCHANGED <<policy, history, barrier, clientVars, writerVars, diskVars, boundVars>>

\* What the operating system may have been given of the file.
Written == IF wpc = "write" /\ writable THEN file \o Frames(buffer) ELSE file

\* Any part of the frames from n on, perhaps down to half a frame.
Cut(n) ==
  \E m \in n .. Len(Written), tail \in {<<>>, <<Torn>>} :
    /\ m = Len(Written) => tail = <<>>
    /\ file' = SubSeq(Written, 1, m) \o tail

\* The memory of the process is gone.
Die ==
  /\ phase' = "down"
  /\ barrier' = None
  /\ cpc' = [c \in Clients |-> "idle"]
  /\ cur' = [c \in Clients |-> 0]
  /\ acked' = {}
  /\ chan' = <<>>
  /\ wpc' = "recv" /\ job' = Tick
  /\ buffer' = <<>>
  /\ writable' = TRUE
  /\ due' = FALSE

\* A crash of the machine keeps what was synced and a part of the rest.
Crash ==
  /\ Running /\ restarts < MaxRestarts
  /\ Cut(synced)
  /\ synced' = Len(file')
  /\ Die
  /\ UNCHANGED <<policy, history, lost, boundVars>>

\* The process is killed, or exits because the shutdown took too long; the
\* operating system keeps what it was given.
Kill ==
  /\ Running /\ restarts < MaxRestarts
  /\ Cut(Len(file))
  /\ Die
  /\ UNCHANGED <<policy, history, synced, lost, boundVars>>

\* The writer has stopped and the process ends; the operating system keeps what
\* was written.
Exit ==
  /\ Running /\ wpc = "stopped"
  /\ Die
  /\ UNCHANGED <<policy, history, diskVars, boundVars>>

\* What replay_aof_file can read: it stops at the first bytes that are not a
\* frame.
Readable(fs) ==
  LET bad == {i \in DOMAIN fs : fs[i].kind = "torn"}
  IN IF bad = {} THEN fs ELSE SubSeq(fs, 1, Min(bad) - 1)

\* A rewrite replaces the whole file, so that only its first frame can be a
\* snapshot: the number of such frames, and of the mutations in it.
Snaps(fs) == IF fs # <<>> /\ fs[1].kind = "snap" THEN 1 ELSE 0
Base(fs) == IF Snaps(fs) = 1 THEN fs[1].id ELSE 0

\* The mutations that frames stand for.
Expand(fs) ==
  SubSeq(history, 1, Base(fs))
    \o [i \in 1 .. Len(fs) - Snaps(fs) |-> history[fs[i + Snaps(fs)].id]]

\* open() replays the file, then opens it for appending: what could not be read
\* stays where it is.  The frames are renamed after their place in the new
\* history.
Recover ==
  LET read == Readable(file)
      named == [i \in DOMAIN read |->
                 IF i <= Snaps(read) THEN read[i]
                 ELSE Cmd(Base(read) + i - Snaps(read))]
      rest == IF read = file THEN <<>> ELSE <<Torn>>
  IN
  /\ phase = "down"
  /\ restarts' = restarts + 1
  /\ history' = Expand(read)
  /\ file' = named \o rest
  /\ synced' = IF synced < Len(file') THEN synced ELSE Len(file')
  /\ lost' = {}
  /\ phase' = "up"
  /\ UNCHANGED <<policy, barrier, clientVars, chan, writerVars, calls, faults>>

-----------------------------------------------------------------------------

Client(c) ==
  \/ Log(c) \/ Reply(c)
  \/ RewriteBegin(c) \/ RewriteTemp(c) \/ RewriteSend(c) \/ RewriteReturn(c)

Next ==
  \/ \E c \in Clients : Client(c) \/ Close(c) \/ RewriteWait(c) \/ FlushSend(c)
  \/ \E c \in Clients, w \in Writes : Execute(c, w)
  \/ Writer
  \/ Second
  \/ ShutdownSignal \/ ShutdownPersistence \/ Exit \/ Crash \/ Kill \/ Recover

Spec == Init /\ [][Next]_vars

\* Every task that can go on does.  The queues of the channel and of the
\* barrier are first come, first served, so that a task that waits for either
\* gets it: hence strong fairness of the tasks.  select! chooses at random among
\* the branches that are ready, so that the ticks cannot keep the writer from
\* its messages for ever.
FairSpec ==
  /\ Spec
  /\ \A c \in Clients : SF_vars(Client(c))
  /\ WF_vars(Writer)
  /\ SF_vars(Serve)
  /\ WF_vars(Second)

-----------------------------------------------------------------------------
(* Properties *)

\* The shape of the state: the channel holds at most AOF_CHANNEL_CAPACITY
\* messages, and nothing beyond the end of the file counts as synced.
TypeOK ==
  /\ policy \in Policies
  /\ history \in Seq(Write)
  /\ barrier \in Clients \cup {None}
  /\ cpc \in [Clients -> CPCs]
  /\ cur \in [Clients -> Nat]
  /\ acked \subseteq Nat
  /\ chan \in Seq(Message) /\ Len(chan) <= Cap
  /\ wpc \in WPCs
  /\ job \in Message
  /\ buffer \in Seq(Nat)
  /\ {writable, due} \subseteq BOOLEAN
  /\ lost \subseteq Nat
  /\ file \in Seq(Frame)
  /\ synced \in 0 .. Len(file)
  /\ phase \in Phases
  /\ {calls, restarts, faults} \subseteq Nat

\* The positions of history that frames stand for.
Covers(fs) ==
  UNION {IF fs[i].kind = "snap" THEN 1 .. fs[i].id
         ELSE {fs[i].id} : i \in {j \in DOMAIN fs : fs[j].kind # "torn"}}

\* The positions still on their way to the file.
Pending ==
  Range(buffer)
    \cup {chan[i].id : i \in {j \in DOMAIN chan : chan[j].kind = "record"}}
    \cup {cur[c] : c \in {d \in Clients : cpc[d] = "log"}}

\* Every mutation executed is in the file or on its way there, whatever the
\* rewrites (swap_file clears the buffer and replaces the file) and the writes
\* that are retried; the only others are those the buffer held when flush or
\* swap_file failed after clearing it, until a rewrite saves them, and without
\* an I/O error there are none.  A writer told to stop before every connection
\* was closed loses what comes after.
NothingLost ==
  phase \in {"up", "draining", "clean"} =>
    /\ DOMAIN history \subseteq Covers(file) \cup Pending \cup lost
    /\ faults = 0 => lost = {}

\* What a crash at this moment leaves to replay has no hole but the mutations
\* that a failed flush or swap threw away: if it has a mutation, it has every
\* other earlier one of the same client.
CrashKeepsPrefix ==
  \A n \in synced .. Len(file) :
    LET kept == Covers(Readable(SubSeq(file, 1, n))) IN
    \A j \in kept, i \in DOMAIN history :
      (i < j /\ history[i].client = history[j].client) => i \in kept \cup lost

Whole == \A i \in DOMAIN file : file[i].kind # "torn"

\* After a shutdown that closed every connection first, with no I/O error,
\* every mutation is on the disk whatever the policy: close drains, the final
\* flush_to_disk(true) syncs.
CleanShutdownSaves ==
  (phase = "clean" /\ wpc = "stopped" /\ faults = 0) =>
    DOMAIN history \subseteq Covers(SubSeq(file, 1, synced))

\* The store that a sequence of mutations makes.
Apply(db, w) ==
  [db EXCEPT ![w.key] = IF w.op = "set" THEN w.n ELSE @ + 1]

DB(ws) ==
  MapThenFoldSet(LAMBDA w, db : Apply(db, w), [k \in Keys |-> 0],
                 LAMBDA i : ws[i], Max, DOMAIN ws)

\* "This guarantees that what's persisted matches what was executed"
\* (persistence.rs:6): replaying the file a clean shutdown leaves gives the
\* store there was.
ReplayMatches ==
  (phase = "clean" /\ wpc = "stopped" /\ faults = 0 /\ Whole) =>
    DB(Expand(file)) = DB(history)

\* Logging before the reply "gives `always` policy real durability"
\* (network/server.rs:745): a mutation that was acknowledged is on the disk.
AlwaysDurable ==
  (Running /\ policy = "always" /\ faults = 0) =>
    acked \subseteq Covers(SubSeq(file, 1, synced))

\* A partial entry at the end of the file is one "the AOF replay logic handles
\* gracefully on restore" (docs/DEPLOYMENT.md:441): what is written and synced
\* after it can be replayed.
SyncedReadable ==
  (Running /\ faults = 0) =>
    Covers(SubSeq(file, 1, synced)) \subseteq Covers(Readable(file))

\* An acknowledged mutation reaches the disk within the life of the process,
\* unless a failed flush or swap threw it away: under everysec also after a
\* write_all or fsync that failed, which the next tick retries; under always if
\* there was no error, for nothing retries them.  The writer may also have
\* stopped, after a last flush that failed or with connections still open, or
\* hold a read-only handle.
EventuallyDurable ==
  \A i \in 1 .. MaxWrites :
    (Running /\ i \in acked /\ policy # "never")
      ~> \/ i \in Covers(SubSeq(file, 1, synced))
         \/ ~Running \/ (~Open /\ (phase = "forced" \/ faults > 0))
         \/ i \in lost \/ ~writable
         \/ policy = "always" /\ faults > 0

\* Every command and every rewrite returns: the rewrite holds the barrier while
\* it waits for the writer, the others wait for the barrier, for room in the
\* channel, or for an answer of a writer that may be stopping.
CallsReturn ==
  \A c \in Clients :
    cpc[c] \notin {"idle", "closed"} ~> (cpc[c] \in {"idle", "closed"} \/ ~Running)
=============================================================================
