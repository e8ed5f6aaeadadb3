----------------------------- MODULE LogRotation -----------------------------
(****************************************************************************)
(* Log rotation (monitoring/log_rotation.rs): the file `log` the subscriber *)
(* appends to, the background check of once a minute, and rotations asked   *)
(* for by POST /logs/rotate, which share one directory without any lock.    *)
(*                                                                          *)
(* A file is an inode; a name of the directory leads to one.  The logger    *)
(* opens `log` once (init_logging) and keeps that inode whatever the names  *)
(* become.  `now` counts seconds; the length of an hour and of a day are    *)
(* constants.  A line is the number of its turn, a file the set of its      *)
(* lines, its size their number.                                            *)
(****************************************************************************)
EXTENDS Integers, FiniteSets, FiniteSetsExt, Functions

CONSTANTS
    Requests,        \* HTTP connections of the monitoring server
    Timer,           \* the background task of `start`
    Policies,        \* rotation policies, subset of PolicyNames
    size_bytes,      \* size above which the log is rotated
    max_files,       \* rotated files kept by the cleanup
    HourSeconds,     \* seconds in an hour
    DayHours,        \* hours in a day
    MaxLines,        \* bound: lines logged
    MaxNow,          \* bound: seconds
    MaxLives,        \* bound: process lives
    MaxFaults        \* bound: failing file operations

PolicyNames == {"Size", "Daily", "Hourly", "SizeOrDaily", "Manual"}

ASSUME LogRotationAssumption ==
    /\ Timer \notin Requests
    /\ Policies \subseteq PolicyNames
    /\ {size_bytes, max_files, MaxLines, MaxNow, MaxFaults} \subseteq Nat
    /\ {HourSeconds, DayHours, MaxLives} \subseteq Nat \ {0}

Rotators == Requests \cup {Timer}

VARIABLES
    policy,      \* config.rotation_policy
    dir,         \* name -> inode
    content,     \* inode -> lines
    modified,    \* inode -> second of its last write
    line,        \* lines logged so far
    now,         \* wall clock
    life,        \* which run of the process this is
    last_rotation, \* of LogRotationStatus; what it only reports is left out
    rot,         \* where each rotator stands in its rotation
    faults,      \* file operations that failed
    damage       \* auxiliary: which of the known ways to lose lines happened

files == <<dir, content, modified>>
lvars == <<policy, dir, content, modified, line, now, life, last_rotation, rot,
           faults, damage>>

-----------------------------------------------------------------------------
(* Names and inodes *)

LogFile == <<"log", 0>>
Archive == <<"gz", 0>>
Rotated(ts) == <<"ts", ts>>
FileNames == {LogFile, Archive} \cup {Rotated(ts) : ts \in 0..MaxNow}

\* Inode 0 is the archive's; each life of the process opens at most one more.
Inodes == 0..MaxLives

\* with_extension("log.gz") replaces the time stamp, so every compression
\* writes the same name.
compressed_path(ts) == Archive

is_rotated_file(name) == name # LogFile

Without(names) == Restrict(dir, DOMAIN dir \ names)
With(name, inode) ==
    [n \in DOMAIN dir \cup {name} |-> IF n = name THEN inode ELSE dir[n]]

Never == -1
LogSize == Cardinality(content[dir[LogFile]])
OnDisk == UNION {content[dir[n]] : n \in DOMAIN dir}

Idle == [at |-> "idle", ts |-> 0, data |-> {}, victims |-> {}]
At(r, step) == rot[r].at = step
GoTo(r, step) == rot' = [rot EXCEPT ![r].at = step]
Cleanup(r) == rot' = [rot EXCEPT ![r] = [Idle EXCEPT !.at = "list"]]
Finish(r) ==
    rot' = [rot EXCEPT ![r] =
                [Idle EXCEPT !.at = IF r = Timer THEN "idle" ELSE "ok"]]
Fail(r) == rot' = [rot EXCEPT ![r] = [Idle EXCEPT !.at = "failed"]]


RotationInit ==
    /\ policy \in Policies
    /\ dir = [n \in {LogFile} |-> 1]
    /\ content = [i \in Inodes |-> {}]
    /\ modified = [i \in Inodes |-> 0]
    /\ line = 0
    /\ now = 0
    /\ life = [number |-> 1, fd |-> 1]
    /\ last_rotation = Never
    /\ rot = [r \in Rotators |-> Idle]
    /\ faults = 0
    /\ damage = [replaced |-> FALSE, cleaned |-> FALSE, archives |-> 0,
                 read |-> {}, late |-> {}]

-----------------------------------------------------------------------------
(* The process around the rotator *)

\* A line is appended through the descriptor opened at start.
Log ==
    /\ line < MaxLines
    /\ line' = line + 1
    /\ content' = [content EXCEPT ![life.fd] = @ \cup {line + 1}]
    /\ modified' = [modified EXCEPT ![life.fd] = now]
    /\ damage' = IF life.fd \in damage.read
                 THEN [damage EXCEPT !.late = @ \cup {line + 1}]
                 ELSE damage
    /\ UNCHANGED <<policy, dir, now, life, last_rotation, rot, faults>>

Tick ==
    /\ now < MaxNow
    /\ now' = now + 1
    /\ UNCHANGED <<policy, files, line, life, last_rotation, rot, faults,
                   damage>>

\* The process dies and is started again: init_logging opens `log` for append,
\* creating it when a rotation took the name away, and the rotation manager
\* has forgotten the last rotation.
RestartLog ==
    /\ life.number < MaxLives
    /\ LET number == life.number + 1
           there  == LogFile \in DOMAIN dir
           fd     == IF there THEN dir[LogFile] ELSE number
       IN /\ life' = [number |-> number, fd |-> fd]
          /\ dir' = With(LogFile, fd)
          /\ modified' = IF there THEN modified
                         ELSE [modified EXCEPT ![fd] = now]
    /\ last_rotation' = Never
    /\ rot' = [r \in Rotators |-> Idle]
    /\ UNCHANGED <<policy, content, line, now, faults, damage>>

-----------------------------------------------------------------------------
(* The decision of the background task *)

Hour(t) == (t \div HourSeconds) % DayHours
Date(t) == t \div (HourSeconds * DayHours)

\* hour = 0 in the policy the server installs.
should_rotate_daily ==
    /\ Hour(now) = 0
    /\ last_rotation = Never \/ Date(last_rotation) # Date(now)

should_rotate_hourly ==
    \/ last_rotation = Never
    \/ Date(last_rotation) # Date(now)
    \/ Hour(last_rotation) # Hour(now)

size_exceeded == LogFile \in DOMAIN dir /\ LogSize > size_bytes

should_rotate ==
    CASE policy = "Size" -> size_exceeded
      [] policy = "Daily" -> should_rotate_daily
      [] policy = "Hourly" -> should_rotate_hourly
      [] policy = "SizeOrDaily" -> size_exceeded \/ should_rotate_daily
      [] policy = "Manual" -> FALSE

\* A tick of the interval that finds nothing to rotate changes nothing.
check_and_rotate ==
    /\ At(Timer, "idle")
    /\ should_rotate
    /\ GoTo(Timer, "begin")
    /\ UNCHANGED <<policy, files, line, now, life, last_rotation, faults,
                   damage>>

\* Mutant of TimerFailed: the error ends the task.
TimerFailedEnds ==
    /\ At(Timer, "failed")
    /\ GoTo(Timer, "ended")
    /\ UNCHANGED <<policy, files, line, now, life, last_rotation, faults,
                   damage>>

\* The timer's loop files the error with the last ten and goes on.
TimerFailed ==
    /\ At(Timer, "failed")
    /\ rot' = [rot EXCEPT ![Timer] = Idle]
    /\ UNCHANGED <<policy, files, line, now, life, last_rotation, faults,
                   damage>>

-----------------------------------------------------------------------------
(* perform_rotation, one action per file operation it awaits *)

\* A missing log is not an error: the rotation is skipped and reported done.
StartRotation(r) ==
    /\ At(r, "begin")
    /\ IF LogFile \in DOMAIN dir
       THEN rot' = [rot EXCEPT ![r] = [Idle EXCEPT !.at = "rename", !.ts = now]]
       ELSE Finish(r)
    /\ UNCHANGED <<policy, files, line, now, life, last_rotation, faults,
                   damage>>

\* rename replaces a file already rotated in the same second; it fails when
\* another rotation was faster.
RenameLog(r) ==
    /\ At(r, "rename")
    /\ LET to == Rotated(rot[r].ts) IN
       \/ /\ LogFile \notin DOMAIN dir
          /\ Fail(r)
          /\ UNCHANGED <<dir, damage>>
       \/ /\ LogFile \in DOMAIN dir
          /\ dir' = [n \in (DOMAIN dir \ {LogFile}) \cup {to} |->
                        IF n = to THEN dir[LogFile] ELSE dir[n]]
          /\ damage' = [damage EXCEPT !.replaced = @ \/ to \in DOMAIN dir]
          /\ GoTo(r, "read")
    /\ UNCHANGED <<policy, content, modified, line, now, life, last_rotation,
                   faults>>

\* Mutant of ReadRotated: the original is removed as soon as it is read.
ReadRotatedAndRemove(r) ==
    /\ At(r, "read")
    /\ LET name == Rotated(rot[r].ts) IN
       IF name \in DOMAIN dir
       THEN /\ rot' = [rot EXCEPT ![r].at = "write",
                                  ![r].data = content[dir[name]]]
            /\ damage' = [damage EXCEPT !.read = @ \cup {dir[name]}]
            /\ dir' = Without({name})
       ELSE Cleanup(r) /\ UNCHANGED <<damage, dir>>
    /\ UNCHANGED <<policy, content, modified, line, now, life, last_rotation,
                   faults>>

\* compress_file reads the whole rotated file.  Its failure is only a warning.
ReadRotated(r) ==
    /\ At(r, "read")
    /\ LET name == Rotated(rot[r].ts) IN
       IF name \in DOMAIN dir
       THEN /\ rot' = [rot EXCEPT ![r].at = "write",
                                  ![r].data = content[dir[name]]]
            /\ damage' = [damage EXCEPT !.read = @ \cup {dir[name]}]
       ELSE Cleanup(r) /\ UNCHANGED damage
    /\ UNCHANGED <<policy, files, line, now, life, last_rotation, faults>>

\* fs::write creates the archive or truncates the one that is there.
WriteArchive(r) ==
    /\ At(r, "write")
    /\ dir' = With(compressed_path(rot[r].ts), 0)
    /\ content' = [content EXCEPT ![0] = rot[r].data]
    /\ modified' = [modified EXCEPT ![0] = now]
    /\ damage' = [damage EXCEPT !.archives = @ + 1]
    /\ GoTo(r, "remove")
    /\ UNCHANGED <<policy, line, now, life, last_rotation, faults>>

RemoveOriginal(r) ==
    /\ At(r, "remove")
    /\ dir' = Without({Rotated(rot[r].ts)})
    /\ Cleanup(r)
    /\ UNCHANGED <<policy, content, modified, line, now, life, last_rotation,
                   faults,
                   damage>>

\* cleanup_old_files lists the rotated files and picks the oldest beyond
\* max_files; files modified in the same second come in any order.
ListRotated(r) ==
    /\ At(r, "list")
    /\ LET old == {n \in DOMAIN dir : is_rotated_file(n)}
           excess == IF Cardinality(old) > max_files
                     THEN Cardinality(old) - max_files ELSE 0
       IN \E victims \in kSubset(excess, old) :
             /\ \A v \in victims, k \in old \ victims :
                   modified[dir[v]] <= modified[dir[k]]
             /\ rot' = [rot EXCEPT ![r].at = "trim",
                                   ![r].victims = victims]
    /\ UNCHANGED <<policy, files, line, now, life, last_rotation, faults,
                   damage>>

\* A victim another rotation removed first is only a warning.
RemoveVictims(r) ==
    /\ At(r, "trim")
    /\ dir' = Without(rot[r].victims)
    /\ damage' = [damage EXCEPT !.cleaned = @ \/ rot[r].victims # {}]
    /\ rot' = [rot EXCEPT ![r].at = "status", ![r].victims = {}]
    /\ UNCHANGED <<policy, content, modified, line, now, life, last_rotation,
                   faults>>

RecordRotation(r) ==
    /\ At(r, "status")
    /\ last_rotation' = now
    /\ Finish(r)
    /\ UNCHANGED <<policy, files, line, now, life, faults, damage>>

\* A file operation fails.  rename and read_dir end the rotation with an error,
\* the three of compress_file only end the compression; a write that fails has
\* already truncated the archive.
IoFails(r) ==
    /\ faults < MaxFaults
    /\ faults' = faults + 1
    /\ \/ /\ rot[r].at \in {"rename", "list"}
          /\ Fail(r)
          /\ UNCHANGED <<files, damage>>
       \/ /\ rot[r].at \in {"read", "remove"}
          /\ Cleanup(r)
          /\ UNCHANGED <<files, damage>>
       \/ /\ At(r, "write")
          /\ dir' = With(compressed_path(rot[r].ts), 0)
          /\ content' = [content EXCEPT ![0] = {}]
          /\ modified' = [modified EXCEPT ![0] = now]
          /\ damage' = [damage EXCEPT !.archives = @ + 1]
          /\ Cleanup(r)
    /\ UNCHANGED <<policy, line, now, life, last_rotation>>

perform_rotation(r) ==
    \/ StartRotation(r) \/ RenameLog(r) \/ ReadRotated(r) \/ WriteArchive(r)
    \/ RemoveOriginal(r) \/ ListRotated(r) \/ RemoveVictims(r)
    \/ RecordRotation(r)

RotatorStep(r) == perform_rotation(r) \/ IoFails(r)

-----------------------------------------------------------------------------
(* Properties *)

\* Which logged lines are on disk under some name, in the log, a rotated file or
\* the archive, after any interleaving of rotations, failing file operations
\* and crashes.  A line is lost only if it was logged to a file compress_file
\* had already read (the logger never reopens `log`), or if some file was
\* overwritten whole: by a rename in the same second, by the cleanup beyond
\* max_files, or by a second compression onto the one archive name.  A life of
\* the process compresses at most once, since nothing recreates the log after
\* perform_rotation renamed it: a racing or later rotation finds no file.
LinesKept ==
    /\ damage.archives <= life.number
    /\ \/ damage.replaced \/ damage.cleaned \/ damage.archives > 1
       \/ (1..line) \ OnDisk \subseteq damage.late

Oversized == policy \in {"Size", "SizeOrDaily"} /\ size_exceeded

\* check_and_rotate looks at the file itself, so a log that has grown past the
\* limit is rotated away even if manual rotations race with the timer, fail
\* half-way, or the process restarts.
OversizedIsRotated == Oversized ~> ~Oversized
=============================================================================
