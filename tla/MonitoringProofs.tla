-------------------------- MODULE MonitoringProofs --------------------------
(***************************************************************************)
(* Proofs about the boot sequence, for any number of processes on one      *)
(* machine, any command lines, files and environments and any port width,  *)
(* and about the monitoring server and the log rotation it starts, for any *)
(* number of connections.                                                  *)
(***************************************************************************)
EXTENDS Monitoring, Startup, TLAPS

\* The obligations are easy but many: more than the default time for each.
USE SMTT(30)

-----------------------------------------------------------------------------
(* The boot sequence *)


Stages == {"main", "logging", "environment", "open", "start", "serving", "exited"}
MonitorStages == {"off", "spawned", "listening", "failed"}

BootTypes ==
  /\ setup \in [Instances -> Setups]
  /\ boot \in [Instances -> Stages]
  /\ DOMAIN config = Instances
  /\ monitor \in [Instances -> MonitorStages]
  /\ ports \in [AllPorts -> Instances \cup {Nobody}]

\* Past main the configuration is the one that was loaded and passed validate,
\* under the command line.
Loaded(i) ==
  LET l == load_from_file(setup[i]) IN
  /\ deserializes(l) /\ validate(l)
  /\ config[i] = apply_cli_overrides(l, setup[i])

Configured ==
  \A i \in Instances : boot[i] \notin {"main", "exited"} => Loaded(i)

\* The monitoring server runs only beside a process that got as far as start.
MonitorLater ==
  \A i \in Instances :
    boot[i] \notin {"start", "serving"} => monitor[i] = "off"

\* Who has bound a port holds it.
Holding ==
  \A i \in Instances :
    /\ boot[i] = "serving" =>
         /\ config[i].bind_address # ""
         /\ config[i].port # 0 => ports[config[i].port] = i
    /\ (monitor[i] = "listening" /\ monitoring_port(config[i]) # 0)
         => ports[monitoring_port(config[i])] = i

BootInv == BootTypes /\ Configured /\ MonitorLater /\ Holding

-----------------------------------------------------------------------------

\* A loaded configuration has the fields of the default one, and a port.
LEMMA LoadedShape ==
  ASSUME BootTypes, NEW i \in Instances, Loaded(i)
  PROVE  /\ DOMAIN config[i] = Fields
         /\ config[i].port \in AllPorts
         /\ config[i].bind_address # "" => validate(config[i])
<1> DEFINE s == setup[i]
           l == load_from_file(s)
           o == s.args.overrides
<1>1. s \in Setups
  BY Zenon DEF BootTypes
<1>2. /\ DOMAIN o \subseteq {"port", "bind_address", "level"}
      /\ "port" \in DOMAIN o => o.port \in AllPorts
      /\ "level" \in DOMAIN o => o.level \in Levels
  BY Zenon, <1>1, CommandLineAssumption
<1>3. DOMAIN l = Fields
  BY Zenon DEF load_from_file, Over, Fields
<1>4. config[i] = [f \in Fields |-> IF f \in DOMAIN o THEN o[f] ELSE l[f]]
  BY Zenon, <1>3 DEF Loaded, apply_cli_overrides, Over
<1>5. Fields = {"port", "bind_address", "max_connections", "worker_threads",
                "aof", "timeout", "level", "log"}
  BY Zenon DEF Fields, default_config
<1>6. deserializes(l) /\ validate(l)
  BY Zenon DEF Loaded
<1> DEFINE c == config[i]
<1> HIDE DEF s, l, o, c
<1>7. /\ DOMAIN c = Fields
      /\ \A f \in Fields : c[f] = IF f \in DOMAIN o THEN o[f] ELSE l[f]
  BY Zenon, <1>4 DEF c
<1>8. /\ c.max_connections = l.max_connections /\ c.worker_threads = l.worker_threads
      /\ c.aof = l.aof /\ c.timeout = l.timeout /\ c.log = l.log
  BY Zenon, <1>2, <1>5, <1>7
<1>9. c.port \in AllPorts
  BY Zenon, <1>2, <1>5, <1>6, <1>7 DEF deserializes
<1>10. c.level \in Levels
  BY Zenon, <1>2, <1>5, <1>6, <1>7 DEF validate, LoggingConfig_validate
<1>11. c.bind_address # "" => validate(c)
  BY Zenon, <1>6, <1>8, <1>10 DEF validate, ServerConfig_validate,
     StorageConfig_validate, NetworkConfig_validate, LoggingConfig_validate
<1> QED
  BY Zenon, <1>7, <1>9, <1>11 DEF c

\* A monitoring port is a port: the u16 sum wraps.
LEMMA MonitoringPortIsPort ==
  ASSUME NEW c, c.port \in AllPorts
  PROVE  monitoring_port(c) \in AllPorts
<1> DEFINE N == 2^PortBits
<1>1. N \in Nat \ {0} /\ PortOffset \in 1 .. (N - 1) /\ c.port \in 0 .. (N - 1)
  BY Zenon, StartupAssumption DEF AllPorts
<1>2. monitoring_port(c) = (c.port + PortOffset) % N /\ AllPorts = 0 .. (N - 1)
  BY Zenon DEF monitoring_port, AllPorts
<1> HIDE DEF N
<1> QED
  BY <1>1, <1>2

\* Where port + 1000 is a port, the sum does not wrap.
LEMMA MonitoringPortFits ==
  ASSUME NEW c, c.port + PortOffset \in AllPorts, c.port \in AllPorts
  PROVE  monitoring_port(c) = c.port + PortOffset /\ monitoring_port(c) # 0
<1> DEFINE N == 2^PortBits
           p == c.port + PortOffset
<1>1. /\ N \in Nat \ {0} /\ PortOffset \in 1 .. (N - 1)
      /\ c.port \in 0 .. (N - 1) /\ p \in 0 .. (N - 1)
  BY Zenon, StartupAssumption DEF AllPorts
<1>2. monitoring_port(c) = p % N
  BY Zenon DEF monitoring_port
<1>3. p # 0
  BY <1>1
<1> HIDE DEF N, p
<1>4. p % N = p
  BY <1>1
<1> QED BY <1>2, <1>3, <1>4 DEF p

\* Every instance starts with the defaults, no monitor and no port bound.
LEMMA BootInitInv == BootInit => BootInv
BY Zenon, StartupAssumption DEF BootInit, BootInv, BootTypes, Configured, MonitorLater,
   Holding, Stages, MonitorStages

\* Each field of a loaded configuration is the strongest source's.
LEMMA StrongestWins ==
  ASSUME NEW i \in Instances, Loaded(i), NEW f \in Fields \ Unread(setup[i])
  PROVE  config[i][f] = InForce(setup[i], f)
<1> DEFINE s == setup[i]
           a == s.args.overrides
           e == s.env.values
           d == find_config_file(s)
           Src == Sources(s)
           P(n) == /\ f \in DOMAIN Src[n]
                   /\ \A m \in 1 .. (n - 1) : f \notin DOMAIN Src[m]
           first == CHOOSE n \in 1 .. 4 : P(n)
<1>1. InForce(s, f) = Src[first][f]
  BY Zenon DEF InForce
<1>2. Src[1] = a /\ Src[2] = e /\ Src[3] = d /\ Src[4] = default_config
  BY Zenon DEF Sources
<1>3. f \in DOMAIN default_config
  BY Zenon DEF Fields
<1>4. config[i][f] = IF f \in DOMAIN a THEN a[f]
                     ELSE IF f \in DOMAIN e THEN e[f]
                     ELSE IF f \in DOMAIN d THEN d[f] ELSE default_config[f]
  <2> DEFINE r == Environment_(s)
  <2>1. config[i][f] = IF f \in DOMAIN a THEN a[f]
                       ELSE IF f \in DOMAIN r THEN r[f]
                       ELSE IF f \in DOMAIN d THEN d[f] ELSE default_config[f]
    BY Zenon, <1>3 DEF Loaded, apply_cli_overrides, load_from_file, Over
  <2>2. CASE s.env.separator = "."
    BY Zenon, <2>1, <2>2 DEF Environment_
  <2>3. CASE s.env.separator # "."
    <3>1. f \notin DOMAIN e
      BY Zenon, <2>3 DEF Unread
    <3>2. r = Nothing
      BY Zenon, <2>3 DEF Environment_
    <3>3. f \notin DOMAIN r
      BY <3>2 DEF Nothing
    <3> QED BY Zenon, <2>1, <3>1, <3>3
  <2> QED BY Zenon, <2>2, <2>3
<1> HIDE DEF s, a, e, d, Src
<1>5. \E n \in 1 .. 4 : P(n)
  <2>1. CASE f \in DOMAIN a
    <3>1. P(1)
      BY <2>1, <1>2
    <3> QED BY <3>1
  <2>2. CASE f \notin DOMAIN a /\ f \in DOMAIN e
    <3>1. P(2)
      BY <2>2, <1>2
    <3> QED BY <3>1
  <2>3. CASE f \notin DOMAIN a /\ f \notin DOMAIN e /\ f \in DOMAIN d
    <3>1. P(3)
      BY <2>3, <1>2
    <3> QED BY <3>1
  <2>4. CASE f \notin DOMAIN a /\ f \notin DOMAIN e /\ f \notin DOMAIN d
    <3>1. P(4)
      BY <2>4, <1>2, <1>3
    <3> QED BY <3>1
  <2> QED BY Zenon, <2>1, <2>2, <2>3, <2>4
<1>6. first \in 1 .. 4 /\ P(first)
  <2> HIDE DEF P
  <2> QED BY Zenon, <1>5
<1> HIDE DEF first
<1>7. first \in {1, 2, 3, 4}
  BY <1>6
<1>8. config[i][f] = Src[first][f]
  BY <1>2, <1>4, <1>6, <1>7
<1> QED
  BY Zenon, <1>1, <1>8 DEF s

-----------------------------------------------------------------------------

\* Ports change hands only when they are free or their owner ends.
LEMMA BootNextInv == BootInv /\ [BootNext]_bvars => BootInv'
<1> SUFFICES ASSUME BootInv, [BootNext]_bvars PROVE BootInv'
  BY Zenon
<1> USE DEF BootInv
<1>0. CASE UNCHANGED bvars
  BY Zenon, <1>0 DEF bvars, BootTypes, Configured, Loaded, MonitorLater, Holding
<1>1. ASSUME NEW i \in Instances, main(i) PROVE BootInv'
  <2> DEFINE l == load_from_file(setup[i])
  <2>1. BootTypes'
    BY Zenon, <1>1 DEF main, Stage, BootTypes, Stages
  <2>2. Configured'
    <3> HIDE DEF l
    <3>1. /\ setup' = setup
          /\ \A j \in Instances \ {i} : boot'[j] = boot[j] /\ config'[j] = config[j]
      BY Zenon, <1>1 DEF main, Stage, BootTypes
    <3>2. boot'[i] # "exited" =>
            /\ deserializes(l) /\ validate(l)
            /\ config'[i] = apply_cli_overrides(l, setup[i])
      BY Zenon, <1>1 DEF main, Stage, BootTypes, l
    <3> QED BY Zenon, <3>1, <3>2 DEF Configured, Loaded, l
  <2>3. MonitorLater'
    BY Zenon, <1>1 DEF main, Stage, BootTypes, MonitorLater
  <2>4. Holding'
    <3>1. monitor[i] = "off" /\ boot'[i] # "serving"
      BY Zenon, <1>1 DEF main, Stage, BootTypes, MonitorLater
    <3>2. /\ monitor' = monitor /\ ports' = ports
          /\ \A j \in Instances \ {i} : boot'[j] = boot[j] /\ config'[j] = config[j]
      BY Zenon, <1>1 DEF main, Stage, BootTypes
    <3> QED BY Zenon, <3>1, <3>2 DEF Holding, monitoring_port
  <2> QED BY Zenon, <2>1, <2>2, <2>3, <2>4
<1>2. ASSUME NEW i \in Instances, init_logging(i) \/ validate_environment(i)
      PROVE  BootInv'
  <2>1. BootTypes' /\ MonitorLater'
    BY Zenon, <1>2 DEF init_logging, validate_environment, Stage, BootTypes, Stages,
       MonitorLater
  <2>2. Configured'
    BY Zenon, <1>2 DEF init_logging, validate_environment, Stage, BootTypes, Configured,
       Loaded
  <2>3. Holding'
    BY ZenonT(30), <1>2 DEF init_logging, validate_environment, Stage, BootTypes, Holding
  <2> QED BY Zenon, <2>1, <2>2, <2>3
<1>3. ASSUME NEW i \in Instances, open(i) PROVE BootInv'
  <2>1. BootTypes' /\ MonitorLater'
    BY Zenon, <1>3 DEF open, Stage, BootTypes, Stages, MonitorStages, MonitorLater
  <2>2. Configured'
    BY Zenon, <1>3 DEF open, Stage, BootTypes, Configured, Loaded
  <2>3. Holding'
    BY Zenon, <1>3 DEF open, Stage, BootTypes, Holding
  <2> QED BY Zenon, <2>1, <2>2, <2>3
<1>4. ASSUME NEW i \in Instances, MonitoringServer_start(i) PROVE BootInv'
  <2> DEFINE p == monitoring_port(config[i])
  <2>1. boot[i] \in {"start", "serving"} /\ Loaded(i)
    BY Zenon, <1>4 DEF MonitoringServer_start, MonitorLater, Configured
  <2>2. p \in AllPorts
    BY Zenon, <2>1, LoadedShape, MonitoringPortIsPort
  <2> HIDE DEF p
  <2>3. BootTypes' /\ MonitorLater'
    BY <1>4, <2>1, <2>2 DEF MonitoringServer_start, Bind, BootTypes, MonitorStages,
       MonitorLater, p
  <2>4. Configured'
    BY Zenon, <1>4 DEF MonitoringServer_start, Configured, Loaded
  <2>5. /\ boot' = boot /\ config' = config
        /\ \A j \in Instances \ {i} : monitor'[j] = monitor[j]
        /\ monitor'[i] = "listening" /\ p # 0 => ports'[p] = i
        /\ \A q \in AllPorts : ports[q] # Nobody => ports'[q] = ports[q]
    BY Zenon, <1>4, <2>2 DEF MonitoringServer_start, CanBind, Bind, BootTypes, p
  <2>6. \A j \in Instances :
          /\ boot[j] = "serving" => config[j].port \in AllPorts
          /\ monitor[j] = "listening" => monitoring_port(config[j]) \in AllPorts
    BY Zenon, LoadedShape, MonitoringPortIsPort DEF Configured, MonitorLater
  <2>7. Holding'
    <3>1. Nobody \notin Instances
      BY Zenon, StartupAssumption
    <3> SUFFICES ASSUME NEW j \in Instances
                 PROVE  /\ boot[j] = "serving" =>
                             /\ config[j].bind_address # ""
                             /\ config[j].port # 0 => ports'[config[j].port] = j
                        /\ (monitor'[j] = "listening" /\ monitoring_port(config[j]) # 0)
                             => ports'[monitoring_port(config[j])] = j
      BY Zenon, <2>5 DEF Holding
    <3>2. CASE j = i
      BY Zenon, <3>1, <3>2, <2>5, <2>6 DEF Holding, p
    <3>3. CASE j # i
      BY Zenon, <3>1, <3>3, <2>5, <2>6 DEF Holding
    <3> QED BY Zenon, <3>2, <3>3
  <2> QED BY Zenon, <2>3, <2>4, <2>7
<1>5. ASSUME NEW i \in Instances, TcpServer_start(i) \/ Exits(i) PROVE BootInv'
  <2> DEFINE c == config[i]
  <2>1. boot[i] \in {"start", "serving"} /\ Loaded(i)
    BY Zenon, <1>5 DEF TcpServer_start, Exits, Configured
  <2>2. c.port \in AllPorts
    BY Zenon, <2>1, LoadedShape
  <2>3. BootTypes' /\ MonitorLater'
    BY <1>5, <2>2 DEF TcpServer_start, Exits, Bind, Release, Stage, BootTypes,
       Stages, MonitorStages, MonitorLater
  <2>4. Configured'
    BY Zenon, <1>5, <2>1 DEF TcpServer_start, Exits, Stage, BootTypes, Configured, Loaded
  <2>5. /\ config' = config
        /\ \A j \in Instances \ {i} : boot'[j] = boot[j] /\ monitor'[j] = monitor[j]
        /\ \A q \in AllPorts :
             ports[q] \notin {Nobody, i} => ports'[q] = ports[q]
    BY Zenon, <1>5 DEF TcpServer_start, Exits, CanBind, Bind, Release, Stage, BootTypes
  <2>6. \/ /\ boot'[i] = "serving" /\ monitor' = monitor
           /\ c.bind_address # ""
           /\ c.port # 0 => ports'[c.port] = i
           /\ \A q \in AllPorts : ports[q] # Nobody => ports'[q] = ports[q]
        \/ boot'[i] = "exited" /\ monitor'[i] = "off"
    BY Zenon, <1>5, <2>2 DEF TcpServer_start, Exits, CanBind, Bind, Stage, BootTypes
  <2>7. \A j \in Instances :
          /\ boot[j] = "serving" => config[j].port \in AllPorts
          /\ monitor[j] = "listening" => monitoring_port(config[j]) \in AllPorts
    BY Zenon, LoadedShape, MonitoringPortIsPort DEF Configured, MonitorLater
  <2> HIDE DEF c
  <2>8. Holding'
    <3>1. Nobody \notin Instances
      BY Zenon, StartupAssumption
    <3> SUFFICES ASSUME NEW j \in Instances
                 PROVE  /\ boot'[j] = "serving" =>
                             /\ config[j].bind_address # ""
                             /\ config[j].port # 0 => ports'[config[j].port] = j
                        /\ (monitor'[j] = "listening" /\ monitoring_port(config[j]) # 0)
                             => ports'[monitoring_port(config[j])] = j
      BY Zenon, <2>5 DEF Holding
    <3>2. CASE j = i
      BY Zenon, <3>1, <3>2, <2>6, <2>7 DEF Holding, c
    <3>3. CASE j # i
      BY Zenon, <3>1, <3>3, <2>5, <2>7 DEF Holding
    <3> QED BY Zenon, <3>2, <3>3
  <2> QED BY Zenon, <2>3, <2>4, <2>8
<1> QED
  BY Zenon, <1>0, <1>1, <1>2, <1>3, <1>4, <1>5 DEF BootNext

\* The invariant holds from the start of every process on.
THEOREM BootInvariance == BootSpec => []BootInv
BY BootInitInv, BootNextInv, PTL DEF BootSpec

\* A process that serves has the configuration its sources give (variables with
\* names that load_from_file does not read excepted), valid although the command
\* line is applied after validate, and holds its own port, and port + 1000 where
\* that is a port and its monitoring server listens, although others bind and
\* release theirs between the probe and the bind (bin/server.rs, config.rs).
THEOREM ServesConfigured == BootSpec => []ServesWhatWasConfigured
<1>1. BootInv => ServesWhatWasConfigured
  <2> SUFFICES ASSUME BootInv, NEW i \in Instances, boot[i] = "serving"
               PROVE  LET c == config[i]
                          p == c.port + PortOffset
                      IN
                      /\ validate(c)
                      /\ \A f \in Fields \ Unread(setup[i]) : c[f] = InForce(setup[i], f)
                      /\ c.port # 0 => ports[c.port] = i
                      /\ (monitor[i] = "listening" /\ p \in AllPorts) => ports[p] = i
    BY Zenon DEF ServesWhatWasConfigured
  <2>1. Loaded(i) /\ BootTypes
    BY Zenon DEF BootInv, Configured
  <2>2. validate(config[i]) /\ config[i].port \in AllPorts
    BY Zenon, <2>1, LoadedShape DEF BootInv, Holding
  <2>3. \A f \in Fields \ Unread(setup[i]) : config[i][f] = InForce(setup[i], f)
    BY Zenon, <2>1, StrongestWins
  <2>4. config[i].port # 0 => ports[config[i].port] = i
    BY Zenon DEF BootInv, Holding
  <2>5. ASSUME monitor[i] = "listening", config[i].port + PortOffset \in AllPorts
        PROVE  ports[config[i].port + PortOffset] = i
    <3>1. /\ monitoring_port(config[i]) = config[i].port + PortOffset
          /\ monitoring_port(config[i]) # 0
      BY Zenon, <2>2, <2>5, MonitoringPortFits
    <3>2. ports[monitoring_port(config[i])] = i
      BY Zenon, <2>5, <3>1 DEF BootInv, Holding
    <3> QED BY Zenon, <3>1, <3>2
  <2> QED BY Zenon, <2>2, <2>3, <2>4, <2>5
<1> QED
  BY <1>1, BootInvariance, PTL

-----------------------------------------------------------------------------
(* The monitoring server and the log rotation: the inductive invariant *)

RotationSteps == {"idle", "begin", "rename", "read", "write", "remove", "list",
    "trim", "status", "ok", "failed"}
HandlerSteps == {"closed", "done", "set", "get", "delete", "rest", "summary",
    "metrics", "rotate", "log_status", "not_found"}

\* A rotation that has not renamed the log, or is over.
Early == {"idle", "begin", "rename", "ok", "failed"}

Rotation ==
  [at : RotationSteps, ts : 0 .. MaxNow, data : SUBSET Nat, victims : SUBSET FileNames]

RotationTypes ==
  /\ policy \in Policies
  /\ line \in Nat /\ now \in 0 .. MaxNow
  /\ modified \in [Inodes -> 0 .. now]
  /\ life \in [number : 1 .. MaxLives, fd : 1 .. MaxLives]
  /\ rot \in [Rotators -> Rotation]
  /\ damage \in [replaced : BOOLEAN, cleaned : BOOLEAN, archives : Nat,
                 read : SUBSET Inodes, late : SUBSET Nat]

\* The logger has written what is in the files and in the memory of rotations.
Contents ==
  /\ content \in [Inodes -> SUBSET (1 .. line)]
  /\ \A r \in Rotators : rot[r].data \subseteq 1 .. line

\* Only the archive is inode 0, and there is none before the first compression.
Directory ==
  /\ DOMAIN dir \subseteq FileNames
  /\ \A n \in DOMAIN dir : dir[n] \in Inodes /\ (dir[n] = 0 => n = Archive)
  /\ damage.archives = 0 => Archive \notin DOMAIN dir

\* At most one rotation of a life renames the log, so at most one compresses.
Once ==
  /\ damage.archives <= life.number
  /\ LogFile \in DOMAIN dir =>
       /\ damage.archives < life.number
       /\ \A r \in Rotators : rot[r].at \in Early
  /\ \A r \in Rotators :
       rot[r].at \in {"read", "write"} => damage.archives < life.number
  /\ \A r, q \in Rotators : rot[r].at \notin Early /\ rot[q].at \notin Early => r = q

Damaged == damage.replaced \/ damage.cleaned \/ damage.archives > 1

\* Lines of the file named n that are neither in the set s nor logged too late.
Copied(n, s) ==
  n \in DOMAIN dir =>
    dir[n] \in damage.read /\ content[dir[n]] \subseteq s \cup damage.late

\* A line is in a file, or too late for the compression that read its file.
Saved(i) == (\E n \in DOMAIN dir : i \in content[dir[n]]) \/ i \in damage.late

\* What a compression has read is all there is to save, but for the late lines.
Compression ==
  /\ \A i \in 1 .. line : Saved(i)
  /\ life.fd \in damage.read \/ \E n \in DOMAIN dir : dir[n] = life.fd
  /\ \A r \in Rotators :
       /\ rot[r].at = "write" => Copied(Rotated(rot[r].ts), rot[r].data)
       /\ rot[r].at = "remove" =>
            /\ Archive \in DOMAIN dir /\ dir[Archive] = 0
            /\ Copied(Rotated(rot[r].ts), content[0])

RotationInv ==
  RotationTypes /\ Contents /\ Directory /\ Once /\ (~Damaged => Compression)

HandlerTypes ==
  http \in [Requests -> [at : HandlerSteps, reply : Nat, unhealthy : SUBSET Components]]

\* A rotation asked for by a request is under way only while its handler waits.
Waits == \A r \in Requests : rot[r] # Idle => Handling(r, "rotate")

\* Between its set and its get a check finds its key unless it was disturbed.
Probing ==
  \A r \in Requests : Handling(r, "get") /\ r \notin wiped => testKey = "probe"

HealthInv ==
  /\ HandlerTypes /\ {testKey, testKeyAof} \subseteq {"absent", "probe", "other"}
  /\ Probing /\ HealthChecksIsolated

-----------------------------------------------------------------------------
(* Health checks *)

\* No check has begun.
LEMMA HealthInit == MonitoringInit => HealthInv
BY DEF MonitoringInit, HealthInv, HandlerTypes, HandlerSteps, Closed, Probing, Handling,
   HealthChecksIsolated, Checks

\* A step of one handler that leaves the key and the verdict on it alone.
LEMMA MoveHealth ==
  ASSUME HealthInv, NEW r \in Requests, UNCHANGED <<testKey, testKeyAof, wiped>>,
         HandlerTypes', \A q \in Requests \ {r} : http'[q] = http[q],
         http[r].at \notin Checks, http'[r].at \notin Checks,
         "storage" \in http'[r].unhealthy => "storage" \in http[r].unhealthy
  PROVE  HealthInv'
<1>1. Probing'
  BY Zenon DEF HealthInv, Probing, Handling, Checks
<1>2. HealthChecksIsolated'
  BY Zenon DEF HealthInv, HealthChecksIsolated
<1> QED BY Zenon, <1>1, <1>2 DEF HealthInv

\* A response is such a step.
LEMMA RespondHealth ==
  ASSUME HealthInv, NEW r \in Requests, NEW code \in Nat, Respond(r, code),
         UNCHANGED <<testKey, testKeyAof, wiped>>, http[r].at \notin Checks
  PROVE  HealthInv'
<1>1. HandlerTypes' /\ \A q \in Requests \ {r} : http'[q] = http[q]
  BY Zenon DEF Respond, HealthInv, HandlerTypes, HandlerSteps
<1>2. http'[r].at = "done" /\ http'[r].unhealthy = http[r].unhealthy
  BY Zenon DEF Respond, HealthInv, HandlerTypes
<1>3. http'[r].at \notin Checks
  BY Zenon, <1>2 DEF Checks
<1> QED BY Zenon, <1>1, <1>2, <1>3, MoveHealth

\* The steps of one request, those of a check among them.
LEMMA HandleHealth ==
  ASSUME HealthInv, NEW r \in Requests, Handle(r)
  PROVE  HealthInv'
<1>1. CASE check_storage_set(r)
  BY Zenon, <1>1 DEF check_storage_set, Goes, HealthInv, HandlerTypes, HandlerSteps, Handling,
     Probing, Checks, HealthChecksIsolated
<1>2. CASE check_storage_get(r)
  <2>1. CASE testKey = "probe"
    BY <1>2, <2>1 DEF check_storage_get, Goes, HealthInv, HandlerTypes, HandlerSteps,
       Handling, Probing, Checks, HealthChecksIsolated
  <2>2. CASE testKey # "probe"
    <3>1. /\ http' = [http EXCEPT ![r].at = "rest", ![r].unhealthy = {"storage"}]
          /\ UNCHANGED <<testKey, testKeyAof, wiped>> /\ r \in wiped
      BY Zenon, <1>2, <2>2 DEF check_storage_get, HealthInv, Probing
    <3>2. HandlerTypes' /\ \A q \in Requests \ {r} : http'[q] = http[q]
      BY ZenonT(30), <3>1 DEF HealthInv, HandlerTypes, HandlerSteps, Components
    <3>3. http'[r].at = "rest"
      BY Zenon, <3>1 DEF HealthInv, HandlerTypes
    <3> QED BY Zenon, <2>2, <3>1, <3>2, <3>3 DEF HealthInv, Probing, Handling, HealthChecksIsolated
  <2> QED BY Zenon, <2>1, <2>2
<1>3. CASE check_storage_delete(r)
  BY Zenon, <1>3 DEF check_storage_delete, Goes, Disturbed, HealthInv, HandlerTypes,
     HandlerSteps, Handling, Probing, Checks, HealthChecksIsolated
<1>4. CASE check_rest(r)
  <2>1. PICK more \in SUBSET {"disk", "network"} :
          http' = [http EXCEPT ![r].at = "summary", ![r].unhealthy = @ \cup more]
    <3>1. PICK disk \in {{}, {"disk"}}, accepted \in 0 .. MaxCount,
               rejected \in 0 .. MaxCount :
            http' = [http EXCEPT ![r].at = "summary",
                      ![r].unhealthy = @ \cup disk \cup
                        (IF check_network_health(accepted, rejected) = "healthy"
                         THEN {} ELSE {"network"})]
      BY Zenon, <1>4 DEF check_rest
    <3> DEFINE net == IF check_network_health(accepted, rejected) = "healthy"
                      THEN {} ELSE {"network"}
    <3>2. disk \cup net \in SUBSET {"disk", "network"}
      BY Zenon, <3>1
    <3>3. http' = [http EXCEPT ![r].at = "summary", ![r].unhealthy = @ \cup (disk \cup net)]
      <4> HIDE DEF net
      <4>1. http' = [http EXCEPT ![r].at = "summary", ![r].unhealthy = (@ \cup disk) \cup net]
        BY Zenon, <3>1 DEF net
      <4>2. \A a : (a \cup disk) \cup net = a \cup (disk \cup net)
        BY Zenon
      <4> QED BY Zenon, <4>1, <4>2
    <3> QED BY Zenon, <3>2, <3>3
  <2>2. HandlerTypes' /\ \A q \in Requests \ {r} : http'[q] = http[q]
    BY ZenonT(30), <2>1 DEF HealthInv, HandlerTypes, HandlerSteps, Components
  <2>3. http'[r].at = "summary" /\ http'[r].unhealthy = http[r].unhealthy \cup more
    BY Zenon, <2>1 DEF HealthInv, HandlerTypes
  <2>4. UNCHANGED <<testKey, testKeyAof, wiped>> /\ http[r].at = "rest"
    BY Zenon, <1>4 DEF check_rest, Handling
  <2> QED BY Zenon, <2>1, <2>2, <2>3, <2>4, MoveHealth DEF Checks
<1>5. CASE handle_health_check(r)
  <2>1. http[r].at \notin Checks
    BY Zenon, <1>5 DEF handle_health_check, Handling, Checks
  <2> QED BY <1>5, <2>1, RespondHealth DEF handle_health_check
<1>6. CASE handle_metrics_request(r)
  <2>1. http[r].at \notin Checks
    BY Zenon, <1>6 DEF handle_metrics_request, Handling, Checks
  <2> QED BY <1>6, <2>1, RespondHealth DEF handle_metrics_request
<1>7. CASE handle_log_status(r)
  <2>1. http[r].at \notin Checks
    BY Zenon, <1>7 DEF handle_log_status, Handling, Checks
  <2> QED BY <1>7, <2>1, RespondHealth DEF handle_log_status
<1>8. CASE handle_not_found(r)
  <2>1. http[r].at \notin Checks
    BY Zenon, <1>8 DEF handle_not_found, Handling, Checks
  <2> QED BY <1>8, <2>1, RespondHealth DEF handle_not_found
<1>9. CASE handle_log_rotation(r)
  <2>1. http[r].at \notin Checks
    BY Zenon, <1>9 DEF handle_log_rotation, Handling, Checks
  <2> QED BY <1>9, <2>1, RespondHealth DEF handle_log_rotation
<1> QED
  BY Zenon, <1>1, <1>2, <1>3, <1>4, <1>5, <1>6, <1>7, <1>8, <1>9 DEF Handle

\* A connection begins with no verdict and nobody's interference.
LEMMA AcceptHealth ==
  ASSUME HealthInv, NEW r \in Requests, Accept(r)
  PROVE  HealthInv'
<1>1. PICK step \in HandlerSteps \ Checks :
        http' = [http EXCEPT ![r] = [Closed EXCEPT !.at = step]]
  <2>1. Closed = [Closed EXCEPT !.at = "closed"]
    BY DEF Closed
  <2>2. \A l \in RequestLines : handle_request(l) \in HandlerSteps \ Checks
    BY Zenon DEF RequestLines, handle_request, HandlerSteps, Checks
  <2>3. "closed" \in HandlerSteps \ Checks
    BY Zenon DEF HandlerSteps, Checks
  <2> QED BY Zenon, <2>1, <2>2, <2>3 DEF Accept
<1>2. /\ UNCHANGED <<testKey, testKeyAof>> /\ wiped' = wiped \ {r}
      /\ http[r].at \notin Checks
  BY Zenon DEF Accept, Unused, Checks
<1>3. HandlerTypes' /\ \A q \in Requests \ {r} : http'[q] = http[q]
  BY Zenon, <1>1 DEF HealthInv, HandlerTypes, Closed
<1>4. http'[r].at = step /\ http'[r].unhealthy = {}
  BY Zenon, <1>1 DEF HealthInv, HandlerTypes, Closed
<1>5. Probing'
  BY Zenon, <1>1, <1>2, <1>3, <1>4 DEF HealthInv, Probing, Handling, Checks
<1>6. HealthChecksIsolated'
  BY Zenon, <1>1, <1>2, <1>3, <1>4 DEF HealthInv, HealthChecksIsolated
<1> QED BY Zenon, <1>2, <1>3, <1>5, <1>6 DEF HealthInv

\* The clients, the log and the end of the process.
LEMMA HealthNext == HealthInv /\ [MonitoringNext]_mvars => HealthInv'
<1> SUFFICES ASSUME HealthInv, [MonitoringNext]_mvars PROVE HealthInv'
  BY Zenon
<1>1. CASE UNCHANGED wvars
  BY Zenon, <1>1 DEF wvars, HealthInv, HandlerTypes, Handling, Probing, HealthChecksIsolated
<1>2. CASE ClientCommand
  BY Zenon, <1>2 DEF ClientCommand, HealthInv, HandlerTypes, Handling, Probing,
     HealthChecksIsolated
<1>3. CASE RewriteAof
  BY Zenon, <1>3 DEF RewriteAof, HealthInv, HandlerTypes, Handling, Probing,
     HealthChecksIsolated
<1>4. CASE Restart
  BY Zenon, <1>4 DEF Restart, HealthInv, HandlerTypes, HandlerSteps, Closed, Handling, Probing,
     HealthChecksIsolated
<1>5. ASSUME NEW r \in Requests, Accept(r) \/ Handle(r) PROVE HealthInv'
  BY Zenon, <1>5, AcceptHealth, HandleHealth
<1> QED
  BY Zenon, <1>1, <1>2, <1>3, <1>4, <1>5
     DEF MonitoringNext, Environment, TimerTask, RequestTask, mvars

\* check_storage_health finds its key unless someone else really changed it, and
\* leaves it behind only through a BGREWRITEAOF, for any number of requests,
\* clients and restarts (monitoring/health.rs).
THEOREM HealthChecksAlwaysIsolated == MonitoringSpec => []HealthChecksIsolated
<1>1. HealthInv => HealthChecksIsolated
  BY Zenon DEF HealthInv
<1> QED BY <1>1, HealthInit, HealthNext, PTL DEF MonitoringSpec

-----------------------------------------------------------------------------
(* Log rotation *)

\* The names the rotation uses are different.
LEMMA NamesDiffer ==
  LogFile # Archive /\ \A ts : Rotated(ts) # LogFile /\ Rotated(ts) # Archive
BY Zenon DEF LogFile, Archive, Rotated

\* The log is the only file, and empty.
LEMMA RotationInitInv == MonitoringInit => RotationInv
<1> SUFFICES ASSUME RotationInit PROVE RotationInv
  BY Zenon DEF MonitoringInit
<1>1. RotationTypes
  BY LogRotationAssumption DEF RotationInit, RotationTypes, Rotation, RotationSteps, Idle,
     Inodes
<1>2. Contents
  BY Zenon, LogRotationAssumption DEF RotationInit, Contents, Rotation, Idle
<1>3. Directory
  BY LogRotationAssumption, NamesDiffer DEF RotationInit, Directory, Inodes, FileNames
<1>4. Once
  BY DEF RotationInit, Once, Early, Idle
<1>5. Compression
  BY DEF RotationInit, Compression, Idle
<1> QED BY Zenon, <1>1, <1>2, <1>3, <1>4, <1>5 DEF RotationInv

\* A rotation goes on, or another begins or ends, with no effect on the files.
Turns(r) ==
  /\ UNCHANGED <<policy, dir, content, modified, line, now, life, damage>>
  /\ rot' \in [Rotators -> Rotation]
  /\ \A q \in Rotators \ {r} : rot'[q] = rot[q]
  /\ rot'[r].at \notin {"read", "write", "remove"}
  /\ rot'[r].at \in Early \/ rot[r].at \notin Early
  /\ rot'[r].data \subseteq rot[r].data

\* Such a step keeps the invariant.
LEMMA TurnsInv ==
  ASSUME RotationInv, NEW r \in Rotators, Turns(r)
  PROVE  RotationInv'
<1>1. RotationTypes'
  BY Zenon DEF RotationInv, RotationTypes, Turns
<1>2. Contents'
  BY Zenon DEF RotationInv, Contents, Turns
<1>3. Directory'
  BY Zenon DEF RotationInv, Directory, Turns
<1>4. Once'
  BY Zenon DEF RotationInv, Once, Turns, Early
<1>5. ASSUME Compression PROVE Compression'
  BY <1>5 DEF Compression, Saved, Copied, Turns
<1>6. ~Damaged' => Compression'
  <2>1. Damaged => Damaged'
    BY Zenon DEF Damaged, Turns
  <2> QED BY Zenon, <1>5, <2>1 DEF RotationInv
<1> QED BY Zenon, <1>1, <1>2, <1>3, <1>4, <1>6 DEF RotationInv

\* The record of a rotation at its beginning or end,
LEMMA IdleShape ==
  ASSUME NEW step \in RotationSteps, NEW ts \in 0 .. MaxNow
  PROVE  /\ [Idle EXCEPT !.at = step] \in Rotation
         /\ [Idle EXCEPT !.at = step].at = step /\ [Idle EXCEPT !.at = step].data = {}
         /\ [Idle EXCEPT !.at = step, !.ts = ts] \in Rotation
         /\ [Idle EXCEPT !.at = step, !.ts = ts].at = step
         /\ [Idle EXCEPT !.at = step, !.ts = ts].data = {}
<1>1. [Idle EXCEPT !.at = step] = [at |-> step, ts |-> 0, data |-> {}, victims |-> {}]
  BY DEF Idle
<1>2. [Idle EXCEPT !.at = step, !.ts = ts]
        = [at |-> step, ts |-> ts, data |-> {}, victims |-> {}]
  <2>1. [Idle EXCEPT !.at = step, !.ts = ts] = [[Idle EXCEPT !.at = step] EXCEPT !.ts = ts]
    BY Zenon
  <2>2. [[at |-> step, ts |-> 0, data |-> {}, victims |-> {}] EXCEPT !.ts = ts]
          = [at |-> step, ts |-> ts, data |-> {}, victims |-> {}]
    OBVIOUS
  <2> QED BY Zenon, <1>1, <2>1, <2>2
<1>3. 0 \in 0 .. MaxNow /\ {} \in SUBSET Nat /\ {} \in SUBSET FileNames
  BY LogRotationAssumption
<1>4. [at |-> step, ts |-> 0, data |-> {}, victims |-> {}] \in Rotation
  BY Zenon, <1>3 DEF Rotation
<1>5. [at |-> step, ts |-> ts, data |-> {}, victims |-> {}] \in Rotation
  BY Zenon, <1>3 DEF Rotation
<1> QED BY Zenon, <1>1, <1>2, <1>4, <1>5

\* and any record that takes the place of another.
LEMMA TurnTo ==
  ASSUME RotationInv, NEW r \in Rotators, NEW new \in Rotation,
         rot' = [rot EXCEPT ![r] = new],
         UNCHANGED <<policy, files, line, now, life, damage>>,
         new.at \notin {"read", "write", "remove"},
         new.at \in Early \/ rot[r].at \notin Early,
         new.data \subseteq rot[r].data
  PROVE  Turns(r)
<1>1. rot \in [Rotators -> Rotation]
  BY Zenon DEF RotationInv, RotationTypes
<1>2. /\ rot' \in [Rotators -> Rotation] /\ rot'[r] = new
      /\ \A q \in Rotators \ {r} : rot'[q] = rot[q]
  BY Zenon, <1>1
<1> QED BY Zenon, <1>2 DEF Turns, files

\* Every way to end a rotation, or to go on to its cleanup.
LEMMA FinishTurns ==
  ASSUME RotationInv, NEW r \in Rotators,
         Finish(r) \/ Fail(r) \/ (Cleanup(r) /\ rot[r].at \notin Early),
         UNCHANGED <<policy, files, line, now, life, damage>>
  PROVE  Turns(r)
<1>1. PICK step \in {"idle", "ok", "failed", "list"} :
        /\ rot' = [rot EXCEPT ![r] = [Idle EXCEPT !.at = step]]
        /\ step = "list" => rot[r].at \notin Early
  <2>1. CASE Finish(r)
    BY Zenon, <2>1 DEF Finish
  <2>2. CASE Fail(r)
    BY Zenon, <2>2 DEF Fail
  <2>3. CASE Cleanup(r) /\ rot[r].at \notin Early
    BY Zenon, <2>3 DEF Cleanup
  <2> QED BY Zenon, <2>1, <2>2, <2>3
<1>2. step \in RotationSteps /\ 0 \in 0 .. MaxNow
  BY LogRotationAssumption DEF RotationSteps
<1> DEFINE new == [Idle EXCEPT !.at = step]
<1>3. new \in Rotation /\ new.at = step /\ new.data = {}
  BY Zenon, <1>2, IdleShape
<1> HIDE DEF new
<1>4. rot' = [rot EXCEPT ![r] = new]
  BY Zenon, <1>1 DEF new
<1> QED BY Zenon, <1>1, <1>3, <1>4, TurnTo DEF Early

\* The steps of a rotation that are of that kind.
LEMMA TurnSteps ==
  ASSUME RotationInv, NEW r \in Rotators,
         \/ StartRotation(r) \/ ListRotated(r) \/ RecordRotation(r)
         \/ RenameLog(r) /\ LogFile \notin DOMAIN dir
         \/ ReadRotated(r) /\ Rotated(rot[r].ts) \notin DOMAIN dir
         \/ IoFails(r) /\ rot[r].at # "write"
  PROVE  Turns(r)
<1>0. /\ rot \in [Rotators -> Rotation] /\ now \in 0 .. MaxNow
      /\ DOMAIN dir \subseteq FileNames
  BY Zenon DEF RotationInv, RotationTypes, Directory
<1>1. CASE StartRotation(r)
  <2>0. UNCHANGED <<policy, files, line, now, life, damage>>
    BY Zenon, <1>1 DEF StartRotation
  <2>1. CASE LogFile \in DOMAIN dir
    <3>1. rot' = [rot EXCEPT ![r] = [Idle EXCEPT !.at = "rename", !.ts = now]]
      BY Zenon, <1>1, <2>1 DEF StartRotation
    <3> DEFINE new == [Idle EXCEPT !.at = "rename", !.ts = now]
    <3>2. new \in Rotation /\ new.at = "rename" /\ new.data = {}
      <4>1. "rename" \in RotationSteps
        BY Zenon DEF RotationSteps
      <4> QED BY Zenon, <1>0, <4>1, IdleShape
    <3> HIDE DEF new
    <3>3. rot' = [rot EXCEPT ![r] = new]
      BY Zenon, <3>1 DEF new
    <3> QED BY Zenon, <2>0, <3>2, <3>3, TurnTo DEF Early
  <2>2. CASE LogFile \notin DOMAIN dir
    <3>1. Finish(r)
      BY Zenon, <1>1, <2>2 DEF StartRotation
    <3> QED BY Zenon, <1>0, <2>0, <3>1, FinishTurns
  <2> QED BY Zenon, <2>1, <2>2
<1>2. CASE ListRotated(r)
  <2>1. PICK victims \in SUBSET FileNames :
          rot' = [rot EXCEPT ![r].at = "trim", ![r].victims = victims]
    <3> DEFINE old == {n \in DOMAIN dir : is_rotated_file(n)}
               excess == IF Cardinality(old) > max_files
                         THEN Cardinality(old) - max_files ELSE 0
    <3>1. PICK victims \in kSubset(excess, old) :
            rot' = [rot EXCEPT ![r].at = "trim", ![r].victims = victims]
      BY Zenon, <1>2 DEF ListRotated
    <3>2. victims \in SUBSET FileNames
      BY Zenon, <1>0 DEF kSubset
    <3> QED BY Zenon, <3>1, <3>2
  <2>2. /\ UNCHANGED <<policy, files, line, now, life, damage>> /\ rot[r].at = "list"
    BY Zenon, <1>2 DEF ListRotated, At
  <2>3. /\ rot' \in [Rotators -> Rotation] /\ \A q \in Rotators \ {r} : rot'[q] = rot[q]
        /\ rot'[r].at = "trim" /\ rot'[r].data = rot[r].data
    BY ZenonT(30), <1>0, <2>1 DEF Rotation, RotationSteps
  <2> QED BY Zenon, <2>2, <2>3 DEF Turns, files, Early
<1>3. CASE RecordRotation(r)
  BY Zenon, <1>3, FinishTurns DEF RecordRotation
<1>4. CASE RenameLog(r) /\ LogFile \notin DOMAIN dir
  <2>1. Fail(r) /\ UNCHANGED <<policy, files, line, now, life, damage>>
    BY Zenon, <1>4 DEF RenameLog, files
  <2> QED BY Zenon, <2>1, FinishTurns
<1>5. CASE ReadRotated(r) /\ Rotated(rot[r].ts) \notin DOMAIN dir
  <2>1. Cleanup(r) /\ rot[r].at = "read" /\ UNCHANGED <<policy, files, line, now, life, damage>>
    BY Zenon, <1>5 DEF ReadRotated, At
  <2> QED BY Zenon, <2>1, FinishTurns DEF Early
<1>6. CASE IoFails(r) /\ rot[r].at # "write"
  <2>1. /\ UNCHANGED <<policy, files, line, now, life, damage>>
        /\ Fail(r) \/ (Cleanup(r) /\ rot[r].at \in {"read", "remove"})
    BY Zenon, <1>6 DEF IoFails, At
  <2> QED BY Zenon, <2>1, FinishTurns DEF Early
<1> QED BY Zenon, <1>1, <1>2, <1>3, <1>4, <1>5, <1>6

\* So are the steps that begin one, and those that take note of its end.
LEMMA TurnEnds ==
  ASSUME RotationInv, NEW r \in Rotators,
         NEW step \in {"idle", "begin"}, rot' = [rot EXCEPT ![r] = [Idle EXCEPT !.at = step]],
         UNCHANGED <<policy, files, line, now, life, damage>>
  PROVE  Turns(r)
<1>1. step \in RotationSteps /\ 0 \in 0 .. MaxNow
  BY LogRotationAssumption DEF RotationSteps
<1> DEFINE new == [Idle EXCEPT !.at = step]
<1>2. new \in Rotation /\ new.at = step /\ new.data = {}
  BY Zenon, <1>1, IdleShape
<1> HIDE DEF new
<1>3. rot' = [rot EXCEPT ![r] = new]
  BY Zenon DEF new
<1> QED BY Zenon, <1>2, <1>3, TurnTo DEF Early

\* The clock only moves forward.
LEMMA TickInv ==
  ASSUME RotationInv, Tick
  PROVE  RotationInv'
<1>1. /\ UNCHANGED <<policy, dir, content, modified, line, life, rot, damage>>
      /\ now' = now + 1 /\ now < MaxNow
  BY Zenon DEF Tick, files
<1>2. RotationTypes'
  BY <1>1, LogRotationAssumption DEF RotationInv, RotationTypes
<1>3. Contents' /\ Directory' /\ Once'
  BY Zenon, <1>1 DEF RotationInv, Contents, Directory, Once
<1>4. ~Damaged' => Compression'
  <2>1. Damaged => Damaged'
    BY Zenon, <1>1 DEF Damaged
  <2>2. Compression => Compression'
    BY Zenon, <1>1 DEF Compression, Saved, Copied
  <2> QED BY Zenon, <2>1, <2>2 DEF RotationInv
<1> QED BY Zenon, <1>2, <1>3, <1>4 DEF RotationInv

\* The logger writes to the inode it opened: to a file a compression has read
\* the line comes too late.
LEMMA LogInv ==
  ASSUME RotationInv, Log
  PROVE  RotationInv'
<1>0. /\ RotationTypes /\ Contents /\ Directory /\ Once
      /\ line \in Nat /\ now \in 0 .. MaxNow
      /\ life.fd \in Inodes /\ life.fd # 0 /\ content \in [Inodes -> SUBSET (1 .. line)]
  BY DEF RotationInv, RotationTypes, Contents, Inodes
<1>1. /\ UNCHANGED <<policy, dir, now, life, rot>> /\ line' = line + 1
      /\ content' = [content EXCEPT ![life.fd] = @ \cup {line + 1}]
      /\ modified' = [modified EXCEPT ![life.fd] = now]
  BY Zenon DEF Log
<1>2. /\ damage'.replaced = damage.replaced /\ damage'.cleaned = damage.cleaned
      /\ damage'.archives = damage.archives /\ damage'.read = damage.read
      /\ damage'.late = IF life.fd \in damage.read
                        THEN damage.late \cup {line + 1} ELSE damage.late
      /\ damage' \in [replaced : BOOLEAN, cleaned : BOOLEAN, archives : Nat,
                      read : SUBSET Inodes, late : SUBSET Nat]
  <2>1. CASE life.fd \in damage.read
    BY <1>0, <2>1 DEF Log, RotationTypes
  <2>2. CASE life.fd \notin damage.read
    BY Zenon, <1>0, <2>2 DEF Log, RotationTypes
  <2> QED BY Zenon, <2>1, <2>2
<1>3. /\ content' \in [Inodes -> SUBSET (1 .. line')]
      /\ content'[life.fd] = content[life.fd] \cup {line + 1}
      /\ \A i \in Inodes : i # life.fd => content'[i] = content[i]
  BY <1>0, <1>1
<1>4. RotationTypes'
  BY <1>0, <1>1, <1>2 DEF RotationTypes
<1>5. Contents'
  <2>1. 1 .. line \subseteq 1 .. line'
    BY <1>0, <1>1
  <2> QED BY Zenon, <1>0, <1>1, <1>3, <2>1 DEF Contents
<1>6. Directory' /\ Once'
  BY Zenon, <1>0, <1>1, <1>2 DEF Directory, Once
<1>7. ~Damaged' => ~Damaged
  BY Zenon, <1>2 DEF Damaged
<1>8. ASSUME Compression PROVE Compression'
  <2>1. \A i \in 1 .. line' : Saved(i)'
    <3>1. ASSUME NEW i \in 1 .. line PROVE Saved(i)'
      <4>1. Saved(i)
        BY Zenon, <1>8 DEF Compression
      <4> QED BY <1>0, <1>1, <1>2, <1>3, <4>1 DEF Saved, Directory
    <3>2. ASSUME NEW i, i = line + 1 PROVE Saved(i)'
      <4>1. CASE life.fd \in damage.read
        BY Zenon, <1>2, <3>2, <4>1 DEF Saved
      <4>2. CASE life.fd \notin damage.read
        <5>1. PICK n \in DOMAIN dir : dir[n] = life.fd
          BY Zenon, <1>8, <4>2 DEF Compression
        <5>2. i \in content'[dir'[n]] /\ n \in DOMAIN dir'
          BY Zenon, <1>1, <1>3, <3>2, <5>1
        <5> QED BY Zenon, <5>2 DEF Saved
      <4> QED BY Zenon, <4>1, <4>2
    <3>3. \A i \in 1 .. line' : i \in 1 .. line \/ i = line + 1
      BY <1>0, <1>1
    <3> QED BY Zenon, <3>1, <3>2, <3>3
  <2>2. (life.fd \in damage.read \/ \E n \in DOMAIN dir : dir[n] = life.fd)'
    BY Zenon, <1>1, <1>2, <1>8 DEF Compression
  <2>3. ASSUME NEW n, NEW s, Copied(n, s) PROVE Copied(n, s)'
    <3> SUFFICES ASSUME n \in DOMAIN dir
                 PROVE  dir[n] \in damage.read /\ content'[dir[n]] \subseteq s \cup damage'.late
      BY Zenon, <1>1, <1>2 DEF Copied
    <3>1. /\ dir[n] \in damage.read /\ content[dir[n]] \subseteq s \cup damage.late
          /\ dir[n] \in Inodes
      BY Zenon, <1>0, <2>3 DEF Copied, Directory
    <3>2. CASE dir[n] = life.fd
      BY Zenon, <1>2, <1>3, <3>1, <3>2
    <3>3. CASE dir[n] # life.fd
      <4>1. content'[dir[n]] = content[dir[n]] /\ damage.late \subseteq damage'.late
        BY Zenon, <1>2, <1>3, <3>1, <3>3
      <4> QED BY Zenon, <3>1, <4>1
    <3> QED BY Zenon, <3>2, <3>3
  <2>4. content'[0] = content[0] /\ 0 \in Inodes
    BY <1>0, <1>3, LogRotationAssumption DEF Inodes
  <2> QED BY Zenon, <1>1, <1>8, <2>1, <2>2, <2>3, <2>4 DEF Compression
<1> QED BY Zenon, <1>4, <1>5, <1>6, <1>7, <1>8 DEF RotationInv

\* A new life opens the log, or creates it, and no rotation is under way.
LEMMA RestartLogInv ==
  ASSUME RotationInv, RestartLog
  PROVE  RotationInv'
<1> DEFINE number == life.number + 1
           there == LogFile \in DOMAIN dir
           fd == IF there THEN dir[LogFile] ELSE number
<1>0. /\ RotationTypes /\ Contents /\ Directory /\ Once
      /\ life.number \in 1 .. MaxLives /\ damage.archives \in Nat
      /\ now \in 0 .. MaxNow /\ modified \in [Inodes -> 0 .. now]
  BY Zenon DEF RotationInv, RotationTypes
<1>1. /\ UNCHANGED <<policy, content, line, now, damage>> /\ life.number < MaxLives
      /\ life' = [number |-> number, fd |-> fd] /\ dir' = With(LogFile, fd)
      /\ modified' = modified \/ modified' = [modified EXCEPT ![fd] = now]
      /\ rot' = [r \in Rotators |-> Idle]
  BY Zenon DEF RestartLog
<1>2. number \in 1 .. MaxLives
  BY <1>0, <1>1, LogRotationAssumption
<1>3. fd \in 1 .. MaxLives
  <2>1. CASE there
    BY <1>0, <2>1, NamesDiffer, LogRotationAssumption DEF Directory, Inodes
  <2>2. CASE ~there
    BY Zenon, <1>2, <2>2
  <2> QED BY Zenon, <2>1, <2>2
<1>4. /\ DOMAIN dir' = DOMAIN dir \cup {LogFile} /\ dir'[LogFile] = fd
      /\ \A n \in DOMAIN dir : dir'[n] = dir[n]
  BY Zenon, <1>1 DEF With
<1>5. life'.number = life.number + 1 /\ life'.fd = fd
  BY Zenon, <1>1
<1> HIDE DEF fd, there
<1>6. RotationTypes'
  <2>1. Idle \in Rotation
    BY LogRotationAssumption DEF Idle, Rotation, RotationSteps
  <2>2. fd \in Inodes
    BY <1>3, LogRotationAssumption DEF Inodes
  <2> QED BY <1>0, <1>1, <1>2, <1>3, <2>1, <2>2 DEF RotationTypes
<1>7. Contents'
  BY Zenon, <1>0, <1>1 DEF Contents, Idle
<1>8. Directory'
  BY <1>0, <1>1, <1>3, <1>4, NamesDiffer, LogRotationAssumption
     DEF Directory, Inodes, FileNames
<1>9. Once'
  BY <1>0, <1>1, <1>5 DEF Once, Early, Idle
<1>10. ~Damaged' => ~Damaged
  BY Zenon, <1>1 DEF Damaged
<1>11. ASSUME Compression PROVE Compression'
  <2>1. \A i \in 1 .. line' : Saved(i)'
    BY Zenon, <1>1, <1>4, <1>11 DEF Compression, Saved
  <2>2. \E n \in DOMAIN dir' : dir'[n] = life'.fd
    BY Zenon, <1>4, <1>5
  <2>3. \A r \in Rotators : rot'[r].at = "idle"
    BY Zenon, <1>1 DEF Idle
  <2> QED BY Zenon, <2>1, <2>2, <2>3 DEF Compression
<1> QED BY Zenon, <1>6, <1>7, <1>8, <1>9, <1>10, <1>11 DEF RotationInv

\* The log gets another name; nobody else has renamed it in this life.
LEMMA RenameLogInv ==
  ASSUME RotationInv, NEW r \in Rotators, RenameLog(r)
  PROVE  RotationInv'
<1> DEFINE to == Rotated(rot[r].ts)
<1>0. /\ RotationTypes /\ Contents /\ Directory /\ Once /\ damage.archives \in Nat
      /\ rot \in [Rotators -> Rotation] /\ rot[r] \in Rotation
  BY Zenon DEF RotationInv, RotationTypes
<1>1. CASE LogFile \notin DOMAIN dir
  BY Zenon, <1>1, TurnSteps, TurnsInv
<1>2. CASE LogFile \in DOMAIN dir
  <2>1. /\ UNCHANGED <<policy, content, modified, line, now, life>>
        /\ dir' = [n \in (DOMAIN dir \ {LogFile}) \cup {to} |->
                     IF n = to THEN dir[LogFile] ELSE dir[n]]
        /\ damage' = [damage EXCEPT !.replaced = @ \/ to \in DOMAIN dir]
        /\ rot' = [rot EXCEPT ![r].at = "read"]
    BY Zenon, <1>2 DEF RenameLog, GoTo
  <2>2. /\ damage'.archives = damage.archives /\ damage'.read = damage.read
        /\ damage'.late = damage.late /\ damage'.cleaned = damage.cleaned
        /\ damage'.replaced = (damage.replaced \/ to \in DOMAIN dir)
        /\ damage' \in [replaced : BOOLEAN, cleaned : BOOLEAN, archives : Nat,
                        read : SUBSET Inodes, late : SUBSET Nat]
    <3> HIDE DEF to
    <3> QED BY Zenon, <1>0, <2>1 DEF RotationTypes
  <2>3. /\ rot' \in [Rotators -> Rotation] /\ rot'[r].at = "read"
        /\ rot'[r].data = rot[r].data
        /\ \A q \in Rotators \ {r} : rot'[q] = rot[q]
    BY Zenon, <1>0, <2>1 DEF Rotation, RotationSteps
  <2>4. to # LogFile /\ to # Archive /\ to \in FileNames
    BY Zenon, <1>0, NamesDiffer DEF Rotation, FileNames
  <2> HIDE DEF to
  <2>5. /\ DOMAIN dir' = (DOMAIN dir \ {LogFile}) \cup {to} /\ dir'[to] = dir[LogFile]
        /\ \A n \in DOMAIN dir' : n # to => dir'[n] = dir[n]
    BY Zenon, <2>1
  <2>6. \A q \in Rotators : rot[q].at \in Early
    BY Zenon, <1>0, <1>2 DEF Once
  <2>7. RotationTypes'
    BY Zenon, <1>0, <2>1, <2>2, <2>3 DEF RotationTypes
  <2>8. Contents'
    BY Zenon, <1>0, <2>1, <2>3 DEF Contents
  <2>9. Directory'
    BY Zenon, <1>0, <1>2, <2>2, <2>4, <2>5, NamesDiffer DEF Directory
  <2>10. Once'
    BY <1>0, <1>2, <2>1, <2>2, <2>3, <2>4, <2>5, <2>6 DEF Once, Early
  <2>11. ASSUME ~Damaged' PROVE Compression'
    <3>1. ~Damaged /\ to \notin DOMAIN dir
      BY Zenon, <2>2, <2>11 DEF Damaged
    <3>2. Compression
      BY Zenon, <3>1 DEF RotationInv
    <3>3. \A n \in DOMAIN dir : \E m \in DOMAIN dir' : dir'[m] = dir[n]
      BY Zenon, <2>5, <3>1
    <3>4. /\ content' = content /\ line' = line /\ life' = life
          /\ damage'.read = damage.read /\ damage'.late = damage.late
      BY Zenon, <2>1, <2>2
    <3>5. \A i \in 1 .. line' : Saved(i)'
      BY <3>4, <3>2, <3>3 DEF Compression, Saved
    <3>6. life'.fd \in damage'.read \/ \E n \in DOMAIN dir' : dir'[n] = life'.fd
      BY Zenon, <3>4, <3>2, <3>3 DEF Compression
    <3>7. \A q \in Rotators : rot'[q].at \in Early \cup {"read"}
      BY Zenon, <2>3, <2>6
    <3>8. \A q \in Rotators : rot'[q].at # "write" /\ rot'[q].at # "remove"
      BY Zenon, <3>7 DEF Early
    <3> QED BY Zenon, <3>5, <3>6, <3>8 DEF Compression
  <2> QED BY Zenon, <2>7, <2>8, <2>9, <2>10, <2>11 DEF RotationInv
<1> QED BY Zenon, <1>1, <1>2

\* Only the rotation that renamed the log is past its beginning.
LEMMA OnlyOne ==
  ASSUME RotationInv, NEW r \in Rotators, rot[r].at \notin Early
  PROVE  /\ LogFile \notin DOMAIN dir
         /\ \A q \in Rotators \ {r} : rot[q].at \in Early
BY Zenon DEF RotationInv, Once

\* A compression has read its file: the lines logged to it later will be lost.
LEMMA ReadRotatedInv ==
  ASSUME RotationInv, NEW r \in Rotators, ReadRotated(r)
  PROVE  RotationInv'
<1> DEFINE name == Rotated(rot[r].ts)
<1>0. /\ RotationTypes /\ Contents /\ Directory /\ Once /\ damage.archives \in Nat
      /\ rot \in [Rotators -> Rotation] /\ rot[r] \in Rotation
      /\ line \in Nat /\ content \in [Inodes -> SUBSET (1 .. line)]
  BY Zenon DEF RotationInv, RotationTypes, Contents
<1>1. CASE name \notin DOMAIN dir
  BY Zenon, <1>1, TurnSteps, TurnsInv
<1>2. CASE name \in DOMAIN dir
  <2> DEFINE data == content[dir[name]]
  <2>1. /\ UNCHANGED <<policy, dir, content, modified, line, now, life>>
        /\ damage' = [damage EXCEPT !.read = @ \cup {dir[name]}]
        /\ rot' = [rot EXCEPT ![r].at = "write", ![r].data = data]
        /\ rot[r].at = "read"
    BY Zenon, <1>2 DEF ReadRotated, files, At
  <2>2. data \subseteq 1 .. line /\ data \subseteq Nat /\ dir[name] \in Inodes
    <3>1. dir[name] \in Inodes /\ 1 .. line \subseteq Nat
      BY <1>0, <1>2 DEF Directory
    <3> QED BY Zenon, <1>0, <3>1
  <2> HIDE DEF data
  <2>3. /\ rot' \in [Rotators -> Rotation] /\ rot'[r].at = "write"
        /\ rot'[r].data = data /\ rot'[r].ts = rot[r].ts
        /\ \A q \in Rotators \ {r} : rot'[q] = rot[q]
    BY Zenon, <1>0, <2>1, <2>2 DEF Rotation, RotationSteps
  <2>4. /\ damage'.archives = damage.archives /\ damage'.late = damage.late
        /\ damage'.read = damage.read \cup {dir[name]}
        /\ damage'.cleaned = damage.cleaned /\ damage'.replaced = damage.replaced
        /\ damage' \in [replaced : BOOLEAN, cleaned : BOOLEAN, archives : Nat,
                        read : SUBSET Inodes, late : SUBSET Nat]
    <3> HIDE DEF name
    <3> QED BY Zenon, <1>0, <2>1, <2>2 DEF RotationTypes
  <2>5. /\ LogFile \notin DOMAIN dir /\ rot[r].at \notin Early
        /\ \A q \in Rotators \ {r} : rot[q].at \in Early
    <3>1. rot[r].at \notin Early
      BY Zenon, <2>1 DEF Early
    <3> QED BY Zenon, <3>1, OnlyOne
  <2>6. RotationTypes'
    BY Zenon, <1>0, <2>1, <2>3, <2>4 DEF RotationTypes
  <2>7. Contents'
    BY Zenon, <1>0, <2>1, <2>2, <2>3 DEF Contents
  <2>8. Directory' /\ Once'
    BY <1>0, <2>1, <2>3, <2>4, <2>5 DEF Directory, Once
  <2>9. ~Damaged' => ~Damaged
    BY Zenon, <2>4 DEF Damaged
  <2>10. ASSUME Compression PROVE Compression'
    <3>1. UNCHANGED <<dir, content, line, life>>
      BY Zenon, <2>1
    <3>2. \A i \in 1 .. line' : Saved(i)'
      BY Zenon, <2>4, <2>10, <3>1 DEF Compression, Saved
    <3>3. life'.fd \in damage'.read \/ \E n \in DOMAIN dir' : dir'[n] = life'.fd
      BY Zenon, <2>4, <2>10, <3>1 DEF Compression
    <3>4. Copied(Rotated(rot[r].ts), rot[r].data)'
      BY Zenon, <2>3, <2>4, <3>1 DEF Copied, data
    <3>5. \A q \in Rotators \ {r} : rot'[q].at # "write" /\ rot'[q].at # "remove"
      BY Zenon, <2>3, <2>5 DEF Early
    <3>6. rot'[r].at # "remove"
      BY Zenon, <2>3
    <3> QED BY Zenon, <3>2, <3>3, <3>4, <3>5, <3>6 DEF Compression
  <2> QED BY Zenon, <2>6, <2>7, <2>8, <2>9, <2>10 DEF RotationInv
<1> QED BY Zenon, <1>1, <1>2

\* What the removal of files by a rotation past its renaming has in common.
LEMMA Removes ==
  ASSUME RotationInv, NEW r \in Rotators, rot[r].at \notin Early,
         UNCHANGED <<policy, content, modified, line, now, life>>,
         DOMAIN dir' \subseteq DOMAIN dir, \A n \in DOMAIN dir' : dir'[n] = dir[n],
         rot' \in [Rotators -> Rotation], rot'[r].at \in {"list", "status"},
         rot'[r].data \subseteq rot[r].data,
         \A q \in Rotators \ {r} : rot'[q] = rot[q],
         damage'.archives = damage.archives,
         damage' \in [replaced : BOOLEAN, cleaned : BOOLEAN, archives : Nat,
                      read : SUBSET Inodes, late : SUBSET Nat]
  PROVE  /\ RotationTypes' /\ Contents' /\ Directory' /\ Once'
         /\ \A q \in Rotators : rot'[q].at # "write" /\ rot'[q].at # "remove"
<1>1. /\ LogFile \notin DOMAIN dir /\ \A q \in Rotators \ {r} : rot[q].at \in Early
  BY Zenon, OnlyOne
<1>2. RotationTypes'
  BY Zenon DEF RotationInv, RotationTypes
<1>3. Contents'
  BY Zenon DEF RotationInv, Contents
<1>4. Directory'
  BY Zenon DEF RotationInv, Directory
<1>5. Once'
  BY <1>1 DEF RotationInv, Once, Early
<1>6. \A q \in Rotators : rot'[q].at # "write" /\ rot'[q].at # "remove"
  BY Zenon, <1>1 DEF Early
<1> QED BY Zenon, <1>2, <1>3, <1>4, <1>5, <1>6

\* The original goes once the archive has its lines.
LEMMA RemoveOriginalInv ==
  ASSUME RotationInv, NEW r \in Rotators, RemoveOriginal(r)
  PROVE  RotationInv'
<1> DEFINE name == Rotated(rot[r].ts)
<1>0. /\ rot \in [Rotators -> Rotation] /\ rot[r] \in Rotation
      /\ damage \in [replaced : BOOLEAN, cleaned : BOOLEAN, archives : Nat,
                     read : SUBSET Inodes, late : SUBSET Nat]
  BY Zenon DEF RotationInv, RotationTypes
<1>1. /\ UNCHANGED <<policy, content, modified, line, now, life, damage>>
      /\ dir' = Without({name}) /\ Cleanup(r) /\ rot[r].at = "remove"
  BY Zenon DEF RemoveOriginal, At
<1>2. /\ DOMAIN dir' = DOMAIN dir \ {name} /\ \A n \in DOMAIN dir' : dir'[n] = dir[n]
  BY Zenon, <1>1 DEF Without, Restrict
<1>3. /\ rot' \in [Rotators -> Rotation] /\ rot'[r].at = "list" /\ rot'[r].data = {}
      /\ \A q \in Rotators \ {r} : rot'[q] = rot[q]
  <2>1. 0 \in 0 .. MaxNow /\ "list" \in RotationSteps
    BY LogRotationAssumption DEF RotationSteps
  <2> DEFINE new == [Idle EXCEPT !.at = "list"]
  <2>2. new \in Rotation /\ new.at = "list" /\ new.data = {}
    BY Zenon, <2>1, IdleShape
  <2>3. rot' = [rot EXCEPT ![r] = new]
    BY Zenon, <1>1 DEF Cleanup
  <2> HIDE DEF new
  <2> QED BY Zenon, <1>0, <2>2, <2>3
<1>4. rot[r].at \notin Early
  BY Zenon, <1>1 DEF Early
<1>5. /\ RotationTypes' /\ Contents' /\ Directory' /\ Once'
      /\ \A q \in Rotators : rot'[q].at # "write" /\ rot'[q].at # "remove"
  <2> HIDE DEF name
  <2>1. /\ UNCHANGED <<policy, content, modified, line, now, life>> /\ damage' = damage
        /\ DOMAIN dir' \subseteq DOMAIN dir
    BY Zenon, <1>1, <1>2
  <2> QED BY Zenon, <1>0, <1>2, <1>3, <1>4, <2>1, Removes
<1>6. Damaged' <=> Damaged
  BY Zenon, <1>1 DEF Damaged
<1>7. ASSUME Compression PROVE Compression'
  <2>1. /\ Archive \in DOMAIN dir /\ dir[Archive] = 0 /\ Copied(name, content[0])
    BY Zenon, <1>1, <1>7 DEF Compression
  <2>2. /\ Archive \in DOMAIN dir' /\ dir'[Archive] = 0
    BY Zenon, <1>2, <2>1, NamesDiffer
  <2> HIDE DEF name
  <2>3. ASSUME NEW i \in 1 .. line' PROVE Saved(i)'
    <3>1. Saved(i) /\ content' = content /\ damage' = damage
      BY Zenon, <1>1, <1>7, <2>3 DEF Compression
    <3>2. CASE i \in damage.late
      BY Zenon, <3>1, <3>2 DEF Saved
    <3>3. ASSUME NEW n \in DOMAIN dir, i \in content[dir[n]], i \notin damage.late
          PROVE  Saved(i)'
      <4>1. CASE n = name
        <5>1. i \in content[0]
          BY Zenon, <2>1, <3>3, <4>1 DEF Copied
        <5> QED BY Zenon, <2>2, <3>1, <5>1 DEF Saved
      <4>2. CASE n # name
        <5>1. n \in DOMAIN dir' /\ dir'[n] = dir[n]
          BY Zenon, <1>2, <4>2
        <5> QED BY Zenon, <3>1, <3>3, <5>1 DEF Saved
      <4> QED BY Zenon, <4>1, <4>2
    <3> QED BY Zenon, <3>1, <3>2, <3>3 DEF Saved
  <2>4. life'.fd \in damage'.read \/ \E n \in DOMAIN dir' : dir'[n] = life'.fd
    <3>1. life' = life /\ damage' = damage
      BY Zenon, <1>1
    <3>2. CASE life.fd \in damage.read
      BY Zenon, <3>1, <3>2
    <3>3. ASSUME NEW n \in DOMAIN dir, dir[n] = life.fd, life.fd \notin damage.read
          PROVE  n \in DOMAIN dir' /\ dir'[n] = life'.fd
      <4>1. n # name
        BY Zenon, <2>1, <3>3 DEF Copied
      <4> QED BY Zenon, <1>2, <3>1, <3>3, <4>1
    <3> QED BY Zenon, <1>7, <3>1, <3>2, <3>3 DEF Compression
  <2> QED BY Zenon, <1>5, <2>3, <2>4 DEF Compression
<1> QED BY Zenon, <1>5, <1>6, <1>7 DEF RotationInv

\* The cleanup of files beyond max_files is damage, unless there is none.
LEMMA RemoveVictimsInv ==
  ASSUME RotationInv, NEW r \in Rotators, RemoveVictims(r)
  PROVE  RotationInv'
<1> DEFINE victims == rot[r].victims
<1>0. /\ rot \in [Rotators -> Rotation] /\ rot[r] \in Rotation
      /\ damage \in [replaced : BOOLEAN, cleaned : BOOLEAN, archives : Nat,
                     read : SUBSET Inodes, late : SUBSET Nat]
  BY Zenon DEF RotationInv, RotationTypes
<1>1. /\ UNCHANGED <<policy, content, modified, line, now, life>>
      /\ dir' = Without(victims) /\ rot[r].at = "trim"
      /\ damage' = [damage EXCEPT !.cleaned = @ \/ victims # {}]
      /\ rot' = [rot EXCEPT ![r].at = "status", ![r].victims = {}]
  BY Zenon DEF RemoveVictims, At
<1>2. /\ DOMAIN dir' = DOMAIN dir \ victims /\ \A n \in DOMAIN dir' : dir'[n] = dir[n]
  BY Zenon, <1>1 DEF Without, Restrict
<1>3. /\ rot' \in [Rotators -> Rotation] /\ rot'[r].at = "status"
      /\ rot'[r].data = rot[r].data /\ \A q \in Rotators \ {r} : rot'[q] = rot[q]
  BY Zenon, <1>0, <1>1 DEF Rotation, RotationSteps
<1> HIDE DEF victims
<1>4. /\ damage'.archives = damage.archives /\ damage'.read = damage.read
      /\ damage'.late = damage.late /\ damage'.replaced = damage.replaced
      /\ damage'.cleaned = (damage.cleaned \/ victims # {})
      /\ damage' \in [replaced : BOOLEAN, cleaned : BOOLEAN, archives : Nat,
                      read : SUBSET Inodes, late : SUBSET Nat]
  BY Zenon, <1>0, <1>1
<1>5. rot[r].at \notin Early
  BY Zenon, <1>1 DEF Early
<1>6. /\ RotationTypes' /\ Contents' /\ Directory' /\ Once'
      /\ \A q \in Rotators : rot'[q].at # "write" /\ rot'[q].at # "remove"
  <2>1. /\ UNCHANGED <<policy, content, modified, line, now, life>>
        /\ DOMAIN dir' \subseteq DOMAIN dir
    BY Zenon, <1>1, <1>2
  <2> QED BY Zenon, <1>2, <1>3, <1>4, <1>5, <2>1, Removes
<1>7. ASSUME ~Damaged' PROVE Compression'
  <2>1. ~Damaged /\ victims = {}
    BY Zenon, <1>4, <1>7 DEF Damaged
  <2>2. Compression /\ UNCHANGED <<content, line, life>>
    BY Zenon, <1>1, <2>1 DEF RotationInv
  <2>3. DOMAIN dir' = DOMAIN dir
    BY Zenon, <1>2, <2>1
  <2>4. \A i \in 1 .. line' : Saved(i)'
    BY Zenon, <1>2, <1>4, <2>2, <2>3 DEF Compression, Saved
  <2>5. life'.fd \in damage'.read \/ \E n \in DOMAIN dir' : dir'[n] = life'.fd
    BY Zenon, <1>2, <1>4, <2>2, <2>3 DEF Compression
  <2> QED BY Zenon, <1>6, <2>4, <2>5 DEF Compression
<1> QED BY Zenon, <1>6, <1>7 DEF RotationInv

\* The archive is written, or truncated by a write that fails: the first time
\* there was none to lose, and a second time is damage.
LEMMA ArchiveInv ==
  ASSUME RotationInv, NEW r \in Rotators, rot[r].at = "write",
         NEW d, d \subseteq rot[r].data,
         UNCHANGED <<policy, line, now, life>>,
         dir' = With(Archive, 0), content' = [content EXCEPT ![0] = d],
         modified' = [modified EXCEPT ![0] = now],
         damage' = [damage EXCEPT !.archives = @ + 1],
         (GoTo(r, "remove") /\ d = rot[r].data) \/ Cleanup(r)
  PROVE  RotationInv'
<1>0. /\ RotationTypes /\ Contents /\ Directory /\ Once
      /\ rot \in [Rotators -> Rotation] /\ rot[r] \in Rotation
      /\ line \in Nat /\ content \in [Inodes -> SUBSET (1 .. line)]
      /\ rot[r].data \subseteq 1 .. line
      /\ now \in 0 .. MaxNow /\ modified \in [Inodes -> 0 .. now]
      /\ damage \in [replaced : BOOLEAN, cleaned : BOOLEAN, archives : Nat,
                     read : SUBSET Inodes, late : SUBSET Nat]
      /\ 0 \in Inodes
  <2>1. 0 \in Inodes
    BY LogRotationAssumption DEF Inodes
  <2>2. RotationTypes /\ Contents /\ Directory /\ Once
    BY Zenon DEF RotationInv
  <2>3. rot \in [Rotators -> Rotation]
    BY Zenon, <2>2 DEF RotationTypes
  <2>4. rot[r] \in Rotation
    BY Zenon, <2>3
  <2> QED BY Zenon, <2>1, <2>2, <2>3, <2>4 DEF RotationTypes, Contents
<1>1. /\ DOMAIN dir' = DOMAIN dir \cup {Archive} /\ dir'[Archive] = 0
      /\ \A n \in DOMAIN dir : n # Archive => dir'[n] = dir[n]
  BY Zenon DEF With
<1>2. /\ content' \in [Inodes -> SUBSET (1 .. line)] /\ content'[0] = d
      /\ \A i \in Inodes : i # 0 => content'[i] = content[i]
  BY Zenon, <1>0
<1>3. /\ damage'.archives = damage.archives + 1 /\ damage.archives \in Nat
      /\ damage'.read = damage.read /\ damage'.late = damage.late
      /\ damage'.replaced = damage.replaced /\ damage'.cleaned = damage.cleaned
      /\ damage' \in [replaced : BOOLEAN, cleaned : BOOLEAN, archives : Nat,
                      read : SUBSET Inodes, late : SUBSET Nat]
  BY <1>0
<1>4. /\ rot' \in [Rotators -> Rotation] /\ rot'[r].at \in {"remove", "list"}
      /\ rot'[r].data \subseteq rot[r].data
      /\ rot'[r].at = "remove" => rot'[r].ts = rot[r].ts /\ d = rot[r].data
      /\ \A q \in Rotators \ {r} : rot'[q] = rot[q]
  <2>1. CASE GoTo(r, "remove") /\ d = rot[r].data
    BY Zenon, <1>0, <2>1 DEF GoTo, Rotation, RotationSteps
  <2>2. CASE Cleanup(r)
    <3>1. 0 \in 0 .. MaxNow /\ "list" \in RotationSteps
      BY LogRotationAssumption DEF RotationSteps
    <3> DEFINE new == [Idle EXCEPT !.at = "list"]
    <3>2. new \in Rotation /\ new.at = "list" /\ new.data = {}
      BY Zenon, <3>1, IdleShape
    <3>3. rot' = [rot EXCEPT ![r] = new]
      BY Zenon, <2>2 DEF Cleanup
    <3> HIDE DEF new
    <3> QED BY Zenon, <1>0, <3>2, <3>3
  <2> QED BY Zenon, <2>1, <2>2
<1>5. /\ LogFile \notin DOMAIN dir /\ \A q \in Rotators \ {r} : rot[q].at \in Early
      /\ damage.archives < life.number
  <2>1. rot[r].at \notin Early
    BY Zenon DEF Early
  <2>2. damage.archives < life.number
    BY Zenon, <1>0 DEF Once
  <2> QED BY Zenon, <2>1, <2>2, OnlyOne
<1>6. RotationTypes'
  BY <1>0, <1>3, <1>4 DEF RotationTypes
<1>7. Contents'
  BY Zenon, <1>0, <1>2, <1>4 DEF Contents
<1>8. Directory'
  BY <1>0, <1>1, <1>3 DEF Directory, FileNames
<1>9. Once'
  <2>1. life.number \in Nat /\ LogFile \notin DOMAIN dir'
    BY <1>0, <1>1, <1>5, NamesDiffer DEF RotationTypes
  <2> QED BY <1>3, <1>4, <1>5, <2>1 DEF Once, Early
<1>10. ASSUME ~Damaged' PROVE Compression'
  <2>1. ~(damage'.archives > 1) /\ ~damage.replaced /\ ~damage.cleaned
    BY Zenon, <1>3, <1>10 DEF Damaged
  <2>2. damage.archives = 0 /\ ~(damage.archives > 1)
    BY <1>3, <2>1
  <2>3. Compression
    BY Zenon, <2>1, <2>2 DEF RotationInv, Damaged
  <2>4. \A n \in DOMAIN dir :
          /\ n \in DOMAIN dir' /\ dir'[n] = dir[n]
          /\ content'[dir'[n]] = content[dir[n]]
    <3>1. \A n \in DOMAIN dir : n # Archive /\ dir[n] \in Inodes /\ dir[n] # 0
      BY Zenon, <1>0, <2>2 DEF Directory
    <3> QED BY Zenon, <1>1, <1>2, <3>1
  <2>5. \A i \in 1 .. line' : Saved(i)'
    BY <1>3, <2>3, <2>4 DEF Compression, Saved
  <2>6. life'.fd \in damage'.read \/ \E n \in DOMAIN dir' : dir'[n] = life'.fd
    BY Zenon, <1>3, <2>3, <2>4 DEF Compression
  <2>7. \A q \in Rotators : rot'[q].at # "write" /\ (rot'[q].at = "remove" => q = r)
    BY Zenon, <1>4, <1>5 DEF Early
  <2>8. ASSUME rot'[r].at = "remove" PROVE Copied(Rotated(rot[r].ts), content[0])'
    <3>1. Copied(Rotated(rot[r].ts), rot[r].data)
      BY Zenon, <2>3 DEF Compression
    <3> DEFINE name == Rotated(rot[r].ts)
    <3>2. name # Archive /\ rot'[r].ts = rot[r].ts /\ content'[0] = rot[r].data
      BY Zenon, <1>2, <1>4, <2>8, NamesDiffer
    <3>3. ASSUME name \in DOMAIN dir'
          PROVE  /\ dir'[name] \in damage'.read
                 /\ content'[dir'[name]] \subseteq content'[0] \cup damage'.late
      <4> HIDE DEF name
      <4>1. name \in DOMAIN dir
        BY Zenon, <1>1, <3>2, <3>3
      <4>2. dir[name] \in damage.read /\ content[dir[name]] \subseteq rot[r].data \cup damage.late
        BY Zenon, <3>1, <4>1 DEF Copied, name
      <4> QED BY Zenon, <1>3, <2>4, <3>2, <4>1, <4>2
    <3> QED BY Zenon, <3>2, <3>3 DEF Copied
  <2> QED BY Zenon, <1>1, <2>5, <2>6, <2>7, <2>8 DEF Compression
<1> QED BY Zenon, <1>6, <1>7, <1>8, <1>9, <1>10 DEF RotationInv

\* Every step of a rotation keeps the invariant.
LEMMA RotatorStepInv ==
  ASSUME RotationInv, NEW r \in Rotators, RotatorStep(r)
  PROVE  RotationInv'
<1>1. CASE RenameLog(r)
  BY Zenon, <1>1, RenameLogInv
<1>2. CASE ReadRotated(r)
  BY Zenon, <1>2, ReadRotatedInv
<1>3. CASE RemoveOriginal(r)
  BY Zenon, <1>3, RemoveOriginalInv
<1>4. CASE RemoveVictims(r)
  BY Zenon, <1>4, RemoveVictimsInv
<1>5. CASE WriteArchive(r)
  <2> DEFINE d == rot[r].data
  <2>1. d \subseteq rot[r].data
    BY Zenon
  <2> QED BY Zenon, <1>5, <2>1, ArchiveInv DEF WriteArchive, At, compressed_path
<1>6. CASE IoFails(r) /\ rot[r].at = "write"
  <2>1. /\ UNCHANGED <<policy, line, now, life>> /\ Cleanup(r)
        /\ dir' = With(Archive, 0) /\ content' = [content EXCEPT ![0] = {}]
        /\ modified' = [modified EXCEPT ![0] = now]
        /\ damage' = [damage EXCEPT !.archives = @ + 1]
    BY Zenon, <1>6 DEF IoFails, compressed_path
  <2>2. {} \subseteq rot[r].data
    BY Zenon
  <2> QED BY Zenon, <1>6, <2>1, <2>2, ArchiveInv
<1>7. CASE \/ StartRotation(r) \/ ListRotated(r) \/ RecordRotation(r)
           \/ IoFails(r) /\ rot[r].at # "write"
  BY Zenon, <1>7, TurnSteps, TurnsInv
<1> QED
  BY Zenon, <1>1, <1>2, <1>3, <1>4, <1>5, <1>6, <1>7 DEF RotatorStep, perform_rotation

\* Steps that change nothing a rotation depends on.
LEMMA SameInv ==
  ASSUME RotationInv,
         UNCHANGED <<policy, dir, content, modified, line, now, life, rot, damage>>
  PROVE  RotationInv'
<1>1. RotationTypes' /\ Contents' /\ Directory' /\ Once'
  BY Zenon DEF RotationInv, RotationTypes, Contents, Directory, Once
<1>2. Damaged' <=> Damaged
  BY Zenon DEF Damaged
<1>3. Compression => Compression'
  BY Zenon DEF Compression, Saved, Copied
<1> QED BY Zenon, <1>1, <1>2, <1>3 DEF RotationInv

\* A tick of the interval that finds something to rotate.
LEMMA CheckInv ==
  ASSUME RotationInv, check_and_rotate
  PROVE  RotationInv'
<1>1. /\ rot \in [Rotators -> Rotation] /\ Timer \in Rotators /\ rot[Timer] \in Rotation
  BY Zenon DEF RotationInv, RotationTypes, Rotators
<1>2. /\ UNCHANGED <<policy, files, line, now, life, damage>> /\ rot[Timer].at = "idle"
      /\ rot' = [rot EXCEPT ![Timer].at = "begin"]
  BY Zenon DEF check_and_rotate, At, GoTo
<1> DEFINE new == [rot[Timer] EXCEPT !.at = "begin"]
<1>3. new \in Rotation /\ new.at = "begin" /\ new.data = rot[Timer].data
  BY Zenon, <1>1 DEF Rotation, RotationSteps
<1>4. rot' = [rot EXCEPT ![Timer] = new]
  BY Zenon, <1>1, <1>2
<1> HIDE DEF new
<1>5. Turns(Timer)
  BY Zenon, <1>1, <1>2, <1>3, <1>4, TurnTo DEF Early
<1> QED BY Zenon, <1>1, <1>5, TurnsInv

\* Every step keeps the invariant of the rotation.
LEMMA RotationNext == RotationInv /\ [MonitoringNext]_mvars => RotationInv'
<1> SUFFICES ASSUME RotationInv, [MonitoringNext]_mvars PROVE RotationInv'
  BY Zenon
<1>0. /\ Requests \subseteq Rotators /\ Timer \in Rotators
      /\ Idle = [Idle EXCEPT !.at = "idle"]
  BY DEF Rotators, Idle
<1>1. CASE UNCHANGED lvars
  BY Zenon, <1>1, SameInv DEF lvars
<1>2. CASE Log \/ Tick \/ RestartLog
  BY Zenon, <1>2, LogInv, TickInv, RestartLogInv
<1>3. CASE check_and_rotate
  BY Zenon, <1>3, CheckInv
<1>4. CASE TimerFailed
  <2>1. Turns(Timer)
    <3>1. /\ rot' = [rot EXCEPT ![Timer] = [Idle EXCEPT !.at = "idle"]]
          /\ UNCHANGED <<policy, files, line, now, life, damage>>
      BY Zenon, <1>0, <1>4 DEF TimerFailed
    <3> QED BY Zenon, <1>0, <3>1, TurnEnds
  <2> QED BY Zenon, <1>0, <2>1, TurnsInv
<1>5. ASSUME NEW r \in Rotators, RotatorStep(r) PROVE RotationInv'
  BY Zenon, <1>5, RotatorStepInv
<1>6. ASSUME NEW r \in Requests, Accept(r) PROVE RotationInv'
  <2>1. /\ UNCHANGED <<policy, files, line, now, life, damage>>
        /\ rot' = rot \/ rot' = [rot EXCEPT ![r] = [Idle EXCEPT !.at = "begin"]]
    BY Zenon, <1>6 DEF Accept
  <2>2. CASE rot' = rot
    BY Zenon, <2>1, <2>2, SameInv DEF files
  <2>3. CASE rot' = [rot EXCEPT ![r] = [Idle EXCEPT !.at = "begin"]]
    BY Zenon, <1>0, <2>1, <2>3, TurnEnds, TurnsInv
  <2> QED BY Zenon, <2>1, <2>2, <2>3
<1>7. ASSUME NEW r \in Requests, handle_log_rotation(r) PROVE RotationInv'
  <2>1. /\ UNCHANGED <<policy, files, line, now, life, damage>>
        /\ rot' = [rot EXCEPT ![r] = [Idle EXCEPT !.at = "idle"]]
    BY Zenon, <1>0, <1>7 DEF handle_log_rotation
  <2> QED BY Zenon, <1>0, <2>1, TurnEnds, TurnsInv
<1>8. ASSUME NEW r \in Requests, check_rest(r) PROVE RotationInv'
  BY Zenon, <1>8, SameInv DEF check_rest, files
<1>9. ASSUME NEW r \in Requests, Handle(r) PROVE RotationInv'
  BY Zenon, <1>1, <1>7, <1>8, <1>9 DEF Handle, check_storage_set, check_storage_get,
     check_storage_delete, handle_health_check, handle_metrics_request,
     handle_log_status, handle_not_found
<1>10. CASE ClientCommand \/ RewriteAof
  BY Zenon, <1>1, <1>10 DEF ClientCommand, RewriteAof
<1> QED
  BY Zenon, <1>0, <1>1, <1>2, <1>3, <1>4, <1>5, <1>6, <1>9, <1>10
     DEF MonitoringNext, Environment, TimerTask, RequestTask, Restart, mvars

\* Which logged lines are on disk under some name after any rotations, failing
\* file operations and crashes: all but those logged to a file that compress_file
\* had read, unless a file was overwritten whole; and a life of the process
\* compresses at most once (monitoring/log_rotation.rs).
THEOREM LinesAlwaysKept == MonitoringSpec => []LinesKept
<1>1. RotationInv => LinesKept
  <2> SUFFICES ASSUME RotationInv PROVE LinesKept
    BY Zenon
  <2>1. damage.archives <= life.number
    BY Zenon DEF RotationInv, Once
  <2>2. ASSUME ~Damaged PROVE (1 .. line) \ OnDisk \subseteq damage.late
    BY Zenon, <2>2 DEF RotationInv, Compression, Saved, OnDisk
  <2> QED BY Zenon, <2>1, <2>2 DEF LinesKept, Damaged
<1> QED BY <1>1, RotationInitInv, RotationNext, PTL DEF MonitoringSpec

\* A rotation that takes a step is under way, and the others stay where they are.
LEMMA RotatorLocal ==
  ASSUME rot \in [Rotators -> Rotation], NEW r \in Rotators, RotatorStep(r)
  PROVE  rot[r].at # "idle" /\ \A q \in Rotators \ {r} : rot'[q] = rot[q]
<1>1. rot[r].at # "idle"
  BY Zenon DEF RotatorStep, perform_rotation, StartRotation, RenameLog, ReadRotated,
     WriteArchive, RemoveOriginal, ListRotated, RemoveVictims, RecordRotation, IoFails, At
<1>2. ASSUME NEW q \in Rotators \ {r} PROVE rot'[q] = rot[q]
  <2>1. CASE Finish(r) \/ Fail(r) \/ Cleanup(r)
    BY Zenon, <2>1 DEF Finish, Fail, Cleanup
  <2>2. ASSUME NEW step, GoTo(r, step) PROVE rot'[q] = rot[q]
    BY Zenon, <2>2 DEF GoTo
  <2>3. CASE StartRotation(r)
    BY Zenon, <2>1, <2>3 DEF StartRotation
  <2>4. CASE ReadRotated(r)
    BY Zenon, <2>1, <2>4 DEF ReadRotated
  <2>5. CASE ListRotated(r)
    BY Zenon, <2>5 DEF ListRotated
  <2>6. CASE RemoveVictims(r)
    BY Zenon, <2>6 DEF RemoveVictims
  <2>7. CASE RenameLog(r) \/ WriteArchive(r) \/ RemoveOriginal(r) \/ RecordRotation(r)
    BY Zenon, <2>1, <2>2, <2>7 DEF RenameLog, WriteArchive, RemoveOriginal,
       RecordRotation
  <2>8. CASE IoFails(r)
    BY Zenon, <2>1, <2>8 DEF IoFails
  <2> QED
    BY Zenon, <2>3, <2>4, <2>5, <2>6, <2>7, <2>8 DEF RotatorStep, perform_rotation
<1> QED BY Zenon, <1>1, <1>2

\* The handlers of other requests stay where they are.
LEMMA HandleLocal ==
  ASSUME HandlerTypes, NEW r \in Requests, Handle(r), NEW q \in Requests \ {r}
  PROVE  http'[q] = http[q]
<1>1. ASSUME NEW step, Goes(r, step) PROVE http'[q] = http[q]
  BY Zenon, <1>1 DEF Goes, HandlerTypes
<1>2. ASSUME NEW code, Respond(r, code) PROVE http'[q] = http[q]
  BY Zenon, <1>2 DEF Respond, HandlerTypes
<1>3. CASE check_storage_get(r)
  BY Zenon, <1>1, <1>3 DEF check_storage_get, HandlerTypes
<1>4. CASE check_rest(r)
  BY Zenon, <1>4 DEF check_rest, HandlerTypes
<1> QED
  BY ZenonT(30), <1>1, <1>2, <1>3, <1>4 DEF Handle, check_storage_set, check_storage_delete,
     handle_health_check, handle_metrics_request, handle_log_status, handle_not_found,
     handle_log_rotation

\* A request waits for its rotation: one is begun when it is accepted, and taken
\* note of when it is over.
LEMMA WaitsNext ==
  ASSUME RotationInv, HealthInv, Waits, [MonitoringNext]_mvars
  PROVE  Waits'
<1>0. /\ rot \in [Rotators -> Rotation] /\ HandlerTypes /\ Requests \subseteq Rotators
      /\ Timer \in Rotators /\ Timer \notin Requests
  BY Zenon, LogRotationAssumption DEF RotationInv, RotationTypes, HealthInv, Rotators
<1>1. CASE rot' = rot /\ http' = http
  BY Zenon, <1>1 DEF Waits, Handling
<1>2. ASSUME NEW r \in Rotators, http' = http,
             rot[r].at # "idle" \/ r = Timer, \A q \in Rotators \ {r} : rot'[q] = rot[q]
      PROVE  Waits'
  BY <1>0, <1>2 DEF Waits, Handling, Idle
<1>3. ASSUME NEW r \in Rotators, RotatorStep(r), UNCHANGED wvars PROVE Waits'
  BY Zenon, <1>0, <1>2, <1>3, RotatorLocal DEF wvars
<1>4. CASE (check_and_rotate \/ TimerFailed) /\ UNCHANGED wvars
  <2>1. \A q \in Rotators \ {Timer} : rot'[q] = rot[q]
    BY Zenon, <1>0, <1>4 DEF check_and_rotate, TimerFailed, GoTo
  <2> QED BY Zenon, <1>0, <1>2, <1>4, <2>1 DEF wvars
<1>5. CASE Restart
  <2>1. \A r \in Requests : rot'[r] = Idle
    BY Zenon, <1>0, <1>5 DEF Restart, RestartLog
  <2> QED BY Zenon, <2>1 DEF Waits
<1>6. ASSUME NEW r \in Requests, Accept(r) PROVE Waits'
  <2>1. /\ \A q \in Requests \ {r} : http'[q] = http[q] /\ rot'[q] = rot[q]
        /\ rot'[r] # rot[r] => http'[r].at = "rotate"
    BY Zenon, <1>0, <1>6 DEF Accept, HandlerTypes
  <2>2. rot[r] = Idle
    BY Zenon, <1>6 DEF Accept, Unused, Waits, Handling
  <2> QED BY Zenon, <2>1, <2>2 DEF Waits, Handling
<1>7. ASSUME NEW r \in Requests, Handle(r) PROVE Waits'
  <2>1. \A q \in Requests \ {r} : http'[q] = http[q]
    BY Zenon, <1>0, <1>7, HandleLocal
  <2>2. CASE handle_log_rotation(r)
    <3>1. rot'[r] = Idle /\ \A q \in Requests \ {r} : rot'[q] = rot[q]
      BY Zenon, <1>0, <2>2 DEF handle_log_rotation
    <3> QED BY Zenon, <2>1, <3>1 DEF Waits, Handling
  <2>3. CASE ~handle_log_rotation(r)
    <3>1. rot' = rot /\ http[r].at # "rotate"
      BY Zenon, <1>7, <2>3 DEF Handle, check_storage_set, check_storage_get, lvars,
         check_storage_delete, check_rest, handle_health_check, handle_metrics_request,
         handle_log_status, handle_not_found, Handling
    <3> QED BY Zenon, <2>1, <3>1 DEF Waits, Handling
  <2> QED BY Zenon, <2>2, <2>3
<1> QED
  BY Zenon, <1>0, <1>1, <1>3, <1>4, <1>5, <1>6, <1>7 DEF MonitoringNext, Environment,
     TimerTask, RequestTask, ClientCommand, RewriteAof, Log, Tick, mvars, lvars, wvars

\* Names of the directory lead to inodes, files hold logged lines and no time in
\* the future, and a rotation is under way for a connection only while its handler
\* waits for it (monitoring.rs, monitoring/log_rotation.rs).
THEOREM MonitoringTypeCorrect == MonitoringSpec => []MonitoringTypeOK
<1> DEFINE I == RotationInv /\ HealthInv /\ Waits
<1>1. MonitoringInit => I
  <2>1. MonitoringInit => Waits
    BY Zenon DEF MonitoringInit, RotationInit, Waits, Rotators
  <2> QED BY Zenon, <2>1, RotationInitInv, HealthInit
<1>2. I /\ [MonitoringNext]_mvars => I'
  BY Zenon, RotationNext, HealthNext, WaitsNext
<1>3. I => MonitoringTypeOK
  BY LogRotationAssumption DEF RotationInv, RotationTypes, Contents, Directory, Waits,
     HealthInv, MonitoringTypeOK
<1> QED BY <1>1, <1>2, <1>3, PTL DEF MonitoringSpec

=============================================================================
