-------------------------------- MODULE Startup --------------------------------
(****************************************************************************)
(* From the command line to serving: configuration (config.rs), its         *)
(* overrides and the boot sequence (bin/server.rs), for several processes   *)
(* on one machine, whose ports they compete for.                            *)
(*                                                                          *)
(* A configuration is a record of the fields that are checked or that two   *)
(* sources can set; a source (file, environment, command line) gives some   *)
(* of them.                                                                 *)
(****************************************************************************)
EXTENDS Integers, FiniteSets

CONSTANTS
    Instances,   \* server processes
    Setups,      \* what each may be started with: [args, given, found, env]
    Nobody,      \* owner of a free port
    PortBits,    \* width of a port number (u16 in the code)
    PortOffset   \* the monitoring port's distance (1000 in the code)

ASSUME StartupAssumption ==
    /\ Nobody \notin Instances
    /\ PortBits \in Nat /\ 2^PortBits \in Nat \ {0}
    /\ PortOffset \in 1..(2^PortBits - 1)

VARIABLES
    setup,       \* instance -> its command line, files and environment
    boot,        \* instance -> the stage main and async_main have reached
    config,      \* instance -> the configuration in force
    monitor,     \* instance -> the task of the monitoring server
    ports        \* port -> instance listening on it

bvars == <<setup, boot, config, monitor, ports>>

AllPorts == 0..(2^PortBits - 1)
Levels == {"trace", "debug", "info", "warn", "error"}

\* What clap lets through: --port is a u16, --log-level one of five names, and
\* no other field has an option.
ASSUME CommandLineAssumption ==
    \A s \in Setups :
        LET o == s.args.overrides IN
        /\ DOMAIN o \subseteq {"port", "bind_address", "level"}
        /\ "port" \in DOMAIN o => o.port \in AllPorts
        /\ "level" \in DOMAIN o => o.level \in Levels

-----------------------------------------------------------------------------
(* Configuration *)

\* Relative paths: "bare" has no directory part.  "absent" is a directory that
\* does not exist, "sealed" one that cannot be written.
default_config ==
    [port |-> 1, bind_address |-> "localhost", max_connections |-> 1,
     worker_threads |-> 1, aof |-> "bare", timeout |-> 1, level |-> "info",
     log |-> "none"]
Fields == DOMAIN default_config
Nothing == [f \in {} |-> 0]

Over(base, source) ==
    [f \in DOMAIN base |-> IF f \in DOMAIN source THEN source[f] ELSE base[f]]

\* The file named on the command line if there is one, else the first standard
\* location that exists.  A named file that does not exist is not an error.
find_config_file(s) ==
    CASE s.args.config = "exists" -> s.given
      [] s.args.config = "missing" -> Nothing
      [] s.args.config = "none" -> s.found

\* The separator of nested fields in a variable's name is "."; with any other
\* the name is a key nobody reads.
Environment_(s) == IF s.env.separator = "." THEN s.env.values ELSE Nothing

\* Mutant of load_from_file: the environment is added before the file.
load_from_file_env_first(s) ==
    Over(Over(default_config, Environment_(s)), find_config_file(s))

load_from_file(s) ==
    Over(Over(default_config, find_config_file(s)), Environment_(s))

\* try_deserialize: a port that is no u16 ends the load.
deserializes(c) == c.port \in AllPorts

\* Port 0 and a high number of connections or threads pass.
ServerConfig_validate(c) ==
    c.bind_address # "" /\ c.max_connections # 0 /\ c.worker_threads # 0
StorageConfig_validate(c) == c.aof # "absent"
NetworkConfig_validate(c) == c.timeout # 0

\* The parent of a bare file name is the empty path, which does not exist.
LoggingConfig_validate(c) ==
    /\ c.level \in Levels
    /\ c.log \notin {"bare", "absent"}

validate(c) ==
    /\ ServerConfig_validate(c) /\ StorageConfig_validate(c)
    /\ NetworkConfig_validate(c) /\ LoggingConfig_validate(c)

\* After validate: --port, --bind and --log-level.
apply_cli_overrides(c, s) == Over(c, s.args.overrides)

\* config.server.port + 1000 as a u16, where a release build lets it wrap.
monitoring_port(c) == (c.port + PortOffset) % 2^PortBits

-----------------------------------------------------------------------------
(* Ports *)

\* For port 0 the system assigns a free one.  An empty host does not resolve.
CanBind(c, p) == c.bind_address # "" /\ (p = 0 \/ ports[p] = Nobody)
Bind(i, p) == IF p = 0 THEN ports ELSE [ports EXCEPT ![p] = i]
Release(i) == [p \in AllPorts |-> IF ports[p] = i THEN Nobody ELSE ports[p]]

BootInit ==
    /\ setup \in [Instances -> Setups]
    /\ boot = [i \in Instances |-> "main"]
    /\ config = [i \in Instances |-> default_config]
    /\ monitor = [i \in Instances |-> "off"]
    /\ ports = [p \in AllPorts |-> Nobody]

Stage(i, s) == boot' = [boot EXCEPT ![i] = s]

-----------------------------------------------------------------------------
(* The boot sequence *)

\* main: --version prints and ends; a configuration that does not parse or
\* validate ends the process; otherwise the overrides are applied and the
\* runtime is built.
main(i) ==
    /\ boot[i] = "main"
    /\ LET s == setup[i]
           loaded == load_from_file(s)
       IN IF s.args.version \/ ~deserializes(loaded) \/ ~validate(loaded)
          THEN Stage(i, "exited") /\ UNCHANGED config
          ELSE /\ Stage(i, "logging")
               /\ config' =
                     [config EXCEPT ![i] = apply_cli_overrides(loaded, s)]
    /\ UNCHANGED <<setup, monitor, ports>>

\* Opening the log file for append can fail although its directory exists.
init_logging(i) ==
    /\ boot[i] = "logging"
    /\ Stage(i, IF config[i].log = "sealed" THEN "exited" ELSE "environment")
    /\ UNCHANGED <<setup, config, monitor, ports>>

\* The port is bound and released again, and a probe file is written to and
\* removed from the AOF's directory.
validate_environment(i) ==
    /\ boot[i] = "environment"
    /\ Stage(i, IF /\ config[i].port # 0 => CanBind(config[i], config[i].port)
                   /\ config[i].aof # "sealed"
                THEN "open" ELSE "exited")
    /\ UNCHANGED <<setup, config, monitor, ports>>

\* RustyPotatoServer::open replays the log (module AofPersistence) or fails on
\* an unreadable one; then run spawns the monitoring server before the TCP
\* server.  A build with overflow checks panics instead when port + 1000 is no
\* u16.
open(i) ==
    /\ boot[i] = "open"
    /\ \/ Stage(i, "start") /\ monitor' = [monitor EXCEPT ![i] = "spawned"]
       \/ Stage(i, "exited") /\ UNCHANGED monitor
    /\ UNCHANGED <<setup, config, ports>>

\* A monitoring server that cannot bind logs the error and ends its task only.
MonitoringServer_start(i) ==
    /\ monitor[i] = "spawned"
    /\ LET p == monitoring_port(config[i]) IN
       IF CanBind(config[i], p)
       THEN /\ monitor' = [monitor EXCEPT ![i] = "listening"]
            /\ ports' = Bind(i, p)
       ELSE /\ monitor' = [monitor EXCEPT ![i] = "failed"]
            /\ UNCHANGED ports
    /\ UNCHANGED <<setup, boot, config>>

\* TcpServer::start binds a second time; failing ends the process, which aborts
\* the monitoring task.
TcpServer_start(i) ==
    /\ boot[i] = "start"
    /\ IF CanBind(config[i], config[i].port)
       THEN /\ Stage(i, "serving")
            /\ ports' = Bind(i, config[i].port)
            /\ UNCHANGED monitor
       ELSE /\ Stage(i, "exited")
            /\ ports' = Release(i)
            /\ monitor' = [monitor EXCEPT ![i] = "off"]
    /\ UNCHANGED <<setup, config>>

\* A signal, an error of the accept loop or a crash.
Exits(i) ==
    /\ boot[i] = "serving"
    /\ Stage(i, "exited")
    /\ ports' = Release(i)
    /\ monitor' = [monitor EXCEPT ![i] = "off"]
    /\ UNCHANGED <<setup, config>>

BootNext ==
    \E i \in Instances :
        \/ main(i) \/ init_logging(i) \/ validate_environment(i) \/ open(i)
        \/ MonitoringServer_start(i) \/ TcpServer_start(i) \/ Exits(i)

BootSpec == BootInit /\ [][BootNext]_bvars

-----------------------------------------------------------------------------
(* Properties *)

\* The sources of a field, the strongest first.
Sources(s) == <<s.args.overrides, s.env.values, find_config_file(s),
                default_config>>
InForce(s, f) ==
    LET first == CHOOSE n \in 1..4 :
            /\ f \in DOMAIN Sources(s)[n]
            /\ \A m \in 1..(n - 1) : f \notin DOMAIN Sources(s)[m]
    IN Sources(s)[first][f]

\* Fields set by variables under names that load_from_file does not read.
Unread(s) == IF s.env.separator = "." THEN {} ELSE DOMAIN s.env.values

\* A process that serves does so with a configuration that passes validate,
\* although the command line is applied after validation and the environment
\* is probed before another process can take the port; each field comes from
\* the strongest source that gives it (config.rs: defaults, file, environment,
\* command line), the fields excepted whose variables have names that are not
\* read; and it holds its own port, while its monitoring server, if it
\* listens, holds port + 1000, wherever that is a port at all.
ServesWhatWasConfigured ==
    \A i \in Instances : boot[i] = "serving" =>
        LET c == config[i]
            p == c.port + PortOffset
        IN
        /\ validate(c)
        /\ \A f \in Fields \ Unread(setup[i]) : c[f] = InForce(setup[i], f)
        /\ c.port # 0 => ports[c.port] = i
        /\ (monitor[i] = "listening" /\ p \in AllPorts) => ports[p] = i

\* Any field can be overridden by a variable whose name joins the field's path
\* with "_" (docs/CONFIGURATION.md); load_from_file (config.rs) splits names
\* at ".".
EnvironmentOverrides ==
    \A i \in Instances : boot[i] = "serving" =>
        \A f \in Fields : config[i][f] = InForce(setup[i], f)
=============================================================================
