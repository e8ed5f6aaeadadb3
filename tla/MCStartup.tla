------------------------------- MODULE MCStartup -------------------------------
(* Command lines, files and environments for Startup. *)
EXTENDS Startup

Args(config_, overrides) ==
  [config |-> config_, overrides |-> overrides, version |-> FALSE]
Env(separator, values) == [separator |-> separator, values |-> values]
NoArgs == Args("none", Nothing)
NoEnv == Env(".", Nothing)

Plain == [args |-> NoArgs, given |-> Nothing, found |-> Nothing, env |-> NoEnv]

\* One source or several setting the port; command lines that undo or spoil
\* what was validated; files that are refused; ports at both ends of the range,
\* and ports whose monitoring port is another instance's.
ServerSetups ==
  { Plain,
    [Plain EXCEPT !.args.version = TRUE],
    [Plain EXCEPT !.found = [port |-> 4, level |-> "debug"],
                  !.env = Env(".", [port |-> 5])],
    [Plain EXCEPT !.found = [port |-> 4], !.env = Env("_", [port |-> 5])],
    [Plain EXCEPT !.args = Args("exists", [port |-> 7, level |-> "warn"]),
                  !.given = [port |-> 4, log |-> "dir"],
                  !.found = [port |-> 2], !.env = Env(".", [port |-> 5])],
    [Plain EXCEPT !.args = Args("missing", [port |-> 0]), !.found = [port |-> 2]],
    [Plain EXCEPT !.args = Args("none", [bind_address |-> ""])],
    [Plain EXCEPT !.args = Args("none", [bind_address |-> "", port |-> 0])],
    [Plain EXCEPT !.found = [bind_address |-> ""]],
    [Plain EXCEPT !.found = [max_connections |-> 0]],
    [Plain EXCEPT !.env = Env(".", [timeout |-> 0])],
    [Plain EXCEPT !.args = Args("none", [level |-> "info"]),
                  !.found = [level |-> "loud"]],
    [Plain EXCEPT !.found = [port |-> 2^PortBits]],
    [Plain EXCEPT !.found = [aof |-> "absent"]],
    [Plain EXCEPT !.found = [aof |-> "sealed"]],
    [Plain EXCEPT !.found = [log |-> "bare"]],
    [Plain EXCEPT !.found = [log |-> "sealed"]] }

\* A file, and the variable by which docs/CONFIGURATION.md overrides its port.
DocumentedSetups == {[Plain EXCEPT !.found = [port |-> 4], !.env = Env("_", [port |-> 5])]}
=============================================================================
