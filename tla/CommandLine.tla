----------------------------- MODULE CommandLine -----------------------------
(***************************************************************************)
(* A change of machine state asked for in the window on Linux              *)
(* (ipc/control.rs): the window asks the daemon whether it is there, takes *)
(* the authorization gate, lets polkit decide and runs shaprintctl under   *)
(* pkexec (adapters/elevated_ctl.rs); shaprintctl parses its arguments,    *)
(* asks the daemon and prints a payload or an error line                   *)
(* (adapters/daemon.rs, bin/shaprintctl.rs), which the window reads back.  *)
(*                                                                         *)
(* An argument is a string, compared as a whole.  What the daemon does     *)
(* with a request is in the modules of its services: here it carries the   *)
(* request out or refuses it.  `--timeout=5' is `--timeout 5', and the     *)
(* credential file that root writes itself is in NetworkChannel.           *)
(***************************************************************************)
EXTENDS Naturals, Sequences, Folds, SequencesExt

CONSTANTS
  Requests,   \* bound: changes asked for in the window
  Mutations,  \* the changes: records [do, operands] over Rows
  Hyphened,   \* the strings in use that begin with a hyphen
  Numerals,   \* the strings in use that are numbers
  Socket,     \* the path of the control socket
  Nobody      \* the gate is free

ServiceIds == {"server-sharing", "client-proxy", "server-discovery"}

Row(do, words, arity, payload) ==
  [do |-> do, words |-> words, arity |-> arity, payload |-> payload]

(* The commands of shaprintctl: how many operands follow the words, and    *)
(* what a success prints.                                                  *)
Rows ==
  { Row("status", <<"status">>, 0, "status"),
    Row("diagnostics", <<"diagnostics">>, 0, "report"),
    Row("diagnostics", <<"diag">>, 0, "report"),
    Row("start", <<"start">>, 1, "status"),
    Row("shutdown", <<"stop">>, 0, "status"),
    Row("shutdown", <<"stop", "daemon">>, 0, "status"),
    Row("shutdown", <<"shutdown">>, 0, "status"),
    Row("stop", <<"stop">>, 1, "status"),
    Row("drain", <<"drain">>, 0, "drained"),
    Row("channel", <<"network-channel">>, 0, "channel"),
    Row("channel", <<"network-channel", "status">>, 0, "channel"),
    Row("set channel", <<"network-channel", "set">>, 0, "channel"),
    Row("servers", <<"trust", "list">>, 0, "servers"),
    Row("servers", <<"trusted-servers">>, 0, "servers"),
    Row("inspect", <<"trust", "inspect">>, 1, "review"),
    Row("inspect", <<"inspect">>, 1, "review"),
    Row("approve", <<"trust", "approve">>, 1, "review"),
    Row("approve", <<"trust", "approve">>, 2, "review"),
    Row("forget", <<"trust", "forget">>, 1, "forgotten"),
    Row("forget", <<"forget">>, 1, "forgotten"),
    Row("printers", <<"trust", "printers">>, 1, "printers"),
    Row("printers", <<"printers">>, 1, "printers"),
    Row("install", <<"queue", "install">>, 2, "queue"),
    Row("repair", <<"queue", "repair">>, 2, "queue"),
    Row("queues", <<"queue", "list">>, 0, "queues"),
    Row("queues", <<"queues">>, 0, "queues"),
    Row("sharing", <<"sharing">>, 0, "local"),
    Row("sharing", <<"sharing", "printers">>, 0, "local"),
    Row("sharing", <<"sharing", "list">>, 0, "local"),
    Row("share", <<"sharing", "clear">>, 0, "local"),
    Row("purge", <<"purge">>, 0, "purged") }

Reads == {"status", "diagnostics", "channel", "servers", "inspect",
          "printers", "queues", "sharing"}

-----------------------------------------------------------------------------
(* parse_cli_args.                                                         *)

Valued == {"--socket", "--timeout", "--fd", "--credential-file",
           "--fingerprint"}
Flags == {"--confirm", "--yes", "-y", "--json", "--stdin"}
Confirms == {"--confirm", "--yes", "-y"}
Sources == {"--stdin", "--fd", "--credential-file"}

NoOptions == [words |-> <<>>, flags |-> {}, wants |-> "", bad |-> FALSE,
              value |-> [o \in Valued |-> ""]]

(* One turn of the loop.  An option that wants a value takes the next      *)
(* argument, whatever it is.  An unknown option, or one that would carry   *)
(* the Network Channel, is refused.                                        *)
TakeArgument(s, arg) ==
  IF s.wants # ""
    THEN [s EXCEPT !.value[s.wants] = arg, !.wants = "",
                   !.flags = @ \cup {s.wants},
                   !.bad = @ \/ (s.wants \in {"--timeout", "--fd"}
                                 /\ arg \notin Numerals)]
  ELSE IF arg \in Flags  THEN [s EXCEPT !.flags = @ \cup {arg}]
  ELSE IF arg \in Valued THEN [s EXCEPT !.wants = arg]
  ELSE IF arg \in Hyphened THEN [s EXCEPT !.bad = TRUE]
  ELSE [s EXCEPT !.words = Append(@, arg)]

Given(s, o) == o \in s.flags

(* The options that only one command takes.                                *)
OptionsFit(s) ==
  LET source == {o \in Sources : Given(s, o)}
      Leads(words) == IsPrefix(words, s.words)
  IN /\ ~s.bad /\ s.wants = ""
     /\ \A o, p \in source : o = p
     /\ source # {} => Leads(<<"network-channel", "set">>)
     /\ Given(s, "--fingerprint") => Leads(<<"trust", "approve">>)
     /\ Given(s, "--timeout") => Leads(<<"drain">>)

BadCommand == [do |-> "bad", operands |-> <<>>, payload |-> "none",
               json |-> FALSE, confirm |-> FALSE, source |-> "none",
               socket |-> ""]

CommandOf(s, do, operands, payload) ==
  [do |-> do, operands |-> operands, payload |-> payload,
   json |-> "--json" \in s.flags, confirm |-> s.flags \cap Confirms # {},
   source |-> IF Given(s, "--stdin") THEN "stdin"
              ELSE IF Given(s, "--fd") THEN "fd"
              ELSE IF Given(s, "--credential-file") THEN "file" ELSE "prompt",
   socket |-> IF Given(s, "--socket") THEN s.value["--socket"] ELSE Socket]

(* The words and their operands.  `stop' takes no name but a service's and *)
(* "daemon"; the fingerprint to approve is given once, in either form;     *)
(* `sharing set' takes any number of printers but none.                    *)
ParsedCommand(s) ==
  LET operands(row) == SubSeq(s.words, Len(row.words) + 1, Len(s.words))
      fits(row) ==
        /\ IsPrefix(row.words, s.words)
        /\ Len(operands(row)) = row.arity
        /\ row.do \in {"start", "stop"} => operands(row)[1] \in ServiceIds
        /\ row.do = "approve" =>
             (row.arity = 1) = Given(s, "--fingerprint")
      set == <<"sharing", "set">>
  IN IF ~OptionsFit(s) THEN BadCommand
     ELSE IF IsPrefix(set, s.words) /\ Len(s.words) > 2
       THEN CommandOf(s, "share", SubSeq(s.words, 3, Len(s.words)), "local")
     ELSE IF \E row \in Rows : fits(row)
       THEN LET row == CHOOSE row \in Rows : fits(row)
                all == IF row.do = "approve" /\ row.arity = 1
                         THEN Append(operands(row), s.value["--fingerprint"])
                         ELSE operands(row)
            IN CommandOf(s, row.do, all, row.payload)
     ELSE BadCommand

parse_cli_args(arguments) ==
  ParsedCommand(FoldLeft(TakeArgument, NoOptions, arguments))

-----------------------------------------------------------------------------
(* ElevatedMutation.                                                       *)

(* The words of a change; an empty selection is cleared.                   *)
MutationWords(m) ==
  CASE m.do = "start"       -> <<"start">>
    [] m.do = "stop"        -> <<"stop">>
    [] m.do = "shutdown"    -> <<"stop">>
    [] m.do = "set channel" -> <<"network-channel", "set", "--stdin">>
    [] m.do = "approve"     -> <<"trust", "approve">>
    [] m.do = "forget"      -> <<"trust", "forget">>
    [] m.do = "install"     -> <<"queue", "install">>
    [] m.do = "repair"      -> <<"queue", "repair">>
    [] m.do = "share"       -> IF m.operands = <<>> THEN <<"sharing", "clear">>
                                                    ELSE <<"sharing", "set">>

(* The Network Channel goes to standard input, never to the arguments.     *)
MutationOperands(m) == IF m.do = "set channel" THEN <<>> ELSE m.operands

arguments(m) ==
  MutationWords(m) \o MutationOperands(m) \o <<"--json", "--socket", Socket>>

expected_output(m) ==
  CASE m.do \in {"start", "stop", "shutdown"} -> "status"
    [] m.do = "set channel"                   -> "channel"
    [] m.do = "approve"                       -> "review"
    [] m.do = "forget"                        -> "any"
    [] m.do \in {"install", "repair"}         -> "queue"
    [] m.do = "share"                         -> "local"

-----------------------------------------------------------------------------
VARIABLES
  pc,       \* [Requests -> where the request is]
  asked,    \* [Requests -> the change asked for]
  gate,     \* the request that holds the authorization gate, or Nobody
  command,  \* [Requests -> what its helper understood]
  sent,     \* requests that are with the daemon and not yet decided
  carried,  \* [Requests -> the changes the machine has seen on its behalf]
  exit,     \* [Requests -> how pkexec ended]
  result    \* [Requests -> what the window is told]

vars == <<pc, asked, gate, command, sent, carried, exit, result>>

(* How pkexec ends: a success and what is on standard output, a failure    *)
(* with a line of shaprintctl on standard error, or one without.           *)
NotYet       == [how |-> "running"]
Printed(c)   == [how |-> "success", payload |-> c.payload, json |-> c.json]
Reported     == [how |-> "reported"]
Silent(code) == [how |-> "silent", code |-> code]

Init ==
  /\ pc = [r \in Requests |-> "idle"]
  /\ asked \in [Requests -> Mutations]
  /\ gate = Nobody
  /\ command = [r \in Requests |-> BadCommand]
  /\ sent = {}
  /\ carried = [r \in Requests |-> {}]
  /\ exit = [r \in Requests |-> NotYet]
  /\ result = [r \in Requests |-> "none"]

Goto(r, to) == pc' = [pc EXCEPT ![r] = to]
Tell(r, what) == Goto(r, "told") /\ result' = [result EXCEPT ![r] = what]

(* A repair first looks at its queue, and goes on when the daemon says     *)
(* that it is empty.                                                       *)
Ask(r) ==
  /\ pc[r] = "idle"
  /\ \/ Goto(r, "status") /\ UNCHANGED result
     \/ asked[r].do = "repair" /\ Tell(r, "blocked")
  /\ UNCHANGED <<asked, gate, command, sent, carried, exit>>

(* MachineControl::run_mutation asks the daemon for its status before it   *)
(* lets the user authenticate, and ElevatedCtl::run wants the helper to be *)
(* installed.                                                              *)
CheckDaemon(r) ==
  /\ pc[r] = "status"
  /\ \/ Goto(r, "gate") /\ UNCHANGED result
     \/ Tell(r, "unavailable")
  /\ UNCHANGED <<asked, gate, command, sent, carried, exit>>

(* One authentication at a time.                                           *)
EnterGate(r) ==
  /\ pc[r] = "gate" /\ gate = Nobody
  /\ gate' = r /\ Goto(r, "authorize")
  /\ UNCHANGED <<asked, command, sent, carried, exit, result>>

(* authorize_setup: pkcheck may ask the user; without it there is no       *)
(* change.                                                                 *)
Authorize(r) ==
  /\ pc[r] = "authorize"
  /\ \/ Goto(r, "pkexec") /\ UNCHANGED <<gate, result>>
     \/ Tell(r, "unchanged") /\ gate' = Nobody
     \/ Tell(r, "unavailable") /\ gate' = Nobody
  /\ UNCHANGED <<asked, command, sent, carried, exit>>

(* pkexec asks polkit for the action of the command word.                  *)
Pkexec(r) ==
  /\ pc[r] = "pkexec"
  /\ \/ /\ Goto(r, "helper")
        /\ command' = [command EXCEPT
                         ![r] = parse_cli_args(arguments(asked[r]))]
        /\ UNCHANGED exit
     \/ \E code \in {126, 127} :
          Goto(r, "exited") /\ exit' = [exit EXCEPT ![r] = Silent(code)]
          /\ UNCHANGED command
  /\ UNCHANGED <<asked, gate, sent, carried, result>>

Exit(r, how) == Goto(r, "exited") /\ exit' = [exit EXCEPT ![r] = how]

(* What the window asks for, and what a command asks the daemon for.       *)
Wish(m) == [do |-> m.do, operands |-> m.operands]

(* The command of the window that is on its way to the daemon: the channel *)
(* is the line on standard input.                                          *)
RequestOf(r) ==
  [do |-> command[r].do,
   operands |-> IF command[r].do = "set channel" THEN asked[r].operands
                                                 ELSE command[r].operands]

OpenedFirewall == [do |-> "firewall", operands |-> <<>>]

(* A command that does not parse ends shaprintctl with an error line, and  *)
(* so does an empty channel.  `start server-sharing' opens the firewall    *)
(* first, as root and for the machine's own socket.                        *)
ExecuteCommand(r) ==
  /\ pc[r] = "helper"
  /\ IF command[r].do = "bad"
          \/ (command[r].do = "set channel" /\ asked[r].operands = <<"">>)
       THEN Exit(r, Reported) /\ UNCHANGED <<sent, carried>>
       ELSE /\ Goto(r, "sent") /\ sent' = sent \cup {r}
            /\ UNCHANGED exit
            /\ \/ UNCHANGED carried
               \/ /\ RequestOf(r) = Wish([do |-> "start",
                                          operands |-> <<"server-sharing">>])
                  /\ carried' = [carried EXCEPT ![r] = @ \cup {OpenedFirewall}]
  /\ UNCHANGED <<asked, gate, command, result>>

(* The daemon carries the request out; shaprintctl may have stopped        *)
(* waiting, or be gone.                                                    *)
DaemonActs(r) ==
  /\ r \in sent
  /\ sent' = sent \ {r}
  /\ carried' = [carried EXCEPT
       ![r] = IF command[r].do \in Reads THEN @ ELSE @ \cup {RequestOf(r)}]
  /\ \/ pc[r] = "sent" /\ Exit(r, Printed(command[r]))
     \/ UNCHANGED <<pc, exit>>
  /\ UNCHANGED <<asked, gate, command, result>>

DaemonRefuses(r) ==
  /\ r \in sent /\ sent' = sent \ {r}
  /\ IF pc[r] = "sent" THEN Exit(r, Reported) ELSE UNCHANGED <<pc, exit>>
  /\ UNCHANGED <<asked, gate, command, carried, result>>

(* DaemonClient::send cannot connect, or waits no longer than IO_TIMEOUT.  *)
NoAnswer(r) ==
  /\ pc[r] = "sent" /\ Exit(r, Reported)
  /\ sent' \in {sent, sent \ {r}}
  /\ UNCHANGED <<asked, gate, command, carried, result>>

(* The helper is killed: no line, and no exit status.                      *)
HelperDies(r) ==
  /\ pc[r] \in {"helper", "sent"} /\ Exit(r, Silent(0))
  /\ UNCHANGED <<asked, gate, command, sent, carried, result>>

(* parse_elevated_stdout: the payload expected, as JSON.                   *)
Readable(m, how) ==
  \/ expected_output(m) = "any"
  \/ how.payload = expected_output(m) /\ how.json

(* Variant: an end without a report is taken for a refused prompt.         *)
authorization_error_Guesses(code) == "unchanged"

(* authorization_error: only 126 and 127 say that nothing was run.         *)
authorization_error(code) == IF code \in {126, 127} THEN "unchanged" ELSE "unknown"

ReadBack(r) ==
  /\ pc[r] = "exited" /\ gate' = Nobody
  /\ LET how == exit[r] IN
       Tell(r, CASE how.how = "success"  -> IF Readable(asked[r], how)
                                              THEN "done" ELSE "unknown"
                 [] how.how = "reported" -> "failed"
                 [] how.how = "silent"   -> authorization_error(how.code))
  /\ UNCHANGED <<asked, command, sent, carried, exit>>

Next ==
  \E r \in Requests :
    \/ Ask(r) \/ CheckDaemon(r) \/ EnterGate(r) \/ Authorize(r) \/ Pkexec(r)
    \/ ExecuteCommand(r) \/ DaemonActs(r) \/ DaemonRefuses(r) \/ NoAnswer(r)
    \/ HelperDies(r) \/ ReadBack(r)

Spec == Init /\ [][Next]_vars

-----------------------------------------------------------------------------
(* A window that is told that no changes were made is told the truth, now  *)
(* and later: nothing was carried out and nothing is still with the        *)
(* daemon (elevated_ctl.rs, authorize_setup and authorization_error).      *)
NoChangesWereMade ==
  \A r \in Requests :
    result[r] = "unchanged" => carried[r] = {} /\ r \notin sent

Plain(m) == \A i \in 1 .. Len(m.operands) : m.operands[i] \notin Hyphened

(* A window that is told of a success finds exactly the change it asked    *)
(* for, when no operand begins with a hyphen: what arguments() writes,     *)
(* parse_cli_args reads, the daemon does and the payload says.             *)
DoneAsAsked ==
  \A r \in Requests :
    result[r] = "done" /\ Plain(asked[r])
      => /\ Wish(asked[r]) \in carried[r]
         /\ carried[r] \subseteq {Wish(asked[r]), OpenedFirewall}

=============================================================================
