------------------------------- MODULE MCHost -------------------------------
(***************************************************************************)
(* Small instances for TLC of what the program does to the machine it runs *)
(* on and sends to the network it is in: client queues, their names and    *)
(* the announcements of a server, the firewall, the purge, the login       *)
(* startup and the import of the previous app, taking a port back, and the *)
(* changes made through shaprintctl.  They share no state: a behaviour is  *)
(* one of them, chosen by scene, and the others stand still.               *)
(***************************************************************************)
EXTENDS QueueSetup, Sequences

CONSTANTS
  Self, Pids, MaxSpawns,                         \* taking a port back
  Imports, MaxLaunches, MaxForeign, MaxChoices,  \* launches
  OwnQueues, OtherQueues,                        \* the purge
  Ports, WindowsRules, FirewalldRules, UfwRules, MaxChanges,  \* the firewall
  Mutations, Hyphened, Numerals, Socket          \* shaprintctl

ASSUME SelfAssumption == Self \notin Pids

VARIABLES
  scene,
  backend, profiles, defaults, rules, runtime, permanent, list, start,
  fwHelper, heard, granted, touched, changes,
  pgAt, alive, present, left, warned, report, pgDisturbed,
  launches, foreign, choices, up, laAt, job, task, run, preference, laAsked,
  spoiled, legacy, channel, marker, importing, mine,
  poPlatform, process, spawned, held, poPc, again, found, owners, todo,
  terminated, target, ended,
  clPc, clAsked, gate, command, sent, carried, exit, result,
  printer, address, copy, announced

firewallVars == <<backend, profiles, defaults, rules, runtime, permanent,
                  list, start, fwHelper, heard, granted, touched, changes>>
purgeVars    == <<pgAt, alive, present, left, warned, report, pgDisturbed>>
launchVars   == <<launches, foreign, choices, up, laAt, job, task, run,
                  preference, laAsked, spoiled, legacy, channel, marker,
                  importing, mine>>
portVars     == <<poPlatform, process, spawned, held, poPc, again, found,
                  owners, todo, terminated, target, ended>>
commandVars  == <<clPc, clAsked, gate, command, sent, carried, exit, result>>
nameVars     == <<printer, address, copy, announced>>

Fw == INSTANCE Firewall WITH helper <- fwHelper

Pg == INSTANCE Purge WITH at <- pgAt, disturbed <- pgDisturbed

La == INSTANCE Launch WITH at <- laAt, asked <- laAsked

Po == INSTANCE PortReclaim WITH platform <- poPlatform, pc <- poPc

Cl == INSTANCE CommandLine WITH pc <- clPc, asked <- clAsked

(* What the helper understands of a change whose operands are no options   *)
(* is that change, or an error (arguments, parse_cli_args).                *)
ReadsBack(m) ==
  LET understood == Cl!parse_cli_args(Cl!arguments(m)) IN
    \/ understood.do = "bad"
    \/ /\ understood.do = m.do /\ m.do \notin Cl!Reads
       /\ understood.operands = Cl!MutationOperands(m)

ASSUME MutationsAssumption == \A m \in Mutations : Cl!Plain(m) => ReadsBack(m)

Nm == INSTANCE DiscoveryWire WITH
        NAME_LIMIT <- 60, PRINTER_SLUG <- 6, ADDRESS_SLUG <- 6,
        SERVICE_TYPE <- <<95, 115, 46, 108, 46>>, VERSION <- <<49, 46, 48>>,
        FALLBACK <- <<83, 104>>, MAX_LABEL <- 6, MAX_TXT_STRING <- 12,
        MAX_NAME_JUMPS <- 2, MAX_PACKET <- 140, MAX_ADVERTISED_PRINTERS <- 2,
        SERVER_LIMIT <- 6

(* Values of the constants: rules an administrator may have made, and      *)
(* changes the window asks for.                                            *)
WindowsRule(name, ports, ranges, action, scope, profile) ==
  [name |-> name, ports |-> ports, ranges |-> ranges, action |-> action,
   scope |-> scope, profile |-> profile]
UfwRule(match, ports, ranges, action, from) ==
  [match |-> match, ports |-> ports, ranges |-> ranges, action |-> action, from |-> from]
FirewalldRule(port, zone, action) == [port |-> port, zone |-> zone, action |-> action]

MCWindowsRules ==
  { WindowsRule("tcp", {"tcp"}, {}, "allow", "any", "private"),
    WindowsRule("udp", {"udp"}, {}, "allow", "any", "any"),
    WindowsRule("narrow", {"tcp"}, {}, "allow", "subnet", "any"),
    WindowsRule("program", {"tcp"}, {}, "block", "program", "private"),
    WindowsRule("public", {"udp"}, {}, "block", "any", "public"),
    WindowsRule("range", {}, {"tcp", "udp"}, "block", "any", "any"),
    WindowsRule("wide", {}, {"tcp"}, "allow", "any", "any"),
    WindowsRule("others", {"tcp", "udp"}, {}, "block", "otherProgram", "any") }
MCFirewalldRules ==
  { FirewalldRule("tcp", "default", "open"), FirewalldRule("udp", "default", "open"),
    FirewalldRule("tcp", "other", "open"), FirewalldRule("udp", "other", "open"),
    FirewalldRule("tcp", "default", "reject") }
MCUfwRules ==
  { UfwRule("tcp", {"tcp"}, {}, "allow", "any"), UfwRule("udp", {"udp"}, {}, "allow", "any"),
    UfwRule("tcp", {"tcp"}, {}, "deny", "any"), UfwRule("udp", {"udp"}, {}, "limit", "any"),
    UfwRule("network", {"tcp"}, {}, "allow", "subnet"),
    UfwRule("host", {"udp"}, {}, "deny", "subnet"),
    UfwRule("out", {"tcp"}, {}, "allow", "out"),
    UfwRule("range", {}, {"tcp", "udp"}, "deny", "any"),
    UfwRule("every", {}, {"tcp", "udp"}, "allow", "any") }

MCMutations ==
  { [do |-> "start", operands |-> <<"server-sharing">>],
    [do |-> "stop", operands |-> <<"client-proxy">>],
    [do |-> "shutdown", operands |-> <<>>],
    [do |-> "set channel", operands |-> <<"secret">>],
    [do |-> "set channel", operands |-> <<"">>],
    [do |-> "approve", operands |-> <<"host", "print">>],
    [do |-> "forget", operands |-> <<"host">>],
    [do |-> "install", operands |-> <<"host", "Office">>],
    [do |-> "repair", operands |-> <<"host", "Office">>],
    [do |-> "share", operands |-> <<>>],
    [do |-> "share", operands |-> <<"set", "Office">>],
    [do |-> "share", operands |-> <<"Office", "-y">>],
    [do |-> "share", operands |-> <<"Office", "--socket">>] }

(* Names put together from letters, marks that a command line or a URI     *)
(* gives a meaning, and what the program and Windows append to names.      *)
Part == {<<80>>, <<45>>, <<32>>, <<37>>, <<34>>, <<92>>, <<44>>, Nm!Open,
         Nm!Copy, <<49>>, <<41>>}
Printers == {p \in {Nm!FlattenSeq(s) : s \in UNION {[1 .. n -> Part] : n \in 1 .. 3}} :
               Nm!printer_name(p) = p}
P631 == <<58, 54, 51, 49>>
Addresses == {<<104>> \o P631, <<104, 45, 49>> \o P631, <<104, 45, 104, 58, 49>>,
              <<91, 58, 58, 49, 93>> \o P631}
Proxy == [host |-> "127.0.0.1", port |-> <<49, 49>>]

(* Computers with no name, a plain one, one with a dot, one with spaces,   *)
(* one too long with a space where it is cut; printers with the sign that  *)
(* ends a key, with a space and a dot, and one too long.                   *)
Shared == {<<80>>, <<61, 80>>, <<80, 61, 80>>, <<80, 32, 80, 46>>, Nm!Repeat(7, 80)}
Announcements ==
  [computer : {<<>>, <<65>>, <<65, 46, 66>>, <<32, 65, 32>>, Nm!Repeat(5, 65) \o <<32, 65>>},
   port : {0, 631}, ttl : {0, 400, 120000},
   printers : {s \in UNION {[1 .. n -> Shared] : n \in 0 .. 3} :
                 \A i, j \in DOMAIN s : s[i] = s[j] => i = j}]

(* What stands still has no value.                                         *)
Still(a, b, c, d) == a = "still" /\ b = "still" /\ c = "still" /\ d = "still"

QueueIsStill ==
  /\ Still(platform, queue, others, pending) /\ Still(op, at, helper, saw)
  /\ Still(before, dialog, alone, began) /\ told = "still"
FirewallIsStill ==
  /\ Still(backend, profiles, defaults, rules) /\ changes = "still"
  /\ Still(runtime, permanent, list, start)
  /\ Still(fwHelper, heard, granted, touched)
PurgeIsStill ==
  /\ Still(pgAt, alive, present, left) /\ Still(warned, report, pgDisturbed, pgAt)
LaunchIsStill ==
  /\ Still(launches, foreign, choices, up) /\ Still(laAt, job, task, run)
  /\ Still(preference, laAsked, spoiled, legacy)
  /\ Still(channel, marker, importing, mine)
PortIsStill ==
  /\ Still(poPlatform, process, spawned, held) /\ Still(poPc, again, found, owners)
  /\ Still(todo, terminated, target, ended)
CommandIsStill ==
  /\ Still(clPc, clAsked, gate, command) /\ Still(sent, carried, exit, result)

MCInit ==
  /\ scene \in {"queue", "firewall", "purge", "launch", "port", "command", "names",
               "announcements"}
  /\ IF scene = "queue"    THEN Init    ELSE QueueIsStill
  /\ IF scene = "firewall" THEN Fw!Init ELSE FirewallIsStill
  /\ IF scene = "purge"    THEN Pg!Init ELSE PurgeIsStill
  /\ IF scene = "launch"   THEN La!Init ELSE LaunchIsStill
  /\ IF scene = "port"     THEN Po!Init ELSE PortIsStill
  /\ IF scene = "command"  THEN Cl!Init ELSE CommandIsStill
  /\ IF scene = "names"
       THEN /\ printer \in Printers /\ address \in Addresses
            /\ copy \in {<<>>, Nm!Copy \o <<50, 41>>}
       ELSE printer = "still" /\ address = "still" /\ copy = "still"
  /\ IF scene = "announcements" THEN announced \in Announcements ELSE announced = "still"

hostVars == <<scene, nameVars>>

MCNext ==
  \/ /\ scene = "queue" /\ Next
     /\ UNCHANGED <<hostVars, firewallVars, purgeVars, launchVars, portVars, commandVars>>
  \/ /\ scene = "firewall" /\ Fw!Next
     /\ UNCHANGED <<hostVars, vars, purgeVars, launchVars, portVars, commandVars>>
  \/ /\ scene = "purge" /\ Pg!Next
     /\ UNCHANGED <<hostVars, vars, firewallVars, launchVars, portVars, commandVars>>
  \/ /\ scene = "launch" /\ La!Next
     /\ UNCHANGED <<hostVars, vars, firewallVars, purgeVars, portVars, commandVars>>
  \/ /\ scene = "port" /\ Po!Next
     /\ UNCHANGED <<hostVars, vars, firewallVars, purgeVars, launchVars, commandVars>>
  \/ /\ scene = "command" /\ Cl!Next
     /\ UNCHANGED <<hostVars, vars, firewallVars, purgeVars, launchVars, portVars>>

MCSpec ==
  MCInit /\ [][MCNext]_<<hostVars, vars, firewallVars, purgeVars, launchVars,
                         portVars, commandVars>>

(* An installation or removal reported done is done (install, uninstall).  *)
QueueDone == scene = "queue" => DoneIsTrue

(* A request that fails leaves the queue the computer had (install).       *)
QueueStays == [][scene = "queue" => KeepsQueue]_<<scene, vars>>

(* A server reported ready can be reached through the firewall (setup).    *)
ServingIsReachable == scene = "firewall" => Fw!ServingIsReachable

(* The same without exception, as the code's comment has it (setup).       *)
ClientsGetIn == scene = "firewall" => Fw!ClientsGetIn

(* What the purge leaves behind it names (purge).                          *)
LeftIsNamed == scene = "purge" => Pg!LeftIsNamed

(* Import and restore never change what the user chose (legacy, startup).  *)
UsersChoicesStay == scene = "launch" => La!UsersChoicesStay

(* Taking a port back ends only a stale process of this program            *)
(* (port_binding).                                                         *)
OnlyStaleIsEnded == scene = "port" => Po!OnlyStaleIsEnded

(* A change through polkit and shaprintctl that is reported done was done  *)
(* as asked, and one said to be declined changed nothing (elevated_ctl).   *)
AnswersAreTrue ==
  scene = "command" => Cl!NoChangesWereMade /\ Cl!DoneAsAsked

(* A queue this program installs is recognised as its own afterwards, the  *)
(* elevated helper reads the names it was given, and a browser lists the   *)
(* names a server announces (queue, elevation, discovery/wire).            *)
NamesAreKept ==
  /\ scene = "names" =>
       /\ Nm!InstalledIsRecognised(printer, address, Proxy, copy)
       /\ Nm!HelperGetsRequest(printer, address)
  /\ scene = "announcements" =>
       Nm!AnnouncementIsRead(announced.computer, announced.port,
                             announced.printers, announced.ttl)
=============================================================================
