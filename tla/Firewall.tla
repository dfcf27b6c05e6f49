------------------------------- MODULE Firewall -------------------------------
(***************************************************************************)
(* Letting clients through the firewall before the sharing server starts   *)
(* (Setup::ensure_inbound_sharing in application/setup.rs, the brokers in  *)
(* adapters/elevation.rs): the policy is read; when clients may not get    *)
(* in, it is changed with administrator rights, rule by rule, and read     *)
(* again; only then does the server open its endpoint.                     *)
(*                                                                         *)
(* The policy of Windows is a set of rules and a default for each enabled  *)
(* profile; that of firewalld says of each zone which ports are open and   *)
(* which a rich rule rejects, in the running and in the permanent          *)
(* configuration; that of UFW is a list in which the first rule that       *)
(* matches decides.  A rule of Windows or UFW names a port, or it matches  *)
(* it without naming it: in a range, or because it is about every port.    *)
(***************************************************************************)
EXTENDS Naturals, Sequences, SequencesExt

CONSTANTS
  Ports,      \* the ports of inbound_rules()
  WindowsRules, FirewalldRules, UfwRules,  \* an administrator's
  MaxChanges  \* bound: changes an administrator makes

VARIABLES
  backend,   \* "windows", "firewalld", "ufw" or "none"
  profiles,  \* enabled Windows profiles, and "managed" when rules are not
             \* allowed; the zones of firewalld that have an interface
  defaults,  \* those that let everything in that no rule blocks
  rules,     \* Windows rules
  runtime,   \* what firewalld opens and rejects now
  permanent, \* and after a reload
  list,      \* UFW's rules
  start,     \* "idle", "check", "ask", "elevated", "recheck", "serving", "failed"
  helper,    \* what the privileged part still has to do: a sequence of steps
  heard,     \* the caller still waits for the privileged part
  granted,   \* the privileged part made its last change without an error
  touched,   \* somebody else changed the policy since it was last read
  changes

policy == <<profiles, defaults, rules, runtime, permanent, list>>
vars == <<backend, policy, start, helper, heard, granted, touched, changes>>

Own(p) == [name |-> "ours", ports |-> {p}, ranges |-> {}, action |-> "allow",
           scope |-> "any", profile |-> "any"]
Zone(p, z, action) == [port |-> p, zone |-> z, action |-> action]
Open(p) == Zone(p, "default", "open")

(* UFW keeps one rule for what a rule matches: another action for it takes *)
(* the place of the one there is.                                          *)
AddRule(l, new) ==
  IF \E i \in DOMAIN l : l[i].match = new.match
    THEN [i \in DOMAIN l |-> IF l[i].match = new.match THEN new ELSE l[i]]
    ELSE Append(l, new)

Init ==
  /\ backend \in {"windows", "firewalld", "ufw", "none"}
  /\ profiles \in IF backend = "windows"
                  THEN {{}, {"private"}, {"private", "public"}, {"private", "managed"}}
                  ELSE IF backend = "firewalld"
                  THEN {{"default"}, {"other"}, {"default", "other"}} ELSE {{}}
  /\ defaults \in IF backend = "windows" THEN {{}, profiles \cap {"public"}} ELSE {{}}
  /\ rules \in IF backend = "windows" THEN SUBSET WindowsRules ELSE {{}}
  /\ runtime \in IF backend = "firewalld" THEN SUBSET FirewalldRules ELSE {{}}
  /\ permanent \in IF backend = "firewalld" THEN {{}, {Open(p) : p \in Ports}} ELSE {{}}
  /\ list \in IF backend = "ufw" THEN SeqOf(UfwRules, 2) ELSE {<<>>}
  /\ \A i, j \in DOMAIN list : list[i].match = list[j].match => i = j
  /\ start = "idle" /\ helper = <<>> /\ heard = FALSE /\ granted = FALSE
  /\ touched = FALSE /\ changes = 0

-----------------------------------------------------------------------------
(* Reading the policy.                                                     *)

Profiles == profiles \ {"managed"}
Covers(r, q) == r.profile \in {"any", q}

(* Variant: a rule that blocks one program does not count.                 *)
BlocksClients_NotProgram(r) ==
  /\ r.action = "block" /\ \E q \in Profiles : Covers(r, q)
  /\ r.scope \notin {"otherProgram", "program", "loopback"}

BlocksClients(r) ==
  /\ r.action = "block" /\ \E q \in Profiles : Covers(r, q)
  /\ r.scope \notin {"otherProgram", "loopback"}

AccessForPort(p) ==
  \/ Profiles = {}
  \/ /\ ~ \E r \in rules : p \in r.ports /\ BlocksClients(r)
     /\ \A q \in Profiles \ defaults :
          \E r \in rules : p \in r.ports /\ r.action = "allow" /\ r.scope = "any" /\ Covers(r, q)

WindowsAllowed == (Profiles # {} => "managed" \notin profiles) /\ \A p \in Ports : AccessForPort(p)

(* --query-port asks about the default zone and its list of ports.         *)
FirewalldAllowed == \A p \in Ports : Open(p) \in runtime

(* A line of the status that names the port and allows something.          *)
UfwAllowed ==
  \A p \in Ports : \E i \in DOMAIN list : p \in list[i].ports /\ list[i].action = "allow"

inbound_sharing_allowed ==
  CASE backend = "windows" -> WindowsAllowed
    [] backend = "firewalld" -> FirewalldAllowed
    [] backend = "ufw" -> UfwAllowed
    [] OTHER -> TRUE

-----------------------------------------------------------------------------
(* Setup::ensure_inbound_sharing, in prepare of the server: the            *)
(* coordinator runs one at a time.                                         *)

(* An elevated process that was given up may still be at work.             *)
Start ==
  /\ start \in {"idle", "failed"}
  /\ start' = "check"
  /\ UNCHANGED <<backend, policy, helper, heard, granted, touched, changes>>

Check ==
  /\ start = "check"
  /\ \/ start' = IF inbound_sharing_allowed THEN "serving" ELSE "ask"
     \/ start' = "failed"
  /\ touched' = FALSE
  /\ UNCHANGED <<backend, policy, helper, heard, granted, changes>>

Steps(kind) == SetToSeq({<<kind, p>> : p \in Ports})

(* The privileged part is refused, or begins.  Bound: one given up before  *)
(* ends first.                                                             *)
Elevate ==
  /\ start = "ask" /\ helper = <<>>
  /\ \/ start' = "failed" /\ UNCHANGED <<helper, heard, granted>>
     \/ /\ start' = "elevated" /\ heard' = TRUE /\ granted' = FALSE
        /\ helper' = CASE backend = "windows" -> Steps("remove") \o Steps("add")
                       [] backend = "firewalld" -> Steps("open") \o <<<<"persist", Ports>>>>
                       [] backend = "ufw" -> Steps("append")
  /\ UNCHANGED <<backend, policy, touched, changes>>

Allow(p) == [match |-> p, ports |-> {p}, ranges |-> {}, action |-> "allow", from |-> "any"]

Effect(step) ==
  CASE step[1] = "remove" -> /\ rules' \in {rules \ {Own(step[2])}, rules}
                             /\ UNCHANGED <<runtime, permanent, list>>
    [] step[1] = "add" -> /\ rules' = rules \cup {Own(step[2])}
                          /\ UNCHANGED <<runtime, permanent, list>>
    [] step[1] = "open" -> /\ runtime' = runtime \cup {Open(step[2])}
                           /\ UNCHANGED <<rules, permanent, list>>
    [] step[1] = "persist" -> /\ permanent' = permanent \cup {Open(p) : p \in step[2]}
                              /\ UNCHANGED <<rules, runtime, list>>
    [] step[1] = "append" -> /\ list' = AddRule(list, Allow(step[2]))
                             /\ UNCHANGED <<rules, runtime, permanent>>

(* One command.  A rule that cannot be removed is not a failure.           *)
Apply ==
  /\ helper # <<>>
  /\ Effect(Head(helper)) /\ helper' = Tail(helper)
  /\ granted' = (Tail(helper) = <<>>)
  /\ touched' = (touched \/ ~heard)
  /\ UNCHANGED <<backend, profiles, defaults, start, heard, changes>>

(* A command that fails ends the privileged part.                          *)
Fail ==
  /\ helper # <<>> /\ Head(helper)[1] # "remove"
  /\ helper' = <<>> /\ granted' = FALSE
  /\ UNCHANGED <<backend, policy, start, heard, touched, changes>>

(* The privileged part is over: its exit code is read.                     *)
Finish ==
  /\ start = "elevated" /\ helper = <<>>
  /\ start' = IF granted THEN "recheck" ELSE "failed"
  /\ heard' = FALSE
  /\ UNCHANGED <<backend, policy, helper, granted, touched, changes>>

(* wait_for gives the helper up; an elevated one may not be ended by it.   *)
GiveUp ==
  /\ start = "elevated" /\ backend = "windows" /\ helper # <<>>
  /\ start' = "failed" /\ heard' = FALSE
  /\ helper' \in {helper, <<>>}
  /\ UNCHANGED <<backend, policy, granted, touched, changes>>

Recheck ==
  /\ start = "recheck"
  /\ \/ start' = IF inbound_sharing_allowed THEN "serving" ELSE "failed"
     \/ start' = "failed"
  /\ touched' = FALSE
  /\ UNCHANGED <<backend, policy, helper, heard, granted, changes>>

Stop ==
  /\ start = "serving" /\ start' = "idle"
  /\ UNCHANGED <<backend, policy, helper, heard, granted, touched, changes>>

-----------------------------------------------------------------------------
(* Others change the policy.                                               *)

Administrator ==
  /\ changes < MaxChanges /\ changes' = changes + 1
  /\ CASE backend = "windows" ->
            /\ \/ \E r \in WindowsRules : rules' \in {rules \cup {r}, rules \ {r}}
               \/ rules' = {r \in rules : r.name # "ours"}
            /\ UNCHANGED <<runtime, permanent, list>>
       [] backend = "firewalld" ->
            /\ \/ runtime' = permanent /\ UNCHANGED permanent
               \/ runtime' = {} /\ permanent' = {}
               \/ \E r \in FirewalldRules : runtime' = runtime \cup {r} /\ UNCHANGED permanent
            /\ UNCHANGED <<rules, list>>
       [] backend = "ufw" ->
            /\ \/ \E r \in UfwRules :
                    \/ list' = AddRule(list, r)
                    \/ (\A i \in DOMAIN list : list[i].match # r.match) /\ list' = <<r>> \o list
               \/ \E i \in DOMAIN list : list' = RemoveAt(list, i)
            /\ UNCHANGED <<rules, runtime, permanent>>
       [] OTHER -> UNCHANGED <<rules, runtime, permanent, list>>
  /\ touched' = TRUE
  /\ UNCHANGED <<backend, profiles, defaults, start, helper, heard, granted>>

Next ==
  \/ Start \/ Check \/ Elevate \/ Apply \/ Fail \/ Finish \/ GiveUp \/ Recheck \/ Stop
  \/ Administrator

Spec == Init /\ [][Next]_vars

-----------------------------------------------------------------------------
(* Where a packet of a client on the network gets in.                      *)

Matches(r, p) == p \in r.ports \cup r.ranges
Inbound(r, p) == Matches(r, p) /\ r.from # "out"

Reaches(p) ==
  CASE backend = "windows" ->
         LET Some(q, action, scopes) ==
               \E r \in rules : /\ Matches(r, p) /\ r.action = action
                                /\ Covers(r, q) /\ r.scope \in scopes
         IN \A q \in Profiles :
              /\ "managed" \notin profiles
              /\ ~Some(q, "block", {"any", "program", "subnet"})
              /\ q \in defaults \/ Some(q, "allow", {"any", "program"})
    [] backend = "firewalld" ->
         \A z \in profiles : Zone(p, z, "open") \in runtime /\ Zone(p, z, "reject") \notin runtime
    [] backend = "ufw" ->
         \E i \in DOMAIN list :
           /\ Matches(list[i], p) /\ list[i].action = "allow" /\ list[i].from = "any"
           /\ \A j \in DOMAIN list : j < i /\ Inbound(list[j], p) => list[j].action = "allow"
    [] OTHER -> TRUE

(* What the check takes no notice of: a rule that blocks without naming    *)
(* the port, as one of a range does (PortMatches); a zone other than the   *)
(* default one, and a rich rule (--query-port); a line that denies or      *)
(* limits, wherever it stands, and that an allowance is for some clients   *)
(* only or for what the computer sends (UfwClient).                        *)
Overlooked(p) ==
  CASE backend = "windows" ->
         \E r \in rules : /\ r.action = "block" /\ p \in r.ranges
                          /\ r.scope \in {"any", "program", "subnet"}
                          /\ \E q \in Profiles : Covers(r, q)
    [] backend = "firewalld" ->
         \/ \E z \in profiles \ {"default"} : Zone(p, z, "open") \notin runtime
         \/ \E z \in profiles : Zone(p, z, "reject") \in runtime
    [] backend = "ufw" ->
         \/ \E i \in DOMAIN list : Inbound(list[i], p) /\ list[i].action # "allow"
         \/ \E i \in DOMAIN list : /\ p \in list[i].ports /\ list[i].action = "allow"
                                   /\ list[i].from # "any"
    [] OTHER -> FALSE

(* Server Sharing reports itself ready only when a client of every network *)
(* the computer takes part in reaches both the endpoint and the discovery  *)
(* responder, as long as nobody else has changed the policy since, and     *)
(* unless the policy has what the check takes no notice of.                *)
ServingIsReachable ==
  start = "serving" /\ ~touched => \A p \in Ports : Reaches(p) \/ Overlooked(p)

(* "Ensures clients can reach Server Sharing before its endpoint is        *)
(* opened" (setup.rs), without exception.                                  *)
ClientsGetIn == start = "serving" /\ ~touched => \A p \in Ports : Reaches(p)
=============================================================================
