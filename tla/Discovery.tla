------------------------------ MODULE Discovery ------------------------------
(***************************************************************************)
(* Finding servers on the local network: the advertisement of a sharing    *)
(* server (adapters/server_sharing.rs, adapters/discovery/advertise.rs),   *)
(* datagrams that are lost and overtake each other, and the list a         *)
(* browsing client shows (adapters/discovery/browse.rs,                    *)
(* application/discovery.rs).  Servers are told apart by address and do    *)
(* not meet, so there is one; the browser listens on a socket of its own   *)
(* and hears only what is sent to that.                                    *)
(***************************************************************************)
EXTENDS Naturals, FiniteSets

CONSTANTS
  Queues,       \* queues a server may select
  TooLong,      \* those whose name does not fit a TXT string
  MaxPrinters,  \* how many one datagram carries
  TTL,          \* ticks of the clock a browser keeps an advertisement
  MaxInFlight   \* bound on the datagrams on their way to the browser

ASSUME DiscoveryAssumption ==
  /\ TooLong \subseteq Queues
  /\ TTL \in Nat \ {0} /\ MaxInFlight \in Nat \ {0} /\ MaxPrinters \in Nat

VARIABLES
  selection,   \* what the watch channel of Sharing holds
  dirty,       \* the running service has not seen it yet
  sharing,     \* where ServerSharingService::run is
  advertised,  \* the printers of the advertisement
  responder,   \* the task that answers: "off", "listening" or "answering"
  reply,       \* what it has encoded and not yet sent
  remembered,  \* the browser is among the queriers
  query,       \* a question is on its way to the server
  answers,     \* the datagrams on their way to the browser
  browsing,    \* the discovery service runs
  entry,       \* the cached advertisement
  shown        \* the list last published to the window

serverVars  == <<selection, dirty, sharing, advertised, responder, reply,
                 remembered>>
browserVars == <<browsing, entry, shown>>
vars == <<selection, dirty, sharing, advertised, responder, reply, remembered,
          query, answers, browsing, entry, shown>>

NoEntry == [listed |-> FALSE, printers |-> {}, life |-> 0]

(* What the window sees of the cache.                                      *)
Snapshot(e) == [listed |-> e.listed, printers |-> e.printers]

Init ==
  /\ selection \in SUBSET Queues
  /\ dirty = FALSE /\ sharing = "off" /\ advertised = {}
  /\ responder = "off" /\ reply = {} /\ remembered = FALSE
  /\ query = FALSE /\ answers = {}
  /\ browsing = FALSE /\ entry = NoEntry /\ shown = Snapshot(NoEntry)

-----------------------------------------------------------------------------
(* The datagram.                                                           *)

(* The printers are dropped from the end until the rest fits.              *)
Trim(printers) ==
  IF Cardinality(printers) <= MaxPrinters THEN printers
  ELSE CHOOSE P \in SUBSET printers : Cardinality(P) = MaxPrinters

(* One name that is too long spoils the whole announcement.                *)
Encodable(printers) == Trim(printers) \cap TooLong = {}

Packet(printers, live) == [printers |-> Trim(printers), live |-> live]

(* The multicast does not reach the browser: it is sent a copy when it has *)
(* asked before.  More datagrams than the bound are lost on the way.       *)
Announce(printers, live) ==
  answers' = IF remembered /\ browsing /\ Encodable(printers)
                /\ Cardinality(answers) < MaxInFlight
             THEN answers \cup {Packet(printers, live)}
             ELSE answers

-----------------------------------------------------------------------------
(* The server.                                                             *)

Select ==
  /\ selection' \in SUBSET Queues \ {selection}
  /\ dirty' = (sharing \in {"opening", "on"})
  /\ UNCHANGED <<sharing, advertised, responder, reply, remembered, query,
                 answers, browserVars>>

(* The selection is followed before it is read.                            *)
StartSharing ==
  /\ sharing = "off" /\ responder = "off"
  /\ selection # {}
  /\ sharing' = "opening" /\ dirty' = FALSE /\ advertised' = selection
  /\ UNCHANGED <<selection, responder, reply, remembered, query, answers,
                 browserVars>>

(* The socket opens; or sharing goes on without advertising; or the port   *)
(* is taken and the start fails.                                           *)
Advertise ==
  /\ sharing = "opening"
  /\ \/ sharing' = "on" /\ responder' = "listening" /\ UNCHANGED advertised
     \/ sharing' \in {"hidden", "off"} /\ advertised' = {}
        /\ UNCHANGED responder
  /\ remembered' = FALSE
  /\ UNCHANGED <<selection, dirty, reply, query, answers, browserVars>>

(* Variant: replace updates what is answered for only when it grows.       *)
Replace_Quiet ==
  /\ sharing = "on" /\ dirty
  /\ dirty' = FALSE
  /\ advertised' = advertised \cup selection
  /\ UNCHANGED <<selection, sharing, responder, reply, remembered, query,
                 answers, browserVars>>

(* The running service follows the watch channel.                          *)
Replace ==
  /\ sharing = "on" /\ dirty
  /\ dirty' = FALSE
  /\ advertised' = selection
  /\ Announce(selection, selection # {})
  /\ UNCHANGED <<selection, sharing, responder, reply, remembered, query,
                 browserVars>>

(* The endpoint ended, by request or not: the advertisement is emptied and *)
(* withdrawn.                                                              *)
Withdraw ==
  /\ sharing \in {"on", "hidden"}
  /\ sharing' = IF sharing = "on" THEN "leaving" ELSE "off"
  /\ dirty' = FALSE
  /\ advertised' = {}
  /\ IF sharing = "on" THEN Announce({}, FALSE) ELSE UNCHANGED answers
  /\ UNCHANGED <<selection, responder, reply, remembered, query, browserVars>>

(* The responder is told to stop and waited for.                           *)
StopResponder ==
  /\ sharing = "leaving" /\ responder = "listening"
  /\ sharing' = "off" /\ responder' = "off"
  /\ remembered' = FALSE
  /\ UNCHANGED <<selection, dirty, advertised, reply, query, answers,
                 browserVars>>

(* The coordinator aborts the service, or the computer goes away: nobody   *)
(* is told.  An aborted service leaves the responder to end by itself.     *)
Vanish ==
  /\ sharing \notin {"off", "gone"}
  /\ dirty' = FALSE
  /\ \/ sharing' = "gone" /\ UNCHANGED <<advertised, responder, reply>>
     \/ sharing' = "off" /\ advertised' = {}
        /\ responder' = "off" /\ reply' = {}
  /\ remembered' = FALSE
  /\ UNCHANGED <<selection, query, answers, browserVars>>

ResponderEnds ==
  /\ sharing = "gone" /\ responder # "answering"
  /\ sharing' = "off" /\ responder' = "off"
  /\ advertised' = {} /\ remembered' = FALSE
  /\ UNCHANGED <<selection, dirty, reply, query, answers, browserVars>>

-----------------------------------------------------------------------------
(* The responder.                                                          *)

(* A withdrawn advertisement is not answered for.                          *)
Hear ==
  /\ responder = "listening" /\ query
  /\ query' = FALSE
  /\ remembered' = TRUE
  /\ IF advertised # {} /\ Encodable(advertised)
       THEN responder' = "answering" /\ reply' = advertised
       ELSE UNCHANGED <<responder, reply>>
  /\ UNCHANGED <<selection, dirty, sharing, advertised, answers, browserVars>>

Reply ==
  /\ responder = "answering"
  /\ responder' = "listening" /\ reply' = {}
  /\ answers' = IF browsing /\ Cardinality(answers) < MaxInFlight
                THEN answers \cup {Packet(reply, TRUE)} ELSE answers
  /\ UNCHANGED <<selection, dirty, sharing, advertised, remembered, query,
                 browserVars>>

-----------------------------------------------------------------------------
(* The network.                                                            *)

LoseQuery ==
  /\ query /\ query' = FALSE
  /\ UNCHANGED <<serverVars, answers, browserVars>>

LoseAnswer ==
  /\ \E m \in answers : answers' = answers \ {m}
  /\ UNCHANGED <<serverVars, query, browserVars>>

-----------------------------------------------------------------------------
(* The browser.                                                            *)

(* A new session has a new socket: what was sent to the old one is gone,   *)
(* and no server remembers the new one.                                    *)
StartBrowsing ==
  /\ ~browsing /\ browsing' = TRUE
  /\ UNCHANGED <<serverVars, query, answers, entry, shown>>

StopBrowsing ==
  /\ browsing /\ browsing' = FALSE
  /\ query' = FALSE /\ answers' = {} /\ remembered' = FALSE
  /\ UNCHANGED <<selection, dirty, sharing, advertised, responder, reply,
                 entry, shown>>

Ask ==
  /\ browsing /\ query' = TRUE
  /\ UNCHANGED <<serverVars, answers, browserVars>>

(* The list is published as the cache changes.                             *)
Publish(e) == entry' = e /\ shown' = Snapshot(e)

Deliver ==
  /\ browsing
  /\ \E m \in answers :
       /\ answers' = answers \ {m}
       /\ IF m.live
            THEN Publish([listed |-> TRUE, printers |-> m.printers, life |-> TTL])
            ELSE Publish(NoEntry)
  /\ UNCHANGED <<serverVars, query, browsing>>

Expire(e) == IF e.life = 0 THEN NoEntry ELSE e

(* Variant: the sweep drops the entry and does not tell the window.        *)
Sweep_Unpublished ==
  /\ browsing /\ entry' = Expire(entry)
  /\ UNCHANGED <<serverVars, query, answers, browsing, shown>>

Sweep ==
  /\ browsing /\ Publish(Expire(entry))
  /\ UNCHANGED <<serverVars, query, answers, browsing>>

(* The window reads the list: what ran out is dropped and not published.   *)
NearbyServers ==
  /\ entry' = Expire(entry)
  /\ UNCHANGED <<serverVars, query, answers, browsing, shown>>

Tick ==
  /\ entry.life > 0
  /\ entry' = [entry EXCEPT !.life = @ - 1]
  /\ UNCHANGED <<serverVars, query, answers, browsing, shown>>

-----------------------------------------------------------------------------
Next ==
  \/ Select \/ StartSharing \/ Advertise \/ Replace \/ Withdraw
  \/ StopResponder \/ Vanish \/ ResponderEnds \/ Hear \/ Reply
  \/ LoseQuery \/ LoseAnswer
  \/ StartBrowsing \/ StopBrowsing \/ Ask \/ Deliver \/ Sweep
  \/ NearbyServers \/ Tick

(* Tasks that can run do; the ticker asks again and again; of the datagrams *)
(* sent over and over some arrive.                                         *)
Fairness ==
  /\ WF_vars(Replace) /\ WF_vars(Reply) /\ WF_vars(Ask)
  /\ WF_vars(Sweep) /\ WF_vars(Tick)
  /\ SF_vars(Hear) /\ SF_vars(Deliver)

Spec == Init /\ [][Next]_vars /\ Fairness

-----------------------------------------------------------------------------
(* The shape of the state.                                                 *)
TypeOK ==
  /\ selection \subseteq Queues /\ advertised \subseteq Queues
  /\ reply \subseteq Queues
  /\ dirty \in BOOLEAN /\ remembered \in BOOLEAN /\ query \in BOOLEAN
  /\ browsing \in BOOLEAN
  /\ sharing \in {"off", "opening", "on", "hidden", "leaving", "gone"}
  /\ responder \in {"off", "listening", "answering"}
  /\ answers \subseteq [printers : SUBSET Queues, live : BOOLEAN]
  /\ entry \in [listed : BOOLEAN, printers : SUBSET Queues, life : 0..TTL]
  /\ shown \in [listed : BOOLEAN, printers : SUBSET Queues]

(* A step of a server that is off sends nothing: what is on its way to the *)
(* browser only gets less (withdraw, and the end of the responder).        *)
SilentWhenOff == sharing = "off" => answers' \subseteq answers

(* Once withdraw has returned the server sends nothing, and a server that  *)
(* stopped for good, politely or not, leaves the list of a running         *)
(* browser, although datagrams may be lost and the window's own reads drop *)
(* entries without publishing (withdraw, sweep, prune).                    *)
StoppedServerLeaves ==
  /\ [][SilentWhenOff]_vars
  /\ <>[](sharing = "off" /\ browsing) => <>[](~shown.listed)

(* A server that keeps sharing is listed with what it shares now, again    *)
(* and again, unless a name is too long for the wire (answer, replace).    *)
SharedIsFound ==
  <>[](sharing = "on" /\ browsing /\ ~dirty /\ selection # {}
       /\ Encodable(selection))
    => []<>(shown = [listed |-> TRUE, printers |-> Trim(selection)])
=============================================================================
