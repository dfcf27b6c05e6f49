-------------------------- MODULE ConnectionProofs --------------------------
(* Theorems about the two kinds of connections the program serves: the     *)
(* control socket of the Linux daemon (DaemonControl), for any number of   *)
(* daemons, connections and print jobs, and the HTTP exchanges an IPP      *)
(* message travels in (HttpExchange), for any requests that are framed as  *)
(* HTTP/1.1 frames them, any answers and any limits.                       *)
EXTENDS Integers, Sequences, DaemonControl, FiniteSetTheorems, SequenceTheorems,
        WellFoundedInduction, TLAPS

-----------------------------------------------------------------------------
(* The Linux daemon.                                                       *)

USE DEF vars, daemonVars, serviceVars, connVars

(* The accept task lives from bind to the end of the process, and wait()   *)
(* goes on only after it.                                                  *)
AcceptFollowsMain ==
  \A d \in Daemons :
    /\ pc[d] \in {"off", "probe", "remove", "bind"} <=> accept[d] = "none"
    /\ pc[d] \in {"drain", "stop", "unlink", "leave"} => accept[d] = "done"

(* A connection belongs to a daemon whose accept task has not joined it.   *)
ConnectionsAreOwned ==
  \A c \in Connections :
    /\ at[c] = "idle" => peer[c] = Nobody
    /\ at[c] # "idle" => peer[c] \in Daemons /\ Listening(peer[c])

(* On the way down nobody else drains, so that a drain that ended well     *)
(* still keeps jobs out when the services are stopped.                     *)
WayDown ==
  \A d \in Daemons :
    /\ pc[d] = "drain" => d \in draining \ drained
    /\ pc[d] = "stop" /\ d \in drained => d \in draining /\ jobs[d] = 0
    /\ pc[d] \in {"unlink", "leave"} => d \notin serving /\ jobs[d] = 0

DaemonInv == TypeOK /\ AcceptFollowsMain /\ ConnectionsAreOwned /\ WayDown

LEMMA InitDaemon == ASSUME Init PROVE DaemonInv
<1>1. TypeOK
  <2>1. jobs \in [Daemons -> 0..MaxJobs]
    <3>1. 0 \in 0..MaxJobs
      BY MaxJobsAssumption
    <3>2. QED
      BY <3>1 DEF Init
  <2>2. QED
    BY <2>1 DEF Init, TypeOK
<1>2. AcceptFollowsMain
  BY DEF Init, AcceptFollowsMain
<1>3. ConnectionsAreOwned
  BY DEF Init, ConnectionsAreOwned
<1>4. WayDown
  BY DEF Init, WayDown
<1>5. QED
  BY <1>1, <1>2, <1>3, <1>4 DEF DaemonInv

LEMMA GoneKeeps ==
  ASSUME DaemonInv, NEW d \in Daemons, Gone(d),
         socket' \in {socket, Nobody}, UNCHANGED raced
  PROVE  DaemonInv'
<1> USE NobodyAssumption, AddressedAssumption, MaxJobsAssumption
    DEF DaemonInv, TypeOK, Gone, Goto
<1>1. TypeOK'
  OBVIOUS
<1>2. AcceptFollowsMain'
  BY DEF AcceptFollowsMain
<1>3. ConnectionsAreOwned'
  BY DEF ConnectionsAreOwned, Listening
<1>4. WayDown'
  BY DEF WayDown
<1>5. QED
  BY <1>1, <1>2, <1>3, <1>4

LEMMA StepDaemon == ASSUME DaemonInv, [Next]_vars PROVE DaemonInv'
<1> USE NobodyAssumption, AddressedAssumption, MaxJobsAssumption
    DEF DaemonInv, TypeOK, AcceptFollowsMain,
            ConnectionsAreOwned, WayDown, Listening, Goto, Step, EndTask,
            StopServices
<1>1. ASSUME NEW d \in Daemons,
             Launch(d) \/ Probe(d) \/ Remove(d) \/ Bind(d) \/ Restore(d)
      PROVE  DaemonInv'
  <2>1. CASE Launch(d)
    BY <2>1 DEF Launch
  <2>2. CASE Probe(d)
    BY <2>2 DEF Probe
  <2>3. CASE Remove(d)
    BY <2>3 DEF Remove
  <2>4. CASE Bind(d)
    BY <2>4 DEF Bind
  <2>5. CASE Restore(d)
    BY <2>5 DEF Restore
  <2>6. QED
    BY <1>1, <2>1, <2>2, <2>3, <2>4, <2>5
<1>2. ASSUME NEW d \in Daemons, StopAccepting(d) \/ Joined(d)
      PROVE  DaemonInv'
  BY <1>2 DEF StopAccepting, Joined, ConnectionsOf
<1>3. ASSUME NEW d \in Daemons, JobArrives(d) \/ JobEnds(d)
      PROVE  DaemonInv'
  BY <1>3 DEF JobArrives, JobEnds
<1>4. ASSUME NEW d \in Daemons, Signal(d) \/ AcceptEnded(d) PROVE DaemonInv'
  BY <1>4 DEF Signal, AcceptEnded
<1>5. ASSUME NEW d \in Daemons, Drained(d) \/ DrainTimeout(d) \/ Stop(d)
      PROVE  DaemonInv'
  <2>1. CASE Drained(d)
    <3>1. /\ pc[d] = "drain" /\ jobs[d] = 0
          /\ pc' = [pc EXCEPT ![d] = "stop"] /\ drained' = drained \cup {d}
      BY <2>1 DEF Drained
    <3>2. UNCHANGED <<accept, cancel, serving, jobs, draining, socket, at, peer,
                      raced, busy>>
      BY <2>1 DEF Drained
    <3>3. QED
      BY <3>1, <3>2
  <2>2. CASE DrainTimeout(d)
    BY <2>2 DEF DrainTimeout
  <2>3. CASE Stop(d)
    BY <2>3 DEF Stop
  <2>4. QED
    BY <1>5, <2>1, <2>2, <2>3
<1>6. ASSUME NEW d \in Daemons, Unlink(d) \/ Leave(d) \/ Kill(d)
      PROVE  DaemonInv'
  <2>1. CASE Unlink(d) /\ ~Gone(d)
    BY <2>1 DEF Unlink
  <2>2. CASE Gone(d)
    BY <1>6, <2>2, GoneKeeps DEF Unlink, Leave, Kill
  <2>3. QED
    BY <1>6, <2>1, <2>2 DEF Leave, Kill
<1>7. ASSUME NEW c \in Connections, Connect(c) PROVE DaemonInv'
  BY <1>7 DEF Connect
<1>8. ASSUME NEW c \in Connections,
             Request(c) \/ StartService(c) \/ StopService(c) \/ ShutdownRuntime(c)
      PROVE  DaemonInv'
  BY <1>8 DEF Request, StartService, StopService, ShutdownRuntime
<1>9. ASSUME NEW c \in Connections,
             BeginDrain(c) \/ RequestDrained(c) \/ RequestDrainTimeout(c)
      PROVE  DaemonInv'
  BY <1>9 DEF BeginDrain, RequestDrained, RequestDrainTimeout
<1>10. ASSUME NEW c \in Connections, Answer(c) \/ GiveUp(c) PROVE DaemonInv'
  BY <1>10 DEF Answer, GiveUp
<1>11. ASSUME NEW d \in Daemons, CallBegins(d) \/ CallsEnd(d)
       PROVE  DaemonInv'
  BY <1>11 DEF CallBegins, CallsEnd
<1>12. CASE UNCHANGED vars
  BY <1>12
<1>13. QED
  BY <1>1, <1>2, <1>3, <1>4, <1>5, <1>6, <1>7, <1>8, <1>9, <1>10, <1>11,
     <1>12 DEF Next

(* The shape of the daemon's state.                                        *)
THEOREM DaemonTypeCorrect == Spec => []TypeOK
<1>1. Init => DaemonInv
  BY InitDaemon
<1>2. DaemonInv /\ [Next]_vars => DaemonInv'
  BY StepDaemon
<1>3. DaemonInv => TypeOK
  BY DEF DaemonInv
<1>4. QED
  BY <1>1, <1>2, <1>3, PTL DEF Spec

(* When the drain of wait() has ended well the services are stopped with   *)
(* no print job in flight, and nothing is started after them, whatever     *)
(* requests were under way: the accept task has joined its connections,    *)
(* and nobody else can open admission again (wait, the accept task).       *)
THEOREM StopsWhenIdle == Spec => []StopsIdle
<1>1. Init => DaemonInv
  BY InitDaemon
<1>2. DaemonInv /\ [Next]_vars => DaemonInv'
  BY StepDaemon
<1>3. DaemonInv => StopsIdle
  BY DEF DaemonInv, WayDown, StopsIdle
<1>4. QED
  BY <1>1, <1>2, <1>3, PTL DEF Spec

(* Launches that overlap nobody: whoever is past its probe and has not yet *)
(* removed its socket is alone, and the one that listens has the path.     *)
AtPath(d) ==
  \/ pc[d] \in {"remove", "bind"}
  \/ accept[d] # "none" /\ pc[d] # "leave"

PathInv ==
  ~raced =>
    \A d \in Daemons :
      /\ Listening(d) => socket = d
      /\ AtPath(d) => \A e \in Daemons \ {d} : ~AtPath(e)

LEMMA InitPath == Init => PathInv
BY DEF Init, PathInv, AtPath, Listening

LEMMA StepPath ==
  ASSUME DaemonInv, PathInv, [Next]_vars
  PROVE  PathInv'
<1> SUFFICES ASSUME ~raced' PROVE PathInv'
  BY DEF PathInv
<1> USE NobodyAssumption, AddressedAssumption, MaxJobsAssumption
    DEF DaemonInv, TypeOK, AcceptFollowsMain, PathInv, AtPath,
            Listening, Goto
<1>1. ASSUME NEW d \in Daemons, Launch(d) \/ Restore(d) PROVE PathInv'
  BY <1>1 DEF Launch, Restore
<1>2. ASSUME NEW d \in Daemons, Probe(d) PROVE PathInv'
  <2>1. \A e \in Daemons \ {d} : ~Launching(e) /\ ~Ending(e)
    BY <1>2 DEF Probe, Overlap
  <2>2. ~raced /\ pc[d] = "probe" /\ UNCHANGED <<accept, socket>>
    BY <1>2 DEF Probe
  <2>3. CASE pc' = [pc EXCEPT ![d] = "off"]
    BY <2>2, <2>3
  <2>4. CASE pc' # [pc EXCEPT ![d] = "off"]
    <3>1. socket = Nobody \/ ~Listening(socket)
      BY <1>2, <2>4 DEF Probe
    <3>2. \A e \in Daemons \ {d} : ~AtPath(e)
      BY <2>1, <2>2, <3>1 DEF Launching, Ending
    <3>3. QED
      BY <1>2, <2>1, <2>2, <3>2 DEF Probe, Launching
  <2>5. QED
    BY <2>3, <2>4
<1>3. ASSUME NEW d \in Daemons, Remove(d) \/ Bind(d) PROVE PathInv'
  BY <1>3 DEF Remove, Bind
<1>4. ASSUME NEW d \in Daemons,
             \/ StopAccepting(d) \/ Joined(d) \/ AcceptEnded(d) \/ Drained(d)
             \/ DrainTimeout(d) \/ Stop(d)
      PROVE  PathInv'
  BY <1>4 DEF StopAccepting, Joined, AcceptEnded, Drained, DrainTimeout, Stop
<1>5. ASSUME NEW d \in Daemons, Unlink(d) \/ Leave(d) \/ Kill(d)
      PROVE  PathInv'
  BY <1>5 DEF Unlink, Leave, Kill, Gone
<1>6. ASSUME UNCHANGED <<pc, accept, socket, raced>> PROVE PathInv'
  BY <1>6
<1>7. ASSUME NEW d \in Daemons,
             \/ JobArrives(d) \/ JobEnds(d) \/ Signal(d)
             \/ CallBegins(d) \/ CallsEnd(d)
      PROVE  PathInv'
  BY <1>6, <1>7 DEF JobArrives, JobEnds, Signal, CallBegins, CallsEnd
<1>8. ASSUME NEW c \in Connections,
             \/ Connect(c) \/ Request(c) \/ StartService(c) \/ StopService(c)
             \/ ShutdownRuntime(c) \/ BeginDrain(c) \/ RequestDrained(c)
             \/ RequestDrainTimeout(c) \/ Answer(c) \/ GiveUp(c)
      PROVE  PathInv'
  BY <1>6, <1>8
  DEF Connect, Request, StartService, StopService, ShutdownRuntime,
      BeginDrain, RequestDrained, RequestDrainTimeout, Answer, GiveUp
<1>9. QED
  BY <1>1, <1>2, <1>3, <1>4, <1>5, <1>6, <1>7, <1>8 DEF Next

(* With no launch overlapping another launch or an exit, at most one       *)
(* daemon listens, and the file at the path is its socket                  *)
(* (cleanup_stale_socket, wait).                                           *)
THEOREM OneListens == Spec => []OneDaemon
<1>1. Init => DaemonInv /\ PathInv
  BY InitDaemon, InitPath
<1>2. DaemonInv /\ PathInv /\ [Next]_vars => (DaemonInv /\ PathInv)'
  BY StepDaemon, StepPath
<1>3. PathInv => OneDaemon
  BY DEF PathInv, OneDaemon, Listening
<1>4. QED
  BY <1>1, <1>2, <1>3, PTL DEF Spec
-----------------------------------------------------------------------------
(* The HTTP exchange.  Its state and constants are HttpExchange's own, at  *)
(* under a name that is free here.                                         *)

CONSTANTS
  Requests, Answers, MAX_HEAD_BYTES, MAX_BODY_BYTES, LINE_LIMIT, MAX_RESPONSE,
  RESPONSE_HEAD, LEAST_RESPONSE

VARIABLES
  request, arrived, cut, htAt, stage, head, line_start, need, body, granted,
  disturbed, answer, got

Ht == INSTANCE HttpExchange WITH at <- htAt

(* A set of numbers has a least one, and a bounded one a greatest.         *)
LEMMA LeastOf ==
  ASSUME NEW S \in SUBSET Nat, S # {}
  PROVE  \E m \in S : \A n \in S : m <= n
<1> DEFINE R == OpToRel(<, Nat)
<1>1. \A x, y \in Nat : <<x, y>> \in R <=> x < y
  BY DEF OpToRel
<1>2. IsWellFoundedOn(R, Nat)
  BY NatLessThanWellFounded
<1> HIDE DEF R
<1>3. PICK m \in S : \A n \in S : ~(<<n, m>> \in R)
  BY <1>2, WFMin
<1>4. \A n \in S : n \in Nat /\ ~(n < m)
  BY <1>1, <1>3
<1>5. QED
  BY <1>4

LEMMA GreatestOf ==
  ASSUME NEW k \in Nat, NEW S \in SUBSET (1..k), S # {}
  PROVE  \E m \in S : \A n \in S : m >= n
<1> DEFINE U == {k - n : n \in S}
<1>1. U \in SUBSET Nat /\ U # {}
  <2>1. \A n \in S : k - n \in Nat
    OBVIOUS
  <2>2. QED
    BY <2>1
<1>2. PICK u \in U : \A v \in U : u <= v
  BY <1>1, LeastOf
<1>3. PICK m \in S : u = k - m
  BY <1>2
<1>4. \A n \in S : k - m <= k - n
  BY <1>2, <1>3
<1>5. QED
  BY <1>3, <1>4

-----------------------------------------------------------------------------
(* What is sent: the lengths of the head, of the frame and of the          *)
(* document, and where their tokens stand in the stream.                   *)

HeadLen  == Len(request.head)
FrameLen == Len(request.framed)
DocLen   == Len(request.document)

(* Head, frame, document and stream are sequences over one set.            *)
LEMMA StreamTyped ==
  ASSUME Ht!Framed(request)
  PROVE  \E T : /\ request.head \in Seq(T) /\ request.framed \in Seq(T)
                /\ request.document \in Seq(T) /\ Ht!stream \in Seq(T)
<1> DEFINE A == {request.head[i] : i \in DOMAIN request.head}
           B == {request.framed[i] : i \in DOMAIN request.framed}
           C == {request.document[i] : i \in DOMAIN request.document}
           T == A \cup B \cup C
<1>1. /\ request.head \in Seq(A) /\ request.framed \in Seq(B)
      /\ request.document \in Seq(C)
  BY DEF Ht!Framed
<1>2. A \subseteq T /\ B \subseteq T /\ C \subseteq T
  OBVIOUS
<1> HIDE DEF A, B, C, T
<1>3. /\ request.head \in Seq(T) /\ request.framed \in Seq(T)
      /\ request.document \in Seq(T)
  BY <1>1, <1>2, SeqMonotonic
<1>4. Ht!stream \in Seq(T)
  BY <1>3, ConcatProperties DEF Ht!stream
<1>5. QED
  BY <1>3, <1>4

(* The frame stands behind the head.                                       *)
LEMMA StreamFacts ==
  ASSUME Ht!Framed(request)
  PROVE  /\ HeadLen \in Nat /\ FrameLen \in Nat /\ DocLen \in Nat
         /\ Len(Ht!stream) = HeadLen + FrameLen
         /\ \A i \in 1..HeadLen : Ht!stream[i] = request.head[i]
         /\ \A i \in 1..FrameLen : Ht!stream[HeadLen + i] = request.framed[i]
<1>1. PICK T : /\ request.head \in Seq(T) /\ request.framed \in Seq(T)
               /\ request.document \in Seq(T)
  BY StreamTyped
<1>2. HeadLen \in Nat /\ FrameLen \in Nat /\ DocLen \in Nat
  BY <1>1, LenProperties DEF HeadLen, FrameLen, DocLen
<1>3. /\ Len(Ht!stream) = HeadLen + FrameLen
      /\ \A i \in 1 .. HeadLen + FrameLen :
           Ht!stream[i] = IF i <= HeadLen THEN request.head[i]
                       ELSE request.framed[i - HeadLen]
  BY <1>1, ConcatProperties DEF Ht!stream, HeadLen, FrameLen
<1>4. ASSUME NEW i \in 1..FrameLen
      PROVE  Ht!stream[HeadLen + i] = request.framed[i]
  <2>1. /\ HeadLen + i \in 1 .. HeadLen + FrameLen
        /\ ~(HeadLen + i <= HeadLen) /\ (HeadLen + i) - HeadLen = i
    BY <1>2
  <2>2. QED
    BY <1>3, <2>1
<1>5. ASSUME NEW i \in 1..HeadLen PROVE Ht!stream[i] = request.head[i]
  BY <1>2, <1>3
<1>6. QED
  BY <1>2, <1>3, <1>4, <1>5

(* The only empty line of the head ends it.                                *)
LEMMA HeadEnds ==
  ASSUME Ht!Framed(request)
  PROVE  /\ HeadLen \in Nat \ {0}
         /\ Ht!EmptyEnd(Ht!stream, HeadLen)
         /\ \A e \in 1 .. HeadLen - 1 : ~Ht!EmptyEnd(Ht!stream, e)
<1>1. HeadLen \in Nat
  BY StreamFacts
<1>2. {e \in 1..HeadLen : Ht!EmptyEnd(request.head, e)} = {HeadLen}
  BY DEF Ht!Framed, HeadLen
<1>3. HeadLen \in 1..HeadLen /\ Ht!EmptyEnd(request.head, HeadLen)
  BY <1>1, <1>2
<1>4. ASSUME NEW e \in 1..HeadLen
      PROVE  Ht!EmptyEnd(Ht!stream, e) <=> Ht!EmptyEnd(request.head, e)
  <2>1. Ht!stream[e] = request.head[e]
    BY StreamFacts
  <2>2. e # 1 => Ht!stream[e - 1] = request.head[e - 1]
    BY StreamFacts, <1>1
  <2>3. e # 1 /\ e # 2 => Ht!stream[e - 2] = request.head[e - 2]
    BY StreamFacts, <1>1
  <2>4. QED
    BY <2>1, <2>2, <2>3 DEF Ht!EmptyEnd
<1>5. ASSUME NEW e \in 1 .. HeadLen - 1 PROVE ~Ht!EmptyEnd(Ht!stream, e)
  <2>1. e \in 1..HeadLen /\ e # HeadLen
    BY <1>1
  <2>2. QED
    BY <1>1, <1>2, <1>4, <2>1
<1>6. QED
  BY <1>1, <1>3, <1>4, <1>5

-----------------------------------------------------------------------------
(* What is read: a piece of the stream.                                    *)

(* The tokens of a piece of a sequence, and the beginning of a piece.      *)
LEMMA Piece ==
  ASSUME NEW T, NEW s \in Seq(T), NEW a \in Nat, NEW b \in a..Len(s)
  PROVE  /\ SubSeq(s, a + 1, b) \in Seq(T)
         /\ Len(SubSeq(s, a + 1, b)) = b - a
         /\ \A i \in 1 .. b - a : SubSeq(s, a + 1, b)[i] = s[a + i]
<1>1. Len(s) \in Nat
  BY LenProperties
<1>2. a + 1 \in Int /\ b \in Int /\ \A i \in a + 1 .. b : s[i] \in T
  BY <1>1, ElementOfSeq
<1>3. /\ SubSeq(s, a + 1, b) \in Seq(T)
      /\ Len(SubSeq(s, a + 1, b)) = IF a + 1 <= b THEN b - (a + 1) + 1 ELSE 0
      /\ \A i \in 1 .. b - (a + 1) + 1 : SubSeq(s, a + 1, b)[i] = s[(a + 1) + i - 1]
  BY <1>2, SubSeqProperties
<1>4. b - (a + 1) + 1 = b - a /\ (~(a + 1 <= b) => b - a = 0)
  BY <1>1
<1>5. \A i \in Int : (a + 1) + i - 1 = a + i
  OBVIOUS
<1> DEFINE piece == SubSeq(s, a + 1, b)
<1> HIDE DEF piece
<1>6. piece \in Seq(T) /\ Len(piece) = b - a
  BY <1>3, <1>4 DEF piece
<1>7. \A i \in 1 .. b - a : piece[i] = s[a + i]
  <2>1. TAKE i \in 1 .. b - a
  <2>2. i \in 1 .. b - (a + 1) + 1 /\ i \in Int
    BY <1>1, <1>4
  <2>3. piece[i] = s[(a + 1) + i - 1]
    BY <1>3, <2>2 DEF piece
  <2>4. QED
    BY <1>5, <2>2, <2>3
<1>8. QED
  BY <1>6, <1>7 DEF piece

LEMMA FirstOfPiece ==
  ASSUME NEW T, NEW s \in Seq(T), NEW a \in Nat, NEW b \in a..Len(s), NEW n \in Nat
  PROVE  /\ n <= b - a => Ht!First(SubSeq(s, a + 1, b), n) = SubSeq(s, a + 1, a + n)
         /\ b - a <= n => Ht!First(SubSeq(s, a + 1, b), n) = SubSeq(s, a + 1, b)
<1> DEFINE t == SubSeq(s, a + 1, b)
<1>1. t \in Seq(T) /\ Len(t) = b - a /\ \A i \in 1 .. b - a : t[i] = s[a + i]
  BY Piece
<1>2. b - a \in Nat /\ Len(s) \in Nat
  BY LenProperties
<1>3. ASSUME NEW m \in 0 .. b - a PROVE SubSeq(t, 1, m) = SubSeq(s, a + 1, a + m)
  <2>1. a + m \in a..Len(s) /\ (a + m) - a = m
    BY <1>2
  <2>2. /\ SubSeq(s, a + 1, a + m) \in Seq(T)
        /\ Len(SubSeq(s, a + 1, a + m)) = m
        /\ \A i \in 1 .. m : SubSeq(s, a + 1, a + m)[i] = s[a + i]
    <3> DEFINE c == a + m
    <3> HIDE DEF t, c
    <3>1. c \in a..Len(s) /\ c - a = m
      BY <2>1 DEF c
    <3>2. /\ SubSeq(s, a + 1, c) \in Seq(T) /\ Len(SubSeq(s, a + 1, c)) = c - a
          /\ \A i \in 1 .. c - a : SubSeq(s, a + 1, c)[i] = s[a + i]
      BY <3>1, Piece
    <3>3. QED
      BY <3>1, <3>2 DEF c
  <2>3. 0 \in Nat /\ m \in 0..Len(t) /\ 0 + 1 = 1 /\ m - 0 = m /\ \A i \in Int : 0 + i = i
    BY <1>1
  <2>4. /\ SubSeq(t, 1, m) \in Seq(T)
        /\ Len(SubSeq(t, 1, m)) = m
        /\ \A i \in 1 .. m : SubSeq(t, 1, m)[i] = t[i]
    <3> HIDE DEF t
    <3>1. QED
      BY <1>1, <2>3, Piece
  <2>5. \A i \in 1..m : t[i] = s[a + i]
    BY <1>1, <1>2
  <2> HIDE DEF t
  <2>6. QED
    BY <2>2, <2>4, <2>5, SeqEqual
<1>4. SubSeq(t, 1, b - a) = t
  BY <1>1, SubSeqFull
<1>5. n <= b - a => Ht!First(t, n) = SubSeq(t, 1, n)
  <2>1. CASE n = b - a
    BY <1>1, <2>1 DEF Ht!First
  <2>2. CASE n # b - a
    BY <1>1, <1>2, <2>2 DEF Ht!First
  <2>3. QED
    BY <2>1, <2>2
<1>6. b - a <= n => Ht!First(t, n) = SubSeq(t, 1, b - a)
  BY <1>1, <1>2 DEF Ht!First
<1> HIDE DEF t
<1>7. QED
  BY <1>2, <1>3, <1>4, <1>5, <1>6 DEF t

(* What was consumed has arrived, and what has arrived was sent.           *)
Counts == arrived \in 0..Len(Ht!stream) /\ htAt \in 0..arrived /\ need \in Nat

(* No line of the stream ends behind a and up to b.                        *)
NoLineEnd(a, b) == \A i \in a + 1 .. b : Ht!stream[i] # Ht!LF

(* The line that is read next, up to a limit, has m tokens: it ends at the *)
(* first end of a line, at the limit or where the sender stopped.          *)
Reads(limit, m) ==
  /\ m \in 0 .. arrived - htAt /\ m <= limit
  /\ Ht!Line(limit) = SubSeq(Ht!stream, htAt + 1, htAt + m) /\ Len(Ht!Line(limit)) = m
  /\ NoLineEnd(htAt, htAt + m - 1)
  /\ Ht!LineReady(limit) =>
       \/ m > 0 /\ Ht!stream[htAt + m] = Ht!LF
       \/ NoLineEnd(htAt, htAt + m) /\ (m = limit \/ (cut /\ htAt + m = arrived))

LEMMA LineRead ==
  ASSUME NEW T, Ht!stream \in Seq(T), Counts, NEW limit \in Nat
  PROVE  \E m \in 0 .. arrived - htAt : Reads(limit, m)
<1> DEFINE c == IF arrived - htAt <= limit THEN arrived - htAt ELSE limit
<1>1. /\ arrived \in Nat /\ htAt \in Nat /\ Len(Ht!stream) \in Nat /\ arrived \in htAt..Len(Ht!stream)
      /\ arrived - htAt \in Nat /\ c \in Nat /\ c <= arrived - htAt /\ c <= limit
      /\ htAt + c \in htAt..Len(Ht!stream) /\ (htAt + c) - htAt = c
  BY LenProperties DEF Counts
<1>2. Ht!Seen(limit) = SubSeq(Ht!stream, htAt + 1, htAt + c)
  <2>1. CASE arrived - htAt <= limit
    <3>1. htAt + c = arrived
      BY <1>1, <2>1
    <3>2. QED
      BY <1>1, <2>1, <3>1, FirstOfPiece DEF Ht!Seen
  <2>2. CASE ~(arrived - htAt <= limit)
    <3>1. c = limit /\ limit <= arrived - htAt
      BY <1>1, <2>2
    <3>2. QED
      BY <1>1, <3>1, FirstOfPiece DEF Ht!Seen
  <2>3. QED
    BY <2>1, <2>2
<1> HIDE DEF c
<1>3. /\ Ht!Seen(limit) \in Seq(T) /\ Len(Ht!Seen(limit)) = c
      /\ \A i \in 1..c : Ht!Seen(limit)[i] = Ht!stream[htAt + i]
  <2> DEFINE b == htAt + c
  <2>1. b \in htAt..Len(Ht!stream) /\ b - htAt = c
    BY <1>1
  <2> HIDE DEF b
  <2>2. /\ SubSeq(Ht!stream, htAt + 1, b) \in Seq(T) /\ Len(SubSeq(Ht!stream, htAt + 1, b)) = b - htAt
        /\ \A i \in 1 .. b - htAt : SubSeq(Ht!stream, htAt + 1, b)[i] = Ht!stream[htAt + i]
    BY <1>1, <2>1, Piece
  <2>3. QED
    BY <1>2, <2>1, <2>2 DEF b
<1>4. Ht!LineEnds(limit) = {i \in 1..c : Ht!stream[htAt + i] = Ht!LF}
  <2>1. DOMAIN Ht!Seen(limit) = 1..c
    BY <1>3, LenProperties
  <2>2. QED
    BY <1>3, <2>1 DEF Ht!LineEnds
<1>5. CASE Ht!LineEnds(limit) = {}
  <2>1. Ht!Line(limit) = SubSeq(Ht!stream, htAt + 1, htAt + c) /\ Len(Ht!Line(limit)) = c
    BY <1>2, <1>3, <1>5 DEF Ht!Line
  <2>2. NoLineEnd(htAt, htAt + c)
    <3>1. ASSUME NEW i \in htAt + 1 .. htAt + c PROVE Ht!stream[i] # Ht!LF
      <4>1. i - htAt \in 1..c /\ htAt + (i - htAt) = i
        BY <1>1
      <4>2. QED
        BY <1>4, <1>5, <4>1
    <3>2. QED
      BY <3>1 DEF NoLineEnd
  <2>3. NoLineEnd(htAt, htAt + c - 1)
    BY <1>1, <2>2 DEF NoLineEnd
  <2>4. Ht!LineReady(limit) => c = limit \/ (cut /\ htAt + c = arrived)
    BY <1>1, <1>3, <1>5 DEF Ht!LineReady, c
  <2>5. Reads(limit, c)
    BY <1>1, <2>1, <2>2, <2>3, <2>4 DEF Reads
  <2>6. QED
    BY <1>1, <2>5
<1>6. CASE Ht!LineEnds(limit) # {}
  <2>1. Ht!LineEnds(limit) \in SUBSET Nat
    BY <1>1, <1>4
  <2>2. PICK e \in Ht!LineEnds(limit) : \A j \in Ht!LineEnds(limit) : e <= j
    BY <1>6, <2>1, LeastOf
  <2>3. e = CHOOSE i \in Ht!LineEnds(limit) : \A j \in Ht!LineEnds(limit) : i <= j
    <3>1. \A i \in Ht!LineEnds(limit) :
            (\A j \in Ht!LineEnds(limit) : i <= j) => i = e
      BY <2>1, <2>2
    <3>2. QED
      BY <2>2, <3>1
  <2>4. e \in 1..c /\ Ht!stream[htAt + e] = Ht!LF
    BY <1>4
  <2>5. Ht!Line(limit) = SubSeq(Ht!stream, htAt + 1, htAt + e)
    <3>1. Ht!Line(limit) = Ht!First(SubSeq(Ht!stream, htAt + 1, htAt + c), e)
      BY <1>2, <1>6, <2>3 DEF Ht!Line
    <3>2. e \in Nat /\ e <= (htAt + c) - htAt
      BY <1>1, <2>4
    <3>3. QED
      BY <1>1, <3>1, <3>2, FirstOfPiece
  <2>6. htAt + e \in htAt..Len(Ht!stream) /\ (htAt + e) - htAt = e /\ e \in 0 .. arrived - htAt
        /\ e <= limit /\ e > 0
    BY <1>1, <2>4
  <2>7. Len(Ht!Line(limit)) = e
    BY <1>1, <2>5, <2>6, Piece
  <2>8. NoLineEnd(htAt, htAt + e - 1)
    <3>1. ASSUME NEW i \in htAt + 1 .. htAt + e - 1 PROVE Ht!stream[i] # Ht!LF
      <4>1. i - htAt \in 1..c /\ htAt + (i - htAt) = i /\ ~(e <= i - htAt)
        BY <1>1, <2>4
      <4>2. QED
        BY <1>4, <2>2, <4>1
    <3>2. QED
      BY <3>1 DEF NoLineEnd
  <2>9. Reads(limit, e)
    BY <2>4, <2>5, <2>6, <2>7, <2>8 DEF Reads
  <2>10. QED
    BY <2>6, <2>9
<1>7. QED
  BY <1>5, <1>6

(* A line that was read is empty when it is an end of a line and nothing   *)
(* else.                                                                   *)
LEMMA EmptyRead ==
  ASSUME NEW T, Ht!stream \in Seq(T), Counts, NEW limit \in Nat,
         NEW m \in 0 .. arrived - htAt, Reads(limit, m)
  PROVE  Ht!Line(limit) \in Ht!EmptyLines <=>
           \/ m = 1 /\ Ht!stream[htAt + 1] = Ht!LF
           \/ m = 2 /\ Ht!stream[htAt + 1] = Ht!CR /\ Ht!stream[htAt + 2] = Ht!LF
<1>1. /\ htAt \in Nat /\ htAt + m \in htAt..Len(Ht!stream) /\ (htAt + m) - htAt = m /\ m \in Nat
  BY LenProperties DEF Counts
<1>2. /\ Ht!Line(limit) \in Seq(T) /\ Len(Ht!Line(limit)) = m
      /\ \A i \in 1..m : Ht!Line(limit)[i] = Ht!stream[htAt + i]
  BY <1>1, Piece DEF Reads
<1>3. Ht!Line(limit) = <<Ht!LF>> <=> m = 1 /\ Ht!stream[htAt + 1] = Ht!LF
  <2>1. ASSUME m = 1, Ht!stream[htAt + 1] = Ht!LF PROVE Ht!Line(limit) = <<Ht!LF>>
    <3>1. Ht!Line(limit)[1] = Ht!LF
      BY <1>2, <2>1
    <3>2. QED
      BY <1>2, <2>1, <3>1
  <2>2. ASSUME Ht!Line(limit) = <<Ht!LF>> PROVE m = 1 /\ Ht!stream[htAt + 1] = Ht!LF
    BY <1>2, <2>2
  <2>3. QED
    BY <2>1, <2>2
<1>4. Ht!Line(limit) = Ht!CRLF <=> m = 2 /\ Ht!stream[htAt + 1] = Ht!CR /\ Ht!stream[htAt + 2] = Ht!LF
  <2>1. ASSUME m = 2, Ht!stream[htAt + 1] = Ht!CR, Ht!stream[htAt + 2] = Ht!LF
        PROVE  Ht!Line(limit) = Ht!CRLF
    <3>1. Ht!Line(limit)[1] = Ht!CR /\ Ht!Line(limit)[2] = Ht!LF
      BY <1>2, <2>1
    <3>2. QED
      BY <1>2, <2>1, <3>1 DEF Ht!CRLF
  <2>2. ASSUME Ht!Line(limit) = Ht!CRLF
        PROVE  m = 2 /\ Ht!stream[htAt + 1] = Ht!CR /\ Ht!stream[htAt + 2] = Ht!LF
    <3>1. Len(Ht!CRLF) = 2 /\ Ht!CRLF[1] = Ht!CR /\ Ht!CRLF[2] = Ht!LF
      BY DEF Ht!CRLF
    <3>2. m = 2
      BY <1>2, <2>2, <3>1, Zenon
    <3>3. 1 \in 1..m /\ 2 \in 1..m
      BY <3>2
    <3>4. QED
      BY <1>2, <2>2, <3>1, <3>2, <3>3, Zenon
  <2>3. QED
    BY <2>1, <2>2
<1>5. QED
  BY <1>3, <1>4 DEF Ht!EmptyLines

-----------------------------------------------------------------------------
(* The inductive invariant: where the receiver is in the stream, and that  *)
(* the body it has so far is the beginning of the document.                *)

Bounds == {MAX_HEAD_BYTES, MAX_BODY_BYTES, LINE_LIMIT} \subseteq Nat

(* The body has the first k tokens of the document.                        *)
BodyTo(k) == k \in 0..DocLen /\ body = SubSeq(request.document, 1, k)

(* The frame from this place of the stream up to next is an empty line.    *)
EmptyUpTo(from, next) == SubSeq(request.framed, from - HeadLen + 1, next) \in Ht!EmptyLines

(* The head is read up to a place before its end.  The endpoint knows      *)
(* where the last line it saw began; the proxy stands behind a line, or    *)
(* the sender stopped in the middle of one.                                *)
HeadInv ==
  stage = "head" =>
    /\ htAt < HeadLen /\ htAt <= MAX_HEAD_BYTES
    /\ head = SubSeq(Ht!stream, 1, htAt) /\ body = <<>>
    /\ request.to = "endpoint" =>
         line_start \in 0..htAt /\ (line_start = 0 \/ Ht!stream[line_start] = Ht!LF)
    /\ request.to = "proxy" => htAt = 0 \/ Ht!stream[htAt] = Ht!LF \/ (cut /\ htAt = arrived)

(* With the empty line the head was read, no more and no less.             *)
CheckInv == stage = "check" => htAt = HeadLen /\ body = <<>>

(* A body of known length is what stands behind the head.                  *)
CountedInv ==
  stage = "body" =>
    htAt = HeadLen /\ body = <<>> /\ need = DocLen /\ request.framed = request.document

(* Where a size is expected, a chunk begins, and the body has what is in   *)
(* the chunks before it.                                                   *)
SizeInv ==
  stage = "size" =>
    /\ request.to = "proxy" /\ Ht!Chunked(request)
    /\ \E p \in DOMAIN request.chunks : htAt = HeadLen + p /\ BodyTo(request.chunks[p])

(* Behind the size of a chunk stand its data, which go on where the body   *)
(* ends, the empty line behind them, and another chunk.                    *)
ChunkFollows(k) ==
  /\ htAt + need <= Len(Ht!stream) /\ k + need <= DocLen
  /\ \A i \in 1..need : Ht!stream[htAt + i] = request.document[k + i]
  /\ \E next \in DOMAIN request.chunks :
       EmptyUpTo(htAt + need, next) /\ request.chunks[next] = k + need

(* A chunk's line was read to its end, or the sender stopped in it, and    *)
(* then the data never come.                                               *)
DataInv ==
  stage = "data" =>
    /\ request.to = "proxy" /\ Ht!Chunked(request) /\ htAt >= HeadLen
    /\ \E k \in 0..DocLen :
         /\ BodyTo(k)
         /\ (cut /\ htAt = arrived /\ htAt < Len(Ht!stream) /\ need > 0) \/ ChunkFollows(k)

(* Behind the data comes an empty line, and behind it a chunk.             *)
DelimiterInv ==
  stage = "delimiter" =>
    /\ request.to = "proxy" /\ Ht!Chunked(request) /\ htAt >= HeadLen
    /\ \E next \in DOMAIN request.chunks :
         EmptyUpTo(htAt, next) /\ BodyTo(request.chunks[next])

(* Whoever has no more to read of the body has the document.               *)
EndInv ==
  /\ stage \in {"trailer", "host", "done"} => body = request.document
  /\ stage = "trailer" => request.to = "proxy"
  /\ stage = "host" => request.to = "endpoint"

(* Whoever reads a body has told the sender to go on.                      *)
GrantInv ==
  stage \in {"body", "size", "data", "delimiter", "trailer"} => ~Ht!Held

ReadInv ==
  /\ Ht!Framed(request) /\ Counts
  /\ HeadInv /\ CheckInv /\ CountedInv /\ SizeInv /\ DataInv /\ DelimiterInv
  /\ EndInv /\ GrantInv /\ Ht!SentIsTaken

(* What is said of the request alone stays true.                           *)
LEMMA RequestStays ==
  ASSUME request' = request
  PROVE  /\ HeadLen' = HeadLen /\ FrameLen' = FrameLen /\ DocLen' = DocLen
         /\ Ht!stream' = Ht!stream /\ Ht!Acceptable' = Ht!Acceptable
         /\ Ht!Expects(request)' = Ht!Expects(request)
         /\ Ht!Framed(request)' = Ht!Framed(request) /\ Ht!Chunked(request)' = Ht!Chunked(request)
         /\ \A a, b : EmptyUpTo(a, b)' = EmptyUpTo(a, b)
BY DEF HeadLen, FrameLen, DocLen, Ht!stream, Ht!Acceptable, EmptyUpTo

LEMMA InitReads ==
  ASSUME Bounds, \A r \in Requests : Ht!Framed(r), Ht!Init
  PROVE  ReadInv
<1>1. Ht!Framed(request)
  BY DEF Ht!Init
<1>2. HeadLen \in Nat \ {0}
  BY <1>1, HeadEnds
<1>3. SubSeq(Ht!stream, 1, 0) = <<>>
  BY SubSeqEmpty
<1>4. Len(Ht!stream) \in Nat
  BY <1>1, StreamFacts
<1>5. QED
  BY <1>1, <1>2, <1>3, <1>4
  DEF Bounds, Ht!Init, ReadInv, Counts, HeadInv, CheckInv, CountedInv, SizeInv, DataInv,
      DelimiterInv, EndInv, GrantInv, Ht!SentIsTaken

-----------------------------------------------------------------------------
(* The network, and whoever reads nothing.                                 *)

LEMMA NothingReads ==
  ASSUME ReadInv,
         UNCHANGED <<request, htAt, stage, head, line_start, need, body, granted, disturbed>>,
         arrived' \in arrived..Len(Ht!stream), cut => cut' /\ arrived' = arrived
  PROVE  ReadInv'
<1> USE DEF ReadInv
<1>1. Counts'
  <2>1. Len(Ht!stream) \in Nat
    BY StreamFacts
  <2>2. QED
    BY <2>1, RequestStays DEF Counts
<1>2. HeadInv' /\ CheckInv' /\ CountedInv'
  BY RequestStays DEF HeadInv, CheckInv, CountedInv
<1>3. SizeInv'
  BY RequestStays DEF SizeInv, BodyTo
<1>4. DataInv'
  BY RequestStays DEF DataInv, ChunkFollows, BodyTo
<1>5. DelimiterInv'
  BY RequestStays DEF DelimiterInv, BodyTo
<1>6. EndInv' /\ GrantInv' /\ Ht!SentIsTaken'
  BY RequestStays DEF EndInv, GrantInv, Ht!SentIsTaken, Ht!Held
<1>7. QED
  BY <1>1, <1>2, <1>3, <1>4, <1>5, <1>6, RequestStays

LEMMA ArriveReads == ReadInv /\ Ht!Arrive => ReadInv'
<1> SUFFICES ASSUME ReadInv, Ht!Arrive PROVE ReadInv'
  OBVIOUS
<1>1. Len(Ht!stream) \in Nat /\ HeadLen \in Nat /\ HeadLen <= Len(Ht!stream)
  BY StreamFacts DEF ReadInv
<1>2. arrived' \in arrived + 1 .. (IF Ht!Held THEN HeadLen ELSE Len(Ht!stream))
  BY DEF Ht!Arrive, HeadLen
<1>3. arrived' \in arrived..Len(Ht!stream)
  BY <1>1, <1>2 DEF Counts, ReadInv
<1>4. QED
  BY <1>3, NothingReads DEF Ht!Arrive, Ht!reading

LEMMA CutReads == ReadInv /\ Ht!Cut => ReadInv'
<1> SUFFICES ASSUME ReadInv, Ht!Cut PROVE ReadInv'
  OBVIOUS
<1>1. arrived' = arrived /\ arrived \in arrived..Len(Ht!stream)
  BY StreamFacts DEF Ht!Cut, Counts, ReadInv
<1>2. QED
  BY <1>1, NothingReads DEF Ht!Cut, Ht!reading

(* A step that ends the reading for a reason SentIsTaken names.            *)
LEMMA OverReads ==
  ASSUME ReadInv, request' = request, Counts', Ht!Over', stage' # "done", Ht!SentIsTaken'
  PROVE  ReadInv'
BY RequestStays
DEF ReadInv, HeadInv, CheckInv, CountedInv, SizeInv, DataInv, DelimiterInv, EndInv,
    GrantInv, Ht!Over

(* The ends the receiver comes to without reading.                         *)
LEMMA TimeoutReads == ReadInv /\ Ht!Timeout => ReadInv'
<1> SUFFICES ASSUME ReadInv, Ht!Timeout PROVE ReadInv'
  OBVIOUS
<1>1. Counts' /\ Ht!SentIsTaken'
  BY RequestStays DEF Ht!Timeout, Counts, Ht!SentIsTaken, ReadInv
<1>2. QED
  BY <1>1, OverReads DEF Ht!Timeout, Ht!Goto, Ht!Over

LEMMA AnswerReads ==
  ASSUME ReadInv, UNCHANGED <<request, arrived, cut, Ht!reading>>
  PROVE  ReadInv'
<1>1. arrived' = arrived /\ arrived \in arrived..Len(Ht!stream)
  BY StreamFacts DEF Counts, ReadInv
<1>2. QED
  BY <1>1, NothingReads DEF Ht!reading

LEMMA HostReads == ReadInv /\ Ht!CheckHost => ReadInv'
<1> SUFFICES ASSUME ReadInv, Ht!CheckHost PROVE ReadInv'
  OBVIOUS
<1>1. UNCHANGED <<request, arrived, cut, htAt, need, body, granted, disturbed>> /\ stage = "host"
  BY DEF Ht!CheckHost, Ht!kept
<1>2. Counts'
  BY <1>1, RequestStays DEF Counts, ReadInv
<1>3. CASE stage' = "refused"
  <2>1. ~Ht!Acceptable
    BY <1>1, <1>3 DEF Ht!CheckHost, Ht!Goto, Ht!Acceptable, ReadInv, EndInv
  <2>2. Ht!SentIsTaken'
    BY <1>1, <2>1, RequestStays DEF Ht!SentIsTaken
  <2>3. QED
    BY <1>1, <1>2, <1>3, <2>2, OverReads DEF Ht!Over
<1>4. CASE stage' = "done"
  BY <1>1, <1>2, <1>4, RequestStays
  DEF ReadInv, HeadInv, CheckInv, CountedInv, SizeInv, DataInv, DelimiterInv, EndInv,
      GrantInv, Ht!SentIsTaken
<1>5. QED
  BY <1>3, <1>4 DEF Ht!CheckHost, Ht!Goto

-----------------------------------------------------------------------------
(* The head.                                                               *)

(* From the beginning of a line on, EmptyLine finds the ends of the empty  *)
(* lines of the stream.                                                    *)
LEMMA EmptyLineFrom ==
  ASSUME NEW text, NEW from \in 0..Len(text), Len(text) \in Nat,
         \A i \in 1..Len(text) : text[i] = Ht!stream[i],
         from = 0 \/ Ht!stream[from] = Ht!LF
  PROVE  Ht!EmptyLine(text, from) = {e \in from + 1 .. Len(text) : Ht!EmptyEnd(Ht!stream, e)}
<1>1. ASSUME NEW e \in from + 1 .. Len(text)
      PROVE  (/\ text[e] = Ht!LF
              /\ \/ e = from + 1 \/ text[e - 1] = Ht!LF
                 \/ text[e - 1] = Ht!CR /\ (e = from + 2 \/ text[e - 2] = Ht!LF))
             <=> Ht!EmptyEnd(Ht!stream, e)
  <2>1. /\ text[e] = Ht!stream[e]
        /\ e # 1 => text[e - 1] = Ht!stream[e - 1]
        /\ e # 1 /\ e # 2 => text[e - 2] = Ht!stream[e - 2]
    OBVIOUS
  <2>2. CASE from = 0
    BY <2>1, <2>2 DEF Ht!EmptyEnd
  <2>3. CASE from # 0 /\ Ht!stream[from] = Ht!LF
    <3>1. e # 1 /\ text[from] = Ht!LF
      BY <2>3
    <3>2. CASE e = from + 1
      <4>1. e - 1 = from
        BY <3>2
      <4>2. QED
        BY <2>1, <2>3, <3>1, <3>2, <4>1 DEF Ht!EmptyEnd
    <3>3. CASE e = from + 2
      <4>1. e - 2 = from /\ e # 2 /\ e # from + 1
        BY <2>3, <3>3
      <4>2. QED
        BY <2>1, <2>3, <3>1, <3>3, <4>1 DEF Ht!EmptyEnd
    <3>4. CASE e # from + 1 /\ e # from + 2
      <4>1. e # 2
        BY <2>3, <3>4
      <4>2. QED
        BY <2>1, <3>1, <3>4, <4>1 DEF Ht!EmptyEnd
    <3>5. QED
      BY <3>2, <3>3, <3>4
  <2>4. QED
    BY <2>2, <2>3
<1>2. QED
  BY <1>1 DEF Ht!EmptyLine

(* The endpoint: if the end of the head is in the text it is the first     *)
(* place EmptyLine finds, and otherwise it finds none.                     *)
LEMMA PieceReads ==
  ASSUME Bounds, ReadInv, Ht!ReadPiece
  PROVE  ReadInv'
<1> USE DEF ReadInv, Bounds
<1>1. PICK T : Ht!stream \in Seq(T)
  BY StreamTyped
<1>2. /\ htAt \in Nat /\ arrived \in Nat /\ Len(Ht!stream) \in Nat /\ HeadLen \in Nat \ {0}
      /\ HeadLen <= Len(Ht!stream) /\ arrived \in htAt..Len(Ht!stream) /\ MAX_HEAD_BYTES \in Nat
  BY StreamFacts, HeadEnds DEF Counts
<1>3. /\ stage = "head" /\ request.to = "endpoint"
      /\ UNCHANGED <<request, arrived, cut, need, body, granted, disturbed>>
  BY DEF Ht!ReadPiece
<1>4. /\ htAt < HeadLen /\ htAt <= MAX_HEAD_BYTES /\ head = SubSeq(Ht!stream, 1, htAt) /\ body = <<>>
      /\ line_start \in 0..htAt /\ (line_start = 0 \/ Ht!stream[line_start] = Ht!LF)
  BY <1>3 DEF HeadInv
<1>5. head \in Seq(T) /\ Len(head) = htAt
  <2>1. 0 \in Nat /\ htAt \in 0..Len(Ht!stream) /\ 0 + 1 = 1 /\ htAt - 0 = htAt
    BY <1>2
  <2>2. SubSeq(Ht!stream, 0 + 1, htAt) \in Seq(T) /\ Len(SubSeq(Ht!stream, 0 + 1, htAt)) = htAt - 0
    BY <1>1, <2>1, Piece
  <2>3. QED
    BY <1>4, <2>1, <2>2
<1>6. CASE cut /\ arrived = htAt /\ Ht!Goto("refused") /\ UNCHANGED <<htAt, head, line_start>>
  <2>1. arrived' < Len(Ht!stream)' /\ cut' /\ stage' = "refused"
    BY <1>2, <1>3, <1>4, <1>6, RequestStays DEF Ht!Goto
  <2>2. Counts' /\ Ht!SentIsTaken'
    BY <1>3, <1>6, <2>1, RequestStays DEF Counts, Ht!SentIsTaken
  <2>3. QED
    BY <1>3, <2>1, <2>2, OverReads DEF Ht!Over
<1>7. CASE ~(cut /\ arrived = htAt /\ Ht!Goto("refused") /\ UNCHANGED <<htAt, head, line_start>>)
  <2> DEFINE piece(n) ==
               Ht!First(SubSeq(Ht!stream, htAt + 1, htAt + n), MAX_HEAD_BYTES - Len(head))
             ends(text) == Ht!EmptyLine(text, line_start)
             last(text) == {i \in 1 .. Len(text) : text[i] = Ht!LF}
             Found(text) ==
               LET e == CHOOSE i \in ends(text) : \A j \in ends(text) : i <= j IN
               /\ head' = Ht!First(text, e) /\ htAt' = htAt + e - Len(head)
               /\ Ht!Goto("check") /\ UNCHANGED line_start
             NotFound(text, p) ==
               /\ head' = text /\ htAt' = htAt + Len(p)
               /\ line_start' = IF last(text) = {} THEN 0
                                ELSE CHOOSE i \in last(text) : \A j \in last(text) : i >= j
               /\ Ht!Goto(IF Len(text) >= MAX_HEAD_BYTES THEN "refused" ELSE "head")
  <2>1. PICK n \in 1 .. arrived - htAt :
          IF ends(head \o piece(n)) # {} THEN Found(head \o piece(n))
          ELSE NotFound(head \o piece(n), piece(n))
    BY <1>7 DEF Ht!ReadPiece
  <2> DEFINE k == IF n <= MAX_HEAD_BYTES - htAt THEN n ELSE MAX_HEAD_BYTES - htAt
             text == SubSeq(Ht!stream, 1, htAt + k)
  <2>2. k \in 0 .. arrived - htAt /\ k <= n /\ n \in Nat /\ htAt + n \in htAt..Len(Ht!stream)
    BY <1>2, <1>4
  <2>3. piece(n) = SubSeq(Ht!stream, htAt + 1, htAt + k)
    <3>1. MAX_HEAD_BYTES - htAt \in Nat /\ (htAt + n) - htAt = n
      BY <1>2, <1>4, <2>2
    <3>2. CASE n <= MAX_HEAD_BYTES - htAt
      BY <1>1, <1>2, <1>5, <2>2, <3>1, <3>2, FirstOfPiece
    <3>3. CASE ~(n <= MAX_HEAD_BYTES - htAt)
      <4>1. MAX_HEAD_BYTES - htAt <= (htAt + n) - htAt
        BY <1>2, <3>1, <3>3, <2>2
      <4>2. QED
        BY <1>1, <1>2, <1>5, <2>2, <3>1, <3>3, <4>1, FirstOfPiece
    <3>4. QED
      BY <3>2, <3>3
  <2> HIDE DEF k
  <2>4. head \o piece(n) = text
    <3>1. /\ 1 \in 1 .. Len(Ht!stream) + 1 /\ htAt \in 1 - 1 .. Len(Ht!stream)
          /\ htAt + k \in htAt..Len(Ht!stream)
      BY <1>2, <2>2
    <3>2. QED
      BY <1>1, <1>4, <2>3, <3>1, ConcatAdjacentSubSeq
  <2>5. Len(piece(n)) = k
    <3>1. htAt + k \in htAt..Len(Ht!stream) /\ (htAt + k) - htAt = k
      BY <1>2, <2>2
    <3> DEFINE b == htAt + k
    <3> HIDE DEF b
    <3>2. Len(SubSeq(Ht!stream, htAt + 1, b)) = b - htAt
      BY <1>1, <1>2, <3>1, Piece DEF b
    <3>3. QED
      BY <2>3, <3>1, <3>2 DEF b
  <2>6. /\ Len(text) = htAt + k /\ text \in Seq(T)
        /\ \A i \in 1 .. htAt + k : text[i] = Ht!stream[i]
    <3>1. 0 \in Nat /\ htAt + k \in 0..Len(Ht!stream) /\ 0 + 1 = 1 /\ (htAt + k) - 0 = htAt + k
          /\ \A i \in Int : 0 + i = i
      BY <1>2, <2>2
    <3> DEFINE b == htAt + k
    <3> HIDE DEF b
    <3>2. /\ SubSeq(Ht!stream, 0 + 1, b) \in Seq(T) /\ Len(SubSeq(Ht!stream, 0 + 1, b)) = b - 0
          /\ \A i \in 1 .. b - 0 : SubSeq(Ht!stream, 0 + 1, b)[i] = Ht!stream[0 + i]
      BY <1>1, <3>1, Piece DEF b
    <3>3. QED
      BY <3>1, <3>2 DEF b
  <2> HIDE DEF text, piece
  <2>7. ends(text) = {e \in line_start + 1 .. htAt + k : Ht!EmptyEnd(Ht!stream, e)}
    <3>1. line_start \in 0..Len(text) /\ Len(text) \in Nat
      BY <1>2, <1>4, <2>2, <2>6
    <3>2. QED
      BY <1>4, <2>6, <3>1, EmptyLineFrom
  <2>8. CASE HeadLen <= htAt + k
    <3>1. HeadLen \in ends(text) /\ \A e \in ends(text) : HeadLen <= e
      <4>1. HeadLen \in line_start + 1 .. htAt + k
        BY <1>2, <1>4, <2>2, <2>8
      <4>2. \A e \in line_start + 1 .. htAt + k : Ht!EmptyEnd(Ht!stream, e) => HeadLen <= e
        <5>1. ASSUME NEW e \in line_start + 1 .. htAt + k, ~(HeadLen <= e)
              PROVE  e \in 1 .. HeadLen - 1
          BY <1>2, <1>4, <2>2, <5>1
        <5>2. QED
          BY <5>1, HeadEnds
      <4>3. QED
        BY <2>7, <4>1, <4>2, HeadEnds
    <3>2. (CHOOSE i \in ends(text) : \A j \in ends(text) : i <= j) = HeadLen
      <4>1. \A i \in ends(text) : (\A j \in ends(text) : i <= j) => i = HeadLen
        <5>1. \A i \in ends(text) : i \in Int
          BY <1>2, <1>4, <2>2, <2>7
        <5>2. QED
          BY <1>2, <3>1, <5>1
      <4>2. QED
        BY <3>1, <4>1
    <3>3. htAt' = htAt + HeadLen - Len(head) /\ stage' = "check"
      BY <2>1, <2>4, <3>1, <3>2 DEF Ht!Goto
    <3>4. htAt' = HeadLen /\ stage' = "check"
      BY <1>2, <1>5, <3>3
    <3>5. Counts'
      <4>1. HeadLen \in 0..arrived
        BY <1>2, <2>2, <2>8
      <4>2. QED
        BY <1>3, <3>4, <4>1, RequestStays DEF Counts
    <3>6. QED
      BY <1>3, <1>4, <3>4, <3>5, RequestStays
      DEF HeadInv, CheckInv, CountedInv, SizeInv, DataInv, DelimiterInv, EndInv, GrantInv,
          Ht!SentIsTaken
  <2>9. CASE htAt + k < HeadLen
    <3>1. ends(text) = {}
      <4>1. ASSUME NEW e \in line_start + 1 .. htAt + k PROVE e \in 1 .. HeadLen - 1
        BY <1>2, <1>4, <2>2, <2>9
      <4>2. QED
        BY <2>7, <4>1, HeadEnds
    <3>2. NotFound(text, piece(n))
      BY <2>1, <2>4, <3>1
    <3>3. /\ htAt' = htAt + k /\ head' = text
          /\ stage' = IF htAt + k >= MAX_HEAD_BYTES THEN "refused" ELSE "head"
      BY <2>5, <2>6, <3>2 DEF Ht!Goto
    <3>4. Counts'
      <4>1. htAt + k \in 0..arrived
        BY <1>2, <2>2
      <4>2. QED
        BY <1>3, <3>3, <4>1, RequestStays DEF Counts
    <3>5. CASE htAt + k >= MAX_HEAD_BYTES
      <4>1. ~(HeadLen <= MAX_HEAD_BYTES)
        BY <1>2, <2>2, <2>9, <3>5
      <4>2. ~Ht!Acceptable
        BY <4>1 DEF Ht!Acceptable, HeadLen
      <4>3. Ht!SentIsTaken'
        BY <1>3, <4>2, RequestStays DEF Ht!SentIsTaken
      <4>4. QED
        BY <1>3, <3>3, <3>4, <3>5, <4>3, OverReads DEF Ht!Over
    <3>6. CASE ~(htAt + k >= MAX_HEAD_BYTES)
      <4>1. line_start' \in 0 .. htAt + k /\ (line_start' = 0 \/ Ht!stream[line_start'] = Ht!LF)
        <5>1. last(text) \in SUBSET (1 .. htAt + k) /\ htAt + k \in Nat
          BY <1>2, <2>2, <2>6
        <5>2. CASE last(text) = {}
          BY <3>2, <5>1, <5>2
        <5>3. CASE last(text) # {}
          <6>1. \E i \in last(text) : \A j \in last(text) : i >= j
            BY <5>1, <5>3, GreatestOf
          <6>2. line_start' \in last(text)
            BY <3>2, <5>3, <6>1
          <6>3. QED
            BY <2>6, <5>1, <6>2
        <5>4. QED
          BY <5>2, <5>3
      <4>2. htAt' <= MAX_HEAD_BYTES /\ htAt' < HeadLen
        BY <1>2, <2>2, <2>9, <3>3, <3>6
      <4>3. HeadInv'
        BY <1>3, <1>4, <3>3, <4>1, <4>2, RequestStays DEF HeadInv, text
      <4>4. QED
        BY <1>3, <3>3, <3>4, <3>6, <4>3, RequestStays
        DEF HeadInv, CheckInv, CountedInv, SizeInv, DataInv, DelimiterInv, EndInv, GrantInv,
            Ht!SentIsTaken
    <3>7. QED
      BY <3>5, <3>6
  <2>10. QED
    BY <1>2, <2>2, <2>8, <2>9
<1>8. QED
  BY <1>6, <1>7

(* The proxy: no line reaches beyond the head, and only the last one of    *)
(* the head is empty.                                                      *)
LEMMA LineReads ==
  ASSUME Bounds, ReadInv, Ht!ReadLine
  PROVE  ReadInv'
<1> USE DEF ReadInv, Bounds
<1>1. PICK T : Ht!stream \in Seq(T)
  BY StreamTyped
<1>2. /\ htAt \in Nat /\ arrived \in Nat /\ Len(Ht!stream) \in Nat /\ HeadLen \in Nat \ {0}
      /\ HeadLen <= Len(Ht!stream) /\ arrived \in htAt..Len(Ht!stream) /\ MAX_HEAD_BYTES \in Nat
  BY StreamFacts, HeadEnds DEF Counts
<1> DEFINE limit == MAX_HEAD_BYTES - Len(head) + 1
           line == Ht!Line(limit)
<1>3. /\ stage = "head" /\ request.to = "proxy" /\ Ht!LineReady(limit)
      /\ htAt' = htAt + Len(line)
      /\ IF line = <<>> \/ Len(head) + Len(line) > MAX_HEAD_BYTES
         THEN stage' = "failed" /\ UNCHANGED head
         ELSE /\ head' = head \o line
              /\ stage' = IF line \in Ht!EmptyLines THEN "check" ELSE "head"
      /\ UNCHANGED <<request, arrived, cut, line_start, need, body, granted, disturbed>>
  BY DEF Ht!ReadLine, Ht!Goto
<1>4. /\ htAt < HeadLen /\ htAt <= MAX_HEAD_BYTES /\ head = SubSeq(Ht!stream, 1, htAt) /\ body = <<>>
      /\ htAt = 0 \/ Ht!stream[htAt] = Ht!LF \/ (cut /\ htAt = arrived)
  BY <1>3 DEF HeadInv
<1>5. Len(head) = htAt
  <2>1. 0 \in Nat /\ htAt \in 0..Len(Ht!stream) /\ 0 + 1 = 1 /\ htAt - 0 = htAt
    BY <1>2
  <2>2. Len(SubSeq(Ht!stream, 0 + 1, htAt)) = htAt - 0
    BY <1>1, <2>1, Piece
  <2>3. QED
    BY <1>4, <2>1, <2>2
<1>6. limit = MAX_HEAD_BYTES - htAt + 1 /\ limit \in Nat
  BY <1>2, <1>4, <1>5
<1> HIDE DEF limit, line
<1>7. PICK m \in 0 .. arrived - htAt : Reads(limit, m)
  BY <1>1, <1>6, LineRead
<1>8. /\ Len(line) = m /\ htAt' = htAt + m /\ m <= limit /\ m \in Nat
      /\ line = SubSeq(Ht!stream, htAt + 1, htAt + m)
      /\ \A i \in htAt + 1 .. htAt + m - 1 : Ht!stream[i] # Ht!LF
      /\ \/ m > 0 /\ Ht!stream[htAt + m] = Ht!LF
         \/ m = limit \/ (cut /\ htAt + m = arrived)
  BY <1>2, <1>3, <1>7 DEF Reads, NoLineEnd, line
<1>9. line \in Ht!EmptyLines <=>
        \/ m = 1 /\ Ht!stream[htAt + 1] = Ht!LF
        \/ m = 2 /\ Ht!stream[htAt + 1] = Ht!CR /\ Ht!stream[htAt + 2] = Ht!LF
  BY <1>1, <1>6, <1>7, EmptyRead DEF line
<1>10. htAt + m <= HeadLen
  <2>1. Ht!stream[HeadLen] = Ht!LF
    BY HeadEnds DEF Ht!EmptyEnd
  <2>2. QED
    BY <1>2, <1>4, <1>8, <2>1
<1>11. Counts'
  <2>1. htAt + m \in 0..arrived
    BY <1>2, <1>7
  <2>2. QED
    BY <1>3, <1>8, <2>1, RequestStays DEF Counts
<1>12. CASE line = <<>>
  <2>1. m = 0
    BY <1>8, <1>12
  <2>2. cut /\ arrived = htAt
    BY <1>2, <1>4, <1>6, <1>8, <2>1
  <2>3. Ht!SentIsTaken'
    BY <1>2, <1>3, <1>4, <2>2, RequestStays DEF Ht!SentIsTaken
  <2>4. QED
    BY <1>3, <1>11, <1>12, <2>3, OverReads DEF Ht!Over
<1>13. CASE line # <<>> /\ htAt + m > MAX_HEAD_BYTES
  <2>1. ~(HeadLen <= MAX_HEAD_BYTES)
    BY <1>2, <1>8, <1>10, <1>13
  <2>2. ~Ht!Acceptable
    BY <2>1 DEF Ht!Acceptable, HeadLen
  <2>3. Ht!SentIsTaken'
    BY <1>3, <2>2, RequestStays DEF Ht!SentIsTaken
  <2>4. stage' = "failed"
    BY <1>3, <1>5, <1>8, <1>13
  <2>5. QED
    BY <1>3, <1>11, <2>3, <2>4, OverReads DEF Ht!Over
<1>14. CASE line # <<>> /\ htAt + m <= MAX_HEAD_BYTES
  <2>1. m > 0
    <3>1. m # 0
      <4>1. ASSUME m = 0 PROVE FALSE
        <5>1. SubSeq(Ht!stream, htAt + 1, htAt + m) = <<>>
          BY <1>2, <4>1, SubSeqEmpty
        <5>2. QED
          BY <1>8, <1>14, <5>1
      <4>2. QED
        BY <4>1
    <3>2. QED
      BY <1>8, <3>1
  <2>2. ~(cut /\ htAt = arrived)
    BY <1>2, <1>7, <2>1
  <2>3. /\ head' = head \o line
        /\ stage' = IF line \in Ht!EmptyLines THEN "check" ELSE "head"
    <3>1. ~(Len(head) + Len(line) > MAX_HEAD_BYTES)
      BY <1>2, <1>5, <1>8, <1>14
    <3>2. QED
      BY <1>3, <1>14, <3>1
  <2>4. head' = SubSeq(Ht!stream, 1, htAt + m)
    <3>1. /\ 1 \in 1 .. Len(Ht!stream) + 1 /\ htAt \in 1 - 1 .. Len(Ht!stream)
          /\ htAt + m \in htAt..Len(Ht!stream)
      BY <1>2, <1>7
    <3>2. QED
      BY <1>1, <1>4, <1>8, <2>3, <3>1, ConcatAdjacentSubSeq
  <2>5. line \in Ht!EmptyLines <=> htAt + m = HeadLen
    <3>1. ASSUME line \in Ht!EmptyLines PROVE htAt + m = HeadLen
      <4>1. Ht!EmptyEnd(Ht!stream, htAt + m)
        <5>1. CASE m = 1 /\ Ht!stream[htAt + 1] = Ht!LF
          <6>1. htAt + m = 1 \/ Ht!stream[(htAt + m) - 1] = Ht!LF
            BY <1>2, <1>4, <2>2, <5>1
          <6>2. QED
            BY <5>1, <6>1 DEF Ht!EmptyEnd
        <5>2. CASE m = 2 /\ Ht!stream[htAt + 1] = Ht!CR /\ Ht!stream[htAt + 2] = Ht!LF
          <6>1. /\ (htAt + m) - 1 = htAt + 1 /\ (htAt + m) - 2 = htAt
                /\ htAt + m = 2 \/ Ht!stream[htAt] = Ht!LF
            BY <1>2, <1>4, <2>2, <5>2
          <6>2. QED
            BY <5>2, <6>1 DEF Ht!EmptyEnd
        <5>3. QED
          BY <1>9, <3>1, <5>1, <5>2
      <4>2. htAt + m \notin 1 .. HeadLen - 1
        BY <4>1, HeadEnds
      <4>3. QED
        BY <1>2, <1>8, <1>10, <2>1, <4>2
    <3>2. ASSUME htAt + m = HeadLen PROVE line \in Ht!EmptyLines
      <4>1. Ht!EmptyEnd(Ht!stream, htAt + m)
        BY <3>2, HeadEnds
      <4>2. Ht!stream[htAt + m] = Ht!LF
        BY <4>1 DEF Ht!EmptyEnd
      <4>3. CASE m = 1
        BY <1>9, <4>2, <4>3
      <4>4. CASE m # 1
        <5>1. m >= 2 /\ htAt + m # 1 /\ htAt + m - 1 \in htAt + 1 .. htAt + m - 1
          BY <1>2, <1>8, <2>1, <4>4
        <5>2. Ht!stream[htAt + m - 1] # Ht!LF
          BY <1>8, <5>1
        <5>3. Ht!stream[htAt + m - 1] = Ht!CR /\ (htAt + m = 2 \/ Ht!stream[htAt + m - 2] = Ht!LF)
          <6> DEFINE e == htAt + m
          <6>1. Ht!EmptyEnd(Ht!stream, e) /\ e # 1 /\ Ht!stream[e - 1] # Ht!LF
            BY <1>2, <1>8, <4>1, <5>1, <5>2
          <6> HIDE DEF e
          <6>2. Ht!stream[e - 1] = Ht!CR /\ (e = 2 \/ Ht!stream[e - 2] = Ht!LF)
            BY <6>1 DEF Ht!EmptyEnd
          <6>3. QED
            BY <1>2, <1>8, <6>2 DEF e
        <5>4. m = 2
          <6>1. CASE htAt + m = 2
            BY <1>2, <5>1, <6>1
          <6>2. CASE Ht!stream[htAt + m - 2] = Ht!LF
            <7>1. htAt + m - 2 \notin htAt + 1 .. htAt + m - 1
              BY <1>8, <6>2
            <7>2. QED
              BY <1>2, <1>8, <5>1, <7>1
          <6>3. QED
            BY <5>3, <6>1, <6>2
        <5>5. (htAt + m) - 1 = htAt + 1
          BY <1>2, <5>4
        <5>6. QED
          BY <1>9, <4>2, <5>3, <5>4, <5>5
      <4>5. QED
        BY <4>3, <4>4
    <3>3. QED
      BY <3>1, <3>2
  <2>6. CASE line \in Ht!EmptyLines
    BY <1>3, <1>4, <1>8, <1>11, <2>3, <2>5, <2>6, RequestStays
    DEF HeadInv, CheckInv, CountedInv, SizeInv, DataInv, DelimiterInv, EndInv, GrantInv,
        Ht!SentIsTaken
  <2>7. CASE line \notin Ht!EmptyLines
    <3>1. htAt' < HeadLen /\ htAt' <= MAX_HEAD_BYTES
      BY <1>2, <1>8, <1>10, <1>14, <2>5, <2>7
    <3>2. Ht!stream[htAt'] = Ht!LF \/ (cut /\ htAt' = arrived)
      BY <1>2, <1>6, <1>8, <1>14
    <3>3. HeadInv'
      BY <1>3, <1>4, <1>8, <2>4, <3>1, <3>2, RequestStays DEF HeadInv
    <3>4. QED
      BY <1>3, <1>11, <2>3, <2>7, <3>3, RequestStays
      DEF CheckInv, CountedInv, SizeInv, DataInv, DelimiterInv, EndInv, GrantInv,
          Ht!SentIsTaken
  <2>8. QED
    BY <2>6, <2>7
<1>15. htAt + m > MAX_HEAD_BYTES \/ htAt + m <= MAX_HEAD_BYTES
  BY <1>2, <1>8
<1>16. QED
  BY <1>12, <1>13, <1>14, <1>15

-----------------------------------------------------------------------------
(* What follows from the head.                                             *)

LEMMA NotEncoded == ASSUME NEW r, Ht!Unencoded(r) PROVE Ht!Encodings(r) = {}
<1>1. Ht!Headers(r, "transfer-encoding") = <<>>
  BY DEF Ht!Unencoded
<1>2. DOMAIN <<>> = {}
  OBVIOUS
<1>3. QED
  BY <1>1, <1>2 DEF Ht!Encodings

(* The endpoint takes a counted document with nothing wrong in its head,   *)
(* and refuses what is not acceptable.                                     *)
LEMMA EndpointReads ==
  ASSUME Bounds, ReadInv, Ht!CheckAtEndpoint
  PROVE  ReadInv'
<1> USE DEF ReadInv, Bounds
<1> DEFINE length == Ht!FirstLength(request)
<1>1. /\ stage = "check" /\ request.to = "endpoint" /\ htAt = HeadLen /\ body = <<>>
      /\ UNCHANGED <<request, arrived, cut, htAt, head, line_start, body>>
  BY DEF Ht!CheckAtEndpoint, CheckInv
<1>2. /\ length \in {Ht!NoLength, DocLen} /\ DocLen \in Nat
      /\ Ht!Expects(request) => Ht!FirstOf(request, "expect") = "100-continue"
      /\ Ht!Encodings(request) = {} => request.framed = request.document
  BY StreamFacts DEF Ht!Framed, DocLen
<1> HIDE DEF length
<1>3. CASE /\ Ht!Posted(request) /\ Ht!Unencoded(request)
           /\ Ht!FirstOf(request, "content-type") = "ipp"
           /\ length # Ht!NoLength /\ length <= MAX_BODY_BYTES
  <2>1. PICK taken \in BOOLEAN :
          /\ disturbed' = ~taken
          /\ granted' = (taken /\ Ht!FirstOf(request, "expect") = "100-continue")
          /\ need' = length /\ stage' = IF taken THEN "body" ELSE "refused"
    BY <1>3 DEF Ht!CheckAtEndpoint, Ht!Lease, Ht!Goto, length
  <2>2. need' = DocLen /\ request.framed = request.document
    BY <1>2, <1>3, <2>1, NotEncoded
  <2>3. Counts'
    BY <1>1, <1>2, <2>2, RequestStays DEF Counts
  <2>4. CASE ~taken
    BY <1>1, <2>1, <2>3, <2>4, OverReads DEF Ht!Over, Ht!SentIsTaken
  <2>5. CASE taken
    <3>1. ~Ht!Held'
      BY <1>1, <1>2, <2>1, <2>5, RequestStays DEF Ht!Held
    <3>2. CountedInv'
      BY <1>1, <2>1, <2>2, <2>5, RequestStays DEF CountedInv
    <3>3. QED
      BY <1>1, <2>1, <2>3, <2>5, <3>1, <3>2, RequestStays
      DEF HeadInv, CheckInv, SizeInv, DataInv, DelimiterInv, EndInv, GrantInv, Ht!SentIsTaken
  <2>6. QED
    BY <2>4, <2>5
<1>4. CASE ~(/\ Ht!Posted(request) /\ Ht!Unencoded(request)
             /\ Ht!FirstOf(request, "content-type") = "ipp"
             /\ length # Ht!NoLength /\ length <= MAX_BODY_BYTES)
  <2>1. stage' = "refused" /\ UNCHANGED <<need, granted, disturbed>>
    BY <1>4 DEF Ht!CheckAtEndpoint, Ht!Goto, length
  <2>2. ~Ht!Acceptable
    <3>1. Ht!Acceptable => Len(request.document) <= MAX_BODY_BYTES
      BY DEF Ht!Acceptable
    <3>2. Ht!Acceptable => length # Ht!NoLength /\ DocLen <= MAX_BODY_BYTES
      BY <1>1, <3>1 DEF Ht!Acceptable, length, DocLen
    <3>3. QED
      BY <1>1, <1>2, <1>4, <3>2 DEF Ht!Acceptable
  <2>3. Counts' /\ Ht!SentIsTaken'
    BY <1>1, <2>1, <2>2, RequestStays DEF Counts, Ht!SentIsTaken
  <2>4. QED
    BY <1>1, <2>1, <2>3, OverReads DEF Ht!Over
<1>5. QED
  BY <1>3, <1>4

(* The proxy takes a document in chunks too.                               *)
LEMMA ProxyReads ==
  ASSUME Bounds, ReadInv, Ht!CheckAtProxy
  PROVE  ReadInv'
<1> USE DEF ReadInv, Bounds
<1> DEFINE length == Ht!LastLength(request)
           next == CASE Ht!Encodings(request) # {} -> "size"
                     [] ~(Ht!Encodings(request) # {}) /\ length # Ht!NoLength
                        /\ length <= MAX_BODY_BYTES -> "body"
                     [] OTHER -> "refused"
           broken == request.head[1][1] # "request" \/ Ht!Encodings(request) \ {"chunked"} # {}
           other == /\ request.head[1][1] = "request"
                    /\ Ht!Encodings(request) \subseteq {"chunked"}
                    /\ ~(Ht!Posted(request) /\ Ht!LastOf(request, "content-type") = "ipp")
<1>1. /\ stage = "check" /\ request.to = "proxy" /\ htAt = HeadLen /\ body = <<>>
      /\ UNCHANGED <<request, arrived, cut, htAt, head, line_start, body>>
  BY DEF Ht!CheckAtProxy, CheckInv
<1>2. /\ length \in {Ht!NoLength, DocLen} /\ DocLen \in Nat /\ HeadLen \in Nat
      /\ Ht!Expects(request) => Ht!FirstOf(request, "expect") = "100-continue"
      /\ Ht!FirstOf(request, "expect") = Ht!LastOf(request, "expect")
      /\ Ht!FirstOf(request, "content-type") = Ht!LastOf(request, "content-type")
      /\ Ht!Encodings(request) = {} => request.framed = request.document
      /\ Ht!Encodings(request) = {"chunked"} => Ht!Chunked(request)
  BY <1>1, StreamFacts DEF Ht!Framed, DocLen
<1>3. Ht!Acceptable =>
        /\ Ht!Posted(request) /\ Ht!FirstOf(request, "content-type") = "ipp"
        /\ DocLen <= MAX_BODY_BYTES
        /\ \/ Ht!Encodings(request) = {"chunked"}
           \/ Ht!Encodings(request) = {} /\ length # Ht!NoLength
  BY <1>1 DEF Ht!Acceptable, DocLen
<1> HIDE DEF length
<1>4. CASE broken
  <2>1. stage' = "failed" /\ UNCHANGED <<need, granted, disturbed>>
    BY <1>4 DEF Ht!CheckAtProxy, Ht!Goto
  <2>2. ~Ht!Acceptable
    BY <1>3, <1>4 DEF Ht!Posted
  <2>3. Counts' /\ Ht!SentIsTaken'
    BY <1>1, <2>1, <2>2, RequestStays DEF Counts, Ht!SentIsTaken
  <2>4. QED
    BY <1>1, <2>1, <2>3, OverReads DEF Ht!Over
<1>5. CASE other
  <2>1. stage' = "refused" /\ UNCHANGED <<need, granted, disturbed>>
    BY <1>5 DEF Ht!CheckAtProxy, Ht!Goto
  <2>2. ~Ht!Acceptable
    BY <1>2, <1>3, <1>5
  <2>3. Counts' /\ Ht!SentIsTaken'
    BY <1>1, <2>1, <2>2, RequestStays DEF Counts, Ht!SentIsTaken
  <2>4. QED
    BY <1>1, <2>1, <2>3, OverReads DEF Ht!Over
<1>6. CASE ~broken /\ ~other
  <2>1. PICK taken \in BOOLEAN :
          /\ disturbed' = ~taken /\ granted' = (taken /\ Ht!GoesAhead(request))
          /\ need' = IF next = "body" THEN length ELSE 0
          /\ stage' = IF taken THEN next ELSE "refused"
    BY <1>6 DEF Ht!CheckAtProxy, Ht!Lease, Ht!Goto, length
  <2>2. Ht!Encodings(request) = {} \/ Ht!Encodings(request) = {"chunked"}
    BY <1>6
  <2>3. next = "body" => length # Ht!NoLength
    BY <2>2
  <2>4. Counts'
    <3>1. need' \in Nat
      BY <1>2, <2>1, <2>3
    <3>2. QED
      BY <1>1, <3>1, RequestStays DEF Counts
  <2>5. CASE ~taken
    BY <1>1, <2>1, <2>4, <2>5, OverReads DEF Ht!Over, Ht!SentIsTaken
  <2>6. CASE taken /\ next = "refused"
    <3>1. Ht!Encodings(request) = {} /\ (length = Ht!NoLength \/ ~(length <= MAX_BODY_BYTES))
      BY <2>2, <2>6
    <3>2. ~Ht!Acceptable
      BY <1>2, <1>3, <3>1
    <3>3. Ht!SentIsTaken'
      BY <1>1, <3>2, RequestStays DEF Ht!SentIsTaken
    <3>4. QED
      BY <1>1, <2>1, <2>4, <2>6, <3>3, OverReads DEF Ht!Over
  <2>7. ASSUME taken PROVE ~Ht!Held'
    BY <1>1, <1>2, <2>1, <2>7, RequestStays DEF Ht!Held, Ht!GoesAhead
  <2>8. CASE taken /\ next = "body"
    <3>1. Ht!Encodings(request) = {}
      BY <2>2, <2>8
    <3>2. CountedInv'
      BY <1>1, <1>2, <2>1, <2>3, <2>8, <3>1, RequestStays DEF CountedInv
    <3>3. QED
      BY <1>1, <2>1, <2>4, <2>7, <2>8, <3>2, RequestStays
      DEF HeadInv, CheckInv, SizeInv, DataInv, DelimiterInv, EndInv, GrantInv, Ht!SentIsTaken
  <2>9. CASE taken /\ next = "size"
    <3>1. Ht!Encodings(request) # {}
      BY <2>9
    <3>2. Ht!Chunked(request)
      BY <1>2, <2>2, <3>1
    <3>3. htAt = HeadLen + 0 /\ 0 \in DOMAIN request.chunks /\ request.chunks[0] = 0
      BY <1>1, <1>2, <3>2 DEF Ht!Chunked
    <3>4. BodyTo(0)
      <4>1. SubSeq(request.document, 1, 0) = <<>>
        BY SubSeqEmpty
      <4>2. QED
        BY <1>1, <1>2, <4>1 DEF BodyTo
    <3>5. SizeInv'
      BY <1>1, <3>2, <3>3, <3>4, RequestStays DEF SizeInv, BodyTo
    <3>6. QED
      BY <1>1, <2>1, <2>4, <2>7, <2>9, <3>5, RequestStays
      DEF HeadInv, CheckInv, CountedInv, DataInv, DelimiterInv, EndInv, GrantInv, Ht!SentIsTaken
  <2>10. next \in {"size", "body", "refused"}
    BY <2>2
  <2>11. QED
    BY <2>5, <2>6, <2>8, <2>9, <2>10
<1>7. QED
  BY <1>4, <1>5, <1>6

-----------------------------------------------------------------------------
(* The body.                                                               *)

(* What is read next goes on where the body ends.                          *)
LEMMA BodyGrows ==
  ASSUME Ht!Framed(request), Counts, NEW k \in 0..DocLen, BodyTo(k),
         htAt + need <= Len(Ht!stream), k + need <= DocLen,
         \A i \in 1..need : Ht!stream[htAt + i] = request.document[k + i]
  PROVE  body \o SubSeq(Ht!stream, htAt + 1, htAt + need) = SubSeq(request.document, 1, k + need)
<1> DEFINE d == request.document
           s == Ht!stream
           b == htAt + need
           c == k + need
<1>1. PICK T : d \in Seq(T) /\ s \in Seq(T)
  BY StreamTyped
<1>2. /\ htAt \in Nat /\ k \in Nat /\ need \in Nat
      /\ b \in htAt..Len(s) /\ b - htAt = need /\ c \in k..Len(d) /\ c - k = need
      /\ Len(d) \in Nat
  BY StreamFacts DEF Counts, DocLen
<1>3. \A i \in 1..need : s[htAt + i] = d[k + i]
  OBVIOUS
<1> HIDE DEF d, s, b, c
<1> DEFINE x == SubSeq(s, htAt + 1, b)
           y == SubSeq(d, k + 1, c)
<1>4. x \in Seq(T) /\ Len(x) = b - htAt /\ \A i \in 1 .. b - htAt : x[i] = s[htAt + i]
  BY <1>1, <1>2, Piece
<1>5. y \in Seq(T) /\ Len(y) = c - k /\ \A i \in 1 .. c - k : y[i] = d[k + i]
  BY <1>1, <1>2, Piece
<1> HIDE DEF x, y
<1>6. x = y
  <2>1. Len(x) = need /\ Len(y) = need /\ \A i \in 1..need : x[i] = y[i]
    BY <1>2, <1>3, <1>4, <1>5
  <2>2. QED
    BY <1>4, <1>5, <2>1, SeqEqual
<1>7. SubSeq(d, 1, k) \o y = SubSeq(d, 1, c)
  <2>1. 1 \in 1 .. Len(d) + 1 /\ k \in 1 - 1 .. Len(d)
    BY <1>2
  <2>2. QED
    BY <1>1, <1>2, <2>1, ConcatAdjacentSubSeq DEF y
<1>8. QED
  BY <1>6, <1>7 DEF BodyTo, x, d, s, b, c

LEMMA AllOfIt ==
  ASSUME Ht!Framed(request)
  PROVE  SubSeq(request.document, 1, DocLen) = request.document
BY StreamTyped, SubSeqFull DEF DocLen

(* A counted document, and the data of a chunk.                            *)
LEMMA ExactReads ==
  ASSUME ReadInv, Ht!ReadExact
  PROVE  ReadInv'
<1> USE DEF ReadInv
<1>1. /\ UNCHANGED <<request, arrived, cut, head, line_start, granted, disturbed>>
      /\ stage \in {"body", "data"}
  BY DEF Ht!ReadExact, Ht!kept
<1>2. /\ htAt \in Nat /\ arrived \in htAt..Len(Ht!stream) /\ need \in Nat /\ Len(Ht!stream) \in Nat
      /\ HeadLen \in Nat /\ DocLen \in Nat /\ Len(Ht!stream) = HeadLen + FrameLen
      /\ FrameLen \in Nat
  BY StreamFacts DEF Counts
<1>3. ~Ht!Held'
  BY <1>1, RequestStays DEF GrantInv, Ht!Held
<1>4. CASE cut /\ arrived - htAt < need /\ stage' = "failed" /\ UNCHANGED <<htAt, need, body>>
  <2>1. arrived < Len(Ht!stream)
    <3>1. CASE stage = "body"
      <4>1. htAt + need = Len(Ht!stream)
        BY <1>2, <3>1 DEF CountedInv, FrameLen, DocLen
      <4>2. QED
        BY <1>2, <1>4, <4>1
    <3>2. CASE stage = "data"
      <4>1. (htAt < Len(Ht!stream) /\ htAt = arrived) \/ htAt + need <= Len(Ht!stream)
        BY <3>2 DEF DataInv, ChunkFollows
      <4>2. QED
        BY <1>2, <1>4, <4>1
    <3>3. QED
      BY <1>1, <3>1, <3>2
  <2>2. Counts' /\ Ht!SentIsTaken'
    BY <1>1, <1>4, <2>1, RequestStays DEF Counts, Ht!SentIsTaken
  <2>3. QED
    BY <1>1, <1>4, <2>2, OverReads DEF Ht!Over
<1>5. CASE /\ arrived - htAt >= need
           /\ body' = body \o SubSeq(Ht!stream, htAt + 1, htAt + need)
           /\ htAt' = htAt + need /\ need' = 0
           /\ stage' = CASE stage = "data" -> "delimiter"
                         [] stage = "body" /\ request.to = "endpoint" -> "host"
                         [] OTHER -> "done"
  <2>1. Counts'
    <3>1. htAt + need \in 0..arrived
      <4>1. arrived - htAt >= need
        BY <1>5
      <4>2. htAt \in Nat /\ need \in Nat /\ arrived \in Int
        BY <1>2
      <4>3. QED
        BY <4>1, <4>2
    <3>2. QED
      BY <1>1, <1>5, <3>1, RequestStays DEF Counts
  <2>2. CASE stage = "body"
    <3>1. htAt = HeadLen /\ body = <<>> /\ need = DocLen /\ request.framed = request.document
      BY <2>2 DEF CountedInv
    <3>2. htAt + need <= Len(Ht!stream) /\ 0 + need <= DocLen /\ 0 \in 0..DocLen
          /\ \A i \in 1..need : i \in 1..FrameLen /\ 0 + i = i
      BY <1>2, <3>1 DEF FrameLen, DocLen
    <3>3. \A i \in 1..need : Ht!stream[htAt + i] = request.document[0 + i]
      BY <3>1, <3>2, StreamFacts
    <3>4. BodyTo(0)
      BY <3>1, <3>2, SubSeqEmpty DEF BodyTo
    <3>5. body' = SubSeq(request.document, 1, 0 + need)
      BY <1>5, <3>2, <3>3, <3>4, BodyGrows
    <3>6. body' = request.document
      BY <1>2, <3>1, <3>5, AllOfIt
    <3>7. stage' = (IF request.to = "endpoint" THEN "host" ELSE "done")
      BY <1>5, <2>2
    <3>8. QED
      BY <1>1, <2>1, <3>6, <3>7, RequestStays
      DEF HeadInv, CheckInv, CountedInv, SizeInv, DataInv, DelimiterInv, EndInv, GrantInv,
          Ht!SentIsTaken
  <2>3. CASE stage = "data"
    <3>1. request.to = "proxy" /\ Ht!Chunked(request) /\ htAt >= HeadLen
      BY <2>3 DEF DataInv
    <3>2. PICK k \in 0..DocLen : BodyTo(k) /\ ChunkFollows(k)
      BY <1>2, <1>5, <2>3 DEF DataInv
    <3>3. PICK next \in DOMAIN request.chunks :
            EmptyUpTo(htAt + need, next) /\ request.chunks[next] = k + need
      BY <3>2 DEF ChunkFollows
    <3>4. body' = SubSeq(request.document, 1, k + need) /\ k + need \in 0..DocLen
      <4>1. /\ htAt + need <= Len(Ht!stream) /\ k + need <= DocLen
            /\ \A i \in 1..need : Ht!stream[htAt + i] = request.document[k + i]
        BY <3>2 DEF ChunkFollows
      <4>2. body \o SubSeq(Ht!stream, htAt + 1, htAt + need) = SubSeq(request.document, 1, k + need)
        BY <3>2, <4>1, BodyGrows
      <4>3. k + need \in 0..DocLen
        BY <1>2, <4>1
      <4>4. QED
        BY <1>5, <4>2, <4>3, Zenon
    <3>5. htAt' >= HeadLen /\ stage' = "delimiter"
      BY <1>2, <1>5, <2>3, <3>1
    <3>6. EmptyUpTo(htAt, next)' /\ BodyTo(request.chunks[next])'
      BY <1>1, <1>5, <3>3, <3>4, RequestStays DEF BodyTo, EmptyUpTo
    <3>7. DelimiterInv'
      BY <1>1, <3>1, <3>5, <3>6, RequestStays DEF DelimiterInv
    <3>8. QED
      BY <1>1, <1>3, <2>1, <3>5, <3>7, RequestStays
      DEF HeadInv, CheckInv, CountedInv, SizeInv, DataInv, EndInv, GrantInv, Ht!SentIsTaken
  <2>4. QED
    BY <1>1, <2>2, <2>3
<1>6. QED
  BY <1>4, <1>5 DEF Ht!ReadExact, Ht!Goto

(* A chunk: its line ends at q; its data, if it has any, and an empty line *)
(* follow.                                                                 *)
Chunk(p, q) ==
  LET before == request.chunks[p]
      size == request.framed[p + 1][2]
  IN /\ p \in 0..FrameLen /\ before \in 0..DocLen
     /\ q \in p + 1 .. FrameLen /\ request.framed[q] = Ht!LF
     /\ \A i \in p + 1 .. q - 1 : request.framed[i] # Ht!LF
     /\ q - p <= LINE_LIMIT
     /\ request.framed[p + 1][1] = "size" /\ size \in 0 .. DocLen - before
     /\ IF size = 0 THEN before = DocLen
        ELSE /\ q + size <= FrameLen
             /\ \A i \in 1..size : request.framed[q + i] = request.document[before + i]
             /\ \E next \in DOMAIN request.chunks :
                  /\ SubSeq(request.framed, q + size + 1, next) \in Ht!EmptyLines
                  /\ request.chunks[next] = before + size

(* What Chunked says of the chunk at p.                                    *)
LEMMA ChunkAt ==
  ASSUME Ht!Chunked(request), NEW p \in DOMAIN request.chunks
  PROVE  \E q \in 1..FrameLen : Chunk(p, q)
BY DEF Ht!Chunked, Chunk, Ht!FirstLine, FrameLen, DocLen

(* The line of a size: the sender stopped before or in it, it names the    *)
(* end of the document, too much, or the data that follow.                 *)
LEMMA SizeReads ==
  ASSUME Bounds, ReadInv, Ht!ReadSize
  PROVE  ReadInv'
<1> USE DEF ReadInv, Bounds
<1>1. PICK T : Ht!stream \in Seq(T) /\ request.document \in Seq(T)
  BY StreamTyped
<1>2. /\ htAt \in Nat /\ arrived \in htAt..Len(Ht!stream) /\ Len(Ht!stream) \in Nat
      /\ HeadLen \in Nat /\ DocLen \in Nat /\ FrameLen \in Nat
      /\ Len(Ht!stream) = HeadLen + FrameLen
  BY StreamFacts DEF Counts
<1> DEFINE line == Ht!Line(LINE_LIMIT)
           size == IF line # <<>> /\ Head(line)[1] = "size" THEN Head(line)[2] ELSE Ht!NoLength
<1>3. /\ stage = "size" /\ Ht!LineReady(LINE_LIMIT)
      /\ htAt' = htAt + Len(line)
      /\ need' = IF size = Ht!NoLength THEN 0 ELSE size
      /\ stage' = CASE size = Ht!NoLength -> "failed"
                    [] size = 0 -> "trailer"
                    [] size > 0 /\ size > MAX_BODY_BYTES - Len(body) -> "failed"
                    [] OTHER -> "data"
      /\ UNCHANGED <<request, arrived, cut, head, line_start, granted, disturbed, body>>
  BY DEF Ht!ReadSize, Ht!Goto, Ht!kept
<1>4. request.to = "proxy" /\ Ht!Chunked(request) /\ ~Ht!Held'
  BY <1>3, RequestStays DEF SizeInv, GrantInv, Ht!Held
<1>5. PICK p \in DOMAIN request.chunks : htAt = HeadLen + p /\ BodyTo(request.chunks[p])
  BY <1>3 DEF SizeInv
<1>6. PICK q \in 1..FrameLen : Chunk(p, q)
  BY <1>4, ChunkAt
<1>7. /\ p \in Nat /\ q \in Nat /\ p < q /\ q <= FrameLen /\ q - p <= LINE_LIMIT
      /\ LINE_LIMIT \in Nat
  BY <1>2, <1>6 DEF Chunk
<1>8. request.framed[q] = Ht!LF /\ \A i \in p + 1 .. q - 1 : request.framed[i] # Ht!LF
  BY <1>6 DEF Chunk
<1>9. htAt = HeadLen + p /\ HeadLen \in Nat /\ FrameLen \in Nat
  BY <1>2, <1>5
<1> DEFINE before == request.chunks[p]
           told == request.framed[p + 1][2]
<1>10. before \in 0..DocLen /\ told \in 0 .. DocLen - before
  BY <1>6 DEF Chunk
<1>11. request.framed[p + 1][1] = "size"
  BY <1>6 DEF Chunk
<1>12. PICK m \in 0 .. arrived - htAt : Reads(LINE_LIMIT, m)
  BY <1>1, LineRead
<1> HIDE DEF line
<1>13. Len(line) = m /\ line = SubSeq(Ht!stream, htAt + 1, htAt + m) /\ m \in Nat
  <2>1. Reads(LINE_LIMIT, m) /\ line = Ht!Line(LINE_LIMIT)
    BY <1>12 DEF line
  <2>2. /\ Ht!Line(LINE_LIMIT) = SubSeq(Ht!stream, htAt + 1, htAt + m)
        /\ Len(Ht!Line(LINE_LIMIT)) = m
    BY <2>1 DEF Reads
  <2>3. m \in Nat
    BY <1>2
  <2>4. QED
    BY <2>1, <2>2, <2>3
<1>14. htAt' = htAt + m
  BY <1>3, <1>13
<1>15. /\ \A i \in htAt + 1 .. htAt + m - 1 : Ht!stream[i] # Ht!LF
       /\ \/ m > 0 /\ Ht!stream[htAt + m] = Ht!LF
          \/ m = LINE_LIMIT \/ (cut /\ htAt + m = arrived)
  BY <1>3, <1>12 DEF Reads, NoLineEnd
<1>16. /\ Ht!stream[HeadLen + q] = Ht!LF /\ HeadLen + q = htAt + (q - p)
       /\ HeadLen \in Nat /\ p \in Nat /\ q \in Nat /\ q - p \in Nat /\ q - p > 0
       /\ htAt = HeadLen + p /\ LINE_LIMIT \in Nat
  <2>1. Ht!stream[HeadLen + q] = request.framed[q]
    BY StreamFacts
  <2>2. HeadLen + q = htAt + (q - p) /\ q - p \in Nat /\ q - p > 0
    BY <1>7, <1>9
  <2>3. QED
    BY <1>7, <1>8, <1>9, <2>1, <2>2
<1>17. m <= q - p
  <2>1. HeadLen + q \notin htAt + 1 .. htAt + m - 1
    BY <1>15, <1>16
  <2>2. htAt \in Nat /\ m \in Nat
    BY <1>2, <1>13
  <2>3. QED
    BY <1>16, <2>1, <2>2
<1>18. m < q - p => cut /\ htAt + m = arrived /\ arrived < Len(Ht!stream)
  <2> SUFFICES ASSUME m < q - p PROVE cut /\ htAt + m = arrived /\ arrived < Len(Ht!stream)
    OBVIOUS
  <2>1. m \in Nat
    BY <1>13
  <2>2. ~(m > 0 /\ Ht!stream[htAt + m] = Ht!LF)
    <3> SUFFICES ASSUME m > 0 PROVE Ht!stream[htAt + m] # Ht!LF
      OBVIOUS
    <3>1. /\ p + m \in p + 1 .. q - 1 /\ HeadLen + (p + m) = htAt + m /\ p + m \in 1..FrameLen
      BY <1>7, <1>9, <2>1
    <3>2. Ht!stream[HeadLen + (p + m)] = request.framed[p + m]
      BY <3>1, StreamFacts
    <3>3. QED
      BY <1>8, <3>1, <3>2
  <2>3. m # LINE_LIMIT
    BY <1>7, <2>1
  <2>4. cut /\ htAt + m = arrived
    BY <1>15, <2>2, <2>3
  <2>5. htAt + m < Len(Ht!stream)
    <3>1. /\ p \in Nat /\ q \in Nat /\ q <= FrameLen /\ m < q - p /\ m \in Nat
          /\ htAt = HeadLen + p /\ HeadLen \in Nat /\ FrameLen \in Nat
      BY <1>7, <1>9, <1>13, <2>1
    <3>2. Len(Ht!stream) = HeadLen + FrameLen
      BY <1>2
    <3>3. QED
      BY <3>1, <3>2
  <2>6. QED
    BY <2>4, <2>5
<1>19. Len(body) = before
  <2>1. 0 \in Nat /\ before \in 0..Len(request.document) /\ 0 + 1 = 1 /\ before - 0 = before
    BY <1>10 DEF DocLen
  <2>2. Len(SubSeq(request.document, 0 + 1, before)) = before - 0
    BY <1>1, <2>1, Piece
  <2>3. QED
    BY <1>5, <2>1, <2>2 DEF BodyTo
<1>20. htAt + m \in 0..arrived /\ arrived \in Nat
  BY <1>2, <1>12
<1>21. CASE m = 0
  <2>1. line = <<>>
    <3>1. SubSeq(Ht!stream, htAt + 1, htAt + m) = <<>>
      BY <1>2, <1>21, SubSeqEmpty
    <3>2. QED
      BY <1>13, <3>1
  <2>2. size = Ht!NoLength
    BY <2>1
  <2> HIDE DEF size
  <2>3. stage' = "failed" /\ need' = 0
    BY <1>3, <2>2 DEF Ht!NoLength
  <2>4. cut /\ arrived < Len(Ht!stream)
    BY <1>16, <1>18, <1>21
  <2>5. Counts'
    BY <1>3, <1>14, <1>20, <2>3, RequestStays DEF Counts
  <2>6. Ht!SentIsTaken'
    BY <1>3, <2>3, <2>4, RequestStays DEF Ht!SentIsTaken
  <2>7. QED
    BY <1>3, <2>3, <2>5, <2>6, OverReads DEF Ht!Over
<1>22. CASE m # 0
  <2>1. line # <<>> /\ Head(line) = request.framed[p + 1]
    <3>1. htAt + 1 \in 1..Len(Ht!stream) /\ htAt + m \in htAt + 1 .. Len(Ht!stream)
      <4>1. m >= 1
        BY <1>13, <1>22
      <4>2. QED
        BY <1>2, <1>20, <4>1
    <3>2. Head(line) = Ht!stream[htAt + 1]
      BY <1>1, <1>13, <3>1, HeadTailOfSubSeq
    <3>3. p + 1 \in 1..FrameLen /\ HeadLen + (p + 1) = htAt + 1
      BY <1>7, <1>9
    <3>4. Ht!stream[htAt + 1] = request.framed[p + 1]
      BY <3>3, StreamFacts
    <3>5. line # <<>>
      <4>1. Len(<<>>) = 0
        OBVIOUS
      <4>2. QED
        BY <1>13, <1>22, <4>1
    <3>6. QED
      BY <3>2, <3>4, <3>5
  <2>2. size = told
    BY <1>11, <2>1
  <2> HIDE DEF size, told
  <2>3. told \in Nat /\ told # Ht!NoLength /\ before + told <= DocLen
    BY <1>2, <1>10 DEF Ht!NoLength
  <2>4. /\ need' = told
        /\ stage' = CASE told = 0 -> "trailer"
                      [] told > 0 /\ told > MAX_BODY_BYTES - before -> "failed"
                      [] OTHER -> "data"
    BY <1>3, <1>19, <2>2, <2>3
  <2>5. Counts'
    BY <1>3, <1>14, <1>20, <2>3, <2>4, RequestStays DEF Counts
  <2>6. CASE told = 0
    <3>1. before = DocLen
      BY <1>6, <2>6 DEF Chunk, told
    <3>2. body' = request.document
      BY <1>3, <1>5, <3>1, AllOfIt DEF BodyTo
    <3>3. QED
      BY <1>3, <1>4, <2>4, <2>5, <2>6, <3>2, RequestStays
      DEF HeadInv, CheckInv, CountedInv, SizeInv, DataInv, DelimiterInv, EndInv, GrantInv,
          Ht!SentIsTaken
  <2>7. CASE told > 0 /\ told > MAX_BODY_BYTES - before
    <3>1. ~(DocLen <= MAX_BODY_BYTES)
      BY <1>2, <1>10, <2>3, <2>7
    <3>2. ~Ht!Acceptable
      BY <3>1 DEF Ht!Acceptable, DocLen
    <3>3. Ht!SentIsTaken'
      BY <1>3, <3>2, RequestStays DEF Ht!SentIsTaken
    <3>4. stage' = "failed"
      BY <2>4, <2>7
    <3>5. QED
      BY <1>3, <2>5, <3>3, <3>4, OverReads DEF Ht!Over
  <2>8. CASE told > 0 /\ ~(told > MAX_BODY_BYTES - before)
    <3>1. stage' = "data"
      BY <2>4, <2>8
    <3>2. BodyTo(before)' /\ before \in 0..DocLen
      BY <1>3, <1>5, RequestStays DEF BodyTo
    <3>3. htAt' >= HeadLen
      <4>1. m \in Nat /\ p \in Nat
        BY <1>7, <1>13
      <4>2. QED
        BY <1>9, <1>14, <4>1
    <3>4. CASE m < q - p
      <4>1. cut' /\ htAt' = arrived' /\ htAt' < Len(Ht!stream) /\ need' > 0
        BY <1>3, <1>14, <1>18, <2>4, <2>8, <3>4
      <4>2. DataInv'
        BY <1>3, <1>4, <3>1, <3>2, <3>3, <4>1, RequestStays DEF DataInv
      <4>3. QED
        BY <1>3, <1>4, <2>5, <3>1, <4>2, RequestStays
        DEF HeadInv, CheckInv, CountedInv, SizeInv, DelimiterInv, EndInv, GrantInv,
            Ht!SentIsTaken
    <3>5. CASE m = q - p
      <4>1. htAt' = HeadLen + q
        BY <1>14, <1>16, <3>5
      <4>2. /\ q + told <= FrameLen
            /\ \A i \in 1..told : request.framed[q + i] = request.document[before + i]
        BY <1>6, <2>3, <2>8 DEF Chunk, told
      <4>3. PICK next \in DOMAIN request.chunks :
              /\ SubSeq(request.framed, q + told + 1, next) \in Ht!EmptyLines
              /\ request.chunks[next] = before + told
        BY <1>6, <2>3, <2>8 DEF Chunk, told
      <4>4. htAt' + told <= Len(Ht!stream)
        <5>1. q + told <= FrameLen
          BY <4>2
        <5>2. Len(Ht!stream) = HeadLen + FrameLen /\ q \in Nat /\ told \in Nat
          BY <1>2, <1>7, <2>3
        <5> HIDE DEF told
        <5>3. QED
          BY <1>9, <4>1, <5>1, <5>2
      <4>5. ASSUME NEW i \in 1..told
            PROVE  Ht!stream[htAt' + i] = request.document[before + i]
        <5>1. q + i \in 1..FrameLen /\ HeadLen + (q + i) = htAt' + i
          BY <1>7, <1>9, <2>3, <4>1, <4>2, SMTT(20)
        <5>2. Ht!stream[HeadLen + (q + i)] = request.framed[q + i]
          BY <5>1, StreamFacts
        <5>3. QED
          BY <4>2, <5>1, <5>2
      <4>6. EmptyUpTo(htAt' + told, next)
        <5>1. (htAt' + told) - HeadLen + 1 = q + told + 1
          BY <1>16, <2>3, <4>1
        <5>2. SubSeq(request.framed, (htAt' + told) - HeadLen + 1, next) \in Ht!EmptyLines
          BY <4>3, <5>1
        <5>3. QED
          BY <5>2 DEF EmptyUpTo
      <4>7. ChunkFollows(before)'
        <5>1. EmptyUpTo(htAt + need, next)'
          BY <1>3, <2>4, <4>6, RequestStays DEF EmptyUpTo
        <5>2. QED
          BY <1>3, <2>3, <2>4, <4>3, <4>4, <4>5, <5>1, RequestStays DEF ChunkFollows
      <4>8. DataInv'
        BY <1>3, <1>4, <3>1, <3>2, <3>3, <4>7, RequestStays DEF DataInv
      <4>9. QED
        BY <1>3, <1>4, <2>5, <3>1, <4>8, RequestStays
        DEF HeadInv, CheckInv, CountedInv, SizeInv, DelimiterInv, EndInv, GrantInv,
            Ht!SentIsTaken
    <3>6. QED
      BY <1>7, <1>13, <1>17, <3>4, <3>5
  <2>9. QED
    BY <1>10, <2>3, <2>6, <2>7, <2>8
<1>23. QED
  BY <1>21, <1>22

(* An empty line of the frame, as it stands in the stream.                 *)
LEMMA EmptyInStream ==
  ASSUME Ht!Framed(request), Ht!Chunked(request), NEW from \in HeadLen..Len(Ht!stream),
         NEW next \in DOMAIN request.chunks, EmptyUpTo(from, next)
  PROVE  \/ /\ from + 1 <= Len(Ht!stream) /\ Ht!stream[from + 1] = Ht!LF
            /\ HeadLen + next = from + 1
         \/ /\ from + 2 <= Len(Ht!stream) /\ Ht!stream[from + 1] = Ht!CR /\ Ht!stream[from + 2] = Ht!LF
            /\ HeadLen + next = from + 2
<1>1. PICK T : request.framed \in Seq(T)
  BY StreamTyped
<1>2. /\ HeadLen \in Nat /\ FrameLen \in Nat /\ Len(Ht!stream) = HeadLen + FrameLen
      /\ from \in Nat /\ next \in 0..FrameLen
  BY StreamFacts DEF Ht!Chunked, FrameLen
<1> DEFINE f == from - HeadLen
           s == SubSeq(request.framed, f + 1, next)
<1>3. f \in Nat /\ f <= FrameLen /\ from = HeadLen + f
  BY <1>2
<1>4. s \in Ht!EmptyLines
  BY DEF EmptyUpTo
<1> HIDE DEF f, s
<1>5. Len(s) \in {1, 2}
  <2>1. Len(Ht!CRLF) = 2 /\ Len(<<Ht!LF>>) = 1
    BY DEF Ht!CRLF
  <2>2. QED
    BY <1>4, <2>1 DEF Ht!EmptyLines
<1>6. f <= next
  <2>1. ASSUME next < f + 1 PROVE FALSE
    <3>1. s = <<>>
      BY <1>2, <1>3, <2>1, SubSeqEmpty DEF s
    <3>2. Len(<<>>) = 0
      OBVIOUS
    <3>3. QED
      BY <1>5, <3>1, <3>2
  <2>2. QED
    BY <1>2, <1>3, <2>1
<1>7. Len(s) = next - f /\ \A i \in 1 .. next - f : s[i] = request.framed[f + i]
  <2>1. next \in f..Len(request.framed)
    BY <1>2, <1>3, <1>6 DEF FrameLen
  <2>2. QED
    BY <1>1, <1>3, <2>1, Piece DEF s
<1>8. ASSUME NEW i \in 1 .. next - f PROVE s[i] = Ht!stream[from + i]
  <2>1. f + i \in 1..FrameLen /\ HeadLen + (f + i) = from + i
    BY <1>2, <1>3, <1>6
  <2>2. Ht!stream[HeadLen + (f + i)] = request.framed[f + i]
    BY <2>1, StreamFacts
  <2>3. QED
    BY <1>7, <2>1, <2>2
<1>9. CASE s = <<Ht!LF>>
  <2>1. next - f = 1 /\ s[1] = Ht!LF
    BY <1>7, <1>9
  <2>2. Ht!stream[from + 1] = Ht!LF /\ HeadLen + next = from + 1
    BY <1>2, <1>3, <1>8, <2>1
  <2>3. QED
    BY <1>2, <2>2
<1>10. CASE s = Ht!CRLF
  <2>1. Len(Ht!CRLF) = 2 /\ Ht!CRLF[1] = Ht!CR /\ Ht!CRLF[2] = Ht!LF
    BY DEF Ht!CRLF
  <2>2. next - f = 2 /\ s[1] = Ht!CR /\ s[2] = Ht!LF
    BY <1>7, <1>10, <2>1, Zenon
  <2>3. Ht!stream[from + 1] = Ht!CR /\ Ht!stream[from + 2] = Ht!LF /\ HeadLen + next = from + 2
    BY <1>2, <1>3, <1>8, <2>2
  <2>4. QED
    BY <1>2, <2>3
<1>11. QED
  BY <1>4, <1>9, <1>10 DEF Ht!EmptyLines

(* The empty line behind the data: read whole, or cut off.                 *)
LEMMA DelimiterReads ==
  ASSUME Bounds, ReadInv, Ht!ReadDelimiter
  PROVE  ReadInv'
<1> USE DEF ReadInv, Bounds
<1>1. PICK T : Ht!stream \in Seq(T)
  BY StreamTyped
<1>2. /\ htAt \in Nat /\ arrived \in htAt..Len(Ht!stream) /\ arrived \in Nat /\ Len(Ht!stream) \in Nat
      /\ HeadLen \in Nat
  BY StreamFacts DEF Counts
<1> DEFINE line == Ht!Line(4)
<1>3. /\ stage = "delimiter" /\ Ht!LineReady(4) /\ htAt' = htAt + Len(line)
      /\ stage' = IF line \in Ht!EmptyLines THEN "size" ELSE "failed"
      /\ UNCHANGED <<request, arrived, cut, head, line_start, granted, disturbed, need, body>>
  BY DEF Ht!ReadDelimiter, Ht!Goto, Ht!kept
<1>4. request.to = "proxy" /\ Ht!Chunked(request) /\ htAt >= HeadLen /\ ~Ht!Held'
  BY <1>3, RequestStays DEF DelimiterInv, GrantInv, Ht!Held
<1>5. PICK next \in DOMAIN request.chunks : EmptyUpTo(htAt, next) /\ BodyTo(request.chunks[next])
  BY <1>3 DEF DelimiterInv
<1>6. PICK m \in 0 .. arrived - htAt : Reads(4, m)
  BY <1>1, LineRead
<1>7. line \in Ht!EmptyLines <=>
        \/ m = 1 /\ Ht!stream[htAt + 1] = Ht!LF
        \/ m = 2 /\ Ht!stream[htAt + 1] = Ht!CR /\ Ht!stream[htAt + 2] = Ht!LF
  BY <1>1, <1>6, EmptyRead
<1> HIDE DEF line
<1>8. /\ htAt' = htAt + m /\ m \in Nat /\ m <= 4 /\ htAt + m <= arrived
      /\ \A i \in htAt + 1 .. htAt + m - 1 : Ht!stream[i] # Ht!LF
      /\ \/ m > 0 /\ Ht!stream[htAt + m] = Ht!LF
         \/ m = 4 \/ (cut /\ htAt + m = arrived)
  <2>1. m \in Nat /\ htAt + m <= arrived
    BY <1>2
  <2>2. Reads(4, m) /\ Ht!LineReady(4) /\ line = Ht!Line(4)
    BY <1>3, <1>6 DEF line
  <2>3. QED
    BY <1>3, <2>1, <2>2 DEF Reads, NoLineEnd
<1>9. Counts'
  <2>1. htAt + m \in 0..arrived
    BY <1>2, <1>8
  <2>2. QED
    BY <1>3, <1>8, <2>1, RequestStays DEF Counts
<1>10. ASSUME stage' = "size", htAt' = HeadLen + next PROVE ReadInv'
  <2>1. BodyTo(request.chunks[next])'
    BY <1>3, <1>5, RequestStays DEF BodyTo
  <2>2. SizeInv'
    BY <1>3, <1>4, <1>10, <2>1, RequestStays DEF SizeInv
  <2>3. QED
    BY <1>3, <1>4, <1>9, <1>10, <2>2, RequestStays
    DEF HeadInv, CheckInv, CountedInv, DataInv, DelimiterInv, EndInv, GrantInv, Ht!SentIsTaken
<1>11. ASSUME stage' = "failed", cut, arrived < Len(Ht!stream) PROVE ReadInv'
  <2>1. Ht!SentIsTaken'
    BY <1>3, <1>11, RequestStays DEF Ht!SentIsTaken
  <2>2. QED
    BY <1>3, <1>9, <1>11, <2>1, OverReads DEF Ht!Over
<1>12. htAt \in HeadLen..Len(Ht!stream)
  BY <1>2, <1>4
<1>13. CASE /\ htAt + 1 <= Len(Ht!stream) /\ Ht!stream[htAt + 1] = Ht!LF
            /\ HeadLen + next = htAt + 1
  <2>1. m <= 1
    <3>1. htAt + 1 \notin htAt + 1 .. htAt + m - 1
      BY <1>8, <1>13
    <3>2. QED
      BY <1>2, <1>8, <3>1
  <2>2. CASE m = 1
    BY <1>3, <1>7, <1>8, <1>10, <1>13, <2>2
  <2>3. CASE m = 0
    <3>1. cut /\ htAt = arrived /\ line \notin Ht!EmptyLines
      BY <1>2, <1>7, <1>8, <2>3
    <3>2. QED
      BY <1>2, <1>3, <1>11, <1>13, <3>1
  <2>4. QED
    BY <1>8, <2>1, <2>2, <2>3
<1>14. CASE /\ htAt + 2 <= Len(Ht!stream) /\ Ht!stream[htAt + 1] = Ht!CR /\ Ht!stream[htAt + 2] = Ht!LF
            /\ HeadLen + next = htAt + 2
  <2>1. m <= 2
    <3>1. htAt + 2 \notin htAt + 1 .. htAt + m - 1
      BY <1>8, <1>14
    <3>2. QED
      BY <1>2, <1>8, <3>1
  <2>2. CASE m = 2
    BY <1>3, <1>7, <1>8, <1>10, <1>14, <2>2
  <2>3. CASE m # 2
    <3>1. Ht!stream[htAt + 1] # Ht!LF
      BY <1>14 DEF Ht!CR, Ht!LF
    <3>2. cut /\ htAt + m = arrived /\ line \notin Ht!EmptyLines
      BY <1>2, <1>7, <1>8, <2>1, <2>3, <3>1
    <3>3. arrived < Len(Ht!stream)
      BY <1>2, <1>8, <1>14, <2>1, <2>3, <3>2
    <3>4. QED
      BY <1>3, <1>11, <3>2, <3>3
  <2>4. QED
    BY <2>2, <2>3
<1>15. QED
  BY <1>4, <1>5, <1>12, <1>13, <1>14, EmptyInStream

(* The lines behind the last chunk add nothing to the body.                *)
LEMMA TrailerReads ==
  ASSUME Bounds, ReadInv, Ht!ReadTrailer
  PROVE  ReadInv'
<1> USE DEF ReadInv, Bounds
<1>1. PICK T : Ht!stream \in Seq(T)
  BY StreamTyped
<1>2. stage = "trailer" /\ stage' \in {"done", "trailer"}
      /\ htAt' = htAt + Len(Ht!Line(MAX_HEAD_BYTES))
      /\ UNCHANGED <<request, arrived, cut, head, line_start, granted, disturbed, need, body>>
  BY DEF Ht!ReadTrailer, Ht!Goto, Ht!kept
<1>3. Counts'
  <2>1. PICK m \in 0 .. arrived - htAt : Reads(MAX_HEAD_BYTES, m)
    BY <1>1, LineRead
  <2>2. htAt' = htAt + m
    BY <1>2, <2>1 DEF Reads
  <2>3. htAt + m \in 0..arrived
    BY StreamFacts DEF Counts
  <2>4. QED
    BY <1>2, <2>2, <2>3, RequestStays DEF Counts
<1>4. body' = request.document /\ request.to = "proxy" /\ ~Ht!Held'
  BY <1>2, RequestStays DEF EndInv, GrantInv, Ht!Held
<1>5. QED
  BY <1>2, <1>3, <1>4, RequestStays
  DEF HeadInv, CheckInv, CountedInv, SizeInv, DataInv, DelimiterInv, EndInv, GrantInv,
      Ht!SentIsTaken

-----------------------------------------------------------------------------
LEMMA StepReads == Bounds /\ ReadInv /\ [Ht!Next]_(Ht!vars) => ReadInv'
<1> SUFFICES ASSUME Bounds, ReadInv, [Ht!Next]_(Ht!vars) PROVE ReadInv'
  OBVIOUS
<1>1. CASE Ht!Arrive \/ Ht!Cut \/ Ht!Timeout
  BY <1>1, ArriveReads, CutReads, TimeoutReads
<1>2. CASE Ht!ReadPiece \/ Ht!ReadLine
  BY <1>2, PieceReads, LineReads
<1>3. CASE Ht!CheckAtEndpoint \/ Ht!CheckAtProxy \/ Ht!CheckHost
  BY <1>3, EndpointReads, ProxyReads, HostReads
<1>4. CASE Ht!ReadExact \/ Ht!ReadSize \/ Ht!ReadDelimiter \/ Ht!ReadTrailer
  BY <1>4, ExactReads, SizeReads, DelimiterReads, TrailerReads
<1>5. CASE Ht!Answer
  BY <1>5, AnswerReads DEF Ht!Answer
<1>6. CASE UNCHANGED Ht!vars
  BY <1>6, AnswerReads DEF Ht!vars
<1>7. QED
  BY <1>1, <1>2, <1>3, <1>4, <1>5, <1>6 DEF Ht!Next

(* However a request is cut into pieces, and whatever line ends its        *)
(* document has, the receiver takes for the body exactly the document that *)
(* was sent (BodyIsWhole); it turns a request down only when something is  *)
(* wrong with it, when all of it never arrives, when a deadline passes or  *)
(* when no request is admitted (SentIsTaken); and it never waits for a     *)
(* body whose sender waits for 100-continue (NoStandOff).  For documents   *)
(* of any length, counted or in any number of chunks (read_head,           *)
(* read_body, read_chunked_body, send_continue).                           *)
THEOREM DocumentsAreTaken ==
  ASSUME Bounds, \A r \in Requests : Ht!Framed(r)
  PROVE  Ht!Spec => [](Ht!BodyIsWhole /\ Ht!SentIsTaken /\ Ht!NoStandOff)
<1>1. Ht!Init => ReadInv
  BY InitReads
<1>2. ReadInv /\ [Ht!Next]_(Ht!vars) => ReadInv'
  BY StepReads
<1>3. ReadInv => Ht!BodyIsWhole /\ Ht!SentIsTaken /\ Ht!NoStandOff
  BY DEF ReadInv, EndInv, GrantInv, Ht!BodyIsWhole, Ht!NoStandOff
<1>4. QED
  BY <1>1, <1>2, <1>3, PTL DEF Ht!Spec

-----------------------------------------------------------------------------
(* The answer of the endpoint.                                             *)

(* The proxy reads enough for the longest message and a head of the        *)
(* endpoint.                                                               *)
AnswerLimits ==
  /\ {MAX_RESPONSE, RESPONSE_HEAD} \subseteq Nat
  /\ Len(Ht!ResponseHead(200)) < RESPONSE_HEAD
  /\ \A a \in Answers : a \in Seq({a[i] : i \in DOMAIN a})

(* What the endpoint sends.                                                *)
Response(status, a) == Ht!ResponseHead(status) \o a

(* The head of an answer, token by token, and the body behind it.          *)
LEMMA HeadOfAnswer ==
  ASSUME NEW status, NEW A, NEW a \in Seq(A)
  PROVE  LET r == Response(status, a) IN
         /\ \E T : r \in Seq(T)
         /\ Len(Ht!ResponseHead(status)) = 8 /\ Len(r) = 8 + Len(a) /\ Len(a) \in Nat
         /\ r[1] = <<"status", status>> /\ r[2] = Ht!CR /\ r[3] = Ht!LF
         /\ r[4] = Ht!Header("content-type", "ipp")
         /\ r[5] = Ht!CR /\ r[6] = Ht!LF /\ r[7] = Ht!CR /\ r[8] = Ht!LF
         /\ SubSeq(r, 9, Len(r)) = a
<1> DEFINE h == Ht!ResponseHead(status)
           B == {h[i] : i \in 1..8}
           T == A \cup B
           r == Response(status, a)
<1>1. /\ Len(h) = 8 /\ h \in Seq(B)
      /\ h[1] = <<"status", status>> /\ h[2] = Ht!CR /\ h[3] = Ht!LF
      /\ h[4] = Ht!Header("content-type", "ipp")
      /\ h[5] = Ht!CR /\ h[6] = Ht!LF /\ h[7] = Ht!CR /\ h[8] = Ht!LF
  BY DEF Ht!ResponseHead
<1>2. h \in Seq(T) /\ a \in Seq(T)
  <2>1. A \subseteq T /\ B \subseteq T
    OBVIOUS
  <2> HIDE DEF T, B, h
  <2>2. QED
    BY <1>1, <2>1, SeqMonotonic
<1> HIDE DEF h, T, B
<1>3. /\ r \in Seq(T) /\ Len(r) = Len(h) + Len(a) /\ Len(a) \in Nat
      /\ \A i \in 1 .. Len(h) + Len(a) : r[i] = IF i <= Len(h) THEN h[i] ELSE a[i - Len(h)]
  BY <1>2, ConcatProperties, LenProperties DEF h, Response
<1> HIDE DEF r
<1>4. \A i \in 1..8 : r[i] = h[i]
  <2>1. \A i \in 1..8 : i \in 1 .. Len(h) + Len(a) /\ i <= Len(h)
    BY <1>1, <1>3
  <2>2. QED
    BY <1>3, <2>1
<1>5. SubSeq(r, 9, Len(r)) = a
  <2> DEFINE s == SubSeq(r, 8 + 1, Len(r))
  <2>1. 8 \in Nat /\ Len(r) \in 8..Len(r) /\ Len(r) - 8 = Len(a)
    BY <1>1, <1>3
  <2>2. s \in Seq(T) /\ Len(s) = Len(r) - 8 /\ \A i \in 1 .. Len(r) - 8 : s[i] = r[8 + i]
    BY <1>3, <2>1, Piece
  <2>3. ASSUME NEW i \in 1..Len(a) PROVE r[8 + i] = a[i]
    <3>1. 8 + i \in 1 .. Len(h) + Len(a) /\ ~(8 + i <= Len(h)) /\ (8 + i) - Len(h) = i
      BY <1>1, <1>3
    <3>2. QED
      BY <1>3, <3>1
  <2> HIDE DEF s
  <2>4. s = a
    BY <1>2, <2>1, <2>2, <2>3, SeqEqual
  <2>5. QED
    BY <2>4 DEF s
<1>6. Len(r) = 8 + Len(a)
  BY <1>1, <1>3
<1>7. QED
  BY <1>1, <1>3, <1>4, <1>5, <1>6 DEF h, r

(* The proxy finds the end of the head where it is; a body that was cut at *)
(* the limit is too long to be a message.                                  *)
LEMMA AnswerComes ==
  ASSUME AnswerLimits, NEW status \in {200, 400}, NEW A, NEW a \in Seq(A)
  PROVE  LET o == Ht!Outcome(Ht!Taken(Response(status, a))) IN
          o = <<"error">> \/ (o = <<"message", a>> /\ status = 200)
<1> DEFINE r == Response(status, a)
           limit == MAX_RESPONSE + RESPONSE_HEAD
           n == IF limit < Len(r) THEN limit ELSE Len(r)
           t == SubSeq(r, 1, n)
<1>1. /\ Len(r) = 8 + Len(a) /\ Len(a) \in Nat
      /\ r[1] = <<"status", status>> /\ r[2] = Ht!CR /\ r[3] = Ht!LF
      /\ r[4] = Ht!Header("content-type", "ipp")
      /\ r[5] = Ht!CR /\ r[6] = Ht!LF /\ r[7] = Ht!CR /\ r[8] = Ht!LF
      /\ SubSeq(r, 9, Len(r)) = a /\ \E T : r \in Seq(T)
  BY HeadOfAnswer
<1>2. PICK T : r \in Seq(T)
  BY <1>1
<1>3. MAX_RESPONSE \in Nat /\ RESPONSE_HEAD \in Nat /\ RESPONSE_HEAD > 8
  <2>1. Len(Ht!ResponseHead(200)) = 8
    BY DEF Ht!ResponseHead
  <2>2. QED
    BY <2>1 DEF AnswerLimits
<1> HIDE DEF r
<1>4. n \in 8..Len(r) /\ (n = Len(r) \/ n = MAX_RESPONSE + RESPONSE_HEAD)
  BY <1>1, <1>3
<1>5. Ht!Taken(r) = t
  BY DEF Ht!Taken, Ht!First
<1> HIDE DEF n
<1>6. t \in Seq(T) /\ Len(t) = n /\ \A i \in 1..n : t[i] = r[i]
  <2>1. 0 \in Nat /\ n \in 0..Len(r) /\ 0 + 1 = 1 /\ n - 0 = n /\ \A i \in Int : 0 + i = i
    BY <1>4
  <2>2. /\ SubSeq(r, 0 + 1, n) \in Seq(T) /\ Len(SubSeq(r, 0 + 1, n)) = n - 0
        /\ \A i \in 1 .. n - 0 : SubSeq(r, 0 + 1, n)[i] = r[0 + i]
    BY <1>2, <2>1, Piece
  <2>3. QED
    BY <2>1, <2>2
<1> HIDE DEF t
<1>7. /\ t[1] = <<"status", status>> /\ t[2] = Ht!CR /\ t[3] = Ht!LF
      /\ t[4] = Ht!Header("content-type", "ipp")
      /\ t[5] = Ht!CR /\ t[6] = Ht!LF /\ t[7] = Ht!CR /\ t[8] = Ht!LF
  BY <1>1, <1>4, <1>6
<1>8. /\ Ht!CRLF \o Ht!CRLF \in Seq({Ht!CR, Ht!LF}) /\ Len(Ht!CRLF \o Ht!CRLF) = 4
      /\ (Ht!CRLF \o Ht!CRLF)[1] = Ht!CR /\ (Ht!CRLF \o Ht!CRLF)[2] = Ht!LF
      /\ (Ht!CRLF \o Ht!CRLF)[3] = Ht!CR /\ (Ht!CRLF \o Ht!CRLF)[4] = Ht!LF
  <2>1. Ht!CRLF \in Seq({Ht!CR, Ht!LF}) /\ Len(Ht!CRLF) = 2 /\ Ht!CRLF[1] = Ht!CR /\ Ht!CRLF[2] = Ht!LF
    BY DEF Ht!CRLF
  <2> DEFINE S == {Ht!CR, Ht!LF}
             x == Ht!CRLF
             c == x \o x
  <2>2. /\ c \in Seq({Ht!CR, Ht!LF}) /\ Len(c) = Len(Ht!CRLF) + Len(Ht!CRLF)
        /\ \A i \in 1 .. Len(Ht!CRLF) + Len(Ht!CRLF) :
             c[i] = IF i <= Len(Ht!CRLF) THEN Ht!CRLF[i] ELSE Ht!CRLF[i - Len(Ht!CRLF)]
    <3>1. x \in Seq(S)
      BY <2>1
    <3> HIDE DEF S, x
    <3>2. /\ c \in Seq(S) /\ Len(c) = Len(x) + Len(x)
          /\ \A i \in 1 .. Len(x) + Len(x) :
               c[i] = IF i <= Len(x) THEN x[i] ELSE x[i - Len(x)]
      BY <3>1, ConcatProperties
    <3>3. QED
      BY <3>2 DEF S, x
  <2> HIDE DEF c
  <2>3. c[1] = Ht!CRLF[1] /\ c[2] = Ht!CRLF[2] /\ c[3] = Ht!CRLF[1] /\ c[4] = Ht!CRLF[2]
    BY <2>1, <2>2
  <2>4. QED
    BY <2>1, <2>2, <2>3 DEF c
<1>9. ASSUME NEW i \in 4..n
      PROVE  LET s == SubSeq(t, i - 3, i)
             IN /\ s \in Seq(T) /\ Len(s) = 4
                /\ s[1] = t[i - 3] /\ s[2] = t[i - 2] /\ s[3] = t[i - 1] /\ s[4] = t[i]
  <2> DEFINE b == i - 4
             s == SubSeq(t, b + 1, i)
  <2>1. b \in Nat /\ i \in b..Len(t) /\ i - b = 4 /\ b + 1 = i - 3
        /\ b + 2 = i - 2 /\ b + 3 = i - 1 /\ b + 4 = i
    BY <1>4, <1>6
  <2> HIDE DEF b
  <2>2. s \in Seq(T) /\ Len(s) = i - b /\ \A j \in 1 .. i - b : s[j] = t[b + j]
    <3>1. t \in Seq(T)
      BY <1>6
    <3>2. QED
      BY <2>1, <3>1, Piece DEF s
  <2>3. s = SubSeq(t, i - 3, i)
    BY <2>1
  <2> HIDE DEF s
  <2>4. s[1] = t[b + 1] /\ s[2] = t[b + 2] /\ s[3] = t[b + 3] /\ s[4] = t[b + 4] /\ Len(s) = 4
    BY <2>1, <2>2
  <2>5. QED
    BY <2>1, <2>2, <2>3, <2>4
<1>10. 8 \in Ht!Boundary(t)
  <2> DEFINE s == SubSeq(t, 5, 8)
  <2>1. s \in Seq(T) /\ Len(s) = 4 /\ s[1] = Ht!CR /\ s[2] = Ht!LF /\ s[3] = Ht!CR /\ s[4] = Ht!LF
    <3>1. 8 \in 4..n /\ 8 - 3 = 5 /\ 8 - 2 = 6 /\ 8 - 1 = 7
      BY <1>4
    <3>2. QED
      BY <1>7, <1>9, <3>1
  <2> HIDE DEF s
  <2>2. s = Ht!CRLF \o Ht!CRLF
    <3> DEFINE c == Ht!CRLF \o Ht!CRLF
    <3>1. c \in Seq({Ht!CR, Ht!LF} \cup T) /\ s \in Seq({Ht!CR, Ht!LF} \cup T)
      BY <1>8, <2>1, SeqMonotonic
    <3>2. Len(c) = 4 /\ c[1] = Ht!CR /\ c[2] = Ht!LF /\ c[3] = Ht!CR /\ c[4] = Ht!LF
      BY <1>8
    <3> HIDE DEF c
    <3>3. \A j \in 1..4 : s[j] = c[j]
      BY <2>1, <3>2
    <3>4. s = c
      BY <2>1, <3>1, <3>2, <3>3, SeqEqual
    <3>5. QED
      BY <3>4 DEF c
  <2>3. 8 \in DOMAIN t
    BY <1>4, <1>6, LenProperties
  <2>4. SubSeq(t, 8 - 3, 8) = Ht!CRLF \o Ht!CRLF
    <3>1. 8 - 3 = 5
      OBVIOUS
    <3>2. QED
      BY <2>2, <3>1 DEF s
  <2>5. 8 >= 4
    OBVIOUS
  <2>6. QED
    BY <2>3, <2>4, <2>5, Zenon DEF Ht!Boundary
<1>11. ASSUME NEW i \in Ht!Boundary(t) PROVE i \in Nat /\ 8 <= i
  <2>1. i \in 4..n /\ SubSeq(t, i - 3, i) = Ht!CRLF \o Ht!CRLF
    BY <1>4, <1>6, LenProperties DEF Ht!Boundary
  <2>2. t[i - 3] = Ht!CR /\ t[i - 2] = Ht!LF /\ t[i - 1] = Ht!CR /\ t[i] = Ht!LF
    BY <1>8, <1>9, <2>1
  <2>3. Ht!CR # Ht!LF /\ Ht!CR # Ht!Header("content-type", "ipp") /\ Ht!CR # <<"status", status>>
    BY DEF Ht!CR, Ht!LF, Ht!Header
  <2>4. i # 4
    BY <1>7, <2>2, <2>3
  <2>5. i # 5
    BY <1>7, <2>2, <2>3
  <2>6. i # 6
    BY <1>7, <2>2, <2>3
  <2>7. i # 7
    BY <1>7, <2>2, <2>3
  <2>8. QED
    BY <1>4, <2>1, <2>4, <2>5, <2>6, <2>7
<1>12. (CHOOSE i \in Ht!Boundary(t) : \A j \in Ht!Boundary(t) : i <= j) = 8
  <2>1. \A i \in Ht!Boundary(t) : (\A j \in Ht!Boundary(t) : i <= j) => i = 8
    BY <1>10, <1>11
  <2>2. QED
    BY <1>10, <1>11, <2>1
<1>13. Ht!Outcome(t) = IF \/ t[1] # <<"status", 200>>
                       \/ Len(SubSeq(t, 9, n)) < LEAST_RESPONSE
                       \/ Len(SubSeq(t, 9, n)) > MAX_RESPONSE
                    THEN <<"error">> ELSE <<"message", SubSeq(t, 9, n)>>
  <2> DEFINE ends == Ht!Boundary(t)
             first == CHOOSE i \in ends : \A j \in ends : i <= j
             ipp == SubSeq(t, first + 1, Len(t))
  <2>1. Ht!Outcome(t) = IF \/ ends = {} \/ t[1] # <<"status", 200>>
                        \/ Len(ipp) < LEAST_RESPONSE \/ Len(ipp) > MAX_RESPONSE
                     THEN <<"error">> ELSE <<"message", ipp>>
    BY DEF Ht!Outcome
  <2>2. ends # {} /\ first = 8
    BY <1>10, <1>12
  <2> HIDE DEF ends, first
  <2>3. ipp = SubSeq(t, 9, n)
    BY <1>6, <2>2
  <2> HIDE DEF ipp
  <2>4. QED
    BY <2>1, <2>2, <2>3
<1>14. CASE status # 200
  <2>1. <<"status", status>> # <<"status", 200>>
    BY <1>14
  <2>2. QED
    BY <1>5, <1>7, <1>13, <2>1 DEF r
<1>15. CASE status = 200 /\ n = Len(r)
  <2>1. t = r
    BY <1>2, <1>15, SubSeqFull DEF t
  <2>2. QED
    <3>1. n = Len(r) /\ SubSeq(r, 9, n) = a
      BY <1>1, <1>15
    <3>2. Ht!Outcome(t) \in {<<"error">>, <<"message", SubSeq(t, 9, n)>>}
      BY <1>13
    <3>3. SubSeq(t, 9, n) = a
      BY <2>1, <3>1
    <3>4. Ht!Outcome(t) \in {<<"error">>, <<"message", a>>}
      BY <3>2, <3>3
    <3>5. QED
      BY <1>5, <1>15, <3>4 DEF r
<1>16. CASE status = 200 /\ n # Len(r)
  <2>1. n = MAX_RESPONSE + RESPONSE_HEAD
    BY <1>4, <1>16
  <2>2. Len(SubSeq(t, 8 + 1, n)) = n - 8
    <3>1. 8 \in Nat /\ n \in 8..Len(t)
      BY <1>4, <1>6
    <3>2. QED
      BY <1>6, <3>1, Piece
  <2>3. Len(SubSeq(t, 9, n)) > MAX_RESPONSE
    BY <1>3, <2>1, <2>2
  <2>4. QED
    BY <1>5, <1>13, <2>3 DEF r
<1>17. QED
  BY <1>14, <1>15, <1>16

(* A message that was passed on is the answer.                             *)
AnswerInv ==
  \/ got \in {<<"none">>, <<"error">>}
  \/ got = <<"message", answer>> /\ stage = "done"

LEMMA StepAnswers ==
  ASSUME AnswerLimits, AnswerInv, [Ht!Next]_(Ht!vars)
  PROVE  AnswerInv'
<1>1. CASE Ht!Answer
  <2>1. CASE got' = <<"error">>
    BY <2>1 DEF AnswerInv
  <2> DEFINE status == IF stage = "done" THEN 200 ELSE 400
  <2>2. CASE got' = Ht!Outcome(Ht!Taken(Ht!ResponseHead(status) \o answer'))
    <3>1. answer' \in Answers \cup {<<>>} /\ stage' = stage
      BY <1>1 DEF Ht!Answer, Ht!reading
    <3>2. PICK A : answer' \in Seq(A)
      BY <3>1, EmptySeq DEF AnswerLimits
    <3>3. status \in {200, 400} /\ (status = 200 => stage = "done")
      OBVIOUS
    <3> HIDE DEF status
    <3>4. got' = Ht!Outcome(Ht!Taken(Response(status, answer')))
      BY <2>2 DEF status, Response
    <3>5. got' = <<"error">> \/ (got' = <<"message", answer'>> /\ status = 200)
      BY <3>2, <3>3, <3>4, AnswerComes
    <3>6. QED
      BY <3>1, <3>3, <3>5 DEF AnswerInv
  <2>3. QED
    BY <1>1, <2>1, <2>2 DEF Ht!Answer
<1>2. CASE UNCHANGED <<answer, got, stage>>
  BY <1>2 DEF AnswerInv
<1>3. CASE UNCHANGED <<answer, got>> /\ stage # "done"
  BY <1>3 DEF AnswerInv
<1>4. CASE Ht!Arrive \/ Ht!Cut \/ UNCHANGED Ht!vars
  BY <1>2, <1>4 DEF Ht!Arrive, Ht!Cut, Ht!vars, Ht!reading, Ht!answering
<1>5. CASE Ht!Timeout \/ Ht!ReadPiece \/ Ht!ReadLine
  BY <1>3, <1>5 DEF Ht!Timeout, Ht!ReadPiece, Ht!ReadLine, Ht!Waiting, Ht!answering
<1>6. CASE Ht!CheckAtEndpoint \/ Ht!CheckAtProxy \/ Ht!CheckHost
  BY <1>3, <1>6 DEF Ht!CheckAtEndpoint, Ht!CheckAtProxy, Ht!CheckHost, Ht!kept, Ht!answering
<1>7. CASE Ht!ReadExact \/ Ht!ReadSize \/ Ht!ReadDelimiter \/ Ht!ReadTrailer
  BY <1>3, <1>7 DEF Ht!ReadExact, Ht!ReadSize, Ht!ReadDelimiter, Ht!ReadTrailer, Ht!kept, Ht!answering
<1>8. QED
  BY <1>1, <1>4, <1>5, <1>6, <1>7 DEF Ht!Next

(* What the proxy passes on is the whole body of an answer to a document   *)
(* the endpoint took; an answer that is too long or too short, a refusal   *)
(* and a broken connection are errors.  For answers of any length,         *)
(* whatever line ends they have (forward_ipp, respond).                    *)
THEOREM AnswersAreWhole == ASSUME AnswerLimits PROVE Ht!Spec => []Ht!AnswerIsWhole
<1>1. Ht!Init => AnswerInv
  BY DEF Ht!Init, AnswerInv
<1>2. AnswerInv /\ [Ht!Next]_(Ht!vars) => AnswerInv'
  BY StepAnswers
<1>3. AnswerInv => Ht!AnswerIsWhole
  BY DEF AnswerInv, Ht!AnswerIsWhole
<1>4. QED
  BY <1>1, <1>2, <1>3, PTL DEF Ht!Spec
=============================================================================
