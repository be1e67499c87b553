-------------------------- MODULE DesktopHostProofs --------------------------
(***************************************************************************)
(* Theorems about DesktopHost, for any number of threads and of events:    *)
(* the controller never loses sight of a server thread that is alive.      *)
(***************************************************************************)
EXTENDS DesktopHost, TLAPS

(* The parts of TypeOK that ownership depends on.                           *)
Shapes == owned \in Threads \cup {None} /\ DOMAIN server = Threads

(* While stop() waits for a thread, there is one to wait for.               *)
Joined == gui \in {"signalling", "joining"} => owned # None

OwnerInv == Shapes /\ Joined /\ AliveIsOwned

LEMMA InitOwned == Init => OwnerInv
<1> SUFFICES ASSUME Init PROVE OwnerInv
  OBVIOUS
<1>1. 1 \in Threads
  BY HostAssumption DEF Threads
<1>2. DOMAIN server = Threads
  BY DEF Init
<1>3. owned = 1 /\ gui = "idle"
  BY DEF Init
<1>4. \A i \in Threads : i # 1 => server[i].phase = "unused"
  BY DEF Init, Unused
<1> QED
  BY <1>1, <1>2, <1>3, <1>4 DEF OwnerInv, Shapes, Joined, AliveIsOwned, Alive, None

(* A thread that is alive after a step of its own was alive before.         *)
LEMMA WorkOwned ==
  ASSUME OwnerInv, NEW i \in Threads, Work(i) \/ Detach(i) \/ RequestRestart(i)
  PROVE  OwnerInv'
<1>1. owned' = owned /\ (gui' = gui) /\ Alive(i)
  BY DEF Work, Check, Classify, Attach, Raises, Serve, ServeFails, Exit, Round, Report, End, Detach,
         RequestRestart, controller, window, Alive, At
<1>2. \E s : server' = [server EXCEPT ![i] = s]
  BY DEF Work, Check, Classify, Attach, Raises, Serve, ServeFails, Exit, Round, Report, End, Detach,
         RequestRestart, Set
<1> QED
  BY <1>1, <1>2 DEF OwnerInv, Shapes, Joined, AliveIsOwned, Alive

(* start() owns the thread that it starts, the only one alive.              *)
LEMMA StartsOwned ==
  ASSUME Shapes, AliveIsOwned, Starts
  PROVE  Shapes' /\ AliveIsOwned'
<1>1. CASE OwnedAlive
  BY <1>1 DEF Starts, controller, Shapes, AliveIsOwned, Alive
<1>2. CASE ~OwnedAlive
  <2>1. \A j \in Threads : ~Alive(j)
    BY <1>2 DEF OwnedAlive, AliveIsOwned, Threads, None
  <2>2. PICK i \in Threads : server' = [server EXCEPT ![i] = [Unused EXCEPT !.phase = "loop"]] /\ owned' = i
    BY <1>2 DEF Starts, Set
  <2> QED
    BY <2>1, <2>2 DEF Shapes, AliveIsOwned, Alive
<1> QED
  BY <1>1, <1>2

(* stop() gives a thread up only when it has ended.                         *)
LEMMA StopOwned ==
  ASSUME OwnerInv, StopSignals \/ StopJoins \/ StopTimesOut \/ StopReturns
  PROVE  OwnerInv'
<1>1. CASE StopSignals
  <2>1. owned \in Threads
    BY <1>1 DEF StopSignals, OwnerInv, Joined, Shapes
  <2>2. server' = [server EXCEPT ![owned] = [server[owned] EXCEPT !.exit = @ \/ server[owned].attached]]
    BY <1>1 DEF StopSignals, Set
  <2> QED
    BY <1>1, <2>1, <2>2 DEF StopSignals, controller, OwnerInv, Shapes, Joined, AliveIsOwned, Alive
<1>2. CASE StopJoins
  BY <1>2 DEF StopJoins, OwnerInv, Shapes, Joined, AliveIsOwned, Alive
<1>3. CASE StopTimesOut
  BY <1>3 DEF StopTimesOut, OwnerInv, Shapes, Joined, AliveIsOwned, Alive
<1>4. CASE StopReturns
  <2>1. gui' \in {"gone", "idle"}
    BY <1>4 DEF StopReturns
  <2>2. CASE Starts
    BY <1>4, <2>1, <2>2, StartsOwned DEF OwnerInv, Joined
  <2>3. CASE UNCHANGED <<controller, server>>
    BY <2>1, <2>3 DEF controller, OwnerInv, Shapes, Joined, AliveIsOwned, Alive
  <2> QED
    BY <1>4, <2>2, <2>3 DEF StopReturns
<1> QED
  BY <1>1, <1>2, <1>3, <1>4

LEMMA StopBeginsOwned ==
  ASSUME OwnerInv, NEW then, StopBegins(then)
  PROVE  OwnerInv'
<1>1. CASE OwnedAlive
  <2>1. owned \in Threads
    BY <1>1 DEF OwnedAlive, OwnerInv, Shapes
  <2>2. server' = [server EXCEPT ![owned] = [server[owned] EXCEPT !.shutdown = TRUE]] /\ owned' = owned
    BY <1>1 DEF StopBegins, Set
  <2> QED
    BY <2>1, <2>2 DEF OwnerInv, Shapes, Joined, AliveIsOwned, Alive, Threads, None
<1>2. CASE ~OwnedAlive
  BY <1>2 DEF StopBegins, OwnerInv, Shapes, Joined, AliveIsOwned, Alive
<1> QED
  BY <1>1, <1>2

LEMMA ClickOwned ==
  ASSUME OwnerInv,
         ToggleStops \/ ToggleRefused \/ ToggleStarts \/ ClickRestart \/ RequestExit \/ TimerTick
  PROVE  OwnerInv'
<1>1. CASE ToggleStops \/ ClickRestart \/ RequestExit
  BY <1>1, StopBeginsOwned DEF ToggleStops, ClickRestart, RequestExit
<1>2. CASE ToggleRefused \/ TimerTick
  BY <1>2 DEF ToggleRefused, TimerTick, controller, OwnerInv, Shapes, Joined, AliveIsOwned, Alive
<1>3. CASE ToggleStarts
  <2>1. gui' = "idle"
    BY <1>3 DEF ToggleStarts, Click
  <2> QED
    BY <1>3, <2>1, StartsOwned DEF ToggleStarts, OwnerInv, Joined
<1> QED
  BY <1>1, <1>2, <1>3

LEMMA StepOwned == OwnerInv /\ [Next]_vars => OwnerInv'
<1> SUFFICES ASSUME OwnerInv, [Next]_vars PROVE OwnerInv'
  OBVIOUS
<1>1. CASE \E i \in Threads : Work(i) \/ Detach(i) \/ RequestRestart(i)
  BY <1>1, WorkOwned
<1>2. CASE StopSignals \/ StopJoins \/ StopTimesOut \/ StopReturns
  BY <1>2, StopOwned
<1>3. CASE ToggleStops \/ ToggleRefused \/ ToggleStarts \/ ClickRestart \/ RequestExit \/ TimerTick
  BY <1>3, ClickOwned
<1>4. CASE StatusReady \/ StatusFailed \/ Ask \/ Judge \/ ProbeFails \/ OtherProcess
  BY <1>4 DEF StatusReady, StatusFailed, Ask, Judge, ProbeFails, OtherProcess, controller, window,
              OwnerInv, Shapes, Joined, AliveIsOwned, Alive
<1>5. CASE UNCHANGED vars
  BY <1>5 DEF vars, OwnerInv, Shapes, Joined, AliveIsOwned, Alive
<1> QED
  BY <1>1, <1>2, <1>3, <1>4, <1>5 DEF Next

(* Whatever is clicked, times out or restarts, and however often: a server  *)
(* thread that is alive is the one that ServerController can stop.          *)
THEOREM ServersAreOwned == Spec => []AliveIsOwned
<1>1. OwnerInv => AliveIsOwned
  BY DEF OwnerInv
<1> QED
  BY <1>1, InitOwned, StepOwned, PTL DEF Spec

=============================================================================
