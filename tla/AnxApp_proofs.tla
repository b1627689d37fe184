--------------------------- MODULE AnxApp_proofs ---------------------------
(***************************************************************************)
(* The process of the app, for any number of threads, restarters, loopers  *)
(* and calls.  First the service: no server escapes, also with the stop    *)
(* button of the activity, when a start and a restart do not overlap.  The *)
(* invariant says that a server that would not end by itself needs         *)
(* isRunning and nobody past the flag in destroy().  Then the composition: *)
(* it is a life of the service, the service that takes itself for running  *)
(* has its server, each server finds the model servers as the one before   *)
(* left them, and no sequence of calls ends the process or leaves the      *)
(* stream in another state than the last call asked for.                   *)
(***************************************************************************)
EXTENDS AnxApp, TLAPS

Live(t) == state[t] = "serving" /\ ~interrupt[t]
NoneLive == \A t \in Thread : ~Live(t)

Place == {"create", "idle", "none", "sleeping", "am", "done", "assign", "start",
          "procedure", "destroy", "join", "joining", "clear"}
State == {"none", "new", "serving", "ended", "dead"}

Types ==
  /\ made \in Nat
  /\ rpcThread \in Nat
  /\ pc \in [Worker -> Place]
  /\ state \in [Thread -> State]

\* While the main thread starts the service, no restarter stops it.
StartsAlone ==
  pc[Main] \in Starting => isRunning /\ ~Restarting

\* Whoever is past the flag has left no server behind.
PastTheFlag ==
  \A w \in Worker : pc[w] \in {"join", "joining", "clear"} => NoneLive

\* A service that does not run has no server, unless someone is about to tell
\* it to end; neither has one that is about to make one.
NotRunning ==
  /\ ~isRunning => NoneLive \/ \E w \in Worker : pc[w] = "destroy"
  /\ pc[Main] = "assign" => NoneLive

EscapeInv == Types /\ StartsAlone /\ PastTheFlag /\ NotRunning /\ NoServerEscapes

-----------------------------------------------------------------------------
LEMMA Workers == Main \in Worker /\ Main \notin Restarter /\ Restarter \subseteq Worker
BY AnxServiceAssumption DEF Main, Worker, Restarter

LEMMA EscapeInit == Init => EscapeInv
BY Workers DEF Init, EscapeInv, Types, StartsAlone, PastTheFlag, NotRunning,
   NoServerEscapes, NoneLive, Live, Starting, None, Main, Worker, Place, State

\* StartService finds no server to leave behind (EndlessService.kt).
LEMMA EscapeStart ==
  ASSUME EscapeInv, Undisturbed, Recreate \/ StartService
  PROVE  EscapeInv'
<1> USE Workers DEF Live, NoneLive, Goes, Place, State
<1>1. CASE Recreate
  BY <1>1 DEF Recreate, EscapeInv, Types, StartsAlone, PastTheFlag, NotRunning,
     NoServerEscapes, Starting, service, threads
<1>2. CASE StartService
  <2>1. ~Restarting /\ isRunning' = TRUE /\ pc[Main] = "create"
    BY <1>2 DEF StartService, Undisturbed
  <2>2. /\ UNCHANGED <<restartProcedure, rpcThread, made, state, interrupt>>
        /\ \/ isRunning /\ pc' = [pc EXCEPT ![Main] = "idle"]
           \/ ~isRunning /\ pc' = [pc EXCEPT ![Main] = "assign"]
    BY <1>2 DEF StartService, threads
  <2>3. Types' /\ NoServerEscapes' /\ PastTheFlag'
    BY <2>1, <2>2 DEF EscapeInv, Types, NoServerEscapes, PastTheFlag
  <2>4. \A w \in Worker : pc[w] # "destroy"
    BY <2>1 DEF Restarting, Worker, Stopping
  <2>5. ~isRunning => NoneLive
    BY <2>4 DEF EscapeInv, NotRunning
  <2>6. NotRunning'
    BY <2>1, <2>2, <2>5 DEF EscapeInv, Types, NotRunning
  <2>7. \A r \in Restarter : pc'[r] = pc[r]
    BY <2>2 DEF EscapeInv, Types
  <2>8. StartsAlone'
    BY <2>1, <2>7 DEF StartsAlone, Restarting
  <2> QED BY <2>3, <2>6, <2>8 DEF EscapeInv
<1> QED BY <1>1, <1>2

\* The new thread takes the place of none that serves (DeviceRpcHandler.init).
LEMMA EscapeThread ==
  ASSUME EscapeInv, AssignThread \/ StartThread \/ DoRestartProcedure
  PROVE  EscapeInv'
<1> USE Workers DEF Live, NoneLive, Goes, Place, State
<1>1. pc[Main] \in Starting /\ isRunning /\ ~Restarting
  BY DEF AssignThread, StartThread, DoRestartProcedure, Starting, EscapeInv, StartsAlone
<1>2. /\ isRunning' = isRunning
      /\ \A r \in Restarter : pc'[r] = pc[r]
      /\ pc' \in [Worker -> Place]
  BY DEF AssignThread, StartThread, DoRestartProcedure, service, EscapeInv, Types
<1>3. StartsAlone'
  BY <1>1, <1>2 DEF StartsAlone, Restarting
<1>4. \A w \in Worker : pc'[w] \notin Stopping
  <2>1. pc'[Main] \notin Stopping
    BY DEF AssignThread, StartThread, DoRestartProcedure, Stopping, EscapeInv, Types
  <2> QED BY <1>1, <1>2, <2>1 DEF Restarting, Worker
<1>5. PastTheFlag'
  BY <1>4 DEF PastTheFlag, Stopping
<1>6. CASE AssignThread
  <2>1. pc[Main] = "assign" /\ pc'[Main] = "start"
    BY <1>6 DEF AssignThread, EscapeInv, Types
  <2>2. NoneLive
    BY <2>1 DEF EscapeInv, NotRunning
  <2>3. state' = [state EXCEPT ![made + 1] = "new"] /\ interrupt' = interrupt
    BY <1>6 DEF AssignThread
  <2>4. \A t \in Thread : ~Live(t)'
    BY <2>2, <2>3 DEF EscapeInv, Types
  <2>5. made' \in Nat /\ rpcThread' \in Nat
    BY <1>6 DEF AssignThread, EscapeInv, Types
  <2>6. state' \in [Thread -> State]
    BY <2>3 DEF EscapeInv, Types
  <2>7. Types'
    BY <1>2, <2>5, <2>6 DEF Types
  <2> QED BY <1>1, <1>2, <1>3, <1>5, <2>1, <2>4, <2>7
          DEF EscapeInv, NotRunning, NoServerEscapes
<1>7. CASE StartThread
  <2>1. pc'[Main] = "procedure"
    BY <1>7 DEF StartThread, EscapeInv, Types
  <2>2. rpcThread' = rpcThread /\ interrupt' = interrupt
    BY <1>7 DEF StartThread, threads
  <2>3. state' = state \/ state' = [state EXCEPT ![rpcThread] = "serving"]
    BY <1>7 DEF StartThread
  <2>4. NoServerEscapes'
    BY <2>2, <2>3 DEF EscapeInv, Types, NoServerEscapes
  <2>5. Types'
    BY <1>7, <1>2, <2>2, <2>3 DEF StartThread, EscapeInv, Types, service
  <2> QED BY <1>1, <1>2, <1>3, <1>5, <2>1, <2>4, <2>5 DEF EscapeInv, NotRunning
<1>8. CASE DoRestartProcedure
  <2>1. pc'[Main] = "idle" /\ UNCHANGED <<rpcThread, made, state, interrupt>>
    BY <1>8 DEF DoRestartProcedure, EscapeInv, Types, threads
  <2>2. Types' /\ NoServerEscapes'
    BY <1>8, <1>2, <2>1 DEF DoRestartProcedure, EscapeInv, Types, NoServerEscapes
  <2> QED BY <1>1, <1>2, <1>3, <1>5, <2>1, <2>2 DEF EscapeInv, NotRunning
<1> QED BY <1>6, <1>7, <1>8

\* The stops up to destroy() (stopAnxService, containerStop, doRestart).
LEMMA EscapeStop ==
  ASSUME EscapeInv, Undisturbed,
         StopService \/ ContainerStop \/ \E r \in Restarter : Restart(r)
  PROVE  EscapeInv'
<1> USE Workers DEF Live, NoneLive, Goes, Place, State
<1>1. UNCHANGED <<restartProcedure, rpcThread, made, state, interrupt>>
  BY DEF StopService, ContainerStop, Restart, service, threads
<1>2. CASE StopService \/ ContainerStop
  <2>1. pc' = [pc EXCEPT ![Main] = "destroy"] /\ pc'[Main] = "destroy"
    BY <1>2 DEF StopService, ContainerStop, EscapeInv, Types
  <2> QED BY <1>1, <2>1 DEF EscapeInv, Types, StartsAlone, PastTheFlag,
             NotRunning, NoServerEscapes, Starting
<1>3. ASSUME NEW r \in Restarter, Restart(r) PROVE EscapeInv'
  <2>1. pc[Main] \notin Starting
    BY <1>3 DEF Undisturbed, Starting, Stopping
  <2>2. /\ pc[r] = "sleeping"
        /\ pc' = [pc EXCEPT ![r] = IF restartProcedure THEN "destroy" ELSE "am"]
        /\ isRunning' = (isRunning /\ ~restartProcedure)
    BY <1>3 DEF Restart
  <2>3. pc'[Main] = pc[Main]
    BY <2>2 DEF EscapeInv, Types
  <2>4. Types' /\ StartsAlone' /\ PastTheFlag' /\ NoServerEscapes'
    BY <1>1, <2>1, <2>2, <2>3
       DEF EscapeInv, Types, StartsAlone, PastTheFlag, NoServerEscapes
  <2>5. CASE restartProcedure
    <3>1. pc'[r] = "destroy"
      BY <2>2, <2>5 DEF EscapeInv, Types
    <3> QED BY <2>1, <2>3, <2>4, <3>1 DEF EscapeInv, NotRunning, Starting
  <2>6. CASE ~restartProcedure
    <3>1. isRunning' <=> isRunning
      BY <2>2, <2>6
    <3>2. \A w \in Worker : pc[w] = "destroy" => pc'[w] = "destroy"
      BY <2>2 DEF EscapeInv, Types
    <3> QED BY <1>1, <2>3, <2>4, <3>1, <3>2 DEF EscapeInv, NotRunning
  <2> QED BY <2>5, <2>6
<1> QED BY <1>2, <1>3

\* destroy() tells the thread it finds, which is the only one there may be.
LEMMA EscapeDestroy ==
  ASSUME EscapeInv, NEW w \in Worker, Destroy(w)
  PROVE  EscapeInv'
<1> USE Workers DEF Live, NoneLive, Goes, Place, State
<1>1. UNCHANGED <<isRunning, restartProcedure, made, state>>
  BY DEF Destroy, SetInterrupt, CallJoin, Joined, ClearThread, service, threads
<1>2. pc[w] \in Stopping /\ pc' \in [Worker -> Place]
  BY DEF Destroy, SetInterrupt, CallJoin, Joined, ClearThread, Stopping, EscapeInv, Types
<1>3. /\ pc'[Main] \in Starting => pc[Main] \in Starting /\ w # Main
      /\ \A v \in Worker \ {w} : pc'[v] = pc[v]
  BY DEF Destroy, SetInterrupt, CallJoin, Joined, ClearThread, Starting, EscapeInv, Types
<1>4. StartsAlone'
  BY <1>2, <1>3 DEF EscapeInv, StartsAlone, Restarting, Worker
<1>5. CASE SetInterrupt(w)
  <2>1. /\ interrupt' = [t \in Thread |-> interrupt[t] \/ t = rpcThread]
        /\ rpcThread' = rpcThread
    BY <1>5 DEF SetInterrupt
  <2>2. \A t \in Thread : ~Live(t)'
    BY <1>1, <2>1 DEF EscapeInv, NoServerEscapes
  <2>3. Types'
    BY <1>1, <1>2, <2>1 DEF EscapeInv, Types
  <2> QED BY <1>4, <2>2, <2>3 DEF EscapeInv, PastTheFlag, NotRunning, NoServerEscapes
<1>6. CASE CallJoin(w) \/ Joined(w) \/ ClearThread(w)
  <2>1. pc[w] \in {"join", "joining", "clear"}
    BY <1>6 DEF CallJoin, Joined, ClearThread
  <2>2. NoneLive
    BY <2>1 DEF EscapeInv, PastTheFlag
  <2>3. interrupt' = interrupt /\ rpcThread' \in Nat
    BY <1>6 DEF CallJoin, Joined, ClearThread, threads, None, EscapeInv, Types
  <2>4. \A t \in Thread : ~Live(t)'
    BY <1>1, <2>2, <2>3
  <2>5. Types'
    BY <1>1, <1>2, <2>3 DEF EscapeInv, Types
  <2> QED BY <1>4, <2>4, <2>5 DEF EscapeInv, PastTheFlag, NotRunning, NoServerEscapes
<1> QED BY <1>5, <1>6 DEF Destroy

\* am start -S leaves no thread, or changes nothing that matters here.
LEMMA EscapeAm ==
  ASSUME EscapeInv, NEW r \in Restarter, AmStart(r)
  PROVE  EscapeInv'
<1> USE Workers DEF Live, NoneLive, Goes, Place, State
<1>1. CASE Headless
  <2>1. /\ state' = [t \in Thread |-> IF state[t] = "none" THEN "none" ELSE "ended"]
        /\ pc' = [w \in Worker |-> IF w = Main THEN "create"
                                ELSE IF pc[w] = "none" THEN "none" ELSE "done"]
        /\ isRunning' = FALSE /\ restartProcedure' = FALSE
        /\ rpcThread' = None /\ UNCHANGED <<made, interrupt>>
    BY <1>1 DEF AmStart
  <2>2. NoneLive'
    BY <2>1
  <2>3. pc' \in [Worker -> Place]
    BY <2>1
  <2>4. Types'
    BY <2>1, <2>3 DEF EscapeInv, Types, None
  <2>5. pc'[Main] = "create"
    BY <2>1
  <2> QED BY <2>2, <2>4, <2>5 DEF EscapeInv, StartsAlone, PastTheFlag, NotRunning,
             NoServerEscapes, Starting
<1>2. CASE ~Headless
  <2>1. /\ pc[r] = "am" /\ pc' = [pc EXCEPT ![r] = "done"]
        /\ UNCHANGED <<isRunning, restartProcedure, rpcThread, made, state, interrupt>>
    BY <1>2 DEF AmStart, service
  <2>2. pc'[Main] = pc[Main] /\ pc'[r] = "done"
    BY <2>1 DEF EscapeInv, Types
  <2>3. \A w \in Worker : w # r => pc'[w] = pc[w]
    BY <2>1 DEF EscapeInv, Types
  <2>4. Types' /\ NoServerEscapes' /\ PastTheFlag'
    BY <2>1 DEF EscapeInv, Types, NoServerEscapes, PastTheFlag
  <2>5. NotRunning'
    BY <2>1, <2>2, <2>3 DEF EscapeInv, NotRunning
  <2>6. StartsAlone'
    BY <2>1, <2>2, <2>3 DEF EscapeInv, StartsAlone, Restarting, Stopping
  <2> QED BY <2>4, <2>5, <2>6 DEF EscapeInv
<1> QED BY <1>1, <1>2

\* What a thread of the server does.
LEMMA EscapeServe ==
  ASSUME EscapeInv, NEW t \in Thread, CallRestart(t) \/ Ends(t) \/ Dies(t)
  PROVE  EscapeInv'
<1> USE Workers DEF Live, NoneLive, Goes, Place, State
<1>1. UNCHANGED <<isRunning, restartProcedure, rpcThread, made, interrupt>>
  BY DEF CallRestart, Ends, Dies, service, threads
<1>2. CASE CallRestart(t)
  <2>1. PICK r \in Restarter : pc[r] = "none" /\ pc' = [pc EXCEPT ![r] = "sleeping"]
    BY <1>2 DEF CallRestart
  <2>2. state' = state
    BY <1>2 DEF CallRestart, threads
  <2>3. /\ pc'[Main] = pc[Main] /\ pc'[r] = "sleeping"
        /\ \A w \in Worker : w # r => pc'[w] = pc[w]
    BY <2>1 DEF EscapeInv, Types
  <2>4. Types' /\ NoServerEscapes' /\ PastTheFlag'
    BY <1>1, <2>1, <2>2 DEF EscapeInv, Types, NoServerEscapes, PastTheFlag
  <2>5. NotRunning'
    BY <1>1, <2>1, <2>2, <2>3 DEF EscapeInv, NotRunning
  <2>6. StartsAlone'
    BY <1>1, <2>3 DEF EscapeInv, StartsAlone, Restarting, Stopping
  <2> QED BY <2>4, <2>5, <2>6 DEF EscapeInv
<1>3. CASE Ends(t) \/ Dies(t)
  <2>1. pc' = pc /\ \E s \in {"ended", "dead"} : state' = [state EXCEPT ![t] = s]
    BY <1>3 DEF Ends, Dies
  <2>2. state' \in [Thread -> State] /\ \A u \in Thread : Live(u)' => Live(u)
    BY <1>1, <2>1 DEF EscapeInv, Types
  <2> QED BY <1>1, <2>1, <2>2 DEF EscapeInv, Types, StartsAlone, Restarting,
             PastTheFlag, NotRunning, NoServerEscapes
<1> QED BY <1>2, <1>3

LEMMA EscapeNext == EscapeInv /\ [Next /\ Undisturbed]_vars => EscapeInv'
<1> SUFFICES ASSUME EscapeInv, [Next /\ Undisturbed]_vars PROVE EscapeInv'
  OBVIOUS
<1>1. CASE UNCHANGED vars
  BY <1>1 DEF vars, service, threads, EscapeInv, Types, StartsAlone, Restarting,
     PastTheFlag, NotRunning, NoServerEscapes, NoneLive, Live
<1>2. CASE Next /\ Undisturbed
  BY <1>2, EscapeStart, EscapeThread, EscapeStop, EscapeDestroy, EscapeAm,
     EscapeServe DEF Next
<1> QED BY <1>1, <1>2

\* One server at a time: a thread that nobody has told to end is the one that
\* destroy() would stop (EndlessService.kt, DeviceRpcHandler.kt).
THEOREM NoServerEver == UndisturbedSpec => []NoServerEscapes
<1>1. UndisturbedSpec => []EscapeInv
  BY EscapeInit, EscapeNext, PTL DEF UndisturbedSpec
<1>2. EscapeInv => NoServerEscapes
  BY DEF EscapeInv
<1> QED BY <1>1, <1>2, PTL

-----------------------------------------------------------------------------
(* The service that runs has its server.                                   *)

Stops == \E w \in Worker : pc[w] \in Stopping

\* What is not a thread yet has not been told to end, and there is room for
\* the one that is made.
Fresh ==
  /\ made \in 0 .. MaxThreads /\ rpcThread \in 0 .. made
  /\ interrupt \in [Thread -> BOOLEAN]
  /\ \A t \in Thread : t > made => ~interrupt[t]
  /\ pc[Main] = "assign" => made < MaxThreads

\* Whoever stops the server has said so first; without a server the service
\* does not run.
Stopped == (Stops => ~isRunning) /\ (~isRunning => Stops \/ rpcThread = None)

\* A service that runs has the server it has begun to make.
Served ==
  isRunning =>
    CASE pc[Main] = "assign" -> rpcThread = None
      [] pc[Main] = "start"  -> /\ rpcThread # None
                                /\ state[rpcThread] = "new" /\ ~interrupt[rpcThread]
      [] OTHER -> /\ rpcThread # None
                  /\ state[rpcThread] \in {"serving", "dead"} /\ ~interrupt[rpcThread]

\* Who waits for a thread has one to wait for.
Waiters ==
  /\ joining \in [Worker -> Thread \cup {None}]
  /\ \A w \in Worker : pc[w] = "joining" => joining[w] # None

\* Each worker is at a place of its own code.
Places ==
  /\ pc[Main] \in {"create", "idle"} \cup Starting \cup Stopping
  /\ \A r \in Restarter : pc[r] \in {"none", "sleeping", "am", "done"} \cup Stopping
  /\ restartProcedure \in BOOLEAN /\ isRunning \in BOOLEAN

RunInv == Fresh /\ Stopped /\ Served /\ Waiters /\ Places

-----------------------------------------------------------------------------
(* The stream follows the calls.                                           *)

\* The looper that messages are posted to, and what it still has to handle.
Posted == IF imuThread = 0 THEN <<>> ELSE queue[imuThread]

\* The message the clients post next when they take turns.
Asked == IF rpc = "start" THEN "start" ELSE IF wanted = "start" THEN "stop" ELSE "create"

\* The message the native object expects next.
Expected ==
  IF device_imu_ = 0 \/ publisher[device_imu_] = "joined" \/ \E l \in Imu!Looper : imuJoining[l] # 0
  THEN "create"
  ELSE IF publisher[device_imu_] = "none" THEN "start" ELSE "stop"

FollowedBy == [create |-> "start", start |-> "stop", stop |-> "create"]
Turn(n) == IF n <= Len(Posted) THEN Posted[n] ELSE Asked

\* The messages on their way go round from the one that is expected to the one
\* that is asked for next.
InTurn ==
  /\ Turn(1) = Expected
  /\ \A n \in 1 .. Len(Posted) : Turn(n + 1) = FollowedBy[Turn(n)]

\* The messages an object still gets: those of create, start and stop are
\* three, and they come of two calls.
Ahead == [create |-> 0, start |-> 2, stop |-> 1]
NoMoreObjects == 3 * imuMade - Ahead[Expected] + Len(Posted) <= 3 * calls - Ahead[Asked]

ImuTypes ==
  /\ rpc \in {"idle", "start"} /\ wanted \in {"start", "stop"}
  /\ calls \in 0 .. MaxCalls /\ imuMade \in 0 .. MaxCalls
  /\ imuThread \in 0 .. MaxInits
  /\ handler \in [Imu!Looper -> BOOLEAN]
  /\ queue \in [Imu!Looper -> Seq(Imu!Message)]
  /\ imuJoining \in [Imu!Looper -> Imu!Imu \cup {0}]
  /\ publisher \in [Imu!Imu -> {"none", "joined", "running", "returned"}]
  /\ is_running_ \in [Imu!Imu -> BOOLEAN]

\* The last object made is the one there is; only its publisher may run, and
\* it is told to end by the looper that waits for it.
Native ==
  /\ device_imu_ = imuMade /\ owner = imuMade
  /\ \A j \in Imu!Imu : j # imuMade => publisher[j] \in {"none", "joined"}
  /\ \A j \in Imu!Imu : j > imuMade => publisher[j] = "none"
  /\ \A l \in Imu!Looper :
       imuJoining[l] # 0 => /\ l = imuThread /\ imuJoining[l] = imuMade
                            /\ publisher[imuMade] \in {"running", "returned"}
  /\ imuMade # 0 /\ (\A l \in Imu!Looper : imuJoining[l] = 0) =>
       publisher[imuMade] # "returned" /\ (publisher[imuMade] = "running" => is_running_[imuMade])

\* Only the last looper has anything to do, and none has while the service
\* starts; a call that has begun found its looper ready.
Loopers ==
  /\ \A l \in Imu!Looper : l # imuThread => queue[l] = <<>>
  /\ pc[Main] \in Starting => Imu!Quiet
  /\ rpc = "start" => imuThread # 0 /\ handler[imuThread]

\* The process has ended only in a callback that an earlier looper was late
\* with: its object was gone.
Crashes ==
  /\ crashed \in BOOLEAN
  /\ crashed => \E l \in Imu!Looper : l # imuThread /\ callback[l] \notin {0, device_imu_}

StreamInv == ImuTypes /\ Native /\ Loopers /\ InTurn /\ NoMoreObjects /\ Crashes

\* The last looper has events of the object there is, and of no other.
SensorInv ==
  /\ home \in Imu!Looper \cup {0} /\ home <= imuThread
  /\ imuMade # 0 => home # 0
  /\ events \in 0 .. MaxEvents
  /\ callback \in [Imu!Looper -> Imu!Imu \cup {0}]
  /\ \A l \in Imu!Looper :
       callback[l] # 0 => l <= imuThread /\ (l = imuThread => callback[l] = imuMade)

-----------------------------------------------------------------------------
(* The model servers.                                                      *)

\* A thread that serves is the one destroy() would stop, until someone who
\* has waited for it to end clears the field.
WaitInv ==
  /\ \A t \in Thread : state[t] = "serving" => t = rpcThread
  /\ \A w \in Worker : pc[w] = "joining" => rpcThread \in {joining[w], None}
  /\ (\E w \in Worker : pc[w] = "clear") => \A t \in Thread : state[t] # "serving"

\* The model servers are made and not started exactly while a thread that
\* serves is between the two.
BuildInv ==
  /\ building \in [Thread -> {"initAll", "startAll", "done"}]
  /\ \A t \in Thread :
       building[t] # "initAll" => t <= made /\ state[t] \notin {"none", "new"}
  /\ modelServers \in {"none", "made", "started"}
  /\ modelServers = "made" <=>
       \E t \in Thread : state[t] = "serving" /\ building[t] = "startAll"
-----------------------------------------------------------------------------
LEMMA RunInit == Init => RunInv
<1> SUFFICES ASSUME Init PROVE RunInv
  OBVIOUS
<1>1. MaxThreads \in Nat \ {0}
  BY AnxServiceAssumption
<1>2. Fresh /\ Waiters
  BY <1>1, Workers DEF Init, Fresh, Waiters, Main, None, Worker
<1>3. ~Stops /\ pc[Main] = "create" /\ Places
  BY Workers DEF Init, Stops, Stopping, Places, Worker
<1> QED BY <1>2, <1>3 DEF Init, RunInv, Stopped, Served

\* The service is started when nobody stops it (onStartCommand).
LEMMA RunStart ==
  ASSUME EscapeInv, RunInv, Undisturbed, Recreate \/ StartService
  PROVE  RunInv'
<1> USE Workers DEF Goes
<1>1. /\ UNCHANGED <<rpcThread, made, state, interrupt, joining, restartProcedure>>
      /\ pc \in [Worker -> Place]
  BY DEF Recreate, StartService, service, threads, EscapeInv, Types
<1>2. PICK p \in {"create", "idle", "assign"} :
        /\ pc' = [pc EXCEPT ![Main] = p] /\ pc[Main] \in {"create", "idle"}
        /\ p = "assign" => ~isRunning /\ made < MaxThreads /\ ~Restarting
        /\ p # "create" => isRunning'
        /\ p # "assign" => (isRunning' <=> isRunning)
        /\ isRunning' \in BOOLEAN
  <2>1. CASE Recreate
    BY <2>1 DEF Recreate, service, RunInv, Places
  <2>2. CASE StartService /\ isRunning
    BY <2>2 DEF StartService
  <2>3. CASE StartService /\ ~isRunning
    BY <2>3 DEF StartService, Undisturbed
  <2> QED BY <2>1, <2>2, <2>3
<1>3. /\ pc'[Main] = p /\ \A w \in Worker : w # Main => pc'[w] = pc[w]
      /\ pc' \in [Worker -> Place]
  BY <1>1, <1>2 DEF Place
<1>4. Stops' <=> Stops
  BY <1>2, <1>3 DEF Stops, Stopping
<1>5. p = "assign" => ~Stops
  BY <1>2 DEF Restarting, Stops, Worker, Stopping
<1>6. Fresh' /\ Waiters'
  BY <1>1, <1>2, <1>3 DEF RunInv, Fresh, Waiters
<1>7. Stopped'
  BY <1>1, <1>2, <1>4, <1>5 DEF RunInv, Stopped
<1>8. Places'
  BY <1>1, <1>2, <1>3 DEF RunInv, Places, Starting, Stopping, Worker
<1>9. Served'
  <2>1. CASE p = "assign"
    BY <1>1, <1>2, <1>3, <1>5, <2>1 DEF RunInv, Stopped, Served
  <2>2. CASE p # "assign"
    BY <1>1, <1>2, <1>3, <2>2 DEF RunInv, Served
  <2> QED BY <2>1, <2>2
<1> QED BY <1>6, <1>7, <1>8, <1>9 DEF RunInv

\* The new thread is the one the service has (DeviceRpcHandler.init).
LEMMA RunThread ==
  ASSUME EscapeInv, RunInv, AssignThread \/ StartThread \/ DoRestartProcedure
  PROVE  RunInv'
<1> USE Workers DEF Goes
<1>1. /\ pc \in [Worker -> Place] /\ state \in [Thread -> State]
      /\ isRunning /\ ~Restarting /\ pc[Main] \in Starting
  BY DEF AssignThread, StartThread, DoRestartProcedure, Starting, EscapeInv, Types,
     StartsAlone
<1>2. PICK p \in {"start", "procedure", "idle"} :
        /\ pc' = [pc EXCEPT ![Main] = p]
        /\ UNCHANGED <<isRunning, interrupt, joining>>
        /\ restartProcedure' \in BOOLEAN
  BY DEF AssignThread, StartThread, DoRestartProcedure, service, threads, RunInv, Places
<1>3. pc'[Main] = p /\ \A w \in Worker : w # Main => pc'[w] = pc[w]
  BY <1>1, <1>2
<1>4. ~Stops'
  BY <1>1, <1>2, <1>3 DEF Restarting, Stops, Worker, Stopping
<1>5. Waiters' /\ Places' /\ Stopped'
  <2>1. \A w \in Worker : pc'[w] = "joining" => pc[w] = "joining"
    BY <1>2, <1>3
  <2>2. Waiters'
    BY <1>2, <2>1 DEF RunInv, Waiters
  <2>3. Places'
    BY <1>2, <1>3 DEF RunInv, Places, Starting, Stopping, Worker
  <2> QED BY <1>1, <1>2, <1>4, <2>2, <2>3 DEF Stopped
<1>6. CASE AssignThread
  <2>1. /\ pc[Main] = "assign" /\ pc'[Main] = "start"
        /\ made' = made + 1 /\ rpcThread' = made + 1
        /\ state' = [state EXCEPT ![made + 1] = "new"]
    BY <1>1, <1>6 DEF AssignThread
  <2>2. made < MaxThreads /\ made \in 0 .. MaxThreads /\ MaxThreads \in Nat
    BY <2>1, AnxServiceAssumption DEF RunInv, Fresh
  <2>3. made + 1 \in Thread /\ made + 1 # None
    BY <2>2 DEF Thread, None
  <2>4. Fresh'
    BY <1>2, <2>1, <2>2 DEF RunInv, Fresh, Thread
  <2>5. state'[made + 1] = "new" /\ ~interrupt[made + 1]
    BY <1>1, <2>1, <2>2, <2>3 DEF RunInv, Fresh, Thread
  <2> QED BY <1>2, <1>5, <2>1, <2>3, <2>4, <2>5 DEF RunInv, Served
<1>7. CASE StartThread
  <2>1. pc[Main] = "start" /\ pc'[Main] = "procedure" /\ rpcThread' = rpcThread /\ made' = made
    BY <1>1, <1>7 DEF StartThread
  <2>2. rpcThread # None /\ ~interrupt[rpcThread]
    BY <1>1, <2>1 DEF RunInv, Served
  <2>3. rpcThread \in Thread
    BY <2>2, AnxServiceAssumption DEF RunInv, Fresh, Thread, None
  <2>4. state' = [state EXCEPT ![rpcThread] = "serving"]
    BY <1>7, <2>2 DEF StartThread
  <2>5. state'[rpcThread] = "serving"
    BY <1>1, <2>3, <2>4
  <2>6. Fresh'
    BY <1>2, <2>1 DEF RunInv, Fresh
  <2> QED BY <1>2, <1>5, <2>1, <2>2, <2>5, <2>6 DEF RunInv, Served
<1>8. CASE DoRestartProcedure
  <2>1. /\ pc[Main] = "procedure" /\ pc'[Main] = "idle"
        /\ UNCHANGED <<rpcThread, made, state>>
    BY <1>1, <1>8 DEF DoRestartProcedure, threads
  <2> QED BY <1>1, <1>2, <1>5, <2>1 DEF RunInv, Fresh, Served
<1> QED BY <1>6, <1>7, <1>8

\* Whoever stops the server has cleared isRunning (stopAnxService).
LEMMA RunStop ==
  ASSUME EscapeInv, RunInv, Undisturbed, StopService \/ \E r \in Restarter : Restart(r)
  PROVE  RunInv'
<1> USE Workers DEF Goes
<1>1. /\ UNCHANGED <<rpcThread, made, state, interrupt, joining, restartProcedure>>
      /\ pc \in [Worker -> Place]
  BY DEF StopService, Restart, service, threads, EscapeInv, Types
<1>2. PICK w \in Worker, p \in {"destroy", "am"} :
        /\ pc' = [pc EXCEPT ![w] = p]
        /\ IF w = Main THEN pc[w] = "idle" /\ p = "destroy" ELSE pc[w] = "sleeping"
        /\ isRunning' = (isRunning /\ p = "am")
  <2>1. CASE StopService
    BY <2>1 DEF StopService
  <2>2. ASSUME NEW r \in Restarter, Restart(r)
        PROVE  /\ pc' = [pc EXCEPT ![r] = IF restartProcedure THEN "destroy" ELSE "am"]
               /\ pc[r] = "sleeping" /\ r # Main
               /\ isRunning' = (isRunning /\ ~restartProcedure)
    BY <2>2 DEF Restart
  <2>3. ASSUME NEW r \in Restarter, Restart(r)
        PROVE  \E w \in Worker, p \in {"destroy", "am"} :
                 /\ pc' = [pc EXCEPT ![w] = p]
                 /\ IF w = Main THEN pc[w] = "idle" /\ p = "destroy" ELSE pc[w] = "sleeping"
                 /\ isRunning' = (isRunning /\ p = "am")
    <3>1. r \in Worker
      OBVIOUS
    <3>2. CASE restartProcedure
      BY <2>3, <2>2, <3>1, <3>2
    <3>3. CASE ~restartProcedure
      BY <2>3, <2>2, <3>1, <3>3
    <3> QED BY <3>2, <3>3
  <2> QED BY <2>1, <2>3
<1>3. pc'[w] = p /\ \A v \in Worker : v # w => pc'[v] = pc[v]
  BY <1>1, <1>2
<1>4. Stops' <=> Stops \/ p = "destroy"
  BY <1>2, <1>3 DEF Stops, Stopping
<1>5. isRunning' => isRunning /\ p = "am" /\ w # Main /\ pc'[Main] = pc[Main]
  BY <1>2, <1>3
<1>6. Fresh' /\ Waiters'
  BY <1>1, <1>2, <1>3 DEF RunInv, Fresh, Waiters
<1>7. Stopped'
  BY <1>1, <1>2, <1>4, <1>5 DEF RunInv, Stopped
<1>8. Served'
  BY <1>1, <1>5 DEF RunInv, Served
<1>9. Places'
  <2>1. w # Main => w \in Restarter
    BY DEF Worker
  <2>2. isRunning' \in BOOLEAN
    BY <1>2
  <2> QED BY <1>1, <1>2, <1>3, <2>1, <2>2 DEF RunInv, Places, Starting, Stopping
<1> QED BY <1>6, <1>7, <1>8, <1>9 DEF RunInv

\* destroy() ends with no server.
LEMMA RunDestroy ==
  ASSUME EscapeInv, RunInv, NEW w \in Worker, Destroy(w)
  PROVE  RunInv'
<1> USE Workers DEF Goes
<1>1. /\ UNCHANGED <<isRunning, restartProcedure, made, state>>
      /\ pc \in [Worker -> Place]
  BY DEF Destroy, SetInterrupt, CallJoin, Joined, ClearThread, service, threads,
     EscapeInv, Types
<1>2. Stops /\ ~isRunning /\ ~isRunning'
  <2>1. Stops
    BY DEF Destroy, SetInterrupt, CallJoin, Joined, ClearThread, Stops, Stopping
  <2> QED BY <1>1, <2>1 DEF RunInv, Stopped
<1>3. Served'
  BY <1>2 DEF Served
<1>4. PICK p \in {"join", "joining", "clear", "idle", "am"} :
        /\ pc' = [pc EXCEPT ![w] = p] /\ pc[w] \in Stopping
        /\ p = "joining" => joining'[w] # None
        /\ p \in {"idle", "am"} => rpcThread' = None
        /\ p = "idle" => w = Main
        /\ p = "am" => w # Main
        /\ rpcThread' \in {rpcThread, None}
        /\ joining' \in [Worker -> Thread \cup {None}]
        /\ \A v \in Worker : v # w => joining'[v] = joining[v]
        /\ \/ interrupt' = interrupt
           \/ interrupt' = [t \in Thread |-> interrupt[t] \/ t = rpcThread]
  <2>1. joining \in [Worker -> Thread \cup {None}] /\ rpcThread \in Thread \cup {None}
    BY AnxServiceAssumption DEF RunInv, Waiters, Fresh, Thread, None
  <2>2. CASE SetInterrupt(w)
    BY <2>1, <2>2 DEF SetInterrupt, Stopping
  <2>3. CASE CallJoin(w)
    BY <2>1, <2>3 DEF CallJoin, Stopping, threads
  <2>4. CASE Joined(w)
    BY <2>1, <2>4 DEF Joined, Stopping, threads
  <2>5. CASE ClearThread(w)
    BY <2>1, <2>5 DEF ClearThread, Stopping, threads
  <2> QED BY <2>2, <2>3, <2>4, <2>5 DEF Destroy
<1>5. pc'[w] = p /\ \A v \in Worker : v # w => pc'[v] = pc[v]
  BY <1>1, <1>4
<1>6. Stopped'
  <2>1. p \in {"join", "joining", "clear"} => Stops'
    BY <1>5 DEF Stops, Stopping
  <2> QED BY <1>2, <1>4, <2>1 DEF Stopped
<1>7. Waiters'
  BY <1>4, <1>5 DEF RunInv, Waiters
<1>8. Places'
  <2>1. w # Main => w \in Restarter
    BY DEF Worker
  <2> QED BY <1>1, <1>4, <1>5, <2>1 DEF RunInv, Places, Starting, Stopping
<1>9. Fresh'
  <2>1. interrupt' \in [Thread -> BOOLEAN]
    BY <1>4 DEF RunInv, Fresh
  <2>2. \A t \in Thread : t > made => t # rpcThread
    BY DEF RunInv, Fresh, Thread
  <2>3. \A t \in Thread : t > made => ~interrupt'[t]
    BY <1>4, <2>2 DEF RunInv, Fresh
  <2>4. rpcThread' \in 0 .. made
    BY <1>4, AnxServiceAssumption DEF RunInv, Fresh, None
  <2>5. pc'[Main] # "assign"
    BY <1>2, <1>4, <1>5 DEF EscapeInv, StartsAlone, Starting
  <2> QED BY <1>1, <2>1, <2>3, <2>4, <2>5 DEF RunInv, Fresh
<1> QED BY <1>3, <1>6, <1>7, <1>8, <1>9 DEF RunInv

\* A new process has no server and does not run the service.
LEMMA RunAm ==
  ASSUME EscapeInv, RunInv, NEW r \in Restarter, AmStart(r)
  PROVE  RunInv'
<1> USE Workers
<1>1. pc \in [Worker -> Place] /\ made' = made /\ interrupt' = interrupt /\ r # Main
  BY DEF AmStart, EscapeInv, Types
<1>2. CASE Headless
  <2>1. /\ pc' = [w \in Worker |-> IF w = Main THEN "create"
                                 ELSE IF pc[w] = "none" THEN "none" ELSE "done"]
        /\ isRunning' = FALSE /\ restartProcedure' = FALSE /\ rpcThread' = None
        /\ joining' = [w \in Worker |-> None]
    BY <1>2 DEF AmStart
  <2>2. pc'[Main] = "create" /\ \A w \in Restarter : pc'[w] \in {"none", "done"}
    BY <2>1
  <2>3. \A w \in Worker : pc'[w] \in {"create", "none", "done"}
    BY <2>1
  <2>4. Fresh'
    BY <1>1, <2>1, <2>2, AnxServiceAssumption DEF RunInv, Fresh, None
  <2>5. Waiters' /\ Places'
    BY <2>1, <2>2, <2>3 DEF Waiters, Places
  <2> QED BY <2>1, <2>4, <2>5 DEF RunInv, Stopped, Served
<1>3. CASE ~Headless
  <2>1. /\ pc[r] = "am" /\ pc' = [pc EXCEPT ![r] = "done"]
        /\ UNCHANGED <<isRunning, restartProcedure, rpcThread, state, joining>>
    BY <1>3 DEF AmStart, service
  <2>2. pc'[r] = "done" /\ \A w \in Worker : w # r => pc'[w] = pc[w]
    BY <1>1, <2>1
  <2>3. Stops' <=> Stops
    BY <2>1, <2>2 DEF Stops, Stopping
  <2>4. Fresh' /\ Waiters' /\ Stopped'
    BY <1>1, <2>1, <2>2, <2>3 DEF RunInv, Fresh, Waiters, Stopped
  <2>5. Served' /\ Places'
    BY <1>1, <2>1, <2>2 DEF RunInv, Served, Places
  <2> QED BY <2>4, <2>5 DEF RunInv
<1> QED BY <1>2, <1>3

\* The server of a service that runs has not been told to end: it serves or it
\* dies.
LEMMA RunServe ==
  ASSUME EscapeInv, RunInv, NEW t \in Thread, CallRestart(t) \/ Ends(t) \/ Dies(t)
  PROVE  RunInv'
<1> USE Workers DEF Goes
<1>1. /\ UNCHANGED <<isRunning, restartProcedure, rpcThread, made, interrupt, joining>>
      /\ pc \in [Worker -> Place] /\ state \in [Thread -> State] /\ state[t] = "serving"
  BY DEF CallRestart, Ends, Dies, service, threads, EscapeInv, Types
<1>2. /\ pc'[Main] = pc[Main]
      /\ \A w \in Worker : pc'[w] = pc[w]
                           \/ (w # Main /\ pc[w] = "none" /\ pc'[w] = "sleeping")
  <2>1. CASE CallRestart(t)
    <3>1. PICK r \in Restarter : pc[r] = "none" /\ pc' = [pc EXCEPT ![r] = "sleeping"]
      BY <2>1 DEF CallRestart
    <3> QED BY <1>1, <3>1
  <2>2. CASE Ends(t) \/ Dies(t)
    BY <2>2 DEF Ends, Dies
  <2> QED BY <2>1, <2>2
<1>3. Stops' <=> Stops
  BY <1>2 DEF Stops, Stopping
<1>4. Fresh' /\ Waiters' /\ Stopped'
  BY <1>1, <1>2, <1>3 DEF RunInv, Fresh, Waiters, Stopped
<1>5. Places'
  BY <1>1, <1>2 DEF RunInv, Places, Worker
<1>6. Served'
  <2>1. \A u \in Thread :
          state'[u] = state[u] \/ (u = t /\ (state'[u] = "dead" \/ interrupt[u]))
    <3>1. CASE CallRestart(t)
      BY <3>1 DEF CallRestart, threads
    <3>2. CASE Ends(t)
      BY <1>1, <3>2 DEF Ends
    <3>3. CASE Dies(t)
      BY <1>1, <3>3 DEF Dies
    <3> QED BY <3>1, <3>2, <3>3
  <2>2. rpcThread # None => rpcThread \in Thread
    BY AnxServiceAssumption DEF RunInv, Fresh, Thread, None
  <2>3. state[rpcThread] = "new" => rpcThread # t
    BY <1>1
  <2> QED BY <1>1, <1>2, <2>1, <2>2, <2>3 DEF RunInv, Served
<1> QED BY <1>4, <1>5, <1>6 DEF RunInv

\* Everything but the stop button of the activity, which takes the server
\* from a service that goes on taking itself for running.
ServiceStep ==
  \/ Recreate \/ StartService \/ AssignThread \/ StartThread \/ DoRestartProcedure
  \/ StopService
  \/ \E w \in Worker : Destroy(w)
  \/ \E r \in Restarter : Restart(r) \/ AmStart(r)
  \/ \E t \in Thread : CallRestart(t) \/ Ends(t) \/ Dies(t)

LEMMA RunNext ==
  ASSUME EscapeInv, RunInv, [ServiceStep /\ Undisturbed]_vars
  PROVE  RunInv'
<1>1. CASE UNCHANGED vars
  BY <1>1 DEF vars, service, threads, RunInv, Fresh, Stopped, Stops, Served, Waiters, Places
<1>2. CASE ServiceStep /\ Undisturbed
  BY <1>2, RunStart, RunThread, RunStop, RunDestroy, RunAm, RunServe DEF ServiceStep
<1> QED BY <1>1, <1>2

\* When nobody starts or stops it, the service has what isRunning says.
LEMMA RunMeans == RunInv => RunningHasServer
<1> SUFFICES ASSUME RunInv, \A w \in Worker : pc[w] \notin Starting \cup Stopping
             PROVE  /\ isRunning <=> rpcThread # None
                    /\ isRunning => state[rpcThread] \in {"serving", "dead"}
                                    /\ ~interrupt[rpcThread]
  BY DEF RunningHasServer
<1>1. ~Stops /\ pc[Main] \notin Starting
  BY Workers DEF Stops
<1> QED BY <1>1 DEF RunInv, Stopped, Served, Starting

LEMMA RunTypes == EscapeInv /\ RunInv => TypeOK
<1> SUFFICES ASSUME EscapeInv, RunInv PROVE TypeOK
  OBVIOUS
<1>1. rpcThread \in Thread \cup {None} /\ made \in 0 .. MaxThreads
  BY AnxServiceAssumption DEF RunInv, Fresh, Thread, None
<1>2. state \in [Thread -> {"none", "new", "serving", "ended", "dead"}]
  BY DEF EscapeInv, Types, State
<1>3. pc \in [Worker -> {pc[Main]} \cup {"none", "sleeping", "am", "done"} \cup Stopping]
  <2>1. \A w \in Worker : w = Main \/ w \in Restarter
    BY DEF Worker
  <2>2. \A w \in Worker :
          pc[w] \in {pc[Main]} \cup {"none", "sleeping", "am", "done"} \cup Stopping
    BY <2>1 DEF RunInv, Places
  <2> QED BY <2>2 DEF EscapeInv, Types
<1> QED BY <1>1, <1>2, <1>3 DEF TypeOK, RunInv, Fresh, Waiters, Places

-----------------------------------------------------------------------------
LEMMA Rounds ==
  \A m \in Imu!Message :
    /\ FollowedBy[m] \in Imu!Message
    /\ Ahead[m] \in 0 .. 2
    /\ Ahead[FollowedBy[m]] = IF m = "create" THEN 2 ELSE Ahead[m] - 1
BY DEF Imu!Message, FollowedBy, Ahead

\* What the stream's state says in terms of messages.
LEMMA StreamTypes ==
  ASSUME StreamInv
  PROVE  /\ Posted \in Seq(Imu!Message) /\ Len(Posted) \in Nat
         /\ Asked \in Imu!Message /\ Expected \in Imu!Message
         /\ imuThread # 0 => imuThread \in Imu!Looper
         /\ imuMade # 0 => imuMade \in Imu!Imu
<1>1. imuThread # 0 => imuThread \in Imu!Looper
  BY AnxAppAssumption DEF StreamInv, ImuTypes, Imu!Looper
<1>2. imuMade # 0 => imuMade \in Imu!Imu
  BY AnxAppAssumption DEF StreamInv, ImuTypes, Imu!Imu
<1>3. Posted \in Seq(Imu!Message) /\ Len(Posted) \in Nat
  <2>1. <<>> \in Seq(Imu!Message)
    OBVIOUS
  <2>2. Posted \in Seq(Imu!Message)
    BY <1>1, <2>1 DEF StreamInv, ImuTypes, Posted
  <2> QED BY <2>2
<1>4. Asked \in Imu!Message /\ Expected \in Imu!Message
  BY DEF Asked, Expected, Imu!Message
<1> QED BY <1>1, <1>2, <1>3, <1>4

LEMMA StreamInit == AppInit => StreamInv
<1> SUFFICES ASSUME AppInit PROVE StreamInv
  OBVIOUS
<1> USE AnxAppAssumption
<1>1. Init /\ Imu!Init
  BY DEF AppInit
<1>2. ImuTypes
  BY <1>1 DEF Imu!Init, ImuTypes, Imu!None, Imu!Looper, Imu!Imu
<1>3. Native
  BY <1>1 DEF Imu!Init, Native, Imu!None, Imu!Looper, Imu!Imu
<1>4. Loopers
  BY <1>1, Workers DEF Init, Imu!Init, Loopers, Imu!None, Starting
<1>5. Posted = <<>> /\ Asked = "create" /\ Expected = "create"
  BY <1>1 DEF Imu!Init, Posted, Asked, Expected, Imu!None
<1>6. Len(Posted) = 0
  BY <1>5
<1>7. InTurn
  BY <1>5, <1>6 DEF InTurn, Turn
<1>8. NoMoreObjects
  BY <1>1, <1>5, <1>6 DEF NoMoreObjects, Imu!Init, Ahead
<1> QED BY <1>1, <1>2, <1>3, <1>4, <1>7, <1>8 DEF StreamInv, Imu!Init, Crashes

\* A message that is asked for is posted.
LEMMA Posting ==
  ASSUME StreamInv, imuThread # 0, handler[imuThread],
         Imu!SendMsg(Asked), Asked' = FollowedBy[Asked],
         UNCHANGED <<imuThread, handler, imuJoining, device_imu_, imuMade, publisher>>
  PROVE  /\ queue' \in [Imu!Looper -> Seq(Imu!Message)]
         /\ \A l \in Imu!Looper : l # imuThread => queue'[l] = <<>>
         /\ InTurn' /\ Expected' = Expected
         /\ Len(Posted') = Len(Posted) + 1
<1>1. imuThread \in Imu!Looper /\ Asked \in Imu!Message /\ Len(Posted) \in Nat
      /\ Posted \in Seq(Imu!Message)
  BY StreamTypes
<1>2. queue' = [queue EXCEPT ![imuThread] = Append(@, Asked)]
  BY DEF Imu!SendMsg, Imu!None
<1>3. queue \in [Imu!Looper -> Seq(Imu!Message)]
  BY DEF StreamInv, ImuTypes
<1>4. /\ queue' \in [Imu!Looper -> Seq(Imu!Message)]
      /\ \A l \in Imu!Looper : l # imuThread => queue'[l] = <<>>
  BY <1>1, <1>2, <1>3 DEF StreamInv, Loopers
<1>5. Posted' = Append(Posted, Asked)
  BY <1>1, <1>2, <1>3 DEF Posted
<1>6. /\ Len(Posted') = Len(Posted) + 1
      /\ \A n \in 1 .. Len(Posted) : Posted'[n] = Posted[n]
      /\ Posted'[Len(Posted) + 1] = Asked
  BY <1>1, <1>5
<1>7. Expected' = Expected
  BY DEF Expected
<1>8. \A n \in 1 .. Len(Posted) + 1 : Turn(n)' = Turn(n)
  BY <1>1, <1>6 DEF Turn
<1>9. InTurn'
  <2>1. Turn(1)' = Expected'
    BY <1>1, <1>7, <1>8 DEF StreamInv, InTurn
  <2>2. ASSUME NEW n \in 1 .. Len(Posted')
        PROVE  Turn(n + 1)' = FollowedBy[Turn(n)']
    <3>1. CASE n = Len(Posted) + 1
      <4>1. n + 1 = Len(Posted) + 2 /\ n \in 1 .. Len(Posted) + 1
        BY <1>1, <3>1
      <4>2. Turn(n)' = Turn(n)
        BY <1>8, <4>1
      <4>3. Turn(n + 1)' = FollowedBy[Turn(n)]
        <5>1. Turn(n + 1)' = Asked' /\ Turn(n) = Asked
          BY <1>1, <1>6, <3>1 DEF Turn
        <5> QED BY <5>1
      <4> QED BY <4>2, <4>3
    <3>2. CASE n \in 1 .. Len(Posted)
      BY <1>1, <1>8, <3>2 DEF StreamInv, InTurn
    <3> QED BY <1>1, <1>6, <3>1, <3>2
  <2> QED BY <2>1, <2>2 DEF InTurn
<1> QED BY <1>4, <1>6, <1>7, <1>9

\* A looper takes a message: it is the last looper, and the message is the one
\* that is expected.
LEMMA Taking ==
  ASSUME StreamInv, NEW l \in Imu!Looper, NEW what \in Imu!Message, Imu!Take(l, what)
  PROVE  /\ l = imuThread /\ what = Expected /\ imuJoining[l] = 0
         /\ \A k \in Imu!Looper : imuJoining[k] = 0
         /\ Len(Posted) \in Nat \ {0}
         /\ Posted' = Tail(Posted) /\ Len(Posted') = Len(Posted) - 1
         /\ queue' \in [Imu!Looper -> Seq(Imu!Message)]
         /\ \A k \in Imu!Looper : k # imuThread => queue'[k] = <<>>
         /\ UNCHANGED <<rpc, calls, wanted, imuThread, handler>> /\ Asked' = Asked
         /\ Expected' = FollowedBy[Expected] => InTurn'
<1>1. /\ imuJoining[l] = 0 /\ queue[l] # <<>> /\ Head(queue[l]) = what
      /\ queue' = [queue EXCEPT ![l] = Tail(@)]
      /\ UNCHANGED <<rpc, calls, wanted, imuThread, handler>>
  BY DEF Imu!Take, Imu!None, Imu!callVars
<1>2. l = imuThread /\ l # 0
  BY <1>1, AnxAppAssumption DEF StreamInv, Loopers, Imu!Looper
<1>3. Posted \in Seq(Imu!Message) /\ Posted = queue[l] /\ Posted # <<>>
  BY <1>1, <1>2, StreamTypes DEF Posted
<1>4. /\ Len(Posted) \in Nat \ {0} /\ Posted[1] = what
      /\ Tail(Posted) \in Seq(Imu!Message) /\ Len(Tail(Posted)) = Len(Posted) - 1
      /\ \A n \in 1 .. Len(Posted) - 1 : Tail(Posted)[n] = Posted[n + 1]
  BY <1>1, <1>3
<1>5. what = Expected
  <2>1. 1 <= Len(Posted)
    BY <1>4
  <2> QED BY <1>4, <2>1 DEF StreamInv, InTurn, Turn
<1>6. \A k \in Imu!Looper : imuJoining[k] = 0
  BY <1>1, <1>2 DEF StreamInv, Native
<1>7. queue \in [Imu!Looper -> Seq(Imu!Message)]
  BY DEF StreamInv, ImuTypes
<1>8. /\ queue' \in [Imu!Looper -> Seq(Imu!Message)]
      /\ \A k \in Imu!Looper : k # imuThread => queue'[k] = <<>>
  BY <1>1, <1>2, <1>3, <1>4, <1>7 DEF StreamInv, Loopers
<1>9. Posted' = Tail(Posted)
  BY <1>1, <1>2, <1>3, <1>7 DEF Posted
<1>10. Asked' = Asked
  BY <1>1 DEF Asked
<1>11. ASSUME Expected' = FollowedBy[Expected] PROVE InTurn'
  <2>1. \A n \in 1 .. Len(Posted) : Turn(n)' = Turn(n + 1)
    BY <1>4, <1>9, <1>10 DEF Turn
  <2>2. \A n \in 1 .. Len(Posted) : Turn(n + 1) = FollowedBy[Turn(n)]
    BY DEF StreamInv, InTurn
  <2>3. Turn(1) = Expected
    BY DEF StreamInv, InTurn
  <2>4. Turn(1)' = Expected'
    BY <1>4, <1>11, <2>1, <2>2, <2>3
  <2>5. ASSUME NEW n \in 1 .. Len(Posted')
        PROVE  Turn(n + 1)' = FollowedBy[Turn(n)']
    <3>1. n \in 1 .. Len(Posted) /\ n + 1 \in 1 .. Len(Posted)
      BY <1>4, <1>9
    <3> QED BY <2>1, <2>2, <3>1
  <2> QED BY <2>4, <2>5 DEF InTurn
<1> QED BY <1>1, <1>2, <1>4, <1>5, <1>6, <1>8, <1>9, <1>10, <1>11

\* The service is not starting, and its looper is ready for the message.
LEMMA StreamPost ==
  ASSUME StreamInv, UNCHANGED pc, pc[Main] \notin Starting,
         imuThread # 0, handler[imuThread], Imu!SendMsg(Asked),
         Asked' = FollowedBy[Asked], rpc' \in {"idle", "start"}, wanted' \in {"start", "stop"},
         calls' \in {calls, calls + 1}, calls' <= MaxCalls, Asked = "create" => calls' = calls + 1,
         UNCHANGED <<imuThread, handler, imuJoining, device_imu_, imuMade,
                     publisher, is_running_, owner>>, crashed' = FALSE
  PROVE  StreamInv'
<1>1. /\ queue' \in [Imu!Looper -> Seq(Imu!Message)]
      /\ \A l \in Imu!Looper : l # imuThread => queue'[l] = <<>>
      /\ InTurn' /\ Expected' = Expected
      /\ Len(Posted') = Len(Posted) + 1
  BY Posting
<1>2. Native'
  BY DEF StreamInv, Native
<1>3. Loopers'
  BY <1>1 DEF Loopers
<1>4. ImuTypes'
  BY <1>1, AnxAppAssumption DEF StreamInv, ImuTypes
<1>5. NoMoreObjects'
  <2>1. /\ Asked \in Imu!Message /\ Expected \in Imu!Message /\ Len(Posted) \in Nat
        /\ calls \in Nat /\ imuMade \in Nat
    <3>1. calls \in Nat /\ imuMade \in Nat
      BY AnxAppAssumption DEF StreamInv, ImuTypes
    <3> QED BY <3>1, StreamTypes
  <2>2. /\ Ahead[Asked] \in 0 .. 2 /\ Ahead[Expected] \in 0 .. 2 /\ Ahead["create"] = 0
        /\ Ahead[Asked'] = IF Asked = "create" THEN 2 ELSE Ahead[Asked] - 1
    BY <2>1, Rounds DEF Ahead
  <2>3. 3 * imuMade - Ahead[Expected] + Len(Posted) <= 3 * calls - Ahead[Asked]
    BY DEF StreamInv, NoMoreObjects
  <2>4. 3 * imuMade - Ahead[Expected] + (Len(Posted) + 1) <= 3 * calls' - Ahead[Asked']
    <3>1. CASE Asked = "create"
      BY <2>1, <2>2, <2>3, <3>1
    <3>2. CASE Asked # "create"
      <4>1. calls' \in Nat /\ calls' >= calls
        BY <2>1
      <4>2. Ahead[Asked'] = Ahead[Asked] - 1 /\ Ahead[Expected] \in 0 .. 2 /\ Ahead[Asked] \in 0 .. 2
        BY <2>2, <3>2
      <4>3. \A m, e, n, c, a, d \in Nat :
              3 * m - e + n <= 3 * c - a /\ d >= c
                => 3 * m - e + (n + 1) <= 3 * d - (a - 1)
        OBVIOUS
      <4>4. Ahead[Expected] \in Nat /\ Ahead[Asked] \in Nat
        BY <4>2
      <4> QED BY <2>1, <2>3, <4>1, <4>2, <4>3, <4>4
    <3> QED BY <3>1, <3>2
  <2> QED BY <1>1, <2>4 DEF NoMoreObjects
<1> QED BY <1>1, <1>2, <1>3, <1>4, <1>5 DEF StreamInv, Crashes

\* A call is made, or goes on (DeviceImu.start, DeviceImu.stop).
LEMMA StreamCall ==
  ASSUME StreamInv, OrderlyCalls, Call
  PROVE  StreamInv'
<1>1. UNCHANGED pc /\ rpc \in {"idle", "start"} /\ wanted \in {"start", "stop"}
      /\ calls \in 0 .. MaxCalls /\ MaxCalls \in Nat
  BY AnxAppAssumption DEF Call, vars, StreamInv, ImuTypes
<1>2. CASE Imu!Start
  <2>1. wanted = "stop" /\ LooperReady
    BY <1>2 DEF OrderlyCalls, Imu!Alternating
  <2>2. /\ rpc = "idle" /\ calls < MaxCalls /\ calls' = calls + 1
        /\ Imu!SendMsg("create") /\ rpc' = "start"
        /\ UNCHANGED <<wanted, imuThread, handler, imuJoining, device_imu_, imuMade,
                       publisher, is_running_, owner>> /\ crashed' = FALSE
    BY <1>2 DEF Imu!Start, Imu!nativeVars, StreamInv, Crashes
  <2>3. Asked = "create" /\ Asked' = "start" /\ FollowedBy["create"] = "start"
    BY <2>1, <2>2 DEF Asked, FollowedBy
  <2>4. calls' \in {calls, calls + 1} /\ calls' <= MaxCalls
    BY <1>1, <2>2
  <2> QED BY <1>1, <2>1, <2>2, <2>3, <2>4, StreamPost DEF LooperReady
<1>3. CASE Imu!StartSecondMsg
  <2>1. /\ rpc = "start" /\ Imu!SendMsg("start") /\ rpc' = "idle" /\ wanted' = "start"
        /\ UNCHANGED <<calls, imuThread, handler, imuJoining, device_imu_, imuMade,
                       publisher, is_running_, owner>> /\ crashed' = FALSE
    BY <1>3 DEF Imu!StartSecondMsg, Imu!nativeVars, StreamInv, Crashes
  <2>2. Asked = "start" /\ Asked' = "stop" /\ FollowedBy["start"] = "stop"
    BY <2>1 DEF Asked, FollowedBy
  <2>3. imuThread # 0 /\ handler[imuThread] /\ pc[Main] \notin Starting
    BY <2>1 DEF StreamInv, Loopers, Imu!Quiet
  <2>4. calls' \in {calls, calls + 1} /\ calls' <= MaxCalls
    BY <1>1, <2>1
  <2> QED BY <1>1, <2>1, <2>2, <2>3, <2>4, StreamPost
<1>4. CASE Imu!Stop
  <2>1. wanted = "start" /\ LooperReady
    BY <1>4 DEF OrderlyCalls, Imu!Alternating
  <2>2. /\ rpc = "idle" /\ calls < MaxCalls /\ calls' = calls + 1
        /\ Imu!SendMsg("stop") /\ wanted' = "stop"
        /\ UNCHANGED <<rpc, imuThread, handler, imuJoining, device_imu_, imuMade,
                       publisher, is_running_, owner>> /\ crashed' = FALSE
    BY <1>4 DEF Imu!Stop, Imu!nativeVars, StreamInv, Crashes
  <2>3. Asked = "stop" /\ Asked' = "create" /\ FollowedBy["stop"] = "create"
    BY <2>1, <2>2 DEF Asked, FollowedBy
  <2>4. calls' \in {calls, calls + 1} /\ calls' <= MaxCalls
    BY <1>1, <2>2
  <2> QED BY <1>1, <2>1, <2>2, <2>3, <2>4, StreamPost DEF LooperReady
<1> QED BY <1>2, <1>3, <1>4 DEF Call

\* A message that is taken moves the native object on.
LEMMA StreamTake ==
  ASSUME StreamInv, UNCHANGED pc, NEW l \in Imu!Looper, NEW what \in Imu!Message,
         Imu!Take(l, what), Expected' = FollowedBy[Expected],
         imuMade' = (IF what = "create" THEN imuMade + 1 ELSE imuMade),
         imuMade' <= MaxCalls, Native', crashed' = FALSE,
         imuJoining' \in [Imu!Looper -> Imu!Imu \cup {0}],
         publisher' \in [Imu!Imu -> {"none", "joined", "running", "returned"}],
         is_running_' \in [Imu!Imu -> BOOLEAN]
  PROVE  StreamInv'
<1>1. /\ l = imuThread /\ what = Expected
      /\ Len(Posted) \in Nat \ {0} /\ Len(Posted') = Len(Posted) - 1
      /\ queue' \in [Imu!Looper -> Seq(Imu!Message)]
      /\ \A k \in Imu!Looper : k # imuThread => queue'[k] = <<>>
      /\ UNCHANGED <<rpc, calls, wanted, imuThread, handler>> /\ Asked' = Asked
      /\ InTurn'
  BY Taking
<1>2. pc[Main] \notin Starting
  <2>1. queue[l] # <<>>
    BY DEF Imu!Take
  <2> QED BY <2>1 DEF StreamInv, Loopers, Imu!Quiet
<1>3. Loopers'
  BY <1>1, <1>2 DEF StreamInv, Loopers
<1>4. imuMade \in Nat /\ calls \in Nat /\ imuMade' \in 0 .. MaxCalls
  BY AnxAppAssumption DEF StreamInv, ImuTypes
<1>5. ImuTypes'
  BY <1>1, <1>4 DEF StreamInv, ImuTypes
<1>6. NoMoreObjects'
  <2>1. /\ Ahead[Asked] \in 0 .. 2 /\ Ahead[Expected] \in 0 .. 2 /\ Ahead["create"] = 0
        /\ Ahead[Expected'] = IF what = "create" THEN 2 ELSE Ahead[Expected] - 1
    BY <1>1, Rounds, StreamTypes DEF Ahead
  <2>2. 3 * imuMade - Ahead[Expected] + Len(Posted) <= 3 * calls - Ahead[Asked]
    BY DEF StreamInv, NoMoreObjects
  <2>3. 3 * imuMade' - Ahead[Expected'] + (Len(Posted) - 1) <= 3 * calls - Ahead[Asked]
    <3>1. CASE what = "create"
      BY <1>1, <1>4, <2>1, <2>2, <3>1
    <3>2. CASE what # "create"
      BY <1>1, <1>4, <2>1, <2>2, <3>2
    <3> QED BY <3>1, <3>2
  <2> QED BY <1>1, <2>3 DEF NoMoreObjects
<1> QED BY <1>1, <1>3, <1>5, <1>6 DEF StreamInv, Crashes

\* initImu(): the object that gives way has no thread.
LEMMA StreamCreate ==
  ASSUME StreamInv, UNCHANGED pc, NEW l \in Imu!Looper, Imu!InitNativeImu(l)
  PROVE  StreamInv'
<1>1. /\ Imu!Take(l, "create") /\ imuMade' = imuMade + 1 /\ device_imu_' = imuMade + 1
      /\ owner' = imuMade + 1
      /\ crashed' = (device_imu_ # 0 /\ ~Imu!Destructible(device_imu_))
      /\ UNCHANGED <<publisher, is_running_, imuJoining>>
  BY DEF Imu!InitNativeImu, Imu!None
<1>2. /\ "create" = Expected /\ \A k \in Imu!Looper : imuJoining[k] = 0
      /\ Len(Posted) \in Nat \ {0} /\ "create" \in Imu!Message
  BY <1>1, Taking DEF Imu!Message
<1>3. imuMade # 0 => publisher[imuMade] = "joined"
  BY <1>2 DEF Expected, StreamInv, Native
<1>4. crashed' = FALSE
  BY <1>1, <1>2, <1>3, AnxAppAssumption
     DEF StreamInv, Native, Imu!Destructible, Imu!Joinable
<1>5. imuMade < MaxCalls /\ imuMade + 1 \in Imu!Imu
  <2>1. Ahead[Asked] \in 0 .. 2 /\ Ahead[Expected] = 0
    BY <1>2, Rounds, StreamTypes DEF Ahead
  <2>2. 3 * imuMade - 0 + Len(Posted) <= 3 * calls - Ahead[Asked]
    BY <2>1 DEF StreamInv, NoMoreObjects
  <2>3. imuMade \in Nat /\ calls \in 0 .. MaxCalls /\ MaxCalls \in Nat
    BY AnxAppAssumption DEF StreamInv, ImuTypes
  <2> QED BY <1>2, <2>1, <2>2, <2>3 DEF Imu!Imu
<1>6. imuMade \in Nat /\ publisher[imuMade + 1] = "none"
  <2>1. imuMade \in Nat /\ imuMade + 1 > imuMade
    BY AnxAppAssumption DEF StreamInv, ImuTypes
  <2> QED BY <1>5, <2>1 DEF StreamInv, Native
<1>7. Native'
  <2>1. \A j \in Imu!Imu : j # imuMade' => publisher'[j] \in {"none", "joined"}
    <3>1. \A j \in Imu!Imu : j = imuMade => publisher[j] = "joined"
      BY <1>3, AnxAppAssumption DEF Imu!Imu
    <3> QED BY <1>1, <3>1 DEF StreamInv, Native
  <2>2. \A j \in Imu!Imu : j > imuMade' => publisher'[j] = "none"
    BY <1>1, <1>6, AnxAppAssumption DEF StreamInv, Native, Imu!Imu
  <2> QED BY <1>1, <1>2, <1>6, <2>1, <2>2 DEF Native
<1>8. Expected' = FollowedBy[Expected]
  <2>1. Expected' = "start"
    BY <1>1, <1>2, <1>6 DEF Expected
  <2> QED BY <1>2, <2>1 DEF FollowedBy
<1>9. imuMade' <= MaxCalls
  BY <1>1, <1>5, <1>6, AnxAppAssumption
<1> QED BY <1>1, <1>2, <1>4, <1>7, <1>8, <1>9, StreamTake DEF StreamInv, ImuTypes

\* startImu(): there is an object, and it has no thread.
LEMMA StreamRun ==
  ASSUME StreamInv, UNCHANGED pc, NEW l \in Imu!Looper, Imu!StartNativeImu(l)
  PROVE  StreamInv'
<1>1. Imu!Take(l, "start") /\ UNCHANGED <<device_imu_, imuMade, owner, imuJoining>>
  BY DEF Imu!StartNativeImu
<1>2. /\ "start" = Expected /\ \A k \in Imu!Looper : imuJoining[k] = 0
      /\ "start" \in Imu!Message
  BY <1>1, Taking DEF Imu!Message
<1>3. imuMade # 0 /\ device_imu_ = imuMade /\ publisher[imuMade] = "none"
  BY <1>2 DEF Expected, StreamInv, Native
<1>4. imuMade \in Imu!Imu /\ imuMade <= MaxCalls
  BY <1>3, StreamTypes, AnxAppAssumption DEF Imu!Imu, StreamInv, ImuTypes
<1>5. /\ publisher' = [publisher EXCEPT ![imuMade] = "running"]
      /\ is_running_' = [is_running_ EXCEPT ![imuMade] = TRUE]
      /\ crashed' = crashed
  BY <1>3 DEF Imu!StartNativeImu, Imu!None, Imu!Joinable
<1>6. /\ publisher' \in [Imu!Imu -> {"none", "joined", "running", "returned"}]
      /\ is_running_' \in [Imu!Imu -> BOOLEAN]
      /\ publisher'[imuMade] = "running" /\ is_running_'[imuMade]
      /\ \A j \in Imu!Imu : j # imuMade => publisher'[j] = publisher[j]
      /\ imuJoining' \in [Imu!Looper -> Imu!Imu \cup {0}]
  BY <1>1, <1>4, <1>5 DEF StreamInv, ImuTypes
<1>7. Native'
  <2>1. imuMade \in Nat
    BY AnxAppAssumption DEF StreamInv, ImuTypes
  <2> QED BY <1>1, <1>2, <1>6, <2>1 DEF StreamInv, Native
<1>8. Expected' = FollowedBy[Expected]
  <2>1. Expected' = "stop"
    BY <1>1, <1>2, <1>3, <1>6 DEF Expected
  <2> QED BY <1>2, <2>1 DEF FollowedBy
<1>9. crashed' = FALSE /\ imuMade' = (IF "start" = "create" THEN imuMade + 1 ELSE imuMade)
      /\ imuMade' <= MaxCalls
  BY <1>1, <1>4, <1>5 DEF StreamInv, Crashes, Imu!Take
<1> QED BY <1>1, <1>2, <1>6, <1>7, <1>8, <1>9, StreamTake

\* stopImu(): there is a thread to wait for.
LEMMA StreamHalt ==
  ASSUME StreamInv, UNCHANGED pc, NEW l \in Imu!Looper, Imu!StopNativeImu(l)
  PROVE  StreamInv'
<1>1. Imu!Take(l, "stop") /\ UNCHANGED <<device_imu_, imuMade, publisher, owner>>
  BY DEF Imu!StopNativeImu
<1>2. /\ "stop" = Expected /\ \A k \in Imu!Looper : imuJoining[k] = 0
      /\ "stop" \in Imu!Message /\ l = imuThread
  BY <1>1, Taking DEF Imu!Message
<1>3. imuMade # 0 /\ device_imu_ = imuMade /\ publisher[imuMade] \notin {"none", "joined"}
  BY <1>2 DEF Expected, StreamInv, Native
<1>4. imuMade \in Imu!Imu /\ imuMade <= MaxCalls
  BY <1>3, StreamTypes, AnxAppAssumption DEF Imu!Imu, StreamInv, ImuTypes
<1>5. publisher[imuMade] \in {"running", "returned"}
  BY <1>3, <1>4 DEF StreamInv, ImuTypes
<1>6. /\ is_running_' = [is_running_ EXCEPT ![imuMade] = FALSE]
      /\ imuJoining' = [imuJoining EXCEPT ![l] = imuMade]
      /\ crashed' = crashed
  BY <1>3, <1>5 DEF Imu!StopNativeImu, Imu!None, Imu!Joinable
<1>7. /\ publisher' \in [Imu!Imu -> {"none", "joined", "running", "returned"}]
      /\ is_running_' \in [Imu!Imu -> BOOLEAN]
      /\ imuJoining' \in [Imu!Looper -> Imu!Imu \cup {0}]
      /\ imuJoining'[l] = imuMade
      /\ \A k \in Imu!Looper : k # l => imuJoining'[k] = 0
  BY <1>1, <1>2, <1>4, <1>6 DEF StreamInv, ImuTypes
<1>8. Native'
  <2>1. UNCHANGED imuThread
    BY <1>1 DEF Imu!Take
  <2> QED BY <1>1, <1>2, <1>3, <1>5, <1>7, <2>1 DEF StreamInv, Native
<1>9. Expected' = FollowedBy[Expected]
  <2>1. Expected' = "create"
    BY <1>3, <1>7 DEF Expected
  <2> QED BY <1>2, <2>1 DEF FollowedBy
<1>10. crashed' = FALSE /\ imuMade' = (IF "stop" = "create" THEN imuMade + 1 ELSE imuMade)
       /\ imuMade' <= MaxCalls
  BY <1>1, <1>4, <1>6 DEF StreamInv, Crashes, Imu!Take
<1> QED BY <1>1, <1>2, <1>7, <1>8, <1>9, <1>10, StreamTake

\* A looper gets its handler; the thread it waits for ends, and is joined.
LEMMA StreamRest ==
  ASSUME StreamInv, UNCHANGED pc,
         \/ \E l \in Imu!Looper : Imu!Prepare(l) \/ Imu!Join(l)
         \/ \E j \in Imu!Imu : Imu!PublisherReturns(j)
  PROVE  StreamInv'
<1>1. /\ UNCHANGED <<rpc, calls, wanted, imuThread, queue, device_imu_, imuMade,
                     is_running_, owner>>
      /\ Posted' = Posted /\ Asked' = Asked
  BY DEF Imu!Prepare, Imu!Join, Imu!PublisherReturns, Imu!callVars, Imu!looperVars,
     Imu!nativeVars, Posted, Asked
<1>6. Crashes'
  BY DEF Imu!Prepare, Imu!Join, Imu!PublisherReturns, StreamInv, Crashes
<1>2. ASSUME ImuTypes', Native', Expected' = Expected,
             Imu!Quiet => Imu!Quiet', rpc = "start" => handler'[imuThread]
      PROVE  StreamInv'
  <2>1. InTurn'
    <3>1. \A n \in 1 .. Len(Posted) + 1 : Turn(n)' = Turn(n)
      BY <1>1 DEF Turn
    <3>2. Turn(1)' = Expected'
      BY <1>2, <3>1, StreamTypes DEF StreamInv, InTurn
    <3>3. ASSUME NEW n \in 1 .. Len(Posted') PROVE Turn(n + 1)' = FollowedBy[Turn(n)']
      <4>1. n \in 1 .. Len(Posted) /\ n \in 1 .. Len(Posted) + 1 /\ n + 1 \in 1 .. Len(Posted) + 1
        BY <1>1, StreamTypes
      <4> QED BY <3>1, <4>1 DEF StreamInv, InTurn
    <3> QED BY <3>2, <3>3 DEF InTurn
  <2>2. NoMoreObjects' /\ Loopers'
    BY <1>1, <1>2 DEF StreamInv, NoMoreObjects, Loopers
  <2> QED BY <1>6, <1>2, <2>1, <2>2 DEF StreamInv
<1>3. ASSUME NEW l \in Imu!Looper, Imu!Prepare(l) PROVE StreamInv'
  <2>1. /\ handler' = [handler EXCEPT ![l] = TRUE]
        /\ UNCHANGED <<imuJoining, publisher>>
    BY <1>3 DEF Imu!Prepare, Imu!nativeVars
  <2>2. Expected' = Expected /\ Imu!Quiet' = Imu!Quiet
    BY <1>1, <2>1 DEF Expected, Imu!Quiet
  <2>3. ImuTypes' /\ Native'
    BY <1>1, <2>1 DEF StreamInv, ImuTypes, Native
  <2>4. rpc = "start" => handler'[imuThread]
    BY <2>1, StreamTypes DEF StreamInv, ImuTypes, Loopers
  <2> QED BY <1>2, <2>2, <2>3, <2>4
<1>4. ASSUME NEW l \in Imu!Looper, Imu!Join(l) PROVE StreamInv'
  <2>1. /\ imuJoining[l] # 0 /\ handler' = handler
        /\ publisher' = [publisher EXCEPT ![imuJoining[l]] = "joined"]
        /\ imuJoining' = [imuJoining EXCEPT ![l] = 0]
    BY <1>4 DEF Imu!Join, Imu!None
  <2>2. /\ imuJoining[l] = imuMade /\ imuMade \in Imu!Imu /\ device_imu_ = imuMade
        /\ \A k \in Imu!Looper : k # l => imuJoining[k] = 0
    BY <2>1, StreamTypes DEF StreamInv, Native
  <2>3. /\ publisher'[imuMade] = "joined" /\ \A k \in Imu!Looper : imuJoining'[k] = 0
        /\ \A j \in Imu!Imu : j # imuMade => publisher'[j] = publisher[j]
    BY <2>1, <2>2 DEF StreamInv, ImuTypes
  <2>4. Expected' = Expected
    BY <1>1, <2>1, <2>2, <2>3 DEF Expected
  <2>5. ImuTypes'
    BY <1>1, <2>1 DEF StreamInv, ImuTypes
  <2>6. Native'
    <3>1. imuMade \in Nat
      BY AnxAppAssumption DEF StreamInv, ImuTypes
    <3> QED BY <1>1, <2>3, <3>1 DEF StreamInv, Native
  <2>7. Imu!Quiet => Imu!Quiet'
    BY <2>1 DEF Imu!Quiet, Imu!None
  <2>8. rpc = "start" => handler'[imuThread]
    BY <2>1 DEF StreamInv, Loopers
  <2> QED BY <1>2, <2>4, <2>5, <2>6, <2>7, <2>8
<1>5. ASSUME NEW j \in Imu!Imu, Imu!PublisherReturns(j) PROVE StreamInv'
  <2>1. /\ publisher[j] = "running" /\ ~is_running_[j]
        /\ publisher' = [publisher EXCEPT ![j] = "returned"]
        /\ UNCHANGED <<handler, imuJoining>>
    BY <1>5 DEF Imu!PublisherReturns, Imu!looperVars
  <2>2. j = imuMade /\ device_imu_ = imuMade /\ j # 0
    BY <2>1, AnxAppAssumption DEF StreamInv, Native, Imu!Imu
  <2>3. \E l \in Imu!Looper : imuJoining[l] # 0
    BY <2>1, <2>2 DEF StreamInv, Native
  <2>4. Expected' = Expected
    BY <2>1, <2>3 DEF Expected
  <2>5. ImuTypes'
    BY <1>1, <2>1 DEF StreamInv, ImuTypes
  <2>6. /\ publisher'[imuMade] = "returned"
        /\ \A i \in Imu!Imu : i # imuMade => publisher'[i] = publisher[i]
    BY <2>1, <2>2 DEF StreamInv, ImuTypes
  <2>7. Native'
    <3>1. imuMade \in Nat
      BY AnxAppAssumption DEF StreamInv, ImuTypes
    <3> QED BY <1>1, <2>1, <2>3, <2>6, <3>1 DEF StreamInv, Native
  <2>8. Imu!Quiet' = Imu!Quiet
    BY <1>1, <2>1 DEF Imu!Quiet
  <2>9. rpc = "start" => handler'[imuThread]
    BY <2>1 DEF StreamInv, Loopers
  <2> QED BY <1>2, <2>4, <2>5, <2>7, <2>8, <2>9
<1> QED BY <1>3, <1>4, <1>5

\* A step of the service, or none, leaves the stream alone; the service starts
\* when the loopers are at rest.
LEMMA StreamAside ==
  ASSUME StreamInv, UNCHANGED imuVars, pc'[Main] \in Starting => Imu!Quiet
  PROVE  StreamInv'
<1>1. UNCHANGED <<rpc, calls, wanted, imuThread, handler, queue, imuJoining, device_imu_,
                  imuMade, publisher, is_running_, owner, callback, crashed>>
  BY DEF imuVars
<1>2. ImuTypes' /\ Native'
  BY <1>1 DEF StreamInv, ImuTypes, Native
<1>3. Posted' = Posted /\ Asked' = Asked /\ Expected' = Expected /\ Imu!Quiet' = Imu!Quiet
  BY <1>1 DEF Posted, Asked, Expected, Imu!Quiet
<1>4. Loopers'
  BY <1>1, <1>3 DEF StreamInv, Loopers
<1>5. InTurn' /\ NoMoreObjects'
  BY <1>1, <1>3 DEF StreamInv, InTurn, Turn, NoMoreObjects
<1> QED BY <1>1, <1>2, <1>4, <1>5 DEF StreamInv, Crashes

\* A start of the service makes a looper, and the one before is at rest.
LEMMA StreamLooper ==
  ASSUME EscapeInv, StreamInv, InitAssets
  PROVE  StreamInv'
<1>1. /\ pc[Main] = "procedure" /\ pc' = [pc EXCEPT ![Main] = "idle"]
      /\ imuThread < MaxInits /\ imuThread' = imuThread + 1
      /\ UNCHANGED <<rpc, calls, wanted, handler, queue, imuJoining, device_imu_, imuMade,
                     publisher, is_running_, owner>>
      /\ crashed' = FALSE
  BY DEF InitAssets, DoRestartProcedure, Goes, Imu!InitImu, Imu!callVars, Imu!nativeVars,
     StreamInv, Crashes
<1>2. Imu!Quiet /\ imuThread \in Nat /\ pc'[Main] = "idle"
  BY <1>1, Workers, AnxAppAssumption
     DEF EscapeInv, Types, StreamInv, Loopers, Starting, ImuTypes
<1>3. imuThread' \in Imu!Looper /\ imuThread' # 0
  BY <1>1, <1>2, AnxAppAssumption DEF Imu!Looper
<1>4. rpc = "idle" /\ \A l \in Imu!Looper : queue[l] = <<>> /\ imuJoining[l] = 0
  BY <1>2 DEF Imu!Quiet, Imu!None
<1>5. Posted = <<>> /\ Posted' = <<>>
  BY <1>1, <1>3, <1>4, StreamTypes DEF Posted
<1>6. ImuTypes' /\ Native' /\ Loopers'
  BY <1>1, <1>2, <1>3, <1>4, AnxAppAssumption
     DEF StreamInv, ImuTypes, Native, Loopers, Imu!Looper, Starting
<1>7. Asked' = Asked /\ Expected' = Expected
  BY <1>1 DEF Asked, Expected
<1>8. InTurn' /\ NoMoreObjects'
  BY <1>1, <1>5, <1>7 DEF StreamInv, InTurn, Turn, NoMoreObjects
<1> QED BY <1>1, <1>6, <1>8 DEF StreamInv, Crashes

\* The process ends with its stream (RestartAnxServiceRpc.doRestart).
LEMMA StreamAm ==
  ASSUME EscapeInv, StreamInv, ~crashed, NEW r \in Restarter, RestartApp(r)
  PROVE  StreamInv'
<1>1. CASE Headless
  <2>1. AmStart(r) /\ EndNative /\ UNCHANGED crashed
    BY <1>1 DEF RestartApp, EndNative
  <2>2. pc'[Main] = "create"
    BY <1>1, <2>1, Workers DEF AmStart
  <2>3. ImuTypes' /\ Native' /\ Loopers'
    BY <2>1, <2>2, AnxAppAssumption
       DEF EndNative, StreamInv, ImuTypes, Native, Loopers, Starting, Imu!Looper, Imu!Imu
  <2>4. Posted' = <<>> /\ Asked' = "create" /\ Expected' = "create"
    BY <2>1 DEF EndNative, Posted, Asked, Expected
  <2>5. Len(Posted') = 0
    BY <2>4
  <2>6. InTurn'
    BY <2>4, <2>5 DEF InTurn, Turn
  <2>7. NoMoreObjects'
    BY <2>1, <2>4, <2>5, AnxAppAssumption DEF EndNative, NoMoreObjects, StreamInv, ImuTypes, Ahead
  <2> QED BY <2>1, <2>3, <2>6, <2>7 DEF StreamInv, Crashes
<1>2. CASE ~Headless
  <2>1. /\ UNCHANGED imuVars /\ pc[r] = "am" /\ pc' = [pc EXCEPT ![r] = "done"]
    BY <1>2 DEF RestartApp, AmStart
  <2>2. pc'[Main] = pc[Main]
    BY <2>1, Workers DEF EscapeInv, Types
  <2> QED BY <2>1, <2>2, StreamAside DEF StreamInv, Loopers
<1> QED BY <1>1, <1>2

LEMMA StreamService ==
  ASSUME EscapeInv, StreamInv, Undisturbed, OrderlyCalls, Service
  PROVE  StreamInv'
<1> USE Workers DEF Goes
<1>1. UNCHANGED imuVars /\ pc \in [Worker -> Place]
  BY DEF Service, EscapeInv, Types
<1>2. ASSUME pc'[Main] \in Starting PROVE Imu!Quiet
  <2>1. CASE pc[Main] \in Starting
    BY <2>1 DEF StreamInv, Loopers
  <2>2. CASE pc[Main] \notin Starting
    <3>1. CASE StartService
      BY <1>1, <1>2, <3>1 DEF StartService, OrderlyCalls, Starting
    <3>2. CASE Recreate \/ AssignThread \/ StartThread \/ StopService
      BY <1>1, <1>2, <2>2, <3>2 DEF Recreate, AssignThread, StartThread, StopService, Starting
    <3>3. ASSUME NEW w \in Worker, Destroy(w) PROVE FALSE
      BY <1>1, <1>2, <2>2, <3>3 DEF Destroy, SetInterrupt, CallJoin, Joined, ClearThread, Starting
    <3>4. ASSUME NEW r \in Restarter, Restart(r) PROVE FALSE
      BY <1>1, <1>2, <2>2, <3>4 DEF Restart
    <3>5. ASSUME NEW t \in Thread, Serve(t) PROVE FALSE
      BY <1>1, <1>2, <2>2, <3>5 DEF Serve, CallRestart, Ends, Dies
    <3> QED BY <3>1, <3>2, <3>3, <3>4, <3>5 DEF Service
  <2> QED BY <2>1, <2>2
<1> QED BY <1>1, <1>2, StreamAside

\* Events come and are handled: if the object is gone, the looper is an old one.
LEMMA StreamEvents ==
  ASSUME StreamInv, SensorInv, UNCHANGED pc,
         Imu!SensorEvent \/ \E l \in Imu!Looper : Imu!OnSensorChanged(l)
  PROVE  StreamInv'
<1>1. UNCHANGED <<rpc, calls, wanted, imuThread, handler, queue, imuJoining, device_imu_,
                  imuMade, publisher, is_running_, owner>>
  BY DEF Imu!SensorEvent, Imu!OnSensorChanged, Imu!callVars, Imu!looperVars, Imu!nativeVars
<1>2. ImuTypes' /\ Native'
  BY <1>1 DEF StreamInv, ImuTypes, Native
<1>3. Posted' = Posted /\ Asked' = Asked /\ Expected' = Expected /\ Imu!Quiet' = Imu!Quiet
  BY <1>1 DEF Posted, Asked, Expected, Imu!Quiet
<1>4. Loopers'
  BY <1>1, <1>3 DEF StreamInv, Loopers
<1>5. InTurn' /\ NoMoreObjects'
  BY <1>1, <1>3 DEF StreamInv, InTurn, Turn, NoMoreObjects
<1>6. Crashes'
  <2>1. CASE Imu!SensorEvent
    BY <2>1 DEF Imu!SensorEvent, StreamInv, Crashes
  <2>2. ASSUME NEW l \in Imu!Looper, Imu!OnSensorChanged(l) PROVE Crashes'
    <3>1. CASE crashed' = crashed
      BY <2>2, <3>1 DEF Imu!OnSensorChanged, StreamInv, Crashes
    <3>2. CASE callback[l] # device_imu_ /\ crashed' = TRUE /\ UNCHANGED callback
      <4>1. callback[l] # 0
        BY <2>2 DEF Imu!OnSensorChanged, Imu!None
      <4>2. l # imuThread
        BY <3>2, <4>1 DEF SensorInv, StreamInv, Native
      <4> QED BY <1>1, <3>2, <4>1, <4>2 DEF Crashes
    <3> QED BY <2>2, <3>1, <3>2 DEF Imu!OnSensorChanged
  <2> QED BY <2>1, <2>2
<1> QED BY <1>2, <1>4, <1>5, <1>6 DEF StreamInv

LEMMA StreamNext ==
  ASSUME EscapeInv, StreamInv, SensorInv, [AppNext /\ Undisturbed /\ OrderlyCalls]_appVars
  PROVE  StreamInv'
<1>1. CASE UNCHANGED appVars
  BY <1>1, StreamAside DEF appVars, vars, StreamInv, Loopers
<1>2. CASE Undisturbed /\ OrderlyCalls /\ Service
  BY <1>2, StreamService
<1>3. CASE InitAssets
  BY <1>3, StreamLooper
<1>4. CASE OrderlyCalls /\ Call
  BY <1>4, StreamCall
<1>5. CASE RunImu
  <2>1. UNCHANGED pc
    BY <1>5 DEF RunImu, vars
  <2> QED BY <1>5, <2>1, StreamCreate, StreamRun, StreamHalt, StreamRest, StreamEvents
          DEF RunImu, Imu!RunLooper
<1>6. CASE \E r \in Restarter : ~crashed /\ RestartApp(r)
  BY <1>6, StreamAm
<1>7. CASE \E t \in Thread : InitAll(t) \/ StartAll(t)
  BY <1>7, StreamAside DEF InitAll, StartAll, Builds, vars, StreamInv, Loopers
<1> QED BY <1>1, <1>2, <1>3, <1>4, <1>5, <1>6, <1>7 DEF AppNext

LEMMA SensorInit == AppInit => SensorInv
BY AnxAppAssumption DEF AppInit, Imu!Init, SensorInv, Imu!None, Imu!Looper, Imu!Imu

\* An object is made on the last looper when that has handled its events, and
\* a new looper has none.
LEMMA SensorNext ==
  ASSUME EscapeInv, StreamInv, SensorInv, [AppNext /\ Undisturbed /\ OrderlyCalls]_appVars
  PROVE  SensorInv'
<1>1. ASSUME UNCHANGED <<imuThread, imuMade, home, events, callback>> PROVE SensorInv'
  BY <1>1 DEF SensorInv
<1>2. CASE UNCHANGED imuVars
  BY <1>1, <1>2 DEF imuVars
<1>3. CASE InitAssets
  <2>1. imuThread' = imuThread + 1 /\ imuThread \in Nat
        /\ UNCHANGED <<imuMade, home, events, callback>>
    BY <1>3, AnxAppAssumption
       DEF InitAssets, Imu!InitImu, Imu!nativeVars, Imu!sensorVars, StreamInv, ImuTypes
  <2>2. \A l \in Imu!Looper : l \in Nat /\ l # 0
    BY AnxAppAssumption DEF Imu!Looper
  <2>3. home' <= imuThread'
    BY <2>1, <2>2 DEF SensorInv
  <2> QED BY <2>1, <2>2, <2>3 DEF SensorInv
<1>4. CASE Call
  BY <1>1, <1>4 DEF Call, Imu!Start, Imu!StartSecondMsg, Imu!Stop, Imu!nativeVars, Imu!sensorVars
<1>5. ASSUME NEW l \in Imu!Looper, Imu!InitNativeImu(l) PROVE SensorInv'
  <2>1. Imu!Take(l, "create") /\ home' = l /\ callback[l] = 0
        /\ UNCHANGED <<callback, events>>
    BY <1>5 DEF Imu!InitNativeImu, Imu!Take, Imu!None
  <2>2. l = imuThread /\ imuThread' = imuThread /\ l # 0 /\ l \in Nat
    BY <2>1, Taking, AnxAppAssumption DEF Imu!Message, Imu!Looper
  <2> QED BY <2>1, <2>2 DEF SensorInv
<1>6. ASSUME NEW l \in Imu!Looper,
             Imu!Prepare(l) \/ Imu!StartNativeImu(l) \/ Imu!StopNativeImu(l) \/ Imu!Join(l)
      PROVE  SensorInv'
  BY <1>1, <1>6 DEF Imu!Prepare, Imu!StartNativeImu, Imu!StopNativeImu, Imu!Join, Imu!Take,
     Imu!nativeVars, Imu!sensorVars
<1>7. ASSUME NEW l \in Imu!Looper, Imu!OnSensorChanged(l) PROVE SensorInv'
  <2>1. UNCHANGED <<imuThread, imuMade, home, events>>
        /\ (callback' = callback \/ callback' = [callback EXCEPT ![l] = 0])
    BY <1>7 DEF Imu!OnSensorChanged, Imu!None, Imu!looperVars, Imu!nativeVars
  <2> QED BY <2>1 DEF SensorInv
<1>8. CASE \E i \in Imu!Imu : Imu!PublisherReturns(i)
  BY <1>1, <1>8 DEF Imu!PublisherReturns, Imu!looperVars, Imu!sensorVars
<1>9. CASE Imu!SensorEvent
  <2>1. /\ UNCHANGED <<imuThread, imuMade, home>>
        /\ device_imu_ # 0 /\ callback' = [callback EXCEPT ![home] = device_imu_]
        /\ events < MaxEvents /\ events' = events + 1
    BY <1>9 DEF Imu!SensorEvent, Imu!None, Imu!looperVars, Imu!nativeVars
  <2>2. device_imu_ = imuMade /\ imuMade \in Imu!Imu /\ home \in Imu!Looper
    BY <2>1, StreamTypes DEF StreamInv, Native, SensorInv
  <2>3. events' \in 0 .. MaxEvents
    BY <2>1, AnxAppAssumption DEF SensorInv
  <2> QED BY <2>1, <2>2, <2>3 DEF SensorInv
<1>10. ASSUME NEW r \in Restarter, RestartApp(r) PROVE SensorInv'
  <2>1. CASE Headless
    BY <1>10, <2>1, AnxAppAssumption
       DEF RestartApp, EndNative, SensorInv, Imu!Looper, Imu!Imu
  <2>2. CASE ~Headless
    BY <1>2, <1>10, <2>2 DEF RestartApp
  <2> QED BY <2>1, <2>2
<1>11. CASE RunImu
  BY <1>5, <1>6, <1>7, <1>8, <1>9, <1>11 DEF RunImu, Imu!RunLooper
<1> QED BY <1>2, <1>3, <1>4, <1>10, <1>11
        DEF AppNext, appVars, Service, InitAll, StartAll, Builds

\* Once all is quiet the message that is expected is the one that is asked for.
LEMMA StreamMeans == StreamInv => ProcessSurvives /\ StreamFollowsCalls
<1> SUFFICES ASSUME StreamInv PROVE ProcessSurvives /\ StreamFollowsCalls
  OBVIOUS
<1>1. ProcessSurvives
  BY DEF StreamInv, Crashes, ProcessSurvives, Imu!ProcessSurvives, Imu!None
<1>2. ASSUME Imu!Quiet
      PROVE  IF wanted = "start"
             THEN /\ device_imu_ # 0 /\ owner = device_imu_
                  /\ {j \in Imu!Imu : publisher[j] = "running"} = {device_imu_}
             ELSE \A j \in Imu!Imu : publisher[j] # "running"
  <2>1. rpc = "idle" /\ \A l \in Imu!Looper : queue[l] = <<>> /\ imuJoining[l] = 0
    BY <1>2 DEF Imu!Quiet, Imu!None
  <2>2. Posted = <<>>
    BY <2>1, StreamTypes DEF Posted
  <2>3. Expected = Asked
    BY <2>2 DEF StreamInv, InTurn, Turn
  <2>4. device_imu_ = imuMade /\ owner = imuMade /\ wanted \in {"start", "stop"}
    BY DEF StreamInv, Native, ImuTypes
  <2>5. CASE wanted = "start"
    <3>1. imuMade # 0 /\ publisher[imuMade] \notin {"none", "joined"}
      BY <2>1, <2>3, <2>4, <2>5 DEF Expected, Asked
    <3>2. imuMade \in Imu!Imu
      BY <3>1, StreamTypes
    <3>3. publisher[imuMade] = "running"
      BY <2>1, <3>1, <3>2 DEF StreamInv, ImuTypes, Native
    <3>4. \A j \in Imu!Imu : publisher[j] = "running" <=> j = imuMade
      BY <3>3 DEF StreamInv, Native
    <3> QED BY <2>4, <2>5, <3>1, <3>2, <3>4
  <2>6. CASE wanted = "stop"
    <3>1. imuMade = 0 \/ publisher[imuMade] = "joined"
      BY <2>1, <2>3, <2>4, <2>6 DEF Expected, Asked
    <3>2. \A j \in Imu!Imu : publisher[j] # "running"
      BY <3>1, AnxAppAssumption DEF StreamInv, Native, Imu!Imu
    <3> QED BY <2>6, <3>2
  <2> QED BY <2>4, <2>5, <2>6
<1>3. StreamFollowsCalls
  BY <1>2 DEF StreamFollowsCalls, Imu!StreamFollowsCalls, Imu!None
<1> QED BY <1>1, <1>3

LEMMA StreamTypeOK == StreamInv /\ SensorInv => Imu!TypeOK
<1> SUFFICES ASSUME StreamInv, SensorInv PROVE Imu!TypeOK
  OBVIOUS
<1>1. /\ imuThread \in Imu!Looper \cup {0} /\ imuMade \in Imu!Imu \cup {0}
  BY StreamTypes
<1> QED BY <1>1 DEF Imu!TypeOK, StreamInv, ImuTypes, Native, Crashes, SensorInv, Imu!None,
           Imu!Message, Imu!Joinable

-----------------------------------------------------------------------------
LEMMA ModelInit == AppInit => WaitInv /\ BuildInv
<1> SUFFICES ASSUME AppInit PROVE WaitInv /\ BuildInv
  OBVIOUS
<1>1. Init /\ modelServers = "none" /\ building = [t \in Thread |-> "initAll"]
  BY DEF AppInit
<1>2. /\ \A t \in Thread : state[t] = "none"
      /\ \A w \in Worker : pc[w] \in {"create", "none"}
  BY <1>1 DEF Init
<1> QED BY <1>1, <1>2 DEF WaitInv, BuildInv

\* Who clears the field has waited for the thread in it, or found none; while
\* a thread is made nobody does.
LEMMA WaitNext ==
  ASSUME EscapeInv, RunInv, WaitInv, [ServiceStep /\ Undisturbed]_vars
  PROVE  WaitInv'
<1> USE Workers DEF Goes
<1>1. pc \in [Worker -> Place] /\ state \in [Thread -> State]
      /\ joining \in [Worker -> Thread \cup {None}]
  BY DEF EscapeInv, Types, RunInv, Waiters
<1>2. CASE UNCHANGED vars
  BY <1>2 DEF vars, threads, WaitInv
<1>3. ASSUME UNCHANGED <<rpcThread, joining>>,
             \A t \in Thread : state'[t] = "serving" => state[t] = "serving",
             \A w \in Worker : pc'[w] \in {"joining", "clear"} => pc'[w] = pc[w]
      PROVE  WaitInv'
  BY <1>3 DEF WaitInv
<1>4. CASE Recreate \/ StartService \/ DoRestartProcedure \/ StopService
  BY <1>1, <1>3, <1>4 DEF Recreate, StartService, DoRestartProcedure, StopService, threads
<1>5. CASE AssignThread \/ StartThread
  <2>1. pc[Main] \in Starting /\ isRunning /\ ~Restarting
    BY <1>5 DEF AssignThread, StartThread, Starting, EscapeInv, StartsAlone
  <2>2. \A w \in Worker : pc'[w] \notin {"joining", "clear"}
    <3>1. \A w \in Worker : w # Main => pc'[w] = pc[w] /\ pc[w] \notin Stopping
      BY <1>1, <1>5, <2>1 DEF AssignThread, StartThread, Restarting, Worker
    <3>2. pc'[Main] \in {"start", "procedure"}
      BY <1>1, <1>5 DEF AssignThread, StartThread
    <3> QED BY <3>1, <3>2 DEF Stopping
  <2>3. \A t \in Thread : state'[t] = "serving" => t = rpcThread'
    <3>1. CASE AssignThread
      <4>1. rpcThread = None /\ state' = [state EXCEPT ![made + 1] = "new"]
        BY <2>1, <3>1 DEF AssignThread, RunInv, Served
      <4>2. \A t \in Thread : t # None
        BY AnxServiceAssumption DEF Thread, None
      <4>3. \A t \in Thread : state[t] # "serving"
        BY <4>1, <4>2 DEF WaitInv
      <4> QED BY <1>1, <4>1, <4>3
    <3>2. CASE StartThread
      BY <1>1, <3>2 DEF StartThread, WaitInv
    <3> QED BY <1>5, <3>1, <3>2
  <2> QED BY <2>2, <2>3 DEF WaitInv
<1>6. ASSUME NEW w \in Worker, Destroy(w) PROVE WaitInv'
  <2>1. state' = state
    BY <1>6 DEF Destroy, SetInterrupt, CallJoin, Joined, ClearThread, threads
  <2>2. CASE SetInterrupt(w)
    BY <1>1, <1>3, <2>1, <2>2 DEF SetInterrupt
  <2>3. CASE CallJoin(w)
    <3>1. /\ pc' = [pc EXCEPT ![w] = IF rpcThread = None THEN "clear" ELSE "joining"]
          /\ joining' = [joining EXCEPT ![w] = rpcThread] /\ rpcThread' = rpcThread
      BY <2>3 DEF CallJoin
    <3>2. \A v \in Worker : v # w => pc'[v] = pc[v] /\ joining'[v] = joining[v]
      BY <1>1, <3>1
    <3>3. joining'[w] = rpcThread
      BY <1>1, <3>1
    <3>4. rpcThread = None => \A t \in Thread : state[t] # "serving"
      BY AnxServiceAssumption DEF WaitInv, Thread, None
    <3>5. pc'[w] = IF rpcThread = None THEN "clear" ELSE "joining"
      BY <1>1, <3>1
    <3> QED BY <2>1, <3>1, <3>2, <3>3, <3>4, <3>5 DEF WaitInv
  <2>4. CASE Joined(w)
    <3>1. /\ pc[w] = "joining" /\ pc' = [pc EXCEPT ![w] = "clear"]
          /\ state[joining[w]] # "serving" /\ rpcThread' = rpcThread
          /\ joining' = [joining EXCEPT ![w] = None]
      BY <2>4 DEF Joined
    <3>2. \A t \in Thread : state[t] # "serving"
      <4>1. rpcThread \in {joining[w], None}
        BY <3>1 DEF WaitInv
      <4> QED BY <3>1, <4>1, AnxServiceAssumption DEF WaitInv, Thread, None
    <3>3. \A v \in Worker : v # w => pc'[v] = pc[v] /\ joining'[v] = joining[v]
      BY <1>1, <3>1
    <3>4. pc'[w] = "clear"
      BY <1>1, <3>1
    <3> QED BY <2>1, <3>1, <3>2, <3>3, <3>4 DEF WaitInv
  <2>5. CASE ClearThread(w)
    <3>1. /\ pc[w] = "clear" /\ rpcThread' = None /\ joining' = joining
          /\ \A t \in Thread : state'[t] # "serving"
      BY <2>1, <2>5 DEF ClearThread, WaitInv
    <3> QED BY <3>1 DEF WaitInv
  <2> QED BY <1>6, <2>2, <2>3, <2>4, <2>5 DEF Destroy
<1>7. ASSUME NEW r \in Restarter, Restart(r) PROVE WaitInv'
  BY <1>1, <1>3, <1>7 DEF Restart, threads
<1>8. ASSUME NEW r \in Restarter, AmStart(r) PROVE WaitInv'
  <2>1. CASE Headless
    <3>1. /\ \A t \in Thread : state'[t] # "serving"
          /\ \A w \in Worker : pc'[w] \notin {"joining", "clear"}
      BY <1>8, <2>1 DEF AmStart
    <3> QED BY <3>1 DEF WaitInv
  <2>2. CASE ~Headless
    BY <1>1, <1>3, <1>8, <2>2 DEF AmStart
  <2> QED BY <2>1, <2>2
<1>9. ASSUME NEW t \in Thread, CallRestart(t) \/ Ends(t) \/ Dies(t) PROVE WaitInv'
  <2>1. CASE CallRestart(t)
    <3>1. PICK r \in Restarter : pc' = [pc EXCEPT ![r] = "sleeping"]
      BY <2>1 DEF CallRestart
    <3> QED BY <1>1, <1>3, <2>1, <3>1 DEF CallRestart, threads
  <2>2. CASE Ends(t) \/ Dies(t)
    BY <1>1, <1>3, <2>2 DEF Ends, Dies
  <2> QED BY <1>9, <2>1, <2>2
<1> QED BY <1>2, <1>4, <1>5, <1>6, <1>7, <1>8, <1>9 DEF ServiceStep

\* A thread that begins with the model servers is the only one that serves, so
\* that nobody has made them and not started them.
LEMMA BuildNext ==
  ASSUME EscapeInv, RunInv, WaitInv, BuildInv,
         [AppNext /\ Undisturbed /\ OrderlyCalls]_appVars
  PROVE  BuildInv'
<1> USE Workers DEF Goes
<1>1. /\ state \in [Thread -> State] /\ made \in Nat
      /\ building \in [Thread -> {"initAll", "startAll", "done"}]
  BY DEF EscapeInv, Types, BuildInv
<1>2. ASSUME UNCHANGED modelVars, made' = made,
             \A t \in Thread : state'[t] = state[t]
      PROVE  BuildInv'
  BY <1>2 DEF modelVars, BuildInv
<1>3. CASE UNCHANGED appVars
  BY <1>2, <1>3 DEF appVars, vars, threads
<1>4. CASE AssignThread /\ UNCHANGED modelVars
  <2>1. made' = made + 1 /\ state' = [state EXCEPT ![made + 1] = "new"]
        /\ UNCHANGED <<building, modelServers>>
    BY <1>4 DEF AssignThread, modelVars
  <2>2. \A t \in Thread : t = made + 1 => building[t] = "initAll"
    BY <1>1 DEF BuildInv
  <2>3. \A t \in Thread : t # made + 1 => state'[t] = state[t]
    BY <1>1, <2>1
  <2>4. \A t \in Thread : t <= made => t <= made'
    BY <1>1, <2>1, AnxServiceAssumption DEF Thread
  <2> QED BY <2>1, <2>2, <2>3, <2>4 DEF BuildInv
<1>5. CASE StartThread /\ UNCHANGED modelVars
  <2>1. pc[Main] = "start" /\ isRunning /\ made' = made /\ UNCHANGED <<building, modelServers>>
    BY <1>5 DEF StartThread, modelVars, EscapeInv, StartsAlone, Starting
  <2>2. rpcThread # None /\ state[rpcThread] = "new" /\ rpcThread \in Thread
    BY <2>1, AnxServiceAssumption DEF RunInv, Served, Fresh, Thread, None
  <2>3. building[rpcThread] = "initAll"
    BY <2>2 DEF BuildInv
  <2>4. \A t \in Thread : t # rpcThread => state'[t] = state[t]
    BY <1>1, <1>5, <2>2 DEF StartThread
  <2> QED BY <2>1, <2>3, <2>4 DEF BuildInv
<1>6. ASSUME NEW t \in Thread, Serve(t), UNCHANGED modelVars PROVE BuildInv'
  <2>1. /\ state[t] = "serving" /\ building[t] = "done" /\ made' = made
        /\ UNCHANGED <<building, modelServers>>
    BY <1>6 DEF Serve, InLoop, CallRestart, Ends, Dies, threads, modelVars
  <2>2. \A u \in Thread : u # t => state'[u] = state[u]
    BY <1>1, <1>6 DEF Serve, CallRestart, Ends, Dies, threads
  <2>3. state'[t] \in {"serving", "ended", "dead"}
    BY <1>1, <1>6, <2>1 DEF Serve, CallRestart, Ends, Dies, threads
  <2> QED BY <2>1, <2>2, <2>3 DEF BuildInv
<1>7. CASE Service
  <2>1. UNCHANGED modelVars
    BY <1>7 DEF Service
  <2>2. CASE Recreate \/ StartService \/ StopService
    BY <1>2, <2>1, <2>2 DEF Recreate, StartService, StopService, threads
  <2>3. ASSUME NEW w \in Worker, Destroy(w) PROVE BuildInv'
    BY <1>2, <2>1, <2>3 DEF Destroy, SetInterrupt, CallJoin, Joined, ClearThread, threads
  <2>4. ASSUME NEW r \in Restarter, Restart(r) PROVE BuildInv'
    BY <1>2, <2>1, <2>4 DEF Restart, threads
  <2> QED BY <1>4, <1>5, <1>6, <1>7, <2>1, <2>2, <2>3, <2>4 DEF Service
<1>8. CASE InitAssets \/ Call \/ RunImu
  BY <1>2, <1>8 DEF InitAssets, DoRestartProcedure, Call, RunImu, vars, threads
<1>9. ASSUME NEW t \in Thread, InitAll(t) PROVE BuildInv'
  <2>1. /\ state[t] = "serving" /\ building[t] = "initAll" /\ UNCHANGED <<made, state>>
        /\ building' = [building EXCEPT ![t] = "startAll"]
    BY <1>9 DEF InitAll, Builds, vars, threads
  <2>2. modelServers \in {"none", "started"}
    BY <2>1 DEF BuildInv, WaitInv
  <2>3. modelServers' = "made"
    BY <1>9, <2>2 DEF InitAll
  <2>4. t <= made
    BY <2>1, AnxServiceAssumption DEF WaitInv, RunInv, Fresh, Thread
  <2> QED BY <1>1, <2>1, <2>3, <2>4 DEF BuildInv
<1>10. ASSUME NEW t \in Thread, StartAll(t) PROVE BuildInv'
  <2>1. /\ state[t] = "serving" /\ building[t] = "startAll" /\ UNCHANGED <<made, state>>
        /\ building' = [building EXCEPT ![t] = "done"]
    BY <1>10 DEF StartAll, Builds, vars, threads
  <2>2. modelServers = "made"
    BY <2>1 DEF BuildInv
  <2>3. modelServers' = "started"
    BY <1>10, <2>2 DEF StartAll
  <2>4. \A u \in Thread : state[u] = "serving" => u = t
    BY <2>1 DEF WaitInv
  <2> QED BY <1>1, <2>1, <2>3, <2>4 DEF BuildInv
<1>11. ASSUME NEW r \in Restarter, RestartApp(r) PROVE BuildInv'
  <2>1. CASE Headless
    <3>1. /\ made' = made /\ building' = building /\ modelServers' = "none"
          /\ \A t \in Thread : state'[t] = IF state[t] = "none" THEN "none" ELSE "ended"
      BY <1>11, <2>1 DEF RestartApp, AmStart, EndNative
    <3> QED BY <3>1 DEF BuildInv
  <2>2. CASE ~Headless
    BY <1>2, <1>11, <2>2 DEF RestartApp, AmStart
  <2> QED BY <2>1, <2>2
<1> QED BY <1>3, <1>7, <1>8, <1>9, <1>10, <1>11 DEF AppNext

-----------------------------------------------------------------------------
(* The theorems about the process.                                         *)

\* Every step of the process is one of the service, or leaves it alone.
LEMMA AppStep ==
  [AppNext /\ Undisturbed /\ OrderlyCalls]_appVars => [ServiceStep /\ Undisturbed]_vars
<1> SUFFICES ASSUME [AppNext /\ Undisturbed /\ OrderlyCalls]_appVars
             PROVE  [ServiceStep /\ Undisturbed]_vars
  OBVIOUS
<1>1. CASE UNCHANGED appVars
  BY <1>1 DEF appVars
<1>2. CASE Service /\ Undisturbed
  <2>1. CASE \E t \in Thread : Serve(t)
    BY <1>2, <2>1 DEF Serve, ServiceStep
  <2>2. CASE \E r \in Restarter : Restart(r)
    BY <1>2, <2>2 DEF ServiceStep
  <2>3. CASE \E w \in Worker : Destroy(w)
    BY <1>2, <2>3 DEF ServiceStep
  <2> QED BY <1>2, <2>1, <2>2, <2>3 DEF Service, ServiceStep
<1>3. CASE InitAssets /\ Undisturbed
  BY <1>3 DEF InitAssets, ServiceStep
<1>4. CASE Call \/ RunImu \/ \E t \in Thread : InitAll(t) \/ StartAll(t)
  BY <1>4 DEF Call, RunImu, InitAll, StartAll, Builds
<1>5. CASE Undisturbed /\ \E r \in Restarter : ~crashed /\ RestartApp(r)
  BY <1>5 DEF RestartApp, ServiceStep
<1> QED BY <1>1, <1>2, <1>3, <1>4, <1>5 DEF AppNext

AppInv == EscapeInv /\ RunInv /\ StreamInv /\ SensorInv /\ WaitInv /\ BuildInv

LEMMA AppInvariant == AppSpec => []AppInv
<1>1. AppInit => AppInv
  BY EscapeInit, RunInit, StreamInit, SensorInit, ModelInit DEF AppInit, AppInv
<1>2. AppInv /\ [AppNext /\ Undisturbed /\ OrderlyCalls]_appVars => AppInv'
  <2> SUFFICES ASSUME AppInv, [AppNext /\ Undisturbed /\ OrderlyCalls]_appVars
               PROVE  AppInv'
    OBVIOUS
  <2>1. [ServiceStep /\ Undisturbed]_vars /\ [Next /\ Undisturbed]_vars
    BY AppStep DEF ServiceStep, Next
  <2>2. EscapeInv /\ RunInv /\ StreamInv /\ SensorInv /\ WaitInv /\ BuildInv
    BY DEF AppInv
  <2>3. EscapeInv' /\ RunInv' /\ WaitInv'
    BY <2>1, <2>2, EscapeNext, RunNext, WaitNext
  <2>4. StreamInv' /\ SensorInv' /\ BuildInv'
    BY <2>2, StreamNext, SensorNext, BuildNext
  <2> QED BY <2>3, <2>4 DEF AppInv
<1> QED BY <1>1, <1>2, PTL DEF AppSpec

\* The composition implements the service (EndlessService.kt): whatever the
\* stream and its callers do, the service's own steps are those of AnxService.
THEOREM AppImplementsService == AppSpec => UndisturbedSpec
<1>1. AppInit => Init
  BY DEF AppInit
<1>2. [AppNext /\ Undisturbed /\ OrderlyCalls]_appVars => [Next /\ Undisturbed]_vars
  BY AppStep DEF ServiceStep, Next
<1> QED BY <1>1, <1>2, PTL DEF AppSpec, UndisturbedSpec

\* One server at a time in the process with the stream in it.
THEOREM NoServerEscapesTheApp == AppSpec => []NoServerEscapes
BY AppImplementsService, NoServerEver, PTL

\* The variables of the service and of the stream have their types.
THEOREM AppTypes == AppSpec => []AppTypeOK
<1>1. AppInv => AppTypeOK
  BY RunTypes, StreamTypeOK DEF AppInv, AppTypeOK, BuildInv
<1> QED BY <1>1, AppInvariant, PTL

\* However often it is started, stopped and restarted, a service that takes
\* itself for running has the server it started (EndlessService.isRunning and
\* DeviceRpcHandler.rpcThread).
THEOREM RunsWithServer == AppSpec => []RunningHasServer
<1>1. AppInv => RunningHasServer
  BY RunMeans DEF AppInv
<1> QED BY <1>1, AppInvariant, PTL

\* The model servers outlive every start of the service: each RpcThread finds
\* those of the one before started, and nobody at work on them
\* (DeviceRpcHandler.kt, tflite_runner_jni.cpp).
THEOREM ModelServersOutlive == AppSpec => []ModelServersSurvive
<1>1. AppInv => ModelServersSurvive
  BY DEF AppInv, BuildInv, ModelServersSurvive
<1> QED BY <1>1, AppInvariant, PTL

\* No sequence of calls of clients that take turns ends the process, however
\* far the loopers are behind (sensord.cpp, imu.cpp).
THEOREM NothingCrashes == AppSpec => []ProcessSurvives
<1>1. AppInv => ProcessSurvives /\ StreamFollowsCalls
  BY StreamMeans DEF AppInv
<1> QED BY <1>1, AppInvariant, PTL

\* Once the loopers are at rest the stream is what the last call asked for, on
\* whichever looper that was and however many there have been (DeviceImu.kt).
THEOREM StreamAsAsked == AppSpec => []StreamFollowsCalls
<1>1. AppInv => ProcessSurvives /\ StreamFollowsCalls
  BY StreamMeans DEF AppInv
<1> QED BY <1>1, AppInvariant, PTL
=============================================================================
