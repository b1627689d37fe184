------------------------------- MODULE AnxApp -------------------------------
(***************************************************************************)
(* The process of the app: the server of AnxService, the model servers and *)
(* the IMU stream of ImuAsset.  A start of the service starts the server   *)
(* first and then makes a looper for the IMU; the server's thread makes    *)
(* the model servers anew, and then the calls it is asked for; a stop of   *)
(* the service ends the server and leaves the stream and the model servers *)
(* alone; a restart ends everything with the process.  The stop button of  *)
(* the activity is not used (AnxService has it).                           *)
(***************************************************************************)
EXTENDS AnxService, Sequences

CONSTANTS
  MaxInits,   \* bound: the starts of the service in one process
  MaxCalls,   \* bound: the calls of start() and stop()
  MaxEvents   \* bound: the events of the IMU's sensors

ASSUME AnxAppAssumption ==
  MaxInits \in Nat \ {0} /\ MaxCalls \in Nat \ {0} /\ MaxEvents \in Nat

VARIABLES
  rpc, calls, wanted, imuThread, handler, queue, imuJoining, device_imu_,
  imuMade, publisher, is_running_, owner, home, callback, events, crashed,
  building,    \* where each RpcThread is with the model servers
  modelServers \* the two objects of tflite_runner_jni.cpp

Imu == INSTANCE ImuAsset WITH joining <- imuJoining, made <- imuMade

imuVars == <<rpc, calls, wanted, imuThread, handler, queue, imuJoining,
             device_imu_, imuMade, publisher, is_running_, owner, home, callback,
             events, crashed>>
modelVars == <<building, modelServers>>
appVars == <<vars, imuVars, modelVars>>

AppTypeOK ==
  /\ TypeOK /\ Imu!TypeOK
  /\ building \in [Thread -> {"initAll", "startAll", "done"}]
  /\ modelServers \in {"none", "made", "started", "broken"}

AppInit ==
  /\ Init /\ Imu!Init
  /\ building = [t \in Thread |-> "initAll"]
  /\ modelServers = "none"

-----------------------------------------------------------------------------
\* startAnxService(): assetManager.init() comes after the server's start.
InitAssets == DoRestartProcedure /\ Imu!InitImu /\ UNCHANGED modelVars

Builds(t, from, to) ==
  /\ ~crashed
  /\ state[t] = "serving"
  /\ building[t] = from
  /\ building' = [building EXCEPT ![t] = to]
  /\ UNCHANGED <<vars, imuVars>>

\* initAll(): new model servers take the place of those there are, whose
\* threads are waited for.  One that was not started has none to wait for.
InitAll(t) ==
  /\ Builds(t, "initAll", "startAll")
  /\ modelServers' = IF modelServers \in {"none", "started"} THEN "made" ELSE "broken"

\* startAll(): a second start would replace a thread that runs.
StartAll(t) ==
  /\ Builds(t, "startAll", "done")
  /\ modelServers' = IF modelServers = "made" THEN "started" ELSE "broken"

\* The thread is in its loop: it can make a call, see its flag or fail.
InLoop(t) == state[t] = "serving" /\ building[t] = "done"

\* A thread of the server makes a call, or goes on with the one it is in.
Call ==
  /\ \E t \in Thread : InLoop(t)
  /\ Imu!Start \/ Imu!StartSecondMsg \/ Imu!Stop
  /\ UNCHANGED <<vars, modelVars>>

RunImu ==
  /\ \/ \E l \in Imu!Looper : Imu!RunLooper(l)
     \/ \E i \in Imu!Imu : Imu!PublisherReturns(i)
     \/ Imu!SensorEvent
  /\ UNCHANGED <<vars, modelVars>>

\* The loopers, the native objects and their threads go with the process; the
\* new one has no stream and nobody has asked for one.
EndNative ==
  /\ rpc' = "idle" /\ wanted' = "stop"
  /\ imuThread' = 0
  /\ handler' = [l \in Imu!Looper |-> FALSE]
  /\ queue' = [l \in Imu!Looper |-> <<>>]
  /\ imuJoining' = [l \in Imu!Looper |-> 0]
  /\ device_imu_' = 0 /\ imuMade' = 0 /\ owner' = 0
  /\ publisher' = [i \in Imu!Imu |-> "none"]
  /\ is_running_' = [i \in Imu!Imu |-> FALSE]
  /\ home' = 0
  /\ callback' = [l \in Imu!Looper |-> 0]
  /\ modelServers' = "none"
  /\ UNCHANGED <<calls, events, crashed, building>>

RestartApp(r) ==
  AmStart(r) /\ IF Headless THEN EndNative ELSE UNCHANGED <<imuVars, modelVars>>

-----------------------------------------------------------------------------
\* A thread of the server sees its flag, fails or takes the next call when it
\* has finished the one before.
Serve(t) == InLoop(t) /\ rpc = "idle" /\ (CallRestart(t) \/ Ends(t) \/ Dies(t))

Service ==
  /\ \/ Recreate \/ StartService \/ AssignThread \/ StartThread \/ StopService
     \/ \E w \in Worker : Destroy(w)
     \/ \E r \in Restarter : Restart(r)
     \/ \E t \in Thread : Serve(t)
  /\ ~crashed
  /\ UNCHANGED <<imuVars, modelVars>>

AppNext ==
  \/ Service \/ InitAssets \/ Call \/ RunImu
  \/ \E t \in Thread : InitAll(t) \/ StartAll(t)
  \/ \E r \in Restarter : ~crashed /\ RestartApp(r)

\* Clients take turns, and a call of the IMU's finds its looper ready; the
\* service is started again when the loopers are at rest.
LooperReady ==
  pc[Main] \notin Starting /\ imuThread # 0 /\ handler[imuThread]
OrderlyCalls ==
  /\ Imu!Alternating
  /\ Imu!Start \/ Imu!Stop => LooperReady
  /\ StartService => isRunning \/ Imu!Quiet
  /\ StopService => imuThread < MaxInits

\* Each thread takes its next step: the main thread what it has begun, a
\* restarter what comes after its sleep, an RpcThread its model servers, the
\* end of its loop or the second half of a call, a looper its next message or
\* event, a publisher the end of its loop.
Alone(action) == ~crashed /\ action /\ UNCHANGED <<imuVars, modelVars>>
AppFairness ==
  /\ WF_appVars(InitAssets)
  /\ WF_appVars(Alone(StartService \/ AssignThread \/ StartThread))
  /\ \A w \in Worker : WF_appVars(Alone(Destroy(w)))
  /\ \A r \in Restarter : WF_appVars((~crashed /\ RestartApp(r)) \/ Alone(Restart(r)))
  /\ \A t \in Thread : /\ WF_appVars(InitAll(t) \/ StartAll(t))
                      /\ WF_appVars(Alone(InLoop(t) /\ rpc = "idle" /\ Ends(t)))
  /\ WF_appVars(Imu!StartSecondMsg /\ UNCHANGED <<vars, modelVars>>)
  /\ \A l \in Imu!Looper : WF_appVars(Imu!RunLooper(l) /\ UNCHANGED <<vars, modelVars>>)
  /\ \A i \in Imu!Imu : WF_appVars(Imu!PublisherReturns(i) /\ UNCHANGED <<vars, modelVars>>)

AppSpec ==
  AppInit /\ [][AppNext /\ Undisturbed /\ OrderlyCalls]_appVars /\ AppFairness

-----------------------------------------------------------------------------
\* A restart that was promised happens: the process of the call is gone and
\* the server serves in a new one (RestartAnxServiceRpc.doRestart).
Serving == \E t \in Thread : t = rpcThread /\ state[t] = "serving" /\ ~interrupt[t]
RestartsHappen ==
  \A r \in Restarter : pc[r] = "sleeping" ~> crashed \/ (pc[r] = "done" /\ Serving)

\* However the service is started and stopped, initAll() finds model servers
\* whose threads it can wait for, and startAll() those it has just made: no
\* RpcThread is still at it when another begins (tflite_runner_jni.cpp,
\* ~TfLiteRunnerRpcServer, TfLiteRunnerRpcServer::Start).
ModelServersSurvive == modelServers # "broken"

\* The properties of the stream, now over the starts, stops and restarts of
\* the service: no sequence of calls kills the process (~Imu, Imu::start).
ProcessSurvives == Imu!ProcessSurvives

\* Once the loopers are at rest the stream is what the last call asked for,
\* on whichever looper that call was made (DeviceImu.kt, sensord.cpp).
StreamFollowsCalls == Imu!StreamFollowsCalls

\* A stop() is carried out even when the service is stopped or started again
\* behind it (Imu::stop).
StopsAreDone == Imu!StopsAreDone
=============================================================================
