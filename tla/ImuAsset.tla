------------------------------ MODULE ImuAsset ------------------------------
(***************************************************************************)
(* The IMU stream.  The RPC thread posts messages to the looper of         *)
(* DeviceImu.kt, which makes, starts and stops the native Imu of           *)
(* sensord.cpp and imu.cpp; a started Imu publishes from a thread of its   *)
(* own, and the events of its sensors come to the looper it was made on    *)
(* (NdkSensor.cpp).  Each start of the service makes a new looper and      *)
(* forgets the one there was, which goes on handling the messages and the  *)
(* events it has.  AnxApp puts the stream and the service together and     *)
(* states its fairness.                                                    *)
(***************************************************************************)
EXTENDS Naturals, Sequences

CONSTANTS
  MaxInits,   \* bound: the starts of the service
  MaxCalls,   \* bound: the calls of start() and stop()
  MaxEvents   \* bound: the events of the sensors

Looper == 1 .. MaxInits
Imu == 1 .. MaxCalls       \* the Imu objects, numbered as they are made
None == 0

Message == {"create", "start", "stop"}

VARIABLES
  rpc,        \* the message the RPC thread posts next; "idle" between calls
  calls,      \* the number of calls of start() and stop()
  wanted,     \* what the last call that returned asked for
  imuThread,  \* the looper of the last init()
  handler,    \* the handlers of the loopers: FALSE is null
  queue,      \* the messages of each looper
  joining,    \* the Imu a looper is in stop() of, waiting in join()
  device_imu_,\* the native object
  made,       \* the number of objects made
  publisher,  \* the thread of each object
  is_running_,\* the flag its loop reads
  owner,      \* the object whose socket the ipc path leads to
  home,       \* the looper the object was made on
  callback,   \* the object a looper has events for, or is in the callback of
  events,     \* the number of events there have been
  crashed     \* the process was killed

callVars == <<rpc, calls, wanted>>
looperVars == <<imuThread, handler, queue, joining>>
nativeVars == <<device_imu_, made, publisher, is_running_, owner>>
sensorVars == <<home, callback, events>>
vars == <<callVars, looperVars, nativeVars, sensorVars, crashed>>

\* A thread is joinable while it runs and when it has returned.
Joinable == {"running", "returned"}

TypeOK ==
  /\ rpc \in {"idle"} \cup Message
  /\ calls \in 0 .. MaxCalls
  /\ wanted \in {"start", "stop"}
  /\ imuThread \in Looper \cup {None}
  /\ handler \in [Looper -> BOOLEAN]
  /\ queue \in [Looper -> Seq(Message)]
  /\ joining \in [Looper -> Imu \cup {None}]
  /\ device_imu_ \in Imu \cup {None}
  /\ made \in 0 .. MaxCalls
  /\ publisher \in [Imu -> {"none", "joined"} \cup Joinable]
  /\ is_running_ \in [Imu -> BOOLEAN]
  /\ owner \in Imu \cup {None}
  /\ home \in Looper \cup {None}
  /\ callback \in [Looper -> Imu \cup {None}]
  /\ events \in 0 .. MaxEvents
  /\ crashed \in BOOLEAN

Init ==
  /\ rpc = "idle" /\ calls = 0 /\ wanted = "stop"
  /\ imuThread = None
  /\ handler = [l \in Looper |-> FALSE]
  /\ queue = [l \in Looper |-> <<>>]
  /\ joining = [l \in Looper |-> None]
  /\ device_imu_ = None /\ made = 0
  /\ publisher = [i \in Imu |-> "none"]
  /\ is_running_ = [i \in Imu |-> FALSE]
  /\ owner = None
  /\ home = None /\ events = 0
  /\ callback = [l \in Looper |-> None]
  /\ crashed = FALSE

-----------------------------------------------------------------------------
(* The main thread.                                                        *)

\* AssetManager.init() at a start of the service.
InitImu ==
  /\ ~crashed
  /\ imuThread < MaxInits
  /\ imuThread' = imuThread + 1
  /\ UNCHANGED <<callVars, handler, queue, joining, nativeVars,
                 sensorVars, crashed>>

-----------------------------------------------------------------------------
(* The RPC thread.                                                         *)

\* sendMsg(): nothing is sent to a looper without a handler, and the call
\* succeeds all the same.
SendMsg(what) ==
  queue' = IF imuThread # None /\ handler[imuThread]
           THEN [queue EXCEPT ![imuThread] = Append(@, what)]
           ELSE queue

Start ==
  /\ ~crashed /\ rpc = "idle" /\ calls < MaxCalls
  /\ calls' = calls + 1
  /\ SendMsg("create")
  /\ rpc' = "start"
  /\ UNCHANGED <<wanted, imuThread, handler, joining, nativeVars,
                 sensorVars, crashed>>

StartSecondMsg ==
  /\ ~crashed /\ rpc = "start"
  /\ SendMsg("start")
  /\ rpc' = "idle"
  /\ wanted' = "start"
  /\ UNCHANGED <<calls, imuThread, handler, joining, nativeVars,
                 sensorVars, crashed>>

\* Mutant: the message the GNSS threads are stopped with.
StopByKill ==
  /\ ~crashed /\ rpc = "idle" /\ calls < MaxCalls
  /\ calls' = calls + 1
  /\ SendMsg("kill")
  /\ wanted' = "stop"
  /\ UNCHANGED <<rpc, imuThread, handler, joining, nativeVars,
                 sensorVars, crashed>>

Stop ==
  /\ ~crashed /\ rpc = "idle" /\ calls < MaxCalls
  /\ calls' = calls + 1
  /\ SendMsg("stop")
  /\ wanted' = "stop"
  /\ UNCHANGED <<rpc, imuThread, handler, joining, nativeVars,
                 sensorVars, crashed>>

-----------------------------------------------------------------------------
(* A looper.                                                               *)

\* Looper.prepare() and the handler.
Prepare(l) ==
  /\ ~crashed
  /\ l <= imuThread
  /\ ~handler[l]
  /\ handler' = [handler EXCEPT ![l] = TRUE]
  /\ UNCHANGED <<callVars, imuThread, queue, joining, nativeVars,
                 sensorVars, crashed>>

\* The looper takes the message what.  It looks at its event queues before
\* each message.
Take(l, what) ==
  /\ ~crashed
  /\ joining[l] = None /\ callback[l] = None
  /\ queue[l] # <<>>
  /\ Head(queue[l]) = what
  /\ queue' = [queue EXCEPT ![l] = Tail(@)]
  /\ UNCHANGED <<callVars, imuThread, handler, callback, events>>

\* An object may be destroyed when no thread of it is joinable and no looper
\* is inside it.
Destructible(i) ==
  /\ publisher[i] \notin Joinable
  /\ \A l \in Looper : joining[l] # i

\* Mutant: the object there is stays in place.
InitImuKeeping(l) ==
  /\ Take(l, "create")
  /\ made' = made + 1
  /\ device_imu_' = IF device_imu_ = None THEN made + 1 ELSE device_imu_
  /\ owner' = made + 1
  /\ home' = l
  /\ UNCHANGED <<publisher, is_running_, joining, crashed>>

\* initImu(): the new object binds its publisher to the path, and then takes
\* the place of the old one, which is destroyed.  Its sensors belong to the
\* looper of the thread it is made on.
InitNativeImu(l) ==
  /\ Take(l, "create")
  /\ made' = made + 1
  /\ device_imu_' = made + 1
  /\ owner' = made + 1
  /\ home' = l
  /\ crashed' = (device_imu_ # None /\ ~Destructible(device_imu_))
  /\ UNCHANGED <<publisher, is_running_, joining>>

\* startImu(): the sensors are enabled and the publisher's thread made.  A null
\* object is dereferenced, or a joinable thread replaced, and the process ends.
StartNativeImu(l) ==
  /\ Take(l, "start")
  /\ IF device_imu_ # None /\ publisher[device_imu_] \notin Joinable
     THEN /\ publisher' = [publisher EXCEPT ![device_imu_] = "running"]
          /\ is_running_' = [is_running_ EXCEPT ![device_imu_] = TRUE]
          /\ UNCHANGED crashed
     ELSE crashed' = TRUE /\ UNCHANGED <<publisher, is_running_>>
  /\ UNCHANGED <<device_imu_, made, owner, home, joining>>

\* Mutant: the flag is not cleared.
StopNativeImuKeeping(l) ==
  /\ Take(l, "stop")
  /\ joining' = [joining EXCEPT ![l] = device_imu_]
  /\ UNCHANGED <<nativeVars, home, crashed>>

\* Mutant: the thread is told to end and not waited for.
StopNativeImuNotJoining(l) ==
  /\ Take(l, "stop")
  /\ is_running_' = [is_running_ EXCEPT ![device_imu_] = FALSE]
  /\ UNCHANGED <<device_imu_, made, publisher, owner, home, joining, crashed>>

\* stopImu() up to its join(): the sensors are disabled, their queue and what
\* is in it stay.  A join() that has no thread to wait for throws, and the
\* process ends.
StopNativeImu(l) ==
  /\ Take(l, "stop")
  /\ IF device_imu_ # None /\ publisher[device_imu_] \in Joinable
     THEN /\ is_running_' = [is_running_ EXCEPT ![device_imu_] = FALSE]
          /\ joining' = [joining EXCEPT ![l] = device_imu_]
          /\ UNCHANGED crashed
     ELSE crashed' = TRUE /\ UNCHANGED <<is_running_, joining>>
  /\ UNCHANGED <<device_imu_, made, publisher, owner, home>>

\* join() returns.
Join(l) ==
  /\ ~crashed
  /\ joining[l] # None
  /\ publisher[joining[l]] = "returned"
  /\ publisher' = [publisher EXCEPT ![joining[l]] = "joined"]
  /\ joining' = [joining EXCEPT ![l] = None]
  /\ UNCHANGED <<callVars, imuThread, handler, queue, device_imu_, made,
                 is_running_, owner, sensorVars, crashed>>

\* onSensorChanged() of NdkSensor.cpp, with the pointers the event queue was
\* made with: what they lead to when the object is gone may end the process.
OnSensorChanged(l) ==
  /\ ~crashed
  /\ joining[l] = None /\ callback[l] # None
  /\ \/ callback' = [callback EXCEPT ![l] = None] /\ UNCHANGED crashed
     \/ callback[l] # device_imu_ /\ crashed' = TRUE /\ UNCHANGED callback
  /\ UNCHANGED <<callVars, looperVars, nativeVars, home, events>>

RunLooper(l) ==
  \/ Prepare(l)
  \/ InitNativeImu(l) \/ StartNativeImu(l) \/ StopNativeImu(l) \/ Join(l)
  \/ OnSensorChanged(l)

-----------------------------------------------------------------------------
\* publishData() leaves its loop.
PublisherReturns(i) ==
  /\ ~crashed
  /\ publisher[i] = "running"
  /\ ~is_running_[i]
  /\ publisher' = [publisher EXCEPT ![i] = "returned"]
  /\ UNCHANGED <<callVars, looperVars, device_imu_, made, is_running_, owner,
                 sensorVars, crashed>>

\* A sensor that is enabled has an event for the looper of its object.
SensorEvent ==
  /\ ~crashed
  /\ events < MaxEvents
  /\ device_imu_ # None /\ is_running_[device_imu_]
  /\ callback' = [callback EXCEPT ![home] = device_imu_]
  /\ events' = events + 1
  /\ UNCHANGED <<callVars, looperVars, nativeVars, home, crashed>>

Next ==
  \/ InitImu \/ Start \/ StartSecondMsg \/ Stop
  \/ \E l \in Looper : RunLooper(l)
  \/ \E i \in Imu : PublisherReturns(i)
  \/ SensorEvent

Spec == Init /\ [][Next]_vars

-----------------------------------------------------------------------------
\* No message is on its way and no looper is at work.
Quiet ==
  /\ rpc = "idle"
  /\ \A l \in Looper : queue[l] = <<>> /\ joining[l] = None

\* Clients take turns: they start a stopped stream and stop a started one.
Alternating == (Start => wanted = "stop") /\ (Stop => wanted = "start")

-----------------------------------------------------------------------------
\* No sequence of calls ends the process: every stop() finds the thread of its
\* start(), every start() finds no thread, and a looper that gets calls has no
\* events of an object that is gone.  One that a later start of the service
\* has left behind may have.
ProcessSurvives ==
  crashed => \E l \in Looper : l # imuThread /\ callback[l] \notin {None, device_imu_}

\* Once all messages are handled, the stream is what the last call asked for:
\* one publisher runs, on the socket the path leads to, or none does.
StreamFollowsCalls ==
  Quiet =>
    IF wanted = "start"
    THEN /\ device_imu_ # None
         /\ owner = device_imu_
         /\ {i \in Imu : publisher[i] = "running"} = {device_imu_}
    ELSE \A i \in Imu : publisher[i] # "running"

\* A stop() is carried out: the publisher's thread ends and is joined.
StopsAreDone ==
  wanted = "stop" ~>
    \/ wanted = "start"
    \/ rpc = "start"
    \/ crashed
    \/ \A i \in Imu : publisher[i] \notin Joinable
=============================================================================
