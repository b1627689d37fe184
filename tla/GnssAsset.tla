----------------------------- MODULE GnssAsset -----------------------------
(***************************************************************************)
(* The GNSS stream: DeviceGnss.kt and DeviceGnssManager.kt.  Each start()  *)
(* makes a thread that binds a publisher to the same ipc path and then     *)
(* waits in its looper for NMEA sentences and for the kill message of      *)
(* stop(); the listener that provides the sentences is registered by a     *)
(* coroutine on the main thread.                                           *)
(***************************************************************************)
EXTENDS Naturals, Sequences

CONSTANTS
  MaxStarts,     \* bound: the number of start() calls
  MaxTasks,      \* bound: the coroutines waiting on the main thread
  MaxSentences   \* bound: the sentences waiting in the queue of one thread

ASSUME GnssAssumption ==
  MaxStarts \in Nat \ {0} /\ MaxTasks \in Nat /\ MaxSentences \in Nat

Thread == 1 .. MaxStarts
NoThread == 0

VARIABLES
  rpc,        \* where the RPC thread is in start() or stop()
  started,    \* the last call was start()
  starts,     \* the number of start() calls
  nmeaMsgThread, \* the thread start() made last, NoThread after stop()
  state,      \* where each thread is
  messages,   \* the messages in the queue of each thread
  owner,      \* the thread whose socket the ipc path leads to
  mainQueue,  \* the coroutines launched on the main thread
  registered, \* the NMEA listener is registered
  gps,        \* the GPS provider is enabled
  unbound,    \* the threads whose socket could not be bound
  forgotten   \* history: the threads that were given up without a kill message

vars == <<rpc, started, starts, nmeaMsgThread, state, messages, owner,
          mainQueue, registered, gps, unbound, forgotten>>

Message == {"nmea", "kill"}

TypeOK ==
  /\ rpc \in {"idle", "starting", "stopping"}
  /\ started \in BOOLEAN
  /\ starts \in 0 .. MaxStarts
  /\ nmeaMsgThread \in Thread \cup {NoThread}
  /\ state \in [Thread -> {"none", "new", "bound", "looping", "quitting", "closed"}]
  /\ messages \in [Thread -> Seq(Message)]
  /\ owner \in Thread \cup {NoThread}
  /\ mainQueue \in Seq({"init", "stop"})
  /\ registered \in BOOLEAN
  /\ gps \in BOOLEAN
  /\ unbound \subseteq Thread /\ forgotten \subseteq Thread

Init ==
  /\ rpc = "idle"
  /\ started = FALSE
  /\ starts = 0
  /\ nmeaMsgThread = NoThread
  /\ state = [t \in Thread |-> "none"]
  /\ messages = [t \in Thread |-> <<>>]
  /\ owner = NoThread
  /\ mainQueue = <<>>
  /\ registered = FALSE
  /\ gps \in BOOLEAN
  /\ unbound = {} /\ forgotten = {}

-----------------------------------------------------------------------------
(* The RPC thread.                                                         *)

StartLaunch ==
  /\ rpc = "idle"
  /\ starts < MaxStarts
  /\ Len(mainQueue) < MaxTasks
  /\ rpc' = "starting"
  /\ starts' = starts + 1
  /\ mainQueue' = Append(mainQueue, "init")
  /\ UNCHANGED <<started, nmeaMsgThread, state, messages, owner, registered,
                 gps, unbound, forgotten>>

\* The new thread takes the place of the one there was, if any.
StartThread ==
  /\ rpc = "starting"
  /\ forgotten' = forgotten \cup ({nmeaMsgThread} \ {NoThread})
  /\ rpc' = "idle"
  /\ started' = TRUE
  /\ nmeaMsgThread' = starts
  /\ state' = [state EXCEPT ![starts] = "new"]
  /\ UNCHANGED <<starts, messages, owner, mainQueue, registered, gps, unbound>>

\* Mutant: stop() removes the listener itself.
StopUnregistering ==
  /\ rpc = "idle"
  /\ rpc' = "stopping"
  /\ registered' = FALSE
  /\ UNCHANGED <<started, starts, nmeaMsgThread, state, messages, owner,
                 mainQueue, gps, unbound, forgotten>>

StopLaunch ==
  /\ rpc = "idle"
  /\ Len(mainQueue) < MaxTasks
  /\ rpc' = "stopping"
  /\ mainQueue' = Append(mainQueue, "stop")
  /\ UNCHANGED <<started, starts, nmeaMsgThread, state, messages, owner,
                 registered, gps, unbound, forgotten>>

\* sendMsg through a handler that may not be there yet, and that refuses
\* messages once its looper quits.
Post(t, msg) ==
  messages' = IF t # NoThread /\ state[t] = "looping"
              THEN [messages EXCEPT ![t] = Append(@, msg)]
              ELSE messages

\* Mutant: the thread is forgotten without being killed.
StopForgetting ==
  /\ rpc = "stopping"
  /\ rpc' = "idle"
  /\ started' = FALSE
  /\ nmeaMsgThread' = NoThread
  /\ UNCHANGED <<starts, state, messages, owner, mainQueue, registered, gps,
                 unbound, forgotten>>

\* Mutant: the message the looper of the IMU is stopped with.
StopByStop ==
  /\ rpc = "stopping"
  /\ rpc' = "idle"
  /\ started' = FALSE
  /\ Post(nmeaMsgThread, "stop")
  /\ nmeaMsgThread' = NoThread
  /\ UNCHANGED <<starts, state, owner, mainQueue, registered, gps, unbound,
                 forgotten>>

\* A thread that has no handler yet is given up as it is.
StopKill ==
  /\ rpc = "stopping"
  /\ rpc' = "idle"
  /\ started' = FALSE
  /\ Post(nmeaMsgThread, "kill")
  /\ nmeaMsgThread' = NoThread
  /\ forgotten' = forgotten \cup
                     {t \in Thread : t = nmeaMsgThread /\ state[t] # "looping"}
  /\ UNCHANGED <<starts, state, owner, mainQueue, registered, gps, unbound>>

-----------------------------------------------------------------------------
(* The main thread.                                                        *)

\* A coroutine: DeviceGnssManager.init(), whose result nobody looks at, or
\* DeviceGnssManager.stop().
MainTask ==
  /\ mainQueue # <<>>
  /\ mainQueue' = Tail(mainQueue)
  /\ registered' = IF Head(mainQueue) = "init" THEN registered \/ gps ELSE FALSE
  /\ UNCHANGED <<rpc, started, starts, nmeaMsgThread, state, messages, owner,
                 gps, unbound, forgotten>>

OnNmeaMessage ==
  /\ registered
  /\ nmeaMsgThread # NoThread
  /\ Len(messages[nmeaMsgThread]) < MaxSentences
  /\ Post(nmeaMsgThread, "nmea")
  /\ UNCHANGED <<rpc, started, starts, nmeaMsgThread, state, owner, mainQueue,
                 registered, gps, unbound, forgotten>>

\* The user switches the provider.
SwitchGps ==
  /\ gps' = ~gps
  /\ UNCHANGED <<rpc, started, starts, nmeaMsgThread, state, messages, owner,
                 mainQueue, registered, unbound, forgotten>>

-----------------------------------------------------------------------------
(* A thread of NMEAMessageThread.                                          *)

Moves(t, from, to) == state[t] = from /\ state' = [state EXCEPT ![t] = to]

\* publisher.init(): the bind removes the file that is at the path and puts
\* its own there.
Bind(t) ==
  /\ Moves(t, "new", "bound")
  /\ owner' = t
  /\ UNCHANGED <<rpc, started, starts, nmeaMsgThread, messages, mainQueue,
                 registered, gps, unbound, forgotten>>

\* The bind fails, with the file removed or not: the constructor logs it, and
\* the thread goes on with a socket that is not bound.
BindFails(t) ==
  /\ Moves(t, "new", "bound")
  /\ owner' \in {owner, NoThread}
  /\ unbound' = unbound \cup {t}
  /\ UNCHANGED <<rpc, started, starts, nmeaMsgThread, messages, mainQueue,
                 registered, gps, forgotten>>

\* Looper.prepare() and the handler: from here on messages reach the thread.
Prepare(t) ==
  /\ Moves(t, "bound", "looping")
  /\ UNCHANGED <<rpc, started, starts, nmeaMsgThread, messages, owner,
                 mainQueue, registered, gps, unbound, forgotten>>

\* A sentence is published.
HandleNmea(t) ==
  /\ state[t] \in {"looping", "quitting"}
  /\ messages[t] # <<>>
  /\ Head(messages[t]) = "nmea"
  /\ messages' = [messages EXCEPT ![t] = Tail(@)]
  /\ UNCHANGED <<rpc, started, starts, nmeaMsgThread, state, owner, mainQueue,
                 registered, gps, unbound, forgotten>>

\* quitSafely(): what is already in the queue is still handled.
HandleKill(t) ==
  /\ messages[t] # <<>>
  /\ Head(messages[t]) = "kill"
  /\ messages' = [messages EXCEPT ![t] = Tail(@)]
  /\ Moves(t, "looping", "quitting")
  /\ UNCHANGED <<rpc, started, starts, nmeaMsgThread, owner, mainQueue,
                 registered, gps, unbound, forgotten>>

\* Mutant: the file at the path is removed with the publisher.
CloseUnlinking(t) ==
  /\ messages[t] = <<>>
  /\ Moves(t, "quitting", "closed")
  /\ owner' = NoThread
  /\ UNCHANGED <<rpc, started, starts, nmeaMsgThread, messages, mainQueue,
                 registered, gps, unbound, forgotten>>

\* loop() returns and the publisher is closed; the file stays where it is.
Close(t) ==
  /\ messages[t] = <<>>
  /\ Moves(t, "quitting", "closed")
  /\ UNCHANGED <<rpc, started, starts, nmeaMsgThread, messages, owner,
                 mainQueue, registered, gps, unbound, forgotten>>

Run(t) ==
  \/ Bind(t) \/ BindFails(t) \/ Prepare(t)
  \/ HandleNmea(t) \/ HandleKill(t) \/ Close(t)

-----------------------------------------------------------------------------
RpcThread == StartLaunch \/ StartThread \/ StopLaunch \/ StopKill

Next ==
  \/ RpcThread \/ MainTask \/ OnNmeaMessage \/ SwitchGps
  \/ \E t \in Thread : Run(t)

Spec == Init /\ [][Next]_vars

\* Every thread runs; calls that began are finished.
Fairness ==
  /\ WF_vars(StartThread) /\ WF_vars(StopKill) /\ WF_vars(MainTask)
  /\ \A t \in Thread : WF_vars(Run(t))

LiveSpec == Spec /\ Fairness

-----------------------------------------------------------------------------
\* Nothing is under way but the passing of sentences.
Quiet ==
  /\ rpc = "idle"
  /\ mainQueue = <<>>
  /\ \A t \in Thread : /\ state[t] \in {"none", "looping", "closed"}
                       /\ "kill" \notin {messages[t][i] : i \in DOMAIN messages[t]}

\* Once started, subscribers of the path reach the thread sentences are given
\* to: no thread that was stopped before takes the path over, only one that was
\* given up without a kill message or a bind that failed does.
StreamReachable ==
  Quiet /\ started =>
    /\ nmeaMsgThread # NoThread
    /\ state[nmeaMsgThread] = "looping"
    /\ \/ owner \in {nmeaMsgThread} \cup forgotten
       \/ unbound \cap ({nmeaMsgThread} \cup forgotten) # {}

\* Once stopped, no listener is left registered and no thread in its looper but
\* one that was given up, although both are undone by messages to other threads.
StoppedLeavesNothing ==
  Quiet /\ ~started =>
    /\ ~registered
    /\ \A t \in Thread : state[t] \in {"none", "closed"} \/ t \in forgotten

\* Every thread that is no longer the current one closes its publisher, unless
\* it was given up without a kill message.
OldThreadsClose ==
  \A t \in Thread :
    state[t] = "looping" /\ nmeaMsgThread # t ~> state[t] = "closed" \/ t \in forgotten
=============================================================================
