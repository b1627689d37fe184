-------------------------- MODULE GnssAsset_proofs --------------------------
(***************************************************************************)
(* The GNSS stream for any number of starts and stops in any order: once   *)
(* all is quiet a started stream is published by the thread the sentences  *)
(* go to, and a stopped one has left no listener and no thread, but for    *)
(* what a thread that was given up without a kill message or a bind that   *)
(* failed has done.  The invariant says of a thread that is no longer the  *)
(* current one that the message that ends it is on its way, and of the     *)
(* coroutines that the last one launched is that of the last call.         *)
(***************************************************************************)
EXTENDS GnssAsset, SequenceTheorems, TLAPS

Last(s) == s[Len(s)]

HasKill(s) == "kill" \in {s[i] : i \in DOMAIN s}

\* The last call is stop().
Stopped == rpc = "stopping" \/ (rpc = "idle" /\ ~started)

\* The calls: a thread is the current one from the end of the start() that
\* made it to the end of the next call.
Calls ==
  /\ started <=> nmeaMsgThread # NoThread
  /\ nmeaMsgThread # NoThread /\ rpc # "starting" => nmeaMsgThread = starts
  /\ rpc = "starting" => starts \in Thread /\ nmeaMsgThread # starts

Unborn(t) == t > starts \/ (t = starts /\ rpc = "starting")

\* Subscribers reach t but for a failed bind or a thread that was given up.
Reached(t) ==
  \/ owner \in {t} \cup forgotten
  \/ unbound \cap ({t} \cup forgotten) # {}

Threads ==
  \A t \in Thread :
    /\ Unborn(t) <=> state[t] = "none"
    /\ Unborn(t) => messages[t] = <<>>
    /\ t = nmeaMsgThread =>
         /\ state[t] \in {"new", "bound", "looping"} /\ ~HasKill(messages[t])
         /\ state[t] # "new" => Reached(t)
    /\ t # nmeaMsgThread /\ t \notin forgotten =>
         /\ state[t] \in {"none", "looping", "quitting", "closed"}
         /\ state[t] = "looping" => HasKill(messages[t])

Listener ==
  Stopped =>
    /\ mainQueue = <<>> => ~registered
    /\ mainQueue # <<>> => Last(mainQueue) = "stop"

GnssInv == TypeOK /\ Calls /\ Threads /\ Listener

-----------------------------------------------------------------------------
\* What putting a message at the end of a queue and taking one from its front
\* do to the messages in it (sendMsg, Looper.loop).
LEMMA QueuePut ==
  ASSUME NEW S, NEW s \in Seq(S), NEW e \in S
  PROVE  /\ Append(s, e) \in Seq(S) /\ Append(s, e) # <<>>
         /\ Last(Append(s, e)) = e
         /\ HasKill(Append(s, e)) <=> HasKill(s) \/ e = "kill"
<1>1. /\ Append(s, e) \in Seq(S) /\ Append(s, e) # <<>>
      /\ Last(Append(s, e)) = e
  BY DEF Last
<1>2. /\ DOMAIN Append(s, e) = 1 .. Len(s) + 1 /\ DOMAIN s = 1 .. Len(s)
      /\ Append(s, e)[Len(s) + 1] = e /\ Len(s) \in Nat
      /\ \A i \in 1 .. Len(s) : Append(s, e)[i] = s[i]
  OBVIOUS
<1>3. HasKill(Append(s, e)) <=> HasKill(s) \/ e = "kill"
  BY <1>2 DEF HasKill
<1> QED BY <1>1, <1>3

LEMMA QueueTake ==
  ASSUME NEW S, NEW s \in Seq(S), s # <<>>
  PROVE  /\ Tail(s) \in Seq(S) /\ Head(s) \in S
         /\ Tail(s) # <<>> => Last(Tail(s)) = Last(s)
         /\ Tail(s) = <<>> => Last(s) = Head(s)
         /\ Head(s) # "kill" => (HasKill(Tail(s)) <=> HasKill(s))
         /\ Head(s) = "kill" => HasKill(s)
<1> DEFINE n == Len(s)
<1>1. n \in Nat \ {0} /\ Head(s) = s[1]
  BY EmptySeq
<1>2. /\ Head(s) \in S /\ Tail(s) \in Seq(S) /\ Len(Tail(s)) = n - 1
      /\ \A i \in 1 .. n - 1 : Tail(s)[i] = s[i + 1]
  BY HeadTailProperties
<1>3. /\ Tail(s) # <<>> => Last(Tail(s)) = Last(s)
      /\ Tail(s) = <<>> => Last(s) = Head(s)
  <2>1. CASE n = 1
    <3>1. Tail(s) = <<>>
      <4>1. Len(Tail(s)) \notin Nat \ {0}
        BY <1>2, <2>1
      <4> QED BY <1>2, <4>1, EmptySeq, Zenon
    <3>2. Last(s) = s[1]
      BY <2>1 DEF Last
    <3> QED BY <1>1, <3>1, <3>2
  <2>2. CASE n # 1
    <3> HIDE DEF n
    <3>1. n - 1 \in 1 .. n - 1 /\ n - 1 # 0 /\ n - 1 + 1 = n
      BY <1>1, <2>2
    <3>2. Tail(s) # <<>>
      BY <1>2, <3>1, EmptySeq
    <3>3. Tail(s)[n - 1] = s[n]
      BY <1>2, <3>1
    <3>4. Last(Tail(s)) = Tail(s)[n - 1] /\ Last(s) = s[n]
      BY <1>2 DEF Last, n
    <3> QED BY <3>2, <3>3, <3>4
  <2> QED BY <2>1, <2>2
<1>4. /\ DOMAIN Tail(s) = 1 .. n - 1 /\ DOMAIN s = 1 .. n
      /\ \A i \in 1 .. n - 1 : Tail(s)[i] = s[i + 1]
  BY <1>2
<1> HIDE DEF n
<1>5. Head(s) # "kill" => (HasKill(Tail(s)) <=> HasKill(s))
  <2>1. \A i \in 1 .. n - 1 : i + 1 \in 1 .. n
    BY <1>1
  <2>2. \A j \in 1 .. n : j = 1 \/ (j - 1 \in 1 .. n - 1 /\ j - 1 + 1 = j)
    BY <1>1
  <2>3. ASSUME Head(s) # "kill", HasKill(s) PROVE HasKill(Tail(s))
    <3>1. PICK j \in 1 .. n : s[j] = "kill"
      BY <1>4, <2>3 DEF HasKill
    <3>2. j - 1 \in 1 .. n - 1 /\ Tail(s)[j - 1] = "kill"
      BY <1>1, <1>4, <2>2, <2>3, <3>1
    <3> QED BY <1>4, <3>2 DEF HasKill
  <2>4. ASSUME HasKill(Tail(s)) PROVE HasKill(s)
    BY <1>4, <2>1, <2>4 DEF HasKill
  <2> QED BY <2>3, <2>4
<1>6. Head(s) = "kill" => HasKill(s)
  <2>1. 1 \in DOMAIN s
    BY <1>1, <1>4
  <2> QED BY <1>1, <2>1 DEF HasKill
<1> QED BY <1>2, <1>5, <1>6, <1>3

-----------------------------------------------------------------------------
\* The variables keep their types.
LEMMA TypesInit == Init => TypeOK
<1> SUFFICES ASSUME Init PROVE TypeOK
  OBVIOUS
<1>1. <<>> \in Seq(Message) /\ <<>> \in Seq({"init", "stop"}) /\ 0 \in 0 .. MaxStarts
  BY GnssAssumption
<1> QED BY <1>1 DEF Init, TypeOK

\* A message that is posted is put into the queue of a thread (sendMsg).
LEMMA TypesPost ==
  ASSUME TypeOK, NEW t \in Thread \cup {NoThread}, NEW msg \in Message, Post(t, msg)
  PROVE  messages' \in [Thread -> Seq(Message)]
<1>1. CASE t # NoThread /\ state[t] = "looping"
  <2>1. t \in Thread /\ messages[t] \in Seq(Message)
    BY <1>1 DEF TypeOK
  <2>2. Append(messages[t], msg) \in Seq(Message)
    BY <2>1, QueuePut
  <2> QED BY <1>1, <2>1, <2>2 DEF Post, TypeOK
<1>2. CASE ~(t # NoThread /\ state[t] = "looping")
  BY <1>2 DEF Post, TypeOK
<1> QED BY <1>1, <1>2

\* The message a thread handles is taken from its queue (Looper.loop).
LEMMA TypesHandle ==
  ASSUME TypeOK, NEW t \in Thread, messages[t] # <<>>,
         messages' = [messages EXCEPT ![t] = Tail(@)]
  PROVE  messages' \in [Thread -> Seq(Message)]
<1>1. messages[t] \in Seq(Message)
  BY DEF TypeOK
<1>2. Tail(messages[t]) \in Seq(Message)
  BY <1>1, QueueTake
<1> QED BY <1>2 DEF TypeOK

LEMMA TypesNext == TypeOK /\ [Next]_vars => TypeOK'
<1> SUFFICES ASSUME TypeOK, [Next]_vars PROVE TypeOK'
  OBVIOUS
<1> USE GnssAssumption
<1>1. mainQueue \in Seq({"init", "stop"})
  BY DEF TypeOK
<1>2. CASE StartLaunch
  <2>1. mainQueue' \in Seq({"init", "stop"})
    BY <1>1, <1>2, QueuePut DEF StartLaunch
  <2> QED BY <1>2, <2>1 DEF StartLaunch, TypeOK
<1>3. CASE StartThread
  <2>3. forgotten' \subseteq Thread
    BY <1>3 DEF StartThread, TypeOK
  <2>1. state' \in [Thread -> {"none", "new", "bound", "looping", "quitting", "closed"}]
    BY <1>3 DEF StartThread, TypeOK
  <2>2. nmeaMsgThread' \in Thread \cup {NoThread}
    BY <1>3 DEF StartThread, TypeOK, Thread, NoThread
  <2> QED BY <1>3, <2>1, <2>2, <2>3 DEF StartThread, TypeOK
<1>4. CASE StopLaunch
  <2>1. mainQueue' \in Seq({"init", "stop"})
    BY <1>1, <1>4, QueuePut DEF StopLaunch
  <2> QED BY <1>4, <2>1 DEF StopLaunch, TypeOK
<1>5. CASE StopKill
  <2>1. messages' \in [Thread -> Seq(Message)]
    BY <1>5, TypesPost DEF StopKill, TypeOK, Message
  <2> QED BY <1>5, <2>1 DEF StopKill, TypeOK
<1>6. CASE MainTask
  <2>1. mainQueue' \in Seq({"init", "stop"})
    BY <1>1, <1>6, QueueTake DEF MainTask
  <2>2. registered' \in BOOLEAN
    BY <1>6 DEF MainTask, TypeOK
  <2> QED BY <1>6, <2>1, <2>2 DEF MainTask, TypeOK
<1>7. CASE OnNmeaMessage
  <2>1. messages' \in [Thread -> Seq(Message)]
    BY <1>7, TypesPost DEF OnNmeaMessage, TypeOK, Message
  <2> QED BY <1>7, <2>1 DEF OnNmeaMessage, TypeOK
<1>8. CASE SwitchGps
  <2>1. gps' \in BOOLEAN
    BY <1>8 DEF SwitchGps
  <2> QED BY <1>8, <2>1 DEF SwitchGps, TypeOK
<1>9. ASSUME NEW t \in Thread, Run(t) PROVE TypeOK'
  <2>1. CASE Bind(t) \/ BindFails(t)
    BY <2>1 DEF Bind, BindFails, Moves, TypeOK
  <2>2. CASE Prepare(t) \/ Close(t)
    BY <2>2 DEF Prepare, Close, Moves, TypeOK
  <2>3. CASE HandleNmea(t) \/ HandleKill(t)
    <3>1. messages' \in [Thread -> Seq(Message)]
      BY <2>3, TypesHandle DEF HandleNmea, HandleKill
    <3> QED BY <2>3, <3>1 DEF HandleNmea, HandleKill, Moves, TypeOK
  <2> QED BY <1>9, <2>1, <2>2, <2>3 DEF Run
<1>10. CASE UNCHANGED vars
  BY <1>10 DEF vars, TypeOK
<1> QED BY <1>2, <1>3, <1>4, <1>5, <1>6, <1>7, <1>8, <1>9, <1>10 DEF Next, RpcThread

\* Whatever the calls, the state keeps to its types.
THEOREM GnssTypes == Spec => []TypeOK
BY TypesInit, TypesNext, PTL DEF Spec

-----------------------------------------------------------------------------
(* The stream, whatever the calls.                                         *)

LEMMA GnssInit == Init => GnssInv
<1> SUFFICES ASSUME Init PROVE GnssInv
  OBVIOUS
<1>1. TypeOK
  BY TypesInit
<1>2. Calls /\ Listener
  BY DEF Init, Calls, Listener, NoThread
<1>3. Threads
  BY GnssAssumption DEF Init, Threads, Unborn, Thread, NoThread
<1> QED BY <1>1, <1>2, <1>3 DEF GnssInv

\* start(): a thread that nobody knew becomes the current one, and the one there
\* was is given up.
LEMMA GnssStart == GnssInv /\ (StartLaunch \/ StartThread) => Calls' /\ Threads' /\ Listener'
<1> SUFFICES ASSUME GnssInv, StartLaunch \/ StartThread
             PROVE  Calls' /\ Threads' /\ Listener'
  OBVIOUS
<1> USE GnssAssumption DEF GnssInv
<1>1. CASE StartLaunch
  <2>1. /\ starts < MaxStarts /\ rpc = "idle" /\ starts' = starts + 1 /\ rpc' = "starting"
        /\ starts \in Nat /\ nmeaMsgThread \in Nat
        /\ UNCHANGED <<started, nmeaMsgThread, state, messages, owner, unbound, forgotten>>
    BY <1>1 DEF StartLaunch, TypeOK, Thread, NoThread
  <2>2. Calls'
    BY <2>1 DEF Calls, Thread, NoThread
  <2>3. \A t \in Thread : Unborn(t)' <=> Unborn(t)
    BY <2>1 DEF Unborn, Thread
  <2>4. Threads'
    BY <2>1, <2>3 DEF Threads, Reached
  <2> QED BY <2>1, <2>2, <2>4 DEF Listener, Stopped
<1>2. CASE StartThread
  <2>1. /\ rpc = "starting" /\ starts \in Thread /\ starts' = starts /\ rpc' = "idle"
        /\ nmeaMsgThread # starts /\ nmeaMsgThread' = starts /\ started' = TRUE
        /\ messages' = messages /\ owner' = owner
        /\ forgotten \subseteq forgotten'
        /\ nmeaMsgThread \in Thread => nmeaMsgThread \in forgotten'
    BY <1>2 DEF StartThread, Calls, NoThread, Thread
  <2>2. Calls'
    BY <2>1 DEF Calls, Thread, NoThread
  <2>3. state[starts] = "none"
    BY <2>1 DEF Threads, Unborn
  <2>4. ~HasKill(messages[starts])
    BY <2>1 DEF Threads, Unborn, HasKill
  <2>5. ASSUME NEW t \in Thread
        PROVE  (Unborn(t)' <=> Unborn(t) /\ t # starts) /\ (t # starts => state'[t] = state[t])
    BY <1>2, <2>1 DEF Unborn, StartThread, TypeOK, Thread
  <2>6. state'[starts] = "new" /\ ~Unborn(starts)'
    BY <1>2, <2>1 DEF StartThread, Unborn, TypeOK, Thread
  <2>7. ASSUME NEW t \in Thread
        PROVE  /\ Unborn(t)' <=> state'[t] = "none"
               /\ Unborn(t)' => messages'[t] = <<>>
               /\ t = nmeaMsgThread' => state'[t] = "new" /\ ~HasKill(messages'[t])
               /\ t # nmeaMsgThread' /\ t \notin forgotten' =>
                    /\ state'[t] \in {"none", "looping", "quitting", "closed"}
                    /\ state'[t] = "looping" => HasKill(messages'[t])
    <3>1. CASE t = starts
      BY <2>1, <2>3, <2>4, <2>6, <3>1
    <3>2. CASE t # starts
      <4>1. t \notin forgotten' => t # nmeaMsgThread /\ t \notin forgotten
        BY <2>1
      <4> QED BY <2>1, <2>5, <3>2, <4>1 DEF Threads
    <3> QED BY <3>1, <3>2
  <2>8. Threads'
    BY <2>7 DEF Threads
  <2> QED BY <2>1, <2>2, <2>8 DEF Listener, Stopped
<1> QED BY <1>1, <1>2

\* stop(): the current thread is sent the message that ends it if it is in its
\* looper, and given up if it is not.
LEMMA GnssStop == GnssInv /\ (StopLaunch \/ StopKill) => Calls' /\ Threads' /\ Listener'
<1> SUFFICES ASSUME GnssInv, StopLaunch \/ StopKill
             PROVE  Calls' /\ Threads' /\ Listener'
  OBVIOUS
<1> USE GnssAssumption DEF GnssInv
<1>1. CASE StopLaunch
  <2>1. /\ rpc = "idle" /\ rpc' = "stopping"
        /\ UNCHANGED <<started, starts, nmeaMsgThread, state, messages, owner, unbound,
                       forgotten>>
    BY <1>1 DEF StopLaunch
  <2>2. Calls'
    BY <2>1 DEF Calls
  <2>3. \A t \in Thread : Unborn(t)' <=> Unborn(t)
    BY <2>1 DEF Unborn
  <2>4. Threads'
    BY <2>1, <2>3 DEF Threads, Reached
  <2>5. mainQueue \in Seq({"init", "stop"}) /\ mainQueue' = Append(mainQueue, "stop")
    BY <1>1 DEF StopLaunch, TypeOK
  <2>6. mainQueue' # <<>> /\ Last(mainQueue') = "stop"
    BY <2>5, QueuePut
  <2> QED BY <2>2, <2>4, <2>6 DEF Listener
<1>2. CASE StopKill
  <2>1. /\ rpc = "stopping" /\ rpc' = "idle" /\ started' = FALSE
        /\ nmeaMsgThread' = NoThread /\ UNCHANGED <<starts, state, owner, mainQueue, registered>>
        /\ Post(nmeaMsgThread, "kill")
        /\ forgotten' = forgotten \cup {t \in Thread : t = nmeaMsgThread /\ state[t] # "looping"}
    BY <1>2 DEF StopKill
  <2>2. ASSUME NEW t \in Thread
        PROVE  /\ t # nmeaMsgThread => messages'[t] = messages[t]
               /\ Unborn(t) => messages'[t] = messages[t]
               /\ t = nmeaMsgThread /\ state[t] = "looping" => HasKill(messages'[t])
    <3>1. CASE t = nmeaMsgThread /\ state[t] = "looping"
      <4>1. messages'[t] = Append(messages[t], "kill") /\ messages[t] \in Seq(Message)
        BY <2>1, <3>1 DEF Post, Thread, NoThread, TypeOK
      <4>2. HasKill(messages'[t])
        BY <4>1, QueuePut DEF Message
      <4> QED BY <3>1, <4>2 DEF Threads
    <3>2. CASE ~(t = nmeaMsgThread /\ state[t] = "looping")
      <4>1. messages'[t] = messages[t]
        BY <2>1, <3>2 DEF Post, TypeOK
      <4> QED BY <3>2, <4>1
    <3> QED BY <3>1, <3>2
  <2>3. ASSUME NEW t \in Thread
        PROVE  /\ Unborn(t)' <=> state'[t] = "none"
               /\ Unborn(t)' => messages'[t] = <<>>
               /\ t # nmeaMsgThread'
               /\ t \notin forgotten' =>
                    /\ state'[t] \in {"none", "looping", "quitting", "closed"}
                    /\ state'[t] = "looping" => HasKill(messages'[t])
    <3>1. (Unborn(t)' <=> Unborn(t)) /\ t # NoThread
      BY <2>1 DEF Unborn, Thread, NoThread
    <3>2. t \notin forgotten' =>
            t \notin forgotten /\ (t = nmeaMsgThread => state[t] = "looping")
      BY <2>1
    <3> QED BY <2>1, <2>2, <3>1, <3>2 DEF Threads
  <2>4. Threads'
    BY <2>3 DEF Threads
  <2>5. Calls' /\ Listener'
    BY <2>1 DEF Calls, Listener, Stopped
  <2> QED BY <2>4, <2>5
<1> QED BY <1>1, <1>2

\* The coroutines of the main thread: with the last one the listener is as the
\* last call wants it (DeviceGnssManager.init, stop).
LEMMA GnssMain == GnssInv /\ (MainTask \/ SwitchGps) => Calls' /\ Threads' /\ Listener'
<1> SUFFICES ASSUME GnssInv, MainTask \/ SwitchGps
             PROVE  Calls' /\ Threads' /\ Listener'
  OBVIOUS
<1> USE DEF GnssInv
<1>1. UNCHANGED <<rpc, started, starts, nmeaMsgThread, state, messages, owner, unbound, forgotten>>
  BY DEF MainTask, SwitchGps
<1>2. \A t \in Thread : Unborn(t)' <=> Unborn(t)
  BY <1>1 DEF Unborn
<1>3. Calls' /\ Threads'
  BY <1>1, <1>2 DEF Calls, Threads, Reached
<1>4. Stopped' <=> Stopped
  BY <1>1 DEF Stopped
<1>5. CASE MainTask
  <2>1. /\ mainQueue \in Seq({"init", "stop"}) /\ mainQueue # <<>>
        /\ mainQueue' = Tail(mainQueue)
        /\ Head(mainQueue) = "stop" => registered' = FALSE
    BY <1>5 DEF MainTask, TypeOK
  <2>2. /\ mainQueue' # <<>> => Last(mainQueue') = Last(mainQueue)
        /\ mainQueue' = <<>> => Last(mainQueue) = Head(mainQueue)
    BY <2>1, QueueTake
  <2> QED BY <1>3, <1>4, <2>1, <2>2 DEF Listener
<1>6. CASE SwitchGps
  <2>1. mainQueue' = mainQueue /\ registered' = registered
    BY <1>6 DEF SwitchGps
  <2> QED BY <1>3, <1>4, <2>1 DEF Listener
<1> QED BY <1>5, <1>6

\* A sentence reaches the current thread or none (onNmeaMessage).
LEMMA GnssNmea == GnssInv /\ OnNmeaMessage => Calls' /\ Threads' /\ Listener'
<1> SUFFICES ASSUME GnssInv, OnNmeaMessage
             PROVE  Calls' /\ Threads' /\ Listener'
  OBVIOUS
<1> USE DEF GnssInv
<1>1. /\ UNCHANGED <<rpc, started, starts, nmeaMsgThread, state, owner, mainQueue, registered,
                     unbound, forgotten>>
      /\ nmeaMsgThread \in Thread
  BY DEF OnNmeaMessage, TypeOK
<1>2. \A t \in Thread : Unborn(t)' <=> Unborn(t)
  BY <1>1 DEF Unborn
<1>3. Calls' /\ Listener'
  BY <1>1 DEF Calls, Listener, Stopped
<1>4. ASSUME NEW t \in Thread
      PROVE  /\ HasKill(messages'[t]) <=> HasKill(messages[t])
             /\ Unborn(t) => messages'[t] = messages[t]
  <2>1. CASE t = nmeaMsgThread /\ state[t] = "looping"
    <3>1. messages'[t] = Append(messages[t], "nmea") /\ messages[t] \in Seq(Message)
      BY <2>1 DEF OnNmeaMessage, Post, NoThread, Thread, TypeOK
    <3>2. HasKill(messages'[t]) <=> HasKill(messages[t])
      BY <3>1, QueuePut DEF Message
    <3>3. ~Unborn(t)
      BY <2>1 DEF Threads
    <3> QED BY <3>2, <3>3
  <2>2. CASE ~(t = nmeaMsgThread /\ state[t] = "looping")
    <3>1. messages'[t] = messages[t]
      BY <2>2 DEF OnNmeaMessage, Post, TypeOK
    <3> QED BY <3>1
  <2> QED BY <2>1, <2>2
<1>5. Threads'
  BY <1>1, <1>2, <1>4 DEF Threads, Reached
<1> QED BY <1>3, <1>5

\* A thread goes on: the current one never leaves its looper, and no other one
\* takes the path but one that was given up.
LEMMA GnssRun ==
  ASSUME GnssInv, NEW u \in Thread, Run(u)
  PROVE  Calls' /\ Threads' /\ Listener'
<1> USE DEF GnssInv
<1>1. UNCHANGED <<rpc, started, starts, nmeaMsgThread, mainQueue, registered, forgotten>>
  BY DEF Run, Bind, BindFails, Prepare, HandleNmea, HandleKill, Close
<1>2. \A t \in Thread : Unborn(t)' <=> Unborn(t)
  BY <1>1 DEF Unborn
<1>3. Calls' /\ Listener'
  BY <1>1 DEF Calls, Listener, Stopped
<1>4. \A t \in Thread : t # u => state'[t] = state[t] /\ messages'[t] = messages[t]
  BY DEF Run, Bind, BindFails, Prepare, HandleNmea, HandleKill, Close, Moves, TypeOK
<1>5. /\ state[u] # "none" /\ state'[u] # "none"
      /\ u = nmeaMsgThread =>
           /\ state'[u] \in {"new", "bound", "looping"} /\ ~HasKill(messages'[u])
           /\ state'[u] # "new" => Reached(u)'
      /\ u # nmeaMsgThread /\ u \notin forgotten =>
           /\ state'[u] \in {"looping", "quitting", "closed"}
           /\ state'[u] = "looping" => HasKill(messages'[u])
      /\ u # nmeaMsgThread => \A t \in Thread : Reached(t) => Reached(t)'
  <2>1. CASE Bind(u)
    <3>1. /\ state[u] = "new" /\ state'[u] = "bound" /\ owner' = u /\ messages' = messages
          /\ unbound' = unbound
      BY <2>1 DEF Bind, Moves, TypeOK
    <3>2. Reached(u)' /\ (u \in forgotten => \A t \in Thread : Reached(t)')
      BY <1>1, <3>1 DEF Reached
    <3> QED BY <3>1, <3>2 DEF Threads
  <2>2. CASE BindFails(u)
    <3>1. /\ state[u] = "new" /\ state'[u] = "bound" /\ messages' = messages
          /\ u \in unbound'
      BY <2>2 DEF BindFails, Moves, TypeOK
    <3>2. Reached(u)' /\ (u \in forgotten => \A t \in Thread : Reached(t)')
      BY <1>1, <3>1 DEF Reached
    <3> QED BY <3>1, <3>2 DEF Threads
  <2>3. CASE Prepare(u)
    <3>1. /\ state[u] = "bound" /\ state'[u] = "looping" /\ messages' = messages
          /\ UNCHANGED <<owner, unbound>>
      BY <2>3 DEF Prepare, Moves, TypeOK
    <3>2. \A t \in Thread : Reached(t) => Reached(t)'
      BY <1>1, <3>1 DEF Reached
    <3> QED BY <3>1, <3>2 DEF Threads
  <2>4. CASE HandleNmea(u)
    <3>1. /\ state[u] \in {"looping", "quitting"} /\ state' = state
          /\ messages[u] \in Seq(Message) /\ messages[u] # <<>> /\ Head(messages[u]) = "nmea"
          /\ messages'[u] = Tail(messages[u]) /\ UNCHANGED <<owner, unbound>>
      BY <2>4 DEF HandleNmea, TypeOK
    <3>2. HasKill(messages'[u]) <=> HasKill(messages[u])
      BY <3>1, QueueTake
    <3>3. \A t \in Thread : Reached(t) => Reached(t)'
      BY <1>1, <3>1 DEF Reached
    <3> QED BY <3>1, <3>2, <3>3 DEF Threads
  <2>5. CASE HandleKill(u)
    <3>1. /\ state[u] = "looping" /\ state'[u] = "quitting" /\ UNCHANGED <<owner, unbound>>
          /\ messages[u] \in Seq(Message) /\ messages[u] # <<>> /\ Head(messages[u]) = "kill"
      BY <2>5 DEF HandleKill, Moves, TypeOK
    <3>2. HasKill(messages[u])
      BY <3>1, QueueTake
    <3>3. \A t \in Thread : Reached(t) => Reached(t)'
      BY <1>1, <3>1 DEF Reached
    <3> QED BY <3>1, <3>2, <3>3 DEF Threads
  <2>6. CASE Close(u)
    <3>1. state[u] = "quitting" /\ state'[u] = "closed" /\ UNCHANGED <<owner, unbound>>
      BY <2>6 DEF Close, Moves, TypeOK
    <3>2. \A t \in Thread : Reached(t) => Reached(t)'
      BY <1>1, <3>1 DEF Reached
    <3> QED BY <3>1, <3>2 DEF Threads
  <2> QED BY <2>1, <2>2, <2>3, <2>4, <2>5, <2>6 DEF Run
<1>6. ASSUME NEW t \in Thread
      PROVE  /\ Unborn(t)' <=> state'[t] = "none"
             /\ Unborn(t)' => messages'[t] = <<>>
             /\ t = nmeaMsgThread' =>
                  /\ state'[t] \in {"new", "bound", "looping"} /\ ~HasKill(messages'[t])
                  /\ state'[t] # "new" => Reached(t)'
             /\ t # nmeaMsgThread' /\ t \notin forgotten' =>
                  /\ state'[t] \in {"none", "looping", "quitting", "closed"}
                  /\ state'[t] = "looping" => HasKill(messages'[t])
  <2>1. CASE t = u
    <3>1. ~Unborn(t)' /\ ~Unborn(t)
      BY <1>2, <1>5, <2>1 DEF Threads
    <3> QED BY <1>1, <1>5, <2>1, <3>1
  <2>2. CASE t # u
    <3>1. state'[t] = state[t] /\ messages'[t] = messages[t]
      BY <1>4, <2>2
    <3>2. t = nmeaMsgThread => (Reached(t) => Reached(t)')
      BY <1>5, <2>2
    <3> QED BY <1>1, <1>2, <3>1, <3>2 DEF Threads
  <2> QED BY <2>1, <2>2
<1>7. Threads'
  BY <1>6 DEF Threads
<1> QED BY <1>3, <1>7

LEMMA GnssNext == GnssInv /\ [Next]_vars => GnssInv'
<1> SUFFICES ASSUME GnssInv, [Next]_vars PROVE GnssInv'
  OBVIOUS
<1>1. TypeOK'
  BY TypesNext DEF GnssInv
<1>2. CASE StartLaunch \/ StartThread
  BY <1>1, <1>2, GnssStart DEF GnssInv
<1>3. CASE StopLaunch \/ StopKill
  BY <1>1, <1>3, GnssStop DEF GnssInv
<1>4. CASE MainTask \/ SwitchGps
  BY <1>1, <1>4, GnssMain DEF GnssInv
<1>5. CASE OnNmeaMessage
  BY <1>1, <1>5, GnssNmea DEF GnssInv
<1>6. CASE \E t \in Thread : Run(t)
  BY <1>1, <1>6, GnssRun DEF GnssInv
<1>7. CASE UNCHANGED vars
  <2>1. UNCHANGED <<rpc, started, starts, nmeaMsgThread, state, messages, owner,
                    mainQueue, registered, unbound, forgotten>>
    BY <1>7 DEF vars
  <2>2. \A t \in Thread : (Unborn(t)' <=> Unborn(t)) /\ (Reached(t)' <=> Reached(t))
    BY <2>1 DEF Unborn, Reached
  <2>3. Threads'
    BY <2>1, <2>2 DEF GnssInv, Threads
  <2> QED BY <1>1, <2>1, <2>3 DEF GnssInv, Calls, Listener, Stopped
<1> QED BY <1>2, <1>3, <1>4, <1>5, <1>6, <1>7 DEF Next, RpcThread

LEMMA GnssAlways == Spec => []GnssInv
BY GnssInit, GnssNext, PTL DEF Spec

\* Whenever all is quiet after a start(), whatever calls came before it, the
\* path leads to the thread that is given the sentences, unless a thread was
\* given up without a kill message or a bind failed (NMEAMessageThread.run,
\* Publisher::Publisher).
THEOREM StartedIsReachable == Spec => []StreamReachable
<1>1. GnssInv => StreamReachable
  <2> SUFFICES ASSUME GnssInv, Quiet, started
               PROVE  /\ nmeaMsgThread # NoThread
                      /\ state[nmeaMsgThread] = "looping"
                      /\ Reached(nmeaMsgThread)
    BY DEF StreamReachable, Reached
  <2>1. nmeaMsgThread # NoThread /\ nmeaMsgThread \in Thread
    BY DEF GnssInv, Calls, TypeOK
  <2>2. state[nmeaMsgThread] = "looping"
    BY <2>1 DEF GnssInv, Threads, Quiet
  <2> QED BY <2>1, <2>2 DEF GnssInv, Threads
<1> QED BY <1>1, GnssAlways, PTL

\* Whenever all is quiet after a stop(), the listener is not registered and no
\* thread is in its looper but one that was given up (DeviceGnss.stop,
\* DeviceGnssManager.stop).
THEOREM StoppedIsGone == Spec => []StoppedLeavesNothing
<1>1. GnssInv => StoppedLeavesNothing
  <2> SUFFICES ASSUME GnssInv, Quiet, ~started
               PROVE  /\ ~registered
                      /\ \A t \in Thread : state[t] \in {"none", "closed"} \/ t \in forgotten
    BY DEF StoppedLeavesNothing
  <2>1. ~registered
    BY DEF GnssInv, Listener, Stopped, Quiet
  <2>2. ASSUME NEW t \in Thread, t \notin forgotten PROVE state[t] \in {"none", "closed"}
    <3>1. t # nmeaMsgThread
      BY DEF GnssInv, Calls, Thread, NoThread
    <3> QED BY <2>2, <3>1 DEF GnssInv, Threads, Quiet, HasKill
  <2> QED BY <2>1, <2>2
<1> QED BY <1>1, GnssAlways, PTL
=============================================================================
