----------------------------- MODULE AnxService -----------------------------
(***************************************************************************)
(* The life of the device RPC server: EndlessService.kt, the init() and    *)
(* destroy() of DeviceRpcHandler.kt and RestartAnxServiceRpc.kt.  The main *)
(* thread starts and stops the server; a RestartAnxService call makes a    *)
(* thread that stops it 3 seconds later and has the process started again. *)
(* Nothing is locked: destroy() reads rpcThread twice and then clears it.  *)
(* What an RpcThread does meanwhile is the business of DeviceRpcServer,    *)
(* and AnxApp puts the IMU's stream beside it and states the fairness.     *)
(***************************************************************************)
EXTENDS Naturals

CONSTANTS
  Headless,     \* the build is the one RestartAnxServiceRpc.kt names
  MaxThreads,   \* bound: the RpcThreads ever made
  MaxRestarts   \* bound: the calls of RestartAnxService

ASSUME AnxServiceAssumption ==
  /\ Headless \in BOOLEAN
  /\ MaxRestarts \in Nat
  /\ MaxThreads \in Nat \ 0 .. MaxRestarts

Main == 0
Restarter == 1 .. MaxRestarts
Worker == {Main} \cup Restarter
Thread == 1 .. MaxThreads
None == 0

VARIABLES
  isRunning,        \* of EndlessService
  restartProcedure, \* whether it is set
  rpcThread,        \* the thread destroy() stops
  made,             \* the number of threads made
  state,            \* of each thread
  interrupt,        \* its flag
  pc,               \* where each worker is
  joining           \* the thread it waits for

service == <<isRunning, restartProcedure>>
threads == <<made, state, interrupt>>
vars == <<service, rpcThread, threads, pc, joining>>

\* The places in a worker's code; a restarter is "none" before its call.
Starting == {"assign", "start", "procedure"}
Stopping == {"destroy", "join", "joining", "clear"}

TypeOK ==
  /\ isRunning \in BOOLEAN
  /\ restartProcedure \in BOOLEAN
  /\ rpcThread \in Thread \cup {None}
  /\ made \in 0 .. MaxThreads
  /\ state \in [Thread -> {"none", "new", "serving", "ended", "dead"}]
  /\ interrupt \in [Thread -> BOOLEAN]
  /\ pc[Main] \in {"create", "idle"} \cup Starting \cup Stopping
  /\ pc \in [Worker -> {pc[Main]} \cup {"none", "sleeping", "am", "done"} \cup Stopping]
  /\ joining \in [Worker -> Thread \cup {None}]
  /\ \A w \in Worker : pc[w] = "joining" => joining[w] # None

Init ==
  /\ isRunning = FALSE
  /\ restartProcedure = FALSE
  /\ rpcThread = None
  /\ made = 0
  /\ state = [t \in Thread |-> "none"]
  /\ interrupt = [t \in Thread |-> FALSE]
  /\ pc = [w \in Worker |-> IF w = Main THEN "create" ELSE "none"]
  /\ joining = [w \in Worker |-> None]

Goes(w, from, to) == pc[w] = from /\ pc' = [pc EXCEPT ![w] = to]

-----------------------------------------------------------------------------
(* The main thread.                                                        *)

\* Android makes the activity again, as it does when the screen is turned.
Recreate ==
  /\ Goes(Main, "idle", "create")
  /\ UNCHANGED <<service, rpcThread, threads, joining>>

\* Mutant: each onCreate() starts the service.
StartServiceUnchecked ==
  /\ made < MaxThreads
  /\ Goes(Main, "create", "assign")
  /\ isRunning' = TRUE
  /\ UNCHANGED <<restartProcedure, rpcThread, threads, joining>>

\* onCreate() sends ACTION_START_SERVICE, which does nothing while isRunning.
StartService ==
  /\ \/ isRunning /\ Goes(Main, "create", "idle")
     \/ ~isRunning /\ made < MaxThreads /\ Goes(Main, "create", "assign")
  /\ isRunning' = TRUE
  /\ UNCHANGED <<restartProcedure, rpcThread, threads, joining>>

\* this.rpcThread = RpcThread()
AssignThread ==
  /\ Goes(Main, "assign", "start")
  /\ made' = made + 1
  /\ rpcThread' = made + 1
  /\ state' = [state EXCEPT ![made + 1] = "new"]
  /\ UNCHANGED <<service, interrupt, joining>>

\* this.rpcThread?.start(), which may find null.
StartThread ==
  /\ Goes(Main, "start", "procedure")
  /\ state' = IF rpcThread = None THEN state
              ELSE [state EXCEPT ![rpcThread] = "serving"]
  /\ UNCHANGED <<service, rpcThread, made, interrupt, joining>>

DoRestartProcedure ==
  /\ Goes(Main, "procedure", "idle")
  /\ restartProcedure' = TRUE
  /\ UNCHANGED <<isRunning, rpcThread, threads, joining>>

\* Mutant: isRunning is kept.
StopServiceKeeping ==
  /\ Goes(Main, "idle", "destroy")
  /\ MaxThreads - made > MaxRestarts
  /\ UNCHANGED <<service, rpcThread, threads, joining>>

\* ACTION_STOP_SERVICE: stopAnxService() up to destroy().  The bound keeps a
\* thread for each restart.
StopService ==
  /\ Goes(Main, "idle", "destroy")
  /\ MaxThreads - made > MaxRestarts
  /\ isRunning' = FALSE
  /\ UNCHANGED <<restartProcedure, rpcThread, threads, joining>>

\* containerStop() shows a dialog and, before it is answered, calls destroy().
ContainerStop ==
  /\ Goes(Main, "idle", "destroy")
  /\ UNCHANGED <<service, rpcThread, threads, joining>>

-----------------------------------------------------------------------------
(* destroy(), on the main thread or on a restarter.                        *)

\* Mutant: the thread is not told.
SetInterruptMissing(w) ==
  /\ Goes(w, "destroy", "join")
  /\ UNCHANGED <<service, rpcThread, threads, joining>>

\* rpcThread?.interrupt?.set(true)
SetInterrupt(w) ==
  /\ Goes(w, "destroy", "join")
  /\ interrupt' = [t \in Thread |-> interrupt[t] \/ t = rpcThread]
  /\ UNCHANGED <<service, rpcThread, made, state, joining>>

\* Mutant: rpcThread!!.join()
CallJoinOfNull(w) ==
  /\ Goes(w, "join", "joining")
  /\ joining' = [joining EXCEPT ![w] = rpcThread]
  /\ UNCHANGED <<service, rpcThread, threads>>

\* rpcThread?.join(), with the rpcThread there is by now.
CallJoin(w) ==
  /\ Goes(w, "join", IF rpcThread = None THEN "clear" ELSE "joining")
  /\ joining' = [joining EXCEPT ![w] = rpcThread]
  /\ UNCHANGED <<service, rpcThread, threads>>

\* Mutant: join() is given up at once.
JoinedAtOnce(w) ==
  /\ Goes(w, "joining", "clear")
  /\ joining' = [joining EXCEPT ![w] = None]
  /\ UNCHANGED <<service, rpcThread, threads>>

\* join() returns at once from a thread that has not been started.
Joined(w) ==
  /\ Goes(w, "joining", "clear")
  /\ state[joining[w]] # "serving"
  /\ joining' = [joining EXCEPT ![w] = None]
  /\ UNCHANGED <<service, rpcThread, threads>>

\* rpcThread = null
ClearThread(w) ==
  /\ Goes(w, "clear", IF w = Main THEN "idle" ELSE "am")
  /\ rpcThread' = None
  /\ UNCHANGED <<service, threads, joining>>

Destroy(w) == SetInterrupt(w) \/ CallJoin(w) \/ Joined(w) \/ ClearThread(w)

-----------------------------------------------------------------------------
(* A restarter: the thread of doRestart().                                 *)

\* The sleep ends; stopAnxService() up to destroy().
Restart(r) ==
  /\ Goes(r, "sleeping", IF restartProcedure THEN "destroy" ELSE "am")
  /\ isRunning' = (isRunning /\ ~restartProcedure)
  /\ UNCHANGED <<restartProcedure, rpcThread, threads, joining>>

\* am start -S: the process with all its threads is killed and a new one
\* creates the activity.  The command names the package of the headless
\* build; in another build it fails, and the failure is not looked at.
AmStart(r) ==
  /\ pc[r] = "am"
  /\ IF Headless
     THEN /\ pc' = [w \in Worker |-> IF w = Main THEN "create"
                                  ELSE IF pc[w] = "none" THEN "none" ELSE "done"]
          /\ isRunning' = FALSE
          /\ restartProcedure' = FALSE
          /\ rpcThread' = None
          /\ state' = [t \in Thread |-> IF state[t] = "none" THEN "none" ELSE "ended"]
          /\ joining' = [w \in Worker |-> None]
     ELSE /\ pc' = [pc EXCEPT ![r] = "done"]
          /\ UNCHANGED <<service, rpcThread, state, joining>>
  /\ UNCHANGED <<made, interrupt>>

-----------------------------------------------------------------------------
(* A thread of RpcThread.                                                  *)

\* RestartAnxService is called: doRestart() makes a restarter.
CallRestart(t) ==
  /\ state[t] = "serving"
  /\ \E r \in Restarter :
       /\ \A q \in Restarter : pc[q] = "none" <=> q >= r
       /\ Goes(r, "none", "sleeping")
  /\ UNCHANGED <<service, rpcThread, threads, joining>>

\* The loop sees the flag.
Ends(t) ==
  /\ state[t] = "serving"
  /\ interrupt[t]
  /\ state' = [state EXCEPT ![t] = "ended"]
  /\ UNCHANGED <<service, rpcThread, made, interrupt, pc, joining>>

\* An exception ends the loop; nobody is told.
Dies(t) ==
  /\ state[t] = "serving"
  /\ state' = [state EXCEPT ![t] = "dead"]
  /\ UNCHANGED <<service, rpcThread, made, interrupt, pc, joining>>

-----------------------------------------------------------------------------
Next ==
  \/ Recreate \/ StartService \/ AssignThread \/ StartThread
  \/ DoRestartProcedure \/ StopService \/ ContainerStop
  \/ \E w \in Worker : Destroy(w)
  \/ \E r \in Restarter : Restart(r) \/ AmStart(r)
  \/ \E t \in Thread : CallRestart(t) \/ Ends(t) \/ Dies(t)

Spec == Init /\ [][Next]_vars

\* The service is not started while a restarter stops it, nor the other way
\* round.
Restarting == \E r \in Restarter : pc[r] \in Stopping \cup {"am"}
Undisturbed ==
  /\ StartService => ~Restarting
  /\ (\E r \in Restarter : Restart(r)) => pc[Main] \in {"idle"} \cup Stopping

UndisturbedSpec == Init /\ [][Next /\ Undisturbed]_vars

-----------------------------------------------------------------------------
\* No server escapes: one that has not been told to end is the one that
\* destroy() would stop, so that two never serve at once.
NoServerEscapes ==
  \A t \in Thread :
    state[t] = "serving" /\ ~interrupt[t] => t = rpcThread

\* When nobody is starting or stopping it, the service that takes itself for
\* running has a server that was started and not told to end, and the one
\* that does not has none.
RunningHasServer ==
  (\A w \in Worker : pc[w] \notin Starting \cup Stopping) =>
    /\ isRunning <=> rpcThread # None
    /\ isRunning => state[rpcThread] \in {"serving", "dead"} /\ ~interrupt[rpcThread]
=============================================================================
