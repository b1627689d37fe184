# Verification of anx

anx is an Android app that lets robot programs use the hardware of the phone.
The programs run in a Linux container on the phone (a fork of Linux Deploy)
and talk to the app over ZeroMQ ipc sockets: requests to a device RPC server
and to a model server, and streams of sensor data that they subscribe to. This
directory holds TLA+ models of the parts of the app that run side by side or
that a test would hardly exercise, the TLC runs that check them, and theorems
that TLAPS proves.

Run `tlc -config X.cfg M` and `tlapm M_proofs.tla` in this directory;
`PROJECT.json` lists the runs, the mutants that show each property can fail,
the source lines behind every definition, the findings and the hazards.

Paths below are relative to `src/`; `CPP` is `common/src/main/cpp/src/`, `APP`
`app/src/main/java/com/flomobility/anx/`, `DEV`
`device/src/main/java/com/flomobility/anx/`, `ASSET`
`assets/src/main/java/com/flomobility/anx/`, `ENV` `app/src/main/assets/env/`.

## 1. The system

| component | state | operations | what it touches | modules |
|---|---|---|---|---|
| Model server, `CPP tflite_runner_rpc_server.cpp` | REP socket, vector of runners, `is_running_` | LoadModel, InvokeModel, UnloadModel, unknown RPC, destructor | one native thread; its clients; made anew by every thread of the device RPC server | `RepSocket`, `TfLiteRunnerRpcServer`, `ModelServer` |
| Device RPC server, `DEV comms/DeviceRpcHandler.kt`, `CPP ipc_transport.cpp` | REP socket, registry, `interrupt` flag | two `listen()`, `execute()`, `send()`, close | one Java thread; makes the model servers, then calls the assets | `RepSocket`, `DeviceRpcServer`, `DeviceServer` |
| Service lifecycle, `APP daemon/EndlessService.kt`, `DEV rpc/RestartAnxServiceRpc.kt`, `APP activity/MainActivity.java` | `isRunning`, `rpcThread`, `restartProcedure` | start, stop, restart after 3 s, the stop button | starts and joins the device RPC thread, from the main thread and from restarter threads; makes a looper for the IMU | `AnxService`, `AnxApp` |
| GNSS stream, `ASSET assets/gnss`, `DeviceGnssManager.kt` | current thread, its handler, its socket, the registered listener | start, stop, NMEA callback, provider switched | RPC thread, main thread's coroutines, one looper per start | `GnssAsset` |
| IMU stream, `ASSET .../DeviceImu.kt`, `CPP sensord.cpp`, `imu.cpp` | looper, its handler, the global native object, its thread and flag | init, start, stop, sensor events | RPC thread, one looper per service start, which the sensors' events come to as well, the publisher thread | `ImuAsset`, `AnxApp` |
| Rate, `CPP rate.cpp` | `start_`, the cycle | `sleep()` | paces the IMU publisher | `Rate` |
| Container CLI, `ENV cli.sh`, `APP ExecService.java` | `/proc/mounts`, the processes in the container | start -m, stop -u, start and stop of core/net | one shell per command, no lock; buttons and broadcast receivers | `ContainerCli` |
| Component dependencies, `ENV cli.sh` | the call stack, IGNORE_DEPENDS | component_depends, component_exec | used by every CLI command | `ComponentDepends` |
| Environment installer, `APP EnvUtils.java` | the unpacked files, the version file | updateEnv, removeEnv | the thread of the AsyncTasks; jobs for telnetd and httpd | `UpdateEnv` |
| Protocol log, `APP Logger.java` | a bounded list of lines, the last of them partial | appendMessage, clear, show | a thread per CLI command and the main thread | `ProtocolLog` |
| Settings, `APP ParamUtils.java`, `PropertiesStore.java` | .conf files | dump, restore | | no (section 8) |
| Other device RPCs, UI, receivers, vendored libraries | | | | no (section 8) |

How they interact: a button, the boot or a receiver makes `ExecService` run a
CLI command; the activity starts `EndlessService`, which makes the device RPC
thread; that thread first makes the two model servers, which run in native
threads of their own, and then calls the assets' `start()` and `stop()`, which
post to their own loopers and coroutines; `RestartAnxService` makes a thread
that stops the server it is called by. A stop of the service leaves the model
servers running. The next thread of the device server replaces them
(`DeviceRpcHandler.kt:95-98`): the destructors of the old ones join their
threads, their models are lost, and clients have to load them again. A start of
the app first updates the environment the CLI is part of, unless its version
file is the app's. Each asset's data goes out on a PUB socket bound to a fixed
ipc path. Because libzmq does not unlink the path
on close, the socket bound last is the one new subscribers reach.

What is hard here, and why tests do not reach it (the repository has none that
do): the state machine of a REP socket under requests of an unexpected number
of parts; handlers and flags read by one thread before another has set them; a
stop that has to undo a start that has not happened yet; `std::thread` objects
that must be joined exactly once; a restart racing a start; unsigned time; a
mount table shared by unsynchronised shell scripts; an update that is killed
anywhere; text that arrives in pieces cut anywhere. `PROJECT.json` lists the
hazards, each at its line, those too that no property covers because the code
is exposed to them.

What makes each part correct:

- servers: a call takes effect at most once, its answer is its own and true,
  a misbehaving client cannot wedge the server for the others without a named
  misuse, and the destructor's `join()` returns;
- lifecycle: one server at a time, `isRunning` tells the truth, a promised
  restart happens, no start disturbs the model servers another one is making;
- streams: once all is quiet the stream is what the last call asked for, on
  the path subscribers know, and the process lives;
- rate: never early, never a sleep longer than a cycle;
- CLI: no mount hides another, none is made without the root, `stop -u` leaves
  nothing mounted, each needed component is executed once and after what it
  needs;
- installer: an environment that is taken for the app's is the app's in every
  part, and the services end up as last asked for;
- log: the newest lines, each once and whole, however the text was cut.

## 2. The modules

**RepSocket** is the environment both servers share: REQ clients that issue,
collect and give up, and a REP socket whose parts are read one at a time.
`sendingReply` is libzmq's flag of that name: from the last part read until the
reply is sent, nothing can be received. It is external (libzmq is a vendored
binary) and modelled from the calls the servers make. A client that gives up
closes its socket: its request may be lost or still arrive, its answer goes
nowhere.

**TfLiteRunnerRpcServer**: one action per RPC and outcome of `Loop()`. A part
has two readings, as text and as payload, because the code will take either
for the other. `PayloadMissing` is the `zmq::error_t` of `recv()` on a request
of one part. A file that is no model leaves a null interpreter; the code's use
of it, and of `tflite_runners_[0]` when the vector is empty, is undefined
behaviour and is a choice between "crashed" and what the build may do.

**ModelServer** is the abstract specification: one current model, each call
taking effect at one instant between its issue and its answer. A request of
more than two parts is a call for each pair, in order, and at most one of them
is answered. `MS` in `TfLiteRunnerRpcServer` maps `runners` to `Current` and
what is left of the request in service to the calls that have not taken
effect; `OneCurrentModel` is the refinement.

**DeviceRpcServer**: the thread from `init()` of its socket on; the model servers
it makes before are in `AnxApp`. It reads two parts with two `listen()` calls
(`Listen`, then `ListenUnknown` or `Execute`), executes, and sends. The poll
timeout of the first `listen()` changes nothing, so it is a stuttering step;
its only effect, that the flag is looked at again, is `Close`. An exception in
`execute()` (`well = FALSE`) ends the thread and leaves the socket bound.
**DeviceServer** says the same for a program that calls: each RPC of a request
takes effect once, at one instant, in order and on its own payload; the answer
is that of the last and reaches the call it is for. `RpcsInOrder` is its
specification, with `Pending` for its calls.

**AnxService**: the main thread and the restarters are workers with a program
counter that passes through `init()` and `destroy()` read by read, because
`rpcThread` is a plain field that both use. What the RPC thread does inside is
the business of `DeviceRpcServer`: here it serves, sees its flag, calls
RestartAnxService, or dies. `am start -S` kills the process. `CallJoin` and
`Joined` are the two ends of a `join()`.

**AnxApp** composes `AnxService` with an instance of `ImuAsset` and with the
making of the model servers: each thread of the server runs `InitAll` and
`StartAll` before its loop, and if it found model servers that another thread
has made and not started, or started ones where it has just made its own, they
are "broken" (a `std::thread` would be replaced while it runs). A start of the
service makes the IMU's next looper (`InitAssets`), only a thread in its loop
makes calls (`Call`), it sees its flag only between calls (`Serve`), a stop of
the service leaves the stream and the model servers alone and a restart takes
them down with the process (`RestartApp`). Its behaviours are behaviours of
`AnxService`, which is a theorem (section 4).

**GnssAsset**: `start()` launches the coroutine that registers the listener
and makes a thread that binds the path and then prepares its looper; `stop()`
unregisters through another coroutine and posts a kill message. `messages`
holds each looper's queue, `owner` the thread whose socket has the path. A bind
may fail: the constructor of `Publisher` catches it (`ipc_transport.cpp:32`),
the thread goes on and is `unbound`. Calls come in any order. A start over a
running stream, or a stop before the looper is ready, gives a thread up without
its kill message: `forgotten` remembers these.

**ImuAsset**: the RPC thread posts "create", "start" and "stop" to the looper
of the last `init()`; the looper calls into `sensord.cpp`'s one global
`device_imu_`. `InitNativeImu` destroys the object there was, and destroying
or assigning to a joinable `std::thread`, or joining one that is not, ends the
process (`crashed`). `registerSensor()` gives the looper an object is made on
(`home`) an event queue with a raw pointer to it, which is never taken away.
`callback` is the object a looper has an event for, or is in the callback of,
and a looper looks at its events before it takes a message. If the object is
gone by then, `OnSensorChanged` may go well or end the process.

**Rate**: `sleep()` with unsigned words of `2 * HalfWord` values. The check
`sleep_duration <= 0` on an unsigned number is modelled as what it is.

**ContainerCli**: `jobs` are the shells of `ExecService`; `mounts` is the part
of `/proc/mounts` below CHROOT_DIR. `is_mounted` looks for a path in the text
of that file while `umount` resolves the path, so the model keeps stacked and
hidden mounts apart (`Times`, `Reached`). A check and the mount it guards are
two steps. The three rounds of `umount`, what keeps a mount busy, e2fsck, the
kill of what lsof finds and the snapshot of the parts to unmount are all
there. Three history variables say what was in the way: `failed` has the parts
whose mount has failed since nothing was last mounted, `hindered` the jobs that
found a mount hidden when they listed what to unmount, or had a process come in
or a part mounted behind their list, and `overlapped` is whether commands that
mount or unmount have run side by side since nothing was mounted and none of
them ran.

**ComponentDepends**: the recursive shell function as a stack of calls, with
the variable all calls share (IGNORE_DEPENDS) and those each call has of its
own, including the DEPENDS that one component of a loop leaves to the next.
The reference definition (`Needed`, `Closed`) says what DEPENDS means without
any order.

**UpdateEnv**: `pc` is where the first AsyncTask is in `updateEnv()` or
`removeEnv()`; `files` says of each of the five things it unpacks or installs
whether it is missing, of a version of the app, or in pieces. The version file
is written last. `jobs` are the commands for telnetd and httpd, a thread each
that nothing orders, which work only if the programs they need are there. The
two services share no state, so the module has one of them (`daemon`), with its
switch in the settings (`enabled`). Any step can be the last of the process
(`Kill`), and a newer app can be installed at any time (`Upgrade`). A removal
may leave anything behind and reports success (`Cleaned`). `asked` remembers
the commands since no job was left, `unnoticed` that a task has failed behind a
version file that is the app's or will be.

**ProtocolLog**: `appendMessage()` step by step, with the size it read at its
start (`protocolSize`), the last line it takes out again to go on with it
(`Join`), the lines it adds and the oldest it removes (`Add`, `Trim`). It holds
a lock; `clear()` and `show()` do not take it, so `Clear` and `Resume` happen
between any two steps. What an unlocked ArrayList does then is a choice between
the outcomes: nothing, nulls in the list, or an exception that ends the process.

`MC*` modules give the constants that a .cfg cannot write.

## 3. The runs

| run | what it asks | states | result |
|---|---|---|---|
| `tflite_any_parts` | two clients, two models, requests of two, three and six parts, good and bad | 373 k | holds: refinement of `ModelServer`; stuck only after a named misuse; calls are answered unless the socket is stuck or the process gone; `join()` returns |
| `tflite_documented` | a careful client that follows `api_docs/anx/README.md` | | violated: the documented one-part `UnloadModel` is never answered and wedges the server |
| `device_many` | two clients, requests of 1, 2 and 5 parts, good, refused and fatal | 230 k | holds: refinement of `DeviceServer`, so each pair of parts is executed at most once; stuck only after an odd request; true answers; calls are answered and `join()` returns |
| `gnss_any_calls` | three starts and any stops in any order, failing binds, the provider switched at any time | 292 k | holds, but for threads that were given up without a kill message and sockets that could not be bound |
| `imu_repeated` | two calls in any order, one sensor event | | violated: a `StopDeviceImu` without a running stream ends the process |
| `rate_sleep` | rates with and without a rest, zero and beyond 16 bits, stalls, one clock change | 306 k | holds |
| `app` | starts, stops and two restarts of the service with four calls for the IMU's stream by its threads, one sensor event, and the model servers made by each | 149 k | holds: server, model servers and stream, with liveness |
| `lifecycle_other_build` | the same in a build that is not headless | | violated: the restart only stops the server |
| `container_cli` | four commands in any order, two at a time, one failed mount of any point | 491 k | holds: every command ends, a `stop -u` that nothing hindered leaves nothing mounted; until commands overlap a mount is hidden only below a part whose mount failed, and nothing is mounted without the root |
| `component_any_graph` | every graph of four components with at most two names per DEPENDS, cycles included, one missing, one excluded | 2 M | holds |
| `update_env` | three tasks or commands, jobs in any order, failures, a kill and an upgrade | 2.2 M | holds, but for failures that leave no trace |
| `protocol_log` | seven characters in pieces of up to three, cleared and shown at any step | 839 k | holds |

Every property of a passing run has a mutant: a definition replaced by a
plausible mistake, under which TLC finds the property violated.

### Bounds

- Clients: two are enough for one to disturb the other, and the server keeps
  no state per client. Two requests each give a late request next to a new one.
- Parts: the servers read parts one or two at a time, so one to six parts
  reach every state of the loop: too few, exact, one left over, several rounds
  left over. The theorems have no bound on them.
- GNSS: a new start forgets the thread of the one before; three generations
  show one forgotten, one being forgotten and one current. Three coroutines may
  wait on the main thread (`MaxTasks`): one more than what two calls leave
  behind. A sentence in a queue is enough to be before or behind a kill.
- Rate: words of 256 values and rates of 8 wrap as the 64- and 16-bit ones do, and
  the assumption keeps all times below half the word, as 64-bit milliseconds
  are. The underflow is the same.
- Lifecycle: two restarters are what it takes for two to stop one server;
  four threads leave one for the first start, one for a start after a stop and
  one for each restart. Two starts of the service in one process (`MaxInits`)
  give a call made on the looper after the one that holds the stream; four
  calls are two streams. A stop of the service is taken only while a start is
  left for it. One sensor event (`MaxEvents`): it stays with its looper until
  that handles it, so a single one can be early, late, or after the end of its
  object. `lifecycle_other_build` needs none. The theorems have no bound.
- CLI: two jobs, because the properties concern pairs of steps. Four mount
  points stand for seven: one alone, one with a part below it. Four commands are
  a start whose mount fails, a second start, a stop and one beside them. The
  theorems have no bound.
- Installer: two versions of the app are enough for one to find what the other
  left; three tasks give an update cut short, one that repeats it and a
  removal; one kill and any number of failures. The theorem has no bound.
- Log: three lines of room, and text for up to seven lines, so that the list
  overflows in the middle of a piece. Two characters tell lines apart.
- Graphs: four components hold a diamond, a cycle of three and a component
  outside it; two names per line give an order between siblings.

Every configuration sets `CHECK_DEADLOCK FALSE`, because the bounds on calls,
threads, commands and time stop the model, and because clients may simply be
done; the liveness properties say what may not stop.

### Fairness

- Servers: weak fairness of the server thread. It never blocks: `poll()` times
  out (100 ms in both servers), `recv()` finds a part or fails at once. No
  fairness of clients is assumed.
- Assets: weak fairness of each looper, of each coroutine of the main thread,
  and of the second half of a call that has begun. Calls themselves need not
  come. The IMU publisher's loop reads its flag in every cycle.
- App (`AppFairness`): each thread takes its next step. A sleeping restarter
  wakes. The main thread finishes what it has begun, a thread of the server
  makes its model servers and sees its flag once its call is done, and IMU
  loopers (with the events they have) and publishers run as above. No call,
  stop, restart or event need come. All of it is conditioned on `~crashed`: a
  late callback may end the process, and `RestartsHappen` and `StopsAreDone`
  say nothing of what comes then.
- CLI: each shell goes on, and e2fsck ends. A trigger inside the container is
  the user's program and need not end; `CommandsEnd` holds all the same,
  however many commands run side by side, because `umount` is given up after
  three tries.

### What the passing runs assume or excuse, and what happens without it

Only the run of `AnxApp` constrains who does what when (`OrderlyCalls`,
`Undisturbed`); the general steps are in the same modules, and TLC shows with
them what the constraint hides. The other runs take any order, and their
properties name what they excuse:

- **GNSS**: a start over a running stream and a stop before the thread is in its
  looper (`nmeaMsgThread?.kill()` on a null handler, while the log says "Gnss
  thread stopped") give a thread up without its kill message. It stays in its
  looper for ever and may take the path over; `StreamReachable`,
  `StoppedLeavesNothing` and `OldThreadsClose` excuse these threads
  (`forgotten`) and no others. A bind that failed is logged and not reported;
  `StreamReachable` excuses it.
- **App**, `OrderlyCalls`: the IMU's calls take turns and find the looper
  ready, and the service is started again when the loopers are at rest. Without
  turns the process dies (`imu_repeated`). A start before the handler exists is
  dropped and answered with success (`StreamFollowsCalls`). A start of the
  service while the old looper is at work has two loopers use one object.
- **App**, a callback that is late: the event queue of an `Imu` keeps a pointer
  to it on the looper it was made on. After a new start of the service the
  object is replaced on the new looper, and the old one may be in its callback,
  or still come to it. TLC reaches `crashed` that way, with clients that take
  turns; `ProcessSurvives` says that it is the only way.
- **Model server**: `StuckOnlyByMisuse` names the requests that wedge it. An
  InvokeModel whose number of tensors is not that of the current model, as when
  another client loads a model in between, is not answered and leaves the
  socket stuck for all. It is among them because the code means it as an error
  of the client.
- **App**, `Undisturbed`: a start of the service and a restart do not overlap,
  and the stop button of the activity is not used (`AnxApp` leaves
  `ContainerStop` out, `AnxService` and its proofs have it):
  `MainActivity.containerStop()` calls `destroy()` before its dialog is
  answered, and behind the back of `EndlessService`, so that `isRunning` stays
  true without a server (`RunningHasServer`). A start between destroy()'s two
  reads of `rpcThread` makes the restarter join a thread nobody has told to end
  (`RestartsHappen`).
- **CLI**: nothing in the app keeps commands apart. When two that mount or
  unmount overlap, two starts can mount the root twice or one over the other's
  parts, e2fsck can run on an image that is being mounted, and a start that
  found the root mounted goes on to mount /proc in the bare directory after a
  stop has unmounted the root. `NothingHidden` and `PartsNeedRoot` excuse what
  comes of it (`overlapped`) until nothing is mounted again; `StopUnmounts` and
  `CommandsEnd` hold through it, the first but for the stop a start or a process
  got in the way of (`hindered`). One failure hides a mount without any overlap:
  without /dev, /dev/pts is mounted in the image, the next start mounts /dev
  over it, `is_mounted` still sees it, and neither the container nor `umount`
  can reach it (`failed`).
- **UpdateEnv**: an environment that is up to date may be updated again or
  removed. The version file is not taken away first, so a second update, or a
  removal, that is cut short leaves pieces of an environment that the next
  start takes for the app's. The result of the shell that installs busybox is
  not looked at: if it fails (`InstallFails`) the version is written all the
  same, and the services never start. Neither leaves a trace on the disk;
  `LatestIsComplete` excuses them (`unnoticed`) until the next update begins.
  The jobs run on threads that nothing orders: when a stop and a start are
  given before either has run, as an update does, the service may end up either
  way. `ServiceAsAsked` says that no other command can be to blame.
- **ProtocolLog**: with room for one line (`MaxLines` 1, which the settings
  allow) the line that is gone on with is lost. A `clear()` or `show()` beside
  an append can end the process with an exception; no property excludes it,
  and `KeepsNewest` speaks of what is in the log when it has not.
- **Rate**: the reset of `start_` that the code means for an overrun
  (`rate.cpp:31-33`) cannot be reached, so a late publisher catches up in a
  burst where the Kotlin twin (`Rate.kt:35-39`, unused) would not.
  `NeverEarly` bounds the burst by what was missed.

## 4. The proofs

| theorem | module | for every |
|---|---|---|
| `TypeCorrect` | `TfLiteRunnerRpcServer_proofs` | clients, models, request shapes |
| `StuckOnlyAfterMisuse` | `TfLiteRunnerRpcServer_proofs` | the same, of any number of parts |
| `TypeCorrect` | `DeviceRpcServer_proofs` | clients, RPCs, request shapes |
| `StuckOnlyAfterOddRequest` | `DeviceRpcServer_proofs` | the same, of any number of parts |
| `AnswersAlwaysTrue` | `DeviceRpcServer_proofs` | the same, with clients that give up |
| `NeverExecutedTwice` | `DeviceRpcServer_proofs` | the same; not checked by a run of its own, as `RpcsInOrder` says more |
| `ImplementsDeviceServer` | `DeviceRpcServer_proofs` | the same: every behaviour is one of `DeviceServer` |
| `ImplementsModelServer` | `TfLiteRunnerRpcServer_proofs` | clients, models, requests of any number of parts: every behaviour is one of `ModelServer` |
| `NoServerEver` | `AnxApp_proofs` | number of threads and restarts, build, with the stop button; `Undisturbed` |
| `AppImplementsService` | `AnxApp_proofs` | the same, and number of calls and starts: every behaviour of `AnxApp` is one of `AnxService` |
| `NoServerEscapesTheApp` | `AnxApp_proofs` | the same |
| `AppTypes`, `RunsWithServer`, `ModelServersOutlive` | `AnxApp_proofs` | the same |
| `NothingCrashes`, `StreamAsAsked` | `AnxApp_proofs` | the same; `OrderlyCalls` |
| `GnssTypes` | `GnssAsset_proofs` | starts, stops, failing binds and provider changes in any order |
| `StartedIsReachable`, `StoppedIsGone` | `GnssAsset_proofs` | the same |
| `RateTypes`, `NeverSleepsLonger`, `NeverReturnsEarly` | `LogAndRate_proofs` | width of words and rates, stalls, clock changes |
| `LogTypes`, `TheNewestAreKept` | `LogAndRate_proofs` | text, way to cut it, room for two lines or more, clears and screens at any step |
| `TypeCorrect` | `ContainerCli_proofs` | jobs, commands, mount points, failing mounts, whichever commands overlap |
| `NothingWithoutRoot`, `NoMountHidden` | `ContainerCli_proofs` | the same |
| `StopLeavesNothing` | `ContainerCli_proofs` | the same: `StopUnmounts`, a property of the steps |
| `TypeCorrect` | `ComponentDepends_proofs` | components, DEPENDS lines and command: the recursion is no deeper than there are components |
| `NeverExecutedTwice` | `ComponentDepends_proofs` | the same |
| `DependenciesGoFirst`, `AllIsExecuted` | `ComponentDepends_proofs` | the same |
| `EnvTypes` | `UpdateEnv_proofs` | number of versions, tasks, commands and kills |
| `LatestAlwaysComplete`, `ServiceRunsAsAsked` | `UpdateEnv_proofs` | the same, whatever fails, with jobs in any order |

Both servers begin with lemmas about the socket: each operation keeps its type,
and `OnePartFewer` says what taking a part leaves.

The type invariant of a server is not inductive: reading the next part needs a
request to answer to. `SocketInv` adds that a request with unread parts owes no
reply, that whoever reads or answers has a peer, and that a handler always has
a request. `TypeInv` is the two together.

*Model server.* `StuckOnlyByMisuse` speaks about the request begun last, when
the thread is back at `poll()`. That needs to know, in the middle of a handler,
where in the request it is (`At`): `ServingInv` says that what is unread is the
request from there on, and that the handler is the one the part before names.
A reply is owed at `poll()` only when the last part was read there or in a
handler that does not answer, and these are the named misuses.

`ImplementsModelServer` maps every step of the server to a step of
`ModelServer` or to none. A call takes effect when its handler ends, so the
call in service is pending until then, and what is left of its request after
it (`Pending`). Two calls that are alike would be one in the set of pending
calls: `UniqueInv` says that no two requests in transit are the same. A handler
that refuses must have been right to (`RefusedInv`), and a crash must come from
a payload that is still unread (`CrashInv`), since only then is its call still
pending. Together with `StuckInv` they are `MapInv`.

*Device server.* The thread reads in pairs. `ParityInv` counts: at the first
`listen()` in the middle of a request an even number of its parts has been
read, at the second an odd one. A reply is owed at the first `listen()`
only when the last part was read there, after an even number before it:
`OddAlternates` is the arithmetic. `AnswersAreTrue` relates two histories, what
was executed and what was answered. It needs that every request around was
issued (`IssuedInv`), that one still in the inbox is neither executed nor
answered (`FreshInv`), and that the one in service is executed only after two
of its parts and answered only when there is nothing left of it
(`ServedInv`). `TruthInv` is the property without indices. On top of it, `PairInv`
counts the executions of the request in service against the parts read of it:
one is added only at an odd part, and with the next part the count is even again.

`ImplementsDeviceServer` maps the thread to `DeviceServer`, where a call is a
request and what is left of it. Reading changes nothing: a part that was read at
the first `listen()` still belongs to the rest (`Rest`), so the RPC takes effect
at `execute()`, on the name and the payload that came together. A call of which
nothing is left is pending until `send()`, which is when it is answered; that
`send()` then succeeds is `SendInv`. A call is dropped by the thread in two
cases only, a part that none follows and a payload that does not parse, and the
abstract specification allows no other. `ServedIsPending` uses `FreshInv`: the
call at work is told from those in the inbox.

*Lifecycle.* `EscapeInv`: a thread that nobody told to end and that is not
`rpcThread` would have to be overwritten or cleared while it serves. Whoever is
past the flag in `destroy()` has left none behind (`PastTheFlag`); a service
that is not running has none, unless someone is about to tell it (`NotRunning`);
and while the main thread starts one, nobody stops (`StartsAlone`, which is
where `Undisturbed` is needed). `AnxApp` inherits the theorem: each of its steps
is a step of the service or leaves its variables alone (`AppStep`).

`RunningHasServer` speaks of the moments at which nobody starts or stops.
`RunInv` says what is so in between: while somebody stops it the service does
not take itself for running, and when nobody does and it is not running there is
no thread (`Stopped`); while the main thread starts it, its thread is as far as
the start is (`Served`); and a `join()` has a thread to wait for (`Waiters`).

`ModelServersSurvive` holds because no two threads of the server are ever at
work at once, which is more than `NoServerEscapes` says: one that was told to
end may still be making its model servers. `WaitInv`: a thread that serves is
`rpcThread` until someone who has waited for its end clears the field. So a
thread that begins finds no other between `initAll()` and `startAll()`, and the
servers are made and not started exactly while there is one (`BuildInv`).

*IMU stream.* `StreamInv` is about the one list of messages the calls put in a
queue. Each of "create", "start" and "stop" is only right in one state of the
native object, and what is posted and not yet handled leads from the state
there is (`Expected`) to the one the next call finds (`Asked`): `InTurn`. So no
message finds the object in a state in which it would end the process, and
with nothing posted the object is what was asked last. That every other
looper's queue is empty when a new one is made is where `OrderlyCalls` is
needed. Events are another matter: `SensorInv` says that those of the newest
looper are for the object there is, because it is made there and only after
the looper has handled what it had, and that loopers not yet made have none. A
callback for an object that is gone is therefore on an older looper, and
nothing else ends the process (`Crashes`).

*GNSS stream.* `Calls` ties the current thread to the call at work. `Threads`
says of the current thread that no kill is on its way and that, once bound, it
has the path, unless a thread that was given up has it or a bind failed
(`Reached`); and of every other that it is unborn, closed, has a kill in its
queue or was given up. `Listener` says that after a stop the last coroutine
queued is one that unregisters.

*Rate.* The times never come to half a word (`Bounds`): that is where the
assumption on the bounds is needed, with three times `MaxTime` because a clock
may be set to twice and then go on. Then the only thing that wraps is the
duration, once (`WordOf`), and the sign it is given back makes it what it was
(`SleepDoes`). `Schedule`: while the clock is not set, `start_` is a multiple of
the cycle and never ahead of the clock.

*CLI.* What the mount table keeps is proved for as long as no two commands that
mount or unmount have overlapped: one at a time (`Alone`), beside those of the
network, which hold mounts. `MountsInOrder` says that a job that has come to the
nth point found or mounted every earlier one whose mount has not failed (`Firm`).
With it two facts about the table are kept: `Ordered`, each point is mounted
once and no mount of a firm point comes over one below it, and `Closed`, what is
firm and above a mounted point is mounted. A mount appends below what `Closed`
has there; a `umount` removes an entry that nothing is below, and `Ordered` says
that whatever is below was mounted later, where `Busy` looks. `TableInv` joins
this (`CliInv`) with what holds in any case. A command that overlaps another one
is noted (`NotOverlapped`), and one that is given when nothing is mounted and no
other one mounts finds the table in order again (`BeginAgain`).

`StopUnmounts` needs to know what a list of mounts that was made once is still
good for, many steps later, whichever commands run beside it (`Unmounting`).
Unless the job was hindered: no process is inside; no mount is over another one
(`Neat`); every part that is mounted is in what is left of the list (`Listed`), in
which nothing comes after what it is below (`BelowFirst`), and after the list
only the root is mounted (`OnlyRoot`). So when `umount` is tried on the first
point, nothing is mounted below it (`Free`), it cannot fail, and the point is gone
when the list goes on (`Unmounted`). What the list holds, `Listing`, is a
`FlattenSeq`, which is defined by recursion. `Induct` is induction on the
natural numbers for sets, which follows from the order on finite sets being
well-founded; with it `FlattenGathers` says that every element of every sequence
is in the result, and in order.

*Dependencies.* Each call of the recursion but the innermost waits for a
component, these differ from each other, they are marked and not written yet
(`Waiting`); what is written was marked and is written once (`Written`). Since a
marked component is never visited again, neither is broken by a cycle. That
those who wait differ also bounds the depth: they are an injection into the
components (`NotDeeper`).

`OrderInv` adds the order. A marked component waits, or all it depends on is
marked and it has been written, executed or excluded (`Marks`). The components
that wait are needed one for the other, and what a call has still to do and
what it has marked is all that is needed there (`Calls`). Hence a dependency
that is marked but not written when a component is written waits, and the two
need each other, which is the exception `DependenciesFirst` makes (`Order`).

*Installer.* `EnvInv` says which parts an update at a place has finished
(`DoneAt`), and that the version file never names a newer app. A task or a
process that ends leaves a version that is not the app's, or it is known to be
wrong (`EnvCut`, with `unnoticed`). `DaemonInv` follows the jobs in whatever
order they are done: those left are among the commands remembered, and with
none left the service runs only if one of these starts it, and does run, if none
stops it and its programs are there.

*Log.* `KeepsNewest` compares the list with the text through definitions over
sequences of any length (`Pieces`, `Split`, `NonBlank`), which are recursive
functions. The module proves what they compute by `InductSeq`: a set of
sequences that holds the empty one, and every sequence it holds with one more
element, holds them all (`Induct` again, in place of the induction rules the
provers cannot use). From it: the lines of two texts are those of the first, its
last one gone on with by the first of the second, and the others of the second
(`PiecesOfConcat`); `Split` leaves out empty lines at the end, and no others
(`SplitIsPieces`); blank lines can be left out before or after two sequences are
put together (`NonBlankConcat`).

`KeepsNewest` is not inductive. `Agrees` adds what the next append relies on:
the log knows the line that the text leaves open, if it has one, and has it
last. In the append (`Adding`) it is the log and the lines still to add that are
the end of the text, and the length of the log is known exactly: what was there
and what was added, less the line that was taken out to go on with (`g`). This
is why the list may be a line short of `MaxLines` and never two: the code counts
from the size it read before it took that line out. `Sizes` bounds the rest,
also when `clear()` came in between.

The assumptions are those of the modules (`...Assumption`), which TLC
evaluates on every run. That of `ContainerCli` says of the list of
`container_mount` that a point comes after those above it, as in `cli.sh`.

## 5. Only model-checked

All liveness (`CallsAnswered`, `JoinReturns`, `OldThreadsClose`,
`StopsAreDone`, `RestartsHappen`, `CommandsEnd`): the prover has no ENABLED,
hence no fairness. Every invariant, every property of the steps and every
refinement that a passing run checks is a theorem.

## 6. Findings

1. `tflite_documented`: the documented `UnloadModel` request has one part, the
   server reads two; the first such call wedges the server for everyone.
2. `imu_repeated`: `StopDeviceImu` without a running stream ends the process.
3. `lifecycle_other_build`: `RestartAnxService` names the headless package; in
   the other builds it stops the server, answers success, and nothing starts.

Also noted, without a run: a DSP model server is documented and never created
(`tflite_runner_jni.cpp:55`); ACTION_STOP_SERVICE and ACTION_STOP_AND_EXIT
have handlers but nothing in the repository sends them; `stop` executes the
components in the same order as `start`, so what others depend on is stopped
first; a missing parameter ends `start` but not `stop`, where `set -e` has no
effect.

## 7. The plan

Done, in this order: RepSocket and the model server with its refinement and
proofs; the device server with its proofs; the lifecycle; the IMU; the rate;
the GNSS stream; the CLI; the dependencies; requests of any number of parts for
the model server; the installer and the log; the composition of the lifecycle
with the IMU's stream; an abstract device server; the proofs of every
invariant, every property of the steps and every refinement that a passing run
checks.

Left, most important first:

1. *An abstract stream* (started, stopped) that GnssAsset and ImuAsset
   implement when callers take turns.
2. *DeviceServer* and `ModelServer` have much in common: one specification of a
   server that takes the RPCs of a request one by one, with the RPCs as a
   parameter, would hold for both.
3. *ContainerCli*: pid files (`get_pids`, `kill_pids`) with reused numbers and
   with the empty file that makes a component look started, the mounts of
   core/mnt, deploy -m, import, shell.
4. *Composition*: `AnxApp` with the device server's loop inside, so that
   `Ends` and `Dies` are its `Close` and its exceptions, and with the GNSS
   stream beside the IMU's.
5. *Settings*: the round trip between the preferences and the .conf files.

## 8. Not modelled, and why

- The other device RPCs (hotspot, Wi-Fi, reboot, shutdown): one call each of
  the Android system or of `su`; to the server they are RPCs that succeed or
  throw.
- Activities, fragments, preferences, notifications: views and storage of
  Android; the two buttons that act on the server are in `AnxService`, those
  that act on the container are the commands of `ContainerCli`, and the screen
  of the log is the `show()` of `ProtocolLog`.
- The reading and writing of settings: sequential code over one file, with no
  state but the file.
- The content of samples, sentences, tensors and settings: no property here
  depends on a value. The race on `data_` between the sensor callback and the
  publisher (`imu.cpp:42`) tears a sample; the race of an old looper's callback
  with the destruction of its object, which does more, is in `ImuAsset` and
  `AnxApp`. `~Imu` shuts the protobuf
  library down (`imu.cpp:26`) while the process goes on using it; what that
  does is the library's affair.
- protobuf, libzmq, TensorFlow Lite, busybox, debootstrap: third-party. The
  sockets and the mount system calls are modelled as far as the code uses them.
- The installation scripts of the distributions: sequential package
  installation over the network.
