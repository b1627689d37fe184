----------------------------- MODULE UpdateEnv -----------------------------
(***************************************************************************)
(* The operating environment the app unpacks from its assets               *)
(* (EnvUtils.java): the update that a start of the app makes when the      *)
(* version file is not the app's, the update and the removal of the        *)
(* settings, the jobs for telnetd and httpd that they and others give to   *)
(* ExecService, and a process that may be killed, or replaced by a newer   *)
(* app, at any step.  The service here is one of the two: each has its     *)
(* jobs, its process and its switch in the settings to itself.             *)
(***************************************************************************)
EXTENDS Naturals, Sequences, SequencesExt

CONSTANTS
  MaxApp,    \* bound: the versions of the app
  MaxTasks,  \* bound: the tasks and jobs asked for
  MaxKills   \* bound: the kills of the process

ASSUME UpdateEnvAssumption ==
  /\ MaxApp \in Nat \ {0}
  /\ MaxTasks \in Nat
  /\ MaxKills \in Nat

\* What updateEnv() unpacks, and what it does after each; "applets" are the
\* permissions and the links that busybox --install makes.
After == [env |-> "bin", bin |-> "web", web |-> "linuxdeploy", linuxdeploy |-> "applets"]
Unpacked == DOMAIN After
Part == {"env", "bin", "web", "linuxdeploy", "applets"}

\* A part is missing, of a version of the app, or in pieces.
Missing == 0
Pieces == MaxApp + 1

VARIABLES
  app,       \* the version of the app
  version,   \* what the version file says; Missing: no file, or an empty one
  files,     \* the state of each part
  tasks,     \* the AsyncTasks, run one after the other
  pc,        \* what the first of them does next
  jobs,      \* the commands given to ExecService that have not run
  daemon,    \* whether the service runs
  enabled,   \* whether it is switched on in the settings
  asked,     \* history: the commands given since no job was left
  unnoticed, \* history: a task has failed behind a version file that was, or
             \* will be, the app's; no update has begun since
  asks,      \* the tasks and jobs asked for
  kills

disk == <<app, version, files>>
services == <<jobs, daemon, enabled, asked>>
counts == <<asks, kills>>
vars == <<disk, tasks, pc, services, unnoticed, counts>>

\* What the service is told; "switch" is to do as the settings say.
Command == {"start", "stop", "restart", "switch"}

TypeOK ==
  /\ app \in 1 .. MaxApp
  /\ version \in {Missing} \cup 1 .. MaxApp
  /\ files \in [Part -> Missing .. Pieces]
  /\ tasks \in Seq({"update", "remove"})
  /\ pc \in {"idle", "clean", "version"} \cup Part
  /\ pc # "idle" => tasks # <<>> /\ (tasks[1] = "remove" <=> pc = "clean")
  /\ jobs \in Seq(Command)
  /\ daemon \in BOOLEAN /\ enabled \in BOOLEAN /\ unnoticed \in BOOLEAN
  /\ asked \subseteq Command
  /\ asks \in 0 .. MaxTasks /\ kills \in 0 .. MaxKills

\* The app has just been installed.
Init ==
  /\ app = 1
  /\ version = Missing
  /\ files = [p \in Part |-> Missing]
  /\ tasks = <<>>
  /\ pc = "idle"
  /\ jobs = <<>>
  /\ daemon = FALSE /\ enabled \in BOOLEAN
  /\ asked = {"stop"} /\ unnoticed = FALSE
  /\ asks = 0 /\ kills = 0

-----------------------------------------------------------------------------
(* The main thread.                                                        *)

ExecServices(cmd) ==
  /\ jobs' = Append(jobs, cmd)
  /\ asked' = (IF jobs = <<>> THEN {} ELSE asked) \cup {cmd}
  /\ UNCHANGED daemon

Execute(task) == tasks' = Append(tasks, task) /\ UNCHANGED services

Asks == asks < MaxTasks /\ asks' = asks + 1

IsLatestVersion == version = app

\* onCreate(); the user may refuse the permission the update needs.
Open ==
  /\ Asks
  /\ \/ IsLatestVersion /\ ExecServices("start") /\ UNCHANGED <<tasks, enabled>>
     \/ ~IsLatestVersion /\ Execute("update")
     \/ ~IsLatestVersion /\ UNCHANGED <<tasks, services>>
  /\ UNCHANGED <<disk, pc, unnoticed, kills>>

\* The two buttons of the settings.
Settings ==
  /\ Asks
  /\ Execute("update") \/ Execute("remove")
  /\ UNCHANGED <<disk, pc, unnoticed, kills>>

\* Its switch in the settings, and its port.
Switch ==
  /\ Asks
  /\ \/ enabled' = ~enabled /\ ExecServices("switch")
     \/ UNCHANGED enabled /\ ExecServices("restart")
  /\ UNCHANGED <<disk, tasks, pc, unnoticed, kills>>

\* The exit entry of the menu, the phone's end, and its start.
ExitOrBoot ==
  /\ Asks
  /\ ExecServices("stop") \/ ExecServices("start")
  /\ UNCHANGED <<disk, tasks, pc, enabled, unnoticed, kills>>

-----------------------------------------------------------------------------
(* The thread of the AsyncTasks: updateEnv() and removeEnv().              *)

\* Mutant: a removal updates.
BeginUpdate ==
  /\ pc = "idle" /\ tasks # <<>>
  /\ ExecServices("stop")
  /\ pc' = "env"
  /\ UNCHANGED <<disk, tasks, enabled, unnoticed, counts>>

\* The service is stopped first.
Begin ==
  /\ pc = "idle" /\ tasks # <<>>
  /\ ExecServices("stop")
  /\ pc' = IF tasks[1] = "update" THEN "env" ELSE "clean"
  /\ unnoticed' = (unnoticed /\ tasks[1] = "remove")
  /\ UNCHANGED <<disk, tasks, enabled, counts>>

End == pc' = "idle" /\ tasks' = Tail(tasks)

\* The task ends early; the version file it found is still there.
CutShort == unnoticed' = (unnoticed \/ IsLatestVersion)

\* The first file of a part is deleted to be written again.
Unpack ==
  /\ pc \in Unpacked
  /\ files[pc] # Pieces
  /\ files' = [files EXCEPT ![pc] = Pieces]
  /\ UNCHANGED <<app, version, tasks, pc, services, unnoticed, counts>>

\* The last file of a part is written.  New programs are not executable yet.
Unpacks ==
  /\ pc \in Unpacked
  /\ files[pc] = Pieces
  /\ files' = [p \in Part |-> CASE p = pc -> app
                                 [] p = "applets" /\ pc = "bin" -> Pieces
                                 [] OTHER -> files[p]]
  /\ pc' = After[pc]
  /\ UNCHANGED <<app, version, tasks, services, unnoticed, counts>>

\* Mutant: the result of extractDir() is not looked at.
UnpackFailsUnnoticed ==
  /\ pc \in Unpacked
  /\ pc' = After[pc]
  /\ UNCHANGED <<disk, tasks, services, unnoticed, counts>>

\* An IOException: updateEnv() returns false, and the service stays stopped.
UnpackFails ==
  /\ pc \in Unpacked
  /\ End /\ CutShort
  /\ UNCHANGED <<disk, services, counts>>

\* setPermissions() and the shell that installs busybox.
Install ==
  /\ pc = "applets"
  /\ files' = [files EXCEPT ![pc] = app]
  /\ pc' = "version"
  /\ UNCHANGED <<app, version, tasks, services, unnoticed, counts>>

\* The shell fails, and its result is not looked at.
InstallFails ==
  /\ pc = "applets"
  /\ pc' = "version"
  /\ unnoticed' = TRUE
  /\ UNCHANGED <<disk, tasks, services, counts>>

SetVersion ==
  /\ pc = "version"
  /\ version' = app
  /\ ExecServices("start")
  /\ End
  /\ UNCHANGED <<app, files, enabled, unnoticed, counts>>

\* FileWriter empties the file before anything can fail.
SetVersionFails ==
  /\ pc = "version"
  /\ version' \in {version, Missing}
  /\ End /\ CutShort
  /\ UNCHANGED <<app, files, services, counts>>

\* cleanDirectory() deletes files in the order the directory lists them.
Clean ==
  /\ pc = "clean"
  /\ \/ version # Missing /\ version' = Missing /\ UNCHANGED files
     \/ /\ \E p \in Part :
             /\ files[p] # Missing
             /\ files' \in {[files EXCEPT ![p] = Pieces], [files EXCEPT ![p] = Missing]}
        /\ files' # files
        /\ UNCHANGED version
  /\ UNCHANGED <<app, tasks, pc, services, unnoticed, counts>>

\* removeEnv() returns true whether all is gone or a directory could not be
\* listed or a file not deleted.
Cleaned ==
  /\ pc = "clean"
  /\ End /\ CutShort
  /\ UNCHANGED <<disk, services, counts>>

-----------------------------------------------------------------------------
(* The jobs: a thread each, in no order, that runs telnetd() or httpd().   *)

CanStart == files["bin"] \in 1 .. MaxApp /\ files["applets"] \in 1 .. MaxApp

\* Mutant: a stop goes on as a restart does.
RunJobRestarting(i) ==
  /\ daemon' = (enabled /\ (CanStart \/ (daemon /\ jobs[i] = "start")))
  /\ jobs' = RemoveAt(jobs, i)
  /\ UNCHANGED <<disk, tasks, pc, enabled, asked, unnoticed, counts>>

\* A service that runs is left alone by a start, and nothing starts one that
\* is switched off.
RunJob(i) ==
  /\ LET cmd == IF jobs[i] # "switch" THEN jobs[i]
                ELSE IF enabled THEN "start" ELSE "stop"
     IN daemon' = (\/ cmd \in {"start", "restart"} /\ enabled /\ CanStart
                   \/ cmd = "start" /\ daemon)
  /\ jobs' = RemoveAt(jobs, i)
  /\ UNCHANGED <<disk, tasks, pc, enabled, asked, unnoticed, counts>>

-----------------------------------------------------------------------------
(* The end of the process.  Jobs that have a thread are lost, those that   *)
(* ExecService still has queued are not.                                   *)

Dies ==
  /\ pc' = "idle" /\ tasks' = <<>>
  /\ asked' = IF jobs' # <<>> THEN ToSet(jobs')
              ELSE IF daemon' THEN {"start"} ELSE {"stop"}
  /\ IF pc = "idle" THEN UNCHANGED unnoticed ELSE CutShort
  /\ UNCHANGED <<files, enabled, asks>>

\* The system takes the process, and perhaps the daemon with it.  A version
\* file being written is left empty.
Kill ==
  /\ kills < MaxKills
  /\ kills' = kills + 1
  /\ \E i \in 0 .. Len(jobs) : jobs' = SubSeq(jobs, i + 1, Len(jobs))
  /\ daemon' \in {daemon, FALSE}
  /\ version' \in {version} \cup {v \in {Missing} : pc = "version"}
  /\ Dies
  /\ UNCHANGED app

\* A newer app is installed: everything of the old one is killed.
Upgrade ==
  /\ app < MaxApp
  /\ app' = app + 1
  /\ jobs' = <<>>
  /\ daemon' = FALSE
  /\ Dies
  /\ UNCHANGED <<version, kills>>

-----------------------------------------------------------------------------
Fails == UnpackFails \/ InstallFails \/ SetVersionFails

Next ==
  \/ Open \/ Settings \/ Switch \/ ExitOrBoot
  \/ Begin \/ Unpack \/ Unpacks \/ Install \/ SetVersion \/ Clean \/ Cleaned
  \/ Fails
  \/ \E i \in DOMAIN jobs : RunJob(i)
  \/ Kill \/ Upgrade

Spec == Init /\ [][Next]_vars

-----------------------------------------------------------------------------
\* The version file does not lie: when it says that the environment is the
\* app's and no task is at work, every part is, however many updates were cut
\* short before (updateEnv() writes the file last, isLatestVersion() reads it).
\* Only a failure that leaves no trace is excused, until the next update: the
\* shell that installs busybox, and the end of a task that found the
\* environment up to date and left its version file.
LatestIsComplete ==
  IsLatestVersion /\ pc = "idle" /\ ~unnoticed => \A p \in Part : files[p] = app

\* In whatever order the jobs are done, when none is left the service does not
\* run unless a command since the last such moment started it, and when none
\* of them stopped it, it does run if it is switched on and the environment is
\* the app's.  What a stop and a start given together come to is undecided.
ServiceAsAsked ==
  jobs = <<>> /\ pc = "idle" =>
    /\ daemon => asked \cap {"start", "restart", "switch"} # {}
    /\ enabled /\ IsLatestVersion /\ ~unnoticed /\ "stop" \notin asked => daemon
=============================================================================
