---------------------------- MODULE ContainerCli ----------------------------
(***************************************************************************)
(* The commands the app gives to the container (app/src/main/assets/env/   *)
(* cli.sh): each one runs as a process of its own that no lock holds back  *)
(* (ExecService.java), and all of them read and change one mount table.    *)
(*                                                                         *)
(* The table is the sequence of the mount points of the container in the   *)
(* order they were mounted.  A point is a path from CHROOT_DIR, itself the *)
(* empty path; a mount hides what was mounted at or below its point.       *)
(***************************************************************************)
EXTENDS Integers, SequencesExt

CONSTANTS
  Job,            \* the processes that run commands
  MountOrder,     \* the points in the order container_mount takes them
  ReverseSorted,  \* the points below CHROOT_DIR as sort -r lists them
  Failing,        \* the points whose mount may fail
  MaxCommands,    \* bound: the commands given
  MaxFailures     \* bound: the mounts that fail

Root == <<>>
Point == ToSet(MountOrder)
Below(q, p) == IsStrictPrefix(p, q)

ASSUME ContainerAssumption ==
  /\ MountOrder \in Seq(Seq(STRING)) /\ MountOrder # <<>>
  /\ Head(MountOrder) = Root
  /\ \A i, k \in DOMAIN MountOrder :
       Below(MountOrder[k], MountOrder[i]) => i < k
  /\ ReverseSorted \in Seq(Seq(STRING)) /\ ToSet(ReverseSorted) = Point \ {Root}
  /\ \A i, k \in DOMAIN ReverseSorted :
       Below(ReverseSorted[i], ReverseSorted[k]) => i < k
  /\ Failing \subseteq Point
  /\ MaxCommands \in Nat /\ MaxFailures \in Nat

VARIABLES
  mounts,    \* the lines of /proc/mounts at or below CHROOT_DIR
  procs,     \* the processes inside the container
  jobs,      \* what each job does
  commands,  \* how many commands were given
  overlapped,\* history: commands that mount or unmount have run side by side
             \* since nothing was mounted and none of them ran
  failures,  \* how many mounts have failed
  failed,    \* history: the points below the root whose mount has failed since
             \* nothing was last mounted
  hindered   \* history: the jobs whose unmounting others made impossible

given == <<commands, overlapped>>
history == <<failed, hindered>>
vars == <<mounts, procs, jobs, given, failures, history>>

\* "start -m" and "stop -u" are what the buttons and the boot give, "start
\* core/net" and "stop core/net" what NetworkReceiver gives.
Command == {"start -m", "stop -u", "start core/net", "stop core/net"}

Mounting == {"start -m", "stop -u"}

New(cmd, pc) ==
  [pc |-> pc, cmd |-> cmd, left |-> <<>>, tries |-> 0]

Idle == New("start -m", "idle")

TypeOK ==
  /\ mounts \in Seq(Point)
  /\ procs \subseteq [who : Job \cup {"service"}, root : Nat]
  /\ jobs \in [Job -> [pc : {"idle", "check", "e2fsck", "mount", "mounting",
                             "ready", "exec", "inside", "release", "list",
                             "umount", "list root", "umount root"},
                       cmd : Command,
                       left : Seq(Point),
                       tries : 0 .. 2]]
  /\ commands \in 0 .. MaxCommands
  /\ failures \in 0 .. MaxFailures
  /\ failed \subseteq Point /\ hindered \subseteq Job /\ overlapped \in BOOLEAN

Init ==
  /\ mounts = <<>>
  /\ procs = {}
  /\ jobs = [j \in Job |-> Idle]
  /\ commands = 0
  /\ failures = 0
  /\ failed = {} /\ hindered = {} /\ overlapped = FALSE

-----------------------------------------------------------------------------
(* The mount table.                                                        *)

IsMounted(p) == \E i \in DOMAIN mounts : mounts[i] = p

Times(p) == Cardinality({i \in DOMAIN mounts : mounts[i] = p})

\* The entry a path leads to: the last one at the path, unless something was
\* mounted over its directory since.  There may be none.
Reached(p) ==
  {i \in DOMAIN mounts :
     /\ mounts[i] = p
     /\ \A k \in i + 1 .. Len(mounts) : mounts[k] # p /\ ~Below(p, mounts[k])}

\* The points with an entry that no path leads to.
Hidden == {p \in Point : Times(p) # Cardinality(Reached(p))}

\* umount refuses an entry with mounts on it, and the root the processes of
\* the container have for theirs.
Busy(i) ==
  \/ \E k \in i + 1 .. Len(mounts) : Below(mounts[k], mounts[i])
  \/ mounts[i] = Root /\ \E p \in procs : p.root = Times(Root)

\* The processes of the container may have files open on its other mounts.
MayBeHeld(i) == mounts[i] # Root /\ procs # {}

\* The lines of /proc/mounts for the points of list, in its order.
Listing(list) ==
  FlattenSeq([i \in DOMAIN list |-> [k \in 1 .. Times(list[i]) |-> list[i]]])

\* What a process that enters the container is: who, and on which root.
Entering(who) == [who |-> who, root |-> Times(Root)]

-----------------------------------------------------------------------------
\* The job goes on with its command.
Becomes(j, pc, left, tries) ==
  jobs' = [jobs EXCEPT ![j] = [pc |-> pc, cmd |-> @.cmd, left |-> left,
                               tries |-> tries]]

Goto(j, pc) == Becomes(j, pc, jobs[j].left, jobs[j].tries)

Exit(j) == jobs' = [jobs EXCEPT ![j] = Idle]

\* What happens now is in the way of the jobs at these places.
Hinder(places) == hindered' = hindered \cup {k \in Job : jobs[k].pc \in places}

\* The job runs a command that mounts or unmounts.
Active(j) == jobs[j].pc # "idle" /\ jobs[j].cmd \in Mounting

\* ExecService starts a thread, and that one a shell, for every command.
Begin(j, cmd) ==
  /\ jobs[j].pc = "idle"
  /\ commands < MaxCommands
  /\ commands' = commands + 1
  /\ jobs' = [jobs EXCEPT ![j] =
                New(cmd, IF cmd = "start -m" THEN "check" ELSE "ready")]
  /\ overlapped' = IF \E k \in Job : Active(k)
                   THEN overlapped \/ cmd \in Mounting
                   ELSE overlapped /\ mounts # <<>>
  /\ hindered' = hindered \ {j}
  /\ UNCHANGED <<mounts, procs, failures, failed>>

ToMount(j) == Becomes(j, "mount", MountOrder, 0)

\* fs_check: e2fsck runs on the image unless it is mounted.
CheckFs(j) ==
  /\ jobs[j].pc = "check"
  /\ IF IsMounted(Root) THEN ToMount(j) ELSE Goto(j, "e2fsck")
  /\ UNCHANGED <<mounts, procs, given, failures, history>>

FsChecked(j) ==
  /\ jobs[j].pc = "e2fsck"
  /\ ToMount(j)
  /\ UNCHANGED <<mounts, procs, given, failures, history>>

\* The part has been dealt with: the next one, or container_start.
NextPart(j) ==
  Becomes(j, IF Len(jobs[j].left) = 1 THEN "ready" ELSE "mount",
          Tail(jobs[j].left), 0)

\* Mutant: mount_part without is_mounted.
MountAlways(j) ==
  /\ jobs[j].pc = "mount"
  /\ Goto(j, "mounting")
  /\ UNCHANGED <<mounts, procs, given, failures, history>>

\* mount_part: a point that is mounted is skipped.
CheckMounted(j) ==
  /\ jobs[j].pc = "mount"
  /\ IF IsMounted(Head(jobs[j].left)) THEN NextPart(j) ELSE Goto(j, "mounting")
  /\ UNCHANGED <<mounts, procs, given, failures, history>>

MountPart(j) ==
  /\ jobs[j].pc = "mounting"
  /\ mounts' = Append(mounts, Head(jobs[j].left))
  /\ NextPart(j)
  /\ Hinder({"umount", "list root", "umount root"})
  /\ UNCHANGED <<procs, given, failures, failed>>

\* Mutant: a root that cannot be mounted is reported like any other part.
MountFailsSoftly(j) ==
  /\ jobs[j].pc = "mounting"
  /\ Head(jobs[j].left) \in Failing
  /\ failures < MaxFailures
  /\ failures' = failures + 1
  /\ NextPart(j)
  /\ UNCHANGED <<mounts, procs, given, history>>

\* The root's failure ends the command, that of another part is reported.
MountFails(j) ==
  /\ jobs[j].pc = "mounting"
  /\ Head(jobs[j].left) \in Failing
  /\ failures < MaxFailures
  /\ failures' = failures + 1
  /\ IF Head(jobs[j].left) = Root THEN Exit(j) ELSE NextPart(j)
  /\ failed' = failed \cup ({Head(jobs[j].left)} \ {Root})
  /\ UNCHANGED <<mounts, procs, given, hindered>>

\* container_start and container_stop ask whether the container is mounted.
CheckReady(j) ==
  /\ jobs[j].pc = "ready"
  /\ IF IsMounted(Root) THEN Goto(j, "exec") ELSE Exit(j)
  /\ UNCHANGED <<mounts, procs, given, failures, history>>

\* A process comes into the container, past the kill of a job that unmounts.
Enter(who) ==
  /\ procs' = procs \cup {Entering(who)}
  /\ Hinder({"list", "umount", "list root", "umount root"})

\* start of every component: the services stay in the container.  A component
\* that fails ends the command before the service, or after it.
ExecStart(j) ==
  /\ jobs[j].pc = "exec"
  /\ jobs[j].cmd = "start -m"
  /\ \/ UNCHANGED <<procs, hindered>>
     \/ IsMounted(Root) /\ Enter("service")
  /\ Exit(j)
  /\ UNCHANGED <<mounts, given, failures, failed>>

Services == {p \in procs : p.who = "service"}

\* stop of every component: kill_pids() kills the services.  A component that
\* fails ends the command, and the container is not unmounted.
ExecStop(j) ==
  /\ jobs[j].pc = "exec"
  /\ jobs[j].cmd = "stop -u"
  /\ \/ procs' \in {procs, procs \ Services} /\ Exit(j)
     \/ procs' = procs \ Services /\ Goto(j, "release")
  /\ UNCHANGED <<mounts, given, failures, history>>

\* core/net runs its trigger in the container.
EnterNet(j) ==
  /\ jobs[j].pc = "exec"
  /\ jobs[j].cmd \in {"start core/net", "stop core/net"}
  /\ IF IsMounted(Root) THEN Enter(j) /\ Goto(j, "inside")
     ELSE UNCHANGED <<procs, hindered>> /\ Exit(j)
  /\ UNCHANGED <<mounts, given, failures, failed>>

\* The trigger has ended, or was killed.
LeaveNet(j) ==
  /\ jobs[j].pc = "inside"
  /\ procs' = {p \in procs : p.who # j}
  /\ Exit(j)
  /\ UNCHANGED <<mounts, given, failures, history>>

\* Mutant: the processes that hold the container are not killed.
ReleaseNothing(j) ==
  /\ jobs[j].pc = "release"
  /\ IF IsMounted(Root) THEN Goto(j, "list") ELSE Exit(j)
  /\ UNCHANGED <<mounts, procs, given, failures, history>>

\* container_umount: every process lsof finds in the container is killed.
Release(j) ==
  /\ jobs[j].pc = "release"
  /\ IF IsMounted(Root)
     THEN procs' = {} /\ Goto(j, "list")
     ELSE UNCHANGED procs /\ Exit(j)
  /\ UNCHANGED <<mounts, given, failures, history>>

\* What follows the last part: the list of the root, or the end.
AfterParts(j) ==
  IF jobs[j].pc \in {"list", "umount"} THEN "list root" ELSE "idle"

\* The parts are listed once, before the first of them is unmounted.
ListParts(j) ==
  /\ jobs[j].pc \in {"list", "list root"}
  /\ LET parts == Listing(IF jobs[j].pc = "list" THEN ReverseSorted ELSE <<Root>>)
         umount == IF jobs[j].pc = "list" THEN "umount" ELSE "umount root"
     IN IF parts = <<>> /\ AfterParts(j) = "idle" THEN Exit(j)
        ELSE Becomes(j, IF parts = <<>> THEN AfterParts(j) ELSE umount, parts, 0)
  /\ hindered' = hindered \cup {k \in {j} : jobs[j].pc = "list" /\ Hidden # {}}
  /\ UNCHANGED <<mounts, procs, given, failures, failed>>

\* The part is unmounted, or was tried three times.
NextUmount(j) ==
  IF Len(jobs[j].left) > 1 THEN Becomes(j, jobs[j].pc, Tail(jobs[j].left), 0)
  ELSE IF AfterParts(j) = "idle" THEN Exit(j)
  ELSE Becomes(j, AfterParts(j), <<>>, 0)

UmountPart(j) ==
  /\ jobs[j].pc \in {"umount", "umount root"}
  /\ \E i \in Reached(Head(jobs[j].left)) :
       ~Busy(i) /\ mounts' = RemoveAt(mounts, i)
  /\ failed' = IF mounts' = <<>> THEN {} ELSE failed
  /\ NextUmount(j)
  /\ UNCHANGED <<procs, given, failures, hindered>>

UmountFailing(j) ==
  /\ jobs[j].pc \in {"umount", "umount root"}
  /\ \A i \in Reached(Head(jobs[j].left)) : Busy(i) \/ MayBeHeld(i)

\* Mutant: umount is tried until it succeeds.
RetryForever(j) == UmountFailing(j) /\ UNCHANGED vars

\* Mutant: umount is tried once more.
TriedFourTimes(j) ==
  /\ UmountFailing(j)
  /\ IF jobs[j].tries = 3 THEN NextUmount(j)
     ELSE Becomes(j, jobs[j].pc, jobs[j].left, jobs[j].tries + 1)
  /\ UNCHANGED <<mounts, procs, given, failures, history>>

\* umount fails: it is tried again after a second, three times in all.
UmountFails(j) ==
  /\ UmountFailing(j)
  /\ IF jobs[j].tries = 2 THEN NextUmount(j)
     ELSE Becomes(j, jobs[j].pc, jobs[j].left, jobs[j].tries + 1)
  /\ UNCHANGED <<mounts, procs, given, failures, history>>

Step(j) ==
  \/ CheckFs(j) \/ FsChecked(j) \/ CheckMounted(j) \/ MountPart(j)
  \/ MountFails(j) \/ CheckReady(j)
  \/ ExecStart(j) \/ ExecStop(j) \/ EnterNet(j) \/ LeaveNet(j)
  \/ Release(j) \/ ListParts(j) \/ UmountPart(j) \/ UmountFails(j)

Next ==
  \/ \E j \in Job, cmd \in Command : Begin(j, cmd)
  \/ \E j \in Job : Step(j)

Spec == Init /\ [][Next]_vars

-----------------------------------------------------------------------------
\* Every command is a process of its own and e2fsck ends; a trigger inside the
\* container is the user's own program and may never end.
Fairness == \A j \in Job : WF_vars(jobs[j].pc # "inside" /\ Step(j))

FairSpec == Spec /\ Fairness

-----------------------------------------------------------------------------
\* No mount hides another one, which is_mounted would go on to see, the
\* container would miss and umount could not reach, but one that a failure has
\* let into the directory below it, or commands that overlapped (mount_part).
NothingHidden == overlapped \/ \A p \in Hidden : \E q \in failed : Below(p, q)

\* Nothing is mounted into the bare directory, where it would be below the root
\* once that is mounted, unless commands that mount or unmount have overlapped
\* (container_mount, container_umount).
PartsNeedRoot == overlapped \/ mounts = <<>> \/ IsMounted(Root)

\* stop -u leaves nothing mounted, whatever was mounted before, failed or is
\* unmounted beside it, unless it found a mount hidden, or a process came into
\* the container after its kill, or a part was mounted after its list
\* (container_umount; README.md: unmount the container after stop).
StopUnmounts ==
  [][\A j \in Job :
       /\ jobs[j].pc \in {"umount", "list root", "umount root"}
       /\ jobs'[j].pc = "idle"
       /\ j \notin hindered
       => mounts' = <<>>]_vars

\* Every command ends, unless it runs a trigger that does not, whichever others
\* run beside it, even the one that cannot unmount what that trigger holds
\* (container_umount tries three times).
CommandsEnd ==
  \A j \in Job :
    jobs[j].pc # "idle" ~> jobs[j].pc \in {"idle", "inside"}
=============================================================================
