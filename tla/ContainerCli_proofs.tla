------------------------ MODULE ContainerCli_proofs ------------------------
(***************************************************************************)
(* Proofs about ContainerCli, for any number of jobs, commands and failing *)
(* mounts and for any list of mount points in which a point comes after    *)
(* those above it, whichever commands overlap: its types, what a stop      *)
(* leaves, and the order of the mount table, which is kept for as long as  *)
(* commands that mount or unmount come one at a time.                      *)
(***************************************************************************)
EXTENDS ContainerCli, SequenceTheorems, FiniteSetTheorems, TLAPS

StartPlaces == {"check", "e2fsck", "mount", "mounting"}
StopPlaces == {"release", "list", "umount", "list root", "umount root"}

\* The jobs are records.  What is in their lists matters only while they mount.
Record(job) ==
  job = [pc |-> job.pc, cmd |-> job.cmd, left |-> job.left, tries |-> job.tries]

Records == jobs = [k \in Job |-> jobs[k]] /\ \A k \in Job : Record(jobs[k])

\* A command that mounts or unmounts is given when no other one runs.
OneAtATime ==
  \A j, k \in Job :
    /\ j # k
    /\ jobs[j].pc = "idle" /\ jobs'[j].pc # "idle"
    /\ jobs'[j].cmd \in Mounting /\ jobs[k].cmd \in Mounting
    => jobs[k].pc = "idle"

Alone == \A j, k \in Job : Active(j) /\ Active(k) => j = k

Places ==
  \A j \in Job : /\ jobs[j].pc \in StartPlaces => jobs[j].cmd = "start -m"
                 /\ jobs[j].pc \in StopPlaces => jobs[j].cmd = "stop -u"

\* A point whose mount has not failed, or has with all of the command.
Firm(p) == p = Root \/ p \notin failed

\* The points up to the nth have been dealt with.
MountedBefore(n) ==
  \A i \in 1 .. Len(MountOrder) :
    i < n /\ Firm(MountOrder[i]) => IsMounted(MountOrder[i])

From(n) == SubSeq(MountOrder, n, Len(MountOrder))

MountsInOrder ==
  \A j \in Job :
    /\ jobs[j].pc \in {"mount", "mounting"} =>
         \E n \in 1 .. Len(MountOrder) : jobs[j].left = From(n) /\ MountedBefore(n)
    /\ jobs[j].pc = "mounting" => ~IsMounted(Head(jobs[j].left))

\* Each point is mounted once, and one that is above another before it.
Ordered ==
  \A i, k \in 1 .. Len(mounts) :
    i < k => /\ mounts[i] # mounts[k]
             /\ Firm(mounts[k]) => ~Below(mounts[i], mounts[k])

\* What is above a mounted point is mounted, unless its mount failed.
Closed ==
  \A p, q \in Point :
    IsMounted(p) /\ Firm(q) /\ Below(p, q) => IsMounted(q)

CliInv ==
  /\ mounts \in Seq(Point)
  /\ Records /\ Alone /\ Places /\ MountsInOrder
  /\ Ordered /\ Closed

-----------------------------------------------------------------------------
LEMMA RootIsPoint == Root \in Point /\ MountOrder[1] = Root /\ Len(MountOrder) \in Nat \ {0}
BY ContainerAssumption DEF Point, ToSet, Root

LEMMA PointIsListed == \A p \in Point : \E m \in 1 .. Len(MountOrder) : p = MountOrder[m]
<1>1. DOMAIN MountOrder = 1 .. Len(MountOrder)
  BY ContainerAssumption
<1>2. QED
  BY <1>1, Zenon DEF Point, ToSet

LEMMA BelowRoot == \A p \in Point : p # Root => Below(p, Root)
<1> TAKE p \in Point
<1> HAVE p # Root
<1>1. p \in Seq(STRING)
  BY ContainerAssumption DEF Point, ToSet
<1>2. Len(Root) = 0 /\ SubSeq(Root, 1, 0) = <<>> /\ SubSeq(p, 1, 0) = <<>> /\ Len(p) \in Nat
  BY <1>1 DEF Root
<1>3. QED
  BY <1>2 DEF Below, IsStrictPrefix, IsPrefix

LEMMA NotBelowItself == \A p : ~Below(p, p)
BY DEF Below, IsStrictPrefix

\* Taking the head of the points still to mount.
LEMMA FromNext ==
  ASSUME NEW n \in 1 .. Len(MountOrder)
  PROVE  /\ Head(From(n)) = MountOrder[n] /\ MountOrder[n] \in Point
         /\ Len(From(n)) # 1 => n + 1 \in 1 .. Len(MountOrder)
         /\ Tail(From(n)) = From(n + 1)
<1>1. MountOrder \in Seq(Seq(STRING)) /\ Len(MountOrder) \in Nat
  BY ContainerAssumption
<1>2. Head(From(n)) = MountOrder[n] /\ Tail(From(n)) = From(n + 1)
  BY <1>1, HeadTailOfSubSeq DEF From
<1>3. MountOrder[n] \in Point
  BY <1>1 DEF Point, ToSet
<1>4. Len(From(n)) = Len(MountOrder) - n + 1
  BY <1>1 DEF From
<1>5. QED
  BY <1>1, <1>2, <1>3, <1>4

LEMMA Removed ==
  ASSUME NEW S, NEW s \in Seq(S), NEW i \in 1 .. Len(s)
  PROVE  /\ RemoveAt(s, i) \in Seq(S)
         /\ Len(RemoveAt(s, i)) = Len(s) - 1
         /\ \A k \in 1 .. Len(s) - 1 :
              RemoveAt(s, i)[k] = IF k < i THEN s[k] ELSE s[k + 1]
<1> DEFINE a == SubSeq(s, 1, i - 1)
           b == SubSeq(s, i + 1, Len(s))
<1>1. a \in Seq(S) /\ Len(a) = i - 1 /\ \A k \in 1 .. i - 1 : a[k] = s[k]
  OBVIOUS
<1>2. /\ b \in Seq(S) /\ Len(b) = Len(s) - i
      /\ \A k \in 1 .. Len(s) - i : b[k] = s[k + i]
  OBVIOUS
<1>3. RemoveAt(s, i) = a \o b
  BY DEF RemoveAt
<1> HIDE DEF a, b
<1>4. RemoveAt(s, i) \in Seq(S) /\ Len(RemoveAt(s, i)) = Len(s) - 1
  BY <1>1, <1>2, <1>3
<1>5. ASSUME NEW k \in 1 .. Len(s) - 1
      PROVE  RemoveAt(s, i)[k] = IF k < i THEN s[k] ELSE s[k + 1]
  <2>1. CASE k < i
    BY <1>1, <1>2, <1>3, <2>1
  <2>2. CASE ~(k < i)
    <3>1. (a \o b)[k] = b[k - (i - 1)] /\ k - (i - 1) \in 1 .. Len(s) - i
      BY <1>1, <1>2, <2>2
    <3>2. b[k - (i - 1)] = s[k + 1]
      BY <1>2, <3>1
    <3>3. QED
      BY <1>3, <2>2, <3>1, <3>2
  <2>3. QED
    BY <2>1, <2>2
<1>6. QED
  BY <1>4, <1>5

-----------------------------------------------------------------------------
(* What a step does to the jobs, whatever it does to the mounts.           *)

\* Another job than j keeps its place.
Others(j) ==
  \A k \in Job \ {j} : /\ jobs'[k].pc = jobs[k].pc
                       /\ jobs'[k].cmd = jobs[k].cmd
                       /\ jobs'[k].left = jobs[k].left

\* What becomes of the job j.
Is(j, pc) == jobs'[j].pc = pc /\ jobs'[j].cmd = jobs[j].cmd

LEMMA BecomesJob ==
  ASSUME Records, NEW j \in Job, NEW pc, NEW left, NEW tries, Becomes(j, pc, left, tries)
  PROVE  Records' /\ Others(j) /\ Is(j, pc) /\ jobs'[j].left = left
<1> DEFINE job == [pc |-> pc, cmd |-> jobs[j].cmd, left |-> left, tries |-> tries]
<1>1. Record(job)
  BY DEF Record
<1>2. jobs' = [k \in Job |-> IF k = j THEN job ELSE jobs[k]]
  BY DEF Becomes, Records
<1>3. jobs'[j] = job /\ \A k \in Job \ {j} : jobs'[k] = jobs[k]
  BY <1>2
<1>4. Records'
  <2>1. jobs' = [k \in Job |-> jobs'[k]]
    BY <1>2
  <2>2. \A k \in Job : Record(jobs'[k])
    BY <1>1, <1>3 DEF Records
  <2>3. QED
    BY <2>1, <2>2 DEF Records, Record
<1>5. QED
  BY <1>3, <1>4 DEF Others, Is

LEMMA ExitJob ==
  ASSUME Records, NEW j \in Job, Exit(j)
  PROVE  Records' /\ Others(j) /\ jobs'[j].pc = "idle"
<1>1. Record(Idle) /\ Idle.pc = "idle"
  BY DEF Record, Idle, New
<1>2. jobs' = [k \in Job |-> IF k = j THEN Idle ELSE jobs[k]]
  BY DEF Exit, Records
<1>3. jobs'[j] = Idle /\ \A k \in Job \ {j} : jobs'[k] = jobs[k]
  BY <1>2
<1>4. Records'
  BY <1>1, <1>2, <1>3 DEF Records, Record
<1>5. QED
  BY <1>1, <1>3, <1>4 DEF Others

LEMMA GotoJob ==
  ASSUME Records, NEW j \in Job, NEW pc, Goto(j, pc)
  PROVE  Records' /\ Others(j) /\ Is(j, pc) /\ jobs'[j].left = jobs[j].left
BY BecomesJob DEF Goto

LEMMA ToMountJob ==
  ASSUME Records, NEW j \in Job, ToMount(j)
  PROVE  Records' /\ Others(j) /\ Is(j, "mount") /\ jobs'[j].left = MountOrder
BY BecomesJob DEF ToMount

LEMMA NextPartJob ==
  ASSUME Records, NEW j \in Job, NextPart(j)
  PROVE  /\ Records' /\ Others(j) /\ jobs'[j].left = Tail(jobs[j].left)
         /\ Is(j, IF Len(jobs[j].left) = 1 THEN "ready" ELSE "mount")
BY BecomesJob DEF NextPart

LEMMA NextUmountJob ==
  ASSUME Records, NEW j \in Job, NextUmount(j), jobs[j].pc \in {"umount", "umount root"}
  PROVE  /\ Records' /\ Others(j)
         /\ \/ jobs'[j].pc = "idle"
            \/ \E pc \in {"umount", "umount root", "list root"} : Is(j, pc)
<1>1. CASE Len(jobs[j].left) > 1
  <2>1. PICK pc \in {"umount", "umount root"} : \E left : Becomes(j, pc, left, 0)
    BY <1>1 DEF NextUmount
  <2>2. Records' /\ Others(j) /\ Is(j, pc)
    BY <2>1, BecomesJob
  <2>3. QED
    BY <2>2
<1>2. CASE ~(Len(jobs[j].left) > 1) /\ AfterParts(j) = "idle"
  BY <1>2, ExitJob DEF NextUmount
<1>3. CASE ~(Len(jobs[j].left) > 1) /\ AfterParts(j) # "idle"
  <2>1. AfterParts(j) = "list root"
    BY <1>3 DEF AfterParts
  <2>2. Becomes(j, "list root", <<>>, 0)
    BY <1>3, <2>1 DEF NextUmount
  <2>3. Records' /\ Others(j) /\ Is(j, "list root")
    BY <2>2, BecomesJob
  <2>4. QED
    BY <2>3
<1>4. QED
  BY <1>1, <1>2, <1>3

LEMMA ListPartsJob ==
  ASSUME Records, NEW j \in Job, ListParts(j)
  PROVE  /\ Records' /\ Others(j)
         /\ \/ jobs'[j].pc = "idle"
            \/ \E pc \in {"umount", "umount root", "list root"} : Is(j, pc)
<1>1. CASE Exit(j)
  BY <1>1, ExitJob
<1>2. CASE \E pc \in {"umount", "umount root", "list root"} : \E left : Becomes(j, pc, left, 0)
  BY <1>2, BecomesJob
<1>3. QED
  BY <1>1, <1>2 DEF ListParts, AfterParts

LEMMA BeginJob ==
  ASSUME Records, NEW j \in Job, NEW cmd, Begin(j, cmd)
  PROVE  /\ Records' /\ Others(j) /\ jobs'[j].cmd = cmd
         /\ jobs'[j].pc = IF cmd = "start -m" THEN "check" ELSE "ready"
<1> DEFINE job == New(cmd, IF cmd = "start -m" THEN "check" ELSE "ready")
<1>1. /\ Record(job) /\ job.cmd = cmd
      /\ job.pc = IF cmd = "start -m" THEN "check" ELSE "ready"
  BY DEF Record, New
<1>2. jobs' = [k \in Job |-> IF k = j THEN job ELSE jobs[k]]
  BY DEF Begin, Records
<1> HIDE DEF job
<1>3. QED
  BY <1>1, <1>2 DEF Records, Record, Others

\* A step leaves the other jobs where they are, gives its own no new command,
\* and comes to the places of a start or a stop only in such a command.
LEMMA StepJob ==
  ASSUME Records, NEW j \in Job, Step(j)
  PROVE  /\ Records' /\ Others(j)
         /\ jobs'[j].pc # "idle" =>
              jobs'[j].cmd = jobs[j].cmd /\ jobs[j].pc # "idle"
         /\ jobs'[j].pc \in StartPlaces => jobs[j].pc \in StartPlaces
         /\ jobs'[j].pc \in StopPlaces =>
              jobs[j].pc \in StopPlaces \/ jobs[j].cmd = "stop -u"
<1> USE DEF StartPlaces, StopPlaces, Is
<1>1. CASE CheckFs(j)
  <2>1. jobs[j].pc = "check" /\ (ToMount(j) \/ Goto(j, "e2fsck"))
    BY <1>1 DEF CheckFs
  <2>2. Records' /\ Others(j) /\ (Is(j, "mount") \/ Is(j, "e2fsck"))
    BY <2>1, ToMountJob, GotoJob
  <2>3. QED
    BY <2>1, <2>2
<1>2. CASE FsChecked(j)
  BY <1>2, ToMountJob DEF FsChecked
<1>3. CASE CheckMounted(j)
  <2>1. jobs[j].pc = "mount" /\ (NextPart(j) \/ Goto(j, "mounting"))
    BY <1>3 DEF CheckMounted
  <2>2. /\ Records' /\ Others(j)
        /\ Is(j, "mount") \/ Is(j, "ready") \/ Is(j, "mounting")
    BY <2>1, NextPartJob, GotoJob
  <2>3. QED
    BY <2>1, <2>2
<1>4. CASE MountPart(j)
  BY <1>4, NextPartJob DEF MountPart
<1>5. CASE MountFails(j)
  BY <1>5, NextPartJob, ExitJob DEF MountFails
<1>6. CASE CheckReady(j)
  <2>1. jobs[j].pc = "ready" /\ (Goto(j, "exec") \/ Exit(j))
    BY <1>6 DEF CheckReady
  <2>2. Records' /\ Others(j) /\ (Is(j, "exec") \/ jobs'[j].pc = "idle")
    BY <2>1, GotoJob, ExitJob
  <2>3. QED
    BY <2>1, <2>2
<1>7. CASE ExecStart(j)
  BY <1>7, ExitJob DEF ExecStart
<1>8. CASE ExecStop(j)
  <2>1. /\ jobs[j].pc = "exec" /\ jobs[j].cmd = "stop -u"
        /\ Goto(j, "release") \/ Exit(j)
    BY <1>8 DEF ExecStop
  <2>2. Records' /\ Others(j) /\ (Is(j, "release") \/ jobs'[j].pc = "idle")
    BY <2>1, GotoJob, ExitJob
  <2>3. QED
    BY <2>1, <2>2
<1>9. CASE EnterNet(j)
  <2>1. jobs[j].pc = "exec" /\ (Goto(j, "inside") \/ Exit(j))
    BY <1>9 DEF EnterNet
  <2>2. Records' /\ Others(j) /\ (Is(j, "inside") \/ jobs'[j].pc = "idle")
    BY <2>1, GotoJob, ExitJob
  <2>3. QED
    BY <2>1, <2>2
<1>10. CASE LeaveNet(j)
  BY <1>10, ExitJob DEF LeaveNet
<1>11. CASE Release(j)
  BY <1>11, GotoJob, ExitJob DEF Release
<1>12. CASE ListParts(j)
  BY <1>12, ListPartsJob DEF ListParts
<1>13. CASE UmountPart(j)
  BY <1>13, NextUmountJob DEF UmountPart
<1>14. CASE UmountFails(j)
  BY <1>14, NextUmountJob, BecomesJob DEF UmountFails, UmountFailing
<1>15. QED
  BY <1>1, <1>2, <1>3, <1>4, <1>5, <1>6, <1>7, <1>8, <1>9, <1>10, <1>11, <1>12,
     <1>13, <1>14 DEF Step

LEMMA InitCli == Init => CliInv
<1> SUFFICES ASSUME Init PROVE CliInv
  OBVIOUS
<1>1. Record(Idle) /\ Idle.pc = "idle"
  BY DEF Record, Idle, New
<1>2. Records /\ \A j \in Job : jobs[j].pc = "idle"
  BY <1>1 DEF Init, Records, Record
<1>3. mounts = <<>> /\ mounts \in Seq(Point) /\ Len(mounts) = 0
  BY DEF Init
<1>4. Ordered /\ Closed
  BY <1>3 DEF Ordered, Closed, IsMounted
<1>5. QED
  BY <1>2, <1>3, <1>4
     DEF CliInv, Alone, Active, Places, StartPlaces, StopPlaces, MountsInOrder

\* A job comes to the places of a start or a stop only in such a command.
LEMMA NextPlaces == ASSUME Records, Places, Next PROVE Places'
<1>1. ASSUME NEW j \in Job, NEW cmd, Begin(j, cmd) PROVE Places'
  <2>1. /\ Others(j) /\ jobs'[j].cmd = cmd
        /\ jobs'[j].pc = IF cmd = "start -m" THEN "check" ELSE "ready"
    BY <1>1, BeginJob
  <2>2. QED
    BY <2>1 DEF Places, Others, StartPlaces, StopPlaces
<1>2. ASSUME NEW j \in Job, Step(j) PROVE Places'
  <2>1. /\ Others(j)
        /\ jobs'[j].pc # "idle" => jobs'[j].cmd = jobs[j].cmd
        /\ jobs'[j].pc \in StartPlaces => jobs[j].pc \in StartPlaces
        /\ jobs'[j].pc \in StopPlaces =>
             jobs[j].pc \in StopPlaces \/ jobs[j].cmd = "stop -u"
    BY <1>2, StepJob
  <2>2. QED
    BY <2>1 DEF Places, Others, StartPlaces, StopPlaces
<1>3. QED
  BY <1>1, <1>2 DEF Next

\* Who has which command is kept, one command that mounts at a time.
LEMMA NextCommands ==
  ASSUME CliInv, Next, OneAtATime
  PROVE  Records' /\ Alone' /\ Places'
<1>1. Records /\ Alone /\ Places
  BY DEF CliInv
<1>2. Places'
  BY <1>1, NextPlaces
<1>3. ASSUME NEW j \in Job, NEW cmd \in Command, Begin(j, cmd)
      PROVE  Records' /\ Alone'
  <2>1. /\ Records' /\ Others(j) /\ jobs'[j].cmd = cmd
        /\ jobs'[j].pc = IF cmd = "start -m" THEN "check" ELSE "ready"
    BY <1>1, <1>3, BeginJob
  <2>2. jobs[j].pc = "idle" /\ jobs'[j].pc # "idle"
    <3>1. jobs[j].pc = "idle"
      BY <1>3, Zenon DEF Begin
    <3>2. jobs'[j].pc # "idle"
      BY <2>1
    <3>3. QED
      BY <3>1, <3>2
  <2>3. \A k \in Job : j # k /\ cmd \in Mounting => ~Active(k)
    BY <2>1, <2>2 DEF OneAtATime, Active
  <2>4. Alone'
    BY <1>1, <2>1, <2>3 DEF Alone, Active, Others
  <2>5. QED
    BY <2>1, <2>4
<1>4. ASSUME NEW j \in Job, Step(j)
      PROVE  Records' /\ Alone'
  <2>1. /\ Records' /\ Others(j)
        /\ jobs'[j].pc # "idle" =>
             jobs'[j].cmd = jobs[j].cmd /\ jobs[j].pc # "idle"
    BY <1>1, <1>4, StepJob
  <2>2. \A k \in Job : Active(k)' => Active(k)
    BY <2>1 DEF Active, Others
  <2>3. Alone'
    BY <1>1, <2>2 DEF Alone
  <2>4. QED
    BY <2>1, <2>3
<1>5. QED
  BY <1>2, <1>3, <1>4 DEF Next

-----------------------------------------------------------------------------
(* What a step does to the mounts, and to the places that speak of them.   *)

Table == mounts \in Seq(Point) /\ Ordered /\ Closed

\* The place of j agrees with the mounts.
Fits(j) ==
  /\ jobs[j].pc \in {"mount", "mounting"} =>
       \E n \in 1 .. Len(MountOrder) : jobs[j].left = From(n) /\ MountedBefore(n)
  /\ jobs[j].pc = "mounting" => ~IsMounted(Head(jobs[j].left))

LEMMA FitsMeans == MountsInOrder <=> \A j \in Job : Fits(j)
BY DEF MountsInOrder, Fits

\* When more has failed, less is firm.
LEMMA FirmLess == failed \subseteq failed' => \A p : Firm(p)' => Firm(p)
BY DEF Firm

\* A step that mounts and unmounts nothing only has to look after its own job.
LEMMA SameMounts ==
  ASSUME CliInv, NEW j \in Job, Others(j), UNCHANGED mounts, failed \subseteq failed', Fits(j)'
  PROVE  Table' /\ MountsInOrder'
<1>1. \A p : (IsMounted(p)' <=> IsMounted(p)) /\ (Firm(p)' => Firm(p))
  BY FirmLess DEF IsMounted
<1>2. Table'
  BY <1>1 DEF CliInv, Table, Ordered, Closed
<1>3. \A n : MountedBefore(n) => MountedBefore(n)'
  BY <1>1 DEF MountedBefore
<1>4. \A k \in Job : Fits(k)
  BY FitsMeans DEF CliInv
<1>5. ASSUME NEW k \in Job \ {j} PROVE Fits(k)'
  <2>1. jobs'[k].pc = jobs[k].pc /\ jobs'[k].left = jobs[k].left
    BY DEF Others
  <2>2. QED
    BY <1>1, <1>3, <1>4, <2>1 DEF Fits
<1>6. \A k \in Job : Fits(k)'
  BY <1>5
<1>7. QED
  BY <1>2, <1>6 DEF MountsInOrder, Fits

\* A command that mounts or unmounts is the only one at such a place.
LEMMA OnlyOne ==
  ASSUME CliInv, NEW j \in Job, Others(j), jobs[j].pc \in StartPlaces \cup StopPlaces,
         NEW k \in Job \ {j}
  PROVE  jobs'[k].pc \notin StartPlaces
<1>1. Active(j)
  BY DEF CliInv, Places, Active, Mounting, StartPlaces, StopPlaces
<1>2. ~Active(k)
  BY <1>1 DEF CliInv, Alone
<1>3. jobs[k].pc \notin StartPlaces
  BY <1>2 DEF CliInv, Places, Active, Mounting, StartPlaces
<1>4. QED
  BY <1>3 DEF Others

LEMMA MountPartTable ==
  ASSUME CliInv, NEW j \in Job, MountPart(j)
  PROVE  Table' /\ MountsInOrder'
<1> DEFINE p == Head(jobs[j].left)
<1>1. /\ jobs[j].pc = "mounting" /\ mounts' = Append(mounts, p) /\ NextPart(j)
      /\ Records /\ failed' = failed
  BY DEF MountPart, CliInv
<1>2. PICK n \in 1 .. Len(MountOrder) : jobs[j].left = From(n) /\ MountedBefore(n)
  BY <1>1 DEF CliInv, MountsInOrder
<1>3. /\ p = MountOrder[n] /\ p \in Point
      /\ Len(From(n)) # 1 => n + 1 \in 1 .. Len(MountOrder)
      /\ Tail(From(n)) = From(n + 1)
  BY <1>2, FromNext
<1>4. ~IsMounted(p)
  BY <1>1 DEF CliInv, MountsInOrder
<1> HIDE DEF p
<1>5. mounts \in Seq(Point) /\ Ordered /\ Closed
  BY DEF CliInv
<1>6. /\ mounts' \in Seq(Point) /\ Len(mounts') = Len(mounts) + 1
      /\ \A i \in 1 .. Len(mounts) : mounts'[i] = mounts[i]
      /\ mounts'[Len(mounts) + 1] = p
  BY <1>1, <1>3, <1>5
<1>7. \A q : IsMounted(q)' <=> IsMounted(q) \/ q = p
  <2>1. DOMAIN mounts = 1 .. Len(mounts) /\ DOMAIN mounts' = 1 .. Len(mounts) + 1
        /\ Len(mounts) \in Nat
    BY <1>5, <1>6
  <2>2. QED
    BY <1>6, <2>1 DEF IsMounted
<1>8. Ordered'
  <2>1. SUFFICES ASSUME NEW i \in 1 .. Len(mounts'), NEW k \in 1 .. Len(mounts'), i < k
                 PROVE  /\ mounts'[i] # mounts'[k]
                        /\ Firm(mounts'[k]) => ~Below(mounts'[i], mounts'[k])
    BY <1>1 DEF Ordered, Firm
  <2>2. CASE k \in 1 .. Len(mounts)
    <3>1. i \in 1 .. Len(mounts)
      BY <2>1, <2>2, <1>5
    <3>2. QED
      BY <1>5, <1>6, <2>1, <2>2, <3>1 DEF Ordered
  <2>3. CASE k = Len(mounts) + 1
    <3>1. i \in 1 .. Len(mounts) /\ mounts'[i] = mounts[i] /\ mounts'[k] = p
      BY <1>5, <1>6, <2>1, <2>3
    <3>2. IsMounted(mounts[i]) /\ mounts[i] \in Point
      BY <1>5, <3>1 DEF IsMounted
    <3>3. QED
      BY <1>3, <1>4, <1>5, <3>1, <3>2 DEF Closed
  <2>4. QED
    BY <1>5, <1>6, <2>2, <2>3
<1>9. Closed'
  <2>1. SUFFICES ASSUME NEW a \in Point, NEW q \in Point, IsMounted(a)', Firm(q), Below(a, q)
                 PROVE  IsMounted(q)'
    BY <1>1 DEF Closed, Firm
  <2>2. CASE IsMounted(a)
    BY <1>5, <1>7, <2>1, <2>2 DEF Closed
  <2>3. CASE a = p
    <3>1. PICK m \in 1 .. Len(MountOrder) : q = MountOrder[m]
      BY <2>1, PointIsListed
    <3>2. m < n
      <4>1. Below(MountOrder[n], MountOrder[m])
        BY <1>3, <2>1, <2>3, <3>1
      <4>2. DOMAIN MountOrder = 1 .. Len(MountOrder)
        BY ContainerAssumption
      <4>3. QED
        BY <4>1, <4>2, ContainerAssumption
    <3>3. QED
      BY <1>2, <1>7, <2>1, <3>1, <3>2 DEF MountedBefore
  <2>4. QED
    BY <1>7, <2>1, <2>2, <2>3
<1>10. /\ Others(j) /\ jobs'[j].left = From(n + 1)
       /\ Is(j, IF Len(From(n)) = 1 THEN "ready" ELSE "mount")
  BY <1>1, <1>2, <1>3, NextPartJob
<1>11. \A k \in Job \ {j} : Fits(k)'
  <2>1. \A k \in Job \ {j} : jobs'[k].pc \notin StartPlaces
    BY <1>1, <1>10, OnlyOne DEF StartPlaces
  <2>2. QED
    BY <2>1 DEF Fits, StartPlaces
<1>12. Fits(j)'
  <2>1. CASE Len(From(n)) = 1
    BY <1>10, <2>1 DEF Fits, Is
  <2>2. CASE Len(From(n)) # 1
    <3>1. MountedBefore(n + 1)'
      <4>0. \A q : Firm(q)' <=> Firm(q)
        BY <1>1 DEF Firm
      <4>1. SUFFICES ASSUME NEW i \in 1 .. Len(MountOrder), i < n + 1, Firm(MountOrder[i])
                     PROVE  IsMounted(MountOrder[i])'
        BY <4>0 DEF MountedBefore
      <4>2. i < n \/ i = n
        BY <4>1
      <4>3. QED
        BY <1>2, <1>3, <1>7, <4>1, <4>2 DEF MountedBefore
    <3>2. jobs'[j].pc = "mount"
      BY <1>10, <2>2 DEF Is
    <3>3. QED
      BY <1>3, <1>10, <2>2, <3>1, <3>2 DEF Fits
  <2>3. QED
    BY <2>1, <2>2
<1>13. QED
  BY <1>6, <1>8, <1>9, <1>11, <1>12 DEF Table, MountsInOrder, Fits

LEMMA UmountPartTable ==
  ASSUME CliInv, NEW j \in Job, UmountPart(j)
  PROVE  Table' /\ MountsInOrder'
<1>1. jobs[j].pc \in {"umount", "umount root"} /\ NextUmount(j) /\ Records
  BY DEF UmountPart, CliInv
<1>2. mounts \in Seq(Point) /\ Ordered /\ Closed
  BY DEF CliInv
<1>3. PICK i \in 1 .. Len(mounts) : ~Busy(i) /\ mounts' = RemoveAt(mounts, i)
  <2>1. PICK i \in Reached(Head(jobs[j].left)) : ~Busy(i) /\ mounts' = RemoveAt(mounts, i)
    BY Zenon DEF UmountPart
  <2>2. i \in DOMAIN mounts /\ DOMAIN mounts = 1 .. Len(mounts)
    BY <1>2 DEF Reached
  <2>3. QED
    BY <2>1, <2>2
<1>4. /\ mounts' \in Seq(Point) /\ Len(mounts') = Len(mounts) - 1
      /\ \A k \in 1 .. Len(mounts) - 1 :
           mounts'[k] = IF k < i THEN mounts[k] ELSE mounts[k + 1]
  BY <1>2, <1>3, Removed
<1>5. Len(mounts) \in Nat /\ DOMAIN mounts = 1 .. Len(mounts)
      /\ DOMAIN mounts' = 1 .. Len(mounts) - 1
  BY <1>2, <1>4
<1>f. ASSUME NEW a \in 1 .. Len(mounts) - 1 PROVE failed' = failed
  <2>1. mounts' # <<>>
    <3>1. mounts' # <<>> \/ Len(<<>>) = Len(mounts) - 1
      BY <1>4
    <3>2. QED
      BY <1>5, <3>1
  <2>2. failed' = IF mounts' = <<>> THEN {} ELSE failed
    BY Zenon DEF UmountPart
  <2>3. QED
    BY <2>1, <2>2
<1>6. Ordered'
  <2>1. SUFFICES ASSUME NEW a \in 1 .. Len(mounts) - 1, NEW b \in 1 .. Len(mounts) - 1, a < b
                 PROVE  /\ mounts'[a] # mounts'[b]
                        /\ Firm(mounts'[b]) => ~Below(mounts'[a], mounts'[b])
    BY <1>4, <1>f DEF Ordered, Firm
  <2>2. PICK c \in 1 .. Len(mounts), d \in 1 .. Len(mounts) :
          c < d /\ mounts'[a] = mounts[c] /\ mounts'[b] = mounts[d]
    <3> DEFINE At(e) == IF e < i THEN e ELSE e + 1
    <3>1. At(a) \in 1 .. Len(mounts) /\ At(b) \in 1 .. Len(mounts) /\ At(a) < At(b)
      BY <1>5, <2>1
    <3>2. mounts'[a] = mounts[At(a)] /\ mounts'[b] = mounts[At(b)]
      BY <1>4
    <3>3. QED
      BY <3>1, <3>2
  <2>3. QED
    BY <1>2, <2>2 DEF Ordered
<1>7. Closed'
  <2>0. SUFFICES ASSUME NEW a \in Point, NEW q \in Point, IsMounted(a)', Firm(q)', Below(a, q)
                 PROVE  IsMounted(q)'
    BY DEF Closed
  <2>2. PICK k \in 1 .. Len(mounts) - 1 : mounts'[k] = a
    BY <1>5, <2>0 DEF IsMounted
  <2>1. Firm(q) /\ Below(a, q)
    BY <1>f, <2>0 DEF Firm
  <2>3. PICK c \in 1 .. Len(mounts) : c # i /\ mounts[c] = a
    BY <1>4, <1>5, <2>2
  <2>4. PICK m \in 1 .. Len(mounts) : mounts[m] = q
    BY <1>2, <1>5, <2>1, <2>3 DEF Closed, IsMounted
  <2>5. m # i
    <3>1. SUFFICES ASSUME m = i PROVE FALSE
      OBVIOUS
    <3>2. CASE c < i
      BY <1>2, <2>1, <2>3, <2>4, <3>1, <3>2 DEF Ordered
    <3>3. CASE i < c
      <4>1. c \in i + 1 .. Len(mounts) /\ Below(mounts[c], mounts[i])
        BY <1>5, <2>1, <2>3, <2>4, <3>1, <3>3
      <4>2. QED
        BY <1>3, <4>1 DEF Busy
    <3>4. QED
      BY <1>5, <2>3, <3>2, <3>3
  <2>6. \E l \in 1 .. Len(mounts) - 1 : mounts'[l] = q
    <3>1. CASE m < i
      BY <1>4, <1>5, <2>4, <3>1
    <3>2. CASE i < m
      <4>1. m - 1 \in 1 .. Len(mounts) - 1 /\ ~(m - 1 < i) /\ (m - 1) + 1 = m
        BY <1>5, <3>2
      <4>2. mounts'[m - 1] = mounts[m]
        BY <1>4, <4>1
      <4>3. QED
        BY <2>4, <4>1, <4>2
    <3>3. QED
      BY <1>5, <2>5, <3>1, <3>2
  <2>7. QED
    BY <1>5, <2>6 DEF IsMounted
<1>8. Others(j) /\ jobs'[j].pc \notin StartPlaces
  BY <1>1, NextUmountJob DEF Is, StartPlaces
<1>9. \A k \in Job \ {j} : jobs'[k].pc \notin StartPlaces
  BY <1>1, <1>8, OnlyOne DEF StopPlaces
<1>10. QED
  BY <1>4, <1>6, <1>7, <1>8, <1>9 DEF Table, MountsInOrder, StartPlaces

\* The steps that mount and unmount nothing: where the job gets, it fits.
LEMMA OtherStepTable ==
  ASSUME CliInv, NEW j \in Job, Step(j), UNCHANGED mounts, failed \subseteq failed'
  PROVE  Table' /\ MountsInOrder'
<1> DEFINE Elsewhere == jobs'[j].pc \notin {"mount", "mounting"}
<1>1. Records /\ Fits(j) /\ Others(j)
  BY StepJob, FitsMeans DEF CliInv
<1>2. \A p : (IsMounted(p)' <=> IsMounted(p)) /\ (Firm(p)' => Firm(p))
  BY FirmLess DEF IsMounted
<1>3. \A n : MountedBefore(n) => MountedBefore(n)'
  BY <1>2 DEF MountedBefore
<1>4. Elsewhere => Fits(j)'
  BY DEF Fits
<1>5. ASSUME ToMount(j) PROVE Fits(j)'
  <2>1. jobs'[j].pc = "mount" /\ jobs'[j].left = MountOrder
    BY <1>1, <1>5, ToMountJob DEF Is
  <2>2. 1 \in 1 .. Len(MountOrder) /\ From(1) = MountOrder
    BY RootIsPoint, ContainerAssumption DEF From
  <2>3. MountedBefore(1)'
    BY RootIsPoint DEF MountedBefore
  <2>4. QED
    BY <2>1, <2>2, <2>3 DEF Fits
<1>6. ASSUME jobs[j].pc \in {"mount", "mounting"}, NextPart(j),
             \A n \in 1 .. Len(MountOrder) :
               jobs[j].left = From(n) /\ Firm(MountOrder[n])' => IsMounted(MountOrder[n])
      PROVE  Fits(j)'
  <2>1. PICK n \in 1 .. Len(MountOrder) : jobs[j].left = From(n) /\ MountedBefore(n)
    BY <1>1, <1>6 DEF Fits
  <2>2. /\ Len(From(n)) # 1 => n + 1 \in 1 .. Len(MountOrder)
        /\ Tail(From(n)) = From(n + 1)
    BY FromNext
  <2>3. /\ jobs'[j].left = From(n + 1)
        /\ jobs'[j].pc = IF Len(From(n)) = 1 THEN "ready" ELSE "mount"
    BY <1>1, <1>6, <2>1, <2>2, NextPartJob DEF Is
  <2>5. MountedBefore(n + 1)'
    <3>1. SUFFICES ASSUME NEW i \in 1 .. Len(MountOrder), i < n + 1, Firm(MountOrder[i])'
                   PROVE  IsMounted(MountOrder[i])
      BY <1>2 DEF MountedBefore
    <3>2. i < n \/ i = n
      BY <3>1
    <3>3. QED
      BY <1>2, <1>6, <2>1, <3>1, <3>2 DEF MountedBefore
  <2>6. CASE Len(From(n)) = 1
    BY <1>4, <2>3, <2>6
  <2>7. CASE Len(From(n)) # 1
    BY <2>2, <2>3, <2>5, <2>7 DEF Fits
  <2>8. QED
    BY <2>6, <2>7
<1>7. CASE CheckFs(j)
  <2>1. ToMount(j) \/ Goto(j, "e2fsck")
    BY <1>7 DEF CheckFs
  <2>2. CASE Goto(j, "e2fsck")
    BY <1>1, <1>4, <2>2, GotoJob, SameMounts DEF Is
  <2>3. QED
    BY <1>1, <1>5, <2>1, <2>2, SameMounts
<1>8. CASE FsChecked(j)
  BY <1>1, <1>5, <1>8, SameMounts DEF FsChecked
<1>9. CASE CheckMounted(j)
  <2>1. /\ jobs[j].pc = "mount"
        /\ \/ IsMounted(Head(jobs[j].left)) /\ NextPart(j)
           \/ ~IsMounted(Head(jobs[j].left)) /\ Goto(j, "mounting")
    BY <1>9 DEF CheckMounted
  <2>2. CASE IsMounted(Head(jobs[j].left)) /\ NextPart(j)
    <3>1. \A n \in 1 .. Len(MountOrder) :
            jobs[j].left = From(n) => IsMounted(MountOrder[n])
      BY <2>2, FromNext
    <3>2. QED
      BY <1>1, <1>6, <2>1, <2>2, <3>1, SameMounts
  <2>3. CASE ~IsMounted(Head(jobs[j].left)) /\ Goto(j, "mounting")
    <3>1. jobs'[j].pc = "mounting" /\ jobs'[j].left = jobs[j].left
      BY <1>1, <2>3, GotoJob DEF Is
    <3>2. PICK n \in 1 .. Len(MountOrder) : jobs[j].left = From(n) /\ MountedBefore(n)
      BY <1>1, <2>1 DEF Fits
    <3>3. Fits(j)'
      BY <1>2, <1>3, <2>3, <3>1, <3>2 DEF Fits
    <3>4. QED
      BY <1>1, <3>3, SameMounts
  <2>4. QED
    BY <2>1, <2>2, <2>3
<1>10. CASE MountFails(j)
  <2>1. /\ jobs[j].pc = "mounting" /\ (Head(jobs[j].left) # Root => Head(jobs[j].left) \in failed')
        /\ Exit(j) \/ (Head(jobs[j].left) # Root /\ NextPart(j))
    BY <1>10 DEF MountFails
  <2>2. CASE Exit(j)
    BY <1>1, <1>4, <2>2, ExitJob, SameMounts
  <2>3. CASE Head(jobs[j].left) # Root /\ NextPart(j)
    <3>1. \A n \in 1 .. Len(MountOrder) :
            jobs[j].left = From(n) => ~Firm(MountOrder[n])'
      BY <2>1, <2>3, FromNext DEF Firm
    <3>2. QED
      BY <1>1, <1>6, <2>1, <2>3, <3>1, SameMounts
  <2>4. QED
    BY <2>1, <2>2, <2>3
<1>11. CASE MountPart(j)
  BY <1>11, MountPartTable
<1>12. CASE jobs[j].pc \notin StartPlaces
  <2>1. Elsewhere
    BY <1>1, <1>12, StepJob DEF StartPlaces
  <2>2. QED
    BY <1>1, <1>4, <2>1, SameMounts
<1>13. CheckFs(j) \/ FsChecked(j) \/ CheckMounted(j) \/ MountFails(j) \/ MountPart(j)
       \/ jobs[j].pc \notin StartPlaces
  BY DEF Step, StartPlaces, CheckReady, ExecStart, ExecStop, EnterNet, LeaveNet, Release,
         ListParts, UmountPart, UmountFails, UmountFailing
<1>14. QED
  BY <1>7, <1>8, <1>9, <1>10, <1>11, <1>12, <1>13

\* A new command is at no place that speaks of the mounts.
LEMMA BeginTable ==
  ASSUME CliInv, NEW j \in Job, NEW cmd, Begin(j, cmd)
  PROVE  Table' /\ MountsInOrder'
<1>1. Records /\ UNCHANGED mounts /\ failed \subseteq failed'
  BY DEF CliInv, Begin
<1>2. Others(j) /\ jobs'[j].pc \in {"check", "ready"}
  BY <1>1, BeginJob
<1>3. Fits(j)'
  BY <1>2 DEF Fits
<1>4. QED
  BY <1>1, <1>2, <1>3, SameMounts

LEMMA NextCli == ASSUME CliInv, Next, OneAtATime PROVE CliInv'
<1>1. Records' /\ Alone' /\ Places'
  BY NextCommands
<1>2. Table' /\ MountsInOrder'
  <2>1. ASSUME NEW j \in Job, Step(j)
        PROVE  Table' /\ MountsInOrder'
    <3>1. MountPart(j) \/ UmountPart(j) \/ (UNCHANGED mounts /\ failed \subseteq failed')
      BY <2>1 DEF Step, CheckFs, FsChecked, CheckMounted, MountFails, CheckReady, ExecStart,
                  ExecStop, EnterNet, LeaveNet, Release, ListParts, UmountFails, vars, history
    <3>2. QED
      BY <2>1, <3>1, MountPartTable, UmountPartTable, OtherStepTable
  <2>2. QED
    BY <2>1, BeginTable DEF Next
<1>3. QED
  BY <1>1, <1>2 DEF CliInv, Table

LEMMA StutterCli == ASSUME CliInv, UNCHANGED vars PROVE CliInv'
<1>1. UNCHANGED <<mounts, jobs, failed>>
  BY DEF vars, history
<1>2. Records' /\ Alone' /\ Places'
  BY <1>1 DEF CliInv, Records, Record, Alone, Active, Places
<1>3. \A p : (IsMounted(p)' <=> IsMounted(p)) /\ (Firm(p)' <=> Firm(p))
  BY <1>1 DEF IsMounted, Firm
<1>4. MountsInOrder'
  BY <1>1, <1>3 DEF CliInv, MountsInOrder, MountedBefore
<1>5. QED
  BY <1>1, <1>2, <1>3, <1>4 DEF CliInv, Ordered, Closed

-----------------------------------------------------------------------------
(* Induction over the natural numbers, for the sequences FlattenSeq builds. *)

\* Of a set of natural numbers one is the least: the intervals up to them are
\* finite sets, which strict inclusion orders well.
LEMMA Least ==
  ASSUME NEW T, T \subseteq Nat, T # {}
  PROVE  \E n \in T : \A m \in T : n <= m
<1> DEFINE R == StrictSubsetOrdering(Nat)
           Fin == FiniteSubsetsOf(Nat)
           F == {0 .. n : n \in T}
<1>1. IsWellFoundedOn(R, Fin)
  BY FS_StrictSubsetOrderingWellFounded
<1>2. F \subseteq Fin /\ F # {}
  <2>1. \A n \in T : 0 .. n \subseteq Nat /\ IsFiniteSet(0 .. n)
    BY FS_Interval
  <2>2. QED
    BY <2>1 DEF FiniteSubsetsOf
<1> HIDE DEF F, R, Fin
<1>3. PICK x \in F : \A y \in F : ~(<<y, x>> \in R)
  BY <1>1, <1>2, WFMin
<1>4. PICK n \in T : x = 0 .. n
  BY <1>3 DEF F
<1>5. ASSUME NEW m \in T, ~(n <= m)
      PROVE  FALSE
  <2>1. 0 .. m \in F
    BY DEF F
  <2>2. 0 .. m \subseteq Nat /\ 0 .. n \subseteq Nat /\ 0 .. m \subseteq 0 .. n /\ n \in 0 .. n /\ n \notin 0 .. m
    BY <1>5
  <2>3. <<0 .. m, 0 .. n>> \in R
    BY <2>2 DEF R, StrictSubsetOrdering
  <2>4. QED
    BY <1>3, <1>4, <2>1, <2>3
<1>6. QED
  BY <1>5

LEMMA Induct ==
  ASSUME NEW T, T \subseteq Nat, 0 \in T, \A n \in T : n + 1 \in T
  PROVE  T = Nat
<1> SUFFICES ASSUME T # Nat PROVE FALSE
  OBVIOUS
<1>1. PICK n \in Nat \ T : \A m \in Nat \ T : n <= m
  <2>1. Nat \ T # {}
    OBVIOUS
  <2>2. QED
    BY <2>1, Least
<1>2. n # 0 /\ n - 1 \in Nat
  BY <1>1
<1>3. n - 1 \in T
  BY <1>1, <1>2
<1>4. QED
  BY <1>1, <1>3, <1>2

\* The function FlattenSeq is built from.
Flat(s, f, n) == f = [i \in 1 .. n |-> IF i = 1 THEN s[i] ELSE f[i - 1] \o s[i]]

LEMMA FlatExists ==
  ASSUME NEW s
  PROVE  \A n \in Nat : \E f : Flat(s, f, n)
<1> DEFINE T == {n \in Nat : \E f : Flat(s, f, n)}
<1>1. 0 \in T
  <2>1. [i \in 1 .. 0 |-> s] = [i \in 1 .. 0 |-> IF i = 1 THEN s[i] ELSE [k \in 1 .. 0 |-> s][i - 1] \o s[i]]
    OBVIOUS
  <2>2. Flat(s, [i \in 1 .. 0 |-> s], 0)
    BY <2>1 DEF Flat
  <2>3. QED
    BY <2>2
<1>2. ASSUME NEW n \in T PROVE n + 1 \in T
  <2>1. PICK f : Flat(s, f, n)
    OBVIOUS
  <2> DEFINE last == IF n + 1 = 1 THEN s[n + 1] ELSE f[n] \o s[n + 1]
             g == [i \in 1 .. n + 1 |-> IF i = n + 1 THEN last ELSE f[i]]
  <2>2. n \in Nat
    OBVIOUS
  <2> HIDE DEF T
  <2>3. \A i \in 1 .. n : f[i] = IF i = 1 THEN s[i] ELSE f[i - 1] \o s[i]
    BY <2>1 DEF Flat
  <2>4. \A i \in 1 .. n + 1 : g[i] = IF i = n + 1 THEN last ELSE f[i]
    BY <2>2
  <2>5. n + 1 = 1 \/ (g[n + 1 - 1] = f[n] /\ n + 1 - 1 = n)
    BY <2>2
  <2> DEFINE h(i) == IF i = 1 THEN s[i] ELSE g[i - 1] \o s[i]
  <2>6. ASSUME NEW i \in 1 .. n + 1 PROVE g[i] = h(i)
    <3>1. CASE i = n + 1
      <4>1. g[i] = last /\ i - 1 = n
        BY <3>1, <2>2, <2>4
      <4>2. CASE i = 1
        BY <3>1, <4>1, <4>2
      <4>3. CASE i # 1
        <5>1. n \in 1 .. n + 1 /\ n # n + 1
          BY <2>2, <3>1, <4>3
        <5>2. g[n] = f[n]
          BY <2>4, <5>1
        <5> HIDE DEF g
        <5>3. QED
          BY <3>1, <4>1, <4>3, <5>2
      <4>4. QED
        BY <4>2, <4>3
    <3>2. CASE i # n + 1
      <4>1. i \in 1 .. n
        BY <2>2, <3>2
      <4>2. g[i] = f[i] /\ (i # 1 => g[i - 1] = f[i - 1])
        <5>1. i # 1 => i - 1 \in 1 .. n + 1 /\ i - 1 # n + 1
          BY <2>2, <4>1
        <5> HIDE DEF g, last
        <5>2. QED
          BY <2>4, <3>2, <5>1
      <4> HIDE DEF g
      <4>3. QED
        BY <2>3, <4>1, <4>2
    <3>3. QED
      BY <3>1, <3>2
  <2>7. g = [i \in 1 .. n + 1 |-> h(i)]
    <3>1. g = [i \in 1 .. n + 1 |-> g[i]]
      OBVIOUS
    <3> HIDE DEF g, h
    <3>2. QED
      BY <2>6, <3>1
  <2>8. Flat(s, g, n + 1)
    <3> HIDE DEF g
    <3>1. QED
      BY <2>7 DEF Flat
  <2>9. QED
    BY <2>2, <2>8 DEF T
<1>3. T = Nat
  <2>1. T \subseteq Nat
    OBVIOUS
  <2> HIDE DEF T
  <2>2. QED
    BY <1>1, <1>2, <2>1, Induct
<1>4. QED
  BY <1>3

LEMMA FlattenIsFlat ==
  ASSUME NEW s, Len(s) \in Nat \ {0}
  PROVE  \E f : Flat(s, f, Len(s)) /\ FlattenSeq(s) = f[Len(s)]
<1> DEFINE f == CHOOSE f : f = [i \in 1 .. Len(s) |-> IF i = 1 THEN s[i] ELSE f[i - 1] \o s[i]]
<1>1. \E g : Flat(s, g, Len(s))
  BY FlatExists
<1>2. Flat(s, f, Len(s))
  BY <1>1 DEF Flat
<1>3. FlattenSeq(s) = f[Len(s)]
  BY DEF FlattenSeq
<1>4. QED
  BY <1>2, <1>3

In(x, t) == \E a \in 1 .. Len(t) : t[a] = x

\* What FlattenSeq gives: every element of every sequence, and none before one
\* of an earlier sequence.
Gathers(s, n, t, S) ==
  /\ t \in Seq(S)
  /\ \A i \in 1 .. n : \A k \in 1 .. Len(s[i]) : In(s[i][k], t)
  /\ \A a \in 1 .. Len(t) : \E i \in 1 .. n : In(t[a], s[i])
  /\ \A a, b \in 1 .. Len(t) :
       a < b => \E i, j \in 1 .. n : i <= j /\ In(t[a], s[i]) /\ In(t[b], s[j])

LEMMA GathersOneMore ==
  ASSUME NEW S, NEW n \in Nat, NEW s, s[n + 1] \in Seq(S), NEW t, Gathers(s, n, t, S)
  PROVE  Gathers(s, n + 1, t \o s[n + 1], S)
<1> DEFINE u == s[n + 1]
           r == t \o u
<1>1. /\ t \in Seq(S) /\ u \in Seq(S) /\ Len(t) \in Nat /\ Len(u) \in Nat
      /\ r \in Seq(S) /\ Len(r) = Len(t) + Len(u)
  BY DEF Gathers
<1>2. \A a \in 1 .. Len(r) : r[a] = IF a <= Len(t) THEN t[a] ELSE u[a - Len(t)]
  BY <1>1
<1>3. /\ \A i \in 1 .. n : \A k \in 1 .. Len(s[i]) : In(s[i][k], t)
      /\ \A a \in 1 .. Len(t) : \E i \in 1 .. n : In(t[a], s[i])
      /\ \A a, b \in 1 .. Len(t) :
           a < b => \E i, j \in 1 .. n : i <= j /\ In(t[a], s[i]) /\ In(t[b], s[j])
  BY DEF Gathers
<1> HIDE DEF r
<1> DEFINE l == Len(t)
           m == Len(u)
<1>4. l \in Nat /\ m \in Nat /\ Len(r) = l + m
  BY <1>1
<1>5. ASSUME NEW a \in 1 .. Len(r), ~(a <= l)
      PROVE  In(r[a], s[n + 1])
  <2> HIDE DEF l, m
  <2>1. a - l \in 1 .. m
    BY <1>4, <1>5
  <2>2. r[a] = s[n + 1][a - l]
    BY <1>2, <1>5 DEF l
  <2>3. QED
    BY <2>1, <2>2 DEF m, In
<1>6. ASSUME NEW a \in 1 .. Len(r), a <= l
      PROVE  a \in 1 .. Len(t) /\ r[a] = t[a]
  BY <1>2, <1>4, <1>6
<1>7. \A i \in 1 .. n : i \in 1 .. n + 1 /\ i <= n + 1
  OBVIOUS
<1>8. n + 1 \in 1 .. n + 1 /\ n + 1 <= n + 1
  OBVIOUS
<1>9. ASSUME NEW i \in 1 .. n + 1, NEW k \in 1 .. Len(s[i])
      PROVE  In(s[i][k], r)
  <2>1. CASE i \in 1 .. n
    <3>1. PICK a \in 1 .. Len(t) : t[a] = s[i][k]
      BY <1>3, <2>1 DEF In
    <3> HIDE DEF l, m
    <3>2. a \in 1 .. Len(r) /\ a <= l
      BY <1>4 DEF l
    <3>3. QED
      BY <1>2, <3>1, <3>2 DEF l, In
  <2>2. CASE i \notin 1 .. n
    <3>1. i = n + 1
      BY <2>2
    <3>2. k \in 1 .. m
      BY <3>1
    <3> HIDE DEF l, m
    <3>3. l + k \in 1 .. Len(r) /\ ~(l + k <= l) /\ (l + k) - l = k
      BY <1>4, <3>2
    <3>4. r[l + k] = u[k]
      BY <1>2, <3>3 DEF l
    <3>5. QED
      BY <3>1, <3>3, <3>4 DEF In
  <2>3. QED
    BY <2>1, <2>2
<1>10. ASSUME NEW a \in 1 .. Len(r)
       PROVE  \E i \in 1 .. n + 1 : In(r[a], s[i])
  <2> HIDE DEF l, m
  <2>1. CASE a <= l
    BY <1>3, <1>6, <1>7, <2>1
  <2>2. CASE ~(a <= l)
    BY <1>5, <1>8, <2>2
  <2>3. QED
    BY <2>1, <2>2
<1>11. ASSUME NEW a \in 1 .. Len(r), NEW b \in 1 .. Len(r), a < b
       PROVE  \E i, j \in 1 .. n + 1 : i <= j /\ In(r[a], s[i]) /\ In(r[b], s[j])
  <2> HIDE DEF l, m
  <2>1. CASE b <= l
    <3>1. a <= l
      BY <1>4, <1>11, <2>1
    <3>2. PICK i \in 1 .. n, j \in 1 .. n : i <= j /\ In(t[a], s[i]) /\ In(t[b], s[j])
      BY <1>3, <1>6, <1>11, <2>1, <3>1
    <3>3. QED
      BY <1>6, <1>7, <2>1, <3>1, <3>2
  <2>2. CASE ~(b <= l) /\ a <= l
    <3>1. PICK i \in 1 .. n : In(t[a], s[i])
      BY <1>3, <1>6, <2>2
    <3>2. In(r[b], s[n + 1]) /\ In(r[a], s[i])
      BY <1>5, <1>6, <2>2, <3>1
    <3>3. QED
      BY <1>7, <1>8, <3>2
  <2>3. CASE ~(b <= l) /\ ~(a <= l)
    <3>1. In(r[b], s[n + 1]) /\ In(r[a], s[n + 1])
      BY <1>5, <2>3
    <3>2. QED
      BY <1>8, <3>1
  <2>4. QED
    BY <2>1, <2>2, <2>3
<1>12. Gathers(s, n + 1, r, S)
  BY <1>1, <1>9, <1>10, <1>11 DEF Gathers
<1>13. QED
  BY <1>12 DEF r

LEMMA FlattenGathers ==
  ASSUME NEW S, NEW s \in Seq(Seq(S))
  PROVE  Gathers(s, Len(s), FlattenSeq(s), S)
<1> DEFINE l == Len(s)
<1>1. l \in Nat /\ \A i \in 1 .. l : s[i] \in Seq(S)
  OBVIOUS
<1>2. Gathers(s, 0, <<>>, S)
  <2>1. <<>> \in Seq(S) /\ Len(<<>>) = 0 /\ 1 .. 0 = {}
    OBVIOUS
  <2>2. QED
    BY <2>1 DEF Gathers
<1>3. CASE l = 0
  <2>1. s = <<>> /\ FlattenSeq(s) = s
    BY <1>3, EmptySeq DEF FlattenSeq
  <2>2. QED
    BY <1>2, <1>3, <2>1
<1>4. CASE l # 0
  <2>1. l \in Nat \ {0}
    BY <1>1, <1>4
  <2>2. PICK f : Flat(s, f, l) /\ FlattenSeq(s) = f[l]
    BY <2>1, FlattenIsFlat
  <2> HIDE DEF l
  <2>3. \A i \in 1 .. l : f[i] = IF i = 1 THEN s[i] ELSE f[i - 1] \o s[i]
    BY <2>2 DEF Flat
  <2> DEFINE T == {n \in Nat : n + 1 \in 1 .. l => Gathers(s, n + 1, f[n + 1], S)}
  <2>4. 0 \in T
    <3>1. ASSUME 1 \in 1 .. l PROVE Gathers(s, 1, f[1], S)
      <4>1. f[1] = s[1] /\ s[1] \in Seq(S)
        BY <1>1, <2>3, <3>1
      <4>2. <<>> \o s[1] = s[1]
        BY <4>1
      <4>3. 0 \in Nat /\ 0 + 1 = 1
        OBVIOUS
      <4>4. Gathers(s, 0 + 1, <<>> \o s[0 + 1], S)
        BY <1>2, <4>1, <4>3, GathersOneMore
      <4>5. QED
        BY <4>1, <4>2, <4>3, <4>4
    <3>2. QED
      BY <3>1
  <2>5. ASSUME NEW n \in T PROVE n + 1 \in T
    <3>1. n \in Nat /\ n + 1 \in Nat
      OBVIOUS
    <3>2. ASSUME (n + 1) + 1 \in 1 .. l PROVE Gathers(s, (n + 1) + 1, f[(n + 1) + 1], S)
      <4>1. n + 1 \in 1 .. l /\ (n + 1) + 1 # 1 /\ ((n + 1) + 1) - 1 = n + 1
        BY <2>1, <3>1, <3>2
      <4>2. Gathers(s, n + 1, f[n + 1], S)
        BY <4>1
      <4>3. f[(n + 1) + 1] = f[n + 1] \o s[(n + 1) + 1]
        BY <2>3, <3>2, <4>1
      <4>4. s[(n + 1) + 1] \in Seq(S)
        BY <1>1, <3>2
      <4> HIDE DEF T
      <4>5. QED
        BY <3>1, <4>2, <4>3, <4>4, GathersOneMore
    <3> HIDE DEF T
    <3>3. QED
      BY <3>1, <3>2 DEF T
  <2>6. T = Nat
    <3>1. T \subseteq Nat
      OBVIOUS
    <3> HIDE DEF T
    <3>2. QED
      BY <2>4, <2>5, <3>1, Induct
  <2>7. l - 1 \in Nat /\ (l - 1) + 1 = l /\ l \in 1 .. l
    BY <2>1
  <2>8. Gathers(s, l, f[l], S)
    <3>1. l - 1 \in T
      BY <2>6, <2>7
    <3>2. (l - 1) + 1 \in 1 .. l => Gathers(s, (l - 1) + 1, f[(l - 1) + 1], S)
      BY <3>1
    <3>3. QED
      BY <2>7, <3>2
  <2>9. QED
    BY <2>2, <2>8 DEF l
<1>5. QED
  BY <1>3, <1>4
-----------------------------------------------------------------------------
(* Type correctness, whoever gives which commands at the same time.        *)

LEMMA TimesType ==
  ASSUME mounts \in Seq(Point), NEW p
  PROVE  Times(p) \in Nat /\ (IsMounted(p) => Times(p) # 0)
<1> DEFINE at == {i \in DOMAIN mounts : mounts[i] = p}
<1>1. IsFiniteSet(at)
  <2>1. IsFiniteSet(1 .. Len(mounts)) /\ at \subseteq 1 .. Len(mounts)
    BY FS_Interval
  <2>2. QED
    BY <2>1, FS_Subset
<1>2. Cardinality(at) \in Nat /\ (Cardinality(at) = 0 <=> at = {})
  BY <1>1, FS_CardinalityType, FS_EmptySet
<1>3. IsMounted(p) => at # {}
  BY DEF IsMounted
<1>4. QED
  BY <1>2, <1>3 DEF Times

LEMMA PointLists == MountOrder \in Seq(Point) /\ ReverseSorted \in Seq(Point)
<1>1. \A i \in 1 .. Len(MountOrder) : MountOrder[i] \in Point
  BY ContainerAssumption DEF Point, ToSet
<1>2. \A i \in 1 .. Len(ReverseSorted) : ReverseSorted[i] \in Point
  <2>1. \A i \in 1 .. Len(ReverseSorted) : ReverseSorted[i] \in ToSet(ReverseSorted)
    BY ContainerAssumption DEF ToSet
  <2>2. QED
    BY <2>1, ContainerAssumption
<1>3. ASSUME NEW S, NEW s \in Seq(S), \A i \in 1 .. Len(s) : s[i] \in Point
      PROVE  s \in Seq(Point)
  <2>1. s \in [1 .. Len(s) -> Point] /\ Len(s) \in Nat
    BY <1>3
  <2>2. QED
    BY <2>1, SeqDef
<1>4. MountOrder \in Seq(Seq(STRING)) /\ ReverseSorted \in Seq(Seq(STRING))
  BY ContainerAssumption
<1>5. QED
  BY <1>1, <1>2, <1>3, <1>4

\* The lines of a list: each point of it that is mounted, in its order.
LEMMA ListingGives ==
  ASSUME mounts \in Seq(Point), NEW list \in Seq(Point)
  PROVE  /\ Listing(list) \in Seq(Point)
         /\ \A i \in 1 .. Len(list) : IsMounted(list[i]) => In(list[i], Listing(list))
         /\ \A a \in 1 .. Len(Listing(list)) : \E i \in 1 .. Len(list) : Listing(list)[a] = list[i]
         /\ \A a, b \in 1 .. Len(Listing(list)) :
              a < b => \E i, j \in 1 .. Len(list) :
                         i <= j /\ Listing(list)[a] = list[i] /\ Listing(list)[b] = list[j]
<1> DEFINE lines(i) == [k \in 1 .. Times(list[i]) |-> list[i]]
           s == [i \in DOMAIN list |-> lines(i)]
           t == Listing(list)
<1>1. t = FlattenSeq(s)
  BY DEF Listing
<1>2. ASSUME NEW i \in 1 .. Len(list)
      PROVE  /\ lines(i) \in Seq(Point) /\ Len(lines(i)) = Times(list[i])
             /\ \A k \in 1 .. Len(lines(i)) : lines(i)[k] = list[i]
             /\ IsMounted(list[i]) => 1 \in 1 .. Len(lines(i))
  <2>1. Times(list[i]) \in Nat /\ list[i] \in Point /\ (IsMounted(list[i]) => Times(list[i]) # 0)
    BY TimesType
  <2>2. QED
    BY <2>1
<1>3. DOMAIN list = 1 .. Len(list) /\ Len(list) \in Nat
  OBVIOUS
<1> HIDE DEF lines, t
<1>4. \A i \in 1 .. Len(list) : s[i] = lines(i)
  BY <1>3
<1>5. s \in Seq(Seq(Point)) /\ Len(s) = Len(list)
  BY <1>2, <1>3
<1> HIDE DEF s
<1>6. Gathers(s, Len(s), t, Point)
  BY <1>1, <1>5, FlattenGathers
<1>7. \A i \in 1 .. Len(list) : \A x : In(x, s[i]) => x = list[i]
  BY <1>2, <1>4 DEF In
<1>8. ASSUME NEW i \in 1 .. Len(list), IsMounted(list[i]) PROVE In(list[i], t)
  <2>1. 1 \in 1 .. Len(s[i]) /\ s[i][1] = list[i]
    BY <1>2, <1>4, <1>8
  <2>2. QED
    BY <1>5, <1>6, <2>1 DEF Gathers
<1>9. ASSUME NEW a \in 1 .. Len(t) PROVE \E i \in 1 .. Len(list) : t[a] = list[i]
  <2>1. PICK i \in 1 .. Len(list) : In(t[a], s[i])
    BY <1>5, <1>6, <1>9 DEF Gathers
  <2>2. QED
    BY <1>7, <2>1
<1>10. ASSUME NEW a \in 1 .. Len(t), NEW b \in 1 .. Len(t), a < b
       PROVE  \E i, j \in 1 .. Len(list) : i <= j /\ t[a] = list[i] /\ t[b] = list[j]
  <2>1. PICK i \in 1 .. Len(list), j \in 1 .. Len(list) : i <= j /\ In(t[a], s[i]) /\ In(t[b], s[j])
    BY <1>5, <1>6, <1>10 DEF Gathers
  <2>2. QED
    BY <1>7, <2>1
<1>11. QED
  BY <1>6, <1>8, <1>9, <1>10 DEF Gathers, t

Pcs == {"idle", "check", "e2fsck", "mount", "mounting", "ready", "exec", "inside", "release",
        "list", "umount", "list root", "umount root"}

JobType ==
  [pc : Pcs, cmd : Command, left : Seq(Point), tries : 0 .. 2]

\* A job that mounts has a point to mount.
JobsOK(js) ==
  /\ js \in [Job -> JobType]
  /\ \A j \in Job : js[j].pc \in {"mount", "mounting"} => js[j].left # <<>>

TypeInv ==
  /\ mounts \in Seq(Point)
  /\ procs \subseteq [who : Job \cup {"service"}, root : Nat]
  /\ JobsOK(jobs)
  /\ failures \in 0 .. MaxFailures
  /\ failed \subseteq Point /\ hindered \subseteq Job

LEMMA BecomesOK ==
  ASSUME JobsOK(jobs), NEW j \in Job, NEW pc \in Pcs, NEW left \in Seq(Point), NEW tries \in 0 .. 2,
         pc \in {"mount", "mounting"} => left # <<>>, Becomes(j, pc, left, tries)
  PROVE  JobsOK(jobs')
BY DEF JobsOK, JobType, Becomes

LEMMA IdleOK ==
  /\ Idle \in JobType /\ Idle.pc = "idle"
  /\ \A cmd \in Command, pc \in Pcs : New(cmd, pc) \in JobType /\ New(cmd, pc).pc = pc
<1>1. <<>> \in Seq(Point) /\ 0 \in 0 .. 2
  OBVIOUS
<1>2. QED
  BY <1>1 DEF Idle, New, JobType, Pcs, Command

LEMMA ExitOK ==
  ASSUME JobsOK(jobs), NEW j \in Job, Exit(j)
  PROVE  JobsOK(jobs')
BY IdleOK DEF JobsOK, Exit

LEMMA NextPartOK ==
  ASSUME JobsOK(jobs), NEW j \in Job, jobs[j].pc \in {"mount", "mounting"}, NextPart(j)
  PROVE  JobsOK(jobs')
<1> DEFINE left == jobs[j].left
           pc == IF Len(left) = 1 THEN "ready" ELSE "mount"
<1>1. left \in Seq(Point) /\ left # <<>> /\ Len(left) \in Nat
  BY DEF JobsOK, JobType
<1>2. Tail(left) \in Seq(Point) /\ Len(Tail(left)) = Len(left) - 1
  BY <1>1, HeadTailProperties
<1>3. Len(left) # 1 => Tail(left) # <<>>
  <2>1. Len(left) # 1 => Len(Tail(left)) # 0
    BY <1>1, <1>2
  <2>2. QED
    BY <2>1
<1>4. pc \in Pcs /\ 0 \in 0 .. 2 /\ (pc \in {"mount", "mounting"} => Tail(left) # <<>>)
  BY <1>3 DEF Pcs
<1>5. Becomes(j, pc, Tail(left), 0)
  BY DEF NextPart
<1> HIDE DEF pc, left
<1>6. QED
  BY <1>2, <1>4, <1>5, BecomesOK

LEMMA GotoOK ==
  ASSUME JobsOK(jobs), NEW j \in Job, NEW pc \in Pcs, Goto(j, pc),
         pc \in {"mount", "mounting"} => jobs[j].left # <<>>
  PROVE  JobsOK(jobs')
<1>1. jobs[j].left \in Seq(Point) /\ jobs[j].tries \in 0 .. 2
  BY DEF JobsOK, JobType
<1>2. QED
  BY <1>1, BecomesOK DEF Goto

LEMMA ToMountOK ==
  ASSUME JobsOK(jobs), NEW j \in Job, ToMount(j)
  PROVE  JobsOK(jobs')
<1>1. MountOrder \in Seq(Point) /\ MountOrder # <<>>
  BY PointLists, ContainerAssumption
<1>2. "mount" \in Pcs /\ 0 \in 0 .. 2
  BY DEF Pcs
<1>3. QED
  BY <1>1, <1>2, BecomesOK DEF ToMount

\* What a job starts its next list with.
LEMMA Nothing == <<>> \in Seq(Point) /\ 0 \in 0 .. 2 /\ Len(<<>>) = 0 /\ ~(0 > 1)
  OBVIOUS

LEMMA NextUmountOK ==
  ASSUME JobsOK(jobs), NEW j \in Job, jobs[j].pc = "umount" \/ jobs[j].pc = "umount root",
         NextUmount(j)
  PROVE  JobsOK(jobs')
<1> DEFINE left == jobs[j].left
<1>1. left \in Seq(Point)
  BY DEF JobsOK, JobType
<1>2. CASE Len(left) > 1
  <2>1. left # <<>>
    <3> HIDE DEF left
    <3>1. QED
      BY <1>2, Nothing, Zenon
  <2>2. Tail(left) \in Seq(Point)
    <3> HIDE DEF left
    <3>1. QED
      BY <1>1, <2>1, HeadTailProperties
  <2>3. jobs[j].pc \in Pcs /\ jobs[j].pc \notin {"mount", "mounting"}
    BY DEF Pcs
  <2>4. Becomes(j, jobs[j].pc, Tail(jobs[j].left), 0)
    BY <1>2 DEF NextUmount
  <2>5. QED
    BY <2>2, <2>3, <2>4, Nothing, BecomesOK
<1>3. CASE ~(Len(left) > 1)
  <2>1. Exit(j) \/ Becomes(j, "list root", <<>>, 0)
    <3>1. AfterParts(j) \in {"list root", "idle"}
      BY DEF AfterParts
    <3>2. NextUmount(j) <=> IF AfterParts(j) = "idle" THEN Exit(j) ELSE Becomes(j, AfterParts(j), <<>>, 0)
      BY <1>3 DEF NextUmount
    <3>3. QED
      BY <3>1, <3>2
  <2>2. "list root" \in Pcs
    BY DEF Pcs
  <2>3. QED
    BY <2>1, <2>2, Nothing, ExitOK, BecomesOK
<1>4. QED
  BY <1>2, <1>3

LEMMA ListPartsOK ==
  ASSUME JobsOK(jobs), mounts \in Seq(Point), NEW j \in Job, ListParts(j)
  PROVE  JobsOK(jobs')
<1> DEFINE parts == Listing(IF jobs[j].pc = "list" THEN ReverseSorted ELSE <<Root>>)
<1>1. parts \in Seq(Point)
  <2>1. ReverseSorted \in Seq(Point) /\ <<Root>> \in Seq(Point)
    BY PointLists, RootIsPoint
  <2>2. QED
    BY <2>1, ListingGives
<1>2. \/ Exit(j)
      \/ \E pc \in {"list root", "umount", "umount root"} : Becomes(j, pc, parts, 0)
  BY DEF ListParts, AfterParts
<1> HIDE DEF parts
<1>3. \A pc \in {"list root", "umount", "umount root"} :
        pc \in Pcs /\ pc \notin {"mount", "mounting"}
  BY DEF Pcs
<1>4. 0 \in 0 .. 2
  OBVIOUS
<1>5. QED
  BY <1>1, <1>2, <1>3, <1>4, ExitOK, BecomesOK

\* The processes inside when one comes in.
LEMMA EnteringType ==
  ASSUME mounts \in Seq(Point), NEW who \in Job \cup {"service"}
  PROVE  Entering(who) \in [who : Job \cup {"service"}, root : Nat]
<1>1. Times(Root) \in Nat
  BY TimesType
<1>2. QED
  BY <1>1 DEF Entering

LEMMA StepTypes ==
  ASSUME TypeInv, NEW j \in Job, Step(j)
  PROVE  TypeInv'
<1>1. /\ mounts \in Seq(Point) /\ procs \subseteq [who : Job \cup {"service"}, root : Nat]
      /\ JobsOK(jobs) /\ failures \in 0 .. MaxFailures
  BY DEF TypeInv
<1>2. MaxFailures \in Nat
  BY ContainerAssumption
<1>3. jobs[j].pc \in {"mount", "mounting"} => jobs[j].left # <<>> /\ jobs[j].left \in Seq(Point)
  BY <1>1 DEF JobsOK, JobType
<1>4. Pcs = {"idle", "check", "e2fsck", "mount", "mounting", "ready", "exec", "inside", "release",
             "list", "umount", "list root", "umount root"}
  BY DEF Pcs
<1>5. ASSUME JobsOK(jobs'), UNCHANGED <<mounts, procs, failures, failed>>,
             hindered' \subseteq hindered \cup Job
      PROVE  TypeInv'
  BY <1>1, <1>5 DEF TypeInv
<1>6. CASE CheckFs(j) \/ FsChecked(j) \/ CheckMounted(j) \/ CheckReady(j)
  <2>1. ToMount(j) \/ (\E pc \in {"e2fsck", "exec"} : Goto(j, pc)) \/ Exit(j)
        \/ (jobs[j].pc = "mount" /\ (NextPart(j) \/ Goto(j, "mounting")))
    BY <1>6 DEF CheckFs, FsChecked, CheckMounted, CheckReady
  <2>2. JobsOK(jobs')
    <3>1. CASE \E pc \in {"e2fsck", "exec"} : Goto(j, pc)
      BY <1>1, <1>4, <3>1, GotoOK
    <3>2. CASE jobs[j].pc = "mount" /\ Goto(j, "mounting")
      BY <1>1, <1>3, <1>4, <3>2, GotoOK
    <3>3. QED
      BY <1>1, <2>1, <3>1, <3>2, ToMountOK, ExitOK, NextPartOK
  <2>3. QED
    BY <1>5, <1>6, <2>2 DEF CheckFs, FsChecked, CheckMounted, CheckReady, history
<1>7. CASE MountPart(j)
  <2>1. JobsOK(jobs')
    BY <1>1, <1>7, NextPartOK DEF MountPart
  <2>2. mounts' \in Seq(Point)
    <3>1. mounts' = Append(mounts, Head(jobs[j].left)) /\ jobs[j].pc = "mounting"
      BY <1>7 DEF MountPart
    <3>2. Head(jobs[j].left) \in Point
      BY <1>3, <3>1, HeadTailProperties
    <3>3. QED
      BY <1>1, <3>1, <3>2, AppendProperties
  <2>3. QED
    BY <1>1, <1>7, <2>1, <2>2 DEF MountPart, Hinder, TypeInv
<1>8. CASE MountFails(j)
  <2>1. JobsOK(jobs')
    BY <1>1, <1>8, NextPartOK, ExitOK DEF MountFails
  <2>2. failures' \in 0 .. MaxFailures
    BY <1>1, <1>2, <1>8 DEF MountFails
  <2>3. failed' \subseteq Point
    <3>1. Head(jobs[j].left) \in Point
      BY <1>3, <1>8, HeadTailProperties DEF MountFails
    <3>2. QED
      BY <1>8, <3>1 DEF MountFails, TypeInv
  <2>4. QED
    BY <1>1, <1>8, <2>1, <2>2, <2>3 DEF MountFails, TypeInv
<1>9. CASE ExecStart(j)
  <2>1. JobsOK(jobs')
    BY <1>1, <1>9, ExitOK DEF ExecStart
  <2>2. procs' \subseteq procs \cup {Entering("service")} /\ hindered' \subseteq hindered \cup Job
    BY <1>9 DEF ExecStart, Enter, Hinder
  <2>3. Entering("service") \in [who : Job \cup {"service"}, root : Nat]
    BY <1>1, EnteringType
  <2>4. QED
    BY <1>1, <1>9, <2>1, <2>2, <2>3 DEF ExecStart, TypeInv
<1>10. CASE EnterNet(j)
  <2>1. JobsOK(jobs')
    BY <1>1, <1>4, <1>10, ExitOK, GotoOK DEF EnterNet
  <2>2. procs' \subseteq procs \cup {Entering(j)} /\ hindered' \subseteq hindered \cup Job
    BY <1>10 DEF EnterNet, Enter, Hinder
  <2>3. Entering(j) \in [who : Job \cup {"service"}, root : Nat]
    BY <1>1, EnteringType
  <2>4. QED
    BY <1>1, <1>10, <2>1, <2>2, <2>3 DEF EnterNet, TypeInv
<1>11. CASE ExecStop(j) \/ LeaveNet(j) \/ Release(j)
  <2>1. Exit(j) \/ \E pc \in {"release", "list"} : Goto(j, pc)
    BY <1>11 DEF ExecStop, LeaveNet, Release
  <2>2. JobsOK(jobs')
    BY <1>1, <1>4, <2>1, ExitOK, GotoOK
  <2>3. procs' \subseteq procs /\ UNCHANGED <<mounts, failures, failed, hindered>>
    BY <1>11 DEF ExecStop, LeaveNet, Release, Services, history
  <2>4. QED
    BY <1>1, <2>2, <2>3 DEF TypeInv
<1>12. CASE ListParts(j)
  BY <1>1, <1>5, <1>12, ListPartsOK DEF ListParts
<1>13. CASE UmountPart(j)
  <2>1. JobsOK(jobs')
    BY <1>1, <1>13, NextUmountOK DEF UmountPart
  <2>2. mounts' \in Seq(Point)
    <3>1. PICK i \in Reached(Head(jobs[j].left)) : mounts' = RemoveAt(mounts, i)
      BY <1>13, Zenon DEF UmountPart
    <3>2. i \in 1 .. Len(mounts)
      BY <1>1 DEF Reached
    <3>3. QED
      BY <1>1, <3>1, <3>2, Removed
  <2>3. QED
    BY <1>1, <1>13, <2>1, <2>2 DEF UmountPart, TypeInv
<1>14. CASE UmountFails(j)
  <2>1. jobs[j].pc \in {"umount", "umount root"}
    BY <1>14 DEF UmountFails, UmountFailing
  <2>2. \/ NextUmount(j)
        \/ jobs[j].tries # 2 /\ Becomes(j, jobs[j].pc, jobs[j].left, jobs[j].tries + 1)
    BY <1>14 DEF UmountFails
  <2>3. jobs[j].tries # 2 => jobs[j].tries + 1 \in 0 .. 2
    BY <1>1 DEF JobsOK, JobType
  <2>4. jobs[j].left \in Seq(Point) /\ jobs[j].pc \in Pcs
    BY <1>1 DEF JobsOK, JobType
  <2>5. JobsOK(jobs')
    <3>1. CASE NextUmount(j)
      BY <1>1, <2>1, <3>1, NextUmountOK
    <3>2. CASE jobs[j].tries # 2 /\ Becomes(j, jobs[j].pc, jobs[j].left, jobs[j].tries + 1)
      BY <1>1, <2>1, <2>3, <2>4, <3>2, BecomesOK
    <3>3. QED
      BY <2>2, <3>1, <3>2
  <2>6. QED
    BY <1>5, <1>14, <2>5 DEF UmountFails, history
<1>15. QED
  BY <1>6, <1>7, <1>8, <1>9, <1>10, <1>11, <1>12, <1>13, <1>14 DEF Step

LEMMA TypeInvNext == TypeInv /\ [Next]_vars => TypeInv'
<1> SUFFICES ASSUME TypeInv, [Next]_vars PROVE TypeInv'
  OBVIOUS
<1>1. ASSUME NEW j \in Job, NEW cmd \in Command, Begin(j, cmd) PROVE TypeInv'
  <2> DEFINE job == New(cmd, IF cmd = "start -m" THEN "check" ELSE "ready")
  <2>1. job \in JobType /\ job.pc \notin {"mount", "mounting"}
    BY IdleOK DEF Pcs
  <2>2. jobs' = [jobs EXCEPT ![j] = job]
    BY <1>1 DEF Begin
  <2> HIDE DEF job
  <2>3. JobsOK(jobs')
    BY <2>1, <2>2 DEF TypeInv, JobsOK
  <2>4. QED
    BY <1>1, <2>3 DEF Begin, TypeInv
<1>2. CASE UNCHANGED vars
  BY <1>2 DEF vars, history, TypeInv
<1>3. QED
  BY <1>1, <1>2, StepTypes DEF Next

\* How many commands were given, and whether two of them have overlapped.
GivenOK == commands \in 0 .. MaxCommands /\ overlapped \in BOOLEAN

\* Only a new command changes it (ExecService.onHandleWork).
LEMMA StepGiven == \A j \in Job : Step(j) => UNCHANGED given
  BY DEF Step, CheckFs, FsChecked, CheckMounted, MountPart, MountFails, CheckReady, ExecStart,
         ExecStop, EnterNet, LeaveNet, Release, ListParts, UmountPart, UmountFails

LEMMA GivenNext == GivenOK /\ [Next]_vars => GivenOK'
<1> SUFFICES ASSUME GivenOK, [Next]_vars PROVE GivenOK'
  OBVIOUS
<1>1. ASSUME NEW j \in Job, NEW cmd, Begin(j, cmd) PROVE GivenOK'
  <2>1. commands' \in 0 .. MaxCommands
    <3>1. commands \in 0 .. MaxCommands /\ commands < MaxCommands /\ commands' = commands + 1
      BY <1>1 DEF GivenOK, Begin
    <3>2. MaxCommands \in Nat
      BY ContainerAssumption
    <3>3. QED
      BY <3>1, <3>2
  <2>2. overlapped' \in BOOLEAN
    BY <1>1, Zenon DEF Begin
  <2>3. QED
    BY <2>1, <2>2 DEF GivenOK
<1>2. CASE UNCHANGED given
  BY <1>2 DEF given, GivenOK
<1>3. QED
  BY <1>1, <1>2, StepGiven DEF Next, vars

\* Every variable keeps its type, whichever commands run at the same time.
THEOREM TypeCorrect == Spec => []TypeOK
<1>1. Init => TypeInv /\ GivenOK
  <2>1. Init => TypeInv
    BY IdleOK, ContainerAssumption DEF Init, JobsOK, TypeInv
  <2>2. Init => GivenOK
    <3>1. Init => overlapped \in BOOLEAN
      BY Zenon DEF Init
    <3>2. MaxCommands \in Nat
      BY ContainerAssumption
    <3>3. Init => commands \in 0 .. MaxCommands
      BY <3>2 DEF Init
    <3>4. QED
      BY <3>1, <3>3 DEF GivenOK
  <2>3. QED
    BY <2>1, <2>2
<1>2. TypeInv /\ GivenOK => TypeOK
  BY DEF TypeInv, GivenOK, TypeOK, JobsOK, JobType, Pcs
<1>3. QED
  BY <1>1, TypeInvNext, GivenNext, <1>2, PTL DEF Spec

-----------------------------------------------------------------------------
(* The order of the mount table, until commands overlap.                   *)

LEMMA TypedRecords == JobsOK(jobs) => Records
<1> SUFFICES ASSUME JobsOK(jobs) PROVE Records
  OBVIOUS
<1>1. jobs \in [Job -> JobType]
  BY DEF JobsOK
<1>2. ASSUME NEW job \in JobType PROVE Record(job)
  BY DEF JobType, Record
<1>3. QED
  BY <1>1, <1>2 DEF Records

TableInv == TypeInv /\ Places /\ (overlapped \/ CliInv)

\* A command that mounts or unmounts beside another one is noted.
LEMMA NotOverlapped == ASSUME Records, Next, ~overlapped' PROVE OneAtATime
<1>1. ASSUME NEW j \in Job, jobs[j].pc = "idle", jobs'[j].pc # "idle",
             jobs'[j].cmd \in Mounting, NEW k \in Job, Active(k)
      PROVE  FALSE
  <2>1. PICK i \in Job, cmd \in Command : Begin(i, cmd)
    <3>1. ASSUME NEW i \in Job, Step(i) PROVE FALSE
      <4>1. Others(i) /\ (jobs'[i].pc # "idle" => jobs[i].pc # "idle")
        BY <3>1, StepJob
      <4>2. QED
        BY <1>1, <4>1 DEF Others
    <3>2. QED
      BY <3>1 DEF Next
  <2>2. Others(i) /\ jobs'[i].cmd = cmd
    BY <2>1, BeginJob
  <2>3. i = j
    BY <1>1, <2>2 DEF Others
  <2>4. cmd \in Mounting
    BY <1>1, <2>2, <2>3
  <2>5. overlapped'
    BY <1>1, <2>1, <2>4, Zenon DEF Begin
  <2>6. QED
    BY <2>5
<1>2. QED
  BY <1>1, Zenon DEF OneAtATime, Active

\* A command that is given when nothing is mounted and no other one mounts or
\* unmounts finds the table in order.
LEMMA BeginAgain ==
  ASSUME TableInv, overlapped, NEW j \in Job, NEW cmd, Begin(j, cmd), ~overlapped'
  PROVE  CliInv'
<1>1. Records /\ Places
  BY TypedRecords DEF TableInv, TypeInv
<1>2. mounts' = <<>> /\ \A k \in Job : ~Active(k)
  <2>1. \A k \in Job : ~Active(k)
    BY Zenon DEF Begin
  <2>2. mounts = <<>>
    BY <2>1, Zenon DEF Begin
  <2>3. QED
    BY <2>1, <2>2 DEF Begin
<1>3. Records' /\ Others(j) /\ jobs'[j].pc \in {"check", "ready"}
  BY <1>1, BeginJob
<1>4. Places'
  <2>1. /\ jobs'[j].cmd = cmd
        /\ jobs'[j].pc = IF cmd = "start -m" THEN "check" ELSE "ready"
    BY <1>1, BeginJob
  <2>2. QED
    BY <1>1, <1>3, <2>1 DEF Places, Others, StartPlaces, StopPlaces
<1>5. Alone'
  BY <1>2, <1>3 DEF Alone, Active, Others
<1>6. \A k \in Job : jobs'[k].pc \notin {"mount", "mounting"}
  BY <1>1, <1>2, <1>3 DEF Others, Places, StartPlaces, Active, Mounting
<1>7. MountsInOrder'
  BY <1>6 DEF MountsInOrder
<1>8. (Ordered /\ Closed)'
  BY <1>2 DEF Ordered, Closed, IsMounted
<1>9. QED
  BY <1>2, <1>3, <1>4, <1>5, <1>7, <1>8 DEF CliInv

LEMMA TableNext == TableInv /\ [Next]_vars => TableInv'
<1> SUFFICES ASSUME TableInv, [Next]_vars PROVE TableInv'
  OBVIOUS
<1>1. TypeInv' /\ Records
  BY TypeInvNext, TypedRecords DEF TableInv, TypeInv
<1>2. CASE UNCHANGED vars
  <2>1. UNCHANGED <<jobs, overlapped>>
    BY <1>2 DEF vars, given
  <2>2. Places'
    BY <2>1 DEF TableInv, Places
  <2>3. QED
    BY <1>1, <1>2, <2>1, <2>2, StutterCli DEF TableInv
<1>3. CASE Next
  <2>1. Places'
    BY <1>1, <1>3, NextPlaces DEF TableInv
  <2>2. ASSUME ~overlapped' PROVE CliInv'
    <3>1. CASE ~overlapped
      BY <1>1, <1>3, <2>2, <3>1, NotOverlapped, NextCli DEF TableInv
    <3>2. CASE overlapped
      <4>1. \A k \in Job : ~Step(k)
        BY <2>2, <3>2, StepGiven DEF given
      <4>2. QED
        BY <1>3, <2>2, <3>2, <4>1, BeginAgain DEF Next
    <3>3. QED
      BY <3>1, <3>2
  <2>3. QED
    BY <1>1, <2>1, <2>2 DEF TableInv
<1>4. QED
  BY <1>2, <1>3

LEMMA TableAlways == Spec => []TableInv
<1>1. Init => TableInv
  <2>1. Init => TypeInv
    BY IdleOK, ContainerAssumption DEF Init, JobsOK, TypeInv
  <2>2. QED
    BY <2>1, InitCli DEF TableInv, CliInv
<1>2. QED
  BY <1>1, TableNext, PTL DEF Spec

\* Nothing stays mounted without the root, whichever mounts fail, unless
\* commands that mount or unmount have overlapped (container_mount,
\* container_umount).
THEOREM NothingWithoutRoot == Spec => []PartsNeedRoot
<1>1. TableInv => PartsNeedRoot
  <2>1. SUFFICES ASSUME CliInv, mounts # <<>> PROVE IsMounted(Root)
    BY DEF TableInv, PartsNeedRoot
  <2>2. mounts \in Seq(Point) /\ Closed
    BY <2>1 DEF CliInv
  <2>3. 1 \in DOMAIN mounts /\ mounts[1] \in Point
    BY <2>1, <2>2
  <2>4. IsMounted(mounts[1])
    BY <2>3 DEF IsMounted
  <2>5. QED
    BY <2>2, <2>3, <2>4, RootIsPoint, BelowRoot DEF Closed, Firm
<1>2. QED
  BY <1>1, TableAlways, PTL

\* A mount that another one hides lies below a point whose mount has failed
\* since nothing was last mounted, unless commands that mount or unmount have
\* overlapped since (mount_part).
THEOREM NoMountHidden == Spec => []NothingHidden
<1>1. TableInv => NothingHidden
  <2>1. SUFFICES ASSUME CliInv, NEW p \in Point, \A q \in failed : ~Below(p, q)
                 PROVE  Times(p) = Cardinality(Reached(p))
    BY DEF TableInv, NothingHidden, Hidden
  <2>2. mounts \in Seq(Point) /\ Ordered /\ DOMAIN mounts = 1 .. Len(mounts)
        /\ Len(mounts) \in Nat
    BY <2>1 DEF CliInv
  <2>3. ASSUME NEW i \in 1 .. Len(mounts), mounts[i] = p, NEW k \in i + 1 .. Len(mounts)
        PROVE  mounts[k] # p /\ ~Below(p, mounts[k])
    <3>1. k \in 1 .. Len(mounts) /\ i < k
      BY <2>2
    <3>2. mounts[i] # mounts[k] /\ (Firm(mounts[k]) => ~Below(mounts[i], mounts[k]))
      BY <2>2, <3>1 DEF Ordered
    <3>3. ~Firm(mounts[k]) => ~Below(p, mounts[k])
      BY <2>1 DEF Firm
    <3>4. QED
      BY <2>3, <3>2, <3>3
  <2>4. {i \in DOMAIN mounts : mounts[i] = p} = Reached(p)
    BY <2>2, <2>3 DEF Reached
  <2>5. QED
    BY <2>4 DEF Times
<1>2. QED
  BY <1>1, TableAlways, PTL

-----------------------------------------------------------------------------
(* What a stop leaves mounted, whichever commands overlap.                 *)

PastKill == {"list", "umount", "list root", "umount root"}

\* Every line of a list is dealt with before the lines of the points above it.
BelowFirst(left) == \A a, b \in 1 .. Len(left) : a < b => ~Below(left[b], left[a])

\* Nothing is mounted over another mount.
Neat ==
  \A i, k \in 1 .. Len(mounts) :
    i < k => mounts[i] # mounts[k] /\ ~Below(mounts[i], mounts[k])

OnlyRoot == \A i \in 1 .. Len(mounts) : mounts[i] = Root

Listed(left) ==
  \A i \in 1 .. Len(mounts) :
    mounts[i] # Root => \E a \in 1 .. Len(left) : left[a] = mounts[i]

\* How far a job that unmounts is, unless another one has hindered it.
Unmounting(j) ==
  /\ jobs[j].pc \in PastKill /\ j \notin hindered => procs = {}
  /\ jobs[j].pc \in PastKill \ {"list"} /\ j \notin hindered => Neat
  /\ jobs[j].pc = "umount" =>
       /\ jobs[j].left # <<>> /\ BelowFirst(jobs[j].left)
       /\ \A a \in 1 .. Len(jobs[j].left) : jobs[j].left[a] # Root
       /\ j \notin hindered => Listed(jobs[j].left)
  /\ jobs[j].pc = "list root" /\ j \notin hindered => OnlyRoot
  /\ jobs[j].pc = "umount root" =>
       /\ jobs[j].left # <<>>
       /\ \A a \in 1 .. Len(jobs[j].left) : jobs[j].left[a] = Root
       /\ j \notin hindered => OnlyRoot

StopInv == TypeInv /\ \A j \in Job : Unmounting(j)

\* When no mount is hidden, none is mounted over another one.
LEMMA NothingOver == ASSUME mounts \in Seq(Point), Hidden = {} PROVE Neat
<1> SUFFICES ASSUME NEW i \in 1 .. Len(mounts), NEW k \in 1 .. Len(mounts), i < k
             PROVE  mounts[i] # mounts[k] /\ ~Below(mounts[i], mounts[k])
  BY DEF Neat
<1> DEFINE at == {m \in DOMAIN mounts : mounts[m] = mounts[i]}
<1>1. DOMAIN mounts = 1 .. Len(mounts) /\ Len(mounts) \in Nat /\ mounts[i] \in Point
  OBVIOUS
<1>2. IsFiniteSet(at)
  <2>1. IsFiniteSet(1 .. Len(mounts))
    BY <1>1, FS_Interval
  <2>2. QED
    BY <1>1, <2>1, FS_Subset
<1>3. Reached(mounts[i]) \subseteq at
  BY DEF Reached
<1>4. Cardinality(at) = Cardinality(Reached(mounts[i]))
  BY <1>1 DEF Hidden, Times
<1>5. at = Reached(mounts[i])
  BY <1>2, <1>3, <1>4, FS_Subset
<1>6. i \in Reached(mounts[i])
  BY <1>1, <1>5
<1>7. k \in i + 1 .. Len(mounts)
  BY <1>1
<1>8. QED
  BY <1>6, <1>7 DEF Reached

\* What umount leaves of the table: everything else, in its order.
LEMMA OneLess ==
  ASSUME mounts \in Seq(Point), NEW j \in Job, UmountPart(j)
  PROVE  /\ \E i \in 1 .. Len(mounts) :
              /\ mounts[i] = Head(jobs[j].left)
              /\ \A a \in 1 .. Len(mounts') :
                   \E m \in 1 .. Len(mounts) : m # i /\ mounts'[a] = mounts[m]
         /\ \A a, b \in 1 .. Len(mounts') :
              a < b => \E c, d \in 1 .. Len(mounts) :
                         c < d /\ mounts'[a] = mounts[c] /\ mounts'[b] = mounts[d]
<1>1. DOMAIN mounts = 1 .. Len(mounts) /\ Len(mounts) \in Nat
  OBVIOUS
<1>2. PICK i \in Reached(Head(jobs[j].left)) : mounts' = RemoveAt(mounts, i)
  BY Zenon DEF UmountPart
<1>3. i \in 1 .. Len(mounts) /\ mounts[i] = Head(jobs[j].left)
  BY <1>1, Zenon DEF Reached
<1>4. /\ Len(mounts') = Len(mounts) - 1
      /\ \A a \in 1 .. Len(mounts) - 1 :
           mounts'[a] = IF a < i THEN mounts[a] ELSE mounts[a + 1]
  BY <1>2, <1>3, Removed
<1> DEFINE At(a) == IF a < i THEN a ELSE a + 1
<1>5. ASSUME NEW a \in 1 .. Len(mounts')
      PROVE  At(a) \in 1 .. Len(mounts) /\ At(a) # i /\ mounts'[a] = mounts[At(a)]
  <2>1. a \in 1 .. Len(mounts) - 1
    BY <1>4
  <2>2. At(a) \in 1 .. Len(mounts) /\ At(a) # i
    BY <1>1, <1>3, <2>1
  <2>3. QED
    BY <1>4, <2>1, <2>2
<1>6. \A a, b \in 1 .. Len(mounts') : a < b => At(a) < At(b)
  BY <1>1, <1>3, <1>4
<1> HIDE DEF At
<1>7. QED
  BY <1>3, <1>5, <1>6

\* Nothing is mounted, and nothing comes over anything.
Unmounts ==
  /\ \A a \in 1 .. Len(mounts') : \E m \in 1 .. Len(mounts) : mounts'[a] = mounts[m]
  /\ Neat => Neat'

LEMMA UmountUnmounts ==
  ASSUME mounts \in Seq(Point), NEW j \in Job, UmountPart(j)
  PROVE  Unmounts
<1>1. \A a \in 1 .. Len(mounts') : \E m \in 1 .. Len(mounts) : mounts'[a] = mounts[m]
  BY OneLess
<1>2. Neat => Neat'
  BY OneLess DEF Neat
<1>3. QED
  BY <1>1, <1>2 DEF Unmounts

LEMMA SameUnmounts == UNCHANGED mounts => Unmounts
BY DEF Unmounts, Neat

\* What is known of a job that stays where it is.
LEMMA StillUnmounting ==
  ASSUME NEW k \in Job, Unmounting(k),
         jobs'[k].pc = jobs[k].pc, jobs'[k].left = jobs[k].left,
         k \notin hindered' =>
           /\ k \notin hindered /\ (procs = {} => procs' = {})
           /\ Unmounts \/ jobs[k].pc = "list"
  PROVE  Unmounting(k)'
<1>1. ASSUME Unmounts PROVE OnlyRoot => OnlyRoot'
  BY <1>1 DEF Unmounts, OnlyRoot
<1>2. ASSUME Unmounts, Listed(jobs[k].left) PROVE Listed(jobs[k].left)'
  <2>1. SUFFICES ASSUME NEW i \in 1 .. Len(mounts'), mounts'[i] # Root
                 PROVE  \E a \in 1 .. Len(jobs[k].left) : jobs[k].left[a] = mounts'[i]
    BY DEF Listed
  <2>2. PICK m \in 1 .. Len(mounts) : mounts'[i] = mounts[m]
    BY <1>2 DEF Unmounts
  <2>3. QED
    BY <1>2, <2>1, <2>2 DEF Listed
<1>3. k \notin hindered' /\ jobs[k].pc # "list" => Unmounts
  OBVIOUS
<1>4. jobs[k].pc \in PastKill /\ k \notin hindered' => procs' = {}
  BY DEF Unmounting
<1>5. jobs[k].pc \in PastKill \ {"list"} /\ k \notin hindered' => Neat'
  BY <1>3 DEF Unmounting, Unmounts
<1>6. jobs[k].pc \in {"list root", "umount root"} /\ k \notin hindered' => OnlyRoot'
  BY <1>1, <1>3 DEF Unmounting
<1>7. jobs[k].pc = "umount" /\ k \notin hindered' => Listed(jobs[k].left)'
  BY <1>2, <1>3 DEF Unmounting
<1>8. jobs[k].pc = "umount" =>
        /\ jobs'[k].left # <<>> /\ BelowFirst(jobs'[k].left)
        /\ \A a \in 1 .. Len(jobs'[k].left) : jobs'[k].left[a] # Root
  BY DEF Unmounting
<1>9. jobs[k].pc = "umount root" =>
        /\ jobs'[k].left # <<>>
        /\ \A a \in 1 .. Len(jobs'[k].left) : jobs'[k].left[a] = Root
  BY DEF Unmounting
<1>10. BelowFirst(jobs[k].left)' <=> BelowFirst(jobs'[k].left)
  BY DEF BelowFirst
<1>11. QED
  BY <1>4, <1>5, <1>6, <1>7, <1>8, <1>9, <1>10 DEF Unmounting

LEMMA BecomesIs ==
  ASSUME JobsOK(jobs), NEW j \in Job, NEW pc, NEW left, NEW tries, Becomes(j, pc, left, tries)
  PROVE  /\ jobs'[j].pc = pc /\ jobs'[j].left = left
         /\ \A k \in Job \ {j} : jobs'[k] = jobs[k]
<1>1. jobs' = [jobs EXCEPT ![j] = [pc |-> pc, cmd |-> jobs[j].cmd, left |-> left,
                                   tries |-> tries]]
  BY DEF Becomes
<1>2. jobs \in [Job -> JobType]
  BY DEF JobsOK
<1>3. QED
  BY <1>1, <1>2

LEMMA ExitIs ==
  ASSUME JobsOK(jobs), NEW j \in Job, Exit(j)
  PROVE  jobs'[j].pc = "idle" /\ \A k \in Job \ {j} : jobs'[k] = jobs[k]
<1>1. Idle.pc = "idle" /\ jobs \in [Job -> JobType]
  BY IdleOK DEF JobsOK
<1>2. QED
  BY <1>1 DEF Exit

\* Nothing is above the root of the container.
LEMMA RootIsAbove == \A p \in Point : ~Below(Root, p)
<1> TAKE p \in Point
<1>1. p \in Seq(STRING) /\ Len(p) \in Nat
  BY ContainerAssumption DEF Point, ToSet
<1>2. SUFFICES ASSUME Below(Root, p) PROVE FALSE
  OBVIOUS
<1>3. p # Root /\ IsPrefix(p, Root)
  BY <1>2 DEF Below, IsStrictPrefix
<1>4. Len(p) <= Len(Root) /\ Len(Root) = 0
  BY <1>3 DEF IsPrefix, Root
<1>5. Len(p) = 0
  BY <1>1, <1>4
<1>6. p = Root
  BY <1>1, <1>5, EmptySeq DEF Root
<1>7. QED
  BY <1>3, <1>6

\* With no process inside, a mount is free when nothing is mounted below it.
LEMMA Free ==
  ASSUME mounts \in Seq(Point), Neat, procs = {}, NEW i \in 1 .. Len(mounts),
         \A k \in 1 .. Len(mounts) : ~Below(mounts[k], mounts[i])
  PROVE  i \in Reached(mounts[i]) /\ ~Busy(i) /\ ~MayBeHeld(i)
<1>1. DOMAIN mounts = 1 .. Len(mounts) /\ Len(mounts) \in Nat
  OBVIOUS
<1>2. \A k \in i + 1 .. Len(mounts) : k \in 1 .. Len(mounts) /\ i < k
  BY <1>1
<1>3. i \in Reached(mounts[i])
  BY <1>1, <1>2 DEF Reached, Neat
<1>4. QED
  BY <1>2, <1>3 DEF Busy, MayBeHeld

\* umount is repeated until the point is no longer mounted.
LEMMA Unmounted ==
  ASSUME mounts \in Seq(Point), Neat, procs = {},
         NEW j \in Job, UmountPart(j) \/ UmountFails(j),
         \A k \in 1 .. Len(mounts) : ~Below(mounts[k], Head(jobs[j].left))
  PROVE  \A k \in 1 .. Len(mounts') : /\ mounts'[k] # Head(jobs[j].left)
                                      /\ \E m \in 1 .. Len(mounts) : mounts'[k] = mounts[m]
<1> DEFINE p == Head(jobs[j].left)
<1>1. Len(mounts) \in Nat
  OBVIOUS
<1>2. CASE UmountPart(j)
  <2>1. PICK i \in 1 .. Len(mounts) :
          /\ mounts[i] = p
          /\ \A a \in 1 .. Len(mounts') :
               \E m \in 1 .. Len(mounts) : m # i /\ mounts'[a] = mounts[m]
    BY <1>2, OneLess, Zenon
  <2>2. \A m \in 1 .. Len(mounts) : m # i => mounts[m] # p
    <3>1. \A m \in 1 .. Len(mounts) : m # i => m < i \/ i < m
      BY <1>1
    <3>2. QED
      BY <2>1, <3>1 DEF Neat
  <2> HIDE DEF p
  <2>3. QED
    BY <2>1, <2>2 DEF p
<1>3. CASE UmountFails(j)
  <2>1. UNCHANGED mounts /\ \A i \in Reached(p) : Busy(i) \/ MayBeHeld(i)
    BY <1>3, Zenon DEF UmountFails, UmountFailing
  <2>2. \A k \in 1 .. Len(mounts) : mounts[k] # p
    BY <2>1, Free
  <2>3. QED
    BY <2>1, <2>2
<1>4. QED
  BY <1>2, <1>3

\* What umount does with the first point of the list of a job that was not
\* hindered: it is tried again, or it is no longer mounted.
LEMMA FirstOfList ==
  ASSUME StopInv, NEW j \in Job, UmountPart(j) \/ UmountFails(j), j \notin hindered
  PROVE  \A k \in 1 .. Len(mounts') : /\ mounts'[k] # Head(jobs[j].left)
                                      /\ \E m \in 1 .. Len(mounts) : mounts'[k] = mounts[m]
<1> DEFINE left == jobs[j].left
<1>1. jobs[j].pc \in {"umount", "umount root"}
  BY DEF UmountPart, UmountFails, UmountFailing
<1>2. Unmounting(j) /\ procs = {} /\ Neat /\ mounts \in Seq(Point)
  <2>1. Unmounting(j) /\ mounts \in Seq(Point)
    BY DEF StopInv, TypeInv
  <2>2. QED
    BY <1>1, <2>1 DEF Unmounting, PastKill
<1>3. left \in Seq(Point) /\ left # <<>>
  BY <1>1, <1>2 DEF StopInv, TypeInv, JobsOK, JobType, Unmounting
<1>4. Len(left) \in Nat /\ 1 \in 1 .. Len(left) /\ Head(left) = left[1] /\ left[1] \in Point
  <2> HIDE DEF left
  <2>1. QED
    BY <1>3, EmptySeq
<1>5. \A k \in 1 .. Len(mounts) : mounts[k] \in Point
  BY <1>2
<1>6. \A k \in 1 .. Len(mounts) : ~Below(mounts[k], left[1])
  <2>1. CASE jobs[j].pc = "umount"
    <3>1. BelowFirst(left) /\ Listed(left)
      BY <1>2, <2>1 DEF Unmounting
    <3>2. ASSUME NEW k \in 1 .. Len(mounts) PROVE ~Below(mounts[k], left[1])
      <4>1. CASE mounts[k] = Root
        BY <1>4, <4>1, RootIsAbove
      <4>2. CASE mounts[k] # Root
        <5>1. PICK a \in 1 .. Len(left) : left[a] = mounts[k]
          BY <3>1, <4>2 DEF Listed
        <5>2. a = 1 \/ 1 < a
          BY <1>4
        <5>3. CASE 1 < a
          BY <1>4, <3>1, <5>1, <5>3 DEF BelowFirst
        <5>4. QED
          BY <5>1, <5>2, <5>3, NotBelowItself
      <4>3. QED
        BY <4>1, <4>2
    <3>3. QED
      BY <3>2
  <2>2. CASE jobs[j].pc = "umount root"
    <3>1. left[1] = Root /\ OnlyRoot
      BY <1>2, <1>4, <2>2 DEF Unmounting
    <3>2. QED
      BY <3>1, NotBelowItself DEF OnlyRoot
  <2>3. QED
    BY <1>1, <2>1, <2>2
<1>7. QED
  BY <1>2, <1>4, <1>6, Unmounted

\* The job goes on to the next point of its list.
LEMMA NextOfList ==
  ASSUME StopInv, NEW j \in Job, UmountPart(j) \/ UmountFails(j), NextUmount(j)
  PROVE  Unmounting(j)'
<1> DEFINE left == jobs[j].left
<1>1. jobs[j].pc \in {"umount", "umount root"} /\ procs' = procs /\ hindered' = hindered
  BY DEF UmountPart, UmountFails, UmountFailing, history
<1>2. Unmounting(j) /\ JobsOK(jobs) /\ mounts \in Seq(Point)
  BY DEF StopInv, TypeInv
<1>3. left \in Seq(Point) /\ left # <<>>
  BY <1>1, <1>2 DEF JobsOK, JobType, Unmounting
<1>4. /\ Len(left) \in Nat \ {0} /\ Head(left) = left[1]
      /\ Tail(left) \in Seq(Point) /\ Len(Tail(left)) = Len(left) - 1
      /\ \A a \in 1 .. Len(left) - 1 : Tail(left)[a] = left[a + 1]
  <2> HIDE DEF left
  <2>1. QED
    BY <1>3, EmptySeq, HeadTailProperties
<1>5. j \notin hindered =>
        /\ procs = {} /\ Neat'
        /\ \A k \in 1 .. Len(mounts') : /\ mounts'[k] # left[1]
                                        /\ \E m \in 1 .. Len(mounts) : mounts'[k] = mounts[m]
  <2>1. j \notin hindered => procs = {} /\ Neat
    BY <1>1, <1>2 DEF Unmounting, PastKill
  <2>2. Neat => Neat'
    BY <1>2, UmountUnmounts, SameUnmounts DEF UmountFails, Unmounts
  <2>3. QED
    BY <1>4, <2>1, <2>2, FirstOfList
<1> HIDE DEF left
<1>6. CASE Len(left) > 1
  <2>1. Becomes(j, jobs[j].pc, Tail(left), 0)
    BY <1>6 DEF NextUmount, left
  <2>2. jobs'[j].pc = jobs[j].pc /\ jobs'[j].left = Tail(left)
    BY <1>2, <2>1, BecomesIs
  <2>3. Tail(left) # <<>> /\ \A a \in 1 .. Len(Tail(left)) : a + 1 \in 1 .. Len(left)
    <3> DEFINE tail == Tail(left)
    <3>1. tail \in Seq(Point) /\ Len(tail) = Len(left) - 1 /\ Len(left) \in Nat
      BY <1>4
    <3> HIDE DEF tail
    <3>2. tail # <<>>
      BY <1>6, <3>1, Nothing
    <3>3. \A a \in 1 .. Len(tail) : a + 1 \in 1 .. Len(left)
      BY <3>1
    <3>4. QED
      BY <3>2, <3>3 DEF tail
  <2>4. \A a \in 1 .. Len(Tail(left)) : Tail(left)[a] = left[a + 1]
    BY <1>4
  <2>5. CASE jobs[j].pc = "umount"
    <3>1. /\ BelowFirst(left) /\ \A a \in 1 .. Len(left) : left[a] # Root
          /\ j \notin hindered => Listed(left)
      BY <1>2, <2>5 DEF Unmounting, left
    <3>2. BelowFirst(Tail(left))
      <4>1. \A a, b \in 1 .. Len(Tail(left)) : a < b => a + 1 < b + 1
        BY <1>4
      <4>2. QED
        BY <2>3, <2>4, <3>1, <4>1 DEF BelowFirst
    <3>3. \A a \in 1 .. Len(Tail(left)) : Tail(left)[a] # Root
      BY <2>3, <2>4, <3>1
    <3>4. ASSUME j \notin hindered, NEW k \in 1 .. Len(mounts'), mounts'[k] # Root
          PROVE  \E a \in 1 .. Len(Tail(left)) : Tail(left)[a] = mounts'[k]
      <4>1. PICK m \in 1 .. Len(mounts) : mounts'[k] = mounts[m]
        BY <1>5, <3>4
      <4>2. PICK a \in 1 .. Len(left) : left[a] = mounts'[k]
        BY <3>1, <3>4, <4>1 DEF Listed
      <4>3. a # 1
        BY <1>5, <3>4, <4>2
      <4>4. a - 1 \in 1 .. Len(Tail(left)) /\ Tail(left)[a - 1] = left[a]
        BY <1>4, <4>3
      <4>5. QED
        BY <4>2, <4>4
    <3>5. QED
      BY <1>1, <1>5, <2>2, <2>3, <2>5, <3>2, <3>3, <3>4 DEF Unmounting, Listed
  <2>6. CASE jobs[j].pc = "umount root"
    <3>1. /\ \A a \in 1 .. Len(left) : left[a] = Root
          /\ j \notin hindered => OnlyRoot
      BY <1>2, <2>6 DEF Unmounting, left
    <3>2. \A a \in 1 .. Len(Tail(left)) : Tail(left)[a] = Root
      BY <2>3, <2>4, <3>1
    <3>3. j \notin hindered => OnlyRoot'
      BY <1>5, <3>1 DEF OnlyRoot
    <3>4. QED
      BY <1>1, <1>5, <2>2, <2>3, <2>6, <3>2, <3>3 DEF Unmounting
  <2>7. QED
    BY <1>1, <2>5, <2>6
<1>7. CASE ~(Len(left) > 1) /\ jobs[j].pc = "umount"
  <2>1. Becomes(j, "list root", <<>>, 0)
    BY <1>7 DEF NextUmount, AfterParts, left
  <2>2. jobs'[j].pc = "list root"
    BY <1>2, <2>1, BecomesIs
  <2>3. \A a \in 1 .. Len(left) : a = 1
    BY <1>4, <1>7
  <2>4. j \notin hindered => Listed(left)
    BY <1>2, <1>7 DEF Unmounting, left
  <2>5. ASSUME j \notin hindered, NEW k \in 1 .. Len(mounts') PROVE mounts'[k] = Root
    <3>1. mounts'[k] # left[1] /\ \E m \in 1 .. Len(mounts) : mounts'[k] = mounts[m]
      BY <1>5, <2>5
    <3>2. QED
      BY <2>3, <2>4, <2>5, <3>1 DEF Listed
  <2>6. QED
    BY <1>1, <1>5, <2>2, <2>5 DEF Unmounting, OnlyRoot
<1>8. CASE ~(Len(left) > 1) /\ jobs[j].pc = "umount root"
  <2>1. Exit(j)
    BY <1>8 DEF NextUmount, AfterParts, left
  <2>2. jobs'[j].pc = "idle"
    BY <1>2, <2>1, ExitIs
  <2>3. QED
    BY <2>2 DEF Unmounting, PastKill
<1>9. QED
  BY <1>1, <1>6, <1>7, <1>8

\* A mounted part is one that sort lists, and the list of the root is the root.
LEMMA PartIsListed ==
  ASSUME mounts \in Seq(Point), NEW k \in 1 .. Len(mounts), mounts[k] # Root
  PROVE  /\ IsMounted(mounts[k])
         /\ \E i \in 1 .. Len(ReverseSorted) : ReverseSorted[i] = mounts[k]
<1>1. mounts[k] \in Point /\ IsMounted(mounts[k])
  BY DEF IsMounted
<1>2. mounts[k] \in ToSet(ReverseSorted)
  BY <1>1, ContainerAssumption
<1>3. DOMAIN ReverseSorted = 1 .. Len(ReverseSorted)
  BY PointLists
<1>4. QED
  BY <1>1, <1>2, <1>3 DEF ToSet

LEMMA RootListed ==
  /\ <<Root>> \in Seq(Point) /\ 1 \in 1 .. Len(<<Root>>)
  /\ \A i \in 1 .. Len(<<Root>>) : <<Root>>[i] = Root
<1>1. ASSUME NEW x \in Point
      PROVE  /\ <<x>> \in Seq(Point) /\ 1 \in 1 .. Len(<<x>>)
             /\ \A i \in 1 .. Len(<<x>>) : <<x>>[i] = x
  OBVIOUS
<1>2. QED
  BY <1>1, RootIsPoint

\* The list that is unmounted next.
LEMMA ListOfJob ==
  ASSUME StopInv, NEW j \in Job, ListParts(j)
  PROVE  Unmounting(j)'
<1>1. /\ mounts \in Seq(Point) /\ JobsOK(jobs) /\ Unmounting(j)
      /\ UNCHANGED <<mounts, procs>> /\ jobs[j].pc \in {"list", "list root"}
  BY DEF StopInv, TypeInv, ListParts
<1>2. j \notin hindered' => j \notin hindered /\ procs = {} /\ Neat
  <2>1. SUFFICES ASSUME j \notin hindered' PROVE j \notin hindered /\ procs = {} /\ Neat
    OBVIOUS
  <2>2. j \notin hindered /\ (jobs[j].pc = "list" => Hidden = {})
    BY <2>1 DEF ListParts
  <2>3. QED
    BY <1>1, <2>2, NothingOver DEF Unmounting, PastKill
<1>3. CASE jobs[j].pc = "list"
  <2> DEFINE t == Listing(ReverseSorted)
  <2>1. /\ t \in Seq(Point)
        /\ \A i \in 1 .. Len(ReverseSorted) : IsMounted(ReverseSorted[i]) => In(ReverseSorted[i], t)
        /\ \A a \in 1 .. Len(t) : \E i \in 1 .. Len(ReverseSorted) : t[a] = ReverseSorted[i]
        /\ \A a, b \in 1 .. Len(t) :
             a < b => \E i, k \in 1 .. Len(ReverseSorted) :
                        i <= k /\ t[a] = ReverseSorted[i] /\ t[b] = ReverseSorted[k]
    BY <1>1, PointLists, ListingGives
  <2>2. CASE t = <<>>
    <3>1. Becomes(j, "list root", t, 0)
      BY <1>3, <2>2 DEF ListParts, AfterParts
    <3>2. jobs'[j].pc = "list root"
      BY <1>1, <3>1, BecomesIs
    <3> HIDE DEF t
    <3>3. ASSUME NEW k \in 1 .. Len(mounts), mounts[k] # Root PROVE FALSE
      <4>1. In(mounts[k], t)
        BY <1>1, <2>1, <3>3, PartIsListed
      <4>2. QED
        BY <2>2, <4>1, Nothing DEF In
    <3>4. QED
      BY <1>1, <1>2, <3>2, <3>3 DEF Unmounting, OnlyRoot, Neat
  <2>3. CASE t # <<>>
    <3>1. Becomes(j, "umount", t, 0)
      BY <1>3, <2>3 DEF ListParts
    <3> HIDE DEF t
    <3>2. jobs'[j].pc = "umount" /\ jobs'[j].left = t
      BY <1>1, <3>1, BecomesIs
    <3>3. BelowFirst(t)
      <4>1. ASSUME NEW a \in 1 .. Len(t), NEW b \in 1 .. Len(t), a < b PROVE ~Below(t[b], t[a])
        <5>1. PICK i \in 1 .. Len(ReverseSorted), k \in 1 .. Len(ReverseSorted) :
                i <= k /\ t[a] = ReverseSorted[i] /\ t[b] = ReverseSorted[k]
          BY <2>1, <4>1
        <5>2. ~(k < i) /\ DOMAIN ReverseSorted = 1 .. Len(ReverseSorted)
          BY <5>1, PointLists
        <5>3. QED
          BY <5>1, <5>2, ContainerAssumption
      <4>2. QED
        BY <4>1 DEF BelowFirst
    <3>4. \A a \in 1 .. Len(t) : t[a] # Root
      <4>1. \A i \in 1 .. Len(ReverseSorted) : ReverseSorted[i] \in ToSet(ReverseSorted)
        BY PointLists DEF ToSet
      <4>2. QED
        BY <2>1, <4>1, ContainerAssumption
    <3>5. Listed(t)
      <4>1. ASSUME NEW k \in 1 .. Len(mounts), mounts[k] # Root
            PROVE  \E a \in 1 .. Len(t) : t[a] = mounts[k]
        <5>1. In(mounts[k], t)
          BY <1>1, <2>1, <4>1, PartIsListed
        <5>2. QED
          BY <5>1 DEF In
      <4>2. QED
        BY <4>1 DEF Listed
    <3>6. QED
      <4>2. Neat' <=> Neat
        BY <1>1 DEF Neat
      <4>3. Listed(jobs[j].left)' <=> Listed(t)
        BY <1>1, <3>2 DEF Listed
      <4>4. procs' = procs
        BY <1>1
      <4>5. QED
        BY <1>2, <2>3, <3>2, <3>3, <3>4, <3>5, <4>2, <4>3, <4>4 DEF Unmounting
  <2>4. QED
    BY <2>2, <2>3
<1>4. CASE jobs[j].pc = "list root"
  <2> DEFINE t == Listing(<<Root>>)
  <2>1. CASE t = <<>>
    <3>1. Exit(j)
      BY <1>4, <2>1 DEF ListParts, AfterParts
    <3>2. QED
      BY <1>1, <3>1, ExitIs DEF Unmounting, PastKill
  <2>2. CASE t # <<>>
    <3>1. Becomes(j, "umount root", t, 0)
      BY <1>4, <2>2 DEF ListParts
    <3>2. \A a \in 1 .. Len(t) : t[a] = Root
      <4> DEFINE one == <<Root>>
      <4>1. one \in Seq(Point) /\ \A i \in 1 .. Len(one) : one[i] = Root
        BY RootListed
      <4> HIDE DEF one
      <4>2. \A a \in 1 .. Len(Listing(one)) :
              \E i \in 1 .. Len(one) : Listing(one)[a] = one[i]
        BY <1>1, <4>1, ListingGives
      <4>3. \A a \in 1 .. Len(Listing(one)) : Listing(one)[a] = Root
        BY <4>1, <4>2
      <4>4. QED
        BY <4>3 DEF one
    <3> HIDE DEF t
    <3>3. jobs'[j].pc = "umount root" /\ jobs'[j].left = t
      BY <1>1, <3>1, BecomesIs
    <3>4. j \notin hindered => OnlyRoot
      BY <1>1, <1>4 DEF Unmounting
    <3>5. QED
      BY <1>1, <1>2, <2>2, <3>2, <3>3, <3>4 DEF Unmounting, OnlyRoot, Neat
  <2>3. QED
    BY <2>1, <2>2
<1>5. QED
  BY <1>1, <1>3, <1>4

\* Only the steps of container_umount lead past its kill.
LEMMA StepElsewhere ==
  ASSUME StopInv, NEW j \in Job, Step(j)
  PROVE  \/ UmountPart(j) \/ UmountFails(j) \/ ListParts(j) \/ Release(j)
         \/ jobs'[j].pc \notin PastKill
<1>1. Records
  BY TypedRecords DEF StopInv, TypeInv
<1>2. CASE jobs[j].pc \in StopPlaces
  BY <1>2 DEF Step, StopPlaces, CheckFs, FsChecked, CheckMounted, MountPart, MountFails,
              CheckReady, ExecStart, ExecStop, EnterNet, LeaveNet
<1>3. CASE jobs'[j].pc \in StartPlaces \cup {"idle", "ready", "exec", "inside", "release"}
  BY <1>3 DEF StartPlaces, PastKill
<1>4. CASE CheckFs(j) \/ FsChecked(j) \/ CheckMounted(j) \/ MountPart(j) \/ MountFails(j)
  <2>1. ToMount(j) \/ (\E pc \in {"e2fsck", "mounting"} : Goto(j, pc)) \/ Exit(j) \/ NextPart(j)
    BY <1>4 DEF CheckFs, FsChecked, CheckMounted, MountPart, MountFails
  <2>2. jobs'[j].pc \in {"idle", "e2fsck", "mount", "mounting", "ready"}
    BY <1>1, <2>1, ToMountJob, GotoJob, ExitJob, NextPartJob DEF Is
  <2>3. QED
    BY <1>3, <2>2 DEF StartPlaces
<1>5. CASE CheckReady(j) \/ ExecStop(j)
  <2>1. (\E pc \in {"exec", "release"} : Goto(j, pc)) \/ Exit(j)
    BY <1>5 DEF CheckReady, ExecStop
  <2>2. jobs'[j].pc \in {"idle", "exec", "release"}
    BY <1>1, <2>1, GotoJob, ExitJob DEF Is
  <2>3. QED
    BY <1>3, <2>2
<1>6. CASE ExecStart(j) \/ EnterNet(j) \/ LeaveNet(j)
  <2>1. Exit(j) \/ Goto(j, "inside")
    BY <1>6 DEF ExecStart, EnterNet, LeaveNet
  <2>2. jobs'[j].pc \in {"idle", "inside"}
    BY <1>1, <2>1, ExitJob, GotoJob DEF Is
  <2>3. QED
    BY <1>3, <2>2
<1>7. QED
  BY <1>4, <1>5, <1>6 DEF Step

\* What another job does to one that is past its kill, and is not hindered by it.
LEMMA OthersHinder ==
  ASSUME StopInv, NEW k \in Job, NEW j \in Job \ {k}, Step(j), jobs[k].pc \in PastKill
  PROVE  /\ jobs'[k].pc = jobs[k].pc /\ jobs'[k].left = jobs[k].left
         /\ k \notin hindered' =>
              /\ k \notin hindered /\ procs' \subseteq procs
              /\ UNCHANGED mounts \/ UmountPart(j) \/ jobs[k].pc = "list"
<1>1. jobs'[k].pc = jobs[k].pc /\ jobs'[k].left = jobs[k].left
  <2>1. Records
    BY TypedRecords DEF StopInv, TypeInv
  <2>2. Others(j)
    BY <2>1, StepJob
  <2>3. QED
    BY <2>2 DEF Others
<1> DEFINE Goal == k \notin hindered' =>
                     /\ k \notin hindered /\ procs' \subseteq procs
                     /\ UNCHANGED mounts \/ UmountPart(j) \/ jobs[k].pc = "list"
<1>2. CASE MountPart(j)
  <2>1. UNCHANGED procs /\ Hinder({"umount", "list root", "umount root"})
    BY <1>2 DEF MountPart
  <2>2. k \notin hindered' => k \notin hindered /\ jobs[k].pc = "list"
    BY <2>1 DEF Hinder, PastKill
  <2>3. QED
    BY <1>1, <2>1, <2>2
<1>3. CASE ExecStart(j) \/ EnterNet(j)
  <2>1. /\ UNCHANGED mounts
        /\ UNCHANGED <<procs, hindered>> \/ Hinder(PastKill)
    BY <1>3 DEF ExecStart, EnterNet, Enter, PastKill
  <2>2. CASE Hinder(PastKill)
    <3>1. k \in hindered'
      BY <2>2 DEF Hinder
    <3>2. QED
      BY <1>1, <3>1
  <2>3. QED
    BY <1>1, <2>1, <2>2
<1>4. CASE UmountPart(j) \/ UmountFails(j)
  BY <1>1, <1>4 DEF UmountPart, UmountFails, history
<1>5. CASE ListParts(j)
  <2>1. UNCHANGED <<mounts, procs>> /\ (k \notin hindered' => k \notin hindered)
    BY <1>5 DEF ListParts
  <2>2. QED
    BY <1>1, <2>1
<1>6. CASE ExecStop(j) \/ LeaveNet(j) \/ Release(j)
  <2>1. procs' \subseteq procs /\ UNCHANGED <<mounts, hindered>>
    BY <1>6 DEF ExecStop, LeaveNet, Release, Services, history
  <2>2. QED
    BY <1>1, <2>1
<1>7. CASE CheckFs(j) \/ FsChecked(j) \/ CheckMounted(j) \/ MountFails(j) \/ CheckReady(j)
  <2>1. UNCHANGED <<mounts, procs, hindered>>
    BY <1>7 DEF CheckFs, FsChecked, CheckMounted, MountFails, CheckReady, history
  <2>2. QED
    BY <1>1, <2>1
<1>8. QED
  BY <1>2, <1>3, <1>4, <1>5, <1>6, <1>7 DEF Step

\* How a step changes what is known of the jobs that unmount.
LEMMA StepStop ==
  ASSUME StopInv, NEW j \in Job, Step(j), NEW k \in Job
  PROVE  Unmounting(k)'
<1>1. TypeInv /\ Records /\ JobsOK(jobs) /\ Unmounting(k) /\ mounts \in Seq(Point)
  BY TypedRecords DEF StopInv, TypeInv
<1>2. Others(j)
  BY <1>1, StepJob
<1>3. ASSUME jobs'[k].pc \notin PastKill PROVE Unmounting(k)'
  BY <1>3 DEF Unmounting, PastKill
<1>4. CASE k # j /\ jobs[k].pc \notin PastKill
  BY <1>2, <1>3, <1>4 DEF Others
<1>5. CASE k # j /\ jobs[k].pc \in PastKill
  <2>1. /\ jobs'[k].pc = jobs[k].pc /\ jobs'[k].left = jobs[k].left
        /\ k \notin hindered' =>
              /\ k \notin hindered /\ procs' \subseteq procs
              /\ UNCHANGED mounts \/ UmountPart(j) \/ jobs[k].pc = "list"
    BY <1>5, OthersHinder
  <2>2. UNCHANGED mounts \/ UmountPart(j) => Unmounts
    BY <1>1, UmountUnmounts, SameUnmounts
  <2>3. procs' \subseteq procs => (procs = {} => procs' = {})
    OBVIOUS
  <2>4. QED
    BY <1>1, <2>1, <2>2, <2>3, StillUnmounting
<1>6. CASE k = j
  <2>1. CASE UmountPart(j)
    BY <1>6, <2>1, NextOfList DEF UmountPart
  <2>2. CASE UmountFails(j)
    <3>1. CASE NextUmount(j)
      BY <1>6, <2>2, <3>1, NextOfList
    <3>2. CASE Becomes(j, jobs[j].pc, jobs[j].left, jobs[j].tries + 1)
      <4>1. jobs'[k].pc = jobs[k].pc /\ jobs'[k].left = jobs[k].left
        BY <1>1, <1>6, <3>2, BecomesIs
      <4>2. UNCHANGED <<mounts, procs, hindered>>
        BY <2>2 DEF UmountFails, history
      <4>3. QED
        BY <1>1, <4>1, <4>2, StillUnmounting, SameUnmounts
    <3>3. QED
      BY <2>2, <3>1, <3>2 DEF UmountFails
  <2>3. CASE ListParts(j)
    BY <1>6, <2>3, ListOfJob
  <2>4. CASE Release(j)
    <3>1. CASE procs' = {} /\ Goto(j, "list")
      <4>1. jobs'[j].pc = "list"
        BY <1>1, <3>1, BecomesIs DEF Goto
      <4>2. QED
        BY <1>6, <3>1, <4>1 DEF Unmounting
    <3>2. CASE Exit(j)
      BY <1>1, <1>3, <1>6, <3>2, ExitIs DEF PastKill
    <3>3. QED
      BY <2>4, <3>1, <3>2 DEF Release
  <2>5. CASE jobs'[j].pc \notin PastKill
    BY <1>3, <1>6, <2>5
  <2>6. \/ UmountPart(j) \/ UmountFails(j) \/ ListParts(j) \/ Release(j)
        \/ jobs'[j].pc \notin PastKill
    BY StepElsewhere
  <2>7. QED
    BY <2>1, <2>2, <2>3, <2>4, <2>5, <2>6
<1>7. QED
  BY <1>4, <1>5, <1>6

\* The invariant, whichever commands overlap.
LEMMA StopInvariant == StopInv /\ [Next]_vars => StopInv'
<1> SUFFICES ASSUME StopInv, [Next]_vars PROVE StopInv'
  OBVIOUS
<1>1. TypeInv /\ Records
  BY TypedRecords DEF StopInv, TypeInv
<1>2. TypeInv'
  BY <1>1, TypeInvNext
<1>3. \A k \in Job : Unmounting(k)'
  <2>1. CASE UNCHANGED vars
    BY <2>1, StillUnmounting, SameUnmounts DEF StopInv, vars, history
  <2>2. ASSUME NEW j \in Job, Step(j) PROVE \A k \in Job : Unmounting(k)'
    BY <2>2, StepStop
  <2>3. ASSUME NEW j \in Job, NEW cmd \in Command, Begin(j, cmd), NEW k \in Job
        PROVE  Unmounting(k)'
    <3>1. CASE k = j
      <4>1. jobs'[j].pc \in {"check", "ready"}
        BY <1>1, <2>3, BeginJob
      <4>2. QED
        BY <3>1, <4>1 DEF Unmounting, PastKill
    <3>2. CASE k # j
      <4>1. /\ jobs'[k] = jobs[k] /\ UNCHANGED <<mounts, procs>>
            /\ k \in hindered' <=> k \in hindered
        BY <1>1, <2>3, <3>2 DEF Begin, TypeInv, JobsOK
      <4>2. Unmounting(k)
        BY DEF StopInv
      <4>3. QED
        BY <4>1, <4>2, StillUnmounting, SameUnmounts
    <3>3. QED
      BY <3>1, <3>2
  <2>4. QED
    BY <2>1, <2>2, <2>3 DEF Next
<1>4. QED
  BY <1>2, <1>3 DEF StopInv

LEMMA FirstLine ==
  ASSUME NEW S, NEW s \in Seq(S)
  PROVE  /\ DOMAIN s = 1 .. Len(s)
         /\ s # <<>> => 1 \in 1 .. Len(s) /\ Head(s) = s[1]
         /\ ~(1 \in 1 .. Len(s)) => s = <<>>
BY EmptySeq

LEMMA NothingIn == \A x : ~In(x, <<>>)
BY Nothing DEF In

\* The step that ends a stop: nothing but the root was mounted before it, and
\* that has been unmounted.
LEMMA StopEnds ==
  ASSUME StopInv, NEW j \in Job, Step(j), jobs'[j].pc = "idle",
         jobs[j].pc \in {"umount", "list root", "umount root"}, j \notin hindered
  PROVE  mounts' = <<>>
<1>1. Unmounting(j) /\ JobsOK(jobs) /\ mounts \in Seq(Point)
  BY DEF StopInv, TypeInv
<1>2. procs = {}
  BY <1>1 DEF Unmounting, PastKill
<1>3. ListParts(j) \/ UmountPart(j) \/ UmountFails(j)
  BY DEF Step, CheckFs, FsChecked, CheckMounted, MountPart, MountFails, CheckReady, ExecStart,
         ExecStop, EnterNet, LeaveNet, Release
<1>4. CASE ListParts(j)
  <2>1. UNCHANGED mounts /\ jobs[j].pc = "list root"
    BY <1>4 DEF ListParts
  <2>2. OnlyRoot
    BY <1>1, <2>1 DEF Unmounting
  <2>3. Listing(<<Root>>) = <<>>
    <3>1. SUFFICES ASSUME Listing(<<Root>>) # <<>> PROVE FALSE
      OBVIOUS
    <3>2. Becomes(j, "umount root", Listing(<<Root>>), 0)
      BY <1>4, <2>1, <3>1 DEF ListParts
    <3>3. jobs'[j].pc = "umount root"
      BY <1>1, <3>2, BecomesIs
    <3>4. QED
      BY <3>3
  <2>4. ~IsMounted(Root)
    <3> DEFINE one == <<Root>>
    <3>1. one \in Seq(Point) /\ 1 \in 1 .. Len(one) /\ one[1] = Root
      BY RootListed, Zenon
    <3> HIDE DEF one
    <3>2. IsMounted(one[1]) => In(one[1], Listing(one))
      BY <1>1, <3>1, ListingGives
    <3>3. Listing(one) = <<>>
      BY <2>3 DEF one
    <3>4. QED
      BY <3>1, <3>2, <3>3, NothingIn
  <2>5. ~(1 \in 1 .. Len(mounts))
    <3>1. DOMAIN mounts = 1 .. Len(mounts)
      BY <1>1, FirstLine
    <3>2. QED
      BY <2>2, <2>4, <3>1, Zenon DEF OnlyRoot, IsMounted
  <2>6. QED
    BY <1>1, <2>1, <2>5, FirstLine
<1>5. CASE UmountPart(j) \/ UmountFails(j)
  <2>1. jobs[j].pc = "umount root"
    <3>1. jobs[j].pc \in {"umount", "umount root"}
      BY <1>5 DEF UmountPart, UmountFails, UmountFailing
    <3>2. SUFFICES ASSUME jobs[j].pc = "umount" PROVE FALSE
      BY <3>1
    <3>3. \/ NextUmount(j)
          \/ Becomes(j, jobs[j].pc, jobs[j].left, jobs[j].tries + 1)
      BY <1>5 DEF UmountPart, UmountFails
    <3>4. \/ Becomes(j, jobs[j].pc, Tail(jobs[j].left), 0)
          \/ Becomes(j, "list root", <<>>, 0)
          \/ Becomes(j, jobs[j].pc, jobs[j].left, jobs[j].tries + 1)
      BY <3>2, <3>3 DEF NextUmount, AfterParts
    <3>5. jobs'[j].pc \in {"umount", "list root"}
      BY <1>1, <3>2, <3>4, BecomesIs
    <3>6. QED
      BY <3>5
  <2>2. \A k \in 1 .. Len(mounts') : /\ mounts'[k] # Head(jobs[j].left)
                                      /\ \E m \in 1 .. Len(mounts) : mounts'[k] = mounts[m]
    BY <1>5, FirstOfList
  <2>3. Head(jobs[j].left) = Root /\ OnlyRoot
    <3> DEFINE left == jobs[j].left
    <3>1. /\ OnlyRoot /\ left # <<>> /\ \A a \in 1 .. Len(left) : left[a] = Root
      BY <1>1, <2>1 DEF Unmounting
    <3>2. left \in Seq(Point)
      BY <1>1 DEF JobsOK, JobType
    <3> HIDE DEF left
    <3>3. Head(left) = left[1] /\ 1 \in 1 .. Len(left)
      BY <3>1, <3>2, FirstLine
    <3>4. QED
      BY <3>1, <3>3 DEF left
  <2>4. ~(1 \in 1 .. Len(mounts'))
    BY <2>2, <2>3 DEF OnlyRoot
  <2>5. mounts' \in Seq(Point)
    BY StepTypes DEF StopInv, TypeInv
  <2>6. QED
    BY <2>4, <2>5, FirstLine
<1>6. QED
  BY <1>3, <1>4, <1>5

\* A stop leaves nothing mounted, whichever commands overlap and whatever has
\* failed, unless it found a mount hidden, or a process came into the container
\* after its kill, or a part was mounted after its list (container_umount;
\* README.md: unmount the container after stop).
THEOREM StopLeavesNothing == Spec => StopUnmounts
<1>1. Init => StopInv
  <2>1. Init => TypeInv
    BY IdleOK, ContainerAssumption DEF Init, JobsOK, TypeInv
  <2>2. Init => \A j \in Job : Unmounting(j)
    BY IdleOK DEF Init, Unmounting, PastKill
  <2>3. QED
    BY <2>1, <2>2 DEF StopInv
<1> DEFINE Ends == \A j \in Job :
                     /\ jobs[j].pc \in {"umount", "list root", "umount root"}
                     /\ jobs'[j].pc = "idle"
                     /\ j \notin hindered
                     => mounts' = <<>>
<1>2. StopInv /\ [Next]_vars => [Ends]_vars
  <2>0. SUFFICES ASSUME StopInv, Next PROVE Ends
    OBVIOUS
  <2>1. SUFFICES ASSUME NEW j \in Job, jobs'[j].pc = "idle", j \notin hindered,
                        jobs[j].pc \in {"umount", "list root", "umount root"}
                 PROVE  mounts' = <<>>
    BY Zenon
  <2>2. Records
    BY <2>0, TypedRecords DEF StopInv, TypeInv
  <2>3. Step(j)
    <3>1. ASSUME NEW k \in Job, NEW cmd, Begin(k, cmd) PROVE FALSE
      <4>1. Others(k) /\ jobs'[k].pc \in {"check", "ready"}
        BY <2>2, <3>1, BeginJob
      <4>2. QED
        BY <2>1, <4>1 DEF Others
    <3>2. ASSUME NEW k \in Job, Step(k) PROVE k = j
      <4>1. Others(k)
        BY <2>2, <3>2, StepJob
      <4>2. QED
        BY <2>1, <4>1 DEF Others
    <3>3. QED
      BY <2>0, <3>1, <3>2 DEF Next
  <2>4. QED
    BY <2>0, <2>1, <2>3, StopEnds
<1> HIDE DEF Ends
<1>3. Spec => [][Ends]_vars
  BY <1>1, <1>2, StopInvariant, PTL DEF Spec
<1>4. QED
  BY <1>3 DEF StopUnmounts, Ends
============================================================================
