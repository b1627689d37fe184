-------------------------- MODULE UpdateEnv_proofs --------------------------
(***************************************************************************)
(* The version file does not lie and the service runs as it was asked to,  *)
(* for any number of versions of the app, of tasks, commands and kills,    *)
(* whatever fails and in whatever order jobs are done.  The first          *)
(* invariant says how far an update has come: what stands before the place *)
(* it is at is the app's already.  The second says that the jobs left are  *)
(* among the commands remembered, and what the service is with none left.  *)
(***************************************************************************)
EXTENDS UpdateEnv, TLAPS

\* The parts that are the app's when an update is at a place.
DoneAt(place) ==
  CASE place = "bin" -> {"env"}
    [] place = "web" -> {"env", "bin"}
    [] place = "linuxdeploy" -> {"env", "bin", "web"}
    [] place = "applets" -> {"env", "bin", "web", "linuxdeploy"}
    [] place = "version" -> Part
    [] OTHER -> {}

Types ==
  /\ app \in Nat \ {0}
  /\ version \in Nat
  /\ files \in [Part -> Nat]
  /\ pc \in {"idle", "clean", "version"} \cup Part

EnvInv ==
  /\ Types
  /\ version <= app
  /\ \A p \in DoneAt(pc) : files[p] = app \/ (p = "applets" /\ unnoticed)
  /\ LatestIsComplete

-----------------------------------------------------------------------------
\* At first there is nothing (Init).
LEMMA EnvInit == Init => EnvInv
BY UpdateEnvAssumption DEF Init, EnvInv, Types, DoneAt, LatestIsComplete,
   IsLatestVersion, Missing, Part

\* What the main thread, the jobs and the first step of a task do changes
\* nothing on the disk.
LEMMA EnvAside ==
  ASSUME EnvInv, UNCHANGED disk,
         \/ pc' = pc /\ UNCHANGED unnoticed
         \/ pc = "idle" /\ pc' \in {"env", "clean"}
  PROVE  EnvInv'
BY DEF EnvInv, Types, DoneAt, LatestIsComplete, IsLatestVersion, disk, Part

\* The end of a process, or of a task that fails: the environment is not taken
\* for the app's, or the failure is known (isLatestVersion).
LEMMA EnvCut ==
  ASSUME EnvInv, app' \in Nat \ {0}, version' \in {version, Missing}, app' >= app,
         \/ unnoticed' \/ version' # app'
         \/ pc = "idle" /\ UNCHANGED <<app, unnoticed>>,
         files' = files, pc' = "idle"
  PROVE  EnvInv'
<1>1. Types' /\ version' <= app'
  BY DEF EnvInv, Types, Missing
<1>2. LatestIsComplete'
  <2>1. CASE unnoticed' \/ version' # app'
    BY <2>1 DEF LatestIsComplete, IsLatestVersion
  <2>2. CASE pc = "idle" /\ UNCHANGED <<app, unnoticed>>
    BY <2>2 DEF EnvInv, Types, LatestIsComplete, IsLatestVersion, Missing
  <2> QED BY <2>1, <2>2
<1>3. DoneAt(pc') = {}
  BY DEF DoneAt
<1> QED BY <1>1, <1>2, <1>3 DEF EnvInv

\* A part is unpacked in the order of After.
LEMMA EnvUnpack == EnvInv /\ (Unpack \/ Unpacks) => EnvInv'
<1> SUFFICES ASSUME EnvInv, Unpack \/ Unpacks PROVE EnvInv'
  OBVIOUS
<1> USE UpdateEnvAssumption DEF Unpacked, After, Part
<1>1. CASE Unpack
  <2>1. pc \in Part /\ pc' = pc /\ app' = app /\ version' = version
    BY <1>1 DEF Unpack
  <2>2. files' = [files EXCEPT ![pc] = Pieces]
    BY <1>1 DEF Unpack
  <2>3. Pieces \in Nat
    BY DEF Pieces
  <2>4. Types'
    BY <2>1, <2>2, <2>3 DEF EnvInv, Types
  <2>5. pc \notin DoneAt(pc) /\ DoneAt(pc) \subseteq Part /\ pc # "idle"
    BY <2>1 DEF DoneAt
  <2>6. \A p \in DoneAt(pc') : files'[p] = app' \/ (p = "applets" /\ unnoticed')
    BY <1>1, <2>1, <2>2, <2>5 DEF EnvInv, Types, Unpack
  <2> QED BY <2>1, <2>4, <2>5, <2>6 DEF EnvInv, LatestIsComplete
<1>2. CASE Unpacks
  <2>1. pc \in {"env", "bin", "web", "linuxdeploy"} /\ app' = app /\ version' = version
    BY <1>2 DEF Unpacks
  <2>2. pc' = After[pc] /\ pc' \in Part /\ pc' # "idle"
    BY <1>2, <2>1 DEF Unpacks
  <2>3. files' = [p \in Part |-> CASE p = pc -> app
                                    [] p = "applets" /\ pc = "bin" -> Pieces
                                    [] OTHER -> files[p]]
    BY <1>2 DEF Unpacks
  <2>4. Pieces \in Nat
    BY DEF Pieces
  <2>5. Types'
    <3>1. ASSUME NEW p \in Part PROVE files'[p] \in Nat
      <4>1. CASE p = pc
        BY <4>1, <2>3 DEF EnvInv, Types
      <4>2. CASE p # pc /\ p = "applets" /\ pc = "bin"
        BY <4>2, <2>3, <2>4
      <4>3. CASE p # pc /\ ~(p = "applets" /\ pc = "bin")
        BY <4>3, <2>3 DEF EnvInv, Types
      <4> QED BY <4>1, <4>2, <4>3
    <3> QED BY <3>1, <2>1, <2>2, <2>3 DEF EnvInv, Types
  <2>6. DoneAt(pc') = DoneAt(pc) \cup {pc} /\ "applets" \notin DoneAt(pc')
    BY <2>1, <2>2 DEF DoneAt
  <2>7. ASSUME NEW p \in DoneAt(pc') PROVE files'[p] = app'
    <3>1. p \in Part /\ p # "applets"
      BY <2>6, <2>1, <2>2 DEF DoneAt
    <3>2. CASE p = pc
      BY <3>1, <3>2, <2>1, <2>3
    <3>3. CASE p # pc
      <4>1. p \in DoneAt(pc)
        BY <3>3, <2>6
      <4>2. files[p] = app
        BY <3>1, <4>1 DEF EnvInv
      <4> QED BY <4>2, <3>1, <3>3, <2>1, <2>3
    <3> QED BY <3>2, <3>3
  <2> QED BY <2>1, <2>2, <2>5, <2>7 DEF EnvInv, LatestIsComplete
<1> QED BY <1>1, <1>2

\* The applets are installed or not, and then the version is written.
LEMMA EnvInstall == EnvInv /\ (Install \/ InstallFails \/ SetVersion) => EnvInv'
<1> SUFFICES ASSUME EnvInv, Install \/ InstallFails \/ SetVersion PROVE EnvInv'
  OBVIOUS
<1>1. CASE Install
  BY <1>1 DEF Install, EnvInv, Types, DoneAt, LatestIsComplete, Part
<1>2. CASE InstallFails
  <2>1. /\ pc = "applets" /\ pc' = "version" /\ unnoticed' = TRUE
        /\ app' = app /\ version' = version /\ files' = files
    BY <1>2 DEF InstallFails, disk
  <2>2. \A p \in DoneAt(pc') : files'[p] = app' \/ (p = "applets" /\ unnoticed')
    BY <2>1 DEF EnvInv, DoneAt, Part
  <2> QED BY <2>1, <2>2 DEF EnvInv, Types, LatestIsComplete
<1>3. CASE SetVersion
  <2>1. /\ pc = "version" /\ pc' = "idle" /\ unnoticed' = unnoticed
        /\ version' = app /\ app' = app /\ files' = files
    BY <1>3 DEF SetVersion, End
  <2>2. ~unnoticed => \A p \in Part : files[p] = app
    BY <2>1 DEF EnvInv, DoneAt
  <2>3. LatestIsComplete'
    BY <2>1, <2>2 DEF LatestIsComplete
  <2> QED BY <2>1, <2>3 DEF EnvInv, Types, DoneAt
<1> QED BY <1>1, <1>2, <1>3

\* A removal deletes in any order.
LEMMA EnvClean == EnvInv /\ Clean => EnvInv'
<1> SUFFICES ASSUME EnvInv, Clean PROVE EnvInv'
  OBVIOUS
<1>1. pc = "clean" /\ pc' = pc /\ app' = app /\ version' \in {version, Missing}
  BY DEF Clean
<1>2. files' \in [Part -> Nat]
  <2>1. Pieces \in Nat /\ Missing \in Nat
    BY UpdateEnvAssumption DEF Pieces, Missing
  <2> QED BY <2>1 DEF Clean, EnvInv, Types
<1> QED BY <1>1, <1>2 DEF EnvInv, Types, DoneAt, LatestIsComplete, Missing

\* A task that ends early and a process that ends: what the version file goes
\* on to say is known to be wrong, or is not the app's.
LEMMA EnvDies ==
  EnvInv /\ (UnpackFails \/ SetVersionFails \/ Cleaned \/ Kill \/ Upgrade) => EnvInv'
<1> SUFFICES ASSUME EnvInv, UnpackFails \/ SetVersionFails \/ Cleaned \/ Kill \/ Upgrade
             PROVE  EnvInv'
  OBVIOUS
<1>1. app \in Nat \ {0} /\ version \in Nat /\ version <= app /\ Missing # app
  BY DEF EnvInv, Types, Missing
<1>2. CASE UnpackFails \/ SetVersionFails \/ Cleaned
  <2>1. version' \in {version, Missing} /\ app' = app /\ files' = files /\ pc' = "idle"
    BY <1>2 DEF UnpackFails, SetVersionFails, Cleaned, End, disk
  <2>2. unnoticed' \/ version # app
    BY <1>2 DEF UnpackFails, SetVersionFails, Cleaned, CutShort, IsLatestVersion
  <2> QED BY <1>1, <2>1, <2>2, EnvCut
<1>3. CASE Kill
  <2>1. version' \in {version, Missing} /\ app' = app /\ files' = files /\ pc' = "idle"
    BY <1>3 DEF Kill, Dies
  <2>2. (pc = "idle" /\ unnoticed' = unnoticed) \/ unnoticed' \/ version # app
    BY <1>3 DEF Kill, Dies, CutShort, IsLatestVersion
  <2> QED BY <1>1, <2>1, <2>2, EnvCut
<1>4. CASE Upgrade
  <2>1. version' = version /\ app' = app + 1 /\ files' = files /\ pc' = "idle"
    BY <1>4 DEF Upgrade, Dies
  <2>2. version' # app' /\ app' >= app /\ app' \in Nat \ {0}
    BY <1>1, <2>1
  <2> QED BY <2>1, <2>2, EnvCut
<1> QED BY <1>2, <1>3, <1>4

\* Every step keeps the invariant.
LEMMA EnvNext == EnvInv /\ [Next]_vars => EnvInv'
<1> SUFFICES ASSUME EnvInv, [Next]_vars PROVE EnvInv'
  OBVIOUS
<1>1. CASE Open \/ Settings \/ Switch \/ ExitOrBoot
  BY <1>1, EnvAside DEF Open, Settings, Switch, ExitOrBoot
<1>2. CASE Begin
  BY <1>2, EnvAside DEF Begin
<1>3. CASE \E i \in DOMAIN jobs : RunJob(i)
  BY <1>3, EnvAside DEF RunJob
<1>4. CASE UNCHANGED vars
  BY <1>4, EnvAside DEF vars
<1>5. CASE Unpack \/ Unpacks
  BY <1>5, EnvUnpack
<1>6. CASE Install \/ InstallFails \/ SetVersion
  BY <1>6, EnvInstall
<1>7. CASE Clean
  BY <1>7, EnvClean
<1>8. CASE UnpackFails \/ SetVersionFails \/ Cleaned \/ Kill \/ Upgrade
  BY <1>8, EnvDies
<1> QED BY <1>1, <1>2, <1>3, <1>4, <1>5, <1>6, <1>7, <1>8 DEF Next, Fails

\* However many updates were cut short, by a failure, a kill or a newer app,
\* an environment that is taken for the app's is the app's in every part,
\* unless a task has failed since without a trace (updateEnv, isLatestVersion).
THEOREM LatestAlwaysComplete == Spec => []LatestIsComplete
<1>1. Spec => []EnvInv
  BY EnvInit, EnvNext, PTL DEF Spec
<1>2. EnvInv => LatestIsComplete
  BY DEF EnvInv
<1> QED BY <1>1, <1>2, PTL

-----------------------------------------------------------------------------
(* The services.                                                           *)

Starting == {"start", "restart", "switch"}

\* What a command appended to the jobs, one of them taken and some of the first
\* dropped leave (ExecServices, RunJob, Kill).
LEMMA JobsAppend ==
  ASSUME NEW S, NEW s \in Seq(S), NEW e \in S
  PROVE  /\ Append(s, e) \in Seq(S) /\ Append(s, e) # <<>>
         /\ \A i \in DOMAIN Append(s, e) :
              Append(s, e)[i] = e \/ (s # <<>> /\ \E k \in DOMAIN s : Append(s, e)[i] = s[k])
<1>1. Append(s, e) \in Seq(S) /\ Append(s, e) # <<>> /\ Len(s) \in Nat
      /\ DOMAIN s = 1 .. Len(s) /\ DOMAIN Append(s, e) = 1 .. Len(s) + 1
  OBVIOUS
<1>2. ASSUME NEW i \in 1 .. Len(s) + 1
      PROVE  Append(s, e)[i] = e \/ (s # <<>> /\ \E k \in DOMAIN s : Append(s, e)[i] = s[k])
  <2>1. CASE i = Len(s) + 1
    BY <2>1
  <2>2. CASE i # Len(s) + 1
    <3>1. i \in DOMAIN s /\ Append(s, e)[i] = s[i] /\ s # <<>>
      BY <1>1, <2>2
    <3> QED BY <3>1
  <2> QED BY <2>1, <2>2
<1> QED BY <1>1, <1>2

LEMMA ConcatRight ==
  ASSUME NEW S, NEW a \in Seq(S), NEW b \in Seq(S), NEW n \in 1 .. Len(b)
  PROVE  (a \o b)[Len(a) + n] = b[n]
OBVIOUS

LEMMA JobsTake ==
  ASSUME NEW S, NEW s \in Seq(S), NEW i \in DOMAIN s
  PROVE  /\ RemoveAt(s, i) \in Seq(S)
         /\ \A k \in DOMAIN RemoveAt(s, i) : \E n \in DOMAIN s : RemoveAt(s, i)[k] = s[n]
<1> DEFINE t == SubSeq(s, 1, i - 1) \o SubSeq(s, i + 1, Len(s))
<1>1. RemoveAt(s, i) = t
  BY DEF RemoveAt
<1>2. Len(s) \in Nat /\ DOMAIN s = 1 .. Len(s) /\ i \in 1 .. Len(s)
  OBVIOUS
<1>3. /\ SubSeq(s, 1, i - 1) \in Seq(S) /\ Len(SubSeq(s, 1, i - 1)) = i - 1
      /\ SubSeq(s, i + 1, Len(s)) \in Seq(S) /\ Len(SubSeq(s, i + 1, Len(s))) = Len(s) - i
  BY <1>2
<1>4. t \in Seq(S) /\ Len(t) = Len(s) - 1 /\ DOMAIN t = 1 .. Len(s) - 1
  BY <1>2, <1>3
<1>5. ASSUME NEW k \in 1 .. Len(s) - 1 PROVE \E n \in DOMAIN s : t[k] = s[n]
  <2>1. CASE k < i
    <3>1. t[k] = s[k] /\ k \in DOMAIN s
      BY <1>2, <1>3, <2>1
    <3> QED BY <3>1
  <2>2. CASE ~(k < i)
    <3> DEFINE n == k - (i - 1)
    <3>1. n \in 1 .. Len(s) - i /\ i + n = k + 1 /\ k + 1 \in DOMAIN s
      BY <1>2, <2>2
    <3>2. t[k] = SubSeq(s, i + 1, Len(s))[n]
      <4> DEFINE a == SubSeq(s, 1, i - 1)
                 b == SubSeq(s, i + 1, Len(s))
      <4>1. a \in Seq(S) /\ b \in Seq(S) /\ Len(a) = i - 1 /\ Len(b) = Len(s) - i
        BY <1>3
      <4>2. t[k] = (a \o b)[k]
        OBVIOUS
      <4> HIDE DEF a, b, n, t
      <4>3. (a \o b)[Len(a) + n] = b[n]
        BY <3>1, <4>1, ConcatRight
      <4>4. k = Len(a) + n
        BY <1>2, <4>1 DEF n
      <4> QED BY <4>2, <4>3, <4>4 DEF b
    <3>3. SubSeq(s, i + 1, Len(s))[n] = s[i + n]
      <4> HIDE DEF n
      <4> QED BY <1>2, <3>1
    <3> QED BY <3>1, <3>2, <3>3
  <2> QED BY <2>1, <2>2
<1> HIDE DEF t
<1> QED BY <1>1, <1>4, <1>5

LEMMA JobsDrop ==
  ASSUME NEW S, NEW s \in Seq(S), NEW i \in 0 .. Len(s)
  PROVE  SubSeq(s, i + 1, Len(s)) \in Seq(S)
OBVIOUS

LEMMA TasksTail ==
  ASSUME NEW S, NEW s \in Seq(S), s # <<>>
  PROVE  Tail(s) \in Seq(S)
OBVIOUS

\* The variables keep their types: a task is at work only while it is first in
\* the queue, a removal cleans and an update unpacks (doInBackground,
\* onPostExecute).
LEMMA TypesInit == Init => TypeOK
<1>1. <<>> \in Seq(Command) /\ <<>> \in Seq({"update", "remove"})
  OBVIOUS
<1>2. MaxApp \in Nat /\ 1 \in 1 .. MaxApp /\ 0 \in 0 .. MaxTasks /\ 0 \in 0 .. MaxKills
      /\ Missing \in Missing .. Pieces
  BY UpdateEnvAssumption DEF Missing, Pieces
<1> SUFFICES ASSUME Init PROVE TypeOK
  OBVIOUS
<1>3. files \in [Part -> Missing .. Pieces]
  BY <1>2 DEF Init
<1> QED BY <1>1, <1>2, <1>3 DEF Init, TypeOK, Command

LEMMA TypesNext == TypeOK /\ [Next]_vars => TypeOK'
<1> SUFFICES ASSUME TypeOK, [Next]_vars PROVE TypeOK'
  OBVIOUS
<1> USE UpdateEnvAssumption DEF Part, Missing, Pieces
<1>1. /\ jobs \in Seq(Command) /\ tasks \in Seq({"update", "remove"})
      /\ \A c \in Command : Append(jobs, c) \in Seq(Command)
      /\ Append(tasks, "update") \in Seq({"update", "remove"})
      /\ Append(tasks, "remove") \in Seq({"update", "remove"})
      /\ <<>> \in Seq(Command) /\ <<>> \in Seq({"update", "remove"})
  BY JobsAppend DEF TypeOK
<1>2. ASSUME NEW e \in {"update", "remove"}, tasks # <<>>
      PROVE  Append(tasks, e) # <<>> /\ Append(tasks, e)[1] = tasks[1]
  BY <1>1, <1>2
<1>3. \A i \in 0 .. Len(jobs) : SubSeq(jobs, i + 1, Len(jobs)) \in Seq(Command)
  BY <1>1, JobsDrop
<1>4. tasks # <<>> => Tail(tasks) \in Seq({"update", "remove"})
  BY <1>1, TasksTail
<1>5. ASSUME NEW c \in Command, ExecServices(c)
      PROVE  jobs' \in Seq(Command) /\ daemon' \in BOOLEAN /\ asked' \subseteq Command
  BY <1>1, <1>5 DEF ExecServices, TypeOK
<1>c. "start" \in Command /\ "stop" \in Command /\ "restart" \in Command /\ "switch" \in Command
  BY DEF Command
<1>6. CASE Open \/ Settings \/ Switch \/ ExitOrBoot \/ Begin
  <2>1. UNCHANGED <<disk, kills>> /\ asks' \in 0 .. MaxTasks
    BY <1>6 DEF Open, Settings, Switch, ExitOrBoot, Begin, Asks, counts, TypeOK
  <2>2. enabled' \in BOOLEAN /\ unnoticed' \in BOOLEAN
    BY <1>6 DEF Open, Settings, Switch, ExitOrBoot, Begin, Execute, services, TypeOK
  <2>3. UNCHANGED services \/ \E c \in Command : ExecServices(c)
    BY <1>6, <1>c DEF Open, Settings, Switch, ExitOrBoot, Begin, Execute
  <2>4. jobs' \in Seq(Command) /\ daemon' \in BOOLEAN /\ asked' \subseteq Command
    BY <2>3, <1>5 DEF services, TypeOK
  <2>5. /\ tasks' \in Seq({"update", "remove"})
        /\ pc' \in {"idle", "clean", "version"} \cup Part
        /\ pc' # "idle" => tasks' # <<>> /\ (tasks'[1] = "remove" <=> pc' = "clean")
    <3>1. CASE Begin
      <4>1. tasks[1] \in {"update", "remove"} /\ tasks' = tasks /\ tasks # <<>>
            /\ pc' = IF tasks[1] = "update" THEN "env" ELSE "clean"
        BY <1>1, <3>1 DEF Begin
      <4> QED BY <1>1, <4>1
    <3>2. CASE Open \/ Settings \/ Switch \/ ExitOrBoot
      <4>1. pc' = pc /\ (tasks' = tasks \/ \E e \in {"update", "remove"} : tasks' = Append(tasks, e))
        BY <3>2 DEF Open, Settings, Switch, ExitOrBoot, Execute
      <4>2. tasks' \in Seq({"update", "remove"}) /\ (tasks # <<>> => tasks' # <<>> /\ tasks'[1] = tasks[1])
        BY <4>1, <1>1, <1>2
      <4> QED BY <4>1, <4>2 DEF TypeOK
    <3> QED BY <1>6, <3>1, <3>2
  <2> QED BY <2>1, <2>2, <2>4, <2>5 DEF TypeOK, disk
<1>7. CASE Unpack \/ Install
  <2>1. /\ pc \in Part /\ pc' \in Part \cup {"version"}
        /\ UNCHANGED <<app, version, tasks, services, unnoticed, counts>>
        /\ files' \in {[files EXCEPT ![pc] = Pieces], [files EXCEPT ![pc] = app]}
    BY <1>7 DEF Unpack, Install, Unpacked, After
  <2>2. app \in Missing .. Pieces /\ Pieces \in Missing .. Pieces
    BY DEF TypeOK
  <2>3. files' \in [Part -> Missing .. Pieces]
    BY <2>1, <2>2 DEF TypeOK
  <2>4. pc # "clean" /\ pc' # "clean" /\ pc # "idle"
    BY <2>1
  <2> QED BY <2>1, <2>3, <2>4 DEF TypeOK, services, counts
<1>8. CASE Unpacks
  <2>1. /\ pc \in {"env", "bin", "web", "linuxdeploy"} /\ pc' = After[pc]
        /\ UNCHANGED <<app, version, tasks, services, unnoticed, counts>>
    BY <1>8 DEF Unpacks, Unpacked, After
  <2>2. pc' \in Part /\ pc' # "clean" /\ pc # "clean" /\ pc' # "idle" /\ pc # "idle"
    BY <2>1 DEF After
  <2>3. ASSUME NEW p \in Part
        PROVE  (CASE p = pc -> app
                  [] p = "applets" /\ pc = "bin" -> Pieces
                  [] OTHER -> files[p]) \in Missing .. Pieces
    <3>1. app \in Missing .. Pieces /\ Pieces \in Missing .. Pieces /\ files[p] \in Missing .. Pieces
      BY DEF TypeOK
    <3>2. CASE p = pc
      BY <3>1, <3>2
    <3>3. CASE p # pc /\ p = "applets" /\ pc = "bin"
      BY <3>1, <3>3
    <3>4. CASE p # pc /\ ~(p = "applets" /\ pc = "bin")
      BY <3>1, <3>4
    <3> QED BY <3>2, <3>3, <3>4
  <2>4. files' \in [Part -> Missing .. Pieces]
    BY <1>8, <2>3 DEF Unpacks
  <2> QED BY <2>1, <2>2, <2>4 DEF TypeOK, services, counts
<1>9. CASE UnpackFails \/ SetVersion \/ SetVersionFails \/ Cleaned
  <2>1. pc # "idle" /\ tasks # <<>>
    BY <1>9 DEF UnpackFails, SetVersion, SetVersionFails, Cleaned, Unpacked, After, TypeOK
  <2>2. /\ pc' = "idle" /\ tasks' \in Seq({"update", "remove"})
        /\ UNCHANGED <<app, files, counts>> /\ version' \in {Missing} \cup 1 .. MaxApp
    BY <1>9, <2>1, <1>4 DEF UnpackFails, SetVersion, SetVersionFails, Cleaned, End, disk, TypeOK
  <2>3. UNCHANGED services \/ (ExecServices("start") /\ UNCHANGED enabled)
    BY <1>9 DEF UnpackFails, SetVersion, SetVersionFails, Cleaned
  <2>4. /\ jobs' \in Seq(Command) /\ daemon' \in BOOLEAN /\ asked' \subseteq Command
        /\ enabled' \in BOOLEAN
    BY <2>3, <1>5, <1>c DEF services, TypeOK
  <2>5. unnoticed' \in BOOLEAN
    BY <1>9 DEF UnpackFails, SetVersion, SetVersionFails, Cleaned, CutShort, TypeOK
  <2> QED BY <2>2, <2>4, <2>5 DEF TypeOK, counts
<1>10. CASE InstallFails
  BY <1>10 DEF InstallFails, TypeOK, disk, services, counts
<1>11. CASE Clean
  <2>1. /\ UNCHANGED <<app, tasks, pc, services, unnoticed, counts>>
        /\ version' \in {version, Missing}
    BY <1>11 DEF Clean
  <2>2. files' \in [Part -> Missing .. Pieces]
    <3>1. Pieces \in Missing .. Pieces /\ Missing \in Missing .. Pieces
      OBVIOUS
    <3> QED BY <1>11, <3>1 DEF Clean, TypeOK
  <2> QED BY <2>1, <2>2 DEF TypeOK, services, counts
<1>12. CASE \E i \in DOMAIN jobs : RunJob(i)
  <2>1. PICK i \in DOMAIN jobs : RunJob(i)
    BY <1>12
  <2>2. RemoveAt(jobs, i) \in Seq(Command)
    BY <1>1, JobsTake
  <2>3. daemon' \in BOOLEAN /\ jobs' \in Seq(Command)
    BY <2>1, <2>2 DEF RunJob
  <2> QED BY <2>1, <2>3 DEF RunJob, TypeOK, disk, counts
<1>13. CASE Kill \/ Upgrade
  <2>1. jobs' \in Seq(Command)
    BY <1>13, <1>1, <1>3 DEF Kill, Upgrade
  <2>2. daemon' \in BOOLEAN
    BY <1>13 DEF Kill, Upgrade, TypeOK
  <2>3. asked' \subseteq Command
    <3>1. ToSet(jobs') \subseteq Command
      BY <2>1 DEF ToSet
    <3> QED BY <1>13, <3>1, <1>c DEF Kill, Upgrade, Dies
  <2>4. /\ pc' = "idle" /\ tasks' = <<>> /\ UNCHANGED <<files, enabled, asks>>
        /\ unnoticed' \in BOOLEAN
    BY <1>13 DEF Kill, Upgrade, Dies, CutShort, TypeOK
  <2>5. /\ app' \in 1 .. MaxApp /\ kills' \in 0 .. MaxKills
        /\ version' \in {Missing} \cup 1 .. MaxApp
    <3>1. CASE Kill
      <4>1. version' \in {version, Missing} /\ app' = app /\ kills' = kills + 1 /\ kills < MaxKills
        BY <3>1 DEF Kill
      <4> QED BY <4>1 DEF TypeOK
    <3>2. CASE Upgrade
      <4>1. version' = version /\ app < MaxApp /\ app' = app + 1 /\ kills' = kills
        BY <3>2 DEF Upgrade
      <4> QED BY <4>1 DEF TypeOK
    <3> QED BY <1>13, <3>1, <3>2
  <2> QED BY <1>1, <2>1, <2>2, <2>3, <2>4, <2>5 DEF TypeOK
<1>14. CASE UNCHANGED vars
  BY <1>14 DEF vars, disk, services, counts, TypeOK
<1> QED BY <1>6, <1>7, <1>8, <1>9, <1>10, <1>11, <1>12, <1>13, <1>14 DEF Next, Fails

\* The environment keeps to its types, whatever fails and whatever order jobs
\* are done in.
THEOREM EnvTypes == Spec => []TypeOK
BY TypesInit, TypesNext, PTL DEF Spec

\* The jobs left are among the commands remembered.  With none left, the
\* service runs only if one of these starts it, and if none stops it, it does
\* run where it can.
DaemonInv ==
  /\ \A i \in DOMAIN jobs : jobs[i] \in asked
  /\ jobs = <<>> /\ daemon => asked \cap Starting # {}
  /\ jobs = <<>> /\ pc = "idle" /\ enabled /\ IsLatestVersion /\ ~unnoticed
       /\ "stop" \notin asked => daemon

ServicesInv == TypeOK /\ EnvInv /\ DaemonInv

LEMMA ServicesInit == Init => ServicesInv
BY TypesInit, EnvInit DEF Init, ServicesInv, DaemonInv

\* A command is given to ExecService, by the main thread or by a task.
LEMMA ServicesGiven ==
  ASSUME TypeOK, DaemonInv, NEW cmd \in Command, ExecServices(cmd)
  PROVE  DaemonInv'
<1>1. /\ jobs' = Append(jobs, cmd) /\ jobs \in Seq(Command)
      /\ asked' = (IF jobs = <<>> THEN {} ELSE asked) \cup {cmd}
  BY DEF ExecServices, TypeOK
<1>2. jobs' # <<>>
  BY <1>1, JobsAppend
<1>3. ASSUME NEW i \in DOMAIN jobs' PROVE jobs'[i] \in asked'
  <2>1. jobs'[i] = cmd \/ (jobs # <<>> /\ \E k \in DOMAIN jobs : jobs'[i] = jobs[k])
    BY <1>1, JobsAppend
  <2> QED BY <1>1, <2>1 DEF DaemonInv
<1> QED BY <1>2, <1>3 DEF DaemonInv

\* None is given, and the environment is not taken for the app's any more than
\* before.
LEMMA ServicesLeft ==
  ASSUME DaemonInv, UNCHANGED services,
         \/ pc' # "idle"
         \/ pc = "idle" /\ UNCHANGED <<app, version, unnoticed>>
         \/ unnoticed' \/ version' # app'
  PROVE  DaemonInv'
<1>1. /\ jobs' = jobs /\ (daemon' <=> daemon) /\ asked' = asked
      /\ (enabled' <=> enabled)
  BY DEF services
<1> QED BY <1>1 DEF DaemonInv, IsLatestVersion

\* One of the jobs is done: a start starts the service of an environment that
\* is complete (telnetd, httpd).
LEMMA ServicesRun ==
  ASSUME ServicesInv, NEW i \in DOMAIN jobs, RunJob(i)
  PROVE  DaemonInv'
<1> DEFINE cmd == IF jobs[i] # "switch" THEN jobs[i] ELSE IF enabled THEN "start" ELSE "stop"
<1>1. /\ UNCHANGED <<disk, pc>> /\ (enabled' <=> enabled) /\ (unnoticed' <=> unnoticed)
      /\ asked' = asked /\ jobs' = RemoveAt(jobs, i)
      /\ daemon' = (\/ cmd \in {"start", "restart"} /\ enabled /\ CanStart
                    \/ cmd = "start" /\ daemon)
  BY DEF RunJob
<1>2. jobs \in Seq(Command) /\ (\A k \in DOMAIN jobs : jobs[k] \in asked) /\ jobs[i] \in Command
  BY DEF ServicesInv, TypeOK, DaemonInv
<1>3. \A k \in DOMAIN jobs' : jobs'[k] \in asked
  BY <1>1, <1>2, JobsTake
<1>4. daemon' => asked \cap Starting # {}
  BY <1>1, <1>2 DEF Starting
<1>5. IsLatestVersion /\ pc = "idle" /\ ~unnoticed => CanStart
  <2>1. app \in 1 .. MaxApp
    BY DEF ServicesInv, TypeOK
  <2> QED BY <2>1 DEF ServicesInv, EnvInv, LatestIsComplete, CanStart, Part
<1>6. enabled /\ CanStart /\ jobs[i] # "stop" => daemon'
  BY <1>1, <1>2 DEF Command
<1>7. (IsLatestVersion' <=> IsLatestVersion) /\ pc' = pc
  BY <1>1 DEF IsLatestVersion, disk
<1> HIDE DEF cmd
<1> QED BY <1>1, <1>2, <1>3, <1>4, <1>5, <1>6, <1>7 DEF DaemonInv

\* The process ends: what is asked is what is left of it.
LEMMA ServicesDie ==
  ASSUME Dies, jobs' \in Seq(Command), daemon' \in BOOLEAN
  PROVE  DaemonInv'
<1>1. asked' = IF jobs' # <<>> THEN ToSet(jobs') ELSE IF daemon' THEN {"start"} ELSE {"stop"}
  BY DEF Dies
<1>2. CASE jobs' = <<>>
  <2>1. DOMAIN jobs' = {}
    BY <1>2
  <2>2. IF daemon' THEN asked' = {"start"} ELSE asked' = {"stop"}
    BY <1>1, <1>2
  <2> QED BY <2>1, <2>2 DEF DaemonInv, Starting
<1>3. CASE jobs' # <<>>
  <2>1. \A i \in DOMAIN jobs' : jobs'[i] \in asked'
    BY <1>1, <1>3 DEF ToSet
  <2> QED BY <1>3, <2>1 DEF DaemonInv
<1> QED BY <1>2, <1>3

LEMMA ServicesNext == ServicesInv /\ [Next]_vars => ServicesInv'
<1> SUFFICES ASSUME ServicesInv, [Next]_vars PROVE ServicesInv'
  OBVIOUS
<1>1. TypeOK' /\ EnvInv'
  BY TypesNext, EnvNext DEF ServicesInv
<1>2. /\ TypeOK /\ EnvInv /\ DaemonInv
      /\ "start" \in Command /\ "stop" \in Command /\ "restart" \in Command /\ "switch" \in Command
  BY DEF ServicesInv, Command
<1>3. DaemonInv'
  <2>1. CASE Open \/ Settings \/ Switch \/ ExitOrBoot
    <3>1. CASE \E c \in Command : ExecServices(c)
      BY <1>2, <3>1, ServicesGiven
    <3>2. CASE UNCHANGED services
      <4>1. UNCHANGED <<app, version, pc, unnoticed>>
        BY <2>1 DEF Open, Settings, Switch, ExitOrBoot, disk
      <4>2. pc = "idle" \/ pc' # "idle"
        BY <4>1
      <4> QED BY <1>2, <3>2, <4>1, <4>2, ServicesLeft
    <3> QED BY <1>2, <2>1, <3>1, <3>2 DEF Open, Settings, Switch, ExitOrBoot, Execute
  <2>2. CASE Begin \/ SetVersion
    <3>1. ExecServices("start") \/ ExecServices("stop")
      BY <2>2 DEF Begin, SetVersion
    <3> QED BY <1>2, <3>1, ServicesGiven
  <2>3. CASE Unpack \/ Unpacks \/ Install \/ InstallFails \/ Clean
    <3>1. UNCHANGED services /\ pc' # "idle"
      BY <2>3 DEF Unpack, Unpacks, Install, InstallFails, Clean, Unpacked, After
    <3> QED BY <1>2, <3>1, ServicesLeft
  <2>4. CASE UnpackFails \/ SetVersionFails \/ Cleaned
    <3>1. UNCHANGED <<app, services>> /\ version' \in {version, Missing}
      BY <2>4 DEF UnpackFails, SetVersionFails, Cleaned, disk
    <3>2. unnoticed' \/ version # app
      BY <2>4 DEF UnpackFails, SetVersionFails, Cleaned, CutShort, IsLatestVersion
    <3>3. unnoticed' \/ version' # app'
      BY <1>2, <3>1, <3>2 DEF TypeOK, Missing
    <3> QED BY <1>2, <3>1, <3>3, ServicesLeft
  <2>5. CASE \E i \in DOMAIN jobs : RunJob(i)
    BY <2>5, ServicesRun
  <2>6. CASE Kill \/ Upgrade
    <3>1. Dies /\ jobs' \in Seq(Command) /\ daemon' \in BOOLEAN
      BY <1>1, <2>6 DEF Kill, Upgrade, TypeOK
    <3> QED BY <3>1, ServicesDie
  <2>7. CASE UNCHANGED vars
    <3>1. UNCHANGED services /\ UNCHANGED <<app, version, pc, unnoticed>>
      BY <2>7 DEF vars, disk
    <3>2. pc = "idle" \/ pc' # "idle"
      BY <3>1
    <3> QED BY <1>2, <3>1, <3>2, ServicesLeft
  <2> QED BY <2>1, <2>2, <2>3, <2>4, <2>5, <2>6, <2>7 DEF Next, Fails
<1> QED BY <1>1, <1>3 DEF ServicesInv

\* In whatever order the jobs are done, and whatever updates and removals were
\* cut short or replaced by a newer app's: once all is quiet the service does
\* not run unasked, and runs if it was asked to and not told to stop besides
\* (execServices, telnetd, httpd).
THEOREM ServiceRunsAsAsked == Spec => []ServiceAsAsked
<1>1. Spec => []ServicesInv
  BY ServicesInit, ServicesNext, PTL DEF Spec
<1>2. ServicesInv => ServiceAsAsked
  BY DEF ServicesInv, DaemonInv, ServiceAsAsked, Starting
<1> QED BY <1>1, <1>2, PTL
=============================================================================
