---------------------------- MODULE DeviceServer ----------------------------
(***************************************************************************)
(* What the device RPC server promises to the programs that call it,       *)
(* whatever their number, their order and their patience: a call is a      *)
(* series of RPCs, most often one, each a name and a payload.  Each takes  *)
(* effect at one instant, at most once and in order, before the answer.    *)
(* The answer tells of the last RPC, and goes to the call it belongs to    *)
(* and to none other.  No call is dropped but for what it holds itself.    *)
(***************************************************************************)
EXTENDS Naturals, Sequences

CONSTANTS Client, Rpc, Shapes, MaxRequests

VARIABLES
  issued,   \* the number of calls each client has issued
  waiting,  \* whether the client waits for its last call
  calls,    \* the calls that are not over, and what is left of each
  executed, \* the requests whose RPCs took effect, one entry for each RPC
  answers   \* the answers that have not been read

vars == <<issued, waiting, calls, executed, answers>>

Init ==
  /\ issued = [c \in Client |-> 0]
  /\ waiting = [c \in Client |-> FALSE]
  /\ calls = {}
  /\ executed = <<>>
  /\ answers = {}

Issue(c, frames) ==
  /\ ~waiting[c]
  /\ issued[c] < MaxRequests
  /\ issued' = [issued EXCEPT ![c] = @ + 1]
  /\ waiting' = [waiting EXCEPT ![c] = TRUE]
  /\ LET r == [client |-> c, id |-> issued[c] + 1, frames |-> frames]
     IN calls' = calls \cup {[of |-> r, rest |-> frames]}
  /\ UNCHANGED <<executed, answers>>

\* The call k without its first two parts.
Onward(k) == [k EXCEPT !.rest = SubSeq(@, 3, Len(@))]

\* The answers, when the client of k is told body and still waits for it.
Told(k, body) ==
  IF waiting[k.of.client] /\ issued[k.of.client] = k.of.id
  THEN answers \cup {[client |-> k.of.client, id |-> k.of.id, body |-> body]}
  ELSE answers

\* The next RPC of k takes effect.
Perform(k) ==
  /\ Len(k.rest) > 1
  /\ k.rest[1].name \in Rpc /\ k.rest[2].well
  /\ executed' = Append(executed, k.of)
  /\ calls' = (calls \ {k}) \cup {Onward(k)}
  /\ UNCHANGED <<issued, waiting, answers>>

\* Nothing is left of k, and the last of it took effect.
Finish(k) ==
  /\ k.rest = <<>>
  /\ calls' = calls \ {k}
  /\ answers' = Told(k, "done")
  /\ UNCHANGED <<issued, waiting, executed>>

\* The next RPC of k is none, which is the answer if it is the last.
Refuse(k) ==
  /\ Len(k.rest) > 1
  /\ k.rest[1].name \notin Rpc
  /\ IF Len(k.rest) = 2
     THEN calls' = calls \ {k} /\ answers' = Told(k, "invalid")
     ELSE calls' = (calls \ {k}) \cup {Onward(k)} /\ UNCHANGED answers
  /\ UNCHANGED <<issued, waiting, executed>>

\* The next part of k is no RPC: it has no payload, or one that cannot be read.
Drop(k) ==
  /\ \/ Len(k.rest) = 1
     \/ Len(k.rest) > 1 /\ k.rest[1].name \in Rpc /\ ~k.rest[2].well
  /\ calls' = calls \ {k}
  /\ UNCHANGED <<issued, waiting, executed, answers>>

\* The server stops.
Stop ==
  /\ calls' = {}
  /\ UNCHANGED <<issued, waiting, executed, answers>>

Return(a) ==
  /\ waiting' = [waiting EXCEPT ![a.client] = FALSE]
  /\ answers' = answers \ {a}
  /\ UNCHANGED <<issued, calls, executed>>

\* A client gives up; its call may get lost.
Abandon(c) ==
  /\ waiting[c]
  /\ waiting' = [waiting EXCEPT ![c] = FALSE]
  /\ answers' = {a \in answers : a.client # c}
  /\ calls' \in {calls, {k \in calls : ~(k.of.client = c /\ k.of.id = issued[c])}}
  /\ UNCHANGED <<issued, executed>>

Next ==
  \/ \E c \in Client, frames \in Shapes : Issue(c, frames)
  \/ \E k \in calls : Perform(k) \/ Finish(k) \/ Refuse(k) \/ Drop(k)
  \/ Stop
  \/ \E a \in answers : Return(a)
  \/ \E c \in Client : Abandon(c)

Spec == Init /\ [][Next]_vars
=============================================================================
