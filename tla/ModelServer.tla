---------------------------- MODULE ModelServer ----------------------------
(***************************************************************************)
(* What the model server of the app promises to the programs that call it, *)
(* whatever the order of their calls (api_docs/anx/README.md, section 2)   *)
(* and whatever the number of parts: there is one current model; a request *)
(* is a series of RPCs, most often one, each of which takes effect at one  *)
(* instant, at most once and in order, before the answer; LoadModel        *)
(* replaces the current model, UnloadModel removes it, InvokeModel gives   *)
(* the output of the model that is current at that instant; any other part *)
(* gives a failure and has no effect.  What the last RPC gives is the      *)
(* answer, which reaches the call it belongs to, and none other.           *)
(***************************************************************************)
EXTENDS Naturals, Sequences

CONSTANTS Client, Model, NoModel, Shapes, MaxRequests

VARIABLES
  model,    \* the current model
  issued,   \* the number of calls each client has issued
  waiting,  \* whether the client waits for its last call
  calls,    \* the calls with parts that have not taken effect, and those parts
  answers   \* the answers that have not been read

vars == <<model, issued, waiting, calls, answers>>

Init ==
  /\ model = NoModel
  /\ issued = [c \in Client |-> 0]
  /\ waiting = [c \in Client |-> FALSE]
  /\ calls = {}
  /\ answers = {}

Issue(c, frames) ==
  /\ ~waiting[c]
  /\ issued[c] < MaxRequests
  /\ issued' = [issued EXCEPT ![c] = @ + 1]
  /\ waiting' = [waiting EXCEPT ![c] = TRUE]
  /\ calls' = calls \cup {[client |-> c, id |-> issued[c] + 1, rest |-> frames]}
  /\ UNCHANGED <<model, answers>>

\* What remains of the call k without its first n parts.
Remains(k, n) == SubSeq(k.rest, n + 1, Len(k.rest))

Shortened(k, n) ==
  (calls \ {k}) \cup
    (IF Len(k.rest) = n THEN {} ELSE {[k EXCEPT !.rest = Remains(k, n)]})

\* The next RPC of the call k, of n parts, takes effect: the model becomes m,
\* and body is the answer when no part is left and the client still waits.
TakeEffect(k, n, m, body) ==
  /\ Len(k.rest) >= n
  /\ calls' = Shortened(k, n)
  /\ model' = m
  /\ answers' =
       IF Len(k.rest) = n /\ waiting[k.client] /\ issued[k.client] = k.id
       THEN answers \cup {[client |-> k.client, id |-> k.id, body |-> body]}
       ELSE answers
  /\ UNCHANGED <<issued, waiting>>

Load(k) ==
  /\ k.rest[1].text = "LoadModel"
  /\ Len(k.rest) > 1
  /\ LET m == IF k.rest[2].data \in Model THEN k.rest[2].data ELSE NoModel
     IN TakeEffect(k, 2, m, [kind |-> "loaded", model |-> m])

Invoke(k) ==
  /\ k.rest[1].text = "InvokeModel"
  /\ TakeEffect(k, 2, model, [kind |-> "output", model |-> model])

Unload(k) ==
  /\ k.rest[1].text = "UnloadModel"
  /\ TakeEffect(k, 2, NoModel, [kind |-> "unloaded", model |-> NoModel])

Reject(k) ==
  /\ k.rest[1].text \notin {"LoadModel", "InvokeModel", "UnloadModel"}
  /\ TakeEffect(k, 1, model, [kind |-> "failure", model |-> NoModel])

\* An InvokeModel that does not suit the current model gives nothing.
Skip(k) ==
  /\ k.rest[1].text = "InvokeModel"
  /\ Len(k.rest) > 1
  /\ calls' = Shortened(k, 2)
  /\ UNCHANGED <<model, issued, waiting, answers>>

\* What is left of a call may be lost.
Lose(k) ==
  /\ calls' = calls \ {k}
  /\ UNCHANGED <<model, issued, waiting, answers>>

Return(a) ==
  /\ waiting' = [waiting EXCEPT ![a.client] = FALSE]
  /\ answers' = answers \ {a}
  /\ UNCHANGED <<model, issued, calls>>

Abandon(c) ==
  /\ waiting[c]
  /\ waiting' = [waiting EXCEPT ![c] = FALSE]
  /\ answers' = {a \in answers : a.client # c}
  /\ calls' \in {calls, {k \in calls : ~(k.client = c /\ k.id = issued[c])}}
  /\ UNCHANGED <<model, issued>>

Next ==
  \/ \E c \in Client, frames \in Shapes : Issue(c, frames)
  \/ \E k \in calls : Load(k) \/ Invoke(k) \/ Unload(k) \/ Reject(k) \/ Skip(k) \/ Lose(k)
  \/ \E a \in answers : Return(a)
  \/ \E c \in Client : Abandon(c)

Spec == Init /\ [][Next]_vars
=============================================================================
