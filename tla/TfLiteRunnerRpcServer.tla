----------------------- MODULE TfLiteRunnerRpcServer -----------------------
(***************************************************************************)
(* The native server that runs TensorFlow Lite models for the robot        *)
(* (common/src/main/cpp/src/tflite_runner_rpc_server.cpp): one thread in   *)
(* Loop(), one REP socket, and the vector of runners of which only the     *)
(* first is used.                                                          *)
(***************************************************************************)
EXTENDS RepSocket

CONSTANTS
  Model,     \* the model files clients may load
  Inputs,    \* the number of input tensors of each model
  NoModel,   \* a runner whose LoadModel found no usable model; no runner
  Shapes     \* the requests clients send, as sequences of parts

VARIABLES
  pc,           \* where the server thread is; "crashed": the process is gone
  is_running,   \* the flag the destructor clears
  runners       \* tflite_runners_, each entry the model it holds

vars == <<socketVars, pc, is_running, runners>>

RpcName == {"LoadModel", "InvokeModel", "UnloadModel"}

\* A part of a request is its bytes read as text ("other" stands for every
\* text that names no RPC) and its bytes parsed as a payload: the model file
\* of an anx.Payload or the number of tensors of an anx.PayloadArray.
ASSUME TfLiteAssumption ==
  /\ Frame \subseteq [text : RpcName \cup {"other"}, data : Model \cup Nat]
  /\ Answer = [kind : {"loaded", "output", "unloaded", "failure"},
               model : Model \cup {NoModel}]
  /\ Shapes \subseteq Frames
  /\ Inputs \in [Model -> Nat]
  /\ NoModel \notin Model
  /\ MaxRequests \in Nat \ {0}
  /\ NoRequest \notin Request

Handler == RpcName \cup {"unknown"}

TypeOK ==
  /\ SocketTypeOK
  /\ pc \in {"poll", "exited", "crashed"} \cup Handler
  /\ is_running \in BOOLEAN
  /\ runners \in Seq(Model \cup {NoModel})

\* The state after the constructor and Start().
Init ==
  /\ SocketInit
  /\ pc = "poll"
  /\ is_running = TRUE
  /\ runners = <<>>

-----------------------------------------------------------------------------
InputTensors(m) == IF m \in Model THEN Inputs[m] ELSE 0

\* Mutant: UnloadModel() pops nothing.
UnloadedKeepsRunners(rs) == rs

\* The vector once UnloadModel() has popped every runner.
Unloaded(rs) == <<>>

\* The vector after UnloadModel(), emplace_back() and LoadModel() on its
\* first element.
Loaded(rs, m) == [Append(Unloaded(rs), NoModel) EXCEPT ![1] = m]

\* Mutant: no branch for the names that are not registered.
DispatchUnchecked(frame) == frame.text

Dispatch(frame) == IF frame.text \in RpcName THEN frame.text ELSE "unknown"

\* poll() reports input and the next part is taken as an RPC name, whether it
\* begins a request or is what a handler left of one.
RecvRpcName ==
  /\ pc = "poll"
  /\ is_running
  /\ \/ \E r \in inbox : RecvFirst(r) /\ pc' = Dispatch(Head(r.frames))
     \/ RecvMore /\ pc' = Dispatch(Head(parts))
  /\ UNCHANGED <<is_running, runners>>

\* Mutant: the handler calls recv() until it gets the payload.
PayloadMissingRetrying ==
  /\ pc \in RpcName
  /\ parts = <<>>
  /\ UNCHANGED <<socketVars, pc, is_running, runners>>

\* A handler asks for a payload the request does not have: recv() fails with
\* EFSM, the exception is caught in the loop, and no reply is sent.
PayloadMissing ==
  /\ pc \in RpcName
  /\ parts = <<>>
  /\ pc' = "poll"
  /\ UNCHANGED <<socketVars, is_running, runners>>

\* LoadModel: the reply is sent whether or not the model is valid.
LoadModel ==
  /\ pc = "LoadModel"
  /\ parts # <<>>
  /\ LET m == IF Head(parts).data \in Model THEN Head(parts).data ELSE NoModel
     IN /\ runners' = Loaded(runners, m)
        /\ RecvMoreThenSend([kind |-> "loaded", model |-> m])
  /\ pc' = "poll"
  /\ UNCHANGED is_running

\* A file that is no model leaves a null interpreter, which
\* TfLiteInterpreterAllocateTensors may not survive.
LoadModelCrash ==
  /\ pc = "LoadModel"
  /\ parts # <<>>
  /\ Head(parts).data \notin Model
  /\ pc' = "crashed"
  /\ UNCHANGED <<socketVars, is_running, runners>>

InvokeModel ==
  /\ pc = "InvokeModel"
  /\ parts # <<>>
  /\ runners # <<>>
  /\ Head(parts).data = InputTensors(runners[1])
  /\ RecvMoreThenSend([kind |-> "output", model |-> runners[1]])
  /\ pc' = "poll"
  /\ UNCHANGED <<is_running, runners>>

\* The number of tensors differs: an error is logged and nothing is sent.
InvokeModelMismatch ==
  /\ pc = "InvokeModel"
  /\ parts # <<>>
  /\ runners # <<>>
  /\ Head(parts).data # InputTensors(runners[1])
  /\ RecvMore
  /\ pc' = "poll"
  /\ UNCHANGED <<is_running, runners>>

\* tflite_runners_[0] of an empty vector: the number of tensors read there is
\* any number, most often one that differs, or the access kills the process.
InvokeNoModel ==
  /\ pc = "InvokeModel"
  /\ parts # <<>>
  /\ runners = <<>>
  /\ \/ RecvMore /\ pc' = "poll"
     \/ UNCHANGED socketVars /\ pc' = "crashed"
  /\ UNCHANGED <<is_running, runners>>

\* The null interpreter LoadModel() may have left is invoked.
InvokeModelCrash ==
  /\ pc = "InvokeModel"
  /\ parts # <<>>
  /\ runners # <<>>
  /\ runners[1] = NoModel
  /\ Head(parts).data = InputTensors(NoModel)
  /\ pc' = "crashed"
  /\ UNCHANGED <<socketVars, is_running, runners>>

UnloadModel ==
  /\ pc = "UnloadModel"
  /\ parts # <<>>
  /\ runners' = Unloaded(runners)
  /\ RecvMoreThenSend([kind |-> "unloaded", model |-> NoModel])
  /\ pc' = "poll"
  /\ UNCHANGED is_running

\* Mutant: an unknown RPC is only logged.
UnknownRpcSilent ==
  /\ pc = "unknown"
  /\ pc' = "poll"
  /\ UNCHANGED <<socketVars, is_running, runners>>

\* An unknown RPC is refused at once: when the request has more parts, the
\* send() fails and its next part is read as an RPC name.
UnknownRpc ==
  /\ pc = "unknown"
  /\ Send([kind |-> "failure", model |-> NoModel])
  /\ pc' = "poll"
  /\ UNCHANGED <<is_running, runners>>

\* Mutant: the flag is looked at only between two requests.
ExitLoopWhenReplied ==
  /\ pc = "poll"
  /\ ~is_running
  /\ ~sendingReply
  /\ pc' = "exited"
  /\ UNCHANGED <<socketVars, is_running, runners>>

ExitLoop ==
  /\ pc = "poll"
  /\ ~is_running
  /\ pc' = "exited"
  /\ UNCHANGED <<socketVars, is_running, runners>>

Server ==
  \/ RecvRpcName \/ PayloadMissing
  \/ LoadModel \/ LoadModelCrash
  \/ InvokeModel \/ InvokeModelMismatch \/ InvokeNoModel \/ InvokeModelCrash
  \/ UnloadModel \/ UnknownRpc \/ ExitLoop

-----------------------------------------------------------------------------
\* The destructor: it clears the flag and waits in join() for "exited".
Destroy ==
  /\ is_running
  /\ pc # "crashed"
  /\ is_running' = FALSE
  /\ UNCHANGED <<socketVars, pc, runners>>

ClientIssue ==
  /\ \E c \in Client, frames \in Shapes : Issue(c, frames)
  /\ UNCHANGED <<pc, is_running, runners>>

ClientCollect ==
  /\ \E a \in answers : Collect(a)
  /\ UNCHANGED <<pc, is_running, runners>>

ClientGiveUp ==
  /\ \E c \in Client : GiveUp(c)
  /\ UNCHANGED <<pc, is_running, runners>>

Next == Server \/ Destroy \/ ClientIssue \/ ClientCollect \/ ClientGiveUp

Spec == Init /\ [][Next]_vars

\* The server thread runs: nothing it does blocks, poll() times out after
\* TIMEOUT_IN_MS and every recv() it makes finds a part or fails.
FairSpec == Spec /\ WF_vars(Server)

\* What a careful client keeps to: it invokes a model only once one is loaded.
InvokeAfterLoad ==
  \A r \in inbox' \ inbox :
    r.frames[1].text = "InvokeModel" => runners # <<>>

CarefulSpec == Init /\ [][Next /\ InvokeAfterLoad]_vars /\ WF_vars(Server)

-----------------------------------------------------------------------------
Current == IF runners = <<>> THEN NoModel ELSE runners[1]

\* The request begun last has not been dealt with.
InService == pc \in Handler \cup {"crashed"} \/ parts # <<>>

\* The loop is back at poll() and still owes a reply: nothing will send it, and
\* no other request is ever read.
Stuck == pc = "poll" /\ sendingReply

\* Whatever the number of parts, the socket is stuck only after a request that
\* ends in an RPC without its payload, or in an InvokeModel whose number of
\* tensors is not the one of the current model.
StuckOnlyByMisuse ==
  Stuck =>
    /\ peer # NoRequest
    /\ LET n == Len(peer.frames)
       IN \/ peer.frames[n].text \in RpcName
          \/ /\ n > 1
             /\ peer.frames[n - 1].text = "InvokeModel"
             /\ runners = <<>> \/ peer.frames[n].data # InputTensors(runners[1])

\* The parts of a request that have not taken effect: a handler has taken the
\* RPC name out of parts and done nothing yet.
Rest ==
  LET n == Len(peer.frames) - Len(parts)
  IN SubSeq(peer.frames, IF pc \in {"poll", "exited"} THEN n + 1 ELSE n, Len(peer.frames))

Call(r, rest) == [client |-> r.client, id |-> r.id, rest |-> rest]

\* The calls the server has not dealt with: all of those it has not begun, and
\* the rest of the one it serves.
Pending ==
  {Call(r, r.frames) : r \in inbox} \cup (IF InService THEN {Call(peer, Rest)} ELSE {})

\* Every client sees one current model: each RPC of a request takes effect at
\* most once and in order, at one instant, and the answer is the one of the
\* last (Loop as a whole).
MS == INSTANCE ModelServer WITH
        model <- Current,
        calls <- Pending

OneCurrentModel == MS!Spec

\* As long as the server lives, is not being destroyed and its socket is not
\* stuck, every call is answered, unless its client gives up.
CallsAnswered ==
  \A c \in Client :
    waiting[c] ~> \/ ~waiting[c]
                  \/ \E a \in answers : a.client = c
                  \/ ~is_running
                  \/ Stuck
                  \/ pc = "crashed"

\* What api_docs/anx/README.md gives of each call, a request and its response:
\* a call made as it says is answered.
DocumentedCallsAnswered ==
  \A c \in Client :
    waiting[c] ~> \/ ~waiting[c]
                  \/ \E a \in answers : a.client = c
                  \/ ~is_running

\* The destructor's join() returns, whatever the clients have sent and even
\* when the socket is stuck.
JoinReturns == ~is_running ~> pc \in {"exited", "crashed"}
=============================================================================
