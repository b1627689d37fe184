-------------------- MODULE TfLiteRunnerRpcServer_proofs --------------------
(***************************************************************************)
(* Proofs about TfLiteRunnerRpcServer, for every set of clients, models    *)
(* and requests.                                                           *)
(***************************************************************************)
EXTENDS TfLiteRunnerRpcServer, SequenceTheorems, TLAPS

-----------------------------------------------------------------------------
(* What every operation of RepSocket does to the types.                    *)

LEMMA SocketInitType ==
  ASSUME SocketInit, MaxRequests \in Nat
  PROVE  SocketTypeOK
<1>1. issued \in [Client -> 0 .. MaxRequests]
  BY DEF SocketInit
<1>2. waiting \in [Client -> BOOLEAN] /\ sendingReply \in BOOLEAN
  BY DEF SocketInit
<1>3. inbox \in SUBSET Request /\ answers \in SUBSET Reply
  BY DEF SocketInit
<1>4. peer \in Request \cup {NoRequest} /\ parts \in Seq(Frame)
  BY DEF SocketInit
<1>5. QED
  BY <1>1, <1>2, <1>3, <1>4 DEF SocketTypeOK

\* An answer is one for the request being served.
LEMMA DeliveredType ==
  ASSUME SocketTypeOK, peer \in Request, NEW body \in Answer
  PROVE  Delivered(body) \in SUBSET Reply
BY DEF SocketTypeOK, Delivered, Request, Reply

LEMMA SendType ==
  ASSUME SocketTypeOK, sendingReply => peer \in Request,
         NEW body \in Answer, Send(body)
  PROVE  SocketTypeOK'
BY DeliveredType DEF SocketTypeOK, Send

LEMMA RecvMoreThenSendType ==
  ASSUME SocketTypeOK, peer \in Request, NEW body \in Answer,
         RecvMoreThenSend(body)
  PROVE  SocketTypeOK'
<1>1. Delivered(body) \in SUBSET Reply
  BY DeliveredType
<1>2. Tail(parts) \in Seq(Frame)
  BY DEF SocketTypeOK, RecvMoreThenSend
<1>3. QED
  BY <1>1, <1>2 DEF SocketTypeOK, RecvMoreThenSend

LEMMA RecvMoreType ==
  ASSUME SocketTypeOK, RecvMore
  PROVE  SocketTypeOK'
BY DEF SocketTypeOK, RecvMore

LEMMA RecvFirstType ==
  ASSUME SocketTypeOK, NEW r \in inbox, RecvFirst(r)
  PROVE  SocketTypeOK'
<1>1. r \in Request /\ r.frames \in Seq(Frame) /\ r.frames # <<>>
  BY DEF SocketTypeOK, Request, Frames
<1>2. QED
  BY <1>1 DEF SocketTypeOK, RecvFirst

LEMMA IssueType ==
  ASSUME SocketTypeOK, MaxRequests \in Nat,
         NEW c \in Client, NEW frames \in Frames, Issue(c, frames)
  PROVE  SocketTypeOK'
<1>1. issued[c] + 1 \in 1 .. MaxRequests
  BY DEF SocketTypeOK, Issue
<1>2. [client |-> c, id |-> issued[c] + 1, frames |-> frames] \in Request
  BY <1>1 DEF Request
<1>3. issued' \in [Client -> 0 .. MaxRequests]
  BY <1>1 DEF Issue, SocketTypeOK
<1>4. QED
  BY <1>2, <1>3 DEF SocketTypeOK, Issue

LEMMA CollectType ==
  ASSUME SocketTypeOK, NEW a \in answers, Collect(a)
  PROVE  SocketTypeOK'
BY DEF SocketTypeOK, Collect

LEMMA GiveUpType ==
  ASSUME SocketTypeOK, NEW c \in Client, GiveUp(c)
  PROVE  SocketTypeOK'
BY DEF SocketTypeOK, GiveUp

\* Reading one part leaves one fewer.
LEMMA OnePartFewer ==
  ASSUME NEW s \in Seq(Frame), s # <<>>
  PROVE  /\ Len(s) \in Nat \ {0}
         /\ Head(s) \in Frame
         /\ Tail(s) \in Seq(Frame)
         /\ Len(Tail(s)) = Len(s) - 1
         /\ Tail(s) = <<>> <=> Len(s) = 1
<1>1. Len(s) \in Nat \ {0} /\ Head(s) \in Frame
  BY EmptySeq
<1>2. Tail(s) \in Seq(Frame) /\ Len(Tail(s)) = Len(s) - 1
  BY HeadTailProperties
<1>3. Tail(s) = <<>> <=> Len(Tail(s)) = 0
  BY <1>2, EmptySeq
<1>4. QED
  BY <1>1, <1>2, <1>3

-----------------------------------------------------------------------------
\* The socket and the thread agree: a part is unread only while no reply is
\* owed, and a handler runs with the request it was dispatched for.
SocketInv ==
  /\ parts # <<>> => ~sendingReply
  /\ parts # <<>> \/ sendingReply \/ pc \in Handler => peer \in Request
  /\ pc \in Handler /\ parts = <<>> => sendingReply

LEMMA ClientType ==
  ASSUME SocketTypeOK, ClientIssue \/ ClientCollect \/ ClientGiveUp
  PROVE  SocketTypeOK'
BY IssueType, CollectType, GiveUpType, TfLiteAssumption
   DEF ClientIssue, ClientCollect, ClientGiveUp
-----------------------------------------------------------------------------
(* Type correctness.                                                       *)

TypeInv == TypeOK /\ SocketInv

LEMMA TypeInvInit == Init => TypeInv
<1> SUFFICES ASSUME Init PROVE TypeInv
  OBVIOUS
<1>1. SocketTypeOK
  BY SocketInitType, TfLiteAssumption DEF Init
<1>2. QED
  BY <1>1 DEF Init, SocketInit, TypeInv, TypeOK, SocketInv, Handler, RpcName

LEMMA TypeInvNext == TypeInv /\ [Next]_vars => TypeInv'
<1> SUFFICES ASSUME TypeInv, [Next]_vars
             PROVE  TypeInv'
  OBVIOUS
<1> USE DEF TypeInv, TypeOK
<1>1. CASE RecvRpcName
  <2>1. ASSUME NEW r \in inbox, RecvFirst(r), pc' = Dispatch(Head(r.frames))
        PROVE  TypeInv'
    <3>1. r \in Request /\ r.frames \in Seq(Frame) /\ r.frames # <<>>
      BY DEF SocketTypeOK, Request, Frames
    <3>2. pc' \in Handler
      BY <2>1 DEF Dispatch, Handler
    <3>3. SocketTypeOK'
      BY <2>1, RecvFirstType
    <3>4. SocketInv'
      BY <2>1, <3>1 DEF SocketInv, RecvFirst
    <3>5. QED
      BY <1>1, <3>2, <3>3, <3>4 DEF RecvRpcName
  <2>2. ASSUME RecvMore, pc' = Dispatch(Head(parts))
        PROVE  TypeInv'
    <3>1. pc' \in Handler
      BY <2>2 DEF Dispatch, Handler
    <3>2. SocketTypeOK'
      BY <2>2, RecvMoreType
    <3>3. SocketInv'
      BY <2>2 DEF SocketInv, RecvMore
    <3>4. QED
      BY <1>1, <3>1, <3>2, <3>3 DEF RecvRpcName
  <2>3. QED
    BY <1>1, <2>1, <2>2 DEF RecvRpcName
<1>2. CASE PayloadMissing
  BY <1>2 DEF PayloadMissing, socketVars, SocketTypeOK, SocketInv, Handler
<1>3. CASE LoadModel
  <2> DEFINE m == IF Head(parts).data \in Model THEN Head(parts).data ELSE NoModel
             body == [kind |-> "loaded", model |-> m]
  <2>1. m \in Model \cup {NoModel}
    OBVIOUS
  <2>2. body \in Answer
    BY <2>1, TfLiteAssumption
  <2>3. RecvMoreThenSend(body) /\ peer \in Request
    BY <1>3 DEF LoadModel, SocketInv
  <2>4. runners' \in Seq(Model \cup {NoModel})
    <3> HIDE DEF m
    <3>1. runners' = [<<NoModel>> EXCEPT ![1] = m]
      BY <1>3 DEF LoadModel, Loaded, Unloaded, m
    <3>2. runners' = <<m>>
      BY <3>1
    <3>3. QED
      BY <2>1, <3>2
  <2> HIDE DEF body
  <2>5. SocketTypeOK'
    BY <2>2, <2>3, RecvMoreThenSendType
  <2>6. SocketInv'
    BY <1>3, <2>3 DEF SocketInv, RecvMoreThenSend, LoadModel, Handler, RpcName
  <2>7. QED
    BY <1>3, <2>4, <2>5, <2>6 DEF LoadModel
<1>4. CASE LoadModelCrash \/ InvokeModelCrash
  BY <1>4 DEF LoadModelCrash, InvokeModelCrash, socketVars, SocketTypeOK,
     SocketInv, Handler, RpcName
<1>5. CASE InvokeModel
  <2> DEFINE body == [kind |-> "output", model |-> runners[1]]
  <2>1. runners[1] \in Model \cup {NoModel}
    BY <1>5 DEF InvokeModel
  <2>2. body \in Answer
    BY <2>1, TfLiteAssumption
  <2>3. RecvMoreThenSend(body) /\ peer \in Request
    BY <1>5 DEF InvokeModel, SocketInv
  <2> HIDE DEF body
  <2>4. SocketTypeOK'
    BY <2>2, <2>3, RecvMoreThenSendType
  <2>5. SocketInv'
    BY <1>5, <2>3 DEF SocketInv, RecvMoreThenSend, InvokeModel, Handler, RpcName
  <2>6. QED
    BY <1>5, <2>4, <2>5 DEF InvokeModel
<1>6. CASE InvokeModelMismatch
  <2>1. SocketTypeOK'
    BY <1>6, RecvMoreType DEF InvokeModelMismatch
  <2>2. QED
    BY <1>6, <2>1 DEF InvokeModelMismatch, RecvMore, SocketInv, Handler, RpcName
<1>7. CASE InvokeNoModel
  <2>1. CASE RecvMore /\ pc' = "poll"
    <3>1. SocketTypeOK'
      BY <2>1, RecvMoreType
    <3>2. QED
      BY <1>7, <2>1, <3>1 DEF InvokeNoModel, RecvMore, SocketInv, Handler, RpcName
  <2>2. CASE UNCHANGED socketVars /\ pc' = "crashed"
    BY <1>7, <2>2 DEF InvokeNoModel, socketVars, SocketTypeOK, SocketInv, Handler,
       RpcName
  <2>3. QED
    BY <1>7, <2>1, <2>2 DEF InvokeNoModel
<1>8. CASE UnloadModel
  <2> DEFINE body == [kind |-> "unloaded", model |-> NoModel]
  <2>1. body \in Answer
    BY TfLiteAssumption
  <2>2. RecvMoreThenSend(body) /\ peer \in Request
    BY <1>8 DEF UnloadModel, SocketInv
  <2> HIDE DEF body
  <2>3. SocketTypeOK'
    BY <2>1, <2>2, RecvMoreThenSendType
  <2>4. SocketInv'
    BY <1>8, <2>2 DEF SocketInv, RecvMoreThenSend, UnloadModel, Handler, RpcName
  <2>5. QED
    BY <1>8, <2>3, <2>4 DEF UnloadModel, Unloaded
<1>9. CASE UnknownRpc
  <2> DEFINE body == [kind |-> "failure", model |-> NoModel]
  <2>1. body \in Answer
    BY TfLiteAssumption
  <2>2. Send(body) /\ peer \in Request
    BY <1>9 DEF UnknownRpc, SocketInv, Handler
  <2> HIDE DEF body
  <2>3. SocketTypeOK'
    BY <2>1, <2>2, SendType
  <2>4. SocketInv'
    BY <1>9, <2>2 DEF SocketInv, Send, UnknownRpc, Handler, RpcName
  <2>5. QED
    BY <1>9, <2>3, <2>4 DEF UnknownRpc
<1>10. CASE ExitLoop
  BY <1>10 DEF ExitLoop, socketVars, SocketTypeOK, SocketInv, Handler, RpcName
<1>11. CASE Destroy
  BY <1>11 DEF Destroy, socketVars, SocketTypeOK, SocketInv
<1>12. CASE ClientIssue \/ ClientCollect \/ ClientGiveUp
  <2>1. SocketTypeOK'
    BY <1>12, ClientType
  <2>2. UNCHANGED <<peer, parts, sendingReply, pc, is_running, runners>>
    BY <1>12 DEF ClientIssue, ClientCollect, ClientGiveUp, Issue, Collect, GiveUp
  <2>3. QED
    BY <2>1, <2>2 DEF SocketInv
<1>13. CASE UNCHANGED vars
  BY <1>13 DEF vars, socketVars, SocketTypeOK, SocketInv
<1>14. QED
  BY <1>1, <1>2, <1>3, <1>4, <1>5, <1>6, <1>7, <1>8, <1>9, <1>10, <1>11, <1>12,
     <1>13 DEF Next, Server

\* Every variable keeps its type, and a handler always has a request to serve.
THEOREM TypeCorrect == Spec => []TypeOK
<1>1. TypeInv => TypeOK
  BY DEF TypeInv
<1>2. QED
  BY TypeInvInit, TypeInvNext, <1>1, PTL DEF Spec
-----------------------------------------------------------------------------
(* The socket is stuck only after a misuse.  The property is not inductive: *)
(* what the server still has to read of a request must be tied to the      *)
(* request itself, and the handler to the part it was dispatched for.      *)

\* The part of the request read last.
At == Len(peer.frames) - Len(parts)

ServingInv ==
  parts # <<>> \/ pc \in RpcName =>
    /\ At \in 1 .. Len(peer.frames)
    /\ \A i \in 1 .. Len(parts) : parts[i] = peer.frames[At + i]
    /\ pc \in RpcName => peer.frames[At].text = pc

StuckInv == TypeInv /\ ServingInv /\ StuckOnlyByMisuse

\* Taking a part moves on by one in the request.
LEMMA OneMoreTaken ==
  ASSUME TypeInv, ServingInv, parts # <<>>, parts' = Tail(parts), peer' = peer
  PROVE  /\ peer # NoRequest /\ peer.frames \in Seq(Frame)
         /\ At \in 1 .. Len(peer.frames) - 1 /\ At' = At + 1
         /\ Head(parts) = peer.frames[At']
         /\ \A i \in 1 .. Len(parts') : parts'[i] = peer'.frames[At' + i]
         /\ parts' = <<>> => At' = Len(peer.frames)
<1>1. peer \in Request /\ parts \in Seq(Frame)
  BY DEF TypeInv, TypeOK, SocketTypeOK, SocketInv
<1>2. peer # NoRequest /\ peer.frames \in Seq(Frame) /\ Len(peer.frames) \in Nat
  BY <1>1, TfLiteAssumption DEF Request, Frames
<1>3. /\ Len(parts) \in Nat \ {0} /\ Head(parts) = parts[1]
      /\ Len(parts') = Len(parts) - 1
      /\ \A i \in 1 .. Len(parts') : parts'[i] = parts[i + 1]
  BY <1>1, OnePartFewer
<1>4. At' = At + 1
  BY <1>2, <1>3 DEF At
<1>5. Len(parts) = Len(peer.frames) - At /\ At \in 1 .. Len(peer.frames) - 1
  BY <1>2, <1>3 DEF At, ServingInv
<1>6. \A i \in 1 .. Len(parts) : parts[i] = peer.frames[At + i]
  BY DEF ServingInv
<1>7. Head(parts) = peer.frames[At']
  BY <1>3, <1>4, <1>6
<1>8. ASSUME NEW i \in 1 .. Len(parts')
      PROVE  parts'[i] = peer'.frames[At' + i]
  <2>1. parts'[i] = parts[i + 1] /\ i + 1 \in 1 .. Len(parts)
    BY <1>3
  <2>2. parts[i + 1] = peer.frames[At + (i + 1)]
    BY <2>1, <1>6
  <2>3. At + (i + 1) = At' + i
    BY <1>4, <1>5
  <2>4. QED
    BY <2>1, <2>2, <2>3
<1>9. parts' = <<>> => At' = Len(peer.frames)
  <2>1. parts' = <<>> => Len(parts) = 1
    BY <1>1, OnePartFewer
  <2>2. QED
    BY <2>1, <1>2, <1>4, <1>5
<1>10. QED
  BY <1>2, <1>4, <1>5, <1>7, <1>8, <1>9

LEMMA StuckInvInit == Init => StuckInv
BY TypeInvInit DEF Init, SocketInit, StuckInv, ServingInv, StuckOnlyByMisuse, Stuck,
   RpcName

LEMMA StuckInvNext ==
  ASSUME StuckInv, [Next]_vars
  PROVE  StuckInv'
<1> USE DEF StuckInv, Stuck
<1>1. TypeInv'
  BY TypeInvNext
<1>2. CASE RecvRpcName
  <2>1. ASSUME NEW r \in inbox, RecvFirst(r), pc' = Dispatch(Head(r.frames))
        PROVE  ServingInv' /\ StuckOnlyByMisuse'
    <3>1. r.frames \in Seq(Frame) /\ r.frames # <<>>
      BY DEF TypeInv, TypeOK, SocketTypeOK, Request, Frames
    <3>2. /\ Len(r.frames) \in Nat \ {0} /\ Head(r.frames) = r.frames[1]
          /\ Len(Tail(r.frames)) = Len(r.frames) - 1
          /\ \A i \in 1 .. Len(Tail(r.frames)) : Tail(r.frames)[i] = r.frames[i + 1]
      BY <3>1, OnePartFewer
    <3>3. peer' = r /\ parts' = Tail(r.frames)
      BY <2>1 DEF RecvFirst
    <3>4. At' = 1
      BY <3>2, <3>3 DEF At
    <3>5. pc' \in Handler /\ (pc' \in RpcName => r.frames[1].text = pc')
      BY <2>1, <3>2 DEF Dispatch, Handler, RpcName
    <3>6. ServingInv'
      BY <3>2, <3>3, <3>4, <3>5 DEF ServingInv
    <3>7. QED
      BY <3>5, <3>6 DEF StuckOnlyByMisuse, Handler, RpcName
  <2>2. ASSUME RecvMore, pc' = Dispatch(Head(parts)), pc = "poll"
        PROVE  ServingInv' /\ StuckOnlyByMisuse'
    <3>1. parts # <<>> /\ parts' = Tail(parts) /\ peer' = peer
      BY <2>2 DEF RecvMore
    <3>2. pc' \in Handler /\ (pc' \in RpcName => Head(parts).text = pc')
      BY <2>2 DEF Dispatch, Handler, RpcName
    <3>3. ServingInv'
      BY <3>1, <3>2, OneMoreTaken DEF ServingInv
    <3>4. QED
      BY <3>2, <3>3 DEF StuckOnlyByMisuse, Handler, RpcName
  <2>3. QED
    BY <1>1, <1>2, <2>1, <2>2 DEF RecvRpcName
<1>3. CASE PayloadMissing
  <2>1. /\ pc \in RpcName /\ parts = <<>> /\ pc' = "poll"
        /\ UNCHANGED <<parts, peer>>
    BY <1>3 DEF PayloadMissing, socketVars
  <2>2. peer \in Request
    BY <2>1 DEF TypeInv, SocketInv, Handler
  <2>3. peer # NoRequest /\ Len(peer.frames) \in Nat
    BY <2>2, TfLiteAssumption DEF Request, Frames
  <2>4. At = Len(peer.frames)
    BY <2>1, <2>3 DEF At
  <2>5. peer.frames[Len(peer.frames)].text \in RpcName
    BY <2>1, <2>4 DEF ServingInv
  <2>6. QED
    BY <1>1, <2>1, <2>3, <2>5 DEF ServingInv, StuckOnlyByMisuse, RpcName
\* A handler that reads its payload and replies owes nothing any more.
<1>4. CASE LoadModel \/ InvokeModel \/ UnloadModel
  <2>1. /\ parts # <<>> /\ parts' = Tail(parts) /\ peer' = peer
        /\ pc' = "poll" /\ sendingReply' = FALSE
    BY <1>4 DEF LoadModel, InvokeModel, UnloadModel, RecvMoreThenSend
  <2>2. ServingInv'
    BY <2>1, OneMoreTaken DEF ServingInv, RpcName
  <2>3. QED
    BY <1>1, <2>1, <2>2 DEF StuckOnlyByMisuse
<1>5. CASE InvokeModelMismatch \/ (InvokeNoModel /\ pc' = "poll")
  <2>1. /\ pc = "InvokeModel" /\ parts # <<>> /\ parts' = Tail(parts)
        /\ sendingReply' = (parts' = <<>>)
        /\ peer' = peer /\ pc' = "poll" /\ UNCHANGED runners
        /\ runners = <<>> \/ Head(parts).data # InputTensors(runners[1])
    BY <1>5 DEF InvokeModelMismatch, InvokeNoModel, RecvMore
  <2>2. /\ peer # NoRequest /\ Len(peer.frames) \in Nat
        /\ At \in 1 .. Len(peer.frames) - 1
        /\ Head(parts) = peer.frames[At + 1]
        /\ parts' = <<>> => At + 1 = Len(peer.frames)
    BY <2>1, OneMoreTaken
  <2>3. peer.frames[At].text = "InvokeModel"
    BY <2>1 DEF ServingInv, RpcName
  <2>4. StuckOnlyByMisuse'
    <3>1. SUFFICES ASSUME Stuck'
                   PROVE  /\ Len(peer.frames) > 1
                          /\ peer.frames[Len(peer.frames) - 1].text = "InvokeModel"
                          /\ \/ runners = <<>>
                             \/ peer.frames[Len(peer.frames)].data # InputTensors(runners[1])
      BY <2>1, <2>2 DEF StuckOnlyByMisuse, InputTensors
    <3>2. At + 1 = Len(peer.frames)
      BY <3>1, <2>1, <2>2
    <3>3. Len(peer.frames) - 1 = At /\ Len(peer.frames) > 1
      BY <3>2, <2>2
    <3>4. QED
      BY <3>2, <3>3, <2>1, <2>2, <2>3
  <2>5. ServingInv'
    BY <2>1, OneMoreTaken DEF ServingInv, RpcName
  <2>6. QED
    BY <1>1, <2>4, <2>5
<1>6. CASE UnknownRpc
  BY <1>1, <1>6 DEF UnknownRpc, Send, ServingInv, At, StuckOnlyByMisuse, RpcName
<1>7. CASE \/ LoadModelCrash \/ InvokeModelCrash \/ ExitLoop
           \/ InvokeNoModel /\ pc' = "crashed"
  <2>1. pc' \in {"crashed", "exited"} /\ (UNCHANGED <<parts, peer>>)
    BY <1>7 DEF LoadModelCrash, InvokeModelCrash, InvokeNoModel, ExitLoop,
       socketVars
  <2>2. QED
    BY <1>1, <2>1 DEF ServingInv, At, StuckOnlyByMisuse, RpcName
<1>8. CASE UNCHANGED <<peer, parts, sendingReply, pc, runners>>
  BY <1>1, <1>8 DEF ServingInv, At, StuckOnlyByMisuse, InputTensors
<1>9. QED
  BY <1>2, <1>3, <1>4, <1>5, <1>6, <1>7, <1>8
     DEF Next, Server, InvokeNoModel, Destroy, ClientIssue, ClientCollect,
         ClientGiveUp, Issue, Collect, GiveUp, socketVars, vars

\* Whatever parts the clients send, the loop is back at poll() with a reply it
\* owes only after a request that ends in an RPC without a payload or in an
\* InvokeModel whose tensors do not fit the current model.
THEOREM StuckOnlyAfterMisuse == Spec => []StuckOnlyByMisuse
<1>1. StuckInv /\ [Next]_vars => StuckInv'
  BY StuckInvNext
<1>2. StuckInv => StuckOnlyByMisuse
  BY DEF StuckInv
<1>3. QED
  BY StuckInvInit, <1>1, <1>2, PTL DEF Spec
-----------------------------------------------------------------------------
(* The server implements ModelServer: each step of its thread is the       *)
(* effect of one RPC of the request it serves, the loss of what is left of *)
(* it, or nothing to the callers.                                          *)

Same(r, q) == r.client = q.client /\ r.id = q.id

\* No two requests in transit are the same call, nor is the one begun last.
UniqueInv ==
  /\ \A r \in inbox : r.id <= issued[r.client]
  /\ \A r, q \in inbox : Same(r, q) => r = q
  /\ peer # NoRequest =>
       peer.id <= issued[peer.client] /\ \A r \in inbox : ~Same(r, peer)

\* A part that names no RPC is refused.
RefusedInv ==
  pc = "unknown" => At \in 1 .. Len(peer.frames) /\ peer.frames[At].text \notin RpcName

\* What kills the process is a payload it has not taken from its request.
CrashInv == pc = "crashed" => parts # <<>>

MapInv == StuckInv /\ UniqueInv /\ RefusedInv /\ CrashInv

LEMMA UniqueNext ==
  ASSUME TypeInv, UniqueInv, [Next]_vars
  PROVE  UniqueInv'
<1>1. /\ issued \in [Client -> 0 .. MaxRequests] /\ inbox \subseteq Request
      /\ peer \in Request \cup {NoRequest} /\ NoRequest \notin Request
  BY TfLiteAssumption DEF TypeInv, TypeOK, SocketTypeOK
<1>2. ASSUME issued' = issued, inbox' \subseteq inbox, peer' = peer PROVE UniqueInv'
  BY <1>2 DEF UniqueInv
<1>3. ASSUME NEW r \in inbox, RecvFirst(r) PROVE UniqueInv'
  <2>1. issued' = issued /\ inbox' = inbox \ {r} /\ peer' = r
    BY <1>3 DEF RecvFirst
  <2>2. QED
    BY <2>1 DEF UniqueInv, Same
<1>4. ASSUME NEW c \in Client, NEW frames \in Shapes, Issue(c, frames) PROVE UniqueInv'
  <2> DEFINE new == [client |-> c, id |-> issued[c] + 1, frames |-> frames]
  <2>1. inbox' = inbox \cup {new} /\ peer' = peer /\ issued' = [issued EXCEPT ![c] = @ + 1]
    BY <1>4 DEF Issue
  <2>2. /\ issued'[c] = issued[c] + 1 /\ issued[c] \in Nat
        /\ \A d \in Client : d # c => issued'[d] = issued[d]
    BY <1>1, <2>1
  <2>3. new.client = c /\ new.id = issued[c] + 1
    OBVIOUS
  <2> HIDE DEF new
  <2>4. ASSUME NEW r \in Request, r.id <= issued[r.client]
        PROVE  r.id <= issued'[r.client] /\ ~Same(r, new) /\ ~Same(new, r)
    <3>1. r.client \in Client /\ r.id \in Nat /\ issued[r.client] \in Nat
      BY <1>1 DEF Request
    <3>2. QED
      BY <2>2, <2>3, <2>4, <3>1 DEF Same
  <2>5. ASSUME NEW r \in inbox'
        PROVE  r.id <= issued'[r.client] /\ \A q \in inbox' : Same(r, q) => r = q
    <3>1. \A q \in inbox : q \in Request /\ q.id <= issued[q.client]
      BY <1>1 DEF UniqueInv
    <3>2. CASE r = new
      BY <2>1, <2>2, <2>3, <2>4, <3>1, <3>2
    <3>3. CASE r \in inbox
      BY <2>1, <2>4, <3>1, <3>3 DEF UniqueInv
    <3>4. QED
      BY <2>1, <3>2, <3>3
  <2>6. ASSUME peer # NoRequest
        PROVE  peer.id <= issued'[peer.client] /\ \A r \in inbox' : ~Same(r, peer)
    <3>1. peer \in Request /\ peer.id <= issued[peer.client] /\ \A r \in inbox : ~Same(r, peer)
      BY <1>1, <2>6 DEF UniqueInv
    <3>2. QED
      BY <2>1, <2>4, <3>1
  <2>7. QED
    BY <2>1, <2>5, <2>6 DEF UniqueInv
<1>5. \/ issued' = issued /\ inbox' \subseteq inbox /\ peer' = peer
      \/ \E r \in inbox : RecvFirst(r)
      \/ \E c \in Client, frames \in Shapes : Issue(c, frames)
  BY DEF Next, Server, RecvRpcName, PayloadMissing, LoadModel, LoadModelCrash, InvokeModel,
     InvokeModelMismatch, InvokeNoModel, InvokeModelCrash, UnloadModel, UnknownRpc, ExitLoop,
     Destroy, ClientIssue, ClientCollect, ClientGiveUp, RecvMore, RecvMoreThenSend, Send,
     Collect, GiveUp, vars, socketVars
<1>6. QED
  BY <1>2, <1>3, <1>4, <1>5

LEMMA RefusedNext ==
  ASSUME StuckInv, RefusedInv, [Next]_vars
  PROVE  RefusedInv'
<1>1. CASE RecvRpcName
  <2>1. ASSUME NEW r \in inbox, RecvFirst(r), pc' = Dispatch(Head(r.frames))
        PROVE  RefusedInv'
    <3>1. r.frames \in Seq(Frame) /\ r.frames # <<>>
      BY DEF StuckInv, TypeInv, TypeOK, SocketTypeOK, Request, Frames
    <3>2. Len(r.frames) \in Nat \ {0} /\ Len(Tail(r.frames)) = Len(r.frames) - 1
      BY <3>1, OnePartFewer
    <3>3. peer' = r /\ parts' = Tail(r.frames)
      BY <2>1 DEF RecvFirst
    <3>4. At' = 1 /\ 1 \in 1 .. Len(r.frames) /\ Head(r.frames) = r.frames[1]
      BY <3>1, <3>2, <3>3 DEF At
    <3>5. QED
      BY <2>1, <3>3, <3>4 DEF RefusedInv, Dispatch, RpcName
  <2>2. ASSUME RecvMore, pc' = Dispatch(Head(parts)) PROVE RefusedInv'
    <3>1. parts # <<>> /\ parts' = Tail(parts) /\ peer' = peer
      BY <2>2 DEF RecvMore
    <3>2. /\ At \in 1 .. Len(peer.frames) - 1 /\ At' = At + 1 /\ Head(parts) = peer.frames[At']
          /\ peer.frames \in Seq(Frame)
      BY <3>1, OneMoreTaken DEF StuckInv
    <3>3. At' \in 1 .. Len(peer.frames)
      BY <3>2
    <3>4. QED
      BY <2>2, <3>1, <3>2, <3>3 DEF RefusedInv, Dispatch, RpcName
  <2>3. QED
    BY <1>1, <2>1, <2>2 DEF RecvRpcName
<1>2. CASE ~RecvRpcName
  <2>1. pc' # "unknown" \/ UNCHANGED <<pc, peer, parts>>
    BY <1>2 DEF Next, Server, PayloadMissing, LoadModel, LoadModelCrash, InvokeModel,
       InvokeModelMismatch, InvokeNoModel, InvokeModelCrash, UnloadModel, UnknownRpc, ExitLoop,
       Destroy, ClientIssue, ClientCollect, ClientGiveUp, Issue, Collect, GiveUp, vars, socketVars
  <2>2. QED
    BY <2>1 DEF RefusedInv, At
<1>3. QED
  BY <1>1, <1>2

LEMMA MapInit == Init => MapInv
BY StuckInvInit DEF Init, SocketInit, MapInv, UniqueInv, RefusedInv, CrashInv

LEMMA MapNext == MapInv /\ [Next]_vars => MapInv'
<1> SUFFICES ASSUME MapInv, [Next]_vars
             PROVE  MapInv'
  OBVIOUS
<1>1. CrashInv'
  BY DEF MapInv, CrashInv, Next, Server, RecvRpcName, PayloadMissing, LoadModel, LoadModelCrash,
     InvokeModel, InvokeModelMismatch, InvokeNoModel, InvokeModelCrash, UnloadModel, UnknownRpc,
     ExitLoop, Destroy, ClientIssue, ClientCollect, ClientGiveUp, Issue, Collect, GiveUp, Dispatch,
     RpcName, vars, socketVars
<1>2. QED
  BY <1>1, StuckInvNext, UniqueNext, RefusedNext DEF MapInv, StuckInv

\* The end of the end of a sequence.
LEMMA EndOfEnd ==
  ASSUME NEW S, NEW s \in Seq(S), NEW a \in 1 .. Len(s), NEW n \in Nat, n <= Len(s) - a + 1
  PROVE  LET t == SubSeq(s, a, Len(s))
         IN /\ t \in Seq(S)
            /\ Len(t) = Len(s) - a + 1
            /\ \A i \in 1 .. Len(t) : t[i] = s[a + i - 1]
            /\ SubSeq(t, n + 1, Len(t)) = SubSeq(s, a + n, Len(s))
<1> DEFINE l == Len(s)
           t == SubSeq(s, a, l)
<1>1. l \in Nat
  OBVIOUS
<1>2. \A i \in a .. l : s[i] \in S
  OBVIOUS
<1> HIDE DEF l
<1>3. a \in Int /\ l \in Int /\ a <= l
  BY <1>1 DEF l
<1>4. /\ t \in Seq(S) /\ Len(t) = l - a + 1
      /\ \A i \in 1 .. l - a + 1 : t[i] = s[a + i - 1]
  BY <1>2, <1>3, SubSeqProperties
<1>5. SubSeq(t, n + 1, l - a + 1) = SubSeq(s, a + n, l)
  <2>1. CASE n + 1 <= l - a + 1
    <3>1. a \in 1 .. l /\ l \in 1 .. l /\ n + 1 \in 1 .. l - a + 1 /\ l - a + 1 \in 1 .. l - a + 1
      BY <2>1, <1>1, <1>3 DEF l
    <3>2. SubSeq(SubSeq(s, a, l), n + 1, l - a + 1) = SubSeq(s, a + (n + 1) - 1, a + (l - a + 1) - 1)
      BY <3>1, <1>4, SubSeqOfSubSeq DEF l
    <3>3. a + (n + 1) - 1 = a + n /\ a + (l - a + 1) - 1 = l
      BY <1>1, <1>3
    <3>4. QED
      BY <3>2, <3>3
  <2>2. CASE ~(n + 1 <= l - a + 1)
    <3>1. l - a + 1 < n + 1 /\ l < a + n /\ n + 1 \in Int /\ l - a + 1 \in Int /\ a + n \in Int
      BY <2>2, <1>1, <1>3
    <3>2. SubSeq(t, n + 1, l - a + 1) = <<>> /\ SubSeq(s, a + n, l) = <<>>
      <4> HIDE DEF t
      <4>1. QED
        BY <3>1, <1>3, SubSeqEmpty
    <3>3. QED
      BY <3>2
  <2>3. QED
    BY <2>1, <2>2
<1>6. QED
  BY <1>4, <1>5 DEF l

\* What a handler has before it: the part it was dispatched for, and then the
\* parts that have not been read.
LEMMA RestInHandler ==
  ASSUME MapInv, pc \in Handler
  PROVE  /\ peer \in Request /\ peer.frames \in Seq(Frame)
         /\ At \in 1 .. Len(peer.frames)
         /\ Rest = SubSeq(peer.frames, At, Len(peer.frames))
         /\ Len(Rest) = Len(parts) + 1
         /\ IF pc \in RpcName THEN Rest[1].text = pc ELSE Rest[1].text \notin RpcName
         /\ parts # <<>> => Rest[2] = Head(parts)
<1>1. /\ peer \in Request /\ peer.frames \in Seq(Frame) /\ Len(peer.frames) \in Nat
      /\ parts \in Seq(Frame) /\ Len(parts) \in Nat
  BY DEF MapInv, StuckInv, TypeInv, TypeOK, SocketTypeOK, SocketInv, Request, Frames
<1>2. /\ At \in 1 .. Len(peer.frames)
      /\ IF pc \in RpcName THEN peer.frames[At].text = pc ELSE peer.frames[At].text \notin RpcName
  BY DEF MapInv, StuckInv, ServingInv, RefusedInv, Handler
<1>3. Rest = SubSeq(peer.frames, At, Len(peer.frames))
  BY DEF Rest, At, Handler, RpcName
<1>4. /\ Len(Rest) = Len(peer.frames) - At + 1
      /\ \A i \in 1 .. Len(Rest) : Rest[i] = peer.frames[At + i - 1]
  <2>1. 0 \in Nat /\ 0 <= Len(peer.frames) - At + 1
    BY <1>1, <1>2
  <2>2. QED
    BY <1>1, <1>2, <1>3, <2>1, EndOfEnd
<1>5. Len(Rest) = Len(parts) + 1
  BY <1>1, <1>4 DEF At
<1>6. Rest[1] = peer.frames[At]
  BY <1>1, <1>2, <1>4
<1>7. ASSUME parts # <<>> PROVE Rest[2] = Head(parts)
  <2>1. Len(parts) \in Nat \ {0} /\ Head(parts) = parts[1]
    BY <1>1, <1>7, OnePartFewer
  <2>2. parts[1] = peer.frames[At + 1]
    BY <1>7, <2>1 DEF MapInv, StuckInv, ServingInv
  <2>3. Rest[2] = peer.frames[At + 1]
    BY <1>1, <1>2, <1>4, <1>5, <2>1
  <2>4. QED
    BY <2>1, <2>2, <2>3
<1>8. QED
  BY <1>1, <1>2, <1>3, <1>5, <1>6, <1>7

\* A handler that has read its payload, if it needs one, and is done has taken
\* one RPC, of n parts, off the call it serves.
LEMMA Dealt ==
  ASSUME MapInv, pc \in Handler, pc' = "poll", peer' = peer, inbox' = inbox,
         NEW n \in {1, 2}, parts' \in Seq(Frame), Len(parts') = Len(parts) + 1 - n
  PROVE  LET k == Call(peer, Rest)
         IN /\ k \in Pending
            /\ Pending' = MS!Shortened(k, n)
            /\ Len(Rest) >= n
            /\ Len(Rest) = n <=> parts' = <<>>
<1> DEFINE k == Call(peer, Rest)
           l == Len(peer.frames)
<1>1. /\ peer \in Request /\ peer.frames \in Seq(Frame) /\ l \in Nat
      /\ parts \in Seq(Frame) /\ Len(parts) \in Nat /\ Len(parts') \in Nat
      /\ At \in 1 .. l /\ Rest = SubSeq(peer.frames, At, l) /\ Len(Rest) = Len(parts) + 1
  BY RestInHandler DEF MapInv, StuckInv, TypeInv, TypeOK, SocketTypeOK
<1>2. Len(Rest) >= n /\ At + Len(parts) = l
  BY <1>1 DEF At
<1>3. Len(Rest) = n <=> parts' = <<>>
  <2>1. parts' = <<>> <=> Len(parts') = 0
    BY EmptySeq
  <2>2. QED
    BY <1>1, <2>1
<1>4. Rest' = SubSeq(peer.frames, At + n, l)
  <2>1. Rest' = SubSeq(peer.frames, l - Len(parts') + 1, l)
    BY DEF Rest
  <2>2. Len(parts') = Len(parts) + 1 - n /\ n \in Nat
    OBVIOUS
  <2> DEFINE before == Len(parts)
             after == Len(parts')
  <2>3. /\ l \in Nat /\ At \in Nat /\ before \in Nat /\ At + before = l
        /\ n \in Nat /\ after = before + 1 - n
    BY <1>1, <1>2, <2>2
  <2> HIDE DEF l, before, after
  <2>4. l - after + 1 = At + n
    BY <2>3
  <2>5. QED
    BY <2>1, <2>4 DEF l, after
<1>5. SubSeq(Rest, n + 1, Len(Rest)) = Rest'
  <2>1. n \in Nat /\ n <= l - At + 1
    BY <1>1, <1>2
  <2>2. QED
    BY <1>1, <1>4, <2>1, EndOfEnd
<1>6. [k EXCEPT !.rest = Rest'] = Call(peer, Rest')
  BY DEF Call
<1>7. k \notin {Call(r, r.frames) : r \in inbox}
  BY <1>1, TfLiteAssumption DEF MapInv, UniqueInv, Same, Call
<1>8. InService /\ (InService' <=> parts' # <<>>)
  BY DEF InService, Handler, RpcName
<1>9. /\ Pending = {Call(r, r.frames) : r \in inbox} \cup {k}
      /\ Pending' = {Call(r, r.frames) : r \in inbox} \cup
                       (IF parts' = <<>> THEN {} ELSE {Call(peer, Rest')})
  BY <1>8 DEF Pending, Call
<1>10. k.rest = Rest
  BY DEF Call
<1>11. Pending' = MS!Shortened(k, n)
  <2>1. Pending \ {k} = {Call(r, r.frames) : r \in inbox}
    BY <1>7, <1>9
  <2>2. MS!Shortened(k, n) = (Pending \ {k}) \cup
          (IF Len(Rest) = n THEN {} ELSE {[k EXCEPT !.rest = SubSeq(Rest, n + 1, Len(Rest))]})
    BY <1>10 DEF MS!Shortened, MS!Remains
  <2> HIDE DEF k
  <2>3. QED
    BY <1>3, <1>5, <1>6, <1>9, <2>1, <2>2
<1>12. QED
  BY <1>2, <1>3, <1>9, <1>11

\* A handler that replies takes effect, and its reply is the answer when no
\* part of the request is left.
LEMMA Effect ==
  ASSUME MapInv, pc \in Handler, pc' = "poll", peer' = peer, inbox' = inbox,
         UNCHANGED <<issued, waiting>>,
         NEW n \in {1, 2}, parts' \in Seq(Frame), Len(parts') = Len(parts) + 1 - n,
         NEW body, answers' = IF parts' = <<>> THEN Delivered(body) ELSE answers
  PROVE  Call(peer, Rest) \in Pending /\ MS!TakeEffect(Call(peer, Rest), n, Current', body)
<1> DEFINE k == Call(peer, Rest)
<1>1. k.rest = Rest /\ k.client = peer.client /\ k.id = peer.id
  BY DEF Call
<1>2. /\ k \in Pending /\ Pending' = MS!Shortened(k, n)
      /\ Len(Rest) >= n /\ (Len(Rest) = n <=> parts' = <<>>)
  BY Dealt
<1>3. answers' = IF Len(k.rest) = n /\ waiting[k.client] /\ issued[k.client] = k.id
                 THEN answers \cup {[client |-> k.client, id |-> k.id, body |-> body]}
                 ELSE answers
  BY <1>1, <1>2 DEF Delivered, Awaited
<1> HIDE DEF k
<1>4. MS!TakeEffect(k, n, Current', body)
  BY <1>1, <1>2, <1>3 DEF MS!TakeEffect
<1>5. QED
  BY <1>2, <1>4 DEF k

\* A handler that has read its payload has taken two parts of the request.
LEMMA PayloadRead ==
  ASSUME MapInv, parts # <<>>, parts' = Tail(parts)
  PROVE  parts' \in Seq(Frame) /\ Len(parts') = Len(parts) + 1 - 2
<1>1. parts \in Seq(Frame) /\ Len(parts) \in Nat
  BY DEF MapInv, StuckInv, TypeInv, TypeOK, SocketTypeOK
<1>2. parts' \in Seq(Frame) /\ Len(parts') = Len(parts) - 1
  BY <1>1, HeadTailProperties
<1>3. Len(parts) - 1 = Len(parts) + 1 - 2
  BY <1>1
<1>4. QED
  BY <1>2, <1>3

\* Each step of the server thread is one of ModelServer, or none.
LEMMA ServerMaps ==
  ASSUME MapInv, Server
  PROVE  [MS!Next]_MS!vars
<1> DEFINE k == Call(peer, Rest)
<1>1. k.rest = Rest
  BY DEF Call
<1>2. parts \in Seq(Frame) /\ Len(parts) \in Nat /\ runners \in Seq(Model \cup {NoModel})
  BY DEF MapInv, StuckInv, TypeInv, TypeOK, SocketTypeOK
<1>3. ASSUME pc \in Handler
      PROVE  /\ IF pc \in RpcName THEN k.rest[1].text = pc ELSE k.rest[1].text \notin RpcName
             /\ Len(k.rest) = Len(parts) + 1
             /\ parts # <<>> => k.rest[2] = Head(parts)
  BY <1>1, <1>3, RestInHandler
<1> HIDE DEF k
<1>4. CASE RecvRpcName
  <2>1. UNCHANGED <<issued, waiting, answers, runners>> /\ pc = "poll" /\ pc' \in Handler
    BY <1>4 DEF RecvRpcName, RecvFirst, RecvMore, Dispatch, Handler
  <2>2. Current' = Current
    BY <2>1 DEF Current
  <2>3. InService'
    BY <2>1 DEF InService
  <2>4. Pending' = Pending
    <3>1. ASSUME NEW r \in inbox, RecvFirst(r) PROVE Pending' = Pending
      <4>1. parts = <<>> /\ inbox' = inbox \ {r} /\ peer' = r /\ parts' = Tail(r.frames)
        BY <3>1 DEF RecvFirst
      <4>2. r.frames \in Seq(Frame) /\ r.frames # <<>>
        BY DEF MapInv, StuckInv, TypeInv, TypeOK, SocketTypeOK, Request, Frames
      <4>3. Len(r.frames) \in Nat /\ Len(Tail(r.frames)) = Len(r.frames) - 1
        BY <4>2, OnePartFewer
      <4>4. Len(r.frames) - (Len(r.frames) - 1) = 1
        BY <4>3
      <4>5. Rest' = SubSeq(r.frames, 1, Len(r.frames))
        BY <2>1, <4>1, <4>3, <4>4 DEF Rest, Handler, RpcName
      <4>6. Rest' = r.frames
        BY <4>2, <4>5, SubSeqFull
      <4>7. ~InService
        BY <2>1, <4>1 DEF InService, Handler, RpcName
      <4>8. /\ Pending = {Call(q, q.frames) : q \in inbox}
            /\ Pending' = {Call(q, q.frames) : q \in inbox \ {r}} \cup {Call(r, r.frames)}
        BY <2>3, <4>1, <4>6, <4>7 DEF Pending, Call
      <4>9. QED
        BY <4>8
    <3>2. ASSUME RecvMore PROVE Pending' = Pending
      <4>1. parts # <<>> /\ parts' = Tail(parts) /\ inbox' = inbox /\ peer' = peer
        BY <3>2 DEF RecvMore
      <4>2. At' = At + 1
        BY <4>1, OneMoreTaken DEF MapInv, StuckInv
      <4>3. Rest = SubSeq(peer.frames, At + 1, Len(peer.frames))
        BY <2>1 DEF Rest, At
      <4>4. Rest' = SubSeq(peer.frames, At', Len(peer.frames))
        BY <2>1, <4>1 DEF Rest, At, Handler, RpcName
      <4>5. Rest' = Rest
        BY <4>2, <4>3, <4>4
      <4>6. InService
        BY <4>1 DEF InService
      <4>7. QED
        BY <2>3, <4>1, <4>5, <4>6 DEF Pending, Call
    <3>3. QED
      BY <1>4, <3>1, <3>2 DEF RecvRpcName
  <2>5. QED
    BY <2>1, <2>2, <2>4 DEF MS!vars
<1>5. CASE PayloadMissing
  <2>1. /\ pc \in Handler /\ pc \in RpcName /\ pc' = "poll" /\ parts = <<>>
        /\ UNCHANGED <<socketVars, runners>>
    BY <1>5 DEF PayloadMissing, Handler
  <2>2. parts' \in Seq(Frame) /\ Len(parts') = Len(parts) + 1 - 1
    BY <1>2, <2>1 DEF socketVars
  <2>3. k \in Pending /\ Pending' = MS!Shortened(k, 1) /\ Len(Rest) = 1
    BY <2>1, <2>2, Dealt DEF socketVars, k
  <2>4. Pending' = Pending \ {k}
    BY <1>1, <2>3 DEF MS!Shortened, k, Call
  <2>5. MS!Lose(k)
    BY <2>1, <2>4 DEF MS!Lose, socketVars, Current
  <2>6. QED
    BY <2>3, <2>5 DEF MS!Next
<1>6. CASE LoadModel
  <2> DEFINE m == IF Head(parts).data \in Model THEN Head(parts).data ELSE NoModel
             body == [kind |-> "loaded", model |-> m]
  <2>1. /\ pc = "LoadModel" /\ pc \in RpcName /\ pc \in Handler /\ pc' = "poll" /\ parts # <<>>
        /\ parts' = Tail(parts)
        /\ UNCHANGED <<issued, waiting, inbox, peer>>
        /\ answers' = IF parts' = <<>> THEN Delivered(body) ELSE answers
    BY <1>6 DEF LoadModel, RecvMoreThenSend, Handler, RpcName
  <2>2. Current' = m
    <3> HIDE DEF m
    <3>1. runners' = [<<NoModel>> EXCEPT ![1] = m]
      BY <1>6 DEF LoadModel, Loaded, Unloaded, m
    <3>2. runners' = <<m>>
      BY <3>1
    <3>3. QED
      BY <3>2 DEF Current
  <2> HIDE DEF body
  <2>3. k \in Pending /\ MS!TakeEffect(k, 2, m, body)
    BY <2>1, <2>2, PayloadRead, Effect DEF k
  <2>4. k.rest[1].text = "LoadModel" /\ Len(k.rest) > 1 /\ k.rest[2] = Head(parts)
    <3>1. Len(parts) > 0
      BY <1>2, <2>1, EmptySeq
    <3>2. QED
      BY <1>2, <1>3, <2>1, <3>1
  <2>5. MS!Load(k)
    BY <2>3, <2>4 DEF MS!Load, body
  <2>6. QED
    BY <2>3, <2>5 DEF MS!Next
<1>7. CASE InvokeModel
  <2> DEFINE body == [kind |-> "output", model |-> runners[1]]
  <2>1. /\ pc = "InvokeModel" /\ pc \in RpcName /\ pc \in Handler /\ pc' = "poll" /\ parts # <<>>
        /\ parts' = Tail(parts) /\ runners # <<>>
        /\ UNCHANGED <<issued, waiting, inbox, peer, runners>>
        /\ answers' = IF parts' = <<>> THEN Delivered(body) ELSE answers
    BY <1>7 DEF InvokeModel, RecvMoreThenSend, Handler, RpcName
  <2>2. Current' = Current /\ Current = runners[1]
    BY <2>1 DEF Current
  <2> HIDE DEF body
  <2>3. k \in Pending /\ MS!TakeEffect(k, 2, Current, body)
    BY <2>1, <2>2, PayloadRead, Effect DEF k
  <2>4. MS!Invoke(k)
    BY <1>3, <2>1, <2>2, <2>3 DEF MS!Invoke, body
  <2>5. QED
    BY <2>3, <2>4 DEF MS!Next
<1>8. CASE UnloadModel
  <2> DEFINE body == [kind |-> "unloaded", model |-> NoModel]
  <2>1. /\ pc = "UnloadModel" /\ pc \in RpcName /\ pc \in Handler /\ pc' = "poll" /\ parts # <<>>
        /\ parts' = Tail(parts) /\ runners' = <<>>
        /\ UNCHANGED <<issued, waiting, inbox, peer>>
        /\ answers' = IF parts' = <<>> THEN Delivered(body) ELSE answers
    BY <1>8 DEF UnloadModel, RecvMoreThenSend, Unloaded, Handler, RpcName
  <2>2. Current' = NoModel
    BY <2>1 DEF Current
  <2> HIDE DEF body
  <2>3. k \in Pending /\ MS!TakeEffect(k, 2, NoModel, body)
    BY <2>1, <2>2, PayloadRead, Effect DEF k
  <2>4. MS!Unload(k)
    BY <1>3, <2>1, <2>3 DEF MS!Unload, body
  <2>5. QED
    BY <2>3, <2>4 DEF MS!Next
<1>9. CASE InvokeModelMismatch \/ (InvokeNoModel /\ pc' = "poll")
  <2>1. /\ pc = "InvokeModel" /\ pc \in RpcName /\ pc \in Handler /\ pc' = "poll" /\ parts # <<>>
        /\ parts' = Tail(parts)
        /\ UNCHANGED <<issued, waiting, inbox, peer, answers, runners>>
    BY <1>9 DEF InvokeModelMismatch, InvokeNoModel, RecvMore, Handler, RpcName
  <2>2. k \in Pending /\ Pending' = MS!Shortened(k, 2)
    BY <2>1, PayloadRead, Dealt DEF k
  <2>3. k.rest[1].text = "InvokeModel" /\ Len(k.rest) > 1
    <3>1. Len(parts) > 0
      BY <1>2, <2>1, EmptySeq
    <3>2. QED
      BY <1>2, <1>3, <2>1, <3>1
  <2>4. MS!Skip(k)
    BY <2>1, <2>2, <2>3 DEF MS!Skip, Current
  <2>5. QED
    BY <2>2, <2>4 DEF MS!Next
<1>10. CASE UnknownRpc
  <2> DEFINE body == [kind |-> "failure", model |-> NoModel]
  <2>1. /\ pc \notin RpcName /\ pc \in Handler /\ pc' = "poll"
        /\ UNCHANGED <<issued, waiting, inbox, peer, parts, runners>>
        /\ answers' = IF sendingReply THEN Delivered(body) ELSE answers
    BY <1>10 DEF UnknownRpc, Send, Handler, RpcName
  <2>2. sendingReply <=> parts = <<>>
    BY <2>1 DEF MapInv, StuckInv, TypeInv, SocketInv
  <2>3. Current' = Current
    BY <2>1 DEF Current
  <2>4. parts' \in Seq(Frame) /\ Len(parts') = Len(parts) + 1 - 1
    BY <1>2, <2>1
  <2> HIDE DEF body
  <2>5. answers' = IF parts' = <<>> THEN Delivered(body) ELSE answers
    BY <2>1, <2>2
  <2>6. k \in Pending /\ MS!TakeEffect(k, 1, Current, body)
    BY <2>1, <2>3, <2>4, <2>5, Effect DEF k
  <2>7. MS!Reject(k)
    BY <1>3, <2>1, <2>6 DEF MS!Reject, body, RpcName
  <2>8. QED
    BY <2>6, <2>7 DEF MS!Next
\* A thread that dies or leaves the loop keeps what it holds.
<1>11. CASE \/ LoadModelCrash \/ InvokeModelCrash \/ ExitLoop
            \/ InvokeNoModel /\ pc' = "crashed"
  <2>1. UNCHANGED <<socketVars, runners>>
    BY <1>11 DEF LoadModelCrash, InvokeModelCrash, ExitLoop, InvokeNoModel, RecvMore
  <2>2. (pc \in Handler /\ pc' = "crashed") \/ (pc = "poll" /\ pc' = "exited")
    BY <1>11 DEF LoadModelCrash, InvokeModelCrash, ExitLoop, InvokeNoModel, Handler, RpcName
  <2>3. Rest' = Rest /\ (InService' <=> InService)
    BY <2>1, <2>2 DEF Rest, InService, socketVars, Handler, RpcName
  <2>4. Pending' = Pending
    BY <2>1, <2>3 DEF Pending, Call, socketVars
  <2>5. QED
    BY <2>1, <2>4 DEF MS!vars, socketVars, Current
<1>12. QED
  BY <1>4, <1>5, <1>6, <1>7, <1>8, <1>9, <1>10, <1>11 DEF Server, InvokeNoModel

\* So is each step of a client, and the destructor does nothing to them.
LEMMA OthersMap ==
  ASSUME MapInv, Destroy \/ ClientIssue \/ ClientCollect \/ ClientGiveUp
  PROVE  [MS!Next]_MS!vars
<1>1. UNCHANGED <<peer, parts, pc, runners>>
  BY DEF Destroy, ClientIssue, ClientCollect, ClientGiveUp, Issue, Collect, GiveUp, socketVars
<1>2. Current' = Current /\ Rest' = Rest /\ (InService' <=> InService)
  BY <1>1 DEF Current, Rest, InService
<1> DEFINE served == IF InService THEN {Call(peer, Rest)} ELSE {}
<1>3. /\ Pending = {Call(r, r.frames) : r \in inbox} \cup served
      /\ Pending' = {Call(r, r.frames) : r \in inbox'} \cup served
  BY <1>1, <1>2 DEF Pending, Call
<1>4. InService => peer # NoRequest
  BY TfLiteAssumption DEF MapInv, StuckInv, TypeInv, TypeOK, SocketTypeOK, SocketInv, CrashInv,
     InService
<1>5. \A q \in served : q.client = peer.client /\ q.id = peer.id /\ peer # NoRequest
  BY <1>4 DEF Call
<1> HIDE DEF served
<1>6. CASE Destroy
  BY <1>2, <1>3, <1>6 DEF Destroy, socketVars, MS!vars
<1>7. ASSUME NEW c \in Client, NEW frames \in Shapes, Issue(c, frames)
      PROVE  MS!Issue(c, frames)
  <2> DEFINE new == [client |-> c, id |-> issued[c] + 1, frames |-> frames]
  <2>1. inbox' = inbox \cup {new}
    BY <1>7 DEF Issue
  <2>2. Call(new, new.frames) = [client |-> c, id |-> issued[c] + 1, rest |-> frames]
    BY DEF Call
  <2> HIDE DEF new
  <2>3. Pending' = Pending \cup {Call(new, new.frames)}
    BY <1>3, <2>1
  <2>4. QED
    BY <1>2, <1>7, <2>2, <2>3 DEF Issue, MS!Issue
<1>8. ASSUME NEW a \in answers, Collect(a)
      PROVE  MS!Return(a)
  BY <1>2, <1>3, <1>8 DEF Collect, MS!Return
\* The call the server has begun is not one of those in transit: it stays.
<1>9. ASSUME NEW c \in Client, GiveUp(c)
      PROVE  MS!Abandon(c)
  <2> DEFINE mine(q) == q.client = c /\ q.id = issued[c]
  <2>1. inbox' = inbox \/ inbox' = {r \in inbox : ~mine(r)}
    BY <1>9 DEF GiveUp
  <2>2. Pending' \in {Pending, {q \in Pending : ~mine(q)}}
    <3>1. CASE inbox' = inbox
      BY <1>3, <3>1
    <3>2. CASE inbox' = {r \in inbox : ~mine(r)} /\ \E q \in served : mine(q)
      <4>1. \A r \in inbox : ~mine(r)
        BY <1>5, <3>2 DEF MapInv, UniqueInv, Same
      <4>2. inbox' = inbox
        BY <3>2, <4>1
      <4>3. QED
        BY <1>3, <4>2
    <3>3. CASE inbox' = {r \in inbox : ~mine(r)} /\ ~ \E q \in served : mine(q)
      <4>1. \A r : mine(Call(r, r.frames)) <=> mine(r)
        BY DEF Call
      <4>2. {Call(r, r.frames) : r \in inbox'} = {q \in {Call(r, r.frames) : r \in inbox} : ~mine(q)}
        <5> HIDE DEF mine
        <5>1. QED
          BY <3>3, <4>1
      <4> HIDE DEF mine
      <4>3. served = {q \in served : ~mine(q)}
        BY <3>3
      <4>4. QED
        BY <1>3, <4>2, <4>3
    <3>4. QED
      BY <2>1, <3>1, <3>2, <3>3
  <2>3. QED
    BY <1>2, <1>9, <2>2 DEF GiveUp, MS!Abandon, mine
<1>10. QED
  BY <1>6, <1>7, <1>8, <1>9 DEF MS!Next, ClientIssue, ClientCollect, ClientGiveUp

\* The server, its socket and its clients behave as ModelServer says: one
\* current model, and RPCs that take effect one at a time, in order and at most
\* once, with the answer of the last (Loop and its handlers).
THEOREM ImplementsModelServer == Spec => OneCurrentModel
<1>1. Init => MS!Init
  BY DEF Init, SocketInit, MS!Init, Current, Pending, InService, Handler, RpcName
<1>2. MapInv /\ [Next]_vars => [MS!Next]_MS!vars
  <2> SUFFICES ASSUME MapInv, [Next]_vars
               PROVE  [MS!Next]_MS!vars
    OBVIOUS
  <2>1. CASE Server
    BY <2>1, ServerMaps
  <2>2. CASE Destroy \/ ClientIssue \/ ClientCollect \/ ClientGiveUp
    BY <2>2, OthersMap
  <2>3. CASE UNCHANGED vars
    BY <2>3 DEF vars, socketVars, MS!vars, Current, Pending, Call, Rest, InService
  <2>4. QED
    BY <2>1, <2>2, <2>3 DEF Next
<1>3. QED
  BY MapInit, MapNext, <1>1, <1>2, PTL DEF Spec, OneCurrentModel, MS!Spec
=============================================================================
