-------------------------- MODULE DeviceRpcServer --------------------------
(***************************************************************************)
(* The device RPC server: one RpcThread of DeviceRpcHandler.kt, from the   *)
(* init() of its socket to its end, over the native Server of              *)
(* ipc_transport.cpp.  A request is the name of an RPC and its payload,    *)
(* read by two calls of listen().                                          *)
(***************************************************************************)
EXTENDS RepSocket, FiniteSets

CONSTANTS
  Rpc,       \* the names in rpcRegistry
  Shapes     \* the requests clients send, as sequences of parts

VARIABLES
  pc,        \* where the thread is
  first,     \* the part the first listen() of a call returned
  interrupt, \* the flag destroy() sets
  executed   \* history: the requests whose RPC was executed, in order

vars == <<socketVars, pc, first, interrupt, executed>>

\* A part is a name and a payload; well is whether execute() can parse it.
ASSUME DeviceRpcAssumption ==
  /\ Frame = [name : Rpc \cup {"other"}, well : BOOLEAN]
  /\ Answer = {"done", "invalid"}
  /\ "other" \notin Rpc
  /\ Shapes \subseteq Frames
  /\ MaxRequests \in Nat \ {0}
  /\ NoRequest \notin Request

Init ==
  /\ SocketInit
  /\ pc = "listen"
  /\ first = [name |-> "other", well |-> FALSE]
  /\ interrupt = FALSE
  /\ executed = <<>>

TypeOK ==
  /\ SocketTypeOK
  /\ pc \in {"listen", "second", "execute", "send", "closed", "dead"}
  /\ first \in Frame
  /\ interrupt \in BOOLEAN
  /\ executed \in Seq(Request)

-----------------------------------------------------------------------------
\* Mutant: the listen() that times out is not told from one that succeeds.
ListenUnchecked ==
  /\ pc = "listen"
  /\ ~interrupt
  /\ \/ \E r \in inbox : RecvFirst(r) /\ first' = Head(r.frames)
     \/ RecvMore /\ first' = Head(parts)
     \/ inbox = {} /\ first' = <<>> /\ UNCHANGED socketVars
  /\ pc' = IF parts' # <<>> THEN "second" ELSE "listen"
  /\ UNCHANGED <<interrupt, executed>>

\* Mutant: the name of the RPC is a field that is set once and never reset.
ListenKeepingName ==
  /\ pc = "listen"
  /\ ~interrupt
  /\ \/ \E r \in inbox :
          RecvFirst(r) /\ first' = IF first.name \in Rpc THEN first ELSE Head(r.frames)
     \/ RecvMore /\ first' = IF first.name \in Rpc THEN first ELSE Head(parts)
  /\ pc' = IF parts' # <<>> THEN "second" ELSE "listen"
  /\ UNCHANGED <<interrupt, executed>>

\* The first listen() of a round.  It takes whatever part comes next, be it
\* the first one of a request or one left of a request of many parts; a part
\* that none follows is dropped, and with it the request.
Listen ==
  /\ pc = "listen"
  /\ ~interrupt
  /\ \/ \E r \in inbox : RecvFirst(r) /\ first' = Head(r.frames)
     \/ RecvMore /\ first' = Head(parts)
  /\ pc' = IF parts' # <<>> THEN "second" ELSE "listen"
  /\ UNCHANGED <<interrupt, executed>>

\* Mutant: an RPC that is not registered is logged and forgotten.
ListenUnknownSilent ==
  /\ pc = "second"
  /\ first.name \notin Rpc
  /\ RecvMore
  /\ pc' = "listen"
  /\ UNCHANGED <<first, interrupt, executed>>

\* The second listen() and the registry: an RPC that is not registered is
\* refused.
ListenUnknown ==
  /\ pc = "second"
  /\ first.name \notin Rpc
  /\ RecvMoreThenSend("invalid")
  /\ pc' = "listen"
  /\ UNCHANGED <<first, interrupt, executed>>

\* Mutant: a payload that does not parse is answered as if it were executed.
ExecuteCatchingAll ==
  /\ pc = "second"
  /\ first.name \in Rpc
  /\ RecvMore
  /\ pc' = "send"
  /\ executed' = IF Head(parts).well THEN Append(executed, peer) ELSE executed
  /\ UNCHANGED <<first, interrupt>>

\* The second listen() and rpc.execute().  A payload that does not parse
\* throws out of the loop: the thread ends, and the socket stays bound.
Execute ==
  /\ pc = "second"
  /\ first.name \in Rpc
  /\ RecvMore
  /\ IF Head(parts).well
     THEN pc' = "send" /\ executed' = Append(executed, peer)
     ELSE pc' = "dead" /\ UNCHANGED executed
  /\ UNCHANGED <<first, interrupt>>

\* Mutant: send() tries again what failed, from execute() on.
SendRetrying ==
  /\ pc = "send"
  /\ Send("done")
  /\ pc' = IF sendingReply THEN "listen" ELSE "send"
  /\ executed' = IF sendingReply THEN executed ELSE Append(executed, peer)
  /\ Len(executed) < 5
  /\ UNCHANGED <<first, interrupt>>

\* The result of execute() is sent; the status of send() is not looked at.
SendResult ==
  /\ pc = "send"
  /\ Send("done")
  /\ pc' = "listen"
  /\ UNCHANGED <<first, interrupt, executed>>

\* Mutant: the thread looks at the flag only while it is owed nothing.
CloseWhenReplied ==
  /\ pc = "listen"
  /\ interrupt
  /\ ~sendingReply
  /\ pc' = "closed"
  /\ inbox' = {}
  /\ UNCHANGED <<issued, waiting, peer, parts, sendingReply, answers>>
  /\ UNCHANGED <<first, interrupt, executed>>

\* The loop ends and the socket is closed, with the requests it has queued.
Close ==
  /\ pc = "listen"
  /\ interrupt
  /\ pc' = "closed"
  /\ inbox' = {}
  /\ UNCHANGED <<issued, waiting, peer, parts, sendingReply, answers>>
  /\ UNCHANGED <<first, interrupt, executed>>

\* The thread after init().  The model servers it makes before are in AnxApp.
Thread == Listen \/ ListenUnknown \/ Execute \/ SendResult \/ Close

-----------------------------------------------------------------------------
\* destroy(), up to the join() that waits for "closed" or "dead".
Destroy ==
  /\ ~interrupt
  /\ interrupt' = TRUE
  /\ UNCHANGED <<socketVars, pc, first, executed>>

ClientIssue ==
  /\ pc # "closed"
  /\ \E c \in Client, frames \in Shapes : Issue(c, frames)
  /\ UNCHANGED <<pc, first, interrupt, executed>>

ClientCollect ==
  /\ \E a \in answers : Collect(a)
  /\ UNCHANGED <<pc, first, interrupt, executed>>

ClientGiveUp ==
  /\ \E c \in Client : GiveUp(c)
  /\ UNCHANGED <<pc, first, interrupt, executed>>

Next == Thread \/ Destroy \/ ClientIssue \/ ClientCollect \/ ClientGiveUp

Spec == Init /\ [][Next]_vars

\* No call of the thread blocks: poll() times out after 100 ms, and the second
\* listen() finds the part the first one announced.
FairSpec == Spec /\ WF_vars(Thread)

-----------------------------------------------------------------------------
Odd(n) == n % 2 = 1

\* The thread is back at the first listen() and owes a reply, which it will
\* never send: no other request is ever read.
Stuck == pc = "listen" /\ sendingReply

\* The thread reads parts two by two, and is stuck only after a request of an
\* odd number of parts: no request of two parts wedges the server, whatever its RPC, its
\* payload and the fate of its client.
StuckOnlyByOddRequest ==
  Stuck => Odd(Len(peer.frames))

\* A request is executed at most once for each two of its parts, also when it
\* was given up by its client, and also when its answer could not be sent.
ExecutedAtMostOncePerPair ==
  \A i \in 1 .. Len(executed) :
    2 * Cardinality({k \in 1 .. Len(executed) : executed[k] = executed[i]})
      <= Len(executed[i].frames)

\* A client is told the truth: a call answered "done" was executed, and one
\* of two parts answered "invalid" was not.
AnswersAreTrue ==
  \A a \in answers :
    LET of == {i \in 1 .. Len(executed) :
                 executed[i].client = a.client /\ executed[i].id = a.id}
    IN IF a.body = "done"
       THEN of # {}
       ELSE \A i \in of : Len(executed[i].frames) > 2

\* What is left of the request begun last: execute() takes effect on what the
\* two listen() calls before it have read.
Rest == IF pc = "second" THEN <<first>> \o parts ELSE parts

InService == pc \in {"second", "send"} \/ (pc = "listen" /\ parts # <<>>)

Call(r, rest) == [of |-> r, rest |-> rest]

\* The calls that are not over: those the thread has not begun and the one it
\* is at, as long as it owes that one an RPC or an answer.
Pending ==
  {Call(r, r.frames) : r \in inbox} \cup (IF InService THEN {Call(peer, Rest)} ELSE {})

\* Every RPC of a request takes effect at most once, in order and on its own
\* payload, the answer is the one of the last, and no request is forgotten but
\* for a part that none follows or a payload that does not parse (run, handleRpc).
DS == INSTANCE DeviceServer WITH calls <- Pending

RpcsInOrder == DS!Spec

\* Until the server is destroyed, dies of a payload or is stuck, every call is
\* answered unless its client gives up.
CallsAnswered ==
  \A c \in Client :
    waiting[c] ~> \/ ~waiting[c]
                  \/ \E a \in answers : a.client = c
                  \/ interrupt
                  \/ pc = "dead"
                  \/ Stuck

\* The join() of destroy() returns, whatever the clients have sent.
JoinReturns == interrupt ~> pc \in {"closed", "dead"}
=============================================================================
