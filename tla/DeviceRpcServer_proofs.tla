----------------------- MODULE DeviceRpcServer_proofs -----------------------
(***************************************************************************)
(* Proofs about DeviceRpcServer, for every set of clients and RPCs, and    *)
(* for requests of any number of parts.                                    *)
(***************************************************************************)
EXTENDS DeviceRpcServer, SequenceTheorems, FiniteSetTheorems, TLAPS

-----------------------------------------------------------------------------
(* What every operation of RepSocket does to the types.                    *)

LEMMA SocketInitType ==
  ASSUME SocketInit, MaxRequests \in Nat
  PROVE  SocketTypeOK
<1>1. issued \in [Client -> 0 .. MaxRequests]
  BY DEF SocketInit
<1>2. waiting \in [Client -> BOOLEAN] /\ sendingReply \in BOOLEAN
  BY DEF SocketInit
<1>3. inbox \in SUBSET Request /\ answers \in SUBSET Reply
  BY DEF SocketInit
<1>4. peer \in Request \cup {NoRequest} /\ parts \in Seq(Frame)
  BY DEF SocketInit
<1>5. QED
  BY <1>1, <1>2, <1>3, <1>4 DEF SocketTypeOK

\* An answer is one for the request being served.
LEMMA DeliveredType ==
  ASSUME SocketTypeOK, peer \in Request, NEW body \in Answer
  PROVE  Delivered(body) \in SUBSET Reply
BY DEF SocketTypeOK, Delivered, Request, Reply

LEMMA SendType ==
  ASSUME SocketTypeOK, sendingReply => peer \in Request,
         NEW body \in Answer, Send(body)
  PROVE  SocketTypeOK'
BY DeliveredType DEF SocketTypeOK, Send

LEMMA RecvMoreThenSendType ==
  ASSUME SocketTypeOK, peer \in Request, NEW body \in Answer,
         RecvMoreThenSend(body)
  PROVE  SocketTypeOK'
<1>1. Delivered(body) \in SUBSET Reply
  BY DeliveredType
<1>2. Tail(parts) \in Seq(Frame)
  BY DEF SocketTypeOK, RecvMoreThenSend
<1>3. QED
  BY <1>1, <1>2 DEF SocketTypeOK, RecvMoreThenSend

LEMMA RecvMoreType ==
  ASSUME SocketTypeOK, RecvMore
  PROVE  SocketTypeOK'
BY DEF SocketTypeOK, RecvMore

LEMMA RecvFirstType ==
  ASSUME SocketTypeOK, NEW r \in inbox, RecvFirst(r)
  PROVE  SocketTypeOK'
<1>1. r \in Request /\ r.frames \in Seq(Frame) /\ r.frames # <<>>
  BY DEF SocketTypeOK, Request, Frames
<1>2. QED
  BY <1>1 DEF SocketTypeOK, RecvFirst

LEMMA IssueType ==
  ASSUME SocketTypeOK, MaxRequests \in Nat,
         NEW c \in Client, NEW frames \in Frames, Issue(c, frames)
  PROVE  SocketTypeOK'
<1>1. issued[c] + 1 \in 1 .. MaxRequests
  BY DEF SocketTypeOK, Issue
<1>2. [client |-> c, id |-> issued[c] + 1, frames |-> frames] \in Request
  BY <1>1 DEF Request
<1>3. issued' \in [Client -> 0 .. MaxRequests]
  BY <1>1 DEF Issue, SocketTypeOK
<1>4. QED
  BY <1>2, <1>3 DEF SocketTypeOK, Issue

LEMMA CollectType ==
  ASSUME SocketTypeOK, NEW a \in answers, Collect(a)
  PROVE  SocketTypeOK'
BY DEF SocketTypeOK, Collect

LEMMA GiveUpType ==
  ASSUME SocketTypeOK, NEW c \in Client, GiveUp(c)
  PROVE  SocketTypeOK'
BY DEF SocketTypeOK, GiveUp

\* Reading one part leaves one fewer.
LEMMA OnePartFewer ==
  ASSUME NEW s \in Seq(Frame), s # <<>>
  PROVE  /\ Len(s) \in Nat \ {0}
         /\ Head(s) \in Frame
         /\ Tail(s) \in Seq(Frame)
         /\ Len(Tail(s)) = Len(s) - 1
         /\ Tail(s) = <<>> <=> Len(s) = 1
<1>1. Len(s) \in Nat \ {0} /\ Head(s) \in Frame
  BY EmptySeq
<1>2. Tail(s) \in Seq(Frame) /\ Len(Tail(s)) = Len(s) - 1
  BY HeadTailProperties
<1>3. Tail(s) = <<>> <=> Len(Tail(s)) = 0
  BY <1>2, EmptySeq
<1>4. QED
  BY <1>1, <1>2, <1>3

-----------------------------------------------------------------------------
\* The socket and the thread agree.
SocketInv ==
  /\ parts # <<>> => ~sendingReply
  /\ parts # <<>> \/ sendingReply => peer \in Request
  /\ pc = "second" => parts # <<>>
  /\ pc = "send" => peer \in Request

TypeInv == TypeOK /\ SocketInv

LEMMA TypeInvInit == Init => TypeInv
<1> SUFFICES ASSUME Init PROVE TypeInv
  OBVIOUS
<1>1. SocketTypeOK
  BY SocketInitType, DeviceRpcAssumption DEF Init
<1>2. first \in Frame /\ executed \in Seq(Request)
  BY DeviceRpcAssumption DEF Init
<1>3. QED
  BY <1>1, <1>2 DEF Init, SocketInit, TypeInv, TypeOK, SocketInv

LEMMA TypeInvNext == TypeInv /\ [Next]_vars => TypeInv'
<1> SUFFICES ASSUME TypeInv, [Next]_vars
             PROVE  TypeInv'
  OBVIOUS
<1> USE DEF TypeInv, TypeOK
<1>1. CASE Listen
  <2>1. ASSUME NEW r \in inbox, RecvFirst(r), first' = Head(r.frames)
        PROVE  TypeInv'
    <3>1. r \in Request /\ r.frames \in Seq(Frame) /\ r.frames # <<>>
      BY DEF SocketTypeOK, Request, Frames
    <3>2. SocketTypeOK' /\ Head(r.frames) \in Frame
      BY <2>1, <3>1, RecvFirstType, OnePartFewer
    <3>3. QED
      BY <1>1, <2>1, <3>1, <3>2 DEF Listen, SocketInv, RecvFirst
  <2>2. ASSUME RecvMore, first' = Head(parts)
        PROVE  TypeInv'
    <3>1. parts \in Seq(Frame) /\ parts # <<>>
      BY <2>2 DEF SocketTypeOK, RecvMore
    <3>2. SocketTypeOK' /\ Head(parts) \in Frame
      BY <2>2, <3>1, RecvMoreType, OnePartFewer
    <3>3. QED
      BY <1>1, <2>2, <3>2 DEF Listen, SocketInv, RecvMore
  <2>3. QED
    BY <1>1, <2>1, <2>2 DEF Listen
<1>2. CASE ListenUnknown
  <2>1. RecvMoreThenSend("invalid") /\ peer \in Request /\ "invalid" \in Answer
    BY <1>2, DeviceRpcAssumption DEF ListenUnknown, SocketInv
  <2>2. SocketTypeOK'
    BY <2>1, RecvMoreThenSendType
  <2>3. SocketInv'
    BY <1>2, <2>1 DEF ListenUnknown, SocketInv, RecvMoreThenSend
  <2>4. QED
    BY <1>2, <2>2, <2>3 DEF ListenUnknown
<1>3. CASE Execute
  <2>1. RecvMore /\ peer \in Request /\ peer' = peer
    BY <1>3 DEF Execute, SocketInv, RecvMore
  <2>2. SocketTypeOK'
    BY <2>1, RecvMoreType
  <2>3. executed' \in Seq(Request) /\ pc' \in {"send", "dead"}
    BY <1>3, <2>1 DEF Execute
  <2>4. SocketInv'
    BY <2>1, <2>3 DEF SocketInv, RecvMore
  <2>5. QED
    BY <1>3, <2>2, <2>3, <2>4 DEF Execute
<1>4. CASE SendResult
  <2>1. Send("done") /\ peer \in Request /\ "done" \in Answer
    BY <1>4, DeviceRpcAssumption DEF SendResult, SocketInv
  <2>2. SocketTypeOK'
    BY <2>1, SendType
  <2>3. SocketInv'
    BY <1>4, <2>1 DEF SendResult, SocketInv, Send
  <2>4. QED
    BY <1>4, <2>2, <2>3 DEF SendResult
<1>5. CASE Close
  BY <1>5 DEF Close, SocketTypeOK, SocketInv
<1>6. CASE Destroy
  BY <1>6 DEF Destroy, socketVars, SocketTypeOK, SocketInv
<1>7. CASE ClientIssue \/ ClientCollect \/ ClientGiveUp
  <2>1. SocketTypeOK'
    BY <1>7, IssueType, CollectType, GiveUpType, DeviceRpcAssumption
       DEF ClientIssue, ClientCollect, ClientGiveUp
  <2>2. UNCHANGED <<peer, parts, sendingReply, pc, first, interrupt, executed>>
    BY <1>7 DEF ClientIssue, ClientCollect, ClientGiveUp, Issue, Collect, GiveUp
  <2>3. QED
    BY <2>1, <2>2 DEF SocketInv
<1>8. CASE UNCHANGED vars
  BY <1>8 DEF vars, socketVars, SocketTypeOK, SocketInv
<1>9. QED
  BY <1>1, <1>2, <1>3, <1>4, <1>5, <1>6, <1>7, <1>8 DEF Next, Thread

\* Every variable keeps its type, and the second listen() and send() of a call
\* always have a request.
THEOREM TypeCorrect == Spec => []TypeOK
<1>1. TypeInv => TypeOK
  BY DEF TypeInv
<1>2. QED
  BY TypeInvInit, TypeInvNext, <1>1, PTL DEF Spec
-----------------------------------------------------------------------------
(* The socket is stuck only after a request of an odd number of parts.  The *)
(* parts read of the request being served are counted modulo 2.            *)

PartsRead == Len(peer.frames) - Len(parts)

ParityInv ==
  /\ pc = "listen" /\ parts # <<>> => ~Odd(PartsRead)
  /\ pc = "second" => Odd(PartsRead)
  /\ pc = "send" => ~Odd(PartsRead)

StuckInv == TypeInv /\ ParityInv /\ StuckOnlyByOddRequest

LEMMA OddAlternates ==
  /\ \A n \in Int : Odd(n + 1) <=> ~Odd(n)
  /\ Odd(1)
BY DEF Odd

LEMMA PeerLength ==
  ASSUME TypeInv, peer \in Request
  PROVE  Len(peer.frames) \in Nat \ {0} /\ Len(parts) \in Nat
<1>1. peer.frames \in Seq(Frame) /\ peer.frames # <<>>
  BY DEF Request, Frames
<1>2. parts \in Seq(Frame)
  BY DEF TypeInv, TypeOK, SocketTypeOK
<1>3. QED
  BY <1>1, <1>2, OnePartFewer

\* Reading one more part changes the parity.
LEMMA OneMoreRead ==
  ASSUME TypeInv, RecvMore \/ \E body : RecvMoreThenSend(body)
  PROVE  /\ peer' = peer /\ peer \in Request
         /\ PartsRead' = PartsRead + 1 /\ PartsRead \in Int
         /\ Odd(PartsRead') <=> ~Odd(PartsRead)
         /\ parts' = <<>> => PartsRead' = Len(peer.frames)
<1>1. parts \in Seq(Frame) /\ parts # <<>> /\ parts' = Tail(parts)
  BY DEF TypeInv, TypeOK, SocketTypeOK, RecvMore, RecvMoreThenSend
<1>2. peer' = peer /\ peer \in Request
  BY <1>1 DEF TypeInv, SocketInv, RecvMore, RecvMoreThenSend
<1>3. /\ Len(peer.frames) \in Nat /\ Len(parts) \in Nat
      /\ Len(parts') = Len(parts) - 1
      /\ parts' = <<>> => Len(parts') = 0
  BY <1>1, <1>2, OnePartFewer, PeerLength
<1>4. PartsRead' = PartsRead + 1 /\ PartsRead \in Int
  BY <1>2, <1>3 DEF PartsRead
<1>5. parts' = <<>> => PartsRead' = Len(peer.frames)
  <2>1. PartsRead' = Len(peer.frames) - Len(parts')
    BY <1>2 DEF PartsRead
  <2>2. \A n \in Nat : n - 0 = n
    OBVIOUS
  <2>3. ASSUME Len(parts') = 0 PROVE PartsRead' = Len(peer.frames)
    BY <1>3, <2>1, <2>2, <2>3, Zenon
  <2>4. QED
    BY <1>3, <2>3
<1>6. QED
  BY <1>2, <1>4, <1>5, OddAlternates

LEMMA StuckInvInit == Init => StuckInv
BY TypeInvInit DEF Init, SocketInit, StuckInv, ParityInv, StuckOnlyByOddRequest,
   Stuck

LEMMA StuckInvNext == StuckInv /\ [Next]_vars => StuckInv'
<1> USE DEF Stuck
<1> SUFFICES ASSUME StuckInv, [Next]_vars
             PROVE  StuckInv'
  OBVIOUS
<1>1. TypeInv /\ TypeInv'
  BY TypeInvNext DEF StuckInv
<1>2. ASSUME RecvMore \/ \E body : RecvMoreThenSend(body)
      PROVE  /\ peer' = peer /\ peer \in Request
             /\ Odd(PartsRead') <=> ~Odd(PartsRead)
             /\ parts' = <<>> => PartsRead' = Len(peer.frames)
  BY <1>1, <1>2, OneMoreRead
<1>3. CASE Listen
  <2>1. ASSUME NEW r \in inbox, RecvFirst(r)
        PROVE  ParityInv' /\ StuckOnlyByOddRequest'
    <3>1. r.frames \in Seq(Frame) /\ r.frames # <<>>
      BY <1>1 DEF TypeInv, TypeOK, SocketTypeOK, Request, Frames
    <3>2. /\ peer' = r /\ parts' = Tail(r.frames)
          /\ sendingReply' = (parts' = <<>>)
          /\ Len(r.frames) \in Nat \ {0}
          /\ Len(parts') = Len(r.frames) - 1
          /\ parts' = <<>> <=> Len(r.frames) = 1
      BY <2>1, <3>1, OnePartFewer DEF RecvFirst
    <3>3. pc' = IF parts' # <<>> THEN "second" ELSE "listen"
      BY <1>3 DEF Listen
    <3>4. PartsRead' = 1 /\ (parts' = <<>> => Len(peer'.frames) = 1)
      BY <3>2 DEF PartsRead
    <3>5. QED
      BY <3>2, <3>3, <3>4, OddAlternates DEF ParityInv, StuckOnlyByOddRequest
  <2>2. ASSUME RecvMore
        PROVE  ParityInv' /\ StuckOnlyByOddRequest'
    <3>1. ~Odd(PartsRead)
      BY <1>3, <2>2 DEF Listen, StuckInv, ParityInv, RecvMore
    <3>2. pc' = IF parts' # <<>> THEN "second" ELSE "listen"
      BY <1>3 DEF Listen
    <3>3. QED
      BY <1>2, <2>2, <3>1, <3>2 DEF ParityInv, StuckOnlyByOddRequest, RecvMore
  <2>3. QED
    BY <1>1, <1>3, <2>1, <2>2 DEF Listen, StuckInv
<1>4. CASE ListenUnknown
  <2>1. Odd(PartsRead) /\ pc' = "listen" /\ sendingReply' = FALSE
    BY <1>4 DEF ListenUnknown, StuckInv, ParityInv, RecvMoreThenSend
  <2>2. RecvMoreThenSend("invalid")
    BY <1>4 DEF ListenUnknown
  <2>3. QED
    BY <1>1, <1>2, <2>1, <2>2 DEF StuckInv, ParityInv, StuckOnlyByOddRequest
<1>5. CASE Execute
  <2>1. Odd(PartsRead) /\ pc' \in {"send", "dead"} /\ RecvMore
    BY <1>5 DEF Execute, StuckInv, ParityInv
  <2>2. QED
    BY <1>1, <1>2, <2>1 DEF StuckInv, ParityInv, StuckOnlyByOddRequest
<1>6. CASE SendResult
  BY <1>1, <1>6
     DEF SendResult, Send, StuckInv, ParityInv, StuckOnlyByOddRequest, PartsRead
<1>7. CASE Close
  BY <1>1, <1>7 DEF Close, StuckInv, ParityInv, StuckOnlyByOddRequest
<1>8. CASE UNCHANGED <<peer, parts, sendingReply, pc>>
  BY <1>1, <1>8 DEF StuckInv, ParityInv, StuckOnlyByOddRequest, PartsRead
<1>9. QED
  BY <1>3, <1>4, <1>5, <1>6, <1>7, <1>8
     DEF Next, Thread, Destroy, ClientIssue, ClientCollect, ClientGiveUp, Issue,
         Collect, GiveUp, socketVars, vars

\* Back at the first listen() the thread owes a reply only after a request of
\* an odd number of parts.
THEOREM StuckOnlyAfterOddRequest == Spec => []StuckOnlyByOddRequest
<1>1. StuckInv => StuckOnlyByOddRequest
  BY DEF StuckInv
<1>2. QED
  BY StuckInvInit, StuckInvNext, <1>1, PTL DEF Spec
-----------------------------------------------------------------------------
(* The answers are true.  A call is told from others by its client and its  *)
(* number: a request that has not been begun is unlike every other request  *)
(* and reply there is, and the one being served has no answer yet.          *)

SameCall(a, b) == a.client = b.client /\ a.id = b.id

Issued(a) == a.id <= issued[a.client]

Done == {executed[i] : i \in 1 .. Len(executed)}

IssuedInv ==
  /\ \A r \in inbox \cup Done \cup answers : Issued(r)
  /\ peer \in Request => Issued(peer)

FreshInv ==
  \A r \in inbox :
    /\ \A s \in inbox : SameCall(s, r) => s = r
    /\ \A s \in Done \cup answers : ~SameCall(s, r)
    /\ peer \in Request => ~SameCall(peer, r)

ServedInv ==
  peer \in Request =>
    /\ PartsRead >= 1
    /\ \A e \in Done : SameCall(e, peer) => e = peer /\ PartsRead >= 2
    /\ \A a \in answers : SameCall(a, peer) => parts = <<>> /\ ~sendingReply
    /\ pc = "send" => peer \in Done

\* AnswersAreTrue without the indices.
TruthInv ==
  \A a \in answers :
    IF a.body = "done"
    THEN \E e \in Done : SameCall(e, a)
    ELSE \A e \in Done : SameCall(e, a) => Len(e.frames) > 2

AnswersInv == StuckInv /\ IssuedInv /\ FreshInv /\ ServedInv /\ TruthInv

LEMMA TruthSuffices == TruthInv => AnswersAreTrue
<1> SUFFICES ASSUME TruthInv, NEW a \in answers
             PROVE  LET of == {i \in 1 .. Len(executed) :
                                 executed[i].client = a.client /\ executed[i].id = a.id}
                    IN IF a.body = "done"
                       THEN of # {}
                       ELSE \A i \in of : Len(executed[i].frames) > 2
  BY DEF AnswersAreTrue
<1>1. CASE a.body = "done"
  <2>1. PICK e \in Done : SameCall(e, a)
    BY <1>1 DEF TruthInv
  <2>2. PICK i \in 1 .. Len(executed) : e = executed[i]
    BY DEF Done
  <2>3. QED
    BY <1>1, <2>1, <2>2 DEF SameCall
<1>2. CASE a.body # "done"
  BY <1>2 DEF TruthInv, Done, SameCall
<1>3. QED
  BY <1>1, <1>2

LEMMA AnswersInvInit == Init => AnswersInv
<1> SUFFICES ASSUME Init PROVE AnswersInv
  OBVIOUS
<1>1. executed = <<>> /\ inbox = {} /\ answers = {} /\ peer = NoRequest
  BY DEF Init, SocketInit
<1>2. Done = {} /\ peer \notin Request
  BY <1>1, DeviceRpcAssumption DEF Done
<1>3. QED
  BY <1>1, <1>2, StuckInvInit
     DEF AnswersInv, IssuedInv, FreshInv, ServedInv, TruthInv

LEMMA AnswersTypes ==
  ASSUME TypeInv
  PROVE  /\ Done \subseteq Request /\ inbox \subseteq Request /\ answers \subseteq Reply
         /\ issued \in [Client -> Nat]
         /\ \A r \in Request \cup Reply : r.client \in Client /\ r.id \in Nat
<1>1. executed \in Seq(Request) /\ issued \in [Client -> 0 .. MaxRequests]
  BY DEF TypeInv, TypeOK, SocketTypeOK
<1>2. Done \subseteq Request
  BY <1>1 DEF Done
<1>3. issued \in [Client -> Nat]
  BY <1>1, DeviceRpcAssumption
<1>4. ASSUME NEW r \in Request \cup Reply PROVE r.client \in Client /\ r.id \in Nat
  <2>1. r.client \in Client /\ r.id \in 1 .. MaxRequests
    BY DEF Request, Reply
  <2>2. QED
    BY <2>1, DeviceRpcAssumption
<1>5. QED
  BY <1>2, <1>3, <1>4 DEF TypeInv, TypeOK, SocketTypeOK

\* A reply to the request being served keeps the rest when the last part has
\* been read and the reply is true.
LEMMA Answered ==
  ASSUME AnswersInv, TypeInv, peer \in Request, NEW body,
         answers' = answers \/ answers' = Delivered(body),
         answers' # answers => parts' = <<>> /\ ~sendingReply',
         answers' # answers =>
           IF body = "done" THEN peer \in Done
           ELSE \A e \in Done : SameCall(e, peer) => Len(e.frames) > 2,
         parts # <<>> \/ sendingReply,
         UNCHANGED <<issued, inbox, peer, executed>>
  PROVE  /\ IssuedInv' /\ FreshInv' /\ TruthInv'
         /\ \A a \in answers' : SameCall(a, peer) => parts' = <<>> /\ ~sendingReply'
<1> DEFINE new == [client |-> peer.client, id |-> peer.id, body |-> body]
<1>1. Done' = Done /\ SameCall(new, peer)
  BY DEF Done, SameCall
<1>2. \A a \in answers : ~SameCall(a, peer)
  BY DEF AnswersInv, ServedInv
<1>3. answers' = answers \/ answers' = answers \cup {new}
  BY DEF Delivered
<1>4. IssuedInv'
  <2>1. \A r \in inbox' \cup Done' \cup answers' \cup {peer} : Issued(r) \/ r = new
    BY <1>1, <1>3 DEF AnswersInv, IssuedInv
  <2>2. Issued(new)
    BY DEF AnswersInv, IssuedInv, Issued
  <2>3. QED
    BY <2>1, <2>2, <1>1 DEF IssuedInv, Issued
<1>5. FreshInv'
  <2>1. \A r \in inbox : ~SameCall(new, r)
    BY DEF AnswersInv, FreshInv, SameCall
  <2>2. QED
    BY <1>1, <1>3, <2>1 DEF AnswersInv, FreshInv
<1>6. TruthInv'
  <2> SUFFICES ASSUME NEW a \in answers'
               PROVE  IF a.body = "done" THEN \E e \in Done : SameCall(e, a)
                      ELSE \A e \in Done : SameCall(e, a) => Len(e.frames) > 2
    BY <1>1 DEF TruthInv
  <2>1. CASE a \in answers
    BY <2>1 DEF AnswersInv, TruthInv
  <2>2. CASE a \notin answers
    <3>1. a = new /\ answers' # answers /\ a.body = body
      BY <1>3, <2>2
    <3>2. \A e : SameCall(e, a) <=> SameCall(e, peer)
      BY <3>1 DEF SameCall
    <3>3. SameCall(peer, a)
      BY <3>1 DEF SameCall
    <3>4. QED
      BY <3>1, <3>2, <3>3
  <2>3. QED
    BY <2>1, <2>2
<1>7. QED
  BY <1>2, <1>3, <1>4, <1>5, <1>6

LEMMA AnswersInvNext == AnswersInv /\ [Next]_vars => AnswersInv'
<1> SUFFICES ASSUME AnswersInv, [Next]_vars
             PROVE  AnswersInv'
  OBVIOUS
<1>0. StuckInv' /\ StuckInv /\ TypeInv /\ ParityInv /\ TypeInv'
  BY StuckInvNext DEF AnswersInv, StuckInv
<1> DEFINE TheOthers == IssuedInv /\ FreshInv /\ ServedInv /\ TruthInv
<1>1. CASE Listen
  <2>1. answers' = answers /\ issued' = issued /\ Done' = Done /\ pc' # "send"
    BY <1>1 DEF Listen, RecvFirst, RecvMore, Done
  <2>2. ASSUME NEW r \in inbox, RecvFirst(r) PROVE TheOthers'
    <3>1. inbox' = inbox \ {r} /\ peer' = r /\ r \in Request
      BY <2>2, <1>0, AnswersTypes DEF RecvFirst
    <3>2. IssuedInv' /\ TruthInv'
      BY <2>1, <3>1 DEF AnswersInv, IssuedInv, Issued, TruthInv
    <3>3. FreshInv'
      <4>1. \A s \in inbox' : s \in inbox /\ ~SameCall(r, s)
        BY <3>1 DEF AnswersInv, FreshInv
      <4>2. QED
        BY <2>1, <3>1, <4>1 DEF AnswersInv, FreshInv
    <3>4. PartsRead' = 1
      <4>1. r.frames \in Seq(Frame) /\ r.frames # <<>> /\ parts' = Tail(r.frames)
        BY <2>2, <3>1 DEF RecvFirst, Request, Frames
      <4>2. QED
        BY <3>1, <4>1, OnePartFewer DEF PartsRead
    <3>5. ServedInv'
      BY <2>1, <3>1, <3>4 DEF AnswersInv, FreshInv, ServedInv
    <3>6. QED
      BY <3>2, <3>3, <3>5
  <2>3. ASSUME RecvMore PROVE TheOthers'
    <3>1. inbox' = inbox /\ peer' = peer
      BY <2>3 DEF RecvMore
    <3>2. IssuedInv' /\ TruthInv' /\ FreshInv'
      BY <2>1, <3>1 DEF AnswersInv, IssuedInv, Issued, TruthInv, FreshInv
    <3>3. ASSUME peer \in Request PROVE PartsRead' = PartsRead + 1 /\ PartsRead \in Int
      BY <1>0, <2>3, <3>3, OneMoreRead
    <3>4. parts # <<>>
      BY <2>3 DEF RecvMore
    <3>5. ServedInv'
      BY <2>1, <3>1, <3>3, <3>4 DEF AnswersInv, ServedInv
    <3>6. QED
      BY <3>2, <3>5
  <2>4. QED
    BY <1>0, <1>1, <2>2, <2>3 DEF Listen, AnswersInv
<1>2. CASE ListenUnknown
  <2>1. /\ RecvMoreThenSend("invalid") /\ pc = "second" /\ pc' = "listen"
        /\ executed' = executed /\ parts # <<>> /\ sendingReply' = FALSE
        /\ UNCHANGED <<issued, inbox, peer>> /\ parts' = Tail(parts)
    BY <1>2 DEF ListenUnknown, RecvMoreThenSend
  <2>2. peer \in Request
    BY <1>0, <2>1 DEF TypeInv, SocketInv
  <2>3. PartsRead' = PartsRead + 1 /\ PartsRead \in Int /\ Odd(PartsRead)
        /\ (parts' = <<>> => PartsRead' = Len(peer.frames))
    BY <1>0, <2>1, <2>2, OneMoreRead DEF ParityInv
  <2>4. answers' = answers \/ answers' = Delivered("invalid")
    BY <2>1 DEF RecvMoreThenSend
  <2>5. answers' # answers => parts' = <<>>
    BY <2>1 DEF RecvMoreThenSend
  <2>6. ASSUME parts' = <<>>, NEW e \in Done, SameCall(e, peer) PROVE Len(e.frames) > 2
    <3>1. e = peer /\ PartsRead >= 2
      BY <2>2, <2>6 DEF AnswersInv, ServedInv
    <3>2. PartsRead # 2
      BY <2>3 DEF Odd
    <3>3. QED
      BY <2>3, <2>6, <3>1, <3>2
  <2>7. /\ IssuedInv' /\ FreshInv' /\ TruthInv'
        /\ \A a \in answers' : SameCall(a, peer) => parts' = <<>> /\ ~sendingReply'
    BY <1>0, <2>1, <2>2, <2>4, <2>5, <2>6, Answered
  <2>8. ServedInv'
    <3>1. Done' = Done
      BY <2>1 DEF Done
    <3>2. QED
      BY <2>1, <2>2, <2>3, <2>7, <3>1 DEF AnswersInv, ServedInv
  <2>9. QED
    BY <1>0, <2>7, <2>8 DEF AnswersInv
<1>3. CASE Execute
  <2>1. /\ RecvMore /\ pc = "second" /\ parts # <<>> /\ peer' = peer
        /\ UNCHANGED <<issued, inbox, answers>>
    BY <1>3 DEF Execute, RecvMore
  <2>2. peer \in Request
    BY <1>0, <2>1 DEF TypeInv, SocketInv
  <2>3. PartsRead' >= 1 /\ PartsRead' >= 2
    <3>1. PartsRead' = PartsRead + 1 /\ PartsRead \in Int
      BY <1>0, <2>1, <2>2, OneMoreRead
    <3>2. PartsRead >= 1
      BY <2>2 DEF AnswersInv, ServedInv
    <3>3. QED
      BY <3>1, <3>2
  <2>4. Done \subseteq Done' /\ Done' \subseteq Done \cup {peer}
        /\ (pc' = "send" => peer \in Done')
    <3>1. executed \in Seq(Request)
      BY <1>0 DEF TypeInv, TypeOK
    <3>2. CASE pc' = "send" /\ executed' = Append(executed, peer)
      <4>1. /\ Len(executed') = Len(executed) + 1 /\ Len(executed) \in Nat
            /\ executed'[Len(executed) + 1] = peer
            /\ \A i \in 1 .. Len(executed) : executed'[i] = executed[i]
        BY <2>2, <3>1, <3>2
      <4>2. Done' = Done \cup {peer}
        BY <4>1 DEF Done
      <4>3. QED
        BY <4>2
    <3>3. CASE pc' = "dead" /\ executed' = executed
      BY <3>3 DEF Done
    <3>4. QED
      BY <1>3, <3>2, <3>3 DEF Execute
  <2>5. \A a \in answers : ~SameCall(a, peer)
    BY <2>1, <2>2 DEF AnswersInv, ServedInv
  <2>6. IssuedInv' /\ FreshInv'
    BY <2>1, <2>2, <2>4 DEF AnswersInv, IssuedInv, Issued, FreshInv
  <2>7. TruthInv'
    BY <2>1, <2>4, <2>5 DEF AnswersInv, TruthInv, SameCall
  <2>8. ServedInv'
    BY <2>1, <2>2, <2>3, <2>4, <2>5 DEF AnswersInv, ServedInv
  <2>9. QED
    BY <1>0, <2>6, <2>7, <2>8 DEF AnswersInv
<1>4. CASE SendResult
  <2>1. /\ Send("done") /\ pc = "send" /\ pc' = "listen" /\ executed' = executed
        /\ sendingReply' = FALSE /\ UNCHANGED <<issued, inbox, peer, parts>>
    BY <1>4 DEF SendResult, Send
  <2>2. peer \in Request /\ peer \in Done
    BY <1>0, <2>1 DEF TypeInv, SocketInv, AnswersInv, ServedInv
  <2>3. Done' = Done /\ PartsRead' = PartsRead
    BY <2>1 DEF Done, PartsRead
  <2>4. CASE sendingReply
    <3>1. answers' = Delivered("done") /\ parts' = <<>>
      BY <1>0, <2>1, <2>4 DEF Send, TypeInv, SocketInv
    <3>2. /\ IssuedInv' /\ FreshInv' /\ TruthInv'
          /\ \A a \in answers' : SameCall(a, peer) => parts' = <<>> /\ ~sendingReply'
      BY <1>0, <2>1, <2>2, <2>4, <3>1, Answered
    <3>3. QED
      BY <1>0, <2>1, <2>2, <2>3, <3>2 DEF AnswersInv, ServedInv
  <2>5. CASE ~sendingReply
    <3>1. answers' = answers
      BY <2>1, <2>5 DEF Send
    <3>2. QED
      BY <1>0, <2>1, <2>2, <2>3, <3>1
         DEF AnswersInv, IssuedInv, Issued, FreshInv, ServedInv, TruthInv
  <2>6. QED
    BY <2>4, <2>5
<1>5. CASE ClientIssue
  <2>1. PICK c \in Client, frames \in Shapes : Issue(c, frames)
    BY <1>5 DEF ClientIssue
  <2> DEFINE r == [client |-> c, id |-> issued[c] + 1, frames |-> frames]
  <2>2. /\ inbox' = inbox \cup {r}
        /\ issued' = [issued EXCEPT ![c] = @ + 1]
        /\ UNCHANGED <<peer, parts, sendingReply, answers, pc, executed>>
    BY <1>5, <2>1 DEF ClientIssue, Issue
  <2>3. Done' = Done /\ PartsRead' = PartsRead
    BY <2>2 DEF Done, PartsRead
  <2>4. \A s \in Request \cup Reply : Issued(s) => Issued(s)' /\ ~SameCall(s, r) /\ ~SameCall(r, s)
    BY <1>0, <2>2, AnswersTypes DEF Issued, SameCall
  <2>5. issued[c] + 1 <= issued'[c]
    BY <1>0, <2>2, AnswersTypes
  <2>6. IssuedInv'
    <3>1. \A s \in inbox \cup Done \cup answers : s \in Request \cup Reply /\ Issued(s)
      BY <1>0, AnswersTypes DEF AnswersInv, IssuedInv
    <3>2. \A s \in inbox' \cup Done' \cup answers' : s.id <= issued'[s.client]
      BY <2>2, <2>3, <2>4, <2>5, <3>1 DEF Issued
    <3>3. peer' \in Request => peer'.id <= issued'[peer'.client]
      BY <2>2, <2>4 DEF AnswersInv, IssuedInv, Issued
    <3>4. QED
      BY <3>2, <3>3 DEF IssuedInv, Issued
  <2>7. FreshInv'
    <3>1. \A s \in inbox \cup Done \cup answers : ~SameCall(s, r) /\ ~SameCall(r, s)
      BY <1>0, <2>4, AnswersTypes DEF AnswersInv, IssuedInv
    <3>2. peer \in Request => ~SameCall(peer, r)
      BY <2>4 DEF AnswersInv, IssuedInv
    <3>3. QED
      BY <2>2, <2>3, <3>1, <3>2 DEF AnswersInv, FreshInv
  <2>8. ServedInv' /\ TruthInv'
    BY <2>2, <2>3 DEF AnswersInv, ServedInv, TruthInv
  <2>9. QED
    BY <1>0, <2>6, <2>7, <2>8 DEF AnswersInv
\* Nothing is begun, executed or answered.
<1>6. CASE /\ inbox' \subseteq inbox /\ answers' \subseteq answers
           /\ pc' = "send" => pc = "send"
           /\ UNCHANGED <<issued, peer, parts, sendingReply, executed>>
  <2>1. Done' = Done /\ PartsRead' = PartsRead
    BY <1>6 DEF Done, PartsRead
  <2>2. QED
    BY <1>0, <1>6, <2>1 DEF AnswersInv, IssuedInv, Issued, FreshInv, ServedInv, TruthInv
<1>7. Close \/ Destroy \/ ClientCollect \/ ClientGiveUp \/ UNCHANGED vars =>
        /\ inbox' \subseteq inbox /\ answers' \subseteq answers
        /\ pc' = "send" => pc = "send"
        /\ UNCHANGED <<issued, peer, parts, sendingReply, executed>>
  BY DEF Close, Destroy, ClientCollect, Collect, ClientGiveUp, GiveUp, vars, socketVars
<1>8. QED
  BY <1>1, <1>2, <1>3, <1>4, <1>5, <1>6, <1>7 DEF Next, Thread

\* A client is told the truth, whatever the number of clients and parts, and
\* whoever gave up: what is answered "done" was executed, and a request of two
\* parts that is answered "invalid" was not (RpcThread.run, handleRpc).
THEOREM AnswersAlwaysTrue == Spec => []AnswersAreTrue
<1>1. AnswersInv => AnswersAreTrue
  BY TruthSuffices DEF AnswersInv
<1>2. QED
  BY AnswersInvInit, AnswersInvNext, <1>1, PTL DEF Spec

-----------------------------------------------------------------------------
(* How often a request was executed: a request is executed only after each *)
(* second part that is read of it, and never again once another is begun.  *)

At(r) == {k \in 1 .. Len(executed) : executed[k] = r}

Times(r) == Cardinality(At(r))

PairInv ==
  /\ \A r \in Request : r = peer => 2 * Times(r) <= PartsRead
  /\ \A r \in Done : 2 * Times(r) <= Len(r.frames)

OnceInv == AnswersInv /\ PairInv

LEMMA TimesNat ==
  ASSUME executed \in Seq(Request), NEW r
  PROVE  IsFiniteSet(At(r)) /\ Times(r) \in Nat /\ (r \notin Done => Times(r) = 0)
<1>1. Len(executed) \in Nat /\ At(r) \subseteq 1 .. Len(executed)
  BY DEF At
<1>2. IsFiniteSet(At(r))
  <2>1. IsFiniteSet(1 .. Len(executed))
    BY <1>1, FS_Interval
  <2>2. QED
    BY <1>1, <2>1, FS_Subset
<1>3. r \notin Done => At(r) = {}
  BY DEF At, Done
<1>4. QED
  BY <1>2, <1>3, FS_CardinalityType, FS_EmptySet DEF Times

LEMMA TimesExecuted ==
  ASSUME executed \in Seq(Request), peer \in Request, executed' = Append(executed, peer),
         NEW r
  PROVE  Times(r)' = IF r = peer THEN Times(r) + 1 ELSE Times(r)
<1> DEFINE n == Len(executed) + 1
<1>1. /\ Len(executed) \in Nat /\ Len(executed') = n /\ executed'[n] = peer
      /\ \A k \in 1 .. Len(executed) : executed'[k] = executed[k]
  OBVIOUS
<1>2. n \notin At(r) /\ IsFiniteSet(At(r))
  <2>1. n \notin 1 .. Len(executed)
    BY <1>1
  <2>2. QED
    BY <2>1, TimesNat DEF At
<1>3. 1 .. n = 1 .. Len(executed) \cup {n}
  BY <1>1
<1>4. CASE r = peer
  <2>1. At(r)' = At(r) \cup {n}
    BY <1>1, <1>3, <1>4 DEF At
  <2>2. QED
    BY <1>2, <1>4, <2>1, FS_AddElement DEF Times
<1>5. CASE r # peer
  <2>1. At(r)' = At(r)
    BY <1>1, <1>3, <1>5 DEF At
  <2>2. QED
    BY <1>5, <2>1 DEF Times
<1>6. QED
  BY <1>4, <1>5

LEMMA OnceInvInit == Init => OnceInv
<1> SUFFICES ASSUME Init PROVE OnceInv
  OBVIOUS
<1>1. Done = {} /\ peer \notin Request
  BY DeviceRpcAssumption DEF Init, SocketInit, Done
<1>2. QED
  BY <1>1, AnswersInvInit DEF OnceInv, PairInv

LEMMA OnceInvNext == OnceInv /\ [Next]_vars => OnceInv'
<1> SUFFICES ASSUME OnceInv, [Next]_vars PROVE PairInv'
  BY AnswersInvNext DEF OnceInv
<1>1. /\ AnswersInv /\ PairInv /\ TypeInv /\ ParityInv
      /\ executed \in Seq(Request)
  BY DEF OnceInv, AnswersInv, StuckInv, TypeInv, TypeOK
<1>2. ASSUME executed' = executed PROVE Done' = Done /\ \A r : Times(r)' = Times(r)
  BY <1>2 DEF Done, Times, At
\* The next part of the same request.
<1>3. CASE executed' = executed /\ (RecvMore \/ \E body : RecvMoreThenSend(body))
  <2>1. peer' = peer /\ peer \in Request /\ PartsRead' = PartsRead + 1 /\ PartsRead \in Int
    BY <1>1, <1>3, OneMoreRead
  <2>2. Times(peer) \in Nat
    BY <1>1, TimesNat
  <2>3. \A r \in Request : r = peer' => 2 * Times(r) <= PartsRead'
    BY <1>1, <2>1, <2>2 DEF PairInv
  <2>4. QED
    BY <1>1, <1>2, <1>3, <2>1, <2>3 DEF PairInv
<1>4. CASE Listen
  <2>1. executed' = executed
    BY <1>4 DEF Listen
  <2>2. ASSUME NEW r \in inbox, RecvFirst(r) PROVE PairInv'
    <3>1. r \in Request /\ r \notin Done /\ peer' = r
      BY <1>1, <2>2 DEF AnswersInv, FreshInv, SameCall, TypeInv, TypeOK, SocketTypeOK, RecvFirst
    <3>2. Times(r) = 0
      BY <1>1, <3>1, TimesNat
    <3>3. PartsRead' \in Int /\ PartsRead' >= 0
      <4>1. r.frames \in Seq(Frame) /\ r.frames # <<>> /\ parts' = Tail(r.frames)
        BY <2>2, <3>1 DEF RecvFirst, Request, Frames
      <4>2. QED
        BY <3>1, <4>1, OnePartFewer DEF PartsRead
    <3>4. QED
      BY <1>1, <1>2, <2>1, <3>1, <3>2, <3>3 DEF PairInv
  <2>3. QED
    BY <1>3, <1>4, <2>1, <2>2 DEF Listen
<1>5. CASE ListenUnknown
  BY <1>3, <1>5 DEF ListenUnknown
<1>6. CASE Execute
  <2>1. RecvMore /\ pc = "second"
    BY <1>6 DEF Execute
  <2>2. /\ peer' = peer /\ peer \in Request /\ PartsRead' = PartsRead + 1
        /\ PartsRead \in Int /\ Odd(PartsRead)
    BY <1>1, <2>1, OneMoreRead DEF ParityInv
  <2>3. PartsRead' <= Len(peer.frames)
    <3>1. peer.frames \in Seq(Frame) /\ parts' \in Seq(Frame)
      BY <1>1, <2>1, <2>2, RecvMoreType DEF TypeInv, TypeOK, SocketTypeOK, Request, Frames
    <3>2. QED
      BY <2>2, <3>1 DEF PartsRead
  <2>4. Times(peer) \in Nat /\ 2 * Times(peer) <= PartsRead
    BY <1>1, <2>2, TimesNat DEF PairInv
  <2>5. 2 * (Times(peer) + 1) <= PartsRead'
    BY <2>2, <2>4 DEF Odd
  <2>6. CASE executed' = Append(executed, peer)
    <3>1. \A r : Times(r)' = IF r = peer THEN Times(r) + 1 ELSE Times(r)
      BY <1>1, <2>2, <2>6, TimesExecuted
    <3>2. Done' \subseteq Done \cup {peer}
      BY <1>1, <2>2, <2>6 DEF Done
    <3>3. \A r \in Request : r = peer' => 2 * Times(r)' <= PartsRead'
      BY <2>2, <2>5, <3>1
    <3>4. Len(peer.frames) \in Nat
      BY <1>1, <2>2, PeerLength
    <3>5. 2 * (Times(peer) + 1) <= Len(peer.frames)
      BY <2>2, <2>3, <2>4, <2>5, <3>4
    <3>6. \A r \in Done' : 2 * Times(r)' <= Len(r.frames)
      BY <1>1, <3>1, <3>2, <3>5 DEF PairInv
    <3>7. QED
      BY <3>3, <3>6 DEF PairInv
  <2>7. CASE executed' = executed
    BY <1>3, <2>1, <2>7
  <2>8. QED
    BY <1>6, <2>6, <2>7 DEF Execute
<1>7. CASE UNCHANGED <<peer, parts, executed>>
  BY <1>1, <1>2, <1>7 DEF PairInv, PartsRead
<1>8. SendResult \/ ClientIssue \/ Close \/ Destroy \/ ClientCollect \/ ClientGiveUp
        \/ UNCHANGED vars => UNCHANGED <<peer, parts, executed>>
  BY DEF SendResult, Send, ClientIssue, Issue, Close, Destroy, ClientCollect, Collect,
         ClientGiveUp, GiveUp, vars, socketVars
<1>9. QED
  BY <1>4, <1>5, <1>6, <1>7, <1>8 DEF Next, Thread

\* Nothing is executed more often than its parts allow: a request of two parts
\* once, whoever gave up, timed out or sent parts too many (RpcThread.run).
THEOREM NeverExecutedTwice == Spec => []ExecutedAtMostOncePerPair
<1>1. OnceInv => ExecutedAtMostOncePerPair
  BY DEF OnceInv, PairInv, ExecutedAtMostOncePerPair, Times, At, Done
<1>2. QED
  BY OnceInvInit, OnceInvNext, <1>1, PTL DEF Spec

-----------------------------------------------------------------------------
(* The server does what DeviceServer promises.  A step of the thread maps  *)
(* to a step for the call it is at, or to none when it only reads.         *)

SendInv == pc = "send" /\ parts = <<>> => sendingReply

MapInv == AnswersInv /\ SendInv

LEMMA MapInvInit == Init => MapInv
BY AnswersInvInit DEF Init, MapInv, SendInv

LEMMA MapInvNext == MapInv /\ [Next]_vars => MapInv'
<1> SUFFICES ASSUME MapInv, [Next]_vars PROVE SendInv'
  BY AnswersInvNext DEF MapInv
<1>1. CASE Execute
  BY <1>1 DEF Execute, RecvMore, SendInv
<1>2. CASE Thread /\ ~Execute
  BY <1>2 DEF Thread, Listen, ListenUnknown, SendResult, Close, SendInv
<1>3. CASE UNCHANGED <<pc, parts, sendingReply>>
  BY <1>3 DEF MapInv, SendInv
<1>4. QED
  BY <1>1, <1>2, <1>3 DEF Next, vars, socketVars, Destroy, ClientIssue, ClientCollect,
     ClientGiveUp, Issue, Collect, GiveUp

LEMMA HeadAndTail ==
  ASSUME NEW s \in Seq(Frame), s # <<>>
  PROVE  <<Head(s)>> \o Tail(s) = s
<1>1. Head(s) \in Frame /\ Tail(s) \in Seq(Frame)
  BY OnePartFewer
<1>2. \A f \in Frame, t \in Seq(Frame) : <<f>> \o t \in Seq(Frame)
  OBVIOUS
<1>3. <<Head(s)>> \o Tail(s) \in Seq(Frame)
  BY <1>1, <1>2
<1>4. Len(<<Head(s)>> \o Tail(s)) = Len(s)
  BY <1>1, OnePartFewer
<1>5. \A k \in 1 .. Len(s) : (<<Head(s)>> \o Tail(s))[k] = s[k]
  BY <1>1, OnePartFewer
<1>6. QED
  BY <1>3, <1>4, <1>5, SeqEqual

\* What two parts and more look like without the first two.
LEMMA TwoParts ==
  ASSUME NEW f \in Frame, NEW s \in Seq(Frame), NEW t, s # <<>>, t = <<f>> \o s
  PROVE  /\ Len(t) > 1 /\ t[1] = f /\ t[2] = Head(s)
         /\ Len(t) = 2 <=> Tail(s) = <<>>
         /\ SubSeq(t, 3, Len(t)) = Tail(s)
<1> DEFINE n == Len(s)
           u == SubSeq(t, 3, Len(t))
           v == Tail(s)
<1>1. n \in Nat \ {0} /\ v \in Seq(Frame) /\ Len(v) = n - 1 /\ (v = <<>> <=> n = 1)
  BY OnePartFewer
<1>2. t \in Seq(Frame) /\ Len(t) = n + 1 /\ t[1] = f
      /\ \A k \in 1 .. n : t[k + 1] = s[k]
  OBVIOUS
<1>3. t[2] = Head(s)
  BY <1>1, <1>2
<1>4. \A k \in 1 .. n - 1 : v[k] = s[k + 1]
  BY <1>1, HeadTailProperties
<1>5. \A k \in 3 .. n + 1 : t[k] \in Frame
  BY <1>1, <1>2, ElementOfSeq
<1>6. u \in Seq(Frame) /\ Len(u) = n - 1 /\ \A k \in 1 .. n - 1 : u[k] = t[k + 2]
  <2>1. \A k \in 3 .. Len(t) : t[k] \in Frame
    BY <1>2, <1>5
  <2>2. Len(t) \in Nat
    BY <1>1, <1>2
  <2>3. u \in Seq(Frame) /\ Len(u) = (IF 3 <= Len(t) THEN (Len(t) - 3) + 1 ELSE 0)
        /\ \A k \in 1 .. (Len(t) - 3) + 1 : u[k] = t[(3 + k) - 1]
    BY <2>1, <2>2, SubSeqProperties
  <2>4. QED
    BY <1>1, <1>2, <2>3
<1>7. \A k \in 1 .. n - 1 : u[k] = v[k]
  <2>1. ASSUME NEW k \in 1 .. n - 1 PROVE t[k + 2] = s[k + 1]
    <3>1. k + 1 \in 1 .. n /\ (k + 1) + 1 = k + 2
      BY <1>1
    <3>2. QED
      BY <1>2, <3>1
  <2>2. QED
    BY <1>4, <1>6, <2>1
<1>8. u = v
  BY <1>1, <1>6, <1>7, SeqEqual
<1>9. Len(t) > 1 /\ (Len(t) = 2 <=> v = <<>>)
  <2> HIDE DEF n, v
  <2>1. QED
    BY <1>1, <1>2
<1>10. t[1] = f
  BY <1>2
<1>11. QED
  <2> HIDE DEF u
  <2>1. QED
    BY <1>3, <1>8, <1>9, <1>10 DEF u

\* The calls that have not been begun.
Queued == {Call(r, r.frames) : r \in inbox}

LEMMA PendingIs ==
  /\ InService => Pending = Queued \cup {Call(peer, Rest)}
  /\ ~InService => Pending = Queued
BY DEF Pending, Queued

\* The call being served is told from those that have not been begun.
LEMMA ServedIsPending ==
  ASSUME MapInv, InService
  PROVE  /\ peer \in Request /\ Call(peer, Rest) \in Pending
         /\ Pending \ {Call(peer, Rest)} = Queued
<1>1. peer \in Request
  BY DEF MapInv, AnswersInv, StuckInv, TypeInv, SocketInv, InService
<1>2. \A r \in inbox : r # peer
  BY <1>1 DEF MapInv, AnswersInv, FreshInv, SameCall
<1>3. Call(peer, Rest) \notin Queued
  BY <1>2 DEF Queued, Call
<1>4. QED
  BY <1>1, <1>3, PendingIs

LEMMA ListenMaps ==
  ASSUME MapInv, Listen
  PROVE  [DS!Next]_DS!vars
<1>1. /\ TypeInv /\ pc = "listen" /\ UNCHANGED <<issued, waiting, executed, answers>>
      /\ pc' = IF parts' # <<>> THEN "second" ELSE "listen"
  BY DEF Listen, RecvFirst, RecvMore, MapInv, AnswersInv, StuckInv
<1>2. ASSUME Pending' = Pending PROVE [DS!Next]_DS!vars
  BY <1>1, <1>2 DEF DS!vars
<1>3. ASSUME NEW k \in Pending, Len(k.rest) = 1, Pending' = Pending \ {k}
      PROVE  [DS!Next]_DS!vars
  <2>1. DS!Drop(k)
    BY <1>1, <1>3 DEF DS!Drop
  <2>2. QED
    BY <1>3, <2>1 DEF DS!Next
<1>4. ASSUME NEW r \in inbox, RecvFirst(r), first' = Head(r.frames)
      PROVE  [DS!Next]_DS!vars
  <2> DEFINE k == Call(r, r.frames)
  <2>1. r \in Request /\ r.frames \in Seq(Frame) /\ r.frames # <<>>
    BY <1>1 DEF TypeInv, TypeOK, SocketTypeOK, Request, Frames
  <2>2. /\ parts = <<>> /\ parts' = Tail(r.frames) /\ peer' = r /\ inbox' = inbox \ {r}
    BY <1>4 DEF RecvFirst
  <2>3. Pending = Queued /\ k \in Pending
    BY <1>1, <2>2, PendingIs DEF InService, Queued
  <2>4. Queued' = Queued \ {k}
    BY <2>2 DEF Queued, Call
  <2>5. CASE parts' # <<>>
    <3>1. InService' /\ Rest' = r.frames
      BY <1>1, <1>4, <2>1, <2>2, <2>5, HeadAndTail DEF InService, Rest
    <3>2. Pending' = Queued' \cup {k}
      BY <2>2, <3>1 DEF Pending, Queued, Call
    <3>3. QED
      BY <1>2, <2>3, <2>4, <3>2
  <2>6. CASE parts' = <<>>
    <3>1. ~InService' /\ Len(r.frames) = 1
      BY <1>1, <2>1, <2>2, <2>6, OnePartFewer DEF InService
    <3>2. Pending' = Pending \ {k}
      BY <2>3, <2>4, <3>1 DEF Pending, Queued
    <3>3. Len(k.rest) = 1
      BY <3>1 DEF Call
    <3>4. QED
      BY <1>3, <2>3, <3>2, <3>3
  <2>7. QED
    BY <2>5, <2>6
<1>5. ASSUME RecvMore, first' = Head(parts)
      PROVE  [DS!Next]_DS!vars
  <2> DEFINE k == Call(peer, parts)
  <2>1. parts # <<>> /\ parts' = Tail(parts) /\ UNCHANGED <<peer, inbox>>
    BY <1>5 DEF RecvMore
  <2>2. parts \in Seq(Frame)
    BY <1>1 DEF TypeInv, TypeOK, SocketTypeOK
  <2>3. InService /\ Rest = parts /\ Queued' = Queued
    BY <1>1, <2>1 DEF InService, Rest, Queued
  <2>4. k \in Pending /\ Pending \ {k} = Queued /\ Pending = Queued \cup {k}
    BY <2>3, ServedIsPending, PendingIs
  <2>5. CASE parts' # <<>>
    <3>1. InService' /\ Rest' = parts
      BY <1>1, <1>5, <2>1, <2>2, <2>5, HeadAndTail DEF InService, Rest
    <3>2. Pending' = Queued' \cup {k}
      BY <2>1, <3>1 DEF Pending, Queued, Call
    <3>3. QED
      BY <1>2, <2>3, <2>4, <3>2
  <2>6. CASE parts' = <<>>
    <3>1. ~InService' /\ Len(parts) = 1
      BY <1>1, <2>1, <2>2, <2>6, OnePartFewer DEF InService
    <3>2. Pending' = Pending \ {k}
      BY <2>3, <2>4, <3>1 DEF Pending, Queued
    <3>3. Len(k.rest) = 1
      BY <3>1 DEF Call
    <3>4. QED
      BY <1>3, <2>4, <3>2, <3>3
  <2>7. QED
    BY <2>5, <2>6
<1>6. QED
  BY <1>4, <1>5 DEF Listen

LEMMA OnwardIs ==
  ASSUME NEW r, NEW x
  PROVE  DS!Onward(Call(r, x)) = Call(r, SubSeq(x, 3, Len(x)))
<1> DEFINE k == [of |-> r, rest |-> x]
<1>1. k.rest = x
  OBVIOUS
<1>2. \A y : [k EXCEPT !.rest = y] = [of |-> r, rest |-> y]
  OBVIOUS
<1> HIDE DEF k
<1>3. [k EXCEPT !.rest = SubSeq(k.rest, 3, Len(k.rest))] = [of |-> r, rest |-> SubSeq(x, 3, Len(x))]
  BY <1>1, <1>2
<1>4. QED
  BY <1>3 DEF DS!Onward, Call, k

\* At the second listen() a call has two parts and more, of which one is read.
LEMMA AtSecond ==
  ASSUME MapInv, pc = "second", parts' = Tail(parts), UNCHANGED <<peer, inbox>>
  PROVE  LET k == Call(peer, Rest)
         IN /\ k \in Pending /\ Pending \ {k} = Queued /\ Queued' = Queued
            /\ Len(k.rest) > 1 /\ k.rest[1] = first /\ k.rest[2] = Head(parts)
            /\ Len(k.rest) = 2 <=> parts' = <<>>
            /\ DS!Onward(k) = Call(peer, parts')
            /\ k.of = peer
<1> DEFINE k == Call(peer, Rest)
<1>1. /\ first \in Frame /\ parts \in Seq(Frame) /\ parts # <<>>
  BY DEF MapInv, AnswersInv, StuckInv, TypeInv, TypeOK, SocketTypeOK, SocketInv
<1>2. Rest = <<first>> \o parts /\ InService
  BY DEF Rest, InService
<1>3. /\ Len(Rest) > 1 /\ Rest[1] = first /\ Rest[2] = Head(parts)
      /\ Len(Rest) = 2 <=> Tail(parts) = <<>>
      /\ SubSeq(Rest, 3, Len(Rest)) = Tail(parts)
  <2>1. ASSUME NEW t, t = <<first>> \o parts
        PROVE  /\ Len(t) > 1 /\ t[1] = first /\ t[2] = Head(parts)
               /\ Len(t) = 2 <=> Tail(parts) = <<>>
               /\ SubSeq(t, 3, Len(t)) = Tail(parts)
    <3>1. first \in Frame /\ parts \in Seq(Frame) /\ parts # <<>>
      BY <1>1
    <3>2. Len(t) > 1
      BY <2>1, <3>1, TwoParts
    <3>3. t[1] = first /\ t[2] = Head(parts)
      BY <2>1, <3>1, TwoParts
    <3>4. Len(t) = 2 <=> Tail(parts) = <<>>
      BY <2>1, <3>1, TwoParts
    <3>5. SubSeq(t, 3, Len(t)) = Tail(parts)
      BY <2>1, <3>1, TwoParts
    <3>6. QED
      BY <3>2, <3>3, <3>4, <3>5
  <2>2. QED
    BY <1>2, <2>1
<1>4. k \in Pending /\ Pending \ {k} = Queued /\ Queued' = Queued
  BY <1>2, ServedIsPending DEF Queued
<1>5. k.rest = Rest /\ k.of = peer
  BY DEF Call
<1>6. DS!Onward(k) = Call(peer, parts')
  BY <1>3, OnwardIs
<1>7. QED
  BY <1>3, <1>4, <1>5, <1>6

LEMMA ToldIsDelivered ==
  ASSUME NEW k, k.of = peer, NEW body
  PROVE  DS!Told(k, body) = Delivered(body)
BY DEF DS!Told, Delivered, Awaited

LEMMA RefusalMaps ==
  ASSUME MapInv, ListenUnknown
  PROVE  DS!Next
<1> DEFINE k == Call(peer, Rest)
<1>1. /\ pc = "second" /\ pc' = "listen" /\ first.name \notin Rpc
      /\ parts' = Tail(parts) /\ UNCHANGED <<issued, waiting, executed, peer, inbox>>
      /\ answers' = IF parts' = <<>> THEN Delivered("invalid") ELSE answers
  BY DEF ListenUnknown, RecvMoreThenSend
<1>2. /\ k \in Pending /\ Pending \ {k} = Queued /\ Queued' = Queued
      /\ Len(k.rest) > 1 /\ k.rest[1] = first /\ (Len(k.rest) = 2 <=> parts' = <<>>)
      /\ DS!Onward(k) = Call(peer, parts') /\ k.of = peer
  BY <1>1, AtSecond
<1> HIDE DEF k
<1>3. CASE parts' = <<>>
  <2>1. Pending' = Pending \ {k}
    BY <1>1, <1>2, <1>3 DEF Pending, Queued, InService
  <2>2. answers' = DS!Told(k, "invalid")
    BY <1>1, <1>2, <1>3, ToldIsDelivered
  <2>3. QED
    BY <1>1, <1>2, <1>3, <2>1, <2>2 DEF DS!Next, DS!Refuse
<1>4. CASE parts' # <<>>
  <2>1. InService' /\ Rest' = parts'
    BY <1>1, <1>4 DEF InService, Rest
  <2>2. Pending' = (Pending \ {k}) \cup {DS!Onward(k)}
    BY <1>1, <1>2, <2>1 DEF Pending, Queued, Call
  <2>3. QED
    BY <1>1, <1>2, <1>4, <2>2 DEF DS!Next, DS!Refuse
<1>5. QED
  BY <1>3, <1>4

LEMMA ExecuteMaps ==
  ASSUME MapInv, Execute
  PROVE  DS!Next
<1> DEFINE k == Call(peer, Rest)
<1>1. /\ pc = "second" /\ first.name \in Rpc
      /\ parts' = Tail(parts) /\ UNCHANGED <<issued, waiting, answers, peer, inbox>>
  BY DEF Execute, RecvMore
<1>2. /\ k \in Pending /\ Pending \ {k} = Queued /\ Queued' = Queued
      /\ Len(k.rest) > 1 /\ k.rest[1] = first /\ k.rest[2] = Head(parts)
      /\ DS!Onward(k) = Call(peer, parts') /\ k.of = peer
  BY <1>1, AtSecond
<1> HIDE DEF k
<1>3. CASE Head(parts).well
  <2>1. pc' = "send" /\ executed' = Append(executed, k.of)
    BY <1>2, <1>3 DEF Execute
  <2>2. InService' /\ Rest' = parts'
    BY <2>1 DEF InService, Rest
  <2>3. Pending' = (Pending \ {k}) \cup {DS!Onward(k)}
    BY <1>1, <1>2, <2>2 DEF Pending, Queued, Call
  <2>4. DS!Perform(k)
    BY <1>1, <1>2, <1>3, <2>1, <2>3 DEF DS!Perform
  <2>5. QED
    BY <1>2, <2>4 DEF DS!Next
<1>4. CASE ~Head(parts).well
  <2>1. pc' = "dead" /\ executed' = executed
    BY <1>4 DEF Execute
  <2>2. Pending' = Pending \ {k}
    BY <1>1, <1>2, <2>1 DEF Pending, Queued, InService
  <2>3. DS!Drop(k)
    BY <1>1, <1>2, <1>4, <2>1, <2>2 DEF DS!Drop
  <2>4. QED
    BY <1>2, <2>3 DEF DS!Next
<1>5. QED
  BY <1>3, <1>4

LEMMA SendMaps ==
  ASSUME MapInv, SendResult
  PROVE  [DS!Next]_DS!vars
<1> DEFINE k == Call(peer, Rest)
<1>1. /\ pc = "send" /\ pc' = "listen" /\ UNCHANGED <<issued, waiting, executed, peer, inbox, parts>>
      /\ answers' = IF sendingReply THEN Delivered("done") ELSE answers
  BY DEF SendResult, Send
<1>2. InService /\ Rest = parts /\ Queued' = Queued
  BY <1>1 DEF InService, Rest, Queued
<1>3. k \in Pending /\ Pending \ {k} = Queued /\ k.rest = parts /\ k.of = peer
  BY <1>2, ServedIsPending DEF Call
<1>4. CASE parts = <<>>
  <2>1. answers' = DS!Told(k, "done")
    BY <1>1, <1>3, <1>4, ToldIsDelivered DEF MapInv, SendInv
  <2>2. Pending' = Pending \ {k}
    BY <1>1, <1>2, <1>3, <1>4 DEF Pending, Queued, InService
  <2>3. DS!Finish(k)
    BY <1>1, <1>3, <1>4, <2>1, <2>2 DEF DS!Finish
  <2>4. QED
    BY <1>3, <2>3 DEF DS!Next
<1>5. CASE parts # <<>>
  <2>1. answers' = answers
    BY <1>1, <1>5 DEF MapInv, AnswersInv, StuckInv, TypeInv, SocketInv
  <2>2. InService' /\ Rest' = parts
    BY <1>1, <1>5 DEF InService, Rest
  <2>3. Pending' = Pending
    BY <1>1, <1>2, <2>2 DEF Pending, Queued, Call
  <2>4. QED
    BY <1>1, <2>1, <2>3 DEF DS!vars
<1>6. QED
  BY <1>4, <1>5

LEMMA ClientsMap ==
  ASSUME MapInv, ClientIssue \/ ClientCollect \/ ClientGiveUp
  PROVE  DS!Next
<1>1. UNCHANGED <<pc, first, executed, peer, parts>>
  BY DEF ClientIssue, ClientCollect, ClientGiveUp, Issue, Collect, GiveUp
<1>2. UNCHANGED <<InService, Rest>>
  BY <1>1 DEF InService, Rest
<1> DEFINE Mine == IF InService THEN {Call(peer, Rest)} ELSE {}
<1>3. Pending = Queued \cup Mine /\ Pending' = Queued' \cup Mine
  BY <1>1, <1>2 DEF Pending, Queued, Call
<1>4. ASSUME NEW c \in Client, NEW frames \in Shapes, Issue(c, frames)
      PROVE  DS!Issue(c, frames)
  <2> DEFINE r == [client |-> c, id |-> issued[c] + 1, frames |-> frames]
  <2>1. inbox' = inbox \cup {r}
    BY <1>4 DEF Issue
  <2>2. Queued' = Queued \cup {[of |-> r, rest |-> frames]}
    BY <2>1 DEF Queued, Call
  <2>3. QED
    BY <1>1, <1>3, <1>4, <2>2 DEF Issue, DS!Issue
<1>5. ASSUME NEW a \in answers, Collect(a)
      PROVE  DS!Return(a)
  <2>1. Queued' = Queued
    BY <1>5 DEF Collect, Queued
  <2>2. QED
    BY <1>1, <1>3, <1>5, <2>1 DEF Collect, DS!Return
<1>6. ASSUME NEW c \in Client, GiveUp(c)
      PROVE  DS!Abandon(c)
  <2> DEFINE Lost(r) == r.client = c /\ r.id = issued[c]
             kept == {k \in Pending : ~(k.of.client = c /\ k.of.id = issued[c])}
  <2>1. inbox' = inbox \/ inbox' = {r \in inbox : ~Lost(r)}
    BY <1>6 DEF GiveUp
  <2>2. CASE inbox' = inbox
    BY <1>1, <1>3, <1>6, <2>2 DEF GiveUp, DS!Abandon, Queued
  <2>3. CASE inbox' = {r \in inbox : ~Lost(r)} /\ inbox' # inbox
    <3>1. PICK r \in inbox : Lost(r)
      BY <2>3
    <3>2. InService => ~Lost(peer)
      <4>1. InService => peer \in Request
        BY ServedIsPending
      <4>2. peer \in Request => ~SameCall(peer, r)
        BY DEF MapInv, AnswersInv, FreshInv
      <4>3. QED
        BY <3>1, <4>1, <4>2 DEF SameCall
    <3>3. Queued' = {k \in Queued : ~Lost(k.of)}
      BY <2>3 DEF Queued, Call
    <3>4. \A k \in Mine : ~Lost(k.of)
      BY <3>2 DEF Call
    <3>5. Pending' = kept
      BY <1>3, <3>3, <3>4
    <3>6. QED
      BY <1>1, <1>6, <3>5 DEF GiveUp, DS!Abandon
  <2>4. QED
    BY <2>1, <2>2, <2>3
<1>7. QED
  BY <1>4, <1>5, <1>6 DEF ClientIssue, ClientCollect, ClientGiveUp, DS!Next

\* Every behaviour of the device server, for any clients, requests of any
\* number of parts and clients that give up, is one of DeviceServer: each RPC
\* takes effect at one instant, in order and at most once, the answer tells of
\* the last and reaches the call it is for (RpcThread.run, handleRpc).
THEOREM ImplementsDeviceServer == Spec => RpcsInOrder
<1>1. Init => DS!Init
  BY DEF Init, SocketInit, DS!Init, Pending, InService
<1>2. MapInv /\ [Next]_vars => [DS!Next]_DS!vars
  <2> SUFFICES ASSUME MapInv, [Next]_vars PROVE [DS!Next]_DS!vars
    OBVIOUS
  <2>1. CASE Close
    <3>1. Pending' = {}
      BY <2>1 DEF Close, Pending, InService
    <3>2. DS!Stop
      BY <2>1, <3>1 DEF Close, DS!Stop
    <3>3. QED
      BY <3>2 DEF DS!Next
  <2>2. CASE Destroy \/ UNCHANGED vars
    <3>1. UNCHANGED <<socketVars, pc, first, executed>>
      BY <2>2 DEF Destroy, vars
    <3>2. Pending' = Pending
      BY <3>1 DEF Pending, InService, Rest, Call, socketVars
    <3>3. QED
      BY <3>1, <3>2 DEF DS!vars, socketVars
  <2>3. QED
    BY <2>1, <2>2, ListenMaps, RefusalMaps, ExecuteMaps, SendMaps, ClientsMap DEF Next, Thread
<1>3. QED
  BY MapInvInit, MapInvNext, <1>1, <1>2, PTL DEF Spec, RpcsInOrder, DS!Spec
=============================================================================
