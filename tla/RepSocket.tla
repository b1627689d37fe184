----------------------------- MODULE RepSocket -----------------------------
(***************************************************************************)
(* The ZeroMQ REP socket both RPC servers of the app sit on, with the REQ  *)
(* sockets of the robot programs that call them.  libzmq (4.3.4) is not    *)
(* part of the repository: this module is the behaviour the servers of     *)
(* common/src/main/cpp rely on.                                            *)
(*                                                                         *)
(* A request is a multipart message.  Its parts arrive together and are    *)
(* read one recv() at a time.  Once the last part has been read the socket *)
(* owes a reply: until the reply is sent, poll() never reports input and   *)
(* recv() fails with EFSM; until the last part is read, send() fails with  *)
(* EFSM.                                                                   *)
(***************************************************************************)
EXTENDS Naturals, Sequences

CONSTANTS
  Client,       \* the programs that hold a REQ socket
  Frame,        \* what one part of a request may be
  Answer,       \* what the body of a reply may be
  NoRequest,    \* the value of peer before the first request
  MaxRequests   \* bound: the requests one client issues

Frames == Seq(Frame) \ {<<>>}

\* A request in transit: its issuer, its number and its parts.
Request == [client : Client, id : 1 .. MaxRequests, frames : Frames]

Reply == [client : Client, id : 1 .. MaxRequests, body : Answer]

VARIABLES
  issued,       \* the number of requests each client has issued
  waiting,      \* whether the client waits for the answer to its last request
  inbox,        \* the requests delivered and not begun
  peer,         \* the request begun last
  parts,        \* the parts of that request that have not been read
  sendingReply, \* that request has been read in full and its reply is owed
  answers       \* the replies delivered and not yet read by their clients

socketVars == <<issued, waiting, inbox, peer, parts, sendingReply, answers>>

SocketTypeOK ==
  /\ issued \in [Client -> 0 .. MaxRequests]
  /\ waiting \in [Client -> BOOLEAN]
  /\ inbox \in SUBSET Request
  /\ peer \in Request \cup {NoRequest}
  /\ parts \in Seq(Frame)
  /\ sendingReply \in BOOLEAN
  /\ answers \in SUBSET Reply

SocketInit ==
  /\ issued = [c \in Client |-> 0]
  /\ waiting = [c \in Client |-> FALSE]
  /\ inbox = {}
  /\ peer = NoRequest
  /\ parts = <<>>
  /\ sendingReply = FALSE
  /\ answers = {}

-----------------------------------------------------------------------------
(* The client side: a REQ socket has one request outstanding at a time.    *)

\* r, a request or a reply, belongs to the call its client waits on.
Awaited(r) == waiting[r.client] /\ issued[r.client] = r.id

Issue(c, frames) ==
  /\ ~waiting[c]
  /\ issued[c] < MaxRequests
  /\ issued' = [issued EXCEPT ![c] = @ + 1]
  /\ waiting' = [waiting EXCEPT ![c] = TRUE]
  /\ inbox' = inbox \cup {[client |-> c, id |-> issued[c] + 1, frames |-> frames]}
  /\ UNCHANGED <<peer, parts, sendingReply, answers>>

Collect(a) ==
  /\ a \in answers
  /\ answers' = answers \ {a}
  /\ waiting' = [waiting EXCEPT ![a.client] = FALSE]
  /\ UNCHANGED <<issued, inbox, peer, parts, sendingReply>>

\* A client that has waited too long closes its socket and opens another one.
\* Its request may still reach the server, or be lost with the connection;
\* an answer on its way is dropped.
GiveUp(c) ==
  /\ waiting[c]
  /\ waiting' = [waiting EXCEPT ![c] = FALSE]
  /\ answers' = {a \in answers : a.client # c}
  /\ inbox' \in {inbox, {r \in inbox : ~(r.client = c /\ r.id = issued[c])}}
  /\ UNCHANGED <<issued, peer, parts, sendingReply>>

-----------------------------------------------------------------------------
(* The server side.                                                        *)

\* recv() between two requests: the first part of r.  The requests of
\* different sockets come in no particular order.
RecvFirst(r) ==
  /\ ~sendingReply
  /\ parts = <<>>
  /\ r \in inbox
  /\ inbox' = inbox \ {r}
  /\ peer' = r
  /\ parts' = Tail(r.frames)
  /\ sendingReply' = (Tail(r.frames) = <<>>)
  /\ UNCHANGED <<issued, waiting, answers>>

\* recv() inside a request: its next part.
RecvMore ==
  /\ parts # <<>>
  /\ parts' = Tail(parts)
  /\ sendingReply' = (Tail(parts) = <<>>)
  /\ UNCHANGED <<issued, waiting, inbox, peer, answers>>

\* The answers once the request being served has the reply body: it goes to
\* the socket that issued the request, and nowhere when that one is closed.
Delivered(body) ==
  IF Awaited(peer)
  THEN answers \cup {[client |-> peer.client, id |-> peer.id, body |-> body]}
  ELSE answers

\* send() of a whole reply.  While parts are unread it fails with EFSM.
Send(body) ==
  /\ sendingReply' = FALSE
  /\ answers' = IF sendingReply THEN Delivered(body) ELSE answers
  /\ UNCHANGED <<issued, waiting, inbox, peer, parts>>

\* recv() of the next part and then send(): fails to send when parts remain.
RecvMoreThenSend(body) ==
  /\ parts # <<>>
  /\ parts' = Tail(parts)
  /\ sendingReply' = FALSE
  /\ answers' = IF Tail(parts) = <<>> THEN Delivered(body) ELSE answers
  /\ UNCHANGED <<issued, waiting, inbox, peer>>
=============================================================================
