------------------------- MODULE MCDeviceRpcServer -------------------------
(* Instances of DeviceRpcServer for TLC. *)
EXTENDS DeviceRpcServer

MCRpc == {"StartDeviceImu"}

MCFrame == [name : MCRpc \cup {"other"}, well : BOOLEAN]

MCAnswer == {"done", "invalid"}

Name == [name |-> "StartDeviceImu", well |-> TRUE]
Payload == [name |-> "other", well |-> TRUE]
Garbage == [name |-> "other", well |-> FALSE]

\* Requests of one to five parts: executed, refused, fatal to the thread, or
\* taken for three requests.
ManyShapes ==
  {<<Name>>, <<Name, Payload>>, <<Payload, Payload>>, <<Name, Garbage>>,
   <<Name, Payload, Name, Payload, Name>>}
=============================================================================
