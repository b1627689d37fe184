---------------------- MODULE MCTfLiteRunnerRpcServer ----------------------
(* Instances of TfLiteRunnerRpcServer for TLC. *)
EXTENDS TfLiteRunnerRpcServer, TLC

CONSTANTS c1, c2, m1, m2

MCFrame == [text : RpcName \cup {"other"}, data : Model \cup 0 .. 2]

MCAnswer == [kind : {"loaded", "output", "unloaded", "failure"},
             model : Model \cup {NoModel}]

MCInputs == m1 :> 1 @@ m2 :> 2

OneModelInputs == m1 :> 1

Part(text, data) == [text |-> text, data |-> data]

Load(m) == <<Part("LoadModel", 0), Part("other", m)>>
Invoke(n) == <<Part("InvokeModel", 0), Part("other", n)>>
Unload == <<Part("UnloadModel", 0), Part("other", 0)>>
UnloadAsDocumented == <<Part("UnloadModel", 0)>>
Unknown == <<Part("other", 0)>>

\* What the documentation lists.
DocumentedShapes == {Load(m1), Invoke(1), UnloadAsDocumented}

\* Requests of two, three and six parts, good ones and bad ones.  Load(0) is a
\* file that is no model.  The request of three parts takes effect and its
\* reply cannot be sent; the one of six is refused, loads, invokes and is
\* refused again.
AnyShapes ==
  {Load(m1), Invoke(1), Unload, Load(m2) \o UnloadAsDocumented,
   Unknown \o Load(0) \o Invoke(0) \o Unknown}
=============================================================================
