----------------------------- MODULE GrpcStream ----------------------------
(***************************************************************************)
(* A call through the gRPC gateway, internal/proxy/gateway.go: a stream    *)
(* from the client is joined to one to the backend by two loops, the       *)
(* handler itself and a goroutine.  Frames are numbered; of the backend    *)
(* only what the gateway sees matters.                                     *)
(***************************************************************************)
EXTENDS Integers

CONSTANT MaxFrames  \* bound: frames a side sends

VARIABLES
  stage,   \* the next step of grpcProxyHandler
  upLoop,  \* forwardClientToServer: "none", "running", "over"
  sent,    \* per side: the frames it has sent
  closed,  \* per side: it has sent its last frame, and its status if the backend
  read,    \* per side: its frames the gateway has taken from its stream
  passed,  \* per side: its frames the gateway has sent on
  status   \* what the client is told of the call

vars == <<stage, upLoop, sent, closed, read, passed, status>>

Sides == {"client", "backend"}

\* External: the codec of gRPC decodes into a proto.Message, and the []byte the
\* loops hand to RecvMsg is none; no other codec is registered.
Decodes == FALSE

Init ==
  /\ stage = "discover"
  /\ upLoop = "none"
  /\ sent = [s \in Sides |-> 0]
  /\ closed = [s \in Sides |-> "no"]
  /\ read = [s \in Sides |-> 0]
  /\ passed = [s \in Sides |-> 0]
  /\ status = "none"

End(how) == stage' = "ended" /\ status' = how

\* GetServiceAddr and DialContext, either of which may fail.
Reach(here, next) ==
  /\ stage = here
  /\ End("error") \/ (stage' = next /\ UNCHANGED status)
  /\ UNCHANGED <<upLoop, sent, closed, read, passed>>

\* NewStream, and the goroutine of the client's frames.
Join ==
  /\ stage = "open"
  /\ \/ End("error") /\ UNCHANGED upLoop
     \/ stage' = "forward" /\ upLoop' = "running" /\ UNCHANGED status
  /\ UNCHANGED <<sent, closed, read, passed>>

\* RecvMsg returns when there is a frame, the side has closed, or the call is over.
Returns(s) == sent[s] > read[s] \/ closed[s] # "no" \/ stage = "ended"
Receives(s) == sent[s] > read[s] /\ Decodes
Take(s) == read' = [read EXCEPT ![s] = @ + (IF sent[s] > read[s] THEN 1 ELSE 0)]

PassOn(s) == passed' = [passed EXCEPT ![s] = @ + 1]

\* forwardClientToServer: any error of RecvMsg ends it, and ends the backend's input.
ForwardClient ==
  /\ upLoop = "running" /\ Returns("client")
  /\ Take("client")
  /\ IF Receives("client") THEN PassOn("client") /\ UNCHANGED upLoop
                           ELSE upLoop' = "over" /\ UNCHANGED passed
  /\ UNCHANGED <<stage, sent, closed, status>>

\* forwardServerToClient: any error of RecvMsg ends the call, which is told to have succeeded.
ForwardBackend ==
  /\ stage = "forward" /\ Returns("backend")
  /\ Take("backend")
  /\ IF Receives("backend") THEN PassOn("backend") /\ UNCHANGED <<stage, status>>
                            ELSE End("ok") /\ UNCHANGED passed
  /\ UNCHANGED <<upLoop, sent, closed>>

Send(s) ==
  /\ stage # "ended" /\ closed[s] = "no" /\ sent[s] < MaxFrames
  /\ s = "backend" => stage = "forward"
  /\ sent' = [sent EXCEPT ![s] = @ + 1]
  /\ UNCHANGED <<stage, upLoop, closed, read, passed, status>>

\* The client closes its side; the backend ends the call with a status of its own.
CloseSide(s) ==
  /\ stage # "ended" /\ closed[s] = "no"
  /\ s = "backend" => stage = "forward"
  /\ \E how \in {"ok", "error"} : closed' = [closed EXCEPT ![s] = how]
  /\ UNCHANGED <<stage, upLoop, sent, read, passed, status>>

Next ==
  \/ Reach("discover", "dial") \/ Reach("dial", "open") \/ Join
  \/ ForwardClient \/ ForwardBackend
  \/ \E s \in Sides : Send(s) \/ CloseSide(s)

Spec == Init /\ [][Next]_vars

-----------------------------------------------------------------------------
\* All gRPC requests are forwarded to the backend (gateway.go:16), data in both
\* directions (gateway.go:85): a call the client is told has succeeded ended so
\* at the backend, and whatever the backend said has been passed on.
SuccessIsTheBackends ==
  status = "ok" => closed["backend"] = "ok" /\ passed["backend"] = sent["backend"]
=============================================================================
