----------------------------- MODULE MCGateway -----------------------------
(***************************************************************************)
(* Instances of Gateway for TLC.                                           *)
(***************************************************************************)
EXTENDS Gateway

TextMessage(type, body) ==
    [text |-> TRUE, object |-> TRUE, type |-> type, exact |-> TRUE,
     body |-> body]

Authorize == TextMessage("authorize", "short")

\* One first message for every way the handler can take.
SomeFrames ==
    { Authorize, TextMessage("authorize", "blank"),
      [Authorize EXCEPT !.exact = FALSE], [Authorize EXCEPT !.object = FALSE],
      [Authorize EXCEPT !.text = FALSE], TextMessage("output", "short"),
      TextMessage("close", "blank"), TextMessage("close", "long") }

OnlyAuthorize == {Authorize}

Granted ==
    [outcome |-> "answered", status |-> 200, json |-> TRUE, code |-> "",
     message |-> FALSE, address |-> TRUE]

NoAddress == [Granted EXCEPT !.address = FALSE]
Refused(status, code) ==
    [NoAddress EXCEPT !.status = status, !.code = code, !.message = TRUE]
Outage == [NoAddress EXCEPT !.outcome = "unreachable", !.status = 503]

\* One answer for every way the handler can take.
SomeAnswers ==
    { Granted, NoAddress, Outage, Refused(403, "backend_code"),
      Refused(403, ""), Refused(400, "backend_code") }

AcceptedOrNot == {Granted, Outage}

=============================================================================
