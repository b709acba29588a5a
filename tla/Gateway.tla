------------------------------ MODULE Gateway ------------------------------
(***************************************************************************)
(* The handshake of a browser connection (internal/httpserver/server.go,   *)
(* handleBrowserSocket), composed with the registry it starts sessions in. *)
(*                                                                         *)
(* A connection is upgraded, must send authorize before the authorization  *)
(* deadline (module Protocol), has its grant validated by the backend      *)
(* (module Grants) and then calls Registry.Start, whose steps are those of *)
(* module Registry.  Whatever goes wrong is told to the browser by         *)
(* writeWebSocketFailure: an error message, a close message and a          *)
(* websocket close, in three steps, while CloseAll may be closing the same *)
(* connection.                                                             *)
(***************************************************************************)
EXTENDS Registry, Protocol, Grants

CONSTANTS FirstFrame, \* the first messages of browsers in an instance
          Answer      \* the answers of the backend

ASSUME FirstFrameAssumption == FirstFrame \subseteq Frame
ASSUME AnswerAssumption == Answer \subseteq Response

VARIABLES
    handshake, \* where the connection's handler is
    heard,     \* the browser's first message, as a sequence
    answer,    \* the backend's answer, likewise
    refusal,   \* the error code and close reason the handler is to tell
    overdue,   \* did ReadMessage run into the authorization deadline?
    mute,      \* does the connection no longer take messages to the browser?
    told       \* what the browser has been told, in order

handlerVars == <<handshake, heard, answer, refusal, overdue, mute, told>>
gatewayVars == <<vars, handlerVars>>

\* The refusals: the code of the error message, none if "", and the reason of
\* the close message and of the close frame.  A client that gives a reason has
\* it echoed.
NoRefusal        == <<"", "">>
ClientClose(f)   == <<"", IF Trimmed(f) THEN "client_close"
                          ELSE "own_reason">>
PeerClosed       == <<"", "browser_disconnect">>
AuthorizeTimeout == <<"authorize_timeout", "authorize_timeout">>
ReadFailed       == <<"websocket_read_failed", "internal_error">>
Violation(code)  == <<code, "protocol_violation">>
LimitReached     == <<"session_limit_reached", "session_limit_reached">>
BridgeFailed     == <<"ssh_bridge_failed", "session_start_failed">>

\* What is made of a first message f that is not an authorize.
MessageRefusal(f) ==
    LET parsed == ParseClientMessage(f)
    IN  IF parsed.code # "" THEN Violation(parsed.code)
        ELSE IF parsed.type = "close" THEN ClientClose(f)
        ELSE Violation("unexpected_first_message")

\* classifyGrantError and classifyGrantClose, of ValidateToken's error v.
GrantRefusal(v) ==
    CASE v.error = "invalid"   -> <<v.code, "authorization_failed">>
      [] v.error = "backend"   -> <<IF v.code = ""
                                    THEN "backend_validation_failed"
                                    ELSE v.code, "internal_error">>
      [] v.error = "transport" -> <<"backend_unreachable", "internal_error">>

CloseReason ==
    { "client_close", "own_reason", "browser_disconnect",
      "authorize_timeout", "internal_error", "protocol_violation",
      "authorization_failed", "session_limit_reached",
      "session_start_failed" }

Code ==
    { "", "invalid_json", "unknown_message_type", "invalid_authorize",
      "invalid_input", "invalid_resize", "invalid_close",
      "unexpected_authorized", "unexpected_output", "unexpected_error",
      "unexpected_first_message", "authorize_timeout",
      "websocket_read_failed", "backend_unreachable",
      "backend_validation_failed", "backend_error", "backend_code",
      "session_limit_reached", "ssh_bridge_failed" }

Message ==
    ({"error"} \X Code) \cup ({"close"} \X CloseReason)
        \cup ({"frame"} \X (CloseReason \cup EndReason))

GatewayTypeOK ==
    /\ TypeOK
    /\ handshake \in [Session -> {"request", "await", "validate", "start",
                                  "error", "close", "hangup", "done"}]
    /\ heard \in [Session -> Seq(FirstFrame)]
    /\ answer \in [Session -> Seq(Answer)]
    /\ \A s \in Session : Len(answer[s]) <= Len(heard[s]) /\ Len(heard[s]) <= 1
    /\ refusal \in [Session -> (Code \X CloseReason) \cup {NoRefusal}]
    /\ overdue \in [Session -> BOOLEAN]
    /\ mute \in [Session -> BOOLEAN]
    /\ told \in [Session -> Seq(Message)]

GatewayInit ==
    /\ Init
    /\ handshake = [s \in Session |-> "request"]
    /\ heard = [s \in Session |-> <<>>]
    /\ answer = [s \in Session |-> <<>>]
    /\ refusal = [s \in Session |-> NoRefusal]
    /\ overdue = [s \in Session |-> FALSE]
    /\ mute = [s \in Session |-> FALSE]
    /\ told = [s \in Session |-> <<>>]

GoOn(s, label) == handshake' = [handshake EXCEPT ![s] = label]

\* The handler is to refuse the connection for reason f.
RefuseWith(s, f) ==
    /\ GoOn(s, IF f[1] = "" THEN "close" ELSE "error")
    /\ refusal' = [refusal EXCEPT ![s] = f]

\* A message or a close frame is written, unless the connection takes none.
Tell(s, m) ==
    told' = IF browser[s] = "open" /\ ~mute[s]
            THEN [told EXCEPT ![s] = Append(@, m)] ELSE told

-----------------------------------------------------------------------------
(* The HTTP request. *)

\* The listener accepts connections until Shutdown closes it; a request it has
\* accepted may be upgraded while Shutdown waits.
Upgrade(s) ==
    /\ Alive
    /\ handshake[s] = "request"
    /\ GoOn(s, "await")
    /\ UNCHANGED <<vars, heard, answer, refusal, overdue, mute, told>>

\* Not a GET, no upgrade headers, or the upgrade fails: an HTTP error.
RefuseRequest(s) ==
    /\ Alive
    /\ handshake[s] = "request"
    /\ Refuse(s)
    /\ GoOn(s, "done")
    /\ UNCHANGED <<heard, answer, refusal, overdue, mute, told>>

-----------------------------------------------------------------------------
(* ReadMessage of the first message, with the authorization deadline. *)

\* Slip: ReadMessage is called without the authorization deadline.
AwaitWithoutDeadline(s) ==
    /\ Alive
    /\ handshake[s] = "await"
    /\ overdue' = [overdue EXCEPT ![s] = TRUE]
    /\ UNCHANGED <<vars, handshake, heard, answer, refusal, mute, told>>

\* The deadline passes.  Its network deadline and the timer of authorizeCtx
\* expire together, in either order: ReadMessage reports the deadline only if
\* ctx.Err() already says so, else a plain timeout that is not classified.
AwaitTimesOut(s) ==
    /\ Alive
    /\ handshake[s] = "await"
    /\ overdue' = [overdue EXCEPT ![s] = TRUE]
    /\ \E f \in {AuthorizeTimeout, ReadFailed} : RefuseWith(s, f)
    /\ UNCHANGED <<vars, heard, answer, mute, told>>

\* The browser leaves: gorilla has answered its close frame, unless it left
\* without one.
AwaitPeerCloses(s) ==
    /\ Alive
    /\ handshake[s] = "await"
    /\ \E answered \in BOOLEAN :
          mute' = [mute EXCEPT ![s] = mute[s] \/ answered]
    /\ refusal' = [refusal EXCEPT ![s] = PeerClosed]
    /\ GoOn(s, "hangup")
    /\ UNCHANGED <<vars, heard, answer, overdue, told>>

\* The connection breaks, or the first message is over the size limit, which
\* gorilla has answered with a close frame.
AwaitFails(s) ==
    /\ Alive
    /\ handshake[s] = "await"
    /\ mute' = [mute EXCEPT ![s] = TRUE]
    /\ RefuseWith(s, ReadFailed)
    /\ UNCHANGED <<vars, heard, answer, overdue, told>>

\* A first message that does not parse, is a close or is no authorize.
AwaitRefuses(s) ==
    /\ Alive
    /\ handshake[s] = "await"
    /\ \E f \in FirstFrame :
          /\ heard' = [heard EXCEPT ![s] = <<f>>]
          /\ ParseClientMessage(f).type # "authorize"
          /\ RefuseWith(s, MessageRefusal(f))
    /\ UNCHANGED <<vars, answer, overdue, mute, told>>

AwaitAuthorize(s) ==
    /\ Alive
    /\ handshake[s] = "await"
    /\ \E f \in FirstFrame :
          /\ ParseClientMessage(f).type = "authorize"
          /\ heard' = [heard EXCEPT ![s] = <<f>>]
    /\ GoOn(s, "validate")
    /\ UNCHANGED <<vars, answer, refusal, overdue, mute, told>>

-----------------------------------------------------------------------------
(* ValidateToken, and what is made of its errors. *)

ValidateGrants(s) ==
    /\ Alive
    /\ handshake[s] = "validate"
    /\ \E r \in Answer :
          /\ ValidateToken(r) = Validated
          /\ answer' = [answer EXCEPT ![s] = <<r>>]
    /\ GoOn(s, "start")
    /\ UNCHANGED <<vars, heard, refusal, overdue, mute, told>>

\* Slip: a backend that cannot be reached does not keep the browser out.
ValidateFailsOpen(s) ==
    /\ Alive
    /\ handshake[s] = "validate"
    /\ \E r \in Answer :
          LET v == ValidateToken(r) IN
          /\ answer' = [answer EXCEPT ![s] = <<r>>]
          /\ IF v.error = "transport"
             THEN GoOn(s, "start") /\ UNCHANGED refusal
             ELSE v # Validated /\ RefuseWith(s, GrantRefusal(v))
    /\ UNCHANGED <<vars, heard, overdue, mute, told>>

\* The authorization deadline may pass meanwhile: the request then fails like
\* one to a backend that cannot be reached.
ValidateRefuses(s) ==
    /\ Alive
    /\ handshake[s] = "validate"
    /\ \E r \in Answer :
          LET v == ValidateToken(r) IN
          /\ v # Validated
          /\ answer' = [answer EXCEPT ![s] = <<r>>]
          /\ RefuseWith(s, GrantRefusal(v))
    /\ UNCHANGED <<vars, heard, overdue, mute, told>>

-----------------------------------------------------------------------------
(* Registry.Start, and what is made of its errors. *)

StartSteps(s) ==
    /\ handshake[s] = "start"
    /\ StartNext(s) /\ ~Refuse(s)
    /\ UNCHANGED handlerVars

\* Slip: the handler closes the connection it has handed to the session.
StartReturnsHangsUp(s) ==
    /\ Alive
    /\ handshake[s] = "start"
    /\ start[s] = "running"
    /\ GoOn(s, "done")
    /\ browser' = [browser EXCEPT ![s] = "closed"]
    /\ UNCHANGED <<start, sessions, closeVars, console, audit, serverVars,
                   heard, answer, refusal, overdue, mute, told>>

\* Start returned the session: the handler is through.
StartReturns(s) ==
    /\ Alive
    /\ handshake[s] = "start"
    /\ start[s] = "running"
    /\ GoOn(s, "done")
    /\ UNCHANGED <<vars, heard, answer, refusal, overdue, mute, told>>

\* Slip: the error code and the close reason are passed in the wrong order.
StartErrsSwapped(s) ==
    /\ Alive
    /\ handshake[s] = "start"
    /\ start[s] = "failed"
    /\ RefuseWith(s, <<BridgeFailed[2], BridgeFailed[1]>>)
    /\ UNCHANGED <<vars, heard, answer, overdue, mute, told>>

\* Slip: at the limit the handler tells the error and, for want of a return,
\* goes on as for any other error of Start.
StartErrsGoesOn(s) ==
    /\ Alive
    /\ handshake[s] = "start"
    /\ \/ start[s] = "limit" /\ Tell(s, <<"error", LimitReached[1]>>)
       \/ start[s] = "failed" /\ UNCHANGED told
    /\ RefuseWith(s, BridgeFailed)
    /\ UNCHANGED <<vars, heard, answer, overdue, mute>>

StartErrs(s) ==
    /\ Alive
    /\ handshake[s] = "start"
    /\ \/ start[s] = "limit" /\ RefuseWith(s, LimitReached)
       \/ start[s] = "failed" /\ RefuseWith(s, BridgeFailed)
    /\ UNCHANGED <<vars, heard, answer, overdue, mute, told>>

-----------------------------------------------------------------------------
(* writeWebSocketFailure; a close of the first message skips the error. *)

TellError(s) ==
    /\ Alive
    /\ handshake[s] = "error"
    /\ Tell(s, <<"error", refusal[s][1]>>)
    /\ GoOn(s, "close")
    /\ UNCHANGED <<vars, heard, answer, refusal, overdue, mute>>

\* Slip: an error that is told is not followed by a close message.
TellCloseWithoutErrorOnly(s) ==
    /\ Alive
    /\ handshake[s] = "close"
    /\ IF refusal[s][1] = "" THEN Tell(s, <<"close", refusal[s][2]>>)
       ELSE UNCHANGED told
    /\ GoOn(s, "hangup")
    /\ UNCHANGED <<vars, heard, answer, refusal, overdue, mute>>

TellClose(s) ==
    /\ Alive
    /\ handshake[s] = "close"
    /\ Tell(s, <<"close", refusal[s][2]>>)
    /\ GoOn(s, "hangup")
    /\ UNCHANGED <<vars, heard, answer, refusal, overdue, mute>>

\* Does the reason fit into a close frame?
Fits(s) == refusal[s][2] = "own_reason" => heard[s][1].body # "long"

\* Slip: a close frame that cannot be written keeps the connection open.
HangUpReturnsEarly(s) ==
    /\ handshake[s] = "hangup"
    /\ IF Fits(s) THEN Refuse(s) /\ Tell(s, <<"frame", refusal[s][2]>>)
       ELSE Alive /\ UNCHANGED <<vars, told>>
    /\ GoOn(s, "done")
    /\ UNCHANGED <<heard, answer, refusal, overdue, mute>>

\* Conn.Close: the close frame, if it can be written, and then the network
\* connection in any case.
HangUp(s) ==
    /\ handshake[s] = "hangup"
    /\ Refuse(s)
    /\ IF Fits(s) THEN Tell(s, <<"frame", refusal[s][2]>>) ELSE UNCHANGED told
    /\ GoOn(s, "done")
    /\ UNCHANGED <<heard, answer, refusal, overdue, mute>>

-----------------------------------------------------------------------------
(* The registry's other steps. *)

\* Session.close hangs up; its close frame tells the end reason.
SessionHangsUp(s) ==
    /\ CloseBrowser(s)
    /\ Tell(s, <<"frame", endReason[s]>>)
    /\ UNCHANGED <<handshake, heard, answer, refusal, overdue, mute>>

SessionSteps(s) ==
    /\ \/ \E r \in LoopReason : LoopEnds(s, r)
       \/ CloseBody(s) /\ ~CloseBrowser(s)
    /\ UNCHANGED handlerVars

ServerSteps ==
    /\ ListenFails \/ CloseAllSnapshot \/ CloseAllNextStep \/ Exit \/ Exited
    /\ UNCHANGED handlerVars

\* The connection stops taking messages: a failed write fails all later ones.
Breaks(s) ==
    /\ Alive
    /\ ~mute[s]
    /\ mute' = [mute EXCEPT ![s] = TRUE]
    /\ UNCHANGED <<vars, handshake, heard, answer, refusal, overdue, told>>

HandlerNext(s) ==
    \/ AwaitTimesOut(s)
    \/ ValidateGrants(s) \/ ValidateRefuses(s)
    \/ StartReturns(s) \/ StartErrs(s)
    \/ TellError(s) \/ TellClose(s) \/ HangUp(s)

GatewayNext ==
    \/ \E s \in Session :
          \/ Upgrade(s) \/ RefuseRequest(s)
          \/ AwaitPeerCloses(s) \/ AwaitFails(s) \/ AwaitRefuses(s)
          \/ AwaitAuthorize(s)
          \/ HandlerNext(s)
          \/ StartSteps(s)
          \/ SessionHangsUp(s)
          \/ SessionSteps(s)
          \/ Breaks(s)
    \/ ServerSteps

GatewaySafeSpec == GatewayInit /\ [][GatewayNext]_gatewayVars

\* Handlers are scheduled, also while they are in Registry.Start.  The
\* authorization deadline bounds the wait for the first message and, with the
\* HTTP client's own timeout, the wait for the backend; nothing bounds
\* Bridge.Open.  Nothing is asked of the sessions and of the server.
GatewaySpec ==
    /\ GatewaySafeSpec
    /\ \A s \in Session :
          /\ WF_gatewayVars(HandlerNext(s))
          /\ WF_gatewayVars(start[s] # "open" /\ StartSteps(s))

-----------------------------------------------------------------------------
(* Properties *)

\* What the protocol calls an authorize and a close message, and what the
\* backend's API calls an accepted and a rejected grant.
Authorizes(f) ==
    f.text /\ f.object /\ f.exact /\ f.type = "authorize"
    /\ f.body \notin {"empty", "blank"}
Closes(f) == f.text /\ f.object /\ f.exact /\ f.type = "close"
Accepts(r) == r.outcome = "answered" /\ r.status = 200 /\ r.json /\ r.address
Rejects(r) ==
    r.outcome = "answered" /\ r.status \in {401, 403, 404, 409, 410, 422}

\* No ssh connection is made for a browser that has not sent a proper authorize
\* message or whose grant the backend has not accepted with an address.
ConsoleNeedsGrant ==
    \A s \in Session : console[s] # "none" =>
        /\ heard[s] # <<>> /\ Authorizes(heard[s][1])
        /\ answer[s] # <<>> /\ Accepts(answer[s][1])

\* The reasons for which a connection may be refused, by what the browser has
\* sent and what the backend has answered, if anything.
Deserved(sent, answered) ==
    IF sent = <<>>
    THEN {"browser_disconnect", "authorize_timeout", "internal_error"}
    ELSE IF answered = <<>>
    THEN IF Closes(sent[1]) THEN {"client_close", "own_reason"}
         ELSE IF Authorizes(sent[1]) THEN {}
         ELSE {"protocol_violation"}
    ELSE IF Accepts(answered[1])
    THEN {"session_limit_reached", "session_start_failed"}
    ELSE IF Rejects(answered[1]) THEN {"authorization_failed"}
    ELSE {"internal_error"}

\* A refusal blames the party at fault: the browser for a first message that is
\* neither authorize nor close, and for a grant that the backend has rejected;
\* the gateway for a backend that gave no usable answer (a status that neither
\* accepts nor rejects, a 400 or a 429 among them, a body without an address,
\* none at all); its capacity or the ssh side only once the grant is accepted.
\* A start that fails after it was audited as started was undone by a shutdown.
BlameFits ==
    \A s \in Session : refusal[s] # NoRefusal =>
        /\ refusal[s][2] \in Deserved(heard[s], answer[s])
        /\ refusal[s][2] = "session_start_failed"
              /\ Occurs("session_started", audit[s]) =>
              endReason[s] = "server_shutdown"

\* What writeWebSocketFailure has to tell of the refusal of s: the error, the
\* close message, and a close frame if the reason fits one.  Nothing is told
\* but the frame to a browser that has left.
ErrorOf(s) == IF refusal[s][1] = "" THEN <<>>
              ELSE << <<"error", refusal[s][1]>> >>
CloseOf(s) == IF refusal[s] \in {NoRefusal, PeerClosed} THEN <<>>
              ELSE << <<"close", refusal[s][2]>> >>
FrameOf(s) == IF refusal[s][2] = "own_reason" /\ heard[s][1].body = "long"
              THEN <<>> ELSE << <<"frame", refusal[s][2]>> >>

\* How far a refusal may be told before a close frame ends it.
Begun(s) == {<<>>, ErrorOf(s), ErrorOf(s) \o CloseOf(s)}

\* A browser is told one story, that of its refusal, from the beginning and to
\* wherever the connection ends it, although CloseAll may be closing the session
\* that the handler refuses: then the frame of Session.close, with the end
\* reason, is the last to come.
OneStory ==
    \A s \in Session :
        \/ told[s] \in Begun(s)
        \/ /\ refusal[s] # NoRefusal
           /\ told[s] = (ErrorOf(s) \o CloseOf(s)) \o FrameOf(s)
        \/ /\ once[s] # "free"
           /\ \E t \in Begun(s) :
                 told[s] = Append(t, <<"frame", endReason[s]>>)

\* A browser that is refused, has not left and still takes messages learns why:
\* the error, the close message and the close frame all arrive, unless CloseAll
\* is closing the connection as well.  Only a reason of its own that is too
\* long for a frame comes back without one.  The connection of a refused browser
\* is closed in any case, also without a frame.
RefusalExplained ==
    \A s \in Session : handshake[s] = "done" /\ refusal[s] # NoRefusal =>
        /\ browser[s] = "closed"
        /\ refusal[s] # PeerClosed /\ ~mute[s] /\ once[s] = "free" =>
              told[s] = (ErrorOf(s) \o CloseOf(s)) \o FrameOf(s)

\* An upgraded connection does not stay in the handshake: its handler comes to
\* dial the console, hands the session over or closes the connection, unless
\* the process exits before.
HandshakeSettles ==
    \A s \in Session :
        handshake[s] = "await" ~>
            handshake[s] = "done" \/ start[s] = "open" \/ ~Alive

\* The handler calls the registry as module Registry assumes.
ImplementsRegistry == SafeSpec

\* What the README says of authorize_timeout: the browser did not send
\* authorize before the deadline.
OverdueIsAuthorizeTimeout ==
    \A s \in Session : overdue[s] => refusal[s] = AuthorizeTimeout

=============================================================================
