--------------------------- MODULE GatewayProofs ---------------------------
(***************************************************************************)
(* Proofs about Gateway, for every finite set of connections, every        *)
(* positive limit and all first messages and backend answers that module   *)
(* Gateway admits.                                                         *)
(*                                                                         *)
(* Every step of Gateway is a step of Registry or leaves its variables     *)
(* alone, so the invariant of RegistryProofs holds here too.  On top of    *)
(* it, Path says what the handler has read when it has come where it is,   *)
(* Blame what it has read when it refuses, and Undone that only a shutdown *)
(* makes a Start fail that has registered.                                 *)
(***************************************************************************)
EXTENDS Gateway, RegistryProofs

-----------------------------------------------------------------------------
(* What messages and answers are taken for *)

\* The parser takes exactly the authorize messages for one, whatever the order
\* of its tests.
LEMMA AuthorizeParsed ==
    ASSUME NEW f \in Frame
    PROVE  ParseClientMessage(f).type = "authorize" <=> Authorizes(f)
BY DEF Frame, ParseClientMessage, Authorizes, Trimmed, Parsed, Rejected, ClientType,
       ServerType

\* The parser takes exactly the close messages for one.
LEMMA CloseParsed ==
    ASSUME NEW f \in Frame
    PROVE  /\ ParseClientMessage(f).type = "close" <=> Closes(f)
           /\ ParseClientMessage(f).code # "" =>
                 ParseClientMessage(f).type = "none"
BY DEF Frame, ParseClientMessage, Closes, Parsed, Rejected, ClientType,
       ServerType

\* The client takes exactly the accepted grants for validated.
LEMMA AcceptedValidated ==
    ASSUME NEW r \in Response
    PROVE  ValidateToken(r) = Validated <=> Accepts(r)
BY DEF Response, ValidateToken, Accepts, Validated, Failed

LEMMA Singletons == \A x : <<x>> # <<>> /\ Len(<<x>>) = 1
OBVIOUS

\* What one message and one answer deserve.
LEMMA Deserts ==
    ASSUME NEW f, NEW r
    PROVE  /\ Deserved(<<>>, <<>>) =
                 {"browser_disconnect", "authorize_timeout", "internal_error"}
           /\ Closes(f) =>
                 Deserved(<<f>>, <<>>) = {"client_close", "own_reason"}
           /\ ~Closes(f) /\ ~Authorizes(f) =>
                 Deserved(<<f>>, <<>>) = {"protocol_violation"}
           /\ Accepts(r) =>
                 Deserved(<<f>>, <<r>>) =
                    {"session_limit_reached", "session_start_failed"}
           /\ ~Accepts(r) /\ Rejects(r) =>
                 Deserved(<<f>>, <<r>>) = {"authorization_failed"}
           /\ ~Accepts(r) /\ ~Rejects(r) =>
                 Deserved(<<f>>, <<r>>) = {"internal_error"}
<1>1. /\ <<f>> # <<>> /\ <<f>>[1] = f
      /\ <<r>> # <<>> /\ <<r>>[1] = r
  BY Singletons
<1> QED
  BY <1>1, Zenon DEF Deserved

\* A code and a reason make up a refusal.
LEMMA Pairs ==
    \A code \in Code : \A reason \in CloseReason :
        /\ <<code, reason>> \in Code \X CloseReason
        /\ <<code, reason>>[2] = reason
OBVIOUS

\* A refusal with a reason is not the absence of a refusal.
LEMMA RefusalIsOne ==
    ASSUME NEW x \in Code \X CloseReason
    PROVE  x # NoRefusal
<1>1. "" \notin CloseReason
  BY Zenon DEF CloseReason
<1>2. NoRefusal[2] = ""
  BY Zenon DEF NoRefusal
<1>3. NoRefusal[2] \notin CloseReason
  BY <1>1, <1>2, Zenon
<1>4. x[2] \in CloseReason
  OBVIOUS
<1> QED
  BY <1>3, <1>4

\* The parser's error codes are codes of error messages.
LEMMA ParserCodes ==
    ASSUME NEW f \in Frame
    PROVE  ParseClientMessage(f).code \in Code
<1>1. \A type : Parsed(type).code = ""
  BY DEF Parsed
<1>2. \A code : Rejected(code).code = code
  BY DEF Rejected
<1>3. \A type \in ServerType : UnexpectedCode[type] \in Code
  <2>1. /\ UnexpectedCode["authorized"] = "unexpected_authorized"
        /\ UnexpectedCode["output"] = "unexpected_output"
        /\ UnexpectedCode["error"] = "unexpected_error"
    BY DEF UnexpectedCode
  <2>2. /\ "unexpected_authorized" \in Code
        /\ "unexpected_output" \in Code
        /\ "unexpected_error" \in Code
    BY DEF Code
  <2> QED
    BY <2>1, <2>2 DEF ServerType
<1>4. \A type \in ClientType : InvalidCode[type] \in Code
  <2>1. /\ InvalidCode["authorize"] = "invalid_authorize"
        /\ InvalidCode["input"] = "invalid_input"
        /\ InvalidCode["resize"] = "invalid_resize"
        /\ InvalidCode["close"] = "invalid_close"
    BY DEF InvalidCode
  <2>2. /\ "invalid_authorize" \in Code /\ "invalid_input" \in Code
        /\ "invalid_resize" \in Code /\ "invalid_close" \in Code
    BY DEF Code
  <2> QED
    BY <2>1, <2>2 DEF ClientType
<1>5. "" \in Code /\ "invalid_json" \in Code /\ "unknown_message_type" \in Code
  BY DEF Code
<1> QED
  BY <1>1, <1>2, <1>3, <1>4, <1>5 DEF ParseClientMessage

\* A message that is refused is refused as what it is: a close, or a violation
\* of the protocol.
LEMMA MessageRefused ==
    ASSUME NEW f \in Frame
    PROVE  /\ MessageRefusal(f) \in Code \X CloseReason
           /\ MessageRefusal(f)[2] \in
                 IF Closes(f) THEN {"client_close", "own_reason"}
                 ELSE {"protocol_violation"}
<1>1. /\ "protocol_violation" \in CloseReason
      /\ "client_close" \in CloseReason
      /\ "own_reason" \in CloseReason
  BY DEF CloseReason
<1>2. "" \in Code
  BY DEF Code
<1>6. "unexpected_first_message" \in Code
  BY DEF Code
<1>3. \/ ~Closes(f) /\ MessageRefusal(f) = Violation(ParseClientMessage(f).code)
      \/ ~Closes(f) /\ MessageRefusal(f) = Violation("unexpected_first_message")
      \/ Closes(f) /\ MessageRefusal(f) = ClientClose(f)
  BY CloseParsed DEF MessageRefusal
<1>4. \A code \in Code :
         /\ Violation(code) \in Code \X CloseReason
         /\ Violation(code)[2] = "protocol_violation"
  BY <1>1, Pairs, Zenon DEF Violation
<1>5. /\ ClientClose(f) \in Code \X CloseReason
      /\ ClientClose(f)[2] \in {"client_close", "own_reason"}
  BY <1>1, <1>2, Pairs, Zenon DEF ClientClose
<1> QED
  BY <1>3, <1>4, <1>5, <1>6, ParserCodes

LEMMA FailedFields ==
    \A error, code, v :
        v = Failed(error, code) => v.error = error /\ v.code = code
BY DEF Failed

\* ValidateToken's errors.
LEMMA ValidationErrors ==
    ASSUME NEW r \in Response, ValidateToken(r) # Validated
    PROVE  /\ \/ ValidateToken(r).error = "backend"
              \/ ValidateToken(r).error = "transport"
              \/ ValidateToken(r).error = "invalid"
           /\ ValidateToken(r).error = "invalid" <=> Rejects(r)
           /\ ValidateToken(r).code \in Code
<1>1. ErrorCode(r) \in Code
  BY DEF Response, ErrorCode, Code
<1>2. "" \in Code
  BY DEF Code
<1>3. Rejects(r) <=> r.outcome = "answered" /\ r.status \in InvalidGrantStatus
  BY DEF Rejects, InvalidGrantStatus
<1>4. \/ /\ \E code \in Code : ValidateToken(r) = Failed("transport", code)
         /\ ~Rejects(r)
      \/ /\ \E code \in Code : ValidateToken(r) = Failed("backend", code)
         /\ ~Rejects(r)
      \/ /\ \E code \in Code : ValidateToken(r) = Failed("invalid", code)
         /\ Rejects(r)
  <2>1. r.outcome \notin {"unreachable", "cut"} => r.outcome = "answered"
    BY DEF Response
  <2>2. r.status = 200 => r.status \notin InvalidGrantStatus
    BY DEF InvalidGrantStatus
  <2>3. \/ ValidateToken(r) = Failed("transport", "") /\ ~Rejects(r)
        \/ ValidateToken(r) = Failed("backend", "") /\ ~Rejects(r)
        \/ ValidateToken(r) = Failed("backend", ErrorCode(r)) /\ ~Rejects(r)
        \/ ValidateToken(r) = Failed("invalid", ErrorCode(r)) /\ Rejects(r)
    BY <1>3, <2>1, <2>2 DEF ValidateToken
  <2> QED
    BY <1>1, <1>2, <2>3, Zenon
<1> QED
  BY <1>4, FailedFields

\* classifyGrantError and classifyGrantClose.
LEMMA GrantRefusals ==
    ASSUME NEW v, v.code \in Code
    PROVE  /\ v.error = "invalid" =>
                 /\ GrantRefusal(v) \in Code \X CloseReason
                 /\ GrantRefusal(v)[2] = "authorization_failed"
           /\ v.error \in {"backend", "transport"} =>
                 /\ GrantRefusal(v) \in Code \X CloseReason
                 /\ GrantRefusal(v)[2] = "internal_error"
<1> DEFINE c == IF v.code = "" THEN "backend_validation_failed" ELSE v.code
<1>1. /\ "authorization_failed" \in CloseReason
      /\ "internal_error" \in CloseReason
  BY DEF CloseReason
<1>2. "backend_unreachable" \in Code /\ c \in Code
  <2>1. "backend_unreachable" \in Code /\ "backend_validation_failed" \in Code
    BY DEF Code
  <2> QED
    BY <2>1, Zenon
<1>3. CASE v.error = "invalid"
  <2>1. GrantRefusal(v) = <<v.code, "authorization_failed">>
    BY <1>3, Zenon DEF GrantRefusal
  <2>2. /\ <<v.code, "authorization_failed">> \in Code \X CloseReason
        /\ <<v.code, "authorization_failed">>[2] = "authorization_failed"
    BY <1>1, Pairs, Zenon
  <2> QED
    BY <1>3, <2>1, <2>2
<1>4. CASE v.error = "backend"
  <2>1. GrantRefusal(v) = <<c, "internal_error">>
    BY <1>4, Zenon DEF GrantRefusal
  <2> HIDE DEF c
  <2>2. /\ <<c, "internal_error">> \in Code \X CloseReason
        /\ <<c, "internal_error">>[2] = "internal_error"
    BY <1>1, <1>2, Pairs, Zenon
  <2> QED
    BY <1>4, <2>1, <2>2
<1>5. CASE v.error = "transport"
  <2>1. GrantRefusal(v) = <<"backend_unreachable", "internal_error">>
    BY <1>5, Zenon DEF GrantRefusal
  <2>2. /\ <<"backend_unreachable", "internal_error">> \in Code \X CloseReason
        /\ <<"backend_unreachable", "internal_error">>[2] = "internal_error"
    BY <1>1, <1>2, Pairs, Zenon
  <2> QED
    BY <1>5, <2>1, <2>2
<1> QED
  BY <1>3, <1>4, <1>5

\* An answer that is not an accepted grant is refused as what it is: as a
\* failed authorization if and only if the backend rejected the grant.
LEMMA AnswerRefused ==
    ASSUME NEW r \in Response, ValidateToken(r) # Validated,
           NEW x, x = GrantRefusal(ValidateToken(r))
    PROVE  /\ x \in Code \X CloseReason
           /\ x[2] \in IF Rejects(r) THEN {"authorization_failed"}
                       ELSE {"internal_error"}
BY ValidationErrors, GrantRefusals

-----------------------------------------------------------------------------
(* The registry below *)

\* Every step of Gateway is a step of Registry or leaves its variables alone.
LEMMA StepRefines == [GatewayNext]_gatewayVars => [Next]_vars
<1> SUFFICES ASSUME [GatewayNext]_gatewayVars PROVE [Next]_vars
  OBVIOUS
<1>1. ASSUME NEW s \in Session,
             \/ Upgrade(s) \/ AwaitPeerCloses(s) \/ AwaitFails(s)
             \/ AwaitRefuses(s) \/ AwaitAuthorize(s) \/ AwaitTimesOut(s)
             \/ ValidateGrants(s) \/ ValidateRefuses(s) \/ StartReturns(s)
             \/ StartErrs(s) \/ TellError(s) \/ TellClose(s) \/ Breaks(s)
      PROVE  UNCHANGED vars
  BY <1>1 DEF Upgrade, AwaitPeerCloses, AwaitFails, AwaitRefuses,
     AwaitAuthorize, AwaitTimesOut, ValidateGrants, ValidateRefuses,
     StartReturns, StartErrs, TellError, TellClose, Breaks
<1>2. ASSUME NEW s \in Session, RefuseRequest(s) \/ HangUp(s) \/ StartSteps(s)
      PROVE  Next
  BY <1>2 DEF RefuseRequest, HangUp, StartSteps, Next, StartNext
<1>3. ASSUME NEW s \in Session, SessionHangsUp(s) \/ SessionSteps(s)
      PROVE  Next
  BY <1>3 DEF SessionHangsUp, SessionSteps, Next, CloseBody
<1>4. ASSUME ServerSteps PROVE Next
  BY <1>4 DEF ServerSteps, Next
<1>5. ASSUME UNCHANGED gatewayVars PROVE UNCHANGED vars
  BY <1>5 DEF gatewayVars
<1> QED
  BY <1>1, <1>2, <1>3, <1>4, <1>5 DEF GatewayNext, HandlerNext

\* The handlers call the registry only as module Registry assumes: whatever is
\* proved of Registry holds of the gateway.
THEOREM Implements == GatewaySafeSpec => ImplementsRegistry
<1>1. GatewayInit => Init
  BY DEF GatewayInit
<1> QED
  BY <1>1, StepRefines, PTL DEF GatewaySafeSpec, ImplementsRegistry, SafeSpec

-----------------------------------------------------------------------------
(* A Start that fails after it has registered *)

\* It was undone by a shutdown.
Undone(s) ==
    start[s] \in {"abort", "failed", "refused"} /\ state[s] # "none" =>
        endReason[s] = "server_shutdown"

\* What Life and Trail say about a session that Start fails for.
LEMMA FailedStart ==
    ASSUME NEW s \in Session, Life(s), Trail(s)
    PROVE  /\ start[s] \in {"idle", "open", "opened", "limit"} =>
                 state[s] = "none"
           /\ start[s] = "audited" /\ once[s] # "free" =>
                 endReason[s] = "server_shutdown"
           /\ start[s] \in {"abort", "failed", "refused"} /\ state[s] # "none" =>
                 once[s] # "free"
           /\ state[s] = "none" => once[s] = "free"
BY DEF Life, Trail, Unregistered

\* Every step of Registry preserves Undone of every session.
LEMMA UndoneStep ==
    ASSUME NEW u \in Session, TypeOK, Life(u), Trail(u), Undone(u), [Next]_vars
    PROVE  Undone(u)'
<1>1. /\ start[u] \in {"idle", "open", "opened", "limit"} => state[u] = "none"
      /\ start[u] = "audited" /\ once[u] # "free" =>
            endReason[u] = "server_shutdown"
      /\ start[u] \in {"abort", "failed", "refused"} /\ state[u] # "none" =>
            once[u] # "free"
      /\ state[u] = "none" => once[u] = "free"
  BY FailedStart
<1>2. /\ start \in [Session -> StartStep]
      /\ state \in [Session -> {"none", "active", "closing", "closed"}]
      /\ DOMAIN endReason = Session
      /\ once \in [Session -> CloseStep]
  BY DEF TypeOK
<1> USE <1>1, <1>2 DEF Undone, StartStep, CloseStep, closeVars, serverVars,
        startVars
<1>3. ASSUME NEW s \in Session, StartNext(s) PROVE Undone(u)'
  <2>1. CASE s = u
    BY <1>3, <2>1 DEF StartNext, StartAtCapacity, StartBelowCapacity,
       OpenConsole, OpenFails, KeepaliveFails, Register, RegisterAtCapacity,
       AuditStart, EnqueueInitial, EnqueueOnClosed, AbortStart, Refuse
  <2>2. CASE s # u
    BY <1>3, <2>2 DEF StartNext, StartAtCapacity, StartBelowCapacity,
       OpenConsole, OpenFails, KeepaliveFails, Register, RegisterAtCapacity,
       AuditStart, EnqueueInitial, EnqueueOnClosed, AbortStart, Refuse
  <2> QED
    BY <2>1, <2>2
<1>4. ASSUME NEW s \in Session, NEW r \in LoopReason, LoopEnds(s, r)
      PROVE  Undone(u)'
  BY <1>4 DEF LoopEnds, CloseEnter
<1>5. ASSUME NEW s \in Session, CloseBody(s) PROVE Undone(u)'
  BY <1>5 DEF CloseBody, CloseBrowser, CloseConsole, CloseDelete, CloseState,
     CloseAudit
<1>6. ASSUME NEW s \in Session, CloseAllCloses(s) PROVE Undone(u)'
  BY <1>6 DEF CloseAllCloses, CloseEnter
<1>7. ASSUME NEW s \in Session, CloseAllJoins(s) \/ CloseAllNext(s)
      PROVE  Undone(u)'
  BY <1>7 DEF CloseAllJoins, CloseAllNext
<1>8. CASE \/ ListenFails \/ CloseAllSnapshot \/ CloseAllReturns \/ Exit
           \/ Exited \/ UNCHANGED vars
  BY <1>8 DEF ListenFails, CloseAllSnapshot, CloseAllReturns, Exit, Exited,
     vars
<1> QED
  BY <1>3, <1>4, <1>5, <1>6, <1>7, <1>8 DEF Next, CloseAllNextStep

\* A step that is not Start's leaves a connection without a session alone.
LEMMA Bystander ==
    ASSUME NEW u \in Session, TypeOK, Life(u), Trail(u), Closing, [Next]_vars,
           start'[u] = start[u], state[u] = "none"
    PROVE  state'[u] = "none" /\ console'[u] = console[u]
<1>1. once[u] = "free"
  BY FailedStart
<1>2. /\ start \in [Session -> StartStep]
      /\ DOMAIN state = Session /\ DOMAIN console = Session
      /\ DOMAIN once = Session
      /\ pending \subseteq snapshot
  BY DEF TypeOK
<1> USE <1>1, <1>2 DEF StartStep, closeVars, serverVars, startVars
<1>3. ASSUME NEW s \in Session, StartNext(s)
      PROVE  state'[u] = "none" /\ console'[u] = console[u]
  <2>1. s # u
    BY <1>3 DEF StartNext, StartAtCapacity, StartBelowCapacity,
       OpenConsole, OpenFails, KeepaliveFails, Register, RegisterAtCapacity,
       AuditStart, EnqueueInitial, EnqueueOnClosed, AbortStart, Refuse
  <2> QED
    BY <1>3, <2>1 DEF StartNext, StartAtCapacity, StartBelowCapacity,
       OpenConsole, OpenFails, KeepaliveFails, Register, RegisterAtCapacity,
       AuditStart, EnqueueInitial, EnqueueOnClosed, AbortStart, Refuse
<1>4. ASSUME NEW s \in Session, NEW r \in LoopReason, LoopEnds(s, r)
      PROVE  state'[u] = "none" /\ console'[u] = console[u]
  <2>1. start[u] # "running"
    BY FailedStart, Zenon DEF Life
  <2> QED
    BY <1>4, <2>1 DEF LoopEnds, CloseEnter
<1>5. ASSUME NEW s \in Session, CloseBody(s)
      PROVE  state'[u] = "none" /\ console'[u] = console[u]
  BY <1>5 DEF CloseBody, CloseBrowser, CloseConsole, CloseDelete, CloseState,
     CloseAudit
<1>6. ASSUME NEW s \in Session, CloseAllCloses(s)
      PROVE  state'[u] = "none" /\ console'[u] = console[u]
  <2>1. u \notin pending
    BY DEF Closing
  <2> QED
    BY <1>6, <2>1 DEF CloseAllCloses, CloseEnter
<1>7. ASSUME NEW s \in Session, CloseAllJoins(s) \/ CloseAllNext(s)
      PROVE  state'[u] = "none" /\ console'[u] = console[u]
  BY <1>7 DEF CloseAllJoins, CloseAllNext
<1>8. CASE \/ ListenFails \/ CloseAllSnapshot \/ CloseAllReturns \/ Exit
           \/ Exited \/ UNCHANGED vars
  BY <1>8 DEF ListenFails, CloseAllSnapshot, CloseAllReturns, Exit, Exited,
     vars
<1> QED
  BY <1>3, <1>4, <1>5, <1>6, <1>7, <1>8 DEF Next, CloseAllNextStep

-----------------------------------------------------------------------------
(* What the handler has read, and whom it blames *)

\* The browser has sent an authorize message.
Authorized(s) == \E f \in FirstFrame : heard[s] = <<f>> /\ Authorizes(f)

\* The browser has, and the backend has accepted its grant.
Cleared(s) ==
    Authorized(s) /\ \E r \in Answer : answer[s] = <<r>> /\ Accepts(r)

\* The handler reads one message, and asks the backend only after it.
Lengths(s) ==
    /\ heard[s] = <<>> \/ \E f \in FirstFrame : heard[s] = <<f>>
    /\ \/ answer[s] = <<>>
       \/ heard[s] # <<>> /\ \E r \in Answer : answer[s] = <<r>>

\* What the handler has read when it has come where it is.
Path(s) ==
    /\ handshake[s] \in {"request", "await", "validate"} =>
          start[s] = "idle" /\ console[s] = "none" /\ answer[s] = <<>>
    /\ handshake[s] \in {"request", "await"} => heard[s] = <<>>
    /\ handshake[s] = "validate" => Authorized(s)
    /\ handshake[s] \in {"request", "await", "validate", "start"} =>
          refusal[s] = NoRefusal
    /\ handshake[s] \in {"error", "close", "hangup"} =>
          refusal[s] # NoRefusal
    /\ \/ handshake[s] = "start"
       \/ start[s] \notin {"idle", "refused"}
       \/ state[s] # "none"
       \/ console[s] # "none"
       => Cleared(s)

\* What the handler has read when it refuses.
Blame(s) ==
    refusal[s] # NoRefusal =>
        /\ refusal[s][2] \in Deserved(heard[s], answer[s])
        /\ refusal[s][2] = "session_start_failed" =>
              start[s] \in {"failed", "refused"}

\* The types of the handler's variables, and the lengths of what it has read.
HandlerTypes ==
    /\ handshake \in [Session -> {"request", "await", "validate", "start",
                                  "error", "close", "hangup", "done"}]
    /\ heard \in [Session -> Seq(FirstFrame)]
    /\ answer \in [Session -> Seq(Answer)]
    /\ refusal \in [Session -> (Code \X CloseReason) \cup {NoRefusal}]
    /\ overdue \in [Session -> BOOLEAN]
    /\ mute \in [Session -> BOOLEAN]
    /\ told \in [Session -> Seq(Message)]

GatewayInv ==
    /\ IInv
    /\ HandlerTypes
    /\ \A s \in Session : Undone(s) /\ Lengths(s) /\ Path(s) /\ Blame(s)

\* The refusals that are constants.
LEMMA ConstantRefusals ==
    /\ AuthorizeTimeout \in Code \X CloseReason
    /\ AuthorizeTimeout[2] = "authorize_timeout"
    /\ ReadFailed \in Code \X CloseReason /\ ReadFailed[2] = "internal_error"
    /\ PeerClosed \in Code \X CloseReason
    /\ PeerClosed[2] = "browser_disconnect"
    /\ LimitReached \in Code \X CloseReason
    /\ LimitReached[2] = "session_limit_reached"
    /\ BridgeFailed \in Code \X CloseReason
    /\ BridgeFailed[2] = "session_start_failed"
<1>1. /\ "authorize_timeout" \in CloseReason
      /\ "internal_error" \in CloseReason
      /\ "browser_disconnect" \in CloseReason
      /\ "session_limit_reached" \in CloseReason
      /\ "session_start_failed" \in CloseReason
  BY DEF CloseReason
<1>2. /\ "" \in Code
      /\ "authorize_timeout" \in Code
      /\ "websocket_read_failed" \in Code
      /\ "session_limit_reached" \in Code
      /\ "ssh_bridge_failed" \in Code
  BY DEF Code
<1> QED
  BY <1>1, <1>2, Pairs, Zenon DEF AuthorizeTimeout, ReadFailed, PeerClosed,
     LimitReached, BridgeFailed

\* RefuseWith leads to the error message or straight to the close message.
LEMMA Refuses ==
    ASSUME NEW s \in Session, NEW f, RefuseWith(s, f)
    PROVE  /\ \E h \in {"error", "close"} :
                 handshake' = [handshake EXCEPT ![s] = h]
           /\ refusal' = [refusal EXCEPT ![s] = f]
BY Zenon DEF RefuseWith, GoOn

LEMMA RefuseTypes ==
    ASSUME HandlerTypes, NEW s \in Session, NEW f \in Code \X CloseReason,
           RefuseWith(s, f)
    PROVE  /\ handshake' \in [Session -> {"request", "await", "validate",
                 "start", "error", "close", "hangup", "done"}]
           /\ refusal' \in [Session -> (Code \X CloseReason) \cup {NoRefusal}]
<1>1. PICK h \in {"error", "close"} : handshake' = [handshake EXCEPT ![s] = h]
  BY Refuses
<1>2. refusal' = [refusal EXCEPT ![s] = f]
  BY Refuses
<1> QED
  BY <1>1, <1>2 DEF HandlerTypes

\* Telling appends at most one message, and only while it can arrive.
LEMMA Tells ==
    ASSUME told \in [Session -> Seq(Message)], NEW s \in Session,
           NEW m \in Message, Tell(s, m)
    PROVE  /\ told' \in [Session -> Seq(Message)]
           /\ \/ told'[s] = told[s]
              \/ /\ told'[s] = Append(told[s], m)
                 /\ browser[s] = "open" /\ ~mute[s]
           /\ \A t \in Session \ {s} : told'[t] = told[t]
<1>1. Append(told[s], m) \in Seq(Message)
  OBVIOUS
<1> QED
  BY <1>1 DEF Tell

\* The messages of a refusal.
LEMMA Messages ==
    ASSUME NEW x \in Code \X CloseReason
    PROVE  /\ <<"error", x[1]>> \in Message
           /\ <<"close", x[2]>> \in Message
           /\ <<"frame", x[2]>> \in Message
BY DEF Message

\* A session that hangs up has an end reason.
LEMMA EndHasReason ==
    ASSUME NEW s \in Session, TypeOK, Life(s), once[s] = "browser"
    PROVE  <<"frame", endReason[s]>> \in Message
<1>1. endReason[s] # ""
  BY Zenon DEF Life
<1>2. endReason[s] \in EndReason
  BY <1>1, Zenon DEF TypeOK
<1> QED
  BY <1>2 DEF Message

\* Every step preserves the types of the handler's variables.
LEMMA HandlerTypesStep ==
    ASSUME TypeOK, \A s \in Session : Life(s) /\ Path(s), HandlerTypes,
           [GatewayNext]_gatewayVars
    PROVE  HandlerTypes'
<1> USE DEF HandlerTypes, handlerVars
<1>1. ASSUME NEW s \in Session, Upgrade(s) \/ RefuseRequest(s)
      PROVE  HandlerTypes'
  BY <1>1 DEF Upgrade, RefuseRequest, GoOn
<1>2. ASSUME NEW s \in Session, AwaitTimesOut(s) PROVE HandlerTypes'
  BY <1>2, RefuseTypes, ConstantRefusals DEF AwaitTimesOut
<1>3. ASSUME NEW s \in Session, AwaitPeerCloses(s) PROVE HandlerTypes'
  BY <1>3, ConstantRefusals DEF AwaitPeerCloses, GoOn
<1>4. ASSUME NEW s \in Session, AwaitFails(s) PROVE HandlerTypes'
  BY <1>4, RefuseTypes, ConstantRefusals DEF AwaitFails
<1>5. ASSUME NEW s \in Session, AwaitRefuses(s) PROVE HandlerTypes'
  <2>1. PICK f \in FirstFrame : /\ heard' = [heard EXCEPT ![s] = <<f>>]
                                /\ RefuseWith(s, MessageRefusal(f))
    BY <1>5 DEF AwaitRefuses
  <2>2. MessageRefusal(f) \in Code \X CloseReason
    BY MessageRefused, FirstFrameAssumption
  <2> QED
    BY <1>5, <2>1, <2>2, RefuseTypes DEF AwaitRefuses
<1>6. ASSUME NEW s \in Session, AwaitAuthorize(s) PROVE HandlerTypes'
  BY <1>6 DEF AwaitAuthorize, GoOn
<1>7. ASSUME NEW s \in Session, ValidateGrants(s) PROVE HandlerTypes'
  BY <1>7 DEF ValidateGrants, GoOn
<1>8. ASSUME NEW s \in Session, ValidateRefuses(s) PROVE HandlerTypes'
  <2>1. PICK r \in Answer :
           /\ ValidateToken(r) # Validated
           /\ answer' = [answer EXCEPT ![s] = <<r>>]
           /\ RefuseWith(s, GrantRefusal(ValidateToken(r)))
    BY <1>8 DEF ValidateRefuses
  <2>2. GrantRefusal(ValidateToken(r)) \in Code \X CloseReason
    BY <2>1, AnswerRefused, AnswerAssumption
  <2> QED
    BY <1>8, <2>1, <2>2, RefuseTypes DEF ValidateRefuses
<1>9. ASSUME NEW s \in Session, StartReturns(s) PROVE HandlerTypes'
  BY <1>9 DEF StartReturns, GoOn
<1>10. ASSUME NEW s \in Session, StartErrs(s) PROVE HandlerTypes'
  BY <1>10, RefuseTypes, ConstantRefusals DEF StartErrs
<1>11. ASSUME NEW s \in Session, TellError(s) \/ TellClose(s) \/ HangUp(s)
       PROVE  HandlerTypes'
  <2>1. refusal[s] \in Code \X CloseReason
    BY <1>11 DEF TellError, TellClose, HangUp, Path
  <2>2. told' \in [Session -> Seq(Message)]
    BY <1>11, <2>1, Messages, Tells DEF TellError, TellClose, HangUp
  <2> QED
    BY <1>11, <2>2 DEF TellError, TellClose, HangUp, GoOn
<1>12. ASSUME NEW s \in Session, SessionHangsUp(s) PROVE HandlerTypes'
  <2>1. told' \in [Session -> Seq(Message)]
    BY <1>12, EndHasReason, Tells DEF SessionHangsUp, CloseBrowser
  <2> QED
    BY <1>12, <2>1 DEF SessionHangsUp
<1>13. ASSUME NEW s \in Session, Breaks(s) PROVE HandlerTypes'
  BY <1>13 DEF Breaks
<1>14. ASSUME NEW s \in Session, StartSteps(s) \/ SessionSteps(s)
       PROVE  HandlerTypes'
  BY <1>14 DEF StartSteps, SessionSteps
<1>15. CASE ServerSteps \/ UNCHANGED gatewayVars
  BY <1>15 DEF ServerSteps, gatewayVars
<1> QED
  BY <1>1, <1>2, <1>3, <1>4, <1>5, <1>6, <1>7, <1>8, <1>9, <1>10, <1>11,
     <1>12, <1>13, <1>14, <1>15 DEF GatewayNext, HandlerNext

\* The steps of Start, and those that refuse, are the ones that move start.
LEMMA StartKept ==
    ASSUME NEW u \in Session, TypeOK, NEW s \in Session,
           \/ SessionHangsUp(s) \/ SessionSteps(s) \/ ServerSteps
           \/ s # u /\ (RefuseRequest(s) \/ HangUp(s) \/ StartSteps(s))
    PROVE  start'[u] = start[u]
<1> USE DEF TypeOK, closeVars, serverVars, startVars
<1>1. CASE SessionHangsUp(s) \/ SessionSteps(s)
  BY <1>1 DEF SessionHangsUp, SessionSteps, LoopEnds, CloseBody, CloseBrowser,
     CloseConsole, CloseDelete, CloseState, CloseAudit
<1>2. CASE ServerSteps
  BY <1>2 DEF ServerSteps, ListenFails, CloseAllSnapshot, CloseAllNextStep,
     CloseAllCloses, CloseAllJoins, CloseAllNext, CloseAllReturns, Exit,
     Exited, vars
<1>3. CASE s # u /\ (RefuseRequest(s) \/ HangUp(s))
  BY <1>3 DEF RefuseRequest, HangUp, Refuse
<1>4. CASE s # u /\ StartSteps(s)
  BY <1>4 DEF StartSteps, StartNext, StartAtCapacity, StartBelowCapacity,
       OpenConsole, OpenFails, KeepaliveFails, Register, RegisterAtCapacity,
       AuditStart, EnqueueInitial, EnqueueOnClosed, AbortStart, Refuse
<1> QED
  BY <1>1, <1>2, <1>3, <1>4

\* Where nothing of the handler changes and start stays, neither does what is
\* known of the handler.
LEMMA HandlerKept ==
    ASSUME NEW u \in Session, IInv, [Next]_vars, Path(u), Blame(u),
           handshake'[u] = handshake[u], heard'[u] = heard[u],
           answer'[u] = answer[u], refusal'[u] = refusal[u],
           start'[u] = start[u]
    PROVE  Path(u)' /\ Blame(u)'
<1>1. state[u] = "none" => state'[u] = "none" /\ console'[u] = console[u]
  BY Bystander DEF IInv
<1>2. start[u] = "idle" => state[u] = "none"
  BY FailedStart DEF IInv
<1>3. Path(u)'
  BY <1>1, <1>2 DEF Path, Cleared, Authorized
<1>4. Blame(u)'
  BY DEF Blame
<1> QED
  BY <1>3, <1>4

\* Nothing of the registry changes at another connection's handler step either.
LEMMA HandlerStep ==
    ASSUME NEW u \in Session, IInv, HandlerTypes, Path(u), Blame(u),
           UNCHANGED vars, NEW s \in Session,
           \/ Upgrade(s) \/ AwaitPeerCloses(s) \/ AwaitFails(s)
           \/ AwaitRefuses(s) \/ AwaitAuthorize(s) \/ AwaitTimesOut(s)
           \/ ValidateGrants(s) \/ ValidateRefuses(s) \/ StartReturns(s)
           \/ StartErrs(s) \/ TellError(s) \/ TellClose(s) \/ Breaks(s)
    PROVE  Path(u)' /\ Blame(u)'
<1> USE DEF HandlerTypes, handlerVars
<1>1. CASE s # u
  <2>1. /\ handshake'[u] = handshake[u] /\ heard'[u] = heard[u]
        /\ answer'[u] = answer[u] /\ refusal'[u] = refusal[u]
    BY <1>1 DEF Upgrade, AwaitPeerCloses, AwaitFails, AwaitRefuses,
       AwaitAuthorize, AwaitTimesOut, ValidateGrants, ValidateRefuses,
       StartReturns, StartErrs, TellError, TellClose, Breaks, RefuseWith, GoOn
  <2> QED
    BY <2>1, HandlerKept DEF vars
<1>2. /\ start' = start /\ state' = state /\ console' = console
      /\ start[u] = "idle" => state[u] = "none"
  BY FailedStart DEF vars, IInv
<1> USE <1>2
<1>3. CASE s = u /\ Upgrade(s)
  BY <1>3 DEF Upgrade, GoOn, Path, Blame, Cleared, Authorized
<1>4. CASE s = u /\ AwaitPeerCloses(s)
  <2>1. PeerClosed # NoRefusal
    BY ConstantRefusals, RefusalIsOne
  <2> QED
    BY <1>4, <2>1, ConstantRefusals, Deserts
    DEF AwaitPeerCloses, GoOn, Path, Blame
<1>5. CASE s = u /\ (AwaitTimesOut(s) \/ AwaitFails(s))
  <2>1. PICK f \in {AuthorizeTimeout, ReadFailed} : RefuseWith(s, f)
    BY <1>5 DEF AwaitTimesOut, AwaitFails
  <2>2. /\ f # NoRefusal
        /\ f[2] \in {"authorize_timeout", "internal_error"}
    BY ConstantRefusals, RefusalIsOne
  <2>3. PICK h \in {"error", "close"} :
           handshake' = [handshake EXCEPT ![s] = h]
    BY <2>1, Refuses
  <2>4. refusal' = [refusal EXCEPT ![s] = f]
    BY <2>1, Refuses
  <2>5. f[2] \in Deserved(heard[s], answer[s])
    <3>1. heard[s] = <<>> /\ answer[s] = <<>>
      BY <1>5 DEF AwaitTimesOut, AwaitFails, Path
    <3>2. Deserved(heard[s], answer[s])
             = {"browser_disconnect", "authorize_timeout", "internal_error"}
      BY <3>1, Deserts, Zenon
    <3> QED
      BY <2>2, <3>2
  <2> QED
    BY <1>5, <2>2, <2>3, <2>4, <2>5
    DEF AwaitTimesOut, AwaitFails, Path, Blame
<1>6. CASE s = u /\ AwaitRefuses(s)
  <2>1. PICK f \in FirstFrame : /\ heard' = [heard EXCEPT ![s] = <<f>>]
                                /\ ParseClientMessage(f).type # "authorize"
                                /\ RefuseWith(s, MessageRefusal(f))
    BY <1>6 DEF AwaitRefuses
  <2>2. ~Authorizes(f)
    BY <2>1, AuthorizeParsed, FirstFrameAssumption
  <2>3. /\ MessageRefusal(f) # NoRefusal
        /\ MessageRefusal(f)[2] \in
              IF Closes(f) THEN {"client_close", "own_reason"}
              ELSE {"protocol_violation"}
    BY MessageRefused, RefusalIsOne, FirstFrameAssumption
  <2>4. PICK h \in {"error", "close"} :
           handshake' = [handshake EXCEPT ![s] = h]
    BY <2>1, Refuses
  <2>5. refusal' = [refusal EXCEPT ![s] = MessageRefusal(f)]
    BY <2>1, Refuses
  <2>6. MessageRefusal(f)[2] \in Deserved(<<f>>, <<>>)
    BY <2>2, <2>3, Deserts
  <2> QED
    BY <1>6, <2>1, <2>2, <2>3, <2>4, <2>5, <2>6
    DEF AwaitRefuses, Path, Blame
<1>7. CASE s = u /\ AwaitAuthorize(s)
  <2>1. PICK f \in FirstFrame : /\ ParseClientMessage(f).type = "authorize"
                                /\ heard' = [heard EXCEPT ![s] = <<f>>]
    BY <1>7 DEF AwaitAuthorize
  <2>2. Authorizes(f)
    BY <2>1, AuthorizeParsed, FirstFrameAssumption
  <2> QED
    BY <1>7, <2>1, <2>2 DEF AwaitAuthorize, GoOn, Path, Blame, Authorized
<1>8. CASE s = u /\ ValidateGrants(s)
  <2>1. PICK r \in Answer : /\ ValidateToken(r) = Validated
                            /\ answer' = [answer EXCEPT ![s] = <<r>>]
    BY <1>8 DEF ValidateGrants
  <2>2. Accepts(r)
    BY <2>1, AcceptedValidated, AnswerAssumption
  <2> QED
    BY <1>8, <2>1, <2>2
    DEF ValidateGrants, GoOn, Path, Blame, Cleared, Authorized
<1>9. CASE s = u /\ ValidateRefuses(s)
  <2>1. PICK r \in Answer :
           /\ ValidateToken(r) # Validated
           /\ answer' = [answer EXCEPT ![s] = <<r>>]
           /\ RefuseWith(s, GrantRefusal(ValidateToken(r)))
    BY <1>9 DEF ValidateRefuses
  <2> DEFINE f == GrantRefusal(ValidateToken(r))
  <2>2. ~Accepts(r)
    BY <2>1, AcceptedValidated, AnswerAssumption
  <2>3. /\ f # NoRefusal
        /\ f[2] \in IF Rejects(r) THEN {"authorization_failed"}
                    ELSE {"internal_error"}
    BY <2>1, AnswerRefused, RefusalIsOne, AnswerAssumption
  <2>4. PICK h \in {"error", "close"} :
           handshake' = [handshake EXCEPT ![s] = h]
    BY <2>1, Refuses
  <2>5. refusal' = [refusal EXCEPT ![s] = f]
    BY <2>1, Refuses
  <2> HIDE DEF f
  <2>6. Path(u)'
    BY <1>9, <2>3, <2>4, <2>5 DEF ValidateRefuses, Path
  <2>7. Blame(u)'
    <3>1. PICK g \in FirstFrame : heard[s] = <<g>>
      BY <1>9 DEF ValidateRefuses, Path, Authorized
    <3>2. f[2] \in Deserved(<<g>>, <<r>>)
      BY <2>2, <2>3, Deserts
    <3>3. f[2] # "session_start_failed"
      BY <2>3
    <3> QED
      BY <1>9, <2>1, <2>5, <3>1, <3>2, <3>3 DEF ValidateRefuses, Blame
  <2> QED
    BY <2>6, <2>7
<1>10. CASE s = u /\ (StartReturns(s) \/ TellError(s) \/ TellClose(s))
  <2>1. /\ handshake[u] \in {"start", "error", "close"}
        /\ handshake'[u] \in {"close", "hangup", "done"}
        /\ handshake'[u] \in {"close", "hangup"} => refusal[u] # NoRefusal
        /\ UNCHANGED <<heard, answer, refusal>>
    BY <1>10 DEF StartReturns, TellError, TellClose, GoOn, Path
  <2>2. Path(u)'
    BY <2>1 DEF Path, Cleared, Authorized
  <2>3. Blame(u)'
    BY <1>10, <2>1 DEF Blame
  <2> QED
    BY <2>2, <2>3
<1>11. CASE s = u /\ StartErrs(s)
  <2>1. PICK f \in {LimitReached, BridgeFailed} :
           RefuseWith(s, f) /\ (f = BridgeFailed => start[s] = "failed")
    BY <1>11, ConstantRefusals DEF StartErrs
  <2>2. /\ f # NoRefusal
        /\ f[2] \in {"session_limit_reached", "session_start_failed"}
        /\ f[2] = "session_start_failed" => start[s] = "failed"
    BY <2>1, ConstantRefusals, RefusalIsOne
  <2>3. PICK h \in {"error", "close"} :
           handshake' = [handshake EXCEPT ![s] = h]
    BY <2>1, Refuses
  <2>4. refusal' = [refusal EXCEPT ![s] = f]
    BY <2>1, Refuses
  <2>5. f[2] \in Deserved(heard[s], answer[s])
    <3>1. PICK g \in FirstFrame, r \in Answer :
             heard[s] = <<g>> /\ answer[s] = <<r>> /\ Accepts(r)
      BY <1>11 DEF StartErrs, Path, Cleared, Authorized
    <3>2. Deserved(<<g>>, <<r>>)
             = {"session_limit_reached", "session_start_failed"}
      BY <3>1, Deserts
    <3>3. f[2] \in Deserved(<<g>>, <<r>>)
      BY <2>2, <3>2
    <3> QED
      BY <3>1, <3>3, Zenon
  <2> QED
    BY <1>11, <2>2, <2>3, <2>4, <2>5
    DEF StartErrs, Path, Blame, Cleared, Authorized
<1>12. CASE s = u /\ Breaks(s)
  BY <1>12 DEF Breaks, Path, Blame, Cleared, Authorized
<1> HIDE <1>2 DEF HandlerTypes, handlerVars
<1>13. CASE s = u
  <2>1. \/ Upgrade(u) \/ AwaitPeerCloses(u) \/ AwaitFails(u)
        \/ AwaitRefuses(u) \/ AwaitAuthorize(u) \/ AwaitTimesOut(u)
        \/ ValidateGrants(u) \/ ValidateRefuses(u) \/ StartReturns(u)
        \/ StartErrs(u) \/ TellError(u) \/ TellClose(u) \/ Breaks(u)
    BY <1>13
  <2> QED
    BY <1>3, <1>4, <1>5, <1>6, <1>7, <1>8, <1>9, <1>10, <1>11, <1>12, <1>13,
       <2>1
<1> QED
  BY <1>1, <1>13

\* Every step preserves Lengths of every connection.
LEMMA LengthsStep ==
    ASSUME NEW u \in Session, HandlerTypes, Path(u), Lengths(u),
           [GatewayNext]_gatewayVars
    PROVE  Lengths(u)'
<1> USE DEF HandlerTypes, handlerVars
<1>1. ASSUME NEW s \in Session, AwaitRefuses(s) \/ AwaitAuthorize(s)
      PROVE  Lengths(u)'
  <2>1. PICK f \in FirstFrame : heard' = [heard EXCEPT ![s] = <<f>>]
    BY <1>1 DEF AwaitRefuses, AwaitAuthorize
  <2>2. handshake[s] = "await" /\ UNCHANGED answer
    BY <1>1 DEF AwaitRefuses, AwaitAuthorize
  <2>3. s = u => answer[u] = <<>>
    BY <2>2 DEF Path
  <2> QED
    BY <2>1, <2>2, <2>3 DEF Lengths
<1>2. ASSUME NEW s \in Session, ValidateGrants(s) \/ ValidateRefuses(s)
      PROVE  Lengths(u)'
  <2>1. PICK r \in Answer : answer' = [answer EXCEPT ![s] = <<r>>]
    BY <1>2 DEF ValidateGrants, ValidateRefuses
  <2>2. handshake[s] = "validate" /\ UNCHANGED heard
    BY <1>2 DEF ValidateGrants, ValidateRefuses
  <2>3. s = u => heard[u] # <<>>
    <3>1. s = u => \E f \in FirstFrame : heard[u] = <<f>>
      BY <2>2 DEF Path, Authorized
    <3> QED
      BY <3>1, Singletons
  <2> QED
    BY <2>1, <2>2, <2>3 DEF Lengths
<1>3. ASSUME NEW s \in Session,
             \/ Upgrade(s) \/ AwaitPeerCloses(s) \/ AwaitFails(s)
             \/ AwaitTimesOut(s) \/ StartReturns(s) \/ StartErrs(s)
             \/ TellError(s) \/ TellClose(s) \/ Breaks(s)
             \/ RefuseRequest(s) \/ HangUp(s) \/ StartSteps(s)
             \/ SessionHangsUp(s) \/ SessionSteps(s)
      PROVE  UNCHANGED <<heard, answer>>
  BY <1>3 DEF Upgrade, AwaitPeerCloses, AwaitFails, AwaitTimesOut,
     StartReturns, StartErrs, TellError, TellClose, Breaks, RefuseRequest,
     HangUp, StartSteps, SessionHangsUp, SessionSteps
<1>4. CASE ServerSteps \/ UNCHANGED gatewayVars
  BY <1>4 DEF ServerSteps, gatewayVars, Lengths
<1>5. UNCHANGED <<heard, answer>> => Lengths(u)'
  BY DEF Lengths
<1> QED
  BY <1>1, <1>2, <1>3, <1>4, <1>5 DEF GatewayNext, HandlerNext

\* Every step preserves Path and Blame of every connection.
LEMMA PathStep ==
    ASSUME NEW u \in Session, IInv, HandlerTypes, Path(u), Blame(u),
           [GatewayNext]_gatewayVars
    PROVE  Path(u)' /\ Blame(u)'
<1>1. TypeOK /\ Life(u) /\ Trail(u) /\ [Next]_vars
  BY StepRefines DEF IInv
<1>2. ASSUME NEW s \in Session,
             \/ Upgrade(s) \/ AwaitPeerCloses(s) \/ AwaitFails(s)
             \/ AwaitRefuses(s) \/ AwaitAuthorize(s) \/ AwaitTimesOut(s)
             \/ ValidateGrants(s) \/ ValidateRefuses(s) \/ StartReturns(s)
             \/ StartErrs(s) \/ TellError(s) \/ TellClose(s) \/ Breaks(s)
      PROVE  Path(u)' /\ Blame(u)'
  <2>1. UNCHANGED vars
    BY <1>2 DEF Upgrade, AwaitPeerCloses, AwaitFails, AwaitRefuses,
       AwaitAuthorize, AwaitTimesOut, ValidateGrants, ValidateRefuses,
       StartReturns, StartErrs, TellError, TellClose, Breaks
  <2> QED
    BY <1>2, <2>1, HandlerStep
<1>3. ASSUME NEW s \in Session, SessionHangsUp(s) \/ SessionSteps(s)
      PROVE  Path(u)' /\ Blame(u)'
  <2>1. UNCHANGED <<handshake, heard, answer, refusal>>
    BY <1>3 DEF SessionHangsUp, SessionSteps, handlerVars
  <2> QED
    BY <1>1, <1>3, <2>1, StartKept, HandlerKept
<1>4. CASE ServerSteps
  <2>1. UNCHANGED <<handshake, heard, answer, refusal>>
    BY <1>4 DEF ServerSteps, handlerVars
  <2> QED
    BY <1>1, <1>4, <2>1, StartKept, HandlerKept
<1>5. ASSUME NEW s \in Session, s # u,
             RefuseRequest(s) \/ HangUp(s) \/ StartSteps(s)
      PROVE  Path(u)' /\ Blame(u)'
  <2>1. /\ handshake'[u] = handshake[u]
        /\ UNCHANGED <<heard, answer, refusal>>
    BY <1>5 DEF RefuseRequest, HangUp, StartSteps, handlerVars, GoOn,
       HandlerTypes
  <2> QED
    BY <1>1, <1>5, <2>1, StartKept, HandlerKept
<1>6. CASE RefuseRequest(u) \/ HangUp(u)
  <2>1. /\ handshake'[u] = "done" /\ start'[u] = "refused"
        /\ start[u] \in {"idle", "limit", "failed"}
        /\ UNCHANGED <<heard, answer, refusal, state, console>>
    BY <1>1, <1>6 DEF RefuseRequest, HangUp, Refuse, GoOn, HandlerTypes,
       TypeOK, closeVars
  <2> QED
    BY <2>1 DEF Path, Blame, Cleared, Authorized
<1>7. CASE StartSteps(u)
  <2>1. handshake[u] = "start" /\ UNCHANGED <<handshake, heard, answer, refusal>>
    BY <1>7 DEF StartSteps, handlerVars
  <2> QED
    BY <2>1 DEF Path, Blame, Cleared, Authorized
<1>8. CASE UNCHANGED gatewayVars
  <2>1. UNCHANGED <<handshake, heard, answer, refusal, start>>
    BY <1>8 DEF gatewayVars, handlerVars, vars
  <2> QED
    BY <1>1, <2>1, HandlerKept
<1>9. ASSUME NEW s \in Session, RefuseRequest(s) \/ HangUp(s) \/ StartSteps(s)
      PROVE  Path(u)' /\ Blame(u)'
  BY <1>5, <1>6, <1>7, <1>9
<1> QED
  BY <1>2, <1>3, <1>4, <1>8, <1>9 DEF GatewayNext, HandlerNext

LEMMA GatewayInvInit == GatewayInit => GatewayInv
<1> SUFFICES ASSUME GatewayInit PROVE GatewayInv
  OBVIOUS
<1>1. IInv
  BY InvInit DEF GatewayInit
<1>2. HandlerTypes
  BY DEF GatewayInit, HandlerTypes
<1>3. ASSUME NEW s \in Session PROVE Undone(s) /\ Lengths(s) /\ Path(s) /\ Blame(s)
  <2>1. /\ start[s] = "idle" /\ state[s] = "none" /\ console[s] = "none"
        /\ handshake[s] = "request" /\ heard[s] = <<>> /\ answer[s] = <<>>
        /\ refusal[s] = NoRefusal
    BY Zenon, <1>3 DEF GatewayInit, Init
  <2> QED
    BY <2>1 DEF Undone, Lengths, Path, Blame
<1> QED
  BY <1>1, <1>2, <1>3 DEF GatewayInv

LEMMA GatewayInvStep ==
    GatewayInv /\ [GatewayNext]_gatewayVars => GatewayInv'
<1> SUFFICES ASSUME GatewayInv, [GatewayNext]_gatewayVars PROVE GatewayInv'
  OBVIOUS
<1>1. IInv'
  BY StepRefines, InvStep DEF GatewayInv
<1>2. HandlerTypes'
  BY HandlerTypesStep DEF GatewayInv, IInv
<1>3. ASSUME NEW u \in Session
      PROVE  Undone(u)' /\ Lengths(u)' /\ Path(u)' /\ Blame(u)'
  BY StepRefines, UndoneStep, LengthsStep, PathStep DEF GatewayInv, IInv
<1> QED
  BY <1>1, <1>2, <1>3 DEF GatewayInv

\* What the handler has read and whom it blames stay in step with the registry
\* in every state of the gateway.
THEOREM GatewayInvariance == GatewaySafeSpec => []GatewayInv
BY GatewayInvInit, GatewayInvStep, PTL DEF GatewaySafeSpec

-----------------------------------------------------------------------------
(* The properties *)

\* Every variable keeps its type in every state of the gateway.
THEOREM GatewayTypeCorrect == GatewaySafeSpec => []GatewayTypeOK
<1>1. GatewayInv => GatewayTypeOK
  <2> SUFFICES ASSUME GatewayInv PROVE GatewayTypeOK
    OBVIOUS
  <2>1. TypeOK /\ HandlerTypes
    BY DEF GatewayInv, IInv
  <2>2. ASSUME NEW s \in Session
        PROVE  Len(answer[s]) <= Len(heard[s]) /\ Len(heard[s]) <= 1
    <3>1. heard[s] = <<>> \/ \E f \in FirstFrame : heard[s] = <<f>>
      BY DEF GatewayInv, Lengths
    <3>2. \/ answer[s] = <<>>
          \/ heard[s] # <<>> /\ \E r \in Answer : answer[s] = <<r>>
      BY DEF GatewayInv, Lengths
    <3>3. heard[s] = <<>> \/ Len(heard[s]) = 1
      BY <3>1, Singletons, Zenon
    <3>4. answer[s] = <<>> \/ (heard[s] # <<>> /\ Len(answer[s]) = 1)
      BY <3>2, Singletons, Zenon
    <3>5. Len(<<>>) = 0
      OBVIOUS
    <3>6. /\ Len(heard[s]) \in {0, 1} /\ Len(answer[s]) \in {0, 1}
          /\ Len(answer[s]) = 1 => Len(heard[s]) = 1
      BY <3>3, <3>4, <3>5, Zenon
    <3>7. \A m, n \in {0, 1} : (m = 1 => n = 1) => m <= n /\ n <= 1
      OBVIOUS
    <3> QED
      BY <3>6, <3>7, Zenon
  <2> QED
    BY <2>1, <2>2 DEF GatewayTypeOK, HandlerTypes
<1> QED
  BY <1>1, GatewayInvariance, PTL

\* No ssh connection is made for a browser that has not sent a proper authorize
\* message or whose grant the backend has not accepted with an address.
THEOREM NeedsGrant == GatewaySafeSpec => []ConsoleNeedsGrant
<1>1. GatewayInv => ConsoleNeedsGrant
  <2> SUFFICES ASSUME GatewayInv, NEW s \in Session, console[s] # "none"
               PROVE  /\ heard[s] # <<>> /\ Authorizes(heard[s][1])
                      /\ answer[s] # <<>> /\ Accepts(answer[s][1])
    BY DEF ConsoleNeedsGrant
  <2>1. Cleared(s)
    BY DEF GatewayInv, Path
  <2> QED
    BY <2>1 DEF Cleared, Authorized
<1> QED
  BY <1>1, GatewayInvariance, PTL

\* Every refusal has a reason that what the browser has sent and what the backend
\* has answered deserve, for all messages and answers; an answer that neither
\* accepts nor rejects the grant, a 400 or a 429 among them, is told as an
\* internal error.
THEOREM BlamesFit == GatewaySafeSpec => []BlameFits
<1>1. GatewayInv => BlameFits
  <2> SUFFICES ASSUME GatewayInv, NEW s \in Session, refusal[s] # NoRefusal
               PROVE  /\ refusal[s][2] \in Deserved(heard[s], answer[s])
                      /\ refusal[s][2] = "session_start_failed"
                            /\ Occurs("session_started", audit[s]) =>
                            endReason[s] = "server_shutdown"
    BY DEF BlameFits
  <2>1. Blame(s) /\ Undone(s) /\ Trail(s)
    BY DEF GatewayInv, IInv
  <2>2. ASSUME refusal[s][2] = "session_start_failed",
               Occurs("session_started", audit[s])
        PROVE  endReason[s] = "server_shutdown"
    <3>1. start[s] \in {"failed", "refused"}
      BY <2>1, <2>2 DEF Blame
    <3>2. audit[s] # <<>> /\ audit[s] # <<"session_rejected">>
      BY <2>2 DEF Occurs
    <3>3. state[s] # "none"
      BY <2>1, <3>2 DEF Trail
    <3> QED
      BY <2>1, <3>1, <3>3 DEF Undone
  <2> QED
    BY <2>1, <2>2 DEF Blame
<1> QED
  BY <1>1, GatewayInvariance, PTL

-----------------------------------------------------------------------------
(* What a refused browser learns *)

\* The handler has not begun to tell.
Untold(s) ==
    handshake[s] \in {"request", "await", "validate", "start", "error"}

\* A connection that is closed stays closed.
LEMMA BrowserKept ==
    ASSUME NEW u \in Session, TypeOK, [Next]_vars, browser'[u] = "open"
    PROVE  browser[u] = "open"
<1> USE DEF TypeOK, closeVars, serverVars, startVars
<1>1. ASSUME NEW s \in Session, StartNext(s) PROVE browser[u] = "open"
  BY <1>1 DEF StartNext, StartAtCapacity, StartBelowCapacity, OpenConsole,
     OpenFails, KeepaliveFails, Register, RegisterAtCapacity, AuditStart,
     EnqueueInitial, EnqueueOnClosed, AbortStart, Refuse
<1>2. ASSUME NEW s \in Session,
             CloseBody(s) \/ \E r \in LoopReason : LoopEnds(s, r)
      PROVE  browser[u] = "open"
  BY <1>2 DEF LoopEnds, CloseBody, CloseBrowser, CloseConsole, CloseDelete,
     CloseState, CloseAudit
<1>3. ASSUME NEW s \in Session,
             CloseAllCloses(s) \/ CloseAllJoins(s) \/ CloseAllNext(s)
      PROVE  browser[u] = "open"
  BY <1>3 DEF CloseAllCloses, CloseAllJoins, CloseAllNext
<1>4. CASE \/ ListenFails \/ CloseAllSnapshot \/ CloseAllReturns \/ Exit
           \/ Exited \/ UNCHANGED vars
  BY <1>4 DEF ListenFails, CloseAllSnapshot, CloseAllReturns, Exit, Exited,
     vars
<1> QED
  BY <1>1, <1>2, <1>3, <1>4 DEF Next, CloseAllNextStep

\* How far the handler of a browser that listens has come to explain itself.
Explains(s) ==
    /\ Untold(s) => browser[s] = "open" /\ told[s] = <<>>
    /\ handshake[s] = "error" => ErrorOf(s) = << <<"error", refusal[s][1]>> >>
    /\ handshake[s] = "close" => browser[s] = "open" /\ told[s] = ErrorOf(s)
    /\ refusal[s] \notin {NoRefusal, PeerClosed} =>
          /\ handshake[s] = "hangup" =>
                /\ browser[s] = "open"
                /\ told[s] = ErrorOf(s) \o << <<"close", refusal[s][2]>> >>
          /\ handshake[s] = "done" =>
                told[s] = (ErrorOf(s) \o << <<"close", refusal[s][2]>> >>)
                             \o FrameOf(s)

Listening(s) == ~mute[s] /\ once[s] = "free"

\* A session whose close has begun does not become free again, and no step but
\* a refusal closes the connection of one that is free.
LEMMA FreeKept ==
    ASSUME NEW u \in Session, TypeOK, [Next]_vars, once'[u] = "free"
    PROVE  once[u] = "free" /\ (browser'[u] = browser[u] \/ Refuse(u))
<1> USE DEF TypeOK, closeVars, serverVars, startVars
<1>1. ASSUME NEW s \in Session, StartNext(s), ~Refuse(s)
      PROVE  once[u] = "free" /\ browser'[u] = browser[u]
  BY <1>1 DEF StartNext, StartAtCapacity, StartBelowCapacity, OpenConsole,
     OpenFails, KeepaliveFails, Register, RegisterAtCapacity, AuditStart,
     EnqueueInitial, EnqueueOnClosed, AbortStart
<1>2. ASSUME NEW s \in Session, Refuse(s)
      PROVE  once[u] = "free" /\ (browser'[u] = browser[u] \/ Refuse(u))
  <2>1. once[u] = "free" /\ (browser'[u] = browser[u] \/ s = u)
    BY <1>2 DEF Refuse
  <2> QED
    BY <1>2, <2>1
<1>3. ASSUME NEW s \in Session,
             CloseBody(s) \/ \E r \in LoopReason : LoopEnds(s, r)
      PROVE  once[u] = "free" /\ browser'[u] = browser[u]
  BY <1>3 DEF LoopEnds, CloseEnter, CloseBody, CloseBrowser, CloseConsole,
     CloseDelete, CloseState, CloseAudit
<1>4. ASSUME NEW s \in Session,
             CloseAllCloses(s) \/ CloseAllJoins(s) \/ CloseAllNext(s)
      PROVE  once[u] = "free" /\ browser'[u] = browser[u]
  BY <1>4 DEF CloseAllCloses, CloseEnter, CloseAllJoins, CloseAllNext
<1>5. CASE \/ ListenFails \/ CloseAllSnapshot \/ CloseAllReturns \/ Exit
           \/ Exited \/ UNCHANGED vars
  BY <1>5 DEF ListenFails, CloseAllSnapshot, CloseAllReturns, Exit, Exited,
     vars
<1> QED
  BY <1>1, <1>2, <1>3, <1>4, <1>5 DEF Next, CloseAllNextStep

\* RefuseWith sets out to tell the error of the refusal, or has none to tell.
LEMMA RefuseExplains ==
    ASSUME NEW s \in Session, HandlerTypes, NEW f, RefuseWith(s, f)
    PROVE  /\ refusal'[s] = f
           /\ \/ handshake'[s] = "close" /\ ErrorOf(s)' = <<>>
              \/ /\ handshake'[s] = "error"
                 /\ ErrorOf(s)' = << <<"error", refusal'[s][1]>> >>
<1>1. DOMAIN handshake = Session /\ DOMAIN refusal = Session
  BY DEF HandlerTypes
<1>2. refusal'[s] = f
  BY <1>1, Refuses
<1>3. CASE f[1] = ""
  <2>1. handshake' = [handshake EXCEPT ![s] = "close"]
    BY <1>3, Zenon DEF RefuseWith, GoOn
  <2>2. handshake'[s] = "close"
    BY <1>1, <2>1, Zenon
  <2>3. ErrorOf(s)' = <<>>
    BY <1>2, <1>3, Zenon DEF ErrorOf
  <2> QED
    BY <1>2, <2>2, <2>3, Zenon
<1>4. CASE f[1] # ""
  <2>1. handshake' = [handshake EXCEPT ![s] = "error"]
    BY <1>4, Zenon DEF RefuseWith, GoOn
  <2>2. handshake'[s] = "error"
    BY <1>1, <2>1, Zenon
  <2>3. ErrorOf(s)' = << <<"error", refusal'[s][1]>> >>
    BY <1>2, <1>4, Zenon DEF ErrorOf
  <2> QED
    BY <1>2, <2>2, <2>3, Zenon
<1> QED
  BY <1>3, <1>4, Zenon

\* Nothing that explains the refusal changes.
LEMMA ExplainsKept ==
    ASSUME NEW u \in Session, Explains(u),
           handshake'[u] = handshake[u], refusal'[u] = refusal[u],
           heard'[u] = heard[u], told'[u] = told[u],
           browser'[u] = browser[u]
    PROVE  Explains(u)'
<1>1. ErrorOf(u)' = ErrorOf(u) /\ FrameOf(u)' = FrameOf(u)
  BY Zenon DEF ErrorOf, FrameOf
<1>2. Untold(u)' => Untold(u)
  BY DEF Untold
<1> QED
  BY <1>1, <1>2 DEF Explains

LEMMA Concatenations ==
    ASSUME NEW seq \in Seq(Message), NEW m \in Message
    PROVE  Append(seq, m) = seq \o <<m>> /\ Append(<<>>, m) = <<m>>
           /\ seq \o <<>> = seq
OBVIOUS

\* A connection that takes no messages takes none later.
LEMMA MuteKept ==
    ASSUME NEW u \in Session, HandlerTypes, [GatewayNext]_gatewayVars, mute[u]
    PROVE  mute'[u]
<1> USE DEF HandlerTypes
<1>1. ASSUME NEW s \in Session,
             AwaitPeerCloses(s) \/ AwaitFails(s) \/ Breaks(s)
      PROVE  mute'[u]
  BY <1>1 DEF AwaitPeerCloses, AwaitFails, Breaks
<1>2. ASSUME NEW s \in Session,
             \/ Upgrade(s) \/ AwaitRefuses(s) \/ AwaitAuthorize(s)
             \/ AwaitTimesOut(s) \/ ValidateGrants(s) \/ ValidateRefuses(s)
             \/ StartReturns(s) \/ StartErrs(s) \/ TellError(s)
             \/ TellClose(s) \/ RefuseRequest(s) \/ HangUp(s)
             \/ StartSteps(s) \/ SessionHangsUp(s) \/ SessionSteps(s)
      PROVE  mute' = mute
  BY <1>2 DEF Upgrade, AwaitRefuses, AwaitAuthorize, AwaitTimesOut,
     ValidateGrants, ValidateRefuses, StartReturns, StartErrs, TellError,
     TellClose, RefuseRequest, HangUp, StartSteps, SessionHangsUp,
     SessionSteps, handlerVars
<1>3. CASE ServerSteps \/ UNCHANGED gatewayVars
  BY <1>3 DEF ServerSteps, gatewayVars, handlerVars
<1> QED
  BY <1>1, <1>2, <1>3 DEF GatewayNext, HandlerNext

\* A handler's step is of no concern to the browser of another connection.
LEMMA Others ==
    ASSUME NEW u \in Session, NEW s \in Session, s # u, TypeOK, HandlerTypes,
           \/ Upgrade(s) \/ AwaitPeerCloses(s) \/ AwaitFails(s)
           \/ AwaitRefuses(s) \/ AwaitAuthorize(s) \/ AwaitTimesOut(s)
           \/ ValidateGrants(s) \/ ValidateRefuses(s) \/ StartReturns(s)
           \/ StartErrs(s) \/ TellError(s) \/ TellClose(s) \/ Breaks(s)
           \/ RefuseRequest(s) \/ HangUp(s) \/ SessionHangsUp(s)
    PROVE  /\ handshake'[u] = handshake[u] /\ heard'[u] = heard[u]
           /\ refusal'[u] = refusal[u] /\ told'[u] = told[u]
           /\ browser'[u] = browser[u]
<1> USE DEF HandlerTypes, TypeOK, GoOn, RefuseWith
<1>1. \A m : Tell(s, m) => told'[u] = told[u]
  BY DEF Tell
<1>2. CASE \/ TellError(s) \/ TellClose(s) \/ HangUp(s) \/ SessionHangsUp(s)
  <2>1. told'[u] = told[u]
    BY <1>1, <1>2 DEF TellError, TellClose, HangUp, SessionHangsUp
  <2> QED
    BY <1>2, <2>1 DEF TellError, TellClose, HangUp, SessionHangsUp, vars,
       CloseBrowser, Refuse
<1>3. CASE \/ Upgrade(s) \/ AwaitPeerCloses(s) \/ AwaitAuthorize(s)
           \/ ValidateGrants(s) \/ StartReturns(s) \/ Breaks(s)
  BY <1>3 DEF Upgrade, AwaitPeerCloses, AwaitAuthorize, ValidateGrants,
     StartReturns, Breaks, vars
<1>4. CASE RefuseRequest(s)
  BY <1>4 DEF RefuseRequest, Refuse
<1>5. CASE \/ AwaitFails(s) \/ AwaitRefuses(s) \/ AwaitTimesOut(s)
           \/ ValidateRefuses(s) \/ StartErrs(s)
  <2>1. PICK f : RefuseWith(s, f)
    BY <1>5 DEF AwaitFails, AwaitRefuses, AwaitTimesOut, ValidateRefuses,
       StartErrs
  <2>2. handshake'[u] = handshake[u] /\ refusal'[u] = refusal[u]
    BY <2>1, Refuses
  <2>3. heard'[u] = heard[u] /\ UNCHANGED <<told, browser>>
    BY <1>5 DEF AwaitFails, AwaitRefuses, AwaitTimesOut, ValidateRefuses,
       StartErrs, vars
  <2> QED
    BY <2>2, <2>3
<1> QED
  BY <1>2, <1>3, <1>4, <1>5

\* Every step of a browser that goes on to listen explains what it did before.
LEMMA ExplainsStep ==
    ASSUME NEW u \in Session, IInv, HandlerTypes, Path(u),
           Listening(u) => Explains(u),
           [GatewayNext]_gatewayVars, Listening(u)'
    PROVE  Explains(u)'
<1>1. TypeOK /\ [Next]_vars
  BY StepRefines DEF IInv
<1>2. once[u] = "free" /\ ~mute[u] /\ Explains(u)
  BY <1>1, FreeKept, MuteKept DEF Listening
<1>3. CASE Upgrade(u) \/ AwaitAuthorize(u) \/ ValidateGrants(u)
  <2>1. /\ handshake'[u] \in {"await", "validate", "start"}
        /\ UNCHANGED <<told, browser>> /\ Untold(u)
    BY <1>3 DEF Upgrade, AwaitAuthorize, ValidateGrants, GoOn, vars, Untold,
       HandlerTypes
  <2> QED
    BY <1>2, <2>1 DEF Explains, Untold
<1>4. CASE StartReturns(u) \/ RefuseRequest(u) \/ AwaitPeerCloses(u)
  <2>1. /\ handshake'[u] \in {"hangup", "done"}
        /\ refusal'[u] \in {NoRefusal, PeerClosed}
    BY <1>4 DEF StartReturns, RefuseRequest, AwaitPeerCloses, GoOn,
       HandlerTypes, Path
  <2> QED
    BY <2>1 DEF Explains, Untold
<1>5. CASE \/ AwaitFails(u) \/ AwaitRefuses(u) \/ AwaitTimesOut(u)
           \/ ValidateRefuses(u) \/ StartErrs(u)
  <2>1. PICK f : RefuseWith(u, f)
    BY <1>5 DEF AwaitFails, AwaitRefuses, AwaitTimesOut, ValidateRefuses,
       StartErrs
  <2>2. Untold(u) /\ UNCHANGED <<told, browser>>
    BY <1>5 DEF AwaitFails, AwaitRefuses, AwaitTimesOut, ValidateRefuses,
       StartErrs, vars, Untold
  <2>3. \/ handshake'[u] = "close" /\ ErrorOf(u)' = <<>>
        \/ /\ handshake'[u] = "error"
           /\ ErrorOf(u)' = << <<"error", refusal'[u][1]>> >>
    BY <2>1, RefuseExplains
  <2> QED
    BY <1>2, <2>2, <2>3 DEF Explains, Untold
<1>6. CASE TellError(u)
  <2> DEFINE m == <<"error", refusal[u][1]>>
  <2>1. m \in Message /\ Tell(u, m)
    BY <1>6, Messages DEF TellError, HandlerTypes, Path
  <2>2. ErrorOf(u) = <<m>>
    BY <1>2, <1>6 DEF Explains, TellError
  <2>3. UNCHANGED <<refusal, heard, browser>> /\ handshake'[u] = "close"
    BY <1>6 DEF TellError, GoOn, vars, HandlerTypes
  <2>4. ErrorOf(u)' = ErrorOf(u)
    BY <2>3, Zenon DEF ErrorOf
  <2> HIDE DEF m
  <2>5. browser[u] = "open" /\ told[u] = <<>>
    BY <1>2, <1>6 DEF Explains, Untold, TellError
  <2>6. told'[u] = <<m>>
    BY <1>2, <2>1, <2>5 DEF Tell, HandlerTypes
  <2> QED
    BY <2>2, <2>3, <2>4, <2>5, <2>6 DEF Explains, Untold
<1>7. CASE TellClose(u)
  <2> DEFINE m == <<"close", refusal[u][2]>>
  <2>1. m \in Message /\ Tell(u, m)
    BY <1>7, Messages DEF TellClose, HandlerTypes, Path
  <2>2. browser[u] = "open" /\ told[u] = ErrorOf(u)
    BY <1>2, <1>7 DEF Explains, TellClose
  <2>3. UNCHANGED <<refusal, heard, browser>> /\ handshake'[u] = "hangup"
    BY <1>7 DEF TellClose, GoOn, vars, HandlerTypes
  <2>4. ErrorOf(u)' = ErrorOf(u)
    BY <2>3, Zenon DEF ErrorOf
  <2> HIDE DEF m
  <2>5. told'[u] = Append(told[u], m)
    BY <1>2, <2>1, <2>2 DEF Tell, HandlerTypes
  <2>6. told'[u] = ErrorOf(u) \o <<m>>
    BY <2>1, <2>2, <2>5, Concatenations DEF HandlerTypes
  <2> QED
    BY <2>2, <2>3, <2>4, <2>6 DEF Explains, Untold, m
<1>8. CASE HangUp(u)
  <2> DEFINE m == <<"frame", refusal[u][2]>>
             before == ErrorOf(u) \o << <<"close", refusal[u][2]>> >>
  <2>1. m \in Message
    BY <1>8, Messages DEF HangUp, HandlerTypes, Path
  <2>2. UNCHANGED <<refusal, heard>> /\ handshake'[u] = "done"
    BY <1>8 DEF HangUp, GoOn, HandlerTypes
  <2>3. ErrorOf(u)' = ErrorOf(u) /\ FrameOf(u)' = FrameOf(u)
    BY <2>2, Zenon DEF ErrorOf, FrameOf
  <2>4. FrameOf(u) = IF Fits(u) THEN <<m>> ELSE <<>>
    BY Zenon DEF FrameOf, Fits
  <2>5. IF Fits(u) THEN Tell(u, m) ELSE UNCHANGED told
    BY <1>8 DEF HangUp
  <2>6. handshake[u] = "hangup"
    BY <1>8 DEF HangUp
  <2> SUFFICES ASSUME refusal'[u] \notin {NoRefusal, PeerClosed}
               PROVE  told'[u] = before \o FrameOf(u)
    BY <2>2, <2>3 DEF Explains, Untold
  <2>7. browser[u] = "open" /\ told[u] = before
    BY <1>2, <2>2, <2>6 DEF Explains
  <2> HIDE DEF m, before
  <2>8. CASE Fits(u)
    <3>1. told'[u] = Append(told[u], m)
      BY <1>2, <2>1, <2>5, <2>7, <2>8 DEF Tell, HandlerTypes
    <3> QED
      BY <2>1, <2>4, <2>7, <2>8, <3>1, Concatenations DEF HandlerTypes
  <2>9. CASE ~Fits(u)
    BY <2>1, <2>4, <2>5, <2>7, <2>9, Concatenations DEF HandlerTypes
  <2> QED
    BY <2>8, <2>9
<1>9. CASE Breaks(u) \/ SessionHangsUp(u)
  BY <1>2, <1>9 DEF Breaks, SessionHangsUp, CloseBrowser, Listening,
     HandlerTypes
<1>10. ASSUME NEW s \in Session, StartSteps(s) \/ SessionSteps(s)
       PROVE  Explains(u)'
  <2>1. UNCHANGED <<handshake, refusal, heard, told>>
    BY <1>10 DEF StartSteps, SessionSteps, handlerVars
  <2>2. UNCHANGED browser
    BY <1>10 DEF StartSteps, SessionSteps, StartNext, StartAtCapacity,
       StartBelowCapacity, OpenConsole, OpenFails, KeepaliveFails, Register,
       RegisterAtCapacity, AuditStart, EnqueueInitial, EnqueueOnClosed,
       AbortStart, LoopEnds, CloseBody, CloseConsole, CloseDelete,
       CloseState, CloseAudit
  <2> QED
    BY <1>2, <2>1, <2>2, ExplainsKept
<1>11. CASE ServerSteps \/ UNCHANGED gatewayVars
  <2>1. UNCHANGED <<handshake, refusal, heard, told, browser>>
    BY <1>11 DEF ServerSteps, gatewayVars, handlerVars, vars, ListenFails,
       CloseAllSnapshot, CloseAllNextStep, CloseAllCloses, CloseAllJoins,
       CloseAllNext, CloseAllReturns, Exit, Exited
  <2> QED
    BY <1>2, <2>1, ExplainsKept
<1>12. ASSUME NEW s \in Session,
              \/ Upgrade(s) \/ AwaitPeerCloses(s) \/ AwaitFails(s)
              \/ AwaitRefuses(s) \/ AwaitAuthorize(s) \/ AwaitTimesOut(s)
              \/ ValidateGrants(s) \/ ValidateRefuses(s) \/ StartReturns(s)
              \/ StartErrs(s) \/ TellError(s) \/ TellClose(s) \/ Breaks(s)
              \/ RefuseRequest(s) \/ HangUp(s) \/ SessionHangsUp(s)
       PROVE  Explains(u)'
  <2>1. CASE s = u
    BY <1>3, <1>4, <1>5, <1>6, <1>7, <1>8, <1>9, <1>12, <2>1
  <2>2. CASE s # u
    BY <1>1, <1>2, <1>12, <2>2, Others, ExplainsKept
  <2> QED
    BY <2>1, <2>2
<1> QED
  BY <1>10, <1>11, <1>12 DEF GatewayNext, HandlerNext

-----------------------------------------------------------------------------
(* The one story a browser is told *)

\* All that the handler has set out to tell by now, and its beginnings.
Said(s) ==
    IF Untold(s) THEN <<>>
    ELSE IF handshake[s] = "close" THEN ErrorOf(s)
    ELSE ErrorOf(s) \o CloseOf(s)

SoFar(s) ==
    { t \in Begun(s) :
        \/ t = <<>>
        \/ ~Untold(s) /\ t = ErrorOf(s)
        \/ handshake[s] \in {"hangup", "done"} }

\* A close frame has ended the story.
Ended(s) ==
    \/ /\ handshake[s] = "done" /\ refusal[s] # NoRefusal
       /\ told[s] = (ErrorOf(s) \o CloseOf(s)) \o FrameOf(s)
    \/ /\ once[s] # "free"
       /\ \E t \in SoFar(s) : told[s] = Append(t, <<"frame", endReason[s]>>)

Story(s) ==
    /\ handshake[s] \in {"error", "close"} =>
          refusal[s] \notin {NoRefusal, PeerClosed}
    /\ handshake[s] = "error" => ErrorOf(s) = << <<"error", refusal[s][1]>> >>
    /\ handshake[s] = "done" /\ refusal[s] # NoRefusal => browser[s] = "closed"
    /\ \/ /\ told[s] \in SoFar(s)
          /\ browser[s] = "open" /\ ~mute[s] => told[s] = Said(s)
       \/ browser[s] = "closed" /\ Ended(s)

\* A connection that is closed, and a close that has begun, stay what they are.
LEMMA ClosedKept ==
    ASSUME NEW u \in Session, IInv, [Next]_vars
    PROVE  /\ browser[u] = "closed" => browser'[u] = "closed"
           /\ browser'[u] = "open" => browser[u] = "open"
           /\ once[u] # "free" => once'[u] # "free" /\ endReason'[u] = endReason[u]
<1>1. TypeOK /\ TypeOK' /\ Life(u)
  BY InvStep DEF IInv
<1>2. browser[u] \in {"open", "closed"} /\ browser'[u] \in {"open", "closed"}
  BY <1>1 DEF TypeOK
<1>3. browser'[u] = "open" => browser[u] = "open"
  BY <1>1, BrowserKept
<1>4. once[u] # "free" => once'[u] # "free"
  BY <1>1, FreeKept
<1>5. once[u] # "free" => endReason'[u] = endReason[u]
  BY <1>1, ReasonKept DEF Life
<1> QED
  BY <1>2, <1>3, <1>4, <1>5

\* Nothing of the story changes.
LEMMA StoryKept ==
    ASSUME NEW u \in Session, IInv, HandlerTypes, [GatewayNext]_gatewayVars,
           Story(u),
           handshake'[u] = handshake[u], refusal'[u] = refusal[u],
           heard'[u] = heard[u], told'[u] = told[u]
    PROVE  Story(u)'
<1>1. /\ browser[u] = "closed" => browser'[u] = "closed"
      /\ browser'[u] = "open" => browser[u] = "open"
      /\ once[u] # "free" => once'[u] # "free" /\ endReason'[u] = endReason[u]
  BY StepRefines, ClosedKept
<1>2. mute[u] => mute'[u]
  BY MuteKept
<1>3. /\ ErrorOf(u)' = ErrorOf(u) /\ CloseOf(u)' = CloseOf(u)
      /\ FrameOf(u)' = FrameOf(u) /\ Untold(u)' = Untold(u)
  BY Zenon DEF ErrorOf, CloseOf, FrameOf, Untold
<1>4. SoFar(u)' = SoFar(u) /\ Said(u)' = Said(u)
  BY <1>3, Zenon DEF SoFar, Said, Begun
<1>5. Ended(u) => Ended(u)'
  BY <1>1, <1>3, <1>4, Zenon DEF Ended
<1> QED
  BY <1>1, <1>2, <1>3, <1>4, <1>5 DEF Story

\* The handler has not told anything and sets out to tell, or never will.
LEMMA StoryBegins ==
    ASSUME NEW u \in Session, Story(u), Untold(u),
           handshake'[u] \in {"error", "close"} =>
              refusal'[u] \notin {NoRefusal, PeerClosed},
           handshake'[u] = "error" =>
              ErrorOf(u)' = << <<"error", refusal'[u][1]>> >>,
           handshake'[u] = "close" => ErrorOf(u)' = <<>>,
           handshake'[u] \in {"hangup", "done"} =>
              ErrorOf(u)' \o CloseOf(u)' = <<>>,
           handshake'[u] = "done" => refusal'[u] = NoRefusal,
           handshake'[u] \in {"request", "await", "validate", "start",
                              "error", "close", "hangup", "done"},
           told'[u] = told[u],
           browser[u] = "closed" => browser'[u] = "closed",
           browser'[u] = "open" => browser[u] = "open",
           once[u] # "free" =>
              once'[u] # "free" /\ endReason'[u] = endReason[u]
    PROVE  Story(u)'
<1>1. SoFar(u) = {<<>>}
  BY DEF SoFar, Begun, Untold
<1>2. <<>> \in SoFar(u)'
  BY Zenon DEF SoFar, Begun
<1>3. Said(u)' = <<>>
  BY DEF Said, Untold
<1>4. ~(handshake[u] = "done")
  BY DEF Untold
<1>5. CASE told[u] = <<>>
  BY <1>2, <1>3, <1>5 DEF Story
<1>6. CASE browser[u] = "closed" /\ Ended(u)
  <2>1. once[u] # "free" /\ told[u] = Append(<<>>, <<"frame", endReason[u]>>)
    BY <1>1, <1>4, <1>6 DEF Ended
  <2>2. Ended(u)'
    BY <1>2, <2>1, Zenon DEF Ended
  <2> QED
    BY <1>6, <2>2 DEF Story
<1> QED
  BY <1>1, <1>5, <1>6 DEF Story

\* RefuseWith begins the story of a refusal that is not a browser's leaving.
LEMMA StoryRefused ==
    ASSUME NEW u \in Session, IInv, HandlerTypes, Story(u), Untold(u),
           NEW f, RefuseWith(u, f), f \notin {NoRefusal, PeerClosed},
           UNCHANGED <<vars, told>>
    PROVE  Story(u)'
<1>1. /\ refusal'[u] = f
      /\ \/ handshake'[u] = "close" /\ ErrorOf(u)' = <<>>
         \/ /\ handshake'[u] = "error"
            /\ ErrorOf(u)' = << <<"error", refusal'[u][1]>> >>
  BY RefuseExplains
<1>2. UNCHANGED <<browser, once, endReason>>
  BY DEF vars, closeVars
<1> QED
  BY <1>1, <1>2, StoryBegins

\* The refusals of the handler are none of them a browser's leaving.
LEMMA NoneLeaves ==
    ASSUME NEW s \in Session,
           \/ AwaitFails(s) \/ AwaitRefuses(s) \/ AwaitTimesOut(s)
           \/ ValidateRefuses(s) \/ StartErrs(s)
    PROVE  \E f : RefuseWith(s, f) /\ f \notin {NoRefusal, PeerClosed}
<1>1. \A f \in Code \X CloseReason :
         f[2] # "browser_disconnect" => f \notin {NoRefusal, PeerClosed}
  BY RefusalIsOne, ConstantRefusals
<1>2. CASE AwaitFails(s) \/ AwaitTimesOut(s) \/ StartErrs(s)
  <2>1. PICK f \in {AuthorizeTimeout, ReadFailed, LimitReached, BridgeFailed} :
           RefuseWith(s, f)
    BY <1>2 DEF AwaitFails, AwaitTimesOut, StartErrs
  <2>2. f \in Code \X CloseReason /\ f[2] # "browser_disconnect"
    BY ConstantRefusals
  <2> QED
    BY <1>1, <2>1, <2>2
<1>3. CASE AwaitRefuses(s)
  <2>1. PICK m \in FirstFrame : RefuseWith(s, MessageRefusal(m))
    BY <1>3 DEF AwaitRefuses
  <2>2. /\ MessageRefusal(m) \in Code \X CloseReason
        /\ MessageRefusal(m)[2] # "browser_disconnect"
    BY MessageRefused, FirstFrameAssumption
  <2> QED
    BY <1>1, <2>1, <2>2
<1>4. CASE ValidateRefuses(s)
  <2>1. PICK r \in Answer :
           /\ ValidateToken(r) # Validated
           /\ RefuseWith(s, GrantRefusal(ValidateToken(r)))
    BY <1>4 DEF ValidateRefuses
  <2>2. /\ GrantRefusal(ValidateToken(r)) \in Code \X CloseReason
        /\ GrantRefusal(ValidateToken(r))[2] # "browser_disconnect"
    BY <2>1, AnswerRefused, AnswerAssumption
  <2> QED
    BY <1>1, <2>1, <2>2
<1> QED
  BY <1>2, <1>3, <1>4

\* The connection is hung up with a close frame m, if it takes one.
LEMMA StoryEnds ==
    ASSUME NEW u \in Session, HandlerTypes, Story(u), browser'[u] = "closed",
           NEW m \in Message, Tell(u, m),
           handshake'[u] \in {handshake[u], "done"},
           refusal'[u] = refusal[u], ErrorOf(u)' = ErrorOf(u),
           SoFar(u)' = SoFar(u),
           told'[u] = told[u] /\ Ended(u) => Ended(u)',
           told'[u] = Append(Said(u), m) => Ended(u)'
    PROVE  Story(u)'
<1>1. /\ handshake'[u] \in {"error", "close"} =>
            refusal'[u] \notin {NoRefusal, PeerClosed}
      /\ handshake'[u] = "error" =>
            ErrorOf(u)' = << <<"error", refusal'[u][1]>> >>
  BY DEF Story
<1>2. CASE browser[u] = "open" /\ ~mute[u]
  <2>1. told[u] = Said(u)
    BY <1>2 DEF Story
  <2>2. told'[u] = Append(Said(u), m)
    BY <1>2, <2>1 DEF Tell, HandlerTypes
  <2> QED
    BY <1>1, <2>2 DEF Story
<1>3. CASE ~(browser[u] = "open" /\ ~mute[u])
  <2>1. told'[u] = told[u]
    BY <1>3, Zenon DEF Tell
  <2> QED
    BY <1>1, <2>1 DEF Story
<1> QED
  BY <1>2, <1>3

\* The handler writes what it has to, and the story goes on with it.
LEMMA StoryGoesOn ==
    ASSUME NEW u \in Session, HandlerTypes, Story(u), UNCHANGED vars,
           NEW m \in Message, Tell(u, m),
           handshake'[u] \in {"close", "hangup"},
           handshake'[u] = "close" =>
              refusal'[u] \notin {NoRefusal, PeerClosed},
           UNCHANGED mute,
           handshake[u] # "done",
           SoFar(u) \subseteq SoFar(u)', Said(u)' = Append(Said(u), m),
           Said(u)' \in SoFar(u)'
    PROVE  Story(u)'
<1>1. UNCHANGED <<browser, once, endReason>>
  BY DEF vars, closeVars
<1>2. CASE browser[u] = "open" /\ ~mute[u]
  <2>1. told[u] = Said(u)
    BY <1>2 DEF Story
  <2>2. told'[u] = Said(u)'
    BY <1>2, <2>1 DEF Tell, HandlerTypes
  <2> QED
    BY <2>2 DEF Story
<1>3. CASE ~(browser[u] = "open" /\ ~mute[u])
  <2>1. told'[u] = told[u]
    BY <1>3, Zenon DEF Tell
  <2>2. Ended(u) => Ended(u)'
    BY <1>1, <2>1, Zenon DEF Ended
  <2> QED
    BY <1>1, <1>3, <2>1, <2>2 DEF Story
<1> QED
  BY <1>2, <1>3

LEMMA Messaged ==
    ASSUME NEW m \in Message
    PROVE  <<>> \in Seq(Message) /\ <<m>> \in Seq(Message)
<1> HIDE DEF Message
<1> QED
  OBVIOUS

\* Every step goes on with the story of a connection or leaves it alone.
LEMMA StoryStep ==
    ASSUME NEW u \in Session, IInv, HandlerTypes, Path(u), Story(u),
           [GatewayNext]_gatewayVars
    PROVE  Story(u)'
<1>1. /\ TypeOK
      /\ browser[u] = "closed" => browser'[u] = "closed"
      /\ browser'[u] = "open" => browser[u] = "open"
      /\ once[u] # "free" => once'[u] # "free" /\ endReason'[u] = endReason[u]
  BY StepRefines, ClosedKept DEF IInv
<1>2. handshake[u] \in {"request", "await", "validate", "start",
                        "error", "close", "hangup", "done"}
  BY DEF HandlerTypes
<1>3. Said(u) \in SoFar(u)
  <2>1. CASE Untold(u)
    BY <2>1, Zenon DEF Said, SoFar, Begun
  <2>2. CASE handshake[u] = "close"
    BY <2>2, Zenon DEF Said, SoFar, Begun, Untold
  <2>3. CASE ~Untold(u) /\ handshake[u] # "close"
    <3>1. handshake[u] \in {"hangup", "done"}
      BY <1>2, <2>3 DEF Untold
    <3> QED
      BY <2>3, <3>1, Zenon DEF Said, SoFar, Begun
  <2> QED
    BY <2>1, <2>2, <2>3
<1>4. CASE Upgrade(u) \/ AwaitAuthorize(u) \/ ValidateGrants(u)
  <2>1. /\ handshake'[u] \in {"await", "validate", "start"}
        /\ UNCHANGED told /\ Untold(u)
    BY <1>4 DEF Upgrade, AwaitAuthorize, ValidateGrants, GoOn, Untold,
       HandlerTypes
  <2> QED
    BY <1>1, <2>1, StoryBegins
<1>5. CASE StartReturns(u) \/ RefuseRequest(u) \/ AwaitPeerCloses(u)
  <2>1. /\ \/ handshake'[u] = "done" /\ refusal'[u] = NoRefusal
           \/ handshake'[u] = "hangup" /\ refusal'[u] = PeerClosed
        /\ UNCHANGED told /\ Untold(u)
    BY <1>5 DEF StartReturns, RefuseRequest, AwaitPeerCloses, GoOn,
       HandlerTypes, Path, Untold
  <2>2. NoRefusal[1] = "" /\ PeerClosed[1] = ""
    BY DEF NoRefusal, PeerClosed
  <2>3. ErrorOf(u)' = <<>> /\ CloseOf(u)' = <<>>
    BY <2>1, <2>2, Zenon DEF ErrorOf, CloseOf
  <2>4. <<>> \o <<>> = <<>>
    OBVIOUS
  <2> QED
    BY <1>1, <2>1, <2>3, <2>4, StoryBegins
<1>6. CASE \/ AwaitFails(u) \/ AwaitRefuses(u) \/ AwaitTimesOut(u)
           \/ ValidateRefuses(u) \/ StartErrs(u)
  <2>1. PICK f : RefuseWith(u, f) /\ f \notin {NoRefusal, PeerClosed}
    BY <1>6, NoneLeaves
  <2>2. Untold(u) /\ UNCHANGED <<vars, told>>
    BY <1>6 DEF AwaitFails, AwaitRefuses, AwaitTimesOut, ValidateRefuses,
       StartErrs, Untold
  <2> QED
    BY <2>1, <2>2, StoryRefused
<1>7. CASE TellError(u)
  <2> DEFINE m == <<"error", refusal[u][1]>>
  <2>1. m \in Message /\ Tell(u, m)
    BY <1>7, Messages DEF TellError, HandlerTypes, Path
  <2>2. /\ handshake[u] = "error" /\ handshake'[u] = "close"
        /\ UNCHANGED <<vars, heard, refusal, mute>>
    BY <1>7 DEF TellError, GoOn, HandlerTypes
  <2>3. ErrorOf(u)' = ErrorOf(u) /\ ErrorOf(u) = <<m>>
    BY <2>2 DEF ErrorOf, Story
  <2>4. Said(u) = <<>> /\ Said(u)' = ErrorOf(u) /\ SoFar(u) = {<<>>}
    BY <2>2, <2>3, Zenon DEF Said, SoFar, Begun, Untold
  <2>5. <<>> \in SoFar(u)' /\ ErrorOf(u) \in SoFar(u)'
    BY <2>2, <2>3, Zenon DEF SoFar, Begun, Untold
  <2> HIDE DEF m
  <2>6. Said(u)' = Append(Said(u), m)
    BY <2>1, <2>3, <2>4, Concatenations
  <2>7. refusal'[u] \notin {NoRefusal, PeerClosed}
    BY <2>2 DEF Story
  <2> QED
    BY <2>1, <2>2, <2>4, <2>5, <2>6, <2>7, StoryGoesOn
<1>8. CASE TellClose(u)
  <2> DEFINE m == <<"close", refusal[u][2]>>
  <2>1. m \in Message /\ Tell(u, m)
    BY <1>8, Messages DEF TellClose, HandlerTypes, Path
  <2>2. /\ handshake[u] = "close" /\ handshake'[u] = "hangup"
        /\ UNCHANGED <<vars, heard, refusal, mute>>
    BY <1>8 DEF TellClose, GoOn, HandlerTypes
  <2>3. ErrorOf(u)' = ErrorOf(u) /\ CloseOf(u)' = CloseOf(u)
    BY <2>2, Zenon DEF ErrorOf, CloseOf
  <2>4. CloseOf(u) = <<m>>
    BY <2>2 DEF CloseOf, Story
  <2>5. Said(u) = ErrorOf(u) /\ Said(u)' = ErrorOf(u) \o CloseOf(u)
    BY <2>2, <2>3, Zenon DEF Said, Untold
  <2>6. Begun(u)' = Begun(u)
    BY <2>3, Zenon DEF Begun
  <2>7. SoFar(u)' = Begun(u) /\ SoFar(u) \subseteq Begun(u)
    BY <2>2, <2>6, Zenon DEF SoFar
  <2>8. ErrorOf(u) \o CloseOf(u) \in Begun(u)
    BY Zenon DEF Begun
  <2>9. ErrorOf(u) \in Seq(Message)
    <3>1. <<"error", refusal[u][1]>> \in Message
      BY <2>2, Messages DEF HandlerTypes, Path
    <3> QED
      BY <3>1, Messaged DEF ErrorOf
  <2> HIDE DEF m
  <2>10. Said(u)' = Append(Said(u), m)
    BY <2>1, <2>4, <2>5, <2>9, Concatenations
  <2> QED
    BY <2>1, <2>2, <2>5, <2>7, <2>8, <2>10, StoryGoesOn
<1>9. CASE HangUp(u)
  <2> DEFINE m == <<"frame", refusal[u][2]>>
             all == ErrorOf(u) \o CloseOf(u)
  <2>1. m \in Message
    BY <1>9, Messages DEF HangUp, HandlerTypes, Path
  <2>2. /\ handshake[u] = "hangup" /\ handshake'[u] = "done"
        /\ UNCHANGED <<heard, refusal, mute, once, endReason>>
        /\ browser'[u] = "closed" /\ refusal[u] # NoRefusal
    BY <1>1, <1>9 DEF HangUp, GoOn, HandlerTypes, Refuse, closeVars, Path,
       TypeOK
  <2>3. /\ ErrorOf(u)' = ErrorOf(u) /\ CloseOf(u)' = CloseOf(u)
        /\ FrameOf(u)' = FrameOf(u) /\ Begun(u)' = Begun(u)
    BY <2>2, Zenon DEF ErrorOf, CloseOf, FrameOf, Begun
  <2>4. SoFar(u) = Begun(u) /\ SoFar(u)' = Begun(u) /\ Said(u) = all
    BY <2>2, <2>3, Zenon DEF SoFar, Said, Untold
  <2>5. IF Fits(u) THEN Tell(u, m) ELSE UNCHANGED told
    BY <1>9 DEF HangUp
  <2>6. told'[u] = told[u] /\ Ended(u) => Ended(u)'
    BY <2>2, <2>3, <2>4, Zenon DEF Ended
  <2>7. CASE Fits(u)
    <3>1. FrameOf(u) = <<m>>
      BY <2>7, Zenon DEF FrameOf, Fits
    <3>2. all \in Seq(Message)
      <4>1. /\ <<"error", refusal[u][1]>> \in Message
            /\ <<"close", refusal[u][2]>> \in Message
        BY <2>2, Messages DEF HandlerTypes
      <4>2. ErrorOf(u) \in Seq(Message) /\ CloseOf(u) \in Seq(Message)
        BY <4>1, Messaged DEF ErrorOf, CloseOf
      <4> QED
        BY <4>2
    <3> HIDE DEF m, all
    <3>3. Append(all, m) = all \o <<m>>
      BY <2>1, <3>2, Concatenations
    <3> USE DEF all
    <3>4. told'[u] = Append(Said(u), m) => Ended(u)'
      BY <2>2, <2>3, <2>4, <3>1, <3>3, Zenon DEF Ended
    <3> QED
      BY <2>1, <2>2, <2>3, <2>4, <2>5, <2>6, <2>7, <3>4, StoryEnds
  <2>8. CASE ~Fits(u)
    BY <2>2, <2>3, <2>4, <2>5, <2>6, <2>8 DEF Story
  <2> QED
    BY <2>7, <2>8
<1>10. CASE SessionHangsUp(u)
  <2> DEFINE m == <<"frame", endReason[u]>>
  <2>1. m \in Message /\ Tell(u, m)
    BY <1>10, EndHasReason DEF SessionHangsUp, CloseBrowser, IInv
  <2>2. /\ UNCHANGED <<handshake, heard, refusal, endReason>>
        /\ browser'[u] = "closed" /\ once[u] # "free" /\ once'[u] # "free"
    BY <1>1, <1>10 DEF SessionHangsUp, CloseBrowser, TypeOK
  <2>3. /\ ErrorOf(u)' = ErrorOf(u) /\ CloseOf(u)' = CloseOf(u)
        /\ FrameOf(u)' = FrameOf(u) /\ Begun(u)' = Begun(u)
        /\ Untold(u)' = Untold(u)
    BY <2>2, Zenon DEF ErrorOf, CloseOf, FrameOf, Begun, Untold
  <2>4. SoFar(u)' = SoFar(u)
    BY <2>2, <2>3, Zenon DEF SoFar
  <2>5. told'[u] = told[u] /\ Ended(u) => Ended(u)'
    BY <2>2, <2>3, <2>4, Zenon DEF Ended
  <2>6. told'[u] = Append(Said(u), m) => Ended(u)'
    BY <1>3, <2>2, <2>4, Zenon DEF Ended
  <2> HIDE DEF m
  <2> QED
    BY <2>1, <2>2, <2>3, <2>4, <2>5, <2>6, StoryEnds
<1>11. CASE \/ Breaks(u) \/ \E s \in Session : StartSteps(s) \/ SessionSteps(s)
            \/ ServerSteps \/ UNCHANGED gatewayVars
  <2>1. UNCHANGED <<handshake, refusal, heard, told>>
    BY <1>11 DEF Breaks, StartSteps, SessionSteps, ServerSteps, gatewayVars,
       handlerVars
  <2> QED
    BY <2>1, StoryKept
<1>12. ASSUME NEW s \in Session,
              \/ Upgrade(s) \/ AwaitPeerCloses(s) \/ AwaitFails(s)
              \/ AwaitRefuses(s) \/ AwaitAuthorize(s) \/ AwaitTimesOut(s)
              \/ ValidateGrants(s) \/ ValidateRefuses(s) \/ StartReturns(s)
              \/ StartErrs(s) \/ TellError(s) \/ TellClose(s) \/ Breaks(s)
              \/ RefuseRequest(s) \/ HangUp(s) \/ SessionHangsUp(s)
       PROVE  Story(u)'
  <2>1. CASE s = u
    BY <1>4, <1>5, <1>6, <1>7, <1>8, <1>9, <1>10, <1>11, <1>12, <2>1
  <2>2. CASE s # u
    BY <1>1, <1>12, <2>2, Others, StoryKept
  <2> QED
    BY <2>1, <2>2
<1> QED
  BY <1>11, <1>12 DEF GatewayNext, HandlerNext

\* The connections' stories hold together, and so no browser is ever told
\* anything but the beginning of the one refusal it gets, or that and the close
\* frame of the session that CloseAll ends meanwhile.
LEMMA Stories == GatewaySafeSpec => [](\A s \in Session : Story(s))
<1> DEFINE Told == \A s \in Session : Story(s)
<1>1. GatewayInit => Told
  <2> SUFFICES ASSUME GatewayInit, NEW s \in Session PROVE Story(s)
    OBVIOUS
  <2>1. handshake[s] = "request" /\ told[s] = <<>>
    BY Zenon DEF GatewayInit
  <2>2. Untold(s)
    BY <2>1 DEF Untold
  <2>3. <<>> \in SoFar(s) /\ Said(s) = <<>>
    BY <2>2, Zenon DEF SoFar, Begun, Said
  <2> QED
    BY <2>1, <2>3 DEF Story
<1>2. GatewayInv /\ Told /\ [GatewayNext]_gatewayVars => Told'
  BY StoryStep DEF GatewayInv
<1> QED
  BY <1>1, <1>2, GatewayInvariance, PTL DEF GatewaySafeSpec

\* A browser is told one story, that of its refusal, from the beginning and to
\* wherever the connection ends it, although CloseAll may be closing the session
\* that the handler refuses.
THEOREM TellsOneStory == GatewaySafeSpec => []OneStory
<1>1. (\A s \in Session : Story(s)) => OneStory
  BY Zenon DEF OneStory, Story, Ended, SoFar
<1> QED
  BY <1>1, Stories, PTL

\* A browser that is refused, has not left and still takes messages learns why,
\* and its connection is closed in any case.
THEOREM RefusalsExplained == GatewaySafeSpec => []RefusalExplained
<1> DEFINE Explained == \A s \in Session : Listening(s) => Explains(s)
<1>1. GatewayInit => Explained
  <2> SUFFICES ASSUME GatewayInit, NEW s \in Session PROVE Explains(s)
    OBVIOUS
  <2>1. handshake[s] = "request" /\ browser[s] = "open" /\ told[s] = <<>>
    BY Zenon DEF GatewayInit, Init
  <2> QED
    BY <2>1 DEF Explains
<1>2. GatewayInv /\ Explained /\ [GatewayNext]_gatewayVars => Explained'
  BY ExplainsStep DEF GatewayInv
<1>3. Explained /\ (\A s \in Session : Story(s)) => RefusalExplained
  BY Zenon DEF RefusalExplained, Listening, Explains, Story, CloseOf
<1> QED
  BY <1>1, <1>2, <1>3, GatewayInvariance, Stories, PTL DEF GatewaySafeSpec

=============================================================================
