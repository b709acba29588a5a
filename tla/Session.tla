------------------------------- MODULE Session -------------------------------
(***************************************************************************)
(* One browser session, goroutine by goroutine (internal/session/          *)
(* manager.go): the end of Registry.Start, the run, reader, output, writer *)
(* and keepalive goroutines it starts, and a CloseAll that may close the   *)
(* session at any time after its registration.                             *)
(*                                                                         *)
(* The goroutines share the outbound queue, the results channel, the       *)
(* closed channel and the Once of close, and use the websocket connection  *)
(* and the ssh session through the interfaces websocket.Connection and     *)
(* sshbridge.Session.  A call of WriteMessage, WritePing or Close holds    *)
(* the connection's write mutex from beginning to end, so each is one      *)
(* step.  A queued message is a number: 0 is the initial "authorized",     *)
(* n > 0 the nth chunk of console output.                                  *)
(***************************************************************************)
EXTENDS Integers, Sequences, FiniteSets, EndReasons, Protocol

CONSTANTS QueueDepth,  \* RegistryConfig.OutboundQueueDepth
          OutputLimit, \* bound: how many chunks the console produces
          ReadError,   \* the errors of ReadMessage told apart in an instance
          ClientFrame, \* the messages the browser sends in an instance
          ConsoleEnd   \* how console.Read ends: at the end of file, in an error

\* NewRegistry replaces a depth that is not positive by its default.
ASSUME QueueDepthAssumption == QueueDepth \in Nat \ {0}
ASSUME OutputLimitAssumption == OutputLimit \in Nat
ASSUME ReadErrorAssumption ==
    /\ {"timeout", "other"} \subseteq ReadError
    /\ ReadError \subseteq {"timeout", "peer_closed", "too_large", "other"}
ASSUME ConsoleEndAssumption ==
    /\ "console_closed" \in ConsoleEnd
    /\ ConsoleEnd \subseteq {"console_closed", "ssh_error"}
ASSUME ClientFrameAssumption == ClientFrame \subseteq Frame

\* The end reason of what has not ended.
NoReason == ""

\* The goroutines, by the function they run.
Goroutine ==
    {"start", "run", "reader", "output", "writer", "keepalive", "closeall"}

VARIABLES
    pc,         \* where each goroutine is
    registered, \* is the session in Registry.sessions?
    state,      \* Session.state
    endReason,  \* Session.endReason
    once,       \* how far the one execution of close's body has come
    outbound,   \* the outbound channel
    message,    \* what the writer has taken from it, as a sequence
    chunk,      \* what the output loop has read from the console, likewise
    produced,   \* how many chunks the console has produced
    outcome,    \* the loopResult a producer is about to send, by its reason
    results,    \* how many loopResults are buffered in the results channel
    result,     \* the first one sent to it, the only one run receives
    readError,  \* the error ReadMessage last returned to the reader
    conn,       \* the network connection to the browser: "open" or "closed"
    writeErr,   \* gorilla's sticky write error: "none", "closeSent", "failed"
    peer,       \* the browser: "there", "left" when it has closed the
                \* connection, or "gone" when nothing comes from it any more
    console,    \* the ssh session: "open" or "closed"
    sent,       \* the queued messages written to the browser
    told        \* the error and close messages and the close frame, likewise

queueVars  == <<outbound, message, chunk, produced, sent>>
resultVars == <<outcome, results, result, readError>>
connVars   == <<conn, writeErr, told>>
closeVars  == <<registered, state, endReason, once, console>>
vars == <<pc, queueVars, resultVars, connVars, closeVars, peer>>

\* The loopResult constructors differ in their reason, and a reason fixes
\* whether the browser is sent an error and a close message.
HasError == {"protocol_violation", "internal_error", "ssh_error"}
HasClose == HasError \cup {"console_closed", "client_close"}

\* The capacity run gives the results channel.
ResultsCapacity == 3

\* Where a goroutine can be.
Label ==
    {"idle", "register", "check", "push", "abort", "delete", "wait",
     "flushError", "flushClose", "join", "read", "apply", "select", "write",
     "send", "close", "done"}

TypeOK ==
    /\ pc \in [Goroutine -> Label]
    /\ registered \in BOOLEAN
    /\ state \in {"none", "active", "closing", "closed"}
    /\ endReason \in EndReason \cup {NoReason}
    /\ once \in {"free", "browser", "console", "delete", "state", "done"}
    /\ outbound \in Seq(0 .. OutputLimit)
    /\ Len(outbound) <= QueueDepth
    /\ message \in Seq(0 .. OutputLimit) /\ Len(message) <= 1
    /\ chunk \in Seq(1 .. OutputLimit) /\ Len(chunk) <= 1
    /\ produced \in 0 .. OutputLimit
    /\ outcome \in [Goroutine -> LoopEndReason \cup {NoReason}]
    /\ results \in 0 .. ResultsCapacity
    /\ result \in LoopEndReason \cup {NoReason}
    /\ readError \in ReadError \cup {"none"}
    /\ conn \in {"open", "closed"}
    /\ writeErr \in {"none", "closeSent", "failed"}
    /\ peer \in {"there", "left", "gone"}
    /\ console \in {"open", "closed"}
    /\ sent \in Seq(0 .. OutputLimit)
    /\ told \in Seq({"error", "close", "frame"} \X EndReason)

Init ==
    /\ pc = [g \in Goroutine |-> IF g = "start" THEN "register" ELSE "idle"]
    /\ registered = FALSE
    /\ state = "none"
    /\ endReason = NoReason
    /\ once = "free"
    /\ outbound = <<>>
    /\ message = <<>>
    /\ chunk = <<>>
    /\ produced = 0
    /\ outcome = [g \in Goroutine |-> NoReason]
    /\ results = 0
    /\ result = NoReason
    /\ readError = "none"
    /\ conn = "open"
    /\ writeErr = "none"
    /\ peer = "there"
    /\ console = "open"
    /\ sent = <<>>
    /\ told = <<>>

\* The closed channel is closed right after the first caller enters close.
Closed == once # "free"

Goto(g, label) == pc' = [pc EXCEPT ![g] = label]

\* Goroutine g goes to label, to act there on the loopResult of reason r.
Yield(g, label, r) ==
    /\ Goto(g, label)
    /\ outcome' = [outcome EXCEPT ![g] = r]

-----------------------------------------------------------------------------
(* Registry.Start after the console is open, with the limit not reached. *)

StartRegister ==
    /\ pc["start"] = "register"
    /\ registered' = TRUE
    /\ state' = "active"
    /\ Goto("start", "check")
    /\ UNCHANGED <<queueVars, resultVars, connVars, endReason, once, console, peer>>

\* Enqueue returned an error: Start takes back what it did.
StartAbort ==
    /\ pc["start"] = "abort"
    /\ console' = "closed"
    /\ Goto("start", "delete")
    /\ UNCHANGED <<queueVars, resultVars, connVars, registered, state,
                   endReason, once, peer>>

StartDelete ==
    /\ pc["start"] = "delete"
    /\ registered' = FALSE
    /\ Goto("start", "done")
    /\ UNCHANGED <<queueVars, resultVars, connVars, state, endReason, once,
                   console, peer>>

Loops == [pc EXCEPT !["start"] = "done", !["run"] = "wait",
                    !["writer"] = "select", !["output"] = "read",
                    !["reader"] = "read", !["keepalive"] = "select"]

-----------------------------------------------------------------------------
(* Session.Enqueue, called by Start and by the output loop. *)

\* What the caller enqueues.
Enqueued(g) == IF g = "start" THEN <<0>> ELSE chunk

EnqueueOpen(g) ==
    /\ pc[g] = "check"
    /\ ~Closed
    /\ Goto(g, "push")
    /\ UNCHANGED <<queueVars, resultVars, connVars, closeVars, peer>>

\* The session is closed: Start gives up, the output loop reports slow_client.
EnqueueClosed(g) ==
    /\ pc[g] = "check"
    /\ Closed
    /\ IF g = "start"
       THEN Goto(g, "abort") /\ UNCHANGED outcome
       ELSE Yield(g, "send", "slow_client")
    /\ chunk' = <<>>
    /\ UNCHANGED <<outbound, message, produced, sent, results, result,
                   readError, connVars, closeVars, peer>>

\* Slip: Enqueue drops the oldest message of a full queue.
EnqueueDropsOldest(g) ==
    /\ pc[g] = "push"
    /\ outbound' = IF Len(outbound) < QueueDepth THEN outbound \o Enqueued(g)
                   ELSE Tail(outbound) \o Enqueued(g)
    /\ chunk' = <<>>
    /\ IF g = "start" THEN pc' = Loops ELSE Goto(g, "read")
    /\ UNCHANGED <<message, produced, sent, resultVars, connVars, closeVars,
                   peer>>

\* Slip: the queue grows instead of being full.
EnqueueUnbounded(g) ==
    /\ pc[g] = "push"
    /\ outbound' = outbound \o Enqueued(g)
    /\ chunk' = <<>>
    /\ IF g = "start" THEN pc' = Loops ELSE Goto(g, "read")
    /\ UNCHANGED <<message, produced, sent, resultVars, connVars, closeVars,
                   peer>>

\* There is room.  Start goes on to "go session.run(ctx)"; what run starts is
\* started with it.
EnqueuePush(g) ==
    /\ pc[g] = "push"
    /\ Len(outbound) < QueueDepth
    /\ outbound' = outbound \o Enqueued(g)
    /\ chunk' = <<>>
    /\ IF g = "start" THEN pc' = Loops ELSE Goto(g, "read")
    /\ UNCHANGED <<message, produced, sent, resultVars, connVars, closeVars,
                   peer>>

\* The queue is full: the caller ends the session.
EnqueueFull(g) ==
    /\ pc[g] = "push"
    /\ Len(outbound) >= QueueDepth
    /\ Yield(g, "close", "slow_client")
    /\ chunk' = <<>>
    /\ UNCHANGED <<outbound, message, produced, sent, results, result,
                   readError, connVars, closeVars, peer>>

-----------------------------------------------------------------------------
(* Session.close: the body runs once; later callers wait until it is done. *)

\* Where a caller goes on when close returns.
AfterClose(g) ==
    CASE g = "run"    -> "join"
      [] g = "output" -> "send"
      [] g = "start"  -> "abort"
      [] OTHER        -> "done"

\* The reason a caller passes.
ReasonOf(g) ==
    CASE g = "run"      -> result
      [] g = "closeall" -> "server_shutdown"
      [] OTHER          -> outcome[g]

CloseEnter(g) ==
    /\ pc[g] = "close"
    /\ once = "free"
    /\ state' = "closing"
    /\ endReason' = ReasonOf(g)
    /\ once' = "browser"
    /\ UNCHANGED <<pc, queueVars, resultVars, connVars, registered, console,
                   peer>>

\* Slip: close only sends the close frame and leaves the connection to the peer.
CloseBrowserKeepsConn ==
    /\ once = "browser"
    /\ \/ /\ writeErr = "none" /\ conn = "open"
          /\ told' = Append(told, <<"frame", endReason>>)
          /\ writeErr' = "closeSent"
       \/ /\ writeErr # "none"
          /\ UNCHANGED <<told, writeErr>>
    /\ once' = "console"
    /\ UNCHANGED <<pc, queueVars, resultVars, conn, registered, state,
                   endReason, console, peer>>

\* browser.Close: a close frame if the connection still takes one (it does
\* not after a close frame or a failure, and the reason may be too long for
\* one), then the network connection is closed.
CloseBrowser ==
    /\ once = "browser"
    /\ \/ /\ writeErr = "none" /\ conn = "open"
          /\ told' = Append(told, <<"frame", endReason>>)
          /\ writeErr' = "closeSent"
       \/ /\ writeErr = "none" => peer # "there" \/ endReason = "client_close"
          /\ UNCHANGED <<told, writeErr>>
    /\ conn' = "closed"
    /\ once' = "console"
    /\ UNCHANGED <<pc, queueVars, resultVars, registered, state, endReason,
                   console, peer>>

CloseConsole ==
    /\ once = "console"
    /\ console' = "closed"
    /\ once' = "delete"
    /\ UNCHANGED <<pc, queueVars, resultVars, connVars, registered, state,
                   endReason, peer>>

\* Slip: the session is not taken out of the registry.
CloseDeleteForgets ==
    /\ once = "delete"
    /\ once' = "state"
    /\ UNCHANGED <<pc, queueVars, resultVars, connVars, registered, state,
                   endReason, console, peer>>

CloseDelete ==
    /\ once = "delete"
    /\ registered' = FALSE
    /\ once' = "state"
    /\ UNCHANGED <<pc, queueVars, resultVars, connVars, state, endReason,
                   console, peer>>

\* The state is set, logEnd and the audit event follow (module Registry).
CloseFinish ==
    /\ once = "state"
    /\ state' = "closed"
    /\ once' = "done"
    /\ UNCHANGED <<pc, queueVars, resultVars, connVars, registered, endReason,
                   console, peer>>

\* Close returns, to the caller that ran the body and to those that waited.
CloseReturn(g) ==
    /\ pc[g] = "close"
    /\ once = "done"
    /\ Goto(g, AfterClose(g))
    /\ UNCHANGED <<queueVars, resultVars, connVars, closeVars, peer>>

CloseCall(g) == CloseEnter(g) \/ CloseReturn(g)

CloseBody == CloseBrowser \/ CloseConsole \/ CloseDelete \/ CloseFinish

\* CloseAll has found the session in the registry.
CloseAllCalls ==
    /\ pc["closeall"] = "idle"
    /\ registered
    /\ Goto("closeall", "close")
    /\ UNCHANGED <<queueVars, resultVars, connVars, closeVars, peer>>

-----------------------------------------------------------------------------
(* Writing to the browser. *)

\* The connection takes a message: the kernel has it.
CanWrite == conn = "open" /\ writeErr = "none"

\* A write fails: for good, unless a close frame had been sent before.
WriteFails ==
    /\ writeErr' = IF writeErr = "none" THEN "failed" ELSE writeErr
    /\ UNCHANGED <<conn, told>>

-----------------------------------------------------------------------------
(* outputLoop *)

OutputReads ==
    /\ pc["output"] = "read"
    /\ console = "open"
    /\ produced < OutputLimit
    /\ produced' = produced + 1
    /\ chunk' = <<produced + 1>>
    /\ Goto("output", "check")
    /\ UNCHANGED <<outbound, message, sent, resultVars, connVars, closeVars,
                   peer>>

\* The console's output has ended, or reading it failed.
OutputEnds(r) ==
    /\ pc["output"] = "read"
    /\ Yield("output", "send", r)
    /\ UNCHANGED <<queueVars, results, result, readError, connVars, closeVars,
                   peer>>

OutputNext ==
    \/ OutputReads
    \/ \E r \in ConsoleEnd : OutputEnds(r)

-----------------------------------------------------------------------------
(* readLoop *)

\* How readLoop classifies what ReadMessage returns as an error.  A message
\* over the size limit is among the others, and so is a close frame whose code is
\* not one of those in IsPeerClosed.
ReadResult(err) ==
    CASE err = "timeout"     -> "keepalive_timeout"
      [] err = "peer_closed" -> "browser_disconnect"
      [] OTHER               -> "internal_error"

\* Gorilla may answer with a close frame: a close frame of the browser, whatever
\* its code, and an oversized message, but not a connection that breaks off.
Answers(err) ==
    IF err # "timeout" /\ CanWrite
    THEN writeErr' \in {"none", "closeSent", "failed"}
    ELSE UNCHANGED writeErr

\* ReadMessage fails: the deadline the pongs extend has passed, the browser
\* has closed the connection, a message was too large, or the connection is
\* broken or closed.  A close frame or a message may have been buffered before.
ReadFails(err) ==
    /\ pc["reader"] = "read"
    /\ err = "timeout" => conn = "open"
    /\ err = "peer_closed" => peer = "left"
    /\ readError' = err
    /\ Yield("reader", "send", ReadResult(err))
    /\ Answers(err)
    /\ UNCHANGED <<queueVars, results, result, conn, told, closeVars,
                   peer>>

\* A message that ends the session: one that is refused, a second authorize, or
\* a close.
ReadEnding ==
    /\ pc["reader"] = "read"
    /\ \E f \in ClientFrame :
          LET parsed == ParseClientMessage(f) IN
          /\ parsed.type \notin {"input", "resize"}
          /\ Yield("reader", "send", IF parsed.type = "close"
                                    THEN "client_close"
                                    ELSE "protocol_violation")
    /\ UNCHANGED <<queueVars, results, result, readError, connVars, closeVars,
                   peer>>

\* Input or a resize, passed on to the console: this may block for long.  Input
\* without a byte is skipped, white space is not.
ReadCommand ==
    /\ pc["reader"] = "read"
    /\ \E f \in ClientFrame :
          /\ ParseClientMessage(f).type \in {"input", "resize"}
          /\ Goto("reader", IF f.body = "empty" THEN "read" ELSE "apply")
    /\ UNCHANGED <<queueVars, resultVars, connVars, closeVars, peer>>

ApplyCommand ==
    /\ pc["reader"] = "apply"
    /\ console = "open"
    /\ Goto("reader", "read")
    /\ UNCHANGED <<queueVars, resultVars, connVars, closeVars, peer>>

ApplyFails ==
    /\ pc["reader"] = "apply"
    /\ Yield("reader", "send", "ssh_error")
    /\ UNCHANGED <<queueVars, results, result, readError, connVars, closeVars,
                   peer>>

ReaderNext ==
    \/ \E err \in ReadError : ReadFails(err)
    \/ ReadEnding \/ ReadCommand
    \/ ApplyCommand
    \/ ApplyFails

-----------------------------------------------------------------------------
(* writeLoop *)

WriterStops ==
    /\ pc["writer"] = "select"
    /\ Closed
    /\ Goto("writer", "done")
    /\ UNCHANGED <<queueVars, resultVars, connVars, closeVars, peer>>

WriterTakes ==
    /\ pc["writer"] = "select"
    /\ outbound # <<>>
    /\ message' = <<Head(outbound)>>
    /\ outbound' = Tail(outbound)
    /\ Goto("writer", "write")
    /\ UNCHANGED <<chunk, produced, sent, resultVars, connVars, closeVars,
                   peer>>

WriterWrites ==
    /\ pc["writer"] = "write"
    /\ CanWrite
    /\ sent' = sent \o message
    /\ message' = <<>>
    /\ Goto("writer", "select")
    /\ UNCHANGED <<outbound, chunk, produced, resultVars, connVars, closeVars,
                   peer>>

\* The write fails and the writer ends the session itself.
WriterFails ==
    /\ pc["writer"] = "write"
    /\ WriteFails
    /\ message' = <<>>
    /\ Yield("writer", "close", "browser_disconnect")
    /\ UNCHANGED <<outbound, chunk, produced, sent, results, result,
                   readError, closeVars, peer>>

WriterNext == WriterStops \/ WriterTakes \/ WriterWrites \/ WriterFails

-----------------------------------------------------------------------------
(* keepaliveLoop *)

KeepaliveStops ==
    /\ pc["keepalive"] = "select"
    /\ Closed
    /\ Goto("keepalive", "done")
    /\ UNCHANGED <<queueVars, resultVars, connVars, closeVars, peer>>

\* Slip: a ping that fails is only logged, the next tick will tell.
PingFailsLogged ==
    /\ pc["keepalive"] = "select"
    /\ WriteFails
    /\ Goto("keepalive", "select")
    /\ UNCHANGED <<queueVars, resultVars, closeVars, peer>>

\* Slip: every ping that fails is an internal error.
PingFailsUnclassified ==
    /\ pc["keepalive"] = "select"
    /\ WriteFails
    /\ Yield("keepalive", "send", "internal_error")
    /\ UNCHANGED <<queueVars, results, result, readError, closeVars,
                   peer>>

\* The ticker fires and the ping fails; one that is written changes nothing
\* here.  IsPeerClosed holds of the error if a close frame has been sent.
PingFails ==
    /\ pc["keepalive"] = "select"
    /\ WriteFails
    /\ Yield("keepalive", "send",
             IF writeErr = "closeSent"
             THEN "browser_disconnect" ELSE "internal_error")
    /\ UNCHANGED <<queueVars, results, result, readError, closeVars,
                   peer>>

KeepaliveNext ==
    KeepaliveStops \/ PingFails

-----------------------------------------------------------------------------
(* run, and the results channel its loops send to *)

\* Slip: the keepalive loop goes on pinging after it has sent its result.
SendAndLoop(g) ==
    /\ pc[g] = "send"
    /\ results < ResultsCapacity
    /\ results' = results + 1
    /\ result' = IF result = NoReason THEN outcome[g] ELSE result
    /\ Yield(g, IF g = "keepalive" THEN "select" ELSE "done", NoReason)
    /\ UNCHANGED <<queueVars, readError, connVars, closeVars, peer>>

SendResult(g) ==
    /\ pc[g] = "send"
    /\ results < ResultsCapacity
    /\ results' = results + 1
    /\ result' = IF result = NoReason THEN outcome[g] ELSE result
    /\ Yield(g, "done", NoReason)
    /\ UNCHANGED <<queueVars, readError, connVars, closeVars, peer>>

RunReceives ==
    /\ pc["run"] = "wait"
    /\ results > 0
    /\ results' = results - 1
    /\ Goto("run", CASE result \in HasError            -> "flushError"
                     [] result \in HasClose \ HasError -> "flushClose"
                     [] OTHER                          -> "close")
    /\ UNCHANGED <<queueVars, outcome, result, readError, connVars, closeVars,
                   peer>>

\* flush: writeImmediate of one message: it is written, or the failure is logged.
WriteImmediate(m) ==
    \/ /\ CanWrite
       /\ told' = Append(told, m)
       /\ UNCHANGED <<conn, writeErr>>
    \/ WriteFails

FlushError ==
    /\ pc["run"] = "flushError"
    /\ WriteImmediate(<<"error", result>>)
    /\ Goto("run", "flushClose")
    /\ UNCHANGED <<queueVars, resultVars, closeVars, peer>>

\* Slip: the close message is for ends without an error.
FlushCloseWithoutErrorOnly ==
    /\ pc["run"] = "flushClose"
    /\ IF result \in HasError
       THEN UNCHANGED connVars
       ELSE WriteImmediate(<<"close", result>>)
    /\ Goto("run", "close")
    /\ UNCHANGED <<queueVars, resultVars, closeVars, peer>>

FlushClose ==
    /\ pc["run"] = "flushClose"
    /\ WriteImmediate(<<"close", result>>)
    /\ Goto("run", "close")
    /\ UNCHANGED <<queueVars, resultVars, closeVars, peer>>

RunJoins ==
    /\ pc["run"] = "join"
    /\ pc["writer"] = "done"
    /\ Goto("run", "done")
    /\ UNCHANGED <<queueVars, resultVars, connVars, closeVars, peer>>

RunNext == RunReceives \/ FlushError \/ FlushClose \/ RunJoins

-----------------------------------------------------------------------------

\* The browser closes the connection, with a close frame or without.  Writes go
\* on to succeed until its host answers them, and the reader may have much to
\* read before it comes to the end.
BrowserLeaves ==
    /\ peer = "there"
    /\ peer' = "left"
    /\ UNCHANGED <<pc, queueVars, resultVars, connVars, closeVars>>

\* The browser's host vanishes or the network to it breaks.
BrowserVanishes ==
    /\ peer = "there"
    /\ peer' = "gone"
    /\ UNCHANGED <<pc, queueVars, resultVars, connVars, closeVars>>

EnqueueNext(g) ==
    EnqueueOpen(g) \/ EnqueueClosed(g) \/ EnqueuePush(g) \/ EnqueueFull(g)

\* The session is over: its goroutines have returned, or never started.
Over == state = "closed" /\ \A g \in Goroutine : pc[g] \in {"idle", "done"}

Finished == Over /\ UNCHANGED vars

Next ==
    \/ StartRegister \/ StartAbort \/ StartDelete
    \/ \E g \in {"start", "output"} : EnqueueNext(g)
    \/ \E g \in Goroutine : CloseCall(g)
    \/ CloseBody \/ CloseAllCalls
    \/ OutputNext \/ ReaderNext \/ WriterNext \/ KeepaliveNext \/ RunNext
    \/ \E g \in {"reader", "output", "keepalive"} : SendResult(g)
    \/ BrowserLeaves \/ BrowserVanishes
    \/ Finished

SafeSpec == Init /\ [][Next]_vars

(***************************************************************************)
(* Runnable goroutines are scheduled, and calls return:                    *)
(*  - a write to the browser within its five second deadline, with or       *)
(*    without success;                                                     *)
(*  - Close of the console, which may have to wait for TCP, and a call     *)
(*    into a console that has been closed (module RemoteSession);          *)
(*  - a ReadMessage of a closed connection, once what had been buffered    *)
(*    is consumed, of one the browser has closed, likewise, and of one     *)
(*    whose browser has vanished, at the deadline no pong extends any      *)
(*    more: the reader may come to ReadMessage again and again before,     *)
(*    hence the strong fairness;                                           *)
(*  - a ping to a browser that has left or vanished fails sooner or later, *)
(*    when its host answers, TCP gives up or the send buffer is full.      *)
(* A console that is open need not produce anything, nor need it ever take *)
(* the input it is given.                                                  *)
(***************************************************************************)
Fairness ==
    /\ WF_vars(\/ StartRegister \/ StartAbort \/ StartDelete
               \/ EnqueueNext("start") \/ CloseCall("start"))
    /\ WF_vars(\/ EnqueueNext("output") \/ CloseCall("output")
               \/ SendResult("output")
               \/ console = "closed" /\ OutputEnds("console_closed"))
    /\ WF_vars(\/ SendResult("reader")
               \/ console = "closed" /\ ApplyFails)
    /\ SF_vars(\/ conn = "closed" /\ ReadFails("other")
               \/ peer = "left" /\ ReadFails("peer_closed")
               \/ peer = "gone" /\ ReadFails("timeout"))
    /\ WF_vars(WriterNext \/ CloseCall("writer"))
    /\ WF_vars(KeepaliveStops \/ SendResult("keepalive"))
    /\ SF_vars(peer # "there" /\ PingFails)
    /\ WF_vars(RunNext \/ CloseCall("run"))
    /\ WF_vars(CloseCall("closeall"))
    /\ WF_vars(CloseBody)

Spec == SafeSpec /\ Fairness

-----------------------------------------------------------------------------
(* Properties *)

\* What the browser gets from the queue is the authorization and then the
\* console's output, in order and without a gap; and while nobody is ending the
\* session, no chunk is lost between the console and the browser.
OutputIntact ==
    LET underway == sent \o message \o outbound \o chunk
        started  == IF pc["run"] = "idle" THEN 0 ELSE 1
    IN  /\ \A i \in DOMAIN sent : sent[i] = i - 1
        /\ ~Closed /\ pc["writer"] # "close" /\ pc["output"] # "close" =>
              Len(underway) = started + produced

\* A close frame the browser gets comes after the close message that names the
\* same reason, and this one after the error message, for every end that has
\* them.
EndAnnounced ==
    \A i \in DOMAIN told : \A r \in EndReason :
        told[i] = <<"frame", r>> =>
            /\ r \in HasClose => i > 1 /\ told[i - 1] = <<"close", r>>
            /\ r \in HasError => i > 2 /\ told[i - 2] = <<"error", r>>

\* A producer never blocks on the results channel, although run receives one
\* result only: each producer sends at most once.
ResultsNeverBlock ==
    \A g \in {"reader", "output", "keepalive"} :
        pc[g] = "send" => results < ResultsCapacity

\* Once the reader has come to the browser's closing and has answered it, the
\* session does not end as an internal error: also a ping or output that runs
\* into that answer is a disconnect.
AnsweredCloseIsDisconnect ==
    readError = "peer_closed" /\ writeErr = "closeSent" =>
        endReason # "internal_error"

\* A session that is over has released its connections and its place.
OverLeavesNothing ==
    Over => conn = "closed" /\ console = "closed" /\ ~registered

\* Once anybody closes the session, all of its goroutines return.
EndsCompletely == Closed ~> Over

\* A session whose browser has left or vanished ends, even if the reader is stuck
\* in a console that takes no input.
AbandonedEnds == peer # "there" ~> Over

Self == "session"

Pool == INSTANCE SessionPool
            WITH Session <- {Self}, MaxConcurrent <- 1, Reason <- EndReason,
                 up <- TRUE, live <- IF registered THEN {Self} ELSE {},
                 verdict <- [s \in {Self} |-> endReason]

\* A single session implements the abstract pool, its liveness included.
ImplementsPool == Pool!Spec

\* What the plan says of protocol errors at run time, for the one ReadMessage
\* reports itself: a message over the size limit is a protocol violation.
OversizedIsViolation ==
    readError = "too_large" /\ pc["reader"] = "send" =>
        outcome["reader"] = "protocol_violation"

\* The browser has left, and nothing else has gone wrong with the session.
OnlyLeft ==
    /\ peer = "left" /\ readError = "none" /\ writeErr = "none"
    /\ once = "free" /\ result = NoReason
    /\ \A g \in Goroutine : outcome[g] = NoReason

\* What the plan says of a browser's disconnect: it is told apart from a failure
\* of the infrastructure.  In the code a ping may come upon the closing before
\* the reader does, and the session ends as an internal error.
LeavingIsDisconnect ==
    [](OnlyLeft => [](readError = "peer_closed" => endReason # "internal_error"))

=============================================================================
