---------------------------- MODULE SessionProofs ----------------------------
(***************************************************************************)
(* Proofs about Session, for every depth of the queue, any amount of       *)
(* output, any messages of the browser and any errors of ReadMessage.      *)
(*                                                                         *)
(* The parts of the inductive invariant follow the things the goroutines   *)
(* share: where each of them can be (Places), what the one execution of    *)
(* close has done (Ending), the results channel (Reporting), the blame for *)
(* an internal error (Blaming), the queue (Queued) and what is told to the *)
(* browser at the end (Telling).                                           *)
(***************************************************************************)
EXTENDS Session, SequenceTheorems, FiniteSetTheorems, TLAPS

Loop     == {"run", "reader", "output", "writer", "keepalive"}
Producer == {"reader", "output", "keepalive"}

\* Where each goroutine can be; the loops run only when Start is done.
Places ==
    /\ pc["start"] \in {"register", "check", "push", "close", "abort",
                        "delete", "done"}
    /\ pc["run"] \in {"idle", "wait", "flushError", "flushClose", "close",
                      "join", "done"}
    /\ pc["reader"] \in {"idle", "read", "apply", "send", "done"}
    /\ pc["output"] \in {"idle", "read", "check", "push", "send", "close",
                         "done"}
    /\ pc["writer"] \in {"idle", "select", "write", "close", "done"}
    /\ pc["keepalive"] \in {"idle", "select", "send", "done"}
    /\ pc["closeall"] \in {"idle", "close", "done"}
    /\ pc["start"] # "done" => \A g \in Loop : pc[g] = "idle"
    /\ pc["start"] = "register" => pc["closeall"] = "idle"
    /\ \A g \in Loop : pc[g] = "idle" <=> pc["run"] = "idle"

\* How far close has come says what is closed, and nobody goes on from close
\* before it is done.
Ending ==
    /\ pc["start"] = "register" <=> state = "none"
    /\ pc["start"] = "register" => ~registered /\ once = "free"
    /\ pc["start"] # "register" /\ once = "free" =>
          registered /\ state = "active"
    /\ once = "free" <=> endReason = NoReason
    /\ state = "closed" <=> once = "done"
    /\ once \in {"free", "browser"} <=> conn = "open"
    /\ once \in {"delete", "state", "done"} => console = "closed"
    /\ once \in {"state", "done"} => ~registered
    /\ pc["start"] \in {"abort", "delete"} => once # "free"
    /\ pc["run"] \in {"join", "done"} => once = "done"
    /\ pc["writer"] = "done" => once # "free"

\* A producer that sends has a result, and has a place for it: the results that
\* are buffered come from other producers, which have returned.
Returned(g) == IF pc[g] = "done" THEN 1 ELSE 0

Reporting ==
    /\ \A g \in Producer : pc[g] = "send" => outcome[g] # NoReason
    /\ results <= Returned("reader") + Returned("output")
                    + Returned("keepalive")
    /\ results > 0 \/ pc["run"] \notin {"idle", "wait"} => result # NoReason
    /\ pc["start"] = "close" => outcome["start"] = "slow_client"
    /\ pc["output"] = "close" => outcome["output"] = "slow_client"
    /\ pc["writer"] = "close" => outcome["writer"] = "browser_disconnect"

\* An internal error, wherever it has got to, has a cause other than the
\* browser's closing: what ReadMessage returned, or a write that failed before
\* any close frame.
Blaming ==
    /\ pc["reader"] \in {"idle", "read", "apply"} => readError = "none"
    /\ \/ \E g \in Goroutine : outcome[g] = "internal_error"
       \/ "internal_error" \in {result, endReason}
       => readError \in {"too_large", "other"} \/ writeErr = "failed"

\* The writer has not failed.
Writing == pc["writer"] \in {"idle", "select", "write"}

\* The output loop has not dropped a chunk.
Whole == \/ pc["output"] \in {"idle", "read", "check", "push"}
         \/ once = "free" /\ pc["output"] # "close"

\* The messages on their way are numbered without a gap, as long as the writer
\* writes; none is missing as long as the output loop has not given up either.
Queued ==
    /\ message # <<>> <=> pc["writer"] = "write"
    /\ chunk # <<>> <=> pc["output"] \in {"check", "push"}
    /\ pc["run"] = "idle" => produced = 0
    /\ \A i \in DOMAIN chunk : chunk[i] = produced
    /\ \A i \in DOMAIN sent : sent[i] = i - 1
    /\ Writing =>
          /\ \A i \in DOMAIN message : message[i] = Len(sent) + i - 1
          /\ \A i \in DOMAIN outbound :
                outbound[i] = Len(sent) + Len(message) + i - 1
    /\ Writing /\ Whole =>
          Len(sent) + Len(message) + Len(outbound) + Len(chunk)
             = (IF pc["run"] = "idle" THEN 0 ELSE 1) + produced

\* The last message told, and the one before it.
LastTold(m)   == Len(told) >= 1 /\ told[Len(told)] = m
BeforeTold(m) == Len(told) >= 2 /\ told[Len(told) - 1] = m

\* What has been told when run has come this far, unless a write has failed.
Telling ==
    /\ EndAnnounced
    /\ endReason \in HasClose =>
          endReason = result /\ pc["run"] \in {"close", "join", "done"}
    /\ CanWrite /\ pc["run"] = "flushClose" /\ result \in HasError =>
          LastTold(<<"error", result>>)
    /\ CanWrite /\ pc["run"] = "close" =>
          /\ result \in HasClose => LastTold(<<"close", result>>)
          /\ result \in HasError => BeforeTold(<<"error", result>>)

\* The inductive invariant.
IInv ==
    TypeOK /\ Places /\ Ending /\ Reporting /\ Blaming /\ Queued /\ Telling

-----------------------------------------------------------------------------

\* A reason is not the absence of one.
LEMMA Reasons ==
    /\ NoReason \notin EndReason
    /\ LoopEndReason \subseteq EndReason
    /\ HasError \subseteq HasClose /\ HasClose \subseteq LoopEndReason
BY Zenon DEF NoReason, EndReason, LoopEndReason, HasError, HasClose

LEMMA IInvInit == Init => IInv
<1> SUFFICES ASSUME Init PROVE IInv
  OBVIOUS
<1> USE DEF Init
<1>1. TypeOK
  <2>1. pc \in [Goroutine -> {"register", "idle"}]
    OBVIOUS
  <2>2. \A S : <<>> \in Seq(S) /\ Len(<<>>) = 0
    OBVIOUS
  <2>3. registered \in BOOLEAN /\ peer = "there"
    OBVIOUS
  <2>4. outcome \in [Goroutine -> LoopEndReason \cup {NoReason}]
    OBVIOUS
  <2> HIDE DEF Init
  <2>5. /\ state = "none" /\ endReason = NoReason /\ once = "free"
        /\ outbound = <<>> /\ message = <<>> /\ chunk = <<>> /\ produced = 0
        /\ results = 0 /\ result = NoReason /\ readError = "none"
        /\ conn = "open" /\ writeErr = "none" /\ console = "open"
        /\ sent = <<>> /\ told = <<>>
    BY DEF Init
  <2> QED
    BY <2>1, <2>2, <2>3, <2>4, <2>5, OutputLimitAssumption,
       QueueDepthAssumption DEF TypeOK, Label, ResultsCapacity
<1>2. Places /\ Ending
  BY DEF Places, Ending, Loop, Goroutine
<1>3. Reporting
  <2>1. pc["start"] = "register" /\ \A g \in Goroutine : pc[g] \in {"idle", "register"}
    BY DEF Goroutine
  <2>2. {"run", "writer", "output"} \cup Producer \subseteq Goroutine
    BY DEF Producer, Goroutine
  <2> QED
    BY <2>1, <2>2 DEF Reporting, Producer, Returned, Goroutine
<1>4. Blaming
  BY Reasons DEF Blaming, Goroutine, EndReason, LoopEndReason
<1>5. Queued
  BY DEF Queued, Writing, Goroutine
<1>6. Telling
  BY Reasons DEF Telling, EndAnnounced, HasClose, HasError, Goroutine
<1> QED
  BY <1>1, <1>2, <1>3, <1>4, <1>5, <1>6 DEF IInv

-----------------------------------------------------------------------------
(* Where the goroutines are *)

\* Every step leads from places to places.
LEMMA PlacesStep ==
    ASSUME IInv, [Next]_vars
    PROVE  Places'
<1> USE DEF Places, Goto, Yield, Loop, Goroutine
<1>0. pc = [g \in Goroutine |-> pc[g]] /\ Places
  BY DEF IInv, TypeOK
<1>1. CASE StartRegister \/ StartAbort \/ StartDelete
  BY <1>0, <1>1 DEF StartRegister, StartAbort, StartDelete
<1>2. ASSUME NEW g \in {"start", "output"}, EnqueueNext(g) PROVE Places'
  BY <1>0, <1>2 DEF EnqueueNext, EnqueueOpen, EnqueueClosed, EnqueuePush,
     EnqueueFull, Loops
<1>3. ASSUME NEW g \in Goroutine, CloseCall(g) PROVE Places'
  BY <1>0, <1>3 DEF CloseCall, CloseEnter, CloseReturn, AfterClose
<1>4. CASE CloseBody
  BY <1>0, <1>4 DEF CloseBody, CloseBrowser, CloseConsole, CloseDelete,
     CloseFinish
<1>5. CASE CloseAllCalls
  BY <1>0, <1>5 DEF CloseAllCalls, IInv, Ending
<1>6. CASE OutputNext
  BY <1>0, <1>6 DEF OutputNext, OutputReads, OutputEnds
<1>7. CASE ReaderNext
  BY <1>0, <1>7 DEF ReaderNext, ReadFails, ReadEnding, ReadCommand,
     ApplyCommand, ApplyFails
<1>8. CASE WriterNext
  BY <1>0, <1>8 DEF WriterNext, WriterStops, WriterTakes, WriterWrites,
     WriterFails
<1>9. CASE KeepaliveNext
  BY <1>0, <1>9 DEF KeepaliveNext, KeepaliveStops, PingFails
<1>10. CASE RunNext
  BY <1>0, <1>10 DEF RunNext, RunReceives, FlushError, FlushClose, RunJoins
<1>11. ASSUME NEW g \in Producer, SendResult(g) PROVE Places'
  BY <1>0, <1>11 DEF SendResult, Producer
<1>12. CASE BrowserLeaves \/ BrowserVanishes \/ Finished \/ UNCHANGED vars
  BY <1>0, <1>12 DEF BrowserLeaves, BrowserVanishes, Finished, vars
<1> QED
  BY <1>1, <1>2, <1>3, <1>4, <1>5, <1>6, <1>7, <1>8, <1>9, <1>10, <1>11,
     <1>12 DEF Next, Producer

-----------------------------------------------------------------------------
(* The end of the session *)

\* Whoever calls close has a reason, and only run one that is told to the
\* browser in a message.
LEMMA ReasonGiven ==
    ASSUME IInv, NEW g \in Goroutine, pc[g] = "close"
    PROVE  /\ ReasonOf(g) \in EndReason
           /\ ReasonOf(g) \in HasClose => g = "run"
           /\ g # "run" => ReasonOf(g) # "internal_error"
           /\ pc["start"] # "register"
<1>1. g \in {"start", "run", "output", "writer", "closeall"}
  BY DEF IInv, Places, Goroutine
<1>2. pc["start"] # "register"
  BY <1>1 DEF IInv, Places, Loop
<1>3. CASE g = "run"
  <2>1. result \in LoopEndReason
    BY <1>3 DEF IInv, TypeOK, Reporting
  <2> QED
    BY <1>2, <1>3, <2>1, Reasons DEF ReasonOf
<1>4. CASE g # "run"
  <2>1. ReasonOf(g) \in {"server_shutdown", "slow_client", "browser_disconnect"}
    BY <1>1, <1>4 DEF IInv, Reporting, ReasonOf
  <2> QED
    BY <1>2, <1>4, <2>1 DEF EndReason, LoopEndReason, HasClose, HasError
<1> QED
  BY <1>3, <1>4

LEMMA EndingStep ==
    ASSUME IInv, [Next]_vars
    PROVE  Ending'
<1> USE DEF Ending, Places, Goto, Yield, Loop, Goroutine, queueVars,
            resultVars, connVars, closeVars
<1>0. pc = [g \in Goroutine |-> pc[g]] /\ Places /\ Ending
  BY DEF IInv, TypeOK
<1>1. CASE StartRegister \/ StartAbort \/ StartDelete
  BY <1>0, <1>1 DEF StartRegister, StartAbort, StartDelete
<1>2. ASSUME NEW g \in {"start", "output"}, EnqueueNext(g) PROVE Ending'
  BY <1>0, <1>2 DEF EnqueueNext, EnqueueOpen, EnqueueClosed, EnqueuePush,
     EnqueueFull, Loops, Closed
<1>3. ASSUME NEW g \in Goroutine, CloseEnter(g) PROVE Ending'
  BY <1>0, <1>3, ReasonGiven, Reasons DEF CloseEnter
<1>4. ASSUME NEW g \in Goroutine, CloseReturn(g) PROVE Ending'
  BY <1>0, <1>4 DEF CloseReturn, AfterClose
<1>5. CASE CloseBody
  BY <1>0, <1>5 DEF CloseBody, CloseBrowser, CloseConsole, CloseDelete,
     CloseFinish
<1>6. CASE CloseAllCalls
  BY <1>0, <1>6 DEF CloseAllCalls
<1>7. CASE OutputNext
  BY <1>0, <1>7 DEF OutputNext, OutputReads, OutputEnds
<1>8. CASE ReaderNext
  BY <1>0, <1>8 DEF ReaderNext, ReadFails, ReadEnding, ReadCommand,
     ApplyCommand, ApplyFails
<1>9. CASE WriterNext
  BY <1>0, <1>9 DEF WriterNext, WriterStops, WriterTakes, WriterWrites,
     WriterFails, WriteFails, Closed
<1>10. CASE KeepaliveNext
  BY <1>0, <1>10 DEF KeepaliveNext, KeepaliveStops, PingFails, WriteFails
<1>11. CASE RunNext
  BY <1>0, <1>11 DEF RunNext, RunReceives, FlushError, FlushClose, RunJoins,
     WriteImmediate, WriteFails
<1>12. ASSUME NEW g \in Producer, SendResult(g) PROVE Ending'
  BY <1>0, <1>12 DEF SendResult, Producer
<1>13. CASE BrowserLeaves \/ BrowserVanishes \/ Finished \/ UNCHANGED vars
  BY <1>0, <1>13 DEF BrowserLeaves, BrowserVanishes, Finished, vars
<1> QED
  BY <1>1, <1>2, <1>3, <1>4, <1>5, <1>6, <1>7, <1>8, <1>9, <1>10, <1>11,
     <1>12, <1>13 DEF Next, Producer, CloseCall

-----------------------------------------------------------------------------
(* The results channel *)

LEMMA ReportingStep ==
    ASSUME IInv, [Next]_vars
    PROVE  Reporting'
<1> USE DEF Reporting, Returned, Producer, Places, Goto, Yield, Loop,
            Goroutine, queueVars, resultVars, connVars, closeVars
<1>0. /\ pc = [g \in Goroutine |-> pc[g]] /\ Places /\ Reporting
      /\ outcome = [g \in Goroutine |-> outcome[g]]
      /\ results \in Nat
  BY DEF IInv, TypeOK, ResultsCapacity
<1>1. CASE StartRegister \/ StartAbort \/ StartDelete
  BY <1>0, <1>1 DEF StartRegister, StartAbort, StartDelete
<1>2. ASSUME NEW g \in {"start", "output"}, EnqueueNext(g) PROVE Reporting'
  <2>1. NoReason # "slow_client"
    BY Reasons DEF EndReason, LoopEndReason
  <2> QED
    BY <1>0, <1>2, <2>1 DEF EnqueueNext, EnqueueOpen, EnqueueClosed,
       EnqueuePush, EnqueueFull, Loops
<1>3. ASSUME NEW g \in Goroutine, CloseEnter(g) PROVE Reporting'
  BY <1>0, <1>3 DEF CloseEnter
<1>4. ASSUME NEW g \in Goroutine, CloseReturn(g) PROVE Reporting'
  <2>1. NoReason # "slow_client"
    BY Reasons DEF EndReason, LoopEndReason
  <2> QED
    BY <1>0, <1>4, <2>1 DEF CloseReturn, AfterClose
<1>5. CASE CloseBody
  BY <1>0, <1>5 DEF CloseBody, CloseBrowser, CloseConsole, CloseDelete,
     CloseFinish
<1>6. CASE CloseAllCalls
  BY <1>0, <1>6 DEF CloseAllCalls
<1>7. CASE OutputNext
  <2>1. NoReason \notin ConsoleEnd
    BY Reasons, ConsoleEndAssumption DEF EndReason, LoopEndReason
  <2> QED
    BY <1>0, <1>7, <2>1 DEF OutputNext, OutputReads, OutputEnds
<1>8. CASE ReaderNext
  <2>1. NoReason \notin {"keepalive_timeout", "browser_disconnect",
            "internal_error", "client_close", "protocol_violation", "ssh_error"}
    BY Reasons DEF EndReason, LoopEndReason
  <2>2. \A err : ReadResult(err) # NoReason
    BY <2>1 DEF ReadResult
  <2> QED
    BY <1>0, <1>8, <2>1, <2>2 DEF ReaderNext, ReadFails, ReadEnding,
       ReadCommand, ApplyCommand, ApplyFails
<1>9. CASE WriterNext
  BY <1>0, <1>9 DEF WriterNext, WriterStops, WriterTakes, WriterWrites,
     WriterFails
<1>10. CASE KeepaliveNext
  <2>1. NoReason \notin {"browser_disconnect", "internal_error"}
    BY Reasons DEF EndReason, LoopEndReason
  <2> QED
    BY <1>0, <1>10, <2>1 DEF KeepaliveNext, KeepaliveStops, PingFails
<1>11. CASE RunNext
  BY <1>0, <1>11 DEF RunNext, RunReceives, FlushError, FlushClose, RunJoins
<1>12. ASSUME NEW g \in Producer, SendResult(g) PROVE Reporting'
  BY <1>0, <1>12 DEF SendResult
<1>13. CASE BrowserLeaves \/ BrowserVanishes \/ Finished \/ UNCHANGED vars
  BY <1>0, <1>13 DEF BrowserLeaves, BrowserVanishes, Finished, vars
<1> QED
  BY <1>1, <1>2, <1>3, <1>4, <1>5, <1>6, <1>7, <1>8, <1>9, <1>10, <1>11,
     <1>12, <1>13 DEF Next, CloseCall

-----------------------------------------------------------------------------
(* The blame for an internal error *)

\* A cause for an internal error remains one.
LEMMA CauseStays ==
    ASSUME Places, Blaming, [Next]_vars
    PROVE  /\ writeErr = "failed" => writeErr' = "failed"
           /\ readError # "none" => readError' = readError
<1> USE DEF queueVars, resultVars, connVars, closeVars
<1>1. CASE StartRegister \/ StartAbort \/ StartDelete
  BY <1>1 DEF StartRegister, StartAbort, StartDelete
<1>2. ASSUME NEW g \in {"start", "output"}, EnqueueNext(g)
      PROVE  UNCHANGED <<writeErr, readError>>
  BY <1>2 DEF EnqueueNext, EnqueueOpen, EnqueueClosed, EnqueuePush,
     EnqueueFull
<1>3. ASSUME NEW g \in Goroutine, CloseCall(g)
      PROVE  UNCHANGED <<writeErr, readError>>
  BY <1>3 DEF CloseCall, CloseEnter, CloseReturn
<1>4. CASE CloseBody \/ CloseAllCalls
  BY <1>4 DEF CloseBody, CloseBrowser, CloseConsole, CloseDelete,
     CloseFinish, CloseAllCalls
<1>5. CASE OutputNext
  BY <1>5 DEF OutputNext, OutputReads, OutputEnds
<1>6. CASE ReaderNext
  BY <1>6 DEF ReaderNext, ReadFails, ReadEnding, ReadCommand, ApplyCommand,
     ApplyFails, Answers, CanWrite, Blaming
<1>7. CASE WriterNext
  BY <1>7 DEF WriterNext, WriterStops, WriterTakes, WriterWrites,
     WriterFails, WriteFails
<1>8. CASE KeepaliveNext
  BY <1>8 DEF KeepaliveNext, KeepaliveStops, PingFails, WriteFails
<1>9. CASE RunNext
  BY <1>9 DEF RunNext, RunReceives, FlushError, FlushClose, RunJoins,
     WriteImmediate, WriteFails
<1>10. ASSUME NEW g \in Producer, SendResult(g)
       PROVE  UNCHANGED <<writeErr, readError>>
  BY <1>10 DEF SendResult
<1>11. CASE BrowserLeaves \/ BrowserVanishes \/ Finished \/ UNCHANGED vars
  BY <1>11 DEF BrowserLeaves, BrowserVanishes, Finished, vars
<1> QED
  BY <1>1, <1>2, <1>3, <1>4, <1>5, <1>6, <1>7, <1>8, <1>9, <1>10, <1>11
  DEF Next, Producer

\* The steps after which a goroutine has a reason that it did not have: only
\* three of them may name an internal error, and each has its cause.
LEMMA BlamingStep ==
    ASSUME IInv, [Next]_vars
    PROVE  Blaming'
<1> DEFINE Cause   == readError \in {"too_large", "other"} \/ writeErr = "failed"
           Blamed  == \/ \E g \in Goroutine : outcome[g] = "internal_error"
                      \/ "internal_error" \in {result, endReason}
           Unread  == pc["reader"] \in {"idle", "read", "apply"} =>
                         readError = "none"
<1>0. /\ pc = [g \in Goroutine |-> pc[g]] /\ Places /\ Unread
      /\ outcome = [g \in Goroutine |-> outcome[g]]
      /\ Blamed => Cause
  BY DEF IInv, TypeOK, Blaming
<1>1. Cause => Cause'
  BY CauseStays DEF IInv
<1>2. SUFFICES Unread' /\ (Blamed' => Blamed \/ Cause')
  BY <1>0, <1>1 DEF Blaming
<1> USE DEF Places, Goto, Yield, Loop, Goroutine, queueVars, resultVars,
            connVars, closeVars
<1>3. NoReason # "internal_error"
  BY Reasons DEF EndReason, LoopEndReason
<1>4. CASE StartRegister \/ StartAbort \/ StartDelete
  BY <1>0, <1>4 DEF StartRegister, StartAbort, StartDelete
<1>5. ASSUME NEW g \in {"start", "output"}, EnqueueNext(g)
      PROVE  Unread' /\ (Blamed' => Blamed \/ Cause')
  BY <1>0, <1>5 DEF EnqueueNext, EnqueueOpen, EnqueueClosed, EnqueuePush,
     EnqueueFull, Loops
<1>6. ASSUME NEW g \in Goroutine, CloseEnter(g)
      PROVE  Unread' /\ (Blamed' => Blamed \/ Cause')
  <2>1. ReasonOf(g) = "internal_error" => result = "internal_error"
    BY <1>6, ReasonGiven DEF CloseEnter, ReasonOf
  <2> QED
    BY <1>0, <1>6, <2>1 DEF CloseEnter
<1>7. ASSUME NEW g \in Goroutine, CloseReturn(g)
      PROVE  Unread' /\ (Blamed' => Blamed \/ Cause')
  BY <1>0, <1>7 DEF CloseReturn, AfterClose
<1>8. CASE CloseBody
  BY <1>0, <1>8 DEF CloseBody, CloseBrowser, CloseConsole, CloseDelete,
     CloseFinish
<1>9. CASE CloseAllCalls
  BY <1>0, <1>9 DEF CloseAllCalls
<1>10. CASE OutputNext
  <2>1. "internal_error" \notin ConsoleEnd
    BY ConsoleEndAssumption
  <2> QED
    BY <1>0, <1>10, <2>1 DEF OutputNext, OutputReads, OutputEnds
<1>11. CASE ReaderNext
  <2>1. \A err \in ReadError :
           ReadResult(err) = "internal_error" => err \in {"too_large", "other"}
    BY ReadErrorAssumption DEF ReadResult
  <2> QED
    BY <1>0, <1>11, <2>1 DEF ReaderNext, ReadFails, ReadEnding, ReadCommand,
       ApplyCommand, ApplyFails
<1>12. CASE WriterNext
  BY <1>0, <1>12 DEF WriterNext, WriterStops, WriterTakes, WriterWrites,
     WriterFails
<1>13. CASE KeepaliveNext
  <2>1. writeErr \in {"none", "closeSent", "failed"}
    BY DEF IInv, TypeOK
  <2> QED
    BY <1>0, <1>13, <2>1 DEF KeepaliveNext, KeepaliveStops, PingFails,
       WriteFails
<1>14. CASE RunNext
  BY <1>0, <1>14 DEF RunNext, RunReceives, FlushError, FlushClose, RunJoins
<1>15. ASSUME NEW g \in Producer, SendResult(g)
       PROVE  Unread' /\ (Blamed' => Blamed \/ Cause')
  BY <1>0, <1>3, <1>15 DEF SendResult, Producer
<1>16. CASE BrowserLeaves \/ BrowserVanishes \/ Finished \/ UNCHANGED vars
  BY <1>0, <1>16 DEF BrowserLeaves, BrowserVanishes, Finished, vars
<1> QED
  BY <1>4, <1>5, <1>6, <1>7, <1>8, <1>9, <1>10, <1>11, <1>12, <1>13, <1>14,
     <1>15, <1>16 DEF Next, CloseCall, Producer

-----------------------------------------------------------------------------
(* Types *)

\* A queue to whose end one message is added, and one that loses its first.
LEMMA PushOne ==
    ASSUME NEW S, NEW s \in Seq(S), NEW t \in Seq(S), Len(t) = 1
    PROVE  /\ s \o t \in Seq(S)
           /\ Len(s \o t) = Len(s) + 1
           /\ \A i \in DOMAIN s : (s \o t)[i] = s[i]
           /\ (s \o t)[Len(s) + 1] = t[1]
<1>1. /\ Len(s) \in Nat /\ DOMAIN s = 1 .. Len(s)
      /\ s \o t \in Seq(S) /\ Len(s \o t) = Len(s) + 1
      /\ \A i \in 1 .. Len(s) + 1 :
            (s \o t)[i] = IF i <= Len(s) THEN s[i] ELSE t[i - Len(s)]
  BY ConcatProperties, LenProperties
<1>2. Len(s) + 1 - Len(s) = 1
  BY <1>1
<1> QED
  BY <1>1, <1>2

LEMMA PopOne ==
    ASSUME NEW S, NEW s \in Seq(S), s # <<>>
    PROVE  /\ <<Head(s)>> \in Seq(S) /\ Len(<<Head(s)>>) = 1
           /\ <<Head(s)>>[1] = s[1] /\ <<Head(s)>> # <<>>
           /\ Tail(s) \in Seq(S) /\ Len(s) \in Nat \ {0}
           /\ Len(Tail(s)) = Len(s) - 1
           /\ \A i \in DOMAIN Tail(s) : Tail(s)[i] = s[i + 1]
<1>1. /\ Head(s) \in S /\ Tail(s) \in Seq(S) /\ Len(s) \in Nat \ {0}
      /\ Len(Tail(s)) = Len(s) - 1
      /\ \A i \in 1 .. Len(Tail(s)) : Tail(s)[i] = s[i + 1]
  BY HeadTailProperties, EmptySeq
<1>2. Head(s) = s[1]
  BY <1>1
<1>3. <<Head(s)>> \in Seq(S) /\ Len(<<Head(s)>>) = 1 /\ <<Head(s)>>[1] = Head(s)
  BY <1>1
<1>4. DOMAIN Tail(s) = 1 .. Len(Tail(s))
  BY <1>1, LenProperties
<1>5. <<Head(s)>> # <<>>
  BY <1>3, EmptySeq
<1> QED
  BY <1>1, <1>2, <1>3, <1>4, <1>5

LEMMA OneIsOne ==
    ASSUME NEW S, NEW s \in Seq(S), s # <<>>, Len(s) <= 1
    PROVE  Len(s) = 1
<1>1. Len(s) \in Nat \ {0}
  BY EmptySeq
<1> QED
  BY <1>1

LEMMA SeqWider ==
    ASSUME NEW S, NEW T, S \subseteq T, NEW s \in Seq(S)
    PROVE  s \in Seq(T)
BY SeqDef

\* What is enqueued is one message; where it goes, and what the queue then is.
LEMMA PushTypes ==
    ASSUME IInv, NEW g \in {"start", "output"}, EnqueuePush(g)
    PROVE  /\ outbound' \in Seq(0 .. OutputLimit)
           /\ Len(outbound') = Len(outbound) + 1
           /\ Len(outbound') <= QueueDepth
           /\ \A i \in DOMAIN outbound : outbound'[i] = outbound[i]
           /\ outbound'[Len(outbound) + 1] = Enqueued(g)[1]
<1>1. /\ Enqueued(g) \in Seq(0 .. OutputLimit)
      /\ Len(Enqueued(g)) = 1
  <2>1. CASE g = "start"
    <3>1. 0 \in 0 .. OutputLimit
      BY OutputLimitAssumption
    <3> QED
      BY <2>1, <3>1 DEF Enqueued
  <2>2. CASE g = "output"
    <3>1. chunk \in Seq(1 .. OutputLimit) /\ chunk # <<>> /\ Len(chunk) <= 1
      BY <2>2 DEF EnqueuePush, IInv, TypeOK, Queued
    <3>2. Len(chunk) = 1
      BY <3>1, OneIsOne
    <3>3. 1 .. OutputLimit \subseteq 0 .. OutputLimit
      BY OutputLimitAssumption
    <3> QED
      BY <2>2, <3>1, <3>2, <3>3, SeqWider DEF Enqueued
  <2> QED
    BY <2>1, <2>2
<1>2. /\ outbound \in Seq(0 .. OutputLimit)
      /\ outbound' = outbound \o Enqueued(g)
      /\ Len(outbound) < QueueDepth
  BY DEF EnqueuePush, IInv, TypeOK
<1> QED
  BY <1>1, <1>2, PushOne, LenProperties, QueueDepthAssumption

\* What is told is told of an end.
LEMMA TellTypes ==
    ASSUME told \in Seq({"error", "close", "frame"} \X EndReason),
           NEW kind \in {"error", "close", "frame"}, NEW r \in EndReason
    PROVE  /\ Append(told, <<kind, r>>)
                 \in Seq({"error", "close", "frame"} \X EndReason)
           /\ Len(Append(told, <<kind, r>>)) = Len(told) + 1
           /\ \A i \in DOMAIN told : Append(told, <<kind, r>>)[i] = told[i]
           /\ Append(told, <<kind, r>>)[Len(told) + 1] = <<kind, r>>
<1>1. <<kind, r>> \in {"error", "close", "frame"} \X EndReason
  OBVIOUS
<1> QED
  BY <1>1

LEMMA TypeStep ==
    ASSUME IInv, [Next]_vars
    PROVE  TypeOK'
<1> USE DEF TypeOK, Label, Goto, Yield, Goroutine, queueVars, resultVars, connVars,
            closeVars
<1>0. TypeOK
  BY DEF IInv
<1>1. CASE StartRegister \/ StartAbort \/ StartDelete
  <2>1. registered' \in BOOLEAN
    BY <1>0, <1>1, Zenon DEF StartRegister, StartAbort, StartDelete
  <2>2. /\ UNCHANGED <<queueVars, resultVars, connVars, endReason, once,
                       peer>>
        /\ state' \in {state, "active"} /\ console' \in {console, "closed"}
    BY <1>1, Zenon DEF StartRegister, StartAbort, StartDelete
  <2>3. \E l \in {"check", "delete", "done"} : pc' = [pc EXCEPT !["start"] = l]
    BY <1>1, Zenon DEF StartRegister, StartAbort, StartDelete
  <2> QED
    BY <1>0, <2>1, <2>2, <2>3
<1>2. ASSUME NEW g \in {"start", "output"}, EnqueueNext(g) PROVE TypeOK'
  <2>1. CASE EnqueueOpen(g)
    BY <1>0, <2>1 DEF EnqueueOpen
  <2>2. CASE EnqueueClosed(g)
    BY <1>0, <2>2 DEF EnqueueClosed, LoopEndReason
  <2>3. CASE EnqueuePush(g)
    <3>1. \/ pc' = [pc EXCEPT ![g] = "read"]
          \/ pc' = [pc EXCEPT !["start"] = "done", !["run"] = "wait",
                    !["writer"] = "select", !["output"] = "read",
                    !["reader"] = "read", !["keepalive"] = "select"]
      BY <2>3, Zenon DEF EnqueuePush, Loops
    <3>2. outbound' \in Seq(0 .. OutputLimit) /\ Len(outbound') <= QueueDepth
      BY <2>3, PushTypes
    <3>3. UNCHANGED <<message, produced, sent, resultVars, connVars, closeVars,
                      peer>> /\ chunk' = <<>>
      BY <2>3, Zenon DEF EnqueuePush
    <3>4. pc' \in [Goroutine -> Label]
      <4>1. pc \in [Goroutine -> Label]
        BY <1>0
      <4> HIDE DEF TypeOK
      <4> QED
        BY <3>1, <4>1
    <3> QED
      BY <1>0, <3>2, <3>3, <3>4
  <2>4. CASE EnqueueFull(g)
    BY <1>0, <2>4 DEF EnqueueFull, LoopEndReason
  <2> QED
    BY <1>2, <2>1, <2>2, <2>3, <2>4 DEF EnqueueNext
<1>3. ASSUME NEW g \in Goroutine, CloseEnter(g) PROVE TypeOK'
  BY <1>0, <1>3, ReasonGiven DEF CloseEnter
<1>4. ASSUME NEW g \in Goroutine, CloseReturn(g) PROVE TypeOK'
  BY <1>0, <1>4 DEF CloseReturn, AfterClose
<1>5. CASE CloseBrowser
  <2>1. endReason \in EndReason
    BY <1>5 DEF CloseBrowser, IInv, Ending
  <2> QED
    BY <1>0, <1>5, <2>1, TellTypes DEF CloseBrowser
<1>6. CASE CloseConsole \/ CloseDelete \/ CloseFinish
  BY <1>0, <1>6 DEF CloseConsole, CloseDelete, CloseFinish
<1>7. CASE CloseAllCalls
  BY <1>0, <1>7 DEF CloseAllCalls
<1>8. CASE OutputReads
  <2>1. produced + 1 \in 1 .. OutputLimit
    BY <1>0, <1>8, OutputLimitAssumption DEF OutputReads
  <2> QED
    BY <1>0, <1>8, <2>1 DEF OutputReads
<1>9. ASSUME NEW r \in ConsoleEnd, OutputEnds(r) PROVE TypeOK'
  <2>1. r \in LoopEndReason
    BY ConsoleEndAssumption DEF LoopEndReason
  <2> QED
    BY <1>0, <1>9, <2>1 DEF OutputEnds
<1>10. CASE ReaderNext
  <2>1. \A err : ReadResult(err) \in LoopEndReason
    BY DEF ReadResult, LoopEndReason
  <2>2. {"client_close", "protocol_violation", "ssh_error"} \subseteq LoopEndReason
    BY DEF LoopEndReason
  <2> QED
    BY <1>0, <1>10, <2>1, <2>2 DEF ReaderNext, ReadFails, ReadEnding,
       ReadCommand, ApplyCommand, ApplyFails, Answers
<1>11. CASE WriterStops
  BY <1>0, <1>11 DEF WriterStops
<1>12. CASE WriterTakes
  <2>1. outbound \in Seq(0 .. OutputLimit) /\ outbound # <<>>
    BY <1>0, <1>12 DEF WriterTakes
  <2>2. message' = <<Head(outbound)>> /\ outbound' = Tail(outbound)
    BY <1>12 DEF WriterTakes
  <2>3. message' \in Seq(0 .. OutputLimit) /\ Len(message') = 1
    BY <2>1, <2>2, PopOne
  <2>4. outbound' \in Seq(0 .. OutputLimit) /\ Len(outbound') <= QueueDepth
    <3>1. Len(outbound) <= QueueDepth
      BY <1>0
    <3> HIDE DEF TypeOK
    <3> QED
      BY <2>1, <2>2, <3>1, PopOne, QueueDepthAssumption
  <2> QED
    BY <1>0, <1>12, <2>3, <2>4 DEF WriterTakes
<1>13. CASE WriterWrites
  BY <1>0, <1>13 DEF WriterWrites
<1>14. CASE WriterFails
  BY <1>0, <1>14 DEF WriterFails, WriteFails, LoopEndReason
<1>15. CASE KeepaliveNext
  <2>1. {"browser_disconnect", "internal_error"} \subseteq LoopEndReason
    BY DEF LoopEndReason
  <2>2. CASE KeepaliveStops
    BY <1>0, <2>2 DEF KeepaliveStops
  <2>3. CASE PingFails
    BY <1>0, <2>1, <2>3 DEF PingFails, WriteFails
  <2> QED
    BY <1>15, <2>2, <2>3 DEF KeepaliveNext
<1>16. CASE RunReceives \/ RunJoins
  BY <1>0, <1>16 DEF RunReceives, RunJoins, ResultsCapacity
<1>17. CASE FlushError \/ FlushClose
  <2>1. result \in EndReason
    BY <1>17, Reasons DEF FlushError, FlushClose, IInv, Reporting
  <2>2. \E kind \in {"error", "close"} : WriteImmediate(<<kind, result>>)
    BY <1>17 DEF FlushError, FlushClose
  <2>3. /\ told' \in Seq({"error", "close", "frame"} \X EndReason)
        /\ conn' = conn /\ writeErr' \in {writeErr, "failed"}
    <3>1. PICK kind \in {"error", "close"} : WriteImmediate(<<kind, result>>)
      BY <2>2
    <3>2. told' \in {told, Append(told, <<kind, result>>)}
          /\ conn' = conn /\ writeErr' \in {writeErr, "failed"}
      BY <3>1 DEF WriteImmediate, WriteFails
    <3>3. told \in Seq({"error", "close", "frame"} \X EndReason)
      BY <1>0
    <3> HIDE DEF TypeOK
    <3>4. Append(told, <<kind, result>>)
             \in Seq({"error", "close", "frame"} \X EndReason)
      BY <2>1, <3>3, TellTypes
    <3> QED
      BY <3>2, <3>3, <3>4
  <2>4. \E l \in {"flushClose", "close"} : pc' = [pc EXCEPT !["run"] = l]
    BY <1>17 DEF FlushError, FlushClose
  <2>5. UNCHANGED <<queueVars, resultVars, closeVars, peer>>
    BY <1>17 DEF FlushError, FlushClose
  <2> QED
    BY <1>0, <2>3, <2>4, <2>5
<1>18. ASSUME NEW g \in Producer, SendResult(g) PROVE TypeOK'
  BY <1>0, <1>18 DEF SendResult, Producer, ResultsCapacity
<1>19. CASE BrowserLeaves \/ BrowserVanishes
  <2>1. peer' \in {"left", "gone"}
    BY <1>19 DEF BrowserLeaves, BrowserVanishes
  <2>2. UNCHANGED <<pc, queueVars, resultVars, connVars, closeVars>>
    BY <1>19, Zenon DEF BrowserLeaves, BrowserVanishes
  <2> QED
    BY <1>0, <2>1, <2>2
<1>20. CASE Finished \/ UNCHANGED vars
  <2>1. UNCHANGED vars
    BY <1>20, Zenon DEF Finished
  <2> QED
    BY <1>0, <2>1 DEF vars
<1> QED
  BY <1>1, <1>2, <1>3, <1>4, <1>5, <1>6, <1>7, <1>8, <1>9, <1>10, <1>11,
     <1>12, <1>13, <1>14, <1>15, <1>16, <1>17, <1>18, <1>19, <1>20
  DEF Next, CloseCall, CloseBody, OutputNext, WriterNext, RunNext, Producer

-----------------------------------------------------------------------------
(* The queue *)

\* Steps that touch neither the queue nor the goroutines at its ends.
LEMMA QueuedKept ==
    ASSUME Queued, UNCHANGED queueVars, once' = "free" => once = "free",
           pc'["writer"] = pc["writer"], pc'["output"] = pc["output"],
           pc'["run"] = "idle" <=> pc["run"] = "idle"
    PROVE  Queued'
BY DEF Queued, Writing, Whole, queueVars

\* The steps of the output loop, and of Start, into the queue.
LEMMA QueuedEnqueue ==
    ASSUME IInv, NEW g \in {"start", "output"}, EnqueueNext(g)
    PROVE  Queued'
<1> USE DEF Goto, Yield, Goroutine, queueVars, resultVars, closeVars
<1>0. /\ pc = [h \in Goroutine |-> pc[h]] /\ Places /\ Queued
      /\ Len(sent) \in Nat /\ Len(message) \in Nat
      /\ Len(outbound) \in Nat /\ produced \in Nat /\ Len(chunk) \in Nat
      /\ DOMAIN outbound = 1 .. Len(outbound)
      /\ DOMAIN message = 1 .. Len(message)
  BY LenProperties DEF IInv, TypeOK
<1>1. Len(<<>>) = 0 /\ DOMAIN <<>> = {}
  OBVIOUS
<1>2. CASE EnqueueOpen(g)
  BY <1>0, <1>2 DEF EnqueueOpen, Places, Loop, Queued, Writing, Whole
<1>3. CASE EnqueueClosed(g)
  <2>1. chunk' = <<>> /\ UNCHANGED <<outbound, message, produced, sent, once>>
    BY <1>3 DEF EnqueueClosed
  <2>2. CASE g = "start"
    <3>1. chunk = <<>>
      BY <1>0, <1>3, <2>2 DEF EnqueueClosed, Places, Loop, Queued
    <3>2. UNCHANGED <<pc["writer"], pc["output"], pc["run"]>>
      BY <1>0, <1>3, <2>2 DEF EnqueueClosed
    <3> QED
      BY <1>0, <2>1, <3>1, <3>2, QueuedKept
  <2>3. CASE g = "output"
    <3>1. /\ pc'["output"] = "send" /\ once # "free"
          /\ UNCHANGED <<pc["writer"], pc["run"]>>
      BY <1>0, <1>3, <2>3 DEF EnqueueClosed, Closed
    <3> QED
      BY <1>0, <1>1, <2>1, <3>1 DEF Queued, Writing, Whole
  <2> QED
    BY <2>2, <2>3
<1>4. CASE EnqueuePush(g)
  <2>1. chunk' = <<>> /\ UNCHANGED <<message, produced, sent, once>>
    BY <1>4 DEF EnqueuePush
  <2>2. /\ Len(outbound') = Len(outbound) + 1
        /\ \A i \in DOMAIN outbound : outbound'[i] = outbound[i]
        /\ outbound'[Len(outbound) + 1] = Enqueued(g)[1]
        /\ DOMAIN outbound' = 1 .. Len(outbound) + 1
    BY <1>4, PushTypes, LenProperties
  <2>3. pc'["output"] = "read"
    BY <1>0, <1>4 DEF EnqueuePush, Loops
  <2>4. /\ pc'["run"] # "idle"
        /\ pc'["writer"] = "write" <=> pc["writer"] = "write"
        /\ Writing' <=> Writing
    BY <1>0, <1>4 DEF EnqueuePush, Loops, Places, Loop, Writing
  <2>5. Writing =>
          /\ Enqueued(g)[1] = Len(sent) + Len(message) + Len(outbound)
          /\ Len(sent) + Len(message) + Len(outbound) = produced'
    <3>1. CASE g = "start"
      <4>1. pc["run"] = "idle" /\ pc["output"] = "idle"
        BY <1>0, <1>4, <3>1 DEF EnqueuePush, Places, Loop
      <4>2. produced = 0 /\ chunk = <<>>
        BY <1>0, <4>1 DEF Queued
      <4>3. Writing => Len(sent) + Len(message) + Len(outbound) = 0
        BY <1>0, <1>1, <4>1, <4>2 DEF Queued, Whole
      <4>4. Enqueued(g)[1] = 0
        BY <3>1 DEF Enqueued
      <4> QED
        BY <2>1, <4>2, <4>3, <4>4
    <3>2. CASE g = "output"
      <4>1. pc["output"] = "push" /\ pc["run"] # "idle"
        BY <1>0, <1>4, <3>2 DEF EnqueuePush, Places, Loop
      <4>2. chunk # <<>> /\ chunk \in Seq(1 .. OutputLimit) /\ Len(chunk) <= 1
        BY <1>0, <4>1 DEF Queued, IInv, TypeOK
      <4>3. Len(chunk) = 1 /\ DOMAIN chunk = {1}
        BY <4>2, OneIsOne, LenProperties
      <4>4. chunk[1] = produced
        BY <1>0, <4>3 DEF Queued
      <4>5. Writing => Len(sent) + Len(message) + Len(outbound) = produced
        BY <1>0, <4>1, <4>3 DEF Queued, Whole
      <4> QED
        BY <2>1, <3>2, <4>4, <4>5 DEF Enqueued
    <3> QED
      BY <3>1, <3>2
  <2>6. Writing' => \A i \in DOMAIN outbound' :
                       outbound'[i] = Len(sent') + Len(message') + i - 1
    <3> SUFFICES ASSUME Writing', NEW i \in DOMAIN outbound'
                 PROVE  outbound'[i] = Len(sent) + Len(message) + i - 1
      BY <2>1
    <3>1. CASE i = Len(outbound) + 1
      BY <1>0, <2>2, <2>4, <2>5, <3>1
    <3>2. CASE i \in DOMAIN outbound
      BY <1>0, <2>2, <2>4, <3>2 DEF Queued
    <3> QED
      BY <1>0, <2>2, <3>1, <3>2
  <2>7. Writing' => Len(sent') + Len(message') + Len(outbound') + Len(chunk')
                       = 1 + produced'
    BY <1>0, <1>1, <2>1, <2>2, <2>4, <2>5
  <2> HIDE DEF queueVars, resultVars, closeVars
  <2> QED
    BY <1>0, <1>1, <2>1, <2>3, <2>4, <2>6, <2>7 DEF Queued
<1>5. CASE EnqueueFull(g)
  <2>1. chunk' = <<>> /\ UNCHANGED <<outbound, message, produced, sent, once>>
    BY <1>5 DEF EnqueueFull
  <2>2. CASE g = "start"
    <3>1. chunk = <<>>
      BY <1>0, <1>5, <2>2 DEF EnqueueFull, Places, Loop, Queued
    <3>2. UNCHANGED <<pc["writer"], pc["output"], pc["run"]>>
      BY <1>0, <1>5, <2>2 DEF EnqueueFull
    <3> QED
      BY <1>0, <2>1, <3>1, <3>2, QueuedKept
  <2>3. CASE g = "output"
    <3>1. /\ pc'["output"] = "close"
          /\ UNCHANGED <<pc["writer"], pc["run"]>>
      BY <1>0, <1>5, <2>3 DEF EnqueueFull
    <3> QED
      BY <1>0, <1>1, <2>1, <3>1 DEF Queued, Writing, Whole
  <2> QED
    BY <2>2, <2>3
<1> QED
  BY <1>2, <1>3, <1>4, <1>5 DEF EnqueueNext

\* The steps of the writer, out of the queue.
LEMMA QueuedWriter ==
    ASSUME IInv, WriterNext
    PROVE  Queued'
<1> USE DEF Goto, Yield, Goroutine, queueVars, closeVars
<1>0. /\ pc = [h \in Goroutine |-> pc[h]] /\ Places /\ Queued /\ Ending
      /\ Len(sent) \in Nat /\ Len(message) \in Nat /\ Len(outbound) \in Nat
      /\ produced \in Nat /\ Len(chunk) \in Nat
      /\ DOMAIN outbound = 1 .. Len(outbound)
      /\ DOMAIN message = 1 .. Len(message)
      /\ DOMAIN sent = 1 .. Len(sent)
      /\ message # <<>> => Len(message) = 1
  BY LenProperties, OneIsOne DEF IInv, TypeOK
<1>1. Len(<<>>) = 0 /\ DOMAIN <<>> = {}
  OBVIOUS
<1>2. CASE WriterStops
  <2>1. /\ pc["writer"] = "select" /\ pc'["writer"] = "done"
        /\ UNCHANGED <<pc["output"], pc["run"]>>
        /\ UNCHANGED <<queueVars, once>>
    BY <1>0, <1>2 DEF WriterStops
  <2> QED
    BY <1>0, <2>1 DEF Queued, Writing, Whole
<1>3. CASE WriterTakes
  <2>1. /\ pc["writer"] = "select" /\ pc'["writer"] = "write"
        /\ UNCHANGED <<pc["output"], pc["run"]>>
        /\ UNCHANGED <<chunk, produced, sent, once>>
    BY <1>0, <1>3 DEF WriterTakes
  <2>2. message = <<>>
    BY <1>0, <2>1 DEF Queued
  <2>3. outbound \in Seq(0 .. OutputLimit) /\ outbound # <<>>
    BY <1>3 DEF WriterTakes, IInv, TypeOK
  <2>4. /\ message' = <<Head(outbound)>> /\ outbound' = Tail(outbound)
    BY <1>3 DEF WriterTakes
  <2>5. /\ Len(message') = 1 /\ message'[1] = outbound[1] /\ message' # <<>>
        /\ DOMAIN message' = {1} /\ 1 \in DOMAIN outbound
        /\ Len(outbound') = Len(outbound) - 1
        /\ \A i \in DOMAIN outbound' :
              /\ outbound'[i] = outbound[i + 1]
              /\ i \in Nat /\ i + 1 \in DOMAIN outbound
    <3>1. /\ message' \in Seq(0 .. OutputLimit) /\ Len(message') = 1
          /\ message'[1] = outbound[1] /\ message' # <<>>
          /\ outbound' \in Seq(0 .. OutputLimit) /\ Len(outbound) \in Nat \ {0}
          /\ Len(outbound') = Len(outbound) - 1
          /\ \A i \in DOMAIN outbound' : outbound'[i] = outbound[i + 1]
      BY <2>3, <2>4, PopOne
    <3>2. /\ DOMAIN message' = 1 .. Len(message')
          /\ DOMAIN outbound' = 1 .. Len(outbound')
      BY <3>1, LenProperties
    <3> QED
      BY <1>0, <3>1, <3>2
  <2>6. /\ message'[1] = Len(sent)
        /\ \A i \in DOMAIN outbound' : outbound'[i] = Len(sent) + 1 + i - 1
    BY <1>0, <1>1, <2>1, <2>2, <2>5 DEF Queued, Writing
  <2>7. Whole' => Len(sent') + Len(message') + Len(outbound') + Len(chunk')
                    = (IF pc'["run"] = "idle" THEN 0 ELSE 1) + produced'
    BY <1>0, <1>1, <2>1, <2>2, <2>5 DEF Queued, Writing, Whole
  <2> QED
    BY <1>0, <2>1, <2>5, <2>6, <2>7 DEF Queued
<1>4. CASE WriterWrites
  <2>1. /\ pc["writer"] = "write" /\ pc'["writer"] = "select"
        /\ UNCHANGED <<pc["output"], pc["run"]>>
        /\ UNCHANGED <<outbound, chunk, produced, once>>
        /\ message' = <<>>
    BY <1>0, <1>4 DEF WriterWrites
  <2>2. Len(message) = 1 /\ DOMAIN message = {1}
    BY <1>0, <2>1 DEF Queued
  <2>3. /\ Len(sent') = Len(sent) + 1 /\ DOMAIN sent' = 1 .. Len(sent) + 1
        /\ \A i \in DOMAIN sent : sent'[i] = sent[i]
        /\ sent'[Len(sent) + 1] = message[1]
    <3>1. /\ sent \in Seq(0 .. OutputLimit) /\ message \in Seq(0 .. OutputLimit)
          /\ sent' = sent \o message
      BY <1>4 DEF WriterWrites, IInv, TypeOK
    <3>2. sent' \in Seq(0 .. OutputLimit) /\ Len(sent') = Len(sent) + 1
      BY <2>2, <3>1, PushOne
    <3> QED
      BY <2>2, <3>1, <3>2, PushOne, LenProperties
  <2>4. message[1] = Len(sent)
    BY <1>0, <2>1, <2>2 DEF Queued, Writing
  <2>5. \A i \in DOMAIN sent' : sent'[i] = i - 1
    BY <1>0, <2>3, <2>4 DEF Queued
  <2>6. /\ \A i \in DOMAIN outbound :
              outbound[i] = Len(sent) + 1 + i - 1
        /\ Whole => Len(sent) + 1 + Len(outbound) + Len(chunk)
                      = (IF pc["run"] = "idle" THEN 0 ELSE 1) + produced
    BY <1>0, <2>1, <2>2 DEF Queued, Writing
  <2> QED
    BY <1>0, <1>1, <2>1, <2>3, <2>5, <2>6 DEF Queued, Writing, Whole
<1>5. CASE WriterFails
  <2>1. /\ pc'["writer"] = "close" /\ message' = <<>>
        /\ UNCHANGED <<pc["output"], pc["run"]>>
        /\ UNCHANGED <<outbound, chunk, produced, sent, once>>
    BY <1>0, <1>5 DEF WriterFails
  <2> QED
    BY <1>0, <2>1 DEF Queued, Writing
<1> QED
  BY <1>2, <1>3, <1>4, <1>5 DEF WriterNext

LEMMA QueuedStep ==
    ASSUME IInv, [Next]_vars
    PROVE  Queued'
<1> USE DEF Goto, Yield, Goroutine, queueVars, resultVars, connVars, closeVars
<1>0. /\ pc = [h \in Goroutine |-> pc[h]] /\ Places /\ Queued /\ Ending
      /\ produced \in Nat
  BY DEF IInv, TypeOK
<1>1. CASE StartRegister \/ StartAbort \/ StartDelete
  BY <1>0, <1>1, QueuedKept DEF StartRegister, StartAbort, StartDelete
<1>2. ASSUME NEW g \in Goroutine, CloseEnter(g) PROVE Queued'
  BY <1>0, <1>2, QueuedKept DEF CloseEnter
<1>3. ASSUME NEW g \in Goroutine, CloseReturn(g) PROVE Queued'
  <2>1. /\ pc' = [pc EXCEPT ![g] = AfterClose(g)] /\ pc[g] = "close"
        /\ UNCHANGED <<queueVars, closeVars>> /\ once = "done"
    BY <1>3 DEF CloseReturn
  <2>2. CASE g = "writer"
    BY <1>0, <2>1, <2>2 DEF AfterClose, Queued, Writing, Whole
  <2>3. CASE g = "output"
    BY <1>0, <2>1, <2>3 DEF AfterClose, Queued, Writing, Whole
  <2>4. CASE g \notin {"writer", "output"}
    BY <1>0, <2>1, <2>4, QueuedKept DEF AfterClose
  <2> QED
    BY <2>2, <2>3, <2>4
<1>4. CASE CloseBody
  <2>1. once' # "free" /\ UNCHANGED <<pc, queueVars>>
    BY <1>4 DEF CloseBody, CloseBrowser, CloseConsole, CloseDelete, CloseFinish
  <2> QED
    BY <1>0, <2>1, QueuedKept
<1>5. CASE CloseAllCalls
  BY <1>0, <1>5, QueuedKept DEF CloseAllCalls
<1>6. CASE OutputReads
  <2>1. /\ pc["output"] = "read" /\ pc'["output"] = "check"
        /\ UNCHANGED <<pc["writer"], pc["run"]>>
        /\ UNCHANGED <<outbound, message, sent, once>>
        /\ produced' = produced + 1 /\ chunk' = <<produced'>>
    BY <1>0, <1>6 DEF OutputReads
  <2>2. chunk = <<>>
    BY <1>0, <2>1 DEF Queued
  <2>3. /\ Len(chunk) = 0 /\ Len(chunk') = 1 /\ chunk' # <<>>
        /\ \A i \in DOMAIN chunk' : chunk'[i] = produced'
    BY <2>1, <2>2
  <2>4. pc["run"] # "idle"
    BY <1>0, <2>1 DEF Places, Loop
  <2>5. Writing => Len(sent) + Len(message) + Len(outbound) + Len(chunk)
                      = 1 + produced
    BY <1>0, <2>1, <2>4 DEF Queued, Whole
  <2>6. Len(sent) \in Nat /\ Len(message) \in Nat /\ Len(outbound) \in Nat
    BY LenProperties DEF IInv, TypeOK
  <2> QED
    BY <1>0, <2>1, <2>2, <2>3, <2>4, <2>5, <2>6 DEF Queued, Writing, Whole
<1>7. ASSUME NEW r \in ConsoleEnd, OutputEnds(r) PROVE Queued'
  <2>1. /\ pc["output"] = "read" /\ pc'["output"] = "send"
        /\ UNCHANGED <<pc["writer"], pc["run"]>> /\ UNCHANGED <<queueVars, once>>
    BY <1>0, <1>7 DEF OutputEnds
  <2> QED
    BY <1>0, <2>1 DEF Queued, Writing, Whole
<1>8. CASE ReaderNext
  BY <1>0, <1>8, QueuedKept DEF ReaderNext, ReadFails, ReadEnding, ReadCommand,
     ApplyCommand, ApplyFails
<1>9. CASE KeepaliveNext
  BY <1>0, <1>9, QueuedKept DEF KeepaliveNext, KeepaliveStops, PingFails
<1>10. CASE RunNext
  BY <1>0, <1>10, QueuedKept DEF RunNext, RunReceives, FlushError, FlushClose,
     RunJoins
<1>11. ASSUME NEW g \in Producer, SendResult(g) PROVE Queued'
  <2>1. /\ pc[g] = "send" /\ pc' = [pc EXCEPT ![g] = "done"]
        /\ UNCHANGED <<queueVars, once>>
    BY <1>11 DEF SendResult
  <2>2. CASE g = "output"
    BY <1>0, <2>1, <2>2 DEF Queued, Writing, Whole
  <2>3. CASE g # "output"
    BY <1>0, <2>1, <2>3, QueuedKept DEF Producer
  <2> QED
    BY <2>2, <2>3
<1>12. CASE BrowserLeaves \/ BrowserVanishes \/ Finished \/ UNCHANGED vars
  BY <1>0, <1>12, QueuedKept DEF BrowserLeaves, BrowserVanishes, Finished, vars
<1> QED
  BY <1>1, <1>2, <1>3, <1>4, <1>5, <1>6, <1>7, <1>8, <1>9, <1>10, <1>11,
     <1>12, QueuedEnqueue, QueuedWriter DEF Next, CloseCall, OutputNext, Producer

-----------------------------------------------------------------------------
(* What the browser is told *)

\* One more message, or the close frame that was announced.
LEMMA TellOne ==
    ASSUME told \in Seq({"error", "close", "frame"} \X EndReason), EndAnnounced,
           NEW kind \in {"error", "close", "frame"}, NEW r \in EndReason,
           told' = Append(told, <<kind, r>>),
           kind = "frame" => /\ r \in HasClose => LastTold(<<"close", r>>)
                             /\ r \in HasError => BeforeTold(<<"error", r>>)
    PROVE  /\ EndAnnounced'
           /\ Len(told') >= 1 /\ told'[Len(told')] = <<kind, r>>
           /\ \A m : LastTold(m) => BeforeTold(m)'
<1>1. /\ Len(told) \in Nat /\ DOMAIN told = 1 .. Len(told)
      /\ Len(told') = Len(told) + 1 /\ DOMAIN told' = 1 .. Len(told) + 1
      /\ \A i \in 1 .. Len(told) : told'[i] = told[i]
      /\ told'[Len(told) + 1] = <<kind, r>>
  BY TellTypes, LenProperties
<1>2. Len(told') >= 1 /\ told'[Len(told')] = <<kind, r>>
  BY <1>1
<1>3. \A m : LastTold(m) => BeforeTold(m)'
  BY <1>1 DEF LastTold, BeforeTold
<1>4. ASSUME NEW i \in DOMAIN told', NEW q \in EndReason,
             told'[i] = <<"frame", q>>
      PROVE  /\ q \in HasClose => i > 1 /\ told'[i - 1] = <<"close", q>>
             /\ q \in HasError => i > 2 /\ told'[i - 2] = <<"error", q>>
  <2>1. CASE i \in DOMAIN told
    <3>1. /\ q \in HasClose => i > 1 /\ told[i - 1] = <<"close", q>>
          /\ q \in HasError => i > 2 /\ told[i - 2] = <<"error", q>>
      BY <1>1, <1>4, <2>1 DEF EndAnnounced
    <3>2. /\ i > 1 => told'[i - 1] = told[i - 1]
          /\ i > 2 => told'[i - 2] = told[i - 2]
      BY <1>1, <2>1
    <3> QED
      BY <3>1, <3>2
  <2>2. CASE i = Len(told) + 1
    <3>1. kind = "frame" /\ r = q
      BY <1>1, <1>4, <2>2
    <3>2. /\ q \in HasClose => Len(told) >= 1 /\ told[Len(told)] = <<"close", q>>
          /\ q \in HasError => Len(told) >= 2 /\ told[Len(told) - 1] = <<"error", q>>
      BY <3>1 DEF LastTold, BeforeTold
    <3> DEFINE n == Len(told)
    <3>3. n \in Nat /\ i = n + 1 /\ \A j \in 1 .. n : told'[j] = told[j]
      BY <1>1, <2>2
    <3>4. /\ q \in HasClose => n >= 1 /\ told[n] = <<"close", q>>
          /\ q \in HasError => n >= 2 /\ told[n - 1] = <<"error", q>>
      BY <3>2
    <3> HIDE DEF n
    <3>5. i - 1 = n /\ i - 2 = n - 1
      BY <3>3
    <3>6. /\ n >= 1 => i > 1 /\ told'[n] = told[n]
          /\ n >= 2 => i > 2 /\ told'[n - 1] = told[n - 1]
      BY <3>3
    <3> QED
      BY <3>4, <3>5, <3>6
  <2> QED
    BY <1>1, <2>1, <2>2
<1> QED
  BY <1>2, <1>3, <1>4 DEF EndAnnounced

\* Steps that tell nothing, and do not move run or the end reason.
LEMMA TellingKept ==
    ASSUME Telling, UNCHANGED <<told, result, endReason>>,
           pc'["run"] = pc["run"], CanWrite' => CanWrite
    PROVE  Telling'
BY DEF Telling, EndAnnounced, LastTold, BeforeTold

\* A step of flush tells its message, unless the write fails.
LEMMA TellingFlush ==
    ASSUME IInv, FlushError \/ FlushClose
    PROVE  Telling'
<1>1. /\ pc = [h \in Goroutine |-> pc[h]]
      /\ told \in Seq({"error", "close", "frame"} \X EndReason)
      /\ Telling
  BY DEF IInv, TypeOK
<1>2. /\ pc["run"] \in {"flushError", "flushClose"}
      /\ UNCHANGED <<result, endReason>>
  BY DEF FlushError, FlushClose, resultVars, closeVars
<1>3. result \in EndReason
  BY <1>2, Reasons DEF IInv, TypeOK, Reporting
<1>4. endReason \notin HasClose
  BY <1>1, <1>2 DEF Telling
<1>5. /\ pc["run"] = "flushError" =>
            pc'["run"] = "flushClose" /\ WriteImmediate(<<"error", result>>)
      /\ pc["run"] = "flushClose" =>
            pc'["run"] = "close" /\ WriteImmediate(<<"close", result>>)
  BY <1>1 DEF FlushError, FlushClose, Goto, Goroutine
<1>6. ASSUME NEW kind \in {"error", "close"}, WriteImmediate(<<kind, result>>)
      PROVE  \/ /\ CanWrite /\ EndAnnounced' /\ LastTold(<<kind, result>>)'
                /\ \A m : LastTold(m) => BeforeTold(m)'
             \/ ~CanWrite' /\ EndAnnounced'
  <2>1. CASE CanWrite /\ told' = Append(told, <<kind, result>>)
    <3>1. EndAnnounced /\ kind \in {"error", "close", "frame"} /\ kind # "frame"
      BY <1>1 DEF Telling
    <3>2. /\ EndAnnounced'
          /\ Len(told') >= 1 /\ told'[Len(told')] = <<kind, result>>
          /\ \A m : LastTold(m) => BeforeTold(m)'
      BY <1>1, <1>3, <2>1, <3>1, TellOne
    <3> QED
      BY <1>2, <2>1, <3>2 DEF LastTold
  <2>2. CASE WriteFails
    BY <1>1, <2>2 DEF WriteFails, CanWrite, Telling, EndAnnounced
  <2> QED
    BY <1>6, <2>1, <2>2 DEF WriteImmediate
<1>7. CASE pc["run"] = "flushError"
  <2>1. \/ EndAnnounced' /\ LastTold(<<"error", result>>)'
        \/ ~CanWrite' /\ EndAnnounced'
    BY <1>5, <1>6, <1>7
  <2> QED
    BY <1>2, <1>4, <1>5, <1>7, <2>1 DEF Telling, LastTold
<1>8. CASE pc["run"] = "flushClose"
  <2>1. \/ /\ CanWrite /\ EndAnnounced' /\ LastTold(<<"close", result>>)'
           /\ \A m : LastTold(m) => BeforeTold(m)'
        \/ ~CanWrite' /\ EndAnnounced'
    BY <1>5, <1>6, <1>8
  <2>2. CanWrite /\ result \in HasError => LastTold(<<"error", result>>)
    BY <1>1, <1>8 DEF Telling
  <2> QED
    BY <1>2, <1>4, <1>5, <1>8, <2>1, <2>2 DEF Telling, LastTold, BeforeTold
<1> QED
  BY <1>2, <1>7, <1>8

\* close sends the frame that run has announced, if run is who has called it.
LEMMA TellingFrame ==
    ASSUME IInv, CloseBrowser
    PROVE  Telling'
<1>1. /\ told \in Seq({"error", "close", "frame"} \X EndReason)
      /\ Telling /\ once = "browser" /\ conn' = "closed"
      /\ UNCHANGED <<pc, result, endReason>>
  BY DEF IInv, TypeOK, CloseBrowser, resultVars
<1>2. EndAnnounced'
  <2>1. CASE told' = told
    BY <1>1, <2>1 DEF Telling, EndAnnounced
  <2>2. CASE CanWrite /\ told' = Append(told, <<"frame", endReason>>)
    <3>1. endReason \in EndReason
      BY <1>1 DEF IInv, TypeOK, Ending
    <3>2. endReason \in HasClose => endReason = result /\ pc["run"] = "close"
      BY <1>1 DEF Telling, IInv, Ending
    <3>3. /\ endReason \in HasClose => LastTold(<<"close", endReason>>)
          /\ endReason \in HasError => BeforeTold(<<"error", endReason>>)
      BY <1>1, <2>2, <3>2, Reasons DEF Telling
    <3> QED
      BY <1>1, <2>2, <3>1, <3>3, TellOne DEF Telling
  <2> QED
    BY <2>1, <2>2 DEF CloseBrowser, CanWrite
<1>3. ~CanWrite'
  BY <1>1 DEF CanWrite
<1> QED
  BY <1>1, <1>2, <1>3 DEF Telling

LEMMA TellingStep ==
    ASSUME IInv, [Next]_vars
    PROVE  Telling'
<1> USE DEF Goto, Yield, Goroutine, queueVars, resultVars, connVars, closeVars
<1>0. /\ pc = [h \in Goroutine |-> pc[h]] /\ Places /\ Telling /\ Ending
      /\ writeErr \in {"none", "closeSent", "failed"}
  BY DEF IInv, TypeOK
<1>1. CASE StartRegister \/ StartAbort \/ StartDelete
  BY <1>0, <1>1, TellingKept DEF StartRegister, StartAbort, StartDelete,
     CanWrite
<1>2. ASSUME NEW g \in {"start", "output"}, EnqueueNext(g) PROVE Telling'
  <2>1. UNCHANGED <<told, result, endReason, conn, writeErr>>
    BY <1>2 DEF EnqueueNext, EnqueueOpen, EnqueueClosed, EnqueuePush,
       EnqueueFull
  <2>2. \/ pc'["run"] = pc["run"]
        \/ pc["run"] = "idle" /\ pc'["run"] = "wait"
    BY <1>0, <1>2 DEF EnqueueNext, EnqueueOpen, EnqueueClosed, EnqueuePush,
       EnqueueFull, Loops, Places, Loop
  <2>3. CASE pc'["run"] = pc["run"]
    BY <1>0, <2>1, <2>3, TellingKept DEF CanWrite
  <2>4. CASE pc["run"] = "idle" /\ pc'["run"] = "wait"
    BY <1>0, <2>1, <2>4 DEF Telling, EndAnnounced
  <2> QED
    BY <2>2, <2>3, <2>4
<1>3. ASSUME NEW g \in Goroutine, CloseEnter(g) PROVE Telling'
  <2>1. /\ UNCHANGED <<pc, told, result, conn, writeErr>>
        /\ endReason' = ReasonOf(g) /\ pc[g] = "close"
    BY <1>3 DEF CloseEnter
  <2>2. ReasonOf(g) \in HasClose => pc["run"] = "close" /\ ReasonOf(g) = result
    BY <2>1, ReasonGiven DEF ReasonOf
  <2> QED
    BY <1>0, <2>1, <2>2 DEF Telling, EndAnnounced, CanWrite, LastTold,
       BeforeTold
<1>4. ASSUME NEW g \in Goroutine, CloseReturn(g) PROVE Telling'
  <2>1. /\ UNCHANGED <<told, result, endReason, conn, writeErr>>
        /\ pc' = [pc EXCEPT ![g] = AfterClose(g)] /\ once = "done"
    BY <1>4 DEF CloseReturn
  <2>2. CASE g = "run"
    <3>1. pc'["run"] = "join"
      BY <1>0, <2>1, <2>2 DEF AfterClose
    <3> QED
      BY <1>0, <2>1, <3>1 DEF Telling, EndAnnounced
  <2>3. CASE g # "run"
    BY <1>0, <2>1, <2>3, TellingKept DEF CanWrite
  <2> QED
    BY <2>2, <2>3
<1>5. CASE CloseConsole \/ CloseDelete \/ CloseFinish
  BY <1>0, <1>5, TellingKept DEF CloseConsole, CloseDelete, CloseFinish,
     CanWrite
<1>6. CASE CloseAllCalls
  BY <1>0, <1>6, TellingKept DEF CloseAllCalls, CanWrite
<1>7. CASE OutputNext
  BY <1>0, <1>7, TellingKept DEF OutputNext, OutputReads, OutputEnds, CanWrite
<1>8. CASE ReaderNext
  BY <1>0, <1>8, TellingKept DEF ReaderNext, ReadFails, ReadEnding, ReadCommand,
     ApplyCommand, ApplyFails, Answers, CanWrite
<1>9. CASE WriterNext
  BY <1>0, <1>9, TellingKept DEF WriterNext, WriterStops, WriterTakes,
     WriterWrites, WriterFails, WriteFails, CanWrite
<1>10. CASE KeepaliveNext
  BY <1>0, <1>10, TellingKept DEF KeepaliveNext, KeepaliveStops, PingFails,
     WriteFails, CanWrite
<1>11. CASE RunReceives
  <2>1. /\ pc["run"] = "wait"
        /\ UNCHANGED <<told, result, endReason, conn, writeErr>>
        /\ pc' = [pc EXCEPT !["run"] =
                     CASE result \in HasError            -> "flushError"
                       [] result \in HasClose \ HasError -> "flushClose"
                       [] OTHER                          -> "close"]
    BY <1>11 DEF RunReceives
  <2>2. /\ result \in HasError => pc'["run"] = "flushError"
        /\ result \in HasClose => pc'["run"] \in {"flushError", "flushClose"}
    BY <1>0, <2>1
  <2>3. endReason \notin HasClose
    BY <1>0, <2>1 DEF Telling
  <2>4. HasError \subseteq HasClose
    BY Reasons
  <2>5. /\ EndAnnounced'
        /\ CanWrite' /\ pc'["run"] = "flushClose" => result' \notin HasError
        /\ CanWrite' /\ pc'["run"] = "close" =>
              result' \notin HasClose /\ result' \notin HasError
    BY <1>0, <2>1, <2>2, <2>4 DEF Telling, EndAnnounced
  <2> QED
    BY <2>1, <2>3, <2>5 DEF Telling
<1>12. CASE RunJoins
  <2>1. /\ pc["run"] = "join" /\ pc'["run"] = "done"
        /\ UNCHANGED <<told, result, endReason, conn, writeErr>>
    BY <1>0, <1>12 DEF RunJoins
  <2> QED
    BY <1>0, <2>1 DEF Telling, EndAnnounced
<1>13. ASSUME NEW g \in Producer, SendResult(g) PROVE Telling'
  <2>1. /\ UNCHANGED <<told, endReason, conn, writeErr>>
        /\ pc'["run"] = pc["run"]
        /\ result' = IF result = NoReason THEN outcome[g] ELSE result
    BY <1>0, <1>13 DEF SendResult, Producer
  <2>2. CASE pc["run"] \in {"idle", "wait"}
    BY <1>0, <2>1, <2>2 DEF Telling, EndAnnounced
  <2>3. CASE pc["run"] \notin {"idle", "wait"}
    <3>1. result' = result
      BY <2>1, <2>3 DEF IInv, Reporting
    <3> QED
      BY <1>0, <2>1, <3>1, TellingKept DEF CanWrite
  <2> QED
    BY <2>2, <2>3
<1>14. CASE BrowserLeaves \/ BrowserVanishes \/ Finished \/ UNCHANGED vars
  BY <1>0, <1>14, TellingKept DEF BrowserLeaves, BrowserVanishes, Finished, vars, CanWrite
<1> QED
  BY <1>1, <1>2, <1>3, <1>4, <1>5, <1>6, <1>7, <1>8, <1>9, <1>10, <1>11,
     <1>12, <1>13, <1>14, TellingFlush, TellingFrame
  DEF Next, CloseCall, CloseBody, RunNext, Producer

-----------------------------------------------------------------------------

LEMMA IInvStep == IInv /\ [Next]_vars => IInv'
BY TypeStep, PlacesStep, EndingStep, ReportingStep, BlamingStep, QueuedStep,
   TellingStep DEF IInv

\* The parts hold together in every state of a session.
THEOREM Invariance == SafeSpec => []IInv
BY IInvInit, IInvStep, PTL DEF SafeSpec

-----------------------------------------------------------------------------
(* The properties *)

\* The variables of a session have their types; in particular the outbound
\* queue never exceeds its depth.
THEOREM TypeCorrect == SafeSpec => []TypeOK
BY Invariance, PTL DEF IInv

\* What the browser gets from the queue is the authorization and then the
\* console's output, in order and without a gap, and nothing is lost on the way
\* while nobody is ending the session.
THEOREM OutputArrives == SafeSpec => []OutputIntact
<1>1. IInv => OutputIntact
  <2> SUFFICES ASSUME IInv PROVE OutputIntact
    OBVIOUS
  <2>1. /\ sent \in Seq(Int) /\ message \in Seq(Int)
        /\ outbound \in Seq(Int) /\ chunk \in Seq(Int)
    <3>1. 0 .. OutputLimit \subseteq Int /\ 1 .. OutputLimit \subseteq Int
      BY OutputLimitAssumption
    <3> QED
      BY <3>1, SeqWider DEF IInv, TypeOK
  <2>2. Len(sent \o message \o outbound \o chunk)
           = Len(sent) + Len(message) + Len(outbound) + Len(chunk)
    BY <2>1, ConcatProperties
  <2>3. ASSUME ~Closed, pc["writer"] # "close", pc["output"] # "close"
        PROVE  Writing /\ Whole
    BY <2>3 DEF Closed, IInv, Places, Ending, Writing, Whole
  <2> QED
    BY <2>2, <2>3 DEF IInv, Queued, OutputIntact
<1> QED
  BY <1>1, Invariance, PTL

\* A close frame with the reason of an end that has a close message comes right
\* after that message, and this one after its error message.  A frame with
\* another reason, such as server_shutdown or slow_client, may follow anything
\* that run has told by then.
THEOREM EndsAnnounced == SafeSpec => []EndAnnounced
BY Invariance, PTL DEF IInv, Telling

\* There is always room for the result of a producer that is about to send.
THEOREM NoProducerBlocks == SafeSpec => []ResultsNeverBlock
<1>1. IInv => ResultsNeverBlock
  BY DEF IInv, TypeOK, Reporting, Returned, ResultsNeverBlock, ResultsCapacity
<1> QED
  BY <1>1, Invariance, PTL

\* Once the reader has answered the closing of the browser, nothing that runs
\* into this answer makes the session end as an internal error.  A ping that
\* fails before the reader has answered does (LeavingIsDisconnect fails).
THEOREM AnsweredCloseBlameless == SafeSpec => []AnsweredCloseIsDisconnect
<1>1. IInv => AnsweredCloseIsDisconnect
  BY DEF IInv, Blaming, AnsweredCloseIsDisconnect
<1> QED
  BY <1>1, Invariance, PTL

\* A session that is over has released its connections and its place.
THEOREM NothingLeft == SafeSpec => []OverLeavesNothing
<1>1. IInv => OverLeavesNothing
  BY DEF IInv, TypeOK, Ending, Over, OverLeavesNothing
<1> QED
  BY <1>1, Invariance, PTL

-----------------------------------------------------------------------------
(* The session implements the abstract pool *)

\* A step that leaves the abstract variables alone.
PoolStutters == UNCHANGED <<registered, endReason>>

\* StartRegister admits the session, the first to enter close decides its end,
\* and who takes it out of the registry first releases it.
LEMMA PoolStep ==
    ASSUME IInv, [Next]_vars
    PROVE  [Pool!Next]_(Pool!vars)
<1> USE DEF queueVars, resultVars, connVars, closeVars
<1>0. PoolStutters => UNCHANGED Pool!vars
  BY DEF PoolStutters, Pool!vars
<1>1. CASE StartRegister
  <2>1. ~registered /\ endReason = NoReason /\ registered' /\ endReason' = endReason
    BY <1>1 DEF StartRegister, IInv, Ending
  <2>2. Pool!Cardinality({}) = 0
    <3>1. Cardinality({}) = 0
      BY FS_EmptySet
    <3>2. Pool!Cardinality({}) = Cardinality({})
      BY DEF Cardinality, Pool!Cardinality
    <3> QED
      BY <3>1, <3>2
  <2>3. [s \in {Self} |-> endReason'] = [s \in {Self} |-> endReason]
    BY <2>1
  <2>4. [s \in {Self} |-> endReason][Self] = ""
    BY <2>1, Zenon DEF NoReason
  <2>5. /\ (IF registered THEN {Self} ELSE {}) = {}
        /\ (IF registered' THEN {Self} ELSE {}) = {Self}
    BY <2>1
  <2>6. /\ Self \notin (IF registered THEN {Self} ELSE {})
        /\ Pool!Cardinality(IF registered THEN {Self} ELSE {}) < 1
    BY <2>2, <2>5
  <2>7. (IF registered' THEN {Self} ELSE {})
           = (IF registered THEN {Self} ELSE {}) \cup {Self}
    BY <2>5
  <2>8. Pool!Admit(Self)
    BY <2>3, <2>4, <2>6, <2>7, Zenon DEF Pool!Admit
  <2> QED
    BY <2>8 DEF Pool!Next
<1>2. ASSUME NEW g \in Goroutine, CloseEnter(g) PROVE Pool!Next
  <2>1. registered /\ endReason = NoReason /\ registered' = registered
        /\ endReason' = ReasonOf(g) /\ ReasonOf(g) \in EndReason
    BY <1>2, ReasonGiven DEF CloseEnter, IInv, Ending
  <2>2. Pool!Decide(Self, ReasonOf(g))
    BY <2>1 DEF Pool!Decide, NoReason
  <2> QED
    BY <2>1, <2>2 DEF Pool!Next
<1>3. CASE StartDelete \/ CloseDelete
  <2>1. endReason # NoReason /\ endReason' = endReason /\ ~registered'
    BY <1>3 DEF StartDelete, CloseDelete, IInv, Ending
  <2>2. CASE registered
    <3>1. Pool!Release(Self)
      BY <2>1, <2>2 DEF Pool!Release, NoReason
    <3> QED
      BY <3>1 DEF Pool!Next
  <2>3. CASE ~registered
    BY <1>0, <2>1, <2>3 DEF Pool!vars
  <2> QED
    BY <2>2, <2>3
<1>4. ASSUME StartAbort \/ CloseAllCalls PROVE PoolStutters
  BY <1>4 DEF PoolStutters, StartAbort, CloseAllCalls
<1>5. ASSUME NEW g \in {"start", "output"}, EnqueueNext(g) PROVE PoolStutters
  BY <1>5 DEF PoolStutters, EnqueueNext, EnqueueOpen, EnqueueClosed,
     EnqueuePush, EnqueueFull
<1>6. ASSUME NEW g \in Goroutine, CloseReturn(g) PROVE PoolStutters
  BY <1>6 DEF PoolStutters, CloseReturn
<1>7. ASSUME CloseBrowser \/ CloseConsole \/ CloseFinish PROVE PoolStutters
  BY <1>7 DEF PoolStutters, CloseBrowser, CloseConsole, CloseFinish
<1>8. ASSUME OutputNext \/ ReaderNext PROVE PoolStutters
  BY <1>8 DEF PoolStutters, OutputNext, OutputReads, OutputEnds, ReaderNext,
     ReadFails, ReadEnding, ReadCommand, ApplyCommand, ApplyFails
<1>9. ASSUME WriterNext \/ KeepaliveNext \/ RunNext PROVE PoolStutters
  BY <1>9 DEF PoolStutters, WriterNext, WriterStops, WriterTakes,
     WriterWrites, WriterFails, KeepaliveNext, KeepaliveStops, PingFails,
     RunNext, RunReceives, FlushError, FlushClose, RunJoins
<1>10. ASSUME NEW g \in Producer, SendResult(g) PROVE PoolStutters
  BY <1>10 DEF PoolStutters, SendResult
<1>11. ASSUME BrowserLeaves \/ BrowserVanishes \/ Finished \/ UNCHANGED vars
       PROVE  PoolStutters
  BY <1>11 DEF PoolStutters, BrowserLeaves, BrowserVanishes, Finished, vars
<1> QED
  BY <1>0, <1>1, <1>2, <1>3, <1>4, <1>5, <1>6, <1>7, <1>8, <1>9, <1>10,
     <1>11 DEF Next, CloseCall, CloseBody, Producer

\* Whatever its goroutines do, a session is admitted once, gets one end reason
\* that never changes, and is released only after that.
THEOREM Refinement == SafeSpec => Pool!SafeSpec
<1>1. Init => Pool!Init
  BY DEF Init, Pool!Init, NoReason
<1> QED
  BY <1>1, PoolStep, Invariance, PTL DEF SafeSpec, Pool!SafeSpec

=============================================================================
