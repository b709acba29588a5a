------------------------------ MODULE Registry ------------------------------
(***************************************************************************)
(* The session registry of the gateway (internal/session/manager.go) and   *)
(* the server's shutdown sequence that empties it (internal/httpserver/    *)
(* server.go, ListenAndServe).                                             *)
(*                                                                         *)
(* Each element of Session is one browser connection.  Its goroutine calls *)
(* Registry.Start; a Start that succeeds leaves goroutines behind that end *)
(* the session by calling Session.close.  The main goroutine serves until  *)
(* a signal arrives, then runs CloseAll, shuts the HTTP server down and    *)
(* leaves the process.  What the loops of a running session do before they *)
(* call close is the subject of module Session; here any of them may end   *)
(* the session at any time, with any reason of LoopReason.                 *)
(***************************************************************************)
EXTENDS Naturals, FiniteSets, Sequences, EndReasons

CONSTANTS Session,        \* browser connections; also the ids of sessions
          MaxConcurrent,  \* RegistryConfig.MaxConcurrent
          LoopReason      \* the loop end reasons told apart in an instance

ASSUME SessionAssumption == IsFiniteSet(Session)

\* NewRegistry replaces a limit that is not positive by its default.
ASSUME MaxConcurrentAssumption == MaxConcurrent \in Nat \ {0}

ASSUME LoopReasonAssumption == LoopReason \subseteq LoopEndReason

VARIABLES
    start,      \* where the connection's goroutine is in Registry.Start
    sessions,   \* Registry.sessions, as the set of its keys
    state,      \* Session.state, "none" before the session is registered
    endReason,  \* Session.endReason, "" until it is set
    once,       \* how far the one execution of close's body has come
    console,    \* the ssh session: "none", "open" or "closed"
    browser,    \* the websocket connection: "open" or "closed"
    audit,      \* the audit events recorded about each connection, in order
    server,     \* where the main goroutine is in ListenAndServe
    snapshot,   \* CloseAll's copy of the registry
    pending,    \* the sessions of that copy CloseAll has yet to close
    current     \* the set holding the session CloseAll is inside close of

startVars   == <<start>>
closeVars   == <<state, endReason, once>>
serverVars  == <<server, snapshot, pending, current>>
vars == <<start, sessions, state, endReason, once, console, browser, audit,
          server, snapshot, pending, current>>

StartStep ==
    { "idle", "open", "opened", "registered", "audited", "abort",
      "running", "limit", "failed", "refused" }

CloseStep ==
    { "free", "browser", "console", "delete", "state", "audit", "done" }

AuditEvent == {"session_started", "session_ended", "session_rejected"}

TypeOK ==
    /\ start \in [Session -> StartStep]
    /\ sessions \subseteq Session
    /\ state \in [Session -> {"none", "active", "closing", "closed"}]
    /\ endReason \in [Session -> EndReason \cup {""}]
    /\ once \in [Session -> CloseStep]
    /\ console \in [Session -> {"none", "open", "closed"}]
    /\ browser \in [Session -> {"open", "closed"}]
    /\ audit \in [Session -> Seq(AuditEvent)]
    /\ server \in {"serving", "closing", "draining", "stopped", "failed"}
    /\ snapshot \subseteq Session
    /\ pending \subseteq snapshot
    /\ current \subseteq pending

Init ==
    /\ start = [s \in Session |-> "idle"]
    /\ sessions = {}
    /\ state = [s \in Session |-> "none"]
    /\ endReason = [s \in Session |-> ""]
    /\ once = [s \in Session |-> "free"]
    /\ console = [s \in Session |-> "none"]
    /\ browser = [s \in Session |-> "open"]
    /\ audit = [s \in Session |-> <<>>]
    /\ server = "serving"
    /\ snapshot = {}
    /\ pending = {}
    /\ current = {}

\* The process has not exited: goroutines take steps only while it runs.
Alive == server \notin {"stopped", "failed"}

isAtCapacityLocked == Cardinality(sessions) >= MaxConcurrent

Record(s, event) == audit' = [audit EXCEPT ![s] = Append(@, event)]

-----------------------------------------------------------------------------
(* Registry.Start, run by the goroutine of connection s. *)

\* The early check: no console is opened for a registry that is full.
StartAtCapacity(s) ==
    /\ Alive
    /\ start[s] = "idle"
    /\ isAtCapacityLocked
    /\ Record(s, "session_rejected")
    /\ start' = [start EXCEPT ![s] = "limit"]
    /\ UNCHANGED <<sessions, closeVars, console, browser, serverVars>>

StartBelowCapacity(s) ==
    /\ Alive
    /\ start[s] = "idle"
    /\ ~isAtCapacityLocked
    /\ start' = [start EXCEPT ![s] = "open"]
    /\ UNCHANGED <<sessions, closeVars, console, browser, audit, serverVars>>

\* Bridge.Open dials and starts a shell; the lock is not held meanwhile.
OpenConsole(s) ==
    /\ Alive
    /\ start[s] = "open"
    /\ console' = [console EXCEPT ![s] = "open"]
    /\ start' = [start EXCEPT ![s] = "opened"]
    /\ UNCHANGED <<sessions, closeVars, browser, audit, serverVars>>

OpenFails(s) ==
    /\ Alive
    /\ start[s] = "open"
    /\ start' = [start EXCEPT ![s] = "failed"]
    /\ UNCHANGED <<sessions, closeVars, console, browser, audit, serverVars>>

\* ConfigureKeepalive fails and the fresh console is closed again.
KeepaliveFails(s) ==
    /\ Alive
    /\ start[s] = "opened"
    /\ console' = [console EXCEPT ![s] = "closed"]
    /\ start' = [start EXCEPT ![s] = "failed"]
    /\ UNCHANGED <<sessions, closeVars, browser, audit, serverVars>>

\* Slip: the limit checked before the dial is trusted after it.
RegisterUnchecked(s) ==
    /\ Alive
    /\ start[s] = "opened"
    /\ sessions' = sessions \cup {s}
    /\ state' = [state EXCEPT ![s] = "active"]
    /\ start' = [start EXCEPT ![s] = "registered"]
    /\ UNCHANGED <<endReason, once, console, browser, audit, serverVars>>

\* ConfigureKeepalive succeeds; the limit is checked again, now under the
\* lock that also covers the insertion.
Register(s) ==
    /\ Alive
    /\ start[s] = "opened"
    /\ ~isAtCapacityLocked
    /\ sessions' = sessions \cup {s}
    /\ state' = [state EXCEPT ![s] = "active"]
    /\ start' = [start EXCEPT ![s] = "registered"]
    /\ UNCHANGED <<endReason, once, console, browser, audit, serverVars>>

\* Slip: the late refusal forgets the console it has already opened.
RegisterAtCapacityLeaks(s) ==
    /\ Alive
    /\ start[s] = "opened"
    /\ isAtCapacityLocked
    /\ Record(s, "session_rejected")
    /\ start' = [start EXCEPT ![s] = "limit"]
    /\ UNCHANGED <<sessions, closeVars, console, browser, serverVars>>

RegisterAtCapacity(s) ==
    /\ Alive
    /\ start[s] = "opened"
    /\ isAtCapacityLocked
    /\ console' = [console EXCEPT ![s] = "closed"]
    /\ Record(s, "session_rejected")
    /\ start' = [start EXCEPT ![s] = "limit"]
    /\ UNCHANGED <<sessions, closeVars, browser, serverVars>>

\* logStart and the session_started audit event, after the lock is released.
AuditStart(s) ==
    /\ Alive
    /\ start[s] = "registered"
    /\ Record(s, "session_started")
    /\ start' = [start EXCEPT ![s] = "audited"]
    /\ UNCHANGED <<sessions, closeVars, console, browser, serverVars>>

\* The initial message goes into the empty outbound queue and the loops start.
EnqueueInitial(s) ==
    /\ Alive
    /\ start[s] = "audited"
    /\ once[s] = "free"
    /\ start' = [start EXCEPT ![s] = "running"]
    /\ UNCHANGED <<sessions, closeVars, console, browser, audit, serverVars>>

\* Slip: Start also audits the end of the session it gives up.
EnqueueOnClosedAudits(s) ==
    /\ Alive
    /\ start[s] = "audited"
    /\ once[s] # "free"
    /\ console' = [console EXCEPT ![s] = "closed"]
    /\ Record(s, "session_ended")
    /\ start' = [start EXCEPT ![s] = "abort"]
    /\ UNCHANGED <<sessions, closeVars, browser, serverVars>>

\* Enqueue finds the closed channel closed: Start undoes what it did.
EnqueueOnClosed(s) ==
    /\ Alive
    /\ start[s] = "audited"
    /\ once[s] # "free"
    /\ console' = [console EXCEPT ![s] = "closed"]
    /\ start' = [start EXCEPT ![s] = "abort"]
    /\ UNCHANGED <<sessions, closeVars, browser, audit, serverVars>>

AbortStart(s) ==
    /\ Alive
    /\ start[s] = "abort"
    /\ sessions' = sessions \ {s}
    /\ start' = [start EXCEPT ![s] = "failed"]
    /\ UNCHANGED <<closeVars, console, browser, audit, serverVars>>

\* handleBrowserSocket refuses the browser, before it calls Start or because
\* Start failed: it tells the browser why and closes the connection.
Refuse(s) ==
    /\ Alive
    /\ start[s] \in {"idle", "limit", "failed"}
    /\ browser' = [browser EXCEPT ![s] = "closed"]
    /\ start' = [start EXCEPT ![s] = "refused"]
    /\ UNCHANGED <<sessions, closeVars, console, audit, serverVars>>

-----------------------------------------------------------------------------
(* Session.close: the body runs once, whoever calls first.  Later callers  *)
(* wait until it is done.                                                  *)

\* Slip: a flag checked instead of a Once lets a second caller in.
CloseEnterTwice(s, r) ==
    /\ once[s] # "done"
    /\ state' = [state EXCEPT ![s] = "closing"]
    /\ endReason' = [endReason EXCEPT ![s] = r]
    /\ once' = [once EXCEPT ![s] = "browser"]

\* The caller that wins the Once fixes the reason and closes the channel.
CloseEnter(s, r) ==
    /\ once[s] = "free"
    /\ state' = [state EXCEPT ![s] = "closing"]
    /\ endReason' = [endReason EXCEPT ![s] = r]
    /\ once' = [once EXCEPT ![s] = "browser"]

\* A loop of a running session ends it.
LoopEnds(s, r) ==
    /\ Alive
    /\ start[s] = "running"
    /\ CloseEnter(s, r)
    /\ UNCHANGED <<start, sessions, console, browser, audit, serverVars>>

CloseBrowser(s) ==
    /\ Alive
    /\ once[s] = "browser"
    /\ browser' = [browser EXCEPT ![s] = "closed"]
    /\ once' = [once EXCEPT ![s] = "console"]
    /\ UNCHANGED <<start, sessions, state, endReason, console, audit,
                   serverVars>>

\* Slip: a console that cannot be closed any more skips the deletion too.
CloseConsoleReturnsEarly(s) ==
    /\ Alive
    /\ once[s] = "console"
    /\ console' = [console EXCEPT ![s] = "closed"]
    /\ once' = [once EXCEPT ![s] =
                   IF console[s] = "closed" THEN "state" ELSE "delete"]
    /\ UNCHANGED <<start, sessions, state, endReason, browser, audit,
                   serverVars>>

CloseConsole(s) ==
    /\ Alive
    /\ once[s] = "console"
    /\ console' = [console EXCEPT ![s] = "closed"]
    /\ once' = [once EXCEPT ![s] = "delete"]
    /\ UNCHANGED <<start, sessions, state, endReason, browser, audit,
                   serverVars>>

CloseDelete(s) ==
    /\ Alive
    /\ once[s] = "delete"
    /\ sessions' = sessions \ {s}
    /\ once' = [once EXCEPT ![s] = "state"]
    /\ UNCHANGED <<start, state, endReason, console, browser, audit,
                   serverVars>>

CloseState(s) ==
    /\ Alive
    /\ once[s] = "state"
    /\ state' = [state EXCEPT ![s] = "closed"]
    /\ once' = [once EXCEPT ![s] = "audit"]
    /\ UNCHANGED <<start, sessions, endReason, console, browser, audit,
                   serverVars>>

\* logEnd and the session_ended audit event; no cleanup hook is installed.
CloseAudit(s) ==
    /\ Alive
    /\ once[s] = "audit"
    /\ Record(s, "session_ended")
    /\ once' = [once EXCEPT ![s] = "done"]
    /\ UNCHANGED <<start, sessions, state, endReason, console, browser,
                   serverVars>>

CloseBody(s) ==
    \/ CloseBrowser(s)
    \/ CloseConsole(s)
    \/ CloseDelete(s)
    \/ CloseState(s)
    \/ CloseAudit(s)

-----------------------------------------------------------------------------
(* ListenAndServe and CloseAll, run by the main goroutine. *)

\* The listener fails: the error is returned and the process exits.
ListenFails ==
    /\ server = "serving"
    /\ server' = "failed"
    /\ UNCHANGED <<startVars, sessions, closeVars, console, browser, audit,
                   snapshot, pending, current>>

\* The signal context is done; CloseAll copies the registry under the lock.
CloseAllSnapshot ==
    /\ server = "serving"
    /\ server' = "closing"
    /\ snapshot' = sessions
    /\ pending' = sessions
    /\ UNCHANGED <<startVars, sessions, closeVars, console, browser, audit,
                   current>>

\* CloseAll calls close on one session of its copy: it wins the Once ...
CloseAllCloses(s) ==
    /\ server = "closing"
    /\ current = {}
    /\ s \in pending
    /\ CloseEnter(s, "server_shutdown")
    /\ current' = {s}
    /\ UNCHANGED <<startVars, sessions, console, browser, audit, server,
                   snapshot, pending>>

\* Slip: a session another caller is closing is skipped.
CloseAllSkips(s) ==
    /\ server = "closing"
    /\ current = {}
    /\ s \in pending
    /\ once[s] # "free"
    /\ pending' = pending \ {s}
    /\ UNCHANGED <<startVars, sessions, closeVars, console, browser, audit,
                   server, snapshot, current>>

\* ... or another caller has, and it waits for that one.
CloseAllJoins(s) ==
    /\ server = "closing"
    /\ current = {}
    /\ s \in pending
    /\ once[s] # "free"
    /\ current' = {s}
    /\ UNCHANGED <<startVars, sessions, closeVars, console, browser, audit,
                   server, snapshot, pending>>

\* Slip: the loop goes on with the session it has just closed.
CloseAllNextKeeps(s) ==
    /\ server = "closing"
    /\ current = {s}
    /\ once[s] = "done"
    /\ pending' = pending \ {s}
    /\ UNCHANGED <<startVars, sessions, closeVars, console, browser, audit,
                   server, snapshot, current>>

CloseAllNext(s) ==
    /\ server = "closing"
    /\ current = {s}
    /\ once[s] = "done"
    /\ current' = {}
    /\ pending' = pending \ {s}
    /\ UNCHANGED <<startVars, sessions, closeVars, console, browser, audit,
                   server, snapshot>>

\* Slip: CloseAll waits for the registry to run empty.
CloseAllWaitsForEmpty ==
    /\ server = "closing"
    /\ pending = {}
    /\ sessions = {}
    /\ server' = "draining"
    /\ UNCHANGED <<startVars, sessions, closeVars, console, browser, audit,
                   snapshot, pending, current>>

\* CloseAll returns and the HTTP server stops accepting connections.  It does
\* not wait for upgraded connections, whose goroutines go on meanwhile.
CloseAllReturns ==
    /\ server = "closing"
    /\ pending = {}
    /\ server' = "draining"
    /\ UNCHANGED <<startVars, sessions, closeVars, console, browser, audit,
                   snapshot, pending, current>>

\* Shutdown returns, run returns, the process exits.
Exit ==
    /\ server = "draining"
    /\ server' = "stopped"
    /\ UNCHANGED <<startVars, sessions, closeVars, console, browser, audit,
                   snapshot, pending, current>>

\* Nothing happens once the process has exited.
Exited ==
    /\ ~Alive
    /\ UNCHANGED vars

-----------------------------------------------------------------------------

StartNext(s) ==
    \/ StartAtCapacity(s)
    \/ StartBelowCapacity(s)
    \/ OpenConsole(s)
    \/ OpenFails(s)
    \/ KeepaliveFails(s)
    \/ Register(s)
    \/ RegisterAtCapacity(s)
    \/ AuditStart(s)
    \/ EnqueueInitial(s)
    \/ EnqueueOnClosed(s)
    \/ AbortStart(s)
    \/ Refuse(s)

CloseAllNextStep ==
    \/ \E s \in Session :
          \/ CloseAllCloses(s)
          \/ CloseAllJoins(s)
          \/ CloseAllNext(s)
    \/ CloseAllReturns

Next ==
    \/ \E s \in Session :
          \/ StartNext(s)
          \/ \E r \in LoopReason : LoopEnds(s, r)
          \/ CloseBody(s)
    \/ ListenFails
    \/ CloseAllSnapshot
    \/ CloseAllNextStep
    \/ Exit
    \/ Exited

SafeSpec == Init /\ [][Next]_vars

\* Runnable goroutines are scheduled.  Nothing makes a browser connect, a
\* session end, a signal arrive or the listener fail, and Bridge.Open may
\* hang: the ssh handshake it waits for has no timeout.
Fairness ==
    /\ \A s \in Session :
          /\ WF_vars(start[s] \notin {"idle", "open"} /\ StartNext(s))
          /\ WF_vars(CloseBody(s))
    /\ WF_vars(CloseAllNextStep)
    /\ WF_vars(Exit)

Spec == SafeSpec /\ Fairness

-----------------------------------------------------------------------------
(* Properties *)

\* The limit holds at every moment, although it is first checked before the
\* slow dial in Start and several Starts may pass that check together.
CapacityRespected == Cardinality(sessions) <= MaxConcurrent

\* An open ssh session always has an owner who will close it: the Start that
\* has just opened it, or the registry, where CloseAll finds it.  In
\* particular a Start that returned an error has left none behind.
ConsoleOwned ==
    \A s \in Session :
        /\ console[s] = "open" => start[s] = "opened" \/ s \in sessions
        /\ start[s] \in {"limit", "failed", "refused"} =>
              console[s] # "open" /\ s \notin sessions

\* A session nobody has begun to close is in the registry, a closed one is not,
\* and one that has left early (Start gave it up while CloseAll was inside
\* close) has a browser that is closed or is the next thing close closes.
RegistryTracksSessions ==
    \A s \in Session :
        /\ state[s] = "active" => s \in sessions
        /\ state[s] = "closed" => s \notin sessions
        /\ state[s] # "none" /\ s \notin sessions =>
              browser[s] = "closed" \/ once[s] = "browser"

Occurs(e, seq) == \E i \in DOMAIN seq : seq[i] = e

\* The audit trail of a connection: no event twice, a rejection excludes a
\* session, the end follows the start unless the server was shutting down,
\* and when Start and close are both through, both events are there.
AuditTrail ==
    \A s \in Session :
        /\ \A i, j \in DOMAIN audit[s] :
              audit[s][i] = audit[s][j] => i = j
        /\ Occurs("session_rejected", audit[s]) =>
              Len(audit[s]) = 1 /\ state[s] = "none"
        /\ audit[s] # <<>> /\ audit[s][1] = "session_ended" =>
              endReason[s] = "server_shutdown"
        /\ once[s] = "done" /\ start[s] \notin {"registered"} =>
              /\ Occurs("session_started", audit[s])
              /\ Occurs("session_ended", audit[s])

\* When CloseAll has returned, every session it found has been closed to the
\* last step, also the ones another goroutine was closing at the time.
ShutdownClosesSnapshot ==
    server \in {"draining", "stopped"} =>
        \A s \in snapshot :
            /\ once[s] = "done"
            /\ s \notin sessions
            /\ console[s] = "closed"
            /\ browser[s] = "closed"

\* The first caller of close decides the end reason for good.
EndReasonStable ==
    [][\A s \in Session :
          endReason[s] # "" => endReason'[s] = endReason[s]]_endReason

\* A shutdown that begins ends with the exit of the process, whatever
\* browsers connect and sessions end meanwhile.
ShutdownTerminates == (server = "closing") ~> (server = "stopped")

Pool == INSTANCE SessionPool
            WITH Reason <- EndReason, up <- Alive, live <- sessions,
                 verdict <- endReason

\* The registry implements the abstract pool, its liveness included.
ImplementsPool == Pool!Spec

\* What the gateway's plan asks of a shutdown: no session outlives it.
ShutdownLeavesNoSession == server = "stopped" => sessions = {}

=============================================================================
