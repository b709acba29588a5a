# Verification of the service channel gateway

This directory holds TLA+ specifications of the gateway in this repository,
the TLC configurations that check them on small instances, and proofs checked
by TLAPS. Every definition is translated from the Go source; `PROJECT.json`
maps each one to the lines it models.

## The system

The gateway connects a browser terminal (websocket) to a shell on a remote
console (ssh). A browser opens `/gateway/terminal`, sends an `authorize`
message with a grant token, the gateway has the token validated by a backend,
opens an ssh session to the address the backend returns, and relays input and
output until one side ends.

| Component | Source | State | Operations | Model |
|---|---|---|---|---|
| Session registry | `internal/session/manager.go` | map of sessions, limit | `Start`, `CloseAll`, capacity checks | `Registry` |
| Session | `internal/session/manager.go` | state, end reason, queue, closed channel, Once | `run`, `readLoop`, `outputLoop`, `writeLoop`, `keepaliveLoop`, `Enqueue`, `close` | `Session` (one session), `Registry` (its `close`) |
| Browser handshake | `internal/httpserver/server.go` | none of its own: a goroutine per connection | `handleBrowserSocket`, `writeWebSocketFailure` | `Gateway` |
| Server life cycle | `server.go`, `cmd/gateway/main.go` | signal context | start-up, `ListenAndServe` | `Config`, `Registry` |
| SSH bridge | `internal/sshbridge/client.go` | TCP connection, ssh client and channel, pipe, Once | `Open`, `Read`, `Write`, `Resize`, `Close` | `RemoteSession` |
| Websocket connection | `internal/websocket/conn.go` | write mutex, deadlines, gorilla's sticky write error | `ReadMessage`, `WriteMessage`, `WritePing`, `Close`, `ConfigureKeepalive` | in `Session`, `Gateway` and `Keepalive` |
| Websocket protocol | `internal/websocket/protocol.go` | none | `ParseClientMessage` | `Protocol` |
| Grant validation | `internal/grants/client.go` | none | `ValidateToken` | `Grants` |
| Configuration | `internal/config/config.go` | none once loaded | `loadVars`, `Resolve`, `Validate` | `Config` |
| Audit log | `internal/audit/logger.go` | none | `Record` | events and their order, in `Registry` |
| Health endpoints, packaging | `server.go`, `packaging/`, `deploy/` | none | | not modelled |

How they interact:

* The HTTP server starts one goroutine per upgraded connection. It reads the
  first message with a deadline, calls the backend, then `Registry.Start`.
* `Start` checks the limit, dials the console without holding a lock, checks
  the limit again under the lock and inserts the session, audits, queues the
  `authorized` message and starts `run`.
* `run` starts a reader (browser to console), an output loop (console to
  queue), a writer (queue to browser) and a keepalive loop (pings). Reader,
  output and keepalive loop report how they ended on a channel; `run` takes the
  first report, tells the browser, closes the session and waits for the writer.
* Anyone may call `Session.close`; its body runs under a Once. It closes the
  closed channel, the websocket, the ssh session, deletes the session from the
  registry and audits. Callers that come later wait for it.
* At start-up the settings of a file and of the environment become one
  configuration, whose times and limits govern the sessions.
* On a signal the main goroutine runs `CloseAll` over a copy of the registry,
  then `http.Server.Shutdown`, then the process exits.

What makes it hard: any number of `Start`s pass the first check together;
`CloseAll` runs against a `Start` at every point of it; several goroutines
close one session with different reasons; the writer, `flush`, `close` and
gorilla's automatic close frames all write to one connection; goroutines block
in a pipe, in a queue, in a socket or in the ssh window, and everybody must
get out; the one read deadline is extended by pongs that may wait behind input
the console is slow to take. `PROJECT.json` lists these hazards with their lines.

What makes each component correct:

* registry: the limit, one owner for every ssh session, a consistent audit
  trail, a shutdown that closes what it found and ends;
* session: output in order and whole, an end that is announced consistently
  and decided once, no goroutine left behind;
* handshake: no console without an accepted grant, one consistent refusal that
  blames the right party, and no connection stuck before the dial;
* configuration: what the user said last is what the gateway runs with, what is
  accepted suits the other components, and a failed start names a real fault;
* keepalive: a browser that answers stays, one that does not goes in time, as
  far as the console lets the reader go on;
* ssh bridge: no connection left by a failed `Open`, `Close` complete for every
  caller and waking everybody, the remote end seen.

## The modules

```
EndReasons      the end reasons
SessionPool     abstract: a bounded pool of sessions, ended once
Registry        registry + shutdown, all connections      => SessionPool
Protocol        what a message of the browser is (operators)
Grants          what an answer of the backend means (operators)
Gateway         handshake of each connection, on Registry,
                Protocol and Grants                       => Registry
Session         the goroutines of one session, on
                Protocol                                  => SessionPool
RemoteSession   the ssh session behind it
Config          the settings, from file and environment
Keepalive       the read deadline in time, on Config
RegistryProofs       theorems about Registry
GatewayProofs        theorems about Gateway
SessionProofs        theorems about Session
RemoteSessionProofs  theorems about RemoteSession
ConfigProofs         theorems about Config, as a part of Keepalive
KeepaliveProofs      theorems about Keepalive, on ConfigProofs
MC*                  instances for TLC
```

**SessionPool** is what the gateway promises about sessions: at most
`MaxConcurrent` at a time, each admitted once, its end decided once, leaving
only after that decision, and leaving eventually unless the process exits.
`Registry` implements it with `live` = the registry's keys, `verdict` = the end
reasons, `up` = the process runs; `Session` implements it for one session.

**Registry.** The variables follow the code: `sessions`, `state`, `endReason`;
`start` is the program counter of the goroutine in `Start`, `once` that of the
body of `close`, `server` that of `ListenAndServe`, with `snapshot`, `pending`
and `current` the local variables of `CloseAll`. `console`, `browser` and
`audit` are the resources a connection holds and leaves. One action is one
critical section or one call out of the package. `Start`'s three argument
checks cannot fail from the handler and are left out. A running session may end
with any loop reason at any time here; why it does is the subject of `Session`.

**Protocol** and **Grants** are pure: `ParseClientMessage` maps a `Frame` to its
type or to the code of a `ProtocolError`, `ValidateToken` maps a `Response` to
validated or to the kind and code of its error. A frame is a record of what the
code tells apart: binary or text, one JSON object or not, its `type`, whether it
has exactly the fields of that type, and whether the field that counts is
empty, blank or too long for a close frame: a blank token is refused, while
white space is input like any other and only input without a byte is skipped.
A response has an outcome (unreachable, cut off, answered), a status from 100 to
599 and what its JSON holds. The assumptions of `Gateway` and `Session` only ask
that the messages and answers of an instance are such records; the instances
have one for each way the code can take.

**Gateway** extends `Registry` with the handler of each connection
(`handshake`), what it has read from the browser and from the backend (`heard`,
`answer`), and what it will say (`refusal`, by `classifyGrantError`,
`classifyGrantClose` and their like). It adds what the browser is told (`told`): the error message, the
close message and the close frame are three steps, so that `CloseAll` can close
the connection between them. `mute` stands for gorilla's sticky write error.
The registry's steps appear as `StartSteps`, `SessionSteps`, `SessionHangsUp`
and `ServerSteps`; that every step of `Gateway` is a step of `Registry` or
leaves its variables alone is the checked refinement `ImplementsRegistry`.

**Session** takes a session from its registration to the return of its last
goroutine. `pc` has an entry for each goroutine: `start`, `run`, `reader`,
`output`, `writer`, `keepalive`, and `closeall` for a shutdown at any time.
`outbound`, `results`, the closed channel and the Once are the shared objects.
`WriteMessage`, `WritePing` and `Close` hold the connection's write mutex
throughout and are one step each; `writeErr` is gorilla's sticky write error,
with the case that a close frame has been sent (a write then fails as "peer
closed"). What the browser sends is a `Frame` and goes through
`ParseClientMessage`. `Enqueue` is two steps, because it tests the closed channel before it
touches the queue. The deadlines are not timed: `ReadMessage` may time out at
any time, which covers every value of the settings. `peer` is the browser: it is
there, has left (the reader will find a closing) or has vanished (it will find
nothing until the deadline). A ping may fail before the reader comes to either.

**RemoteSession** has `Open` stage by stage, the pipe into which the ssh
library copies stdout and stderr, and `Close` step by step with two callers.
When one of five stages fails, its branch sets the list of what *it* closes
(`undo`), and `CleanUp` closes one entry after the other while the host and the
network go on; a branch without an entry, or a clean-up that stops at an error,
would leave the connection open.
The library's copiers, its multiplexer, the host and the network are actions of
the environment, marked external in the map.

**Config** reads a file line by line, overlays the environment, resolves and
validates. A value is a number or one of `Blank` and `Malformed`; the 17 settings
and the old name of one of them are told apart, and the orders in which they are
parsed and checked are those of the code. `Configured` is what `NewRegistry` and
`NewUpgrader` make of the result, which have defaults of their own.

**Keepalive** goes on from there: a session starts with the times of whatever
configuration was accepted. Time is discrete and passes for everybody at once
(`Tick`), only when nobody has anything to do at this moment (`Idle`): a ping is
sent when it is due, a pong arrives after at most `RoundTrip`. A write to the
console has no deadline and may take any time, or never return; `ConsoleDelay` is
only the time from which the console counts as slow, and `slow` remembers that
it has been. Input and pongs share one stream
(`socket`, then `buffered` in the websocket library); the reader takes one after
the other and reads nothing while it writes to the console. The deadline works
as Go's does: it fails a read of the network even if data has arrived, but not a
read of what the library has buffered.

Definitions under a comment that begins with "Slip:" are not part of the
specifications. Each is a plausible mistake in the definition that follows it;
put in its place, it breaks the property named for it in `PROJECT.json`. They
show that the properties depend on the code's being as it is.

## The runs

| Run | Instance | Shows |
|---|---|---|
| `registry` | 3 connections, limit 2 (253,616 states) | `CapacityRespected`, `ConsoleOwned`, `RegistryTracksSessions`, `AuditTrail`, `ShutdownClosesSnapshot`, `EndReasonStable`, `ShutdownTerminates`, `ImplementsPool` |
| `session_safety` | queue of 1, 2 chunks of output, every kind of end (4.8 million) | `OutputIntact`, `EndAnnounced`, `ResultsNeverBlock`, `AnsweredCloseIsDisconnect`, `OverLeavesNothing` |
| `session_live` | queue of 1, no output, ends by timeout, failure and end of console (258,016) | `EndsCompletely`, `AbandonedEnds`, `ImplementsPool` |
| `gateway` | 2 connections, limit 1, 8 first messages, 6 answers (748,805) | `ConsoleNeedsGrant`, `OneStory`, `BlameFits`, `RefusalExplained`, `ImplementsRegistry`, `HandshakeSettles` |
| `keepalive` | files of 2 lines, 85 environments, timeouts up to 7, 2 inputs, 5 pongs (1.2 million) | `SourcesRespected`, `AcceptedSuits`, `FaultIsReal`, `AnsweringBrowserStays`, `SilenceBounded` |
| `remote` | 2 chunks of each stream (112,482) | `FailedOpenLeavesNothing`, `CloseMeansClosed`, `NoOutputAfterClose`, `CloseWakesAll` |
| `registry_shutdown` | 1 connection | violates `ShutdownLeavesNoSession` |
| `session_oversized` | no output | violates `OversizedIsViolation` |
| `session_disconnect` | no output | violates `LeavingIsDisconnect` |
| `gateway_timeout` | 1 connection | violates `OverdueIsAuthorizeTimeout` |
| `keepalive_stuck` | no file, one environment | violates `SilenceEndsSession` |
| `remote_end` | no output | violates `RemoteEndIsSeen` |

Some of these say more than their names:

* `ConsoleNeedsGrant` compares with definitions of its own (`Authorizes`,
  `Accepts`) of an authorize message and of an accepted grant, independent of
  the parser's and the client's order of tests.
* `BlameFits` compares each refusal with the reasons that message and answer
  deserve (`Deserved`, again with definitions of its own): a protocol violation is
  the browser's message, a failed authorization is an answer with one of the six
  statuses that reject a grant, limit and ssh are blamed only once a grant is
  accepted, and everything else is an internal error - an answer with status 400
  or 429 among it, although that is not a fault inside the gateway. A start that
  fails after it was audited as started was undone by a shutdown.
* `OneStory` spells out what a refusal has to tell and allows nothing but a
  beginning of it, all of it, or a beginning and the frame of a session that is
  being closed. A handler that goes on after a refusal would tell two.
* `RefusalExplained` also says that the connection of a refused browser is closed
  when the handler is done, with or without a close frame.
* `AnsweredCloseIsDisconnect` speaks of the time after the reader has answered
  the browser's closing. That a ping may fail before, and the session then end
  as an internal error, is the run `session_disconnect`.
* `AnsweringBrowserStays` has a premise, `Margin`: the timeout exceeds the
  interval by the round trip and by the time the console may take for the input
  that comes before a pong; and it speaks of a console that is not slow. `Validate`
  asks only for a timeout longer than the
  interval. The margin is tight: one less, and TLC finds a browser that answers
  every ping and is timed out. `SilenceBounded` needs no margin; it bounds the
  silence without the time for which the console has held the reader for longer
  than `ConsoleDelay`. That time is not bounded by anything (`keepalive_stuck`).

Each module's type invariant is checked in its safety run. Deadlock is checked
everywhere: the only states without a real step are those after the process
has exited (`Exited`) or in which everything has come to rest (`Finished`).

### Bounds

* *Connections and limit.* Three connections with a limit of two: two sessions
  can be in `CloseAll`'s copy while a third `Start` is under way, and all three
  can pass the first check for the two places. Which loop reason a session ends
  with does not matter to `Registry`, which compares reasons only with
  `server_shutdown`; one is enough.
* *Queue.* A queue of one message is full as soon as the initial message waits,
  so every boundary of `Enqueue` is met; two chunks make order and loss
  visible, with one in the writer, one in the queue and one in the output loop.
* *Session liveness.* With output the graph is too large for checking liveness
  within minutes. Without it, everything still happens that makes goroutines
  wait for each other, except the end by a full queue: that this path comes to
  its end is checked for safety only.
* *Handshake.* Two connections and one place: each can be refused for the
  other's sake. The first messages and the answers have one member for every
  branch of `handleBrowserSocket`, `ParseClientMessage`, `ValidateToken` and the
  two `classify` functions that a first message or an answer can reach.
* *Settings.* Two lines are enough for a key that is repeated and for a setting
  under both its names. Every key is set in the environment to nothing, to
  garbage, to zero and to one; ports at 65535 and 65536; each order of interval
  and timeout.
* *Keepalive.* The shortest times at which everything happens: timeouts with and
  without the margin for both intervals, two inputs so that one can be in the
  console, one behind it and a pong behind both. At most `PongLimit` pongs are on
  their way or unread, without which a console that holds the reader for good
  would let them pile up: a ping beyond it waits, and time with it. Five are
  never reached while the console is not slow, so that the bound holds back no
  behaviour but those the properties except.
* *ssh output.* One chunk in each stream makes both copiers stuck in the pipe
  together; a second lets a copier come back to it.

### Fairness

Weak fairness of a goroutine's next step means that the Go scheduler runs what
can run. Beyond that:

* a write to the browser returns within its five second deadline;
* in `Gateway` only the handlers are scheduled, inside `Registry.Start` too; the
  authorization deadline and the timeout of the HTTP client end their waiting;
* once a browser has vanished, the read deadline that no pong extends passes, and
  once it has left, the reader comes to its closing; pings fail sooner or later in
  both cases, for TCP is refused or gives up (strong fairness, because the reader
  may come and go between messages that had been buffered);
* in `Keepalive` time, the ticker, the network and the reader go on, but nothing
  makes the console take a write. A browser that is silent while its TCP still
  takes pings is in neither of the two cases above: this is `keepalive_stuck`;
* a goroutine in a closed ssh session gets out of it - which is the property
  `CloseWakesAll` of `RemoteSession`;
* TCP, with the keepalive Go's dialer turns on, gives up a dead connection;
* each step of the ssh session's `Close` returns. It writes to the network
  without a deadline, so it may have to wait for TCP; a peer that acknowledges
  but never takes data could hold it up for longer, and this is an assumption.

Nothing makes a browser connect or type, a shell print or exit, a signal arrive
or the listener fail, a ping fail while the browser answers, a console take its
input, or `Bridge.Open`
return: `ssh.NewClientConn` is given a timeout it does not use.

## Disagreements with the documents

* **A shutdown can leave a session behind** (`registry_shutdown`). A `Start`
  that is dialling while `CloseAll` copies the registry inserts its session
  afterwards; `Shutdown` does not wait for upgraded connections, and the process
  exits without closing or auditing the end of that session. What *is* true is
  `ShutdownClosesSnapshot`.
* **The end of the ssh session is not seen** (`remote_end`). The pipe the output
  loop reads is closed only by `Close`, and `session.Wait` is never called: when
  the shell exits, the browser session stays until the browser types or leaves.
  Plan 03 promises the opposite.
* **A message over the size limit is an internal error** (`session_oversized`),
  though `ReadMessage` returns a `ProtocolError` for it.
* **A browser that leaves may end as an internal error** (`session_disconnect`).
  Reader and ping race for the closing, and only a ping that comes after the
  reader's answer is recognised; plan 07 wants the disconnect of a browser told
  apart from failures.
* **A silent browser may stay** (`keepalive_stuck`). The deadline that pongs extend
  is noticed only by the reader, which may be stuck in a write to a console that
  takes no input; plan 07 says that missing answers lead to `keepalive_timeout`.
* **A missing `authorize` may be told as `websocket_read_failed`**
  (`gateway_timeout`), when the network deadline is noticed before the context's.

Smaller ones, without a run of their own:

* `README.md:222` says of `ssh_bridge_failed` that the ssh session could not be
  opened; it is also told when the session was opened, registered and audited as
  started and a shutdown fell before the first `Enqueue` (the last part of
  `BlameFits` says that this is the only such case).
* `README.md:224` says of `keepalive_timeout` that the browser stopped answering; with a timeout
  barely longer than the interval, which `Validate` accepts, it need not (`Margin`).
* A rejection may come without an error message: if the backend turns a grant down
  in JSON that has a message but no code, the error's code is empty
  (`grants/client.go:155`), `classifyGrantError` gives it no generic one as it does
  for a backend error, and `writeWebSocketFailure` sends no error without a code.
* An authorization deadline that passes while the backend is asked is told as
  `backend_unreachable`.
* `README.md:60` lists `GATEWAY_HTTP_READ_HEADER_TIMEOUT` as required; it has a
  default. `README.md:131` speaks of a session inactivity timeout that does not
  exist any more.
* `GATEWAY_SSH_INSECURE_IGNORE_HOST_KEY=false` is accepted at the start, and then
  every `Client.Open` fails, because nothing else is implemented
  (`sshbridge/client.go:172-177`). `AcceptedSuits` speaks of times, limits and
  ports only.
* A browser that closes with a code other than 1000 and 1001 is classed as an
  internal error; unknown keys in the configuration file are ignored.

## The proofs

`RegistryProofs` proves, for every finite set of connections, every positive
limit and every set of loop reasons, that `SafeSpec` implies `TypeOK`,
`CapacityRespected`, `ConsoleOwned`, `RegistryTracksSessions`, `AuditTrail`,
`ShutdownClosesSnapshot`, the action property `EndReasonStable`, and the safety
part of `SessionPool` under the refinement mapping. The assumptions are those
named in `Registry`: `Session` is finite, `MaxConcurrent` is a positive natural
number (`NewRegistry` replaces any other), `LoopReason` contains end reasons
only.

None of the properties is inductive. `ConsoleOwned`, for instance, needs to know
that a session whose `close` has passed the console has it closed before it is
deleted, and that a `Start` in its abort has closed its console. The inductive
invariant `IInv` says how the three things that know about a session - the
progress of `Start`, the progress of `close` and membership in the registry -
determine each other:

* `Life(s)`: which combinations of `start`, `once`, `state`, `sessions`,
  `console` and `browser` occur for one session;
* `Trail(s)`: the exact audit trail at each of them. The one surprising case,
  an end recorded before the start, is possible only while `Start` has not come
  to its own record and only `CloseAll` can have closed the session;
* `Closing`: sessions that have left `pending` are closed to the last step.

The preservation proof has one lemma per part (`TypeStep`, `LifeStep`,
`TrailStep`, `ClosingStep`), each with one step per action. The limit is a
separate argument on cardinalities: only `Register` adds to the registry, under
its own check. `Refinement` uses `RegistryChange`, which says what a step can do
to the registry, and shows that each step is an `Admit`, a `Decide`, a
`Release`, a `Halt` or leaves the pool alone.

`GatewayProofs` proves, for all first messages and backend answers that are
`Frame`s and `Response`s, all safety properties that `gateway` checks.
`StepRefines` shows that each step of `Gateway` is a step of `Registry` or
leaves its variables alone, so `Implements` holds and `IInv` can be used here
too. The invariant `GatewayInv` adds

* `HandlerTypes` and `Lengths`: the types of the handler's variables;
* `Path(s)`: what the handler has read, and whether it has a refusal, where it
  is - for `ConsoleNeedsGrant`, that everything from `Registry.Start` on is
  reached only with an accepted grant;
* `Blame(s)`: that its refusal has a reason that is `Deserved`;
* `Undone(s)`: a `Start` that fails after it has registered was undone by a
  shutdown, which needs `Life` and `Trail` of the registry.

`AuthorizeParsed` and `AcceptedValidated` compare the parser and the client, for
every message and answer, with the independent definitions in the properties,
as do `CloseParsed` for closing messages and `Deserts` for what follows from each.
On top of it, `Story(s)` says what may have been told so far (at most what comes
before the handler's next message, and no close frame while the connection is
open), `Stories` that every step keeps to it, and `Explains(s)` what has been told exactly, as long as the browser
takes messages and no `close` of a session interferes.

`SessionProofs` proves all safety properties that `session_safety` checks, for
every depth of the queue, any amount of output and whatever frames the browser
sends, and that a session implements the safety part of `SessionPool`. The
assumptions: the depth is positive (`NewRegistry` replaces any other), and the
frames and errors of an instance are such. The invariant `IInv` has, besides
the types,

* `Places`: where each goroutine can be; the loops run only when `Start` is done;
* `Ending`: how far the body of `close` has come says what is closed, and nobody
  has gone on from `close` before it is done. This gives `OverLeavesNothing`;
* `Reporting`: a result in the channel comes from a producer that has returned.
  There are three producers and three places, so one that is about to send finds
  a place: `ResultsNeverBlock`;
* `Blaming`: an internal error, in whatever variable it has got to, has a cause
  that is still there to see. This gives `AnsweredCloseIsDisconnect`;
* `Queued`: what has been sent, what the writer holds and what is in the queue
  are numbered without a gap while the writer writes, and with the chunk of the
  output loop they are all there is while that loop has not given up.
  `OutputIntact` alone says nothing of the writer's and the output loop's own
  messages and is not inductive;
* `Telling`: what `flush` has told when it has come to each of its steps, and
  that an end reason with a message of its own is always the one `run` received.

`RemoteSessionProofs` proves the safety properties of `remote`, the action
property included, for any number of chunks. They rest on an order: nothing is
closed by `Close` before `Open` has returned (`Opening`), and what its steps have
closed stays closed (`Closing`). `Undoing` says of a clean-up that what is still
open is still in its list, which is where a branch that forgets an entry would
fail.

`ConfigProofs` proves `SourcesRespected`, `AcceptedSuits` and `FaultIsReal`,
for files of any length, any environments and any numbers. Its invariant has two
parts: `Reads` (what has been read is what the user has said so far) and
`Results` (`Resolve` has accepted what parses and passes every check, or blames
what does not). The assumptions are that `Blank`, `Malformed` and `Unset` are
not numbers and differ, and that lines and environments hold known keys; an
unknown key is ignored by the code.

`KeepaliveProofs` proves the two properties about time, for every interval and
timeout the configuration can have, every round trip, every `ConsoleDelay`, any
amount of input, and a console that takes its inputs whenever it likes or never.
The argument is about one queue: what the library has buffered and, behind it,
what is in the socket. `Wait(i)` is the time the reader may still need to get to
place `i` if the console is not slow: the rest of the write it is in and one
`ConsoleDelay` for each input before it. No step makes a place wait longer
(`WaitArrival`, `WaitFetch`, `WaitRead`, `WaitTakes`), and a tick brings every
place nearer, because time passes only while the reader writes or has nothing
to read (`WaitTick`); the one exception is a tick while the console is slow,
which counts neither for the silence nor for `AnsweringBrowserStays`. On it the
invariant builds

* `Load`: all input together, and what one read from the network can bring
  together with the write under way, is bounded;
* `Answered`: while the browser answers and there is a margin, the deadline is
  later than the `Wait` of some pong, than the arrival of the next pong and the
  backlog before it, or than the next ping, its pong and the backlog;
* `Silent`: once it has stopped, the pongs on their way are older than the
  silence (`Aged`), each pong that has arrived is read within a round trip and a
  backlog of the last answer (`Early`), and the deadline as it stands ends the
  session in time (`Due`), where a deadline that has passed leaves only what the
  library had buffered.

All parts of these invariants were checked with TLC on the instances of the runs
before they were proved.

Model-checked only: the liveness properties (`ShutdownTerminates`,
`EndsCompletely`, `AbandonedEnds`, `HandshakeSettles`, `CloseWakesAll`) and
the liveness half of the two refinements `ImplementsPool`, because the prover
has no rule for fairness and `ENABLED`. Every invariant and every action property
of a passing run is proved.

## What is not modelled

* The contents of messages, tokens, addresses and log lines, and the fields of
  audit events; the encoding of output (`NewOutputMessage`).
* Time outside `Keepalive`. Deadlines and tickers fire nondeterministically
  elsewhere. In `Keepalive` the wait for the write mutex and the write of a ping
  count as part of the round trip.
* The syntax of a line of the configuration file and of a value: a value parses
  or it does not. The second `Validate` in `grants.NewClient` and in the other
  constructors repeats checks that have passed.
* A server without a grant validator and a token that is blank when it reaches
  `ValidateToken`: neither can occur in the program as `main` builds it.
* The health and readiness endpoints, which return constants, and the packaging.
* The cleanup hook of a session: the handler never installs one.
* `Snapshot`, `Count`, `ID`: they only read.
* The output that is queued when a session ends is dropped by the code; no
  property forbids it.
* The ten second limit of `Shutdown`, whose expiry leads to the same exit.

