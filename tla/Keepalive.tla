----------------------------- MODULE Keepalive -----------------------------
(***************************************************************************)
(* The keepalive of a session in time, with the times of whatever          *)
(* configuration the gateway has accepted: the ping of                     *)
(* Session.keepaliveLoop, the pongs of the browser, and the one read       *)
(* deadline of the connection (internal/websocket/conn.go,                 *)
(* ConfigureKeepalive), which only a pong that is read extends.  The       *)
(* reader that reads the pongs also writes the browser's input to the      *)
(* console and reads nothing meanwhile.  Such a write has no deadline: the *)
(* console may hold the reader for any time, or for good.                  *)
(*                                                                         *)
(* Time advances by Tick, for everybody at once and only when nothing is   *)
(* left to do at this moment.                                              *)
(***************************************************************************)
EXTENDS Config, FiniteSets

CONSTANTS RoundTrip,    \* longest time from a tick of the ticker to its pong's
                        \* arrival, the wait for the write mutex included
          ConsoleDelay, \* the time for one input the console may take before
                        \* it counts as slow
          InputLimit,   \* bound: inputs of the browser not yet read
          PongLimit,    \* bound: pongs on their way or not yet read
          TimeLimit     \* bound: longest keepalive timeout that is followed

ASSUME KeepaliveAssumption ==
    {RoundTrip, ConsoleDelay, InputLimit, PongLimit, TimeLimit} \subseteq Nat

VARIABLES
    session,  \* "none", "active" or "ended"
    times,    \* the registry's interval and timeout
    reason,   \* why the session ended, "none" while it has not
    deadline, \* time left to the read deadline
    ticker,   \* time left to the next ping
    transit,  \* the ages of the pings whose pongs have yet to arrive
    socket,   \* what the kernel has received for the connection
    buffered, \* what the websocket library has read from it
    writing,  \* the age, up to ConsoleDelay, of the write to the console the
              \* reader is in, or None
    slow,     \* has the console held the reader for longer than ConsoleDelay?
    answers,  \* does the browser answer pings?
    silence   \* the time since it stopped, without the time for which the
              \* console was slow

networkVars   == <<transit, socket, answers, silence>>
consoleVars   == <<writing, slow>>
readerVars    == <<buffered, consoleVars>>
keepaliveVars == <<session, times, reason, deadline, ticker, networkVars,
                   readerVars>>
allVars       == <<configVars, keepaliveVars>>

None == -1
Reading == session = "active" /\ writing = None

\* What has arrived and the reader has yet to read.
Unread == buffered \o socket

HowMany(kind) == Cardinality({i \in DOMAIN Unread : Unread[i] = kind})

KeepaliveTypeOK ==
    /\ ConfigTypeOK
    /\ session \in {"none", "active", "ended"}
    /\ reason \in {"none", "keepalive_timeout", "other"}
    /\ deadline \in 0 .. TimeLimit /\ ticker \in 0 .. TimeLimit
    /\ transit \in Seq(0 .. RoundTrip)
    /\ socket \in Seq({"pong", "input"}) /\ buffered \in Seq({"pong", "input"})
    /\ writing \in 0 .. ConsoleDelay \cup {None}
    /\ slow \in BOOLEAN /\ answers \in BOOLEAN /\ silence \in Nat

KeepaliveInit ==
    /\ ConfigInit
    /\ session = "none"
    /\ times = [interval |-> 0, timeout |-> 0]
    /\ reason = "none"
    /\ deadline = 0
    /\ ticker = 0
    /\ transit = <<>> /\ socket = <<>> /\ buffered = <<>>
    /\ writing = None
    /\ slow = FALSE
    /\ answers = TRUE
    /\ silence = 0

\* The gateway serves and a session starts: ConfigureKeepalive sets the first
\* deadline, run starts the ticker.  What has been loaded is of no interest any
\* more and is forgotten.
StartSession ==
    LET c == Configured(config) IN
    /\ phase = "loaded"
    /\ c["KeepaliveTimeout"] <= TimeLimit
    /\ phase' = "serving"
    /\ settings' = NoSettings /\ lines' = <<>> /\ env' = NoEnv
    /\ config' = NoConfig
    /\ session' = "active"
    /\ times' = [interval |-> c["KeepaliveInterval"],
                 timeout  |-> c["KeepaliveTimeout"]]
    /\ deadline' = c["KeepaliveTimeout"]
    /\ ticker' = c["KeepaliveInterval"]
    /\ UNCHANGED <<fault, reason, networkVars, readerVars>>

-----------------------------------------------------------------------------
(* The ticker, the browser and the network *)

\* The ticker fires and the keepalive loop pings.
Ping ==
    /\ session = "active"
    /\ ticker = 0
    /\ answers => Len(transit) + HowMany("pong") < PongLimit
    /\ ticker' = times.interval
    /\ transit' = IF answers THEN Append(transit, 0) ELSE transit
    /\ UNCHANGED <<configVars, session, times, reason, deadline, socket,
                   answers, silence, readerVars>>

PongArrives ==
    /\ session = "active"
    /\ transit # <<>>
    /\ transit' = Tail(transit)
    /\ socket' = Append(socket, "pong")
    /\ UNCHANGED <<configVars, session, times, reason, deadline, ticker,
                   answers, silence, readerVars>>

\* The user types, in a browser that answers pings or in one that does not.
InputArrives ==
    /\ session = "active"
    /\ HowMany("input") < InputLimit
    /\ socket' = Append(socket, "input")
    /\ UNCHANGED <<configVars, session, times, reason, deadline, ticker,
                   transit, answers, silence, readerVars>>

\* The browser stops answering; some pongs may be on their way.
StopsAnswering ==
    /\ session = "active"
    /\ answers
    /\ answers' = FALSE
    /\ \E n \in 0 .. Len(transit) : transit' = SubSeq(transit, 1, n)
    /\ UNCHANGED <<configVars, session, times, reason, deadline, ticker,
                   socket, silence, readerVars>>

-----------------------------------------------------------------------------
(* readLoop in ReadMessage, and in a write to the console *)

\* The library has nothing left and reads from the network, which gives it some
\* of what there is, but only before the deadline.
Fetch ==
    /\ Reading
    /\ buffered = <<>> /\ socket # <<>>
    /\ deadline > 0
    /\ \E n \in 1 .. Len(socket) :
          /\ buffered' = SubSeq(socket, 1, n)
          /\ socket' = SubSeq(socket, n + 1, Len(socket))
    /\ UNCHANGED <<configVars, session, times, reason, deadline, ticker,
                   transit, consoleVars, answers, silence>>

\* Slip: the pong handler is not installed.
ReadPongIgnored ==
    /\ Reading
    /\ buffered # <<>> /\ Head(buffered) = "pong"
    /\ buffered' = Tail(buffered)
    /\ UNCHANGED <<configVars, session, times, reason, deadline, ticker,
                   networkVars, consoleVars>>

\* The pong handler extends the deadline.
ReadPong ==
    /\ Reading
    /\ buffered # <<>> /\ Head(buffered) = "pong"
    /\ buffered' = Tail(buffered)
    /\ deadline' = times.timeout
    /\ UNCHANGED <<configVars, session, times, reason, ticker, networkVars,
                   consoleVars>>

\* Slip: whatever is read extends the deadline.
ReadInputExtends ==
    /\ Reading
    /\ buffered # <<>> /\ Head(buffered) = "input"
    /\ buffered' = Tail(buffered)
    /\ deadline' = times.timeout
    /\ writing' = 0
    /\ UNCHANGED <<configVars, session, times, reason, ticker, networkVars, slow>>

ReadInput ==
    /\ Reading
    /\ buffered # <<>> /\ Head(buffered) = "input"
    /\ buffered' = Tail(buffered)
    /\ writing' = 0
    /\ UNCHANGED <<configVars, session, times, reason, deadline, ticker,
                   networkVars, slow>>

\* The write to the console returns, whenever that is.
ConsoleTakes ==
    /\ session = "active"
    /\ writing # None
    /\ writing' = None
    /\ UNCHANGED <<configVars, session, times, reason, deadline, ticker,
                   networkVars, buffered, slow>>

Ends(r) ==
    /\ session' = "ended"
    /\ reason' = r
    /\ UNCHANGED <<configVars, times, deadline, ticker, networkVars,
                   readerVars>>

\* Slip: the error of ReadMessage is passed on as it is.
DeadlineUnclassified ==
    /\ Reading
    /\ buffered = <<>>
    /\ deadline = 0
    /\ Ends("timeout")

\* ReadMessage fails with the deadline, also if a pong has arrived that the
\* library has not read.
DeadlinePasses ==
    /\ Reading
    /\ buffered = <<>>
    /\ deadline = 0
    /\ Ends("keepalive_timeout")

\* The session ends in one of the other ways of module Session.
EndsOtherwise ==
    /\ session = "active"
    /\ Ends("other")

-----------------------------------------------------------------------------

\* Everybody who has something to do at this moment has done it.
Idle ==
    /\ ticker > 0
    /\ \A i \in DOMAIN transit : transit[i] < RoundTrip
    /\ writing = None => buffered = <<>> /\ socket = <<>> /\ deadline > 0

\* The console holds the reader, and has done so for ConsoleDelay already.
Held == writing = ConsoleDelay

Tick ==
    /\ session = "active"
    /\ Idle
    /\ ticker' = ticker - 1
    /\ deadline' = IF deadline = 0 THEN 0 ELSE deadline - 1
    /\ transit' = [i \in DOMAIN transit |-> transit[i] + 1]
    /\ writing' = IF writing = None \/ Held THEN writing ELSE writing + 1
    /\ slow' = (slow \/ Held)
    /\ silence' = IF answers \/ Held THEN silence ELSE silence + 1
    /\ UNCHANGED <<configVars, session, times, reason, socket, buffered, answers>>

Finished ==
    /\ phase = "failed" \/ session = "ended"
    /\ UNCHANGED allVars

\* A configuration whose timeout is longer than an instance follows.
NotFollowed ==
    /\ phase = "loaded" /\ config["KeepaliveTimeout"] > TimeLimit
    /\ UNCHANGED allVars

KeepaliveNext ==
    \/ ConfigNext /\ UNCHANGED keepaliveVars
    \/ StartSession
    \/ Ping \/ PongArrives \/ InputArrives \/ StopsAnswering
    \/ Fetch \/ ReadPong \/ ReadInput \/ ConsoleTakes
    \/ DeadlinePasses \/ EndsOtherwise
    \/ Tick
    \/ Finished \/ NotFollowed

KeepaliveSpec == KeepaliveInit /\ [][KeepaliveNext]_allVars

\* Time goes on, and so do the ticker, the network and the reader.  Nothing makes
\* the console take input, or a session end in another way.
KeepaliveFairness ==
    /\ WF_allVars(Tick)
    /\ WF_allVars(Ping)
    /\ WF_allVars(PongArrives)
    /\ WF_allVars(Fetch)
    /\ WF_allVars(ReadPong)
    /\ WF_allVars(ReadInput)
    /\ WF_allVars(DeadlinePasses)

FairKeepaliveSpec == KeepaliveSpec /\ KeepaliveFairness

-----------------------------------------------------------------------------
(* Properties *)

\* How long the reader may be kept from a pong by input that came before it, the
\* console not being slow.
Backlog == (InputLimit + 1) * ConsoleDelay

\* The timeout leaves room for a ping, its pong and the input before it.
Margin == times.timeout > times.interval + RoundTrip + Backlog

\* Under a timeout with that margin no session is ended as keepalive_timeout
\* while the browser answers every ping and the console takes every input within
\* ConsoleDelay, although up to InputLimit inputs come before a pong.
AnsweringBrowserStays ==
    reason = "keepalive_timeout" /\ Margin /\ ~slow => ~answers

\* A browser that no longer answers loses its session within the timeout, the
\* way of its last pong and ConsoleDelay for each input before and after that,
\* although it goes on typing.  What the console takes beyond ConsoleDelay comes
\* on top, for the write to it has no deadline.
SilenceBounded ==
    session = "active" =>
        silence <= times.timeout + RoundTrip + Backlog
                     + InputLimit * ConsoleDelay

\* What the plan says of a browser that no longer answers: it loses its session.
\* The code keeps it for as long as the reader is stuck in the console.
SilenceEndsSession == ~answers ~> session = "ended"

=============================================================================
