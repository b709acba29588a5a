--------------------------- MODULE RemoteSession ---------------------------
(***************************************************************************)
(* The ssh session behind a browser session (internal/sshbridge/client.go):*)
(* Client.Open stage by stage, and Read, Write, Resize and Close of the    *)
(* remoteSession it returns.                                               *)
(*                                                                         *)
(* When a stage of Open fails, the branch of that stage closes a list of   *)
(* its own, one thing after the other; the network and the host go on      *)
(* meanwhile.                                                              *)
(*                                                                         *)
(* Open joins the remote shell's stdout and stderr in one io.Pipe: two     *)
(* goroutines of the ssh library, the copiers, each take a chunk from their*)
(* stream and are stuck in the pipe until it is read.  The output loop     *)
(* reads the pipe, the reader loop writes to stdin, and Close is called by *)
(* Session.close and by a Start that gives up, possibly both.  The ssh     *)
(* library and the remote host are modelled by what this code relies on.   *)
(***************************************************************************)
EXTENDS Naturals, Sequences

CONSTANTS ChunkLimit \* bound: how many chunks each stream of the shell produces

ASSUME ChunkLimitAssumption == ChunkLimit \in Nat

Stream == {"stdout", "stderr"}

\* Who calls Close: Session.close, and Start after a failed Enqueue.
Closer == {"close", "start"}

VARIABLES
    stage,    \* the stage Open is in, "undo" while it cleans up after a stage
              \* that failed, "ready" or "failed" when it is over
    undo,     \* what the clean-up has still to close, in its order
    net,      \* the TCP connection: "none", "open" or "closed"
    link,     \* does the network still carry it?
    stdin,    \* our side of the shell's stdin: "none", "open" or "closed"
    channel,  \* the ssh channel as we know it: "none", "open" or "ended"
    copier,   \* each copier: "none", "copying", "writing" or "done"
    produced, \* how many chunks each stream has yielded to its copier
    pipe,     \* the write end of the pipe: "none", "open" or "closed"
    output,   \* the output loop: "none", "reading", "busy" or "ended"
    got,      \* the chunks it has read, each by its stream and number
    input,    \* the reader loop: "none", "idle", "writing" or "failed"
    once,     \* how far the one execution of Close's body has come
    closer    \* each caller of Close: "out", "in" or "back"

openVars  == <<stage, undo, net, stdin>>
peerVars  == <<link, channel>>
copyVars  == <<copier, produced>>
pipeVars  == <<pipe, output, got>>
closeVars == <<once, closer>>
vars == <<openVars, peerVars, copyVars, pipeVars, input, closeVars>>

\* What the branches of Open close: the bare TCP connection, or the ssh client
\* that owns it by then, its session, and the session's stdin.
Opened == {"conn", "client", "session", "stdin"}

TypeOK ==
    /\ stage \in {"dial", "handshake", "session", "stdin", "pty", "shell",
                  "undo", "ready", "failed"}
    /\ undo \in Seq(Opened)
    /\ net \in {"none", "open", "closed"}
    /\ link \in BOOLEAN
    /\ stdin \in {"none", "open", "closed"}
    /\ channel \in {"none", "open", "ended"}
    /\ copier \in [Stream -> {"none", "copying", "writing", "done"}]
    /\ produced \in [Stream -> 0 .. ChunkLimit]
    /\ pipe \in {"none", "open", "closed"}
    /\ output \in {"none", "reading", "busy", "ended"}
    /\ got \in Seq(Stream \X (1 .. ChunkLimit))
    /\ input \in {"none", "idle", "writing", "failed"}
    /\ once \in {"free", "stdin", "pipe", "session", "client", "done"}
    /\ closer \in [Closer -> {"out", "in", "back"}]

Init ==
    /\ stage = "dial"
    /\ undo = <<>>
    /\ net = "none"
    /\ link = TRUE
    /\ stdin = "none"
    /\ channel = "none"
    /\ copier = [c \in Stream |-> "none"]
    /\ produced = [c \in Stream |-> 0]
    /\ pipe = "none"
    /\ output = "none"
    /\ got = <<>>
    /\ input = "none"
    /\ once = "free"
    /\ closer = [k \in Closer |-> "out"]

-----------------------------------------------------------------------------
(* Client.Open *)

\* No host key callback, the key cannot be read, or the dial fails: nothing has
\* been opened.
DialFails ==
    /\ stage = "dial"
    /\ stage' = "failed"
    /\ UNCHANGED <<undo, net, stdin, peerVars, copyVars, pipeVars, input,
                   closeVars>>

Dial ==
    /\ stage = "dial"
    /\ net' = "open"
    /\ stage' = "handshake"
    /\ UNCHANGED <<undo, stdin, peerVars, copyVars, pipeVars, input, closeVars>>

\* The stage Open is in fails; its branch closes this list.
Fails(at, list) ==
    /\ stage = at
    /\ stage' = "undo"
    /\ undo' = list
    /\ UNCHANGED <<net, stdin, peerVars, copyVars, pipeVars, input, closeVars>>

\* ssh.NewClientConn
Handshake ==
    /\ stage = "handshake" /\ link
    /\ stage' = "session"
    /\ UNCHANGED <<undo, net, stdin, peerVars, copyVars, pipeVars, input,
                   closeVars>>

HandshakeFails == Fails("handshake", <<"conn">>)

NewSession ==
    /\ stage = "session" /\ link
    /\ channel' = "open"
    /\ stage' = "stdin"
    /\ UNCHANGED <<undo, net, stdin, link, copyVars, pipeVars, input, closeVars>>

NewSessionFails == Fails("session", <<"client">>)

\* io.Pipe and session.StdinPipe
OpenPipes ==
    /\ stage = "stdin"
    /\ pipe' = "open"
    /\ stdin' = "open"
    /\ stage' = "pty"
    /\ UNCHANGED <<undo, net, peerVars, copyVars, output, got, input, closeVars>>

\* The pipe that is there by now has no user and is left to the collector.
StdinPipeFails == Fails("stdin", <<"session", "client">>)

\* Setenv twice, whatever comes of it, and RequestPty
RequestPty ==
    /\ stage = "pty" /\ link /\ channel = "open"
    /\ stage' = "shell"
    /\ UNCHANGED <<undo, net, stdin, peerVars, copyVars, pipeVars, input,
                   closeVars>>

RequestPtyFails == Fails("pty", <<"stdin", "session", "client">>)

\* session.Shell starts the copiers; Open returns the remoteSession and the
\* session's loops come to read and write it.
Shell ==
    /\ stage = "shell" /\ link /\ channel = "open"
    /\ copier' = [c \in Stream |-> "copying"]
    /\ output' = "reading"
    /\ input' = "idle"
    /\ stage' = "ready"
    /\ UNCHANGED <<undo, net, stdin, peerVars, produced, pipe, got, closeVars>>

ShellFails == Fails("shell", <<"stdin", "session", "client">>)

Closed(what) ==
    /\ stdin' = IF what = "stdin" THEN "closed" ELSE stdin
    /\ net' = IF what \in {"conn", "client"} THEN "closed" ELSE net

\* Slip: the clean-up is over at the first thing that cannot be closed: closing
\* the stdin of a session whose host has closed the channel is an error.
CleanUpStopsAtError ==
    /\ stage = "undo" /\ undo # <<>>
    /\ Closed(Head(undo))
    /\ undo' = IF Head(undo) = "stdin" /\ channel = "ended" THEN <<>>
               ELSE Tail(undo)
    /\ UNCHANGED <<stage, peerVars, copyVars, pipeVars, input, closeVars>>

\* The next thing of the list is closed.  Closing the session asks the host to
\* close the channel.  Errors are not looked at.
CleanUp ==
    /\ stage = "undo" /\ undo # <<>>
    /\ Closed(Head(undo))
    /\ undo' = Tail(undo)
    /\ UNCHANGED <<stage, peerVars, copyVars, pipeVars, input, closeVars>>

OpenReturnsError ==
    /\ stage = "undo" /\ undo = <<>>
    /\ stage' = "failed"
    /\ UNCHANGED <<undo, net, stdin, peerVars, copyVars, pipeVars, input,
                   closeVars>>

OpenNext ==
    \/ DialFails \/ Dial \/ Handshake \/ NewSession \/ OpenPipes
    \/ RequestPty \/ Shell
    \/ HandshakeFails \/ NewSessionFails \/ StdinPipeFails
    \/ RequestPtyFails \/ ShellFails
    \/ CleanUp \/ OpenReturnsError

-----------------------------------------------------------------------------
(* The network and the remote host. *)

LinkLost ==
    /\ link
    /\ link' = FALSE
    /\ UNCHANGED <<openVars, channel, copyVars, pipeVars, input, closeVars>>

\* TCP, with the keepalive net.Dialer turns on, gives a dead connection up.
NetBreaks ==
    /\ net = "open" /\ ~link
    /\ net' = "closed"
    /\ UNCHANGED <<stage, undo, stdin, peerVars, copyVars, pipeVars, input,
                   closeVars>>

\* The host closes the channel: it will not give a terminal or a shell, the
\* shell has exited, or we have asked for it.
HostClosesChannel ==
    /\ link /\ net = "open" /\ channel = "open"
    /\ channel' = "ended"
    /\ UNCHANGED <<openVars, link, copyVars, pipeVars, input, closeVars>>

\* The ssh library ends the channels of a connection that is closed.
MuxEnds ==
    /\ net = "closed" /\ channel = "open"
    /\ channel' = "ended"
    /\ UNCHANGED <<openVars, link, copyVars, pipeVars, input, closeVars>>

\* A chunk of a stream, possibly received before the channel ended.
CopierTakes(c) ==
    /\ copier[c] = "copying"
    /\ produced[c] < ChunkLimit
    /\ produced' = [produced EXCEPT ![c] = @ + 1]
    /\ copier' = [copier EXCEPT ![c] = "writing"]
    /\ UNCHANGED <<openVars, peerVars, pipeVars, input, closeVars>>

\* A copier ends with its stream, or with the pipe it is writing to.
CopierEnds(c) ==
    /\ \/ copier[c] = "copying" /\ channel = "ended"
       \/ copier[c] = "writing" /\ pipe = "closed"
    /\ copier' = [copier EXCEPT ![c] = "done"]
    /\ UNCHANGED <<openVars, peerVars, produced, pipeVars, input, closeVars>>

-----------------------------------------------------------------------------
(* remoteSession.Read, called by the output loop. *)

\* Slip: Read returns although nothing has been written to the pipe.
ReadDoesNotWait(c) ==
    /\ output = "reading" /\ pipe = "open"
    /\ copier[c] = "copying"
    /\ got' = Append(got, <<c, produced[c]>>)
    /\ output' = "busy"
    /\ UNCHANGED <<openVars, peerVars, copyVars, pipe, input, closeVars>>

ReadChunk(c) ==
    /\ output = "reading" /\ pipe = "open"
    /\ copier[c] = "writing"
    /\ got' = Append(got, <<c, produced[c]>>)
    /\ output' = "busy"
    /\ copier' = [copier EXCEPT ![c] = "copying"]
    /\ UNCHANGED <<openVars, peerVars, produced, pipe, input, closeVars>>

ReadEnds ==
    /\ output = "reading" /\ pipe = "closed"
    /\ output' = "ended"
    /\ UNCHANGED <<openVars, peerVars, copyVars, pipe, got, input, closeVars>>

\* Enqueue has taken the chunk; or it has not, and the output loop is left.
OutputGoesOn ==
    /\ output = "busy"
    /\ output' \in {"reading", "ended"}
    /\ UNCHANGED <<openVars, peerVars, copyVars, pipe, got, input, closeVars>>

-----------------------------------------------------------------------------
(* remoteSession.Write and Resize, called by the reader loop. *)

InputCalls ==
    /\ input = "idle"
    /\ input' = "writing"
    /\ UNCHANGED <<openVars, peerVars, copyVars, pipeVars, closeVars>>

\* The window of the channel has room.
InputTaken ==
    /\ input = "writing" /\ channel = "open"
    /\ input' = "idle"
    /\ UNCHANGED <<openVars, peerVars, copyVars, pipeVars, closeVars>>

\* The channel has ended.  A Write that has been waiting for room when Close
\* closed stdin goes on waiting until then.
InputFails ==
    /\ input = "writing" /\ channel = "ended"
    /\ input' = "failed"
    /\ UNCHANGED <<openVars, peerVars, copyVars, pipeVars, closeVars>>

\* A Write after stdin was closed, or a Resize to a size that is not positive.
InputRejected ==
    /\ input = "idle"
    /\ input' = "failed"
    /\ UNCHANGED <<openVars, peerVars, copyVars, pipeVars, closeVars>>

-----------------------------------------------------------------------------
(* remoteSession.Close: the body runs once, and a second caller waits for it.*)
(* What its steps return is not looked at before all of them are done.       *)

CloseCalls(k) ==
    /\ stage = "ready"
    /\ closer[k] = "out"
    /\ closer' = [closer EXCEPT ![k] = "in"]
    /\ UNCHANGED <<openVars, peerVars, copyVars, pipeVars, input, once>>

CloseEnter(k) ==
    /\ closer[k] = "in"
    /\ once = "free"
    /\ once' = "stdin"
    /\ UNCHANGED <<openVars, peerVars, copyVars, pipeVars, input, closer>>

CloseStdin ==
    /\ once = "stdin"
    /\ stdin' = "closed"
    /\ once' = "pipe"
    /\ UNCHANGED <<stage, undo, net, peerVars, copyVars, pipeVars, input, closer>>

\* Slip: Close leaves the pipe to the copiers.
CloseWriterForgotten ==
    /\ once = "pipe"
    /\ once' = "session"
    /\ UNCHANGED <<openVars, peerVars, copyVars, pipeVars, input, closer>>

CloseWriter ==
    /\ once = "pipe"
    /\ pipe' = "closed"
    /\ once' = "session"
    /\ UNCHANGED <<openVars, peerVars, copyVars, output, got, input, closer>>

\* session.Close sends a message that asks the host to close the channel.
CloseSession ==
    /\ once = "session"
    /\ once' = "client"
    /\ UNCHANGED <<openVars, peerVars, copyVars, pipeVars, input, closer>>

\* Slip: the client is left to close itself with its last session.
CloseClientForgotten ==
    /\ once = "client"
    /\ once' = "done"
    /\ UNCHANGED <<openVars, peerVars, copyVars, pipeVars, input, closer>>

CloseClient ==
    /\ once = "client"
    /\ net' = "closed"
    /\ once' = "done"
    /\ UNCHANGED <<stage, undo, stdin, peerVars, copyVars, pipeVars, input,
                   closer>>

\* Slip: a flag instead of the Once: the second caller does not wait.
CloseReturnsAtOnce(k) ==
    /\ closer[k] = "in"
    /\ once # "free"
    /\ closer' = [closer EXCEPT ![k] = "back"]
    /\ UNCHANGED <<openVars, peerVars, copyVars, pipeVars, input, once>>

CloseReturns(k) ==
    /\ closer[k] = "in"
    /\ once = "done"
    /\ closer' = [closer EXCEPT ![k] = "back"]
    /\ UNCHANGED <<openVars, peerVars, copyVars, pipeVars, input, once>>

CloseNext ==
    \/ CloseStdin \/ CloseWriter \/ CloseSession \/ CloseClient
    \/ \E k \in Closer : CloseEnter(k) \/ CloseReturns(k)

-----------------------------------------------------------------------------

OutputNext == ReadEnds \/ OutputGoesOn \/ \E c \in Stream : ReadChunk(c)

\* Open gave up, or both callers have closed the session and every goroutine
\* has come to rest.
Quiet ==
    /\ \A c \in Stream : copier[c] \in {"none", "done"}
    /\ output \in {"none", "ended"}
    /\ input \in {"none", "failed"}

Finished ==
    /\ stage = "failed" \/ \A k \in Closer : closer[k] = "back"
    /\ Quiet
    /\ UNCHANGED vars

Next ==
    \/ OpenNext
    \/ LinkLost \/ NetBreaks \/ HostClosesChannel \/ MuxEnds
    \/ \E c \in Stream : CopierTakes(c) \/ CopierEnds(c)
    \/ OutputNext
    \/ InputCalls \/ InputTaken \/ InputFails \/ InputRejected
    \/ CloseNext
    \/ \E k \in Closer : CloseCalls(k)
    \/ Finished

SafeSpec == Init /\ [][Next]_vars

\* Goroutines that can go on do, the steps of Close included, each of which
\* may have to wait for TCP.  A loop that ends makes its session call Close
\* (module Session).  Nothing makes a host close or answer, or a browser
\* type, and nothing bounds Open.
Fairness ==
    /\ WF_vars(NetBreaks)
    /\ WF_vars(MuxEnds)
    /\ \A c \in Stream : WF_vars(CopierEnds(c))
    /\ WF_vars(OutputNext)
    /\ WF_vars(InputFails)
    /\ WF_vars(CloseNext)
    /\ WF_vars(/\ input = "failed" \/ output = "ended"
               /\ CloseCalls("close"))

Spec == SafeSpec /\ Fairness

-----------------------------------------------------------------------------
(* Properties *)

\* An Open that failed has left no connection behind and no goroutine that uses
\* one, whichever of its stages failed, whatever had been opened by then, and
\* whatever the network and the host did during the clean-up.
FailedOpenLeavesNothing ==
    stage = "failed" =>
        /\ net # "open" /\ stdin # "open"
        /\ \A c \in Stream : copier[c] = "none"

\* When Close returns, to the caller that did the work or to one that came
\* second, everything is closed.
CloseMeansClosed ==
    \A k \in Closer : closer[k] = "back" =>
        stdin = "closed" /\ pipe = "closed" /\ net = "closed"

\* What Session relies on when it reads only from an open console: output that
\* is still in the pipe or with a copier does not get out after Close.
NoOutputAfterClose ==
    [][(\E k \in Closer : closer[k] = "back") => got' = got]_got

\* What the fairness of Session relies on: once each step of Close returns (they
\* write to TCP, and nothing but TCP bounds that), it has woken up everybody
\* who was stuck in the remote session, the copiers of a host that never
\* answers included.
CloseWakesAll ==
    once # "free" ~>
        /\ \A c \in Stream : copier[c] = "done"
        /\ output = "ended"
        /\ input # "writing"

\* What the plan says of the end of an ssh session: it closes the browser's
\* session with a reason, which takes the output loop to see the end.
RemoteEndIsSeen ==
    stage = "ready" /\ channel = "ended" ~> output = "ended"

=============================================================================
