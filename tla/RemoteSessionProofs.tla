------------------------ MODULE RemoteSessionProofs ------------------------
(***************************************************************************)
(* Proofs about RemoteSession, for shells that print any number of chunks. *)
(*                                                                         *)
(* What carries the properties is an order: nothing is closed by Close     *)
(* before Open has returned, nothing is opened after that, and each step   *)
(* of Close leaves what the steps before it have closed as it is.  And for *)
(* an Open that fails: while the connection is open, the last entry of     *)
(* what is left to close is the one that closes it, and while stdin is     *)
(* open it is the first.                                                   *)
(***************************************************************************)
EXTENDS RemoteSession, SequenceTheorems, TLAPS

\* What there is at each stage of Open, and what a failed Open leaves.
Opening ==
    /\ stage = "dial" => net = "none"
    /\ stage \in {"dial", "handshake", "session", "stdin"} => stdin = "none"
    /\ stage # "ready" => \A c \in Stream : copier[c] = "none"
    /\ stage = "failed" => net # "open" /\ stdin # "open"

\* What is still open after a stage that failed is still on the list.
Undoing ==
    stage = "undo" =>
        /\ net = "open" =>
              undo # <<>> /\ undo[Len(undo)] \in {"conn", "client"}
        /\ stdin = "open" => undo # <<>> /\ Head(undo) = "stdin"

\* Close is called for what Open has returned; what its steps have closed, up
\* to the one it has come to, is closed.
Closing ==
    /\ once # "free" => stage = "ready"
    /\ \A k \in Closer :
          /\ closer[k] # "out" => stage = "ready"
          /\ closer[k] = "back" => once = "done"
    /\ once \in {"pipe", "session", "client", "done"} => stdin = "closed"
    /\ once \in {"session", "client", "done"} => pipe = "closed"
    /\ once = "done" => net = "closed"

\* The inductive invariant: a copier that is stuck in the pipe has a chunk.
IInv ==
    /\ TypeOK
    /\ Opening
    /\ Undoing
    /\ Closing
    /\ \A c \in Stream : copier[c] = "writing" => produced[c] > 0

-----------------------------------------------------------------------------

LEMMA IInvInit == Init => IInv
BY ChunkLimitAssumption
DEF Init, IInv, TypeOK, Opening, Undoing, Closing, Stream, Closer, Opened

\* A chunk that is read is one of those its stream has produced.
LEMMA ReadTypes ==
    ASSUME IInv, NEW c \in Stream, ReadChunk(c)
    PROVE  got' \in Seq(Stream \X (1 .. ChunkLimit))
<1>1. produced[c] \in 1 .. ChunkLimit
  BY ChunkLimitAssumption DEF ReadChunk, IInv, TypeOK
<1>2. <<c, produced[c]>> \in Stream \X (1 .. ChunkLimit)
  BY <1>1
<1> QED
  BY <1>2 DEF ReadChunk, IInv, TypeOK

\* The last entry of a list is there as long as the list is not empty.
LEMMA LastOfTail ==
    ASSUME NEW q \in Seq(Opened), q # <<>>
    PROVE  /\ Head(q) \in Opened
           /\ Tail(q) \in Seq(Opened)
           /\ Tail(q) # <<>> => Tail(q)[Len(Tail(q))] = q[Len(q)]
           /\ Tail(q) = <<>> => q[Len(q)] = Head(q)
<1>1. /\ Len(q) \in Nat \ {0} /\ Head(q) = q[1] /\ Tail(q) \in Seq(Opened)
      /\ Len(Tail(q)) = Len(q) - 1
      /\ \A i \in 1 .. Len(Tail(q)) : Tail(q)[i] = q[i + 1]
  BY HeadTailProperties, EmptySeq
<1>2. Head(q) \in Opened
  BY <1>1
<1>3. ASSUME Tail(q) # <<>>
      PROVE  Tail(q)[Len(Tail(q))] = q[Len(q)]
  <2>1. Len(Tail(q)) \in 1 .. Len(Tail(q))
    BY <1>1, <1>3, EmptySeq
  <2> QED
    BY <1>1, <2>1
<1>4. ASSUME Tail(q) = <<>>
      PROVE  q[Len(q)] = Head(q)
  <2>1. Len(q) = 1
    BY <1>1, <1>4
  <2> QED
    BY <1>1, <2>1
<1> QED
  BY <1>1, <1>2, <1>3, <1>4

\* Each branch of Open lists everything that the stages before it have opened.
LEMMA FailStep ==
    ASSUME IInv,
           \/ HandshakeFails \/ NewSessionFails \/ StdinPipeFails
           \/ RequestPtyFails \/ ShellFails
    PROVE  IInv'
<1> USE DEF IInv, TypeOK, Opening, Undoing, Closing, peerVars, copyVars,
            pipeVars, closeVars, Fails, Opened
<1>1. CASE HandshakeFails
  BY <1>1 DEF HandshakeFails
<1>2. CASE NewSessionFails
  BY <1>2 DEF NewSessionFails
<1>3. CASE StdinPipeFails
  BY <1>3 DEF StdinPipeFails
<1>4. CASE RequestPtyFails
  BY <1>4 DEF RequestPtyFails
<1>5. CASE ShellFails
  BY <1>5 DEF ShellFails
<1> QED
  BY <1>1, <1>2, <1>3, <1>4, <1>5

\* The clean-up closes the head of its list, and the rest is still what is open.
LEMMA CleanUpStep ==
    ASSUME IInv, CleanUp
    PROVE  IInv'
<1> USE DEF CleanUp, Closed
<1>1. undo \in Seq(Opened) /\ undo # <<>> /\ stage = "undo" /\ stage' = "undo"
  BY DEF IInv, TypeOK
<1>2. TypeOK'
  BY <1>1, LastOfTail DEF IInv, TypeOK, peerVars, copyVars, pipeVars, closeVars
<1>3. Opening'
  BY <1>1 DEF IInv, Opening, copyVars
<1>4. Undoing'
  <2>1. ASSUME net' = "open"
        PROVE  undo' # <<>> /\ undo'[Len(undo')] \in {"conn", "client"}
    <3>1. net = "open" /\ Head(undo) \notin {"conn", "client"}
      BY <2>1
    <3>2. undo[Len(undo)] \in {"conn", "client"}
      BY <3>1, <1>1 DEF IInv, Undoing
    <3> QED
      BY <3>1, <3>2, <1>1, LastOfTail
  <2>2. stdin' # "open"
    BY <1>1 DEF IInv, Undoing
  <2> QED
    BY <2>1, <2>2 DEF Undoing
<1>5. Closing'
  BY <1>1 DEF IInv, Closing, closeVars, pipeVars
<1> QED
  BY <1>2, <1>3, <1>4, <1>5 DEF IInv, copyVars

\* Open: a stage is reached with what its name says, or it fails, and Open
\* returns when there is nothing more to close.
LEMMA OpenStep ==
    ASSUME IInv, OpenNext
    PROVE  IInv'
<1> USE DEF IInv, TypeOK, Opening, Undoing, Closing, peerVars, copyVars,
            pipeVars, closeVars
<1>1. CASE DialFails
  BY <1>1 DEF DialFails
<1>2. CASE Dial
  BY <1>2 DEF Dial
<1>3. CASE Handshake
  BY <1>3 DEF Handshake
<1>4. CASE NewSession
  BY <1>4 DEF NewSession
<1>5. CASE OpenPipes
  BY <1>5 DEF OpenPipes
<1>6. CASE RequestPty
  BY <1>6 DEF RequestPty
<1>7. CASE Shell
  BY <1>7 DEF Shell
<1>8. CASE OpenReturnsError
  BY <1>8 DEF OpenReturnsError
<1> QED
  BY <1>1, <1>2, <1>3, <1>4, <1>5, <1>6, <1>7, <1>8, FailStep, CleanUpStep
  DEF OpenNext

\* The network, the host and the goroutines that use the session open nothing.
LEMMA UseStep ==
    ASSUME IInv,
           \/ LinkLost \/ NetBreaks \/ HostClosesChannel \/ MuxEnds
           \/ \E c \in Stream : CopierTakes(c) \/ CopierEnds(c)
           \/ OutputNext
           \/ InputCalls \/ InputTaken \/ InputFails \/ InputRejected
    PROVE  IInv'
<1> USE DEF IInv, TypeOK, Opening, Undoing, Closing, openVars, peerVars, copyVars,
            pipeVars, closeVars
<1>1. CASE LinkLost
  <2>1. link' \in BOOLEAN
    BY <1>1 DEF LinkLost
  <2>2. UNCHANGED <<openVars, channel, copyVars, pipeVars, input, closeVars>>
    BY <1>1, Zenon DEF LinkLost
  <2> QED
    BY <2>1, <2>2
<1>2. CASE HostClosesChannel \/ MuxEnds
  BY <1>2 DEF HostClosesChannel, MuxEnds
<1>8. CASE NetBreaks
  BY <1>8 DEF NetBreaks
<1>3. ASSUME NEW c \in Stream, CopierTakes(c) PROVE IInv'
  BY <1>3, ChunkLimitAssumption DEF CopierTakes
<1>4. ASSUME NEW c \in Stream, CopierEnds(c) PROVE IInv'
  BY <1>4 DEF CopierEnds
<1>5. ASSUME NEW c \in Stream, ReadChunk(c) PROVE IInv'
  <2>1. got' \in Seq(Stream \X (1 .. ChunkLimit))
    BY <1>5, ReadTypes
  <2> QED
    BY <1>5, <2>1 DEF ReadChunk
<1>6. CASE ReadEnds \/ OutputGoesOn
  BY <1>6 DEF ReadEnds, OutputGoesOn
<1>7. CASE InputCalls \/ InputTaken \/ InputFails \/ InputRejected
  BY <1>7 DEF InputCalls, InputTaken, InputFails, InputRejected
<1> QED
  BY <1>1, <1>2, <1>3, <1>4, <1>5, <1>6, <1>7, <1>8 DEF OutputNext

\* Close: each step closes one thing more, and both callers return after the
\* last one.
LEMMA CloseStep ==
    ASSUME IInv, CloseNext \/ \E k \in Closer : CloseCalls(k)
    PROVE  IInv'
<1> USE DEF IInv, TypeOK, Opening, Undoing, Closing, openVars, peerVars, copyVars,
            pipeVars, closeVars
<1>1. CASE CloseStdin
  BY <1>1 DEF CloseStdin
<1>2. CASE CloseWriter
  BY <1>2 DEF CloseWriter
<1>3. CASE CloseSession
  BY <1>3 DEF CloseSession
<1>4. CASE CloseClient
  BY <1>4 DEF CloseClient
<1>5. ASSUME NEW k \in Closer, CloseCalls(k) PROVE IInv'
  BY <1>5 DEF CloseCalls
<1>6. ASSUME NEW k \in Closer, CloseEnter(k) PROVE IInv'
  BY <1>6 DEF CloseEnter
<1>7. ASSUME NEW k \in Closer, CloseReturns(k) PROVE IInv'
  BY <1>7 DEF CloseReturns
<1> QED
  BY <1>1, <1>2, <1>3, <1>4, <1>5, <1>6, <1>7 DEF CloseNext

LEMMA IInvStep == IInv /\ [Next]_vars => IInv'
<1>1. IInv /\ UNCHANGED vars => IInv'
  BY DEF IInv, TypeOK, Opening, Undoing, Closing, vars, openVars, peerVars, copyVars,
     pipeVars, closeVars
<1> QED
  BY <1>1, OpenStep, UseStep, CloseStep DEF Next, Finished

\* The order of what is opened and closed is kept, whatever the network, the
\* host and the two closers do.
THEOREM Invariance == SafeSpec => []IInv
BY IInvInit, IInvStep, PTL DEF SafeSpec

-----------------------------------------------------------------------------
(* The properties *)

\* The variables of the ssh session have their types.
THEOREM TypeCorrect == SafeSpec => []TypeOK
BY Invariance, PTL DEF IInv

\* An Open that failed has left no connection behind and no goroutine that uses
\* one, whichever of its stages failed, whatever had been opened by then, and
\* whatever the network and the host did during the clean-up.
THEOREM FailedOpens == SafeSpec => []FailedOpenLeavesNothing
<1>1. IInv => FailedOpenLeavesNothing
  BY DEF IInv, Opening, FailedOpenLeavesNothing
<1> QED
  BY <1>1, Invariance, PTL

LEMMA ClosedMeansClosed == IInv => CloseMeansClosed
BY DEF IInv, Closing, CloseMeansClosed

\* When Close returns, to the caller that did the work or to one that came
\* second, stdin, the pipe and the connection are closed.
THEOREM CloseComplete == SafeSpec => []CloseMeansClosed
BY ClosedMeansClosed, Invariance, PTL

\* Output that is in the pipe or with a copier when Close has returned is never
\* read.
THEOREM OutputStops == SafeSpec => NoOutputAfterClose
<1>1. IInv /\ [Next]_vars =>
        [(\E k \in Closer : closer[k] = "back") => got' = got]_got
  <2> SUFFICES ASSUME IInv, [Next]_vars, NEW k \in Closer, closer[k] = "back"
               PROVE  got' = got
    OBVIOUS
  <2>1. pipe = "closed"
    BY ClosedMeansClosed DEF CloseMeansClosed
  <2>2. \A c \in Stream : ~ReadChunk(c)
    BY <2>1 DEF ReadChunk
  <2> QED
    BY <2>2 DEF Next, vars, OpenNext, CloseNext, OutputNext, openVars, peerVars,
       copyVars, pipeVars, closeVars, DialFails, Dial, Handshake, NewSession,
       OpenPipes, RequestPty, Shell, HandshakeFails, NewSessionFails,
       StdinPipeFails, RequestPtyFails, ShellFails, Fails, CleanUp,
       OpenReturnsError, LinkLost, NetBreaks, HostClosesChannel, MuxEnds, CopierTakes, CopierEnds,
       ReadEnds, OutputGoesOn, InputCalls, InputTaken, InputFails,
       InputRejected, CloseStdin, CloseWriter, CloseSession, CloseClient,
       CloseEnter, CloseReturns, CloseCalls, Finished
<1> QED
  BY <1>1, Invariance, PTL DEF SafeSpec, NoOutputAfterClose

=============================================================================
