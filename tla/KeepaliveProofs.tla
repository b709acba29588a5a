-------------------------- MODULE KeepaliveProofs --------------------------
(***************************************************************************)
(* Proofs about Keepalive, for all times and bounds: a browser that        *)
(* answers keeps its session, and one that does not loses it.              *)
(*                                                                         *)
(* The reader takes from the front of a queue, of which the library has a  *)
(* part.  Wait(i) is how long it may take to get to place i, the console   *)
(* not being slow: no step makes a place wait longer, and a tick brings    *)
(* all of them nearer, unless the console is slow.  The invariant compares *)
(* the wait of the pongs with the deadline, for a console that has not     *)
(* been slow (Answered), and with the time since the browser stopped, in   *)
(* which the time the console was slow does not count (Silent).            *)
(***************************************************************************)
EXTENDS ConfigProofs, SequenceTheorems, FiniteSetTheorems

-----------------------------------------------------------------------------
(* The keepalive in time *)

\* How many inputs there are before place i of a queue.
Inputs(queue, i) == Cardinality({ j \in 1 .. i - 1 : queue[j] = "input" })

Ahead(i) == Inputs(Unread, i)

\* What the reader may still need for the input it is writing.
Owed == IF writing = None THEN 0 ELSE ConsoleDelay - writing

\* The time it may need to get to place i.
Wait(i) == Owed + Ahead(i) * ConsoleDelay

\* The time it may need for all that one read from the network can bring.
Batch == InputLimit * ConsoleDelay

\* The times are those of an accepted configuration, and nothing happens before
\* the session starts.
Started ==
    /\ phase # "serving" => session = "none"
    /\ session # "ended" => reason = "none"
    /\ session = "none" =>
          /\ transit = <<>> /\ socket = <<>> /\ buffered = <<>>
          /\ writing = None /\ answers /\ silence = 0
    /\ times \in [interval : Nat, timeout : Nat]
    /\ times.timeout <= TimeLimit /\ times.interval <= TimeLimit
    /\ deadline <= times.timeout /\ ticker <= times.interval

\* What the reader has to write to the console is bounded; what the library has
\* read counts together with the input being written, which was among it.
Load ==
    /\ Ahead(Len(Unread) + 1) <= InputLimit
    /\ Wait(Len(buffered) + 1) <= Batch

\* While the browser answers and the console has not been slow, there is time
\* enough for a pong that has arrived, for one on its way, or for the next.
Answered ==
    session = "active" /\ answers /\ ~slow /\ Margin =>
        \/ \E i \in DOMAIN Unread : Unread[i] = "pong" /\ deadline > Wait(i)
        \/ transit # <<>> /\ deadline > RoundTrip - transit[1] + Backlog
        \/ deadline > ticker + RoundTrip + Backlog

Bound == times.timeout + RoundTrip + Backlog + Batch

\* Since it has stopped, the pongs on their way are older than the silence.
Aged ==
    IF answers THEN silence = 0
    ELSE \A i \in DOMAIN transit : silence <= transit[i]

\* Every pong that has arrived is read while the silence is short.
Early ==
    \A i \in DOMAIN Unread :
        Unread[i] = "pong" => silence + Wait(i) <= RoundTrip + Backlog

\* The deadline as it is ends the session in time, what the library has up to
\* place i being read before.
Due(i) == silence + (IF deadline > 0 THEN deadline + Batch ELSE Wait(i)) <= Bound

Silent == session = "active" => Aged /\ Early /\ Due(Len(buffered) + 1)

IInv ==
    /\ ConfigInv /\ KeepaliveTypeOK
    /\ Started /\ Load /\ Answered /\ Silent
    /\ AnsweringBrowserStays

LEMMA Times ==
    ASSUME ConfigInv, phase = "loaded"
    PROVE  LET c == Configured(config) IN
           /\ c["KeepaliveInterval"] \in Nat /\ c["KeepaliveTimeout"] \in Nat
           /\ c["KeepaliveInterval"] < c["KeepaliveTimeout"]
<1>1. \A k \in Number : config[k] \in Int
  BY NumbersParsed DEF ConfigInv, Results
<1>2. "KeepaliveInterval" \in Number /\ "KeepaliveTimeout" \in Number
      /\ "KeepaliveInterval" \in Positive /\ "KeepaliveTimeout" \in Positive
      /\ "KeepaliveInterval" \in DOMAIN Configured(config)
      /\ "KeepaliveTimeout" \in DOMAIN Configured(config)
  BY DEF Number, Positive, Configured
<1> QED
  BY <1>1, <1>2, Suitable DEF AcceptedSuits

\* Resolve yields values, and a fault that is a setting.
LEMMA ResolveTypes ==
    ASSUME ConfigTypeOK, Resolve
    PROVE  config' \in [Setting -> Value] /\ fault' \in Setting \cup {NoFault}
<1> DEFINE unparsed == { k \in Setting : Resolved[k] = Malformed }
           invalid  == { k \in Setting : ~Checks(Resolved, k) }
<1>1. \A k \in Setting : Default[k] \in Value
  BY DEF Default, Value, Setting, Text, Switch, Positive
<1>2. \A k \in Setting : Resolved[k] \in Value
  <2>1. \A k \in Setting : k \in Key
    BY DEF Key
  <2>2. settings \in [Key -> Value] /\ "IdleTimeout" \in Key
    BY DEF ConfigTypeOK, Key
  <2> QED
    BY <1>1, <2>1, <2>2 DEF Resolved, OrElse
<1>3. Resolved \in [Setting -> Value]
  BY <1>2 DEF Resolved
<1>4. ASSUME NEW order \in Seq(Setting), NEW faults
      PROVE  FirstFault(order, faults) \in Setting \cup {NoFault}
  <2>1. CASE \A i \in DOMAIN order : order[i] \notin faults
    BY <2>1 DEF FirstFault
  <2>2. CASE \E i \in DOMAIN order : order[i] \in faults
    BY <2>2, FaultFound
  <2> QED
    BY <2>1, <2>2
<1>5. FirstFault(ParseOrder, unparsed) \in Setting \cup {NoFault}
      /\ FirstFault(CheckOrder, invalid) \in Setting \cup {NoFault}
  BY <1>4, Ordering
<1>6. config' \in {config, Resolved}
      /\ fault' \in {FirstFault(ParseOrder, unparsed),
                     FirstFault(CheckOrder, invalid)}
  BY DEF Resolve
<1> QED
  BY <1>3, <1>5, <1>6 DEF ConfigTypeOK

LEMMA ConfigTypeInit == ConfigInit => ConfigTypeOK
BY MaxLinesAssumption DEF ConfigInit, ConfigTypeOK, NoSettings, NoEnv, NoConfig,
   Value

LEMMA ConfigTypeStep ==
    ASSUME ConfigTypeOK, [KeepaliveNext]_allVars
    PROVE  ConfigTypeOK'
<1>1. CASE ReadLine
  <2>1. PICK l \in FileLine : /\ lines' = Append(lines, l)
                             /\ settings' = [settings EXCEPT ![l[1]] = l[2]]
    BY <1>1 DEF ReadLine
  <2>2. /\ Len(lines) < MaxLines
        /\ UNCHANGED <<phase, env, config, fault>>
    BY <1>1 DEF ReadLine
  <2>3. l \in Key \X Value
    BY Types
  <2>4. lines' \in Seq(FileLine) /\ Len(lines') <= MaxLines
    BY <2>1, <2>2, MaxLinesAssumption DEF ConfigTypeOK
  <2>5. settings' \in [Key -> Value]
    BY <2>1, <2>3 DEF ConfigTypeOK
  <2> QED
    BY <2>2, <2>4, <2>5 DEF ConfigTypeOK
<1>2. CASE FileFails \/ FileEnds
  BY <1>2 DEF FileFails, FileEnds, ConfigTypeOK
<1>3. CASE LookupEnv
  <2>1. /\ phase' = "resolve" /\ env' \in Environment
        /\ settings' = [k \in Key |-> IF env'[k] = Unset
                                      THEN settings[k] ELSE env'[k]]
        /\ UNCHANGED <<lines, config, fault>>
    BY <1>3 DEF LookupEnv
  <2>2. settings' \in [Key -> Value]
    BY <2>1, Types DEF ConfigTypeOK
  <2> QED
    BY <2>1, <2>2 DEF ConfigTypeOK
<1>4. CASE Resolve
  <2>1. phase' \in {"loaded", "failed"} /\ UNCHANGED <<settings, lines, env>>
    BY <1>4 DEF Resolve
  <2> QED
    BY <1>4, <2>1, ResolveTypes DEF ConfigTypeOK
<1>5. CASE StartSession
  <2>1. /\ phase' = "serving" /\ settings' = NoSettings /\ lines' = <<>>
        /\ env' = NoEnv /\ config' = NoConfig /\ fault' = fault
    BY <1>5 DEF StartSession
  <2> QED
    BY <2>1, Types, MaxLinesAssumption DEF ConfigTypeOK, NoConfig, Value
<1>6. ASSUME \/ Ping \/ PongArrives \/ InputArrives \/ StopsAnswering
             \/ Fetch \/ ReadPong \/ ReadInput \/ ConsoleTakes
             \/ DeadlinePasses \/ EndsOtherwise \/ Tick
             \/ Finished \/ NotFollowed \/ UNCHANGED allVars
      PROVE  UNCHANGED configVars
  BY <1>6 DEF Ping, PongArrives, InputArrives, StopsAnswering, Fetch, ReadPong,
     ReadInput, ConsoleTakes, DeadlinePasses, EndsOtherwise, Ends, Tick,
     Finished, NotFollowed, allVars
<1>7. UNCHANGED configVars => ConfigTypeOK'
  BY DEF configVars, ConfigTypeOK
<1> QED
  BY <1>1, <1>2, <1>3, <1>4, <1>5, <1>6, <1>7 DEF KeepaliveNext, ConfigNext

\* What a step does to the sequences keeps them such.
LEMMA SeqTypes ==
    ASSUME NEW S, NEW s \in Seq(S), NEW t \in Seq(S)
    PROVE  /\ <<>> \in Seq(S)
           /\ \A x \in S : Append(s, x) \in Seq(S)
           /\ s # <<>> => Tail(s) \in Seq(S)
           /\ \A n \in 0 .. Len(s) : SubSeq(s, 1, n) \in Seq(S)
           /\ \A n \in 0 .. Len(s) : SubSeq(s, n + 1, Len(s)) \in Seq(S)
<1>1. <<>> \in Seq(S)
  BY EmptySeq
<1>2. \A x \in S : Append(s, x) \in Seq(S)
  BY AppendProperties
<1>3. s # <<>> => Tail(s) \in Seq(S)
  BY HeadTailProperties
<1>4. ASSUME NEW n \in 0 .. Len(s)
      PROVE  SubSeq(s, 1, n) \in Seq(S) /\ SubSeq(s, n + 1, Len(s)) \in Seq(S)
  <2>1. Len(s) \in Nat /\ \A i \in 1 .. Len(s) : s[i] \in S
    BY LenProperties, ElementOfSeq
  <2> QED
    BY <2>1, <1>4, SubSeqProperties
<1> QED
  BY <1>1, <1>2, <1>3, <1>4

LEMMA Kinds == "pong" \in {"pong", "input"} /\ "input" \in {"pong", "input"}
OBVIOUS

LEMMA TypeStep ==
    ASSUME ConfigInv, KeepaliveTypeOK, Started, [KeepaliveNext]_allVars
    PROVE  KeepaliveTypeOK'
<1> DEFINE Kind == {"pong", "input"}
           Rest == /\ session \in {"none", "active", "ended"}
                   /\ reason \in {"none", "keepalive_timeout", "other"}
                   /\ deadline \in 0 .. TimeLimit /\ ticker \in 0 .. TimeLimit
                   /\ transit \in Seq(0 .. RoundTrip)
                   /\ socket \in Seq(Kind) /\ buffered \in Seq(Kind)
                   /\ writing \in 0 .. ConsoleDelay \cup {None}
                   /\ silence \in Nat
<1>1. ConfigTypeOK' /\ ConfigTypeOK /\ Rest /\ answers \in BOOLEAN
      /\ slow \in BOOLEAN
  BY ConfigTypeStep DEF KeepaliveTypeOK
<1>2. RoundTrip \in Nat /\ ConsoleDelay \in Nat /\ TimeLimit \in Nat
  BY KeepaliveAssumption
<1>3. answers' \in BOOLEAN
  <2>1. answers' = answers \/ answers' = FALSE
    BY DEF KeepaliveNext, keepaliveVars, networkVars, allVars, StartSession,
       Ping, PongArrives, InputArrives, StopsAnswering, Fetch, ReadPong,
       ReadInput, ConsoleTakes, DeadlinePasses, EndsOtherwise, Ends, Tick,
       Finished, NotFollowed
  <2> QED
    BY <1>1, <2>1
<1>17. slow' \in BOOLEAN
  <2>1. CASE Tick
    BY <2>1, Zenon DEF Tick
  <2>2. CASE ~Tick
    <3>1. slow' = slow
      BY <2>2 DEF KeepaliveNext, keepaliveVars, readerVars, consoleVars, allVars,
         StartSession, Ping, PongArrives, InputArrives, StopsAnswering, Fetch,
         ReadPong, ReadInput, ConsoleTakes, DeadlinePasses, EndsOtherwise, Ends,
         Finished, NotFollowed
    <3> QED
      BY <1>1, <3>1
  <2> QED
    BY <2>1, <2>2
<1>4. ASSUME UNCHANGED keepaliveVars PROVE Rest'
  BY <1>1, <1>4 DEF keepaliveVars, networkVars, readerVars, consoleVars
<1>5. ASSUME StartSession PROVE Rest'
  <2>1. /\ session' = "active"
        /\ deadline' = Configured(config)["KeepaliveTimeout"]
        /\ ticker' = Configured(config)["KeepaliveInterval"]
        /\ phase = "loaded" /\ Configured(config)["KeepaliveTimeout"] <= TimeLimit
        /\ UNCHANGED <<reason, transit, socket, buffered, writing, silence>>
    BY <1>5 DEF StartSession, networkVars, readerVars, consoleVars
  <2>2. deadline' \in 0 .. TimeLimit /\ ticker' \in 0 .. TimeLimit
    BY <1>2, <2>1, Times
  <2> QED
    BY <1>1, <2>1, <2>2
<1>6. ASSUME Ping PROVE Rest'
  <2>1. /\ ticker' = times.interval
        /\ transit' \in {transit, Append(transit, 0)}
        /\ UNCHANGED <<session, reason, deadline, socket, buffered, writing,
                       silence>>
    BY <1>6 DEF Ping, readerVars, consoleVars
  <2>2. transit' \in Seq(0 .. RoundTrip)
    <3>1. 0 \in 0 .. RoundTrip
      BY <1>2
    <3>2. Append(transit, 0) \in Seq(0 .. RoundTrip)
      BY <1>1, <3>1, SeqTypes
    <3> QED
      BY <1>1, <2>1, <3>2
  <2>3. ticker' \in 0 .. TimeLimit
    BY <1>2, <2>1 DEF Started
  <2> QED
    BY <1>1, <2>1, <2>2, <2>3
<1>7. ASSUME PongArrives PROVE Rest'
  <2>1. /\ transit # <<>>
        /\ transit' = Tail(transit)
        /\ socket' = Append(socket, "pong")
        /\ UNCHANGED <<session, reason, deadline, ticker, buffered, writing,
                       silence>>
    BY <1>7 DEF PongArrives, readerVars, consoleVars
  <2>2. transit' \in Seq(0 .. RoundTrip) /\ socket' \in Seq(Kind)
    BY <1>1, <2>1, SeqTypes, Kinds
  <2> QED
    BY <1>1, <2>1, <2>2
<1>8. ASSUME InputArrives PROVE Rest'
  <2>1. /\ socket' = Append(socket, "input")
        /\ UNCHANGED <<session, reason, deadline, ticker, transit, buffered,
                       writing, silence>>
    BY <1>8 DEF InputArrives, readerVars, consoleVars
  <2>2. socket' \in Seq(Kind)
    BY <1>1, <2>1, SeqTypes, Kinds
  <2> QED
    BY <1>1, <2>1, <2>2
<1>9. ASSUME StopsAnswering PROVE Rest'
  <2>1. /\ \E n \in 0 .. Len(transit) : transit' = SubSeq(transit, 1, n)
        /\ UNCHANGED <<session, reason, deadline, ticker, socket, buffered,
                       writing, silence>>
    BY <1>9 DEF StopsAnswering, readerVars, consoleVars
  <2>2. transit' \in Seq(0 .. RoundTrip)
    BY <1>1, <2>1, SeqTypes
  <2> QED
    BY <1>1, <2>1, <2>2
<1>10. ASSUME Fetch PROVE Rest'
  <2>1. PICK n \in 1 .. Len(socket) :
          /\ buffered' = SubSeq(socket, 1, n)
          /\ socket' = SubSeq(socket, n + 1, Len(socket))
    BY <1>10 DEF Fetch
  <2>2. UNCHANGED <<session, reason, deadline, ticker, transit, writing, silence>>
    BY <1>10 DEF Fetch, consoleVars
  <2>3. n \in 0 .. Len(socket)
    OBVIOUS
  <2>4. buffered' \in Seq(Kind) /\ socket' \in Seq(Kind)
    BY <1>1, <2>1, <2>3, SeqTypes
  <2> QED
    BY <1>1, <2>2, <2>4
<1>11. ASSUME ReadPong \/ ReadInput PROVE Rest'
  <2>1. /\ buffered # <<>> /\ buffered' = Tail(buffered)
        /\ deadline' \in {deadline, times.timeout}
        /\ writing' \in {writing, 0}
        /\ UNCHANGED <<session, reason, ticker, transit, socket, silence>>
    BY <1>11 DEF ReadPong, ReadInput, networkVars, consoleVars
  <2>2. buffered' \in Seq(Kind)
    BY <1>1, <2>1, SeqTypes
  <2>3. deadline' \in 0 .. TimeLimit
    BY <1>1, <1>2, <2>1 DEF Started
  <2>4. writing' \in 0 .. ConsoleDelay \cup {None}
    BY <1>1, <1>2, <2>1
  <2> QED
    BY <1>1, <2>1, <2>2, <2>3, <2>4
<1>12. ASSUME ConsoleTakes PROVE Rest'
  BY <1>1, <1>12 DEF ConsoleTakes, networkVars
<1>13. ASSUME DeadlinePasses \/ EndsOtherwise PROVE Rest'
  BY <1>1, <1>13 DEF DeadlinePasses, EndsOtherwise, Ends, networkVars, readerVars, consoleVars
<1>14. ASSUME Tick PROVE Rest'
  <2>1. /\ ticker > 0 /\ \A i \in DOMAIN transit : transit[i] < RoundTrip
        /\ ticker' = ticker - 1
        /\ deadline' = IF deadline = 0 THEN 0 ELSE deadline - 1
        /\ transit' = [i \in DOMAIN transit |-> transit[i] + 1]
        /\ writing' = IF writing = None \/ writing = ConsoleDelay THEN writing
                      ELSE writing + 1
        /\ silence' \in {silence, silence + 1}
        /\ UNCHANGED <<session, reason, socket, buffered>>
    BY <1>14 DEF Tick, Idle, Held
  <2>2. ticker' \in 0 .. TimeLimit /\ deadline' \in 0 .. TimeLimit
    BY <1>1, <1>2, <2>1
  <2>3. transit' \in Seq(0 .. RoundTrip)
    <3>1. /\ transit \in Seq(0 .. RoundTrip) /\ RoundTrip \in Nat
          /\ \A i \in DOMAIN transit : transit[i] < RoundTrip
          /\ transit' = [i \in DOMAIN transit |-> transit[i] + 1]
      BY <1>1, <1>2, <2>1
    <3>2. /\ Len(transit) \in Nat /\ DOMAIN transit = 1 .. Len(transit)
          /\ \A i \in 1 .. Len(transit) : transit[i] \in 0 .. RoundTrip
      BY <3>1, LenProperties, ElementOfSeq
    <3>3. transit' \in [1 .. Len(transit) -> 0 .. RoundTrip]
      BY <3>1, <3>2
    <3> QED
      BY <3>2, <3>3, SeqDef
  <2>4. writing' \in 0 .. ConsoleDelay \cup {None} /\ silence' \in Nat
    BY <1>1, <1>2, <2>1 DEF None
  <2> QED
    BY <1>1, <2>1, <2>2, <2>3, <2>4
<1>15. ASSUME Finished \/ NotFollowed \/ UNCHANGED allVars
       PROVE  UNCHANGED keepaliveVars
  BY <1>15 DEF Finished, NotFollowed, allVars
<1>16. Rest'
  BY <1>4, <1>5, <1>6, <1>7, <1>8, <1>9, <1>10, <1>11, <1>12, <1>13, <1>14,
     <1>15 DEF KeepaliveNext
<1> QED
  BY <1>1, <1>3, <1>16, <1>17 DEF KeepaliveTypeOK

-----------------------------------------------------------------------------
(* The inputs before a place *)

LEMMA InputsCounted ==
    ASSUME NEW q, NEW i \in Int
    PROVE  /\ IsFiniteSet({ j \in 1 .. i - 1 : q[j] = "input" })
           /\ Inputs(q, i) \in Nat
<1> DEFINE before == { j \in 1 .. i - 1 : q[j] = "input" }
<1>1. IsFiniteSet(1 .. i - 1)
  BY FS_Interval
<1>2. IsFiniteSet(before)
  BY <1>1, FS_Subset
<1> QED
  BY <1>2, FS_CardinalityType DEF Inputs

LEMMA InputsNone == ASSUME NEW q PROVE Inputs(q, 1) = 0
<1>1. { j \in 1 .. 1 - 1 : q[j] = "input" } = {}
  OBVIOUS
<1> QED
  BY <1>1, FS_EmptySet DEF Inputs

LEMMA InputsGrow ==
    ASSUME NEW q, NEW i \in Int, NEW k \in Int, i <= k
    PROVE  Inputs(q, i) <= Inputs(q, k)
<1>1. { j \in 1 .. i - 1 : q[j] = "input" }
         \subseteq { j \in 1 .. k - 1 : q[j] = "input" }
  OBVIOUS
<1> QED
  BY <1>1, InputsCounted, FS_Subset DEF Inputs

\* What comes after a place does not matter to it.
LEMMA InputsSame ==
    ASSUME NEW q, NEW r, NEW i \in Int, \A j \in 1 .. i - 1 : r[j] = q[j]
    PROVE  Inputs(r, i) = Inputs(q, i)
<1>1. { j \in 1 .. i - 1 : r[j] = "input" } = { j \in 1 .. i - 1 : q[j] = "input" }
  OBVIOUS
<1> QED
  BY <1>1 DEF Inputs

LEMMA InputsAppended ==
    ASSUME NEW q, NEW r, NEW i \in Nat, \A j \in 1 .. i : r[j] = q[j]
    PROVE  Inputs(r, i + 2) <= Inputs(q, i + 1) + 1
<1> DEFINE before == { j \in 1 .. (i + 1) - 1 : q[j] = "input" }
           longer == { j \in 1 .. (i + 2) - 1 : r[j] = "input" }
<1>1. IsFiniteSet(before) /\ IsFiniteSet(longer)
      /\ Cardinality(before) \in Nat /\ Cardinality(longer) \in Nat
  <2>1. i + 1 \in Int /\ i + 2 \in Int
    OBVIOUS
  <2> QED
    BY <2>1, InputsCounted, FS_CardinalityType
<1>2. longer \subseteq before \cup {i + 1}
  OBVIOUS
<1>3. IsFiniteSet(before \cup {i + 1})
      /\ Cardinality(before \cup {i + 1}) <= Cardinality(before) + 1
  <2> HIDE DEF before
  <2>1. /\ IsFiniteSet(before \cup {i + 1})
        /\ Cardinality(before \cup {i + 1}) =
              IF i + 1 \in before THEN Cardinality(before)
              ELSE Cardinality(before) + 1
    BY <1>1, FS_AddElement
  <2> QED
    BY <1>1, <2>1
<1>4. Cardinality(longer) <= Cardinality(before \cup {i + 1})
  BY <1>2, <1>3, FS_Subset
<1>5. Cardinality(before \cup {i + 1}) \in Nat
  BY <1>3, FS_CardinalityType
<1> QED
  BY <1>1, <1>3, <1>4, <1>5 DEF Inputs

\* Whoever reads the first of the queue brings the others a place forward.
LEMMA InputsRead ==
    ASSUME NEW q, NEW r, NEW i \in Nat, i >= 2,
           \A j \in 1 .. i - 2 : r[j] = q[j + 1]
    PROVE  /\ Inputs(r, i - 1) <= Inputs(q, i)
           /\ q[1] = "input" => Inputs(r, i - 1) + 1 <= Inputs(q, i)
<1> DEFINE before == { j \in 1 .. i - 1 : q[j] = "input" }
           left   == { j \in 1 .. (i - 1) - 1 : r[j] = "input" }
           moved  == { j - 1 : j \in before \ {1} }
<1>1. IsFiniteSet(before) /\ IsFiniteSet(left) /\ IsFiniteSet(before \ {1})
  <2>1. i \in Int /\ i - 1 \in Int
    OBVIOUS
  <2>2. IsFiniteSet(before) /\ IsFiniteSet(left)
    BY <2>1, InputsCounted
  <2> QED
    BY <2>2, FS_RemoveElement
<1>2. left \subseteq moved
  <2> SUFFICES ASSUME NEW j \in left PROVE j \in moved
    OBVIOUS
  <2>1. j + 1 \in before \ {1} /\ j = (j + 1) - 1
    OBVIOUS
  <2> QED
    BY <2>1
<1>3. IsFiniteSet(moved) /\ Cardinality(moved) <= Cardinality(before \ {1})
  <2> DEFINE back == [j \in before \ {1} |-> j - 1]
  <2>1. back \in Surjection(before \ {1}, moved)
    BY DEF Surjection
  <2> QED
    BY <1>1, <2>1, FS_Surjection
<1>4. Cardinality(left) <= Cardinality(moved)
  BY <1>2, <1>3, FS_Subset
<1>5. /\ Cardinality(left) \in Nat /\ Cardinality(moved) \in Nat
      /\ Cardinality(before) \in Nat /\ Cardinality(before \ {1}) \in Nat
  BY <1>1, <1>3, FS_CardinalityType
<1>6. Cardinality(before \ {1}) =
         IF 1 \in before THEN Cardinality(before) - 1 ELSE Cardinality(before)
  BY <1>1, FS_RemoveElement
<1>7. q[1] = "input" => 1 \in before
  OBVIOUS
<1>8. Inputs(r, i - 1) = Cardinality(left) /\ Inputs(q, i) = Cardinality(before)
  BY DEF Inputs
<1> QED
  <2> HIDE DEF before, left, moved
  <2> QED
    BY <1>3, <1>4, <1>5, <1>6, <1>7, <1>8

LEMMA InputsIgnore ==
    ASSUME NEW q, NEW r, NEW i \in Nat, \A j \in 1 .. i : r[j] = q[j],
           r[i + 1] # "input"
    PROVE  Inputs(r, i + 2) = Inputs(q, i + 1)
<1>1. { j \in 1 .. (i + 2) - 1 : r[j] = "input" }
         = { j \in 1 .. (i + 1) - 1 : q[j] = "input" }
  OBVIOUS
<1> QED
  BY <1>1 DEF Inputs

LEMMA Products ==
    ASSUME NEW a \in Nat, NEW b \in Nat, NEW d \in Nat
    PROVE  /\ a * d \in Nat
           /\ (a + 1) * d = a * d + d
           /\ a <= b => a * d <= b * d
           /\ a + 1 <= b => a * d + d <= b * d
<1>1. /\ a * d \in Nat
      /\ (a + 1) * d = a * d + d
  OBVIOUS
<1>2. ASSUME NEW m \in Nat, NEW n \in Nat, m <= n
      PROVE  m * d <= n * d
  <2>1. n * d = m * d + (n - m) * d /\ n - m \in Nat /\ m * d \in Nat
    BY <1>2
  <2>2. (n - m) * d \in Nat
    BY <2>1
  <2> QED
    BY <2>1, <2>2
<1> QED
  BY <1>1, <1>2

-----------------------------------------------------------------------------
(* The time to a place *)

LEMMA Queue ==
    ASSUME KeepaliveTypeOK
    PROVE  /\ Unread \in Seq({"pong", "input"})
           /\ Len(Unread) = Len(buffered) + Len(socket)
           /\ Len(buffered) \in Nat /\ Len(socket) \in Nat
           /\ \A i \in 1 .. Len(buffered) : Unread[i] = buffered[i]
           /\ \A i \in 1 .. Len(socket) : Unread[Len(buffered) + i] = socket[i]
<1>1. buffered \in Seq({"pong", "input"}) /\ socket \in Seq({"pong", "input"})
  BY DEF KeepaliveTypeOK
<1>2. Len(buffered) \in Nat /\ Len(socket) \in Nat
  BY <1>1, LenProperties
<1>3. /\ Unread \in Seq({"pong", "input"})
      /\ Len(Unread) = Len(buffered) + Len(socket)
      /\ \A i \in 1 .. Len(buffered) + Len(socket) :
            Unread[i] = IF i <= Len(buffered) THEN buffered[i]
                        ELSE socket[i - Len(buffered)]
  BY <1>1, ConcatProperties DEF Unread
<1> HIDE DEF Unread
<1>4. \A i \in 1 .. Len(buffered) : Unread[i] = buffered[i]
  BY <1>2, <1>3
<1>5. ASSUME NEW i \in 1 .. Len(socket)
      PROVE  Unread[Len(buffered) + i] = socket[i]
  <2>1. /\ Len(buffered) + i \in 1 .. Len(buffered) + Len(socket)
        /\ ~(Len(buffered) + i <= Len(buffered))
        /\ (Len(buffered) + i) - Len(buffered) = i
    BY <1>2
  <2> QED
    BY <1>3, <2>1
<1> QED
  BY <1>2, <1>3, <1>4, <1>5

LEMMA WaitTypes ==
    ASSUME KeepaliveTypeOK
    PROVE  /\ Owed \in 0 .. ConsoleDelay
           /\ \A i \in Int : /\ Ahead(i) \in Nat
                             /\ Ahead(i) * ConsoleDelay \in Nat
                             /\ Wait(i) \in Nat
                             /\ Wait(i) = Owed + Ahead(i) * ConsoleDelay
           /\ Batch \in Nat
           /\ Backlog = Batch + ConsoleDelay
           /\ {RoundTrip, ConsoleDelay, InputLimit, TimeLimit} \subseteq Nat
<1>1. {RoundTrip, ConsoleDelay, InputLimit, TimeLimit} \subseteq Nat
  BY KeepaliveAssumption
<1>2. Owed \in 0 .. ConsoleDelay
  BY <1>1 DEF KeepaliveTypeOK, Owed, None
<1>3. ASSUME NEW i \in Int
      PROVE  /\ Ahead(i) \in Nat /\ Ahead(i) * ConsoleDelay \in Nat
             /\ Wait(i) = Owed + Ahead(i) * ConsoleDelay
  <2>1. Ahead(i) \in Nat
    BY InputsCounted DEF Ahead
  <2>2. Ahead(i) * ConsoleDelay \in Nat
    BY <1>1, <2>1, Products
  <2> QED
    BY <2>1, <2>2 DEF Wait
<1>4. Batch \in Nat
      /\ Backlog = Batch + ConsoleDelay
  BY <1>1, Products DEF Backlog, Batch
<1> QED
  BY <1>1, <1>2, <1>3, <1>4

LEMMA WaitGrows ==
    ASSUME KeepaliveTypeOK, NEW i \in Int, NEW k \in Int, i <= k
    PROVE  Wait(i) <= Wait(k)
<1>1. Ahead(i) <= Ahead(k)
  BY InputsGrow DEF Ahead
<1>2. Ahead(i) * ConsoleDelay <= Ahead(k) * ConsoleDelay
  BY <1>1, WaitTypes, Products
<1> QED
  BY <1>2, WaitTypes

\* Nobody waits longer than the backlog.
LEMMA WaitBounded ==
    ASSUME KeepaliveTypeOK, Load, NEW i \in 1 .. Len(Unread) + 1
    PROVE  /\ Wait(i) <= Backlog
           /\ Owed = 0 => Wait(i) <= Batch
<1>1. i \in Int /\ Len(Unread) + 1 \in Int /\ i <= Len(Unread) + 1
  BY Queue
<1>2. Ahead(i) <= Ahead(Len(Unread) + 1)
  BY <1>1, InputsGrow DEF Ahead
<1>3. Ahead(i) <= InputLimit
  <2>1. Ahead(Len(Unread) + 1) <= InputLimit
    BY DEF Load
  <2>2. Ahead(i) \in Nat /\ Ahead(Len(Unread) + 1) \in Nat /\ InputLimit \in Nat
    BY <1>1, WaitTypes
  <2> QED
    BY <1>2, <2>1, <2>2
<1>4. Ahead(i) * ConsoleDelay <= Batch
  BY <1>1, <1>3, WaitTypes, Products DEF Batch
<1>5. /\ Wait(i) = Owed + Ahead(i) * ConsoleDelay
      /\ Ahead(i) * ConsoleDelay \in Nat /\ Batch \in Nat
      /\ Backlog = Batch + ConsoleDelay
      /\ ConsoleDelay \in Nat /\ Owed \in 0 .. ConsoleDelay
  BY <1>1, WaitTypes
<1> QED
  BY <1>4, <1>5

WaitTyped ==
    \A i \in Int : /\ Ahead(i) \in Nat
                   /\ Ahead(i) * ConsoleDelay \in Nat
                   /\ Wait(i) \in Nat
                   /\ Wait(i) = Owed + Ahead(i) * ConsoleDelay
                   /\ Owed \in 0 .. ConsoleDelay

QueueTyped ==
    /\ Len(Unread) = Len(buffered) + Len(socket)
    /\ Len(buffered) \in Nat /\ Len(socket) \in Nat
    /\ \A i \in 1 .. Len(buffered) : Unread[i] = buffered[i]
    /\ \A i \in 1 .. Len(socket) : Unread[Len(buffered) + i] = socket[i]

\* The same of the next state.
LEMMA TypedNext == KeepaliveTypeOK' => WaitTyped' /\ QueueTyped'
<1>1. KeepaliveTypeOK => WaitTyped
  BY WaitTypes DEF WaitTyped
<1>2. KeepaliveTypeOK => QueueTyped
  BY Queue DEF QueueTyped
<1> QED
  BY <1>1, <1>2, PTL

LEMMA WaitTypesNext ==
    ASSUME KeepaliveTypeOK'
    PROVE  \A i \in Int : /\ Ahead(i)' \in Nat
                          /\ Ahead(i)' * ConsoleDelay \in Nat
                          /\ Wait(i)' \in Nat
                          /\ Wait(i)' = Owed' + Ahead(i)' * ConsoleDelay
                          /\ Owed' \in 0 .. ConsoleDelay
BY TypedNext DEF WaitTyped

LEMMA QueueNext ==
    ASSUME KeepaliveTypeOK'
    PROVE  /\ Len(Unread') = Len(buffered') + Len(socket')
           /\ Len(buffered') \in Nat /\ Len(socket') \in Nat
           /\ \A i \in 1 .. Len(buffered') : Unread'[i] = buffered'[i]
           /\ \A i \in 1 .. Len(socket') :
                 Unread'[Len(buffered') + i] = socket'[i]
BY TypedNext DEF QueueTyped

\* What the queue and the reader's write are decides how long a place waits.
LEMMA WaitKept ==
    ASSUME KeepaliveTypeOK, KeepaliveTypeOK', Unread' = Unread,
           writing' = writing
    PROVE  \A i \in Int : Wait(i)' = Wait(i) /\ Ahead(i)' = Ahead(i)
BY DEF Wait, Ahead, Owed, Inputs

\* What arrives queues up behind the rest.
LEMMA WaitArrival ==
    ASSUME KeepaliveTypeOK, KeepaliveTypeOK',
           UNCHANGED <<buffered, writing>>,
           NEW m \in {"pong", "input"}, socket' = Append(socket, m)
    PROVE  /\ Len(Unread') = Len(Unread) + 1
           /\ Unread'[Len(Unread) + 1] = m
           /\ \A i \in 1 .. Len(Unread) : Unread'[i] = Unread[i]
           /\ \A i \in 1 .. Len(Unread) + 1 : Wait(i)' = Wait(i)
           /\ Ahead(Len(Unread) + 1)' <= Ahead(Len(Unread) + 1) + 1
           /\ m = "pong" =>
                 Ahead(Len(Unread) + 1)' = Ahead(Len(Unread) + 1)
<1>1. /\ Len(socket') = Len(socket) + 1 /\ socket'[Len(socket) + 1] = m
      /\ \A i \in 1 .. Len(socket) : socket'[i] = socket[i]
  BY AppendProperties DEF KeepaliveTypeOK
<1>2. /\ Len(Unread) \in Nat /\ Len(Unread') = Len(Unread) + 1
      /\ Len(Unread) = Len(buffered) + Len(socket)
      /\ Len(buffered) \in Nat /\ Len(socket) \in Nat
  BY <1>1, Queue, QueueNext
<1>3. Unread'[Len(Unread) + 1] = m
  <2>1. Len(socket) + 1 \in 1 .. Len(socket')
    BY <1>1, <1>2
  <2>2. Unread'[Len(buffered') + (Len(socket) + 1)] = socket'[Len(socket) + 1]
    BY <2>1, QueueNext
  <2>3. Len(buffered') + (Len(socket) + 1) = Len(Unread) + 1
    BY <1>2
  <2> QED
    BY <1>1, <2>2, <2>3
<1>4. ASSUME NEW i \in 1 .. Len(Unread) PROVE Unread'[i] = Unread[i]
  <2>1. CASE i <= Len(buffered)
    <3>1. i \in 1 .. Len(buffered) /\ i \in 1 .. Len(buffered')
      BY <1>2, <2>1
    <3>2. Unread[i] = buffered[i] /\ Unread'[i] = buffered'[i]
      BY <3>1, Queue, QueueNext
    <3> QED
      BY <3>2
  <2>2. CASE ~(i <= Len(buffered))
    <3> DEFINE j == i - Len(buffered)
    <3>1. /\ j \in 1 .. Len(socket) /\ j \in 1 .. Len(socket')
          /\ i = Len(buffered) + j
      BY <1>1, <1>2, <2>2
    <3> HIDE DEF j
    <3>2. Unread[Len(buffered) + j] = socket[j]
          /\ Unread'[Len(buffered') + j] = socket'[j]
      BY <3>1, Queue, QueueNext
    <3> QED
      BY <1>1, <3>1, <3>2
  <2> QED
    BY <2>1, <2>2
<1>5. ASSUME NEW i \in 1 .. Len(Unread) + 1 PROVE Wait(i)' = Wait(i)
  <2>1. Ahead(i)' = Ahead(i)
    <3>1. i \in Int /\ \A j \in 1 .. i - 1 : Unread'[j] = Unread[j]
      BY <1>2, <1>4
    <3>2. { j \in 1 .. i - 1 : Unread'[j] = "input" }
             = { j \in 1 .. i - 1 : Unread[j] = "input" }
      BY <3>1
    <3> QED
      BY <3>2 DEF Ahead, Inputs
  <2>2. Owed' = Owed
    BY DEF Owed
  <2> QED
    BY <2>1, <2>2 DEF Wait
<1>6. Ahead(Len(Unread) + 1)' = Inputs(Unread', Len(Unread) + 2)
      /\ Ahead(Len(Unread) + 1) = Inputs(Unread, Len(Unread) + 1)
  <2>1. Ahead(Len(Unread) + 1)' = Inputs(Unread', Len(Unread') + 1)
    BY DEF Ahead, Inputs
  <2>2. Len(Unread') + 1 = Len(Unread) + 2
    BY <1>2
  <2> QED
    BY <2>1, <2>2 DEF Ahead
<1>7. Inputs(Unread', Len(Unread) + 2) <= Inputs(Unread, Len(Unread) + 1) + 1
  BY <1>2, <1>4, InputsAppended
<1>8. m = "pong" =>
         Inputs(Unread', Len(Unread) + 2) = Inputs(Unread, Len(Unread) + 1)
  BY <1>2, <1>3, <1>4, InputsIgnore
<1> QED
  BY <1>2, <1>3, <1>4, <1>5, <1>6, <1>7, <1>8

\* Fetching only moves the bound of what the library has.
LEMMA WaitFetch ==
    ASSUME KeepaliveTypeOK, KeepaliveTypeOK', Fetch
    PROVE  Unread' = Unread
<1>1. PICK n \in 1 .. Len(socket) :
         /\ buffered' = SubSeq(socket, 1, n)
         /\ socket' = SubSeq(socket, n + 1, Len(socket))
  BY DEF Fetch
<1>2. /\ buffered = <<>> /\ socket \in Seq({"pong", "input"})
      /\ Len(socket) \in Nat
  BY LenProperties DEF Fetch, KeepaliveTypeOK
<1>3. Unread = socket
  BY <1>2 DEF Unread
<1>4. Unread' = SubSeq(socket, 1, n) \o SubSeq(socket, n + 1, Len(socket))
  BY <1>1 DEF Unread
<1>5. SubSeq(socket, 1, n) \o SubSeq(socket, n + 1, Len(socket)) = socket
  <2>1. n \in 1 .. Len(socket)
    OBVIOUS
  <2> HIDE <1>1, <1>3, <1>4
  <2> QED
    BY <1>2, <2>1
<1> QED
  BY <1>3, <1>4, <1>5

\* Who reads brings everybody behind a place forward, and the time to get there
\* does not grow: an input that is read is an input that is being written.
LEMMA WaitRead ==
    ASSUME KeepaliveTypeOK, KeepaliveTypeOK', ReadPong \/ ReadInput
    PROVE  /\ Len(Unread) \in Nat /\ Len(Unread') = Len(Unread) - 1
           /\ Len(buffered) \in Nat /\ Len(buffered') = Len(buffered) - 1
           /\ Len(buffered) <= Len(Unread)
           /\ \A i \in 1 .. Len(Unread) - 1 : Unread'[i] = Unread[i + 1]
           /\ \A i \in 1 .. Len(Unread) : /\ Wait(i)' <= Wait(i + 1)
                                          /\ Ahead(i)' <= Ahead(i + 1)
           /\ Unread[1] = Head(buffered)
<1>1. /\ buffered # <<>> /\ buffered' = Tail(buffered) /\ socket' = socket
      /\ writing = None
      /\ \/ Head(buffered) = "pong" /\ writing' = None
         \/ Head(buffered) = "input" /\ writing' = 0
  BY DEF ReadPong, ReadInput, networkVars, consoleVars, Reading
<1>2. /\ Len(buffered) \in Nat \ {0} /\ Len(buffered') = Len(buffered) - 1
      /\ \A i \in 1 .. Len(buffered) - 1 : buffered'[i] = buffered[i + 1]
      /\ Head(buffered) = buffered[1]
  <2>1. buffered \in Seq({"pong", "input"})
    BY DEF KeepaliveTypeOK
  <2>2. /\ Tail(buffered) \in Seq({"pong", "input"})
        /\ Len(Tail(buffered)) = Len(buffered) - 1
        /\ \A i \in 1 .. Len(Tail(buffered)) : Tail(buffered)[i] = buffered[i + 1]
        /\ Head(buffered) = buffered[1]
    BY <1>1, <2>1, HeadTailProperties
  <2>3. Len(buffered) \in Nat /\ Len(buffered) # 0
    BY <1>1, <2>1, LenProperties, EmptySeq
  <2> QED
    BY <1>1, <2>2, <2>3
<1>3. /\ Len(Unread) = Len(buffered) + Len(socket) /\ Len(socket) \in Nat
      /\ Len(Unread') = Len(Unread) - 1
  BY <1>1, <1>2, Queue, QueueNext
<1>4. Unread[1] = Head(buffered)
  BY <1>2, Queue
<1>5. ASSUME NEW i \in 1 .. Len(Unread) - 1 PROVE Unread'[i] = Unread[i + 1]
  <2>1. CASE i <= Len(buffered) - 1
    <3>1. i \in 1 .. Len(buffered') /\ i + 1 \in 1 .. Len(buffered)
      BY <1>2, <2>1
    <3>2. Unread'[i] = buffered'[i] /\ Unread[i + 1] = buffered[i + 1]
      BY <3>1, Queue, QueueNext
    <3> QED
      BY <1>2, <2>1, <3>2
  <2>2. CASE ~(i <= Len(buffered) - 1)
    <3> DEFINE j == i + 1 - Len(buffered)
    <3>1. /\ j \in 1 .. Len(socket)
          /\ i + 1 = Len(buffered) + j /\ i = Len(buffered') + j
      BY <1>2, <1>3, <2>2
    <3> HIDE DEF j
    <3>2. Unread[Len(buffered) + j] = socket[j]
          /\ Unread'[Len(buffered') + j] = socket'[j]
      BY <1>1, <3>1, Queue, QueueNext
    <3> QED
      BY <1>1, <3>1, <3>2
  <2> QED
    BY <2>1, <2>2
<1>6. ASSUME NEW i \in 1 .. Len(Unread)
      PROVE  /\ Ahead(i)' <= Ahead(i + 1)
             /\ Wait(i)' <= Wait(i + 1)
  <2>1. /\ Inputs(Unread', i) <= Inputs(Unread, i + 1)
        /\ Unread[1] = "input" =>
              Inputs(Unread', i) + 1 <= Inputs(Unread, i + 1)
    <3>1. i + 1 \in Nat /\ i + 1 >= 2 /\ (i + 1) - 1 = i /\ (i + 1) - 2 = i - 1
      BY <1>2, <1>3
    <3>2. \A j \in 1 .. (i + 1) - 2 : Unread'[j] = Unread[j + 1]
      BY <1>2, <1>3, <1>5
    <3>3. /\ Inputs(Unread', (i + 1) - 1) <= Inputs(Unread, i + 1)
          /\ Unread[1] = "input" =>
                Inputs(Unread', (i + 1) - 1) + 1 <= Inputs(Unread, i + 1)
      BY <3>1, <3>2, InputsRead
    <3> QED
      BY <3>1, <3>3
  <2>2. Ahead(i)' = Inputs(Unread', i) /\ Ahead(i + 1) = Inputs(Unread, i + 1)
    BY DEF Ahead, Inputs
  <2>3. /\ Ahead(i)' \in Nat /\ Ahead(i + 1) \in Nat /\ ConsoleDelay \in Nat
        /\ Ahead(i)' * ConsoleDelay \in Nat
        /\ Ahead(i + 1) * ConsoleDelay \in Nat
        /\ Wait(i)' = Owed' + Ahead(i)' * ConsoleDelay
        /\ Wait(i + 1) = Owed + Ahead(i + 1) * ConsoleDelay
    <3>1. i \in Int /\ i + 1 \in Int
      OBVIOUS
    <3>2. /\ Ahead(i + 1) \in Nat /\ Ahead(i + 1) * ConsoleDelay \in Nat
          /\ Wait(i + 1) = Owed + Ahead(i + 1) * ConsoleDelay
          /\ ConsoleDelay \in Nat
      BY <3>1, WaitTypes
    <3>3. /\ Ahead(i)' \in Nat /\ Ahead(i)' * ConsoleDelay \in Nat
          /\ Wait(i)' = Owed' + Ahead(i)' * ConsoleDelay
      BY <3>1, WaitTypesNext
    <3> QED
      BY <3>2, <3>3
  <2>4. CASE Head(buffered) = "pong" /\ writing' = None
    <3>1. Owed' = 0 /\ Owed = 0
      BY <1>1, <2>4 DEF Owed
    <3>2. Ahead(i)' * ConsoleDelay <= Ahead(i + 1) * ConsoleDelay
      BY <2>1, <2>2, <2>3, Products
    <3> QED
      BY <2>1, <2>2, <2>3, <3>1, <3>2
  <2>5. CASE Head(buffered) = "input" /\ writing' = 0
    <3>1. Owed' = ConsoleDelay /\ Owed = 0
      BY <1>1, <2>3, <2>5 DEF Owed, None
    <3>2. Ahead(i)' * ConsoleDelay + ConsoleDelay
             <= Ahead(i + 1) * ConsoleDelay
      BY <1>4, <2>1, <2>2, <2>3, <2>5, Products
    <3> QED
      BY <2>1, <2>2, <2>3, <3>1, <3>2
  <2> QED
    BY <1>1, <2>4, <2>5
<1> QED
  BY <1>2, <1>3, <1>4, <1>5, <1>6

LEMMA WaitTakes ==
    ASSUME KeepaliveTypeOK, KeepaliveTypeOK', ConsoleTakes
    PROVE  /\ Unread' = Unread
           /\ \A i \in Int : Wait(i)' <= Wait(i) /\ Ahead(i)' = Ahead(i)
<1>1. Unread' = Unread /\ Owed' = 0
  BY DEF ConsoleTakes, networkVars, Unread, Owed
<1>2. ASSUME NEW i \in Int PROVE Wait(i)' <= Wait(i) /\ Ahead(i)' = Ahead(i)
  <2>1. Ahead(i)' = Ahead(i)
    BY <1>1 DEF Ahead, Inputs
  <2> QED
    BY <1>1, <2>1, WaitTypes, WaitTypesNext
<1> QED
  BY <1>1, <1>2

\* Time passes only while a place is waited for, or nobody waits, or the console
\* is slow.
LEMMA WaitTick ==
    ASSUME KeepaliveTypeOK, KeepaliveTypeOK', Tick
    PROVE  /\ Unread' = Unread
           /\ writing = None => Unread = <<>> /\ deadline > 0
           /\ \A i \in Int :
                 /\ Ahead(i)' = Ahead(i)
                 /\ Wait(i)' = IF writing = None \/ Held THEN Wait(i)
                               ELSE Wait(i) - 1
<1>1. Unread' = Unread
  BY DEF Tick, Unread
<1>2. writing = None => Unread = <<>> /\ deadline > 0
  BY DEF Tick, Idle, Unread
<1>3. Owed' = IF writing = None \/ Held THEN Owed ELSE Owed - 1
  BY KeepaliveAssumption DEF Tick, Held, Owed, None, KeepaliveTypeOK
<1>4. ASSUME NEW i \in Int
      PROVE  /\ Ahead(i)' = Ahead(i)
             /\ Wait(i)' = IF writing = None \/ Held THEN Wait(i)
                           ELSE Wait(i) - 1
  <2>1. Ahead(i)' = Ahead(i)
    BY <1>1 DEF Ahead
  <2> QED
    BY <1>3, <2>1, WaitTypes, WaitTypesNext
<1> QED
  BY <1>1, <1>2, <1>4

-----------------------------------------------------------------------------
(* Every step keeps the invariant. *)

\* What only the configuration does, and what everybody else does not.
LEMMA Frames ==
    ASSUME [KeepaliveNext]_allVars
    PROVE  \/ StartSession
           \/ UNCHANGED keepaliveVars /\ (ConfigNext \/ UNCHANGED configVars)
           \/ /\ UNCHANGED <<configVars, times>>
              /\ session = "active"
              /\ \/ Ping \/ PongArrives \/ InputArrives \/ StopsAnswering
                 \/ Fetch \/ ReadPong \/ ReadInput \/ ConsoleTakes
                 \/ DeadlinePasses \/ EndsOtherwise \/ Tick
<1>1. ASSUME Ping \/ PongArrives \/ InputArrives \/ StopsAnswering
      PROVE  UNCHANGED <<configVars, times>> /\ session = "active"
  BY <1>1 DEF Ping, PongArrives, InputArrives, StopsAnswering
<1>2. ASSUME Fetch \/ ReadPong \/ ReadInput \/ ConsoleTakes
      PROVE  UNCHANGED <<configVars, times>> /\ session = "active"
  BY <1>2 DEF Fetch, ReadPong, ReadInput, ConsoleTakes, Reading
<1>3. ASSUME DeadlinePasses \/ EndsOtherwise \/ Tick
      PROVE  UNCHANGED <<configVars, times>> /\ session = "active"
  BY <1>3 DEF DeadlinePasses, EndsOtherwise, Ends, Tick, Reading
<1>4. ASSUME Finished \/ NotFollowed \/ UNCHANGED allVars
      PROVE  UNCHANGED keepaliveVars /\ UNCHANGED configVars
  BY <1>4 DEF Finished, NotFollowed, allVars
<1> QED
  BY <1>1, <1>2, <1>3, <1>4 DEF KeepaliveNext

LEMMA StartedStep ==
    ASSUME IInv, KeepaliveTypeOK', [KeepaliveNext]_allVars
    PROVE  Started'
<1> USE DEF IInv
<1>1. CASE UNCHANGED keepaliveVars /\ (ConfigNext \/ UNCHANGED configVars)
  <2>1. phase' # "serving" => phase # "serving"
    BY <1>1 DEF ConfigNext, ReadLine, FileFails, FileEnds, LookupEnv, Resolve,
       configVars
  <2>2. UNCHANGED <<session, times, reason, deadline, ticker, transit, socket,
                    buffered, writing, answers, silence>>
    BY <1>1 DEF keepaliveVars, networkVars, readerVars, consoleVars
  <2> QED
    BY <2>1, <2>2 DEF Started
<1>2. CASE StartSession
  <2> DEFINE c == Configured(config)
  <2>1. /\ phase = "loaded" /\ phase' = "serving"
        /\ c["KeepaliveTimeout"] <= TimeLimit
        /\ session' = "active" /\ reason' = reason
        /\ times' = [interval |-> c["KeepaliveInterval"],
                     timeout  |-> c["KeepaliveTimeout"]]
        /\ deadline' = c["KeepaliveTimeout"] /\ ticker' = c["KeepaliveInterval"]
    BY <1>2 DEF StartSession
  <2>2. /\ c["KeepaliveInterval"] \in Nat /\ c["KeepaliveTimeout"] \in Nat
        /\ c["KeepaliveInterval"] < c["KeepaliveTimeout"] /\ TimeLimit \in Nat
    BY <2>1, Times, KeepaliveAssumption
  <2>3. reason = "none"
    BY <2>1 DEF Started
  <2> HIDE DEF c
  <2> QED
    BY <2>1, <2>2, <2>3 DEF Started
<1>3. ASSUME UNCHANGED <<configVars, times>>, session = "active",
             session' \in {"active", "ended"},
             session' = "active" => reason' = reason,
             deadline' <= times.timeout, ticker' <= times.interval
      PROVE  Started'
  <2>1. phase' = phase /\ times' = times /\ session' # "none"
    BY <1>3 DEF configVars
  <2> QED
    BY <1>3, <2>1 DEF Started
<1>4. /\ times.timeout \in Nat /\ times.interval \in Nat
      /\ deadline \in Nat /\ ticker \in Nat
      /\ deadline <= times.timeout /\ ticker <= times.interval
  BY KeepaliveAssumption DEF Started, KeepaliveTypeOK
<1>5. ASSUME session = "active",
             Ping \/ PongArrives \/ InputArrives \/ StopsAnswering
      PROVE  session' = session /\ reason' = reason /\ deadline' = deadline
             /\ ticker' \in {ticker, times.interval}
  BY <1>5 DEF Ping, PongArrives, InputArrives, StopsAnswering
<1>6. ASSUME session = "active",
             Fetch \/ ReadPong \/ ReadInput \/ ConsoleTakes
      PROVE  session' = session /\ reason' = reason /\ ticker' = ticker
             /\ deadline' \in {deadline, times.timeout}
  BY <1>6 DEF Fetch, ReadPong, ReadInput, ConsoleTakes
<1>7. ASSUME DeadlinePasses \/ EndsOtherwise
      PROVE  session' = "ended" /\ ticker' = ticker /\ deadline' = deadline
  BY <1>7 DEF DeadlinePasses, EndsOtherwise, Ends
<1>8. ASSUME Tick
      PROVE  session' = session /\ reason' = reason
             /\ ticker' = ticker - 1
             /\ deadline' = IF deadline = 0 THEN 0 ELSE deadline - 1
  BY <1>8 DEF Tick
<1> QED
  BY <1>1, <1>2, <1>3, <1>4, <1>5, <1>6, <1>7, <1>8, Frames

\* The next Load, of places as they are numbered then.
LEMMA LoadNext ==
    ASSUME NEW i \in Int, NEW k \in Int,
           k = Len(Unread') + 1, Ahead(k)' <= InputLimit,
           i = Len(buffered') + 1, Wait(i)' <= Batch
    PROVE  Load'
BY DEF Load, Ahead, Inputs, Wait

LEMMA LoadStep ==
    ASSUME IInv, KeepaliveTypeOK', [KeepaliveNext]_allVars
    PROVE  Load'
<1> USE DEF IInv
<1>1. ASSUME UNCHANGED <<socket, buffered, writing>> PROVE Load'
  BY <1>1 DEF Load, Ahead, Inputs, Wait, Owed, Unread
<1>2. ASSUME StartSession \/ UNCHANGED keepaliveVars
      PROVE  UNCHANGED <<socket, buffered, writing>>
  BY <1>2 DEF StartSession, keepaliveVars, networkVars, readerVars, consoleVars
<1>3. ASSUME Ping \/ StopsAnswering \/ DeadlinePasses \/ EndsOtherwise
      PROVE  UNCHANGED <<socket, buffered, writing>>
  BY <1>3 DEF Ping, StopsAnswering, DeadlinePasses, EndsOtherwise, Ends,
     networkVars, readerVars, consoleVars
<1>4. /\ Len(buffered) \in Nat /\ Len(Unread) \in Nat
      /\ Len(buffered) <= Len(Unread)
      /\ InputLimit \in Nat /\ Batch \in Nat
      /\ Ahead(Len(Unread) + 1) <= InputLimit
      /\ Wait(Len(buffered) + 1) <= Batch
  <2>1. /\ Len(buffered) \in Nat /\ Len(Unread) \in Nat
        /\ Len(buffered) <= Len(Unread)
    BY Queue
  <2>2. InputLimit \in Nat /\ Batch \in Nat
    BY WaitTypes
  <2> QED
    BY <2>1, <2>2 DEF Load
<1>5. ASSUME PongArrives \/ InputArrives PROVE Load'
  <2>1. UNCHANGED <<buffered, writing>>
    BY <1>5 DEF PongArrives, InputArrives, readerVars, consoleVars
  <2>2. PICK m \in {"pong", "input"} :
          /\ socket' = Append(socket, m)
          /\ m = "input" => InputArrives
    BY <1>5 DEF PongArrives, InputArrives
  <2>3. /\ Len(Unread') = Len(Unread) + 1
        /\ \A i \in 1 .. Len(Unread) + 1 : Wait(i)' = Wait(i)
        /\ Ahead(Len(Unread) + 1)' <= Ahead(Len(Unread) + 1) + 1
        /\ m = "pong" => Ahead(Len(Unread) + 1)' = Ahead(Len(Unread) + 1)
    BY <2>1, <2>2, WaitArrival
  <2>4. Ahead(Len(Unread) + 1)' <= InputLimit
    <3>1. CASE m = "pong"
      BY <1>4, <2>3, <3>1
    <3>2. CASE m = "input"
      <4>1. Cardinality({ i \in DOMAIN Unread : Unread[i] = "input" }) < InputLimit
        BY <2>2, <3>2 DEF InputArrives, HowMany
      <4>2. DOMAIN Unread = 1 .. (Len(Unread) + 1) - 1
        BY <1>4, Queue, LenProperties
      <4>3. Ahead(Len(Unread) + 1) < InputLimit
        BY <4>1, <4>2 DEF Ahead, Inputs
      <4>4. Ahead(Len(Unread) + 1) \in Nat
        BY <1>4, WaitTypes
      <4>5. Ahead(Len(Unread) + 1)' \in Nat
        BY <1>4, <2>3, WaitTypesNext
      <4> QED
        BY <1>4, <2>3, <4>3, <4>4, <4>5
    <3> QED
      BY <2>2, <3>1, <3>2
  <2>5. Wait(Len(buffered) + 1)' <= Batch
    <3>1. PICK i \in 1 .. Len(Unread) + 1 : i = Len(buffered) + 1
      BY <1>4
    <3>2. Wait(i)' <= Batch
      BY <1>4, <2>3, <3>1
    <3> QED
      BY <2>1, <3>1, <3>2 DEF Wait, Ahead, Inputs
  <2> QED
    BY <2>4, <2>5 DEF Load
<1>6. ASSUME Fetch PROVE Load'
  <2>1. Unread' = Unread /\ writing' = writing /\ writing = None
    BY <1>6, WaitFetch DEF Fetch, Reading, consoleVars
  <2>2. Len(buffered') \in Nat /\ Len(buffered') <= Len(Unread)
    BY <2>1, QueueNext
  <2>3. PICK i \in 1 .. Len(Unread) + 1 : i = Len(buffered') + 1
    BY <1>4, <2>2
  <2>4. PICK k \in Int : k = Len(Unread) + 1
    BY <1>4
  <2>5. Ahead(k)' <= InputLimit
    BY <1>4, <2>1, <2>4, WaitKept
  <2>6. Wait(i) <= Batch
    BY <2>1, WaitBounded DEF Owed
  <2>7. Wait(i)' <= Batch
    BY <2>1, <2>6, WaitKept
  <2> QED
    BY <2>1, <2>3, <2>4, <2>5, <2>7, LoadNext
<1>7. ASSUME ReadPong \/ ReadInput PROVE Load'
  <2>1. /\ Len(Unread') = Len(Unread) - 1
        /\ Len(buffered') = Len(buffered) - 1 /\ Len(buffered') \in Nat
        /\ \A i \in 1 .. Len(Unread) : /\ Wait(i)' <= Wait(i + 1)
                                       /\ Ahead(i)' <= Ahead(i + 1)
    BY <1>7, WaitRead, QueueNext
  <2>2. PICK i \in 1 .. Len(Unread) : i = Len(buffered)
    BY <1>4, <2>1
  <2>3. PICK k \in 1 .. Len(Unread) : k = Len(Unread)
    BY <1>4, <2>1
  <2>4. /\ Wait(i)' \in Nat /\ Wait(i + 1) \in Nat
        /\ Ahead(k)' \in Nat /\ Ahead(k + 1) \in Nat
    <3>1. i \in Int /\ i + 1 \in Int /\ k \in Int /\ k + 1 \in Int
      OBVIOUS
    <3>2. Wait(i + 1) \in Nat /\ Ahead(k + 1) \in Nat
      BY <3>1, WaitTypes
    <3>3. Wait(i)' \in Nat /\ Ahead(k)' \in Nat
      BY <3>1, WaitTypesNext
    <3> QED
      BY <3>2, <3>3
  <2>5. Ahead(k)' <= InputLimit
    BY <1>4, <2>1, <2>3, <2>4
  <2>6. Wait(i)' <= Batch
    BY <1>4, <2>1, <2>2, <2>4
  <2> QED
    BY <1>4, <2>1, <2>2, <2>3, <2>5, <2>6, LoadNext
<1>8. ASSUME ConsoleTakes \/ Tick PROVE Load'
  <2>1. /\ Unread' = Unread /\ buffered' = buffered
        /\ \A i \in Int : Ahead(i)' = Ahead(i) /\ Wait(i)' <= Wait(i)
    <3>1. CASE ConsoleTakes
      BY <3>1, WaitTakes DEF ConsoleTakes
    <3>2. CASE Tick
      <4>1. /\ Unread' = Unread
            /\ \A i \in Int :
                  /\ Ahead(i)' = Ahead(i)
                  /\ Wait(i)' \in {Wait(i), Wait(i) - 1}
        BY <3>2, WaitTick
      <4>2. \A i \in Int : Wait(i) \in Nat
        BY WaitTypes
      <4> QED
        BY <3>2, <4>1, <4>2 DEF Tick
    <3> QED
      BY <1>8, <3>1, <3>2
  <2>2. PICK i \in Int : i = Len(buffered) + 1
    BY <1>4
  <2>3. PICK k \in Int : k = Len(Unread) + 1
    BY <1>4
  <2>4. Wait(i) \in Nat /\ Wait(i)' \in Nat
    BY WaitTypes, WaitTypesNext
  <2>5. Wait(i)' <= Batch
    BY <1>4, <2>1, <2>2, <2>4
  <2>6. Ahead(k)' <= InputLimit
    BY <1>4, <2>1, <2>3
  <2> QED
    BY <2>1, <2>2, <2>3, <2>5, <2>6, LoadNext
<1> QED
  BY <1>1, <1>2, <1>3, <1>5, <1>6, <1>7, <1>8, Frames

LEMMA Numbers ==
    ASSUME KeepaliveTypeOK, Started
    PROVE  /\ RoundTrip \in Nat /\ ConsoleDelay \in Nat
           /\ times.timeout \in Nat /\ times.interval \in Nat
           /\ deadline \in Nat /\ ticker \in Nat /\ silence \in Nat
           /\ Backlog \in Nat /\ Batch \in Nat
           /\ transit \in Seq(0 .. RoundTrip)
           /\ \A i \in DOMAIN transit : transit[i] \in 0 .. RoundTrip
           /\ deadline <= times.timeout /\ ticker <= times.interval
           /\ Backlog = Batch + ConsoleDelay
<1>1. /\ Batch \in Nat
      /\ Backlog = Batch + ConsoleDelay
      /\ {RoundTrip, ConsoleDelay, InputLimit, TimeLimit} \subseteq Nat
  BY WaitTypes
<1>2. /\ transit \in Seq(0 .. RoundTrip)
      /\ deadline \in Nat /\ ticker \in Nat /\ silence \in Nat
  BY <1>1 DEF KeepaliveTypeOK
<1>3. \A i \in DOMAIN transit : transit[i] \in 0 .. RoundTrip
  BY <1>2, ElementOfSeq, LenProperties
<1>4. /\ times.timeout \in Nat /\ times.interval \in Nat
      /\ deadline <= times.timeout /\ ticker <= times.interval
  BY DEF Started
<1> QED
  BY <1>1, <1>2, <1>3, <1>4

\* The deadline of an answering browser does not pass.
LEMMA AnsweredEarly ==
    ASSUME KeepaliveTypeOK, Started, Answered, session = "active", answers,
           ~slow, Margin
    PROVE  deadline > 0
<1>1. CASE \E i \in DOMAIN Unread : Unread[i] = "pong" /\ deadline > Wait(i)
  <2>1. PICK i \in DOMAIN Unread : deadline > Wait(i)
    BY <1>1
  <2>2. i \in Int
    BY Queue, LenProperties
  <2> QED
    <3>1. Wait(i) \in Nat /\ deadline \in Nat
      BY <2>2, WaitTypes, Numbers
    <3> QED
      BY <2>1, <3>1
<1>2. CASE transit # <<>> /\ deadline > RoundTrip - transit[1] + Backlog
  <2>1. transit[1] \in 0 .. RoundTrip
    BY <1>2, Numbers
  <2> QED
    BY <1>2, <2>1, Numbers
<1>3. CASE deadline > ticker + RoundTrip + Backlog
  BY <1>3, Numbers
<1> QED
  BY <1>1, <1>2, <1>3 DEF Answered

\* Places that come to be reached after a step no later than before it, and
\* keep their pong, go on to be early enough; so does a deadline that starts
\* over, and one that nothing happened to.
LEMMA AnsweredStep ==
    ASSUME IInv, KeepaliveTypeOK', Started', Load', [KeepaliveNext]_allVars
    PROVE  Answered'
<1>0. /\ RoundTrip \in Nat /\ Backlog \in Nat
      /\ deadline \in Nat /\ ticker \in Nat
      /\ times.timeout \in Nat /\ times.interval \in Nat
      /\ ticker <= times.interval
      /\ transit \in Seq(0 .. RoundTrip)
      /\ \A i \in DOMAIN transit : transit[i] \in 0 .. RoundTrip
  BY Numbers DEF IInv
<1> USE DEF IInv
<1>1. /\ Len(Unread) \in Nat /\ DOMAIN Unread = 1 .. Len(Unread)
      /\ Len(Unread') \in Nat /\ DOMAIN Unread' = 1 .. Len(Unread')
  <2>1. Unread \in Seq({"pong", "input"})
    BY Queue
  <2>2. Unread' \in Seq({"pong", "input"})
    <3>1. buffered' \in Seq({"pong", "input"}) /\ socket' \in Seq({"pong", "input"})
      BY DEF KeepaliveTypeOK
    <3> QED
      BY <3>1, ConcatProperties DEF Unread
  <2> QED
    BY <2>1, <2>2, LenProperties
<1>2. ASSUME StartSession PROVE Answered'
  <2>1. /\ deadline' = times'.timeout /\ ticker' = times'.interval
        /\ times'.timeout \in Nat /\ times'.interval \in Nat
    BY <1>2 DEF StartSession, Started
  <2> QED
    BY <2>1 DEF Answered, Margin
<1>3. ASSUME UNCHANGED keepaliveVars PROVE Answered'
  BY <1>3 DEF keepaliveVars, networkVars, readerVars, consoleVars, Answered, Margin, Wait,
     Ahead, Owed, Unread
<1>4. ASSUME DeadlinePasses \/ EndsOtherwise PROVE Answered'
  BY <1>4 DEF DeadlinePasses, EndsOtherwise, Ends, Answered
<1>5. ASSUME StopsAnswering PROVE Answered'
  BY <1>5 DEF StopsAnswering, Answered
<1> DEFINE Place    == \E i \in DOMAIN Unread :
                          Unread[i] = "pong" /\ deadline > Wait(i)
           OnTheWay == transit # <<>> /\ deadline > RoundTrip - transit[1] + Backlog
           NextPing == deadline > ticker + RoundTrip + Backlog
           Kept     == times' = times /\ session' = "active" /\ answers' = answers
                       /\ slow' = slow
<1>19. ASSUME times' = times, answers' = answers,
              answers /\ ~slow' /\ Margin => Place' \/ OnTheWay' \/ NextPing'
       PROVE  Answered'
  <2>1. Margin' = Margin
    BY <1>19 DEF Margin
  <2> QED
    BY <1>19, <2>1 DEF Answered
<1>6. ASSUME Kept, session = "active",
             answers /\ ~slow /\ Margin => Place' \/ OnTheWay' \/ NextPing'
      PROVE  Answered'
  BY <1>6, <1>19
<1>7. ASSUME session = "active", answers, ~slow, Margin
      PROVE  Place \/ OnTheWay \/ NextPing
  BY <1>7 DEF Answered
<1> HIDE DEF Place, OnTheWay, NextPing, Kept
<1>8. ASSUME Ping, session = "active" PROVE Answered'
  <2>1. /\ ticker = 0 /\ ticker' = times.interval
        /\ answers => transit' = Append(transit, 0)
        /\ UNCHANGED <<session, times, deadline, socket, answers, buffered, writing,
                       slow>>
    BY <1>8 DEF Ping, readerVars, consoleVars
  <2>2. Kept
    BY <1>8, <2>1 DEF Kept
  <2>3. Place => Place'
    BY <2>1 DEF Place, Unread, Wait, Ahead, Owed
  <2>4. ASSUME answers, OnTheWay PROVE OnTheWay'
    <3>1. transit' # <<>> /\ transit'[1] = transit[1]
      <4>1. transit \in Seq(0 .. RoundTrip) /\ 0 \in 0 .. RoundTrip
        BY <1>0
      <4>2. Len(transit) \in Nat /\ Len(transit) # 0
        BY <2>4, <4>1, LenProperties, EmptySeq DEF OnTheWay
      <4> QED
        BY <2>1, <2>4, <4>1, <4>2
    <3> QED
      BY <2>1, <2>4, <3>1 DEF OnTheWay
  <2>5. ASSUME answers, NextPing PROVE OnTheWay'
    <3>1. transit' # <<>> /\ transit'[1] \in 0 .. RoundTrip
      <4>1. /\ transit \in Seq(0 .. RoundTrip) /\ 0 \in 0 .. RoundTrip
            /\ transit' = Append(transit, 0)
        BY <1>0, <2>1, <2>5
      <4>2. Append(transit, 0) \in Seq(0 .. RoundTrip)
        BY <4>1, SeqTypes
      <4>3. Len(Append(transit, 0)) = Len(transit) + 1 /\ Len(transit) \in Nat
        BY <4>1, AppendProperties, LenProperties
      <4>4. 1 \in 1 .. Len(Append(transit, 0))
        BY <4>3
      <4>5. Append(transit, 0)[1] \in 0 .. RoundTrip
        BY <4>2, <4>4, ElementOfSeq
      <4>6. Append(transit, 0) # <<>>
        <5>1. Len(Append(transit, 0)) # 0
          BY <4>3
        <5>2. Len(<<>>) = 0
          OBVIOUS
        <5> QED
          BY <5>1, <5>2, Zenon
      <4> QED
        BY <4>1, <4>5, <4>6
    <3>2. deadline > RoundTrip + Backlog
      BY <2>1, <2>5, <1>0 DEF NextPing
    <3>3. deadline > RoundTrip - transit'[1] + Backlog
      BY <3>1, <3>2, <1>0
    <3> QED
      BY <2>1, <3>1, <3>3 DEF OnTheWay
  <2> QED
    BY <1>6, <1>7, <1>8, <2>2, <2>3, <2>4, <2>5
<1>9. ASSUME PongArrives, session = "active" PROVE Answered'
  <2>1. /\ transit # <<>> /\ socket' = Append(socket, "pong")
        /\ UNCHANGED <<session, times, deadline, ticker, answers, buffered, writing,
                       slow>>
    BY <1>9 DEF PongArrives, readerVars, consoleVars
  <2>2. Kept
    BY <1>9, <2>1 DEF Kept
  <2>3. /\ Len(Unread') = Len(Unread) + 1
        /\ Unread'[Len(Unread) + 1] = "pong"
        /\ \A i \in 1 .. Len(Unread) : Unread'[i] = Unread[i]
        /\ \A i \in 1 .. Len(Unread) + 1 : Wait(i)' = Wait(i)
    BY <2>1, WaitArrival, Kinds
  <2>4. Place => Place'
    BY <1>1, <2>1, <2>3 DEF Place
  <2>5. ASSUME OnTheWay PROVE Place'
    <3>1. deadline > Backlog
      <4>1. transit[1] \in 0 .. RoundTrip
        BY <2>1, <1>0
      <4>2. deadline > RoundTrip - transit[1] + Backlog
        BY <2>5 DEF OnTheWay
      <4> QED
        BY <4>1, <4>2, <1>0
    <3>2. PICK i \in 1 .. Len(Unread) + 1 : i = Len(Unread) + 1
      BY <1>1
    <3>3. Wait(i) \in Nat /\ Wait(i) <= Backlog
      BY WaitTypes, WaitBounded
    <3>4. deadline' > Wait(i)'
      BY <2>1, <2>3, <3>1, <3>3, <1>0
    <3> QED
      BY <1>1, <2>3, <3>2, <3>4 DEF Place
  <2>6. NextPing => NextPing'
    BY <2>1 DEF NextPing
  <2> QED
    BY <1>6, <1>7, <1>9, <2>2, <2>4, <2>5, <2>6
<1>10. ASSUME InputArrives, session = "active" PROVE Answered'
  <2>1. /\ socket' = Append(socket, "input")
        /\ UNCHANGED <<session, times, deadline, ticker, transit, answers,
                       buffered, writing, slow>>
    BY <1>10 DEF InputArrives, readerVars, consoleVars
  <2>2. Kept
    BY <1>10, <2>1 DEF Kept
  <2>3. /\ Len(Unread') = Len(Unread) + 1
        /\ \A i \in 1 .. Len(Unread) : Unread'[i] = Unread[i]
        /\ \A i \in 1 .. Len(Unread) + 1 : Wait(i)' = Wait(i)
    BY <2>1, WaitArrival, Kinds
  <2>4. Place => Place'
    BY <1>1, <2>1, <2>3 DEF Place
  <2>5. (OnTheWay => OnTheWay') /\ (NextPing => NextPing')
    BY <2>1 DEF OnTheWay, NextPing
  <2> QED
    BY <1>6, <1>7, <1>10, <2>2, <2>4, <2>5
<1>11. ASSUME Fetch, session = "active" PROVE Answered'
  <2>1. UNCHANGED <<session, times, deadline, ticker, transit, answers, writing,
                    slow>>
    BY <1>11 DEF Fetch, consoleVars
  <2>2. Kept
    BY <1>11, <2>1 DEF Kept
  <2>3. Unread' = Unread /\ \A i \in Int : Wait(i)' = Wait(i)
    BY <1>11, <2>1, WaitFetch, WaitKept
  <2>4. Place => Place'
    BY <1>1, <2>1, <2>3 DEF Place
  <2>5. (OnTheWay => OnTheWay') /\ (NextPing => NextPing')
    BY <2>1 DEF OnTheWay, NextPing
  <2> QED
    BY <1>6, <1>7, <1>11, <2>2, <2>4, <2>5
<1>12. ASSUME ReadPong, session = "active" PROVE Answered'
  <2>1. /\ deadline' = times.timeout
        /\ UNCHANGED <<session, times, ticker, answers, slow>>
    BY <1>12 DEF ReadPong, networkVars, consoleVars
  <2>2. Kept
    BY <1>12, <2>1 DEF Kept
  <2>3. ASSUME Margin PROVE NextPing'
    <3>1. times.timeout > times.interval + RoundTrip + Backlog
      BY <2>3 DEF Margin
    <3>2. deadline' > ticker' + RoundTrip + Backlog
      BY <2>1, <3>1, <1>0
    <3> QED
      BY <3>2 DEF NextPing
  <2> QED
    BY <1>6, <1>12, <2>2, <2>3
<1>13. ASSUME ReadInput, session = "active" PROVE Answered'
  <2>1. /\ Head(buffered) = "input"
        /\ UNCHANGED <<session, times, deadline, ticker, transit, answers, slow>>
    BY <1>13 DEF ReadInput, networkVars
  <2>2. Kept
    BY <1>13, <2>1 DEF Kept
  <2>3. /\ Len(Unread') = Len(Unread) - 1 /\ Unread[1] = "input"
        /\ \A i \in 1 .. Len(Unread) - 1 : Unread'[i] = Unread[i + 1]
        /\ \A i \in 1 .. Len(Unread) : Wait(i)' <= Wait(i + 1)
    BY <1>13, <2>1, WaitRead
  <2>4. ASSUME Place PROVE Place'
    <3>1. PICK i \in 1 .. Len(Unread) : Unread[i] = "pong" /\ deadline > Wait(i)
      BY <1>1, <2>4 DEF Place
    <3>2. i # 1
      BY <2>3, <3>1
    <3>3. PICK j \in 1 .. Len(Unread) - 1 : i = j + 1
      BY <1>1, <3>2
    <3>4. j \in Int /\ j + 1 \in Int /\ j \in 1 .. Len(Unread)
      BY <1>1
    <3>5. Wait(j)' \in Nat
      BY <3>4, WaitTypesNext
    <3>6. Wait(j + 1) \in Nat
      BY <3>4, WaitTypes
    <3>7. deadline' > Wait(j)'
      BY <2>1, <2>3, <3>1, <3>3, <3>4, <3>5, <3>6, <1>0
    <3> QED
      BY <1>1, <2>3, <3>1, <3>3, <3>7 DEF Place
  <2>5. (OnTheWay => OnTheWay') /\ (NextPing => NextPing')
    BY <2>1 DEF OnTheWay, NextPing
  <2> QED
    BY <1>6, <1>7, <1>13, <2>2, <2>4, <2>5
<1>14. ASSUME ConsoleTakes, session = "active" PROVE Answered'
  <2>1. UNCHANGED <<session, times, deadline, ticker, transit, answers, slow>>
    BY <1>14 DEF ConsoleTakes, networkVars
  <2>2. Kept
    BY <1>14, <2>1 DEF Kept
  <2>3. Unread' = Unread /\ \A i \in Int : Wait(i)' <= Wait(i)
    BY <1>14, WaitTakes
  <2>4. ASSUME Place PROVE Place'
    <3>1. PICK i \in 1 .. Len(Unread) : Unread[i] = "pong" /\ deadline > Wait(i)
      BY <1>1, <2>4 DEF Place
    <3>2. Wait(i)' \in Nat /\ Wait(i) \in Nat
      BY WaitTypes, WaitTypesNext
    <3>3. deadline' > Wait(i)'
      BY <2>1, <2>3, <3>1, <3>2, <1>0
    <3> QED
      BY <1>1, <2>3, <3>1, <3>3 DEF Place
  <2>5. (OnTheWay => OnTheWay') /\ (NextPing => NextPing')
    BY <2>1 DEF OnTheWay, NextPing
  <2> QED
    BY <1>6, <1>7, <1>14, <2>2, <2>4, <2>5
<1>15. ASSUME Tick, session = "active" PROVE Answered'
  <2>1. /\ ticker > 0 /\ ticker' = ticker - 1
        /\ deadline' = IF deadline = 0 THEN 0 ELSE deadline - 1
        /\ transit' = [i \in DOMAIN transit |-> transit[i] + 1]
        /\ UNCHANGED <<session, times, answers>>
    BY <1>15 DEF Tick, Idle
  <2>2. ~slow' => ~slow /\ ~Held
    BY <1>15, Zenon DEF Tick
  <2>3. /\ Unread' = Unread
        /\ writing = None => Unread = <<>>
        /\ \A i \in Int :
              Wait(i)' = IF writing = None \/ Held THEN Wait(i)
                         ELSE Wait(i) - 1
    BY <1>15, WaitTick
  <2>4. ASSUME answers, ~slow', Margin PROVE deadline' = deadline - 1
    BY <1>15, <2>1, <2>2, <2>4, AnsweredEarly, <1>0
  <2>5. ASSUME Place, answers, ~slow', Margin PROVE Place'
    <3>1. PICK i \in 1 .. Len(Unread) : Unread[i] = "pong" /\ deadline > Wait(i)
      BY <1>1, <2>5 DEF Place
    <3>2. Len(Unread) # 0
      BY <1>1, <3>1
    <3>3. Unread # <<>>
      BY <3>2, EmptySeq
    <3>4. Wait(i) \in Nat
      BY WaitTypes
    <3>5. deadline' > Wait(i)'
      BY <2>2, <2>3, <2>4, <2>5, <3>1, <3>3, <3>4, <1>0
    <3> QED
      BY <1>1, <2>3, <3>1, <3>5 DEF Place
  <2>6. ASSUME OnTheWay, answers, ~slow', Margin PROVE OnTheWay'
    <3>1. Len(transit) \in Nat \ {0} /\ DOMAIN transit = 1 .. Len(transit)
      BY <2>6, <1>0, LenProperties, EmptySeq DEF OnTheWay
    <3>2. transit' # <<>> /\ transit'[1] = transit[1] + 1
          /\ transit[1] \in 0 .. RoundTrip
      BY <2>1, <3>1, <1>0
    <3>3. deadline' > RoundTrip - transit'[1] + Backlog
      <4>1. deadline > RoundTrip - transit[1] + Backlog
        BY <2>6 DEF OnTheWay
      <4>2. deadline' = deadline - 1
        BY <2>4, <2>6
      <4> QED
        BY <1>0, <3>2, <4>1, <4>2, SMTT(30)
    <3> QED
      BY <3>2, <3>3 DEF OnTheWay
  <2>7. ASSUME NextPing, answers, ~slow', Margin PROVE NextPing'
    <3>1. deadline' > ticker' + RoundTrip + Backlog
      <4>1. deadline > ticker + RoundTrip + Backlog
        BY <2>7 DEF NextPing
      <4>2. deadline' = deadline - 1 /\ ticker' = ticker - 1
        BY <2>1, <2>4, <2>7
      <4> QED
        BY <4>1, <4>2, <1>0
    <3> QED
      BY <3>1 DEF NextPing
  <2> QED
    BY <1>19, <1>7, <1>15, <2>1, <2>2, <2>5, <2>6, <2>7
<1> QED
  BY <1>2, <1>3, <1>4, <1>5, <1>8, <1>9, <1>10, <1>11, <1>12, <1>13, <1>14,
     <1>15, Frames

\* The arithmetic of a deadline that has just been set, and of a tick.
LEMMA DueArithmetic ==
    ASSUME NEW t \in Nat, NEW r \in Nat, NEW l \in Nat, NEW m \in Nat,
           NEW d \in Nat, NEW q \in Nat, NEW v \in Nat, NEW w \in Nat,
           NEW u \in Nat, v <= m, d <= t
    PROVE  /\ q <= r + l =>
                 q + (IF d > 0 THEN d + m ELSE v) <= t + r + l + m
           /\ /\ q + (IF d > 0 THEN d + m ELSE w) <= t + r + l + m
              /\ u <= q + 1
              /\ d = 0 => v = w - 1
              => u + (IF (IF d = 0 THEN 0 ELSE d - 1) > 0
                      THEN (IF d = 0 THEN 0 ELSE d - 1) + m ELSE v)
                    <= t + r + l + m
           /\ q + (IF d > 0 THEN d + m ELSE v) <= t + r + l + m
              => q + (IF (IF d = 0 THEN 0 ELSE d - 1) > 0
                      THEN (IF d = 0 THEN 0 ELSE d - 1) + m ELSE v)
                    <= t + r + l + m
<1>1. CASE d = 0
  BY <1>1
<1>2. CASE d > 0
  BY <1>2
<1> QED
  BY <1>1, <1>2

LEMMA SilentStep ==
    ASSUME IInv, KeepaliveTypeOK', Started', Load', [KeepaliveNext]_allVars
    PROVE  Silent'
<1>0. /\ RoundTrip \in Nat /\ Backlog \in Nat /\ Batch \in Nat
      /\ deadline \in Nat /\ silence \in Nat /\ times.timeout \in Nat
      /\ deadline <= times.timeout
      /\ transit \in Seq(0 .. RoundTrip)
      /\ \A i \in DOMAIN transit : transit[i] \in 0 .. RoundTrip
  BY Numbers DEF IInv
<1>1. /\ deadline' \in Nat /\ silence' \in Nat /\ times'.timeout \in Nat
      /\ deadline' <= times'.timeout
      /\ transit' \in Seq(0 .. RoundTrip)
      /\ answers' \in BOOLEAN
  BY KeepaliveAssumption DEF KeepaliveTypeOK, Started
<1>2. /\ Len(Unread) \in Nat /\ DOMAIN Unread = 1 .. Len(Unread)
      /\ Len(Unread') \in Nat /\ DOMAIN Unread' = 1 .. Len(Unread')
      /\ Len(buffered) \in Nat /\ Len(buffered') \in Nat
      /\ Len(buffered) <= Len(Unread)
  <2>1. Unread \in Seq({"pong", "input"})
    BY Queue DEF IInv
  <2>2. Unread' \in Seq({"pong", "input"})
    <3>1. buffered' \in Seq({"pong", "input"}) /\ socket' \in Seq({"pong", "input"})
      BY DEF KeepaliveTypeOK
    <3> QED
      BY <3>1, ConcatProperties DEF Unread
  <2>3. /\ Len(buffered) \in Nat /\ Len(buffered') \in Nat
        /\ Len(buffered) <= Len(Unread)
    BY Queue, QueueNext DEF IInv
  <2> QED
    BY <2>1, <2>2, <2>3, LenProperties
<1> USE DEF IInv
<1>3. PICK b \in 1 .. Len(Unread) + 1 : b = Len(buffered) + 1
  BY <1>2
<1>4. PICK n \in Int : n = Len(buffered') + 1
  BY <1>2
<1>5. /\ Wait(b) \in Nat /\ Wait(n)' \in Nat /\ Wait(n)' <= Batch
  <2>1. Wait(n)' <= Batch
    BY <1>4 DEF Load, Wait, Ahead, Inputs
  <2> QED
    BY <2>1, WaitTypes, WaitTypesNext
<1>6. ASSUME session = "active" PROVE Aged /\ Early /\ Due(b)
  BY <1>3, <1>6 DEF Silent
<1>7. ASSUME session' = "active" => Aged' /\ Early' /\ Due(n)' PROVE Silent'
  BY <1>4, <1>7 DEF Silent, Due, Wait, Ahead, Inputs
\* A deadline just set leaves time enough unless the silence is long already.
<1>8. ASSUME silence' <= RoundTrip + Backlog PROVE Due(n)'
  <2>1. silence' + (IF deadline' > 0 THEN deadline' + Batch ELSE Wait(n)')
           <= times'.timeout + RoundTrip + Backlog + Batch
    BY <1>0, <1>1, <1>5, <1>8, DueArithmetic
  <2> QED
    BY <2>1 DEF Due, Bound
<1>9. ASSUME session = "active", UNCHANGED <<times, deadline, silence>>,
             Wait(n)' <= Wait(b) \/ deadline > 0
      PROVE  Due(n)'
  <2>1. silence + (IF deadline > 0 THEN deadline + Batch ELSE Wait(b))
           <= times.timeout + RoundTrip + Backlog + Batch
    BY <1>6, <1>9 DEF Due, Bound
  <2>2. silence' + (IF deadline' > 0 THEN deadline' + Batch ELSE Wait(n)')
           <= times'.timeout + RoundTrip + Backlog + Batch
    BY <1>0, <1>5, <1>9, <2>1
  <2> QED
    BY <2>2 DEF Due, Bound
<1>10. ASSUME StartSession PROVE Silent'
  <2>1. answers /\ silence = 0 /\ Unread = <<>>
    <3>1. session = "none"
      BY <1>10 DEF StartSession, Started
    <3> QED
      BY <3>1 DEF Started, Unread
  <2>2. UNCHANGED <<answers, silence, socket, buffered>>
    BY <1>10 DEF StartSession, networkVars, readerVars, consoleVars
  <2>3. Aged'
    BY <2>1, <2>2 DEF Aged
  <2>4. Early'
    BY <2>1, <2>2 DEF Early, Unread
  <2>5. Due(n)'
    BY <1>0, <1>8, <2>1, <2>2
  <2> QED
    BY <1>7, <2>3, <2>4, <2>5
<1>11. ASSUME UNCHANGED keepaliveVars PROVE Silent'
  BY <1>11 DEF keepaliveVars, networkVars, readerVars, consoleVars, Silent, Aged, Early, Due,
     Bound, Wait, Ahead, Owed, Unread
<1>12. ASSUME DeadlinePasses \/ EndsOtherwise PROVE Silent'
  BY <1>12 DEF DeadlinePasses, EndsOtherwise, Ends, Silent
<1>13. ASSUME Ping \/ StopsAnswering, session = "active" PROVE Silent'
  <2>1. UNCHANGED <<times, deadline, silence, socket, buffered, writing>>
    BY <1>13 DEF Ping, StopsAnswering, readerVars, consoleVars
  <2>2. Unread' = Unread /\ \A i \in Int : Wait(i)' = Wait(i)
    <3>1. Unread' = Unread
      BY <2>1 DEF Unread
    <3> QED
      BY <2>1, <3>1, WaitKept
  <2>3. Early'
    BY <1>2, <1>6, <1>13, <2>1, <2>2 DEF Early
  <2>4. Due(n)'
    <3>1. n = b
      BY <1>3, <1>4, <2>1
    <3>2. Wait(n)' <= Wait(b)
      BY <1>5, <2>2, <3>1
    <3> QED
      BY <1>9, <1>13, <2>1, <3>2
  <2>5. Aged'
    <3>1. CASE answers
      <4>1. silence' = 0
        BY <1>6, <1>13, <2>1, <3>1 DEF Aged
      <4>2. \A i \in DOMAIN transit' : transit'[i] \in 0 .. RoundTrip
        BY <1>1, ElementOfSeq, LenProperties
      <4> QED
        BY <4>1, <4>2 DEF Aged
    <3>2. CASE ~answers
      <4>1. UNCHANGED <<transit, answers>>
        BY <1>13, <3>2 DEF Ping, StopsAnswering
      <4> QED
        BY <1>6, <1>13, <2>1, <4>1 DEF Aged
    <3> QED
      BY <3>1, <3>2
  <2> QED
    BY <1>7, <2>3, <2>4, <2>5
<1>14. ASSUME PongArrives \/ InputArrives, session = "active" PROVE Silent'
  <2>1. UNCHANGED <<times, deadline, silence, answers, buffered, writing>>
    BY <1>14 DEF PongArrives, InputArrives, readerVars, consoleVars
  <2>2. PICK m \in {"pong", "input"} :
          /\ socket' = Append(socket, m)
          /\ m = "pong" => transit # <<>>
          /\ transit' = transit \/ (transit # <<>> /\ transit' = Tail(transit))
    BY <1>14 DEF PongArrives, InputArrives
  <2>3. /\ Len(Unread') = Len(Unread) + 1
        /\ Unread'[Len(Unread) + 1] = m
        /\ \A i \in 1 .. Len(Unread) : Unread'[i] = Unread[i]
        /\ \A i \in 1 .. Len(Unread) + 1 : Wait(i)' = Wait(i)
    BY <2>1, <2>2, WaitArrival
  <2>4. Aged /\ Early
    BY <1>6, <1>14
  <2>5. Aged'
    <3>1. CASE transit' = transit
      BY <2>1, <2>4, <3>1 DEF Aged
    <3>2. CASE transit # <<>> /\ transit' = Tail(transit)
      <4>1. /\ \A i \in DOMAIN Tail(transit) :
                  i + 1 \in DOMAIN transit /\ Tail(transit)[i] = transit[i + 1]
        BY <1>0, <3>2, HeadTailProperties, LenProperties
      <4> QED
        BY <2>1, <2>4, <3>2, <4>1 DEF Aged
    <3> QED
      BY <2>2, <3>1, <3>2
  <2>6. Early'
    <3> SUFFICES ASSUME NEW i \in 1 .. Len(Unread) + 1, Unread'[i] = "pong"
                 PROVE  silence' + Wait(i)' <= RoundTrip + Backlog
      BY <1>2, <2>3 DEF Early
    <3>1. Wait(i)' = Wait(i) /\ silence' = silence /\ Wait(i) \in Nat
      BY <2>1, <2>3, WaitTypes
    <3>2. CASE i = Len(Unread) + 1
      <4>1. transit # <<>>
        BY <2>2, <2>3, <3>2
      <4>2. silence <= RoundTrip
        <5>1. 1 \in DOMAIN transit
          BY <1>0, <4>1, EmptySeq, LenProperties
        <5> QED
          BY <1>0, <2>4, <5>1 DEF Aged
      <4>3. Wait(i) <= Backlog
        BY WaitBounded
      <4> QED
        BY <1>0, <3>1, <4>2, <4>3
    <3>3. CASE i # Len(Unread) + 1
      <4>1. i \in 1 .. Len(Unread)
        BY <1>2, <3>3
      <4> QED
        BY <1>2, <2>3, <2>4, <3>1, <4>1 DEF Early
    <3> QED
      BY <3>2, <3>3
  <2>7. Due(n)'
    <3>1. n = b
      BY <1>3, <1>4, <2>1
    <3>2. Wait(n)' <= Wait(b)
      BY <1>5, <2>3, <3>1
    <3> QED
      BY <1>9, <1>14, <2>1, <3>2
  <2> QED
    BY <1>7, <2>5, <2>6, <2>7
<1>15. ASSUME Fetch, session = "active" PROVE Silent'
  <2>1. /\ deadline > 0
        /\ UNCHANGED <<times, deadline, transit, answers, silence, writing>>
    BY <1>15 DEF Fetch, consoleVars
  <2>2. Unread' = Unread /\ \A i \in Int : Wait(i)' = Wait(i)
    BY <1>15, <2>1, WaitFetch, WaitKept
  <2>3. Early'
    BY <1>2, <1>6, <1>15, <2>1, <2>2 DEF Early
  <2>4. Aged'
    BY <1>6, <1>15, <2>1 DEF Aged
  <2>5. Due(n)'
    BY <1>9, <1>15, <2>1
  <2> QED
    BY <1>7, <2>3, <2>4, <2>5
<1>16. ASSUME ReadPong \/ ReadInput, session = "active" PROVE Silent'
  <2>1. UNCHANGED <<times, transit, answers, silence>>
    BY <1>16 DEF ReadPong, ReadInput, networkVars, consoleVars
  <2>2. /\ Len(Unread') = Len(Unread) - 1
        /\ Len(buffered') = Len(buffered) - 1
        /\ \A i \in 1 .. Len(Unread) - 1 : Unread'[i] = Unread[i + 1]
        /\ \A i \in 1 .. Len(Unread) : Wait(i)' <= Wait(i + 1)
        /\ Unread[1] = Head(buffered)
    BY <1>16, WaitRead
  <2>3. Aged'
    BY <1>6, <1>16, <2>1 DEF Aged
  <2>4. Early'
    <3> SUFFICES ASSUME NEW i \in 1 .. Len(Unread) - 1, Unread'[i] = "pong"
                 PROVE  silence' + Wait(i)' <= RoundTrip + Backlog
      BY <1>2, <2>2 DEF Early
    <3>1. i \in 1 .. Len(Unread) /\ i + 1 \in 1 .. Len(Unread) /\ i \in Int
      BY <1>2
    <3>2. Wait(i)' \in Nat
      BY <3>1, WaitTypesNext
    <3>3. Wait(i + 1) \in Nat
      BY <3>1, WaitTypes
    <3>4. silence + Wait(i + 1) <= RoundTrip + Backlog
      BY <1>2, <1>6, <1>16, <2>2, <3>1 DEF Early
    <3> QED
      BY <1>0, <2>1, <2>2, <3>1, <3>2, <3>3, <3>4
  <2>5. Due(n)'
    <3>1. CASE ReadPong
      <4>1. Unread[1] = "pong" /\ 1 \in DOMAIN Unread
        BY <1>2, <2>2, <3>1 DEF ReadPong
      <4>2. Wait(1) \in Nat
        <5>1. 1 \in Int
          OBVIOUS
        <5> QED
          BY <5>1, WaitTypes
      <4>3. silence + Wait(1) <= RoundTrip + Backlog
        BY <1>6, <1>16, <4>1 DEF Early
      <4> QED
        BY <1>0, <1>8, <2>1, <4>2, <4>3
    <3>2. CASE ReadInput
      <4>1. n \in 1 .. Len(Unread) /\ b = n + 1
        BY <1>2, <1>3, <1>4, <2>2
      <4>2. Wait(n)' <= Wait(b)
        BY <2>2, <4>1
      <4>3. deadline' = deadline
        BY <3>2 DEF ReadInput
      <4> QED
        BY <1>9, <1>16, <2>1, <4>2, <4>3
    <3> QED
      BY <1>16, <3>1, <3>2
  <2> QED
    BY <1>7, <2>3, <2>4, <2>5
<1>17. ASSUME ConsoleTakes, session = "active" PROVE Silent'
  <2>1. UNCHANGED <<times, deadline, transit, answers, silence, buffered>>
    BY <1>17 DEF ConsoleTakes, networkVars
  <2>2. Unread' = Unread /\ \A i \in Int : Wait(i)' <= Wait(i)
    BY <1>17, WaitTakes
  <2>3. Aged'
    BY <1>6, <1>17, <2>1 DEF Aged
  <2>4. Early'
    <3> SUFFICES ASSUME NEW i \in 1 .. Len(Unread), Unread[i] = "pong"
                 PROVE  silence' + Wait(i)' <= RoundTrip + Backlog
      BY <1>2, <2>2 DEF Early
    <3>1. Wait(i)' \in Nat /\ Wait(i) \in Nat
      BY WaitTypes, WaitTypesNext
    <3>2. silence + Wait(i) <= RoundTrip + Backlog
      BY <1>2, <1>6, <1>17 DEF Early
    <3> QED
      BY <1>0, <2>1, <2>2, <3>1, <3>2
  <2>5. Due(n)'
    <3>1. n = b
      BY <1>3, <1>4, <2>1
    <3>2. Wait(n)' <= Wait(b)
      BY <2>2, <3>1
    <3> QED
      BY <1>9, <1>17, <2>1, <3>2
  <2> QED
    BY <1>7, <2>3, <2>4, <2>5
<1>18. ASSUME Tick, session = "active" PROVE Silent'
  <2>1. /\ deadline' = IF deadline = 0 THEN 0 ELSE deadline - 1
        /\ transit' = [i \in DOMAIN transit |-> transit[i] + 1]
        /\ silence' = IF answers \/ Held THEN silence ELSE silence + 1
        /\ UNCHANGED <<times, answers, buffered>>
    BY <1>18 DEF Tick
  <2>2. /\ Unread' = Unread
        /\ writing = None => Unread = <<>> /\ deadline > 0
        /\ \A i \in Int :
              Wait(i)' = IF writing = None \/ Held THEN Wait(i)
                         ELSE Wait(i) - 1
    BY <1>18, WaitTick
  <2>3. Aged /\ Early /\ Due(b)
    BY <1>6, <1>18
  <2>4. Aged'
    <3>1. CASE answers
      BY <2>1, <2>3, <3>1 DEF Aged
    <3>2. CASE ~answers
      <4>1. \A i \in DOMAIN transit : silence + 1 <= transit[i] + 1
        BY <1>0, <2>3, <3>2 DEF Aged
      <4>2. \A i \in DOMAIN transit : silence' <= transit[i] + 1
        BY <1>0, <2>1, <4>1
      <4> QED
        BY <2>1, <3>2, <4>2 DEF Aged
    <3> QED
      BY <3>1, <3>2
  <2>5. silence' <= silence + 1
    BY <1>0, <2>1
  <2>6. Early'
    <3> SUFFICES ASSUME NEW i \in 1 .. Len(Unread), Unread[i] = "pong"
                 PROVE  silence' + Wait(i)' <= RoundTrip + Backlog
      BY <1>2, <2>2 DEF Early
    <3>1. Len(Unread) # 0
      BY <1>2
    <3>2. /\ Wait(i)' = IF Held THEN Wait(i) ELSE Wait(i) - 1
          /\ Wait(i) \in Nat
      BY <2>2, <3>1, EmptySeq, WaitTypes
    <3>3. silence + Wait(i) <= RoundTrip + Backlog
      BY <1>2, <2>3 DEF Early
    <3> QED
      BY <1>0, <1>1, <2>1, <2>5, <3>2, <3>3
  <2>7. Due(n)'
    <3>1. n = b
      BY <1>3, <1>4, <2>1
    <3>2. silence + (IF deadline > 0 THEN deadline + Batch ELSE Wait(b))
             <= times.timeout + RoundTrip + Backlog + Batch
      BY <2>3 DEF Due, Bound
    <3>3. IF Held THEN silence' = silence /\ Wait(n)' = Wait(b)
          ELSE deadline = 0 => Wait(n)' = Wait(b) - 1
      BY <1>0, <2>1, <2>2, <3>1 DEF Held, None
    <3>4. silence' + (IF deadline' > 0 THEN deadline' + Batch ELSE Wait(n)')
             <= times'.timeout + RoundTrip + Backlog + Batch
      <4>1. silence' + (IF (IF deadline = 0 THEN 0 ELSE deadline - 1) > 0
                        THEN (IF deadline = 0 THEN 0 ELSE deadline - 1) + Batch
                        ELSE Wait(n)')
               <= times.timeout + RoundTrip + Backlog + Batch
        <5>1. CASE Held
          BY <1>0, <1>5, <3>2, <3>3, <5>1, DueArithmetic
        <5>2. CASE ~Held
          BY <1>0, <1>1, <1>5, <2>5, <3>2, <3>3, <5>2, DueArithmetic
        <5> QED
          BY <5>1, <5>2
      <4> QED
        BY <2>1, <4>1
    <3> QED
      BY <3>4 DEF Due, Bound
  <2> QED
    BY <1>7, <2>4, <2>6, <2>7
<1> QED
  BY <1>10, <1>11, <1>12, <1>13, <1>14, <1>15, <1>16, <1>17, <1>18, Frames

\* Who is ended by the deadline had stopped answering, or its times left no room.
LEMMA StaysStep ==
    ASSUME IInv, KeepaliveTypeOK', Started', [KeepaliveNext]_allVars
    PROVE  AnsweringBrowserStays'
<1> USE DEF IInv
<1>1. ASSUME UNCHANGED <<reason, times, answers, slow>> PROVE AnsweringBrowserStays'
  BY <1>1 DEF AnsweringBrowserStays, Margin
<1>2. ASSUME UNCHANGED keepaliveVars
      PROVE  UNCHANGED <<reason, times, answers, slow>>
  BY <1>2 DEF keepaliveVars, networkVars, readerVars, consoleVars
<1>3. ASSUME session' # "ended" PROVE AnsweringBrowserStays'
  BY <1>3 DEF Started, AnsweringBrowserStays
<1>4. ASSUME StartSession PROVE session' # "ended"
  BY <1>4 DEF StartSession
<1>5. ASSUME session = "active",
             \/ Ping \/ PongArrives \/ InputArrives \/ StopsAnswering
             \/ Fetch \/ ReadPong \/ ReadInput \/ ConsoleTakes \/ Tick
      PROVE  session' # "ended"
  BY <1>5 DEF Ping, PongArrives, InputArrives, StopsAnswering, Fetch, ReadPong,
     ReadInput, ConsoleTakes, Tick
<1>6. ASSUME EndsOtherwise PROVE AnsweringBrowserStays'
  BY <1>6 DEF EndsOtherwise, Ends, AnsweringBrowserStays
<1>7. ASSUME DeadlinePasses PROVE AnsweringBrowserStays'
  <2>1. /\ session = "active" /\ deadline = 0
        /\ UNCHANGED <<times, answers, slow>>
    BY <1>7 DEF DeadlinePasses, Reading, Ends, networkVars, readerVars,
       consoleVars
  <2>2. ~(answers /\ ~slow /\ Margin)
    BY <2>1, AnsweredEarly
  <2>3. Margin' = Margin
    BY <2>1 DEF Margin
  <2> QED
    BY <2>1, <2>2, <2>3 DEF AnsweringBrowserStays
<1> QED
  BY <1>1, <1>2, <1>3, <1>4, <1>5, <1>6, <1>7, Frames

LEMMA IInvInit == KeepaliveInit => IInv
<1> SUFFICES ASSUME KeepaliveInit PROVE IInv
  OBVIOUS
<1>1. ConfigInv
  BY ConfigInvInit
<1>2. /\ phase = "file" /\ session = "none" /\ reason = "none"
      /\ times = [interval |-> 0, timeout |-> 0]
      /\ deadline = 0 /\ ticker = 0 /\ silence = 0 /\ answers = TRUE /\ slow = FALSE
      /\ transit = <<>> /\ socket = <<>> /\ buffered = <<>> /\ writing = None
  BY DEF KeepaliveInit, ConfigInit
<1>3. /\ RoundTrip \in Nat /\ ConsoleDelay \in Nat /\ InputLimit \in Nat
      /\ TimeLimit \in Nat
  BY KeepaliveAssumption
<1>4. KeepaliveTypeOK
  <2>1. ConfigTypeOK
    BY ConfigTypeInit DEF KeepaliveInit
  <2>2. /\ transit \in Seq(0 .. RoundTrip)
        /\ socket \in Seq({"pong", "input"}) /\ buffered \in Seq({"pong", "input"})
    BY <1>2, EmptySeq
  <2>3. answers \in BOOLEAN /\ slow \in BOOLEAN
    BY <1>2
  <2> QED
    BY <1>2, <1>3, <2>1, <2>2, <2>3 DEF KeepaliveTypeOK
<1>5. Started
  <2>1. times \in [interval : Nat, timeout : Nat]
    BY <1>2
  <2> QED
    BY <1>2, <1>3, <2>1 DEF Started
<1>6. Load
  <2>1. Len(Unread) + 1 = 1 /\ Len(buffered) + 1 = 1
    BY <1>2 DEF Unread
  <2>2. Ahead(1) = 0
    BY InputsNone DEF Ahead
  <2>3. Wait(1) = 0 /\ Batch \in Nat
    BY <1>2, <1>3, <2>2, <1>4, WaitTypes DEF Wait, Owed
  <2> QED
    BY <1>3, <2>1, <2>2, <2>3 DEF Load
<1>7. Answered /\ Silent /\ AnsweringBrowserStays
  BY <1>2 DEF Answered, Silent, AnsweringBrowserStays
<1> QED
  BY <1>1, <1>4, <1>5, <1>6, <1>7 DEF IInv

LEMMA IInvStep == IInv /\ [KeepaliveNext]_allVars => IInv'
<1> SUFFICES ASSUME IInv, [KeepaliveNext]_allVars PROVE IInv'
  OBVIOUS
<1>1. ConfigInv'
  BY ConfigInvStep DEF IInv
<1>2. KeepaliveTypeOK'
  BY TypeStep DEF IInv
<1>3. Started' /\ Load'
  BY <1>2, StartedStep, LoadStep
<1>4. Answered' /\ Silent'
  BY <1>2, <1>3, AnsweredStep, SilentStep
<1>5. AnsweringBrowserStays'
  BY <1>2, <1>3, StaysStep
<1> QED
  BY <1>1, <1>2, <1>3, <1>4, <1>5 DEF IInv

\* The invariant of the keepalive in time.
THEOREM Invariance == KeepaliveSpec => []IInv
BY IInvInit, IInvStep, PTL DEF KeepaliveSpec

\* All variables, of the configuration and of the session, keep to their types.
THEOREM TypeCorrect == KeepaliveSpec => []KeepaliveTypeOK
BY Invariance, PTL DEF IInv

\* With times that leave room for a ping, its pong and the input before it, no
\* browser that answers is ended by the keepalive, whatever the times are, as long
\* as the console takes each input within ConsoleDelay.
THEOREM AnsweringStays == KeepaliveSpec => []AnsweringBrowserStays
BY Invariance, PTL DEF IInv

\* A browser that no longer answers loses its session in bounded time, to which
\* comes the time that a slow console holds the reader beyond ConsoleDelay.
THEOREM SilenceEnds == KeepaliveSpec => []SilenceBounded
<1>1. IInv => SilenceBounded
  <2> SUFFICES ASSUME IInv, session = "active"
               PROVE  silence <= times.timeout + RoundTrip + Backlog
                                    + InputLimit * ConsoleDelay
    BY DEF SilenceBounded
  <2>1. /\ RoundTrip \in Nat /\ Backlog \in Nat /\ Batch \in Nat
        /\ deadline \in Nat /\ silence \in Nat /\ times.timeout \in Nat
    BY Numbers DEF IInv
  <2>2. Wait(Len(buffered) + 1) \in Nat
    <3>1. Len(buffered) + 1 \in Int
      BY Queue DEF IInv
    <3> QED
      BY <3>1, WaitTypes DEF IInv
  <2>3. silence + (IF deadline > 0 THEN deadline + Batch
                   ELSE Wait(Len(buffered) + 1))
           <= times.timeout + RoundTrip + Backlog + Batch
    BY DEF IInv, Silent, Due, Bound
  <2>4. silence <= times.timeout + RoundTrip + Backlog + Batch
    BY <2>1, <2>2, <2>3
  <2> QED
    BY <2>4 DEF Batch
<1> QED
  BY <1>1, Invariance, PTL

=============================================================================
