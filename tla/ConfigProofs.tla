---------------------------- MODULE ConfigProofs ----------------------------
(***************************************************************************)
(* Proofs about Config, as a part of Keepalive, for files of any length    *)
(* with any lines and any environments: what the gateway runs with is what *)
(* the user said, and suits the other components.                          *)
(***************************************************************************)
EXTENDS Keepalive, WellFoundedInduction, TLAPS

-----------------------------------------------------------------------------
(* The orders in which settings are parsed and checked *)

\* A set of numbers that is not empty has a least member.
LEMMA Least ==
    ASSUME NEW T \in SUBSET Nat, T # {}
    PROVE  \E i \in T : \A j \in T : i <= j
<1> DEFINE less == OpToRel(<, Nat)
<1>1. PICK i \in T : \A j \in T : <<j, i>> \notin less
  <2>1. IsWellFoundedOn(less, Nat)
    BY NatLessThanWellFounded
  <2> HIDE DEF less
  <2> QED
    BY <2>1, WFMin
<1>2. \A j \in T : ~(j < i)
  BY <1>1 DEF OpToRel
<1> QED
  BY <1>2

LEMMA Greatest ==
    ASSUME NEW n \in Nat, NEW T \in SUBSET (1 .. n), T # {}
    PROVE  \E i \in T : \A j \in T : j <= i
<1> DEFINE below == { n - j : j \in T }
<1>1. below \in SUBSET Nat /\ below # {}
  <2>1. \A j \in T : n - j \in Nat
    OBVIOUS
  <2>2. below \in SUBSET Nat
    BY <2>1
  <2>3. below # {}
    OBVIOUS
  <2> QED
    BY <2>2, <2>3
<1>2. PICK m \in below : \A j \in below : m <= j
  BY <1>1, Least
<1> QED
  BY <1>2

LEMMA SettingsNamed == NoFault \notin Setting /\ "ConfigFile" \notin Setting
BY Zenon DEF NoFault, Setting, Text, Switch, Positive

\* The first fault is one; there is none only if nothing is at fault.
LEMMA FaultFound ==
    ASSUME NEW order \in Seq(Setting), NEW faults, NEW k \in faults,
           NEW i \in DOMAIN order, order[i] = k
    PROVE  /\ FirstFault(order, faults) \in faults
           /\ FirstFault(order, faults) \in Setting
<1> DEFINE at == { j \in DOMAIN order : order[j] \in faults }
           first(j) == /\ order[j] \in faults
                       /\ \A n \in 1 .. j - 1 : order[n] \notin faults
<1>1. DOMAIN order = 1 .. Len(order) /\ Len(order) \in Nat
  OBVIOUS
<1>2. PICK j \in at : \A n \in at : j <= n
  <2>1. at \in SUBSET Nat /\ at # {}
    BY <1>1
  <2> QED
    BY <2>1, Least
<1>3. \E n \in DOMAIN order : first(n)
  BY <1>1, <1>2
<1>4. FirstFault(order, faults) = order[CHOOSE n \in DOMAIN order : first(n)]
  BY DEF FirstFault
<1> QED
  BY <1>3, <1>4

\* All settings that are numbers are parsed and checked.
LEMMA Ordering ==
    /\ ParseOrder \in Seq(Setting) /\ CheckOrder \in Seq(Setting)
    /\ \A k \in Positive \cup {"SSHPort"} :
          /\ \E i \in DOMAIN ParseOrder : ParseOrder[i] = k
          /\ \E i \in DOMAIN CheckOrder : CheckOrder[i] = k
<1> USE DEF ParseOrder, CheckOrder, Setting, Text, Switch, Positive
<1>1. ParseOrder \in Seq(Setting) /\ CheckOrder \in Seq(Setting)
  OBVIOUS
<1>2. ASSUME NEW k \in Positive \cup {"SSHPort"}
      PROVE  \E i \in 1 .. 12 : ParseOrder[i] = k
  OBVIOUS
<1>3. ASSUME NEW k \in Positive \cup {"SSHPort"}
      PROVE  \E i \in 1 .. 12 : CheckOrder[i] = k
  OBVIOUS
<1>4. DOMAIN ParseOrder = 1 .. 12 /\ DOMAIN CheckOrder = 1 .. 12
  OBVIOUS
<1> QED
  BY <1>1, <1>2, <1>3, <1>4

-----------------------------------------------------------------------------
(* What has been read, and what came of it *)

Number == Positive \cup {"SSHPort"}

\* What is read is what the user says, up to the start of the first session.
Reads ==
    /\ settings \in [Key -> Value]
    /\ lines \in Seq(Key \X Value)
    /\ env \in [Key -> Value \cup {Unset}]
    /\ phase \in {"file", "env"} => env = NoEnv
    /\ phase # "serving" => \A k \in Key : settings[k] = Said(k)

\* What Resolve has made of it.
Results ==
    /\ phase = "loaded" =>
          /\ config = Resolved
          /\ \A k \in Number : Resolved[k] # Malformed /\ Checks(Resolved, k)
    /\ phase = "failed" /\ fault # "ConfigFile" =>
          /\ fault \in Setting
          /\ \/ Resolved[fault] = Malformed
             \/ /\ ~Checks(Resolved, fault)
                /\ \A k \in Number : Resolved[k] # Malformed

ConfigInv == Reads /\ Results

LEMMA Types ==
    /\ NoSettings \in [Key -> Value] /\ NoEnv \in [Key -> Value \cup {Unset}]
    /\ \A e \in Environment : e \in [Key -> Value \cup {Unset}]
    /\ FileLine \subseteq Key \X Value
    /\ Unset \notin Value
BY MarksAssumption, FileLineAssumption, EnvironmentAssumption
   DEF NoSettings, NoEnv, Value

\* Another line decides what is said of its key, and of no other.
LEMMA LineSaid ==
    ASSUME Reads, phase = "file", NEW l \in Key \X Value,
           lines' = Append(lines, l), env' = env,
           settings' = [settings EXCEPT ![l[1]] = l[2]], NEW k \in Key
    PROVE  settings'[k] = Said(k)'
<1> DEFINE at == { i \in DOMAIN lines : lines[i][1] = k }
           last(S) == CHOOSE i \in S : \A j \in S : j <= i
<1>1. /\ DOMAIN lines = 1 .. Len(lines) /\ Len(lines) \in Nat
      /\ DOMAIN lines' = 1 .. Len(lines) + 1
      /\ lines'[Len(lines) + 1] = l
      /\ \A i \in DOMAIN lines : lines'[i] = lines[i]
  BY DEF Reads
<1>2. env[k] = Unset
  BY DEF Reads, NoEnv
<1>3. /\ Said(k) = IF at = {} THEN Blank ELSE lines[last(at)][2]
      /\ Said(k)' = IF at' = {} THEN Blank ELSE lines'[last(at')][2]
  BY <1>2 DEF Said
<1>4. settings[k] = Said(k)
  BY DEF Reads
<1>5. CASE l[1] = k
  <2>1. at' = at \cup {Len(lines) + 1}
    BY <1>1, <1>5
  <2>2. last(at') = Len(lines) + 1
    <3>1. \A j \in at' : j <= Len(lines) + 1 /\ j \in Nat
      BY <1>1, <2>1
    <3>2. \A i \in at' : (\A j \in at' : j <= i) => i = Len(lines) + 1
      BY <1>1, <2>1, <3>1
    <3> QED
      BY <2>1, <3>1, <3>2
  <2>3. settings'[k] = l[2]
    BY <1>5 DEF Reads
  <2> QED
    BY <1>1, <1>3, <2>1, <2>2, <2>3
<1>6. CASE l[1] # k
  <2>1. at' = at
    BY <1>1, <1>6
  <2>2. settings'[k] = settings[k]
    BY <1>6 DEF Reads
  <2>3. at # {} => last(at) \in DOMAIN lines
    <3>1. at # {} => \E i \in at : \A j \in at : j <= i
      BY <1>1, Greatest
    <3> QED
      BY <3>1
  <2> HIDE DEF at, last
  <2>4. Said(k)' = Said(k)
    BY <1>1, <1>3, <2>1, <2>3
  <2> QED
    BY <1>4, <2>2, <2>4
<1> QED
  BY <1>5, <1>6

\* Resolve accepts what parses and passes every check, and blames what does
\* not.
LEMMA ResolveResults == ASSUME Resolve PROVE Results'
<1> DEFINE unparsed == { k \in Setting : Resolved[k] = Malformed }
           invalid  == { k \in Setting : ~Checks(Resolved, k) }
           first    == FirstFault(ParseOrder, unparsed)
           second   == FirstFault(CheckOrder, invalid)
<1>1. fault' = IF first # NoFault THEN first ELSE second
  BY DEF Resolve
<1>2. UNCHANGED <<settings, lines, env>> /\ Resolved' = Resolved
  BY DEF Resolve, Resolved
<1>3. \/ fault' = NoFault /\ phase' = "loaded" /\ config' = Resolved
      \/ fault' # NoFault /\ phase' = "failed"
  BY DEF Resolve
<1>4. Number \subseteq Setting
  BY DEF Number, Setting
<1>5. first = NoFault => \A k \in Number : Resolved[k] # Malformed
  <2> SUFFICES ASSUME NEW k \in Number, Resolved[k] = Malformed
               PROVE  first # NoFault
    OBVIOUS
  <2>1. first \in Setting
    BY <1>4, Ordering, FaultFound DEF Number
  <2> QED
    BY <2>1, SettingsNamed
<1>6. second = NoFault => \A k \in Number : Checks(Resolved, k)
  <2> SUFFICES ASSUME NEW k \in Number, ~Checks(Resolved, k)
               PROVE  second # NoFault
    OBVIOUS
  <2>1. second \in Setting
    BY <1>4, Ordering, FaultFound DEF Number
  <2> QED
    BY <2>1, SettingsNamed
<1>7. first # NoFault => first \in unparsed
  <2>1. first # NoFault => \E i \in DOMAIN ParseOrder : ParseOrder[i] \in unparsed
    BY DEF FirstFault
  <2> QED
    BY <2>1, Ordering, FaultFound
<1>8. second # NoFault => second \in invalid
  <2>1. second # NoFault => \E i \in DOMAIN CheckOrder : CheckOrder[i] \in invalid
    BY DEF FirstFault
  <2> QED
    BY <2>1, Ordering, FaultFound
<1> HIDE DEF first, second
<1>9. CASE fault' = NoFault
  BY <1>1, <1>2, <1>3, <1>5, <1>6, <1>9 DEF Results
<1>10. CASE fault' # NoFault
  <2>1. phase' = "failed" /\ fault' \in Setting
    BY <1>1, <1>3, <1>7, <1>8, <1>10
  <2>2. \/ Resolved[fault'] = Malformed
        \/ /\ ~Checks(Resolved, fault')
           /\ \A k \in Number : Resolved[k] # Malformed
    BY <1>1, <1>5, <1>7, <1>8, <1>10
  <2>3. Checks(Resolved, fault)' = Checks(Resolved, fault')
    BY <1>2 DEF Checks, Ordered
  <2> QED
    BY <1>2, <2>1, <2>2, <2>3 DEF Results
<1> QED
  BY <1>9, <1>10

LEMMA ReadsKept ==
    ASSUME Reads, UNCHANGED <<settings, lines, env>>,
           phase' \in {"file", "env"} => phase \in {"file", "env"},
           phase' # "serving" => phase # "serving"
    PROVE  Reads'
<1>1. ASSUME NEW k PROVE Said(k)' = Said(k)
  <2> DEFINE at == { i \in DOMAIN lines : lines[i][1] = k }
             last(S) == CHOOSE i \in S : \A j \in S : j <= i
  <2>1. lines' = lines /\ env' = env
    OBVIOUS
  <2>2. at' = at
    BY <2>1, Zenon
  <2>3. /\ Said(k) = IF env[k] # Unset THEN env[k]
                     ELSE IF at = {} THEN Blank ELSE lines[last(at)][2]
        /\ Said(k)' = IF env'[k] # Unset THEN env'[k]
                      ELSE IF at' = {} THEN Blank ELSE lines'[last(at')][2]
    BY Zenon DEF Said
  <2> HIDE DEF at, last
  <2> QED
    BY <2>1, <2>2, <2>3
<1> QED
  BY <1>1 DEF Reads

LEMMA ResultsKept ==
    ASSUME Results, UNCHANGED configVars
    PROVE  Results'
<1>1. Resolved' = Resolved
  BY DEF Resolved, configVars
<1>2. UNCHANGED <<phase, config, fault>>
  BY DEF configVars
<1>3. \A k : Checks(Resolved, k)' = Checks(Resolved, k)
  BY <1>1 DEF Checks, Ordered
<1> QED
  BY <1>1, <1>2, <1>3 DEF Results

LEMMA ConfigInvInit == KeepaliveInit => ConfigInv
<1> SUFFICES ASSUME KeepaliveInit PROVE ConfigInv
  OBVIOUS
<1>1. /\ phase = "file" /\ settings = NoSettings /\ lines = <<>>
      /\ env = NoEnv
  BY DEF KeepaliveInit, ConfigInit
<1>2. \A k \in Key : settings[k] = Blank /\ Said(k) = Blank
  BY <1>1 DEF NoSettings, NoEnv, Said
<1> QED
  BY <1>1, <1>2, Types DEF ConfigInv, Reads, Results

LEMMA ConfigInvStep == ConfigInv /\ [KeepaliveNext]_allVars => ConfigInv'
<1> SUFFICES ASSUME ConfigInv, [KeepaliveNext]_allVars PROVE ConfigInv'
  OBVIOUS
<1> USE DEF ConfigInv
<1>1. CASE ReadLine
  <2>1. PICK l \in FileLine : /\ lines' = Append(lines, l)
                             /\ settings' = [settings EXCEPT ![l[1]] = l[2]]
    BY <1>1 DEF ReadLine
  <2>2. phase = "file" /\ UNCHANGED <<phase, env, config, fault>>
    BY <1>1 DEF ReadLine
  <2>3. l \in Key \X Value
    BY Types
  <2>4. \A k \in Key : settings'[k] = Said(k)'
    BY <2>1, <2>2, <2>3, LineSaid
  <2>5. lines' \in Seq(Key \X Value) /\ settings' \in [Key -> Value]
    BY <2>1, <2>3 DEF Reads
  <2> QED
    BY <2>2, <2>4, <2>5 DEF Reads, Results
<1>2. CASE FileFails \/ FileEnds
  <2>1. /\ UNCHANGED <<settings, lines, env>> /\ phase = "file"
        /\ phase' = "env" \/ (phase' = "failed" /\ fault' = "ConfigFile")
    BY <1>2 DEF FileFails, FileEnds
  <2>2. Reads'
    BY <2>1, ReadsKept
  <2>3. Results'
    BY <2>1 DEF Results
  <2> QED
    BY <2>2, <2>3
<1>3. CASE LookupEnv
  <2>1. /\ phase = "env" /\ phase' = "resolve" /\ env' \in Environment
        /\ settings' = [k \in Key |-> IF env'[k] = Unset
                                      THEN settings[k] ELSE env'[k]]
        /\ UNCHANGED lines
    BY <1>3 DEF LookupEnv
  <2>2. env' \in [Key -> Value \cup {Unset}]
    BY <2>1, Types
  <2>3. settings' \in [Key -> Value]
    BY <2>1, <2>2 DEF Reads
  <2>4. ASSUME NEW k \in Key PROVE settings'[k] = Said(k)'
    <3>1. settings[k] = Said(k) /\ env[k] = Unset
      BY <2>1 DEF Reads, NoEnv
    <3> QED
      BY <2>1, <3>1 DEF Said
  <2> QED
    BY <2>1, <2>2, <2>3, <2>4 DEF Reads, Results
<1>4. CASE Resolve
  <2>1. /\ UNCHANGED <<settings, lines, env>>
        /\ phase = "resolve" /\ phase' \in {"loaded", "failed"}
    BY <1>4 DEF Resolve
  <2> QED
    BY <1>4, <2>1, ResolveResults, ReadsKept
<1>5. CASE StartSession
  <2>1. /\ phase' = "serving" /\ settings' = NoSettings /\ lines' = <<>>
        /\ env' = NoEnv
    BY <1>5 DEF StartSession
  <2> QED
    BY <2>1, Types DEF Reads, Results
<1>6. CASE UNCHANGED configVars
  BY <1>6, ReadsKept, ResultsKept DEF configVars
<1>7. CASE \/ Ping \/ PongArrives \/ InputArrives \/ StopsAnswering
           \/ Fetch \/ ReadPong \/ ReadInput \/ ConsoleTakes
           \/ DeadlinePasses \/ EndsOtherwise \/ Tick
           \/ Finished \/ NotFollowed \/ UNCHANGED allVars
  <2>1. UNCHANGED configVars
    BY <1>7 DEF Ping, PongArrives, InputArrives, StopsAnswering, Fetch,
       ReadPong, ReadInput, ConsoleTakes, DeadlinePasses, EndsOtherwise, Ends,
       Tick, Finished, NotFollowed, allVars
  <2> QED
    BY <1>6, <2>1
<1> QED
  BY <1>1, <1>2, <1>3, <1>4, <1>5, <1>7 DEF KeepaliveNext, ConfigNext

\* What is read and what came of it stay in step with what the user said.
THEOREM ConfigInvariance == KeepaliveSpec => []ConfigInv
BY ConfigInvInit, ConfigInvStep, PTL DEF KeepaliveSpec

-----------------------------------------------------------------------------
(* The properties *)

\* What Resolve parses is what the user wants, or the default.
LEMMA ResolvedWanted ==
    ASSUME Reads, phase # "serving", NEW k \in Setting
    PROVE  Resolved[k] = IF Wanted(k) = Blank THEN Default[k] ELSE Wanted(k)
<1>1. k \in Key /\ "IdleTimeout" \in Key
  BY DEF Key
<1>2. settings[k] = Said(k) /\ settings["IdleTimeout"] = Said("IdleTimeout")
  BY <1>1 DEF Reads
<1> QED
  BY <1>2 DEF Resolved, Wanted, OrElse

\* Every setting the gateway runs with is what the user has said of it last, or
\* the default where the user says nothing.
THEOREM SettingsFollowUser == KeepaliveSpec => []SourcesRespected
<1>1. ConfigInv => SourcesRespected
  BY ResolvedWanted DEF ConfigInv, Results, SourcesRespected
<1> QED
  BY <1>1, ConfigInvariance, PTL

LEMMA NumberDefaults ==
    \A k \in Number : Default[k] \in Int
BY DEF Number, Positive, Setting, Default, Text, Switch

\* A number that parses is one.
LEMMA NumbersParsed ==
    ASSUME Reads, NEW k \in Number, Resolved[k] # Malformed
    PROVE  Resolved[k] \in Int
<1>1. k \in Setting /\ k \in Key /\ "IdleTimeout" \in Key
  BY DEF Number, Setting, Key
<1>2. settings[k] \in Value /\ settings["IdleTimeout"] \in Value
  BY <1>1 DEF Reads
<1>3. Default[k] \in Int
  BY NumberDefaults
<1>4. \/ Resolved[k] = Default[k]
      \/ Resolved[k] \in Value /\ Resolved[k] # Blank
  BY <1>1, <1>2 DEF Resolved, OrElse
<1> QED
  BY <1>3, <1>4 DEF Value

LEMMA Suitable == ASSUME ConfigInv PROVE AcceptedSuits
<1> SUFFICES ASSUME phase = "loaded"
             PROVE  /\ \A k \in DOMAIN Configured(config) :
                          Configured(config)[k] = config[k]
                    /\ Configured(config)["KeepaliveInterval"]
                          < Configured(config)["KeepaliveTimeout"]
                    /\ \A k \in Positive : config[k] >= 1
                    /\ 1 <= config["SSHPort"] /\ config["SSHPort"] <= 65535
  BY DEF AcceptedSuits
<1>1. \A k \in Number : config[k] \in Int /\ Checks(config, k)
  BY NumbersParsed DEF ConfigInv, Results
<1>2. \A k \in Number : config[k] > 0
  BY <1>1 DEF Number, Checks
<1>3. config["SSHPort"] <= MaxPort
  BY <1>1 DEF Number, Checks
<1>4. config["KeepaliveInterval"] < config["KeepaliveTimeout"]
  BY <1>1 DEF Number, Positive, Checks, Ordered
<1>5. \A k \in DOMAIN Configured(config) :
         k \in Number /\ Configured(config)[k] = config[k]
  BY <1>2 DEF Configured, Number, Positive
<1>6. "KeepaliveInterval" \in DOMAIN Configured(config)
      /\ "KeepaliveTimeout" \in DOMAIN Configured(config)
  BY DEF Configured
<1>7. \A k \in Positive : config[k] >= 1
  BY <1>1, <1>2 DEF Number
<1>8. 1 <= config["SSHPort"] /\ config["SSHPort"] <= 65535
  BY <1>1, <1>2, <1>3 DEF Number, MaxPort
<1> QED
  BY <1>4, <1>5, <1>6, <1>7, <1>8

\* A configuration that is accepted is one the other components can work with as
\* it is.
THEOREM AcceptedIsSuitable == KeepaliveSpec => []AcceptedSuits
BY Suitable, ConfigInvariance, PTL

\* A start that fails for a setting names one that is really at fault.
THEOREM FaultsAreReal == KeepaliveSpec => []FaultIsReal
<1>1. ConfigInv => FaultIsReal
  <2> SUFFICES ASSUME ConfigInv, phase = "failed", fault # "ConfigFile"
               PROVE  FaultIsReal
    BY DEF FaultIsReal
  <2>1. /\ fault \in Setting
        /\ \/ Resolved[fault] = Malformed
           \/ /\ ~Checks(Resolved, fault)
              /\ \A k \in Number : Resolved[k] # Malformed
    BY DEF ConfigInv, Results
  <2>2. \/ Resolved[fault] \in {Blank, Malformed}
        \/ fault = "SSHPort" /\ (Resolved[fault] < 1 \/ Resolved[fault] > 65535)
        \/ fault \in Positive /\ Resolved[fault] <= 0
        \/ /\ fault = "KeepaliveTimeout"
           /\ Resolved[fault] <= Resolved["KeepaliveInterval"]
    <3>1. \/ Resolved[fault] = Malformed
          \/ ~Checks(Resolved, fault) /\ \A k \in Number : Resolved[k] \in Int
      BY <2>1, NumbersParsed DEF ConfigInv
    <3>2. \/ Checks(Resolved, fault)
          \/ Resolved[fault] \in {Blank, Malformed}
          \/ fault \in Number /\ ~(Resolved[fault] > 0)
          \/ fault = "SSHPort" /\ ~(Resolved[fault] <= 65535)
          \/ /\ fault = "KeepaliveTimeout"
             /\ ~(Resolved[fault] > Resolved["KeepaliveInterval"])
      BY DEF Checks, Ordered, MaxPort, Number
    <3>3. /\ "KeepaliveInterval" \in Number /\ "KeepaliveTimeout" \in Number
          /\ "SSHPort" \in Number
      BY DEF Number, Positive
    <3> QED
      BY <3>1, <3>2, <3>3 DEF Number
  <2>3. "KeepaliveInterval" \in Setting
    BY DEF Setting, Positive
  <2>4. Resolved[fault] = IF Wanted(fault) = Blank THEN Default[fault]
                          ELSE Wanted(fault)
    BY <2>1, ResolvedWanted DEF ConfigInv
  <2>5. Resolved["KeepaliveInterval"] =
           IF Wanted("KeepaliveInterval") = Blank
           THEN Default["KeepaliveInterval"] ELSE Wanted("KeepaliveInterval")
    BY <2>3, ResolvedWanted DEF ConfigInv
  <2> QED
    BY <2>2, <2>4, <2>5 DEF FaultIsReal
<1> QED
  BY <1>1, ConfigInvariance, PTL

=============================================================================
