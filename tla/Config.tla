------------------------------- MODULE Config -------------------------------
(***************************************************************************)
(* The settings of the gateway (internal/config/config.go): read from an   *)
(* optional file and from the environment, parsed and validated, and       *)
(* handed to the registry and the upgrader, which have defaults of their   *)
(* own.  A value is a number (of seconds, bytes, ...) or stands for some   *)
(* text, Blank or Malformed.  Settings that only differ in wording are     *)
(* named as in the code, without the GATEWAY_ in front.                    *)
(***************************************************************************)
EXTENDS Integers, Sequences

CONSTANTS Blank,       \* nothing but white space
          Malformed,   \* does not parse as its setting is to be parsed
          Unset,       \* of an environment variable: it is not set
          FileLine,    \* the lines <<key, value>> of files in an instance
          MaxLines,    \* bound: how many of them a file has
          Environment  \* the environments in an instance

Text == {"ListenAddress", "BackendBaseURL", "PrivateKeyPath", "PublicKeyPath",
         "Username"}
Switch == {"IgnoreHostKey", "LogLevel"}
Positive == {"BackendTimeout", "ReadHeaderTimeout", "ConnectTimeout",
             "AuthorizeTimeout", "MaxConcurrent", "OutboundQueueDepth",
             "MaxMessageBytes", "KeepaliveInterval", "KeepaliveTimeout"}
Setting == Text \cup Switch \cup Positive \cup {"SSHPort"}

\* IdleTimeout is the old name of AuthorizeTimeout.
Key == Setting \cup {"IdleTimeout"}
Value == Int \cup {Blank, Malformed}

ASSUME MarksAssumption ==
    /\ Blank # Malformed /\ Unset \notin {Blank, Malformed}
    /\ {Blank, Malformed, Unset} \cap Int = {}
ASSUME FileLineAssumption == FileLine \subseteq Key \X Value
ASSUME MaxLinesAssumption == MaxLines \in Nat
ASSUME EnvironmentAssumption ==
    Environment \subseteq [Key -> Value \cup {Unset}]

VARIABLES
    phase,    \* how far the start of the gateway has come
    settings, \* the vars of loadVars, Blank where the map has no entry
    lines,    \* the lines the file had
    env,      \* the environment
    config,   \* the Config that Resolve returned
    fault     \* the setting its error names, or NoFault

configVars == <<phase, settings, lines, env, config, fault>>

NoSettings == [k \in Key |-> Blank]
NoEnv      == [k \in Key |-> Unset]
NoConfig   == [k \in Setting |-> Blank]
NoFault    == ""

ConfigTypeOK ==
    /\ phase \in {"file", "env", "resolve", "loaded", "serving", "failed"}
    /\ settings \in [Key -> Value]
    /\ lines \in Seq(FileLine) /\ Len(lines) <= MaxLines
    /\ env \in Environment \cup {NoEnv}
    /\ config \in [Setting -> Value]
    /\ fault \in Setting \cup {NoFault, "ConfigFile"}

ConfigInit ==
    /\ phase = "file"
    /\ settings = NoSettings
    /\ lines = <<>>
    /\ env = NoEnv
    /\ config = NoConfig
    /\ fault = NoFault

-----------------------------------------------------------------------------
(* loadVars and loadFile *)

\* A line KEY=VALUE; a key that is there already is overwritten.
ReadLine ==
    /\ phase = "file"
    /\ Len(lines) < MaxLines
    /\ \E l \in FileLine :
          /\ lines' = Append(lines, l)
          /\ settings' = [settings EXCEPT ![l[1]] = l[2]]
    /\ UNCHANGED <<phase, env, config, fault>>

\* The file cannot be opened or read, or has a line without "=".
FileFails ==
    /\ phase = "file"
    /\ phase' = "failed"
    /\ fault' = "ConfigFile"
    /\ UNCHANGED <<settings, lines, env, config>>

\* The file is at its end, or there is none.
FileEnds ==
    /\ phase = "file"
    /\ phase' = "env"
    /\ UNCHANGED <<settings, lines, env, config, fault>>

\* Slip: an environment variable that is set to nothing is passed over.
LookupEnvUnlessBlank ==
    /\ phase = "env"
    /\ phase' = "resolve"
    /\ env' \in Environment
    /\ settings' = [k \in Key |-> IF env'[k] \in {Unset, Blank}
                                  THEN settings[k] ELSE env'[k]]
    /\ UNCHANGED <<lines, config, fault>>

\* A variable of the environment replaces the file's, also by nothing.
LookupEnv ==
    /\ phase = "env"
    /\ phase' = "resolve"
    /\ env' \in Environment
    /\ settings' = [k \in Key |-> IF env'[k] = Unset
                                  THEN settings[k] ELSE env'[k]]
    /\ UNCHANGED <<lines, config, fault>>

-----------------------------------------------------------------------------
(* Resolve and Validate *)

\* The settings without a default must be set; those that are text or a switch
\* are told apart by their being set only.
Default ==
    LET number ==
            [ BackendTimeout    |-> 5,     ReadHeaderTimeout  |-> 5,
              ConnectTimeout    |-> 5,     AuthorizeTimeout   |-> 120,
              MaxConcurrent     |-> 32,    OutboundQueueDepth |-> 16,
              MaxMessageBytes   |-> 65536, KeepaliveInterval  |-> 30,
              KeepaliveTimeout  |-> 75,    SSHPort            |-> 22 ]
    IN  [k \in Setting |->
            IF k \in {"ListenAddress", "BackendBaseURL"} THEN Blank
            ELSE IF k \in Text \cup Switch THEN 1
            ELSE number[k]]

OrElse(value, other) == IF value = Blank THEN other ELSE value

\* What is parsed for each setting.
Resolved ==
    [k \in Setting |->
        OrElse(settings[k],
               IF k = "AuthorizeTimeout"
               THEN OrElse(settings["IdleTimeout"], Default[k])
               ELSE Default[k])]

ParseOrder ==
    << "BackendTimeout", "ReadHeaderTimeout", "SSHPort", "ConnectTimeout",
       "IgnoreHostKey", "AuthorizeTimeout", "MaxConcurrent",
       "OutboundQueueDepth", "MaxMessageBytes", "KeepaliveInterval",
       "KeepaliveTimeout", "LogLevel" >>

\* The settings in the order of their checks.
CheckOrder ==
    << "ListenAddress", "BackendBaseURL", "BackendTimeout",
       "ReadHeaderTimeout", "SSHPort", "ConnectTimeout", "AuthorizeTimeout",
       "MaxConcurrent", "OutboundQueueDepth", "MaxMessageBytes",
       "KeepaliveInterval", "KeepaliveTimeout" >>

\* Slip: the highest port is refused.
MaxPortRefused == 65534

MaxPort == 65535

\* Slip: Validate is content with a timeout as long as the interval.
OrderedOrEqual(c) == c["KeepaliveTimeout"] >= c["KeepaliveInterval"]

Ordered(c) == c["KeepaliveTimeout"] > c["KeepaliveInterval"]

\* Does the setting k of c pass Validate?
Checks(c, k) ==
    /\ k = "ListenAddress" => c[k] # Blank
    /\ k = "BackendBaseURL" => c[k] \notin {Blank, Malformed}
    /\ k \in Positive \cup {"SSHPort"} => c[k] > 0
    /\ k = "SSHPort" => c[k] <= MaxPort
    /\ k = "KeepaliveTimeout" => Ordered(c)

\* The first member of faults in an order of settings, if there is one.
FirstFault(order, faults) ==
    IF \A i \in DOMAIN order : order[i] \notin faults THEN NoFault
    ELSE order[CHOOSE i \in DOMAIN order :
                  /\ order[i] \in faults
                  /\ \A j \in 1 .. i - 1 : order[j] \notin faults]

Resolve ==
    /\ phase = "resolve"
    /\ LET unparsed == FirstFault(ParseOrder,
                          { k \in Setting : Resolved[k] = Malformed })
           invalid  == FirstFault(CheckOrder,
                          { k \in Setting : ~Checks(Resolved, k) })
       IN  fault' = IF unparsed # NoFault THEN unparsed ELSE invalid
    /\ \/ /\ fault' = NoFault
          /\ phase' = "loaded"
          /\ config' = Resolved
       \/ /\ fault' # NoFault
          /\ phase' = "failed"
          /\ UNCHANGED config
    /\ UNCHANGED <<settings, lines, env>>

-----------------------------------------------------------------------------
(* NewRegistry and NewUpgrader replace what is not positive by a default. *)

Configured(c) ==
    [k \in { "KeepaliveInterval", "KeepaliveTimeout", "MaxConcurrent",
             "OutboundQueueDepth", "MaxMessageBytes" } |->
        IF c[k] > 0 THEN c[k] ELSE Default[k]]

ConfigNext ==
    ReadLine \/ FileFails \/ FileEnds \/ LookupEnv \/ Resolve

-----------------------------------------------------------------------------
(* Properties *)

\* What the user has said of key k last: in the environment, else in the last
\* line of the file that has the key.
Said(k) ==
    LET at == { i \in DOMAIN lines : lines[i][1] = k }
    IN  IF env[k] # Unset THEN env[k]
        ELSE IF at = {} THEN Blank
        ELSE lines[CHOOSE i \in at : \A j \in at : j <= i][2]

\* The value the user has given a setting, under its name or its old one.
Wanted(k) ==
    IF k = "AuthorizeTimeout" /\ Said(k) = Blank THEN Said("IdleTimeout")
    ELSE Said(k)

\* Every setting the gateway runs with is what the user has said of it last,
\* the environment having the last word even if it says nothing, and the
\* default only where the user says nothing.
SourcesRespected ==
    phase = "loaded" => \A k \in Setting :
        config[k] = IF Wanted(k) = Blank THEN Default[k] ELSE Wanted(k)

\* The times, limits and ports of a configuration that is accepted suit the other
\* components: neither the registry nor the upgrader replaces a value by a
\* default of its own, which would also undo the order of interval and timeout,
\* and no deadline of a handshake, a backend request or a dial has passed when it
\* is set.  That an accepted gateway can open an ssh session is not said, nor
\* true: with IgnoreHostKey set to false every Client.Open fails.
AcceptedSuits ==
    phase = "loaded" =>
        /\ \A k \in DOMAIN Configured(config) : Configured(config)[k] = config[k]
        /\ Configured(config)["KeepaliveInterval"]
              < Configured(config)["KeepaliveTimeout"]
        /\ \A k \in Positive : config[k] >= 1
        /\ 1 <= config["SSHPort"] /\ config["SSHPort"] <= 65535

\* A start that fails for a setting names one that is really at fault: it is
\* missing, does not parse or is out of its range, or the two keepalive times
\* are the wrong way round.
FaultIsReal ==
    phase = "failed" /\ fault # "ConfigFile" =>
        LET value == IF Wanted(fault) = Blank THEN Default[fault]
                     ELSE Wanted(fault)
            interval == IF Wanted("KeepaliveInterval") = Blank
                        THEN Default["KeepaliveInterval"]
                        ELSE Wanted("KeepaliveInterval")
        IN  \/ value \in {Blank, Malformed}
            \/ fault = "SSHPort" /\ (value < 1 \/ value > 65535)
            \/ fault \in Positive /\ value <= 0
            \/ fault = "KeepaliveTimeout" /\ value <= interval

=============================================================================
