---------------------------- MODULE MCKeepalive ----------------------------
(***************************************************************************)
(* Instances of Keepalive for TLC.                                         *)
(***************************************************************************)
EXTENDS Keepalive

\* Lines of a file: the two names of one setting, and the keepalive times.
SomeLines ==
    {"AuthorizeTimeout", "IdleTimeout"} \X {Blank, Malformed, 3}
    \cup {"KeepaliveInterval"} \X {Blank, 1, 2}
    \cup {"KeepaliveTimeout"} \X {0, 2, 6}

\* What must be set is set; one or two other variables may be.
Required == [NoEnv EXCEPT !["ListenAddress"] = 1, !["BackendBaseURL"] = 1]

SomeEnvironments ==
    { [Required EXCEPT ![k] = v] :
        k \in Key, v \in {Unset, Blank, Malformed, 0, 1} }
    \cup { [Required EXCEPT !["SSHPort"] = v] : v \in {65535, 65536} }
    \cup { [Required EXCEPT !["KeepaliveInterval"] = i,
                            !["KeepaliveTimeout"] = t] :
              i \in {1, 2}, t \in {1, 2, 3, 6, 7} }

\* No file, and one environment: for what does not depend on the settings.
NoLines == {}
OneEnvironment ==
    { [Required EXCEPT !["KeepaliveInterval"] = 1, !["KeepaliveTimeout"] = 2] }

=============================================================================
