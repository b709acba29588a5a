------------------------------ MODULE Protocol ------------------------------
(***************************************************************************)
(* What the gateway makes of a message of the browser                      *)
(* (internal/websocket/protocol.go).                                       *)
(***************************************************************************)

ClientType == {"authorize", "input", "resize", "close"}
ServerType == {"authorized", "output", "error"}

\* A data frame as ParseClientMessage tells it apart.
Frame ==
    [ text   : BOOLEAN, \* a text frame, or a binary one?
      object : BOOLEAN, \* is it one JSON object, whose type is no other value
                        \* than a string?
      type   : ClientType \cup ServerType \cup {"other"},
                        \* that type, trimmed; "other" if there is none
      exact  : BOOLEAN, \* has it no field but those of its type, well typed?
      body   : {"empty", "blank", "short", "long"} ]
        \* the token, the data or the reason: "empty" has no byte, "blank" only
        \* white space, and "long" does not fit a close frame; "blank" too for
        \* rows or columns that are not positive

Parsed(type)   == [type |-> type, code |-> ""]
Rejected(code) == [type |-> "none", code |-> code]

\* Trimming leaves nothing of it.
Trimmed(f) == f.body \in {"empty", "blank"}

InvalidCode ==
    [ authorize |-> "invalid_authorize", input |-> "invalid_input",
      resize    |-> "invalid_resize",    close |-> "invalid_close" ]

UnexpectedCode ==
    [ authorized |-> "unexpected_authorized", output |-> "unexpected_output",
      error      |-> "unexpected_error" ]

\* The type of the message, or the code of a ProtocolError.
ParseClientMessage(f) ==
    IF ~f.text THEN Parsed("input")
    ELSE IF ~f.object THEN Rejected("invalid_json")
    ELSE IF f.type \in ServerType THEN Rejected(UnexpectedCode[f.type])
    ELSE IF f.type \notin ClientType THEN Rejected("unknown_message_type")
    ELSE IF \/ ~f.exact
            \/ f.type \in {"authorize", "resize"} /\ Trimmed(f)
         THEN Rejected(InvalidCode[f.type])
    ELSE Parsed(f.type)

=============================================================================
