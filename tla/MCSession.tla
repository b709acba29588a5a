----------------------------- MODULE MCSession -----------------------------
(***************************************************************************)
(* Instances of Session for TLC.                                           *)
(***************************************************************************)
EXTENDS Session

TextMessage(type, body) ==
    [text |-> TRUE, object |-> TRUE, type |-> type, exact |-> TRUE,
     body |-> body]

\* A browser that only types: a key, and a message without one.
Typing == { TextMessage("input", "short"), TextMessage("input", "empty") }

\* One that also closes, and one that sends what it must not.
AnyMessage ==
    Typing \cup { TextMessage("close", "empty"), TextMessage("output", "short") }

=============================================================================
