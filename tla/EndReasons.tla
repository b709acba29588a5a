----------------------------- MODULE EndReasons -----------------------------
(***************************************************************************)
(* The reasons for which a browser session can end, as the gateway logs    *)
(* and audits them (internal/session/interfaces.go).                       *)
(***************************************************************************)

\* Reasons a loop of a running session may end it with.
LoopEndReason ==
    { "client_close", "browser_disconnect", "protocol_violation",
      "console_closed", "keepalive_timeout", "slow_client", "ssh_error",
      "internal_error" }

\* Every reason Session.close is ever called with: server_shutdown is the one
\* CloseAll passes.  authorize_timeout and session_limit_reached, the other
\* two the code declares, are told to browsers that never got a session.
EndReason == LoopEndReason \cup {"server_shutdown"}

=============================================================================
