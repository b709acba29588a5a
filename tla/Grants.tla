------------------------------- MODULE Grants -------------------------------
(***************************************************************************)
(* What the gateway makes of the backend's answer to a terminal grant      *)
(* (internal/grants/client.go).                                            *)
(***************************************************************************)
EXTENDS Naturals

\* The end of one POST of a token.  An answer has a status and a body, which
\* may be JSON with some of the fields the gateway looks for.
Response ==
    [ outcome : {"unreachable", "cut", "answered"}, \* cut: the body breaks off
      status  : 100 .. 599,
      json    : BOOLEAN, \* does the body decode?
      code    : {"", "backend_code"},
      message : BOOLEAN, \* has it a message?
      address : BOOLEAN ] \* has it an ipAddress that is not blank?

Validated == [error |-> "none", code |-> ""]
Failed(error, code) == [error |-> error, code |-> code]

\* Slip: every status of a client or server error counts as a rejection.
AnyErrorStatus == 400 .. 599

InvalidGrantStatus == {401, 403, 404, 409, 410, 422}

\* decodeErrorResponse: a body that has a code or a message is taken as it is,
\* its code may then be empty.
ErrorCode(r) ==
    IF r.json /\ (r.code # "" \/ r.message) THEN r.code ELSE "backend_error"

\* Validated, or the kind of error and its code: a TransportError, an
\* InvalidGrantError or a BackendError.
ValidateToken(r) ==
    IF r.outcome = "unreachable" THEN Failed("transport", "")
    ELSE IF r.outcome = "cut" THEN Failed("backend", "")
    ELSE IF r.status = 200
         THEN IF r.json /\ r.address THEN Validated ELSE Failed("backend", "")
    ELSE Failed(IF r.status \in InvalidGrantStatus THEN "invalid"
                ELSE "backend", ErrorCode(r))

=============================================================================
