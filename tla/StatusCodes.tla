---------------------------- MODULE StatusCodes ----------------------------
(***************************************************************************)
(* The codes of a status and of an error of the C interface, and how one   *)
(* becomes the other (core/status.cc, core/server.cc, common/error.cc).    *)
(***************************************************************************)
EXTENDS Integers

ServerErrorCodes ==
    {"UNKNOWN", "INTERNAL", "NOT_FOUND", "INVALID_ARG", "UNAVAILABLE",
     "UNSUPPORTED", "ALREADY_EXISTS", "CANCELLED"}

Codes == {"SUCCESS"} \cup ServerErrorCodes

ServerErrorCodeToStatusCode(code) ==
    IF code \in ServerErrorCodes THEN code ELSE "UNKNOWN"

StatusCodeToServerErrorCode(code) ==
    IF code \in ServerErrorCodes THEN code ELSE "UNKNOWN"

\* ServerError::Create, a null pointer for success.
NoError == "null"
CreateError(code) ==
    IF code = "SUCCESS" THEN NoError ELSE StatusCodeToServerErrorCode(code)

\* RETURN_IF_SERVER_ERROR: a null error lets the caller go on.
ReturnIfServerError(error) ==
    IF error = NoError THEN "SUCCESS" ELSE ServerErrorCodeToStatusCode(error)

CodeString ==
    [c \in Codes |->
        CASE c = "SUCCESS"        -> "OK"
          [] c = "UNKNOWN"        -> "Unknown"
          [] c = "INTERNAL"       -> "Internal"
          [] c = "NOT_FOUND"      -> "Not found"
          [] c = "INVALID_ARG"    -> "Invalid argument"
          [] c = "UNAVAILABLE"    -> "Unavailable"
          [] c = "UNSUPPORTED"    -> "Unsupported"
          [] c = "ALREADY_EXISTS" -> "Already exists"
          [] OTHER                -> "<invalid code>"]
=============================================================================
