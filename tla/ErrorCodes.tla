------------------------------ MODULE ErrorCodes ------------------------------
(***************************************************************************)
(* The way of a business error from logic-server to the browser            *)
(* (common/errcode): ToGRPCError makes it a gRPC status, with the code in  *)
(* the status's details, FromGRPCError finds it there again, and the       *)
(* gateway answers with its HTTP status.  A status without details comes   *)
(* from gRPC itself (a deadline, no connection) or from the interceptor    *)
(* that recovers a panic.  The messages are left out.                      *)
(***************************************************************************)
EXTENDS Naturals

Codes == {"10001", "10002", "10003", "20001", "20002", "30001", "30002",
          "30003", "40001", "40002", "50001", "50002"}

HttpStatus(c) ==
  CASE c = "10001" -> 400
    [] c \in {"10002", "20002"} -> 401
    [] c \in {"10003", "30003"} -> 403
    [] c \in {"30001", "30002"} -> 404
    [] c \in {"20001", "40001", "40002"} -> 409
    [] c \in {"50001", "50002"} -> 500

GRPCCode(c) ==
  CASE c = "10001" -> "InvalidArgument"
    [] c \in {"10002", "20002"} -> "Unauthenticated"
    [] c \in {"10003", "30003"} -> "PermissionDenied"
    [] c \in {"20001", "40001"} -> "AlreadyExists"
    [] c \in {"30001", "30002"} -> "NotFound"
    [] c = "40002" -> "Aborted"
    [] c \in {"50001", "50002"} -> "Internal"

ToGRPCError(c) == [status |-> GRPCCode(c), detail |-> c]

\* A status that carries no code.
Bare(s) == [status |-> s, detail |-> "none"]

\* The code for a status alone.  The course, the purchase and the missing token
\* stand for all errors of their status.
FromGRPCCode(s) ==
  CASE s = "InvalidArgument" -> "10001"
    [] s = "Unauthenticated" -> "10002"
    [] s = "PermissionDenied" -> "10003"
    [] s = "NotFound" -> "30001"
    [] s = "AlreadyExists" -> "40001"
    [] s = "Aborted" -> "40002"
    [] OTHER -> "50001"

FromGRPCError(e) ==
  IF e.detail \in Codes THEN e.detail ELSE FromGRPCCode(e.status)
=============================================================================
