------------------------------ MODULE Executor ------------------------------
(***************************************************************************)
(* request/executor.go: what one Execute decides.  It keeps no state, so   *)
(* it is a module of operators; the actions around them, the waiting and   *)
(* the failing, belong to the modules that call it.                        *)
(*                                                                         *)
(* An Authorization value is told apart by where it came from: nowhere,    *)
(* the session of the auth manager (with the token), the JWT or the custom *)
(* value the caller supplied, a header of the request itself, or the mask. *)
(***************************************************************************)
EXTENDS Integers

CONSTANT NoToken      \* no token: the value is not from the session

Value(origin) == [from |-> origin, token |-> NoToken]
Absent == Value("absent")
Mask == Value("mask")
SessionValue(t) == [from |-> "session", token |-> t]

\* The guard in front of everything else Execute does.
RefusedNever(in, production) == FALSE
Refused(in, production) == production /\ ~in.confirm

\* The Authorization header after the request's own headers were copied and
\* the auth mode was applied; jwt is in.JWT, Absent when it is empty.
OwnHeader(in) == IF in.header THEN Value("header") ELSE Absent

Authorization(in, jwt) ==
  CASE in.mode = "none"   -> Absent
    [] in.mode = "custom" -> IF in.custom THEN Value("custom") ELSE OwnHeader(in)
    [] OTHER              -> IF jwt # Absent THEN jwt ELSE OwnHeader(in)

\* MaskHeaders: a sensitive value is replaced, that it was there is not hidden.
MaskedAsSent(auth) == auth
Masked(auth) == IF auth = Absent THEN Absent ELSE Mask

\* What Execute returns.  A refusal, or an input no request can be built from,
\* has neither status nor headers; a transport error has no status; an answer
\* whose body cannot be read has both a status and an error.
NotSent == [status |-> 0, error |-> TRUE, auth |-> Absent]
TransportError(auth) == [status |-> 0, error |-> TRUE, auth |-> Masked(auth)]
Unreadable(auth, status) == [status |-> status, error |-> TRUE, auth |-> Masked(auth)]
Answer(auth, status) == [status |-> status, error |-> FALSE, auth |-> Masked(auth)]

\* out.OK: the answer was read and its status is below 400.
OK(out) == ~out.error /\ out.status < 400
=============================================================================
