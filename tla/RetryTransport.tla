--------------------------- MODULE RetryTransport ---------------------------
(***************************************************************************)
(* The retrying http.RoundTripper of the registry commands                 *)
(* (registry/retry_transport.go).  Each goroutine has at most one request  *)
(* under way.  Times are left out: a wait ends, or the request's context   *)
(* does first.                                                             *)
(***************************************************************************)
EXTENDS Naturals

CONSTANTS
    Callers,      \* the goroutines that make requests
    MaxAttempts   \* RetryConfig.MaxAttempts; 0 and 1 switch the retries off

ASSUME AttemptsAssumption == MaxAttempts \in Nat

VARIABLE call   \* per goroutine: its request

\* "none": a method that is repeated and has no body.  "rewindable": one with a
\* body and GetBody.  "once": a POST, or a body that cannot be read again.
Bodies == {"none", "rewindable", "once"}

\* What the server or the connection makes of one attempt: "busy" stands for
\* 408, 429, 500 and 502 to 504, "refused" for every other failing status and
\* every error that is not a timeout.
Answers == {"ok", "busy", "timeout", "refused"}

\* What the caller may get besides: the error of its context, or neither a
\* response nor an error, which http.Client turns into an error of its own.
Outcomes == Answers \cup {"cancelled", "nothing"}

NoCall == [at |-> "none", body |-> "none", attempt |-> 0, answer |-> "refused"]
NewCall(body) == [at |-> "sent", body |-> body, attempt |-> 1, answer |-> "refused"]
Calls == [at : {"none", "sent", "waits", "answered"}, body : Bodies,
          attempt : Nat, answer : Outcomes]

TransportInit == call = [c \in Callers |-> NoCall]

\* classify.
Retryable(answer) == answer \in {"busy", "timeout"}

\* An attempt ends: it is repeated, or its answer is the request's.
Answered(c, answer) ==
    /\ call[c].at = "sent"
    /\ call' = [call EXCEPT ![c] =
          IF Retryable(answer) /\ @.body # "once" /\ @.attempt < MaxAttempts
          THEN [@ EXCEPT !.at = "waits"]
          ELSE [@ EXCEPT !.at = "answered", !.answer = answer]]

\* The wait is over and the body is read anew.  The second disjunct is its
\* failure: the response was dropped before the wait.
Wake(c) ==
    /\ call[c].at = "waits"
    /\ \/ call' = [call EXCEPT ![c].at = "sent", ![c].attempt = @ + 1]
       \/ /\ call[c].body = "rewindable"
          /\ call' = [call EXCEPT ![c] = [@ EXCEPT !.at = "answered", !.answer = "nothing"]]

\* The request's context is done during an attempt or a wait.
Interrupted(c) ==
    /\ call[c].at \in {"sent", "waits"}
    /\ call' = [call EXCEPT ![c] = [@ EXCEPT !.at = "answered", !.answer = "cancelled"]]

=============================================================================
