------------------------------- MODULE Upstream -------------------------------
(***************************************************************************)
(* relay/upstream.rs: one call goes to the backends of its route in turn,  *)
(* and to each of them up to maxRetries + 1 times.  What a backend answers *)
(* is one of                                                               *)
(*   "ok"      2xx                          "busy"  429 and 5xx            *)
(*   "denied"  401, 402, 403, 408 and 409   "bad"   any other status       *)
(*   "cut"     no answer: refused, reset or past timeoutMs                 *)
(* The waits between attempts (Retry-After, backoff) only delay, so they   *)
(* are not steps; which key of a pool a request carries is left out.       *)
(* The module has no Next of its own; Request.tla composes it.             *)
(***************************************************************************)
EXTENDS Integers, Sequences

CONSTANTS
  Calls,
  Route,        \* a route's backend and its fallbacks
  Usable,       \* the backends that exist and are enabled
  MaxAttempts   \* maxRetries + 1 of each backend

ASSUME UpstreamAssumption ==
  /\ Route \in Seq(DOMAIN MaxAttempts) /\ Route # <<>>
  /\ Usable \subseteq DOMAIN MaxAttempts
  /\ \A b \in DOMAIN MaxAttempts : MaxAttempts[b] \in Nat \ {0}

VARIABLES
  call,         \* where each call is, and what it will report
  tried         \* history: the places asked, one for each request put on the wire

upstream == <<call, tried>>

Places   == DOMAIN Route
Outcomes == {"ok", "busy", "denied", "bad", "cut"}
Reports  == {"none", "ok", "failed", "unreachable"}

\* `used`: attempts at this backend; `total`: over all of them before it;
\* `last`: a backend's own failure was seen (last_http_failure).
CallType == [place : Places \union {Len(Route) + 1}, used : Nat, total : Nat,
             last : BOOLEAN, report : Reports]

UpstreamTypeOK ==
  /\ call \in [Calls -> CallType]
  /\ tried \in [Calls -> Seq(Places)]

Fresh == [place |-> 1, used |-> 0, total |-> 0, last |-> FALSE, report |-> "none"]

UpstreamInit ==
  /\ call = [c \in Calls |-> Fresh]
  /\ tried = [c \in Calls |-> <<>>]

\* The call returns, or its future is dropped: its locals go.
Return(cs) ==
  /\ call' = [c \in Calls |-> IF c \in cs THEN Fresh ELSE call[c]]
  /\ tried' = [c \in Calls |-> IF c \in cs THEN <<>> ELSE tried[c]]

Asking(c)  == call[c].report = "none" /\ call[c].place \in Places
Backend(c) == Route[call[c].place]

\* An unknown or disabled backend only leaves a line in the error.
Skip(c) ==
  /\ Asking(c)
  /\ Backend(c) \notin Usable
  /\ call' = [call EXCEPT ![c].place = @ + 1]
  /\ UNCHANGED tried

\* Faulty: the attempts at a backend that was given up are forgotten.
NextPlaceForgetful(k, http) ==
  [k EXCEPT !.place = @ + 1, !.used = 0, !.last = @ \/ http]

\* send_with_fallback goes on to the next backend.
NextPlace(k, http) ==
  [k EXCEPT !.place = @ + 1, !.total = @ + k.used, !.used = 0, !.last = @ \/ http]

Report(k, what) == [k EXCEPT !.report = what, !.total = @ + k.used, !.used = 0]

\* One request to one backend, and what follows from the answer: send's
\* retries inside, send_with_fallback's next backend outside.
After(k, outcome, attempts) ==
  CASE outcome = "ok"                                      -> Report(k, "ok")
    [] outcome = "bad"                                     -> Report(k, "failed")
    [] outcome \in {"busy", "cut"} /\ k.used < attempts    -> k
    [] OTHER                                               -> NextPlace(k, outcome # "cut")

OneMore(k) == [k EXCEPT !.used = @ + 1]

Attempt(c, outcome) ==
  /\ Asking(c)
  /\ Backend(c) \in Usable
  /\ call' = [call EXCEPT ![c] = After(OneMore(call[c]), outcome, MaxAttempts[Backend(c)])]
  /\ tried' = [tried EXCEPT ![c] = Append(@, call[c].place)]

\* Every backend has had its turn: the last one's own failure, or a 502.
Exhausted(c) ==
  /\ call[c].report = "none" /\ call[c].place \notin Places
  /\ call' = [call EXCEPT ![c] = Report(@, IF call[c].last THEN "failed" ELSE "unreachable")]
  /\ UNCHANGED tried
=============================================================================
