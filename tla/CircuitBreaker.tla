---------------------------- MODULE CircuitBreaker ----------------------------
(***************************************************************************)
(* The CircuitBreaker middleware, one breaker around every route.  A       *)
(* request passes Execute of sony/gobreaker, which decides whether the     *)
(* handler runs and counts how it ended; many requests run at once.        *)
(*                                                                         *)
(* gobreaker is external.  It numbers the periods between changes of state *)
(* (generations) and ignores the result of a request of an earlier         *)
(* generation; here fresh is the set of running requests of the present    *)
(* one.  It leaves the open state lazily, when a request begins or ends    *)
(* after the timeout.                                                      *)
(***************************************************************************)
EXTENDS Integers, Sequences, FiniteSets

CONSTANTS
  Requests,          \* concurrent requests; each is reused by later ones
  CBMaxFailures

ASSUME CircuitBreakerAssumption == CBMaxFailures \in Nat \ {0}

MaxRequests == 1     \* probes in half-open state

(***************************************************************************)
(* How a handler ends: with a response below 500 written by c.JSON, with   *)
(* an echo.HTTPError (422 of CreateTransaction, 404 of an unknown route),  *)
(* with a response of 500 written by c.JSON, or with a panic, which        *)
(* Recover turns into a 500.                                               *)
(***************************************************************************)
Ends == {"json", "httpError4xx", "json5xx", "panic"}

(* Mutant: only an error of the handler counts, not the written status.    *)
Failure_NoStatus(end) == end \in {"httpError4xx", "panic"}

(* What the function given to Execute reports as an error.                 *)
Failure(end) == end \in {"httpError4xx", "json5xx", "panic"}

VARIABLES
  state,             \* "closed", "open" or "half-open"
  expired,           \* in open state: CBTimeoutSeconds have passed
  failures,          \* Counts.ConsecutiveFailures
  probes,            \* Counts.Requests, as far as half-open state uses it
  running,           \* requests whose handler runs
  fresh,             \* those admitted in the present generation
  recent,            \* the last counted ends of this generation, newest last
  lastEnd            \* how the handler ended that was the last to end

counts == <<failures, probes, fresh, recent>>
vars == <<state, expired, running, counts, lastEnd>>

Init ==
  /\ state = "closed"
  /\ expired = FALSE
  /\ failures = 0
  /\ probes = 0
  /\ running = {}
  /\ fresh = {}
  /\ recent = <<>>
  /\ lastEnd = "none"

(* setState: a new generation, with its counts cleared.                    *)
NewGeneration(to) ==
  /\ state' = to
  /\ expired' = FALSE
  /\ failures' = 0
  /\ recent' = <<>>

(* Mutant: the timeout has no effect.                                      *)
CurrentState_NoTimeout == state

(* currentState: open becomes half-open when the timeout has passed.       *)
CurrentState == IF state = "open" /\ expired THEN "half-open" ELSE state

Timeout ==
  /\ state = "open"
  /\ ~expired
  /\ expired' = TRUE
  /\ UNCHANGED <<state, running, counts, lastEnd>>

(* Mutant: every request passes in half-open state.                        *)
Admitted_Always == CurrentState # "open"

(* beforeRequest lets the request pass.                                    *)
Admitted ==
  /\ CurrentState # "open"
  /\ state = "half-open" => probes < MaxRequests

Begin(r) ==
  /\ r \notin running
  /\ Admitted
  /\ running' = running \cup {r}
  /\ UNCHANGED lastEnd
  /\ IF CurrentState # state
       THEN NewGeneration("half-open") /\ probes' = 1 /\ fresh' = {r}
       ELSE /\ probes' = IF state = "half-open" THEN probes + 1 ELSE probes
            /\ fresh' = fresh \cup {r}
            /\ UNCHANGED <<state, expired, failures, recent>>

(***************************************************************************)
(* ErrOpenState or ErrTooManyRequests: 503 without calling the handler,    *)
(* and nothing is counted.                                                 *)
(***************************************************************************)
Reject(r) ==
  /\ r \notin running
  /\ ~Admitted
  /\ UNCHANGED vars

Last(seq, n) == SubSeq(seq, IF Len(seq) > n THEN Len(seq) - n + 1 ELSE 1, Len(seq))

(* Mutant: one failure too many.                                           *)
ReadyToTrip_OffByOne == failures + 1 > CBMaxFailures

(* ReadyToTrip, after one more failure.                                    *)
ReadyToTrip == failures + 1 >= CBMaxFailures

(* Mutant: a success does not interrupt the count of failures.             *)
CountClosed_NoReset(r, end) ==
  /\ state = "closed"
  /\ IF Failure(end) /\ ReadyToTrip
       THEN NewGeneration("open") /\ fresh' = {}
       ELSE /\ failures' = IF Failure(end) THEN failures + 1 ELSE failures
            /\ recent' = Last(Append(recent, end), CBMaxFailures - 1)
            /\ fresh' = fresh \ {r}
            /\ UNCHANGED <<state, expired>>
  /\ UNCHANGED probes

(* afterRequest of a request of this generation, in closed state ...       *)
CountClosed(r, end) ==
  /\ state = "closed"
  /\ IF Failure(end) /\ ReadyToTrip
       THEN NewGeneration("open") /\ fresh' = {}
       ELSE /\ failures' = IF Failure(end) THEN failures + 1 ELSE 0
            /\ recent' = Last(Append(recent, end), CBMaxFailures - 1)
            /\ fresh' = fresh \ {r}
            /\ UNCHANGED <<state, expired>>
  /\ UNCHANGED probes

(* ... and in half-open state, where it was the probe.                     *)
CountHalfOpen(r, end) ==
  /\ state = "half-open"
  /\ NewGeneration(IF Failure(end) THEN "open" ELSE "closed")
  /\ probes' = 0
  /\ fresh' = {}

(* Mutant: the result of a request counts in whatever state it ends.       *)
End_AnyGeneration(r, end) ==
  /\ r \in running
  /\ running' = running \ {r}
  /\ lastEnd' = end
  /\ IF CurrentState # state
       THEN NewGeneration("half-open") /\ probes' = 0 /\ fresh' = {}
       ELSE \/ CountClosed(r, end) \/ CountHalfOpen(r, end)
            \/ state = "open" /\ UNCHANGED <<state, expired, counts>>

End(r, end) ==
  /\ r \in running
  /\ running' = running \ {r}
  /\ lastEnd' = end
  /\ IF CurrentState # state
       THEN NewGeneration("half-open") /\ probes' = 0 /\ fresh' = {}
       ELSE IF r \in fresh
              THEN CountClosed(r, end) \/ CountHalfOpen(r, end)
              ELSE UNCHANGED <<state, expired, counts>>

Next ==
  \/ Timeout
  \/ \E r \in Requests : \/ Begin(r) \/ Reject(r)
                         \/ \E end \in Ends : End(r, end)

Spec == Init /\ [][Next]_vars

(***************************************************************************)
(* Time passes, a running handler ends (ContextTimeout gives up after 60   *)
(* seconds), and requests keep coming: /metrics is scraped through the     *)
(* breaker too.                                                            *)
(***************************************************************************)
Fairness ==
  /\ WF_vars(Timeout)
  /\ \A r \in Requests : WF_vars(\E end \in Ends : End(r, end))
  /\ WF_vars(\E r \in Requests : Begin(r))

FairSpec == Spec /\ Fairness
-----------------------------------------------------------------------------
(* Type invariant.                                                         *)
TypeOK ==
  /\ state \in {"closed", "open", "half-open"}
  /\ expired \in BOOLEAN
  /\ failures \in 0..CBMaxFailures - 1
  /\ probes \in 0..MaxRequests
  /\ fresh \subseteq running /\ running \subseteq Requests
  /\ recent \in Seq(Ends)
  /\ lastEnd \in Ends \cup {"none"}

(***************************************************************************)
(* "allow 1 probe in half-open state": never two handlers at once test a   *)
(* dependency that may be down, whatever slow requests are still running   *)
(* from before.                                                            *)
(***************************************************************************)
OneProbe == state = "half-open" => Cardinality(fresh) <= 1

(***************************************************************************)
(* A half-open breaker is left only when a request that was admitted as    *)
(* the probe ends: for the closed state if its handler wrote a response    *)
(* below 500 and returned no error, for the open state if not.  A slow     *)
(* request from an earlier period decides nothing.                         *)
(***************************************************************************)
ProbeDecides ==
  [][state = "half-open" /\ state' # state =>
       /\ fresh \cap (running \ running') # {}
       /\ state' = IF lastEnd' = "json" THEN "closed" ELSE "open"]_vars

(***************************************************************************)
(* The breaker opens from the closed state only after CBMaxFailures        *)
(* results in a row that the middleware reports as errors, with no success *)
(* between them.  An error is whatever Failure says, a 422 or 404 returned *)
(* as echo.HTTPError included; OpensOnlyAfter5xx is what the comment says. *)
(***************************************************************************)
OpensAfterConsecutiveFailures ==
  [][state = "closed" /\ state' = "open" =>
       /\ Len(recent) = CBMaxFailures - 1
       /\ \A i \in 1..Len(recent) : Failure(recent[i])
       /\ Failure(lastEnd')]_vars

(***************************************************************************)
(* What circuit_breaker.go says of itself: "The breaker opens after        *)
(* CBMaxFailures consecutive 5xx responses".  Violated: errors of the      *)
(* client that a handler returns as echo.HTTPError are counted too.        *)
(***************************************************************************)
OpensOnlyAfter5xx ==
  [][state = "closed" /\ state' = "open" =>
       /\ \A i \in 1..Len(recent) : recent[i] \in {"json5xx", "panic"}
       /\ lastEnd' \in {"json5xx", "panic"}]_vars

(***************************************************************************)
(* An open breaker tries again and a half-open one decides: the service    *)
(* does not answer 503 for ever.                                           *)
(***************************************************************************)
BreakerMovesOn ==
  /\ state = "open" ~> state = "half-open"
  /\ state = "half-open" ~> state # "half-open"
=============================================================================
