------------------------------- MODULE Pipeline -------------------------------
(***************************************************************************)
(* HttpPipeline::send (crates/arkived-core/src/backend/azure/http.rs) with *)
(* its retries (retry.rs) and its reading of the service's answers         *)
(* (error.rs).  Every request to the storage service goes this way.        *)
(*                                                                         *)
(* The service carries a request out or not, the answer comes back or the  *)
(* connection breaks, and what was sent on a broken connection may still   *)
(* arrive.  effects counts how often the service has carried a request out.*)
(***************************************************************************)
EXTENDS Naturals, FiniteSets

CONSTANTS
  Requests,      \* the calls of send
  MaxAttempts,   \* attempts a call makes, the first one included (8)
  MaxBackoff,    \* the longest pause between two of them (30 seconds)
  Pauses         \* the pauses a throttling service may ask for

ASSUME PipelineAssumption ==
  /\ MaxAttempts \in Nat \ {0}
  /\ MaxBackoff \in Nat
  /\ Pauses \subseteq Nat

VARIABLES
  pc,       \* where each call stands
  attempt,  \* attempts made so far
  answer,   \* what the attempt in hand came to
  delay,    \* the pause before the next attempt
  result,   \* what send returns
  effects,  \* how often the service carried the request out
  strays,   \* copies sent on a broken connection that may still arrive
  doubtful  \* has some attempt ended with the service's doing unknown? (observation)

vars == <<pc, attempt, answer, delay, result, effects, strays, doubtful>>

(* What the service answers: success, a status map_rest_error knows, another *)
(* 4xx ("rejected") or another 5xx ("failed")                                *)
Refusals == {"missing", "forbidden", "expired", "exists", "rejected"}

Answers == {"success", "busy", "failed"} \cup Refusals

Errors == {"NotFound", "AuthFailed", "AuthExpired", "Conflict", "Throttled",
           "Backend", "NetworkTransient", "Connect"}

(* How send came by an outcome; pause is the delay a busy service asks for *)
Outcome == [kind : Answers \cup {"none", "broken", "unconnected", "unsigned", "unbuilt"},
            pause : Pauses \cup {0}]

NoOutcome == [kind |-> "none", pause |-> 0]

TypeOK ==
  /\ pc \in [Requests -> {"idle", "building", "sent", "answered", "waiting", "returned"}]
  /\ attempt \in [Requests -> 0..MaxAttempts]
  /\ answer \in [Requests -> Outcome]
  /\ delay \in [Requests -> 0..MaxBackoff]
  /\ result \in [Requests -> Errors \cup {"none", "ok"}]
  /\ effects \in [Requests -> 0..MaxAttempts]
  /\ strays \in [Requests -> 0..MaxAttempts]
  /\ doubtful \in [Requests -> BOOLEAN]

Init ==
  /\ pc = [r \in Requests |-> "idle"]
  /\ attempt = [r \in Requests |-> 0]
  /\ answer = [r \in Requests |-> NoOutcome]
  /\ delay = [r \in Requests |-> 0]
  /\ result = [r \in Requests |-> "none"]
  /\ effects = [r \in Requests |-> 0]
  /\ strays = [r \in Requests |-> 0]
  /\ doubtful = [r \in Requests |-> FALSE]

-----------------------------------------------------------------------------
(* map_rest_error and classify_send_error *)
ErrorOf(kind) ==
  CASE kind = "success"                 -> "ok"
    [] kind = "missing"                 -> "NotFound"
    [] kind \in {"forbidden", "unsigned"} -> "AuthFailed"
    [] kind = "expired"                 -> "AuthExpired"
    [] kind = "exists"                  -> "Conflict"
    [] kind = "busy"                    -> "Throttled"
    [] kind \in {"failed", "rejected", "unbuilt"} -> "Backend"
    [] kind = "broken"                  -> "NetworkTransient"
    [] kind = "unconnected"             -> "Connect"

(* Mutant: a success whose answer could not be read is tried again. *)
IsRetryableAny(e) == e \in {"Throttled", "NetworkTransient", "Backend", "ok"}

(* is_retryable *)
IsRetryable(e) == e \in {"Throttled", "NetworkTransient", "Backend"}

(* backoff_for: what the service asked for, but no more than the cap; else    *)
(* at random below a limit that grows with the attempts until it is the cap   *)
Backoffs(outcome) ==
  IF ErrorOf(outcome.kind) = "Throttled"
  THEN {IF outcome.pause < MaxBackoff THEN outcome.pause ELSE MaxBackoff}
  ELSE 0..MaxBackoff

Exhausted(r) == attempt[r] >= MaxAttempts

Goto(r, next) == pc' = [pc EXCEPT ![r] = next]

Begin(r) ==
  /\ pc[r] = "idle"
  /\ attempt' = [attempt EXCEPT ![r] = 1]
  /\ Goto(r, "building")
  /\ UNCHANGED <<answer, delay, result, effects, strays, doubtful>>

(* The attempt in hand ends as kind *)
EndAttempt(r, kind, pause) ==
  /\ answer' = [answer EXCEPT ![r] = [kind |-> kind, pause |-> pause]]
  /\ Goto(r, "answered")

(* send_once cannot build or sign the request, or reach the service *)
Unsent(r) ==
  /\ pc[r] = "building"
  /\ \E kind \in {"unbuilt", "unsigned", "unconnected"} : EndAttempt(r, kind, 0)
  /\ UNCHANGED <<attempt, delay, result, effects, strays, doubtful>>

Transmit(r) ==
  /\ pc[r] = "building"
  /\ Goto(r, "sent")
  /\ UNCHANGED <<attempt, answer, delay, result, effects, strays, doubtful>>

(* The service carries the request out, and says so or fails afterwards *)
Serve(r) ==
  /\ pc[r] = "sent"
  /\ effects' = [effects EXCEPT ![r] = @ + 1]
  /\ \/ EndAttempt(r, "success", 0) /\ UNCHANGED doubtful
     \/ EndAttempt(r, "failed", 0) /\ doubtful' = [doubtful EXCEPT ![r] = TRUE]
  /\ UNCHANGED <<attempt, delay, result, strays>>

(* The service refuses the request, puts it off, or fails without doing it *)
Refuse(r) ==
  /\ pc[r] = "sent"
  /\ \/ \E kind \in Refusals : EndAttempt(r, kind, 0) /\ UNCHANGED doubtful
     \/ \E pause \in Pauses : EndAttempt(r, "busy", pause) /\ UNCHANGED doubtful
     \/ EndAttempt(r, "failed", 0) /\ doubtful' = [doubtful EXCEPT ![r] = TRUE]
  /\ UNCHANGED <<attempt, delay, result, effects, strays>>

(* The connection breaks: the request was carried out, or never will be, or *)
(* is still on its way                                                      *)
Break(r) ==
  /\ pc[r] = "sent"
  /\ EndAttempt(r, "broken", 0)
  /\ doubtful' = [doubtful EXCEPT ![r] = TRUE]
  /\ \/ effects' = [effects EXCEPT ![r] = @ + 1] /\ UNCHANGED strays
     \/ UNCHANGED <<effects, strays>>
     \/ strays' = [strays EXCEPT ![r] = @ + 1] /\ UNCHANGED effects
  /\ UNCHANGED <<attempt, delay, result>>

(* A copy that was still on its way arrives *)
Arrive(r) ==
  /\ strays[r] > 0
  /\ strays' = [strays EXCEPT ![r] = @ - 1]
  /\ effects' = [effects EXCEPT ![r] = @ + 1]
  /\ UNCHANGED <<pc, attempt, answer, delay, result, doubtful>>

(* with_retries: the outcome is final, or there is no attempt left *)
Return(r) ==
  /\ pc[r] = "answered"
  /\ LET e == ErrorOf(answer[r].kind)
     IN  /\ ~IsRetryable(e) \/ Exhausted(r)
         /\ result' = [result EXCEPT ![r] = e]
  /\ Goto(r, "returned")
  /\ UNCHANGED <<attempt, answer, delay, effects, strays, doubtful>>

(* with_retries sleeps before the next attempt *)
BackOff(r) ==
  /\ pc[r] = "answered"
  /\ IsRetryable(ErrorOf(answer[r].kind))
  /\ ~Exhausted(r)
  /\ \E d \in Backoffs(answer[r]) : delay' = [delay EXCEPT ![r] = d]
  /\ Goto(r, "waiting")
  /\ UNCHANGED <<attempt, answer, result, effects, strays, doubtful>>

(* Mutant: an attempt the service put off does not count. *)
RetryUncounted(r) ==
  /\ pc[r] = "waiting"
  /\ attempt' = [attempt EXCEPT ![r] = IF answer[r].kind = "busy" THEN @ ELSE @ + 1]
  /\ Goto(r, "building")
  /\ UNCHANGED <<answer, delay, result, effects, strays, doubtful>>

Retry(r) ==
  /\ pc[r] = "waiting"
  /\ attempt' = [attempt EXCEPT ![r] = @ + 1]
  /\ Goto(r, "building")
  /\ UNCHANGED <<answer, delay, result, effects, strays, doubtful>>

CallStep(r) ==
  \/ Unsent(r) \/ Transmit(r) \/ Serve(r) \/ Refuse(r) \/ Break(r)
  \/ Return(r) \/ BackOff(r) \/ Retry(r)

Next == \E r \in Requests : Begin(r) \/ CallStep(r) \/ Arrive(r)

(* The runtime keeps polling a call, and the service answers or the connection *)
(* breaks (the client bounds only the time to connect).  A stray copy need     *)
(* never arrive.                                                               *)
Fairness == \A r \in Requests : WF_vars(CallStep(r))

Spec == Init /\ [][Next]_vars /\ Fairness
-----------------------------------------------------------------------------
(* Properties.                                                             *)

(* No call sends its request more often than MaxAttempts, so the service     *)
(* carries it out at most that often, copies still on their way included.    *)
EffectsBounded ==
  \A r \in Requests :
    /\ effects[r] + strays[r] + (IF pc[r] \in {"building", "sent"} THEN 1 ELSE 0)
         <= attempt[r]
    /\ attempt[r] <= MaxAttempts

(* When send returns success the service has carried the request out. *)
OkTookEffect ==
  \A r \in Requests : result[r] = "ok" => effects[r] > 0

(* If every attempt had a definite answer, send tells exactly what happened: *)
(* the request was carried out once if it returns success and never if it    *)
(* returns an error, whatever was retried in between.                        *)
ExactWhenCertain ==
  \A r \in Requests :
    pc[r] = "returned" /\ ~doubtful[r] =>
      effects[r] = IF result[r] = "ok" THEN 1 ELSE 0
=============================================================================
