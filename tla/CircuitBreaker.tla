-------------------------- MODULE CircuitBreaker --------------------------
(* The circuit breaker that guards each class of Gemini call: a redis hash   *)
(* shared by every worker and backend process, changed by Lua scripts, and   *)
(* the calls that pass through it (CircuitBreaker.call, _stream_with_breaker).*)
EXTENDS Naturals, FiniteSets

CONSTANTS
  Caller,            \* coroutines that call through the breaker
  FailureThreshold, HalfOpenMaxCalls,
  HasCooling,        \* cooling_period > 0
  MaxAdmin           \* manual resets and openings

ASSUME BreakerAssumption ==
  /\ IsFiniteSet(Caller)
  /\ FailureThreshold \in Nat \ {0} /\ HalfOpenMaxCalls \in Nat \ {0}
  /\ HasCooling \in BOOLEAN /\ MaxAdmin \in Nat

VARIABLES
  state,     \* hash field state; "none" before the hash exists
  failures,  \* saturated at FailureThreshold, the only value it is compared with
  inFlight,
  elapsed,   \* recovery_timeout has passed since opened_at
  cooling,   \* cooling_period has not yet passed since initialized_at
  call,      \* what each caller is doing
  probe,     \* callers the current half-open phase admitted, still waiting
  admin

vars == <<state, failures, inFlight, elapsed, cooling, call, probe, admin>>

Min2(m, n) == IF m < n THEN m ELSE n

Init ==
  /\ state = "none" /\ failures = 0 /\ inFlight = 0
  /\ elapsed = TRUE /\ cooling = FALSE
  /\ call = [c \in Caller |-> "idle"] /\ probe = {} /\ admin = 0

-----------------------------------------------------------------------------
(* _allow_call. The first call creates the hash. A refused caller raises and *)
(* changes nothing.                                                          *)
AdmitClosed ==
  /\ state \in {"none", "closed"}
  /\ state' = "closed"
  /\ cooling' = IF state = "none" THEN HasCooling ELSE cooling
  /\ UNCHANGED <<inFlight, probe>>

(* Fault: the probe that ends the open phase is not counted.                 *)
AdmitUncounted(c) ==
  /\ state = "open" /\ elapsed
  /\ state' = "half_open" /\ inFlight' = 0 /\ probe' = {c}
  /\ UNCHANGED cooling

AdmitAfterTimeout(c) ==
  /\ state = "open" /\ elapsed
  /\ state' = "half_open" /\ inFlight' = 1 /\ probe' = {c}
  /\ UNCHANGED cooling

AdmitProbe(c) ==
  /\ state = "half_open" /\ inFlight < HalfOpenMaxCalls
  /\ inFlight' = inFlight + 1 /\ probe' = probe \cup {c}
  /\ UNCHANGED <<state, cooling>>

AllowCall(c) ==
  /\ call[c] = "idle"
  /\ call' = [call EXCEPT ![c] = "calling"]
  /\ AdmitClosed \/ AdmitAfterTimeout(c) \/ AdmitProbe(c)
  /\ UNCHANGED <<failures, elapsed, admin>>

(* Faults: a success leaves the failures counted, or does not close.         *)
SuccessKeepsFailures ==
  /\ state' = "closed" /\ inFlight' = 0 /\ probe' = {}
  /\ UNCHANGED <<failures, elapsed, cooling, admin>>
SuccessDoesNotClose ==
  /\ failures' = 0 /\ inFlight' = 0 /\ probe' = {}
  /\ UNCHANGED <<state, elapsed, cooling, admin>>

(* _on_success closes the breaker whatever its state was: so does the late   *)
(* success of a call admitted before the breaker opened.                     *)
OnSuccess ==
  /\ state' = "closed" /\ failures' = 0 /\ inFlight' = 0 /\ probe' = {}
  /\ UNCHANGED <<elapsed, cooling, admin>>

(* _on_failure. Nothing counts while the breaker is cooling.                 *)
OnFailure(c) ==
  LET n == Min2(failures + 1, FailureThreshold)
      opens == state = "half_open" \/ n >= FailureThreshold
  IN IF cooling THEN probe' = probe \ {c}
                     /\ UNCHANGED <<state, failures, inFlight, elapsed, cooling, admin>>
     ELSE /\ failures' = n
          /\ state' = IF opens THEN "open" ELSE state
          /\ elapsed' = IF opens THEN FALSE ELSE elapsed
          /\ inFlight' = IF opens THEN 0 ELSE inFlight
          /\ probe' = IF opens THEN {} ELSE probe \ {c}
          /\ UNCHANGED <<cooling, admin>>

Ends(c) == call' = [call EXCEPT ![c] = "idle"]

CallSucceeds(c) == call[c] = "calling" /\ Ends(c) /\ OnSuccess
CallFails(c)    == call[c] \in {"calling", "streaming"} /\ Ends(c) /\ OnFailure(c)

(* A stream reports success on its first chunk and may still fail after it.  *)
FirstChunk(c) == /\ call[c] = "calling"
                 /\ call' = [call EXCEPT ![c] = "streaming"]
                 /\ OnSuccess

(* The call ends and the breaker is not told: a transient error (429, 503,   *)
(* 504) is ignored, a cancelled coroutine or an abandoned stream is no       *)
(* Exception, a process may die, and a finished stream has told it already.   *)
EndsUnreported(c) ==
  /\ call[c] \in {"calling", "streaming"} /\ Ends(c)
  /\ probe' = probe \ {c}
  /\ UNCHANGED <<state, failures, inFlight, elapsed, cooling, admin>>

(* Admin endpoints. Neither sets initialized_at: a hash they create counts   *)
(* as cooled down.                                                           *)
Reset ==
  /\ admin < MaxAdmin /\ admin' = admin + 1
  /\ state' = "closed" /\ failures' = 0 /\ inFlight' = 0 /\ probe' = {}
  /\ elapsed' = TRUE
  /\ UNCHANGED <<cooling, call>>

ForceOpen ==
  /\ admin < MaxAdmin /\ admin' = admin + 1
  /\ state' = "open" /\ inFlight' = 0 /\ probe' = {} /\ elapsed' = FALSE
  /\ UNCHANGED <<failures, cooling, call>>

(* Looking at the state (_get_state) creates the hash too.                   *)
GetState ==
  /\ state = "none" /\ state' = "closed" /\ cooling' = HasCooling
  /\ UNCHANGED <<failures, inFlight, elapsed, call, probe, admin>>

(* Time passes.                                                              *)
RecoveryTimeout ==
  /\ state = "open" /\ ~elapsed /\ elapsed' = TRUE
  /\ UNCHANGED <<state, failures, inFlight, cooling, call, probe, admin>>
CoolingEnds ==
  /\ cooling /\ cooling' = FALSE
  /\ UNCHANGED <<state, failures, inFlight, elapsed, call, probe, admin>>

Answer(c) == CallSucceeds(c) \/ CallFails(c) \/ FirstChunk(c) \/ EndsUnreported(c)

Next == \/ \E c \in Caller : AllowCall(c) \/ Answer(c)
        \/ Reset \/ ForceOpen \/ GetState \/ RecoveryTimeout \/ CoolingEnds

(* Every call has a timeout, time passes, and there is always a caller that  *)
(* tries again (each scanner run and each reader brings new calls).          *)
Spec == /\ Init /\ [][Next]_vars
        /\ \A c \in Caller : WF_vars(Answer(c)) /\ WF_vars(AllowCall(c))
        /\ WF_vars(RecoveryTimeout) /\ WF_vars(CoolingEnds)

-----------------------------------------------------------------------------
TypeOK ==
  /\ state \in {"none", "closed", "open", "half_open"}
  /\ failures \in 0 .. FailureThreshold /\ inFlight \in 0 .. HalfOpenMaxCalls
  /\ elapsed \in BOOLEAN /\ cooling \in BOOLEAN
  /\ call \in [Caller -> {"idle", "calling", "streaming"}]
  /\ probe \subseteq Caller /\ admin \in 0 .. MaxAdmin

(* However late the answers of earlier calls come, a closed breaker has room *)
(* for one more failure: it never closes with its budget already spent.      *)
ClosedHasBudget == state = "closed" => failures < FailureThreshold

(* A half-open phase lets at most half_open_max_calls probes wait at once,   *)
(* and in_flight covers all of them; other phases have none.                 *)
ProbesAreCounted ==
  /\ Cardinality(probe) <= inFlight
  /\ inFlight <= HalfOpenMaxCalls
  /\ state # "half_open" => inFlight = 0
  /\ \A c \in probe : call[c] = "calling"

(* What callers rely on, in every order in which late answers, probes,       *)
(* administrators and timeouts may come.                                     *)
BreakerIsSound == ClosedHasBudget /\ ProbesAreCounted

(* A half-open phase ends, unless the outcome of one of its probes was never *)
(* reported: then in_flight counts a probe that no longer waits.             *)
Leaked == inFlight > Cardinality(probe)
HalfOpenResolves == state = "half_open" ~> state # "half_open" \/ Leaked

(* A half-open breaker is recovering: it closes or opens in the end.         *)
HalfOpenRecovers == state = "half_open" ~> state # "half_open"
===========================================================================
