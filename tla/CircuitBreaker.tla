--------------------------- MODULE CircuitBreaker ---------------------------
(***************************************************************************)
(* One circuit breaker of reliability/circuit_breakers.py under the        *)
(* retrying callers of reliability/retry.py.                               *)
(*                                                                         *)
(* The coroutines share one event loop: what call() does before it awaits  *)
(* the dependency is one step, what it does with the answer another.  Any  *)
(* number of other steps fall in between, so an answer may belong to a     *)
(* call admitted in an earlier state of the breaker.                       *)
(***************************************************************************)
EXTENDS Naturals, FiniteSets

CONSTANTS
  Callers,      \* coroutines that call the dependency, each through retry_async
  Threshold,    \* failure_threshold
  Cooldown,     \* cooldown_seconds, in ticks of the clock
  RetryLimit,   \* max_retries
  Prompt        \* TRUE when the timeouts of the calls are shorter than Cooldown

ASSUME BreakerAssumption ==
  /\ Threshold \in Nat \ {0} /\ Cooldown \in Nat \ {0}
  /\ RetryLimit \in Nat /\ Prompt \in BOOLEAN

VARIABLES
  state,     \* _state
  failures,  \* _consecutive_failures
  age,       \* ticks since _last_failure_time, no further than Cooldown
  probing,   \* _probe_in_flight
  req,       \* where each caller is, and its attempt
  streak,    \* history: transient failures since a success, at most Threshold
  healthy    \* the dependency answers every call

breakerVars == <<state, failures, age, probing, req, streak, healthy>>

Idle == [at |-> "idle", attempt |-> 0]

BreakerInit ==
  /\ state = "CLOSED" /\ failures = 0 /\ age = Cooldown /\ probing = FALSE
  /\ req = [c \in Callers |-> Idle]
  /\ streak = 0 /\ healthy = TRUE

-----------------------------------------------------------------------------
(* The way in.                                                             *)

InFlight(c) == req[c].at \in {"call", "probe"}

Goto(c, where) == req' = [req EXCEPT ![c].at = where]

(* _effective_state: an OPEN breaker whose cooldown is over is HALF_OPEN.  *)
CooledDown == state = "OPEN" /\ age >= Cooldown

Start(c) ==
  /\ req[c].at = "idle"
  /\ Goto(c, "ready")
  /\ UNCHANGED <<state, failures, age, probing, streak, healthy>>

(* Cancelled while it sleeps between two attempts.                         *)
Abandon(c) ==
  /\ req[c].at = "ready"
  /\ req' = [req EXCEPT ![c] = Idle]
  /\ UNCHANGED <<state, failures, age, probing, streak, healthy>>

Pass(c) ==
  /\ req[c].at = "ready" /\ state = "CLOSED"
  /\ Goto(c, "call")
  /\ UNCHANGED <<state, failures, age, probing, streak, healthy>>

(* Mutant of Probe: the slot is not asked.                                 *)
ProbeAnyway(c) ==
  /\ req[c].at = "ready"
  /\ CooledDown \/ state = "HALF_OPEN"
  /\ Goto(c, "probe")
  /\ state' = "HALF_OPEN" /\ probing' = TRUE
  /\ UNCHANGED <<failures, age, streak, healthy>>

(* The transition to HALF_OPEN frees the slot; the probe takes it.         *)
Probe(c) ==
  /\ req[c].at = "ready"
  /\ CooledDown \/ (state = "HALF_OPEN" /\ ~probing)
  /\ Goto(c, "probe")
  /\ state' = "HALF_OPEN" /\ probing' = TRUE
  /\ UNCHANGED <<failures, age, streak, healthy>>

(* CircuitOpenError is not retried.                                        *)
RejectCall(c) ==
  /\ req[c].at = "ready"
  /\ \/ state = "OPEN" /\ ~CooledDown
     \/ state = "HALF_OPEN" /\ probing
  /\ req' = [req EXCEPT ![c] = Idle]
  /\ UNCHANGED <<state, failures, age, probing, streak, healthy>>

-----------------------------------------------------------------------------
(* The answers.                                                            *)

(* Mutant of Succeed: only the counter and the slot are reset.             *)
SucceedHalfOpen(c) ==
  /\ InFlight(c)
  /\ probing' = (probing /\ req[c].at # "probe")
  /\ failures' = 0 /\ streak' = 0
  /\ req' = [req EXCEPT ![c] = Idle]
  /\ UNCHANGED <<state, age, healthy>>

(* A success resets the counter; the success of a probe closes the breaker.*)
Succeed(c) ==
  /\ InFlight(c)
  /\ \/ req[c].at = "probe" /\ state' = "CLOSED" /\ probing' = FALSE
     \/ req[c].at = "call" /\ UNCHANGED <<state, probing>>
  /\ failures' = 0 /\ streak' = 0
  /\ req' = [req EXCEPT ![c] = Idle]
  /\ UNCHANGED <<age, healthy>>

(* retry_async: sleep and try again, or give up after the last attempt.    *)
RetryCall(c) ==
  req' = [req EXCEPT ![c] = IF req[c].attempt < RetryLimit
                            THEN [at |-> "ready", attempt |-> req[c].attempt + 1]
                            ELSE Idle]

(* Mutant of FailedCall: opens one failure too early.                      *)
FailedCallEarly(c) ==
  /\ req[c].at = "call"
  /\ failures' = failures + 1
  /\ state' = IF failures' + 1 >= Threshold THEN "OPEN" ELSE state
  /\ UNCHANGED probing

(* The failure of an ordinary call counts, whatever the state is by now.   *)
FailedCall(c) ==
  /\ req[c].at = "call"
  /\ failures' = failures + 1
  /\ state' = IF failures' >= Threshold THEN "OPEN" ELSE state
  /\ UNCHANGED probing

FailedProbe(c) ==
  /\ req[c].at = "probe"
  /\ state' = "OPEN" /\ probing' = FALSE
  /\ UNCHANGED failures

(* A timeout, a connection error, a 5xx or a 429.                          *)
FailTransient(c) ==
  /\ ~healthy
  /\ FailedCall(c) \/ FailedProbe(c)
  /\ age' = 0
  /\ streak' = IF streak < Threshold THEN streak + 1 ELSE streak
  /\ RetryCall(c)
  /\ UNCHANGED healthy

(* Mutant of FailOther: the slot of a cancelled probe is not given back.   *)
FailOtherKeepsSlot(c) ==
  /\ ~healthy /\ InFlight(c)
  /\ req' = [req EXCEPT ![c] = Idle]
  /\ UNCHANGED <<state, failures, age, probing, streak, healthy>>

(* Any other exception, a nested CircuitOpenError or a cancellation: not   *)
(* counted and not retried, but a probe gives its slot back.               *)
FailOther(c) ==
  /\ ~healthy /\ InFlight(c)
  /\ probing' = (probing /\ req[c].at # "probe")
  /\ req' = [req EXCEPT ![c] = Idle]
  /\ UNCHANGED <<state, failures, age, streak, healthy>>

-----------------------------------------------------------------------------
(* Time passes.  A Prompt call that was under way when the breaker opened  *)
(* has timed out before the cooldown is over.                              *)
Tick ==
  /\ age < Cooldown
  /\ (Prompt /\ state = "OPEN" /\ age + 1 = Cooldown) => \A c \in Callers : ~InFlight(c)
  /\ age' = age + 1
  /\ UNCHANGED <<state, failures, probing, req, streak, healthy>>

(* The dependency has an outage, or recovers.                              *)
Weather ==
  /\ healthy' = ~healthy
  /\ UNCHANGED <<state, failures, age, probing, req, streak>>

Enter(c) == Pass(c) \/ Probe(c) \/ RejectCall(c)

AnswerCaller(c) == Succeed(c) \/ FailTransient(c) \/ FailOther(c)

BreakerNext ==
  \/ \E c \in Callers : Start(c) \/ Abandon(c) \/ Enter(c) \/ AnswerCaller(c)
  \/ Tick \/ Weather

BreakerSpec == BreakerInit /\ [][BreakerNext]_breakerVars

(* Calls keep coming and are not all cancelled before they are made, every *)
(* call ends, and time passes.                                             *)
FairBreakerSpec ==
  /\ BreakerSpec
  /\ \A c \in Callers :
       /\ WF_breakerVars(Start(c)) /\ SF_breakerVars(Enter(c))
       /\ WF_breakerVars(AnswerCaller(c))
  /\ WF_breakerVars(Tick)

-----------------------------------------------------------------------------
(* Types; a caller makes at most MaxRetries + 1 attempts.                  *)
BreakerTypeOK ==
  /\ state \in {"CLOSED", "OPEN", "HALF_OPEN"}
  /\ failures \in Nat
  /\ age \in 0 .. Cooldown
  /\ probing \in BOOLEAN
  /\ req \in [Callers -> [at : {"idle", "ready", "call", "probe"},
                          attempt : 0 .. RetryLimit]]
  /\ streak \in 0 .. Threshold
  /\ healthy \in BOOLEAN

Probes == {c \in Callers : req[c].at = "probe"}

(* While the slot is taken a probe is under way that will give it back: no *)
(* error path of call() leaves the breaker rejecting everything for ever.  *)
SlotHeld == probing => Probes # {}

(* circuit_breakers.py: "HALF_OPEN - single probe allowed after cooldown": *)
(* a dependency that may be down is not sent two calls at a time.          *)
OneProbe == \A c, d \in Probes : c = d

(* "5 consecutive transient failures -> CLOSED -> OPEN": nothing less      *)
(* opens a closed breaker, not even an answer of an earlier outage.        *)
OpensAfterStreak ==
  [][(state = "CLOSED" /\ state' = "OPEN") => streak' = Threshold]_breakerVars

(* Once the dependency is well again, the breaker lets calls through.      *)
Recovers == <>[]healthy => []<>(state = "CLOSED")

-----------------------------------------------------------------------------
(* The inductive invariant of the proofs.  Only a call that outlasts the   *)
(* cooldown breaks PromptInv.                                              *)

(* The counter never exceeds the failures seen since a success.            *)
CounterIsStreak == failures <= streak \/ streak = Threshold

PromptInv ==
  /\ OneProbe
  /\ Probes # {} => probing /\ state # "CLOSED"
  /\ CooledDown => \A c \in Callers : ~InFlight(c)

BreakerInv == BreakerTypeOK /\ SlotHeld /\ CounterIsStreak /\ (Prompt => PromptInv)
=============================================================================
