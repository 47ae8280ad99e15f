--------------------------- MODULE CircuitBreaker ---------------------------
(* The circuit of one provider: its row in provider_circuit_state, which every *)
(* purchase consults before it may send an order to the provider and updates   *)
(* after the order, in a statement of its own that nobody waits for.  The      *)
(* orders of several workers are under way at once, so what one of them was    *)
(* allowed to send may be recorded long after the circuit changed.             *)
EXTENDS Naturals

CONSTANTS
  Callers,     \* purchases that would use the provider
  Threshold,   \* CIRCUIT_BREAKER_THRESHOLD: consecutive failures that open the circuit
  Cooldown,    \* CIRCUIT_BREAKER_COOLDOWN_MS, in ticks
  Never        \* no time

ASSUME CircuitAssumption == Threshold \in Nat \ {0} /\ Cooldown \in Nat /\ Never \notin Nat

VARIABLES
  circuit,     \* the row; `failures` counts up to Threshold, which is all that is asked of it
  openFor,     \* the time since circuit_opened_at, up to Cooldown, or Never when that is NULL
  caller       \* where each purchase is

circuitVars == <<circuit, openFor, caller>>

CircuitInit ==
  /\ circuit = [open |-> FALSE, failures |-> 0]
  /\ openFor = Never
  /\ caller = [c \in Callers |-> "idle"]

Move(c, where) == caller' = [caller EXCEPT ![c] = where]

\* isCircuitOpen: an open circuit refuses until the cool-down is over.
Refusing == circuit.open /\ (openFor = Never \/ openFor < Cooldown)

\* tryAddCandidate.  An error of the query counts as closed.
CheckCircuit(c) ==
  /\ caller[c] = "idle"
  /\ Move(c, IF Refusing THEN "refused" ELSE "ordering") \/ Move(c, "ordering")
  /\ UNCHANGED <<circuit, openFor>>

\* A refused purchase is retried, or another comes.
TryAgain(c) ==
  /\ caller[c] = "refused" /\ Move(c, "idle")
  /\ UNCHANGED <<circuit, openFor>>

\* The provider answers; "pending" counts as a success.
OrderEnds(c) ==
  /\ caller[c] = "ordering" /\ (Move(c, "succeeded") \/ Move(c, "failed"))
  /\ UNCHANGED <<circuit, openFor>>

BugFailuresLeft == circuit.failures
FailuresLeft == 0

RecordSuccess(c) ==
  /\ caller[c] = "succeeded" /\ Move(c, "idle")
  /\ circuit' = [open |-> FALSE, failures |-> FailuresLeft]
  /\ openFor' = IF circuit.open THEN Never ELSE openFor

BugOpenedAt(tripped) == openFor
\* Set when the circuit opens; a failure of an order sent before, or after the
\* cool-down, leaves it as it is.
OpenedAt(tripped) == IF tripped /\ ~circuit.open THEN 0 ELSE openFor

RecordFailure(c) ==
  LET tripped == circuit.failures + 1 >= Threshold IN
  /\ caller[c] = "failed" /\ Move(c, "idle")
  /\ circuit' = [open |-> tripped \/ circuit.open,
                 failures |-> IF tripped THEN Threshold ELSE circuit.failures + 1]
  /\ openFor' = OpenedAt(tripped)

\* The statement is not awaited, and its error only logged.
RecordLost(c) ==
  /\ caller[c] \in {"succeeded", "failed"} /\ Move(c, "idle")
  /\ UNCHANGED <<circuit, openFor>>

\* POST /admin/provider-health-metrics/:providerCode/reset
ResetCircuit ==
  /\ circuit' = [open |-> FALSE, failures |-> 0] /\ openFor' = Never
  /\ UNCHANGED caller

CircuitTick ==
  /\ openFor # Never /\ openFor < Cooldown /\ openFor' = openFor + 1
  /\ UNCHANGED <<circuit, caller>>

CircuitNext ==
  \/ \E c \in Callers :
       \/ CheckCircuit(c) \/ TryAgain(c) \/ OrderEnds(c)
       \/ RecordSuccess(c) \/ RecordFailure(c) \/ RecordLost(c)
  \/ ResetCircuit \/ CircuitTick

CircuitSpec == CircuitInit /\ [][CircuitNext]_circuitVars

-----------------------------------------------------------------------------
\* The row, its age and the purchases keep their types.
CircuitTypeOK ==
  /\ circuit \in [open : BOOLEAN, failures : 0..Threshold]
  /\ openFor \in (0..Cooldown) \union {Never}
  /\ caller \in [Callers -> {"idle", "refused", "ordering", "succeeded", "failed"}]

\* Whatever order the late results of several workers arrive in, the circuit is
\* open exactly when the last Threshold of them failed, and then it has a time to
\* count its cool-down from.
OpenAfterThreshold ==
  /\ circuit.open <=> circuit.failures >= Threshold
  /\ circuit.open <=> openFor # Never

\* No provider is refused for good: time alone ends it, however the orders that
\* were under way end.
NotRefusedForever == Refusing ~> ~Refusing
=============================================================================
