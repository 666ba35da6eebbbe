--------------------------- MODULE CircuitBreaker ---------------------------
(***************************************************************************)
(* The circuit breaker of one dependency, shared by the concurrent calls    *)
(* of a process (runtime/circuitBreaker.ts).  An admitted call runs across  *)
(* an await: the circuit may have opened, half-opened or closed any number  *)
(* of times when its result comes.                                          *)
(*                                                                          *)
(* A call keeps halfOpenGeneration to find out whether it is still the      *)
(* present one.  Here a new generation turns the probes in flight into      *)
(* stale ones instead, so nothing has to be counted.  Of the clock the      *)
(* model keeps whether the cooldown is over and the order of the samples;   *)
(* the rolling window may let go of the oldest at any time.  A rejected     *)
(* call changes nothing and is no step.                                     *)
(***************************************************************************)
EXTENDS Naturals, FiniteSets, Sequences

CONSTANTS
  Calls,            \* calls of the dependency that may be in flight together
  MinimumSamples,   \* samples without which the circuit does not open
  FailureThreshold, \* failures among them that open it
  HalfOpenMaxCalls, \* probes at a time
  MaxSamples        \* length of the rolling window

LimitsAssumption ==
  /\ {MinimumSamples, FailureThreshold, HalfOpenMaxCalls, MaxSamples} \subseteq Nat \ {0}
  /\ FailureThreshold <= MinimumSamples
  /\ MinimumSamples <= MaxSamples

CallsAssumption == IsFiniteSet(Calls)

VARIABLES
  circuit,  \* state, cooldown, activeHalfOpenCalls, halfOpenFailed
  samples,  \* the results in the rolling window, TRUE for a failure
  calls     \* what each call in flight was admitted as

vars == <<circuit, samples, calls>>

Outcomes == {"success", "failure", "excused"}

TypeOK ==
  /\ circuit \in [state: {"closed", "open", "half_open"}, cooled: BOOLEAN,
                  active: Nat, failed: BOOLEAN]
  /\ samples \in Seq(BOOLEAN)
  /\ calls \in [Calls -> {"none", "ordinary", "probe", "stale"}]

Init ==
  /\ circuit = [state |-> "closed", cooled |-> FALSE, active |-> 0, failed |-> FALSE]
  /\ samples = <<>>
  /\ calls = [c \in Calls |-> "none"]

(***************************************************************************)
(* Transitions                                                             *)
(***************************************************************************)
NextGeneration(inFlight) ==
  [c \in Calls |-> IF inFlight[c] = "probe" THEN "stale" ELSE inFlight[c]]

\* Mutant of Opens: the generation is not advanced.
OpensInSameGeneration(inFlight, window, failed) ==
  /\ circuit' = [state |-> "open", cooled |-> FALSE, active |-> 0, failed |-> failed]
  /\ calls' = inFlight
  /\ samples' = window

\* transition("open"), with what it is reached with.
Opens(inFlight, window, failed) ==
  /\ circuit' = [state |-> "open", cooled |-> FALSE, active |-> 0, failed |-> failed]
  /\ calls' = NextGeneration(inFlight)
  /\ samples' = window

\* Mutant of Closes: the window is kept.
ClosesWithSamples(inFlight) ==
  /\ circuit' = [circuit EXCEPT !.state = "closed", !.active = 0]
  /\ calls' = inFlight
  /\ samples' = samples

\* transition("closed").
Closes(inFlight) ==
  /\ circuit' = [circuit EXCEPT !.state = "closed", !.active = 0]
  /\ calls' = inFlight
  /\ samples' = <<>>

\* Mutant of HalfOpens: the failure of an earlier generation is kept.
HalfOpensFailed(inFlight, probes) ==
  /\ circuit' = [state |-> "half_open", cooled |-> TRUE, active |-> probes,
                 failed |-> circuit.failed]
  /\ calls' = inFlight
  /\ samples' = samples

\* transition("half_open") with the probes that are admitted at once.
HalfOpens(inFlight, probes) ==
  /\ circuit' = [state |-> "half_open", cooled |-> TRUE, active |-> probes, failed |-> FALSE]
  /\ calls' = inFlight
  /\ samples' = samples

\* refresh finds the cooldown over.
Cooled == circuit.state = "open" /\ circuit.cooled

(***************************************************************************)
(* Time                                                                    *)
(***************************************************************************)
CooldownEnds ==
  /\ circuit.state = "open"
  /\ ~circuit.cooled
  /\ circuit' = [circuit EXCEPT !.cooled = TRUE]
  /\ UNCHANGED <<samples, calls>>

\* prune: the oldest sample leaves the rolling window.
SampleAges ==
  /\ samples # <<>>
  /\ samples' = Tail(samples)
  /\ UNCHANGED <<circuit, calls>>

(***************************************************************************)
(* execute, up to the await                                                *)
(***************************************************************************)
StartOrdinary(c) ==
  /\ circuit.state = "closed"
  /\ calls[c] = "none"
  /\ calls' = [calls EXCEPT ![c] = "ordinary"]
  /\ UNCHANGED <<circuit, samples>>

\* The call that finds the cooldown over is the first probe.
StartFirstProbe(c) ==
  /\ Cooled
  /\ calls[c] = "none"
  /\ HalfOpens([NextGeneration(calls) EXCEPT ![c] = "probe"], 1)

StartProbe(c) ==
  /\ circuit.state = "half_open"
  /\ calls[c] = "none"
  /\ circuit.active < HalfOpenMaxCalls
  /\ circuit' = [circuit EXCEPT !.active = @ + 1]
  /\ calls' = [calls EXCEPT ![c] = "probe"]
  /\ UNCHANGED samples

\* getState and getSnapshot refresh, too.
GetState ==
  /\ Cooled
  /\ HalfOpens(NextGeneration(calls), 0)

(***************************************************************************)
(* execute, after the await                                                *)
(***************************************************************************)
Failures(window) == Cardinality({i \in DOMAIN window : window[i]})

MustOpen(window) ==
  /\ Len(window) >= MinimumSamples
  /\ Failures(window) >= FailureThreshold

\* The window after another sample.
Recorded(failed) ==
  IF Len(samples) < MaxSamples THEN Append(samples, failed) ELSE Tail(Append(samples, failed))

\* recordClosed: a sample is kept in every state and opens the closed circuit only.
RecordClosed(failed, inFlight) ==
  IF circuit.state = "closed" /\ MustOpen(Recorded(failed))
  THEN Opens(inFlight, Recorded(failed), circuit.failed)
  ELSE /\ samples' = Recorded(failed)
       /\ calls' = inFlight
       /\ circuit' = circuit

Ended(c) == [calls EXCEPT ![c] = "none"]

\* An error that does not qualify (excused) leaves no sample.
EndOrdinary(c, outcome) ==
  /\ calls[c] = "ordinary"
  /\ IF outcome = "excused"
     THEN calls' = Ended(c) /\ UNCHANGED <<circuit, samples>>
     ELSE RecordClosed(outcome = "failure", Ended(c))

\* Its probe may still decide: it is of the present generation.
Decides(c) == calls[c] = "probe" /\ circuit.state = "half_open"

\* Mutant of EndProbe: the first success closes.
EndProbeEager(c, outcome) ==
  /\ Decides(c)
  /\ IF outcome = "failure" THEN Opens(Ended(c), samples, TRUE) ELSE Closes(Ended(c))

\* A probe of the present generation: one failure opens the circuit again, and the
\* last one to end without a failure closes it.
EndProbe(c, outcome) ==
  /\ Decides(c)
  /\ IF outcome = "failure" THEN Opens(Ended(c), samples, TRUE)
     ELSE IF circuit.active = 1 /\ ~circuit.failed THEN Closes(Ended(c))
     ELSE /\ circuit' = [circuit EXCEPT !.active = @ - 1]
          /\ calls' = Ended(c)
          /\ UNCHANGED samples

\* Mutant of EndStale: it is taken off the counter.
EndStaleCounted(c) ==
  /\ calls[c] = "stale"
  /\ circuit' = [circuit EXCEPT !.active = @ - 1]
  /\ calls' = Ended(c)
  /\ UNCHANGED samples

\* A probe of an earlier generation is not counted.
EndStale(c) ==
  /\ calls[c] \in {"probe", "stale"}
  /\ ~Decides(c)
  /\ calls' = Ended(c)
  /\ UNCHANGED <<circuit, samples>>

Start(c) == StartOrdinary(c) \/ StartFirstProbe(c) \/ StartProbe(c)
End(c) == (\E o \in Outcomes : EndOrdinary(c, o) \/ EndProbe(c, o)) \/ EndStale(c)

Next ==
  \/ CooldownEnds
  \/ SampleAges
  \/ GetState
  \/ \E c \in Calls : Start(c) \/ End(c)

Spec == Init /\ [][Next]_vars

\* Time passes, a call ends (every caller has a deadline), and calls keep coming.
LiveSpec ==
  /\ Spec
  /\ WF_vars(CooldownEnds)
  /\ \A c \in Calls : WF_vars(Start(c)) /\ WF_vars(End(c))

(***************************************************************************)
(* Properties                                                              *)
(***************************************************************************)

\* The counter of a half-open circuit is the number of its own probes that are in
\* flight, however the results of earlier generations come in: none is leaked, which
\* would end in rejecting every call, and none is counted twice, which would close the
\* circuit while a probe is out.
ProbesAreCounted ==
  /\ circuit.active = Cardinality({c \in Calls : calls[c] = "probe"})
  /\ circuit.active <= HalfOpenMaxCalls
  /\ circuit.active > 0 => circuit.state = "half_open"

\* A closed circuit never sits on a window that should have opened it: closing forgets
\* the failures that led to opening and those reported late, and every later sample is
\* judged when it is taken.
ClosedIsHealthy == circuit.state = "closed" => ~MustOpen(samples)

\* halfOpenFailed never holds back a circuit that is half-open: a probe that fails
\* opens it in the same step, so the last probe to end can always close it.
FailureReopens == circuit.state = "half_open" => ~circuit.failed

\* A circuit closes only from half-open, when its last probe ends, never while
\* another probe may still report a failure.
ClosesAfterLastProbe ==
  circuit.state # "closed" /\ circuit'.state = "closed" =>
    /\ circuit.state = "half_open"
    /\ \A c \in Calls : calls'[c] # "probe"

FailsNow ==
  \E c \in Calls : EndOrdinary(c, "failure") \/ EndProbe(c, "failure")

\* Once the dependency stops failing, the circuit does not stay open or half-open,
\* with one probe at a time and calls that keep coming.
RecoversWithDependency ==
  <>[][~FailsNow]_vars => []<>(circuit.state = "closed")
=============================================================================
