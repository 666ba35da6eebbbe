---------------------------- MODULE ProcessesProofs ----------------------------
(***************************************************************************)
(* What the run of MCProcesses checks of its circuits, shutdown, streams,   *)
(* requests, rate limiter, workers and tool invocations, as theorems of the *)
(* whole specification: for any calls, limits, tasks, streams, rows,        *)
(* timeouts, delays, keys, failures and outages.                            *)
(*                                                                          *)
(* The probes in flight are those of the present generation, so that the    *)
(* counter of a half-open circuit is their number and its last one closes   *)
(* it.  What a shutdown reports follows from how far its two functions have *)
(* come.  A stream and a poll keep rows of the job, and the observation is  *)
(* there exactly while a stream is subscribed.  A loop that sleeps has an   *)
(* attempt left, and sleeps less than its call has time.  A transaction of  *)
(* the limiter has locked its own key and the rows it has removed, nothing  *)
(* else, and never its own key among them.  A heartbeat goes with a claimed *)
(* job, and one that has failed does not go on, so that nothing makes the   *)
(* worker ready before its next poll.                                       *)
(*                                                                          *)
(* The circuit and the worker are proved about for any parameters, as       *)
(* instances with parameters, and the run's instances are some of them.     *)
(***************************************************************************)
EXTENDS MCProcesses, FiniteSetTheorems, SequenceTheorems, TLAPS

-----------------------------------------------------------------------------
(* The circuit, with any limits.                                            *)

Breaker(minimum, threshold, probes, window) == INSTANCE CircuitBreaker WITH
  MinimumSamples <- minimum, FailureThreshold <- threshold,
  HalfOpenMaxCalls <- probes, MaxSamples <- window

BreakerInv(m, f, h, x) ==
  /\ Breaker(m, f, h, x)!TypeOK /\ Breaker(m, f, h, x)!ProbesAreCounted
  /\ Breaker(m, f, h, x)!ClosedIsHealthy /\ Breaker(m, f, h, x)!FailureReopens

\* What calls are in flight, and the circuit that goes with them.
InFlight == [Calls -> {"none", "ordinary", "probe", "stale"}]
Probing(inFlight) == {c \in Calls : inFlight[c] = "probe"}
NextGeneration(inFlight) ==
  [c \in Calls |-> IF inFlight[c] = "probe" THEN "stale" ELSE inFlight[c]]

Fits(state, active, broken, inFlight, h) ==
  /\ inFlight \in InFlight
  /\ active \in Nat /\ active = Cardinality(Probing(inFlight))
  /\ active <= h
  /\ active > 0 => state = "half_open"
  /\ state = "half_open" => ~broken

LEMMA ProbesFinite == \A inFlight : IsFiniteSet(Probing(inFlight))
<1> TAKE inFlight
<1>1. IsFiniteSet(Calls)
  BY ProcessesAssumption DEF Probed!CallsAssumption, Probed!IsFiniteSet, IsFiniteSet
<1> QED
  BY <1>1, FS_Subset DEF Probing

\* A new generation has no probes.
LEMMA Renumbered ==
  ASSUME NEW inFlight \in InFlight
  PROVE  /\ NextGeneration(inFlight) \in InFlight
         /\ Probing(NextGeneration(inFlight)) = {}
BY DEF InFlight, NextGeneration, Probing

LEMMA NoProbes ==
  ASSUME NEW inFlight \in InFlight, Probing(inFlight) = {}, NEW h \in Nat,
         NEW state, NEW broken, state = "half_open" => ~broken
  PROVE  Fits(state, 0, broken, inFlight, h)
BY FS_EmptySet DEF Fits

\* A window's failures are counted, and its oldest sample is the first to go.
LEMMA Younger ==
  ASSUME NEW m, NEW f, NEW h, NEW x, NEW window \in Seq(BOOLEAN)
  PROVE  /\ Breaker(m, f, h, x)!Failures(window) \in Nat
         /\ window # <<>> => Breaker(m, f, h, x)!Failures(Tail(window))
                               <= Breaker(m, f, h, x)!Failures(window)
<1> DEFINE Failing(w) == {i \in DOMAIN w : w[i]}
<1>0. /\ Breaker(m, f, h, x)!Failures(window) = Cardinality(Failing(window))
      /\ Breaker(m, f, h, x)!Failures(Tail(window)) = Cardinality(Failing(Tail(window)))
  BY DEF Breaker!Failures, Breaker!Cardinality, Cardinality
<1>1. Len(window) \in Nat /\ DOMAIN window = 1..Len(window)
  BY LenProperties
<1>2. IsFiniteSet(1..Len(window))
  BY <1>1, FS_Interval
<1>3. IsFiniteSet(Failing(window)) /\ Cardinality(Failing(window)) \in Nat
  BY <1>1, <1>2, FS_Subset, FS_CardinalityType
<1>4. ASSUME window # <<>>
      PROVE  Cardinality(Failing(Tail(window))) <= Cardinality(Failing(window))
  <2>1. /\ Tail(window) \in Seq(BOOLEAN) /\ Len(Tail(window)) = Len(window) - 1
        /\ \A i \in 1..Len(Tail(window)) : Tail(window)[i] = window[i + 1]
    BY <1>4, HeadTailProperties
  <2>2. DOMAIN Tail(window) = 1..Len(Tail(window)) /\ Len(Tail(window)) \in Nat
    BY <2>1, LenProperties
  <2> DEFINE later == [i \in Failing(Tail(window)) |-> i + 1]
  <2>3. later \in Injection(Failing(Tail(window)), Failing(window))
    <3>1. \A i \in Failing(Tail(window)) : i \in Nat /\ i + 1 \in Failing(window)
      BY <1>1, <2>1, <2>2
    <3> QED
      BY <3>1 DEF Injection, IsInjective
  <2> HIDE DEF later
  <2> QED
    BY <1>3, <2>3, FS_Injection
<1> HIDE DEF Failing
<1> QED
  BY <1>0, <1>3, <1>4

\* What a sample leaves of the window.
LEMMA Recording ==
  ASSUME NEW m, NEW f, NEW h, NEW x \in Nat \ {0}, NEW broken \in BOOLEAN, samples \in Seq(BOOLEAN)
  PROVE  Breaker(m, f, h, x)!Recorded(broken) \in Seq(BOOLEAN)
<1>1. /\ Append(samples, broken) \in Seq(BOOLEAN) /\ Append(samples, broken) # <<>>
      /\ Tail(Append(samples, broken)) \in Seq(BOOLEAN)
  BY AppendProperties, HeadTailProperties
<1> QED
  BY <1>1 DEF Breaker!Recorded

\* The invariant, from what fits and a window that is as it should be.
LEMMA BreakerFits ==
  ASSUME NEW m, NEW f, NEW h, NEW x
  PROVE  BreakerInv(m, f, h, x) <=>
           /\ circuit \in [state: {"closed", "open", "half_open"}, cooled: BOOLEAN,
                           active: Nat, failed: BOOLEAN]
           /\ samples \in Seq(BOOLEAN)
           /\ Fits(circuit.state, circuit.active, circuit.failed, calls, h)
           /\ circuit.state = "closed" => ~Breaker(m, f, h, x)!MustOpen(samples)
BY DEF BreakerInv, Breaker!TypeOK, Breaker!ProbesAreCounted, Breaker!ClosedIsHealthy,
       Breaker!FailureReopens, Fits, InFlight, Probing, Breaker!Cardinality, Cardinality

LEMMA BreakerBegins ==
  ASSUME NEW m \in Nat \ {0}, NEW f, NEW h \in Nat \ {0}, NEW x, Circuit!Init
  PROVE  BreakerInv(m, f, h, x)
<1>1. circuit = [state |-> "closed", cooled |-> FALSE, active |-> 0, failed |-> FALSE]
      /\ samples = <<>> /\ calls \in InFlight /\ Probing(calls) = {}
  BY DEF Circuit!Init, InFlight, Probing
<1>2. Fits("closed", 0, FALSE, calls, h)
  BY <1>1, NoProbes
<1>3. samples \in Seq(BOOLEAN) /\ Len(samples) = 0
  BY <1>1
<1>4. ~Breaker(m, f, h, x)!MustOpen(samples)
  BY <1>3 DEF Breaker!MustOpen
<1> QED
  BY <1>1, <1>2, <1>3, <1>4, BreakerFits

\* The generations of the module.
LEMMA Generations ==
  ASSUME NEW m, NEW f, NEW h, NEW x, NEW inFlight
  PROVE  Breaker(m, f, h, x)!NextGeneration(inFlight) = NextGeneration(inFlight)
BY DEF Breaker!NextGeneration, NextGeneration

\* A call that ends, and one that begins.
LEMMA Ending ==
  ASSUME NEW c \in Calls, calls \in InFlight
  PROVE  /\ [calls EXCEPT ![c] = "none"] \in InFlight
         /\ Probing([calls EXCEPT ![c] = "none"]) = Probing(calls) \ {c}
         /\ Cardinality(Probing(calls)) \in Nat
         /\ Cardinality(Probing(calls) \ {c}) =
              IF calls[c] = "probe" THEN Cardinality(Probing(calls)) - 1
              ELSE Cardinality(Probing(calls))
<1>1. /\ [calls EXCEPT ![c] = "none"] \in InFlight
      /\ Probing([calls EXCEPT ![c] = "none"]) = Probing(calls) \ {c}
      /\ c \in Probing(calls) <=> calls[c] = "probe"
  BY DEF InFlight, Probing
<1> QED
  BY <1>1, ProbesFinite, FS_CardinalityType, FS_RemoveElement

LEMMA Beginning ==
  ASSUME NEW c \in Calls, NEW inFlight \in InFlight, inFlight[c] # "probe"
  PROVE  LET ordinary == [inFlight EXCEPT ![c] = "ordinary"]
             probe == [inFlight EXCEPT ![c] = "probe"]
         IN  /\ ordinary \in InFlight /\ probe \in InFlight
             /\ Probing(ordinary) = Probing(inFlight)
             /\ Cardinality(Probing(inFlight)) \in Nat
             /\ Cardinality(Probing(probe)) = Cardinality(Probing(inFlight)) + 1
<1>1. /\ [inFlight EXCEPT ![c] = "ordinary"] \in InFlight
      /\ [inFlight EXCEPT ![c] = "probe"] \in InFlight
      /\ Probing([inFlight EXCEPT ![c] = "ordinary"]) = Probing(inFlight)
      /\ Probing([inFlight EXCEPT ![c] = "probe"]) = Probing(inFlight) \union {c}
      /\ c \notin Probing(inFlight)
  BY DEF InFlight, Probing
<1> QED
  BY <1>1, ProbesFinite, FS_CardinalityType, FS_AddElement

\* What a step comes to.
Goes(m, f, h, x) ==
  /\ circuit' \in [state: {"closed", "open", "half_open"}, cooled: BOOLEAN,
                   active: Nat, failed: BOOLEAN]
  /\ samples' \in Seq(BOOLEAN)
  /\ Fits(circuit'.state, circuit'.active, circuit'.failed, calls', h)
  /\ circuit'.state = "closed" => ~Breaker(m, f, h, x)!MustOpen(samples')
  /\ circuit.state # "closed" /\ circuit'.state = "closed" =>
       circuit.state = "half_open" /\ Probing(calls') = {}

LEMMA BreakerGoes ==
  ASSUME NEW m, NEW f, NEW h, NEW x, Goes(m, f, h, x)
  PROVE  BreakerInv(m, f, h, x)' /\ Breaker(m, f, h, x)!ClosesAfterLastProbe
BY DEF Goes, BreakerInv, Breaker!TypeOK, Breaker!ProbesAreCounted, Breaker!ClosedIsHealthy,
       Breaker!FailureReopens, Breaker!MustOpen, Breaker!Failures, Breaker!ClosesAfterLastProbe,
       Fits, InFlight, Probing, Breaker!Cardinality, Cardinality

\* A circuit that opens, however it comes to it.
LEMMA OpensGoes ==
  ASSUME NEW m, NEW f, NEW h \in Nat \ {0}, NEW x, NEW inFlight \in InFlight,
         NEW window \in Seq(BOOLEAN), NEW broken \in BOOLEAN,
         Breaker(m, f, h, x)!Opens(inFlight, window, broken)
  PROVE  Goes(m, f, h, x)
<1>1. /\ circuit' = [state |-> "open", cooled |-> FALSE, active |-> 0, failed |-> broken]
      /\ calls' = NextGeneration(inFlight) /\ samples' = window
  BY Generations DEF Breaker!Opens
<1>2. Fits("open", 0, broken, calls', h)
  BY <1>1, Renumbered, NoProbes
<1> QED
  BY <1>1, <1>2 DEF Goes

LEMMA RecordGoes ==
  ASSUME NEW m, NEW f, NEW h \in Nat \ {0}, NEW x \in Nat \ {0}, BreakerInv(m, f, h, x),
         NEW c \in Calls, calls[c] = "ordinary", NEW broken \in BOOLEAN,
         Breaker(m, f, h, x)!RecordClosed(broken, Breaker(m, f, h, x)!Ended(c))
  PROVE  Goes(m, f, h, x)
<1> DEFINE inFlight == [calls EXCEPT ![c] = "none"]
           window == Breaker(m, f, h, x)!Recorded(broken)
<1>1. /\ circuit \in [state: {"closed", "open", "half_open"}, cooled: BOOLEAN,
                      active: Nat, failed: BOOLEAN]
      /\ samples \in Seq(BOOLEAN)
      /\ Fits(circuit.state, circuit.active, circuit.failed, calls, h)
  BY BreakerFits
<1>2. inFlight \in InFlight /\ Cardinality(Probing(inFlight)) = Cardinality(Probing(calls))
  BY <1>1, Ending DEF Fits
<1>3. window \in Seq(BOOLEAN)
  BY <1>1, Recording
<1>4. Breaker(m, f, h, x)!Ended(c) = inFlight
  BY DEF Breaker!Ended
<1> HIDE DEF inFlight, window
<1>5. CASE circuit.state = "closed" /\ Breaker(m, f, h, x)!MustOpen(window)
  <2>1. Breaker(m, f, h, x)!Opens(inFlight, window, circuit.failed)
    BY <1>4, <1>5 DEF Breaker!RecordClosed, window
  <2> QED
    BY <1>1, <1>2, <1>3, <2>1, OpensGoes
<1>6. CASE ~(circuit.state = "closed" /\ Breaker(m, f, h, x)!MustOpen(window))
  <2>1. samples' = window /\ calls' = inFlight /\ circuit' = circuit
    BY <1>4, <1>6 DEF Breaker!RecordClosed, window
  <2> QED
    BY <1>1, <1>2, <1>3, <1>6, <2>1 DEF Goes, Fits
<1> QED
  BY <1>5, <1>6

LEMMA ProbeGoes ==
  ASSUME NEW m \in Nat \ {0}, NEW f, NEW h \in Nat \ {0}, NEW x, BreakerInv(m, f, h, x),
         NEW c \in Calls, NEW o \in {"success", "failure", "excused"},
         Breaker(m, f, h, x)!EndProbe(c, o)
  PROVE  Goes(m, f, h, x)
<1> DEFINE inFlight == [calls EXCEPT ![c] = "none"]
<1>1. /\ circuit \in [state: {"closed", "open", "half_open"}, cooled: BOOLEAN,
                      active: Nat, failed: BOOLEAN]
      /\ samples \in Seq(BOOLEAN)
      /\ Fits(circuit.state, circuit.active, circuit.failed, calls, h)
  BY BreakerFits
<1>2. calls[c] = "probe" /\ circuit.state = "half_open" /\ ~circuit.failed
  BY <1>1 DEF Breaker!EndProbe, Breaker!Decides, Fits
<1>3. /\ inFlight \in InFlight /\ Probing(inFlight) = Probing(calls) \ {c}
      /\ circuit.active = Cardinality(Probing(calls)) /\ circuit.active \in Nat
      /\ Cardinality(Probing(inFlight)) = circuit.active - 1
  BY <1>1, <1>2, Ending DEF Fits
<1>4. Cardinality(Probing(inFlight)) \in Nat /\ circuit.active > 0
  BY <1>3, ProbesFinite, FS_CardinalityType
<1>5. Breaker(m, f, h, x)!Ended(c) = inFlight
  BY DEF Breaker!Ended
<1> HIDE DEF inFlight
<1>6. CASE o = "failure"
  <2>1. Breaker(m, f, h, x)!Opens(inFlight, samples, TRUE)
    BY <1>5, <1>6 DEF Breaker!EndProbe
  <2> QED
    BY <1>1, <1>3, <2>1, OpensGoes
<1>7. CASE o # "failure" /\ circuit.active = 1
  <2>1. Breaker(m, f, h, x)!Closes(inFlight)
    BY <1>2, <1>5, <1>7 DEF Breaker!EndProbe
  <2>2. circuit' = [circuit EXCEPT !.state = "closed", !.active = 0] /\ calls' = inFlight /\ samples' = <<>>
    BY <2>1 DEF Breaker!Closes
  <2>3. Probing(inFlight) = {}
    BY <1>3, <1>7, ProbesFinite, FS_EmptySet
  <2>4. Fits("closed", 0, circuit.failed, inFlight, h)
    BY <1>3, <2>3, NoProbes
  <2>5. samples' \in Seq(BOOLEAN) /\ ~Breaker(m, f, h, x)!MustOpen(samples')
    BY <2>2 DEF Breaker!MustOpen
  <2> QED
    BY <1>1, <1>2, <2>2, <2>3, <2>4, <2>5 DEF Goes
<1>8. CASE o # "failure" /\ circuit.active # 1
  <2>1. circuit' = [circuit EXCEPT !.active = @ - 1] /\ calls' = inFlight /\ samples' = samples
    BY <1>2, <1>5, <1>8 DEF Breaker!EndProbe
  <2>2. /\ circuit'.state = "half_open" /\ circuit'.failed = circuit.failed
        /\ circuit'.active = circuit.active - 1 /\ circuit'.cooled = circuit.cooled
        /\ circuit' \in [state: {"closed", "open", "half_open"}, cooled: BOOLEAN,
                         active: Nat, failed: BOOLEAN]
    BY <1>1, <1>2, <1>3, <1>4, <2>1
  <2>3. circuit.active <= h
    BY <1>1 DEF Fits
  <2>4. Fits("half_open", circuit'.active, circuit'.failed, inFlight, h)
    BY <1>2, <1>3, <1>4, <2>2, <2>3 DEF Fits
  <2> QED
    BY <1>1, <2>1, <2>2, <2>4 DEF Goes
<1> QED
  BY <1>6, <1>7, <1>8

LEMMA BreakerStep ==
  ASSUME NEW m \in Nat \ {0}, NEW f \in Nat \ {0}, NEW h \in Nat \ {0}, NEW x \in Nat \ {0},
         BreakerInv(m, f, h, x), Breaker(m, f, h, x)!Next
  PROVE  BreakerInv(m, f, h, x)' /\ Breaker(m, f, h, x)!ClosesAfterLastProbe
<1>0. /\ circuit \in [state: {"closed", "open", "half_open"}, cooled: BOOLEAN,
                      active: Nat, failed: BOOLEAN]
      /\ samples \in Seq(BOOLEAN)
      /\ Fits(circuit.state, circuit.active, circuit.failed, calls, h)
      /\ circuit.state = "closed" => ~Breaker(m, f, h, x)!MustOpen(samples)
  BY BreakerFits
<1>1. calls \in InFlight
  BY <1>0 DEF Fits
<1>2. ASSUME Breaker(m, f, h, x)!CooldownEnds PROVE Goes(m, f, h, x)
  BY <1>0, <1>2 DEF Breaker!CooldownEnds, Goes, Fits
<1>3. ASSUME Breaker(m, f, h, x)!SampleAges PROVE Goes(m, f, h, x)
  <2>1. samples # <<>> /\ samples' = Tail(samples) /\ circuit' = circuit /\ calls' = calls
    BY <1>3 DEF Breaker!SampleAges
  <2>2. samples' \in Seq(BOOLEAN) /\ Len(samples') = Len(samples) - 1 /\ Len(samples) \in Nat
    BY <1>0, <2>1, HeadTailProperties, LenProperties
  <2>3. Breaker(m, f, h, x)!Failures(samples') <= Breaker(m, f, h, x)!Failures(samples)
        /\ Breaker(m, f, h, x)!Failures(samples) \in Nat
    BY <1>0, <2>1, Younger
  <2>4. Breaker(m, f, h, x)!Failures(samples') \in Nat
    BY <2>2, Younger
  <2>5. Breaker(m, f, h, x)!MustOpen(samples') => Breaker(m, f, h, x)!MustOpen(samples)
    BY <2>2, <2>3, <2>4 DEF Breaker!MustOpen
  <2> QED
    BY <1>0, <2>1, <2>2, <2>5 DEF Goes, Fits
<1>4. ASSUME Breaker(m, f, h, x)!GetState PROVE Goes(m, f, h, x)
  <2>1. /\ circuit' = [state |-> "half_open", cooled |-> TRUE, active |-> 0, failed |-> FALSE]
        /\ calls' = NextGeneration(calls) /\ samples' = samples
    BY <1>4, Generations DEF Breaker!GetState, Breaker!HalfOpens
  <2>2. Fits("half_open", 0, FALSE, calls', h)
    BY <1>1, <2>1, Renumbered, NoProbes
  <2> QED
    BY <1>0, <2>1, <2>2 DEF Goes
<1>5. ASSUME NEW c \in Calls, Breaker(m, f, h, x)!StartOrdinary(c) PROVE Goes(m, f, h, x)
  BY <1>0, <1>1, <1>5, Beginning DEF Breaker!StartOrdinary, Goes, Fits
<1>6. ASSUME NEW c \in Calls, Breaker(m, f, h, x)!StartFirstProbe(c) PROVE Goes(m, f, h, x)
  <2>1. /\ circuit' = [state |-> "half_open", cooled |-> TRUE, active |-> 1, failed |-> FALSE]
        /\ calls' = [NextGeneration(calls) EXCEPT ![c] = "probe"] /\ samples' = samples
        /\ circuit.state = "open"
    BY <1>6, Generations DEF Breaker!StartFirstProbe, Breaker!HalfOpens, Breaker!Cooled
  <2>2. NextGeneration(calls) \in InFlight /\ Probing(NextGeneration(calls)) = {}
    BY <1>1, Renumbered
  <2>3. NextGeneration(calls)[c] # "probe" /\ Cardinality(Probing(NextGeneration(calls))) = 0
    BY <2>2, FS_EmptySet DEF Probing
  <2> DEFINE inFlight == NextGeneration(calls)
  <2>4. calls' \in InFlight /\ Cardinality(Probing(calls')) = 1
    <3>1. inFlight \in InFlight /\ inFlight[c] # "probe" /\ Cardinality(Probing(inFlight)) = 0
          /\ calls' = [inFlight EXCEPT ![c] = "probe"]
      BY <2>1, <2>2, <2>3
    <3> HIDE DEF inFlight
    <3>2. /\ [inFlight EXCEPT ![c] = "probe"] \in InFlight
          /\ Cardinality(Probing([inFlight EXCEPT ![c] = "probe"])) =
               Cardinality(Probing(inFlight)) + 1
      BY <3>1, Beginning
    <3> QED
      BY <3>1, <3>2
  <2> QED
    BY <1>0, <2>1, <2>4 DEF Goes, Fits
<1>7. ASSUME NEW c \in Calls, Breaker(m, f, h, x)!StartProbe(c) PROVE Goes(m, f, h, x)
  <2>1. /\ circuit.state = "half_open" /\ circuit.active < h
        /\ circuit' = [circuit EXCEPT !.active = @ + 1] /\ samples' = samples
        /\ calls' = [calls EXCEPT ![c] = "probe"]
    BY <1>7 DEF Breaker!StartProbe
  <2>2. calls' \in InFlight /\ Cardinality(Probing(calls')) = Cardinality(Probing(calls)) + 1
    BY <1>1, <1>7, <2>1, Beginning DEF Breaker!StartProbe
  <2> QED
    BY <1>0, <2>1, <2>2 DEF Goes, Fits
<1>8. ASSUME NEW c \in Calls, NEW o \in {"success", "failure", "excused"},
             Breaker(m, f, h, x)!EndOrdinary(c, o)
      PROVE  Goes(m, f, h, x)
  <2>1. calls[c] = "ordinary"
    BY <1>8 DEF Breaker!EndOrdinary
  <2>2. CASE o = "excused"
    <3>1. calls' = [calls EXCEPT ![c] = "none"] /\ circuit' = circuit /\ samples' = samples
      BY <1>8, <2>2 DEF Breaker!EndOrdinary, Breaker!Ended
    <3> QED
      BY <1>0, <1>1, <2>1, <3>1, Ending DEF Goes, Fits
  <2>3. CASE o # "excused"
    <3>1. Breaker(m, f, h, x)!RecordClosed(o = "failure", Breaker(m, f, h, x)!Ended(c))
      BY <1>8, <2>3 DEF Breaker!EndOrdinary
    <3> QED
      BY <2>1, <3>1, RecordGoes
  <2> QED
    BY <2>2, <2>3
<1>9. ASSUME NEW c \in Calls, Breaker(m, f, h, x)!EndStale(c) PROVE Goes(m, f, h, x)
  <2>1. /\ calls[c] \in {"probe", "stale"} /\ ~(calls[c] = "probe" /\ circuit.state = "half_open")
        /\ calls' = [calls EXCEPT ![c] = "none"] /\ circuit' = circuit /\ samples' = samples
    BY <1>9 DEF Breaker!EndStale, Breaker!Decides, Breaker!Ended
  <2>2. calls[c] # "probe"
    <3>1. circuit.state # "half_open" => Probing(calls) = {}
      BY <1>0, ProbesFinite, FS_EmptySet DEF Fits
    <3> QED
      BY <2>1, <3>1 DEF Probing
  <2> QED
    BY <1>0, <1>1, <2>1, <2>2, Ending DEF Goes, Fits
<1> QED
  BY <1>2, <1>3, <1>4, <1>5, <1>6, <1>7, <1>8, <1>9, ProbeGoes, BreakerGoes
  DEF Breaker!Next, Breaker!Start, Breaker!End, Breaker!Outcomes

\* The two circuits that the run checks.
ProbedInv == BreakerInv(MinimumSamples, FailureThreshold, HalfOpenMaxCalls, MaxSamples)
CircuitInv == BreakerInv(2, 1, 1, 2)

LEMMA ProbedStep ==
  ProbedInv /\ Probed!Next => ProbedInv' /\ Probed!ClosesAfterLastProbe
<1>1. Probed!Next <=> Breaker(MinimumSamples, FailureThreshold, HalfOpenMaxCalls, MaxSamples)!Next
  BY DEF Probed!Next, Probed!CooldownEnds, Probed!SampleAges, Probed!GetState, Probed!Start,
         Probed!End, Probed!StartOrdinary, Probed!StartFirstProbe, Probed!StartProbe,
         Probed!EndOrdinary, Probed!EndProbe, Probed!EndStale, Probed!Decides, Probed!Ended,
         Probed!RecordClosed, Probed!Recorded, Probed!MustOpen, Probed!Failures,
         Probed!Cardinality, Probed!HalfOpens, Probed!Closes, Probed!Opens, Probed!Cooled,
         Probed!NextGeneration, Probed!Outcomes,
         Breaker!Next, Breaker!CooldownEnds, Breaker!SampleAges, Breaker!GetState, Breaker!Start,
         Breaker!End, Breaker!StartOrdinary, Breaker!StartFirstProbe, Breaker!StartProbe,
         Breaker!EndOrdinary, Breaker!EndProbe, Breaker!EndStale, Breaker!Decides, Breaker!Ended,
         Breaker!RecordClosed, Breaker!Recorded, Breaker!MustOpen, Breaker!Failures,
         Breaker!Cardinality, Breaker!HalfOpens, Breaker!Closes, Breaker!Opens, Breaker!Cooled,
         Breaker!NextGeneration, Breaker!Outcomes
<1>2. Probed!ClosesAfterLastProbe <=>
        Breaker(MinimumSamples, FailureThreshold, HalfOpenMaxCalls, MaxSamples)!ClosesAfterLastProbe
  BY DEF Probed!ClosesAfterLastProbe, Breaker!ClosesAfterLastProbe
<1>3. {MinimumSamples, FailureThreshold, HalfOpenMaxCalls, MaxSamples} \subseteq Nat \ {0}
  BY ProcessesAssumption DEF Probed!LimitsAssumption
<1> QED
  BY <1>1, <1>2, <1>3, BreakerStep DEF ProbedInv

LEMMA CircuitStep ==
  CircuitInv /\ Circuit!Next => CircuitInv'
<1>1. Circuit!Next <=> Breaker(2, 1, 1, 2)!Next
  BY DEF Circuit!Next, Circuit!CooldownEnds, Circuit!SampleAges, Circuit!GetState, Circuit!Start,
         Circuit!End, Circuit!StartOrdinary, Circuit!StartFirstProbe, Circuit!StartProbe,
         Circuit!EndOrdinary, Circuit!EndProbe, Circuit!EndStale, Circuit!Decides, Circuit!Ended,
         Circuit!RecordClosed, Circuit!Recorded, Circuit!MustOpen, Circuit!Failures,
         Circuit!Cardinality, Circuit!HalfOpens, Circuit!Closes, Circuit!Opens, Circuit!Cooled,
         Circuit!NextGeneration, Circuit!Outcomes,
         Breaker!Next, Breaker!CooldownEnds, Breaker!SampleAges, Breaker!GetState, Breaker!Start,
         Breaker!End, Breaker!StartOrdinary, Breaker!StartFirstProbe, Breaker!StartProbe,
         Breaker!EndOrdinary, Breaker!EndProbe, Breaker!EndStale, Breaker!Decides, Breaker!Ended,
         Breaker!RecordClosed, Breaker!Recorded, Breaker!MustOpen, Breaker!Failures,
         Breaker!Cardinality, Breaker!HalfOpens, Breaker!Closes, Breaker!Opens, Breaker!Cooled,
         Breaker!NextGeneration, Breaker!Outcomes
<1> QED
  BY <1>1, BreakerStep DEF CircuitInv
-----------------------------------------------------------------------------
(* The shutdown.                                                            *)

\* What has been reported follows from how far run and force have come.
Reported ==
  /\ phase = "running" => run = "tasks" /\ force = "none" /\ exit = "none" /\ ~failed
                          /\ \A t \in Shutdown!Tasks : tasks[t] = "waiting"
  /\ run \in {"first flush", "second flush"} => phase = "completed" /\ exit = "none"
  /\ phase = "completed" => \A t \in Shutdown!Tasks : tasks[t] \in {"done", "failed"}
  /\ ~failed => \A t \in Shutdown!Tasks : tasks[t] # "failed"
  /\ exit \in {"0", "1"} => run = "returned" /\ phase = "completed"
  /\ exit = "0" => ~failed
  /\ exit = "forced 1" => force = "returned"
  /\ force # "none" => phase = "forced"
  /\ phase = "forced" => force # "none"

ShutdownInv == Shutdown!TypeOK /\ Shutdown!TasksRunInOrder /\ Reported

LEMMA ShutdownBegins == Shutdown!Init => ShutdownInv
BY ProcessesAssumption
DEF Shutdown!Init, ShutdownInv, Shutdown!TypeOK, Shutdown!TasksRunInOrder, Reported,
    Shutdown!Tasks, Shutdown!TaskCountAssumption

LEMMA ShutdownSays == ShutdownInv => Shutdown!CleanExitIsClean
BY DEF ShutdownInv, Reported, Shutdown!CleanExitIsClean

LEMMA ShutdownStep ==
  ASSUME ShutdownInv, Shutdown!Next
  PROVE  ShutdownInv' /\ Shutdown!ResultIsFinal
<1>0. TaskCount \in Nat \ {0} /\ Shutdown!Tasks = 1..TaskCount
  BY ProcessesAssumption DEF Shutdown!TaskCountAssumption, Shutdown!Tasks
<1>1. ASSUME Shutdown!RequestShutdown PROVE ShutdownInv' /\ Shutdown!ResultIsFinal
  BY <1>0, <1>1
  DEF ShutdownInv, Shutdown!TypeOK, Shutdown!TasksRunInOrder, Reported, Shutdown!ResultIsFinal,
      Shutdown!RequestShutdown
<1>2. ASSUME Shutdown!Timeout PROVE ShutdownInv' /\ Shutdown!ResultIsFinal
  BY <1>0, <1>2
  DEF ShutdownInv, Shutdown!TypeOK, Shutdown!TasksRunInOrder, Reported, Shutdown!ResultIsFinal,
      Shutdown!Timeout
<1>3. ASSUME Shutdown!ForceGoesOn PROVE ShutdownInv' /\ Shutdown!ResultIsFinal
  BY <1>0, <1>3
  DEF ShutdownInv, Shutdown!TypeOK, Shutdown!TasksRunInOrder, Reported, Shutdown!ResultIsFinal,
      Shutdown!ForceGoesOn, Shutdown!Alive
<1>4. ASSUME Shutdown!Stopped PROVE ShutdownInv' /\ Shutdown!ResultIsFinal
  BY <1>0, <1>4
  DEF ShutdownInv, Shutdown!TypeOK, Shutdown!TasksRunInOrder, Reported, Shutdown!ResultIsFinal,
      Shutdown!Stopped, Shutdown!vars
<1>5. ASSUME NEW succeeds \in BOOLEAN, Shutdown!FlushEnds(succeeds)
      PROVE  ShutdownInv' /\ Shutdown!ResultIsFinal
  BY <1>0, <1>5
  DEF ShutdownInv, Shutdown!TypeOK, Shutdown!TasksRunInOrder, Reported, Shutdown!ResultIsFinal,
      Shutdown!FlushEnds, Shutdown!Alive
<1>6. ASSUME NEW t \in Shutdown!Tasks, Shutdown!TaskSucceeds(t) \/ Shutdown!TaskFails(t)
      PROVE  ShutdownInv' /\ Shutdown!ResultIsFinal
  <2>1. /\ tasks[t] = "running" /\ force' = force /\ exit' = exit
        /\ failed' \in BOOLEAN /\ (failed => failed')
    BY <1>6 DEF ShutdownInv, Shutdown!TypeOK, Shutdown!TaskSucceeds, Shutdown!TaskFails
  <2>2. /\ phase \in {"shutting_down", "forced"} /\ run \notin {"first flush", "second flush"}
        /\ phase = "shutting_down" => exit = "none"
    BY <1>0, <2>1 DEF ShutdownInv, Shutdown!TypeOK, Reported
  <2> DEFINE Becomes(ended) ==
        \/ /\ t < TaskCount /\ tasks' = [tasks EXCEPT ![t] = ended, ![t + 1] = "running"]
           /\ phase' = phase /\ run' = run
        \/ /\ t = TaskCount /\ tasks' = [tasks EXCEPT ![t] = ended]
           /\ phase = "shutting_down" /\ phase' = "completed" /\ run' = "first flush"
        \/ /\ tasks' = [tasks EXCEPT ![t] = ended]
           /\ phase # "shutting_down" /\ phase' = phase /\ run' = "returned"
  <2>3. PICK ended \in {"done", "failed"} : Becomes(ended) /\ (ended = "failed" => failed')
    <3>0. t = TaskCount \/ t < TaskCount
      BY <1>0
    <3>1. \A ended : Shutdown!GoOn(t, ended) => Becomes(ended)
      BY <3>0 DEF Shutdown!GoOn
    <3>2. CASE Shutdown!TaskFails(t)
      BY <3>1, <3>2 DEF Shutdown!TaskFails
    <3>3. CASE Shutdown!TaskSucceeds(t)
      BY <3>1, <3>3 DEF Shutdown!TaskSucceeds
    <3> QED
      BY <1>6, <3>2, <3>3
  <2>4. \A u \in Shutdown!Tasks : (u < t => tasks[u] \in {"done", "failed"})
                                 /\ (u > t => tasks[u] = "waiting")
    BY <1>0, <2>1 DEF ShutdownInv, Shutdown!TypeOK, Shutdown!TasksRunInOrder
  <2>5. /\ tasks'[t] = ended
        /\ \A u \in Shutdown!Tasks :
             /\ u < t => tasks'[u] = tasks[u]
             /\ u > t => tasks'[u] \in {"running", "waiting"}
             /\ u > t + 1 => tasks'[u] = "waiting"
    <3>0. tasks \in [Shutdown!Tasks -> {"waiting", "running", "done", "failed"}]
      BY DEF ShutdownInv, Shutdown!TypeOK
    <3>1. t \in Nat /\ \A u \in Shutdown!Tasks : u \in Nat
      BY <1>0
    <3>2. CASE tasks' = [tasks EXCEPT ![t] = ended]
      BY <2>4, <3>0, <3>1, <3>2
    <3>3. CASE t < TaskCount /\ tasks' = [tasks EXCEPT ![t] = ended, ![t + 1] = "running"]
      <4>1. t + 1 \in Shutdown!Tasks
        BY <1>0, <3>3
      <4> QED
        BY <2>4, <3>0, <3>1, <3>3, <4>1
    <3> QED
      BY <2>3, <3>2, <3>3
  <2>6. Shutdown!TypeOK'
    BY <1>0, <2>1, <2>3 DEF ShutdownInv, Shutdown!TypeOK
  <2>7. Shutdown!TasksRunInOrder'
    <3>1. SUFFICES ASSUME NEW a \in Shutdown!Tasks, NEW b \in Shutdown!Tasks, a < b,
                          tasks'[b] # "waiting"
                   PROVE  tasks'[a] \in {"done", "failed"}
      BY DEF Shutdown!TasksRunInOrder
    <3>2. a \in Nat /\ b \in Nat /\ t \in Nat
      BY <1>0
    <3>3. b <= t + 1
      BY <2>5, <3>1, <3>2
    <3>4. a = t \/ a < t
      BY <3>1, <3>2, <3>3
    <3> QED
      BY <2>4, <2>5, <3>4
  <2>8. Reported'
    <3>1. \A u \in Shutdown!Tasks : tasks'[u] = "failed" => failed'
      <4>1. \A u \in Shutdown!Tasks : u < t \/ u = t \/ u > t
        BY <1>0
      <4>2. \A u \in Shutdown!Tasks : tasks[u] = "failed" => failed
        BY DEF ShutdownInv, Reported
      <4> QED
        BY <2>1, <2>3, <2>5, <4>1, <4>2
    <3>2. t = TaskCount => \A u \in Shutdown!Tasks : tasks'[u] \in {"done", "failed"}
      <4>1. t = TaskCount => \A u \in Shutdown!Tasks : u < t \/ u = t
        BY <1>0
      <4> QED
        BY <2>4, <2>5, <4>1
    <3>3. phase' # "running" /\ (phase' = "completed" => t = TaskCount /\ run' = "first flush" /\ exit = "none")
      BY <2>2, <2>3
    <3>4. phase' = "forced" <=> phase = "forced"
      BY <2>2, <2>3
    <3>5. run' = run \/ run' = "returned" \/ (run' = "first flush" /\ phase' = "completed")
      BY <2>3
    <3>6. /\ force # "none" <=> phase = "forced"
          /\ exit \in {"0", "1"} => phase = "completed"
          /\ exit = "forced 1" => force = "returned"
      BY DEF ShutdownInv, Reported
    <3> QED
      BY <2>1, <2>2, <3>1, <3>2, <3>3, <3>4, <3>5, <3>6 DEF Reported
  <2> QED
    BY <2>1, <2>6, <2>7, <2>8 DEF ShutdownInv, Shutdown!ResultIsFinal
<1> QED
  BY <1>1, <1>2, <1>3, <1>4, <1>5, <1>6 DEF Shutdown!Next
-----------------------------------------------------------------------------
(* The progress events.                                                     *)

\* What was read of the job is a row of it.
ReadsRows ==
  /\ \A s \in Streams : streams[s].at \in {"read", "subscribed"} => streams[s].job \in 1..LastRow
  /\ \A p \in Polls : polls[p].at = "read" => polls[p].job \in 1..LastRow

EventsInv ==
  Events!TypeOK /\ ReadsRows /\ Events!ObservedWhileHeard /\ Events!PollingEnds

LEMMA RowsAssumed ==
  LastRow \in Nat \ {0} /\ Events!Rows = 1..LastRow /\ 1..LastRow \subseteq 0..LastRow
BY ProcessesAssumption DEF Events!RowsAssumption, Events!Rows

LEMMA EventsBegin == Events!Init => EventsInv
<1> SUFFICES ASSUME Events!Init PROVE EventsInv
  OBVIOUS
<1>1. /\ latest = 1 /\ observation = [row |-> 0, polling |-> FALSE]
      /\ streams = [s \in Streams |-> [at |-> "idle", job |-> 0, queue |-> <<>>, behind |-> FALSE]]
      /\ polls = [p \in Polls |-> [at |-> "idle", job |-> 0, dropped |-> 0]]
  BY DEF Events!Init, Events!NoObservation, Events!NoStream, Events!NoPoll
<1>2. 1 \in 1..LastRow /\ 0 \in 0..LastRow /\ <<>> \in Seq(1..LastRow)
  BY RowsAssumed
<1>3. Events!TypeOK
  BY <1>1, <1>2, RowsAssumed DEF Events!TypeOK, Events!Stream, Events!Poll
<1> QED
  BY <1>1, <1>3 DEF EventsInv, ReadsRows, Events!ObservedWhileHeard, Events!PollingEnds,
                    Events!Subscribed

\* A stream that ends.
LEMMA RemoveStep ==
  ASSUME EventsInv, NEW s \in Streams, Events!Subscribed(s), Events!Remove(s)
  PROVE  EventsInv'
<1>0. /\ observation \in [row: 0..LastRow, polling: BOOLEAN]
      /\ streams \in [Streams -> Events!Stream] /\ polls \in [Polls -> Events!Poll]
      /\ latest \in 1..LastRow
  BY RowsAssumed DEF EventsInv, Events!TypeOK
<1> DEFINE gone == [Events!NoStream EXCEPT !.at = "closed"]
<1>1. streams' = [streams EXCEPT ![s] = gone] /\ latest' = latest
  BY DEF Events!Remove
<1>2. gone \in Events!Stream /\ gone.at = "closed" /\ 0 \in 0..LastRow
  <2>1. <<>> \in Seq(1..LastRow) /\ 0 \in 0..LastRow
    BY RowsAssumed
  <2>2. Events!NoStream \in Events!Stream
    BY <2>1, RowsAssumed DEF Events!NoStream, Events!Stream
  <2>3. gone \in Events!Stream /\ gone.at = "closed"
    BY <2>2 DEF Events!Stream
  <2> QED
    BY <2>1, <2>3
<1> HIDE DEF gone
<1>3. /\ streams' \in [Streams -> Events!Stream]
      /\ \A t \in Streams : /\ t # s => streams'[t] = streams[t]
                            /\ streams'[s].at = "closed"
  BY <1>0, <1>1, <1>2
<1>4. CASE \E t \in Streams \ {s} : Events!Subscribed(t)
  <2>1. observation' = observation /\ polls' = polls
    BY <1>4 DEF Events!Remove
  <2>2. Events!TypeOK' /\ ReadsRows' /\ Events!PollingEnds'
    BY <1>0, <1>1, <1>3, <2>1, RowsAssumed
    DEF EventsInv, Events!TypeOK, ReadsRows, Events!PollingEnds
  <2>3. Events!ObservedWhileHeard'
    BY <1>3, <1>4, <2>1 DEF EventsInv, Events!ObservedWhileHeard, Events!Subscribed
  <2> QED
    BY <2>2, <2>3 DEF EventsInv
<1>5. CASE ~\E t \in Streams \ {s} : Events!Subscribed(t)
  <2>1. /\ observation' = [row |-> 0, polling |-> FALSE]
        /\ polls' = [p \in Polls |->
               IF polls[p].at # "idle" /\ polls[p].dropped = 0
               THEN [polls[p] EXCEPT !.dropped = observation.row] ELSE polls[p]]
    BY <1>5 DEF Events!Remove, Events!NoObservation
  <2>2. /\ polls' \in [Polls -> Events!Poll]
        /\ \A p \in Polls : polls'[p].at = polls[p].at /\ polls'[p].job = polls[p].job
    BY <1>0, <2>1 DEF Events!Poll
  <2>3. Events!TypeOK' /\ ReadsRows' /\ Events!PollingEnds'
    BY <1>0, <1>1, <1>2, <1>3, <2>1, <2>2, RowsAssumed
    DEF EventsInv, Events!TypeOK, ReadsRows, Events!PollingEnds
  <2>4. Events!ObservedWhileHeard'
    BY <1>3, <1>5, <2>1 DEF Events!ObservedWhileHeard, Events!Subscribed
  <2> QED
    BY <2>3, <2>4 DEF EventsInv
<1> QED
  BY <1>4, <1>5

LEMMA StreamStep ==
  ASSUME EventsInv, NEW s \in Streams,
         Events!Open(s) \/ Events!ReadJob(s) \/ Events!Subscribe(s) \/ Events!Deliver(s)
           \/ Events!Disconnect(s)
  PROVE  EventsInv'
<1>0. /\ observation \in [row: 0..LastRow, polling: BOOLEAN]
      /\ streams \in [Streams -> Events!Stream] /\ polls \in [Polls -> Events!Poll]
      /\ latest \in 1..LastRow
  BY RowsAssumed DEF EventsInv, Events!TypeOK
<1>1. ASSUME Events!Open(s) \/ Events!ReadJob(s) PROVE EventsInv'
  <2>1. /\ latest' = latest /\ observation' = observation /\ polls' = polls
        /\ streams'[s].at \in {"asked", "read"} /\ streams[s].at \in {"idle", "asked"}
        /\ streams'[s].at = "read" => streams'[s].job \in 1..LastRow
        /\ streams' \in [Streams -> Events!Stream]
        /\ \A t \in Streams : t # s => streams'[t] = streams[t]
    <3>1. streams[s] \in Events!Stream
      BY <1>0
    <3>2. /\ [streams[s] EXCEPT !.at = "asked"] \in Events!Stream
          /\ [streams[s] EXCEPT !.at = "read", !.job = latest] \in Events!Stream
      BY <1>0, <3>1, RowsAssumed DEF Events!Stream
    <3>3. CASE Events!Open(s)
      <4>1. /\ streams' = [streams EXCEPT ![s] = [streams[s] EXCEPT !.at = "asked"]]
            /\ streams[s].at = "idle" /\ UNCHANGED <<latest, observation, polls>>
        BY <3>3 DEF Events!Open
      <4> QED
        BY <1>0, <3>1, <3>2, <4>1 DEF Events!Stream
    <3>4. CASE Events!ReadJob(s)
      <4>1. /\ streams' = [streams EXCEPT ![s] =
                             [streams[s] EXCEPT !.at = "read", !.job = latest]]
            /\ streams[s].at = "asked" /\ UNCHANGED <<latest, observation, polls>>
        BY <3>4 DEF Events!ReadJob
      <4> QED
        BY <1>0, <3>1, <3>2, <4>1 DEF Events!Stream
    <3> QED
      BY <1>1, <3>3, <3>4
  <2>2. \A t \in Streams : Events!Subscribed(t)' <=> Events!Subscribed(t)
    BY <2>1 DEF Events!Subscribed
  <2> QED
    BY <2>1, <2>2, RowsAssumed
    DEF EventsInv, Events!TypeOK, ReadsRows, Events!PollingEnds, Events!ObservedWhileHeard
<1>2. ASSUME Events!Subscribe(s) PROVE EventsInv'
  <2> DEFINE job == streams[s].job
  <2>1. job \in 1..LastRow /\ streams[s] \in Events!Stream
    BY <1>0, <1>2 DEF EventsInv, ReadsRows, Events!Subscribe
  <2>2. <<job>> \in Seq(1..LastRow) /\ job # 0 /\ job \in 0..LastRow
    BY <2>1, RowsAssumed
  <2>3. /\ streams'[s].at = "subscribed" /\ streams'[s].job = job
        /\ streams' \in [Streams -> Events!Stream]
        /\ \A t \in Streams : t # s => streams'[t] = streams[t]
        /\ latest' = latest /\ polls' = polls
    <3>1. PICK b \in BOOLEAN : streams' = [streams EXCEPT ![s] =
            [at |-> "subscribed", job |-> job, queue |-> <<job>>, behind |-> b]]
      BY <1>2 DEF Events!Subscribe
    <3>2. [at |-> "subscribed", job |-> job, queue |-> <<job>>, behind |-> b] \in Events!Stream
      BY <2>2, RowsAssumed DEF Events!Stream
    <3> QED
      BY <1>0, <1>2, <3>1, <3>2 DEF Events!Subscribe
  <2>4. /\ observation' \in [row: 0..LastRow, polling: BOOLEAN] /\ observation'.row # 0
        /\ observation'.polling => observation.polling
    BY <1>0, <1>2, <2>2 DEF Events!Subscribe
  <2>5. Events!TypeOK' /\ ReadsRows' /\ Events!PollingEnds'
    BY <1>0, <2>1, <2>3, <2>4, RowsAssumed
    DEF EventsInv, Events!TypeOK, ReadsRows, Events!PollingEnds
  <2>6. Events!ObservedWhileHeard'
    BY <2>3, <2>4 DEF Events!ObservedWhileHeard, Events!Subscribed
  <2> QED
    BY <2>5, <2>6 DEF EventsInv
<1>3. ASSUME Events!Deliver(s) PROVE EventsInv'
  <2>1. CASE Events!Remove(s)
    BY <1>3, <2>1, RemoveStep DEF Events!Deliver
  <2>2. CASE streams' = [streams EXCEPT ![s].queue = Tail(@)]
             /\ UNCHANGED <<latest, observation, polls>>
    <3>1. streams[s].queue \in Seq(1..LastRow) /\ streams[s].queue # <<>>
      BY <1>0, <1>3, RowsAssumed DEF Events!Stream, Events!Deliver
    <3>2. Tail(streams[s].queue) \in Seq(1..LastRow)
      BY <3>1, HeadTailProperties
    <3>3. /\ streams' \in [Streams -> Events!Stream]
          /\ \A t \in Streams : streams'[t].at = streams[t].at /\ streams'[t].job = streams[t].job
      <4> DEFINE told == [streams[s] EXCEPT !.queue = Tail(@)]
      <4>1. streams[s] \in Events!Stream
        BY <1>0
      <4>2. told \in Events!Stream /\ told.at = streams[s].at /\ told.job = streams[s].job
        BY <3>2, <4>1, RowsAssumed DEF Events!Stream
      <4>3. streams' = [streams EXCEPT ![s] = told]
        BY <2>2
      <4> HIDE DEF told
      <4> QED
        BY <1>0, <4>2, <4>3
    <3> QED
      BY <2>2, <3>3, RowsAssumed
      DEF EventsInv, Events!TypeOK, ReadsRows, Events!PollingEnds, Events!ObservedWhileHeard,
          Events!Subscribed
  <2> QED
    BY <1>3, <2>1, <2>2 DEF Events!Deliver
<1>4. ASSUME Events!Disconnect(s) PROVE EventsInv'
  BY <1>4, RemoveStep DEF Events!Disconnect
<1> QED
  BY <1>1, <1>2, <1>3, <1>4

LEMMA PublishStep ==
  ASSUME Events!TypeOK, NEW job \in 1..LastRow, Events!Publish(job)
  PROVE  /\ streams' \in [Streams -> Events!Stream]
         /\ \A s \in Streams : streams'[s].at = streams[s].at /\ streams'[s].job = streams[s].job
<1>1. ASSUME NEW s \in Streams
      PROVE  /\ streams'[s] \in Events!Stream
             /\ streams'[s].at = streams[s].at /\ streams'[s].job = streams[s].job
  <2> DEFINE told == [streams[s] EXCEPT !.queue = Append(@, job)]
  <2>1. streams[s] \in Events!Stream
    BY DEF Events!TypeOK
  <2>2. streams[s].queue \in Seq(1..LastRow)
    BY <2>1, RowsAssumed DEF Events!Stream
  <2>3. Append(streams[s].queue, job) \in Seq(1..LastRow)
    BY <2>2, AppendProperties
  <2>4. told \in Events!Stream /\ told.at = streams[s].at /\ told.job = streams[s].job
    BY <2>1, <2>3, RowsAssumed DEF Events!Stream
  <2>5. streams'[s] = told \/ streams'[s] = streams[s]
    BY DEF Events!Publish
  <2> QED
    BY <2>1, <2>4, <2>5
<1>2. streams' = [s \in Streams |-> streams'[s]]
  BY DEF Events!Publish
<1> QED
  BY <1>1, <1>2

LEMMA PollStep ==
  ASSUME EventsInv, NEW p \in Polls,
         Events!StartPoll(p) \/ Events!PollReads(p) \/ Events!PollAnswers(p) \/ Events!PollFails(p)
  PROVE  EventsInv'
<1>0. /\ observation \in [row: 0..LastRow, polling: BOOLEAN]
      /\ streams \in [Streams -> Events!Stream] /\ polls \in [Polls -> Events!Poll]
      /\ latest \in 1..LastRow /\ polls[p] \in Events!Poll
  BY RowsAssumed DEF EventsInv, Events!TypeOK
<1>1. /\ Events!NoPoll \in Events!Poll /\ [at |-> "asked", job |-> 0, dropped |-> 0] \in Events!Poll
      /\ Events!NoPoll.at = "idle"
  BY RowsAssumed DEF Events!NoPoll, Events!Poll
<1>2. ASSUME Events!StartPoll(p) PROVE EventsInv'
  <2>1. /\ observation' = [observation EXCEPT !.polling = TRUE]
        /\ polls' = [polls EXCEPT ![p] = [at |-> "asked", job |-> 0, dropped |-> 0]]
        /\ latest' = latest /\ streams' = streams
    BY <1>2 DEF Events!StartPoll
  <2>2. Events!TypeOK' /\ ReadsRows'
    BY <1>0, <1>1, <2>1, RowsAssumed DEF EventsInv, Events!TypeOK, ReadsRows
  <2>3. Events!ObservedWhileHeard' /\ Events!PollingEnds'
    BY <1>0, <2>1
    DEF EventsInv, Events!ObservedWhileHeard, Events!PollingEnds, Events!Subscribed
  <2> QED
    BY <2>2, <2>3 DEF EventsInv
<1>3. ASSUME Events!PollReads(p) PROVE EventsInv'
  <2> DEFINE reads == [polls[p] EXCEPT !.at = "read", !.job = latest]
  <2>1. /\ polls' = [polls EXCEPT ![p] = reads]
        /\ latest' = latest /\ streams' = streams /\ observation' = observation
    BY <1>3 DEF Events!PollReads
  <2>2. reads \in Events!Poll /\ reads.at = "read" /\ reads.job \in 1..LastRow
    BY <1>0, RowsAssumed DEF Events!Poll
  <2> HIDE DEF reads
  <2>3. Events!TypeOK' /\ ReadsRows' /\ Events!PollingEnds'
    BY <1>0, <2>1, <2>2, RowsAssumed
    DEF EventsInv, Events!TypeOK, ReadsRows, Events!PollingEnds
  <2>4. Events!ObservedWhileHeard'
    BY <2>1 DEF EventsInv, Events!ObservedWhileHeard, Events!Subscribed
  <2> QED
    BY <2>3, <2>4 DEF EventsInv
<1>4. ASSUME Events!PollAnswers(p) \/ Events!PollFails(p) PROVE EventsInv'
  <2>1. polls' = [polls EXCEPT ![p] = Events!NoPoll] /\ latest' = latest
    BY <1>4 DEF Events!PollAnswers, Events!PollFails
  <2>2. polls' \in [Polls -> Events!Poll]
        /\ \A q \in Polls : polls'[q].at = "read" => polls'[q].job \in 1..LastRow
    BY <1>0, <1>1, <2>1 DEF EventsInv, ReadsRows
  <2>3. /\ observation' \in [row: 0..LastRow, polling: BOOLEAN] /\ ~observation'.polling
        /\ observation'.row = 0 <=> observation.row = 0
        /\ streams' \in [Streams -> Events!Stream]
        /\ \A s \in Streams : streams'[s].at = streams[s].at /\ streams'[s].job = streams[s].job
    <3>1. CASE observation' = [observation EXCEPT !.polling = FALSE] /\ UNCHANGED streams
      BY <1>0, <3>1
    <3>2. CASE Events!PollAnswers(p) /\ observation.row # 0 /\ Events!Publish(polls[p].job)
      <4>1. polls[p].job \in 1..LastRow
        BY <3>2 DEF EventsInv, ReadsRows, Events!PollAnswers
      <4>2. observation' = [row |-> polls[p].job, polling |-> FALSE] /\ polls[p].job # 0
            /\ polls[p].job \in 0..LastRow
        BY <3>2, <4>1, RowsAssumed DEF Events!Publish
      <4>3. observation' \in [row: 0..LastRow, polling: BOOLEAN] /\ ~observation'.polling
            /\ (observation'.row = 0 <=> observation.row = 0)
        BY <3>2, <4>2
      <4> QED
        BY <3>2, <4>1, <4>3, PublishStep DEF EventsInv
    <3> QED
      BY <1>4, <3>1, <3>2 DEF Events!PollAnswers, Events!PollFails
  <2>4. Events!TypeOK' /\ ReadsRows' /\ Events!PollingEnds'
    BY <1>0, <2>1, <2>2, <2>3, RowsAssumed
    DEF EventsInv, Events!TypeOK, ReadsRows, Events!PollingEnds
  <2>5. Events!ObservedWhileHeard'
    BY <2>3 DEF EventsInv, Events!ObservedWhileHeard, Events!Subscribed
  <2> QED
    BY <2>4, <2>5 DEF EventsInv
<1> QED
  BY <1>2, <1>3, <1>4

LEMMA EventsStep == EventsInv /\ Events!Next => EventsInv'
<1> SUFFICES ASSUME EventsInv, Events!Next PROVE EventsInv'
  OBVIOUS
<1>1. ASSUME Events!JobAdvances PROVE EventsInv'
  <2>1. latest' \in 1..LastRow
    BY <1>1, RowsAssumed DEF EventsInv, Events!TypeOK, Events!JobAdvances
  <2> QED
    BY <1>1, <2>1, RowsAssumed
    DEF EventsInv, Events!TypeOK, ReadsRows, Events!PollingEnds, Events!ObservedWhileHeard,
        Events!Subscribed, Events!JobAdvances
<1>2. ASSUME Events!Settled PROVE EventsInv'
  BY <1>2
  DEF EventsInv, Events!TypeOK, ReadsRows, Events!PollingEnds, Events!ObservedWhileHeard,
      Events!Subscribed, Events!Settled, Events!vars
<1> QED
  BY <1>1, <1>2, StreamStep, PollStep DEF Events!Next
-----------------------------------------------------------------------------
(* The request and its deadline.                                            *)

\* An attempt is one of those allowed, a loop that sleeps has another one left, it has
\* not begun while the handler runs, and a request that has ended is answered.
Attempts ==
  /\ retry.phase = "attempting" => retry.attempt \in 1..MaxAttempts
  /\ retry.phase = "sleeping" => retry.attempt \in 1..(MaxAttempts - 1)
  /\ handler = "running" => retry.phase = "idle"
  /\ request # "open" => sent # "none"

DeadlineInv ==
  Deadline!TypeOK /\ Attempts /\ Deadline!SleepsWithinDeadline /\ Deadline!DisconnectIsNoTimeout

DeadlineSays == Deadline!NoLateAttempt /\ Deadline!FirstResponseStands

LEMMA DeadlineAssumed ==
  /\ RequestTimeout \in Nat /\ CallTimeout \in Nat \ {0} /\ MaxAttempts \in Nat \ {0}
  /\ Horizon \in Nat
  /\ \A n \in 1..MaxAttempts : \A d \in Delays[n] : d \in Nat
BY ProcessesAssumption DEF Deadline!DeadlineAssumption

LEMMA DeadlineBegins == Deadline!Init => DeadlineInv
BY DeadlineAssumed
DEF Deadline!Init, DeadlineInv, Deadline!TypeOK, Deadline!Signals, Deadline!Ends, Attempts,
    Deadline!SleepsWithinDeadline, Deadline!DisconnectIsNoTimeout

\* What is left of the call.
LEMMA Left ==
  ASSUME now \in Nat, call.ends \in Nat
  PROVE  Deadline!Remaining \in Nat /\ (Deadline!Remaining > 0 => now + Deadline!Remaining = call.ends)
BY DEF Deadline!Remaining

LEMMA Share ==
  ASSUME NEW n \in Nat, NEW left \in Nat, NEW parts \in Nat \ {0}
  PROVE  n + Deadline!Most(1, left \div parts) \in Nat
BY DEF Deadline!Most

\* How the loop goes on: what it keeps to, and when it may attempt again.
LoopOK(loop, ends, signal) ==
  /\ loop \in [phase: {"idle", "attempting", "sleeping"} \union Deadline!Ends,
               attempt: 0..MaxAttempts, until: Nat]
  /\ loop.phase = "attempting" => loop.attempt \in 1..MaxAttempts
  /\ loop.phase = "sleeping" => loop.attempt \in 1..(MaxAttempts - 1)
                                /\ loop.until < ends /\ signal = "open"

LEMMA LoopKept ==
  ASSUME DeadlineInv, now' \in 0..Horizon, request' \in Deadline!Signals,
         call' \in [signal: Deadline!Signals, ends: Nat], LoopOK(retry', call'.ends, call'.signal),
         handler' \in {"waiting", "ended"} \/ (handler' = "running" /\ retry'.phase = "idle"),
         sent' \in {"none", "ok", "error", "timeout"},
         request' # "open" => sent' # "none",
         request' = "disconnected" => sent' # "timeout"
  PROVE  DeadlineInv'
BY DEF DeadlineInv, Deadline!TypeOK, Deadline!Signals, Deadline!Ends, Attempts, LoopOK,
       Deadline!SleepsWithinDeadline, Deadline!DisconnectIsNoTimeout

LEMMA LoopNow ==
  ASSUME DeadlineInv
  PROVE  /\ now \in 0..Horizon /\ now \in Nat /\ request \in Deadline!Signals
         /\ call \in [signal: Deadline!Signals, ends: Nat]
         /\ LoopOK(retry, call.ends, call.signal)
         /\ handler \in {"running", "waiting", "ended"}
         /\ handler = "running" => retry.phase = "idle"
         /\ sent \in {"none", "ok", "error", "timeout"}
         /\ request # "open" => sent # "none"
         /\ request = "disconnected" => sent # "timeout"
BY DeadlineAssumed
DEF DeadlineInv, Deadline!TypeOK, Deadline!Signals, Deadline!Ends, Attempts, LoopOK,
    Deadline!SleepsWithinDeadline, Deadline!DisconnectIsNoTimeout

\* The loop ends.
LEMMA Ends ==
  ASSUME NEW ends, NEW signal, LoopOK(retry, ends, signal), NEW how \in Deadline!Ends,
         Deadline!End(how), NEW after, NEW noticed
  PROVE  LoopOK(retry', after, noticed) /\ retry'.attempt = retry.attempt
         /\ retry'.phase \in Deadline!Ends
BY DEF LoopOK, Deadline!End, Deadline!Ends

\* An abort ends a sleep and leaves an attempt.
LEMMA Aborts ==
  ASSUME DeadlineInv, NEW why \in {"expired", "disconnected"}, Deadline!AbortCall(why)
  PROVE  /\ call' \in [signal: Deadline!Signals, ends: Nat]
         /\ LoopOK(retry', call'.ends, call'.signal) /\ retry'.attempt = retry.attempt
         /\ handler = "running" => retry'.phase = "idle"
<1>1. /\ call \in [signal: Deadline!Signals, ends: Nat]
      /\ LoopOK(retry, call.ends, call.signal)
      /\ handler = "running" => retry.phase = "idle"
  BY LoopNow
<1>2. call' \in [signal: Deadline!Signals, ends: Nat] /\ call'.ends = call.ends
  BY <1>1 DEF Deadline!AbortCall, Deadline!Signals
<1>3. why \in Deadline!Ends
  BY DEF Deadline!Ends
<1>4. CASE retry.phase = "sleeping"
  <2>1. Deadline!End(why)
    BY <1>1, <1>4 DEF Deadline!AbortCall, LoopOK
  <2> QED
    BY <1>1, <1>2, <1>3, <1>4, <2>1, Ends
<1>5. CASE retry.phase # "sleeping"
  BY <1>1, <1>2, <1>5 DEF Deadline!AbortCall, LoopOK
<1> QED
  BY <1>4, <1>5

LEMMA DeadlineStep ==
  ASSUME DeadlineInv, Deadline!Next
  PROVE  DeadlineInv' /\ DeadlineSays
<1> USE DEF DeadlineSays, Deadline!NoLateAttempt, Deadline!FirstResponseStands
<1>0. /\ now \in 0..Horizon /\ now \in Nat /\ request \in Deadline!Signals
      /\ call \in [signal: Deadline!Signals, ends: Nat]
      /\ LoopOK(retry, call.ends, call.signal)
      /\ handler \in {"running", "waiting", "ended"}
      /\ handler = "running" => retry.phase = "idle"
      /\ sent \in {"none", "ok", "error", "timeout"}
      /\ request # "open" => sent # "none"
      /\ request = "disconnected" => sent # "timeout"
  BY LoopNow
<1>1. /\ Deadline!Remaining \in Nat
      /\ Deadline!Remaining > 0 => now + Deadline!Remaining = call.ends
  BY <1>0, Left
<1>2. /\ {"succeeded", "failed", "expired", "disconnected"} = Deadline!Ends
      /\ Deadline!Signals = {"open", "expired", "disconnected"}
  BY DEF Deadline!Ends, Deadline!Signals
<1>3. CASE Deadline!Tick
  <2>1. now' \in 0..Horizon
    BY <1>0, <1>3, DeadlineAssumed DEF Deadline!Tick
  <2> QED
    BY <1>0, <1>3, <2>1, LoopKept DEF Deadline!Tick
<1>4. CASE Deadline!StartCall
  <2>1. /\ handler = "running" /\ handler' = "waiting" /\ UNCHANGED <<now, request, sent>>
        /\ call' = [signal |-> request, ends |-> now + CallTimeout]
        /\ retry' = IF request # "open" THEN [retry EXCEPT !.phase = request]
                    ELSE [phase |-> "attempting", attempt |-> 1,
                          until |-> now + Deadline!Most(1, (call'.ends - now) \div MaxAttempts)]
    BY <1>4 DEF Deadline!StartCall
  <2>2. call' \in [signal: Deadline!Signals, ends: Nat] /\ call'.ends - now \in Nat
    BY <1>0, <2>1, DeadlineAssumed
  <2>3. LoopOK(retry', call'.ends, call'.signal) /\ ~(retry'.attempt > 1 /\ retry'.attempt # retry.attempt)
    <3>1. CASE request # "open"
      <4>1. request \in Deadline!Ends /\ Deadline!End(request)
        BY <1>0, <1>2, <2>1, <3>1 DEF Deadline!End
      <4> QED
        BY <1>0, <4>1, Ends
    <3>2. CASE request = "open"
      <4>1. now + Deadline!Most(1, (call'.ends - now) \div MaxAttempts) \in Nat
        BY <1>0, <2>2, DeadlineAssumed, Share
      <4> QED
        BY <2>1, <3>2, <4>1, DeadlineAssumed DEF LoopOK
    <3> QED
      BY <3>1, <3>2
  <2> QED
    BY <1>0, <2>1, <2>2, <2>3, LoopKept
<1>5. CASE Deadline!Succeed
  <2>1. Deadline!End("succeeded") /\ UNCHANGED <<now, request, call, handler, sent>>
        /\ retry.phase = "attempting"
    BY <1>5 DEF Deadline!Succeed
  <2> QED
    BY <1>0, <1>2, <2>1, Ends, LoopKept
<1>6. CASE Deadline!FailAttempt
  <2>1. UNCHANGED <<now, request, call, handler, sent>> /\ retry.phase = "attempting"
    BY <1>6 DEF Deadline!FailAttempt
  <2>2. retry.attempt \in 1..MaxAttempts
    BY <1>0, <2>1 DEF LoopOK
  <2>3. LoopOK(retry', call.ends, call.signal) /\ retry'.attempt = retry.attempt
    <3>1. CASE \E how \in Deadline!Ends : Deadline!End(how)
      BY <1>0, <3>1, Ends
    <3>2. ASSUME NEW d \in Nat, retry.attempt < MaxAttempts, d < Deadline!Remaining,
                 call.signal = "open",
                 retry' = [retry EXCEPT !.phase = "sleeping", !.until = now + d]
          PROVE  LoopOK(retry', call.ends, call.signal) /\ retry'.attempt = retry.attempt
      <4>1. now + d \in Nat /\ now + d < call.ends /\ retry.attempt \in 1..(MaxAttempts - 1)
        BY <1>0, <1>1, <2>2, <3>2, DeadlineAssumed
      <4> QED
        BY <1>0, <3>2, <4>1 DEF LoopOK
    <3>3. (\E how \in Deadline!Ends : Deadline!End(how)) \/
          \E d \in Nat : /\ retry.attempt < MaxAttempts /\ d < Deadline!Remaining
                         /\ call.signal = "open"
                         /\ retry' = [retry EXCEPT !.phase = "sleeping", !.until = now + d]
      <4>1. ASSUME NEW d \in Delays[retry.attempt], retry.attempt < MaxAttempts,
                   IF call.signal # "open" /\ d < Deadline!Remaining
                   THEN Deadline!End(call.signal) ELSE Deadline!SleepOrEnd(d)
            PROVE  (\E how \in Deadline!Ends : Deadline!End(how)) \/
                   /\ d \in Nat /\ d < Deadline!Remaining /\ call.signal = "open"
                   /\ retry' = [retry EXCEPT !.phase = "sleeping", !.until = now + d]
        <5>1. d \in Nat
          BY <2>2, DeadlineAssumed
        <5>2. CASE d >= Deadline!Remaining
          BY <1>1, <1>2, <4>1, <5>1, <5>2 DEF Deadline!SleepOrEnd
        <5>3. CASE d < Deadline!Remaining /\ call.signal # "open"
          BY <1>0, <1>2, <4>1, <5>3
        <5>4. CASE d < Deadline!Remaining /\ call.signal = "open"
          BY <1>1, <4>1, <5>1, <5>4 DEF Deadline!SleepOrEnd
        <5> QED
          BY <1>1, <5>1, <5>2, <5>3, <5>4
      <4> QED
        BY <1>2, <1>6, <4>1 DEF Deadline!FailAttempt
    <3> QED
      BY <3>1, <3>2, <3>3
  <2> QED
    BY <1>0, <2>1, <2>3, LoopKept
<1>7. CASE Deadline!Wake
  <2>1. /\ retry.phase = "sleeping" /\ UNCHANGED <<now, request, handler, sent>>
        /\ Deadline!BeginAttempt(call.signal)
        /\ call' = IF Deadline!Remaining = 0 /\ call.signal = "open"
                   THEN [call EXCEPT !.signal = "expired"] ELSE call
    BY <1>7 DEF Deadline!Wake
  <2>2. retry.attempt \in 1..(MaxAttempts - 1) /\ call.signal = "open"
    BY <1>0, <2>1 DEF LoopOK
  <2>3. call' \in [signal: Deadline!Signals, ends: Nat]
    BY <1>0, <1>2, <2>1
  <2>4. CASE Deadline!Remaining = 0
    <3>1. Deadline!End("expired")
      BY <2>1, <2>2, <2>4 DEF Deadline!BeginAttempt
    <3>2. LoopOK(retry', call'.ends, call'.signal) /\ retry'.attempt = retry.attempt
      BY <1>0, <1>2, <3>1, Ends
    <3> QED
      BY <1>0, <2>1, <2>3, <3>2, LoopKept
  <2>5. CASE Deadline!Remaining # 0
    <3>1. Deadline!Attempt /\ call' = call
      BY <2>1, <2>2, <2>5 DEF Deadline!BeginAttempt
    <3>2. /\ retry.attempt + 1 \in 1..MaxAttempts
          /\ MaxAttempts + 1 - (retry.attempt + 1) \in Nat \ {0}
      BY <2>2, DeadlineAssumed
    <3>3. now + Deadline!Most(1, Deadline!Remaining \div (MaxAttempts + 1 - (retry.attempt + 1))) \in Nat
      BY <1>0, <1>1, <3>2, Share
    <3>4. LoopOK(retry', call.ends, call.signal)
      BY <3>1, <3>2, <3>3 DEF Deadline!Attempt, LoopOK
    <3>5. now < call.ends
      BY <1>0, <1>1, <2>5
    <3> QED
      BY <1>0, <2>1, <2>2, <2>3, <3>1, <3>4, <3>5, LoopKept
  <2> QED
    BY <2>4, <2>5
<1>8. CASE Deadline!ExpireCall
  <2>1. Deadline!AbortCall("expired") /\ UNCHANGED <<now, request, handler, sent>>
    BY <1>8 DEF Deadline!ExpireCall
  <2> QED
    BY <1>0, <2>1, Aborts, LoopKept
<1>9. CASE Deadline!Expire \/ Deadline!Disconnect
  <2>1. PICK why \in {"expired", "disconnected"} :
          /\ request' = why /\ sent = "none" /\ UNCHANGED <<now, handler>>
          /\ sent' = IF why = "expired" THEN "timeout" ELSE "error"
          /\ IF handler = "waiting" THEN Deadline!AbortCall(why) ELSE UNCHANGED <<call, retry>>
    BY <1>9 DEF Deadline!Expire, Deadline!Disconnect
  <2>2. /\ call' \in [signal: Deadline!Signals, ends: Nat]
        /\ LoopOK(retry', call'.ends, call'.signal) /\ retry'.attempt = retry.attempt
        /\ handler = "running" => retry'.phase = "idle"
    BY <1>0, <2>1, Aborts
  <2> QED
    BY <1>0, <1>2, <2>1, <2>2, LoopKept
<1>10. CASE Deadline!EndHandler
  <2>1. /\ handler' = "ended" /\ UNCHANGED <<now, request, call, retry>>
        /\ IF sent = "none" THEN sent' \in {"ok", "timeout", "error"} ELSE sent' = sent
    BY <1>10 DEF Deadline!EndHandler, Deadline!AnswerFirst
  <2> QED
    BY <1>0, <2>1, LoopKept
<1> QED
  BY <1>3, <1>4, <1>5, <1>6, <1>7, <1>8, <1>9, <1>10 DEF Deadline!Next
-----------------------------------------------------------------------------
(* The rate limiter.                                                        *)

Transaction ==
  [at: {"idle", "counting", "counted", "collecting"}, key: Keys \union {None}, now: Nat,
   new: Limiter!Row, expired: SUBSET Keys, next: Keys \union {None}, locked: SUBSET Keys]

\* What a transaction is and has locked.
TransactionOK(r, transaction, locks, time) ==
  /\ transaction \in Transaction
  /\ transaction.now \in 0..time
  /\ transaction.at # "idle" => transaction.key \in Keys
  /\ transaction.at # "collecting" => transaction.expired = {} /\ transaction.locked = {}
  /\ transaction.expired # {} => transaction.next \in transaction.expired
  /\ transaction.key \notin transaction.expired \union transaction.locked
  /\ {k \in Keys : locks[k] = r} =
       transaction.locked \union (IF transaction.at \in {"counted", "collecting"}
                                  THEN {transaction.key} ELSE {})
  /\ Cardinality(transaction.expired \union transaction.locked) <= Batch

Limited ==
  /\ count \in [Keys -> Limiter!Row]
  /\ lock \in [Keys -> Requests \union {None}]
  /\ tries \in [Requests -> 0..MaxTries]
  /\ passed \in [Keys -> Nat]
  /\ clock \in 0..MaxClock
  /\ DOMAIN counting = Requests
  /\ counting = [r \in Requests |-> counting[r]]

LimiterInv == Limited /\ \A r \in Requests : TransactionOK(r, counting[r], lock, clock)

LEMMA LimiterSays == LimiterInv => Limiter!TypeOK
BY DEF LimiterInv, Limited, TransactionOK, Transaction, Limiter!TypeOK, Limiter!Row,
       Limiter!Cardinality, Cardinality

LEMMA LimiterAssumed ==
  /\ Limit \in Nat \ {0} /\ Window \in Nat \ {0} /\ Batch \in Nat \ {0}
  /\ MaxClock \in Nat /\ MaxTries \in Nat /\ None \notin Requests /\ IsFiniteSet(Keys)
BY ProcessesAssumption DEF Limiter!RateLimitAssumption, Limiter!IsFiniteSet, IsFiniteSet

\* A transaction that has ended, or not begun.
LEMMA IdleOK ==
  ASSUME NEW r \in Requests, NEW locks, NEW time \in Nat, {k \in Keys : locks[k] = r} = {}
  PROVE  TransactionOK(r, Limiter!Idle, locks, time)
<1>1. /\ Limiter!Idle.at = "idle" /\ Limiter!Idle.now = 0
      /\ Limiter!Idle.expired = {} /\ Limiter!Idle.locked = {}
      /\ Limiter!Idle \in Transaction
  BY DEF Limiter!Idle, Transaction, Limiter!NoRow, Limiter!Row
<1>2. Cardinality({} \union {}) <= Batch
  <2>1. Cardinality({}) = 0
    BY FS_EmptySet
  <2> QED
    BY <2>1, LimiterAssumed
<1> QED
  BY <1>1, <1>2 DEF TransactionOK

LEMMA LimiterBegins == Limiter!Init => LimiterInv
<1> SUFFICES ASSUME Limiter!Init PROVE LimiterInv
  OBVIOUS
<1>1. Limited
  BY LimiterAssumed DEF Limiter!Init, Limited, Limiter!NoRow, Limiter!Row
<1>2. ASSUME NEW r \in Requests PROVE TransactionOK(r, counting[r], lock, clock)
  <2>1. {k \in Keys : lock[k] = r} = {} /\ clock \in Nat /\ counting[r] = Limiter!Idle
    BY LimiterAssumed DEF Limiter!Init
  <2> QED
    BY <2>1, IdleOK
<1> QED
  BY <1>1, <1>2 DEF LimiterInv

\* One transaction goes on: it may lock what nobody has locked, or give up its own.
LEMMA OneGoesOn ==
  ASSUME LimiterInv, NEW r \in Requests, NEW transaction,
         counting' = [counting EXCEPT ![r] = transaction],
         TransactionOK(r, transaction, lock', clock),
         lock' \in [Keys -> Requests \union {None}],
         \A k \in Keys : lock'[k] = lock[k] \/ (lock[k] = None /\ lock'[k] = r)
                         \/ (lock[k] = r /\ lock'[k] = None),
         count' \in [Keys -> Limiter!Row], tries' \in [Requests -> 0..MaxTries],
         passed' \in [Keys -> Nat], clock' = clock
  PROVE  LimiterInv'
<1>1. ASSUME NEW s \in Requests PROVE TransactionOK(s, counting'[s], lock', clock')
  <2>1. CASE s = r
    BY <2>1 DEF LimiterInv, Limited
  <2>2. CASE s # r
    <3>1. counting'[s] = counting[s]
      BY <2>2 DEF LimiterInv, Limited
    <3>2. {k \in Keys : lock'[k] = s} = {k \in Keys : lock[k] = s}
      BY <2>2, LimiterAssumed
    <3> QED
      BY <3>1, <3>2 DEF LimiterInv, TransactionOK
  <2> QED
    BY <2>1, <2>2
<1>2. Limited'
  BY DEF LimiterInv, Limited
<1> QED
  BY <1>1, <1>2 DEF LimiterInv

LEMMA UnlockStep ==
  ASSUME LimiterInv, NEW r \in Requests, lock' = Limiter!Unlocked(r),
         counting' = [counting EXCEPT ![r] = Limiter!Idle],
         count' \in [Keys -> Limiter!Row], passed' \in [Keys -> Nat],
         tries' = tries, clock' = clock
  PROVE  LimiterInv'
<1>1. /\ lock' \in [Keys -> Requests \union {None}]
      /\ \A k \in Keys : lock'[k] = lock[k] \/ (lock[k] = r /\ lock'[k] = None)
      /\ {k \in Keys : lock'[k] = r} = {}
  BY LimiterAssumed DEF LimiterInv, Limited, Limiter!Unlocked
<1>2. clock \in Nat /\ tries' \in [Requests -> 0..MaxTries]
  BY LimiterAssumed DEF LimiterInv, Limited
<1>3. TransactionOK(r, Limiter!Idle, lock', clock)
  BY <1>1, <1>2, IdleOK
<1> QED
  BY <1>1, <1>2, <1>3, OneGoesOn

LEMMA LimiterStep == LimiterInv /\ Limiter!Next => LimiterInv'
<1> SUFFICES ASSUME LimiterInv, Limiter!Next PROVE LimiterInv'
  OBVIOUS
<1>0. /\ count \in [Keys -> Limiter!Row] /\ lock \in [Keys -> Requests \union {None}]
      /\ tries \in [Requests -> 0..MaxTries] /\ passed \in [Keys -> Nat]
      /\ clock \in 0..MaxClock /\ clock \in Nat
      /\ \A r \in Requests : TransactionOK(r, counting[r], lock, clock)
  BY LimiterAssumed DEF LimiterInv, Limited
<1>1. ASSUME NEW r \in Requests, Limiter!Arrive(r) PROVE LimiterInv'
  <2>1. PICK k \in Keys : counting' = [counting EXCEPT ![r] =
          [Limiter!Idle EXCEPT !.at = "counting", !.key = k, !.now = clock]]
    BY <1>1 DEF Limiter!Arrive
  <2>2. /\ counting[r] = Limiter!Idle /\ UNCHANGED <<count, lock, passed, clock>>
        /\ tries' \in [Requests -> 0..MaxTries]
    BY <1>0, <1>1, LimiterAssumed DEF Limiter!Arrive
  <2> DEFINE begun == [Limiter!Idle EXCEPT !.at = "counting", !.key = k, !.now = clock]
  <2>3. TransactionOK(r, Limiter!Idle, lock, clock)
    BY <1>0, <2>2
  <2>4. /\ begun.at = "counting" /\ begun.key = k /\ begun.now = clock
        /\ begun.expired = {} /\ begun.locked = {} /\ begun \in Transaction
    BY <1>0 DEF Limiter!Idle, Transaction, Limiter!NoRow, Limiter!Row
  <2>5. {l \in Keys : lock[l] = r} = {} /\ Cardinality({} \union {}) <= Batch
    BY <2>3 DEF TransactionOK, Limiter!Idle
  <2> HIDE DEF begun
  <2>6. TransactionOK(r, begun, lock', clock)
    BY <1>0, <2>2, <2>4, <2>5 DEF TransactionOK
  <2>7. counting' = [counting EXCEPT ![r] = begun]
    BY <2>1 DEF begun
  <2> QED
    BY <1>0, <2>2, <2>6, <2>7, OneGoesOn
<1>2. ASSUME NEW r \in Requests, Limiter!Count(r) PROVE LimiterInv'
  <2> DEFINE k == counting[r].key
             counted == [counting[r] EXCEPT !.at = "counted",
                                            !.new = Limiter!Counted(count[k], counting[r].now)]
  <2>1. /\ counting[r].at = "counting" /\ lock[k] = None /\ lock' = [lock EXCEPT ![k] = r]
        /\ counting' = [counting EXCEPT ![r] = counted]
        /\ UNCHANGED <<count, tries, passed, clock>>
    BY <1>2 DEF Limiter!Count
  <2>2. /\ counting[r] \in Transaction /\ k \in Keys /\ counting[r].now \in 0..clock
        /\ counting[r].expired = {} /\ counting[r].locked = {}
        /\ {l \in Keys : lock[l] = r} = {}
        /\ Cardinality({} \union {}) <= Batch
    BY <1>0, <2>1 DEF TransactionOK
  <2>3. count[k] \in Limiter!Row /\ counting[r].now \in Nat
    BY <1>0, <2>2
  <2>4. Limiter!Counted(count[k], counting[r].now) \in Limiter!Row
    BY <2>3, LimiterAssumed DEF Limiter!Counted, Limiter!Row
  <2>5. /\ counted \in Transaction /\ counted.at = "counted" /\ counted.key = k
        /\ counted.now = counting[r].now /\ counted.expired = {} /\ counted.locked = {}
    BY <2>2, <2>4 DEF Transaction
  <2>6. {l \in Keys : lock'[l] = r} = {k}
    BY <1>0, <2>1, <2>2
  <2> HIDE DEF counted, k
  <2>7. TransactionOK(r, counted, lock', clock)
    BY <2>2, <2>5, <2>6 DEF TransactionOK
  <2>8. lock' \in [Keys -> Requests \union {None}]
        /\ \A l \in Keys : lock'[l] = lock[l] \/ (lock[l] = None /\ lock'[l] = r)
    BY <1>0, <2>1
  <2> QED
    BY <1>0, <2>1, <2>7, <2>8, OneGoesOn
<1>3. ASSUME NEW r \in Requests, Limiter!Choose(r) PROVE LimiterInv'
  <2>1. counting[r].at = "counted" /\ UNCHANGED <<count, lock, tries, passed, clock>>
    BY <1>3 DEF Limiter!Choose
  <2>2. PICK chosen \in SUBSET Keys :
          /\ counting[r].key \notin chosen
          /\ Cardinality(chosen) = Batch \/ Cardinality(chosen) < Batch
          /\ \E k \in Limiter!Nexts(chosen) :
               counting' = [counting EXCEPT ![r].at = "collecting", ![r].expired = chosen,
                                            ![r].next = k]
    BY <1>3 DEF Limiter!Choose, Limiter!Cardinality, Cardinality
  <2>0. PICK k \in Limiter!Nexts(chosen) :
          counting' = [counting EXCEPT ![r].at = "collecting", ![r].expired = chosen,
                                       ![r].next = k]
    BY <2>2
  <2> DEFINE collecting == [counting[r] EXCEPT !.at = "collecting", !.expired = chosen, !.next = k]
  <2>3. /\ counting[r] \in Transaction /\ counting[r].key \in Keys
        /\ counting[r].now \in 0..clock /\ counting[r].locked = {}
        /\ {l \in Keys : lock[l] = r} = {counting[r].key}
    BY <1>0, <2>1 DEF TransactionOK
  <2>4. (chosen # {} => k \in chosen) /\ k \in Keys \union {None}
    BY <2>0, <2>2 DEF Limiter!Nexts
  <2>5. Cardinality(chosen) <= Batch
    <3>1. Cardinality(chosen) \in Nat
      BY LimiterAssumed, FS_Subset, FS_CardinalityType
    <3> QED
      BY <2>2, <3>1, LimiterAssumed
  <2>6. /\ collecting \in Transaction /\ collecting.at = "collecting"
        /\ collecting.key = counting[r].key /\ collecting.now = counting[r].now
        /\ collecting.expired = chosen /\ collecting.next = k /\ collecting.locked = {}
    BY <2>3, <2>4 DEF Transaction
  <2>7. counting' = [counting EXCEPT ![r] = collecting]
    BY <2>0
  <2> HIDE DEF collecting
  <2>8. chosen \union {} = chosen
    OBVIOUS
  <2>9. TransactionOK(r, collecting, lock', clock)
    BY <2>1, <2>2, <2>3, <2>4, <2>5, <2>6, <2>8 DEF TransactionOK
  <2> QED
    BY <1>0, <2>1, <2>7, <2>9, OneGoesOn
<1>4. ASSUME NEW r \in Requests, Limiter!Remove(r) PROVE LimiterInv'
  <2> DEFINE k == counting[r].next
             rest == counting[r].expired \ {k}
             has == IF count[k] = Limiter!NoRow THEN counting[r].locked
                    ELSE counting[r].locked \union {k}
  <2>1. /\ counting[r].at = "collecting" /\ counting[r].expired # {}
        /\ lock[k] = None /\ UNCHANGED <<count, tries, passed, clock>>
        /\ lock' = IF count[k] = Limiter!NoRow THEN lock ELSE [lock EXCEPT ![k] = r]
    BY <1>4 DEF Limiter!Remove
  <2>2. PICK l \in Limiter!Nexts(rest) :
          counting' = [counting EXCEPT ![r].expired = rest, ![r].next = l, ![r].locked = has]
    BY <1>4 DEF Limiter!Remove
  <2> DEFINE goes == [counting[r] EXCEPT !.expired = rest, !.next = l, !.locked = has]
  <2>3. /\ counting[r] \in Transaction /\ counting[r].key \in Keys /\ k \in counting[r].expired
        /\ counting[r].key \notin counting[r].expired \union counting[r].locked
        /\ counting[r].now \in 0..clock
        /\ {x \in Keys : lock[x] = r} = counting[r].locked \union {counting[r].key}
        /\ Cardinality(counting[r].expired \union counting[r].locked) <= Batch
    BY <1>0, <2>1 DEF TransactionOK
  <2>4. k \in Keys /\ rest \in SUBSET Keys /\ has \in SUBSET Keys
        /\ counting[r].expired \in SUBSET Keys /\ counting[r].locked \in SUBSET Keys
    BY <2>3 DEF Transaction
  <2>5. /\ rest # {} => l \in rest
        /\ l \in Keys \union {None} /\ counting[r].key \notin rest \union has
    BY <2>2, <2>3, <2>4 DEF Limiter!Nexts
  <2>6. {x \in Keys : lock'[x] = r} = has \union {counting[r].key}
    BY <1>0, <2>1, <2>3, <2>4
  <2>7. Cardinality(rest \union has) <= Batch
    <3> DEFINE before == counting[r].expired \union counting[r].locked
               after == rest \union has
    <3>1. after \in SUBSET before /\ before \in SUBSET Keys
      BY <2>3, <2>4
    <3> HIDE DEF before, after
    <3>2. IsFiniteSet(before)
      BY <3>1, LimiterAssumed, FS_Subset
    <3>3. Cardinality(after) <= Cardinality(before) /\ Cardinality(before) \in Nat
          /\ Cardinality(after) \in Nat
      BY <3>1, <3>2, FS_Subset, FS_CardinalityType
    <3>4. Cardinality(before) <= Batch
      BY <2>3 DEF before
    <3> QED
      BY <3>3, <3>4, LimiterAssumed DEF after
  <2>8. /\ goes \in Transaction /\ goes.at = "collecting" /\ goes.key = counting[r].key
        /\ goes.now = counting[r].now /\ goes.expired = rest /\ goes.next = l /\ goes.locked = has
    <3> HIDE DEF rest, has
    <3> QED
      BY <2>1, <2>3, <2>4, <2>5 DEF Transaction
  <2>9. lock' \in [Keys -> Requests \union {None}]
        /\ \A x \in Keys : lock'[x] = lock[x] \/ (lock[x] = None /\ lock'[x] = r)
    BY <1>0, <2>1
  <2>10. counting' = [counting EXCEPT ![r] = goes]
    BY <2>2
  <2> HIDE DEF goes, rest, has, k
  <2>11. TransactionOK(r, goes, lock', clock)
    BY <2>3, <2>5, <2>6, <2>7, <2>8 DEF TransactionOK
  <2> QED
    BY <1>0, <2>1, <2>9, <2>10, <2>11, OneGoesOn
<1>5. ASSUME NEW r \in Requests, Limiter!Commit(r) PROVE LimiterInv'
  <2>1. counting[r].new \in Limiter!Row
    BY <1>0 DEF TransactionOK, Transaction
  <2>2. count' \in [Keys -> Limiter!Row] /\ passed' \in [Keys -> Nat]
    <3>1. Limiter!NoRow \in Limiter!Row
      BY DEF Limiter!NoRow, Limiter!Row
    <3>2. ASSUME NEW k \in Keys PROVE count'[k] \in Limiter!Row /\ passed'[k] \in Nat
      <4> DEFINE key == counting[r].key
                 new == counting[r].new
                 locked == counting[r].locked
      <4>1. /\ count' = [j \in Keys |-> CASE j = key -> new
                                         [] j \in locked -> Limiter!NoRow
                                         [] OTHER -> count[j]]
            /\ passed' = [j \in Keys |->
                            CASE j = key -> (IF count[j].reset = new.reset THEN passed[j] ELSE 0) +
                                            (IF new.count <= Limit THEN 1 ELSE 0)
                              [] j \in locked -> 0
                              [] OTHER -> passed[j]]
        BY <1>5 DEF Limiter!Commit
      <4> HIDE DEF key, new, locked
      <4>2. /\ count'[k] = (CASE k = key -> new [] k \in locked -> Limiter!NoRow
                            [] OTHER -> count[k])
            /\ passed'[k] = (CASE k = key -> (IF count[k].reset = new.reset THEN passed[k] ELSE 0) +
                                             (IF new.count <= Limit THEN 1 ELSE 0)
                               [] k \in locked -> 0
                               [] OTHER -> passed[k])
        BY <4>1, Zenon
      <4>3. new \in Limiter!Row /\ key \notin locked
        BY <1>0, <2>1 DEF TransactionOK, key, new, locked
      <4>4. CASE k = key
        <5>1. /\ count'[k] = new
              /\ passed'[k] = (IF count[k].reset = new.reset THEN passed[k] ELSE 0) +
                              (IF new.count <= Limit THEN 1 ELSE 0)
          BY <4>2, <4>3, <4>4, Zenon
        <5> QED
          BY <1>0, <4>3, <5>1
      <4>5. CASE k # key /\ k \in locked
        BY <1>0, <3>1, <4>2, <4>5
      <4>6. CASE k # key /\ k \notin locked
        BY <1>0, <4>2, <4>6
      <4> QED
        BY <4>4, <4>5, <4>6
    <3>3. count' = [k \in Keys |-> count'[k]] /\ passed' = [k \in Keys |-> passed'[k]]
      BY <1>5 DEF Limiter!Commit
    <3> QED
      BY <3>2, <3>3
  <2> QED
    BY <1>5, <2>2, UnlockStep DEF Limiter!Commit
<1>6. ASSUME NEW r \in Requests, Limiter!Abort(r) PROVE LimiterInv'
  <2>1. /\ lock' = Limiter!Unlocked(r) /\ counting' = [counting EXCEPT ![r] = Limiter!Idle]
        /\ UNCHANGED <<count, tries, passed, clock>>
    BY <1>6, Zenon DEF Limiter!Abort
  <2> QED
    BY <1>0, <2>1, UnlockStep
<1>7. ASSUME Limiter!Tick PROVE LimiterInv'
  <2>1. /\ clock' = clock + 1 /\ clock' \in 0..MaxClock
        /\ UNCHANGED <<count, lock, counting, tries, passed>>
    BY <1>0, <1>7, LimiterAssumed DEF Limiter!Tick
  <2>2. ASSUME NEW r \in Requests PROVE TransactionOK(r, counting[r], lock, clock + 1)
    <3>1. counting[r].now \in 0..clock => counting[r].now \in 0..(clock + 1)
      BY <1>0
    <3> QED
      BY <1>0, <3>1 DEF TransactionOK
  <2> QED
    BY <2>1, <2>2 DEF LimiterInv, Limited
<1> QED
  BY <1>1, <1>2, <1>3, <1>4, <1>5, <1>6, <1>7 DEF Limiter!Next, Limiter!Works
-----------------------------------------------------------------------------
(* The worker, with any bounds.                                             *)

Worker(failures, outs, lateness) == INSTANCE WorkerReadiness WITH
  MaxFailures <- failures, MaxOutages <- outs, MaxLate <- lateness

Locations == {"starting", "recovering", "polling", "due", "checked", "claiming",
              "executing", "settling", "sleeping", "stopped"}
Minds(f) == [failures : 0..f, ready : BOOLEAN, stopping : BOOLEAN, age : 0..(Stall + 2)]
PollsTyped == [active : BOOLEAN, job : BOOLEAN, failed : BOOLEAN, lost : BOOLEAN,
               aborted : {"no", "own", "late", "shutdown"}]
Beats(f) == [at : {"none", "waiting", "calling", "saying"}, state : {"running", "stopping"},
             ready : BOOLEAN, failures : 0..f, loop : BOOLEAN]
Rows(f) == [state : {"none", "running", "stopping", "stopped"}, ready : BOOLEAN,
            failures : 0..f, loop : 0..(Stall + 2), poll : 0..(Stall + 2)]

\* A heartbeat goes with a claimed job, and one that has failed does not go on.
BeatOf(at, job, beat) ==
  /\ beat.at # "none" => job.job /\ at \in {"executing", "settling"}
Failing(at, job, beat) ==
  job.failed => /\ at \in {"executing", "settling"}
                /\ beat.at = "none" \/ (beat.at = "saying" /\ ~beat.loop)

WorkerInv(f, o, l) ==
  /\ pc \in Locations /\ mind \in Minds(f) /\ poll \in PollsTyped
  /\ own \in Beats(f) /\ late \in Beats(f) /\ row \in Rows(f)
  /\ timer \in BOOLEAN /\ farewell \in BOOLEAN /\ up \in BOOLEAN
  /\ outages \in 0..o /\ lates \in 0..l
  /\ BeatOf(pc, poll, own)
  /\ lates = 0 => late.at = "none" /\ Failing(pc, poll, own) /\ (poll.failed => ~mind.ready)

LEMMA WorkerSays ==
  ASSUME NEW f, NEW o, NEW l, WorkerInv(f, o, l)
  PROVE  Worker(f, o, l)!TypeOK /\ Worker(f, o, l)!FailedBeatUnready
BY DEF WorkerInv, Locations, Minds, PollsTyped, Beats, Rows, BeatOf, Worker!TypeOK,
       Worker!Never, Worker!Old, Worker!Ages, Worker!FailedBeatUnready

LEMMA StallAssumed == Stall \in Nat \ {0}
BY ProcessesAssumption DEF Outage!ReadinessAssumption

LEMMA WorkerBegins ==
  ASSUME NEW f \in Nat, NEW o \in Nat, NEW l \in Nat, Outage!Init
  PROVE  WorkerInv(f, o, l)
<1>1. Stall + 1 + 1 = Stall + 2 /\ Stall + 2 \in 0..(Stall + 2) /\ 0 \in 0..f /\ 0 \in 0..o /\ 0 \in 0..l
  BY StallAssumed
<1>3. /\ pc = "starting" /\ poll = Outage!NoPoll /\ own = Outage!Quiet /\ late = Outage!Quiet
      /\ timer = FALSE /\ farewell = FALSE /\ up = TRUE /\ outages = 0 /\ lates = 0
      /\ mind = [failures |-> 0, ready |-> FALSE, stopping |-> FALSE, age |-> Stall + 2]
      /\ row = [state |-> "none", ready |-> FALSE, failures |-> 0, loop |-> Stall + 2, poll |-> Stall + 2]
  BY DEF Outage!Init, Outage!Never
<1>4. mind \in Minds(f) /\ row \in Rows(f)
  BY <1>1, <1>3 DEF Minds, Rows
<1>5. Outage!Quiet \in Beats(f) /\ Outage!NoPoll \in PollsTyped
      /\ Outage!Quiet.at = "none" /\ Outage!NoPoll.failed = FALSE
  BY <1>1 DEF Outage!Quiet, Outage!NoPoll, Beats, PollsTyped
<1> QED
  BY <1>1, <1>3, <1>4, <1>5 DEF WorkerInv, Locations, BeatOf, Failing

\* What the worker notes keeps its kind, and only a success makes it ready.
LEMMA Noting ==
  ASSUME NEW f \in Nat, NEW o, NEW l, NEW m \in Minds(f), NEW forced \in BOOLEAN
  PROVE  /\ Worker(f, o, l)!Success(m) \in Minds(f)
         /\ Worker(f, o, l)!Failure(m, forced) \in Minds(f)
         /\ Worker(f, o, l)!Failure(m, forced).ready => m.ready
         /\ forced => ~Worker(f, o, l)!Failure(m, forced).ready
         /\ Worker(f, o, l)!Observed(m) \in Minds(f)
         /\ Worker(f, o, l)!Observed(m).ready = m.ready
         /\ Worker(f, o, l)!Ready(m) \in BOOLEAN
         /\ Worker(f, o, l)!State(m) \in {"running", "stopping"}
<1>1. /\ m \in [failures : 0..f, ready : BOOLEAN, stopping : BOOLEAN, age : 0..(Stall + 2)]
      /\ 0 \in 0..f /\ 0 \in 0..(Stall + 2) /\ f \in 0..f
      /\ m.failures < f => m.failures + 1 \in 0..f
  BY StallAssumed DEF Minds
<1>2. /\ Worker(f, o, l)!Success(m) \in Minds(f)
      /\ Worker(f, o, l)!Observed(m) \in Minds(f) /\ Worker(f, o, l)!Observed(m).ready = m.ready
  BY <1>1 DEF Minds, Worker!Success, Worker!Observed
<1>3. PICK counted \in 0..f : Worker(f, o, l)!Failure(m, forced) =
        [m EXCEPT !.failures = counted, !.ready = @ /\ ~forced /\ counted < f]
  BY <1>1 DEF Worker!Failure
<1>4. Worker(f, o, l)!Failure(m, forced) \in Minds(f)
  BY <1>1, <1>3 DEF Minds
<1>5. Worker(f, o, l)!Failure(m, forced).ready <=> m.ready /\ ~forced /\ counted < f
  BY <1>1, <1>3
<1>6. Worker(f, o, l)!Ready(m) \in BOOLEAN /\ Worker(f, o, l)!State(m) \in {"running", "stopping"}
  BY <1>1 DEF Worker!Ready, Worker!State
<1> QED
  BY <1>2, <1>4, <1>5, <1>6

LEMMA Putting ==
  ASSUME NEW f \in Nat, NEW o, NEW l, row \in Rows(f), NEW said,
         said.state \in {"running", "stopping", "stopped"}, said.ready \in BOOLEAN,
         said.failures \in 0..f, said.loop \in BOOLEAN, NEW polled \in BOOLEAN,
         Worker(f, o, l)!Put(said, polled)
  PROVE  row' \in Rows(f)
<1>1. 0 \in 0..(Stall + 2)
  BY StallAssumed
<1>2. PICK heard \in 0..(Stall + 2), seen \in 0..(Stall + 2) :
        row' = [row EXCEPT !.state = said.state, !.ready = said.ready,
                           !.failures = said.failures, !.loop = heard, !.poll = seen]
  BY <1>1 DEF Rows, Worker!Put
<1> QED
  BY <1>2 DEF Rows

LEMMA WorkerRecords ==
  ASSUME NEW f \in Nat, NEW o, NEW l, row \in Rows(f), up \in BOOLEAN, NEW m \in Minds(f),
         NEW state \in {"running", "stopping", "stopped"}, NEW loop \in BOOLEAN,
         NEW polled \in BOOLEAN, Worker(f, o, l)!Record(m, state, loop, polled)
  PROVE  mind' \in Minds(f) /\ row' \in Rows(f) /\ (mind'.ready => m.ready)
<1>1. CASE up
  <2> DEFINE said == Worker(f, o, l)!Said(m, state, loop)
  <2>1. mind' = m /\ Worker(f, o, l)!Put(said, polled)
    BY <1>1 DEF Worker!Record
  <2>2. Worker(f, o, l)!Ready(m) \in BOOLEAN /\ m.failures \in 0..f
    BY Noting DEF Minds
  <2>3. said.state = state /\ said.ready \in BOOLEAN /\ said.failures \in 0..f /\ said.loop = loop
    BY <2>2 DEF Worker!Said
  <2> HIDE DEF said
  <2>4. row' \in Rows(f)
    BY <2>1, <2>3, Putting
  <2> QED
    BY <2>1, <2>4
<1>2. CASE ~up
  <2>1. mind' = Worker(f, o, l)!Failure(m, TRUE) /\ row' = row
    BY <1>2 DEF Worker!Record
  <2>2. /\ Worker(f, o, l)!Failure(m, TRUE) \in Minds(f)
        /\ Worker(f, o, l)!Failure(m, TRUE).ready => m.ready
    BY Noting
  <2> QED
    BY <2>1, <2>2
<1> QED
  BY <1>1, <1>2

\* The parts of the invariant, as a step leaves them.
LEMMA WorkerKept ==
  ASSUME NEW f, NEW o, NEW l, WorkerInv(f, o, l),
         pc' \in Locations, mind' \in Minds(f), poll' \in PollsTyped, own' \in Beats(f),
         late' \in Beats(f), row' \in Rows(f), timer' \in BOOLEAN, farewell' \in BOOLEAN,
         up' \in BOOLEAN, outages' \in 0..o, lates' \in 0..l, BeatOf(pc', poll', own'),
         lates' = 0 => late'.at = "none" /\ Failing(pc', poll', own') /\ (poll'.failed => ~mind'.ready)
  PROVE  WorkerInv(f, o, l)'
BY DEF WorkerInv

LEMMA WorkerNow ==
  ASSUME NEW f, NEW o, NEW l, WorkerInv(f, o, l)
  PROVE  /\ pc \in Locations /\ mind \in Minds(f) /\ poll \in PollsTyped
         /\ own \in Beats(f) /\ late \in Beats(f) /\ row \in Rows(f)
         /\ timer \in BOOLEAN /\ farewell \in BOOLEAN /\ up \in BOOLEAN
         /\ outages \in 0..o /\ lates \in 0..l /\ BeatOf(pc, poll, own)
         /\ lates = 0 => late.at = "none" /\ Failing(pc, poll, own) /\ (poll.failed => ~mind.ready)
BY DEF WorkerInv

\* Where the loop only notes and records, outside a poll with a job.
LEMMA Notes ==
  ASSUME NEW f \in Nat, NEW o, NEW l, WorkerInv(f, o, l),
         pc \notin {"executing", "settling"}, pc' \in Locations, mind' \in Minds(f),
         row' \in Rows(f), UNCHANGED <<poll, own, late, timer, lates, farewell, up, outages>>
  PROVE  WorkerInv(f, o, l)'
<1>1. WorkerInv(f, o, l) => own.at = "none" /\ (lates = 0 => ~poll.failed)
  BY DEF WorkerInv, BeatOf, Failing
<1> QED
  BY <1>1, WorkerNow, WorkerKept DEF BeatOf, Failing

\* A poll that is over leaves no heartbeat of its own.
LEMMA OverStep ==
  ASSUME NEW f \in Nat, NEW o, NEW l \in Nat, WorkerInv(f, o, l), Worker(f, o, l)!Over,
         pc' \in Locations, mind' \in Minds(f), row' \in Rows(f),
         UNCHANGED <<farewell, up, outages>>
  PROVE  WorkerInv(f, o, l)'
<1>1. /\ Worker(f, o, l)!NoPoll \in PollsTyped /\ ~Worker(f, o, l)!NoPoll.failed
      /\ Worker(f, o, l)!Quiet \in Beats(f) /\ Worker(f, o, l)!Quiet.at = "none"
  BY DEF Worker!NoPoll, Worker!Quiet, PollsTyped, Beats
<1>2. /\ poll' = Worker(f, o, l)!NoPoll /\ own' = Worker(f, o, l)!Quiet /\ timer' = FALSE
      /\ (late' = own /\ lates' = lates + 1 /\ lates < l) \/ (late' = late /\ lates' = lates)
  BY DEF Worker!Over
<1>3. late' \in Beats(f) /\ lates' \in 0..l /\ (lates' = 0 => lates = 0 /\ late' = late)
  BY <1>2, WorkerNow
<1> QED
  BY <1>1, <1>2, <1>3, WorkerNow, WorkerKept DEF BeatOf, Failing

LEMMA LoopSteps ==
  ASSUME NEW f \in Nat, NEW o, NEW l \in Nat, WorkerInv(f, o, l), Worker(f, o, l)!LoopStep
  PROVE  WorkerInv(f, o, l)'
<1>0. /\ pc \in Locations /\ mind \in Minds(f) /\ poll \in PollsTyped
      /\ own \in Beats(f) /\ late \in Beats(f) /\ row \in Rows(f)
      /\ timer \in BOOLEAN /\ farewell \in BOOLEAN /\ up \in BOOLEAN
      /\ outages \in 0..o /\ lates \in 0..l /\ BeatOf(pc, poll, own)
      /\ lates = 0 => late.at = "none" /\ Failing(pc, poll, own) /\ (poll.failed => ~mind.ready)
  BY WorkerNow
<1>1. /\ Worker(f, o, l)!Success(mind) \in Minds(f) /\ Worker(f, o, l)!Observed(mind) \in Minds(f)
      /\ Worker(f, o, l)!Failure(mind, FALSE) \in Minds(f)
      /\ Worker(f, o, l)!Failure(mind, TRUE) \in Minds(f)
      /\ Worker(f, o, l)!State(mind) \in {"running", "stopping", "stopped"}
      /\ [mind EXCEPT !.ready = FALSE] \in Minds(f)
  <2>1. mind \in Minds(f)
    BY <1>0
  <2>2. [mind EXCEPT !.ready = FALSE] \in Minds(f)
    BY <2>1 DEF Minds
  <2>3. \A forced \in BOOLEAN : Worker(f, o, l)!Failure(mind, forced) \in Minds(f)
    BY <2>1, Noting
  <2>4. /\ Worker(f, o, l)!Success(mind) \in Minds(f) /\ Worker(f, o, l)!Observed(mind) \in Minds(f)
        /\ Worker(f, o, l)!State(mind) \in {"running", "stopping"}
    BY <2>1, Noting
  <2> QED
    BY <2>2, <2>3, <2>4
<1>2. CASE Worker(f, o, l)!Start
  <2>1. pc' = "recovering" /\ mind' \in Minds(f) /\ row' \in Rows(f)
    BY <1>0, <1>1, <1>2, WorkerRecords DEF Worker!Start
  <2> QED
    BY <1>2, <2>1, Notes DEF Worker!Start, Locations, Worker!Loop, Worker!World
<1>3. CASE Worker(f, o, l)!Recover
  <2>1. pc' \in Locations /\ pc \notin {"executing", "settling"}
    BY <1>3 DEF Worker!Recover, Locations
  <2>2. mind' \in Minds(f) /\ row' \in Rows(f)
    <3>1. CASE up
      BY <1>0, <1>1, <1>3, <3>1, WorkerRecords DEF Worker!Recover
    <3>2. CASE ~up
      <4>1. mind' = Worker(f, o, l)!Failure(Worker(f, o, l)!Failure(mind, FALSE), TRUE) /\ row' = row
        BY <1>3, <3>2 DEF Worker!Recover
      <4> QED
        BY <1>0, <1>1, <4>1, Noting
    <3> QED
      BY <3>1, <3>2
  <2> QED
    BY <1>3, <2>1, <2>2, Notes DEF Worker!Recover, Worker!Loop, Worker!World
<1>4. CASE Worker(f, o, l)!Poll
  <2>1. pc = "polling" /\ pc' = "due" /\ mind' \in Minds(f) /\ row' \in Rows(f)
    BY <1>0, <1>1, <1>4, WorkerRecords DEF Worker!Poll
  <2> QED
    BY <1>4, <2>1, Notes DEF Worker!Poll, Locations, Worker!Loop, Worker!World
<1>5. CASE Worker(f, o, l)!Call
  <2>1. /\ pc \notin {"executing", "settling"} /\ pc' = "claiming"
        /\ poll' = [Worker(f, o, l)!NoPoll EXCEPT !.active = TRUE]
        /\ UNCHANGED <<mind, own, late, timer, row, lates, farewell, up, outages>>
    BY <1>5 DEF Worker!Call, Worker!World
  <2>2. poll' \in PollsTyped /\ ~poll'.failed
    BY <2>1 DEF Worker!NoPoll, PollsTyped
  <2>3. own.at = "none"
    BY <1>0, <2>1 DEF BeatOf
  <2> QED
    BY <1>0, <2>1, <2>2, <2>3, WorkerKept DEF Locations, BeatOf, Failing
<1>6. CASE Worker(f, o, l)!Claim
  <2>1. pc = "claiming" /\ UNCHANGED <<farewell, up, outages>>
    BY <1>6 DEF Worker!Claim, Worker!World
  <2>2. CASE ~up
    <3>1. pc' = "sleeping" /\ Worker(f, o, l)!Over /\ mind' \in Minds(f) /\ row' \in Rows(f)
      BY <1>0, <1>1, <1>6, <2>2, WorkerRecords DEF Worker!Claim
    <3> QED
      BY <2>1, <3>1, OverStep DEF Locations
  <2>3. CASE up
    <3>1. pc' = "executing" /\ UNCHANGED <<timer, late, lates>>
      BY <1>6, <2>3 DEF Worker!Claim
    <3>2. PICK job \in BOOLEAN :
            /\ poll' = [poll EXCEPT !.job = job]
            /\ own' = IF job THEN [Worker(f, o, l)!Quiet EXCEPT !.at = "waiting"]
                      ELSE Worker(f, o, l)!Quiet
            /\ IF job THEN Worker(f, o, l)!Record(mind, "running", TRUE, FALSE)
               ELSE UNCHANGED <<mind, row>>
      BY <1>6, <2>3 DEF Worker!Claim
    <3>3. mind' \in Minds(f) /\ row' \in Rows(f)
      BY <1>0, <3>2, WorkerRecords
    <3>4. poll' \in PollsTyped /\ poll'.job = job /\ poll'.failed = poll.failed
      BY <1>0, <3>2 DEF PollsTyped
    <3>5. own' \in Beats(f) /\ (own'.at # "none" => job)
      <4>1. /\ Worker(f, o, l)!Quiet \in Beats(f) /\ Worker(f, o, l)!Quiet.at = "none"
            /\ [Worker(f, o, l)!Quiet EXCEPT !.at = "waiting"] \in Beats(f)
        <5>1. Worker(f, o, l)!Quiet \in Beats(f) /\ Worker(f, o, l)!Quiet.at = "none"
          BY DEF Worker!Quiet, Beats
        <5> QED
          BY <5>1 DEF Beats
      <4> QED
        BY <3>2, <4>1
    <3>6. lates = 0 => ~poll.failed
      BY <1>0, <2>1 DEF Failing
    <3> QED
      BY <1>0, <2>1, <3>1, <3>3, <3>4, <3>5, <3>6, WorkerKept DEF Locations, BeatOf, Failing
  <2> QED
    BY <2>2, <2>3
<1>7. CASE Worker(f, o, l)!Report
  <2>1. pc = "executing" /\ UNCHANGED <<farewell, up, outages>>
    BY <1>7 DEF Worker!Report, Worker!World
  <2>2. CASE /\ pc' = "settling"
             /\ Worker(f, o, l)!Record(Worker(f, o, l)!Noted(mind), Worker(f, o, l)!State(mind),
                                      TRUE, TRUE)
             /\ UNCHANGED <<poll, own, late, timer, lates>>
    <3>1. Worker(f, o, l)!Noted(mind) \in Minds(f)
          /\ (poll.failed => Worker(f, o, l)!Noted(mind) = mind)
      BY <1>0, <1>1 DEF Worker!Noted
    <3>2. mind' \in Minds(f) /\ row' \in Rows(f)
          /\ (mind'.ready => Worker(f, o, l)!Noted(mind).ready)
      BY <1>0, <1>1, <2>2, <3>1, WorkerRecords
    <3> QED
      BY <1>0, <2>1, <2>2, <3>1, <3>2, WorkerKept DEF Locations, BeatOf, Failing
  <2>3. CASE /\ pc' = "sleeping" /\ Worker(f, o, l)!Over
             /\ Worker(f, o, l)!Record(Worker(f, o, l)!Failure(mind, FALSE),
                                      Worker(f, o, l)!State(mind), FALSE, FALSE)
    <3>1. mind' \in Minds(f) /\ row' \in Rows(f)
      BY <1>0, <1>1, <2>3, WorkerRecords
    <3> QED
      BY <2>1, <2>3, <3>1, OverStep DEF Locations
  <2> QED
    BY <1>7, <2>2, <2>3 DEF Worker!Report, Worker!Loop
<1>8. CASE Worker(f, o, l)!Settle
  <2>1. pc' = "sleeping" /\ Worker(f, o, l)!Over /\ UNCHANGED <<farewell, up, outages>>
    BY <1>8 DEF Worker!Settle, Worker!World
  <2>2. mind' \in Minds(f) /\ row' \in Rows(f)
    BY <1>0, <1>1, <1>8, WorkerRecords DEF Worker!Settle
  <2> QED
    BY <2>1, <2>2, OverStep DEF Locations
<1>9. CASE Worker(f, o, l)!Sleep
  <2>1. pc = "sleeping" /\ pc' = "polling" /\ mind' = mind /\ row' = row
    BY <1>9 DEF Worker!Sleep
  <2> QED
    BY <1>0, <1>9, <2>1, Notes DEF Worker!Sleep, Locations, Worker!Loop, Worker!World
<1>10. CASE Worker(f, o, l)!Finish
  <2>1. pc = "polling" /\ pc' = "stopped" /\ mind' \in Minds(f) /\ row' \in Rows(f)
    BY <1>0, <1>1, <1>10, WorkerRecords DEF Worker!Finish
  <2> QED
    BY <1>10, <2>1, Notes DEF Worker!Finish, Locations, Worker!Loop, Worker!World
<1> QED
  BY <1>2, <1>3, <1>4, <1>5, <1>6, <1>7, <1>8, <1>9, <1>10 DEF Worker!LoopStep

LEMMA BeatSteps ==
  ASSUME NEW f \in Nat, NEW o, NEW l \in Nat, WorkerInv(f, o, l),
         Worker(f, o, l)!Beat \/ Worker(f, o, l)!OwnAnswered \/ Worker(f, o, l)!LateAnswered
           \/ Worker(f, o, l)!OwnSaid \/ Worker(f, o, l)!LateSaid
  PROVE  WorkerInv(f, o, l)'
<1>0. /\ pc \in Locations /\ mind \in Minds(f) /\ poll \in PollsTyped
      /\ own \in Beats(f) /\ late \in Beats(f) /\ row \in Rows(f)
      /\ timer \in BOOLEAN /\ farewell \in BOOLEAN /\ up \in BOOLEAN
      /\ outages \in 0..o /\ lates \in 0..l /\ BeatOf(pc, poll, own)
      /\ lates = 0 => late.at = "none" /\ Failing(pc, poll, own) /\ (poll.failed => ~mind.ready)
  BY WorkerNow
<1>1. CASE Worker(f, o, l)!Beat
  <2>1. /\ own.at = "waiting" /\ own' = [own EXCEPT !.at = "calling"]
        /\ UNCHANGED <<pc, mind, poll, late, timer, row, lates, farewell, up, outages>>
    BY <1>1 DEF Worker!Beat, Worker!World
  <2>2. own' \in Beats(f)
    BY <1>0, <2>1 DEF Beats
  <2> QED
    BY <1>0, <2>1, <2>2, WorkerKept DEF BeatOf, Failing
\* What an answer says, to the heartbeat and to the worker.
<1>2. ASSUME NEW answer, NEW by \in {"own", "late"},
             answer \in {Worker(f, o, l)!Renewed, Worker(f, o, l)!Refused(by)}
      PROVE  /\ answer[1] \in Minds(f) /\ answer[2] \in Beats(f) /\ answer[3] \in PollsTyped
             /\ answer[2].at = "saying" /\ answer[3].job = poll.job
             /\ answer[3] = poll \/ (~answer[1].ready /\ ~answer[2].loop)
  <2>1. CASE answer = Worker(f, o, l)!Renewed
    <3> DEFINE m == Worker(f, o, l)!Observed(Worker(f, o, l)!Success(mind))
    <3>1. m \in Minds(f)
      BY <1>0, Noting
    <3>2. Worker(f, o, l)!Ready(m) \in BOOLEAN /\ Worker(f, o, l)!State(m) \in {"running", "stopping"}
          /\ m.failures \in 0..f
      BY <3>1, Noting DEF Minds
    <3>3. answer = <<m, Worker(f, o, l)!Saying(m, TRUE), poll>>
      BY <2>1 DEF Worker!Renewed
    <3> HIDE DEF m
    <3>4. Worker(f, o, l)!Saying(m, TRUE) \in Beats(f) /\ Worker(f, o, l)!Saying(m, TRUE).at = "saying"
      BY <3>2 DEF Worker!Saying, Beats
    <3> QED
      BY <1>0, <3>1, <3>3, <3>4
  <2>2. CASE answer = Worker(f, o, l)!Refused(by)
    <3> DEFINE m == Worker(f, o, l)!Failure(mind, TRUE)
               refused == [poll EXCEPT !.failed = TRUE, !.aborted = Worker(f, o, l)!Aborted(by)]
    <3>1. m \in Minds(f) /\ ~m.ready
      BY <1>0, Noting
    <3>2. Worker(f, o, l)!Ready(m) \in BOOLEAN /\ Worker(f, o, l)!State(m) \in {"running", "stopping"}
          /\ m.failures \in 0..f
      BY <3>1, Noting DEF Minds
    <3>3. answer = <<m, Worker(f, o, l)!Saying(m, FALSE), refused>>
      BY <2>2 DEF Worker!Refused
    <3>4. refused \in PollsTyped /\ refused.job = poll.job
      BY <1>0 DEF Worker!Aborted, PollsTyped
    <3> HIDE DEF m, refused
    <3>5. /\ Worker(f, o, l)!Saying(m, FALSE) \in Beats(f)
          /\ Worker(f, o, l)!Saying(m, FALSE).at = "saying"
          /\ ~Worker(f, o, l)!Saying(m, FALSE).loop
      BY <3>2 DEF Worker!Saying, Beats
    <3> QED
      BY <3>1, <3>3, <3>4, <3>5
  <2> QED
    BY <1>2, <2>1, <2>2
<1>3. CASE Worker(f, o, l)!OwnAnswered
  <2>1. own.at = "calling" /\ UNCHANGED <<pc, late, timer, row, lates, farewell, up, outages>>
    BY <1>3 DEF Worker!OwnAnswered, Worker!World
  <2>2. PICK answer \in {Worker(f, o, l)!Renewed, Worker(f, o, l)!Refused("own")} :
          mind' = answer[1] /\ own' = answer[2] /\ poll' = answer[3]
    BY <1>3 DEF Worker!OwnAnswered
  <2>3. /\ mind' \in Minds(f) /\ own' \in Beats(f) /\ poll' \in PollsTyped
        /\ own'.at = "saying" /\ poll'.job = poll.job
        /\ poll' = poll \/ (~mind'.ready /\ ~own'.loop)
    BY <1>2, <2>2
  <2>4. pc \in {"executing", "settling"} /\ poll.job /\ (lates = 0 => ~poll.failed)
    BY <1>0, <2>1 DEF BeatOf, Failing
  <2> QED
    BY <1>0, <2>1, <2>3, <2>4, WorkerKept DEF BeatOf, Failing
<1>4. CASE Worker(f, o, l)!LateAnswered
  <2>1. late.at = "calling" /\ UNCHANGED <<pc, own, timer, row, lates, farewell, up, outages>>
    BY <1>4 DEF Worker!LateAnswered, Worker!World
  <2>2. PICK answer \in {Worker(f, o, l)!Renewed, Worker(f, o, l)!Refused("late")} :
          mind' = answer[1] /\ late' = answer[2] /\ poll' = answer[3]
    BY <1>4 DEF Worker!LateAnswered
  <2>3. /\ mind' \in Minds(f) /\ late' \in Beats(f) /\ poll' \in PollsTyped
        /\ poll'.job = poll.job
    BY <1>2, <2>2
  <2>4. lates # 0
    BY <1>0, <2>1
  <2> QED
    BY <1>0, <2>1, <2>3, <2>4, WorkerKept DEF BeatOf, Failing
\* What a heartbeat says arrives, or makes the worker unready.
<1>5. ASSUME NEW beat \in Beats(f), Worker(f, o, l)!Arrives(beat)
      PROVE  mind' \in Minds(f) /\ row' \in Rows(f) /\ (mind'.ready => mind.ready)
  <2>1. CASE up
    <3>1. mind' = mind /\ Worker(f, o, l)!Put(beat, FALSE)
      BY <1>5, <2>1, Zenon DEF Worker!Arrives
    <3>2. beat.state \in {"running", "stopping", "stopped"} /\ beat.ready \in BOOLEAN
          /\ beat.failures \in 0..f /\ beat.loop \in BOOLEAN
      BY DEF Beats
    <3>3. row' \in Rows(f)
      <4>1. row \in Rows(f) /\ FALSE \in BOOLEAN
        BY <1>0
      <4> QED
        <5>1. PICK polled \in BOOLEAN : Worker(f, o, l)!Put(beat, polled)
          BY <3>1, Zenon
        <5> QED
          BY <3>2, <4>1, <5>1, Putting
    <3> QED
      BY <1>0, <3>1, <3>3
  <2>2. CASE ~up
    <3>1. mind' = Worker(f, o, l)!Failure(mind, TRUE) /\ row' = row
      BY <1>5, <2>2 DEF Worker!Arrives
    <3>2. /\ Worker(f, o, l)!Failure(mind, TRUE) \in Minds(f)
          /\ Worker(f, o, l)!Failure(mind, TRUE).ready => mind.ready
      BY <1>0, Noting
    <3> QED
      BY <1>0, <3>1, <3>2
  <2> QED
    BY <2>1, <2>2
<1>6. CASE Worker(f, o, l)!OwnSaid
  <2>1. /\ own.at = "saying" /\ Worker(f, o, l)!Arrives(own)
        /\ own' = [Worker(f, o, l)!Quiet EXCEPT !.at = IF own.loop THEN "waiting" ELSE "none"]
        /\ UNCHANGED <<pc, poll, late, timer, lates, farewell, up, outages>>
    BY <1>6 DEF Worker!OwnSaid, Worker!World
  <2>2. own' \in Beats(f) /\ own'.at = IF own.loop THEN "waiting" ELSE "none"
    <3>1. Worker(f, o, l)!Quiet \in Beats(f)
      BY DEF Worker!Quiet, Beats
    <3> QED
      BY <2>1, <3>1 DEF Beats
  <2>3. mind' \in Minds(f) /\ row' \in Rows(f) /\ (mind'.ready => mind.ready)
    BY <1>0, <1>5, <2>1
  <2> QED
    BY <1>0, <2>1, <2>2, <2>3, WorkerKept DEF BeatOf, Failing
<1>7. CASE Worker(f, o, l)!LateSaid
  <2>1. /\ late.at = "saying" /\ Worker(f, o, l)!Arrives(late) /\ late' = Worker(f, o, l)!Quiet
        /\ UNCHANGED <<pc, poll, own, timer, lates, farewell, up, outages>>
    BY <1>7 DEF Worker!LateSaid, Worker!World
  <2>2. late' \in Beats(f)
    BY <2>1 DEF Worker!Quiet, Beats
  <2>3. mind' \in Minds(f) /\ row' \in Rows(f)
    BY <1>0, <1>5, <2>1
  <2>4. lates # 0
    BY <1>0, <2>1
  <2> QED
    BY <1>0, <2>1, <2>2, <2>3, <2>4, WorkerKept DEF BeatOf, Failing
<1> QED
  BY <1>1, <1>3, <1>4, <1>6, <1>7

LEMMA WorkerStep ==
  ASSUME NEW f \in Nat, NEW o \in Nat, NEW l \in Nat, WorkerInv(f, o, l), Worker(f, o, l)!Next
  PROVE  WorkerInv(f, o, l)'
<1>0. /\ pc \in Locations /\ mind \in Minds(f) /\ poll \in PollsTyped
      /\ own \in Beats(f) /\ late \in Beats(f) /\ row \in Rows(f)
      /\ timer \in BOOLEAN /\ farewell \in BOOLEAN /\ up \in BOOLEAN
      /\ outages \in 0..o /\ lates \in 0..l /\ BeatOf(pc, poll, own)
      /\ lates = 0 => late.at = "none" /\ Failing(pc, poll, own) /\ (poll.failed => ~mind.ready)
  BY WorkerNow
<1>1. CASE Worker(f, o, l)!RequestShutdown
  <2>1. /\ mind' = [mind EXCEPT !.stopping = TRUE] /\ farewell' = TRUE /\ timer' = poll.active
        /\ UNCHANGED <<pc, poll, own, late, row, up, outages, lates>>
    BY <1>1 DEF Worker!RequestShutdown
  <2>2. mind' \in Minds(f) /\ mind'.ready = mind.ready /\ timer' \in BOOLEAN
    BY <1>0, <2>1 DEF Minds, PollsTyped
  <2> QED
    BY <1>0, <2>1, <2>2, WorkerKept
<1>2. CASE Worker(f, o, l)!Farewell
  <2>1. mind' \in Minds(f) /\ row' \in Rows(f) /\ (mind'.ready => mind.ready)
    BY <1>0, <1>2, WorkerRecords DEF Worker!Farewell
  <2>2. farewell' = FALSE /\ UNCHANGED <<pc, up, outages, poll, own, late, timer, lates>>
    BY <1>2 DEF Worker!Farewell, Worker!Loop
  <2> QED
    BY <1>0, <2>1, <2>2, WorkerKept
<1>3. CASE Worker(f, o, l)!ShutdownTimeout
  <2>1. /\ timer' = FALSE
        /\ poll' = [poll EXCEPT !.aborted = Worker(f, o, l)!Aborted("shutdown")]
        /\ UNCHANGED <<pc, mind, own, late, row, lates, farewell, up, outages>>
    BY <1>3 DEF Worker!ShutdownTimeout, Worker!World
  <2>2. poll' \in PollsTyped /\ poll'.job = poll.job /\ poll'.failed = poll.failed
    BY <1>0, <2>1 DEF Worker!Aborted, PollsTyped
  <2> QED
    BY <1>0, <2>1, <2>2, WorkerKept DEF BeatOf, Failing
<1>4. CASE Worker(f, o, l)!Tick
  <2>1. /\ mind' = [mind EXCEPT !.age = Worker(f, o, l)!Older(@)]
        /\ row' = [row EXCEPT !.loop = Worker(f, o, l)!Older(@), !.poll = Worker(f, o, l)!Older(@)]
        /\ UNCHANGED <<pc, poll, own, late, timer, lates, farewell, up, outages>>
    BY <1>4 DEF Worker!Tick, Worker!Loop, Worker!World
  <2>2. \A age \in 0..(Stall + 2) : Worker(f, o, l)!Older(age) \in 0..(Stall + 2)
    BY StallAssumed DEF Worker!Older, Worker!Old
  <2>3. mind' \in Minds(f) /\ mind'.ready = mind.ready /\ row' \in Rows(f)
    BY <1>0, <2>1, <2>2 DEF Minds, Rows
  <2> QED
    BY <1>0, <2>1, <2>3, WorkerKept
<1>5. CASE Worker(f, o, l)!LeaseLost
  <2>1. /\ poll' = [poll EXCEPT !.lost = TRUE] /\ outages' = outages + 1 /\ outages < o
        /\ UNCHANGED <<pc, mind, own, late, timer, row, farewell, up, lates>>
    BY <1>5 DEF Worker!LeaseLost
  <2>2. poll' \in PollsTyped /\ poll'.job = poll.job /\ poll'.failed = poll.failed
    BY <1>0, <2>1 DEF PollsTyped
  <2>3. outages' \in 0..o
    BY <1>0, <2>1
  <2> QED
    BY <1>0, <2>1, <2>2, <2>3, WorkerKept DEF BeatOf, Failing
<1>6. CASE Worker(f, o, l)!Outage
  <2>1. /\ up' = ~up /\ outages' = (IF up THEN outages + 1 ELSE outages)
        /\ up => outages < o
        /\ UNCHANGED <<pc, mind, row, farewell, poll, own, late, timer, lates>>
    BY <1>6 DEF Worker!Outage, Worker!Loop
  <2>2. up' \in BOOLEAN
    BY <2>1
  <2>3. outages' \in 0..o
    BY <1>0, <2>1
  <2> QED
    BY <1>0, <2>1, <2>2, <2>3, WorkerKept
<1> QED
  BY <1>1, <1>2, <1>3, <1>4, <1>5, <1>6, LoopSteps, BeatSteps DEF Worker!Next

\* The two workers that the run checks.
LateBeatInv == WorkerInv(1, 0, MaxLate)
OutageInv == WorkerInv(MaxFailures, MaxOutages, 0)

LEMMA LateBeatStep == LateBeatInv /\ LateBeat!Next => LateBeatInv'
<1>1. LateBeat!Next <=> Worker(1, 0, MaxLate)!Next
  BY DEF LateBeat!Next, LateBeat!LoopStep, LateBeat!Start, LateBeat!Recover, LateBeat!Poll,
         LateBeat!Call, LateBeat!Claim, LateBeat!Report, LateBeat!Settle, LateBeat!Sleep,
         LateBeat!Finish, LateBeat!Beat, LateBeat!OwnAnswered, LateBeat!LateAnswered,
         LateBeat!OwnSaid, LateBeat!LateSaid, LateBeat!RequestShutdown, LateBeat!Farewell,
         LateBeat!ShutdownTimeout, LateBeat!Tick, LateBeat!LeaseLost, LateBeat!Outage,
         LateBeat!Record, LateBeat!Put, LateBeat!Said, LateBeat!State, LateBeat!Ready,
         LateBeat!Observed, LateBeat!Failure, LateBeat!Success, LateBeat!Loop, LateBeat!World,
         LateBeat!KeepsPolling, LateBeat!Over, LateBeat!Noted, LateBeat!Aborted, LateBeat!Saying,
         LateBeat!Renewed, LateBeat!Refused, LateBeat!Arrives, LateBeat!Older, LateBeat!Old,
         LateBeat!NoPoll, LateBeat!Quiet,
         Worker!Next, Worker!LoopStep, Worker!Start, Worker!Recover, Worker!Poll,
         Worker!Call, Worker!Claim, Worker!Report, Worker!Settle, Worker!Sleep,
         Worker!Finish, Worker!Beat, Worker!OwnAnswered, Worker!LateAnswered,
         Worker!OwnSaid, Worker!LateSaid, Worker!RequestShutdown, Worker!Farewell,
         Worker!ShutdownTimeout, Worker!Tick, Worker!LeaseLost, Worker!Outage,
         Worker!Record, Worker!Put, Worker!Said, Worker!State, Worker!Ready,
         Worker!Observed, Worker!Failure, Worker!Success, Worker!Loop, Worker!World,
         Worker!KeepsPolling, Worker!Over, Worker!Noted, Worker!Aborted, Worker!Saying,
         Worker!Renewed, Worker!Refused, Worker!Arrives, Worker!Older, Worker!Old,
         Worker!NoPoll, Worker!Quiet
<1>2. MaxLate \in Nat
  BY ProcessesAssumption DEF LateBeat!ReadinessAssumption
<1> QED
  BY <1>1, <1>2, WorkerStep DEF LateBeatInv

LEMMA OutageStep == OutageInv /\ Outage!Next => OutageInv'
<1>1. Outage!Next <=> Worker(MaxFailures, MaxOutages, 0)!Next
  BY DEF Outage!Next, Outage!LoopStep, Outage!Start, Outage!Recover, Outage!Poll,
         Outage!Call, Outage!Claim, Outage!Report, Outage!Settle, Outage!Sleep,
         Outage!Finish, Outage!Beat, Outage!OwnAnswered, Outage!LateAnswered,
         Outage!OwnSaid, Outage!LateSaid, Outage!RequestShutdown, Outage!Farewell,
         Outage!ShutdownTimeout, Outage!Tick, Outage!LeaseLost, Outage!Outage,
         Outage!Record, Outage!Put, Outage!Said, Outage!State, Outage!Ready,
         Outage!Observed, Outage!Failure, Outage!Success, Outage!Loop, Outage!World,
         Outage!KeepsPolling, Outage!Over, Outage!Noted, Outage!Aborted, Outage!Saying,
         Outage!Renewed, Outage!Refused, Outage!Arrives, Outage!Older, Outage!Old,
         Outage!NoPoll, Outage!Quiet,
         Worker!Next, Worker!LoopStep, Worker!Start, Worker!Recover, Worker!Poll,
         Worker!Call, Worker!Claim, Worker!Report, Worker!Settle, Worker!Sleep,
         Worker!Finish, Worker!Beat, Worker!OwnAnswered, Worker!LateAnswered,
         Worker!OwnSaid, Worker!LateSaid, Worker!RequestShutdown, Worker!Farewell,
         Worker!ShutdownTimeout, Worker!Tick, Worker!LeaseLost, Worker!Outage,
         Worker!Record, Worker!Put, Worker!Said, Worker!State, Worker!Ready,
         Worker!Observed, Worker!Failure, Worker!Success, Worker!Loop, Worker!World,
         Worker!KeepsPolling, Worker!Over, Worker!Noted, Worker!Aborted, Worker!Saying,
         Worker!Renewed, Worker!Refused, Worker!Arrives, Worker!Older, Worker!Old,
         Worker!NoPoll, Worker!Quiet
<1>2. MaxFailures \in Nat /\ MaxOutages \in Nat
  BY ProcessesAssumption DEF Outage!ReadinessAssumption
<1> QED
  BY <1>1, <1>2, WorkerStep DEF OutageInv
-----------------------------------------------------------------------------
(* Tool invocations without faults.                                         *)

\* An invocation begins once and stays begun.
BegunAsItSays ==
  \A i \in Invocations : record[i].begun = IF record[i].status = "none" THEN 0 ELSE 1

ToolsInv == Tools!TypeOK /\ BegunAsItSays

LEMMA ToolsBegin == Tools!Init => ToolsInv
<1> SUFFICES ASSUME Tools!Init PROVE ToolsInv
  OBVIOUS
<1>1. Retries \in Nat
  BY ProcessesAssumption DEF Tools!RetriesAssumption
<1> QED
  BY <1>1 DEF Tools!Init, ToolsInv, Tools!TypeOK, Tools!Record, Tools!Caller, BegunAsItSays

\* What a step may do to the rows and the callers.
RowsOK ==
  /\ record' \in [Invocations -> Tools!Record]
  /\ \A i \in Invocations : record'[i].begun = IF record'[i].status = "none" THEN 0 ELSE 1

LEMMA AnswerStep ==
  ASSUME ToolsInv, NEW c \in Callers,
         NEW said \in {"none", "output", "failure", "refused", "error", "unpublished"},
         Tools!Answer(c, said) \/ (\E i \in Invocations : Tools!Answered(c, i, said))
  PROVE  caller' \in [Callers -> Tools!Caller]
<1>1. Retries \in Nat /\ caller \in [Callers -> Tools!Caller] /\ caller[c] \in Tools!Caller
  BY ProcessesAssumption DEF Tools!RetriesAssumption, ToolsInv, Tools!TypeOK
<1>2. CASE Tools!Answer(c, said)
  <2>1. [caller[c] EXCEPT !.at = "answered", !.answer = said] \in Tools!Caller
    BY <1>1 DEF Tools!Caller
  <2> QED
    BY <1>1, <1>2, <2>1 DEF Tools!Answer
<1>3. CASE \E i \in Invocations : Tools!Answered(c, i, said)
  BY <1>1, <1>3 DEF Tools!Answered, Tools!Caller
<1> QED
  BY <1>2, <1>3

LEMMA EndStep ==
  ASSUME ToolsInv, NEW i, NEW status \in {"succeeded", "failed"}, Tools!End(i, status)
  PROVE  RowsOK
<1>1. record \in [Invocations -> Tools!Record]
  BY DEF ToolsInv, Tools!TypeOK
<1>2. CASE i \in Invocations
  <2> DEFINE ended == [record[i] EXCEPT !.status = status, !.expired = FALSE]
  <2>1. record' = [record EXCEPT ![i] = ended] /\ record[i].status = "running"
    BY DEF Tools!End
  <2>2. /\ ended \in Tools!Record /\ ended.status = status
        /\ ended.begun = record[i].begun /\ record[i].begun = 1
    BY <1>1, <1>2, <2>1 DEF Tools!Record, ToolsInv, BegunAsItSays
  <2> HIDE DEF ended
  <2> QED
    BY <1>1, <1>2, <2>1, <2>2 DEF RowsOK, ToolsInv, BegunAsItSays
<1>3. CASE i \notin Invocations
  <2>1. record' \in [Invocations -> Tools!Record] /\ \A j \in Invocations : record'[j] = record[j]
    BY <1>1, <1>3 DEF Tools!End
  <2> QED
    BY <2>1 DEF RowsOK, ToolsInv, BegunAsItSays
<1> QED
  BY <1>2, <1>3

LEMMA ToolsStep == ToolsInv /\ Tools!Next => ToolsInv'
<1> SUFFICES ASSUME ToolsInv, Tools!Next PROVE ToolsInv'
  OBVIOUS
<1>1. /\ record \in [Invocations -> Tools!Record] /\ caller \in [Callers -> Tools!Caller]
      /\ Retries \in Nat
  BY ProcessesAssumption DEF Tools!RetriesAssumption, ToolsInv, Tools!TypeOK
<1>2. record' = record => RowsOK
  BY <1>1 DEF ToolsInv, BegunAsItSays, RowsOK
<1>3. ASSUME NEW c \in Callers, NEW i \in Invocations, Tools!Replay(c, i) \/ Tools!Refuse(c, i)
      PROVE  RowsOK /\ caller' \in [Callers -> Tools!Caller]
  <2>1. record' = record
        /\ \E said \in {"output", "failure", "refused"} : Tools!Answered(c, i, said)
    BY <1>3 DEF Tools!Replay, Tools!Refuse
  <2> QED
    BY <1>2, <2>1, AnswerStep
<1>4. ASSUME NEW c \in Callers, NEW i \in Invocations, Tools!Acquire(c, i)
      PROVE  RowsOK /\ caller' \in [Callers -> Tools!Caller]
  <2> DEFINE begun == [record[i] EXCEPT !.status = "running", !.begun = 1]
  <2>1. record' = [record EXCEPT ![i] = begun] /\ record[i].status = "none"
    <3>1. record[i].status = "none" /\ record[i].begun + 1 = 1
      BY <1>4 DEF Tools!Acquire, ToolsInv, BegunAsItSays
    <3>2. record' = [record EXCEPT ![i].status = "running", ![i].begun = record[i].begun + 1]
      BY <1>4 DEF Tools!Acquire
    <3> QED
      BY <3>1, <3>2
  <2>2. begun \in Tools!Record /\ begun.status = "running" /\ begun.begun = 1
    <3>1. record[i] \in Tools!Record
      BY <1>1
    <3>2. 1 \in 0..2
      OBVIOUS
    <3>3. begun \in Tools!Record
      BY <3>1, <3>2 DEF Tools!Record
    <3>4. begun.status = "running" /\ begun.begun = 1
      BY <3>1 DEF Tools!Record
    <3> QED
      BY <3>3, <3>4
  <2> HIDE DEF begun
  <2>3. RowsOK
    BY <1>1, <2>1, <2>2 DEF RowsOK, ToolsInv, BegunAsItSays
  <2>4. caller' = [caller EXCEPT ![c].at = "attempting", ![c].of = i]
    BY <1>4 DEF Tools!Acquire
  <2>5. [caller[c] EXCEPT !.at = "attempting", !.of = i] \in Tools!Caller
    BY <1>1 DEF Tools!Caller
  <2> QED
    BY <1>1, <2>3, <2>4, <2>5
<1>5. ASSUME NEW c \in Callers, Tools!Working(c)
      PROVE  RowsOK /\ caller' \in [Callers -> Tools!Caller]
  <2>0. caller[c] \in Tools!Caller
    BY <1>1
  <2>1. CASE Tools!HandlerReturns(c)
    <3>1. [caller[c] EXCEPT !.at = "completing"] \in Tools!Caller
      BY <2>0 DEF Tools!Caller
    <3> QED
      BY <1>1, <1>2, <2>1, <3>1 DEF Tools!HandlerReturns
  <2>2. CASE \E retryable \in BOOLEAN : Tools!HandlerFails(c, retryable)
    <3>1. [caller[c] EXCEPT !.at = "failing"] \in Tools!Caller
      BY <2>0 DEF Tools!Caller
    <3>2. caller[c].retries < Retries => [caller[c] EXCEPT !.retries = @ + 1] \in Tools!Caller
      BY <1>1, <2>0 DEF Tools!Caller
    <3> QED
      BY <1>1, <1>2, <2>2, <3>1, <3>2 DEF Tools!HandlerFails
  <2>3. CASE Tools!Complete(c)
    <3>1. RowsOK
      BY <1>2, <2>3, EndStep DEF Tools!Complete, Tools!Finish
    <3>2. \E said \in {"output", "error"} : Tools!Answer(c, said)
      BY <2>3 DEF Tools!Complete, Tools!Finish
    <3> QED
      BY <3>1, <3>2, AnswerStep
  <2>4. CASE Tools!Fail(c)
    <3>1. RowsOK
      BY <1>2, <2>4, EndStep DEF Tools!Fail, Tools!Finish
    <3>2. \E said \in {"failure", "error"} : Tools!Answer(c, said)
      BY <2>4 DEF Tools!Fail, Tools!Finish
    <3> QED
      BY <3>1, <3>2, AnswerStep
  <2> QED
    BY <1>5, <2>1, <2>2, <2>3, <2>4 DEF Tools!Working
<1>6. ASSUME NEW i \in Invocations, Tools!Recover(i) \/ Tools!Expire(i)
      PROVE  RowsOK /\ caller' \in [Callers -> Tools!Caller]
  <2>1. caller' = caller
    BY <1>6 DEF Tools!Recover, Tools!Expire
  <2>2. CASE Tools!Recover(i)
    BY <1>1, <2>1, <2>2, EndStep DEF Tools!Recover
  <2>3. CASE Tools!Expire(i)
    <3> DEFINE expired == [record[i] EXCEPT !.expired = TRUE]
    <3>1. record' = [record EXCEPT ![i] = expired]
      BY <2>3 DEF Tools!Expire
    <3>2. /\ expired \in Tools!Record /\ expired.status = record[i].status
          /\ expired.begun = record[i].begun
      BY <1>1 DEF Tools!Record
    <3> HIDE DEF expired
    <3> QED
      BY <1>1, <2>1, <3>1, <3>2 DEF RowsOK, ToolsInv, BegunAsItSays
  <2> QED
    BY <1>6, <2>2, <2>3
<1>7. RowsOK /\ caller' \in [Callers -> Tools!Caller]
  BY <1>3, <1>4, <1>5, <1>6 DEF Tools!Next, Tools!Crash
<1> QED
  BY <1>7 DEF RowsOK, ToolsInv, Tools!TypeOK, BegunAsItSays
-----------------------------------------------------------------------------
(* All parts together.                                                      *)

ProcessesInv ==
  /\ part = "probed circuit" => ProbedInv
  /\ part = "circuit" => CircuitInv
  /\ part = "shutdown" => ShutdownInv
  /\ part = "events" => EventsInv
  /\ part = "deadline" => DeadlineInv
  /\ part = "limiter" => LimiterInv
  /\ part = "late beat" => LateBeatInv
  /\ part = "outage" => OutageInv
  /\ part = "tools" => ToolsInv

LEMMA Bounds ==
  /\ {MinimumSamples, FailureThreshold, HalfOpenMaxCalls, MaxSamples} \subseteq Nat \ {0}
  /\ MaxFailures \in Nat /\ MaxOutages \in Nat /\ MaxLate \in Nat
BY ProcessesAssumption
DEF Probed!LimitsAssumption, LateBeat!ReadinessAssumption, Outage!ReadinessAssumption

LEMMA ProcessesBegin == Init => ProcessesInv
<1> SUFFICES ASSUME Init PROVE ProcessesInv
  OBVIOUS
<1>1. ProbedInv
  BY Bounds, BreakerBegins DEF Init, ProbedInv
<1>3. CircuitInv
  <2>1. {1, 2} \subseteq Nat \ {0}
    OBVIOUS
  <2> QED
    BY <2>1, BreakerBegins DEF Init, CircuitInv
<1>2. LateBeatInv /\ OutageInv
  BY Bounds, WorkerBegins DEF Init, LateBeatInv, OutageInv
<1> QED
  BY <1>1, <1>2, <1>3, ShutdownBegins, EventsBegin, DeadlineBegins, LimiterBegins, ToolsBegin
  DEF Init, ProcessesInv

\* A part that nothing happens to.
LEMMA PartsStay ==
  /\ UNCHANGED circuitVars => (ProbedInv => ProbedInv') /\ (CircuitInv => CircuitInv')
  /\ UNCHANGED shutdownVars => (ShutdownInv => ShutdownInv')
  /\ UNCHANGED eventVars => (EventsInv => EventsInv')
  /\ UNCHANGED deadlineVars => (DeadlineInv => DeadlineInv')
  /\ UNCHANGED limiterVars => (LimiterInv => LimiterInv')
  /\ UNCHANGED workerVars => (LateBeatInv => LateBeatInv') /\ (OutageInv => OutageInv')
  /\ UNCHANGED toolVars => (ToolsInv => ToolsInv')
<1>1. UNCHANGED circuitVars => (ProbedInv => ProbedInv') /\ (CircuitInv => CircuitInv')
  BY DEF circuitVars, ProbedInv, CircuitInv, BreakerInv, Breaker!TypeOK, Breaker!ProbesAreCounted,
         Breaker!ClosedIsHealthy, Breaker!FailureReopens, Breaker!MustOpen, Breaker!Failures
<1>2. UNCHANGED shutdownVars => (ShutdownInv => ShutdownInv')
  <2> SUFFICES ASSUME UNCHANGED shutdownVars, ShutdownInv PROVE ShutdownInv'
    OBVIOUS
  <2>1. /\ phase' = phase /\ tasks' = tasks /\ run' = run /\ failed' = failed
        /\ force' = force /\ exit' = exit
    BY DEF shutdownVars
  <2>2. Shutdown!TypeOK' /\ Shutdown!TasksRunInOrder'
    BY <2>1 DEF ShutdownInv, Shutdown!TypeOK, Shutdown!TasksRunInOrder
  <2>3. Reported'
    BY <2>1 DEF ShutdownInv, Reported
  <2> QED
    BY <2>2, <2>3 DEF ShutdownInv
<1>3. UNCHANGED eventVars => (EventsInv => EventsInv')
  BY DEF eventVars, EventsInv, Events!TypeOK, ReadsRows, Events!ObservedWhileHeard,
         Events!PollingEnds, Events!Subscribed
<1>4. UNCHANGED deadlineVars => (DeadlineInv => DeadlineInv')
  BY DEF deadlineVars, DeadlineInv, Deadline!TypeOK, Attempts, Deadline!SleepsWithinDeadline,
         Deadline!DisconnectIsNoTimeout
<1>5. UNCHANGED limiterVars => (LimiterInv => LimiterInv')
  BY DEF limiterVars, LimiterInv, Limited, TransactionOK
<1>6. UNCHANGED workerVars => (LateBeatInv => LateBeatInv') /\ (OutageInv => OutageInv')
  BY DEF workerVars, LateBeatInv, OutageInv, WorkerInv, BeatOf, Failing
<1>7. UNCHANGED toolVars => (ToolsInv => ToolsInv')
  BY DEF toolVars, ToolsInv, Tools!TypeOK, BegunAsItSays
<1> QED
  BY <1>1, <1>2, <1>3, <1>4, <1>5, <1>6, <1>7

\* The part at work keeps its invariant and what it promises of its steps.
Stands ==
  /\ part = "probed circuit" => Probed!ClosesAfterLastProbe
  /\ part = "shutdown" => Shutdown!ResultIsFinal
  /\ part = "deadline" => Deadline!NoLateAttempt /\ Deadline!FirstResponseStands

LEMMA ProcessesStep == ProcessesInv /\ [Next]_vars => ProcessesInv' /\ [Stands]_vars
<1> SUFFICES ASSUME ProcessesInv, [Next]_vars PROVE ProcessesInv' /\ [Stands]_vars
  OBVIOUS
<1>1. CASE Admitting
  <2>1. part' = part /\ part \in {"probed circuit", "circuit"}
    BY <1>1 DEF Admitting, CircuitOnly
  <2>2. part = "probed circuit" => ProbedInv' /\ Probed!ClosesAfterLastProbe
    BY <1>1, ProbedStep DEF Admitting, ProcessesInv
  <2>3. part = "circuit" => CircuitInv'
    BY <1>1, CircuitStep DEF Admitting, ProcessesInv
  <2> QED
    BY <2>1, <2>2, <2>3 DEF ProcessesInv, Stands
<1>2. CASE Stopping
  BY <1>2, ShutdownStep DEF Stopping, ShutdownOnly, ProcessesInv, Stands
<1>3. CASE Streaming
  BY <1>3, EventsStep DEF Streaming, EventsOnly, ProcessesInv, Stands
<1>4. CASE Answering
  BY <1>4, DeadlineStep DEF Answering, DeadlineOnly, ProcessesInv, Stands, DeadlineSays
<1>5. CASE Limiting
  BY <1>5, LimiterStep DEF Limiting, LimiterOnly, ProcessesInv, Stands
<1>6. CASE Polling
  <2>1. part' = part /\ part \in {"late beat", "outage"}
    BY <1>6 DEF Polling, WorkerOnly
  <2>2. part = "late beat" => LateBeatInv'
    BY <1>6, LateBeatStep DEF Polling, ProcessesInv
  <2>3. part = "outage" => OutageInv'
    BY <1>6, OutageStep DEF Polling, ProcessesInv
  <2> QED
    BY <2>1, <2>2, <2>3 DEF ProcessesInv, Stands
<1>7. CASE Invoking
  BY <1>7, ToolsStep DEF Invoking, ToolsOnly, ProcessesInv, Stands
<1>8. CASE UNCHANGED vars
  BY <1>8, PartsStay DEF vars, ProcessesInv
<1> QED
  BY <1>1, <1>2, <1>3, <1>4, <1>5, <1>6, <1>7, <1>8 DEF Next

LEMMA ProcessesAlways == Spec => []ProcessesInv
BY ProcessesBegin, ProcessesStep, PTL DEF Spec

\* Every part keeps the kinds of its state, and with them the bounds that its
\* fields stand for: probes, attempts, rows removed at a time, locks of one
\* request, failures counted.
THEOREM TypesHold == Spec => []TypesKept
<1>1. ASSUME ProcessesInv PROVE TypesKept
  <2>1. ProbedInv => Probed!TypeOK
    BY DEF ProbedInv, BreakerInv, Breaker!TypeOK, Probed!TypeOK
  <2>2. CircuitInv => Circuit!TypeOK
    BY DEF CircuitInv, BreakerInv, Breaker!TypeOK, Circuit!TypeOK
  <2>3. LateBeatInv => LateBeat!TypeOK
    <3>1. LateBeat!TypeOK <=> Worker(1, 0, MaxLate)!TypeOK
      BY DEF LateBeat!TypeOK, LateBeat!Ages, LateBeat!Never, Worker!TypeOK, Worker!Ages,
             Worker!Never
    <3> QED
      BY <3>1, WorkerSays DEF LateBeatInv
  <2>4. OutageInv => Outage!TypeOK
    <3>1. Outage!TypeOK <=> Worker(MaxFailures, MaxOutages, 0)!TypeOK
      BY DEF Outage!TypeOK, Outage!Ages, Outage!Never, Worker!TypeOK, Worker!Ages, Worker!Never
    <3> QED
      BY <3>1, WorkerSays DEF OutageInv
  <2>5. /\ ShutdownInv => Shutdown!TypeOK
        /\ EventsInv => Events!TypeOK
        /\ DeadlineInv => Deadline!TypeOK
        /\ ToolsInv => Tools!TypeOK
    BY DEF ShutdownInv, EventsInv, DeadlineInv, ToolsInv
  <2> QED
    BY <1>1, <2>1, <2>2, <2>3, <2>4, <2>5, LimiterSays DEF ProcessesInv, TypesKept
<1> QED
  BY <1>1, ProcessesAlways, PTL

\* What a process keeps agrees with what is under way: a half-open circuit
\* counts its own probes and a closed one has no reason to be open, the store
\* is polled while someone listens, tasks of a shutdown run one after the
\* other, a clean exit is one, no sleep passes the deadline, and a worker whose
\* heartbeat failed is unready.
THEOREM UnderWayKept == Spec => []KeepsWhatIsUnderWay
<1>1. ASSUME ProcessesInv PROVE KeepsWhatIsUnderWay
  <2>1. ProbedInv => Probed!ProbesAreCounted /\ Probed!ClosedIsHealthy /\ Probed!FailureReopens
    BY DEF ProbedInv, BreakerInv, Breaker!ProbesAreCounted, Breaker!ClosedIsHealthy,
           Breaker!FailureReopens, Probed!ProbesAreCounted, Probed!ClosedIsHealthy,
           Probed!FailureReopens, Probed!MustOpen, Breaker!MustOpen, Probed!Failures,
           Breaker!Failures, Probed!Cardinality, Breaker!Cardinality
  <2>2. OutageInv => Outage!FailedBeatUnready
    <3>1. Outage!FailedBeatUnready <=> Worker(MaxFailures, MaxOutages, 0)!FailedBeatUnready
      BY DEF Outage!FailedBeatUnready, Worker!FailedBeatUnready
    <3> QED
      BY <3>1, WorkerSays DEF OutageInv
  <2>3. /\ ShutdownInv => Shutdown!TasksRunInOrder
        /\ EventsInv => Events!ObservedWhileHeard /\ Events!PollingEnds
        /\ DeadlineInv => Deadline!SleepsWithinDeadline /\ Deadline!DisconnectIsNoTimeout
    BY DEF ShutdownInv, EventsInv, DeadlineInv
  <2> QED
    BY <1>1, <2>1, <2>2, <2>3, ShutdownSays DEF ProcessesInv, KeepsWhatIsUnderWay
<1> QED
  BY <1>1, ProcessesAlways, PTL

\* A circuit closes with its last probe only, an exit code and a response are
\* given once, and no attempt begins after the deadline.
THEOREM OutcomesKept == Spec => OutcomesStand
<1>1. ProcessesInv /\ [Next]_vars => [Stands]_vars
  BY ProcessesStep
<1> QED
  BY <1>1, ProcessesAlways, PTL DEF Spec, OutcomesStand, Stands
=============================================================================
