---------------------------- MODULE MCProcesses ----------------------------
(***************************************************************************)
(* What runs in one process and has to come to an end: the circuit of a     *)
(* dependency, the shutdown, the streams of progress events, a request with *)
(* its deadline, the rate limiter's transactions, the indexing worker's     *)
(* loop, and tool invocations without faults.  These components share no    *)
(* state in the models, so one run checks them side by side: "part" says    *)
(* which one a behaviour is about, and the others stay as they began.  The  *)
(* fairness of each is that of its module, while it is the part at work.    *)
(***************************************************************************)
EXTENDS Naturals, FiniteSets, Sequences, TLC

CONSTANTS
  Calls, MinimumSamples, FailureThreshold, HalfOpenMaxCalls, MaxSamples,  \* of CircuitBreaker
  TaskCount,                                           \* of ShutdownCoordinator
  Streams, LastRow, Terminal, Polls, MaxQueue,         \* of ProgressEvents
  RequestTimeout, CallTimeout, MaxAttempts, Delays, Horizon,  \* of RequestDeadline
  Requests, Keys, Limit, Window, Batch, MaxClock, MaxTries,   \* of RateLimit
  MaxFailures, Stall, MaxOutages, MaxLate,             \* of WorkerReadiness
  Invocations, Callers, Retries, Parallel,             \* of ToolInvocation
  None

VARIABLES
  part,
  circuit, samples, calls,                        \* CircuitBreaker
  phase, tasks, run, failed, force, exit,         \* ShutdownCoordinator
  latest, observation, streams, polls,            \* ProgressEvents
  now, request, call, retry, handler, sent,       \* RequestDeadline
  count, lock, counting, tries, passed, clock,    \* RateLimit
  pc, mind, poll, own, late, timer, farewell, row, up, outages, lates,  \* WorkerReadiness
  record, caller                                  \* ToolInvocation

circuitVars == <<circuit, samples, calls>>
shutdownVars == <<phase, tasks, run, failed, force, exit>>
eventVars == <<latest, observation, streams, polls>>
deadlineVars == <<now, request, call, retry, handler, sent>>
limiterVars == <<count, lock, counting, tries, passed, clock>>
workerVars == <<pc, mind, poll, own, late, timer, farewell, row, up, outages, lates>>
toolVars == <<record, caller>>

\* Any circuit; or one probe at a time, the default.
Probed == INSTANCE CircuitBreaker
Circuit == INSTANCE CircuitBreaker WITH
  MinimumSamples <- 2, FailureThreshold <- 1, HalfOpenMaxCalls <- 1, MaxSamples <- 2

Shutdown == INSTANCE ShutdownCoordinator

Events == INSTANCE ProgressEvents WITH row <- latest

\* A call whose second delay may be too long for what remains.
MCDelays == <<{1, 2}, {2, 3}, {}>>
Deadline == INSTANCE RequestDeadline

Limiter == INSTANCE RateLimit WITH row <- count, request <- counting

\* A heartbeat that is late; or an outage of the database or a lost lease.
LateBeat == INSTANCE WorkerReadiness WITH MaxFailures <- 1, MaxOutages <- 0
Outage == INSTANCE WorkerReadiness WITH MaxLate <- 0

\* A backend may still start and recover.
Tools == INSTANCE ToolInvocation WITH Faults <- FALSE

ASSUME ProcessesAssumption ==
  /\ Probed!LimitsAssumption /\ Probed!CallsAssumption
  /\ Circuit!LimitsAssumption /\ Circuit!CallsAssumption
  /\ Shutdown!TaskCountAssumption
  /\ Events!RowsAssumption /\ Events!QueueAssumption
  /\ Deadline!DeadlineAssumption
  /\ Limiter!RateLimitAssumption
  /\ LateBeat!ReadinessAssumption /\ Outage!ReadinessAssumption
  /\ Tools!RetriesAssumption /\ Tools!FaultsAssumption

Init ==
  /\ part \in {"probed circuit", "circuit", "shutdown", "events", "deadline", "limiter",
               "late beat", "outage", "tools"}
  /\ Circuit!Init /\ Shutdown!Init /\ Events!Init /\ Deadline!Init /\ Limiter!Init
  /\ Outage!Init /\ Tools!Init

\* A step of one part leaves what the others keep as it is.
CircuitOnly ==
  UNCHANGED <<part, shutdownVars, eventVars, deadlineVars, limiterVars, workerVars, toolVars>>
ShutdownOnly ==
  UNCHANGED <<part, circuitVars, eventVars, deadlineVars, limiterVars, workerVars, toolVars>>
EventsOnly ==
  UNCHANGED <<part, circuitVars, shutdownVars, deadlineVars, limiterVars, workerVars, toolVars>>
DeadlineOnly ==
  UNCHANGED <<part, circuitVars, shutdownVars, eventVars, limiterVars, workerVars, toolVars>>
LimiterOnly ==
  UNCHANGED <<part, circuitVars, shutdownVars, eventVars, deadlineVars, workerVars, toolVars>>
WorkerOnly ==
  UNCHANGED <<part, circuitVars, shutdownVars, eventVars, deadlineVars, limiterVars, toolVars>>
ToolsOnly ==
  UNCHANGED <<part, circuitVars, shutdownVars, eventVars, deadlineVars, limiterVars, workerVars>>

Admitting ==
  /\ \/ part = "probed circuit" /\ Probed!Next
     \/ part = "circuit" /\ Circuit!Next
  /\ CircuitOnly
Stopping ==
  /\ part = "shutdown" /\ Shutdown!Next
  /\ ShutdownOnly
Streaming ==
  /\ part = "events" /\ Events!Next
  /\ EventsOnly
Answering ==
  /\ part = "deadline" /\ Deadline!Next
  /\ DeadlineOnly
Limiting ==
  /\ part = "limiter" /\ Limiter!Next
  /\ LimiterOnly
Polling ==
  /\ \/ part = "late beat" /\ LateBeat!Next
     \/ part = "outage" /\ Outage!Next
  /\ WorkerOnly
Invoking ==
  /\ part = "tools" /\ Tools!Next
  /\ ToolsOnly

Next ==
  Admitting \/ Stopping \/ Streaming \/ Answering \/ Limiting \/ Polling \/ Invoking

vars ==
  <<part, circuitVars, shutdownVars, eventVars, deadlineVars, limiterVars, workerVars, toolVars>>

(***************************************************************************)
(* The fairness of each module, for the behaviours that are about it.       *)
(***************************************************************************)
Fairness ==
  /\ WF_circuitVars(part = "circuit" /\ Circuit!CooldownEnds)
  /\ \A c \in Calls : /\ WF_circuitVars(part = "circuit" /\ Circuit!Start(c))
                    /\ WF_circuitVars(part = "circuit" /\ Circuit!End(c))
  /\ WF_shutdownVars(part = "shutdown" /\ Shutdown!Timeout)
  /\ WF_shutdownVars(part = "shutdown" /\ Shutdown!ForceGoesOn)
  /\ WF_shutdownVars(part = "shutdown" /\ \E succeeds \in BOOLEAN : Shutdown!FlushEnds(succeeds))
  /\ WF_eventVars(part = "events" /\ \E p \in Polls : Events!StartPoll(p))
  /\ SF_eventVars(part = "events" /\ \E p \in Polls : Events!PollReads(p))
  /\ SF_eventVars(part = "events" /\ \E p \in Polls : Events!PollAnswers(p))
  /\ WF_eventVars(part = "events" /\ Events!JobAdvances)
  /\ \A s \in Streams : WF_eventVars(part = "events" /\ Events!Deliver(s))
  /\ WF_deadlineVars(part = "deadline" /\ Deadline!Tick)
  /\ WF_deadlineVars(part = "deadline" /\ Deadline!Expire)
  /\ \A r \in Requests : WF_limiterVars(part = "limiter" /\ Limiter!Works(r))
  /\ WF_workerVars(part = "late beat" /\ LateBeat!LoopStep)
  /\ WF_workerVars(part = "outage" /\ Outage!LoopStep)
  /\ \A c \in Callers : WF_toolVars(part = "tools" /\ Tools!Working(c))

Spec == Init /\ [][Next]_vars /\ Fairness

-----------------------------------------------------------------------------
(***************************************************************************)
(* Properties: of every part what its module says of it.                    *)
(***************************************************************************)
TypesKept ==
  /\ part = "probed circuit" => Probed!TypeOK
  /\ part = "circuit" => Circuit!TypeOK
  /\ part = "shutdown" => Shutdown!TypeOK
  /\ part = "events" => Events!TypeOK
  /\ part = "deadline" => Deadline!TypeOK
  /\ part = "limiter" => Limiter!TypeOK
  /\ part = "late beat" => LateBeat!TypeOK
  /\ part = "outage" => Outage!TypeOK
  /\ part = "tools" => Tools!TypeOK

\* What a process keeps agrees with what is under way, whatever answers late:
\* a half-open circuit counts its own probes and a closed one has no reason
\* to be open; the store is polled while someone listens, by a poll that will
\* end; tasks of the shutdown run one after the other and a clean exit is
\* one; a call sleeps no longer than its deadline lets it; a worker whose
\* heartbeat failed is unready.
KeepsWhatIsUnderWay ==
  /\ part = "probed circuit" =>
       Probed!ProbesAreCounted /\ Probed!ClosedIsHealthy /\ Probed!FailureReopens
  /\ part = "shutdown" => Shutdown!TasksRunInOrder /\ Shutdown!CleanExitIsClean
  /\ part = "events" => Events!ObservedWhileHeard /\ Events!PollingEnds
  /\ part = "deadline" => Deadline!SleepsWithinDeadline /\ Deadline!DisconnectIsNoTimeout
  /\ part = "outage" => Outage!FailedBeatUnready

\* A circuit closes with its last probe only, an exit code and a response are
\* given once, and no attempt begins after the deadline.
OutcomesStand ==
  [][/\ part = "probed circuit" => Probed!ClosesAfterLastProbe
     /\ part = "shutdown" => Shutdown!ResultIsFinal
     /\ part = "deadline" => Deadline!NoLateAttempt /\ Deadline!FirstResponseStands]_vars

\* Everything that was begun ends: the circuit closes again when the
\* dependency has recovered, the process stops, the streams that began in
\* step are closed, the request is answered, counted and let through or
\* refused, the worker is ready again or stops, and invocations end.
EverythingEnds ==
  /\ part = "circuit" => Circuit!RecoversWithDependency
  /\ Shutdown!ShutdownEnds
  /\ Events!StreamsInStepClose
  /\ part = "deadline" => Deadline!Answered
  /\ Limiter!Answered
  /\ part \in {"late beat", "outage"} => Outage!Restored
  /\ Outage!Stops
  /\ Tools!EveryInvocationEnds
=============================================================================
