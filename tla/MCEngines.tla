----------------------------- MODULE MCEngines -----------------------------
(***************************************************************************)
(* The engines that plan, carry out and deliver agents' work share no state *)
(* in these models, so one run checks them side by side: "part" says which  *)
(* one a behaviour is about, and the others keep nothing.  The change       *)
(* pipeline is extended, since theorems are stated about it.                *)
(***************************************************************************)
EXTENDS ChangePipeline, TLC

CONSTANTS
  Firsts, Seconds,  \* two actors, and two things they act on
  theArtifact, theReview,
  AgentRuntimes, AgentRetries, AgentLeases, AgentAttempts,  \* of AgentRuntime
  ToolRetries, ToolParallel,         \* of ToolInvocation
  FlowStages, FlowExecution, FlowCalls, FlowAgain, FlowRetries, FlowResumes, \* of AutonomousWorkflow
  ApiRequests, ApiKey, ApiExpected   \* of PlatformIdempotency

VARIABLES
  part,
  run, counted,                                          \* RepositoryExecution
  runtime, executor, candidate,                          \* AgentRuntime
  record, caller,                                        \* ToolInvocation
  session, outcome, stale, expired,                      \* MultiAgentCollaboration
  flow, lapsed, current, made, execution, consent, stager, user,  \* AutonomousWorkflow
  version, keyed, forgotten, phase, result, answer       \* PlatformIdempotency

executionVars == <<run, counted>>
agentVars == <<runtime, executor, candidate>>
toolVars == <<record, caller>>
collaborationVars == <<session, outcome, stale, expired>>
workflowVars == <<flow, lapsed, current, made, execution, consent, stager, user>>
platformVars == <<version, keyed, forgotten, phase, result, answer>>

\* One artifact with its review, and two versions of everything; or callers
\* that take their time, and one version of all but the transaction; or such
\* callers and two versions of the artifact alone.
MCSubject == [x \in {theReview} |-> theArtifact]
MCMaxVersion == [n \in Names |-> 2]
Slow == INSTANCE ChangePipeline WITH
  SlowCallers <- TRUE,
  MaxVersion <- [n \in Names |-> IF n = "transaction" THEN 0 ELSE 1]
Late == INSTANCE ChangePipeline WITH
  SlowCallers <- TRUE,
  MaxVersion <- [n \in Names |->
                   CASE n = "workspace" -> 1 [] n \in Artifacts -> 2 [] OTHER -> 0]

\* A chain of two units and a third beside it, in the memory store; the chain
\* in the procedures, with an attempt more than allowed; or three units of a
\* user who may have one lease out, and two calls for a unit at a time.
Memory == INSTANCE RepositoryExecution WITH
  Runs <- {"r"}, Units <- 1..3, Needs <- <<{}, {1}, {}>>, Durable <- FALSE,
  MaxAttempts <- 2, MaxActive <- 1, MaxLeases <- 2, Calls <- 1, AttemptBound <- 2
DurableRun == INSTANCE RepositoryExecution WITH
  Runs <- {"r"}, Units <- 1..2, Needs <- <<{}, {1}>>, Durable <- TRUE,
  MaxAttempts <- 2, MaxActive <- 1, MaxLeases <- 2, Calls <- 1, AttemptBound <- 3
SharedRuns == INSTANCE RepositoryExecution WITH
  Runs <- {"r"}, Units <- 1..3, Needs <- <<{}, {}, {}>>, Durable <- TRUE,
  MaxAttempts <- 1, MaxActive <- 1, MaxLeases <- 1, Calls <- 2, AttemptBound <- 1

Agents == INSTANCE AgentRuntime WITH
  Runtimes <- AgentRuntimes, Executors <- Firsts, Retries <- AgentRetries,
  MaxLeases <- AgentLeases, AttemptBound <- AgentAttempts

\* Three callers of two invocations, with store calls that fail and crashes.
Tools == INSTANCE ToolInvocation WITH
  Invocations <- Seconds, Callers <- Firsts \union {"c"},
  Retries <- ToolRetries, Parallel <- ToolParallel, Faults <- TRUE

\* Any collaborations: a contributor, the coordinator and a reviewer, and a unit
\* that is reviewed; a unit that builds on it, both the coordinator's; or two
\* servers, with one unit and two participants.
Meeting(of) == INSTANCE MultiAgentCollaboration WITH
  Servers <- of.servers, Units <- of.units, Participants <- of.participants, Role <- of.role,
  Eligible <- of.eligible, Prerequisites <- of.prerequisites, Reviewed <- of.reviewed,
  Order <- of.order, RetryLimit <- of.retries, PendingReviews <- of.pending
OneUnit ==
  [servers |-> {"s"}, units |-> {"a"}, participants |-> 1..3,
   role |-> <<"contributor", "coordinator", "reviewer">>,
   eligible |-> [u \in {"a"} |-> {1, 2}], prerequisites |-> [u \in {"a"} |-> {}],
   reviewed |-> {"a"}, order |-> <<"a">>, retries |-> 1, pending |-> 1]
Chained ==
  [servers |-> {"s"}, units |-> {"a", "b"}, participants |-> 1..3,
   role |-> <<"contributor", "coordinator", "reviewer">>,
   eligible |-> [u \in {"a", "b"} |-> {2}],
   prerequisites |-> [u \in {"a", "b"} |-> IF u = "b" THEN {"a"} ELSE {}],
   reviewed |-> {"a"}, order |-> <<"a", "b">>, retries |-> 0, pending |-> 1]
ServedTwice ==
  [servers |-> Firsts, units |-> {"a"}, participants |-> 1..2,
   role |-> <<"contributor", "coordinator">>,
   eligible |-> [u \in {"a"} |-> {1, 2}], prerequisites |-> [u \in {"a"} |-> {}],
   reviewed |-> {"a"}, order |-> <<"a">>, retries |-> 0, pending |-> 2]

\* The execution's stage, whose one call may be repeated, and one of two calls
\* of which none may; or stages that are asked for in two ways.
MCFlowCalls == <<1, 2>>
MCFlowAgain == <<1, 0>>
Flow(of) == INSTANCE AutonomousWorkflow WITH
  Callers <- of.callers, Payloads <- of.payloads, StageCount <- of.stages,
  Execution <- of.execution, Calls <- of.calls, Again <- of.again, Retries <- of.retries,
  Resumes <- of.resumes, expired <- lapsed, caller <- stager
Staged ==
  [callers |-> Firsts, payloads |-> {"p"}, stages |-> FlowStages, execution |-> FlowExecution,
   calls |-> FlowCalls, again |-> FlowAgain, retries |-> FlowRetries, resumes |-> FlowResumes]
AskedTwice ==
  [callers |-> Firsts, payloads |-> Seconds, stages |-> 2, execution |-> 1,
   calls |-> <<1, 1>>, again |-> <<1, 0>>, retries |-> 1, resumes |-> 0]

\* Under key k a request that is sent twice and one with another payload;
\* under l one more for the first version.
MCApiKey == [r \in ApiRequests |-> IF r = "d" THEN "l" ELSE "k"]
MCApiExpected == [r \in ApiRequests |-> IF r = "c" THEN 2 ELSE 1]
Platform == INSTANCE PlatformIdempotency WITH
  Requests <- ApiRequests, Key <- ApiKey, Expected <- ApiExpected,
  record <- keyed, expired <- forgotten

ASSUME EnginesAssumption ==
  /\ Memory!NeedsAssumption /\ Memory!DurableAssumption /\ Memory!AttemptsAssumption
  /\ DurableRun!NeedsAssumption /\ DurableRun!DurableAssumption /\ DurableRun!AttemptsAssumption
  /\ SharedRuns!NeedsAssumption /\ SharedRuns!AttemptsAssumption
  /\ Memory!LeasesAssumption /\ DurableRun!LeasesAssumption /\ SharedRuns!LeasesAssumption
  /\ Agents!AttemptsAssumption /\ Agents!NoneAssumption
  /\ Tools!RetriesAssumption /\ Tools!FaultsAssumption
  /\ Meeting(OneUnit)!CollaborationAssumption /\ Meeting(Chained)!CollaborationAssumption
  /\ Meeting(ServedTwice)!CollaborationAssumption
  /\ Flow(Staged)!WorkflowAssumption /\ Flow(AskedTwice)!WorkflowAssumption
  /\ Platform!IdempotencyAssumption

Symmetry == Permutations(Firsts) \union Permutations(Seconds)

\* What an engine keeps that a behaviour is not about.
NoExecution == run = None /\ counted = None
NoAgents == runtime = None /\ executor = None /\ candidate = None
NoTools == record = None /\ caller = None
NoCollaboration == session = None /\ outcome = None /\ stale = None /\ expired = None
NoWorkflow ==
  flow = None /\ lapsed = None /\ current = None /\ made = None /\ execution = None /\
  consent = None /\ stager = None /\ user = None
NoPlatform ==
  version = None /\ keyed = None /\ forgotten = None /\ phase = None /\ result = None /\
  answer = None

EnginesInit ==
  /\ part \in {"pipeline", "slow pipeline", "late decisions", "execution", "durable execution",
               "shared executions", "agents", "tools", "collaboration", "chained",
               "served twice", "workflow", "asked twice", "platform"}
  /\ Init
  /\ CASE part = "execution" -> Memory!Init
       [] part = "durable execution" -> DurableRun!Init
       [] part = "shared executions" -> SharedRuns!Init
       [] OTHER -> NoExecution
  /\ IF part = "agents" THEN Agents!Init ELSE NoAgents
  /\ IF part = "tools" THEN Tools!Init ELSE NoTools
  /\ CASE part = "collaboration" -> Meeting(OneUnit)!Init
       [] part = "chained" -> Meeting(Chained)!Init
       [] part = "served twice" -> Meeting(ServedTwice)!Init
       [] OTHER -> NoCollaboration
  /\ CASE part = "workflow" -> Flow(Staged)!Init
       [] part = "asked twice" -> Flow(AskedTwice)!Init
       [] OTHER -> NoWorkflow
  /\ IF part = "platform" THEN Platform!Init ELSE NoPlatform

\* A step of one engine leaves what the others keep as it is.
Delivering ==
  /\ \/ part = "pipeline" /\ Next
     \/ part = "slow pipeline" /\ Slow!Next
     \/ part = "late decisions" /\ Late!Next
  /\ UNCHANGED <<part, executionVars, agentVars, toolVars, collaborationVars, workflowVars, platformVars>>
Executing ==
  /\ \/ part = "execution" /\ Memory!Next
     \/ part = "durable execution" /\ DurableRun!Next
     \/ part = "shared executions" /\ SharedRuns!Next
  /\ UNCHANGED <<part, vars, agentVars, toolVars, collaborationVars, workflowVars, platformVars>>
Reasoning ==
  /\ part = "agents" /\ Agents!Next
  /\ UNCHANGED <<part, vars, executionVars, toolVars, collaborationVars, workflowVars, platformVars>>
Invoking ==
  /\ part = "tools" /\ Tools!Next
  /\ UNCHANGED <<part, vars, executionVars, agentVars, collaborationVars, workflowVars, platformVars>>
Collaborating ==
  /\ \/ part = "collaboration" /\ Meeting(OneUnit)!Next
     \/ part = "chained" /\ Meeting(Chained)!Next
     \/ part = "served twice" /\ Meeting(ServedTwice)!Next
  /\ UNCHANGED <<part, vars, executionVars, agentVars, toolVars, workflowVars, platformVars>>
Working ==
  /\ \/ part = "workflow" /\ Flow(Staged)!Next
     \/ part = "asked twice" /\ Flow(AskedTwice)!Next
  /\ UNCHANGED <<part, vars, executionVars, agentVars, toolVars, collaborationVars, platformVars>>
Serving ==
  /\ part = "platform" /\ Platform!Next
  /\ UNCHANGED <<part, vars, executionVars, agentVars, toolVars, collaborationVars, workflowVars>>

EnginesNext ==
  Delivering \/ Executing \/ Reasoning \/ Invoking \/ Collaborating \/ Working \/ Serving

enginesVars ==
  <<part, vars, executionVars, agentVars, toolVars, collaborationVars, workflowVars, platformVars>>
EnginesSpec == EnginesInit /\ [][EnginesNext]_enginesVars

-----------------------------------------------------------------------------
(***************************************************************************)
(* Properties: of every part what its module says of it.                    *)
(***************************************************************************)
TypesKept ==
  /\ TypeOK
  /\ part = "execution" => Memory!TypeOK
  /\ part = "durable execution" => DurableRun!TypeOK
  /\ part = "shared executions" => SharedRuns!TypeOK
  /\ part = "agents" => Agents!TypeOK
  /\ part = "tools" => Tools!TypeOK
  /\ part = "collaboration" => Meeting(OneUnit)!TypeOK
  /\ part = "chained" => Meeting(Chained)!TypeOK
  /\ part = "served twice" => Meeting(ServedTwice)!TypeOK
  /\ part = "workflow" => Flow(Staged)!TypeOK
  /\ part = "asked twice" => Flow(AskedTwice)!TypeOK
  /\ part = "platform" => Platform!TypeOK

\* A result that stands was given by who held the work last: an attempt whose
\* lease was given to another or that was recovered meanwhile leaves none
\* behind, and what is out has a lease that recovery can find.  An agent's
\* runtime may be published by a claim that has been overtaken; its outputs
\* follow one another as its claims do, one of a claim at most.
ResultsOfTheHolder ==
  /\ part = "execution" => Memory!OutputOfTheHolder /\ Memory!LeasedUnitsHaveLeases
  /\ part = "durable execution" =>
       DurableRun!OutputOfTheHolder /\ DurableRun!LeasedUnitsHaveLeases
  /\ part = "agents" => Agents!OutputsInOrder
  /\ part = "workflow" => Flow(Staged)!ResultsOfTheirAttempt

\* Work is begun only when all it builds on is done and approved, whatever
\* was retried or recovered since.
NothingBeforeItsTime ==
  /\ part = "execution" => Memory!PrerequisitesFirst
  /\ part = "durable execution" => DurableRun!PrerequisitesFirst
  /\ part = "workflow" => Flow(Staged)!NothingUnapproved

\* An execution's unit whose attempt failed or was recovered has another only
\* within the limit, and a workflow's stage too; the user's leases exceed
\* their quota only by the calls for a unit that overlap.
WithinLimits ==
  /\ part = "execution" => Memory!ReadyUnitsHaveAttempts
  /\ part = "durable execution" => DurableRun!ReadyUnitsHaveAttempts
  /\ part = "shared executions" => SharedRuns!LeasesWithinQuota
  /\ part = "workflow" => Flow(Staged)!AttemptsBounded

\* A collaboration begins a unit when those before it have succeeded, accepts
\* reviewed work by another's approval, keeps every participant's list and the
\* retries, and ends with its units.
SessionsAgree ==
  /\ part = "collaboration" => Meeting(OneUnit)!ApprovedByAnother /\ Meeting(OneUnit)!RetriesBounded
                               /\ Meeting(OneUnit)!ListsAgree /\ Meeting(OneUnit)!EndsWithItsUnits
  /\ part = "chained" => Meeting(Chained)!PrerequisitesFirst /\ Meeting(Chained)!ApprovedByAnother
                         /\ Meeting(Chained)!RetriesBounded /\ Meeting(Chained)!ListsAgree
                         /\ Meeting(Chained)!EndsWithItsUnits

\* What is asked for again is not done again, and everyone is told the same.
RepeatedIsDoneOnce ==
  /\ part = "tools" => Tools!BegunOnce /\ Tools!AnswersAgree
  /\ part = "platform" => Platform!CarriedOutOnce /\ Platform!AnsweredWasDone

\* What has ended or was given stays: an execution's unit, and in the memory
\* store its run; an agent's outputs and its successor; what was
\* saved is not overwritten by who loaded it before, and a decision is on what
\* was seen.
EndsStand ==
  [][/\ part = "late decisions" => DecidedAsSeen
     /\ part = "execution" => Memory!EndedUnitsStay /\ Memory!EndedRunsStay
     /\ part = "durable execution" => DurableRun!EndedUnitsStay
     /\ part = "agents" => Agents!OutputsStand /\ Agents!SupersededForGood
     /\ part = "served twice" => Meeting(ServedTwice)!NothingIsLost
     /\ part = "workflow" => Flow(Staged)!HistoryStands
     /\ part = "asked twice" => Flow(AskedTwice)!HistoryStands]_enginesVars
=============================================================================
