--------------------------- MODULE ProgressEvents ---------------------------
(***************************************************************************)
(* The indexing progress of one repository as its event streams tell it     *)
(* (IndexingProgressPublisher and the SSE route).  The API process and the  *)
(* worker are separate: the publisher learns of a job by polling the store, *)
(* one observation for all the streams of the repository, and compares what *)
(* it reads with the fingerprint it has published last.                     *)
(*                                                                          *)
(* The rows that getLatestRepositoryJob can return are numbered in the      *)
(* order of time; rows with the same event count as one.  Heartbeats repeat *)
(* what a stream was sent last and are left out.                            *)
(***************************************************************************)
EXTENDS Naturals, Sequences, FiniteSets

CONSTANTS
  Streams,    \* requests for the event stream
  LastRow,    \* rows of the latest job, in the order of time
  Terminal,   \* the rows in which a job has succeeded or failed
  Polls,      \* bound of the model: polls under way together
  MaxQueue    \* bound of the model: events waiting in one stream

RowsAssumption == LastRow \in Nat \ {0} /\ Terminal \subseteq 1..LastRow
QueueAssumption == MaxQueue \in Nat \ {0}

VARIABLES
  row,         \* the latest job in the database
  observation, \* the fingerprint published last (0 without one) and polling
  streams,
  polls

vars == <<row, observation, streams, polls>>

Rows == 1..LastRow

Stream ==
  [at: {"idle", "asked", "read", "subscribed", "closed"}, job: 0..LastRow,
   queue: Seq(Rows), behind: BOOLEAN]

\* A poll keeps the observation it was begun for: 0 is the present one, otherwise the
\* fingerprint of the one that was dropped.
Poll == [at: {"idle", "asked", "read"}, job: 0..LastRow, dropped: 0..LastRow]

TypeOK ==
  /\ row \in Rows
  /\ observation \in [row: 0..LastRow, polling: BOOLEAN]
  /\ streams \in [Streams -> Stream]
  /\ polls \in [Polls -> Poll]

NoStream == [at |-> "idle", job |-> 0, queue |-> <<>>, behind |-> FALSE]
NoPoll == [at |-> "idle", job |-> 0, dropped |-> 0]
NoObservation == [row |-> 0, polling |-> FALSE]

Init ==
  /\ row = 1
  /\ observation = NoObservation
  /\ streams = [s \in Streams |-> NoStream]
  /\ polls = [p \in Polls |-> NoPoll]

Subscribed(s) == streams[s].at = "subscribed"

\* The worker, or a request for another job, changes the latest job's row.
JobAdvances ==
  /\ row < LastRow
  /\ row' = row + 1
  /\ UNCHANGED <<observation, streams, polls>>

(***************************************************************************)
(* A stream                                                                *)
(***************************************************************************)
Open(s) ==
  /\ streams[s].at = "idle"
  /\ streams' = [streams EXCEPT ![s].at = "asked"]
  /\ UNCHANGED <<row, observation, polls>>

ReadJob(s) ==
  /\ streams[s].at = "asked"
  /\ streams' = [streams EXCEPT ![s].at = "read", ![s].job = row]
  /\ UNCHANGED <<row, observation, polls>>

\* Mutant of Subscribe: every subscriber sets up an observation.
SubscribeAlwaysObserves(s) ==
  /\ streams[s].at = "read"
  /\ streams' = [streams EXCEPT ![s] =
       [at |-> "subscribed", job |-> @.job, queue |-> <<@.job>>, behind |-> FALSE]]
  /\ observation' = [observation EXCEPT !.row = streams[s].job]
  /\ UNCHANGED <<row, polls>>

\* The job that was read is replayed.  Only the first subscriber begins an observation;
\* a later one does not look at what it has published.
Subscribe(s) ==
  /\ streams[s].at = "read"
  /\ streams' = [streams EXCEPT ![s] =
       [at |-> "subscribed", job |-> @.job, queue |-> <<@.job>>,
        behind |-> observation.row # 0 /\ observation.row # @.job]]
  /\ observation' = IF observation.row = 0 THEN [row |-> streams[s].job, polling |-> FALSE]
                    ELSE observation
  /\ UNCHANGED <<row, polls>>

\* Mutant of Remove: the observation outlives the streams.
RemoveOnly(s) ==
  /\ streams' = [streams EXCEPT ![s] = [NoStream EXCEPT !.at = "closed"]]
  /\ UNCHANGED <<row, observation, polls>>

\* removeSubscriber: the last one drops the observation, whose poll may be under way.
Remove(s) ==
  /\ streams' = [streams EXCEPT ![s] = [NoStream EXCEPT !.at = "closed"]]
  /\ IF \E t \in Streams \ {s} : Subscribed(t)
     THEN UNCHANGED <<observation, polls>>
     ELSE /\ observation' = NoObservation
          /\ polls' = [p \in Polls |->
               IF polls[p].at # "idle" /\ polls[p].dropped = 0
               THEN [polls[p] EXCEPT !.dropped = observation.row] ELSE polls[p]]
  /\ UNCHANGED row

\* The listener has written an event; a terminal one closes the stream.
Deliver(s) ==
  /\ Subscribed(s)
  /\ streams[s].queue # <<>>
  /\ IF Head(streams[s].queue) \in Terminal THEN Remove(s)
     ELSE /\ streams' = [streams EXCEPT ![s].queue = Tail(@)]
          /\ UNCHANGED <<row, observation, polls>>

\* The client disconnects, or a write to it fails.
Disconnect(s) == Subscribed(s) /\ Remove(s)

(***************************************************************************)
(* The observation                                                         *)
(***************************************************************************)
StartPoll(p) ==
  /\ observation.row # 0
  /\ ~observation.polling
  /\ polls[p].at = "idle"
  /\ observation' = [observation EXCEPT !.polling = TRUE]
  /\ polls' = [polls EXCEPT ![p] = [at |-> "asked", job |-> 0, dropped |-> 0]]
  /\ UNCHANGED <<row, streams>>

PollReads(p) ==
  /\ polls[p].at = "asked"
  /\ polls' = [polls EXCEPT ![p].at = "read", ![p].job = row]
  /\ UNCHANGED <<row, observation, streams>>

\* Mutant of Publish: the observation is replaced.
PublishReplacing(job) ==
  /\ observation' = [row |-> job]
  /\ \A s \in Streams : Subscribed(s) => Len(streams[s].queue) < MaxQueue
  /\ streams' = [s \in Streams |->
       IF Subscribed(s) THEN [streams[s] EXCEPT !.queue = Append(@, job)] ELSE streams[s]]

\* publish: the observation of the moment takes the fingerprint, and every stream the
\* event.
Publish(job) ==
  /\ observation' = [row |-> job, polling |-> FALSE]
  /\ \A s \in Streams : Subscribed(s) => Len(streams[s].queue) < MaxQueue
  /\ streams' = [s \in Streams |->
       IF Subscribed(s) THEN [streams[s] EXCEPT !.queue = Append(@, job)] ELSE streams[s]]

\* The row is compared with the observation of the poll and published to the one of
\* the moment, whose polling flag is cleared.
PollAnswers(p) ==
  LET job == polls[p].job
      compared == IF polls[p].dropped = 0 THEN observation.row ELSE polls[p].dropped
  IN /\ polls[p].at = "read"
     /\ IF observation.row # 0 /\ job \notin {compared, observation.row} THEN Publish(job)
        ELSE observation' = [observation EXCEPT !.polling = FALSE] /\ UNCHANGED streams
     /\ polls' = [polls EXCEPT ![p] = NoPoll]
     /\ UNCHANGED row

\* Mutant of PollFails: the flag is left set.
PollFailsPolling(p) ==
  /\ polls[p].at = "asked"
  /\ polls' = [polls EXCEPT ![p] = NoPoll]
  /\ UNCHANGED <<row, observation, streams>>

\* The store does not answer: the streams live on.
PollFails(p) ==
  /\ polls[p].at = "asked"
  /\ polls' = [polls EXCEPT ![p] = NoPoll]
  /\ observation' = [observation EXCEPT !.polling = FALSE]
  /\ UNCHANGED <<row, streams>>

Settled == row = LastRow /\ (\A s \in Streams : streams[s].at = "closed") /\ UNCHANGED vars

Next ==
  \/ JobAdvances \/ Settled
  \/ \E s \in Streams :
       Open(s) \/ ReadJob(s) \/ Subscribe(s) \/ Deliver(s) \/ Disconnect(s)
  \/ \E p \in Polls : StartPoll(p) \/ PollReads(p) \/ PollAnswers(p) \/ PollFails(p)

\* The poll timer fires, the store answers again and again, and a client that stays
\* connected reads.
Spec ==
  /\ Init /\ [][Next]_vars
  /\ WF_vars(\E p \in Polls : StartPoll(p))
  /\ SF_vars(\E p \in Polls : PollReads(p))
  /\ SF_vars(\E p \in Polls : PollAnswers(p))
  /\ WF_vars(JobAdvances)
  /\ \A s \in Streams : WF_vars(Deliver(s))

(***************************************************************************)
(* Properties                                                              *)
(***************************************************************************)

\* The store is polled while, and only while, someone listens.
ObservedWhileHeard == observation.row # 0 <=> \E s \in Streams : Subscribed(s)

\* The polling flag is up only while a poll is under way that will take it down,
\* whatever observations were dropped and begun in between.
PollingEnds == observation.polling => \E p \in Polls : polls[p].at # "idle"

\* A stream that began in step with its observation is told how the job ends, and ends.
StreamsInStepClose ==
  \A s \in Streams : Subscribed(s) /\ ~streams[s].behind ~> streams[s].at = "closed"
=============================================================================
