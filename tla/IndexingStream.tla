---------------------------- MODULE IndexingStream ----------------------------
(***************************************************************************)
(* The browser's end of the indexing events of one repository: the views   *)
(* that follow it, their subscriptions, which reconnect, and what each view *)
(* shows.  At most one subscription of a repository is kept: a new one      *)
(* aborts the one that was.  The server's end is ProgressEvents; here it    *)
(* answers, refuses, sends an event or ends the stream as it likes.         *)
(***************************************************************************)
EXTENDS Naturals, Sequences

CONSTANTS
  Views,
  MaxAttempts,  \* MAX_RECONNECT_ATTEMPTS
  MaxSubs       \* bound: subscriptions

StreamAssumption == MaxAttempts \in Nat /\ MaxSubs \in Nat

VARIABLES
  subs,    \* the subscriptions, in the order they were made
  active,  \* the one in activeStreams, 0 for none
  view     \* what each view keeps to show

vars == <<subs, active, view>>

Blank == [mounted |-> FALSE, progress |-> "none", connected |-> FALSE,
          disconnected |-> FALSE, reconnecting |-> FALSE, error |-> FALSE]

Ids == DOMAIN subs
TypeOK ==
  /\ Len(subs) <= MaxSubs /\ active \in 0..Len(subs)
  /\ \A i \in Ids :
       /\ subs[i].by \in Views /\ subs[i].attempt \in 0..MaxAttempts /\ subs[i].aborted \in BOOLEAN
       /\ subs[i].at \in {"fetching", "open", "waiting", "terminal", "gave up", "stopped"}
  /\ \A v \in Views :
       view[v] \in [mounted : BOOLEAN, progress : {"none", "going", "terminal"}, connected : BOOLEAN,
                    disconnected : BOOLEAN, reconnecting : BOOLEAN, error : BOOLEAN]

Init == subs = <<>> /\ active = 0 /\ view = [v \in Views |-> Blank]

Ended(i) == subs[i].at \in {"terminal", "gave up", "stopped"}
Live(i) == ~Ended(i) /\ ~subs[i].aborted
Current(v, i) == subs[i].by = v /\ \A j \in Ids : subs[j].by = v => j <= i

-----------------------------------------------------------------------------
\* The effect's cleanup aborts the view's own subscription; the new one aborts
\* whichever is active and takes its place.
Aborting(v) ==
  [i \in Ids |-> [subs[i] EXCEPT !.aborted = @ \/ (~Ended(i) /\ (subs[i].by = v \/ i = active))]]

Subscribe(v, shown) ==
  /\ Len(subs) < MaxSubs
  /\ subs' = Append(Aborting(v), [by |-> v, at |-> "fetching", attempt |-> 0, aborted |-> FALSE])
  /\ active' = Len(subs) + 1
  /\ view' = [view EXCEPT ![v] = shown]

Mount(v) == ~view[v].mounted /\ Subscribe(v, [Blank EXCEPT !.mounted = TRUE])
NewToken(v) == view[v].mounted /\ Subscribe(v, view[v])

\* The button the view offers with the error.
OffersRetry(v) == view[v].error /\ ~view[v].reconnecting
Retry(v) ==
  /\ view[v].mounted /\ OffersRetry(v)
  /\ Subscribe(v, [view[v] EXCEPT !.error = FALSE, !.disconnected = FALSE])

\* The view goes away: its subscription is aborted.
Unmount(v) ==
  /\ view[v].mounted
  /\ subs' = [i \in Ids |-> [subs[i] EXCEPT !.aborted = @ \/ (~Ended(i) /\ subs[i].by = v)]]
  /\ view' = [view EXCEPT ![v] = Blank]
  /\ UNCHANGED active

-----------------------------------------------------------------------------
\* What a handler sets, where the view is still there.
Shows(i, shown) == view' = [view EXCEPT ![subs[i].by] = IF @.mounted THEN shown ELSE @]
Seen(i) == view[subs[i].by]
\* mutant: whatever stream is active is forgotten
ForgetAny(i) == active' = 0
\* The end of a subscription forgets it, unless another took its place.
Forget(i) == active' = IF active = i THEN 0 ELSE active

\* An aborted stream ends before anything else arrives: its promises are
\* rejected where the abort is called.
Settled == \A i \in Ids : subs[i].aborted => Ended(i)

Respond(i) ==
  /\ Settled /\ subs[i].at = "fetching"
  /\ subs' = [subs EXCEPT ![i].at = "open"]
  /\ Shows(i, [Seen(i) EXCEPT !.connected = TRUE, !.reconnecting = FALSE])
  /\ UNCHANGED active

\* mutant: an event does not clear the error of the connection before it
ShownKeeping(seen, progress) ==
  [seen EXCEPT !.progress = progress, !.disconnected = FALSE, !.reconnecting = FALSE]
ShownEvent(seen, progress) ==
  [seen EXCEPT !.progress = progress, !.disconnected = FALSE, !.reconnecting = FALSE, !.error = FALSE]

Event(i) ==
  /\ Settled /\ subs[i].at = "open"
  /\ \/ /\ Shows(i, ShownEvent(Seen(i), "going"))
        /\ UNCHANGED <<subs, active>>
     \/ /\ Shows(i, [ShownEvent(Seen(i), "terminal") EXCEPT !.connected = FALSE])
        /\ subs' = [subs EXCEPT ![i].at = "terminal"]
        /\ Forget(i)

\* mutant: one attempt too many
RetriesMore(i) == subs[i].attempt <= MaxAttempts
Retries(i) == subs[i].attempt < MaxAttempts

\* A refused request, a stream that ends early or an event that cannot be read:
\* the attempts are those of the whole subscription.
Fail(i) ==
  /\ Settled /\ subs[i].at \in {"fetching", "open"}
  /\ \E retryable \in (IF subs[i].at = "open" THEN {TRUE} ELSE BOOLEAN) :
       LET shown == [Seen(i) EXCEPT !.connected = FALSE, !.error = TRUE, !.disconnected = TRUE] IN
       IF retryable /\ Retries(i)
       THEN /\ Shows(i, [shown EXCEPT !.reconnecting = TRUE])
            /\ subs' = [subs EXCEPT ![i].at = "waiting", ![i].attempt = @ + 1]
            /\ UNCHANGED active
       ELSE /\ Shows(i, shown)
            /\ subs' = [subs EXCEPT ![i].at = "gave up"]
            /\ Forget(i)

Wake(i) ==
  /\ Settled /\ subs[i].at = "waiting"
  /\ subs' = [subs EXCEPT ![i].at = "fetching"]
  /\ UNCHANGED <<active, view>>

\* An aborted subscription ends without a word, but for the connection it had.
Stop(i) ==
  /\ subs[i].aborted /\ ~Ended(i)
  /\ IF subs[i].at = "open" THEN Shows(i, [Seen(i) EXCEPT !.connected = FALSE]) ELSE UNCHANGED view
  /\ subs' = [subs EXCEPT ![i].at = "stopped"]
  /\ Forget(i)

Next ==
  \/ \E v \in Views : Mount(v) \/ NewToken(v) \/ Retry(v) \/ Unmount(v)
  \/ \E i \in Ids : Respond(i) \/ Event(i) \/ Fail(i) \/ Wake(i) \/ Stop(i)

Spec == Init /\ [][Next]_vars

-----------------------------------------------------------------------------
(***************************************************************************)
(* Properties.                                                             *)
(***************************************************************************)

\* However views come, go and take over from one another, one stream of the
\* repository is open to the server at most.
OneStream == \A i, j \in Ids : Live(i) /\ Live(j) => i = j

\* A view whose subscription has seen the job end shows the end, and neither
\* an error nor a lost connection, whatever became of earlier subscriptions.
EndShown ==
  \A v \in Views, i \in Ids :
    view[v].mounted /\ Current(v, i) /\ subs[i].at = "terminal" =>
      view[v].progress = "terminal" /\ ~view[v].error /\ ~view[v].disconnected
=============================================================================
