--------------------------- MODULE RequestDeadline ---------------------------
(***************************************************************************)
(* One request under its deadline, whose handler makes one call of the AI   *)
(* provider: a call with a deadline of its own inside the request's, that   *)
(* is attempted again after failures that may pass.  The middleware races   *)
(* the handler against the request's deadline.                              *)
(*                                                                          *)
(* Timers fire at or after their time: nothing runs between two ticks of    *)
(* the clock but what is due may wait for any number of them.  An abort     *)
(* runs its listeners at once, in the order they subscribed; what they      *)
(* settle runs before any other timer, so an abort is one step here.        *)
(***************************************************************************)
EXTENDS Naturals

CONSTANTS
  RequestTimeout, CallTimeout,
  MaxAttempts,
  Delays,      \* of each failed attempt: the delays that the jitter can give
  Horizon      \* bound: the last tick of the clock

DeadlineAssumption ==
  /\ {RequestTimeout, CallTimeout, MaxAttempts} \subseteq Nat \ {0}
  /\ Delays \in [1..MaxAttempts -> SUBSET (Nat \ {0})]
  /\ Horizon \in Nat /\ Horizon > RequestTimeout

VARIABLES
  now,
  request,  \* the request's deadline
  call,     \* the call's: its end, and whether and why it is aborted
  retry,    \* the retry loop: its phase, attempt, and the time of its timer
  handler,  \* what has become of the handler
  sent      \* the response

vars == <<now, request, call, retry, handler, sent>>

Signals == {"open", "expired", "disconnected"}
\* Ways in which the retry loop ends.
Ends == {"succeeded", "failed", "expired", "disconnected"}

TypeOK ==
  /\ now \in 0..Horizon
  /\ request \in Signals
  /\ call \in [signal: Signals, ends: Nat]
  /\ retry \in [phase: {"idle", "attempting", "sleeping"} \union Ends,
                attempt: 0..MaxAttempts, until: Nat]
  /\ handler \in {"running", "waiting", "ended"}
  /\ sent \in {"none", "ok", "error", "timeout"}

Init ==
  /\ now = 0
  /\ request = "open"
  /\ call = [signal |-> "open", ends |-> 0]
  /\ retry = [phase |-> "idle", attempt |-> 0, until |-> 0]
  /\ handler = "running"
  /\ sent = "none"

\* mutant: the clock passes its bound
TickOn ==
  /\ now <= Horizon
  /\ now' = now + 1
  /\ UNCHANGED <<request, call, retry, handler, sent>>
Tick ==
  /\ now < Horizon
  /\ now' = now + 1
  /\ UNCHANGED <<request, call, retry, handler, sent>>

Remaining == IF now < call.ends THEN call.ends - now ELSE 0
Most(a, b) == IF a < b THEN b ELSE a

End(how) == retry' = [retry EXCEPT !.phase = how]

\* Each attempt may take its share of what remains.
Attempt ==
  LET n == retry.attempt + 1 IN
  retry' = [phase |-> "attempting", attempt |-> n,
            until |-> now + Most(1, Remaining \div (MaxAttempts + 1 - n))]

\* mutant: an attempt is begun whatever the time is
BeginAnyway(signal) == IF signal # "open" THEN End(signal) ELSE Attempt
\* An attempt is begun unless its deadline has ended, by the clock if its
\* timer is late.
BeginAttempt(signal) ==
  IF signal # "open" THEN End(signal)
  ELSE IF Remaining = 0 THEN End("expired") ELSE Attempt

StartCall ==
  /\ handler = "running"
  /\ handler' = "waiting"
  /\ call' = [signal |-> request, ends |-> now + CallTimeout]
  /\ retry' = IF request # "open" THEN [retry EXCEPT !.phase = request]
              ELSE [phase |-> "attempting", attempt |-> 1,
                    until |-> now + Most(1, (call'.ends - now) \div MaxAttempts)]
  /\ UNCHANGED <<now, request, sent>>

Succeed ==
  /\ retry.phase = "attempting"
  /\ End("succeeded")
  /\ UNCHANGED <<now, request, call, handler, sent>>

\* mutant: the delay is not compared with what remains
SleepLong(d) == retry' = [retry EXCEPT !.phase = "sleeping", !.until = now + d]
SleepOrEnd(d) ==
  IF d >= Remaining THEN End("expired")
  ELSE retry' = [retry EXCEPT !.phase = "sleeping", !.until = now + d]

\* Permanently, or in a way that may pass: by itself, by its own timeout, or
\* because its signal is aborted.
FailAttempt ==
  /\ retry.phase = "attempting"
  /\ \/ End(IF call.signal = "expired" THEN "expired" ELSE "failed")
     \/ /\ retry.attempt < MaxAttempts
        /\ \E d \in Delays[retry.attempt]:
             IF call.signal # "open" /\ d < Remaining THEN End(call.signal) ELSE SleepOrEnd(d)
     \/ /\ retry.attempt = MaxAttempts /\ now >= retry.until
        /\ End("expired")
  /\ UNCHANGED <<now, request, call, handler, sent>>

Wake ==
  /\ retry.phase = "sleeping" /\ now >= retry.until
  /\ BeginAttempt(call.signal)
  /\ call' = IF Remaining = 0 /\ call.signal = "open"
             THEN [call EXCEPT !.signal = "expired"] ELSE call
  /\ UNCHANGED <<now, request, handler, sent>>

\* A sleeper is woken by the abort; an attempt has to notice it.
AbortCall(why) ==
  /\ call' = IF call.signal = "open" THEN [call EXCEPT !.signal = why] ELSE call
  /\ IF retry.phase = "sleeping" /\ call.signal = "open" THEN End(why) ELSE UNCHANGED retry

ExpireCall ==
  /\ handler = "waiting" /\ retry.phase \notin Ends
  /\ call.signal = "open" /\ now >= call.ends
  /\ AbortCall("expired")
  /\ UNCHANGED <<now, request, handler, sent>>

\* The middleware's listener is the first one.
Expire ==
  /\ request = "open" /\ sent = "none" /\ now >= RequestTimeout
  /\ request' = "expired"
  /\ sent' = "timeout"
  /\ IF handler = "waiting" THEN AbortCall("expired") ELSE UNCHANGED <<call, retry>>
  /\ UNCHANGED <<now, handler>>

\* The client closes its connection.
Disconnect ==
  /\ request = "open" /\ sent = "none"
  /\ request' = "disconnected"
  /\ sent' = "error"
  /\ IF handler = "waiting" THEN AbortCall("disconnected") ELSE UNCHANGED <<call, retry>>
  /\ UNCHANGED <<now, handler>>

\* mutant: a handler that ends late answers as well
AnswerLate(what) == sent' = what
\* The race is decided once.
AnswerFirst(what) == IF sent = "none" THEN sent' = what ELSE UNCHANGED sent

EndHandler ==
  /\ handler = "waiting" /\ retry.phase \in Ends
  /\ handler' = "ended"
  /\ AnswerFirst(CASE retry.phase = "succeeded" -> "ok"
                   [] retry.phase = "expired" -> "timeout"
                   [] OTHER -> "error")
  /\ UNCHANGED <<now, request, call, retry>>

Next ==
  \/ Tick \/ StartCall \/ Succeed \/ FailAttempt \/ Wake \/ ExpireCall
  \/ Expire \/ Disconnect \/ EndHandler
Spec == Init /\ [][Next]_vars
\* The clock goes on and what is due runs; the handler and the provider need
\* not do anything.
LiveSpec == Spec /\ WF_vars(Tick) /\ WF_vars(Expire)

-----------------------------------------------------------------------------
(* No attempt begins when the call's deadline is over, although its timer   *)
(* may not have fired yet (retry).                                          *)
NoLateAttempt ==
  retry'.attempt > 1 /\ retry'.attempt # retry.attempt =>
    now < call.ends /\ call.signal = "open"

(* The loop never sleeps past the call's deadline, and never begins to      *)
(* sleep when it is aborted (retry, sleep).                                 *)
SleepsWithinDeadline ==
  retry.phase = "sleeping" => retry.until < call.ends /\ call.signal = "open"

(* A response that has been sent is not replaced by what a handler that     *)
(* ignores its signal answers later (createRequestTimeoutMiddleware).       *)
FirstResponseStands == sent # "none" => sent' = sent

(* A request is answered, whatever its handler and the provider do          *)
(* (waitForDeadline, createDeadline).                                       *)
Answered == <>(sent # "none")

(* A client that goes away is not reported as a deadline that has passed    *)
(* (isDeadlineExceeded, normalizeAiProviderError).                          *)
DisconnectIsNoTimeout == request = "disconnected" => sent # "timeout"
=============================================================================
