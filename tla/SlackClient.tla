----------------------------- MODULE SlackClient -----------------------------
(***************************************************************************)
(* One call of the Slack client (internal/clients/slack): Client.Do, its   *)
(* loop doWithRetry over rate-limited answers, the HTTP transport, and     *)
(* Slack at the other end.  Calls share no state, so one is enough.        *)
(*                                                                         *)
(* Time is counted in whole seconds of the wait between two attempts.      *)
(* effects and quiet are history variables.                                *)
(***************************************************************************)
EXTENDS Integers

CONSTANTS
    maxRetries,   \* retries after the first attempt
    maxDelay,     \* cap of the backoff, in seconds
    RetryAfters   \* the positive Retry-After values Slack sends

ASSUME ClientAssumption ==
    /\ maxRetries \in Nat
    /\ maxDelay \in Nat \ {0}
    /\ RetryAfters \subseteq Nat \ {0}

VARIABLES
    params,   \* does the call have form parameters?
    ctx,      \* the context of the reconcile: live, expired or cancelled
    pc,       \* where the call is
    attempt,
    wire,     \* the request or its answer, on the way or at Slack
    owed,     \* seconds the client still means to wait
    result,   \* what Do returned
    effects,  \* how often the request ran in Slack
    quiet     \* seconds Slack still asked the client to keep quiet

vars == <<params, ctx, pc, attempt, wire, owed, result, effects, quiet>>

Requests == {"asked", "empty"}
Answers == {"ok", "refused", "garbled"}
Kinds == {"none", "ok", "slack", "limited", "network", "unread", "unparsed", "interrupted"}

Init ==
    /\ params \in BOOLEAN
    /\ ctx = "live" /\ pc = "ready" /\ attempt = 0
    /\ wire = "none"
    /\ owed = 0 /\ quiet = 0
    /\ result = [kind |-> "none", retriable |-> FALSE]
    /\ effects = 0

-----------------------------------------------------------------------------
(* The client *)

\* Do returns; a retriable error is one it wraps in RetriableError.
Return(k, retriable) ==
    /\ pc' = "done"
    /\ result' = [kind |-> k, retriable |-> retriable]
    /\ UNCHANGED <<params, ctx, attempt, wire, owed, effects, quiet>>

\* Clone keeps the reader of the first attempt, which is at its end by now.
\* Nothing in Do or doWithRetry calls GetBody; only the transport may, when it
\* finds that nothing was written to a connection it had used before.
Drained == params /\ attempt > 0

\* One httpClient.Do: the request goes out, with its parameters or without.
Send ==
    /\ pc = "ready" /\ ctx = "live"
    /\ wire' \in IF Drained THEN Requests ELSE {"asked"}
    /\ pc' = "exchange"
    /\ UNCHANGED <<params, ctx, attempt, owed, result, effects, quiet>>

\* Slip: the loop also retries after a transport error.
TransportFailsAndRetries ==
    /\ pc \in {"ready", "exchange"}
    /\ \/ attempt = maxRetries /\ Return("network", TRUE)
       \/ /\ attempt < maxRetries
          /\ pc' = "ready" /\ attempt' = attempt + 1
          /\ UNCHANGED <<params, ctx, wire, owed, result, effects, quiet>>

\* Every error of httpClient.Do is a *url.Error, which is a net.Error: no
\* connection, a body shorter than its length, the timeout, or the context.
\* What is on the wire may still run.
TransportFails == pc \in {"ready", "exchange"} /\ Return("network", TRUE)

\* The status line of an answer other than 429 arrives.
Answered ==
    /\ pc = "exchange" /\ wire \in Answers
    /\ pc' = "reading"
    /\ UNCHANGED <<params, ctx, attempt, wire, owed, result, effects, quiet>>

\* The timeout and the context also bound the reading of the body, but its
\* error is not wrapped.
ReadFails == pc = "reading" /\ Return("unread", FALSE)

ReadBody ==
    /\ pc = "reading"
    /\ \/ wire = "ok" /\ Return("ok", FALSE)
       \/ wire = "refused" /\ Return("slack", FALSE)
       \/ wire = "garbled" /\ Return("unparsed", FALSE)

\* Whole seconds below min(2^attempt, maxDelay).
CalculateBackoff(a) == {s \in 0..(maxDelay - 1) : s < 2^a}

\* Slip: Retry-After is capped by the backoff.
WaitCapped(a, r) == IF r > 0 /\ r < 2^a THEN {r} ELSE CalculateBackoff(a)

\* The wait after a 429 whose Retry-After is r, 0 standing for a header that is
\* absent, malformed or not positive.
WaitDurations(a, r) == IF r > 0 THEN {r} ELSE CalculateBackoff(a)

\* Slip: one retry too many.
BackOffOnceMore ==
    /\ pc = "exchange" /\ wire = "limited" /\ attempt <= maxRetries
    /\ \E r \in RetryAfters \cup {0} :
          /\ quiet' = r
          /\ owed' \in WaitDurations(attempt, r)
    /\ pc' = "waiting"
    /\ UNCHANGED <<params, ctx, attempt, wire, result, effects>>

\* A 429 before the last attempt.
BackOff ==
    /\ pc = "exchange" /\ wire = "limited" /\ attempt < maxRetries
    /\ \E r \in RetryAfters \cup {0} :
          /\ quiet' = r
          /\ owed' \in WaitDurations(attempt, r)
    /\ pc' = "waiting"
    /\ UNCHANGED <<params, ctx, attempt, wire, result, effects>>

\* A 429 on the last attempt.
GiveUp ==
    /\ pc = "exchange" /\ wire = "limited" /\ attempt = maxRetries
    /\ Return("limited", TRUE)

Tick ==
    /\ pc = "waiting" /\ owed > 0
    /\ owed' = owed - 1
    /\ quiet' = IF quiet > 0 THEN quiet - 1 ELSE 0
    /\ UNCHANGED <<params, ctx, pc, attempt, wire, result, effects>>

\* Slip: attempts are not counted.
ResumeUncounted ==
    /\ pc = "waiting" /\ owed = 0
    /\ pc' = "ready"
    /\ UNCHANGED <<params, ctx, attempt, wire, owed, result, effects, quiet>>

Resume ==
    /\ pc = "waiting" /\ owed = 0
    /\ pc' = "ready"
    /\ attempt' = attempt + 1
    /\ UNCHANGED <<params, ctx, wire, owed, result, effects, quiet>>

\* The context ends the wait.  DeadlineExceeded is a net.Error, Canceled is not.
Interrupted ==
    /\ pc = "waiting" /\ ctx # "live"
    /\ Return("interrupted", ctx = "expired")

Client == \/ Send \/ TransportFails \/ Answered \/ ReadFails \/ ReadBody
          \/ BackOff \/ GiveUp \/ Tick \/ Resume \/ Interrupted

-----------------------------------------------------------------------------
(* The context, the network and Slack *)

ContextEnds ==
    /\ pc # "done" /\ ctx = "live"
    /\ ctx' \in {"expired", "cancelled"}
    /\ UNCHANGED <<params, pc, attempt, wire, owed, result, effects, quiet>>

Replies(a) ==
    /\ wire' = a
    /\ UNCHANGED <<params, ctx, pc, attempt, owed, result, quiet>>

\* Slack runs the request, also after the client gave up on it.
SlackRuns ==
    /\ wire = "asked"
    /\ effects' = effects + 1
    /\ \E a \in {"ok", "garbled"} : Replies(a)

\* A request without its parameters lacks a required argument.  An answer that
\* is no JSON may also come from a proxy, the request unseen by Slack.
SlackRefuses ==
    /\ wire \in Requests
    /\ \E a \in {"refused", "limited", "garbled"} : Replies(a)
    /\ UNCHANGED effects

RequestLost == wire \in Requests /\ Replies("none") /\ UNCHANGED effects

Environment == ContextEnds \/ SlackRuns \/ SlackRefuses \/ RequestLost

\* The call has returned and its request will not run any more.
Finished == pc = "done" /\ wire \notin Requests /\ UNCHANGED vars

Next == Client \/ Environment \/ Finished

Spec == Init /\ [][Next]_vars

\* The process runs, its timers fire, and the HTTP client has a timeout.
FairSpec == Spec /\ WF_vars(Client)

-----------------------------------------------------------------------------
(* Properties *)

TypeOK ==
    /\ params \in BOOLEAN
    /\ ctx \in {"live", "expired", "cancelled"}
    /\ pc \in {"ready", "exchange", "reading", "waiting", "done"}
    /\ attempt \in 0..maxRetries
    /\ wire \in Requests \cup Answers \cup {"none", "limited"}
    /\ owed \in Nat /\ quiet \in Nat
    /\ result \in [kind : Kinds, retriable : BOOLEAN]
    /\ effects \in Nat

\* The client is never talking to Slack in the time Slack asked it to keep
\* quiet (doWithRetry honours Retry-After on every attempt).
NoEarlyRetry == pc \in {"ready", "exchange", "reading"} => quiet = 0

\* A call is the atomic one of SlackCall: whatever the retries, the timeouts
\* and the lost answers, it takes effect at most once, an "ok" means it did,
\* and a Slack error, an exhausted rate limit or an interrupted wait mean that
\* it did not and never will.
status ==
    IF pc # "done" THEN "open"
    ELSE IF result.kind = "ok" THEN "ok"
    ELSE IF result.kind \in {"slack", "limited", "interrupted"} THEN "refused"
    ELSE "unknown"

Call == INSTANCE SlackCall WITH status <- status, effects <- effects

ImplementsCall == Call!CallSpec

\* Every call returns, whatever Slack answers and even if it never does.
EveryCallReturns == <>(pc = "done")

\* A retry asks for what the first attempt asked for.
RetriesCarryParameters == pc = "exchange" /\ params => wire # "empty"

-----------------------------------------------------------------------------
(* The inductive invariant of the proofs *)

\* A wait follows a 429 before the last attempt and outlasts what Slack asked.
WaitInv == pc = "waiting" => wire = "limited" /\ attempt < maxRetries /\ quiet <= owed

\* A request that is out, refused or rate limited has not run, and the answer
\* "ok" says that it has run once.
WireInv ==
    /\ effects \in {0, 1}
    /\ wire = "ok" => effects = 1
    /\ effects = 1 => wire \in {"ok", "garbled"}
    /\ pc = "ready" => wire \in {"none", "limited"}
    /\ pc = "reading" => wire \in Answers
    /\ pc = "done" /\ result.kind = "ok" => wire = "ok"
    /\ pc = "done" /\ result.kind \in {"slack", "limited", "interrupted"}
          => wire \in {"refused", "limited"}

ClientInv == TypeOK /\ WaitInv /\ WireInv /\ NoEarlyRetry
=============================================================================
