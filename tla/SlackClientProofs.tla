-------------------------- MODULE SlackClientProofs --------------------------
(***************************************************************************)
(* Theorems about module SlackClient: its types, that it keeps the quiet   *)
(* Slack asks for, and that a call, with all its retries, is the atomic    *)
(* call of module SlackCall.                                               *)
(***************************************************************************)
EXTENDS SlackClient, TLAPS

LEMMA WaitDurationsType ==
    ASSUME NEW a \in Nat, NEW r \in RetryAfters \cup {0}
    PROVE  /\ r \in Nat
           /\ \A d \in WaitDurations(a, r) : d \in Nat /\ r <= d
  BY ClientAssumption DEF WaitDurations, CalculateBackoff

-----------------------------------------------------------------------------
(* The invariant is inductive *)

LEMMA InvInit == Init => ClientInv
  BY ClientAssumption
  DEF Init, ClientInv, TypeOK, WaitInv, WireInv, NoEarlyRetry, Kinds

\* Do returns with an error or a result that what is on the wire justifies.
LEMMA ReturnKeepsInv ==
    ASSUME ClientInv, NEW k \in Kinds, NEW r \in BOOLEAN, Return(k, r),
           k = "ok" => wire = "ok",
           k \in {"slack", "limited", "interrupted"} => wire \in {"refused", "limited"}
    PROVE  ClientInv'
  <1>1. TypeOK'
    BY DEF ClientInv, TypeOK, Return
  <1>2. WireInv'
    BY DEF ClientInv, WireInv, TypeOK, Return
  <1> QED
    BY <1>1, <1>2 DEF ClientInv, WaitInv, NoEarlyRetry, Return

LEMMA ClientKeepsInv == ClientInv /\ Client => ClientInv'
  <1> SUFFICES ASSUME ClientInv, Client PROVE ClientInv'
    OBVIOUS
  <1> USE DEF ClientInv
  <1>1. CASE Send
    BY <1>1 DEF Send, TypeOK, WaitInv, WireInv, NoEarlyRetry, Requests, Answers
  <1>2. CASE TransportFails
    BY <1>2, ReturnKeepsInv DEF TransportFails, Kinds
  <1>3. CASE Answered
    BY <1>3 DEF Answered, TypeOK, WaitInv, WireInv, NoEarlyRetry
  <1>4. CASE ReadFails
    BY <1>4, ReturnKeepsInv DEF ReadFails, Kinds
  <1>5. CASE ReadBody
    BY <1>5, ReturnKeepsInv DEF ReadBody, Kinds
  <1>6. CASE BackOff
    <2>1. PICK r \in RetryAfters \cup {0} :
             quiet' = r /\ owed' \in WaitDurations(attempt, r)
      BY <1>6 DEF BackOff
    <2>2. attempt \in Nat
      BY ClientAssumption DEF TypeOK
    <2>3. quiet' \in Nat /\ owed' \in Nat /\ quiet' <= owed'
      BY <2>1, <2>2, WaitDurationsType
    <2> QED
      BY <1>6, <2>3 DEF BackOff, TypeOK, WaitInv, WireInv, NoEarlyRetry
  <1>7. CASE GiveUp
    BY <1>7, ReturnKeepsInv DEF GiveUp, Kinds
  <1>8. CASE Tick
    BY <1>8 DEF Tick, TypeOK, WaitInv, WireInv, NoEarlyRetry
  <1>9. CASE Resume
    BY <1>9, ClientAssumption DEF Resume, TypeOK, WaitInv, WireInv, NoEarlyRetry
  <1>10. CASE Interrupted
    BY <1>10, ReturnKeepsInv DEF Interrupted, WaitInv, Kinds
  <1> QED
    BY <1>1, <1>2, <1>3, <1>4, <1>5, <1>6, <1>7, <1>8, <1>9, <1>10 DEF Client

LEMMA EnvironmentKeepsInv == ClientInv /\ Environment => ClientInv'
  <1> SUFFICES ASSUME ClientInv, Environment PROVE ClientInv'
    OBVIOUS
  <1> USE DEF ClientInv, TypeOK, WaitInv, WireInv, NoEarlyRetry
  <1>1. CASE ContextEnds
    BY <1>1 DEF ContextEnds
  <1>2. CASE SlackRuns
    BY <1>2 DEF SlackRuns, Replies, Requests, Answers
  <1>3. CASE SlackRefuses
    BY <1>3 DEF SlackRefuses, Replies, Requests, Answers
  <1>4. CASE RequestLost
    BY <1>4 DEF RequestLost, Replies, Requests, Answers
  <1> QED
    BY <1>1, <1>2, <1>3, <1>4 DEF Environment

LEMMA InvStep == ClientInv /\ [Next]_vars => ClientInv'
  <1> SUFFICES ASSUME ClientInv, UNCHANGED vars PROVE ClientInv'
    BY ClientKeepsInv, EnvironmentKeepsInv DEF Next, Finished
  <1> QED
    BY DEF vars, ClientInv, TypeOK, WaitInv, WireInv, NoEarlyRetry

LEMMA InvHolds == Spec => []ClientInv
  BY InvInit, InvStep, PTL DEF Spec

-----------------------------------------------------------------------------
(* The theorems *)

\* Every variable of a call keeps its type; the loop of doWithRetry never goes
\* past its last attempt.
THEOREM ClientTypeCorrect == Spec => []TypeOK
  <1>1. ClientInv => TypeOK
    BY DEF ClientInv
  <1> QED
    BY <1>1, InvHolds, PTL

\* Whatever Retry-After values Slack sends, no attempt starts before the time
\* it asked for is over.
THEOREM QuietIsKept == Spec => []NoEarlyRetry
  <1>1. ClientInv => NoEarlyRetry
    BY DEF ClientInv
  <1> QED
    BY <1>1, InvHolds, PTL

LEMMA CallStep ==
    ASSUME ClientInv, ClientInv', [Next]_vars
    PROVE  [Call!CallNext]_(Call!callVars)
  <1> USE DEF Call!CallNext, Call!callVars, Call!TakesEffect, Call!Succeed,
              Call!Refuse, Call!Lose, ClientInv, TypeOK
  <1>1. ASSUME NEW k \in Kinds, NEW r \in BOOLEAN, Return(k, r), pc # "done",
               k # "none",
               k = "ok" => wire = "ok",
               k \in {"slack", "limited", "interrupted"} => wire \in {"refused", "limited"}
        PROVE  Call!Succeed \/ Call!Refuse \/ Call!Lose
    <2>1. effects' = effects /\ status = "open"
      BY <1>1 DEF Return, status
    <2>2. pc' = "done" /\ result'.kind = k
      BY <1>1 DEF Return
    <2>3. CASE k = "ok"
      <3>1. status' = "ok"
        BY <2>2, <2>3 DEF status
      <3> QED
        BY <1>1, <2>1, <2>3, <3>1 DEF WireInv
    <2>4. CASE k \in {"slack", "limited", "interrupted"}
      <3>1. status' = "refused"
        BY <2>2, <2>4 DEF status
      <3> QED
        BY <1>1, <2>1, <2>4, <3>1 DEF WireInv
    <2>5. CASE k \notin {"ok", "slack", "limited", "interrupted"}
      <3>1. status' = "unknown"
        BY <2>2, <2>5 DEF status
      <3> QED
        BY <2>1, <3>1
    <2> QED
      BY <2>3, <2>4, <2>5
  <1>2. CASE Client
    <2>1. CASE Send \/ Answered \/ BackOff \/ Tick \/ Resume
      BY <2>1 DEF Send, Answered, BackOff, Tick, Resume, status
    <2>2. CASE TransportFails
      BY <2>2, <1>1 DEF TransportFails, Kinds
    <2>3. CASE ReadFails
      BY <2>3, <1>1 DEF ReadFails, Kinds
    <2>4. CASE ReadBody
      BY <2>4, <1>1 DEF ReadBody, Kinds
    <2>5. CASE GiveUp
      BY <2>5, <1>1 DEF GiveUp, Kinds
    <2>6. CASE Interrupted
      BY <2>6, <1>1 DEF Interrupted, WaitInv, Kinds
    <2> QED
      BY <1>2, <2>1, <2>2, <2>3, <2>4, <2>5, <2>6 DEF Client
  <1>3. CASE SlackRuns
    <2>1. status' = status
      BY <1>3 DEF SlackRuns, Replies, status
    <2>2. status \in {"open", "unknown"}
      BY <1>3 DEF SlackRuns, status, WireInv
    <2> QED
      BY <1>3, <2>1, <2>2 DEF SlackRuns, WireInv
  <1>4. CASE ContextEnds \/ SlackRefuses \/ RequestLost \/ UNCHANGED vars
    BY <1>4 DEF ContextEnds, SlackRefuses, RequestLost, Replies, status, vars
  <1> QED
    BY <1>2, <1>3, <1>4 DEF Next, Environment, Finished

\* A call takes effect at most once, however often it is retried, timed out or
\* interrupted, and its result says truly whether it did.
THEOREM CallIsAtomic == Spec => ImplementsCall
  <1>1. Init => Call!CallInit
    BY DEF Init, Call!CallInit, status
  <1> QED
    BY <1>1, CallStep, InvHolds, PTL DEF Spec, ImplementsCall, Call!CallSpec
=============================================================================
