--------------------------- MODULE MCSlackClient ---------------------------
(***************************************************************************)
(* The code's own limits (3 retries, 60 s cap); Retry-After below, at and   *)
(* above the longest backoff of an early attempt.                           *)
(***************************************************************************)
EXTENDS SlackClient

MCRetryAfters == {1, 2, 9}
=============================================================================
