------------------------------ MODULE SlackCall ------------------------------
(***************************************************************************)
(* What one call of the Slack client promises its caller, however often    *)
(* the request is rate limited, delayed or lost on the way: it takes       *)
(* effect at most once; it has taken effect if the call succeeded, and     *)
(* never does if the call was refused.  After any other error the caller   *)
(* knows nothing, and the request may still take effect later.             *)
(***************************************************************************)
EXTENDS Naturals

VARIABLES
    status,  \* what the caller knows: open, ok, refused or unknown
    effects  \* how often the request has taken effect in Slack

callVars == <<status, effects>>

CallInit == status = "open" /\ effects = 0

TakesEffect ==
    /\ effects = 0 /\ status \in {"open", "unknown"}
    /\ effects' = 1
    /\ UNCHANGED status

Succeed == status = "open" /\ effects = 1 /\ status' = "ok" /\ UNCHANGED effects

Refuse == status = "open" /\ effects = 0 /\ status' = "refused" /\ UNCHANGED effects

Lose == status = "open" /\ status' = "unknown" /\ UNCHANGED effects

CallNext == TakesEffect \/ Succeed \/ Refuse \/ Lose

CallSpec == CallInit /\ [][CallNext]_callVars
=============================================================================
