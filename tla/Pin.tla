--------------------------------- MODULE Pin ---------------------------------
(***************************************************************************)
(* The ConversationPin controller (internal/controller/pin).  The external *)
(* name of a pinned message is made of its channel and its timestamp, and  *)
(* only Create looks at the spec.  Update is not here because Observe      *)
(* never says that a pin has drifted.                                      *)
(***************************************************************************)
EXTENDS ChannelItem

ConnectPin(w) == ConnectAs(w, "pin")

formatExternalName(c, t) == <<c, t>>

Wanted(w) == formatExternalName(ResolveConversationID(w), mg[w].spec.body)

\* A name of another form, such as metadata.name, is no pin.
parseExternalName(e) == IF e \in Pins THEN e ELSE NoItem

\* The pinned messages of channel c.
ListPins(c) == {p \in pins : p[1] = c}

\* Slip: a pin is compared with what the spec means now.
ObserveComparesSpec(w) ==
    LET p == parseExternalName(mg[w].ext)
    IN  /\ For(w, "pin") /\ At(w, "observe", "list")
        /\ \/ p = NoItem /\ Answer(w, "missing", mg[w]) /\ UNCHANGED faults
           \/ /\ p # NoItem /\ isChannelUnavailable(p[1])
              /\ NoChannelToAsk(w, SaysUnavailable(w)) /\ UNCHANGED faults
           \/ /\ p # NoItem /\ ~isChannelUnavailable(p[1])
              /\ Answer(w, IF p \notin pins THEN "missing"
                           ELSE IF p # Wanted(w) THEN "drifted" ELSE "uptodate", mg[w])
              /\ UNCHANGED faults
           \/ p # NoItem /\ Fault /\ Answer(w, "error", mg[w])
        /\ UNCHANGED slackVars

\* Slip: a channel that is not there is an error.
ObserveNeedsChannel(w) ==
    LET p == parseExternalName(mg[w].ext)
    IN  /\ For(w, "pin") /\ At(w, "observe", "list")
        /\ \/ p = NoItem /\ Answer(w, "missing", mg[w]) /\ UNCHANGED faults
           \/ /\ p # NoItem /\ isChannelUnavailable(p[1])
              /\ Answer(w, "error", SaysUnavailable(w)) /\ UNCHANGED faults
           \/ /\ p # NoItem /\ ~isChannelUnavailable(p[1])
              /\ Answer(w, IF p \in ListPins(p[1]) THEN "uptodate" ELSE "missing", mg[w])
              /\ UNCHANGED faults
           \/ p # NoItem /\ Fault /\ Answer(w, "error", mg[w])
        /\ UNCHANGED slackVars

ObservePin(w) ==
    LET p == parseExternalName(mg[w].ext)
    IN  /\ For(w, "pin") /\ At(w, "observe", "list")
        /\ \/ p = NoItem /\ Answer(w, "missing", mg[w]) /\ UNCHANGED faults
           \/ /\ p # NoItem /\ isChannelUnavailable(p[1])
              /\ NoChannelToAsk(w, SaysUnavailable(w)) /\ UNCHANGED faults
           \/ /\ p # NoItem /\ ~isChannelUnavailable(p[1])
              /\ Answer(w, IF p \in ListPins(p[1]) THEN "uptodate" ELSE "missing", mg[w])
              /\ UNCHANGED faults
           \/ p # NoItem /\ Fault /\ Answer(w, "error", mg[w])
        /\ UNCHANGED slackVars

-----------------------------------------------------------------------------
(* Create and Delete *)

OnlyPins == UNCHANGED <<conv, archived, bookmarks, made, posts, members, dir, drift>>

\* Slack pins a message once: message_not_found, already_pinned.
AddPin(w) ==
    /\ Wanted(w) \in posts \ pins /\ ~isChannelUnavailable(ResolveConversationID(w))
    /\ pins' = pins \cup {Wanted(w)}

\* What Create says of the refusal, before its error overwrites it.
Refusal(w) == IF Unresolved(w) THEN mg[w].synced
              ELSE IF isChannelUnavailable(ResolveConversationID(w)) THEN "ChannelUnavailable"
              ELSE IF Wanted(w) \notin posts THEN "MessageNotFound"
              ELSE mg[w].synced

\* already_pinned is an error like any other.
CreatePin(w) ==
    /\ For(w, "pin") /\ At(w, "create", "add")
    /\ \/ AddPin(w) /\ Created(w, Wanted(w)) /\ UNCHANGED faults
       \/ /\ \/ Wanted(w) \notin posts \ pins
             \/ isChannelUnavailable(ResolveConversationID(w))
          /\ CreateFails(w, Refusal(w)) /\ UNCHANGED <<pins, faults>>
       \/ Fault /\ AddPin(w) /\ CreatedUnheard(w, Wanted(w))
       \/ Fault /\ CreateFails(w, mg[w].synced) /\ UNCHANGED pins
    /\ OnlyPins

\* A missing channel or pin (no_pin) is as good as removed; a message that is
\* not there (message_not_found) is an error.
DeletePin(w) ==
    LET p == mg[w].ext
        unavailable == isChannelUnavailable(p[1])
        removes == ~unavailable /\ p \in posts /\ pins' = pins \ {p}
    IN  /\ For(w, "pin") /\ At(w, "delete", "remove")
        /\ \/ removes /\ CallEnds(w, TRUE) /\ UNCHANGED faults
           \/ unavailable /\ CallEnds(w, TRUE) /\ UNCHANGED <<pins, faults>>
           \/ ~unavailable /\ p \notin posts /\ CallEnds(w, FALSE) /\ UNCHANGED <<pins, faults>>
           \/ Fault /\ CallEnds(w, FALSE) /\ (removes \/ UNCHANGED pins)
        /\ OnlyPins

PinStep(w) == ConnectPin(w) \/ ObservePin(w) \/ CreatePin(w) \/ DeletePin(w)
=============================================================================
