------------------------------ MODULE Bookmark ------------------------------
(***************************************************************************)
(* The ConversationBookmark controller (internal/controller/bookmark).     *)
(* The external name is the bookmark's ID.  Every call resolves the        *)
(* channel again; the resolution and the one Slack call that follows are   *)
(* one step, as nothing else of the provider depends on what lies between. *)
(***************************************************************************)
EXTENDS ChannelItem

ConnectBookmark(w) == ConnectAs(w, "bookmark")

isUpToDate(s, b) == s.body = b.body

ListBookmarks(c) == {b \in BookmarkIDs : Present(b) /\ bookmarks[b].ch = c}

\* The bookmark w's copy records, if it is in the channel the spec means now.
Recorded(w) == {b \in ListBookmarks(ResolveConversationID(w)) : mg[w].ext = BookmarkName(b)}

\* Slip: any error of bookmarks.list counts as absence.
ListErrorIsMissing(w) ==
    /\ For(w, "bookmark") /\ At(w, "observe", "list")
    /\ \/ Answer(w, IF Recorded(w) = {} THEN "missing" ELSE "uptodate", mg[w]) /\ UNCHANGED faults
       \/ Fault /\ Answer(w, "missing", mg[w])
    /\ UNCHANGED slackVars

\* The external name is never empty here: the initializer has run.
ObserveBookmark(w) ==
    /\ For(w, "bookmark") /\ At(w, "observe", "list")
    /\ LET c == ResolveConversationID(w) IN
       \/ Unresolved(w) /\ Answer(w, "error", mg[w]) /\ UNCHANGED faults
       \/ c = NoExt /\ NoChannelToAsk(w, mg[w]) /\ UNCHANGED faults
       \/ /\ c \notin {Gone, NoExt} /\ isChannelUnavailable(c)
          /\ NoChannelToAsk(w, SaysUnavailable(w)) /\ UNCHANGED faults
       \/ /\ ~isChannelUnavailable(c)
          /\ Answer(w, IF Recorded(w) = {} THEN "missing"
                       ELSE IF \E b \in Recorded(w) : isUpToDate(mg[w].spec, bookmarks[b])
                       THEN "uptodate" ELSE "drifted", mg[w])
          /\ UNCHANGED faults
       \/ Fault /\ Answer(w, "error", mg[w])
    /\ UNCHANGED slackVars

-----------------------------------------------------------------------------
(* Create, Update, Delete *)

OthersSame == UNCHANGED <<conv, archived, pins, posts, members, dir, drift>>

\* bookmarks.add: Slack makes a bookmark in the channel the spec means.
Adds(w) ==
    /\ ~isChannelUnavailable(ResolveConversationID(w)) /\ made < MaxBookmarks
    /\ made' = made + 1
    /\ bookmarks' = [bookmarks EXCEPT ![made'] = [ch |-> ResolveConversationID(w), body |-> mg[w].spec.body]]

\* It is refused without a channel; or it fails, without effect or after it.
CreateBookmark(w) ==
    /\ For(w, "bookmark") /\ At(w, "create", "add")
    /\ \/ Adds(w) /\ Created(w, BookmarkName(made')) /\ UNCHANGED faults
       \/ /\ isChannelUnavailable(ResolveConversationID(w))
          /\ CreateFails(w, IF Unresolved(w) THEN mg[w].synced ELSE "ChannelUnavailable")
          /\ UNCHANGED <<bookmarks, made, faults>>
       \/ Fault /\ CreateFails(w, mg[w].synced) /\ (Adds(w) \/ UNCHANGED <<bookmarks, made>>)
    /\ OthersSame

\* bookmarks.edit and bookmarks.remove write r in the place of the recorded one.
Puts(w, r) ==
    /\ ~isChannelUnavailable(ResolveConversationID(w)) /\ Recorded(w) # {}
    /\ bookmarks' = [b \in BookmarkIDs |-> IF b \in Recorded(w) THEN r ELSE bookmarks[b]]

\* Slip: the title and the link are not sent.
EditNothing(w) ==
    /\ For(w, "bookmark") /\ At(w, "update", "edit")
    /\ CallEnds(w, TRUE) /\ UNCHANGED <<bookmarks, made, faults>> /\ OthersSame

UpdateBookmark(w) ==
    LET r == [ch |-> ResolveConversationID(w), body |-> mg[w].spec.body]
    IN  /\ For(w, "bookmark") /\ At(w, "update", "edit")
        /\ \/ Puts(w, r) /\ CallEnds(w, TRUE) /\ UNCHANGED faults
           \/ /\ isChannelUnavailable(ResolveConversationID(w)) \/ Recorded(w) = {}
              /\ CallEnds(w, FALSE) /\ UNCHANGED <<bookmarks, faults>>
           \/ Fault /\ CallEnds(w, FALSE) /\ (Puts(w, r) \/ UNCHANGED bookmarks)
        /\ UNCHANGED made /\ OthersSame

\* A missing channel or bookmark (bookmark_not_found) is as good as removed; a
\* Conversation that is gone is an error.
DeleteBookmark(w) ==
    /\ For(w, "bookmark") /\ At(w, "delete", "remove")
    /\ \/ Puts(w, NoBookmark) /\ CallEnds(w, TRUE) /\ UNCHANGED faults
       \/ /\ isChannelUnavailable(ResolveConversationID(w)) \/ Recorded(w) = {}
          /\ CallEnds(w, ~Unresolved(w)) /\ UNCHANGED <<bookmarks, faults>>
       \/ Fault /\ CallEnds(w, FALSE) /\ (Puts(w, NoBookmark) \/ UNCHANGED bookmarks)
    /\ UNCHANGED made /\ OthersSame

BookmarkStep(w) == \/ ConnectBookmark(w) \/ ObserveBookmark(w) \/ CreateBookmark(w)
                   \/ UpdateBookmark(w) \/ DeleteBookmark(w)
=============================================================================
