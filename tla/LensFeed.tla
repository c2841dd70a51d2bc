-------------------------------- MODULE LensFeed --------------------------------
(***************************************************************************)
(* The page of the local tools, LocalTools.tsx and the calls it makes      *)
(* through api.ts (apps/lens/src): a listing of the ledger of tool runs    *)
(* that is fetched, and the live events that the server streams meanwhile. *)
(*                                                                         *)
(* The two come over different connections, so that a listing may arrive   *)
(* before or after the events it tells of.  The stream breaks and is       *)
(* opened again; what is broadcast in between is lost, as is what comes    *)
(* while the page is paused.  The ledger (ActivityRecorder, whose bounded  *)
(* queues are not modelled again) is changed by tools and cleared by this  *)
(* page alone.                                                             *)
(***************************************************************************)
EXTENDS Values, FiniteSets, SequencesExt

CONSTANTS
  ToolKinds,            \* categories of tools
  FeedFilters,          \* what the user may filter by: [kind, status], or "all"
  FeedLimit, FeedCap,   \* entries of a listing, and of the page: 100 and 150 in the source
  FeedKeep,             \* entries of the ledger: 500 in the source
  MaxToolRuns, MaxFeedActs, MaxFeedErrors   \* bounds on runs, acts of the user and failures

VARIABLES
  ledger,               \* the server's entries, oldest first
  stream,               \* {} while the stream is being opened, or {the events on their way}
  shown, filter, paused, loading,   \* the page
  calls,                \* requests on their way, and replies
  toolRuns, feedActs, feedErrors,
  stale,                \* history: the events on their way from before the last clearing
  behind                \* history: the page has missed something since its last listing

feedServer == <<ledger, toolRuns>>
feedUser == <<filter, paused, feedActs>>
lensFeedVars == <<feedServer, feedUser, stream, shown, loading, calls, feedErrors, stale, behind>>

Everything == [kind |-> "all", status |-> "all"]

ASSUME LensFeedAssumption ==
  /\ {FeedLimit, FeedCap, FeedKeep} \subseteq Nat \ {0} /\ FeedCap >= FeedLimit /\ FeedKeep >= FeedCap
  /\ Everything \in FeedFilters
  /\ MaxToolRuns \in Nat /\ MaxFeedActs \in Nat /\ MaxFeedErrors \in Nat

\* A request, and what its reply brings.  Of the events on their way it knows some, and
\* whether others have overtaken it.
FeedCall(do, f) ==
  [do |-> do, filter |-> f, pc |-> "sent", list |-> <<>>, knows |-> 0, over |-> FALSE]

\* The page comes up: it fetches, and opens the stream.
LensFeedInit ==
  /\ ledger = <<>> /\ stream = {} /\ shown = <<>>
  /\ filter = Everything /\ paused = FALSE /\ loading = TRUE
  /\ calls = <<FeedCall("list", Everything)>>
  /\ toolRuns = 0 /\ feedActs = 0 /\ feedErrors = 0
  /\ stale = 0 /\ behind = FALSE

FeedError == feedErrors < MaxFeedErrors /\ feedErrors' = feedErrors + 1

------------------------------------------------------------------------------
(* The server. *)

\* Replies that were given before what happens now do not know of it.
OutdatedCalls(list) == [k \in DOMAIN list |-> [list[k] EXCEPT !.over = @ \/ list[k].pc = "served", !.knows = 0]]

\* What is broadcast while the stream is being opened reaches nobody.
Stream(entry) ==
  /\ stream' = {Append(q, entry) : q \in stream}
  /\ IF stream = {} THEN behind' = TRUE /\ calls' = OutdatedCalls(calls) ELSE UNCHANGED <<behind, calls>>

ToolStarts(kind) ==
  LET entry == [id |-> toolRuns + 1, kind |-> kind, status |-> "running"]
      all == Append(ledger, entry) IN
  /\ toolRuns < MaxToolRuns /\ toolRuns' = toolRuns + 1
  /\ ledger' = IF Len(all) <= FeedKeep THEN all ELSE Tail(all)
  /\ Stream(entry)
  /\ UNCHANGED <<feedUser, shown, loading, feedErrors, stale>>

\* A run that is not in the ledger any more ends without an event.
ToolEnds(i, status) ==
  LET entry == [ledger[i] EXCEPT !.status = status] IN
  /\ ledger[i].status = "running"
  /\ ledger' = [ledger EXCEPT ![i] = entry]
  /\ Stream(entry)
  /\ UNCHANGED <<feedUser, shown, loading, feedErrors, stale, toolRuns>>

get_local_tools_events ==
  /\ stream = {} /\ stream' = {<<>>}
  /\ UNCHANGED <<feedServer, feedUser, shown, loading, calls, feedErrors, stale, behind>>

Matches(entry, f) == f.kind \in {"all", entry.kind} /\ f.status \in {"all", entry.status}

OnTheirWay == IF stream = {} THEN 0 ELSE Len(CHOOSE q \in stream : TRUE)

\* Newest first.
get_events(f, n) == First(n, Reverse(Only(ledger, {e \in Elements(ledger) : Matches(e, f)})))

\* Knows no filter.  The audit records it answers an empty ledger with are left out.
list_agent_tools == get_events(Everything, FeedLimit)

\* getLocalToolActivity turns to /agent/tools when /local-tools/activity fails: the newest
\* of all may hide those the filter is for.
ServeListing(k) ==
  /\ calls[k].do = "list"
  /\ \E instead \in {FALSE, calls[k].filter # Everything} :
       /\ IF instead THEN FeedError ELSE UNCHANGED feedErrors
       /\ calls' = [calls EXCEPT ![k] = [@ EXCEPT !.pc = "served", !.knows = OnTheirWay, !.over = instead,
                      !.list = IF instead THEN list_agent_tools ELSE get_events(calls[k].filter, FeedLimit)]]
  /\ UNCHANGED <<ledger, stale>>

\* clear_local_tools_activity tells nobody.
ServeClear(k) ==
  /\ calls[k].do = "clear"
  /\ ledger' = <<>> /\ stale' = OnTheirWay
  /\ calls' = [OutdatedCalls(calls) EXCEPT ![k] = [@ EXCEPT !.pc = "served", !.knows = OnTheirWay]]
  /\ UNCHANGED feedErrors

Serve(k) ==
  /\ calls[k].pc = "sent"
  /\ ServeListing(k) \/ ServeClear(k)
  /\ UNCHANGED <<toolRuns, feedUser, stream, shown, loading, behind>>

------------------------------------------------------------------------------
(* The page. *)

\* onmessage: an entry that is shown is replaced, a new one put in front.
Merged(entry) ==
  IF \E i \in DOMAIN shown : shown[i].id = entry.id
  THEN [i \in DOMAIN shown |-> IF shown[i].id = entry.id THEN entry ELSE shown[i]]
  ELSE First(FeedCap, <<entry>> \o shown)

\* What the page shows through a filter (filteredEvents).
Seen(page, f) == {page[i].id : i \in {j \in DOMAIN page : Matches(page[j], f)}}

\* Whether an entry costs the page one that should be seen: it pushes one off while fewer
\* newer ones are seen than a listing has; or it is not seen itself any more, by its new
\* status, which leaves room on a full page for an older one that was never sent.
LosesSight(entry) ==
  \E id \in Seen(shown, filter) \ Seen(Merged(entry), filter) :
    /\ Cardinality({n \in Seen(Merged(entry), filter) : n > id}) < FeedLimit
    /\ id = entry.id => Cardinality(Seen(shown, filter)) >= FeedLimit

Receive ==
  \E q \in stream :
    /\ q # <<>> /\ stream' = {Tail(q)}
    /\ IF paused THEN UNCHANGED shown ELSE shown' = Merged(Head(q))
    /\ behind' = (behind \/ paused \/ stale > 0 \/ LosesSight(Head(q)))
    /\ stale' = IF stale > 0 THEN stale - 1 ELSE 0
    /\ calls' = [k \in DOMAIN calls |->
                   IF calls[k].knows > 0 THEN [calls[k] EXCEPT !.knows = @ - 1]
                   ELSE [calls[k] EXCEPT !.over = @ \/ calls[k].pc = "served"]]
    /\ UNCHANGED <<feedServer, feedUser, loading, feedErrors>>

\* What was on its way is lost with the stream.
CloseStream ==
  /\ stream' = {} /\ stale' = 0
  /\ IF \E q \in stream : q # <<>> THEN behind' = TRUE /\ calls' = OutdatedCalls(calls)
     ELSE UNCHANGED <<behind, calls>>

StreamBreaks ==
  /\ stream # {} /\ FeedError /\ CloseStream
  /\ UNCHANGED <<feedServer, feedUser, shown, loading>>

fetchEvents(f) == calls' = Append(calls, FeedCall("list", f)) /\ loading' = TRUE

FeedAct == feedActs < MaxFeedActs /\ feedActs' = feedActs + 1

SelectFilter(f) ==
  /\ FeedAct /\ f # filter /\ filter' = f
  /\ fetchEvents(f)
  /\ UNCHANGED <<feedServer, paused, stream, shown, feedErrors, stale, behind>>

RefreshFeed ==
  /\ FeedAct /\ ~loading /\ fetchEvents(filter)
  /\ UNCHANGED <<feedServer, filter, paused, stream, shown, feedErrors, stale, behind>>

\* The effect that listens depends on isPaused: it closes the stream and opens another.
PauseOrResume ==
  /\ FeedAct /\ paused' = ~paused /\ CloseStream
  /\ UNCHANGED <<feedServer, filter, shown, loading, feedErrors>>

handleClearActivity ==
  /\ FeedAct /\ shown # <<>>
  /\ calls' = Append(calls, FeedCall("clear", filter))
  /\ UNCHANGED <<feedServer, filter, paused, stream, shown, loading, feedErrors, stale,
                 behind>>

Replied_(call) == IF call.do = "list" THEN call.list ELSE <<>>

\* The reply replaces what is shown, which may have been newer, or of another filter.
FeedReply(k) ==
  LET call == calls[k] IN
  /\ call.pc = "served"
  /\ shown' = Replied_(call)
  /\ behind' = (call.over \/ (call.do = "list" /\ call.filter # filter))
  /\ loading' = (loading /\ call.do # "list")
  /\ calls' = RemoveAt(calls, k)
  /\ UNCHANGED <<feedServer, feedUser, stream, feedErrors, stale>>

\* A listing that fails is an empty one; a clearing may have been carried out.
FeedCallFails(k) ==
  LET call == calls[k] IN
  /\ FeedError /\ calls' = RemoveAt(calls, k)
  /\ shown' = IF call.do = "list" THEN <<>> ELSE shown
  /\ loading' = (loading /\ call.do # "list")
  /\ behind' = (behind \/ call.do = "list" \/ call.pc = "served")
  /\ UNCHANGED <<feedServer, feedUser, stream, stale>>

LensFeedNext ==
  \/ \E kind \in ToolKinds : ToolStarts(kind)
  \/ \E i \in DOMAIN ledger, status \in {"success", "failed"} : ToolEnds(i, status)
  \/ get_local_tools_events \/ StreamBreaks \/ Receive
  \/ \E f \in FeedFilters : SelectFilter(f)
  \/ RefreshFeed \/ PauseOrResume \/ handleClearActivity
  \/ \E k \in DOMAIN calls : Serve(k) \/ FeedReply(k) \/ FeedCallFails(k)

LensFeedSpec == LensFeedInit /\ [][LensFeedNext]_lensFeedVars

------------------------------------------------------------------------------
(* Properties. *)

LensFeedTypeOK ==
  /\ Len(ledger) <= FeedKeep /\ Len(shown) <= FeedCap
  /\ \A i, j \in DOMAIN shown : shown[i].id = shown[j].id => i = j
  /\ filter \in FeedFilters /\ feedErrors \in 0..MaxFeedErrors

\* When nothing is on its way and nothing was missed since the last listing was taken - no
\* event was lost, dropped or wiped out by an older reply - the page shows the newest of
\* the ledger, and what it shows has the status that the ledger has, although listings,
\* clearings and live events overtook each other.
FeedSettles ==
  calls = <<>> /\ stream = {<<>>} /\ ~behind =>
    /\ {e.id : e \in Elements(get_events(filter, FeedLimit))} \subseteq Seen(shown, filter)
    /\ \A e \in Elements(shown), i \in DOMAIN ledger : ledger[i].id = e.id => ledger[i] = e

\* ... and nothing that was cleared.
ClearedIsGone ==
  calls = <<>> /\ stream = {<<>>} /\ ~behind =>
    \A e \in Elements(shown) : (\E i \in DOMAIN ledger : ledger[i].id = e.id)
                               \/ Len(ledger) = FeedKeep
==============================================================================
