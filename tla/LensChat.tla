-------------------------------- MODULE LensChat --------------------------------
(***************************************************************************)
(* The chat of the user interface and the conversations it keeps:          *)
(* Chat.tsx, the direct question of Memory.tsx, streamChat and its         *)
(* simulation in api.ts, and conversationStore.ts (apps/lens/src).         *)
(*                                                                         *)
(* Callbacks of the browser run one at a time; between two of them the     *)
(* user may stop the answer, begin a new chat or leave the page.  A stream *)
(* and the simulation that takes its place call the same callbacks, which  *)
(* live on after the page is gone.  An answer is the number of its words;  *)
(* what counts is which of them are shown and which are recorded.          *)
(***************************************************************************)
EXTENDS Values, FiniteSets

CONSTANTS
  MaxSends,             \* bound on the questions
  MaxWords,             \* bound on the words that a stream brings
  SimulatedWords,       \* the words of a simulated answer
  MaxExchanges,         \* the exchanges a conversation keeps: 100 in the source
  MaxVisits             \* bound on the new chats and on the departures

Pages == {"home", "memory"}
SendIds == 1..MaxSends

VARIABLES
  lensPage,             \* per page: the visit, the conversation, the send whose abort
                        \* function is kept or None, whether an answer is awaited
  lensShown,            \* per send, the words of its message on the page
  lensSends,            \* the questions so far, and what is left of their streams
  lensStore,            \* per conversation in localStorage, the exchanges recorded
  lensVisits

lensVars == <<lensPage, lensShown, lensSends, lensStore, lensVisits>>

ASSUME LensAssumption ==
  /\ MaxSends \in Nat /\ MaxWords \in Nat /\ SimulatedWords \in Nat \ {0}
  /\ MaxExchanges \in Nat \ {0} /\ MaxVisits \in Nat /\ None \notin SendIds

\* The home page has a conversation for each visit and new chat, the memory page one for
\* each question.
Conversations == (Pages \X (0..MaxVisits)) \cup (Pages \X {"send"} \X SendIds)

LensInit ==
  /\ lensPage = [p \in Pages |-> [visit |-> 0, conv |-> 0, abort |-> None, streaming |-> FALSE]]
  /\ lensShown = [i \in SendIds |-> 0]
  /\ lensSends = <<>>
  /\ lensStore = <<>>
  /\ lensVisits = 0

Sent == DOMAIN lensSends

\* The callbacks of a send reach the page only if it has not been left since.
Mounted(i) == lensPage[lensSends[i].page].visit = lensSends[i].visit

------------------------------------------------------------------------------
(* recordExchange: what is kept of a conversation is its end. *)

Kept(exchanges) ==
  SubSeq(exchanges, 1 + Len(exchanges) - Least(Len(exchanges), MaxExchanges), Len(exchanges))

recordExchange(thread, exchange) ==
  lensStore' =
    [t \in DOMAIN lensStore \cup {thread} |->
       IF t # thread THEN lensStore[t]
       ELSE Kept(Append(IF t \in DOMAIN lensStore THEN lensStore[t] ELSE <<>>, exchange))]

clearThread(thread) ==
  /\ thread \in DOMAIN lensStore
  /\ lensStore' = [t \in DOMAIN lensStore \ {thread} |-> lensStore[t]]
  /\ UNCHANGED <<lensPage, lensShown, lensSends, lensVisits>>

clearAllConversations ==
  lensStore # <<>> /\ lensStore' = <<>> /\ UNCHANGED <<lensPage, lensShown, lensSends, lensVisits>>

------------------------------------------------------------------------------
(* The page. *)

\* handleSend; a question with attachments waits until they have been read, and the
\* abort function of its stream does not exist until then.
handleSend(p, attached) ==
  LET i == Len(lensSends) + 1
      page == lensPage[p] IN
  /\ i \in SendIds /\ ~page.streaming /\ (attached => p = "home")
  /\ lensSends' = Append(lensSends,
       [page |-> p, visit |-> page.visit,
        thread |-> IF p = "home" THEN <<p, page.conv>> ELSE <<p, "send", i>>,
        pc |-> IF attached THEN "parsing" ELSE "open", simulated |-> SimulatedWords + 1,
        words |-> 0, stopped |-> FALSE])
  /\ lensPage' = [lensPage EXCEPT ![p].streaming = TRUE,
                                  ![p].abort = IF p = "home" /\ ~attached THEN i ELSE @]
  /\ UNCHANGED <<lensShown, lensStore, lensVisits>>

\* Mutant of handleStop: the stream is forgotten and not closed.
handleStop_Forgets ==
  LET i == lensPage["home"].abort IN
  /\ lensPage["home"].streaming
  /\ lensSends' = IF i = None THEN lensSends
                  ELSE [lensSends EXCEPT ![i].stopped = lensSends[i].pc = "open"]
  /\ lensPage' = [lensPage EXCEPT !["home"].abort = None, !["home"].streaming = FALSE]
  /\ UNCHANGED <<lensShown, lensStore, lensVisits>>

\* Stop: a stream that is open is closed; a simulation, or files being read, go on.
handleStop ==
  LET i == lensPage["home"].abort IN
  /\ lensPage["home"].streaming
  /\ lensSends' = IF i = None THEN lensSends
                  ELSE [lensSends EXCEPT ![i].pc = IF @ = "open" THEN "closed" ELSE @,
                                         ![i].stopped = lensSends[i].pc = "open"]
  /\ lensPage' = [lensPage EXCEPT !["home"].abort = None, !["home"].streaming = FALSE]
  /\ UNCHANGED <<lensShown, lensStore, lensVisits>>

\* A new chat begins; an answer under way goes on, for the conversation before.
handleNewChat ==
  /\ lensVisits < MaxVisits
  /\ lensVisits' = lensVisits + 1
  /\ lensPage' = [lensPage EXCEPT !["home"].conv = lensVisits']
  /\ UNCHANGED <<lensShown, lensSends, lensStore>>

\* The memory page is left and opened again; the home page, when it is reloaded, ends
\* its streams, which is not modelled.
LeaveMemory ==
  /\ lensVisits < MaxVisits
  /\ lensVisits' = lensVisits + 1
  /\ lensPage' = [lensPage EXCEPT !["memory"].visit = lensVisits', !["memory"].streaming = FALSE]
  /\ UNCHANGED <<lensShown, lensSends, lensStore>>

\* The attachments have been read, or cannot be, and the stream begins.
Parsed(i) ==
  /\ lensSends[i].pc = "parsing"
  /\ lensSends' = [lensSends EXCEPT ![i].pc = "open"]
  /\ lensPage' = [lensPage EXCEPT !["home"].abort = i]
  /\ UNCHANGED <<lensShown, lensStore, lensVisits>>

------------------------------------------------------------------------------
(* The stream and its callbacks. *)

\* onToken: a word, or a token that is blank.
onToken(i, words, next) ==
  /\ lensSends' = [lensSends EXCEPT ![i] = [next EXCEPT !.words = @ + words]]
  /\ lensShown' = [lensShown EXCEPT ![i] = @ + words]
  /\ UNCHANGED <<lensPage, lensStore, lensVisits>>

TokenEvent(i) ==
  /\ lensSends[i].pc = "open" /\ lensSends[i].words < MaxWords
  /\ onToken(i, 1, lensSends[i])

\* onDone: the page waits no longer, and what was said is recorded unless it is blank.
onDone(i) ==
  LET send == lensSends[i] IN
  /\ lensPage' = IF ~Mounted(i) THEN lensPage
                 ELSE [lensPage EXCEPT ![send.page].streaming = FALSE, ![send.page].abort = None]
  /\ IF send.words = 0 THEN UNCHANGED lensStore
     ELSE recordExchange(send.thread, [no |-> i, words |-> send.words])
  /\ lensSends' = [lensSends EXCEPT ![i].pc = "closed"]
  /\ UNCHANGED <<lensShown, lensVisits>>

DoneEvent(i) == lensSends[i].pc = "open" /\ onDone(i)

\* Mutant of onerror: the answer of the simulation starts anew.
onerror_Anew(i) ==
  /\ lensSends[i].pc = "open"
  /\ lensSends' = [lensSends EXCEPT ![i].pc = "simulating", ![i].words = 0]
  /\ UNCHANGED <<lensPage, lensShown, lensStore, lensVisits>>

\* The connection drops: the stream is closed and an answer is simulated.
onerror(i) ==
  /\ lensSends[i].pc = "open"
  /\ lensSends' = [lensSends EXCEPT ![i].pc = "simulating"]
  /\ UNCHANGED <<lensPage, lensShown, lensStore, lensVisits>>

\* Mutant of SimulationStep: after the last word nothing more is called.
SimulationStep_Ends(i) ==
  /\ lensSends[i].pc = "simulating" /\ lensSends[i].simulated > 1
  /\ onToken(i, 1, [lensSends[i] EXCEPT !.simulated = @ - 1])

\* simulateChatStream: a word at a time, then onDone.
SimulationStep(i) ==
  /\ lensSends[i].pc = "simulating"
  /\ IF lensSends[i].simulated > 1
     THEN onToken(i, 1, [lensSends[i] EXCEPT !.simulated = @ - 1])
     ELSE onDone(i)

AnswerEnds(i) == DoneEvent(i) \/ onerror(i)
StreamStep(i) == Parsed(i) \/ TokenEvent(i) \/ AnswerEnds(i) \/ SimulationStep(i)

LensNext ==
  \/ \E p \in Pages, attached \in BOOLEAN : handleSend(p, attached)
  \/ handleStop \/ handleNewChat \/ LeaveMemory
  \/ \E t \in DOMAIN lensStore : clearThread(t)
  \/ clearAllConversations
  \/ \E i \in Sent : StreamStep(i)

\* A stream ends or breaks, files are read or refused, and the timers of a simulation run.
LensFairness ==
  \A i \in SendIds :
    WF_lensVars(i \in Sent /\ (Parsed(i) \/ AnswerEnds(i) \/ SimulationStep(i)))

LensSpec == LensInit /\ [][LensNext]_lensVars /\ LensFairness

------------------------------------------------------------------------------
(* Properties. *)

LensTypeOK ==
  /\ \A p \in Pages : /\ lensPage[p].abort \in Sent \cup {None}
                      /\ lensPage[p].streaming \in BOOLEAN
  /\ \A t \in DOMAIN lensStore : Len(lensStore[t]) \in 1..MaxExchanges
  /\ \A i \in Sent : lensSends[i].pc \in {"parsing", "open", "simulating", "closed"}
  /\ lensVisits \in 0..MaxVisits

Exchanges == UNION {Elements(lensStore[t]) : t \in DOMAIN lensStore}

\* An answer is recorded once, in the conversation in which its question was asked
\* whatever was begun since, and as it is shown, a part that came before the connection
\* dropped included; what the user has stopped is never recorded.
RecordedAsShown ==
  \A t \in DOMAIN lensStore, k \in 1..MaxExchanges : k \in DOMAIN lensStore[t] =>
    LET exchange == lensStore[t][k] IN
    /\ lensSends[exchange.no].thread = t /\ ~lensSends[exchange.no].stopped
    /\ exchange.words = lensShown[exchange.no]
    /\ \A j \in DOMAIN lensStore[t] : lensStore[t][j].no = exchange.no => j = k

\* Once the user has stopped an answer that was streaming, not a word of it appears.
StopIsFinal ==
  \A i \in Sent : lensSends[i].stopped => lensShown'[i] = lensShown[i]

\* An answer that ends with something said becomes the last exchange of its conversation,
\* and of a full one only the oldest goes.
NewestKept ==
  \A i \in Sent :
    LET t == lensSends[i].thread
        before == IF t \in DOMAIN lensStore THEN lensStore[t] ELSE <<>> IN
    /\ lensSends[i].pc # "closed" /\ lensSends'[i].pc = "closed"
    /\ lensSends[i].words > 0 /\ ~lensSends'[i].stopped
    => /\ t \in DOMAIN lensStore'
       /\ lensStore'[t][Len(lensStore'[t])].no = i
       /\ \A k \in 2..Len(before) : before[k] \in Elements(lensStore'[t])
       /\ Len(before) < MaxExchanges => Len(lensStore'[t]) = Len(before) + 1

\* A page that is not ready for the next question has an answer under way.
WaitsForAnswer ==
  \A p \in Pages : lensPage[p].streaming =>
    \E i \in Sent : lensSends[i].page = p /\ Mounted(i) /\ lensSends[i].pc # "closed"

\* A page becomes ready for the next question.
PageReady == \A p \in Pages : lensPage[p].streaming ~> ~lensPage[p].streaming

\* Whatever is stopped, left or begun meanwhile, an answer is recorded as it was shown, and
\* no page waits for one that will not come.
LensSound == RecordedAsShown /\ WaitsForAnswer
==============================================================================
