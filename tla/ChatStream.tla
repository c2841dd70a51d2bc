------------------------------ MODULE ChatStream ------------------------------
(***************************************************************************)
(* The requests that answer a question: search, the stream of chat_sse,    *)
(* study_ask and chat_with_dataset (routes.py), and the log of             *)
(* conversations (aegismind_core/memory/memory.py and store.py).           *)
(*                                                                         *)
(* A request suspends where it waits for the embedder, the reranker, the   *)
(* long-term memory or the model, and a stream at every event; the corpus  *)
(* may change there, and the client of a stream may go away.  The answer   *)
(* of the model is the number of its tokens that hold a word.              *)
(***************************************************************************)
EXTENDS Corpus

CONSTANTS
  Slots,              \* requests in progress
  MaxTop,             \* the most results that are asked for
  MaxTokens,          \* bound on the tokens the model streams
  MaxAsked            \* bound on the requests

VARIABLES
  asks,               \* per slot, the request in progress or the last one, or None
  log,                \* the rows of the conversation log: the request and its answer
  asked               \* the number of requests so far

chatVars == <<asks, log, asked>>
allVars == <<corpusVars, chatVars>>

Active == {c \in Elements(chunks) : ~c.deleted}

ChatInit ==
  /\ CorpusInit
  /\ asks = [q \in Slots |-> None]
  /\ log = <<>>
  /\ asked = 0

Open(q) == asks[q] # None /\ asks[q].pc \notin {"answered", "broken", "left"}
At(q, pc) == asks[q] # None /\ asks[q].pc = pc

\* The changes of the corpus, with the history of what a request may have seen.
CorpusStep ==
  /\ CorpusNext
  /\ asks' = [q \in Slots |->
                IF asks[q] = None THEN None
                ELSE [asks[q] EXCEPT !.seen = @ \cup {c \in Elements(chunks') : ~c.deleted}]]
  /\ UNCHANGED <<log, asked>>

Begin(q, r) ==
  /\ ~Open(q) /\ asked < MaxAsked
  /\ asked' = asked + 1
  /\ asks' = [asks EXCEPT ![q] = [r EXCEPT !.no = asked', !.seen = Active]]
  /\ UNCHANGED <<corpusVars, log>>

Goes(q, r) == asks' = [asks EXCEPT ![q] = r] /\ UNCHANGED <<corpusVars, asked>>

Fails(q) == Goes(q, [asks[q] EXCEPT !.pc = "broken"]) /\ UNCHANGED log

------------------------------------------------------------------------------
(* search and chat_sse *)

Question(kind, tenant, top, private) ==
  [kind |-> kind, tenant |-> tenant, top |-> top, private |-> private, pc |-> "embed",
   dense |-> <<>>, lexical |-> <<>>, candidates |-> <<>>, results |-> <<>>, prompt |-> <<>>,
   cited |-> <<>>, words |-> 0, tokens |-> 0, no |-> 0, seen |-> {}]

search(q, tenant, top) == Begin(q, Question("search", tenant, top, FALSE))
chat_sse(q, tenant, top, private) == Begin(q, Question("chat", tenant, top, private))

\* What follows the retrieval: the answer of a search, or the prompt of a chat,
\* with a look into the long-term memory first unless the chat is private.
Retrieved(r) ==
  IF r.kind = "search" THEN [r EXCEPT !.pc = "answered"]
  ELSE IF r.private THEN [r EXCEPT !.pc = "stream", !.prompt = apply_context_budget(r.results)]
  ELSE [r EXCEPT !.pc = "recall"]

\* The question is embedded, and both searches are done on the store as it is then.
Searched(q) ==
  /\ At(q, "embed")
  /\ \/ Fails(q)
     \/ LET r == asks[q]
            found == Searches(r.tenant, r.top)
            best == Candidates(found[1], found[2], r.top)
            next == [r EXCEPT !.dense = found[1], !.lexical = found[2], !.candidates = best] IN
        /\ Goes(q, IF best = <<>> THEN Retrieved(next) ELSE [next EXCEPT !.pc = "rerank"])
        /\ UNCHANGED log

Reranked(q) ==
  /\ At(q, "rerank")
  /\ \/ Fails(q)
     \/ LET r == asks[q] IN
        /\ Goes(q, Retrieved([r EXCEPT !.results = Diverse(By(Rerank, r.candidates), r.top)]))
        /\ UNCHANGED log

\* What is recalled, if anything, comes before the prompt.
Recalled(q) ==
  /\ At(q, "recall") /\ asks[q].kind = "chat"
  /\ Goes(q, [asks[q] EXCEPT !.pc = "stream", !.prompt = apply_context_budget(asks[q].results)])
  /\ UNCHANGED log

\* A token holds a word or nothing that is left of it once it is sanitized.
Token(q) ==
  /\ At(q, "stream") /\ asks[q].tokens < MaxTokens
  /\ \E n \in {0, 1} : Goes(q, [asks[q] EXCEPT !.tokens = @ + 1, !.words = @ + n])
  /\ UNCHANGED log

\* Whether there is an answer to record.
Worded(r) == r.words > 0

\* The model's stream ends or breaks off.
StreamEnds(q) ==
  /\ At(q, "stream")
  /\ Goes(q, [asks[q] EXCEPT !.pc = IF Worded(asks[q]) THEN "record" ELSE "cite"])
  /\ UNCHANGED log

\* The row of a request: which one it was, and the answer that was streamed.
Row(r) == [no |-> r.no, words |-> r.words]

\* record_conversation, once the question is embedded; it may fail.
Recorded(q) ==
  /\ At(q, "record")
  /\ Goes(q, [asks[q] EXCEPT !.pc = "cite"])
  /\ log' \in {log, Append(log, Row(asks[q]))}

Cited(r) == r.prompt

\* The notice, the citations of the chunks in the prompt, and the end.
Done(q) ==
  /\ At(q, "cite")
  /\ Goes(q, [asks[q] EXCEPT !.pc = "answered", !.cited = Cited(asks[q])])
  /\ UNCHANGED log

\* The client of a stream goes away.
Leaves(q) ==
  /\ Open(q) /\ asks[q].kind = "chat"
  /\ Goes(q, [asks[q] EXCEPT !.pc = "left"])
  /\ UNCHANGED log

------------------------------------------------------------------------------
(* study_ask and chat_with_dataset *)

\* What a dataset holds: its newest entry in the list, else its chunks.
Content(d) ==
  LET entries == {i \in DOMAIN resources : resources[i].id = d}
      texts(s) == [i \in DOMAIN s |-> s[i].text] IN
  IF entries # {}
  THEN resources[CHOOSE i \in entries : \A j \in entries : i <= j].content.paragraphs
  ELSE texts(SelectSeq(chunks, LAMBDA c : c.doc = d))

Lesson(kind, d, content) ==
  [kind |-> kind, doc |-> d, content |-> content, pc |-> "recall", words |-> 0,
   no |-> 0, seen |-> {}]

chat_with_dataset(q, d) == Begin(q, Lesson("dataset", d, Content(d)))

\* The content comes with the question.
study_ask(q) == Begin(q, Lesson("study", None, <<>>))

RecalledForLesson(q) ==
  /\ At(q, "recall") /\ asks[q].kind \in {"dataset", "study"}
  /\ Goes(q, [asks[q] EXCEPT !.pc = "generate"])
  /\ UNCHANGED log

\* The model answers, or a text takes the place of its answer; either is recorded,
\* unless the log fails.
Answered(q) ==
  /\ At(q, "generate")
  /\ Goes(q, [asks[q] EXCEPT !.pc = "answered", !.words = 1])
  /\ log' \in {log, Append(log, Row([asks[q] EXCEPT !.words = 1]))}

------------------------------------------------------------------------------

\* memory_clear: the rows of the user.
memory_clear == log # <<>> /\ log' = <<>> /\ UNCHANGED <<corpusVars, asks, asked>>

AskStep(q) ==
  \/ Searched(q) \/ Reranked(q) \/ Recalled(q) \/ Token(q) \/ StreamEnds(q) \/ Recorded(q)
  \/ Done(q) \/ RecalledForLesson(q) \/ Answered(q)

ChatNext ==
  \/ CorpusStep \/ memory_clear
  \/ \E q \in Slots :
       \/ \E t \in Tenants \cup {None}, n \in 1..MaxTop :
            search(q, t, n) \/ \E private \in BOOLEAN : chat_sse(q, t, n, private)
       \/ study_ask(q) \/ \E d \in Elements(Docs) : chat_with_dataset(q, d)
       \/ AskStep(q) \/ Leaves(q)

ChatFairness == \A q \in Slots : WF_allVars(AskStep(q))

ChatSpec == ChatInit /\ [][ChatNext]_allVars /\ ChatFairness

------------------------------------------------------------------------------
(* Properties. *)

ChatTypeOK ==
  /\ CorpusTypeOK
  /\ asked \in 0..MaxAsked
  /\ \A q \in Slots : asks[q] # None =>
       /\ asks[q].no \in 1..asked /\ \A c \in asks[q].seen : ~c.deleted
       /\ asks[q].kind \in {"search", "chat"} => asks[q].words \in 0..asks[q].tokens

Questions == {asks[q] : q \in {p \in Slots : asks[p] # None /\ asks[p].kind \in {"search", "chat"}}}

\* What is found was in the store, and not deleted, at some time since the question
\* was asked, and is of the tenant that was asked for or of none.
FoundIsCurrent ==
  \A r \in Questions : \A c \in Elements(r.results) :
    c \in r.seen /\ (r.tenant # None => c.tenant \in {None, r.tenant})

\* A chunk that is ranked no lower than another in both searches, and higher in one,
\* is a candidate before it.
FusionFair ==
  \A r \in Questions : r.candidates # <<>> =>
    LET all == Elements(r.dense) \cup Elements(r.lexical)
        rank(l, c) == IF c \in Elements(l) THEN CHOOSE i \in DOMAIN l : l[i] = c
                      ELSE Cardinality(all) + 1 IN
    \A c, e \in all :
      c # e /\ rank(r.dense, c) <= rank(r.dense, e) /\ rank(r.lexical, c) <= rank(r.lexical, e)
        => rank(r.candidates, c) <= rank(r.candidates, e)
           /\ (e \in Elements(r.candidates) => c \in Elements(r.candidates))

\* Diversity costs nothing: as many chunks are found as were asked for, or all the
\* candidates, none of them twice, and the reranker's first choice comes first.
DiversityKeepsAll ==
  \A r \in Questions : r.pc \in {"recall", "stream", "record", "cite", "answered"} =>
    /\ Len(r.results) = Least(r.top, Len(r.candidates))
    /\ Cardinality(Elements(r.results)) = Len(r.results)
    /\ \A c \in Elements(r.candidates) : Rerank[c.text] <= Rerank[r.results[1].text]

\* A finished stream cites what the model was given to read, no more and no less:
\* the chunks that were found, from the first to the last that fits the window.
CitedIsRead ==
  \A r \in Questions : r.kind = "chat" /\ r.pc = "answered" =>
    /\ r.cited = First(Len(r.cited), r.results) /\ PromptSize(r.cited) <= Window
    /\ Len(r.cited) < Len(r.results) => PromptSize(First(Len(r.cited) + 1, r.results)) > Window

\* The log has at most one row for a request, with all the words it has streamed,
\* and none for a request without an answer of the model or that broke off before.
TurnRecorded ==
  /\ \A i \in DOMAIN log : log[i].words > 0
  /\ \A i, j \in DOMAIN log : log[i].no = log[j].no => i = j
  /\ \A q \in Slots, i \in DOMAIN log :
       asks[q] # None /\ asks[q].no = log[i].no
         => log[i].words = asks[q].words /\ asks[q].pc \notin {"broken", "stream", "record"}

\* A question about a custom dataset is answered from what was last ingested under
\* its name, and from nothing once it is deleted.
DatasetCurrent ==
  \A q \in Slots :
    /\ asked' # asked /\ asks'[q] # asks[q]
    /\ asks'[q].kind = "dataset" /\ asks'[q].doc \notin Synced
    => asks'[q].content = IF latest[asks'[q].doc] = None THEN <<>> ELSE latest[asks'[q].doc]

\* Every request ends, whatever fails.
AsksEnd == \A q \in Slots : Open(q) ~> ~Open(q)

\* What is found is current and fairly chosen, what is cited was read, and what was
\* streamed is recorded, although the corpus changes and clients go away.
ChatSound ==
  /\ ListingAgrees /\ FoundIsCurrent /\ FusionFair /\ DiversityKeepsAll
  /\ CitedIsRead /\ TurnRecorded
==============================================================================
