------------------------------- MODULE LensStudy -------------------------------
(***************************************************************************)
(* The study hub of Notes.tsx: documents that the user brings along, each  *)
(* with a conversation of its own, kept in localStorage (apps/lens/src;    *)
(* the vault of notes, the other half of that page, is LensNotes).         *)
(*                                                                         *)
(* A document is read by the server, which keeps nothing of it; its id is  *)
(* the millisecond when the page gets it.  After every change React writes *)
(* the documents and the conversations back, each on its own, and does not *)
(* mind a write that fails: localStorage may be full.  Callbacks that come *)
(* after the user has left the page find nothing to change.                *)
(***************************************************************************)
EXTENDS Values, FiniteSets

CONSTANTS
  Files,                \* files of the user, each brought along once
  MaxMs,                \* bound on the milliseconds
  MaxAsked, MaxAway,    \* bounds on questions, and on the visits that end
  MaxStoreErrors        \* bound on writes that fail, before the last visit

VARIABLES
  ms,
  studyDocs, activeDoc, talks, isStudying,       \* the page
  storedDocs, storedDoc, storedTalks,            \* localStorage
  parses, broughtFiles,                               \* files being read, and those that ever were
  studyQuestions,                                \* the questions so far
  studyLog,                                      \* conversationStore: the questions answered
  away, storeErrors,
  kept,                                          \* history: documents got and not deleted
  twins                                          \* history: an id was given twice

studyPage == <<studyDocs, activeDoc, talks, isStudying>>
studyStore == <<storedDocs, storedDoc, storedTalks, storeErrors>>
studyVars == <<ms, studyPage, studyStore, parses, broughtFiles, studyQuestions, studyLog, away, kept, twins>>

ASSUME StudyAssumption == {MaxMs, MaxAsked, MaxAway, MaxStoreErrors} \subseteq Nat

Docs(docs) == {doc.id : doc \in Elements(docs)}

LensStudyInit ==
  /\ ms = 0
  /\ studyDocs = <<>> /\ activeDoc = None /\ talks = [d \in {} |-> <<>>] /\ isStudying = FALSE
  /\ storedDocs = <<>> /\ storedDoc = None /\ storedTalks = talks /\ storeErrors = 0
  /\ parses = {} /\ broughtFiles = {} /\ studyQuestions = <<>> /\ studyLog = <<>> /\ away = 0
  /\ kept = {} /\ twins = FALSE

\* The effects that follow a change: what changed is written back, or is not.  The id of
\* the document that is chosen is written when there is one.
Effects ==
  \E failing \in SUBSET {"docs", "talks"} :
    /\ IF failing = {} THEN UNCHANGED storeErrors
       ELSE storeErrors < MaxStoreErrors /\ away < MaxAway /\ storeErrors' = storeErrors + 1
    /\ storedDocs' = IF studyDocs' = studyDocs \/ "docs" \in failing THEN storedDocs ELSE studyDocs'
    /\ storedTalks' = IF talks' = talks \/ "talks" \in failing THEN storedTalks ELSE talks'
    /\ storedDoc' = IF activeDoc' = None THEN storedDoc ELSE activeDoc'

\* If what is chosen is not listed the first is.
ChosenDoc(d, docs) == IF docs # <<>> /\ d \notin Docs(docs) THEN Head(docs).id ELSE d

StudyTick == ms < MaxMs /\ ms' = ms + 1
             /\ UNCHANGED <<studyPage, studyStore, parses, broughtFiles, studyQuestions, studyLog, away, kept, twins>>

------------------------------------------------------------------------------
(* Documents. *)

BringFile(file) ==
  /\ file \notin broughtFiles /\ broughtFiles' = broughtFiles \cup {file}
  /\ parses' = parses \cup {[file |-> file, at |-> away]}
  /\ UNCHANGED <<ms, studyPage, studyStore, studyQuestions, studyLog, away, kept, twins>>

\* What the page says first in a conversation.
Welcome == <<[role |-> "welcome", no |-> 0]>>

handleStudyFileUpload(parse) ==
  LET doc == [id |-> ms, file |-> parse.file] IN
  /\ parse.at = away /\ parses' = parses \ {parse}
  /\ studyDocs' = <<doc>> \o studyDocs
  /\ activeDoc' = ms
  /\ talks' = With(talks, ms, Welcome)
  /\ kept' = kept \cup {doc}
  /\ twins' = (twins \/ ms \in Docs(studyDocs) \cup DOMAIN talks \/ \E q \in Elements(studyQuestions) : q.doc = ms)
  /\ Effects
  /\ UNCHANGED <<ms, isStudying, broughtFiles, studyQuestions, studyLog, away>>

\* It cannot be read, or nobody waits for it any more.
ParseEnds(parse) ==
  /\ parses' = parses \ {parse}
  /\ UNCHANGED <<ms, studyPage, studyStore, broughtFiles, studyQuestions, studyLog, away, kept, twins>>

SelectDoc(d) ==
  /\ d \in Docs(studyDocs) \ {activeDoc} /\ activeDoc' = d
  /\ UNCHANGED <<studyDocs, talks, isStudying>> /\ Effects
  /\ UNCHANGED <<ms, parses, broughtFiles, studyQuestions, studyLog, away, kept, twins>>

Dropped(d) == [x \in DOMAIN talks \ {d} |-> talks[x]]

handleDeleteDoc(d) ==
  LET rest == Only(studyDocs, {doc \in Elements(studyDocs) : doc.id # d}) IN
  /\ d \in Docs(studyDocs)
  /\ studyDocs' = rest /\ talks' = Dropped(d)
  /\ activeDoc' = IF d # activeDoc THEN ChosenDoc(activeDoc, rest)
                  ELSE IF rest = <<>> THEN None ELSE Head(rest).id
  /\ kept' = {doc \in kept : doc.id # d}
  /\ Effects
  /\ UNCHANGED <<ms, isStudying, parses, broughtFiles, studyQuestions, studyLog, away, twins>>

------------------------------------------------------------------------------
(* Conversations. *)

TellIn(d, role, n) ==
  talks' = With(talks, d, Append(IF d \in DOMAIN talks THEN talks[d] ELSE <<>>, [role |-> role, no |-> n]))

executeStudyAction ==
  /\ ~isStudying /\ activeDoc \in Docs(studyDocs) /\ Len(studyQuestions) < MaxAsked
  /\ studyQuestions' = Append(studyQuestions, [doc |-> activeDoc, at |-> away, pc |-> "asked"])
  /\ TellIn(activeDoc, "user", Len(studyQuestions'))
  /\ isStudying' = TRUE
  /\ UNCHANGED <<studyDocs, activeDoc>> /\ Effects
  /\ UNCHANGED <<ms, parses, broughtFiles, studyLog, away, kept, twins>>

\* The closure has kept the document the question was asked of.
BoxOf(n) == studyQuestions[n].doc

\* recordExchange does not need the page.
Recorded(n, ok) == IF ok THEN Append(studyLog, n) ELSE studyLog

\* The answer comes also to the conversation of a document that was deleted meanwhile.
StudyAnswer(n, ok) ==
  /\ studyQuestions[n].pc = "asked"
  /\ studyQuestions' = [studyQuestions EXCEPT ![n].pc = IF ok THEN "answered" ELSE "failed"]
  /\ IF studyQuestions[n].at = away THEN TellIn(BoxOf(n), IF ok THEN "assistant" ELSE "error", n) /\ isStudying' = FALSE
     ELSE UNCHANGED <<talks, isStudying>>
  /\ studyLog' = Recorded(n, ok)
  /\ UNCHANGED <<studyDocs, activeDoc>> /\ Effects
  /\ UNCHANGED <<ms, parses, broughtFiles, away, kept, twins>>

ClearTalk ==
  /\ activeDoc \in DOMAIN talks /\ talks' = Dropped(activeDoc)
  /\ UNCHANGED <<studyDocs, activeDoc, isStudying>> /\ Effects
  /\ UNCHANGED <<ms, parses, broughtFiles, studyQuestions, studyLog, away, kept, twins>>

\* The user leaves the page and comes back to what is in localStorage.
StudyLeave ==
  /\ away < MaxAway /\ away' = away + 1
  /\ studyDocs' = storedDocs /\ talks' = storedTalks /\ isStudying' = FALSE
  /\ activeDoc' = ChosenDoc(storedDoc, storedDocs)
  /\ storedDoc' = IF activeDoc' = None THEN storedDoc ELSE activeDoc'
  /\ UNCHANGED <<ms, storedDocs, storedTalks, storeErrors, parses, broughtFiles, studyQuestions, studyLog, kept, twins>>

LensStudyNext ==
  \/ StudyTick \/ StudyLeave \/ executeStudyAction \/ ClearTalk
  \/ \E file \in Files : BringFile(file)
  \/ \E parse \in parses : handleStudyFileUpload(parse) \/ ParseEnds(parse)
  \/ \E d \in Docs(studyDocs) : SelectDoc(d) \/ handleDeleteDoc(d)
  \/ \E n \in DOMAIN studyQuestions, ok \in BOOLEAN : StudyAnswer(n, ok)

LensStudySpec == LensStudyInit /\ [][LensStudyNext]_studyVars

------------------------------------------------------------------------------
(* Properties. *)

LensStudyTypeOK ==
  /\ Docs(studyDocs) \cup Docs(storedDocs) \cup DOMAIN talks \subseteq 0..MaxMs
  /\ {activeDoc, storedDoc} \subseteq (0..MaxMs) \cup {None}
  /\ \A k \in DOMAIN studyQuestions : studyQuestions[k].at \in 0..away
  /\ storeErrors \in 0..MaxStoreErrors

\* As long as there are documents one of them is chosen, whatever was deleted and however
\* often the page was left - also when the id in localStorage is that of a deleted one.
DocIsChosen == studyDocs # <<>> => activeDoc \in Docs(studyDocs)

\* Unless a write failed the page has the documents that it was given and that the user
\* has not deleted, however often it was left: none is lost, and none comes back.
DocsKept == storeErrors = 0 => Elements(studyDocs) = kept

\* Unless two documents got the same id, an answer stands in the conversation of the
\* document it was asked of and below its question, or at the top of one that was cleared
\* or deleted meanwhile.
StudyAnswersInTheirBox ==
  ~twins => \A d \in DOMAIN talks : \A k \in DOMAIN talks[d] :
    LET said == talks[d][k] IN
    /\ said.role # "welcome" => studyQuestions[said.no].doc = d
    /\ said.role \in {"assistant", "error"} /\ k > 1
       => talks[d][k - 1] = [role |-> "user", no |-> said.no]

\* A conversation whose document is gone is the one answer that was on its way when it was
\* deleted: nothing else stays behind in localStorage.
OrphansAreLateAnswers ==
  ~twins /\ storeErrors = 0 => \A d \in DOMAIN talks \ Docs(studyDocs) :
    Len(talks[d]) = 1 /\ talks[d][1].role \in {"assistant", "error"}

\* Every answer is recorded once, also that of a page that was left.
StudyRecorded ==
  \A n \in DOMAIN studyQuestions :
    Cardinality({k \in DOMAIN studyLog : studyLog[k] = n}) = IF studyQuestions[n].pc = "answered" THEN 1 ELSE 0
==============================================================================
