------------------------------ MODULE PageProofs ------------------------------
(***************************************************************************)
(* Proofs about the pages of the web client (LensStudy, LensDatasets,      *)
(* LensNotes, LensFeed), for any documents, notes and filters, any limits  *)
(* of what is listed and kept, and any number of calls on their way.       *)
(*                                                                         *)
(* Each page has an invariant of its own.  In the study hub, and beside    *)
(* the datasets, the question whose answer is waited for is the only one   *)
(* and the last thing said in its box, so that the answer goes below it;   *)
(* and the log has the questions that were answered, each once.  A listing *)
(* of the datasets on its way has what the server has, or comes before a   *)
(* change after which another one is asked for.                            *)
(*                                                                         *)
(* Of the notes the calls made last decide, as long as no reply comes too  *)
(* late: the last listing is for the selected tag, the last note asked for *)
(* is the selected one, and a listing after which nothing is written has   *)
(* the notes of that tag, but those that are being deleted.                *)
(*                                                                         *)
(* The feed compares a page - shown, or on its way - with the ledger,      *)
(* except for the runs of the events it does not know yet: of every other  *)
(* entry it has the state, and it sees the entry or enough newer ones.     *)
(***************************************************************************)
EXTENDS LensDatasets, LensNotes, LensFeed, LensStudy, SequenceLemmas

------------------------------------------------------------------------------
(* The study hub. *)

StudyDocument == [id : 0..MaxMs, file : Files]
StudySaid     == [role : {"welcome", "user", "assistant", "error"}, no : Nat]
StudyQuestion == [doc : 0..MaxMs, at : Nat, pc : {"asked", "answered", "failed"}]

\* Conversations, none of them empty.
AreTalks(t) ==
  /\ DOMAIN t \subseteq 0..MaxMs
  /\ \A d \in DOMAIN t : t[d] \in Seq(StudySaid) /\ Len(t[d]) > 0

StudyTypes ==
  /\ ms \in 0..MaxMs /\ away \in Nat /\ storeErrors \in 0..MaxStoreErrors
  /\ studyDocs \in Seq(StudyDocument) /\ storedDocs \in Seq(StudyDocument)
  /\ {activeDoc, storedDoc} \subseteq (0..MaxMs) \cup {None}
  /\ AreTalks(talks) /\ AreTalks(storedTalks)
  /\ studyQuestions \in Seq(StudyQuestion) /\ studyLog \in Seq(Nat)
  /\ \A n \in DOMAIN studyQuestions : studyQuestions[n].at <= away
  /\ \A parse \in parses : parse.file \in Files
  /\ isStudying \in BOOLEAN /\ twins \in BOOLEAN

\* As long as no write failed, localStorage has what the page has.
StudyStored ==
  storeErrors = 0 => storedDocs = studyDocs /\ storedTalks = talks /\ Elements(studyDocs) = kept

\* The question whose answer the page waits for, if any.
Waiting(n) == studyQuestions[n].pc = "asked" /\ studyQuestions[n].at = away

\* There is one at most, and nothing was said after it.
StudyWaits ==
  \A n \in DOMAIN studyQuestions : Waiting(n) =>
    /\ isStudying /\ \A m \in DOMAIN studyQuestions : Waiting(m) => m = n
    /\ ~twins /\ studyQuestions[n].doc \in DOMAIN talks =>
         LET said == talks[studyQuestions[n].doc] IN said[Len(said)] = [role |-> "user", no |-> n]

\* What is said in a conversation of document d is of its questions, an answer below its own.
InPlace(s, k, d, asked) ==
  /\ s[k].role # "welcome" => s[k].no \in DOMAIN asked /\ asked[s[k].no].doc = d
  /\ s[k].role \in {"assistant", "error"} /\ k > 1 => s[k - 1] = [role |-> "user", no |-> s[k].no]

InTheirBox(t, asked) == \A d \in DOMAIN t : \A k \in DOMAIN t[d] : InPlace(t[d], k, d, asked)

StudyBoxes ==
  ~twins => InTheirBox(talks, studyQuestions) /\ InTheirBox(storedTalks, studyQuestions)

\* The log has the questions that were answered, each once.
StudyLogged ==
  /\ Elements(studyLog) = {n \in DOMAIN studyQuestions : studyQuestions[n].pc = "answered"}
  /\ \A i, j \in DOMAIN studyLog : studyLog[i] = studyLog[j] => i = j

StudyInv ==
  /\ StudyTypes /\ StudyStored /\ StudyWaits /\ StudyBoxes /\ StudyLogged
  /\ DocIsChosen /\ OrphansAreLateAnswers

LEMMA StudyBegins == LensStudyInit => StudyInv
<1>1. ASSUME LensStudyInit PROVE StudyInv
  <2>1. DOMAIN talks = {}
    BY <1>1 DEF LensStudyInit
  <2>2. DOMAIN studyQuestions = {} /\ DOMAIN studyLog = {} /\ Elements(studyLog) = {} /\ Elements(studyDocs) = {}
    BY <1>1 DEF LensStudyInit, Elements
  <2>3. StudyTypes
    <3>1. MaxMs \in Nat /\ MaxStoreErrors \in Nat
      BY StudyAssumption
    <3>2. AreTalks(talks) /\ AreTalks(storedTalks)
      BY <1>1, <2>1 DEF LensStudyInit, AreTalks
    <3>3. /\ studyDocs \in Seq(StudyDocument) /\ storedDocs \in Seq(StudyDocument)
          /\ studyQuestions \in Seq(StudyQuestion) /\ studyLog \in Seq(Nat)
      BY <1>1 DEF LensStudyInit
    <3>4. /\ ms \in 0..MaxMs /\ away \in Nat /\ storeErrors \in 0..MaxStoreErrors
          /\ {activeDoc, storedDoc} \subseteq (0..MaxMs) \cup {None} /\ parses = {}
          /\ isStudying \in BOOLEAN /\ twins \in BOOLEAN
      <4>1. /\ ms = 0 /\ away = 0 /\ storeErrors = 0 /\ activeDoc = None /\ storedDoc = None
            /\ parses = {} /\ isStudying = FALSE /\ twins = FALSE
        BY <1>1 DEF LensStudyInit
      <4>2. 0 \in 0..MaxMs /\ 0 \in 0..MaxStoreErrors /\ 0 \in Nat
        BY <3>1
      <4>3. {activeDoc, storedDoc} \subseteq (0..MaxMs) \cup {None}
        BY <4>1
      <4>4. isStudying \in BOOLEAN /\ twins \in BOOLEAN
        BY <4>1
      <4>5. QED
        BY <4>1, <4>2, <4>3, <4>4
    <3>5. QED
      BY <2>2, <3>2, <3>3, <3>4 DEF StudyTypes
  <2>4. StudyStored /\ StudyWaits /\ StudyLogged /\ DocIsChosen
    BY <1>1, <2>2 DEF LensStudyInit, StudyStored, StudyWaits, StudyLogged, DocIsChosen
  <2>5. StudyBoxes /\ OrphansAreLateAnswers
    BY <1>1, <2>1 DEF LensStudyInit, StudyBoxes, InTheirBox, OrphansAreLateAnswers
  <2>6. QED
    BY <2>3, <2>4, <2>5 DEF StudyInv
<1>2. QED
  BY <1>1

\* What is written back: what changed, or nothing of it.
LEMMA EffectsWrite ==
  ASSUME StudyTypes, Effects
  PROVE  /\ storeErrors' \in 0..MaxStoreErrors
         /\ storedDocs' \in {storedDocs, studyDocs'} /\ storedTalks' \in {storedTalks, talks'}
         /\ storedDoc' \in {storedDoc, activeDoc'}
         /\ storeErrors' = 0 /\ (storeErrors = 0 => storedDocs = studyDocs /\ storedTalks = talks)
            => storeErrors = 0 /\ storedDocs' = studyDocs' /\ storedTalks' = talks'
<1>1. PICK failing \in SUBSET {"docs", "talks"} :
        /\ IF failing = {} THEN UNCHANGED storeErrors
           ELSE storeErrors < MaxStoreErrors /\ away < MaxAway /\ storeErrors' = storeErrors + 1
        /\ storedDocs' = IF studyDocs' = studyDocs \/ "docs" \in failing THEN storedDocs ELSE studyDocs'
        /\ storedTalks' = IF talks' = talks \/ "talks" \in failing THEN storedTalks ELSE talks'
        /\ storedDoc' = IF activeDoc' = None THEN storedDoc ELSE activeDoc'
  BY DEF Effects
<1>2. storeErrors \in 0..MaxStoreErrors /\ MaxStoreErrors \in Nat
  BY StudyAssumption DEF StudyTypes
<1>3. storeErrors' \in 0..MaxStoreErrors /\ (storeErrors' = 0 => failing = {} /\ storeErrors = 0)
  BY <1>1, <1>2
<1>4. QED
  BY <1>1, <1>3

\* A conversation that is begun, or goes on.
LEMMA TalksWith ==
  ASSUME NEW t, AreTalks(t), NEW d \in 0..MaxMs, NEW s \in Seq(StudySaid), Len(s) > 0
  PROVE  /\ AreTalks(With(t, d, s)) /\ DOMAIN With(t, d, s) = DOMAIN t \cup {d}
         /\ With(t, d, s)[d] = s /\ \A e \in DOMAIN t \ {d} : With(t, d, s)[e] = t[e]
BY DEF AreTalks, With

LEMMA StudyTold ==
  ASSUME StudyTypes, NEW d \in 0..MaxMs, NEW role \in {"user", "assistant", "error"}, NEW n \in Nat,
         TellIn(d, role, n)
  PROVE  /\ AreTalks(talks') /\ \A e : e \in DOMAIN talks' <=> e \in DOMAIN talks \/ e = d
         /\ \A e \in DOMAIN talks \ {d} : talks'[e] = talks[e]
         /\ \E len \in Nat :
              /\ d \in DOMAIN talks => len = Len(talks[d]) /\ \A k \in 1..len : talks'[d][k] = talks[d][k]
              /\ d \notin DOMAIN talks => len = 0
              /\ Len(talks'[d]) = len + 1 /\ DOMAIN talks'[d] = 1..(len + 1)
              /\ talks'[d][len + 1] = [role |-> role, no |-> n]
<1> DEFINE old == IF d \in DOMAIN talks THEN talks[d] ELSE <<>>
           said == [role |-> role, no |-> n]
           s == Append(old, said)
<1>1. AreTalks(talks)
  BY DEF StudyTypes
<1>2. old \in Seq(StudySaid)
  BY <1>1 DEF AreTalks
<1>3. said \in StudySaid
  BY DEF StudySaid
<1>4. /\ Len(old) \in Nat /\ s \in Seq(StudySaid) /\ Len(s) = Len(old) + 1 /\ DOMAIN s = 1..(Len(old) + 1)
      /\ s[Len(old) + 1] = said /\ \A k \in 1..Len(old) : s[k] = old[k]
  <2> HIDE DEF old, said
  <2>1. QED
    BY <1>2, <1>3, AppendProperties, LenProperties
<1>5. talks' = With(talks, d, s)
  BY DEF TellIn
<1>7. d \notin DOMAIN talks => Len(old) = 0
  OBVIOUS
<1>8. d \in DOMAIN talks => old = talks[d]
  OBVIOUS
<1> HIDE DEF s, old, said
<1>6. /\ AreTalks(talks') /\ DOMAIN talks' = DOMAIN talks \cup {d}
      /\ talks'[d] = s /\ \A e \in DOMAIN talks \ {d} : talks'[e] = talks[e]
  <2>1. Len(s) > 0
    BY <1>4
  <2>2. /\ AreTalks(With(talks, d, s)) /\ DOMAIN With(talks, d, s) = DOMAIN talks \cup {d}
        /\ With(talks, d, s)[d] = s /\ \A e \in DOMAIN talks \ {d} : With(talks, d, s)[e] = talks[e]
    BY <1>1, <1>4, <2>1, TalksWith
  <2>3. QED
    BY <1>5, <2>2, Zenon
<1>9. Len(talks'[d]) = Len(old) + 1 /\ DOMAIN talks'[d] = 1..(Len(old) + 1)
      /\ talks'[d][Len(old) + 1] = [role |-> role, no |-> n]
  BY <1>4, <1>6 DEF said
<1>10. d \in DOMAIN talks => Len(old) = Len(talks[d]) /\ \A k \in 1..Len(old) : talks'[d][k] = talks[d][k]
  BY <1>4, <1>6, <1>8
<1>11. QED
  BY <1>4, <1>6, <1>7, <1>9, <1>10


LEMMA StoredAgain ==
  ASSUME StudyTypes, StudyStored, Effects,
         Elements(studyDocs) = kept => Elements(studyDocs') = kept'
  PROVE  StudyStored'
BY EffectsWrite DEF StudyStored

LEMMA StoresTyped ==
  ASSUME StudyTypes, Effects, studyDocs' \in Seq(StudyDocument), AreTalks(talks'),
         activeDoc' \in (0..MaxMs) \cup {None}
  PROVE  /\ storeErrors' \in 0..MaxStoreErrors
         /\ storedDocs' \in Seq(StudyDocument) /\ AreTalks(storedTalks')
         /\ {activeDoc', storedDoc'} \subseteq (0..MaxMs) \cup {None}
<1>1. /\ storeErrors' \in 0..MaxStoreErrors
      /\ storedDocs' \in {storedDocs, studyDocs'} /\ storedTalks' \in {storedTalks, talks'}
      /\ storedDoc' \in {storedDoc, activeDoc'}
  BY EffectsWrite
<1>2. storedDocs \in Seq(StudyDocument) /\ AreTalks(storedTalks) /\ storedDoc \in (0..MaxMs) \cup {None}
  BY DEF StudyTypes
<1>3. AreTalks(storedTalks')
  <2>1. CASE storedTalks' = storedTalks
    BY <1>2, <2>1, Zenon
  <2>2. CASE storedTalks' = talks'
    BY <2>2, Zenon
  <2>3. QED
    BY <1>1, <2>1, <2>2
<1>4. QED
  BY <1>1, <1>2, <1>3

\* Questions that are only added to, or answered, stay what was asked.
LEMMA BoxesStay ==
  ASSUME NEW t, NEW asked, NEW later, InTheirBox(t, asked), DOMAIN asked \subseteq DOMAIN later,
         \A n \in DOMAIN asked : later[n].doc = asked[n].doc
  PROVE  InTheirBox(t, later)
BY DEF InTheirBox, InPlace

LEMMA BoxesAgain ==
  ASSUME StudyTypes, Effects, StudyBoxes,
         DOMAIN studyQuestions \subseteq DOMAIN studyQuestions',
         \A n \in DOMAIN studyQuestions : studyQuestions'[n].doc = studyQuestions[n].doc,
         ~twins' => InTheirBox(talks', studyQuestions'), ~twins' => ~twins
  PROVE  StudyBoxes'
<1>1. SUFFICES ASSUME ~twins' PROVE InTheirBox(storedTalks', studyQuestions')
  BY DEF StudyBoxes
<1>2. storedTalks' \in {storedTalks, talks'}
  BY EffectsWrite
<1>3. InTheirBox(storedTalks, studyQuestions')
  <2>1. InTheirBox(storedTalks, studyQuestions)
    BY <1>1 DEF StudyBoxes
  <2>2. QED
    BY <2>1, BoxesStay
<1>4. CASE storedTalks' = storedTalks
  BY <1>3, <1>4, Zenon
<1>5. CASE storedTalks' = talks'
  BY <1>1, <1>5, Zenon
<1>6. QED
  BY <1>2, <1>4, <1>5

\* Time passes, a file is brought or cannot be read.
LEMMA QuietKeeps ==
  ASSUME StudyInv, ms' \in 0..MaxMs, \A parse \in parses' : parse.file \in Files,
         UNCHANGED <<studyPage, studyStore, studyQuestions, studyLog, away, kept, twins>>
  PROVE  StudyInv'
<1> USE DEF studyPage, studyStore
<1>1. StudyTypes'
  BY DEF StudyInv, StudyTypes
<1>2. StudyStored' /\ StudyLogged' /\ DocIsChosen'
  BY DEF StudyInv, StudyStored, StudyLogged, DocIsChosen
<1>3. StudyWaits'
  BY DEF StudyInv, StudyWaits, Waiting
<1>4. StudyBoxes' /\ OrphansAreLateAnswers'
  BY DEF StudyInv, StudyBoxes, OrphansAreLateAnswers
<1>5. QED
  BY <1>1, <1>2, <1>3, <1>4 DEF StudyInv

LEMMA DocsTyped ==
  ASSUME NEW s \in Seq(StudyDocument)
  PROVE  Docs(s) \subseteq 0..MaxMs /\ (s # <<>> => Head(s) \in Elements(s) /\ Head(s).id \in Docs(s))
<1>1. DOMAIN s = 1..Len(s) /\ Len(s) \in Nat /\ \A i \in 1..Len(s) : s[i] \in StudyDocument
  BY LenProperties, ElementOfSeq
<1>2. s # <<>> => Head(s) = s[1] /\ 1 \in 1..Len(s)
  BY <1>1, HeadTailProperties
<1>3. QED
  BY <1>1, <1>2 DEF Docs, Elements, StudyDocument

LEMMA SelectKeeps ==
  ASSUME StudyInv, NEW d, SelectDoc(d)
  PROVE  StudyInv'
<1>1. /\ d \in Docs(studyDocs) /\ activeDoc' = d /\ Effects
      /\ UNCHANGED <<studyDocs, talks, isStudying, ms, parses, broughtFiles, studyQuestions, studyLog,
                     away, kept, twins>>
  BY DEF SelectDoc
<1>2. d \in 0..MaxMs
  <2>1. studyDocs \in Seq(StudyDocument)
    BY DEF StudyInv, StudyTypes
  <2>2. QED
    BY <1>1, <2>1, DocsTyped
<1>3. StudyTypes /\ StudyStored /\ StudyBoxes
  BY DEF StudyInv
<1>4. studyDocs' \in Seq(StudyDocument) /\ AreTalks(talks')
  BY <1>1, <1>3 DEF StudyTypes
<1>5. StudyTypes'
  <2>1. /\ storeErrors' \in 0..MaxStoreErrors
        /\ storedDocs' \in Seq(StudyDocument) /\ AreTalks(storedTalks')
        /\ {activeDoc', storedDoc'} \subseteq (0..MaxMs) \cup {None}
    BY <1>1, <1>2, <1>3, <1>4, StoresTyped
  <2>2. QED
    BY <1>1, <1>3, <1>4, <2>1 DEF StudyTypes
<1>6. StudyStored'
  BY <1>1, <1>3, StoredAgain
<1>7. StudyBoxes'
  <2>1. ~twins' => InTheirBox(talks', studyQuestions')
    BY <1>1, <1>3 DEF StudyBoxes
  <2>2. QED
    BY <1>1, <1>3, <2>1, BoxesAgain
<1>8. StudyWaits' /\ StudyLogged'
  BY <1>1 DEF StudyInv, StudyWaits, Waiting, StudyLogged
<1>9. DocIsChosen'
  BY <1>1 DEF DocIsChosen
<1>10. OrphansAreLateAnswers'
  <2>1. storeErrors' = 0 => storeErrors = 0
    BY <1>1, <1>3, EffectsWrite DEF StudyStored
  <2>2. QED
    BY <1>1, <2>1 DEF StudyInv, OrphansAreLateAnswers
<1>11. QED
  BY <1>5, <1>6, <1>7, <1>8, <1>9, <1>10 DEF StudyInv

\* A document that the page has got: the new one in front, with a conversation of its own.
LEMMA UploadKeeps ==
  ASSUME StudyInv, NEW parse \in parses, handleStudyFileUpload(parse)
  PROVE  StudyInv'
<1> DEFINE doc == [id |-> ms, file |-> parse.file]
<1>1. /\ parses' = parses \ {parse} /\ studyDocs' = <<doc>> \o studyDocs /\ activeDoc' = ms
      /\ talks' = With(talks, ms, Welcome) /\ kept' = kept \cup {doc}
      /\ twins' = (twins \/ ms \in Docs(studyDocs) \cup DOMAIN talks \/ \E q \in Elements(studyQuestions) : q.doc = ms)
      /\ Effects
      /\ UNCHANGED <<ms, isStudying, broughtFiles, studyQuestions, studyLog, away>>
  BY DEF handleStudyFileUpload
<1>2. StudyTypes /\ StudyStored /\ StudyBoxes
  BY DEF StudyInv
<1>3. doc \in StudyDocument /\ doc.id = ms
  BY <1>2 DEF StudyTypes, StudyDocument
<1> HIDE DEF doc
<1>4. /\ studyDocs' \in Seq(StudyDocument) /\ studyDocs' # <<>> /\ Head(studyDocs') = doc
      /\ Elements(studyDocs') = Elements(studyDocs) \cup {doc}
  <2>1. studyDocs \in Seq(StudyDocument)
    BY <1>2 DEF StudyTypes
  <2>2. studyDocs' = <<doc>> \o studyDocs
    BY <1>1
  <2> DEFINE t == <<doc>> \o studyDocs
  <2>3. t = <<doc>> \o studyDocs /\ studyDocs' = t
    BY <2>2
  <2> HIDE DEF t
  <2>4. t \in Seq(StudyDocument) /\ t # <<>> /\ Head(t) = doc /\ Elements(t) = Elements(studyDocs) \cup {doc}
    <3>1. t \in Seq(StudyDocument) /\ t # <<>> /\ Head(t) = doc
      BY <1>3, <2>1, <2>3, PutInFront
    <3>2. Elements(t) = Elements(studyDocs) \cup {doc}
      BY <1>3, <2>1, <2>3, ElementsInFront
    <3>3. QED
      BY <3>1, <3>2
  <2>5. QED
    BY <2>3, <2>4, Zenon
<1>5. Docs(studyDocs') = Docs(studyDocs) \cup {ms}
  BY <1>3, <1>4 DEF Docs
<1>6. /\ AreTalks(talks') /\ DOMAIN talks' = DOMAIN talks \cup {ms} /\ talks'[ms] = Welcome
      /\ \A d \in DOMAIN talks \ {ms} : talks'[d] = talks[d]
  <2>1. Welcome \in Seq(StudySaid) /\ Len(Welcome) > 0
    BY DEF Welcome, StudySaid
  <2>2. AreTalks(talks) /\ ms \in 0..MaxMs
    BY <1>2 DEF StudyTypes
  <2>3. /\ AreTalks(With(talks, ms, Welcome)) /\ DOMAIN With(talks, ms, Welcome) = DOMAIN talks \cup {ms}
        /\ With(talks, ms, Welcome)[ms] = Welcome
        /\ \A d \in DOMAIN talks \ {ms} : With(talks, ms, Welcome)[d] = talks[d]
    BY <2>1, <2>2, TalksWith
  <2>4. QED
    BY <1>1, <2>3, Zenon
<1>7. StudyTypes'
  <2>1. ms \in (0..MaxMs) \cup {None}
    BY <1>2 DEF StudyTypes
  <2>2. /\ storeErrors' \in 0..MaxStoreErrors
        /\ storedDocs' \in Seq(StudyDocument) /\ AreTalks(storedTalks')
        /\ {activeDoc', storedDoc'} \subseteq (0..MaxMs) \cup {None}
    BY <1>1, <1>2, <1>4, <1>6, <2>1, StoresTyped
  <2>3. QED
    BY <1>1, <1>2, <1>4, <1>6, <2>2 DEF StudyTypes
<1>8. StudyStored'
  BY <1>1, <1>2, <1>4, StoredAgain
<1>9. /\ twins' \in BOOLEAN
      /\ ~twins' => ~twins /\ ms \notin Docs(studyDocs) /\ ms \notin DOMAIN talks
                    /\ \A n \in DOMAIN studyQuestions : studyQuestions[n].doc # ms
  BY <1>1, <1>2 DEF StudyTypes, Elements
<1>10. StudyWaits'
  BY <1>1, <1>6, <1>9 DEF StudyInv, StudyWaits, Waiting
<1>11. StudyBoxes'
  <2>1. ASSUME ~twins' PROVE InTheirBox(talks', studyQuestions)
    <3>1. InTheirBox(talks, studyQuestions)
      BY <1>2, <1>9, <2>1 DEF StudyBoxes
    <3>2. \A k \in DOMAIN talks'[ms] : talks'[ms][k].role = "welcome"
      BY <1>6 DEF Welcome
    <3>3. QED
      BY <1>6, <1>9, <2>1, <3>1, <3>2 DEF InTheirBox, InPlace
  <2>2. QED
    BY <1>1, <1>2, <1>9, <2>1, BoxesAgain
<1>12. StudyLogged' /\ DocIsChosen'
  BY <1>1, <1>5 DEF StudyInv, StudyLogged, DocIsChosen
<1>13. OrphansAreLateAnswers'
  <2>1. storeErrors' = 0 => storeErrors = 0
    BY <1>1, <1>2, EffectsWrite DEF StudyStored
  <2>2. QED
    BY <1>1, <1>5, <1>6, <1>9, <2>1 DEF StudyInv, OrphansAreLateAnswers
<1>14. QED
  BY <1>7, <1>8, <1>10, <1>11, <1>12, <1>13 DEF StudyInv

\* Conversations that are taken away.
LEMMA DroppedTalks ==
  ASSUME StudyTypes, NEW d
  PROVE  /\ AreTalks(Dropped(d)) /\ DOMAIN Dropped(d) = DOMAIN talks \ {d}
         /\ \A e \in DOMAIN talks \ {d} : Dropped(d)[e] = talks[e]
BY DEF StudyTypes, AreTalks, Dropped

\* Where a conversation is taken away the others stay as they are.
LEMMA DropKeeps ==
  ASSUME StudyInv, NEW d, talks' = Dropped(d), Effects,
         studyDocs' \in Seq(StudyDocument), activeDoc' \in (0..MaxMs) \cup {None},
         Elements(studyDocs) = kept => Elements(studyDocs') = kept',
         Docs(studyDocs) \subseteq Docs(studyDocs') \cup {d},
         UNCHANGED <<ms, isStudying, parses, broughtFiles, studyQuestions, studyLog, away, twins>>
  PROVE  /\ StudyTypes' /\ StudyStored' /\ StudyWaits' /\ StudyBoxes' /\ StudyLogged'
         /\ OrphansAreLateAnswers'
<1>1. StudyTypes /\ StudyStored /\ StudyBoxes
  BY DEF StudyInv
<1>2. /\ AreTalks(talks') /\ DOMAIN talks' = DOMAIN talks \ {d}
      /\ \A e \in DOMAIN talks \ {d} : talks'[e] = talks[e]
  <2>1. /\ AreTalks(Dropped(d)) /\ DOMAIN Dropped(d) = DOMAIN talks \ {d}
        /\ \A e \in DOMAIN talks \ {d} : Dropped(d)[e] = talks[e]
    BY <1>1, DroppedTalks
  <2>2. QED
    BY <2>1, Zenon
<1>3. StudyTypes'
  <2>1. /\ storeErrors' \in 0..MaxStoreErrors
        /\ storedDocs' \in Seq(StudyDocument) /\ AreTalks(storedTalks')
        /\ {activeDoc', storedDoc'} \subseteq (0..MaxMs) \cup {None}
    BY <1>1, <1>2, StoresTyped
  <2>2. QED
    BY <1>1, <1>2, <2>1 DEF StudyTypes
<1>4. StudyStored'
  BY <1>1, StoredAgain
<1>5. StudyWaits'
  BY <1>2 DEF StudyInv, StudyWaits, Waiting
<1>6. StudyBoxes'
  <2>1. ASSUME ~twins' PROVE InTheirBox(talks', studyQuestions)
    <3>1. InTheirBox(talks, studyQuestions)
      BY <1>1, <2>1 DEF StudyBoxes
    <3>2. QED
      BY <1>2, <3>1 DEF InTheirBox
  <2>2. QED
    BY <1>1, <2>1, BoxesAgain
<1>7. StudyLogged'
  BY DEF StudyInv, StudyLogged
<1>8. OrphansAreLateAnswers'
  <2>1. storeErrors' = 0 => storeErrors = 0
    BY <1>1, EffectsWrite DEF StudyStored
  <2>2. QED
    BY <1>2, <2>1 DEF StudyInv, OrphansAreLateAnswers
<1>9. QED
  BY <1>3, <1>4, <1>5, <1>6, <1>7, <1>8

LEMMA ClearTalkKeeps == ASSUME StudyInv, ClearTalk PROVE StudyInv'
<1>1. /\ talks' = Dropped(activeDoc) /\ Effects
      /\ UNCHANGED <<studyDocs, activeDoc, isStudying, ms, parses, broughtFiles, studyQuestions, studyLog,
                     away, kept, twins>>
  BY DEF ClearTalk
<1>2. studyDocs' \in Seq(StudyDocument) /\ activeDoc' \in (0..MaxMs) \cup {None}
  BY <1>1 DEF StudyInv, StudyTypes
<1>3. DocIsChosen'
  BY <1>1 DEF StudyInv, DocIsChosen
<1>4. QED
  BY <1>1, <1>2, <1>3, DropKeeps DEF StudyInv

LEMMA DeleteDocKeeps == ASSUME StudyInv, NEW d, handleDeleteDoc(d) PROVE StudyInv'
<1> DEFINE others == {doc \in Elements(studyDocs) : doc.id # d}
           rest == Only(studyDocs, others)
<1>1. /\ studyDocs' = rest /\ talks' = Dropped(d) /\ kept' = {doc \in kept : doc.id # d} /\ Effects
      /\ activeDoc' = IF d # activeDoc THEN ChosenDoc(activeDoc, rest)
                      ELSE IF rest = <<>> THEN None ELSE Head(rest).id
      /\ UNCHANGED <<ms, isStudying, parses, broughtFiles, studyQuestions, studyLog, away, twins>>
  BY DEF handleDeleteDoc
<1>2. studyDocs \in Seq(StudyDocument) /\ activeDoc \in (0..MaxMs) \cup {None}
  BY DEF StudyInv, StudyTypes
<1>3. rest \in Seq(StudyDocument) /\ Elements(rest) = Elements(studyDocs) \cap others
  BY <1>2, OnlyFacts
<1>4. Elements(rest) = others
  BY <1>3
<1>5. Elements(studyDocs) = kept => Elements(rest) = kept'
  BY <1>1, <1>4
<1>6. Docs(rest) = Docs(studyDocs) \ {d}
  BY <1>4 DEF Docs
<1> HIDE DEF rest
<1>7. /\ activeDoc' \in (0..MaxMs) \cup {None}
      /\ rest # <<>> => activeDoc' \in Docs(rest)
  <2>1. Docs(rest) \subseteq 0..MaxMs /\ (rest # <<>> => Head(rest).id \in Docs(rest))
    BY <1>3, DocsTyped
  <2>2. ChosenDoc(activeDoc, rest) = IF rest # <<>> /\ activeDoc \notin Docs(rest) THEN Head(rest).id ELSE activeDoc
    BY DEF ChosenDoc
  <2>3. QED
    BY <1>1, <1>2, <2>1, <2>2
<1>8. DocIsChosen'
  BY <1>1, <1>7 DEF DocIsChosen
<1>9. /\ StudyTypes' /\ StudyStored' /\ StudyWaits' /\ StudyBoxes' /\ StudyLogged'
      /\ OrphansAreLateAnswers'
  BY <1>1, <1>3, <1>5, <1>6, <1>7, DropKeeps
<1>10. QED
  BY <1>8, <1>9 DEF StudyInv

LEMMA QuestionsTyped ==
  ASSUME StudyTypes
  PROVE  /\ DOMAIN studyQuestions = 1..Len(studyQuestions) /\ Len(studyQuestions) \in Nat /\ away \in Nat
         /\ \A n \in DOMAIN studyQuestions :
              studyQuestions[n] \in StudyQuestion /\ studyQuestions[n].at <= away
<1>1. studyQuestions \in Seq(StudyQuestion)
  BY DEF StudyTypes
<1>2. QED
  BY <1>1, LenProperties, ElementOfSeq DEF StudyTypes

\* The page comes back to what is in localStorage.
LEMMA StudyLeaveKeeps == ASSUME StudyInv, StudyLeave PROVE StudyInv'
<1>1. /\ away' = away + 1 /\ studyDocs' = storedDocs /\ talks' = storedTalks /\ isStudying' = FALSE
      /\ activeDoc' = ChosenDoc(storedDoc, storedDocs)
      /\ storedDoc' = IF activeDoc' = None THEN storedDoc ELSE activeDoc'
      /\ UNCHANGED <<ms, storedDocs, storedTalks, storeErrors, parses, broughtFiles, studyQuestions,
                     studyLog, kept, twins>>
  BY DEF StudyLeave
<1>2. StudyTypes /\ StudyStored /\ StudyBoxes
  BY DEF StudyInv
<1>3. /\ activeDoc' \in (0..MaxMs) \cup {None}
      /\ storedDocs # <<>> => activeDoc' \in Docs(storedDocs)
  <2>1. storedDocs \in Seq(StudyDocument) /\ storedDoc \in (0..MaxMs) \cup {None}
    BY <1>2 DEF StudyTypes
  <2>2. Docs(storedDocs) \subseteq 0..MaxMs /\ (storedDocs # <<>> => Head(storedDocs).id \in Docs(storedDocs))
    BY <2>1, DocsTyped
  <2>3. QED
    BY <1>1, <2>1, <2>2 DEF ChosenDoc
<1>4. StudyTypes'
  <2>1. away \in Nat /\ \A n \in DOMAIN studyQuestions : studyQuestions[n].at <= away /\ studyQuestions[n].at \in Nat
    BY <1>2, QuestionsTyped DEF StudyQuestion
  <2>2. away' \in Nat /\ \A n \in DOMAIN studyQuestions : studyQuestions[n].at <= away'
    BY <1>1, <2>1
  <2>3. QED
    BY <1>1, <1>2, <1>3, <2>2 DEF StudyTypes
<1>5. StudyStored' /\ StudyLogged'
  BY <1>1, <1>2 DEF StudyInv, StudyStored, StudyLogged
<1>6. StudyWaits'
  <2>1. \A n \in DOMAIN studyQuestions : studyQuestions[n].at <= away /\ studyQuestions[n].at \in Nat
    BY <1>2, QuestionsTyped DEF StudyQuestion
  <2>2. \A n \in DOMAIN studyQuestions : studyQuestions[n].at # away'
    BY <1>1, <1>2, <2>1 DEF StudyTypes
  <2>3. QED
    BY <1>1, <2>2 DEF StudyWaits, Waiting
<1>7. StudyBoxes'
  BY <1>1, <1>2 DEF StudyBoxes
<1>8. DocIsChosen'
  BY <1>1, <1>3 DEF DocIsChosen
<1>9. OrphansAreLateAnswers'
  BY <1>1, <1>2 DEF StudyInv, StudyStored, OrphansAreLateAnswers
<1>10. QED
  BY <1>4, <1>5, <1>6, <1>7, <1>8, <1>9 DEF StudyInv


\* The conversation of d, len things long, has got one more.
ToldAt(d, len, said) ==
  /\ d \in DOMAIN talks => len = Len(talks[d]) /\ \A k \in 1..len : talks'[d][k] = talks[d][k]
  /\ d \notin DOMAIN talks => len = 0
  /\ DOMAIN talks'[d] = 1..(len + 1) /\ talks'[d][len + 1] = said
  /\ \A e \in DOMAIN talks' : e # d => e \in DOMAIN talks /\ talks'[e] = talks[e]

\* It is of a question of that document, and an answer is below the question.
OfQuestion(d, len, said, asked) ==
  /\ said.no \in DOMAIN asked /\ asked[said.no].doc = d
  /\ said.role \in {"assistant", "error"} /\ len > 0 => talks'[d][len] = [role |-> "user", no |-> said.no]

\* So everything is said in its place again.
LEMMA ToldInBox ==
  ASSUME StudyTypes, NEW asked, NEW d, NEW len \in Nat, NEW said, InTheirBox(talks, asked),
         ToldAt(d, len, said), OfQuestion(d, len, said, asked)
  PROVE  InTheirBox(talks', asked)
<1>1. ASSUME NEW k \in DOMAIN talks'[d]
      PROVE  InPlace(talks'[d], k, d, asked)
  <2>1. CASE k = len + 1
    BY <2>1 DEF InPlace, ToldAt, OfQuestion
  <2>2. CASE k # len + 1
    <3>1. k \in 1..len /\ d \in DOMAIN talks /\ len = Len(talks[d])
      BY <1>1, <2>2 DEF ToldAt
    <3>2. talks[d] \in Seq(StudySaid)
      BY <3>1 DEF StudyTypes, AreTalks
    <3>3. DOMAIN talks[d] = 1..len
      BY <3>1, <3>2, LenProperties
    <3>4. talks'[d][k] = talks[d][k] /\ (k > 1 => talks'[d][k - 1] = talks[d][k - 1])
      BY <3>1 DEF ToldAt
    <3>5. InPlace(talks[d], k, d, asked)
      BY <3>1, <3>3 DEF InTheirBox
    <3>6. QED
      BY <3>4, <3>5 DEF InPlace
  <2>3. QED
    BY <2>1, <2>2
<1>2. ASSUME NEW e \in DOMAIN talks', NEW k \in DOMAIN talks'[e], e # d
      PROVE  InPlace(talks'[e], k, e, asked)
  BY <1>2 DEF InTheirBox, ToldAt
<1>3. QED
  BY <1>1, <1>2 DEF InTheirBox

\* A question is asked of the document that is chosen.
LEMMA AskKeeps == ASSUME StudyInv, executeStudyAction PROVE StudyInv'
<1> DEFINE n == Len(studyQuestions) + 1
           q == [doc |-> activeDoc, at |-> away, pc |-> "asked"]
<1>1. StudyTypes /\ StudyStored /\ StudyBoxes
  BY DEF StudyInv
<1>2. /\ ~isStudying /\ activeDoc \in Docs(studyDocs)
      /\ studyQuestions' = Append(studyQuestions, q)
      /\ TellIn(activeDoc, "user", Len(studyQuestions')) /\ isStudying' = TRUE /\ Effects
      /\ UNCHANGED <<studyDocs, activeDoc, ms, parses, broughtFiles, studyLog, away, kept, twins>>
  BY DEF executeStudyAction
<1>3. activeDoc \in 0..MaxMs
  <2>1. studyDocs \in Seq(StudyDocument)
    BY <1>1 DEF StudyTypes
  <2>2. QED
    BY <1>2, <2>1, DocsTyped
<1>4. /\ DOMAIN studyQuestions = 1..(n - 1) /\ n - 1 \in Nat /\ n \in Nat /\ away \in Nat
      /\ \A m \in DOMAIN studyQuestions : studyQuestions[m] \in StudyQuestion /\ studyQuestions[m].at <= away
  BY <1>1, QuestionsTyped
<1>5. q \in StudyQuestion /\ q.doc = activeDoc /\ q.at = away /\ q.pc = "asked"
  BY <1>3, <1>4 DEF StudyQuestion
<1>6. /\ studyQuestions' \in Seq(StudyQuestion) /\ Len(studyQuestions') = n
      /\ DOMAIN studyQuestions' = 1..n /\ studyQuestions'[n] = q
      /\ \A m \in 1..(n - 1) : studyQuestions'[m] = studyQuestions[m]
  <2>1. studyQuestions \in Seq(StudyQuestion)
    BY <1>1 DEF StudyTypes
  <2> HIDE DEF q
  <2>2. QED
    BY <1>2, <1>5, <2>1, AppendProperties, LenProperties
<1> HIDE DEF n, q
<1>7. PICK len \in Nat :
        /\ activeDoc \in DOMAIN talks => len = Len(talks[activeDoc])
                                         /\ \A k \in 1..len : talks'[activeDoc][k] = talks[activeDoc][k]
        /\ activeDoc \notin DOMAIN talks => len = 0
        /\ Len(talks'[activeDoc]) = len + 1 /\ DOMAIN talks'[activeDoc] = 1..(len + 1)
        /\ talks'[activeDoc][len + 1] = [role |-> "user", no |-> n]
  <2>1. TellIn(activeDoc, "user", n)
    BY <1>2, <1>6
  <2>2. QED
    BY <1>1, <1>3, <1>4, <2>1, StudyTold
<1>8. /\ AreTalks(talks') /\ \A e : e \in DOMAIN talks' <=> e \in DOMAIN talks \/ e = activeDoc
      /\ \A e \in DOMAIN talks \ {activeDoc} : talks'[e] = talks[e]
  <2>1. TellIn(activeDoc, "user", n)
    BY <1>2, <1>6
  <2>2. QED
    BY <1>1, <1>3, <1>4, <2>1, StudyTold
<1>9. StudyTypes'
  <2>1. studyDocs' \in Seq(StudyDocument) /\ activeDoc' \in (0..MaxMs) \cup {None}
    BY <1>1, <1>2 DEF StudyTypes
  <2>2. /\ storeErrors' \in 0..MaxStoreErrors
        /\ storedDocs' \in Seq(StudyDocument) /\ AreTalks(storedTalks')
        /\ {activeDoc', storedDoc'} \subseteq (0..MaxMs) \cup {None}
    BY <1>1, <1>2, <1>8, <2>1, StoresTyped
  <2>3. \A m \in DOMAIN studyQuestions' : studyQuestions'[m].at <= away
    BY <1>4, <1>5, <1>6
  <2>4. QED
    BY <1>1, <1>2, <1>6, <1>8, <2>1, <2>2, <2>3 DEF StudyTypes
<1>10. StudyStored'
  BY <1>1, <1>2, StoredAgain
<1>11. \A m \in 1..(n - 1) : ~Waiting(m)
  BY <1>2, <1>4 DEF StudyInv, StudyWaits
<1>12. StudyWaits'
  <2>1. \A m \in DOMAIN studyQuestions' : Waiting(m)' => m = n
    BY <1>2, <1>4, <1>6, <1>11 DEF Waiting
  <2>2. isStudying' /\ studyQuestions'[n].doc = activeDoc
    BY <1>2, <1>5, <1>6
  <2>3. QED
    BY <1>7, <2>1, <2>2 DEF StudyWaits
<1>13. StudyBoxes'
  <2>1. ASSUME ~twins' PROVE InTheirBox(talks', studyQuestions')
    <3> DEFINE said == [role |-> "user", no |-> n]
    <3>1. InTheirBox(talks, studyQuestions)
      BY <1>1, <1>2, <2>1 DEF StudyBoxes
    <3>2. \A m \in DOMAIN studyQuestions : studyQuestions'[m].doc = studyQuestions[m].doc
      BY <1>4, <1>6
    <3>3. DOMAIN studyQuestions \subseteq DOMAIN studyQuestions'
      BY <1>4, <1>6
    <3>4. InTheirBox(talks, studyQuestions')
      BY <3>1, <3>2, <3>3, BoxesStay
    <3>5. said.role = "user" /\ said.no = n
      BY DEF said
    <3>6. n \in DOMAIN studyQuestions' /\ studyQuestions'[n].doc = activeDoc
      BY <1>4, <1>5, <1>6
    <3>7. talks'[activeDoc][len + 1] = said
      BY <1>7 DEF said
    <3> HIDE DEF said
    <3>8. \A e \in DOMAIN talks' : e # activeDoc => e \in DOMAIN talks /\ talks'[e] = talks[e]
      BY <1>8
    <3>9. QED
      <4>1. ToldAt(activeDoc, len, said)
        BY <1>7, <3>7, <3>8 DEF ToldAt
      <4>2. OfQuestion(activeDoc, len, said, studyQuestions')
        BY <3>5, <3>6 DEF OfQuestion
      <4>3. QED
        BY <1>1, <3>4, <4>1, <4>2, ToldInBox
  <2>2. /\ DOMAIN studyQuestions \subseteq DOMAIN studyQuestions'
        /\ \A m \in DOMAIN studyQuestions : studyQuestions'[m].doc = studyQuestions[m].doc
    BY <1>4, <1>6
  <2>3. QED
    BY <1>1, <1>2, <2>1, <2>2, BoxesAgain
<1>14. StudyLogged'
  <2>1. {m \in DOMAIN studyQuestions' : studyQuestions'[m].pc = "answered"}
          = {m \in DOMAIN studyQuestions : studyQuestions[m].pc = "answered"}
    BY <1>4, <1>5, <1>6
  <2>2. QED
    BY <1>2, <2>1 DEF StudyInv, StudyLogged
<1>15. DocIsChosen'
  BY <1>2 DEF StudyInv, DocIsChosen
<1>16. OrphansAreLateAnswers'
  <2>1. storeErrors' = 0 => storeErrors = 0
    BY <1>1, <1>2, EffectsWrite DEF StudyStored
  <2>2. QED
    BY <1>2, <1>8, <2>1 DEF StudyInv, OrphansAreLateAnswers
<1>17. QED
  BY <1>9, <1>10, <1>12, <1>13, <1>14, <1>15, <1>16 DEF StudyInv

\* An answer comes: below its question, or alone where the conversation is gone, or only to
\* the log when the page was left.
LEMMA StudyAnswerKeeps ==
  ASSUME StudyInv, NEW n \in DOMAIN studyQuestions, NEW ok \in BOOLEAN, StudyAnswer(n, ok)
  PROVE  StudyInv'
<1> DEFINE d == studyQuestions[n].doc
           pc == IF ok THEN "answered" ELSE "failed"
           role == IF ok THEN "assistant" ELSE "error"
<1>1. StudyTypes /\ StudyStored /\ StudyBoxes /\ StudyWaits /\ StudyLogged
  BY DEF StudyInv
<1>2. /\ studyQuestions[n].pc = "asked"
      /\ studyQuestions' = [studyQuestions EXCEPT ![n].pc = pc]
      /\ studyQuestions[n].at = away => TellIn(d, role, n) /\ isStudying' = FALSE
      /\ studyQuestions[n].at # away => UNCHANGED <<talks, isStudying>>
      /\ studyLog' = (IF ok THEN Append(studyLog, n) ELSE studyLog) /\ Effects
      /\ UNCHANGED <<studyDocs, activeDoc, ms, parses, broughtFiles, away, kept, twins>>
  BY DEF StudyAnswer, BoxOf, Recorded
<1>3. /\ DOMAIN studyQuestions = 1..Len(studyQuestions) /\ Len(studyQuestions) \in Nat /\ n \in Nat /\ away \in Nat
      /\ \A m \in DOMAIN studyQuestions : studyQuestions[m] \in StudyQuestion /\ studyQuestions[m].at <= away
  BY <1>1, QuestionsTyped
<1>4. d \in 0..MaxMs /\ pc \in {"answered", "failed"} /\ role \in {"assistant", "error"} /\ (pc = "answered" <=> ok)
  BY <1>3 DEF StudyQuestion
<1>5. /\ DOMAIN studyQuestions' = DOMAIN studyQuestions
      /\ \A m \in DOMAIN studyQuestions : studyQuestions'[m].doc = studyQuestions[m].doc
                                          /\ studyQuestions'[m].at = studyQuestions[m].at
      /\ \A m \in DOMAIN studyQuestions \ {n} : studyQuestions'[m] = studyQuestions[m]
      /\ studyQuestions'[n].pc = pc
      /\ studyQuestions' \in Seq(StudyQuestion)
  <2>1. PICK dd \in 0..MaxMs, at \in Nat, p \in {"asked", "answered", "failed"} :
          studyQuestions[n] = [doc |-> dd, at |-> at, pc |-> p]
    BY <1>3 DEF StudyQuestion
  <2> DEFINE q == [doc |-> dd, at |-> at, pc |-> pc]
  <2>2. q \in StudyQuestion /\ q.doc = studyQuestions[n].doc /\ q.at = studyQuestions[n].at /\ q.pc = pc
    BY <1>4, <2>1 DEF StudyQuestion
  <2>3. studyQuestions' = [studyQuestions EXCEPT ![n] = q]
    <3>1. q = [studyQuestions[n] EXCEPT !.pc = pc]
      BY <2>1
    <3>2. studyQuestions' = [studyQuestions EXCEPT ![n] = [studyQuestions[n] EXCEPT !.pc = pc]]
      BY <1>2
    <3> HIDE DEF q, pc
    <3>3. QED
      BY <3>1, <3>2, Zenon
  <2>4. studyQuestions \in Seq(StudyQuestion)
    BY <1>1 DEF StudyTypes
  <2> HIDE DEF q, pc
  <2>5. [studyQuestions EXCEPT ![n] = q] \in Seq(StudyQuestion)
    BY <1>3, <2>2, <2>4, ExceptSeq
  <2>6. studyQuestions' \in Seq(StudyQuestion)
    BY <2>3, <2>5, Zenon
  <2>7. QED
    BY <2>2, <2>3, <2>6
<1> HIDE DEF d, pc, role
<1>6. role \in {"user", "assistant", "error"}
  BY <1>4
<1>7. ASSUME studyQuestions[n].at = away
       PROVE  /\ AreTalks(talks') /\ \A x : x \in DOMAIN talks' <=> x \in DOMAIN talks \/ x = d
              /\ \A x \in DOMAIN talks \ {d} : talks'[x] = talks[x]
              /\ \E len \in Nat :
                   /\ d \in DOMAIN talks => len = Len(talks[d]) /\ \A k \in 1..len : talks'[d][k] = talks[d][k]
                   /\ d \notin DOMAIN talks => len = 0
                   /\ Len(talks'[d]) = len + 1 /\ DOMAIN talks'[d] = 1..(len + 1)
                   /\ talks'[d][len + 1] = [role |-> role, no |-> n]
  <2>1. TellIn(d, role, n)
    BY <1>2, <1>7
  <2>2. d \in 0..MaxMs /\ n \in Nat
    BY <1>3, <1>4
  <2>3. QED
    BY <1>1, <1>6, <2>1, <2>2, StudyTold
<1>8. AreTalks(talks') /\ DOMAIN talks \subseteq DOMAIN talks' /\ DOMAIN talks' \subseteq DOMAIN talks \cup {d}
  <2>1. CASE studyQuestions[n].at = away
    BY <1>7, <2>1
  <2>2. CASE studyQuestions[n].at # away
    BY <1>1, <1>2, <2>2 DEF StudyTypes
  <2>3. QED
    BY <2>1, <2>2
<1>9. StudyTypes'
  <2>1. studyDocs' \in Seq(StudyDocument) /\ activeDoc' \in (0..MaxMs) \cup {None}
    BY <1>1, <1>2 DEF StudyTypes
  <2>2. /\ storeErrors' \in 0..MaxStoreErrors
        /\ storedDocs' \in Seq(StudyDocument) /\ AreTalks(storedTalks')
        /\ {activeDoc', storedDoc'} \subseteq (0..MaxMs) \cup {None}
    BY <1>1, <1>2, <1>8, <2>1, StoresTyped
  <2>3. studyLog' \in Seq(Nat)
    BY <1>1, <1>2, <1>3, AppendProperties DEF StudyTypes
  <2>4. isStudying' \in BOOLEAN
    BY <1>1, <1>2 DEF StudyTypes
  <2>5. QED
    BY <1>1, <1>2, <1>3, <1>5, <1>8, <2>1, <2>2, <2>3, <2>4 DEF StudyTypes
<1>10. StudyStored'
  BY <1>1, <1>2, StoredAgain
<1>11. StudyWaits'
  <2>1. \A m \in DOMAIN studyQuestions' : Waiting(m)' => m # n /\ m \in DOMAIN studyQuestions /\ Waiting(m)
    BY <1>2, <1>4, <1>5 DEF Waiting
  <2>2. CASE studyQuestions[n].at = away
    <3>1. \A m \in DOMAIN studyQuestions' : ~Waiting(m)'
      BY <1>1, <1>2, <2>1, <2>2 DEF StudyWaits, Waiting
    <3>2. QED
      BY <3>1 DEF StudyWaits
  <2>3. CASE studyQuestions[n].at # away
    BY <1>1, <1>2, <1>5, <2>1, <2>3 DEF StudyWaits
  <2>4. QED
    BY <2>2, <2>3
<1>12. StudyBoxes'
  <2>1. ASSUME ~twins' PROVE InTheirBox(talks', studyQuestions')
    <3>1. InTheirBox(talks, studyQuestions)
      BY <1>1, <1>2, <2>1 DEF StudyBoxes
    <3>2. InTheirBox(talks, studyQuestions')
      <4>1. DOMAIN studyQuestions \subseteq DOMAIN studyQuestions'
        BY <1>5
      <4>2. \A m \in DOMAIN studyQuestions : studyQuestions'[m].doc = studyQuestions[m].doc
        BY <1>5
      <4>3. QED
        BY <3>1, <4>1, <4>2, BoxesStay
    <3>3. CASE studyQuestions[n].at # away
      BY <1>2, <3>2, <3>3
    <3>4. CASE studyQuestions[n].at = away
      <4> DEFINE said == [role |-> role, no |-> n]
      <4>1. PICK len \in Nat :
              /\ d \in DOMAIN talks => len = Len(talks[d]) /\ \A k \in 1..len : talks'[d][k] = talks[d][k]
              /\ d \notin DOMAIN talks => len = 0
              /\ Len(talks'[d]) = len + 1 /\ DOMAIN talks'[d] = 1..(len + 1)
              /\ talks'[d][len + 1] = [role |-> role, no |-> n]
        BY <1>7, <3>4
      <4>2. /\ \A x : x \in DOMAIN talks' <=> x \in DOMAIN talks \/ x = d
            /\ \A x \in DOMAIN talks \ {d} : talks'[x] = talks[x]
        BY <1>7, <3>4
      <4>3. len > 0 => talks'[d][len] = [role |-> "user", no |-> n]
        <5>1. SUFFICES ASSUME len > 0 PROVE talks'[d][len] = [role |-> "user", no |-> n]
          OBVIOUS
        <5>2. d \in DOMAIN talks /\ len = Len(talks[d]) /\ talks'[d][len] = talks[d][len]
          BY <4>1, <5>1
        <5>3. Waiting(n) /\ ~twins
          BY <1>2, <2>1, <3>4 DEF Waiting
        <5>4. QED
          BY <1>1, <5>2, <5>3 DEF StudyWaits, d
      <4>4. said.role # "welcome" /\ said.no = n /\ talks'[d][len + 1] = said
        BY <1>4, <4>1
      <4>5. n \in DOMAIN studyQuestions' /\ studyQuestions'[n].doc = d
        BY <1>5 DEF d
      <4> HIDE DEF said
      <4>6. \A e \in DOMAIN talks' : e # d => e \in DOMAIN talks /\ talks'[e] = talks[e]
        BY <4>2
      <4>7. QED
        <5>1. ToldAt(d, len, said)
          BY <4>1, <4>4, <4>6 DEF ToldAt
        <5>2. OfQuestion(d, len, said, studyQuestions')
          BY <4>3, <4>4, <4>5 DEF OfQuestion
        <5>3. QED
          BY <1>1, <3>2, <5>1, <5>2, ToldInBox
    <3>5. QED
      BY <3>3, <3>4
  <2>2. /\ DOMAIN studyQuestions \subseteq DOMAIN studyQuestions'
        /\ \A m \in DOMAIN studyQuestions : studyQuestions'[m].doc = studyQuestions[m].doc
    BY <1>5
  <2>3. QED
    BY <1>1, <1>2, <2>1, <2>2, BoxesAgain
<1>13. StudyLogged'
  <2>1. CASE ~ok
    <3>1. studyLog' = studyLog
      BY <1>2, <2>1
    <3>2. \A m \in DOMAIN studyQuestions' : studyQuestions'[m].pc = "answered" <=> studyQuestions[m].pc = "answered"
      BY <1>2, <1>4, <1>5, <2>1
    <3>3. QED
      BY <1>1, <1>5, <3>1, <3>2 DEF StudyLogged
  <2>2. CASE ok
    <3>1. studyLog' = Append(studyLog, n) /\ studyLog \in Seq(Nat)
      BY <1>1, <1>2, <2>2 DEF StudyTypes
    <3>2. n \notin Elements(studyLog)
      BY <1>1, <1>2 DEF StudyLogged
    <3>3. \A m \in DOMAIN studyQuestions' :
            studyQuestions'[m].pc = "answered" <=> m = n \/ studyQuestions[m].pc = "answered"
      BY <1>4, <1>5, <2>2
    <3>4. /\ Len(studyLog) \in Nat /\ DOMAIN studyLog = 1..Len(studyLog)
          /\ DOMAIN studyLog' = 1..(Len(studyLog) + 1)
          /\ studyLog'[Len(studyLog) + 1] = n
          /\ \A i \in 1..Len(studyLog) : studyLog'[i] = studyLog[i]
      BY <1>3, <3>1, AppendProperties, LenProperties
    <3>5. \A x : x \in Elements(studyLog') <=> x = n \/ x \in Elements(studyLog)
      BY <3>4 DEF Elements
    <3>6. \A i, j \in DOMAIN studyLog' : studyLog'[i] = studyLog'[j] => i = j
      <4>1. \A i \in DOMAIN studyLog : studyLog[i] # n
        BY <3>2 DEF Elements
      <4>2. \A i, j \in DOMAIN studyLog : studyLog[i] = studyLog[j] => i = j
        BY <1>1 DEF StudyLogged
      <4>3. QED
        BY <3>4, <4>1, <4>2
    <3>7. Elements(studyLog') = {m \in DOMAIN studyQuestions' : studyQuestions'[m].pc = "answered"}
      <4>1. \A m : m \in Elements(studyLog) <=> m \in DOMAIN studyQuestions /\ studyQuestions[m].pc = "answered"
        BY <1>1 DEF StudyLogged
      <4>2. QED
        BY <1>5, <3>3, <3>5, <4>1
    <3>8. QED
      BY <3>6, <3>7 DEF StudyLogged
  <2>3. QED
    BY <2>1, <2>2
<1>14. DocIsChosen'
  BY <1>2 DEF StudyInv, DocIsChosen
<1>15. OrphansAreLateAnswers'
  <2>1. SUFFICES ASSUME ~twins, storeErrors' = 0, NEW e \in DOMAIN talks' \ Docs(studyDocs)
                 PROVE  Len(talks'[e]) = 1 /\ talks'[e][1].role \in {"assistant", "error"}
    BY <1>2 DEF OrphansAreLateAnswers
  <2>2. storeErrors = 0
    BY <1>1, <1>2, <2>1, EffectsWrite DEF StudyStored
  <2>3. \A f \in DOMAIN talks \ Docs(studyDocs) :
          Len(talks[f]) = 1 /\ talks[f][1].role \in {"assistant", "error"}
    BY <2>1, <2>2 DEF StudyInv, OrphansAreLateAnswers
  <2>4. CASE studyQuestions[n].at # away
    BY <1>2, <2>1, <2>3, <2>4
  <2>5. CASE studyQuestions[n].at = away
    <3>1. PICK len \in Nat :
            /\ d \in DOMAIN talks => len = Len(talks[d]) /\ \A k \in 1..len : talks'[d][k] = talks[d][k]
            /\ d \notin DOMAIN talks => len = 0
            /\ Len(talks'[d]) = len + 1 /\ DOMAIN talks'[d] = 1..(len + 1)
            /\ talks'[d][len + 1] = [role |-> role, no |-> n]
      BY <1>7, <2>5
    <3>2. /\ \A x : x \in DOMAIN talks' <=> x \in DOMAIN talks \/ x = d
          /\ \A f \in DOMAIN talks \ {d} : talks'[f] = talks[f]
      BY <1>7, <2>5
    <3>3. CASE e # d
      BY <2>1, <2>3, <3>2, <3>3
    <3>4. CASE e = d /\ d \notin DOMAIN talks
      BY <1>4, <3>1, <3>4
    <3>5. CASE e = d /\ d \in DOMAIN talks
      <4>1. Len(talks[d]) = 1 /\ talks[d][1].role \in {"assistant", "error"}
        BY <2>1, <2>3, <3>5
      <4>2. talks[d][1] = [role |-> "user", no |-> n]
        BY <1>1, <1>2, <2>1, <2>5, <3>5, <4>1 DEF StudyWaits, Waiting, d
      <4>3. QED
        BY <4>1, <4>2
    <3>6. QED
      BY <3>3, <3>4, <3>5
  <2>6. QED
    BY <2>4, <2>5
<1>16. QED
  BY <1>9, <1>10, <1>11, <1>12, <1>13, <1>14, <1>15 DEF StudyInv

\* Every step of the study hub keeps its invariant.
LEMMA StudyStep == ASSUME StudyInv, [LensStudyNext]_studyVars PROVE StudyInv'
<1>1. StudyTypes
  BY DEF StudyInv
<1>2. CASE UNCHANGED studyVars
  BY <1>1, <1>2, QuietKeeps DEF studyVars, StudyTypes
<1>3. CASE StudyTick
  <2>1. ms' \in 0..MaxMs
    BY <1>1, <1>3, StudyAssumption DEF StudyTick, StudyTypes
  <2>2. QED
    BY <1>1, <1>3, <2>1, QuietKeeps DEF StudyTick, StudyTypes
<1>4. ASSUME NEW file \in Files, BringFile(file) PROVE StudyInv'
  <2>1. \A parse \in parses' : parse.file \in Files
    BY <1>1, <1>4 DEF BringFile, StudyTypes
  <2>2. QED
    BY <1>1, <1>4, <2>1, QuietKeeps DEF BringFile, StudyTypes
<1>5. ASSUME NEW parse \in parses, ParseEnds(parse) PROVE StudyInv'
  <2>1. \A p \in parses' : p.file \in Files
    BY <1>1, <1>5 DEF ParseEnds, StudyTypes
  <2>2. QED
    BY <1>1, <1>5, <2>1, QuietKeeps DEF ParseEnds, StudyTypes
<1>6. QED
  BY <1>2, <1>3, <1>4, <1>5, StudyLeaveKeeps, AskKeeps, ClearTalkKeeps, UploadKeeps, SelectKeeps,
     DeleteDocKeeps, StudyAnswerKeeps DEF LensStudyNext

\* What the page shows of its documents and conversations, from the invariant.
LEMMA StudyShows ==
  ASSUME StudyInv
  PROVE  LensStudyTypeOK /\ DocIsChosen /\ DocsKept /\ StudyAnswersInTheirBox /\ OrphansAreLateAnswers /\ StudyRecorded
<1>1. LensStudyTypeOK
  <2>1. studyDocs \in Seq(StudyDocument) /\ storedDocs \in Seq(StudyDocument)
    BY DEF StudyInv, StudyTypes
  <2>2. Docs(studyDocs) \subseteq 0..MaxMs /\ Docs(storedDocs) \subseteq 0..MaxMs
    BY <2>1, DocsTyped
  <2>3. \A k \in DOMAIN studyQuestions : studyQuestions[k].at \in 0..away
    BY QuestionsTyped DEF StudyInv, StudyQuestion
  <2>4. QED
    BY <2>2, <2>3 DEF LensStudyTypeOK, StudyInv, StudyTypes, AreTalks
<1>2. DocIsChosen /\ DocsKept /\ OrphansAreLateAnswers
  BY DEF StudyInv, StudyStored, DocsKept
<1>3. StudyAnswersInTheirBox
  BY DEF StudyInv, StudyBoxes, InTheirBox, InPlace, StudyAnswersInTheirBox
<1>4. StudyRecorded
  <2>1. SUFFICES ASSUME NEW n \in DOMAIN studyQuestions
                 PROVE  Cardinality({k \in DOMAIN studyLog : studyLog[k] = n})
                          = IF studyQuestions[n].pc = "answered" THEN 1 ELSE 0
    BY DEF StudyRecorded
  <2> DEFINE at == {k \in DOMAIN studyLog : studyLog[k] = n}
  <2>2. StudyLogged
    BY DEF StudyInv
  <2>3. CASE studyQuestions[n].pc = "answered"
    <3>1. PICK i \in DOMAIN studyLog : studyLog[i] = n
      BY <2>2, <2>3 DEF StudyLogged, Elements
    <3>2. at = {i}
      BY <2>2, <3>1 DEF StudyLogged
    <3> HIDE DEF at
    <3>3. Cardinality(at) = 1
      <4>1. Cardinality({i}) = 1
        BY FS_Singleton
      <4>2. QED
        BY <3>2, <4>1, Zenon
    <3>4. QED
      BY <2>3, <3>3 DEF at
  <2>4. CASE studyQuestions[n].pc # "answered"
    <3>1. at = {}
      BY <2>2, <2>4 DEF StudyLogged, Elements
    <3> HIDE DEF at
    <3>2. Cardinality(at) = 0
      <4>1. Cardinality({}) = 0
        BY FS_EmptySet
      <4>2. QED
        BY <3>1, <4>1, Zenon
    <3>3. QED
      BY <2>4, <3>2 DEF at
  <2>5. QED
    BY <2>3, <2>4
<1>5. QED
  BY <1>1, <1>2, <1>3, <1>4

\* The document chosen in the study hub is one of its documents, those uploaded are kept in
\* localStorage while no write fails, an answer stands below its question in the
\* conversation of its document, however late it comes, and is in the log once
\* (the study hub of Notes.tsx).
THEOREM StudyStaysSound ==
  LensStudySpec => [](LensStudyTypeOK /\ DocIsChosen /\ DocsKept /\ StudyAnswersInTheirBox
                      /\ OrphansAreLateAnswers /\ StudyRecorded)
<1>1. StudyInv /\ [LensStudyNext]_studyVars => StudyInv'
  BY StudyStep
<1>2. QED
  BY <1>1, StudyBegins, StudyShows, PTL DEF LensStudySpec

------------------------------------------------------------------------------
(* The page of the datasets. *)

DsCall  == [do : {"fetch", "upload", "manual", "delete"}, doc : Datasets \cup {None}, visit : Nat,
            active : Datasets \cup {None}, shown : Seq(Datasets)]
DsReply == [call : DsCall, late : BOOLEAN, list : Seq(Datasets)]

\* A change is of a document.
OfDocument(call) == call.do # "fetch" => call.doc \in Datasets

DsTypes ==
  /\ indexed \in Seq(Datasets) /\ resources \in Seq(Datasets)
  /\ {activeDataset, storedActive} \subseteq Datasets \cup {None}
  /\ sentCalls \subseteq DsCall /\ \A call \in sentCalls : OfDocument(call)
  /\ replies \in Seq(DsReply)
  /\ \A k \in DOMAIN replies : replies[k].call.visit = visit /\ OfDocument(replies[k].call)
  /\ acts \in 0..MaxActs /\ visit \in 0..MaxLeaves /\ unsettled \in BOOLEAN

\* Of this visit a reply came too late, or will.
Overtaken == unsettled \/ \E k \in DOMAIN replies : replies[k].late

ChangeAfter(k) == \E i \in DOMAIN replies : i > k /\ replies[i].call.do # "fetch"

\* What the page has when it has heard of everything.
Settled ==
  /\ resources = First(PageLimit, indexed)
  /\ IF resources = <<>> THEN activeDataset = None ELSE activeDataset \in Elements(resources)

\* A listing on its way has what the server has, or a change that will be followed by
\* another listing comes after it.
DsListing ==
  ~Overtaken =>
    /\ \A k \in DOMAIN replies :
         replies[k].call.do = "fetch" => replies[k].list = First(PageLimit, indexed) \/ ChangeAfter(k)
    /\ Listing \notin sentCalls /\ replies = <<>> => Settled

DsListInv == DsTypes /\ DsListing

LEMMA DsFirst == ASSUME NEW s \in Seq(Datasets) PROVE First(PageLimit, s) \in Seq(Datasets)
<1>1. PageLimit \in Nat /\ Len(s) \in Nat
  BY DatasetsAssumption, LenProperties
<1> DEFINE n == Least(PageLimit, Len(s))
<1>2. n \in 0..Len(s)
  BY <1>1 DEF Least
<1> HIDE DEF n
<1>3. SubSeq(s, 1, n) \in Seq(Datasets)
  BY <1>1, <1>2, SubSeqProperties
<1>4. QED
  BY <1>3 DEF First, n

LEMMA AllButTyped == ASSUME NEW s \in Seq(Datasets), NEW d PROVE AllBut(d, s) \in Seq(Datasets)
BY OnlyFacts DEF AllBut

\* The one in front of the others.
LEMMA InFrontTyped ==
  ASSUME NEW s \in Seq(Datasets), NEW d \in Datasets
  PROVE  <<d>> \o AllBut(d, s) \in Seq(Datasets)
<1> DEFINE rest == AllBut(d, s)
<1>1. rest \in Seq(Datasets)
  BY AllButTyped
<1>2. <<d>> \in Seq(Datasets)
  OBVIOUS
<1> HIDE DEF rest
<1>3. <<d>> \o rest \in Seq(Datasets)
  BY <1>1, <1>2, ConcatProperties
<1>4. QED
  BY <1>3 DEF rest

LEMMA ServedTyped ==
  ASSUME DsTypes, NEW call \in sentCalls
  PROVE  Served(call) \in Seq(Datasets) /\ (call.do = "fetch" => Served(call) = indexed)
<1>1. call.do \in {"fetch", "upload", "manual", "delete"} /\ OfDocument(call) /\ indexed \in Seq(Datasets)
  BY DEF DsTypes, DsCall
<1>2. CASE call.do \in {"upload", "manual"}
  <2>1. Served(call) = <<call.doc>> \o AllBut(call.doc, indexed)
    BY <1>2 DEF Served
  <2>2. QED
    BY <1>1, <1>2, <2>1, InFrontTyped DEF OfDocument
<1>3. CASE call.do = "delete"
  BY <1>1, <1>3, AllButTyped DEF Served
<1>4. CASE call.do = "fetch"
  BY <1>1, <1>4 DEF Served
<1>5. QED
  BY <1>1, <1>2, <1>3, <1>4

LEMMA ListingIs ==
  ASSUME visit \in Nat
  PROVE  Listing \in DsCall /\ OfDocument(Listing) /\ Listing.visit = visit /\ Listing.do = "fetch"
BY DEF Listing, Call, DsCall, OfDocument

LEMMA DsListBegins == LensDatasetsInit => DsListInv
<1>1. ASSUME LensDatasetsInit PROVE DsListInv
  <2>1. MaxActs \in Nat /\ MaxLeaves \in Nat
    BY DatasetsAssumption
  <2>2. visit = 0 /\ acts = 0 /\ replies = <<>> /\ unsettled = FALSE /\ DOMAIN replies = {}
    BY <1>1 DEF LensDatasetsInit
  <2>3. sentCalls = {Listing}
    BY <1>1 DEF LensDatasetsInit, Listing, Call
  <2>4. Listing \in DsCall /\ OfDocument(Listing)
    BY <2>2, ListingIs
  <2>5. /\ indexed \in Seq(Datasets) /\ resources \in Seq(Datasets)
        /\ {activeDataset, storedActive} \subseteq Datasets \cup {None} /\ replies \in Seq(DsReply)
    BY <1>1 DEF LensDatasetsInit
  <2>6. 0 \in 0..MaxActs /\ 0 \in 0..MaxLeaves
    BY <2>1
  <2>7. DsTypes
    BY <2>2, <2>3, <2>4, <2>5, <2>6 DEF DsTypes
  <2>8. DsListing
    BY <2>2, <2>3 DEF DsListing
  <2>9. QED
    BY <2>7, <2>8 DEF DsListInv
<1>2. QED
  BY <1>1

\* A call is made.
LEMMA DsSendKeeps ==
  ASSUME DsListInv, NEW call \in DsCall, OfDocument(call), Send(call)
  PROVE  DsListInv'
<1>1. /\ acts' = acts + 1 /\ acts < MaxActs /\ sentCalls' = sentCalls \cup {call}
      /\ UNCHANGED <<indexed, resources, activeDataset, storedActive, replies, visit, unsettled>>
  BY DEF Send, Act, dsPage
<1>2. acts' \in 0..MaxActs
  BY <1>1, DatasetsAssumption DEF DsListInv, DsTypes
<1>3. DsTypes'
  BY <1>1, <1>2 DEF DsListInv, DsTypes
<1>4. Listing' = Listing
  BY <1>1 DEF Listing, Call
<1>5. DsListing'
  BY <1>1, <1>4 DEF DsListInv, DsListing, Overtaken, ChangeAfter, Settled
<1>6. QED
  BY <1>3, <1>5 DEF DsListInv

\* What does not concern the listing.
LEMMA DsListQuiet ==
  ASSUME DsListInv, acts' \in 0..MaxActs,
         UNCHANGED <<indexed, resources, activeDataset, storedActive, sentCalls, replies, visit, unsettled>>
  PROVE  DsListInv'
<1>1. DsTypes'
  BY DEF DsListInv, DsTypes
<1>2. Listing' = Listing
  BY DEF Listing, Call
<1>3. DsListing'
  BY <1>2 DEF DsListInv, DsListing, Overtaken, ChangeAfter, Settled
<1>4. QED
  BY <1>1, <1>3 DEF DsListInv

LEMMA SelectDatasetKeeps == ASSUME DsListInv, NEW d, SelectDataset(d) PROVE DsListInv'
<1>1. /\ d \in Elements(resources) /\ activeDataset' = d /\ storedActive' \in {storedActive, d}
      /\ UNCHANGED <<indexed, resources, sentCalls, replies, acts, visit, unsettled>>
  BY DEF SelectDataset, Choose
<1>2. d \in Datasets /\ resources # <<>>
  BY <1>1, ElementOfSeq, LenProperties DEF DsListInv, DsTypes, Elements
<1>3. DsTypes'
  BY <1>1, <1>2 DEF DsListInv, DsTypes
<1>4. Listing' = Listing
  BY <1>1 DEF Listing, Call
<1>5. DsListing'
  BY <1>1, <1>2, <1>4 DEF DsListInv, DsListing, Overtaken, ChangeAfter, Settled
<1>6. QED
  BY <1>3, <1>5 DEF DsListInv

LEMMA DsLeaveKeeps == ASSUME DsListInv, Leave PROVE DsListInv'
<1>1. /\ visit < MaxLeaves /\ visit' = visit + 1 /\ resources' = <<>> /\ activeDataset' = storedActive
      /\ replies' = <<>> /\ unsettled' = FALSE
      /\ sentCalls' = sentCalls \cup {[Listing EXCEPT !.visit = visit']}
      /\ UNCHANGED <<indexed, storedActive, acts>>
  BY DEF Leave, Remount
<1>2. visit' \in 0..MaxLeaves /\ visit' \in Nat
  BY <1>1, DatasetsAssumption DEF DsListInv, DsTypes
<1>3. [Listing EXCEPT !.visit = visit'] = Listing'
  BY DEF Listing, Call
<1>4. Listing' \in DsCall /\ OfDocument(Listing')
  BY <1>2 DEF Listing, Call, DsCall, OfDocument
<1>5. DsTypes'
  <2>1. sentCalls' = sentCalls \cup {Listing'}
    BY <1>1, <1>3
  <2>2. replies' \in Seq(DsReply) /\ DOMAIN replies' = {} /\ resources' \in Seq(Datasets)
    BY <1>1
  <2>3. sentCalls' \subseteq DsCall /\ \A call \in sentCalls' : OfDocument(call)
    BY <1>4, <2>1 DEF DsListInv, DsTypes
  <2>4. QED
    BY <1>1, <1>2, <2>2, <2>3 DEF DsListInv, DsTypes
<1>6. DsListing'
  BY <1>1, <1>3 DEF DsListing
<1>7. QED
  BY <1>5, <1>6 DEF DsListInv

\* The server carries out a call.
LEMMA AnswerComesKeeps ==
  ASSUME DsListInv, NEW call \in sentCalls, AnswerComes(call)
  PROVE  DsListInv'
<1> DEFINE list == IF call.do = "fetch" THEN First(PageLimit, indexed) ELSE <<>>
           r == [call |-> call, late |-> FALSE, list |-> list]
<1>1. /\ indexed' = Served(call) /\ sentCalls' = sentCalls \ {call}
      /\ call.visit = visit => replies' = Append(replies, r) /\ unsettled' = unsettled
      /\ call.visit # visit => replies' = replies /\ unsettled' = (unsettled \/ call.do # "fetch")
      /\ UNCHANGED <<resources, activeDataset, storedActive, acts, visit>>
  BY DEF AnswerComes, Reaches, dsPage
<1>2. DsTypes
  BY DEF DsListInv
<1>3. indexed' \in Seq(Datasets) /\ (call.do = "fetch" => indexed' = indexed)
  BY <1>1, <1>2, ServedTyped
<1>4. call \in DsCall /\ OfDocument(call)
  BY <1>2 DEF DsTypes
<1>5. list \in Seq(Datasets)
  <2>1. First(PageLimit, indexed) \in Seq(Datasets)
    BY <1>2, DsFirst DEF DsTypes
  <2>2. QED
    BY <2>1
<1>6. (call.do = "fetch" => r.list = First(PageLimit, indexed)) /\ r.call = call /\ ~r.late
  OBVIOUS
<1>7. r \in DsReply
  <2> HIDE DEF list
  <2>1. QED
    BY <1>4, <1>5 DEF DsReply
<1> HIDE DEF r, list
<1>8. Listing' = Listing
  BY <1>1 DEF Listing, Call
<1>9. unsettled' \in BOOLEAN
  BY <1>1, <1>2 DEF DsTypes
<1>10. /\ DOMAIN replies = 1..Len(replies) /\ Len(replies) \in Nat /\ replies \in Seq(DsReply)
  BY <1>2, LenProperties DEF DsTypes
<1>11. CASE call.visit = visit
  <2>1. /\ replies' \in Seq(DsReply) /\ DOMAIN replies' = 1..(Len(replies) + 1)
        /\ replies'[Len(replies) + 1] = r /\ replies' # <<>>
        /\ \A k \in 1..Len(replies) : replies'[k] = replies[k]
    BY <1>1, <1>7, <1>10, <1>11, AppendProperties, LenProperties
  <2>2. \A k \in DOMAIN replies' : replies'[k].call.visit = visit /\ OfDocument(replies'[k].call)
    BY <1>2, <1>4, <1>6, <1>10, <1>11, <2>1 DEF DsTypes
  <2>3. DsTypes'
    BY <1>1, <1>2, <1>3, <1>9, <2>1, <2>2 DEF DsTypes
  <2>4. DsListing'
    <3>1. SUFFICES ASSUME ~Overtaken', NEW k \in DOMAIN replies', replies'[k].call.do = "fetch"
                   PROVE  replies'[k].list = First(PageLimit, indexed') \/ ChangeAfter(k)'
      BY <2>1 DEF DsListing
    <3>2. ~Overtaken
      BY <1>1, <1>10, <1>11, <2>1, <3>1 DEF Overtaken
    <3>3. CASE k = Len(replies) + 1
      BY <1>3, <1>6, <2>1, <3>1, <3>3
    <3>4. CASE k # Len(replies) + 1
      <4>1. k \in DOMAIN replies /\ replies'[k] = replies[k] /\ k < Len(replies) + 1
        BY <1>10, <2>1, <3>1, <3>4
      <4>2. replies[k].list = First(PageLimit, indexed) \/ ChangeAfter(k)
        BY <3>1, <3>2, <4>1 DEF DsListInv, DsListing
      <4>3. CASE ChangeAfter(k)
        BY <1>10, <2>1, <4>3 DEF ChangeAfter
      <4>4. CASE call.do # "fetch"
        <5>1. Len(replies) + 1 \in DOMAIN replies'
          BY <1>10, <2>1
        <5>2. QED
          BY <1>6, <2>1, <4>1, <4>4, <5>1 DEF ChangeAfter
      <4>5. CASE call.do = "fetch" /\ replies[k].list = First(PageLimit, indexed)
        BY <1>3, <4>1, <4>5
      <4>6. QED
        BY <4>2, <4>3, <4>4, <4>5
    <3>5. QED
      BY <3>3, <3>4
  <2>5. QED
    BY <2>3, <2>4 DEF DsListInv
<1>12. CASE call.visit # visit
  <2>1. DsTypes'
    BY <1>1, <1>2, <1>3, <1>9, <1>12 DEF DsTypes
  <2>2. call # Listing
    BY <1>2, <1>12, ListingIs DEF DsTypes
  <2>3. DsListing'
    <3>1. SUFFICES ASSUME ~Overtaken' PROVE DsListing'
      BY DEF DsListing
    <3>2. ~Overtaken /\ indexed' = indexed
      BY <1>1, <1>3, <1>12, <3>1 DEF Overtaken
    <3>3. QED
      BY <1>1, <1>8, <1>12, <2>2, <3>2 DEF DsListInv, DsListing, ChangeAfter, Settled
  <2>4. QED
    BY <2>1, <2>3 DEF DsListInv
<1>13. QED
  BY <1>11, <1>12

\* A call fails, or its reply is lost: the page cannot settle any more.
LEMMA DsFailedKeeps ==
  ASSUME DsListInv, NEW call, Failed(call),
         sentCalls' \subseteq sentCalls, replies' \in Seq(DsReply),
         \A k \in DOMAIN replies' : replies'[k] \in Elements(replies)
  PROVE  DsListInv'
<1>1. /\ unsettled' = TRUE /\ UNCHANGED <<indexed, acts, visit>>
      /\ resources' \in {<<>>, resources} /\ activeDataset' \in {None, activeDataset} /\ storedActive' = storedActive
  BY DEF Failed, Choose, dsPage
<1>2. resources' \in Seq(Datasets)
  <2>1. resources \in Seq(Datasets) /\ <<>> \in Seq(Datasets)
    BY DEF DsListInv, DsTypes
  <2>2. QED
    BY <1>1, <2>1
<1>3. \A k \in DOMAIN replies' : replies'[k].call.visit = visit /\ OfDocument(replies'[k].call)
  BY DEF DsListInv, DsTypes, Elements
<1>4. DsTypes'
  BY <1>1, <1>2, <1>3 DEF DsListInv, DsTypes
<1>5. DsListing'
  BY <1>1 DEF DsListing, Overtaken
<1>6. QED
  BY <1>4, <1>5 DEF DsListInv

LEMMA CallFailsKeeps == ASSUME DsListInv, NEW call \in sentCalls, CallFails(call) PROVE DsListInv'
<1>1. Failed(call) /\ sentCalls' \subseteq sentCalls /\ replies' = replies
  BY DEF CallFails
<1>2. replies' \in Seq(DsReply) /\ \A k \in DOMAIN replies' : replies'[k] \in Elements(replies)
  BY <1>1 DEF DsListInv, DsTypes, Elements
<1>3. QED
  BY <1>1, <1>2, DsFailedKeeps

LEMMA ReplyLostKeeps == ASSUME DsListInv, NEW k \in DOMAIN replies, ReplyLost(k) PROVE DsListInv'
<1> DEFINE b == SubSeq(replies, 1, k - 1)
           call == replies[k].call
<1>1. IsSpliced(replies', b, replies, k) /\ sentCalls' = sentCalls /\ Failed(call)
  BY DEF ReplyLost, IsSpliced
<1>2. /\ replies \in Seq(DsReply) /\ DOMAIN replies = 1..Len(replies) /\ Len(replies) \in Nat /\ k \in 1..Len(replies)
  BY LenProperties DEF DsListInv, DsTypes
<1>3. b \in Seq(DsReply) /\ Len(b) = k - 1 /\ \A j \in 1..(k - 1) : b[j] = replies[j]
  <2>1. 1 \in 1..(Len(replies) + 1) /\ k - 1 \in (1 - 1)..Len(replies)
    BY <1>2
  <2>2. b \in Seq(DsReply) /\ Len(b) = (k - 1) - 1 + 1 /\ \A j \in 1..((k - 1) - 1 + 1) : b[j] = replies[1 + j - 1]
    BY <1>2, <2>1, SubSeqProperties
  <2>3. QED
    BY <1>2, <2>2
<1> HIDE DEF b, call
<1>4. /\ replies' \in Seq(DsReply) /\ DOMAIN replies' = 1..(Len(replies) - 1)
      /\ \A j \in 1..(k - 1) : replies'[j] = b[j]
      /\ \A j \in k..(Len(replies) - 1) : replies'[j] = replies[j + 1]
  BY <1>1, <1>2, <1>3, Spliced
<1>5. ASSUME NEW j \in DOMAIN replies' PROVE replies'[j] \in Elements(replies)
  <2>1. CASE j < k
    BY <1>2, <1>3, <1>4, <2>1 DEF Elements
  <2>2. CASE j >= k
    <3>1. j + 1 \in DOMAIN replies /\ replies'[j] = replies[j + 1]
      BY <1>2, <1>4, <2>2
    <3>2. QED
      BY <3>1 DEF Elements
  <2>3. QED
    BY <1>2, <1>4, <2>1, <2>2
<1>6. QED
  BY <1>1, <1>4, <1>5, DsFailedKeeps

\* A reply reaches the page.
LEMMA DsReplyKeeps == ASSUME DsListInv, NEW k \in DOMAIN replies, Reply(k) PROVE DsListInv'
<1> DEFINE call == replies[k].call
           b == [j \in 1..(k - 1) |-> [replies[j] EXCEPT !.late = TRUE]]
<1>1. /\ call.do = "fetch" => Fetched(replies[k].list)
      /\ call.do \in {"upload", "manual"} => Put(call.doc)
      /\ call.do = "delete" => Deleted(call)
      /\ sentCalls' = sentCalls \cup Then(call)
      /\ IsSpliced(replies', b, replies, k)
      /\ unsettled' = (unsettled \/ replies[k].late)
      /\ UNCHANGED <<indexed, acts, visit>>
  BY DEF Reply, IsSpliced
<1>2. /\ DsTypes /\ replies \in Seq(DsReply) /\ DOMAIN replies = 1..Len(replies) /\ Len(replies) \in Nat
      /\ k \in 1..Len(replies) /\ k \in Nat
  BY LenProperties DEF DsListInv, DsTypes
<1>3. \A j \in 1..Len(replies) : replies[j] \in DsReply
  BY <1>2, ElementOfSeq
<1>4. call \in DsCall /\ OfDocument(call) /\ replies[k].list \in Seq(Datasets) /\ replies[k].late \in BOOLEAN
  BY <1>2, <1>3 DEF DsTypes, DsReply
<1>5. /\ \A j \in 1..(k - 1) : b[j].call = replies[j].call /\ b[j].late = TRUE /\ b[j].list = replies[j].list
                               /\ b[j] \in DsReply
      /\ b \in Seq(DsReply) /\ Len(b) = k - 1
  <2>1. ASSUME NEW j \in 1..(k - 1)
        PROVE  b[j].call = replies[j].call /\ b[j].late = TRUE /\ b[j].list = replies[j].list /\ b[j] \in DsReply
    <3>1. j \in 1..Len(replies) /\ b[j] = [replies[j] EXCEPT !.late = TRUE]
      BY <1>2
    <3>2. replies[j] \in DsReply
      BY <1>3, <3>1
    <3> HIDE DEF b
    <3>3. QED
      BY <3>1, <3>2 DEF DsReply
  <2>2. k - 1 \in Nat
    BY <1>2
  <2>3. b \in [1..(k - 1) -> DsReply]
    <3>1. \A j \in 1..(k - 1) : b[j] \in DsReply
      BY <2>1
    <3>2. b = [j \in 1..(k - 1) |-> b[j]]
      OBVIOUS
    <3> HIDE DEF b
    <3>3. QED
      BY <3>1, <3>2
  <2> HIDE DEF b
  <2>4. b \in Seq(DsReply) /\ Len(b) = k - 1
    BY <2>2, <2>3
  <2>5. QED
    BY <2>1, <2>4
<1> HIDE DEF b
<1>6. /\ replies' \in Seq(DsReply) /\ DOMAIN replies' = 1..(Len(replies) - 1) /\ Len(replies') = Len(replies) - 1
      /\ \A j \in 1..(k - 1) : replies'[j] = b[j]
      /\ \A j \in k..(Len(replies) - 1) : replies'[j] = replies[j + 1]
  <2>1. IsSpliced(replies', b, replies, k)
    BY <1>1
  <2>2. replies \in Seq(DsReply) /\ k \in 1..Len(replies) /\ b \in Seq(DsReply) /\ Len(b) = k - 1
    BY <1>2, <1>5
  <2>3. QED
    BY <2>1, <2>2, Spliced
<1>7. call.do \in {"fetch", "upload", "manual", "delete"} /\ (call.do # "fetch" => call.doc \in Datasets)
      /\ call.active \in Datasets \cup {None} /\ call.shown \in Seq(Datasets)
  BY <1>4 DEF DsCall, OfDocument
<1>8. resources' \in Seq(Datasets) /\ {activeDataset', storedActive'} \subseteq Datasets \cup {None}
  <2>1. resources \in Seq(Datasets) /\ {activeDataset, storedActive} \subseteq Datasets \cup {None}
    BY <1>2 DEF DsTypes
  <2>2. CASE call.do = "fetch"
    <3>1. replies[k].list # <<>> => Head(replies[k].list) \in Datasets
      BY <1>4, HeadTailProperties
    <3>2. QED
      BY <1>1, <1>4, <2>1, <2>2, <3>1 DEF Fetched, Choose
  <2>3. CASE call.do \in {"upload", "manual"}
    <3>1. call.doc \in Datasets
      BY <1>7, <2>3
    <3>2. <<call.doc>> \o AllBut(call.doc, resources) \in Seq(Datasets)
      BY <2>1, <3>1, InFrontTyped
    <3>3. QED
      BY <1>1, <2>1, <2>3, <3>1, <3>2 DEF Put, Choose
  <2>4. CASE call.do = "delete"
    <3> DEFINE rest == AllBut(call.doc, call.shown)
    <3>1. AllBut(call.doc, resources) \in Seq(Datasets) /\ rest \in Seq(Datasets)
      BY <1>7, <2>1, AllButTyped
    <3>2. /\ resources' = AllBut(call.doc, resources)
          /\ IF call.active # call.doc THEN UNCHANGED <<activeDataset, storedActive>>
             ELSE Choose(IF rest = <<>> THEN None ELSE Head(rest))
      BY <1>1, <2>4 DEF Deleted
    <3> HIDE DEF rest
    <3>3. rest # <<>> => Head(rest) \in Datasets
      BY <3>1, HeadTailProperties
    <3>4. QED
      BY <2>1, <3>1, <3>2, <3>3 DEF Choose
  <2>5. QED
    BY <1>7, <2>2, <2>3, <2>4
<1>9. DsTypes'
  <2>1. visit \in Nat /\ Listing \in DsCall /\ OfDocument(Listing)
    BY <1>2, ListingIs, DatasetsAssumption DEF DsTypes
  <2>2. sentCalls' \subseteq DsCall /\ \A c \in sentCalls' : OfDocument(c)
    BY <1>1, <1>2, <2>1 DEF DsTypes, Then
  <2>3. ASSUME NEW j \in DOMAIN replies'
        PROVE  replies'[j].call.visit = visit /\ OfDocument(replies'[j].call)
    <3>1. \A i \in 1..Len(replies) : replies[i].call.visit = visit /\ OfDocument(replies[i].call)
      BY <1>2 DEF DsTypes
    <3>2. CASE j < k
      BY <1>2, <1>5, <1>6, <3>1, <3>2
    <3>3. CASE j >= k
      BY <1>2, <1>6, <3>1, <3>3
    <3>4. QED
      BY <1>2, <1>6, <3>2, <3>3
  <2>4. unsettled' \in BOOLEAN
    BY <1>1, <1>2, <1>4 DEF DsTypes
  <2>5. QED
    BY <1>1, <1>2, <1>6, <1>8, <2>2, <2>3, <2>4 DEF DsTypes
<1>10. DsListing'
  <2>1. SUFFICES ASSUME ~Overtaken' PROVE DsListing'
    BY DEF DsListing
  <2>2. k = 1
    <3>1. SUFFICES ASSUME k # 1 PROVE FALSE
      OBVIOUS
    <3>2. 1 \in DOMAIN replies' /\ 1 \in 1..(k - 1)
      BY <1>2, <1>6, <3>1
    <3>3. replies'[1].late = TRUE
      BY <1>5, <1>6, <3>2
    <3>4. QED
      BY <2>1, <3>2, <3>3 DEF Overtaken
  <2>3. \A j \in 1..(Len(replies) - 1) : replies'[j] = replies[j + 1] /\ j + 1 \in DOMAIN replies
    BY <1>2, <1>6, <2>2
  <2>4. ~Overtaken
    <3>1. ~unsettled /\ ~replies[1].late
      BY <1>1, <2>1, <2>2 DEF Overtaken
    <3>2. \A j \in DOMAIN replies : j = 1 \/ (j - 1 \in DOMAIN replies' /\ replies'[j - 1] = replies[j])
      BY <1>2, <1>6, <2>3
    <3>3. QED
      BY <2>1, <3>1, <3>2 DEF Overtaken
  <2>5. ASSUME NEW j \in DOMAIN replies', replies'[j].call.do = "fetch"
        PROVE  replies'[j].list = First(PageLimit, indexed') \/ ChangeAfter(j)'
    <3>1. replies'[j] = replies[j + 1] /\ j + 1 \in DOMAIN replies
      BY <1>6, <2>3, <2>5
    <3>2. replies[j + 1].list = First(PageLimit, indexed) \/ ChangeAfter(j + 1)
      BY <2>4, <2>5, <3>1 DEF DsListInv, DsListing
    <3>3. CASE ChangeAfter(j + 1)
      <4>1. PICK i \in DOMAIN replies : i > j + 1 /\ replies[i].call.do # "fetch"
        BY <3>3 DEF ChangeAfter
      <4>2. i - 1 \in DOMAIN replies' /\ i - 1 > j /\ replies'[i - 1] = replies[i]
        BY <1>2, <1>6, <2>3, <4>1
      <4>3. QED
        BY <4>1, <4>2 DEF ChangeAfter
    <3>4. QED
      BY <1>1, <3>1, <3>2, <3>3
  <2>6. ASSUME Listing' \notin sentCalls', replies' = <<>> PROVE Settled'
    <3>1. call.do = "fetch"
      <4>1. Listing' = Listing
        BY <1>1 DEF Listing, Call
      <4>2. QED
        BY <1>1, <2>6, <4>1 DEF Then
    <3>2. Len(replies) = 1
      <4>1. Len(replies') = 0
        BY <2>6
      <4>2. Len(replies) \in Nat /\ Len(replies') = Len(replies) - 1
        BY <1>2, <1>6
      <4>3. QED
        BY <4>1, <4>2
    <3>3. ~ChangeAfter(1)
      BY <1>2, <3>2 DEF ChangeAfter
    <3>4. replies[1].list = First(PageLimit, indexed)
      BY <1>2, <2>2, <2>4, <3>1, <3>3 DEF DsListInv, DsListing
    <3>5. /\ resources' = replies[1].list /\ indexed' = indexed
          /\ activeDataset' = IF activeDataset \in Elements(replies[1].list) THEN activeDataset
                              ELSE IF replies[1].list = <<>> THEN None ELSE Head(replies[1].list)
      BY <1>1, <2>2, <3>1 DEF Fetched, Choose
    <3>6. /\ replies[1].list # <<>> => Head(replies[1].list) \in Elements(replies[1].list)
          /\ replies[1].list = <<>> => Elements(replies[1].list) = {}
      <4> DEFINE s == replies[1].list
      <4>1. s \in Seq(Datasets)
        BY <1>4, <2>2
      <4> HIDE DEF s
      <4>2. s # <<>> => Head(s) = s[1] /\ 1 \in DOMAIN s
        BY <4>1, HeadTailProperties, LenProperties, EmptySeq
      <4>3. s = <<>> => DOMAIN s = {}
        OBVIOUS
      <4>4. QED
        BY <4>2, <4>3 DEF Elements, s
    <3>7. QED
      BY <3>4, <3>5, <3>6 DEF Settled
  <2>7. QED
    BY <2>5, <2>6 DEF DsListing
<1>11. QED
  BY <1>9, <1>10 DEF DsListInv

\* Every step keeps what concerns the listing.
LEMMA DsListStep == ASSUME DsListInv, [LensDatasetsNext]_dsVars PROVE DsListInv'
<1>1. /\ visit \in Nat /\ acts \in 0..MaxActs /\ resources \in Seq(Datasets) /\ MaxActs \in Nat
      /\ activeDataset \in Datasets \cup {None}
  BY DatasetsAssumption DEF DsListInv, DsTypes
<1>2. \A d \in Elements(resources) : d \in Datasets
  BY <1>1, ElementOfSeq, LenProperties DEF Elements
<1>3. ASSUME NEW do \in {"fetch", "upload", "manual", "delete"}, NEW d \in Datasets
      PROVE  Call(do, d) \in DsCall /\ OfDocument(Call(do, d))
  BY <1>1 DEF Call, DsCall, OfDocument
<1>4. CASE UNCHANGED dsVars
  BY <1>1, <1>4, DsListQuiet DEF dsVars, dsPage
<1>5. CASE Refresh
  BY <1>1, <1>5, ListingIs, DsSendKeeps DEF Refresh
<1>6. CASE Leave
  BY <1>6, DsLeaveKeeps
<1>7. ASSUME NEW d \in Datasets, handleDirectFileIngest(d) PROVE DsListInv'
  <2>1. Send(Call("upload", d))
    BY <1>7 DEF handleDirectFileIngest
  <2>2. Call("upload", d) \in DsCall /\ OfDocument(Call("upload", d))
    BY <1>3
  <2>3. QED
    BY <2>1, <2>2, DsSendKeeps
<1>8. ASSUME NEW d \in Datasets, handleManualSubmit(d) PROVE DsListInv'
  <2>1. Send(Call("manual", d))
    BY <1>8 DEF handleManualSubmit
  <2>2. Call("manual", d) \in DsCall /\ OfDocument(Call("manual", d))
    BY <1>3
  <2>3. QED
    BY <2>1, <2>2, DsSendKeeps
<1>9. ASSUME NEW d \in Datasets, handleDelete(d) PROVE DsListInv'
  <2>1. Send(Call("delete", d))
    BY <1>9 DEF handleDelete
  <2>2. Call("delete", d) \in DsCall /\ OfDocument(Call("delete", d))
    BY <1>3
  <2>3. QED
    BY <2>1, <2>2, DsSendKeeps
<1>10. CASE handleDatasetQuery
  <2>1. acts' = acts + 1 /\ acts < MaxActs
        /\ UNCHANGED <<indexed, resources, activeDataset, storedActive, sentCalls, replies, visit, unsettled>>
    BY <1>10 DEF handleDatasetQuery, QueryAsked, Act, dsPage
  <2>2. acts' \in 0..MaxActs
    BY <1>1, <2>1
  <2>3. QED
    BY <2>1, <2>2, DsListQuiet
<1>11. CASE handleClearCurrentChat
  BY <1>1, <1>11, DsListQuiet DEF handleClearCurrentChat, dsPage
<1>12. ASSUME NEW n \in DOMAIN questions, NEW ok \in BOOLEAN, QueryReply(n, ok) PROVE DsListInv'
  BY <1>1, <1>12, DsListQuiet DEF QueryReply, Answered, dsPage
<1>13. QED
  BY <1>4, <1>5, <1>6, <1>7, <1>8, <1>9, <1>10, <1>11, <1>12, SelectDatasetKeeps, AnswerComesKeeps,
     CallFailsKeeps, DsReplyKeeps, ReplyLostKeeps DEF LensDatasetsNext

------------------------------------------------------------------------------
(* Its questions and answers. *)

DsQuestion == [doc : Datasets, visit : Nat, pc : {"asked", "answered", "failed"}]
DsSaid     == [role : {"user", "assistant", "error"}, no : Nat]

DsChatTypes ==
  /\ chatting \in BOOLEAN /\ visit \in Nat
  /\ boxes \in [Datasets -> Seq(DsSaid)] /\ exchanges \in [Datasets -> Seq(Nat)]
  /\ questions \in Seq(DsQuestion) /\ \A n \in DOMAIN questions : questions[n].visit <= visit

\* The question whose answer the page waits for: one at most, and last in its box unless
\* that was cleared.
DsWaiting(n) == questions[n].pc = "asked" /\ questions[n].visit = visit

DsWaits ==
  \A n \in DOMAIN questions : DsWaiting(n) =>
    /\ chatting /\ \A m \in DOMAIN questions : DsWaiting(m) => m = n
    /\ LET said == boxes[questions[n].doc] IN
       Len(said) > 0 => said[Len(said)] = [role |-> "user", no |-> n]

\* A document has the questions of it that were answered, each once.
AnsweredOf(n, d) == n \in DOMAIN questions /\ questions[n].pc = "answered" /\ questions[n].doc = d

Once(s) == \A i, j \in DOMAIN s : s[i] = s[j] => i = j

DsLogged ==
  \A d \in Datasets : Once(exchanges[d]) /\ \A n : n \in Elements(exchanges[d]) <=> AnsweredOf(n, d)

DsChatInv == DsChatTypes /\ DsWaits /\ InTheirBox(boxes, questions) /\ DsLogged

\* One more at the end of a sequence, which it does not have.
LEMMA AppendOnce ==
  ASSUME NEW T, NEW s \in Seq(T), NEW x \in T, x \notin Elements(s), Once(s), NEW t, IsLonger(t, s, x)
  PROVE  /\ t \in Seq(T) /\ Once(t)
         /\ \A y : y \in Elements(t) <=> y = x \/ y \in Elements(s)
<1>1. /\ Len(s) \in Nat /\ DOMAIN s = 1..Len(s) /\ t \in Seq(T) /\ Len(t) = Len(s) + 1
      /\ t[Len(s) + 1] = x /\ \A i \in 1..Len(s) : t[i] = s[i]
  BY AppendProperties, LenProperties DEF IsLonger
<1>2. DOMAIN t = 1..(Len(s) + 1)
  BY <1>1, LenProperties
<1>3. \A i \in DOMAIN s : s[i] # x
  BY DEF Elements
<1>4. Once(t)
  <2>1. SUFFICES ASSUME NEW i \in DOMAIN t, NEW j \in DOMAIN t, t[i] = t[j] PROVE i = j
    BY DEF Once
  <2>2. CASE i \in DOMAIN s /\ j \in DOMAIN s
    BY <1>1, <2>1, <2>2 DEF Once
  <2>3. CASE i \notin DOMAIN s
    BY <1>1, <1>2, <1>3, <2>1, <2>3
  <2>4. CASE j \notin DOMAIN s
    BY <1>1, <1>2, <1>3, <2>1, <2>4
  <2>5. QED
    BY <2>2, <2>3, <2>4
<1>5. ASSUME NEW y PROVE y \in Elements(t) <=> y = x \/ y \in Elements(s)
  <2>1. ASSUME y \in Elements(t) PROVE y = x \/ y \in Elements(s)
    BY <1>1, <1>2, <2>1 DEF Elements
  <2>2. ASSUME y = x \/ y \in Elements(s) PROVE y \in Elements(t)
    <3>1. Len(s) + 1 \in DOMAIN t /\ DOMAIN s \subseteq DOMAIN t
      BY <1>1, <1>2
    <3>2. QED
      BY <1>1, <2>2, <3>1 DEF Elements
  <2>3. QED
    BY <2>1, <2>2
<1>6. QED
  BY <1>1, <1>4, <1>5

LEMMA DsChatBegins == LensDatasetsInit => DsChatInv
<1>1. ASSUME LensDatasetsInit PROVE DsChatInv
  <2>1. /\ questions = <<>> /\ DOMAIN questions = {} /\ chatting = FALSE /\ visit = 0
        /\ boxes = [d \in Datasets |-> <<>>] /\ exchanges = [d \in Datasets |-> <<>>]
    BY <1>1 DEF LensDatasetsInit
  <2>2. /\ boxes \in [Datasets -> Seq(DsSaid)] /\ exchanges \in [Datasets -> Seq(Nat)]
        /\ \A d \in Datasets : DOMAIN boxes[d] = {} /\ DOMAIN exchanges[d] = {}
    BY <2>1
  <2>3. DsChatTypes
    <3>1. questions \in Seq(DsQuestion)
      BY <2>1
    <3>2. chatting \in BOOLEAN /\ visit \in Nat
      BY <2>1
    <3>3. QED
      BY <2>1, <2>2, <3>1, <3>2, Zenon DEF DsChatTypes
  <2>4. InTheirBox(boxes, questions)
    BY <2>1, <2>2 DEF InTheirBox
  <2>5. DsWaits /\ DsLogged
    BY <2>1, <2>2 DEF DsWaits, DsLogged, Elements, AnsweredOf, Once
  <2>6. QED
    BY <2>3, <2>4, <2>5 DEF DsChatInv
<1>2. QED
  BY <1>1

LEMMA DsQuestionsTyped ==
  ASSUME DsChatTypes
  PROVE  /\ DOMAIN questions = 1..Len(questions) /\ Len(questions) \in Nat
         /\ \A n \in DOMAIN questions : n \in Nat /\ questions[n] \in DsQuestion /\ questions[n].doc \in Datasets
<1>1. questions \in Seq(DsQuestion)
  BY DEF DsChatTypes
<1>2. /\ DOMAIN questions = 1..Len(questions) /\ Len(questions) \in Nat
      /\ \A n \in DOMAIN questions : n \in Nat /\ questions[n] \in DsQuestion
  BY <1>1, LenProperties, ElementOfSeq
<1>3. QED
  BY <1>2 DEF DsQuestion

LEMMA DsSpeaks ==
  ASSUME DsChatTypes, NEW d \in Datasets, NEW role \in {"user", "assistant", "error"}, NEW n \in Nat,
         Say(d, role, n)
  PROVE  /\ boxes' \in [Datasets -> Seq(DsSaid)] /\ \A e \in Datasets \ {d} : boxes'[e] = boxes[e]
         /\ Len(boxes[d]) \in Nat /\ DOMAIN boxes[d] = 1..Len(boxes[d])
         /\ Len(boxes'[d]) = Len(boxes[d]) + 1 /\ DOMAIN boxes'[d] = 1..(Len(boxes[d]) + 1)
         /\ boxes'[d][Len(boxes[d]) + 1] = [role |-> role, no |-> n]
         /\ \A k \in 1..Len(boxes[d]) : boxes'[d][k] = boxes[d][k]
<1> DEFINE said == [role |-> role, no |-> n]
           s == Append(boxes[d], said)
<1>1. boxes \in [Datasets -> Seq(DsSaid)] /\ said \in DsSaid
  BY DEF DsChatTypes, DsSaid
<1>2. boxes' = [boxes EXCEPT ![d] = s]
  BY DEF Say
<1> HIDE DEF said
<1>3. /\ s \in Seq(DsSaid) /\ Len(s) = Len(boxes[d]) + 1 /\ DOMAIN s = 1..(Len(boxes[d]) + 1)
      /\ s[Len(boxes[d]) + 1] = said /\ \A k \in 1..Len(boxes[d]) : s[k] = boxes[d][k]
      /\ Len(boxes[d]) \in Nat /\ DOMAIN boxes[d] = 1..Len(boxes[d])
  BY <1>1, AppendProperties, LenProperties
<1> HIDE DEF s
<1>4. boxes' \in [Datasets -> Seq(DsSaid)] /\ boxes'[d] = s /\ \A e \in Datasets \ {d} : boxes'[e] = boxes[e]
  BY <1>1, <1>2, <1>3
<1>5. QED
  BY <1>3, <1>4 DEF said

\* So everything is said in its place again.
LEMMA SaidInBox ==
  ASSUME DsChatTypes, NEW d \in Datasets, NEW role \in {"user", "assistant", "error"}, NEW n \in Nat,
         Say(d, role, n), NEW asked, InTheirBox(boxes, asked), n \in DOMAIN asked, asked[n].doc = d,
         role # "user" /\ Len(boxes[d]) > 0 => boxes[d][Len(boxes[d])] = [role |-> "user", no |-> n]
  PROVE  InTheirBox(boxes', asked)
<1>1. /\ boxes' \in [Datasets -> Seq(DsSaid)] /\ \A e \in Datasets \ {d} : boxes'[e] = boxes[e]
      /\ Len(boxes[d]) \in Nat /\ DOMAIN boxes[d] = 1..Len(boxes[d])
      /\ DOMAIN boxes'[d] = 1..(Len(boxes[d]) + 1)
      /\ boxes'[d][Len(boxes[d]) + 1] = [role |-> role, no |-> n]
      /\ \A k \in 1..Len(boxes[d]) : boxes'[d][k] = boxes[d][k]
  BY DsSpeaks
<1>2. DOMAIN boxes = Datasets /\ DOMAIN boxes' = Datasets
  BY <1>1 DEF DsChatTypes
<1>3. ASSUME NEW k \in DOMAIN boxes'[d] PROVE InPlace(boxes'[d], k, d, asked)
  <2>1. CASE k = Len(boxes[d]) + 1
    BY <1>1, <2>1 DEF InPlace
  <2>2. CASE k # Len(boxes[d]) + 1
    <3>1. k \in DOMAIN boxes[d] /\ boxes'[d][k] = boxes[d][k]
          /\ (k > 1 => boxes'[d][k - 1] = boxes[d][k - 1])
      BY <1>1, <1>3, <2>2
    <3>2. InPlace(boxes[d], k, d, asked)
      BY <1>2, <3>1 DEF InTheirBox
    <3>3. QED
      BY <3>1, <3>2 DEF InPlace
  <2>3. QED
    BY <2>1, <2>2
<1>4. ASSUME NEW e \in Datasets, e # d, NEW k \in DOMAIN boxes'[e] PROVE InPlace(boxes'[e], k, e, asked)
  BY <1>1, <1>2, <1>4 DEF InTheirBox
<1>5. QED
  BY <1>2, <1>3, <1>4 DEF InTheirBox

LEMMA DsChatQuiet ==
  ASSUME DsChatInv, UNCHANGED <<chatting, boxes, exchanges, questions, visit>>
  PROVE  DsChatInv'
BY DEF DsChatInv, DsChatTypes, DsWaits, DsWaiting, DsLogged, AnsweredOf

\* The user leaves: nothing is waited for any more.
LEMMA DsChatLeave == ASSUME DsChatInv, Leave PROVE DsChatInv'
<1>1. visit' = visit + 1 /\ chatting' = FALSE /\ UNCHANGED <<boxes, exchanges, questions>>
  BY DEF Leave
<1>2. /\ visit \in Nat
      /\ \A n \in DOMAIN questions : questions[n].visit \in Nat /\ questions[n].visit <= visit
  BY DsQuestionsTyped DEF DsChatInv, DsChatTypes, DsQuestion
<1>3. DsChatTypes'
  <2>1. /\ boxes' \in [Datasets -> Seq(DsSaid)] /\ exchanges' \in [Datasets -> Seq(Nat)]
        /\ questions' \in Seq(DsQuestion) /\ chatting' \in BOOLEAN
    BY <1>1 DEF DsChatInv, DsChatTypes
  <2>2. visit' \in Nat /\ \A n \in DOMAIN questions' : questions'[n].visit <= visit'
    BY <1>1, <1>2
  <2>3. QED
    BY <2>1, <2>2 DEF DsChatTypes
<1>4. \A n \in DOMAIN questions' : ~DsWaiting(n)'
  BY <1>1, <1>2 DEF DsWaiting
<1>5. DsWaits' /\ DsLogged' /\ InTheirBox(boxes', questions')
  BY <1>1, <1>4 DEF DsChatInv, DsWaits, DsLogged, AnsweredOf
<1>6. QED
  BY <1>3, <1>5 DEF DsChatInv

LEMMA DsClearKeeps == ASSUME DsChatInv, activeDataset \in Datasets \cup {None}, handleClearCurrentChat PROVE DsChatInv'
<1> DEFINE d == activeDataset
<1>1. /\ d \in Datasets /\ boxes' = [boxes EXCEPT ![d] = <<>>]
      /\ UNCHANGED <<chatting, exchanges, questions, visit>>
  BY DEF handleClearCurrentChat
<1>2. /\ boxes' \in [Datasets -> Seq(DsSaid)] /\ boxes'[d] = <<>> /\ DOMAIN boxes'[d] = {} /\ Len(boxes'[d]) = 0
      /\ \A e \in Datasets \ {d} : boxes'[e] = boxes[e]
      /\ DOMAIN boxes = Datasets /\ DOMAIN boxes' = Datasets
  BY <1>1 DEF DsChatInv, DsChatTypes
<1> HIDE DEF d
<1>3. DsChatTypes'
  BY <1>1, <1>2 DEF DsChatInv, DsChatTypes
<1>4. InTheirBox(boxes', questions')
  BY <1>1, <1>2 DEF DsChatInv, InTheirBox
<1>5. DsWaits'
  <2>1. \A n \in DOMAIN questions : questions[n].doc \in Datasets
    BY DsQuestionsTyped DEF DsChatInv
  <2>2. \A n \in DOMAIN questions : DsWaiting(n)' <=> DsWaiting(n)
    BY <1>1 DEF DsWaiting
  <2>3. QED
    BY <1>1, <1>2, <2>1, <2>2 DEF DsChatInv, DsWaits
<1>6. DsLogged'
  BY <1>1 DEF DsChatInv, DsLogged, AnsweredOf
<1>7. QED
  BY <1>3, <1>4, <1>5, <1>6 DEF DsChatInv

\* A question is asked of the dataset that is chosen.
LEMMA DsQueryKeeps == ASSUME DsChatInv, activeDataset \in Datasets, handleDatasetQuery PROVE DsChatInv'
<1> DEFINE d == activeDataset
           n == Len(questions) + 1
           q == [doc |-> d, visit |-> visit, pc |-> "asked"]
<1>1. /\ ~chatting /\ questions' = Append(questions, q) /\ Say(d, "user", Len(questions')) /\ chatting' = TRUE
      /\ UNCHANGED <<exchanges, visit>>
  BY DEF handleDatasetQuery, QueryAsked
<1>2. DsChatTypes /\ DsWaits /\ InTheirBox(boxes, questions) /\ DsLogged
  BY DEF DsChatInv
<1>3. /\ DOMAIN questions = 1..(n - 1) /\ n - 1 \in Nat /\ n \in Nat
      /\ \A m \in DOMAIN questions : questions[m] \in DsQuestion /\ questions[m].doc \in Datasets
  BY <1>2, DsQuestionsTyped
<1>4. q \in DsQuestion /\ q.doc = d /\ q.visit = visit /\ q.pc = "asked" /\ visit \in Nat
  BY <1>2 DEF DsQuestion, DsChatTypes
<1>5. /\ questions' \in Seq(DsQuestion) /\ Len(questions') = n /\ DOMAIN questions' = 1..n /\ questions'[n] = q
      /\ \A m \in 1..(n - 1) : questions'[m] = questions[m]
  <2>1. questions \in Seq(DsQuestion)
    BY <1>2 DEF DsChatTypes
  <2> HIDE DEF q
  <2>2. QED
    BY <1>1, <1>4, <2>1, AppendProperties, LenProperties
<1>6. d \in Datasets
  OBVIOUS
<1> HIDE DEF n, q, d
<1>7. Say(d, "user", n)
  BY <1>1, <1>5
<1>8. /\ boxes' \in [Datasets -> Seq(DsSaid)]
      /\ Len(boxes[d]) \in Nat /\ Len(boxes'[d]) = Len(boxes[d]) + 1
      /\ boxes'[d][Len(boxes[d]) + 1] = [role |-> "user", no |-> n]
  BY <1>2, <1>3, <1>6, <1>7, DsSpeaks
<1>9. DsChatTypes'
  <2>1. \A m \in DOMAIN questions' : questions'[m].visit <= visit'
    <3>1. \A m \in DOMAIN questions : questions[m].visit <= visit
      BY <1>2 DEF DsChatTypes
    <3>2. QED
      BY <1>1, <1>3, <1>4, <1>5, <3>1
  <2>2. QED
    BY <1>1, <1>2, <1>5, <1>8, <2>1 DEF DsChatTypes
<1>10. DsWaits'
  <2>1. \A m \in DOMAIN questions : ~DsWaiting(m)
    BY <1>1, <1>2 DEF DsWaits
  <2>2. \A m \in DOMAIN questions' : DsWaiting(m)' => m = n
    BY <1>1, <1>3, <1>5, <2>1 DEF DsWaiting
  <2>3. questions'[n].doc = d
    BY <1>4, <1>5
  <2>4. QED
    BY <1>1, <1>8, <2>2, <2>3 DEF DsWaits
<1>11. InTheirBox(boxes', questions')
  <2>1. InTheirBox(boxes, questions')
    <3>1. DOMAIN questions \subseteq DOMAIN questions'
      BY <1>3, <1>5
    <3>2. \A m \in DOMAIN questions : questions'[m].doc = questions[m].doc
      BY <1>3, <1>5
    <3>3. QED
      BY <1>2, <3>1, <3>2, BoxesStay
  <2>2. n \in DOMAIN questions' /\ questions'[n].doc = d
    BY <1>3, <1>4, <1>5
  <2>3. QED
    BY <1>2, <1>3, <1>6, <1>7, <2>1, <2>2, SaidInBox
<1>12. DsLogged'
  <2>1. \A m, e : AnsweredOf(m, e)' <=> AnsweredOf(m, e)
    BY <1>3, <1>4, <1>5 DEF AnsweredOf
  <2>2. QED
    BY <1>1, <1>2, <2>1 DEF DsLogged
<1>13. QED
  BY <1>9, <1>10, <1>11, <1>12 DEF DsChatInv

\* An answer comes: to the box it was asked in, or only to the log when the page was left.
LEMMA DsReplyOfQuery ==
  ASSUME DsChatInv, NEW n \in DOMAIN questions, NEW ok \in BOOLEAN, QueryReply(n, ok)
  PROVE  DsChatInv'
<1> DEFINE d == questions[n].doc
           pc == IF ok THEN "answered" ELSE "failed"
           role == IF ok THEN "assistant" ELSE "error"
<1>1. DsChatTypes /\ DsWaits /\ InTheirBox(boxes, questions) /\ DsLogged
  BY DEF DsChatInv
<1>2. /\ questions[n].pc = "asked"
      /\ questions' = [questions EXCEPT ![n] = [questions[n] EXCEPT !.pc = pc]]
      /\ questions[n].visit = visit => Say(d, role, n) /\ chatting' = FALSE
      /\ questions[n].visit # visit => UNCHANGED <<boxes, chatting>>
      /\ exchanges' = (IF ok THEN [exchanges EXCEPT ![d] = Append(exchanges[d], n)] ELSE exchanges)
      /\ visit' = visit
  BY DEF QueryReply, Answered
<1>3. /\ DOMAIN questions = 1..Len(questions) /\ Len(questions) \in Nat /\ n \in Nat
      /\ \A m \in DOMAIN questions : questions[m] \in DsQuestion /\ questions[m].doc \in Datasets
  BY <1>1, DsQuestionsTyped
<1>4. d \in Datasets /\ pc \in {"answered", "failed"} /\ role \in {"assistant", "error"} /\ (pc = "answered" <=> ok)
  BY <1>3
<1>5. /\ DOMAIN questions' = DOMAIN questions
      /\ \A m \in DOMAIN questions : questions'[m].doc = questions[m].doc
                                     /\ questions'[m].visit = questions[m].visit
      /\ \A m \in DOMAIN questions \ {n} : questions'[m] = questions[m]
      /\ questions'[n].pc = pc
      /\ questions' \in Seq(DsQuestion)
  <2>1. PICK dd \in Datasets, at \in Nat, p \in {"asked", "answered", "failed"} :
          questions[n] = [doc |-> dd, visit |-> at, pc |-> p]
    BY <1>3 DEF DsQuestion
  <2> DEFINE q == [doc |-> dd, visit |-> at, pc |-> pc]
  <2>2. q \in DsQuestion /\ q.doc = questions[n].doc /\ q.visit = questions[n].visit /\ q.pc = pc
    BY <1>4, <2>1 DEF DsQuestion
  <2>3. questions' = [questions EXCEPT ![n] = q]
    <3>1. q = [questions[n] EXCEPT !.pc = pc]
      BY <2>1
    <3>2. questions' = [questions EXCEPT ![n] = [questions[n] EXCEPT !.pc = pc]]
      BY <1>2
    <3> HIDE DEF q, pc
    <3>3. QED
      BY <3>1, <3>2, Zenon
  <2>4. questions \in Seq(DsQuestion)
    BY <1>1 DEF DsChatTypes
  <2> HIDE DEF q, pc
  <2>5. [questions EXCEPT ![n] = q] \in Seq(DsQuestion)
    BY <1>3, <2>2, <2>4, ExceptSeq
  <2>6. questions' \in Seq(DsQuestion)
    BY <2>3, <2>5, Zenon
  <2>7. QED
    BY <2>2, <2>3, <2>6
<1>6. role \in {"user", "assistant", "error"} /\ role # "user"
  BY <1>4
<1> HIDE DEF d, pc, role
<1>7. boxes' \in [Datasets -> Seq(DsSaid)] /\ chatting' \in BOOLEAN
  <2>1. CASE questions[n].visit = visit
    BY <1>1, <1>2, <1>3, <1>4, <1>6, <2>1, DsSpeaks
  <2>2. CASE questions[n].visit # visit
    BY <1>1, <1>2, <2>2 DEF DsChatTypes
  <2>3. QED
    BY <2>1, <2>2
<1>8. DsWaits'
  <2>1. \A m \in DOMAIN questions' : DsWaiting(m)' => m # n /\ m \in DOMAIN questions /\ DsWaiting(m)
    BY <1>2, <1>4, <1>5 DEF DsWaiting
  <2>2. CASE questions[n].visit = visit
    <3>1. \A m \in DOMAIN questions' : ~DsWaiting(m)'
      BY <1>1, <1>2, <2>1, <2>2 DEF DsWaits, DsWaiting
    <3>2. QED
      BY <3>1 DEF DsWaits
  <2>3. CASE questions[n].visit # visit
    BY <1>1, <1>2, <1>5, <2>1, <2>3 DEF DsWaits
  <2>4. QED
    BY <2>2, <2>3
<1>9. InTheirBox(boxes', questions')
  <2>1. InTheirBox(boxes, questions')
    <3>1. DOMAIN questions \subseteq DOMAIN questions'
      BY <1>5
    <3>2. \A m \in DOMAIN questions : questions'[m].doc = questions[m].doc
      BY <1>5
    <3>3. QED
      BY <1>1, <3>1, <3>2, BoxesStay
  <2>2. CASE questions[n].visit # visit
    BY <1>2, <2>1, <2>2
  <2>3. CASE questions[n].visit = visit
    <3>1. Len(boxes[d]) > 0 => boxes[d][Len(boxes[d])] = [role |-> "user", no |-> n]
      BY <1>1, <1>2, <2>3 DEF DsWaits, DsWaiting, d
    <3>2. n \in DOMAIN questions' /\ questions'[n].doc = d /\ Say(d, role, n)
      BY <1>2, <1>5, <2>3 DEF d
    <3>3. QED
      BY <1>1, <1>3, <1>4, <1>6, <2>1, <3>1, <3>2, SaidInBox
  <2>4. QED
    BY <2>2, <2>3
<1>10. exchanges' \in [Datasets -> Seq(Nat)] /\ DsLogged'
  <2>1. CASE ~ok
    <3>1. exchanges' = exchanges
      BY <1>2, <2>1
    <3>2. \A m, e : AnsweredOf(m, e)' <=> AnsweredOf(m, e)
      BY <1>2, <1>4, <1>5, <2>1 DEF AnsweredOf
    <3>3. QED
      BY <1>1, <3>1, <3>2 DEF DsLogged, DsChatTypes
  <2>2. CASE ok
    <3> DEFINE s == Append(exchanges[d], n)
    <3>1. exchanges' = [exchanges EXCEPT ![d] = s] /\ exchanges \in [Datasets -> Seq(Nat)]
      BY <1>1, <1>2, <2>2 DEF DsChatTypes
    <3>2. n \notin Elements(exchanges[d])
      BY <1>1, <1>2, <1>4 DEF DsLogged, AnsweredOf
    <3>3. \A m, e : AnsweredOf(m, e)' <=> (m = n /\ e = d) \/ AnsweredOf(m, e)
      BY <1>2, <1>4, <1>5, <2>2 DEF AnsweredOf, d
    <3>4. IsLonger(s, exchanges[d], n) /\ exchanges[d] \in Seq(Nat) /\ Once(exchanges[d])
      BY <1>1, <1>4, <3>1 DEF DsLogged, IsLonger
    <3> HIDE DEF s
    <3>5. s \in Seq(Nat) /\ Once(s) /\ \A x : x \in Elements(s) <=> x = n \/ x \in Elements(exchanges[d])
      BY <1>3, <3>2, <3>4, AppendOnce
    <3>6. /\ exchanges' \in [Datasets -> Seq(Nat)] /\ exchanges'[d] = s
          /\ \A e \in Datasets \ {d} : exchanges'[e] = exchanges[e]
      BY <1>4, <3>1, <3>5
    <3>7. ASSUME NEW e \in Datasets
          PROVE  Once(exchanges'[e]) /\ \A m : m \in Elements(exchanges'[e]) <=> AnsweredOf(m, e)'
      <4>1. Once(exchanges[e]) /\ \A m : m \in Elements(exchanges[e]) <=> AnsweredOf(m, e)
        BY <1>1 DEF DsLogged
      <4>2. CASE e = d
        BY <3>3, <3>5, <3>6, <4>1, <4>2
      <4>3. CASE e # d
        BY <3>3, <3>6, <4>1, <4>3
      <4>4. QED
        BY <4>2, <4>3
    <3>8. DsLogged'
      BY <3>7 DEF DsLogged
    <3>9. QED
      BY <3>6, <3>8
  <2>3. QED
    BY <2>1, <2>2
<1>11. DsChatTypes'
  <2>1. \A m \in DOMAIN questions' : questions'[m].visit <= visit'
    BY <1>1, <1>2, <1>5 DEF DsChatTypes
  <2>2. QED
    BY <1>1, <1>2, <1>5, <1>7, <1>10, <2>1 DEF DsChatTypes
<1>12. QED
  BY <1>8, <1>9, <1>10, <1>11 DEF DsChatInv

LEMMA DsChatStep == ASSUME DsListInv, DsChatInv, [LensDatasetsNext]_dsVars PROVE DsChatInv'
<1>1. resources \in Seq(Datasets) /\ activeDataset \in Datasets \cup {None}
  BY DEF DsListInv, DsTypes
<1>2. CASE UNCHANGED dsVars
  BY <1>2, DsChatQuiet DEF dsVars, dsChat
<1>3. CASE Leave
  BY <1>3, DsChatLeave
<1>4. CASE handleDatasetQuery
  <2>1. activeDataset \in Datasets
    BY <1>1, <1>4, ElementOfSeq, LenProperties DEF handleDatasetQuery, QueryAsked, Elements
  <2>2. QED
    BY <1>4, <2>1, DsQueryKeeps
<1>5. CASE handleClearCurrentChat
  BY <1>1, <1>5, DsClearKeeps
<1>6. ASSUME NEW n \in DOMAIN questions, NEW ok \in BOOLEAN, QueryReply(n, ok) PROVE DsChatInv'
  BY <1>6, DsReplyOfQuery
<1>7. CASE \/ Refresh
           \/ \E d \in Datasets : \/ handleDirectFileIngest(d) \/ handleManualSubmit(d)
                                  \/ handleDelete(d) \/ SelectDataset(d)
  BY <1>7, DsChatQuiet
     DEF Refresh, handleDirectFileIngest, handleManualSubmit, handleDelete, SelectDataset, Send, dsChat
<1>8. CASE \/ \E call \in sentCalls : AnswerComes(call) \/ CallFails(call)
           \/ \E k \in DOMAIN replies : Reply(k) \/ ReplyLost(k)
  BY <1>8, DsChatQuiet DEF AnswerComes, CallFails, Reply, ReplyLost, Failed, dsChat
<1>9. QED
  BY <1>2, <1>3, <1>4, <1>5, <1>6, <1>7, <1>8 DEF LensDatasetsNext

\* What the page shows, from the two.
LEMMA DatasetsShow ==
  ASSUME DsListInv, DsChatInv
  PROVE  LensDatasetsTypeOK /\ ListingSettles /\ ChosenIsListed /\ AnswersInTheirBox /\ AnswersRecorded
<1>1. DsTypes /\ DsListing /\ DsChatTypes /\ InTheirBox(boxes, questions) /\ DsLogged
  BY DEF DsListInv, DsChatInv
<1>2. LensDatasetsTypeOK
  <2>1. Elements(indexed) \cup Elements(resources) \subseteq Datasets
    <3>1. indexed \in Seq(Datasets) /\ resources \in Seq(Datasets)
      BY <1>1 DEF DsTypes
    <3>2. QED
      BY <3>1, ElementOfSeq, LenProperties DEF Elements
  <2>2. \A r \in Elements(replies) : r.call.visit = visit
    BY <1>1 DEF DsTypes, Elements
  <2>3. \A d \in Datasets : Elements(exchanges[d]) \subseteq DOMAIN questions
    BY <1>1 DEF DsLogged, AnsweredOf
  <2>4. QED
    BY <1>1, <2>1, <2>2, <2>3 DEF LensDatasetsTypeOK, DsTypes
<1>3. AtRest => Settled
  <2>1. AtRest => ~Overtaken /\ Listing \notin sentCalls /\ replies = <<>>
    BY DEF AtRest, Overtaken
  <2>2. QED
    BY <1>1, <2>1 DEF DsListing
<1>4. ListingSettles /\ ChosenIsListed
  BY <1>3 DEF ListingSettles, ChosenIsListed, Settled
<1>5. AnswersInTheirBox
  <2>1. SUFFICES ASSUME NEW d \in Datasets, NEW k \in DOMAIN boxes[d]
                 PROVE  /\ questions[boxes[d][k].no].doc = d
                        /\ boxes[d][k].role # "user" /\ k > 1
                             => boxes[d][k - 1] = [role |-> "user", no |-> boxes[d][k].no]
    BY DEF AnswersInTheirBox
  <2>2. InPlace(boxes[d], k, d, questions)
    BY <1>1 DEF InTheirBox, DsChatTypes
  <2>3. boxes[d] \in Seq(DsSaid)
    BY <1>1 DEF DsChatTypes
  <2>4. boxes[d][k] \in DsSaid
    BY <2>3, ElementOfSeq, LenProperties
  <2>5. QED
    BY <2>2, <2>4 DEF InPlace, DsSaid
<1>6. AnswersRecorded
  <2>1. SUFFICES ASSUME NEW n \in DOMAIN questions, NEW d \in Datasets
                 PROVE  Cardinality({k \in DOMAIN exchanges[d] : exchanges[d][k] = n})
                          = IF questions[n].pc = "answered" /\ questions[n].doc = d THEN 1 ELSE 0
    BY DEF AnswersRecorded
  <2> DEFINE at == {k \in DOMAIN exchanges[d] : exchanges[d][k] = n}
  <2>2. CASE questions[n].pc = "answered" /\ questions[n].doc = d
    <3>1. PICK i \in DOMAIN exchanges[d] : exchanges[d][i] = n
      BY <1>1, <2>2 DEF DsLogged, Elements, AnsweredOf
    <3>2. at = {i}
      BY <1>1, <3>1 DEF DsLogged, Once
    <3>3. Cardinality({i}) = 1
      BY FS_Singleton
    <3> HIDE DEF at
    <3>4. Cardinality(at) = 1
      BY <3>2, <3>3, Zenon
    <3>5. QED
      BY <2>2, <3>4 DEF at
  <2>3. CASE ~(questions[n].pc = "answered" /\ questions[n].doc = d)
    <3>1. at = {}
      BY <1>1, <2>3 DEF DsLogged, Elements, AnsweredOf
    <3>2. Cardinality({}) = 0
      BY FS_EmptySet
    <3> HIDE DEF at
    <3>3. Cardinality(at) = 0
      BY <3>1, <3>2, Zenon
    <3>4. QED
      BY <2>3, <3>3 DEF at
  <2>4. QED
    BY <2>2, <2>3
<1>7. QED
  BY <1>2, <1>4, <1>5, <1>6

\* In whatever order calls and replies come, the page of the datasets ends with the listing
\* of the server and one of its datasets chosen, and every answer stands below its question,
\* in the box and in the log of the document it was asked about (Datasets.tsx, routes.py).
THEOREM DatasetsStaySound ==
  LensDatasetsSpec => [](LensDatasetsTypeOK /\ ListingSettles /\ ChosenIsListed /\ AnswersInTheirBox /\ AnswersRecorded)
<1>1. DsListInv /\ DsChatInv /\ [LensDatasetsNext]_dsVars => DsListInv' /\ DsChatInv'
  BY DsListStep, DsChatStep
<1>2. QED
  BY <1>1, DsListBegins, DsChatBegins, DatasetsShow, PTL DEF LensDatasetsSpec

------------------------------------------------------------------------------
(* The vault of notes. *)

NoteRequest ==
  [do : {"list", "detail", "save", "delete", "refused"}, slug : NoteNames \cup {None},
   tag : Tags \cup {None}, was : NoteNames \cup {None}, had : SUBSET NoteNames]
NoteAnswer == [call : NoteRequest, found : SUBSET NoteNames, late : BOOLEAN]

\* A note is loaded or deleted under its name.
OfNote(call) == call.do \in {"detail", "delete"} => call.slug \in NoteNames

AreCalls(s) == s \in Seq(NoteRequest) /\ \A c \in DOMAIN s : OfNote(s[c]) /\ s[c].do # "refused"

NoteTypes ==
  /\ DOMAIN noteFiles \subseteq NoteNames /\ notes \subseteq NoteNames /\ noteGone \subseteq NoteNames
  /\ {selectedSlug, selectedNote} \subseteq NoteNames \cup {None} /\ selectedTag \in Tags \cup {None}
  /\ AreCalls(noteCalls) /\ noteReplies \in Seq(NoteAnswer)
  /\ \A k \in DOMAIN noteReplies : OfNote(noteReplies[k].call)
  /\ noteClock \in 1..MaxClock /\ noteErrors \in 0..MaxNoteErrors /\ noteUnsettled \in BOOLEAN
  /\ noteSaves \in Seq([second : Nat, title : Titles, name : NoteNames \cup {None}])

\* The name of a note is of its second and title.
SavesNamed ==
  \A i \in DOMAIN noteSaves :
    noteSaves[i].name # None => noteSaves[i].name = <<noteSaves[i].second, noteSaves[i].title>>

\* Of the calls, the last listing is for a tag, and the last note loaded is a certain one.
Has(s, do) == \E c \in DOMAIN s : s[c].do = do
TagRight(s, tag) ==
  \A c \in DOMAIN s :
    s[c].do = "list" /\ (\A e \in DOMAIN s : e > c => s[e].do # "list") => s[c].tag = tag
SlugRight(s, slug) ==
  \A c \in DOMAIN s :
    s[c].do = "detail" /\ (\A e \in DOMAIN s : e > c => s[e].do # "detail") => s[c].slug = slug

\* Of the replies that come after L: which notes are deleted, and that none is of a kind.
ToGo(L) == {noteReplies[i].call.slug : i \in {j \in DOMAIN noteReplies : j > L /\ noteReplies[j].call.do = "delete"}}
NoneAfter(L, dos) == \A i \in DOMAIN noteReplies : i > L => noteReplies[i].call.do \notin dos

\* What is listed once the first L replies have come.
ListedAt(L) == IF L = 0 THEN notes ELSE noteReplies[L].found

ListRight ==
  ~Has(noteCalls, "list") =>
    \A L \in 0..Len(noteReplies) :
      (L # 0 => noteReplies[L].call.do = "list") /\ NoneAfter(L, {"list", "save"})
      => ListedAt(L) \ ToGo(L) = Tagged(selectedTag)

ShownRight ==
  ~Has(noteCalls, "detail") =>
    /\ \A L \in DOMAIN noteReplies :
         noteReplies[L].call.do = "detail" /\ NoneAfter(L, {"detail"}) => noteReplies[L].call.slug = selectedSlug
    /\ NoneAfter(0, {"detail"}) /\ selectedNote # None => selectedNote = selectedSlug

\* No reply came too late, and none will.
InOrder == ~noteUnsettled /\ \A k \in DOMAIN noteReplies : ~noteReplies[k].late

NoteRight ==
  /\ TagRight(noteCalls, selectedTag) /\ ListRight
  /\ selectedSlug # None => SlugRight(noteCalls, selectedSlug) /\ ShownRight

NoteInv == NoteTypes /\ SavesNamed /\ NoteKept /\ (InOrder => NoteRight)

LEMMA HeadOfCalls ==
  ASSUME NEW T, NEW s \in Seq(T), NEW x \in Elements(First(1, s))
  PROVE  1 \in DOMAIN s /\ x = s[1]
<1> DEFINE n == Least(1, Len(s))
           f == SubSeq(s, 1, n)
<1>1. DOMAIN s = 1..Len(s) /\ Len(s) \in Nat
  BY LenProperties
<1>2. n \in 0..1 /\ n <= Len(s) /\ n \in Int
  BY <1>1 DEF Least
<1>3. \A i \in 1..n : s[i] \in T
  BY <1>1, <1>2, ElementOfSeq
<1> HIDE DEF n
<1>4. f \in Seq(T) /\ Len(f) = (IF 1 <= n THEN n - 1 + 1 ELSE 0) /\ \A i \in 1..(n - 1 + 1) : f[i] = s[1 + i - 1]
  BY <1>2, <1>3, SubSeqProperties
<1>5. x \in Elements(f)
  BY DEF First, n
<1> HIDE DEF f
<1>6. DOMAIN f = 1..Len(f)
  BY <1>4, LenProperties
<1>7. PICK i \in DOMAIN f : x = f[i]
  BY <1>5 DEF Elements
<1>8. n = 1 /\ i = 1
  BY <1>2, <1>4, <1>6, <1>7
<1>9. x = s[1]
  BY <1>4, <1>7, <1>8
<1>10. QED
  BY <1>1, <1>2, <1>8, <1>9

\* One more call.
LEMMA CallsLonger ==
  ASSUME NEW s, AreCalls(s), NEW x \in NoteRequest, OfNote(x), x.do # "refused", NEW t, IsLonger(t, s, x)
  PROVE  /\ AreCalls(t) /\ \A do : Has(t, do) <=> Has(s, do) \/ x.do = do
         /\ \A tag : (IF x.do = "list" THEN x.tag = tag ELSE TagRight(s, tag)) => TagRight(t, tag)
         /\ \A slug : (IF x.do = "detail" THEN x.slug = slug ELSE SlugRight(s, slug)) => SlugRight(t, slug)
<1>1. s \in Seq(NoteRequest)
  BY DEF AreCalls
<1>2. /\ t \in Seq(NoteRequest) /\ Len(s) \in Nat
      /\ DOMAIN s = 1..Len(s) /\ DOMAIN t = 1..(Len(s) + 1)
      /\ t[Len(s) + 1] = x /\ \A i \in 1..Len(s) : t[i] = s[i]
  BY <1>1, LongerFacts
<1>3. /\ \A c \in DOMAIN t : c = Len(s) + 1 \/ (c \in DOMAIN s /\ t[c] = s[c] /\ Len(s) + 1 > c)
      /\ Len(s) + 1 \in DOMAIN t /\ \A c \in DOMAIN s : c \in DOMAIN t /\ t[c] = s[c]
  BY <1>2
<1>4. AreCalls(t)
  BY <1>2, <1>3 DEF AreCalls
<1>5. \A do : Has(t, do) <=> Has(s, do) \/ x.do = do
  BY <1>2, <1>3 DEF Has
<1>6. ASSUME NEW tag, IF x.do = "list" THEN x.tag = tag ELSE TagRight(s, tag) PROVE TagRight(t, tag)
  BY <1>2, <1>3, <1>6 DEF TagRight
<1>7. ASSUME NEW slug, IF x.do = "detail" THEN x.slug = slug ELSE SlugRight(s, slug) PROVE SlugRight(t, slug)
  BY <1>2, <1>3, <1>7 DEF SlugRight
<1>8. QED
  BY <1>4, <1>5, <1>6, <1>7

\* The first of them is carried out.
LEMMA CallsTail ==
  ASSUME NEW s, AreCalls(s), 1 \in DOMAIN s, NEW t, t = Tail(s)
  PROVE  /\ AreCalls(t) /\ \A do : Has(s, do) <=> Has(t, do) \/ s[1].do = do
         /\ \A tag : TagRight(s, tag) => TagRight(t, tag) /\ (s[1].do = "list" /\ ~Has(t, "list") => s[1].tag = tag)
         /\ \A slug : SlugRight(s, slug)
                      => SlugRight(t, slug) /\ (s[1].do = "detail" /\ ~Has(t, "detail") => s[1].slug = slug)
<1>1. s \in Seq(NoteRequest) /\ s # <<>> /\ DOMAIN s = 1..Len(s) /\ Len(s) \in Nat
  BY LenProperties DEF AreCalls
<1>2. /\ t \in Seq(NoteRequest) /\ DOMAIN t = 1..(Len(s) - 1)
      /\ \A i \in 1..(Len(s) - 1) : t[i] = s[i + 1]
  BY <1>1, TailFacts
<1>3. /\ \A c \in DOMAIN t : c + 1 \in DOMAIN s /\ t[c] = s[c + 1]
      /\ \A c \in DOMAIN s : c = 1 \/ (c - 1 \in DOMAIN t /\ t[c - 1] = s[c] /\ c > 1)
  BY <1>1, <1>2
<1>4. AreCalls(t)
  BY <1>2, <1>3 DEF AreCalls
<1>5. \A do : Has(s, do) <=> Has(t, do) \/ s[1].do = do
  BY <1>3 DEF Has
<1>6. ASSUME NEW tag, TagRight(s, tag)
      PROVE  TagRight(t, tag) /\ (s[1].do = "list" /\ ~Has(t, "list") => s[1].tag = tag)
  <2>1. s[1].do = "list" /\ ~Has(t, "list") => s[1].tag = tag
    BY <1>3, <1>6 DEF TagRight, Has
  <2>2. ASSUME NEW c \in DOMAIN t, t[c].do = "list", \A e \in DOMAIN t : e > c => t[e].do # "list"
        PROVE  t[c].tag = tag
    <3>1. c + 1 \in DOMAIN s /\ s[c + 1] = t[c]
      BY <1>3
    <3>2. \A e \in DOMAIN s : e > c + 1 => s[e].do # "list"
      <4>1. SUFFICES ASSUME NEW e \in DOMAIN s, e > c + 1 PROVE s[e].do # "list"
        OBVIOUS
      <4>2. e - 1 \in DOMAIN t /\ e - 1 > c /\ t[e - 1] = s[e]
        BY <1>1, <1>2, <1>3, <4>1
      <4>3. QED
        BY <2>2, <4>2
    <3>3. QED
      BY <1>6, <2>2, <3>1, <3>2 DEF TagRight
  <2>3. QED
    BY <2>1, <2>2 DEF TagRight
<1>7. ASSUME NEW slug, SlugRight(s, slug)
      PROVE  SlugRight(t, slug) /\ (s[1].do = "detail" /\ ~Has(t, "detail") => s[1].slug = slug)
  <2>1. s[1].do = "detail" /\ ~Has(t, "detail") => s[1].slug = slug
    BY <1>3, <1>7 DEF SlugRight, Has
  <2>2. ASSUME NEW c \in DOMAIN t, t[c].do = "detail", \A e \in DOMAIN t : e > c => t[e].do # "detail"
        PROVE  t[c].slug = slug
    <3>1. c + 1 \in DOMAIN s /\ s[c + 1] = t[c]
      BY <1>3
    <3>2. \A e \in DOMAIN s : e > c + 1 => s[e].do # "detail"
      <4>1. SUFFICES ASSUME NEW e \in DOMAIN s, e > c + 1 PROVE s[e].do # "detail"
        OBVIOUS
      <4>2. e - 1 \in DOMAIN t /\ e - 1 > c /\ t[e - 1] = s[e]
        BY <1>1, <1>2, <1>3, <4>1
      <4>3. QED
        BY <2>2, <4>2
    <3>3. QED
      BY <1>7, <2>2, <3>1, <3>2 DEF SlugRight
  <2>3. QED
    BY <2>1, <2>2 DEF SlugRight
<1>8. QED
  BY <1>4, <1>5, <1>6, <1>7

\* The page may make calls and select another note: it knows then what it waits for.
PageMoves ==
  /\ AreCalls(noteCalls')
  /\ TagRight(noteCalls, selectedTag) => TagRight(noteCalls', selectedTag)
  /\ Has(noteCalls, "list") => Has(noteCalls', "list")
  /\ selectedSlug' # None /\ (selectedSlug # None => SlugRight(noteCalls, selectedSlug))
     => SlugRight(noteCalls', selectedSlug')
  /\ selectedSlug' # None /\ ~Has(noteCalls', "detail") => selectedSlug' = selectedSlug /\ ~Has(noteCalls, "detail")

LEMMA StaysMoves ==
  ASSUME NoteTypes, UNCHANGED <<noteCalls, selectedSlug>>
  PROVE  PageMoves
BY DEF NoteTypes, PageMoves

\* A call of the user.
LEMMA SendMoves ==
  ASSUME NoteTypes, NEW call \in NoteRequest, OfNote(call), call.do \notin {"refused", "detail"},
         call.do = "list" => call.tag = selectedTag,
         IsLonger(noteCalls', noteCalls, call), selectedSlug' = selectedSlug
  PROVE  PageMoves
<1>1. AreCalls(noteCalls)
  BY DEF NoteTypes
<1>2. /\ AreCalls(noteCalls') /\ \A do : Has(noteCalls', do) <=> Has(noteCalls, do) \/ call.do = do
      /\ \A tag : (IF call.do = "list" THEN call.tag = tag ELSE TagRight(noteCalls, tag)) => TagRight(noteCalls', tag)
      /\ \A slug : (IF call.do = "detail" THEN call.slug = slug ELSE SlugRight(noteCalls, slug))
                   => SlugRight(noteCalls', slug)
  BY <1>1, CallsLonger
<1>3. QED
  BY <1>2 DEF PageMoves

\* A note is selected.
LEMMA TurnMoves ==
  ASSUME NoteTypes, NEW slug \in NoteNames \cup {None}, TurnTo(slug)
  PROVE  /\ PageMoves /\ selectedSlug' = slug /\ selectedNote' \in {None, selectedNote}
         /\ slug = selectedSlug => noteCalls' = noteCalls
<1> DEFINE l == [NoteCall("list", None) EXCEPT !.was = slug]
           d == NoteCall("detail", slug)
           u == Append(noteCalls, l)
<1>1. /\ selectedSlug' = slug /\ selectedNote' \in {None, selectedNote}
      /\ slug = selectedSlug => noteCalls' = noteCalls
      /\ slug # selectedSlug => noteCalls' = u \o (IF slug = None THEN <<>> ELSE <<d>>)
  BY DEF TurnTo
<1>2. CASE slug = selectedSlug
  BY <1>1, <1>2, StaysMoves
<1>3. CASE slug # selectedSlug
  <2>1. AreCalls(noteCalls) /\ selectedTag \in Tags \cup {None}
    BY DEF NoteTypes
  <2>2. l \in NoteRequest /\ l.do = "list" /\ l.tag = selectedTag /\ OfNote(l)
    BY <2>1 DEF NoteCall, NoteRequest, OfNote
  <2>3. slug # None => d \in NoteRequest /\ d.do = "detail" /\ d.slug = slug /\ OfNote(d)
    BY DEF NoteCall, NoteRequest, OfNote
  <2>4. IsLonger(u, noteCalls, l)
    BY DEF IsLonger
  <2> HIDE DEF l, d
  <2>5. u \in Seq(NoteRequest)
    BY <2>1, <2>2, AppendProperties DEF AreCalls
  <2> HIDE DEF u
  <2>6. l.do # "refused" /\ l.do # "detail"
    BY <2>2
  <2>7. /\ AreCalls(u) /\ \A do : Has(u, do) <=> Has(noteCalls, do) \/ l.do = do
        /\ \A tag : (IF l.do = "list" THEN l.tag = tag ELSE TagRight(noteCalls, tag)) => TagRight(u, tag)
        /\ \A x : (IF l.do = "detail" THEN l.slug = x ELSE SlugRight(noteCalls, x)) => SlugRight(u, x)
    BY <2>1, <2>2, <2>4, <2>6, CallsLonger
  <2>8. Has(u, "list") /\ TagRight(u, selectedTag)
    BY <2>2, <2>7
  <2>9. CASE slug = None
    <3>1. noteCalls' = u
      <4>1. u \o <<>> = u
        BY <2>5, ConcatEmptySeq
      <4>2. noteCalls' = u \o <<>>
        BY <1>1, <1>3, <2>9
      <4>3. QED
        BY <4>1, <4>2
    <3>2. QED
      BY <1>1, <2>7, <2>8, <2>9, <3>1 DEF PageMoves
  <2>10. CASE slug # None
    <3>1. IsLonger(noteCalls', u, d)
      <4>1. noteCalls' = u \o <<d>>
        BY <1>1, <1>3, <2>10
      <4>2. u \o <<d>> = Append(u, d)
        BY <2>3, <2>5, <2>10, AppendIsConcat
      <4>3. QED
        BY <4>1, <4>2 DEF IsLonger
    <3>2. d.do # "refused" /\ d.do # "list"
      BY <2>3, <2>10
    <3>3. /\ AreCalls(noteCalls') /\ \A do : Has(noteCalls', do) <=> Has(u, do) \/ d.do = do
          /\ \A tag : (IF d.do = "list" THEN d.tag = tag ELSE TagRight(u, tag)) => TagRight(noteCalls', tag)
          /\ \A x : (IF d.do = "detail" THEN d.slug = x ELSE SlugRight(u, x)) => SlugRight(noteCalls', x)
      BY <2>3, <2>7, <2>10, <3>1, <3>2, CallsLonger
    <3>4. /\ Has(noteCalls', "list") /\ Has(noteCalls', "detail")
          /\ TagRight(noteCalls', selectedTag) /\ SlugRight(noteCalls', slug)
      BY <2>3, <2>8, <2>10, <3>2, <3>3
    <3>5. QED
      BY <1>1, <3>3, <3>4 DEF PageMoves
  <2>11. QED
    BY <1>1, <1>3, <2>9, <2>10
<1>4. QED
  BY <1>1, <1>2, <1>3

\* Where only calls are made and another note is selected, what holds of the page goes on.
LEMMA MovesKeep ==
  ASSUME NoteRight, PageMoves, UNCHANGED <<noteFiles, notes, selectedTag, noteReplies>>,
         selectedNote' \in {None, selectedNote}
  PROVE  NoteRight'
<1>1. TagRight(noteCalls', selectedTag')
  BY DEF NoteRight, PageMoves
<1>2. ListRight'
  BY DEF NoteRight, PageMoves, ListRight, ListedAt, ToGo, NoneAfter, Tagged
<1>3. ASSUME selectedSlug' # None PROVE SlugRight(noteCalls', selectedSlug') /\ ShownRight'
  <2>1. SlugRight(noteCalls', selectedSlug')
    BY <1>3 DEF NoteRight, PageMoves
  <2>2. ASSUME ~Has(noteCalls', "detail") PROVE ShownRight'
    BY <1>3, <2>2 DEF NoteRight, PageMoves, ShownRight, NoneAfter
  <2>3. QED
    BY <2>1, <2>2 DEF ShownRight
<1>4. QED
  BY <1>1, <1>2, <1>3 DEF NoteRight

LEMMA NotesBegin == LensNotesInit => NoteInv
<1>1. ASSUME LensNotesInit PROVE NoteInv
  <2> DEFINE l == [do |-> "list", slug |-> None, tag |-> None, was |-> None, had |-> {}]
  <2>1. /\ noteFiles = <<>> /\ noteClock = 1 /\ notes = {} /\ selectedTag = None /\ selectedSlug = None
        /\ selectedNote = None /\ noteCalls = <<l>> /\ noteReplies = <<>> /\ noteErrors = 0
        /\ noteSaves = <<>> /\ noteGone = {} /\ noteUnsettled = FALSE
    BY <1>1 DEF LensNotesInit
  <2>2. 1 \in 1..MaxClock /\ 0 \in 0..MaxNoteErrors
    BY NotesAssumption
  <2>3. l \in NoteRequest /\ OfNote(l) /\ l.do = "list" /\ l.tag = None
    BY DEF NoteRequest, OfNote
  <2> HIDE DEF l
  <2>4. noteCalls \in Seq(NoteRequest) /\ DOMAIN noteCalls = {1} /\ noteCalls[1] = l
    BY <2>1, <2>3
  <2>5. AreCalls(noteCalls)
    BY <2>3, <2>4 DEF AreCalls
  <2>6. DOMAIN noteFiles = {} /\ DOMAIN noteReplies = {} /\ DOMAIN noteSaves = {}
    BY <2>1
  <2>7. noteReplies \in Seq(NoteAnswer) /\ noteSaves \in Seq([second : Nat, title : Titles, name : NoteNames \cup {None}])
    BY <2>1
  <2>8. NoteTypes
    BY <2>1, <2>2, <2>5, <2>6, <2>7 DEF NoteTypes
  <2>9. SavesNamed /\ NoteKept
    BY <2>6 DEF SavesNamed, NoteKept
  <2>10. TagRight(noteCalls, selectedTag) /\ Has(noteCalls, "list")
    BY <2>1, <2>3, <2>4 DEF TagRight, Has
  <2>11. NoteRight
    BY <2>1, <2>10 DEF NoteRight, ListRight
  <2>12. QED
    BY <2>8, <2>9, <2>11 DEF NoteInv
<1>2. QED
  BY <1>1

\* What a write does, or fails to do: the files, and what is reported of it.
LEMMA WritesKept ==
  ASSUME NoteTypes, SavesNamed, NoteKept, NEW title \in Titles, NEW tag \in Tags \cup {None},
         create_note(title, tag), noteGone' = noteGone
  PROVE  /\ SavesNamed' /\ NoteKept' /\ DOMAIN noteFiles' \subseteq NoteNames
         /\ noteErrors' \in 0..MaxNoteErrors
         /\ noteSaves' \in Seq([second : Nat, title : Titles, name : NoteNames \cup {None}])
<1> DEFINE name == <<noteClock, title>>
           id == Len(noteSaves) + 1
           S == [second : Nat, title : Titles, name : NoteNames \cup {None}]
<1>1. PICK save \in S :
        /\ IsLonger(noteSaves', noteSaves, save)
        /\ save.second = noteClock /\ save.title = title /\ save.name \in {None, name}
        /\ DOMAIN noteFiles' \subseteq DOMAIN noteFiles \cup {name}
        /\ \A n \in DOMAIN noteFiles : n # name => n \in DOMAIN noteFiles' /\ noteFiles'[n] = noteFiles[n]
        /\ save.name # None => name \in DOMAIN noteFiles' /\ noteFiles'[name].id = id
        /\ noteErrors' \in 0..MaxNoteErrors
  <2> DEFINE with(note) == [n \in DOMAIN noteFiles \cup {name} |-> IF n = name THEN note ELSE noteFiles[n]]
             good == [second |-> noteClock, title |-> title, name |-> name]
             bad == [second |-> noteClock, title |-> title, name |-> None]
  <2>1. noteClock \in 1..MaxClock /\ MaxClock \in Nat /\ MaxNoteErrors \in Nat /\ noteErrors \in 0..MaxNoteErrors
    BY NotesAssumption DEF NoteTypes
  <2>2. name \in NoteNames /\ good \in S /\ bad \in S
    BY <2>1 DEF NoteNames
  <2>3. CASE /\ noteFiles' = with([tag |-> tag, id |-> id])
             /\ noteSaves' = Append(noteSaves, good)
             /\ UNCHANGED noteErrors
    <3>1. IsLonger(noteSaves', noteSaves, good)
      BY <2>3 DEF IsLonger
    <3>2. good.second = noteClock /\ good.title = title /\ good.name = name
      OBVIOUS
    <3>3. /\ DOMAIN noteFiles' = DOMAIN noteFiles \cup {name}
          /\ \A n \in DOMAIN noteFiles : n # name => n \in DOMAIN noteFiles' /\ noteFiles'[n] = noteFiles[n]
          /\ noteFiles'[name].id = id
      BY <2>3
    <3> HIDE DEF good, name, S, id
    <3>4. QED
      BY <2>1, <2>2, <2>3, <3>1, <3>2, <3>3
  <2>4. CASE /\ noteErrors < MaxNoteErrors /\ noteErrors' = noteErrors + 1
             /\ noteFiles' \in {noteFiles, with([tag |-> None, id |-> 0])}
             /\ noteSaves' = Append(noteSaves, bad)
    <3>1. IsLonger(noteSaves', noteSaves, bad)
      BY <2>4 DEF IsLonger
    <3>2. bad.second = noteClock /\ bad.title = title /\ bad.name = None
      OBVIOUS
    <3>3. /\ DOMAIN noteFiles' \subseteq DOMAIN noteFiles \cup {name}
          /\ \A n \in DOMAIN noteFiles : n # name => n \in DOMAIN noteFiles' /\ noteFiles'[n] = noteFiles[n]
      BY <2>4
    <3>4. noteErrors' \in 0..MaxNoteErrors
      BY <2>1, <2>4
    <3> HIDE DEF bad, name, S, id
    <3>5. QED
      BY <2>2, <3>1, <3>2, <3>3, <3>4
  <2>5. QED
    BY <2>3, <2>4 DEF create_note, FileName
<1>2. name \in NoteNames
  BY NotesAssumption DEF NoteTypes, NoteNames
<1>3. noteSaves \in Seq(S)
  BY DEF NoteTypes
<1> HIDE DEF S
<1>4. /\ noteSaves' \in Seq(S) /\ Len(noteSaves) \in Nat /\ Len(noteSaves') = id /\ id = Len(noteSaves) + 1
      /\ DOMAIN noteSaves = 1..Len(noteSaves) /\ DOMAIN noteSaves' = 1..id
      /\ noteSaves'[id] = save /\ \A i \in 1..Len(noteSaves) : noteSaves'[i] = noteSaves[i]
  BY <1>1, <1>3, LongerFacts
<1>5. \A i \in DOMAIN noteSaves' : i = id \/ (i \in DOMAIN noteSaves /\ noteSaves'[i] = noteSaves[i] /\ i < id)
  BY <1>4
<1> HIDE DEF id
<1>6. SavesNamed'
  <2>1. ASSUME NEW i \in DOMAIN noteSaves', noteSaves'[i].name # None
        PROVE  noteSaves'[i].name = <<noteSaves'[i].second, noteSaves'[i].title>>
    BY <1>1, <1>4, <1>5, <2>1 DEF SavesNamed
  <2>2. QED
    BY <2>1 DEF SavesNamed
<1>7. NoteKept'
  <2>1. SUFFICES ASSUME NEW i \in DOMAIN noteSaves', noteSaves'[i].name # None, noteSaves'[i].name \notin noteGone,
                        ~\E j \in (i + 1)..Len(noteSaves') :
                            noteSaves'[j].second = noteSaves'[i].second /\ noteSaves'[j].title = noteSaves'[i].title
                 PROVE  noteSaves'[i].name \in DOMAIN noteFiles' /\ noteFiles'[noteSaves'[i].name].id = i
    BY DEF NoteKept
  <2>2. CASE i = id
    BY <1>1, <1>4, <2>1, <2>2
  <2>3. CASE i # id
    <3>1. i \in DOMAIN noteSaves /\ noteSaves'[i] = noteSaves[i] /\ i < id /\ i \in Nat
      BY <1>4, <1>5, <2>3
    <3>2. ~\E j \in (i + 1)..Len(noteSaves) :
             noteSaves[j].second = noteSaves[i].second /\ noteSaves[j].title = noteSaves[i].title
      <4>1. ASSUME NEW j \in (i + 1)..Len(noteSaves)
            PROVE  ~(noteSaves[j].second = noteSaves[i].second /\ noteSaves[j].title = noteSaves[i].title)
        <5>1. j \in (i + 1)..Len(noteSaves') /\ j \in 1..Len(noteSaves)
          BY <1>4, <3>1
        <5>2. noteSaves'[j] = noteSaves[j]
          BY <1>4, <5>1
        <5>3. QED
          BY <2>1, <3>1, <5>1, <5>2
      <4>2. QED
        BY <4>1
    <3>3. noteSaves[i].name \in DOMAIN noteFiles /\ noteFiles[noteSaves[i].name].id = i
      BY <2>1, <3>1, <3>2 DEF NoteKept
    <3>4. id \in (i + 1)..Len(noteSaves')
      BY <1>4, <3>1
    <3>5. noteSaves[i].name # name
      BY <1>1, <1>4, <2>1, <3>1, <3>4 DEF SavesNamed
    <3>6. QED
      BY <1>1, <3>1, <3>3, <3>5
  <2>4. QED
    BY <2>2, <2>3
<1>8. QED
  BY <1>1, <1>2, <1>4, <1>6, <1>7 DEF S, NoteTypes

\* Files that stay as they are keep what was reported of them.
LEMMA FilesStay ==
  ASSUME SavesNamed, NoteKept, UNCHANGED <<noteFiles, noteSaves, noteGone>>
  PROVE  SavesNamed' /\ NoteKept'
BY DEF SavesNamed, NoteKept

LEMMA PageKeeps ==
  ASSUME NoteInv, PageMoves, selectedNote' \in {None, selectedNote}, selectedSlug' \in NoteNames \cup {None},
         noteClock' \in 1..MaxClock,
         UNCHANGED <<noteFiles, notes, selectedTag, noteReplies, noteErrors, noteSaves, noteGone, noteUnsettled>>
  PROVE  NoteInv'
<1>1. NoteTypes /\ SavesNamed /\ NoteKept /\ (InOrder => NoteRight)
  BY DEF NoteInv
<1>2. SavesNamed' /\ NoteKept'
  BY <1>1, FilesStay
<1>3. NoteTypes'
  BY <1>1 DEF NoteTypes, PageMoves
<1>4. InOrder' => InOrder
  BY DEF InOrder
<1>5. InOrder' => NoteRight'
  BY <1>1, <1>4, MovesKeep
<1>6. QED
  BY <1>2, <1>3, <1>5 DEF NoteInv

LEMMA UserActs ==
  ASSUME NoteInv,
         \/ Tick \/ handleSaveToVault \/ fetchNotes
         \/ \E slug \in notes : SelectNote(slug) \/ handleDeleteNote(slug)
  PROVE  NoteInv'
<1>1. NoteTypes
  BY DEF NoteInv
<1>2. /\ notes \subseteq NoteNames /\ {selectedSlug, selectedNote} \subseteq NoteNames \cup {None}
      /\ selectedTag \in Tags \cup {None} /\ noteClock \in 1..MaxClock /\ MaxClock \in Nat
  BY <1>1, NotesAssumption DEF NoteTypes
<1>3. CASE Tick
  <2>1. noteClock' \in 1..MaxClock
    BY <1>2, <1>3 DEF Tick
  <2>2. PageMoves
    <3>1. UNCHANGED <<noteCalls, selectedSlug>>
      BY <1>3 DEF Tick, notePage
    <3>2. QED
      BY <1>1, <3>1, StaysMoves
  <2>3. /\ selectedNote' \in {None, selectedNote} /\ selectedSlug' \in NoteNames \cup {None}
        /\ UNCHANGED <<noteFiles, notes, selectedTag, noteReplies, noteErrors, noteSaves, noteGone, noteUnsettled>>
    BY <1>2, <1>3 DEF Tick, notePage
  <2>4. QED
    BY <2>1, <2>2, <2>3, PageKeeps
<1>4. ASSUME NEW call \in NoteRequest, OfNote(call), call.do \notin {"refused", "detail"},
             call.do = "list" => call.tag = selectedTag, NoteSend(call)
      PROVE  NoteInv'
  <2>1. IsLonger(noteCalls', noteCalls, call) /\ selectedSlug' = selectedSlug
    BY <1>4 DEF NoteSend, notePage, IsLonger
  <2>2. PageMoves
    BY <1>1, <1>4, <2>1, SendMoves
  <2>3. /\ selectedNote' \in {None, selectedNote} /\ selectedSlug' \in NoteNames \cup {None} /\ noteClock' \in 1..MaxClock
        /\ UNCHANGED <<noteFiles, notes, selectedTag, noteReplies, noteErrors, noteSaves, noteGone, noteUnsettled>>
    BY <1>2, <1>4 DEF NoteSend, notePage
  <2>4. QED
    BY <2>2, <2>3, PageKeeps
<1>5. CASE handleSaveToVault
  <2>1. /\ NoteCall("save", None) \in NoteRequest /\ OfNote(NoteCall("save", None))
        /\ NoteCall("save", None).do = "save"
    BY <1>2 DEF NoteCall, NoteRequest, OfNote
  <2>2. QED
    BY <1>4, <1>5, <2>1 DEF handleSaveToVault
<1>6. CASE fetchNotes
  <2>1. /\ NoteCall("list", None) \in NoteRequest /\ OfNote(NoteCall("list", None))
        /\ NoteCall("list", None).do = "list" /\ NoteCall("list", None).tag = selectedTag
    BY <1>2 DEF NoteCall, NoteRequest, OfNote
  <2>2. QED
    BY <1>4, <1>6, <2>1 DEF fetchNotes
<1>7. ASSUME NEW slug \in notes, handleDeleteNote(slug) PROVE NoteInv'
  <2>1. /\ NoteCall("delete", slug) \in NoteRequest /\ OfNote(NoteCall("delete", slug))
        /\ NoteCall("delete", slug).do = "delete"
    BY <1>2 DEF NoteCall, NoteRequest, OfNote
  <2>2. QED
    BY <1>4, <1>7, <2>1 DEF handleDeleteNote
<1>8. ASSUME NEW slug \in notes, SelectNote(slug) PROVE NoteInv'
  <2>1. slug \in NoteNames \cup {None} /\ TurnTo(slug)
    BY <1>2, <1>8 DEF SelectNote
  <2>2. PageMoves /\ selectedSlug' = slug /\ selectedNote' \in {None, selectedNote}
    BY <1>1, <2>1, TurnMoves
  <2>3. /\ noteClock' \in 1..MaxClock
        /\ UNCHANGED <<noteFiles, notes, selectedTag, noteReplies, noteErrors, noteSaves, noteGone, noteUnsettled>>
    BY <1>2, <1>8 DEF SelectNote
  <2>4. QED
    BY <2>1, <2>2, <2>3, PageKeeps
<1>9. QED
  BY <1>3, <1>5, <1>6, <1>7, <1>8

LEMMA TagSelected ==
  ASSUME NoteInv, NEW tag \in Tags \cup {None}, SelectTag(tag)
  PROVE  NoteInv'
<1> DEFINE l == [NoteCall("list", None) EXCEPT !.tag = tag]
<1>1. NoteTypes /\ SavesNamed /\ NoteKept /\ (InOrder => NoteRight)
  BY DEF NoteInv
<1>2. AreCalls(noteCalls) /\ {selectedSlug, selectedNote} \subseteq NoteNames \cup {None}
  BY <1>1 DEF NoteTypes
<1>3. l \in NoteRequest /\ OfNote(l) /\ l.do = "list" /\ l.tag = tag
  BY <1>2 DEF NoteCall, NoteRequest, OfNote
<1>4. IsLonger(noteCalls', noteCalls, l)
  BY DEF SelectTag, IsLonger
<1>5. /\ selectedTag' = tag
      /\ UNCHANGED <<noteFiles, noteClock, notes, selectedSlug, selectedNote, noteReplies, noteErrors,
                     noteSaves, noteGone, noteUnsettled>>
  BY DEF SelectTag
<1> HIDE DEF l
<1>6. l.do # "refused" /\ l.do # "detail"
  BY <1>3
<1>7. /\ AreCalls(noteCalls') /\ \A do : Has(noteCalls', do) <=> Has(noteCalls, do) \/ l.do = do
      /\ \A x : (IF l.do = "list" THEN l.tag = x ELSE TagRight(noteCalls, x)) => TagRight(noteCalls', x)
      /\ \A x : (IF l.do = "detail" THEN l.slug = x ELSE SlugRight(noteCalls, x)) => SlugRight(noteCalls', x)
  BY <1>2, <1>3, <1>4, <1>6, CallsLonger
<1>8. SavesNamed' /\ NoteKept'
  BY <1>1, <1>5, FilesStay
<1>9. NoteTypes'
  BY <1>1, <1>5, <1>7 DEF NoteTypes
<1>10. ASSUME InOrder' PROVE NoteRight'
  <2>1. InOrder
    BY <1>5, <1>10 DEF InOrder
  <2>2. NoteRight
    BY <1>1, <2>1
  <2>3. TagRight(noteCalls', selectedTag') /\ ListRight'
    BY <1>3, <1>5, <1>7 DEF ListRight
  <2>4. ASSUME selectedSlug' # None PROVE SlugRight(noteCalls', selectedSlug') /\ ShownRight'
    <3>1. SlugRight(noteCalls, selectedSlug) /\ ShownRight
      BY <1>5, <2>2, <2>4 DEF NoteRight
    <3>2. SlugRight(noteCalls', selectedSlug')
      BY <1>5, <1>6, <1>7, <3>1
    <3>3. ~Has(noteCalls', "detail") => ~Has(noteCalls, "detail")
      BY <1>7
    <3>4. QED
      BY <1>5, <3>1, <3>2, <3>3 DEF ShownRight, NoneAfter
  <2>5. QED
    BY <2>3, <2>4 DEF NoteRight
<1>11. QED
  BY <1>8, <1>9, <1>10 DEF NoteInv

LEMMA AgentWrites ==
  ASSUME NoteInv, NEW title \in Titles, NEW tag \in Tags \cup {None}, AgentNote(title, tag)
  PROVE  NoteInv'
<1>1. NoteTypes /\ SavesNamed /\ NoteKept
  BY DEF NoteInv
<1>2. /\ create_note(title, tag) /\ noteUnsettled' = TRUE
      /\ UNCHANGED <<noteClock, notes, selectedTag, selectedSlug, selectedNote, noteCalls, noteReplies, noteGone>>
  BY DEF AgentNote, notePage
<1>3. /\ SavesNamed' /\ NoteKept' /\ DOMAIN noteFiles' \subseteq NoteNames
      /\ noteErrors' \in 0..MaxNoteErrors
      /\ noteSaves' \in Seq([second : Nat, title : Titles, name : NoteNames \cup {None}])
  BY <1>1, <1>2, WritesKept
<1>4. NoteTypes'
  BY <1>1, <1>2, <1>3 DEF NoteTypes
<1>5. ~InOrder'
  BY <1>2 DEF InOrder
<1>6. QED
  BY <1>3, <1>4, <1>5 DEF NoteInv

\* A call that is carried out, and what is replied.
LEMMA RepliedTypes ==
  ASSUME NoteTypes, 1 \in DOMAIN noteCalls, NEW c \in NoteRequest, OfNote(c), NEW found \in SUBSET NoteNames,
         Replied(c, found), NEW R, R = [call |-> c, found |-> found, late |-> FALSE]
  PROVE  /\ AreCalls(noteCalls') /\ noteReplies' \in Seq(NoteAnswer)
         /\ \A k \in DOMAIN noteReplies' : OfNote(noteReplies'[k].call)
         /\ R \in NoteAnswer /\ R.call = c /\ R.found = found /\ ~R.late /\ IsLonger(noteReplies', noteReplies, R)
         /\ noteCalls' = Tail(noteCalls)
         /\ UNCHANGED <<noteClock, notes, selectedTag, selectedSlug, selectedNote>>
<1>1. /\ noteCalls' = Tail(noteCalls) /\ IsLonger(noteReplies', noteReplies, R)
      /\ UNCHANGED <<noteClock, notes, selectedTag, selectedSlug, selectedNote>>
  BY DEF Replied, notePage, IsLonger
<1>2. R \in NoteAnswer /\ R.call = c /\ R.found = found /\ ~R.late
  BY DEF NoteAnswer
<1>3. AreCalls(noteCalls) /\ noteReplies \in Seq(NoteAnswer) /\ \A k \in DOMAIN noteReplies : OfNote(noteReplies[k].call)
  BY DEF NoteTypes
<1>4. AreCalls(noteCalls')
  BY <1>1, <1>3, CallsTail
<1>5. /\ noteReplies' \in Seq(NoteAnswer) /\ DOMAIN noteReplies = 1..Len(noteReplies)
      /\ DOMAIN noteReplies' = 1..(Len(noteReplies) + 1) /\ Len(noteReplies) \in Nat
      /\ noteReplies'[Len(noteReplies) + 1] = R /\ \A i \in 1..Len(noteReplies) : noteReplies'[i] = noteReplies[i]
  BY <1>1, <1>2, <1>3, LongerFacts
<1>6. ASSUME NEW k \in DOMAIN noteReplies' PROVE OfNote(noteReplies'[k].call)
  <2>1. k = Len(noteReplies) + 1 \/ (k \in DOMAIN noteReplies /\ noteReplies'[k] = noteReplies[k])
    BY <1>5
  <2>2. QED
    BY <1>2, <1>3, <1>5, <2>1
<1>7. QED
  BY <1>1, <1>2, <1>4, <1>5, <1>6

\* What is replied to a call, and what the call has done, is in line with what is replied
\* already and with the page.
LEMMA ReplyAdded ==
  ASSUME NoteTypes, NoteRight, 1 \in DOMAIN noteCalls, NEW R \in NoteAnswer, R.call = noteCalls[1],
         noteCalls' = Tail(noteCalls), IsLonger(noteReplies', noteReplies, R),
         UNCHANGED <<notes, selectedTag, selectedSlug, selectedNote>>,
         R.call.do = "list" => R.found = Tagged(R.call.tag)',
         R.call.do # "save" =>
           Tagged(selectedTag)' = Tagged(selectedTag) \ (IF R.call.do = "delete" THEN {R.call.slug} ELSE {})
  PROVE  NoteRight'
<1> DEFINE n == Len(noteReplies)
<1>1. AreCalls(noteCalls) /\ noteReplies \in Seq(NoteAnswer)
  BY DEF NoteTypes
<1>2. /\ DOMAIN noteReplies = 1..n /\ DOMAIN noteReplies' = 1..(n + 1) /\ n \in Nat /\ Len(noteReplies') = n + 1
      /\ noteReplies'[n + 1] = R /\ \A i \in 1..n : noteReplies'[i] = noteReplies[i]
  BY <1>1, LongerFacts
<1>3. /\ \A do : Has(noteCalls, do) <=> Has(noteCalls', do) \/ noteCalls[1].do = do
      /\ \A tag : TagRight(noteCalls, tag) => TagRight(noteCalls', tag)
                  /\ (noteCalls[1].do = "list" /\ ~Has(noteCalls', "list") => noteCalls[1].tag = tag)
      /\ \A slug : SlugRight(noteCalls, slug)
                   => SlugRight(noteCalls', slug)
                      /\ (noteCalls[1].do = "detail" /\ ~Has(noteCalls', "detail") => noteCalls[1].slug = slug)
  BY <1>1, CallsTail
<1> HIDE DEF n
<1>4. TagRight(noteCalls', selectedTag')
  BY <1>3 DEF NoteRight
<1>5. \A i \in DOMAIN noteReplies' : i = n + 1 \/ (i \in DOMAIN noteReplies /\ noteReplies'[i] = noteReplies[i] /\ i <= n)
  BY <1>2
<1>6. \A dos : \A L \in 0..n : NoneAfter(L, dos)' => NoneAfter(L, dos) /\ R.call.do \notin dos
  BY <1>2 DEF NoneAfter
<1>7. ListRight'
  <2>1. SUFFICES ASSUME ~Has(noteCalls', "list"), NEW L \in 0..(n + 1), L # 0 => noteReplies'[L].call.do = "list",
                        NoneAfter(L, {"list", "save"})'
                 PROVE  ListedAt(L)' \ ToGo(L)' = Tagged(selectedTag)'
    BY <1>2 DEF ListRight
  <2>2. CASE L = n + 1
    <3>1. R.call.do = "list" /\ ListedAt(L)' = R.found
      BY <1>2, <2>1, <2>2 DEF ListedAt
    <3>2. ToGo(L)' = {}
      BY <1>2, <2>2 DEF ToGo
    <3>3. R.call.tag = selectedTag
      BY <1>3, <2>1, <3>1 DEF NoteRight
    <3>4. QED
      BY <3>1, <3>2, <3>3
  <2>3. CASE L \in 0..n
    <3>1. NoneAfter(L, {"list", "save"}) /\ R.call.do \notin {"list", "save"}
      BY <1>6, <2>1, <2>3
    <3>2. ~Has(noteCalls, "list")
      BY <1>3, <2>1, <3>1
    <3>3. L # 0 => L \in 1..n /\ noteReplies[L].call.do = "list" /\ noteReplies'[L] = noteReplies[L]
      BY <1>2, <2>1, <2>3
    <3>4. ListedAt(L) \ ToGo(L) = Tagged(selectedTag)
      BY <1>2, <2>3, <3>1, <3>2, <3>3 DEF NoteRight, ListRight
    <3>5. ListedAt(L)' = ListedAt(L)
      BY <3>3 DEF ListedAt
    <3>6. \A x : x \in ToGo(L)' <=> x \in ToGo(L) \/ (R.call.do = "delete" /\ x = R.call.slug)
      <4>1. ASSUME NEW x \in ToGo(L)' PROVE x \in ToGo(L) \/ (R.call.do = "delete" /\ x = R.call.slug)
        <5>1. PICK i \in DOMAIN noteReplies' : i > L /\ noteReplies'[i].call.do = "delete" /\ x = noteReplies'[i].call.slug
          BY <4>1 DEF ToGo
        <5>2. QED
          BY <1>2, <1>5, <5>1 DEF ToGo
      <4>2. ASSUME NEW x \in ToGo(L) PROVE x \in ToGo(L)'
        <5>1. PICK i \in DOMAIN noteReplies : i > L /\ noteReplies[i].call.do = "delete" /\ x = noteReplies[i].call.slug
          BY <4>2 DEF ToGo
        <5>2. i \in DOMAIN noteReplies' /\ noteReplies'[i] = noteReplies[i]
          BY <1>2
        <5>3. QED
          BY <5>1, <5>2 DEF ToGo
      <4>3. ASSUME R.call.do = "delete" PROVE R.call.slug \in ToGo(L)'
        <5>1. n + 1 \in DOMAIN noteReplies' /\ n + 1 > L
          BY <1>2, <2>3
        <5>2. QED
          BY <1>2, <4>3, <5>1 DEF ToGo
      <4>4. QED
        BY <4>1, <4>2, <4>3
    <3>7. QED
      BY <3>1, <3>4, <3>5, <3>6
  <2>4. QED
    BY <1>2, <2>2, <2>3
<1>8. ASSUME selectedSlug' # None PROVE SlugRight(noteCalls', selectedSlug') /\ ShownRight'
  <2>1. SlugRight(noteCalls, selectedSlug) /\ ShownRight
    BY <1>8 DEF NoteRight
  <2>2. SlugRight(noteCalls', selectedSlug')
    BY <1>3, <2>1
  <2>3. ASSUME ~Has(noteCalls', "detail"), NEW L \in DOMAIN noteReplies', noteReplies'[L].call.do = "detail",
               NoneAfter(L, {"detail"})'
        PROVE  noteReplies'[L].call.slug = selectedSlug'
    <3>1. CASE L = n + 1
      BY <1>2, <1>3, <2>1, <2>3, <3>1
    <3>2. CASE L \in 1..n
      <4>1. L \in 0..n
        BY <1>2, <3>2
      <4>2. NoneAfter(L, {"detail"}) /\ R.call.do \notin {"detail"}
        BY <1>6, <2>3, <4>1
      <4>3. ~Has(noteCalls, "detail")
        BY <1>3, <2>3, <4>2
      <4>4. L \in DOMAIN noteReplies /\ noteReplies'[L] = noteReplies[L]
        BY <1>2, <3>2
      <4>5. QED
        BY <2>1, <2>3, <4>2, <4>3, <4>4 DEF ShownRight
    <3>3. QED
      BY <1>2, <3>1, <3>2
  <2>4. ASSUME ~Has(noteCalls', "detail"), NoneAfter(0, {"detail"})', selectedNote' # None
        PROVE  selectedNote' = selectedSlug'
    <3>1. NoneAfter(0, {"detail"}) /\ R.call.do \notin {"detail"}
      <4>1. 0 \in 0..n
        BY <1>2
      <4>2. QED
        BY <1>6, <2>4, <4>1
    <3>2. ~Has(noteCalls, "detail")
      BY <1>3, <2>4, <3>1
    <3>3. QED
      BY <2>1, <2>4, <3>1, <3>2 DEF ShownRight
  <2>5. QED
    BY <2>2, <2>3, <2>4 DEF ShownRight
<1>9. QED
  BY <1>4, <1>7, <1>8 DEF NoteRight

LEMMA NotesServed ==
  ASSUME NoteInv, NEW call \in Elements(First(1, noteCalls)),
         \/ list_notes(call) \/ get_note_detail(call)
         \/ create_vault_note(call) \/ delete_vault_note(call) \/ NoteCallFails(call)
  PROVE  NoteInv'
<1>1. NoteTypes /\ SavesNamed /\ NoteKept /\ (InOrder => NoteRight)
  BY DEF NoteInv
<1>2. AreCalls(noteCalls) /\ noteCalls \in Seq(NoteRequest) /\ DOMAIN noteFiles \subseteq NoteNames
  BY <1>1 DEF NoteTypes, AreCalls
<1>3. 1 \in DOMAIN noteCalls /\ call = noteCalls[1]
  BY <1>2, HeadOfCalls
<1>4. call \in NoteRequest /\ OfNote(call) /\ call.do # "refused"
  <2>1. noteCalls[1] \in NoteRequest
    BY <1>2, <1>3, ElementOfSeq, LenProperties
  <2>2. QED
    BY <1>2, <1>3, <2>1 DEF AreCalls
<1>5. ASSUME NEW c \in NoteRequest, OfNote(c), NEW found \in SUBSET NoteNames, Replied(c, found),
             DOMAIN noteFiles' \subseteq NoteNames, noteGone' \subseteq NoteNames, noteErrors' \in 0..MaxNoteErrors,
             noteUnsettled' \in BOOLEAN,
             noteSaves' \in Seq([second : Nat, title : Titles, name : NoteNames \cup {None}]),
             SavesNamed', NoteKept',
             \/ noteUnsettled' = TRUE
             \/ /\ c = call /\ noteUnsettled' = noteUnsettled
                /\ c.do = "list" => found = Tagged(c.tag)'
                /\ c.do # "save" => Tagged(selectedTag)' = Tagged(selectedTag) \ (IF c.do = "delete" THEN {c.slug} ELSE {})
      PROVE  NoteInv'
  <2> DEFINE R == [call |-> c, found |-> found, late |-> FALSE]
  <2>1. R = [call |-> c, found |-> found, late |-> FALSE]
    OBVIOUS
  <2> HIDE DEF R
  <2>2. /\ AreCalls(noteCalls') /\ noteReplies' \in Seq(NoteAnswer)
        /\ \A k \in DOMAIN noteReplies' : OfNote(noteReplies'[k].call)
        /\ R \in NoteAnswer /\ R.call = c /\ R.found = found /\ ~R.late /\ IsLonger(noteReplies', noteReplies, R)
        /\ noteCalls' = Tail(noteCalls)
        /\ UNCHANGED <<noteClock, notes, selectedTag, selectedSlug, selectedNote>>
    BY <1>1, <1>3, <1>5, <2>1, RepliedTypes
  <2>3. NoteTypes'
    BY <1>1, <1>5, <2>2 DEF NoteTypes
  <2>4. ASSUME InOrder' PROVE NoteRight'
    <3>1. /\ c = call /\ noteUnsettled' = noteUnsettled /\ ~noteUnsettled'
          /\ c.do = "list" => found = Tagged(c.tag)'
          /\ c.do # "save" => Tagged(selectedTag)' = Tagged(selectedTag) \ (IF c.do = "delete" THEN {c.slug} ELSE {})
      BY <1>5, <2>4 DEF InOrder
    <3>2. InOrder
      <4>1. noteReplies \in Seq(NoteAnswer)
        BY <1>1 DEF NoteTypes
      <4>2. /\ DOMAIN noteReplies = 1..Len(noteReplies) /\ DOMAIN noteReplies' = 1..(Len(noteReplies) + 1)
            /\ Len(noteReplies) \in Nat /\ \A i \in 1..Len(noteReplies) : noteReplies'[i] = noteReplies[i]
        BY <2>2, <4>1, LongerFacts
      <4>3. \A k \in DOMAIN noteReplies : k \in DOMAIN noteReplies' /\ noteReplies'[k] = noteReplies[k]
        BY <4>2
      <4>4. QED
        BY <2>4, <3>1, <4>3 DEF InOrder
    <3>3. NoteRight
      BY <1>1, <3>2
    <3>4. R.call = noteCalls[1]
      BY <1>3, <2>2, <3>1
    <3>5. R.call.do = "list" => R.found = Tagged(R.call.tag)'
      BY <2>2, <3>1
    <3>6. R.call.do # "save" =>
            Tagged(selectedTag)' = Tagged(selectedTag) \ (IF R.call.do = "delete" THEN {R.call.slug} ELSE {})
      BY <2>2, <3>1
    <3>7. QED
      BY <1>1, <1>3, <2>2, <3>3, <3>4, <3>5, <3>6, ReplyAdded
  <2>5. QED
    BY <1>5, <2>3, <2>4 DEF NoteInv
<1>6. /\ noteGone \subseteq NoteNames /\ noteErrors \in 0..MaxNoteErrors /\ noteUnsettled \in BOOLEAN
      /\ noteSaves \in Seq([second : Nat, title : Titles, name : NoteNames \cup {None}])
      /\ MaxNoteErrors \in Nat
  BY <1>1, NotesAssumption DEF NoteTypes
<1>7. UNCHANGED <<noteFiles, noteSaves, noteGone>> => SavesNamed' /\ NoteKept'
  BY <1>1, FilesStay
<1>8. ASSUME UNCHANGED <<noteFiles, selectedTag>>
      PROVE  Tagged(selectedTag)' = Tagged(selectedTag) /\ \A tag : Tagged(tag)' = Tagged(tag)
  BY <1>8 DEF Tagged
<1>9. \A c, found : Replied(c, found) => UNCHANGED selectedTag
  BY DEF Replied, notePage
<1>10. CASE list_notes(call)
  <2>1. ReadOnly /\ Replied(call, Tagged(call.tag)) /\ call.do = "list"
    BY <1>10 DEF list_notes
  <2>2. UNCHANGED <<noteFiles, noteErrors, noteSaves, noteGone, noteUnsettled>>
    BY <2>1 DEF ReadOnly
  <2>3. Tagged(call.tag) \in SUBSET NoteNames
    BY <1>2 DEF Tagged
  <2>4. Tagged(selectedTag)' = Tagged(selectedTag) /\ Tagged(call.tag)' = Tagged(call.tag)
    BY <1>8, <1>9, <2>1, <2>2
  <2>5. DOMAIN noteFiles' \subseteq NoteNames
    BY <1>2, <2>2
  <2> DEFINE found == Tagged(call.tag)
  <2> HIDE DEF found
  <2>6. /\ found \in SUBSET NoteNames /\ Replied(call, found)
        /\ call.do = "list" => found = Tagged(call.tag)'
        /\ Tagged(selectedTag)' = Tagged(selectedTag) \ (IF call.do = "delete" THEN {call.slug} ELSE {})
    BY <2>1, <2>3, <2>4 DEF found
  <2>7. QED
    BY <1>4, <1>5, <1>6, <1>7, <2>2, <2>5, <2>6
<1>11. CASE get_note_detail(call)
  <2> DEFINE found == {call.slug} \cap DOMAIN noteFiles
  <2>1. ReadOnly /\ Replied(call, found) /\ call.do = "detail"
    BY <1>11 DEF get_note_detail
  <2>2. UNCHANGED <<noteFiles, noteErrors, noteSaves, noteGone, noteUnsettled>>
    BY <2>1 DEF ReadOnly
  <2>3. found \in SUBSET NoteNames
    BY <1>2
  <2>4. Tagged(selectedTag)' = Tagged(selectedTag)
    BY <1>8, <1>9, <2>1, <2>2
  <2>5. DOMAIN noteFiles' \subseteq NoteNames
    BY <1>2, <2>2
  <2> HIDE DEF found
  <2>6. /\ call.do = "list" => found = Tagged(call.tag)'
        /\ Tagged(selectedTag)' = Tagged(selectedTag) \ (IF call.do = "delete" THEN {call.slug} ELSE {})
    BY <2>1, <2>4
  <2>7. QED
    BY <1>4, <1>5, <1>6, <1>7, <2>1, <2>2, <2>3, <2>5, <2>6
<1>12. CASE create_vault_note(call)
  <2>1. call.do = "save" /\ Replied(call, {}) /\ UNCHANGED <<noteGone, noteUnsettled>>
    BY <1>12 DEF create_vault_note
  <2>2. PICK title \in Titles, tag \in Tags : create_note(title, tag)
    BY <1>12 DEF create_vault_note
  <2>3. tag \in Tags \cup {None} /\ noteGone' = noteGone
    BY <2>1
  <2>4. /\ SavesNamed' /\ NoteKept' /\ DOMAIN noteFiles' \subseteq NoteNames
        /\ noteErrors' \in 0..MaxNoteErrors
        /\ noteSaves' \in Seq([second : Nat, title : Titles, name : NoteNames \cup {None}])
    BY <1>1, <2>2, <2>3, WritesKept
  <2>5. {} \in SUBSET NoteNames
    OBVIOUS
  <2>6. QED
    BY <1>4, <1>5, <1>6, <2>1, <2>4, <2>5
<1>13. CASE delete_vault_note(call)
  <2>1. /\ call.do = "delete" /\ Replied(call, {}) /\ UNCHANGED <<noteErrors, noteSaves, noteUnsettled>>
        /\ noteGone' = noteGone \cup {call.slug} /\ call.slug \in NoteNames
    BY <1>4, <1>13 DEF delete_vault_note, OfNote
  <2>2. /\ \A n : n \in DOMAIN noteFiles' <=> n \in DOMAIN noteFiles /\ n # call.slug
        /\ \A n \in DOMAIN noteFiles : n # call.slug => noteFiles'[n] = noteFiles[n]
    BY <1>13 DEF delete_vault_note
  <2>3. DOMAIN noteFiles' \subseteq NoteNames /\ noteGone' \subseteq NoteNames
    BY <1>2, <1>6, <2>1, <2>2
  <2>4. SavesNamed'
    BY <1>1, <2>1 DEF SavesNamed
  <2>5. NoteKept'
    <3>1. ASSUME NEW i \in DOMAIN noteSaves
          PROVE  \/ noteSaves[i].name = None \/ noteSaves[i].name \in noteGone'
                 \/ \E j \in (i + 1)..Len(noteSaves) :
                      noteSaves[j].second = noteSaves[i].second /\ noteSaves[j].title = noteSaves[i].title
                 \/ noteSaves[i].name \in DOMAIN noteFiles' /\ noteFiles'[noteSaves[i].name].id = i
      BY <1>1, <2>1, <2>2, <3>1 DEF NoteKept
    <3>2. QED
      BY <2>1, <3>1 DEF NoteKept
  <2>6. Tagged(selectedTag)' = Tagged(selectedTag) \ (IF call.do = "delete" THEN {call.slug} ELSE {})
    BY <1>9, <2>1, <2>2 DEF Tagged
  <2>7. {} \in SUBSET NoteNames /\ call.do # "list"
    BY <2>1
  <2>8. QED
    BY <1>4, <1>5, <1>6, <2>1, <2>3, <2>4, <2>5, <2>6, <2>7
<1>14. CASE NoteCallFails(call)
  <2> DEFINE c == [call EXCEPT !.do = IF @ = "save" THEN "refused" ELSE @]
  <2>1. /\ noteErrors < MaxNoteErrors /\ noteErrors' = noteErrors + 1 /\ noteUnsettled' = TRUE
        /\ Replied(c, {}) /\ UNCHANGED <<noteFiles, noteSaves, noteGone>>
    BY <1>14 DEF NoteCallFails
  <2>2. c \in NoteRequest /\ OfNote(c)
    BY <1>4 DEF NoteRequest, OfNote
  <2> HIDE DEF c
  <2>3. DOMAIN noteFiles' \subseteq NoteNames /\ noteErrors' \in 0..MaxNoteErrors /\ {} \in SUBSET NoteNames
    BY <1>2, <1>6, <2>1
  <2>4. QED
    BY <1>5, <1>6, <1>7, <2>1, <2>2, <2>3
<1>15. QED
  BY <1>10, <1>11, <1>12, <1>13, <1>14

\* What a reply does to the page.
LEMMA ReplyMoves ==
  ASSUME NoteTypes, NEW k \in DOMAIN noteReplies, NoteReply(k), NEW r, r = noteReplies[k]
  PROVE  /\ r \in NoteAnswer /\ AreCalls(noteCalls') /\ notes' \subseteq NoteNames
         /\ {selectedSlug', selectedNote'} \subseteq NoteNames \cup {None} /\ selectedTag' = selectedTag
         /\ r.call.do # "save" \/ r.call.tag = selectedTag => PageMoves
         /\ r.call.do = "save" => Has(noteCalls', "list")
         /\ notes' = (CASE r.call.do = "list" -> r.found [] r.call.do = "delete" -> notes \ {r.call.slug} [] OTHER -> notes)
         /\ IF r.call.do = "detail" THEN selectedNote' \in {None, r.call.slug} ELSE selectedNote' \in {None, selectedNote}
<1>1. r \in NoteAnswer /\ OfNote(r.call)
  <2>1. noteReplies \in Seq(NoteAnswer) /\ \A j \in DOMAIN noteReplies : OfNote(noteReplies[j].call)
    BY DEF NoteTypes
  <2>2. QED
    BY <2>1, ElementOfSeq, LenProperties
<1>2. /\ r.call \in NoteRequest /\ r.found \in SUBSET NoteNames
      /\ r.call.do \in {"list", "detail", "save", "delete", "refused"}
      /\ r.call.tag \in Tags \cup {None} /\ r.call.had \in SUBSET NoteNames
  BY <1>1 DEF NoteAnswer, NoteRequest
<1>3. \/ r.call.do = "list" /\ NotesListed(r)
      \/ r.call.do = "detail" /\ NoteLoaded(r)
      \/ r.call.do = "delete" /\ NoteDeleted(r)
      \/ r.call.do = "save" /\ NoteSaved(r)
      \/ r.call.do = "refused" /\ UNCHANGED <<notePage, noteCalls>>
  <2>1. CASE r.call.do = "list"
    BY <2>1 DEF NoteReply
  <2>2. CASE r.call.do = "detail"
    BY <2>2 DEF NoteReply
  <2>3. CASE r.call.do = "delete"
    BY <2>3 DEF NoteReply
  <2>4. CASE r.call.do = "save"
    BY <2>4 DEF NoteReply
  <2>5. CASE r.call.do = "refused"
    BY <2>5 DEF NoteReply
  <2>6. QED
    BY <1>2, <2>1, <2>2, <2>3, <2>4, <2>5
<1>4. /\ notes \subseteq NoteNames /\ {selectedSlug, selectedNote} \subseteq NoteNames \cup {None}
      /\ AreCalls(noteCalls) /\ None \in NoteNames \cup {None}
  BY DEF NoteTypes
<1>5. UNCHANGED <<noteCalls, selectedSlug>> => PageMoves
  BY StaysMoves
<1>6. ASSUME NEW slug \in NoteNames \cup {None}, TurnTo(slug)
      PROVE  PageMoves /\ selectedSlug' = slug /\ selectedNote' \in {None, selectedNote}
  BY <1>6, TurnMoves
<1>7. PageMoves => AreCalls(noteCalls')
  BY DEF PageMoves
<1>8. CASE r.call.do = "list" /\ NotesListed(r)
  <2>1. notes' = r.found /\ selectedTag' = selectedTag
    BY <1>8 DEF NotesListed
  <2>2. PageMoves /\ selectedSlug' \in NoteNames \cup {None} /\ selectedNote' \in {None, selectedNote}
    <3>1. CASE UNCHANGED <<selectedSlug, selectedNote, noteCalls>>
      BY <1>4, <1>5, <3>1
    <3>2. CASE \E first \in r.found : TurnTo(first)
      BY <1>2, <1>6, <3>2
    <3>3. QED
      BY <1>8, <3>1, <3>2 DEF NotesListed
  <2>3. QED
    BY <1>1, <1>2, <1>4, <1>7, <1>8, <2>1, <2>2
<1>9. CASE r.call.do = "detail" /\ NoteLoaded(r)
  <2>1. UNCHANGED <<notes, selectedTag, selectedSlug, noteCalls>> /\ selectedNote' \in {None, r.call.slug}
    BY <1>9 DEF NoteLoaded
  <2>2. r.call.slug \in NoteNames
    BY <1>1, <1>9 DEF OfNote
  <2>3. QED
    BY <1>1, <1>4, <1>5, <1>9, <2>1, <2>2
<1>10. CASE r.call.do = "delete" /\ NoteDeleted(r)
  <2>1. notes' = notes \ {r.call.slug} /\ selectedTag' = selectedTag
    BY <1>10 DEF NoteDeleted
  <2>2. PageMoves /\ selectedSlug' \in NoteNames \cup {None} /\ selectedNote' \in {None, selectedNote}
    <3>1. CASE UNCHANGED <<selectedSlug, selectedNote, noteCalls>>
      BY <1>4, <1>5, <3>1
    <3>2. CASE TurnTo(None)
      BY <1>4, <1>6, <3>2
    <3>3. CASE \E first \in r.call.had : TurnTo(first)
      BY <1>2, <1>6, <3>3
    <3>4. QED
      BY <1>10, <3>1, <3>2, <3>3 DEF NoteDeleted
  <2>3. QED
    BY <1>1, <1>4, <1>7, <1>10, <2>1, <2>2
<1>11. CASE r.call.do = "save" /\ NoteSaved(r)
  <2> DEFINE l == [r.call EXCEPT !.do = "list"]
  <2>1. IsLonger(noteCalls', noteCalls, l) /\ UNCHANGED <<notes, selectedTag, selectedSlug, selectedNote>>
    BY <1>11 DEF NoteSaved, IsLonger, notePage
  <2>2. l \in NoteRequest /\ l.do = "list" /\ l.tag = r.call.tag /\ OfNote(l)
    BY <1>2 DEF NoteRequest, OfNote
  <2> HIDE DEF l
  <2>3. l.do # "refused" /\ l.do # "detail" /\ l.do \notin {"refused", "detail"}
    BY <2>2
  <2>4. /\ AreCalls(noteCalls') /\ \A do : Has(noteCalls', do) <=> Has(noteCalls, do) \/ l.do = do
        /\ \A x : (IF l.do = "list" THEN l.tag = x ELSE TagRight(noteCalls, x)) => TagRight(noteCalls', x)
        /\ \A x : (IF l.do = "detail" THEN l.slug = x ELSE SlugRight(noteCalls, x)) => SlugRight(noteCalls', x)
    BY <1>4, <2>1, <2>2, <2>3, CallsLonger
  <2>5. ASSUME r.call.tag = selectedTag PROVE PageMoves
    <3>1. l.do = "list" => l.tag = selectedTag
      BY <2>2, <2>5
    <3>2. QED
      BY <2>1, <2>2, <2>3, <3>1, SendMoves
  <2>6. QED
    BY <1>1, <1>4, <1>11, <2>1, <2>2, <2>4, <2>5
<1>12. CASE r.call.do = "refused" /\ UNCHANGED <<notePage, noteCalls>>
  BY <1>1, <1>4, <1>5, <1>12 DEF notePage
<1>13. QED
  BY <1>3, <1>8, <1>9, <1>10, <1>11, <1>12

\* A reply that comes first, and neither too late nor for another tag: the page is right as
\* soon as the others have come.
LEMMA ReplyTaken ==
  ASSUME NoteTypes, NoteRight, 1 \in DOMAIN noteReplies, NEW r, r = noteReplies[1], r \in NoteAnswer,
         Len(noteReplies') = Len(noteReplies) - 1, DOMAIN noteReplies' = 1..(Len(noteReplies) - 1),
         \A j \in 1..(Len(noteReplies) - 1) : noteReplies'[j] = noteReplies[j + 1],
         UNCHANGED <<noteFiles, selectedTag>>,
         PageMoves, r.call.do = "save" => Has(noteCalls', "list"),
         notes' = (CASE r.call.do = "list" -> r.found [] r.call.do = "delete" -> notes \ {r.call.slug} [] OTHER -> notes),
         IF r.call.do = "detail" THEN selectedNote' \in {None, r.call.slug} ELSE selectedNote' \in {None, selectedNote}
  PROVE  NoteRight'
<1> DEFINE n == Len(noteReplies)
<1>1. noteReplies \in Seq(NoteAnswer) /\ DOMAIN noteReplies = 1..n /\ n \in Nat /\ 1 \in 1..n
  BY LenProperties DEF NoteTypes
<1>2. /\ DOMAIN noteReplies' = 1..(n - 1) /\ Len(noteReplies') = n - 1
      /\ \A j \in 1..(n - 1) : noteReplies'[j] = noteReplies[j + 1]
  OBVIOUS
<1> HIDE DEF n
<1>3. /\ \A j \in DOMAIN noteReplies' : j + 1 \in DOMAIN noteReplies /\ noteReplies'[j] = noteReplies[j + 1]
      /\ \A i \in DOMAIN noteReplies : i = 1 \/ (i - 1 \in DOMAIN noteReplies' /\ noteReplies'[i - 1] = noteReplies[i])
  BY <1>1, <1>2
<1>4. \A dos : \A L \in 0..(n - 1) : NoneAfter(L, dos)' => NoneAfter(L + 1, dos)
  <2>1. ASSUME NEW dos, NEW L \in 0..(n - 1), NoneAfter(L, dos)', NEW i \in DOMAIN noteReplies, i > L + 1
        PROVE  noteReplies[i].call.do \notin dos
    <3>1. i - 1 \in DOMAIN noteReplies' /\ i - 1 > L /\ noteReplies'[i - 1] = noteReplies[i]
      BY <1>1, <1>3, <2>1
    <3>2. QED
      BY <2>1, <3>1 DEF NoneAfter
  <2>2. QED
    BY <2>1 DEF NoneAfter
<1>5. \A dos : NoneAfter(1, dos) /\ r.call.do \notin dos => NoneAfter(0, dos)
  <2>1. \A i \in DOMAIN noteReplies : i = 1 \/ i > 1
    BY <1>1
  <2>2. QED
    BY <2>1 DEF NoneAfter
<1>6. \A L \in 0..(n - 1) : ToGo(L)' = ToGo(L + 1)
  <2>1. ASSUME NEW L \in 0..(n - 1), NEW x \in ToGo(L)' PROVE x \in ToGo(L + 1)
    <3>1. PICK i \in DOMAIN noteReplies' : i > L /\ noteReplies'[i].call.do = "delete" /\ x = noteReplies'[i].call.slug
      BY <2>1 DEF ToGo
    <3>2. i + 1 \in DOMAIN noteReplies /\ noteReplies'[i] = noteReplies[i + 1] /\ i + 1 > L + 1
      BY <1>2, <1>3, <3>1
    <3>3. QED
      BY <3>1, <3>2 DEF ToGo
  <2>2. ASSUME NEW L \in 0..(n - 1), NEW x \in ToGo(L + 1) PROVE x \in ToGo(L)'
    <3>1. PICK i \in DOMAIN noteReplies : i > L + 1 /\ noteReplies[i].call.do = "delete" /\ x = noteReplies[i].call.slug
      BY <2>2 DEF ToGo
    <3>2. i - 1 \in DOMAIN noteReplies' /\ noteReplies'[i - 1] = noteReplies[i] /\ i - 1 > L
      BY <1>1, <1>3, <3>1
    <3>3. QED
      BY <3>1, <3>2 DEF ToGo
  <2>3. QED
    BY <2>1, <2>2
<1>7. ToGo(0) = ToGo(1) \cup (IF r.call.do = "delete" THEN {r.call.slug} ELSE {})
  <2>1. ASSUME NEW x \in ToGo(0) PROVE x \in ToGo(1) \/ (r.call.do = "delete" /\ x = r.call.slug)
    <3>1. PICK i \in DOMAIN noteReplies : i > 0 /\ noteReplies[i].call.do = "delete" /\ x = noteReplies[i].call.slug
      BY <2>1 DEF ToGo
    <3>2. i = 1 \/ i > 1
      BY <1>1, <3>1
    <3>3. QED
      BY <3>1, <3>2 DEF ToGo
  <2>2. ASSUME NEW x \in ToGo(1) PROVE x \in ToGo(0)
    <3>1. PICK i \in DOMAIN noteReplies : i > 1 /\ noteReplies[i].call.do = "delete" /\ x = noteReplies[i].call.slug
      BY <2>2 DEF ToGo
    <3>2. i > 0
      BY <1>1, <3>1
    <3>3. QED
      BY <3>1, <3>2 DEF ToGo
  <2>3. r.call.do = "delete" => r.call.slug \in ToGo(0)
    BY DEF ToGo
  <2>4. QED
    BY <2>1, <2>2, <2>3
<1>8. TagRight(noteCalls', selectedTag')
  BY DEF NoteRight, PageMoves
<1>9. Tagged(selectedTag)' = Tagged(selectedTag)
  BY DEF Tagged
<1>10. ListRight'
  <2>1. SUFFICES ASSUME ~Has(noteCalls', "list"), NEW L \in 0..(n - 1), L # 0 => noteReplies'[L].call.do = "list",
                        NoneAfter(L, {"list", "save"})'
                 PROVE  ListedAt(L)' \ ToGo(L)' = Tagged(selectedTag)
    BY <1>2, <1>9 DEF ListRight
  <2>2. ListRight /\ ~Has(noteCalls, "list") /\ r.call.do # "save"
    BY <2>1 DEF NoteRight, PageMoves
  <2>3. NoneAfter(L + 1, {"list", "save"}) /\ ToGo(L)' = ToGo(L + 1)
    BY <1>4, <1>6, <2>1
  <2>4. CASE L # 0
    <3>1. /\ L + 1 \in 0..Len(noteReplies) /\ L + 1 # 0 /\ L \in 1..(n - 1)
          /\ noteReplies[L + 1].call.do = "list" /\ noteReplies'[L] = noteReplies[L + 1]
      BY <1>1, <1>2, <2>1, <2>4 DEF n
    <3>2. ListedAt(L + 1) \ ToGo(L + 1) = Tagged(selectedTag)
      BY <2>2, <2>3, <3>1 DEF ListRight
    <3>3. ListedAt(L)' = ListedAt(L + 1)
      BY <2>4, <3>1 DEF ListedAt
    <3>4. QED
      BY <2>3, <3>2, <3>3
  <2>5. CASE L = 0
    <3>1. /\ ListedAt(L)' = notes' /\ ToGo(L)' = ToGo(1) /\ NoneAfter(1, {"list", "save"}) /\ 1 \in 0..Len(noteReplies)
          /\ 0 \in 0..Len(noteReplies)
      BY <1>1, <2>3, <2>5 DEF ListedAt, n
    <3>2. CASE r.call.do = "list"
      <4>1. ListedAt(1) \ ToGo(1) = Tagged(selectedTag) /\ ListedAt(1) = r.found
        BY <2>2, <3>1, <3>2 DEF ListRight, ListedAt
      <4>2. notes' = r.found
        BY <3>2
      <4>3. QED
        BY <3>1, <4>1, <4>2
    <3>3. CASE r.call.do # "list"
      <4>1. NoneAfter(0, {"list", "save"})
        BY <1>5, <2>2, <3>1, <3>3
      <4>2. notes \ ToGo(0) = Tagged(selectedTag)
        BY <2>2, <3>1, <4>1 DEF ListRight, ListedAt
      <4>3. notes' = notes \ (IF r.call.do = "delete" THEN {r.call.slug} ELSE {})
        BY <3>3
      <4>4. QED
        BY <1>7, <3>1, <4>2, <4>3
    <3>4. QED
      BY <3>2, <3>3
  <2>6. QED
    BY <2>4, <2>5
<1>11. ASSUME selectedSlug' # None PROVE SlugRight(noteCalls', selectedSlug') /\ ShownRight'
  <2>1. SlugRight(noteCalls', selectedSlug')
    BY <1>11 DEF NoteRight, PageMoves
  <2>2. ASSUME ~Has(noteCalls', "detail") PROVE selectedSlug' = selectedSlug /\ ~Has(noteCalls, "detail") /\ ShownRight
    BY <1>11, <2>2 DEF NoteRight, PageMoves
  <2>3. ASSUME ~Has(noteCalls', "detail"), NEW L \in DOMAIN noteReplies', noteReplies'[L].call.do = "detail",
               NoneAfter(L, {"detail"})'
        PROVE  noteReplies'[L].call.slug = selectedSlug'
    <3>1. L + 1 \in DOMAIN noteReplies /\ noteReplies'[L] = noteReplies[L + 1] /\ L \in 0..(n - 1)
      BY <1>1, <1>2, <1>3
    <3>2. NoneAfter(L + 1, {"detail"})
      BY <1>4, <2>3, <3>1
    <3>3. QED
      BY <2>2, <2>3, <3>1, <3>2 DEF ShownRight
  <2>4. ASSUME ~Has(noteCalls', "detail"), NoneAfter(0, {"detail"})', selectedNote' # None
        PROVE  selectedNote' = selectedSlug'
    <3>1. NoneAfter(1, {"detail"})
      <4>1. 0 \in 0..(n - 1) /\ 0 + 1 = 1
        BY <1>1
      <4>2. QED
        BY <1>4, <2>4, <4>1
    <3>2. CASE r.call.do = "detail"
      <4>1. r.call.slug = selectedSlug
        BY <2>2, <2>4, <3>1, <3>2 DEF ShownRight
      <4>2. selectedNote' = r.call.slug
        BY <2>4, <3>2
      <4>3. QED
        BY <2>2, <2>4, <4>1, <4>2
    <3>3. CASE r.call.do # "detail"
      <4>1. NoneAfter(0, {"detail"})
        BY <1>5, <3>1, <3>3
      <4>2. selectedNote' = selectedNote
        BY <2>4, <3>3
      <4>3. QED
        BY <2>2, <2>4, <4>1, <4>2 DEF ShownRight
    <3>4. QED
      BY <3>2, <3>3
  <2>5. QED
    BY <2>1, <2>3, <2>4 DEF ShownRight
<1>12. QED
  BY <1>8, <1>10, <1>11 DEF NoteRight

LEMMA NotesReplied ==
  ASSUME NoteInv, NEW k \in DOMAIN noteReplies, NoteReply(k)
  PROVE  NoteInv'
<1> DEFINE r == noteReplies[k]
           b == [j \in 1..(k - 1) |-> [noteReplies[j] EXCEPT !.late = TRUE]]
<1>1. NoteTypes /\ SavesNamed /\ NoteKept /\ (InOrder => NoteRight)
  BY DEF NoteInv
<1>2. /\ IsSpliced(noteReplies', b, noteReplies, k)
      /\ noteUnsettled' = (noteUnsettled \/ r.late \/ (r.call.do = "save" /\ r.call.tag # selectedTag))
      /\ UNCHANGED <<noteFiles, noteClock, noteErrors, noteSaves, noteGone>>
  BY DEF NoteReply, IsSpliced
<1>3. /\ noteReplies \in Seq(NoteAnswer) /\ DOMAIN noteReplies = 1..Len(noteReplies) /\ Len(noteReplies) \in Nat
      /\ \A j \in DOMAIN noteReplies : OfNote(noteReplies[j].call) /\ noteReplies[j] \in NoteAnswer
      /\ k \in 1..Len(noteReplies)
  BY <1>1, LenProperties, ElementOfSeq DEF NoteTypes
<1>4. r = noteReplies[k]
  OBVIOUS
<1> HIDE DEF r
<1>5. /\ r \in NoteAnswer /\ AreCalls(noteCalls') /\ notes' \subseteq NoteNames
      /\ {selectedSlug', selectedNote'} \subseteq NoteNames \cup {None} /\ selectedTag' = selectedTag
      /\ r.call.do # "save" \/ r.call.tag = selectedTag => PageMoves
      /\ r.call.do = "save" => Has(noteCalls', "list")
      /\ notes' = (CASE r.call.do = "list" -> r.found [] r.call.do = "delete" -> notes \ {r.call.slug} [] OTHER -> notes)
      /\ IF r.call.do = "detail" THEN selectedNote' \in {None, r.call.slug} ELSE selectedNote' \in {None, selectedNote}
  BY <1>1, <1>4, ReplyMoves
<1>6. /\ DOMAIN b = 1..(k - 1) /\ b \in Seq(NoteAnswer) /\ Len(b) = k - 1
      /\ \A j \in 1..(k - 1) : b[j].late = TRUE /\ OfNote(b[j].call)
  <2>1. \A j \in 1..(k - 1) : b[j] \in NoteAnswer /\ b[j].late = TRUE /\ b[j].call = noteReplies[j].call
    <3>1. ASSUME NEW j \in 1..(k - 1)
          PROVE  b[j] \in NoteAnswer /\ b[j].late = TRUE /\ b[j].call = noteReplies[j].call
      <4>1. b[j] = [noteReplies[j] EXCEPT !.late = TRUE]
        OBVIOUS
      <4>2. noteReplies[j] \in NoteAnswer
        BY <1>3, <3>1
      <4>3. QED
        BY <4>1, <4>2 DEF NoteAnswer
    <3>2. QED
      BY <3>1
  <2>2. DOMAIN b = 1..(k - 1) /\ k - 1 \in Nat
    BY <1>3
  <2> HIDE DEF b
  <2>3. \A j \in 1..(k - 1) : OfNote(b[j].call)
    BY <1>3, <2>1
  <2>4. b \in Seq(NoteAnswer)
    <3>1. b \in [1..(k - 1) -> NoteAnswer]
      <4>1. b = [j \in 1..(k - 1) |-> b[j]]
        BY DEF b
      <4>2. QED
        BY <2>1, <4>1
    <3>2. QED
      BY <2>2, <3>1, SeqDef
  <2>5. Len(b) = k - 1
    BY <2>2, <2>4, LenProperties
  <2>6. QED
    BY <2>1, <2>2, <2>3, <2>4, <2>5
<1> HIDE DEF b
<1>7. /\ noteReplies' \in Seq(NoteAnswer) /\ DOMAIN noteReplies' = 1..(Len(noteReplies) - 1)
      /\ \A j \in 1..(k - 1) : noteReplies'[j] = b[j]
      /\ \A j \in k..(Len(noteReplies) - 1) : noteReplies'[j] = noteReplies[j + 1]
  BY <1>2, <1>3, <1>6, Spliced
<1>8. \A j \in DOMAIN noteReplies' :
        \/ j \in 1..(k - 1) /\ noteReplies'[j] = b[j]
        \/ j + 1 \in DOMAIN noteReplies /\ noteReplies'[j] = noteReplies[j + 1]
  BY <1>3, <1>7
<1>9. \A j \in DOMAIN noteReplies' : OfNote(noteReplies'[j].call)
  BY <1>3, <1>6, <1>8
<1>10. noteUnsettled' \in BOOLEAN
  BY <1>2
<1>11. NoteTypes'
  BY <1>1, <1>2, <1>5, <1>7, <1>9, <1>10 DEF NoteTypes
<1>12. SavesNamed' /\ NoteKept'
  BY <1>1, <1>2, FilesStay
<1>13. ASSUME InOrder' PROVE NoteRight'
  <2>1. ~noteUnsettled /\ ~r.late /\ (r.call.do = "save" => r.call.tag = selectedTag)
    BY <1>2, <1>13 DEF InOrder
  <2>2. k = 1
    <3>1. ASSUME k # 1 PROVE FALSE
      <4>1. 1 \in 1..(k - 1) /\ 1 \in DOMAIN noteReplies'
        BY <1>3, <1>7, <3>1
      <4>2. noteReplies'[1].late = TRUE
        BY <1>6, <1>7, <4>1
      <4>3. QED
        BY <1>13, <4>1, <4>2 DEF InOrder
    <3>2. QED
      BY <3>1
  <2>3. InOrder
    <3>1. ASSUME NEW j \in DOMAIN noteReplies PROVE ~noteReplies[j].late
      <4>1. CASE j = 1
        BY <1>4, <2>1, <2>2, <4>1
      <4>2. CASE j # 1
        <5>1. j - 1 \in DOMAIN noteReplies' /\ j - 1 \in k..(Len(noteReplies) - 1) /\ j - 1 + 1 = j
          BY <1>3, <1>7, <2>2, <4>2
        <5>2. noteReplies'[j - 1] = noteReplies[j]
          BY <1>7, <5>1
        <5>3. QED
          BY <1>13, <5>1, <5>2 DEF InOrder
      <4>3. QED
        BY <4>1, <4>2
    <3>2. QED
      BY <2>1, <3>1 DEF InOrder
  <2>4. /\ Len(noteReplies') = Len(noteReplies) - 1 /\ DOMAIN noteReplies' = 1..(Len(noteReplies) - 1)
        /\ \A j \in 1..(Len(noteReplies) - 1) : noteReplies'[j] = noteReplies[j + 1]
    <3>1. noteReplies' \in Seq(NoteAnswer) /\ DOMAIN noteReplies' = 1..(Len(noteReplies) - 1)
      BY <1>7
    <3>2. Len(noteReplies') \in Nat /\ DOMAIN noteReplies' = 1..Len(noteReplies')
      BY <3>1, LenProperties
    <3>3. Len(noteReplies) - 1 \in Nat
      BY <1>3
    <3>4. Len(noteReplies') = Len(noteReplies) - 1
      BY <3>1, <3>2, <3>3
    <3>5. QED
      BY <1>7, <2>2, <3>4
  <2>5. NoteRight /\ 1 \in DOMAIN noteReplies /\ r = noteReplies[1] /\ PageMoves
    BY <1>1, <1>4, <1>5, <2>1, <2>2, <2>3
  <2>6. UNCHANGED <<noteFiles, selectedTag>>
    BY <1>2, <1>5
  <2>7. QED
    BY <1>1, <1>5, <2>4, <2>5, <2>6, ReplyTaken
<1>14. QED
  BY <1>11, <1>12, <1>13 DEF NoteInv

LEMMA NotesStep == NoteInv /\ [LensNotesNext]_noteVars => NoteInv'
<1>1. SUFFICES ASSUME NoteInv, [LensNotesNext]_noteVars PROVE NoteInv'
  OBVIOUS
<1>2. CASE Tick \/ handleSaveToVault \/ fetchNotes
           \/ \E slug \in notes : SelectNote(slug) \/ handleDeleteNote(slug)
  BY <1>1, <1>2, UserActs
<1>3. CASE \E title \in Titles, tag \in Tags \cup {None} : AgentNote(title, tag)
  BY <1>1, <1>3, AgentWrites
<1>4. CASE \E tag \in Tags \cup {None} : SelectTag(tag)
  BY <1>1, <1>4, TagSelected
<1>5. CASE \E call \in Elements(First(1, noteCalls)) :
             \/ list_notes(call) \/ get_note_detail(call)
             \/ create_vault_note(call) \/ delete_vault_note(call) \/ NoteCallFails(call)
  BY <1>1, <1>5, NotesServed
<1>6. CASE \E k \in DOMAIN noteReplies : NoteReply(k)
  BY <1>1, <1>6, NotesReplied
<1>7. CASE UNCHANGED noteVars
  BY <1>1, <1>7 DEF noteVars, notePage, NoteInv, NoteTypes, SavesNamed, NoteKept, InOrder, NoteRight, ListRight,
     ShownRight, NoneAfter, ToGo, ListedAt, Tagged
<1>8. QED
  BY <1>1, <1>2, <1>3, <1>4, <1>5, <1>6, <1>7 DEF LensNotesNext

LEMMA NotesShow == NoteInv => LensNotesTypeOK /\ NoteKept /\ TagIsListed /\ ShownIsSelected
<1>1. SUFFICES ASSUME NoteInv PROVE LensNotesTypeOK /\ NoteKept /\ TagIsListed /\ ShownIsSelected
  OBVIOUS
<1>2. NoteTypes /\ NoteKept /\ (InOrder => NoteRight)
  BY <1>1 DEF NoteInv
<1>3. LensNotesTypeOK
  <2>1. \A call \in Elements(noteCalls) : call.do \in {"list", "detail", "save", "delete"}
    <3>1. ASSUME NEW c \in DOMAIN noteCalls PROVE noteCalls[c].do \in {"list", "detail", "save", "delete"}
      <4>1. noteCalls[c] \in NoteRequest /\ noteCalls[c].do # "refused"
        BY <1>2, <3>1, ElementOfSeq, LenProperties DEF NoteTypes, AreCalls
      <4>2. QED
        BY <4>1 DEF NoteRequest
    <3>2. QED
      BY <3>1 DEF Elements
  <2>2. QED
    BY <1>2, <2>1 DEF NoteTypes, LensNotesTypeOK
<1>4. ASSUME NotesAtRest PROVE NoteRight /\ ~Has(noteCalls, "list") /\ ~Has(noteCalls, "detail")
                               /\ DOMAIN noteReplies = {} /\ Len(noteReplies) = 0
  <2>1. noteCalls = <<>> /\ noteReplies = <<>> /\ ~noteUnsettled
    BY <1>4 DEF NotesAtRest
  <2>2. DOMAIN noteCalls = {} /\ DOMAIN noteReplies = {} /\ Len(noteReplies) = 0
    BY <2>1
  <2>3. QED
    BY <1>2, <2>1, <2>2 DEF InOrder, Has
<1>5. ASSUME NotesAtRest PROVE notes = Tagged(selectedTag)
  <2>1. ListedAt(0) = notes /\ ToGo(0) = {} /\ NoneAfter(0, {"list", "save"}) /\ 0 \in 0..Len(noteReplies)
    BY <1>4, <1>5 DEF ListedAt, ToGo, NoneAfter
  <2>2. ListedAt(0) \ ToGo(0) = Tagged(selectedTag)
    BY <1>4, <1>5, <2>1 DEF NoteRight, ListRight
  <2>3. QED
    BY <2>1, <2>2
<1>6. ASSUME NotesAtRest, selectedNote # None, selectedSlug # None PROVE selectedNote = selectedSlug
  BY <1>4, <1>6 DEF NoteRight, ShownRight, NoneAfter
<1>7. QED
  BY <1>2, <1>3, <1>5, <1>6 DEF TagIsListed, ShownIsSelected

\* A note reported as written is there until it is deleted or its name is written once more
\* in the same second (create_note); and when no call is under way the page lists the notes
\* of the selected tag and shows the one that is selected, in whatever order the calls of
\* Notes.tsx were made and answered.
THEOREM NotesStaySound ==
  LensNotesSpec => [](LensNotesTypeOK /\ NoteKept /\ TagIsListed /\ ShownIsSelected)
<1>1. LensNotesInit => NoteInv
  BY NotesBegin
<1>2. NoteInv /\ [LensNotesNext]_noteVars => NoteInv'
  BY NotesStep
<1>3. QED
  BY <1>1, <1>2, NotesShow, PTL DEF LensNotesSpec

------------------------------------------------------------------------------
(* The page of the local tools. *)

\* Newer entries come later.
Rising(s) == \A i, j \in DOMAIN s : i < j => s[i].id < s[j].id

LEMMA OnlyRises ==
  ASSUME NEW T, \A x \in T : x.id \in Nat, NEW s \in Seq(T), Rising(s), NEW S
  PROVE  Rising(Only(s, S))
<1> DEFINE t == Only(s, S)
           n == Len(t)
<1>1. /\ t \in Seq(T) /\ n \in Nat /\ DOMAIN t = 1..n
      /\ \E p : /\ p \in [1..n -> DOMAIN s] /\ \A i, j \in 1..n : i < j => p[i] < p[j]
                /\ \A k \in 1..n : t[k] = s[p[k]]
  BY OnlyFacts, LenProperties
<1> HIDE DEF t, n
<1>2. PICK p : /\ p \in [1..n -> DOMAIN s] /\ \A i, j \in 1..n : i < j => p[i] < p[j]
               /\ \A k \in 1..n : t[k] = s[p[k]]
  BY <1>1
<1>3. Rising(t)
  BY <1>1, <1>2 DEF Rising
<1>4. QED
  BY <1>3 DEF t

\* The first m of a listing have m ids.
Apart(r, m) == \A i, j \in 1..m : r[i].id = r[j].id => i = j
IdsOf(S, r, m) == \A n : n \in S <=> \E i \in 1..m : n = r[i].id

LEMMA IdsCounted ==
  ASSUME NEW r, NEW m \in Nat, Apart(r, m), NEW S, IdsOf(S, r, m)
  PROVE  IsFiniteSet(S) /\ Cardinality(S) = m
<1> DEFINE f == [i \in 1..m |-> r[i].id]
<1>1. f \in [1..m -> S] /\ \A n \in S : \E i \in 1..m : f[i] = n
  BY DEF IdsOf
<1>2. \A i, j \in 1..m : f[i] = f[j] => i = j
  BY DEF Apart
<1>3. f \in Surjection(1..m, S)
  BY <1>1 DEF Surjection
<1>4. f \in Injection(1..m, S)
  BY <1>1, <1>2 DEF Injection, IsInjective
<1>5. IsFiniteSet(1..m) /\ Cardinality(1..m) = m
  <2>1. 1 \in Int /\ m \in Int
    OBVIOUS
  <2>2. IsFiniteSet(1..m) /\ Cardinality(1..m) = IF 1 > m THEN 0 ELSE m - 1 + 1
    BY <2>1, FS_Interval
  <2>3. QED
    BY <2>2
<1> HIDE DEF f
<1>6. IsFiniteSet(S) /\ (Cardinality(S) = Cardinality(1..m) <=> f \in Injection(1..m, S))
  BY <1>3, <1>5, FS_Surjection
<1>7. QED
  BY <1>4, <1>5, <1>6

FeedEntry == [id : Nat \ {0}, kind : ToolKinds, status : {"running", "success", "failed"}]

\* Of the entries that match the newest, as many as asked for.
IsNewest(g, f) ==
  /\ g \in Seq(FeedEntry) /\ Len(g) <= FeedLimit
  /\ \A i, j \in DOMAIN g : g[i].id = g[j].id => i = j
  /\ \A i \in DOMAIN g : \E j \in DOMAIN ledger : g[i] = ledger[j] /\ Matches(ledger[j], f)
  /\ \A j \in DOMAIN ledger : Matches(ledger[j], f) =>
       \/ \E i \in DOMAIN g : g[i] = ledger[j]
       \/ \A S : (\A n : n \in S <=> \E i \in DOMAIN g : n = g[i].id /\ n > ledger[j].id)
                 => Cardinality(S) >= FeedLimit
  /\ \A S : \A i \in DOMAIN g :
       (\A n \in S : n > g[i].id /\ \E j \in DOMAIN ledger : n = ledger[j].id /\ Matches(ledger[j], f))
       => Cardinality(S) < FeedLimit

LEMMA NewestListed ==
  ASSUME ledger \in Seq(FeedEntry), Rising(ledger), NEW f, NEW g, g = get_events(f, FeedLimit)
  PROVE  IsNewest(g, f)
<1> DEFINE M == {e \in Elements(ledger) : Matches(e, f)}
           o == Only(ledger, M)
           r == Reverse(o)
           n == Len(o)
           m == Least(FeedLimit, n)
<1>1. FeedLimit \in Nat \ {0}
  BY LensFeedAssumption
<1>2. \A x \in FeedEntry : x.id \in Nat
  BY DEF FeedEntry
<1>3. g = First(FeedLimit, r)
  BY DEF get_events
<1>4. o \in Seq(FeedEntry) /\ Elements(o) = Elements(ledger) \cap M /\ Rising(o)
  BY <1>2, OnlyFacts, OnlyRises
<1>5. \A x : (\E i \in DOMAIN o : o[i] = x) <=> \E j \in DOMAIN ledger : x = ledger[j] /\ Matches(ledger[j], f)
  <2>1. Elements(o) = M
    BY <1>4
  <2>2. \A x : x \in M <=> \E j \in DOMAIN ledger : x = ledger[j] /\ Matches(ledger[j], f)
    BY DEF Elements
  <2>3. QED
    BY <2>1, <2>2 DEF Elements
<1> HIDE DEF o, M
<1>6. n \in Nat /\ DOMAIN o = 1..n /\ \A i \in 1..n : o[i] \in FeedEntry
  BY <1>4, LenProperties, ElementOfSeq
<1> HIDE DEF n
<1>7. /\ r = [i \in 1..n |-> o[(n - i) + 1]]
      /\ \A i \in 1..n : (n - i) + 1 \in 1..n
  BY <1>6 DEF Reverse, n
<1> HIDE DEF r
<1>8. r \in [1..n -> FeedEntry] /\ \A i \in 1..n : r[i] = o[(n - i) + 1]
  BY <1>6, <1>7
<1>9. r \in Seq(FeedEntry) /\ Len(r) = n /\ DOMAIN r = 1..n
  <2>1. r \in Seq(FeedEntry)
    BY <1>6, <1>8, SeqDef
  <2>2. DOMAIN r = 1..n
    BY <1>8
  <2>3. QED
    BY <1>6, <2>1, <2>2, LenProperties
<1>10. \A i, j \in 1..n : i < j => r[i].id > r[j].id
  <2>1. ASSUME NEW i \in 1..n, NEW j \in 1..n, i < j PROVE r[i].id > r[j].id
    <3>1. (n - j) + 1 \in 1..n /\ (n - i) + 1 \in 1..n /\ (n - j) + 1 < (n - i) + 1
      BY <1>6, <2>1
    <3>2. o[(n - j) + 1].id < o[(n - i) + 1].id
      BY <1>4, <1>6, <3>1 DEF Rising
    <3>3. o[(n - j) + 1].id \in Nat /\ o[(n - i) + 1].id \in Nat
      BY <1>2, <1>6, <3>1
    <3>4. QED
      BY <1>8, <3>2, <3>3
  <2>2. QED
    BY <2>1
<1>11. \A x : (\E i \in 1..n : r[i] = x) <=> \E j \in DOMAIN ledger : x = ledger[j] /\ Matches(ledger[j], f)
  <2>1. \A i \in 1..n : r[i] = o[(n - i) + 1] /\ (n - i) + 1 \in 1..n
    BY <1>7, <1>8
  <2>2. \A i \in 1..n : o[i] = r[(n - i) + 1] /\ (n - i) + 1 \in 1..n
    <3>1. ASSUME NEW i \in 1..n PROVE o[i] = r[(n - i) + 1] /\ (n - i) + 1 \in 1..n
      <4>1. (n - i) + 1 \in 1..n /\ (n - ((n - i) + 1)) + 1 = i
        BY <1>6
      <4>2. r[(n - i) + 1] = o[(n - ((n - i) + 1)) + 1]
        BY <1>8, <4>1
      <4>3. QED
        BY <4>1, <4>2, Zenon
    <3>2. QED
      BY <3>1
  <2>3. ASSUME NEW x PROVE (\E i \in 1..n : r[i] = x) <=> \E i \in 1..n : o[i] = x
    <3>1. ASSUME NEW i \in 1..n, r[i] = x PROVE \E a \in 1..n : o[a] = x
      BY <2>1, <3>1
    <3>2. ASSUME NEW i \in 1..n, o[i] = x PROVE \E a \in 1..n : r[a] = x
      BY <2>2, <3>2
    <3>3. QED
      BY <3>1, <3>2
  <2>4. QED
    BY <1>5, <1>6, <2>3
<1>12. g \in Seq(FeedEntry) /\ Len(g) = m /\ DOMAIN g = 1..m /\ \A i \in 1..m : g[i] = r[i]
  <2>1. FeedLimit \in Nat /\ IsStart(g, FeedLimit, r) /\ r \in Seq(FeedEntry)
    BY <1>1, <1>3, <1>9 DEF IsStart
  <2>2. /\ g \in Seq(FeedEntry) /\ Len(g) = Least(FeedLimit, Len(r)) /\ DOMAIN g = 1..Least(FeedLimit, Len(r))
        /\ \A i \in 1..Least(FeedLimit, Len(r)) : g[i] = r[i]
    BY <2>1, FirstFacts
  <2>3. QED
    BY <1>9, <2>2, Zenon
<1>13. m \in Nat /\ m <= n /\ m <= FeedLimit /\ (m < n => m = FeedLimit)
  BY <1>1, <1>6 DEF Least
<1> HIDE DEF m
<1>14. /\ 1..m \subseteq 1..n /\ \A i \in 1..n : r[i].id \in Nat
       /\ \A i, j \in 1..m : i < j => g[i].id > g[j].id
  <2>1. 1..m \subseteq 1..n
    BY <1>6, <1>13
  <2>2. \A i \in 1..n : r[i] \in FeedEntry
    BY <1>8
  <2>3. \A i \in 1..n : r[i].id \in Nat
    BY <1>2, <2>2
  <2>4. QED
    BY <1>10, <1>12, <2>1, <2>3
<1>15. \A i, j \in DOMAIN g : g[i].id = g[j].id => i = j
  <2>1. \A i, j \in 1..m : i = j \/ i < j \/ j < i
    BY <1>13
  <2>2. \A i \in 1..m : g[i].id \in Nat
    BY <1>12, <1>14
  <2>3. QED
    BY <1>12, <1>14, <2>1, <2>2
<1>16. \A i \in DOMAIN g : \E j \in DOMAIN ledger : g[i] = ledger[j] /\ Matches(ledger[j], f)
  BY <1>11, <1>12, <1>14
<1>17. ASSUME NEW j \in DOMAIN ledger, Matches(ledger[j], f), ~\E i \in DOMAIN g : g[i] = ledger[j],
              NEW S, \A x : x \in S <=> \E i \in DOMAIN g : x = g[i].id /\ x > ledger[j].id
       PROVE  Cardinality(S) >= FeedLimit
  <2>1. PICK k \in 1..n : r[k] = ledger[j]
    BY <1>11, <1>17
  <2>2. k \notin 1..m
    BY <1>12, <1>17, <2>1
  <2>3. m = FeedLimit /\ \A i \in 1..m : i < k
    BY <1>6, <1>13, <2>1, <2>2
  <2>4. \A i \in 1..m : g[i].id > ledger[j].id
    BY <1>10, <1>12, <1>14, <2>1, <2>3
  <2>5. IdsOf(S, g, m)
    BY <1>12, <1>17, <2>4 DEF IdsOf
  <2>6. Apart(g, m)
    BY <1>12, <1>15 DEF Apart
  <2>7. Cardinality(S) = m
    BY <1>13, <2>5, <2>6, IdsCounted
  <2>8. QED
    BY <1>1, <2>3, <2>7
<1>18. ASSUME NEW k \in DOMAIN g, NEW S,
              \A x \in S : x > g[k].id /\ \E j \in DOMAIN ledger : x = ledger[j].id /\ Matches(ledger[j], f)
       PROVE  Cardinality(S) < FeedLimit
  <2> DEFINE N == {g[i].id : i \in 1..(k - 1)}
  <2>1. k \in 1..m /\ k \in Nat /\ k - 1 \in Nat /\ 1..(k - 1) \subseteq 1..m
    BY <1>12, <1>13
  <2>2. \A x \in S : x \in N
    <3>1. ASSUME NEW x \in S PROVE x \in N
      <4>1. PICK j \in DOMAIN ledger : x = ledger[j].id /\ Matches(ledger[j], f) /\ x > g[k].id
        BY <1>18, <3>1
      <4>2. PICK i \in 1..n : r[i] = ledger[j]
        BY <1>11, <4>1
      <4>3. r[i].id > r[k].id /\ r[i].id \in Nat /\ r[k].id \in Nat /\ k \in 1..n
        BY <1>12, <1>14, <2>1, <4>1, <4>2
      <4>4. i < k
        <5>1. ASSUME ~(i < k) PROVE FALSE
          <6>1. i = k \/ k < i
            BY <1>6, <2>1, <5>1
          <6>2. QED
            BY <1>10, <4>3, <6>1
        <5>2. QED
          BY <5>1
      <4>5. i \in 1..(k - 1) /\ g[i] = r[i]
        BY <1>6, <1>12, <2>1, <4>4
      <4>6. QED
        BY <4>1, <4>2, <4>5
    <3>2. QED
      BY <3>1
  <2>3. IdsOf(N, g, k - 1)
    BY DEF IdsOf
  <2> HIDE DEF N
  <2>4. Apart(g, k - 1)
    BY <1>12, <1>15, <2>1 DEF Apart
  <2>5. IsFiniteSet(N) /\ Cardinality(N) = k - 1
    BY <2>1, <2>3, <2>4, IdsCounted
  <2>6. IsFiniteSet(S) /\ Cardinality(S) <= Cardinality(N)
    <3>1. S \in SUBSET N
      BY <2>2
    <3>2. QED
      BY <2>5, <3>1, FS_Subset
  <2>7. Cardinality(S) \in Nat
    BY <2>6, FS_CardinalityType
  <2>8. QED
    BY <1>1, <1>13, <2>1, <2>5, <2>6, <2>7
<1>19. Len(g) <= FeedLimit
  BY <1>12, <1>13
<1>20. QED
  BY <1>12, <1>15, <1>16, <1>17, <1>18, <1>19 DEF IsNewest

FeedRequest ==
  [do : {"list", "clear"}, filter : FeedFilters, pc : {"sent", "served"}, list : Seq(FeedEntry),
   knows : Nat, over : BOOLEAN]

\* The events on their way, and whether one of those after the first c is of a run.
Events == IF stream = {} THEN <<>> ELSE CHOOSE q \in stream : TRUE
Touched(q, id, c) == \E j \in DOMAIN q : j > c /\ q[j].id = id

\* Not cleared: in the ledger, or driven out of a full one.
Kept(id, led, runs) == id > runs - Len(led) \/ Len(led) = FeedKeep

LedgerRight ==
  /\ ledger \in Seq(FeedEntry) /\ toolRuns \in Nat /\ Len(ledger) <= toolRuns /\ Len(ledger) <= FeedKeep
  /\ \A j \in DOMAIN ledger : ledger[j].id = toolRuns - Len(ledger) + j

EventsRight ==
  /\ \/ stream = {} \/ \E q \in Seq(FeedEntry) : stream = {q}
  /\ stale \in 0..Len(Events)
  /\ \A j \in DOMAIN Events :
       /\ Events[j].id <= toolRuns /\ (j > stale => Kept(Events[j].id, ledger, toolRuns))
       /\ \A i \in DOMAIN ledger :
            ledger[i].id = Events[j].id /\ ~Touched(Events, ledger[i].id, j) => Events[j] = ledger[i]

IsPage(page, runs) ==
  /\ page \in Seq(FeedEntry) /\ Len(page) <= FeedCap /\ \A i \in DOMAIN page : page[i].id <= runs
  /\ \A i, j \in DOMAIN page : page[i].id = page[j].id => i = j

NewerSeen(page, f, id) == {n \in Seen(page, f) : n > id}

\* A page that knows the first c of the events q, beside a ledger.
Right(page, c, f, q, led, runs) ==
  /\ \A i \in DOMAIN page : Kept(page[i].id, led, runs)
  /\ \A j \in DOMAIN led : ~Touched(q, led[j].id, c) =>
       /\ \A i \in DOMAIN page : page[i].id = led[j].id => page[i] = led[j]
       /\ Matches(led[j], f) =>
            \/ led[j].id \in Seen(page, f)
            \/ Cardinality(NewerSeen(page, f, led[j].id)) >= FeedLimit

LEMMA SeenFinite ==
  ASSUME NEW page, NEW runs \in Nat, IsPage(page, runs), NEW f
  PROVE  /\ Seen(page, f) \subseteq 1..runs /\ IsFiniteSet(Seen(page, f)) /\ Cardinality(Seen(page, f)) \in Nat
         /\ \A S \in SUBSET Seen(page, f) :
              IsFiniteSet(S) /\ Cardinality(S) \in Nat /\ Cardinality(S) <= Cardinality(Seen(page, f))
<1>1. \A i \in DOMAIN page : page[i].id \in 1..runs
  <2>1. ASSUME NEW i \in DOMAIN page PROVE page[i].id \in 1..runs
    <3>1. page[i] \in FeedEntry /\ page[i].id <= runs
      BY <2>1, ElementOfSeq, LenProperties DEF IsPage
    <3>2. QED
      BY <3>1 DEF FeedEntry
  <2>2. QED
    BY <2>1
<1>2. Seen(page, f) \in SUBSET (1..runs)
  BY <1>1 DEF Seen
<1>3. IsFiniteSet(1..runs)
  <2>1. 1 \in Int /\ runs \in Int
    OBVIOUS
  <2>2. QED
    BY <2>1, FS_Interval
<1>4. IsFiniteSet(Seen(page, f))
  BY <1>2, <1>3, FS_Subset
<1>5. ASSUME NEW S \in SUBSET Seen(page, f)
      PROVE  IsFiniteSet(S) /\ Cardinality(S) \in Nat /\ Cardinality(S) <= Cardinality(Seen(page, f))
  <2>1. IsFiniteSet(S) /\ Cardinality(S) <= Cardinality(Seen(page, f))
    BY <1>4, FS_Subset
  <2>2. QED
    BY <2>1, FS_CardinalityType
<1>6. QED
  BY <1>2, <1>4, <1>5, FS_CardinalityType

LEMMA FewerSeen ==
  ASSUME NEW page, NEW runs \in Nat, IsPage(page, runs), NEW f, NEW S \in SUBSET Seen(page, f), NEW R \in SUBSET S
  PROVE  Cardinality(R) \in Nat /\ Cardinality(S) \in Nat /\ Cardinality(R) <= Cardinality(S)
<1>1. IsFiniteSet(S) /\ Cardinality(S) \in Nat
  BY SeenFinite
<1>2. IsFiniteSet(R) /\ Cardinality(R) <= Cardinality(S)
  BY <1>1, FS_Subset
<1>3. QED
  BY <1>1, <1>2, FS_CardinalityType

\* An event comes: its entry is on the page, and nothing else that was not.
LEMMA MergedFacts ==
  ASSUME NEW runs \in Nat, IsPage(shown, runs), NEW entry \in FeedEntry, entry.id <= runs, NEW t, t = Merged(entry)
  PROVE  /\ IsPage(t, runs) /\ \E i \in DOMAIN t : t[i] = entry
         /\ \A i \in DOMAIN t : t[i] = entry \/ \E j \in DOMAIN shown : t[i] = shown[j] /\ shown[j].id # entry.id
<1> DEFINE n == Len(shown)
<1>1. /\ shown \in Seq(FeedEntry) /\ n \in Nat /\ n <= FeedCap /\ DOMAIN shown = 1..n
      /\ \A i \in DOMAIN shown : shown[i] \in FeedEntry /\ shown[i].id <= runs
      /\ \A i, j \in DOMAIN shown : shown[i].id = shown[j].id => i = j
  BY LenProperties, ElementOfSeq DEF IsPage
<1>2. FeedCap \in Nat \ {0}
  BY LensFeedAssumption
<1> HIDE DEF n
<1>3. CASE \E i \in DOMAIN shown : shown[i].id = entry.id
  <2>1. t = [i \in DOMAIN shown |-> IF shown[i].id = entry.id THEN entry ELSE shown[i]]
    BY <1>3 DEF Merged
  <2>2. DOMAIN t = 1..n /\ \A i \in 1..n : t[i] = IF shown[i].id = entry.id THEN entry ELSE shown[i]
    BY <1>1, <2>1
  <2>3. t \in [1..n -> FeedEntry]
    BY <1>1, <2>1
  <2>4. t \in Seq(FeedEntry)
    BY <1>1, <2>3, SeqDef
  <2>5. Len(t) = n
    BY <1>1, <2>2, <2>4, LenProperties
  <2>6. \A i \in 1..n : t[i].id = shown[i].id
    BY <2>2
  <2>7. IsPage(t, runs)
    BY <1>1, <2>2, <2>4, <2>5, <2>6 DEF IsPage
  <2>8. QED
    BY <1>1, <1>3, <2>2, <2>7
<1>4. CASE ~\E i \in DOMAIN shown : shown[i].id = entry.id
  <2> DEFINE u == <<entry>> \o shown
  <2>1. u = <<entry>> \o shown
    OBVIOUS
  <2> HIDE DEF u
  <2>2. IsStart(t, FeedCap, u)
    BY <1>4, <2>1 DEF Merged, IsStart
  <2>3. u \in Seq(FeedEntry) /\ Len(u) = n + 1 /\ u[1] = entry /\ \A i \in 1..n : u[i + 1] = shown[i]
    BY <1>1, <2>1, PutInFront DEF n
  <2>4. FeedCap \in Nat
    BY <1>2
  <2>5. /\ t \in Seq(FeedEntry) /\ Len(t) = Least(FeedCap, Len(u)) /\ DOMAIN t = 1..Least(FeedCap, Len(u))
        /\ \A i \in 1..Least(FeedCap, Len(u)) : t[i] = u[i]
    BY <2>2, <2>3, <2>4, FirstFacts
  <2> DEFINE m == Least(FeedCap, Len(u))
  <2>6. m \in Nat /\ m >= 1 /\ m <= FeedCap /\ m <= n + 1
    BY <1>1, <1>2, <2>3 DEF Least
  <2>7. Len(t) = m /\ DOMAIN t = 1..m /\ \A i \in 1..m : t[i] = u[i]
    BY <2>5
  <2> HIDE DEF m
  <2>8. t[1] = entry /\ 1 \in DOMAIN t
    BY <2>3, <2>6, <2>7
  <2>9. \A i \in DOMAIN t : i = 1 \/ (i - 1 \in DOMAIN shown /\ t[i] = shown[i - 1])
    <3>1. ASSUME NEW i \in DOMAIN t, i # 1 PROVE i - 1 \in DOMAIN shown /\ t[i] = shown[i - 1]
      <4>1. i - 1 \in 1..n /\ (i - 1) + 1 = i /\ i \in 1..m
        BY <1>1, <2>6, <2>7, <3>1
      <4>2. u[(i - 1) + 1] = shown[i - 1]
        BY <2>3, <4>1
      <4>3. QED
        BY <1>1, <2>7, <4>1, <4>2, Zenon
    <3>2. QED
      BY <3>1
  <2>10. \A i, j \in DOMAIN t : t[i].id = t[j].id => i = j
    <3>1. ASSUME NEW i \in DOMAIN t, NEW j \in DOMAIN t, t[i].id = t[j].id PROVE i = j
      <4>1. CASE i = 1 /\ j # 1
        BY <1>4, <2>8, <2>9, <3>1, <4>1
      <4>2. CASE i # 1 /\ j = 1
        BY <1>4, <2>8, <2>9, <3>1, <4>2
      <4>3. CASE i # 1 /\ j # 1
        <5>1. i - 1 = j - 1 /\ i \in Nat /\ j \in Nat
          BY <1>1, <2>6, <2>7, <2>9, <3>1, <4>3
        <5>2. QED
          BY <5>1
      <4>4. QED
        BY <4>1, <4>2, <4>3
    <3>2. QED
      BY <3>1
  <2>11. \A i \in DOMAIN t : t[i].id <= runs
    BY <1>1, <2>8, <2>9
  <2>12. IsPage(t, runs)
    BY <2>5, <2>6, <2>7, <2>10, <2>11 DEF IsPage
  <2>13. QED
    BY <1>4, <2>8, <2>9, <2>12
<1>5. QED
  BY <1>3, <1>4

\* ... and what is seen of the page is in line with the ledger still, as far as no event is
\* to come.
LEMMA MergedRight ==
  ASSUME LedgerRight, IsPage(shown, toolRuns), NEW q, NEW entry \in FeedEntry, entry.id <= toolRuns, Kept(entry.id, ledger, toolRuns),
         Right(shown, 0, filter, q, ledger, toolRuns), NEW p,
         \A id : Touched(q, id, 0) => Touched(p, id, 0) \/ id = entry.id,
         \A i \in DOMAIN ledger : ledger[i].id = entry.id /\ ~Touched(p, ledger[i].id, 0) => entry = ledger[i],
         ~LosesSight(entry), NEW t, t = Merged(entry)
  PROVE  IsPage(t, toolRuns) /\ Right(t, 0, filter, p, ledger, toolRuns)
<1>0. toolRuns \in Nat
  BY DEF LedgerRight
<1>1. /\ IsPage(t, toolRuns) /\ \E i \in DOMAIN t : t[i] = entry
      /\ \A i \in DOMAIN t : t[i] = entry \/ \E j \in DOMAIN shown : t[i] = shown[j] /\ shown[j].id # entry.id
  BY <1>0, MergedFacts
<1>2. FeedLimit \in Nat
  BY LensFeedAssumption
<1>3. \A i \in DOMAIN t : Kept(t[i].id, ledger, toolRuns)
  BY <1>1 DEF Right
<1>4. ASSUME NEW j \in DOMAIN ledger, ~Touched(p, ledger[j].id, 0)
      PROVE  /\ \A i \in DOMAIN t : t[i].id = ledger[j].id => t[i] = ledger[j]
             /\ Matches(ledger[j], filter) =>
                  \/ ledger[j].id \in Seen(t, filter)
                  \/ Cardinality(NewerSeen(t, filter, ledger[j].id)) >= FeedLimit
  <2> DEFINE x == ledger[j]
  <2>1. CASE x.id = entry.id
    <3>1. entry = x
      BY <1>4, <2>1
    <3>2. Matches(x, filter) => x.id \in Seen(t, filter)
      BY <1>1, <3>1 DEF Seen
    <3>3. QED
      BY <1>1, <2>1, <3>1, <3>2
  <2>2. CASE x.id # entry.id
    <3>1. ~Touched(q, x.id, 0)
      BY <1>4, <2>2
    <3>2. /\ \A i \in DOMAIN shown : shown[i].id = x.id => shown[i] = x
          /\ Matches(x, filter) =>
               \/ x.id \in Seen(shown, filter)
               \/ Cardinality(NewerSeen(shown, filter, x.id)) >= FeedLimit
      BY <3>1 DEF Right
    <3>3. \A i \in DOMAIN t : t[i].id = x.id => t[i] = x
      BY <1>1, <2>2, <3>2
    <3>4. ASSUME NEW id \in Seen(shown, filter), id \notin Seen(t, filter)
          PROVE  \/ Cardinality(NewerSeen(t, filter, id)) >= FeedLimit
                 \/ id = entry.id /\ Cardinality(Seen(shown, filter)) < FeedLimit
      <4>1. Cardinality(NewerSeen(t, filter, id)) \in Nat /\ Cardinality(Seen(shown, filter)) \in Nat
        <5>1. NewerSeen(t, filter, id) \in SUBSET Seen(t, filter)
          BY DEF NewerSeen
        <5>2. QED
          BY <1>0, <1>1, <5>1, SeenFinite
      <4>2. ~(Cardinality(NewerSeen(t, filter, id)) < FeedLimit
              /\ (id = entry.id => Cardinality(Seen(shown, filter)) >= FeedLimit))
        BY <3>4 DEF LosesSight, NewerSeen
      <4>3. QED
        BY <1>2, <4>1, <4>2
    <3>5. ASSUME Matches(x, filter), x.id \in Seen(shown, filter)
          PROVE  x.id \in Seen(t, filter) \/ Cardinality(NewerSeen(t, filter, x.id)) >= FeedLimit
      BY <2>2, <3>4, <3>5
    <3>6. ASSUME Matches(x, filter), Cardinality(NewerSeen(shown, filter, x.id)) >= FeedLimit
          PROVE  Cardinality(NewerSeen(t, filter, x.id)) >= FeedLimit
      <4> DEFINE N == NewerSeen(shown, filter, x.id)
                 M == NewerSeen(t, filter, x.id)
      <4>1. N \in SUBSET Seen(shown, filter) /\ M \in SUBSET Seen(t, filter)
        BY DEF NewerSeen
      <4>2. Cardinality(N) \in Nat /\ Cardinality(M) \in Nat
        BY <1>0, <1>1, <4>1, SeenFinite
      <4>3. CASE N \subseteq Seen(t, filter)
        <5>1. N \in SUBSET M
          BY <4>3 DEF NewerSeen
        <5> HIDE DEF N, M
        <5>2. Cardinality(N) <= Cardinality(M)
          BY <1>0, <1>1, <4>1, <5>1, FewerSeen
        <5>3. QED
          BY <1>2, <3>6, <4>2, <5>2 DEF N, M
      <4>4. CASE ~(N \subseteq Seen(t, filter))
        <5>1. PICK id \in N : id \notin Seen(t, filter)
          BY <4>4
        <5>2. id \in Seen(shown, filter) /\ id > x.id
          BY <5>1 DEF NewerSeen
        <5>3. Cardinality(N) <= Cardinality(Seen(shown, filter)) /\ Cardinality(Seen(shown, filter)) \in Nat
          BY <1>0, <4>1, SeenFinite
        <5>4. Cardinality(NewerSeen(t, filter, id)) >= FeedLimit
          BY <1>2, <3>4, <3>6, <4>2, <5>1, <5>2, <5>3
        <5>5. NewerSeen(t, filter, id) \in SUBSET M
          <6>1. id \in Int /\ x.id \in Int /\ \A n \in Seen(t, filter) : n \in Int
            <7>1. Seen(t, filter) \subseteq 1..toolRuns /\ Seen(shown, filter) \subseteq 1..toolRuns
              BY <1>0, <1>1, SeenFinite
            <7>2. x.id \in Int
              BY <1>4, LenProperties DEF LedgerRight
            <7>3. QED
              BY <5>2, <7>1, <7>2
          <6>2. ASSUME NEW n \in NewerSeen(t, filter, id) PROVE n \in M
            <7>1. n \in Seen(t, filter) /\ n > id
              BY <6>2 DEF NewerSeen
            <7>2. n > x.id
              BY <5>2, <6>1, <7>1
            <7>3. QED
              BY <7>1, <7>2 DEF NewerSeen
          <6>3. QED
            BY <6>2
        <5> HIDE DEF N, M
        <5>6. Cardinality(NewerSeen(t, filter, id)) <= Cardinality(M) /\ Cardinality(NewerSeen(t, filter, id)) \in Nat
          BY <1>0, <1>1, <4>1, <5>5, FewerSeen
        <5>7. QED
          BY <1>2, <4>2, <5>4, <5>6 DEF M
      <4>5. QED
        BY <4>3, <4>4
    <3>7. QED
      BY <3>2, <3>3, <3>5, <3>6
  <2>3. QED
    BY <2>1, <2>2
<1>5. QED
  BY <1>1, <1>3, <1>4 DEF Right

CallRight(call, q, led, runs) ==
  /\ IsPage(call.list, runs) /\ call.knows <= Len(q)
  /\ call.pc = "served" /\ ~call.over =>
       \A f \in FeedFilters : (call.do = "list" => f = call.filter)
                              => Right(Replied_(call), call.knows, f, q, led, runs)

\* While such a reply is to come, nothing is said of what is shown.
Awaits(call, f) == IF call.do = "list" THEN call.filter = f ELSE call.pc = "served"

ShownHolds ==
  ~behind /\ (\A k \in DOMAIN calls : ~Awaits(calls[k], filter)) => Right(shown, 0, filter, Events, ledger, toolRuns)

FeedInv ==
  /\ LedgerRight /\ EventsRight /\ IsPage(shown, toolRuns)
  /\ filter \in FeedFilters /\ behind \in BOOLEAN /\ feedErrors \in 0..MaxFeedErrors
  /\ calls \in Seq(FeedRequest) /\ \A k \in DOMAIN calls : CallRight(calls[k], Events, ledger, toolRuns)
  /\ ShownHolds

LEMMA EventsFacts ==
  ASSUME EventsRight
  PROVE  /\ Events \in Seq(FeedEntry) /\ Len(Events) \in Nat /\ DOMAIN Events = 1..Len(Events)
         /\ OnTheirWay = Len(Events) /\ (stream = {} \/ stream = {Events}) /\ (stream = {} => Events = <<>>)
<1>1. CASE stream = {}
  <2>1. Events = <<>> /\ OnTheirWay = 0
    BY <1>1 DEF Events, OnTheirWay
  <2>2. <<>> \in Seq(FeedEntry) /\ Len(<<>>) = 0
    OBVIOUS
  <2>3. QED
    BY <1>1, <2>1, <2>2, LenProperties
<1>2. CASE \E q \in Seq(FeedEntry) : stream = {q}
  <2>1. PICK q \in Seq(FeedEntry) : stream = {q}
    BY <1>2
  <2>2. Events = q /\ OnTheirWay = Len(q) /\ stream # {}
    BY <2>1 DEF Events, OnTheirWay
  <2>3. QED
    BY <2>1, <2>2, LenProperties
<1>3. QED
  BY <1>1, <1>2 DEF EventsRight

LEMMA EventsNext ==
  /\ \A q : stream' = {q} => Events' = q
  /\ stream' = {} => Events' = <<>>
BY DEF Events

LEMMA KnowsLess ==
  ASSUME NEW page, NEW c \in Int, NEW d \in Int, d <= c, NEW f, NEW q \in Seq(FeedEntry), NEW led, NEW runs,
         Right(page, c, f, q, led, runs)
  PROVE  Right(page, d, f, q, led, runs)
<1>1. \A id : Touched(q, id, c) => Touched(q, id, d)
  <2>1. \A j \in DOMAIN q : j \in Int
    BY LenProperties
  <2>2. QED
    BY <2>1 DEF Touched
<1>2. QED
  BY <1>1 DEF Right

LEMMA PageLater ==
  ASSUME NEW page, NEW m \in Nat, NEW n \in Nat, m <= n, IsPage(page, m)
  PROVE  IsPage(page, n)
<1>1. \A i \in DOMAIN page : page[i].id \in Int
  <2>1. \A i \in DOMAIN page : page[i] \in FeedEntry
    BY ElementOfSeq, LenProperties DEF IsPage
  <2>2. QED
    BY <2>1 DEF FeedEntry
<1>2. QED
  BY <1>1 DEF IsPage

\* Requests that were overtaken.
LEMMA OutdatedFacts ==
  ASSUME calls \in Seq(FeedRequest), NEW t, t = OutdatedCalls(calls)
  PROVE  /\ t \in Seq(FeedRequest) /\ DOMAIN t = DOMAIN calls
         /\ \A k \in DOMAIN calls :
              /\ t[k].do = calls[k].do /\ t[k].filter = calls[k].filter /\ t[k].pc = calls[k].pc
              /\ t[k].list = calls[k].list /\ t[k].knows = 0 /\ (t[k].pc = "served" => t[k].over)
<1>1. /\ DOMAIN calls = 1..Len(calls) /\ Len(calls) \in Nat /\ \A k \in DOMAIN calls : calls[k] \in FeedRequest
  BY LenProperties, ElementOfSeq
<1>2. t = [k \in DOMAIN calls |-> [calls[k] EXCEPT !.over = @ \/ calls[k].pc = "served", !.knows = 0]]
  BY DEF OutdatedCalls
<1>3. ASSUME NEW k \in DOMAIN calls
      PROVE  /\ t[k] \in FeedRequest
             /\ t[k].do = calls[k].do /\ t[k].filter = calls[k].filter /\ t[k].pc = calls[k].pc
             /\ t[k].list = calls[k].list /\ t[k].knows = 0 /\ (t[k].pc = "served" => t[k].over)
  <2>1. calls[k] \in FeedRequest
    BY <1>1
  <2>2. t[k] = [calls[k] EXCEPT !.over = @ \/ calls[k].pc = "served", !.knows = 0]
    BY <1>2
  <2> DEFINE b == calls[k].over \/ calls[k].pc = "served"
  <2>3. /\ t[k].do = calls[k].do /\ t[k].filter = calls[k].filter /\ t[k].pc = calls[k].pc
        /\ t[k].list = calls[k].list /\ t[k].knows = 0 /\ t[k].over = b
    <3>1. DOMAIN calls[k] = {"do", "filter", "pc", "list", "knows", "over"}
      BY <2>1 DEF FeedRequest
    <3>2. QED
      BY <2>2, <3>1
  <2>4. t[k] \in FeedRequest
    <3>1. b \in BOOLEAN
      OBVIOUS
    <3>2. t[k] = [do |-> calls[k].do, filter |-> calls[k].filter, pc |-> calls[k].pc, list |-> calls[k].list,
                  knows |-> 0, over |-> b]
      BY <2>1, <2>2 DEF FeedRequest
    <3> HIDE DEF b
    <3>3. QED
      BY <2>1, <3>1, <3>2 DEF FeedRequest
  <2>5. t[k].pc = "served" => t[k].over
    BY <2>3
  <2>6. QED
    BY <2>3, <2>4, <2>5
<1>4. t \in [1..Len(calls) -> FeedRequest]
  BY <1>1, <1>2, <1>3
<1>5. t \in Seq(FeedRequest)
  BY <1>1, <1>4, SeqDef
<1>6. QED
  BY <1>2, <1>3, <1>5

\* An entry of a run is new or changes, and its event is sent.
Moves(led, runs, later, laterRuns, entry) ==
  /\ \A j \in DOMAIN later : later[j] = entry \/ \E i \in DOMAIN led : later[j] = led[i]
  /\ \A id : Kept(id, led, runs) => Kept(id, later, laterRuns)
  /\ \A j \in DOMAIN later : later[j].id = entry.id => later[j] = entry
  /\ Kept(entry.id, later, laterRuns)

LEMMA RightMoves ==
  ASSUME NEW page, NEW c \in Nat, NEW f, NEW q \in Seq(FeedEntry), c <= Len(q), NEW entry \in FeedEntry,
         NEW p, IsLonger(p, q, entry), NEW led, NEW runs, NEW later, NEW laterRuns,
         Moves(led, runs, later, laterRuns, entry), Right(page, c, f, q, led, runs)
  PROVE  Right(page, c, f, p, later, laterRuns)
<1>1. /\ DOMAIN q = 1..Len(q) /\ DOMAIN p = 1..(Len(q) + 1) /\ Len(q) \in Nat
      /\ p[Len(q) + 1] = entry /\ \A i \in 1..Len(q) : p[i] = q[i]
  BY LongerFacts
<1>2. \A id : Touched(q, id, c) => Touched(p, id, c)
  <2>1. \A j \in DOMAIN q : j \in DOMAIN p /\ p[j] = q[j]
    BY <1>1
  <2>2. QED
    BY <2>1 DEF Touched
<1>3. Touched(p, entry.id, c)
  <2>1. Len(q) + 1 \in DOMAIN p /\ Len(q) + 1 > c
    BY <1>1
  <2>2. QED
    BY <1>1, <2>1 DEF Touched
<1>4. \A i \in DOMAIN page : Kept(page[i].id, later, laterRuns)
  BY DEF Right, Moves
<1>5. ASSUME NEW j \in DOMAIN later, ~Touched(p, later[j].id, c)
      PROVE  /\ \A i \in DOMAIN page : page[i].id = later[j].id => page[i] = later[j]
             /\ Matches(later[j], f) =>
                  \/ later[j].id \in Seen(page, f)
                  \/ Cardinality(NewerSeen(page, f, later[j].id)) >= FeedLimit
  <2>1. later[j] # entry
    BY <1>3, <1>5
  <2>2. PICK i \in DOMAIN led : later[j] = led[i]
    BY <2>1 DEF Moves
  <2>3. ~Touched(q, led[i].id, c)
    BY <1>2, <1>5, <2>2
  <2>4. QED
    BY <2>2, <2>3 DEF Right
<1>6. QED
  BY <1>4, <1>5 DEF Right

LEMMA StreamKeeps ==
  ASSUME FeedInv, NEW entry \in FeedEntry, entry.id <= toolRuns', Stream(entry), LedgerRight', toolRuns <= toolRuns',
         Moves(ledger, toolRuns, ledger', toolRuns', entry), UNCHANGED <<filter, shown, feedErrors, stale>>
  PROVE  FeedInv'
<1>1. LedgerRight /\ EventsRight /\ IsPage(shown, toolRuns) /\ toolRuns \in Nat /\ toolRuns' \in Nat
  BY DEF FeedInv, LedgerRight
<1>2. /\ Events \in Seq(FeedEntry) /\ Len(Events) \in Nat /\ DOMAIN Events = 1..Len(Events)
      /\ (stream = {} \/ stream = {Events}) /\ (stream = {} => Events = <<>>)
  BY <1>1, EventsFacts
<1>3. IsPage(shown', toolRuns')
  BY <1>1, PageLater
<1>4. /\ filter' \in FeedFilters /\ feedErrors' \in 0..MaxFeedErrors /\ behind \in BOOLEAN
      /\ calls \in Seq(FeedRequest) /\ \A k \in DOMAIN calls : CallRight(calls[k], Events, ledger, toolRuns)
      /\ \A k \in DOMAIN calls : calls[k] \in FeedRequest /\ calls[k].knows \in Nat
      /\ FeedLimit \in Nat
  <2>1. \A k \in DOMAIN calls : calls[k] \in FeedRequest
    BY ElementOfSeq, LenProperties DEF FeedInv
  <2>2. QED
    BY <2>1, LensFeedAssumption DEF FeedInv, FeedRequest
<1>5. ASSUME NEW k \in DOMAIN calls PROVE IsPage(calls[k].list, toolRuns')
  BY <1>1, <1>4, <1>5, PageLater DEF CallRight
<1>6. CASE stream = {}
  <2>1. stream' = {} /\ behind' = TRUE /\ calls' = OutdatedCalls(calls)
    BY <1>6 DEF Stream
  <2>2. Events' = <<>> /\ Events = <<>> /\ Len(<<>>) = 0 /\ DOMAIN Events' = {}
    BY <1>2, <1>6, <2>1, EventsNext
  <2>3. EventsRight'
    BY <1>1, <2>1, <2>2 DEF EventsRight
  <2>4. /\ calls' \in Seq(FeedRequest) /\ DOMAIN calls' = DOMAIN calls
        /\ \A k \in DOMAIN calls :
              /\ calls'[k].do = calls[k].do /\ calls'[k].filter = calls[k].filter /\ calls'[k].pc = calls[k].pc
              /\ calls'[k].list = calls[k].list /\ calls'[k].knows = 0
              /\ (calls'[k].pc = "served" => calls'[k].over)
    BY <1>4, <2>1, OutdatedFacts
  <2>5. \A k \in DOMAIN calls' : CallRight(calls'[k], Events', ledger', toolRuns')
    BY <1>5, <2>2, <2>4 DEF CallRight
  <2>6. ShownHolds'
    BY <2>1 DEF ShownHolds
  <2>7. QED
    BY <1>3, <1>4, <2>1, <2>3, <2>4, <2>5, <2>6 DEF FeedInv
<1>7. CASE stream # {}
  <2>1. stream' = {Append(Events, entry)} /\ UNCHANGED <<behind, calls>>
    BY <1>2, <1>7 DEF Stream
  <2>2. IsLonger(Events', Events, entry) /\ stream' = {Events'}
    BY <2>1, EventsNext DEF IsLonger
  <2>3. /\ Events' \in Seq(FeedEntry) /\ DOMAIN Events' = 1..(Len(Events) + 1) /\ Len(Events') = Len(Events) + 1
        /\ Events'[Len(Events) + 1] = entry /\ \A i \in 1..Len(Events) : Events'[i] = Events[i]
    BY <1>2, <2>2, LongerFacts
  <2>4. \A page, f : \A c \in Nat :
          c <= Len(Events) /\ Right(page, c, f, Events, ledger, toolRuns)
          => Right(page, c, f, Events', ledger', toolRuns')
    BY <1>2, <2>2, RightMoves
  <2>5. ShownHolds'
    <3>1. ASSUME ~behind', \A k \in DOMAIN calls' : ~Awaits(calls'[k], filter')
          PROVE  Right(shown', 0, filter', Events', ledger', toolRuns')
      <4>1. ~behind /\ \A k \in DOMAIN calls : ~Awaits(calls[k], filter)
        BY <2>1, <3>1
      <4>2. Right(shown, 0, filter, Events, ledger, toolRuns)
        BY <4>1 DEF FeedInv, ShownHolds
      <4>3. 0 \in Nat /\ 0 <= Len(Events)
        BY <1>2
      <4>4. QED
        BY <2>4, <4>2, <4>3
    <3>2. QED
      BY <3>1 DEF ShownHolds
  <2>6. ASSUME NEW k \in DOMAIN calls' PROVE CallRight(calls'[k], Events', ledger', toolRuns')
    <3>1. calls' = calls /\ k \in DOMAIN calls
      BY <2>1, <2>6
    <3>2. CallRight(calls[k], Events, ledger, toolRuns) /\ calls[k].knows \in Nat
      BY <1>4, <3>1
    <3>3. calls[k].knows <= Len(Events) /\ calls[k].knows <= Len(Events')
      BY <1>2, <2>3, <3>2 DEF CallRight
    <3>4. ASSUME calls[k].pc = "served", ~calls[k].over, NEW f \in FeedFilters, calls[k].do = "list" => f = calls[k].filter
          PROVE  Right(Replied_(calls[k]), calls[k].knows, f, Events', ledger', toolRuns')
      <4>1. Right(Replied_(calls[k]), calls[k].knows, f, Events, ledger, toolRuns)
        BY <3>2, <3>4 DEF CallRight
      <4>2. QED
        BY <2>4, <3>2, <3>3, <4>1
    <3>5. QED
      BY <1>5, <3>1, <3>3, <3>4 DEF CallRight
  <2>7. ASSUME NEW j \in DOMAIN Events'
        PROVE  /\ Events'[j].id <= toolRuns' /\ (j > stale => Kept(Events'[j].id, ledger', toolRuns'))
               /\ \A i \in DOMAIN ledger' :
                    ledger'[i].id = Events'[j].id /\ ~Touched(Events', ledger'[i].id, j) => Events'[j] = ledger'[i]
    <3>1. CASE j = Len(Events) + 1
      BY <2>3, <3>1 DEF Moves
    <3>2. CASE j \in DOMAIN Events
      <4>1. Events'[j] = Events[j] /\ Len(Events) + 1 > j /\ j \in 1..Len(Events)
        BY <1>2, <2>3, <3>2
      <4>2. /\ Events[j].id <= toolRuns /\ (j > stale => Kept(Events[j].id, ledger, toolRuns))
            /\ \A i \in DOMAIN ledger :
                 ledger[i].id = Events[j].id /\ ~Touched(Events, ledger[i].id, j) => Events[j] = ledger[i]
        BY <1>1, <3>2 DEF EventsRight
      <4>3. Events[j].id \in Nat
        <5>1. Events[j] \in FeedEntry
          BY <1>2, <4>1, ElementOfSeq
        <5>2. QED
          BY <5>1 DEF FeedEntry
      <4>4. Events'[j].id <= toolRuns'
        BY <1>1, <4>1, <4>2, <4>3
      <4>5. j > stale => Kept(Events'[j].id, ledger', toolRuns')
        BY <4>1, <4>2 DEF Moves
      <4>6. ASSUME NEW i \in DOMAIN ledger', ledger'[i].id = Events'[j].id, ~Touched(Events', ledger'[i].id, j)
            PROVE  Events'[j] = ledger'[i]
        <5>1. Touched(Events', entry.id, j)
          <6>1. Len(Events) + 1 \in DOMAIN Events'
            BY <1>2, <2>3
          <6>2. QED
            BY <2>3, <4>1, <6>1 DEF Touched
        <5>2. ledger'[i] # entry
          BY <4>6, <5>1
        <5>3. PICK m \in DOMAIN ledger : ledger'[i] = ledger[m]
          BY <5>2 DEF Moves
        <5>4. Touched(Events, ledger[m].id, j) => Touched(Events', ledger[m].id, j)
          <6>1. \A n \in DOMAIN Events : n \in DOMAIN Events' /\ Events'[n] = Events[n]
            BY <1>2, <2>3
          <6>2. QED
            BY <6>1 DEF Touched
        <5>5. QED
          BY <4>1, <4>2, <4>6, <5>3, <5>4
      <4>7. QED
        BY <4>4, <4>5, <4>6
    <3>3. QED
      BY <1>2, <2>3, <3>1, <3>2
  <2>8. EventsRight'
    <3>1. stale' \in 0..Len(Events') /\ stale' = stale
      BY <1>1, <1>2, <2>3 DEF EventsRight
    <3>2. stream' = {} \/ \E q \in Seq(FeedEntry) : stream' = {q}
      BY <2>2, <2>3
    <3>3. QED
      BY <2>7, <3>1, <3>2 DEF EventsRight
  <2>9. QED
    BY <1>3, <1>4, <2>1, <2>5, <2>6, <2>8 DEF FeedInv
<1>8. QED
  BY <1>6, <1>7

LEMMA FeedBegins ==
  ASSUME LensFeedInit
  PROVE  FeedInv
<1> DEFINE call == FeedCall("list", Everything)
<1>1. /\ FeedLimit \in Nat \ {0} /\ FeedCap \in Nat /\ FeedKeep \in Nat /\ Everything \in FeedFilters
      /\ MaxFeedErrors \in Nat
  BY LensFeedAssumption
<1>2. /\ ledger = <<>> /\ stream = {} /\ shown = <<>> /\ filter = Everything /\ calls = <<call>>
      /\ toolRuns = 0 /\ feedErrors = 0 /\ stale = 0 /\ behind = FALSE
  BY DEF LensFeedInit
<1>3. /\ <<>> \in Seq(FeedEntry) /\ Len(<<>>) = 0 /\ DOMAIN <<>> = {}
  OBVIOUS
<1>4. call \in FeedRequest /\ call.do = "list" /\ call.filter = Everything /\ call.pc = "sent"
      /\ call.list = <<>> /\ call.knows = 0
  BY <1>1, <1>3 DEF FeedCall, FeedRequest
<1> HIDE DEF call
<1>5. calls \in Seq(FeedRequest) /\ DOMAIN calls = {1} /\ calls[1] = call
  BY <1>2, <1>4
<1>6. Events = <<>>
  BY <1>2 DEF Events
<1>7. LedgerRight /\ EventsRight
  BY <1>1, <1>2, <1>3, <1>6 DEF LedgerRight, EventsRight
<1>8. IsPage(<<>>, 0)
  BY <1>1, <1>3 DEF IsPage
<1>9. ASSUME NEW k \in DOMAIN calls PROVE CallRight(calls[k], Events, ledger, toolRuns)
  <2>1. calls[k] = call
    BY <1>5
  <2>2. CallRight(call, Events, ledger, toolRuns)
    BY <1>2, <1>3, <1>4, <1>6, <1>8 DEF CallRight
  <2>3. QED
    BY <2>1, <2>2
<1>10. ShownHolds
  BY <1>2, <1>4, <1>5 DEF ShownHolds, Awaits
<1>11. IsPage(shown, toolRuns) /\ filter \in FeedFilters /\ behind \in BOOLEAN /\ feedErrors \in 0..MaxFeedErrors
  <2>1. IsPage(shown, toolRuns) /\ filter \in FeedFilters
    BY <1>1, <1>2, <1>8, Zenon
  <2>2. 0 \in 0..MaxFeedErrors /\ FALSE \in BOOLEAN
    BY <1>1
  <2>3. QED
    BY <1>2, <2>1, <2>2, Zenon
<1>12. QED
  BY <1>5, <1>7, <1>9, <1>10, <1>11 DEF FeedInv

LEMMA ToolBegins ==
  ASSUME FeedInv, NEW kind \in ToolKinds, ToolStarts(kind)
  PROVE  FeedInv'
<1> DEFINE entry == [id |-> toolRuns + 1, kind |-> kind, status |-> "running"]
           all == Append(ledger, entry)
           n == Len(ledger)
<1>1. /\ LedgerRight /\ toolRuns' = toolRuns + 1 /\ ledger' = IF Len(all) <= FeedKeep THEN all ELSE Tail(all)
      /\ Stream(entry) /\ UNCHANGED <<filter, shown, feedErrors, stale>>
  BY DEF ToolStarts, feedUser, FeedInv
<1>2. /\ toolRuns \in Nat /\ ledger \in Seq(FeedEntry) /\ n \in Nat /\ n <= toolRuns /\ n <= FeedKeep
      /\ DOMAIN ledger = 1..n /\ \A j \in 1..n : ledger[j].id = toolRuns - n + j
  BY <1>1, LenProperties DEF LedgerRight
<1>3. FeedKeep \in Nat /\ FeedKeep >= 1
  BY LensFeedAssumption
<1>4. entry \in FeedEntry /\ entry.id = toolRuns + 1
  BY <1>2 DEF FeedEntry
<1>5. all = Append(ledger, entry)
  OBVIOUS
<1> HIDE DEF entry, all
<1>6. IsLonger(all, ledger, entry)
  BY <1>5 DEF IsLonger
<1>7. /\ all \in Seq(FeedEntry) /\ Len(all) = n + 1 /\ DOMAIN all = 1..(n + 1)
      /\ all[n + 1] = entry /\ \A i \in 1..n : all[i] = ledger[i]
  <2>1. ledger \in Seq(FeedEntry) /\ entry \in FeedEntry
    BY <1>2, <1>4
  <2>2. QED
    BY <1>6, <2>1, LongerFacts
<1>0. toolRuns' = toolRuns + 1 /\ toolRuns' \in Nat /\ entry.id = toolRuns'
  BY <1>1, <1>2, <1>4
<1> HIDE DEF n
<1> DEFINE m == IF n = FeedKeep THEN n ELSE n + 1
           d == IF n = FeedKeep THEN 1 ELSE 0
<1>8. /\ m \in Nat /\ m >= 1 /\ m <= FeedKeep /\ d \in {0, 1} /\ m + d = n + 1 /\ m <= toolRuns + 1
      /\ (n = FeedKeep => m = FeedKeep)
  BY <1>2, <1>3
<1>9. ledger' \in Seq(FeedEntry) /\ Len(ledger') = m /\ DOMAIN ledger' = 1..m /\ \A j \in 1..m : ledger'[j] = all[j + d]
  <2>1. CASE n = FeedKeep
    <3>1. ledger' = Tail(all) /\ all # <<>>
      BY <1>1, <1>2, <1>3, <1>7, <2>1
    <3>2. /\ ledger' \in Seq(FeedEntry) /\ Len(ledger') = Len(all) - 1 /\ DOMAIN ledger' = 1..(Len(all) - 1)
          /\ \A i \in 1..(Len(all) - 1) : ledger'[i] = all[i + 1]
      BY <1>7, <3>1, TailFacts
    <3>3. Len(all) - 1 = n /\ m = n /\ d = 1
      BY <1>2, <1>7, <2>1
    <3>4. QED
      BY <3>2, <3>3
  <2>2. CASE n # FeedKeep
    <3>1. ledger' = all /\ m = n + 1 /\ d = 0
      BY <1>1, <1>2, <1>3, <1>7, <2>2
    <3>2. \A j \in 1..m : j + d = j
      BY <1>8, <3>1
    <3>3. QED
      BY <1>7, <3>1, <3>2
  <2>3. QED
    BY <2>1, <2>2
<1> HIDE DEF m, d
<1>10. ASSUME NEW j \in 1..m
       PROVE  /\ ledger'[j].id = toolRuns' - m + j
              /\ j = m => ledger'[j] = entry
              /\ j # m => \E i \in 1..n : ledger'[j] = ledger[i]
  <2>1. CASE j = m
    <3>1. ledger'[j] = entry
      BY <1>7, <1>8, <1>9, <2>1
    <3>2. entry.id = toolRuns' - m + j
      BY <1>0, <1>8, <2>1
    <3>3. QED
      BY <2>1, <3>1, <3>2
  <2>2. CASE j # m
    <3>1. j + d \in 1..n
      BY <1>2, <1>8, <2>2
    <3>2. ledger'[j] = ledger[j + d]
      BY <1>7, <1>9, <3>1
    <3>3. toolRuns - n + (j + d) = toolRuns' - m + j
      BY <1>1, <1>2, <1>8
    <3>4. QED
      BY <1>2, <2>2, <3>1, <3>2, <3>3
  <2>3. QED
    BY <2>1, <2>2
<1>11. LedgerRight'
  <2>1. toolRuns' \in Nat /\ m <= toolRuns'
    BY <1>1, <1>2, <1>8
  <2>2. QED
    BY <1>8, <1>9, <1>10, <2>1 DEF LedgerRight
<1>12. Moves(ledger, toolRuns, ledger', toolRuns', entry)
  <2>1. ASSUME NEW id, Kept(id, ledger, toolRuns) PROVE Kept(id, ledger', toolRuns')
    <3>1. CASE n = FeedKeep
      BY <1>8, <1>9, <3>1 DEF Kept
    <3>2. CASE n # FeedKeep
      <4>1. toolRuns - n = toolRuns' - m
        BY <1>1, <1>2, <1>8, <3>2 DEF m
      <4>2. id > toolRuns - n
        BY <2>1, <3>2 DEF Kept, n
      <4>3. QED
        BY <1>9, <4>1, <4>2 DEF Kept
    <3>3. QED
      BY <3>1, <3>2
  <2>2. ASSUME NEW j \in DOMAIN ledger', ledger'[j].id = entry.id PROVE ledger'[j] = entry
    <3>1. j = m
      <4>1. toolRuns' = toolRuns' - m + j /\ j \in 1..m
        BY <1>0, <1>9, <1>10, <2>2
      <4>2. QED
        BY <1>0, <1>8, <4>1
    <3>2. QED
      BY <1>9, <1>10, <2>2, <3>1
  <2>3. Kept(entry.id, ledger', toolRuns')
    <3>1. entry.id > toolRuns' - m
      BY <1>0, <1>8
    <3>2. QED
      BY <1>9, <3>1 DEF Kept
  <2>4. \A j \in DOMAIN ledger' : ledger'[j] = entry \/ \E i \in DOMAIN ledger : ledger'[j] = ledger[i]
    BY <1>2, <1>9, <1>10
  <2>5. QED
    BY <2>1, <2>2, <2>3, <2>4 DEF Moves
<1>13. entry.id <= toolRuns' /\ toolRuns <= toolRuns'
  BY <1>1, <1>2, <1>4
<1>14. QED
  BY <1>1, <1>4, <1>11, <1>12, <1>13, StreamKeeps

LEMMA ToolFinishes ==
  ASSUME FeedInv, NEW i \in DOMAIN ledger, NEW status \in {"success", "failed"}, ToolEnds(i, status)
  PROVE  FeedInv'
<1> DEFINE entry == [ledger[i] EXCEPT !.status = status]
           n == Len(ledger)
<1>1. /\ LedgerRight /\ toolRuns' = toolRuns /\ ledger' = [ledger EXCEPT ![i] = entry]
      /\ Stream(entry) /\ UNCHANGED <<filter, shown, feedErrors, stale>>
  BY DEF ToolEnds, feedUser, FeedInv
<1>2. /\ toolRuns \in Nat /\ ledger \in Seq(FeedEntry) /\ n \in Nat /\ n <= toolRuns /\ n <= FeedKeep
      /\ DOMAIN ledger = 1..n /\ \A j \in 1..n : ledger[j] \in FeedEntry /\ ledger[j].id = toolRuns - n + j
  BY <1>1, LenProperties, ElementOfSeq DEF LedgerRight
<1>3. entry \in FeedEntry /\ entry.id = ledger[i].id
  <2>1. ledger[i] \in FeedEntry
    BY <1>2
  <2>2. QED
    BY <2>1 DEF FeedEntry
<1> HIDE DEF entry
<1>4. /\ ledger' \in Seq(FeedEntry) /\ Len(ledger') = n /\ DOMAIN ledger' = 1..n
      /\ \A j \in 1..n : ledger'[j] = IF j = i THEN entry ELSE ledger[j]
  <2>1. DOMAIN ledger' = 1..n /\ \A j \in 1..n : ledger'[j] = IF j = i THEN entry ELSE ledger[j]
    BY <1>1, <1>2
  <2>2. ledger' \in Seq(FeedEntry)
    BY <1>1, <1>2, <1>3, ExceptSeq
  <2>3. QED
    BY <1>2, <2>1, <2>2, LenProperties
<1> HIDE DEF n
<1>5. \A j \in 1..n : ledger'[j].id = toolRuns' - n + j
  BY <1>1, <1>2, <1>3, <1>4
<1>6. LedgerRight'
  BY <1>1, <1>2, <1>4, <1>5 DEF LedgerRight
<1>7. Moves(ledger, toolRuns, ledger', toolRuns', entry)
  <2>1. \A id : Kept(id, ledger, toolRuns) => Kept(id, ledger', toolRuns')
    BY <1>1, <1>4 DEF Kept, n
  <2>2. ASSUME NEW j \in DOMAIN ledger', ledger'[j].id = entry.id PROVE ledger'[j] = entry
    <3>1. toolRuns - n + j = toolRuns - n + i /\ i \in 1..n /\ j \in 1..n
      BY <1>1, <1>2, <1>3, <1>4, <1>5, <2>2
    <3>2. j = i
      BY <1>2, <3>1
    <3>3. QED
      BY <1>4, <3>1, <3>2
  <2>3. Kept(entry.id, ledger', toolRuns')
    <3>1. entry.id = toolRuns - n + i /\ i \in 1..n
      BY <1>2, <1>3
    <3>2. entry.id > toolRuns' - n
      BY <1>1, <1>2, <3>1
    <3>3. QED
      BY <1>4, <3>2 DEF Kept
  <2>4. \A j \in DOMAIN ledger' : ledger'[j] = entry \/ \E k \in DOMAIN ledger : ledger'[j] = ledger[k]
    BY <1>2, <1>4
  <2>5. QED
    BY <2>1, <2>2, <2>3, <2>4 DEF Moves
<1>8. entry.id <= toolRuns' /\ toolRuns <= toolRuns'
  BY <1>1, <1>2, <1>3
<1>9. QED
  BY <1>1, <1>3, <1>6, <1>7, <1>8, StreamKeeps

LEMMA StreamOpens ==
  ASSUME FeedInv, get_local_tools_events
  PROVE  FeedInv'
<1>1. stream = {} /\ stream' = {<<>>} /\ UNCHANGED <<ledger, toolRuns, filter, shown, calls, feedErrors, stale, behind>>
  BY DEF get_local_tools_events, feedServer, feedUser
<1>2. Events = <<>> /\ Events' = <<>>
  BY <1>1, EventsNext DEF Events
<1>3. EventsRight'
  <2>1. EventsRight /\ <<>> \in Seq(FeedEntry) /\ DOMAIN <<>> = {} /\ Len(<<>>) = 0
    BY DEF FeedInv
  <2>2. stale' \in 0..Len(Events')
    BY <1>1, <1>2, <2>1 DEF EventsRight
  <2>3. QED
    BY <1>1, <1>2, <2>1, <2>2 DEF EventsRight
<1>4. LedgerRight' /\ ShownHolds' /\ IsPage(shown', toolRuns')
  <2>1. LedgerRight /\ ShownHolds /\ IsPage(shown, toolRuns) /\ Events' = Events
    BY <1>2 DEF FeedInv
  <2>2. LedgerRight'
    BY <1>1, <2>1, Zenon DEF LedgerRight
  <2>3. ShownHolds'
    BY <1>1, <2>1, Zenon DEF ShownHolds
  <2>4. QED
    BY <1>1, <2>1, <2>2, <2>3, Zenon
<1>5. \A k \in DOMAIN calls' : CallRight(calls'[k], Events', ledger', toolRuns')
  BY <1>1, <1>2, Zenon DEF FeedInv
<1>6. QED
  BY <1>1, <1>3, <1>4, <1>5, Zenon DEF FeedInv

\* Whatever was on its way, the page knows that it missed it.
LEMMA FeedStreamCloses ==
  ASSUME FeedInv, CloseStream, UNCHANGED <<ledger, toolRuns, filter, shown>>, feedErrors' \in 0..MaxFeedErrors
  PROVE  FeedInv'
<1>1. stream' = {} /\ stale' = 0 /\ Events' = <<>> /\ EventsRight /\ calls \in Seq(FeedRequest)
  BY EventsNext DEF CloseStream, FeedInv
<1>2. EventsRight'
  <2>1. DOMAIN <<>> = {} /\ Len(<<>>) = 0
    OBVIOUS
  <2>2. QED
    BY <1>1, <2>1 DEF EventsRight
<1>3. LedgerRight' /\ IsPage(shown', toolRuns') /\ filter' \in FeedFilters
  <2>1. LedgerRight'
    BY Zenon DEF LedgerRight, FeedInv
  <2>2. QED
    BY <2>1, Zenon DEF FeedInv
<1>4. CASE \E q \in stream : q # <<>>
  <2>1. behind' = TRUE /\ calls' = OutdatedCalls(calls)
    BY <1>4 DEF CloseStream
  <2>2. /\ calls' \in Seq(FeedRequest) /\ DOMAIN calls' = DOMAIN calls
        /\ \A k \in DOMAIN calls :
              /\ calls'[k].do = calls[k].do /\ calls'[k].filter = calls[k].filter /\ calls'[k].pc = calls[k].pc
              /\ calls'[k].list = calls[k].list /\ calls'[k].knows = 0
              /\ (calls'[k].pc = "served" => calls'[k].over)
    BY <1>1, <2>1, OutdatedFacts
  <2>3. ASSUME NEW k \in DOMAIN calls' PROVE CallRight(calls'[k], Events', ledger', toolRuns')
    <3>1. IsPage(calls[k].list, toolRuns)
      BY <2>2, <2>3 DEF FeedInv, CallRight
    <3>2. IsPage(calls'[k].list, toolRuns')
      BY <2>2, <2>3, <3>1, Zenon
    <3>3. calls'[k].knows <= Len(Events')
      BY <1>1, <2>2, <2>3
    <3>4. QED
      BY <2>2, <2>3, <3>2, <3>3 DEF CallRight
  <2>4. ShownHolds'
    BY <2>1 DEF ShownHolds
  <2>5. QED
    BY <1>2, <1>3, <2>1, <2>2, <2>3, <2>4 DEF FeedInv
<1>5. CASE ~\E q \in stream : q # <<>>
  <2>1. UNCHANGED <<behind, calls>>
    BY <1>5 DEF CloseStream
  <2>2. Events = <<>>
    BY <1>1, <1>5, EventsFacts
  <2>3. Events' = Events
    BY <1>1, <2>2
  <2>4. ShownHolds'
    BY <2>1, <2>3, Zenon DEF ShownHolds, FeedInv
  <2>5. \A k \in DOMAIN calls' : CallRight(calls'[k], Events', ledger', toolRuns')
    BY <2>1, <2>3, Zenon DEF FeedInv
  <2>6. QED
    BY <1>2, <1>3, <2>1, <2>4, <2>5, Zenon DEF FeedInv
<1>6. QED
  BY <1>4, <1>5

LEMMA FeedStays ==
  ASSUME LedgerRight, EventsRight, UNCHANGED <<ledger, toolRuns, stream, stale>>
  PROVE  Events' = Events /\ EventsRight' /\ LedgerRight'
<1>1. ledger' = ledger /\ toolRuns' = toolRuns /\ stream' = stream /\ stale' = stale
  OBVIOUS
<1>2. Events' = Events
  <2>1. (stream = {} \/ stream = {Events}) /\ (stream = {} => Events = <<>>)
    BY EventsFacts
  <2>2. QED
    BY <1>1, <2>1, EventsNext
<1>3. /\ stream' = {} \/ \E q \in Seq(FeedEntry) : stream' = {q}
      /\ stale' \in 0..Len(Events')
  BY <1>1, <1>2, Zenon DEF EventsRight
<1>4. ASSUME NEW j \in DOMAIN Events'
      PROVE  /\ Events'[j].id <= toolRuns' /\ (j > stale' => Kept(Events'[j].id, ledger', toolRuns'))
             /\ \A i \in DOMAIN ledger' :
                  ledger'[i].id = Events'[j].id /\ ~Touched(Events', ledger'[i].id, j) => Events'[j] = ledger'[i]
  <2>1. /\ Events[j].id <= toolRuns /\ (j > stale => Kept(Events[j].id, ledger, toolRuns))
        /\ \A i \in DOMAIN ledger :
             ledger[i].id = Events[j].id /\ ~Touched(Events, ledger[i].id, j) => Events[j] = ledger[i]
    BY <1>2, <1>4 DEF EventsRight
  <2>2. QED
    BY <1>1, <1>2, <2>1, Zenon
<1>5. LedgerRight'
  BY <1>1, Zenon DEF LedgerRight
<1>6. QED
  BY <1>2, <1>3, <1>4, <1>5, Zenon DEF EventsRight

\* A request is sent; one for a new filter is awaited.
LEMMA CallSent ==
  ASSUME FeedInv, NEW do \in {"list", "clear"}, NEW f \in FeedFilters, IsLonger(calls', calls, FeedCall(do, f)),
         UNCHANGED <<ledger, toolRuns, stream, shown, feedErrors, stale, behind>>,
         filter' = filter \/ (do = "list" /\ filter' = f)
  PROVE  FeedInv'
<1> DEFINE call == FeedCall(do, f)
<1>1. /\ call \in FeedRequest /\ call.do = do /\ call.filter = f /\ call.pc = "sent" /\ call.list = <<>>
      /\ call.knows = 0
  BY DEF FeedCall, FeedRequest
<1>2. IsLonger(calls', calls, call)
  OBVIOUS
<1> HIDE DEF call
<1>3. /\ calls \in Seq(FeedRequest) /\ EventsRight /\ LedgerRight /\ ShownHolds /\ IsPage(shown, toolRuns)
      /\ filter \in FeedFilters
  BY DEF FeedInv
<1>4. /\ calls' \in Seq(FeedRequest) /\ Len(calls) \in Nat /\ DOMAIN calls = 1..Len(calls)
      /\ DOMAIN calls' = 1..(Len(calls) + 1)
      /\ calls'[Len(calls) + 1] = call /\ \A i \in 1..Len(calls) : calls'[i] = calls[i]
  BY <1>1, <1>2, <1>3, LongerFacts
<1>5. \A k \in DOMAIN calls' : k = Len(calls) + 1 \/ k \in DOMAIN calls
  BY <1>4
<1>6. Events' = Events /\ EventsRight' /\ LedgerRight'
  BY <1>3, FeedStays
<1>9. ASSUME NEW k \in DOMAIN calls' PROVE CallRight(calls'[k], Events', ledger', toolRuns')
  <2>1. CASE k = Len(calls) + 1
    <3>1. calls'[k] = call
      BY <1>4, <2>1
    <3>2. Len(Events) \in Nat /\ toolRuns \in Nat
      BY <1>3, EventsFacts DEF LedgerRight
    <3>3. IsPage(<<>>, toolRuns)
      <4>1. <<>> \in Seq(FeedEntry) /\ Len(<<>>) = 0 /\ DOMAIN <<>> = {} /\ FeedCap \in Nat
        BY LensFeedAssumption
      <4>2. QED
        BY <4>1 DEF IsPage
    <3>4. CallRight(call, Events, ledger, toolRuns)
      BY <1>1, <3>2, <3>3 DEF CallRight
    <3>5. QED
      BY <1>6, <3>1, <3>4, Zenon
  <2>2. CASE k \in DOMAIN calls
    <3>1. calls'[k] = calls[k] /\ CallRight(calls[k], Events, ledger, toolRuns)
      BY <1>4, <2>2 DEF FeedInv
    <3>2. QED
      BY <1>6, <3>1, Zenon
  <2>3. QED
    BY <1>5, <1>9, <2>1, <2>2
<1>10. ShownHolds'
  <2>1. ASSUME ~behind', \A k \in DOMAIN calls' : ~Awaits(calls'[k], filter')
        PROVE  Right(shown', 0, filter', Events', ledger', toolRuns')
    <3>1. ~Awaits(call, filter')
      BY <1>4, <2>1
    <3>2. filter' = filter
      BY <1>1, <3>1 DEF Awaits
    <3>3. ASSUME NEW k \in DOMAIN calls PROVE ~Awaits(calls[k], filter)
      <4>1. k \in DOMAIN calls' /\ calls'[k] = calls[k]
        BY <1>4, <3>3
      <4>2. QED
        BY <2>1, <3>2, <4>1, Zenon
    <3>4. Right(shown, 0, filter, Events, ledger, toolRuns)
      BY <1>3, <2>1, <3>3 DEF ShownHolds
    <3>5. QED
      BY <1>6, <3>2, <3>4, Zenon
  <2>2. QED
    BY <2>1 DEF ShownHolds
<1>11. filter' \in FeedFilters /\ behind' \in BOOLEAN /\ feedErrors' \in 0..MaxFeedErrors /\ IsPage(shown', toolRuns')
  <2>1. filter' \in FeedFilters
    BY <1>3
  <2>2. QED
    BY <2>1, Zenon DEF FeedInv
<1>12. QED
  BY <1>4, <1>6, <1>9, <1>10, <1>11 DEF FeedInv

\* What the user does, and a stream that breaks.
LEMMA FeedUsed ==
  ASSUME FeedInv, StreamBreaks \/ (\E f \in FeedFilters : SelectFilter(f)) \/ RefreshFeed \/ PauseOrResume \/ handleClearActivity
  PROVE  FeedInv'
<1>1. CASE StreamBreaks
  <2>1. /\ CloseStream /\ UNCHANGED <<ledger, toolRuns, filter, shown>>
        /\ feedErrors < MaxFeedErrors /\ feedErrors' = feedErrors + 1
    BY <1>1 DEF StreamBreaks, FeedError, feedServer, feedUser
  <2>2. feedErrors' \in 0..MaxFeedErrors
    BY <2>1, LensFeedAssumption DEF FeedInv
  <2>3. QED
    BY <2>1, <2>2, FeedStreamCloses
<1>2. CASE PauseOrResume
  <2>1. CloseStream /\ UNCHANGED <<ledger, toolRuns, filter, shown, feedErrors>>
    BY <1>2 DEF PauseOrResume, feedServer
  <2>2. QED
    BY <2>1, FeedStreamCloses DEF FeedInv
<1>3. ASSUME NEW f \in FeedFilters, SelectFilter(f) PROVE FeedInv'
  <2>1. /\ IsLonger(calls', calls, FeedCall("list", f)) /\ filter' = f
        /\ UNCHANGED <<ledger, toolRuns, stream, shown, feedErrors, stale, behind>>
    BY <1>3 DEF SelectFilter, fetchEvents, feedServer, IsLonger
  <2>2. QED
    BY <2>1, CallSent
<1>4. CASE RefreshFeed
  <2>1. /\ IsLonger(calls', calls, FeedCall("list", filter)) /\ filter' = filter
        /\ UNCHANGED <<ledger, toolRuns, stream, shown, feedErrors, stale, behind>>
    BY <1>4 DEF RefreshFeed, fetchEvents, feedServer, IsLonger
  <2>2. QED
    BY <2>1, CallSent DEF FeedInv
<1>5. CASE handleClearActivity
  <2>1. /\ IsLonger(calls', calls, FeedCall("clear", filter)) /\ filter' = filter
        /\ UNCHANGED <<ledger, toolRuns, stream, shown, feedErrors, stale, behind>>
    BY <1>5 DEF handleClearActivity, feedServer, IsLonger
  <2>2. QED
    BY <2>1, CallSent DEF FeedInv
<1>6. QED
  BY <1>1, <1>2, <1>3, <1>4, <1>5

\* An event is taken: the others are one nearer.
LEMMA EventTaken ==
  ASSUME FeedInv, Receive
  PROVE  FeedInv'
<1> DEFINE q == Events
           p == Events'
           entry == q[1]
<1>1. /\ EventsRight /\ LedgerRight /\ ShownHolds /\ IsPage(shown, toolRuns) /\ toolRuns \in Nat
      /\ calls \in Seq(FeedRequest) /\ \A k \in DOMAIN calls : CallRight(calls[k], q, ledger, toolRuns)
  BY DEF FeedInv, LedgerRight
<1>2. /\ q \in Seq(FeedEntry) /\ Len(q) \in Nat /\ DOMAIN q = 1..Len(q)
      /\ (stream = {} \/ stream = {q})
  BY <1>1, EventsFacts
<1>3. /\ q # <<>> /\ stream' = {Tail(q)}
      /\ IF paused THEN UNCHANGED shown ELSE shown' = Merged(Head(q))
      /\ behind' = (behind \/ paused \/ stale > 0 \/ LosesSight(Head(q)))
      /\ stale' = IF stale > 0 THEN stale - 1 ELSE 0
      /\ calls' = [k \in DOMAIN calls |->
                     IF calls[k].knows > 0 THEN [calls[k] EXCEPT !.knows = @ - 1]
                     ELSE [calls[k] EXCEPT !.over = @ \/ calls[k].pc = "served"]]
      /\ UNCHANGED <<ledger, toolRuns, filter, feedErrors>>
  BY <1>2 DEF Receive, feedServer, feedUser
<1>4. p = Tail(q)
  BY <1>3, EventsNext
<1>5. Head(q) = entry /\ entry \in FeedEntry /\ 1 \in DOMAIN q
  BY <1>2, <1>3, HeadTailProperties
<1> HIDE DEF q, p
<1>6. /\ p \in Seq(FeedEntry) /\ Len(p) = Len(q) - 1 /\ DOMAIN p = 1..(Len(q) - 1)
      /\ \A i \in 1..(Len(q) - 1) : p[i] = q[i + 1]
  BY <1>2, <1>3, <1>4, TailFacts
<1> HIDE DEF entry
<1>7. \A i \in DOMAIN p : i \in Nat /\ i + 1 \in DOMAIN q /\ p[i] = q[i + 1]
  BY <1>2, <1>6
<1>8. \A i \in DOMAIN q : i = 1 \/ (i \in Nat /\ i > 1 /\ i - 1 \in DOMAIN p /\ p[i - 1] = q[i])
  <2>1. ASSUME NEW i \in DOMAIN q, i # 1 PROVE i \in Nat /\ i > 1 /\ i - 1 \in DOMAIN p /\ p[i - 1] = q[i]
    <3>1. i \in Nat /\ i > 1 /\ i - 1 \in 1..(Len(q) - 1) /\ (i - 1) + 1 = i
      BY <1>2, <2>1
    <3>2. p[i - 1] = q[(i - 1) + 1]
      BY <1>6, <3>1
    <3>3. QED
      BY <1>6, <3>1, <3>2, Zenon
  <2>2. QED
    BY <2>1
<1>9. \A id : \A c \in Nat : Touched(q, id, c + 1) => Touched(p, id, c)
  <2>1. ASSUME NEW id, NEW c \in Nat, Touched(q, id, c + 1) PROVE Touched(p, id, c)
    <3>1. PICK i \in DOMAIN q : i > c + 1 /\ q[i].id = id
      BY <2>1 DEF Touched
    <3>2. i - 1 \in DOMAIN p /\ i - 1 > c /\ p[i - 1] = q[i]
      <4>1. i \in Nat /\ i # 1
        BY <1>2, <3>1
      <4>2. QED
        BY <1>8, <3>1, <4>1
    <3>3. QED
      BY <3>1, <3>2 DEF Touched
  <2>2. QED
    BY <2>1
<1>10. \A id : Touched(q, id, 0) => Touched(p, id, 0) \/ id = entry.id
  <2>1. ASSUME NEW id, Touched(q, id, 0), id # entry.id PROVE Touched(p, id, 0)
    <3>1. PICK i \in DOMAIN q : i > 0 /\ q[i].id = id
      BY <2>1 DEF Touched
    <3>2. i # 1
      BY <2>1, <3>1 DEF entry
    <3>3. i - 1 \in DOMAIN p /\ i - 1 > 0 /\ p[i - 1] = q[i]
      BY <1>8, <3>2
    <3>4. QED
      BY <3>1, <3>3 DEF Touched
  <2>2. QED
    BY <2>1
<1>11. stale \in Nat /\ stale <= Len(q) /\ stale' \in 0..Len(p)
  <2>1. stale \in 0..Len(q)
    BY <1>1 DEF EventsRight, q
  <2>2. Len(q) >= 1
    BY <1>2, <1>5
  <2>3. QED
    BY <1>2, <1>3, <1>6, <2>1, <2>2
<1>12. \A j \in DOMAIN q :
         /\ q[j].id <= toolRuns /\ (j > stale => Kept(q[j].id, ledger, toolRuns))
         /\ \A i \in DOMAIN ledger :
              ledger[i].id = q[j].id /\ ~Touched(q, ledger[i].id, j) => q[j] = ledger[i]
  BY <1>1 DEF EventsRight, q
<1>13. ASSUME NEW j \in DOMAIN p
       PROVE  /\ p[j].id <= toolRuns /\ (j > stale' => Kept(p[j].id, ledger, toolRuns))
              /\ \A i \in DOMAIN ledger :
                   ledger[i].id = p[j].id /\ ~Touched(p, ledger[i].id, j) => p[j] = ledger[i]
  <2>1. j \in Nat /\ j + 1 \in DOMAIN q /\ p[j] = q[j + 1]
    BY <1>7
  <2>2. j > stale' => j + 1 > stale
    BY <1>3, <1>11, <2>1
  <2>3. /\ q[j + 1].id <= toolRuns /\ (j + 1 > stale => Kept(q[j + 1].id, ledger, toolRuns))
        /\ \A i \in DOMAIN ledger :
              ledger[i].id = q[j + 1].id /\ ~Touched(q, ledger[i].id, j + 1) => q[j + 1] = ledger[i]
    BY <1>12, <2>1
  <2>4. \A i \in DOMAIN ledger : ~Touched(p, ledger[i].id, j) => ~Touched(q, ledger[i].id, j + 1)
    BY <1>9, <2>1
  <2>5. QED
    BY <2>1, <2>2, <2>3, <2>4
<1>14. LedgerRight'
  BY <1>1, <1>3 DEF LedgerRight
<1>15. EventsRight'
  <2>1. /\ Events' = p /\ ledger' = ledger /\ toolRuns' = toolRuns
        /\ stream' = {} \/ \E r \in Seq(FeedEntry) : stream' = {r}
    BY <1>3, <1>4, <1>6 DEF p
  <2>2. ASSUME NEW j \in DOMAIN Events'
        PROVE  /\ Events'[j].id <= toolRuns' /\ (j > stale' => Kept(Events'[j].id, ledger', toolRuns'))
               /\ \A i \in DOMAIN ledger' :
                    ledger'[i].id = Events'[j].id /\ ~Touched(Events', ledger'[i].id, j) => Events'[j] = ledger'[i]
    BY <1>13, <2>1
  <2>3. stale' \in 0..Len(Events')
    BY <1>11, <2>1
  <2>4. QED
    BY <2>1, <2>2, <2>3, Zenon DEF EventsRight
<1>16. \A page, f : \A c \in Nat :
         Right(page, c + 1, f, q, ledger, toolRuns) => Right(page, c, f, p, ledger, toolRuns)
  BY <1>9 DEF Right
<1>17. DOMAIN calls = 1..Len(calls) /\ Len(calls) \in Nat /\ \A k \in DOMAIN calls : calls[k] \in FeedRequest
  BY <1>1, LenProperties, ElementOfSeq
<1>18. DOMAIN calls' = DOMAIN calls
  BY <1>3
<1>19. ASSUME NEW k \in DOMAIN calls
       PROVE  /\ calls'[k] \in FeedRequest /\ CallRight(calls'[k], p, ledger, toolRuns)
              /\ calls'[k].do = calls[k].do /\ calls'[k].filter = calls[k].filter /\ calls'[k].pc = calls[k].pc
  <2>1. calls[k] \in FeedRequest /\ CallRight(calls[k], q, ledger, toolRuns)
    BY <1>1, <1>17
  <2>2. DOMAIN calls[k] = {"do", "filter", "pc", "list", "knows", "over"} /\ calls[k].knows \in Nat
    BY <2>1 DEF FeedRequest
  <2>3. CASE calls[k].knows > 0
    <3>1. calls'[k] = [calls[k] EXCEPT !.knows = calls[k].knows - 1]
      BY <1>3, <2>3
    <3>2. /\ calls'[k].do = calls[k].do /\ calls'[k].filter = calls[k].filter /\ calls'[k].pc = calls[k].pc
          /\ calls'[k].list = calls[k].list /\ calls'[k].over = calls[k].over /\ calls'[k].knows = calls[k].knows - 1
      BY <2>2, <3>1
    <3>3. calls'[k].knows \in Nat /\ calls'[k].knows + 1 = calls[k].knows /\ calls'[k].knows <= Len(p)
      <4>1. calls[k].knows <= Len(q)
        BY <2>1 DEF CallRight
      <4>2. QED
        BY <1>2, <1>6, <2>2, <2>3, <3>2, <4>1
    <3>4. calls'[k] \in FeedRequest
      <4>1. calls[k].knows - 1 \in Nat
        BY <2>2, <2>3
      <4>2. QED
        BY <2>1, <3>1, <4>1 DEF FeedRequest
    <3>5. Replied_(calls'[k]) = Replied_(calls[k])
      BY <3>2 DEF Replied_
    <3>6. ASSUME calls'[k].pc = "served", ~calls'[k].over, NEW f \in FeedFilters, calls'[k].do = "list" => f = calls'[k].filter
          PROVE  Right(Replied_(calls'[k]), calls'[k].knows, f, p, ledger, toolRuns)
      <4>1. Right(Replied_(calls[k]), calls[k].knows, f, q, ledger, toolRuns)
        BY <2>1, <3>2, <3>6 DEF CallRight
      <4>2. Right(Replied_(calls'[k]), calls'[k].knows + 1, f, q, ledger, toolRuns)
        BY <3>3, <3>5, <4>1
      <4>3. QED
        BY <1>16, <3>3, <4>2
    <3>7. IsPage(calls'[k].list, toolRuns)
      BY <2>1, <3>2 DEF CallRight
    <3>8. QED
      BY <3>2, <3>3, <3>4, <3>6, <3>7 DEF CallRight
  <2>4. CASE ~(calls[k].knows > 0)
    <3> DEFINE b == calls[k].over \/ calls[k].pc = "served"
    <3>1. calls'[k] = [calls[k] EXCEPT !.over = b]
      BY <1>3, <2>4
    <3>2. /\ calls'[k].do = calls[k].do /\ calls'[k].filter = calls[k].filter /\ calls'[k].pc = calls[k].pc
          /\ calls'[k].list = calls[k].list /\ calls'[k].over = b /\ calls'[k].knows = calls[k].knows
      BY <2>2, <3>1
    <3>3. calls'[k].knows = 0 /\ 0 <= Len(p) /\ (calls'[k].pc = "served" => calls'[k].over)
      <4>1. 0 <= Len(p)
        BY <1>2, <1>5, <1>6
      <4>2. calls'[k].knows = 0
        BY <2>2, <2>4, <3>2
      <4>3. calls'[k].pc = "served" => calls'[k].over
        BY <3>2, Zenon
      <4>4. QED
        BY <4>1, <4>2, <4>3
    <3>4. calls'[k] \in FeedRequest
      <4>1. b \in BOOLEAN
        OBVIOUS
      <4> HIDE DEF b
      <4>2. QED
        BY <2>1, <3>1, <4>1 DEF FeedRequest
    <3>5. IsPage(calls'[k].list, toolRuns)
      BY <2>1, <3>2 DEF CallRight
    <3>6. QED
      BY <3>2, <3>3, <3>4, <3>5 DEF CallRight
  <2>5. QED
    BY <2>3, <2>4
<1>20. calls' \in Seq(FeedRequest)
  <2>1. calls' \in [1..Len(calls) -> FeedRequest]
    BY <1>3, <1>17, <1>19
  <2>2. QED
    BY <1>17, <2>1, SeqDef
<1>21. \A k \in DOMAIN calls' : CallRight(calls'[k], Events', ledger', toolRuns')
  BY <1>3, <1>18, <1>19 DEF p
<1>22. entry.id <= toolRuns
  BY <1>5, <1>12 DEF entry
<1>23. IsPage(shown', toolRuns')
  <2>1. CASE paused
    BY <1>1, <1>3, <2>1
  <2>2. CASE ~paused
    <3>1. shown' = Merged(entry)
      BY <1>3, <1>5, <2>2
    <3>2. IsPage(shown', toolRuns)
      BY <1>1, <1>5, <1>22, <3>1, MergedFacts
    <3>3. QED
      BY <1>3, <3>2
  <2>3. QED
    BY <2>1, <2>2
<1>24. ShownHolds'
  <2>1. ASSUME ~behind', \A k \in DOMAIN calls' : ~Awaits(calls'[k], filter')
        PROVE  Right(shown', 0, filter', Events', ledger', toolRuns')
    <3>1. ~behind /\ ~paused /\ ~(stale > 0) /\ ~LosesSight(entry) /\ shown' = Merged(entry)
      BY <1>3, <1>5, <2>1
    <3>2. ASSUME NEW k \in DOMAIN calls PROVE ~Awaits(calls[k], filter)
      BY <1>3, <1>18, <1>19, <2>1, <3>2 DEF Awaits
    <3>3. Right(shown, 0, filter, q, ledger, toolRuns)
      BY <1>1, <3>1, <3>2 DEF ShownHolds, q
    <3>4. Kept(entry.id, ledger, toolRuns)
      <4>1. 1 > stale
        BY <1>11, <3>1
      <4>2. QED
        BY <1>5, <1>12, <4>1 DEF entry
    <3>5. \A i \in DOMAIN ledger : ledger[i].id = entry.id /\ ~Touched(p, ledger[i].id, 0) => entry = ledger[i]
      <4>1. \A id : Touched(q, id, 1) => Touched(p, id, 0)
        <5>1. 0 + 1 = 1 /\ 0 \in Nat
          OBVIOUS
        <5>2. \A id : Touched(q, id, 0 + 1) => Touched(p, id, 0)
          BY <1>9, <5>1
        <5>3. QED
          BY <5>1, <5>2
      <4>2. \A i \in DOMAIN ledger : ledger[i].id = entry.id /\ ~Touched(q, ledger[i].id, 1) => entry = ledger[i]
        BY <1>5, <1>12 DEF entry
      <4>3. QED
        BY <4>1, <4>2
    <3>6. Right(shown', 0, filter, p, ledger, toolRuns)
      BY <1>1, <1>5, <1>10, <1>22, <3>1, <3>3, <3>4, <3>5, MergedRight
    <3>7. QED
      BY <1>3, <3>6 DEF p
  <2>2. QED
    BY <2>1 DEF ShownHolds
<1>25. filter' \in FeedFilters /\ behind' \in BOOLEAN /\ feedErrors' \in 0..MaxFeedErrors
  <2>1. filter' \in FeedFilters /\ feedErrors' \in 0..MaxFeedErrors
    BY <1>3 DEF FeedInv
  <2>2. behind' \in BOOLEAN
    BY <1>3
  <2>3. QED
    BY <2>1, <2>2
<1>26. QED
  BY <1>14, <1>15, <1>20, <1>21, <1>23, <1>24, <1>25, Zenon DEF FeedInv

\* A listing is in line with the ledger that it was taken from.
LEMMA ListingRight ==
  ASSUME LedgerRight, NEW f, NEW g, g = get_events(f, FeedLimit)
  PROVE  /\ IsPage(g, toolRuns)
         /\ \A c, q : Right(g, c, f, q, ledger, toolRuns)
<1>1. /\ ledger \in Seq(FeedEntry) /\ toolRuns \in Nat /\ Len(ledger) \in Nat /\ Len(ledger) <= toolRuns
      /\ DOMAIN ledger = 1..Len(ledger)
      /\ \A j \in DOMAIN ledger : ledger[j].id = toolRuns - Len(ledger) + j
  BY LenProperties DEF LedgerRight
<1>2. FeedLimit \in Nat /\ FeedCap \in Nat /\ FeedLimit <= FeedCap
  BY LensFeedAssumption
<1>3. \A j \in DOMAIN ledger : ledger[j].id <= toolRuns /\ ledger[j].id > toolRuns - Len(ledger)
  BY <1>1
<1>4. \A i, j \in DOMAIN ledger : (i < j => ledger[i].id < ledger[j].id) /\ (ledger[i].id = ledger[j].id => i = j)
  <2>1. ASSUME NEW i \in DOMAIN ledger, NEW j \in DOMAIN ledger
        PROVE  (i < j => ledger[i].id < ledger[j].id) /\ (ledger[i].id = ledger[j].id => i = j)
    <3>1. ledger[i].id = toolRuns - Len(ledger) + i /\ ledger[j].id = toolRuns - Len(ledger) + j
      BY <1>1
    <3>2. i \in Nat /\ j \in Nat
      BY <1>1
    <3>3. QED
      BY <1>1, <3>1, <3>2
  <2>2. QED
    BY <2>1
<1>5. Rising(ledger)
  BY <1>4 DEF Rising
<1>6. /\ g \in Seq(FeedEntry) /\ Len(g) <= FeedLimit
      /\ \A i, j \in DOMAIN g : g[i].id = g[j].id => i = j
      /\ \A i \in DOMAIN g : \E j \in DOMAIN ledger : g[i] = ledger[j] /\ Matches(ledger[j], f)
      /\ \A j \in DOMAIN ledger : Matches(ledger[j], f) =>
              \/ \E i \in DOMAIN g : g[i] = ledger[j]
              \/ \A S : (\A n : n \in S <=> \E i \in DOMAIN g : n = g[i].id /\ n > ledger[j].id)
                        => Cardinality(S) >= FeedLimit
  <2>1. ledger \in Seq(FeedEntry)
    BY <1>1
  <2>2. IsNewest(g, f)
    BY <1>5, <2>1, NewestListed
  <2>3. QED
    BY <2>2, Zenon DEF IsNewest
<1>7. IsPage(g, toolRuns)
  <2>1. Len(g) <= FeedCap
    BY <1>2, <1>6, LenProperties
  <2>2. \A i \in DOMAIN g : g[i].id <= toolRuns
    BY <1>3, <1>6
  <2>3. QED
    BY <1>6, <2>1, <2>2 DEF IsPage
<1>8. \A i \in DOMAIN g : Kept(g[i].id, ledger, toolRuns) /\ Matches(g[i], f)
  BY <1>3, <1>6 DEF Kept
<1>9. ASSUME NEW j \in DOMAIN ledger
      PROVE  /\ \A i \in DOMAIN g : g[i].id = ledger[j].id => g[i] = ledger[j]
             /\ Matches(ledger[j], f) =>
                  \/ ledger[j].id \in Seen(g, f)
                  \/ Cardinality(NewerSeen(g, f, ledger[j].id)) >= FeedLimit
  <2>1. \A i \in DOMAIN g : g[i].id = ledger[j].id => g[i] = ledger[j]
    BY <1>4, <1>6
  <2>2. \A n : n \in NewerSeen(g, f, ledger[j].id) <=> \E i \in DOMAIN g : n = g[i].id /\ n > ledger[j].id
    BY <1>8 DEF NewerSeen, Seen
  <2>3. ASSUME Matches(ledger[j], f)
        PROVE  ledger[j].id \in Seen(g, f) \/ Cardinality(NewerSeen(g, f, ledger[j].id)) >= FeedLimit
    <3>1. CASE \E i \in DOMAIN g : g[i] = ledger[j]
      BY <1>8, <3>1 DEF Seen
    <3>2. CASE \A S : (\A n : n \in S <=> \E i \in DOMAIN g : n = g[i].id /\ n > ledger[j].id)
                       => Cardinality(S) >= FeedLimit
      BY <2>2, <3>2, Zenon
    <3>3. QED
      BY <1>6, <2>3, <3>1, <3>2
  <2>4. QED
    BY <2>1, <2>3
<1>10. QED
  BY <1>7, <1>8, <1>9 DEF Right

LEMMA FeedListed ==
  ASSUME FeedInv, NEW k \in DOMAIN calls, Serve(k), ServeListing(k)
  PROVE  FeedInv'
<1> DEFINE call == calls[k]
           q == Events
<1>1. /\ EventsRight /\ LedgerRight /\ ShownHolds /\ IsPage(shown, toolRuns) /\ toolRuns \in Nat
      /\ calls \in Seq(FeedRequest) /\ \A i \in DOMAIN calls : CallRight(calls[i], q, ledger, toolRuns)
  BY DEF FeedInv, LedgerRight
<1>2. /\ q \in Seq(FeedEntry) /\ Len(q) \in Nat /\ OnTheirWay = Len(q)
      /\ (stream = {} \/ stream = {q}) /\ (stream = {} => q = <<>>)
  BY <1>1, EventsFacts
<1>3. /\ call.do = "list" /\ call.pc = "sent"
      /\ UNCHANGED <<toolRuns, filter, stream, shown, behind, ledger, stale>>
  BY DEF Serve, ServeListing, feedUser
<1>4. Events' = Events /\ EventsRight' /\ LedgerRight'
  BY <1>1, <1>3, FeedStays
<1>5. PICK instead \in BOOLEAN :
        /\ IF instead THEN FeedError ELSE UNCHANGED feedErrors
        /\ calls' = [calls EXCEPT ![k] = [@ EXCEPT !.pc = "served", !.knows = OnTheirWay, !.over = instead,
                       !.list = IF instead THEN list_agent_tools ELSE get_events(call.filter, FeedLimit)]]
  BY DEF ServeListing
<1>6. PICK g : g = IF instead THEN list_agent_tools ELSE get_events(call.filter, FeedLimit)
  OBVIOUS
<1>7. IsPage(g, toolRuns) /\ (~instead => \A c, r : Right(g, c, call.filter, r, ledger, toolRuns))
  <2>1. CASE instead
    <3>1. g = get_events(Everything, FeedLimit)
      BY <1>6, <2>1 DEF list_agent_tools
    <3>2. QED
      BY <1>1, <2>1, <3>1, ListingRight
  <2>2. CASE ~instead
    <3>1. g = get_events(call.filter, FeedLimit)
      BY <1>6, <2>2
    <3>2. QED
      BY <1>1, <3>1, ListingRight
  <2>3. QED
    BY <2>1, <2>2
<1>8. feedErrors' \in 0..MaxFeedErrors
  BY <1>5, LensFeedAssumption DEF FeedInv, FeedError
<1> DEFINE new == [call EXCEPT !.pc = "served", !.knows = OnTheirWay, !.over = instead, !.list = g]
<1>9. calls' = [calls EXCEPT ![k] = new]
  BY <1>5, <1>6, Zenon
<1>10. /\ DOMAIN calls = 1..Len(calls) /\ Len(calls) \in Nat /\ call \in FeedRequest
  BY <1>1, LenProperties, ElementOfSeq
<1> HIDE DEF q
<1>11. /\ new \in FeedRequest /\ new.do = call.do /\ new.filter = call.filter /\ new.pc = "served"
       /\ new.list = g /\ new.knows = Len(q) /\ new.over = instead
  <2>1. g \in Seq(FeedEntry)
    BY <1>7 DEF IsPage
  <2>2. QED
    BY <1>2, <1>10, <2>1 DEF FeedRequest
<1> HIDE DEF new, call
<1>12. /\ calls' \in Seq(FeedRequest) /\ DOMAIN calls' = DOMAIN calls
       /\ \A i \in DOMAIN calls : calls'[i] = IF i = k THEN new ELSE calls[i]
  <2>1. calls' \in Seq(FeedRequest)
    BY <1>1, <1>9, <1>10, <1>11, ExceptSeq
  <2>2. QED
    BY <1>9, <2>1
<1>13. CallRight(new, q, ledger, toolRuns)
  <2>1. IsPage(new.list, toolRuns) /\ new.knows <= Len(q)
    BY <1>2, <1>7, <1>11
  <2>2. Replied_(new) = g
    BY <1>3, <1>11 DEF Replied_
  <2>3. ASSUME ~new.over, NEW f \in FeedFilters, new.do = "list" => f = new.filter
        PROVE  Right(Replied_(new), new.knows, f, q, ledger, toolRuns)
    <3>1. f = call.filter /\ ~instead
      BY <1>3, <1>11, <2>3
    <3>2. QED
      BY <1>7, <2>2, <3>1
  <2>4. QED
    BY <2>1, <2>3 DEF CallRight
<1>14. ASSUME NEW i \in DOMAIN calls' PROVE CallRight(calls'[i], Events', ledger', toolRuns')
  <2>1. CallRight(calls'[i], q, ledger, toolRuns)
    BY <1>1, <1>12, <1>13
  <2>2. QED
    BY <1>3, <1>4, <2>1, Zenon DEF q
<1>15. ShownHolds'
  <2>1. ASSUME ~behind', \A i \in DOMAIN calls' : ~Awaits(calls'[i], filter')
        PROVE  Right(shown', 0, filter', Events', ledger', toolRuns')
    <3>1. ASSUME NEW i \in DOMAIN calls PROVE ~Awaits(calls[i], filter)
      <4>1. ~Awaits(calls'[i], filter)
        BY <1>3, <1>12, <2>1
      <4>2. CASE i = k
        BY <1>3, <1>11, <1>12, <4>1, <4>2 DEF Awaits, call
      <4>3. CASE i # k
        BY <1>12, <4>1, <4>3
      <4>4. QED
        BY <4>2, <4>3
    <3>2. Right(shown, 0, filter, Events, ledger, toolRuns)
      BY <1>1, <1>3, <2>1, <3>1 DEF ShownHolds
    <3>3. QED
      BY <1>3, <1>4, <3>2, Zenon
  <2>2. QED
    BY <2>1 DEF ShownHolds
<1>16. filter' \in FeedFilters /\ behind' \in BOOLEAN /\ IsPage(shown', toolRuns')
  BY <1>1, <1>3 DEF FeedInv
<1>17. QED
  BY <1>4, <1>8, <1>12, <1>14, <1>15, <1>16, Zenon DEF FeedInv

LEMMA FeedCleared ==
  ASSUME FeedInv, NEW k \in DOMAIN calls, Serve(k), ServeClear(k)
  PROVE  FeedInv'
<1> DEFINE old == OutdatedCalls(calls)
           new == [old[k] EXCEPT !.pc = "served", !.knows = OnTheirWay]
<1>1. /\ EventsRight /\ LedgerRight /\ IsPage(shown, toolRuns) /\ toolRuns \in Nat
      /\ calls \in Seq(FeedRequest) /\ filter \in FeedFilters /\ behind \in BOOLEAN
      /\ feedErrors \in 0..MaxFeedErrors
      /\ \A i \in DOMAIN calls : CallRight(calls[i], Events, ledger, toolRuns)
  BY DEF FeedInv, LedgerRight
<1>2. /\ Events \in Seq(FeedEntry) /\ Len(Events) \in Nat /\ OnTheirWay = Len(Events)
      /\ DOMAIN Events = 1..Len(Events) /\ (stream = {} \/ stream = {Events}) /\ (stream = {} => Events = <<>>)
  BY <1>1, EventsFacts
<1>3. /\ calls[k].do = "clear" /\ calls[k].pc = "sent" /\ ledger' = <<>> /\ stale' = Len(Events)
      /\ calls' = [old EXCEPT ![k] = new]
      /\ UNCHANGED <<toolRuns, filter, stream, shown, behind, feedErrors>>
  BY <1>2 DEF Serve, ServeClear, feedUser
<1>4. Events' = Events
  BY <1>2, <1>3, EventsNext
<1>5. /\ old \in Seq(FeedRequest) /\ DOMAIN old = DOMAIN calls
      /\ \A i \in DOMAIN calls :
           /\ old[i].do = calls[i].do /\ old[i].filter = calls[i].filter /\ old[i].pc = calls[i].pc
           /\ old[i].list = calls[i].list /\ old[i].knows = 0 /\ (old[i].pc = "served" => old[i].over)
  BY <1>1, OutdatedFacts
<1>6. DOMAIN old = 1..Len(old) /\ k \in 1..Len(old) /\ old[k] \in FeedRequest
  BY <1>5, LenProperties, ElementOfSeq
<1> HIDE DEF old
<1>7. /\ new \in FeedRequest /\ new.do = "clear" /\ new.pc = "served" /\ new.list = calls[k].list
      /\ new.knows = Len(Events)
  BY <1>2, <1>3, <1>5, <1>6 DEF FeedRequest
<1> HIDE DEF new
<1>8. /\ calls' \in Seq(FeedRequest) /\ DOMAIN calls' = DOMAIN calls
      /\ \A i \in DOMAIN calls : calls'[i] = IF i = k THEN new ELSE old[i]
  <2>1. calls' \in Seq(FeedRequest)
    BY <1>3, <1>5, <1>6, <1>7, ExceptSeq
  <2>2. QED
    BY <1>3, <1>5, <2>1
<1>9. LedgerRight'
  <2>1. <<>> \in Seq(FeedEntry) /\ Len(<<>>) = 0 /\ DOMAIN <<>> = {} /\ FeedKeep \in Nat
    BY LensFeedAssumption
  <2>2. QED
    BY <1>1, <1>3, <2>1 DEF LedgerRight
<1>10. EventsRight'
  <2>1. DOMAIN ledger' = {}
    BY <1>3
  <2>2. stream' = {} \/ \E q \in Seq(FeedEntry) : stream' = {q}
    BY <1>1, <1>3 DEF EventsRight
  <2>3. stale' \in 0..Len(Events') /\ \A j \in DOMAIN Events' : ~(j > stale')
    BY <1>2, <1>3, <1>4
  <2>4. \A j \in DOMAIN Events' : Events'[j].id <= toolRuns'
    BY <1>1, <1>3, <1>4 DEF EventsRight
  <2>5. QED
    BY <2>1, <2>2, <2>3, <2>4 DEF EventsRight
<1>11. ASSUME NEW i \in DOMAIN calls' PROVE CallRight(calls'[i], Events', ledger', toolRuns')
  <2>1. IsPage(calls[i].list, toolRuns) /\ i \in DOMAIN calls
    BY <1>1, <1>8 DEF CallRight
  <2>2. CASE i = k
    <3>1. calls'[i] = new /\ IsPage(new.list, toolRuns') /\ new.knows <= Len(Events')
      BY <1>2, <1>3, <1>4, <1>7, <1>8, <2>1, <2>2
    <3>2. \A f : Right(Replied_(new), new.knows, f, Events', ledger', toolRuns')
      <4>1. Replied_(new) = <<>> /\ DOMAIN <<>> = {} /\ DOMAIN ledger' = {}
        BY <1>3, <1>7 DEF Replied_
      <4>2. QED
        BY <4>1 DEF Right
    <3>3. QED
      BY <3>1, <3>2 DEF CallRight
  <2>3. CASE i # k
    <3>1. calls'[i] = old[i] /\ IsPage(old[i].list, toolRuns') /\ old[i].knows <= Len(Events')
      BY <1>2, <1>3, <1>4, <1>5, <1>8, <2>1, <2>3
    <3>2. old[i].pc = "served" => old[i].over
      BY <1>5, <2>1
    <3>3. QED
      BY <3>1, <3>2 DEF CallRight
  <2>4. QED
    BY <2>2, <2>3
<1>12. ShownHolds'
  <2>1. k \in DOMAIN calls' /\ Awaits(calls'[k], filter')
    BY <1>7, <1>8 DEF Awaits
  <2>2. QED
    BY <2>1 DEF ShownHolds
<1>13. /\ IsPage(shown', toolRuns') /\ filter' \in FeedFilters /\ behind' \in BOOLEAN
       /\ feedErrors' \in 0..MaxFeedErrors
  BY <1>1, <1>3
<1>14. QED
  BY <1>8, <1>9, <1>10, <1>11, <1>12, <1>13, Zenon DEF FeedInv

LEMMA FeedReplied ==
  ASSUME FeedInv, NEW k \in DOMAIN calls, FeedReply(k) \/ FeedCallFails(k)
  PROVE  FeedInv'
<1> DEFINE call == calls[k]
<1>1. /\ EventsRight /\ LedgerRight /\ ShownHolds /\ IsPage(shown, toolRuns) /\ toolRuns \in Nat
      /\ calls \in Seq(FeedRequest) /\ filter \in FeedFilters /\ behind \in BOOLEAN
      /\ feedErrors \in 0..MaxFeedErrors
      /\ \A i \in DOMAIN calls : CallRight(calls[i], Events, ledger, toolRuns)
  BY DEF FeedInv, LedgerRight
<1>2. /\ IsWithout(calls', calls, k)
      /\ UNCHANGED <<ledger, toolRuns, filter, stream, stale>>
  BY DEF FeedReply, FeedCallFails, feedServer, feedUser, IsWithout
<1>3. Events' = Events /\ EventsRight' /\ LedgerRight'
  BY <1>1, <1>2, FeedStays
<1>4. /\ calls' \in Seq(FeedRequest) /\ \A i \in DOMAIN calls' : \E j \in DOMAIN calls : calls'[i] = calls[j]
      /\ \A j \in DOMAIN calls : j # k => \E i \in DOMAIN calls' : calls'[i] = calls[j]
  BY <1>1, <1>2, WithoutFacts
<1>5. ASSUME NEW i \in DOMAIN calls' PROVE CallRight(calls'[i], Events', ledger', toolRuns')
  <2>1. CallRight(calls'[i], Events, ledger, toolRuns)
    BY <1>1, <1>4
  <2>2. QED
    BY <1>2, <1>3, <2>1, Zenon
<1>6. feedErrors' \in 0..MaxFeedErrors
  BY <1>1, LensFeedAssumption DEF FeedReply, FeedCallFails, FeedError
<1>7. call \in FeedRequest /\ call.over \in BOOLEAN /\ CallRight(call, Events, ledger, toolRuns) /\ call.knows \in Nat
      /\ call.do \in {"list", "clear"}
  <2>1. call \in FeedRequest
    BY <1>1, LenProperties, ElementOfSeq
  <2>2. QED
    BY <1>1, <2>1 DEF FeedRequest
<1>8. IsPage(<<>>, toolRuns)
  <2>1. <<>> \in Seq(FeedEntry) /\ Len(<<>>) = 0 /\ DOMAIN <<>> = {} /\ FeedCap \in Nat
    BY LensFeedAssumption
  <2>2. QED
    BY <2>1 DEF IsPage
<1>9. CASE FeedReply(k)
  <2>1. /\ call.pc = "served" /\ shown' = Replied_(call)
        /\ behind' = (call.over \/ (call.do = "list" /\ call.filter # filter))
    BY <1>9 DEF FeedReply
  <2>2. IsPage(shown', toolRuns')
    <3>1. IsPage(call.list, toolRuns)
      BY <1>7 DEF CallRight
    <3>2. shown' = call.list \/ shown' = <<>>
      BY <2>1 DEF Replied_
    <3>3. QED
      BY <1>2, <1>8, <3>1, <3>2
  <2>3. ASSUME ~behind' PROVE Right(shown', 0, filter', Events', ledger', toolRuns')
    <3>1. Right(Replied_(call), call.knows, filter, Events, ledger, toolRuns)
      BY <1>1, <1>7, <2>1, <2>3 DEF CallRight
    <3>2. Events \in Seq(FeedEntry) /\ call.knows \in Int /\ 0 \in Int /\ 0 <= call.knows
      BY <1>1, <1>7, EventsFacts
    <3>3. Right(Replied_(call), 0, filter, Events, ledger, toolRuns)
      BY <3>1, <3>2, KnowsLess
    <3>4. QED
      BY <1>2, <1>3, <2>1, <3>3, Zenon
  <2>4. behind' \in BOOLEAN /\ ShownHolds'
    BY <2>1, <2>3 DEF ShownHolds
  <2>5. filter' \in FeedFilters
    BY <1>1, <1>2
  <2>6. QED
    BY <1>3, <1>4, <1>5, <1>6, <2>2, <2>4, <2>5, Zenon DEF FeedInv
<1>10. CASE FeedCallFails(k)
  <2>1. /\ shown' = IF call.do = "list" THEN <<>> ELSE shown
        /\ behind' = (behind \/ call.do = "list" \/ call.pc = "served")
    BY <1>10 DEF FeedCallFails
  <2>2. IsPage(shown', toolRuns')
    BY <1>1, <1>2, <1>8, <2>1
  <2>3. ASSUME ~behind', \A i \in DOMAIN calls' : ~Awaits(calls'[i], filter')
        PROVE  Right(shown', 0, filter', Events', ledger', toolRuns')
    <3>1. ~behind /\ call.do # "list" /\ call.pc # "served" /\ shown' = shown
      BY <2>1, <2>3
    <3>2. ASSUME NEW j \in DOMAIN calls PROVE ~Awaits(calls[j], filter)
      <4>1. CASE j = k
        BY <3>1, <4>1 DEF Awaits
      <4>2. CASE j # k
        <5>1. PICK i \in DOMAIN calls' : calls'[i] = calls[j]
          BY <1>4, <4>2
        <5>2. QED
          BY <1>2, <2>3, <5>1, Zenon
      <4>3. QED
        BY <4>1, <4>2
    <3>3. Right(shown, 0, filter, Events, ledger, toolRuns)
      BY <1>1, <3>1, <3>2 DEF ShownHolds
    <3>4. QED
      BY <1>2, <1>3, <3>1, <3>3, Zenon
  <2>4. behind' \in BOOLEAN /\ ShownHolds'
    BY <2>1, <2>3 DEF ShownHolds
  <2>5. filter' \in FeedFilters
    BY <1>1, <1>2
  <2>6. QED
    BY <1>3, <1>4, <1>5, <1>6, <2>2, <2>4, <2>5, Zenon DEF FeedInv
<1>11. QED
  BY <1>9, <1>10

LEMMA FeedUnchanged ==
  ASSUME FeedInv, UNCHANGED lensFeedVars
  PROVE  FeedInv'
<1>1. UNCHANGED <<ledger, toolRuns, filter, stream, shown, calls, feedErrors, stale, behind>>
  BY DEF lensFeedVars, feedServer, feedUser
<1>2. LedgerRight /\ EventsRight
  BY DEF FeedInv
<1>3. Events' = Events /\ EventsRight' /\ LedgerRight'
  BY <1>1, <1>2, FeedStays
<1>4. ShownHolds'
  BY <1>1, <1>3, Zenon DEF FeedInv, ShownHolds
<1>5. \A k \in DOMAIN calls' : CallRight(calls'[k], Events', ledger', toolRuns')
  BY <1>1, <1>3, Zenon DEF FeedInv
<1>6. QED
  BY <1>1, <1>3, <1>4, <1>5, Zenon DEF FeedInv

LEMMA FeedStep ==
  ASSUME FeedInv, [LensFeedNext]_lensFeedVars
  PROVE  FeedInv'
<1>1. ASSUME NEW kind \in ToolKinds, ToolStarts(kind) PROVE FeedInv'
  BY <1>1, ToolBegins
<1>2. ASSUME NEW i \in DOMAIN ledger, NEW status \in {"success", "failed"}, ToolEnds(i, status) PROVE FeedInv'
  BY <1>2, ToolFinishes
<1>3. CASE get_local_tools_events
  BY <1>3, StreamOpens
<1>4. CASE StreamBreaks \/ (\E f \in FeedFilters : SelectFilter(f)) \/ RefreshFeed \/ PauseOrResume \/ handleClearActivity
  BY <1>4, FeedUsed
<1>5. CASE Receive
  BY <1>5, EventTaken
<1>6. ASSUME NEW k \in DOMAIN calls, Serve(k) PROVE FeedInv'
  <2>1. ServeListing(k) \/ ServeClear(k)
    BY <1>6 DEF Serve
  <2>2. QED
    BY <1>6, <2>1, FeedListed, FeedCleared
<1>7. ASSUME NEW k \in DOMAIN calls, FeedReply(k) \/ FeedCallFails(k) PROVE FeedInv'
  BY <1>7, FeedReplied
<1>8. CASE UNCHANGED lensFeedVars
  BY <1>8, FeedUnchanged
<1>9. QED
  BY <1>1, <1>2, <1>3, <1>4, <1>5, <1>6, <1>7, <1>8 DEF LensFeedNext

\* What is seen and newer than an entry of the ledger is in the ledger too.
LEMMA FeedShows ==
  ASSUME FeedInv
  PROVE  LensFeedTypeOK /\ FeedSettles /\ ClearedIsGone
<1>1. /\ LedgerRight /\ ShownHolds /\ IsPage(shown, toolRuns) /\ toolRuns \in Nat
      /\ ledger \in Seq(FeedEntry) /\ Len(ledger) \in Nat /\ Len(ledger) <= toolRuns /\ DOMAIN ledger = 1..Len(ledger)
      /\ \A j \in DOMAIN ledger : ledger[j].id = toolRuns - Len(ledger) + j
  BY LenProperties DEF FeedInv, LedgerRight
<1>2. LensFeedTypeOK
  BY DEF FeedInv, LensFeedTypeOK, LedgerRight, IsPage
<1>3. ASSUME NEW n \in Nat, n <= toolRuns, n > toolRuns - Len(ledger)
      PROVE  \E j \in DOMAIN ledger : ledger[j].id = n
  <2>1. n - (toolRuns - Len(ledger)) \in DOMAIN ledger
    BY <1>1, <1>3
  <2>2. toolRuns - Len(ledger) + (n - (toolRuns - Len(ledger))) = n
    BY <1>1
  <2>3. ledger[n - (toolRuns - Len(ledger))].id = n
    BY <1>1, <2>1, <2>2
  <2>4. QED
    BY <2>1, <2>3
<1>4. ASSUME calls = <<>>, stream = {<<>>}, ~behind
      PROVE  /\ {e.id : e \in Elements(get_events(filter, FeedLimit))} \subseteq Seen(shown, filter)
             /\ \A e \in Elements(shown), i \in DOMAIN ledger : ledger[i].id = e.id => ledger[i] = e
             /\ \A e \in Elements(shown) : (\E i \in DOMAIN ledger : ledger[i].id = e.id) \/ Len(ledger) = FeedKeep
  <2>1. Events = <<>> /\ DOMAIN Events = {} /\ DOMAIN calls = {}
    BY <1>4 DEF Events
  <2>2. Right(shown, 0, filter, Events, ledger, toolRuns)
    BY <1>1, <1>4, <2>1 DEF ShownHolds
  <2>3. \A j \in DOMAIN ledger :
          /\ \A i \in DOMAIN shown : shown[i].id = ledger[j].id => shown[i] = ledger[j]
          /\ Matches(ledger[j], filter) =>
               \/ ledger[j].id \in Seen(shown, filter)
               \/ Cardinality(NewerSeen(shown, filter, ledger[j].id)) >= FeedLimit
    BY <2>1, <2>2 DEF Right, Touched
  <2>4. \A i \in DOMAIN shown : shown[i] \in FeedEntry /\ shown[i].id \in Nat /\ shown[i].id <= toolRuns
                                /\ Kept(shown[i].id, ledger, toolRuns)
    <3>1. \A i \in DOMAIN shown : shown[i] \in FeedEntry
      BY <1>1, ElementOfSeq, LenProperties DEF IsPage
    <3>2. QED
      BY <1>1, <2>2, <3>1 DEF IsPage, Right, FeedEntry
  <2>5. \A e \in Elements(shown), i \in DOMAIN ledger : ledger[i].id = e.id => ledger[i] = e
    BY <2>3 DEF Elements
  <2>6. ASSUME NEW e \in Elements(shown), Len(ledger) # FeedKeep PROVE \E i \in DOMAIN ledger : ledger[i].id = e.id
    <3>1. PICK i \in DOMAIN shown : e = shown[i]
      BY DEF Elements
    <3>2. e.id \in Nat /\ e.id <= toolRuns /\ e.id > toolRuns - Len(ledger)
      BY <2>4, <2>6, <3>1 DEF Kept
    <3>3. QED
      BY <1>3, <3>2
  <2>7. PICK g : g = get_events(filter, FeedLimit)
    OBVIOUS
  <2>8. IsNewest(g, filter)
    <3>1. Rising(ledger)
      <4>1. ASSUME NEW i \in DOMAIN ledger, NEW j \in DOMAIN ledger, i < j PROVE ledger[i].id < ledger[j].id
        <5>1. ledger[i].id = toolRuns - Len(ledger) + i /\ ledger[j].id = toolRuns - Len(ledger) + j
          BY <1>1
        <5>2. i \in Nat /\ j \in Nat
          BY <1>1
        <5>3. QED
          BY <1>1, <4>1, <5>1, <5>2
      <4>2. QED
        BY <4>1 DEF Rising
    <3>2. ledger \in Seq(FeedEntry)
      BY <1>1
    <3>3. QED
      BY <2>7, <3>1, <3>2, NewestListed
  <2>9. ASSUME NEW i \in DOMAIN g PROVE g[i].id \in Seen(shown, filter)
    <3>1. PICK j \in DOMAIN ledger : g[i] = ledger[j] /\ Matches(ledger[j], filter)
      BY <2>8 DEF IsNewest
    <3> DEFINE S == NewerSeen(shown, filter, ledger[j].id)
    <3>2. ASSUME NEW n \in S
          PROVE  n > g[i].id /\ \E m \in DOMAIN ledger : n = ledger[m].id /\ Matches(ledger[m], filter)
      <4>1. n > ledger[j].id /\ n \in Seen(shown, filter)
        BY <3>2 DEF NewerSeen
      <4>2. PICK a \in DOMAIN shown : n = shown[a].id /\ Matches(shown[a], filter)
        BY <4>1 DEF Seen
      <4>3. n \in Nat /\ n <= toolRuns
        BY <2>4, <4>2
      <4>4. n > toolRuns - Len(ledger)
        <5>1. ledger[j].id = toolRuns - Len(ledger) + j /\ j \in Nat
          BY <1>1
        <5>2. QED
          BY <1>1, <4>1, <4>3, <5>1
      <4>5. PICK m \in DOMAIN ledger : ledger[m].id = n
        BY <1>3, <4>3, <4>4
      <4>6. shown[a] = ledger[m]
        BY <2>3, <4>2, <4>5
      <4>7. QED
        BY <3>1, <4>1, <4>2, <4>5, <4>6
    <3>3. Cardinality(S) < FeedLimit
      BY <2>8, <3>2 DEF IsNewest
    <3>4. Cardinality(S) \in Nat /\ FeedLimit \in Nat
      <4>1. S \in SUBSET Seen(shown, filter)
        BY DEF NewerSeen
      <4>2. QED
        BY <1>1, <4>1, SeenFinite, LensFeedAssumption
    <3>5. QED
      BY <2>3, <3>1, <3>3, <3>4
  <2>10. {e.id : e \in Elements(get_events(filter, FeedLimit))} \subseteq Seen(shown, filter)
    BY <2>7, <2>9 DEF Elements
  <2>11. QED
    BY <2>5, <2>6, <2>10
<1>5. QED
  BY <1>2, <1>4 DEF FeedSettles, ClearedIsGone

\* Listings, clearings, the events of a stream that breaks and pauses overtake each other;
\* when all have come and the page has missed nothing since its last listing, it shows the
\* newest runs of the ledger, with their states, and none that was cleared (LocalTools.tsx,
\* ActivityRecorder).
THEOREM FeedStaysSound == LensFeedSpec => [](LensFeedTypeOK /\ FeedSettles /\ ClearedIsGone)
<1>1. LensFeedInit => FeedInv
  BY FeedBegins
<1>2. FeedInv /\ [LensFeedNext]_lensFeedVars => FeedInv'
  BY FeedStep
<1>3. FeedInv => LensFeedTypeOK /\ FeedSettles /\ ClearedIsGone
  BY FeedShows
<1>4. QED
  BY <1>1, <1>2, <1>3, PTL DEF LensFeedSpec
================================================================================
