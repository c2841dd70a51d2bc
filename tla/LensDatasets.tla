------------------------------ MODULE LensDatasets ------------------------------
(***************************************************************************)
(* The page of the datasets, with a box of questions and answers for each: *)
(* Datasets.tsx, and the calls it makes through api.ts (apps/lens/src).    *)
(*                                                                         *)
(* A call goes out, the server carries it out, and its reply reaches the   *)
(* page: three moments, between which other calls and the user go on, so   *)
(* that replies may overtake each other.  The page is gone when the user   *)
(* leaves it; callbacks that arrive later change nothing of it but what    *)
(* they keep in localStorage.  The server (Corpus) is a list of documents, *)
(* newest first, that nobody else changes.                                 *)
(***************************************************************************)
EXTENDS Values, FiniteSets

CONSTANTS
  Datasets,             \* ids of documents
  PageLimit,            \* documents in a listing: 50 in the source
  MaxActs,              \* bound on the calls and questions of the user,
  MaxOnTheWay,          \* and on the calls on their way while they are made
  MaxLeaves,            \* bound on the visits that end
  MaxLost               \* bound on the calls that fail or whose reply is lost

VARIABLES
  indexed,              \* the server's documents
  resources, activeDataset, chatting,   \* the page: its listing, what is chosen, isChatting
  storedActive, boxes,  \* localStorage: the id last chosen, the boxes
  exchanges,            \* conversationStore: per document, the questions answered
  sentCalls, replies,   \* calls on their way, and replies in the order the server gave them
  questions,            \* the questions so far
  acts, visit, lost,
  unsettled             \* history of the visit: a reply came too late or not at all

dsPage == <<resources, activeDataset, storedActive>>
dsChat == <<chatting, boxes, exchanges, questions>>
dsVars == <<indexed, dsPage, dsChat, sentCalls, replies, acts, visit, lost, unsettled>>

ASSUME DatasetsAssumption ==
  /\ PageLimit \in Nat \ {0} /\ {MaxActs, MaxOnTheWay} \subseteq Nat /\ MaxLeaves \in Nat /\ MaxLost \in Nat
  /\ None \notin Datasets

\* A call, with what its callback has kept of the moment when it was made.
Call(do, doc) == [do |-> do, doc |-> doc, visit |-> visit,
                  active |-> IF do = "delete" THEN activeDataset ELSE None,
                  shown |-> IF do = "delete" THEN resources ELSE <<>>]
Listing == Call("fetch", None)

\* The page comes up and fetches at once.
LensDatasetsInit ==
  /\ indexed = <<>>
  /\ resources = <<>> /\ activeDataset = None /\ chatting = FALSE
  /\ storedActive = None /\ boxes = [d \in Datasets |-> <<>>]
  /\ exchanges = [d \in Datasets |-> <<>>]
  /\ sentCalls = {[do |-> "fetch", doc |-> None, visit |-> 0, active |-> None, shown |-> <<>>]}
  /\ replies = <<>> /\ questions = <<>>
  /\ acts = 0 /\ visit = 0 /\ lost = 0 /\ unsettled = FALSE

\* An id that is chosen goes to localStorage; none chosen leaves the one that is there.
Choose(d) ==
  /\ activeDataset' = d
  /\ storedActive' = IF d = None THEN storedActive ELSE d

AllBut(d, list) == Only(list, Elements(list) \ {d})

Act ==
  /\ acts < MaxActs /\ acts' = acts + 1
  /\ Cardinality(sentCalls) + Len(replies) < MaxOnTheWay

------------------------------------------------------------------------------
(* The user. *)

Send(call) ==
  /\ Act
  /\ sentCalls' = sentCalls \cup {call}
  /\ UNCHANGED <<indexed, dsPage, dsChat, replies, visit, lost, unsettled>>

Refresh == Listing \notin sentCalls /\ Send(Listing)

\* What is under way.
Open == {call \in sentCalls \cup {r.call : r \in Elements(replies)} : call.visit = visit}

\* A file gets an id of its own; the button is disabled while one is on its way.
handleDirectFileIngest(d) ==
  /\ d \notin Elements(indexed) /\ \A call \in sentCalls \cup Open : call.doc # d
  /\ \A call \in Open : call.do # "upload"
  /\ Send(Call("upload", d))

\* The form may name the id of a document that exists.
handleManualSubmit(d) ==
  /\ \A call \in Open : call.do # "manual" /\ (call.do = "upload" => call.doc # d)
  /\ Send(Call("manual", d))

handleDelete(d) == d \in Elements(resources) /\ Send(Call("delete", d))

SelectDataset(d) ==
  /\ d \in Elements(resources) \ {activeDataset}
  /\ Choose(d)
  /\ UNCHANGED <<indexed, resources, dsChat, sentCalls, replies, acts, visit, lost, unsettled>>

\* Mutant of Remount: the page fetches only when the user asks for it.
Remount_Silent == sentCalls' = sentCalls

\* The page fetches its listing.
Remount == sentCalls' = sentCalls \cup {[Listing EXCEPT !.visit = visit']}

\* The user leaves the page and comes back: it starts from localStorage.
Leave ==
  /\ visit < MaxLeaves /\ visit' = visit + 1
  /\ resources' = <<>> /\ activeDataset' = storedActive /\ chatting' = FALSE
  /\ replies' = <<>> /\ unsettled' = FALSE
  /\ Remount
  /\ UNCHANGED <<indexed, storedActive, boxes, exchanges, questions, acts, lost>>

------------------------------------------------------------------------------
(* The server, and the network. *)

\* A document that is put again moves to the front of the list.
Served(call) ==
  CASE call.do \in {"upload", "manual"} -> <<call.doc>> \o AllBut(call.doc, indexed)
    [] call.do = "delete" -> AllBut(call.doc, indexed)
    [] call.do = "fetch"  -> indexed

\* A callback reaches the page unless the user has left it.
Reaches(call) == call.visit = visit

\* A call of a page that was left is carried out as well.
AnswerComes(call) ==
  /\ indexed' = Served(call)
  /\ sentCalls' = sentCalls \ {call}
  /\ IF Reaches(call)
     THEN /\ replies' = Append(replies, [call |-> call, late |-> FALSE,
                 list |-> IF call.do = "fetch" THEN First(PageLimit, indexed) ELSE <<>>])
          /\ UNCHANGED unsettled
     ELSE replies' = replies /\ unsettled' = (unsettled \/ call.do # "fetch")
  /\ UNCHANGED <<dsPage, dsChat, acts, visit, lost>>

\* A listing that fails is an empty one; a document that cannot be put or deleted leaves
\* the page as it is.
Failed(call) ==
  /\ lost < MaxLost /\ lost' = lost + 1 /\ unsettled' = TRUE
  /\ IF call.do = "fetch" THEN resources' = <<>> /\ Choose(None) ELSE UNCHANGED dsPage
  /\ UNCHANGED <<indexed, dsChat, acts, visit>>

\* The call fails, or its reply is lost.
CallFails(call) ==
  /\ call.visit = visit
  /\ sentCalls' = sentCalls \ {call} /\ UNCHANGED replies
  /\ Failed(call)

ReplyLost(k) ==
  /\ replies' = SubSeq(replies, 1, k - 1) \o SubSeq(replies, k + 1, Len(replies))
  /\ UNCHANGED sentCalls
  /\ Failed(replies[k].call)

\* fetchResourcesAndModels: what is chosen stays so if it is listed, else the first is.
Fetched(list) ==
  /\ resources' = list
  /\ Choose(IF activeDataset \in Elements(list) THEN activeDataset
            ELSE IF list = <<>> THEN None ELSE Head(list))

Put(d) == resources' = <<d>> \o AllBut(d, resources) /\ Choose(d)

\* What follows a deleted dataset that was chosen is taken from the listing of the
\* moment when the user deleted it.
Deleted(call) ==
  LET rest == AllBut(call.doc, call.shown) IN
  /\ resources' = AllBut(call.doc, resources)
  /\ IF call.active # call.doc THEN UNCHANGED <<activeDataset, storedActive>>
     ELSE Choose(IF rest = <<>> THEN None ELSE Head(rest))

\* A change is followed by a listing.
Then(call) == IF call.do = "fetch" THEN {} ELSE {Listing}

\* A reply reaches the page; those given before it and not yet there come too late.
Reply(k) ==
  LET call == replies[k].call
      before == [j \in 1..(k - 1) |-> [replies[j] EXCEPT !.late = TRUE]] IN
  /\ CASE call.do = "fetch" -> Fetched(replies[k].list)
       [] call.do \in {"upload", "manual"} -> Put(call.doc)
       [] call.do = "delete" -> Deleted(call)
  /\ sentCalls' = sentCalls \cup Then(call)
  /\ replies' = before \o SubSeq(replies, k + 1, Len(replies))
  /\ unsettled' = (unsettled \/ replies[k].late)
  /\ UNCHANGED <<indexed, dsChat, acts, visit, lost>>

------------------------------------------------------------------------------
(* Questions about the dataset that is chosen. *)

Say(d, role, n) == boxes' = [boxes EXCEPT ![d] = Append(@, [role |-> role, no |-> n])]

QueryAsked ==
  /\ Act /\ activeDataset \in Elements(resources)
  /\ questions' = Append(questions, [doc |-> activeDataset, visit |-> visit, pc |-> "asked"])
  /\ Say(activeDataset, "user", Len(questions'))
  /\ chatting' = TRUE
  /\ UNCHANGED <<indexed, dsPage, exchanges, sentCalls, replies, visit, lost, unsettled>>

handleDatasetQuery == ~chatting /\ QueryAsked

Answered(n, ok, box) ==
  LET q == questions[n] IN
  /\ q.pc = "asked"
  /\ questions' = [questions EXCEPT ![n].pc = IF ok THEN "answered" ELSE "failed"]
  /\ IF q.visit = visit
     THEN Say(box, IF ok THEN "assistant" ELSE "error", n) /\ chatting' = FALSE
     ELSE UNCHANGED <<boxes, chatting>>
  /\ exchanges' = IF ok THEN [exchanges EXCEPT ![box] = Append(@, n)] ELSE exchanges
  /\ UNCHANGED <<indexed, dsPage, sentCalls, replies, acts, visit, lost, unsettled>>

\* Mutant of QueryReply: it comes to the box of the dataset that is chosen by now.
QueryReply_Chosen(n, ok) == activeDataset # None /\ Answered(n, ok, activeDataset)

\* The answer, or an error, comes to the box of the dataset it was asked of; a page that
\* was left has no box for it.  An answer is recorded among the conversations all the same.
QueryReply(n, ok) == Answered(n, ok, questions[n].doc)

handleClearCurrentChat ==
  /\ activeDataset # None /\ boxes[activeDataset] # <<>>
  /\ boxes' = [boxes EXCEPT ![activeDataset] = <<>>]
  /\ UNCHANGED <<indexed, dsPage, chatting, exchanges, questions, sentCalls, replies, acts, visit,
                 lost, unsettled>>

LensDatasetsNext ==
  \/ Refresh \/ Leave
  \/ \E d \in Datasets : \/ handleDirectFileIngest(d) \/ handleManualSubmit(d)
                         \/ handleDelete(d) \/ SelectDataset(d)
  \/ \E call \in sentCalls : AnswerComes(call) \/ CallFails(call)
  \/ \E k \in DOMAIN replies : Reply(k) \/ ReplyLost(k)
  \/ handleDatasetQuery \/ handleClearCurrentChat
  \/ \E n \in DOMAIN questions, ok \in BOOLEAN : QueryReply(n, ok)

LensDatasetsSpec == LensDatasetsInit /\ [][LensDatasetsNext]_dsVars

------------------------------------------------------------------------------
(* Properties. *)

LensDatasetsTypeOK ==
  /\ Elements(indexed) \cup Elements(resources) \subseteq Datasets
  /\ {activeDataset, storedActive} \subseteq Datasets \cup {None}
  /\ \A r \in Elements(replies) : r.call.visit = visit
  /\ \A d \in Datasets : Elements(exchanges[d]) \subseteq DOMAIN questions
  /\ acts \in 0..MaxActs /\ visit \in 0..MaxLeaves

AtRest == sentCalls = {} /\ replies = <<>> /\ ~unsettled

\* When no call is under way, no reply was lost or overtaken by a later one and nothing
\* was still carried out for a page that was left, the page lists what the server has.
ListingSettles == AtRest => resources = First(PageLimit, indexed)

\* ... and of what it lists one is chosen, unless the listing is empty, whatever was
\* deleted or put since it was chosen.
ChosenIsListed ==
  AtRest => IF resources = <<>> THEN activeDataset = None ELSE activeDataset \in Elements(resources)

\* Whatever the user chooses, clears or leaves meanwhile, an answer comes to the box of the
\* dataset it was asked of, below its question unless the box was cleared since.
AnswersInTheirBox ==
  \A d \in Datasets : \A k \in DOMAIN boxes[d] :
    LET said == boxes[d][k] IN
    /\ questions[said.no].doc = d
    /\ said.role # "user" /\ k > 1 => boxes[d][k - 1] = [role |-> "user", no |-> said.no]

\* Every answer is recorded once, with its dataset, also that of a page that was left.
AnswersRecorded ==
  \A n \in DOMAIN questions, d \in Datasets :
    Cardinality({k \in DOMAIN exchanges[d] : exchanges[d][k] = n}) =
      IF questions[n].pc = "answered" /\ questions[n].doc = d THEN 1 ELSE 0
==============================================================================
