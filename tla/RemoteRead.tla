------------------------------ MODULE RemoteRead ------------------------------
(***************************************************************************)
(* A sync of a remote connector: the handler sync_connector (routes.py),   *)
(* and GitHubConnector.read and GmailConnector.read                        *)
(* (connectors/github and connectors/gmail), which compare what the remote *)
(* source holds with the cursor of the caller and yield what is new,       *)
(* changed or gone.                                                        *)
(*                                                                         *)
(* Every request to the remote source is a step: it may fail, and the      *)
(* source, the mode, the credentials and the settings may change between   *)
(* two of them.  A file or a message is an id (place, branch, name), its   *)
(* content a version, 0 when there is none; a mailbox has one branch.  The *)
(* caller applies each record it is given to its cursor                    *)
(* (IncrementalSyncState.with_hash and without_id).  What the worker does  *)
(* with the records is ScribeSync.                                         *)
(***************************************************************************)
EXTENDS ConnectorHub, FiniteSets

CONSTANTS
  Places,             \* the repositories, or the labels of the mailbox, in order
  Branches,           \* names of branches, in order
  Names,              \* names of files or messages, in the order they are listed
  Contents,           \* the source at the start
  MaxVersion,
  Unusable,           \* versions too large to index, or without text
  MaxItems,           \* max_files_per_repo, max_messages
  PageSize,
  MaxChanges,         \* bound on the changes of the source
  MaxSyncs            \* bound on the syncs

PlaceSet == Elements(Places)
NameSet  == Elements(Names)
Ids      == PlaceSet \X Elements(Branches) \X NameSet
Versions == 0..MaxVersion

VARIABLES
  conn,               \* the connector whose syncs are followed, or None
  source,             \* per place and name, the version there is
  head,               \* per place, its default branch
  known,              \* the caller's content_hashes: per id, the version or 0
  tracked,            \* the caller's source_versions
  tracks,             \* whether the caller keeps source_versions
  rd,                 \* the read in progress
  audit,              \* the audit records of the syncs
  reports,            \* history: what the syncs that ended reported
  changes

readVars == <<conn, source, head, known, tracked, tracks, rd, audit, reports, changes>>
vars == <<hubVars, readVars>>

ASSUME ReadAssumption ==
  /\ MaxVersion \in Nat \ {0} /\ MaxItems \in Nat \ {0} /\ PageSize \in Nat \ {0}
  /\ MaxChanges \in Nat /\ MaxSyncs \in Nat
  /\ Unusable \subseteq Versions \ {0} /\ Junk \notin PlaceSet

NoRead == [pc |-> "idle"]

Init ==
  /\ HubInit
  /\ conn \in Connectors \cup {None}
  /\ conn # None => registry # [c \in Connectors |-> None] /\ ~sovereign
  /\ source = Contents
  /\ head = [p \in PlaceSet |-> Branches[1]]
  /\ known = [id \in Ids |-> 0] /\ tracked = known
  /\ tracks \in BOOLEAN /\ (conn # "github" => ~tracks)
  /\ rd = NoRead /\ audit = <<>> /\ reports = <<>> /\ changes = 0

------------------------------------------------------------------------------
(* The source, and the requests to the hub, which may come during a read:  *)
(* MaxRequests of both together.                                           *)

SourceChanges ==
  /\ conn # None /\ changes < MaxChanges /\ requests + changes < MaxRequests
  /\ changes' = changes + 1
  /\ \/ /\ \E p \in PlaceSet, n \in NameSet, v \in Versions :
             v # source[p][n] /\ source' = [source EXCEPT ![p][n] = v]
        /\ UNCHANGED head
     \/ /\ conn = "github"
        /\ \E p \in PlaceSet, b \in Elements(Branches) :
             b # head[p] /\ head' = [head EXCEPT ![p] = b]
        /\ UNCHANGED source
  /\ rd' = IF rd = NoRead THEN NoRead ELSE [rd EXCEPT !.stable = FALSE]
  /\ UNCHANGED <<hubVars, conn, known, tracked, tracks, audit, reports>>

\* When the syncs of one connector are followed, so are the requests about it.
\* Which token is used makes no difference to a read, nor does it whether it comes
\* from a sign-in: GitHub's is followed with Gmail's reads and without reads only.
HubStep ==
  /\ IF conn = None THEN HubNext(Connectors, Tokens, StateIds)
     ELSE HubNext({conn}, {CHOOSE t \in Tokens : TRUE}, IF conn = "gmail" THEN StateIds ELSE {})
  /\ conn # None => requests' + changes <= MaxRequests
  /\ rd' = IF rd = NoRead THEN NoRead
           ELSE [rd EXCEPT !.stable = rd.stable /\ live'[conn].places = live[conn].places]
  /\ UNCHANGED <<conn, source, head, known, tracked, tracks, audit, reports, changes>>

------------------------------------------------------------------------------
(* The handler. *)

Run == Len(reports) + 1

ClosingAction(status) == IF status = "COMPLETED" THEN "SYNC_COMPLETE" ELSE "SYNC_FAILED"

\* The report of the worker, and the audit record of the handler.
Report(status) ==
  /\ rd' = NoRead
  /\ reports' = Append(reports, status)
  /\ audit' = IF rd = NoRead
              THEN audit \o <<<<"SYNC_START", Run>>, <<ClosingAction(status), Run>>>>
              ELSE Append(audit, <<ClosingAction(status), Run>>)

Started(places) ==
  [pc |-> IF conn = "gmail" THEN "page" ELSE IF places = <<>> THEN "repos" ELSE "branch",
   todo |-> IF conn = "gmail" THEN <<>> ELSE places,
   prev |-> known, prevTracked |-> tracked, seen |-> {}, count |-> 0,
   branch |-> Branches[1], tree |-> [n \in NameSet |-> 0], items |-> <<>>,
   pos |-> 0, more |-> TRUE,
   places |-> places, failed |-> {}, clean |-> TRUE, stable |-> TRUE]

\* sync_connector, and read up to its first request: blocked by the guard, the
\* read fails; without a token it yields nothing.
sync_connector ==
  /\ conn # None /\ rd = NoRead /\ Len(reports) < MaxSyncs
  /\ live' = [live EXCEPT ![conn] = Hydrated(conn, vault[conn])]
  /\ overwritten' = overwritten \ {conn}
  /\ \/ guard[conn] /\ Report("FAILED")
     \/ ~guard[conn] /\ live'[conn].token = None /\ Report("COMPLETED")
     \/ /\ ~guard[conn] /\ live'[conn].token # None
        /\ rd' = Started(live'[conn].places)
        /\ audit' = Append(audit, <<"SYNC_START", Run>>)
        /\ UNCHANGED reports
  /\ UNCHANGED <<modeVars, oauthVars, requests, registry, vault, asked,
                 conn, source, head, known, tracked, tracks, changes>>

Reading(pc) == rd # NoRead /\ rd.pc = pc

sourceSide == <<hubVars, conn, source, head, tracks, changes>>
cursorVars == <<known, tracked>>

Goes(r) == rd' = r /\ UNCHANGED <<sourceSide, audit, reports>>

\* The worker gives up on the read: a batch of records could not be ingested.
BatchFails ==
  /\ rd # NoRead /\ rd.pc \in {"files", "mails"} /\ rd.count > 0
  /\ Report("FAILED")
  /\ UNCHANGED <<sourceSide, cursorVars>>

\* The record of id at version v is yielded, and the caller notes it.
Deliver(id, v) ==
  /\ known' = [known EXCEPT ![id] = v]
  /\ tracked' = IF tracks THEN [tracked EXCEPT ![id] = rd.tree[id[3]]] ELSE tracked

\* Tombstones for the ids of a set.
Bury(ids) ==
  /\ known' = [id \in Ids |-> IF id \in ids THEN 0 ELSE known[id]]
  /\ tracked' = [id \in Ids |-> IF id \in ids THEN 0 ELSE tracked[id]]

\* detect_deletions
Unseen == {id \in Ids : rd.prev[id] # 0 /\ id \notin rd.seen}

Requested(id, r) == [r EXCEPT !.items = Tail(@), !.seen = @ \cup {id}]

\* What becomes of the id at the head of items, whose version is v, or 0 if there is
\* no text: it cannot be had, or is what the cursor has, or is yielded.
Fetch(id, v) ==
  LET next == Requested(id, rd) IN
  \/ Goes([next EXCEPT !.clean = FALSE]) /\ UNCHANGED cursorVars
  \/ v \in {0, rd.prev[id]} /\ Goes(next) /\ UNCHANGED cursorVars
  \/ /\ v \notin {0, rd.prev[id]}
     /\ Goes([next EXCEPT !.count = @ + 1])
     /\ Deliver(id, v)

------------------------------------------------------------------------------
(* GitHubConnector.read *)

ListedRepos ==
  /\ Reading("repos")
  /\ \/ Goes([rd EXCEPT !.todo = Places, !.places = Places, !.pc = "branch"])
     \/ Report("FAILED") /\ UNCHANGED sourceSide
  /\ UNCHANGED cursorVars

\* A repository whose branch or tree cannot be fetched is left out.
SkipRepo == [rd EXCEPT !.pc = "branch", !.todo = Tail(@), !.clean = FALSE,
                       !.failed = @ \cup {Head(rd.todo)}]

DefaultBranch ==
  /\ Reading("branch") /\ rd.todo # <<>>
  /\ \/ /\ Head(rd.todo) # Junk
        /\ Goes([rd EXCEPT !.branch = head[Head(rd.todo)], !.pc = "tree"])
     \/ Goes(SkipRepo)
  /\ UNCHANGED cursorVars

\* What is not indexed is not listed: secrets, ignored paths, what is not text or too large.
Indexable(v) == v \notin Unusable \cup {0}

Tree ==
  /\ Reading("tree")
  /\ LET tree == source[Head(rd.todo)]
         listed(n) == Indexable(tree[n]) IN
     \/ Goes([rd EXCEPT !.tree = tree, !.items = SelectSeq(Names, listed), !.pc = "files"])
     \/ Goes(SkipRepo)
  /\ UNCHANGED cursorVars

\* _fetch_file_content: the file as it is now, which may be gone since it was listed.
FileContent(id) == source[id[1]][id[3]]

FileId == <<Head(rd.todo), rd.branch, Head(rd.items)>>

File ==
  /\ Reading("files") /\ rd.items # <<>> /\ rd.count < MaxItems
  /\ IF rd.prevTracked[FileId] = rd.tree[FileId[3]]
     THEN Goes(Requested(FileId, rd)) /\ UNCHANGED cursorVars
     ELSE Fetch(FileId, FileContent(FileId))

\* Mutant of RepoDone: the ids of every repository are compared.
RepoDone_AllRepos ==
  /\ Reading("files") /\ (rd.items = <<>> \/ rd.count = MaxItems)
  /\ Bury(Unseen)
  /\ Goes([rd EXCEPT !.todo = Tail(@), !.count = 0, !.pc = "branch",
                     !.clean = @ /\ rd.items = <<>>])

RepoDone ==
  /\ Reading("files") /\ (rd.items = <<>> \/ rd.count = MaxItems)
  /\ Bury({id \in Unseen : id[1] = Head(rd.todo)})
  /\ Goes([rd EXCEPT !.todo = Tail(@), !.count = 0, !.pc = "branch",
                     !.clean = @ /\ rd.items = <<>>])

ReadDone ==
  /\ Reading("branch") /\ rd.todo = <<>>
  /\ Report("COMPLETED")
  /\ UNCHANGED <<sourceSide, cursorVars>>

------------------------------------------------------------------------------
(* GmailConnector.read *)

\* The messages of the label from position pos on, with their positions.
Listed(p, pos) == {i \in DOMAIN Names : i > pos /\ source[p][Names[i]] # 0}

\* Mutant of Page: the token of the next page is not taken over.
Page_SameToken(p, pos) ==
  LET rest == Listed(p, 0)
      page == {i \in rest : Cardinality({j \in rest : j <= i}) <= PageSize}
      inPage(n) == \E i \in page : Names[i] = n IN
  [items |-> SelectSeq(Names, inPage), more |-> rest # page, pos |-> 0]

\* A page of messages, in the order of the mailbox, and whether there is a next one.
Page(p, pos) ==
  LET rest == Listed(p, pos)
      page == {i \in rest : Cardinality({j \in rest : j <= i}) <= PageSize}
      inPage(n) == \E i \in page : Names[i] = n IN
  [items |-> SelectSeq(Names, inPage), more |-> rest # page,
   pos |-> IF page = {} THEN pos ELSE CHOOSE i \in page : \A j \in page : j <= i]

\* The label is the one in use now; a page that cannot be listed ends the scan.
ListMessages ==
  /\ Reading("page")
  /\ LET label == Head(live[conn].places) IN
     \/ /\ label # Junk
        /\ LET page == Page(label, rd.pos) IN
           Goes([rd EXCEPT !.items = page.items, !.more = page.more, !.pos = page.pos,
                           !.todo = <<label>>,
                           !.pc = IF page.items = <<>> THEN "scanned" ELSE "mails"])
     \/ Goes([rd EXCEPT !.pc = "scanned", !.clean = FALSE])
  /\ UNCHANGED cursorVars

\* _fetch_message and _normalize_message: a message without text is none.
MessageText(id) ==
  LET v == source[id[1]][id[3]] IN IF v \in Unusable THEN 0 ELSE v

Mail ==
  /\ Reading("mails") /\ rd.items # <<>> /\ rd.count < MaxItems
  /\ LET id == <<Head(rd.todo), Branches[1], Head(rd.items)>> IN Fetch(id, MessageText(id))

PageDone ==
  /\ Reading("mails") /\ (rd.items = <<>> \/ rd.count = MaxItems)
  /\ LET ends == ~rd.more \/ rd.count = MaxItems IN
     Goes([rd EXCEPT !.pc = IF ends THEN "scanned" ELSE "page", !.items = <<>>,
                     !.clean = @ /\ rd.items = <<>> /\ (ends => ~rd.more)])
  /\ UNCHANGED cursorVars

Scanned ==
  /\ Reading("scanned")
  /\ Bury(Unseen)
  /\ Report("COMPLETED")
  /\ UNCHANGED sourceSide

------------------------------------------------------------------------------

ReadStep ==
  \/ ListedRepos \/ DefaultBranch \/ Tree \/ File \/ RepoDone \/ ReadDone
  \/ ListMessages \/ Mail \/ PageDone \/ Scanned

Next == SourceChanges \/ HubStep \/ sync_connector \/ BatchFails \/ ReadStep

\* A request ends: the HTTP clients have time limits.
Spec == Init /\ [][Next]_vars /\ WF_vars(ReadStep)

------------------------------------------------------------------------------
(* Properties. *)

TypeOK ==
  /\ HubTypeOK
  /\ source \in [PlaceSet -> [NameSet -> Versions]]
  /\ known \in [Ids -> Versions] /\ tracked \in [Ids -> Versions]
  /\ rd # NoRead => /\ rd.seen \subseteq Ids /\ rd.count \in 0..MaxItems
                    /\ rd.prev \in [Ids -> Versions]
  /\ changes \in 0..MaxChanges

\* While the server is in the sovereign mode no read is started: the switch
\* reaches the guard of every connector at once.
NoReadWhileSovereign ==
  rd = NoRead /\ rd' # NoRead => ~airGapped /\ ~sovereign

\* A sync works on the places that were last asked for, as text, even though it
\* loads the stored settings over those in use.
SyncUsesSettings ==
  rd = NoRead /\ rd' # NoRead => asked[conn] \in {<<>>, rd'.places}

\* What the cursor must be after a read of the source as it is now.
Wanted(id) ==
  LET v == source[id[1]][id[3]]
      read == IF conn = "gmail" THEN id[1] = Head(rd.places) ELSE id[1] \in Elements(rd.places)
  IN IF ~read THEN IF conn = "gmail" THEN 0 ELSE rd.prev[id]
     ELSE IF v = 0 \/ id[2] # head[id[1]] THEN 0
     ELSE IF v \notin Unusable THEN v
     ELSE IF conn = "gmail" THEN rd.prev[id] ELSE 0

\* After a read in which every request succeeded, no limit was met and nothing
\* changed, the cursor of the caller is the source: what was added, changed,
\* removed or renamed since the last read has been yielded, whatever became of
\* the reads before.  (It need not hold with source_versions: see the README.)
ReadCatchesUp ==
  rd # NoRead /\ rd' = NoRead /\ rd.clean /\ rd.stable /\ ~tracks
    /\ reports'[Len(reports')] = "COMPLETED"
  => \A id \in Ids : known'[id] = Wanted(id)

\* A repository that could not be listed loses nothing.
FailedRepoKept ==
  \A id \in Ids : rd # NoRead /\ id[1] \in rd.failed => known'[id] = known[id]

\* A sync that ended has one record of its start and, after it, one record of
\* how it ended, which is what was reported.
SyncClosed ==
  \A i \in DOMAIN reports :
    \E s, e \in DOMAIN audit :
      /\ s < e /\ {j \in DOMAIN audit : audit[j][2] = i} = {s, e}
      /\ audit[s] = <<"SYNC_START", i>>
      /\ audit[e] = <<IF reports[i] = "COMPLETED" THEN "SYNC_COMPLETE" ELSE "SYNC_FAILED", i>>

\* A read that was started ends.
ReadEnds == rd # NoRead ~> rd = NoRead

\* A state token buys one connection, what a connector works with is what is stored, and
\* every sync is closed by what became of it.
ConnectorsSound == StateUsedOnce /\ LiveTokenStored /\ CredentialKeyHasSecret /\ SyncClosed
==============================================================================
