------------------------------- MODULE LensNotes -------------------------------
(***************************************************************************)
(* The vault of notes: the files that NoteCreatorAdapter writes            *)
(* (agent/tools.py), the routes that list, read, write and delete them     *)
(* (routes.py of aegismind-core), and the page that shows them: the vault  *)
(* in Notes.tsx (apps/lens/src).                                           *)
(*                                                                         *)
(* The server carries out the calls in the order in which they are sent.   *)
(* Replies reach the page in any order, and its callbacks see the state of *)
(* the moment when they were made.  A change of what is selected is        *)
(* followed by the calls of the effects that depend on it.  A note has one *)
(* tag or none.                                                            *)
(***************************************************************************)
EXTENDS Values, FiniteSets

CONSTANTS
  Titles, Tags,
  MaxClock,             \* bound on the seconds
  MaxNoteActs,          \* bound on what the user and the agent do,
  MaxNoteCalls,         \* and on the calls on their way while they do it
  MaxNoteErrors         \* bound on the writes and calls that fail

VARIABLES
  noteFiles, noteClock, \* the directory: per name, the note; and the clock
  notes, selectedTag, selectedSlug, selectedNote,   \* the page
  noteCalls, noteReplies,       \* calls on their way, and replies in the order they were given
  noteActs, noteErrors,
  noteSaves,            \* history: the notes reported as written, in order
  noteGone,             \* history: the names that were deleted
  noteUnsettled         \* history: the page could not hear of a change, or heard too late

notePage == <<notes, selectedTag, selectedSlug, selectedNote>>
noteVars == <<noteFiles, noteClock, notePage, noteCalls, noteReplies, noteActs, noteErrors,
              noteSaves, noteGone, noteUnsettled>>

ASSUME NotesAssumption ==
  /\ MaxClock \in Nat \ {0} /\ {MaxNoteActs, MaxNoteCalls, MaxNoteErrors} \subseteq Nat
  /\ None \notin Tags

\* A call, with what its callback has kept of the moment when it was made.
NoteCall(do, slug) ==
  [do |-> do, slug |-> slug, tag |-> IF do \in {"list", "save"} THEN selectedTag ELSE None,
   was |-> IF do = "detail" THEN None ELSE selectedSlug,
   had |-> IF do = "delete" THEN notes ELSE {}]

\* list_notes: those with the tag, and all if none is asked for.
Tagged(tag) == {name \in DOMAIN noteFiles : tag # None => noteFiles[name].tag = tag}

\* One that was created last: the first of a listing.
IsFirst(name, listed) == name \in listed /\ \A other \in listed : other[1] <= name[1]

LensNotesInit ==
  /\ noteFiles = <<>> /\ noteClock = 1
  /\ notes = {} /\ selectedTag = None /\ selectedSlug = None /\ selectedNote = None
  /\ noteCalls = <<[do |-> "list", slug |-> None, tag |-> None, was |-> None, had |-> {}]>>
  /\ noteReplies = <<>> /\ noteActs = 0 /\ noteErrors = 0
  /\ noteSaves = <<>> /\ noteGone = {} /\ noteUnsettled = FALSE

NoteAct ==
  /\ noteActs < MaxNoteActs /\ noteActs' = noteActs + 1
  /\ Len(noteCalls) + Len(noteReplies) < MaxNoteCalls

------------------------------------------------------------------------------
(* Writing a note. *)

\* The second and the start of the title.
FileName(title) == <<noteClock, title>>

\* create_note: a write that fails leaves the file as it was, or torn.
create_note(title, tag) ==
  LET name == FileName(title)
      with(note) == [n \in DOMAIN noteFiles \cup {name} |->
                       IF n = name THEN note ELSE noteFiles[n]]
      id == Len(noteSaves) + 1 IN
  \/ /\ noteFiles' = with([tag |-> tag, id |-> id])
     /\ noteSaves' = Append(noteSaves, [second |-> noteClock, title |-> title, name |-> name])
     /\ UNCHANGED noteErrors
  \/ /\ noteErrors < MaxNoteErrors /\ noteErrors' = noteErrors + 1
     /\ noteFiles' \in {noteFiles, with([tag |-> None, id |-> 0])}
     /\ noteSaves' = Append(noteSaves, [second |-> noteClock, title |-> title, name |-> None])

\* The agent writes one; the page hears nothing of it.
AgentNote(title, tag) ==
  /\ NoteAct /\ create_note(title, tag)
  /\ noteUnsettled' = TRUE
  /\ UNCHANGED <<noteClock, notePage, noteCalls, noteReplies, noteGone>>

Tick ==
  /\ noteClock < MaxClock /\ noteClock' = noteClock + 1
  /\ UNCHANGED <<noteFiles, notePage, noteCalls, noteReplies, noteActs, noteErrors, noteSaves,
                 noteGone, noteUnsettled>>

------------------------------------------------------------------------------
(* The user. *)

\* Another note is selected: it is loaded, and the listing once more.
TurnTo(slug) ==
  /\ selectedSlug' = slug
  /\ selectedNote' = IF slug = None THEN None ELSE selectedNote
  /\ noteCalls' =
       IF slug = selectedSlug THEN noteCalls
       ELSE Append(noteCalls, [NoteCall("list", None) EXCEPT !.was = slug])
              \o (IF slug = None THEN <<>> ELSE <<NoteCall("detail", slug)>>)

SelectNote(slug) ==
  /\ NoteAct /\ slug \in notes \ {selectedSlug}
  /\ TurnTo(slug)
  /\ UNCHANGED <<noteFiles, noteClock, notes, selectedTag, noteReplies, noteErrors, noteSaves,
                 noteGone, noteUnsettled>>

SelectTag(tag) ==
  /\ NoteAct /\ tag # selectedTag
  /\ selectedTag' = tag
  /\ noteCalls' = Append(noteCalls, [NoteCall("list", None) EXCEPT !.tag = tag])
  /\ UNCHANGED <<noteFiles, noteClock, notes, selectedSlug, selectedNote, noteReplies, noteErrors,
                 noteSaves, noteGone, noteUnsettled>>

\* handleDeleteNote and handleSaveToVault begin with a call; so does the button that
\* fetches the listing again.
NoteSend(call) ==
  /\ NoteAct
  /\ noteCalls' = Append(noteCalls, call)
  /\ UNCHANGED <<noteFiles, noteClock, notePage, noteReplies, noteErrors, noteSaves, noteGone,
                 noteUnsettled>>

handleDeleteNote(slug) == slug \in notes /\ NoteSend(NoteCall("delete", slug))
handleSaveToVault == NoteSend(NoteCall("save", None))
fetchNotes == NoteSend(NoteCall("list", None))

------------------------------------------------------------------------------
(* The server. *)

Replied(call, found) ==
  /\ noteCalls' = Tail(noteCalls)
  /\ noteReplies' = Append(noteReplies, [call |-> call, found |-> found, late |-> FALSE])
  /\ UNCHANGED <<noteClock, notePage, noteActs>>

ReadOnly == UNCHANGED <<noteFiles, noteErrors, noteSaves, noteGone, noteUnsettled>>

list_notes(call) == call.do = "list" /\ ReadOnly /\ Replied(call, Tagged(call.tag))

get_note_detail(call) ==
  call.do = "detail" /\ ReadOnly /\ Replied(call, {call.slug} \cap DOMAIN noteFiles)

\* The reply says "created" also if the write has failed.
create_vault_note(call) ==
  /\ call.do = "save"
  /\ \E title \in Titles, tag \in Tags : create_note(title, tag)
  /\ Replied(call, {}) /\ UNCHANGED <<noteGone, noteUnsettled>>

delete_vault_note(call) ==
  /\ call.do = "delete"
  /\ noteFiles' = [n \in DOMAIN noteFiles \ {call.slug} |-> noteFiles[n]]
  /\ noteGone' = noteGone \cup {call.slug}
  /\ Replied(call, {}) /\ UNCHANGED <<noteErrors, noteSaves, noteUnsettled>>

\* A call that does not succeed: a listing is empty then, a note not there, and a note that
\* could not be deleted is taken off the page all the same.
NoteCallFails(call) ==
  /\ noteErrors < MaxNoteErrors /\ noteErrors' = noteErrors + 1
  /\ noteUnsettled' = TRUE
  /\ Replied([call EXCEPT !.do = IF @ = "save" THEN "refused" ELSE @], {})
  /\ UNCHANGED <<noteFiles, noteSaves, noteGone>>

------------------------------------------------------------------------------
(* Replies. *)

\* The first of the listing is selected if none was when it was asked for.
NotesListed(reply) ==
  /\ notes' = reply.found
  /\ IF reply.found = {} \/ reply.call.was # None
     THEN UNCHANGED <<selectedSlug, selectedNote, noteCalls>>
     ELSE \E first \in reply.found : IsFirst(first, reply.found) /\ TurnTo(first)
  /\ UNCHANGED selectedTag

NoteLoaded(reply) ==
  /\ selectedNote' = IF reply.found = {} THEN None ELSE reply.call.slug
  /\ UNCHANGED <<notes, selectedTag, selectedSlug, noteCalls>>

\* If the deleted note was selected when the user deleted it, the first of the others of
\* that moment is selected.
NoteDeleted(reply) ==
  LET slug == reply.call.slug
      rest == reply.call.had \ {slug} IN
  /\ notes' = notes \ {slug}
  /\ IF reply.call.was # slug THEN UNCHANGED <<selectedSlug, selectedNote, noteCalls>>
     ELSE IF rest = {} THEN TurnTo(None)
     ELSE \E first \in rest : IsFirst(first, rest) /\ TurnTo(first)
  /\ UNCHANGED selectedTag

\* A study guide was saved: the listing is fetched, for the tag of the moment when the
\* user saved it.
NoteSaved(reply) ==
  /\ noteCalls' = Append(noteCalls, [reply.call EXCEPT !.do = "list"])
  /\ UNCHANGED notePage

\* Those given before it and not there yet come too late.
NoteReply(k) ==
  LET reply == noteReplies[k] IN
  /\ noteReplies' = [j \in 1..(k - 1) |-> [noteReplies[j] EXCEPT !.late = TRUE]]
                    \o SubSeq(noteReplies, k + 1, Len(noteReplies))
  /\ noteUnsettled' = (\/ noteUnsettled \/ reply.late
                       \/ reply.call.do = "save" /\ reply.call.tag # selectedTag)
  /\ CASE reply.call.do = "list" -> NotesListed(reply)
       [] reply.call.do = "detail" -> NoteLoaded(reply)
       [] reply.call.do = "delete" -> NoteDeleted(reply)
       [] reply.call.do = "save" -> NoteSaved(reply)
       [] reply.call.do = "refused" -> UNCHANGED <<notePage, noteCalls>>
  /\ UNCHANGED <<noteFiles, noteClock, noteActs, noteErrors, noteSaves, noteGone>>

LensNotesNext ==
  \/ Tick \/ handleSaveToVault \/ fetchNotes
  \/ \E title \in Titles, tag \in Tags \cup {None} : AgentNote(title, tag)
  \/ \E slug \in notes : SelectNote(slug) \/ handleDeleteNote(slug)
  \/ \E tag \in Tags \cup {None} : SelectTag(tag)
  \/ \E call \in Elements(First(1, noteCalls)) :
       \/ list_notes(call) \/ get_note_detail(call)
       \/ create_vault_note(call) \/ delete_vault_note(call) \/ NoteCallFails(call)
  \/ \E k \in DOMAIN noteReplies : NoteReply(k)

LensNotesSpec == LensNotesInit /\ [][LensNotesNext]_noteVars

------------------------------------------------------------------------------
(* Properties. *)

NoteNames == (1..MaxClock) \X Titles

LensNotesTypeOK ==
  /\ DOMAIN noteFiles \cup notes \cup noteGone \subseteq NoteNames
  /\ {selectedSlug, selectedNote} \subseteq NoteNames \cup {None}
  /\ selectedTag \in Tags \cup {None}
  /\ \A call \in Elements(noteCalls) : call.do \in {"list", "detail", "save", "delete"}
  /\ noteClock \in 1..MaxClock /\ noteErrors \in 0..MaxNoteErrors

\* A note reported as written is there until it is deleted, or until another of the same
\* title is written, or fails to be, in the very same second.
NoteKept ==
  \A i \in DOMAIN noteSaves :
    LET save == noteSaves[i] IN
    \/ save.name = None \/ save.name \in noteGone
    \/ \E j \in (i + 1)..Len(noteSaves) :
         noteSaves[j].second = save.second /\ noteSaves[j].title = save.title
    \/ save.name \in DOMAIN noteFiles /\ noteFiles[save.name].id = i

NotesAtRest == noteCalls = <<>> /\ noteReplies = <<>> /\ ~noteUnsettled

\* When no call is under way, the page lists the notes of the tag that is selected, unless
\* the agent wrote one, a call failed, a reply was overtaken by a later one, or the tag was
\* changed while a study guide was being saved.
TagIsListed == NotesAtRest => notes = Tagged(selectedTag)

\* ... and while a note is selected no other is shown, whatever was selected or deleted
\* meanwhile.  (When none is selected one may be: that which was on its way when the last
\* note of an older listing was found deleted.)
ShownIsSelected ==
  NotesAtRest /\ selectedNote # None /\ selectedSlug # None => selectedNote = selectedSlug
==============================================================================
