------------------------------ MODULE ManifestRead ------------------------------
(***************************************************************************)
(* A connector compiled from a manifest (CompiledManifestConnector of the  *)
(* connector SDK) reads a listing page by page while its source changes.   *)
(*                                                                         *)
(* The source lists its items in the order of their versions, which are    *)
(* integers; items come at the end or, where the newest are listed first,  *)
(* at the front, and go anywhere.  Page tokens are the source's own: the   *)
(* version of the last item of a page, an opaque name for its place, or an *)
(* opaque count of what was given.  The reader has one cursor for both     *)
(* uses: with page tokens and a cursor field it sends the token of the     *)
(* page as lower bound, too, and the stored version as page token.  What a *)
(* source makes of a value of the wrong kind is its own affair.            *)
(***************************************************************************)
EXTENDS Values, FiniteSets

CONSTANTS
  Manifests,          \* [pagination, size, incremental, public, static]; incremental says
                      \* that there is a cursor spec
  Apis,               \* [tokens, strange]: what the page tokens of the source are, and what
                      \* it does with a value that is none, or is no version
  Caps,               \* the most items the source puts on a page
  Shapes,             \* what items look like: a sequence, taken in turn, of
                      \* [record, id, external, allowed, public], "" and {} for what is missing
  FirstSizes,         \* how many items the source may have at first
  MaxEdits,           \* bound on the changes of the source
  MaxReads            \* and on the reads

VARIABLES
  manifest, api, cap, listing, edits, reads,
  checked,            \* the answer of a check since the last read, "" for none
  reader,             \* [pc, page, offset, cursor, records, taken]; the cursor is None,
                      \* a version or a token
  atStart,            \* history: what was listed when the read began,
  since,              \* the cursor the read was given,
  happened             \* and what happened to the source since then

manifestVars == <<manifest, api, cap, listing, edits, reads, checked, reader, atStart, since, happened>>

ASSUME ManifestAssumption ==
  /\ {MaxEdits, MaxReads} \cup FirstSizes \subseteq Nat /\ Caps \subseteq Nat \ {0} /\ Shapes # <<>>
  /\ \A m \in Manifests : m.pagination \in {"none", "page_number", "offset", "cursor"} /\ m.size > 0
  /\ Apis \subseteq [tokens : {"versions", "places", "counts"}, strange : {"ignored", "nothing", "refused"}]

ShapeOf(item) == Shapes[(item % Len(Shapes)) + 1]
NotReading ==
  [pc |-> "idle", page |-> 1, offset |-> 0, cursor |-> None, records |-> <<>>, taken |-> <<>>]

ManifestInit ==
  /\ manifest \in Manifests /\ cap \in Caps
  /\ api \in Apis /\ (manifest.pagination = "cursor" \/ api = CHOOSE v \in Apis : TRUE)
  /\ \E n \in FirstSizes : listing = [i \in 1..n |-> i]
  /\ edits = 0 /\ reads = 0 /\ checked = "" /\ reader = NotReading
  /\ atStart = <<>> /\ since = None /\ happened = {}

------------------------------------------------------------------------------
(* The source. *)

After(items, bound) ==
  IF bound = None THEN items ELSE SelectSeq(items, LAMBDA item : item > bound)

AsVersion(v) == [kind |-> "version", at |-> v]
AsToken(v)   == [kind |-> IF api.tokens = "versions" THEN "version" ELSE "token", at |-> v]

\* The one cursor of the reader is sent as page token and as lower bound, as far as the
\* manifest has either.
SentToken == IF manifest.pagination = "cursor" THEN reader.cursor ELSE None
SentBound == IF manifest.incremental THEN reader.cursor ELSE None

IsToken == SentToken # None /\ SentToken.kind = AsToken(0).kind
IsBound == SentBound # None /\ SentBound.kind = "version"

\* A value of the wrong kind has been sent.
Strange == (SentToken # None /\ ~IsToken) \/ (SentBound # None /\ ~IsBound)

Results == IF IsBound THEN After(listing, SentBound.at) ELSE listing

\* How many of the results a page token passes over.
Passed ==
  CASE ~IsToken -> 0
    [] api.tokens = "counts" -> SentToken.at
    [] OTHER -> Len(Results) - Len(After(Results, SentToken.at))

\* The page that the parameters of a request ask for, and the token of the next one.
PageFrom(start) ==
  LET wanted == IF manifest.pagination = "none" THEN cap ELSE Least(manifest.size, cap)
      rest == IF Strange /\ api.strange = "nothing" THEN <<>> ELSE SubSeq(Results, start + 1, Len(Results))
      items == First(wanted, rest) IN
  [items |-> items,
   next |-> IF Len(rest) <= wanted THEN None
            ELSE AsToken(IF api.tokens = "counts" THEN start + Len(items) ELSE items[Len(items)])]

Edit(kind, items) ==
  /\ edits < MaxEdits
  /\ listing' = items /\ edits' = edits + 1
  /\ happened' = IF reader.pc = "reading" THEN happened \cup {kind} ELSE happened
  /\ UNCHANGED <<manifest, api, cap, reads, checked, reader, atStart, since>>

\* No version is used twice.
NewVersion == 1 + edits + CHOOSE n \in FirstSizes : \A m \in FirstSizes : m <= n

ItemComes == Edit("end", Append(listing, NewVersion))

ItemComesFirst == ~manifest.incremental /\ Edit("front", <<0 - edits>> \o listing)

ItemGoes == \E item \in Elements(listing) :
  Edit("gone", SelectSeq(listing, LAMBDA other : other # item))

------------------------------------------------------------------------------
(* The connector. *)

\* Any answer that is no server error passes, a refusal of the token too.
check ==
  /\ reader.pc = "idle"
  /\ \E answer \in {"fine", "refused", "error", "none"} :
       checked' = IF answer \in {"fine", "refused"} THEN "true" ELSE "false"
  /\ UNCHANGED <<manifest, api, cap, listing, edits, reads, reader, atStart, since, happened>>

\* A read starts from the cursor of its state, where the manifest has one.
read ==
  /\ reader.pc = "idle" /\ reads < MaxReads
  /\ \E state \in {None} \cup (IF manifest.incremental THEN Elements(listing) ELSE {}) :
       /\ reader' = [NotReading EXCEPT !.pc = "reading", 
                                     !.cursor = IF state = None THEN None ELSE AsVersion(state)]
       /\ since' = state /\ atStart' = After(listing, state)
  /\ reads' = reads + 1 /\ happened' = {} /\ checked' = ""
  /\ UNCHANGED <<manifest, api, cap, listing, edits>>

\* None stands for "unknown_id".  Any text counts as true.
RecordOf(item) ==
  LET shape == ShapeOf(item) IN
  [id |-> IF shape.id THEN item ELSE None,
   external |-> IF shape.external THEN item ELSE IF shape.id THEN item ELSE None,
   allowed |-> shape.allowed \cup manifest.static,
   public |-> IF shape.public = "" THEN manifest.public ELSE shape.public \in {"true", "text"}]

Start ==
  CASE manifest.pagination = "page_number" -> (reader.page - 1) * manifest.size
    [] manifest.pagination = "offset" -> reader.offset
    [] OTHER -> Passed

\* Mutant of IsLast: a full page is the last one, too.
IsLast_Full(page, next) == Len(page.items) <= manifest.size

\* A page number or an offset stops at a page that is not full; a page token when
\* there is none, or the same again.
IsLast(page, next) ==
  CASE manifest.pagination = "none" -> TRUE
    [] manifest.pagination = "cursor" -> next = None \/ next = reader.cursor
    [] OTHER -> Len(page.items) < manifest.size

\* One page is asked for and its records are yielded.  An empty one ends the read, and so
\* does, with an error, a source that refuses what it was sent.
ReadManifestPage ==
  /\ reader.pc = "reading"
  /\ LET page == PageFrom(Start)
         last == IsLast(page, page.next)
         records == SelectSeq(page.items, LAMBDA item : ShapeOf(item).record) IN
     reader' =
       IF Strange /\ api.strange = "refused" THEN [reader EXCEPT !.pc = "failed"]
       ELSE IF page.items = <<>> THEN [reader EXCEPT !.pc = "ended"]
       ELSE [reader EXCEPT
               !.records = @ \o [i \in DOMAIN records |-> RecordOf(records[i])],
               !.taken = @ \o records,
               !.page = @ + 1, !.offset = @ + Len(page.items),
               !.cursor = IF manifest.pagination = "cursor" /\ ~last THEN page.next ELSE @,
               !.pc = IF last THEN "ended" ELSE "reading"]
  /\ UNCHANGED <<manifest, api, cap, listing, edits, reads, checked, atStart, since, happened>>

\* A request that fails ends the read with an error; what was yielded stays.
ReadFails ==
  /\ reader.pc = "reading"
  /\ reader' = [reader EXCEPT !.pc = "failed"]
  /\ UNCHANGED <<manifest, api, cap, listing, edits, reads, checked, atStart, since, happened>>

\* The caller has the records; the cursor the reader kept is lost with it.
ManifestReadDone ==
  /\ reader.pc \in {"ended", "failed"}
  /\ reader' = NotReading
  /\ UNCHANGED <<manifest, api, cap, listing, edits, reads, checked, atStart, since, happened>>

ManifestNext ==
  \/ ItemComes \/ ItemComesFirst \/ ItemGoes \/ check \/ read
  \/ ReadManifestPage \/ ReadFails \/ ManifestReadDone

ManifestSpec == ManifestInit /\ [][ManifestNext]_manifestVars

------------------------------------------------------------------------------

\* Every record stands for one item that was read, and the reader is never asked for
\* a page that its own counters could not have led to (CompiledManifestConnector.read).
ManifestTypeOK ==
  /\ reader.pc \in {"idle", "reading", "ended", "failed"} /\ checked \in {"", "true", "false"}
  /\ Len(reader.records) = Len(reader.taken)
  /\ manifest.pagination = "offset" /\ reader.pc = "reading" => reader.offset = (reader.page - 1) * manifest.size
  /\ \A i \in 1..(Len(listing) - 1) : listing[i] < listing[i + 1]

Complete ==
  CASE manifest.pagination = "none" -> Len(atStart) <= cap
    [] manifest.pagination = "cursor" -> TRUE
    [] OTHER -> manifest.size <= cap

\* The manifest has page tokens and a cursor field, and its source, whose tokens are no
\* versions, takes one for the other without an error: what it answers is not what
\* was meant.
Misread ==
  /\ manifest.pagination = "cursor" /\ manifest.incremental /\ api.tokens # "versions"
  /\ api.strange = "nothing" \/ (api.strange = "ignored" /\ api.tokens = "counts")

\* A read that ends while its source only grew at the end has taken every item that
\* was there when it began, in order and once, for every kind of pagination - with
\* pages as large as the source allows, where it counts on full ones, and unless
\* its cursor is misread (read).
WholeListingRead ==
  reader.pc = "ended" /\ happened \subseteq {"end"} /\ Complete /\ ~Misread
    => LET known == SelectSeq(atStart, LAMBDA item : ShapeOf(item).record) IN
       First(Len(known), reader.taken) = known

\* What a misread cursor costs.  A source that answers it with nothing gives the first page
\* only, and nothing at all to a read that goes on from a stored cursor; and no source that
\* knows versions from tokens is ever read beyond its first page without an error (read).
FirstPageOnly ==
  /\ manifest.pagination = "cursor" /\ manifest.incremental /\ api.tokens # "versions"
  /\ api.strange # "ignored"
  => /\ reader.page <= 2 /\ Len(reader.taken) <= Least(manifest.size, cap)
     /\ since # None => reader.taken = <<>>

\* Nothing is yielded twice unless items came in front of those that were read, with
\* tokens that name a place not even then, or the cursor is misread (read).
NothingTwice ==
  /\ \/ happened \subseteq {"end", "gone"}
     \/ manifest.pagination = "cursor" /\ api.tokens # "counts"
  /\ ~Misread
  => \A i, j \in DOMAIN reader.taken : i # j => reader.taken[i] # reader.taken[j]

\* An incremental read yields nothing its caller's cursor covers, unless that is
\* misread (read).
OnlyNewer ==
  since # None /\ ~Misread => \A i \in DOMAIN reader.taken : reader.taken[i] > since

\* A record is public only where its item or, failing that, its manifest says so; and
\* two records of a read have one id only if their items lack one (read).
RecordsTold ==
  /\ \A i \in DOMAIN reader.records :
       reader.records[i].public =>
         \/ ShapeOf(reader.taken[i]).public \in {"true", "text"}
         \/ ShapeOf(reader.taken[i]).public = "" /\ manifest.public
  /\ happened \subseteq {"end"} /\ ~Misread =>
       \A i, j \in DOMAIN reader.records :
         i # j /\ reader.records[i].id = reader.records[j].id => reader.records[i].id = None
==============================================================================
