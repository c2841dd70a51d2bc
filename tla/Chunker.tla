--------------------------------- MODULE Chunker ---------------------------------
(***************************************************************************)
(* SectionAwareChunker of                                                  *)
(* packages/aegismind-ingestion/src/aegismind_ingestion/chunking.py: the   *)
(* lines of a document are gathered into blocks, and the blocks into       *)
(* chunks.                                                                 *)
(*                                                                         *)
(* A document is read line by line, so that the behaviours of this module  *)
(* are the documents there are.  What counts of a line is its kind and its *)
(* length.  In a text, a character is the number of the line it belongs    *)
(* to, and 0 is the end of a line, so that lengths, the overlap of a chunk *)
(* with the one before and the stripping of blanks are those of the code.  *)
(***************************************************************************)
EXTENDS Values, FiniteSets, SequencesExt

CONSTANTS
  LineLength,           \* per kind of line, its length
  MaxChunkSize, ChunkOverlap,
  MaxLines              \* bound on the length of a document

\* h1 and h2 are headings; a fence opens or closes a block of code.
Kinds == {"text", "blank", "table", "fence", "h1", "h2"}
LevelOf == [h1 |-> 1, h2 |-> 2]

VARIABLES
  docLines,             \* the kinds of the lines read so far
  chunker,              \* the state of the loop over the lines
  docChunks             \* the chunks, once the document has ended, or None

chunkerVars == <<docLines, chunker, docChunks>>

ASSUME ChunkerAssumption ==
  /\ LineLength \in [Kinds -> Nat] /\ \A k \in Kinds : LineLength[k] = 0 <=> k = "blank"
  /\ MaxChunkSize \in Nat \ {0} /\ ChunkOverlap \in Nat /\ MaxLines \in Nat

ChunkerInit ==
  /\ docLines = <<>>
  /\ chunker = [headings |-> <<>>, active |-> <<>>, inCode |-> FALSE, inTable |-> FALSE,
                blocks |-> <<>>]
  /\ docChunks = None

------------------------------------------------------------------------------
(* Texts *)

LineText(n) == [i \in 1..LineLength[docLines[n]] |-> n]

\* The lines with the ends of lines between them.
Joined(numbers) ==
  FoldLeft(LAMBDA text, n : IF n = Head(numbers) THEN LineText(n) ELSE text \o <<0>> \o LineText(n),
           <<>>, numbers)

Stripped(text) ==
  LET solid == {i \in DOMAIN text : text[i] # 0} IN
  IF solid = {} THEN <<>>
  ELSE SubSeq(text, CHOOSE i \in solid : \A j \in solid : i <= j,
                    CHOOSE i \in solid : \A j \in solid : i >= j)

------------------------------------------------------------------------------
(* From lines to blocks *)

\* _current_hierarchy_list: the headings in force, the outermost first.
Path(headings) ==
  [i \in 1..Cardinality(DOMAIN headings) |->
     headings[CHOOSE l \in DOMAIN headings : Cardinality({k \in DOMAIN headings : k <= l}) = i]]

\* What has been gathered becomes a block.
Flushed(c, table) ==
  IF c.active = <<>> THEN c
  ELSE [c EXCEPT !.blocks = Append(@, [lines |-> c.active, path |-> Path(c.headings), table |-> table]),
                 !.active = <<>>]

Gathered(c, n) == [c EXCEPT !.active = Append(@, n)]

\* The headings in force after the heading of line n: deeper ones no longer are.
Under(headings, level, n) ==
  [l \in {k \in DOMAIN headings : k < level} \cup {level} |-> IF l = level THEN n ELSE headings[l]]

\* A line that is neither of a table nor in code.  A long block ends at an empty line.
Plain(c, n, kind) ==
  IF kind \in DOMAIN LevelOf
  THEN Gathered([Flushed(c, FALSE) EXCEPT !.headings = Under(@, LevelOf[kind], n)], n)
  ELSE IF kind = "blank" /\ c.active # <<>> /\ Len(Joined(c.active)) >= MaxChunkSize
  THEN Flushed(c, FALSE)
  ELSE Gathered(c, n)

\* The body of the loop.
Read(c, n, kind) ==
  IF kind = "fence" THEN Gathered([c EXCEPT !.inCode = ~@], n)
  ELSE IF c.inCode THEN Gathered(c, n)
  ELSE IF kind = "table"
  THEN Gathered([(IF c.inTable THEN c ELSE Flushed(c, FALSE)) EXCEPT !.inTable = TRUE], n)
  ELSE Plain(IF c.inTable THEN [Flushed(c, TRUE) EXCEPT !.inTable = FALSE] ELSE c, n, kind)

AllBlocks(c) == Flushed(c, c.inTable).blocks

------------------------------------------------------------------------------
(* From blocks to chunks.  own is history: the blocks of a chunk. *)

HasFence(b) == \E i \in DOMAIN b.lines : docLines[b.lines[i]] = "fence"

\* The last characters of a chunk, with which the next one begins.
Overlap(text) == SubSeq(text, Len(text) - Least(Len(text), ChunkOverlap) + 1, Len(text))

\* A chunk that begins with block b.
Opened(text, b, cur) ==
  [text |-> text, path |-> b.path, table |-> b.table, code |-> HasFence(b), own |-> <<b>>]

TooLong(cur, text) == cur.text # <<>> /\ Len(cur.text) + Len(text) > MaxChunkSize

\* Block b is added to the current chunk, or ends it.
Combined(s, b) ==
  LET text == Stripped(Joined(b.lines))
      cur == s.current IN
  IF text = <<>> THEN s
  ELSE IF TooLong(cur, text)
  THEN [done |-> Append(s.done, cur),
        current |-> Opened(Stripped(Overlap(cur.text) \o <<0>> \o text), b, cur)]
  ELSE IF cur.text = <<>> THEN [s EXCEPT !.current = Opened(text, b, cur)]
  ELSE [s EXCEPT !.current = [cur EXCEPT !.text = @ \o <<0, 0>> \o text, !.table = @ \/ b.table,
                                         !.code = @ \/ HasFence(b), !.own = Append(@, b)]]

NoChunk == [text |-> <<>>, path |-> <<>>, table |-> FALSE, code |-> FALSE, own |-> <<>>]

\* chunk: the chunks of the document that has been read.
ChunksOf(c) ==
  LET s == FoldLeft(Combined, [done |-> <<>>, current |-> NoChunk], AllBlocks(c))
  IN IF s.current.text = <<>> THEN s.done ELSE Append(s.done, s.current)

TakeLine ==
  /\ docChunks = None /\ Len(docLines) < MaxLines
  /\ \E kind \in Kinds : docLines' = Append(docLines, kind)
  /\ chunker' = Read(chunker, Len(docLines'), docLines'[Len(docLines')])
  /\ UNCHANGED docChunks

EndDocument ==
  /\ docChunks = None
  /\ docChunks' = ChunksOf(chunker)
  /\ UNCHANGED <<docLines, chunker>>

ChunkerNext == TakeLine \/ EndDocument

ChunkerSpec == ChunkerInit /\ [][ChunkerNext]_chunkerVars

------------------------------------------------------------------------------
(* Properties.  They compare the chunks with the lines of the document. *)

LineNumbers == DOMAIN docLines
ChunkPlaces == IF docChunks = None THEN {} ELSE DOMAIN docChunks

\* The lines of a chunk without what it repeats of the one before.
OwnLines(k) == FoldLeft(LAMBDA s, b : s \o b.lines, <<>>, docChunks[k].own)

\* Code: the lines from a fence to the next, or to the end; fences alternate.
FencesUpTo(n) == Cardinality({m \in 1..n : docLines[m] = "fence"})
InCode(n) == docLines[n] = "fence" \/ FencesUpTo(n) % 2 = 1
InTable(n) == docLines[n] = "table" /\ ~InCode(n)

\* The headings that line n is under: each has no other of its level or above after it.
IsHeading(n) == docLines[n] \in DOMAIN LevelOf /\ ~InCode(n)
Over(n) ==
  {m \in 1..n : IsHeading(m) /\ \A j \in (m + 1)..n :
                  IsHeading(j) => LevelOf[docLines[j]] > LevelOf[docLines[m]]}

ChunkerTypeOK ==
  /\ docLines \in Seq(Kinds) /\ Len(docLines) <= MaxLines
  /\ Elements(chunker.active) \subseteq LineNumbers
  /\ \A k \in ChunkPlaces : LET text == docChunks[k].text IN
       text # <<>> /\ text[1] # 0 /\ text[Len(text)] # 0

\* Every line that is not empty is in exactly one chunk, and in the order of the document.
LinesKept ==
  docChunks # None =>
    SelectSeq(FoldLeft(LAMBDA s, k : s \o OwnLines(k), <<>>, [k \in ChunkPlaces |-> k]),
              LAMBDA n : docLines[n] # "blank")
      = SelectSeq([n \in LineNumbers |-> n], LAMBDA n : docLines[n] # "blank")

\* Neither a table nor a block of code is cut: two lines of one of them that follow each
\* other are in one chunk, and stand there next to each other.
NothingCut ==
  \A n \in LineNumbers \ {Len(docLines)} :
    \/ InTable(n) /\ InTable(n + 1)
    \/ InCode(n) /\ InCode(n + 1) /\ ~(docLines[n] = "fence" /\ FencesUpTo(n) % 2 = 0)
    => \A k \in ChunkPlaces : n \in Elements(OwnLines(k)) <=> n + 1 \in Elements(OwnLines(k))

\* The headings of a chunk are those that its own lines are under, up to the next heading
\* in the chunk.  The lines from there on keep them, also those that are under them no
\* longer; but whatever other heading such a line is under stands in the chunk, above it.
HeadingsRight ==
  \A k \in ChunkPlaces :
    LET own   == Elements(OwnLines(k))
        path  == Elements(docChunks[k].path)
        later == {m \in own : IsHeading(m)} \ {Head(OwnLines(k))} IN
    /\ \A n \in own : IF \E m \in later : m <= n THEN Over(n) \subseteq path \cup later ELSE Over(n) = path
    /\ \A i, j \in DOMAIN docChunks[k].path : i < j => docChunks[k].path[i] < docChunks[k].path[j]

\* A chunk is marked to have a table or code exactly if one of its own lines is of one.
FlagsRight ==
  \A k \in ChunkPlaces :
    /\ docChunks[k].table <=> \E n \in Elements(OwnLines(k)) : InTable(n)
    /\ docChunks[k].code <=> \E n \in Elements(OwnLines(k)) : docLines[n] = "fence"

\* A chunk of several blocks exceeds the limit at most by the empty line before the last;
\* one that does not is a single block, with the end of the chunk before.
SizeKept ==
  \A k \in ChunkPlaces :
    Len(docChunks[k].text) > MaxChunkSize + 2 => Len(docChunks[k].own) = 1

\* A chunk begins with the end of the one before, at most ChunkOverlap characters of it,
\* and has nothing else that is not its own.
OverlapRight ==
  \A k \in ChunkPlaces :
    LET chunk == docChunks[k]
        foreign == {i \in DOMAIN chunk.text : chunk.text[i] \notin Elements(OwnLines(k)) \cup {0}} IN
    /\ Cardinality(foreign) <= (IF k = 1 THEN 0 ELSE ChunkOverlap)
    /\ foreign # {} =>
         LET size == CHOOSE i \in foreign : \A j \in foreign : j <= i IN
         First(size, chunk.text)
           = SubSeq(docChunks[k - 1].text, Len(docChunks[k - 1].text) - size + 1,
                    Len(docChunks[k - 1].text))
==================================================================================
