------------------------------- MODULE Chunking -------------------------------
(* How the text of a page becomes chunks: tables of contents go, footnotes    *)
(* join the paragraph that refers to them, paragraphs are packed up to a      *)
(* target, and what exceeds the ceiling of the embedding model is split. The  *)
(* page grows block by block, and the chunks are a function of it.            *)
EXTENDS Naturals, Sequences, FiniteSets
LOCAL INSTANCE SequencesExt

CONSTANTS
  BodyLengths,   \* lengths of paragraphs; every other block has length 1
  MaxBlocks,     \* blocks of a page
  Target,        \* target_size
  Ceiling,       \* max_chunk_size
  Least,         \* min_chunk_size
  Overlap        \* chunk_overlap

ASSUME ChunkingAssumption ==
  /\ BodyLengths \subseteq Nat \ {0} /\ MaxBlocks \in Nat
  /\ Target \in Nat /\ Ceiling \in Nat /\ Target <= Ceiling /\ 0 < Least /\ Overlap < Target

VARIABLES
  blocks,   \* the page, parsed
  cut,      \* the chunks split_text made of it
  split     \* cut is that of blocks
chunkVars == <<blocks, cut, split>>

Separator == 2    \* characters between two blocks

(* A block: its kind, its length, and whether it holds the footnote's marker. *)
(* An entry is a paragraph that looks like one of a table of contents, a list *)
(* is a table that does.                                                      *)
Block ==
  [kind : {"heading", "entry", "toc", "table", "list"}, len : {1}, mark : {FALSE}]
    \cup [kind : {"body"}, len : BodyLengths, mark : BOOLEAN]
    \cup [kind : {"footnote"}, len : {1}, mark : {TRUE}]

(* A chunk is a sequence of pieces: characters from .. to of a block. An item *)
(* is a block of the page with its footnotes.                                 *)
Piece(i) == [block |-> i, from |-> 1, to |-> blocks[i].len]
Size(piece) == piece.to - piece.from + 1
Length(chunk) == FoldLeft(LAMBDA n, piece : n + Size(piece) + Separator, 0, chunk)
                   - (IF chunk = <<>> THEN 0 ELSE Separator)
Join(items) == FoldLeft(LAMBDA text, item : text \o item, <<>>, items)

-----------------------------------------------------------------------------
(* _filter_retrievable_blocks: a table of contents takes the entries after it *)
(* and the tables go, too, but a table of another kind ends the entries.      *)
Filtered ==
  LET Step(f, i) ==
        IF blocks[i].kind = "toc" THEN [f EXCEPT !.skips = TRUE]
        ELSE IF f.skips /\ blocks[i].kind \in {"entry", "list"} THEN f
        ELSE [skips |-> FALSE,
              kept |-> IF blocks[i].kind \in {"table", "list"} THEN f.kept ELSE Append(f.kept, i)]
  IN FoldLeft(Step, [skips |-> FALSE, kept |-> <<>>], [i \in 1 .. Len(blocks) |-> i]).kept

(* _attach_footnotes_to_blocks: the last item before the footnote that has    *)
(* the marker, else the one before it, else the last of the page.             *)
Marked(item) == \E k \in DOMAIN item : blocks[item[k].block].mark
TargetOf(items, note) ==
  LET before == {k \in DOMAIN items : items[k][1].block < note}
      marked == {k \in before : Marked(items[k])}
      Latest(K) == CHOOSE k \in K : \A j \in K : j <= k
  IN IF marked # {} THEN Latest(marked) ELSE IF before # {} THEN Latest(before) ELSE Len(items)
Items ==
  LET Is(i) == blocks[i].kind = "footnote"
      content == SelectSeq(Filtered, LAMBDA i : ~Is(i))
      Attach(items, note) ==
        IF items = <<>> THEN items
        ELSE [items EXCEPT ![TargetOf(items, note)] = Append(@, Piece(note))]
  IN FoldLeft(Attach, [k \in DOMAIN content |-> <<Piece(content[k])>>], SelectSeq(Filtered, Is))

-----------------------------------------------------------------------------
(* RecursiveCharacterTextSplitter: windows of a block that reaches the target *)
Windows(piece) ==
  LET stride == Target - Overlap
      later == {k \in 1 .. Size(piece) : (k - 1) * stride + Target < Size(piece)}
      To(k) == (k - 1) * stride + Target
  IN [k \in 1 .. 1 + Cardinality(later) |->
        <<[piece EXCEPT !.from = @ + (k - 1) * stride,
                        !.to = IF To(k) < @ THEN To(k) ELSE @]>>]

(* _merge_splits: a full document leaves the end of it to the next one.       *)
Carried(doc, piece) ==
  LET Fits(k) == LET tail == SubSeq(doc, k, Len(doc))
                 IN Length(tail) <= Overlap /\ Length(tail) + Separator + Size(piece) <= Target
      starts == {k \in DOMAIN doc : Fits(k)}
  IN IF starts = {} THEN <<>> ELSE SubSeq(doc, CHOOSE k \in starts : \A j \in starts : k <= j, Len(doc))
Emit(docs, doc) == IF doc = <<>> THEN docs ELSE Append(docs, doc)
SplitText(text) ==
  LET Step(s, piece) ==
        IF Size(piece) >= Target
        THEN [docs |-> Emit(s.docs, s.doc) \o Windows(piece), doc |-> <<>>]
        ELSE IF s.doc # <<>> /\ Length(s.doc) + Separator + Size(piece) > Target
        THEN [docs |-> Append(s.docs, s.doc), doc |-> Append(Carried(s.doc, piece), piece)]
        ELSE [s EXCEPT !.doc = Append(@, piece)]
      end == FoldLeft(Step, [docs |-> <<>>, doc |-> <<>>], text)
  IN Emit(end.docs, end.doc)
SafetySplit(text) == IF Length(text) <= Ceiling THEN <<text>> ELSE SplitText(text)

-----------------------------------------------------------------------------
(* _classify_block of an item: two lines at most, one of them a heading.      *)
IsHeading(item) == blocks[item[1].block].kind = "heading" /\ Len(item) <= 2
OnlyHeadings(buffer) == \A k \in DOMAIN buffer : IsHeading(buffer[k])

(* _tail_overlap_pairs: the last items of a chunk, as the overlap allows.     *)
TailOverlap(buffer) ==
  LET Tail_(k) == SubSeq(buffer, k, Len(buffer))
      Fits(k) == /\ Length(Join(Tail_(k))) <= Overlap
                 /\ \A j \in k .. Len(buffer) : ~IsHeading(buffer[j])
      starts == {k \in DOMAIN buffer : Fits(k)}
  IN IF starts = {} THEN <<>> ELSE Tail_(CHOOSE k \in starts : \A j \in starts : k <= j)

(* _merge_undersized: a short chunk joins the one before it. Fault: also      *)
(* beyond the ceiling.                                                        *)
StartsWithHeading(chunk) == blocks[chunk[1].block].kind = "heading"
JoinsAnyway(merged, chunk) ==
  /\ merged # <<>> /\ Length(chunk) < Least /\ ~StartsWithHeading(chunk)
Joins(merged, chunk) ==
  /\ merged # <<>> /\ Length(chunk) < Least /\ ~StartsWithHeading(chunk)
  /\ Length(merged[Len(merged)]) + Separator + Length(chunk) <= Ceiling
MergeUndersized(all) ==
  LET Step(merged, chunk) ==
        IF Joins(merged, chunk) THEN [merged EXCEPT ![Len(merged)] = @ \o chunk]
        ELSE Append(merged, chunk)
  IN FoldLeft(Step, <<>>, all)

(* _pack_adaptive: a heading starts a chunk, and a chunk that has enough ends *)
(* before the item that would pass the target.                                *)
Packed ==
  LET Flush(s, carry) ==
        IF s.buffer = <<>> THEN s
        ELSE [done |-> s.done \o SafetySplit(Join(s.buffer)),
              buffer |-> IF carry THEN TailOverlap(s.buffer) ELSE <<>>]
      Starts(s, item) == IF blocks[item[1].block].kind = "heading" /\ ~OnlyHeadings(s.buffer)
                         THEN Flush(s, FALSE) ELSE s
      Full(s, item) == /\ s.buffer # <<>> /\ Length(Join(s.buffer)) >= Least
                       /\ Length(Join(s.buffer)) + Separator + Length(item) > Target
      Closes(s, item) == IF Full(s, item) THEN Flush(s, TRUE) ELSE s
      Step(s, item) == [Closes(Starts(s, item), item) EXCEPT !.buffer = Append(@, item)]
  IN Flush(FoldLeft(Step, [done |-> <<>>, buffer |-> <<>>], Items), FALSE).done

(* split_text                                                                 *)
HasStructure == \E i \in DOMAIN blocks : blocks[i].kind \notin {"body", "entry"}
Chunks ==
  MergeUndersized(IF HasStructure THEN Packed ELSE SplitText([i \in DOMAIN blocks |-> Piece(i)]))

-----------------------------------------------------------------------------
Grows ==
  /\ split /\ Len(blocks) < MaxBlocks
  /\ \E block \in Block : blocks' = Append(blocks, block)
  /\ split' = FALSE /\ cut' = <<>>
Splits == ~split /\ split' = TRUE /\ cut' = Chunks /\ UNCHANGED blocks
ChunkingInit == blocks = <<>> /\ cut = <<>> /\ split = TRUE
ChunkingNext == Grows \/ Splits
ChunkingSpec == ChunkingInit /\ [][ChunkingNext]_chunkVars

-----------------------------------------------------------------------------
(* Dropped are tables, tables of contents, and entries that only such blocks  *)
(* separate from a table of contents before them.                             *)
IsDropped(i) ==
  \/ blocks[i].kind \in {"toc", "table", "list"}
  \/ blocks[i].kind = "entry"
       /\ \E t \in 1 .. i - 1 : blocks[t].kind = "toc"
            /\ \A j \in t .. i : blocks[j].kind \in {"toc", "entry", "list"}

(* No character of the text gets lost. Exempt is a page of nothing but        *)
(* footnotes: there is no paragraph they could join.                          *)
NothingIsLost ==
  \A i \in DOMAIN blocks : Items # <<>> /\ ~IsDropped(i) =>
    \A c \in 1 .. blocks[i].len : \E k \in DOMAIN cut : \E j \in DOMAIN cut[k] :
      cut[k][j].block = i /\ cut[k][j].from <= c /\ c <= cut[k][j].to

(* The embedding model can take every chunk.                                  *)
ChunksFit == \A k \in DOMAIN cut : Length(cut[k]) <= Ceiling

(* No chunk runs over from one section into the next.                         *)
SectionsAreApart ==
  \A k \in DOMAIN cut : \A j \in 2 .. Len(cut[k]) :
    blocks[cut[k][j].block].kind = "heading"
      => blocks[cut[k][j - 1].block].kind \notin {"body", "entry"}

(* What is embedded is the whole text of the page, in chunks the embedding    *)
(* model can take, none of which spans two sections.                          *)
ChunksAreSound == split => NothingIsLost /\ ChunksFit /\ SectionsAreApart
===============================================================================
