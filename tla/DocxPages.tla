------------------------------ MODULE DocxPages ------------------------------
(* How an uploaded DOCX becomes pages: extract_docx_pages follows the page    *)
(* breaks that the word processor left in the runs of the paragraphs, puts    *)
(* the footnotes at the foot of the page of their reference, and cuts a       *)
(* document without such breaks into blocks. The document grows run by run.   *)
EXTENDS Naturals, Sequences
LOCAL INSTANCE SequencesExt

CONSTANTS
  RunLengths,   \* lengths of the text of a run, without blanks around it
  MaxRuns,
  BlockSize     \* page_char_size

ASSUME DocxAssumption == RunLengths \subseteq Nat /\ MaxRuns \in Nat /\ BlockSize \in Nat \ {0}

VARIABLES
  runs,       \* the document
  sheets,     \* the pages extract_docx_pages made of it
  extracted   \* sheets are those of runs
docxVars == <<runs, sheets, extracted>>

(* A run: the first of its paragraph, a break before its text, its length,    *)
(* bold or not, and whether it refers to a footnote that has a text.          *)
Run == [first : BOOLEAN, break : BOOLEAN, len : RunLengths, bold : BOOLEAN, note : BOOLEAN]

(* Characters: the n-th of a run or of the footnote of a run, a new line, or  *)
(* a sign of the markup.                                                      *)
OfRun(i) == [n \in 1 .. runs[i].len |-> [of |-> "run", run |-> i, nr |-> n]]
OfNote(i) == <<[of |-> "note", run |-> i, nr |-> 1]>>
NewLine == [of |-> "line", run |-> 0, nr |-> 0]
Sign == [of |-> "sign", run |-> 0, nr |-> 0]
Markers == [note |-> <<Sign, Sign, Sign>>, heading |-> <<Sign, Sign>>]
Lines(texts) ==
  FoldLeft(LAMBDA page, text : IF page = <<>> THEN text ELSE page \o <<NewLine>> \o text, <<>>, texts)

-----------------------------------------------------------------------------
(* The paragraphs, and the parts of one between two breaks. A paragraph in   *)
(* bold is a heading (long ones are not, which is left out).                 *)
Firsts == {i \in DOMAIN runs : runs[i].first}
Paragraph(i) == LET heads == {f \in Firsts : f <= i} IN CHOOSE f \in heads : \A g \in heads : g <= f
IsTitle(i) ==
  LET own == {j \in DOMAIN runs : Paragraph(j) = Paragraph(i)}
  IN (\E j \in own : runs[j].len > 0) /\ \A j \in own : runs[j].bold
StartsPart(i) == runs[i].first \/ runs[i].break
Part(i) == LET rest == {j \in i .. Len(runs) : \A k \in i + 1 .. j : ~StartsPart(k)}
           IN SelectSeq([k \in DOMAIN runs |-> k], LAMBDA j : j \in rest)
TextOf(part) == FoldLeft(LAMBDA text, i : text \o OfRun(i), <<>>, part)
NotesOf(part) ==
  LET said == SelectSeq(part, LAMBDA i : runs[i].note)
  IN [k \in DOMAIN said |-> OfNote(said[k])]

(* _flush_page: the lines of the page, and its footnotes under a rule.        *)
Flushed(s) ==
  LET rule == IF s.notes = <<>> THEN <<>> ELSE <<Markers.note>> \o s.notes
  IN [done |-> Append(s.done, Lines(s.lines \o rule)), lines |-> <<>>, notes |-> <<>>]

Written(s, i) ==
  LET text == TextOf(Part(i)) IN
    IF text = <<>> THEN s
    ELSE [s EXCEPT !.lines = Append(@, IF IsTitle(i) THEN Markers.heading \o text ELSE text)]
Noted(s, i) == [s EXCEPT !.notes = @ \o NotesOf(Part(i))]

(* Fault: the footnotes are collected before the page is turned.              *)
PartAddedLate(s, i) ==
  LET noted == Noted(s, i) IN Written(IF runs[i].break THEN Flushed(noted) ELSE noted, i)
PartAdded(s, i) == Written(Noted(IF runs[i].break THEN Flushed(s) ELSE s, i), i)

(* Without a second page: blocks of a fixed size.                             *)
Blocks(text) ==
  LET starts == {k \in 1 .. Len(text) : (k - 1) % BlockSize = 0}
      To(k) == IF k + BlockSize - 1 < Len(text) THEN k + BlockSize - 1 ELSE Len(text)
  IN [n \in 1 .. (Len(text) + BlockSize - 1) \div BlockSize |->
        LET k == CHOOSE j \in starts : (j - 1) \div BlockSize = n - 1 IN SubSeq(text, k, To(k))]

Stripped(page) ==
  LET solid == {k \in DOMAIN page : page[k] # NewLine}
  IN IF solid = {} THEN <<>>
     ELSE SubSeq(page, CHOOSE k \in solid : \A j \in solid : k <= j,
                       CHOOSE k \in solid : \A j \in solid : j <= k)

DocxSheets ==
  LET parts == SelectSeq([i \in DOMAIN runs |-> i], StartsPart)
      all == FoldLeft(PartAdded, [done |-> <<>>, lines |-> <<>>, notes |-> <<>>], parts)
      last == IF all.lines = <<>> /\ all.notes = <<>> THEN all.done ELSE Flushed(all).done
      pages == IF Len(last) > 1 THEN last ELSE Blocks(IF last = <<>> THEN <<>> ELSE last[1])
  IN SelectSeq([k \in DOMAIN pages |-> Stripped(pages[k])], LAMBDA page : page # <<>>)

-----------------------------------------------------------------------------
TypesRun ==
  /\ extracted /\ Len(runs) < MaxRuns
  /\ \E run \in Run : (runs = <<>> => run.first) /\ runs' = Append(runs, run)
  /\ extracted' = FALSE /\ sheets' = <<>>
UploadsDocx == ~extracted /\ extracted' = TRUE /\ sheets' = DocxSheets /\ UNCHANGED runs
DocxInit == runs = <<>> /\ sheets = <<>> /\ extracted = TRUE
DocxNext == TypesRun \/ UploadsDocx
DocxSpec == DocxInit /\ [][DocxNext]_docxVars

-----------------------------------------------------------------------------
(* Every character of the text stands on exactly one page, in its place, and  *)
(* so does every footnote.                                                    *)
TextIsKept ==
  LET all == FoldLeft(LAMBDA text, page : text \o page, <<>>, sheets) IN
    /\ SelectSeq(all, LAMBDA c : c.of = "run") = TextOf([i \in DOMAIN runs |-> i])
    /\ SelectSeq(all, LAMBDA c : c.of = "note")
         = FoldLeft(LAMBDA text, note : text \o note, <<>>, NotesOf([i \in DOMAIN runs |-> i]))

(* A document of one sheet has no break, or one that nothing follows.         *)
OneSheet ==
  \A i \in DOMAIN runs : runs[i].break =>
    \A j \in DOMAIN runs : /\ j # i => ~runs[j].break
                           /\ j >= i => runs[j].len = 0 /\ ~runs[j].note

(* The text and the footnotes of two runs share a page exactly if no break    *)
(* is between them.                                                           *)
PagesArePrinted ==
  \A k, l \in DOMAIN sheets : \A c \in DOMAIN sheets[k] : \A d \in DOMAIN sheets[l] :
    LET i == sheets[k][c].run j == sheets[l][d].run IN
      0 < i /\ i < j => (k = l <=> \A b \in i + 1 .. j : ~runs[b].break)

(* Pages are those that were printed, or else none is longer than a block;    *)
(* none is empty, and no text gets lost.                                      *)
DocxIsWhole ==
  extracted =>
    /\ TextIsKept
    /\ IF OneSheet THEN \A k \in DOMAIN sheets : Len(sheets[k]) <= BlockSize ELSE PagesArePrinted
    /\ \A k \in DOMAIN sheets : sheets[k] # <<>>
=============================================================================
