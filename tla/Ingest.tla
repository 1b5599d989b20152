------------------------------- MODULE Ingest --------------------------------
(***************************************************************************)
(* How app/ingest.py turns a markdown file into the chunks of the index:   *)
(* read_sections cuts it at its headings, merge_tiny_sections joins        *)
(* sections that are too small with their successors, chunk_section splits *)
(* those that are too large between paragraphs.  A step is a round of one  *)
(* of the loops, or what follows it.                                       *)
(*                                                                         *)
(* A document is a sequence of lines, of which only the kind matters: a    *)
(* heading of level 1 to 3, an empty line, or a line of text of some size. *)
(* Lines carry no white space at their ends.  A text is a sequence of runs *)
(* of lines, with an empty line between any two.  A heading path is a set  *)
(* of headings: their levels differ, and order it.                         *)
(***************************************************************************)
EXTENDS Integers, Sequences, FiniteSetsExt, SequencesExt

CONSTANTS
  Documents,      \* sequences of kinds of lines
  Width,          \* the characters of a line that is not empty, by kind
  Target,         \* target_chars of chunk_section
  MinChars,       \* min_chars of merge_tiny_sections
  OverlapBelow    \* a last paragraph this short is repeated in the next chunk

HeadingLevel == [h1 |-> 1, h2 |-> 2, h3 |-> 3]

ASSUME WidthAssumption ==
  /\ DOMAIN HeadingLevel \subseteq DOMAIN Width
  /\ \A kind \in DOMAIN Width : Width[kind] \in Nat \ {0}
ASSUME DocumentsAssumption == Documents \subseteq Seq({"empty"} \cup DOMAIN Width)
ASSUME LimitsAssumption == Target \in Nat /\ MinChars \in Nat /\ OverlapBelow \in Nat

VARIABLES
  document,
  pass,         \* the loop load is in: "read", "merge", "chunk", "split"; or "loaded"
  taken,        \* the lines, then the sections, that loop has taken
  from,         \* current_lines begins here
  stack,        \* heading_stack: the lines of its headings
  sections,     \* the MarkdownSections read: [path, text] records
  pending,      \* a sequence of one section, or none
  merged,       \* the sections merged
  left,         \* the first lines of the paragraphs still to take
  current,      \* the paragraphs of the next chunk
  chunks        \* chunked_sections

readVars == <<from, stack, sections>>
mergeVars == <<pending, merged>>
splitVars == <<left, current, chunks>>
ingestVars == <<document, pass, taken, from, stack, sections, pending, merged, left, current, chunks>>

IngestInit ==
  /\ document \in Documents
  /\ pass = "read" /\ taken = 0
  /\ from = 1 /\ stack = {} /\ sections = << >>
  /\ pending = << >> /\ merged = << >>
  /\ left = {} /\ current = << >> /\ chunks = << >>

-----------------------------------------------------------------------------
(* Texts.                                                                  *)

SolidLines == {l \in DOMAIN document : document[l] # "empty"}

Run(first, last) == [first |-> first, last |-> last]

(* The places in a run: one for each character of its lines, and one for   *)
(* the newline after each of them but the last.                            *)
Places(run) ==
  UNION {{l} \X (1..((IF l \in SolidLines THEN Width[document[l]] ELSE 0)
                     + (IF l < run.last THEN 1 ELSE 0))) : l \in run.first..run.last}

(* len(text) *)
Length(text) ==
  Cardinality(UNION {Places(text[i]) : i \in DOMAIN text}) + 2 * (Len(text) - 1)

(* str.strip, of the text of these lines *)
Stripped(lineset) ==
  LET solid == lineset \cap SolidLines
  IN IF solid = {} THEN << >> ELSE <<Run(Min(solid), Max(solid))>>

-----------------------------------------------------------------------------
(* read_sections                                                           *)

Level(l) == IF document[l] \in DOMAIN HeadingLevel THEN HeadingLevel[document[l]] ELSE 0

(* flush *)
Flushed ==
  LET text == Stripped(from..taken)
  IN IF text = << >> THEN sections ELSE Append(sections, [path |-> stack, text |-> text])

(* Slip: a heading leaves the deeper ones of the section before it. *)
StackedOver(l) == {h \in stack : Level(h) # Level(l)} \cup {l}

(* A heading replaces that of its level and removes the deeper ones. *)
Stacked(l) == {h \in stack : Level(h) < Level(l)} \cup {l}

ReadText ==
  /\ pass = "read" /\ taken < Len(document) /\ Level(taken + 1) = 0
  /\ taken' = taken + 1
  /\ UNCHANGED <<document, pass, readVars, mergeVars, splitVars>>

ReadHeading ==
  /\ pass = "read" /\ taken < Len(document) /\ Level(taken + 1) > 0
  /\ sections' = Flushed
  /\ from' = taken + 1
  /\ stack' = Stacked(taken + 1)
  /\ taken' = taken + 1
  /\ UNCHANGED <<document, pass, mergeVars, splitVars>>

EndRead ==
  /\ pass = "read" /\ taken = Len(document)
  /\ sections' = Flushed
  /\ pass' = "merge" /\ taken' = 0
  /\ UNCHANGED <<document, from, stack, mergeVars, splitVars>>

-----------------------------------------------------------------------------
(* merge_tiny_sections                                                     *)

Tiny(section) == Length(section.text) < MinChars

MergeSection ==
  /\ pass = "merge" /\ taken < Len(sections)
  /\ LET section == sections[taken + 1]
     IN IF pending # << >> /\ Tiny(pending[1])
        THEN /\ pending' = <<[path |-> section.path, text |-> pending[1].text \o section.text]>>
             /\ UNCHANGED merged
        ELSE pending' = <<section>> /\ merged' = merged \o pending
  /\ taken' = taken + 1
  /\ UNCHANGED <<document, pass, readVars, splitVars>>

(* Slip: a last section that is still too small is dropped. *)
AllButTinyRest == IF pending # << >> /\ Tiny(pending[1]) THEN merged ELSE merged \o pending

WithRest == merged \o pending

EndMerge ==
  /\ pass = "merge" /\ taken = Len(sections)
  /\ merged' = WithRest
  /\ pass' = "chunk" /\ taken' = 0
  /\ UNCHANGED <<document, readVars, pending, splitVars>>

-----------------------------------------------------------------------------
(* chunk_section, of the next section                                      *)

Section == merged[taken + 1]
Chunk(text) == [path |-> Section.path, text |-> text]

KeepSection ==
  /\ pass = "chunk" /\ taken < Len(merged) /\ Length(Section.text) <= Target
  /\ chunks' = Append(chunks, Section)
  /\ taken' = taken + 1
  /\ UNCHANGED <<document, pass, readVars, mergeVars, left, current>>

(* text.split("\n\n"), stripped, without the empty ones: the longest runs  *)
(* of lines that are not empty.                                            *)
Unbroken(text, l, m) ==
  \E i \in DOMAIN text : text[i].first <= l /\ m <= text[i].last /\ l..m \subseteq SolidLines

Starts(text) == {l \in DOMAIN document : Unbroken(text, l, l) /\ ~Unbroken(text, l - 1, l)}
Paragraph(text, l) == Run(l, Max({m \in l..Len(document) : Unbroken(text, l, m)}))

BeginSplit ==
  /\ pass = "chunk" /\ taken < Len(merged) /\ Length(Section.text) > Target
  /\ left' = Starts(Section.text)
  /\ current' = << >>
  /\ pass' = "split"
  /\ UNCHANGED <<document, taken, readVars, mergeVars, chunks>>

Overlap == IF Length(<<Last(current)>>) < OverlapBelow THEN <<Last(current)>> ELSE << >>

(* Slip: the chunk is measured before the paragraph is added. *)
OverflowsAlready(paragraph) == Length(current) > Target

Overflows(paragraph) == Length(Append(current, paragraph)) > Target

AddParagraph ==
  /\ pass = "split" /\ left # {}
  /\ LET paragraph == Paragraph(Section.text, Min(left))
     IN IF current # << >> /\ Overflows(paragraph)
        THEN /\ chunks' = Append(chunks, Chunk(current))
             /\ current' = Append(Overlap, paragraph)
        ELSE current' = Append(current, paragraph) /\ UNCHANGED chunks
  /\ left' = left \ {Min(left)}
  /\ UNCHANGED <<document, pass, taken, readVars, mergeVars>>

EndSplit ==
  /\ pass = "split" /\ left = {}
  /\ chunks' = IF current = << >> THEN chunks ELSE Append(chunks, Chunk(current))
  /\ pass' = "chunk" /\ taken' = taken + 1
  /\ UNCHANGED <<document, readVars, mergeVars, left, current>>

Loaded ==
  /\ pass = "chunk" /\ taken = Len(merged)
  /\ pass' = "loaded"
  /\ UNCHANGED <<document, taken, readVars, mergeVars, splitVars>>

IngestNext ==
  \/ ReadText \/ ReadHeading \/ EndRead
  \/ MergeSection \/ EndMerge
  \/ KeepSection \/ BeginSplit \/ AddParagraph \/ EndSplit \/ Loaded

IngestSpec == IngestInit /\ [][IngestNext]_ingestVars

-----------------------------------------------------------------------------
FirstLine(text) == text[1].first
LastLine(text) == text[Len(text)].last
LastOf(texts, n) == IF n = 0 THEN 0 ELSE LastLine(texts[n].text)

NoneBetween(l, m) == \A s \in SolidLines : ~(l < s /\ s < m)

(* The lines of a text that are not empty are, in their order, those of    *)
(* the document from the first of them to the last.                        *)
Carries(text) ==
  /\ text # << >> /\ FirstLine(text) \in SolidLines /\ LastLine(text) \in SolidLines
  /\ \A i \in DOMAIN text : text[i].first <= text[i].last
  /\ \A i, j \in DOMAIN text : i < j => text[i].last < text[j].first
  /\ \A l \in SolidLines : FirstLine(text) <= l /\ l <= LastLine(text) =>
       \E i \in DOMAIN text : l \in text[i].first..text[i].last

(* A text begins after the line before, or repeats what ends there. *)
Follows(text, before) ==
  /\ before < LastLine(text)
  /\ NoneBetween(before, FirstLine(text))
  /\ FirstLine(text) <= before =>
       /\ FirstLine(text)..before \subseteq SolidLines
       /\ Length(<<Run(FirstLine(text), before)>>) < OverlapBelow

(* Chunking loses nothing, reorders nothing, and repeats only what it      *)
(* means to: each chunk is a run of the document's lines, the first begins *)
(* where the document does, the last ends where it does, and each begins   *)
(* after the one before it or with that one's last paragraph, if it is     *)
(* short (ingest.py:53-125).                                               *)
ChunksCoverTheDocument ==
  pass = "loaded" =>
    /\ \A n \in DOMAIN chunks :
         Carries(chunks[n].text) /\ Follows(chunks[n].text, LastOf(chunks, n - 1))
    /\ \A l \in SolidLines : l <= LastOf(chunks, Len(chunks))

(* No chunk is larger than the target unless it could not be split, or a   *)
(* short paragraph is repeated before one that fills the target by itself  *)
(* or nearly: an overlap is added without measuring it                     *)
(* (ingest.py:87-104).                                                     *)
ChunksFit ==
  pass = "loaded" =>
    \A n \in DOMAIN chunks :
      LET text == chunks[n].text
          paragraphs == Cardinality(Starts(text))
      IN \/ Length(text) <= Target
         \/ paragraphs = 1
         \/ paragraphs = 2 /\ n > 1 /\ FirstLine(text) <= LastOf(chunks, n - 1)

(* The headings a line stands under, by what they are: those above it with *)
(* no heading of their level or a higher one between.                      *)
Enclosing(l) ==
  {h \in 1..l : Level(h) > 0 /\ \A g \in (h + 1)..l : Level(g) = 0 \/ Level(g) > Level(h)}

SectionOf(l) ==
  {i \in DOMAIN document : \A h \in ((i + 1)..l) \cup ((l + 1)..i) : Level(h) = 0}

(* A chunk is cited under the headings its last line stands under; or, if  *)
(* that line's section is too small to be indexed by itself, under those   *)
(* of a later section it was merged into (ingest.py:61-83, 115-119).       *)
CitedUnderItsHeadings ==
  pass = "loaded" =>
    \A n \in DOMAIN chunks :
      LET last == LastLine(chunks[n].text)
      IN \/ chunks[n].path = Enclosing(last)
         \/ /\ Length(Stripped(SectionOf(last))) < MinChars
            /\ \E l \in DOMAIN document : l > last /\ chunks[n].path = Enclosing(l)
=============================================================================
