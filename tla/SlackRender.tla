---------------------------- MODULE SlackRender -----------------------------
(***************************************************************************)
(* _split_text of app/channels/slack_render.py: an answer is cut into the  *)
(* section blocks of a Slack message, between paragraphs where that leaves *)
(* a block of decent size, and anywhere else where it does not.            *)
(*                                                                         *)
(* A text is a sequence of places in the answer; what is at a place is a   *)
(* visible character, a blank or a newline.                                *)
(***************************************************************************)
EXTENDS Integers, Sequences, FiniteSetsExt, SequencesExt

CONSTANTS
  Answers,    \* sequences of "visible", "blank" and "newline"
  Limit,      \* SECTION_CHAR_LIMIT
  MinPart     \* a paragraph break before this place is not used (500), 1..Limit

ASSUME RenderAssumption ==
  /\ Answers \subseteq Seq({"visible", "blank", "newline"})
  /\ Limit \in Nat /\ MinPart \in 1..Limit

VARIABLES
  answer,     \* the answer, as mrkdwn
  splitting,  \* _split_text has not returned
  remaining,
  parts

renderVars == <<answer, splitting, remaining, parts>>

RenderInit ==
  /\ answer \in Answers
  /\ splitting = TRUE
  /\ remaining = [i \in DOMAIN answer |-> i]
  /\ parts = << >>

Visible(i) == answer[i] = "visible"

(* str.lstrip *)
LStripped(text) ==
  LET visible == {i \in DOMAIN text : Visible(text[i])}
  IN IF visible = {} THEN << >> ELSE SubSeq(text, Min(visible), Len(text))

(* How many characters precede each paragraph break within the limit.      *)
Breaks == {p \in 0..(Limit - 2) : answer[remaining[p + 1]] = "newline"
                                  /\ answer[remaining[p + 2]] = "newline"}

Boundary == IF Breaks = {} \/ Max(Breaks) < MinPart THEN Limit ELSE Max(Breaks)

(* Slip: the two newlines are skipped, whether they are there or not. *)
RestAfterBreak(boundary) == LStripped(SubSeq(remaining, boundary + 3, Len(remaining)))

Rest(boundary) == LStripped(SubSeq(remaining, boundary + 1, Len(remaining)))

CutPart ==
  /\ splitting /\ Len(remaining) > Limit
  /\ parts' = Append(parts, SubSeq(remaining, 1, Boundary))
  /\ remaining' = Rest(Boundary)
  /\ splitting' = (remaining' # << >>)
  /\ UNCHANGED answer

(* What fits is the last part; an empty answer is one empty part. *)
LastPart ==
  /\ splitting /\ Len(remaining) <= Limit
  /\ parts' = Append(parts, remaining)
  /\ splitting' = FALSE
  /\ UNCHANGED <<answer, remaining>>

RenderNext == CutPart \/ LastPart

RenderSpec == RenderInit /\ [][RenderNext]_renderVars

-----------------------------------------------------------------------------
(* The blocks of an answer fit Slack's limit, all but the last of them are *)
(* of decent size, and together they are the answer: its characters in     *)
(* their order, once, but for white space between two blocks, whatever the *)
(* lengths and the breaks of its paragraphs (slack_render.py:64-79).       *)
BlocksCarryTheAnswer ==
  ~splitting =>
    /\ \A n \in DOMAIN parts : \A i \in DOMAIN parts[n] :
         \A m \in DOMAIN parts : \A j \in DOMAIN parts[m] :
           n < m \/ (n = m /\ i < j) => parts[n][i] < parts[m][j]
    /\ \A c \in DOMAIN answer : Visible(c) =>
         \E n \in DOMAIN parts : \E i \in DOMAIN parts[n] : parts[n][i] = c
    /\ \A n \in DOMAIN parts :
         /\ Len(parts[n]) <= Limit
         /\ n < Len(parts) => Len(parts[n]) >= MinPart
=============================================================================
