---------------------------- MODULE RangeContent ----------------------------
(***************************************************************************)
(* get_range_content and the "Implementation" of symbol_explore            *)
(* (getRangeContent of mcpserver/tools/utils.go): the text of a file       *)
(* between two positions, which count from 0.                              *)
(***************************************************************************)
EXTENDS Integers, Sequences, SequencesExt

CONSTANTS
  LineEnd,      \* the character between two lines
  RangeCases    \* [lines, from, to, strict]; a position is <<line, character>>

Characters(c) == UNION {ToSet(c.lines[i]) : i \in DOMAIN c.lines}

ASSUME RangeConstants ==
  \A c \in RangeCases :
    /\ c.lines \in Seq(Seq(Characters(c))) /\ c.lines # << >>
    /\ c.from \in Nat \X Nat /\ c.to \in Nat \X Nat /\ c.strict \in BOOLEAN

VARIABLES rangeCase, rangeResult

rangeVars == <<rangeCase, rangeResult>>

NoText == [ok |-> FALSE, text |-> << >>]
Text(t) == [ok |-> TRUE, text |-> t]

LineAt(c, n) == c.lines[n + 1]

\* The lines exist and the positions are in order.
ValidRange(c) ==
  /\ c.from[1] < Len(c.lines) /\ c.to[1] < Len(c.lines)
  /\ \/ c.from[1] < c.to[1]
     \/ c.from[1] = c.to[1] /\ c.from[2] <= c.to[2]

\* A character behind the end of its line is refused or moved to the end.
InLine(c, p) == p[2] <= Len(LineAt(c, p[1]))
Clamped(c, p) == IF InLine(c, p) THEN p[2] ELSE Len(LineAt(c, p[1]))

OneLine(c) == SubSeq(LineAt(c, c.from[1]), Clamped(c, c.from) + 1, Clamped(c, c.to))

FirstLine(c) ==
  LET line == LineAt(c, c.from[1])
  IN  SubSeq(line, Clamped(c, c.from) + 1, Len(line))

\* A number of lines from one on, each with the end of the line before it.
LinesFrom(c, first, number) ==
  FlattenSeq([i \in 1 .. number |-> <<LineEnd>> \o LineAt(c, first + i - 1)])

\* The lines between.
MiddleLines(c) == LinesFrom(c, c.from[1] + 1, c.to[1] - c.from[1] - 1)

\* Of the last line one character less than the position says, unless the
\* position is behind its end.
LastLine(c) ==
  LET line == LineAt(c, c.to[1])
  IN  IF ~InLine(c, c.to) THEN line
      ELSE SubSeq(line, 1, IF c.to[2] > 0 THEN c.to[2] - 1 ELSE 0)

RangeContent(c) ==
  IF ~ValidRange(c) \/ (c.strict /\ ~(InLine(c, c.from) /\ InLine(c, c.to)))
    THEN NoText
  ELSE IF c.from[1] = c.to[1] THEN Text(OneLine(c))
  ELSE Text(FirstLine(c) \o MiddleLines(c) \o <<LineEnd>> \o LastLine(c))

RangeInit == rangeCase \in RangeCases /\ rangeResult = NoText

ReadRange ==
  /\ rangeResult = NoText
  /\ rangeResult' = RangeContent(rangeCase)
  /\ UNCHANGED rangeCase

RangeNext == ReadRange

-----------------------------------------------------------------------------
(* Reference definitions. *)

WholeText(c) == LineAt(c, 0) \o LinesFrom(c, 1, Len(c.lines) - 1)

\* How many characters of the whole text stand before a position: the lines
\* before it with their ends, and those of its own line.
Before(c, p) ==
  Len(FlattenSeq([i \in 1 .. p[1] |-> LineAt(c, i - 1) \o <<LineEnd>>]))
    + Clamped(c, p)

\* range.go and utils.go: what is returned is the text of the file from the
\* first position to the second, where a position behind the end of a line
\* stands for the end, with one exception: of a range of several lines the
\* last character is missing, if the range ends inside a line or at its end.
\* With strict it is returned only when both positions are in their lines.
RangeSound ==
  rangeResult # NoText =>
    LET c    == rangeCase
        less == IF c.from[1] < c.to[1] /\ InLine(c, c.to) /\ c.to[2] > 0
                  THEN 1 ELSE 0
    IN  /\ ValidRange(c) /\ (c.strict => InLine(c, c.from) /\ InLine(c, c.to))
        /\ rangeResult.text =
             SubSeq(WholeText(c), Before(c, c.from) + 1, Before(c, c.to) - less)

=============================================================================
