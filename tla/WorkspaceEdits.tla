--------------------------- MODULE WorkspaceEdits ---------------------------
(***************************************************************************)
(* The bridge applies edits to files on disk: those that formatting        *)
(* returned for one file (ApplyTextEdits) and those of a rename, which may *)
(* also create, rename and delete files (ApplyWorkspaceEdit, bridge.go).   *)
(* It does one after the other and stops at the first error.               *)
(*                                                                         *)
(* A file is a sequence of lines, a line a sequence of characters; lines   *)
(* and characters are numbered from 0 in an edit, as in the protocol.      *)
(***************************************************************************)
EXTENDS Integers, Sequences, FiniteSets, SequencesExt

CONSTANTS
  File,
  Allowed,       \* the files in the allowed directories
  NewLine,       \* the character that separates lines
  Absent, Torn,  \* no file; a file that was truncated and not written
  EditCases      \* the workspace edits considered, with the files they meet

ASSUME EditConstants ==
  /\ Allowed \subseteq File
  /\ \A c \in EditCases :
       /\ DOMAIN c.files = File /\ c.ops \in Seq(ToSet(c.ops))
       /\ DOMAIN c.changes \subseteq File /\ IsFiniteSet(DOMAIN c.changes)

VARIABLES
  editCase,      \* the edit, and the files before it
  disk,          \* the files
  opsLeft,       \* document changes that are still to be made
  mapLeft,       \* files of the map "changes" that are still to be edited
  loaded,        \* what was read of the file that is being edited
  editResult,    \* "none" until the bridge returns
  made           \* history: the changes that were made, in their order

editVars == <<editCase, disk, opsLeft, mapLeft, loaded, editResult, made>>

-----------------------------------------------------------------------------
(* applyTextEditsToContent. *)

Edit(l1, c1, l2, c2, text) ==
  [from |-> <<l1, c1>>, to |-> <<l2, c2>>, text |-> text]

Earlier(p, q) == p[1] < q[1] \/ (p[1] = q[1] /\ p[2] < q[2])

\* Mutant: edits are made from the beginning to the end.
LaterFirst(e1, e2) == Earlier(e2.from, e1.from)

MustSwap(e1, e2) == Earlier(e1.from, e2.from)

\* The pairs <<i, j>> with i < j that the two loops compare, in their order.
Pairs(n) == FlattenSeq([i \in 1 .. n |-> [k \in 1 .. n - i |-> <<i, i + k>>]])

SortEdits(edits) ==
  FoldLeft(LAMBDA es, ij :
             IF MustSwap(es[ij[1]], es[ij[2]])
             THEN [es EXCEPT ![ij[1]] = es[ij[2]], ![ij[2]] = es[ij[1]]]
             ELSE es,
           edits, Pairs(Len(edits)))

\* An edit that lies outside the text is skipped.
Applicable(lines, e) ==
  /\ e.from[1] < Len(lines) /\ e.to[1] < Len(lines)
  /\ e.from[2] <= Len(lines[e.from[1] + 1])
  /\ e.to[2] <= Len(lines[e.to[1] + 1])

\* The text between the positions is replaced; a line may then hold line
\* ends, which the next edits do not see.
ApplyEdit(lines, e) ==
  LET first == lines[e.from[1] + 1]
      last  == lines[e.to[1] + 1]
      joined == SubSeq(first, 1, e.from[2]) \o e.text
                  \o SubSeq(last, e.to[2] + 1, Len(last))
  IN  IF ~Applicable(lines, e) THEN lines
      ELSE SubSeq(lines, 1, e.from[1]) \o <<joined>>
             \o SubSeq(lines, e.to[1] + 2, Len(lines))

\* strings.Join, and strings.Split.
Joined(lines) ==
  FoldLeft(LAMBDA text, i : IF i = 1 THEN lines[i]
                            ELSE text \o <<NewLine>> \o lines[i],
           << >>, [i \in 1 .. Len(lines) |-> i])

Split(text) ==
  FoldLeft(LAMBDA lines, c :
             IF c = NewLine THEN Append(lines, << >>)
             ELSE [lines EXCEPT ![Len(lines)] = Append(@, c)],
           <<<< >>>>, text)

EditText(lines, edits) ==
  Split(Joined(FoldLeft(ApplyEdit, lines, SortEdits(edits))))

-----------------------------------------------------------------------------
(* ApplyWorkspaceEdit.  A change of a document is a record with its kind:  *)
(* "edit", "create", "rename", "delete", or "other", which is skipped.     *)

EditInit ==
  /\ editCase \in EditCases
  /\ disk = editCase.files
  /\ opsLeft = editCase.ops
  /\ mapLeft = DOMAIN editCase.changes
  /\ loaded = Absent /\ editResult = "none" /\ made = << >>

Running == editResult = "none"

EditFails == editResult' = "error" /\ UNCHANGED <<opsLeft, mapLeft, made>>

\* The document change is done: it leaves the list.
OpDone ==
  /\ opsLeft' = Tail(opsLeft) /\ made' = Append(made, Head(opsLeft))
  /\ UNCHANGED <<mapLeft, editResult>>

\* A file is created, renamed or deleted; the file system may refuse.  A file
\* that exists is emptied by its creation.
FileOp ==
  LET op == Head(opsLeft)
  IN  /\ Running /\ loaded = Absent /\ opsLeft # << >>
      /\ op.kind \in {"create", "rename", "delete"}
      /\ \/ EditFails /\ UNCHANGED disk
         \/ /\ op.kind = "create" /\ op.file \in Allowed
            /\ disk' = [disk EXCEPT ![op.file] = <<<< >>>>]
            /\ OpDone
         \/ /\ op.kind = "rename" /\ {op.file, op.new} \subseteq Allowed
            /\ disk[op.file] # Absent
            /\ disk' = [disk EXCEPT ![op.file] = Absent, ![op.new] = disk[op.file]]
            /\ OpDone
         \/ /\ op.kind = "delete" /\ op.file \in Allowed
            /\ disk[op.file] # Absent
            /\ disk' = [disk EXCEPT ![op.file] = Absent]
            /\ OpDone
      /\ UNCHANGED <<editCase, loaded>>

\* An unknown change, or an edit without edits.
SkipOp ==
  /\ Running /\ loaded = Absent /\ opsLeft # << >>
  /\ \/ Head(opsLeft).kind = "other"
     \/ Head(opsLeft).kind = "edit" /\ Head(opsLeft).edits = << >>
  /\ OpDone
  /\ UNCHANGED <<editCase, disk, loaded>>

\* What is edited next: a document change (of text edits: another member of the
\* union would stay an empty insertion, which is left out), or after them a file of the map,
\* in the order of a Go map, which is none.
EditTargets ==
  IF opsLeft # << >>
  THEN {op \in {Head(opsLeft)} : op.kind = "edit" /\ op.edits # << >>}
  ELSE {[kind |-> "edit", file |-> f, edits |-> editCase.changes[f]] : f \in mapLeft}

\* ApplyTextEdits up to the reading of the file.
ReadFile ==
  /\ Running /\ loaded = Absent
  /\ \E op \in EditTargets :
       \/ EditFails /\ UNCHANGED loaded
       \/ /\ op.file \in Allowed /\ disk[op.file] \notin {Absent, Torn}
          /\ loaded' = [op |-> op, lines |-> disk[op.file]]
          /\ UNCHANGED <<opsLeft, mapLeft, made, editResult>>
  /\ UNCHANGED <<editCase, disk>>

\* ... and from there: os.WriteFile fails before it has touched the file, or
\* after it has truncated it, or writes it.
WriteFile ==
  /\ Running /\ loaded # Absent
  /\ LET op == loaded.op
     IN  \/ EditFails /\ UNCHANGED disk
         \/ EditFails /\ disk' = [disk EXCEPT ![op.file] = Torn]
         \/ /\ disk' = [disk EXCEPT ![op.file] = EditText(loaded.lines, op.edits)]
            /\ made' = Append(made, op)
            /\ IF opsLeft # << >>
               THEN opsLeft' = Tail(opsLeft) /\ UNCHANGED mapLeft
               ELSE mapLeft' = mapLeft \ {op.file} /\ UNCHANGED opsLeft
            /\ UNCHANGED editResult
  /\ loaded' = Absent
  /\ UNCHANGED editCase

EditReturns ==
  /\ Running /\ loaded = Absent /\ opsLeft = << >> /\ mapLeft = {}
  /\ editResult' = "ok"
  /\ UNCHANGED <<editCase, disk, opsLeft, mapLeft, loaded, made>>

EditNext == FileOp \/ SkipOp \/ ReadFile \/ WriteFile \/ EditReturns

-----------------------------------------------------------------------------
(* Reference definitions. *)

\* The position of an edit in the text, from 0.
Offset(lines, p) ==
  Len(Joined(SubSeq(lines, 1, p[1]))) + (IF p[1] > 0 THEN 1 ELSE 0) + p[2]

\* Edits as the protocol asks for them, with different beginnings.
Proper(lines, edits) ==
  /\ \A i \in DOMAIN edits : Applicable(lines, edits[i])
  /\ \A i, j \in DOMAIN edits :
       i # j => /\ edits[i].from # edits[j].from
                /\ \/ ~Earlier(edits[j].from, edits[i].to)
                   \/ ~Earlier(edits[i].from, edits[j].to)

\* Every character that no edit covers, and before it the text of the edit
\* that begins there.
ReferenceText(lines, edits) ==
  LET text == Joined(lines)
      Begins(i)  == {e \in ToSet(edits) : Offset(lines, e.from) = i}
      Covered(i) == \E e \in ToSet(edits) :
                      Offset(lines, e.from) <= i /\ i < Offset(lines, e.to)
      Piece(i) == FlattenSeq(SetToSeq({e.text : e \in Begins(i)}))
                    \o (IF i = Len(text) \/ Covered(i) THEN << >>
                        ELSE <<text[i + 1]>>)
  IN  Split(FlattenSeq([i \in 1 .. Len(text) + 1 |-> Piece(i - 1)]))

\* The files after a change.
Changed(files, op) ==
  CASE op.kind = "create" -> [files EXCEPT ![op.file] = <<<< >>>>]
    [] op.kind = "rename" -> [files EXCEPT ![op.file] = Absent,
                                           ![op.new] = files[op.file]]
    [] op.kind = "delete" -> [files EXCEPT ![op.file] = Absent]
    [] op.kind = "edit" /\ op.edits # << >> ->
         [files EXCEPT ![op.file] = ReferenceText(@, op.edits)]
    [] OTHER -> files

-----------------------------------------------------------------------------
(* Properties. *)

EditTypeOK ==
  /\ editCase \in EditCases /\ DOMAIN disk = File
  /\ Len(opsLeft) <= Len(editCase.ops) /\ mapLeft \subseteq DOMAIN editCase.changes
  /\ loaded # Absent => loaded.op.file \in Allowed
  /\ editResult \in {"none", "ok", "error"}

\* The edits of one file that is met as it was in the case.
ProperCase ==
  \A i \in DOMAIN made :
    made[i].kind = "edit" /\ made[i].edits # << >> =>
      Proper(FoldLeft(Changed, editCase.files, SubSeq(made, 1, i - 1))[made[i].file],
             made[i].edits)

\* Document changes are made in their order, and nothing is left to do when
\* the bridge reports success.
MadeInOrder ==
  /\ editResult = "ok" =>
       /\ Len(made) = Len(editCase.ops) + Cardinality(DOMAIN editCase.changes)
       /\ SubSeq(made, 1, Len(editCase.ops)) = editCase.ops
  /\ \A i \in DOMAIN made : i <= Len(editCase.ops) => made[i] = editCase.ops[i]

\* bridge.go:1116-1222 and 1308-1407: the changes are made in their order and
\* all of them, and the files are what those made so far make of them, each
\* as the protocol defines it, but for one file whose writing has failed; after
\* an error what follows is not touched.
EditsSound ==
  /\ MadeInOrder
  /\ ProperCase =>
       LET expected == FoldLeft(Changed, editCase.files, made)
           differ   == {f \in File : disk[f] # expected[f]}
       IN  /\ \A f \in differ : disk[f] = Torn /\ editResult = "error"
           /\ Cardinality(differ) <= 1

=============================================================================
