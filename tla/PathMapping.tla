---------------------------- MODULE PathMapping ----------------------------
(***************************************************************************)
(* What becomes of the name of a file that a tool is given: it may be a    *)
(* path or a URI, relative, of the host or of the container, and every     *)
(* request for the file has to reach the language server under the URI     *)
(* that textDocument/didOpen announced (bridge/bridge.go, utils/uri.go,    *)
(* utils/pathmap.go).  The bridge runs on Linux, beside the language       *)
(* server or with it in a container, where a path mapper turns host paths  *)
(* into container paths.                                                   *)
(*                                                                         *)
(* A path is a sequence of segments.  A segment has a name, may be written *)
(* in another case, and may be `long', a longer name that begins with that *)
(* name, or the `rest' of such a name.  Paths have no dots left in them.   *)
(***************************************************************************)
EXTENDS Naturals, Sequences, SequencesExt

CONSTANTS
  PathCases,    \* [mapper, twice, form]: with a path mapper, the tool
                \* normalizes before the bridge does, what the tool is given
  HostRoot, ContainerRoot, Cwd, \* paths
  DiskFiles     \* files below the workspace, as sequences of segments

Part == {"whole", "long", "rest"}
IsSegment(s) == s \in [name : {s.name}, upper : BOOLEAN, part : Part]
AreSegments(segs) ==
  segs \in Seq(ToSet(segs)) /\ \A i \in DOMAIN segs : IsSegment(segs[i])
Roots == {"none", "slash", "drive"}

\* uri: begins with file://; odd: a URI that is not written the way
\* PathToFileURI writes it; back: with backslashes.
IsForm(f) ==
  /\ f \in [uri : BOOLEAN, odd : BOOLEAN, back : BOOLEAN, root : Roots,
            segs : {f.segs}]
  /\ AreSegments(f.segs)
  /\ f.odd => f.uri
  /\ f.uri => f.root # "none" /\ ~f.back

\* On Linux a backslash is a character like any other.
Glued(f) ==
  IF f.back THEN <<[name |-> f.segs, upper |-> FALSE, part |-> "whole"]>>
            ELSE f.segs

\* No file of the workspace has a name that begins with a drive letter, or one
\* that is the rest of a name which begins like the host's root.
ASSUME PathConstants ==
  /\ ContainerRoot.root = "slash" /\ AreSegments(ContainerRoot.segs)
  /\ Cwd.root = "slash" /\ AreSegments(Cwd.segs)
  /\ HostRoot.root \in Roots \ {"none"} /\ HostRoot.segs # << >>
  /\ AreSegments(HostRoot.segs)
  /\ \A i \in DOMAIN HostRoot.segs :
       ~HostRoot.segs[i].upper /\ HostRoot.segs[i].part = "whole"
  /\ \A s \in DiskFiles : /\ AreSegments(s) /\ s # << >>
                          /\ \A i \in DOMAIN s : s[i].part # "rest"
  /\ \A c \in PathCases :
       /\ c.mapper \in BOOLEAN /\ c.twice \in BOOLEAN /\ IsForm(c.form)
       /\ c.form.root = "drive" =>
            c.form.segs \notin DiskFiles /\ Glued(c.form) \notin DiskFiles

VARIABLES
  pathCase,
  pathStage,    \* "tool", "bridge", "open", "end"
  pathURI,      \* the name of the file, in the end that of the request
  openedURI     \* the URI of textDocument/didOpen, or Refused

pathVars == <<pathCase, pathStage, pathURI, openedURI>>

Refused == [root |-> "refused", segs |-> << >>]

Name(p) ==
  [uri |-> FALSE, odd |-> FALSE, back |-> FALSE, root |-> p.root, segs |-> p.segs]

Below(p, segs) == [root |-> "slash", segs |-> p.segs \o segs]

\* filepath.Abs on Linux, where a path with a drive letter is relative.
Abs(f) ==
  IF f.root = "slash" THEN [root |-> "slash", segs |-> f.segs]
                      ELSE Below(Cwd, Glued(f))

-----------------------------------------------------------------------------
(* utils/uri.go *)

PathToFileURI(f) ==
  LET p == IF f.root = "drive" THEN f ELSE Abs(f)
  IN  [Name(p) EXCEPT !.uri = TRUE]

\* A URI is returned as it is written.
NormalizeURI(f) == IF f.uri THEN f ELSE PathToFileURI(f)

URIToFilePath(f) == [f EXCEPT !.uri = FALSE, !.odd = FALSE]

-----------------------------------------------------------------------------
(* utils/pathmap.go *)

\* Mutant: host paths are compared with their case.
PrefixOfCase(p, r) == p.root = r.root /\ IsPrefix(r.segs, p.segs)

\* The characters of r are the first characters of p, but for their case: the
\* last segment of r may end inside a name.
HasPrefixFold(p, r) ==
  /\ p.root = r.root /\ Len(r.segs) <= Len(p.segs)
  /\ \A i \in DOMAIN r.segs :
       /\ p.segs[i].name = r.segs[i].name
       /\ p.segs[i].part = "whole" \/ (i = Len(r.segs) /\ p.segs[i].part = "long")

\* What follows those characters.
After(p, r) ==
  LET last == p.segs[Len(r.segs)]
      more == SubSeq(p.segs, Len(r.segs) + 1, Len(p.segs))
  IN  IF last.part = "long" THEN <<[last EXCEPT !.part = "rest"]>> \o more
                            ELSE more

HostToContainer(p) ==
  IF HasPrefixFold(p, HostRoot) THEN Below(ContainerRoot, After(p, HostRoot))
                                ELSE Refused

-----------------------------------------------------------------------------
(* bridge/bridge.go and mcpserver/tools/utils.go *)

InContainer(p) == p.root = "slash" /\ IsPrefix(ContainerRoot.segs, p.segs)

\* A relative path is one below the container's root, if there is a mapper.
Rooted(mapper, f) ==
  IF mapper /\ ~f.uri /\ f.root = "none"
    THEN Name(Below(ContainerRoot, f.segs)) ELSE f

NormalizeURIForLSP(mapper, f) ==
  LET uri    == NormalizeURI(Rooted(mapper, f))
      path   == URIToFilePath(uri)
      mapped == HostToContainer(path)
  IN  IF ~mapper THEN uri
      ELSE IF InContainer(path) THEN NormalizeURI(path)
      ELSE IF mapped # Refused THEN NormalizeURI(Name(mapped))
      ELSE uri

\* The file that is opened for a name.
LocalPath(mapper, f) ==
  LET path == Rooted(mapper, URIToFilePath(f))
  IN  IF mapper /\ ~InContainer(path) THEN HostToContainer(path) ELSE Abs(path)

Workspace(mapper) == IF mapper THEN ContainerRoot ELSE Cwd

\* ensureDocumentOpen: the file has to lie below a project root and to be
\* readable.
EnsureDocumentOpen(mapper, f) ==
  LET path == LocalPath(mapper, f)
  IN  IF path \in {Below(Workspace(mapper), s) : s \in DiskFiles}
        THEN NormalizeURI(Name(path)) ELSE Refused

\* getRangeContent, which is given the name as the tool was given it.
ContentPath(mapper, f) ==
  LET path == LocalPath(mapper, f)
  IN  IF path \in {Below(Workspace(mapper), s) : s \in DiskFiles}
        THEN path ELSE Refused

-----------------------------------------------------------------------------

PathInit ==
  /\ pathCase \in PathCases
  /\ pathURI = pathCase.form /\ openedURI = Refused
  /\ pathStage = IF pathCase.twice THEN "tool" ELSE "bridge"

\* Some tools normalize what they are given, and then the bridge does again.
Normalize ==
  /\ pathStage \in {"tool", "bridge"}
  /\ pathURI' = NormalizeURIForLSP(pathCase.mapper, pathURI)
  /\ pathStage' = IF pathStage = "tool" THEN "bridge" ELSE "open"
  /\ UNCHANGED <<pathCase, openedURI>>

OpenName ==
  /\ pathStage = "open"
  /\ openedURI' = EnsureDocumentOpen(pathCase.mapper, pathURI)
  /\ pathStage' = "end"
  /\ UNCHANGED <<pathCase, pathURI>>

PathNext == Normalize \/ OpenName

PathTypeOK ==
  /\ pathCase \in PathCases
  /\ pathStage \in {"tool", "bridge", "open", "end"}
  /\ IsForm(pathURI)
  /\ openedURI = Refused \/ IsForm(openedURI)

-----------------------------------------------------------------------------
(* Properties. *)

\* The file below the workspace that a name stands for: segment by segment,
\* with the case of the host's root ignored.  <<>> if it stands for none.
Meant(mapper, f) ==
  LET from(r) == SubSeq(f.segs, Len(r.segs) + 1, Len(f.segs))
      onHost  == /\ f.root = HostRoot.root
                 /\ Len(f.segs) >= Len(HostRoot.segs)
                 /\ \A i \in DOMAIN HostRoot.segs :
                      f.segs[i] \in {HostRoot.segs[i],
                                     [HostRoot.segs[i] EXCEPT !.upper = TRUE]}
  IN  IF f.root = "none" THEN (IF mapper THEN f.segs ELSE Glued(f))
      ELSE IF f.root = "slash" /\ IsPrefix(Workspace(mapper).segs, f.segs)
             THEN from(Workspace(mapper))
      ELSE IF mapper /\ onHost THEN from(HostRoot)
      ELSE << >>

\* bridge.go and pathmap.go: with a path mapper every name of a file in the
\* workspace becomes one and the same URI, whether the tool has normalized it
\* before or not; a request goes out under the URI that was opened, unless
\* there is no mapper and the caller wrote the URI in a way of its own; a file
\* of the workspace can be opened under all its names; and the content tools
\* read the file that was opened.
NamesSound ==
  pathStage = "end" =>
    LET m == pathCase.mapper
        f == pathCase.form
        s == Meant(m, f)
        own == ~m /\ f.odd
    IN  /\ m /\ s # << >> =>
             pathURI = [Name(Below(ContainerRoot, s)) EXCEPT !.uri = TRUE]
        /\ openedURI # Refused => pathURI = openedURI \/ own
        /\ s \in DiskFiles <=> openedURI # Refused
        /\ ContentPath(m, f) = IF openedURI = Refused THEN Refused
                               ELSE [root |-> openedURI.root, segs |-> openedURI.segs]

=============================================================================
