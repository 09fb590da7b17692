------------------------------ MODULE MCTools ------------------------------
(***************************************************************************)
(* TLC's instance of what a tool does between the call and its result.     *)
(* The modules share no state, so one run checks them all: the variable    *)
(* part says which one a behaviour is about, and the others rest in one of *)
(* their initial states.                                                   *)
(***************************************************************************)
EXTENDS CallGraph, ToolCalls, ParallelCalls, ResultPages, WorkspaceEdits,
        PathMapping, FileContext, RangeContent, AnalysisEngine,
        AnalysisCache, TLC

CONSTANTS
  f1, f2, f3,                   \* functions
  a, b, x,                      \* characters
  e1, e2, e3, e4,               \* files that are edited
  drive, proj, projects, home, dirA, fileA,   \* names in paths
  cmd                                         \* a directory that is tried

VARIABLE part

vars == <<part, graphVars, toolVars, parVars, pageVars, editVars, pathVars,
          ctxVars, rangeVars, anVars, cacheVars>>

-----------------------------------------------------------------------------
(* CallGraph: programs in which a function can be reached in two ways, which *)
(* is what the goroutines can get wrong.                                     *)

\* The root and a function call each other.
ThroughRoot == {<<f1, f2>>, <<f2, f1>>}

\* Two callers of the root, or two of its callees, of which one calls the
\* other.
CallersMeet == {<<f2, f1>>, <<f3, f1>>, <<f3, f2>>}
CalleesMeet == {<<f1, f2>>, <<f1, f3>>, <<f2, f3>>}

\* A recursion away from the root.
CallersLoop == {<<f2, f1>>, <<f2, f3>>, <<f3, f2>>}

\* The root calls itself.
SelfCall == {<<f1, f1>>}

SmallPrograms == {ThroughRoot, CallersMeet, CalleesMeet, CallersLoop, SelfCall}

-----------------------------------------------------------------------------
(* ResultPages: sources without results, with one and with several. *)

Search(kind, lists) == [kind |-> kind, lists |-> lists]

Searches ==
  {Search("text_search", <<<<1, 2>>, << >>, <<3>>>>),
   Search("text_search", <<<<1, 2, 3>>, <<4, 5>>>>),
   Search("workspace_symbols", <<<<1, 2, 3, 4>>>>),
   Search("document_symbols", <<<<1, 2, 3>>>>),
   Search("document_symbols", <<<< >>>>),
   Search("references", <<<<1, 2, 3>>, <<4, 5>>>>),
   Search("definitions", <<<<1>>, <<2, 3>>>>),
   Search("definitions", <<<<1, 2>>, << >>>>),
   Search("symbol_explore", <<<<1, 2>>, <<3>>>>),
   Search("symbol_explore", <<<<1, 2, 3>>, <<4, 5>>>>)}

-----------------------------------------------------------------------------
(* WorkspaceEdits: lists of up to three edits of a text of two lines, and *)
(* pairs of changes of every kind.                                        *)

TextsBefore ==
  (e1 :> <<<<a>>, <<b>>>>) @@ (e2 :> <<<<a>>, <<b>>>>) @@ (e3 :> Absent)
    @@ (e4 :> <<<<b>>>>)

Places == {<<0, 0>>, <<0, 1>>, <<1, 0>>, <<1, 1>>, <<1, 2>>, <<2, 0>>}

TextEdits ==
  {e \in [from : Places, to : Places, text : {<< >>, <<x, NewLine>>}] :
     ~Earlier(e.to, e.from)}

Inserts == {e \in TextEdits : e.from = e.to /\ e.text # << >>}

EditLists ==
  {<< >>} \cup {<<e>> : e \in TextEdits} \cup (TextEdits \X TextEdits)
    \cup (Inserts \X Inserts \X Inserts)

EditOf(f, edits) == [kind |-> "edit", file |-> f, edits |-> edits]

NoMap == [f \in {} |-> << >>]

EditsOfOneFile ==
  {[files |-> TextsBefore, ops |-> <<EditOf(e1, l)>>, changes |-> NoMap] :
     l \in EditLists}

OneEdit(f) == EditOf(f, <<Edit(0, 0, 0, 1, <<x>>)>>)

Changes ==
  {OneEdit(e1), OneEdit(e3), OneEdit(e4),
   [kind |-> "create", file |-> e3], [kind |-> "create", file |-> e1],
   [kind |-> "rename", file |-> e1, new |-> e3],
   [kind |-> "delete", file |-> e2], [kind |-> "other"]}

EditsOfManyFiles ==
  {[files |-> TextsBefore, ops |-> l, changes |-> m] :
     l \in Changes \X Changes,
     m \in {NoMap, (e1 :> <<Edit(0, 1, 1, 0, << >>)>>)
                     @@ (e2 :> <<Edit(1, 0, 1, 1, <<x>>)>>)}}

WorkspaceEditCases == EditsOfOneFile \cup EditsOfManyFiles

-----------------------------------------------------------------------------
(* PathMapping: every way to write two files, in the roots and beside them. *)

Seg(n) == [name |-> n, upper |-> FALSE, part |-> "whole"]
Up(s)  == [s EXCEPT !.upper = TRUE]
Long(s) == [s EXCEPT !.part = "long"]
Under(root, segs) == [root |-> root, segs |-> segs]

HostPath      == Under("drive", <<Seg(drive), Seg(proj)>>)
ContainerPath == Under("slash", <<Seg(projects)>>)
HomePath      == Under("slash", <<Seg(home)>>)

FilesOnDisk == {<<Seg(fileA)>>, <<Seg(dirA), Seg(fileA)>>}

Tops ==
  {Under("none", << >>), HostPath, ContainerPath, HomePath,
   Under("drive", <<Seg(drive), Up(Seg(proj))>>),
   Under("drive", <<Seg(drive), Long(Seg(proj))>>),
   Under("slash", <<Long(Seg(projects))>>)}

Forms ==
  {f \in {[uri |-> u, odd |-> o, back |-> k, root |-> t.root, segs |-> t.segs \o s] :
            u \in BOOLEAN, o \in BOOLEAN, k \in BOOLEAN, t \in Tops,
            s \in FilesOnDisk \cup {<<Up(Seg(fileA))>>}} :
     IsForm(f) /\ (f.back => f.root # "slash")}

FileNames == [mapper : BOOLEAN, twice : BOOLEAN, form : Forms]

-----------------------------------------------------------------------------
(* FileContext: a directory has the name that is asked for and a file below  *)
(* cmd as well, or there is another file only.                               *)

InCmd(asked) == [dir |-> cmd, asked |-> asked, ext |-> ".go"]

DisksBefore == {{InCmd(FALSE)}, {Asked(Top, NoExt), InCmd(TRUE)}}

TriedDirs == (NoExt :> <<Top>>) @@ (".go" :> <<Top, cmd>>) @@ (".js" :> <<cmd>>)

TriedExtensions == <<".js", ".go">>

-----------------------------------------------------------------------------
(* RangeContent: every pair of positions, also outside the lines. *)

RangePlaces == (0 .. 3) \X (0 .. 3)

Ranges ==
  [lines : {<<<<a, b>>, << >>, <<x, a, b>>>>, <<<<a>>, <<b, x>>>>,
            <<<<a>>, <<b>>, <<x>>, <<a, x>>>>},
   from : RangePlaces, to : RangePlaces, strict : BOOLEAN]

-----------------------------------------------------------------------------

Resting ==
  /\ part # "graph" =>
       /\ calls = SelfCall /\ maxNodes = HardLimitNodes
       /\ depth = [dir \in Direction |-> HardLimitNodes]
  /\ part # "calls" =>
       call = [tool |-> "hover", mode |-> "direct", early |-> FALSE, late |-> TRUE,
               known |-> FALSE, named |-> FALSE, apply |-> FALSE,
               direction |-> "both"]
  /\ part # "parallel" => parTool = "references"
  /\ part # "pages" => pgCase = Search("document_symbols", <<<< >>>>) /\ pgLimit = 0
  /\ part # "edits" =>
       editCase = [files |-> TextsBefore, ops |-> <<EditOf(e1, << >>)>>,
                   changes |-> NoMap]
  /\ part # "paths" => pathCase = CHOOSE c \in PathCases : TRUE
  /\ part # "context" =>
       /\ ctxDisk = {InCmd(FALSE)}
       /\ ctxCall = [c \in CtxCaller |-> NewQuery(NoExt)]
  /\ part # "ranges" => rangeCase = CHOOSE c \in RangeCases : TRUE
  /\ part # "analysis" => anRequest = CHOOSE r \in AnRequest : TRUE

ToolsInit ==
  /\ part \in {"graph", "calls", "parallel", "pages", "edits", "paths", "context",
               "ranges", "analysis", "cache"}
  /\ Resting
  /\ GraphInit /\ CallInit /\ ParInit /\ PageInit /\ EditInit /\ PathInit
  /\ CtxInit /\ RangeInit /\ AnInit /\ CacheInit

Rest ==
  /\ part # "graph"    => UNCHANGED graphVars
  /\ part # "calls"    => UNCHANGED toolVars
  /\ part # "parallel" => UNCHANGED parVars
  /\ part # "pages"    => UNCHANGED pageVars
  /\ part # "edits"    => UNCHANGED editVars
  /\ part # "paths"    => UNCHANGED pathVars
  /\ part # "context"  => UNCHANGED ctxVars
  /\ part # "ranges"   => UNCHANGED rangeVars
  /\ part # "analysis" => UNCHANGED anVars
  /\ part # "cache"    => UNCHANGED cacheVars

ToolsNext ==
  /\ UNCHANGED part
  /\ \/ part = "graph" /\ GraphNext
     \/ part = "calls" /\ CallNext
     \/ part = "parallel" /\ ParNext
     \/ part = "pages" /\ PageNext
     \/ part = "edits" /\ EditNext
     \/ part = "paths" /\ PathNext
     \/ part = "context" /\ CtxNext
     \/ part = "ranges" /\ RangeNext
     \/ part = "analysis" /\ AnNext
     \/ part = "cache" /\ CacheNext
  /\ Rest

\* The goroutines of a tool are scheduled, and its deadline comes.  Nothing is
\* assumed of the servers: neither that they answer nor that they read.  The
\* time limit of a request does not cover its writing (session_client.go:401),
\* and a notification has none (client.go:428-433), so that a step which may
\* wait for a server may never come.
ToolWorks ==
  /\ UNCHANGED part
  /\ \/ part = "graph" /\ \E p \in DOMAIN task : ~GraphMayHang(p) /\ Step(p)
     \/ part = "calls" /\ ~CallMayHang /\ CallSteps
     \/ part = "parallel" /\ (ParTool \/ Deadline \/ \E l \in Language : SendResult(l))
     \/ part = "pages" /\ ~PageMayHang /\ PageNext
     \/ part = "context" /\ \E c \in CtxCaller : ContextStep(c)
     \/ part = "analysis" /\ AnOwnSteps
  /\ Rest

ToolsSpec == ToolsInit /\ [][ToolsNext]_vars /\ WF_vars(ToolWorks)

-----------------------------------------------------------------------------
(* Properties of several modules. *)

\* Every variable has its type.
ToolsTypeOK ==
  /\ GraphTypeOK /\ CallTypeOK /\ ParTypeOK /\ PageTypeOK /\ EditTypeOK
  /\ PathTypeOK /\ CtxTypeOK /\ AnTypeOK /\ CacheTypeOK

\* bridge.go and utils.go: what is written to files, and what is read from
\* them, is what the edits and the positions mean.
TextsSound == EditsSound /\ RangeSound

\* bridge.go, pathmap.go and utils.go: every name of a file of the workspace is
\* that file's name in requests, and a context becomes the first of its paths.
PathsSound == NamesSound /\ ContextSound

\* engine.go and cache.go: a result or an error, complete but for requests
\* that failed; and a cache that forgets nothing that was used last.
AnalyzerSound == AnalysisSound /\ CacheSound


=============================================================================
