--------------------------- MODULE AnalysisEngine ---------------------------
(***************************************************************************)
(* ProjectAnalyzer.Analyze (analysis/engine.go), which project_analysis    *)
(* calls for a file, a pattern, a symbol's relationships or the workspace. *)
(* It asks the language servers one after the other and then lets a        *)
(* goroutine fill each section of the result.  The sections have a lock or *)
(* a single writer; the list of errors has neither: two goroutines that    *)
(* append at once both read the old length, and one error is lost.         *)
(*                                                                         *)
(* What the sections say is left out: a section is filled or it is empty.  *)
(* Every handler makes an analyzer of its own; the cache, which belongs to *)
(* the analyzer, serves a second Analyze as in the tests of the engine.    *)
(***************************************************************************)
EXTENDS Naturals, FiniteSets

CONSTANTS
  AnLanguage,   \* languages with a client
  MaxErrors,    \* of NewErrorHandler(10, true, 0.2)
  MaxRuns       \* bound of the model: calls of Analyze

\* What a section is called besides, in the result of a workspace, the
\* language that it is about.
SectionNames ==
  {"references", "definition", "callHierarchy", "implementation", "typeHierarchy",
   "complexity", "importExport", "crossFile", "codeQuality", "recommendations",
   "instances", "trend", "incoming", "outgoing", "refactor"}

ASSUME AnalysisConstants ==
  /\ IsFiniteSet(AnLanguage) /\ AnLanguage \cap SectionNames = {}
  /\ MaxErrors \in Nat \ {0} /\ MaxRuns \in Nat \ {0}

VARIABLES
  anRequest,    \* the request, which every call repeats
  anStage,      \* "idle", "search", "tasks", "failed"
  anLeft,       \* clients that were not asked yet
  anErrors,     \* len(metadata.Errors)
  anTask,       \* [pc, read] of each goroutine: the length it has read
  anSections,   \* sections that are filled
  anFailed,     \* history: requests that failed and are to be reported
  anCached,     \* the result in the cache, or NotCached
  anResult,     \* what Analyze returned last
  anRuns        \* how often Analyze was called

anVars == <<anRequest, anStage, anLeft, anErrors, anTask, anSections, anFailed,
            anCached, anResult, anRuns>>

Kinds == {"workspace", "relationships", "file", "patterns", "unsupported"}

\* detected: the detector finds a language that has a client; complex: the
\* file's complexity is high; known: the type of pattern is supported.
AnRequest ==
  {r \in [kind : Kinds, detected : BOOLEAN, complex : BOOLEAN, known : BOOLEAN] :
     /\ r.kind # "file" => r.detected /\ ~r.complex
     /\ r.kind # "patterns" => r.known}

Tasks(kind) ==
  CASE kind = "relationships" ->
         {"references", "definition", "callHierarchy", "implementation",
          "typeHierarchy"}
    [] kind = "file" ->
         {"complexity", "importExport", "crossFile", "codeQuality",
          "recommendations"}
    [] kind = "patterns" -> {"instances", "trend"}
    [] OTHER -> {}

\* The goroutines that ask the language server.
Asking == {"references", "definition", "callHierarchy", "implementation"}

Returned(ok, err, n, s) == [ok |-> ok, err |-> err, errors |-> n, sections |-> s]
NotCached  == Returned(FALSE, FALSE, 0, {"not cached"})
NotYet     == Returned(FALSE, FALSE, 0, {"not returned"})

AnTypeOK ==
  /\ anRequest \in AnRequest
  /\ anStage \in {"idle", "search", "tasks", "failed"}
  /\ anLeft \subseteq AnLanguage
  /\ anErrors \in Nat
  /\ DOMAIN anTask = Tasks(anRequest.kind)
  /\ \A t \in DOMAIN anTask :
       anTask[t].pc \in {"new", "append", "done"} /\ anTask[t].read \in Nat
  /\ anFailed \subseteq AnLanguage \cup Asking
  /\ anRuns \in 0 .. MaxRuns
  /\ anResult.ok \in BOOLEAN /\ anResult.err \in BOOLEAN

AnInit ==
  /\ anRequest \in AnRequest
  /\ anStage = "idle" /\ anLeft = {} /\ anErrors = 0
  /\ anTask = [t \in Tasks(anRequest.kind) |-> [pc |-> "new", read |-> 0]]
  /\ anSections = {} /\ anFailed = {}
  /\ anCached = NotCached /\ anResult = NotYet /\ anRuns = 0

Deliver(result) == anStage' = "idle" /\ anResult' = result

-----------------------------------------------------------------------------
(* Analyze. *)

\* A result that is in the cache is returned, also if it is nil.
FromCache ==
  /\ anStage = "idle" /\ anRuns < MaxRuns /\ anCached # NotCached
  /\ anRuns' = anRuns + 1
  /\ Deliver([anCached EXCEPT !.err = FALSE])
  /\ UNCHANGED <<anRequest, anLeft, anErrors, anTask, anSections, anFailed,
                 anCached>>

\* The metadata are new.  A file asks its one client for the symbols before
\* the goroutines start, and goes on without them if that fails; the model
\* begins when that has ended.
StartAnalysis ==
  /\ anStage = "idle" /\ anRuns < MaxRuns /\ anCached = NotCached
  /\ anRuns' = anRuns + 1
  /\ anErrors' = 0 /\ anSections' = {} /\ anFailed' = {}
  /\ anTask' = [t \in DOMAIN anTask |-> [pc |-> "new", read |-> 0]]
  /\ LET kind == anRequest.kind
     IN  /\ anLeft' = IF kind \in {"workspace", "relationships"} THEN AnLanguage
                                                                ELSE {}
         /\ IF kind = "unsupported" THEN Deliver(Returned(FALSE, TRUE, 0, {}))
            ELSE /\ anStage' = IF kind \in {"workspace", "relationships"} THEN "search"
                               ELSE IF kind = "file" /\ ~anRequest.detected THEN "failed"
                               ELSE "tasks"
                 /\ UNCHANGED anResult
  /\ UNCHANGED <<anRequest, anCached>>

\* HandleError: FilesScanned is never counted, so every error is all there
\* is, and a rate of 1 is above the threshold of 0.2.
ContinueAfter(n) == n < MaxErrors /\ 5 * n <= 0 + n

\* An error of the analysis itself: it is returned, and nothing is cached
\* unless the handler goes on.
ReturnError ==
  /\ anStage = "failed"
  /\ anErrors' = anErrors + 1
  /\ LET result == Returned(FALSE, TRUE, anErrors', {})
     IN  /\ Deliver(result)
         /\ anCached' = IF ContinueAfter(anErrors') THEN result ELSE anCached
  /\ UNCHANGED <<anRequest, anLeft, anTask, anSections, anFailed, anRuns>>

\* Data and metadata are returned and cached, whatever has failed meanwhile.
ReturnResult ==
  /\ LET result == Returned(TRUE, FALSE, anErrors, anSections)
     IN  Deliver(result) /\ anCached' = result
  /\ UNCHANGED <<anRequest, anLeft, anErrors, anTask, anSections, anFailed, anRuns>>

-----------------------------------------------------------------------------
(* analyzeWorkspace and the search of analyzeSymbolRelationships: the clients *)
(* are asked for symbols in any order.                                        *)

AskFails(l) ==
  /\ anStage = "search" /\ l \in anLeft
  /\ anLeft' = anLeft \ {l}
  /\ anErrors' = anErrors + 1 /\ anFailed' = anFailed \cup {l}
  /\ UNCHANGED <<anRequest, anStage, anTask, anSections, anCached, anResult, anRuns>>

\* For relationships the first language that has the symbol ends the search.
AskFinds(l) ==
  /\ anStage = "search" /\ l \in anLeft
  /\ IF anRequest.kind = "workspace"
       THEN /\ anLeft' = anLeft \ {l} /\ anSections' = anSections \cup {l}
            /\ UNCHANGED anStage
       ELSE anLeft' = {} /\ anStage' = "tasks" /\ UNCHANGED anSections
  /\ UNCHANGED <<anRequest, anErrors, anTask, anFailed, anCached, anResult, anRuns>>

AskFindsNothing(l) ==
  /\ anStage = "search" /\ l \in anLeft /\ anRequest.kind = "relationships"
  /\ anLeft' = anLeft \ {l}
  /\ UNCHANGED <<anRequest, anStage, anErrors, anTask, anSections, anFailed,
                 anCached, anResult, anRuns>>

SearchEnds ==
  /\ anStage = "search" /\ anLeft = {}
  /\ \/ anRequest.kind = "workspace" /\ ReturnResult
     \/ /\ anRequest.kind = "relationships" /\ anStage' = "failed"
        /\ UNCHANGED <<anRequest, anLeft, anErrors, anTask, anSections, anFailed,
                       anCached, anResult, anRuns>>

-----------------------------------------------------------------------------
(* The goroutines. *)

\* What a goroutine adds to the result.  Of a call hierarchy the callers or
\* the callees may be missing without an error; recommendations look at the
\* complexity as it is at that moment.
Filled(t) ==
  CASE t = "callHierarchy" -> {{t} \cup s : s \in SUBSET {"incoming", "outgoing"}}
    [] t = "recommendations" /\ anRequest.complex /\ "complexity" \in anSections ->
         {{t, "refactor"}}
    [] OTHER -> {{t}}

TaskFills(t) ==
  /\ anStage = "tasks" /\ anTask[t].pc = "new"
  /\ \E s \in Filled(t) : anSections' = anSections \cup s
  /\ anTask' = [anTask EXCEPT ![t].pc = "done"]
  /\ UNCHANGED <<anRequest, anStage, anLeft, anErrors, anFailed, anCached,
                 anResult, anRuns>>

\* Append without a lock: the length is read ...
TaskFails(t) ==
  /\ anStage = "tasks" /\ t \in Asking /\ anTask[t].pc = "new"
  /\ anTask' = [anTask EXCEPT ![t] = [pc |-> "append", read |-> anErrors]]
  /\ anFailed' = anFailed \cup {t}
  /\ UNCHANGED <<anRequest, anStage, anLeft, anErrors, anSections, anCached,
                 anResult, anRuns>>

\* ... and a longer list is stored, in one piece; that a slice is three words,
\* which another goroutine may read half written, is left out.
TaskAppends(t) ==
  /\ anTask[t].pc = "append"
  /\ anErrors' = anTask[t].read + 1
  /\ anTask' = [anTask EXCEPT ![t].pc = "done"]
  /\ UNCHANGED <<anRequest, anStage, anLeft, anSections, anFailed, anCached,
                 anResult, anRuns>>

\* wg.Wait.  The type of a pattern is looked at only now.
TasksEnd ==
  /\ anStage = "tasks" /\ \A t \in DOMAIN anTask : anTask[t].pc = "done"
  /\ \/ /\ anRequest.kind = "patterns" /\ ~anRequest.known
        /\ anStage' = "failed"
        /\ UNCHANGED <<anRequest, anLeft, anErrors, anTask, anSections, anFailed,
                       anCached, anResult, anRuns>>
     \/ /\ anRequest.kind = "patterns" => anRequest.known
        /\ ReturnResult

AnSteps ==
  \/ \E l \in AnLanguage : AskFails(l) \/ AskFinds(l) \/ AskFindsNothing(l)
  \/ SearchEnds
  \/ \E t \in DOMAIN anTask : TaskFills(t) \/ TaskFails(t) \/ TaskAppends(t)
  \/ TasksEnd \/ ReturnError

\* The steps that wait for nobody but goroutines of the analyzer.
AnOwnSteps ==
  \/ SearchEnds \/ TasksEnd \/ ReturnError
  \/ \E t \in DOMAIN anTask : (t \notin Asking /\ TaskFills(t)) \/ TaskAppends(t)

AnNext == FromCache \/ StartAnalysis \/ AnSteps

-----------------------------------------------------------------------------
(* Properties. *)

\* engine.go: Analyze returns a result or an error, and never neither, which
\* the handlers of project_analysis rely on, the second time as the first; a
\* section is empty only if its request failed; and errors are listed exactly
\* if some request that has to be reported failed, though after goroutines
\* some may be missing from the list.
AnalysisSound ==
  anStage = "idle" /\ anResult # NotYet =>
    /\ anResult.ok # anResult.err
    /\ anResult.ok =>
         /\ anResult.sections \cap (AnLanguage \cup Tasks(anRequest.kind)) =
              (IF anRequest.kind = "workspace" THEN AnLanguage
                                               ELSE DOMAIN anTask) \ anFailed
         /\ anResult.errors <= Cardinality(anFailed)
         /\ anResult.errors >= Cardinality(anFailed \cap AnLanguage)
         /\ anResult.errors = 0 <=> anFailed = {}
         /\ "refactor" \in anResult.sections => anRequest.complex

\* Where an analysis waits for a language server, which may hang.
AnMayHang ==
  \/ anStage = "search" /\ anLeft # {}
  \/ anStage = "tasks" /\ \E t \in Asking \cap DOMAIN anTask : anTask[t].pc = "new"

\* Where every analysis ends, also when goroutines fail, or hangs.
AnalysisEnded == anStage = "idle" \/ AnMayHang

=============================================================================
