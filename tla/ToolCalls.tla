----------------------------- MODULE ToolCalls -----------------------------
(***************************************************************************)
(* One call of an MCP tool that asks one language server: the tool checks  *)
(* its parameters and the readiness of the bridge, the bridge finds the    *)
(* language and its client and opens the document, the client sends the    *)
(* request, and what came back goes up again: client, bridge, tool, text.  *)
(* Every layer may fail, and every layer decides anew what becomes of a    *)
(* failure and of an answer of null.                                       *)
(*                                                                         *)
(* Tools, functions of the bridge and methods of the clients differ in     *)
(* little, so each is a record that says how it differs, and the actions   *)
(* read those records.  The clients are MCPLSPBridge's two kinds: the      *)
(* session adapter and the direct client.                                  *)
(***************************************************************************)
EXTENDS Integers, Sequences, FiniteSets

CONSTANTS
  MaxItems      \* items that prepareCallHierarchy returns, at most

ASSUME ToolCallsConstants == MaxItems \in Nat \ {0}

VARIABLES
  call,      \* the call: tool, mode of the client, parameters
  stage,     \* where it is
  pending,   \* functions of the bridge that are still to be called
  linkUp,    \* the client is connected
  came,      \* history: for each function called, what came back for it
  outcome    \* the result of the tool

toolVars == <<call, stage, pending, linkUp, came, outcome>>

\* Two tables side by side, as one.
Beside(f, g) ==
  [n \in DOMAIN f \cup DOMAIN g |-> IF n \in DOMAIN f THEN f[n] ELSE g[n]]

-----------------------------------------------------------------------------
(* The tools.  asks: the function of the bridge; late: parameters are also *)
(* checked after the readiness; infers: the tool finds the language itself *)
(* and fails without one; applies: what it does with edits.                *)

PlainTool(fn) ==
  [asks |-> fn, late |-> TRUE, infers |-> FALSE, applies |-> "no"]

HoverTool == PlainTool("GetHoverInformation")

DefinitionTool == [PlainTool("FindSymbolDefinitions") EXCEPT !.infers = TRUE]

SignatureHelpTool == PlainTool("GetSignatureHelp")

PrepareRenameTool == PlainTool("PrepareRename")

FoldingRangeTool == [PlainTool("FoldingRange") EXCEPT !.late = FALSE]

SelectionRangeTool == PlainTool("SelectionRange")

DocumentLinkTool == [PlainTool("DocumentLink") EXCEPT !.late = FALSE]

DocumentColorTool == [PlainTool("DocumentColor") EXCEPT !.late = FALSE]

ColorPresentationTool == PlainTool("ColorPresentation")

SemanticTokensTool == PlainTool("SemanticTokens")

CodeActionsTool == PlainTool("GetCodeActions")

ExecuteCommandTool == [PlainTool("ExecuteCommand") EXCEPT !.infers = TRUE]

DidChangeWatchedFilesTool == PlainTool("DidChangeWatchedFiles")

DidChangeConfigurationTool == PlainTool("DidChangeConfiguration")

RenameTool == [PlainTool("RenameSymbol") EXCEPT !.applies = "always"]

FormatDocumentTool == [PlainTool("FormatDocument") EXCEPT !.applies = "edits"]

RangeFormattingTool ==
  [PlainTool("RangeFormatting") EXCEPT !.applies = "edits"]

DocumentDiagnosticsTool ==
  [PlainTool("GetDocumentDiagnostics") EXCEPT !.late = FALSE, !.infers = TRUE]

CallHierarchyTool == [PlainTool("PrepareCallHierarchy") EXCEPT !.infers = TRUE]

Tools ==
  [hover |-> HoverTool, definition |-> DefinitionTool,
   signature_help |-> SignatureHelpTool, prepare_rename |-> PrepareRenameTool,
   folding_range |-> FoldingRangeTool, selection_range |-> SelectionRangeTool,
   document_link |-> DocumentLinkTool, document_color |-> DocumentColorTool,
   color_presentation |-> ColorPresentationTool,
   semantic_tokens |-> SemanticTokensTool, code_actions |-> CodeActionsTool,
   execute_command |-> ExecuteCommandTool,
   did_change_watched_files |-> DidChangeWatchedFilesTool,
   did_change_configuration |-> DidChangeConfigurationTool,
   rename |-> RenameTool, format_document |-> FormatDocumentTool,
   range_formatting |-> RangeFormattingTool,
   document_diagnostics |-> DocumentDiagnosticsTool,
   call_hierarchy |-> CallHierarchyTool]

\* call_hierarchy asks this for every item.
ItemCalls(direction) ==
  CASE direction = "incoming" -> <<"IncomingCalls">>
    [] direction = "outgoing" -> <<"OutgoingCalls">>
    [] direction = "both"     -> <<"IncomingCalls", "OutgoingCalls">>

-----------------------------------------------------------------------------
(* The functions of the bridge.  from: the language is inferred from the   *)
(* uri of the call or of an item, or given by the tool; opens: the         *)
(* document is opened first, and a failure of that is only logged; method: *)
(* of the client; onError: what the function makes of its failure.         *)

OnUri(method) ==
  [from |-> "uri", opens |-> TRUE, method |-> method, onError |-> "error"]

Given(method) == [OnUri(method) EXCEPT !.from = "given", !.opens = FALSE]

\* A failed search is logged and answered with an empty list.
BridgeDefinitions ==
  [FindSymbolDefinitions |-> [Given("definition") EXCEPT !.onError = "empty"]]

BridgeHover == [GetHoverInformation |-> OnUri("hover")]

BridgeSignatureHelp == [GetSignatureHelp |-> OnUri("signatureHelp")]

BridgeActions ==
  [GetCodeActions |-> [OnUri("codeAction") EXCEPT !.opens = FALSE],
   FormatDocument |-> [OnUri("formatting") EXCEPT !.opens = FALSE]]

BridgeRanges ==
  [RangeFormatting |-> OnUri("rangeFormatting"),
   PrepareRename   |-> OnUri("prepareRename"),
   FoldingRange    |-> OnUri("foldingRange"),
   SelectionRange  |-> OnUri("selectionRange")]

BridgeLinks ==
  [DocumentLink      |-> OnUri("documentLink"),
   DocumentColor     |-> OnUri("documentColor"),
   ColorPresentation |-> OnUri("colorPresentation")]

BridgeRename == [RenameSymbol |-> OnUri("rename")]

BridgeCommands ==
  [ExecuteCommand         |-> Given("executeCommand"),
   DidChangeWatchedFiles  |-> Given("didChangeWatchedFiles"),
   DidChangeConfiguration |-> Given("didChangeConfiguration")]

BridgeSemanticTokens == [SemanticTokens |-> OnUri("semanticTokens")]

BridgeHierarchy ==
  [PrepareCallHierarchy |-> OnUri("prepareCallHierarchy"),
   IncomingCalls |-> [OnUri("incomingCalls") EXCEPT !.from = "item",
                                                    !.opens = FALSE],
   OutgoingCalls |-> [OnUri("outgoingCalls") EXCEPT !.from = "item",
                                                    !.opens = FALSE]]

BridgeDiagnostics == [GetDocumentDiagnostics |-> OnUri("diagnostic")]

Bridge ==
  LET asking == Beside(Beside(BridgeDefinitions, BridgeHover),
                       Beside(BridgeSignatureHelp, BridgeDiagnostics))
      acting == Beside(Beside(BridgeActions, BridgeRename), BridgeCommands)
      places == Beside(Beside(BridgeRanges, BridgeLinks),
                       Beside(BridgeSemanticTokens, BridgeHierarchy))
  IN  Beside(asking, Beside(acting, places))

-----------------------------------------------------------------------------
(* The methods of the clients: what an answer of null becomes, "nil" or a  *)
(* pointer to an empty result.  A notification has no answer.              *)

DirectNotifications ==
  [didChangeWatchedFiles |-> "sent", didChangeConfiguration |-> "sent"]

DirectNavigation == [definition |-> "nil", hover |-> "nil"]

DirectEdits ==
  [signatureHelp |-> "nil", codeAction |-> "nil", rename |-> "empty",
   formatting |-> "nil", rangeFormatting |-> "nil", prepareRename |-> "empty"]

DirectRanges ==
  [foldingRange |-> "nil", selectionRange |-> "nil", documentLink |-> "nil",
   documentColor |-> "nil", colorPresentation |-> "nil",
   executeCommand |-> "nil"]

DirectCalls ==
  [prepareCallHierarchy |-> "nil", semanticTokens |-> "nil",
   incomingCalls |-> "nil", outgoingCalls |-> "nil", diagnostic |-> "empty"]

Direct ==
  Beside(Beside(DirectNotifications, DirectNavigation),
         Beside(Beside(DirectEdits, DirectRanges), DirectCalls))

\* The session adapter asks the session manager, answers nil or an error by
\* itself, or reports success without doing anything.  Whatever it asks, it
\* answers null with nil.
AdapterNavigation == [hover |-> "asks", definition |-> "asks"]

AdapterCalls ==
  [prepareCallHierarchy |-> "asks", incomingCalls |-> "asks",
   outgoingCalls |-> "asks"]

AdapterEdits ==
  [signatureHelp |-> "stub", codeAction |-> "stub", rename |-> "asks",
   formatting |-> "asks", rangeFormatting |-> "refuses"]

AdapterDiagnostics ==
  [diagnostic |-> "asks", semanticTokens |-> "stub", prepareRename |-> "asks"]

AdapterStubs ==
  [foldingRange |-> "stub", selectionRange |-> "stub",
   documentLink |-> "stub", documentColor |-> "stub",
   colorPresentation |-> "stub", executeCommand |-> "refuses"]

AdapterNotifications ==
  [didChangeWatchedFiles |-> "asks", didChangeConfiguration |-> "stub"]

Adapter ==
  Beside(Beside(Beside(AdapterNavigation, AdapterCalls),
                Beside(AdapterEdits, AdapterDiagnostics)),
         Beside(AdapterStubs, AdapterNotifications))

\* Mutant: the renaming methods are not on the list.
ForwardedWithoutRename ==
  {"hover", "definition", "diagnostic", "codeAction", "formatting",
   "prepareCallHierarchy", "incomingCalls", "outgoingCalls",
   "didChangeWatchedFiles"}

\* The methods that the session manager hands to the server; it answers
\* every other one with "unknown method".
Forwarded ==
  {"hover", "definition", "diagnostic", "codeAction", "formatting", "rename",
   "prepareRename", "prepareCallHierarchy", "incomingCalls",
   "outgoingCalls", "didChangeWatchedFiles"}

-----------------------------------------------------------------------------
(* A call. *)

\* empty: a result without anything in it, also a hover without contents, a
\* help without signatures, tokens of no type that was asked for.
Replies == {"value", "empty", "null", "error", "malformed", "late"}

Notifications == {"didChangeWatchedFiles", "didChangeConfiguration"}

NoOutcome == [kind |-> "none", says |-> "none", problems |-> 0]

Outcome(kind, says, problems) ==
  [kind |-> kind, says |-> says, problems |-> problems]

Fn     == Head(pending)
Client == IF call.mode = "session" THEN Adapter ELSE Direct

\* What the client makes of the server's reply.
Answer(method, reply) ==
  IF reply \in {"error", "malformed", "late"} THEN "error"
  ELSE IF reply # "null" THEN reply
  ELSE IF call.mode = "session" THEN "nil" ELSE Direct[method]

\* early, late: the parameters checked before and after the readiness are
\* good; known: the extension of the uri is that of a language; named: the
\* call names the language.
CallInit ==
  /\ call \in [tool : DOMAIN Tools, mode : {"session", "direct"},
               early : BOOLEAN, late : BOOLEAN, known : BOOLEAN,
               named : BOOLEAN, apply : BOOLEAN,
               direction : {"incoming", "outgoing", "both"}]
  /\ ~Tools[call.tool].late => call.late
  /\ call.named => call.tool \in {"definition", "execute_command"}
  /\ call.apply => Tools[call.tool].applies # "no"
  /\ call.tool # "call_hierarchy" => call.direction = "both"
  /\ stage = "parameters"
  /\ pending = <<Tools[call.tool].asks>>
  /\ linkUp = FALSE
  /\ came = << >> /\ outcome = NoOutcome

Finish(result) == outcome' = result /\ stage' = "done"

CheckParameters ==
  /\ stage = "parameters"
  /\ IF call.early THEN stage' = "ready" /\ UNCHANGED outcome
                   ELSE Finish(Outcome("error", "parameters", 0))
  /\ UNCHANGED <<call, pending, linkUp, came>>

\* CheckReadyOrReturn.
CheckReady ==
  /\ stage = "ready"
  /\ \/ stage' = "prepare" /\ UNCHANGED outcome
     \/ Finish(Outcome("text", "not ready", 0))
  /\ UNCHANGED <<call, pending, linkUp, came>>

\* What the tool does between the readiness and the bridge.
Prepare ==
  /\ stage = "prepare"
  /\ LET tool == Tools[call.tool]
     IN  IF ~call.late \/ (tool.infers /\ ~call.named /\ ~call.known)
         THEN Finish(Outcome("error", "parameters", 0))
         ELSE stage' = "client" /\ UNCHANGED outcome
  /\ UNCHANGED <<call, pending, linkUp, came>>

\* A function of the bridge ends with reply, of which the client made answer.
Arrived(reply, answer) ==
  /\ came' = Append(came, [fn |-> Fn, reply |-> reply,
              answer |-> IF answer = "error" THEN Bridge[Fn].onError ELSE answer])
  /\ stage' = "tool"

\* The language and its client.  Without them no function swallows the error.
FindClient ==
  /\ stage = "client"
  /\ \/ /\ Bridge[Fn].from = "uri" => call.known
        /\ stage' = IF Bridge[Fn].opens THEN "open" ELSE "ask"
        /\ linkUp' = TRUE
        /\ UNCHANGED came
     \/ /\ came' = Append(came, [fn |-> Fn, reply |-> "no client",
                                 answer |-> "error"])
        /\ stage' = "tool"
        /\ UNCHANGED linkUp
  /\ UNCHANGED <<call, pending, outcome>>

\* ensureDocumentOpen: it may fail, and the request is sent all the same.
OpenDocument ==
  /\ stage = "open"
  /\ stage' = "ask"
  /\ UNCHANGED <<call, pending, linkUp, came, outcome>>

\* The client's method, up to the request.
AskServer ==
  LET method == Bridge[Fn].method
      does   == Client[method]
  IN  /\ stage = "ask"
      /\ \/ /\ does = "stub"
            /\ Arrived("stub", IF method \in Notifications THEN "sent" ELSE "nil")
         \/ does = "refuses" /\ Arrived("refused", "error")
         \/ does \notin {"stub", "refuses"} /\ ~linkUp /\ Arrived("lost", "error")
         \/ does = "sent" /\ linkUp /\ Arrived("sent", "sent")
         \/ /\ does \in {"asks", "nil", "empty"} /\ linkUp
            /\ stage' = "waiting" /\ UNCHANGED came
      /\ UNCHANGED <<call, pending, linkUp, outcome>>

\* The manager's default case, or the server's reply, or none in time.  What
\* the manager makes of a notification is an acknowledgement or an error.
Reply ==
  LET method == Bridge[Fn].method
  IN  /\ stage = "waiting"
      /\ IF ~linkUp THEN Arrived("lost", "error")
         ELSE IF call.mode = "session" /\ method \notin Forwarded
         THEN Arrived("unknown method", "error")
         ELSE \E reply \in Replies :
                /\ method \in Notifications => reply \in {"value", "error", "late"}
                /\ Arrived(reply, Answer(method, reply))
      /\ UNCHANGED <<call, pending, linkUp, outcome>>

Latest   == came[Len(came)]
Problems == Cardinality({i \in DOMAIN came : came[i].answer = "error"})
Says     == IF Latest.answer \in {"nil", "empty"} THEN "nothing" ELSE Latest.answer

\* The tool looks at what the bridge returned.  Renaming hands over the edits
\* without a look at them, formatting only if there are any.
ToolEnds ==
  /\ stage = "tool" /\ call.tool # "call_hierarchy"
  /\ LET applies == Tools[call.tool].applies
     IN  IF Latest.answer = "error" THEN Finish(Outcome("error", "failed", 1))
         ELSE IF call.apply /\ applies = "always" /\ Latest.answer = "nil"
         THEN Finish(Outcome("panic", "nothing", 0))
         ELSE IF call.apply /\ (applies = "always" \/ Latest.answer = "value")
         THEN \/ Finish(Outcome("text", "applied", 0))
              \/ Finish(Outcome("error", "not applied", 0))
         ELSE Finish(Outcome("text", Says, 0))
  /\ UNCHANGED <<call, pending, linkUp, came>>

\* call_hierarchy after prepareCallHierarchy: the items are asked for one
\* after the other.
HierarchyPrepared ==
  /\ stage = "tool" /\ call.tool = "call_hierarchy" /\ Len(came) = 1
  /\ \/ /\ Latest.answer = "error" /\ Finish(Outcome("error", "failed", 1))
        /\ UNCHANGED pending
     \/ /\ Latest.answer \in {"nil", "empty"}
        /\ Finish(Outcome("text", "nothing", 0))
        /\ UNCHANGED pending
     \/ /\ Latest.answer = "value"
        /\ \E n \in 1 .. MaxItems :
             LET each == ItemCalls(call.direction)
             IN  pending' = [i \in 1 .. n * Len(each) |->
                               each[((i - 1) % Len(each)) + 1]]
        /\ stage' = "client" /\ UNCHANGED outcome
  /\ UNCHANGED <<call, linkUp, came>>

\* ... and an error of one of them is a line of the result.
HierarchyItem ==
  /\ stage = "tool" /\ call.tool = "call_hierarchy" /\ Len(came) > 1
  /\ IF Len(pending) > 1
     THEN pending' = Tail(pending) /\ stage' = "client" /\ UNCHANGED outcome
     ELSE Finish(Outcome("text", "value", Problems)) /\ UNCHANGED pending
  /\ UNCHANGED <<call, linkUp, came>>

\* The connection breaks.
LinkBreaks ==
  /\ stage \in {"open", "ask", "waiting"} /\ linkUp
  /\ linkUp' = FALSE
  /\ UNCHANGED <<call, stage, pending, came, outcome>>

CallSteps ==
  \/ CheckParameters \/ CheckReady \/ Prepare \/ FindClient \/ OpenDocument
  \/ AskServer \/ Reply \/ ToolEnds \/ HierarchyPrepared \/ HierarchyItem

CallNext == CallSteps \/ LinkBreaks

-----------------------------------------------------------------------------
(* Properties. *)

CallTypeOK ==
  /\ call.tool \in DOMAIN Tools
  /\ stage \in {"parameters", "ready", "prepare", "client", "open", "ask",
                "waiting", "tool", "done"}
  /\ Len(came) <= 1 + 2 * MaxItems /\ linkUp \in BOOLEAN
  /\ \A i \in DOMAIN came :
       came[i].answer \in {"value", "empty", "nil", "error", "sent"}
  /\ \A i \in DOMAIN pending : pending[i] \in DOMAIN Bridge
  /\ outcome.kind \in {"none", "text", "error", "panic"}

Failures ==
  {"error", "malformed", "late", "lost", "no client", "refused", "unknown method"}

\* Whatever fails below the tool, it says so: as an error, or with a line for
\* each failed request of call_hierarchy.  Only a failed search for
\* definitions is told as an empty result (bridge.go:546).
FailuresReported ==
  stage = "done" =>
    LET failed == {i \in DOMAIN came :
                     /\ came[i].reply \in Failures
                     /\ ~(/\ came[i].fn = "FindSymbolDefinitions"
                          /\ came[i].reply # "no client")}
    IN  failed # {} => \/ outcome.kind = "error"
                       \/ outcome.problems = Cardinality(failed)

\* The tool says that there is nothing only because the server has said so;
\* or, through a session, because the adapter does not ask.
NothingIsAnAnswer ==
  stage = "done" /\ outcome.says = "nothing" =>
    \/ Latest.reply \in {"null", "empty"}
    \/ Latest.reply = "stub" /\ call.mode = "session"
    \/ Latest.fn = "FindSymbolDefinitions" /\ Latest.reply \in Failures

\* The session manager knows every method that the adapter asks it for.
AdapterIsUnderstood == \A i \in DOMAIN came : came[i].reply # "unknown method"

\* The process dies of one call only: a rename that is to be applied and that
\* the server behind the session manager answered with null (rename.go:90).
OnlyNilRenamePanics ==
  outcome.kind = "panic" =>
    call.tool = "rename" /\ call.mode = "session" /\ Latest.reply = "null"

\* client, bridge and tool: what the user reads is what came of the requests.
AnswersSound ==
  /\ FailuresReported /\ NothingIsAnAnswer
  /\ AdapterIsUnderstood /\ OnlyNilRenamePanics

\* Where the call waits for others and no time limit holds: a client that
\* connects or is wedged, a write to a server that does not read, and with it
\* a request whose time limit covers the answer but not the write.
CallMayHang ==
  \/ stage \in {"client", "open", "waiting"}
  \/ stage = "ask" /\ Client[Bridge[Fn].method] = "sent"

\* A call of a tool comes to its end, or hangs where it may.
CallReturned == stage = "done" \/ CallMayHang

=============================================================================
