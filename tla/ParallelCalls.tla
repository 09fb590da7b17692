--------------------------- MODULE ParallelCalls ---------------------------
(***************************************************************************)
(* Tools that ask the servers of all languages of the project at once:     *)
(* implementation, workspace_diagnostics and the search for a symbol       *)
(* before its references (project_analysis).  One goroutine per language   *)
(* gets its client, then one per client asks (async.MapWithKeys) and sends *)
(* its result to a channel, from which the tool collects until it has them *)
(* all or its context ends.                                                *)
(***************************************************************************)
EXTENDS Integers, Sequences, FiniteSets, SequencesExt

CONSTANTS Language

ASSUME ParallelConstants == IsFiniteSet(Language) /\ Language # {}

VARIABLES
  parTool,      \* the tool
  detected,     \* the languages of the project
  fork,         \* the goroutine of each language
  channel,      \* results that were sent and not yet received
  gathered,     \* results that were received
  parStage,
  parOutcome

parVars ==
  <<parTool, detected, fork, channel, gathered, parStage, parOutcome>>

ParallelTools == {"implementation", "workspace_diagnostics", "references"}

\* What a client answers: values, an empty list or a report of nothing, nil.
Answers == {"value", "nothing", "error"}

ParOutcome(kind, found, problems) ==
  [kind |-> kind, found |-> found, problems |-> problems]

ParInit ==
  /\ parTool \in ParallelTools
  /\ detected = {}
  /\ fork = [l \in Language |-> "idle"]
  /\ channel = << >> /\ gathered = << >>
  /\ parStage = "languages"
  /\ parOutcome = ParOutcome("none", 0, 0)

ParFinish(result) == parOutcome' = result /\ parStage' = "done"

\* DetectProjectLanguages, or the languages of the connected clients.  That
\* there are none is a text of workspace_diagnostics.
DetectLanguages ==
  /\ parStage = "languages"
  /\ \/ /\ \/ ParFinish(ParOutcome("error", 0, 0))
           \/ /\ parTool = "workspace_diagnostics"
              /\ ParFinish(ParOutcome("text", 0, 0))
        /\ UNCHANGED <<detected, fork>>
     \/ /\ detected' \in SUBSET Language \ {{}}
        /\ fork' = [l \in Language |->
                      IF l \in detected' THEN "connecting" ELSE "idle"]
        /\ parStage' = "clients" /\ UNCHANGED parOutcome
  /\ UNCHANGED <<parTool, channel, gathered>>

\* A goroutine of GetMultiLanguageClients: an error is kept only to be
\* returned if no language has a client.
GetClient(l) ==
  /\ fork[l] = "connecting"
  /\ \E found \in {"connected", "no client"} : fork' = [fork EXCEPT ![l] = found]
  /\ UNCHANGED <<parTool, detected, channel, gathered, parStage, parOutcome>>

Clients == {l \in Language : fork[l] \notin {"idle", "no client"}}

\* wg.Wait, and the start of MapWithKeys.
StartAsking ==
  /\ parStage = "clients"
  /\ \A l \in detected : fork[l] # "connecting"
  /\ IF Clients = {}
     THEN ParFinish(ParOutcome("error", 0, 0)) /\ UNCHANGED fork
     ELSE /\ fork' = [l \in Language |->
                        IF l \in Clients THEN "asking" ELSE fork[l]]
          /\ parStage' = "collecting" /\ UNCHANGED parOutcome
  /\ UNCHANGED <<parTool, detected, channel, gathered>>

\* The client's method returns; what with, the receiver sees.
ClientReturns(l) ==
  /\ fork[l] = "asking"
  /\ fork' = [fork EXCEPT ![l] = "answered"]
  /\ UNCHANGED <<parTool, detected, channel, gathered, parStage, parOutcome>>


\* The channel has room for every result.
HasRoom == Len(channel) < Cardinality(Clients)

SendResult(l) ==
  /\ fork[l] = "answered" /\ HasRoom
  /\ fork' = [fork EXCEPT ![l] = "ended"]
  /\ \E a \in Answers : channel' = Append(channel, [key |-> l, answer |-> a])
  /\ UNCHANGED <<parTool, detected, gathered, parStage, parOutcome>>

Receive ==
  /\ parStage = "collecting" /\ channel # << >>
  /\ Len(gathered) < Cardinality(Clients)
  /\ gathered' = Append(gathered, Head(channel))
  /\ channel' = Tail(channel)
  /\ UNCHANGED <<parTool, detected, fork, parStage, parOutcome>>

\* The client of the tool has gone, or the 10 minutes of workspace_diagnostics
\* are over.  The search for references has no such context.
ContextEnds ==
  /\ parStage = "collecting" /\ parTool # "references"
  /\ Len(gathered) < Cardinality(Clients)
  /\ ParFinish(ParOutcome("error", 0, 0))
  /\ UNCHANGED <<parTool, detected, fork, channel, gathered>>

\* One result after the other is looked at.
Count3(a) ==
  LET upTo[i \in 0 .. Len(gathered)] ==
        IF i = 0 THEN 0
        ELSE upTo[i - 1] + (IF gathered[i].answer = a THEN 1 ELSE 0)
  IN  upTo[Len(gathered)]

\* Mutant: the results end at the first error.
CollectedFirstError == [found |-> Count3("value"),
                        problems |-> IF Count3("error") > 0 THEN 1 ELSE 0]

\* FlattenKeyedResults, and the same by hand in workspace_diagnostics.
Collected == [found |-> Count3("value"), problems |-> Count3("error")]

\* The text of implementation and workspace_diagnostics lists the errors.  The
\* search for references logs them.
TellResult ==
  /\ parStage = "collecting" /\ Len(gathered) = Cardinality(Clients)
  /\ ParFinish(ParOutcome("text", Collected.found,
                 IF parTool = "references" THEN 0 ELSE Collected.problems))
  /\ UNCHANGED <<parTool, detected, fork, channel, gathered>>

\* The 10 minutes of workspace_diagnostics end, whoever hangs.
Deadline == parTool = "workspace_diagnostics" /\ ContextEnds

ParGoroutine(l) == GetClient(l) \/ ClientReturns(l) \/ SendResult(l)

ParTool == DetectLanguages \/ StartAsking \/ Receive \/ TellResult

ParNext == ParTool \/ ContextEnds \/ \E l \in Language : ParGoroutine(l)

-----------------------------------------------------------------------------
(* Properties. *)

ParTypeOK ==
  /\ parTool \in ParallelTools /\ detected \subseteq Language
  /\ fork \in [Language -> {"idle", "connecting", "connected", "no client",
                            "asking", "answered", "ended"}]
  /\ \A r \in ToSet(channel) \cup ToSet(gathered) :
       r.key \in Language /\ r.answer \in Answers
  /\ parStage \in {"languages", "clients", "collecting", "done"}
  /\ parOutcome.kind \in {"none", "text", "error"}

\* However the servers answer, a text stands for one answer of every client,
\* and tells of each error; only the search for references does not.
GatheredOnce ==
  parOutcome.kind = "text" =>
    /\ Len(gathered) = Cardinality(Clients)
    /\ {gathered[i].key : i \in DOMAIN gathered} = Clients
    /\ parOutcome.found = Cardinality({i \in DOMAIN gathered :
                                         gathered[i].answer = "value"})
    /\ parTool # "references" =>
         parOutcome.problems = Cardinality({i \in DOMAIN gathered :
                                              gathered[i].answer = "error"})

\* The client of a goroutine connects, or is asked; it may hang in either.
ParMayHang(l) == fork[l] \in {"connecting", "asking"}

\* wg.Wait waits for every client, and the tool then for every result; only
\* workspace_diagnostics has a time limit, and that for the results.
ToolMayHang ==
  /\ \/ parStage = "clients"
     \/ parStage = "collecting" /\ parTool # "workspace_diagnostics"
  /\ \E l \in Language : ParMayHang(l)

\* The tool returns, and no goroutine stays behind, not even when the tool
\* has given up before it answered; but for goroutines that hang in their
\* client, and the tool if it waits for one of them.
EveryoneEnded ==
  /\ parStage = "done" \/ ToolMayHang
  /\ \A l \in Language : fork[l] # "answered"
  /\ parStage = "done" => \A l \in Language : fork[l] # "connecting"

=============================================================================
