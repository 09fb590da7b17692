----------------------------- MODULE CallGraph -----------------------------
(***************************************************************************)
(* The call_graph tool (mcpserver/tools/call_graph.go): from one function  *)
(* it follows callers ("up") and callees ("down") at once, with one        *)
(* goroutine per call that a function makes or receives.  All goroutines   *)
(* share the set of visited functions, the count of nodes and the flags,   *)
(* each under a lock of its own, so that what one of them has looked at    *)
(* may have changed when it acts on it.                                    *)
(*                                                                         *)
(* A node of the result is its path from the root: << direction, f, g >>   *)
(* is g, found from f, which was found from the root.  The path of length  *)
(* one stands for the root's call of buildIncomingTree or                  *)
(* buildOutgoingTree.  The two functions differ in nothing but the request *)
(* they send and the search for entry points.                              *)
(***************************************************************************)
EXTENDS Integers, Sequences, FiniteSets

CONSTANTS
  Fun,          \* functions of the program that is analysed
  Root,         \* the function at the position that was asked for
  Entry,        \* functions with the name of a known BSL event
  Programs,     \* the programs considered, sets of <<caller, callee>>
  DepthInputs, NodeInputs,  \* parameters depth_up, depth_down; max_nodes
  HardLimitNodes,
  Slots         \* capacity of each semaphore, 5 in the code

ASSUME CallGraphConstants ==
  /\ IsFiniteSet(Fun) /\ Root \in Fun /\ Entry \subseteq Fun
  /\ Programs \subseteq SUBSET (Fun \X Fun)
  /\ DepthInputs \subseteq Int /\ NodeInputs \subseteq Int
  /\ HardLimitNodes \in Nat \ {0} /\ Slots \in Nat \ {0}

VARIABLES
  calls,        \* the program
  depth,        \* b.depthUp, b.depthDown
  maxNodes,     \* b.maxNodes
  task,         \* the goroutine of each node and of the two root calls
  visited,      \* b.visited
  nodeCount,    \* b.nodeCount
  maxDepth,     \* b.maxDepthUp, b.maxDepthDown
  entryPoints,  \* b.entryPoints, which addEntryPoint keeps free of duplicates
  truncated,    \* b.truncateReason, "no" while b.truncated is not set
  cancelled,    \* the 60 seconds are over
  failed        \* history: a request to the language server failed

graphVars == <<calls, depth, maxNodes, task, visited, nodeCount, maxDepth,
          entryPoints, truncated, cancelled, failed>>

Direction == {"up", "down"}

\* The functions that a call of the request for f returns.
Next1(dir, f) ==
  IF dir = "up" THEN {g \in Fun : <<g, f>> \in calls}
                ELSE {g \in Fun : <<f, g>> \in calls}

Dir(p)       == p[1]
FunOf(p)     == IF Len(p) = 1 THEN Root ELSE p[Len(p)]
Parent(p)    == SubSeq(p, 1, Len(p) - 1)
Children(p)  == {q \in DOMAIN task : Len(q) = Len(p) + 1 /\ Parent(q) = p}
IsNode(p)    == Len(p) > 1

\* The goroutines of a node that hold a place in their caller's semaphore.
Holding(p) == {q \in Children(p) : task[q].pc \notin {"start", "done"}}

\* A node that was counted and not taken for a cycle.
Expanded(p) ==
  IsNode(p) /\ task[p].pc \notin {"start", "count"} /\ ~task[p].isCycle

GraphTypeOK ==
  /\ calls \in Programs
  /\ depth \in [Direction -> Int] /\ maxNodes \in Int
  /\ \A p \in DOMAIN task :
       /\ Dir(p) \in Direction /\ \A i \in 2 .. Len(p) : p[i] \in Fun
       /\ task[p].pc \in {"start", "count", "mark", "enter", "loop", "wait",
                          "done"}
       /\ task[p].todo \subseteq Fun /\ task[p].isCycle \in BOOLEAN
       /\ IsNode(p) => Parent(p) \in DOMAIN task
  /\ visited \subseteq Fun /\ entryPoints \subseteq Entry
  /\ nodeCount = 1 + Cardinality({p \in DOMAIN task :
                        IsNode(p) /\ task[p].pc \notin {"start", "count"}})
  /\ maxDepth \in [Direction -> Nat]
  /\ truncated \in {"no", "timeout", "max_nodes"}
  /\ cancelled \in BOOLEAN /\ failed \in BOOLEAN

-----------------------------------------------------------------------------
(* The handler: parameters, root node, the two root calls. *)

\* 0 means no limit but that of the nodes.
DepthParam(n) == IF n = 0 THEN HardLimitNodes ELSE n

NodesParam(n) ==
  IF n = 0 \/ n > HardLimitNodes THEN HardLimitNodes ELSE n

NewTask(pc) == [pc |-> pc, todo |-> {}, isCycle |-> FALSE]

\* The root is counted and may be an entry point; it is not marked visited.
GraphInit ==
  /\ calls \in Programs
  /\ \E up, down \in DepthInputs :
       depth = [dir \in Direction |->
                  DepthParam(IF dir = "up" THEN up ELSE down)]
  /\ \E n \in NodeInputs : maxNodes = NodesParam(n)
  /\ task = [p \in {<<dir>> : dir \in Direction} |-> NewTask("enter")]
  /\ visited = {} /\ nodeCount = 1
  /\ maxDepth = [dir \in Direction |-> 0]
  /\ entryPoints = Entry \cap {Root}
  /\ truncated = "no" /\ cancelled = FALSE /\ failed = FALSE

-----------------------------------------------------------------------------
(* The goroutines. *)

LimitReached == nodeCount >= maxNodes

\* setTruncated: the first reason stays.
SetTruncated(reason) ==
  truncated' = IF truncated = "no" THEN reason ELSE truncated

Goto(p, pc) == task' = [task EXCEPT ![p].pc = pc]

\* The beginning of buildIncomingTree and buildOutgoingTree, in the order of
\* its checks.
EnterCancelled(p) ==
  /\ task[p].pc = "enter" /\ cancelled
  /\ Goto(p, "done") /\ SetTruncated("timeout")
  /\ UNCHANGED <<calls, depth, maxNodes, visited, nodeCount, maxDepth,
                 entryPoints, cancelled, failed>>

EnterTooDeep(p) ==
  /\ task[p].pc = "enter" /\ ~cancelled
  /\ Len(p) > depth[Dir(p)]
  /\ Goto(p, "done")
  /\ UNCHANGED <<calls, depth, maxNodes, visited, nodeCount, maxDepth,
                 entryPoints, truncated, cancelled, failed>>

\* Mutant: the search ends at the limit without saying so.
EnterLimitSilently(p) ==
  /\ task[p].pc = "enter" /\ ~cancelled
  /\ Len(p) <= depth[Dir(p)] /\ LimitReached
  /\ Goto(p, "done")
  /\ UNCHANGED <<calls, depth, maxNodes, visited, nodeCount, maxDepth,
                 entryPoints, truncated, cancelled, failed>>

EnterLimit(p) ==
  /\ task[p].pc = "enter" /\ ~cancelled
  /\ Len(p) <= depth[Dir(p)] /\ LimitReached
  /\ Goto(p, "done") /\ SetTruncated("max_nodes")
  /\ UNCHANGED <<calls, depth, maxNodes, visited, nodeCount, maxDepth,
                 entryPoints, cancelled, failed>>

\* The request: it fails, which is logged only, or returns the calls.
Ask(p) ==
  /\ task[p].pc = "enter" /\ ~cancelled
  /\ Len(p) <= depth[Dir(p)] /\ ~LimitReached
  /\ maxDepth' = [maxDepth EXCEPT ![Dir(p)] = IF Len(p) > @ THEN Len(p) ELSE @]
  /\ \/ failed' = TRUE /\ Goto(p, "done")
     \/ LET found == Next1(Dir(p), FunOf(p))
        IN  /\ UNCHANGED failed
            /\ task' = [task EXCEPT ![p].todo = found,
                          ![p].pc = IF found = {} THEN "done" ELSE "loop"]
  /\ UNCHANGED <<calls, depth, maxNodes, visited, nodeCount, entryPoints,
                 truncated, cancelled>>

\* One turn of the loop.  The break in its select leaves the select only: a
\* goroutine starts although the time is over.
Spawn(p, f) ==
  /\ task[p].pc = "loop" /\ f \in task[p].todo /\ ~LimitReached
  /\ task' = [q \in DOMAIN task \cup {Append(p, f)} |->
                IF q = p THEN [task[p] EXCEPT !.todo = @ \ {f}]
                ELSE IF q \in DOMAIN task THEN task[q]
                ELSE NewTask("start")]
  /\ IF cancelled THEN SetTruncated("timeout") ELSE UNCHANGED truncated
  /\ UNCHANGED <<calls, depth, maxNodes, visited, nodeCount, maxDepth,
                 entryPoints, cancelled, failed>>

LoopEnds(p) ==
  /\ task[p].pc = "loop" /\ (task[p].todo = {} \/ LimitReached)
  /\ task' = [task EXCEPT ![p].pc = "wait", ![p].todo = {}]
  /\ IF task[p].todo # {} THEN SetTruncated("max_nodes")
                          ELSE UNCHANGED truncated
  /\ UNCHANGED <<calls, depth, maxNodes, visited, nodeCount, maxDepth,
                 entryPoints, cancelled, failed>>

\* A place in the semaphore that the caller's call has made.
Acquired(p) == Cardinality(Holding(Parent(p))) < Slots

\* The first critical section of visited.
Look(p) ==
  /\ IsNode(p) /\ task[p].pc = "start" /\ Acquired(p)
  /\ task' = [task EXCEPT ![p].pc = "count",
                          ![p].isCycle = FunOf(p) \in visited]
  /\ UNCHANGED <<calls, depth, maxNodes, visited, nodeCount, maxDepth,
                 entryPoints, truncated, cancelled, failed>>

\* Mutant: the end of a cycle is not counted.
CountOriginals(p) ==
  /\ task[p].pc = "count"
  /\ nodeCount' = nodeCount + (IF task[p].isCycle THEN 0 ELSE 1)
  /\ Goto(p, IF task[p].isCycle THEN "done" ELSE "mark")
  /\ UNCHANGED <<calls, depth, maxNodes, visited, maxDepth, entryPoints,
                 truncated, cancelled, failed>>

\* itemToNode; a cycle ends here.
Count(p) ==
  /\ task[p].pc = "count"
  /\ nodeCount' = nodeCount + 1
  /\ Goto(p, IF task[p].isCycle THEN "done" ELSE "mark")
  /\ UNCHANGED <<calls, depth, maxNodes, visited, maxDepth, entryPoints,
                 truncated, cancelled, failed>>

\* The second critical section of visited.
Mark(p) ==
  /\ task[p].pc = "mark"
  /\ visited' = visited \cup {FunOf(p)}
  /\ entryPoints' = IF Dir(p) = "up" THEN entryPoints \cup (Entry \cap {FunOf(p)})
                                     ELSE entryPoints
  /\ Goto(p, "enter")
  /\ UNCHANGED <<calls, depth, maxNodes, nodeCount, maxDepth, truncated,
                 cancelled, failed>>

\* wg.Wait; every goroutine has then appended its node.
Join(p) ==
  /\ task[p].pc = "wait"
  /\ \A q \in Children(p) : task[q].pc = "done"
  /\ Goto(p, "done")
  /\ UNCHANGED <<calls, depth, maxNodes, visited, nodeCount, maxDepth,
                 entryPoints, truncated, cancelled, failed>>

Finished == \A dir \in Direction : task[<<dir>>].pc = "done"

\* A goroutine that is not too deep may have passed its checks and hang in its
\* request; the 60 seconds do not end a request.
GraphMayHang(p) == task[p].pc = "enter" /\ Len(p) <= depth[Dir(p)]

Timeout ==
  /\ ~cancelled /\ ~Finished
  /\ cancelled' = TRUE
  /\ UNCHANGED <<calls, depth, maxNodes, task, visited, nodeCount, maxDepth,
                 entryPoints, truncated, failed>>

Step(p) ==
  \/ EnterCancelled(p) \/ EnterTooDeep(p) \/ EnterLimit(p) \/ Ask(p)
  \/ \E f \in Fun : Spawn(p, f)
  \/ LoopEnds(p) \/ Look(p) \/ Count(p) \/ Mark(p) \/ Join(p)

GraphNext == Timeout \/ \E p \in DOMAIN task : Step(p)

GraphSpec == GraphInit /\ [][GraphNext]_graphVars

-----------------------------------------------------------------------------
(* Reference definitions. *)

\* The functions that calls lead to from the root without passing through a
\* function in S: what every set has that is closed in this sense.
ClosedBeside(dir, S, X) ==
  /\ Next1(dir, Root) \subseteq X
  /\ \A f \in X \ S : Next1(dir, f) \subseteq X

ReachedIn(dir, S) ==
  {f \in Fun : \A X \in SUBSET Fun : ClosedBeside(dir, S, X) => f \in X}

Transitive(dir) == ReachedIn(dir, {})

\* On a recursion through the root: called by it and calling it.
Recursive == Transitive("up") \cap Transitive("down")

InTree(dir) ==
  {FunOf(p) : p \in {q \in DOMAIN task : IsNode(q) /\ Dir(q) = dir}}

\* Nothing has stopped the search: no limit, no time-out, no failed request.
Unlimited ==
  /\ truncated = "no" /\ ~failed
  /\ \A dir \in Direction : depth[dir] > Cardinality(Fun)

-----------------------------------------------------------------------------
(* Properties. *)

\* call_graph.go: a search that nothing has stopped finds every caller and
\* every callee that can be reached without passing through a recursion of
\* the root, whatever the order in which the goroutines looked at visited and
\* marked it; and nothing that is not a caller or a callee.
CompleteBesideRecursion ==
  Finished /\ Unlimited =>
    \A dir \in Direction :
      /\ ReachedIn(dir, Recursive) \subseteq InTree(dir)
      /\ InTree(dir) \subseteq Transitive(dir)

\* A node marked as a cycle stands for a function whose own node, with its
\* calls, is elsewhere in the result; in the end there is no such node
\* without one.
CycleHasOriginal ==
  Finished =>
    \A p \in DOMAIN task :
      IsNode(p) /\ task[p].isCycle =>
        \E q \in DOMAIN task : Expanded(q) /\ FunOf(q) = FunOf(p)

\* The most calls that one request returns.
FanOut ==
  LET sizes == {Cardinality(Next1(dir, f)) : dir \in Direction, f \in Fun}
  IN  CHOOSE n \in sizes : \A m \in sizes : m <= n

\* max_nodes is looked at before goroutines start and before they ask, not
\* when they count: nodes above the limit are those of the requests that were
\* sent below it, of which the root sends two.
BoundedOvershoot ==
  nodeCount <= 1 + FanOut * (IF maxNodes > 1 THEN maxNodes ELSE 0)

\* The tool returns, or waits for a goroutine that hangs.
GraphEnded == Finished \/ \E p \in DOMAIN task : GraphMayHang(p)

\* call_graph.go: the result is complete, every cycle has its original and
\* the limit of nodes is exceeded by one level at most.
CallGraphSound == CompleteBesideRecursion /\ CycleHasOriginal /\ BoundedOvershoot

=============================================================================
