---------------------------- MODULE LookupProofs ----------------------------
(***************************************************************************)
(* Theorems and lemmas about what the tools look up.  The call graph, for  *)
(* every program, every limit and any capacity of the semaphores: types,   *)
(* and that the result is complete, that every cycle has its original, and *)
(* by how much the limit of nodes is exceeded (CallGraph).  The file of a  *)
(* context, for any patterns, any number of callers and of changes of the  *)
(* disk (FileContext), the file of a name, for any roots and any files     *)
(* (PathMapping), and the text between two positions, for any lines        *)
(* (RangeContent): ToolsProofs has the theorems about these three.         *)
(***************************************************************************)
EXTENDS CallGraph, FileContext, PathMapping, RangeContent,
        SequenceTheorems, FunctionTheorems, FiniteSetTheorems, WellFoundedInduction, TLAPS

-----------------------------------------------------------------------------
(* CallGraph. *)

Forks == DOMAIN task

PCs == {"start", "count", "mark", "enter", "loop", "wait", "done"}

TaskRec == [pc : PCs, todo : SUBSET Fun, isCycle : BOOLEAN]

Paths ==
  {p \in Seq(Direction \cup Fun) :
     /\ Len(p) >= 1 /\ p[1] \in Direction
     /\ \A i \in 2 .. Len(p) : p[i] \in Fun}

\* The calls that belong below p.
CallsOf(p) == Next1(Dir(p), FunOf(p))

\* The tasks form a tree with the two root calls, which are never looked at,
\* counted or marked.
TasksOK ==
  /\ IsFiniteSet(Forks) /\ Forks \subseteq Paths
  /\ \A p \in Forks : task[p] \in TaskRec
  /\ \A dir \in Direction : <<dir>> \in Forks
  /\ \A p \in Forks :
       IF IsNode(p)
       THEN /\ Parent(p) \in Forks
            /\ FunOf(p) \in CallsOf(Parent(p))
            /\ task[Parent(p)].pc \in {"loop", "wait", "done"}
            /\ task[p].pc # "done" => task[Parent(p)].pc # "done"
            /\ ~task[Parent(p)].isCycle
       ELSE task[p].pc \notin {"start", "count", "mark"} /\ ~task[p].isCycle
  /\ \A p \in Forks : /\ task[p].todo \subseteq CallsOf(p)
                      /\ \A f \in task[p].todo : Append(p, f) \notin Forks
                      /\ task[p].isCycle => task[p].pc \in {"count", "done"}

ValuesOK ==
  /\ calls \in Programs
  /\ depth \in [Direction -> Int] /\ maxNodes \in Int
  /\ visited \subseteq Fun /\ entryPoints \subseteq Entry
  /\ maxDepth \in [Direction -> Nat]
  /\ truncated \in {"no", "timeout", "max_nodes"}
  /\ cancelled \in BOOLEAN /\ failed \in BOOLEAN

\* A node that was marked.
Marked(p) == Expanded(p) /\ task[p].pc # "mark"

\* The shared set: who is marked is in it, and who is in it has a node whose
\* calls were or will be looked for.
VisitedOK ==
  /\ \A p \in Forks : Marked(p) => FunOf(p) \in visited
  /\ \A f \in visited : \E p \in Forks : Expanded(p) /\ FunOf(p) = f
  /\ \A p \in Forks : task[p].isCycle => FunOf(p) \in visited

\* A node that looked at visited and did not find itself there.
Original(p) == IsNode(p) /\ task[p].pc # "start" /\ ~task[p].isCycle

\* No function is twice on the way to a node, nor, if the node is no cycle, on
\* the way with its end.
WaysOK ==
  \A p \in Forks :
    /\ \A i \in 2 .. Len(p) - 1 : p[i] \in visited
    /\ \A i, j \in 2 .. Len(p) - 1 : p[i] = p[j] => i = j
    /\ Original(p) => \A i \in 2 .. Len(p) - 1 : p[i] # FunOf(p)

\* As long as nothing has stopped the search, every call below a node has its
\* goroutine or is still to get one.
CompleteOK ==
  truncated = "no" /\ ~failed =>
    \A p \in Forks :
      task[p].pc \in {"loop", "wait", "done"} /\ ~task[p].isCycle
        /\ Len(p) <= depth[Dir(p)] =>
        CallsOf(p) \subseteq task[p].todo \cup {g \in Fun : Append(p, g) \in Forks}

Counted == {p \in Forks : IsNode(p) /\ task[p].pc \notin {"start", "count"}}

\* The tasks that got an answer of the server with something in it.
Heard(p) ==
  \/ task[p].pc \in {"loop", "wait"}
  \/ \E q \in Forks : IsNode(q) /\ Parent(q) = p

AskedNodes == {p \in Forks : IsNode(p) /\ Heard(p)}

CountsOK ==
  /\ nodeCount = 1 + Cardinality(Counted)
  /\ IF maxNodes > 1 THEN Cardinality(AskedNodes) <= maxNodes - 2
                     ELSE \A p \in Forks : ~Heard(p)

\* What a node stands for can be reached.
Reaches == \A p \in Forks : IsNode(p) => FunOf(p) \in Transitive(Dir(p))

GraphInv ==
  /\ TasksOK /\ ValuesOK /\ VisitedOK /\ WaysOK /\ CompleteOK /\ CountsOK
  /\ Reaches

-----------------------------------------------------------------------------
(* Numbers, sets and paths. *)

\* A set of natural numbers has a least one.
LEMMA LeastNumber ==
  ASSUME NEW N \in SUBSET Nat, N # {}
  PROVE  \E n \in N : \A m \in N : n <= m
<1> DEFINE S == {0 .. n : n \in N}
<1>1. S \subseteq FiniteSubsetsOf(Nat)
  <2>1. ASSUME NEW n \in N PROVE 0 .. n \in FiniteSubsetsOf(Nat)
    BY FS_Interval DEF FiniteSubsetsOf
  <2> QED
    BY <2>1
<1>2. S # {}
  OBVIOUS
<1>3. PICK I \in S : \A J \in S : ~(<<J, I>> \in StrictSubsetOrdering(Nat))
  <2> HIDE DEF S
  <2> QED
    BY <1>1, <1>2, FS_StrictSubsetOrderingWellFounded, WFMin
<1>4. PICK n \in N : I = 0 .. n
  BY <1>3
<1>5. ASSUME NEW m \in N, m < n PROVE FALSE
  <2>1. 0 .. m \in S /\ 0 .. m \subseteq Nat /\ 0 .. n \subseteq Nat
    OBVIOUS
  <2>2. 0 .. m \subseteq 0 .. n /\ n \in 0 .. n /\ n \notin 0 .. m
    BY <1>5
  <2> QED
    BY <1>3, <1>4, <2>1, <2>2 DEF StrictSubsetOrdering
<1> QED
  BY <1>5

\* A path and the call that is added to it.
LEMMA PathExtended ==
  ASSUME NEW p \in Paths, NEW f \in Fun
  PROVE  /\ Append(p, f) \in Paths /\ Len(Append(p, f)) = Len(p) + 1
         /\ \A i \in 1 .. Len(p) : Append(p, f)[i] = p[i]
         /\ Append(p, f)[Len(p) + 1] = f
         /\ IsNode(Append(p, f)) /\ Parent(Append(p, f)) = p
         /\ FunOf(Append(p, f)) = f /\ Dir(Append(p, f)) = Dir(p)
<1> DEFINE q == Append(p, f)
<1>1. p \in Seq(Direction \cup Fun) /\ Len(p) \in Nat /\ Len(p) >= 1
  BY DEF Paths
<1>2. /\ q \in Seq(Direction \cup Fun) /\ Len(q) = Len(p) + 1
      /\ \A i \in 1 .. Len(p) : q[i] = p[i]
      /\ q[Len(p) + 1] = f
  BY <1>1
<1>3. q \in Paths
  <2>1. q[1] \in Direction /\ Len(q) >= 1
    BY <1>1, <1>2 DEF Paths
  <2>2. ASSUME NEW i \in 2 .. Len(q) PROVE q[i] \in Fun
    <3>1. CASE i = Len(p) + 1
      BY <1>2, <3>1
    <3>2. CASE i # Len(p) + 1
      <4>1. i \in 2 .. Len(p) /\ i \in 1 .. Len(p)
        BY <1>1, <1>2, <3>2
      <4> QED
        BY <1>2, <4>1 DEF Paths
    <3> QED
      BY <3>1, <3>2
  <2> QED
    BY <1>2, <2>1, <2>2 DEF Paths
<1>4. SubSeq(q, 1, Len(p)) = p
  BY <1>1, <1>2
<1> QED
  BY <1>1, <1>2, <1>3, <1>4 DEF IsNode, Parent, FunOf, Dir

\* A node's path is that of its parent and its function.
LEMMA PathParted ==
  ASSUME NEW p \in Paths, IsNode(p)
  PROVE  /\ Parent(p) \in Paths /\ FunOf(p) \in Fun
         /\ Len(Parent(p)) \in Nat /\ Len(p) = Len(Parent(p)) + 1
         /\ p = Append(Parent(p), FunOf(p)) /\ Dir(Parent(p)) = Dir(p)
         /\ FunOf(p) = p[Len(p)]
<1>1. p \in Seq(Direction \cup Fun) /\ Len(p) \in Nat /\ Len(p) > 1
  BY DEF Paths, IsNode
<1> DEFINE q == SubSeq(p, 1, Len(p) - 1)
<1>2. /\ q \in Seq(Direction \cup Fun) /\ Len(q) = Len(p) - 1
      /\ \A i \in 1 .. Len(p) - 1 : q[i] = p[i]
  BY <1>1
<1>3. FunOf(p) = p[Len(p)] /\ FunOf(p) \in Fun
  BY <1>1 DEF FunOf, Paths
<1>4. q \in Paths
  <2>1. q[1] \in Direction /\ Len(q) >= 1
    BY <1>1, <1>2 DEF Paths
  <2>2. ASSUME NEW i \in 2 .. Len(q) PROVE q[i] \in Fun
    BY <1>1, <1>2 DEF Paths
  <2> QED
    BY <1>2, <2>1, <2>2 DEF Paths
<1>5. p = Append(q, p[Len(p)])
  BY <1>1, <1>2
<1> QED
  BY <1>1, <1>2, <1>3, <1>4, <1>5 DEF Parent, Dir

LEMMA PathTypes ==
  ASSUME NEW p \in Paths
  PROVE  /\ Len(p) \in Nat /\ Len(p) >= 1 /\ Dir(p) \in Direction
         /\ FunOf(p) \in Fun
         /\ \A i \in 2 .. Len(p) : p[i] \in Fun
         /\ ~IsNode(p) => p = <<Dir(p)>> /\ FunOf(p) = Root
<1>1. /\ p \in Seq(Direction \cup Fun) /\ Len(p) \in Nat /\ Len(p) >= 1
      /\ p[1] \in Direction /\ \A i \in 2 .. Len(p) : p[i] \in Fun
  BY DEF Paths
<1>n. PICK n \in Nat : n = Len(p) /\ n >= 1
  BY <1>1
<1>2. FunOf(p) \in Fun
  <2>1. CASE Len(p) = 1
    BY <2>1, CallGraphConstants DEF FunOf
  <2>2. CASE Len(p) # 1
    <3>1. Len(p) \in 2 .. Len(p)
      BY <1>n, <2>2
    <3> QED
      BY <1>1, <2>2, <3>1 DEF FunOf
  <2> QED
    BY <2>1, <2>2
<1>3. ASSUME Len(p) = 1 PROVE p = <<p[1]>>
  BY <1>1, <1>3
<1>4. ~IsNode(p) => Len(p) = 1
  BY <1>n DEF IsNode
<1> QED
  BY <1>1, <1>2, <1>3, <1>4 DEF Dir, FunOf

\* The first step of each direction.
LEMMA RootPaths ==
  ASSUME NEW dir \in Direction
  PROVE  /\ <<dir>> \in Paths /\ Len(<<dir>>) = 1 /\ ~IsNode(<<dir>>)
         /\ Dir(<<dir>>) = dir /\ FunOf(<<dir>>) = Root
<1>1. <<dir>> \in Seq(Direction \cup Fun) /\ Len(<<dir>>) = 1 /\ <<dir>>[1] = dir
  OBVIOUS
<1> QED
  BY <1>1 DEF Paths, IsNode, Dir, FunOf

-----------------------------------------------------------------------------
(* What a step does to the tasks. *)

\* The step changes the task of p, and no other.
Turn(p, c, s, b) ==
  /\ Forks' = Forks
  /\ \A q \in Forks :
       task'[q] = IF q = p THEN [pc |-> c, todo |-> s, isCycle |-> b]
                           ELSE task[q]

\* Every step but Spawn is a turn of one task, from its place to another.
LEMMA StepTurns ==
  ASSUME TasksOK, NEW p \in Forks
  PROVE  /\ EnterCancelled(p) \/ EnterTooDeep(p) \/ EnterLimit(p) =>
              task[p].pc = "enter" /\ Turn(p, "done", task[p].todo, task[p].isCycle)
         /\ Ask(p) =>
              /\ task[p].pc = "enter"
              /\ \/ failed' = TRUE /\ Turn(p, "done", task[p].todo, task[p].isCycle)
                 \/ /\ failed' = failed /\ CallsOf(p) = {}
                    /\ Turn(p, "done", {}, task[p].isCycle)
                 \/ /\ failed' = failed
                    /\ Turn(p, "loop", CallsOf(p), task[p].isCycle)
         /\ LoopEnds(p) =>
              task[p].pc = "loop" /\ Turn(p, "wait", {}, task[p].isCycle)
         /\ Look(p) =>
              /\ IsNode(p) /\ task[p].pc = "start"
              /\ FunOf(p) \in visited => Turn(p, "count", task[p].todo, TRUE)
              /\ FunOf(p) \notin visited => Turn(p, "count", task[p].todo, FALSE)
         /\ Count(p) =>
              /\ task[p].pc = "count"
              /\ task[p].isCycle => Turn(p, "done", task[p].todo, TRUE)
              /\ ~task[p].isCycle => Turn(p, "mark", task[p].todo, FALSE)
         /\ Mark(p) =>
              task[p].pc = "mark" /\ Turn(p, "enter", task[p].todo, task[p].isCycle)
         /\ Join(p) =>
              task[p].pc = "wait" /\ Turn(p, "done", task[p].todo, task[p].isCycle)
<1>1. task[p] \in TaskRec
  BY DEF TasksOK
<1>2. task[p] = [pc |-> task[p].pc, todo |-> task[p].todo,
                 isCycle |-> task[p].isCycle]
  BY <1>1 DEF TaskRec
<1>p. ASSUME NEW c, NEW t
      PROVE  /\ [task[p] EXCEPT !.pc = c] =
                  [pc |-> c, todo |-> task[p].todo, isCycle |-> task[p].isCycle]
             /\ [task[p] EXCEPT !.todo = t, !.pc = c] =
                  [pc |-> c, todo |-> t, isCycle |-> task[p].isCycle]
             /\ [task[p] EXCEPT !.pc = c, !.todo = t] =
                  [pc |-> c, todo |-> t, isCycle |-> task[p].isCycle]
             /\ [task[p] EXCEPT !.pc = c, !.isCycle = t] =
                  [pc |-> c, todo |-> task[p].todo, isCycle |-> t]
  <2>1. ASSUME NEW r, NEW c0, NEW t0, NEW b0,
               r = [pc |-> c0, todo |-> t0, isCycle |-> b0]
        PROVE  /\ [r EXCEPT !.pc = c] = [pc |-> c, todo |-> t0, isCycle |-> b0]
               /\ [r EXCEPT !.todo = t] = [pc |-> c0, todo |-> t, isCycle |-> b0]
               /\ [r EXCEPT !.isCycle = t] = [pc |-> c0, todo |-> t0, isCycle |-> t]
    BY <2>1
  <2>2. PICK c0, t0, b0 : task[p] = [pc |-> c0, todo |-> t0, isCycle |-> b0]
    BY <1>2
  <2>3. task[p].pc = c0 /\ task[p].todo = t0 /\ task[p].isCycle = b0
    BY <2>2
  <2>4. /\ [task[p] EXCEPT !.pc = c] = [pc |-> c, todo |-> t0, isCycle |-> b0]
        /\ [task[p] EXCEPT !.todo = t] = [pc |-> c0, todo |-> t, isCycle |-> b0]
    BY <2>1, <2>2
  <2>5. PICK r, s : /\ r = [task[p] EXCEPT !.pc = c] /\ s = [task[p] EXCEPT !.todo = t]
    OBVIOUS
  <2>6. /\ [s EXCEPT !.pc = c] = [pc |-> c, todo |-> t, isCycle |-> b0]
        /\ [r EXCEPT !.todo = t] = [pc |-> c, todo |-> t, isCycle |-> b0]
        /\ [r EXCEPT !.isCycle = t] = [pc |-> c, todo |-> t0, isCycle |-> t]
    <3>1. /\ r = [pc |-> c, todo |-> t0, isCycle |-> b0]
          /\ s = [pc |-> c0, todo |-> t, isCycle |-> b0]
      BY <2>4, <2>5
    <3>2. [s EXCEPT !.pc = c] = [pc |-> c, todo |-> t, isCycle |-> b0]
      BY <2>1, <3>1
    <3>3. [r EXCEPT !.todo = t] = [pc |-> c, todo |-> t, isCycle |-> b0]
      BY <2>1, <3>1
    <3>4. [r EXCEPT !.isCycle = t] = [pc |-> c, todo |-> t0, isCycle |-> t]
      BY <2>1, <3>1
    <3> QED
      BY <3>2, <3>3, <3>4
  <2> QED
    BY <2>3, <2>4, <2>5, <2>6
<1>3. ASSUME NEW l, Goto(p, l)
      PROVE  Turn(p, l, task[p].todo, task[p].isCycle)
  BY <1>2, <1>3 DEF Goto, Turn, Forks
<1>4. ASSUME EnterCancelled(p) \/ EnterTooDeep(p) \/ EnterLimit(p)
      PROVE  task[p].pc = "enter" /\ Turn(p, "done", task[p].todo, task[p].isCycle)
  BY <1>3, <1>4 DEF EnterCancelled, EnterTooDeep, EnterLimit
<1>5. ASSUME Ask(p)
      PROVE  /\ task[p].pc = "enter"
             /\ \/ failed' = TRUE /\ Turn(p, "done", task[p].todo, task[p].isCycle)
                \/ /\ failed' = failed /\ CallsOf(p) = {}
                   /\ Turn(p, "done", {}, task[p].isCycle)
                \/ failed' = failed /\ Turn(p, "loop", CallsOf(p), task[p].isCycle)
  <2>1. CASE failed' = TRUE /\ Goto(p, "done")
    BY <1>3, <1>5, <2>1 DEF Ask
  <2>2. CASE /\ failed' = failed
             /\ task' = [task EXCEPT ![p].todo = CallsOf(p),
                           ![p].pc = IF CallsOf(p) = {} THEN "done" ELSE "loop"]
    <3>1. Turn(p, IF CallsOf(p) = {} THEN "done" ELSE "loop", CallsOf(p),
               task[p].isCycle)
      BY <1>p, <2>2, Zenon DEF Turn, Forks
    <3> QED
      BY <1>5, <2>2, <3>1 DEF Ask
  <2> QED
    BY <1>5, <2>1, <2>2 DEF Ask, CallsOf
<1>6. ASSUME LoopEnds(p)
      PROVE  task[p].pc = "loop" /\ Turn(p, "wait", {}, task[p].isCycle)
  BY <1>p, <1>6 DEF LoopEnds, Turn, Forks
<1>7. ASSUME Look(p)
      PROVE  /\ IsNode(p) /\ task[p].pc = "start"
             /\ FunOf(p) \in visited => Turn(p, "count", task[p].todo, TRUE)
             /\ FunOf(p) \notin visited => Turn(p, "count", task[p].todo, FALSE)
  <2>1. Turn(p, "count", task[p].todo, FunOf(p) \in visited)
    BY <1>p, <1>7 DEF Look, Turn, Forks
  <2>2. ASSUME NEW b \in BOOLEAN, (FunOf(p) \in visited) = b
        PROVE  Turn(p, "count", task[p].todo, b)
    BY <2>1, <2>2
  <2>3. ASSUME FunOf(p) \in visited PROVE Turn(p, "count", task[p].todo, TRUE)
    BY <2>2, <2>3
  <2>4. ASSUME FunOf(p) \notin visited PROVE Turn(p, "count", task[p].todo, FALSE)
    <3>1. (FunOf(p) \in visited) = FALSE
      BY <2>4
    <3> QED
      BY <2>2, <3>1, Zenon
  <2> QED
    BY <1>7, <2>3, <2>4 DEF Look
<1>8. ASSUME Count(p)
      PROVE  /\ task[p].pc = "count"
             /\ task[p].isCycle => Turn(p, "done", task[p].todo, TRUE)
             /\ ~task[p].isCycle => Turn(p, "mark", task[p].todo, FALSE)
  <2>1. task[p].isCycle \in BOOLEAN
    BY <1>1 DEF TaskRec
  <2>2. CASE task[p].isCycle = TRUE
    BY <1>3, <1>8, <2>2 DEF Count
  <2>3. CASE task[p].isCycle = FALSE
    BY <1>3, <1>8, <2>3 DEF Count
  <2> QED
    BY <2>1, <2>2, <2>3
<1>9. ASSUME Mark(p)
      PROVE  task[p].pc = "mark" /\ Turn(p, "enter", task[p].todo, task[p].isCycle)
  BY <1>3, <1>9 DEF Mark
<1>10. ASSUME Join(p)
       PROVE  task[p].pc = "wait" /\ Turn(p, "done", task[p].todo, task[p].isCycle)
  BY <1>3, <1>10 DEF Join
<1> QED
  BY <1>4, <1>5, <1>6, <1>7, <1>8, <1>9, <1>10

\* Spawn adds a task that was not there and takes its function off the list.
LEMMA SpawnAdds ==
  ASSUME TasksOK, NEW p \in Forks, NEW f \in Fun, Spawn(p, f)
  PROVE  /\ task[p].pc = "loop" /\ f \in task[p].todo
         /\ Forks' = Forks \cup {Append(p, f)} /\ Append(p, f) \notin Forks
         /\ task'[p] = [pc |-> "loop", todo |-> task[p].todo \ {f},
                        isCycle |-> task[p].isCycle]
         /\ \A q \in Forks \ {p} : task'[q] = task[q]
         /\ task'[Append(p, f)] = [pc |-> "start", todo |-> {}, isCycle |-> FALSE]
<1>1. task[p] \in TaskRec /\ p \in Paths
  BY DEF TasksOK
<1>2. task[p] = [pc |-> task[p].pc, todo |-> task[p].todo,
                 isCycle |-> task[p].isCycle]
  BY <1>1 DEF TaskRec
<1>3. Append(p, f) \notin Forks
  BY DEF Spawn, TasksOK
<1> QED
  BY <1>2, <1>3 DEF Spawn, Forks, NewTask

-----------------------------------------------------------------------------
(* The tree of tasks. *)

\* A task is not its own parent, and has no children before it has asked.
LEMMA TreeFacts ==
  ASSUME TasksOK, NEW p \in Forks
  PROVE  /\ IsNode(p) => Parent(p) \in Forks \ {p}
         /\ task[p].pc \in {"start", "count", "mark", "enter"} \/ task[p].isCycle =>
              \A q \in Forks : ~(IsNode(q) /\ Parent(q) = p)
         /\ p \in Paths /\ task[p] \in TaskRec
<1>1. p \in Paths /\ task[p] \in TaskRec
  BY DEF TasksOK
<1>2. ASSUME IsNode(p) PROVE Parent(p) \in Forks \ {p}
  <2>1. PICK n \in Nat : n = Len(Parent(p)) /\ Len(p) = n + 1
    BY <1>1, <1>2, PathParted
  <2>2. Parent(p) # p
    BY <2>1
  <2> QED
    BY <1>2, <2>2 DEF TasksOK
<1>3. ASSUME NEW q \in Forks, IsNode(q), Parent(q) = p
      PROVE  task[p].pc \in {"loop", "wait", "done"} /\ ~task[p].isCycle
  BY <1>3 DEF TasksOK
<1>4. {"start", "count", "mark", "enter"} \cap {"loop", "wait", "done"} = {}
  OBVIOUS
<1> QED
  BY <1>1, <1>2, <1>3, <1>4

\* A turn that fits the parent and the children of the task keeps the tree.
LEMMA TurnKeepsTasks ==
  ASSUME TasksOK, NEW p \in Forks, NEW c \in PCs, NEW s, NEW b \in BOOLEAN,
         Turn(p, c, s, b), calls' = calls,
         s \subseteq CallsOf(p), \A f \in s : Append(p, f) \notin Forks,
         b => c \in {"count", "done"},
         ~IsNode(p) => c \notin {"start", "count", "mark"} /\ ~b,
         c = "done" \/ (IsNode(p) => task[Parent(p)].pc # "done"),
         \A q \in Forks : IsNode(q) /\ Parent(q) = p =>
           /\ c \in {"loop", "wait", "done"} /\ ~b
           /\ task[q].pc # "done" => c # "done"
  PROVE  TasksOK'
<1>1. /\ Forks' = Forks /\ task'[p] = [pc |-> c, todo |-> s, isCycle |-> b]
      /\ \A q \in Forks \ {p} : task'[q] = task[q]
  BY DEF Turn
<1>2. task'[p].pc = c /\ task'[p].todo = s /\ task'[p].isCycle = b
  BY <1>1
<1>3. \A q : CallsOf(q)' = CallsOf(q)
  BY DEF CallsOf, Next1
<1>4. ASSUME NEW q \in Forks PROVE task'[q] \in TaskRec
  <2>1. CASE q = p
    <3>1. s \subseteq Fun
      BY DEF CallsOf, Next1
    <3> QED
      BY <1>1, <2>1, <3>1 DEF TaskRec
  <2>2. CASE q # p
    BY <1>1, <2>2 DEF TasksOK
  <2> QED
    BY <2>1, <2>2
<1>5. ASSUME NEW q \in Forks, IsNode(q)
      PROVE  /\ Parent(q) \in Forks /\ FunOf(q) \in CallsOf(Parent(q))
             /\ task'[Parent(q)].pc \in {"loop", "wait", "done"}
             /\ task'[q].pc # "done" => task'[Parent(q)].pc # "done"
             /\ ~task'[Parent(q)].isCycle
  <2>1. /\ Parent(q) \in Forks /\ FunOf(q) \in CallsOf(Parent(q))
        /\ task[Parent(q)].pc \in {"loop", "wait", "done"}
        /\ task[q].pc # "done" => task[Parent(q)].pc # "done"
        /\ ~task[Parent(q)].isCycle
    BY <1>5 DEF TasksOK
  <2>2. CASE q = p
    <3>1. Parent(p) \in Forks \ {p}
      BY <1>5, <2>2, TreeFacts
    <3> QED
      BY <1>1, <1>2, <1>5, <2>1, <2>2, <3>1
  <2>3. CASE q # p /\ Parent(q) = p
    BY <1>1, <1>2, <1>5, <2>1, <2>3
  <2>4. CASE q # p /\ Parent(q) # p
    BY <1>1, <2>1, <2>4
  <2> QED
    BY <2>2, <2>3, <2>4
<1>6. ASSUME NEW q \in Forks, ~IsNode(q)
      PROVE  task'[q].pc \notin {"start", "count", "mark"} /\ ~task'[q].isCycle
  BY <1>1, <1>2, <1>6 DEF TasksOK
<1>7. ASSUME NEW q \in Forks
      PROVE  /\ task'[q].todo \subseteq CallsOf(q)
             /\ \A f \in task'[q].todo : Append(q, f) \notin Forks
             /\ task'[q].isCycle => task'[q].pc \in {"count", "done"}
  BY <1>1, <1>2 DEF TasksOK
<1>8. /\ IsFiniteSet(Forks) /\ Forks \subseteq Paths
      /\ \A dir \in Direction : <<dir>> \in Forks
  BY DEF TasksOK
<1> QED
  BY <1>1, <1>3, <1>4, <1>5, <1>6, <1>7, <1>8 DEF TasksOK

\* A goroutine that is started is a new leaf below p.
LEMMA SpawnKeepsTasks ==
  ASSUME TasksOK, NEW p \in Forks, NEW f \in Fun, Spawn(p, f)
  PROVE  TasksOK'
<1> DEFINE n == Append(p, f)
<1>1. /\ task[p].pc = "loop" /\ f \in task[p].todo
      /\ Forks' = Forks \cup {n} /\ n \notin Forks
      /\ task'[p] = [pc |-> "loop", todo |-> task[p].todo \ {f},
                     isCycle |-> task[p].isCycle]
      /\ \A q \in Forks \ {p} : task'[q] = task[q]
      /\ task'[n] = [pc |-> "start", todo |-> {}, isCycle |-> FALSE]
  BY SpawnAdds
<1>2. /\ n \in Paths /\ IsNode(n) /\ Parent(n) = p /\ FunOf(n) = f
  BY TreeFacts, PathExtended
<1> HIDE DEF n
<1>3. /\ task'[p].pc = task[p].pc /\ task'[p].todo = task[p].todo \ {f}
      /\ task'[p].isCycle = task[p].isCycle
      /\ task'[n].pc = "start" /\ task'[n].todo = {} /\ task'[n].isCycle = FALSE
  BY <1>1
<1>4. ~task[p].isCycle /\ task[p] \in TaskRec
  BY <1>1 DEF TasksOK
<1>5. \A q : CallsOf(q)' = CallsOf(q)
  BY DEF Spawn, CallsOf, Next1
<1>6. \A q \in Forks : /\ task'[q].pc = task[q].pc
                       /\ task'[q].isCycle = task[q].isCycle
                       /\ task'[q].todo \subseteq task[q].todo
  BY <1>1, <1>3
<1>7. ASSUME NEW q \in Forks' PROVE task'[q] \in TaskRec
  <2>1. CASE q = n
    <3>1. [pc |-> "start", todo |-> {}, isCycle |-> FALSE] \in TaskRec
      BY DEF TaskRec, PCs
    <3> QED
      BY <1>1, <2>1, <3>1
  <2>2. CASE q = p
    BY <1>1, <1>4, <2>2 DEF TaskRec
  <2>3. CASE q \in Forks \ {p}
    BY <1>1, <2>3 DEF TasksOK
  <2> QED
    BY <1>1, <2>1, <2>2, <2>3
<1>8. ASSUME NEW q \in Forks', IsNode(q)
      PROVE  /\ Parent(q) \in Forks' /\ FunOf(q) \in CallsOf(Parent(q))
             /\ task'[Parent(q)].pc \in {"loop", "wait", "done"}
             /\ task'[q].pc # "done" => task'[Parent(q)].pc # "done"
             /\ ~task'[Parent(q)].isCycle
  <2>1. CASE q = n
    <3>1. f \in CallsOf(p)
      BY <1>1 DEF TasksOK
    <3> QED
      BY <1>1, <1>2, <1>3, <1>4, <2>1, <3>1
  <2>2. CASE q \in Forks
    <3>1. /\ Parent(q) \in Forks /\ FunOf(q) \in CallsOf(Parent(q))
          /\ task[Parent(q)].pc \in {"loop", "wait", "done"}
          /\ task[q].pc # "done" => task[Parent(q)].pc # "done"
          /\ ~task[Parent(q)].isCycle
      BY <1>8, <2>2 DEF TasksOK
    <3> QED
      BY <1>1, <1>6, <2>2, <3>1
  <2> QED
    BY <1>1, <2>1, <2>2
<1>9. ASSUME NEW q \in Forks', ~IsNode(q)
      PROVE  task'[q].pc \notin {"start", "count", "mark"} /\ ~task'[q].isCycle
  BY <1>1, <1>2, <1>6, <1>9 DEF TasksOK
<1>10. ASSUME NEW q \in Forks'
       PROVE  /\ task'[q].todo \subseteq CallsOf(q)
              /\ \A g \in task'[q].todo : Append(q, g) \notin Forks'
              /\ task'[q].isCycle => task'[q].pc \in {"count", "done"}
  <2>1. CASE q = n
    BY <1>3, <2>1
  <2>2. CASE q \in Forks
    <3>1. /\ task[q].todo \subseteq CallsOf(q) /\ q \in Paths
          /\ \A g \in task[q].todo : Append(q, g) \notin Forks
          /\ task[q].isCycle => task[q].pc \in {"count", "done"}
      BY <2>2 DEF TasksOK
    <3>2. ASSUME NEW g \in task'[q].todo, Append(q, g) = n PROVE FALSE
      <4>1. g \in Fun /\ p \in Paths
        BY <1>6, <2>2, <3>1, TreeFacts DEF CallsOf, Next1
      <4>2. q = p /\ g = f
        BY <1>2, <3>1, <3>2, <4>1, PathExtended
      <4> QED
        BY <1>3, <4>2
    <3> QED
      BY <1>1, <1>6, <2>2, <3>1, <3>2
  <2> QED
    BY <1>1, <2>1, <2>2
<1>11. IsFiniteSet(Forks')
  BY <1>1, FS_AddElement DEF TasksOK
<1>12. Forks' \subseteq Paths /\ \A dir \in Direction : <<dir>> \in Forks'
  BY <1>1, <1>2 DEF TasksOK
<1> QED
  BY <1>5, <1>7, <1>8, <1>9, <1>10, <1>11, <1>12 DEF TasksOK

\* Every step keeps the tree.
LEMMA NextTasks == TasksOK /\ [GraphNext]_graphVars => TasksOK'
<1> SUFFICES ASSUME TasksOK, [GraphNext]_graphVars PROVE TasksOK'
  OBVIOUS
<1>1. CASE UNCHANGED <<calls, task>>
  <2>1. Forks' = Forks /\ \A q : CallsOf(q)' = CallsOf(q)
    BY <1>1 DEF Forks, CallsOf, Next1
  <2> QED
    BY <1>1, <2>1 DEF TasksOK
<1>2. ASSUME NEW p \in Forks, Step(p) PROVE TasksOK'
  <2>1. /\ task[p].todo \subseteq CallsOf(p) /\ p \in Paths
        /\ \A f \in task[p].todo : Append(p, f) \notin Forks
        /\ task[p] \in TaskRec /\ task[p].isCycle \in BOOLEAN
        /\ task[p].isCycle => task[p].pc \in {"count", "done"}
    BY DEF TasksOK, TaskRec
  <2>2. /\ IsNode(p) => /\ task[p].pc # "done" => task[Parent(p)].pc # "done"
        /\ ~IsNode(p) => /\ task[p].pc \notin {"start", "count", "mark"}
                         /\ ~task[p].isCycle
    BY DEF TasksOK
  <2>3. /\ task[p].pc \in {"start", "count", "mark", "enter"} =>
             \A q \in Forks : ~(IsNode(q) /\ Parent(q) = p)
    BY TreeFacts
  <2>e. PICK none : /\ none = {} /\ none \subseteq CallsOf(p)
                   /\ \A f \in none : Append(p, f) \notin Forks
    <3>1. PICK s : s = {}
      OBVIOUS
    <3>2. s \subseteq CallsOf(p) /\ \A f \in s : Append(p, f) \notin Forks
      BY <3>1
    <3> QED
      BY <3>1, <3>2, Zenon
  <2>4. calls' = calls
    BY <1>2 DEF Step, EnterCancelled, EnterTooDeep, EnterLimit, Ask, Spawn,
                LoopEnds, Look, Count, Mark, Join
  <2>5. CASE EnterCancelled(p) \/ EnterTooDeep(p) \/ EnterLimit(p)
    <3>1. task[p].pc = "enter" /\ Turn(p, "done", task[p].todo, task[p].isCycle)
      BY <2>5, StepTurns
    <3> QED
      BY <2>1, <2>2, <2>3, <2>4, <3>1, TurnKeepsTasks DEF PCs
  <2>6. CASE Ask(p)
    <3>1. task[p].pc = "enter" /\ task[p].isCycle = FALSE
      BY <2>1, <2>6 DEF Ask
    <3>2. \A f \in CallsOf(p) : Append(p, f) \notin Forks
      BY <2>1, <2>3, <3>1, PathExtended DEF CallsOf, Next1
    <3>3. \/ Turn(p, "done", task[p].todo, FALSE)
          \/ Turn(p, "done", {}, FALSE)
          \/ Turn(p, "loop", CallsOf(p), FALSE)
      BY <2>6, <3>1, StepTurns
    <3>4. CASE Turn(p, "done", task[p].todo, FALSE)
      BY <2>1, <2>3, <2>4, <3>1, <3>4, TurnKeepsTasks DEF PCs
    <3>5. CASE Turn(p, "done", {}, FALSE)
      <4>1. Turn(p, "done", none, FALSE)
        BY <2>e, <3>5
      <4> QED
        BY <2>e, <2>3, <2>4, <3>1, <4>1, TurnKeepsTasks DEF PCs
    <3>6. CASE Turn(p, "loop", CallsOf(p), FALSE)
      BY <2>1, <2>2, <2>3, <2>4, <3>1, <3>2, <3>6, TurnKeepsTasks DEF PCs
    <3> QED
      BY <3>3, <3>4, <3>5, <3>6
  <2>7. ASSUME NEW f \in Fun, Spawn(p, f) PROVE TasksOK'
    BY <2>7, SpawnKeepsTasks
  <2>8. CASE LoopEnds(p)
    <3>1. task[p].pc = "loop" /\ Turn(p, "wait", none, FALSE)
      BY <2>1, <2>e, <2>8, StepTurns
    <3>2. \A q \in Forks : IsNode(q) /\ Parent(q) = p => "wait" # "done"
      OBVIOUS
    <3> QED
      BY <2>e, <2>2, <2>4, <3>1, <3>2, TurnKeepsTasks DEF PCs
  <2>9. CASE Look(p)
    <3>1. /\ IsNode(p) /\ task[p].pc = "start"
          /\ \E b \in BOOLEAN : Turn(p, "count", task[p].todo, b)
      BY <2>9, StepTurns
    <3> QED
      BY <2>1, <2>2, <2>3, <2>4, <3>1, TurnKeepsTasks DEF PCs
  <2>10. CASE Count(p)
    <3>1. /\ task[p].pc = "count"
          /\ task[p].isCycle => Turn(p, "done", task[p].todo, TRUE)
          /\ ~task[p].isCycle => Turn(p, "mark", task[p].todo, FALSE)
      BY <2>10, StepTurns
    <3>2. CASE task[p].isCycle = TRUE
      BY <2>1, <2>2, <2>3, <2>4, <3>1, <3>2, TurnKeepsTasks DEF PCs
    <3>3. CASE task[p].isCycle = FALSE
      BY <2>1, <2>2, <2>3, <2>4, <3>1, <3>3, TurnKeepsTasks DEF PCs
    <3> QED
      BY <2>1, <3>2, <3>3
  <2>11. CASE Mark(p)
    <3>1. task[p].pc = "mark" /\ Turn(p, "enter", task[p].todo, FALSE)
      BY <2>1, <2>11, StepTurns
    <3> QED
      BY <2>1, <2>2, <2>3, <2>4, <3>1, TurnKeepsTasks DEF PCs
  <2>12. CASE Join(p)
    <3>1. task[p].pc = "wait" /\ Turn(p, "done", task[p].todo, FALSE)
      BY <2>1, <2>12, StepTurns
    <3>2. \A q \in Forks : IsNode(q) /\ Parent(q) = p => task[q].pc = "done"
      <4>1. ASSUME NEW q \in Forks, IsNode(q), Parent(q) = p
            PROVE  q \in Children(p)
        <5>1. PICK n \in Nat : n = Len(p) /\ Len(q) = n + 1
          BY <4>1, TreeFacts, PathParted
        <5> QED
          BY <4>1, <5>1 DEF Children, Forks
      <4> QED
        BY <2>12, <4>1 DEF Join
    <3> QED
      BY <2>1, <2>4, <3>1, <3>2, TurnKeepsTasks DEF PCs
  <2> QED
    BY <1>2, <2>5, <2>6, <2>7, <2>8, <2>9, <2>10, <2>11, <2>12 DEF Step
<1>3. CASE Timeout
  BY <1>1, <1>3 DEF Timeout
<1>4. CASE UNCHANGED graphVars
  BY <1>1, <1>4 DEF graphVars
<1> QED
  BY <1>2, <1>3, <1>4 DEF GraphNext, Forks

\* The parameters and the other variables keep their types.
LEMMA NextValues == TasksOK /\ ValuesOK /\ [GraphNext]_graphVars => ValuesOK'
<1> SUFFICES ASSUME TasksOK, ValuesOK, [GraphNext]_graphVars PROVE ValuesOK'
  OBVIOUS
<1>1. CASE UNCHANGED <<calls, depth, maxNodes, visited, maxDepth, entryPoints,
                       truncated, failed>> /\ cancelled' \in BOOLEAN
  BY <1>1 DEF ValuesOK
<1>2. ASSUME NEW p \in Forks, Step(p) PROVE ValuesOK'
  <2>0. /\ UNCHANGED <<calls, depth, maxNodes, cancelled>> /\ p \in Paths
    BY <1>2 DEF TasksOK, Step, EnterCancelled, EnterTooDeep, EnterLimit, Ask,
                Spawn, LoopEnds, Look, Count, Mark, Join
  <2>1. truncated' \in {"no", "timeout", "max_nodes"}
    BY <1>2 DEF ValuesOK, Step, EnterCancelled, EnterTooDeep, EnterLimit, Ask,
                Spawn, LoopEnds, Look, Count, Mark, Join, SetTruncated
  <2>2. failed' \in BOOLEAN
    BY <1>2 DEF ValuesOK, Step, EnterCancelled, EnterTooDeep, EnterLimit, Ask,
                Spawn, LoopEnds, Look, Count, Mark, Join
  <2>3. visited' \subseteq Fun /\ entryPoints' \subseteq Entry
    BY <1>2, <2>0, PathTypes
    DEF ValuesOK, Step, EnterCancelled, EnterTooDeep, EnterLimit, Ask, Spawn,
        LoopEnds, Look, Count, Mark, Join
  <2>4. maxDepth' \in [Direction -> Nat]
    <3>1. CASE Ask(p)
      <4>1. PICK n \in Nat : n = Len(p) /\ Dir(p) \in Direction
        BY <2>0, PathTypes
      <4> QED
        BY <3>1, <4>1 DEF ValuesOK, Ask
    <3>2. CASE maxDepth' = maxDepth
      BY <3>2 DEF ValuesOK
    <3> QED
      BY <1>2, <3>1, <3>2
      DEF Step, EnterCancelled, EnterTooDeep, EnterLimit, Spawn, LoopEnds, Look,
          Count, Mark, Join
  <2> QED
    BY <2>0, <2>1, <2>2, <2>3, <2>4 DEF ValuesOK
<1>3. CASE Timeout
  BY <1>1, <1>3 DEF Timeout
<1>4. CASE UNCHANGED graphVars
  BY <1>1, <1>4 DEF graphVars, ValuesOK
<1> QED
  BY <1>2, <1>3, <1>4 DEF GraphNext, Forks

-----------------------------------------------------------------------------
(* The shared set. *)

\* The steps of p by what they do to its place in the search and to the set.
Works(p) ==
  /\ task[p].pc \in {"enter", "loop", "wait"} /\ task[p].isCycle = FALSE
  /\ \E c \in {"loop", "wait", "done"} : \E s : Turn(p, c, s, FALSE)
  /\ UNCHANGED <<visited, nodeCount>>

Looks(p) ==
  /\ IsNode(p) /\ task[p].pc = "start" /\ task[p].isCycle = FALSE
  /\ \E b \in BOOLEAN : /\ Turn(p, "count", task[p].todo, b)
                        /\ IF FunOf(p) \in visited THEN b = TRUE ELSE b = FALSE
  /\ UNCHANGED <<visited, nodeCount>>

EndsCycle(p) ==
  /\ IsNode(p) /\ task[p].pc = "count" /\ task[p].isCycle = TRUE
  /\ Turn(p, "done", task[p].todo, TRUE)
  /\ visited' = visited /\ nodeCount' = nodeCount + 1

CountsNode(p) ==
  /\ IsNode(p) /\ task[p].pc = "count" /\ task[p].isCycle = FALSE
  /\ Turn(p, "mark", task[p].todo, FALSE)
  /\ visited' = visited /\ nodeCount' = nodeCount + 1

Marks(p) ==
  /\ IsNode(p) /\ task[p].pc = "mark" /\ task[p].isCycle = FALSE
  /\ Turn(p, "enter", task[p].todo, FALSE)
  /\ visited' = visited \cup {FunOf(p)} /\ nodeCount' = nodeCount

LEMMA StepKinds ==
  ASSUME TasksOK, NEW p \in Forks, Step(p)
  PROVE  /\ \/ Works(p) \/ Looks(p) \/ EndsCycle(p) \/ CountsNode(p) \/ Marks(p)
            \/ \E f \in Fun : Spawn(p, f) /\ UNCHANGED <<visited, nodeCount>>
         /\ UNCHANGED <<calls, depth, maxNodes, cancelled>>
<1>1. /\ task[p].isCycle \in BOOLEAN
      /\ task[p].isCycle => task[p].pc \in {"count", "done"}
      /\ ~IsNode(p) => task[p].pc \notin {"start", "count", "mark"}
  BY DEF TasksOK, TaskRec
<1>2. CASE EnterCancelled(p) \/ EnterTooDeep(p) \/ EnterLimit(p)
  <2>1. task[p].pc = "enter" /\ Turn(p, "done", task[p].todo, task[p].isCycle)
    BY <1>2, StepTurns
  <2>2. task[p].isCycle = FALSE
    BY <1>1, <2>1
  <2>3. UNCHANGED <<visited, nodeCount, calls, depth, maxNodes, cancelled>>
    BY <1>2 DEF EnterCancelled, EnterTooDeep, EnterLimit
  <2> QED
    BY <2>1, <2>2, <2>3 DEF Works
<1>3. CASE Ask(p)
  <2>1. task[p].pc = "enter"
    BY <1>3, StepTurns
  <2>2. task[p].isCycle = FALSE
    BY <1>1, <2>1
  <2>3. UNCHANGED <<visited, nodeCount, calls, depth, maxNodes, cancelled>>
    BY <1>3 DEF Ask
  <2>4. \E c \in {"loop", "wait", "done"} : \E s : Turn(p, c, s, FALSE)
    BY <1>3, <2>2, StepTurns
  <2> QED
    BY <2>1, <2>2, <2>3, <2>4 DEF Works
<1>4. CASE LoopEnds(p)
  <2>1. task[p].pc = "loop" /\ Turn(p, "wait", {}, task[p].isCycle)
    BY <1>4, StepTurns
  <2>2. task[p].isCycle = FALSE
    BY <1>1, <2>1
  <2>3. UNCHANGED <<visited, nodeCount, calls, depth, maxNodes, cancelled>>
    BY <1>4 DEF LoopEnds
  <2> QED
    BY <2>1, <2>2, <2>3 DEF Works
<1>5. CASE Join(p)
  <2>1. task[p].pc = "wait" /\ Turn(p, "done", task[p].todo, task[p].isCycle)
    BY <1>5, StepTurns
  <2>2. task[p].isCycle = FALSE
    BY <1>1, <2>1
  <2>3. UNCHANGED <<visited, nodeCount, calls, depth, maxNodes, cancelled>>
    BY <1>5 DEF Join
  <2> QED
    BY <2>1, <2>2, <2>3 DEF Works
<1>6. CASE Look(p)
  <2>1. /\ IsNode(p) /\ task[p].pc = "start"
        /\ FunOf(p) \in visited => Turn(p, "count", task[p].todo, TRUE)
        /\ FunOf(p) \notin visited => Turn(p, "count", task[p].todo, FALSE)
    BY <1>6, StepTurns
  <2>2. task[p].isCycle = FALSE
    BY <1>1, <2>1
  <2>3. UNCHANGED <<visited, nodeCount, calls, depth, maxNodes, cancelled>>
    BY <1>6 DEF Look
  <2>4. \E b \in BOOLEAN : /\ Turn(p, "count", task[p].todo, b)
                           /\ IF FunOf(p) \in visited THEN b = TRUE ELSE b = FALSE
    BY <2>1
  <2> QED
    BY <2>1, <2>2, <2>3, <2>4 DEF Looks
<1>7. CASE Count(p)
  <2>1. /\ task[p].pc = "count" /\ IsNode(p)
        /\ task[p].isCycle => Turn(p, "done", task[p].todo, TRUE)
        /\ ~task[p].isCycle => Turn(p, "mark", task[p].todo, FALSE)
    BY <1>1, <1>7, StepTurns
  <2>2. /\ UNCHANGED <<visited, calls, depth, maxNodes, cancelled>>
        /\ nodeCount' = nodeCount + 1
    BY <1>7 DEF Count
  <2>3. CASE task[p].isCycle = TRUE
    BY <2>1, <2>2, <2>3 DEF EndsCycle
  <2>4. CASE task[p].isCycle = FALSE
    BY <2>1, <2>2, <2>4 DEF CountsNode
  <2> QED
    BY <1>1, <2>3, <2>4
<1>8. CASE Mark(p)
  <2>1. task[p].pc = "mark" /\ Turn(p, "enter", task[p].todo, task[p].isCycle)
    BY <1>8, StepTurns
  <2>2. task[p].isCycle = FALSE /\ IsNode(p)
    BY <1>1, <2>1
  <2>3. /\ UNCHANGED <<nodeCount, calls, depth, maxNodes, cancelled>>
        /\ visited' = visited \cup {FunOf(p)}
    BY <1>8 DEF Mark
  <2> QED
    BY <2>1, <2>2, <2>3 DEF Marks
<1>9. ASSUME NEW f \in Fun, Spawn(p, f)
      PROVE  UNCHANGED <<visited, nodeCount, calls, depth, maxNodes, cancelled>>
  BY <1>9 DEF Spawn
<1> QED
  BY <1>2, <1>3, <1>4, <1>5, <1>6, <1>7, <1>8, <1>9 DEF Step

\* A step only adds tasks and visited functions; a node that is expanded stays
\* so, and one that has found a cycle too.
LEMMA NothingLost ==
  ASSUME TasksOK, NEW p \in Forks, Step(p)
  PROVE  /\ Forks \subseteq Forks' /\ visited \subseteq visited'
         /\ \A q \in Forks :
              /\ q # p => task'[q] = task[q]
              /\ Expanded(q) => Expanded(q)' /\ task'[q].pc # "start"
              /\ Marked(q) => Marked(q)'
              /\ task[q].isCycle => task'[q].isCycle
         /\ \A q \in Forks' \ Forks : /\ ~Expanded(q)' /\ ~task'[q].isCycle
                                      /\ task'[q].pc = "start"
<1>1. ASSUME NEW c, NEW s, NEW b \in BOOLEAN, Turn(p, c, s, b)
      PROVE  /\ Forks' = Forks /\ task'[p].pc = c /\ task'[p].isCycle = b
             /\ \A q \in Forks : q # p => task'[q] = task[q]
  BY <1>1 DEF Turn
<1>2. CASE Works(p)
  <2>1. PICK c \in {"loop", "wait", "done"} : \E s : Turn(p, c, s, FALSE)
    BY <1>2 DEF Works
  <2>2. /\ Forks' = Forks /\ task'[p].pc = c /\ task'[p].isCycle = FALSE
        /\ \A q \in Forks : q # p => task'[q] = task[q]
    BY <1>1, <2>1
  <2> QED
    BY <1>2, <2>2 DEF Works, Expanded, Marked
<1>3. CASE Looks(p)
  <2>1. PICK b \in BOOLEAN : Turn(p, "count", task[p].todo, b)
    BY <1>3 DEF Looks
  <2>2. /\ Forks' = Forks /\ task'[p].pc = "count"
        /\ \A q \in Forks : q # p => task'[q] = task[q]
    BY <1>1, <2>1
  <2> QED
    BY <1>3, <2>2 DEF Looks, Expanded, Marked
<1>4. CASE EndsCycle(p)
  <2>2. /\ Forks' = Forks /\ task'[p].pc = "done" /\ task'[p].isCycle = TRUE
        /\ \A q \in Forks : q # p => task'[q] = task[q]
    BY <1>1, <1>4 DEF EndsCycle
  <2> QED
    BY <1>4, <2>2 DEF EndsCycle, Expanded, Marked
<1>5. CASE CountsNode(p)
  <2>2. /\ Forks' = Forks /\ task'[p].pc = "mark" /\ task'[p].isCycle = FALSE
        /\ \A q \in Forks : q # p => task'[q] = task[q]
    BY <1>1, <1>5 DEF CountsNode
  <2> QED
    BY <1>5, <2>2 DEF CountsNode, Expanded, Marked
<1>6. CASE Marks(p)
  <2>2. /\ Forks' = Forks /\ task'[p].pc = "enter" /\ task'[p].isCycle = FALSE
        /\ \A q \in Forks : q # p => task'[q] = task[q]
    BY <1>1, <1>6 DEF Marks
  <2> QED
    BY <1>6, <2>2 DEF Marks, Expanded, Marked
<1>7. ASSUME NEW f \in Fun, Spawn(p, f), visited' = visited
      PROVE  /\ Forks \subseteq Forks' /\ visited \subseteq visited'
             /\ \A q \in Forks :
                  /\ q # p => task'[q] = task[q]
                  /\ Expanded(q) => Expanded(q)' /\ task'[q].pc # "start"
                  /\ Marked(q) => Marked(q)'
                  /\ task[q].isCycle => task'[q].isCycle
             /\ \A q \in Forks' \ Forks : /\ ~Expanded(q)' /\ ~task'[q].isCycle
                                          /\ task'[q].pc = "start"
  <2>1. /\ task[p].pc = "loop"
        /\ Forks' = Forks \cup {Append(p, f)}
        /\ task'[p] = [pc |-> "loop", todo |-> task[p].todo \ {f},
                       isCycle |-> task[p].isCycle]
        /\ \A q \in Forks \ {p} : task'[q] = task[q]
        /\ task'[Append(p, f)] = [pc |-> "start", todo |-> {}, isCycle |-> FALSE]
    BY <1>7, SpawnAdds
  <2>2. /\ task'[p].pc = "loop" /\ task'[p].isCycle = task[p].isCycle
        /\ task'[Append(p, f)].pc = "start"
        /\ task'[Append(p, f)].isCycle = FALSE
    BY <2>1
  <2> QED
    BY <1>7, <2>1, <2>2 DEF Expanded, Marked
<1> QED
  BY <1>2, <1>3, <1>4, <1>5, <1>6, <1>7, StepKinds

\* Every step keeps the shared set in agreement with the nodes.
LEMMA NextVisited ==
  TasksOK /\ VisitedOK /\ [GraphNext]_graphVars => VisitedOK'
<1> SUFFICES ASSUME TasksOK, VisitedOK, [GraphNext]_graphVars
             PROVE  VisitedOK'
  OBVIOUS
<1>1. CASE UNCHANGED <<task, visited>>
  BY <1>1 DEF VisitedOK, Forks, Marked, Expanded
<1>2. ASSUME NEW p \in Forks, Step(p) PROVE VisitedOK'
  <2>1. /\ Forks \subseteq Forks' /\ visited \subseteq visited'
        /\ \A q \in Forks : /\ q # p => task'[q] = task[q]
                            /\ Expanded(q) => Expanded(q)'
        /\ \A q \in Forks' \ Forks : ~Expanded(q)' /\ ~task'[q].isCycle
    BY <1>2, NothingLost
  <2>2. ASSUME Marked(p)' PROVE FunOf(p) \in visited'
    <3>1. CASE Works(p)
      <4>1. Marked(p)
        BY <2>2, <3>1 DEF Marked, Expanded, Works
      <4> QED
        BY <2>1, <4>1 DEF VisitedOK
    <3>2. CASE Looks(p)
      <4>1. PICK b \in BOOLEAN : Turn(p, "count", task[p].todo, b)
        BY <3>2 DEF Looks
      <4>2. task'[p].pc = "count"
        BY <4>1 DEF Turn
      <4> QED
        BY <2>2, <4>2 DEF Marked, Expanded
    <3>3. CASE EndsCycle(p)
      <4>1. task'[p].isCycle = TRUE
        BY <3>3 DEF EndsCycle, Turn
      <4> QED
        BY <2>2, <4>1 DEF Marked, Expanded
    <3>4. CASE CountsNode(p)
      <4>1. task'[p].pc = "mark"
        BY <3>4 DEF CountsNode, Turn
      <4> QED
        BY <2>2, <4>1 DEF Marked
    <3>5. CASE Marks(p)
      BY <3>5 DEF Marks
    <3>6. ASSUME NEW f \in Fun, Spawn(p, f) PROVE FunOf(p) \in visited'
      <4>1. task[p].pc = "loop" /\ task[p].isCycle = FALSE
        BY <3>6, SpawnAdds DEF TasksOK, TaskRec
      <4>2. Marked(p)
        BY <2>2, <4>1 DEF Marked, Expanded
      <4> QED
        BY <2>1, <4>2 DEF VisitedOK
    <3> QED
      BY <1>2, <3>1, <3>2, <3>3, <3>4, <3>5, <3>6, StepKinds
  <2>3. ASSUME NEW q \in Forks', Marked(q)' PROVE FunOf(q) \in visited'
    <3>1. q \in Forks
      BY <2>1, <2>3 DEF Marked
    <3>2. CASE q # p
      <4>1. Marked(q)
        BY <2>1, <2>3, <3>1, <3>2 DEF Marked, Expanded
      <4> QED
        BY <2>1, <3>1, <4>1 DEF VisitedOK
    <3> QED
      BY <2>2, <2>3, <3>2
  <2>4. \/ visited' = visited
        \/ /\ visited' = visited \cup {FunOf(p)} /\ Expanded(p)'
    <3>1. CASE Marks(p)
      <4>1. task'[p].pc = "enter" /\ task'[p].isCycle = FALSE
        BY <3>1 DEF Marks, Turn
      <4> QED
        BY <3>1, <4>1 DEF Marks, Expanded
    <3> QED
      BY <1>2, <3>1, StepKinds DEF Works, Looks, EndsCycle, CountsNode
  <2>5. ASSUME NEW f \in visited'
        PROVE  \E q \in Forks' : Expanded(q)' /\ FunOf(q) = f
    <3>1. CASE f \in visited
      <4>1. PICK q \in Forks : Expanded(q) /\ FunOf(q) = f
        BY <3>1 DEF VisitedOK
      <4> QED
        BY <2>1, <4>1
    <3>2. CASE f \notin visited
      BY <2>1, <2>4, <2>5, <3>2
    <3> QED
      BY <3>1, <3>2
  <2>6. ASSUME task'[p].isCycle PROVE task[p].isCycle \/ FunOf(p) \in visited
    <3>1. CASE Looks(p)
      <4>1. PICK b \in BOOLEAN :
                 /\ Turn(p, "count", task[p].todo, b)
                 /\ IF FunOf(p) \in visited THEN b = TRUE ELSE b = FALSE
        BY <3>1 DEF Looks
      <4>2. task'[p].isCycle = b
        BY <4>1 DEF Turn
      <4> QED
        BY <2>6, <4>1, <4>2
    <3>2. CASE EndsCycle(p)
      BY <3>2 DEF EndsCycle
    <3>3. CASE Works(p) \/ CountsNode(p) \/ Marks(p)
      <4>1. PICK c, s : Turn(p, c, s, FALSE)
        BY <3>3 DEF Works, CountsNode, Marks
      <4>2. task'[p] = [pc |-> c, todo |-> s, isCycle |-> FALSE]
        BY <4>1 DEF Turn
      <4> QED
        BY <2>6, <4>2
    <3>4. ASSUME NEW f \in Fun, Spawn(p, f) PROVE task[p].isCycle
      <4>0. task'[p] = [pc |-> "loop", todo |-> task[p].todo \ {f},
                        isCycle |-> task[p].isCycle]
        BY <3>4, SpawnAdds
      <4>1. task'[p].isCycle = task[p].isCycle
        BY <4>0
      <4> QED
        BY <2>6, <4>1
    <3> QED
      BY <1>2, <3>1, <3>2, <3>3, <3>4, StepKinds
  <2>7. ASSUME NEW q \in Forks', task'[q].isCycle PROVE FunOf(q) \in visited'
    BY <2>1, <2>6, <2>7 DEF VisitedOK
  <2> QED
    BY <2>3, <2>5, <2>7 DEF VisitedOK
<1>3. CASE Timeout
  BY <1>1, <1>3 DEF Timeout
<1>4. CASE UNCHANGED graphVars
  BY <1>1, <1>4 DEF graphVars
<1> QED
  BY <1>2, <1>3, <1>4 DEF GraphNext, Forks

-----------------------------------------------------------------------------
(* The ways to the nodes. *)

\* A node that is looked up sees the functions on its way in the set.
LEMMA NextWays ==
  TasksOK /\ VisitedOK /\ WaysOK /\ [GraphNext]_graphVars => WaysOK'
<1> SUFFICES ASSUME TasksOK, VisitedOK, WaysOK, [GraphNext]_graphVars
             PROVE  WaysOK'
  OBVIOUS
<1> DEFINE Way(q, V) == /\ \A i \in 2 .. Len(q) - 1 : q[i] \in V
                        /\ \A i, j \in 2 .. Len(q) - 1 : q[i] = q[j] => i = j
           Apart(q)  == \A i \in 2 .. Len(q) - 1 : q[i] # FunOf(q)
<1>0. \A q \in Forks : Way(q, visited) /\ (Original(q) => Apart(q))
  BY DEF WaysOK
<1>1. CASE UNCHANGED <<task, visited>>
  BY <1>1 DEF WaysOK, Forks, Original
<1>2. ASSUME NEW p \in Forks, Step(p) PROVE WaysOK'
  <2>1. /\ Forks \subseteq Forks' /\ visited \subseteq visited'
        /\ \A q \in Forks : q # p => task'[q] = task[q]
        /\ \A q \in Forks' \ Forks : task'[q].pc = "start"
    BY <1>2, NothingLost
  <2>2. ASSUME NEW q \in Forks' PROVE Way(q, visited')
    <3>1. CASE q \in Forks
      BY <1>0, <2>1, <3>1
    <3>2. CASE q \notin Forks
      <4>1. PICK f \in Fun : Spawn(p, f) /\ visited' = visited
        BY <1>2, <2>2, <3>2, StepKinds
        DEF Works, Looks, EndsCycle, CountsNode, Marks, Turn
      <4>2. q = Append(p, f) /\ task[p].pc = "loop"
        BY <2>2, <3>2, <4>1, SpawnAdds
      <4>3. p \in Paths /\ ~task[p].isCycle
        BY <4>2 DEF TasksOK
      <4>4. PICK n \in Nat : n = Len(p) /\ Len(q) = n + 1
        BY <4>2, <4>3, PathExtended, PathTypes
      <4>5. \A i \in 1 .. n : q[i] = p[i]
        BY <4>2, <4>3, <4>4, PathExtended
      <4>6. n > 1 => /\ p[n] = FunOf(p) /\ FunOf(p) \in visited
                     /\ Original(p)
        BY <4>2, <4>3, <4>4, PathParted
        DEF VisitedOK, Marked, Expanded, Original, IsNode
      <4>7. ASSUME NEW i \in 2 .. n PROVE q[i] \in visited
        <5>1. q[i] = p[i]
          BY <4>5
        <5>2. CASE i = n
          BY <4>6, <5>1, <5>2
        <5>3. CASE i \in 2 .. n - 1
          BY <1>0, <4>4, <5>1, <5>3
        <5> QED
          BY <5>2, <5>3
      <4>8. ASSUME NEW i \in 2 .. n, NEW j \in 2 .. n, q[i] = q[j]
            PROVE  i = j
        <5>1. p[i] = p[j]
          BY <4>5, <4>8
        <5>2. CASE i = n /\ j \in 2 .. n - 1
          BY <1>0, <4>4, <4>6, <5>1, <5>2
        <5>3. CASE j = n /\ i \in 2 .. n - 1
          BY <1>0, <4>4, <4>6, <5>1, <5>3
        <5>4. CASE i \in 2 .. n - 1 /\ j \in 2 .. n - 1
          BY <1>0, <4>4, <5>1, <5>4
        <5> QED
          BY <5>2, <5>3, <5>4
      <4>9. 2 .. Len(q) - 1 = 2 .. n
        BY <4>4
      <4> QED
        BY <4>1, <4>7, <4>8, <4>9
    <3> QED
      BY <3>1, <3>2
  <2>3. ASSUME Original(p)' PROVE Apart(p)
    <3>1. CASE Looks(p)
      <4>1. PICK b \in BOOLEAN :
                 /\ Turn(p, "count", task[p].todo, b)
                 /\ IF FunOf(p) \in visited THEN b = TRUE ELSE b = FALSE
        BY <3>1 DEF Looks
      <4>2. task'[p].isCycle = b
        BY <4>1 DEF Turn
      <4>3. FunOf(p) \notin visited
        BY <2>3, <4>1, <4>2 DEF Original
      <4> QED
        BY <1>0, <4>3
    <3>2. CASE EndsCycle(p)
      <4>1. task'[p].isCycle = TRUE
        BY <3>2 DEF EndsCycle, Turn
      <4> QED
        BY <2>3, <4>1 DEF Original
    <3>3. CASE Works(p) \/ CountsNode(p) \/ Marks(p)
      <4>1. Original(p)
        BY <2>3, <3>3 DEF Works, CountsNode, Marks, Original
      <4> QED
        BY <1>0, <4>1
    <3>4. ASSUME NEW f \in Fun, Spawn(p, f) PROVE Apart(p)
      <4>1. task[p].pc = "loop" /\ task[p].isCycle = FALSE
        BY <3>4, SpawnAdds DEF TasksOK, TaskRec
      <4>2. Original(p)
        BY <2>3, <4>1 DEF Original
      <4> QED
        BY <1>0, <4>2
    <3> QED
      BY <1>2, <3>1, <3>2, <3>3, <3>4, StepKinds
  <2>4. ASSUME NEW q \in Forks', Original(q)' PROVE Apart(q)
    <3>1. q \in Forks
      BY <2>1, <2>4 DEF Original
    <3>2. CASE q # p
      <4>1. Original(q)
        BY <2>1, <2>4, <3>1, <3>2 DEF Original
      <4> QED
        BY <1>0, <3>1, <4>1
    <3> QED
      BY <2>3, <2>4, <3>2
  <2> QED
    BY <2>2, <2>4 DEF WaysOK
<1>3. CASE Timeout
  BY <1>1, <1>3 DEF Timeout
<1>4. CASE UNCHANGED graphVars
  BY <1>1, <1>4 DEF graphVars
<1> QED
  BY <1>2, <1>3, <1>4 DEF GraphNext, Forks

\* What the functions reached call is reached.
LEMMA ReachedOn ==
  ASSUME NEW dir \in Direction
  PROVE  /\ Next1(dir, Root) \subseteq Transitive(dir)
         /\ \A f \in Transitive(dir) : Next1(dir, f) \subseteq Transitive(dir)
         /\ Transitive(dir) \subseteq Fun
<1>1. \A f : Next1(dir, f) \subseteq Fun
  BY DEF Next1
<1>2. \A X : ClosedBeside(dir, {}, X) <=>
               /\ Next1(dir, Root) \subseteq X
               /\ \A f \in X : Next1(dir, f) \subseteq X
  BY DEF ClosedBeside
<1> QED
  BY <1>1, <1>2 DEF Transitive, ReachedIn

\* The call that adds a node leads on from what is reached.
LEMMA NextReaches ==
  TasksOK /\ Reaches /\ [GraphNext]_graphVars => Reaches'
<1> SUFFICES ASSUME TasksOK, Reaches, [GraphNext]_graphVars PROVE Reaches'
  OBVIOUS
<1>0. ASSUME calls' = calls PROVE \A dir : Transitive(dir)' = Transitive(dir)
  BY <1>0 DEF Transitive, ReachedIn, ClosedBeside, Next1
<1>1. CASE UNCHANGED <<calls, task>>
  BY <1>0, <1>1 DEF Reaches, Forks
<1>2. ASSUME NEW p \in Forks, Step(p) PROVE Reaches'
  <2>1. \A dir : Transitive(dir)' = Transitive(dir)
    BY <1>0, <1>2, StepKinds
  <2>2. ASSUME NEW q \in Forks', IsNode(q)
        PROVE  FunOf(q) \in Transitive(Dir(q))
    <3>1. CASE q \in Forks
      BY <2>2, <3>1 DEF Reaches
    <3>2. CASE q \notin Forks
      <4>1. PICK f \in Fun : Spawn(p, f)
        BY <1>2, <2>2, <3>2, StepKinds
        DEF Works, Looks, EndsCycle, CountsNode, Marks, Turn
      <4>a. q = Append(p, f) /\ f \in task[p].todo
        BY <2>2, <3>2, <4>1, SpawnAdds
      <4>2. /\ q = Append(p, f) /\ f \in CallsOf(p) /\ p \in Paths
        BY <4>a DEF TasksOK
      <4>3. FunOf(q) = f /\ Dir(q) = Dir(p) /\ Dir(p) \in Direction
        BY <4>2, PathExtended, PathTypes
      <4>4. CASE IsNode(p)
        <5>1. FunOf(p) \in Transitive(Dir(p))
          BY <4>4 DEF Reaches
        <5> QED
          BY <4>2, <4>3, <5>1, ReachedOn DEF CallsOf
      <4>5. CASE ~IsNode(p)
        <5>1. FunOf(p) = Root
          BY <4>2, <4>5, PathTypes
        <5> QED
          BY <4>2, <4>3, <5>1, ReachedOn DEF CallsOf
      <4> QED
        BY <4>4, <4>5
    <3> QED
      BY <3>1, <3>2
  <2> QED
    BY <2>1, <2>2 DEF Reaches
<1>3. CASE Timeout
  BY <1>1, <1>3 DEF Timeout
<1>4. CASE UNCHANGED graphVars
  BY <1>1, <1>4 DEF graphVars
<1> QED
  BY <1>2, <1>3, <1>4 DEF GraphNext, Forks

-----------------------------------------------------------------------------
(* Completeness: what ends early says so. *)

Heirs(p) == {g \in Fun : Append(p, g) \in Forks}

LEMMA NextComplete ==
  TasksOK /\ ValuesOK /\ CompleteOK /\ [GraphNext]_graphVars => CompleteOK'
<1> SUFFICES ASSUME TasksOK, ValuesOK, CompleteOK, [GraphNext]_graphVars,
                    truncated' = "no", failed' = FALSE
             PROVE  \A q \in Forks' :
                      task'[q].pc \in {"loop", "wait", "done"} /\ ~task'[q].isCycle
                        /\ Len(q) <= depth'[Dir(q)] =>
                        CallsOf(q)' \subseteq task'[q].todo \cup Heirs(q)'
  <2>2. TasksOK /\ ValuesOK /\ [GraphNext]_graphVars => failed' \in BOOLEAN
    BY NextValues DEF ValuesOK
  <2> QED
    BY <2>2 DEF CompleteOK, Heirs
<1> DEFINE Has(q) == task[q].pc \in {"loop", "wait", "done"} /\ ~task[q].isCycle
                       /\ Len(q) <= depth[Dir(q)] =>
                       CallsOf(q) \subseteq task[q].todo \cup Heirs(q)
<1>0. ASSUME truncated = "no", failed = FALSE PROVE \A q \in Forks : Has(q)
  BY <1>0 DEF CompleteOK, Heirs
<1>1. CASE UNCHANGED <<calls, depth, task, truncated, failed>>
  BY <1>0, <1>1 DEF Heirs, CallsOf, Next1, Forks
<1>2. ASSUME NEW p \in Forks, Step(p), NEW q \in Forks',
             task'[q].pc \in {"loop", "wait", "done"}, ~task'[q].isCycle,
             Len(q) <= depth'[Dir(q)]
      PROVE  CallsOf(q)' \subseteq task'[q].todo \cup Heirs(q)'
  <2>0. truncated = "no" /\ failed = FALSE
    BY <1>2 DEF ValuesOK, Step, EnterCancelled, EnterTooDeep, EnterLimit, Ask,
                Spawn, LoopEnds, Look, Count, Mark, Join, SetTruncated
  <2>1. /\ Forks \subseteq Forks'
        /\ \A r \in Forks : r # p => task'[r] = task[r]
        /\ \A r \in Forks' \ Forks : task'[r].pc = "start"
    BY <1>2, NothingLost
  <2>2. /\ \A r : CallsOf(r)' = CallsOf(r) /\ Heirs(r) \subseteq Heirs(r)'
        /\ depth' = depth
    BY <1>2, <2>1, StepKinds DEF CallsOf, Next1, Heirs
  <2>3. q \in Forks
    BY <1>2, <2>1
  <2>4. CASE q # p
    BY <1>0, <1>2, <2>0, <2>1, <2>2, <2>3, <2>4
  <2>5. CASE q = p
    <3>t. \A c, s, b : Turn(p, c, s, b) =>
            task'[p].pc = c /\ task'[p].todo = s /\ task'[p].isCycle = b
      BY DEF Turn
    <3>1. CASE EnterCancelled(p) \/ EnterLimit(p)
      BY <2>0, <3>1 DEF EnterCancelled, EnterLimit, SetTruncated
    <3>2. CASE EnterTooDeep(p)
      <4>1. PICK n \in Nat : n = Len(p)
        BY PathTypes DEF TasksOK
      <4>2. depth[Dir(p)] \in Int
        BY PathTypes DEF TasksOK, ValuesOK
      <4> QED
        BY <1>2, <2>2, <2>5, <3>2, <4>1, <4>2 DEF EnterTooDeep
    <3>3. CASE Ask(p)
      <4>1. \/ failed' = TRUE \/ CallsOf(p) = {} \/ task'[p].todo = CallsOf(p)
        BY <3>3, <3>t, StepTurns
      <4> QED
        BY <2>2, <2>5, <4>1
    <3>4. ASSUME NEW f \in Fun, Spawn(p, f)
          PROVE  CallsOf(p)' \subseteq task'[p].todo \cup Heirs(p)'
      <4>1. /\ task[p].pc = "loop" /\ Append(p, f) \in Forks'
            /\ task'[p] = [pc |-> "loop", todo |-> task[p].todo \ {f},
                           isCycle |-> task[p].isCycle]
        BY <3>4, SpawnAdds
      <4>2. /\ task'[p].todo = task[p].todo \ {f}
            /\ task'[p].isCycle = task[p].isCycle
        BY <4>1
      <4>3. CallsOf(p) \subseteq task[p].todo \cup Heirs(p)
        BY <1>0, <1>2, <2>0, <2>2, <2>3, <2>5, <4>1, <4>2
      <4>4. f \in Heirs(p)'
        BY <4>1 DEF Heirs
      <4> QED
        BY <2>2, <4>2, <4>3, <4>4
    <3>5. CASE LoopEnds(p)
      <4>1. task[p].todo = {} /\ task[p].pc = "loop"
        BY <2>0, <3>5 DEF LoopEnds, SetTruncated
      <4>2. Turn(p, "wait", {}, task[p].isCycle)
        BY <3>5, StepTurns
      <4>3. task'[p].isCycle = task[p].isCycle
        BY <3>t, <4>2
      <4>4. CallsOf(p) \subseteq task[p].todo \cup Heirs(p)
        BY <1>0, <1>2, <2>0, <2>2, <2>3, <2>5, <4>1, <4>3
      <4> QED
        BY <2>2, <2>5, <4>1, <4>4
    <3>6. CASE Join(p)
      <4>1. task[p].pc = "wait" /\ Turn(p, "done", task[p].todo, task[p].isCycle)
        BY <3>6, StepTurns
      <4>2. task'[p].isCycle = task[p].isCycle /\ task'[p].todo = task[p].todo
        BY <3>t, <4>1
      <4>3. CallsOf(p) \subseteq task[p].todo \cup Heirs(p)
        BY <1>0, <1>2, <2>0, <2>2, <2>3, <2>5, <4>1, <4>2
      <4> QED
        BY <2>2, <2>5, <4>2, <4>3
    <3>7. CASE Look(p)
      <4>1. task'[p].pc = "count"
        BY <3>7, <3>t, StepTurns
      <4> QED
        BY <1>2, <2>5, <4>1
    <3>8. CASE Count(p)
      <4>1. task'[p].pc = "mark" \/ task'[p].isCycle = TRUE
        BY <3>8, <3>t, StepTurns
      <4> QED
        BY <1>2, <2>5, <4>1
    <3>9. CASE Mark(p)
      <4>1. task'[p].pc = "enter"
        BY <3>9, <3>t, StepTurns
      <4> QED
        BY <1>2, <2>5, <4>1
    <3> QED
      BY <1>2, <2>5, <3>1, <3>2, <3>3, <3>4, <3>5, <3>6, <3>7, <3>8, <3>9
      DEF Step
  <2> QED
    BY <2>4, <2>5
<1>3. CASE Timeout
  BY <1>1, <1>3 DEF Timeout
<1>4. CASE UNCHANGED graphVars
  BY <1>1, <1>4 DEF graphVars
<1> QED
  BY <1>2, <1>3, <1>4 DEF GraphNext, Forks

-----------------------------------------------------------------------------
(* The limit of nodes. *)

\* Only the request of p itself makes p one of the tasks that got calls.
LEMMA AskedGrows ==
  ASSUME TasksOK, TasksOK', NEW p \in Forks, Step(p),
         NEW q \in Forks', Heard(q)'
  PROVE  q \in Forks /\ (Heard(q) \/ (q = p /\ Ask(p)))
<1>1. /\ Forks \subseteq Forks'
      /\ \A r \in Forks : r # p => task'[r] = task[r]
      /\ \A r \in Forks' \ Forks : task'[r].pc = "start"
  BY NothingLost
<1>2. ASSUME NEW r \in Forks' \ Forks, IsNode(r)
      PROVE  Parent(r) = p /\ task[p].pc = "loop"
  <2>1. PICK f \in Fun : Spawn(p, f)
    BY <1>2, StepKinds DEF Works, Looks, EndsCycle, CountsNode, Marks, Turn
  <2>2. r = Append(p, f) /\ task[p].pc = "loop"
    BY <1>2, <2>1, SpawnAdds
  <2> QED
    BY <2>1, <2>2, PathExtended DEF TasksOK
<1>3. task'[q].pc \in {"loop", "wait"} \/ \E r \in Forks' : IsNode(r) /\ Parent(r) = q
  BY DEF Heard
<1>4. q \in Forks
  <2>1. CASE q \notin Forks
    <3>1. task'[q].pc = "start"
      BY <1>1, <2>1
    <3>2. PICK r \in Forks' : IsNode(r) /\ Parent(r) = q
      BY <1>3, <3>1
    <3>3. task'[q].pc \in {"loop", "wait", "done"}
      BY <3>2 DEF TasksOK
    <3> QED
      BY <3>1, <3>3
  <2> QED
    BY <2>1
<1>5. CASE q # p
  <2>1. task'[q] = task[q]
    BY <1>1, <1>4, <1>5
  <2>2. ASSUME NEW r \in Forks', IsNode(r), Parent(r) = q PROVE r \in Forks
    BY <1>2, <1>5, <2>2
  <2> QED
    BY <1>3, <1>4, <2>1, <2>2 DEF Heard
<1>6. CASE q = p /\ ~Ask(p)
  <2>1. CASE task[p].pc \in {"loop", "wait"}
    BY <1>6, <2>1 DEF Heard
  <2>2. CASE task[p].pc \notin {"loop", "wait"}
    <3>1. \A r \in Forks' : IsNode(r) /\ Parent(r) = p => r \in Forks
      BY <1>2, <2>2
    <3>t. \A c, s, b : Turn(p, c, s, b) => task'[p].pc = c
      BY DEF Turn
    <3>2. CASE EnterCancelled(p) \/ EnterTooDeep(p) \/ EnterLimit(p)
      <4>1. task'[p].pc = "done"
        BY <3>2, <3>t, StepTurns
      <4> QED
        BY <1>3, <1>6, <3>1, <4>1 DEF Heard
    <3>3. CASE Look(p) \/ Count(p) \/ Mark(p)
      <4>1. task'[p].pc \in {"count", "mark", "done", "enter"}
        <5>1. CASE Look(p)
          BY <3>t, <5>1, StepTurns
        <5>2. CASE Count(p)
          BY <3>t, <5>2, StepTurns
        <5>3. CASE Mark(p)
          BY <3>t, <5>3, StepTurns
        <5> QED
          BY <3>3, <5>1, <5>2, <5>3
      <4> QED
        BY <1>3, <1>6, <3>1, <4>1 DEF Heard
    <3> QED
      BY <1>6, <2>2, <3>2, <3>3 DEF Step, Spawn, LoopEnds, Join
  <2> QED
    BY <2>1, <2>2
<1> QED
  BY <1>4, <1>5, <1>6

\* Who got calls was counted, and who is about to ask was counted and got none.
LEMMA AskedCounted ==
  ASSUME TasksOK
  PROVE  /\ IsFiniteSet(Counted) /\ AskedNodes \subseteq Counted
         /\ \A p \in Forks : task[p].pc = "enter" => ~Heard(p)
         /\ Cardinality(Counted) \in Nat
<1>1. ASSUME NEW p \in Forks, Heard(p)
      PROVE  task[p].pc \in {"loop", "wait", "done"}
  BY <1>1 DEF Heard, TasksOK
<1>2. AskedNodes \subseteq Counted
  BY <1>1 DEF AskedNodes, Counted
<1>3. IsFiniteSet(Counted)
  BY FS_Subset DEF Counted, TasksOK
<1> QED
  BY <1>1, <1>2, <1>3, FS_CardinalityType

\* The number of nodes is that of the tasks that counted one, and who asks
\* finds it below the limit.
LEMMA NextCounts ==
  TasksOK /\ TasksOK' /\ ValuesOK /\ CountsOK /\ [GraphNext]_graphVars => CountsOK'
<1> SUFFICES ASSUME TasksOK, TasksOK', ValuesOK, CountsOK, [GraphNext]_graphVars
             PROVE  CountsOK'
  OBVIOUS
<1>1. CASE UNCHANGED <<maxNodes, task, nodeCount>>
  BY <1>1 DEF CountsOK, Counted, AskedNodes, Heard, Forks
<1>2. ASSUME NEW p \in Forks, Step(p) PROVE CountsOK'
  <2>0. /\ IsFiniteSet(Counted) /\ AskedNodes \subseteq Counted
        /\ \A q \in Forks : task[q].pc = "enter" => ~Heard(q)
        /\ Cardinality(Counted) \in Nat
    BY AskedCounted
  <2>1. /\ Forks \subseteq Forks'
        /\ \A r \in Forks : r # p => task'[r] = task[r]
        /\ \A r \in Forks' \ Forks : task'[r].pc = "start"
    BY <1>2, NothingLost
  <2>2. nodeCount' = 1 + Cardinality(Counted')
    <3>c. /\ \A q \in Forks : q # p => (q \in Counted' <=> q \in Counted)
          /\ \A q \in Counted' : q \in Forks
      BY <2>1 DEF Counted
    <3>s. Counted \subseteq Forks
      BY DEF Counted
    <3>1. CASE Counted' = Counted /\ nodeCount' = nodeCount
      BY <3>1 DEF CountsOK
    <3>2. CASE Counted' = Counted \cup {p} /\ p \notin Counted
               /\ nodeCount' = nodeCount + 1
      <4>1. Cardinality(Counted \cup {p}) = Cardinality(Counted) + 1
        BY <2>0, <3>2, FS_AddElement
      <4> QED
        BY <2>0, <3>2, <4>1 DEF CountsOK
    <3>3. ASSUME NEW f \in Fun, Spawn(p, f), nodeCount' = nodeCount
          PROVE  Counted' = Counted /\ nodeCount' = nodeCount
      <4>0. /\ task[p].pc = "loop"
            /\ task'[p] = [pc |-> "loop", todo |-> task[p].todo \ {f},
                           isCycle |-> task[p].isCycle]
        BY <3>3, SpawnAdds
      <4>1. task'[p].pc = "loop"
        BY <4>0
      <4>2. p \in Counted <=> p \in Counted'
        BY <2>1, <4>0, <4>1 DEF Counted
      <4> QED
        BY <3>3, <3>c, <3>s, <4>2
    <3>t. \A c, s, b : Turn(p, c, s, b) => task'[p].pc = c
      BY DEF Turn
    <3>4. CASE Works(p) \/ Marks(p)
      <4>1. /\ task'[p].pc \notin {"start", "count"} /\ nodeCount' = nodeCount
            /\ task[p].pc \notin {"start", "count"}
        BY <3>4, <3>t DEF Works, Marks
      <4>2. p \in Counted <=> p \in Counted'
        BY <2>1, <4>1 DEF Counted
      <4> QED
        BY <3>1, <3>c, <3>s, <4>1, <4>2
    <3>5. CASE Looks(p)
      <4>1. /\ task'[p].pc = "count" /\ nodeCount' = nodeCount
            /\ task[p].pc = "start"
        BY <3>5, <3>t DEF Looks
      <4>2. p \notin Counted /\ p \notin Counted'
        BY <4>1 DEF Counted
      <4> QED
        BY <3>1, <3>c, <3>s, <4>1, <4>2
    <3>6. CASE EndsCycle(p) \/ CountsNode(p)
      <4>1. /\ task'[p].pc \notin {"start", "count"} /\ nodeCount' = nodeCount + 1
            /\ task[p].pc = "count" /\ IsNode(p)
        BY <3>6, <3>t DEF EndsCycle, CountsNode
      <4>2. p \notin Counted /\ p \in Counted'
        BY <2>1, <4>1 DEF Counted
      <4> QED
        BY <3>2, <3>c, <3>s, <4>1, <4>2
    <3> QED
      BY <1>2, <3>1, <3>3, <3>4, <3>5, <3>6, StepKinds
  <2>3. ASSUME NEW q \in Forks', Heard(q)'
        PROVE  q \in Forks /\ (Heard(q) \/ (q = p /\ Ask(p)))
    BY <1>2, <2>3, AskedGrows
  <2>4. maxNodes' = maxNodes /\ maxNodes \in Int
    BY <1>2, StepKinds DEF ValuesOK
  <2>5. CASE ~Ask(p)
    <3>1. AskedNodes' \subseteq AskedNodes
      BY <2>3, <2>5 DEF AskedNodes
    <3>2. /\ IsFiniteSet(AskedNodes) /\ IsFiniteSet(AskedNodes')
          /\ Cardinality(AskedNodes') <= Cardinality(AskedNodes)
          /\ Cardinality(AskedNodes) \in Nat /\ Cardinality(AskedNodes') \in Nat
      BY <2>0, <3>1, FS_Subset, FS_CardinalityType
    <3>3. CASE maxNodes > 1
      BY <2>2, <2>4, <3>2, <3>3 DEF CountsOK
    <3>4. CASE ~(maxNodes > 1)
      BY <2>2, <2>3, <2>4, <2>5, <3>4 DEF CountsOK
    <3> QED
      BY <3>3, <3>4
  <2>6. CASE Ask(p)
    <3>1. nodeCount < maxNodes /\ task[p].pc = "enter" /\ ~Heard(p)
      <4>1. task[p].pc = "enter" /\ ~(nodeCount >= maxNodes)
        BY <2>6 DEF Ask, LimitReached
      <4> QED
        BY <2>0, <2>4, <4>1 DEF CountsOK
    <3>2. maxNodes > 1
      BY <2>0, <2>4, <3>1 DEF CountsOK
    <3>3. Cardinality(AskedNodes') <= maxNodes - 2
      <4>1. CASE IsNode(p)
        <5>1. AskedNodes' \subseteq Counted
          BY <2>0, <2>3, <3>1, <4>1 DEF AskedNodes, Counted
        <5>2. Cardinality(AskedNodes') <= Cardinality(Counted)
          BY <2>0, <5>1, FS_Subset
        <5>3. Cardinality(AskedNodes') \in Nat
          BY <2>0, <5>1, FS_Subset, FS_CardinalityType
        <5> QED
          BY <2>0, <2>4, <3>1, <5>2, <5>3 DEF CountsOK
      <4>2. CASE ~IsNode(p)
        <5>1. AskedNodes' \subseteq AskedNodes
          BY <2>3, <4>2 DEF AskedNodes
        <5>2. /\ IsFiniteSet(AskedNodes) /\ IsFiniteSet(AskedNodes')
              /\ Cardinality(AskedNodes') <= Cardinality(AskedNodes)
              /\ Cardinality(AskedNodes) \in Nat /\ Cardinality(AskedNodes') \in Nat
          BY <2>0, <5>1, FS_Subset, FS_CardinalityType
        <5> QED
          BY <2>4, <3>2, <5>2 DEF CountsOK
      <4> QED
        BY <4>1, <4>2
    <3> QED
      BY <2>2, <2>4, <3>2, <3>3 DEF CountsOK
  <2> QED
    BY <2>5, <2>6
<1>3. CASE Timeout
  BY <1>1, <1>3 DEF Timeout
<1>4. CASE UNCHANGED graphVars
  BY <1>1, <1>4 DEF graphVars
<1> QED
  BY <1>2, <1>3, <1>4 DEF GraphNext, Forks

-----------------------------------------------------------------------------
(* The invariant. *)

LEMMA InitGraph == GraphInit => GraphInv
<1> SUFFICES ASSUME GraphInit PROVE GraphInv
  OBVIOUS
<1>1. /\ Forks = {<<"up">>, <<"down">>}
      /\ \A p \in Forks : task[p] = [pc |-> "enter", todo |-> {}, isCycle |-> FALSE]
  BY DEF GraphInit, Forks, NewTask, Direction
<1>2. /\ \A p \in Forks : /\ p \in Paths /\ Len(p) = 1 /\ ~IsNode(p)
                          /\ Dir(p) \in Direction
      /\ <<"up">> \in Paths /\ <<"down">> \in Paths
  BY <1>1, RootPaths DEF Direction
<1>3. /\ \A p \in Forks : /\ task[p].pc = "enter" /\ task[p].todo = {}
                          /\ task[p].isCycle = FALSE
      /\ \A p \in Forks : ~Expanded(p) /\ ~Marked(p) /\ ~Original(p) /\ ~Heard(p)
  <2>1. \A p \in Forks : /\ task[p].pc = "enter" /\ task[p].todo = {}
                         /\ task[p].isCycle = FALSE
    BY <1>1
  <2> QED
    BY <1>2, <2>1 DEF Expanded, Marked, Original, Heard
<1>4. TasksOK
  <2>1. IsFiniteSet(Forks)
    <3>1. IsFiniteSet({<<"up">>})
      BY FS_Singleton
    <3>2. IsFiniteSet({<<"up">>} \cup {<<"down">>})
      BY <3>1, FS_AddElement
    <3> QED
      BY <1>1, <3>2
  <2>2. [pc |-> "enter", todo |-> {}, isCycle |-> FALSE] \in TaskRec
    BY DEF TaskRec, PCs
  <2>3. \A dir \in Direction : <<dir>> \in Forks
    BY <1>1 DEF Direction
  <2> QED
    BY <1>1, <1>2, <1>3, <2>1, <2>2, <2>3 DEF TasksOK
<1>5. ValuesOK
  <2>1. \A n \in DepthInputs : DepthParam(n) \in Int
    BY CallGraphConstants DEF DepthParam
  <2>2. \A n \in NodeInputs : NodesParam(n) \in Int
    BY CallGraphConstants DEF NodesParam
  <2>3. depth \in [Direction -> Int] /\ maxNodes \in Int
    BY <2>1, <2>2 DEF GraphInit
  <2> QED
    BY <2>3 DEF GraphInit, ValuesOK
<1>6. VisitedOK
  BY <1>3 DEF VisitedOK, GraphInit
<1>7. WaysOK
  BY <1>2, <1>3 DEF WaysOK
<1>8. CompleteOK
  BY <1>3 DEF CompleteOK
<1>9. CountsOK
  <2>1. Counted = {} /\ AskedNodes = {}
    BY <1>2 DEF Counted, AskedNodes
  <2>2. Cardinality(Counted) = 0 /\ Cardinality(AskedNodes) = 0
    BY <2>1, FS_EmptySet
  <2> QED
    BY <1>3, <1>5, <2>2 DEF CountsOK, GraphInit, ValuesOK
<1>10. Reaches
  BY <1>2 DEF Reaches
<1> QED
  BY <1>4, <1>5, <1>6, <1>7, <1>8, <1>9, <1>10 DEF GraphInv

LEMMA GraphInvariant == GraphSpec => []GraphInv
<1>1. GraphInit => GraphInv
  BY InitGraph
<1>2. GraphInv /\ [GraphNext]_graphVars => GraphInv'
  <2> SUFFICES ASSUME GraphInv, [GraphNext]_graphVars PROVE GraphInv'
    OBVIOUS
  <2>1. /\ TasksOK /\ ValuesOK /\ VisitedOK /\ WaysOK /\ CompleteOK /\ CountsOK
        /\ Reaches
    BY DEF GraphInv
  <2>2. TasksOK' /\ ValuesOK'
    BY <2>1, NextTasks, NextValues
  <2>3. VisitedOK' /\ WaysOK'
    BY <2>1, NextVisited, NextWays
  <2>4. CompleteOK' /\ CountsOK' /\ Reaches'
    BY <2>1, <2>2, NextComplete, NextCounts, NextReaches
  <2> QED
    BY <2>2, <2>3, <2>4 DEF GraphInv
<1> QED
  BY <1>1, <1>2, PTL DEF GraphSpec

\* call_graph.go: the variables of the search keep their types, every task has
\* its caller's, and nodeCount, which several goroutines increment each on its
\* own, is the number of the nodes that have been added.
THEOREM GraphTypeCorrect == GraphSpec => []GraphTypeOK
<1>1. GraphInv => GraphTypeOK
  <2> SUFFICES ASSUME GraphInv PROVE GraphTypeOK
    OBVIOUS
  <2>1. TasksOK /\ ValuesOK /\ CountsOK
    BY DEF GraphInv
  <2>2. ASSUME NEW p \in DOMAIN task
        PROVE  /\ Dir(p) \in Direction /\ \A i \in 2 .. Len(p) : p[i] \in Fun
               /\ task[p].pc \in {"start", "count", "mark", "enter", "loop",
                                  "wait", "done"}
               /\ task[p].todo \subseteq Fun /\ task[p].isCycle \in BOOLEAN
               /\ IsNode(p) => Parent(p) \in DOMAIN task
    <3>1. p \in Paths /\ task[p] \in TaskRec
      BY <2>1 DEF TasksOK, Forks
    <3>2. IsNode(p) => Parent(p) \in DOMAIN task
      BY <2>1 DEF TasksOK, Forks
    <3> QED
      BY <3>1, <3>2, PathTypes DEF TaskRec, PCs
  <2>3. nodeCount = 1 + Cardinality({p \in DOMAIN task :
                          IsNode(p) /\ task[p].pc \notin {"start", "count"}})
    BY <2>1 DEF CountsOK, Counted, Forks
  <2> QED
    BY <2>1, <2>2, <2>3 DEF GraphTypeOK, ValuesOK
<1> QED
  BY <1>1, GraphInvariant, PTL

-----------------------------------------------------------------------------
(* The end of a search. *)

\* Only a task in its loop has calls left to start.
TodoOK == \A p \in Forks : task[p].pc # "loop" => task[p].todo = {}

LEMMA TodoInvariant == GraphSpec => [](GraphInv /\ TodoOK)
<1>1. GraphInit => TodoOK
  <2> SUFFICES ASSUME GraphInit PROVE TodoOK
    OBVIOUS
  <2>1. \A p \in Forks : task[p] = [pc |-> "enter", todo |-> {}, isCycle |-> FALSE]
    BY DEF GraphInit, Forks, NewTask
  <2> QED
    BY <2>1 DEF TodoOK
<1>2. TasksOK /\ TodoOK /\ [GraphNext]_graphVars => TodoOK'
  <2> SUFFICES ASSUME TasksOK, TodoOK, [GraphNext]_graphVars PROVE TodoOK'
    OBVIOUS
  <2>1. CASE UNCHANGED task
    BY <2>1 DEF TodoOK, Forks
  <2>2. ASSUME NEW p \in Forks, Step(p) PROVE TodoOK'
    <3>1. ASSUME NEW c, NEW s, NEW b, Turn(p, c, s, b), c = "loop" \/ s = {}
          PROVE  TodoOK'
      BY <3>1 DEF Turn, TodoOK
    <3>2. task[p].pc # "loop" => task[p].todo = {}
      BY DEF TodoOK
    <3>3. CASE EnterCancelled(p) \/ EnterTooDeep(p) \/ EnterLimit(p)
      BY <3>1, <3>2, <3>3, StepTurns
    <3>4. CASE Ask(p)
      BY <3>1, <3>2, <3>4, StepTurns
    <3>5. CASE LoopEnds(p)
      BY <3>1, <3>5, StepTurns
    <3>6. CASE Look(p)
      BY <3>1, <3>2, <3>6, StepTurns
    <3>7. CASE Count(p)
      BY <3>1, <3>2, <3>7, StepTurns
    <3>8. CASE Mark(p)
      BY <3>1, <3>2, <3>8, StepTurns
    <3>9. CASE Join(p)
      BY <3>1, <3>2, <3>9, StepTurns
    <3>10. ASSUME NEW f \in Fun, Spawn(p, f) PROVE TodoOK'
      <4>1. /\ Forks' = Forks \cup {Append(p, f)}
            /\ task'[p] = [pc |-> "loop", todo |-> task[p].todo \ {f},
                           isCycle |-> task[p].isCycle]
            /\ \A q \in Forks \ {p} : task'[q] = task[q]
            /\ task'[Append(p, f)] = [pc |-> "start", todo |-> {}, isCycle |-> FALSE]
        BY <3>10, SpawnAdds
      <4>2. task'[p].pc = "loop" /\ task'[Append(p, f)].todo = {}
        BY <4>1
      <4> QED
        BY <4>1, <4>2 DEF TodoOK
    <3> QED
      BY <2>2, <3>3, <3>4, <3>5, <3>6, <3>7, <3>8, <3>9, <3>10 DEF Step
  <2>3. CASE Timeout
    BY <2>1, <2>3 DEF Timeout
  <2>4. CASE UNCHANGED graphVars
    BY <2>1, <2>4 DEF graphVars
  <2> QED
    BY <2>2, <2>3, <2>4 DEF GraphNext, Forks
<1>3. GraphInv => TasksOK
  BY DEF GraphInv
<1> QED
  BY <1>1, <1>2, <1>3, GraphInvariant, PTL DEF GraphSpec

\* The root calls wait for all tasks.
LEMMA FinishedAll ==
  ASSUME TasksOK, Finished
  PROVE  \A p \in Forks : task[p].pc = "done"
<1> DEFINE N == {n \in Nat : \E p \in Forks : Len(p) = n /\ task[p].pc # "done"}
<1>1. ASSUME N # {} PROVE FALSE
  <2>1. PICK n \in N : \A m \in N : n <= m
    <3> HIDE DEF N
    <3>1. N \in SUBSET Nat
      BY DEF N
    <3> QED
      BY <1>1, <3>1, LeastNumber
  <2>2. PICK p \in Forks : Len(p) = n /\ task[p].pc # "done"
    BY <2>1
  <2>3. p \in Paths
    BY DEF TasksOK
  <2>4. CASE IsNode(p)
    <3>1. Parent(p) \in Forks /\ task[Parent(p)].pc # "done"
      BY <2>2, <2>4 DEF TasksOK
    <3>2. PICK m \in Nat : m = Len(Parent(p)) /\ n = m + 1
      BY <2>2, <2>3, <2>4, PathParted
    <3>3. m \in N
      BY <3>1, <3>2
    <3> QED
      BY <2>1, <3>2, <3>3
  <2>5. CASE ~IsNode(p)
    BY <2>2, <2>3, <2>5, PathTypes DEF Finished
  <2> QED
    BY <2>4, <2>5
<1>2. ASSUME NEW p \in Forks, task[p].pc # "done" PROVE FALSE
  <2>1. Len(p) \in Nat
    BY PathTypes DEF TasksOK
  <2>2. Len(p) \in N
    BY <1>2, <2>1
  <2> QED
    BY <1>1, <2>2
<1> QED
  BY <1>2

\* No way to a node that is no cycle is longer than there are functions.
LEMMA WaysShort ==
  ASSUME TasksOK, WaysOK, NEW p \in Forks, IsNode(p) => Original(p)
  PROVE  Len(p) - 1 <= Cardinality(Fun)
<1>1. PICK n \in Nat : n = Len(p) /\ n >= 1
  BY PathTypes DEF TasksOK
<1>0. IsFiniteSet(Fun) /\ Cardinality(Fun) \in Nat
  BY CallGraphConstants, FS_CardinalityType
<1>2. CASE n = 1
  BY <1>0, <1>1, <1>2
<1>3. CASE n > 1
  <2>0. IsNode(p) /\ Original(p) /\ p \in Paths
    BY <1>1, <1>3 DEF IsNode, TasksOK
  <2>1. \A i \in 2 .. n : p[i] \in Fun
    BY <1>1, <2>0, PathTypes
  <2>2. p[n] = FunOf(p)
    BY <1>1, <2>0, PathParted
  <2>3. /\ \A i, j \in 2 .. n - 1 : p[i] = p[j] => i = j
        /\ \A i \in 2 .. n - 1 : p[i] # p[n]
    BY <1>1, <2>0, <2>2 DEF WaysOK
  <2>4. ASSUME NEW i \in 2 .. n, NEW j \in 2 .. n, p[i] = p[j] PROVE i = j
    <3>1. CASE i = n \/ j = n
      <4>1. i # n => i \in 2 .. n - 1
        OBVIOUS
      <4>2. j # n => j \in 2 .. n - 1
        OBVIOUS
      <4> QED
        BY <2>3, <2>4, <3>1, <4>1, <4>2
    <3>2. CASE i \in 2 .. n - 1 /\ j \in 2 .. n - 1
      BY <2>3, <2>4, <3>2
    <3> QED
      BY <3>1, <3>2
  <2> DEFINE e == [i \in 2 .. n |-> p[i]]
  <2>5. e \in Injection(2 .. n, Fun)
    BY <2>1, <2>4 DEF Injection, IsInjective
  <2>6. Cardinality(2 .. n) <= Cardinality(Fun)
    <3> HIDE DEF e
    <3> QED
      BY <1>0, <2>5, FS_Injection
  <2>7. Cardinality(2 .. n) = n - 1
    BY <1>3, FS_Interval
  <2> QED
    BY <1>1, <2>6, <2>7
<1> QED
  BY <1>1, <1>2, <1>3

\* A search that nothing stopped has the calls of each node below it.
LEMMA AllBelow ==
  ASSUME GraphInv, TodoOK, Finished, Unlimited, NEW p \in Forks, ~task[p].isCycle
  PROVE  CallsOf(p) \subseteq Heirs(p)
<1>1. /\ TasksOK /\ ValuesOK /\ WaysOK /\ CompleteOK
      /\ truncated = "no" /\ ~failed
      /\ \A dir \in Direction : depth[dir] > Cardinality(Fun)
  BY DEF GraphInv, Unlimited
<1>2. task[p].pc = "done" /\ task[p].todo = {}
  BY <1>1, FinishedAll DEF TodoOK
<1>3. Len(p) - 1 <= Cardinality(Fun)
  <2>1. IsNode(p) => Original(p)
    BY <1>2 DEF Original
  <2> QED
    BY <1>1, <2>1, WaysShort
<1>4. Len(p) <= depth[Dir(p)]
  <2>1. PICK n \in Nat : n = Len(p)
    BY <1>1, PathTypes DEF TasksOK
  <2>2. Dir(p) \in Direction
    BY <1>1, PathTypes DEF TasksOK
  <2>3. depth[Dir(p)] \in Int /\ depth[Dir(p)] > Cardinality(Fun)
    BY <1>1, <2>2 DEF ValuesOK
  <2>4. Cardinality(Fun) \in Nat
    BY CallGraphConstants, FS_CardinalityType
  <2> QED
    BY <1>3, <2>1, <2>3, <2>4
<1> QED
  BY <1>1, <1>2, <1>4 DEF CompleteOK, Heirs

\* call_graph.go: what is found is complete beside the recursions of the root.
LEMMA Completeness == GraphInv /\ TodoOK => CompleteBesideRecursion
<1> SUFFICES ASSUME GraphInv, TodoOK, Finished, Unlimited, NEW dir \in Direction
             PROVE  /\ ReachedIn(dir, Recursive) \subseteq InTree(dir)
                    /\ InTree(dir) \subseteq Transitive(dir)
  BY DEF CompleteBesideRecursion
<1>0. TasksOK /\ VisitedOK /\ Reaches
  BY DEF GraphInv
<1>1. InTree(dir) \subseteq Transitive(dir)
  BY <1>0 DEF InTree, Reaches, Forks
<1>2. ASSUME NEW p \in Forks, Dir(p) = dir, ~task[p].isCycle
      PROVE  Next1(dir, FunOf(p)) \subseteq InTree(dir)
  <2>1. p \in Paths
    BY <1>0 DEF TasksOK
  <2>2. ASSUME NEW g \in Next1(dir, FunOf(p)) PROVE g \in InTree(dir)
    <3>1. g \in Heirs(p)
      BY <1>2, <2>2, AllBelow DEF CallsOf
    <3>2. g \in Fun /\ Append(p, g) \in Forks
      BY <3>1 DEF Heirs
    <3>3. /\ IsNode(Append(p, g)) /\ Dir(Append(p, g)) = dir
          /\ FunOf(Append(p, g)) = g
      BY <1>2, <2>1, <3>2, PathExtended
    <3> QED
      BY <3>2, <3>3 DEF InTree, Forks
  <2> QED
    BY <2>2
<1>3. Next1(dir, Root) \subseteq InTree(dir)
  <2>1. <<dir>> \in Forks /\ ~IsNode(<<dir>>)
    BY <1>0, RootPaths DEF TasksOK
  <2>2. ~task[<<dir>>].isCycle
    BY <1>0, <2>1 DEF TasksOK
  <2> QED
    BY <1>2, <2>1, <2>2, RootPaths
<1>4. ASSUME NEW f \in InTree(dir) \ Recursive
      PROVE  Next1(dir, f) \subseteq InTree(dir)
  <2>1. PICK p \in Forks : IsNode(p) /\ Dir(p) = dir /\ FunOf(p) = f
    BY <1>4 DEF InTree, Forks
  <2>2. CASE ~task[p].isCycle
    BY <1>2, <2>1, <2>2
  <2>3. CASE task[p].isCycle
    <3>1. PICK q \in Forks : Expanded(q) /\ FunOf(q) = f
      BY <1>0, <2>1, <2>3 DEF VisitedOK
    <3>2. ~task[q].isCycle /\ IsNode(q) /\ Dir(q) \in Direction
      BY <1>0, <3>1, PathTypes DEF Expanded, TasksOK
    <3>3. f \in Transitive(Dir(q)) /\ f \in Transitive(dir)
      BY <1>0, <2>1, <3>1, <3>2 DEF Reaches
    <3>4. Dir(q) = dir
      BY <1>4, <3>2, <3>3 DEF Recursive, Direction
    <3> QED
      BY <1>2, <3>1, <3>2, <3>4
  <2> QED
    BY <2>2, <2>3
<1>5. InTree(dir) \in SUBSET Fun
  BY <1>1, ReachedOn
<1>6. ClosedBeside(dir, Recursive, InTree(dir))
  BY <1>3, <1>4 DEF ClosedBeside
<1> QED
  BY <1>1, <1>5, <1>6 DEF ReachedIn

\* call_graph.go: the original of a cycle is in the result.
LEMMA Originals == GraphInv => CycleHasOriginal
  BY DEF GraphInv, VisitedOK, CycleHasOriginal, Forks

-----------------------------------------------------------------------------
(* How far the limit is exceeded. *)

\* No request returns more calls than FanOut.
LEMMA FanOutBounds ==
  /\ FanOut \in Nat
  /\ \A dir \in Direction, f \in Fun :
       /\ IsFiniteSet(Next1(dir, f)) /\ Cardinality(Next1(dir, f)) \in Nat
       /\ Cardinality(Next1(dir, f)) <= FanOut
<1> DEFINE sizes == {Cardinality(Next1(dir, f)) : dir \in Direction, f \in Fun}
           N == {k \in Nat : Cardinality(Fun) - k \in sizes}
<1>0. IsFiniteSet(Fun) /\ Cardinality(Fun) \in Nat /\ Root \in Fun
  BY CallGraphConstants, FS_CardinalityType
<1>1. ASSUME NEW dir \in Direction, NEW f \in Fun
      PROVE  /\ IsFiniteSet(Next1(dir, f)) /\ Cardinality(Next1(dir, f)) \in Nat
             /\ Cardinality(Next1(dir, f)) <= Cardinality(Fun)
  <2>1. Next1(dir, f) \in SUBSET Fun
    BY DEF Next1
  <2> QED
    BY <1>0, <2>1, FS_Subset, FS_CardinalityType
<1>2. ASSUME NEW m \in sizes PROVE m \in Nat /\ Cardinality(Fun) - m \in N
  <2>1. PICK dir \in Direction, f \in Fun : m = Cardinality(Next1(dir, f))
    OBVIOUS
  <2>2. m \in Nat /\ m <= Cardinality(Fun)
    BY <1>1, <2>1
  <2> HIDE DEF sizes
  <2>3. Cardinality(Fun) - m \in Nat
           /\ Cardinality(Fun) - (Cardinality(Fun) - m) = m
    BY <1>0, <2>2
  <2> QED
    BY <1>2, <2>2, <2>3
<1>3. sizes # {}
  <2>1. Cardinality(Next1("up", Root)) \in sizes
    BY <1>0 DEF Direction
  <2> QED
    BY <2>1
<1>4. \E n \in sizes : \A m \in sizes : m <= n
  <2> HIDE DEF sizes
  <2>1. N \in SUBSET Nat /\ N # {}
    BY <1>2, <1>3
  <2>2. PICK k \in N : \A j \in N : k <= j
    <3> HIDE DEF N
    <3> QED
      BY <2>1, LeastNumber
  <2>3. ASSUME NEW m \in sizes PROVE m <= Cardinality(Fun) - k
    <3>1. m \in Nat /\ k <= Cardinality(Fun) - m
      BY <1>2, <2>2
    <3> QED
      BY <1>0, <2>2, <3>1
  <2> QED
    BY <2>2, <2>3
<1>5. FanOut = CHOOSE n \in sizes : \A m \in sizes : m <= n
  BY DEF FanOut
<1>6. FanOut \in sizes /\ \A m \in sizes : m <= FanOut
  <2> HIDE DEF sizes
  <2> QED
    BY <1>4, <1>5
<1>7. FanOut \in Nat
  <2> HIDE DEF sizes, N
  <2> QED
    BY <1>2, <1>6
<1>8. ASSUME NEW dir \in Direction, NEW f \in Fun
      PROVE  Cardinality(Next1(dir, f)) <= FanOut
  <2>1. Cardinality(Next1(dir, f)) \in sizes
    OBVIOUS
  <2> HIDE DEF sizes
  <2> QED
    BY <1>6, <2>1
<1> QED
  BY <1>1, <1>7, <1>8

AskedTasks == {p \in Forks : Heard(p)}

\* Each node is one of the calls its caller got.
LEMMA NodesOfAsked ==
  ASSUME TasksOK
  PROVE  /\ IsFiniteSet(AskedTasks)
         /\ Cardinality(Counted) <= Cardinality(AskedTasks) * FanOut
<1>0. /\ FanOut \in Nat /\ IsFiniteSet(Forks)
      /\ IsFiniteSet(Counted) /\ Cardinality(Counted) \in Nat
  BY FanOutBounds, AskedCounted DEF TasksOK
<1>1. IsFiniteSet(AskedTasks) /\ Cardinality(AskedTasks) \in Nat
  BY <1>0, FS_Subset, FS_CardinalityType DEF AskedTasks
<1>2. IsFiniteSet(1 .. FanOut) /\ Cardinality(1 .. FanOut) = FanOut
  BY <1>0, FS_Interval
<1> DEFINE Numbers(p) == Injection(CallsOf(p), 1 .. FanOut)
           place == [p \in Forks |-> CHOOSE b : b \in Numbers(p)]
<1>3. ASSUME NEW p \in Forks PROVE place[p] \in Numbers(p)
  <2>1. Dir(p) \in Direction /\ FunOf(p) \in Fun
    BY PathTypes DEF TasksOK
  <2>2. PICK n \in Nat : n = Cardinality(CallsOf(p)) /\ n <= FanOut
    BY <2>1, FanOutBounds DEF CallsOf
  <2>3. ExistsBijection(1 .. n, CallsOf(p))
    BY <2>1, <2>2, FanOutBounds, FS_CardinalityType DEF CallsOf
  <2>4. PICK b : b \in Bijection(CallsOf(p), 1 .. n)
    BY <2>3, Fun_ExistsBijSymmetric DEF ExistsBijection
  <2>5. 1 .. n \subseteq 1 .. FanOut
    BY <1>0, <2>2
  <2>6. b \in Numbers(p)
    BY <2>4, <2>5 DEF Bijection, Injection
  <2> QED
    BY <2>6
<1>4. ASSUME NEW q \in Counted
      PROVE  /\ q \in Paths /\ IsNode(q) /\ Parent(q) \in AskedTasks
             /\ FunOf(q) \in CallsOf(Parent(q))
             /\ place[Parent(q)][FunOf(q)] \in 1 .. FanOut
  <2>1. /\ q \in Paths /\ IsNode(q) /\ Parent(q) \in AskedTasks
        /\ FunOf(q) \in CallsOf(Parent(q)) /\ Parent(q) \in Forks
    BY DEF Counted, TasksOK, AskedTasks, Heard
  <2>2. place[Parent(q)] \in Injection(CallsOf(Parent(q)), 1 .. FanOut)
    BY <1>3, <2>1
  <2> HIDE DEF place
  <2>3. place[Parent(q)] \in [CallsOf(Parent(q)) -> 1 .. FanOut]
    BY <2>2 DEF Injection
  <2> QED
    BY <2>1, <2>3
<1> DEFINE at == [q \in Counted |-> <<Parent(q), place[Parent(q)][FunOf(q)]>>]
<1>5. at \in Injection(Counted, AskedTasks \X (1 .. FanOut))
  <2>1. \A q \in Counted : at[q] \in AskedTasks \X (1 .. FanOut)
    <3> HIDE DEF place
    <3> QED
      BY <1>4
  <2>2. ASSUME NEW q \in Counted, NEW r \in Counted, at[q] = at[r] PROVE q = r
    <3>0. place[Parent(q)] \in Injection(CallsOf(Parent(q)), 1 .. FanOut)
      BY <1>3, <1>4 DEF AskedTasks
    <3> HIDE DEF place
    <3>1. Parent(q) = Parent(r)
          /\ place[Parent(q)][FunOf(q)] = place[Parent(q)][FunOf(r)]
      BY <2>2
    <3>2. FunOf(q) \in CallsOf(Parent(q)) /\ FunOf(r) \in CallsOf(Parent(q))
      BY <1>4, <3>1
    <3>3. FunOf(q) = FunOf(r)
      BY <3>0, <3>1, <3>2 DEF Injection, IsInjective
    <3>4. q = Append(Parent(q), FunOf(q)) /\ r = Append(Parent(r), FunOf(r))
      BY <1>4, PathParted
    <3> QED
      BY <3>1, <3>3, <3>4
  <2>3. at \in [Counted -> AskedTasks \X (1 .. FanOut)]
    <3> HIDE DEF place
    <3> QED
      BY <2>1
  <2>4. DOMAIN at = Counted
    OBVIOUS
  <2> HIDE DEF at
  <2> QED
    BY <2>2, <2>3, <2>4 DEF Injection, IsInjective
<1>6. /\ IsFiniteSet(AskedTasks \X (1 .. FanOut))
      /\ Cardinality(AskedTasks \X (1 .. FanOut)) = Cardinality(AskedTasks) * FanOut
  BY <1>1, <1>2, FS_Product
<1>7. Cardinality(Counted) <= Cardinality(AskedTasks \X (1 .. FanOut))
  <2> HIDE DEF at
  <2> QED
    BY <1>5, <1>6, FS_Injection
<1> QED
  BY <1>1, <1>6, <1>7

\* call_graph.go: the nodes above the limit are calls of requests sent below it.
LEMMA Overshoot == GraphInv => BoundedOvershoot
<1> SUFFICES ASSUME GraphInv PROVE BoundedOvershoot
  OBVIOUS
<1>1. TasksOK /\ CountsOK /\ maxNodes \in Int
  BY DEF GraphInv, ValuesOK
<1>2. /\ FanOut \in Nat /\ IsFiniteSet(AskedTasks) /\ Cardinality(AskedTasks) \in Nat
      /\ Cardinality(Counted) \in Nat
      /\ Cardinality(Counted) <= Cardinality(AskedTasks) * FanOut
  BY <1>1, FanOutBounds, NodesOfAsked, FS_CardinalityType, AskedCounted
<1>3. CASE maxNodes > 1
  <2>1. AskedTasks \subseteq AskedNodes \cup {<<"up">>} \cup {<<"down">>}
    <3>1. ASSUME NEW p \in AskedTasks, ~IsNode(p)
          PROVE  p \in {<<"up">>, <<"down">>}
      BY <1>1, <3>1, PathTypes DEF AskedTasks, TasksOK, Direction
    <3> QED
      BY <3>1 DEF AskedTasks, AskedNodes
  <2>2. IsFiniteSet(AskedNodes) /\ Cardinality(AskedNodes) \in Nat
    BY <1>1, AskedCounted, FS_Subset, FS_CardinalityType
  <2>3. ASSUME NEW S, IsFiniteSet(S), NEW x
        PROVE  /\ IsFiniteSet(S \cup {x}) /\ Cardinality(S \cup {x}) \in Nat
               /\ Cardinality(S \cup {x}) <= Cardinality(S) + 1
               /\ Cardinality(S) \in Nat
    <3>1. Cardinality(S) \in Nat
      BY <2>3, FS_CardinalityType
    <3> QED
      BY <2>3, <3>1, FS_AddElement
  <2>4. /\ IsFiniteSet(AskedNodes \cup {<<"up">>} \cup {<<"down">>})
        /\ Cardinality(AskedNodes \cup {<<"up">>} \cup {<<"down">>})
             <= Cardinality(AskedNodes) + 2
        /\ Cardinality(AskedNodes \cup {<<"up">>} \cup {<<"down">>}) \in Nat
    <3>1. PICK A : A = AskedNodes \cup {<<"up">>}
      OBVIOUS
    <3>2. /\ IsFiniteSet(A) /\ Cardinality(A) \in Nat
          /\ Cardinality(A) <= Cardinality(AskedNodes) + 1
      BY <2>2, <2>3, <3>1
    <3>3. /\ IsFiniteSet(A \cup {<<"down">>})
          /\ Cardinality(A \cup {<<"down">>}) \in Nat
          /\ Cardinality(A \cup {<<"down">>}) <= Cardinality(A) + 1
      BY <2>3, <3>2
    <3> QED
      BY <2>2, <3>1, <3>2, <3>3
  <2>5. Cardinality(AskedTasks)
          <= Cardinality(AskedNodes \cup {<<"up">>} \cup {<<"down">>})
    BY <2>1, <2>4, FS_Subset
  <2>6. Cardinality(AskedNodes) <= maxNodes - 2
    BY <1>1, <1>3 DEF CountsOK
  <2>7. Cardinality(AskedTasks) <= maxNodes /\ maxNodes \in Nat
    BY <1>1, <1>2, <1>3, <2>2, <2>4, <2>5, <2>6
  <2>8. \A a, b, c \in Nat : a <= b => a * c <= c * b
    OBVIOUS
  <2>9. Cardinality(AskedTasks) * FanOut <= FanOut * maxNodes
    BY <1>2, <2>7, <2>8
  <2>10. Cardinality(AskedTasks) * FanOut \in Nat /\ FanOut * maxNodes \in Nat
    BY <1>2, <2>7
  <2>11. nodeCount = 1 + Cardinality(Counted)
    BY <1>1 DEF CountsOK
  <2>12. nodeCount <= 1 + FanOut * maxNodes
    BY <1>2, <2>9, <2>10, <2>11
  <2> QED
    BY <1>3, <2>12 DEF BoundedOvershoot
<1>4. CASE ~(maxNodes > 1)
  <2>1. AskedTasks = {}
    BY <1>1, <1>4 DEF CountsOK, AskedTasks
  <2>2. Cardinality(AskedTasks) = 0
    BY <2>1, FS_EmptySet
  <2>3. Cardinality(Counted) = 0
    BY <1>2, <2>2
  <2>4. nodeCount = 1 /\ FanOut * 0 = 0
    BY <1>1, <1>2, <2>3 DEF CountsOK
  <2> QED
    BY <1>4, <2>4 DEF BoundedOvershoot
<1> QED
  BY <1>3, <1>4

\* call_graph.go: whatever the order in which the goroutines look at visited
\* and mark it, the result of a search that nothing has stopped has every
\* caller and every callee that is reached without passing through a
\* recursion of the root; a node marked as a cycle has its original; and
\* max_nodes is exceeded by the calls of one request per node at most.
THEOREM CallGraphCorrect == GraphSpec => []CallGraphSound
<1>1. GraphInv /\ TodoOK => CallGraphSound
  BY Completeness, Originals, Overshoot DEF CallGraphSound
<1> QED
  BY <1>1, TodoInvariant, PTL

-----------------------------------------------------------------------------
(* Sequences: their parts, and lists that are put together. *)

\* The part of a sequence between two places.
LEMMA PartOf ==
  ASSUME NEW S, NEW t \in Seq(S), NEW o \in Nat, NEW e \in Nat, e <= Len(t)
  PROVE  /\ SubSeq(t, o + 1, e) \in Seq(S)
         /\ Len(SubSeq(t, o + 1, e)) = IF o <= e THEN e - o ELSE 0
         /\ \A i \in 1 .. e - o : SubSeq(t, o + 1, e)[i] = t[o + i]
<1>1. o + 1 \in Int /\ e \in Int /\ \A i \in o + 1 .. e : t[i] \in S
  <2>1. PICK n \in Nat : n = Len(t)
    OBVIOUS
  <2>2. \A i \in 1 .. n : t[i] \in S
    BY <2>1
  <2> QED
    BY <2>1, <2>2
<1>2. /\ SubSeq(t, o + 1, e) \in Seq(S)
      /\ Len(SubSeq(t, o + 1, e)) = IF o + 1 <= e THEN e - (o + 1) + 1 ELSE 0
      /\ \A i \in 1 .. e - (o + 1) + 1 : SubSeq(t, o + 1, e)[i] = t[o + 1 + i - 1]
  BY <1>1, SubSeqProperties
<1>3. PICK s : s = SubSeq(t, o + 1, e)
  OBVIOUS
<1>4. /\ s \in Seq(S) /\ Len(s) = IF o + 1 <= e THEN e - (o + 1) + 1 ELSE 0
      /\ \A i \in 1 .. e - (o + 1) + 1 : s[i] = t[o + 1 + i - 1]
  BY <1>2, <1>3
<1>5. Len(s) = IF o <= e THEN e - o ELSE 0
  BY <1>4
<1>6. e - (o + 1) + 1 = e - o /\ \A i \in 1 .. e - o : o + 1 + i - 1 = o + i
  OBVIOUS
<1>7. \A i \in 1 .. e - o : s[i] = t[o + i]
  BY <1>4, <1>6
<1> QED
  BY <1>3, <1>4, <1>5, <1>7

\* The function by which FlattenSeq puts lists together, one after the other.
Flattening(lists) ==
  CHOOSE f : f = [i \in 1 .. Len(lists) |->
                    IF i = 1 THEN lists[i] ELSE f[i - 1] \o lists[i]]

\* The first k lists put together.
FirstLists(lists, k) == IF k = 0 THEN << >> ELSE Flattening(lists)[k]

\* There is such a function.
LEMMA FlatteningRuns ==
  ASSUME NEW S, NEW lists \in Seq(Seq(S))
  PROVE  Flattening(lists) =
           [i \in 1 .. Len(lists) |->
              IF i = 1 THEN lists[i] ELSE Flattening(lists)[i - 1] \o lists[i]]
<1> DEFINE More(f, i) == IF i = 1 THEN lists[i] ELSE f[i - 1] \o lists[i]
           Runs(f, n) == \A i \in 1 .. n : f[i] = More(f, i)
           Some(n) == \E f \in [1 .. n -> Seq(S)] : Runs(f, n)
<1>0. PICK m \in Nat : m = Len(lists)
  OBVIOUS
<1>1. \A n \in 0 .. m : Some(n)
  <2> DEFINE Bad == {n \in 0 .. m : ~Some(n)}
  <2> SUFFICES ASSUME Bad # {} PROVE FALSE
    OBVIOUS
  <2>1. Bad \in SUBSET Nat
    OBVIOUS
  <2>2. PICK n \in Bad : \A k \in Bad : n <= k
    <3> HIDE DEF Bad
    <3> QED
      BY <2>1, LeastNumber
  <2>3. n \in 0 .. m /\ ~Some(n) /\ \A k \in 0 .. m : k < n => Some(k)
    <3> HIDE DEF Some
    <3> QED
      BY <2>2
  <2> HIDE DEF Bad
  <2>4. Some(0)
    <3> DEFINE none == [i \in 1 .. 0 |-> << >>]
    <3>1. none \in [1 .. 0 -> Seq(S)]
      OBVIOUS
    <3>2. Runs(none, 0)
      OBVIOUS
    <3> QED
      BY <3>1, <3>2
  <2>5. n \in 1 .. m /\ n - 1 \in 0 .. m /\ Some(n - 1)
    <3> HIDE DEF Some
    <3> QED
      BY <2>3, <2>4
  <2>6. PICK f \in [1 .. n - 1 -> Seq(S)] : Runs(f, n - 1)
    BY <2>5
  <2>7. More(f, n) \in Seq(S)
    <3>1. lists[n] \in Seq(S)
      BY <1>0, <2>5
    <3>2. n # 1 => f[n - 1] \in Seq(S)
      BY <2>5
    <3> QED
      BY <3>1, <3>2, ConcatProperties
  <2> DEFINE g == [i \in 1 .. n |-> IF i = n THEN More(f, n) ELSE f[i]]
  <2>8. g \in [1 .. n -> Seq(S)]
    <3> HIDE DEF More
    <3> QED
      BY <2>5, <2>7
  <2>9. ASSUME NEW i \in 1 .. n PROVE g[i] = More(g, i)
    <3>1. i # 1 => g[i - 1] = f[i - 1]
      BY <2>5
    <3>2. More(g, i) = More(f, i)
      <4> HIDE DEF g
      <4> QED
        BY <3>1
    <3>3. i # n => i \in 1 .. n - 1 /\ g[i] = f[i]
      BY <2>5
    <3>4. i = n => g[i] = More(f, i)
      OBVIOUS
    <3>5. i # n => f[i] = More(f, i)
      BY <2>6, <3>3
    <3> QED
      BY <3>2, <3>3, <3>4, <3>5
  <2> HIDE DEF g, More
  <2>10. Runs(g, n)
    BY <2>9
  <2> QED
    BY <2>3, <2>8, <2>10
<1>2. PICK f \in [1 .. m -> Seq(S)] : Runs(f, m)
  <2>1. Some(m)
    <3> HIDE DEF Some
    <3> QED
      BY <1>1
  <2> QED
    BY <2>1
<1>3. f = [i \in 1 .. Len(lists) |-> More(f, i)]
  BY <1>0, <1>2
<1> QED
  BY <1>3 DEF Flattening

\* Putting lists together, one after the other.
LEMMA ListsJoined ==
  ASSUME NEW S, NEW lists \in Seq(Seq(S)), NEW m \in Nat, m = Len(lists)
  PROVE  /\ FirstLists(lists, 0) = << >>
         /\ \A k \in 0 .. m : FirstLists(lists, k) \in Seq(S)
         /\ \A k \in 1 .. m :
              FirstLists(lists, k) = FirstLists(lists, k - 1) \o lists[k]
         /\ FlattenSeq(lists) = FirstLists(lists, m)
<1>1. FirstLists(lists, 0) = << >> /\ << >> \in Seq(S)
  BY DEF FirstLists
<1>2. \A k \in 1 .. m : lists[k] \in Seq(S)
  OBVIOUS
<1>3. ASSUME NEW k \in 1 .. m
      PROVE  FirstLists(lists, k) = FirstLists(lists, k - 1) \o lists[k]
  <2> DEFINE fl == Flattening(lists)
  <2>1. fl = [i \in 1 .. m |-> IF i = 1 THEN lists[i] ELSE fl[i - 1] \o lists[i]]
    BY FlatteningRuns
  <2> HIDE DEF fl
  <2>2. fl[k] = IF k = 1 THEN lists[k] ELSE fl[k - 1] \o lists[k]
    BY <2>1
  <2>3. << >> \o lists[k] = lists[k]
    BY <1>2, ConcatEmptySeq
  <2> USE DEF fl
  <2>4. CASE k = 1
    BY <2>2, <2>3, <2>4 DEF FirstLists
  <2>5. CASE k # 1
    <3>1. k # 0 /\ k - 1 # 0
      BY <2>5
    <3> QED
      BY <2>2, <2>5, <3>1 DEF FirstLists
  <2> QED
    BY <2>4, <2>5
<1>4. \A k \in 0 .. m : FirstLists(lists, k) \in Seq(S)
  <2> DEFINE Bad == {n \in 0 .. m : FirstLists(lists, n) \notin Seq(S)}
  <2> SUFFICES ASSUME Bad # {} PROVE FALSE
    OBVIOUS
  <2>1. Bad \in SUBSET Nat
    OBVIOUS
  <2>2. PICK n \in Bad : \A k \in Bad : n <= k
    <3> HIDE DEF Bad
    <3> QED
      BY <2>1, LeastNumber
  <2>3. /\ n \in 0 .. m /\ FirstLists(lists, n) \notin Seq(S)
        /\ \A k \in 0 .. m : k < n => FirstLists(lists, k) \in Seq(S)
    BY <2>2
  <2>4. n \in 1 .. m /\ n - 1 \in 0 .. m
    <3>1. n # 0
      BY <1>1, <2>3
    <3> QED
      BY <2>3, <3>1
  <2>5. FirstLists(lists, n - 1) \in Seq(S) /\ lists[n] \in Seq(S)
    BY <1>2, <2>3, <2>4
  <2>6. FirstLists(lists, n - 1) \o lists[n] \in Seq(S)
    BY <2>5, ConcatProperties
  <2> QED
    BY <1>3, <2>3, <2>4, <2>6
<1>5. FlattenSeq(lists) = FirstLists(lists, m)
  <2>1. CASE m = 0
    <3>1. lists = << >>
      BY <2>1, EmptySeq
    <3> QED
      BY <2>1, <3>1 DEF FirstLists, FlattenSeq
  <2>2. CASE m # 0
    BY <2>2 DEF FirstLists, FlattenSeq, Flattening
  <2> QED
    BY <2>1, <2>2
<1> QED
  BY <1>1, <1>3, <1>4, <1>5

\* s is how t begins.
Begins(s, t) == Len(s) <= Len(t) /\ \A i \in 1 .. Len(s) : s[i] = t[i]

LEMMA BeginsJoined ==
  ASSUME NEW S, NEW s \in Seq(S), NEW t \in Seq(S), NEW u \in Seq(S),
         Begins(s \o t, u)
  PROVE  Begins(s, u)
<1>1. /\ Len(s \o t) = Len(s) + Len(t)
      /\ \A i \in 1 .. Len(s) + Len(t) :
           (s \o t)[i] = IF i <= Len(s) THEN s[i] ELSE t[i - Len(s)]
  BY ConcatProperties
<1>2. PICK l \in Nat, o \in Nat, n \in Nat : l = Len(s) /\ o = Len(t) /\ n = Len(u)
  OBVIOUS
<1>3. /\ l + o <= n /\ l <= n
      /\ \A i \in 1 .. l + o : (s \o t)[i] = u[i]
  BY <1>1, <1>2 DEF Begins
<1>4. ASSUME NEW i \in 1 .. l PROVE s[i] = u[i]
  <2>1. i \in 1 .. l + o /\ i <= l
    OBVIOUS
  <2> QED
    BY <1>1, <1>2, <1>3, <2>1
<1> QED
  BY <1>2, <1>3, <1>4 DEF Begins

LEMMA ListsBegin ==
  ASSUME NEW S, NEW lists \in Seq(Seq(S)), NEW m \in Nat, m = Len(lists)
  PROVE  /\ FlattenSeq(lists) \in Seq(S)
         /\ \A k \in 0 .. m : Begins(FirstLists(lists, k), FlattenSeq(lists))
<1>1. PICK all \in Seq(S) : all = FlattenSeq(lists) /\ all = FirstLists(lists, m)
  <2>1. m \in 0 .. m
    OBVIOUS
  <2> QED
    BY <2>1, ListsJoined
<1> DEFINE Bad == {n \in 0 .. m : ~Begins(FirstLists(lists, m - n), all)}
<1>2. Bad = {}
  <2> SUFFICES ASSUME Bad # {} PROVE FALSE
    OBVIOUS
  <2>1. Bad \in SUBSET Nat
    OBVIOUS
  <2>2. PICK n \in Bad : \A k \in Bad : n <= k
    <3> HIDE DEF Bad
    <3> QED
      BY <2>1, LeastNumber
  <2>3. /\ n \in 0 .. m /\ ~Begins(FirstLists(lists, m - n), all)
        /\ \A k \in 0 .. m : k < n => Begins(FirstLists(lists, m - k), all)
    BY <2>2
  <2>4. Begins(FirstLists(lists, m - 0), all)
    <3>1. m - 0 = m
      OBVIOUS
    <3> QED
      BY <1>1, <3>1 DEF Begins
  <2>5. n # 0
    BY <2>3, <2>4
  <2>6. PICK k \in 1 .. m : k = m - n + 1
    <3>1. m - n + 1 \in 1 .. m
      BY <2>3, <2>5
    <3> QED
      BY <3>1
  <2>7. n - 1 \in 0 .. m /\ n - 1 < n /\ m - (n - 1) = k /\ m - n = k - 1
    BY <2>3, <2>5, <2>6
  <2>8. Begins(FirstLists(lists, k), all)
    BY <2>3, <2>7
  <2>9. /\ FirstLists(lists, k) = FirstLists(lists, k - 1) \o lists[k]
        /\ FirstLists(lists, k - 1) \in Seq(S) /\ lists[k] \in Seq(S)
    <3>1. k - 1 \in 0 .. m /\ lists[k] \in Seq(S)
      OBVIOUS
    <3>2. /\ \A j \in 0 .. m : FirstLists(lists, j) \in Seq(S)
          /\ \A j \in 1 .. m :
               FirstLists(lists, j) = FirstLists(lists, j - 1) \o lists[j]
      BY ListsJoined
    <3> QED
      BY <3>1, <3>2
  <2>10. Begins(FirstLists(lists, k - 1), all)
    BY <2>8, <2>9, BeginsJoined
  <2> QED
    BY <2>3, <2>7, <2>10
<1>3. ASSUME NEW k \in 0 .. m PROVE Begins(FirstLists(lists, k), all)
  <2>1. m - k \in 0 .. m /\ m - (m - k) = k
    OBVIOUS
  <2> QED
    BY <1>2, <2>1
<1> QED
  BY <1>1, <1>3

\* A sequence that has the beginning of another, and its length, is the other.
LEMMA BeginsAll ==
  ASSUME NEW S, NEW s \in Seq(S), NEW t \in Seq(S), Begins(s, t), Len(s) = Len(t)
  PROVE  s = t
<1>1. Len(s) \in Nat /\ \A i \in 1 .. Len(s) : s[i] = t[i]
  BY DEF Begins
<1> QED
  BY <1>1, SeqEqual

\* s is how t begins, and no longer than the first e elements.
BeginsUpTo(s, t, e) == Begins(s, t) /\ Len(s) <= e /\ e <= Len(t)

\* What follows s in t, up to the e-th.
Following(s, t, e) == SubSeq(t, Len(s) + 1, e)

\* Reading on from where one has stopped.
LEMMA ReadsOn ==
  ASSUME NEW S, NEW s \in Seq(S), NEW t \in Seq(S), NEW e \in Nat,
         BeginsUpTo(s, t, e)
  PROVE  /\ Following(s, t, e) \in Seq(S) /\ Len(Following(s, t, e)) = e - Len(s)
         /\ Len(s \o Following(s, t, e)) = e
         /\ Begins(s \o Following(s, t, e), t)
<1>0. Begins(s, t) /\ Len(s) <= e /\ e <= Len(t)
  BY DEF BeginsUpTo
<1>1. PICK l \in Nat, n \in Nat : l = Len(s) /\ n = Len(t)
  OBVIOUS
<1>2. PICK more : more = SubSeq(t, l + 1, e) /\ more = Following(s, t, e)
  BY <1>1 DEF Following
<1>3. /\ more \in Seq(S) /\ Len(more) = e - l
      /\ \A i \in 1 .. e - l : more[i] = t[l + i]
  <2>1. \A i \in l + 1 .. e : t[i] \in S
    BY <1>0, <1>1
  <2>2. l + 1 \in Int /\ e \in Int
    OBVIOUS
  <2>3. /\ SubSeq(t, l + 1, e) \in Seq(S)
        /\ Len(SubSeq(t, l + 1, e)) = IF l + 1 <= e THEN e - (l + 1) + 1 ELSE 0
        /\ \A i \in 1 .. e - (l + 1) + 1 : SubSeq(t, l + 1, e)[i] = t[l + 1 + i - 1]
    BY <2>1, <2>2, SubSeqProperties
  <2>4. e - (l + 1) + 1 = e - l /\ \A i \in 1 .. e - l : l + 1 + i - 1 = l + i
    OBVIOUS
  <2> QED
    BY <1>0, <1>1, <1>2, <2>3, <2>4
<1>4. /\ s \o more \in Seq(S) /\ Len(s \o more) = Len(s) + Len(more)
      /\ \A i \in 1 .. Len(s) + Len(more) :
           (s \o more)[i] = IF i <= Len(s) THEN s[i] ELSE more[i - Len(s)]
  BY <1>3, ConcatProperties
<1>5. Len(s \o more) = e
  BY <1>0, <1>1, <1>3, <1>4
<1>6. ASSUME NEW i \in 1 .. e PROVE (s \o more)[i] = t[i]
  <2>1. (s \o more)[i] = IF i <= l THEN s[i] ELSE more[i - l]
    BY <1>1, <1>3, <1>4
  <2>2. i <= l => s[i] = t[i]
    BY <1>0, <1>1 DEF Begins
  <2>3. i > l => i - l \in 1 .. e - l /\ l + (i - l) = i
    BY <1>1
  <2>4. i > l => more[i - l] = t[i]
    BY <1>3, <2>3
  <2> QED
    BY <2>1, <2>2, <2>4
<1>7. Begins(s \o more, t)
  BY <1>0, <1>5, <1>6 DEF Begins
<1> QED
  BY <1>1, <1>2, <1>3, <1>5, <1>7

-----------------------------------------------------------------------------

LEMMA ReadsToEnd ==
  ASSUME NEW S, NEW s \in Seq(S), NEW t \in Seq(S), NEW e \in Nat,
         BeginsUpTo(s, t, e), e = Len(t)
  PROVE  s \o Following(s, t, e) = t
<1>1. /\ Following(s, t, e) \in Seq(S) /\ Len(s \o Following(s, t, e)) = e
      /\ Begins(s \o Following(s, t, e), t)
  BY ReadsOn
<1>2. PICK both : both = s \o Following(s, t, e)
  OBVIOUS
<1>3. both \in Seq(S) /\ Len(both) = Len(t) /\ Begins(both, t)
  BY <1>1, <1>2, ConcatProperties
<1> QED
  BY <1>2, <1>3, BeginsAll

-----------------------------------------------------------------------------
(* FileContext. *)

\* What stands in one of several lists stands in all of them together.
LEMMA JoinedHolds ==
  ASSUME NEW S, NEW lists \in Seq(Seq(S)),
         NEW i \in DOMAIN lists, NEW j \in DOMAIN lists[i]
  PROVE  \E k \in DOMAIN FlattenSeq(lists) : FlattenSeq(lists)[k] = lists[i][j]
<1>1. PICK m \in Nat : m = Len(lists) /\ DOMAIN lists = 1 .. m
  OBVIOUS
<1>2. i \in 1 .. m /\ i \in 0 .. m /\ i - 1 \in 0 .. m
  BY <1>1
<1>3. PICK all \in Seq(S) : /\ all = FlattenSeq(lists)
                            /\ Begins(FirstLists(lists, i), all)
  <2>1. /\ FlattenSeq(lists) \in Seq(S)
        /\ \A k \in 0 .. m : Begins(FirstLists(lists, k), FlattenSeq(lists))
    BY <1>1, ListsBegin
  <2> QED
    BY <1>2, <2>1
<1>4. PICK s \in Seq(S), t \in Seq(S) :
        t = lists[i] /\ FirstLists(lists, i) = s \o t
  <2>1. /\ \A k \in 0 .. m : FirstLists(lists, k) \in Seq(S)
        /\ \A k \in 1 .. m :
             FirstLists(lists, k) = FirstLists(lists, k - 1) \o lists[k]
    BY <1>1, ListsJoined
  <2>2. lists[i] \in Seq(S) /\ FirstLists(lists, i - 1) \in Seq(S)
    BY <1>1, <1>2, <2>1
  <2> QED
    BY <1>2, <2>1, <2>2
<1>5. PICK l \in Nat, u \in Nat, n \in Nat :
        l = Len(s) /\ u = Len(t) /\ n = Len(all) /\ DOMAIN all = 1 .. n
  OBVIOUS
<1>6. j \in 1 .. u
  BY <1>4, <1>5
<1>7. /\ Len(s \o t) = l + u
      /\ \A k \in 1 .. l + u : (s \o t)[k] = IF k <= l THEN s[k] ELSE t[k - l]
  BY <1>5, ConcatProperties
<1>8. l + u <= n /\ \A k \in 1 .. l + u : (s \o t)[k] = all[k]
  BY <1>3, <1>4, <1>5, <1>7 DEF Begins
<1>9. PICK k \in 1 .. l + u : k = l + j /\ ~(k <= l) /\ k - l = j
  BY <1>6
<1>10. all[k] = t[j] /\ k \in DOMAIN all
  <2>1. (s \o t)[k] = t[k - l]
    BY <1>7, <1>9
  <2>2. (s \o t)[k] = all[k]
    BY <1>8
  <2>3. k \in 1 .. n
    BY <1>8
  <2> QED
    BY <1>5, <1>9, <2>1, <2>2, <2>3
<1> QED
  BY <1>3, <1>4, <1>10

\* What is tried for a name.
CtxPath == [dir : {Top} \cup PatternDirs, asked : {TRUE}, ext : DOMAIN Patterns]

LEMMA FolderType ==
  ASSUME NEW ext \in DOMAIN Patterns
  PROVE  Folder(ext) \in Seq(PatternDirs)
BY ContextConstants DEF Folder

\* For one extension: the workspace itself, then its directories.
LEMMA TriedWithHolds ==
  ASSUME NEW ext \in DOMAIN Patterns
  PROVE  /\ TriedWith(ext) \in Seq(CtxPath) /\ Len(TriedWith(ext)) > 0
         /\ \A dir \in {Top} \cup ToSet(Folder(ext)) :
              \E i \in DOMAIN TriedWith(ext) : TriedWith(ext)[i] = Asked(dir, ext)
<1>1. PICK folder \in Seq(PatternDirs) : folder = Folder(ext)
  BY FolderType
<1>2. PICK n \in Nat : n = Len(folder) /\ DOMAIN folder = 1 .. n
  OBVIOUS
<1>3. PICK s, t : /\ s = <<Asked(Top, ext)>>
                  /\ t = [i \in DOMAIN Folder(ext) |-> Asked(Folder(ext)[i], ext)]
  OBVIOUS
<1>4. s \in Seq(CtxPath) /\ Len(s) = 1 /\ s[1] = Asked(Top, ext)
  <2>1. Asked(Top, ext) \in CtxPath
    BY DEF Asked, CtxPath
  <2> QED
    BY <1>3, <2>1
<1>5. t \in [1 .. n -> CtxPath] /\ \A i \in 1 .. n : t[i] = Asked(folder[i], ext)
  <2>1. \A i \in 1 .. n : Asked(folder[i], ext) \in CtxPath
    BY <1>2 DEF Asked, CtxPath
  <2> QED
    BY <1>1, <1>2, <1>3, <2>1
<1>6. t \in Seq(CtxPath) /\ Len(t) = n
  BY <1>5
<1>7. PICK w \in Seq(CtxPath) : w = TriedWith(ext) /\ w = s \o t
  <2>1. s \o t \in Seq(CtxPath)
    BY <1>4, <1>6, ConcatProperties
  <2> QED
    BY <1>3, <2>1 DEF TriedWith
<1>8. /\ Len(w) = 1 + n /\ DOMAIN w = 1 .. 1 + n
      /\ \A i \in 1 .. 1 + n : w[i] = IF i <= 1 THEN s[i] ELSE t[i - 1]
  <2>1. /\ Len(s \o t) = Len(s) + Len(t)
        /\ \A i \in 1 .. Len(s) + Len(t) :
             (s \o t)[i] = IF i <= Len(s) THEN s[i] ELSE t[i - Len(s)]
    BY <1>4, <1>6, ConcatProperties
  <2> QED
    BY <1>4, <1>6, <1>7, <2>1
<1>9. ASSUME NEW dir \in {Top} \cup ToSet(Folder(ext))
      PROVE  \E i \in DOMAIN w : w[i] = Asked(dir, ext)
  <2>1. CASE dir = Top
    <3>1. 1 \in 1 .. 1 + n /\ w[1] = s[1]
      BY <1>8
    <3> QED
      BY <1>4, <1>8, <2>1, <3>1
  <2>2. CASE dir \in ToSet(Folder(ext))
    <3>1. PICK j \in 1 .. n : folder[j] = dir
      BY <1>1, <1>2, <2>2 DEF ToSet
    <3>2. PICK k \in 1 .. 1 + n : k = j + 1 /\ ~(k <= 1) /\ k - 1 = j
      OBVIOUS
    <3>3. w[k] = Asked(dir, ext)
      BY <1>5, <1>8, <3>1, <3>2
    <3> QED
      BY <1>8, <3>3
  <2> QED
    BY <2>1, <2>2
<1>10. Len(w) > 0
  BY <1>8
<1> QED
  BY <1>7, <1>9, <1>10

\* What is tried for a name, and that everything that fits it is.
LEMMA TriedHolds ==
  ASSUME NEW ext \in DOMAIN Patterns
  PROVE  /\ Tried(ext) \in Seq(CtxPath) /\ Len(Tried(ext)) > 0
         /\ \A e \in Fits(ext) : \E k \in DOMAIN Tried(ext) : Tried(ext)[k] = e
<1>1. PICK s \in Seq(CtxPath), l \in Nat :
        s = TriedWith(ext) /\ l = Len(s) /\ l > 0 /\ DOMAIN s = 1 .. l
  BY TriedWithHolds
<1>2. PICK x1 \in Seq(DOMAIN Patterns), m \in Nat :
        x1 = Extensions /\ m = Len(x1) /\ DOMAIN x1 = 1 .. m
  <2>1. PICK x1 \in Seq(DOMAIN Patterns) : x1 = Extensions
    BY ContextConstants
  <2>2. PICK m \in Nat : m = Len(x1) /\ DOMAIN x1 = 1 .. m
    OBVIOUS
  <2> QED
    BY <2>1, <2>2
<1>3. PICK lists : lists = [i \in DOMAIN Extensions |-> TriedWith(Extensions[i])]
  OBVIOUS
<1>4. lists \in Seq(Seq(CtxPath)) /\ Len(lists) = m /\ DOMAIN lists = 1 .. m
  <2>1. \A i \in 1 .. m : TriedWith(x1[i]) \in Seq(CtxPath)
    BY <1>2, TriedWithHolds
  <2>2. lists \in [1 .. m -> Seq(CtxPath)]
    BY <1>2, <1>3, <2>1
  <2> QED
    BY <2>2
<1>5. PICK t \in Seq(CtxPath) :
        /\ t = IF ext # NoExt THEN << >> ELSE FlattenSeq(lists)
        /\ Tried(ext) = s \o t
  <2>1. FlattenSeq(lists) \in Seq(CtxPath) /\ << >> \in Seq(CtxPath)
    BY <1>4, ListsBegin
  <2> QED
    BY <1>1, <1>3, <2>1 DEF Tried
<1>6. PICK u \in Nat : u = Len(t) /\ DOMAIN t = 1 .. u
  OBVIOUS
<1>7. PICK w \in Seq(CtxPath) : w = Tried(ext) /\ w = s \o t
  BY <1>5, ConcatProperties
<1>8. /\ Len(w) = l + u /\ DOMAIN w = 1 .. l + u
      /\ \A i \in 1 .. l + u : w[i] = IF i <= l THEN s[i] ELSE t[i - l]
  <2>1. /\ Len(s \o t) = Len(s) + Len(t)
        /\ \A i \in 1 .. Len(s) + Len(t) :
             (s \o t)[i] = IF i <= Len(s) THEN s[i] ELSE t[i - Len(s)]
    BY ConcatProperties
  <2> QED
    BY <1>1, <1>6, <1>7, <2>1
<1>9. ASSUME NEW e \in Fits(ext) PROVE \E k \in DOMAIN w : w[k] = e
  <2>1. /\ e.ext = ext \/ (ext = NoExt /\ e.ext \in ToSet(Extensions))
        /\ e.dir \in {Top} \cup ToSet(Folder(e.ext))
        /\ e = Asked(e.dir, e.ext)
    <3>1. e \in [dir : {e.dir}, asked : BOOLEAN, ext : {e.ext}] /\ e.asked
      BY ContextConstants DEF Fits
    <3>2. e = Asked(e.dir, e.ext)
      BY <3>1 DEF Asked
    <3> QED
      BY <3>2 DEF Fits
  <2>2. CASE e.ext = ext
    <3>1. PICK i \in 1 .. l : s[i] = e
      BY <1>1, <2>1, <2>2, TriedWithHolds
    <3>2. i \in 1 .. l + u /\ i <= l
      BY <1>6
    <3> QED
      BY <1>8, <3>1, <3>2
  <2>3. CASE ext = NoExt /\ e.ext \in ToSet(Extensions)
    <3>1. PICK i \in 1 .. m : x1[i] = e.ext
      BY <1>2, <2>3 DEF ToSet
    <3>2. i \in DOMAIN lists /\ lists[i] = TriedWith(e.ext)
      BY <1>2, <1>3, <1>4, <3>1
    <3>3. e.ext \in DOMAIN Patterns
      BY <1>2, <3>1
    <3>4. PICK j \in DOMAIN lists[i] : lists[i][j] = e
      BY <2>1, <3>2, <3>3, TriedWithHolds
    <3>5. PICK k \in 1 .. u : t[k] = e
      <4>1. \E k \in DOMAIN FlattenSeq(lists) : FlattenSeq(lists)[k] = lists[i][j]
        BY <1>4, <3>2, <3>4, JoinedHolds
      <4>2. t = FlattenSeq(lists)
        BY <1>5, <2>3
      <4> QED
        BY <1>6, <3>4, <4>1, <4>2
    <3>6. PICK n \in 1 .. l + u : n = l + k /\ ~(n <= l) /\ n - l = k
      BY <1>1
    <3> QED
      BY <1>8, <3>5, <3>6
  <2> QED
    BY <2>1, <2>2, <2>3
<1>10. Len(w) > 0
  BY <1>1, <1>6, <1>8
<1> QED
  BY <1>7, <1>9, <1>10

-----------------------------------------------------------------------------

SuggestSets == SUBSET [dir : PatternDirs, count : Nat \ {0}]
DirSets == SUBSET PatternDirs
EntrySets == SUBSET Entries

CtxQuery ==
  [pc : {"idle", "try", "suggest", "store", "found", "missing"},
   ext : CtxAsked, next : Nat, read : EntrySets, found : EntrySets,
   suggests : SuggestSets, scanned : DirSets]

CtxValues ==
  /\ ctxDisk \subseteq Entries /\ ctxClock \in 1 .. MaxCtxClock
  /\ DOMAIN listings \subseteq PatternDirs
  /\ \A d \in DOMAIN listings :
       listings[d].files \subseteq Entries /\ listings[d].at \in 1 .. ctxClock
  /\ ctxCall \in [CtxCaller -> CtxQuery]
  /\ ctxHeld \in [CtxCaller -> SUBSET ctxDisk]

\* None of the first n paths was there all the time.
NotHeld(ext, n, held) == \A i \in 1 .. n : Tried(ext)[i] \notin held

\* The directory is one of the first n whose listing is asked for.
AskedFor(dir, ext, n) ==
  \E i \in 1 .. n : i \in DOMAIN Folder(Wanted(ext)) /\ dir = Folder(Wanted(ext))[i]

\* How far a call has come, and what it can say of the disk.
Trying(query, held) ==
  /\ query.pc = "idle" => query.next = 1 /\ held = {}
  /\ query.pc = "try" => /\ query.next \in DOMAIN Tried(query.ext)
                         /\ NotHeld(query.ext, query.next - 1, held)
  /\ query.pc # "found" => query.found = {}
  /\ \A e \in query.found : TriedBefore(query.ext, e) \cap held = {}

Suggesting(query, held) ==
  /\ query.pc \notin {"suggest", "store", "missing"} =>
       query.suggests = {} /\ query.scanned = {}
  /\ query.pc \in {"suggest", "store", "missing"} =>
       /\ NotHeld(query.ext, Len(Tried(query.ext)), held) /\ query.next > 0
       /\ \A s \in query.suggests : AskedFor(s.dir, query.ext, query.next - 1)
       /\ \A d \in query.scanned : AskedFor(d, query.ext, query.next - 1)
  /\ query.pc = "store" => query.next <= Len(Folder(Wanted(query.ext)))
  /\ \A s \in query.suggests : s.dir \notin query.scanned

Located(query, held) == Trying(query, held) /\ Suggesting(query, held)

CtxInv == CtxValues /\ \A c \in CtxCaller : Located(ctxCall[c], ctxHeld[c])

\* Where an extension comes from.
LEMMA WantedType ==
  ASSUME NEW ext \in CtxAsked
  PROVE  ext \in DOMAIN Patterns /\ Wanted(ext) \in DOMAIN Patterns
BY ContextConstants DEF Wanted

LEMMA TriedLength ==
  ASSUME NEW ext \in DOMAIN Patterns
  PROVE  \E n \in Nat : n = Len(Tried(ext)) /\ n > 0 /\ DOMAIN Tried(ext) = 1 .. n
<1>1. PICK s \in Seq(CtxPath) : s = Tried(ext) /\ Len(s) > 0
  BY TriedHolds
<1>2. PICK n \in Nat : n = Len(s) /\ DOMAIN s = 1 .. n
  OBVIOUS
<1> QED
  BY <1>1, <1>2

LEMMA FolderLength ==
  ASSUME NEW ext \in CtxAsked
  PROVE  \E n \in Nat : /\ n = Len(Folder(Wanted(ext)))
                        /\ DOMAIN Folder(Wanted(ext)) = 1 .. n
                        /\ \A i \in 1 .. n : Folder(Wanted(ext))[i] \in PatternDirs
                        /\ \A i, j \in 1 .. n :
                             Folder(Wanted(ext))[i] = Folder(Wanted(ext))[j] => i = j
<1>1. PICK s \in Seq(PatternDirs) : s = Folder(Wanted(ext))
  BY WantedType, FolderType
<1>2. PICK n \in Nat : n = Len(s) /\ DOMAIN s = 1 .. n
  OBVIOUS
<1>3. IsInjective(s)
  <2>1. \A ex \in DOMAIN Patterns : IsInjective(Patterns[ex])
    BY ContextConstants
  <2> QED
    BY <1>1, <2>1, WantedType DEF Folder
<1>4. \A i, j \in 1 .. n : s[i] = s[j] => i = j
  BY <1>2, <1>3 DEF IsInjective
<1> QED
  BY <1>1, <1>2, <1>4

\* Where a call is does not depend on what has left the disk.
LEMMA LocatedShrinks ==
  ASSUME NEW query, NEW held, NEW less \in SUBSET held, Located(query, held)
  PROVE  Located(query, less)
<1>1. Trying(query, less)
  BY DEF Located, Trying, NotHeld
<1>2. Suggesting(query, less)
  BY DEF Located, Suggesting, NotHeld
<1> QED
  BY <1>1, <1>2 DEF Located

\* A call that moves alone.
LEMMA CallMoves ==
  ASSUME CtxInv, NEW c \in CtxCaller, NEW r \in CtxQuery, Becomes(c, r),
         UNCHANGED ctxHeld, Located(r, ctxHeld[c]),
         /\ DOMAIN listings' \subseteq PatternDirs
         /\ \A d \in DOMAIN listings' : /\ listings'[d].files \subseteq Entries
                                        /\ listings'[d].at \in 1 .. ctxClock
  PROVE  CtxInv'
<1>1. /\ ctxCall' = [ctxCall EXCEPT ![c] = r] /\ ctxCall \in [CtxCaller -> CtxQuery]
      /\ ctxDisk' = ctxDisk /\ ctxClock' = ctxClock /\ ctxHeld' = ctxHeld
  BY DEF CtxInv, CtxValues, Becomes
<1>2. CtxValues'
  BY <1>1 DEF CtxInv, CtxValues
<1>3. ASSUME NEW d \in CtxCaller PROVE Located(ctxCall'[d], ctxHeld'[d])
  <2>1. ctxCall'[d] = IF d = c THEN r ELSE ctxCall[d]
    BY <1>1
  <2> QED
    BY <1>1, <2>1 DEF CtxInv
<1> QED
  BY <1>2, <1>3 DEF CtxInv

LEMMA InitContext == CtxInit => CtxInv
<1> SUFFICES ASSUME CtxInit PROVE CtxInv
  OBVIOUS
<1>1. PICK ext \in [CtxCaller -> CtxAsked] :
        ctxCall = [c \in CtxCaller |-> NewQuery(ext[c])]
  BY DEF CtxInit
<1>2. ctxCall \in [CtxCaller -> CtxQuery]
  BY <1>1 DEF NewQuery, CtxQuery, SuggestSets, DirSets, EntrySets
<1>3. ctxDisk \subseteq Entries
  BY DEF CtxInit, Entries
<1>4. MaxCtxClock \in Nat \ {0}
  BY ContextConstants
<1>5. DOMAIN listings = {}
  BY DEF CtxInit
<1>6. CtxValues
  BY <1>2, <1>3, <1>4, <1>5 DEF CtxInit, CtxValues
<1>7. ASSUME NEW c \in CtxCaller PROVE Located(ctxCall[c], ctxHeld[c])
  <2>1. ctxCall[c] = NewQuery(ext[c]) /\ ctxHeld[c] = {}
    BY <1>1 DEF CtxInit
  <2> QED
    BY <2>1 DEF Located, Trying, Suggesting, NewQuery
<1> QED
  BY <1>6, <1>7 DEF CtxInv

\* The disk and the time move without the calls.
LEMMA DiskMoves == CtxInv /\ (DiskChanges \/ CtxTick \/ UNCHANGED ctxVars) => CtxInv'
<1> SUFFICES ASSUME CtxInv, DiskChanges \/ CtxTick \/ UNCHANGED ctxVars PROVE CtxInv'
  OBVIOUS
<1>1. CASE DiskChanges
  <2>1. ctxDisk' \subseteq Entries
    BY <1>1 DEF CtxInv, CtxValues, DiskChanges
  <2>2. /\ ctxHeld' = [c \in CtxCaller |-> ctxHeld[c] \cap ctxDisk']
        /\ ctxClock' = ctxClock /\ listings' = listings /\ ctxCall' = ctxCall
    BY <1>1 DEF DiskChanges
  <2>3. CtxValues'
    BY <2>1, <2>2 DEF CtxInv, CtxValues
  <2>4. ASSUME NEW c \in CtxCaller PROVE Located(ctxCall'[c], ctxHeld'[c])
    <3>1. ctxHeld'[c] \in SUBSET ctxHeld[c] /\ ctxCall'[c] = ctxCall[c]
      BY <2>2
    <3>2. Located(ctxCall[c], ctxHeld[c])
      BY DEF CtxInv
    <3> QED
      BY <3>1, <3>2, LocatedShrinks
  <2> QED
    BY <2>3, <2>4 DEF CtxInv
<1>2. CASE CtxTick \/ UNCHANGED ctxVars
  <2>1. /\ ctxDisk' = ctxDisk /\ listings' = listings /\ ctxCall' = ctxCall
        /\ ctxHeld' = ctxHeld
    BY <1>2 DEF CtxTick, ctxVars
  <2>2. ctxClock' \in 1 .. MaxCtxClock /\ ctxClock <= ctxClock' /\ ctxClock \in Nat
    <3>1. MaxCtxClock \in Nat
      BY ContextConstants
    <3> QED
      BY <1>2, <3>1 DEF CtxTick, ctxVars, CtxInv, CtxValues
  <2>3. \A n \in 1 .. ctxClock : n \in 1 .. ctxClock'
    BY <2>2
  <2>4. CtxValues'
    BY <2>1, <2>2, <2>3 DEF CtxInv, CtxValues
  <2> QED
    BY <2>1, <2>4 DEF CtxInv
<1> QED
  BY <1>1, <1>2

LEMMA AskStep == ASSUME CtxInv, NEW c \in CtxCaller, AskContext(c) PROVE CtxInv'
<1>1. PICK query \in CtxQuery : query = ctxCall[c] /\ Located(query, ctxHeld[c])
  BY DEF CtxInv, CtxValues
<1>2. PICK r : r = [query EXCEPT !.pc = "try"]
  OBVIOUS
<1>3. /\ r \in CtxQuery /\ r.pc = "try" /\ r.ext = query.ext /\ r.next = query.next
      /\ r.found = query.found /\ r.suggests = query.suggests
      /\ r.scanned = query.scanned /\ query.ext \in CtxAsked
  BY <1>2 DEF CtxQuery, SuggestSets, DirSets, EntrySets
<1>4. /\ query.pc = "idle" /\ ctxDisk' = ctxDisk /\ ctxClock' = ctxClock
      /\ ctxCall' = [ctxCall EXCEPT ![c] = r] /\ listings' = listings
      /\ ctxHeld' = [ctxHeld EXCEPT ![c] = ctxDisk]
  BY <1>1, <1>2 DEF AskContext, Becomes
<1>5. /\ query.next = 1 /\ query.found = {} /\ query.suggests = {}
      /\ query.scanned = {}
  BY <1>1, <1>4 DEF Located, Trying, Suggesting
<1>6. Located(r, ctxDisk)
  <2>1. 1 \in DOMAIN Tried(r.ext)
    BY <1>3, WantedType, TriedLength
  <2>2. NotHeld(r.ext, 1 - 1, ctxDisk)
    BY DEF NotHeld
  <2>3. Trying(r, ctxDisk)
    BY <1>3, <1>5, <2>1, <2>2 DEF Trying
  <2>4. Suggesting(r, ctxDisk)
    BY <1>3, <1>5 DEF Suggesting
  <2> QED
    BY <2>3, <2>4 DEF Located
<1>7. CtxValues'
  BY <1>3, <1>4 DEF CtxInv, CtxValues
<1>8. ASSUME NEW d \in CtxCaller PROVE Located(ctxCall'[d], ctxHeld'[d])
  <2>1. /\ ctxCall'[d] = IF d = c THEN r ELSE ctxCall[d]
        /\ ctxHeld'[d] = IF d = c THEN ctxDisk ELSE ctxHeld[d]
    BY <1>4 DEF CtxInv, CtxValues
  <2> QED
    BY <1>6, <2>1 DEF CtxInv
<1> QED
  BY <1>7, <1>8 DEF CtxInv

\* What the listings are, if they stay as they are.
LEMMA ListingsStay ==
  ASSUME CtxInv, listings' = listings
  PROVE  /\ DOMAIN listings' \subseteq PatternDirs
         /\ \A d \in DOMAIN listings' : /\ listings'[d].files \subseteq Entries
                                        /\ listings'[d].at \in 1 .. ctxClock
BY DEF CtxInv, CtxValues

LEMMA TryStep == ASSUME CtxInv, NEW c \in CtxCaller, TryPath(c) PROVE CtxInv'
<1>1. PICK query \in CtxQuery :
        query = ctxCall[c] /\ Located(query, ctxHeld[c]) /\ ctxHeld[c] \subseteq ctxDisk
  BY DEF CtxInv, CtxValues
<1>2. query.pc = "try" /\ listings' = listings /\ UNCHANGED ctxHeld
  BY <1>1 DEF TryPath
<1>3. PICK ext \in CtxAsked : ext = query.ext
  BY DEF CtxQuery, SuggestSets, DirSets, EntrySets
<1>4. PICK n \in Nat : n = Len(Tried(ext)) /\ n > 0 /\ DOMAIN Tried(ext) = 1 .. n
  BY WantedType, TriedLength
<1>5. PICK k \in 1 .. n : k = query.next /\ NotHeld(ext, k - 1, ctxHeld[c])
  BY <1>1, <1>2, <1>3, <1>4 DEF Located, Trying
<1>6. query.found = {} /\ query.suggests = {} /\ query.scanned = {}
  BY <1>1, <1>2 DEF Located, Trying, Suggesting
<1>7. PICK here : here = Tried(ext)[k]
  OBVIOUS
<1>8. CASE here \in ctxDisk /\ Becomes(c, [query EXCEPT !.pc = "found", !.found = {here}])
  <2>1. PICK r : r = [query EXCEPT !.pc = "found", !.found = {here}]
    OBVIOUS
  <2>2. here \in Entries
    BY <1>8 DEF CtxInv, CtxValues
  <2>3. /\ r \in CtxQuery /\ r.pc = "found" /\ r.ext = ext /\ r.found = {here}
        /\ r.suggests = {} /\ r.scanned = {}
    BY <1>3, <1>6, <2>1, <2>2 DEF CtxQuery, SuggestSets, DirSets, EntrySets
  <2>4. TriedBefore(ext, here) \cap ctxHeld[c] = {}
    <3> SUFFICES ASSUME NEW e \in TriedBefore(ext, here) PROVE e \notin ctxHeld[c]
      OBVIOUS
    <3>1. PICK j \in 1 .. n : /\ e = Tried(ext)[j]
                              /\ \A i \in 1 .. n : Tried(ext)[i] = here => j < i
      BY <1>4 DEF TriedBefore
    <3>2. j < k
      BY <1>7, <3>1
    <3>3. j \in 1 .. k - 1
      BY <3>2
    <3> QED
      BY <1>5, <3>1, <3>3 DEF NotHeld
  <2>5. Trying(r, ctxHeld[c])
    BY <2>3, <2>4 DEF Trying
  <2>6. Suggesting(r, ctxHeld[c])
    BY <2>3 DEF Suggesting
  <2>7. Located(r, ctxHeld[c])
    BY <2>5, <2>6 DEF Located
  <2> QED
    BY <1>2, <1>8, <2>1, <2>3, <2>7, ListingsStay, CallMoves
<1>9. CASE here \notin ctxDisk
  <2>1. here \notin ctxHeld[c]
    BY <1>1, <1>9
  <2>2. NotHeld(ext, k, ctxHeld[c])
    <3>1. ASSUME NEW i \in 1 .. k PROVE Tried(ext)[i] \notin ctxHeld[c]
      <4>1. i = k \/ i \in 1 .. k - 1
        OBVIOUS
      <4> QED
        BY <1>5, <1>7, <2>1, <4>1 DEF NotHeld
    <3> QED
      BY <3>1 DEF NotHeld
  <2>3. CASE k < n /\ Becomes(c, NextPath(c))
    <3>1. PICK r : r = [query EXCEPT !.next = @ + 1]
      OBVIOUS
    <3>2. /\ r \in CtxQuery /\ r.pc = "try" /\ r.ext = ext /\ r.next = k + 1
          /\ r.found = {} /\ r.suggests = {} /\ r.scanned = {}
      BY <1>2, <1>3, <1>5, <1>6, <3>1 DEF CtxQuery, SuggestSets, DirSets, EntrySets
    <3>3. k + 1 \in 1 .. n /\ (k + 1) - 1 = k
      BY <2>3
    <3>4. Trying(r, ctxHeld[c])
      BY <1>4, <2>2, <3>2, <3>3 DEF Trying
    <3>5. Suggesting(r, ctxHeld[c])
      BY <3>2 DEF Suggesting
    <3>6. Located(r, ctxHeld[c]) /\ Becomes(c, r)
      BY <1>1, <2>3, <3>1, <3>4, <3>5 DEF Located, NextPath
    <3> QED
      BY <1>2, <3>2, <3>6, ListingsStay, CallMoves
  <2>4. CASE k = n /\ Becomes(c, [query EXCEPT !.pc = "suggest", !.next = 1])
    <3>1. PICK r : r = [query EXCEPT !.pc = "suggest", !.next = 1]
      OBVIOUS
    <3>2. /\ r \in CtxQuery /\ r.pc = "suggest" /\ r.ext = ext /\ r.next = 1
          /\ r.found = {} /\ r.suggests = {} /\ r.scanned = {}
      BY <1>3, <1>6, <3>1 DEF CtxQuery, SuggestSets, DirSets, EntrySets
    <3>3. Trying(r, ctxHeld[c])
      BY <3>2 DEF Trying
    <3>4. Suggesting(r, ctxHeld[c])
      <4>1. NotHeld(r.ext, Len(Tried(r.ext)), ctxHeld[c])
        BY <1>4, <2>2, <2>4, <3>2
      <4> QED
        BY <3>2, <4>1 DEF Suggesting
    <3>5. Located(r, ctxHeld[c])
      BY <3>3, <3>4 DEF Located
    <3> QED
      BY <1>2, <2>4, <3>1, <3>2, <3>5, ListingsStay, CallMoves
  <2> QED
    BY <1>1, <1>3, <1>4, <1>5, <1>7, <1>9, <2>3, <2>4 DEF TryPath
<1> QED
  BY <1>1, <1>3, <1>5, <1>7, <1>8, <1>9 DEF TryPath

\* One directory more has been asked for.
LEMMA AskedForMore ==
  ASSUME NEW dir, NEW ext, NEW n \in Nat, AskedFor(dir, ext, n)
  PROVE  AskedFor(dir, ext, n + 1)
<1>1. PICK i \in 1 .. n : i \in DOMAIN Folder(Wanted(ext)) /\ dir = Folder(Wanted(ext))[i]
  BY DEF AskedFor
<1>2. i \in 1 .. n + 1
  OBVIOUS
<1> QED
  BY <1>1, <1>2 DEF AskedFor

\* A call that looks for suggestions and is done with a directory: what it has
\* found there, and whether it has listed it.
IsDone(query, dir, found, scanned, r) ==
  /\ query.pc \in {"suggest", "store"}
  /\ query.next <= Len(Folder(Wanted(query.ext)))
  /\ dir = Folder(Wanted(query.ext))[query.next]
  /\ found \subseteq [dir : {dir}, count : Nat \ {0}] /\ scanned \subseteq {dir}
  /\ found = {} \/ scanned = {}
  /\ r.pc = "suggest" /\ r.ext = query.ext /\ r.next = query.next + 1
  /\ r.found = query.found /\ r.suggests = query.suggests \cup found
  /\ r.scanned = query.scanned \cup scanned

LEMMA DirectoryDone ==
  ASSUME CtxInv, NEW c \in CtxCaller, NEW query \in CtxQuery, query = ctxCall[c],
         NEW dir, NEW found, NEW scanned, NEW r \in CtxQuery,
         IsDone(query, dir, found, scanned, r)
  PROVE  Located(r, ctxHeld[c])
<1>0. /\ query.pc \in {"suggest", "store"}
      /\ query.next <= Len(Folder(Wanted(query.ext)))
      /\ dir = Folder(Wanted(query.ext))[query.next]
      /\ found \subseteq [dir : {dir}, count : Nat \ {0}] /\ scanned \subseteq {dir}
      /\ found = {} \/ scanned = {}
      /\ r.pc = "suggest" /\ r.ext = query.ext /\ r.next = query.next + 1
      /\ r.found = query.found /\ r.suggests = query.suggests \cup found
      /\ r.scanned = query.scanned \cup scanned
  BY DEF IsDone
<1>1. Located(query, ctxHeld[c])
  BY DEF CtxInv
<1>2. PICK ext \in CtxAsked : ext = query.ext
  BY DEF CtxQuery, SuggestSets, DirSets, EntrySets
<1>3. PICK n \in Nat : /\ n = Len(Folder(Wanted(ext))) /\ DOMAIN Folder(Wanted(ext)) = 1 .. n
                       /\ \A i, j \in 1 .. n :
                            Folder(Wanted(ext))[i] = Folder(Wanted(ext))[j] => i = j
  BY FolderLength
<1>4. PICK k \in 1 .. n : k = query.next /\ (k - 1) + 1 = k /\ k - 1 \in Nat
  <2>1. query.next \in Nat /\ query.next > 0
    BY <1>0, <1>1 DEF Located, Suggesting, CtxQuery, SuggestSets, DirSets, EntrySets
  <2> QED
    BY <1>0, <1>2, <1>3, <2>1
<1>5. /\ NotHeld(ext, Len(Tried(ext)), ctxHeld[c])
      /\ \A s \in query.suggests : AskedFor(s.dir, ext, k - 1)
      /\ \A d \in query.scanned : AskedFor(d, ext, k - 1)
      /\ \A s \in query.suggests : s.dir \notin query.scanned
      /\ query.found = {}
  BY <1>0, <1>1, <1>2, <1>4 DEF Located, Trying, Suggesting
<1>6. Trying(r, ctxHeld[c])
  BY <1>0, <1>5 DEF Trying
<1>7. AskedFor(dir, ext, k) /\ ~AskedFor(dir, ext, k - 1)
  <2>1. AskedFor(dir, ext, k)
    <3>1. k \in 1 .. k
      OBVIOUS
    <3> QED
      BY <1>0, <1>2, <1>3, <1>4, <3>1 DEF AskedFor
  <2>2. ASSUME NEW i \in 1 .. k - 1, i \in 1 .. n PROVE dir # Folder(Wanted(ext))[i]
    BY <1>0, <1>2, <1>3, <1>4, <2>2
  <2> QED
    BY <1>3, <2>1, <2>2 DEF AskedFor
<1>8. ASSUME NEW s \in r.suggests PROVE AskedFor(s.dir, ext, k)
  <2>1. s \in query.suggests \/ s.dir = dir
    BY <1>0
  <2> QED
    BY <1>4, <1>5, <1>7, <2>1, AskedForMore
<1>9. ASSUME NEW d \in r.scanned PROVE AskedFor(d, ext, k)
  <2>1. d \in query.scanned \/ d = dir
    BY <1>0
  <2> QED
    BY <1>4, <1>5, <1>7, <2>1, AskedForMore
<1>10. ASSUME NEW s \in r.suggests PROVE s.dir \notin r.scanned
  <2>1. CASE s \in query.suggests
    <3>1. s.dir # dir
      BY <1>5, <1>7, <2>1
    <3> QED
      BY <1>0, <1>5, <2>1, <3>1
  <2>2. CASE s \in found
    <3>1. s.dir = dir /\ scanned = {}
      BY <1>0, <2>2
    <3>2. dir \notin query.scanned
      BY <1>5, <1>7
    <3> QED
      BY <1>0, <3>1, <3>2
  <2> QED
    BY <1>0, <2>1, <2>2
<1>11. Suggesting(r, ctxHeld[c])
  <2>1. r.next - 1 = k /\ r.next > 0 /\ r.ext = ext
    BY <1>0, <1>2, <1>4
  <2> QED
    BY <1>0, <1>5, <1>8, <1>9, <1>10, <2>1 DEF Suggesting
<1> QED
  BY <1>6, <1>11 DEF Located

\* Where a call that looks for suggestions is.
LEMMA AtDirectory ==
  ASSUME CtxInv, NEW c \in CtxCaller, ctxCall[c].pc \in {"suggest", "store"},
         ctxCall[c].next <= Len(Folder(Wanted(ctxCall[c].ext)))
  PROVE  /\ ctxCall[c] \in CtxQuery
         /\ Folder(Wanted(ctxCall[c].ext))[ctxCall[c].next] \in PatternDirs
<1>1. PICK query \in CtxQuery : query = ctxCall[c] /\ Located(query, ctxHeld[c])
  BY DEF CtxInv, CtxValues
<1>2. PICK ext \in CtxAsked : ext = query.ext
  BY DEF CtxQuery, SuggestSets, DirSets, EntrySets
<1>3. PICK n \in Nat : /\ n = Len(Folder(Wanted(ext)))
                       /\ \A i \in 1 .. n : Folder(Wanted(ext))[i] \in PatternDirs
  BY FolderLength
<1>4. query.next \in Nat /\ query.next > 0
  BY <1>1 DEF Located, Suggesting, CtxQuery, SuggestSets, DirSets, EntrySets
<1>5. query.next \in 1 .. n
  BY <1>1, <1>2, <1>3, <1>4
<1> QED
  BY <1>1, <1>2, <1>3, <1>5

LEMMA SuggestStep == ASSUME CtxInv, NEW c \in CtxCaller, Suggest(c) PROVE CtxInv'
<1>1. /\ ctxCall[c].pc = "suggest"
      /\ ctxCall[c].next <= Len(Folder(Wanted(ctxCall[c].ext)))
      /\ listings' = listings /\ UNCHANGED ctxHeld
  BY DEF Suggest
<1>2. PICK query \in CtxQuery : query = ctxCall[c]
  BY <1>1, AtDirectory
<1>3. PICK dir \in PatternDirs : dir = Folder(Wanted(query.ext))[query.next]
  BY <1>1, <1>2, AtDirectory
<1>4. PICK count : count = Cardinality({e \in listings[dir].files :
                                          e.ext = Wanted(query.ext)})
  OBVIOUS
<1>5. Fresh(dir) /\ Becomes(c, IF count = 0 THEN NextPath(c)
                               ELSE [NextPath(c) EXCEPT !.suggests = @ \cup
                                       {[dir |-> dir, count |-> count]}])
  BY <1>2, <1>3, <1>4 DEF Suggest
<1>6. count \in Nat
  <2>1. listings[dir].files \subseteq Entries
    BY <1>5 DEF CtxInv, CtxValues, Fresh
  <2>2. {e \in listings[dir].files : e.ext = Wanted(query.ext)} \subseteq Entries
    BY <2>1
  <2>3. IsFiniteSet(Entries)
    BY ContextConstants
  <2>4. IsFiniteSet({e \in listings[dir].files : e.ext = Wanted(query.ext)})
    BY <2>2, <2>3, FS_Subset
  <2> QED
    BY <1>4, <2>4, FS_CardinalityType
<1>7. PICK found \in SUBSET [dir : {dir}, count : Nat \ {0}] :
        found = IF count = 0 THEN {} ELSE {[dir |-> dir, count |-> count]}
  <2>1. count # 0 => [dir |-> dir, count |-> count] \in [dir : {dir}, count : Nat \ {0}]
    BY <1>6
  <2> QED
    BY <2>1
<1>8. PICK r : r = [query EXCEPT !.next = @ + 1, !.suggests = @ \cup found]
  OBVIOUS
<1>9. Becomes(c, r)
  <2>1. CASE count = 0
    <3>1. found = {} /\ query.suggests \cup found = query.suggests
      BY <1>7, <2>1
    <3>2. r = NextPath(c)
      BY <1>2, <1>8, <3>1 DEF NextPath, CtxQuery, SuggestSets, DirSets, EntrySets
    <3> QED
      BY <1>5, <2>1, <3>2
  <2>2. CASE count # 0
    <3>1. found = {[dir |-> dir, count |-> count]}
      BY <1>7, <2>2
    <3>2. r = [NextPath(c) EXCEPT !.suggests = @ \cup {[dir |-> dir, count |-> count]}]
      BY <1>2, <1>8, <3>1 DEF NextPath, CtxQuery, SuggestSets, DirSets, EntrySets
    <3> QED
      BY <1>5, <2>2, <3>2
  <2> QED
    BY <2>1, <2>2
<1>10. /\ r.pc = "suggest" /\ r.ext = query.ext /\ r.next = query.next + 1
       /\ r.found = query.found /\ r.suggests = query.suggests \cup found
       /\ r.scanned = query.scanned \cup {}
  BY <1>1, <1>2, <1>8 DEF CtxQuery, SuggestSets, DirSets, EntrySets
<1>11. r \in CtxQuery
  <2>1. found \subseteq [dir : PatternDirs, count : Nat \ {0}]
    BY <1>7
  <2>2. query.suggests \cup found \in SuggestSets
    BY <2>1 DEF CtxQuery, SuggestSets, DirSets, EntrySets
  <2>3. PICK all \in SuggestSets : all = query.suggests \cup found
    BY <2>2
  <2>4. r = [pc |-> query.pc, ext |-> query.ext, next |-> query.next + 1,
             read |-> query.read, found |-> query.found, suggests |-> all,
             scanned |-> query.scanned]
    BY <1>8, <2>3 DEF CtxQuery
  <2> QED
    BY <2>4 DEF CtxQuery
<1>12. Located(r, ctxHeld[c])
  <2>1. IsDone(query, dir, found, {}, r)
    BY <1>1, <1>2, <1>3, <1>7, <1>10 DEF IsDone
  <2> QED
    BY <1>2, <1>11, <2>1, DirectoryDone
<1> QED
  BY <1>1, <1>9, <1>11, <1>12, ListingsStay, CallMoves

LEMMA ReadStep == ASSUME CtxInv, NEW c \in CtxCaller, ReadListing(c) PROVE CtxInv'
<1>1. /\ ctxCall[c].pc = "suggest"
      /\ ctxCall[c].next <= Len(Folder(Wanted(ctxCall[c].ext)))
      /\ listings' = listings /\ UNCHANGED ctxHeld
  BY DEF ReadListing
<1>2. PICK query \in CtxQuery : query = ctxCall[c] /\ Located(query, ctxHeld[c])
  BY <1>1, AtDirectory DEF CtxInv
<1>3. PICK dir \in PatternDirs : dir = Folder(Wanted(query.ext))[query.next]
  BY <1>1, <1>2, AtDirectory
<1>4. CASE Becomes(c, NextPath(c))
  <2>1. PICK r : r = [query EXCEPT !.next = @ + 1]
    OBVIOUS
  <2>2. /\ r.pc = "suggest" /\ r.ext = query.ext /\ r.next = query.next + 1
        /\ r.found = query.found /\ r.suggests = query.suggests \cup {}
        /\ r.scanned = query.scanned \cup {} /\ r \in CtxQuery
    BY <1>1, <1>2, <2>1 DEF CtxQuery, SuggestSets, DirSets, EntrySets
  <2>3. Located(r, ctxHeld[c])
    <3>1. IsDone(query, dir, {}, {}, r)
      BY <1>1, <1>2, <1>3, <2>2 DEF IsDone
    <3> QED
      BY <1>2, <2>2, <3>1, DirectoryDone
  <2>4. Becomes(c, r)
    BY <1>2, <1>4, <2>1 DEF NextPath
  <2> QED
    BY <1>1, <2>2, <2>3, <2>4, ListingsStay, CallMoves
<1>5. ASSUME NEW read \in SUBSET Entries,
             Becomes(c, [query EXCEPT !.pc = "store", !.read = read])
      PROVE  CtxInv'
  <2>1. PICK r : r = [query EXCEPT !.pc = "store", !.read = read]
    OBVIOUS
  <2>2. /\ r.pc = "store" /\ r.ext = query.ext /\ r.next = query.next
        /\ r.found = query.found /\ r.suggests = query.suggests
        /\ r.scanned = query.scanned /\ r \in CtxQuery
    BY <2>1 DEF CtxQuery, SuggestSets, DirSets, EntrySets
  <2>3. query.pc = "suggest" /\ query.next <= Len(Folder(Wanted(query.ext)))
    BY <1>1, <1>2
  <2>4. Trying(r, ctxHeld[c])
    BY <1>2, <2>2, <2>3 DEF Located, Trying
  <2>5. Suggesting(r, ctxHeld[c])
    BY <1>2, <2>2, <2>3 DEF Located, Suggesting
  <2>6. Located(r, ctxHeld[c])
    BY <2>4, <2>5 DEF Located
  <2> QED
    BY <1>1, <1>5, <2>1, <2>2, <2>6, ListingsStay, CallMoves
<1>6. {e \in ctxDisk : e.dir = dir /\ ~IsFolder(e)} \in SUBSET Entries
  BY DEF CtxInv, CtxValues
<1> QED
  BY <1>2, <1>3, <1>4, <1>5, <1>6 DEF ReadListing

LEMMA StoreStep == ASSUME CtxInv, NEW c \in CtxCaller, StoreListing(c) PROVE CtxInv'
<1>1. ctxCall[c].pc = "store" /\ UNCHANGED ctxHeld
  BY DEF StoreListing
<1>2. ctxCall[c].next <= Len(Folder(Wanted(ctxCall[c].ext)))
  BY <1>1 DEF CtxInv, Located, Suggesting
<1>3. PICK query \in CtxQuery : query = ctxCall[c]
  BY <1>1, <1>2, AtDirectory
<1>4. PICK dir \in PatternDirs : dir = Folder(Wanted(query.ext))[query.next]
  BY <1>1, <1>2, <1>3, AtDirectory
<1>5. PICK r : r = [query EXCEPT !.next = @ + 1, !.pc = "suggest", !.read = {},
                                 !.scanned = @ \cup {dir}]
  OBVIOUS
<1>6. /\ r.pc = "suggest" /\ r.ext = query.ext /\ r.next = query.next + 1
      /\ r.found = query.found /\ r.suggests = query.suggests \cup {}
      /\ r.scanned = query.scanned \cup {dir} /\ r \in CtxQuery
  <2>0. query.scanned \cup {dir} \in DirSets
    BY <1>4 DEF CtxQuery, DirSets
  <2>1. PICK all \in DirSets : all = query.scanned \cup {dir}
    BY <2>0
  <2>2. r = [pc |-> "suggest", ext |-> query.ext, next |-> query.next + 1,
             read |-> {}, found |-> query.found, suggests |-> query.suggests,
             scanned |-> all]
    BY <1>5, <2>1 DEF CtxQuery
  <2>3. /\ r.pc = "suggest" /\ r.ext = query.ext /\ r.next = query.next + 1
        /\ r.found = query.found /\ r.suggests = query.suggests /\ r.scanned = all
        /\ r \in CtxQuery
    <3>1. {} \in EntrySets
      BY DEF EntrySets
    <3> QED
      BY <2>2, <3>1 DEF CtxQuery
  <2> QED
    BY <2>1, <2>3
<1>7. Becomes(c, r)
  <2>1. r = [NextPath(c) EXCEPT !.pc = "suggest", !.read = {},
                                !.scanned = @ \cup {dir}]
    BY <1>3, <1>5 DEF NextPath, CtxQuery, SuggestSets, DirSets, EntrySets
  <2> QED
    BY <1>3, <1>4, <2>1 DEF StoreListing
<1>8. Located(r, ctxHeld[c])
  <2>1. IsDone(query, dir, {}, {dir}, r)
    BY <1>1, <1>2, <1>3, <1>4, <1>6 DEF IsDone
  <2> QED
    BY <1>3, <1>6, <2>1, DirectoryDone
<1>9. PICK new : new = [files |-> query.read, at |-> ctxClock]
  OBVIOUS
<1>10. listings' = [d \in DOMAIN listings \cup {dir} |->
                      IF d = dir THEN new ELSE listings[d]]
  BY <1>3, <1>4, <1>9 DEF StoreListing
<1>11. new.files \subseteq Entries /\ new.at \in 1 .. ctxClock
  <2>1. ctxClock \in 1 .. ctxClock
    BY ContextConstants DEF CtxInv, CtxValues
  <2> QED
    BY <1>9, <2>1 DEF CtxQuery, SuggestSets, DirSets, EntrySets
<1>12. DOMAIN listings' \subseteq PatternDirs
  BY <1>10 DEF CtxInv, CtxValues
<1>13. ASSUME NEW d \in DOMAIN listings'
       PROVE  listings'[d].files \subseteq Entries /\ listings'[d].at \in 1 .. ctxClock
  <2>1. d \in DOMAIN listings \cup {dir} /\ listings'[d] = IF d = dir THEN new ELSE listings[d]
    BY <1>10
  <2> QED
    BY <1>11, <2>1 DEF CtxInv, CtxValues
<1> QED
  BY <1>1, <1>6, <1>7, <1>8, <1>12, <1>13, CallMoves

LEMMA MissingStep == ASSUME CtxInv, NEW c \in CtxCaller, ContextMissing(c) PROVE CtxInv'
<1>1. PICK query \in CtxQuery : query = ctxCall[c] /\ Located(query, ctxHeld[c])
  BY DEF CtxInv, CtxValues
<1>2. PICK r : r = [query EXCEPT !.pc = "missing"]
  OBVIOUS
<1>3. /\ query.pc = "suggest" /\ listings' = listings /\ UNCHANGED ctxHeld
      /\ Becomes(c, r)
  BY <1>1, <1>2 DEF ContextMissing
<1>4. /\ r.pc = "missing" /\ r.ext = query.ext /\ r.next = query.next
      /\ r.found = query.found /\ r.suggests = query.suggests
      /\ r.scanned = query.scanned /\ r \in CtxQuery
  BY <1>2 DEF CtxQuery, SuggestSets, DirSets, EntrySets
<1>5. Trying(r, ctxHeld[c])
  BY <1>1, <1>3, <1>4 DEF Located, Trying
<1>6. Suggesting(r, ctxHeld[c])
  BY <1>1, <1>3, <1>4 DEF Located, Suggesting
<1>7. Located(r, ctxHeld[c])
  BY <1>5, <1>6 DEF Located
<1> QED
  BY <1>3, <1>4, <1>7, ListingsStay, CallMoves

LEMMA NextContext == CtxInv /\ (CtxNext \/ UNCHANGED ctxVars) => CtxInv'
<1> SUFFICES ASSUME CtxInv, CtxNext \/ UNCHANGED ctxVars PROVE CtxInv'
  OBVIOUS
<1>1. ASSUME NEW c \in CtxCaller, ContextStep(c) PROVE CtxInv'
  BY <1>1, AskStep, TryStep, SuggestStep, ReadStep, StoreStep, MissingStep
     DEF ContextStep
<1> QED
  BY <1>1, DiskMoves DEF CtxNext

LEMMA ContextHolds == CtxInv => ContextSound
<1> SUFFICES ASSUME CtxInv, NEW c \in CtxCaller
             PROVE  /\ \A e \in ctxCall[c].found :
                         TriedBefore(ctxCall[c].ext, e) \cap ctxHeld[c] = {}
                    /\ ctxCall[c].pc = "missing" =>
                         Fits(ctxCall[c].ext) \cap ctxHeld[c] = {}
                    /\ \A s \in ctxCall[c].suggests :
                         s.count > 0 /\ s.dir \notin ctxCall[c].scanned
  BY DEF ContextSound
<1>1. PICK query \in CtxQuery : query = ctxCall[c] /\ Located(query, ctxHeld[c])
  BY DEF CtxInv, CtxValues
<1>2. PICK ext \in CtxAsked : ext = query.ext
  BY DEF CtxQuery, SuggestSets, DirSets, EntrySets
<1>3. \A e \in query.found : TriedBefore(ext, e) \cap ctxHeld[c] = {}
  BY <1>1, <1>2 DEF Located, Trying
<1>4. query.pc = "missing" => Fits(ext) \cap ctxHeld[c] = {}
  <2> SUFFICES ASSUME query.pc = "missing", NEW e \in Fits(ext) PROVE e \notin ctxHeld[c]
    OBVIOUS
  <2>1. PICK n \in Nat : n = Len(Tried(ext)) /\ DOMAIN Tried(ext) = 1 .. n
    BY WantedType, TriedLength
  <2>2. PICK k \in 1 .. n : Tried(ext)[k] = e
    BY <2>1, WantedType, TriedHolds
  <2>3. NotHeld(ext, n, ctxHeld[c])
    BY <1>1, <1>2, <2>1 DEF Located, Suggesting
  <2> QED
    BY <2>2, <2>3 DEF NotHeld
<1>5. \A s \in query.suggests : s.count > 0 /\ s.dir \notin query.scanned
  <2>1. \A s \in query.suggests : s.count \in Nat \ {0}
    BY DEF CtxQuery, SuggestSets, DirSets, EntrySets
  <2>2. \A s \in query.suggests : s.dir \notin query.scanned
    BY <1>1 DEF Located, Suggesting
  <2> QED
    BY <2>1, <2>2
<1> QED
  BY <1>1, <1>2, <1>3, <1>4, <1>5

-----------------------------------------------------------------------------
(* PathMapping. *)

\* What follows the first segments, as many as r has.
Beyond(segs, r) == SubSeq(segs, Len(r) + 1, Len(segs))

LEMMA OwnElements ==
  ASSUME NEW S, NEW s \in Seq(S)
  PROVE  s \in Seq(ToSet(s))
<1>1. PICK n \in Nat : s \in [1 .. n -> S]
  BY LenProperties
<1>2. s \in [1 .. n -> ToSet(s)]
  BY <1>1 DEF ToSet
<1> QED
  BY <1>2

\* Paths that are put together.
LEMMA SegmentsJoined ==
  ASSUME NEW r, NEW s, AreSegments(r), AreSegments(s)
  PROVE  AreSegments(r \o s) /\ IsPrefix(r, r \o s) /\ Beyond(r \o s, r) = s
<1>1. PICK S : S = ToSet(r) \cup ToSet(s)
  OBVIOUS
<1>2. r \in Seq(S) /\ s \in Seq(S)
  <2>1. ToSet(r) \subseteq S /\ ToSet(s) \subseteq S
    BY <1>1
  <2>2. r \in Seq(ToSet(r)) /\ s \in Seq(ToSet(s))
    BY DEF AreSegments
  <2>3. r \in Seq(S)
    BY <2>1, <2>2, SeqMonotonic
  <2>4. s \in Seq(S)
    BY <2>1, <2>2, SeqMonotonic
  <2> QED
    BY <2>3, <2>4
<1>3. PICK l \in Nat, n \in Nat : /\ l = Len(r) /\ n = Len(s)
                                  /\ DOMAIN r = 1 .. l /\ DOMAIN s = 1 .. n
  BY <1>2, LenProperties
<1>4. PICK q : q = r \o s
  OBVIOUS
<1>5. /\ q \in Seq(S) /\ Len(q) = l + n /\ DOMAIN q = 1 .. l + n
      /\ \A i \in 1 .. l + n : q[i] = IF i <= l THEN r[i] ELSE s[i - l]
  <2>1. /\ r \o s \in Seq(S) /\ Len(r \o s) = Len(r) + Len(s)
        /\ \A i \in 1 .. Len(r) + Len(s) :
             (r \o s)[i] = IF i <= Len(r) THEN r[i] ELSE s[i - Len(r)]
    BY <1>2, ConcatProperties
  <2>2. q \in Seq(S) /\ Len(q) = l + n
    BY <1>3, <1>4, <2>1
  <2>3. DOMAIN q = 1 .. l + n
    BY <2>2, LenProperties
  <2> QED
    BY <1>3, <1>4, <2>1, <2>2, <2>3
<1>6. AreSegments(q)
  <2>1. q \in Seq(ToSet(q))
    BY <1>5, OwnElements
  <2>2. ASSUME NEW i \in 1 .. l + n PROVE IsSegment(q[i])
    <3>1. CASE i <= l
      <4>1. i \in 1 .. l
        BY <3>1
      <4> QED
        BY <1>3, <1>5, <3>1, <4>1 DEF AreSegments
    <3>2. CASE ~(i <= l)
      <4>1. i - l \in 1 .. n
        BY <3>2
      <4> QED
        BY <1>3, <1>5, <3>2, <4>1 DEF AreSegments
    <3> QED
      BY <3>1, <3>2
  <2> QED
    BY <1>5, <2>1, <2>2 DEF AreSegments
<1>7. IsPrefix(r, q)
  <2>1. Begins(r, q)
    BY <1>3, <1>5 DEF Begins
  <2>2. SubSeq(r, 1, l) = SubSeq(q, 1, l)
    <3>1. l <= Len(r) /\ l <= Len(q) /\ 0 \in Nat
      BY <1>3, <1>5
    <3>2. /\ SubSeq(r, 0 + 1, l) \in Seq(S) /\ Len(SubSeq(r, 0 + 1, l)) = l
          /\ \A i \in 1 .. l - 0 : SubSeq(r, 0 + 1, l)[i] = r[0 + i]
      BY <1>2, <3>1, PartOf
    <3>3. /\ SubSeq(q, 0 + 1, l) \in Seq(S) /\ Len(SubSeq(q, 0 + 1, l)) = l
          /\ \A i \in 1 .. l - 0 : SubSeq(q, 0 + 1, l)[i] = q[0 + i]
      BY <1>5, <3>1, PartOf
    <3>4. PICK sr, sq : sr = SubSeq(r, 1, l) /\ sq = SubSeq(q, 1, l)
      OBVIOUS
    <3>5. /\ sr \in Seq(S) /\ Len(sr) = l /\ \A i \in 1 .. l : sr[i] = r[i]
          /\ sq \in Seq(S) /\ Len(sq) = l /\ \A i \in 1 .. l : sq[i] = q[i]
      BY <3>2, <3>3, <3>4
    <3>6. \A i \in 1 .. l : sr[i] = sq[i]
      BY <1>5, <3>5
    <3>7. sr = sq
      BY <3>5, <3>6, SeqEqual
    <3> QED
      BY <3>4, <3>7
  <2> QED
    BY <1>3, <1>5, <2>2 DEF IsPrefix
<1>8. Beyond(q, r) = s
  <2>1. PICK b1 : b1 = SubSeq(q, l + 1, l + n)
    OBVIOUS
  <2>2. /\ b1 \in Seq(S) /\ Len(b1) = n /\ \A i \in 1 .. n : b1[i] = q[l + i]
    <3>1. /\ SubSeq(q, l + 1, l + n) \in Seq(S)
          /\ Len(SubSeq(q, l + 1, l + n)) = IF l <= l + n THEN l + n - l ELSE 0
          /\ \A i \in 1 .. l + n - l : SubSeq(q, l + 1, l + n)[i] = q[l + i]
      <4>1. l + n \in Nat /\ l + n <= Len(q)
        BY <1>5
      <4> QED
        BY <1>5, <4>1, PartOf
    <3>2. l <= l + n /\ l + n - l = n
      OBVIOUS
    <3> QED
      BY <2>1, <3>1, <3>2
  <2>3. ASSUME NEW i \in 1 .. n PROVE b1[i] = s[i]
    <3>1. PICK k \in 1 .. l + n : k = l + i /\ ~(k <= l) /\ k - l = i
      OBVIOUS
    <3> QED
      BY <1>5, <2>2, <3>1
  <2>4. b1 = s
    BY <1>2, <1>3, <2>2, <2>3, SeqEqual
  <2> QED
    BY <1>3, <1>5, <2>1, <2>4 DEF Beyond
<1> QED
  BY <1>4, <1>6, <1>7, <1>8

\* The segments of a path from some place on.
LEMMA SegmentsBeyond ==
  ASSUME NEW r, NEW q, AreSegments(r), AreSegments(q), Len(r) <= Len(q)
  PROVE  AreSegments(Beyond(q, r))
<1>1. PICK l \in Nat, n \in Nat : l = Len(r) /\ n = Len(q) /\ DOMAIN q = 1 .. n
  BY LenProperties DEF AreSegments
<1>2. PICK S : S = ToSet(q) /\ q \in Seq(S)
  BY DEF AreSegments
<1>3. PICK b1 : b1 = SubSeq(q, l + 1, n)
  OBVIOUS
<1>4. b1 \in Seq(S) /\ Len(b1) = n - l /\ \A i \in 1 .. n - l : b1[i] = q[l + i]
  <2>1. /\ SubSeq(q, l + 1, n) \in Seq(S)
        /\ Len(SubSeq(q, l + 1, n)) = IF l <= n THEN n - l ELSE 0
        /\ \A i \in 1 .. n - l : SubSeq(q, l + 1, n)[i] = q[l + i]
    <3>1. n <= Len(q)
      BY <1>1
    <3> QED
      BY <1>2, <3>1, PartOf
  <2> QED
    BY <1>1, <1>3, <2>1
<1>5. b1 \in Seq(ToSet(b1)) /\ DOMAIN b1 = 1 .. n - l
  <2>1. DOMAIN b1 = 1 .. n - l
    BY <1>4, LenProperties
  <2> QED
    BY <1>4, <2>1, OwnElements
<1>6. ASSUME NEW i \in 1 .. n - l PROVE IsSegment(b1[i])
  <2>1. l + i \in 1 .. n
    BY <1>1
  <2> QED
    BY <1>1, <1>4, <2>1 DEF AreSegments
<1> QED
  BY <1>1, <1>3, <1>5, <1>6 DEF AreSegments, Beyond

\* A path that begins with another.
LEMMA SegmentsSplit ==
  ASSUME NEW r, NEW q, AreSegments(r), AreSegments(q), IsPrefix(r, q)
  PROVE  AreSegments(Beyond(q, r)) /\ q = r \o Beyond(q, r)
<1>1. Len(r) <= Len(q)
  BY DEF IsPrefix
<1>2. AreSegments(Beyond(q, r))
  BY <1>1, SegmentsBeyond
<1>3. PICK l \in Nat, n \in Nat : /\ l = Len(r) /\ n = Len(q) /\ l <= n
  BY <1>1, LenProperties DEF AreSegments
<1>4. PICK S : S = ToSet(r) \cup ToSet(q)
  OBVIOUS
<1>5. r \in Seq(S) /\ q \in Seq(S)
  <2>1. ToSet(r) \subseteq S /\ ToSet(q) \subseteq S
    BY <1>4
  <2>2. r \in Seq(ToSet(r)) /\ q \in Seq(ToSet(q))
    BY DEF AreSegments
  <2>3. r \in Seq(S)
    BY <2>1, <2>2, SeqMonotonic
  <2>4. q \in Seq(S)
    BY <2>1, <2>2, SeqMonotonic
  <2> QED
    BY <2>3, <2>4
<1>6. Begins(r, q)
  <2>1. SubSeq(r, 1, l) = SubSeq(q, 1, l)
    BY <1>3 DEF IsPrefix
  <2>2. l <= Len(r) /\ l <= Len(q) /\ 0 \in Nat
    BY <1>3
  <2>3. \A i \in 1 .. l - 0 : SubSeq(r, 0 + 1, l)[i] = r[0 + i]
    BY <1>5, <2>2, PartOf
  <2>4. \A i \in 1 .. l - 0 : SubSeq(q, 0 + 1, l)[i] = q[0 + i]
    BY <1>5, <2>2, PartOf
  <2>5. PICK sr : sr = SubSeq(r, 1, l) /\ sr = SubSeq(q, 1, l)
    BY <2>1
  <2>6. \A i \in 1 .. l : sr[i] = r[i] /\ sr[i] = q[i]
    BY <2>3, <2>4, <2>5
  <2> QED
    BY <1>3, <2>6 DEF Begins
<1>7. BeginsUpTo(r, q, n)
  BY <1>3, <1>6 DEF BeginsUpTo
<1>8. r \o Following(r, q, n) = q
  BY <1>3, <1>5, <1>7, ReadsToEnd
<1>9. Following(r, q, n) = Beyond(q, r)
  BY <1>3 DEF Following, Beyond
<1> QED
  BY <1>2, <1>8, <1>9

\* The URI of what lies below a path.
FileURI(p, t) == [Name(Below(p, t)) EXCEPT !.uri = TRUE]

\* A path on Linux, its name and its URI.
LEMMA Renamed ==
  ASSUME NEW p, NEW t
  PROVE  /\ Below(p, t).root = "slash" /\ Below(p, t).segs = p.segs \o t
         /\ FileURI(p, t) = [uri |-> TRUE, odd |-> FALSE, back |-> FALSE,
                             root |-> "slash", segs |-> Below(p, t).segs]
         /\ NormalizeURI(Name(Below(p, t))) = FileURI(p, t)
         /\ URIToFilePath(FileURI(p, t)) = Name(Below(p, t))
         /\ Abs(Name(Below(p, t))) = Below(p, t)
         /\ Below(p, t) # Refused
<1>1. PICK q : q = p.segs \o t
  OBVIOUS
<1>2. Below(p, t) = [root |-> "slash", segs |-> q]
  BY <1>1 DEF Below
<1>3. Name(Below(p, t)) = [uri |-> FALSE, odd |-> FALSE, back |-> FALSE,
                           root |-> "slash", segs |-> q]
  BY <1>2 DEF Name
<1>4. FileURI(p, t) = [uri |-> TRUE, odd |-> FALSE, back |-> FALSE,
                       root |-> "slash", segs |-> q]
  <2>1. PICK n, r : /\ n = [uri |-> FALSE, odd |-> FALSE, back |-> FALSE,
                             root |-> r, segs |-> q]
                    /\ r = "slash"
    OBVIOUS
  <2>2. PICK h : h = [n EXCEPT !.uri = TRUE]
    OBVIOUS
  <2>3. h \in [uri : {TRUE}, odd : {FALSE}, back : {FALSE}, root : {r}, segs : {q}]
    BY <2>1, <2>2
  <2>4. h = FileURI(p, t)
    BY <1>3, <2>1, <2>2 DEF FileURI
  <2> QED
    BY <2>1, <2>3, <2>4
<1>5. Abs(Name(Below(p, t))) = [root |-> "slash", segs |-> q]
  BY <1>3 DEF Abs
<1>6. NormalizeURI(Name(Below(p, t))) = FileURI(p, t)
  <2>1. NormalizeURI(Name(Below(p, t)))
          = [Name(Abs(Name(Below(p, t)))) EXCEPT !.uri = TRUE]
    BY <1>3 DEF NormalizeURI, PathToFileURI
  <2>2. Abs(Name(Below(p, t))) = Below(p, t)
    BY <1>2, <1>5
  <2> QED
    BY <2>1, <2>2 DEF FileURI
<1>7. URIToFilePath(FileURI(p, t)) = Name(Below(p, t))
  <2>1. PICK u, r : /\ u = [uri |-> TRUE, odd |-> FALSE, back |-> FALSE,
                             root |-> r, segs |-> q]
                    /\ r = "slash"
    OBVIOUS
  <2>2. PICK h : h = [u EXCEPT !.uri = FALSE, !.odd = FALSE]
    OBVIOUS
  <2>3. h \in [uri : {FALSE}, odd : {FALSE}, back : {FALSE}, root : {r}, segs : {q}]
    BY <2>1, <2>2
  <2>4. h = Name(Below(p, t)) /\ u = FileURI(p, t)
    BY <1>3, <1>4, <2>1, <2>3
  <2> QED
    BY <2>1, <2>2, <2>4 DEF URIToFilePath
<1> QED
  BY <1>1, <1>2, <1>4, <1>5, <1>6, <1>7 DEF Refused

\* The path of a URI that a name becomes is that of the name, when the name
\* is not relative.
LEMMA NamePath ==
  ASSUME NEW g, IsForm(g), g.root # "none"
  PROVE  /\ IsForm(NormalizeURI(g)) /\ NormalizeURI(g).uri
         /\ NormalizeURI(g).odd => g.odd
         /\ NormalizeURI(g).root = g.root /\ NormalizeURI(g).segs = g.segs
         /\ URIToFilePath(NormalizeURI(g))
              = [uri |-> FALSE, odd |-> FALSE, back |-> FALSE,
                 root |-> g.root, segs |-> g.segs]
<1>1. PICK q, r, o, k, h : g = [uri |-> h, odd |-> o, back |-> k, root |-> r, segs |-> q]
                           /\ h \in BOOLEAN /\ o \in BOOLEAN /\ k \in BOOLEAN
                           /\ r \in Roots
  BY DEF IsForm
<1>2. r \in {"slash", "drive"} /\ AreSegments(q) /\ (h => ~k)
  BY <1>1 DEF IsForm, Roots
<1>3. CASE h
  <2>1. NormalizeURI(g) = g
    BY <1>1, <1>3 DEF NormalizeURI
  <2>2. k = FALSE /\ h = TRUE
    BY <1>1, <1>2, <1>3
  <2>3. URIToFilePath(g) = [uri |-> FALSE, odd |-> FALSE, back |-> FALSE,
                            root |-> r, segs |-> q]
    <3>1. PICK w : w = [g EXCEPT !.uri = FALSE, !.odd = FALSE]
      OBVIOUS
    <3>2. w \in [uri : {FALSE}, odd : {FALSE}, back : {FALSE}, root : {r}, segs : {q}]
      BY <1>1, <2>2, <3>1
    <3> QED
      BY <3>1, <3>2 DEF URIToFilePath
  <2> QED
    BY <1>1, <1>3, <2>1, <2>3
<1>4. CASE ~h
  <2>1. PICK w : w = [uri |-> TRUE, odd |-> FALSE, back |-> FALSE, root |-> r, segs |-> q]
    OBVIOUS
  <2>2. NormalizeURI(g) = PathToFileURI(g)
    BY <1>1, <1>4 DEF NormalizeURI
  <2>3. PathToFileURI(g) = w
    <3>1. CASE r = "drive"
      <4>1. PICK v : v = [Name(g) EXCEPT !.uri = TRUE]
        OBVIOUS
      <4>2. PathToFileURI(g) = v
        BY <1>1, <3>1, <4>1 DEF PathToFileURI
      <4>3. v \in [uri : {TRUE}, odd : {FALSE}, back : {FALSE}, root : {r}, segs : {q}]
        BY <1>1, <4>1 DEF Name
      <4> QED
        BY <2>1, <4>2, <4>3
    <3>2. CASE r = "slash"
      <4>1. Abs(g) = [root |-> "slash", segs |-> q]
        BY <1>1, <3>2 DEF Abs
      <4>2. PathToFileURI(g) = [Name(Abs(g)) EXCEPT !.uri = TRUE]
        BY <1>1, <3>2 DEF PathToFileURI
      <4> QED
        <5>1. Name(Abs(g)) = [uri |-> FALSE, odd |-> FALSE, back |-> FALSE,
                              root |-> r, segs |-> q]
          BY <3>2, <4>1 DEF Name
        <5>2. PICK v, n : /\ n = [uri |-> FALSE, odd |-> FALSE, back |-> FALSE,
                                  root |-> r, segs |-> q]
                          /\ v = [n EXCEPT !.uri = TRUE]
          OBVIOUS
        <5>3. v \in [uri : {TRUE}, odd : {FALSE}, back : {FALSE}, root : {r}, segs : {q}]
          BY <5>2
        <5> QED
          BY <2>1, <4>2, <5>1, <5>2, <5>3
    <3> QED
      BY <1>2, <3>1, <3>2
  <2>4. IsForm(w)
    BY <1>1, <1>2, <2>1 DEF IsForm, Roots
  <2>5. URIToFilePath(w) = [uri |-> FALSE, odd |-> FALSE, back |-> FALSE,
                            root |-> r, segs |-> q]
    <3>1. PICK v : v = [w EXCEPT !.uri = FALSE, !.odd = FALSE]
      OBVIOUS
    <3>2. v \in [uri : {FALSE}, odd : {FALSE}, back : {FALSE}, root : {r}, segs : {q}]
      BY <2>1, <3>1
    <3> QED
      BY <3>1, <3>2 DEF URIToFilePath
  <2> QED
    BY <1>1, <2>1, <2>2, <2>3, <2>4, <2>5
<1> QED
  BY <1>1, <1>3, <1>4

\* One name in place of several.
LEMMA GluedSegments ==
  ASSUME NEW g, IsForm(g)
  PROVE  AreSegments(Glued(g))
<1>1. AreSegments(g.segs)
  BY DEF IsForm
<1>2. PICK s : s = [name |-> g.segs, upper |-> FALSE, part |-> "whole"]
  OBVIOUS
<1>3. IsSegment(s)
  BY <1>2 DEF IsSegment, Part
<1>4. PICK t : t = <<s>>
  OBVIOUS
<1>5. t \in Seq({s}) /\ DOMAIN t = {1} /\ t[1] = s
  BY <1>4
<1>6. t \in Seq(ToSet(t))
  BY <1>5, OwnElements
<1>7. AreSegments(t)
  BY <1>3, <1>5, <1>6 DEF AreSegments
<1> QED
  BY <1>1, <1>2, <1>4, <1>7 DEF Glued

-----------------------------------------------------------------------------

\* A path is one of a file of the workspace.
OnDisk(p, w) == p \in {Below(w, s) : s \in DiskFiles}

LEMMA DiskSegments ==
  ASSUME NEW s \in DiskFiles
  PROVE  AreSegments(s) /\ s # << >> /\ \A i \in DOMAIN s : s[i].part # "rest"
BY PathConstants

LEMMA FilesOfWorkspace ==
  ASSUME NEW w, NEW q, AreSegments(w.segs), AreSegments(q)
  PROVE  OnDisk([root |-> "slash", segs |-> q], w)
           <=> IsPrefix(w.segs, q) /\ Beyond(q, w.segs) \in DiskFiles
<1>1. PICK p : p = [root |-> "slash", segs |-> q]
  OBVIOUS
<1>2. ASSUME OnDisk(p, w)
      PROVE  IsPrefix(w.segs, q) /\ Beyond(q, w.segs) \in DiskFiles
  <2>1. PICK s \in DiskFiles : p = Below(w, s)
    BY <1>2 DEF OnDisk
  <2>2. q = w.segs \o s
    BY <1>1, <2>1, Renamed
  <2>3. AreSegments(s)
    BY <2>1, DiskSegments
  <2> QED
    BY <2>2, <2>3, <2>1, SegmentsJoined
<1>3. ASSUME IsPrefix(w.segs, q), Beyond(q, w.segs) \in DiskFiles
      PROVE  OnDisk(p, w)
  <2>1. q = w.segs \o Beyond(q, w.segs)
    BY <1>3, SegmentsSplit
  <2>2. p = Below(w, Beyond(q, w.segs))
    BY <1>1, <2>1 DEF Below
  <2> QED
    BY <1>3, <2>2 DEF OnDisk
<1> QED
  BY <1>1, <1>2, <1>3

\* What lies below the workspace.
LEMMA BelowWorkspace ==
  ASSUME NEW w, NEW t, AreSegments(w.segs), AreSegments(t)
  PROVE  OnDisk(Below(w, t), w) <=> t \in DiskFiles
<1>1. PICK q : q = w.segs \o t
  OBVIOUS
<1>2. AreSegments(q) /\ IsPrefix(w.segs, q) /\ Beyond(q, w.segs) = t
  BY <1>1, SegmentsJoined
<1>3. Below(w, t) = [root |-> "slash", segs |-> q]
  BY <1>1 DEF Below
<1>4. OnDisk([root |-> "slash", segs |-> q], w)
        <=> IsPrefix(w.segs, q) /\ Beyond(q, w.segs) \in DiskFiles
  BY <1>2, FilesOfWorkspace
<1> QED
  BY <1>2, <1>3, <1>4

-----------------------------------------------------------------------------
\* A segment is one of the host's root but for its case.
LEMMA SameButForCase ==
  ASSUME NEW s, NEW h, IsSegment(s), IsSegment(h), ~h.upper, h.part = "whole"
  PROVE  s \in {h, [h EXCEPT !.upper = TRUE]} <=> s.name = h.name /\ s.part = "whole"
<1>1. PICK n, k, p : /\ s = [name |-> n, upper |-> k, part |-> p]
                     /\ k \in BOOLEAN
  BY DEF IsSegment
<1>2. PICK m, no, w : /\ h = [name |-> m, upper |-> no, part |-> w]
                      /\ no = FALSE /\ w = "whole"
  <2>1. PICK m, no, w : h = [name |-> m, upper |-> no, part |-> w] /\ no \in BOOLEAN
    BY DEF IsSegment
  <2>2. no = FALSE /\ w = "whole"
    BY <2>1
  <2> QED
    BY <2>1, <2>2
<1>3. PICK v, yes : v = [h EXCEPT !.upper = yes] /\ yes = TRUE
  OBVIOUS
<1>4. v \in [name : {m}, upper : {yes}, part : {w}]
  BY <1>2, <1>3
<1>5. v = [name |-> m, upper |-> yes, part |-> w] /\ v = [h EXCEPT !.upper = TRUE]
  BY <1>3, <1>4
<1>6. ASSUME s \in {h, v}
      PROVE  s.name = h.name /\ s.part = "whole"
  BY <1>2, <1>5, <1>6
<1>7. ASSUME s.name = h.name, s.part = "whole"
      PROVE  s \in {h, v}
  <2>1. n = m /\ p = w
    BY <1>1, <1>2, <1>7
  <2>2. k = no \/ k = yes
    BY <1>1, <1>2, <1>3
  <2> QED
    BY <1>1, <1>2, <1>5, <2>1, <2>2
<1> QED
  BY <1>5, <1>6, <1>7

\* The segments of the host's root.
LEMMA HostSegments ==
  /\ AreSegments(HostRoot.segs) /\ HostRoot.segs # << >>
  /\ \A i \in DOMAIN HostRoot.segs :
       ~HostRoot.segs[i].upper /\ HostRoot.segs[i].part = "whole"
BY PathConstants

\* A path that lies below the host's root.
OnHost(g) ==
  /\ g.root = HostRoot.root
  /\ Len(g.segs) >= Len(HostRoot.segs)
  /\ \A i \in DOMAIN HostRoot.segs :
       g.segs[i] \in {HostRoot.segs[i], [HostRoot.segs[i] EXCEPT !.upper = TRUE]}

\* What the mapper makes of a path: it knows the ones below the host's root,
\* and what it leaves of another one is no file of the workspace.
LEMMA HostPaths ==
  ASSUME NEW g, AreSegments(g.segs)
  PROVE  /\ OnHost(g) => HasPrefixFold(g, HostRoot)
         /\ HasPrefixFold(g, HostRoot) =>
              /\ AreSegments(After(g, HostRoot))
              /\ OnHost(g) => After(g, HostRoot) = Beyond(g.segs, HostRoot.segs)
              /\ ~OnHost(g) => After(g, HostRoot) \notin DiskFiles
<1>1. PICK q, h : q = g.segs /\ h = HostRoot.segs
  OBVIOUS
<1>2. AreSegments(q) /\ AreSegments(h)
  BY <1>1, HostSegments
<1>3. PICK n \in Nat, l \in Nat : /\ n = Len(q) /\ DOMAIN q = 1 .. n
                                  /\ l = Len(h) /\ DOMAIN h = 1 .. l
  BY <1>2, LenProperties DEF AreSegments
<1>4. l >= 1
  BY <1>1, <1>2, <1>3, HostSegments, EmptySeq DEF AreSegments
<1>5. ASSUME NEW i \in 1 .. l, l <= n
      PROVE  q[i] \in {h[i], [h[i] EXCEPT !.upper = TRUE]}
               <=> q[i].name = h[i].name /\ q[i].part = "whole"
  <2>1. i \in 1 .. n
    BY <1>5
  <2>2. IsSegment(q[i]) /\ IsSegment(h[i])
    BY <1>2, <1>3, <2>1 DEF AreSegments
  <2>3. ~h[i].upper /\ h[i].part = "whole"
    BY <1>1, <1>3, HostSegments
  <2> QED
    BY <2>2, <2>3, SameButForCase
<1>6. OnHost(g) <=> /\ g.root = HostRoot.root /\ l <= n
                    /\ \A i \in 1 .. l : q[i].name = h[i].name /\ q[i].part = "whole"
  <2>1. OnHost(g) <=> /\ g.root = HostRoot.root /\ n >= l
                      /\ \A i \in 1 .. l : q[i] \in {h[i], [h[i] EXCEPT !.upper = TRUE]}
    BY <1>1, <1>3 DEF OnHost
  <2>2. n >= l <=> l <= n
    OBVIOUS
  <2> QED
    BY <1>5, <2>1, <2>2
<1>7. HasPrefixFold(g, HostRoot)
        <=> /\ g.root = HostRoot.root /\ l <= n
            /\ \A i \in 1 .. l :
                 /\ q[i].name = h[i].name
                 /\ q[i].part = "whole" \/ (i = l /\ q[i].part = "long")
  BY <1>1, <1>3 DEF HasPrefixFold
<1>8. OnHost(g) => HasPrefixFold(g, HostRoot)
  BY <1>6, <1>7
<1>9. ASSUME HasPrefixFold(g, HostRoot)
      PROVE  /\ AreSegments(After(g, HostRoot))
             /\ OnHost(g) => After(g, HostRoot) = Beyond(g.segs, HostRoot.segs)
             /\ ~OnHost(g) => After(g, HostRoot) \notin DiskFiles
  <2>1. l <= n /\ l \in 1 .. l /\ l \in 1 .. n
    BY <1>4, <1>7, <1>9
  <2>2. PICK more : more = Beyond(q, h)
    OBVIOUS
  <2>3. AreSegments(more)
    BY <1>2, <1>3, <2>1, <2>2, SegmentsBeyond
  <2>4. CASE q[l].part = "long"
    <3>1. PICK v : v = [q[l] EXCEPT !.part = "rest"]
      OBVIOUS
    <3>2. PICK t : t = <<v>>
      OBVIOUS
    <3>3. After(g, HostRoot) = t \o more
      BY <1>1, <1>3, <2>2, <2>4, <3>1, <3>2 DEF After, Beyond
    <3>4. IsSegment(v) /\ v.part = "rest"
      <4>1. IsSegment(q[l])
        BY <1>2, <1>3, <2>1 DEF AreSegments
      <4>2. PICK m, k, p : q[l] = [name |-> m, upper |-> k, part |-> p] /\ k \in BOOLEAN
        BY <4>1 DEF IsSegment
      <4>3. PICK s, r : /\ s = [name |-> m, upper |-> k, part |-> p]
                        /\ r = "rest"
        OBVIOUS
      <4>4. PICK w : w = [s EXCEPT !.part = r]
        OBVIOUS
      <4>5. w \in [name : {m}, upper : {k}, part : {r}]
        BY <4>3, <4>4
      <4>6. v = w
        BY <3>1, <4>2, <4>3, <4>4
      <4> QED
        BY <4>2, <4>3, <4>5, <4>6 DEF IsSegment, Part
    <3>5. t \in Seq({v}) /\ Len(t) = 1 /\ DOMAIN t = {1} /\ t[1] = v
      BY <3>2
    <3>6. AreSegments(t)
      <4>1. t \in Seq(ToSet(t))
        BY <3>5, OwnElements
      <4> QED
        BY <3>4, <3>5, <4>1 DEF AreSegments
    <3>7. PICK after : after = t \o more
      OBVIOUS
    <3>8. AreSegments(after)
      BY <2>3, <3>6, <3>7, SegmentsJoined
    <3>9. 1 \in DOMAIN after /\ after[1] = v
      <4>1. PICK S : S = {v} \cup ToSet(more)
        OBVIOUS
      <4>2. t \in Seq(S) /\ more \in Seq(S)
        <5>1. {v} \subseteq S /\ ToSet(more) \subseteq S
          BY <4>1
        <5>2. more \in Seq(ToSet(more))
          BY <2>3 DEF AreSegments
        <5>3. t \in Seq(S)
          BY <3>5, <5>1, SeqMonotonic
        <5>4. more \in Seq(S)
          BY <5>1, <5>2, SeqMonotonic
        <5> QED
          BY <5>3, <5>4
      <4>3. /\ t \o more \in Seq(S) /\ Len(t \o more) = Len(t) + Len(more)
            /\ \A i \in 1 .. Len(t) + Len(more) :
                 (t \o more)[i] = IF i <= Len(t) THEN t[i] ELSE more[i - Len(t)]
        BY <4>2, ConcatProperties
      <4>4. Len(more) \in Nat
        BY <4>2, LenProperties
      <4>5. PICK k \in Nat : k = Len(after) /\ k = 1 + Len(more) /\ after \in Seq(S)
        BY <3>5, <3>7, <4>3, <4>4
      <4>6. DOMAIN after = 1 .. k /\ 1 \in 1 .. k
        <5>1. DOMAIN after = 1 .. k
          BY <4>5, LenProperties
        <5>2. 1 <= k
          BY <4>4, <4>5
        <5> QED
          BY <5>1, <5>2
      <4>7. 1 \in 1 .. Len(t) + Len(more)
        BY <3>5, <4>4
      <4>8. (t \o more)[1] = t[1]
        BY <3>5, <4>3, <4>7
      <4> QED
        BY <3>5, <3>7, <4>6, <4>8
    <3>10. after \notin DiskFiles
      BY <3>4, <3>9, DiskSegments
    <3>11. ~OnHost(g)
      BY <1>6, <2>1, <2>4
    <3> QED
      BY <3>3, <3>7, <3>8, <3>10, <3>11
  <2>5. CASE q[l].part # "long"
    <3>1. After(g, HostRoot) = more
      BY <1>1, <1>3, <2>2, <2>5 DEF After, Beyond
    <3>2. OnHost(g)
      BY <1>6, <1>7, <1>9, <2>5
    <3> QED
      BY <1>1, <2>2, <2>3, <3>1, <3>2
  <2> QED
    BY <2>4, <2>5
<1> QED
  BY <1>8, <1>9

-----------------------------------------------------------------------------
\* The mapper looks at the root and the segments of a path only.
LEMMA SamePath ==
  ASSUME NEW p, NEW g, p.root = g.root, p.segs = g.segs
  PROVE  /\ InContainer(p) <=> InContainer(g)
         /\ HasPrefixFold(p, HostRoot) <=> HasPrefixFold(g, HostRoot)
         /\ HostToContainer(p) = HostToContainer(g)
         /\ Abs(p) = IF p.root = "slash" THEN [root |-> "slash", segs |-> g.segs]
                     ELSE Below(Cwd, Glued(p))
<1>1. InContainer(p) <=> InContainer(g)
  BY DEF InContainer
<1>2. HasPrefixFold(p, HostRoot) <=> HasPrefixFold(g, HostRoot)
  BY DEF HasPrefixFold
<1>3. After(p, HostRoot) = After(g, HostRoot)
  BY DEF After
<1>4. HostToContainer(p) = HostToContainer(g)
  BY <1>2, <1>3 DEF HostToContainer
<1>5. Abs(p) = IF p.root = "slash" THEN [root |-> "slash", segs |-> g.segs]
               ELSE Below(Cwd, Glued(p))
  BY DEF Abs
<1> QED
  BY <1>1, <1>2, <1>4, <1>5

\* The container's root and the directory of a bridge without a mapper.
LEMMA RootSegments ==
  /\ ContainerRoot.root = "slash" /\ AreSegments(ContainerRoot.segs)
  /\ Cwd.root = "slash" /\ AreSegments(Cwd.segs)
BY PathConstants

\* What lies below a path has a name and a URI.
LEMMA BelowForm ==
  ASSUME NEW p, NEW t, AreSegments(p.segs), AreSegments(t)
  PROVE  /\ IsForm(Name(Below(p, t))) /\ IsForm(FileURI(p, t))
         /\ AreSegments(Below(p, t).segs)
<1>1. PICK q : q = Below(p, t).segs
  OBVIOUS
<1>2. AreSegments(q)
  <2>1. q = p.segs \o t
    BY <1>1, Renamed
  <2> QED
    BY <2>1, SegmentsJoined
<1>3. Name(Below(p, t)) = [uri |-> FALSE, odd |-> FALSE, back |-> FALSE,
                           root |-> "slash", segs |-> q]
  <2>1. Below(p, t).root = "slash"
    BY Renamed
  <2> QED
    BY <1>1, <2>1 DEF Name
<1>4. FileURI(p, t) = [uri |-> TRUE, odd |-> FALSE, back |-> FALSE,
                       root |-> "slash", segs |-> q]
  BY <1>1, Renamed
<1>5. IsForm(Name(Below(p, t)))
  BY <1>2, <1>3 DEF IsForm, Roots
<1>6. IsForm(FileURI(p, t))
  BY <1>2, <1>4 DEF IsForm, Roots
<1> QED
  BY <1>1, <1>2, <1>5, <1>6

\* A name that is not relative any more.
LEMMA RootedName ==
  ASSUME NEW f, IsForm(f)
  PROVE  /\ IsForm(Rooted(TRUE, f)) /\ Rooted(TRUE, f).root # "none"
         /\ f.root # "none" => Rooted(TRUE, f) = f
         /\ f.root = "none" => Rooted(TRUE, f) = Name(Below(ContainerRoot, f.segs))
         /\ Rooted(TRUE, URIToFilePath(f)).root = Rooted(TRUE, f).root
         /\ Rooted(TRUE, URIToFilePath(f)).segs = Rooted(TRUE, f).segs
<1>1. PICK q, r, o, k, h : f = [uri |-> h, odd |-> o, back |-> k, root |-> r, segs |-> q]
                           /\ h \in BOOLEAN /\ o \in BOOLEAN /\ k \in BOOLEAN
                           /\ r \in Roots
  BY DEF IsForm
<1>2. AreSegments(q) /\ (h => r # "none")
  BY <1>1 DEF IsForm
<1>3. PICK p : p = URIToFilePath(f)
  OBVIOUS
<1>4. p.uri = FALSE /\ p.root = r /\ p.segs = q
  <2>1. PICK s : s = [f EXCEPT !.uri = FALSE, !.odd = FALSE]
    OBVIOUS
  <2>2. s \in [uri : {FALSE}, odd : {FALSE}, back : {k}, root : {r}, segs : {q}]
    BY <1>1, <2>1
  <2> QED
    BY <1>3, <2>1, <2>2 DEF URIToFilePath
<1>5. CASE r # "none"
  <2>1. Rooted(TRUE, f) = f
    BY <1>1, <1>5 DEF Rooted
  <2>2. Rooted(TRUE, p) = p
    BY <1>4, <1>5 DEF Rooted
  <2>3. IsForm(f) /\ f.root = r /\ f.segs = q
    BY <1>1
  <2> QED
    BY <1>3, <1>4, <1>5, <2>1, <2>2, <2>3
<1>6. CASE r = "none"
  <2>1. PICK m : m = Name(Below(ContainerRoot, q))
    OBVIOUS
  <2>2. Rooted(TRUE, f) = m
    BY <1>1, <1>2, <1>6, <2>1 DEF Rooted
  <2>3. Rooted(TRUE, p) = m
    BY <1>4, <1>6, <2>1 DEF Rooted
  <2>4. IsForm(m)
    BY <1>2, <2>1, BelowForm, RootSegments
  <2>5. m.root = "slash"
    BY <2>1, Renamed DEF Name
  <2> QED
    BY <1>1, <1>3, <1>6, <2>1, <2>2, <2>3, <2>4, <2>5
<1> QED
  BY <1>5, <1>6

\* The URI and the path of a name below the container's root.
GoesTo(f, t) ==
  /\ AreSegments(t)
  /\ NormalizeURIForLSP(TRUE, f) = FileURI(ContainerRoot, t)
  /\ LocalPath(TRUE, f) = Below(ContainerRoot, t)

\* The three ways of a name with a path mapper: it lies in the container, on
\* the host, or in neither.
LEMMA ThreeWays ==
  ASSUME NEW f, IsForm(f), NEW g, g = Rooted(TRUE, f)
  PROVE  /\ InContainer(g) => /\ g.segs = ContainerRoot.segs \o Beyond(g.segs, ContainerRoot.segs)
                              /\ GoesTo(f, Beyond(g.segs, ContainerRoot.segs))
         /\ ~InContainer(g) /\ HasPrefixFold(g, HostRoot) => GoesTo(f, After(g, HostRoot))
         /\ ~InContainer(g) /\ ~HasPrefixFold(g, HostRoot) =>
              NormalizeURIForLSP(TRUE, f) = NormalizeURI(g) /\ LocalPath(TRUE, f) = Refused
<1>1. IsForm(g) /\ g.root # "none" /\ AreSegments(g.segs)
  <2>1. IsForm(g) /\ g.root # "none"
    BY RootedName
  <2> QED
    BY <2>1 DEF IsForm
<1>2. PICK u, p, l, c : /\ u = NormalizeURI(g) /\ p = URIToFilePath(u)
                        /\ l = Rooted(TRUE, URIToFilePath(f)) /\ c = ContainerRoot
  OBVIOUS
<1>3. p = [uri |-> FALSE, odd |-> FALSE, back |-> FALSE, root |-> g.root, segs |-> g.segs]
  BY <1>1, <1>2, NamePath
<1>4. l.root = g.root /\ l.segs = g.segs
  BY <1>2, RootedName
<1>5. /\ InContainer(p) <=> InContainer(g)
      /\ HostToContainer(p) = HostToContainer(g)
  BY <1>3, SamePath
<1>6. /\ InContainer(l) <=> InContainer(g)
      /\ HostToContainer(l) = HostToContainer(g)
      /\ Abs(l) = IF l.root = "slash" THEN [root |-> "slash", segs |-> g.segs]
                  ELSE Below(Cwd, Glued(l))
  BY <1>4, SamePath
<1>7. NormalizeURIForLSP(TRUE, f)
        = IF InContainer(g) THEN NormalizeURI(p)
          ELSE IF HostToContainer(g) # Refused THEN NormalizeURI(Name(HostToContainer(g)))
          ELSE u
  BY <1>2, <1>5 DEF NormalizeURIForLSP
<1>8. LocalPath(TRUE, f) = IF ~InContainer(g) THEN HostToContainer(g) ELSE Abs(l)
  BY <1>2, <1>6 DEF LocalPath
<1>9. ASSUME InContainer(g)
      PROVE  /\ g.segs = c.segs \o Beyond(g.segs, c.segs)
             /\ GoesTo(f, Beyond(g.segs, c.segs))
  <2>1. g.root = "slash" /\ IsPrefix(c.segs, g.segs)
    BY <1>2, <1>9 DEF InContainer
  <2>2. PICK t : t = Beyond(g.segs, c.segs)
    OBVIOUS
  <2>3. AreSegments(t) /\ g.segs = c.segs \o t
    BY <1>1, <1>2, <2>1, <2>2, RootSegments, SegmentsSplit
  <2>4. [root |-> "slash", segs |-> g.segs] = Below(c, t)
    BY <2>3 DEF Below
  <2>5. p = Name(Below(c, t))
    <3>1. Name(Below(c, t)) = [uri |-> FALSE, odd |-> FALSE, back |-> FALSE,
                               root |-> "slash", segs |-> g.segs]
      <4>1. Below(c, t).root = "slash" /\ Below(c, t).segs = g.segs
        BY <2>3, Renamed
      <4> QED
        BY <4>1 DEF Name
    <3> QED
      BY <1>3, <2>1, <3>1
  <2>6. NormalizeURI(p) = FileURI(c, t)
    BY <2>5, Renamed
  <2>7. Abs(l) = Below(c, t)
    BY <1>4, <1>6, <2>1, <2>4
  <2> QED
    BY <1>2, <1>7, <1>8, <1>9, <2>2, <2>3, <2>6, <2>7 DEF GoesTo
<1>10. ASSUME ~InContainer(g), HasPrefixFold(g, HostRoot)
       PROVE  GoesTo(f, After(g, HostRoot))
  <2>1. PICK t : t = After(g, HostRoot)
    OBVIOUS
  <2>2. AreSegments(t)
    BY <1>1, <1>10, <2>1, HostPaths
  <2>3. HostToContainer(g) = Below(c, t)
    BY <1>2, <1>10, <2>1 DEF HostToContainer
  <2>4. NormalizeURI(Name(Below(c, t))) = FileURI(c, t) /\ Below(c, t) # Refused
    BY Renamed
  <2> QED
    BY <1>2, <1>7, <1>8, <1>10, <2>1, <2>2, <2>3, <2>4 DEF GoesTo
<1>11. ASSUME ~InContainer(g), ~HasPrefixFold(g, HostRoot)
       PROVE  NormalizeURIForLSP(TRUE, f) = NormalizeURI(g) /\ LocalPath(TRUE, f) = Refused
  <2>1. HostToContainer(g) = Refused
    BY <1>11 DEF HostToContainer
  <2> QED
    BY <1>2, <1>7, <1>8, <1>11, <2>1
<1> QED
  BY <1>2, <1>9, <1>10, <1>11

\* A name of a file, if there is one, below the container's root.
Placed(f, t) ==
  /\ GoesTo(f, t)
  /\ Meant(TRUE, f) = t \/ (Meant(TRUE, f) = << >> /\ t \notin DiskFiles)

\* A name outside both roots.
Strays(f) ==
  /\ NormalizeURIForLSP(TRUE, f) = NormalizeURI(Rooted(TRUE, f))
  /\ LocalPath(TRUE, f) = Refused
  /\ Meant(TRUE, f) = << >>

LEMMA MeantByMapper ==
  ASSUME NEW f
  PROVE  Meant(TRUE, f) =
           IF f.root = "none" THEN f.segs
           ELSE IF InContainer(f) THEN Beyond(f.segs, ContainerRoot.segs)
           ELSE IF OnHost(f) THEN Beyond(f.segs, HostRoot.segs)
           ELSE << >>
<1>1. InContainer(f) <=> f.root = "slash" /\ IsPrefix(Workspace(TRUE).segs, f.segs)
  BY DEF InContainer, Workspace
<1>2. Workspace(TRUE) = ContainerRoot
  BY DEF Workspace
<1> QED
  BY <1>1, <1>2 DEF Meant, Beyond, OnHost

LEMMA MapperPlaces ==
  ASSUME NEW f, IsForm(f)
  PROVE  (\E t : Placed(f, t)) \/ Strays(f)
<1>1. PICK g : g = Rooted(TRUE, f)
  OBVIOUS
<1>2. IsForm(g) /\ AreSegments(g.segs) /\ AreSegments(f.segs)
  <2>1. IsForm(g)
    BY <1>1, RootedName
  <2> QED
    BY <2>1 DEF IsForm
<1>3. CASE f.root = "none"
  <2>1. g = Name(Below(ContainerRoot, f.segs))
    BY <1>1, <1>3, RootedName
  <2>2. PICK q : q = ContainerRoot.segs \o f.segs
    OBVIOUS
  <2>3. g.root = "slash" /\ g.segs = q
    <3>1. /\ Below(ContainerRoot, f.segs).root = "slash"
          /\ Below(ContainerRoot, f.segs).segs = q
      BY <2>2, Renamed
    <3> QED
      BY <2>1, <3>1 DEF Name
  <2>4. IsPrefix(ContainerRoot.segs, q) /\ Beyond(q, ContainerRoot.segs) = f.segs
    BY <1>2, <2>2, SegmentsJoined, RootSegments
  <2>5. InContainer(g)
    BY <2>3, <2>4 DEF InContainer
  <2>6. GoesTo(f, f.segs)
    BY <1>1, <2>3, <2>4, <2>5, ThreeWays
  <2>7. Placed(f, f.segs)
    BY <1>3, <2>6, MeantByMapper DEF Placed
  <2> QED
    BY <2>7
<1>4. CASE f.root # "none"
  <2>1. g = f
    BY <1>1, <1>4, RootedName
  <2>2. CASE InContainer(f)
    <3>1. GoesTo(f, Beyond(f.segs, ContainerRoot.segs))
      BY <1>1, <2>1, <2>2, ThreeWays
    <3>2. Placed(f, Beyond(f.segs, ContainerRoot.segs))
      BY <1>4, <2>2, <3>1, MeantByMapper DEF Placed
    <3> QED
      BY <3>2
  <2>3. CASE ~InContainer(f) /\ HasPrefixFold(f, HostRoot)
    <3>1. GoesTo(f, After(f, HostRoot))
      BY <1>1, <2>1, <2>3, ThreeWays
    <3>2. /\ OnHost(f) => After(f, HostRoot) = Beyond(f.segs, HostRoot.segs)
          /\ ~OnHost(f) => After(f, HostRoot) \notin DiskFiles
      BY <1>2, <2>3, HostPaths
    <3>3. Placed(f, After(f, HostRoot))
      BY <1>4, <2>3, <3>1, <3>2, MeantByMapper DEF Placed
    <3> QED
      BY <3>3
  <2>4. CASE ~InContainer(f) /\ ~HasPrefixFold(f, HostRoot)
    <3>1. ~OnHost(f)
      BY <1>2, <2>4, HostPaths
    <3>2. NormalizeURIForLSP(TRUE, f) = NormalizeURI(g) /\ LocalPath(TRUE, f) = Refused
      BY <1>1, <2>1, <2>4, ThreeWays
    <3>3. Strays(f)
      BY <1>1, <1>4, <2>4, <3>1, <3>2, MeantByMapper DEF Strays
    <3> QED
      BY <3>3
  <2> QED
    BY <2>2, <2>3, <2>4
<1> QED
  BY <1>3, <1>4

\* A URI that a name became stays the same.
LEMMA PlacedAgain ==
  ASSUME NEW t, AreSegments(t)
  PROVE  GoesTo(FileURI(ContainerRoot, t), t)
<1>1. PICK u : u = FileURI(ContainerRoot, t)
  OBVIOUS
<1>2. IsForm(u)
  BY <1>1, BelowForm, RootSegments
<1>3. PICK q : q = ContainerRoot.segs \o t
  OBVIOUS
<1>4. u.root = "slash" /\ u.segs = q
  BY <1>1, <1>3, Renamed
<1>5. IsPrefix(ContainerRoot.segs, q) /\ Beyond(q, ContainerRoot.segs) = t
  BY <1>3, SegmentsJoined, RootSegments
<1>6. Rooted(TRUE, u) = u /\ InContainer(u)
  BY <1>2, <1>4, <1>5, RootedName DEF InContainer
<1> QED
  BY <1>1, <1>2, <1>4, <1>5, <1>6, ThreeWays

LEMMA StraysAgain ==
  ASSUME NEW f, IsForm(f), NEW u, u = NormalizeURI(Rooted(TRUE, f)),
         ~InContainer(Rooted(TRUE, f)), ~HasPrefixFold(Rooted(TRUE, f), HostRoot)
  PROVE  NormalizeURIForLSP(TRUE, u) = u /\ LocalPath(TRUE, u) = Refused
<1>1. PICK g : g = Rooted(TRUE, f)
  OBVIOUS
<1>2. IsForm(g) /\ g.root # "none"
  BY <1>1, RootedName
<1>3. IsForm(u) /\ u.uri /\ u.root = g.root /\ u.segs = g.segs
  BY <1>1, <1>2, NamePath
<1>4. ~InContainer(u) /\ ~HasPrefixFold(u, HostRoot)
  BY <1>1, <1>3, SamePath
<1>5. Rooted(TRUE, u) = u
  BY <1>2, <1>3, RootedName
<1>6. NormalizeURI(u) = u
  BY <1>3 DEF NormalizeURI
<1> QED
  BY <1>3, <1>4, <1>5, <1>6, ThreeWays

\* What NamesSound says of a name, the URI it becomes and the one that is opened.
Resolved(m, f, u, o) ==
  LET s == Meant(m, f)
  IN  /\ m /\ s # << >> => u = FileURI(ContainerRoot, s)
      /\ o # Refused => u = o \/ (~m /\ f.odd)
      /\ s \in DiskFiles <=> o # Refused
      /\ ContentPath(m, f) = IF o = Refused THEN Refused
                             ELSE [root |-> o.root, segs |-> o.segs]

LEMMA FileURIKnown ==
  ASSUME NEW p, NEW t
  PROVE  /\ FileURI(p, t) # Refused
         /\ [root |-> FileURI(p, t).root, segs |-> FileURI(p, t).segs] = Below(p, t)
<1>1. PICK q : q = Below(p, t).segs
  OBVIOUS
<1>2. FileURI(p, t).root = "slash" /\ FileURI(p, t).segs = q
  BY <1>1, Renamed
<1>3. Below(p, t) = [root |-> "slash", segs |-> q]
  BY <1>1 DEF Below
<1>4. Refused.root = "refused"
  BY DEF Refused
<1> QED
  BY <1>2, <1>3, <1>4

\* With a path mapper.
LEMMA MapperResolves ==
  ASSUME NEW f, IsForm(f), NEW u, u = NormalizeURIForLSP(TRUE, f)
  PROVE  /\ NormalizeURIForLSP(TRUE, u) = u
         /\ Resolved(TRUE, f, u, EnsureDocumentOpen(TRUE, u))
<1>1. PICK o : o = EnsureDocumentOpen(TRUE, u)
  OBVIOUS
<1>2. o = IF OnDisk(LocalPath(TRUE, u), ContainerRoot)
            THEN NormalizeURI(Name(LocalPath(TRUE, u))) ELSE Refused
  BY <1>1 DEF EnsureDocumentOpen, OnDisk, Workspace
<1>3. ContentPath(TRUE, f) = IF OnDisk(LocalPath(TRUE, f), ContainerRoot)
                               THEN LocalPath(TRUE, f) ELSE Refused
  BY DEF ContentPath, OnDisk, Workspace
<1>4. << >> \notin DiskFiles
  BY DiskSegments
<1>5. ASSUME NEW t, Placed(f, t)
      PROVE  NormalizeURIForLSP(TRUE, u) = u /\ Resolved(TRUE, f, u, o)
  <2>1. /\ AreSegments(t) /\ u = FileURI(ContainerRoot, t)
        /\ LocalPath(TRUE, f) = Below(ContainerRoot, t)
        /\ Meant(TRUE, f) = t \/ (Meant(TRUE, f) = << >> /\ t \notin DiskFiles)
    BY <1>5 DEF Placed, GoesTo
  <2>2. NormalizeURIForLSP(TRUE, u) = u /\ LocalPath(TRUE, u) = Below(ContainerRoot, t)
    BY <2>1, PlacedAgain DEF GoesTo
  <2>3. OnDisk(Below(ContainerRoot, t), ContainerRoot) <=> t \in DiskFiles
    BY <2>1, BelowWorkspace, RootSegments
  <2>4. o = IF t \in DiskFiles THEN u ELSE Refused
    BY <1>2, <2>1, <2>2, <2>3, Renamed
  <2>5. u # Refused /\ [root |-> u.root, segs |-> u.segs] = Below(ContainerRoot, t)
    BY <2>1, FileURIKnown
  <2>6. ContentPath(TRUE, f) = IF t \in DiskFiles THEN Below(ContainerRoot, t) ELSE Refused
    BY <1>3, <2>1, <2>3
  <2>7. Meant(TRUE, f) # << >> => u = FileURI(ContainerRoot, Meant(TRUE, f))
    BY <2>1
  <2>8. o # Refused => u = o
    BY <2>4
  <2>9. Meant(TRUE, f) \in DiskFiles <=> o # Refused
    BY <1>4, <2>1, <2>4, <2>5
  <2>10. ContentPath(TRUE, f) = IF o = Refused THEN Refused
                                ELSE [root |-> o.root, segs |-> o.segs]
    BY <2>4, <2>5, <2>6
  <2> QED
    BY <2>2, <2>7, <2>8, <2>9, <2>10 DEF Resolved
<1>6. ASSUME Strays(f)
      PROVE  NormalizeURIForLSP(TRUE, u) = u /\ Resolved(TRUE, f, u, o)
  <2>1. /\ u = NormalizeURI(Rooted(TRUE, f)) /\ LocalPath(TRUE, f) = Refused
        /\ Meant(TRUE, f) = << >>
    BY <1>6 DEF Strays
  <2>2. ~InContainer(Rooted(TRUE, f)) /\ ~HasPrefixFold(Rooted(TRUE, f), HostRoot)
    BY <2>1, ThreeWays, Renamed DEF GoesTo
  <2>3. NormalizeURIForLSP(TRUE, u) = u /\ LocalPath(TRUE, u) = Refused
    BY <2>1, <2>2, StraysAgain
  <2>4. ~OnDisk(Refused, ContainerRoot)
    BY Renamed DEF OnDisk
  <2>5. o = Refused /\ ContentPath(TRUE, f) = Refused
    BY <1>2, <1>3, <2>1, <2>3, <2>4
  <2> QED
    BY <1>4, <2>1, <2>3, <2>5 DEF Resolved
<1> QED
  BY <1>1, <1>5, <1>6, MapperPlaces

\* The URI of a path on Linux, and that it is opened for a name.
PlainURI(q) ==
  [uri |-> TRUE, odd |-> FALSE, back |-> FALSE, root |-> "slash", segs |-> q]

LEMMA PlainForm ==
  /\ \A q : PlainURI(q).uri
  /\ \A u : IsForm(u) /\ u.uri /\ ~u.odd /\ u.root = "slash" => u = PlainURI(u.segs)
<1>1. ASSUME NEW q
      PROVE  PlainURI(q).uri
  <2>1. PICK r, u : /\ u = [uri |-> TRUE, odd |-> FALSE, back |-> FALSE, root |-> r, segs |-> q]
                    /\ r = "slash"
    OBVIOUS
  <2>2. u.uri
    BY <2>1
  <2> QED
    BY <2>1, <2>2 DEF PlainURI
<1>2. ASSUME NEW u, IsForm(u), u.uri, ~u.odd, u.root = "slash"
      PROVE  u = PlainURI(u.segs)
  <2>1. PICK q, r, d, k, h : u = [uri |-> h, odd |-> d, back |-> k, root |-> r, segs |-> q]
    BY <1>2 DEF IsForm
  <2>2. u.uri = h /\ u.odd = d /\ u.back = k /\ u.root = r /\ u.segs = q
    BY <2>1
  <2>3. /\ ~u.back /\ u.uri \in BOOLEAN /\ u.odd \in BOOLEAN /\ u.back \in BOOLEAN
    BY <1>2 DEF IsForm
  <2>4. h = TRUE /\ d = FALSE /\ k = FALSE
    BY <1>2, <2>2, <2>3
  <2> QED
    BY <1>2, <2>1, <2>2, <2>4 DEF PlainURI
<1> QED
  BY <1>1, <1>2

OpensAt(f, o, q) ==
  /\ o # Refused <=> IsPrefix(Cwd.segs, q) /\ Beyond(q, Cwd.segs) \in DiskFiles
  /\ o # Refused => o = PlainURI(q)
  /\ ContentPath(FALSE, f) = IF o = Refused THEN Refused
                             ELSE [root |-> o.root, segs |-> o.segs]

LiesAt(f, q) == LocalPath(FALSE, f) = [root |-> "slash", segs |-> q]

\* A file that is opened without a mapper, whose path is q.
LEMMA BareOpens ==
  ASSUME NEW f, NEW u, NEW q, AreSegments(q), LiesAt(u, q), LiesAt(f, q),
         NEW o, o = EnsureDocumentOpen(FALSE, u)
  PROVE  OpensAt(f, o, q)
<1>1. PICK p : p = [root |-> "slash", segs |-> q]
  OBVIOUS
<1>2. o = IF OnDisk(p, Cwd) THEN NormalizeURI(Name(p)) ELSE Refused
  BY <1>1 DEF EnsureDocumentOpen, OnDisk, Workspace, LiesAt
<1>3. ContentPath(FALSE, f) = IF OnDisk(p, Cwd) THEN p ELSE Refused
  BY <1>1 DEF LiesAt, ContentPath, OnDisk, Workspace
<1>4. OnDisk(p, Cwd) <=> IsPrefix(Cwd.segs, q) /\ Beyond(q, Cwd.segs) \in DiskFiles
  BY <1>1, FilesOfWorkspace, RootSegments
<1>5. ASSUME OnDisk(p, Cwd)
      PROVE  /\ NormalizeURI(Name(p)) = [uri |-> TRUE, odd |-> FALSE, back |-> FALSE,
                                         root |-> "slash", segs |-> q]
             /\ NormalizeURI(Name(p)) # Refused
             /\ p = [root |-> NormalizeURI(Name(p)).root,
                     segs |-> NormalizeURI(Name(p)).segs]
  <2>1. PICK s \in DiskFiles : p = Below(Cwd, s)
    BY <1>5 DEF OnDisk
  <2>2. NormalizeURI(Name(p)) = FileURI(Cwd, s)
    BY <2>1, Renamed
  <2>3. FileURI(Cwd, s) = [uri |-> TRUE, odd |-> FALSE, back |-> FALSE,
                           root |-> "slash", segs |-> q]
    BY <1>1, <2>1, Renamed
  <2>4. FileURI(Cwd, s) # Refused
    BY FileURIKnown
  <2>5. p = [root |-> FileURI(Cwd, s).root, segs |-> FileURI(Cwd, s).segs]
    BY <2>1, FileURIKnown
  <2> QED
    BY <2>2, <2>3, <2>4, <2>5
<1>6. o # Refused <=> OnDisk(p, Cwd)
  BY <1>2, <1>5
<1> QED
  BY <1>2, <1>3, <1>4, <1>5, <1>6 DEF OpensAt, PlainURI

\* Without a mapper nothing is put below the container's root.
LEMMA Bare ==
  ASSUME NEW f
  PROVE  /\ NormalizeURIForLSP(FALSE, f) = NormalizeURI(f)
         /\ LocalPath(FALSE, f) = Abs(URIToFilePath(f))
<1>1. Rooted(FALSE, f) = f /\ Rooted(FALSE, URIToFilePath(f)) = URIToFilePath(f)
  BY DEF Rooted
<1> QED
  BY <1>1 DEF NormalizeURIForLSP, LocalPath

\* The path of a name as it is written.
LEMMA WrittenPath ==
  ASSUME NEW f, IsForm(f)
  PROVE  Abs(URIToFilePath(f)) = IF f.root = "slash"
                                   THEN [root |-> "slash", segs |-> f.segs]
                                   ELSE Below(Cwd, Glued(f))
<1>1. PICK q, r, o, k, h : f = [uri |-> h, odd |-> o, back |-> k, root |-> r, segs |-> q]
  BY DEF IsForm
<1>2. PICK s, no : s = [f EXCEPT !.uri = no, !.odd = no] /\ no = FALSE
  OBVIOUS
<1>3. s \in [uri : {no}, odd : {no}, back : {k}, root : {r}, segs : {q}]
  BY <1>1, <1>2
<1>4. s = URIToFilePath(f)
  BY <1>2 DEF URIToFilePath
<1>5. s.root = f.root /\ s.segs = f.segs /\ s.back = f.back
  BY <1>1, <1>3
<1>6. Glued(s) = Glued(f)
  BY <1>5 DEF Glued
<1>7. Abs(s) = IF s.root = "slash" THEN [root |-> "slash", segs |-> s.segs]
               ELSE Below(Cwd, Glued(s))
  BY DEF Abs
<1> QED
  BY <1>4, <1>5, <1>6, <1>7

LEMMA MeantBare ==
  ASSUME NEW f
  PROVE  Meant(FALSE, f) =
           IF f.root = "none" THEN Glued(f)
           ELSE IF f.root = "slash" /\ IsPrefix(Cwd.segs, f.segs)
                  THEN Beyond(f.segs, Cwd.segs)
           ELSE << >>
<1>1. Workspace(FALSE) = Cwd
  BY DEF Workspace
<1> QED
  BY <1>1 DEF Meant, Beyond

LEMMA BareResolves ==
  ASSUME NEW f, IsForm(f), NEW u, u = NormalizeURIForLSP(FALSE, f),
         f.root = "drive" => f.segs \notin DiskFiles /\ Glued(f) \notin DiskFiles
  PROVE  /\ NormalizeURIForLSP(FALSE, u) = u
         /\ Resolved(FALSE, f, u, EnsureDocumentOpen(FALSE, u))
<1>1. PICK o : o = EnsureDocumentOpen(FALSE, u)
  OBVIOUS
<1>2. u = NormalizeURI(f) /\ AreSegments(f.segs) /\ f.root \in Roots
  <2>1. u = NormalizeURI(f)
    BY Bare
  <2>2. f.root \in Roots
    BY DEF IsForm
  <2> QED
    BY <2>1, <2>2 DEF IsForm
<1>3. << >> \notin DiskFiles
  BY DiskSegments
<1>4. NormalizeURIForLSP(FALSE, u) = NormalizeURI(u)
  BY Bare
<1>5. CASE f.root = "slash"
  <2>1. /\ IsForm(u) /\ u.uri /\ (u.odd => f.odd) /\ u.root = f.root /\ u.segs = f.segs
    BY <1>2, <1>5, NamePath
  <2>2. NormalizeURI(u) = u
    BY <2>1 DEF NormalizeURI
  <2>3. LiesAt(u, f.segs)
    BY <1>5, <2>1, Bare, WrittenPath DEF LiesAt
  <2>4. LiesAt(f, f.segs)
    BY <1>5, Bare, WrittenPath DEF LiesAt
  <2>5. OpensAt(f, o, f.segs)
    BY <1>1, <1>2, <2>3, <2>4, BareOpens
  <2>6. ASSUME ~f.odd
        PROVE  u = PlainURI(f.segs)
    <3>1. ~u.odd
      BY <2>1, <2>6
    <3> QED
      BY <1>5, <2>1, <3>1, PlainForm
  <2>7. o # Refused => u = o \/ f.odd
    BY <2>5, <2>6 DEF OpensAt
  <2>8. Meant(FALSE, f) \in DiskFiles <=> o # Refused
    BY <1>3, <1>5, <2>5, MeantBare DEF OpensAt
  <2> QED
    BY <1>1, <1>4, <2>2, <2>5, <2>7, <2>8 DEF Resolved, OpensAt
<1>6. CASE f.root = "none"
  <2>1. PICK t, q : t = Glued(f) /\ q = Cwd.segs \o t
    OBVIOUS
  <2>2. AreSegments(t)
    BY <2>1, GluedSegments
  <2>3. AreSegments(q) /\ IsPrefix(Cwd.segs, q) /\ Beyond(q, Cwd.segs) = t
    BY <2>1, <2>2, RootSegments, SegmentsJoined
  <2>4. ~f.uri
    BY <1>6 DEF IsForm
  <2>5. Abs(f) = Below(Cwd, t)
    BY <1>6, <2>1 DEF Abs
  <2>6. u = FileURI(Cwd, t)
    BY <1>2, <1>6, <2>4, <2>5 DEF NormalizeURI, PathToFileURI, FileURI
  <2>7. NormalizeURI(u) = u
    <3>1. u.uri
      <4>1. u = PlainURI(Below(Cwd, t).segs)
        BY <2>6, Renamed DEF PlainURI
      <4> QED
        BY <4>1, PlainForm
    <3> QED
      BY <3>1 DEF NormalizeURI
  <2>8. Below(Cwd, t) = [root |-> "slash", segs |-> q]
    BY <2>1 DEF Below
  <2>9. LiesAt(u, q)
    <3>1. URIToFilePath(u) = Name(Below(Cwd, t))
      BY <2>6, Renamed
    <3>2. Abs(Name(Below(Cwd, t))) = Below(Cwd, t)
      BY Renamed
    <3> QED
      BY <2>8, <3>1, <3>2, Bare DEF LiesAt
  <2>10. LiesAt(f, q)
    BY <1>6, <2>1, <2>8, Bare, WrittenPath DEF LiesAt
  <2>11. OpensAt(f, o, q)
    BY <1>1, <2>3, <2>9, <2>10, BareOpens
  <2>12. u = PlainURI(q)
    <3>1. Below(Cwd, t).segs = q
      BY <2>1, Renamed
    <3> QED
      BY <2>6, <3>1, Renamed DEF PlainURI
  <2>13. o # Refused => u = o
    BY <2>11, <2>12 DEF OpensAt
  <2>14. Meant(FALSE, f) \in DiskFiles <=> o # Refused
    BY <1>6, <2>1, <2>3, <2>11, MeantBare DEF OpensAt
  <2> QED
    BY <1>1, <1>4, <2>7, <2>11, <2>13, <2>14 DEF Resolved, OpensAt
<1>7. CASE f.root = "drive"
  <2>1. /\ IsForm(u) /\ u.uri /\ u.root = f.root /\ u.segs = f.segs
    BY <1>2, <1>7, NamePath
  <2>2. NormalizeURI(u) = u
    BY <2>1 DEF NormalizeURI
  <2>3. Glued(u) = f.segs
    BY <2>1 DEF IsForm, Glued
  <2>4. LocalPath(FALSE, u) = Below(Cwd, f.segs)
    BY <1>7, <2>1, <2>3, Bare, WrittenPath
  <2>5. LocalPath(FALSE, f) = Below(Cwd, Glued(f))
    BY <1>7, Bare, WrittenPath
  <2>6. ~OnDisk(LocalPath(FALSE, u), Cwd)
    BY <1>2, <1>7, <2>4, BelowWorkspace, RootSegments
  <2>7. ~OnDisk(LocalPath(FALSE, f), Cwd)
    BY <1>7, <2>5, BelowWorkspace, GluedSegments, RootSegments
  <2>8. o = Refused
    BY <1>1, <2>6 DEF EnsureDocumentOpen, OnDisk, Workspace
  <2>9. ContentPath(FALSE, f) = Refused
    BY <2>7 DEF ContentPath, OnDisk, Workspace
  <2>10. Meant(FALSE, f) = << >>
    BY <1>7, MeantBare
  <2> QED
    BY <1>1, <1>3, <1>4, <2>2, <2>8, <2>9, <2>10 DEF Resolved
<1> QED
  BY <1>2, <1>5, <1>6, <1>7 DEF Roots

-----------------------------------------------------------------------------
\* What the stages of a name have made of it.
PathInv ==
  /\ pathCase \in PathCases
  /\ pathStage \in {"tool", "bridge", "open", "end"}
  /\ pathStage = "tool" => pathURI = pathCase.form
  /\ pathURI \in {pathCase.form, NormalizeURIForLSP(pathCase.mapper, pathCase.form)}
  /\ pathStage \in {"open", "end"} =>
       pathURI = NormalizeURIForLSP(pathCase.mapper, pathCase.form)
  /\ openedURI = IF pathStage = "end" THEN EnsureDocumentOpen(pathCase.mapper, pathURI)
                 ELSE Refused

\* A name that is normalized twice is normalized.
LEMMA CaseResolves ==
  ASSUME NEW c \in PathCases, NEW u, u = NormalizeURIForLSP(c.mapper, c.form)
  PROVE  /\ NormalizeURIForLSP(c.mapper, u) = u
         /\ Resolved(c.mapper, c.form, u, EnsureDocumentOpen(c.mapper, u))
<1>1. /\ c.mapper \in BOOLEAN /\ IsForm(c.form)
      /\ c.form.root = "drive" =>
           c.form.segs \notin DiskFiles /\ Glued(c.form) \notin DiskFiles
  BY PathConstants
<1>2. CASE c.mapper
  <2>1. PICK m : m = c.mapper /\ m = TRUE
    BY <1>1, <1>2
  <2> QED
    BY <1>1, <2>1, MapperResolves
<1>3. CASE ~c.mapper
  <2>1. PICK m : m = c.mapper /\ m = FALSE
    BY <1>1, <1>3
  <2> QED
    BY <1>1, <2>1, BareResolves
<1> QED
  BY <1>2, <1>3

LEMMA InitNames ==
  PathInit => PathInv
BY DEF PathInit, PathInv

LEMMA NextNames ==
  PathInv /\ (PathNext \/ UNCHANGED pathVars) => PathInv'
<1> SUFFICES ASSUME PathInv, PathNext \/ UNCHANGED pathVars
             PROVE  PathInv'
  OBVIOUS
<1>1. PICK u : u = NormalizeURIForLSP(pathCase.mapper, pathCase.form)
  OBVIOUS
<1>2. CASE Normalize
  <2>1. NormalizeURIForLSP(pathCase.mapper, u) = u
    BY <1>1, CaseResolves DEF PathInv
  <2>2. pathURI' = u
    BY <1>1, <1>2, <2>1 DEF PathInv, Normalize
  <2>3. pathCase' = pathCase /\ pathStage' \in {"bridge", "open"}
    BY <1>2 DEF Normalize
  <2>4. openedURI' = Refused
    BY <1>2 DEF Normalize, PathInv
  <2> QED
    BY <1>1, <2>2, <2>3, <2>4 DEF PathInv
<1>3. CASE OpenName
  BY <1>3 DEF PathInv, OpenName
<1>4. CASE UNCHANGED pathVars
  BY <1>4 DEF PathInv, pathVars
<1> QED
  BY <1>2, <1>3, <1>4 DEF PathNext

\* Names stay names.
LEMMA NormalForm ==
  ASSUME NEW c \in PathCases
  PROVE  IsForm(NormalizeURIForLSP(c.mapper, c.form))
<1>1. PICK f : f = c.form
  OBVIOUS
<1>2. IsForm(f) /\ AreSegments(f.segs) /\ c.mapper \in BOOLEAN
  <2>1. IsForm(f) /\ c.mapper \in BOOLEAN
    BY <1>1, PathConstants
  <2> QED
    BY <2>1 DEF IsForm
<1>3. IsForm(NormalizeURIForLSP(TRUE, f))
  <2>1. ASSUME NEW t, Placed(f, t)
        PROVE  IsForm(NormalizeURIForLSP(TRUE, f))
    BY <2>1, BelowForm, RootSegments DEF Placed, GoesTo
  <2>2. IsForm(NormalizeURI(Rooted(TRUE, f)))
    BY <1>2, RootedName, NamePath
  <2> QED
    BY <1>2, <2>1, <2>2, MapperPlaces DEF Strays
<1>4. IsForm(NormalizeURIForLSP(FALSE, f))
  <2>1. CASE f.root = "none"
    <3>1. NormalizeURI(f) = FileURI(Cwd, Glued(f))
      <4>1. ~f.uri
        BY <1>2, <2>1 DEF IsForm
      <4>2. Abs(f) = Below(Cwd, Glued(f))
        BY <2>1 DEF Abs
      <4> QED
        BY <2>1, <4>1, <4>2 DEF NormalizeURI, PathToFileURI, FileURI
    <3>2. AreSegments(Glued(f))
      BY <1>2, GluedSegments
    <3>3. IsForm(FileURI(Cwd, Glued(f)))
      BY <3>2, BelowForm, RootSegments
    <3> QED
      BY <3>1, <3>3, Bare
  <2>2. CASE f.root # "none"
    BY <1>2, <2>2, NamePath, Bare
  <2> QED
    BY <2>1, <2>2
<1>5. CASE c.mapper
  <2>1. PICK m : m = c.mapper /\ m = TRUE
    BY <1>2, <1>5
  <2> QED
    BY <1>1, <1>3, <2>1
<1>6. CASE ~c.mapper
  <2>1. PICK m : m = c.mapper /\ m = FALSE
    BY <1>2, <1>6
  <2> QED
    BY <1>1, <1>4, <2>1
<1> QED
  BY <1>5, <1>6

LEMMA OpenedForm ==
  ASSUME NEW m, NEW u
  PROVE  EnsureDocumentOpen(m, u) = Refused \/ IsForm(EnsureDocumentOpen(m, u))
<1>1. SUFFICES ASSUME EnsureDocumentOpen(m, u) # Refused
               PROVE  IsForm(EnsureDocumentOpen(m, u))
  OBVIOUS
<1>2. PICK w, p : w = Workspace(m) /\ p = LocalPath(m, u)
  OBVIOUS
<1>3. p \in {Below(w, s) : s \in DiskFiles} /\ EnsureDocumentOpen(m, u) = NormalizeURI(Name(p))
  BY <1>1, <1>2 DEF EnsureDocumentOpen
<1>4. PICK s \in DiskFiles : p = Below(w, s)
  BY <1>3
<1>5. AreSegments(w.segs) /\ AreSegments(s)
  BY <1>2, <1>4, DiskSegments, RootSegments DEF Workspace
<1>6. IsForm(FileURI(w, s)) /\ NormalizeURI(Name(p)) = FileURI(w, s)
  BY <1>4, <1>5, BelowForm, Renamed
<1> QED
  BY <1>3, <1>6

LEMMA NameTypes == PathInv => PathTypeOK
<1> SUFFICES ASSUME PathInv PROVE PathTypeOK
  OBVIOUS
<1>1. IsForm(pathCase.form) /\ IsForm(NormalizeURIForLSP(pathCase.mapper, pathCase.form))
  BY PathConstants, NormalForm DEF PathInv
<1>2. openedURI = Refused \/ IsForm(openedURI)
  BY OpenedForm DEF PathInv
<1> QED
  BY <1>1, <1>2 DEF PathInv, PathTypeOK

LEMMA NamesHold ==
  PathInv => NamesSound
<1> SUFFICES ASSUME PathInv, pathStage = "end"
             PROVE  NamesSound
  BY DEF NamesSound
<1>1. PICK c, u : /\ c = pathCase /\ c \in PathCases /\ u = pathURI
                  /\ u = NormalizeURIForLSP(c.mapper, c.form)
                  /\ openedURI = EnsureDocumentOpen(c.mapper, u)
  BY DEF PathInv
<1>2. Resolved(c.mapper, c.form, u, openedURI)
  BY <1>1, CaseResolves
<1> QED
  BY <1>1, <1>2 DEF Resolved, NamesSound, FileURI

-----------------------------------------------------------------------------
(* RangeContent. *)

\* What holds for 0, and for a number if it holds for the one before it.
LEMMA Upward ==
  ASSUME NEW n \in Nat, NEW T, 0 \in T, \A k \in 1 .. n : k - 1 \in T => k \in T
  PROVE  \A k \in 0 .. n : k \in T
<1> DEFINE Bad == {k \in 0 .. n : k \notin T}
<1> SUFFICES ASSUME Bad # {} PROVE FALSE
  OBVIOUS
<1>1. Bad \in SUBSET Nat
  OBVIOUS
<1>2. PICK k \in Bad : \A j \in Bad : k <= j
  <2> HIDE DEF Bad
  <2> QED
    BY <1>1, LeastNumber
<1>3. k \in 1 .. n /\ k \notin T
  BY <1>2
<1>4. k - 1 \in T
  BY <1>2, <1>3
<1> QED
  BY <1>3, <1>4

\* One list more.
OneMore(more, lists, m) ==
  /\ m = Len(lists) /\ Len(more) = m + 1
  /\ \A i \in 1 .. m : more[i] = lists[i]

LEMMA ListAdded ==
  ASSUME NEW S, NEW lists \in Seq(Seq(S)), NEW more \in Seq(Seq(S)),
         NEW m \in Nat, OneMore(more, lists, m)
  PROVE  /\ FlattenSeq(lists) \in Seq(S)
         /\ FlattenSeq(more) = FlattenSeq(lists) \o more[m + 1]
<1>1. /\ FirstLists(lists, 0) = << >>
      /\ \A k \in 0 .. m : FirstLists(lists, k) \in Seq(S)
      /\ \A k \in 1 .. m : FirstLists(lists, k) = FirstLists(lists, k - 1) \o lists[k]
      /\ FlattenSeq(lists) = FirstLists(lists, m)
  BY ListsJoined DEF OneMore
<1>2. /\ FirstLists(more, 0) = << >>
      /\ \A k \in 1 .. m + 1 : FirstLists(more, k) = FirstLists(more, k - 1) \o more[k]
      /\ FlattenSeq(more) = FirstLists(more, m + 1)
  <2>1. PICK l \in Nat : l = m + 1 /\ l = Len(more)
    BY DEF OneMore
  <2>2. /\ FirstLists(more, 0) = << >>
        /\ \A k \in 1 .. l : FirstLists(more, k) = FirstLists(more, k - 1) \o more[k]
        /\ FlattenSeq(more) = FirstLists(more, l)
    BY <2>1, ListsJoined
  <2> QED
    BY <2>1, <2>2
<1> DEFINE T == {k \in Nat : FirstLists(lists, k) = FirstLists(more, k)}
<1>3. 0 \in T
  BY <1>1, <1>2
<1>4. ASSUME NEW k \in 1 .. m, k - 1 \in T PROVE k \in T
  <2>1. k \in 1 .. m + 1 /\ more[k] = lists[k] /\ k \in Nat
    BY DEF OneMore
  <2> QED
    BY <1>1, <1>2, <1>4, <2>1
<1>5. m \in T
  <2> HIDE DEF T
  <2>1. \A k \in 0 .. m : k \in T
    BY <1>3, <1>4, Upward
  <2> QED
    BY <2>1
<1>6. FirstLists(more, m + 1) = FirstLists(more, m) \o more[m + 1]
  <2>1. m + 1 \in 1 .. m + 1 /\ (m + 1) - 1 = m
    OBVIOUS
  <2> QED
    BY <1>2, <2>1
<1>7. m \in 0 .. m
  OBVIOUS
<1> QED
  BY <1>1, <1>2, <1>5, <1>6, <1>7

\* The characters of a file, its lines, and the text up to one of them.
TextOf(c) == Seq(Characters(c) \cup {LineEnd})

LineNumber(c) == {n \in Nat : n < Len(c.lines)}

Ended(c, n) == FlattenSeq([i \in 1 .. n |-> LineAt(c, i - 1) \o <<LineEnd>>])

NextLine(c, n) == <<LineEnd>> \o LineAt(c, n)

UpToLine(c, n) == LineAt(c, 0) \o LinesFrom(c, 1, n)

\* One text after another; it does not matter which are put together first.
Then(s, t) == s \o t

LEMMA TextsJoined ==
  ASSUME NEW c
  PROVE  \A s, t \in TextOf(c) : Then(s, t) \in TextOf(c) /\ Len(Then(s, t)) = Len(s) + Len(t)
<1> TAKE s, t \in TextOf(c)
<1>1. PICK S : TextOf(c) = Seq(S)
  BY DEF TextOf
<1> QED
  BY <1>1, ConcatProperties DEF Then

LEMMA JoinedInAnyOrder ==
  ASSUME NEW c
  PROVE  \A s, t, u \in TextOf(c) : Then(Then(s, t), u) = Then(s, Then(t, u))
<1> TAKE s, t, u \in TextOf(c)
<1>1. PICK S : TextOf(c) = Seq(S)
  BY DEF TextOf
<1>2. s \in Seq(S) /\ t \in Seq(S) /\ u \in Seq(S)
  BY <1>1
<1> QED
  BY <1>2, ConcatAssociative DEF Then

LEMMA Regrouped ==
  ASSUME NEW c
  PROVE  \A s, t, u, w \in TextOf(c) :
           Then(Then(s, t), Then(u, w)) = Then(Then(s, Then(t, u)), w)
<1> TAKE s, t, u, w \in TextOf(c)
<1>1. PICK v \in TextOf(c) : v = Then(s, t)
  BY TextsJoined
<1>2. Then(v, Then(u, w)) = Then(Then(v, u), w)
  BY JoinedInAnyOrder
<1>3. Then(v, u) = Then(s, Then(t, u))
  BY <1>1, JoinedInAnyOrder
<1> QED
  BY <1>1, <1>2, <1>3

LEMMA LineType ==
  ASSUME NEW c \in RangeCases, NEW n \in LineNumber(c)
  PROVE  /\ LineAt(c, n) \in TextOf(c) /\ NextLine(c, n) \in TextOf(c)
         /\ LineAt(c, n) \o <<LineEnd>> \in TextOf(c) /\ <<LineEnd>> \in TextOf(c)
<1>1. PICK C : C = Characters(c)
  OBVIOUS
<1>2. c.lines \in Seq(Seq(C))
  BY <1>1, RangeConstants
<1>3. c.lines[n + 1] \in Seq(C)
  BY <1>2 DEF LineNumber
<1>4. c.lines[n + 1] \in Seq(C \cup {LineEnd})
  BY <1>3, SeqMonotonic
<1>5. <<LineEnd>> \in Seq(C \cup {LineEnd})
  OBVIOUS
<1> QED
  BY <1>1, <1>4, <1>5, ConcatProperties DEF LineAt, TextOf, NextLine

LEMMA NoLines ==
  ASSUME NEW c, NEW f
  PROVE  LinesFrom(c, f, 0) = << >>
<1>1. PICK T, p : T = Seq({}) /\ p = << >>
  OBVIOUS
<1>2. p \in Seq(T) /\ Len(p) = 0 /\ DOMAIN p = {}
  BY <1>1, EmptySeq
<1>3. FlattenSeq(p) = p
  BY <1>2 DEF FlattenSeq
<1>4. [i \in 1 .. 0 |-> <<LineEnd>> \o LineAt(c, f + i - 1)] = p
  <2>1. PICK q : q = [i \in 1 .. 0 |-> <<LineEnd>> \o LineAt(c, f + i - 1)]
    OBVIOUS
  <2>2. q \in [1 .. 0 -> T]
    BY <2>1
  <2>3. q \in Seq(T)
    <3>1. 0 \in Nat
      OBVIOUS
    <3> QED
      BY <2>2, <3>1, SeqDef
  <2>4. Len(q) = 0
    <3>1. DOMAIN q = 1 .. Len(q) /\ Len(q) \in Nat /\ DOMAIN q = 1 .. 0
      BY <2>2, <2>3, LenProperties
    <3> QED
      BY <3>1
  <2> QED
    BY <1>2, <2>1, <2>3, <2>4, SeqEqual
<1> QED
  BY <1>1, <1>3, <1>4 DEF LinesFrom

\* A line more, after its beginning or before its end.
LEMMA LinesGrow ==
  ASSUME NEW c \in RangeCases, NEW f \in Nat, NEW n \in Nat, f + n \in LineNumber(c)
  PROVE  /\ LinesFrom(c, f, 0) = << >>
         /\ LinesFrom(c, f, n) \in TextOf(c)
         /\ LinesFrom(c, f, n + 1) = LinesFrom(c, f, n) \o NextLine(c, f + n)
<1>1. PICK S : TextOf(c) = Seq(S)
  BY DEF TextOf
<1>2. PICK m \in Nat : m = n + 1 /\ \A i \in 1 .. m : f + i - 1 \in LineNumber(c)
  BY DEF LineNumber
<1> DEFINE Pieces(k) == [i \in 1 .. k |-> NextLine(c, f + i - 1)]
<1>3. \A i \in 1 .. m : NextLine(c, f + i - 1) \in Seq(S)
  BY <1>1, <1>2, LineType
<1>4. Pieces(n) \in Seq(Seq(S)) /\ Pieces(n + 1) \in Seq(Seq(S))
  <2> SUFFICES ASSUME NEW k \in {n, n + 1} PROVE Pieces(k) \in Seq(Seq(S))
    OBVIOUS
  <2>1. k \in Nat /\ \A i \in 1 .. k : i \in 1 .. m
    BY <1>2
  <2>2. Pieces(k) \in [1 .. k -> Seq(S)]
    BY <1>3, <2>1
  <2>3. PICK p, T : p = Pieces(k) /\ T = Seq(S)
    OBVIOUS
  <2>4. p \in [1 .. k -> T]
    BY <2>2, <2>3
  <2>5. p \in Seq(T)
    BY <2>1, <2>4, SeqDef
  <2> QED
    BY <2>3, <2>5
<1>5. OneMore(Pieces(n + 1), Pieces(n), n) /\ Pieces(n + 1)[n + 1] = NextLine(c, f + n)
  <2>1. Len(Pieces(n)) = n /\ Len(Pieces(n + 1)) = n + 1
    OBVIOUS
  <2>2. n + 1 \in 1 .. n + 1 /\ f + (n + 1) - 1 = f + n
    OBVIOUS
  <2> QED
    BY <2>1, <2>2 DEF OneMore
<1>6. /\ FlattenSeq(Pieces(n)) \in Seq(S)
      /\ FlattenSeq(Pieces(n + 1)) = FlattenSeq(Pieces(n)) \o Pieces(n + 1)[n + 1]
  <2> HIDE DEF Pieces
  <2> QED
    BY <1>4, <1>5, ListAdded
<1>7. Pieces(0) \in Seq(Seq(S)) /\ Len(Pieces(0)) = 0
  OBVIOUS
<1>8. FlattenSeq(Pieces(0)) = << >>
  <2> HIDE DEF Pieces
  <2>1. 0 \in Nat
    OBVIOUS
  <2> QED
    BY <1>7, <2>1, ListsJoined
<1>9. \A k : LinesFrom(c, f, k) = FlattenSeq(Pieces(k))
  BY DEF LinesFrom, NextLine
<1> HIDE DEF Pieces
<1> QED
  BY <1>1, <1>5, <1>6, <1>8, <1>9

LEMMA EndedGrow ==
  ASSUME NEW c \in RangeCases, NEW n \in LineNumber(c)
  PROVE  /\ Ended(c, 0) = << >> /\ Ended(c, n) \in TextOf(c)
         /\ Ended(c, n + 1) = Ended(c, n) \o (LineAt(c, n) \o <<LineEnd>>)
<1>1. PICK S : TextOf(c) = Seq(S)
  BY DEF TextOf
<1>2. n \in Nat /\ \A i \in 1 .. n + 1 : i - 1 \in LineNumber(c)
  BY DEF LineNumber
<1> DEFINE Pieces(k) == [i \in 1 .. k |-> LineAt(c, i - 1) \o <<LineEnd>>]
<1>3. \A i \in 1 .. n + 1 : LineAt(c, i - 1) \o <<LineEnd>> \in Seq(S)
  BY <1>1, <1>2, LineType
<1>4. Pieces(n) \in Seq(Seq(S)) /\ Pieces(n + 1) \in Seq(Seq(S))
  BY <1>2, <1>3
<1>5. /\ OneMore(Pieces(n + 1), Pieces(n), n)
      /\ Pieces(n + 1)[n + 1] = LineAt(c, n) \o <<LineEnd>>
  <2>1. Len(Pieces(n)) = n /\ Len(Pieces(n + 1)) = n + 1
    BY <1>2
  <2>2. n + 1 \in 1 .. n + 1 /\ (n + 1) - 1 = n
    BY <1>2
  <2> QED
    BY <1>2, <2>1, <2>2, Z3 DEF OneMore
<1>6. /\ FlattenSeq(Pieces(n)) \in Seq(S)
      /\ FlattenSeq(Pieces(n + 1)) = FlattenSeq(Pieces(n)) \o Pieces(n + 1)[n + 1]
  <2> HIDE DEF Pieces
  <2> QED
    BY <1>2, <1>4, <1>5, ListAdded
<1>7. Pieces(0) \in Seq(Seq(S)) /\ Len(Pieces(0)) = 0
  OBVIOUS
<1>8. FlattenSeq(Pieces(0)) = << >>
  <2> HIDE DEF Pieces
  <2>1. 0 \in Nat
    OBVIOUS
  <2> QED
    BY <1>7, <2>1, ListsJoined
<1>9. \A k : Ended(c, k) = FlattenSeq(Pieces(k))
  BY DEF Ended
<1> HIDE DEF Pieces
<1> QED
  BY <1>1, <1>5, <1>6, <1>8, <1>9

\* The text up to a line: what ends before the line, and the line; the same
\* text begins the whole one.
LEMMA TextUpTo ==
  ASSUME NEW c \in RangeCases, NEW n \in LineNumber(c)
  PROVE  /\ UpToLine(c, n) \in TextOf(c)
         /\ UpToLine(c, n) = Ended(c, n) \o LineAt(c, n)
         /\ n + 1 \in LineNumber(c) =>
              UpToLine(c, n + 1) = UpToLine(c, n) \o NextLine(c, n + 1)
<1>1. PICK S : TextOf(c) = Seq(S)
  BY DEF TextOf
<1>2. n \in Nat /\ 0 \in LineNumber(c) /\ \A k \in 0 .. n : k \in LineNumber(c)
  BY DEF LineNumber
<1>3. ASSUME NEW k \in LineNumber(c)
      PROVE  /\ LineAt(c, k) \in Seq(S) /\ Ended(c, k) \in Seq(S)
             /\ NextLine(c, k) \in Seq(S) /\ <<LineEnd>> \in Seq(S)
             /\ Ended(c, k + 1) = Ended(c, k) \o (LineAt(c, k) \o <<LineEnd>>)
             /\ Ended(c, 0) = << >>
  BY <1>1, LineType, EndedGrow
<1>4. ASSUME NEW k \in LineNumber(c), k + 1 \in LineNumber(c)
      PROVE  /\ LinesFrom(c, 1, k) \in Seq(S)
             /\ LinesFrom(c, 1, k + 1) = LinesFrom(c, 1, k) \o NextLine(c, k + 1)
             /\ LinesFrom(c, 1, k + 1) \in Seq(S)
  <2>1. k \in Nat /\ 1 \in Nat /\ 1 + k \in LineNumber(c) /\ 1 + k = k + 1
    BY <1>4 DEF LineNumber
  <2>2. /\ LinesFrom(c, 1, k) \in TextOf(c)
        /\ LinesFrom(c, 1, k + 1) = LinesFrom(c, 1, k) \o NextLine(c, 1 + k)
    BY <2>1, LinesGrow
  <2>3. NextLine(c, k + 1) \in Seq(S)
    BY <1>3, <1>4
  <2> QED
    BY <1>1, <2>1, <2>2, <2>3, ConcatProperties
<1>5. LinesFrom(c, 1, 0) = << >>
  BY NoLines
<1>6. ASSUME NEW k \in LineNumber(c), k + 1 \in LineNumber(c)
      PROVE  UpToLine(c, k + 1) = UpToLine(c, k) \o NextLine(c, k + 1)
  <2>1. /\ LineAt(c, 0) \in Seq(S) /\ LinesFrom(c, 1, k) \in Seq(S)
        /\ NextLine(c, k + 1) \in Seq(S)
    BY <1>2, <1>3, <1>4, <1>6
  <2>2. (LineAt(c, 0) \o LinesFrom(c, 1, k)) \o NextLine(c, k + 1) =
          LineAt(c, 0) \o (LinesFrom(c, 1, k) \o NextLine(c, k + 1))
    BY <2>1, ConcatAssociative
  <2> QED
    BY <1>4, <1>6, <2>2 DEF UpToLine
<1> DEFINE T == {k \in Nat : UpToLine(c, k) = Ended(c, k) \o LineAt(c, k)}
<1>7. 0 \in T
  <2>1. /\ LineAt(c, 0) \o << >> = LineAt(c, 0) /\ << >> \o LineAt(c, 0) = LineAt(c, 0)
    BY <1>2, <1>3, ConcatEmptySeq
  <2>2. UpToLine(c, 0) = LineAt(c, 0) \o << >> /\ Ended(c, 0) = << >>
    BY <1>2, <1>3, <1>5 DEF UpToLine
  <2>3. UpToLine(c, 0) = Ended(c, 0) \o LineAt(c, 0)
    BY <2>1, <2>2
  <2> QED
    BY <2>3
<1>8. ASSUME NEW k \in 1 .. n, k - 1 \in T PROVE k \in T
  <2>1. PICK j \in LineNumber(c) : j = k - 1 /\ j + 1 = k
    BY <1>2
  <2>2. k \in LineNumber(c) /\ k \in Nat
    BY <1>2
  <2>3. UpToLine(c, k) = UpToLine(c, j) \o NextLine(c, k)
    BY <1>6, <2>1, <2>2
  <2>4. UpToLine(c, j) = Ended(c, j) \o LineAt(c, j)
    BY <1>8, <2>1
  <2>5. Ended(c, k) = Ended(c, j) \o (LineAt(c, j) \o <<LineEnd>>)
    BY <1>3, <2>1
  <2>6. PICK e \in Seq(S), s \in Seq(S), u \in Seq(S), t \in Seq(S) :
          e = Ended(c, j) /\ s = LineAt(c, j) /\ u = <<LineEnd>> /\ t = LineAt(c, k)
    BY <1>3, <2>2
  <2>7. (e \o s) \o (u \o t) = (e \o (s \o u)) \o t
    <3>1. e \in TextOf(c) /\ s \in TextOf(c) /\ u \in TextOf(c) /\ t \in TextOf(c)
      BY <1>1
    <3>2. Then(Then(e, s), Then(u, t)) = Then(Then(e, Then(s, u)), t)
      BY <3>1, Regrouped
    <3> QED
      BY <3>2 DEF Then
  <2>10. UpToLine(c, k) = (e \o s) \o (u \o t)
    BY <2>3, <2>4, <2>6 DEF NextLine
  <2>11. Ended(c, k) \o LineAt(c, k) = (e \o (s \o u)) \o t
    BY <2>5, <2>6
  <2>12. UpToLine(c, k) = Ended(c, k) \o LineAt(c, k)
    BY <2>7, <2>10, <2>11
  <2> QED
    BY <2>2, <2>12
<1>9. n \in T
  <2> HIDE DEF T
  <2>1. \A k \in 0 .. n : k \in T
    BY <1>2, <1>7, <1>8, Upward
  <2> QED
    BY <1>2, <2>1
<1>10. UpToLine(c, n) = Ended(c, n) \o LineAt(c, n)
  BY <1>9
<1>11. UpToLine(c, n) \in Seq(S)
  BY <1>3, <1>10, ConcatProperties
<1> QED
  BY <1>1, <1>6, <1>10, <1>11

LEMMA TextBegins ==
  ASSUME NEW c \in RangeCases, NEW n \in LineNumber(c)
  PROVE  WholeText(c) \in TextOf(c) /\ Begins(UpToLine(c, n), WholeText(c))
<1>1. PICK S : TextOf(c) = Seq(S)
  BY DEF TextOf
<1>2. PICK m \in LineNumber(c) : m + 1 = Len(c.lines) /\ m \in Nat
  <2>1. PICK l \in Nat : l = Len(c.lines) /\ l # 0
    BY DEF LineNumber
  <2>2. l - 1 \in LineNumber(c) /\ (l - 1) + 1 = l /\ l - 1 \in Nat
    BY <2>1 DEF LineNumber
  <2> QED
    BY <2>1, <2>2
<1>3. WholeText(c) = UpToLine(c, m)
  <2>1. Len(c.lines) - 1 = m
    BY <1>2
  <2> QED
    BY <2>1 DEF WholeText, UpToLine
<1>4. PICK w \in Seq(S) : w = WholeText(c) /\ w = UpToLine(c, m)
  BY <1>1, <1>3, TextUpTo
<1> DEFINE T == {k \in Nat : Begins(UpToLine(c, m - k), w)}
<1>5. 0 \in T
  <2>1. Begins(UpToLine(c, m), w)
    BY <1>4 DEF Begins
  <2>2. m - 0 = m
    BY <1>2
  <2> QED
    BY <2>1, <2>2
<1>6. ASSUME NEW k \in 1 .. m, k - 1 \in T PROVE k \in T
  <2>1. PICK j \in LineNumber(c) : j = m - k /\ j + 1 = m - (k - 1) /\ j + 1 \in LineNumber(c)
    BY <1>2 DEF LineNumber
  <2>2. /\ UpToLine(c, j + 1) = UpToLine(c, j) \o NextLine(c, j + 1)
        /\ UpToLine(c, j) \in Seq(S) /\ NextLine(c, j + 1) \in Seq(S)
    BY <1>1, <2>1, TextUpTo, LineType
  <2>3. Begins(UpToLine(c, j + 1), w)
    BY <1>6, <2>1
  <2>4. Begins(UpToLine(c, j), w)
    <3>1. PICK s \in Seq(S), t \in Seq(S) :
            s = UpToLine(c, j) /\ t = NextLine(c, j + 1)
      BY <2>2
    <3>2. Begins(s \o t, w)
      BY <2>2, <2>3, <3>1
    <3> QED
      BY <3>1, <3>2, BeginsJoined
  <2>5. k \in Nat
    OBVIOUS
  <2> QED
    BY <2>1, <2>4, <2>5
<1>7. \A k \in 0 .. m : k \in T
  <2> HIDE DEF T
  <2> QED
    BY <1>2, <1>5, <1>6, Upward
<1>8. m - n \in 0 .. m /\ m - (m - n) = n
  BY <1>2 DEF LineNumber
<1>9. Begins(UpToLine(c, n), w)
  BY <1>7, <1>8
<1> QED
  BY <1>1, <1>4, <1>9

\* The text up to a line and the lines that follow it.
LEMMA TextGoesOn ==
  ASSUME NEW c \in RangeCases, NEW n \in LineNumber(c), NEW k \in Nat,
         n + k \in LineNumber(c)
  PROVE  /\ LinesFrom(c, n + 1, k) \in TextOf(c)
         /\ UpToLine(c, n + k) = UpToLine(c, n) \o LinesFrom(c, n + 1, k)
<1>1. PICK S : TextOf(c) = Seq(S)
  BY DEF TextOf
<1>2. n \in Nat
  BY DEF LineNumber
<1> DEFINE T == {j \in Nat : /\ LinesFrom(c, n + 1, j) \in Seq(S)
                           /\ UpToLine(c, n + j) = UpToLine(c, n) \o LinesFrom(c, n + 1, j)}
<1>3. 0 \in T
  <2>1. LinesFrom(c, n + 1, 0) = << >> /\ << >> \in Seq(S)
    BY NoLines
  <2>2. UpToLine(c, n) \o << >> = UpToLine(c, n) /\ n + 0 = n
    BY <1>1, <1>2, TextUpTo, ConcatEmptySeq
  <2> QED
    BY <2>1, <2>2
<1>4. ASSUME NEW j \in 1 .. k, j - 1 \in T PROVE j \in T
  <2>1. PICK i \in Nat : i = j - 1 /\ i + 1 = j /\ i < k
    <3>1. j - 1 \in Nat /\ (j - 1) + 1 = j /\ j - 1 < k
      OBVIOUS
    <3> QED
      BY <3>1
  <2>2. PICK p \in LineNumber(c) :
          p = n + i /\ p + 1 = n + j /\ p + 1 = (n + 1) + i /\ p + 1 \in LineNumber(c)
    <3>1. /\ n + i \in LineNumber(c) /\ (n + i) + 1 \in LineNumber(c)
          /\ (n + i) + 1 = n + j /\ (n + i) + 1 = (n + 1) + i
      BY <1>2, <2>1 DEF LineNumber
    <3> QED
      BY <3>1
  <2>3. PICK u \in Seq(S), m \in Seq(S), t \in Seq(S) :
          /\ u = UpToLine(c, n) /\ m = LinesFrom(c, n + 1, i)
          /\ t = NextLine(c, p + 1)
    BY <1>1, <1>4, <2>1, <2>2, TextUpTo, LineType
  <2>4. UpToLine(c, p) = u \o m
    BY <1>4, <2>1, <2>2, <2>3
  <2>5. UpToLine(c, p + 1) = (u \o m) \o t
    BY <2>2, <2>3, <2>4, TextUpTo
  <2>6. LinesFrom(c, n + 1, j) = m \o t
    <3>1. n + 1 \in Nat /\ (n + 1) + i \in LineNumber(c)
      BY <1>2, <2>2
    <3>2. LinesFrom(c, n + 1, i + 1) =
            LinesFrom(c, n + 1, i) \o NextLine(c, (n + 1) + i)
      BY <2>1, <3>1, LinesGrow
    <3> QED
      BY <2>1, <2>2, <2>3, <3>2
  <2>7. (u \o m) \o t = u \o (m \o t) /\ m \o t \in Seq(S)
    BY ConcatAssociative, ConcatProperties, Z3
  <2>8. UpToLine(c, n + j) = u \o (m \o t)
    BY <2>2, <2>5, <2>7
  <2>9. /\ j \in Nat /\ LinesFrom(c, n + 1, j) \in Seq(S)
        /\ UpToLine(c, n + j) = UpToLine(c, n) \o LinesFrom(c, n + 1, j)
    <3>1. j \in Nat
      OBVIOUS
    <3>2. LinesFrom(c, n + 1, j) \in Seq(S)
      BY <2>6, <2>7
    <3>3. UpToLine(c, n + j) = UpToLine(c, n) \o LinesFrom(c, n + 1, j)
      BY <2>3, <2>6, <2>8, Zenon
    <3> QED
      BY <3>1, <3>2, <3>3
  <2> QED
    BY <2>9
<1>5. k \in T
  <2> HIDE DEF T
  <2>1. \A j \in 0 .. k : j \in T
    BY <1>3, <1>4, Upward
  <2> QED
    BY <2>1
<1> QED
  BY <1>1, <1>5

\* A part of what follows a beginning is a part of the whole.
Slice(s, i, j) == SubSeq(s, i + 1, j)

LEMMA SliceAfter ==
  ASSUME NEW S, NEW s \in Seq(S), NEW t \in Seq(S), NEW w \in Seq(S),
         Begins(s \o t, w), NEW i \in Nat, NEW j \in Nat, j <= Len(t)
  PROVE  Slice(t, i, j) = Slice(w, Len(s) + i, Len(s) + j)
<1>1. PICK m \in Nat, n \in Nat, l \in Nat : m = Len(s) /\ n = Len(t) /\ l = Len(w)
  OBVIOUS
<1>2. /\ Len(s \o t) = m + n
      /\ \A k \in 1 .. m + n : (s \o t)[k] = IF k <= m THEN s[k] ELSE t[k - m]
  BY <1>1, ConcatProperties
<1>3. m + n <= l /\ \A k \in 1 .. m + n : w[k] = (s \o t)[k]
  BY <1>1, <1>2 DEF Begins
<1>4. \A k \in 1 .. n : w[m + k] = t[k]
  <2> SUFFICES ASSUME NEW k \in 1 .. n PROVE w[m + k] = t[k]
    OBVIOUS
  <2>1. m + k \in 1 .. m + n /\ ~(m + k <= m) /\ (m + k) - m = k
    OBVIOUS
  <2> QED
    BY <1>2, <1>3, <2>1
<1>5. /\ Slice(t, i, j) \in Seq(S)
      /\ Len(Slice(t, i, j)) = IF i <= j THEN j - i ELSE 0
      /\ \A k \in 1 .. j - i : Slice(t, i, j)[k] = t[i + k]
  BY PartOf DEF Slice
<1>6. PICK p \in Nat, q \in Nat : p = m + i /\ q = m + j /\ q <= Len(w)
  <2>1. m + i \in Nat /\ m + j \in Nat /\ m + j <= Len(w)
    BY <1>1, <1>3
  <2> QED
    BY <2>1
<1>7. /\ Slice(w, p, q) \in Seq(S)
      /\ Len(Slice(w, p, q)) = IF p <= q THEN q - p ELSE 0
      /\ \A k \in 1 .. q - p : Slice(w, p, q)[k] = w[p + k]
  BY <1>6, PartOf DEF Slice
<1>8. PICK y \in Seq(S), z \in Seq(S) : y = Slice(t, i, j) /\ z = Slice(w, p, q)
  BY <1>5, <1>7
<1>9. Len(y) = Len(z)
  BY <1>5, <1>6, <1>7, <1>8
<1>10. ASSUME NEW k \in 1 .. Len(y) PROVE y[k] = z[k]
  <2>1. k \in 1 .. j - i /\ k \in 1 .. q - p
    BY <1>5, <1>6, <1>8
  <2>2. y[k] = t[i + k] /\ z[k] = w[p + k]
    BY <1>5, <1>7, <1>8, <2>1
  <2>3. i + k \in 1 .. n /\ p + k = m + (i + k)
    BY <1>1, <1>6, <2>1
  <2> QED
    BY <1>4, <2>2, <2>3
<1> QED
  BY <1>1, <1>6, <1>8, <1>9, <1>10, SeqEqual

\* A part that begins in the first of two and ends in the second.
LEMMA SliceJoined ==
  ASSUME NEW S, NEW s \in Seq(S), NEW t \in Seq(S),
         NEW i \in Nat, i <= Len(s), NEW d \in Nat, d <= Len(t)
  PROVE  Slice(s \o t, i, Len(s) + d) = Slice(s, i, Len(s)) \o Slice(t, 0, d)
<1>1. PICK m \in Nat, n \in Nat : m = Len(s) /\ n = Len(t)
  OBVIOUS
<1>2. PICK w \in Seq(S) : /\ w = s \o t /\ Len(w) = m + n
                          /\ \A k \in 1 .. m + n : w[k] = IF k <= m THEN s[k] ELSE t[k - m]
  <2>1. PICK w : w = s \o t
    OBVIOUS
  <2>2. /\ w \in Seq(S) /\ Len(w) = m + n
        /\ \A k \in 1 .. m + n : w[k] = IF k <= m THEN s[k] ELSE t[k - m]
    BY <1>1, <2>1, ConcatProperties
  <2> QED
    BY <2>1, <2>2
<1>3. PICK y \in Seq(S) : /\ y = Slice(s, i, m) /\ Len(y) = m - i
                          /\ \A k \in 1 .. m - i : y[k] = s[i + k]
  <2>1. /\ Slice(s, i, m) \in Seq(S)
        /\ Len(Slice(s, i, m)) = IF i <= m THEN m - i ELSE 0
        /\ \A k \in 1 .. m - i : Slice(s, i, m)[k] = s[i + k]
    <3>1. m <= Len(s)
      BY <1>1
    <3> QED
      BY <3>1, PartOf, Z3 DEF Slice
  <2> QED
    BY <1>1, <2>1
<1>4. PICK z \in Seq(S) : /\ z = Slice(t, 0, d) /\ Len(z) = d
                          /\ \A k \in 1 .. d : z[k] = t[k]
  <2>1. /\ Slice(t, 0, d) \in Seq(S)
        /\ Len(Slice(t, 0, d)) = IF 0 <= d THEN d - 0 ELSE 0
        /\ \A k \in 1 .. d - 0 : Slice(t, 0, d)[k] = t[0 + k]
    BY PartOf DEF Slice
  <2>2. /\ Len(Slice(t, 0, d)) = d
        /\ \A k \in 1 .. d : Slice(t, 0, d)[k] = t[k]
    BY <2>1
  <2> QED
    BY <2>1, <2>2
<1>5. PICK q \in Nat : q = m + d /\ q <= Len(w) /\ i <= q
  BY <1>1, <1>2
<1>6. PICK x1 \in Seq(S) : /\ x1 = Slice(w, i, q) /\ Len(x1) = q - i
                           /\ \A k \in 1 .. q - i : x1[k] = w[i + k]
  <2>1. /\ Slice(w, i, q) \in Seq(S)
        /\ Len(Slice(w, i, q)) = IF i <= q THEN q - i ELSE 0
        /\ \A k \in 1 .. q - i : Slice(w, i, q)[k] = w[i + k]
    BY <1>5, PartOf, Z3 DEF Slice
  <2> QED
    BY <1>5, <2>1
<1>7. PICK x2 \in Seq(S) : /\ x2 = y \o z /\ Len(x2) = (m - i) + d
                           /\ \A k \in 1 .. (m - i) + d :
                                x2[k] = IF k <= m - i THEN y[k] ELSE z[k - (m - i)]
  <2>1. PICK x2 : x2 = y \o z
    OBVIOUS
  <2>2. /\ x2 \in Seq(S) /\ Len(x2) = Len(y) + Len(z)
        /\ \A k \in 1 .. Len(y) + Len(z) :
             x2[k] = IF k <= Len(y) THEN y[k] ELSE z[k - Len(y)]
    BY <2>1, ConcatProperties
  <2>3. Len(x2) = (m - i) + d
    BY <1>3, <1>4, <2>2
  <2>4. \A k \in 1 .. (m - i) + d : x2[k] = IF k <= m - i THEN y[k] ELSE z[k - (m - i)]
    BY <1>3, <1>4, <2>2
  <2> QED
    BY <2>1, <2>2, <2>3, <2>4
<1>8. ASSUME NEW k \in 1 .. q - i PROVE x1[k] = x2[k]
  <2>1. x1[k] = w[i + k] /\ i + k \in 1 .. m + n
    <3>1. x1[k] = w[i + k]
      BY <1>6
    <3>2. i + k \in Nat /\ 1 <= i + k /\ i + k <= q
      BY <1>1, <1>5
    <3>3. q <= m + n
      BY <1>1, <1>5
    <3> QED
      BY <3>1, <3>2, <3>3, <1>1
  <2>2. k \in 1 .. (m - i) + d
    BY <1>1, <1>5
  <2>3. CASE k <= m - i
    <3>1. w[i + k] = s[i + k] /\ k \in 1 .. m - i
      BY <1>1, <1>2, <2>1, <2>3, Z3
    <3> QED
      BY <1>3, <1>7, <2>1, <2>2, <2>3, <3>1
  <2>4. CASE ~(k <= m - i)
    <3>1. PICK j \in 1 .. d : j = k - (m - i) /\ j = (i + k) - m
      <4>1. k - (m - i) \in 1 .. d /\ k - (m - i) = (i + k) - m
        BY <1>1, <2>2, <2>4
      <4> QED
        BY <4>1
    <3>2. ~(i + k <= m)
      BY <1>1, <2>4
    <3>3. w[i + k] = t[j]
      BY <1>2, <2>1, <3>1, <3>2
    <3>4. x2[k] = z[j]
      BY <1>7, <2>2, <2>4, <3>1
    <3> QED
      BY <1>4, <2>1, <3>3, <3>4
  <2> QED
    BY <2>3, <2>4
<1>9. Len(x1) = Len(x2)
  BY <1>1, <1>5, <1>6, <1>7
<1>10. x1 = x2
  BY <1>6, <1>8, <1>9, SeqEqual
<1> QED
  BY <1>1, <1>2, <1>3, <1>4, <1>5, <1>6, <1>7, <1>10

LEMMA SliceThrough ==
  ASSUME NEW c, NEW u \in TextOf(c), NEW s \in TextOf(c), NEW y \in TextOf(c),
         NEW w \in TextOf(c), NEW i \in Nat, NEW q \in Nat
  PROVE  Begins(Then(u, Then(s, y)), w) /\ i <= Len(s) /\ q <= Len(y) =>
           Then(Slice(s, i, Len(s)), Slice(y, 0, q)) =
             Slice(w, Len(u) + i, Len(u) + (Len(s) + q))
<1> SUFFICES ASSUME Begins(Then(u, Then(s, y)), w), i <= Len(s), q <= Len(y)
             PROVE  Then(Slice(s, i, Len(s)), Slice(y, 0, q)) =
                      Slice(w, Len(u) + i, Len(u) + (Len(s) + q))
  OBVIOUS
<1>0. PICK S : TextOf(c) = Seq(S)
  BY DEF TextOf
<1>1. PICK v \in Seq(S) : v = Then(s, y) /\ Len(v) = Len(s) + Len(y)
  BY <1>0, TextsJoined
<1>2. PICK j \in Nat : j = Len(s) + q /\ j <= Len(v)
  <2>1. PICK k \in Nat, l \in Nat : k = Len(s) /\ l = Len(y)
    BY <1>0
  <2>2. k + q \in Nat /\ k + q <= Len(v)
    BY <1>1, <2>1
  <2> QED
    BY <2>1, <2>2
<1>3. Slice(v, i, j) = Slice(w, Len(u) + i, Len(u) + j)
  <2>1. Begins(Then(u, v), w) /\ u \in Seq(S) /\ w \in Seq(S)
    BY <1>0, <1>1
  <2> QED
    BY <1>2, <2>1, SliceAfter DEF Then
<1>4. Slice(Then(s, y), i, Len(s) + q) = Then(Slice(s, i, Len(s)), Slice(y, 0, q))
  <2>1. s \in Seq(S) /\ y \in Seq(S)
    BY <1>0
  <2> QED
    BY <2>1, SliceJoined DEF Then
<1> QED
  BY <1>1, <1>2, <1>3, <1>4

LEMMA SliceAtEnd ==
  ASSUME NEW c, NEW y \in TextOf(c), NEW t \in TextOf(c), NEW d \in Nat
  PROVE  d <= Len(t) => Slice(Then(y, t), 0, Len(y) + d) = Then(y, Slice(t, 0, d))
<1> SUFFICES ASSUME d <= Len(t)
             PROVE  Slice(Then(y, t), 0, Len(y) + d) = Then(y, Slice(t, 0, d))
  OBVIOUS
<1>0. PICK S : TextOf(c) = Seq(S)
  BY DEF TextOf
<1>1. 0 \in Nat /\ 0 <= Len(y) /\ 0 + 1 = 1 /\ y \in Seq(S) /\ t \in Seq(S)
  BY <1>0
<1>2. Slice(Then(y, t), 0, Len(y) + d) = Then(Slice(y, 0, Len(y)), Slice(t, 0, d))
  BY <1>1, SliceJoined DEF Then
<1>3. Slice(y, 0, Len(y)) = y
  BY <1>1, SubSeqFull DEF Slice
<1> QED
  BY <1>2, <1>3

LEMMA SliceType ==
  ASSUME NEW c, NEW t \in TextOf(c), NEW o \in Nat, NEW e \in Nat
  PROVE  e <= Len(t) => Slice(t, o, e) \in TextOf(c)
<1>1. PICK S : TextOf(c) = Seq(S)
  BY DEF TextOf
<1> QED
  BY <1>1, PartOf DEF Slice

LEMMA TextLength == ASSUME NEW c, NEW t \in TextOf(c) PROVE Len(t) \in Nat
BY DEF TextOf

\* The lines u, s, m, z, t begin w; the slice leaves out the first i characters
\* of s and ends after d of t.
LinesFit(c, u, s, m, z, t, w, i, d) ==
  /\ u \in TextOf(c) /\ s \in TextOf(c) /\ m \in TextOf(c) /\ z \in TextOf(c)
  /\ t \in TextOf(c) /\ w \in TextOf(c) /\ i \in Nat /\ d \in Nat
  /\ Begins(Then(u, Then(s, Then(Then(m, z), t))), w) /\ i <= Len(s) /\ d <= Len(t)

LEMMA SliceOfLines ==
  ASSUME NEW c, NEW u, NEW s, NEW m, NEW z, NEW t, NEW w, NEW i, NEW d,
         LinesFit(c, u, s, m, z, t, w, i, d)
  PROVE  Then(Then(Then(Slice(s, i, Len(s)), m), z), Slice(t, 0, d)) =
           Slice(w, Len(u) + i, Len(u) + (Len(s) + (Len(m) + Len(z) + d)))
<1>0. /\ u \in TextOf(c) /\ s \in TextOf(c) /\ m \in TextOf(c) /\ z \in TextOf(c)
      /\ t \in TextOf(c) /\ w \in TextOf(c) /\ i \in Nat /\ d \in Nat
      /\ Begins(Then(u, Then(s, Then(Then(m, z), t))), w) /\ i <= Len(s) /\ d <= Len(t)
  BY DEF LinesFit
<1>1. \A s1, s2, s3 \in TextOf(c) : Then(Then(s1, s2), s3) = Then(s1, Then(s2, s3))
  BY JoinedInAnyOrder
<1>2. \A s1, s2 \in TextOf(c) :
        Then(s1, s2) \in TextOf(c) /\ Len(Then(s1, s2)) = Len(s1) + Len(s2)
  BY TextsJoined
<1>3. PICK mz : mz = Then(m, z)
  OBVIOUS
<1>4. mz \in TextOf(c) /\ Len(mz) = Len(m) + Len(z)
  BY <1>0, <1>2, <1>3
<1>5. PICK y, q : y = Then(mz, t) /\ q = Len(mz) + d
  OBVIOUS
<1>6. y \in TextOf(c) /\ q \in Nat /\ q <= Len(y)
  <2>1. y \in TextOf(c) /\ Len(y) = Len(mz) + Len(t)
    BY <1>0, <1>2, <1>4, <1>5
  <2>2. Len(mz) \in Nat /\ Len(t) \in Nat
    BY <1>0, <1>4, TextLength
  <2> QED
    BY <1>0, <1>5, <2>1, <2>2
<1>7. Begins(Then(u, Then(s, y)), w)
  BY <1>0, <1>3, <1>5
<1>8. Then(Slice(s, i, Len(s)), Slice(y, 0, q)) =
        Slice(w, Len(u) + i, Len(u) + (Len(s) + q))
  BY <1>0, <1>6, <1>7, SliceThrough, SMTT(60)
<1>9. Slice(y, 0, q) = Then(mz, Slice(t, 0, d))
  BY <1>0, <1>4, <1>5, SliceAtEnd
<1>10. PICK f, g : f = Slice(s, i, Len(s)) /\ g = Slice(t, 0, d)
  OBVIOUS
<1>11. f \in TextOf(c) /\ g \in TextOf(c)
  <2>1. Len(s) \in Nat /\ Len(s) <= Len(s) /\ 0 \in Nat
    BY <1>0, TextLength
  <2> QED
    BY <1>0, <1>10, <2>1, SliceType
<1>12. Then(Then(f, m), z) = Then(f, mz)
  BY <1>0, <1>1, <1>3, <1>11
<1>13. Then(Then(f, mz), g) = Then(f, Then(mz, g))
  BY <1>0, <1>1, <1>4, <1>11
<1> QED
  BY <1>0, <1>4, <1>5, <1>8, <1>9, <1>10, <1>12, <1>13

\* What is returned for a range.
LessOf(c) == IF c.from[1] < c.to[1] /\ InLine(c, c.to) /\ c.to[2] > 0 THEN 1 ELSE 0

RangeReads(c) ==
  /\ ValidRange(c) /\ (c.strict => InLine(c, c.from) /\ InLine(c, c.to))
  /\ RangeContent(c).text =
       SubSeq(WholeText(c), Before(c, c.from) + 1, Before(c, c.to) - LessOf(c))

LEMMA RangeFacts ==
  ASSUME NEW c \in RangeCases, RangeContent(c) # NoText
  PROVE  /\ ValidRange(c) /\ (c.strict => InLine(c, c.from) /\ InLine(c, c.to))
         /\ c.from \in Nat \X Nat /\ c.to \in Nat \X Nat
         /\ c.from[1] \in LineNumber(c) /\ c.to[1] \in LineNumber(c)
         /\ RangeContent(c).text =
              IF c.from[1] = c.to[1] THEN OneLine(c)
              ELSE ((FirstLine(c) \o MiddleLines(c)) \o <<LineEnd>>) \o LastLine(c)
<1>1. /\ c.from \in Nat \X Nat /\ c.to \in Nat \X Nat
  BY RangeConstants
<1>2. ~(~ValidRange(c) \/ (c.strict /\ ~(InLine(c, c.from) /\ InLine(c, c.to))))
  BY DEF RangeContent
<1>3. c.from[1] \in LineNumber(c) /\ c.to[1] \in LineNumber(c)
  BY <1>1, <1>2 DEF ValidRange, LineNumber
<1>4. \A t : Text(t).text = t
  BY DEF Text
<1>5. RangeContent(c).text =
        IF c.from[1] = c.to[1] THEN OneLine(c)
        ELSE ((FirstLine(c) \o MiddleLines(c)) \o <<LineEnd>>) \o LastLine(c)
  BY <1>2, <1>4 DEF RangeContent
<1> QED
  BY <1>1, <1>2, <1>3, <1>5

LEMMA ClampedType ==
  ASSUME NEW c \in RangeCases, NEW p \in Nat \X Nat, p[1] \in LineNumber(c)
  PROVE  Clamped(c, p) \in Nat /\ Clamped(c, p) <= Len(LineAt(c, p[1]))
<1>1. PICK S : TextOf(c) = Seq(S)
  BY DEF TextOf
<1>2. PICK l \in Seq(S), k \in Nat : l = LineAt(c, p[1]) /\ k = p[2]
  BY <1>1, LineType
<1> QED
  BY <1>2 DEF Clamped, InLine

\* The end of a range is a character earlier, if it can be.
LEMMA LastLineIs ==
  ASSUME NEW c \in RangeCases, NEW b2 \in LineNumber(c), c.to \in Nat \X Nat,
         b2 = c.to[1], c.from[1] < b2
  PROVE  \E d \in Nat : /\ d = Clamped(c, c.to) - LessOf(c) /\ d <= Len(LineAt(c, b2))
                       /\ LastLine(c) = Slice(LineAt(c, b2), 0, d)
<1>1. PICK S : TextOf(c) = Seq(S)
  BY DEF TextOf
<1>2. PICK t \in Seq(S), k \in Nat : t = LineAt(c, b2) /\ k = c.to[2]
  BY <1>1, LineType
<1>3. CASE InLine(c, c.to)
  <2>1. k <= Len(t) /\ Clamped(c, c.to) = k
    BY <1>2, <1>3 DEF InLine, Clamped
  <2>2. PICK d \in Nat : d = IF k > 0 THEN k - 1 ELSE 0
    OBVIOUS
  <2>3. d <= Len(t) /\ d = k - LessOf(c)
    BY <1>2, <1>3, <2>1, <2>2 DEF LessOf
  <2>4. LastLine(c) = Slice(t, 0, d)
    <3>1. 0 + 1 = 1
      OBVIOUS
    <3> QED
      BY <1>2, <1>3, <2>2, <3>1 DEF LastLine, Slice
  <2> QED
    BY <1>2, <2>1, <2>3, <2>4
<1>4. CASE ~InLine(c, c.to)
  <2>1. PICK d \in Nat : d = Len(t)
    OBVIOUS
  <2>2. Clamped(c, c.to) = d /\ LessOf(c) = 0
    BY <1>2, <1>4, <2>1 DEF Clamped, LessOf
  <2>3. LastLine(c) = t
    BY <1>2, <1>4 DEF LastLine
  <2>4. Slice(t, 0, d) = t
    <3>1. 0 + 1 = 1
      OBVIOUS
    <3> QED
      BY <2>1, <3>1, SubSeqFull DEF Slice
  <2> QED
    BY <1>2, <2>1, <2>2, <2>3, <2>4
<1> QED
  BY <1>3, <1>4

\* In one line, and in several.
LEMMA OneLineReads ==
  ASSUME NEW c \in RangeCases, RangeContent(c) # NoText, c.from[1] = c.to[1]
  PROVE  RangeReads(c)
<1>1. /\ ValidRange(c) /\ (c.strict => InLine(c, c.from) /\ InLine(c, c.to))
      /\ c.from \in Nat \X Nat /\ c.to \in Nat \X Nat
      /\ c.from[1] \in LineNumber(c) /\ RangeContent(c).text = OneLine(c)
  BY RangeFacts
<1>2. PICK n \in LineNumber(c) : n = c.from[1] /\ n = c.to[1]
  BY <1>1
<1>3. PICK S : TextOf(c) = Seq(S)
  BY DEF TextOf
<1>4. PICK u \in Seq(S), t \in Seq(S), w \in Seq(S) :
        /\ u = Ended(c, n) /\ t = LineAt(c, n) /\ w = WholeText(c) /\ Begins(u \o t, w)
  BY <1>3, EndedGrow, LineType, TextUpTo, TextBegins
<1>5. PICK i \in Nat, j \in Nat :
        i = Clamped(c, c.from) /\ j = Clamped(c, c.to) /\ j <= Len(t)
  BY <1>1, <1>2, <1>4, ClampedType
<1>6. Slice(t, i, j) = Slice(w, Len(u) + i, Len(u) + j)
  <2>1. Begins(u \o t, w) /\ j <= Len(t)
    BY <1>4, <1>5
  <2> QED
    BY <2>1, SliceAfter, Z3
<1>7. OneLine(c) = Slice(t, i, j)
  BY <1>2, <1>4, <1>5 DEF OneLine, Slice
<1>8. Before(c, c.from) = Len(u) + i /\ Before(c, c.to) = Len(u) + j
  BY <1>2, <1>4, <1>5 DEF Before, Ended
<1>9. PICK p \in Nat, q \in Nat : p = Len(u) + i /\ q = Len(u) + j
  OBVIOUS
<1>10. LessOf(c) = 0 /\ q - 0 = q
  BY <1>2 DEF LessOf, LineNumber
<1>11. OneLine(c) = SubSeq(w, p + 1, q)
  BY <1>6, <1>7, <1>9 DEF Slice
<1> QED
  BY <1>1, <1>4, <1>8, <1>9, <1>10, <1>11 DEF RangeReads

LEMMA JoinedFive ==
  ASSUME NEW c, NEW u \in TextOf(c), NEW s \in TextOf(c), NEW m \in TextOf(c),
         NEW z \in TextOf(c), NEW t \in TextOf(c)
  PROVE  /\ Then(Then(Then(u, s), m), Then(z, t)) = Then(u, Then(s, Then(Then(m, z), t)))
         /\ Len(Then(Then(Then(u, s), m), Then(z, t))) =
              Len(u) + Len(s) + Len(m) + (Len(z) + Len(t))
<1>1. \A s1, s2, s3 \in TextOf(c) : Then(Then(s1, s2), s3) = Then(s1, Then(s2, s3))
  BY JoinedInAnyOrder
<1>2. \A s1, s2 \in TextOf(c) :
        Then(s1, s2) \in TextOf(c) /\ Len(Then(s1, s2)) = Len(s1) + Len(s2)
  BY TextsJoined
<1>3. PICK zt, us, sm : zt = Then(z, t) /\ us = Then(u, s) /\ sm = Then(s, m)
  OBVIOUS
<1>4. zt \in TextOf(c) /\ us \in TextOf(c) /\ sm \in TextOf(c)
  BY <1>2, <1>3
<1>5. Then(us, m) = Then(u, sm)
  BY <1>1, <1>3
<1>6. Then(Then(u, sm), zt) = Then(u, Then(sm, zt))
  BY <1>1, <1>4
<1>7. Then(sm, zt) = Then(s, Then(m, zt))
  BY <1>1, <1>3, <1>4
<1>8. Then(Then(m, z), t) = Then(m, zt)
  BY <1>1, <1>3
<1>9. Then(Then(us, m), zt) = Then(u, Then(s, Then(Then(m, z), t)))
  BY <1>5, <1>6, <1>7, <1>8
<1>10. PICK usm : usm = Then(us, m)
  OBVIOUS
<1>11. usm \in TextOf(c) /\ Len(usm) = Len(us) + Len(m)
  BY <1>2, <1>4, <1>10
<1>12. Len(Then(usm, zt)) = Len(usm) + Len(zt)
  BY <1>2, <1>4, <1>11
<1>13. Len(us) = Len(u) + Len(s) /\ Len(zt) = Len(z) + Len(t)
  BY <1>2, <1>3
<1> QED
  BY <1>3, <1>9, <1>10, <1>11, <1>12, <1>13

LEMMA LinesRead ==
  ASSUME NEW c \in RangeCases, RangeContent(c) # NoText, c.from[1] # c.to[1]
  PROVE  RangeReads(c)
<1>1. /\ ValidRange(c) /\ (c.strict => InLine(c, c.from) /\ InLine(c, c.to))
      /\ c.from \in Nat \X Nat /\ c.to \in Nat \X Nat
      /\ c.from[1] \in LineNumber(c) /\ c.to[1] \in LineNumber(c)
      /\ RangeContent(c).text =
           ((FirstLine(c) \o MiddleLines(c)) \o <<LineEnd>>) \o LastLine(c)
  BY RangeFacts
<1>2. PICK n \in LineNumber(c), b2 \in LineNumber(c) : n = c.from[1] /\ b2 = c.to[1]
  BY <1>1
<1>3. n \in Nat /\ b2 \in Nat /\ n < b2
  BY <1>1, <1>2 DEF ValidRange, LineNumber
<1>4. PICK k \in Nat, l \in LineNumber(c) :
        k = b2 - n - 1 /\ l = n + k /\ l + 1 = b2 /\ l + 1 \in LineNumber(c)
  <2>1. /\ b2 - n - 1 \in Nat /\ n + (b2 - n - 1) \in LineNumber(c)
        /\ n + (b2 - n - 1) + 1 = b2
    BY <1>3 DEF LineNumber
  <2> QED
    BY <2>1
<1>6. PICK u \in TextOf(c), s \in TextOf(c), m \in TextOf(c), z \in TextOf(c),
           t \in TextOf(c), w \in TextOf(c) :
        /\ u = Ended(c, n) /\ s = LineAt(c, n) /\ m = LinesFrom(c, n + 1, k)
        /\ z = <<LineEnd>> /\ t = LineAt(c, b2) /\ w = WholeText(c)
  BY <1>4, EndedGrow, LineType, TextGoesOn, TextBegins
<1>7. UpToLine(c, b2) = Then(Then(Then(u, s), m), Then(z, t))
  <2>1. UpToLine(c, n) = Then(u, s)
    BY <1>6, TextUpTo DEF Then
  <2>2. UpToLine(c, l) = Then(Then(u, s), m)
    BY <1>4, <1>6, <2>1, TextGoesOn DEF Then
  <2>3. UpToLine(c, b2) = Then(UpToLine(c, l), NextLine(c, b2))
    BY <1>4, TextUpTo DEF Then
  <2> QED
    BY <1>6, <2>2, <2>3 DEF NextLine, Then
<1>8. Then(Then(Then(u, s), m), Then(z, t)) = Then(u, Then(s, Then(Then(m, z), t)))
  BY JoinedFive
<1>9. Begins(Then(u, Then(s, Then(Then(m, z), t))), w)
  BY <1>6, <1>7, <1>8, TextBegins
<1>10. PICK i \in Nat : i = Clamped(c, c.from) /\ i <= Len(s)
  BY <1>1, <1>2, <1>6, ClampedType
<1>11. PICK d \in Nat : /\ d = Clamped(c, c.to) - LessOf(c) /\ d <= Len(t)
                        /\ LastLine(c) = Slice(t, 0, d)
  BY <1>1, <1>2, <1>3, <1>6, LastLineIs
<1>12. PICK p \in Nat, q \in Nat :
         p = Len(u) + i /\ q = Len(u) + (Len(s) + (Len(m) + Len(z) + d))
  <2>1. /\ Len(u) \in Nat /\ Len(s) \in Nat /\ Len(m) \in Nat /\ Len(z) \in Nat
    BY TextLength
  <2>2. /\ Len(u) + i \in Nat /\ Len(u) + (Len(s) + (Len(m) + Len(z) + d)) \in Nat
    BY <2>1
  <2> QED
    BY <2>2
<1>13. Then(Then(Then(Slice(s, i, Len(s)), m), z), Slice(t, 0, d)) = Slice(w, p, q)
  <2>1. Then(Then(Then(Slice(s, i, Len(s)), m), z), Slice(t, 0, d)) =
          Slice(w, Len(u) + i, Len(u) + (Len(s) + (Len(m) + Len(z) + d)))
    <3>1. /\ Begins(Then(u, Then(s, Then(Then(m, z), t))), w)
          /\ i <= Len(s) /\ d <= Len(t)
      BY <1>9, <1>10, <1>11
    <3>2. /\ u \in TextOf(c) /\ s \in TextOf(c) /\ m \in TextOf(c) /\ z \in TextOf(c)
          /\ t \in TextOf(c) /\ w \in TextOf(c) /\ i \in Nat /\ d \in Nat
      OBVIOUS
    <3> QED
      BY <3>1, <3>2, SliceOfLines, SMTT(60) DEF LinesFit
  <2> QED
    BY <1>12, <2>1
<1>14. FirstLine(c) = Slice(s, i, Len(s)) /\ MiddleLines(c) = m
  BY <1>2, <1>4, <1>6, <1>10 DEF FirstLine, MiddleLines, Slice
<1>15. RangeContent(c).text = SubSeq(w, p + 1, q)
  BY <1>1, <1>6, <1>11, <1>13, <1>14 DEF Slice, Then
<1>16. Before(c, c.from) = p
  BY <1>2, <1>6, <1>10, <1>12 DEF Before, Ended
<1>17. Before(c, c.to) - LessOf(c) = q
  <2>1. PICK e \in TextOf(c) : e = Ended(c, b2) /\ UpToLine(c, b2) = Then(e, t)
    BY <1>6, EndedGrow, TextUpTo DEF Then
  <2>2. Len(e) + Len(t) = Len(u) + Len(s) + Len(m) + (Len(z) + Len(t))
    <3>1. Then(e, t) = Then(Then(Then(u, s), m), Then(z, t))
      BY <1>7, <2>1
    <3>2. Len(Then(e, t)) = Len(e) + Len(t)
      BY TextsJoined
    <3>3. Len(Then(Then(Then(u, s), m), Then(z, t))) =
            Len(u) + Len(s) + Len(m) + (Len(z) + Len(t))
      BY JoinedFive
    <3> QED
      BY <3>1, <3>2, <3>3
  <2>3. Before(c, c.to) = Len(e) + Clamped(c, c.to) /\ Clamped(c, c.to) \in Nat
    BY <1>1, <1>2, <2>1, ClampedType DEF Before, Ended
  <2>4. LessOf(c) \in Nat
    BY DEF LessOf
  <2>5. PICK a1 \in Nat, a2 \in Nat, a3 \in Nat, a4 \in Nat, a5 \in Nat, a6 \in Nat :
          /\ a1 = Len(u) /\ a2 = Len(s) /\ a3 = Len(m) /\ a4 = Len(z) /\ a5 = Len(t)
          /\ a6 = Len(e)
    <3>1. /\ Len(u) \in Nat /\ Len(s) \in Nat /\ Len(m) \in Nat /\ Len(z) \in Nat
          /\ Len(t) \in Nat /\ Len(e) \in Nat
      BY TextLength
    <3> QED
      BY <3>1
  <2>6. PICK k1 \in Nat, k2 \in Nat : k1 = Clamped(c, c.to) /\ k2 = LessOf(c)
    BY <2>3, <2>4
  <2>7. d = k1 - k2 /\ Before(c, c.to) = a6 + k1
    BY <1>11, <2>3, <2>5, <2>6
  <2>8. q = a1 + (a2 + (a3 + a4 + d)) /\ a6 + a5 = a1 + a2 + a3 + (a4 + a5)
    BY <1>12, <2>2, <2>5
  <2> QED
    BY <2>6, <2>7, <2>8
<1> QED
  BY <1>1, <1>6, <1>15, <1>16, <1>17 DEF RangeReads

RangeInv ==
  /\ rangeCase \in RangeCases
  /\ rangeResult = NoText \/ rangeResult = RangeContent(rangeCase)

LEMMA RangesHold == RangeInv => RangeSound
<1> SUFFICES ASSUME RangeInv, rangeResult # NoText
             PROVE  RangeReads(rangeCase) /\ rangeResult = RangeContent(rangeCase)
  BY DEF RangeSound, RangeReads, LessOf
<1> QED
  BY OneLineReads, LinesRead DEF RangeInv

=============================================================================
