---------------------------- MODULE PollingScan ----------------------------
(***************************************************************************)
(* One scan of the polling watcher (scan and processDir of                 *)
(* polling_watcher.go): workers take directories from a channel and put    *)
(* the directories they find back into it, or descend themselves when it   *)
(* is full.  Nobody knows the number of directories beforehand; a further  *)
(* goroutine closes the channel when it has seen it empty and then seen no *)
(* active worker.  FileWatch takes it for granted that a scan looks at     *)
(* every file.                                                             *)
(***************************************************************************)
EXTENDS Integers, Sequences, FiniteSets

CONSTANTS
  Folder, Workspace,    \* directories; the one the scan begins with
  Listing,      \* what os.ReadDir returns: a sequence for each directory
  Ignored,      \* hidden directories, node_modules, vendor
  Source,       \* files that end in .bsl or .os
  Worker, Capacity      \* pw.workers; capacity of the channel, 1000 in the code

\* What is on a sequence.
On(s) == {s[i] : i \in DOMAIN s}

\* A directory is not a file; GetPollingWorkers returns at least 1.
ASSUME ScanConstants ==
  /\ Workspace \in Folder \ Ignored /\ Capacity \in Nat \ {0}
  /\ DOMAIN Listing = Folder
  /\ \A d \in Folder : Listing[d] \in Seq(On(Listing[d]))
  /\ Source \cap Folder = {}
  /\ IsFiniteSet(Worker) /\ Worker # {}

\* What is in the directories of S, and which of it a scan goes into.
Members(S) == UNION {On(Listing[d]) : d \in S}

Below(S) == Members(S) \cap (Folder \ Ignored)

VARIABLES
  dirs,         \* the channel
  dirsClosed,
  worker,       \* where each worker is
  entries,      \* what it has still to look at in its directory
  activeWorkers,
  closer,       \* the goroutine that closes the channel
  result,       \* the files found
  panicked,     \* a send on the closed channel: the process ends
  early         \* history: the channel was closed before the work was done

scanVars == <<dirs, dirsClosed, worker, entries, activeWorkers, closer,
              result, panicked, early>>

ScanTypeOK ==
  /\ dirs \in Seq(Folder) /\ Len(dirs) <= Capacity
  /\ dirsClosed \in BOOLEAN /\ panicked \in BOOLEAN /\ early \in BOOLEAN
  /\ worker \in [Worker -> {"range", "took", "work", "ended"}]
  /\ entries \in [Worker -> Seq(Members(Folder))]
  /\ activeWorkers = Cardinality({w \in Worker : worker[w] = "work"})
  /\ closer \in {"sleep", "sawEmpty", "ended"}
  /\ result \subseteq Source

ScanInit ==
  /\ dirs = <<Workspace>> /\ dirsClosed = FALSE
  /\ worker = [w \in Worker |-> "range"]
  /\ entries = [w \in Worker |-> << >>]
  /\ activeWorkers = 0 /\ closer = "sleep"
  /\ result = {} /\ panicked = FALSE /\ early = FALSE

-----------------------------------------------------------------------------
(* A worker.  Between taking a directory and counting itself it is neither *)
(* seen in the channel nor in activeWorkers.                               *)

Take(w) ==
  /\ worker[w] = "range" /\ dirs # << >>
  /\ dirs' = Tail(dirs)
  /\ worker' = [worker EXCEPT ![w] = "took"]
  /\ entries' = [entries EXCEPT ![w] = Listing[Head(dirs)]]
  /\ UNCHANGED <<dirsClosed, activeWorkers, closer, result, panicked, early>>

CountIn(w) ==
  /\ worker[w] = "took"
  /\ worker' = [worker EXCEPT ![w] = "work"]
  /\ activeWorkers' = activeWorkers + 1
  /\ UNCHANGED <<dirs, dirsClosed, entries, closer, result, panicked, early>>

AtFolder(w) ==
  /\ worker[w] = "work" /\ entries[w] # << >>
  /\ Head(entries[w]) \in Folder \ Ignored

\* Mutant: a directory that does not fit into the channel is left out.
DescendSkips(w) ==
  /\ AtFolder(w) /\ ~dirsClosed /\ Len(dirs) = Capacity
  /\ entries' = [entries EXCEPT ![w] = Tail(@)]
  /\ UNCHANGED <<dirs, dirsClosed, worker, activeWorkers, closer, result,
                 panicked, early>>

\* Mutant: a worker waits for room in the channel.
DescendWaits(w) ==
  /\ AtFolder(w) /\ ~dirsClosed /\ Len(dirs) < Capacity
  /\ dirs' = Append(dirs, Head(entries[w]))
  /\ entries' = [entries EXCEPT ![w] = Tail(@)]
  /\ UNCHANGED <<dirsClosed, worker, activeWorkers, closer, result, panicked,
                 early>>

\* The channel is full: processDir calls itself.
Descend(w) ==
  /\ AtFolder(w) /\ ~dirsClosed /\ Len(dirs) = Capacity
  /\ entries' = [entries EXCEPT ![w] = Listing[Head(@)] \o Tail(@)]
  /\ UNCHANGED <<dirs, dirsClosed, worker, activeWorkers, closer, result,
                 panicked, early>>

Enqueue(w) ==
  /\ AtFolder(w) /\ ~dirsClosed /\ Len(dirs) < Capacity
  /\ dirs' = Append(dirs, Head(entries[w]))
  /\ entries' = [entries EXCEPT ![w] = Tail(@)]
  /\ UNCHANGED <<dirsClosed, worker, activeWorkers, closer, result, panicked,
                 early>>

\* A select with a send on a closed channel panics, default or not.
Panic(w) ==
  /\ AtFolder(w) /\ dirsClosed
  /\ panicked' = TRUE
  /\ UNCHANGED <<dirs, dirsClosed, worker, entries, activeWorkers, closer,
                 result, early>>

LookAtFile(w) ==
  /\ worker[w] = "work" /\ entries[w] # << >>
  /\ Head(entries[w]) \notin Folder \ Ignored
  /\ entries' = [entries EXCEPT ![w] = Tail(@)]
  /\ result' = result \cup ({Head(entries[w])} \cap Source)
  /\ UNCHANGED <<dirs, dirsClosed, worker, activeWorkers, closer, panicked,
                 early>>

CountOut(w) ==
  /\ worker[w] = "work" /\ entries[w] = << >>
  /\ worker' = [worker EXCEPT ![w] = "range"]
  /\ activeWorkers' = activeWorkers - 1
  /\ UNCHANGED <<dirs, dirsClosed, entries, closer, result, panicked, early>>

\* range ends when the channel is closed and empty.
WorkerEnds(w) ==
  /\ worker[w] = "range" /\ dirs = << >> /\ dirsClosed
  /\ worker' = [worker EXCEPT ![w] = "ended"]
  /\ UNCHANGED <<dirs, dirsClosed, entries, activeWorkers, closer, result,
                 panicked, early>>

-----------------------------------------------------------------------------
(* The closing goroutine looks at the channel and at the counter one after *)
(* the other.                                                              *)

LookAtChannel ==
  /\ closer = "sleep" /\ dirs = << >>
  /\ closer' = "sawEmpty"
  /\ UNCHANGED <<dirs, dirsClosed, worker, entries, activeWorkers, result,
                 panicked, early>>

CloseChannel ==
  /\ closer = "sawEmpty" /\ activeWorkers = 0
  /\ closer' = "ended" /\ dirsClosed' = TRUE
  /\ early' = (dirs # << >> \/ \E w \in Worker : worker[w] = "took")
  /\ UNCHANGED <<dirs, worker, entries, activeWorkers, result, panicked>>

Postpone ==
  /\ closer = "sawEmpty" /\ activeWorkers > 0
  /\ closer' = "sleep"
  /\ UNCHANGED <<dirs, dirsClosed, worker, entries, activeWorkers, result,
                 panicked, early>>

WorkerStep(w) ==
  \/ Take(w) \/ CountIn(w) \/ Descend(w) \/ Enqueue(w) \/ Panic(w)
  \/ LookAtFile(w) \/ CountOut(w) \/ WorkerEnds(w)

CloserStep == LookAtChannel \/ CloseChannel \/ Postpone

ScanNext ==
  /\ ~panicked
  /\ CloserStep \/ \E w \in Worker : WorkerStep(w)

ScanSpec == ScanInit /\ [][ScanNext]_scanVars

-----------------------------------------------------------------------------
(* Properties. *)

\* The directories that are there to be found: no set that has the workspace
\* and what is below its members leaves one out.
Reachable ==
  {d \in Folder :
     \A S \in SUBSET Folder : Workspace \in S /\ Below(S) \subseteq S => d \in S}

ScanReturned == ~panicked /\ \A w \in Worker : worker[w] = "ended"

\* polling_watcher.go:216-227: a scan that returns has found every source
\* file, however the workers and the goroutine that closes the channel are
\* interleaved; and the process ends with a send on a closed channel only if
\* that goroutine overlooked a directory that was still in the channel, put
\* there after it looked, or that a worker had taken and not yet counted.
ScanComplete ==
  /\ ScanReturned => result = Members(Reachable) \cap Source
  /\ panicked => early

\* A scan that has begun returns, or the process has ended: the closing
\* goroutine does find the workers idle, and no worker waits in the channel
\* for the others.
ScanEnds == dirs # <<Workspace>> ~> panicked \/ ScanReturned

=============================================================================
