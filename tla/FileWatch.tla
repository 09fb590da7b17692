----------------------------- MODULE FileWatch -----------------------------
(***************************************************************************)
(* How the language server learns that files changed on disk: the polling  *)
(* watcher of the session manager (polling_watcher.go), which starts when  *)
(* main.go believes that the server has finished indexing, and drops the   *)
(* changes it finds while the server is indexing.  The manager believes    *)
(* what the $/progress notifications say that it has read so far.          *)
(*                                                                         *)
(* The file system and the language server are the environment: the server *)
(* lists and reads the files once while it indexes, and reads a file again *)
(* when a notification names it.  A file's content is its version, 0 for   *)
(* no file; the watcher sees modification times in whole seconds only.     *)
(***************************************************************************)
EXTENDS Naturals, Sequences

CONSTANTS
  File,         \* the .bsl and .os files below the workspace
  Absent,       \* no modification time: the path is not in the map
  MaxEdits,     \* bound of the model: writes and deletions
  MaxClock,     \* bound of the model: seconds that pass
  MaxWork       \* bound of the model: how often the server reports the
                \* progress of something else than its first indexing

ASSUME FileConstants ==
  /\ Absent \notin Nat
  /\ MaxEdits \in Nat /\ MaxClock \in Nat /\ MaxWork \in Nat

VARIABLES
  clock,        \* seconds
  edits,        \* how many edits were made
  version,      \* the content of each file on disk
  mtime,        \* its modification time
  known,        \* the content the server has of each file
  phase,        \* of the server: "starting", "indexing", "ready", "working"
  toRead,       \* files the server has listed and not yet read
  worked,       \* how often the server was "working"
  progress,     \* $/progress notifications the manager has not yet read
  inbox,        \* didChangeWatchedFiles the server has not yet read
  active,       \* sm.indexingActive
  watcher,      \* where the watcher's goroutine is
  toScan,       \* files the scan has still to look at
  newFiles,     \* the result of the scan, modification times
  fileMap,      \* pw.fileMap
  changes,      \* the changes checkForChanges has found
  newVersion,   \* history: the versions that newFiles stands for
  mapVersion,   \* history: the versions that fileMap stands for
  lost,         \* history: files with a change that no scan will find
  dropped       \* history: files with a change that was found and dropped

disk    == <<clock, edits, version, mtime>>
server  == <<known, phase, toRead, worked>>
polling == <<watcher, toScan, newFiles, fileMap, changes, newVersion,
             mapVersion>>
gaps    == <<lost, dropped>>
vars == <<disk, server, progress, inbox, active, polling, gaps>>

Time == 0 .. MaxClock

\* Every variable has its type; the watcher holds changes only between
\* finding them and its decision to send or drop them.
TypeOK ==
  /\ clock \in Time /\ edits \in 0 .. MaxEdits
  /\ version \in [File -> 0 .. MaxEdits + 1]
  /\ mtime \in [File -> Time]
  /\ known \in [File -> 0 .. MaxEdits + 1]
  /\ phase \in {"starting", "indexing", "ready", "working"}
  /\ toRead \subseteq File /\ worked \in 0 .. MaxWork
  /\ progress \in Seq({"begin", "end"})
  /\ inbox \in Seq(SUBSET File)
  /\ active \in BOOLEAN
  /\ watcher \in {"waiting", "first", "idle", "scan", "found"}
  /\ toScan \subseteq File
  /\ newFiles \in [File -> Time \cup {Absent}]
  /\ fileMap \in [File -> Time \cup {Absent}]
  /\ changes \subseteq File /\ (changes # {} <=> watcher = "found")
  /\ newVersion \in [File -> 0 .. MaxEdits + 1]
  /\ mapVersion \in [File -> 0 .. MaxEdits + 1]
  /\ lost \subseteq File /\ dropped \subseteq File

\* Any set of files exists when the manager starts the server.
Init ==
  /\ clock = 0 /\ edits = 0
  /\ \E old \in SUBSET File :
       version = [f \in File |-> IF f \in old THEN 1 ELSE 0]
  /\ mtime = [f \in File |-> 0]
  /\ known = [f \in File |-> 0]
  /\ phase = "starting" /\ toRead = {} /\ worked = 0
  /\ progress = << >> /\ inbox = << >>
  /\ active = FALSE
  /\ watcher = "waiting" /\ toScan = {} /\ changes = {}
  /\ newFiles = [f \in File |-> Absent] /\ fileMap = newFiles
  /\ newVersion = [f \in File |-> 0] /\ mapVersion = newVersion
  /\ lost = {} /\ dropped = {}

-----------------------------------------------------------------------------
(* The file system. *)

Tick ==
  /\ clock < MaxClock
  /\ clock' = clock + 1
  /\ UNCHANGED <<edits, version, mtime, server, progress, inbox, active,
                 polling, gaps>>

\* A write gives the file a content that no file has had.
Write(f) ==
  /\ edits < MaxEdits
  /\ edits' = edits + 1
  /\ version' = [version EXCEPT ![f] = edits + 2]
  /\ mtime' = [mtime EXCEPT ![f] = clock]
  /\ UNCHANGED <<clock, server, progress, inbox, active, polling, gaps>>

\* A file that is created and deleted between two scans leaves no trace in
\* the watcher, though the server may have read it.
Delete(f) ==
  /\ edits < MaxEdits /\ version[f] # 0
  /\ edits' = edits + 1
  /\ version' = [version EXCEPT ![f] = 0]
  /\ mtime' = [mtime EXCEPT ![f] = 0]
  /\ lost' = IF watcher \notin {"waiting", "first"} /\ mapVersion[f] = 0
             THEN lost \cup {f} ELSE lost
  /\ UNCHANGED <<clock, server, progress, inbox, active, polling, dropped>>

-----------------------------------------------------------------------------
(* The language server. *)

Begin ==
  /\ \/ /\ phase = "starting"
        /\ phase' = "indexing" /\ UNCHANGED worked
        /\ toRead' = {f \in File : version[f] # 0}
     \/ /\ phase = "ready" /\ worked < MaxWork
        /\ phase' = "working" /\ worked' = worked + 1
        /\ UNCHANGED toRead
  /\ progress' = Append(progress, "begin")
  /\ UNCHANGED <<disk, known, inbox, active, polling, gaps>>

ReadFile(f) ==
  /\ f \in toRead
  /\ toRead' = toRead \ {f}
  /\ known' = [known EXCEPT ![f] = version[f]]
  /\ UNCHANGED <<disk, phase, worked, progress, inbox, active, polling, gaps>>

End ==
  /\ phase \in {"indexing", "working"} /\ toRead = {}
  /\ phase' = "ready"
  /\ progress' = Append(progress, "end")
  /\ UNCHANGED <<disk, known, toRead, worked, inbox, active, polling, gaps>>

ReadNotification ==
  /\ phase # "starting" /\ inbox # << >>
  /\ inbox' = Tail(inbox)
  /\ known' = [f \in File |-> IF f \in Head(inbox) THEN version[f]
                                                   ELSE known[f]]
  /\ lost' = lost \ Head(inbox) /\ dropped' = dropped \ Head(inbox)
  /\ UNCHANGED <<disk, phase, toRead, worked, progress, active, polling>>

-----------------------------------------------------------------------------
(* The session manager: $/progress and the start of the watcher. *)

\* handleNotification; whatever the progress is about.
ReadProgress ==
  /\ progress # << >>
  /\ progress' = Tail(progress)
  /\ active' = (Head(progress) = "begin")
  /\ UNCHANGED <<disk, server, inbox, polling, gaps>>

\* Mutant: the flag is looked at the wrong way round.
StartWatcherInverted ==
  /\ watcher = "waiting" /\ active
  /\ watcher' = "first" /\ toScan' = File
  /\ UNCHANGED <<disk, server, progress, inbox, active, newFiles, fileMap,
                 changes, newVersion, mapVersion, gaps>>

\* startFileWatcherAfterIndexing looks at the flag every five seconds, and
\* the server may not have begun to index when it does.
StartWatcher ==
  /\ watcher = "waiting" /\ ~active
  /\ watcher' = "first" /\ toScan' = File
  /\ UNCHANGED <<disk, server, progress, inbox, active, newFiles, fileMap,
                 changes, newVersion, mapVersion, gaps>>

-----------------------------------------------------------------------------
(* The polling watcher. *)

\* The next tick of the interval.
StartScan ==
  /\ watcher = "idle"
  /\ watcher' = "scan" /\ toScan' = File
  /\ UNCHANGED <<disk, server, progress, inbox, active, newFiles, fileMap,
                 changes, newVersion, mapVersion, gaps>>

\* The workers look at the files in any order, while they change.
ScanFile(f) ==
  /\ f \in toScan
  /\ toScan' = toScan \ {f}
  /\ newFiles' = [newFiles EXCEPT ![f] =
                    IF version[f] = 0 THEN Absent ELSE mtime[f]]
  /\ newVersion' = [newVersion EXCEPT ![f] = version[f]]
  /\ UNCHANGED <<disk, server, progress, inbox, active, watcher, fileMap,
                 changes, mapVersion, gaps>>

\* The first scan is what later ones are compared with.  A file that the
\* server has read before and that has changed since is never told of.
FirstScanDone ==
  /\ watcher = "first" /\ toScan = {}
  /\ watcher' = "idle"
  /\ fileMap' = newFiles /\ mapVersion' = newVersion
  /\ lost' = IF phase = "starting" THEN {}
             ELSE {f \in File \ toRead : known[f] # newVersion[f]}
  /\ UNCHANGED <<disk, server, progress, inbox, active, toScan, newFiles,
                 changes, newVersion, dropped>>

\* Mutant: the loop over the old map, which finds deleted files, is missing.
DiffersNotDeleted(f) == newFiles[f] # Absent /\ newFiles[f] # fileMap[f]

\* Created, changed or deleted.
Differs(f) == newFiles[f] # fileMap[f]

\* checkForChanges replaces the map before it compares.  A file written
\* twice in one second does not differ.
Compare ==
  /\ watcher = "scan" /\ toScan = {}
  /\ fileMap' = newFiles /\ mapVersion' = newVersion
  /\ changes' = {f \in File : Differs(f)}
  /\ watcher' = IF changes' = {} THEN "idle" ELSE "found"
  /\ lost' = lost \cup {f \in File : /\ newFiles[f] = fileMap[f]
                                     /\ newVersion[f] # mapVersion[f]}
  /\ UNCHANGED <<disk, server, progress, inbox, active, toScan, newFiles,
                 newVersion, dropped>>

\* Mutant: the changes are kept instead of dropped.
SkipKeeps ==
  /\ watcher = "found" /\ active
  /\ watcher' = "idle"
  /\ UNCHANGED <<disk, server, progress, inbox, active, toScan, newFiles,
                 fileMap, changes, newVersion, mapVersion, gaps>>

\* Changes found while the server is indexing are dropped, and the map has
\* already moved on.
Skip ==
  /\ watcher = "found" /\ active
  /\ watcher' = "idle" /\ changes' = {}
  /\ dropped' = dropped \cup changes
  /\ UNCHANGED <<disk, server, progress, inbox, active, toScan, newFiles,
                 fileMap, newVersion, mapVersion, lost>>

Send ==
  /\ watcher = "found" /\ ~active
  /\ watcher' = "idle" /\ changes' = {}
  /\ inbox' = Append(inbox, changes)
  /\ UNCHANGED <<disk, server, progress, active, toScan, newFiles, fileMap,
                 newVersion, mapVersion, gaps>>

-----------------------------------------------------------------------------

ServerStep ==
  \/ Begin /\ phase = "starting"
  \/ End \/ ReadNotification
  \/ \E f \in File : ReadFile(f)

WatcherStep ==
  \/ StartWatcher \/ StartScan \/ FirstScanDone \/ Compare \/ Skip \/ Send
  \/ \E f \in File : ScanFile(f)

Next ==
  \/ Tick
  \/ \E f \in File : Write(f) \/ Delete(f)
  \/ Begin \/ End \/ ReadNotification
  \/ \E f \in File : ReadFile(f)
  \/ ReadProgress
  \/ WatcherStep

Spec == Init /\ [][Next]_vars

(***************************************************************************)
(* The watcher's goroutine and readResponses are scheduled and the ticker  *)
(* ticks.  The server indexes, ends what it began and reads its input:     *)
(* without that no watcher could make it know anything.                    *)
(***************************************************************************)
Fairness ==
  /\ WF_vars(ServerStep)
  /\ WF_vars(ReadProgress)
  /\ WF_vars(WatcherStep)

FairSpec == Spec /\ Fairness

-----------------------------------------------------------------------------
(* Properties. *)

\* A file of which the server has not the present content will be read by
\* it, is named in a notification, or will be found by the watcher; unless
\* its change fell into one of four gaps: before the first scan, in the same
\* second as an earlier one, undone before the next scan (these are `lost'),
\* or `dropped' because the manager believed the server to be indexing.
Accounted ==
  \A f \in File :
    \/ known[f] = version[f]
    \/ phase = "starting" \/ f \in toRead
    \/ \E i \in 1 .. Len(inbox) : f \in inbox[i]
    \/ f \in changes
    \/ watcher \in {"waiting", "first"}
    \/ mapVersion[f] # version[f]
    \/ f \in lost \cup dropped

\* When the editing stops, the server comes to know every file as it is, but
\* for those whose change fell into a gap.
ServerCatchesUp ==
  <>[](\A f \in File : known[f] = version[f] \/ f \in lost \cup dropped)

\* docs/tools/tools-reference.md:144 has the watcher stand in for the tool
\* did_change_watched_files: when the server is idle, the watcher has seen
\* every file as it is, and nothing is under way, the server knows each file
\* of which a scan could find the change.  Only a change that the watcher
\* found and dropped (polling_watcher.go:127-130, 179-182) can break it.
Settled ==
  /\ phase = "ready" /\ progress = << >> /\ inbox = << >>
  /\ watcher = "idle" /\ mapVersion = version

WatcherSuffices ==
  Settled => \A f \in File : known[f] = version[f] \/ f \in lost

=============================================================================
