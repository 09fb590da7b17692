--------------------------- MODULE FsnotifyWatch ---------------------------
(***************************************************************************)
(* The session manager's other watcher: startFsnotifyWatcher and           *)
(* runFsnotifyWatcher of cmd/lsp-session-manager/main.go.  It adds the     *)
(* directories of the workspace one by one, then collects the events of    *)
(* the files below them, and sends what it has collected when there was no *)
(* event for half a second.  It has no first scan and does not ask whether *)
(* the server is indexing.  A directory that could not be added, and the   *)
(* events the kernel's queue had no room for, are only logged.             *)
(*                                                                         *)
(* The file system and the language server are the environment.  Files of  *)
(* the workspace itself (Top) can always be written, those of its one      *)
(* other directory (Sub) once that exists.  The server knows all files     *)
(* when the watcher starts, forgets a file that is said to be deleted, and *)
(* reads a file that is said to be created or changed.                     *)
(***************************************************************************)
EXTENDS Naturals, Sequences

CONSTANTS
  Top, Sub,     \* source files in the workspace and in its subdirectory
  MaxOps        \* bound of the model: changes of files

ASSUME FsConstants == Top \cap Sub = {} /\ MaxOps \in Nat

VARIABLES
  ops,          \* how many changes were made
  content,      \* the content of each file on disk, 0 for no file
  subExists,
  walk,         \* filepath.Walk: "workspace", "sub", "done"
  watchTop, watchSub,   \* directories added to the watcher
  events,       \* sm.watcher.Events
  pendingChanges, \* what was collected: 0 nothing, or the FileChangeType
  armed,        \* the debounce timer runs
  toldServer,   \* didChangeWatchedFiles that the server has not read
  serverHas,    \* the content the server knows
  missed        \* history: files with a change that caused no event, or whose
                \* notification was not sent, until the server has caught up
                \* and nothing is on its way about them

fsVars == <<ops, content, subExists, walk, watchTop, watchSub, events,
            pendingChanges, armed, toldServer, serverHas, missed>>

Files == Top \cup Sub

Created == 1
Changed == 2
Deleted == 3

\* What fsnotify reports: a new directory, or a change of a file.
Event ==
  [op : {"mkdir"}] \cup [op : {"create", "write", "remove"}, file : Files]

FsTypeOK ==
  /\ ops \in 0 .. MaxOps
  /\ content \in [Files -> 0 .. MaxOps + 1]
  /\ serverHas \in [Files -> 0 .. MaxOps + 1]
  /\ subExists \in BOOLEAN /\ walk \in {"workspace", "sub", "done"}
  /\ watchTop \in BOOLEAN /\ watchSub \in BOOLEAN
  /\ events \in Seq(Event)
  /\ pendingChanges \in [Files -> {0, Created, Changed, Deleted}]
  /\ armed \in BOOLEAN
  /\ toldServer \in Seq([Files -> {0, Created, Changed, Deleted}])
  /\ missed \subseteq Files

FsInit ==
  /\ ops = 0
  /\ subExists \in BOOLEAN
  /\ \E old \in SUBSET (IF subExists THEN Files ELSE Top) :
       content = [f \in Files |-> IF f \in old THEN 1 ELSE 0]
  /\ serverHas = content
  /\ walk = "workspace" /\ watchTop = FALSE /\ watchSub = FALSE
  /\ events = << >>
  /\ pendingChanges = [f \in Files |-> 0] /\ armed = FALSE
  /\ toldServer = << >> /\ missed = {}

-----------------------------------------------------------------------------
(* The file system.  A change in a directory that is not watched causes no *)
(* event, nor does one when the queue of events is full: then the watcher  *)
(* reads an error from sm.watcher.Errors, logs it and goes on.             *)

Watched(f) == IF f \in Top THEN watchTop ELSE watchSub

Happens(f, op) ==
  /\ f \in Top \/ subExists
  /\ ops < MaxOps
  /\ ops' = ops + 1
  /\ \/ /\ Watched(f)
        /\ events' = Append(events, [op |-> op, file |-> f])
        /\ UNCHANGED missed
     \/ missed' = missed \cup {f} /\ UNCHANGED events
  /\ UNCHANGED <<subExists, walk, watchTop, watchSub, pendingChanges, armed,
                 toldServer, serverHas>>

\* A new file, or one that was renamed to f.
CreateFile(f) ==
  /\ content[f] = 0 /\ Happens(f, "create")
  /\ content' = [content EXCEPT ![f] = ops + 2]

WriteFile(f) ==
  /\ content[f] # 0 /\ Happens(f, "write")
  /\ content' = [content EXCEPT ![f] = ops + 2]

RemoveFile(f) ==
  /\ content[f] # 0 /\ Happens(f, "remove")
  /\ content' = [content EXCEPT ![f] = 0]

MakeSub ==
  /\ ~subExists /\ subExists' = TRUE
  /\ \/ watchTop /\ events' = Append(events, [op |-> "mkdir"])
     \/ UNCHANGED events
  /\ UNCHANGED <<ops, content, walk, watchTop, watchSub, pendingChanges,
                 armed, toldServer, serverHas, missed>>

-----------------------------------------------------------------------------
(* The watcher. *)

\* startFsnotifyWatcher.  watcher.Add may fail: it is logged, and the walk goes
\* on.
AddWorkspace ==
  /\ walk = "workspace"
  /\ walk' = "sub" /\ watchTop' \in BOOLEAN
  /\ UNCHANGED <<ops, content, subExists, watchSub, events, pendingChanges,
                 armed, toldServer, serverHas, missed>>

AddSub ==
  /\ walk = "sub"
  /\ walk' = "done" /\ watchSub' \in {FALSE, subExists}
  /\ UNCHANGED <<ops, content, subExists, watchTop, events, pendingChanges,
                 armed, toldServer, serverHas, missed>>

\* Mutant: a file that was deleted and created again stays deleted.
NewTypeKeepsDeleted(old, op) ==
  CASE op = "create" -> IF old = Deleted THEN Deleted ELSE Created
    [] op = "write"  -> IF old = 0 THEN Changed ELSE old
    [] op = "remove" -> Deleted

\* What is collected for a file after one more event.
NewType(old, op) ==
  CASE op = "create" -> Created
    [] op = "write"  -> IF old = 0 THEN Changed ELSE old
    [] op = "remove" -> Deleted

FileEvent ==
  /\ walk = "done" /\ events # << >> /\ Head(events).op # "mkdir"
  /\ events' = Tail(events)
  /\ pendingChanges' = [pendingChanges EXCEPT ![Head(events).file] =
                          NewType(@, Head(events).op)]
  /\ armed' = TRUE
  /\ UNCHANGED <<ops, content, subExists, walk, watchTop, watchSub,
                 toldServer, serverHas, missed>>

\* A new directory is watched from now on, unless watcher.Add fails, which is
\* not looked at; what is in it already is not looked at either, and the timer
\* is not set.
DirectoryEvent ==
  /\ walk = "done" /\ events # << >> /\ Head(events).op = "mkdir"
  /\ events' = Tail(events)
  /\ watchSub' \in {watchSub, TRUE}
  /\ UNCHANGED <<ops, content, subExists, walk, watchTop, pendingChanges,
                 armed, toldServer, serverHas, missed>>

\* The timer: pending changes are cleared before they are sent, and are gone
\* when sending fails.
Flush ==
  /\ walk = "done" /\ armed
  /\ armed' = FALSE
  /\ pendingChanges' = [f \in Files |-> 0]
  /\ \/ toldServer' = Append(toldServer, pendingChanges) /\ UNCHANGED missed
     \/ /\ missed' = missed \cup {f \in Files : pendingChanges[f] # 0}
        /\ UNCHANGED toldServer
  /\ UNCHANGED <<ops, content, subExists, walk, watchTop, watchSub, events,
                 serverHas>>

-----------------------------------------------------------------------------
(* The language server. *)

\* The event of a file is in the queue; a notification from number i on names
\* it.
InQueue(f) ==
  \E i \in 1 .. Len(events) : events[i].op # "mkdir" /\ events[i].file = f

Named(f, i) == \E k \in i .. Len(toldServer) : toldServer[k][f] # 0

ServerIsTold ==
  /\ toldServer # << >>
  /\ toldServer' = Tail(toldServer)
  /\ LET told == Head(toldServer)
     IN  /\ serverHas' = [f \in Files |->
               IF told[f] = 0 THEN serverHas[f]
               ELSE IF told[f] = Deleted THEN 0 ELSE content[f]]
         /\ missed' = {f \in missed :
               \/ serverHas'[f] # content[f]
               \/ InQueue(f) \/ pendingChanges[f] # 0 \/ Named(f, 2)}
  /\ UNCHANGED <<ops, content, subExists, walk, watchTop, watchSub, events,
                 pendingChanges, armed>>

FsNext ==
  \/ \E f \in Files : CreateFile(f) \/ WriteFile(f) \/ RemoveFile(f)
  \/ MakeSub
  \/ AddWorkspace \/ AddSub
  \/ FileEvent \/ DirectoryEvent \/ Flush
  \/ ServerIsTold

FsSpec == FsInit /\ [][FsNext]_fsVars

-----------------------------------------------------------------------------
(* Properties. *)

\* runFsnotifyWatcher: a file that the server does not know as it is has an
\* event in the queue, or is collected with the timer running, or is named in
\* a notification on its way; unless it changed in a directory that was not
\* watched (yet, or because watcher.Add failed), or when the queue of events
\* was full, or a notification that named it could not be sent.  Merging the
\* events of a file never makes the server forget a file that exists.
FsAccounted ==
  \A f \in Files :
    \/ serverHas[f] = content[f]
    \/ InQueue(f)
    \/ pendingChanges[f] # 0 /\ armed
    \/ Named(f, 1)
    \/ f \in missed

=============================================================================
