---------------------------- MODULE FileContext ----------------------------
(***************************************************************************)
(* The file that file_context of symbol_explore, and the query of a file   *)
(* analysis, stand for: ResolveFileContext of mcpserver/tools/utils.go     *)
(* tries one path after the other, and if none is there suggests           *)
(* directories, whose listings all calls share.  A name is the one that is *)
(* asked for, or another, without its extension.                           *)
(***************************************************************************)
EXTENDS Naturals, Sequences, SequencesExt, FiniteSets

CONSTANTS
  CtxCaller,    \* calls of tools that run at the same time
  Top, NoExt,   \* the workspace itself; a name without extension
  Patterns,     \* the directories to try, a sequence for every extension
  Extensions,   \* the extensions that are tried for a name without one
  GuessedExt,   \* the one of which directories are suggested then
  CtxAsked,     \* extensions that are asked for
  CtxDisks,     \* sets of entries that the disk holds at first
  CtxTTL, MaxCtxClock, MaxCtxChanges    \* the latter two are bounds

PatternDirs == UNION {ToSet(Patterns[e]) : e \in DOMAIN Patterns}

\* A directory has no extension and is not listed.
Entries == UNION CtxDisks
IsFolder(e) == e.ext = NoExt

ASSUME ContextConstants ==
  /\ Patterns \in [DOMAIN Patterns -> Seq(PatternDirs)]
  /\ \A ext \in DOMAIN Patterns : IsInjective(Patterns[ext])
  /\ {NoExt, GuessedExt} \cup CtxAsked \subseteq DOMAIN Patterns
  /\ Extensions \in Seq(DOMAIN Patterns) /\ NoExt \notin ToSet(Extensions)
  /\ IsFiniteSet(Entries) /\ MaxCtxClock \in Nat \ {0}
  /\ \A e \in Entries : e \in [dir : {e.dir}, asked : BOOLEAN, ext : {e.ext}]

VARIABLES
  ctxDisk,      \* what is on the disk
  ctxClock,
  ctxChanges,   \* how often the disk has changed
  listings,     \* globalDirCache: [files, at] by directory
  ctxCall,      \* the calls: where they are, and their local variables
  ctxHeld       \* history: what was on the disk during all of a call

ctxVars == <<ctxDisk, ctxClock, ctxChanges, listings, ctxCall, ctxHeld>>

Asked(dir, ext) == [dir |-> dir, asked |-> TRUE, ext |-> ext]

Folder(ext) == Patterns[ext]

\* tryExactPath, then tryCommonPatterns, for one extension.
TriedWith(ext) ==
  <<Asked(Top, ext)>> \o [i \in DOMAIN Folder(ext) |-> Asked(Folder(ext)[i], ext)]

\* All that ResolveFileContext tries.
Tried(ext) ==
  TriedWith(ext) \o
    (IF ext # NoExt THEN << >>
     ELSE FlattenSeq([i \in DOMAIN Extensions |-> TriedWith(Extensions[i])]))

\* The extension and the directories of generateSuggestions.
Wanted(ext) == IF ext = NoExt THEN GuessedExt ELSE ext

\* next: the path, or directory, that is next; read: a listing that was read;
\* scanned is history.
NewQuery(ext) ==
  [pc |-> "idle", ext |-> ext, next |-> 1, read |-> {}, found |-> {},
   suggests |-> {}, scanned |-> {}]

CtxInit ==
  /\ ctxDisk \in CtxDisks
  /\ ctxClock = 1 /\ ctxChanges = 0
  /\ listings = [d \in {} |-> {}]
  /\ \E ext \in [CtxCaller -> CtxAsked] :
       ctxCall = [c \in CtxCaller |-> NewQuery(ext[c])]
  /\ ctxHeld = [c \in CtxCaller |-> {}]

CtxTypeOK ==
  /\ ctxDisk \subseteq Entries /\ ctxClock \in 1 .. MaxCtxClock
  /\ DOMAIN listings \subseteq PatternDirs
  /\ \A d \in DOMAIN listings :
       listings[d].files \subseteq Entries /\ listings[d].at \in 1 .. ctxClock
  /\ \A c \in CtxCaller :
       /\ ctxCall[c].pc \in {"idle", "try", "suggest", "store", "found", "missing"}
       /\ ctxCall[c].found \subseteq Entries
       /\ ctxCall[c].suggests \subseteq [dir : PatternDirs, count : Nat]

-----------------------------------------------------------------------------
(* A call. *)

NextPath(c) == [ctxCall[c] EXCEPT !.next = @ + 1]

Becomes(c, r) ==
  ctxCall' = [ctxCall EXCEPT ![c] = r] /\ UNCHANGED <<ctxDisk, ctxClock, ctxChanges>>

AskContext(c) ==
  /\ ctxCall[c].pc = "idle"
  /\ Becomes(c, [ctxCall[c] EXCEPT !.pc = "try"])
  /\ ctxHeld' = [ctxHeld EXCEPT ![c] = ctxDisk]
  /\ UNCHANGED listings

\* fileExists: os.Stat, which finds directories as well.
TryPath(c) ==
  LET query == ctxCall[c]
      tried == Tried(query.ext)
      here  == tried[query.next]
  IN  /\ query.pc = "try"
      /\ \/ /\ here \in ctxDisk
            /\ Becomes(c, [query EXCEPT !.pc = "found", !.found = {here}])
         \/ /\ here \notin ctxDisk /\ query.next < Len(tried)
            /\ Becomes(c, NextPath(c))
         \/ /\ here \notin ctxDisk /\ query.next = Len(tried)
            /\ Becomes(c, [query EXCEPT !.pc = "suggest", !.next = 1])
      /\ UNCHANGED <<listings, ctxHeld>>

Fresh(d) == d \in DOMAIN listings /\ ctxClock - listings[d].at <= CtxTTL

\* GetFiles with a listing that is not too old: what matches is suggested.
Suggest(c) ==
  LET query == ctxCall[c]
      dirs  == Folder(Wanted(query.ext))
      dir   == dirs[query.next]
      count == Cardinality({e \in listings[dir].files : e.ext = Wanted(query.ext)})
  IN  /\ query.pc = "suggest" /\ query.next <= Len(dirs) /\ Fresh(dir)
      /\ Becomes(c, IF count = 0 THEN NextPath(c)
                    ELSE [NextPath(c) EXCEPT !.suggests = @ \cup
                            {[dir |-> dir, count |-> count]}])
      /\ UNCHANGED <<listings, ctxHeld>>

\* Otherwise scanDirectory reads it, or fails ...
ReadListing(c) ==
  LET query == ctxCall[c]
      dirs  == Folder(Wanted(query.ext))
      dir   == dirs[query.next]
  IN  /\ query.pc = "suggest" /\ query.next <= Len(dirs) /\ ~Fresh(dir)
      /\ \/ Becomes(c, NextPath(c))
         \/ Becomes(c, [query EXCEPT !.pc = "store",
              !.read = {e \in ctxDisk : e.dir = dir /\ ~IsFolder(e)}])
      /\ UNCHANGED <<listings, ctxHeld>>

\* ... and stores the listing with the time of now.  The caller takes it for
\* one that was not found.
StoreListing(c) ==
  LET dir == Folder(Wanted(ctxCall[c].ext))[ctxCall[c].next]
      new == [files |-> ctxCall[c].read, at |-> ctxClock]
  IN  /\ ctxCall[c].pc = "store"
      /\ listings' = [d \in DOMAIN listings \cup {dir} |->
                        IF d = dir THEN new ELSE listings[d]]
      /\ Becomes(c, [NextPath(c) EXCEPT !.pc = "suggest", !.read = {},
                                     !.scanned = @ \cup {dir}])
      /\ UNCHANGED ctxHeld

\* The error message, which is never empty: nothing else is tried.
ContextMissing(c) ==
  /\ ctxCall[c].pc = "suggest"
  /\ ctxCall[c].next > Len(Folder(Wanted(ctxCall[c].ext)))
  /\ Becomes(c, [ctxCall[c] EXCEPT !.pc = "missing"])
  /\ UNCHANGED <<listings, ctxHeld>>

ContextStep(c) ==
  AskContext(c) \/ TryPath(c) \/ Suggest(c) \/ ReadListing(c) \/ StoreListing(c)
    \/ ContextMissing(c)

\* An entry of the disk comes or goes.
DiskChanges ==
  /\ ctxChanges < MaxCtxChanges
  /\ \E e \in Entries :
       ctxDisk' = IF e \in ctxDisk THEN ctxDisk \ {e} ELSE ctxDisk \cup {e}
  /\ ctxHeld' = [c \in CtxCaller |-> ctxHeld[c] \cap ctxDisk']
  /\ ctxChanges' = ctxChanges + 1
  /\ UNCHANGED <<ctxClock, listings, ctxCall>>

CtxTick ==
  /\ ctxClock < MaxCtxClock /\ ctxClock' = ctxClock + 1
  /\ UNCHANGED <<ctxDisk, ctxChanges, listings, ctxCall, ctxHeld>>

CtxNext == (\E c \in CtxCaller : ContextStep(c)) \/ DiskChanges \/ CtxTick

-----------------------------------------------------------------------------
(* Properties. *)

\* The entries that a context may stand for.
Fits(ext) ==
  {e \in Entries :
     /\ e.asked
     /\ e.ext = ext \/ (ext = NoExt /\ e.ext \in ToSet(Extensions))
     /\ e.dir = Top \/ e.dir \in ToSet(Folder(e.ext))}

\* What is tried before e.
TriedBefore(ext, e) ==
  {Tried(ext)[j] : j \in {k \in DOMAIN Tried(ext) :
     \A i \in DOMAIN Tried(ext) : Tried(ext)[i] = e => k < i}}

\* utils.go: however the disk changes meanwhile, a context becomes the first
\* of its paths, or a later one only if every earlier one was missing at some
\* time; a file that is there all the time is not reported as missing; and a
\* call suggests only directories that another call has listed, none that it
\* has listed itself.
ContextSound ==
  \A c \in CtxCaller :
    LET query == ctxCall[c]
    IN  /\ \A e \in query.found : TriedBefore(query.ext, e) \cap ctxHeld[c] = {}
        /\ query.pc = "missing" => Fits(query.ext) \cap ctxHeld[c] = {}
        /\ \A s \in query.suggests : s.count > 0 /\ s.dir \notin query.scanned

ContextEnded == \A c \in CtxCaller : ctxCall[c].pc \in {"found", "missing"}

=============================================================================
