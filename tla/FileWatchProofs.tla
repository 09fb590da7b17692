-------------------------- MODULE FileWatchProofs --------------------------
(***************************************************************************)
(* Theorems about FileWatch: types, and what the polling watcher leaves    *)
(* unsaid, for any set of files and any number of changes.                 *)
(***************************************************************************)
EXTENDS FileWatch, FiniteSetTheorems, TLAPS

\* Versions that the watcher has seen were given out; before the server
\* begins it has read nothing and has nothing to read.
SeenOK ==
  /\ \A f \in File : /\ version[f] <= edits + 1
                     /\ newVersion[f] <= edits + 1
                     /\ mapVersion[f] <= edits + 1
  /\ phase = "starting" => toRead = {} /\ \A f \in File : known[f] = 0

WatchInv == TypeOK /\ SeenOK /\ Accounted

\* A queue that is read or written stays a queue.
LEMMA QueueKept ==
  ASSUME NEW S, NEW s \in Seq(S)
  PROVE  /\ \A e \in S : Append(s, e) \in Seq(S)
         /\ s # << >> => Head(s) \in S /\ Tail(s) \in Seq(S)
  OBVIOUS

\* Every step keeps the types.
LEMMA NextTypeOK == TypeOK /\ SeenOK /\ [Next]_vars => TypeOK'
<1> SUFFICES ASSUME TypeOK, SeenOK, [Next]_vars PROVE TypeOK'
  OBVIOUS
<1> USE FileConstants DEF TypeOK, Time, disk, server, polling, gaps
<1>1. CASE Tick
  BY <1>1 DEF Tick
<1>2. ASSUME NEW f \in File, Write(f) PROVE TypeOK'
  <2>1. edits' \in 0 .. MaxEdits /\ edits + 2 \in 0 .. MaxEdits + 1
    BY <1>2 DEF Write
  <2>2. /\ version' \in [File -> 0 .. MaxEdits + 1]
        /\ mtime' \in [File -> 0 .. MaxClock]
    BY <1>2, <2>1 DEF Write
  <2> QED
    BY <1>2, <2>1, <2>2 DEF Write
<1>3. ASSUME NEW f \in File, Delete(f) PROVE TypeOK'
  <2>1. edits' \in 0 .. MaxEdits /\ lost' \subseteq File
    BY <1>3 DEF Delete
  <2>2. /\ version' \in [File -> 0 .. MaxEdits + 1]
        /\ mtime' \in [File -> 0 .. MaxClock]
    BY <1>3 DEF Delete
  <2> QED
    BY <1>3, <2>1, <2>2 DEF Delete
<1>4. CASE Begin
  <2>1. progress' \in Seq({"begin", "end"})
    BY <1>4, QueueKept DEF Begin
  <2>2. /\ phase' \in {"starting", "indexing", "ready", "working"}
        /\ worked' \in 0 .. MaxWork
        /\ toRead' \subseteq File
    BY <1>4 DEF Begin
  <2> QED
    BY <1>4, <2>1, <2>2 DEF Begin
<1>5. CASE End
  <2>1. progress' \in Seq({"begin", "end"})
    BY <1>5, QueueKept DEF End
  <2> QED
    BY <1>5, <2>1 DEF End
<1>6. CASE ReadNotification
  <2>1. inbox' \in Seq(SUBSET File)
    BY <1>6, QueueKept DEF ReadNotification
  <2> QED
    BY <1>6, <2>1 DEF ReadNotification
<1>7. ASSUME NEW f \in File, ReadFile(f) PROVE TypeOK'
  BY <1>7 DEF ReadFile
<1>8. CASE ReadProgress
  <2>1. progress' \in Seq({"begin", "end"}) /\ active' \in BOOLEAN
    BY <1>8, QueueKept DEF ReadProgress
  <2> QED
    BY <1>8, <2>1 DEF ReadProgress
<1>9. CASE StartWatcher \/ StartScan \/ FirstScanDone \/ Compare \/ Skip
  BY <1>9 DEF StartWatcher, StartScan, FirstScanDone, Compare, Skip
<1>10. CASE Send
  <2>1. inbox' \in Seq(SUBSET File)
    BY <1>10, QueueKept DEF Send
  <2> QED
    BY <1>10, <2>1 DEF Send
<1>11. ASSUME NEW f \in File, ScanFile(f) PROVE TypeOK'
  BY <1>11 DEF ScanFile
<1>12. CASE UNCHANGED vars
  BY <1>12 DEF vars
<1> QED
  BY <1>1, <1>2, <1>3, <1>4, <1>5, <1>6, <1>7, <1>8, <1>9, <1>10, <1>11, <1>12
  DEF Next, WatcherStep

\* Every step keeps what has been seen in order.
LEMMA NextSeenOK == TypeOK /\ SeenOK /\ [Next]_vars => SeenOK'
<1> SUFFICES ASSUME TypeOK, SeenOK, [Next]_vars PROVE SeenOK'
  OBVIOUS
<1> USE DEF SeenOK, disk, server, polling, gaps
<1>0. /\ edits \in Nat /\ version \in [File -> Nat] /\ known \in [File -> Nat]
      /\ newVersion \in [File -> Nat] /\ mapVersion \in [File -> Nat]
  BY FileConstants DEF TypeOK
<1>1. ASSUME NEW f \in File, Write(f) \/ Delete(f) PROVE SeenOK'
  BY <1>0, <1>1 DEF Write, Delete
<1>2. CASE Begin \/ End \/ ReadNotification \/ \E f \in File : ReadFile(f)
  BY <1>2 DEF Begin, End, ReadNotification, ReadFile
<1>3. CASE FirstScanDone \/ Compare
  BY <1>3 DEF FirstScanDone, Compare
<1>4. ASSUME NEW f \in File, ScanFile(f) PROVE SeenOK'
  BY <1>0, <1>4 DEF ScanFile
<1>5. CASE \/ Tick \/ ReadProgress \/ StartWatcher \/ StartScan \/ Skip
           \/ Send \/ UNCHANGED vars
  BY <1>5 DEF Tick, ReadProgress, StartWatcher, StartScan, Skip, Send, vars
<1> QED
  BY <1>1, <1>2, <1>3, <1>4, <1>5 DEF Next, WatcherStep

\* Every step keeps the accounts.
LEMMA NextAccounted == WatchInv /\ [Next]_vars => Accounted'
<1> SUFFICES ASSUME WatchInv, [Next]_vars PROVE Accounted'
  OBVIOUS
<1> USE DEF Accounted, disk, server, polling, gaps
<1>0. /\ edits \in Nat /\ version \in [File -> Nat] /\ known \in [File -> Nat]
      /\ newVersion \in [File -> Nat] /\ mapVersion \in [File -> Nat]
      /\ inbox \in Seq(SUBSET File)
      /\ (changes # {} <=> watcher = "found")
      /\ SeenOK /\ Accounted
  BY FileConstants DEF WatchInv, TypeOK
<1>1. ASSUME NEW f \in File, Write(f) PROVE Accounted'
  <2>1. /\ \A g \in File \ {f} : version'[g] = version[g]
        /\ mapVersion[f] # version'[f]
    BY <1>0, <1>1 DEF Write, SeenOK
  <2> QED
    BY <1>0, <1>1, <2>1 DEF Write
<1>2. ASSUME NEW f \in File, Delete(f) PROVE Accounted'
  BY <1>0, <1>2 DEF Delete
<1>3. CASE Begin
  BY <1>0, <1>3 DEF Begin, SeenOK
<1>4. ASSUME NEW f \in File, ReadFile(f) PROVE Accounted'
  BY <1>0, <1>4 DEF ReadFile
<1>5. CASE ReadNotification
  <2>1. ASSUME NEW i \in 1 .. Len(inbox)
        PROVE  \/ inbox[i] = Head(inbox)
               \/ /\ i - 1 \in 1 .. Len(inbox')
                  /\ inbox'[i - 1] = inbox[i]
    BY <1>0, <1>5 DEF ReadNotification
  <2>2. /\ known' = [f \in File |-> IF f \in Head(inbox) THEN version[f]
                                                         ELSE known[f]]
        /\ lost' = lost \ Head(inbox) /\ dropped' = dropped \ Head(inbox)
        /\ UNCHANGED <<version, phase, toRead, changes, watcher, mapVersion>>
    BY <1>5 DEF ReadNotification
  <2> HIDE <1>5
  <2> QED
    BY <1>0, <2>1, <2>2
<1>6. CASE End \/ Tick \/ ReadProgress \/ StartWatcher \/ StartScan
  BY <1>0, <1>6 DEF End, Tick, ReadProgress, StartWatcher, StartScan
<1>7. ASSUME NEW f \in File, ScanFile(f) PROVE Accounted'
  BY <1>0, <1>7 DEF ScanFile
<1>8. CASE FirstScanDone
  BY <1>0, <1>8 DEF FirstScanDone
<1>9. CASE Compare
  BY <1>0, <1>9 DEF Compare, Differs
<1>10. CASE Skip
  BY <1>0, <1>10 DEF Skip
<1>11. CASE Send
  <2>1. /\ Len(inbox') = Len(inbox) + 1 /\ Len(inbox) \in Nat
        /\ inbox'[Len(inbox) + 1] = changes
        /\ \A i \in 1 .. Len(inbox) : inbox'[i] = inbox[i]
    BY <1>0, <1>11 DEF Send
  <2>2. /\ \A i \in 1 .. Len(inbox) : i \in 1 .. Len(inbox')
        /\ Len(inbox) + 1 \in 1 .. Len(inbox')
    BY <2>1
  <2> QED
    BY <1>0, <1>11, <2>1, <2>2 DEF Send
<1>12. CASE UNCHANGED vars
  BY <1>0, <1>12 DEF vars
<1> QED
  BY <1>1, <1>2, <1>3, <1>4, <1>5, <1>6, <1>7, <1>8, <1>9, <1>10, <1>11, <1>12
  DEF Next, WatcherStep

\* The system as the manager starts it satisfies the inductive invariant.
LEMMA InitWatchInv == Init => WatchInv
<1> SUFFICES ASSUME Init PROVE WatchInv
  OBVIOUS
<1>1. TypeOK
  <2>1. version \in [File -> 0 .. MaxEdits + 1]
    BY FileConstants DEF Init
  <2>2. \A S : << >> \in Seq(S)
    OBVIOUS
  <2>3. progress \in Seq({"begin", "end"}) /\ inbox \in Seq(SUBSET File)
    BY <2>2 DEF Init
  <2>4. active \in BOOLEAN
    BY DEF Init
  <2> QED
    BY <2>1, <2>3, <2>4, FileConstants DEF Init, TypeOK, Time
<1>2. SeenOK /\ Accounted
  BY DEF Init, SeenOK, Accounted
<1> QED
  BY <1>1, <1>2 DEF WatchInv

\* Every step keeps it.
LEMMA NextWatchInv == WatchInv /\ [Next]_vars => WatchInv'
  BY NextTypeOK, NextSeenOK, NextAccounted DEF WatchInv

\* Types of the polling watcher's state; it holds changes only between finding
\* them and its decision to send or drop them.
THEOREM WatchTypeCorrect == Spec => []TypeOK
<1>1. WatchInv => TypeOK
  BY DEF WatchInv
<1> QED
  BY InitWatchInv, NextWatchInv, <1>1, PTL DEF Spec

\* checkForChanges and startFileWatcherAfterIndexing: a file that the server
\* does not know as it is will be read, told of or found, or its change fell
\* into one of the four gaps; there is no fifth.
THEOREM ChangesAccounted == Spec => []Accounted
<1>1. WatchInv => Accounted
  BY DEF WatchInv
<1> QED
  BY InitWatchInv, NextWatchInv, <1>1, PTL DEF Spec

=============================================================================
