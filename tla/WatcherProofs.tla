--------------------------- MODULE WatcherProofs ---------------------------
(***************************************************************************)
(* Theorems about the parts of the session manager that look at            *)
(* directories: what the fsnotify watcher leaves unsaid (FsnotifyWatch),   *)
(* for any set of files and any number of changes; and that a scan of the  *)
(* polling watcher is complete (PollingScan), for any tree of directories, *)
(* any number of workers and any capacity of the channel.                  *)
(***************************************************************************)
EXTENDS PollingScan, FsnotifyWatch, FiniteSetTheorems, TLAPS

-----------------------------------------------------------------------------
(* FsnotifyWatch. *)

\* The change op of file f, as fsnotify reports it.
Ev(op, f) == [op |-> op, file |-> f]

\* On a queue q of events: e is there; every removal of f is followed by its
\* creation; between a removal and a write it is created; before a write.
Has(q, e) == \E i \in 1 .. Len(q) : q[i] = e

Revived(q, f) ==
  \A i \in 1 .. Len(q) :
    q[i] = Ev("remove", f) =>
      \E k \in i + 1 .. Len(q) : q[k] = Ev("create", f)

WritesOK(q, f) ==
  \A i, j \in 1 .. Len(q) :
    i < j /\ q[i] = Ev("remove", f) /\ q[j] = Ev("write", f) =>
      \E k \in i + 1 .. j - 1 : q[k] = Ev("create", f)

CreatedFirst(q, f) ==
  \A j \in 1 .. Len(q) :
    q[j] = Ev("write", f) => \E k \in 1 .. j - 1 : q[k] = Ev("create", f)

\* On a queue q of notifications: f is named; after f is said to be deleted it
\* is named again.
Names(q, f) == \E i \in 1 .. Len(q) : q[i][f] # 0

Renamed(q, f) ==
  \A i \in 1 .. Len(q) :
    q[i][f] = Deleted => \E k \in i + 1 .. Len(q) : q[k][f] # 0

\* A change of f is in the queue.
Reported(f) == \E op \in {"create", "write", "remove"} : Has(events, Ev(op, f))

\* The events of a file of which none was missed follow what became of it,
\* and so does what is collected: a file that exists is not collected as
\* deleted unless its creation is still to come.
InStep(f) ==
  /\ content[f] # 0 => Revived(events, f)
  /\ WritesOK(events, f)
  /\ pendingChanges[f] = Deleted =>
       /\ CreatedFirst(events, f)
       /\ content[f] # 0 => Has(events, Ev("create", f))

FileOK(f) ==
  /\ f \in missed \/ InStep(f)
  /\ pendingChanges[f] # 0 => armed

\* A file that exists and that the server will be told is deleted will be
\* named once more.
ToldOK(f) ==
  content[f] # 0 => \/ f \in missed \/ pendingChanges[f] # 0 \/ Reported(f)
                    \/ Renamed(toldServer, f)

\* FsAccounted for one file.
FileAccounted(f) ==
  \/ serverHas[f] = content[f]
  \/ Reported(f)
  \/ pendingChanges[f] # 0
  \/ Names(toldServer, f)
  \/ f \in missed

FsInv ==
  /\ FsTypeOK
  /\ \A f \in Files : FileOK(f) /\ ToldOK(f) /\ FileAccounted(f)

\* Events differ in what happened and to which file.
LEMMA EventsDiffer ==
  /\ \A f, g, o, p : Ev(o, f) = Ev(p, g) <=> o = p /\ f = g
  /\ \A f, o : o # "mkdir" => [op |-> "mkdir"] # Ev(o, f)
  /\ \A f, o : Ev(o, f).op = o /\ Ev(o, f).file = f
  /\ \A e \in Event : \/ e = [op |-> "mkdir"]
                      \/ \E o \in {"create", "write", "remove"}, f \in Files :
                           e = Ev(o, f)
<1>1. ASSUME NEW f, NEW g, NEW o, NEW p, Ev(o, f) = Ev(p, g)
      PROVE  o = p /\ f = g
  <2>1. /\ Ev(o, f).op = o /\ Ev(o, f).file = f
        /\ Ev(p, g).op = p /\ Ev(p, g).file = g
    BY DEF Ev
  <2> QED
    BY <1>1, <2>1
<1>2. ASSUME NEW f, NEW o, o # "mkdir" PROVE [op |-> "mkdir"] # Ev(o, f)
  <2>1. [op |-> "mkdir"].op = "mkdir" /\ Ev(o, f).op = o
    BY DEF Ev
  <2> QED
    BY <1>2, <2>1
<1>3. \A f, o : Ev(o, f).op = o /\ Ev(o, f).file = f
  BY DEF Ev
<1>4. ASSUME NEW e \in Event
      PROVE  \/ e = [op |-> "mkdir"]
             \/ \E o \in {"create", "write", "remove"}, f \in Files :
                  e = Ev(o, f)
  BY DEF Event, Ev
<1> QED
  BY <1>1, <1>2, <1>3, <1>4

\* What one more event means for a file.
LEMMA EventAdded ==
  ASSUME NEW S, NEW q \in Seq(S), NEW e \in S, NEW f
  PROVE  LET p == Append(q, e)
         IN  /\ \A x : Has(p, x) <=> Has(q, x) \/ x = e
             /\ Revived(q, f) /\ e # Ev("remove", f) => Revived(p, f)
             /\ e = Ev("create", f) => Revived(p, f)
             /\ WritesOK(q, f) /\ (Revived(q, f) \/ e # Ev("write", f))
                  => WritesOK(p, f)
             /\ CreatedFirst(q, f) /\ (e # Ev("write", f)
                                       \/ Has(q, Ev("create", f)))
                  => CreatedFirst(p, f)
<1> DEFINE p == Append(q, e)
           n == Len(q)
<1>1. /\ n \in Nat /\ Len(p) = n + 1 /\ p[n + 1] = e
      /\ \A i \in 1 .. n : p[i] = q[i]
  OBVIOUS
<1> HIDE DEF p, n
<1>2. /\ n + 1 \in 1 .. Len(p) /\ \A i \in 1 .. n : i \in 1 .. Len(p)
      /\ \A i \in 1 .. Len(p) : i \in 1 .. n \/ i = n + 1
      /\ \A i \in 1 .. n : n + 1 \in i + 1 .. Len(p)
      /\ \A i \in 1 .. n : \A k \in i + 1 .. n :
           k \in i + 1 .. Len(p) /\ k \in 1 .. n
      /\ \A i \in Nat, j \in 1 .. n : \A k \in i + 1 .. j - 1 : k \in 1 .. n
      /\ \A i \in 1 .. Len(p), j \in 1 .. Len(p) : i < j => i \in 1 .. n
      /\ \A i \in 1 .. n : \A k \in i + 1 .. n : k \in i + 1 .. (n + 1) - 1
  BY <1>1
<1>3. Ev("create", f) # Ev("remove", f) /\ Ev("create", f) # Ev("write", f)
      /\ Ev("write", f) # Ev("remove", f)
  BY EventsDiffer
<1>4. \A x : Has(p, x) <=> Has(q, x) \/ x = e
  BY <1>1, <1>2 DEF Has, n
<1>5. Revived(q, f) /\ e # Ev("remove", f) => Revived(p, f)
  BY <1>1, <1>2 DEF Revived, n
<1>6. e = Ev("create", f) => Revived(p, f)
  BY <1>1, <1>2, <1>3 DEF Revived, n
<1>7. WritesOK(q, f) /\ (Revived(q, f) \/ e # Ev("write", f)) => WritesOK(p, f)
  BY <1>1, <1>2 DEF WritesOK, Revived, n
<1>8. CreatedFirst(q, f) /\ (e # Ev("write", f) \/ Has(q, Ev("create", f)))
        => CreatedFirst(p, f)
  BY <1>1, <1>2 DEF CreatedFirst, Has, n
<1> QED
  BY <1>4, <1>5, <1>6, <1>7, <1>8 DEF p

\* What the first event says of the others.
LEMMA EventTaken ==
  ASSUME NEW S, NEW q \in Seq(S), q # << >>, NEW f
  PROVE  LET p == Tail(q)
             e == Head(q)
         IN  /\ e \in S /\ p \in Seq(S)
             /\ \A x : Has(q, x) <=> Has(p, x) \/ x = e
             /\ Revived(q, f) =>
                  /\ Revived(p, f)
                  /\ e = Ev("remove", f) => Has(p, Ev("create", f))
             /\ WritesOK(q, f) =>
                  /\ WritesOK(p, f)
                  /\ e = Ev("remove", f) => CreatedFirst(p, f)
             /\ CreatedFirst(q, f) =>
                  /\ e # Ev("write", f)
                  /\ e # Ev("create", f) => CreatedFirst(p, f)
<1> DEFINE p == Tail(q)
           e == Head(q)
           n == Len(p)
<1>1. /\ e \in S /\ p \in Seq(S) /\ n \in Nat /\ Len(q) = n + 1 /\ q[1] = e
      /\ \A i \in 1 .. n : q[i + 1] = p[i]
  OBVIOUS
<1> HIDE DEF p, e, n
<1>2. /\ 1 \in 1 .. Len(q) /\ \A i \in 1 .. n : i + 1 \in 1 .. Len(q)
      /\ \A i \in 1 .. Len(q) : i = 1 \/ (i - 1 \in 1 .. n /\ (i - 1) + 1 = i)
  BY <1>1
<1>3. \A i \in 1 .. Len(q) : i = 1 \/ q[i] = p[i - 1]
  BY <1>1, <1>2
<1>4. \A x : Has(q, x) <=> Has(p, x) \/ x = e
  <2>1. ASSUME NEW x, Has(q, x) PROVE Has(p, x) \/ x = e
    <3>1. PICK i \in 1 .. Len(q) : q[i] = x
      BY <2>1 DEF Has
    <3>2. i = 1 \/ (i - 1 \in 1 .. n /\ p[i - 1] = x)
      BY <1>2, <1>3, <3>1
    <3> QED
      BY <1>1, <3>1, <3>2 DEF Has, n
  <2>2. ASSUME NEW x, Has(p, x) PROVE Has(q, x)
    <3>1. PICK i \in 1 .. n : p[i] = x
      BY <2>2 DEF Has, n
    <3>2. i + 1 \in 1 .. Len(q) /\ q[i + 1] = x
      BY <1>1, <1>2, <3>1
    <3> QED
      BY <3>2 DEF Has
  <2>3. Has(q, e)
    BY <1>1, <1>2 DEF Has
  <2> QED
    BY <2>1, <2>2, <2>3
<1>5. ASSUME Revived(q, f)
      PROVE  /\ Revived(p, f)
             /\ e = Ev("remove", f) => Has(p, Ev("create", f))
  <2>1. ASSUME NEW i \in 1 .. Len(q), q[i] = Ev("remove", f)
        PROVE  \E k \in i .. n : p[k] = Ev("create", f)
    <3>1. PICK k \in i + 1 .. Len(q) : q[k] = Ev("create", f)
      BY <1>5, <2>1 DEF Revived
    <3>2. k - 1 \in i .. n /\ p[k - 1] = q[k]
      BY <1>1, <1>3, <3>1
    <3> QED
      BY <3>1, <3>2
  <2>2. ASSUME NEW i \in 1 .. n, p[i] = Ev("remove", f)
        PROVE  \E k \in i + 1 .. n : p[k] = Ev("create", f)
    BY <1>1, <1>2, <2>1, <2>2
  <2>3. e = Ev("remove", f) => \E k \in 1 .. n : p[k] = Ev("create", f)
    BY <1>1, <1>2, <2>1
  <2> QED
    BY <2>2, <2>3 DEF Revived, Has, n
<1>6. ASSUME WritesOK(q, f)
      PROVE  /\ WritesOK(p, f)
             /\ e = Ev("remove", f) => CreatedFirst(p, f)
  <2>1. ASSUME NEW i \in 1 .. Len(q), NEW j \in 1 .. n, i < j + 1,
               q[i] = Ev("remove", f), p[j] = Ev("write", f)
        PROVE  \E k \in i .. j - 1 : p[k] = Ev("create", f)
    <3>1. j + 1 \in 1 .. Len(q) /\ q[j + 1] = p[j]
      BY <1>1
    <3>2. PICK k \in i + 1 .. (j + 1) - 1 : q[k] = Ev("create", f)
      BY <1>6, <2>1, <3>1 DEF WritesOK
    <3>3. k - 1 \in i .. j - 1 /\ p[k - 1] = q[k]
      BY <1>1, <1>3, <3>2
    <3> QED
      BY <3>2, <3>3
  <2>2. ASSUME NEW i \in 1 .. n, NEW j \in 1 .. n, i < j,
               p[i] = Ev("remove", f), p[j] = Ev("write", f)
        PROVE  \E k \in i + 1 .. j - 1 : p[k] = Ev("create", f)
    <3>1. i + 1 \in 1 .. Len(q) /\ q[i + 1] = p[i] /\ i + 1 < j + 1
      BY <1>1, <2>2
    <3> QED
      BY <2>1, <2>2, <3>1
  <2>3. ASSUME e = Ev("remove", f), NEW j \in 1 .. n, p[j] = Ev("write", f)
        PROVE  \E k \in 1 .. j - 1 : p[k] = Ev("create", f)
    <3>1. 1 \in 1 .. Len(q) /\ q[1] = e /\ 1 < j + 1
      BY <1>1
    <3> QED
      BY <2>1, <2>3, <3>1
  <2> QED
    BY <2>2, <2>3 DEF WritesOK, CreatedFirst, n
<1>7. ASSUME CreatedFirst(q, f)
      PROVE  /\ e # Ev("write", f)
             /\ e # Ev("create", f) => CreatedFirst(p, f)
  <2>1. e # Ev("write", f)
    BY <1>1, <1>2, <1>7 DEF CreatedFirst
  <2>2. ASSUME e # Ev("create", f), NEW j \in 1 .. n, p[j] = Ev("write", f)
        PROVE  \E k \in 1 .. j - 1 : p[k] = Ev("create", f)
    <3>1. j + 1 \in 1 .. Len(q) /\ q[j + 1] = p[j]
      BY <1>1
    <3>2. PICK k \in 1 .. (j + 1) - 1 : q[k] = Ev("create", f)
      BY <1>7, <2>2, <3>1 DEF CreatedFirst
    <3>3. k # 1
      BY <1>1, <2>2, <3>2
    <3>4. k - 1 \in 1 .. j - 1 /\ p[k - 1] = q[k]
      BY <1>1, <1>3, <3>2, <3>3
    <3> QED
      BY <3>2, <3>4
  <2> QED
    BY <2>1, <2>2 DEF CreatedFirst, n
<1> QED
  BY <1>1, <1>4, <1>5, <1>6, <1>7 DEF p, e

\* What one more notification means for a file.
LEMMA NoticeAdded ==
  ASSUME NEW S, NEW q \in Seq(S), NEW m \in S, NEW f
  PROVE  LET p == Append(q, m)
         IN  /\ Names(p, f) <=> Names(q, f) \/ m[f] # 0
             /\ Renamed(q, f) /\ m[f] # Deleted => Renamed(p, f)
             /\ m[f] \notin {0, Deleted} => Renamed(p, f)
<1> DEFINE p == Append(q, m)
           n == Len(q)
<1>1. /\ n \in Nat /\ Len(p) = n + 1 /\ p[n + 1] = m
      /\ \A i \in 1 .. n : p[i] = q[i]
  OBVIOUS
<1> HIDE DEF p, n
<1>2. /\ n + 1 \in 1 .. Len(p) /\ \A i \in 1 .. n : i \in 1 .. Len(p)
      /\ \A i \in 1 .. Len(p) : i \in 1 .. n \/ i = n + 1
      /\ \A i \in 1 .. n : n + 1 \in i + 1 .. Len(p)
      /\ \A i \in 1 .. n : \A k \in i + 1 .. n :
           k \in i + 1 .. Len(p) /\ k \in 1 .. n
  BY <1>1
<1>3. Names(p, f) <=> Names(q, f) \/ m[f] # 0
  BY <1>1, <1>2 DEF Names, n
<1>4. Renamed(q, f) /\ m[f] # Deleted => Renamed(p, f)
  BY <1>1, <1>2 DEF Renamed, n
<1>5. m[f] \notin {0, Deleted} => Renamed(p, f)
  BY <1>1, <1>2 DEF Renamed, n
<1> QED
  BY <1>3, <1>4, <1>5 DEF p

\* What the first notification says of the others.
LEMMA NoticeTaken ==
  ASSUME NEW S, NEW q \in Seq(S), q # << >>, NEW f
  PROVE  LET p == Tail(q)
             m == Head(q)
         IN  /\ m \in S /\ p \in Seq(S)
             /\ Names(q, f) <=> Names(p, f) \/ m[f] # 0
             /\ Names(p, f) <=> \E i \in 2 .. Len(q) : q[i][f] # 0
             /\ Renamed(q, f) => Renamed(p, f)
                                 /\ (m[f] = Deleted => Names(p, f))
             /\ ~Names(p, f) => Renamed(p, f)
<1> DEFINE p == Tail(q)
           m == Head(q)
           n == Len(p)
<1>1. /\ m \in S /\ p \in Seq(S) /\ n \in Nat /\ Len(q) = n + 1 /\ q[1] = m
      /\ \A i \in 1 .. n : q[i + 1] = p[i]
  OBVIOUS
<1> HIDE DEF p, m, n
<1>2. /\ 1 \in 1 .. Len(q) /\ \A i \in 1 .. n : i + 1 \in 2 .. Len(q)
      /\ \A i \in 1 .. Len(q) : i = 1 \/ i \in 2 .. Len(q)
      /\ \A i \in 2 .. Len(q) : i \in 1 .. Len(q) /\ i - 1 \in 1 .. n
                                /\ q[i] = p[i - 1]
  BY <1>1
<1>3. Names(p, f) <=> \E i \in 2 .. Len(q) : q[i][f] # 0
  BY <1>1, <1>2 DEF Names, n
<1>4. Names(q, f) <=> Names(p, f) \/ m[f] # 0
  BY <1>1, <1>2, <1>3 DEF Names
<1>5. ASSUME Renamed(q, f)
      PROVE  Renamed(p, f) /\ (m[f] = Deleted => Names(p, f))
  <2>1. ASSUME NEW i \in 1 .. Len(q), q[i][f] = Deleted
        PROVE  \E k \in i .. n : p[k][f] # 0
    <3>1. PICK k \in i + 1 .. Len(q) : q[k][f] # 0
      BY <1>5, <2>1 DEF Renamed
    <3>2. k - 1 \in i .. n /\ p[k - 1] = q[k]
      BY <1>1, <1>2, <3>1
    <3> QED
      BY <3>1, <3>2
  <2>2. ASSUME NEW i \in 1 .. n, p[i][f] = Deleted
        PROVE  \E k \in i + 1 .. n : p[k][f] # 0
    <3>1. i + 1 \in 1 .. Len(q) /\ q[i + 1][f] = Deleted
      BY <1>1, <2>2
    <3> QED
      BY <2>1, <3>1
  <2>3. m[f] = Deleted => \E k \in 1 .. n : p[k][f] # 0
    BY <1>1, <1>2, <2>1
  <2> QED
    BY <2>2, <2>3 DEF Renamed, Names, n
<1>6. ~Names(p, f) => Renamed(p, f)
  BY DEF Names, Renamed, Deleted
<1> QED
  BY <1>1, <1>3, <1>4, <1>5, <1>6 DEF p, m

\* Queue p says of file g what queue q said.
Alike(q, p, g) ==
  /\ \A o : Has(p, Ev(o, g)) <=> Has(q, Ev(o, g))
  /\ Revived(q, g) => Revived(p, g)
  /\ WritesOK(q, g) => WritesOK(p, g)
  /\ CreatedFirst(q, g) => CreatedFirst(p, g)

\* An event of something else, added or taken, says nothing of file g.
LEMMA AlikeAdded ==
  ASSUME NEW S, NEW q \in Seq(S), NEW e \in S, NEW g, \A o : e # Ev(o, g)
  PROVE  Alike(q, Append(q, e), g)
BY EventAdded DEF Alike

\* An event that is not of file g is taken.
LEMMA AlikeTaken ==
  ASSUME NEW S, NEW q \in Seq(S), q # << >>, NEW g, \A o : Head(q) # Ev(o, g)
  PROVE  Alike(q, Tail(q), g)
BY EventTaken DEF Alike

\* A step that changes nothing of what is known of file g.
LEMMA FileUntouched ==
  ASSUME NEW g \in Files, FileOK(g), ToldOK(g), FileAccounted(g),
         content'[g] = content[g], UNCHANGED <<serverHas, toldServer>>,
         pendingChanges'[g] = pendingChanges[g], armed => armed',
         g \in missed <=> g \in missed',
         Alike(events, events', g)
  PROVE  FileOK(g)' /\ ToldOK(g)' /\ FileAccounted(g)'
<1>1. Reported(g)' <=> Reported(g)
  BY DEF Alike, Reported
<1>2. FileOK(g)'
  <2>1. InStep(g) => InStep(g)'
    BY DEF InStep, Alike
  <2> QED
    BY <2>1 DEF FileOK
<1>3. ToldOK(g)' /\ FileAccounted(g)'
  BY <1>1 DEF ToldOK, FileAccounted
<1> QED
  BY <1>2, <1>3

\* Types of the fsnotify watcher's state are kept by every step.
LEMMA NextFsTypeOK == FsTypeOK /\ [FsNext]_fsVars => FsTypeOK'
<1> SUFFICES ASSUME FsTypeOK, [FsNext]_fsVars PROVE FsTypeOK'
  OBVIOUS
<1> USE FsConstants
<1> DEFINE Told == [Files -> {0, Created, Changed, Deleted}]
<1>1. /\ \A e \in Event : Append(events, e) \in Seq(Event)
      /\ events # << >> => Head(events) \in Event /\ Tail(events) \in Seq(Event)
      /\ \A m \in Told : Append(toldServer, m) \in Seq(Told)
      /\ toldServer # << >> => /\ Head(toldServer) \in Told
                               /\ Tail(toldServer) \in Seq(Told)
  BY DEF FsTypeOK
<1>2. ASSUME NEW f \in Files, CreateFile(f) \/ WriteFile(f) \/ RemoveFile(f)
      PROVE  FsTypeOK'
  <2>1. PICK op \in {"create", "write", "remove"} : Happens(f, op)
    BY <1>2 DEF CreateFile, WriteFile, RemoveFile
  <2>2. ops' \in 0 .. MaxOps /\ ops + 2 \in 0 .. MaxOps + 1
    BY <2>1 DEF Happens, FsTypeOK
  <2>3. content' \in [Files -> 0 .. MaxOps + 1]
    <3>1. 0 \in 0 .. MaxOps + 1
      OBVIOUS
    <3> QED
      BY <1>2, <2>2, <3>1 DEF CreateFile, WriteFile, RemoveFile, FsTypeOK
  <2>4. events' \in Seq(Event)
    <3>1. [op |-> op, file |-> f] \in Event
      BY DEF Event
    <3>2. events' = events \/ events' = Append(events, [op |-> op, file |-> f])
      BY <2>1 DEF Happens
    <3> QED
      BY <1>1, <3>1, <3>2 DEF FsTypeOK
  <2>5. missed' \subseteq Files
    BY <2>1 DEF Happens, FsTypeOK
  <2>6. UNCHANGED <<subExists, walk, watchTop, watchSub, pendingChanges, armed,
                    toldServer, serverHas>>
    BY <2>1 DEF Happens
  <2> QED
    BY <2>2, <2>3, <2>4, <2>5, <2>6 DEF FsTypeOK
<1>3. CASE MakeSub
  <2>1. events' \in Seq(Event)
    <3>1. [op |-> "mkdir"] \in Event
      BY DEF Event
    <3> QED
      BY <1>1, <1>3, <3>1 DEF MakeSub, FsTypeOK
  <2>2. subExists' \in BOOLEAN
    BY <1>3 DEF MakeSub
  <2> QED
    BY <1>3, <2>1, <2>2 DEF MakeSub, FsTypeOK
<1>4. CASE AddWorkspace \/ AddSub
  <2>1. watchTop' \in BOOLEAN /\ watchSub' \in BOOLEAN
        /\ walk' \in {"workspace", "sub", "done"}
    BY <1>4 DEF AddWorkspace, AddSub, FsTypeOK
  <2> QED
    BY <1>4, <2>1 DEF AddWorkspace, AddSub, FsTypeOK
<1>5. CASE FileEvent
  <2>1. events' \in Seq(Event)
    BY <1>1, <1>5 DEF FileEvent
  <2>2. pendingChanges' \in Told
    <3>1. PICK o \in {"create", "write", "remove"} : Head(events).op = o
      BY <1>1, <1>5 DEF FileEvent, Event
    <3>2. \A t \in {0, Created, Changed, Deleted} :
             NewType(t, o) \in {0, Created, Changed, Deleted}
      BY DEF NewType
    <3> QED
      BY <1>5, <3>1, <3>2 DEF FileEvent, FsTypeOK
  <2>3. armed' \in BOOLEAN
    BY <1>5 DEF FileEvent
  <2> QED
    BY <1>5, <2>1, <2>2, <2>3 DEF FileEvent, FsTypeOK
<1>6. CASE DirectoryEvent
  <2>1. events' \in Seq(Event) /\ watchSub' \in BOOLEAN
    BY <1>1, <1>6 DEF DirectoryEvent, FsTypeOK
  <2> QED
    BY <1>6, <2>1 DEF DirectoryEvent, FsTypeOK
<1>7. CASE Flush
  <2>1. armed' \in BOOLEAN /\ pendingChanges' \in Told
    BY <1>7 DEF Flush
  <2>2. toldServer' \in Seq(Told)
    BY <1>1, <1>7 DEF Flush, FsTypeOK
  <2>3. missed' \subseteq Files
    BY <1>7 DEF Flush, FsTypeOK
  <2> QED
    BY <1>7, <2>1, <2>2, <2>3 DEF Flush, FsTypeOK
<1>8. CASE ServerIsTold
  <2>1. toldServer' \in Seq(Told) /\ missed' \subseteq Files
    BY <1>1, <1>8 DEF ServerIsTold, FsTypeOK
  <2>2. serverHas' \in [Files -> 0 .. MaxOps + 1]
    BY <1>8 DEF ServerIsTold, FsTypeOK
  <2> QED
    BY <1>8, <2>1, <2>2 DEF ServerIsTold, FsTypeOK
<1>9. CASE UNCHANGED fsVars
  BY <1>9 DEF FsTypeOK, fsVars
<1> QED
  BY <1>2, <1>3, <1>4, <1>5, <1>6, <1>7, <1>8, <1>9 DEF FsNext

\* What FsInv says of each file.
FilesOK == \A f \in Files : FileOK(f) /\ ToldOK(f) /\ FileAccounted(f)

\* A change of a file is reported just when an event of it is in the queue.
LEMMA FsInvReports == FsInv => \A f \in Files : Reported(f) <=> InQueue(f)
<1> SUFFICES ASSUME FsInv, NEW f \in Files PROVE Reported(f) <=> InQueue(f)
  OBVIOUS
<1>1. Reported(f) => InQueue(f)
  BY EventsDiffer DEF Reported, Has, InQueue
<1>2. ASSUME NEW i \in 1 .. Len(events), events[i].op # "mkdir", events[i].file = f
      PROVE  Reported(f)
  <2>1. events[i] \in Event
    BY DEF FsInv, FsTypeOK
  <2>2. \E o \in {"create", "write", "remove"} : events[i] = Ev(o, f)
    BY <1>2, <2>1, EventsDiffer
  <2> QED
    BY <2>2 DEF Reported, Has
<1> QED
  BY <1>1, <1>2 DEF InQueue

\* A file that nothing is reported of.
LEMMA Silent ==
  ASSUME NEW f, ~Reported(f)
  PROVE  Revived(events, f) /\ WritesOK(events, f) /\ CreatedFirst(events, f)
BY DEF Reported, Has, Revived, WritesOK, CreatedFirst

\* A change of a file: it is reported, or the file is missed.
LEMMA ChangeKeepsFiles ==
  ASSUME FsInv, NEW f \in Files, CreateFile(f) \/ WriteFile(f) \/ RemoveFile(f)
  PROVE  FilesOK'
<1>1. PICK op \in {"create", "write", "remove"} :
        /\ Happens(f, op)
        /\ op = "create" => content[f] = 0
        /\ op = "write" => content[f] # 0
        /\ op = "remove" => content' = [content EXCEPT ![f] = 0]
  BY DEF CreateFile, WriteFile, RemoveFile
<1>2. /\ UNCHANGED <<serverHas, toldServer, pendingChanges, armed, watchTop,
                     watchSub>>
      /\ events \in Seq(Event) /\ Ev(op, f) \in Event
      /\ content \in [Files -> 0 .. MaxOps + 1] /\ ops \in Nat
  BY <1>1 DEF Happens, FsInv, FsTypeOK, Ev, Event
<1>3. ASSUME NEW g \in Files, g # f
      PROVE  FileOK(g)' /\ ToldOK(g)' /\ FileAccounted(g)'
  <2>1. Alike(events, events', g)
    <3>1. CASE events' = Append(events, Ev(op, f))
      <4>1. \A o : Ev(op, f) # Ev(o, g)
        BY <1>3, EventsDiffer
      <4> QED
        BY <1>2, <3>1, <4>1, AlikeAdded
    <3>2. CASE events' = events
      BY <3>2 DEF Alike
    <3> QED
      BY <1>1, <3>1, <3>2 DEF Happens, Ev
  <2>2. content'[g] = content[g] /\ (g \in missed <=> g \in missed')
    BY <1>1, <1>2, <1>3 DEF Happens, CreateFile, WriteFile, RemoveFile
  <2>3. FileOK(g) /\ ToldOK(g) /\ FileAccounted(g)
    BY DEF FsInv
  <2> QED
    BY <1>2, <2>1, <2>2, <2>3, FileUntouched
<1>4. FileOK(f) /\ ToldOK(f) /\ FileAccounted(f)
  BY DEF FsInv
<1>5. CASE events' = Append(events, Ev(op, f)) /\ missed' = missed
  <2>1. Reported(f)'
    <3>1. Has(events', Ev(op, f))
      BY <1>2, <1>5, EventAdded
    <3> QED
      BY <1>2, <3>1 DEF Reported
  <2>2. /\ op = "create" => content[f] = 0
        /\ op = "write" => content[f] # 0
        /\ op = "remove" => content'[f] = 0
    BY <1>1, <1>2
  <2>3. ASSUME InStep(f) PROVE InStep(f)'
    <3>1. (content[f] # 0 => Revived(events, f))'
      BY <1>2, <1>5, <2>2, <2>3, EventAdded, EventsDiffer DEF InStep
    <3>2. WritesOK(events, f)'
      BY <1>2, <1>5, <2>2, <2>3, EventAdded, EventsDiffer DEF InStep
    <3>3. pendingChanges[f] = Deleted =>
            CreatedFirst(events, f)' /\ (content[f] # 0 => Has(events, Ev("create", f)))'
      BY <1>2, <1>5, <2>2, <2>3, EventAdded, EventsDiffer DEF InStep
    <3> QED
      BY <1>2, <3>1, <3>2, <3>3 DEF InStep
  <2> QED
    BY <1>2, <1>3, <1>4, <1>5, <2>1, <2>3 DEF FilesOK, FileOK, ToldOK, FileAccounted
<1>6. CASE f \in missed'
  BY <1>2, <1>3, <1>4, <1>6 DEF FilesOK, FileOK, ToldOK, FileAccounted
<1> QED
  BY <1>1, <1>5, <1>6 DEF Happens, Ev

\* A new or a watched directory changes nothing of any file.
LEMMA DirectoryKeepsFiles ==
  ASSUME FsInv, MakeSub \/ AddWorkspace \/ AddSub \/ DirectoryEvent
  PROVE  FilesOK'
<1> SUFFICES ASSUME NEW g \in Files
             PROVE  FileOK(g)' /\ ToldOK(g)' /\ FileAccounted(g)'
  BY DEF FilesOK
<1>1. events \in Seq(Event) /\ [op |-> "mkdir"] \in Event
      /\ FileOK(g) /\ ToldOK(g) /\ FileAccounted(g)
  BY DEF FsInv, FsTypeOK, Event
<1>2. Alike(events, events', g)
  <2>1. CASE events' = events
    BY <2>1 DEF Alike
  <2>2. CASE events' = Append(events, [op |-> "mkdir"])
    <3>1. \A o : [op |-> "mkdir"] # Ev(o, g)
      <4>1. [op |-> "mkdir"] # Ev("mkdir", g)
        BY DEF Ev
      <4> QED
        BY <4>1, EventsDiffer
    <3> QED
      BY <1>1, <2>2, <3>1, AlikeAdded
  <2>3. CASE events # << >> /\ Head(events).op = "mkdir" /\ events' = Tail(events)
    <3>1. \A o : Head(events) # Ev(o, g)
      <4>1. Head(events) \in Event
        BY <1>1, <2>3
      <4>2. \A h \in Event : h.op = "mkdir" => h = [op |-> "mkdir"]
        BY EventsDiffer
      <4>3. [op |-> "mkdir"] # Ev("mkdir", g)
        BY DEF Ev
      <4> QED
        BY <2>3, <4>1, <4>2, <4>3, EventsDiffer
    <3> QED
      BY <1>1, <2>3, <3>1, AlikeTaken
  <2> QED
    BY <2>1, <2>2, <2>3 DEF MakeSub, AddWorkspace, AddSub, DirectoryEvent
<1>3. UNCHANGED <<content, serverHas, toldServer, pendingChanges, armed, missed>>
  BY DEF MakeSub, AddWorkspace, AddSub, DirectoryEvent
<1> QED
  BY <1>1, <1>2, <1>3, FileUntouched

\* The event of a file is taken and collected.
LEMMA EventKeepsFiles == ASSUME FsInv, FileEvent PROVE FilesOK'
<1>1. /\ events \in Seq(Event) /\ events # << >> /\ events' = Tail(events)
      /\ Head(events) \in Event /\ Head(events).op # "mkdir"
      /\ pendingChanges \in [Files -> {0, Created, Changed, Deleted}]
      /\ armed' = TRUE
      /\ UNCHANGED <<content, serverHas, toldServer, missed, watchTop, watchSub>>
  BY DEF FsInv, FsTypeOK, FileEvent
<1>2. PICK o \in {"create", "write", "remove"}, f \in Files :
        Head(events) = Ev(o, f)
  BY <1>1, EventsDiffer
<1>3. pendingChanges' = [pendingChanges EXCEPT ![f] = NewType(@, o)]
  <2>1. Head(events).file = f /\ Head(events).op = o
    BY <1>2 DEF Ev
  <2> QED
    BY <2>1 DEF FileEvent
<1>4. ASSUME NEW g \in Files, g # f
      PROVE  FileOK(g)' /\ ToldOK(g)' /\ FileAccounted(g)'
  <2>1. \A p : Head(events) # Ev(p, g)
    BY <1>2, <1>4, EventsDiffer
  <2>2. Alike(events, events', g)
    BY <1>1, <2>1, AlikeTaken
  <2>3. pendingChanges'[g] = pendingChanges[g]
    BY <1>1, <1>3, <1>4
  <2>4. FileOK(g) /\ ToldOK(g) /\ FileAccounted(g)
    BY DEF FsInv
  <2> QED
    BY <1>1, <2>2, <2>3, <2>4, FileUntouched
<1>5. FileOK(f) /\ pendingChanges[f] \in {0, Created, Changed, Deleted}
  BY <1>1 DEF FsInv
<1>6. pendingChanges'[f] = NewType(pendingChanges[f], o)
      /\ pendingChanges'[f] # 0
  BY <1>1, <1>3, <1>5 DEF NewType, Created, Changed, Deleted
<1>7. ASSUME InStep(f) PROVE InStep(f)'
  <2>1. (content[f] # 0 => Revived(events, f))' /\ WritesOK(events, f)'
    BY <1>1, <1>7, EventTaken DEF InStep
  <2>2. ASSUME pendingChanges'[f] = Deleted
        PROVE  /\ CreatedFirst(events, f)'
               /\ (content[f] # 0 => Has(events, Ev("create", f)))'
    <3>1. CASE o = "remove"
      BY <1>1, <1>2, <1>7, <3>1, EventTaken DEF InStep
    <3>2. CASE o = "create"
      BY <1>6, <2>2, <3>2 DEF NewType, Created, Deleted
    <3>3. CASE o = "write"
      <4>1. pendingChanges[f] = Deleted
        BY <1>6, <2>2, <3>3 DEF NewType, Changed, Deleted
      <4> QED
        BY <1>1, <1>2, <1>7, <3>3, <4>1, EventTaken DEF InStep
    <3> QED
      BY <3>1, <3>2, <3>3
  <2> QED
    BY <1>1, <2>1, <2>2 DEF InStep
<1>8. FileOK(f)'
  BY <1>1, <1>5, <1>7 DEF FileOK
<1> QED
  BY <1>4, <1>6, <1>8 DEF FilesOK, ToldOK, FileAccounted

\* What was collected is sent, or the files it names are missed.
LEMMA FlushKeepsFiles == ASSUME FsInv, Flush PROVE FilesOK'
<1> SUFFICES ASSUME NEW f \in Files
             PROVE  FileOK(f)' /\ ToldOK(f)' /\ FileAccounted(f)'
  BY DEF FilesOK
<1> DEFINE Told == [Files -> {0, Created, Changed, Deleted}]
<1>1. /\ toldServer \in Seq(Told) /\ pendingChanges \in Told
      /\ FileOK(f) /\ ToldOK(f) /\ FileAccounted(f)
  BY DEF FsInv, FsTypeOK
<1>2. /\ pendingChanges'[f] = 0
      /\ UNCHANGED <<content, events, watchTop, watchSub, serverHas>>
      /\ (Reported(f)' <=> Reported(f))
  BY DEF Flush, Reported
<1>3. FileOK(f)'
  <2>1. f \in missed => f \in missed'
    BY DEF Flush
  <2> QED
    BY <1>1, <1>2, <2>1 DEF FileOK, InStep, Deleted
<1>4. pendingChanges[f] = Deleted /\ content[f] # 0 => f \in missed \/ Reported(f)
  BY <1>1 DEF FileOK, InStep, Reported
<1>5. CASE toldServer' = Append(toldServer, pendingChanges) /\ missed' = missed
  <2>1. pendingChanges[f] \in {0, Created, Changed, Deleted}
    BY <1>1
  <2>2. /\ Names(toldServer, f)' <=> Names(toldServer, f) \/ pendingChanges[f] # 0
        /\ Renamed(toldServer, f) /\ pendingChanges[f] # Deleted
             => Renamed(toldServer, f)'
        /\ pendingChanges[f] \notin {0, Deleted} => Renamed(toldServer, f)'
    BY <1>1, <1>5, NoticeAdded
  <2>3. ToldOK(f)'
    BY <1>1, <1>2, <1>4, <1>5, <2>1, <2>2 DEF ToldOK, Deleted
  <2>4. FileAccounted(f)'
    BY <1>1, <1>2, <1>5, <2>2 DEF FileAccounted
  <2> QED
    BY <1>3, <2>3, <2>4
<1>6. CASE /\ missed' = missed \cup {g \in Files : pendingChanges[g] # 0}
           /\ toldServer' = toldServer
  BY <1>1, <1>2, <1>3, <1>6 DEF ToldOK, FileAccounted
<1> QED
  BY <1>5, <1>6 DEF Flush

\* The server reads a notification.
LEMMA ToldKeepsFiles == ASSUME FsInv, ServerIsTold PROVE FilesOK'
<1> SUFFICES ASSUME NEW f \in Files
             PROVE  FileOK(f)' /\ ToldOK(f)' /\ FileAccounted(f)'
  BY DEF FilesOK
<1> DEFINE Told == [Files -> {0, Created, Changed, Deleted}]
           told == Head(toldServer)
<1>1. /\ toldServer \in Seq(Told) /\ toldServer # << >>
      /\ told[f] \in {0, Created, Changed, Deleted}
      /\ FileOK(f) /\ ToldOK(f) /\ FileAccounted(f)
  <2>1. toldServer \in Seq(Told) /\ toldServer # << >>
    BY DEF FsInv, FsTypeOK, ServerIsTold
  <2>2. told \in Told
    BY <2>1
  <2> QED
    BY <2>1, <2>2 DEF FsInv
<1>2. /\ UNCHANGED <<content, events, watchTop, watchSub, pendingChanges, armed>>
      /\ (Reported(f)' <=> Reported(f))
      /\ toldServer' = Tail(toldServer)
  BY DEF ServerIsTold, Reported
<1>3. /\ Names(toldServer, f) <=> Names(toldServer, f)' \/ told[f] # 0
      /\ Names(toldServer, f)' <=> \E i \in 2 .. Len(toldServer) : toldServer[i][f] # 0
      /\ Renamed(toldServer, f) => /\ Renamed(toldServer, f)'
                                   /\ told[f] = Deleted => Names(toldServer, f)'
      /\ ~Names(toldServer, f)' => Renamed(toldServer, f)'
  BY <1>1, <1>2, NoticeTaken
<1>4. serverHas'[f] = IF told[f] = 0 THEN serverHas[f]
                      ELSE IF told[f] = Deleted THEN 0 ELSE content[f]
  BY DEF ServerIsTold
<1>5. f \in missed' <=> /\ f \in missed
                        /\ \/ serverHas'[f] # content[f] \/ InQueue(f)
                           \/ pendingChanges[f] # 0 \/ Names(toldServer, f)'
  BY <1>3 DEF ServerIsTold, Named
<1>9. Reported(f) <=> InQueue(f)
  BY FsInvReports
<1> HIDE DEF told
<1>6. FileOK(f)'
  <2>1. CASE Reported(f) \/ pendingChanges[f] # 0
    BY <1>1, <1>2, <1>5, <1>9, <2>1 DEF FileOK, InStep
  <2>2. CASE ~Reported(f) /\ pendingChanges[f] = 0
    BY <1>2, <2>2, Silent DEF FileOK, InStep, Deleted
  <2> QED
    BY <2>1, <2>2
<1>7. ToldOK(f)'
  BY <1>1, <1>2, <1>3, <1>5, <1>9 DEF ToldOK
<1>8. FileAccounted(f)'
  <2>1. CASE told[f] = 0
    BY <1>1, <1>2, <1>3, <1>4, <1>5, <2>1 DEF FileAccounted
  <2>2. CASE told[f] = Deleted
    <3>1. content[f] = 0 \/ f \in missed \/ pendingChanges[f] # 0
          \/ Reported(f) \/ Names(toldServer, f)'
      BY <1>1, <1>3, <2>2 DEF ToldOK
    <3> QED
      BY <1>2, <1>4, <1>5, <2>2, <3>1 DEF FileAccounted, Deleted
  <2>3. CASE told[f] \notin {0, Deleted}
    BY <1>2, <1>4, <2>3 DEF FileAccounted
  <2> QED
    BY <2>1, <2>2, <2>3
<1> QED
  BY <1>6, <1>7, <1>8

\* The watcher as it starts satisfies the inductive invariant.
LEMMA InitFsInv == FsInit => FsInv
<1> SUFFICES ASSUME FsInit PROVE FsInv
  OBVIOUS
<1>1. FsTypeOK
  <2>1. content \in [Files -> 0 .. MaxOps + 1]
    BY FsConstants DEF FsInit
  <2>2. \A S : << >> \in Seq(S)
    OBVIOUS
  <2>3. subExists \in BOOLEAN /\ armed \in BOOLEAN /\ watchTop \in BOOLEAN
        /\ watchSub \in BOOLEAN
    BY DEF FsInit
  <2> QED
    BY <2>1, <2>2, <2>3, FsConstants DEF FsInit, FsTypeOK
<1>2. ASSUME NEW f \in Files PROVE FileOK(f) /\ ToldOK(f) /\ FileAccounted(f)
  <2>1. ~Reported(f) /\ pendingChanges[f] = 0 /\ serverHas[f] = content[f]
    BY DEF FsInit, Reported, Has
  <2>2. Renamed(toldServer, f)
    BY DEF FsInit, Renamed
  <2> QED
    BY <2>1, <2>2, Silent DEF FileOK, InStep, ToldOK, FileAccounted, Deleted
<1> QED
  BY <1>1, <1>2 DEF FsInv

\* Every step keeps it.
LEMMA NextFsInv == FsInv /\ [FsNext]_fsVars => FsInv'
<1> SUFFICES ASSUME FsInv, [FsNext]_fsVars PROVE FsInv'
  OBVIOUS
<1>1. FsTypeOK'
  BY NextFsTypeOK DEF FsInv
<1>2. FilesOK'
  <2>1. CASE UNCHANGED fsVars
    BY <2>1 DEF fsVars, FsInv, FilesOK, FileOK, InStep, ToldOK, FileAccounted,
                Reported
  <2> QED
    BY <2>1, ChangeKeepsFiles, DirectoryKeepsFiles, EventKeepsFiles,
       FlushKeepsFiles, ToldKeepsFiles DEF FsNext
<1> QED
  BY <1>1, <1>2 DEF FsInv, FilesOK

\* Types of the fsnotify watcher's state.
THEOREM FsTypeCorrect == FsSpec => []FsTypeOK
<1>1. FsInv => FsTypeOK
  BY DEF FsInv
<1> QED
  BY InitFsInv, NextFsInv, <1>1, PTL DEF FsSpec

\* runFsnotifyWatcher: a file that the server does not know as it is has an
\* event waiting, or is collected with the timer running, or is named in a
\* notification on its way; or its directory was not watched when it changed,
\* or the event was lost, or its notification could not be sent.
THEOREM FsnotifyAccounted == FsSpec => []FsAccounted
<1>1. FsInv => FsAccounted
  <2> SUFFICES ASSUME FsInv, NEW f \in Files
               PROVE  \/ serverHas[f] = content[f]
                      \/ InQueue(f)
                      \/ pendingChanges[f] # 0 /\ armed
                      \/ Named(f, 1)
                      \/ f \in missed
    BY DEF FsAccounted
  <2>1. FileAccounted(f) /\ (pendingChanges[f] # 0 => armed)
    BY DEF FsInv, FileOK
  <2>2. Reported(f) => InQueue(f)
    BY FsInvReports
  <2> QED
    BY <2>1, <2>2 DEF FileAccounted, Names, Named
<1> QED
  BY InitFsInv, NextFsInv, <1>1, PTL DEF FsSpec

-----------------------------------------------------------------------------

(* PollingScan. *)

\* What the workers have still to look at.
AllEntries == UNION {On(entries[w]) : w \in Worker}

\* Directories that have been listed: everything in them was found or is
\* still to be looked at.
Listed(X) ==
  /\ Workspace \in X \cup On(dirs) \cup AllEntries
  /\ Below(X) \subseteq X \cup On(dirs) \cup AllEntries
  /\ Members(X) \cap Source \subseteq result \cup AllEntries

\* No directory is lost.
NothingLost == \E X \in SUBSET Folder : Listed(X)

\* What is in the channel, looked at or found can be reached.
OnlyReachable ==
  /\ On(dirs) \subseteq Reachable
  /\ AllEntries \subseteq Members(Reachable)
  /\ result \subseteq Members(Reachable) \cap Source

\* A worker has entries only while it is in a directory, and ends when the
\* channel is closed and empty; when it was closed in time, no worker has a
\* directory any more.
WorkersOK ==
  /\ \A w \in Worker : /\ worker[w] \in {"range", "ended"} => entries[w] = << >>
                       /\ worker[w] = "ended" => dirsClosed /\ dirs = << >>
  /\ dirsClosed /\ ~early =>
       dirs = << >> /\ \A w \in Worker : worker[w] \notin {"took", "work"}
  /\ panicked => early

ScanInv == ScanTypeOK /\ NothingLost /\ OnlyReachable /\ WorkersOK
\* What is on a sequence after the operations on it.
LEMMA OnSequence ==
  ASSUME NEW S, NEW s \in Seq(S)
  PROVE  /\ On(<< >>) = {} /\ On(s) \subseteq S
         /\ \A e \in S : On(Append(s, e)) = On(s) \cup {e}
         /\ \A t \in Seq(S) : On(s \o t) = On(s) \cup On(t)
         /\ s # << >> => /\ On(s) = {Head(s)} \cup On(Tail(s))
                         /\ Head(s) \in S /\ Tail(s) \in Seq(S)
<1>1. On(<< >>) = {} /\ On(s) \subseteq S
  BY DEF On
<1>2. ASSUME NEW e \in S PROVE On(Append(s, e)) = On(s) \cup {e}
  <2>1. /\ DOMAIN Append(s, e) = 1 .. Len(s) + 1 /\ DOMAIN s = 1 .. Len(s)
        /\ Len(s) \in Nat /\ Append(s, e)[Len(s) + 1] = e
        /\ \A i \in 1 .. Len(s) : Append(s, e)[i] = s[i]
    OBVIOUS
  <2>2. \A i \in 1 .. Len(s) + 1 : i \in 1 .. Len(s) \/ i = Len(s) + 1
    BY <2>1
  <2>3. Len(s) + 1 \in 1 .. Len(s) + 1
        /\ \A i \in 1 .. Len(s) : i \in 1 .. Len(s) + 1
    BY <2>1
  <2> QED
    BY <2>1, <2>2, <2>3 DEF On
<1>3. ASSUME NEW t \in Seq(S) PROVE On(s \o t) = On(s) \cup On(t)
  <2>1. /\ Len(s) \in Nat /\ Len(t) \in Nat
        /\ DOMAIN (s \o t) = 1 .. Len(s) + Len(t)
        /\ DOMAIN s = 1 .. Len(s) /\ DOMAIN t = 1 .. Len(t)
        /\ \A i \in 1 .. Len(s) : (s \o t)[i] = s[i]
        /\ \A i \in 1 .. Len(t) : (s \o t)[Len(s) + i] = t[i]
    OBVIOUS
  <2>2. ASSUME NEW i \in 1 .. Len(s) + Len(t)
        PROVE  (s \o t)[i] \in On(s) \cup On(t)
    <3>1. i \in 1 .. Len(s)
          \/ (i - Len(s) \in 1 .. Len(t) /\ Len(s) + (i - Len(s)) = i)
      BY <2>1
    <3> QED
      BY <2>1, <3>1 DEF On
  <2>3. ASSUME NEW i \in 1 .. Len(s) PROVE s[i] \in On(s \o t)
    <3>1. i \in 1 .. Len(s) + Len(t)
      BY <2>1
    <3> QED
      BY <2>1, <3>1 DEF On
  <2>4. ASSUME NEW i \in 1 .. Len(t) PROVE t[i] \in On(s \o t)
    <3>1. Len(s) + i \in 1 .. Len(s) + Len(t)
      BY <2>1
    <3> QED
      BY <2>1, <3>1 DEF On
  <2> QED
    BY <2>1, <2>2, <2>3, <2>4 DEF On
<1>4. ASSUME s # << >>
      PROVE  /\ On(s) = {Head(s)} \cup On(Tail(s))
             /\ Head(s) \in S /\ Tail(s) \in Seq(S)
  <2>1. /\ Head(s) \in S /\ Tail(s) \in Seq(S) /\ Head(s) = s[1]
        /\ Len(s) \in Nat \ {0} /\ DOMAIN s = 1 .. Len(s)
        /\ DOMAIN Tail(s) = 1 .. Len(s) - 1
        /\ \A i \in 1 .. Len(s) - 1 : Tail(s)[i] = s[i + 1]
    BY <1>4
  <2>2. ASSUME NEW i \in 1 .. Len(s) PROVE s[i] \in {Head(s)} \cup On(Tail(s))
    <3>1. i = 1 \/ (i - 1 \in 1 .. Len(s) - 1 /\ (i - 1) + 1 = i)
      BY <2>1
    <3> QED
      BY <2>1, <3>1 DEF On
  <2>3. ASSUME NEW i \in 1 .. Len(s) - 1 PROVE Tail(s)[i] \in On(s)
    <3>1. i + 1 \in 1 .. Len(s)
      BY <2>1
    <3> QED
      BY <2>1, <3>1 DEF On
  <2>4. Head(s) \in On(s)
    BY <2>1 DEF On
  <2> QED
    BY <2>1, <2>2, <2>3, <2>4 DEF On
<1> QED
  BY <1>1, <1>2, <1>3, <1>4

\* Members and Below are unions; the reachable directories begin with the
\* workspace and are closed.
LEMMA MembersUnion ==
  /\ \A X, d : Members(X \cup {d}) = Members(X) \cup On(Listing[d])
  /\ \A X, d : Below(X \cup {d}) =
                 Below(X) \cup (On(Listing[d]) \cap (Folder \ Ignored))
  /\ \A X, d : d \in X => On(Listing[d]) \subseteq Members(X)
  /\ \A X, Y : X \subseteq Y => Members(X) \subseteq Members(Y)
BY DEF Members, Below

\* The reachable directories are the least set that is closed under "in".
LEMMA ReachableClosed ==
  /\ Workspace \in Reachable /\ Reachable \subseteq Folder
  /\ Below(Reachable) \subseteq Reachable
  /\ \A S \in SUBSET Folder :
       Workspace \in S /\ Below(S) \subseteq S => Reachable \subseteq S
<1>1. Workspace \in Reachable /\ Reachable \subseteq Folder
  BY ScanConstants DEF Reachable
<1>2. ASSUME NEW S \in SUBSET Folder, Workspace \in S, Below(S) \subseteq S
      PROVE  Reachable \subseteq S
  BY <1>2 DEF Reachable
<1>3. ASSUME NEW e \in Below(Reachable) PROVE e \in Reachable
  <2>1. e \in Folder
    BY DEF Below
  <2>2. ASSUME NEW S \in SUBSET Folder, Workspace \in S, Below(S) \subseteq S
        PROVE  e \in S
    <3>1. e \in Below(S)
      BY <1>2, <2>2 DEF Below, Members
    <3> QED
      BY <2>2, <3>1
  <2> QED
    BY <2>1, <2>2 DEF Reachable
<1> QED
  BY <1>1, <1>2, <1>3

\* The entries of the other workers.
OtherEntries(w) == UNION {On(entries[v]) : v \in Worker \ {w}}

\* The entries of worker w become s.
LEMMA EntriesOfOne ==
  ASSUME NEW w \in Worker, NEW s, NEW T, entries \in [Worker -> T],
         entries' = [entries EXCEPT ![w] = s]
  PROVE  /\ AllEntries = On(entries[w]) \cup OtherEntries(w)
         /\ AllEntries' = On(s) \cup OtherEntries(w)
<1>1. AllEntries = On(entries[w]) \cup OtherEntries(w)
  BY DEF AllEntries, OtherEntries
<1>2. entries'[w] = s /\ \A v \in Worker \ {w} : entries'[v] = entries[v]
  OBVIOUS
<1>3. AllEntries' = On(s) \cup OtherEntries(w)
  BY <1>2 DEF AllEntries, OtherEntries
<1> QED
  BY <1>1, <1>3

\* A reachable directory x is listed: its entries take its place.
LEMMA FolderListed ==
  ASSUME NothingLost, OnlyReachable, NEW x \in Reachable,
         x \in On(dirs) \cup AllEntries,
         On(dirs) \subseteq On(dirs)' \cup {x}, On(dirs)' \subseteq On(dirs),
         AllEntries \subseteq AllEntries' \cup {x},
         On(Listing[x]) \subseteq AllEntries',
         AllEntries' \subseteq AllEntries \cup On(Listing[x]), result' = result
  PROVE  NothingLost' /\ OnlyReachable'
<1>1. x \in Folder /\ x \notin Source
  BY ReachableClosed, ScanConstants
<1>2. NothingLost'
  <2>1. PICK X \in SUBSET Folder : Listed(X)
    BY DEF NothingLost
  <2>2. Listed(X \cup {x})'
    <3>1. /\ Workspace \in X \cup On(dirs) \cup AllEntries
          /\ Below(X) \subseteq X \cup On(dirs) \cup AllEntries
          /\ Members(X) \cap Source \subseteq result \cup AllEntries
      BY <2>1 DEF Listed
    <3>2. (Workspace \in X \cup {x} \cup On(dirs) \cup AllEntries)'
      BY <3>1
    <3>3. (Below(X \cup {x}) \subseteq X \cup {x} \cup On(dirs) \cup AllEntries)'
      <4>1. Below(X \cup {x}) \subseteq Below(X) \cup On(Listing[x])
        BY MembersUnion
      <4>2. Below(X \cup {x})' = Below(X \cup {x})
        BY DEF Below, Members
      <4> QED
        BY <3>1, <4>1, <4>2
    <3>4. (Members(X \cup {x}) \cap Source \subseteq result \cup AllEntries)'
      <4>1. Members(X \cup {x}) = Members(X) \cup On(Listing[x])
        BY MembersUnion
      <4>2. Members(X \cup {x})' = Members(X \cup {x})
        BY DEF Members
      <4>3. (Members(X) \cup On(Listing[x])) \cap Source
              \subseteq result' \cup AllEntries'
        BY <1>1, <3>1
      <4> QED
        BY <4>1, <4>2, <4>3
    <3> QED
      BY <3>2, <3>3, <3>4 DEF Listed
  <2>3. X \cup {x} \in SUBSET Folder
    BY <1>1
  <2> QED
    BY <2>2, <2>3 DEF NothingLost
<1>3. OnlyReachable'
  <2>1. On(Listing[x]) \subseteq Members(Reachable)
    BY MembersUnion
  <2> QED
    BY <2>1 DEF OnlyReachable
<1> QED
  BY <1>2, <1>3

\* An entry goes into the channel, is found, or is passed over: no directory
\* that is to be listed and no source file is lost.
LEMMA EntryLookedAt ==
  ASSUME NothingLost, OnlyReachable,
         On(dirs) \subseteq On(dirs)', result \subseteq result',
         AllEntries \cap (Folder \ Ignored) \subseteq On(dirs)' \cup AllEntries',
         AllEntries \cap Source \subseteq result' \cup AllEntries',
         On(dirs)' \subseteq On(dirs) \cup (AllEntries \cap (Folder \ Ignored)),
         AllEntries' \subseteq AllEntries,
         result' \subseteq result \cup (AllEntries \cap Source)
  PROVE  NothingLost' /\ OnlyReachable'
<1>1. NothingLost'
  <2>1. PICK X \in SUBSET Folder : Listed(X)
    BY DEF NothingLost
  <2>2. Listed(X)'
    <3>1. /\ Workspace \in X \cup On(dirs) \cup AllEntries
          /\ Below(X) \subseteq X \cup On(dirs) \cup AllEntries
          /\ Members(X) \cap Source \subseteq result \cup AllEntries
      BY <2>1 DEF Listed
    <3>2. (Workspace \in X \cup On(dirs) \cup AllEntries)'
      BY <3>1, ScanConstants
    <3>3. (Below(X) \subseteq X \cup On(dirs) \cup AllEntries)'
      BY <3>1 DEF Below
    <3>4. (Members(X) \cap Source \subseteq result \cup AllEntries)'
      BY <3>1
    <3> QED
      BY <3>2, <3>3, <3>4 DEF Listed
  <2> QED
    BY <2>2 DEF NothingLost
<1>2. OnlyReachable'
  BY ReachableClosed DEF OnlyReachable, Below
<1> QED
  BY <1>1, <1>2

\* How the steps of a worker and of the goroutine that closes the channel move
\* what the scan has to do.
LEMMA ScanMoves == ScanInv /\ ScanNext => NothingLost' /\ OnlyReachable'
<1> SUFFICES ASSUME ScanInv, ScanNext PROVE NothingLost' /\ OnlyReachable'
  OBVIOUS
<1> DEFINE T == Seq(Members(Folder))
<1>1. /\ NothingLost /\ OnlyReachable
      /\ dirs \in Seq(Folder) /\ entries \in [Worker -> T]
  BY DEF ScanInv, ScanTypeOK
<1>2. CASE UNCHANGED <<dirs, entries, result>>
  BY <1>1, <1>2 DEF NothingLost, Listed, OnlyReachable, AllEntries
<1>3. ASSUME NEW w \in Worker, Take(w)
      PROVE  NothingLost' /\ OnlyReachable'
  <2> DEFINE x == Head(dirs)
  <2>1. On(dirs) = {x} \cup On(dirs)'
    BY <1>1, <1>3, OnSequence DEF Take
  <2>2. /\ AllEntries = OtherEntries(w)
        /\ AllEntries' = On(Listing[x]) \cup OtherEntries(w)
    <3>1. entries[w] = << >>
      BY <1>3 DEF ScanInv, WorkersOK, Take
    <3>2. On(entries[w]) = {}
      BY <3>1 DEF On
    <3> QED
      BY <1>1, <1>3, <3>2, EntriesOfOne DEF Take
  <2>3. x \in Reachable /\ result' = result
    BY <1>1, <1>3, <2>1 DEF OnlyReachable, Take
  <2> HIDE DEF x
  <2> QED
    BY <1>1, <2>1, <2>2, <2>3, FolderListed
<1>4. ASSUME NEW w \in Worker, entries[w] # << >>
      PROVE  /\ On(entries[w]) = {Head(entries[w])} \cup On(Tail(entries[w]))
             /\ Tail(entries[w]) \in T /\ Head(entries[w]) \in AllEntries
             /\ Head(entries[w]) \in Folder \ Ignored
                  => Head(entries[w]) \in Reachable
  <2>1. entries[w] \in T
    BY <1>1
  <2>2. /\ On(entries[w]) = {Head(entries[w])} \cup On(Tail(entries[w]))
        /\ Tail(entries[w]) \in T
    BY <1>4, <2>1, OnSequence
  <2>3. Head(entries[w]) \in AllEntries
    BY <2>2 DEF AllEntries
  <2> QED
    BY <1>1, <2>2, <2>3, ReachableClosed DEF OnlyReachable, Below
<1>5. ASSUME NEW w \in Worker, Descend(w)
      PROVE  NothingLost' /\ OnlyReachable'
  <2> DEFINE x == Head(entries[w])
             r == Tail(entries[w])
  <2>1. /\ entries[w] # << >> /\ x \in Folder \ Ignored
        /\ entries' = [entries EXCEPT ![w] = Listing[x] \o r]
        /\ dirs' = dirs /\ result' = result
    BY <1>5 DEF Descend, AtFolder
  <2>2. /\ On(entries[w]) = {x} \cup On(r) /\ r \in T /\ x \in AllEntries
        /\ x \in Reachable
    BY <1>4, <2>1
  <2> HIDE DEF x, r
  <2>3. On(Listing[x] \o r) = On(Listing[x]) \cup On(r)
    <3>1. Listing[x] \in Seq(On(Listing[x])) /\ r \in T
      BY <2>1, <2>2, ScanConstants
    <3>2. On(Listing[x]) \subseteq Members(Folder)
      BY <2>1, MembersUnion
    <3>3. Listing[x] \in T
      BY <3>1, <3>2
    <3> QED
      BY <3>1, <3>3, OnSequence
  <2>4. /\ AllEntries = {x} \cup On(r) \cup OtherEntries(w)
        /\ AllEntries' = On(Listing[x]) \cup On(r) \cup OtherEntries(w)
    BY <1>1, <2>1, <2>2, <2>3, EntriesOfOne
  <2> QED
    BY <1>1, <2>1, <2>2, <2>4, FolderListed
<1>6. ASSUME NEW w \in Worker, Enqueue(w)
      PROVE  NothingLost' /\ OnlyReachable'
  <2> DEFINE x == Head(entries[w])
             r == Tail(entries[w])
  <2>1. /\ entries[w] # << >> /\ x \in Folder \ Ignored
        /\ entries' = [entries EXCEPT ![w] = r]
        /\ dirs' = Append(dirs, x) /\ result' = result
    BY <1>6 DEF Enqueue, AtFolder
  <2>2. On(entries[w]) = {x} \cup On(r)
    BY <1>4, <2>1
  <2> HIDE DEF x, r
  <2>3. On(dirs)' = On(dirs) \cup {x}
    BY <1>1, <2>1, OnSequence
  <2>4. /\ AllEntries = {x} \cup On(r) \cup OtherEntries(w)
        /\ AllEntries' = On(r) \cup OtherEntries(w)
    BY <1>1, <2>1, <2>2, EntriesOfOne
  <2>5. x \notin Source
    BY <2>1, ScanConstants
  <2> QED
    BY <1>1, <2>1, <2>3, <2>4, <2>5, EntryLookedAt
<1>7. ASSUME NEW w \in Worker, LookAtFile(w)
      PROVE  NothingLost' /\ OnlyReachable'
  <2> DEFINE x == Head(entries[w])
             r == Tail(entries[w])
  <2>1. /\ entries[w] # << >> /\ x \notin Folder \ Ignored
        /\ entries' = [entries EXCEPT ![w] = r]
        /\ dirs' = dirs /\ result' = result \cup ({x} \cap Source)
    BY <1>7 DEF LookAtFile
  <2>2. On(entries[w]) = {x} \cup On(r)
    BY <1>4, <2>1
  <2> HIDE DEF x, r
  <2>3. /\ AllEntries = {x} \cup On(r) \cup OtherEntries(w)
        /\ AllEntries' = On(r) \cup OtherEntries(w)
    BY <1>1, <2>1, <2>2, EntriesOfOne
  <2> QED
    BY <1>1, <2>1, <2>3, EntryLookedAt
<1>8. \/ UNCHANGED <<dirs, entries, result>>
      \/ \E w \in Worker : Take(w) \/ Descend(w) \/ Enqueue(w) \/ LookAtFile(w)
  BY DEF ScanNext, CloserStep, WorkerStep, LookAtChannel, CloseChannel,
         Postpone, CountIn, Panic, CountOut, WorkerEnds
<1> QED
  BY <1>2, <1>3, <1>5, <1>6, <1>7, <1>8

\* Adding a worker to those that are active, and taking one from them.
LEMMA ActiveCounted ==
  ASSUME NEW A \in SUBSET Worker, NEW w \in Worker
  PROVE  /\ Cardinality(A) \in Nat /\ (Cardinality(A) = 0 <=> A = {})
         /\ w \notin A => Cardinality(A \cup {w}) = Cardinality(A) + 1
         /\ w \in A => Cardinality(A \ {w}) = Cardinality(A) - 1
<1>1. IsFiniteSet(A)
  BY ScanConstants, FS_Subset
<1> QED
  BY <1>1, FS_CardinalityType, FS_EmptySet, FS_AddElement, FS_RemoveElement

\* Types of the scan's state are kept by every step.
LEMMA NextScanTypeOK == ScanTypeOK /\ [ScanNext]_scanVars => ScanTypeOK'
<1> SUFFICES ASSUME ScanTypeOK, [ScanNext]_scanVars PROVE ScanTypeOK'
  OBVIOUS
<1> USE ScanConstants
<1> DEFINE T == Seq(Members(Folder))
           Active == {w \in Worker : worker[w] = "work"}
           Place == {"range", "took", "work", "ended"}
<1>1. /\ dirs \in Seq(Folder) /\ Len(dirs) <= Capacity
      /\ entries \in [Worker -> T] /\ worker \in [Worker -> Place]
      /\ activeWorkers = Cardinality(Active)
      /\ dirsClosed \in BOOLEAN /\ panicked \in BOOLEAN /\ early \in BOOLEAN
      /\ closer \in {"sleep", "sawEmpty", "ended"} /\ result \subseteq Source
  BY DEF ScanTypeOK
<1>2. \A d \in Folder : Listing[d] \in T
  <2> SUFFICES ASSUME NEW d \in Folder PROVE Listing[d] \in T
    OBVIOUS
  <2>1. Listing[d] \in Seq(On(Listing[d])) /\ On(Listing[d]) \subseteq Members(Folder)
    BY MembersUnion
  <2> QED
    BY <2>1
<1>3. ASSUME NEW w \in Worker, Take(w) PROVE ScanTypeOK'
  <2>1. /\ Tail(dirs) \in Seq(Folder) /\ Len(Tail(dirs)) <= Capacity
        /\ Head(dirs) \in Folder
    BY <1>1, <1>3 DEF Take
  <2>2. dirs' \in Seq(Folder) /\ Len(dirs') <= Capacity
    BY <1>3, <2>1 DEF Take
  <2>3. entries' \in [Worker -> T] /\ worker' \in [Worker -> Place]
    BY <1>1, <1>2, <1>3, <2>1 DEF Take
  <2>4. Active' = Active
    BY <1>1, <1>3 DEF Take
  <2> QED
    BY <1>1, <1>3, <2>2, <2>3, <2>4 DEF Take, ScanTypeOK
<1>4. ASSUME NEW w \in Worker, CountIn(w) PROVE ScanTypeOK'
  <2>1. Active' = Active \cup {w} /\ w \notin Active
    BY <1>1, <1>4 DEF CountIn
  <2>2. activeWorkers' = Cardinality(Active')
    <3>1. Active \in SUBSET Worker
      OBVIOUS
    <3> HIDE DEF Active
    <3>2. Cardinality(Active \cup {w}) = Cardinality(Active) + 1
      BY <2>1, <3>1, ActiveCounted
    <3> QED
      BY <1>1, <1>4, <2>1, <3>2 DEF CountIn
  <2>3. worker' \in [Worker -> Place]
    BY <1>1, <1>4 DEF CountIn
  <2> QED
    BY <1>1, <1>4, <2>2, <2>3 DEF CountIn, ScanTypeOK
<1>5. ASSUME NEW w \in Worker, CountOut(w) PROVE ScanTypeOK'
  <2>1. Active' = Active \ {w} /\ w \in Active
    BY <1>1, <1>5 DEF CountOut
  <2>2. activeWorkers' = Cardinality(Active')
    <3>1. Active \in SUBSET Worker
      OBVIOUS
    <3> HIDE DEF Active
    <3>2. Cardinality(Active \ {w}) = Cardinality(Active) - 1
      BY <2>1, <3>1, ActiveCounted
    <3> QED
      BY <1>1, <1>5, <2>1, <3>2 DEF CountOut
  <2>3. worker' \in [Worker -> Place]
    BY <1>1, <1>5 DEF CountOut
  <2> QED
    BY <1>1, <1>5, <2>2, <2>3 DEF CountOut, ScanTypeOK
<1>6. ASSUME NEW w \in Worker, WorkerEnds(w) PROVE ScanTypeOK'
  <2>1. Active' = Active
    BY <1>1, <1>6 DEF WorkerEnds
  <2>2. worker' \in [Worker -> Place]
    BY <1>1, <1>6 DEF WorkerEnds
  <2> QED
    BY <1>1, <1>6, <2>1, <2>2 DEF WorkerEnds, ScanTypeOK
<1>7. ASSUME NEW w \in Worker, Descend(w) \/ Enqueue(w) \/ LookAtFile(w)
      PROVE  ScanTypeOK'
  <2>1. entries[w] \in T /\ entries[w] # << >>
    BY <1>1, <1>7 DEF Descend, Enqueue, LookAtFile, AtFolder
  <2>2. Tail(entries[w]) \in T
    BY <2>1
  <2>3. entries' \in [Worker -> T]
    <3>1. ASSUME NEW s \in T, entries' = [entries EXCEPT ![w] = s]
          PROVE  entries' \in [Worker -> T]
      BY <1>1, <3>1
    <3>2. CASE Descend(w)
      <4>1. Listing[Head(entries[w])] \in T
        BY <1>2, <3>2 DEF Descend, AtFolder
      <4>2. Listing[Head(entries[w])] \o Tail(entries[w]) \in T
        BY <2>2, <4>1
      <4> HIDE DEF T
      <4> QED
        BY <3>1, <3>2, <4>2 DEF Descend
    <3>3. CASE Enqueue(w) \/ LookAtFile(w)
      <4> HIDE DEF T
      <4> QED
        BY <2>2, <3>1, <3>3 DEF Enqueue, LookAtFile
    <3> QED
      BY <1>7, <3>2, <3>3
  <2>4. dirs' \in Seq(Folder) /\ Len(dirs') <= Capacity
    <3>1. CASE Enqueue(w)
      <4> DEFINE x == Head(entries[w])
      <4>1. x \in Folder /\ Len(dirs) < Capacity /\ dirs' = Append(dirs, x)
        BY <3>1 DEF Enqueue, AtFolder
      <4> HIDE DEF x
      <4> QED
        BY <1>1, <4>1
    <3>2. CASE dirs' = dirs
      BY <1>1, <3>2
    <3> QED
      BY <1>7, <3>1, <3>2 DEF Descend, LookAtFile
  <2>5. result' \subseteq Source /\ Active' = Active
    BY <1>1, <1>7 DEF Descend, Enqueue, LookAtFile
  <2> QED
    BY <1>1, <1>7, <2>3, <2>4, <2>5
       DEF Descend, Enqueue, LookAtFile, ScanTypeOK
<1>8. CASE /\ closer' \in {"sleep", "sawEmpty", "ended"}
           /\ dirsClosed' \in BOOLEAN /\ early' \in BOOLEAN
           /\ panicked' \in BOOLEAN
           /\ UNCHANGED <<dirs, worker, entries, activeWorkers, result>>
  BY <1>1, <1>8 DEF ScanTypeOK
<1>9. ASSUME NEW w \in Worker, Panic(w) PROVE ScanTypeOK'
  BY <1>1, <1>8, <1>9 DEF Panic
<1>10. CASE CloserStep \/ UNCHANGED scanVars
  BY <1>1, <1>8, <1>10
     DEF CloserStep, LookAtChannel, CloseChannel, Postpone, scanVars
<1> QED
  BY <1>3, <1>4, <1>5, <1>6, <1>7, <1>9, <1>10 DEF ScanNext, WorkerStep

\* What a worker has and when the channel is closed, kept by every step.
LEMMA NextWorkersOK == ScanInv /\ [ScanNext]_scanVars => WorkersOK'
<1> SUFFICES ASSUME ScanInv, [ScanNext]_scanVars PROVE WorkersOK'
  OBVIOUS
<1>1. /\ WorkersOK /\ worker \in [Worker -> {"range", "took", "work", "ended"}]
      /\ entries \in [Worker -> Seq(Members(Folder))]
      /\ activeWorkers = Cardinality({w \in Worker : worker[w] = "work"})
  BY DEF ScanInv, ScanTypeOK
<1>2. ASSUME NEW w \in Worker, WorkerStep(w), ~panicked PROVE WorkersOK'
  <2>1. CASE Take(w)
    BY <1>1, <2>1 DEF Take, WorkersOK
  <2>2. CASE CountIn(w)
    BY <1>1, <2>2 DEF CountIn, WorkersOK
  <2>3. CASE Descend(w) \/ LookAtFile(w)
    <3>1. worker[w] = "work" /\ \A v \in Worker \ {w} : entries'[v] = entries[v]
      BY <1>1, <2>3 DEF Descend, LookAtFile, AtFolder
    <3>2. UNCHANGED <<worker, dirs, dirsClosed, early, panicked>>
      BY <2>3 DEF Descend, LookAtFile
    <3> QED
      BY <1>1, <3>1, <3>2 DEF WorkersOK
  <2>4. CASE Enqueue(w)
    BY <1>1, <2>4 DEF Enqueue, AtFolder, WorkersOK
  <2>5. CASE Panic(w)
    BY <1>1, <2>5 DEF Panic, AtFolder, WorkersOK
  <2>6. CASE CountOut(w)
    BY <1>1, <2>6 DEF CountOut, WorkersOK
  <2>7. CASE WorkerEnds(w)
    BY <1>1, <2>7 DEF WorkerEnds, WorkersOK
  <2> QED
    BY <1>2, <2>1, <2>2, <2>3, <2>4, <2>5, <2>6, <2>7 DEF WorkerStep
<1>3. CASE CloseChannel /\ ~panicked
  <2>1. \A w \in Worker : worker[w] # "work"
    <3>1. {w \in Worker : worker[w] = "work"} = {}
      BY <1>1, <1>3, ScanConstants, ActiveCounted DEF CloseChannel
    <3> QED
      BY <3>1
  <2> QED
    BY <1>1, <1>3, <2>1 DEF CloseChannel, WorkersOK
<1>4. CASE LookAtChannel \/ Postpone \/ UNCHANGED scanVars
  BY <1>1, <1>4 DEF LookAtChannel, Postpone, scanVars, WorkersOK
<1> QED
  BY <1>2, <1>3, <1>4 DEF ScanNext, CloserStep

\* The scan as it begins satisfies the inductive invariant.
LEMMA InitScanInv == ScanInit => ScanInv
<1> SUFFICES ASSUME ScanInit PROVE ScanInv
  OBVIOUS
<1>1. /\ dirs = <<Workspace>> /\ Workspace \in Folder
      /\ On(dirs) = {Workspace}
  BY ScanConstants DEF ScanInit, On
<1>2. AllEntries = {}
  BY DEF ScanInit, AllEntries, On
<1>3. ScanTypeOK
  <2>1. dirs \in Seq(Folder) /\ Len(dirs) <= Capacity
    BY <1>1, ScanConstants
  <2>2. entries \in [Worker -> Seq(Members(Folder))]
    <3>1. << >> \in Seq(Members(Folder))
      OBVIOUS
    <3> QED
      BY <3>1 DEF ScanInit
  <2>3. activeWorkers = Cardinality({w \in Worker : worker[w] = "work"})
    <3>1. {w \in Worker : worker[w] = "work"} = {}
      BY DEF ScanInit
    <3> QED
      BY <3>1, FS_EmptySet DEF ScanInit
  <2>4. worker \in [Worker -> {"range", "took", "work", "ended"}]
    BY DEF ScanInit
  <2>5. dirsClosed \in BOOLEAN /\ panicked \in BOOLEAN /\ early \in BOOLEAN
    BY DEF ScanInit
  <2> QED
    BY <2>1, <2>2, <2>3, <2>4, <2>5 DEF ScanInit, ScanTypeOK
<1>4. NothingLost
  <2>1. Listed({})
    BY <1>1 DEF Listed, Below, Members
  <2> QED
    BY <2>1 DEF NothingLost
<1>5. OnlyReachable
  BY <1>1, <1>2, ReachableClosed DEF OnlyReachable, ScanInit
<1>6. WorkersOK
  BY DEF ScanInit, WorkersOK
<1> QED
  BY <1>3, <1>4, <1>5, <1>6 DEF ScanInv

\* Every step keeps it.
LEMMA NextScanInv == ScanInv /\ [ScanNext]_scanVars => ScanInv'
<1> SUFFICES ASSUME ScanInv, [ScanNext]_scanVars PROVE ScanInv'
  OBVIOUS
<1>1. ScanTypeOK' /\ WorkersOK'
  BY NextScanTypeOK, NextWorkersOK DEF ScanInv
<1>2. NothingLost' /\ OnlyReachable'
  <2>1. CASE UNCHANGED scanVars
    BY <2>1 DEF scanVars, ScanInv, NothingLost, Listed, OnlyReachable, AllEntries
  <2> QED
    BY <2>1, ScanMoves
<1> QED
  BY <1>1, <1>2 DEF ScanInv

\* Types of the scan's state; the counter is the number of workers at work.
THEOREM ScanTypeCorrect == ScanSpec => []ScanTypeOK
<1>1. ScanInv => ScanTypeOK
  BY DEF ScanInv
<1> QED
  BY InitScanInv, NextScanInv, <1>1, PTL DEF ScanSpec

\* scan and processDir: a scan that returns has found exactly the source files
\* that can be reached, for every directory tree, every number of workers and
\* every capacity of the channel, and a send on the closed channel happens
\* only when the channel was closed too early.
THEOREM ScanFindsAll == ScanSpec => []ScanComplete
<1>1. ScanInv => ScanComplete
  <2> SUFFICES ASSUME ScanInv PROVE ScanComplete
    OBVIOUS
  <2>1. ASSUME ScanReturned PROVE result = Members(Reachable) \cap Source
    <3>1. \A w \in Worker : worker[w] = "ended"
      BY <2>1 DEF ScanReturned
    <3>2. \A w \in Worker : entries[w] = << >> /\ dirs = << >>
      BY <3>1 DEF ScanInv, WorkersOK
    <3>3. On(dirs) = {} /\ AllEntries = {}
      BY <3>2, ScanConstants DEF On, AllEntries
    <3>4. PICK X \in SUBSET Folder : Listed(X)
      BY DEF ScanInv, NothingLost
    <3>5. /\ Workspace \in X /\ Below(X) \subseteq X
          /\ Members(X) \cap Source \subseteq result
      BY <3>3, <3>4 DEF Listed
    <3>6. Reachable \subseteq X
      BY <3>5, ReachableClosed
    <3>7. Members(Reachable) \subseteq Members(X)
      BY <3>6, MembersUnion
    <3> QED
      BY <3>5, <3>7 DEF ScanInv, OnlyReachable
  <2>2. panicked => early
    BY DEF ScanInv, WorkersOK
  <2> QED
    BY <2>1, <2>2 DEF ScanComplete
<1> QED
  BY InitScanInv, NextScanInv, <1>1, PTL DEF ScanSpec

=============================================================================
