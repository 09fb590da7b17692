------------------------- MODULE DocumentSyncProofs -------------------------
(***************************************************************************)
(* Theorems about DocumentSync, for any number of tools, connections,      *)
(* documents and edits.  The inductive invariant DocInv says where the     *)
(* messages of a caller can be, what the server will have open when it has *)
(* read what is written to it, and that on one connection a didOpen whose  *)
(* text is too old for a tool goes ahead of the tool's own.                *)
(***************************************************************************)
EXTENDS DocumentSync, TLAPS

\* TypeOK without its last conjunct.
Types ==
  /\ disk \in [Doc -> Version] /\ doc \in [Caller -> Doc]
  /\ pc \in [Caller -> {"new", "read", "opening", "opened", "asking", "done"}]
  /\ text \in [Tool -> Version]
  /\ answer \in [Tool -> Version \cup {Closed, NoAnswer}]
  /\ queue \in [Conn -> Seq(Message)]
  /\ hpc \in [Conn -> {"idle", "refresh", "open", "close", "ask", "asked"}]
  /\ cur \in [Conn -> Caller]
  /\ openDocs \subseteq Doc /\ pipe \in Seq(Message)
  /\ server \in [Doc -> Version \cup {Closed}]
  /\ used \subseteq Conn /\ reopened \subseteq Doc
  /\ unsent \in [Tool -> SUBSET Version] /\ lost \subseteq Tool

\* A message, and whether it is about document d.
Msg(kind, p) == [kind |-> kind, who |-> p]

About(m, kind, d) == m.kind = kind /\ doc[m.who] = d

\* Message m is on queue q; on queue q no m follows an n.
In(q, m) == \E i \in 1 .. Len(q) : q[i] = m

Order(q, m, n) == \A i, j \in 1 .. Len(q) : q[i] = n /\ q[j] = m => j < i

\* The handler of connection k has message m in hand and has not written it.
Holds(k, m) ==
  /\ m.who = cur[k]
  /\ \/ m.kind = "didOpen" /\ hpc[k] \in {"refresh", "open"}
     \/ m.kind = "didClose" /\ hpc[k] = "close"
     \/ m.kind = "ask" /\ hpc[k] = "ask"

\* The server has not read message m yet; on connection k and behind it no m
\* follows an n.
Pending(m) == In(pipe, m) \/ \E k \in Conn : In(queue[k], m) \/ Holds(k, m)

NotBehind(k, m, n) ==
  /\ Order(queue[k], m, n) /\ Order(pipe, m, n)
  /\ Holds(k, n) \/ In(pipe, n) => ~In(queue[k], m)
  /\ In(pipe, n) => ~Holds(k, m)

\* Tool t has read its file, and has sent its didOpen.
Started(t) == pc[t] # "new" /\ t \notin lost

Sent(t) == pc[t] \notin {"new", "read"} /\ t \notin lost

\* Whoever sends a message has come so far, only connections that are used
\* have messages, nobody is answered before it starts, and a didOpen is lost
\* only by a tool that has gone on.
SentBy(m) ==
  \/ m.kind = "didOpen" /\ m.who \in Tool /\ Sent(m.who)
  \/ m.kind = "didClose" /\ m.who \in Closer /\ pc[m.who] # "new"
  \/ m.kind = "ask" /\ m.who \in Tool /\ pc[m.who] \in {"asking", "done"}

SentMessage == {m \in Message : SentBy(m)}

PipeMessage == SentMessage \cup {m \in Message : m.kind = "didClose"}

MessagesOK ==
  /\ pipe \in Seq(PipeMessage)
  /\ \A t \in Tool : pc[t] = "new" => answer[t] = NoAnswer
  /\ \A t \in lost : pc[t] \notin {"new", "read"}
  /\ \A k \in Conn :
       /\ queue[k] \in Seq(SentMessage)
       /\ \A m \in Message : Holds(k, m) => SentBy(m)
       /\ hpc[k] = "asked" => cur[k] \in Tool /\ pc[cur[k]] \in {"asking", "done"}
       /\ k \notin used => queue[k] = << >> /\ hpc[k] = "idle"

\* Document d is open at the server before it reads message i of queue q, if
\* it is open now just when s holds.
OpenAt(q, s, d, i) ==
  \/ \E j \in 1 .. i - 1 :
       /\ About(q[j], "didOpen", d)
       /\ \A l \in j + 1 .. i - 1 : ~About(q[l], "didClose", d)
  \/ s /\ \A l \in 1 .. i - 1 : ~About(q[l], "didClose", d)

IsOpen(d) == server[d] # Closed

OpenBefore(d, i) == OpenAt(pipe, IsOpen(d), d, i)

\* It will be open when the server has read all there is.
WillBeOpen(d) == OpenBefore(d, Len(pipe) + 1)

At(k, places, d) == hpc[k] \in places /\ doc[cur[k]] = d

\* Nobody closes documents: a handler that opens a document finds it marked;
\* the server has never heard of a document that is not marked, and a document
\* that is marked will be open or is being opened.
MarkedOnly ==
  /\ \A k \in Conn : hpc[k] \in {"refresh", "open"} => doc[cur[k]] \in openDocs
  /\ \A d \in Doc :
       /\ d \notin openDocs =>
            /\ ~IsOpen(d)
            /\ \A i \in 1 .. Len(pipe) : ~About(pipe[i], "didOpen", d)
       /\ d \in openDocs =>
            WillBeOpen(d) \/ \E k \in Conn : At(k, {"refresh", "open"}, d)

\* One connection: what is marked will be open, except for the document that
\* its handler has at hand; a document is opened only where it is closed.
Serial ==
  /\ \A k \in Conn, d \in Doc :
       /\ At(k, {"refresh"}, d) => d \in openDocs /\ WillBeOpen(d)
       /\ At(k, {"open"}, d)    => d \in openDocs /\ ~WillBeOpen(d)
       /\ At(k, {"close"}, d)   => d \notin openDocs
  /\ \A d \in Doc :
       (\A k \in Conn : ~At(k, {"open", "close"}, d))
         => (WillBeOpen(d) <=> d \in openDocs)
  /\ \A d \in Doc, i \in 1 .. Len(pipe) :
       About(pipe[i], "didOpen", d) => ~OpenBefore(d, i)
  /\ reopened = {}

\* A text v is none that tool t may not be answered from.
Fresh(t, v) == \E old \in unsent[t] : v >= old

\* One connection: the didOpen of a tool is ahead of its question, and a
\* didOpen with a text that is too old for a tool is ahead of the tool's own.
InOrder ==
  /\ \A t \in Tool, k \in Conn : NotBehind(k, Msg("didOpen", t), Msg("ask", t))
  /\ \A t, u \in Tool :
       doc[t] = doc[u] /\ Sent(t) /\ Started(u) /\ ~Fresh(t, text[u]) =>
         /\ pc[u] # "read"
         /\ \A k \in Conn : NotBehind(k, Msg("didOpen", u), Msg("didOpen", t))
         /\ Pending(Msg("didOpen", u)) => Pending(Msg("didOpen", t))

\* The text of a tool is fresh for itself, and so is what its file holds and
\* what a tool has read and not sent; and what the server has of the document
\* once it has read the tool's didOpen.
FreshTexts ==
  \A t \in Tool :
    /\ Started(t) =>
         /\ Fresh(t, text[t]) /\ Fresh(t, disk[doc[t]])
         /\ \A u \in Tool : doc[u] = doc[t] /\ pc[u] = "read" => Fresh(t, text[u])
    /\ Sent(t) /\ ~Pending(Msg("didOpen", t)) /\ IsOpen(doc[t]) =>
         Fresh(t, server[doc[t]])

\* One connection and nobody closes: a document is marked when the handler
\* has seen the didOpen of a tool, and open where the server reads a question.
AskedOpen ==
  /\ \A t \in Tool :
       Sent(t) /\ (\A k \in Conn : ~In(queue[k], Msg("didOpen", t)))
         => doc[t] \in openDocs
  /\ \A d \in Doc, i \in 1 .. Len(pipe) :
       About(pipe[i], "ask", d) /\ pipe[i].who \notin lost => OpenBefore(d, i)

DocInv ==
  /\ Types /\ MessagesOK
  /\ NobodyCloses => MarkedOnly
  /\ OneConnection => Serial /\ InOrder /\ FreshTexts
  /\ OneConnection /\ NobodyCloses => AskedOpen
  /\ AnswerIsFresh

-----------------------------------------------------------------------------
(* Queues. *)

\* One more message on a queue.
LEMMA QueueAdded ==
  ASSUME NEW S, NEW q \in Seq(S), NEW e \in S, NEW m, NEW n, m # n
  PROVE  LET p == Append(q, e)
         IN  /\ In(p, m) <=> In(q, m) \/ m = e
             /\ Order(q, m, n) /\ (m = e => ~In(q, n)) => Order(p, m, n)
<1> DEFINE p == Append(q, e)
           l == Len(q)
<1>1. /\ l \in Nat /\ Len(p) = l + 1 /\ p[l + 1] = e
      /\ \A i \in 1 .. l : p[i] = q[i]
  OBVIOUS
<1> HIDE DEF p, l
<1>2. /\ l + 1 \in 1 .. Len(p) /\ \A i \in 1 .. l : i \in 1 .. Len(p)
      /\ \A i \in 1 .. Len(p) : i \in 1 .. l \/ i = l + 1
      /\ \A i \in 1 .. l : i < l + 1
  BY <1>1
<1>3. In(p, m) <=> In(q, m) \/ m = e
  BY <1>1, <1>2 DEF In, l
<1>4. Order(q, m, n) /\ (m = e => ~In(q, n)) => Order(p, m, n)
  BY <1>1, <1>2 DEF Order, In, l
<1> QED
  BY <1>3, <1>4 DEF p

\* The first message of a queue is taken.
LEMMA QueueTaken ==
  ASSUME NEW S, NEW q \in Seq(S), q # << >>, NEW m, NEW n
  PROVE  LET p == Tail(q)
         IN  /\ p \in Seq(S) /\ Head(q) \in S
             /\ In(q, m) <=> In(p, m) \/ m = Head(q)
             /\ Order(q, m, n) => Order(p, m, n) /\ (Head(q) = n => ~In(p, m))
<1> DEFINE p == Tail(q)
           e == Head(q)
           l == Len(p)
<1>1. /\ e \in S /\ p \in Seq(S) /\ l \in Nat /\ Len(q) = l + 1 /\ q[1] = e
      /\ \A i \in 1 .. l : q[i + 1] = p[i]
  OBVIOUS
<1> HIDE DEF p, e, l
<1>2. /\ 1 \in 1 .. Len(q)
      /\ \A i \in 1 .. l : i + 1 \in 1 .. Len(q) /\ ~(i + 1 < 1)
      /\ \A i \in 1 .. Len(q) : i = 1 \/ (i - 1 \in 1 .. l /\ q[i] = p[i - 1])
      /\ \A i, j \in 1 .. l : j + 1 < i + 1 => j < i
  BY <1>1
<1>3. In(q, m) <=> In(p, m) \/ m = e
  <2>1. ASSUME In(q, m) PROVE In(p, m) \/ m = e
    <3>1. PICK i \in 1 .. Len(q) : q[i] = m
      BY <2>1 DEF In
    <3> QED
      BY <1>1, <1>2, <3>1 DEF In, l
  <2>2. In(p, m) => In(q, m)
    BY <1>1, <1>2 DEF In, l
  <2>3. In(q, e)
    BY <1>1, <1>2 DEF In
  <2> QED
    BY <2>1, <2>2, <2>3
<1>4. ASSUME Order(q, m, n) PROVE Order(p, m, n) /\ (e = n => ~In(p, m))
  <2>1. Order(p, m, n)
    <3>1. ASSUME NEW i \in 1 .. l, NEW j \in 1 .. l, p[i] = n, p[j] = m
          PROVE  j < i
      <4>1. /\ i + 1 \in 1 .. Len(q) /\ q[i + 1] = n
            /\ j + 1 \in 1 .. Len(q) /\ q[j + 1] = m
        BY <1>1, <1>2, <3>1
      <4> QED
        BY <1>2, <1>4, <4>1 DEF Order
    <3> QED
      BY <3>1 DEF Order, l
  <2>2. ASSUME e = n, NEW j \in 1 .. l, p[j] = m PROVE FALSE
    <3>1. /\ 1 \in 1 .. Len(q) /\ q[1] = n
          /\ j + 1 \in 1 .. Len(q) /\ q[j + 1] = m
      BY <1>1, <1>2, <2>2
    <3>2. j + 1 < 1
      BY <1>4, <3>1 DEF Order
    <3> QED
      BY <1>2, <3>2
  <2> QED
    BY <2>1, <2>2 DEF In, l
<1> QED
  BY <1>1, <1>3, <1>4 DEF p, e

\* One more message written to the server.
LEMMA PipeWritten ==
  ASSUME pipe \in Seq(Message), NEW e \in Message, pipe' = Append(pipe, e),
         UNCHANGED <<doc, server>>, NEW d
  PROVE  /\ \A i \in 1 .. Len(pipe) + 1 : OpenBefore(d, i)' <=> OpenBefore(d, i)
         /\ WillBeOpen(d)' <=> \/ About(e, "didOpen", d)
                               \/ WillBeOpen(d) /\ ~About(e, "didClose", d)
         /\ \A i \in 1 .. Len(pipe') :
              \/ i \in 1 .. Len(pipe) /\ pipe'[i] = pipe[i]
              \/ i = Len(pipe) + 1 /\ pipe'[i] = e
<1> DEFINE n == Len(pipe)
<1>1. /\ n \in Nat /\ Len(pipe') = n + 1 /\ pipe'[n + 1] = e
      /\ \A i \in 1 .. n : pipe'[i] = pipe[i]
  OBVIOUS
<1>2. /\ \A m, k : About(m, k, d)' <=> About(m, k, d)
      /\ IsOpen(d)' <=> IsOpen(d)
  BY DEF About, IsOpen
<1> HIDE DEF n
<1>3. ASSUME NEW i \in 1 .. n + 1 PROVE OpenBefore(d, i)' <=> OpenBefore(d, i)
  <2>1. /\ \A j \in 1 .. i - 1 : j \in 1 .. n
        /\ \A j \in 1 .. i - 1 : \A l \in j + 1 .. i - 1 : l \in 1 .. n
    BY <1>1
  <2> QED
    BY <1>1, <1>2, <2>1 DEF OpenBefore, OpenAt
<1>4. WillBeOpen(d)' <=> \/ About(e, "didOpen", d)
                         \/ WillBeOpen(d) /\ ~About(e, "didClose", d)
  <2> DEFINE P(j) == About(pipe'[j], "didOpen", d)
             Q(j) == About(pipe'[j], "didClose", d)
             After == \/ \E j \in 1 .. n + 1 : P(j) /\ \A l \in j + 1 .. n + 1 : ~Q(l)
                      \/ IsOpen(d) /\ \A l \in 1 .. n + 1 : ~Q(l)
  <2>1. /\ WillBeOpen(d) <=> OpenAt(pipe, IsOpen(d), d, n + 1)
        /\ WillBeOpen(d)' <=> After
    <3>1. Len(pipe') + 1 = n + 2 /\ (n + 2) - 1 = n + 1
      BY <1>1
    <3>2. WillBeOpen(d)' <=>
            \/ \E j \in 1 .. n + 1 :
                 /\ About(pipe[j], "didOpen", d)'
                 /\ \A l \in j + 1 .. n + 1 : ~About(pipe[l], "didClose", d)'
            \/ IsOpen(d)' /\ \A l \in 1 .. n + 1 : ~About(pipe[l], "didClose", d)'
      BY <3>1 DEF WillBeOpen, OpenBefore, OpenAt
    <3>3. \A j : /\ About(pipe[j], "didOpen", d)' <=> P(j)
                 /\ About(pipe[j], "didClose", d)' <=> Q(j)
      BY <1>2
    <3>4. WillBeOpen(d) <=> OpenAt(pipe, IsOpen(d), d, n + 1)
      BY DEF WillBeOpen, OpenBefore, n
    <3> HIDE DEF P, Q
    <3> QED
      BY <1>2, <3>2, <3>3, <3>4
  <2>2. /\ (n + 1) - 1 = n /\ (n + 2) - 1 = n + 1
        /\ \A j \in 1 .. n + 1 : j \in 1 .. n \/ j = n + 1
        /\ \A j \in 1 .. n : j \in 1 .. n + 1 /\ n + 1 \in j + 1 .. n + 1
        /\ n + 1 \in 1 .. n + 1
        /\ \A j \in 1 .. n : \A l \in j + 1 .. n : l \in 1 .. n /\ l \in j + 1 .. n + 1
        /\ \A j \in 1 .. n : \A l \in j + 1 .. n + 1 : l \in j + 1 .. n \/ l = n + 1
        /\ \A l \in (n + 1) + 1 .. n + 1 : FALSE
    BY <1>1
  <2>3. OpenAt(pipe, IsOpen(d), d, n + 1) <=>
          \/ \E j \in 1 .. n : /\ About(pipe[j], "didOpen", d)
                               /\ \A l \in j + 1 .. n : ~About(pipe[l], "didClose", d)
          \/ IsOpen(d) /\ \A l \in 1 .. n : ~About(pipe[l], "didClose", d)
    BY <2>2 DEF OpenAt
  <2>5. ASSUME About(e, "didOpen", d)
        PROVE  After
    BY <1>1, <2>2, <2>5
  <2>6. ASSUME OpenAt(pipe, IsOpen(d), d, n + 1), ~About(e, "didClose", d)
        PROVE  After
    BY <1>1, <2>2, <2>3, <2>6
  <2>7. ASSUME After, ~About(e, "didOpen", d)
        PROVE  OpenAt(pipe, IsOpen(d), d, n + 1) /\ ~About(e, "didClose", d)
    BY <1>1, <2>2, <2>3, <2>7
  <2>8. About(e, "didOpen", d) => ~About(e, "didClose", d)
    BY DEF About
  <2> QED
    BY <2>1, <2>5, <2>6, <2>7, <2>8
<1>5. \A i \in 1 .. Len(pipe') : \/ i \in 1 .. n /\ pipe'[i] = pipe[i]
                                 \/ i = n + 1 /\ pipe'[i] = e
  BY <1>1
<1> QED
  BY <1>3, <1>4, <1>5 DEF n

\* The first message read, with the effect it has on the server.
LEMMA PipeRead ==
  ASSUME pipe \in Seq(Message), pipe # << >>, pipe' = Tail(pipe), doc' = doc,
         NEW d,
         IsOpen(d)' <=> \/ About(Head(pipe), "didOpen", d)
                        \/ IsOpen(d) /\ ~About(Head(pipe), "didClose", d)
  PROVE  /\ \A i \in 1 .. Len(pipe) : OpenBefore(d, i)' <=> OpenBefore(d, i + 1)
         /\ WillBeOpen(d)' <=> WillBeOpen(d)
         /\ IsOpen(d) <=> OpenBefore(d, 1)
         /\ \A i \in 1 .. Len(pipe') :
              i \in 1 .. Len(pipe) /\ i + 1 \in 1 .. Len(pipe) /\ pipe'[i] = pipe[i + 1]
         /\ 1 \in 1 .. Len(pipe) /\ pipe[1] = Head(pipe)
<1> DEFINE n == Len(pipe)
<1>1. /\ n \in Nat \ {0} /\ Len(pipe') = n - 1 /\ pipe[1] = Head(pipe)
      /\ \A i \in 1 .. n - 1 : pipe'[i] = pipe[i + 1]
  OBVIOUS
<1>2. \A m, k : About(m, k, d)' <=> About(m, k, d)
  BY DEF About
<1> HIDE DEF n
<1>3. ASSUME NEW i \in 1 .. n PROVE OpenBefore(d, i)' <=> OpenBefore(d, i + 1)
  <2>1. /\ (i + 1) - 1 = i /\ 1 \in 1 .. i
        /\ \A j \in 1 .. i - 1 : j + 1 \in 1 .. i /\ pipe'[j] = pipe[j + 1]
        /\ \A j \in 1 .. i : j = 1 \/ (j - 1 \in 1 .. i - 1 /\ pipe[j] = pipe'[j - 1])
        /\ \A j \in 1 .. i : j = 1 \/ j \in 2 .. i
        /\ \A j \in 1 .. i - 1 : \A l \in (j + 1) + 1 .. i :
             l - 1 \in j + 1 .. i - 1 /\ pipe[l] = pipe'[l - 1]
        /\ \A j \in 2 .. i : \A l \in (j - 1) + 1 .. i - 1 :
             l + 1 \in j + 1 .. i /\ pipe'[l] = pipe[l + 1]
        /\ \A l \in 1 + 1 .. i : l - 1 \in 1 .. i - 1 /\ pipe[l] = pipe'[l - 1]
        /\ \A l \in 1 .. i - 1 : l + 1 \in 1 + 1 .. i /\ l + 1 \in 1 .. i
    BY <1>1
  <2>2. OpenBefore(d, i + 1) <=>
          \/ \E j \in 1 .. i : /\ About(pipe[j], "didOpen", d)
                               /\ \A l \in j + 1 .. i : ~About(pipe[l], "didClose", d)
          \/ IsOpen(d) /\ \A l \in 1 .. i : ~About(pipe[l], "didClose", d)
    BY <2>1 DEF OpenBefore, OpenAt
  <2>3. OpenBefore(d, i)' <=>
          \/ \E j \in 1 .. i - 1 :
               /\ About(pipe'[j], "didOpen", d)
               /\ \A l \in j + 1 .. i - 1 : ~About(pipe'[l], "didClose", d)
          \/ IsOpen(d)' /\ \A l \in 1 .. i - 1 : ~About(pipe'[l], "didClose", d)
    BY <1>2 DEF OpenBefore, OpenAt
  <2>4. ASSUME NEW j \in 1 .. i - 1, About(pipe'[j], "didOpen", d),
               \A l \in j + 1 .. i - 1 : ~About(pipe'[l], "didClose", d)
        PROVE  OpenBefore(d, i + 1)
    <3>1. j + 1 \in 1 .. i /\ About(pipe[j + 1], "didOpen", d)
      BY <2>1, <2>4
    <3>2. \A l \in (j + 1) + 1 .. i : ~About(pipe[l], "didClose", d)
      BY <2>1, <2>4
    <3> QED
      BY <2>2, <3>1, <3>2
  <2>5. ASSUME IsOpen(d)', \A l \in 1 .. i - 1 : ~About(pipe'[l], "didClose", d)
        PROVE  OpenBefore(d, i + 1)
    <3>1. \A l \in 1 + 1 .. i : ~About(pipe[l], "didClose", d)
      BY <2>1, <2>5
    <3>2. CASE About(Head(pipe), "didOpen", d)
      BY <1>1, <2>1, <2>2, <3>1, <3>2
    <3>3. CASE IsOpen(d) /\ ~About(Head(pipe), "didClose", d)
      <4>1. \A l \in 1 .. i : l = 1 \/ l \in 1 + 1 .. i
        BY <1>1
      <4>2. \A l \in 1 .. i : ~About(pipe[l], "didClose", d)
        BY <1>1, <3>1, <3>3, <4>1
      <4> QED
        BY <2>2, <3>3, <4>2
    <3> QED
      BY <2>5, <3>2, <3>3
  <2>6. ASSUME NEW j \in 1 .. i, About(pipe[j], "didOpen", d),
               \A l \in j + 1 .. i : ~About(pipe[l], "didClose", d)
        PROVE  OpenBefore(d, i)'
    <3>1. CASE j = 1
      <4>1. IsOpen(d)'
        BY <1>1, <2>6, <3>1
      <4>2. \A l \in 1 .. i - 1 : ~About(pipe'[l], "didClose", d)
        BY <2>1, <2>6, <3>1
      <4> QED
        BY <2>3, <4>1, <4>2
    <3>2. CASE j # 1
      <4>1. j - 1 \in 1 .. i - 1 /\ About(pipe'[j - 1], "didOpen", d) /\ j \in 2 .. i
        BY <2>1, <2>6, <3>2
      <4>2. \A l \in (j - 1) + 1 .. i - 1 : ~About(pipe'[l], "didClose", d)
        BY <2>1, <2>6, <4>1
      <4> QED
        BY <2>3, <4>1, <4>2
    <3> QED
      BY <3>1, <3>2
  <2>7. ASSUME IsOpen(d), \A l \in 1 .. i : ~About(pipe[l], "didClose", d)
        PROVE  OpenBefore(d, i)'
    <3>1. IsOpen(d)'
      BY <1>1, <2>1, <2>7
    <3>2. \A l \in 1 .. i - 1 : ~About(pipe'[l], "didClose", d)
      BY <2>1, <2>7
    <3> QED
      BY <2>3, <3>1, <3>2
  <2> QED
    BY <2>2, <2>3, <2>4, <2>5, <2>6, <2>7
<1>4. WillBeOpen(d)' <=> WillBeOpen(d)
  <2>1. Len(pipe') + 1 = n /\ n \in 1 .. n
    BY <1>1
  <2>2. \A i : i = Len(pipe') + 1 => (WillBeOpen(d)' <=> OpenBefore(d, i)')
    BY DEF WillBeOpen
  <2> QED
    BY <1>3, <2>1, <2>2 DEF WillBeOpen, n
<1>5. IsOpen(d) <=> OpenBefore(d, 1)
  <2>1. \A j \in 1 .. 1 - 1 : FALSE
    OBVIOUS
  <2> QED
    BY <2>1 DEF OpenBefore, OpenAt
<1>6. \A i \in 1 .. Len(pipe') : i \in 1 .. n /\ i + 1 \in 1 .. n
                                 /\ pipe'[i] = pipe[i + 1]
  BY <1>1
<1>7. 1 \in 1 .. n
  BY <1>1
<1> QED
  BY <1>1, <1>3, <1>4, <1>5, <1>6, <1>7 DEF n

-----------------------------------------------------------------------------
(* Types and messages. *)

PcType == {"new", "read", "opening", "opened", "asking", "done"}

\* A caller goes on, and neither starts nor reads its file.
Onward ==
  \A p \in Caller :
    /\ pc'[p] = "new" <=> pc[p] = "new"
    /\ pc'[p] = "read" <=> pc[p] = "read"
    /\ pc[p] \in {"asking", "done"} => pc'[p] \in {"asking", "done"}

\* A handler that answers lets its caller go on.
LEMMA DoneOnward ==
  ASSUME Types, NEW k \in Conn, Done(k)
  PROVE  /\ pc' \in [Caller -> PcType] /\ Onward
         /\ hpc' = [hpc EXCEPT ![k] = "idle"]
<1>1. cur[k] \in Caller /\ pc \in [Caller -> PcType]
  BY DEF Types, PcType
<1>2. PICK v \in PcType :
        /\ pc' = [pc EXCEPT ![cur[k]] = v]
        /\ \/ v = pc[cur[k]]
           \/ pc[cur[k]] = "opening" /\ v \in {"opened", "done"}
           \/ pc[cur[k]] = "asking" /\ v = "done"
  <2> DEFINE v == CASE pc[cur[k]] = "opening" /\ hpc[k] = "open" -> "opened"
                    [] pc[cur[k]] = "opening" /\ hpc[k] = "close" -> "done"
                    [] pc[cur[k]] = "asking" /\ hpc[k] \in {"ask", "asked"} -> "done"
                    [] OTHER -> pc[cur[k]]
  <2>1. pc' = [pc EXCEPT ![cur[k]] = v]
    BY DEF Done
  <2>2. /\ v \in PcType
        /\ \/ v = pc[cur[k]]
           \/ pc[cur[k]] = "opening" /\ v \in {"opened", "done"}
           \/ pc[cur[k]] = "asking" /\ v = "done"
    BY <1>1 DEF PcType
  <2> HIDE DEF v
  <2> QED
    BY <2>1, <2>2
<1>3. pc' \in [Caller -> PcType] /\ Onward
  BY <1>1, <1>2 DEF Onward
<1> QED
  BY <1>3 DEF Done

\* A caller whose deadline passes goes on.
LEMMA GiveUpOnward ==
  ASSUME Types, NEW p \in Caller, GiveUp(p)
  PROVE  pc' \in [Caller -> PcType] /\ Onward
<1>1. pc \in [Caller -> PcType]
  BY DEF Types, PcType
<1>2. PICK v \in {"opened", "done"} :
        /\ pc' = [pc EXCEPT ![p] = v] /\ pc[p] \in {"opening", "asking"}
        /\ pc[p] = "asking" => v = "done"
  BY <1>1 DEF GiveUp
<1> QED
  BY <1>1, <1>2 DEF Onward, PcType

\* A request of caller p goes into the queue of connection k.
LEMMA RequestSent ==
  ASSUME Types, NEW p \in Caller, NEW kind \in {"didOpen", "didClose", "ask"},
         NEW before, NEW after \in PcType, Request(p, kind, before, after)
  PROVE  /\ pc' \in [Caller -> PcType] /\ queue' \in [Conn -> Seq(Message)]
         /\ used' \subseteq Conn
         /\ Msg(kind, p) \in Message /\ pc[p] = before
         /\ pc' = [pc EXCEPT ![p] = after]
         /\ \E k \in Conn :
              /\ queue' = [queue EXCEPT ![k] = Append(@, Msg(kind, p))]
              /\ used' = used \cup {k}
<1>1. pc \in [Caller -> PcType] /\ queue \in [Conn -> Seq(Message)]
      /\ used \subseteq Conn
  BY DEF Types, PcType
<1>2. Msg(kind, p) \in Message
  BY DEF Msg, Message
<1>3. PICK k \in Conn : /\ queue' = [queue EXCEPT ![k] = Append(@, Msg(kind, p))]
                        /\ used' = used \cup {k}
  BY DEF Request, Msg
<1>4. queue' \in [Conn -> Seq(Message)]
  <2>1. Append(queue[k], Msg(kind, p)) \in Seq(Message)
    BY <1>1, <1>2
  <2> QED
    BY <1>1, <1>3, <2>1
<1>5. pc[p] = before /\ pc' = [pc EXCEPT ![p] = after]
  BY DEF Request
<1> QED
  BY <1>1, <1>2, <1>3, <1>4, <1>5

\* The handler of connection k takes message m.
LEMMA MessageTaken ==
  ASSUME Types, NEW k \in Conn, Take(k)
  PROVE  LET m == Head(queue[k])
         IN  /\ m \in Message /\ hpc[k] = "idle" /\ queue[k] # << >>
             /\ queue' = [queue EXCEPT ![k] = Tail(@)]
             /\ queue' \in [Conn -> Seq(Message)]
             /\ cur' = [cur EXCEPT ![k] = m.who] /\ m.who \in Caller
             /\ \E h \in {"refresh", "open", "close", "ask"} :
                  /\ hpc' = [hpc EXCEPT ![k] = h]
                  /\ \/ /\ m.kind = "didOpen"
                        /\ h = IF doc[m.who] \in openDocs THEN "refresh" ELSE "open"
                        /\ openDocs' = openDocs \cup {doc[m.who]}
                     \/ /\ m.kind = "didClose" /\ h = "close"
                        /\ openDocs' = openDocs \ {doc[m.who]}
                     \/ m.kind = "ask" /\ h = "ask" /\ openDocs' = openDocs
<1> DEFINE m == Head(queue[k])
           h == CASE m.kind = "didOpen"  -> IF doc[m.who] \in openDocs THEN "refresh"
                                                                    ELSE "open"
                  [] m.kind = "didClose" -> "close"
                  [] m.kind = "ask"      -> "ask"
<1>1. queue \in [Conn -> Seq(Message)] /\ queue[k] # << >>
      /\ queue' = [queue EXCEPT ![k] = Tail(@)]
      /\ cur' = [cur EXCEPT ![k] = m.who] /\ Mark(m)
      /\ hpc' = [hpc EXCEPT ![k] = h] /\ hpc[k] = "idle"
  BY DEF Types, Take
<1>2. m \in Message /\ Tail(queue[k]) \in Seq(Message)
  BY <1>1
<1>3. queue' \in [Conn -> Seq(Message)]
  BY <1>1, <1>2
<1>4. m.who \in Caller /\ m.kind \in {"didOpen", "didClose", "ask"}
  BY <1>2 DEF Message
<1>5. /\ h \in {"refresh", "open", "close", "ask"}
      /\ \/ /\ m.kind = "didOpen"
            /\ h = IF doc[m.who] \in openDocs THEN "refresh" ELSE "open"
            /\ openDocs' = openDocs \cup {doc[m.who]}
         \/ /\ m.kind = "didClose" /\ h = "close"
            /\ openDocs' = openDocs \ {doc[m.who]}
         \/ m.kind = "ask" /\ h = "ask" /\ openDocs' = openDocs
  <2> HIDE DEF m
  <2>1. CASE m.kind = "didOpen"
    <3>1. h = IF doc[m.who] \in openDocs THEN "refresh" ELSE "open"
      BY <2>1
    <3>2. openDocs' = openDocs \cup {doc[m.who]}
      BY <1>1, <2>1 DEF Mark
    <3> HIDE DEF h
    <3> QED
      BY <2>1, <3>1, <3>2
  <2>2. CASE m.kind = "didClose"
    <3>1. h = "close"
      BY <2>2
    <3>2. openDocs' = openDocs \ {doc[m.who]}
      BY <1>1, <2>2 DEF Mark
    <3> HIDE DEF h
    <3> QED
      BY <2>2, <3>1, <3>2
  <2>3. CASE m.kind = "ask"
    <3>1. h = "ask"
      BY <2>3
    <3>2. openDocs' = openDocs
      BY <1>1, <2>3 DEF Mark
    <3> HIDE DEF h
    <3> QED
      BY <2>3, <3>1, <3>2
  <2> QED
    BY <1>4, <2>1, <2>2, <2>3
<1> QED
  BY <1>1, <1>2, <1>3, <1>4, <1>5

\* Nothing is written but to the queues and the pipe; the handlers at most
\* stop waiting for an answer.
Calm ==
  /\ pc' \in [Caller -> PcType] /\ Onward
  /\ \/ hpc' = hpc
     \/ \E k \in Conn : hpc[k] = "asked" /\ hpc' = [hpc EXCEPT ![k] = "idle"]

\* In a calm step the handlers keep what they have in hand.
LEMMA CalmStep ==
  ASSUME Types, Calm, UNCHANGED <<doc, cur>>
  PROVE  /\ hpc' \in [Conn -> {"idle", "refresh", "open", "close", "ask", "asked"}]
         /\ \A k \in Conn :
              /\ hpc'[k] = "asked" => hpc[k] = "asked"
              /\ hpc[k] = "idle" => hpc'[k] = "idle"
              /\ \A m : Holds(k, m)' <=> Holds(k, m)
              /\ \A d : \A places \in SUBSET {"refresh", "open", "close"} :
                   At(k, places, d)' <=> At(k, places, d)
<1>1. hpc \in [Conn -> {"idle", "refresh", "open", "close", "ask", "asked"}]
  BY DEF Types
<1>2. /\ hpc' \in [Conn -> {"idle", "refresh", "open", "close", "ask", "asked"}]
      /\ \A k \in Conn : \/ hpc'[k] = hpc[k]
                         \/ hpc[k] = "asked" /\ hpc'[k] = "idle"
  BY <1>1 DEF Calm
<1>3. ASSUME NEW k \in Conn
      PROVE  /\ hpc'[k] = "asked" => hpc[k] = "asked"
             /\ hpc[k] = "idle" => hpc'[k] = "idle"
  BY <1>2
<1>4. ASSUME NEW k \in Conn, NEW m PROVE Holds(k, m)' <=> Holds(k, m)
  <2>1. \A place \in {"refresh", "open", "close", "ask"} :
          hpc'[k] = place <=> hpc[k] = place
    BY <1>2
  <2> QED
    BY <2>1 DEF Holds
<1>5. ASSUME NEW k \in Conn, NEW d, NEW places \in SUBSET {"refresh", "open", "close"}
      PROVE  At(k, places, d)' <=> At(k, places, d)
  <2>1. hpc'[k] \in places <=> hpc[k] \in places
    BY <1>2
  <2> QED
    BY <2>1 DEF At
<1> QED
  BY <1>2, <1>3, <1>4, <1>5

\* What callers have sent stays sent when they go on.
LEMMA OnwardStep ==
  ASSUME Types, Onward, DocumentConstants, UNCHANGED lost
  PROVE  /\ \A m \in Message : SentBy(m) => SentBy(m)'
         /\ \A t \in Tool : (Sent(t)' <=> Sent(t)) /\ (Started(t)' <=> Started(t))
         /\ NobodyCloses' <=> NobodyCloses
<1>1. ASSUME NEW m \in Message, SentBy(m) PROVE SentBy(m)'
  <2>1. m.who \in Caller
    BY DEF Message
  <2> QED
    BY <1>1, <2>1 DEF SentBy, Sent, Onward, Caller
<1>2. \A t \in Tool : (Sent(t)' <=> Sent(t)) /\ (Started(t)' <=> Started(t))
  BY DEF Sent, Started, Onward, Caller
<1>3. NobodyCloses' <=> NobodyCloses
  BY DEF NobodyCloses, Onward, Caller
<1> QED
  BY <1>1, <1>2, <1>3

\* A queue of messages of a set is one of any larger set.
LEMMA SeqGrows ==
  ASSUME NEW S, NEW T, S \subseteq T, NEW q \in Seq(S)
  PROVE  q \in Seq(T)
OBVIOUS

\* One connection: when one handler has something to do, no other has.
LEMMA OneBusy ==
  ASSUME Types, MessagesOK, OneConnection,
         NEW k \in Conn, hpc[k] # "idle" \/ queue[k] # << >>,
         NEW l \in Conn, l # k
  PROVE  /\ hpc[l] = "idle" /\ queue[l] = << >>
         /\ \A m : ~Holds(l, m) /\ ~In(queue[l], m)
         /\ \A places, d : At(l, places, d) => "idle" \in places
<1>1. k \in used /\ (l \in used => l = k)
  BY DEF MessagesOK, OneConnection
<1>2. hpc[l] = "idle" /\ queue[l] = << >>
  BY <1>1 DEF MessagesOK
<1>3. \A m : ~Holds(l, m)
  BY <1>2 DEF Holds
<1>4. \A m : ~In(queue[l], m)
  BY <1>2 DEF In
<1> QED
  BY <1>2, <1>3, <1>4 DEF At

\* What was sent stays sent, and the handlers hold what they held.
LEMMA MessagesKept ==
  ASSUME Types, MessagesOK,
         \A m \in Message : SentBy(m) => SentBy(m)',
         \A k \in Conn : \A m \in Message : Holds(k, m)' => Holds(k, m)
  PROVE  /\ SentMessage \subseteq SentMessage'
         /\ PipeMessage \subseteq PipeMessage'
         /\ pipe \in Seq(PipeMessage')
         /\ \A k \in Conn : queue[k] \in Seq(SentMessage')
         /\ \A k \in Conn : \A m \in Message : Holds(k, m)' => SentBy(m)'
<1>1. SentMessage \subseteq SentMessage'
  BY DEF SentMessage
<1>2. PipeMessage \subseteq PipeMessage'
  BY <1>1 DEF PipeMessage
<1>3. pipe \in Seq(PipeMessage')
  <2>1. pipe \in Seq(PipeMessage)
    BY DEF MessagesOK
  <2> QED
    BY <1>2, <2>1, SeqGrows
<1>4. \A k \in Conn : queue[k] \in Seq(SentMessage')
  <2>1. \A k \in Conn : queue[k] \in Seq(SentMessage)
    BY DEF MessagesOK
  <2> QED
    BY <1>1, <2>1, SeqGrows
<1>5. \A k \in Conn : \A m \in Message : Holds(k, m)' => SentBy(m)'
  BY DEF MessagesOK
<1> QED
  BY <1>1, <1>2, <1>3, <1>4, <1>5

\* Nobody has a message in the queues or the pipe, or in hand, that was not
\* sent, but for the didClose that is written before a didOpen.
LEMMA OnlySent ==
  ASSUME Types, MessagesOK, NEW m \in Message, ~SentBy(m), m.kind # "didClose"
  PROVE  ~In(pipe, m) /\ \A l \in Conn : ~In(queue[l], m) /\ ~Holds(l, m)
<1>1. ~In(pipe, m)
  <2>1. \A i \in 1 .. Len(pipe) : pipe[i] \in PipeMessage
    BY DEF MessagesOK
  <2> QED
    BY <2>1 DEF In, PipeMessage, SentMessage
<1>2. ASSUME NEW l \in Conn PROVE ~In(queue[l], m)
  <2>1. \A i \in 1 .. Len(queue[l]) : queue[l][i] \in SentMessage
    BY DEF MessagesOK
  <2> QED
    BY <2>1 DEF In, SentMessage
<1>3. \A l \in Conn : ~Holds(l, m)
  BY DEF MessagesOK
<1> QED
  BY <1>1, <1>2, <1>3

-----------------------------------------------------------------------------
(* Steps that keep the queues and what is written. *)

\* Edits, deadlines and steps that change nothing.
LEMMA RestsStep ==
  ASSUME DocInv, DocumentConstants, Calm, disk' \in [Doc -> Version],
         \A d \in Doc : disk'[d] >= disk[d],
         UNCHANGED <<doc, text, answer, queue, cur, openDocs, pipe, server,
                     history>>
  PROVE  DocInv'
<1> USE DEF history
<1>1. Types /\ MessagesOK
  BY DEF DocInv
<1>2. /\ \A m \in Message : SentBy(m) => SentBy(m)'
      /\ \A t \in Tool : (Sent(t)' <=> Sent(t)) /\ (Started(t)' <=> Started(t))
      /\ NobodyCloses' <=> NobodyCloses
  BY <1>1, OnwardStep DEF Calm
<1>3. /\ hpc' \in [Conn -> {"idle", "refresh", "open", "close", "ask", "asked"}]
      /\ \A k \in Conn :
           /\ hpc'[k] = "asked" => hpc[k] = "asked"
           /\ hpc[k] = "idle" => hpc'[k] = "idle"
           /\ \A m : Holds(k, m)' <=> Holds(k, m)
           /\ \A d : \A places \in SUBSET {"refresh", "open", "close"} :
                At(k, places, d)' <=> At(k, places, d)
  BY <1>1, CalmStep
<1>4. OneConnection' <=> OneConnection
  BY DEF OneConnection
<1>5. Types'
  BY <1>1, <1>3 DEF Types, Calm, PcType
<1>6. MessagesOK'
  BY <1>1, <1>2, <1>3, MessagesKept DEF MessagesOK, Types, Calm, Onward, Caller
<1>7. ASSUME MarkedOnly PROVE MarkedOnly'
  <2>1. \A k \in Conn : hpc'[k] \in {"refresh", "open"} => hpc[k] \in {"refresh", "open"}
    BY <1>1 DEF Calm, Types
  <2>2. \A d : WillBeOpen(d)' <=> WillBeOpen(d)
    BY DEF WillBeOpen, OpenBefore, OpenAt, About, IsOpen
  <2>3. \A d : IsOpen(d)' <=> IsOpen(d)
    BY DEF IsOpen
  <2>4. \A m, kind, d : About(m, kind, d)' <=> About(m, kind, d)
    BY DEF About
  <2>5. \A k \in Conn : \A d : At(k, {"refresh", "open"}, d) => At(k, {"refresh", "open"}, d)'
    BY <1>3
  <2> QED
    BY <1>7, <2>1, <2>2, <2>3, <2>4, <2>5 DEF MarkedOnly
<1>8. ASSUME Serial PROVE Serial'
  <2>1. \A d : WillBeOpen(d)' <=> WillBeOpen(d)
    BY DEF WillBeOpen, OpenBefore, OpenAt, About, IsOpen
  <2>2. \A d, i : OpenBefore(d, i)' <=> OpenBefore(d, i)
    BY DEF OpenBefore, OpenAt, About, IsOpen
  <2>3. \A m, kind, d : About(m, kind, d)' <=> About(m, kind, d)
    BY DEF About
  <2>4. \A k \in Conn : \A d :
          /\ At(k, {"refresh"}, d)' <=> At(k, {"refresh"}, d)
          /\ At(k, {"open"}, d)' <=> At(k, {"open"}, d)
          /\ At(k, {"close"}, d)' <=> At(k, {"close"}, d)
          /\ At(k, {"open", "close"}, d)' <=> At(k, {"open", "close"}, d)
    BY <1>3
  <2> QED
    BY <1>8, <2>1, <2>2, <2>3, <2>4 DEF Serial
<1>9. /\ \A m : Pending(m)' <=> Pending(m)
      /\ \A k \in Conn : \A m, n : NotBehind(k, m, n)' <=> NotBehind(k, m, n)
  BY <1>3 DEF Pending, NotBehind, In, Order
<1>10. \A t, v : Fresh(t, v)' <=> Fresh(t, v)
  BY DEF Fresh
<1>11. \A t \in Tool : (pc'[t] = "new" <=> pc[t] = "new") /\ (pc'[t] = "read" <=> pc[t] = "read")
  BY DEF Calm, Onward, Caller
<1>12. InOrder => InOrder'
  BY <1>2, <1>9, <1>10, <1>11 DEF InOrder
<1>13. ASSUME FreshTexts PROVE FreshTexts'
  <2>1. ASSUME NEW t \in Tool, Fresh(t, disk[doc[t]]) PROVE Fresh(t, disk'[doc[t]])
    <3>1. doc[t] \in Doc /\ disk[doc[t]] \in Nat /\ disk'[doc[t]] \in Nat
          /\ unsent[t] \in SUBSET Nat /\ disk'[doc[t]] >= disk[doc[t]]
      BY <1>1 DEF Types, Version, DocumentConstants, Caller
    <3> QED
      BY <2>1, <3>1 DEF Fresh
  <2>2. \A d : IsOpen(d)' <=> IsOpen(d)
    BY DEF IsOpen
  <2> QED
    BY <1>2, <1>9, <1>10, <1>11, <1>13, <2>1, <2>2 DEF FreshTexts
<1>14. ASSUME AskedOpen PROVE AskedOpen'
  <2>1. \A d, i : OpenBefore(d, i)' <=> OpenBefore(d, i)
    BY DEF OpenBefore, OpenAt, About, IsOpen
  <2>2. \A m, kind, d : About(m, kind, d)' <=> About(m, kind, d)
    BY DEF About
  <2> QED
    BY <1>2, <1>14, <2>1, <2>2 DEF AskedOpen, In
<1>15. AnswerIsFresh => AnswerIsFresh'
  BY <1>2, <1>4 DEF AnswerIsFresh
<1> QED
  BY <1>2, <1>4, <1>5, <1>6, <1>7, <1>8, <1>12, <1>13, <1>14, <1>15 DEF DocInv

\* What is open, and will be, depends on the pipe and the server.
LEMMA PipeKept ==
  ASSUME UNCHANGED <<doc, pipe, server>>
  PROVE  /\ \A m, kind, d : About(m, kind, d)' <=> About(m, kind, d)
         /\ \A d : IsOpen(d)' <=> IsOpen(d)
         /\ \A d, i : OpenBefore(d, i)' <=> OpenBefore(d, i)
         /\ \A d : WillBeOpen(d)' <=> WillBeOpen(d)
BY DEF WillBeOpen, OpenBefore, OpenAt, About, IsOpen

\* A caller goes on, and nothing else of what the handlers and the server see
\* changes: MarkedOnly and Serial stay true.
LEMMA MarksKept ==
  ASSUME UNCHANGED <<doc, hpc, cur, openDocs, pipe, server, reopened>>
  PROVE  /\ MarkedOnly => MarkedOnly'
         /\ Serial => Serial'
<1>1. \A k, places, d : At(k, places, d)' <=> At(k, places, d)
  BY DEF At
<1>2. MarkedOnly => MarkedOnly'
  BY <1>1, PipeKept DEF MarkedOnly
<1>3. Serial => Serial'
  BY <1>1, PipeKept DEF Serial
<1> QED
  BY <1>2, <1>3

\* A tool reads its file.
LEMMA ReadsStep ==
  ASSUME DocInv, DocumentConstants, NEW t \in Tool, ReadFile(t)
  PROVE  DocInv'
<1> USE DEF handlers
<1>1. Types /\ MessagesOK /\ pc[t] = "new" /\ t \in Caller
  BY DEF DocInv, ReadFile, Caller
<1>2. /\ doc[t] \in Doc /\ disk[doc[t]] \in Version
      /\ unsent' = [unsent EXCEPT ![t] = Unsent(t)]
      /\ text' = [text EXCEPT ![t] = disk[doc[t]]]
      /\ pc' = [pc EXCEPT ![t] = "read"]
  BY <1>1 DEF Types, ReadFile
<1>3. Unsent(t) \in SUBSET Version
  BY <1>1, <1>2 DEF Unsent, Types
<1>4. /\ \A p \in Caller : pc'[p] = IF p = t THEN "read" ELSE pc[p]
      /\ \A u \in Tool : /\ text'[u] = IF u = t THEN disk[doc[t]] ELSE text[u]
                         /\ unsent'[u] = IF u = t THEN Unsent(t) ELSE unsent[u]
  BY <1>1, <1>2 DEF Types
<1>5. Types'
  BY <1>1, <1>2, <1>3 DEF Types, ReadFile
<1>6. \A m \in Message : SentBy(m) => SentBy(m)'
  BY <1>1, <1>4 DEF SentBy, Sent, Caller, Message, DocumentConstants, ReadFile
<1>7. \A k \in Conn : \A m : Holds(k, m)' <=> Holds(k, m)
  BY DEF Holds, ReadFile
<1>8. MessagesOK'
  <2>1. \A k \in Conn : hpc[k] = "asked" => /\ cur[k] \in Tool
                                            /\ pc'[cur[k]] \in {"asking", "done"}
    BY <1>1, <1>4 DEF MessagesOK, Caller
  <2>2. \A u \in Tool : pc'[u] = "new" => pc[u] = "new"
    BY <1>4 DEF Caller
  <2> QED
    BY <1>1, <1>6, <1>7, <2>1, <2>2, MessagesKept DEF MessagesOK, ReadFile
<1>9. NobodyCloses' <=> NobodyCloses
  BY <1>1, <1>4 DEF NobodyCloses, Caller, DocumentConstants
<1>10. (MarkedOnly => MarkedOnly') /\ (Serial => Serial')
  BY MarksKept DEF ReadFile
<1>11. OneConnection' <=> OneConnection
  BY DEF OneConnection, ReadFile
<1>12. /\ \A u \in Tool : Sent(u)' <=> Sent(u)
       /\ \A u \in Tool : /\ pc'[u] = "read" <=> u = t \/ pc[u] = "read"
                          /\ Started(u)' <=> u = t \/ Started(u)
       /\ ~Sent(t)
  BY <1>1, <1>4 DEF Sent, Started, MessagesOK, ReadFile, Caller
<1>13. /\ \A m : Pending(m)' <=> Pending(m)
       /\ \A k \in Conn : \A m, n : NotBehind(k, m, n)' <=> NotBehind(k, m, n)
  BY <1>7 DEF Pending, NotBehind, In, Order, ReadFile
<1>14. \A u \in Tool : \A v : u # t => (Fresh(u, v)' <=> Fresh(u, v))
  BY <1>4 DEF Fresh
<1>15. ASSUME InOrder, FreshTexts PROVE InOrder'
  <2>1. ASSUME NEW s \in Tool, NEW u \in Tool, doc[s] = doc[u], Sent(s), Started(u)',
               ~Fresh(s, text'[u])
        PROVE  /\ pc'[u] # "read"
               /\ \A k \in Conn : NotBehind(k, Msg("didOpen", u), Msg("didOpen", s))
               /\ Pending(Msg("didOpen", u)) => Pending(Msg("didOpen", s))
    <3>1. Started(s) /\ s # t
      BY <1>12, <2>1 DEF Sent, Started
    <3>2. u # t
      BY <1>2, <1>4, <1>15, <2>1, <3>1 DEF FreshTexts
    <3> QED
      BY <1>4, <1>12, <1>15, <2>1, <3>1, <3>2 DEF InOrder
  <2>2. doc' = doc
    BY DEF ReadFile
  <2> QED
    BY <1>12, <1>13, <1>14, <1>15, <2>1, <2>2 DEF InOrder
<1>16. ASSUME FreshTexts PROVE FreshTexts'
  <2>1. doc' = doc /\ disk' = disk /\ server' = server
    BY DEF ReadFile
  <2>2. \A d : IsOpen(d)' <=> IsOpen(d)
    BY <2>1 DEF IsOpen
  <2>3. ASSUME NEW u \in Tool, doc[u] = doc[t], u = t \/ pc[u] = "read"
        PROVE  Fresh(t, text[u])'
    <3>1. text'[u] \in Unsent(t) /\ text'[u] \in Version
      BY <1>1, <1>2, <1>4, <2>3 DEF Unsent, Types
    <3>2. text'[u] >= text'[u]
      BY <3>1 DEF Version
    <3> QED
      BY <1>4, <3>1, <3>2 DEF Fresh
  <2>4. Fresh(t, disk[doc[t]])'
    <3>1. disk[doc[t]] = text'[t]
      BY <1>4
    <3> QED
      BY <2>1, <2>3, <3>1
  <2>5. ASSUME NEW s \in Tool, s # t, Started(s)
        PROVE  /\ Fresh(s, text'[s]) /\ Fresh(s, disk[doc[s]])
               /\ \A u \in Tool : doc[u] = doc[s] /\ (u = t \/ pc[u] = "read")
                                    => Fresh(s, text'[u])
    BY <1>4, <1>16, <2>5 DEF FreshTexts
  <2>6. ASSUME NEW s \in Tool, s # t, Started(s)
        PROVE  /\ Fresh(s, text[s])' /\ Fresh(s, disk[doc[s]])'
               /\ \A u \in Tool : doc[u] = doc[s] /\ (u = t \/ pc[u] = "read")
                                    => Fresh(s, text[u])'
    BY <1>4, <2>1, <2>5, <2>6 DEF Fresh
  <2>7. ASSUME NEW s \in Tool, Sent(s), ~Pending(Msg("didOpen", s)), IsOpen(doc[s])
        PROVE  Fresh(s, server[doc[s]])'
    <3>1. s # t /\ Fresh(s, server[doc[s]])
      BY <1>12, <1>16, <2>7 DEF FreshTexts
    <3> QED
      BY <1>14, <2>1, <3>1
  <2> QED
    BY <1>12, <1>13, <2>1, <2>2, <2>3, <2>4, <2>6, <2>7 DEF FreshTexts
<1>17. ASSUME AskedOpen PROVE AskedOpen'
  <2>1. UNCHANGED <<doc, pipe, server, queue, openDocs, lost>>
    BY DEF ReadFile
  <2> QED
    BY <1>12, <1>17, <2>1, PipeKept DEF AskedOpen, In
<1>18. AnswerIsFresh'
  <2>1. answer' = answer /\ answer[t] = NoAnswer /\ lost' = lost
    BY <1>1 DEF MessagesOK, ReadFile
  <2> QED
    BY <1>4, <1>9, <1>11, <2>1 DEF AnswerIsFresh, DocInv
<1> QED
  BY <1>5, <1>8, <1>9, <1>10, <1>11, <1>15, <1>16, <1>17, <1>18 DEF DocInv

\* A tool goes on to ask without having sent its didOpen.
LEMMA SkipsStep ==
  ASSUME DocInv, DocumentConstants, NEW t \in Tool, NEW before \in {"new", "read"},
         SkipOpen(t, before)
  PROVE  DocInv'
<1> USE DEF handlers
<1>1. Types /\ MessagesOK /\ pc[t] \in {"new", "read"} /\ t \in Caller
  BY DEF DocInv, SkipOpen, Caller
<1>2. /\ pc' = [pc EXCEPT ![t] = "opened"] /\ lost' = lost \cup {t}
      /\ UNCHANGED <<disk, doc, text, answer, handlers, openDocs, pipe, server,
                     used, reopened, unsent>>
  BY DEF SkipOpen
<1>3. \A p \in Caller : pc'[p] = IF p = t THEN "opened" ELSE pc[p]
  BY <1>1, <1>2 DEF Types
<1>4. /\ \A u \in Tool : /\ Sent(u)' <=> Sent(u)
                         /\ Started(u)' => Started(u)
                         /\ pc'[u] = "new" => pc[u] = "new"
                         /\ pc'[u] = "read" => pc[u] = "read"
      /\ ~Sent(t) /\ t \notin Closer
  BY <1>1, <1>2, <1>3 DEF Sent, Started, Caller, DocumentConstants
<1>5. Types'
  <2>1. pc' \in [Caller -> PcType]
    BY <1>1, <1>2 DEF Types, PcType
  <2> QED
    BY <1>1, <1>2, <2>1 DEF Types, PcType
<1>6. \A m \in Message : SentBy(m) => SentBy(m)'
  BY <1>1, <1>2, <1>3, <1>4 DEF SentBy, Caller, Message
<1>7. \A k \in Conn : \A m : Holds(k, m)' <=> Holds(k, m)
  BY <1>2 DEF Holds
<1>8. MessagesOK'
  <2>1. \A k \in Conn : hpc[k] = "asked" => /\ cur[k] \in Tool
                                            /\ pc'[cur[k]] \in {"asking", "done"}
    BY <1>1, <1>3 DEF MessagesOK, Caller
  <2>2. \A u \in lost' : pc'[u] \notin {"new", "read"}
    BY <1>1, <1>2, <1>3 DEF MessagesOK, Caller, Types
  <2> QED
    BY <1>1, <1>2, <1>4, <1>6, <1>7, <2>1, <2>2, MessagesKept DEF MessagesOK
<1>9. NobodyCloses' <=> NobodyCloses
  BY <1>3, <1>4 DEF NobodyCloses, Caller
<1>10. (MarkedOnly => MarkedOnly') /\ (Serial => Serial')
  BY <1>2, MarksKept
<1>11. OneConnection' <=> OneConnection
  BY <1>2 DEF OneConnection
<1>12. /\ \A m : Pending(m)' <=> Pending(m)
       /\ \A k \in Conn : \A m, n : NotBehind(k, m, n)' <=> NotBehind(k, m, n)
       /\ \A u, v : Fresh(u, v)' <=> Fresh(u, v)
  BY <1>2, <1>7 DEF Pending, NotBehind, In, Order, Fresh
<1>13. InOrder => InOrder'
  BY <1>2, <1>4, <1>12 DEF InOrder
<1>14. FreshTexts => FreshTexts'
  BY <1>2, <1>4, <1>12 DEF FreshTexts, IsOpen
<1>15. AskedOpen => AskedOpen'
  <2>1. UNCHANGED <<doc, pipe, server, queue, openDocs>> /\ lost \subseteq lost'
    BY <1>2
  <2> QED
    BY <1>4, <2>1, PipeKept DEF AskedOpen, In
<1>16. AnswerIsFresh'
  BY <1>2, <1>9, <1>11 DEF AnswerIsFresh, DocInv
<1> QED
  BY <1>5, <1>8, <1>9, <1>10, <1>11, <1>13, <1>14, <1>15, <1>16 DEF DocInv

-----------------------------------------------------------------------------
(* A caller sends a request. *)

\* The invariant holds on when a caller sends a request.
LEMMA RequestStep ==
  ASSUME DocInv, DocumentConstants, NEW p \in Caller,
         NEW kind \in {"didOpen", "didClose", "ask"}, NEW before,
         NEW after \in PcType, Request(p, kind, before, after),
         \/ kind = "didOpen" /\ p \in Tool /\ before = "read" /\ after = "opening"
         \/ kind = "ask" /\ p \in Tool /\ before = "opened" /\ after = "asking"
         \/ kind = "didClose" /\ p \in Closer /\ before = "new" /\ after = "opening"
  PROVE  DocInv'
<1> DEFINE e == Msg(kind, p)
<1>1. Types /\ MessagesOK /\ e \in Message /\ pc[p] = before
  BY RequestSent DEF DocInv
<1>2. PICK k \in Conn : /\ queue' = [queue EXCEPT ![k] = Append(@, e)]
                        /\ used' = used \cup {k}
  BY <1>1, RequestSent
<1>3. /\ pc' \in [Caller -> PcType] /\ queue' \in [Conn -> Seq(Message)]
      /\ used' \subseteq Conn
      /\ \A q \in Caller : pc'[q] = IF q = p THEN after ELSE pc[q]
      /\ queue[k] \in Seq(Message) /\ queue'[k] = Append(queue[k], e)
      /\ \A l \in Conn : l # k => queue'[l] = queue[l]
  <2>1. pc' = [pc EXCEPT ![p] = after] /\ pc \in [Caller -> PcType]
    BY <1>1, RequestSent DEF Types, PcType
  <2>2. queue \in [Conn -> Seq(Message)]
    BY <1>1 DEF Types
  <2>3. \A q \in Caller : pc'[q] = IF q = p THEN after ELSE pc[q]
    BY <2>1
  <2>4. /\ queue[k] \in Seq(Message) /\ queue'[k] = Append(queue[k], e)
        /\ \A l \in Conn : l # k => queue'[l] = queue[l]
    BY <1>2, <2>2
  <2>5. /\ pc' \in [Caller -> PcType] /\ queue' \in [Conn -> Seq(Message)]
        /\ used' \subseteq Conn
    BY <1>1, RequestSent
  <2> QED
    BY <2>3, <2>4, <2>5
<1>4. UNCHANGED <<disk, doc, text, answer, hpc, cur, openDocs, pipe, server,
                  reopened, unsent, lost>>
  BY DEF Request
<1>5. e.who = p /\ e.kind = kind
  BY DEF Msg
<1> HIDE DEF e
<1>6. Types'
  BY <1>1, <1>3, <1>4 DEF Types, PcType
<1>7. (\A m \in Message : SentBy(m) => SentBy(m)') /\ SentBy(e)'
  <2>1. SentBy(e)'
    BY <1>1, <1>3, <1>4, <1>5 DEF SentBy, Sent, MessagesOK
  <2>2. ASSUME NEW m \in Message, SentBy(m) PROVE SentBy(m)'
    BY <1>1, <1>3, <1>4, <2>2 DEF SentBy, Sent, Message, Caller, DocumentConstants
  <2> QED
    BY <2>1, <2>2
<1>8. \A l \in Conn : \A m : Holds(l, m)' <=> Holds(l, m)
  BY <1>4 DEF Holds
<1>9. MessagesOK'
  <2>1. \A l \in Conn : queue'[l] \in Seq(SentMessage')
    <3>1. \A l \in Conn : queue[l] \in Seq(SentMessage')
      BY <1>1, <1>7, <1>8, MessagesKept
    <3>2. e \in SentMessage'
      BY <1>1, <1>7 DEF SentMessage
    <3>3. queue'[k] \in Seq(SentMessage')
      <4> DEFINE q == queue[k]
      <4>1. q \in Seq(SentMessage') /\ queue'[k] = Append(q, e)
        BY <1>3, <3>1
      <4> HIDE DEF q
      <4> QED
        BY <3>2, <4>1
    <3>4. ASSUME NEW l \in Conn, l # k PROVE queue'[l] \in Seq(SentMessage')
      BY <1>3, <3>1, <3>4
    <3> QED
      BY <3>3, <3>4
  <2>2. \A l \in Conn : hpc[l] = "asked" => /\ cur[l] \in Tool
                                            /\ pc'[cur[l]] \in {"asking", "done"}
    BY <1>1, <1>3 DEF MessagesOK, Caller
  <2>3. \A l \in Conn : l \notin used' => queue'[l] = << >> /\ hpc[l] = "idle"
    BY <1>1, <1>2, <1>3 DEF MessagesOK
  <2>4. pipe \in Seq(PipeMessage')
        /\ \A l \in Conn : \A m \in Message : Holds(l, m)' => SentBy(m)'
    BY <1>1, <1>7, <1>8, MessagesKept
  <2>5. \A t \in Tool : pc'[t] = "new" => pc[t] = "new"
    BY <1>1, <1>3 DEF Caller
  <2>6. \A t \in lost' : pc'[t] \notin {"new", "read"}
    BY <1>1, <1>3, <1>4 DEF MessagesOK, Types, Caller, DocumentConstants
  <2> QED
    BY <1>1, <1>4, <2>1, <2>2, <2>3, <2>4, <2>5, <2>6 DEF MessagesOK
<1>10. NobodyCloses' => NobodyCloses
  BY <1>1, <1>3 DEF NobodyCloses, Caller
<1>11. (MarkedOnly => MarkedOnly') /\ (Serial => Serial')
  BY <1>4, MarksKept
<1>12. OneConnection' => OneConnection
  BY <1>2 DEF OneConnection
<1>13. /\ \A t \in Tool : /\ pc'[t] = "new" <=> pc[t] = "new"
                          /\ pc'[t] = "read" => pc[t] = "read"
                          /\ Started(t)' <=> Started(t)
                          /\ Sent(t)' <=> Sent(t) \/ e = Msg("didOpen", t)
       /\ \A t \in Tool : e = Msg("didOpen", t) => pc[t] = "read"
  <2>1. \A t \in Tool : e = Msg("didOpen", t) <=> kind = "didOpen" /\ p = t
    BY DEF e, Msg
  <2> QED
    BY <1>1, <1>3, <1>4, <2>1 DEF Sent, Started, MessagesOK, Caller, DocumentConstants
<1>14. ASSUME NEW m, NEW n, m # n
       PROVE  /\ In(queue'[k], m) <=> In(queue[k], m) \/ m = e
              /\ m # e /\ Order(queue[k], m, n) => Order(queue'[k], m, n)
  <2> DEFINE q == queue[k]
             r == Append(q, e)
  <2>1. q \in Seq(Message) /\ r = queue'[k] /\ e \in Message
    BY <1>1, <1>3
  <2> HIDE DEF q
  <2>2. /\ In(r, m) <=> In(q, m) \/ m = e
        /\ Order(q, m, n) /\ (m = e => ~In(q, n)) => Order(r, m, n)
    BY <1>14, <2>1, QueueAdded, Zenon
  <2> HIDE DEF r
  <2> QED
    BY <2>1, <2>2 DEF q
<1>15. \A l \in Conn : \A m : In(queue'[l], m) <=> In(queue[l], m) \/ (l = k /\ m = e)
  <2>1. ASSUME NEW m PROVE In(queue'[k], m) <=> In(queue[k], m) \/ m = e
    <3>1. \E n : m # n
      <4>1. m # "ask" \/ m # "didOpen"
        OBVIOUS
      <4> QED
        BY <4>1
    <3> QED
      BY <1>14, <3>1
  <2>2. ASSUME NEW l \in Conn, NEW m, l # k PROVE In(queue'[l], m) <=> In(queue[l], m)
    BY <1>3, <2>2
  <2>3. ASSUME NEW l \in Conn, NEW m
        PROVE  In(queue'[l], m) <=> In(queue[l], m) \/ (l = k /\ m = e)
    <3>1. CASE l = k
      BY <2>1, <3>1 DEF In
    <3>2. CASE l # k
      BY <2>2, <3>2 DEF In
    <3> QED
      BY <3>1, <3>2
  <2> QED
    BY <2>3
<1>17. \A m : Pending(m)' <=> Pending(m) \/ m = e
  <2>1. \A m : /\ In(pipe, m)' <=> In(pipe, m)
               /\ \A l \in Conn : /\ In(queue[l], m)' <=> In(queue'[l], m)
                                  /\ Holds(l, m)' <=> Holds(l, m)
    BY <1>4, <1>8 DEF In
  <2>2. ASSUME NEW m, Pending(m)' PROVE Pending(m) \/ m = e
    BY <1>15, <2>1, <2>2 DEF Pending
  <2>3. ASSUME NEW m, Pending(m) \/ m = e PROVE Pending(m)'
    BY <1>15, <2>1, <2>3, Zenon DEF Pending
  <2> QED
    BY <2>2, <2>3
<1>18. \A l \in Conn : \A m, n :
         NotBehind(l, m, n) /\ m # n /\ m # e => NotBehind(l, m, n)'
  <2>1. ASSUME NEW l \in Conn, NEW m, NEW n, m # n, m # e, Order(queue[l], m, n)
        PROVE  Order(queue'[l], m, n)
    BY <1>3, <1>14, <2>1
  <2>2. \A m, n : /\ In(pipe, m)' <=> In(pipe, m)
                  /\ Order(pipe, m, n)' <=> Order(pipe, m, n)
                  /\ \A l \in Conn : /\ In(queue[l], m)' <=> In(queue'[l], m)
                                     /\ Order(queue[l], m, n)' <=> Order(queue'[l], m, n)
                                     /\ Holds(l, m)' <=> Holds(l, m)
    BY <1>4, <1>8 DEF In, Order
  <2> QED
    BY <1>15, <2>1, <2>2 DEF NotBehind
<1>16. ASSUME NEW l \in Conn, NEW m, NEW n, m # n, n # e,
              \A j \in Conn : ~In(queue[j], n) /\ ~Holds(j, n), ~In(pipe, n)
       PROVE  NotBehind(l, m, n)' /\ NotBehind(l, m, n)
  <2>1. ~In(queue'[l], n) /\ ~In(pipe', n) /\ ~In(pipe, n)
    <3>1. pipe' = pipe
      BY <1>4
    <3> QED
      BY <1>15, <1>16, <3>1
  <2> QED
    BY <1>8, <1>16, <2>1 DEF NotBehind, Order, In
<1>19. \A m \in Message : ~SentBy(m) /\ m.kind # "didClose" =>
         ~In(pipe, m) /\ \A l \in Conn : ~In(queue[l], m) /\ ~Holds(l, m)
  BY <1>1, OnlySent
<1>20. ASSUME InOrder, FreshTexts PROVE InOrder'
  <2> USE DEF Msg
  <2>1. ASSUME NEW t \in Tool, NEW l \in Conn
        PROVE  NotBehind(l, Msg("didOpen", t), Msg("ask", t))'
    <3>1. CASE e # Msg("didOpen", t)
      BY <1>18, <1>20, <3>1 DEF InOrder
    <3>2. CASE e = Msg("didOpen", t)
      <4>1. Msg("ask", t) \in Message /\ ~SentBy(Msg("ask", t))
        BY <1>13, <3>2 DEF SentBy, Message, Caller, DocumentConstants
      <4>2. Msg("ask", t) # e
        BY <3>2
      <4> QED
        BY <1>16, <1>19, <3>2, <4>1, <4>2
    <3> QED
      BY <3>1, <3>2
  <2>2. ASSUME NEW t \in Tool, NEW u \in Tool, doc[t] = doc[u], Sent(t)', Started(u),
               ~Fresh(t, text[u])
        PROVE  /\ pc'[u] # "read"
               /\ \A l \in Conn : NotBehind(l, Msg("didOpen", u), Msg("didOpen", t))'
               /\ Pending(Msg("didOpen", u))' => Pending(Msg("didOpen", t))'
    <3>1. Started(t)
      BY <1>13, <2>2 DEF Sent, Started
    <3>2. pc[u] # "read" /\ u # t /\ pc'[u] # "read"
      BY <1>13, <1>20, <2>2, <3>1 DEF FreshTexts
    <3>3. e # Msg("didOpen", u) /\ Msg("didOpen", u) # Msg("didOpen", t)
      BY <1>13, <3>2
    <3>4. CASE e # Msg("didOpen", t)
      <4>1. Sent(t)
        BY <1>13, <2>2, <3>4
      <4>2. /\ \A l \in Conn : NotBehind(l, Msg("didOpen", u), Msg("didOpen", t))
            /\ Pending(Msg("didOpen", u)) => Pending(Msg("didOpen", t))
        BY <1>20, <2>2, <4>1 DEF InOrder
      <4> QED
        BY <1>17, <1>18, <3>2, <3>3, <4>2
    <3>5. CASE e = Msg("didOpen", t)
      <4>1. pc[t] = "read" /\ e \in Message /\ e.kind = "didOpen" /\ e.who = t
        BY <1>1, <1>13, <3>5
      <4>2. ~SentBy(e)
        BY <4>1 DEF SentBy, Sent
      <4>3. \A l \in Conn : ~In(queue[l], e) /\ ~Holds(l, e)
        BY <1>19, <4>1, <4>2
      <4>4. ASSUME NEW l \in Conn PROVE NotBehind(l, Msg("didOpen", u), e)'
        <5>1. ~In(pipe, e)
          BY <1>19, <4>1, <4>2
        <5>2. Order(queue[l], Msg("didOpen", u), e)
          BY <4>3 DEF Order, In
        <5>3. Order(queue'[l], Msg("didOpen", u), e)
          BY <1>3, <1>14, <3>3, <3>5, <5>2
        <5>4. pipe' = pipe
          BY <1>4
        <5> QED
          BY <1>8, <4>3, <5>1, <5>3, <5>4 DEF NotBehind, Order, In
      <4> QED
        BY <1>17, <3>2, <3>5, <4>4
    <3> QED
      BY <3>4, <3>5
  <2>3. /\ UNCHANGED <<doc, text>>
        /\ \A t, v : Fresh(t, v)' <=> Fresh(t, v)
    BY <1>4 DEF Fresh
  <2> HIDE DEF Msg
  <2> QED
    BY <1>13, <2>1, <2>2, <2>3 DEF InOrder
<1>21. ASSUME FreshTexts PROVE FreshTexts'
  <2>1. /\ UNCHANGED <<doc, text, disk, server>>
        /\ \A t, v : Fresh(t, v)' <=> Fresh(t, v)
        /\ \A d : IsOpen(d)' <=> IsOpen(d)
    BY <1>4 DEF Fresh, IsOpen
  <2> QED
    BY <1>13, <1>17, <1>21, <2>1 DEF FreshTexts
<1>22. ASSUME AskedOpen PROVE AskedOpen'
  <2>1. UNCHANGED <<doc, pipe, server, openDocs, lost>>
    BY <1>4
  <2>2. \A t \in Tool :
          Sent(t)' /\ (\A l \in Conn : ~In(queue'[l], Msg("didOpen", t)))
            => doc[t] \in openDocs
    BY <1>13, <1>15, <1>22 DEF AskedOpen
  <2> QED
    BY <1>22, <2>1, <2>2, PipeKept DEF AskedOpen
<1>23. AnswerIsFresh'
  BY <1>4, <1>10, <1>12 DEF AnswerIsFresh, DocInv
<1> QED
  BY <1>6, <1>9, <1>10, <1>11, <1>12, <1>20, <1>21, <1>22, <1>23 DEF DocInv

-----------------------------------------------------------------------------
(* A handler takes a request. *)

\* The invariant holds on when a handler takes a request.
LEMMA TakesStep ==
  ASSUME DocInv, DocumentConstants, NEW k \in Conn, Take(k)
  PROVE  DocInv'
<1>0. PICK m : m = Head(queue[k])
  OBVIOUS
<1> USE DEF tools, history
<1>1. Types /\ MessagesOK
  BY DEF DocInv
<1>2. UNCHANGED <<disk, doc, pc, text, answer, pipe, server, used, reopened, unsent,
                  lost>>
  BY DEF Take
<1>3. /\ m \in Message /\ hpc[k] = "idle" /\ queue[k] # << >>
      /\ queue' = [queue EXCEPT ![k] = Tail(@)]
      /\ queue' \in [Conn -> Seq(Message)]
      /\ cur' = [cur EXCEPT ![k] = m.who] /\ m.who \in Caller
  BY <1>0, <1>1, MessageTaken
<1>4. PICK h \in {"refresh", "open", "close", "ask"} :
        /\ hpc' = [hpc EXCEPT ![k] = h]
        /\ \/ /\ m.kind = "didOpen"
              /\ h = IF doc[m.who] \in openDocs THEN "refresh" ELSE "open"
              /\ openDocs' = openDocs \cup {doc[m.who]}
           \/ /\ m.kind = "didClose" /\ h = "close"
              /\ openDocs' = openDocs \ {doc[m.who]}
           \/ m.kind = "ask" /\ h = "ask" /\ openDocs' = openDocs
  BY <1>0, <1>1, MessageTaken
<1>5. /\ hpc \in [Conn -> {"idle", "refresh", "open", "close", "ask", "asked"}]
      /\ cur \in [Conn -> Caller] /\ queue \in [Conn -> Seq(Message)]
      /\ \A l \in Conn : queue[l] \in Seq(SentMessage)
  BY <1>1 DEF Types, MessagesOK
<1>6. /\ hpc'[k] = h /\ cur'[k] = m.who /\ queue'[k] = Tail(queue[k])
      /\ \A l \in Conn : l # k => /\ hpc'[l] = hpc[l] /\ cur'[l] = cur[l]
                                  /\ queue'[l] = queue[l]
  BY <1>3, <1>4, <1>5
<1>7. /\ m \in SentMessage /\ Tail(queue[k]) \in Seq(SentMessage)
      /\ \A a : In(queue[k], a) <=> In(queue'[k], a) \/ a = m
      /\ \A a, b : Order(queue[k], a, b) =>
           /\ Order(queue'[k], a, b)
           /\ m = b => ~In(queue'[k], a)
  <2> DEFINE q == queue[k]
  <2>1. q \in Seq(SentMessage) /\ q # << >> /\ m = Head(q) /\ queue'[k] = Tail(q)
    BY <1>0, <1>3, <1>5, <1>6
  <2> HIDE DEF q
  <2>2. m \in SentMessage /\ Tail(q) \in Seq(SentMessage)
    BY <2>1
  <2>3. ASSUME NEW a, NEW b
        PROVE  /\ In(q, a) <=> In(Tail(q), a) \/ a = m
               /\ Order(q, a, b) => /\ Order(Tail(q), a, b)
                                    /\ m = b => ~In(Tail(q), a)
    <3>1. /\ In(q, a) <=> In(Tail(q), a) \/ a = Head(q)
          /\ Order(q, a, b) => /\ Order(Tail(q), a, b)
                               /\ Head(q) = b => ~In(Tail(q), a)
      <4>1. q \in Seq(SentMessage) /\ q # << >>
        BY <2>1
      <4> QED
        BY <4>1, QueueTaken
    <3> QED
      BY <2>1, <3>1
  <2> QED
    BY <2>1, <2>2, <2>3 DEF q
<1>8. Types'
  <2>1. openDocs' \subseteq Doc
    BY <1>1, <1>3, <1>4 DEF Types
  <2>2. /\ hpc' \in [Conn -> {"idle", "refresh", "open", "close", "ask", "asked"}]
        /\ cur' \in [Conn -> Caller]
    BY <1>3, <1>4, <1>5
  <2> QED
    BY <1>1, <1>2, <1>3, <2>1, <2>2 DEF Types
<1>9. /\ \A l \in Conn : \A a : l # k => (Holds(l, a)' <=> Holds(l, a))
      /\ \A a : ~Holds(k, a)
      /\ \A a \in Message : Holds(k, a)' <=> a = m
  <2>1. \A l \in Conn : \A a : l # k => (Holds(l, a)' <=> Holds(l, a))
    BY <1>6 DEF Holds
  <2>2. \A a : ~Holds(k, a)
    BY <1>3 DEF Holds
  <2>3. Holds(k, m)'
    BY <1>4, <1>6 DEF Holds
  <2>4. ASSUME NEW a \in Message, Holds(k, a)' PROVE a = m
    <3>1. a.kind = m.kind /\ a.who = m.who
      BY <1>4, <1>6, <2>4 DEF Holds
    <3> QED
      BY <1>3, <3>1 DEF Message
  <2> QED
    BY <2>1, <2>2, <2>3, <2>4
<1>10. /\ SentBy(m)
       /\ SentMessage' = SentMessage /\ PipeMessage' = PipeMessage
       /\ \A a : SentBy(a)' <=> SentBy(a)
  BY <1>2, <1>7 DEF SentBy, Sent, SentMessage, PipeMessage
<1>11. MessagesOK'
  <2>1. \A l \in Conn : queue'[l] \in Seq(SentMessage)
    BY <1>5, <1>6, <1>7
  <2>2. \A l \in Conn : \A a \in Message : Holds(l, a)' => SentBy(a)
    BY <1>1, <1>9, <1>10 DEF MessagesOK
  <2>3. \A l \in Conn : hpc'[l] = "asked" => /\ cur'[l] \in Tool
                                             /\ pc[cur'[l]] \in {"asking", "done"}
    BY <1>1, <1>4, <1>6 DEF MessagesOK
  <2>4. \A l \in Conn : l \notin used => queue'[l] = << >> /\ hpc'[l] = "idle"
    BY <1>1, <1>3, <1>6 DEF MessagesOK
  <2> QED
    BY <1>1, <1>2, <1>10, <2>1, <2>2, <2>3, <2>4 DEF MessagesOK
<1>12. /\ NobodyCloses' <=> NobodyCloses
       /\ OneConnection' <=> OneConnection
  BY <1>2 DEF NobodyCloses, OneConnection
<1>13. NobodyCloses => m.kind # "didClose" /\ openDocs \subseteq openDocs'
  BY <1>4, <1>10 DEF SentBy, NobodyCloses
<1>14. /\ \A l \in Conn : l # k => \A places, d : At(l, places, d)' <=> At(l, places, d)
       /\ \A places, d : At(k, places, d)' <=> h \in places /\ d = doc[m.who]
  BY <1>2, <1>6 DEF At
<1>15. ASSUME NobodyCloses, MarkedOnly PROVE MarkedOnly'
  <2>1. \A l \in Conn : hpc'[l] \in {"refresh", "open"} => doc[cur'[l]] \in openDocs'
    BY <1>4, <1>6, <1>13, <1>15 DEF MarkedOnly
  <2>2. ASSUME NEW d \in Doc, d \in openDocs'
        PROVE  WillBeOpen(d) \/ \E l \in Conn : At(l, {"refresh", "open"}, d)'
    <3>1. CASE d \in openDocs
      <4>1. ~At(k, {"refresh", "open"}, d)
        BY <1>3 DEF At
      <4> QED
        BY <1>14, <1>15, <3>1, <4>1 DEF MarkedOnly
    <3>2. CASE d \notin openDocs
      BY <1>4, <1>14, <2>2, <3>2
    <3> QED
      BY <3>1, <3>2
  <2> QED
    BY <1>2, <1>13, <1>15, <2>1, <2>2, PipeKept DEF MarkedOnly
<1>16. ASSUME OneConnection PROVE \A l \in Conn : l # k => hpc[l] = "idle"
  BY <1>1, <1>3, <1>16, OneBusy
<1>17. ASSUME OneConnection, Serial PROVE Serial'
  <2>1. \A l \in Conn, d \in Doc : ~At(l, {"open", "close"}, d)
    BY <1>3, <1>16, <1>17 DEF At
  <2>2. \A d \in Doc : WillBeOpen(d) <=> d \in openDocs
    BY <1>17, <2>1 DEF Serial
  <2>3. ASSUME NEW l \in Conn, NEW places \in SUBSET {"refresh", "open", "close"},
               NEW d, l # k
        PROVE  ~At(l, places, d)'
    BY <1>6, <1>16, <1>17, <2>3 DEF At
  <2>4. ASSUME NEW d \in Doc
        PROVE  /\ At(k, {"refresh"}, d)' => d \in openDocs' /\ WillBeOpen(d)
               /\ At(k, {"open"}, d)' => d \in openDocs' /\ ~WillBeOpen(d)
               /\ At(k, {"close"}, d)' => d \notin openDocs'
               /\ ~At(k, {"open", "close"}, d)' => (WillBeOpen(d) <=> d \in openDocs')
    BY <1>4, <1>14, <2>2
  <2>5. \A l \in Conn, d \in Doc :
          /\ At(l, {"refresh"}, d)' => d \in openDocs' /\ WillBeOpen(d)
          /\ At(l, {"open"}, d)' => d \in openDocs' /\ ~WillBeOpen(d)
          /\ At(l, {"close"}, d)' => d \notin openDocs'
    BY <2>3, <2>4
  <2>6. \A d \in Doc : (\A l \in Conn : ~At(l, {"open", "close"}, d)')
                         => (WillBeOpen(d) <=> d \in openDocs')
    BY <2>4
  <2> QED
    BY <1>2, <1>17, <2>5, <2>6, PipeKept DEF Serial
<1>18. \A a \in Message : Pending(a)' <=> Pending(a)
  <2>1. ASSUME NEW a \in Message
        PROVE  (\E l \in Conn : In(queue'[l], a) \/ Holds(l, a)')
                 <=> \E l \in Conn : In(queue[l], a) \/ Holds(l, a)
    <3>1. ASSUME NEW l \in Conn
          PROVE  In(queue'[l], a) \/ Holds(l, a)' <=> In(queue[l], a) \/ Holds(l, a)
      <4>1. CASE l = k
        BY <1>7, <1>9, <4>1
      <4>2. CASE l # k
        BY <1>6, <1>9, <4>2
      <4> QED
        BY <4>1, <4>2
    <3> QED
      BY <3>1
  <2> QED
    BY <1>2, <2>1 DEF Pending
<1>19. ASSUME NEW l \in Conn, NEW a \in Message, NEW b \in Message, a # b,
              NotBehind(l, a, b)
       PROVE  NotBehind(l, a, b)'
  <2>1. CASE l = k
    <3>1. Order(queue'[k], a, b) /\ (Holds(k, b)' => ~In(queue'[k], a))
      BY <1>7, <1>9, <1>19, <2>1 DEF NotBehind
    <3>2. In(pipe, b) => ~In(queue'[k], a) /\ ~Holds(k, a)'
      BY <1>7, <1>9, <1>19, <2>1 DEF NotBehind
    <3>3. Order(pipe, a, b)
      BY <1>19 DEF NotBehind
    <3> QED
      BY <1>2, <2>1, <3>1, <3>2, <3>3 DEF NotBehind
  <2>2. CASE l # k
    <3>1. queue'[l] = queue[l] /\ (Holds(l, a)' <=> Holds(l, a))
          /\ (Holds(l, b)' <=> Holds(l, b))
      BY <1>6, <1>9, <2>2
    <3> QED
      BY <1>2, <1>19, <3>1 DEF NotBehind
  <2> QED
    BY <2>1, <2>2
<1>20. \A t \in Tool : /\ Msg("didOpen", t) \in Message /\ Msg("ask", t) \in Message
                       /\ Msg("didOpen", t) # Msg("ask", t)
                       /\ \A u \in Tool : u # t => Msg("didOpen", u) # Msg("didOpen", t)
  BY DEF Msg, Message, Caller
<1>21. ASSUME InOrder, FreshTexts PROVE InOrder'
  <2>1. UNCHANGED <<doc, text, pc>> /\ \A t, v : Fresh(t, v)' <=> Fresh(t, v)
    BY <1>2 DEF Fresh
  <2>2. \A t \in Tool : (Sent(t)' <=> Sent(t)) /\ (Started(t)' <=> Started(t))
    BY <1>2 DEF Sent, Started
  <2>3. \A t \in Tool : Started(t) => Fresh(t, text[t])
    BY <1>21 DEF FreshTexts
  <2>4. \A t, u \in Tool :
          doc[t] = doc[u] /\ Sent(t) /\ Started(u) /\ ~Fresh(t, text[u]) => t # u
    BY <2>3
  <2>5. \A t \in Tool, l \in Conn : NotBehind(l, Msg("didOpen", t), Msg("ask", t))'
    BY <1>19, <1>20, <1>21 DEF InOrder
  <2>6. ASSUME NEW t \in Tool, NEW u \in Tool, doc[t] = doc[u], Sent(t), Started(u),
               ~Fresh(t, text[u])
        PROVE  /\ pc[u] # "read"
               /\ \A l \in Conn : NotBehind(l, Msg("didOpen", u), Msg("didOpen", t))'
               /\ Pending(Msg("didOpen", u))' => Pending(Msg("didOpen", t))'
    BY <1>18, <1>19, <1>20, <1>21, <2>4, <2>6 DEF InOrder
  <2> QED
    BY <2>1, <2>2, <2>5, <2>6 DEF InOrder
<1>22. ASSUME FreshTexts PROVE FreshTexts'
  <2>1. /\ UNCHANGED <<doc, text, disk, server, pc>>
        /\ \A t, v : Fresh(t, v)' <=> Fresh(t, v)
        /\ \A d : IsOpen(d)' <=> IsOpen(d)
        /\ \A t \in Tool : (Sent(t)' <=> Sent(t)) /\ (Started(t)' <=> Started(t))
    BY <1>2 DEF Fresh, IsOpen, Sent, Started
  <2> QED
    BY <1>18, <1>20, <1>22, <2>1 DEF FreshTexts
<1>23. ASSUME NobodyCloses, AskedOpen PROVE AskedOpen'
  <2>1. ASSUME NEW t \in Tool, Sent(t), \A l \in Conn : ~In(queue'[l], Msg("didOpen", t))
        PROVE  doc[t] \in openDocs'
    <3>1. CASE \A l \in Conn : ~In(queue[l], Msg("didOpen", t))
      BY <1>13, <1>23, <2>1, <3>1 DEF AskedOpen
    <3>2. CASE Msg("didOpen", t) = m
      BY <1>4, <3>2 DEF Msg
    <3> QED
      BY <1>6, <1>7, <2>1, <3>1, <3>2
  <2>2. \A t \in Tool : Sent(t)' <=> Sent(t)
    BY <1>2 DEF Sent
  <2> QED
    BY <1>2, <1>23, <2>1, <2>2, PipeKept DEF AskedOpen
<1>24. AnswerIsFresh'
  BY <1>2, <1>12 DEF AnswerIsFresh, DocInv
<1> QED
  BY <1>8, <1>11, <1>12, <1>15, <1>17, <1>21, <1>22, <1>23, <1>24 DEF DocInv

-----------------------------------------------------------------------------
(* A handler writes to the server. *)

Writes(k) == Refresh(k) \/ Open(k) \/ Close(k) \/ Forward(k)

\* What a handler writes, and where it is then.
LEMMA MessageWritten ==
  ASSUME Types, NEW k \in Conn, Writes(k)
  PROVE  /\ pc' \in [Caller -> PcType] /\ Onward
         /\ UNCHANGED <<disk, doc, text, answer, queue, cur, openDocs, server,
                        used, reopened, unsent, lost>>
         /\ \E e \in Message, h \in {"open", "idle", "asked"} :
              /\ e.who = cur[k] /\ pipe' = Append(pipe, e)
              /\ hpc' = [hpc EXCEPT ![k] = h]
              /\ \/ hpc[k] = "refresh" /\ e.kind = "didClose" /\ h = "open"
                 \/ hpc[k] = "open" /\ e.kind = "didOpen" /\ h = "idle"
                 \/ hpc[k] = "close" /\ e.kind = "didClose" /\ h = "idle"
                 \/ hpc[k] = "ask" /\ e.kind = "ask" /\ h = "asked"
<1> USE DEF tools, history
<1>1. cur[k] \in Caller /\ pc \in [Caller -> PcType]
  BY DEF Types, PcType
<1>2. pc' = pc => pc' \in [Caller -> PcType] /\ Onward
  BY <1>1 DEF Onward
<1>3. \A kind \in {"didOpen", "didClose", "ask"} :
        /\ Msg(kind, cur[k]) \in Message
        /\ Msg(kind, cur[k]).kind = kind /\ Msg(kind, cur[k]).who = cur[k]
        /\ Write(kind, cur[k]) => pipe' = Append(pipe, Msg(kind, cur[k]))
  BY <1>1 DEF Msg, Message, Write
<1>4. CASE Refresh(k)
  BY <1>2, <1>3, <1>4 DEF Refresh
<1>5. CASE Open(k)
  BY <1>3, <1>5, DoneOnward DEF Open
<1>6. CASE Close(k)
  BY <1>3, <1>6, DoneOnward DEF Close
<1>7. CASE Forward(k)
  BY <1>2, <1>3, <1>7 DEF Forward
<1> QED
  BY <1>4, <1>5, <1>6, <1>7 DEF Writes

\* The invariant holds on when a handler writes to the server.
LEMMA WritesStep ==
  ASSUME DocInv, DocumentConstants, NEW k \in Conn, Writes(k)
  PROVE  DocInv'
<1>1. Types /\ MessagesOK
  BY DEF DocInv
<1>2. /\ pc' \in [Caller -> PcType] /\ Onward
      /\ UNCHANGED <<disk, doc, text, answer, queue, cur, openDocs, server,
                     used, reopened, unsent, lost>>
  BY <1>1, MessageWritten
<1>3. PICK e \in Message, h \in {"open", "idle", "asked"} :
        /\ e.who = cur[k] /\ pipe' = Append(pipe, e)
        /\ hpc' = [hpc EXCEPT ![k] = h]
        /\ \/ hpc[k] = "refresh" /\ e.kind = "didClose" /\ h = "open"
           \/ hpc[k] = "open" /\ e.kind = "didOpen" /\ h = "idle"
           \/ hpc[k] = "close" /\ e.kind = "didClose" /\ h = "idle"
           \/ hpc[k] = "ask" /\ e.kind = "ask" /\ h = "asked"
  BY <1>1, MessageWritten
<1>4. /\ \A m \in Message : SentBy(m) => SentBy(m)'
      /\ \A t \in Tool : (Sent(t)' <=> Sent(t)) /\ (Started(t)' <=> Started(t))
      /\ NobodyCloses' <=> NobodyCloses
      /\ OneConnection' <=> OneConnection
  BY <1>1, <1>2, OnwardStep DEF OneConnection
<1>5. /\ hpc \in [Conn -> {"idle", "refresh", "open", "close", "ask", "asked"}]
      /\ hpc'[k] = h /\ \A l \in Conn : l # k => hpc'[l] = hpc[l]
      /\ hpc' \in [Conn -> {"idle", "refresh", "open", "close", "ask", "asked"}]
      /\ pipe \in Seq(Message) /\ pipe' \in Seq(Message)
  BY <1>1, <1>3 DEF Types
<1>6. Types'
  BY <1>1, <1>2, <1>5 DEF Types, PcType
\* What it holds afterwards.
<1>7. /\ \A l \in Conn : \A m : l # k => (Holds(l, m)' <=> Holds(l, m))
      /\ \A m \in Message : Holds(k, m)' <=> Holds(k, m) /\ m # e
      /\ e.kind = "didClose" \/ Holds(k, e)
      /\ \A m \in Message : Holds(k, m) /\ m.kind \in {"didOpen", "ask"} =>
           m = e \/ hpc[k] = "refresh"
  <2>1. \A l \in Conn : \A m : l # k => (Holds(l, m)' <=> Holds(l, m))
    BY <1>2, <1>5 DEF Holds
  <2>2. \A m \in Message : m.kind = e.kind /\ m.who = e.who => m = e
    BY DEF Message
  <2>3. \A m \in Message : Holds(k, m)' <=> Holds(k, m) /\ m # e
    BY <1>2, <1>3, <1>5, <2>2 DEF Holds
  <2>4. e.kind = "didClose" \/ Holds(k, e)
    BY <1>3 DEF Holds
  <2>5. \A m \in Message : Holds(k, m) /\ m.kind \in {"didOpen", "ask"} =>
          m = e \/ hpc[k] = "refresh"
    BY <1>3, <2>2 DEF Holds
  <2> QED
    BY <2>1, <2>3, <2>4, <2>5
<1>8. k \in used
  BY <1>1, <1>3 DEF MessagesOK
<1>9. MessagesOK'
  <2>1. /\ pipe \in Seq(PipeMessage')
        /\ \A l \in Conn : queue[l] \in Seq(SentMessage')
        /\ \A l \in Conn : \A m \in Message : Holds(l, m)' => SentBy(m)'
    BY <1>1, <1>4, <1>7, MessagesKept
  <2>2. e \in PipeMessage'
    BY <1>1, <1>4, <1>7 DEF MessagesOK, PipeMessage, SentMessage
  <2>3. pipe' \in Seq(PipeMessage')
    BY <1>3, <2>1, <2>2
  <2>4. \A l \in Conn : hpc[l] = "asked" => /\ cur[l] \in Tool
                                            /\ pc'[cur[l]] \in {"asking", "done"}
    BY <1>1, <1>2 DEF MessagesOK, Onward, Caller
  <2>5. h = "asked" => cur[k] \in Tool /\ pc'[cur[k]] \in {"asking", "done"}
    <3>1. ASSUME h = "asked" PROVE e.kind = "ask" /\ SentBy(e)
      BY <1>1, <1>3, <1>7, <3>1 DEF MessagesOK
    <3> QED
      BY <1>2, <1>3, <3>1 DEF SentBy, Onward, Caller
  <2>6. \A t \in Tool : pc'[t] = "new" => pc[t] = "new"
    BY <1>2 DEF Onward, Caller
  <2>7. \A l \in Conn : l \notin used => queue[l] = << >> /\ hpc'[l] = "idle"
    BY <1>1, <1>5, <1>8 DEF MessagesOK
  <2>8. \A l \in Conn : hpc'[l] = "asked" => /\ cur[l] \in Tool
                                             /\ pc'[cur[l]] \in {"asking", "done"}
    BY <1>5, <2>4, <2>5
  <2>9. \A t \in lost : pc'[t] \notin {"new", "read"}
    BY <1>1, <1>2 DEF MessagesOK, Onward, Types, Caller
  <2> QED
    BY <1>1, <1>2, <2>1, <2>3, <2>6, <2>7, <2>8, <2>9 DEF MessagesOK
<1>10. ASSUME NEW d
       PROVE  /\ \A i \in 1 .. Len(pipe) + 1 : OpenBefore(d, i)' <=> OpenBefore(d, i)
              /\ WillBeOpen(d)' <=> \/ About(e, "didOpen", d)
                                    \/ WillBeOpen(d) /\ ~About(e, "didClose", d)
              /\ \A i \in 1 .. Len(pipe') :
                   \/ i \in 1 .. Len(pipe) /\ pipe'[i] = pipe[i]
                   \/ i = Len(pipe) + 1 /\ pipe'[i] = e
  BY <1>2, <1>3, <1>5, PipeWritten
<1>11. /\ \A m, kind, d : About(m, kind, d)' <=> About(m, kind, d)
       /\ \A d : IsOpen(d)' <=> IsOpen(d)
       /\ \A kind, d : About(e, kind, d) <=> e.kind = kind /\ d = doc[cur[k]]
  BY <1>2, <1>3 DEF About, IsOpen
<1>12. /\ \A l \in Conn : \A places, d : l # k => (At(l, places, d)' <=> At(l, places, d))
       /\ \A places, d : At(k, places, d)' <=> h \in places /\ d = doc[cur[k]]
       /\ \A places, d : At(k, places, d) <=> hpc[k] \in places /\ d = doc[cur[k]]
  BY <1>2, <1>5 DEF At
<1>13. ASSUME NobodyCloses, MarkedOnly PROVE MarkedOnly'
  <2>1. hpc[k] # "close"
    <3>1. ASSUME hpc[k] = "close" PROVE FALSE
      <4>1. Holds(k, e)
        BY <1>3, <3>1 DEF Holds
      <4>2. SentBy(e) /\ e.kind = "didClose"
        BY <1>1, <1>3, <3>1, <4>1 DEF MessagesOK
      <4> QED
        BY <1>13, <4>2 DEF SentBy, NobodyCloses
    <3> QED
      BY <3>1
  <2>2. \A l \in Conn : hpc'[l] \in {"refresh", "open"} => doc[cur[l]] \in openDocs
    BY <1>3, <1>5, <1>13 DEF MarkedOnly
  <2>3. ASSUME NEW d \in Doc, d \notin openDocs, NEW i \in 1 .. Len(pipe')
        PROVE  ~About(pipe'[i], "didOpen", d)
    <3>1. ~About(e, "didOpen", d)
      BY <1>3, <1>11, <1>13, <2>3 DEF MarkedOnly
    <3> QED
      BY <1>10, <1>13, <2>3, <3>1 DEF MarkedOnly
  <2>4. ASSUME NEW d \in Doc, d \in openDocs
        PROVE  WillBeOpen(d)' \/ \E l \in Conn : At(l, {"refresh", "open"}, d)'
    <3>1. CASE d = doc[cur[k]] /\ hpc[k] \in {"refresh", "open"}
      <4>1. CASE hpc[k] = "refresh"
        BY <1>3, <1>12, <3>1, <4>1
      <4>2. CASE hpc[k] = "open"
        BY <1>3, <1>10, <1>11, <3>1, <4>2
      <4> QED
        BY <3>1, <4>1, <4>2
    <3>2. CASE ~(d = doc[cur[k]] /\ hpc[k] \in {"refresh", "open"})
      <4>1. ~About(e, "didClose", d)
        BY <1>3, <1>11, <2>1, <3>2
      <4>2. ~At(k, {"refresh", "open"}, d)
        BY <1>12, <3>2
      <4> QED
        BY <1>10, <1>12, <1>13, <2>4, <4>1, <4>2 DEF MarkedOnly
    <3> QED
      BY <3>1, <3>2
  <2> QED
    BY <1>2, <1>11, <1>13, <2>2, <2>3, <2>4 DEF MarkedOnly
<1>14. ASSUME OneConnection
       PROVE  \A l \in Conn : l # k =>
                /\ hpc[l] = "idle" /\ hpc'[l] = "idle"
                /\ \A m : ~Holds(l, m) /\ ~In(queue[l], m)
  BY <1>1, <1>3, <1>5, <1>14, OneBusy
<1>15. ASSUME OneConnection, Serial PROVE Serial'
  <2>1. ASSUME NEW l \in Conn, NEW places \in SUBSET {"refresh", "open", "close"},
               NEW d, l # k
        PROVE  ~At(l, places, d) /\ ~At(l, places, d)'
    BY <1>14, <1>15, <2>1 DEF At
  <2>2. ASSUME NEW d \in Doc, d # doc[cur[k]] PROVE WillBeOpen(d)' <=> d \in openDocs
    <3>1. \A l \in Conn : ~At(l, {"open", "close"}, d)
      BY <1>12, <2>1, <2>2
    <3>2. WillBeOpen(d) <=> d \in openDocs
      BY <1>15, <3>1 DEF Serial
    <3> QED
      BY <1>10, <1>11, <2>2, <3>2
  <2>3. ASSUME NEW d \in Doc, d = doc[cur[k]]
        PROVE  /\ h = "open" => d \in openDocs /\ ~WillBeOpen(d)'
               /\ h # "open" => (WillBeOpen(d)' <=> d \in openDocs)
    <3>1. CASE hpc[k] = "refresh"
      <4>1. d \in openDocs
        BY <1>12, <1>15, <2>3, <3>1 DEF Serial
      <4> QED
        BY <1>3, <1>10, <1>11, <2>3, <3>1, <4>1
    <3>2. CASE hpc[k] = "open"
      <4>1. d \in openDocs
        BY <1>12, <1>15, <2>3, <3>2 DEF Serial
      <4> QED
        BY <1>3, <1>10, <1>11, <2>3, <3>2, <4>1
    <3>3. CASE hpc[k] = "close"
      <4>1. d \notin openDocs
        BY <1>12, <1>15, <2>3, <3>3 DEF Serial
      <4> QED
        BY <1>3, <1>10, <1>11, <2>3, <3>3, <4>1
    <3>4. CASE hpc[k] = "ask"
      <4>1. \A l \in Conn : ~At(l, {"open", "close"}, d)
        BY <1>12, <2>1, <3>4
      <4>2. WillBeOpen(d) <=> d \in openDocs
        BY <1>15, <4>1 DEF Serial
      <4> QED
        BY <1>3, <1>10, <1>11, <2>3, <3>4, <4>2
    <3> QED
      BY <1>3, <3>1, <3>2, <3>3, <3>4
  <2>4. \A l \in Conn, d \in Doc :
          /\ At(l, {"refresh"}, d)' => d \in openDocs /\ WillBeOpen(d)'
          /\ At(l, {"open"}, d)' => d \in openDocs /\ ~WillBeOpen(d)'
          /\ At(l, {"close"}, d)' => d \notin openDocs
    BY <1>12, <2>1, <2>3
  <2>5. \A d \in Doc : (\A l \in Conn : ~At(l, {"open", "close"}, d)')
                         => (WillBeOpen(d)' <=> d \in openDocs)
    BY <1>12, <2>2, <2>3
  <2>6. ASSUME NEW d \in Doc, NEW i \in 1 .. Len(pipe'), About(pipe'[i], "didOpen", d)
        PROVE  ~OpenBefore(d, i)'
    <3>1. CASE i \in 1 .. Len(pipe) /\ pipe'[i] = pipe[i]
      <4>1. i \in 1 .. Len(pipe) + 1
        BY <1>5, <3>1
      <4> QED
        BY <1>10, <1>15, <2>6, <3>1, <4>1 DEF Serial
    <3>2. CASE i = Len(pipe) + 1 /\ pipe'[i] = e
      <4>1. hpc[k] = "open" /\ d = doc[cur[k]]
        BY <1>3, <1>11, <2>6, <3>2
      <4>2. ~WillBeOpen(d)
        BY <1>12, <1>15, <4>1 DEF Serial
      <4>3. i \in 1 .. Len(pipe) + 1
        BY <1>5, <3>2
      <4> QED
        BY <1>10, <3>2, <4>2, <4>3 DEF WillBeOpen
    <3> QED
      BY <1>10, <3>1, <3>2
  <2> QED
    BY <1>2, <1>11, <1>15, <2>4, <2>5, <2>6 DEF Serial
<1>16. \A a, b : a # b =>
         /\ In(pipe', a) <=> In(pipe, a) \/ a = e
         /\ Order(pipe, a, b) /\ (a = e => ~In(pipe, b)) => Order(pipe', a, b)
  <2>1. \A a, b : a # b =>
          /\ In(Append(pipe, e), a) <=> In(pipe, a) \/ a = e
          /\ Order(pipe, a, b) /\ (a = e => ~In(pipe, b)) => Order(Append(pipe, e), a, b)
    BY <1>5, QueueAdded, Zenon
  <2> QED
    BY <1>3, <2>1
<1>17. \A a \in Message : a.kind # "didClose" => (In(pipe', a) <=> In(pipe, a) \/ a = e)
  <2>1. ASSUME NEW a \in Message PROVE \E b : a # b
    <3>1. a # "ask" \/ a # "didOpen"
      OBVIOUS
    <3> QED
      BY <3>1
  <2> QED
    BY <1>16, <2>1
<1>18. \A a \in Message : a.kind # "didClose" => (Pending(a)' <=> Pending(a))
  <2>1. ASSUME NEW a \in Message, a.kind # "didClose", Pending(a)' PROVE Pending(a)
    <3>1. CASE a = e
      BY <1>7, <2>1, <3>1 DEF Pending
    <3>2. CASE a # e
      BY <1>2, <1>7, <1>17, <2>1, <3>2 DEF Pending
    <3> QED
      BY <3>1, <3>2
  <2>2. ASSUME NEW a \in Message, a.kind # "didClose", Pending(a) PROVE Pending(a)'
    <3>1. CASE a = e
      BY <1>17, <2>2, <3>1 DEF Pending
    <3>2. CASE a # e
      BY <1>2, <1>7, <1>17, <2>2, <3>2 DEF Pending
    <3> QED
      BY <3>1, <3>2
  <2> QED
    BY <2>1, <2>2
<1>19. ASSUME OneConnection, NEW l \in Conn, NEW a \in Message, NEW b \in Message,
              a # b, a.kind = "didOpen", b.kind \in {"didOpen", "ask"},
              \A j \in Conn : NotBehind(j, a, b)
       PROVE  NotBehind(l, a, b)'
  <2>1. Order(queue[l], a, b) /\ Order(pipe, a, b) /\ NotBehind(k, a, b)
        /\ NotBehind(l, a, b)
    BY <1>19 DEF NotBehind
  <2>2. a = e => Holds(k, a) /\ ~In(pipe, b)
    BY <1>7, <1>19, <2>1 DEF NotBehind
  <2>3. Order(pipe', a, b)
    BY <1>16, <1>19, <2>1, <2>2
  <2>4. Holds(l, b)' \/ In(pipe', b) => ~In(queue[l], a)
    <3>1. CASE l # k
      BY <1>14, <1>19, <3>1
    <3>2. CASE l = k
      <4>1. Holds(k, b)' => Holds(k, b)
        BY <1>7
      <4>2. In(pipe', b) => In(pipe, b) \/ Holds(k, b)
        BY <1>7, <1>17, <1>19
      <4> QED
        BY <2>1, <3>2, <4>1, <4>2 DEF NotBehind
    <3> QED
      BY <3>1, <3>2
  <2>5. In(pipe', b) => ~Holds(l, a)'
    <3>1. CASE l # k
      BY <1>7, <1>14, <1>19, <3>1
    <3>2. CASE l = k
      <4>1. CASE In(pipe, b)
        BY <1>7, <2>1, <3>2, <4>1 DEF NotBehind
      <4>2. CASE b = e
        BY <1>3, <1>7, <1>19, <3>2, <4>2
      <4> QED
        BY <1>17, <1>19, <4>1, <4>2
    <3> QED
      BY <3>1, <3>2
  <2> QED
    BY <1>2, <2>1, <2>3, <2>4, <2>5 DEF NotBehind
<1>20. \A t \in Tool : /\ Msg("didOpen", t) \in Message /\ Msg("ask", t) \in Message
                       /\ Msg("didOpen", t) # Msg("ask", t)
                       /\ Msg("didOpen", t).kind = "didOpen" /\ Msg("ask", t).kind = "ask"
                       /\ \A u \in Tool : u # t => Msg("didOpen", u) # Msg("didOpen", t)
  BY DEF Msg, Message, Caller
<1>21. \A t \in Tool : (pc'[t] = "new" <=> pc[t] = "new") /\ (pc'[t] = "read" <=> pc[t] = "read")
  BY <1>2 DEF Onward, Caller
<1>22. ASSUME OneConnection, InOrder, FreshTexts PROVE InOrder'
  <2>1. UNCHANGED <<doc, text>> /\ \A t, v : Fresh(t, v)' <=> Fresh(t, v)
    BY <1>2 DEF Fresh
  <2>2. \A t \in Tool : Started(t) => Fresh(t, text[t])
    BY <1>22 DEF FreshTexts
  <2>3. \A t, u \in Tool :
          doc[t] = doc[u] /\ Sent(t) /\ Started(u) /\ ~Fresh(t, text[u]) => t # u
    BY <2>2
  <2>4. \A t \in Tool, l \in Conn : NotBehind(l, Msg("didOpen", t), Msg("ask", t))'
    BY <1>19, <1>20, <1>22 DEF InOrder
  <2>5. ASSUME NEW t \in Tool, NEW u \in Tool, doc[t] = doc[u], Sent(t), Started(u),
               ~Fresh(t, text[u])
        PROVE  /\ pc[u] # "read"
               /\ \A l \in Conn : NotBehind(l, Msg("didOpen", u), Msg("didOpen", t))'
               /\ Pending(Msg("didOpen", u))' => Pending(Msg("didOpen", t))'
    BY <1>18, <1>19, <1>20, <1>22, <2>3, <2>5 DEF InOrder
  <2> QED
    BY <1>4, <1>21, <2>1, <2>4, <2>5 DEF InOrder
<1>23. ASSUME FreshTexts PROVE FreshTexts'
  <2>1. /\ UNCHANGED <<doc, text, disk, server>>
        /\ \A t, v : Fresh(t, v)' <=> Fresh(t, v)
    BY <1>2 DEF Fresh
  <2> QED
    BY <1>4, <1>11, <1>18, <1>20, <1>21, <1>23, <2>1 DEF FreshTexts
<1>24. ASSUME OneConnection, NobodyCloses, Serial, InOrder, AskedOpen PROVE AskedOpen'
  <2>1. ASSUME NEW d \in Doc, NEW i \in 1 .. Len(pipe'), About(pipe'[i], "ask", d),
               pipe'[i].who \notin lost
        PROVE  OpenBefore(d, i)'
    <3>1. CASE i \in 1 .. Len(pipe) /\ pipe'[i] = pipe[i]
      <4>1. i \in 1 .. Len(pipe) + 1
        BY <1>5, <3>1
      <4> QED
        BY <1>10, <1>24, <2>1, <3>1, <4>1 DEF AskedOpen
    <3>2. CASE i = Len(pipe) + 1 /\ pipe'[i] = e
      <4>1. e.kind = "ask" /\ d = doc[cur[k]] /\ hpc[k] = "ask" /\ Holds(k, e)
        BY <1>3, <1>7, <1>11, <2>1, <3>2
      <4>2. cur[k] \in Tool /\ Sent(cur[k]) /\ e = Msg("ask", cur[k])
        <5>1. SentBy(e)
          BY <1>1, <4>1 DEF MessagesOK
        <5>2. e = Msg("ask", cur[k])
          BY <1>3, <4>1 DEF Msg, Message
        <5> QED
          BY <1>3, <2>1, <3>2, <4>1, <5>1, <5>2 DEF SentBy, Sent
      <4>3. \A l \in Conn : ~In(queue[l], Msg("didOpen", cur[k]))
        BY <1>14, <1>24, <4>1, <4>2 DEF InOrder, NotBehind
      <4>4. d \in openDocs
        BY <1>24, <4>1, <4>2, <4>3 DEF AskedOpen
      <4>5. \A l \in Conn : ~At(l, {"open", "close"}, d)
        BY <1>14, <1>24, <4>1 DEF At
      <4>6. WillBeOpen(d)
        BY <1>24, <4>4, <4>5 DEF Serial
      <4>7. i \in 1 .. Len(pipe) + 1
        BY <1>5, <3>2
      <4> QED
        BY <1>10, <3>2, <4>6, <4>7 DEF WillBeOpen
    <3> QED
      BY <1>10, <3>1, <3>2
  <2> QED
    BY <1>2, <1>4, <1>11, <1>24, <2>1 DEF AskedOpen
<1>25. AnswerIsFresh'
  BY <1>2, <1>4 DEF AnswerIsFresh, DocInv
<1> QED
  BY <1>4, <1>6, <1>9, <1>13, <1>15, <1>22, <1>23, <1>24, <1>25 DEF DocInv

-----------------------------------------------------------------------------
(* The server reads a message. *)

\* What a message does to the server and to who waits for an answer.
LEMMA MessageServed ==
  ASSUME Types, MessagesOK, ServerReads
  PROVE  /\ pipe # << >> /\ pipe' = Tail(pipe) /\ Calm
         /\ UNCHANGED <<disk, doc, text, queue, cur, openDocs, used, unsent, lost>>
         /\ \E m \in PipeMessage :
              /\ m = Head(pipe)
              /\ \/ /\ m.kind = "didOpen" /\ answer' = answer
                    /\ server' = [server EXCEPT ![doc[m.who]] = text[m.who]]
                    /\ reopened' = reopened \cup (IF IsOpen(doc[m.who]) THEN {doc[m.who]}
                                                                       ELSE {})
                 \/ /\ m.kind = "didClose" /\ UNCHANGED <<answer, reopened>>
                    /\ server' = [server EXCEPT ![doc[m.who]] = Closed]
                 \/ /\ m.kind = "ask" /\ UNCHANGED <<server, reopened>>
                    /\ \/ answer' = answer
                       \/ /\ pc[m.who] = "asking"
                          /\ answer' = [answer EXCEPT ![m.who] = server[doc[m.who]]]
<1>0. PICK m : m = Head(pipe)
  OBVIOUS
<1>1. pipe # << >> /\ pipe' = Tail(pipe)
      /\ UNCHANGED <<disk, doc, text, queue, cur, openDocs, used, unsent, lost>>
  BY DEF ServerReads
<1>2. m \in PipeMessage
  BY <1>0, <1>1 DEF MessagesOK
<1>3. m \in Message /\ (m.kind # "didClose" => m.who \in Tool)
  BY <1>2 DEF PipeMessage, SentMessage, SentBy
<1>4. pc \in [Caller -> PcType] /\ (UNCHANGED <<hpc, pc>> => Calm)
  BY DEF Types, PcType, Calm, Onward
<1>5. CASE /\ m.kind = "didOpen"
           /\ server' = [server EXCEPT ![doc[m.who]] = text[m.who]]
           /\ reopened' = reopened \cup (IF server[doc[m.who]] = Closed THEN {}
                                                                 ELSE {doc[m.who]})
           /\ UNCHANGED <<hpc, pc, answer>>
  BY <1>0, <1>1, <1>2, <1>4, <1>5 DEF IsOpen
<1>6. CASE /\ m.kind = "didClose"
           /\ server' = [server EXCEPT ![doc[m.who]] = Closed]
           /\ UNCHANGED <<hpc, pc, answer, reopened>>
  BY <1>0, <1>1, <1>2, <1>4, <1>6
<1>7. ASSUME m.kind = "ask", UNCHANGED <<server, reopened>>, NEW k \in Conn,
             hpc[k] = "asked", cur[k] = m.who, Done(k),
             answer' = [answer EXCEPT ![m.who] =
                          IF pc[m.who] = "asking" THEN server[doc[m.who]] ELSE @]
      PROVE  Calm /\ \/ answer' = answer
                     \/ /\ pc[m.who] = "asking"
                        /\ answer' = [answer EXCEPT ![m.who] = server[doc[m.who]]]
  <2>1. Calm
    BY <1>7, DoneOnward DEF Calm
  <2>2. pc[m.who] # "asking" => answer' = answer
    BY <1>3, <1>7 DEF Types
  <2> QED
    BY <1>7, <2>1, <2>2
<1>8. CASE /\ m.kind = "ask" /\ UNCHANGED <<server, reopened>>
           /\ UNCHANGED <<hpc, pc, answer>>
  BY <1>0, <1>1, <1>2, <1>4, <1>8
<1>9. \/ /\ m.kind = "didOpen"
         /\ server' = [server EXCEPT ![doc[m.who]] = text[m.who]]
         /\ reopened' = reopened \cup (IF server[doc[m.who]] = Closed THEN {}
                                                               ELSE {doc[m.who]})
         /\ UNCHANGED <<hpc, pc, answer>>
      \/ /\ m.kind = "didClose"
         /\ server' = [server EXCEPT ![doc[m.who]] = Closed]
         /\ UNCHANGED <<hpc, pc, answer, reopened>>
      \/ /\ m.kind = "ask" /\ UNCHANGED <<server, reopened>>
         /\ \/ \E k \in Conn :
                 /\ hpc[k] = "asked" /\ cur[k] = m.who /\ Done(k)
                 /\ answer' = [answer EXCEPT ![m.who] =
                                 IF pc[m.who] = "asking" THEN server[doc[m.who]] ELSE @]
            \/ UNCHANGED <<hpc, pc, answer>>
  BY <1>0 DEF ServerReads
<1> QED
  BY <1>0, <1>1, <1>2, <1>5, <1>6, <1>7, <1>8, <1>9

\* The invariant holds on when the server reads a message.
LEMMA ServedStep ==
  ASSUME DocInv, DocumentConstants, ServerReads
  PROVE  DocInv'
<1>1. Types /\ MessagesOK
  BY DEF DocInv
<1>2. /\ pipe # << >> /\ pipe' = Tail(pipe) /\ Calm
      /\ UNCHANGED <<disk, doc, text, queue, cur, openDocs, used, unsent, lost>>
  BY <1>1, MessageServed
<1>3. PICK m \in PipeMessage :
        /\ m = Head(pipe)
        /\ \/ /\ m.kind = "didOpen" /\ answer' = answer
              /\ server' = [server EXCEPT ![doc[m.who]] = text[m.who]]
              /\ reopened' = reopened \cup (IF IsOpen(doc[m.who]) THEN {doc[m.who]}
                                                                 ELSE {})
           \/ /\ m.kind = "didClose" /\ UNCHANGED <<answer, reopened>>
              /\ server' = [server EXCEPT ![doc[m.who]] = Closed]
           \/ /\ m.kind = "ask" /\ UNCHANGED <<server, reopened>>
              /\ \/ answer' = answer
                 \/ /\ pc[m.who] = "asking"
                    /\ answer' = [answer EXCEPT ![m.who] = server[doc[m.who]]]
  BY <1>1, MessageServed
<1>4. /\ \A a \in Message : SentBy(a) => SentBy(a)'
      /\ \A t \in Tool : (Sent(t)' <=> Sent(t)) /\ (Started(t)' <=> Started(t))
      /\ NobodyCloses' <=> NobodyCloses
      /\ OneConnection' <=> OneConnection
  BY <1>1, <1>2, OnwardStep DEF Calm, OneConnection
<1>5. /\ hpc' \in [Conn -> {"idle", "refresh", "open", "close", "ask", "asked"}]
      /\ \A k \in Conn :
           /\ hpc'[k] = "asked" => hpc[k] = "asked"
           /\ hpc[k] = "idle" => hpc'[k] = "idle"
           /\ \A a : Holds(k, a)' <=> Holds(k, a)
           /\ \A d : \A places \in SUBSET {"refresh", "open", "close"} :
                At(k, places, d)' <=> At(k, places, d)
  BY <1>1, <1>2, CalmStep
<1>6. /\ m \in Message /\ (m.kind # "didClose" => m.who \in Tool)
      /\ m.kind = "didOpen" \/ (m.kind = "ask" /\ m.who \notin lost) => Sent(m.who)
      /\ m.who \in Caller /\ doc[m.who] \in Doc
      /\ m.kind \in {"didOpen", "didClose", "ask"}
      /\ m.kind = "didOpen" => m = Msg("didOpen", m.who)
      /\ m.kind = "ask" => m = Msg("ask", m.who)
  BY <1>1 DEF PipeMessage, SentMessage, SentBy, Sent, Message, Msg, Types
<1>7. \A t \in Tool : /\ pc'[t] = "new" <=> pc[t] = "new"
                      /\ pc'[t] = "read" <=> pc[t] = "read"
  BY <1>2 DEF Calm, Onward, Caller
<1>8. pipe \in Seq(Message) /\ pipe' \in Seq(Message) /\ pipe' \in Seq(PipeMessage)
  BY <1>1, <1>2 DEF Types, MessagesOK
<1>9. Types'
  <2>1. server' \in [Doc -> Version \cup {Closed}]
    BY <1>1, <1>3, <1>6 DEF Types
  <2>2. answer' \in [Tool -> Version \cup {Closed, NoAnswer}]
    BY <1>1, <1>3, <1>6 DEF Types
  <2>3. reopened' \subseteq Doc
    BY <1>1, <1>3, <1>6 DEF Types
  <2> QED
    BY <1>1, <1>2, <1>5, <1>8, <2>1, <2>2, <2>3 DEF Types, Calm, PcType
<1>10. MessagesOK'
  <2>1. /\ PipeMessage \subseteq PipeMessage'
        /\ \A l \in Conn : queue[l] \in Seq(SentMessage')
        /\ \A l \in Conn : \A a \in Message : Holds(l, a)' => SentBy(a)'
    BY <1>1, <1>4, <1>5, MessagesKept
  <2>2. pipe' \in Seq(PipeMessage')
    BY <1>8, <2>1, SeqGrows
  <2>3. \A t \in Tool : pc'[t] = "new" => answer'[t] = NoAnswer
    BY <1>1, <1>3, <1>6, <1>7 DEF MessagesOK, Types
  <2>4. \A l \in Conn : hpc'[l] = "asked" => /\ cur[l] \in Tool
                                             /\ pc'[cur[l]] \in {"asking", "done"}
    BY <1>1, <1>2, <1>5 DEF MessagesOK, Calm, Onward, Caller
  <2>5. \A l \in Conn : l \notin used => queue[l] = << >> /\ hpc'[l] = "idle"
    BY <1>1, <1>5 DEF MessagesOK
  <2>6. \A t \in lost : pc'[t] \notin {"new", "read"}
    BY <1>1, <1>7 DEF MessagesOK, Types
  <2> QED
    BY <1>2, <2>1, <2>2, <2>3, <2>4, <2>5, <2>6 DEF MessagesOK
<1>11. /\ \A d \in Doc : d # doc[m.who] => server'[d] = server[d]
       /\ \A d \in Doc : IsOpen(d)' <=> \/ About(m, "didOpen", d)
                                        \/ IsOpen(d) /\ ~About(m, "didClose", d)
  <2>1. \A d \in Doc : d # doc[m.who] => server'[d] = server[d]
    BY <1>1, <1>3 DEF Types
  <2>2. m.kind = "didOpen" => text[m.who] # Closed
    BY <1>1, <1>6 DEF Types, Version, DocumentConstants
  <2>3. ASSUME NEW d \in Doc, d = doc[m.who]
        PROVE  IsOpen(d)' <=> \/ About(m, "didOpen", d)
                              \/ IsOpen(d) /\ ~About(m, "didClose", d)
    <3>1. server \in [Doc -> Version \cup {Closed}]
      BY <1>1 DEF Types
    <3> QED
      BY <1>3, <1>6, <2>2, <2>3, <3>1 DEF IsOpen, About
  <2>4. ASSUME NEW d \in Doc, d # doc[m.who]
        PROVE  IsOpen(d)' <=> \/ About(m, "didOpen", d)
                              \/ IsOpen(d) /\ ~About(m, "didClose", d)
    BY <2>1, <2>4 DEF IsOpen, About
  <2> QED
    BY <2>1, <2>3, <2>4
<1>12. ASSUME NEW d \in Doc
       PROVE  /\ \A i \in 1 .. Len(pipe) : OpenBefore(d, i)' <=> OpenBefore(d, i + 1)
              /\ WillBeOpen(d)' <=> WillBeOpen(d)
              /\ IsOpen(d) <=> OpenBefore(d, 1)
              /\ \A i \in 1 .. Len(pipe') :
                   /\ i \in 1 .. Len(pipe) /\ i + 1 \in 1 .. Len(pipe)
                   /\ pipe'[i] = pipe[i + 1]
              /\ 1 \in 1 .. Len(pipe) /\ pipe[1] = m
  BY <1>2, <1>3, <1>8, <1>11, PipeRead
<1>13. \A a, kind, d : About(a, kind, d)' <=> About(a, kind, d)
  BY <1>2 DEF About
<1>14. ASSUME MarkedOnly PROVE MarkedOnly'
  <2>1. \A k \in Conn : hpc'[k] \in {"refresh", "open"} => hpc[k] \in {"refresh", "open"}
    BY <1>1, <1>2 DEF Calm, Types
  <2>2. ASSUME NEW d \in Doc, d \notin openDocs PROVE ~IsOpen(d)'
    BY <1>11, <1>12, <1>14, <2>2 DEF MarkedOnly
  <2>3. ASSUME NEW d \in Doc, d \notin openDocs, NEW i \in 1 .. Len(pipe')
        PROVE  ~About(pipe'[i], "didOpen", d)
    BY <1>12, <1>14, <2>3 DEF MarkedOnly
  <2>4. \A k \in Conn : \A d : At(k, {"refresh", "open"}, d) => At(k, {"refresh", "open"}, d)'
    BY <1>5
  <2> QED
    BY <1>2, <1>12, <1>13, <1>14, <2>1, <2>2, <2>3, <2>4 DEF MarkedOnly
<1>15. ASSUME Serial PROVE Serial'
  <2>1. \A k \in Conn : \A d :
          /\ At(k, {"refresh"}, d)' <=> At(k, {"refresh"}, d)
          /\ At(k, {"open"}, d)' <=> At(k, {"open"}, d)
          /\ At(k, {"close"}, d)' <=> At(k, {"close"}, d)
          /\ At(k, {"open", "close"}, d)' <=> At(k, {"open", "close"}, d)
    BY <1>5
  <2>2. ASSUME NEW d \in Doc, NEW i \in 1 .. Len(pipe'), About(pipe'[i], "didOpen", d)
        PROVE  ~OpenBefore(d, i)'
    BY <1>12, <1>15, <2>2 DEF Serial
  <2>3. reopened' = {}
    <3>1. m.kind = "didOpen" => ~IsOpen(doc[m.who])
      BY <1>6, <1>12, <1>15 DEF Serial, About
    <3> QED
      BY <1>3, <1>15, <3>1 DEF Serial
  <2> QED
    BY <1>2, <1>12, <1>13, <1>15, <2>1, <2>2, <2>3 DEF Serial
<1>16. \A a, b : /\ In(pipe, a) <=> In(pipe', a) \/ a = m
                 /\ Order(pipe, a, b) => /\ Order(pipe', a, b)
                                         /\ m = b => ~In(pipe', a)
  <2>1. \A a, b : /\ In(pipe, a) <=> In(Tail(pipe), a) \/ a = Head(pipe)
                  /\ Order(pipe, a, b) => /\ Order(Tail(pipe), a, b)
                                          /\ Head(pipe) = b => ~In(Tail(pipe), a)
    BY <1>2, <1>8, QueueTaken, Zenon
  <2> QED
    BY <1>2, <1>3, <2>1
<1>17. \A k \in Conn : \A a, b : NotBehind(k, a, b) => NotBehind(k, a, b)'
  BY <1>2, <1>5, <1>16 DEF NotBehind
<1>18. \A a : /\ Pending(a)' => Pending(a)
              /\ Pending(a) /\ a # m => Pending(a)'
  BY <1>2, <1>5, <1>16 DEF Pending
\* What is not behind the message that is read is not pending.
<1>19. ASSUME NEW a, a # m, \A k \in Conn : NotBehind(k, a, m)
       PROVE  ~Pending(a)
  <2>1. In(pipe, m)
    BY <1>16
  <2>2. ~In(pipe, a)
    BY <1>16, <1>19 DEF NotBehind, DocumentConstants
  <2>3. \A k \in Conn : ~In(queue[k], a) /\ ~Holds(k, a)
    BY <1>19, <2>1 DEF NotBehind
  <2> QED
    BY <2>2, <2>3 DEF Pending
<1>20. \A t \in Tool : /\ Msg("didOpen", t) # Msg("ask", t)
                       /\ \A u \in Tool : Msg("didOpen", u) = Msg("didOpen", t) => u = t
  BY DEF Msg
<1>21. ASSUME InOrder, FreshTexts PROVE InOrder'
  <2>1. UNCHANGED <<doc, text>> /\ \A t, v : Fresh(t, v)' <=> Fresh(t, v)
    BY <1>2 DEF Fresh
  <2>2. \A t \in Tool, l \in Conn : NotBehind(l, Msg("didOpen", t), Msg("ask", t))'
    BY <1>17, <1>21 DEF InOrder
  <2>3. ASSUME NEW t \in Tool, NEW u \in Tool, doc[t] = doc[u], Sent(t), Started(u),
               ~Fresh(t, text[u])
        PROVE  /\ pc[u] # "read"
               /\ \A l \in Conn : NotBehind(l, Msg("didOpen", u), Msg("didOpen", t))'
               /\ Pending(Msg("didOpen", u))' => Pending(Msg("didOpen", t))'
    <3> DEFINE a == Msg("didOpen", u)
               b == Msg("didOpen", t)
    <3>1. /\ pc[u] # "read" /\ (Pending(a) => Pending(b))
          /\ \A l \in Conn : NotBehind(l, a, b)
      BY <1>21, <2>3 DEF InOrder
    <3>2. t # u
      BY <1>21, <2>3 DEF FreshTexts
    <3>3. a # b
      BY <1>20, <3>2
    <3> HIDE DEF a, b
    <3>4. ASSUME Pending(a)' PROVE Pending(b)'
      <4>1. Pending(a) /\ Pending(b)
        BY <1>18, <3>1, <3>4
      <4>2. b # m
        BY <1>19, <3>1, <3>3, <4>1
      <4> QED
        BY <1>18, <4>1, <4>2
    <3>5. \A l \in Conn : NotBehind(l, a, b)'
      BY <1>17, <3>1
    <3> QED
      BY <3>1, <3>4, <3>5 DEF a, b
  <2> QED
    BY <1>4, <1>7, <2>1, <2>2, <2>3 DEF InOrder
<1>22. ASSUME InOrder, FreshTexts PROVE FreshTexts'
  <2>1. UNCHANGED <<doc, text, disk>> /\ \A t, v : Fresh(t, v)' <=> Fresh(t, v)
    BY <1>2 DEF Fresh
  <2>2. ASSUME NEW t \in Tool, Sent(t), ~Pending(Msg("didOpen", t))', IsOpen(doc[t])'
        PROVE  Fresh(t, server'[doc[t]])
    <3>0. doc[t] \in Doc /\ Started(t)
      BY <1>1, <2>2 DEF Types, Caller, Sent, Started
    <3>1. CASE doc[m.who] = doc[t] /\ m.kind = "didOpen"
      <4> DEFINE u == m.who
      <4>1. u \in Tool /\ Sent(u) /\ m = Msg("didOpen", u) /\ server'[doc[t]] = text[u]
        BY <1>1, <1>3, <1>6, <3>0, <3>1 DEF Types
      <4>2. Pending(m)
        BY <1>16 DEF Pending
      <4>3. CASE u = t
        BY <1>22, <3>0, <4>1, <4>3 DEF FreshTexts
      <4>4. CASE u # t
        <5>1. m # Msg("didOpen", t)
          BY <1>20, <4>1, <4>4
        <5>2. ~Pending(Msg("didOpen", t))
          BY <1>18, <2>2, <5>1
        <5>3. Started(u)
          BY <4>1 DEF Sent, Started
        <5>4. Fresh(t, text[u])
          BY <1>22, <2>2, <3>1, <4>1, <4>2, <5>2, <5>3 DEF InOrder
        <5> QED
          BY <4>1, <5>4
      <4> QED
        BY <4>3, <4>4
    <3>2. CASE ~(doc[m.who] = doc[t] /\ m.kind = "didOpen")
      <4>1. ~(doc[m.who] = doc[t] /\ m.kind = "didClose")
        <5>1. ASSUME doc[m.who] = doc[t], m.kind = "didClose" PROVE FALSE
          <6>1. server'[doc[t]] = Closed
            BY <1>1, <1>3, <3>0, <5>1 DEF Types
          <6> QED
            BY <1>2, <2>2, <6>1 DEF IsOpen
        <5> QED
          BY <5>1
      <4>2. server'[doc[t]] = server[doc[t]]
        BY <1>3, <1>6, <1>11, <3>0, <3>2, <4>1
      <4>3. m # Msg("didOpen", t)
        BY <3>2 DEF Msg
      <4>4. ~Pending(Msg("didOpen", t))
        BY <1>18, <2>2, <4>3
      <4>5. IsOpen(doc[t])
        BY <1>2, <2>2, <4>2 DEF IsOpen
      <4> QED
        BY <1>22, <2>2, <4>2, <4>4, <4>5 DEF FreshTexts
    <3> QED
      BY <3>1, <3>2
  <2> QED
    BY <1>4, <1>7, <1>22, <2>1, <2>2 DEF FreshTexts
<1>23. ASSUME AskedOpen PROVE AskedOpen'
  <2>1. ASSUME NEW d \in Doc, NEW i \in 1 .. Len(pipe'), About(pipe'[i], "ask", d),
               pipe'[i].who \notin lost
        PROVE  OpenBefore(d, i)'
    BY <1>12, <1>23, <2>1 DEF AskedOpen
  <2> QED
    BY <1>2, <1>4, <1>13, <1>23, <2>1 DEF AskedOpen
<1>24. ASSUME OneConnection, InOrder, FreshTexts, NobodyCloses => AskedOpen,
              m.kind = "ask", m.who \notin lost
       PROVE  \/ server[doc[m.who]] = Closed /\ ~NobodyCloses
              \/ server[doc[m.who]] \in Version /\ Fresh(m.who, server[doc[m.who]])
  <2> DEFINE t == m.who
  <2>1. t \in Tool /\ Sent(t) /\ m = Msg("ask", t) /\ doc[t] \in Doc
    BY <1>6, <1>24
  <2>2. ~Pending(Msg("didOpen", t))
    BY <1>19, <1>20, <1>24, <2>1 DEF InOrder
  <2>3. CASE IsOpen(doc[t])
    <3>1. server[doc[t]] \in Version
      BY <1>1, <2>1, <2>3 DEF Types, IsOpen
    <3> QED
      BY <1>24, <2>1, <2>2, <2>3, <3>1 DEF FreshTexts
  <2>4. CASE ~IsOpen(doc[t])
    <3>1. ~NobodyCloses
      <4>1. ASSUME NobodyCloses PROVE FALSE
        <5>1. About(m, "ask", doc[t])
          BY <1>24 DEF About
        <5> QED
          BY <1>12, <1>24, <2>1, <2>4, <4>1, <5>1 DEF AskedOpen
      <4> QED
        BY <4>1
    <3> QED
      BY <2>4, <3>1 DEF IsOpen
  <2> QED
    BY <2>3, <2>4
<1>25. AnswerIsFresh'
  <2>1. ASSUME OneConnection, NEW t \in Tool \ lost
        PROVE  \/ answer'[t] = NoAnswer
               \/ answer'[t] = Closed /\ ~NobodyCloses
               \/ answer'[t] \in Version /\ Fresh(t, answer'[t])
    <3>1. \/ answer[t] = NoAnswer
          \/ answer[t] = Closed /\ ~NobodyCloses
          \/ answer[t] \in Version /\ Fresh(t, answer[t])
      BY <2>1 DEF DocInv, AnswerIsFresh, Fresh
    <3>2. CASE answer'[t] = answer[t]
      BY <3>1, <3>2
    <3>3. CASE answer'[t] # answer[t]
      <4>1. m.kind = "ask" /\ m.who = t /\ answer'[t] = server[doc[t]]
        BY <1>1, <1>3, <3>3 DEF Types
      <4> QED
        BY <1>24, <2>1, <4>1 DEF DocInv
    <3> QED
      BY <3>2, <3>3
  <2> QED
    BY <1>2, <1>4, <2>1 DEF AnswerIsFresh, Fresh
<1> QED
  BY <1>4, <1>9, <1>10, <1>14, <1>15, <1>21, <1>22, <1>23, <1>25 DEF DocInv

-----------------------------------------------------------------------------
(* Theorems. *)

\* At the start nothing is open and nothing is under way.
LEMMA InitDocInv ==
  ASSUME Init, DocumentConstants
  PROVE  DocInv
<1>1. /\ pc = [p \in Caller |-> "new"] /\ pipe = << >>
      /\ hpc = [k \in Conn |-> "idle"] /\ queue = [k \in Conn |-> << >>]
      /\ server = [d \in Doc |-> Closed] /\ openDocs = {} /\ reopened = {}
      /\ answer = [t \in Tool |-> NoAnswer] /\ used = {} /\ lost = {}
  BY DEF Init
<1>2. /\ Len(pipe) = 0 /\ \A i \in 1 .. 0 : FALSE
      /\ \A k \in Conn : hpc[k] = "idle" /\ queue[k] = << >>
      /\ \A t \in Tool : pc[t] = "new" /\ ~Sent(t) /\ ~Started(t) /\ answer[t] = NoAnswer
      /\ \A k \in Conn : \A m : ~Holds(k, m)
      /\ \A d \in Doc : ~IsOpen(d)
  BY <1>1 DEF Sent, Started, Holds, IsOpen, Caller
<1>3. Types
  <2>1. (CHOOSE p \in Caller : TRUE) \in Caller
    BY DEF Caller, DocumentConstants
  <2>2. 0 \in Version
    BY DEF Version, DocumentConstants
  <2>3. queue \in [Conn -> Seq(Message)] /\ pipe \in Seq(Message)
    BY <1>1
  <2>4. cur \in [Conn -> Caller]
    BY <2>1 DEF Init
  <2>5. /\ disk \in [Doc -> Version] /\ text \in [Tool -> Version]
        /\ doc \in [Caller -> Doc]
    BY <2>2 DEF Init
  <2>6. unsent \in [Tool -> SUBSET Version]
    BY DEF Init
  <2> QED
    BY <1>1, <2>3, <2>4, <2>5, <2>6 DEF Types
<1>4. MessagesOK
  <2>1. pipe \in Seq(PipeMessage) /\ \A k \in Conn : queue[k] \in Seq(SentMessage)
    BY <1>1, <1>2
  <2> QED
    BY <1>1, <1>2, <2>1 DEF MessagesOK
<1>5. /\ \A d : WillBeOpen(d) <=> IsOpen(d)
      /\ \A k \in Conn : \A d : \A places \in SUBSET {"refresh", "open", "close"} :
           ~At(k, places, d)
  <2>1. \A j \in 1 .. (0 + 1) - 1 : FALSE
    OBVIOUS
  <2> QED
    BY <1>2, <2>1 DEF WillBeOpen, OpenBefore, OpenAt, At
<1>6. MarkedOnly
  BY <1>1, <1>2 DEF MarkedOnly
<1>7. Serial
  <2>1. \A k \in Conn : \A d : ~At(k, {"refresh"}, d) /\ ~At(k, {"open"}, d)
                               /\ ~At(k, {"close"}, d)
    BY <1>5
  <2> QED
    BY <1>1, <1>2, <1>5, <2>1 DEF Serial
<1>8. InOrder
  <2>1. \A k \in Conn : \A m, n : NotBehind(k, m, n)
    BY <1>2 DEF NotBehind, Order, In
  <2> QED
    BY <1>2, <2>1 DEF InOrder
<1>9. FreshTexts
  BY <1>2 DEF FreshTexts
<1>10. AskedOpen
  BY <1>2 DEF AskedOpen
<1>11. AnswerIsFresh
  BY <1>1 DEF AnswerIsFresh
<1> QED
  BY <1>3, <1>4, <1>6, <1>7, <1>8, <1>9, <1>10, <1>11 DEF DocInv

\* Every step keeps the invariant.
LEMMA NextDocInv ==
  ASSUME DocInv, DocumentConstants, [Next]_vars
  PROVE  DocInv'
<1>1. Types /\ \A d \in Doc : disk[d] \in Nat
  BY DEF DocInv, Types, Version, DocumentConstants
<1>2. ASSUME UNCHANGED vars PROVE DocInv'
  <2>1. Calm
    BY <1>1, <1>2 DEF Calm, Onward, vars, tools, handlers, Types, PcType
  <2>2. disk' \in [Doc -> Version] /\ \A d \in Doc : disk'[d] >= disk[d]
    BY <1>1, <1>2 DEF vars, Types
  <2> QED
    BY <1>2, <2>1, <2>2, RestsStep DEF vars, tools, handlers
<1>3. ASSUME NEW d \in Doc, Edit(d) PROVE DocInv'
  <2>1. Calm
    BY <1>1, <1>3 DEF Calm, Onward, Edit, tools, handlers, Types, PcType
  <2>2. disk' \in [Doc -> Version] /\ \A c \in Doc : disk'[c] >= disk[c]
    BY <1>1, <1>3 DEF Edit, Types, Version, DocumentConstants
  <2> QED
    BY <1>3, <2>1, <2>2, RestsStep DEF Edit, tools, handlers
<1>4. ASSUME NEW p \in Caller, GiveUp(p) PROVE DocInv'
  <2>1. Calm
    BY <1>1, <1>4, GiveUpOnward DEF Calm, GiveUp, handlers
  <2>2. disk' \in [Doc -> Version] /\ \A c \in Doc : disk'[c] >= disk[c]
    BY <1>1, <1>4 DEF GiveUp, Types
  <2> QED
    BY <1>4, <2>1, <2>2, RestsStep DEF GiveUp, handlers
<1>5. ASSUME NEW k \in Conn, ForwardTimeout(k) PROVE DocInv'
  <2>1. Calm
    BY <1>1, <1>5, DoneOnward DEF Calm, ForwardTimeout
  <2>2. disk' \in [Doc -> Version] /\ \A c \in Doc : disk'[c] >= disk[c]
    BY <1>1, <1>5 DEF ForwardTimeout, Types
  <2> QED
    BY <1>5, <2>1, <2>2, RestsStep DEF ForwardTimeout
<1>6. ASSUME NEW t \in Tool, ReadFile(t) \/ CannotRead(t) \/ CannotSend(t)
      PROVE  DocInv'
  BY <1>6, ReadsStep, SkipsStep DEF CannotRead, CannotSend
<1>7. ASSUME NEW t \in Tool, OpenDocument(t) PROVE DocInv'
  BY <1>7, RequestStep DEF OpenDocument, PcType, Caller
<1>8. ASSUME NEW t \in Tool, Ask(t) PROVE DocInv'
  BY <1>8, RequestStep DEF Ask, PcType, Caller
<1>9. ASSUME NEW c \in Closer, CloseDocument(c) PROVE DocInv'
  BY <1>9, RequestStep DEF CloseDocument, PcType, Caller
<1>10. ASSUME NEW k \in Conn, Take(k) PROVE DocInv'
  BY <1>10, TakesStep
<1>11. ASSUME NEW k \in Conn, Writes(k) PROVE DocInv'
  BY <1>11, WritesStep
<1>12. ASSUME ServerReads PROVE DocInv'
  BY <1>12, ServedStep
<1> QED
  BY <1>2, <1>3, <1>4, <1>5, <1>6, <1>7, <1>8, <1>9, <1>10, <1>11, <1>12
     DEF Next, ToolStep, HandlerStep, Writes

\* Documents, messages and what the server has stay as DocInv says.
THEOREM Documents == Spec => []DocInv
<1>1. Init => DocInv
  BY InitDocInv, DocumentConstants
<1>2. DocInv /\ [Next]_vars => DocInv'
  BY NextDocInv, DocumentConstants
<1> QED
  BY <1>1, <1>2, PTL DEF Spec

\* Every variable has its type, and a handler that opens or refreshes a
\* document has it in openDocs unless somebody closes documents.
THEOREM DocumentTypeCorrect == Spec => []TypeOK
<1>1. DocInv => TypeOK
  BY DEF DocInv, Types, MarkedOnly, NobodyCloses, TypeOK
<1> QED
  BY <1>1, Documents, PTL

\* handleDidOpen (main.go:1084): on one connection the server never gets a
\* didOpen for a document it has open.
THEOREM OpenedOnlyOnce == Spec => []OpenedOnce
<1>1. DocInv => OpenedOnce
  BY DEF DocInv, Serial, OpenedOnce
<1> QED
  BY <1>1, Documents, PTL

\* sm.openDocs and the server agree when nothing is under way.
THEOREM OpenDocumentsAgree == Spec => []OpenDocsAgree
<1>1. ASSUME DocInv PROVE OpenDocsAgree
  <2>1. ASSUME Quiet, NEW d \in Doc
        PROVE  /\ WillBeOpen(d) <=> IsOpen(d)
               /\ \A k \in Conn : \A places \in SUBSET {"refresh", "open", "close"} :
                    ~At(k, places, d)
    <3>1. \A j \in 1 .. (0 + 1) - 1 : FALSE
      OBVIOUS
    <3>2. Len(pipe) = 0 /\ \A k \in Conn : hpc[k] = "idle"
      BY <2>1 DEF Quiet
    <3> QED
      BY <3>1, <3>2 DEF WillBeOpen, OpenBefore, OpenAt, At
  <2>2. ASSUME Quiet, OneConnection, NEW d \in Doc
        PROVE  d \in openDocs <=> server[d] # Closed
    <3>1. \A k \in Conn : ~At(k, {"open", "close"}, d)
      BY <2>1, <2>2
    <3> QED
      BY <1>1, <2>1, <2>2, <3>1 DEF DocInv, Serial, IsOpen
  <2>3. ASSUME Quiet, NobodyCloses, NEW d \in Doc
        PROVE  d \in openDocs <=> server[d] # Closed
    <3>1. \A k \in Conn : ~At(k, {"refresh", "open"}, d)
      BY <2>1, <2>3
    <3> QED
      BY <1>1, <2>1, <2>3, <3>1 DEF DocInv, MarkedOnly, IsOpen
  <2> QED
    BY <2>2, <2>3 DEF OpenDocsAgree
<1> QED
  BY <1>1, Documents, PTL

\* ensureDocumentOpen (bridge.go): on one connection the answer of a tool whose
\* didOpen reached the manager is from the text it read, a later one, or one
\* that another tool had read and not yet sent.
THEOREM AnswersFresh == Spec => []AnswerIsFresh
<1>1. DocInv => AnswerIsFresh
  BY DEF DocInv
<1> QED
  BY <1>1, Documents, PTL

=============================================================================
