---------------------------- MODULE DocumentSync ----------------------------
(***************************************************************************)
(* How the language server learns the text of a document.  A tool of the   *)
(* bridge reads the file (bridge.go, ensureDocumentOpen), sends didOpen    *)
(* with the text, and asks its question whether or not that worked: the    *)
(* read may fail, and so may the request before it reaches the manager.    *)
(* The session manager serves each TCP connection with one goroutine, one      *)
(* request after the other (HandleClient); handleDidOpen looks up and sets *)
(* openDocs in one critical section and writes to the server after it.     *)
(*                                                                         *)
(* Tools of one bridge share a connection; another bridge, or the same     *)
(* after a reconnect, has another one.  The server, which is the           *)
(* environment, handles what is written to it in order.  A write to it     *)
(* fails only when it has exited, and then it stays down: left out.  Texts *)
(* are the versions of the file.                                           *)
(***************************************************************************)
EXTENDS Naturals, Sequences

CONSTANTS
  Tool,         \* tool invocations that open a document and ask about it
  Closer,       \* invocations of DidClose
  Conn,         \* connections to the session manager
  Doc,          \* documents
  Closed,       \* the server has no text for a document
  NoAnswer,     \* a tool has not been answered
  MaxEdits      \* bound of the model: edits of a file

ASSUME DocumentConstants ==
  /\ Tool # {} /\ Tool \cap Closer = {} /\ Conn # {}
  /\ Closed \notin Nat /\ NoAnswer \notin Nat \cup {Closed}
  /\ MaxEdits \in Nat

VARIABLES
  disk,         \* the text of each file
  doc,          \* the document an invocation is about
  pc,           \* where an invocation is
  text,         \* the text a tool has read
  answer,       \* the text a tool was answered from
  queue,        \* per connection, the requests not yet read by its handler
  hpc,          \* where the handler of a connection is
  cur,          \* the invocation whose request a handler handles
  openDocs,     \* sm.openDocs
  pipe,         \* what is written to the server and not yet read by it
  server,       \* the server's text of each document
  used,         \* history: the connections that were used
  reopened,     \* history: documents opened while they were open
  unsent,       \* history: see Unsent
  lost          \* history: the tools whose didOpen never reached the manager

tools    == <<doc, pc, text, answer>>
handlers == <<queue, hpc, cur>>
history  == <<used, reopened, unsent, lost>>
vars == <<disk, tools, handlers, openDocs, pipe, server, history>>

Caller  == Tool \cup Closer
Version == 0 .. MaxEdits
Message == [kind : {"didOpen", "didClose", "ask"}, who : Caller]

\* Every variable has its type; a handler that is at work has a caller whose
\* document is known to be open while it is being opened or refreshed, unless
\* somebody closes documents.
TypeOK ==
  /\ disk \in [Doc -> Version]
  /\ doc \in [Caller -> Doc]
  /\ pc \in [Caller -> {"new", "read", "opening", "opened", "asking", "done"}]
  /\ text \in [Tool -> Version]
  /\ answer \in [Tool -> Version \cup {Closed, NoAnswer}]
  /\ queue \in [Conn -> Seq(Message)]
  /\ hpc \in [Conn -> {"idle", "refresh", "open", "close", "ask", "asked"}]
  /\ cur \in [Conn -> Caller]
  /\ openDocs \subseteq Doc
  /\ pipe \in Seq(Message)
  /\ server \in [Doc -> Version \cup {Closed}]
  /\ used \subseteq Conn /\ reopened \subseteq Doc
  /\ unsent \in [Tool -> SUBSET Version] /\ lost \subseteq Tool
  /\ \A k \in Conn :
       hpc[k] \in {"refresh", "open"} /\ (\A c \in Closer : pc[c] = "new")
         => doc[cur[k]] \in openDocs

Init ==
  /\ disk = [d \in Doc |-> 0]
  /\ doc \in [Caller -> Doc]
  /\ pc = [p \in Caller |-> "new"]
  /\ text = [t \in Tool |-> 0]
  /\ answer = [t \in Tool |-> NoAnswer]
  /\ queue = [k \in Conn |-> << >>]
  /\ hpc = [k \in Conn |-> "idle"]
  /\ cur = [k \in Conn |-> CHOOSE p \in Caller : TRUE]
  /\ openDocs = {} /\ pipe = << >>
  /\ server = [d \in Doc |-> Closed]
  /\ used = {} /\ reopened = {}
  /\ unsent = [t \in Tool |-> {}] /\ lost = {}

-----------------------------------------------------------------------------
(* The bridge. *)

\* The file changes on disk, by an editor or by apply-edit tools.
Edit(d) ==
  /\ disk[d] < MaxEdits
  /\ disk' = [disk EXCEPT ![d] = @ + 1]
  /\ UNCHANGED <<tools, handlers, openDocs, pipe, server, history>>

\* The texts that may still reach the server after t has read its own: those
\* of tools that have read theirs and not sent it.
Unsent(t) ==
  {disk[doc[t]]} \cup
    {text[u] : u \in {v \in Tool : pc[v] = "read" /\ doc[v] = doc[t]}}

\* os.ReadFile
ReadFile(t) ==
  /\ pc[t] = "new"
  /\ pc' = [pc EXCEPT ![t] = "read"]
  /\ text' = [text EXCEPT ![t] = disk[doc[t]]]
  /\ unsent' = [unsent EXCEPT ![t] = Unsent(t)]
  /\ UNCHANGED <<disk, doc, answer, handlers, openDocs, pipe, server, used,
                 reopened, lost>>

\* ensureDocumentOpen returns an error before its didOpen is on its way, which
\* is logged, and the tool goes on to ask.
SkipOpen(t, before) ==
  /\ pc[t] = before
  /\ pc' = [pc EXCEPT ![t] = "opened"]
  /\ lost' = lost \cup {t}
  /\ UNCHANGED <<disk, doc, text, answer, handlers, openDocs, pipe, server,
                 used, reopened, unsent>>

\* The path cannot be mapped or is outside of the roots, or os.ReadFile fails;
\* the client has no connection to the manager, or cannot write to it.  (A
\* question that fails so ends the tool, as if it never went on.)
CannotRead(t) == SkipOpen(t, "new")
CannotSend(t) == SkipOpen(t, "read")

\* A request on the connection the bridge uses at the moment.
Request(p, kind, before, after) ==
  /\ pc[p] = before
  /\ pc' = [pc EXCEPT ![p] = after]
  /\ \E k \in Conn :
       /\ queue' = [queue EXCEPT ![k] = Append(@, [kind |-> kind, who |-> p])]
       /\ used' = used \cup {k}
  /\ UNCHANGED <<disk, doc, text, answer, hpc, cur, openDocs, pipe, server,
                 reopened, unsent, lost>>

OpenDocument(t) == Request(t, "didOpen", "read", "opening")
Ask(t)          == Request(t, "ask", "opened", "asking")
CloseDocument(c) == Request(c, "didClose", "new", "opening")

\* The deadline of a Call passes; a tool goes on after a didOpen that failed.
GiveUp(p) ==
  /\ pc[p] \in {"opening", "asking"}
  /\ pc' = [pc EXCEPT ![p] =
              IF p \in Tool /\ @ = "opening" THEN "opened" ELSE "done"]
  /\ UNCHANGED <<disk, doc, text, answer, handlers, openDocs, pipe, server,
                 history>>

-----------------------------------------------------------------------------
(* The session manager. *)

Write(kind, p) == pipe' = Append(pipe, [kind |-> kind, who |-> p])

\* The handler answers the request it handles; its caller may have gone on.
Done(k) ==
  /\ hpc' = [hpc EXCEPT ![k] = "idle"]
  /\ pc' = [pc EXCEPT ![cur[k]] =
              CASE @ = "opening" /\ hpc[k] = "open" -> "opened"
                [] @ = "opening" /\ hpc[k] = "close" -> "done"
                [] @ = "asking" /\ hpc[k] \in {"ask", "asked"} -> "done"
                [] OTHER -> @]

\* Mutant: openDocs is looked up and not set.
MarkNothing(m) ==
  openDocs' = IF m.kind = "didClose" THEN openDocs \ {doc[m.who]} ELSE openDocs

\* Mutant: the entry survives handleDidClose.
MarkForGood(m) ==
  openDocs' = IF m.kind = "didOpen" THEN openDocs \cup {doc[m.who]} ELSE openDocs

\* What handleDidOpen and handleDidClose do to openDocs.
Mark(m) ==
  openDocs' = CASE m.kind = "didOpen"  -> openDocs \cup {doc[m.who]}
                [] m.kind = "didClose" -> openDocs \ {doc[m.who]}
                [] OTHER               -> openDocs

\* HandleClient reads the next request; handleDidOpen and handleDidClose run
\* their critical section of openDocsMu.
Take(k) ==
  /\ hpc[k] = "idle" /\ queue[k] # << >>
  /\ LET m == Head(queue[k]) IN
       /\ cur' = [cur EXCEPT ![k] = m.who]
       /\ queue' = [queue EXCEPT ![k] = Tail(@)]
       /\ Mark(m)
       /\ hpc' = [hpc EXCEPT ![k] =
            CASE m.kind = "didOpen"  -> IF doc[m.who] \in openDocs THEN "refresh"
                                                                  ELSE "open"
              [] m.kind = "didClose" -> "close"
              [] m.kind = "ask"      -> "ask"]
  /\ UNCHANGED <<disk, tools, pipe, server, history>>

\* Mutant: a document that is open is opened again without closing it.
RefreshSkips(k) ==
  /\ hpc[k] = "refresh"
  /\ hpc' = [hpc EXCEPT ![k] = "open"]
  /\ UNCHANGED <<disk, tools, queue, cur, openDocs, pipe, server, history>>

\* Mutant: a didOpen for a document that is open already is only answered.
RefreshReturns(k) ==
  /\ hpc[k] = "refresh"
  /\ hpc' = [hpc EXCEPT ![k] = "idle"]
  /\ pc' = [pc EXCEPT ![cur[k]] = IF @ = "opening" THEN "opened" ELSE @]
  /\ UNCHANGED <<disk, doc, text, answer, queue, cur, openDocs, pipe, server,
                 history>>

\* handleDidOpen closes a document that was open already ...
Refresh(k) ==
  /\ hpc[k] = "refresh"
  /\ Write("didClose", cur[k])
  /\ hpc' = [hpc EXCEPT ![k] = "open"]
  /\ UNCHANGED <<disk, tools, queue, cur, openDocs, server, history>>

\* ... and opens it with the text of the request.
Open(k) ==
  /\ hpc[k] = "open"
  /\ Write("didOpen", cur[k])
  /\ Done(k)
  /\ UNCHANGED <<disk, doc, text, answer, queue, cur, openDocs, server,
                 history>>

\* handleDidClose tells the server whether or not the document was open.
Close(k) ==
  /\ hpc[k] = "close"
  /\ Write("didClose", cur[k])
  /\ Done(k)
  /\ UNCHANGED <<disk, doc, text, answer, queue, cur, openDocs, server,
                 history>>

Forward(k) ==
  /\ hpc[k] = "ask"
  /\ Write("ask", cur[k])
  /\ hpc' = [hpc EXCEPT ![k] = "asked"]
  /\ UNCHANGED <<disk, tools, queue, cur, openDocs, server, history>>

\* sendRequest's own deadline passes.
ForwardTimeout(k) ==
  /\ hpc[k] = "asked"
  /\ Done(k)
  /\ UNCHANGED <<disk, doc, text, answer, queue, cur, openDocs, pipe, server,
                 history>>

-----------------------------------------------------------------------------
(* The language server. *)

ServerReads ==
  /\ pipe # << >>
  /\ pipe' = Tail(pipe)
  /\ LET m == Head(pipe)  d == doc[m.who] IN
     \/ /\ m.kind = "didOpen"
        /\ server' = [server EXCEPT ![d] = text[m.who]]
        /\ reopened' = reopened \cup (IF server[d] = Closed THEN {} ELSE {d})
        /\ UNCHANGED <<hpc, pc, answer>>
     \/ /\ m.kind = "didClose"
        /\ server' = [server EXCEPT ![d] = Closed]
        /\ UNCHANGED <<hpc, pc, answer, reopened>>
     \/ /\ m.kind = "ask"
        /\ \/ \E k \in Conn :
                /\ hpc[k] = "asked" /\ cur[k] = m.who
                /\ Done(k)
                /\ answer' = [answer EXCEPT ![m.who] =
                                IF pc[m.who] = "asking" THEN server[d] ELSE @]
           \/ /\ \A k \in Conn : ~(hpc[k] = "asked" /\ cur[k] = m.who)
              /\ UNCHANGED <<hpc, pc, answer>>
        /\ UNCHANGED <<server, reopened>>
  /\ UNCHANGED <<disk, doc, text, queue, cur, openDocs, used, unsent, lost>>

-----------------------------------------------------------------------------

ToolStep(t) ==
  ReadFile(t) \/ CannotRead(t) \/ OpenDocument(t) \/ CannotSend(t) \/ Ask(t)

HandlerStep(k) ==
  \/ Take(k) \/ Refresh(k) \/ Open(k) \/ Close(k) \/ Forward(k)
  \/ ForwardTimeout(k)

Next ==
  \/ \E d \in Doc : Edit(d)
  \/ \E t \in Tool : ToolStep(t)
  \/ \E c \in Closer : CloseDocument(c)
  \/ \E p \in Caller : GiveUp(p)
  \/ \E k \in Conn : HandlerStep(k)
  \/ ServerReads

Spec == Init /\ [][Next]_vars

-----------------------------------------------------------------------------
(* Properties. *)

OneConnection == \A k, l \in used : k = l

NobodyCloses == \A c \in Closer : pc[c] = "new"

\* Callers on one connection never make the server receive didOpen for a
\* document it has open.
OpenedOnce == OneConnection => reopened = {}

\* Once nothing is under way the manager and the server agree on what is
\* open: always when nobody closes documents, however many connections open
\* the same one at once, and with closing as long as one connection is used.
Quiet == pipe = << >> /\ \A k \in Conn : hpc[k] = "idle"

OpenDocsAgree ==
  Quiet /\ (OneConnection \/ NobodyCloses)
    => \A d \in Doc : d \in openDocs <=> server[d] # Closed

\* On one connection a tool whose didOpen reached the manager, though the
\* tool may have given up waiting for it, is answered from the text it has
\* read itself, or a later one, or one that another tool had read before it
\* and had not yet sent; never from a text older than that, and from none only
\* if somebody closes documents.  A tool whose didOpen did not reach the
\* manager asks all the same (bridge.go:681), and is answered from whatever
\* the server has.
AnswerIsFresh ==
  OneConnection =>
    \A t \in Tool \ lost :
      \/ answer[t] = NoAnswer
      \/ answer[t] = Closed /\ ~NobodyCloses
      \/ answer[t] \in Version /\ \E old \in unsent[t] : answer[t] >= old

\* main.go:1084 says that a didOpen written to the server is the first one or
\* follows a didClose.
OpenIsFirstOrReopen == reopened = {}

=============================================================================
