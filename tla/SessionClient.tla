--------------------------- MODULE SessionClient ---------------------------
(***************************************************************************)
(* lsp/session_client.go: the client that every MCP tool call goes         *)
(* through in session mode.  Each invocation of Call is a goroutine, and   *)
(* so is each readResponses loop; they share the fields of SessionClient   *)
(* under sc.mu.  A critical section is one action guarded by mu = Free,    *)
(* except a send on a channel with the mutex held: there the goroutine can *)
(* block, and the mutex stays taken between actions.                       *)
(*                                                                         *)
(* The fields conn and reader are always assigned together, so conn stands *)
(* for both.  A connection is the number of its dial; 0 is nil.  The       *)
(* session manager and the network are the environment: it answers the     *)
(* requests of a connection one after the other (HandleClient), or the     *)
(* connection is lost.  A reply carries the number of its request and, in  *)
(* place of a result, the invocation it is the answer to.  Locals are      *)
(* reset once they are dead.                                               *)
(***************************************************************************)
EXTENDS Naturals, Sequences, FiniteSets

CONSTANTS
  Call,         \* the invocations of Call, one goroutine each
  Reader,       \* slots for goroutines that run readResponses
  Free,         \* mu is not held
  Lost,         \* the error that failAllPending sends
  MaxConns      \* bound of the model: how many dials succeed

ASSUME ConstantsOK ==
  /\ Call \cap Reader = {}
  /\ Free \notin Reader \cup Call
  /\ Lost \notin Call \cup {0} /\ 0 \notin Call
  /\ MaxConns \in Nat

VARIABLES
  mu,           \* sc.mu: the reader that holds it across actions, or Free
  conn,         \* sc.conn and sc.reader
  reqID,        \* sc.reqID
  pending,      \* sc.pending, by the invocations that registered
  closed,       \* sc.closed
  pc,           \* where each goroutine is
  cid,          \* the local id of Call
  chan,         \* the local respCh of Call, capacity 1; 0 is empty
  wconn,        \* the local conn of Call
  outcome,      \* what Call returns
  rd,           \* the local reader of readResponses
  got,          \* what a reader is to send: a response, or the error
  tgt,          \* the invocation whose channel the holder of mu sends to
  todo,         \* the channels failAllPending still has to send to
  dialed,       \* how many connections were dialled
  link,         \* the state of each connection
  sent,         \* per connection, the requests the manager has yet to answer
  resps,        \* per connection, the responses not yet read
  answered,     \* history: the request numbers the manager answered
  raced         \* history: two readers have read one connection together

fields  == <<mu, conn, reqID, pending, closed>>
calls   == <<cid, chan, wconn, outcome>>
readers == <<rd, got, tgt, todo>>
network == <<dialed, link, sent, resps>>
history == <<answered, raced>>
vars == <<fields, pc, calls, readers, network, history>>

Conn == 1 .. MaxConns
Proc == Call \cup Reader

Line   == [id : Nat, val : Call]
NoLine == [id |-> 0, val |-> Lost]

CallPC == {"new", "redial", "dial", "relock", "send", "write", "broken",
           "wait", "cleanup", "done"}
ReaderPC == {"off", "top", "read", "deliver", "fail", "sending", "failed",
             "redial", "dial"}

PcOK ==
  /\ pc \in [Proc -> CallPC \cup ReaderPC]
  /\ \A c \in Call : pc[c] \in CallPC
  /\ \A r \in Reader : pc[r] \in ReaderPC

FieldsOK ==
  /\ mu \in Reader \cup {Free}
  /\ conn \in 0 .. MaxConns
  /\ reqID \in Nat
  /\ pending \subseteq Call
  /\ closed \in BOOLEAN

CallsOK ==
  /\ cid \in [Call -> Nat]
  /\ chan \in [Call -> Call \cup {Lost, 0}]
  /\ wconn \in [Call -> 0 .. MaxConns]
  /\ outcome \in [Call -> {"none", "reply", "foreign", "error", "timeout"}]

ReadersOK ==
  /\ rd \in [Reader -> 0 .. MaxConns]
  /\ got \in [Reader -> Line \cup {NoLine}]
  /\ tgt \in Call \cup {Free}
  /\ todo \subseteq Call

NetworkOK ==
  /\ dialed \in 0 .. MaxConns
  /\ link \in [Conn -> {"none", "live", "lost", "shut"}]
  /\ sent \in [Conn -> Seq(Call)]
  /\ resps \in [Conn -> Seq(Line)]
  /\ answered \subseteq Nat
  /\ raced \in BOOLEAN

\* No goroutine reads from or writes to a nil connection.
NoNilConn ==
  /\ \A c \in Call : pc[c] = "write" => wconn[c] # 0
  /\ \A r \in Reader : pc[r] = "read" => rd[r] # 0

\* Every variable has its type, and no goroutine uses a nil connection.
TypeOK ==
  /\ FieldsOK
  /\ PcOK
  /\ CallsOK
  /\ ReadersOK
  /\ NetworkOK
  /\ NoNilConn

\* NewSessionClient
Init ==
  /\ mu = Free /\ conn = 0 /\ reqID = 0 /\ pending = {} /\ closed = FALSE
  /\ pc = [p \in Proc |-> IF p \in Call THEN "new" ELSE "off"]
  /\ cid = [c \in Call |-> 0]
  /\ chan = [c \in Call |-> 0]
  /\ wconn = [c \in Call |-> 0]
  /\ outcome = [c \in Call |-> "none"]
  /\ rd = [r \in Reader |-> 0]
  /\ got = [r \in Reader |-> NoLine]
  /\ tgt = Free /\ todo = {}
  /\ dialed = 0 /\ link = [k \in Conn |-> "none"]
  /\ sent = [k \in Conn |-> << >>]
  /\ resps = [k \in Conn |-> << >>]
  /\ answered = {} /\ raced = FALSE

-----------------------------------------------------------------------------
(* Steps shared by the goroutines. *)

Goto(p, l) == pc' = [pc EXCEPT ![p] = l]

Return(c, o) == outcome' = [outcome EXCEPT ![c] = o]

\* A dial that succeeds becomes the current connection.
Install ==
  /\ dialed < MaxConns
  /\ dialed' = dialed + 1
  /\ conn' = dialed + 1
  /\ link' = [link EXCEPT ![dialed + 1] = "live"]
  /\ UNCHANGED <<sent, resps>>

\* conn.Close() on the current connection, if there is one.  Requests the
\* manager has not answered yet will not be answered on it.
Shut ==
  /\ link' = [k \in Conn |-> IF k = conn THEN "shut" ELSE link[k]]
  /\ sent' = [k \in Conn |-> IF k = conn THEN << >> ELSE sent[k]]
  /\ UNCHANGED <<dialed, resps>>

\* reconnect, first critical section: close the current connection, whoever
\* is using it, and forget it.
CloseOld(p) ==
  /\ pc[p] = "redial" /\ mu = Free
  /\ Shut
  /\ conn' = 0
  /\ Goto(p, "dial")
  /\ UNCHANGED <<mu, reqID, pending, closed, calls, readers, history>>

\* Mutant: Call reconnects without starting a reader.
DialOKNoReader(p) ==
  /\ pc[p] = "dial" /\ mu = Free
  /\ Install
  /\ Goto(p, IF p \in Reader THEN "top" ELSE "relock")
  /\ UNCHANGED <<mu, reqID, pending, closed, calls, readers, history>>

\* reconnect, the dial and the second critical section.  It does not look at
\* closed, nor at a connection another goroutine has installed meanwhile.  A
\* reader goes on with its loop; Call starts another reader.
DialOK(p) ==
  /\ pc[p] = "dial" /\ mu = Free
  /\ Install
  /\ \/ p \in Reader /\ Goto(p, "top")
     \/ /\ p \in Call
        /\ \E r \in Reader : /\ pc[r] = "off"
                             /\ pc' = [pc EXCEPT ![p] = "relock", ![r] = "top"]
  /\ UNCHANGED <<mu, reqID, pending, closed, calls, readers, history>>

\* reconnect gives up after five attempts: a reader returns, a call fails.
DialFail(p) ==
  /\ pc[p] = "dial"
  /\ \/ p \in Reader /\ Goto(p, "off") /\ UNCHANGED outcome
     \/ p \in Call /\ Goto(p, "done") /\ Return(p, "error")
  /\ UNCHANGED <<fields, cid, chan, wconn, readers, network, history>>

-----------------------------------------------------------------------------
(* Connect and Close. *)

\* Connect runs once, before the adapter is published to any caller.
Connect(r) ==
  /\ dialed = 0 /\ pc[r] = "off"
  /\ Install
  /\ Goto(r, "top")
  /\ UNCHANGED <<mu, reqID, pending, closed, calls, readers, history>>

\* Close leaves conn in place: IsConnected stays true.  It may be called again.
Close ==
  /\ mu = Free /\ dialed > 0
  /\ closed' = TRUE
  /\ Shut
  /\ UNCHANGED <<mu, conn, reqID, pending, pc, calls, readers, history>>

-----------------------------------------------------------------------------
(* Call. *)

\* Mutant: a number is free again once its call has returned.
RegisterReusing(c) ==
  /\ reqID' = Cardinality(pending) + 1
  /\ cid' = [cid EXCEPT ![c] = Cardinality(pending) + 1]
  /\ pending' = pending \cup {c}
  /\ Goto(c, "send")
  /\ UNCHANGED <<mu, conn, closed, chan, wconn, outcome, readers, network,
                 history>>

Register(c) ==
  /\ reqID' = reqID + 1
  /\ cid' = [cid EXCEPT ![c] = reqID + 1]
  /\ pending' = pending \cup {c}
  /\ Goto(c, "send")
  /\ UNCHANGED <<mu, conn, closed, chan, wconn, outcome, readers, network,
                 history>>

\* "not connected to Session Manager"
Refused(c) ==
  /\ Goto(c, "done")
  /\ Return(c, "error")
  /\ UNCHANGED <<fields, cid, chan, wconn, readers, network, history>>

CallStart(c) ==
  /\ pc[c] = "new" /\ mu = Free /\ dialed > 0
  /\ \/ conn # 0 /\ Register(c)
     \/ conn = 0 /\ closed /\ Refused(c)
     \/ /\ conn = 0 /\ ~closed
        /\ Goto(c, "redial")
        /\ UNCHANGED <<fields, calls, readers, network, history>>

CallRelock(c) ==
  /\ pc[c] = "relock" /\ mu = Free
  /\ \/ conn # 0 /\ Register(c)
     \/ conn = 0 /\ Refused(c)

\* Mutant: the local conn is not compared with nil.
CallTakeAnyConn(c) ==
  /\ pc[c] = "send" /\ mu = Free
  /\ Goto(c, "write")
  /\ wconn' = [wconn EXCEPT ![c] = conn]
  /\ UNCHANGED <<fields, cid, chan, outcome, readers, network, history>>

\* The connection is read under the mutex and written to without it.
CallTakeConn(c) ==
  /\ pc[c] = "send" /\ mu = Free
  /\ \/ conn # 0 /\ Goto(c, "write") /\ UNCHANGED outcome
     \/ conn = 0 /\ Goto(c, "cleanup") /\ Return(c, "error")
  /\ wconn' = [wconn EXCEPT ![c] = conn]
  /\ UNCHANGED <<fields, cid, chan, readers, network, history>>

\* A write to a connection that the other side has lost may still succeed.
\* One to a connection that is up may also never end: see MayBlock.
CallWrite(c) ==
  /\ pc[c] = "write"
  /\ \/ /\ link[wconn[c]] = "live"
        /\ sent' = [sent EXCEPT ![wconn[c]] = Append(@, c)]
        /\ Goto(c, "wait")
     \/ link[wconn[c]] = "lost" /\ Goto(c, "wait") /\ UNCHANGED sent
     \/ link[wconn[c]] # "live" /\ Goto(c, "broken") /\ UNCHANGED sent
  /\ wconn' = [wconn EXCEPT ![c] = 0]
  /\ UNCHANGED <<fields, cid, chan, outcome, readers, dialed, link, resps,
                 history>>

\* A failed write forgets the current connection, which need not be the one
\* it was made on, and does not close it.
CallBroken(c) ==
  /\ pc[c] = "broken" /\ mu = Free
  /\ conn' = 0
  /\ Goto(c, "cleanup")
  /\ Return(c, "error")
  /\ UNCHANGED <<mu, reqID, pending, closed, cid, chan, wconn, readers,
                 network, history>>

\* Mutant: failAllPending's message carries no error.
VerdictNoError(c) ==
  IF chan[c] \in {Lost, c} THEN "reply" ELSE "foreign"

Verdict(c) ==
  CASE chan[c] = Lost   -> "error"
    [] chan[c] = c      -> "reply"
    [] OTHER            -> "foreign"

CallReceive(c) ==
  /\ pc[c] = "wait" /\ chan[c] # 0
  /\ chan' = [chan EXCEPT ![c] = 0]
  /\ Return(c, Verdict(c))
  /\ Goto(c, "cleanup")
  /\ UNCHANGED <<fields, cid, wconn, readers, network, history>>

\* Mutant: the deferred delete is skipped on a timeout.
CallTimeoutLeaks(c) ==
  /\ pc[c] = "wait"
  /\ Return(c, "timeout")
  /\ Goto(c, "done")
  /\ UNCHANGED <<fields, cid, chan, wconn, readers, network, history>>

\* Mutant: Call waits for the response only.
CallTimeoutNever(c) == FALSE /\ UNCHANGED vars

\* case <-ctx.Done(): select may take it even when a response is there.
CallTimeout(c) ==
  /\ pc[c] = "wait"
  /\ Return(c, "timeout")
  /\ Goto(c, "cleanup")
  /\ UNCHANGED <<fields, cid, chan, wconn, readers, network, history>>

\* The deferred delete(sc.pending, id); the channel goes with the call.
CallCleanup(c) ==
  /\ pc[c] = "cleanup" /\ mu = Free
  /\ pending' = pending \ {c}
  /\ chan' = [chan EXCEPT ![c] = 0]
  /\ Goto(c, "done")
  /\ UNCHANGED <<mu, conn, reqID, closed, cid, wconn, outcome, readers,
                 network, history>>

-----------------------------------------------------------------------------
(* readResponses. *)

\* Mutant: the loop does not look at closed.
ReadTopIgnoresClosed(r) ==
  /\ pc[r] = "top" /\ mu = Free
  /\ \/ /\ conn # 0
        /\ Goto(r, "read")
        /\ rd' = [rd EXCEPT ![r] = conn]
     \/ /\ conn = 0
        /\ Goto(r, "off")
        /\ UNCHANGED rd
  /\ UNCHANGED <<fields, calls, got, tgt, todo, network, history>>

ReadTop(r) ==
  /\ pc[r] = "top" /\ mu = Free
  /\ \/ /\ conn # 0 /\ ~closed
        /\ Goto(r, "read")
        /\ rd' = [rd EXCEPT ![r] = conn]
     \/ /\ conn = 0 \/ closed
        /\ Goto(r, "off")
        /\ UNCHANGED rd
  /\ UNCHANGED <<fields, calls, got, tgt, todo, network, history>>

ReadLine(r) ==
  /\ pc[r] = "read" /\ resps[rd[r]] # << >>
  /\ got' = [got EXCEPT ![r] = Head(resps[rd[r]])]
  /\ resps' = [resps EXCEPT ![rd[r]] = Tail(@)]
  /\ rd' = [rd EXCEPT ![r] = 0]
  /\ Goto(r, "deliver")
  /\ UNCHANGED <<fields, calls, tgt, todo, dialed, link, sent, history>>

\* Two goroutines inside ReadString on one bufio.Reader: a data race.  The
\* line may come out as bytes that do not parse, at both of them, or mixed
\* with another buffered line.
ReadRacing(r, s) ==
  /\ r # s /\ pc[r] = "read" /\ pc[s] = "read" /\ rd[r] = rd[s]
  /\ resps[rd[r]] # << >>
  /\ resps' = [resps EXCEPT ![rd[r]] = Tail(@)]
  /\ raced' = TRUE
  /\ LET line == Head(resps[rd[r]]) IN
     \/ /\ Goto(r, "top")
        /\ rd' = [rd EXCEPT ![r] = 0]
        /\ UNCHANGED got
     \/ /\ pc' = [pc EXCEPT ![r] = "deliver", ![s] = "deliver"]
        /\ rd' = [rd EXCEPT ![r] = 0, ![s] = 0]
        /\ got' = [got EXCEPT ![r] = line, ![s] = line]
     \/ /\ Goto(r, "deliver")
        /\ rd' = [rd EXCEPT ![r] = 0]
        /\ \E i \in 1 .. Len(resps[rd[r]]) :
             got' = [got EXCEPT ![r] =
                       [id |-> line.id, val |-> resps[rd[r]][i].val]]
  /\ UNCHANGED <<fields, calls, tgt, todo, dialed, link, sent, answered>>

\* ReadString returns an error; lines that had arrived may be lost with it.
ReadError(r) ==
  /\ pc[r] = "read" /\ link[rd[r]] # "live"
  /\ resps' = [resps EXCEPT ![rd[r]] = << >>]
  /\ rd' = [rd EXCEPT ![r] = 0]
  /\ Goto(r, "fail")
  /\ UNCHANGED <<fields, calls, got, tgt, todo, dialed, link, sent, history>>

\* sc.pending[resp.ID], and ch <- response with the mutex held.
Deliver(r) ==
  /\ pc[r] = "deliver" /\ mu = Free
  /\ \/ \E c \in pending :
          /\ cid[c] = got[r].id
          /\ \/ /\ chan[c] = 0
                /\ chan' = [chan EXCEPT ![c] = got[r].val]
                /\ got' = [got EXCEPT ![r] = NoLine]
                /\ Goto(r, "top")
                /\ UNCHANGED <<mu, tgt>>
             \/ /\ chan[c] # 0
                /\ mu' = r /\ tgt' = c
                /\ Goto(r, "sending")
                /\ UNCHANGED <<got, chan>>
     \/ /\ \A c \in pending : cid[c] # got[r].id
        /\ got' = [got EXCEPT ![r] = NoLine]
        /\ Goto(r, "top")
        /\ UNCHANGED <<mu, tgt, chan>>
  /\ UNCHANGED <<conn, reqID, pending, closed, cid, wconn, outcome, rd, todo,
                 network, history>>

\* failAllPending: take the mutex and start to range over the map.
FailAll(r) ==
  /\ pc[r] = "fail" /\ mu = Free
  /\ \/ /\ \E c \in pending : tgt' = c /\ todo' = pending \ {c}
        /\ mu' = r
        /\ Goto(r, "sending")
     \/ /\ pending = {}
        /\ Goto(r, "failed")
        /\ UNCHANGED <<mu, tgt, todo>>
  /\ UNCHANGED <<conn, reqID, pending, closed, calls, rd, got, network,
                 history>>

\* A send with the mutex held, once the channel has room.
Send(r) ==
  /\ pc[r] = "sending" /\ chan[tgt] = 0
  /\ chan' = [chan EXCEPT ![tgt] = got[r].val]
  /\ got' = [got EXCEPT ![r] = NoLine]
  /\ \/ /\ \E c \in todo : tgt' = c /\ todo' = todo \ {c}
        /\ UNCHANGED <<mu, pc>>
     \/ /\ todo = {}
        /\ mu' = Free /\ tgt' = Free /\ UNCHANGED todo
        /\ Goto(r, IF got[r] = NoLine THEN "failed" ELSE "top")
  /\ UNCHANGED <<conn, reqID, pending, closed, cid, wconn, outcome, rd,
                 network, history>>

\* Reconnect unless the client was closed on purpose.
AfterFail(r) ==
  /\ pc[r] = "failed" /\ mu = Free
  /\ Goto(r, IF closed THEN "off" ELSE "redial")
  /\ UNCHANGED <<fields, calls, readers, network, history>>

-----------------------------------------------------------------------------
(* The environment. *)

\* HandleClient serves the requests of a connection in the order they came.
Answer(k) ==
  /\ link[k] = "live" /\ sent[k] # << >>
  /\ sent' = [sent EXCEPT ![k] = Tail(@)]
  /\ resps' = [resps EXCEPT ![k] =
       Append(@, [id |-> cid[Head(sent[k])], val |-> Head(sent[k])])]
  /\ answered' = answered \cup {cid[Head(sent[k])]}
  /\ UNCHANGED <<fields, pc, calls, readers, dialed, link, raced>>

\* The manager restarts or the connection breaks.
Lose(k) ==
  /\ link[k] = "live"
  /\ link' = [link EXCEPT ![k] = "lost"]
  /\ sent' = [sent EXCEPT ![k] = << >>]
  /\ UNCHANGED <<fields, pc, calls, readers, dialed, resps, history>>

-----------------------------------------------------------------------------

CallStep(c) ==
  \/ CallStart(c) \/ CallRelock(c) \/ CallTakeConn(c) \/ CallWrite(c)
  \/ CallBroken(c) \/ CallReceive(c) \/ CallTimeout(c) \/ CallCleanup(c)

ReaderStep(r) ==
  \/ ReadTop(r) \/ ReadLine(r) \/ ReadError(r) \/ Deliver(r) \/ FailAll(r)
  \/ Send(r) \/ AfterFail(r)

Redial(p) == CloseOld(p) \/ DialOK(p) \/ DialFail(p)

Next ==
  \/ \E r \in Reader : Connect(r) \/ ReaderStep(r)
  \/ \E r, s \in Reader : ReadRacing(r, s)
  \/ \E c \in Call : CallStep(c)
  \/ \E p \in Proc : Redial(p)
  \/ Close
  \/ \E k \in Conn : Answer(k) \/ Lose(k)

Spec == Init /\ [][Next]_vars

\* conn.Write has no deadline and does not look at the context: the write to a
\* connection that is up lasts as long as the manager does not read from it.
MayBlock(c) == pc[c] = "write" /\ link[wconn[c]] = "live"

(***************************************************************************)
(* Goroutines are scheduled, a sync.Mutex is handed over to a goroutine    *)
(* that has waited long enough, a dial ends (net.DialTimeout), and every   *)
(* context passed to Call has a deadline, so a call that waits takes one   *)
(* of the two cases of its select.  Nothing is assumed of the manager, not *)
(* even that it reads what is written to it, nor that a call is ever made  *)
(* or the client ever closed.                                              *)
(***************************************************************************)
CallProgress(c) ==
  pc[c] # "new" /\ ~MayBlock(c) /\ (CallStep(c) \/ Redial(c))

ReaderProgress(r) == ReaderStep(r) \/ Redial(r)

Fairness ==
  /\ \A c \in Call : WF_vars(CallProgress(c))
  /\ \A r \in Reader : WF_vars(ReaderProgress(r))

FairSpec == Spec /\ Fairness

-----------------------------------------------------------------------------
(* Properties. *)

InFlight == {"send", "write", "broken", "wait", "cleanup"}

\* sc.pending holds exactly the invocations that are between their
\* registration and their deferred delete: no early return of Call leaks an
\* entry that failAllPending would send to for ever after.
PendingIsInFlight == \A c \in Call : c \in pending <=> pc[c] \in InFlight

\* As long as the client is not closed, the current connection is read by a
\* goroutine, or one is on its way back to the top of its loop or to a
\* reconnect, however the reconnects of Call and of the readers overlap.
Serves(r) ==
  \/ pc[r] \in {"top", "deliver", "fail", "sending", "failed", "redial"}
  \/ pc[r] = "read" /\ rd[r] = conn

CurrentConnHasReader ==
  conn # 0 /\ ~closed => \E r \in Reader : Serves(r)

\* While no two readers have shared a connection, what is sent to an
\* invocation's channel, and what it returns, is its own reply, whatever
\* connection the reply came over and whoever delivered it.
RepliesAreOwn ==
  ~raced =>
    \A c \in Call : /\ outcome[c] # "foreign"
                    /\ chan[c] \in {0, Lost, c}

\* A goroutine sends with the mutex held to a channel that only a goroutine
\* waiting for the mutex could empty: the client never moves again.  Or only
\* one whose write blocks could: it does not move as long as that lasts.
Wedged ==
  \E r \in Reader :
    /\ pc[r] = "sending" /\ chan[tgt] # 0
    /\ pc[tgt] \in {"send", "broken", "cleanup"} \/ MayBlock(tgt)

\* Every call that has started returns, by reply, error or deadline, with two
\* exceptions: the client wedges, or the write of this call blocks for ever, on
\* a connection that stays up with a manager that does not read.
CallReturns ==
  \A c \in Call :
    pc[c] # "new" ~> (pc[c] = "done" \/ [](Wedged \/ MayBlock(c)))

\* After Close a moment comes when no reader goroutine is left, except on a
\* connection that the client lost track of without closing it, unless the
\* client wedges.
ReadersStop ==
  closed ~> \/ []Wedged
            \/ \A r \in Reader : \/ pc[r] = "off"
                                 \/ pc[r] = "read" /\ rd[r] # conn

\* Every call returns at most once, with its own reply only if the manager
\* gave one, under a number no other call has.
RpcSpec == INSTANCE RpcCalls WITH
  issued <- reqID,
  number <- cid

ImplementsRpcCalls == RpcSpec!CallsSpec

\* docs/tools/mcp-tools-test-report.md:136 promises that the timeout of one
\* request does not bring the whole server down: on a client that is not
\* closed, the goroutine that holds the mutex never waits for room in the
\* channel of a call that has already timed out (that call empties its
\* channel no more, and waits for the mutex).
TimeoutIsHarmless ==
  ~closed =>
    \A r \in Reader :
      pc[r] = "sending" /\ chan[tgt] # 0 => outcome[tgt] # "timeout"

=============================================================================
