------------------------ MODULE SessionClientProofs ------------------------
(***************************************************************************)
(* Theorems about SessionClient, for any set of calls, any number of       *)
(* reader goroutines and any number of dials: types, the pending map, the  *)
(* readers; what the calls return; and that the client implements          *)
(* RpcCalls.                                                               *)
(***************************************************************************)
EXTENDS SessionClient, TLAPS

\* The mutex is held across actions by the goroutine that is sending, and by
\* no other; it then has a target.
MutexOK ==
  /\ \A r \in Reader : pc[r] = "sending" <=> mu = r
  /\ mu # Free => tgt \in Call

IInv == TypeOK /\ MutexOK

-----------------------------------------------------------------------------
(* What a step does to the program counters. *)

\* No goroutine is both a call and a reader of the session client.
LEMMA Processes ==
  /\ \A r \in Reader : r \in Proc /\ r \notin Call
  /\ \A c \in Call : c \in Proc /\ c \notin Reader
  BY ConstantsOK DEF Proc

\* Moving one goroutine to a place of its own kind keeps the places of the
\* others.
LEMMA GotoEffect ==
  ASSUME PcOK, NEW p \in Proc, NEW l, Goto(p, l),
         p \in Call => l \in CallPC, p \in Reader => l \in ReaderPC
  PROVE  /\ PcOK'
         /\ pc'[p] = l
         /\ \A q \in Proc : q # p => pc'[q] = pc[q]
  BY DEF PcOK, Goto, Proc

\* A call that moves stays a call; nobody else moves.
LEMMA CallGoto ==
  ASSUME PcOK, NEW c \in Call, NEW l \in CallPC, Goto(c, l)
  PROVE  /\ PcOK'
         /\ pc'[c] = l
         /\ \A q \in Proc : q # c => pc'[q] = pc[q]
  BY GotoEffect, Processes

\* A reader that moves stays a reader; nobody else moves.
LEMMA ReaderGoto ==
  ASSUME PcOK, NEW r \in Reader, NEW l \in ReaderPC, Goto(r, l)
  PROVE  /\ PcOK'
         /\ pc'[r] = l
         /\ \A q \in Proc : q # r => pc'[q] = pc[q]
  BY GotoEffect, Processes

\* A connection with nothing on it is a sequence of anything.
LEMMA EmptySeq == \A S : << >> \in Seq(S)
  OBVIOUS

\* What is appended to a connection keeps its type.
LEMMA AppendSeq ==
  ASSUME NEW S, NEW s \in Seq(S), NEW e \in S
  PROVE  Append(s, e) \in Seq(S)
  OBVIOUS

-----------------------------------------------------------------------------

\* The client as NewSessionClient leaves it satisfies the inductive invariant.
LEMMA InitIInv == Init => IInv
<1> SUFFICES ASSUME Init PROVE IInv
  OBVIOUS
<1> USE Processes, ConstantsOK DEF Init
<1>1. FieldsOK
  <2>1. mu = Free /\ conn = 0 /\ reqID = 0 /\ pending = {}
    OBVIOUS
  <2>2. closed \in BOOLEAN
    OBVIOUS
  <2> HIDE DEF Init
  <2> QED
    BY <2>1, <2>2 DEF FieldsOK
<1>2. PcOK
  BY DEF PcOK, CallPC, ReaderPC, Proc
<1>3. CallsOK
  BY DEF CallsOK
<1>4. ReadersOK
  BY DEF ReadersOK
<1>5. NetworkOK
  <2>1. /\ dialed = 0 /\ link = [k \in Conn |-> "none"]
        /\ sent = [k \in Conn |-> << >>]
        /\ resps = [k \in Conn |-> << >>]
        /\ answered = {}
    OBVIOUS
  <2>2. raced \in BOOLEAN
    OBVIOUS
  <2> HIDE DEF Init
  <2> QED
    BY <2>1, <2>2, EmptySeq DEF NetworkOK
<1>6. NoNilConn
  BY DEF NoNilConn, Proc
<1>7. MutexOK
  BY DEF MutexOK, Proc
<1> QED
  BY <1>1, <1>2, <1>3, <1>4, <1>5, <1>6, <1>7 DEF IInv, TypeOK

\* Every step of a call, a reader, Close or the network keeps the inductive
\* invariant.
LEMMA NextIInv == IInv /\ [Next]_vars => IInv'
<1> SUFFICES ASSUME IInv, [Next]_vars PROVE IInv'
  OBVIOUS
<1> USE Processes, ConstantsOK DEF fields, calls, readers, network, history
<1>0. /\ FieldsOK /\ PcOK /\ CallsOK /\ ReadersOK /\ NetworkOK /\ NoNilConn
      /\ MutexOK
  BY DEF IInv, TypeOK
<1>1. ASSUME NEW r \in Reader, Connect(r) PROVE IInv'
  <2>1. PcOK' /\ pc'[r] \in {"top"}
        /\ \A q \in Proc : q # r => pc'[q] = pc[q]
    BY <1>0, <1>1, ReaderGoto DEF Connect, CallPC, ReaderPC, Install
  <2>2. CallsOK' /\ ReadersOK'
    BY <1>0, <1>1 DEF Connect, CallsOK, ReadersOK, Install
  <2>3. FieldsOK'
    BY <1>0, <1>1 DEF Connect, FieldsOK, Install, NetworkOK
  <2>4. NetworkOK'
    BY <1>0, <1>1 DEF Connect, NetworkOK, Install, Conn
  <2>5. NoNilConn'
    BY <1>0, <1>1, <2>1 DEF Connect, NoNilConn, FieldsOK, CallsOK, ReadersOK,
       Proc, Install
  <2>6. MutexOK'
    BY <1>0, <1>1, <2>1 DEF Connect, MutexOK, FieldsOK, Proc, Install
  <2> QED
    BY <2>1, <2>2, <2>3, <2>4, <2>5, <2>6 DEF IInv, TypeOK
<1>2. ASSUME NEW r \in Reader, ReadTop(r) PROVE IInv'
  <2>1. /\ PcOK' /\ pc'[r] \in {"read", "off"}
        /\ pc'[r] = "read" => conn # 0 /\ rd' = [rd EXCEPT ![r] = conn]
        /\ pc'[r] = "off" => rd' = rd
        /\ \A q \in Proc : q # r => pc'[q] = pc[q]
    <3>1. CASE Goto(r, "read") /\ conn # 0 /\ rd' = [rd EXCEPT ![r] = conn]
      BY <1>0, <3>1, ReaderGoto DEF ReaderPC
    <3>2. CASE Goto(r, "off") /\ rd' = rd
      BY <1>0, <3>2, ReaderGoto DEF ReaderPC
    <3> QED
      BY <1>2, <3>1, <3>2 DEF ReadTop
  <2>2. FieldsOK' /\ CallsOK' /\ NetworkOK'
    BY <1>0, <1>2 DEF ReadTop, FieldsOK, CallsOK, NetworkOK
  <2>3. ReadersOK'
    BY <1>0, <1>2 DEF ReadTop, ReadersOK, FieldsOK
  <2>4. NoNilConn'
    BY <1>0, <1>2, <2>1 DEF ReadTop, NoNilConn, FieldsOK, CallsOK, ReadersOK,
       Proc
  <2>5. MutexOK'
    BY <1>0, <1>2, <2>1 DEF ReadTop, MutexOK, FieldsOK, Proc
  <2> QED
    BY <2>1, <2>2, <2>3, <2>4, <2>5 DEF IInv, TypeOK
<1>3. ASSUME NEW r \in Reader, ReadLine(r) PROVE IInv'
  <2>1. PcOK' /\ pc'[r] \in {"deliver"}
        /\ \A q \in Proc : q # r => pc'[q] = pc[q]
    BY <1>0, <1>3, ReaderGoto DEF ReadLine, CallPC, ReaderPC
  <2>2. FieldsOK' /\ CallsOK'
    BY <1>0, <1>3 DEF ReadLine, FieldsOK, CallsOK
  <2>3. ReadersOK'
    BY <1>0, <1>3 DEF ReadLine, ReadersOK, NetworkOK, NoNilConn, Conn
  <2>4. NetworkOK'
    BY <1>0, <1>3 DEF ReadLine, NetworkOK, ReadersOK, NoNilConn, Conn
  <2>5. NoNilConn'
    BY <1>0, <1>3, <2>1 DEF ReadLine, NoNilConn, FieldsOK, CallsOK, ReadersOK,
       Proc
  <2>6. MutexOK'
    BY <1>0, <1>3, <2>1 DEF ReadLine, MutexOK, FieldsOK, Proc
  <2> QED
    BY <2>1, <2>2, <2>3, <2>4, <2>5, <2>6 DEF IInv, TypeOK
<1>4. ASSUME NEW r \in Reader, ReadError(r) PROVE IInv'
  <2>1. PcOK' /\ pc'[r] \in {"fail"}
        /\ \A q \in Proc : q # r => pc'[q] = pc[q]
    BY <1>0, <1>4, ReaderGoto DEF ReadError, CallPC, ReaderPC
  <2>2. FieldsOK' /\ CallsOK'
    BY <1>0, <1>4 DEF ReadError, FieldsOK, CallsOK
  <2>3. ReadersOK'
    BY <1>0, <1>4 DEF ReadError, ReadersOK
  <2>4. NetworkOK'
    <3>1. /\ resps' = [resps EXCEPT ![rd[r]] = << >>]
          /\ UNCHANGED <<dialed, link, sent, history>>
      BY <1>4 DEF ReadError
    <3> QED
      BY <1>0, <3>1, EmptySeq DEF NetworkOK
  <2>5. NoNilConn'
    BY <1>0, <1>4, <2>1 DEF ReadError, NoNilConn, FieldsOK, CallsOK,
       ReadersOK, Proc
  <2>6. MutexOK'
    BY <1>0, <1>4, <2>1 DEF ReadError, MutexOK, FieldsOK, Proc
  <2> QED
    BY <2>1, <2>2, <2>3, <2>4, <2>5, <2>6 DEF IInv, TypeOK
<1>5. ASSUME NEW r \in Reader, Deliver(r) PROVE IInv'
  <2>1. /\ PcOK' /\ mu = Free
        /\ \/ pc'[r] = "top" /\ mu' = mu
           \/ pc'[r] = "sending" /\ mu' = r /\ tgt' \in pending
        /\ \A q \in Proc : q # r => pc'[q] = pc[q]
    BY <1>0, <1>5, ReaderGoto DEF Deliver, CallPC, ReaderPC
  <2>2. NetworkOK'
    BY <1>0, <1>5 DEF Deliver, NetworkOK
  <2>3. FieldsOK'
    BY <1>0, <1>5 DEF Deliver, FieldsOK
  <2>4. CallsOK'
    BY <1>0, <1>5 DEF Deliver, CallsOK, ReadersOK, FieldsOK, Line, NoLine
  <2>5. ReadersOK'
    BY <1>0, <1>5 DEF Deliver, ReadersOK, FieldsOK
  <2>6. NoNilConn'
    BY <1>0, <1>5, <2>1 DEF Deliver, NoNilConn, FieldsOK, CallsOK, ReadersOK,
       Proc
  <2>7. MutexOK'
    BY <1>0, <1>5, <2>1 DEF Deliver, MutexOK, FieldsOK, Proc
  <2> QED
    BY <2>1, <2>2, <2>3, <2>4, <2>5, <2>6, <2>7 DEF IInv, TypeOK
<1>6. ASSUME NEW r \in Reader, FailAll(r) PROVE IInv'
  <2>1. /\ PcOK' /\ mu = Free
        /\ \/ pc'[r] = "failed" /\ mu' = mu
           \/ pc'[r] = "sending" /\ mu' = r /\ tgt' \in pending
        /\ \A q \in Proc : q # r => pc'[q] = pc[q]
    BY <1>0, <1>6, ReaderGoto DEF FailAll, CallPC, ReaderPC
  <2>2. CallsOK' /\ NetworkOK'
    BY <1>0, <1>6 DEF FailAll, CallsOK, NetworkOK
  <2>3. FieldsOK'
    BY <1>0, <1>6 DEF FailAll, FieldsOK
  <2>4. ReadersOK'
    BY <1>0, <1>6 DEF FailAll, ReadersOK, FieldsOK
  <2>5. NoNilConn'
    BY <1>0, <1>6, <2>1 DEF FailAll, NoNilConn, FieldsOK, CallsOK, ReadersOK,
       Proc
  <2>6. MutexOK'
    BY <1>0, <1>6, <2>1 DEF FailAll, MutexOK, FieldsOK, Proc
  <2> QED
    BY <2>1, <2>2, <2>3, <2>4, <2>5, <2>6 DEF IInv, TypeOK
<1>7. ASSUME NEW r \in Reader, Send(r) PROVE IInv'
  <2>1. PcOK' /\ \/ mu' = mu /\ pc' = pc /\ tgt' \in todo
                 \/ /\ mu' = Free /\ pc'[r] \in {"failed", "top"}
                    /\ \A q \in Proc : q # r => pc'[q] = pc[q]
    <3>1. CASE todo = {}
      BY <1>0, <1>7, <3>1, ReaderGoto DEF Send, ReaderPC
    <3>2. CASE todo # {}
      BY <1>0, <1>7, <3>2 DEF Send, PcOK
    <3> QED
      BY <3>1, <3>2
  <2>2. NetworkOK'
    BY <1>0, <1>7 DEF Send, NetworkOK
  <2>3. FieldsOK'
    BY <1>0, <1>7 DEF Send, FieldsOK
  <2>4. CallsOK'
    <3>1. got[r].val \in Call \cup {Lost, 0}
      <4>1. got[r] \in Line \cup {NoLine}
        BY <1>0 DEF ReadersOK
      <4> QED
        BY <4>1 DEF Line, NoLine
    <3> QED
      BY <1>0, <1>7, <3>1 DEF CallsOK, Send
  <2>5. ReadersOK'
    BY <1>0, <1>7 DEF Send, ReadersOK
  <2>6. NoNilConn'
    BY <1>0, <1>7, <2>1 DEF Send, NoNilConn, FieldsOK, CallsOK, ReadersOK,
       Proc
  <2>7. MutexOK'
    <3>0. mu = r
      BY <1>0, <1>7 DEF Send, MutexOK
    <3>1. CASE mu' = mu /\ pc' = pc /\ tgt' \in todo
      BY <1>0, <3>1 DEF MutexOK, ReadersOK
    <3>2. CASE /\ mu' = Free /\ pc'[r] \in {"failed", "top"}
               /\ \A q \in Proc : q # r => pc'[q] = pc[q]
      BY <1>0, <3>0, <3>2 DEF MutexOK
    <3> QED
      BY <2>1, <3>1, <3>2
  <2> QED
    BY <2>1, <2>2, <2>3, <2>4, <2>5, <2>6, <2>7 DEF IInv, TypeOK
<1>8. ASSUME NEW r \in Reader, AfterFail(r) PROVE IInv'
  <2>1. PcOK' /\ pc'[r] \in {"off", "redial"}
        /\ \A q \in Proc : q # r => pc'[q] = pc[q]
    BY <1>0, <1>8, ReaderGoto DEF AfterFail, CallPC, ReaderPC
  <2>2. FieldsOK' /\ CallsOK' /\ ReadersOK' /\ NetworkOK'
    BY <1>0, <1>8 DEF AfterFail, FieldsOK, CallsOK, ReadersOK, NetworkOK
  <2>3. NoNilConn'
    BY <1>0, <1>8, <2>1 DEF AfterFail, NoNilConn, FieldsOK, CallsOK,
       ReadersOK, Proc
  <2>4. MutexOK'
    BY <1>0, <1>8, <2>1 DEF AfterFail, MutexOK, FieldsOK, Proc
  <2> QED
    BY <2>1, <2>2, <2>3, <2>4 DEF IInv, TypeOK
<1>9. ASSUME NEW c \in Call, CallStart(c) PROVE IInv'
  <2>1. PcOK' /\ pc'[c] \in {"send", "done", "redial"}
        /\ \A q \in Proc : q # c => pc'[q] = pc[q]
    BY <1>0, <1>9, CallGoto DEF CallStart, CallPC, ReaderPC, Register,
       Refused, Return
  <2>2. ReadersOK' /\ NetworkOK'
    BY <1>0, <1>9 DEF CallStart, ReadersOK, NetworkOK, Register, Refused,
       Return
  <2>3. FieldsOK'
    BY <1>0, <1>9 DEF CallStart, FieldsOK, Register, Refused, Return
  <2>4. CallsOK'
    BY <1>0, <1>9 DEF CallStart, CallsOK, Register, Refused, Return, FieldsOK
  <2>5. NoNilConn'
    BY <1>0, <1>9, <2>1 DEF CallStart, NoNilConn, FieldsOK, CallsOK,
       ReadersOK, Proc, Register, Refused, Return
  <2>6. MutexOK'
    BY <1>0, <1>9, <2>1 DEF CallStart, MutexOK, FieldsOK, Proc, Register,
       Refused, Return
  <2> QED
    BY <2>1, <2>2, <2>3, <2>4, <2>5, <2>6 DEF IInv, TypeOK
<1>10. ASSUME NEW c \in Call, CallRelock(c) PROVE IInv'
  <2>1. PcOK' /\ pc'[c] \in {"send", "done"}
        /\ \A q \in Proc : q # c => pc'[q] = pc[q]
    BY <1>0, <1>10, CallGoto DEF CallRelock, CallPC, ReaderPC, Register,
       Refused, Return
  <2>2. ReadersOK' /\ NetworkOK'
    BY <1>0, <1>10 DEF CallRelock, ReadersOK, NetworkOK, Register, Refused,
       Return
  <2>3. FieldsOK'
    BY <1>0, <1>10 DEF CallRelock, FieldsOK, Register, Refused, Return
  <2>4. CallsOK'
    BY <1>0, <1>10 DEF CallRelock, CallsOK, Register, Refused, Return,
       FieldsOK
  <2>5. NoNilConn'
    BY <1>0, <1>10, <2>1 DEF CallRelock, NoNilConn, FieldsOK, CallsOK,
       ReadersOK, Proc, Register, Refused, Return
  <2>6. MutexOK'
    BY <1>0, <1>10, <2>1 DEF CallRelock, MutexOK, FieldsOK, Proc, Register,
       Refused, Return
  <2> QED
    BY <2>1, <2>2, <2>3, <2>4, <2>5, <2>6 DEF IInv, TypeOK
<1>11. ASSUME NEW c \in Call, CallTakeConn(c) PROVE IInv'
  <2>1. /\ PcOK' /\ pc'[c] \in {"write", "cleanup"}
        /\ pc'[c] = "write" => conn # 0
        /\ \A q \in Proc : q # c => pc'[q] = pc[q]
    BY <1>0, <1>11, CallGoto DEF CallTakeConn, CallPC, ReaderPC, Return
  <2>2. FieldsOK' /\ ReadersOK' /\ NetworkOK'
    BY <1>0, <1>11 DEF CallTakeConn, FieldsOK, ReadersOK, NetworkOK, Return
  <2>3. CallsOK'
    BY <1>0, <1>11 DEF CallTakeConn, CallsOK, Return, FieldsOK
  <2>4. NoNilConn'
    BY <1>0, <1>11, <2>1 DEF CallTakeConn, NoNilConn, FieldsOK, CallsOK,
       ReadersOK, Proc, Return
  <2>5. MutexOK'
    BY <1>0, <1>11, <2>1 DEF CallTakeConn, MutexOK, FieldsOK, Proc, Return
  <2> QED
    BY <2>1, <2>2, <2>3, <2>4, <2>5 DEF IInv, TypeOK
<1>12. ASSUME NEW c \in Call, CallWrite(c) PROVE IInv'
  <2>1. PcOK' /\ pc'[c] \in {"wait", "broken"}
        /\ \A q \in Proc : q # c => pc'[q] = pc[q]
    BY <1>0, <1>12, CallGoto DEF CallWrite, CallPC, ReaderPC
  <2>2. FieldsOK' /\ ReadersOK'
    BY <1>0, <1>12 DEF CallWrite, FieldsOK, ReadersOK
  <2>3. CallsOK'
    BY <1>0, <1>12 DEF CallWrite, CallsOK
  <2>4. NetworkOK'
    <3>1. wconn[c] \in Conn
      BY <1>0, <1>12 DEF CallsOK, NoNilConn, Conn, CallWrite
    <3>2. CASE sent' = [sent EXCEPT ![wconn[c]] = Append(@, c)]
      BY <1>0, <1>12, <3>1, <3>2, AppendSeq DEF NetworkOK, CallWrite
    <3>3. CASE sent' = sent
      BY <1>0, <1>12, <3>3 DEF NetworkOK, CallWrite
    <3> QED
      BY <1>12, <3>2, <3>3 DEF CallWrite
  <2>5. NoNilConn'
    BY <1>0, <1>12, <2>1 DEF CallWrite, NoNilConn, FieldsOK, CallsOK,
       ReadersOK, Proc
  <2>6. MutexOK'
    BY <1>0, <1>12, <2>1 DEF CallWrite, MutexOK, FieldsOK, Proc
  <2> QED
    BY <2>1, <2>2, <2>3, <2>4, <2>5, <2>6 DEF IInv, TypeOK
<1>13. ASSUME NEW c \in Call, CallBroken(c) PROVE IInv'
  <2>1. PcOK' /\ pc'[c] \in {"cleanup"}
        /\ \A q \in Proc : q # c => pc'[q] = pc[q]
    BY <1>0, <1>13, CallGoto DEF CallBroken, CallPC, ReaderPC, Return
  <2>2. ReadersOK' /\ NetworkOK'
    BY <1>0, <1>13 DEF CallBroken, ReadersOK, NetworkOK, Return
  <2>3. FieldsOK'
    BY <1>0, <1>13 DEF CallBroken, FieldsOK, Return
  <2>4. CallsOK'
    BY <1>0, <1>13 DEF CallBroken, CallsOK, Return
  <2>5. NoNilConn'
    BY <1>0, <1>13, <2>1 DEF CallBroken, NoNilConn, FieldsOK, CallsOK,
       ReadersOK, Proc, Return
  <2>6. MutexOK'
    BY <1>0, <1>13, <2>1 DEF CallBroken, MutexOK, FieldsOK, Proc, Return
  <2> QED
    BY <2>1, <2>2, <2>3, <2>4, <2>5, <2>6 DEF IInv, TypeOK
<1>14. ASSUME NEW c \in Call, CallReceive(c) PROVE IInv'
  <2>1. PcOK' /\ pc'[c] \in {"cleanup"}
        /\ \A q \in Proc : q # c => pc'[q] = pc[q]
    BY <1>0, <1>14, CallGoto DEF CallReceive, CallPC, ReaderPC, Return,
       Verdict
  <2>2. FieldsOK' /\ ReadersOK' /\ NetworkOK'
    BY <1>0, <1>14 DEF CallReceive, FieldsOK, ReadersOK, NetworkOK, Return,
       Verdict
  <2>3. CallsOK'
    BY <1>0, <1>14 DEF CallReceive, CallsOK, Return, Verdict
  <2>4. NoNilConn'
    BY <1>0, <1>14, <2>1 DEF CallReceive, NoNilConn, FieldsOK, CallsOK,
       ReadersOK, Proc, Return, Verdict
  <2>5. MutexOK'
    BY <1>0, <1>14, <2>1 DEF CallReceive, MutexOK, FieldsOK, Proc, Return,
       Verdict
  <2> QED
    BY <2>1, <2>2, <2>3, <2>4, <2>5 DEF IInv, TypeOK
<1>15. ASSUME NEW c \in Call, CallTimeout(c) PROVE IInv'
  <2>1. PcOK' /\ pc'[c] \in {"cleanup"}
        /\ \A q \in Proc : q # c => pc'[q] = pc[q]
    BY <1>0, <1>15, CallGoto DEF CallTimeout, CallPC, ReaderPC, Return
  <2>2. FieldsOK' /\ ReadersOK' /\ NetworkOK'
    BY <1>0, <1>15 DEF CallTimeout, FieldsOK, ReadersOK, NetworkOK, Return
  <2>3. CallsOK'
    BY <1>0, <1>15 DEF CallTimeout, CallsOK, Return
  <2>4. NoNilConn'
    BY <1>0, <1>15, <2>1 DEF CallTimeout, NoNilConn, FieldsOK, CallsOK,
       ReadersOK, Proc, Return
  <2>5. MutexOK'
    BY <1>0, <1>15, <2>1 DEF CallTimeout, MutexOK, FieldsOK, Proc, Return
  <2> QED
    BY <2>1, <2>2, <2>3, <2>4, <2>5 DEF IInv, TypeOK
<1>16. ASSUME NEW c \in Call, CallCleanup(c) PROVE IInv'
  <2>1. PcOK' /\ pc'[c] \in {"done"}
        /\ \A q \in Proc : q # c => pc'[q] = pc[q]
    BY <1>0, <1>16, CallGoto DEF CallCleanup, CallPC, ReaderPC
  <2>2. ReadersOK' /\ NetworkOK'
    BY <1>0, <1>16 DEF CallCleanup, ReadersOK, NetworkOK
  <2>3. FieldsOK'
    BY <1>0, <1>16 DEF CallCleanup, FieldsOK
  <2>4. CallsOK'
    BY <1>0, <1>16 DEF CallCleanup, CallsOK
  <2>5. NoNilConn'
    BY <1>0, <1>16, <2>1 DEF CallCleanup, NoNilConn, FieldsOK, CallsOK,
       ReadersOK, Proc
  <2>6. MutexOK'
    BY <1>0, <1>16, <2>1 DEF CallCleanup, MutexOK, FieldsOK, Proc
  <2> QED
    BY <2>1, <2>2, <2>3, <2>4, <2>5, <2>6 DEF IInv, TypeOK
<1>17. ASSUME NEW p \in Proc, CloseOld(p) PROVE IInv'
  <2>1. PcOK' /\ pc'[p] \in {"dial"}
        /\ \A q \in Proc : q # p => pc'[q] = pc[q]
    BY <1>0, <1>17, GotoEffect DEF CloseOld, CallPC, ReaderPC, Shut
  <2>2. CallsOK' /\ ReadersOK'
    BY <1>0, <1>17 DEF CloseOld, CallsOK, ReadersOK, Shut
  <2>3. FieldsOK'
    BY <1>0, <1>17 DEF CloseOld, FieldsOK, Shut
  <2>4. NetworkOK'
    BY <1>0, <1>17 DEF CloseOld, NetworkOK, Shut
  <2>5. NoNilConn'
    BY <1>0, <1>17, <2>1 DEF CloseOld, NoNilConn, FieldsOK, CallsOK,
       ReadersOK, Proc, Shut
  <2>6. MutexOK'
    BY <1>0, <1>17, <2>1 DEF CloseOld, MutexOK, FieldsOK, Proc, Shut
  <2> QED
    BY <2>1, <2>2, <2>3, <2>4, <2>5, <2>6 DEF IInv, TypeOK
<1>18. ASSUME NEW p \in Proc, DialFail(p) PROVE IInv'
  <2>1. PcOK' /\ pc'[p] \in {"off", "done"}
        /\ \A q \in Proc : q # p => pc'[q] = pc[q]
    BY <1>0, <1>18, GotoEffect DEF DialFail, CallPC, ReaderPC, Return
  <2>2. FieldsOK' /\ ReadersOK' /\ NetworkOK'
    BY <1>0, <1>18 DEF DialFail, FieldsOK, ReadersOK, NetworkOK, Return
  <2>3. CallsOK'
    BY <1>0, <1>18 DEF DialFail, CallsOK, Return
  <2>4. NoNilConn'
    BY <1>0, <1>18, <2>1 DEF DialFail, NoNilConn, FieldsOK, CallsOK,
       ReadersOK, Proc, Return
  <2>5. MutexOK'
    BY <1>0, <1>18, <2>1 DEF DialFail, MutexOK, FieldsOK, Proc, Return
  <2> QED
    BY <2>1, <2>2, <2>3, <2>4, <2>5 DEF IInv, TypeOK
<1>19. ASSUME NEW p \in Proc, DialOK(p) PROVE IInv'
  <2>1. PcOK' /\ \A q \in Proc : \/ pc'[q] = pc[q]
                             \/ /\ pc'[q] \in {"top", "relock"}
                                /\ pc[q] # "sending"
    <3>1. CASE p \in Reader
      BY <1>0, <1>19, <3>1, ReaderGoto DEF DialOK, ReaderPC
    <3>2. CASE p \in Call
      <4>1. PICK r \in Reader :
              /\ pc[r] = "off"
              /\ pc' = [pc EXCEPT ![p] = "relock", ![r] = "top"]
        BY <1>19, <3>2 DEF DialOK
      <4>2. /\ PcOK' /\ pc'[p] = "relock" /\ pc'[r] = "top"
            /\ \A s \in Proc : s # p /\ s # r => pc'[s] = pc[s]
        BY <1>0, <3>2, <4>1 DEF PcOK, Proc, CallPC, ReaderPC
      <4> QED
        BY <1>19, <4>1, <4>2 DEF DialOK
    <3> QED
      BY <3>1, <3>2 DEF Proc
  <2>2. CallsOK' /\ ReadersOK'
    BY <1>0, <1>19 DEF DialOK, CallsOK, ReadersOK, Install
  <2>3. FieldsOK'
    BY <1>0, <1>19 DEF DialOK, FieldsOK, Install, NetworkOK
  <2>4. NetworkOK'
    BY <1>0, <1>19 DEF DialOK, NetworkOK, Install, Conn
  <2>5. NoNilConn'
    BY <1>0, <1>19, <2>1 DEF DialOK, NoNilConn, FieldsOK, CallsOK, ReadersOK,
       Proc, Install
  <2>6. MutexOK'
    BY <1>0, <1>19, <2>1 DEF DialOK, MutexOK, FieldsOK, Proc, Install
  <2> QED
    BY <2>1, <2>2, <2>3, <2>4, <2>5, <2>6 DEF IInv, TypeOK
<1>20. ASSUME NEW r \in Reader, NEW s \in Reader, ReadRacing(r, s) PROVE IInv'
  <2>1. /\ PcOK' /\ pc'[r] \in {"top", "deliver"}
        /\ \/ pc'[s] = "read" /\ rd'[s] = rd[s]
           \/ pc'[s] = "deliver"
        /\ \A q \in Proc : q # r /\ q # s => pc'[q] = pc[q]
        /\ \A q \in Reader : q # r /\ q # s => rd'[q] = rd[q]
    <3>1. CASE Goto(r, "top") /\ rd' = [rd EXCEPT ![r] = 0]
      BY <1>0, <1>20, <3>1, ReaderGoto DEF ReadRacing, ReaderPC, ReadersOK
    <3>2. CASE /\ pc' = [pc EXCEPT ![r] = "deliver", ![s] = "deliver"]
               /\ rd' = [rd EXCEPT ![r] = 0, ![s] = 0]
      <4>1. r # s
        BY <1>20 DEF ReadRacing
      <4> QED
        BY <1>0, <3>2, <4>1 DEF PcOK, Proc, CallPC, ReaderPC, ReadersOK
    <3>3. CASE Goto(r, "deliver") /\ rd' = [rd EXCEPT ![r] = 0]
      BY <1>0, <1>20, <3>3, ReaderGoto DEF ReadRacing, ReaderPC, ReadersOK
    <3> QED
      BY <1>20, <3>1, <3>2, <3>3 DEF ReadRacing
  <2>2. FieldsOK' /\ CallsOK'
    BY <1>0, <1>20 DEF ReadRacing, FieldsOK, CallsOK
  <2>3. ReadersOK'
    <3>1. rd[r] \in Conn
      BY <1>0, <1>20 DEF ReadRacing, ReadersOK, NoNilConn, Conn
    <3>2. resps[rd[r]] \in Seq(Line)
      BY <1>0, <3>1 DEF NetworkOK
    <3>3. Head(resps[rd[r]]) \in Line
      BY <1>20, <3>2 DEF ReadRacing
    <3>4. \A i \in 1 .. Len(resps[rd[r]]) :
            [id |-> Head(resps[rd[r]]).id, val |-> resps[rd[r]][i].val] \in Line
      <4>1. \A i \in 1 .. Len(resps[rd[r]]) : resps[rd[r]][i] \in Line
        BY <3>2
      <4> QED
        BY <3>3, <4>1 DEF Line
    <3>5. rd' \in [Reader -> 0 .. MaxConns]
      BY <1>0, <1>20 DEF ReadRacing, ReadersOK
    <3>6. got' \in [Reader -> Line \cup {NoLine}]
      BY <1>0, <1>20, <3>3, <3>4 DEF ReadRacing, ReadersOK
    <3> QED
      BY <1>0, <1>20, <3>5, <3>6 DEF ReadersOK, ReadRacing
  <2>4. NetworkOK'
    BY <1>0, <1>20 DEF ReadRacing, NetworkOK, ReadersOK, NoNilConn, Conn
  <2>5. NoNilConn'
    BY <1>0, <1>20, <2>1 DEF ReadRacing, NoNilConn, FieldsOK, CallsOK,
       ReadersOK, Proc
  <2>6. MutexOK'
    BY <1>0, <1>20, <2>1 DEF ReadRacing, MutexOK, FieldsOK, Proc
  <2> QED
    BY <2>1, <2>2, <2>3, <2>4, <2>5, <2>6 DEF IInv, TypeOK
<1>21. ASSUME Close PROVE IInv'
  <2>1. FieldsOK' /\ PcOK' /\ CallsOK' /\ ReadersOK' /\ NoNilConn' /\ MutexOK'
    BY <1>0, <1>21 DEF Close, FieldsOK, PcOK, CallsOK, ReadersOK, NoNilConn,
       MutexOK, Shut
  <2>2. NetworkOK'
    BY <1>0, <1>21, EmptySeq DEF Close, NetworkOK, Shut
  <2> QED
    BY <2>1, <2>2 DEF IInv, TypeOK
<1>22. ASSUME NEW k \in Conn, Answer(k) PROVE IInv'
  <2>1. FieldsOK' /\ PcOK' /\ CallsOK' /\ ReadersOK' /\ NoNilConn' /\ MutexOK'
    BY <1>0, <1>22 DEF Answer, FieldsOK, PcOK, CallsOK, ReadersOK, NoNilConn,
       MutexOK
  <2>2. NetworkOK'
    <3>1. /\ sent[k] \in Seq(Call) /\ sent[k] # << >>
          /\ sent' = [sent EXCEPT ![k] = Tail(sent[k])]
          /\ resps' = [resps EXCEPT ![k] =
               Append(resps[k], [id |-> cid[Head(sent[k])],
                                 val |-> Head(sent[k])])]
          /\ answered' = answered \cup {cid[Head(sent[k])]}
          /\ UNCHANGED <<dialed, link, raced>>
      BY <1>0, <1>22 DEF NetworkOK, Answer
    <3>2. Head(sent[k]) \in Call /\ Tail(sent[k]) \in Seq(Call)
      BY <3>1
    <3>3. cid[Head(sent[k])] \in Nat
      BY <1>0, <3>2 DEF CallsOK
    <3>4. [id |-> cid[Head(sent[k])], val |-> Head(sent[k])] \in Line
      BY <3>2, <3>3 DEF Line
    <3>5. Append(resps[k], [id |-> cid[Head(sent[k])], val |-> Head(sent[k])])
            \in Seq(Line)
      BY <1>0, <3>4, AppendSeq DEF NetworkOK
    <3> QED
      BY <1>0, <3>1, <3>2, <3>3, <3>5 DEF NetworkOK
  <2> QED
    BY <2>1, <2>2 DEF IInv, TypeOK
<1>23. ASSUME NEW k \in Conn, Lose(k) PROVE IInv'
  <2>1. FieldsOK' /\ PcOK' /\ CallsOK' /\ ReadersOK' /\ NoNilConn' /\ MutexOK'
    BY <1>0, <1>23 DEF Lose, FieldsOK, PcOK, CallsOK, ReadersOK, NoNilConn,
       MutexOK
  <2>2. NetworkOK'
    BY <1>0, <1>23, EmptySeq DEF Lose, NetworkOK
  <2> QED
    BY <2>1, <2>2 DEF IInv, TypeOK
<1>24. ASSUME UNCHANGED vars PROVE IInv'
  <2>1. FieldsOK' /\ PcOK' /\ CallsOK' /\ ReadersOK' /\ NoNilConn' /\ MutexOK'
    BY <1>0, <1>24 DEF vars, FieldsOK, PcOK, CallsOK, ReadersOK, NoNilConn,
       MutexOK
  <2>2. NetworkOK'
    BY <1>0, <1>24 DEF vars, NetworkOK, Conn, Line
  <2> QED
    BY <2>1, <2>2 DEF IInv, TypeOK
<1> QED
  BY <1>1, <1>2, <1>3, <1>4, <1>5, <1>6, <1>7, <1>8, <1>9, <1>10, <1>11,
     <1>12, <1>13, <1>14, <1>15, <1>16, <1>17, <1>18, <1>19, <1>20, <1>21,
     <1>22, <1>23, <1>24
  DEF Next, ReaderStep, CallStep, Redial

-----------------------------------------------------------------------------
\* Every field, local and message keeps its type, and no goroutine ever reads
\* from or writes to a nil connection.
THEOREM TypeCorrect == Spec => []TypeOK
<1>1. IInv => TypeOK
  BY DEF IInv
<1> QED
  BY InitIInv, NextIInv, <1>1, PTL DEF Spec

-----------------------------------------------------------------------------
(* The pending map.  A step of a reader or of the network changes neither    *)
(* the map nor where a call is; a step of a call concerns that call only.    *)

\* A step that changes neither the map nor whether a call is in flight keeps
\* sc.pending exact.
LEMMA PendingKept ==
  ASSUME PendingIsInFlight, pending' = pending,
         \A c \in Call : pc'[c] \in InFlight <=> pc[c] \in InFlight
  PROVE  PendingIsInFlight'
  BY DEF PendingIsInFlight

\* So does a step of one call that enters the map as it starts its flight, or
\* leaves it as it ends it.
LEMMA PendingMoves ==
  ASSUME PendingIsInFlight, NEW c \in Call,
         \A d \in Call : d # c => pc'[d] = pc[d],
         \/ pc'[c] \in InFlight /\ pending' = pending \cup {c}
         \/ pc'[c] \notin InFlight /\ pending' = pending \ {c}
  PROVE  PendingIsInFlight'
  BY DEF PendingIsInFlight

\* Every step of the client keeps sc.pending exact.
LEMMA NextPending ==
  IInv /\ PendingIsInFlight /\ [Next]_vars => PendingIsInFlight'
<1> SUFFICES ASSUME IInv, PendingIsInFlight, [Next]_vars
             PROVE  PendingIsInFlight'
  OBVIOUS
<1> USE Processes DEF fields, calls, readers, network, history
<1>0. PcOK
  BY DEF IInv, TypeOK
<1>1. ASSUME NEW r \in Reader, Connect(r) \/ ReaderStep(r)
      PROVE  PendingIsInFlight'
  <2>1. \/ pc' = pc
        \/ \E l \in ReaderPC : Goto(r, l)
    BY <1>1 DEF Connect, ReaderStep, ReadTop, ReadLine, ReadError, Deliver,
       FailAll, Send, AfterFail, ReaderPC
  <2>2. \A c \in Call : pc'[c] = pc[c]
    BY <1>0, <2>1, ReaderGoto
  <2>3. pending' = pending
    BY <1>1 DEF Connect, ReaderStep, ReadTop, ReadLine, ReadError, Deliver,
       FailAll, Send, AfterFail
  <2> QED
    BY <2>2, <2>3, PendingKept
<1>2. ASSUME NEW r \in Reader, NEW s \in Reader, ReadRacing(r, s)
      PROVE  PendingIsInFlight'
  <2>1. \A c \in Call : pc'[c] = pc[c]
    BY <1>0, <1>2 DEF ReadRacing, Goto, PcOK, Proc
  <2> QED
    BY <1>2, <2>1, PendingKept DEF ReadRacing
<1>3. ASSUME NEW c \in Call, CallStart(c) \/ CallRelock(c)
      PROVE  PendingIsInFlight'
  <2>1. CASE Register(c)
    BY <1>0, <2>1, CallGoto, PendingMoves DEF Register, CallPC, InFlight
  <2>2. CASE Refused(c)
    <3>1. Goto(c, "done") /\ pending' = pending /\ pc[c] \in {"new", "relock"}
      BY <1>3, <2>2 DEF Refused, CallStart, CallRelock
    <3> QED
      BY <1>0, <3>1, CallGoto, PendingKept DEF CallPC, InFlight
  <2>3. CASE Goto(c, "redial") /\ UNCHANGED fields /\ pc[c] = "new"
    BY <1>0, <2>3, CallGoto, PendingKept DEF CallPC, InFlight
  <2> QED
    BY <1>3, <2>1, <2>2, <2>3 DEF CallStart, CallRelock
<1>4. ASSUME NEW c \in Call,
             \/ CallTakeConn(c) \/ CallWrite(c) \/ CallBroken(c)
             \/ CallReceive(c) \/ CallTimeout(c)
      PROVE  PendingIsInFlight'
  <2>1. /\ \E l \in {"write", "cleanup", "wait", "broken"} : Goto(c, l)
        /\ pc[c] \in InFlight
        /\ pending' = pending
    BY <1>4 DEF CallTakeConn, CallWrite, CallBroken, CallReceive, CallTimeout,
       InFlight
  <2> QED
    BY <1>0, <2>1, CallGoto, PendingKept DEF CallPC, InFlight
<1>5. ASSUME NEW c \in Call, CallCleanup(c) PROVE PendingIsInFlight'
  BY <1>0, <1>5, CallGoto, PendingMoves DEF CallCleanup, CallPC, InFlight
<1>6. ASSUME NEW p \in Proc, CloseOld(p) \/ DialFail(p)
      PROVE  PendingIsInFlight'
  <2>1. /\ \E l \in {"dial", "off", "done"} :
             Goto(p, l) /\ (p \in Call => l # "off") /\ (p \in Reader => l # "done")
        /\ pc[p] \in {"redial", "dial"}
        /\ pending' = pending
    BY <1>6 DEF CloseOld, DialFail
  <2> QED
    BY <1>0, <2>1, GotoEffect, PendingKept DEF CallPC, ReaderPC, InFlight
<1>7. ASSUME NEW p \in Proc, DialOK(p) PROVE PendingIsInFlight'
  <2>1. CASE p \in Reader
    BY <1>0, <1>7, <2>1, ReaderGoto, PendingKept DEF DialOK, ReaderPC
  <2>2. CASE p \in Call
    <3>1. PICK r \in Reader : pc' = [pc EXCEPT ![p] = "relock", ![r] = "top"]
      BY <1>7, <2>2 DEF DialOK
    <3>2. /\ pc'[p] = "relock" /\ pc[p] = "dial"
          /\ \A c \in Call : c # p => pc'[c] = pc[c]
      BY <1>0, <1>7, <2>2, <3>1 DEF DialOK, PcOK, Proc
    <3> QED
      BY <1>7, <3>2, PendingKept DEF DialOK, InFlight
  <2> QED
    BY <2>1, <2>2 DEF Proc
<1>8. CASE \/ Close
           \/ \E k \in Conn : Answer(k) \/ Lose(k)
           \/ UNCHANGED vars
  BY <1>8, PendingKept DEF Close, Answer, Lose, vars
<1> QED
  BY <1>1, <1>2, <1>3, <1>4, <1>5, <1>6, <1>7, <1>8
  DEF Next, CallStep, Redial

\* sc.pending holds exactly the invocations between registration and deferred
\* delete, whatever error, timeout or reconnect ends them.
THEOREM PendingExact == Spec => []PendingIsInFlight
<1>1. Init => PendingIsInFlight
  BY Processes DEF Init, PendingIsInFlight, InFlight, Proc
<1> QED
  BY InitIInv, NextIInv, <1>1, NextPending, PTL DEF Spec

-----------------------------------------------------------------------------
(* The goroutine that serves the current connection. *)

\* Every step of the client leaves the current connection with a goroutine that
\* serves it.
LEMMA NextServed ==
  IInv /\ CurrentConnHasReader /\ [Next]_vars => CurrentConnHasReader'
<1> SUFFICES ASSUME IInv, CurrentConnHasReader, [Next]_vars,
                    conn' # 0, ~closed'
             PROVE  \E r \in Reader : Serves(r)'
  BY DEF CurrentConnHasReader
<1> USE Processes DEF fields, calls, readers, network, history
<1>0. PcOK /\ ReadersOK
  BY DEF IInv, TypeOK
\* A step of goroutine p that keeps the connection and does not stop p's
\* service leaves whoever served it serving.
<1>1. ASSUME NEW p \in Proc, conn' = conn, closed' = closed,
             \A q \in Reader : q # p => pc'[q] = pc[q] /\ rd'[q] = rd[q],
             p \in Reader /\ Serves(p) => Serves(p)'
      PROVE  \E r \in Reader : Serves(r)'
  BY <1>1 DEF CurrentConnHasReader, Serves
<1>2. ASSUME NEW r \in Reader, Connect(r) PROVE \E q \in Reader : Serves(q)'
  BY <1>0, <1>2, ReaderGoto DEF Connect, Serves, ReaderPC
<1>3. ASSUME NEW r \in Reader, ReadTop(r) PROVE \E q \in Reader : Serves(q)'
  <2>1. Goto(r, "read") /\ rd' = [rd EXCEPT ![r] = conn] /\ conn' = conn
    BY <1>3 DEF ReadTop
  <2> QED
    BY <1>0, <2>1, ReaderGoto DEF Serves, ReaderPC, ReadersOK
<1>4. ASSUME NEW r \in Reader,
             \/ ReadLine(r) \/ ReadError(r) \/ Deliver(r) \/ FailAll(r)
             \/ Send(r) \/ AfterFail(r)
      PROVE  \E q \in Reader : Serves(q)'
  <2>1. \/ pc' = pc /\ pc[r] = "sending"
        \/ \E l \in {"top", "deliver", "fail", "sending", "failed", "redial"} :
             Goto(r, l)
    BY <1>4 DEF ReadLine, ReadError, Deliver, FailAll, Send, AfterFail
  <2>2. pc'[r] \in {"top", "deliver", "fail", "sending", "failed", "redial"}
    BY <1>0, <2>1, ReaderGoto DEF ReaderPC
  <2> QED
    BY <2>2 DEF Serves
<1>5. ASSUME NEW r \in Reader, NEW s \in Reader, ReadRacing(r, s)
      PROVE  \E q \in Reader : Serves(q)'
  <2>1. \/ Goto(r, "top") \/ Goto(r, "deliver")
        \/ pc' = [pc EXCEPT ![r] = "deliver", ![s] = "deliver"]
    BY <1>5 DEF ReadRacing
  <2>2. pc'[r] \in {"top", "deliver"}
    BY <1>0, <2>1, ReaderGoto DEF PcOK, Proc, ReaderPC
  <2> QED
    BY <2>2 DEF Serves
<1>6. ASSUME NEW c \in Call, CallStep(c) PROVE \E q \in Reader : Serves(q)'
  <2>1. \E l \in CallPC : Goto(c, l)
    BY <1>6 DEF CallStep, CallStart, CallRelock, CallTakeConn, CallWrite,
       CallBroken, CallReceive, CallTimeout, CallCleanup, Register, Refused,
       CallPC
  <2>2. conn' = conn /\ closed' = closed /\ rd' = rd
    BY <1>6 DEF CallStep, CallStart, CallRelock, CallTakeConn, CallWrite,
       CallBroken, CallReceive, CallTimeout, CallCleanup, Register, Refused
  <2> QED
    BY <1>0, <1>1, <2>1, <2>2, CallGoto
<1>7. ASSUME NEW p \in Proc, Redial(p) PROVE \E q \in Reader : Serves(q)'
  <2>1. ~CloseOld(p)
    BY DEF CloseOld
  <2>2. CASE DialFail(p)
    <3>1. /\ \E l \in {"off", "done"} :
               Goto(p, l) /\ (p \in Call => l = "done") /\ (p \in Reader => l = "off")
          /\ pc[p] = "dial" /\ conn' = conn /\ closed' = closed /\ rd' = rd
      BY <2>2 DEF DialFail
    <3>2. \A q \in Proc : q # p => pc'[q] = pc[q]
      BY <1>0, <3>1, GotoEffect DEF CallPC, ReaderPC
    <3> QED
      BY <1>1, <3>1, <3>2 DEF Serves
  <2>3. CASE DialOK(p)
    <3>1. CASE p \in Reader
      BY <1>0, <2>3, <3>1, ReaderGoto DEF DialOK, ReaderPC, Serves
    <3>2. CASE p \in Call
      BY <1>0, <2>3, <3>2 DEF DialOK, PcOK, Proc, Serves
    <3> QED
      BY <3>1, <3>2 DEF Proc
  <2> QED
    BY <1>7, <2>1, <2>2, <2>3 DEF Redial
<1>8. CASE \/ \E k \in Conn : Answer(k) \/ Lose(k)
           \/ UNCHANGED vars
  BY <1>8 DEF Answer, Lose, vars, CurrentConnHasReader, Serves
<1>9. ~Close
  BY DEF Close
<1> QED
  BY <1>2, <1>3, <1>4, <1>5, <1>6, <1>7, <1>8, <1>9 DEF Next, ReaderStep

\* However the reconnects of calls and of readers overlap, the connection the
\* client would write to has a goroutine that reads it, is about to, or is
\* about to replace it.
THEOREM ConnectionServed == Spec => []CurrentConnHasReader
<1>1. Init => CurrentConnHasReader
  BY DEF Init, CurrentConnHasReader
<1> QED
  BY InitIInv, NextIInv, <1>1, NextServed, PTL DEF Spec

-----------------------------------------------------------------------------
(* What the calls return: RepliesAreOwn, and RpcCalls. *)

Before == {"new", "redial", "dial", "relock"}

Gone == {"cleanup", "done"}

\* Numbers are given out once and in order, a call has one from its
\* registration on, and it has an outcome only when it is about to go.
NumbersOK ==
  /\ \A c \in Call : cid[c] <= reqID
  /\ \A c, d \in Call : cid[c] = cid[d] /\ cid[c] # 0 => c = d
  /\ \A c \in Call : pc[c] \in Before => cid[c] = 0
  /\ \A c \in Call : pc[c] \in InFlight => cid[c] # 0
  /\ \A c \in Call : pc[c] \notin Gone => outcome[c] = "none"

\* Only numbered requests are on a connection.
AllNumbered(s, ids) == \A i \in 1 .. Len(s) : ids[s[i]] # 0

SentOK == \A k \in Conn : AllNumbered(sent[k], cid)

\* The manager has answered the request of c.
Replied(c, ids, ans) == ids[c] # 0 /\ ids[c] \in ans

\* A reply the manager gave to the call it names, under that call's number.
Own(line, ids, ans) ==
  /\ line \in Line
  /\ line.id = ids[line.val]
  /\ Replied(line.val, ids, ans)

AllOwn(s, ids, ans) == \A i \in 1 .. Len(s) : Own(s[i], ids, ans)

RespsOK == \A k \in Conn : AllOwn(resps[k], cid, answered)

\* What a reader holds: a reply to deliver, a reply or the error to send, or
\* nothing; only failAllPending has more than one channel to send to.
HandsOK ==
  /\ \A r \in Reader :
       /\ pc[r] = "deliver" => Own(got[r], cid, answered)
       /\ pc[r] = "sending" =>
            \/ got[r] = NoLine
            \/ todo = {} /\ got[r].val = tgt /\ Replied(tgt, cid, answered)
       /\ pc[r] \notin {"deliver", "sending"} => got[r] = NoLine
  /\ mu = Free => todo = {}

ChansOK ==
  \A c \in Call :
    /\ chan[c] \in {0, Lost, c}
    /\ chan[c] = c => Replied(c, cid, answered)
    /\ outcome[c] # "foreign"

Owned == ~raced => RespsOK /\ HandsOK /\ ChansOK

-----------------------------------------------------------------------------
(* Numbers. *)

\* A step that gives out no number, sends no call back and ends none but with
\* an outcome keeps the numbers in order.
LEMMA NumbersKept ==
  ASSUME NumbersOK, cid' = cid, reqID' = reqID,
         \A c \in Call :
           /\ pc'[c] \in Before => pc[c] \in Before
           /\ pc'[c] \in InFlight => pc[c] \in InFlight
           /\ pc'[c] \notin Gone => pc[c] \notin Gone /\ outcome'[c] = outcome[c]
  PROVE  NumbersOK'
  BY DEF NumbersOK

\* A reader's step leaves every call where it is.
LEMMA CallsAside ==
  ASSUME PcOK, NEW r \in Reader,
         \/ Connect(r) \/ ReaderStep(r)
         \/ \E s \in Reader : ReadRacing(r, s)
  PROVE  /\ \A c \in Call : pc'[c] = pc[c]
         /\ UNCHANGED <<cid, reqID, outcome, sent>>
<1> USE Processes DEF fields, calls, readers, network, history
<1>1. CASE Connect(r) \/ ReaderStep(r)
  <2>1. \/ pc' = pc
        \/ \E l \in ReaderPC : Goto(r, l)
    BY <1>1 DEF Connect, ReaderStep, ReadTop, ReadLine, ReadError, Deliver,
       FailAll, Send, AfterFail, ReaderPC
  <2>2. UNCHANGED <<cid, reqID, outcome, sent>>
    BY <1>1 DEF Connect, Install, ReaderStep, ReadTop, ReadLine, ReadError,
       Deliver, FailAll, Send, AfterFail
  <2> QED
    BY <2>1, <2>2, ReaderGoto
<1>2. CASE \E s \in Reader : ReadRacing(r, s)
  BY <1>2 DEF ReadRacing, Goto, PcOK, Proc
<1> QED
  BY <1>1, <1>2

\* A registration gives the call a number no other call has.
LEMMA RegisterNumbers ==
  ASSUME IInv, NumbersOK, NEW c \in Call, pc[c] \in Before, Register(c)
  PROVE  NumbersOK' /\ cid[c] = 0 /\ cid' = [cid EXCEPT ![c] = reqID + 1]
<1>1. /\ pc'[c] = "send"
      /\ \A d \in Call : d # c => pc'[d] = pc[d]
  BY CallGoto, Processes DEF Register, IInv, TypeOK, CallPC
<1>2. /\ cid \in [Call -> Nat] /\ reqID \in Nat
      /\ cid' = [cid EXCEPT ![c] = reqID + 1] /\ reqID' = reqID + 1
      /\ outcome' = outcome
  BY DEF Register, IInv, TypeOK, FieldsOK, CallsOK
<1>3. outcome[c] = "none" /\ cid[c] = 0
  BY DEF NumbersOK, Before, Gone
<1> QED
  BY <1>1, <1>2, <1>3 DEF NumbersOK, Before, InFlight, Gone

\* Every step keeps the numbers in order.
LEMMA NextNumbers ==
  IInv /\ NumbersOK /\ [Next]_vars => NumbersOK'
<1> SUFFICES ASSUME IInv, NumbersOK, [Next]_vars PROVE NumbersOK'
  OBVIOUS
<1> USE Processes DEF fields, calls, readers, network, history
<1>0. PcOK /\ CallsOK
  BY DEF IInv, TypeOK
<1>1. ASSUME NEW r \in Reader,
             \/ Connect(r) \/ ReaderStep(r)
             \/ \E s \in Reader : ReadRacing(r, s)
      PROVE  NumbersOK'
  BY <1>0, <1>1, CallsAside, NumbersKept
<1>2. ASSUME NEW c \in Call, CallStart(c) \/ CallRelock(c) PROVE NumbersOK'
  <2>1. CASE Register(c)
    BY <1>2, <2>1, RegisterNumbers DEF CallStart, CallRelock, Before
  <2>2. CASE Refused(c)
    <3>1. Goto(c, "done") /\ Return(c, "error") /\ UNCHANGED <<cid, reqID>>
      BY <2>2 DEF Refused
    <3> QED
      BY <1>0, <3>1, CallGoto, NumbersKept
      DEF Return, CallsOK, CallPC, Before, InFlight, Gone
  <2>3. CASE Goto(c, "redial") /\ UNCHANGED <<fields, calls>> /\ pc[c] = "new"
    BY <1>0, <2>3, CallGoto, NumbersKept DEF CallPC, Before, InFlight, Gone
  <2> QED
    BY <1>2, <2>1, <2>2, <2>3 DEF CallStart, CallRelock
<1>3. ASSUME NEW c \in Call,
             \/ CallTakeConn(c) \/ CallWrite(c) \/ CallBroken(c)
             \/ CallReceive(c) \/ CallTimeout(c) \/ CallCleanup(c)
      PROVE  NumbersOK'
  <2>1. /\ \/ Goto(c, "write") /\ outcome' = outcome /\ pc[c] = "send"
           \/ Goto(c, "wait") /\ outcome' = outcome /\ pc[c] = "write"
           \/ Goto(c, "broken") /\ outcome' = outcome /\ pc[c] = "write"
           \/ Goto(c, "cleanup") /\ pc[c] \in {"send", "broken", "wait"}
              /\ \E o : Return(c, o)
           \/ Goto(c, "done") /\ outcome' = outcome /\ pc[c] = "cleanup"
        /\ UNCHANGED <<cid, reqID>>
    BY <1>3 DEF CallTakeConn, CallWrite, CallBroken, CallReceive, CallTimeout,
       CallCleanup
  <2> QED
    BY <1>0, <2>1, CallGoto, NumbersKept
    DEF Return, CallsOK, CallPC, Before, InFlight, Gone
<1>4. ASSUME NEW p \in Proc, CloseOld(p) \/ DialFail(p) PROVE NumbersOK'
  <2>1. CASE p \in Reader
    <3>1. /\ \E l \in {"dial", "off"} : Goto(p, l)
          /\ UNCHANGED <<cid, reqID, outcome>>
      BY <1>4, <2>1 DEF CloseOld, DialFail
    <3> QED
      BY <1>0, <2>1, <3>1, ReaderGoto, NumbersKept DEF ReaderPC
  <2>2. CASE p \in Call
    <3>1. /\ \/ Goto(p, "dial") /\ outcome' = outcome /\ pc[p] = "redial"
             \/ Goto(p, "done") /\ Return(p, "error")
          /\ UNCHANGED <<cid, reqID>>
      BY <1>4, <2>2 DEF CloseOld, DialFail
    <3> QED
      BY <1>0, <2>2, <3>1, CallGoto, NumbersKept
      DEF Return, CallsOK, CallPC, Before, InFlight, Gone
  <2> QED
    BY <2>1, <2>2 DEF Proc
<1>5. ASSUME NEW p \in Proc, DialOK(p) PROVE NumbersOK'
  <2>1. CASE p \in Reader
    BY <1>0, <1>5, <2>1, ReaderGoto, NumbersKept DEF DialOK, ReaderPC
  <2>2. CASE p \in Call
    <3>1. PICK r \in Reader : pc' = [pc EXCEPT ![p] = "relock", ![r] = "top"]
      BY <1>5, <2>2 DEF DialOK
    <3>2. /\ pc'[p] = "relock" /\ pc[p] = "dial"
          /\ \A c \in Call : c # p => pc'[c] = pc[c]
      BY <1>0, <1>5, <2>2, <3>1 DEF DialOK, PcOK, Proc
    <3> QED
      BY <1>5, <3>2, NumbersKept DEF DialOK, Before, InFlight, Gone
  <2> QED
    BY <2>1, <2>2 DEF Proc
<1>6. CASE \/ Close
           \/ \E k \in Conn : Answer(k) \/ Lose(k)
           \/ UNCHANGED vars
  BY <1>6, NumbersKept DEF Close, Answer, Lose, vars
<1> QED
  BY <1>1, <1>2, <1>3, <1>4, <1>5, <1>6 DEF Next, CallStep, Redial

-----------------------------------------------------------------------------
(* Messages. *)

\* The facts about sequences that the messages of a connection need.
LEMMA NumberedSeq ==
  ASSUME NEW s \in Seq(Call), NEW ids, AllNumbered(s, ids)
  PROVE  /\ s # << >> => ids[Head(s)] # 0 /\ AllNumbered(Tail(s), ids)
         /\ \A c \in Call : ids[c] # 0 => AllNumbered(Append(s, c), ids)
  BY DEF AllNumbered

\* Numbers that are kept keep requests numbered.
LEMMA NumberedKept ==
  ASSUME NEW s \in Seq(Call), NEW ids, NEW ids2, AllNumbered(s, ids),
         \A c \in Call : ids[c] # 0 => ids2[c] = ids[c]
  PROVE  AllNumbered(s, ids2)
  BY DEF AllNumbered

\* Nothing is numbered.
LEMMA NumberedEmpty == \A ids : AllNumbered(<< >>, ids)
  BY DEF AllNumbered

\* A reply stays its call's own while numbers are kept.
LEMMA OwnKept ==
  ASSUME NEW line, NEW ids, NEW ids2, NEW ans, NEW ans2,
         Own(line, ids, ans), ans \subseteq ans2,
         \A c \in Call : ids[c] # 0 => ids2[c] = ids[c]
  PROVE  Own(line, ids2, ans2)
  BY DEF Own, Line, Replied

\* The same for all replies on a connection.
LEMMA AllOwnKept ==
  ASSUME NEW s \in Seq(Line), NEW ids, NEW ids2, NEW ans, NEW ans2,
         AllOwn(s, ids, ans), ans \subseteq ans2,
         \A c \in Call : ids[c] # 0 => ids2[c] = ids[c]
  PROVE  AllOwn(s, ids2, ans2)
  BY OwnKept DEF AllOwn

\* The first reply is taken from a connection, another is added to it.
LEMMA AllOwnSeq ==
  ASSUME NEW s \in Seq(Line), NEW ids, NEW ans, AllOwn(s, ids, ans)
  PROVE  /\ s # << >> => Own(Head(s), ids, ans) /\ AllOwn(Tail(s), ids, ans)
         /\ \A line \in Line :
              Own(line, ids, ans) => AllOwn(Append(s, line), ids, ans)
  BY DEF AllOwn

\* A connection with nothing on it has only own replies.
LEMMA AllOwnEmpty == \A ids, ans : AllOwn(<< >>, ids, ans)
  BY DEF AllOwn

\* A step gives out a number, or leaves the numbers as they are; a number that
\* was given out is kept.
LEMMA NumbersGrow ==
  ASSUME IInv, NumbersOK, [Next]_vars
  PROVE  \/ cid' = cid
         \/ \E c \in Call : /\ pc[c] \in Before /\ Register(c)
                            /\ \A d \in Call : cid[d] # 0 => cid'[d] = cid[d]
<1> USE Processes DEF fields, calls, readers, network, history
<1>1. ASSUME NEW c \in Call, Register(c), pc[c] \in Before
      PROVE  \A d \in Call : cid[d] # 0 => cid'[d] = cid[d]
  <2>1. cid[c] = 0 /\ cid' = [cid EXCEPT ![c] = reqID + 1]
    BY <1>1, RegisterNumbers
  <2>2. cid \in [Call -> Nat]
    BY DEF IInv, TypeOK, CallsOK
  <2> QED
    BY <2>1, <2>2
<1>2. \/ cid' = cid
      \/ \E c \in Call : pc[c] \in Before /\ Register(c)
  <2>1. ASSUME NEW c \in Call, CallStep(c)
        PROVE  cid' = cid \/ (pc[c] \in Before /\ Register(c))
    BY <2>1 DEF CallStep, CallStart, CallRelock, Refused, CallTakeConn,
       CallWrite, CallBroken, CallReceive, CallTimeout, CallCleanup, Before
  <2>2. ASSUME NEW r \in Reader,
               \/ Connect(r) \/ ReaderStep(r)
               \/ \E s \in Reader : ReadRacing(r, s)
        PROVE  cid' = cid
    BY <2>2, CallsAside DEF IInv, TypeOK
  <2>3. ASSUME NEW p \in Proc, Redial(p) PROVE cid' = cid
    BY <2>3 DEF Redial, CloseOld, DialOK, DialFail
  <2>4. CASE Close \/ (\E k \in Conn : Answer(k) \/ Lose(k)) \/ UNCHANGED vars
    BY <2>4 DEF Close, Answer, Lose, vars
  <2> QED
    BY <2>1, <2>2, <2>3, <2>4 DEF Next
<1> QED
  BY <1>1, <1>2

\* Every step keeps the requests on the connections numbered.
LEMMA NextSent ==
  IInv /\ NumbersOK /\ SentOK /\ [Next]_vars => SentOK'
<1> SUFFICES ASSUME IInv, NumbersOK, SentOK, [Next]_vars,
                    NEW k \in Conn
             PROVE  AllNumbered(sent'[k], cid')
  BY DEF SentOK
<1> USE Processes DEF fields, calls, readers, network, history
<1>1. sent \in [Conn -> Seq(Call)] /\ AllNumbered(sent[k], cid)
  BY DEF IInv, TypeOK, NetworkOK, SentOK
<1>2. AllNumbered(sent[k], cid')
  BY <1>1, NumbersGrow, NumberedKept
<1>3. CASE sent'[k] = sent[k]
  BY <1>2, <1>3
<1>4. CASE sent'[k] = << >>
  BY <1>4, NumberedEmpty
<1>5. CASE sent[k] # << >> /\ sent'[k] = Tail(sent[k])
  BY <1>1, <1>2, <1>5, NumberedSeq
<1>6. ASSUME NEW c \in Call, cid'[c] # 0, sent'[k] = Append(sent[k], c)
      PROVE  AllNumbered(sent'[k], cid')
  BY <1>1, <1>2, <1>6, NumberedSeq
<1>7. \/ sent'[k] \in {sent[k], << >>}
      \/ sent[k] # << >> /\ sent'[k] = Tail(sent[k])
      \/ \E c \in Call : cid'[c] # 0 /\ sent'[k] = Append(sent[k], c)
  <2>1. ASSUME NEW c \in Call, CallWrite(c) PROVE <1>7
    <3>1. cid'[c] # 0
      BY <2>1 DEF CallWrite, NumbersOK, InFlight
    <3>2. \/ sent' = sent
          \/ sent' = [sent EXCEPT ![wconn[c]] = Append(sent[wconn[c]], c)]
      BY <2>1 DEF CallWrite
    <3> QED
      BY <1>1, <3>1, <3>2
  <2>2. ASSUME NEW c \in Call, CallStep(c), ~CallWrite(c) PROVE sent' = sent
    BY <2>2 DEF CallStep, CallStart, CallRelock, Register, Refused,
       CallTakeConn, CallBroken, CallReceive, CallTimeout, CallCleanup
  <2>3. ASSUME NEW r \in Reader,
               \/ Connect(r) \/ ReaderStep(r)
               \/ \E s \in Reader : ReadRacing(r, s)
        PROVE  sent' = sent
    BY <2>3, CallsAside DEF IInv, TypeOK
  <2>4. ASSUME NEW p \in Proc, DialOK(p) \/ DialFail(p) PROVE sent' = sent
    BY <2>4 DEF DialOK, DialFail, Install
  <2>5. CASE Close \/ \E p \in Proc : CloseOld(p)
    BY <1>1, <2>5 DEF Close, CloseOld, Shut
  <2>6. ASSUME NEW j \in Conn, Answer(j) \/ Lose(j) PROVE <1>7
    BY <1>1, <2>6 DEF Answer, Lose
  <2>7. CASE UNCHANGED vars
    BY <2>7 DEF vars
  <2> QED
    BY <2>1, <2>2, <2>3, <2>4, <2>5, <2>6, <2>7 DEF Next, Redial
<1> QED
  BY <1>3, <1>4, <1>5, <1>6, <1>7

-----------------------------------------------------------------------------
(* Replies.  All of this holds until two readers race.                      *)

\* What the lemmas below assume of a step: no race, numbers and answers grow.
LEMMA StepGrows ==
  ASSUME IInv, NumbersOK, Owned, [Next]_vars, ~raced'
  PROVE  /\ ~raced /\ RespsOK /\ HandsOK /\ ChansOK
         /\ \A c \in Call : cid[c] # 0 => cid'[c] = cid[c]
         /\ answered \subseteq answered'
<1> USE DEF fields, calls, readers, network, history
<1>1. answered \subseteq answered' /\ (raced' = raced \/ raced' = TRUE)
  <2>1. ASSUME NEW c \in Call, CallStep(c) PROVE <1>1
    BY <2>1 DEF CallStep, CallStart, CallRelock, Register, Refused,
       CallTakeConn, CallWrite, CallBroken, CallReceive, CallTimeout,
       CallCleanup
  <2>2. ASSUME NEW r \in Reader, Connect(r) \/ ReaderStep(r) PROVE <1>1
    BY <2>2 DEF Connect, ReaderStep, ReadTop, ReadLine, ReadError, Deliver,
       FailAll, Send, AfterFail
  <2>3. ASSUME NEW p \in Proc, Redial(p) PROVE <1>1
    BY <2>3 DEF Redial, CloseOld, DialOK, DialFail
  <2>4. CASE \/ Close \/ UNCHANGED vars
             \/ \E k \in Conn : Answer(k) \/ Lose(k)
             \/ \E r, s \in Reader : ReadRacing(r, s)
    BY <2>4 DEF Close, Answer, Lose, vars, ReadRacing
  <2> QED
    BY <2>1, <2>2, <2>3, <2>4 DEF Next
<1>2. ~raced /\ RespsOK /\ HandsOK /\ ChansOK
  BY <1>1 DEF Owned, IInv, TypeOK, NetworkOK
<1> QED
  BY <1>1, <1>2, NumbersGrow

\* Every step keeps the replies on the connections their calls' own.
LEMMA NextResps ==
  ASSUME IInv, NumbersOK, SentOK, Owned, [Next]_vars, ~raced'
  PROVE  RespsOK'
<1> SUFFICES ASSUME NEW k \in Conn PROVE AllOwn(resps'[k], cid', answered')
  BY DEF RespsOK
<1> USE Processes DEF fields, calls, readers, network, history
<1>1. /\ resps \in [Conn -> Seq(Line)] /\ sent \in [Conn -> Seq(Call)]
      /\ cid \in [Call -> Nat] /\ rd \in [Reader -> 0 .. MaxConns]
      /\ \A r \in Reader : pc[r] = "read" => rd[r] \in Conn
  BY DEF IInv, TypeOK, NetworkOK, CallsOK, ReadersOK, NoNilConn, Conn
<1>2. AllOwn(resps[k], cid', answered')
  <2>1. AllOwn(resps[k], cid, answered)
    BY StepGrows DEF RespsOK
  <2> QED
    BY <1>1, <2>1, StepGrows, AllOwnKept
<1>3. CASE resps'[k] = resps[k]
  BY <1>2, <1>3
<1>4. CASE resps'[k] = << >>
  BY <1>4, AllOwnEmpty
<1>5. CASE resps[k] # << >> /\ resps'[k] = Tail(resps[k])
  BY <1>1, <1>2, <1>5, AllOwnSeq
<1>6. ASSUME NEW line \in Line, Own(line, cid', answered'),
             resps'[k] = Append(resps[k], line)
      PROVE  AllOwn(resps'[k], cid', answered')
  BY <1>1, <1>2, <1>6, AllOwnSeq
<1>7. \/ resps'[k] \in {resps[k], << >>}
      \/ resps[k] # << >> /\ resps'[k] = Tail(resps[k])
      \/ \E line \in Line : /\ Own(line, cid', answered')
                             /\ resps'[k] = Append(resps[k], line)
  <2>1. ASSUME NEW c \in Call, CallStep(c) PROVE resps' = resps
    BY <2>1 DEF CallStep, CallStart, CallRelock, Register, Refused,
       CallTakeConn, CallWrite, CallBroken, CallReceive, CallTimeout,
       CallCleanup
  <2>2. ASSUME NEW r \in Reader, ReadLine(r) \/ ReadError(r) PROVE <1>7
    BY <1>1, <2>2 DEF ReadLine, ReadError
  <2>3. ASSUME NEW r \in Reader, Connect(r) \/ ReaderStep(r),
               ~ReadLine(r), ~ReadError(r)
        PROVE  resps' = resps
    BY <2>3 DEF Connect, Install, ReaderStep, ReadTop, Deliver, FailAll, Send,
       AfterFail
  <2>4. ASSUME NEW p \in Proc, Redial(p) PROVE resps' = resps
    BY <2>4 DEF Redial, CloseOld, DialOK, DialFail, Install, Shut
  <2>5. ASSUME NEW j \in Conn, Answer(j) PROVE <1>7
    <3> DEFINE c == Head(sent[j])
               line == [id |-> cid[c], val |-> c]
    <3>1. c \in Call /\ cid[c] # 0
      BY <1>1, <2>5, NumberedSeq DEF Answer, SentOK
    <3>2. /\ resps' = [resps EXCEPT ![j] = Append(resps[j], line)]
          /\ answered' = answered \cup {cid[c]} /\ cid' = cid
      BY <2>5 DEF Answer
    <3>3. line \in Line /\ Own(line, cid', answered')
      BY <1>1, <3>1, <3>2 DEF Own, Line, Replied
    <3> QED
      BY <1>1, <3>2, <3>3
  <2>6. CASE Close \/ (\E j \in Conn : Lose(j)) \/ UNCHANGED vars
    BY <2>6 DEF Close, Shut, Lose, vars
  <2>7. ASSUME NEW r \in Reader, NEW s \in Reader, ReadRacing(r, s)
        PROVE  FALSE
    BY <2>7 DEF ReadRacing
  <2> QED
    BY <2>1, <2>2, <2>3, <2>4, <2>5, <2>6, <2>7 DEF Next
<1> QED
  BY <1>3, <1>4, <1>5, <1>6, <1>7

\* A step that moves readers only between places where they hold nothing keeps
\* what the readers hold.
LEMMA HandsKept ==
  ASSUME ReadersOK, HandsOK, UNCHANGED <<mu, got, tgt, todo>>,
         \A r \in Reader :
           \/ pc'[r] = pc[r]
           \/ {pc[r], pc'[r]} \cap {"deliver", "sending"} = {},
         \A c \in Call : cid[c] # 0 => cid'[c] = cid[c],
         answered \subseteq answered',
         MutexOK
  PROVE  HandsOK'
<1> SUFFICES ASSUME NEW r \in Reader
             PROVE  /\ pc'[r] = "deliver" => Own(got[r], cid', answered')
                    /\ pc'[r] = "sending" =>
                         \/ got[r] = NoLine
                         \/ /\ todo = {} /\ got[r].val = tgt
                            /\ Replied(tgt, cid', answered')
                    /\ pc'[r] \notin {"deliver", "sending"} => got[r] = NoLine
  BY DEF HandsOK
<1>1. CASE pc'[r] = pc[r]
  <2>1. pc[r] = "deliver" => Own(got[r], cid', answered')
    BY OwnKept DEF HandsOK
  <2>2. pc[r] = "sending" /\ got[r] # NoLine =>
          todo = {} /\ got[r].val = tgt /\ Replied(tgt, cid', answered')
    <3>1. pc[r] = "sending" => tgt \in Call
      BY ConstantsOK DEF MutexOK
    <3> QED
      BY <3>1 DEF HandsOK, Replied
  <2> QED
    BY <1>1, <2>1, <2>2 DEF HandsOK
<1>2. CASE {pc[r], pc'[r]} \cap {"deliver", "sending"} = {}
  BY <1>2 DEF HandsOK
<1> QED
  BY <1>1, <1>2

\* Every step keeps what the readers hold their calls' own.
LEMMA NextHands ==
  ASSUME IInv, NumbersOK, Owned, [Next]_vars, ~raced'
  PROVE  HandsOK'
<1> USE Processes DEF fields, calls, readers, network, history
<1>0. /\ PcOK /\ ReadersOK /\ MutexOK /\ HandsOK /\ RespsOK
      /\ \A c \in Call : cid[c] # 0 => cid'[c] = cid[c]
      /\ answered \subseteq answered'
  BY StepGrows DEF IInv, TypeOK
<1>1. ASSUME NEW c \in Call, CallStep(c) PROVE HandsOK'
  <2>1. /\ \E l \in CallPC : Goto(c, l)
        /\ UNCHANGED <<mu, got, tgt, todo>>
    BY <1>1 DEF CallStep, CallStart, CallRelock, Register, Refused,
       CallTakeConn, CallWrite, CallBroken, CallReceive, CallTimeout,
       CallCleanup, CallPC
  <2>2. \A r \in Reader : pc'[r] = pc[r]
    BY <1>0, <2>1, CallGoto
  <2> QED
    BY <1>0, <2>1, <2>2, HandsKept
<1>2. ASSUME NEW p \in Proc, CloseOld(p) \/ DialFail(p) PROVE HandsOK'
  <2>1. /\ \E l \in {"dial", "off", "done"} :
             /\ Goto(p, l)
             /\ p \in Call => l # "off"
             /\ p \in Reader => l # "done"
        /\ pc[p] \in {"redial", "dial"}
        /\ UNCHANGED <<mu, got, tgt, todo>>
    BY <1>2 DEF CloseOld, DialFail
  <2>2. /\ pc'[p] \in {"dial", "off", "done"}
        /\ \A q \in Proc : q # p => pc'[q] = pc[q]
    BY <1>0, <2>1, GotoEffect DEF CallPC, ReaderPC
  <2> QED
    BY <1>0, <2>1, <2>2, HandsKept
<1>3. ASSUME NEW p \in Proc, DialOK(p) PROVE HandsOK'
  <2>1. CASE p \in Reader
    <3>1. pc'[p] = "top" /\ \A q \in Proc : q # p => pc'[q] = pc[q]
      BY <1>0, <1>3, <2>1, ReaderGoto DEF DialOK, ReaderPC
    <3> QED
      BY <1>0, <1>3, <3>1, HandsKept DEF DialOK
  <2>2. CASE p \in Call
    <3>1. PICK r \in Reader : /\ pc[r] = "off"
                              /\ pc' = [pc EXCEPT ![p] = "relock", ![r] = "top"]
      BY <1>3, <2>2 DEF DialOK
    <3>2. \A q \in Reader : pc'[q] = IF q = r THEN "top" ELSE pc[q]
      BY <1>0, <2>2, <3>1 DEF PcOK, Proc
    <3> QED
      BY <1>0, <1>3, <3>1, <3>2, HandsKept DEF DialOK
  <2> QED
    BY <2>1, <2>2 DEF Proc
<1>4. ASSUME NEW r \in Reader,
             Connect(r) \/ ReadTop(r) \/ ReadError(r) \/ AfterFail(r)
      PROVE  HandsOK'
  <2>1. /\ \E l \in {"top", "read", "off", "fail", "redial"} : Goto(r, l)
        /\ pc[r] \in {"off", "top", "read", "failed"}
        /\ UNCHANGED <<mu, got, tgt, todo>>
    BY <1>4 DEF Connect, ReadTop, ReadError, AfterFail
  <2>2. /\ pc'[r] \in {"top", "read", "off", "fail", "redial"}
        /\ \A q \in Proc : q # r => pc'[q] = pc[q]
    BY <1>0, <2>1, ReaderGoto DEF ReaderPC
  <2> QED
    BY <1>0, <2>1, <2>2, HandsKept
<1>5. ASSUME NEW r \in Reader, ReadLine(r) PROVE HandsOK'
  <2>1. /\ pc'[r] = "deliver"
        /\ \A q \in Proc : q # r => pc'[q] = pc[q]
    BY <1>0, <1>5, ReaderGoto DEF ReadLine, ReaderPC
  <2>2. Own(Head(resps[rd[r]]), cid, answered)
    <3>1. /\ rd[r] \in Conn /\ resps[rd[r]] \in Seq(Line)
          /\ resps[rd[r]] # << >>
      BY <1>0, <1>5
      DEF ReadLine, IInv, TypeOK, NetworkOK, NoNilConn, ReadersOK, Conn
    <3> QED
      BY <1>0, <3>1, AllOwnSeq DEF RespsOK
  <2>3. /\ got'[r] = Head(resps[rd[r]])
        /\ \A q \in Reader : q # r => got'[q] = got[q]
        /\ UNCHANGED <<mu, tgt, todo, cid, answered>>
    BY <1>0, <1>5 DEF ReadLine, ReadersOK
  <2> QED
    BY <1>0, <2>1, <2>2, <2>3 DEF HandsOK
<1>6. ASSUME NEW r \in Reader, Deliver(r) PROVE HandsOK'
  <2>1. /\ \A q \in Reader : pc[q] # "sending"
        /\ todo = {} /\ Own(got[r], cid, answered)
    BY <1>0, <1>6, ConstantsOK DEF Deliver, HandsOK, MutexOK
  <2>2. UNCHANGED <<cid, answered, todo>>
    BY <1>6 DEF Deliver
  <2>3. CASE Goto(r, "top") /\ got' = [got EXCEPT ![r] = NoLine]
    <3>1. pc'[r] = "top" /\ \A q \in Proc : q # r => pc'[q] = pc[q]
      BY <1>0, <2>3, ReaderGoto DEF ReaderPC
    <3>2. got'[r] = NoLine /\ \A q \in Reader : q # r => got'[q] = got[q]
      BY <1>0, <2>3 DEF ReadersOK
    <3> QED
      BY <1>0, <2>1, <2>2, <3>1, <3>2 DEF HandsOK
  <2>4. ASSUME NEW c \in Call, cid[c] = got[r].id, Goto(r, "sending"),
               tgt' = c, got' = got
        PROVE  HandsOK'
    <3>1. pc'[r] = "sending" /\ \A q \in Proc : q # r => pc'[q] = pc[q]
      BY <1>0, <2>4, ReaderGoto DEF ReaderPC
    <3>2. got[r].val = c /\ Replied(c, cid, answered)
      BY <2>1, <2>4 DEF Own, Line, Replied, NumbersOK
    <3> QED
      BY <1>0, <2>1, <2>2, <2>4, <3>1, <3>2 DEF HandsOK
  <2> QED
    <3>1. pending \subseteq Call
      BY DEF IInv, TypeOK, FieldsOK
    <3> QED
      BY <1>6, <2>3, <2>4, <3>1 DEF Deliver
<1>7. ASSUME NEW r \in Reader, FailAll(r) PROVE HandsOK'
  <2>1. /\ \A q \in Reader : pc[q] # "sending"
        /\ got[r] = NoLine /\ UNCHANGED <<got, cid, answered>>
    BY <1>0, <1>7, ConstantsOK DEF FailAll, HandsOK, MutexOK
  <2>2. CASE Goto(r, "sending") /\ mu' = r
    <3>1. pc'[r] = "sending" /\ \A q \in Proc : q # r => pc'[q] = pc[q]
      BY <1>0, <2>2, ReaderGoto DEF ReaderPC
    <3> QED
      BY <1>0, <2>1, <2>2, <3>1, ConstantsOK DEF HandsOK
  <2>3. CASE Goto(r, "failed") /\ UNCHANGED <<mu, todo>>
    <3>1. pc'[r] = "failed" /\ \A q \in Proc : q # r => pc'[q] = pc[q]
      BY <1>0, <2>3, ReaderGoto DEF ReaderPC
    <3> QED
      BY <1>0, <2>1, <2>3, <3>1 DEF HandsOK
  <2> QED
    BY <1>7, <2>2, <2>3 DEF FailAll
<1>8. ASSUME NEW r \in Reader, Send(r) PROVE HandsOK'
  <2>1. /\ \A q \in Reader : q # r => pc[q] # "sending"
        /\ got'[r] = NoLine /\ \A q \in Reader : q # r => got'[q] = got[q]
        /\ UNCHANGED <<cid, answered>>
    BY <1>0, <1>8 DEF Send, MutexOK, ReadersOK
  <2>2. CASE todo # {}
    BY <1>0, <1>8, <2>1, <2>2, ConstantsOK DEF Send, HandsOK, MutexOK
  <2>3. CASE todo = {}
    <3>1. /\ pc'[r] \in {"failed", "top"}
          /\ \A q \in Proc : q # r => pc'[q] = pc[q]
      BY <1>0, <1>8, <2>3, ReaderGoto DEF Send, ReaderPC
    <3>2. todo' = {}
      BY <1>8, <2>3 DEF Send
    <3> QED
      BY <1>0, <2>1, <3>1, <3>2 DEF HandsOK
  <2> QED
    BY <2>2, <2>3
<1>9. CASE Close \/ (\E k \in Conn : Answer(k) \/ Lose(k)) \/ UNCHANGED vars
  BY <1>0, <1>9, HandsKept DEF Close, Answer, Lose, vars
<1>10. ASSUME NEW r \in Reader, NEW s \in Reader, ReadRacing(r, s)
       PROVE  FALSE
  BY <1>10 DEF ReadRacing
<1> QED
  BY <1>1, <1>2, <1>3, <1>4, <1>5, <1>6, <1>7, <1>8, <1>9, <1>10
  DEF Next, ReaderStep, Redial

\* What a step returns is not foreign, as long as no channel holds anything
\* foreign.
LEMMA VerdictsOwn ==
  ASSUME IInv, ChansOK, [Next]_vars, NEW c \in Call
  PROVE  outcome'[c] = outcome[c] \/ outcome'[c] # "foreign"
<1> USE Processes DEF fields, calls, readers, network, history
<1>0. outcome \in [Call -> {"none", "reply", "foreign", "error", "timeout"}]
  BY DEF IInv, TypeOK, CallsOK
<1>1. ASSUME NEW d \in Call, CallStep(d)
      PROVE  \/ outcome' = outcome
             \/ \E o : o # "foreign" /\ Return(d, o)
  <2>1. CASE CallReceive(d)
    <3>1. Verdict(d) # "foreign"
      BY <2>1 DEF CallReceive, ChansOK, Verdict
    <3> QED
      BY <2>1, <3>1 DEF CallReceive
  <2>2. CASE ~CallReceive(d)
    BY <1>1, <2>2 DEF CallStep, CallStart, CallRelock, Register, Refused,
       CallTakeConn, CallWrite, CallBroken, CallTimeout, CallCleanup
  <2> QED
    BY <2>1, <2>2
<1>2. ASSUME NEW p \in Proc, Redial(p)
      PROVE  outcome' = outcome \/ (p \in Call /\ Return(p, "error"))
  BY <1>2 DEF Redial, CloseOld, DialOK, DialFail
<1>3. ASSUME NEW r \in Reader,
             \/ Connect(r) \/ ReaderStep(r)
             \/ \E s \in Reader : ReadRacing(r, s)
      PROVE  outcome' = outcome
  BY <1>3, CallsAside DEF IInv, TypeOK
<1>4. ASSUME Close \/ (\E k \in Conn : Answer(k) \/ Lose(k)) \/ UNCHANGED vars
      PROVE  outcome' = outcome
  BY <1>4 DEF Close, Answer, Lose, vars
<1>5. \/ outcome' = outcome
      \/ \E d \in Call : \E o : o # "foreign" /\ Return(d, o)
  <2>1. \/ \E d \in Call : CallStep(d)
        \/ \E p \in Proc : Redial(p)
        \/ outcome' = outcome
    BY <1>3, <1>4 DEF Next
  <2>2. ASSUME NEW p \in Proc, Redial(p) PROVE <1>5
    <3>1. "error" # "foreign"
      OBVIOUS
    <3> QED
      BY <1>2, <2>2, <3>1, Zenon
  <2> QED
    BY <1>1, <2>1, <2>2, Zenon
<1>6. ASSUME NEW d \in Call, NEW o, o # "foreign", Return(d, o)
      PROVE  outcome'[c] = outcome[c] \/ outcome'[c] # "foreign"
  BY <1>0, <1>6 DEF Return
<1> QED
  BY <1>5, <1>6

\* What a step puts into a channel is the error or the call's own reply.
LEMMA NextChans ==
  ASSUME IInv, NumbersOK, Owned, [Next]_vars, ~raced'
  PROVE  ChansOK'
<1> USE Processes DEF fields, calls, readers, network, history
<1>0. /\ HandsOK /\ ChansOK
      /\ \A c \in Call : cid[c] # 0 => cid'[c] = cid[c]
      /\ answered \subseteq answered'
      /\ chan \in [Call -> Call \cup {Lost, 0}] /\ pending \subseteq Call
  BY StepGrows DEF IInv, TypeOK, CallsOK, FieldsOK
<1> SUFFICES ASSUME NEW c \in Call
             PROVE  /\ chan'[c] \in {0, Lost, c}
                    /\ chan'[c] = c => Replied(c, cid', answered')
                    /\ outcome'[c] # "foreign"
  BY DEF ChansOK
<1>1. outcome'[c] # "foreign"
  BY <1>0, VerdictsOwn DEF ChansOK
<1>2. Replied(c, cid, answered) => Replied(c, cid', answered')
  BY <1>0 DEF Replied
<1>3. \/ chan'[c] \in {chan[c], 0, Lost}
      \/ chan'[c] = c /\ Replied(c, cid, answered)
  <2>1. ASSUME NEW d \in Call, CallStep(d) PROVE <1>3
    <3>1. chan' = chan \/ chan' = [chan EXCEPT ![d] = 0]
      BY <2>1 DEF CallStep, CallStart, CallRelock, Register, Refused,
         CallTakeConn, CallWrite, CallBroken, CallReceive, CallTimeout,
         CallCleanup
    <3> QED
      BY <1>0, <3>1
  <2>2. ASSUME NEW r \in Reader, Deliver(r) PROVE <1>3
    <3>1. \/ chan' = chan
          \/ \E d \in pending : /\ cid[d] = got[r].id
                                /\ chan' = [chan EXCEPT ![d] = got[r].val]
      BY <2>2 DEF Deliver
    <3>2. Own(got[r], cid, answered)
      BY <1>0, <2>2 DEF Deliver, HandsOK
    <3>3. ASSUME NEW d \in Call, cid[d] = got[r].id
          PROVE  got[r].val = d /\ Replied(d, cid, answered)
      BY <3>2, <3>3 DEF Own, Line, Replied, NumbersOK
    <3> QED
      BY <1>0, <3>1, <3>3
  <2>3. ASSUME NEW r \in Reader, Send(r) PROVE <1>3
    <3>1. /\ pc[r] = "sending"
          /\ chan' = [chan EXCEPT ![tgt] = got[r].val]
      BY <2>3 DEF Send
    <3>2. \/ got[r].val = Lost
          \/ got[r].val = tgt /\ Replied(tgt, cid, answered)
      BY <1>0, <3>1 DEF HandsOK, NoLine
    <3> QED
      BY <1>0, <3>1, <3>2
  <2>4. ASSUME NEW r \in Reader, Connect(r) \/ ReaderStep(r),
               ~Deliver(r), ~Send(r)
        PROVE  chan' = chan
    BY <2>4 DEF Connect, ReaderStep, ReadTop, ReadLine, ReadError, FailAll,
       AfterFail
  <2>5. ASSUME NEW p \in Proc, Redial(p) PROVE chan' = chan
    BY <2>5 DEF Redial, CloseOld, DialOK, DialFail
  <2>6. CASE \/ Close \/ (\E k \in Conn : Answer(k) \/ Lose(k))
             \/ UNCHANGED vars
             \/ \E r, s \in Reader : ReadRacing(r, s)
    BY <2>6 DEF Close, Answer, Lose, vars, ReadRacing
  <2> QED
    BY <2>1, <2>2, <2>3, <2>4, <2>5, <2>6 DEF Next
<1> QED
  BY <1>0, <1>1, <1>2, <1>3, ConstantsOK DEF ChansOK

-----------------------------------------------------------------------------

\* The inductive invariant of what is returned.
RInv == IInv /\ NumbersOK /\ SentOK /\ Owned

\* It holds initially.
LEMMA InitRInv == Init => RInv
<1> SUFFICES ASSUME Init PROVE RInv
  OBVIOUS
<1> USE Processes
<1>1. IInv
  BY InitIInv
<1>2. NumbersOK
  BY DEF Init, NumbersOK, Before, InFlight, Gone, Proc
<1>3. SentOK
  BY NumberedEmpty DEF Init, SentOK
<1>4. RespsOK
  BY AllOwnEmpty DEF Init, RespsOK
<1>5. HandsOK
  BY DEF Init, HandsOK, Proc
<1>6. ChansOK
  BY ConstantsOK DEF Init, ChansOK
<1> QED
  BY <1>1, <1>2, <1>3, <1>4, <1>5, <1>6 DEF RInv, Owned

\* It is kept by every step.
LEMMA NextRInv == RInv /\ [Next]_vars => RInv'
<1> SUFFICES ASSUME RInv, [Next]_vars PROVE RInv'
  OBVIOUS
<1>1. IInv' /\ NumbersOK' /\ SentOK'
  BY NextIInv, NextNumbers, NextSent DEF RInv
<1>2. ~raced' => RespsOK' /\ HandsOK' /\ ChansOK'
  BY NextResps, NextHands, NextChans DEF RInv
<1> QED
  BY <1>1, <1>2 DEF RInv, Owned

\* What a call returns is its own reply while no two readers have shared a
\* connection: response routing in readResponses and Call.
THEOREM RepliesOwn == Spec => []RepliesAreOwn
<1>1. RInv => RepliesAreOwn
  BY DEF RInv, Owned, ChansOK, RepliesAreOwn
<1> QED
  BY InitRInv, NextRInv, <1>1, PTL DEF Spec

-----------------------------------------------------------------------------
(* The client implements RpcCalls. *)

\* The variables of RpcCalls under the refinement mapping.
promised == <<reqID, cid, outcome, answered, raced>>

\* The initial state maps to an initial state of RpcCalls.
LEMMA InitRefines == Init => RpcSpec!CallsInit
  BY DEF Init, RpcSpec!CallsInit

\* Giving out a number, refusing a call and returning from it are the three
\* steps RpcCalls has for an invocation.
LEMMA CallEnds ==
  ASSUME RInv, NEW c \in Call
  PROVE  /\ Register(c) /\ pc[c] \in Before => RpcSpec!Issue(c)
         /\ pc[c] \in Before /\ Return(c, "error") /\
            UNCHANGED <<reqID, cid, answered, raced>> => RpcSpec!Refuse(c)
         /\ \A o \in RpcSpec!Outcome \ {"none"} :
              /\ pc[c] \in InFlight \ Gone
              /\ o = "reply" => raced \/ cid[c] \in answered
              /\ o = "foreign" => raced
              /\ Return(c, o)
              /\ UNCHANGED <<reqID, cid, answered, raced>>
              => RpcSpec!Return(c)
<1>1. /\ pc[c] \in Before => cid[c] = 0 /\ outcome[c] = "none"
      /\ pc[c] \in InFlight \ Gone => cid[c] # 0 /\ outcome[c] = "none"
  BY DEF RInv, NumbersOK, Before, InFlight, Gone
<1>2. Register(c) /\ pc[c] \in Before => RpcSpec!Issue(c)
  BY <1>1 DEF Register, RpcSpec!Issue, history
<1>3. ASSUME pc[c] \in Before, Return(c, "error"),
             UNCHANGED <<reqID, cid, answered, raced>>
      PROVE  RpcSpec!Refuse(c)
  BY <1>1, <1>3 DEF Return, RpcSpec!Refuse
<1>4. ASSUME NEW o \in RpcSpec!Outcome \ {"none"},
             pc[c] \in InFlight \ Gone,
             o = "reply" => raced \/ cid[c] \in answered,
             o = "foreign" => raced,
             Return(c, o), UNCHANGED <<reqID, cid, answered, raced>>
      PROVE  RpcSpec!Return(c)
  BY <1>1, <1>4 DEF Return, RpcSpec!Return
<1> QED
  BY <1>2, <1>3, <1>4

\* A step of a call.
LEMMA CallRefines ==
  ASSUME RInv, NEW c \in Call, CallStep(c)
  PROVE  RpcSpec!CallsNext \/ UNCHANGED promised
<1> USE DEF fields, calls, readers, network, history
<1>1. CASE CallStart(c) \/ CallRelock(c)
  <2>1. /\ pc[c] \in Before
        /\ \/ Register(c)
           \/ Return(c, "error") /\ UNCHANGED <<reqID, cid, answered, raced>>
           \/ UNCHANGED promised
    BY <1>1 DEF CallStart, CallRelock, Refused, Before, promised
  <2> QED
    BY <2>1, CallEnds DEF RpcSpec!CallsNext
<1>2. CASE CallReceive(c)
  <2>1. /\ pc[c] \in InFlight \ Gone /\ Return(c, Verdict(c))
        /\ UNCHANGED <<reqID, cid, answered, raced>>
    BY <1>2 DEF CallReceive, InFlight, Gone
  <2>2. /\ Verdict(c) \in RpcSpec!Outcome \ {"none"}
        /\ Verdict(c) = "reply" => raced \/ cid[c] \in answered
        /\ Verdict(c) = "foreign" => raced
    BY <1>2 DEF CallReceive, Verdict, RInv, Owned, ChansOK, Replied,
       RpcSpec!Outcome
  <2> QED
    BY <2>1, <2>2, CallEnds DEF RpcSpec!CallsNext
<1>3. CASE CallTakeConn(c) \/ CallBroken(c) \/ CallTimeout(c)
  <2>1. /\ pc[c] \in InFlight \ Gone
        /\ \/ outcome' = outcome
           \/ Return(c, "error")
           \/ Return(c, "timeout")
        /\ UNCHANGED <<reqID, cid, answered, raced>>
    BY <1>3 DEF CallTakeConn, CallBroken, CallTimeout, InFlight, Gone
  <2>2. {"error", "timeout"} \subseteq RpcSpec!Outcome \ {"none"}
    BY DEF RpcSpec!Outcome
  <2> QED
    BY <2>1, <2>2, CallEnds DEF RpcSpec!CallsNext, promised
<1>4. CASE CallWrite(c) \/ CallCleanup(c)
  BY <1>4 DEF CallWrite, CallCleanup, promised
<1> QED
  BY <1>1, <1>2, <1>3, <1>4 DEF CallStep

\* A step of the manager or of the network.
LEMMA EnvironmentRefines ==
  ASSUME RInv, NEW k \in Conn, Answer(k) \/ Lose(k)
  PROVE  RpcSpec!CallsNext \/ UNCHANGED promised
<1> USE DEF fields, calls, readers, network, history
<1>1. CASE Answer(k)
  <2> DEFINE c == Head(sent[k])
  <2>1. sent \in [Conn -> Seq(Call)] /\ AllNumbered(sent[k], cid)
    BY DEF RInv, IInv, TypeOK, NetworkOK, SentOK
  <2>2. c \in Call /\ cid[c] # 0
    BY <1>1, <2>1, NumberedSeq DEF Answer
  <2>3. cid[c] \in 1 .. reqID
    BY <2>2 DEF RInv, IInv, TypeOK, CallsOK, FieldsOK, NumbersOK
  <2>4. /\ answered' = answered \cup {cid[c]}
        /\ UNCHANGED <<reqID, cid, outcome, raced>>
    BY <1>1 DEF Answer
  <2> QED
    BY <2>3, <2>4 DEF RpcSpec!CallsNext, RpcSpec!Answer
<1>2. CASE Lose(k)
  BY <1>2 DEF Lose, promised
<1> QED
  BY <1>1, <1>2

\* A step of a reconnect.
LEMMA RedialRefines ==
  ASSUME RInv, NEW p \in Proc, Redial(p)
  PROVE  RpcSpec!CallsNext \/ UNCHANGED promised
<1> USE DEF fields, calls, readers, network, history
<1>1. CASE p \in Call /\ DialFail(p)
  <2>1. /\ pc[p] \in Before /\ Return(p, "error")
        /\ UNCHANGED <<reqID, cid, answered, raced>>
    BY <1>1, Processes DEF DialFail, Before
  <2> QED
    BY <1>1, <2>1, CallEnds DEF RpcSpec!CallsNext
<1>2. CASE CloseOld(p) \/ DialOK(p) \/ (p \notin Call /\ DialFail(p))
  BY <1>2 DEF CloseOld, DialOK, DialFail, promised
<1> QED
  BY <1>1, <1>2 DEF Redial

\* Every step of the client is a step of RpcCalls or changes nothing there.
LEMMA NextRefines ==
  RInv /\ [Next]_vars => [RpcSpec!CallsNext]_(RpcSpec!callVars)
<1> SUFFICES ASSUME RInv, [Next]_vars
             PROVE  RpcSpec!CallsNext \/ UNCHANGED promised
  BY DEF RpcSpec!callVars, promised
<1> USE DEF fields, calls, readers, network, history
<1>1. ASSUME NEW r \in Reader, Connect(r) \/ ReaderStep(r)
      PROVE  UNCHANGED promised
  <2>1. UNCHANGED <<answered, raced>>
    BY <1>1 DEF Connect, ReaderStep, ReadTop, ReadLine, ReadError, Deliver,
       FailAll, Send, AfterFail
  <2> QED
    BY <1>1, <2>1, CallsAside DEF RInv, IInv, TypeOK, promised
<1>2. ASSUME NEW r \in Reader, NEW s \in Reader, ReadRacing(r, s)
      PROVE  RpcSpec!CallsNext
  BY <1>2 DEF ReadRacing, RpcSpec!CallsNext, RpcSpec!Race
<1>3. CASE Close \/ UNCHANGED vars
  BY <1>3 DEF Close, vars, promised
<1> QED
  BY <1>1, <1>2, <1>3, CallRefines, RedialRefines, EnvironmentRefines DEF Next

\* SessionClient implements RpcCalls: through reconnects, lost connections and
\* timeouts every call returns at most once, with its own reply only if the
\* manager gave one.
THEOREM ClientImplementsCalls == Spec => ImplementsRpcCalls
  BY InitRefines, InitRInv, NextRInv, NextRefines, PTL
  DEF Spec, ImplementsRpcCalls, RpcSpec!CallsSpec

=============================================================================
