-------------------------- MODULE BackgroundProofs --------------------------
(***************************************************************************)
(* Theorems about what runs beside the tools: the session manager's        *)
(* requests and that it implements RpcCalls (ManagerRequests), the LSP     *)
(* proxy (LspProxy), the readers of the progress messages                  *)
(* (IndexingStatus), the limiter of the log (NotificationLimiter); and the *)
(* types of all that the run of MCBackground puts together, with the       *)
(* watchers of WatcherProofs.  Any number of requests, clients, readers    *)
(* and notifications, any capacity of the pipes.                           *)
(***************************************************************************)
EXTENDS MCBackground, WatcherProofs

-----------------------------------------------------------------------------
(***************************************************************************)
(* ManagerRequests.  The inductive invariant follows a request's number    *)
(* from the pipe to the server, through the server, the pipe back, and     *)
(* into the channel: it is in one of these places, once.                   *)
(***************************************************************************)

Unsent == {"write", "writing"}

\* Numbers are given out once and in order, a request has one from its
\* registration on and no outcome before it is about to go.
IdsOK ==
  /\ \A c \in Call : id[c] <= requestID
  /\ \A c, d \in Call : id[c] = id[d] /\ id[c] # 0 => c = d
  /\ \A c \in Call : pc[c] \in {"new", "status"} => id[c] = 0
  /\ \A c \in Call : pc[c] \in Unsent \cup {"wait"} => id[c] # 0
  /\ \A c \in Call :
       pc[c] \in {"new"} \cup Unsent \cup {"wait"} => outcome[c] = "none"

\* Some request that has passed the pipe has the number n.
Written(n, ids, at) ==
  \E c \in Call : ids[c] = n /\ n # 0 /\ at[c] \notin Unsent

\* What is on a pipe, and that each message of X is on it at most once.
NumbersOn(s) == {s[i] : i \in 1 .. Len(s)}

Once(s, X) == \A i, j \in 1 .. Len(s) : s[i] = s[j] /\ s[i] \in X => i = j

\* The server gets a request once.
StdinOK ==
  /\ \A n \in NumbersOn(stdin) : Written(n, id, pc)
  /\ NumbersOn(stdin) \cap (inProgress \cup answeredIds) = {}
  /\ Once(stdin, Nat)

\* It answers, of what it got, each request at most once.
ServerOK ==
  /\ \A n \in inProgress \cup answeredIds : Written(n, id, pc)
  /\ inProgress \cap answeredIds = {}

\* An answer is on its way once.
StdoutOK ==
  /\ NumbersOn(stdout) \subseteq answeredIds \cup {0, Garbage}
  /\ Once(stdout, answeredIds)

\* A channel holds its request's answer, which is then not on its way.
ChannelsOK ==
  \A c \in Call : chan[c] # 0 =>
    chan[c] = id[c] /\ id[c] \in answeredIds \ NumbersOn(stdout)

ManagerInv ==
  /\ ManagerTypeOK
  /\ IdsOK /\ StdinOK /\ ServerOK /\ StdoutOK /\ ChannelsOK

-----------------------------------------------------------------------------
(* Types. *)

\* A pipe that is emptied, read, or written when it has room stays a pipe.
LEMMA PipeKept ==
  ASSUME NEW S, NEW s \in Seq(S), Len(s) <= PipeCap, NEW t,
         \/ t \in {s, << >>}
         \/ s # << >> /\ t = Tail(s)
         \/ Len(s) < PipeCap /\ \E e \in S : t = Append(s, e)
  PROVE  t \in Seq(S) /\ Len(t) <= PipeCap
<1> USE ManagerConstants
<1>1. CASE t = s
  BY <1>1
<1>2. CASE t = << >>
  BY <1>2
<1>3. CASE s # << >> /\ t = Tail(s)
  BY <1>3
<1>4. ASSUME Len(s) < PipeCap, NEW e \in S, t = Append(s, e)
      PROVE  t \in Seq(S) /\ Len(t) <= PipeCap
  BY <1>4
<1> QED
  BY <1>1, <1>2, <1>3, <1>4

\* Every step keeps the types.
LEMMA NextManagerTypeOK ==
  ManagerTypeOK /\ [ManagerNext]_managerVars => ManagerTypeOK'
<1> SUFFICES ASSUME ManagerTypeOK, [ManagerNext]_managerVars
             PROVE  ManagerTypeOK'
  OBVIOUS
<1> USE ManagerConstants DEF ManagerTypeOK, locals, language, Goto, Return
<1>1. ASSUME NEW c \in Call, Register(c) PROVE ManagerTypeOK'
  BY <1>1 DEF Register
<1>2. ASSUME NEW c \in Call, Lock(c) PROVE ManagerTypeOK'
  BY <1>2 DEF Lock
<1>3. ASSUME NEW c \in Call, Write(c) PROVE ManagerTypeOK'
  <2>1. stdin' \in Seq(Nat) /\ Len(stdin') <= PipeCap
    BY <1>3, PipeKept DEF Write
  <2> QED
    BY <1>3, <2>1 DEF Write
<1>4. ASSUME NEW c \in Call, Receive(c) PROVE ManagerTypeOK'
  BY <1>4 DEF Receive
<1>5. ASSUME NEW c \in Call, Timeout(c) PROVE ManagerTypeOK'
  BY <1>5 DEF Timeout
<1>6. ASSUME NEW c \in Call, Cleanup(c) PROVE ManagerTypeOK'
  BY <1>6 DEF Cleanup
<1>7. ASSUME NEW p \in Probe, AskStatus(p) \/ Status(p) PROVE ManagerTypeOK'
  BY <1>7 DEF AskStatus, Status
<1>8. CASE Read
  <2>1. stdout' \in Seq(Nat \cup {Garbage}) /\ Len(stdout') <= PipeCap
    BY <1>8, PipeKept DEF Read
  <2>2. Head(stdout) \in Nat
    BY <1>8 DEF Read
  <2> QED
    BY <1>8, <2>1, <2>2 DEF Read, Dispatch
<1>9. CASE ReadEnds
  BY <1>9 DEF ReadEnds
<1>10. CASE LanguageReads
  <2>1. stdin' \in Seq(Nat) /\ Len(stdin') <= PipeCap
    BY <1>10, PipeKept DEF LanguageReads
  <2>2. Head(stdin) \in Nat
    BY <1>10 DEF LanguageReads
  <2> QED
    BY <1>10, <2>1, <2>2 DEF LanguageReads
<1>11. ASSUME NEW n \in 1 .. requestID, LanguageAnswers(n)
       PROVE  ManagerTypeOK'
  <2>1. stdout' \in Seq(Nat \cup {Garbage}) /\ Len(stdout') <= PipeCap
    BY <1>11, PipeKept DEF LanguageAnswers
  <2> QED
    BY <1>11, <2>1 DEF LanguageAnswers
<1>12. ASSUME NEW m \in {0, Garbage}, LanguageSends(m) PROVE ManagerTypeOK'
  <2>1. stdout' \in Seq(Nat \cup {Garbage}) /\ Len(stdout') <= PipeCap
    BY <1>12, PipeKept DEF LanguageSends
  <2> QED
    BY <1>12, <2>1 DEF LanguageSends
<1>13. CASE LanguageExits
  <2>1. stdin' \in Seq(Nat) /\ Len(stdin') <= PipeCap
    BY <1>13, PipeKept DEF LanguageExits
  <2> QED
    BY <1>13, <2>1 DEF LanguageExits
<1>14. CASE UNCHANGED managerVars
  BY <1>14 DEF managerVars
<1> QED
  BY <1>1, <1>2, <1>3, <1>4, <1>5, <1>6, <1>7, <1>8, <1>9, <1>10, <1>11,
     <1>12, <1>13, <1>14 DEF ManagerNext, CallStep

-----------------------------------------------------------------------------
(* Numbers. *)

\* Every step keeps the numbers in order.
LEMMA NextIds ==
  ManagerTypeOK /\ IdsOK /\ [ManagerNext]_managerVars => IdsOK'
<1> SUFFICES ASSUME ManagerTypeOK, IdsOK, [ManagerNext]_managerVars
             PROVE  IdsOK'
  OBVIOUS
<1> USE DEF IdsOK, Unsent, locals, language, Goto, Return
<1>0. /\ requestID \in Nat /\ id \in [Call -> Nat]
      /\ pc \in [Call \cup Probe ->
                  {"new", "write", "writing", "wait", "cleanup", "status",
                   "done"}]
      /\ outcome \in [Call ->
                       {"none", "reply", "foreign", "error", "timeout"}]
  BY DEF ManagerTypeOK
<1>1. ASSUME NEW c \in Call, Register(c) PROVE IdsOK'
  BY <1>0, <1>1 DEF Register
<1>2. ASSUME NEW c \in Call, Lock(c) PROVE IdsOK'
  BY <1>0, <1>2 DEF Lock
<1>3. ASSUME NEW c \in Call, Write(c) PROVE IdsOK'
  BY <1>0, <1>3 DEF Write
<1>4. ASSUME NEW c \in Call, Receive(c) PROVE IdsOK'
  BY <1>0, <1>4 DEF Receive
<1>5. ASSUME NEW c \in Call, Timeout(c) PROVE IdsOK'
  BY <1>0, <1>5 DEF Timeout
<1>6. ASSUME NEW c \in Call, Cleanup(c) PROVE IdsOK'
  BY <1>0, <1>6 DEF Cleanup
<1>7. ASSUME NEW p \in Probe, AskStatus(p) \/ Status(p) PROVE IdsOK'
  BY <1>0, <1>7 DEF AskStatus, Status
<1>8. CASE \/ Read \/ ReadEnds \/ LanguageReads \/ LanguageExits
           \/ \E n \in 1 .. requestID : LanguageAnswers(n)
           \/ \E m \in {0, Garbage} : LanguageSends(m)
           \/ UNCHANGED managerVars
  BY <1>8 DEF Read, ReadEnds, LanguageReads, LanguageExits, LanguageAnswers,
     LanguageSends, managerVars
<1> QED
  BY <1>1, <1>2, <1>3, <1>4, <1>5, <1>6, <1>7, <1>8 DEF ManagerNext, CallStep

\* A number that has passed the pipe stays one that has.
LEMMA WrittenKept ==
  ASSUME ManagerTypeOK, IdsOK, [ManagerNext]_managerVars
  PROVE  \A n : Written(n, id, pc) => Written(n, id', pc')
<1> USE DEF IdsOK, Unsent, locals, language, Goto, Return
<1> SUFFICES ASSUME NEW c \in Call, id[c] # 0, pc[c] \notin Unsent
             PROVE  id'[c] = id[c] /\ pc'[c] \notin Unsent
  BY DEF Written
<1>0. /\ id \in [Call -> Nat]
      /\ pc \in [Call \cup Probe ->
                  {"new", "write", "writing", "wait", "cleanup", "status",
                   "done"}]
  BY DEF ManagerTypeOK
<1>1. ASSUME NEW d \in Call, Register(d)
      PROVE  id'[c] = id[c] /\ pc'[c] \notin Unsent
  BY <1>0, <1>1 DEF Register
<1>2. ASSUME NEW d \in Call, CallStep(d)
      PROVE  id'[c] = id[c] /\ pc'[c] \notin Unsent
  BY <1>0, <1>2 DEF CallStep, Lock, Write, Receive, Timeout, Cleanup
<1>3. ASSUME NEW p \in Probe, AskStatus(p) \/ Status(p)
      PROVE  id'[c] = id[c] /\ pc'[c] \notin Unsent
  BY <1>0, <1>3 DEF AskStatus, Status
<1>4. CASE \/ Read \/ ReadEnds \/ LanguageReads \/ LanguageExits
           \/ \E n \in 1 .. requestID : LanguageAnswers(n)
           \/ \E m \in {0, Garbage} : LanguageSends(m)
           \/ UNCHANGED managerVars
  BY <1>4 DEF Read, ReadEnds, LanguageReads, LanguageExits, LanguageAnswers,
     LanguageSends, managerVars
<1> QED
  BY <1>1, <1>2, <1>3, <1>4 DEF ManagerNext

-----------------------------------------------------------------------------
(* The pipes and the server. *)

\* A message that is written is on the pipe, once if it was not there.
LEMMA PipeWritten ==
  ASSUME NEW S, NEW s \in Seq(S), NEW e
  PROVE  /\ NumbersOn(Append(s, e)) = NumbersOn(s) \cup {e}
         /\ \A X : Once(s, X) /\ (e \notin X \/ e \notin NumbersOn(s))
                     => Once(Append(s, e), X)
  BY DEF NumbersOn, Once

\* A message that is read is the pipe's first one, and is gone if it was
\* there once.
LEMMA PipeRead ==
  ASSUME NEW S, NEW s \in Seq(S), s # << >>
  PROVE  /\ Head(s) \in NumbersOn(s) /\ NumbersOn(Tail(s)) \subseteq NumbersOn(s)
         /\ \A X : Once(s, X) =>
              /\ Once(Tail(s), X)
              /\ Head(s) \notin X \/ Head(s) \notin NumbersOn(Tail(s))
<1>1. /\ Len(s) \in Nat \ {0} /\ Len(Tail(s)) = Len(s) - 1
      /\ Head(s) = s[1] /\ \A i \in 1 .. Len(Tail(s)) : Tail(s)[i] = s[i + 1]
  OBVIOUS
<1>2. Head(s) \in NumbersOn(s) /\ NumbersOn(Tail(s)) \subseteq NumbersOn(s)
  BY <1>1 DEF NumbersOn
<1>3. ASSUME NEW X, Once(s, X)
      PROVE  /\ Once(Tail(s), X)
             /\ Head(s) \notin X \/ Head(s) \notin NumbersOn(Tail(s))
  <2>1. Once(Tail(s), X)
    BY <1>1, <1>3 DEF Once
  <2>2. ASSUME Head(s) \in X, NEW i \in 1 .. Len(Tail(s)),
               Tail(s)[i] = Head(s)
        PROVE  FALSE
    BY <1>1, <1>3, <2>2 DEF Once
  <2> QED
    BY <2>1, <2>2 DEF NumbersOn
<1> QED
  BY <1>2, <1>3

\* Nothing is on an empty pipe.
LEMMA PipeEmpty == NumbersOn(<< >>) = {} /\ \A X : Once(<< >>, X)
  BY DEF NumbersOn, Once

\* A step of a call, a probe or a reader that writes nothing leaves the
\* server's side alone.
LEMMA ServerAside ==
  ASSUME \/ \E c \in Call : Register(c) \/ Lock(c) \/ Receive(c)
                            \/ Timeout(c) \/ Cleanup(c)
         \/ \E p \in Probe : AskStatus(p) \/ Status(p)
         \/ ReadEnds
         \/ UNCHANGED managerVars
  PROVE  UNCHANGED <<stdin, inProgress, stdout, answeredIds>>
  BY DEF Register, Lock, Receive, Timeout, Cleanup, AskStatus, Status, ReadEnds,
     managerVars, language

\* Every step keeps what waits for the server in order.
LEMMA NextStdin ==
  ManagerInv /\ [ManagerNext]_managerVars => StdinOK'
<1> SUFFICES ASSUME ManagerInv, [ManagerNext]_managerVars PROVE StdinOK'
  OBVIOUS
<1> USE DEF locals, language, Goto, Return
<1>0. /\ stdin \in Seq(Nat) /\ StdinOK /\ ServerOK /\ IdsOK
      /\ \A n : Written(n, id, pc) => Written(n, id', pc')
  BY WrittenKept DEF ManagerInv, ManagerTypeOK
<1>1. ASSUME NEW c \in Call, Write(c) PROVE StdinOK'
  <2>1. CASE stdin' = stdin
    BY <1>0, <1>1, <2>1 DEF Write, StdinOK
  <2>2. CASE stdin' = Append(stdin, id[c])
    <3>1. pc[c] \in Unsent /\ id[c] # 0
      BY <1>0, <1>1 DEF Write, IdsOK, Unsent
    <3>2. ~Written(id[c], id, pc)
      BY <1>0, <3>1 DEF IdsOK, Written
    <3>3. id[c] \notin NumbersOn(stdin) \cup inProgress \cup answeredIds
      BY <1>0, <3>2 DEF StdinOK, ServerOK
    <3>4. Written(id[c], id', pc')
      <4>1. id' = id /\ pc'[c] \notin Unsent
        BY <1>1 DEF Write, Unsent, ManagerInv, ManagerTypeOK
      <4> QED
        BY <3>1, <4>1 DEF Written
    <3>5. NumbersOn(stdin') = NumbersOn(stdin) \cup {id[c]} /\ Once(stdin', Nat)
      BY <1>0, <2>2, <3>3, PipeWritten DEF StdinOK
    <3>6. UNCHANGED <<inProgress, answeredIds>>
      BY <1>1 DEF Write
    <3> QED
      BY <1>0, <3>3, <3>4, <3>5, <3>6 DEF StdinOK
  <2> QED
    BY <1>1, <2>1, <2>2 DEF Write
<1>2. CASE LanguageReads
  <2>1. /\ stdin' = Tail(stdin) /\ stdin # << >>
        /\ inProgress' = inProgress \cup {Head(stdin)}
        /\ answeredIds' = answeredIds
    BY <1>2 DEF LanguageReads
  <2>2. /\ NumbersOn(stdin') \subseteq NumbersOn(stdin) /\ Once(stdin', Nat)
        /\ Head(stdin) \notin NumbersOn(stdin')
    BY <1>0, <2>1, PipeRead DEF StdinOK
  <2> QED
    BY <1>0, <2>1, <2>2 DEF StdinOK
<1>3. ASSUME NEW n \in 1 .. requestID, LanguageAnswers(n) PROVE StdinOK'
  BY <1>0, <1>3 DEF LanguageAnswers, StdinOK
<1>4. CASE LanguageExits
  BY <1>4, PipeEmpty DEF LanguageExits, StdinOK
<1>5. CASE Read \/ \E m \in {0, Garbage} : LanguageSends(m)
  BY <1>0, <1>5 DEF Read, LanguageSends, StdinOK
<1>6. ASSUME UNCHANGED <<stdin, inProgress, answeredIds>> PROVE StdinOK'
  BY <1>0, <1>6 DEF StdinOK
<1> QED
  BY <1>1, <1>2, <1>3, <1>4, <1>5, <1>6, ServerAside DEF ManagerNext, CallStep

\* Every step keeps each request with the server at one stage.
LEMMA NextServer ==
  ManagerInv /\ [ManagerNext]_managerVars => ServerOK'
<1> SUFFICES ASSUME ManagerInv, [ManagerNext]_managerVars PROVE ServerOK'
  OBVIOUS
<1> USE DEF locals, language
<1>0. /\ stdin \in Seq(Nat) /\ StdinOK /\ ServerOK
      /\ \A n : Written(n, id, pc) => Written(n, id', pc')
  BY WrittenKept DEF ManagerInv, ManagerTypeOK
<1>1. CASE LanguageReads
  <2>1. Head(stdin) \in NumbersOn(stdin)
    BY <1>0, <1>1, PipeRead DEF LanguageReads
  <2> QED
    BY <1>0, <1>1, <2>1 DEF LanguageReads, StdinOK, ServerOK
<1>2. ASSUME NEW n \in 1 .. requestID, LanguageAnswers(n) PROVE ServerOK'
  BY <1>0, <1>2 DEF LanguageAnswers, ServerOK
<1>3. CASE LanguageExits
  BY <1>0, <1>3 DEF LanguageExits, ServerOK
<1>4. CASE \/ Read \/ \E m \in {0, Garbage} : LanguageSends(m)
           \/ \E c \in Call : Write(c)
  BY <1>0, <1>4 DEF Read, LanguageSends, Write, ServerOK
<1>5. ASSUME UNCHANGED <<inProgress, answeredIds>> PROVE ServerOK'
  BY <1>0, <1>5 DEF ServerOK
<1> QED
  BY <1>1, <1>2, <1>3, <1>4, <1>5, ServerAside DEF ManagerNext, CallStep

-----------------------------------------------------------------------------
(* The answers. *)

\* A step of the server that answers a request puts a new number on the pipe.
LEMMA AnswerIsNew ==
  ASSUME ManagerInv, NEW n, LanguageAnswers(n)
  PROVE  /\ n \notin NumbersOn(stdout) \cup answeredIds /\ n # 0
         /\ answeredIds' = answeredIds \cup {n}
         /\ NumbersOn(stdout') = NumbersOn(stdout) \cup {n}
         /\ Once(stdout', answeredIds')
<1>1. /\ stdout \in Seq(Nat \cup {Garbage}) /\ n \in inProgress /\ n \in Nat
      /\ answeredIds' = answeredIds \cup {n} /\ stdout' = Append(stdout, n)
      /\ StdoutOK /\ ServerOK
  BY DEF LanguageAnswers, ManagerInv, ManagerTypeOK
<1>2. n # 0 /\ n # Garbage /\ n \notin answeredIds
  BY <1>1, ManagerConstants DEF ServerOK, Written
<1>3. n \notin NumbersOn(stdout)
  BY <1>1, <1>2 DEF StdoutOK
<1>4. Once(stdout, answeredIds')
  BY <1>1, <1>3 DEF StdoutOK, Once, NumbersOn
<1> QED
  BY <1>1, <1>2, <1>3, <1>4, PipeWritten

\* Every step keeps each answer on its way once.
LEMMA NextStdout ==
  ManagerInv /\ [ManagerNext]_managerVars => StdoutOK'
<1> SUFFICES ASSUME ManagerInv, [ManagerNext]_managerVars PROVE StdoutOK'
  OBVIOUS
<1> USE DEF locals, language
<1>0. /\ stdout \in Seq(Nat \cup {Garbage}) /\ StdoutOK
      /\ answeredIds \subseteq Nat \ {0}
  BY DEF ManagerInv, ManagerTypeOK, ServerOK, Written
<1>1. CASE Read
  BY <1>0, <1>1, PipeRead DEF Read, StdoutOK
<1>2. ASSUME NEW n \in 1 .. requestID, LanguageAnswers(n) PROVE StdoutOK'
  BY <1>0, <1>2, AnswerIsNew DEF StdoutOK
<1>3. ASSUME NEW m \in {0, Garbage}, LanguageSends(m) PROVE StdoutOK'
  <2>1. /\ stdout' = Append(stdout, m) /\ answeredIds' = answeredIds
        /\ m \notin answeredIds
    BY <1>0, <1>3, ManagerConstants DEF LanguageSends
  <2> QED
    BY <1>0, <2>1, PipeWritten DEF StdoutOK
<1>4. CASE \/ LanguageReads \/ LanguageExits \/ \E c \in Call : Write(c)
  BY <1>0, <1>4 DEF LanguageReads, LanguageExits, Write, StdoutOK
<1>5. ASSUME UNCHANGED <<stdout, answeredIds>> PROVE StdoutOK'
  BY <1>0, <1>5 DEF StdoutOK
<1> QED
  BY <1>1, <1>2, <1>3, <1>4, <1>5, ServerAside DEF ManagerNext, CallStep

\* Every step keeps the answers where they belong.
LEMMA NextChannels ==
  ManagerInv /\ [ManagerNext]_managerVars => ChannelsOK'
<1> SUFFICES ASSUME ManagerInv, [ManagerNext]_managerVars PROVE ChannelsOK'
  OBVIOUS
<1> USE DEF locals, language, Goto
<1>0. /\ stdout \in Seq(Nat \cup {Garbage}) /\ StdoutOK /\ ChannelsOK
      /\ answeredIds \subseteq Nat \ {0}
      /\ chan \in [Call -> Nat] /\ id \in [Call -> Nat] /\ pending \subseteq Call
  BY DEF ManagerInv, ManagerTypeOK, ServerOK, Written
<1>1. CASE Read
  <2>1. /\ Head(stdout) \in NumbersOn(stdout)
        /\ NumbersOn(stdout') \subseteq NumbersOn(stdout)
        /\ Head(stdout) \notin answeredIds \/ Head(stdout) \notin NumbersOn(stdout')
    BY <1>0, <1>1, PipeRead DEF Read, StdoutOK
  <2>2. UNCHANGED <<id, answeredIds>>
    BY <1>1 DEF Read
  <2>3. CASE UNCHANGED chan
    BY <1>0, <2>1, <2>2, <2>3 DEF ChannelsOK
  <2>4. ASSUME NEW c \in Call, id[c] = Head(stdout), Head(stdout) # 0,
               chan' = [chan EXCEPT ![c] = Head(stdout)]
        PROVE  ChannelsOK'
    <3>1. Head(stdout) \in answeredIds
      BY <1>0, <1>1, <2>1, <2>4 DEF Read, StdoutOK
    <3> QED
      BY <1>0, <2>1, <2>2, <2>4, <3>1 DEF ChannelsOK
  <2>5. \A c \in pending : id[c] # 0
    BY DEF ManagerInv, ManagerTypeOK
  <2> QED
    BY <1>0, <1>1, <2>3, <2>4, <2>5 DEF Read, Dispatch
<1>2. ASSUME NEW n \in 1 .. requestID, LanguageAnswers(n) PROVE ChannelsOK'
  <2>1. UNCHANGED <<id, chan>>
    BY <1>2 DEF LanguageAnswers
  <2> QED
    BY <1>0, <1>2, <2>1, AnswerIsNew DEF ChannelsOK
<1>3. ASSUME NEW m \in {0, Garbage}, LanguageSends(m) PROVE ChannelsOK'
  <2>1. /\ stdout' = Append(stdout, m) /\ m \notin answeredIds
        /\ UNCHANGED <<id, chan, answeredIds>>
    BY <1>0, <1>3, ManagerConstants DEF LanguageSends
  <2>2. NumbersOn(stdout') = NumbersOn(stdout) \cup {m}
    BY <1>0, <2>1, PipeWritten
  <2> QED
    BY <1>0, <2>1, <2>2 DEF ChannelsOK
<1>4. ASSUME NEW c \in Call, Register(c) PROVE ChannelsOK'
  <2>1. id[c] = 0
    BY <1>4 DEF Register, ManagerInv, IdsOK
  <2> QED
    BY <1>0, <1>4, <2>1 DEF Register, ChannelsOK
<1>5. ASSUME NEW c \in Call, Receive(c) \/ Cleanup(c) PROVE ChannelsOK'
  <2>1. /\ chan' = [chan EXCEPT ![c] = 0]
        /\ UNCHANGED <<id, stdout, answeredIds>>
    BY <1>5 DEF Receive, Cleanup
  <2> QED
    BY <1>0, <2>1 DEF ChannelsOK
<1>6. CASE \/ \E c \in Call : Lock(c) \/ Write(c) \/ Timeout(c)
           \/ \E p \in Probe : AskStatus(p) \/ Status(p)
           \/ ReadEnds \/ LanguageReads \/ LanguageExits
           \/ UNCHANGED managerVars
  <2>1. UNCHANGED <<id, chan, stdout, answeredIds>>
    BY <1>6 DEF Lock, Write, Timeout, AskStatus, Status, ReadEnds,
       LanguageReads, LanguageExits, managerVars
  <2> QED
    BY <1>0, <2>1 DEF ChannelsOK
<1> QED
  BY <1>1, <1>2, <1>3, <1>4, <1>5, <1>6 DEF ManagerNext, CallStep

-----------------------------------------------------------------------------

\* The manager after initialize satisfies the inductive invariant.
LEMMA InitManagerInv == ManagerInit => ManagerInv
<1> SUFFICES ASSUME ManagerInit PROVE ManagerInv
  OBVIOUS
<1>1. ManagerTypeOK
  BY ManagerConstants DEF ManagerInit, ManagerTypeOK
<1>2. IdsOK
  BY DEF ManagerInit, IdsOK, Unsent
<1>3. StdinOK /\ ServerOK /\ StdoutOK
  BY PipeEmpty DEF ManagerInit, StdinOK, ServerOK, StdoutOK
<1>4. ChannelsOK
  BY DEF ManagerInit, ChannelsOK
<1> QED
  BY <1>1, <1>2, <1>3, <1>4 DEF ManagerInv

\* Every step keeps it.
LEMMA NextManagerInv == ManagerInv /\ [ManagerNext]_managerVars => ManagerInv'
  BY NextManagerTypeOK, NextIds, NextStdin, NextServer, NextStdout, NextChannels
  DEF ManagerInv

\* Types, and that a request in sm.pending has a number that sm.requestID has
\* passed: sendRequest, readResponses and the pipes to the language server.
THEOREM ManagerTypeCorrect == ManagerSpec => []ManagerTypeOK
<1>1. ManagerInv => ManagerTypeOK
  BY DEF ManagerInv
<1> QED
  BY InitManagerInv, NextManagerInv, <1>1, PTL DEF ManagerSpec

\* readResponses never waits with pendingMu held: a channel that already has
\* its answer gets no other one.
THEOREM RoomForResponses == ManagerSpec => []RoomForResponse
<1>1. ManagerInv => RoomForResponse
  <2> SUFFICES ASSUME ManagerInv, stdout # << >>,
                      NEW c \in pending, id[c] = Head(stdout)
               PROVE  chan[c] = 0
    BY DEF RoomForResponse
  <2>1. c \in Call /\ Head(stdout) \in NumbersOn(stdout)
    BY PipeRead DEF ManagerInv, ManagerTypeOK
  <2> QED
    BY <2>1 DEF ManagerInv, ChannelsOK
<1> QED
  BY InitManagerInv, NextManagerInv, <1>1, PTL DEF ManagerSpec

-----------------------------------------------------------------------------
(* The manager implements RpcCalls. *)

\* The variables of RpcCalls under the refinement mapping.
managerPromise == <<requestID, id, outcome, answeredIds, FALSE>>

\* Every step of the manager is a step of RpcCalls or changes nothing there.
LEMMA ManagerRefines ==
  ManagerInv /\ [ManagerNext]_managerVars
    => [RpcSpec!CallsNext]_(RpcSpec!callVars)
<1> SUFFICES ASSUME ManagerInv, [ManagerNext]_managerVars
             PROVE  RpcSpec!CallsNext \/ UNCHANGED managerPromise
  BY DEF RpcSpec!callVars, managerPromise
<1> USE DEF locals, language, Goto, Return, Unsent
<1>0. /\ IdsOK /\ ChannelsOK /\ id \in [Call -> Nat]
  BY DEF ManagerInv, ManagerTypeOK
<1>1. ASSUME NEW c \in Call, Register(c) PROVE RpcSpec!CallsNext
  <2>1. id[c] = 0 /\ outcome[c] = "none"
    BY <1>0, <1>1 DEF Register, IdsOK
  <2>2. RpcSpec!Issue(c)
    BY <1>1, <2>1 DEF Register, RpcSpec!Issue
  <2> QED
    BY <2>2 DEF RpcSpec!CallsNext
<1>2. ASSUME NEW c \in Call, pc[c] \in {"writing", "wait"},
             NEW o \in RpcSpec!Outcome \ {"none", "foreign"},
             o = "reply" => id[c] \in answeredIds,
             outcome' = [outcome EXCEPT ![c] = o],
             UNCHANGED <<requestID, id, answeredIds>>
      PROVE  RpcSpec!CallsNext
  <2>1. id[c] # 0 /\ outcome[c] = "none"
    BY <1>0, <1>2 DEF IdsOK
  <2>2. RpcSpec!Return(c)
    BY <1>2, <2>1 DEF RpcSpec!Return
  <2> QED
    BY <2>2 DEF RpcSpec!CallsNext
<1>3. ASSUME NEW c \in Call, Write(c)
      PROVE  RpcSpec!CallsNext \/ UNCHANGED managerPromise
  <2>1. "error" \in RpcSpec!Outcome \ {"none", "foreign"}
    BY DEF RpcSpec!Outcome
  <2> QED
    BY <1>2, <1>3, <2>1 DEF Write, managerPromise
<1>4. ASSUME NEW c \in Call, Receive(c) PROVE RpcSpec!CallsNext
  <2>1. chan[c] = id[c] /\ id[c] \in answeredIds
    BY <1>0, <1>4 DEF Receive, ChannelsOK
  <2>2. "reply" \in RpcSpec!Outcome \ {"none", "foreign"}
    BY DEF RpcSpec!Outcome
  <2> QED
    BY <1>2, <1>4, <2>1, <2>2 DEF Receive
<1>5. ASSUME NEW c \in Call, Timeout(c) PROVE RpcSpec!CallsNext
  <2>1. "timeout" \in RpcSpec!Outcome \ {"none", "foreign"}
    BY DEF RpcSpec!Outcome
  <2> QED
    BY <1>2, <1>5, <2>1 DEF Timeout
<1>6. ASSUME NEW n \in 1 .. requestID, LanguageAnswers(n)
      PROVE  RpcSpec!CallsNext
  BY <1>6 DEF LanguageAnswers, RpcSpec!CallsNext, RpcSpec!Answer
<1>7. CASE \/ \E c \in Call : Lock(c) \/ Cleanup(c)
           \/ \E p \in Probe : AskStatus(p) \/ Status(p)
           \/ Read \/ ReadEnds \/ LanguageReads \/ LanguageExits
           \/ \E m \in {0, Garbage} : LanguageSends(m)
           \/ UNCHANGED managerVars
  BY <1>7 DEF Lock, Cleanup, AskStatus, Status, Read, ReadEnds,
     LanguageReads, LanguageExits, LanguageSends, managerVars, managerPromise
<1> QED
  BY <1>1, <1>3, <1>4, <1>5, <1>6, <1>7 DEF ManagerNext, CallStep

\* The session manager implements RpcCalls, and nothing can race there: every
\* forwarded request returns at most once, with the server's answer to it
\* only if the server gave one, under a number no other request has.
THEOREM ManagerImplementsCalls == ManagerSpec => ImplementsRpcCalls
<1>1. ManagerInit => RpcSpec!CallsInit
  BY DEF ManagerInit, RpcSpec!CallsInit
<1> QED
  BY <1>1, InitManagerInv, NextManagerInv, ManagerRefines, PTL
  DEF ManagerSpec, ImplementsRpcCalls, RpcSpec!CallsSpec

-----------------------------------------------------------------------------
(***************************************************************************)
(* LspProxy.  The inductive invariant says where the numbers of a client   *)
(* that has the proxy to itself are: each of 1 .. sent[c] is at exactly    *)
(* one of the stages that a request and its answer go through, and nothing *)
(* else is at any stage.                                                   *)
(***************************************************************************)

\* The numbers of the messages of a pipe, that no two of them have the same,
\* that they are all from or for c, and that none is a refusal.
Nums(s) == {s[i].num : i \in 1 .. Len(s)}

Distinct(s) == \A i, j \in 1 .. Len(s) : s[i].num = s[j].num => i = j

AllOf(s, c) == \A i \in 1 .. Len(s) : s[i].from = c

NoRefusal(s) == \A i \in 1 .. Len(s) : s[i].body # "refused"

\* The stages of a request of c.
Held(c)   == IF conn[c] = "forward" THEN {sent[c]} ELSE {}
Queued    == Nums(toServer)
Worked    == {a.num : a \in working}
Answered  == Nums(fromServer)
InHand    == Nums(inHand)
Given(c)  == Nums(answered[c])

\* Each request of c is at one stage.
StagesOK(c) ==
  /\ Held(c) \cup Queued \cup Worked \cup Answered \cup InHand \cup Given(c)
       = 1 .. sent[c]
  /\ Held(c) \cap Queued = {}
  /\ (Held(c) \cup Queued) \cap Worked = {}
  /\ (Held(c) \cup Queued \cup Worked) \cap Answered = {}
  /\ (Held(c) \cup Queued \cup Worked \cup Answered) \cap InHand = {}
  /\ (Held(c) \cup Queued \cup Worked \cup Answered \cup InHand) \cap Given(c)
       = {}

\* It is there once.
OnceOK(c) ==
  /\ Distinct(toServer) /\ Distinct(fromServer) /\ Distinct(inHand)
  /\ Distinct(answered[c])
  /\ \A a, b \in working : a.num = b.num => a = b

\* Nobody else's request is at any stage, and what comes back is welcome.
OwnOK(c) ==
  /\ AllOf(toServer, c) /\ AllOf(fromServer, c) /\ AllOf(inHand, c)
  /\ AllOf(answered[c], c)
  /\ NoRefusal(fromServer) /\ NoRefusal(inHand) /\ NoRefusal(answered[c])
  /\ \A a \in working : a.from = c /\ a.body # "refused"
  /\ \A d \in Client : conn[d] = "forward" => d = c

\* A client that has the proxy to itself.
ServedOK(c) ==
  /\ activeClient = c
  /\ StagesOK(c) /\ OnceOK(c) /\ OwnOK(c)
  /\ 1 \in Held(c) \cup Queued => ~opened

\* Clients that have not connected, or have left, are not the active one; one
\* that forwards has sent something.
ConnOK ==
  /\ \A c \in Client : conn[c] = "new" => sent[c] = 0 /\ answered[c] = << >>
  /\ \A c \in Client : conn[c] = "forward" => sent[c] \in 1 .. MaxSends
  /\ \A c \in alone : conn[c] # "new"
  /\ activeClient \in Client => conn[activeClient] \in {"read", "forward"}

\* Once an initialize request was accepted, the answer to it is cached or on
\* its way to the cache.
CacheComes ==
  opened =>
    \/ initialized
    \/ \E a \in working : a.body = "capabilities"
    \/ \E i \in 1 .. Len(fromServer) : fromServer[i].body = "capabilities"

ProxyInv ==
  /\ ProxyTypeOK /\ ConnOK /\ CacheComes
  /\ \A c \in alone : conn[c] # "closed" => ServedOK(c)

-----------------------------------------------------------------------------
(* Pipes. *)

\* What a message adds to a pipe.
LEMMA PipeGets ==
  ASSUME NEW S, NEW s \in Seq(S), NEW e \in S
  PROVE  /\ Append(s, e) \in Seq(S)
         /\ Nums(Append(s, e)) = Nums(s) \cup {e.num}
         /\ Distinct(s) /\ e.num \notin Nums(s) => Distinct(Append(s, e))
         /\ \A c : AllOf(s, c) /\ e.from = c => AllOf(Append(s, e), c)
         /\ NoRefusal(s) /\ e.body # "refused" => NoRefusal(Append(s, e))
<1>1. /\ Append(s, e) \in Seq(S) /\ Len(s) \in Nat
      /\ Len(Append(s, e)) = Len(s) + 1 /\ Append(s, e)[Len(s) + 1] = e
      /\ \A i \in 1 .. Len(s) : Append(s, e)[i] = s[i]
  OBVIOUS
<1>2. \A i \in 1 .. Len(Append(s, e)) : i \in 1 .. Len(s) \/ i = Len(s) + 1
  BY <1>1
<1>3. 1 .. Len(Append(s, e)) = 1 .. Len(s) \cup {Len(s) + 1}
  BY <1>1
<1> HIDE <1>2
<1>4. Nums(Append(s, e)) = Nums(s) \cup {e.num}
  BY <1>1, <1>3 DEF Nums
<1>5. ASSUME Distinct(s), e.num \notin Nums(s) PROVE Distinct(Append(s, e))
  BY <1>1, <1>2, <1>5 DEF Distinct, Nums
<1>6. \A c : AllOf(s, c) /\ e.from = c => AllOf(Append(s, e), c)
  BY <1>1, <1>2 DEF AllOf
<1>7. NoRefusal(s) /\ e.body # "refused" => NoRefusal(Append(s, e))
  BY <1>1, <1>2 DEF NoRefusal
<1> QED
  BY <1>1, <1>4, <1>5, <1>6, <1>7

\* What the first message takes from a pipe.
LEMMA PipeLoses ==
  ASSUME NEW S, NEW s \in Seq(S), s # << >>
  PROVE  /\ Head(s) \in S /\ Tail(s) \in Seq(S)
         /\ Nums(s) = Nums(Tail(s)) \cup {Head(s).num}
         /\ Distinct(s) => Distinct(Tail(s)) /\ Head(s).num \notin Nums(Tail(s))
         /\ \A c : AllOf(s, c) => AllOf(Tail(s), c) /\ Head(s).from = c
         /\ NoRefusal(s) => NoRefusal(Tail(s)) /\ Head(s).body # "refused"
<1>1. /\ Head(s) \in S /\ Tail(s) \in Seq(S)
      /\ Len(s) \in Nat \ {0} /\ Len(Tail(s)) = Len(s) - 1
      /\ Head(s) = s[1] /\ \A i \in 1 .. Len(Tail(s)) : Tail(s)[i] = s[i + 1]
  OBVIOUS
<1>2. Nums(s) = Nums(Tail(s)) \cup {Head(s).num}
  <2>1. ASSUME NEW i \in 1 .. Len(s)
        PROVE  s[i].num \in Nums(Tail(s)) \cup {Head(s).num}
    <3>1. CASE i = 1
      BY <1>1, <3>1
    <3>2. CASE i # 1
      <4>1. i - 1 \in 1 .. Len(Tail(s)) /\ Tail(s)[i - 1] = s[i]
        BY <1>1, <3>2
      <4> QED
        BY <4>1 DEF Nums
    <3> QED
      BY <3>1, <3>2
  <2>2. \A i \in 1 .. Len(Tail(s)) : Tail(s)[i].num \in Nums(s)
    BY <1>1 DEF Nums
  <2>3. Head(s).num \in Nums(s)
    BY <1>1 DEF Nums
  <2> QED
    BY <2>1, <2>2, <2>3 DEF Nums
<1>3. ASSUME Distinct(s)
      PROVE  Distinct(Tail(s)) /\ Head(s).num \notin Nums(Tail(s))
  BY <1>1, <1>3 DEF Distinct, Nums
<1>4. \A c : AllOf(s, c) => AllOf(Tail(s), c) /\ Head(s).from = c
  BY <1>1 DEF AllOf
<1>5. NoRefusal(s) => NoRefusal(Tail(s)) /\ Head(s).body # "refused"
  BY <1>1 DEF NoRefusal
<1> QED
  BY <1>1, <1>2, <1>3, <1>4, <1>5

\* What is on an empty pipe, and on one with a single message.
LEMMA PipeShort ==
  /\ Nums(<< >>) = {} /\ Distinct(<< >>) /\ NoRefusal(<< >>)
  /\ \A c : AllOf(<< >>, c)
  /\ \A e : /\ Nums(<<e>>) = {e.num} /\ Distinct(<<e>>)
            /\ \A c : e.from = c => AllOf(<<e>>, c)
            /\ e.body # "refused" => NoRefusal(<<e>>)
  BY DEF Nums, Distinct, AllOf, NoRefusal

\* A pipe with one message.
LEMMA PipeOne ==
  ASSUME NEW S, NEW s \in Seq(S), Len(s) = 1
  PROVE  s[1] \in S /\ s = <<s[1]>>
<1>1. s[1] \in S
  OBVIOUS
<1>2. s = <<s[1]>>
  OBVIOUS
<1> QED
  BY <1>1, <1>2

-----------------------------------------------------------------------------
(* Types, connections and the cache. *)

\* Every step keeps the types.
LEMMA NextProxyTypeOK ==
  ProxyTypeOK /\ ConnOK /\ [ProxyNext]_proxyVars => ProxyTypeOK'
<1> SUFFICES ASSUME ProxyTypeOK, ConnOK, [ProxyNext]_proxyVars
             PROVE  ProxyTypeOK'
  OBVIOUS
<1> USE ProxyConstants DEF ProxyTypeOK
<1>1. ASSUME NEW c \in Client, Accept(c) \/ Hangup(c) PROVE ProxyTypeOK'
  BY <1>1 DEF Accept, Hangup
<1>2. ASSUME NEW c \in Client, ReadRequest(c) PROVE ProxyTypeOK'
  <2>1. sent' \in [Client -> 0 .. MaxSends]
    BY <1>2 DEF ReadRequest
  <2>2. conn' \in [Client -> {"new", "read", "forward", "closed"}]
    BY <1>2 DEF ReadRequest
  <2>3. answered' \in [Client -> Seq(Answer)]
    <3>1. [from |-> c, num |-> 1, body |-> "capabilities"] \in Answer
      BY DEF Answer
    <3>2. Append(answered[c], [from |-> c, num |-> 1, body |-> "capabilities"])
            \in Seq(Answer)
      BY <3>1, PipeGets
    <3> QED
      BY <1>2, <3>2 DEF ReadRequest
  <2> QED
    BY <1>2, <2>1, <2>2, <2>3 DEF ReadRequest
<1>3. ASSUME NEW c \in Client, Forward(c) PROVE ProxyTypeOK'
  <2>1. [from |-> c, num |-> sent[c]] \in Request
    BY <1>3 DEF Forward, ConnOK, Request
  <2>2. toServer' \in Seq(Request)
    BY <1>3, <2>1, PipeGets DEF Forward
  <2> QED
    BY <1>3, <2>2 DEF Forward
<1>4. CASE ServerReads
  <2>1. toServer' \in Seq(Request) /\ Head(toServer) \in Request
    BY <1>4, PipeLoses DEF ServerReads
  <2>2. working' \subseteq Answer
    <3>1. PICK body \in {"result", "capabilities", "refused"} :
            working' = working \cup {[from |-> Head(toServer).from,
                                     num |-> Head(toServer).num, body |-> body]}
      BY <1>4 DEF ServerReads
    <3>2. [from |-> Head(toServer).from, num |-> Head(toServer).num,
           body |-> body] \in Answer
      BY <2>1 DEF Request, Answer
    <3> HIDE DEF Answer
    <3> QED
      BY <3>1, <3>2
  <2>3. opened' \in BOOLEAN
    BY <1>4 DEF ServerReads
  <2> QED
    BY <1>4, <2>1, <2>2, <2>3 DEF ServerReads
<1>5. ASSUME NEW a \in working, ServerAnswers(a) PROVE ProxyTypeOK'
  <2>1. fromServer' \in Seq(Answer)
    BY <1>5, PipeGets DEF ServerAnswers
  <2> QED
    BY <1>5, <2>1 DEF ServerAnswers
<1>6. CASE ReadAnswer
  <2>1. fromServer' \in Seq(Answer) /\ Head(fromServer) \in Answer
    BY <1>6, PipeLoses DEF ReadAnswer
  <2>2. <<Head(fromServer)>> \in Seq(Answer)
    BY <2>1
  <2>3. initialized' \in BOOLEAN
    BY <1>6 DEF ReadAnswer
  <2> QED
    BY <1>6, <2>1, <2>2, <2>3 DEF ReadAnswer
<1>7. CASE Deliver
  <2>1. inHand[1] \in Answer
    <3>1. inHand \in Seq(Answer) /\ Len(inHand) = 1
      BY <1>7 DEF Deliver
    <3> QED
      BY <3>1, PipeOne
  <2>2. \A c \in Client : Append(answered[c], inHand[1]) \in Seq(Answer)
    BY <2>1, PipeGets
  <2>3. << >> \in Seq(Answer) /\ Len(<< >>) = 0
    OBVIOUS
  <2> QED
    BY <1>7, <2>2, <2>3 DEF Deliver
<1>8. CASE UNCHANGED proxyVars
  BY <1>8 DEF proxyVars
<1> QED
  BY <1>1, <1>2, <1>3, <1>4, <1>5, <1>6, <1>7, <1>8 DEF ProxyNext

\* Every step keeps the connections in order.
LEMMA NextConnOK ==
  ProxyInv /\ [ProxyNext]_proxyVars => ConnOK'
<1> SUFFICES ASSUME ProxyInv, [ProxyNext]_proxyVars PROVE ConnOK'
  OBVIOUS
<1>0. /\ conn \in [Client -> {"new", "read", "forward", "closed"}]
      /\ sent \in [Client -> 0 .. MaxSends] /\ MaxSends \in Nat
      /\ answered \in [Client -> Seq(Answer)] /\ alone \subseteq Client
      /\ ConnOK
  BY ProxyConstants DEF ProxyInv, ProxyTypeOK
<1>1. ASSUME NEW c \in Client, Accept(c) PROVE ConnOK'
  BY <1>0, <1>1 DEF Accept, ConnOK
<1>2. ASSUME NEW c \in Client, ReadRequest(c) PROVE ConnOK'
  BY <1>0, <1>2 DEF ReadRequest, ConnOK
<1>3. ASSUME NEW c \in Client, Forward(c) PROVE ConnOK'
  BY <1>0, <1>3 DEF Forward, ConnOK
<1>4. ASSUME NEW c \in Client, Hangup(c) PROVE ConnOK'
  BY <1>0, <1>4, ProxyConstants DEF Hangup, ConnOK
<1>5. CASE Deliver
  BY <1>0, <1>5 DEF Deliver, ConnOK
<1>6. CASE \/ ServerReads \/ (\E a \in working : ServerAnswers(a))
           \/ ReadAnswer \/ UNCHANGED proxyVars
  BY <1>0, <1>6 DEF ServerReads, ServerAnswers, ReadAnswer, proxyVars, ConnOK
<1> QED
  BY <1>1, <1>2, <1>3, <1>4, <1>5, <1>6 DEF ProxyNext

\* Every step keeps the answer to the first initialize request coming.
LEMMA NextCacheComes ==
  ProxyInv /\ [ProxyNext]_proxyVars => CacheComes'
<1> SUFFICES ASSUME ProxyInv, [ProxyNext]_proxyVars PROVE CacheComes'
  OBVIOUS
<1>0. /\ fromServer \in Seq(Answer) /\ toServer \in Seq(Request) /\ CacheComes
  BY DEF ProxyInv, ProxyTypeOK
<1>1. CASE ServerReads
  <2>1. UNCHANGED <<initialized, fromServer>> /\ working \subseteq working'
    BY <1>1 DEF ServerReads
  <2>2. CASE opened
    BY <1>0, <2>1, <2>2 DEF CacheComes
  <2>3. CASE ~opened /\ opened'
    <3>1. Head(toServer).num = 1
      BY <1>1, <2>3 DEF ServerReads
    <3>2. [from |-> Head(toServer).from, num |-> Head(toServer).num,
           body |-> "capabilities"] \in working'
      BY <1>1, <2>3, <3>1 DEF ServerReads
    <3> QED
      BY <3>2 DEF CacheComes
  <2> QED
    BY <2>2, <2>3 DEF CacheComes
<1>2. ASSUME NEW a \in working, ServerAnswers(a) PROVE CacheComes'
  <2>1. /\ working' = working \ {a} /\ fromServer' = Append(fromServer, a)
        /\ UNCHANGED <<opened, initialized>>
    BY <1>2 DEF ServerAnswers
  <2>2. /\ Len(fromServer') = Len(fromServer) + 1 /\ Len(fromServer) \in Nat
        /\ fromServer'[Len(fromServer) + 1] = a
        /\ \A i \in 1 .. Len(fromServer) : fromServer'[i] = fromServer[i]
    BY <1>0, <2>1
  <2>3. ASSUME NEW i \in 1 .. Len(fromServer) PROVE i \in 1 .. Len(fromServer')
    BY <2>2
  <2>4. Len(fromServer) + 1 \in 1 .. Len(fromServer')
    BY <2>2
  <2> QED
    BY <1>0, <2>1, <2>2, <2>3, <2>4 DEF CacheComes
<1>3. CASE ReadAnswer
  <2>1. /\ fromServer # << >> /\ fromServer' = Tail(fromServer)
        /\ UNCHANGED <<opened, working>>
        /\ initialized' = (initialized \/ Head(fromServer).body = "capabilities")
    BY <1>3 DEF ReadAnswer
  <2>2. ASSUME NEW i \in 1 .. Len(fromServer)
        PROVE  \/ fromServer[i] = Head(fromServer)
               \/ i - 1 \in 1 .. Len(fromServer')
                  /\ fromServer'[i - 1] = fromServer[i]
    BY <1>0, <2>1
  <2> QED
    BY <1>0, <2>1, <2>2 DEF CacheComes
<1>4. CASE \/ \E c \in Client : \/ Accept(c) \/ ReadRequest(c)
                                \/ Forward(c) \/ Hangup(c)
           \/ Deliver \/ UNCHANGED proxyVars
  BY <1>0, <1>4 DEF Accept, ReadRequest, Forward, Hangup, Deliver, proxyVars,
     CacheComes
<1> QED
  BY <1>1, <1>2, <1>3, <1>4 DEF ProxyNext

-----------------------------------------------------------------------------
(* A client that has the proxy to itself. *)

\* It connects when nothing is under way.
LEMMA AcceptServes ==
  ASSUME ProxyInv, NEW d \in Client, Accept(d), NEW c \in alone'
  PROVE  ServedOK(c)'
<1>1. c = d /\ ~UnderWay /\ conn[c] = "new"
  BY DEF Accept
<1>2. /\ toServer' = << >> /\ working' = {} /\ fromServer' = << >>
      /\ inHand' = << >> /\ activeClient' = c /\ sent' = sent
      /\ conn' = [conn EXCEPT ![c] = "read"] /\ answered' = answered
      /\ \A e \in Client : conn[e] # "forward"
  BY <1>1 DEF Accept, UnderWay
<1>3. /\ sent[c] = 0 /\ answered[c] = << >> /\ c \in Client
      /\ conn \in [Client -> {"new", "read", "forward", "closed"}]
  BY <1>1 DEF ProxyInv, ProxyTypeOK, ConnOK
<1>4. \A e \in Client : conn'[e] # "forward"
  BY <1>2, <1>3
<1>5. StagesOK(c)'
  BY <1>2, <1>3, <1>4, PipeShort
  DEF StagesOK, Held, Queued, Worked, Answered, InHand, Given
<1>6. OnceOK(c)' /\ OwnOK(c)'
  BY <1>2, <1>3, <1>4, PipeShort DEF OnceOK, OwnOK
<1> QED
  BY <1>2, <1>3, <1>4, <1>5, <1>6, PipeShort DEF ServedOK, Held, Queued

\* It sends a request; its initialize request finds a server that has
\* accepted none, or the cache.
LEMMA ReadServes ==
  ASSUME ProxyInv, NEW c \in Client, ServedOK(c), ReadRequest(c)
  PROVE  ServedOK(c)'
<1> DEFINE n == sent[c] + 1
<1>0. /\ sent[c] \in Nat /\ conn[c] = "read" /\ sent'[c] = n
      /\ conn \in [Client -> {"new", "read", "forward", "closed"}]
      /\ answered \in [Client -> Seq(Answer)]
      /\ UNCHANGED <<toServer, working, fromServer, inHand, activeClient,
                     opened>>
  BY DEF ProxyInv, ProxyTypeOK, ReadRequest
<1>1. /\ StagesOK(c) /\ OnceOK(c) /\ OwnOK(c) /\ activeClient = c
      /\ Held(c) = {}
      /\ UNCHANGED <<Queued, Worked, Answered, InHand>>
  BY <1>0 DEF ServedOK, Held, Queued, Worked, Answered, InHand
<1>2. CASE n = 1 /\ initialized
  <2> DEFINE a == [from |-> c, num |-> 1, body |-> "capabilities"]
  <2>1. /\ answered' = [answered EXCEPT ![c] = Append(answered[c], a)]
        /\ UNCHANGED conn
    BY <1>0, <1>2 DEF ReadRequest
  <2>2. answered'[c] = Append(answered[c], a)
    BY <1>0, <2>1
  <2>3. 1 \notin Nums(answered[c])
    BY <1>0, <1>1, <1>2 DEF StagesOK, Given
  <2>4. /\ Given(c)' = Given(c) \cup {1} /\ Distinct(answered'[c])
        /\ AllOf(answered'[c], c) /\ NoRefusal(answered'[c])
    <3>1. a \in Answer
      BY ProxyConstants DEF Answer
    <3> QED
      BY <1>0, <1>1, <2>1, <2>2, <2>3, <3>1, PipeGets DEF Given, OnceOK, OwnOK
  <2>5. Held(c)' = {}
    BY <1>0, <2>1 DEF Held
  <2>6. StagesOK(c)'
    BY <1>0, <1>1, <1>2, <2>4, <2>5 DEF StagesOK
  <2>7. OnceOK(c)' /\ OwnOK(c)'
    BY <1>0, <1>1, <2>1, <2>4 DEF OnceOK, OwnOK
  <2>8. ServedOK(c) => (1 \in Held(c)' \cup Queued' => ~opened')
    BY <1>0, <1>1, <2>5 DEF ServedOK
  <2> QED
    BY <1>0, <1>1, <2>6, <2>7, <2>8 DEF ServedOK
<1>3. CASE ~(n = 1 /\ initialized)
  <2>1. conn' = [conn EXCEPT ![c] = "forward"] /\ UNCHANGED answered
    BY <1>0, <1>3 DEF ReadRequest
  <2>2. Held(c)' = {n} /\ Given(c)' = Given(c)
    BY <1>0, <2>1 DEF Held, Given
  <2>3. StagesOK(c)'
    BY <1>0, <1>1, <2>2 DEF StagesOK
  <2>4. OnceOK(c)' /\ OwnOK(c)'
    BY <1>0, <1>1, <2>1 DEF OnceOK, OwnOK
  <2>5. n = 1 => ~opened
    <3> SUFFICES ASSUME n = 1, opened PROVE FALSE
      OBVIOUS
    <3>1. Worked = {} /\ Answered = {}
      BY <1>0, <1>1 DEF StagesOK
    <3>2. working = {} /\ 1 .. Len(fromServer) = {}
      BY <3>1 DEF Worked, Answered, Nums
    <3> QED
      BY <1>3, <3>2 DEF ProxyInv, CacheComes
  <2>6. 1 \in Held(c)' \cup Queued' => ~opened'
    BY <1>0, <1>1, <2>2, <2>5 DEF ServedOK
  <2> QED
    BY <1>0, <1>1, <2>3, <2>4, <2>6 DEF ServedOK
<1> QED
  BY <1>2, <1>3

\* Its request goes to the server's pipe.
LEMMA ForwardServes ==
  ASSUME ProxyInv, NEW c \in Client, ServedOK(c), Forward(c)
  PROVE  ServedOK(c)'
<1> DEFINE r == [from |-> c, num |-> sent[c]]
<1>0. /\ toServer \in Seq(Request) /\ r \in Request
      /\ conn \in [Client -> {"new", "read", "forward", "closed"}]
      /\ conn[c] = "forward" /\ conn' = [conn EXCEPT ![c] = "read"]
      /\ toServer' = Append(toServer, r)
      /\ UNCHANGED <<sent, working, fromServer, inHand, activeClient, answered,
                     opened>>
  BY DEF ProxyInv, ProxyTypeOK, ConnOK, Forward, Request
<1>1. /\ StagesOK(c) /\ OnceOK(c) /\ OwnOK(c) /\ activeClient = c
      /\ Held(c) = {sent[c]}
      /\ UNCHANGED <<Worked, Answered, InHand, Given(c)>>
  BY <1>0 DEF ServedOK, Held, Worked, Answered, InHand, Given
<1>2. Held(c)' = {}
  BY <1>0 DEF Held
<1>3. sent[c] \notin Nums(toServer)
  BY <1>1 DEF StagesOK, Queued
<1>4. /\ Queued' = Queued \cup {sent[c]} /\ Distinct(toServer')
      /\ AllOf(toServer', c)
  BY <1>0, <1>1, <1>3, PipeGets DEF Queued, OnceOK, OwnOK
<1>5. StagesOK(c)'
  BY <1>0, <1>1, <1>2, <1>4 DEF StagesOK
<1>6. OnceOK(c)' /\ OwnOK(c)'
  BY <1>0, <1>1, <1>4 DEF OnceOK, OwnOK
<1>7. 1 \in Held(c)' \cup Queued' => ~opened'
  BY <1>0, <1>1, <1>2, <1>4 DEF ServedOK
<1> QED
  BY <1>0, <1>1, <1>5, <1>6, <1>7 DEF ServedOK

\* Another client leaves.
LEMMA HangupServes ==
  ASSUME ProxyInv, NEW c \in Client, ServedOK(c),
         NEW d \in Client, Hangup(d), d # c
  PROVE  ServedOK(c)'
<1>1. /\ activeClient' = c
      /\ conn \in [Client -> {"new", "read", "forward", "closed"}]
      /\ conn' = [conn EXCEPT ![d] = "closed"]
      /\ UNCHANGED <<sent, toServer, working, fromServer, inHand, answered,
                     opened>>
  BY DEF ProxyInv, ProxyTypeOK, Hangup, ServedOK
<1>2. UNCHANGED <<Held(c), Queued, Worked, Answered, InHand, Given(c)>>
  BY <1>1 DEF Held, Queued, Worked, Answered, InHand, Given
<1>3. StagesOK(c)'
  BY <1>1, <1>2 DEF ServedOK, StagesOK
<1>4. OnceOK(c)' /\ OwnOK(c)'
  BY <1>1 DEF ServedOK, OnceOK, OwnOK
<1> QED
  BY <1>1, <1>2, <1>3, <1>4 DEF ServedOK

\* The server takes its request.
LEMMA ServerReadsServes ==
  ASSUME ProxyInv, NEW c \in Client, ServedOK(c), ServerReads
  PROVE  ServedOK(c)'
<1> DEFINE r == Head(toServer)
<1>0. /\ toServer \in Seq(Request) /\ toServer # << >>
      /\ toServer' = Tail(toServer)
      /\ opened' = (opened \/ r.num = 1)
      /\ UNCHANGED <<conn, sent, fromServer, inHand, activeClient, answered>>
  BY DEF ProxyInv, ProxyTypeOK, ServerReads
<1>1. /\ StagesOK(c) /\ OnceOK(c) /\ OwnOK(c) /\ activeClient = c
      /\ UNCHANGED <<Held(c), Answered, InHand, Given(c)>>
      /\ 1 \in Held(c) \cup Queued => ~opened
  BY <1>0 DEF ServedOK, Held, Answered, InHand, Given
<1>2. /\ Queued = Queued' \cup {r.num} /\ r.num \notin Queued'
      /\ Distinct(toServer') /\ AllOf(toServer', c) /\ r.from = c
      /\ r \in Request
  BY <1>0, <1>1, PipeLoses DEF Queued, OnceOK, OwnOK
<1>3. PICK body : /\ working' = working \cup
                       {[from |-> r.from, num |-> r.num, body |-> body]}
                  /\ body # "refused"
  <2>1. r.num = 1 => ~opened
    BY <1>1, <1>2
  <2>2. r.num \in Nat /\ r.num >= 1
    BY <1>2, ProxyConstants DEF Request
  <2>3. CASE r.num > 1
    <3>1. working' = working \cup
            {[from |-> r.from, num |-> r.num, body |-> "result"]}
      BY <2>3 DEF ServerReads
    <3> QED
      BY <3>1
  <2>4. CASE r.num = 1
    <3>1. working' = working \cup
            {[from |-> r.from, num |-> r.num, body |-> "capabilities"]}
      BY <2>1, <2>4 DEF ServerReads
    <3> QED
      BY <3>1
  <2> QED
    BY <2>2, <2>3, <2>4
<1>4. Worked' = Worked \cup {r.num}
  <2> DEFINE e == [from |-> r.from, num |-> r.num, body |-> body]
  <2>1. working' = working \cup {e} /\ e.num = r.num
    BY <1>3
  <2> HIDE DEF e
  <2> QED
    BY <2>1 DEF Worked
<1>5. r.num \notin Worked
  BY <1>1, <1>2 DEF StagesOK
<1>6. StagesOK(c)'
  BY <1>0, <1>1, <1>2, <1>4 DEF StagesOK
<1>7. OnceOK(c)'
  BY <1>0, <1>1, <1>2, <1>3, <1>5 DEF OnceOK, Worked
<1>8. OwnOK(c)'
  BY <1>0, <1>1, <1>2, <1>3 DEF OwnOK
<1>9. 1 \in Held(c)' \cup Queued' => ~opened'
  BY <1>0, <1>1, <1>2 DEF StagesOK
<1> QED
  BY <1>0, <1>1, <1>6, <1>7, <1>8, <1>9 DEF ServedOK

\* The server answers it.
LEMMA ServerAnswersServes ==
  ASSUME ProxyInv, NEW c \in Client, ServedOK(c),
         NEW a \in working, ServerAnswers(a)
  PROVE  ServedOK(c)'
<1>0. /\ fromServer \in Seq(Answer) /\ a \in Answer
      /\ working' = working \ {a} /\ fromServer' = Append(fromServer, a)
      /\ UNCHANGED <<conn, sent, toServer, inHand, activeClient, answered,
                     opened>>
  BY DEF ProxyInv, ProxyTypeOK, ServerAnswers
<1>1. /\ StagesOK(c) /\ OnceOK(c) /\ OwnOK(c) /\ activeClient = c
      /\ UNCHANGED <<Held(c), Queued, InHand, Given(c)>>
  BY <1>0 DEF ServedOK, Held, Queued, InHand, Given
<1>2. /\ Worked = Worked' \cup {a.num} /\ a.num \notin Worked'
      /\ a.from = c /\ a.body # "refused"
  BY <1>0, <1>1 DEF Worked, OnceOK, OwnOK
<1>3. a.num \notin Nums(fromServer)
  BY <1>1, <1>2 DEF StagesOK, Answered
<1>4. /\ Answered' = Answered \cup {a.num} /\ Distinct(fromServer')
      /\ AllOf(fromServer', c) /\ NoRefusal(fromServer')
  BY <1>0, <1>1, <1>2, <1>3, PipeGets DEF Answered, OnceOK, OwnOK
<1>5. StagesOK(c)'
  BY <1>0, <1>1, <1>2, <1>4 DEF StagesOK
<1>6. OnceOK(c)' /\ OwnOK(c)'
  BY <1>0, <1>1, <1>4 DEF OnceOK, OwnOK
<1> QED
  BY <1>0, <1>1, <1>5, <1>6 DEF ServedOK

\* readResponses takes the answer.
LEMMA ReadAnswerServes ==
  ASSUME ProxyInv, NEW c \in Client, ServedOK(c), ReadAnswer
  PROVE  ServedOK(c)'
<1> DEFINE a == Head(fromServer)
<1>0. /\ fromServer \in Seq(Answer) /\ fromServer # << >>
      /\ fromServer' = Tail(fromServer) /\ inHand' = <<a>>
      /\ UNCHANGED <<conn, sent, toServer, working, activeClient, answered,
                     opened>>
  BY DEF ProxyInv, ProxyTypeOK, ReadAnswer
<1>1. /\ StagesOK(c) /\ OnceOK(c) /\ OwnOK(c) /\ activeClient = c
      /\ UNCHANGED <<Held(c), Queued, Worked, Given(c)>>
  BY <1>0 DEF ServedOK, Held, Queued, Worked, Given
<1>2. InHand = {}
  BY DEF ReadAnswer, ProxyInv, ProxyTypeOK, InHand, Nums
<1>3. /\ Answered = Answered' \cup {a.num} /\ a.num \notin Answered'
      /\ Distinct(fromServer') /\ AllOf(fromServer', c) /\ a.from = c
      /\ NoRefusal(fromServer') /\ a.body # "refused"
  BY <1>0, <1>1, PipeLoses DEF Answered, OnceOK, OwnOK
<1>4. /\ InHand' = {a.num} /\ Distinct(inHand') /\ AllOf(inHand', c)
      /\ NoRefusal(inHand')
  BY <1>0, <1>3, PipeShort DEF InHand
<1>5. StagesOK(c)'
  BY <1>0, <1>1, <1>2, <1>3, <1>4 DEF StagesOK
<1>6. OnceOK(c)' /\ OwnOK(c)'
  BY <1>0, <1>1, <1>3, <1>4 DEF OnceOK, OwnOK
<1> QED
  BY <1>0, <1>1, <1>5, <1>6 DEF ServedOK

\* It writes the answer to the client, which is the active one.
LEMMA DeliverServes ==
  ASSUME ProxyInv, NEW c \in Client, ServedOK(c), Deliver
  PROVE  ServedOK(c)'
<1> DEFINE a == inHand[1]
<1>0. /\ inHand \in Seq(Answer) /\ Len(inHand) = 1 /\ inHand' = << >>
      /\ answered \in [Client -> Seq(Answer)]
      /\ UNCHANGED <<conn, sent, toServer, working, fromServer, activeClient,
                     opened>>
  BY DEF ProxyInv, ProxyTypeOK, Deliver
<1>1. /\ StagesOK(c) /\ OnceOK(c) /\ OwnOK(c) /\ activeClient = c
      /\ UNCHANGED <<Held(c), Queued, Worked, Answered>>
  BY <1>0 DEF ServedOK, Held, Queued, Worked, Answered
<1>2. a \in Answer /\ InHand = {a.num} /\ a.from = c /\ a.body # "refused"
  BY <1>0, <1>1, PipeOne DEF InHand, Nums, OwnOK, AllOf, NoRefusal
<1>3. answered'[c] = Append(answered[c], a)
  BY <1>1 DEF Deliver
<1>4. a.num \notin Nums(answered[c])
  BY <1>1, <1>2 DEF StagesOK, Given
<1>5. /\ Given(c)' = Given(c) \cup {a.num} /\ Distinct(answered'[c])
      /\ AllOf(answered'[c], c) /\ NoRefusal(answered'[c])
  BY <1>0, <1>1, <1>2, <1>3, <1>4, PipeGets DEF Given, OnceOK, OwnOK
<1>6. /\ InHand' = {} /\ Distinct(inHand') /\ AllOf(inHand', c)
      /\ NoRefusal(inHand')
  BY <1>0, PipeShort DEF InHand
<1>7. StagesOK(c)'
  BY <1>0, <1>1, <1>2, <1>5, <1>6 DEF StagesOK
<1>8. OnceOK(c)' /\ OwnOK(c)'
  BY <1>0, <1>1, <1>5, <1>6 DEF OnceOK, OwnOK
<1> QED
  BY <1>0, <1>1, <1>7, <1>8 DEF ServedOK

\* Every step serves a client that has the proxy to itself.
LEMMA NextServed ==
  ASSUME ProxyInv, [ProxyNext]_proxyVars, NEW c \in alone', conn'[c] # "closed"
  PROVE  ServedOK(c)'
<1>1. ASSUME NEW d \in Client, Accept(d) PROVE ServedOK(c)'
  BY <1>1, AcceptServes
<1>2. CASE ~\E d \in Client : Accept(d)
  <2>1. /\ c \in alone /\ c \in Client
        /\ \A d \in Client : ReadRequest(d) => d = c
    BY <1>2 DEF ProxyNext, ReadRequest, Forward, Hangup, ServerReads,
       ServerAnswers, ReadAnswer, Deliver, proxyVars, ProxyInv, ProxyTypeOK
  <2>2. conn[c] # "closed"
    <3>1. conn \in [Client -> {"new", "read", "forward", "closed"}]
      BY DEF ProxyInv, ProxyTypeOK
    <3> QED
      BY <1>2, <2>1, <3>1 DEF ProxyNext, ReadRequest, Forward, Hangup,
         ServerReads, ServerAnswers, ReadAnswer, Deliver, proxyVars
  <2>3. ServedOK(c)
    BY <2>1, <2>2 DEF ProxyInv
  <2>4. ASSUME NEW d \in Client, ReadRequest(d) PROVE ServedOK(c)'
    BY <2>1, <2>3, <2>4, ReadServes
  <2>5. ASSUME NEW d \in Client, Forward(d) PROVE ServedOK(c)'
    BY <2>1, <2>3, <2>5, ForwardServes DEF Forward, ServedOK, OwnOK
  <2>6. ASSUME NEW d \in Client, Hangup(d) PROVE ServedOK(c)'
    <3>1. d # c
      BY <2>1, <2>6 DEF Hangup, ProxyInv, ProxyTypeOK
    <3> QED
      BY <2>1, <2>3, <2>6, <3>1, HangupServes
  <2>7. CASE UNCHANGED proxyVars
    BY <2>3, <2>7 DEF proxyVars, ServedOK, StagesOK, OnceOK, OwnOK, Held,
       Queued, Worked, Answered, InHand, Given
  <2> QED
    BY <1>2, <2>1, <2>3, <2>4, <2>5, <2>6, <2>7, ServerReadsServes,
       ServerAnswersServes, ReadAnswerServes, DeliverServes DEF ProxyNext
<1> QED
  BY <1>1, <1>2

-----------------------------------------------------------------------------

\* The proxy as it starts satisfies the inductive invariant.
LEMMA InitProxyInv == ProxyInit => ProxyInv
<1> SUFFICES ASSUME ProxyInit PROVE ProxyInv
  OBVIOUS
<1>1. ProxyTypeOK
  <2>1. \A S : << >> \in Seq(S) /\ Len(<< >>) = 0
    OBVIOUS
  <2>2. /\ toServer \in Seq(Request) /\ fromServer \in Seq(Answer)
        /\ inHand \in Seq(Answer) /\ Len(inHand) = 0
        /\ answered \in [Client -> Seq(Answer)]
    BY <2>1 DEF ProxyInit
  <2>3. initialized \in BOOLEAN /\ opened \in BOOLEAN
    BY DEF ProxyInit
  <2>4. sent \in [Client -> 0 .. MaxSends]
    BY ProxyConstants DEF ProxyInit
  <2> QED
    BY <2>2, <2>3, <2>4 DEF ProxyInit, ProxyTypeOK
<1>2. ConnOK /\ CacheComes /\ alone = {}
  BY ProxyConstants DEF ProxyInit, ConnOK, CacheComes
<1> QED
  BY <1>1, <1>2 DEF ProxyInv

\* Every step keeps it.
LEMMA NextProxyInv == ProxyInv /\ [ProxyNext]_proxyVars => ProxyInv'
  BY NextProxyTypeOK, NextConnOK, NextCacheComes, NextServed DEF ProxyInv

\* Types of the proxy's state and of the messages on its pipes.
THEOREM ProxyTypeCorrect == ProxySpec => []ProxyTypeOK
<1>1. ProxyInv => ProxyTypeOK
  BY DEF ProxyInv
<1> QED
  BY InitProxyInv, NextProxyInv, <1>1, PTL DEF ProxySpec

\* activeClient and the cached initialize answer: a client that found nothing
\* under way when it connected, and was neither followed nor disturbed by
\* another one, gets the answer to each of its requests, once, and no other
\* message, and its initialize request is not refused.
THEOREM ServesAlone == ProxySpec => []ProxyServesAlone
<1>1. ProxyInv => ProxyServesAlone
  <2> SUFFICES ASSUME ProxyInv, NEW c \in alone, conn[c] # "closed"
               PROVE  /\ \A i \in 1 .. Len(answered[c]) :
                           /\ answered[c][i].from = c
                           /\ answered[c][i].body # "refused"
                           /\ \A j \in 1 .. i - 1 :
                                answered[c][j].num # answered[c][i].num
                      /\ \A n \in 1 .. sent[c] :
                           \/ Pending(c, n)
                           \/ \E i \in 1 .. Len(answered[c]) :
                                answered[c][i].num = n
    BY DEF ProxyServesAlone
  <2>0. /\ StagesOK(c) /\ OnceOK(c) /\ OwnOK(c) /\ c \in Client
        /\ answered[c] \in Seq(Answer) /\ toServer \in Seq(Request)
        /\ inHand \in Seq(Answer)
        /\ Len(inHand) = (IF responder = "forward" THEN 1 ELSE 0)
    BY DEF ProxyInv, ProxyTypeOK, ServedOK
  <2>1. ASSUME NEW i \in 1 .. Len(answered[c])
        PROVE  /\ answered[c][i].from = c /\ answered[c][i].body # "refused"
               /\ \A j \in 1 .. i - 1 : answered[c][j].num # answered[c][i].num
    BY <2>0, <2>1 DEF OnceOK, OwnOK, Distinct, AllOf, NoRefusal
  <2>2. ASSUME NEW n \in 1 .. sent[c], n \notin Given(c) PROVE Pending(c, n)
    <3>1. CASE n \in Held(c)
      BY <3>1 DEF Held, Pending
    <3>2. CASE n \in Queued
      <4>1. PICK i \in 1 .. Len(toServer) : toServer[i].num = n
        BY <3>2 DEF Queued, Nums
      <4>2. toServer[i] = [from |-> c, num |-> n]
        <5>1. toServer[i] \in Request /\ toServer[i].from = c
          BY <2>0 DEF OwnOK, AllOf
        <5> QED
          BY <4>1, <5>1 DEF Request
      <4> QED
        BY <4>2 DEF Pending
    <3>3. CASE n \in Worked
      BY <2>0, <3>3 DEF Worked, OwnOK, Pending
    <3>4. CASE n \in Answered
      BY <2>0, <3>4 DEF Answered, Nums, OwnOK, AllOf, Pending
    <3>5. CASE n \in InHand
      BY <2>0, <3>5 DEF InHand, Nums, OwnOK, AllOf, Pending
    <3> QED
      BY <2>0, <2>2, <3>1, <3>2, <3>3, <3>4, <3>5 DEF StagesOK
  <2> QED
    BY <2>1, <2>2 DEF Given, Nums
<1> QED
  BY InitProxyInv, NextProxyInv, <1>1, PTL DEF ProxySpec

-----------------------------------------------------------------------------
(* IndexingStatus. *)

\* What the server sends: a count does not exceed its total, and a token that
\* is to be created has been asked for.
Sent == {e \in Message : e.n <= e.m /\ (e.kind = "create" => e.token \in asked)}

\* Messages about the tokens of T: they open an operation for the reader,
\* begin one, end one.
Opens(T)  == {e \in Message : e.kind \in {"begin", "report"} /\ e.token \in T}
Begins(T) == {e \in Message : e.kind = "begin" /\ e.token \in T}
Ends(T)   == {e \in Message : e.kind = "end" /\ e.token \in T}

\* On a queue q of messages: there is one of Q; after every one of P there is
\* one of Q.
HasOne(q, Q) == \E k \in 1 .. Len(q) : q[k] \in Q

Followed(q, P, Q) ==
  \A i \in 1 .. Len(q) : q[i] \in P => \E k \in i + 1 .. Len(q) : q[k] \in Q

\* What the tracker does not know yet of token t is in the stream: the end of
\* an operation that does not run, the beginning of one that does.
ClientSees(t) ==
  /\ t \notin running =>
       /\ Followed(stream, Opens({t}), Ends({t}))
       /\ t \in tracked => HasOne(stream, Ends({t}))
  /\ t \in running =>
       /\ Followed(stream, Ends({t}), Begins({t}))
       /\ t \notin tracked => HasOne(stream, Begins({t}))

\* The same of the manager and of all tokens together; the second half as long
\* as no two operations ran at the same time.
ManagerSees ==
  /\ running = {} =>
       /\ Followed(stream, Opens(Token), Ends(Token))
       /\ cycle.active \/ cycle.current < cycle.total => HasOne(stream, Ends(Token))
  /\ ~overlap =>
       /\ \A t, u \in running : t = u
       /\ running # {} =>
            /\ Followed(stream, Ends(Token), Begins(Token))
            /\ ~cycle.active => HasOne(stream, Begins(Token))

ProgressInv ==
  /\ ProgressTypeOK /\ stream \in Seq(Sent)
  /\ ~late /\ reader = "client" => \A t \in Token : ClientSees(t)
  /\ ~late /\ reader = "manager" => ManagerSees

\* One more message, and the first message taken.
LEMMA MessageAdded ==
  ASSUME NEW S, NEW q \in Seq(S), NEW e \in S, NEW P, NEW Q
  PROVE  LET p == Append(q, e)
         IN  /\ HasOne(p, Q) <=> HasOne(q, Q) \/ e \in Q
             /\ Followed(q, P, Q) /\ e \notin P => Followed(p, P, Q)
             /\ e \in Q /\ e \notin P => Followed(p, P, Q)
<1> DEFINE p == Append(q, e)
           n == Len(q)
<1>1. /\ n \in Nat /\ Len(p) = n + 1 /\ p[n + 1] = e
      /\ \A i \in 1 .. n : p[i] = q[i]
  OBVIOUS
<1> HIDE DEF p, n
<1>2. /\ n + 1 \in 1 .. Len(p) /\ \A i \in 1 .. n : i \in 1 .. Len(p)
      /\ \A i \in 1 .. Len(p) : i \in 1 .. n \/ i = n + 1
      /\ \A i \in 1 .. n : n + 1 \in i + 1 .. Len(p)
      /\ \A i \in 1 .. n : \A k \in i + 1 .. n :
           k \in i + 1 .. Len(p) /\ k \in 1 .. n
  BY <1>1
<1>3. HasOne(p, Q) <=> HasOne(q, Q) \/ e \in Q
  BY <1>1, <1>2 DEF HasOne, n
<1>4. Followed(q, P, Q) /\ e \notin P => Followed(p, P, Q)
  BY <1>1, <1>2 DEF Followed, n
<1>5. e \in Q /\ e \notin P => Followed(p, P, Q)
  BY <1>1, <1>2 DEF Followed, n
<1> QED
  BY <1>3, <1>4, <1>5 DEF p

\* The first message of the stream is taken.
LEMMA MessageTaken ==
  ASSUME NEW S, NEW q \in Seq(S), q # << >>, NEW P, NEW Q
  PROVE  LET p == Tail(q)
             e == Head(q)
         IN  /\ e \in S /\ p \in Seq(S) /\ Len(p) <= Len(q)
             /\ HasOne(q, Q) <=> HasOne(p, Q) \/ e \in Q
             /\ Followed(q, P, Q) => /\ Followed(p, P, Q)
                                     /\ e \in P => HasOne(p, Q)
<1> DEFINE p == Tail(q)
           e == Head(q)
           n == Len(p)
<1>1. /\ e \in S /\ p \in Seq(S) /\ n \in Nat /\ Len(q) = n + 1 /\ q[1] = e
      /\ \A i \in 1 .. n : q[i + 1] = p[i]
  OBVIOUS
<1> HIDE DEF p, e, n
<1>2. /\ 1 \in 1 .. Len(q) /\ \A i \in 1 .. n : i + 1 \in 1 .. Len(q)
      /\ \A i \in 1 .. Len(q) : i = 1 \/ (i - 1 \in 1 .. n /\ q[i] = p[i - 1])
  BY <1>1
<1>3. HasOne(q, Q) <=> HasOne(p, Q) \/ e \in Q
  BY <1>1, <1>2 DEF HasOne, n
<1>4. ASSUME Followed(q, P, Q)
      PROVE  Followed(p, P, Q) /\ (e \in P => HasOne(p, Q))
  <2>1. ASSUME NEW i \in 1 .. Len(q), q[i] \in P
        PROVE  \E k \in i .. n : p[k] \in Q
    <3>1. PICK k \in i + 1 .. Len(q) : q[k] \in Q
      BY <1>4, <2>1 DEF Followed
    <3>2. k - 1 \in i .. n /\ p[k - 1] = q[k]
      BY <1>1, <1>2, <3>1
    <3> QED
      BY <3>1, <3>2
  <2>2. ASSUME NEW i \in 1 .. n, p[i] \in P
        PROVE  \E k \in i + 1 .. n : p[k] \in Q
    <3>1. i + 1 \in 1 .. Len(q) /\ q[i + 1] \in P
      BY <1>1, <1>2, <2>2
    <3> QED
      BY <2>1, <3>1
  <2>3. e \in P => \E k \in 1 .. n : p[k] \in Q
    BY <1>1, <1>2, <2>1
  <2> QED
    BY <2>2, <2>3 DEF Followed, HasOne, n
<1>5. n <= Len(q)
  BY <1>1
<1> QED
  BY <1>1, <1>3, <1>4, <1>5 DEF p, e, n

\* The kinds of messages exclude each other.
LEMMA KindsDiffer ==
  ASSUME NEW T
  PROVE  /\ \A e \in Opens(T) : e \notin Ends(T)
         /\ \A e \in Ends(T) : e \notin Begins(T) /\ e \notin Opens(T)
         /\ \A e \in Begins(T) : e \in Opens(T) /\ e \notin Ends(T)
BY DEF Opens, Ends, Begins

\* Messages of one kind about one token.
LEMMA SentKinds ==
  ASSUME NEW t \in Token, NEW kind \in {"create", "begin", "report", "end", "other"},
         NEW n \in 0 .. FileCount, NEW m \in {0, FileCount}, n <= m
  PROVE  LET e == [kind |-> kind, token |-> t, n |-> n, m |-> m]
         IN  /\ e \in Message
             /\ (kind = "create" => t \in asked) => e \in Sent
             /\ \A T : /\ e \in Begins(T) <=> kind = "begin" /\ t \in T
                       /\ e \in Ends(T) <=> kind = "end" /\ t \in T
                       /\ e \in Opens(T) <=> kind \in {"begin", "report"} /\ t \in T
<1> DEFINE e == [kind |-> kind, token |-> t, n |-> n, m |-> m]
<1>1. e \in Message
  BY DEF Message
<1>2. e.kind = kind /\ e.token = t /\ e.n = n /\ e.m = m
  OBVIOUS
<1> HIDE DEF e
<1>3. /\ (kind = "create" => t \in asked) => e \in Sent
      /\ \A T : /\ e \in Begins(T) <=> kind = "begin" /\ t \in T
                /\ e \in Ends(T) <=> kind = "end" /\ t \in T
                /\ e \in Opens(T) <=> kind \in {"begin", "report"} /\ t \in T
  BY <1>1, <1>2 DEF Sent, Begins, Ends, Opens
<1> QED
  BY <1>1, <1>3 DEF e

\* The reader's part of the invariant.
ReaderSees ==
  /\ ~late /\ reader = "client" => \A t \in Token : ClientSees(t)
  /\ ~late /\ reader = "manager" => ManagerSees

\* Types of the server's and the readers' state are kept by every step.
LEMMA NextProgressType ==
  ProgressTypeOK /\ stream \in Seq(Sent) /\ [ProgressNext]_progressVars
    => ProgressTypeOK' /\ stream' \in Seq(Sent)'
<1> SUFFICES ASSUME ProgressTypeOK, stream \in Seq(Sent),
                    [ProgressNext]_progressVars
             PROVE  ProgressTypeOK' /\ stream' \in Seq(Sent)'
  OBVIOUS
<1> USE ProgressConstants
<1>1. /\ reader \in {"manager", "client"} /\ polite \in BOOLEAN
      /\ created \subseteq asked /\ asked \subseteq Token /\ running \subseteq Token
      /\ (polite => running \subseteq created)
      /\ starts \in 0 .. MaxStarts
      /\ stream \in Seq(Message) /\ Len(stream) <= MaxInStream
      /\ tracked \subseteq Token /\ late \in BOOLEAN /\ overlap \in BOOLEAN
  BY DEF ProgressTypeOK
<1>2. /\ cycle \in [active : BOOLEAN, started : BOOLEAN,
                    current : 0 .. FileCount, total : {0, FileCount}]
      /\ cycle.current <= cycle.total
  BY DEF ProgressTypeOK
<1>3. ASSUME NEW e \in Message, stream' = Append(stream, e),
             Len(stream) < MaxInStream
      PROVE  stream' \in Seq(Message) /\ Len(stream') <= MaxInStream
  BY <1>1, <1>3
<1>4. ASSUME NEW e \in Sent', stream' = Append(stream, e), asked \subseteq asked'
      PROVE  stream' \in Seq(Sent)'
  <2>1. Sent \subseteq Sent'
    BY <1>4 DEF Sent
  <2>2. stream \in Seq(Sent')
    BY <2>1
  <2> QED
    BY <1>4, <2>2
<1>5. ASSUME NEW t \in Token, AskForToken(t)
      PROVE  ProgressTypeOK' /\ stream' \in Seq(Sent)'
  <2> DEFINE e == [kind |-> "create", token |-> t, n |-> 0, m |-> 0]
  <2>1. e \in Message /\ e \in Sent'
    <3>1. e \in Message
      BY DEF Message
    <3>2. t \in asked' /\ e.kind = "create" /\ e.token = t /\ e.n <= e.m
      BY <1>5 DEF AskForToken
    <3> QED
      BY <3>1, <3>2 DEF Sent
  <2>2. stream' = Append(stream, e) /\ Len(stream) < MaxInStream
    BY <1>5 DEF AskForToken, Sends
  <2> HIDE DEF e
  <2>3. stream' \in Seq(Message) /\ Len(stream') <= MaxInStream
        /\ stream' \in Seq(Sent)'
    BY <1>3, <1>4, <1>5, <2>1, <2>2 DEF AskForToken
  <2>4. created' \subseteq asked' /\ asked' \subseteq Token
        /\ (polite' => running' \subseteq created')
    BY <1>1, <1>5 DEF AskForToken
  <2> QED
    BY <1>1, <1>2, <1>5, <2>3, <2>4 DEF AskForToken, ProgressTypeOK
<1>6. ASSUME NEW t \in Token, NEW kind \in {"begin", "report", "end", "other"},
             NEW n \in 0 .. FileCount, NEW m \in {0, FileCount}, n <= m,
             Sends(kind, t, n, m), asked' = asked
      PROVE  stream' \in Seq(Message) /\ Len(stream') <= MaxInStream
             /\ stream' \in Seq(Sent)'
  <2> DEFINE e == [kind |-> kind, token |-> t, n |-> n, m |-> m]
  <2>1. e \in Message /\ e \in Sent
    <3>1. /\ e.kind = kind /\ e.n = n /\ e.m = m /\ e.kind # "create"
          /\ e \in Message
      BY DEF Message
    <3> HIDE DEF e
    <3> QED
      BY <1>6, <3>1 DEF Sent
  <2>2. Sent' = Sent
    BY <1>6 DEF Sent
  <2>3. stream' = Append(stream, e) /\ Len(stream) < MaxInStream
    BY <1>6 DEF Sends
  <2> HIDE DEF e
  <2> QED
    BY <1>3, <1>4, <1>6, <2>1, <2>2, <2>3
<1>7. ASSUME NEW t \in Token, Begin(t)
      PROVE  ProgressTypeOK' /\ stream' \in Seq(Sent)'
  <2>1. Sends("begin", t, 0, 0) /\ asked' = asked
    BY <1>7 DEF Begin
  <2>2. stream' \in Seq(Message) /\ Len(stream') <= MaxInStream
        /\ stream' \in Seq(Sent)'
    BY <1>6, <2>1
  <2>3. running' \subseteq Token /\ starts' \in 0 .. MaxStarts
        /\ (polite' => running' \subseteq created') /\ overlap' \in BOOLEAN
    BY <1>1, <1>7 DEF Begin
  <2> QED
    BY <1>1, <1>2, <1>7, <2>2, <2>3 DEF Begin, ProgressTypeOK
<1>8. ASSUME NEW t \in Token, NEW n \in 0 .. FileCount, NEW m \in {0, FileCount},
             Report(t, n, m)
      PROVE  ProgressTypeOK' /\ stream' \in Seq(Sent)'
  <2>1. Sends("report", t, n, m) /\ asked' = asked /\ n <= m
    BY <1>8 DEF Report
  <2>2. stream' \in Seq(Message) /\ Len(stream') <= MaxInStream
        /\ stream' \in Seq(Sent)'
    BY <1>6, <2>1
  <2> QED
    BY <1>1, <1>2, <1>8, <2>2 DEF Report, ProgressTypeOK
<1>9. ASSUME NEW t \in Token, End(t)
      PROVE  ProgressTypeOK' /\ stream' \in Seq(Sent)'
  <2>1. Sends("end", t, 0, 0) /\ asked' = asked
    BY <1>9 DEF End
  <2>2. stream' \in Seq(Message) /\ Len(stream') <= MaxInStream
        /\ stream' \in Seq(Sent)'
    BY <1>6, <2>1
  <2>3. running' \subseteq Token /\ (polite' => running' \subseteq created')
    BY <1>1, <1>9 DEF End
  <2> QED
    BY <1>1, <1>2, <1>9, <2>2, <2>3 DEF End, ProgressTypeOK
<1>10. ASSUME NEW t \in Token, ReportLate(t)
       PROVE  ProgressTypeOK' /\ stream' \in Seq(Sent)'
  <2>1. Sends("report", t, 1, FileCount) /\ asked' = asked
    BY <1>10 DEF ReportLate
  <2>2. stream' \in Seq(Message) /\ Len(stream') <= MaxInStream
        /\ stream' \in Seq(Sent)'
    BY <1>6, <2>1
  <2>3. late' \in BOOLEAN
    BY <1>10 DEF ReportLate
  <2> QED
    BY <1>1, <1>2, <1>10, <2>2, <2>3 DEF ReportLate, ProgressTypeOK
<1>11. ASSUME NEW t \in Token, SendOther(t)
       PROVE  ProgressTypeOK' /\ stream' \in Seq(Sent)'
  <2>1. Sends("other", t, 0, 0) /\ asked' = asked
    BY <1>11 DEF SendOther
  <2>2. stream' \in Seq(Message) /\ Len(stream') <= MaxInStream
        /\ stream' \in Seq(Sent)'
    BY <1>6, <2>1
  <2> QED
    BY <1>1, <1>2, <1>11, <2>2 DEF SendOther, ProgressTypeOK
<1>12. ASSUME stream # << >>, stream' = Tail(stream), asked' = asked
       PROVE  /\ stream' \in Seq(Message) /\ Len(stream') <= MaxInStream
              /\ stream' \in Seq(Sent)' /\ Head(stream) \in Sent
  <2>1. Tail(stream) \in Seq(Sent) /\ Head(stream) \in Sent
        /\ Tail(stream) \in Seq(Message) /\ Len(Tail(stream)) <= Len(stream)
    BY <1>1, <1>12, MessageTaken
  <2>2. Sent' = Sent
    BY <1>12 DEF Sent
  <2>3. Len(stream') \in Nat /\ Len(stream) \in Nat
    BY <1>1, <1>12, <2>1
  <2> QED
    BY <1>1, <1>12, <2>1, <2>2, <2>3
<1>13. CASE ManagerReads
  <2> DEFINE e == Head(stream)
  <2>1. /\ stream' \in Seq(Message) /\ Len(stream') <= MaxInStream
        /\ stream' \in Seq(Sent)' /\ e \in Sent
    BY <1>12, <1>13 DEF ManagerReads
  <2>2. e.n \in 0 .. FileCount /\ e.m \in {0, FileCount} /\ e.n <= e.m
    BY <2>1 DEF Sent, Message
  <2>3. /\ cycle' \in [active : BOOLEAN, started : BOOLEAN,
                       current : 0 .. FileCount, total : {0, FileCount}]
        /\ cycle'.current <= cycle'.total
    <3>1. \/ \E quiet \in BOOLEAN : cycle' = AtBegin(quiet)
          \/ cycle' = AtReport(e) \/ cycle' = AtEnd \/ cycle' = cycle
      BY <1>13 DEF ManagerReads
    <3> HIDE DEF e
    <3>2. /\ \A quiet \in BOOLEAN :
               AtBegin(quiet) \in {cycle, [cycle EXCEPT !.active = TRUE],
                 [active |-> TRUE, started |-> TRUE, current |-> 0, total |-> 0]}
          /\ AtReport(e) \in {cycle, [cycle EXCEPT !.current = e.n, !.total = e.m]}
      BY DEF AtBegin, AtReport
    <3>3. cycle.current \in 0 .. FileCount /\ cycle.total \in 0 .. FileCount
      BY <1>2
    <3>4. CASE cycle' = cycle
      BY <1>2, <3>4
    <3>5. CASE cycle' = [cycle EXCEPT !.active = TRUE]
      BY <1>2, <3>5
    <3>6. CASE cycle' = [active |-> TRUE, started |-> TRUE, current |-> 0,
                         total |-> 0]
      BY <3>6
    <3>7. CASE cycle' = [cycle EXCEPT !.current = e.n, !.total = e.m]
      BY <1>2, <2>2, <3>7
    <3>8. CASE cycle' = AtEnd
      <4>1. /\ cycle'.active = FALSE /\ cycle'.started = cycle.started
            /\ cycle'.current = cycle.total /\ cycle'.total = cycle.total
            /\ cycle' = [active |-> FALSE, started |-> cycle.started,
                         current |-> cycle.total, total |-> cycle.total]
        BY <1>2, <3>8 DEF AtEnd
      <4>2. cycle.total <= cycle.total /\ cycle.started \in BOOLEAN
            /\ cycle.total \in {0, FileCount}
        BY <1>2, <3>3
      <4> QED
        BY <3>3, <4>1, <4>2
    <3> QED
      BY <3>1, <3>2, <3>4, <3>5, <3>6, <3>7, <3>8
  <2> QED
    BY <1>1, <1>13, <2>1, <2>3 DEF ManagerReads, ProgressTypeOK
<1>14. CASE ClientReads
  <2> DEFINE e == Head(stream)
  <2>1. /\ stream' \in Seq(Message) /\ Len(stream') <= MaxInStream
        /\ stream' \in Seq(Sent)' /\ e \in Sent
    BY <1>12, <1>14 DEF ClientReads
  <2>2. e.token \in Token /\ (e.kind = "create" => e.token \in asked)
    BY <2>1 DEF Sent, Message
  <2>3. created' \subseteq asked /\ created \subseteq created'
        /\ tracked' \subseteq Token
    BY <1>1, <1>14, <2>2 DEF ClientReads, Track
  <2> QED
    BY <1>1, <1>2, <1>14, <2>1, <2>3 DEF ClientReads, ProgressTypeOK
<1>15. CASE UNCHANGED progressVars
  BY <1>1, <1>2, <1>15 DEF progressVars, ProgressTypeOK, Sent
<1> QED
  BY <1>5, <1>7, <1>8, <1>9, <1>10, <1>11, <1>13, <1>14, <1>15 DEF ProgressNext

\* What a message that is sent changes for the tokens of T.
LEMMA SendSees ==
  ASSUME ProgressTypeOK, NEW t \in Token,
         NEW kind \in {"create", "begin", "report", "end", "other"},
         NEW n \in 0 .. FileCount, NEW m \in {0, FileCount}, n <= m,
         Sends(kind, t, n, m), NEW T
  PROVE  /\ Followed(stream, Opens(T), Ends(T))
              /\ (kind \in {"begin", "report"} => t \notin T)
              => Followed(stream', Opens(T), Ends(T))
         /\ Followed(stream, Ends(T), Begins(T)) /\ (kind = "end" => t \notin T)
              => Followed(stream', Ends(T), Begins(T))
         /\ kind = "end" /\ t \in T => /\ Followed(stream', Opens(T), Ends(T))
                                       /\ HasOne(stream', Ends(T))
         /\ kind = "begin" /\ t \in T => /\ Followed(stream', Ends(T), Begins(T))
                                         /\ HasOne(stream', Begins(T))
         /\ HasOne(stream, Ends(T)) => HasOne(stream', Ends(T))
         /\ HasOne(stream, Begins(T)) => HasOne(stream', Begins(T))
<1> DEFINE e == [kind |-> kind, token |-> t, n |-> n, m |-> m]
<1>1. /\ e \in Message
      /\ e \in Begins(T) <=> kind = "begin" /\ t \in T
      /\ e \in Ends(T) <=> kind = "end" /\ t \in T
      /\ e \in Opens(T) <=> kind \in {"begin", "report"} /\ t \in T
  <2>1. e \in Message /\ e.kind = kind /\ e.token = t
    BY DEF Message
  <2> HIDE DEF e
  <2> QED
    BY <2>1 DEF Begins, Ends, Opens
<1>2. stream' = Append(stream, e) /\ stream \in Seq(Message)
  BY DEF Sends, ProgressTypeOK
<1> HIDE DEF e
<1>3. \A P, Q : /\ HasOne(stream', Q) <=> HasOne(stream, Q) \/ e \in Q
                /\ Followed(stream, P, Q) /\ e \notin P => Followed(stream', P, Q)
                /\ e \in Q /\ e \notin P => Followed(stream', P, Q)
  BY <1>1, <1>2, MessageAdded
<1> QED
  BY <1>1, <1>3

\* What a message that is read changes for the tokens of T.
LEMMA ReadSees ==
  ASSUME ProgressTypeOK, stream # << >>, stream' = Tail(stream), NEW T
  PROVE  LET e == Head(stream)
             inT == e.token \in T
         IN  /\ e \in Message
             /\ Followed(stream, Opens(T), Ends(T)) =>
                  /\ Followed(stream', Opens(T), Ends(T))
                  /\ e.kind \in {"begin", "report"} /\ inT => HasOne(stream', Ends(T))
             /\ Followed(stream, Ends(T), Begins(T)) =>
                  /\ Followed(stream', Ends(T), Begins(T))
                  /\ e.kind = "end" /\ inT => HasOne(stream', Begins(T))
             /\ HasOne(stream, Ends(T)) =>
                  HasOne(stream', Ends(T)) \/ (e.kind = "end" /\ inT)
             /\ HasOne(stream, Begins(T)) =>
                  HasOne(stream', Begins(T)) \/ (e.kind = "begin" /\ inT)
<1> DEFINE e == Head(stream)
<1>1. stream \in Seq(Message)
  BY DEF ProgressTypeOK
<1>2. /\ e \in Message
      /\ \A P, Q : /\ HasOne(stream, Q) <=> HasOne(stream', Q) \/ e \in Q
                   /\ Followed(stream, P, Q) => /\ Followed(stream', P, Q)
                                                /\ e \in P => HasOne(stream', Q)
  BY <1>1, MessageTaken
<1> HIDE DEF e
<1>3. /\ e \in Begins(T) <=> e.kind = "begin" /\ e.token \in T
      /\ e \in Ends(T) <=> e.kind = "end" /\ e.token \in T
      /\ e \in Opens(T) <=> e.kind \in {"begin", "report"} /\ e.token \in T
  BY <1>2 DEF Begins, Ends, Opens
<1> QED
  BY <1>2, <1>3 DEF e

\* A message of the server.
LEMMA ServerKeepsSeen ==
  ASSUME ProgressInv, NEW t \in Token,
         \/ AskForToken(t) \/ Begin(t) \/ End(t) \/ ReportLate(t) \/ SendOther(t)
         \/ \E n \in 0 .. FileCount, m \in {0, FileCount} : Report(t, n, m)
  PROVE  ReaderSees'
<1> USE ProgressConstants
<1>1. ProgressTypeOK /\ ReaderSees
  BY DEF ProgressInv, ReaderSees
<1>2. ASSUME NEW kind \in {"create", "report", "other"}, kind = "report" => t \in running,
             NEW n \in 0 .. FileCount, NEW m \in {0, FileCount}, n <= m,
             Sends(kind, t, n, m),
             UNCHANGED <<reader, running, cycle, tracked, late, overlap>>
      PROVE  ReaderSees'
  <2>1. ASSUME NEW u \in Token, ClientSees(u) PROVE ClientSees(u)'
    <3>1. kind = "report" /\ u \notin running => t \notin {u}
      BY <1>2
    <3> QED
      BY <1>1, <1>2, <2>1, <3>1, SendSees DEF ClientSees
  <2>2. ManagerSees => ManagerSees'
    <3>1. kind = "report" => running # {}
      BY <1>2
    <3> QED
      BY <1>1, <1>2, <3>1, SendSees DEF ManagerSees
  <2> QED
    BY <1>1, <1>2, <2>1, <2>2 DEF ReaderSees
<1>3. CASE AskForToken(t) \/ SendOther(t)
  <2>1. Sends("create", t, 0, 0) \/ Sends("other", t, 0, 0)
    BY <1>3 DEF AskForToken, SendOther
  <2>2. UNCHANGED <<reader, running, cycle, tracked, late, overlap>>
    BY <1>3 DEF AskForToken, SendOther
  <2>3. 0 \in 0 .. FileCount /\ 0 \in {0, FileCount}
    OBVIOUS
  <2> QED
    BY <1>2, <2>1, <2>2, <2>3
<1>4. ASSUME NEW n \in 0 .. FileCount, NEW m \in {0, FileCount}, Report(t, n, m)
      PROVE  ReaderSees'
  BY <1>2, <1>4 DEF Report
<1>5. CASE Begin(t)
  <2>1. /\ Sends("begin", t, 0, 0) /\ t \notin running
        /\ running' = running \cup {t}
        /\ overlap' = (overlap \/ running # {})
        /\ UNCHANGED <<reader, cycle, tracked, late>>
    BY <1>5 DEF Begin
  <2>2. 0 \in 0 .. FileCount /\ 0 \in {0, FileCount}
    OBVIOUS
  <2>3. ASSUME NEW u \in Token, ClientSees(u) PROVE ClientSees(u)'
    <3>1. CASE u = t
      <4>1. Followed(stream', Ends({u}), Begins({u})) /\ HasOne(stream', Begins({u}))
        BY <1>1, <2>1, <2>2, <3>1, SendSees
      <4> QED
        BY <2>1, <3>1, <4>1 DEF ClientSees
    <3>2. CASE u # t
      <4>1. (u \in running' <=> u \in running) /\ t \notin {u}
        BY <2>1, <3>2
      <4> QED
        BY <1>1, <2>1, <2>2, <2>3, <4>1, SendSees DEF ClientSees
    <3> QED
      BY <3>1, <3>2
  <2>4. ManagerSees => ManagerSees'
    <3>1. Followed(stream', Ends(Token), Begins(Token)) /\ HasOne(stream', Begins(Token))
      BY <1>1, <2>1, <2>2, SendSees
    <3> QED
      BY <2>1, <3>1 DEF ManagerSees
  <2> QED
    BY <1>1, <2>1, <2>3, <2>4 DEF ReaderSees
<1>6. CASE End(t)
  <2>1. /\ Sends("end", t, 0, 0) /\ t \in running
        /\ running' = running \ {t}
        /\ UNCHANGED <<reader, cycle, tracked, late, overlap>>
    BY <1>6 DEF End
  <2>2. 0 \in 0 .. FileCount /\ 0 \in {0, FileCount}
    OBVIOUS
  <2>3. ASSUME NEW u \in Token, ClientSees(u) PROVE ClientSees(u)'
    <3>1. CASE u = t
      <4>1. Followed(stream', Opens({u}), Ends({u})) /\ HasOne(stream', Ends({u}))
        BY <1>1, <2>1, <2>2, <3>1, SendSees
      <4> QED
        BY <2>1, <3>1, <4>1 DEF ClientSees
    <3>2. CASE u # t
      <4>1. (u \in running' <=> u \in running) /\ t \notin {u}
        BY <2>1, <3>2
      <4> QED
        BY <1>1, <2>1, <2>2, <2>3, <4>1, SendSees DEF ClientSees
    <3> QED
      BY <3>1, <3>2
  <2>4. ManagerSees => ManagerSees'
    <3>1. Followed(stream', Opens(Token), Ends(Token)) /\ HasOne(stream', Ends(Token))
      BY <1>1, <2>1, <2>2, SendSees
    <3>2. ManagerSees /\ ~overlap => running' = {}
      BY <2>1 DEF ManagerSees
    <3>3. (\A u, v \in running : u = v) => \A u, v \in running' : u = v
      BY <2>1
    <3> QED
      BY <2>1, <3>1, <3>2, <3>3 DEF ManagerSees
  <2> QED
    BY <1>1, <2>1, <2>3, <2>4 DEF ReaderSees
<1>7. CASE ReportLate(t)
  BY <1>7 DEF ReportLate, ReaderSees
<1> QED
  BY <1>3, <1>4, <1>5, <1>6, <1>7

\* The session manager reads a message.
LEMMA ManagerKeepsSeen == ASSUME ProgressInv, ManagerReads PROVE ReaderSees'
<1> DEFINE e == Head(stream)
<1>1. /\ ProgressTypeOK /\ reader = "manager" /\ stream # << >>
      /\ stream' = Tail(stream)
      /\ UNCHANGED <<reader, running, late, overlap>>
  BY DEF ProgressInv, ManagerReads
<1>2. \/ e.kind = "begin" /\ cycle'.active = TRUE
      \/ e.kind = "report" /\ cycle'.active = cycle.active
      \/ e.kind = "end" /\ cycle'.active = FALSE /\ cycle'.current = cycle'.total
      \/ e.kind \in {"create", "other"} /\ cycle' = cycle
  <2>1. cycle \in [active : BOOLEAN, started : BOOLEAN,
                   current : 0 .. FileCount, total : {0, FileCount}]
    BY <1>1 DEF ProgressTypeOK
  <2> HIDE DEF e
  <2>2. /\ \A quiet : AtBegin(quiet).active = TRUE
        /\ AtReport(e).active = cycle.active
        /\ AtEnd.active = FALSE /\ AtEnd.current = AtEnd.total
    BY <2>1 DEF AtBegin, AtReport, AtEnd
  <2> QED
    BY <2>2 DEF ManagerReads, e
<1>3. /\ e \in Message
      /\ Followed(stream, Opens(Token), Ends(Token)) =>
           /\ Followed(stream', Opens(Token), Ends(Token))
           /\ e.kind \in {"begin", "report"} => HasOne(stream', Ends(Token))
      /\ Followed(stream, Ends(Token), Begins(Token)) =>
           /\ Followed(stream', Ends(Token), Begins(Token))
           /\ e.kind = "end" => HasOne(stream', Begins(Token))
      /\ HasOne(stream, Ends(Token)) =>
           HasOne(stream', Ends(Token)) \/ e.kind = "end"
      /\ HasOne(stream, Begins(Token)) =>
           HasOne(stream', Begins(Token)) \/ e.kind = "begin"
  <2>1. e \in Message
    BY <1>1 DEF ProgressTypeOK
  <2>2. e.token \in Token
    BY <2>1 DEF Message
  <2> QED
    BY <1>1, <2>1, <2>2, ReadSees
<1> HIDE DEF e
<1>4. cycle.current \in Nat /\ cycle.total \in Nat
      /\ cycle.active \in BOOLEAN /\ cycle'.active \in BOOLEAN
  <2>1. cycle \in [active : BOOLEAN, started : BOOLEAN,
                   current : 0 .. FileCount, total : {0, FileCount}]
    BY <1>1 DEF ProgressTypeOK
  <2>2. cycle.current \in Nat /\ cycle.total \in Nat
    BY <2>1, ProgressConstants
  <2>3. cycle.active \in BOOLEAN
    BY <2>1
  <2>4. cycle'.active \in {TRUE, FALSE, cycle.active}
    BY <1>2
  <2> QED
    BY <2>2, <2>3, <2>4
<1>5. ManagerSees => ManagerSees'
  <2>1. SUFFICES ASSUME ManagerSees PROVE ManagerSees'
    OBVIOUS
  <2>2. ASSUME running = {}
        PROVE  /\ Followed(stream', Opens(Token), Ends(Token))
               /\ cycle'.active \/ cycle'.current < cycle'.total
                    => HasOne(stream', Ends(Token))
    <3>1. /\ Followed(stream, Opens(Token), Ends(Token))
          /\ cycle.active \/ cycle.current < cycle.total => HasOne(stream, Ends(Token))
      BY <2>1, <2>2 DEF ManagerSees
    <3>2. CASE e.kind \in {"begin", "report"}
      BY <1>3, <3>1, <3>2
    <3>3. CASE e.kind = "end"
      <4>1. cycle'.active = FALSE /\ cycle'.current = cycle'.total
        BY <1>2, <3>3
      <4>2. cycle'.total \in Nat
        <5>1. cycle' = AtEnd
          BY <3>3 DEF ManagerReads, e
        <5>2. cycle \in [active : BOOLEAN, started : BOOLEAN,
                         current : 0 .. FileCount, total : {0, FileCount}]
          BY <1>1 DEF ProgressTypeOK
        <5> QED
          BY <1>4, <5>1, <5>2 DEF AtEnd
      <4>3. ~(cycle'.current < cycle'.total)
        BY <4>1, <4>2
      <4> QED
        BY <1>3, <3>1, <4>1, <4>3
    <3>4. CASE e.kind \in {"create", "other"}
      BY <1>2, <1>3, <3>1, <3>4
    <3> QED
      BY <1>2, <3>2, <3>3, <3>4
  <2>3. ASSUME ~overlap, running # {}
        PROVE  /\ Followed(stream', Ends(Token), Begins(Token))
               /\ ~cycle'.active => HasOne(stream', Begins(Token))
    <3>1. /\ Followed(stream, Ends(Token), Begins(Token))
          /\ ~cycle.active => HasOne(stream, Begins(Token))
      BY <2>1, <2>3 DEF ManagerSees
    <3> QED
      BY <1>2, <1>3, <3>1
  <2> QED
    BY <1>1, <2>1, <2>2, <2>3 DEF ManagerSees
<1> QED
  BY <1>1, <1>5 DEF ProgressInv, ReaderSees

\* The client of a direct connection reads a message.
LEMMA ClientKeepsSeen == ASSUME ProgressInv, ClientReads PROVE ReaderSees'
<1> DEFINE e == Head(stream)
<1>1. /\ ProgressTypeOK /\ reader = "client" /\ stream # << >>
      /\ stream' = Tail(stream)
      /\ UNCHANGED <<reader, running, late>>
  BY DEF ProgressInv, ClientReads
<1>2. tracked' = IF e.kind \in {"begin", "report"} THEN tracked \cup {e.token}
                 ELSE IF e.kind = "end" THEN tracked \ {e.token} ELSE tracked
  BY DEF ClientReads, Track
<1>3. ASSUME NEW t \in Token, ClientSees(t) PROVE ClientSees(t)'
  <2>1. /\ Followed(stream, Opens({t}), Ends({t})) =>
             /\ Followed(stream', Opens({t}), Ends({t}))
             /\ e.kind \in {"begin", "report"} /\ e.token \in {t}
                  => HasOne(stream', Ends({t}))
        /\ Followed(stream, Ends({t}), Begins({t})) =>
             /\ Followed(stream', Ends({t}), Begins({t}))
             /\ e.kind = "end" /\ e.token \in {t} => HasOne(stream', Begins({t}))
        /\ HasOne(stream, Ends({t})) =>
             HasOne(stream', Ends({t})) \/ (e.kind = "end" /\ e.token \in {t})
        /\ HasOne(stream, Begins({t})) =>
             HasOne(stream', Begins({t})) \/ (e.kind = "begin" /\ e.token \in {t})
    BY <1>1, ReadSees
  <2> HIDE DEF e
  <2> QED
    BY <1>1, <1>2, <1>3, <2>1 DEF ClientSees
<1> QED
  BY <1>1, <1>3 DEF ProgressInv, ReaderSees

\* The server and its reader as they start satisfy the inductive invariant.
LEMMA InitProgressInv == ProgressInit => ProgressInv
<1> SUFFICES ASSUME ProgressInit PROVE ProgressInv
  OBVIOUS
<1>1. \A S : << >> \in Seq(S)
  OBVIOUS
<1>2. ProgressTypeOK
  <2>1. /\ cycle \in [active : BOOLEAN, started : BOOLEAN,
                      current : 0 .. FileCount, total : {0, FileCount}]
        /\ cycle.current <= cycle.total
    BY ProgressConstants DEF ProgressInit
  <2>2. stream \in Seq(Message) /\ Len(stream) <= MaxInStream
    BY <1>1, ProgressConstants DEF ProgressInit
  <2>3. late \in BOOLEAN /\ overlap \in BOOLEAN /\ polite \in BOOLEAN
    BY DEF ProgressInit
  <2> QED
    BY <2>1, <2>2, <2>3, ProgressConstants DEF ProgressInit, ProgressTypeOK
<1>3. stream \in Seq(Sent)
  BY <1>1 DEF ProgressInit
<1>4. \A P, Q : Followed(stream, P, Q)
  BY DEF ProgressInit, Followed
<1> QED
  BY <1>2, <1>3, <1>4 DEF ProgressInit, ProgressInv, ClientSees, ManagerSees

\* Every step keeps it.
LEMMA NextProgressInv ==
  ProgressInv /\ [ProgressNext]_progressVars => ProgressInv'
<1> SUFFICES ASSUME ProgressInv, [ProgressNext]_progressVars PROVE ProgressInv'
  OBVIOUS
<1>1. ProgressTypeOK' /\ stream' \in Seq(Sent)'
  BY NextProgressType DEF ProgressInv
<1>2. ReaderSees'
  <2>1. CASE UNCHANGED progressVars
    BY <2>1 DEF progressVars, ProgressInv, ReaderSees, ClientSees, ManagerSees
  <2> QED
    BY <2>1, ServerKeepsSeen, ManagerKeepsSeen, ClientKeepsSeen DEF ProgressNext
<1> QED
  BY <1>1, <1>2 DEF ProgressInv, ReaderSees

\* Types of the server's and its reader's state; a token is created only after
\* it was asked for, and no count exceeds its total.
THEOREM ProgressTypeCorrect == ProgressSpec => []ProgressTypeOK
<1>1. ProgressInv => ProgressTypeOK
  BY DEF ProgressInv
<1> QED
  BY InitProgressInv, NextProgressInv, <1>1, PTL DEF ProgressSpec

\* handleNotification with getStatus, and the progress tracker: a reader that
\* has caught up agrees with the server, for any number of tokens, operations
\* and messages on their way.
THEOREM StatusTold == ProgressSpec => []StatusTellsIndexing
<1>1. ProgressInv => StatusTellsIndexing
  <2> SUFFICES ASSUME ProgressInv, stream = << >>, ~late
               PROVE  /\ reader = "client" => tracked = running
                      /\ reader = "manager" =>
                           /\ running = {} => State # "indexing" /\ ~cycle.active
                           /\ ~overlap /\ running # {} => State = "indexing"
    BY DEF StatusTellsIndexing
  <2>1. \A Q : ~HasOne(stream, Q)
    BY DEF HasOne
  <2>2. ASSUME reader = "client" PROVE tracked = running
    <3>1. \A t \in Token : t \in tracked <=> t \in running
      BY <2>1, <2>2 DEF ProgressInv, ClientSees
    <3> QED
      BY <3>1 DEF ProgressInv, ProgressTypeOK
  <2>3. ASSUME reader = "manager"
        PROVE  /\ running = {} => State # "indexing" /\ ~cycle.active
               /\ ~overlap /\ running # {} => State = "indexing"
    <3>1. ManagerSees
      BY <2>3 DEF ProgressInv
    <3> QED
      BY <2>1, <3>1 DEF ManagerSees, State
  <2> QED
    BY <2>2, <2>3
<1> QED
  BY InitProgressInv, NextProgressInv, <1>1, PTL DEF ProgressSpec

-----------------------------------------------------------------------------
(* NotificationLimiter. *)

\* Goroutines between the notification and its count.
Busy == {c \in Conn : logger[c] # "idle"}

\* Every notification was counted once or is about to be; unless the bucket
\* was used while a summary was logged, one goroutine at most logs one, and
\* the messages, the numbers that were logged and what is in the bucket and
\* not in a summary yet make up all that were counted.
LimiterInv ==
  /\ LimiterTypeOK
  /\ logged.emitted + bucket.suppressed + Cardinality(Busy) <= notified
  /\ logged.floods + Cardinality(Busy) <= notified
  /\ ~raced =>
       /\ \A c, d \in Conn : logger[c] = "flush" /\ logger[d] = "flush" => c = d
       /\ notified = logged.emitted + logged.reported + Cardinality(Busy)
                       + (IF InFlush THEN 0 ELSE bucket.suppressed)

\* A goroutine that becomes busy, and one that is done.
LEMMA BusyCounted ==
  ASSUME LimiterTypeOK, NEW c \in Conn, NEW l \in {"idle", "enter", "flush"},
         logger' = [logger EXCEPT ![c] = l]
  PROVE  /\ Cardinality(Busy) \in Nat /\ Cardinality(Busy') \in Nat
         /\ logger[c] = "idle" /\ l # "idle" =>
              Cardinality(Busy') = Cardinality(Busy) + 1
         /\ logger[c] # "idle" /\ l = "idle" =>
              Cardinality(Busy') = Cardinality(Busy) - 1
         /\ logger[c] # "idle" /\ l # "idle" => Busy' = Busy
<1>1. IsFiniteSet(Busy)
  <2>1. Busy \subseteq Conn
    BY DEF Busy
  <2> QED
    BY <2>1, LimiterConstants, FS_Subset
<1>2. logger \in [Conn -> {"idle", "enter", "flush"}]
  BY DEF LimiterTypeOK
<1>3. Busy' = IF l = "idle" THEN Busy \ {c} ELSE Busy \cup {c}
  BY <1>2 DEF Busy
<1>4. c \in Busy <=> logger[c] # "idle"
  BY DEF Busy
<1>5. Cardinality(Busy) \in Nat
  BY <1>1, FS_CardinalityType
<1>6. CASE l = "idle"
  <2>1. IsFiniteSet(Busy \ {c})
        /\ Cardinality(Busy \ {c}) =
             IF c \in Busy THEN Cardinality(Busy) - 1 ELSE Cardinality(Busy)
    BY <1>1, FS_RemoveElement
  <2>2. Cardinality(Busy \ {c}) \in Nat
    BY <2>1, FS_CardinalityType
  <2> QED
    BY <1>3, <1>4, <1>5, <1>6, <2>1, <2>2
<1>7. CASE l # "idle"
  <2>1. IsFiniteSet(Busy \cup {c})
        /\ Cardinality(Busy \cup {c}) =
             IF c \in Busy THEN Cardinality(Busy) ELSE Cardinality(Busy) + 1
    BY <1>1, FS_AddElement
  <2>2. Cardinality(Busy \cup {c}) \in Nat
    BY <2>1, FS_CardinalityType
  <2>3. c \in Busy => Busy \cup {c} = Busy
    OBVIOUS
  <2> QED
    BY <1>3, <1>4, <1>5, <1>7, <2>1, <2>2, <2>3
<1> QED
  BY <1>6, <1>7

\* CountNotification adds one to what is logged or to what is left out, and
\* mentions a window at most once for what it adds.
LEMMA OneIsCounted ==
  ASSUME LimiterTypeOK, NEW b, CountNotification(b),
         b \in [start : 0 .. MaxWindow, emitted : 0 .. Burst,
                suppressed : 0 .. MaxCalls, told : BOOLEAN]
  PROVE  /\ logged'.emitted + bucket'.suppressed
              = logged.emitted + b.suppressed + 1
         /\ logged'.reported = logged.reported
         /\ logged'.floods \in {logged.floods, logged.floods + 1}
         /\ bucket' \in [start : 0 .. MaxWindow, emitted : 0 .. Burst,
                         suppressed : Nat, told : BOOLEAN]
         /\ logged' \in [emitted : Nat, reported : Nat, floods : Nat]
<1> USE LimiterConstants
<1>1. logged \in [emitted : Nat, reported : Nat, floods : Nat]
  BY DEF LimiterTypeOK
<1>2. CASE Burst = 0 \/ b.emitted >= Burst
  <2>1. /\ bucket' = [b EXCEPT !.suppressed = @ + 1, !.told = @ \/ Burst > 0]
        /\ logged' = [logged EXCEPT !.floods =
                        IF ~b.told /\ Burst > 0 THEN @ + 1 ELSE @]
    BY <1>2 DEF CountNotification
  <2>2. /\ logged'.emitted = logged.emitted /\ logged'.reported = logged.reported
        /\ logged'.floods \in {logged.floods, logged.floods + 1}
        /\ logged' \in [emitted : Nat, reported : Nat, floods : Nat]
    BY <1>1, <2>1
  <2>3. bucket'.suppressed = b.suppressed + 1
    BY <2>1
  <2>4. bucket' \in [start : 0 .. MaxWindow, emitted : 0 .. Burst,
                     suppressed : Nat, told : BOOLEAN]
    <3> DEFINE told == b.told \/ Burst > 0
    <3>1. told \in BOOLEAN
      OBVIOUS
    <3>2. bucket' = [start |-> b.start, emitted |-> b.emitted,
                     suppressed |-> b.suppressed + 1, told |-> told]
      BY <2>1
    <3> HIDE DEF told
    <3>3. b.start \in 0 .. MaxWindow /\ b.emitted \in 0 .. Burst
          /\ b.suppressed + 1 \in Nat
      OBVIOUS
    <3> QED
      BY <3>1, <3>2, <3>3
  <2>5. logged.emitted \in Nat /\ b.suppressed \in Nat
    BY <1>1
  <2> QED
    BY <2>2, <2>3, <2>4, <2>5
<1>3. CASE ~(Burst = 0 \/ b.emitted >= Burst)
  <2>1. /\ bucket' = [b EXCEPT !.emitted = @ + 1]
        /\ logged' = [logged EXCEPT !.emitted = @ + 1]
    BY <1>3 DEF CountNotification
  <2>2. b.emitted \in 0 .. Burst /\ b.emitted + 1 \in 0 .. Burst
    BY <1>3
  <2> QED
    BY <1>1, <2>1, <2>2
<1> QED
  BY <1>2, <1>3

\* Steps that count a notification: Pass and ResetWindow.  What is logged and
\* left out stays within what came.
LEMMA CountKeepsBounds ==
  ASSUME LimiterInv, NEW c \in Conn, NEW b, CountNotification(b),
         b \in [start : 0 .. MaxWindow, emitted : 0 .. Burst,
                suppressed : 0 .. MaxCalls, told : BOOLEAN],
         b.suppressed <= bucket.suppressed,
         logger[c] # "idle", logger' = [logger EXCEPT ![c] = "idle"],
         UNCHANGED <<clock, now, notified>>, raced' \in BOOLEAN
  PROVE  /\ LimiterTypeOK'
         /\ logged'.emitted + bucket'.suppressed + Cardinality(Busy') <= notified'
         /\ logged'.floods + Cardinality(Busy') <= notified'
<1>1. /\ LimiterTypeOK /\ notified \in 0 .. MaxCalls /\ MaxCalls \in Nat
      /\ logged.emitted + bucket.suppressed + Cardinality(Busy) <= notified
      /\ logged.floods + Cardinality(Busy) <= notified
  BY LimiterConstants DEF LimiterInv, LimiterTypeOK
<1>2. /\ Cardinality(Busy) \in Nat /\ Cardinality(Busy') \in Nat
      /\ Cardinality(Busy') = Cardinality(Busy) - 1
  BY <1>1, BusyCounted
<1>3. /\ logged'.emitted + bucket'.suppressed
           = logged.emitted + b.suppressed + 1
      /\ logged'.reported = logged.reported
      /\ logged'.floods \in {logged.floods, logged.floods + 1}
      /\ bucket' \in [start : 0 .. MaxWindow, emitted : 0 .. Burst,
                      suppressed : Nat, told : BOOLEAN]
      /\ logged' \in [emitted : Nat, reported : Nat, floods : Nat]
  BY <1>1, OneIsCounted
<1>4. /\ logged.emitted \in Nat /\ logged.floods \in Nat
      /\ bucket.suppressed \in Nat /\ b.suppressed \in Nat
      /\ logged'.emitted \in Nat /\ logged'.floods \in Nat
      /\ bucket'.suppressed \in Nat
  BY <1>1, <1>3, LimiterConstants DEF LimiterTypeOK
<1>5. /\ logged'.emitted + bucket'.suppressed + Cardinality(Busy') <= notified
      /\ logged'.floods + Cardinality(Busy') <= notified
  BY <1>1, <1>2, <1>3, <1>4
<1>6. /\ logged'.emitted \in 0 .. MaxCalls /\ logged'.floods \in 0 .. MaxCalls
      /\ bucket'.suppressed \in 0 .. MaxCalls
  BY <1>1, <1>2, <1>4, <1>5
<1>7. LimiterTypeOK'
  <2>1. bucket' \in [start : 0 .. MaxWindow, emitted : 0 .. Burst,
                     suppressed : 0 .. MaxCalls, told : BOOLEAN]
    BY <1>3, <1>6
  <2>2. logged' \in [emitted : 0 .. MaxCalls, reported : Nat,
                     floods : 0 .. MaxCalls]
    BY <1>3, <1>6
  <2>3. logger' \in [Conn -> {"idle", "enter", "flush"}]
    BY <1>1 DEF LimiterTypeOK
  <2> QED
    BY <1>1, <2>1, <2>2, <2>3 DEF LimiterTypeOK
<1> QED
  BY <1>5, <1>7

\* An empty bucket of the window that goroutine c found.
LEMMA FreshBucket ==
  ASSUME LimiterTypeOK, NEW c \in Conn
  PROVE  /\ Fresh(c) \in [start : 0 .. MaxWindow, emitted : 0 .. Burst,
                          suppressed : 0 .. MaxCalls, told : BOOLEAN]
         /\ Fresh(c).suppressed = 0 /\ 0 <= bucket.suppressed
BY LimiterConstants DEF LimiterTypeOK, Fresh

\* The limiter as it starts satisfies the inductive invariant.
LEMMA InitLimiterInv == LimiterInit => LimiterInv
<1> SUFFICES ASSUME LimiterInit PROVE LimiterInv
  OBVIOUS
<1> USE LimiterConstants
<1>1. LimiterTypeOK
  <2>1. /\ bucket \in [start : 0 .. MaxWindow, emitted : 0 .. Burst,
                       suppressed : 0 .. MaxCalls, told : BOOLEAN]
        /\ logged \in [emitted : 0 .. MaxCalls, reported : Nat,
                       floods : 0 .. MaxCalls]
    BY DEF LimiterInit
  <2>2. raced \in BOOLEAN
    BY DEF LimiterInit
  <2> QED
    BY <2>1, <2>2 DEF LimiterInit, LimiterTypeOK
<1>2. Cardinality(Busy) = 0
  <2>1. Busy = {}
    BY DEF LimiterInit, Busy
  <2> QED
    BY <2>1, FS_EmptySet
<1>3. ~InFlush /\ \A c \in Conn : logger[c] = "idle"
  BY DEF LimiterInit, InFlush
<1> QED
  BY <1>1, <1>2, <1>3 DEF LimiterInit, LimiterInv

\* Every step keeps it.
LEMMA NextLimiterInv == LimiterInv /\ [LimiterNext]_limiterVars => LimiterInv'
<1> SUFFICES ASSUME LimiterInv, [LimiterNext]_limiterVars PROVE LimiterInv'
  OBVIOUS
<1> USE LimiterConstants
<1> DEFINE OneFlush == \A c, d \in Conn :
                         logger[c] = "flush" /\ logger[d] = "flush" => c = d
           Waiting == IF InFlush THEN 0 ELSE bucket.suppressed
<1>1. /\ LimiterTypeOK /\ logger \in [Conn -> {"idle", "enter", "flush"}]
      /\ logged.emitted + bucket.suppressed + Cardinality(Busy) <= notified
      /\ logged.floods + Cardinality(Busy) <= notified
      /\ ~raced => /\ OneFlush
                   /\ notified = logged.emitted + logged.reported
                                   + Cardinality(Busy) + Waiting
  BY DEF LimiterInv, LimiterTypeOK
<1>2. /\ logged.emitted \in Nat /\ logged.reported \in Nat
      /\ logged.floods \in Nat /\ bucket.suppressed \in Nat
      /\ notified \in 0 .. MaxCalls /\ raced \in BOOLEAN
  BY DEF LimiterInv, LimiterTypeOK
<1>3. CASE TimePasses
  <2>1. LimiterTypeOK'
    BY <1>1, <1>3 DEF TimePasses, LimiterTypeOK
  <2>2. UNCHANGED <<logger, bucket, notified, logged, raced>>
    BY <1>3 DEF TimePasses
  <2> QED
    BY <1>1, <2>1, <2>2 DEF LimiterInv, Busy, InFlush
<1>4. ASSUME NEW c \in Conn, Notified(c) PROVE LimiterInv'
  <2>1. /\ logger' = [logger EXCEPT ![c] = "enter"] /\ logger[c] = "idle"
        /\ notified' = notified + 1 /\ notified' \in 0 .. MaxCalls
        /\ UNCHANGED <<clock, bucket, logged, raced>>
    BY <1>2, <1>4 DEF Notified
  <2>2. /\ Cardinality(Busy) \in Nat /\ Cardinality(Busy') \in Nat
        /\ Cardinality(Busy') = Cardinality(Busy) + 1
    BY <1>1, <2>1, BusyCounted
  <2>3. LimiterTypeOK'
    <3>1. now' \in [Conn -> 0 .. MaxWindow]
          /\ logger' \in [Conn -> {"idle", "enter", "flush"}]
      BY <1>1, <1>4, <2>1 DEF Notified, LimiterTypeOK
    <3> QED
      BY <1>1, <2>1, <3>1 DEF LimiterTypeOK
  <2>4. (InFlush' <=> InFlush) /\ (OneFlush => OneFlush')
    BY <1>1, <2>1 DEF InFlush
  <2>5. Waiting' = Waiting /\ Waiting \in Nat
    BY <1>2, <2>1, <2>4
  <2> HIDE DEF Waiting, OneFlush
  <2>6. /\ logged'.emitted + bucket'.suppressed + Cardinality(Busy') <= notified'
        /\ logged'.floods + Cardinality(Busy') <= notified'
    BY <1>1, <1>2, <2>1, <2>2
  <2>7. ~raced' => /\ OneFlush'
                   /\ notified' = logged'.emitted + logged'.reported
                                    + Cardinality(Busy') + Waiting'
    BY <1>1, <1>2, <2>1, <2>2, <2>4, <2>5
  <2> QED
    BY <2>3, <2>6, <2>7 DEF LimiterInv, Waiting, OneFlush
<1>5. ASSUME NEW c \in Conn, Pass(c) PROVE LimiterInv'
  <2>1. /\ logger' = [logger EXCEPT ![c] = "idle"] /\ logger[c] = "enter"
        /\ raced' = (raced \/ InFlush) /\ UNCHANGED <<clock, now, notified>>
    BY <1>5 DEF Pass
  <2>2. PICK b : /\ CountNotification(b) /\ b \in {bucket, Fresh(c)}
                 /\ b.suppressed = bucket.suppressed
    BY <1>1, <1>5, FreshBucket DEF Pass
  <2>3. b \in [start : 0 .. MaxWindow, emitted : 0 .. Burst,
               suppressed : 0 .. MaxCalls, told : BOOLEAN]
    BY <1>1, <2>2, FreshBucket DEF LimiterTypeOK
  <2>4. /\ LimiterTypeOK'
        /\ logged'.emitted + bucket'.suppressed + Cardinality(Busy') <= notified'
        /\ logged'.floods + Cardinality(Busy') <= notified'
    <3>1. raced' \in BOOLEAN /\ b.suppressed <= bucket.suppressed
          /\ logger[c] # "idle"
      BY <1>2, <2>1, <2>2
    <3> QED
      BY <2>1, <2>2, <2>3, <3>1, CountKeepsBounds
  <2>5. ASSUME ~raced'
        PROVE  /\ OneFlush'
               /\ notified' = logged'.emitted + logged'.reported
                                + Cardinality(Busy') + Waiting'
    <3>1. ~raced /\ ~InFlush
      BY <2>1, <2>5
    <3>2. ~InFlush' /\ OneFlush'
      BY <1>1, <2>1, <3>1 DEF InFlush
    <3>3. /\ Cardinality(Busy) \in Nat /\ Cardinality(Busy') \in Nat
          /\ Cardinality(Busy') = Cardinality(Busy) - 1
      BY <1>1, <2>1, BusyCounted
    <3>4. /\ logged'.emitted + bucket'.suppressed
               = logged.emitted + bucket.suppressed + 1
          /\ logged'.reported = logged.reported
      BY <1>1, <2>2, <2>3, OneIsCounted
    <3>5. logged'.emitted \in Nat /\ bucket'.suppressed \in Nat
      BY <2>4 DEF LimiterTypeOK
    <3>6. notified = logged.emitted + logged.reported + Cardinality(Busy)
                       + bucket.suppressed
      BY <1>1, <3>1
    <3>7. notified' = logged'.emitted + logged'.reported
                        + Cardinality(Busy') + bucket'.suppressed
      BY <1>2, <2>1, <3>3, <3>4, <3>5, <3>6
    <3> QED
      BY <3>2, <3>7
  <2> QED
    BY <2>4, <2>5 DEF LimiterInv
<1>6. ASSUME NEW c \in Conn, FlushSummary(c) PROVE LimiterInv'
  <2>1. /\ logger' = [logger EXCEPT ![c] = "flush"] /\ logger[c] = "enter"
        /\ logged' = [logged EXCEPT !.reported = @ + bucket.suppressed]
        /\ raced' = (raced \/ InFlush)
        /\ UNCHANGED <<clock, now, bucket, notified>>
    BY <1>6 DEF FlushSummary
  <2>2. Busy' = Busy /\ Cardinality(Busy) \in Nat
    BY <1>1, <2>1, BusyCounted
  <2>3. /\ logged'.emitted = logged.emitted /\ logged'.floods = logged.floods
        /\ logged'.reported = logged.reported + bucket.suppressed
        /\ logged' \in [emitted : 0 .. MaxCalls, reported : Nat,
                        floods : 0 .. MaxCalls]
    BY <1>1, <1>2, <2>1 DEF LimiterTypeOK
  <2>4. LimiterTypeOK'
    <3>1. logger' \in [Conn -> {"idle", "enter", "flush"}] /\ raced' \in BOOLEAN
      BY <1>1, <1>2, <2>1
    <3> QED
      BY <1>1, <2>1, <2>3, <3>1 DEF LimiterTypeOK
  <2>5. ASSUME ~raced'
        PROVE  /\ OneFlush'
               /\ notified' = logged'.emitted + logged'.reported
                                + Cardinality(Busy') + Waiting'
    <3>1. ~raced /\ ~InFlush
      BY <2>1, <2>5
    <3>2. InFlush' /\ OneFlush'
      BY <1>1, <2>1, <3>1 DEF InFlush
    <3>3. notified = logged.emitted + logged.reported + Cardinality(Busy)
                       + bucket.suppressed
      BY <1>1, <3>1
    <3>4. notified' = logged'.emitted + logged'.reported + Cardinality(Busy') + 0
      BY <1>2, <2>1, <2>2, <2>3, <3>3
    <3> QED
      BY <3>2, <3>4
  <2>6. /\ logged'.emitted + bucket'.suppressed + Cardinality(Busy') <= notified'
        /\ logged'.floods + Cardinality(Busy') <= notified'
    BY <1>1, <2>1, <2>2, <2>3
  <2> QED
    BY <2>4, <2>5, <2>6 DEF LimiterInv
<1>7. ASSUME NEW c \in Conn, ResetWindow(c) PROVE LimiterInv'
  <2>1. /\ logger' = [logger EXCEPT ![c] = "idle"] /\ logger[c] = "flush"
        /\ CountNotification(Fresh(c))
        /\ UNCHANGED <<clock, now, notified, raced>>
    BY <1>7 DEF ResetWindow
  <2>2. /\ Fresh(c) \in [start : 0 .. MaxWindow, emitted : 0 .. Burst,
                         suppressed : 0 .. MaxCalls, told : BOOLEAN]
        /\ Fresh(c).suppressed = 0 /\ 0 <= bucket.suppressed
    BY <1>1, FreshBucket
  <2>3. /\ LimiterTypeOK'
        /\ logged'.emitted + bucket'.suppressed + Cardinality(Busy') <= notified'
        /\ logged'.floods + Cardinality(Busy') <= notified'
    <3>1. raced' \in BOOLEAN /\ Fresh(c).suppressed <= bucket.suppressed
          /\ logger[c] # "idle"
      BY <1>2, <2>1, <2>2
    <3> QED
      BY <2>1, <2>2, <3>1, CountKeepsBounds
  <2>4. ASSUME ~raced'
        PROVE  /\ OneFlush'
               /\ notified' = logged'.emitted + logged'.reported
                                + Cardinality(Busy') + Waiting'
    <3>1. ~raced /\ InFlush /\ OneFlush
      BY <1>1, <2>1, <2>4 DEF InFlush
    <3>2. ~InFlush' /\ OneFlush'
      BY <1>1, <2>1, <3>1 DEF InFlush
    <3>3. /\ Cardinality(Busy) \in Nat /\ Cardinality(Busy') \in Nat
          /\ Cardinality(Busy') = Cardinality(Busy) - 1
      BY <1>1, <2>1, BusyCounted
    <3>4. /\ logged'.emitted + bucket'.suppressed = logged.emitted + 0 + 1
          /\ logged'.reported = logged.reported
      BY <1>1, <2>1, <2>2, OneIsCounted
    <3>5. logged'.emitted \in Nat /\ bucket'.suppressed \in Nat
      BY <2>3 DEF LimiterTypeOK
    <3>6. notified = logged.emitted + logged.reported + Cardinality(Busy) + 0
      BY <1>1, <3>1
    <3>7. notified' = logged'.emitted + logged'.reported
                        + Cardinality(Busy') + bucket'.suppressed
      BY <1>2, <2>1, <3>3, <3>4, <3>5, <3>6
    <3> QED
      BY <3>2, <3>7
  <2> QED
    BY <2>3, <2>4 DEF LimiterInv
<1>8. CASE UNCHANGED limiterVars
  BY <1>8 DEF limiterVars, LimiterInv, LimiterTypeOK, Busy, InFlush
<1> QED
  BY <1>3, <1>4, <1>5, <1>6, <1>7, <1>8 DEF LimiterNext

\* Types of the limiter's state; a bucket never holds more than Burst logged
\* messages, and nothing is logged or left out that did not come.
THEOREM LimiterTypeCorrect == LimiterSpec => []LimiterTypeOK
<1>1. LimiterInv => LimiterTypeOK
  BY DEF LimiterInv
<1> QED
  BY InitLimiterInv, NextLimiterInv, <1>1, PTL DEF LimiterSpec

\* logUnhandledNotification: unless the bucket is used while a summary is
\* logged, no notification is lost or reported twice, for any number of
\* connections, notifications and windows.
THEOREM NotificationsAccounted == LimiterSpec => []LimiterAccounts
<1>1. LimiterInv => LimiterAccounts
  <2> SUFFICES ASSUME LimiterInv, ~raced, \A c \in Conn : logger[c] = "idle"
               PROVE  notified = logged.emitted + logged.reported
                                   + bucket.suppressed
    BY DEF LimiterAccounts
  <2>1. Busy = {} /\ ~InFlush
    BY DEF Busy, InFlush
  <2>2. Cardinality(Busy) = 0
    BY <2>1, FS_EmptySet
  <2>3. notified = logged.emitted + logged.reported + 0 + bucket.suppressed
    BY <2>1, <2>2 DEF LimiterInv
  <2>4. logged.emitted \in Nat /\ logged.reported \in Nat
    BY DEF LimiterInv, LimiterTypeOK
  <2> QED
    BY <2>3, <2>4
<1> QED
  BY InitLimiterInv, NextLimiterInv, <1>1, PTL DEF LimiterSpec

-----------------------------------------------------------------------------
(* What the run of MCBackground puts together. *)

BackgroundInv ==
  ManagerInv /\ ProxyInv /\ ScanInv /\ FsInv /\ ProgressInv /\ LimiterInv

\* A step is one of a component, and the others rest.
LEMMA BackgroundSteps ==
  [BackgroundNext]_vars =>
    /\ [ManagerNext]_managerVars /\ [ProxyNext]_proxyVars
    /\ [ScanNext]_scanVars /\ [FsNext]_fsVars
    /\ [ProgressNext]_progressVars /\ [LimiterNext]_limiterVars
  BY DEF BackgroundNext, Rest, vars

\* The manager, the proxy, the watchers, the progress readers and the limiter
\* side by side: every variable keeps its type, whichever of them steps.
THEOREM BackgroundTypeCorrect == BackgroundSpec => []BackgroundTypeOK
<1>1. BackgroundInit => BackgroundInv
  BY InitManagerInv, InitProxyInv, InitScanInv, InitFsInv, InitProgressInv,
     InitLimiterInv DEF BackgroundInit, BackgroundInv
<1>2. BackgroundInv /\ [BackgroundNext]_vars => BackgroundInv'
  BY BackgroundSteps, NextManagerInv, NextProxyInv, NextScanInv, NextFsInv,
     NextProgressInv, NextLimiterInv DEF BackgroundInv
<1>3. BackgroundInv => BackgroundTypeOK
  BY DEF BackgroundInv, BackgroundTypeOK, ManagerInv, ProxyInv, ScanInv, FsInv,
         ProgressInv, LimiterInv
<1> QED
  BY <1>1, <1>2, <1>3, PTL DEF BackgroundSpec

=============================================================================
