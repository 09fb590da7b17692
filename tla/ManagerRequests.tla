-------------------------- MODULE ManagerRequests --------------------------
(***************************************************************************)
(* cmd/lsp-session-manager/main.go: how the session manager forwards       *)
(* requests to the language server.  Every API request that is forwarded   *)
(* is a goroutine in sendRequest (the handler of its TCP connection); one  *)
(* goroutine, readResponses, reads the server's standard output.  The two  *)
(* pipes to the server are finite: a write to a full pipe blocks, and      *)
(* writeMessage blocks with sm.mu held, which session/status needs.        *)
(*                                                                         *)
(* The language server is the environment: it reads requests in order,     *)
(* answers each at most once, in any order or never, sends notifications,  *)
(* and may exit; the manager does not start it again.  The model begins    *)
(* when initialize has succeeded and the API listener is open.             *)
(***************************************************************************)
EXTENDS Naturals, Sequences, FiniteSets

CONSTANTS
  Call,         \* requests that are forwarded to the language server
  Probe,        \* session/status requests
  Free,         \* sm.mu is not held
  Garbage,      \* output without a usable Content-Length header
  PipeCap,      \* how many messages fit into a pipe
  MaxNotes      \* bound of the model: how often the server sends
                \* something that is not a response

ASSUME ManagerConstants ==
  /\ Free \notin Call
  /\ Garbage \notin Nat
  /\ PipeCap \in Nat \ {0}
  /\ MaxNotes \in Nat

VARIABLES
  mu,           \* sm.mu: the call that writes, or Free
  requestID,    \* sm.requestID
  pending,      \* sm.pending, by the calls that registered
  pc,           \* where each call and each probe is
  id,           \* the local id of sendRequest
  chan,         \* the local respCh, capacity 1; 0 is empty
  outcome,      \* what sendRequest returns
  reading,      \* readResponses has not returned
  server,       \* the language server process is running
  stdin,        \* requests written and not yet read by the server
  inProgress,   \* requests the server has read and not yet answered
  stdout,       \* messages not yet read by the manager; 0 is a notification
  notes,        \* how many notifications and garbage the server has sent
  answeredIds   \* history: the requests the server answered

locals   == <<id, chan, outcome>>
language == <<server, stdin, inProgress, notes, answeredIds>>
managerVars == <<mu, requestID, pending, pc, locals, reading, stdout, language>>

\* Every variable has its type, and a call that is pending has a number that
\* sm.requestID has passed; 0, the id of messages without one, is nobody's.
ManagerTypeOK ==
  /\ mu \in Call \cup {Free}
  /\ requestID \in Nat
  /\ pending \subseteq Call
  /\ pc \in [Call \cup Probe ->
               {"new", "write", "writing", "wait", "cleanup", "status", "done"}]
  /\ id \in [Call -> Nat]
  /\ chan \in [Call -> Nat]
  /\ outcome \in [Call -> {"none", "reply", "foreign", "error", "timeout"}]
  /\ reading \in BOOLEAN /\ server \in BOOLEAN
  /\ stdin \in Seq(Nat) /\ Len(stdin) <= PipeCap
  /\ stdout \in Seq(Nat \cup {Garbage}) /\ Len(stdout) <= PipeCap
  /\ inProgress \subseteq Nat /\ answeredIds \subseteq Nat
  /\ notes \in 0 .. MaxNotes
  /\ \A c \in pending : id[c] \in 1 .. requestID

ManagerInit ==
  /\ mu = Free /\ requestID = 0 /\ pending = {}
  /\ pc = [p \in Call \cup Probe |-> "new"]
  /\ id = [c \in Call |-> 0]
  /\ chan = [c \in Call |-> 0]
  /\ outcome = [c \in Call |-> "none"]
  /\ reading = TRUE /\ server = TRUE
  /\ stdin = << >> /\ inProgress = {} /\ stdout = << >>
  /\ notes = 0 /\ answeredIds = {}

Goto(p, l) == pc' = [pc EXCEPT ![p] = l]

Return(c, o) == outcome' = [outcome EXCEPT ![c] = o]

-----------------------------------------------------------------------------
(* sendRequest and writeMessage. *)

\* Mutant: the number is not counted up.
RegisterSame(c) ==
  /\ pc[c] = "new"
  /\ requestID' = 1
  /\ id' = [id EXCEPT ![c] = 1]
  /\ pending' = pending \cup {c}
  /\ Goto(c, "write")
  /\ UNCHANGED <<mu, chan, outcome, reading, stdout, language>>

\* Mutant: the number is the counter before it is counted up.
RegisterEarly(c) ==
  /\ pc[c] = "new"
  /\ requestID' = requestID + 1
  /\ id' = [id EXCEPT ![c] = requestID]
  /\ pending' = pending \cup {c}
  /\ Goto(c, "write")
  /\ UNCHANGED <<mu, chan, outcome, reading, stdout, language>>

\* One critical section of pendingMu.
Register(c) ==
  /\ pc[c] = "new"
  /\ requestID' = requestID + 1
  /\ id' = [id EXCEPT ![c] = requestID + 1]
  /\ pending' = pending \cup {c}
  /\ Goto(c, "write")
  /\ UNCHANGED <<mu, chan, outcome, reading, stdout, language>>

\* writeMessage takes sm.mu ...
Lock(c) ==
  /\ pc[c] = "write" /\ mu = Free
  /\ mu' = c
  /\ Goto(c, "writing")
  /\ UNCHANGED <<requestID, pending, locals, reading, stdout, language>>

\* Mutant: sm.mu is not released after an error.
WriteKeepsLock(c) ==
  /\ pc[c] = "writing"
  /\ \/ /\ server /\ Len(stdin) < PipeCap
        /\ stdin' = Append(stdin, id[c])
        /\ mu' = Free
        /\ Goto(c, "wait")
        /\ UNCHANGED outcome
     \/ /\ ~server
        /\ Goto(c, "cleanup")
        /\ Return(c, "error")
        /\ UNCHANGED <<mu, stdin>>
  /\ UNCHANGED <<requestID, pending, id, chan, reading, stdout, server,
                 inProgress, notes, answeredIds>>

\* ... and keeps it until the pipe has taken the message, or is broken.
Write(c) ==
  /\ pc[c] = "writing"
  /\ mu' = Free
  /\ \/ /\ server /\ Len(stdin) < PipeCap
        /\ stdin' = Append(stdin, id[c])
        /\ Goto(c, "wait")
        /\ UNCHANGED outcome
     \/ /\ ~server
        /\ Goto(c, "cleanup")
        /\ Return(c, "error")
        /\ UNCHANGED stdin
  /\ UNCHANGED <<requestID, pending, id, chan, reading, stdout, server,
                 inProgress, notes, answeredIds>>

Receive(c) ==
  /\ pc[c] = "wait" /\ chan[c] # 0
  /\ chan' = [chan EXCEPT ![c] = 0]
  /\ Return(c, IF chan[c] = id[c] THEN "reply" ELSE "foreign")
  /\ Goto(c, "cleanup")
  /\ UNCHANGED <<mu, requestID, pending, id, reading, stdout, language>>

\* case <-ctx.Done(): 90 seconds to 10 minutes, by the method.
Timeout(c) ==
  /\ pc[c] = "wait"
  /\ Return(c, "timeout")
  /\ Goto(c, "cleanup")
  /\ UNCHANGED <<mu, requestID, pending, id, chan, reading, stdout, language>>

\* The deferred delete(sm.pending, id), one critical section of pendingMu.
Cleanup(c) ==
  /\ pc[c] = "cleanup"
  /\ pending' = pending \ {c}
  /\ chan' = [chan EXCEPT ![c] = 0]
  /\ Goto(c, "done")
  /\ UNCHANGED <<mu, requestID, id, outcome, reading, stdout, language>>

\* getStatus reads sm.initialized under sm.mu.RLock.
AskStatus(p) ==
  /\ pc[p] = "new"
  /\ Goto(p, "status")
  /\ UNCHANGED <<mu, requestID, pending, locals, reading, stdout, language>>

Status(p) ==
  /\ pc[p] = "status" /\ mu = Free
  /\ Goto(p, "done")
  /\ UNCHANGED <<mu, requestID, pending, locals, reading, stdout, language>>

-----------------------------------------------------------------------------
(* readResponses. *)

\* Mutant: a response goes to any request that waits.
DispatchAny(n) ==
  /\ n # 0 /\ pending # {}
  /\ \E c \in pending : /\ chan[c] = 0
                        /\ chan' = [chan EXCEPT ![c] = n]

\* What a message does: a response goes to the pending call of that number,
\* with pendingMu held, and is dropped when there is none; a notification,
\* or a request of the server, which gets no response, goes to nobody.
Dispatch(n) ==
  \/ \E c \in pending : /\ id[c] = n
                        /\ chan[c] = 0       \* see RoomForResponse
                        /\ chan' = [chan EXCEPT ![c] = n]
  \/ (\A c \in pending : id[c] # n) /\ UNCHANGED chan

Read ==
  /\ reading /\ stdout # << >> /\ Head(stdout) # Garbage
  /\ stdout' = Tail(stdout)
  /\ Dispatch(Head(stdout))
  /\ UNCHANGED <<mu, requestID, pending, pc, id, outcome, reading, language>>

\* The loop returns for good at the end of the stream and at the first
\* message it cannot frame, although the server may be well, and nothing
\* fails the pending calls.
ReadEnds ==
  /\ reading
  /\ \/ ~server /\ stdout = << >>
     \/ stdout # << >> /\ Head(stdout) = Garbage
  /\ reading' = FALSE
  /\ UNCHANGED <<mu, requestID, pending, pc, locals, stdout, language>>

-----------------------------------------------------------------------------
(* The language server. *)

LanguageReads ==
  /\ server /\ stdin # << >>
  /\ inProgress' = inProgress \cup {Head(stdin)}
  /\ stdin' = Tail(stdin)
  /\ UNCHANGED <<mu, requestID, pending, pc, locals, reading, stdout, server,
                 notes, answeredIds>>

LanguageAnswers(n) ==
  /\ server /\ n \in inProgress /\ Len(stdout) < PipeCap
  /\ inProgress' = inProgress \ {n}
  /\ answeredIds' = answeredIds \cup {n}
  /\ stdout' = Append(stdout, n)
  /\ UNCHANGED <<mu, requestID, pending, pc, locals, reading, server, stdin,
                 notes>>

LanguageSends(m) ==
  /\ server /\ notes < MaxNotes /\ Len(stdout) < PipeCap
  /\ notes' = notes + 1
  /\ stdout' = Append(stdout, m)
  /\ UNCHANGED <<mu, requestID, pending, pc, locals, reading, server, stdin,
                 inProgress, answeredIds>>

LanguageExits ==
  /\ server
  /\ server' = FALSE /\ stdin' = << >> /\ inProgress' = {}
  /\ UNCHANGED <<mu, requestID, pending, pc, locals, reading, stdout, notes,
                 answeredIds>>

-----------------------------------------------------------------------------

CallStep(c) ==
  Lock(c) \/ Write(c) \/ Receive(c) \/ Timeout(c) \/ Cleanup(c)

ManagerNext ==
  \/ \E c \in Call : Register(c) \/ CallStep(c)
  \/ \E p \in Probe : AskStatus(p) \/ Status(p)
  \/ Read \/ ReadEnds
  \/ \E n \in 1 .. requestID : LanguageAnswers(n)
  \/ \E m \in {0, Garbage} : LanguageSends(m)
  \/ LanguageReads \/ LanguageExits

ManagerSpec == ManagerInit /\ [][ManagerNext]_managerVars

(***************************************************************************)
(* Goroutines are scheduled, sync mutexes are handed over, a context of    *)
(* sendRequest always has a deadline.  Nothing is assumed of the server.   *)
(***************************************************************************)
ManagerFairness ==
  /\ \A c \in Call : WF_managerVars(CallStep(c)) /\ SF_managerVars(Lock(c))
  /\ \A p \in Probe : SF_managerVars(Status(p))
  /\ WF_managerVars(Read)

-----------------------------------------------------------------------------
(* Properties. *)

\* When readResponses sends to a channel with pendingMu held there is room
\* in it, so pendingMu is never held by a goroutine that waits.
RoomForResponse ==
  reading /\ stdout # << >> =>
    \A c \in pending : id[c] = Head(stdout) => chan[c] = 0

\* Every forwarded request returns by its deadline, also after the server
\* exited or readResponses returned, and session/status is answered whatever
\* the requests in flight wait for, unless the server leaves its input full
\* for ever.
RequestsReturn ==
  \A p \in Call \cup Probe :
    pc[p] # "new" ~> (pc[p] = "done" \/ [](Len(stdin) = PipeCap))

\* Every request returns once, with the server's answer to it only if there
\* was one, under a number no other request has.
RpcSpec == INSTANCE RpcCalls WITH
  issued <- requestID,
  number <- id,
  answered <- answeredIds,
  raced <- FALSE

ImplementsRpcCalls == RpcSpec!CallsSpec

=============================================================================
