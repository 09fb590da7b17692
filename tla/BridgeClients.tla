---------------------------- MODULE BridgeClients ----------------------------
(***************************************************************************)
(* The clients of the bridge for one language server: who creates, checks, *)
(* closes and replaces them.  bridge/bridge.go GetClientForLanguage is     *)
(* called by main before anything is served (SyncAutoConnect), by the      *)
(* goroutines of StartAutoConnect, by the warm-up and by every tool; tools *)
(* run concurrently.  It reads and writes b.clients without b.mu.  A step  *)
(* is what happens between two such accesses, or between two calls that    *)
(* can block.                                                              *)
(*                                                                         *)
(* The server is configured either in stdio mode (lsp/client.go) or in     *)
(* session mode (lsp/session_adapter.go, whose connection repairs itself:  *)
(* see SessionClient).  In session mode the adapter is stored under the    *)
(* language as well as under the name of the server.                       *)
(***************************************************************************)
EXTENDS Naturals, FiniteSets

CONSTANTS
  Main,         \* the main goroutine
  Tool,         \* slots for tool calls
  AutoConnect,  \* slots for goroutines started by StartAutoConnect
  Warm,         \* slots for goroutines that run runWarmup
  MaxClients,   \* bound of the model: how many connects succeed
  MaxTicks,     \* bound of the model: how often five seconds pass
  MaxTouches    \* bound of the code: maxFiles of runWarmup, and the search

ASSUME ClientConstants ==
  /\ Main \notin Tool \cup AutoConnect \cup Warm
  /\ Tool \cap AutoConnect = {} /\ Tool \cap Warm = {}
  /\ AutoConnect \cap Warm = {}
  /\ IsFiniteSet(Tool \cup AutoConnect \cup Warm)
  /\ MaxClients \in Nat /\ MaxTicks \in Nat /\ MaxTouches \in Nat

VARIABLES
  mode,         \* how the server is configured
  entry,        \* b.clients, by key; 0 is no entry
  client,       \* the state of each client that was created
  autoRecent,   \* autoConnectLastAttempt is less than five seconds ago
  warmRecent,   \* warmupLastAttempt is less than ten seconds ago
  warmRunning,  \* b.warmupRunning
  warmDone,     \* b.warmupDone
  touches,      \* how many documents the warm-up has touched
  pc,           \* where each goroutine is
  mine,         \* the client a goroutine has in hand
  ticks,        \* how often five seconds have passed
  wedged,       \* session clients whose sc.mu is held for ever: see
                \* SessionClient!Wedged
  crashed,      \* the runtime has stopped the process: concurrent map access
  overlapped    \* history: two goroutines were replacing the client at once

fixed    == <<mode, wedged, crashed>>
throttle == <<autoRecent, warmRecent, ticks>>
warmup   == <<warmRunning, warmDone, touches>>
clients  == <<entry, client>>
vars == <<fixed, clients, throttle, warmup, pc, mine, overlapped>>

Client == 1 .. MaxClients
Key    == {"server", "language"}
Proc   == {Main} \cup Tool \cup AutoConnect \cup Warm

\* A client is up; or its last error looks like a connection error although it
\* is up; or its connection is lost, and that is not known or known; or it is
\* closed.
ClientState == {"none", "up", "suspect", "lost", "failed", "closed"}

GetPC == {"lookup", "close", "closeAgain", "connect", "store"}
PC == GetPC \cup {"off", "idle", "check", "poll", "ask", "wait", "clear",
                  "hook", "warmup", "touch", "done", "stuck"}

\* Every variable has its type, and no goroutine works on a missing client.
TypeOK ==
  /\ mode \in {"stdio", "session"}
  /\ entry \in [Key -> 0 .. MaxClients]
  /\ client \in [Client -> ClientState]
  /\ autoRecent \in BOOLEAN /\ warmRecent \in BOOLEAN
  /\ warmRunning \in BOOLEAN /\ warmDone \in BOOLEAN
  /\ touches \in 0 .. MaxTouches
  /\ pc \in [Proc -> PC]
  /\ mine \in [Proc -> 0 .. MaxClients]
  /\ ticks \in 0 .. MaxTicks
  /\ wedged \subseteq Client
  /\ crashed \in BOOLEAN /\ overlapped \in BOOLEAN
  /\ \A p \in Proc :
       pc[p] \in {"close", "closeAgain", "store", "ask", "wait"} =>
         mine[p] # 0 /\ client[mine[p]] # "none"

\* main has called SyncAutoConnect.
Init ==
  /\ mode \in {"stdio", "session"}
  /\ entry = [k \in Key |-> 0]
  /\ client = [c \in Client |-> "none"]
  /\ autoRecent = TRUE /\ warmRecent = FALSE
  /\ warmRunning = FALSE /\ warmDone = FALSE /\ touches = 0
  /\ pc = [p \in Proc |-> CASE p = Main   -> "lookup"
                            [] p \in Tool -> "idle"
                            [] OTHER      -> "off"]
  /\ mine = [p \in Proc |-> 0]
  /\ ticks = 0 /\ wedged = {} /\ crashed = FALSE /\ overlapped = FALSE

-----------------------------------------------------------------------------
(* Steps shared by the goroutines. *)

\* Goroutines that are about to change what b.clients says of the server.
Changing == {p \in Proc : pc[p] \in (GetPC \ {"lookup"}) \cup {"clear"}}

GotoAll(next) ==
  /\ pc' = next
  /\ overlapped' = (overlapped \/ Cardinality(Changing') > 1)

Goto(p, l) == GotoAll([pc EXCEPT ![p] = l])

Hold(p, c) == mine' = [mine EXCEPT ![p] = c]

Becomes(c, s) == client' = [client EXCEPT ![c] = s]

\* Where a goroutine goes on when GetClientForLanguage returns a client ...
Got(p) ==
  CASE p = Main   -> "hook"
    [] p \in AutoConnect -> "warmup"
    [] p \in Tool -> "ask"
    [] p \in Warm -> IF touches = 0 THEN "touch" ELSE "ask"

\* ... and when it returns an error, or a request is over.
Back(p) ==
  CASE p = Main   -> "hook"
    [] p \in AutoConnect -> "warmup"
    [] p \in Tool -> "idle"
    [] p \in Warm -> "touch"

\* client.Close, and whether it returned an error.  The connection below
\* refuses a second close, and in stdio mode one that has broken is closed
\* already; then nothing else is done.  A session client without a connection
\* has nothing that could fail.
Closed(c) ==
  /\ client[c] \in {"up", "suspect"}
  /\ Becomes(c, "closed")

ClosedTwice(c) ==
  /\ mode = "session" /\ client[c] = "closed"
  /\ UNCHANGED client

CloseFails(c) ==
  /\ client[c] \in {"lost", "failed", "closed"}
  /\ UNCHANGED client

-----------------------------------------------------------------------------
(* GetClientForLanguage. *)

\* IsConnected, the status and the last error that decide over recreation.
Unhealthy(c) ==
  \/ client[c] \in {"suspect", "failed"}
  \/ mode = "session" /\ client[c] = "closed"

Lookup(p) ==
  /\ pc[p] = "lookup"
  /\ LET c == entry["server"] IN
     \/ c = 0 /\ Goto(p, "connect") /\ UNCHANGED mine
     \/ c # 0 /\ Unhealthy(c) /\ Goto(p, "close") /\ Hold(p, c)
     \/ /\ c # 0 /\ ~Unhealthy(c) /\ client[c] = "closed"
        /\ Goto(p, "closeAgain")
        /\ Hold(p, c)
     \/ /\ c # 0 /\ ~Unhealthy(c) /\ client[c] # "closed"
        /\ Goto(p, Got(p))
        /\ Hold(p, IF Got(p) = "ask" THEN c ELSE 0)
  /\ UNCHANGED <<fixed, clients, throttle, warmup>>

\* Mutant: the unhealthy client is removed without being closed.
CloseUnhealthyNot(p) ==
  /\ pc[p] = "close"
  /\ entry' = [entry EXCEPT !["server"] = 0]
  /\ Goto(p, "connect") /\ Hold(p, 0)
  /\ UNCHANGED <<fixed, client, throttle, warmup>>

\* An unhealthy client is closed and removed, and then treated like one whose
\* context is cancelled.
CloseUnhealthy(p) ==
  /\ pc[p] = "close"
  /\ \/ /\ Closed(mine[p]) \/ ClosedTwice(mine[p])
        /\ entry' = [entry EXCEPT !["server"] = 0]
        /\ Goto(p, "closeAgain")
        /\ UNCHANGED mine
     \/ /\ CloseFails(mine[p])
        /\ Goto(p, Back(p)) /\ Hold(p, 0)
        /\ UNCHANGED entry
  /\ UNCHANGED <<fixed, throttle, warmup>>

\* A client with a cancelled context is closed (again) and removed.
CloseCancelled(p) ==
  /\ pc[p] = "closeAgain"
  /\ \/ /\ Closed(mine[p]) \/ ClosedTwice(mine[p])
        /\ entry' = [entry EXCEPT !["server"] = 0]
        /\ Goto(p, "connect")
     \/ /\ CloseFails(mine[p])
        /\ Goto(p, Back(p))
        /\ UNCHANGED entry
  /\ Hold(p, 0)
  /\ UNCHANGED <<fixed, throttle, warmup>>

\* Mutant: the error of validateAndConnectClient is not looked at.
ConnectUnchecked(p) ==
  /\ pc[p] = "connect"
  /\ Goto(p, "store")
  /\ UNCHANGED <<fixed, clients, throttle, warmup, mine>>

\* validateAndConnectClient: at most three attempts in thirty seconds; a
\* client that could not be initialised is closed.  In session mode the
\* adapter is stored under the language, with b.mu.
Connect(p) ==
  /\ pc[p] = "connect"
  /\ \/ \E c \in Client :
          /\ client[c] = "none" /\ \A d \in 1 .. c - 1 : client[d] # "none"
          /\ Becomes(c, "up")
          /\ entry' = IF mode = "session"
                        THEN [entry EXCEPT !["language"] = c] ELSE entry
          /\ Hold(p, c) /\ Goto(p, "store")
     \/ Goto(p, Back(p)) /\ UNCHANGED <<clients, mine>>
  /\ UNCHANGED <<fixed, throttle, warmup>>

Store(p) ==
  /\ pc[p] = "store"
  /\ entry' = [entry EXCEPT !["server"] = mine[p]]
  /\ Goto(p, Got(p))
  /\ Hold(p, IF Got(p) = "ask" THEN mine[p] ELSE 0)
  /\ UNCHANGED <<fixed, client, throttle, warmup>>

-----------------------------------------------------------------------------
(* A request to the language server. *)

\* SendRequest looks at the context and at the connection first.
Ask(p) ==
  /\ pc[p] = "ask"
  /\ \/ /\ client[mine[p]] \in {"up", "suspect"}
        /\ Goto(p, "wait")
        /\ UNCHANGED mine
     \/ /\ client[mine[p]] \notin {"up", "suspect"}
        /\ Goto(p, Back(p)) /\ Hold(p, 0)
  /\ UNCHANGED <<fixed, clients, throttle, warmup>>

\* A reply or a timeout; or, in stdio mode, an error that is remembered: the
\* server's error may mention EOF, and a connection that is lost during the
\* request makes it known.
Wait(p) ==
  /\ pc[p] = "wait"
  /\ \/ client[mine[p]] # "lost" /\ UNCHANGED client
     \/ /\ client[mine[p]] = "up" /\ mode = "stdio"
        /\ Becomes(mine[p], "suspect")
     \/ client[mine[p]] = "lost" /\ Becomes(mine[p], "failed")
  /\ Goto(p, Back(p)) /\ Hold(p, 0)
  /\ UNCHANGED <<fixed, entry, throttle, warmup>>

\* A send with sc.mu held that nobody will receive; every method of the client
\* takes sc.mu.
Wedge(c) ==
  /\ mode = "session" /\ client[c] # "none"
  /\ wedged' = wedged \cup {c}
  /\ UNCHANGED <<mode, crashed, clients, throttle, warmup, pc, mine, overlapped>>

\* The server exits or the pipe breaks.
Lose(c) ==
  /\ mode = "stdio" /\ client[c] \in {"up", "suspect"}
  /\ Becomes(c, IF client[c] = "up" THEN "lost" ELSE "failed")
  /\ UNCHANGED <<fixed, entry, throttle, warmup, pc, mine,
                 overlapped>>

-----------------------------------------------------------------------------
(* StartAutoConnect and StartWarmup. *)

StartAutoConnect(p, next) ==
  \/ autoRecent /\ Goto(p, next) /\ UNCHANGED autoRecent
  \/ /\ ~autoRecent
     /\ autoRecent' = TRUE
     /\ \E a \in AutoConnect :
          /\ pc[a] = "off"
          /\ GotoAll([pc EXCEPT ![p] = next, ![a] = "lookup"])

\* Mutant: it is not checked whether a warm-up is running.
StartWarmupAgain(p, next) ==
  \/ warmRecent /\ Goto(p, next) /\ UNCHANGED <<warmRecent, warmup>>
  \/ /\ ~warmRecent /\ ~warmDone
     /\ warmRecent' = TRUE
     /\ warmRunning' = TRUE /\ touches' = 0
     /\ \E w \in Warm :
          /\ pc[w] = "off"
          /\ GotoAll([pc EXCEPT ![p] = next, ![w] = "lookup"])
     /\ UNCHANGED warmDone
  \/ /\ ~warmRecent /\ warmDone
     /\ warmRecent' = TRUE
     /\ Goto(p, next) /\ UNCHANGED warmup

StartWarmup(p, next) ==
  \/ warmRecent /\ Goto(p, next) /\ UNCHANGED <<warmRecent, warmup>>
  \/ /\ ~warmRecent
     /\ warmRecent' = TRUE
     /\ \/ (warmDone \/ warmRunning) /\ Goto(p, next) /\ UNCHANGED warmup
        \/ /\ ~warmDone /\ ~warmRunning
           /\ warmRunning' = TRUE /\ touches' = 0
           /\ \E w \in Warm :
                /\ pc[w] = "off"
                /\ GotoAll([pc EXCEPT ![p] = next, ![w] = "lookup"])
           /\ UNCHANGED warmDone

\* The hook after the MCP client's initialize, once main serves stdin.
Hook ==
  /\ pc[Main] = "hook"
  /\ StartAutoConnect(Main, "done")
  /\ UNCHANGED <<fixed, clients, warmRecent, ticks, warmup, mine>>

\* An auto-connect goroutine ends with StartWarmup.
AutoEnds(a) ==
  /\ pc[a] = "warmup"
  /\ StartWarmup(a, "off")
  /\ UNCHANGED <<fixed, clients, autoRecent, ticks, mine>>

\* Mutant: the warm-up goes on as long as there are clients.
TouchForever(w) ==
  /\ pc[w] = "touch"
  /\ Goto(w, "lookup")
  /\ touches' = 1
  /\ UNCHANGED <<fixed, clients, throttle, warmRunning, warmDone, mine>>

\* runWarmup goes through some files and ends whatever came of it.
Touch(w) ==
  /\ pc[w] = "touch"
  /\ \/ /\ touches < MaxTouches
        /\ touches' = touches + 1
        /\ Goto(w, "lookup")
        /\ UNCHANGED <<warmRunning, warmDone>>
     \/ /\ warmRunning' = FALSE /\ warmDone' = TRUE
        /\ Goto(w, "off")
        /\ UNCHANGED touches
  /\ UNCHANGED <<fixed, clients, throttle, mine>>

AutoTick ==
  /\ autoRecent /\ ticks < MaxTicks
  /\ autoRecent' = FALSE /\ ticks' = ticks + 1
  /\ UNCHANGED <<fixed, clients, warmRecent, warmup, pc, mine,
                 overlapped>>

WarmTick ==
  /\ warmRecent
  /\ warmRecent' = FALSE
  /\ UNCHANGED <<fixed, clients, autoRecent, ticks, warmup, pc, mine,
                 overlapped>>

-----------------------------------------------------------------------------
(* Tools. *)

\* BuildLSPStatus: every client that is listed is connected and free of
\* connection errors.
Listed == {entry[k] : k \in Key} \ {0}

Ready ==
  /\ Listed # {}
  /\ \A c \in Listed : client[c] \notin {"suspect", "failed", "closed"}

NoneConnected == \A c \in Listed : client[c] = "closed"

\* A tool that goes through the readiness gate, lsp_connect and
\* lsp_disconnect; the latter's Close errors are only logged, and it gets to
\* some of the other clients only if there is a wedged one.
ToolStart(t) ==
  /\ pc[t] = "idle" /\ pc[Main] = "done"
  /\ \/ Goto(t, "check") /\ UNCHANGED client
     \/ Goto(t, "lookup") /\ UNCHANGED client
     \/ /\ \E S \in SUBSET (Listed \ wedged) :
             /\ Listed \cap wedged = {} => S = Listed
             /\ client' = [c \in Client |->
                             IF c \in S /\ client[c] \in {"up", "suspect"}
                               THEN "closed" ELSE client[c]]
        /\ Goto(t, "clear")
  /\ UNCHANGED <<fixed, entry, throttle, warmup, mine>>

\* Mutant: CloseAllClients removes the entry of the server only.
ClearServer(t) ==
  /\ pc[t] = "clear"
  /\ entry' = [entry EXCEPT !["server"] = 0]
  /\ Goto(t, "idle")
  /\ UNCHANGED <<fixed, client, throttle, warmup, mine>>

\* CloseAllClients makes a new map.
Clear(t) ==
  /\ pc[t] = "clear"
  /\ entry' = [k \in Key |-> 0]
  /\ Goto(t, "idle")
  /\ UNCHANGED <<fixed, client, throttle, warmup, mine>>

\* CheckReadyOrReturn starts a connect if nothing is connected ...
Check(t) ==
  /\ pc[t] = "check"
  /\ \/ ~Ready /\ NoneConnected /\ StartAutoConnect(t, "poll")
     \/ /\ Ready \/ ~NoneConnected
        /\ Goto(t, "poll") /\ UNCHANGED autoRecent
  /\ UNCHANGED <<fixed, clients, warmRecent, ticks, warmup, mine>>


\* ... and polls the status until it is ready, or for two seconds.  In stdio
\* mode the tool runs only after the warm-up, and otherwise says "warming".
Poll(t) ==
  /\ pc[t] = "poll"
  /\ \/ /\ Ready /\ (mode = "session" \/ warmDone)
        /\ Goto(t, "lookup")
        /\ UNCHANGED <<warmRecent, warmup>>
     \/ /\ Ready /\ mode = "stdio" /\ ~warmDone
        /\ \/ warmRunning /\ Goto(t, "idle") /\ UNCHANGED <<warmRecent, warmup>>
           \/ ~warmRunning /\ StartWarmup(t, "idle")
     \/ /\ ~Ready
        /\ Goto(t, "idle")
        /\ UNCHANGED <<warmRecent, warmup>>
  /\ UNCHANGED <<fixed, clients, autoRecent, ticks, mine>>

-----------------------------------------------------------------------------

\* b.clients is a Go map: a write at the same time as another access stops the
\* process, and nothing is left of its state.  The status and the adapter's
\* entry are protected by b.mu.  CloseAllClients is in its loop over the map
\* until Clear, which writes the variable and not the map.
Writes(p) ==
  \/ pc[p] \in {"close", "closeAgain", "store"}
  \/ pc[p] = "connect" /\ mode = "session"

Accesses(p) == Writes(p) \/ pc[p] \in {"lookup", "check", "poll", "clear"}

Locked(p) == pc[p] \in {"connect", "check", "poll"}

Crash ==
  /\ \E p, q \in Proc :
       p # q /\ Writes(p) /\ Accesses(q) /\ ~(Locked(p) /\ Locked(q))
  /\ crashed' = TRUE
  /\ entry' = [k \in Key |-> 0]
  /\ client' = [c \in Client |-> "none"]
  /\ pc' = [p \in Proc |-> "off"] /\ mine' = [p \in Proc |-> 0]
  /\ warmRunning' = FALSE /\ warmDone' = FALSE /\ touches' = 0
  /\ wedged' = {}
  /\ UNCHANGED <<mode, throttle, overlapped>>

GetClient(p) ==
  Lookup(p) \/ CloseUnhealthy(p) \/ CloseCancelled(p) \/ Connect(p) \/ Store(p)

\* The clients whose sc.mu a goroutine takes in its next step.
Touches(p) ==
  CASE pc[p] \in {"close", "closeAgain", "ask", "wait"} -> {mine[p]}
    [] pc[p] = "lookup"                    -> {entry["server"]}
    [] pc[p] \in {"check", "poll", "clear"} -> Listed
    [] OTHER                               -> {}

\* It waits for a wedged client for ever.
Stick(p) ==
  /\ Goto(p, "stuck")
  /\ UNCHANGED <<fixed, clients, throttle, warmup, mine>>

Proceeds(p) ==
  \/ GetClient(p) \/ Ask(p) \/ Wait(p)
  \/ p = Main /\ Hook
  \/ p \in AutoConnect /\ AutoEnds(p)
  \/ p \in Warm /\ Touch(p)
  \/ p \in Tool /\ (Clear(p) \/ Check(p) \/ Poll(p))

Step(p) ==
  \/ Touches(p) \cap wedged = {} /\ Proceeds(p)
  \/ Touches(p) \cap wedged # {} /\ Stick(p)

Next ==
  \/ \E p \in Proc : Step(p)
  \/ \E t \in Tool : ToolStart(t)
  \/ \E c \in Client : Lose(c) \/ Wedge(c)
  \/ AutoTick \/ WarmTick
  \/ Crash

Spec == Init /\ [][Next]_vars

\* A goroutine writes to a server, and nothing limits how long that takes if
\* the server does not read: neither the write of a Call nor a notification
\* has a deadline (session_client.go:401, client.go:428-433).  In stdio mode
\* connecting writes, too (initialize and initialized).
MayBlock(p) ==
  \/ pc[p] = "wait"
  \/ pc[p] = "connect" /\ mode = "stdio"

(***************************************************************************)
(* Goroutines are scheduled, and dialling has a time limit.  Nothing is    *)
(* assumed of the server, not even that it reads what is written to it,    *)
(* nor of the clock or of the user.                                        *)
(***************************************************************************)
Fairness == \A p \in Proc : WF_vars(~MayBlock(p) /\ Step(p))

FairSpec == Spec /\ Fairness

\* The user calls lsp_connect again and again, whatever else he calls, and the
\* server reads its input: what a bad client needs in order to be replaced.
Reconnects(t) ==
  /\ pc[t] = "idle" /\ pc[Main] = "done"
  /\ Goto(t, "lookup")
  /\ UNCHANGED <<fixed, clients, throttle, warmup, mine>>

PersistentSpec ==
  /\ FairSpec
  /\ \A p \in Proc : WF_vars(Step(p))
  /\ \A t \in Tool : SF_vars(Reconnects(t))

-----------------------------------------------------------------------------
(* Properties. *)

\* As long as no two goroutines replace the client at the same time, every
\* connected client can be reached: it is in b.clients, or about to be put
\* there.  Whatever sequence of lost connections, recreations and
\* lsp_disconnect came before, none was dropped without being closed.
NoLeakAlone ==
  ~overlapped =>
    \A c \in Client :
      client[c] \in {"up", "suspect"} =>
        \/ entry["server"] = c
        \/ \E p \in Proc : pc[p] = "store" /\ mine[p] = c

\* In session mode the adapter is listed under the language and under the
\* server's name.  Unless two goroutines replace it at once both entries name
\* the same adapter, so that the readiness checks, which look at all entries,
\* never judge by one that nobody uses any more.
KeysAgree ==
  ~overlapped /\ mode = "session" /\ Changing = {} =>
    entry["language"] = entry["server"]

\* AutoConnect-connect, its throttle and the gates of concurrent tools start one
\* warm-up at a time, and none after one has finished.
OneWarmup ==
  /\ Cardinality({w \in Warm : pc[w] # "off"}) = IF warmRunning THEN 1 ELSE 0
  /\ ~(warmRunning /\ warmDone)

\* Every tool call returns, and every background goroutine ends, unless the
\* process crashes, or a write of this goroutine to the server blocks for ever,
\* or it got to a client that is wedged.
Hangs(p) == MayBlock(p) \/ pc[p] = "stuck"


BackgroundEnds ==
  \A p \in AutoConnect \cup Warm :
    pc[p] # "off" ~> (pc[p] = "off" \/ crashed \/ []Hangs(p))

\* bridge.go:362: a client that is in error state is recreated, so that it
\* does not poison the readiness checks for ever.
Recreated ==
  \A c \in Client :
    entry["server"] = c /\ client[c] = "failed"
      ~> (entry["server"] # c \/ crashed)

=============================================================================
