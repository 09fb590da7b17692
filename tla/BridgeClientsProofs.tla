------------------------- MODULE BridgeClientsProofs -------------------------
(***************************************************************************)
(* Theorems about BridgeClients, for any number of tools, goroutines,      *)
(* clients and documents.  The inductive invariant BridgeInv says who may  *)
(* be at work on the client of the server, and what b.clients holds while  *)
(* he is, as long as no two goroutines were at it at once.                 *)
(***************************************************************************)
EXTENDS BridgeClients, FiniteSetTheorems, TLAPS

\* TypeOK without its last conjunct.
Types ==
  /\ mode \in {"stdio", "session"}
  /\ entry \in [Key -> 0 .. MaxClients]
  /\ client \in [Client -> ClientState]
  /\ autoRecent \in BOOLEAN /\ warmRecent \in BOOLEAN
  /\ warmRunning \in BOOLEAN /\ warmDone \in BOOLEAN
  /\ touches \in 0 .. MaxTouches
  /\ pc \in [Proc -> PC]
  /\ mine \in [Proc -> 0 .. MaxClients]
  /\ ticks \in 0 .. MaxTicks
  /\ wedged \subseteq Client
  /\ crashed \in BOOLEAN /\ overlapped \in BOOLEAN

\* The clients in b.clients and in hand have been created.
Created(c) == c \in Client /\ client[c] # "none"

Holding == {"close", "closeAgain", "store", "ask", "wait"}

HandsOK ==
  /\ \A k \in Key : entry[k] # 0 => Created(entry[k])
  /\ \A p \in Proc : pc[p] \in Holding => Created(mine[p])

\* A warm-up runs just when warmRunning says so, one at a time.
WarmAlone ==
  /\ \A w \in Warm : pc[w] # "off" => warmRunning
  /\ warmRunning => (\E w \in Warm : pc[w] # "off") /\ ~warmDone
  /\ \A v, w \in Warm : pc[v] # "off" /\ pc[w] # "off" => v = w

\* In session mode a client has no errors of its own.
SessionClients ==
  mode = "session" => \A c \in Client : client[c] \in {"none", "up", "closed"}

\* One goroutine at a time is about to change b.clients ...
Alone == \A p, q \in Changing : p = q

\* ... and knows what it holds.
Live(c) == client[c] \in {"up", "suspect"}

\* lsp_disconnect has closed the client, unless it waits for a wedged one.
Emptied ==
  entry["server"] # 0 /\ Listed \cap wedged = {} => ~Live(entry["server"])

Replacing ==
  \A p \in Proc :
    /\ pc[p] = "close" => entry["server"] = mine[p]
    /\ pc[p] = "closeAgain" => entry["server"] \in {0, mine[p]}
    /\ pc[p] \in {"connect", "store"} => entry["server"] = 0
    /\ pc[p] = "clear" => Emptied

\* A connected client can be reached.
Reachable ==
  \A c \in Client : Live(c) =>
    \/ entry["server"] = c
    \/ \E p \in Proc : pc[p] = "store" /\ mine[p] = c

\* In session mode clients are closed by lsp_disconnect only, so that they are
\* not closed again, unless it does not get away from a client that is wedged;
\* and the two entries differ only while a new adapter is being stored.
UpOrWedged(c) == client[c] = "up" \/ c \in wedged

Disconnecting == \E p \in Proc : pc[p] = "clear"

SessionEntries ==
  /\ \A p \in Proc : pc[p] \notin {"close", "closeAgain"}
  /\ ~Disconnecting => \A k \in Key : entry[k] # 0 => UpOrWedged(entry[k])
  /\ \A p \in Proc : pc[p] = "store" => entry["language"] = mine[p]
  /\ (\A p \in Proc : pc[p] # "store") => entry["language"] = entry["server"]

EntriesOK ==
  /\ ~overlapped => Alone /\ Replacing /\ Reachable
  /\ ~overlapped /\ mode = "session" => SessionEntries

BridgeInv == Types /\ HandsOK /\ WarmAlone /\ SessionClients /\ EntriesOK

-----------------------------------------------------------------------------
(* Where goroutines go. *)

\* At most one goroutine is in a set whose size is at most one.
LEMMA AtMostOne ==
  ASSUME NEW S, IsFiniteSet(S), ~(Cardinality(S) > 1), NEW a \in S, NEW b \in S
  PROVE  a = b
<1>1. SUFFICES ASSUME a # b PROVE FALSE
  OBVIOUS
<1>2. IsFiniteSet({a}) /\ Cardinality({a}) = 1
  BY FS_Singleton
<1>3. IsFiniteSet({a} \cup {b}) /\ Cardinality({a} \cup {b}) = 2
  <2>1. b \notin {a}
    BY <1>1
  <2>2. IsFiniteSet({a} \cup {b})
        /\ Cardinality({a} \cup {b}) = Cardinality({a}) + 1
    BY <1>2, <2>1, FS_AddElement
  <2> QED
    BY <1>2, <2>2
<1>4. Cardinality({a} \cup {b}) <= Cardinality(S) /\ Cardinality(S) \in Nat
  <2>1. {a} \cup {b} \in SUBSET S
    OBVIOUS
  <2> QED
    BY <2>1, FS_Subset, FS_CardinalityType
<1> QED
  BY <1>3, <1>4

\* There are finitely many goroutines.
LEMMA ProcFinite ==
  ASSUME ClientConstants
  PROVE  IsFiniteSet(Proc)
<1>1. Proc = (Tool \cup AutoConnect \cup Warm) \cup {Main}
  BY DEF Proc
<1> QED
  BY <1>1, FS_AddElement DEF ClientConstants

\* What the history remembers.
LEMMA Moves ==
  ASSUME Types, ClientConstants, NEW next \in [Proc -> PC], GotoAll(next)
  PROVE  /\ pc' = next /\ overlapped' \in BOOLEAN
         /\ ~overlapped' => ~overlapped /\ Alone'
<1>1. pc' = next /\ overlapped' = (overlapped \/ Cardinality(Changing') > 1)
  BY DEF GotoAll
<1>2. overlapped' \in BOOLEAN
  BY <1>1
<1>3. IsFiniteSet(Changing')
  <2>1. Changing' \in SUBSET Proc
    BY DEF Changing
  <2> QED
    BY <2>1, ProcFinite, FS_Subset
<1>4. ASSUME ~overlapped' PROVE Alone'
  <2>1. ~(Cardinality(Changing') > 1)
    BY <1>1, <1>4
  <2> QED
    BY <1>3, <2>1, AtMostOne DEF Alone
<1> QED
  BY <1>1, <1>2, <1>4

\* A goroutine goes on.
LEMMA MovesOne ==
  ASSUME Types, ClientConstants, NEW p \in Proc, NEW l \in PC, Goto(p, l)
  PROVE  /\ pc' \in [Proc -> PC] /\ overlapped' \in BOOLEAN
         /\ \A q \in Proc : pc'[q] = IF q = p THEN l ELSE pc[q]
         /\ ~overlapped' => ~overlapped /\ Alone'
<1>1. pc \in [Proc -> PC]
  BY DEF Types
<1>2. [pc EXCEPT ![p] = l] \in [Proc -> PC]
  BY <1>1
<1>3. /\ pc' = [pc EXCEPT ![p] = l] /\ overlapped' \in BOOLEAN
      /\ ~overlapped' => ~overlapped /\ Alone'
  BY <1>2, Moves DEF Goto
<1> QED
  BY <1>1, <1>2, <1>3

\* A goroutine that starts another.
LEMMA MovesTwo ==
  ASSUME Types, ClientConstants, NEW p \in Proc, NEW l \in PC,
         NEW a \in Proc, a # p, GotoAll([pc EXCEPT ![p] = l, ![a] = "lookup"])
  PROVE  /\ pc' \in [Proc -> PC] /\ overlapped' \in BOOLEAN
         /\ \A q \in Proc : pc'[q] = IF q = p THEN l
                                     ELSE IF q = a THEN "lookup" ELSE pc[q]
         /\ ~overlapped' => ~overlapped /\ Alone'
<1>1. pc \in [Proc -> PC] /\ "lookup" \in PC
  BY DEF Types, PC, GetPC
<1> DEFINE next == [pc EXCEPT ![p] = l, ![a] = "lookup"]
<1>2. /\ next \in [Proc -> PC]
      /\ \A q \in Proc : next[q] = IF q = p THEN l
                                   ELSE IF q = a THEN "lookup" ELSE pc[q]
  BY <1>1
<1> HIDE DEF next
<1>3. /\ pc' = next /\ overlapped' \in BOOLEAN
      /\ ~overlapped' => ~overlapped /\ Alone'
  BY <1>2, Moves DEF next
<1> QED
  BY <1>2, <1>3

\* Warm-ups that neither start nor end.
LEMMA WarmKept ==
  ASSUME WarmAlone, UNCHANGED <<warmRunning, warmDone>>,
         \A w \in Warm : pc'[w] = "off" <=> pc[w] = "off"
  PROVE  WarmAlone'
BY DEF WarmAlone

\* Where a goroutine is about to change b.clients.
Replacer == {"close", "closeAgain", "connect", "store", "clear"}

\* Steps that do not touch what EntriesOK is about keep it.
LEMMA Undisturbed ==
  ASSUME Types, EntriesOK, UNCHANGED <<mode, entry>>,
         wedged \subseteq wedged',
         \A p \in Proc, l \in Replacer : pc'[p] = l <=> pc[p] = l,
         \A p \in Proc : pc[p] \in Replacer => mine'[p] = mine[p],
         \A c \in Client : Live(c)' => Live(c),
         mode = "session" => client' = client,
         ~overlapped' => ~overlapped /\ Alone'
  PROVE  EntriesOK'
<1>1. entry["server"] # 0 => entry["server"] \in Client
  BY DEF Types, Key, Client
<1>2. ASSUME ~overlapped' PROVE Replacing'
  <2>1. ASSUME NEW p \in Proc
        PROVE  /\ pc'[p] = "close" => entry["server"] = mine'[p]
               /\ pc'[p] = "closeAgain" => entry["server"] \in {0, mine'[p]}
               /\ pc'[p] \in {"connect", "store"} => entry["server"] = 0
    BY <1>2 DEF EntriesOK, Replacing, Replacer
  <2>2. ASSUME NEW p \in Proc, pc'[p] = "clear", entry["server"] # 0,
               (Listed \cap wedged)' = {}
        PROVE  ~Live(entry["server"])'
    <3>1. ~Live(entry["server"])
      <4>1. Listed \cap wedged = {}
        BY <2>2 DEF Listed
      <4> QED
        BY <1>2, <2>2, <4>1 DEF EntriesOK, Replacing, Emptied, Replacer
    <3>2. PICK c \in Client : c = entry["server"]
      BY <1>1, <2>2
    <3>3. ~Live(c)'
      BY <3>1, <3>2
    <3> QED
      BY <3>2, <3>3 DEF Live
  <2> QED
    BY <2>1, <2>2 DEF Replacing, Emptied
<1>3. ASSUME ~overlapped' PROVE Reachable'
  <2>1. ASSUME NEW c \in Client, Live(c)'
        PROVE  \/ entry["server"] = c
               \/ \E p \in Proc : pc'[p] = "store" /\ mine'[p] = c
    BY <1>3, <2>1 DEF EntriesOK, Reachable, Replacer
  <2> QED
    BY <2>1 DEF Reachable
<1>4. ASSUME ~overlapped', mode = "session" PROVE SessionEntries'
  <2>1. SessionEntries
    BY <1>4 DEF EntriesOK
  <2>2. \A p \in Proc : /\ pc'[p] = "close" <=> pc[p] = "close"
                        /\ pc'[p] = "closeAgain" <=> pc[p] = "closeAgain"
                        /\ pc'[p] = "store" <=> pc[p] = "store"
                        /\ pc'[p] = "clear" <=> pc[p] = "clear"
                        /\ pc[p] = "store" => mine'[p] = mine[p]
    BY DEF Replacer
  <2>3. client' = client
    BY <1>4
  <2>4. Disconnecting' <=> Disconnecting
    BY <2>2 DEF Disconnecting
  <2>5. \A c : UpOrWedged(c) => UpOrWedged(c)'
    BY <2>3 DEF UpOrWedged
  <2> QED
    BY <2>1, <2>2, <2>4, <2>5 DEF SessionEntries
<1> QED
  BY <1>2, <1>3, <1>4 DEF EntriesOK

\* Clients stay created, and what is stored or taken in hand has been.
LEMMA HandsKept ==
  ASSUME Types, HandsOK,
         \A c \in Client : client[c] # "none" => client'[c] # "none",
         \A k \in Key : \/ entry'[k] \in {0, entry[k]}
                        \/ entry'[k] \in Client /\ client'[entry'[k]] # "none",
         \A p \in Proc : pc'[p] \in Holding =>
           \/ pc[p] \in Holding /\ mine'[p] = mine[p]
           \/ mine'[p] \in Client /\ client'[mine'[p]] # "none"
  PROVE  HandsOK'
<1>1. ASSUME NEW k \in Key, entry'[k] # 0
      PROVE  entry'[k] \in Client /\ client'[entry'[k]] # "none"
  BY <1>1 DEF HandsOK, Created
<1>2. ASSUME NEW p \in Proc, pc'[p] \in Holding
      PROVE  mine'[p] \in Client /\ client'[mine'[p]] # "none"
  BY <1>2 DEF HandsOK, Created
<1> QED
  BY <1>1, <1>2 DEF HandsOK, Created

\* A request and a failed GetClientForLanguage do not lead into another one.
LEMMA GotBack ==
  ASSUME NEW p \in Proc, ClientConstants
  PROVE  /\ Got(p) \in {"hook", "warmup", "ask", "touch"}
         /\ Back(p) \in {"hook", "warmup", "idle", "touch"}
         /\ Got(p) \in PC /\ Back(p) \in PC
<1>1. Got(p) \in {"hook", "warmup", "ask", "touch"}
  BY DEF Got, Proc, ClientConstants
<1>2. Back(p) \in {"hook", "warmup", "idle", "touch"}
  BY DEF Back, Proc, ClientConstants
<1> QED
  BY <1>1, <1>2 DEF PC

\* The goroutine that was about to change b.clients gives up.
LEMMA GivesUp ==
  ASSUME Types, EntriesOK, UNCHANGED <<mode, entry, client, wedged>>,
         NEW p \in Proc, pc[p] \in {"close", "closeAgain", "connect"},
         pc'[p] \notin Replacer, \A q \in Proc : q # p => pc'[q] = pc[q],
         \A q \in Proc : q # p => mine'[q] = mine[q],
         ~overlapped' => ~overlapped /\ Alone'
  PROVE  EntriesOK'
<1>1. ASSUME ~overlapped'
      PROVE  /\ \A q \in Proc : q # p => pc[q] \notin Replacer
             /\ \A q \in Proc : pc'[q] \notin Replacer
  BY <1>1 DEF EntriesOK, Alone, Changing, Replacer, GetPC
<1>2. ASSUME ~overlapped' PROVE Replacing'
  BY <1>1, <1>2 DEF Replacing, Replacer
<1>3. ASSUME ~overlapped' PROVE Reachable'
  <2>1. ASSUME NEW c \in Client, Live(c)' PROVE entry["server"] = c
    <3>1. Live(c)
      BY <2>1 DEF Live
    <3> QED
      BY <1>1, <1>3, <3>1 DEF EntriesOK, Reachable, Replacer
  <2> QED
    BY <2>1 DEF Reachable
<1>4. ASSUME ~overlapped', mode = "session" PROVE SessionEntries'
  <2>1. SessionEntries /\ ~Disconnecting /\ \A q \in Proc : pc[q] # "store"
    BY <1>1, <1>4 DEF EntriesOK, Disconnecting, Replacer
  <2>2. /\ \A q \in Proc : pc'[q] \notin {"close", "closeAgain", "store"}
        /\ \A k \in Key : entry[k] # 0 => UpOrWedged(entry[k])'
        /\ entry["language"] = entry["server"]
    BY <1>1, <1>4, <2>1 DEF SessionEntries, Replacer, UpOrWedged
  <2> QED
    BY <2>2 DEF SessionEntries
<1> QED
  BY <1>2, <1>3, <1>4 DEF EntriesOK

-----------------------------------------------------------------------------
(* GetClientForLanguage. *)

\* The client is looked up.
LEMMA LookupStep ==
  ASSUME BridgeInv, ClientConstants, NEW p \in Proc, Lookup(p),
         entry["server"] \notin wedged
  PROVE  BridgeInv'
<1> USE DEF fixed, clients, throttle, warmup
<1>1. /\ Types /\ HandsOK /\ WarmAlone /\ SessionClients /\ EntriesOK
      /\ pc[p] = "lookup"
      /\ UNCHANGED <<mode, wedged, crashed, entry, client, autoRecent, warmRecent, ticks,
                     warmRunning, warmDone, touches>>
  BY DEF BridgeInv, Lookup
<1>2. PICK c : c = entry["server"]
  OBVIOUS
<1>3. c \in 0 .. MaxClients /\ mine \in [Proc -> 0 .. MaxClients]
      /\ (c # 0 => c \in Client /\ client[c] # "none")
  BY <1>1, <1>2 DEF Types, HandsOK, Created, Key
<1>4. PICK l \in PC :
        /\ Goto(p, l) /\ mine' \in [Proc -> 0 .. MaxClients]
        /\ \A q \in Proc : q # p => mine'[q] = mine[q]
        /\ \/ l = "connect" /\ c = 0
           \/ l = "close" /\ c # 0 /\ mine'[p] = c /\ Unhealthy(c)
           \/ l = "closeAgain" /\ c # 0 /\ mine'[p] = c /\ client[c] = "closed"
           \/ /\ l = Got(p) /\ (l = "ask" => c # 0 /\ mine'[p] = c)
  <2>1. Got(p) \in PC /\ {"connect", "close", "closeAgain"} \subseteq PC
    BY GotBack DEF PC, GetPC
  <2>2. CASE c = 0 /\ Goto(p, "connect") /\ UNCHANGED mine
    BY <1>3, <2>1, <2>2
  <2>3. CASE c # 0 /\ Unhealthy(c) /\ Goto(p, "close") /\ Hold(p, c)
    BY <1>3, <2>1, <2>3 DEF Hold
  <2>4. CASE /\ c # 0 /\ ~Unhealthy(c) /\ client[c] = "closed"
             /\ Goto(p, "closeAgain") /\ Hold(p, c)
    BY <1>3, <2>1, <2>4 DEF Hold
  <2>5. CASE /\ c # 0 /\ ~Unhealthy(c) /\ client[c] # "closed"
             /\ Goto(p, Got(p)) /\ Hold(p, IF Got(p) = "ask" THEN c ELSE 0)
    <3>1. /\ mine' \in [Proc -> 0 .. MaxClients]
          /\ \A q \in Proc : q # p => mine'[q] = mine[q]
          /\ Got(p) = "ask" => mine'[p] = c
      BY <1>3, <2>5 DEF Hold
    <3> QED
      BY <2>1, <2>5, <3>1
  <2> QED
    BY <1>2, <2>2, <2>3, <2>4, <2>5 DEF Lookup
<1>5. /\ pc' \in [Proc -> PC] /\ overlapped' \in BOOLEAN
      /\ \A q \in Proc : pc'[q] = IF q = p THEN l ELSE pc[q]
      /\ ~overlapped' => ~overlapped /\ Alone'
  BY <1>1, <1>4, MovesOne
<1>6. Got(p) \in {"hook", "warmup", "ask", "touch"}
  BY GotBack
<1>7. Types'
  BY <1>1, <1>4, <1>5 DEF Types
<1>8. HandsOK'
  <2>1. \A q \in Proc : pc'[q] \in Holding =>
          \/ pc[q] \in Holding /\ mine'[q] = mine[q]
          \/ mine'[q] \in Client /\ client'[mine'[q]] # "none"
    BY <1>1, <1>3, <1>4, <1>5, <1>6 DEF Holding
  <2> QED
    BY <1>1, <2>1, HandsKept
<1>9. WarmAlone'
  BY <1>1, <1>4, <1>5, <1>6, WarmKept DEF Proc
<1>10. SessionClients'
  BY <1>1 DEF SessionClients
<1>11. EntriesOK'
  <2>1. CASE l = Got(p)
    <3>1. \A q \in Proc, w \in Replacer : pc'[q] = w <=> pc[q] = w
      BY <1>1, <1>5, <1>6, <2>1 DEF Replacer
    <3>2. \A q \in Proc : pc[q] \in Replacer => mine'[q] = mine[q]
      BY <1>1, <1>4 DEF Replacer
    <3>3. \A d \in Client : Live(d)' => Live(d)
      BY <1>1 DEF Live
    <3> QED
      BY <1>1, <1>5, <3>1, <3>2, <3>3, Undisturbed
  <2>2. CASE l # Got(p)
    <3>1. ASSUME ~overlapped'
          PROVE  \A q \in Proc : q # p => pc'[q] \notin Replacer /\ pc[q] \notin Replacer
      BY <1>4, <1>5, <2>2, <3>1 DEF Alone, Changing, Replacer, GetPC
    <3>2. ASSUME ~overlapped' PROVE Replacing'
      BY <1>1, <1>2, <1>4, <1>5, <2>2, <3>1, <3>2 DEF Replacing, Replacer
    <3>3. ASSUME ~overlapped' PROVE Reachable'
      <4>1. ASSUME NEW d \in Client, Live(d)' PROVE entry["server"] = d
        <5>1. Live(d)
          BY <1>1, <4>1 DEF Live
        <5> QED
          BY <1>1, <1>5, <3>1, <3>3, <5>1 DEF EntriesOK, Reachable, Replacer
      <4> QED
        BY <1>1, <4>1 DEF Reachable
    <3>4. ASSUME ~overlapped', mode = "session" PROVE SessionEntries'
      <4>1. /\ SessionEntries /\ ~Disconnecting
            /\ \A q \in Proc : pc[q] \notin {"close", "closeAgain", "store"}
        BY <1>1, <1>5, <3>1, <3>4 DEF EntriesOK, Disconnecting, Replacer
      <4>2. c # 0 => client[c] = "up"
        BY <1>2, <4>1 DEF SessionEntries, UpOrWedged, Key
      <4>3. l = "connect"
        BY <1>4, <2>2, <4>2 DEF Unhealthy
      <4>4. \A q \in Proc : pc'[q] \notin {"close", "closeAgain", "store"}
        BY <1>5, <4>1, <4>3
      <4>5. /\ \A k \in Key : entry[k] # 0 => UpOrWedged(entry[k])'
            /\ entry["language"] = entry["server"]
        BY <1>1, <4>1 DEF SessionEntries, UpOrWedged
      <4> QED
        BY <1>1, <4>4, <4>5 DEF SessionEntries
    <3> QED
      BY <1>1, <1>5, <3>2, <3>3, <3>4 DEF EntriesOK
  <2> QED
    BY <2>1, <2>2
<1> QED
  BY <1>7, <1>8, <1>9, <1>10, <1>11 DEF BridgeInv

\* client.Close leaves the client closed, or does nothing.
LEMMA CloseEffect ==
  ASSUME Types, NEW c \in Client, Closed(c) \/ ClosedTwice(c)
  PROVE  /\ client' \in [Client -> ClientState] /\ client'[c] = "closed"
         /\ \A d \in Client : d # c => client'[d] = client[d]
         /\ client[c] # "none"
<1>1. client \in [Client -> ClientState]
  BY DEF Types
<1> QED
  BY <1>1 DEF Closed, ClosedTwice, Becomes, ClientState

\* A client is closed and removed, or its closing fails.
LEMMA ClosesStep ==
  ASSUME BridgeInv, ClientConstants, NEW p \in Proc,
         CloseUnhealthy(p) \/ CloseCancelled(p)
  PROVE  BridgeInv'
<1> USE DEF fixed, throttle, warmup
<1>1. /\ Types /\ HandsOK /\ WarmAlone /\ SessionClients /\ EntriesOK
      /\ pc[p] \in {"close", "closeAgain"}
      /\ UNCHANGED <<mode, wedged, crashed, autoRecent, warmRecent, ticks,
                     warmRunning, warmDone, touches>>
  BY DEF BridgeInv, CloseUnhealthy, CloseCancelled
<1>2. PICK c \in Client : c = mine[p] /\ client[c] # "none"
  BY <1>1 DEF HandsOK, Holding, Created
<1>3. /\ mine \in [Proc -> 0 .. MaxClients] /\ client \in [Client -> ClientState]
      /\ entry \in [Key -> 0 .. MaxClients]
  BY <1>1 DEF Types
<1>4. PICK l \in PC :
        /\ Goto(p, l) /\ mine' \in [Proc -> 0 .. MaxClients]
        /\ \A q \in Proc : q # p => mine'[q] = mine[q]
        /\ l = "closeAgain" => mine'[p] = c
        /\ \/ /\ l \in {"closeAgain", "connect"}
              /\ client' \in [Client -> ClientState] /\ client'[c] = "closed"
              /\ \A d \in Client : d # c => client'[d] = client[d]
              /\ entry' = [entry EXCEPT !["server"] = 0]
           \/ l = Back(p) /\ UNCHANGED <<client, entry>>
  <2>1. Back(p) \in PC /\ {"connect", "closeAgain"} \subseteq PC
    BY GotBack DEF PC, GetPC
  <2>2. Hold(p, 0) => /\ mine' \in [Proc -> 0 .. MaxClients]
                      /\ \A q \in Proc : q # p => mine'[q] = mine[q]
    <3>1. 0 \in 0 .. MaxClients
      BY DEF ClientConstants
    <3> QED
      BY <1>3, <3>1 DEF Hold
  <2>3. Back(p) # "closeAgain"
    BY GotBack
  <2>4. CASE /\ Closed(c) \/ ClosedTwice(c)
             /\ entry' = [entry EXCEPT !["server"] = 0]
             /\ Goto(p, "closeAgain") /\ UNCHANGED mine
    BY <1>1, <1>2, <1>3, <2>1, <2>4, CloseEffect
  <2>5. CASE /\ Closed(c) \/ ClosedTwice(c)
             /\ entry' = [entry EXCEPT !["server"] = 0]
             /\ Goto(p, "connect") /\ Hold(p, 0)
    BY <1>1, <1>2, <1>3, <2>1, <2>2, <2>5, CloseEffect
  <2>6. CASE CloseFails(c) /\ Goto(p, Back(p)) /\ Hold(p, 0) /\ UNCHANGED entry
    BY <2>1, <2>2, <2>3, <2>6 DEF CloseFails
  <2> QED
    BY <1>2, <2>4, <2>5, <2>6 DEF CloseUnhealthy, CloseCancelled
<1>5. /\ pc' \in [Proc -> PC] /\ overlapped' \in BOOLEAN
      /\ \A q \in Proc : pc'[q] = IF q = p THEN l ELSE pc[q]
      /\ ~overlapped' => ~overlapped /\ Alone'
  BY <1>1, <1>4, MovesOne
<1>6. Back(p) \in {"hook", "warmup", "idle", "touch"}
  BY GotBack
<1>7. client' \in [Client -> ClientState] /\ entry' \in [Key -> 0 .. MaxClients]
  <2>1. 0 \in 0 .. MaxClients
    BY DEF ClientConstants
  <2> QED
    BY <1>3, <1>4, <2>1
<1>8. Types'
  BY <1>1, <1>4, <1>5, <1>7 DEF Types
<1>9. HandsOK'
  <2>1. \A d \in Client : client[d] # "none" => client'[d] # "none"
    BY <1>4
  <2>2. \A k \in Key : entry'[k] \in {0, entry[k]}
    BY <1>3, <1>4 DEF Key
  <2>3. \A q \in Proc : pc'[q] \in Holding =>
          \/ pc[q] \in Holding /\ mine'[q] = mine[q]
          \/ mine'[q] \in Client /\ client'[mine'[q]] # "none"
    BY <1>2, <1>4, <1>5, <1>6, <2>1 DEF Holding
  <2> QED
    BY <1>1, <2>1, <2>2, <2>3, HandsKept
<1>10. WarmAlone'
  BY <1>1, <1>4, <1>5, <1>6, WarmKept DEF Proc
<1>11. SessionClients'
  BY <1>1, <1>4 DEF SessionClients
<1>12. EntriesOK'
  <2>1. CASE l = Back(p)
    <3>1. pc'[p] \notin Replacer /\ UNCHANGED <<client, entry>>
      BY <1>4, <1>5, <1>6, <2>1 DEF Replacer
    <3> QED
      BY <1>1, <1>4, <1>5, <3>1, GivesUp
  <2>2. CASE l # Back(p)
    <3>1. ASSUME ~overlapped'
          PROVE  /\ \A q \in Proc : q # p => pc[q] \notin Replacer
                 /\ entry["server"] \in {0, c} /\ entry'["server"] = 0
      <4>1. entry'["server"] = 0
        BY <1>3, <1>4, <2>2 DEF Key
      <4>2. Alone /\ Replacing
        BY <1>1, <1>5, <3>1 DEF EntriesOK
      <4>3. \A q \in Proc : q # p => pc[q] \notin Replacer
        BY <1>1, <4>2 DEF Alone, Changing, Replacer, GetPC
      <4>4. entry["server"] \in {0, c}
        BY <1>1, <1>2, <4>2 DEF Replacing
      <4> QED
        BY <4>1, <4>3, <4>4
    <3>2. ASSUME ~overlapped' PROVE Replacing'
      BY <1>4, <1>5, <2>2, <3>1, <3>2 DEF Replacing, Replacer
    <3>3. ASSUME ~overlapped', NEW d \in Client, Live(d)' PROVE FALSE
      <4>1. d # c /\ Live(d)
        BY <1>4, <2>2, <3>3 DEF Live
      <4>2. entry["server"] # d
        BY <3>1, <3>3, <4>1 DEF Client
      <4>3. PICK q \in Proc : pc[q] = "store" /\ mine[q] = d
        BY <1>1, <1>5, <3>3, <4>1, <4>2 DEF EntriesOK, Reachable
      <4> QED
        BY <1>1, <3>1, <3>3, <4>3 DEF Replacer
    <3>4. ~overlapped' => Reachable'
      BY <3>3 DEF Reachable
    <3>5. ~(~overlapped' /\ mode = "session")
      BY <1>1, <1>5 DEF EntriesOK, SessionEntries
    <3> QED
      BY <1>1, <1>5, <3>2, <3>4, <3>5 DEF EntriesOK
  <2> QED
    BY <2>1, <2>2
<1> QED
  BY <1>8, <1>9, <1>10, <1>11, <1>12 DEF BridgeInv

\* A client connects, or none does.
LEMMA ConnectStep ==
  ASSUME BridgeInv, ClientConstants, NEW p \in Proc, Connect(p)
  PROVE  BridgeInv'
<1> USE DEF fixed, throttle, warmup, clients
<1>1. /\ Types /\ HandsOK /\ WarmAlone /\ SessionClients /\ EntriesOK
      /\ pc[p] = "connect"
      /\ UNCHANGED <<mode, wedged, crashed, autoRecent, warmRecent, ticks,
                     warmRunning, warmDone, touches>>
  BY DEF BridgeInv, Connect
<1>2. /\ mine \in [Proc -> 0 .. MaxClients] /\ client \in [Client -> ClientState]
      /\ entry \in [Key -> 0 .. MaxClients]
  BY <1>1 DEF Types
<1>3. CASE Goto(p, Back(p)) /\ UNCHANGED <<entry, client, mine>>
  <2>1. Back(p) \in {"hook", "warmup", "idle", "touch"} /\ Back(p) \in PC
    BY GotBack
  <2>2. /\ pc' \in [Proc -> PC] /\ overlapped' \in BOOLEAN
        /\ \A q \in Proc : pc'[q] = IF q = p THEN Back(p) ELSE pc[q]
        /\ ~overlapped' => ~overlapped /\ Alone'
    BY <1>1, <1>3, <2>1, MovesOne
  <2>3. Types'
    BY <1>1, <1>3, <2>2 DEF Types
  <2>4. HandsOK'
    BY <1>3, <1>1, <2>1, <2>2, HandsKept DEF Holding
  <2>5. WarmAlone'
    BY <1>1, <2>1, <2>2, WarmKept DEF Proc
  <2>6. SessionClients'
    BY <1>1, <1>3 DEF SessionClients
  <2>7. EntriesOK'
    <3>1. pc'[p] \notin Replacer
      BY <2>1, <2>2 DEF Replacer
    <3> QED
      BY <1>1, <1>3, <2>2, <3>1, GivesUp
  <2> QED
    BY <2>3, <2>4, <2>5, <2>6, <2>7 DEF BridgeInv
<1>4. ASSUME NEW c \in Client, client[c] = "none", Becomes(c, "up"),
             entry' = IF mode = "session"
                        THEN [entry EXCEPT !["language"] = c] ELSE entry,
             Hold(p, c), Goto(p, "store")
      PROVE  BridgeInv'
  <2>1. "store" \in PC
    BY DEF PC, GetPC
  <2>2. /\ pc' \in [Proc -> PC] /\ overlapped' \in BOOLEAN
        /\ \A q \in Proc : pc'[q] = IF q = p THEN "store" ELSE pc[q]
        /\ ~overlapped' => ~overlapped /\ Alone'
    BY <1>1, <1>4, <2>1, MovesOne
  <2>3. /\ client' \in [Client -> ClientState] /\ client'[c] = "up"
        /\ \A d \in Client : d # c => client'[d] = client[d]
    BY <1>2, <1>4 DEF Becomes, ClientState
  <2>4. c \in 0 .. MaxClients /\ c # 0
    BY DEF Client
  <2>5. /\ mine' \in [Proc -> 0 .. MaxClients] /\ mine'[p] = c
        /\ \A q \in Proc : q # p => mine'[q] = mine[q]
    BY <1>2, <1>4, <2>4 DEF Hold
  <2>6. /\ entry' \in [Key -> 0 .. MaxClients] /\ entry'["server"] = entry["server"]
        /\ entry'["language"] = IF mode = "session" THEN c ELSE entry["language"]
    <3>1. CASE mode = "session"
      BY <1>2, <1>4, <2>4, <3>1 DEF Key
    <3>2. CASE mode # "session"
      BY <1>2, <1>4, <3>2
    <3> QED
      BY <3>1, <3>2
  <2>7. Types'
    BY <1>1, <2>2, <2>3, <2>5, <2>6 DEF Types
  <2>8. HandsOK'
    <3>1. \A d \in Client : client[d] # "none" => client'[d] # "none"
      BY <2>3
    <3>2. \A k \in Key : \/ entry'[k] \in {0, entry[k]}
                         \/ entry'[k] \in Client /\ client'[entry'[k]] # "none"
      BY <2>3, <2>6 DEF Key
    <3>3. \A q \in Proc : pc'[q] \in Holding =>
            \/ pc[q] \in Holding /\ mine'[q] = mine[q]
            \/ mine'[q] \in Client /\ client'[mine'[q]] # "none"
      BY <2>2, <2>3, <2>5
    <3> QED
      BY <1>1, <3>1, <3>2, <3>3, HandsKept
  <2>9. WarmAlone'
    BY <1>1, <2>2, WarmKept DEF Proc
  <2>10. SessionClients'
    BY <1>1, <2>3 DEF SessionClients
  <2>11. ASSUME ~overlapped'
         PROVE  /\ \A q \in Proc : q # p => pc[q] \notin Replacer
                /\ entry["server"] = 0
    <3>1. Alone /\ Replacing
      BY <1>1, <2>2, <2>11 DEF EntriesOK
    <3> QED
      BY <1>1, <3>1 DEF Alone, Replacing, Changing, Replacer, GetPC
  <2>12. ASSUME ~overlapped' PROVE Replacing'
    BY <2>2, <2>6, <2>11, <2>12 DEF Replacing, Replacer
  <2>13. ASSUME ~overlapped', NEW d \in Client, Live(d)' PROVE d = c
    <3>1. ASSUME d # c PROVE FALSE
      <4>1. Live(d) /\ d # 0
        BY <2>3, <2>13, <3>1 DEF Live, Client
      <4>2. PICK q \in Proc : pc[q] = "store" /\ mine[q] = d
        BY <1>1, <2>2, <2>11, <2>13, <4>1 DEF EntriesOK, Reachable
      <4> QED
        BY <1>1, <2>11, <2>13, <4>2 DEF Replacer
    <3> QED
      BY <3>1
  <2>14. ~overlapped' => Reachable'
    BY <2>2, <2>5, <2>13 DEF Reachable
  <2>15. ASSUME ~overlapped', mode = "session" PROVE SessionEntries'
    <3>1. \A q \in Proc : pc'[q] \notin {"close", "closeAgain"}
                          /\ (pc'[q] = "store" => q = p)
      BY <2>2, <2>11, <2>15 DEF Replacer
    <3>2. \A k \in Key : entry'[k] # 0 => client'[entry'[k]] = "up"
      BY <2>3, <2>6, <2>11, <2>15 DEF Key
    <3>3. pc'[p] = "store" /\ entry'["language"] = mine'[p]
      BY <2>2, <2>5, <2>6, <2>15
    <3> QED
      BY <3>1, <3>2, <3>3 DEF SessionEntries, UpOrWedged
  <2>16. EntriesOK'
    BY <1>1, <2>2, <2>12, <2>14, <2>15 DEF EntriesOK
  <2> QED
    BY <2>7, <2>8, <2>9, <2>10, <2>16 DEF BridgeInv
<1> QED
  BY <1>3, <1>4 DEF Connect

\* The new client is stored under the name of the server.
LEMMA StoreStep ==
  ASSUME BridgeInv, ClientConstants, NEW p \in Proc, Store(p)
  PROVE  BridgeInv'
<1> USE DEF fixed, throttle, warmup
<1>1. /\ Types /\ HandsOK /\ WarmAlone /\ SessionClients /\ EntriesOK
      /\ pc[p] = "store"
      /\ UNCHANGED <<mode, wedged, crashed, client, autoRecent, warmRecent, ticks,
                     warmRunning, warmDone, touches>>
  BY DEF BridgeInv, Store
<1>2. /\ mine \in [Proc -> 0 .. MaxClients] /\ client \in [Client -> ClientState]
      /\ entry \in [Key -> 0 .. MaxClients]
  BY <1>1 DEF Types
<1>3. PICK c \in Client : c = mine[p] /\ client[c] # "none"
  BY <1>1 DEF HandsOK, Holding, Created
<1>4. /\ Goto(p, Got(p)) /\ mine' \in [Proc -> 0 .. MaxClients]
      /\ \A q \in Proc : q # p => mine'[q] = mine[q]
      /\ Got(p) = "ask" => mine'[p] = c
  <2>1. 0 \in 0 .. MaxClients /\ c \in 0 .. MaxClients
    BY DEF ClientConstants, Client
  <2>2. Goto(p, Got(p)) /\ Hold(p, IF Got(p) = "ask" THEN mine[p] ELSE 0)
    BY DEF Store
  <2> QED
    BY <1>2, <1>3, <2>1, <2>2 DEF Hold
<1>5. Got(p) \in {"hook", "warmup", "ask", "touch"} /\ Got(p) \in PC
  BY GotBack
<1>6. /\ pc' \in [Proc -> PC] /\ overlapped' \in BOOLEAN
      /\ \A q \in Proc : pc'[q] = IF q = p THEN Got(p) ELSE pc[q]
      /\ ~overlapped' => ~overlapped /\ Alone'
  BY <1>1, <1>4, <1>5, MovesOne
<1>7. /\ entry' \in [Key -> 0 .. MaxClients] /\ entry'["server"] = c
      /\ entry'["language"] = entry["language"]
  <2>1. entry' = [entry EXCEPT !["server"] = c] /\ c \in 0 .. MaxClients
    BY <1>3 DEF Store, Client
  <2> QED
    BY <1>2, <2>1 DEF Key
<1>8. Types'
  BY <1>1, <1>4, <1>6, <1>7 DEF Types
<1>9. HandsOK'
  <2>1. \A k \in Key : \/ entry'[k] \in {0, entry[k]}
                       \/ entry'[k] \in Client /\ client'[entry'[k]] # "none"
    BY <1>1, <1>3, <1>7 DEF Key
  <2>2. \A q \in Proc : pc'[q] \in Holding =>
          \/ pc[q] \in Holding /\ mine'[q] = mine[q]
          \/ mine'[q] \in Client /\ client'[mine'[q]] # "none"
    BY <1>1, <1>3, <1>4, <1>5, <1>6 DEF Holding
  <2> QED
    BY <1>1, <2>1, <2>2, HandsKept
<1>10. WarmAlone'
  BY <1>1, <1>5, <1>6, WarmKept DEF Proc
<1>11. SessionClients'
  BY <1>1 DEF SessionClients
<1>12. ASSUME ~overlapped'
       PROVE  /\ \A q \in Proc : q # p => pc[q] \notin Replacer
              /\ \A q \in Proc : pc'[q] \notin Replacer
              /\ entry["server"] = 0
  <2>1. Alone /\ Replacing
    BY <1>1, <1>6, <1>12 DEF EntriesOK
  <2>2. \A q \in Proc : q # p => pc[q] \notin Replacer
    BY <1>1, <2>1 DEF Alone, Changing, Replacer, GetPC
  <2>3. \A q \in Proc : pc'[q] \notin Replacer
    BY <1>5, <1>6, <2>2 DEF Replacer
  <2> QED
    BY <1>1, <2>1, <2>2, <2>3 DEF Replacing
<1>13. ASSUME ~overlapped' PROVE Replacing'
  BY <1>12, <1>13 DEF Replacing, Replacer
<1>14. ASSUME ~overlapped', NEW d \in Client, Live(d)' PROVE entry'["server"] = d
  <2>1. Live(d) /\ d # 0
    BY <1>1, <1>14 DEF Live, Client
  <2>2. PICK q \in Proc : pc[q] = "store" /\ mine[q] = d
    BY <1>1, <1>6, <1>12, <1>14, <2>1 DEF EntriesOK, Reachable
  <2>3. q = p
    BY <1>12, <1>14, <2>2 DEF Replacer
  <2> QED
    BY <1>3, <1>7, <2>2, <2>3
<1>15. ~overlapped' => Reachable'
  BY <1>14 DEF Reachable
<1>16. ASSUME ~overlapped', mode = "session" PROVE SessionEntries'
  <2>1. SessionEntries /\ ~Disconnecting
    BY <1>1, <1>6, <1>12, <1>16 DEF EntriesOK, Disconnecting, Replacer
  <2>2. entry["language"] = c
    BY <1>1, <1>3, <2>1 DEF SessionEntries
  <2>3. c # 0 /\ UpOrWedged(c)
    BY <1>1, <1>3, <2>1, <2>2 DEF SessionEntries, Key, Client
  <2>4. \A k \in Key : entry'[k] # 0 => UpOrWedged(entry'[k])
    BY <1>7, <2>2, <2>3 DEF Key
  <2>5. \A q \in Proc : pc'[q] \notin {"close", "closeAgain", "store"}
    BY <1>12, <1>16 DEF Replacer
  <2> QED
    BY <1>1, <1>7, <2>2, <2>4, <2>5 DEF SessionEntries, UpOrWedged
<1>17. EntriesOK'
  BY <1>1, <1>6, <1>13, <1>15, <1>16 DEF EntriesOK
<1> QED
  BY <1>8, <1>9, <1>10, <1>11, <1>17 DEF BridgeInv

-----------------------------------------------------------------------------
(* Requests, and what the server does. *)

\* A request is sent or refused.
LEMMA AskStep ==
  ASSUME BridgeInv, ClientConstants, NEW p \in Proc, Ask(p)
  PROVE  BridgeInv'
<1> USE DEF fixed, throttle, warmup, clients
<1>1. /\ Types /\ HandsOK /\ WarmAlone /\ SessionClients /\ EntriesOK
      /\ pc[p] = "ask"
      /\ UNCHANGED <<mode, wedged, crashed, entry, client, autoRecent, warmRecent, ticks,
                     warmRunning, warmDone, touches>>
  BY DEF BridgeInv, Ask
<1>2. mine \in [Proc -> 0 .. MaxClients] /\ 0 \in 0 .. MaxClients
  BY <1>1 DEF Types, ClientConstants
<1>3. Back(p) \in {"hook", "warmup", "idle", "touch"} /\ Back(p) \in PC
  BY GotBack
<1>4. PICK l \in {"wait", Back(p)} :
        /\ Goto(p, l) /\ mine' \in [Proc -> 0 .. MaxClients]
        /\ \A q \in Proc : q # p => mine'[q] = mine[q]
        /\ l = "wait" => mine'[p] = mine[p]
  <2>1. CASE Goto(p, "wait") /\ UNCHANGED mine
    BY <1>2, <2>1
  <2>2. CASE Goto(p, Back(p)) /\ Hold(p, 0)
    BY <1>2, <1>3, <2>2 DEF Hold
  <2> QED
    BY <2>1, <2>2 DEF Ask
<1>5. "wait" \in PC
  BY DEF PC
<1>6. /\ pc' \in [Proc -> PC] /\ overlapped' \in BOOLEAN
      /\ \A q \in Proc : pc'[q] = IF q = p THEN l ELSE pc[q]
      /\ ~overlapped' => ~overlapped /\ Alone'
  BY <1>1, <1>3, <1>4, <1>5, MovesOne
<1>7. Types'
  BY <1>1, <1>4, <1>6 DEF Types
<1>8. HandsOK'
  <2>1. \A q \in Proc : pc'[q] \in Holding => pc[q] \in Holding /\ mine'[q] = mine[q]
    BY <1>1, <1>3, <1>4, <1>6 DEF Holding
  <2> QED
    BY <1>1, <2>1, HandsKept
<1>9. WarmAlone'
  BY <1>1, <1>3, <1>6, WarmKept DEF Proc
<1>10. SessionClients'
  BY <1>1 DEF SessionClients
<1>11. EntriesOK'
  <2>1. \A q \in Proc, w \in Replacer : pc'[q] = w <=> pc[q] = w
    BY <1>1, <1>3, <1>6 DEF Replacer
  <2>2. \A q \in Proc : pc[q] \in Replacer => mine'[q] = mine[q]
    BY <1>1, <1>4 DEF Replacer
  <2>3. \A d \in Client : Live(d)' => Live(d)
    BY <1>1 DEF Live
  <2> QED
    BY <1>1, <1>6, <2>1, <2>2, <2>3, Undisturbed
<1> QED
  BY <1>7, <1>8, <1>9, <1>10, <1>11 DEF BridgeInv

\* A request is over.
LEMMA WaitStep ==
  ASSUME BridgeInv, ClientConstants, NEW p \in Proc, Wait(p)
  PROVE  BridgeInv'
<1> USE DEF fixed, throttle, warmup
<1>1. /\ Types /\ HandsOK /\ WarmAlone /\ SessionClients /\ EntriesOK
      /\ pc[p] = "wait" /\ Goto(p, Back(p)) /\ Hold(p, 0)
      /\ UNCHANGED <<mode, wedged, crashed, entry, autoRecent, warmRecent, ticks,
                     warmRunning, warmDone, touches>>
  BY DEF BridgeInv, Wait
<1>2. /\ mine \in [Proc -> 0 .. MaxClients] /\ 0 \in 0 .. MaxClients
      /\ client \in [Client -> ClientState]
  BY <1>1 DEF Types, ClientConstants
<1>3. PICK c \in Client : c = mine[p] /\ client[c] # "none"
  BY <1>1 DEF HandsOK, Holding, Created
<1>4. /\ client' \in [Client -> ClientState]
      /\ \A d \in Client : client[d] # "none" => client'[d] # "none"
      /\ \A d \in Client : Live(d)' => Live(d)
      /\ mode = "session" => client' = client
  <2>1. CASE UNCHANGED client
    BY <1>2, <2>1 DEF Live
  <2>2. CASE client[c] = "up" /\ mode = "stdio" /\ Becomes(c, "suspect")
    BY <1>2, <2>2 DEF Live, Becomes, ClientState
  <2>3. CASE client[c] = "lost" /\ Becomes(c, "failed")
    <3>1. mode # "session"
      BY <1>1, <2>3 DEF SessionClients
    <3> QED
      BY <1>2, <2>3, <3>1 DEF Live, Becomes, ClientState
  <2> QED
    BY <1>3, <2>1, <2>2, <2>3 DEF Wait
<1>5. Back(p) \in {"hook", "warmup", "idle", "touch"} /\ Back(p) \in PC
  BY GotBack
<1>6. /\ pc' \in [Proc -> PC] /\ overlapped' \in BOOLEAN
      /\ \A q \in Proc : pc'[q] = IF q = p THEN Back(p) ELSE pc[q]
      /\ ~overlapped' => ~overlapped /\ Alone'
  BY <1>1, <1>5, MovesOne
<1>7. /\ mine' \in [Proc -> 0 .. MaxClients]
      /\ \A q \in Proc : q # p => mine'[q] = mine[q]
  BY <1>1, <1>2 DEF Hold
<1>8. Types'
  BY <1>1, <1>4, <1>6, <1>7 DEF Types
<1>9. HandsOK'
  <2>1. \A q \in Proc : pc'[q] \in Holding => pc[q] \in Holding /\ mine'[q] = mine[q]
    BY <1>5, <1>6, <1>7 DEF Holding
  <2> QED
    BY <1>1, <1>4, <2>1, HandsKept
<1>10. WarmAlone'
  BY <1>1, <1>5, <1>6, WarmKept DEF Proc
<1>11. SessionClients'
  BY <1>1, <1>4 DEF SessionClients
<1>12. EntriesOK'
  <2>1. \A q \in Proc, w \in Replacer : pc'[q] = w <=> pc[q] = w
    BY <1>1, <1>5, <1>6 DEF Replacer
  <2>2. \A q \in Proc : pc[q] \in Replacer => mine'[q] = mine[q]
    BY <1>1, <1>7 DEF Replacer
  <2> QED
    BY <1>1, <1>4, <1>6, <2>1, <2>2, Undisturbed
<1> QED
  BY <1>8, <1>9, <1>10, <1>11, <1>12 DEF BridgeInv

\* The server of a client is lost.
LEMMA LoseStep ==
  ASSUME BridgeInv, ClientConstants, NEW c \in Client, Lose(c)
  PROVE  BridgeInv'
<1> USE DEF fixed, throttle, warmup
<1>1. /\ Types /\ HandsOK /\ WarmAlone /\ SessionClients /\ EntriesOK
      /\ mode = "stdio" /\ Live(c)
      /\ Becomes(c, IF client[c] = "up" THEN "lost" ELSE "failed")
      /\ UNCHANGED <<mode, wedged, crashed, entry, autoRecent, warmRecent, ticks,
                     warmRunning, warmDone, touches, pc, mine, overlapped>>
  BY DEF BridgeInv, Lose, Live
<1>2. client \in [Client -> ClientState]
  BY <1>1 DEF Types
<1>3. /\ client' \in [Client -> ClientState]
      /\ \A d \in Client : client[d] # "none" => client'[d] # "none"
      /\ \A d \in Client : Live(d)' => Live(d)
  BY <1>1, <1>2 DEF Live, Becomes, ClientState
<1>4. Types'
  BY <1>1, <1>3 DEF Types
<1>5. HandsOK'
  BY <1>1, <1>3, HandsKept
<1>6. WarmAlone'
  BY <1>1, WarmKept
<1>7. SessionClients'
  BY <1>1 DEF SessionClients
<1>8. Alone' <=> Alone
  BY <1>1 DEF Alone, Changing
<1>9. EntriesOK'
  <2>1. ~overlapped' => ~overlapped /\ Alone'
    BY <1>1, <1>8 DEF EntriesOK
  <2> QED
    BY <1>1, <1>3, <2>1, Undisturbed
<1> QED
  BY <1>4, <1>5, <1>6, <1>7, <1>9 DEF BridgeInv

-----------------------------------------------------------------------------
(* Steps that start goroutines, wait or look, but leave b.clients alone. *)

\* A step that changes neither the clients nor who is replacing one.
LEMMA QuietStep ==
  ASSUME BridgeInv, UNCHANGED <<mode, entry, client, mine>>, Types', WarmAlone',
         wedged \subseteq wedged',
         \A p \in Proc : pc'[p] = pc[p]
                         \/ {pc[p], pc'[p]} \cap (Holding \cup Replacer) = {},
         ~overlapped' => ~overlapped /\ Alone'
  PROVE  BridgeInv'
<1>1. /\ Types /\ HandsOK /\ SessionClients /\ EntriesOK
      /\ mode' = mode /\ entry' = entry /\ client' = client /\ mine' = mine
  BY DEF BridgeInv
<1>2. ASSUME NEW p \in Proc
      PROVE  /\ pc'[p] \in Holding => pc[p] \in Holding
             /\ \A l \in Replacer : pc'[p] = l <=> pc[p] = l
  <2>1. CASE pc'[p] = pc[p]
    BY <2>1
  <2>2. CASE {pc[p], pc'[p]} \cap (Holding \cup Replacer) = {}
    BY <2>2
  <2> QED
    BY <2>1, <2>2
<1>3. HandsOK'
  BY <1>1, <1>2, HandsKept
<1>4. SessionClients'
  BY <1>1 DEF SessionClients
<1>5. EntriesOK'
  <2>1. \A c \in Client : Live(c)' => Live(c)
    BY <1>1 DEF Live
  <2> QED
    BY <1>1, <1>2, <2>1, Undisturbed
<1> QED
  BY <1>3, <1>4, <1>5 DEF BridgeInv

\* A goroutine goes on, and may have started an auto-connect.
LEMMA ConnectStarts ==
  ASSUME Types, ClientConstants, NEW p \in Proc, NEW l \in PC,
         pc[p] # "off", StartAutoConnect(p, l)
  PROVE  /\ pc' \in [Proc -> PC] /\ overlapped' \in BOOLEAN
         /\ autoRecent' \in BOOLEAN
         /\ \A q \in Proc :
              \/ pc'[q] = pc[q]
              \/ q = p /\ pc'[q] = l
              \/ q \in AutoConnect /\ pc[q] = "off" /\ pc'[q] = "lookup"
         /\ ~overlapped' => ~overlapped /\ Alone'
<1>1. CASE Goto(p, l) /\ UNCHANGED autoRecent
  <2>1. autoRecent' \in BOOLEAN
    BY <1>1 DEF Types
  <2> QED
    BY <1>1, <2>1, MovesOne
<1>2. ASSUME NEW a \in AutoConnect, autoRecent' = TRUE, pc[a] = "off",
             GotoAll([pc EXCEPT ![p] = l, ![a] = "lookup"])
      PROVE  /\ pc' \in [Proc -> PC] /\ overlapped' \in BOOLEAN
             /\ autoRecent' \in BOOLEAN
             /\ \A q \in Proc :
                  \/ pc'[q] = pc[q]
                  \/ q = p /\ pc'[q] = l
                  \/ q \in AutoConnect /\ pc[q] = "off" /\ pc'[q] = "lookup"
             /\ ~overlapped' => ~overlapped /\ Alone'
  <2>1. a \in Proc /\ a # p
    BY <1>2 DEF Proc
  <2>2. /\ pc' \in [Proc -> PC] /\ overlapped' \in BOOLEAN
        /\ \A q \in Proc : pc'[q] = IF q = p THEN l
                                    ELSE IF q = a THEN "lookup" ELSE pc[q]
        /\ ~overlapped' => ~overlapped /\ Alone'
    BY <1>2, <2>1, MovesTwo
  <2> QED
    BY <1>2, <2>2
<1> QED
  BY <1>1, <1>2 DEF StartAutoConnect

\* A goroutine goes on, and may have started a warm-up if none was running.
LEMMA WarmupStarts ==
  ASSUME Types, WarmAlone, ClientConstants, NEW p \in Proc, p \notin Warm,
         NEW l \in PC, pc[p] # "off", StartWarmup(p, l)
  PROVE  /\ pc' \in [Proc -> PC] /\ overlapped' \in BOOLEAN
         /\ warmRecent' \in BOOLEAN /\ warmRunning' \in BOOLEAN
         /\ warmDone' \in BOOLEAN /\ touches' \in 0 .. MaxTouches
         /\ WarmAlone'
         /\ \A q \in Proc :
              \/ pc'[q] = pc[q]
              \/ q = p /\ pc'[q] = l
              \/ q \in Warm /\ pc[q] = "off" /\ pc'[q] = "lookup"
         /\ ~overlapped' => ~overlapped /\ Alone'
<1>1. /\ warmRunning \in BOOLEAN /\ warmDone \in BOOLEAN /\ warmRecent \in BOOLEAN
      /\ touches \in 0 .. MaxTouches
  BY DEF Types
<1>2. warmRecent' \in BOOLEAN
  BY <1>1 DEF StartWarmup
<1>3. CASE Goto(p, l) /\ UNCHANGED <<warmRunning, warmDone, touches>>
  <2>1. /\ pc' \in [Proc -> PC] /\ overlapped' \in BOOLEAN
        /\ \A q \in Proc : pc'[q] = IF q = p THEN l ELSE pc[q]
        /\ ~overlapped' => ~overlapped /\ Alone'
    BY <1>3, MovesOne
  <2>2. WarmAlone'
    BY <1>3, <2>1, WarmKept DEF Proc
  <2>3. /\ warmRunning' \in BOOLEAN /\ warmDone' \in BOOLEAN
        /\ touches' \in 0 .. MaxTouches
    BY <1>1, <1>3
  <2> QED
    BY <1>2, <2>1, <2>2, <2>3
<1>4. ASSUME NEW w \in Warm, pc[w] = "off", ~warmDone, ~warmRunning,
             GotoAll([pc EXCEPT ![p] = l, ![w] = "lookup"]),
             warmRunning' = TRUE, touches' = 0, UNCHANGED warmDone
      PROVE  /\ pc' \in [Proc -> PC] /\ overlapped' \in BOOLEAN
             /\ warmRunning' \in BOOLEAN /\ warmDone' \in BOOLEAN
             /\ touches' \in 0 .. MaxTouches
             /\ WarmAlone'
             /\ \A q \in Proc :
                  \/ pc'[q] = pc[q]
                  \/ q = p /\ pc'[q] = l
                  \/ q \in Warm /\ pc[q] = "off" /\ pc'[q] = "lookup"
             /\ ~overlapped' => ~overlapped /\ Alone'
  <2>1. w \in Proc /\ w # p
    BY DEF Proc
  <2>2. /\ pc' \in [Proc -> PC] /\ overlapped' \in BOOLEAN
        /\ \A q \in Proc : pc'[q] = IF q = p THEN l
                                    ELSE IF q = w THEN "lookup" ELSE pc[q]
        /\ ~overlapped' => ~overlapped /\ Alone'
    BY <1>4, <2>1, MovesTwo
  <2>3. \A v \in Warm : pc'[v] # "off" <=> v = w
    BY <1>4, <2>2 DEF WarmAlone, Proc
  <2>4. WarmAlone'
    BY <1>4, <2>3 DEF WarmAlone
  <2>5. /\ warmRunning' \in BOOLEAN /\ warmDone' \in BOOLEAN
        /\ touches' \in 0 .. MaxTouches
    BY <1>1, <1>4 DEF ClientConstants
  <2> QED
    BY <1>4, <2>2, <2>4, <2>5
<1> QED
  BY <1>2, <1>3, <1>4 DEF StartWarmup, warmup

\* Main and the readiness gate, which may start an auto-connect.
LEMMA ConnectStartsQuietly ==
  ASSUME BridgeInv, ClientConstants, NEW p \in Proc,
         pc[p] \in {"hook", "check"}, NEW l \in {"done", "poll"},
         StartAutoConnect(p, l) \/ (Goto(p, l) /\ UNCHANGED autoRecent),
         UNCHANGED <<fixed, clients, warmRecent, ticks, warmup, mine>>
  PROVE  BridgeInv'
<1> USE DEF fixed, clients, warmup
<1>1. Types /\ WarmAlone
  BY DEF BridgeInv
<1>2. l \in PC /\ pc[p] # "off"
  BY DEF PC
<1>3. /\ pc' \in [Proc -> PC] /\ overlapped' \in BOOLEAN
      /\ autoRecent' \in BOOLEAN
      /\ \A q \in Proc :
           \/ pc'[q] = pc[q]
           \/ q = p /\ pc'[q] = l
           \/ q \in AutoConnect /\ pc[q] = "off" /\ pc'[q] = "lookup"
      /\ ~overlapped' => ~overlapped /\ Alone'
  <2>1. CASE StartAutoConnect(p, l)
    BY <1>1, <1>2, <2>1, ConnectStarts
  <2>2. CASE Goto(p, l) /\ UNCHANGED autoRecent
    <3>1. autoRecent' \in BOOLEAN
      BY <1>1, <2>2 DEF Types
    <3> QED
      BY <1>1, <1>2, <2>2, <3>1, MovesOne
  <2> QED
    BY <2>1, <2>2
<1>4. Types'
  BY <1>1, <1>3 DEF Types
<1>5. WarmAlone'
  <2>1. \A w \in Warm : pc'[w] = "off" <=> pc[w] = "off"
    BY <1>2, <1>3 DEF Proc, ClientConstants
  <2> QED
    BY <1>1, <2>1, WarmKept
<1>6. \A q \in Proc : pc'[q] = pc[q]
                      \/ {pc[q], pc'[q]} \cap (Holding \cup Replacer) = {}
  BY <1>3 DEF Holding, Replacer
<1> QED
  BY <1>3, <1>4, <1>5, <1>6, QuietStep

\* The end of an auto-connect and the readiness gate, which may start a warm-up.
LEMMA WarmupStartsQuietly ==
  ASSUME BridgeInv, ClientConstants, NEW p \in Proc, p \notin Warm,
         pc[p] \in {"warmup", "poll"}, NEW l \in {"off", "idle", "lookup"},
         \/ StartWarmup(p, l)
         \/ Goto(p, l) /\ UNCHANGED <<warmRecent, warmup>>,
         UNCHANGED <<fixed, clients, autoRecent, ticks, mine>>
  PROVE  BridgeInv'
<1> USE DEF fixed, clients
<1>1. Types /\ WarmAlone
  BY DEF BridgeInv
<1>2. l \in PC /\ pc[p] # "off"
  BY DEF PC, GetPC
<1>3. /\ pc' \in [Proc -> PC] /\ overlapped' \in BOOLEAN
      /\ warmRecent' \in BOOLEAN /\ warmRunning' \in BOOLEAN
      /\ warmDone' \in BOOLEAN /\ touches' \in 0 .. MaxTouches
      /\ WarmAlone'
      /\ \A q \in Proc :
           \/ pc'[q] = pc[q]
           \/ q = p /\ pc'[q] = l
           \/ q \in Warm /\ pc[q] = "off" /\ pc'[q] = "lookup"
      /\ ~overlapped' => ~overlapped /\ Alone'
  <2>1. CASE StartWarmup(p, l)
    BY <1>1, <1>2, <2>1, WarmupStarts
  <2>2. CASE Goto(p, l) /\ UNCHANGED <<warmRecent, warmup>>
    <3>1. /\ warmRecent' \in BOOLEAN /\ warmRunning' \in BOOLEAN
          /\ warmDone' \in BOOLEAN /\ touches' \in 0 .. MaxTouches
      BY <1>1, <2>2 DEF Types, warmup
    <3>2. /\ pc' \in [Proc -> PC] /\ overlapped' \in BOOLEAN
          /\ \A q \in Proc : pc'[q] = IF q = p THEN l ELSE pc[q]
          /\ ~overlapped' => ~overlapped /\ Alone'
      BY <1>1, <1>2, <2>2, MovesOne
    <3>3. WarmAlone'
      BY <1>1, <2>2, <3>2, WarmKept DEF Proc, warmup
    <3> QED
      BY <3>1, <3>2, <3>3
  <2> QED
    BY <2>1, <2>2
<1>4. Types'
  BY <1>1, <1>3 DEF Types
<1>5. \A q \in Proc : pc'[q] = pc[q]
                      \/ {pc[q], pc'[q]} \cap (Holding \cup Replacer) = {}
  BY <1>3 DEF Holding, Replacer
<1> QED
  BY <1>3, <1>4, <1>5, QuietStep

\* The warm-up touches the next document, or ends.
LEMMA TouchStep ==
  ASSUME BridgeInv, ClientConstants, NEW w \in Warm, Touch(w)
  PROVE  BridgeInv'
<1> USE DEF fixed, clients, throttle
<1>1. Types /\ WarmAlone /\ w \in Proc /\ pc[w] = "touch"
  BY DEF BridgeInv, Proc, Touch
<1>2. PICK l \in {"lookup", "off"} :
        /\ Goto(w, l) /\ touches' \in 0 .. MaxTouches
        /\ warmRunning' \in BOOLEAN /\ warmDone' \in BOOLEAN
        /\ l = "lookup" => UNCHANGED <<warmRunning, warmDone>>
        /\ l = "off" => warmRunning' = FALSE
  <2>1. CASE /\ touches < MaxTouches /\ touches' = touches + 1
             /\ Goto(w, "lookup") /\ UNCHANGED <<warmRunning, warmDone>>
    <3>1. touches' \in 0 .. MaxTouches
      BY <1>1, <2>1 DEF Types, ClientConstants
    <3>2. warmRunning' \in BOOLEAN /\ warmDone' \in BOOLEAN
      BY <1>1, <2>1 DEF Types
    <3> QED
      BY <2>1, <3>1, <3>2
  <2>2. CASE /\ warmRunning' = FALSE /\ warmDone' = TRUE
             /\ Goto(w, "off") /\ UNCHANGED touches
    <3>1. touches' \in 0 .. MaxTouches
      BY <1>1, <2>2 DEF Types
    <3> QED
      BY <2>2, <3>1
  <2> QED
    BY <2>1, <2>2 DEF Touch
<1>3. l \in PC
  BY DEF PC, GetPC
<1>4. /\ pc' \in [Proc -> PC] /\ overlapped' \in BOOLEAN
      /\ \A q \in Proc : pc'[q] = IF q = w THEN l ELSE pc[q]
      /\ ~overlapped' => ~overlapped /\ Alone'
  BY <1>1, <1>2, <1>3, MovesOne
<1>5. Types'
  BY <1>1, <1>2, <1>4 DEF Types, Touch
<1>6. WarmAlone'
  <2>1. CASE l = "lookup"
    BY <1>1, <1>2, <1>4, <2>1, WarmKept DEF Proc
  <2>2. CASE l = "off"
    <3>1. \A v \in Warm : pc'[v] = "off"
      BY <1>1, <1>4, <2>2 DEF WarmAlone, Proc
    <3> QED
      BY <1>2, <2>2, <3>1 DEF WarmAlone
  <2> QED
    BY <2>1, <2>2
<1>7. \A q \in Proc : pc'[q] = pc[q]
                      \/ {pc[q], pc'[q]} \cap (Holding \cup Replacer) = {}
  BY <1>1, <1>4 DEF Holding, Replacer
<1>8. UNCHANGED <<mode, entry, client, mine, wedged>>
  BY DEF Touch
<1> QED
  BY <1>4, <1>5, <1>6, <1>7, <1>8, QuietStep

\* Time passes.
LEMMA TickStep ==
  ASSUME BridgeInv, ClientConstants, AutoTick \/ WarmTick
  PROVE  BridgeInv'
<1>1. /\ Types /\ WarmAlone /\ EntriesOK
      /\ UNCHANGED <<mode, wedged, crashed, entry, client, warmRunning,
                     warmDone, touches, pc, mine, overlapped>>
  BY DEF BridgeInv, AutoTick, WarmTick, fixed, clients, warmup
<1>2. /\ autoRecent' \in BOOLEAN /\ warmRecent' \in BOOLEAN
      /\ ticks' \in 0 .. MaxTicks
  <2>1. CASE AutoTick
    <3>1. autoRecent' \in BOOLEAN /\ warmRecent' \in BOOLEAN
      BY <1>1, <2>1 DEF AutoTick, Types
    <3>2. ticks' \in 0 .. MaxTicks
      BY <1>1, <2>1 DEF AutoTick, Types, ClientConstants
    <3> QED
      BY <3>1, <3>2
  <2>2. CASE WarmTick
    BY <1>1, <2>2 DEF WarmTick, Types
  <2> QED
    BY <2>1, <2>2
<1>3. Types'
  BY <1>1, <1>2 DEF Types
<1>4. WarmAlone'
  BY <1>1, WarmKept
<1>5. ~overlapped' => ~overlapped /\ Alone'
  <2>1. Alone' <=> Alone
    BY <1>1 DEF Alone, Changing
  <2> QED
    BY <1>1, <2>1 DEF EntriesOK
<1> QED
  BY <1>1, <1>3, <1>4, <1>5, QuietStep

-----------------------------------------------------------------------------
(* lsp_disconnect, and a crash. *)

\* A tool starts; lsp_disconnect closes what is listed.
LEMMA ToolStartStep ==
  ASSUME BridgeInv, ClientConstants, NEW t \in Tool, ToolStart(t)
  PROVE  BridgeInv'
<1> USE DEF fixed, throttle, warmup
<1>1. /\ Types /\ HandsOK /\ WarmAlone /\ SessionClients /\ EntriesOK
      /\ t \in Proc /\ t \notin Warm /\ pc[t] = "idle"
      /\ UNCHANGED <<mode, wedged, crashed, entry, autoRecent, warmRecent, ticks,
                     warmRunning, warmDone, touches, mine>>
  BY DEF BridgeInv, ToolStart, Proc, ClientConstants
<1>2. CASE client' = client /\ \E l \in {"check", "lookup"} : Goto(t, l)
  <2>1. PICK l \in {"check", "lookup"} : Goto(t, l)
    BY <1>2
  <2>2. l \in PC
    BY DEF PC, GetPC
  <2>3. /\ pc' \in [Proc -> PC] /\ overlapped' \in BOOLEAN
        /\ \A q \in Proc : pc'[q] = IF q = t THEN l ELSE pc[q]
        /\ ~overlapped' => ~overlapped /\ Alone'
    BY <1>1, <2>1, <2>2, MovesOne
  <2>4. Types'
    BY <1>1, <1>2, <2>3 DEF Types
  <2>5. WarmAlone'
    BY <1>1, <2>3, WarmKept DEF Proc
  <2>6. \A q \in Proc : pc'[q] = pc[q]
                        \/ {pc[q], pc'[q]} \cap (Holding \cup Replacer) = {}
    BY <1>1, <2>3 DEF Holding, Replacer
  <2> QED
    BY <1>1, <1>2, <2>3, <2>4, <2>5, <2>6, QuietStep
<1>3. ASSUME NEW S \in SUBSET (Listed \ wedged),
             Listed \cap wedged = {} => S = Listed,
             client' = [c \in Client |->
                          IF c \in S /\ client[c] \in {"up", "suspect"}
                            THEN "closed" ELSE client[c]],
             Goto(t, "clear")
      PROVE  BridgeInv'
  <2>1. "clear" \in PC
    BY DEF PC
  <2>2. /\ pc' \in [Proc -> PC] /\ overlapped' \in BOOLEAN
        /\ \A q \in Proc : pc'[q] = IF q = t THEN "clear" ELSE pc[q]
        /\ ~overlapped' => ~overlapped /\ Alone'
    BY <1>1, <1>3, <2>1, MovesOne
  <2>3. /\ client' \in [Client -> ClientState]
        /\ \A c \in Client : client[c] # "none" => client'[c] # "none"
        /\ \A c \in Client : Live(c)' => Live(c) /\ c \notin S
        /\ \A c \in Client : client'[c] \in {client[c], "closed"}
    <3>1. client \in [Client -> ClientState]
      BY <1>1 DEF Types
    <3> QED
      BY <1>3, <3>1 DEF ClientState, Live
  <2>4. Types'
    BY <1>1, <2>2, <2>3 DEF Types
  <2>5. HandsOK'
    <3>1. \A q \in Proc : pc'[q] \in Holding => pc[q] \in Holding /\ mine'[q] = mine[q]
      BY <1>1, <2>2 DEF Holding
    <3> QED
      BY <1>1, <2>3, <3>1, HandsKept
  <2>6. WarmAlone'
    BY <1>1, <2>2, WarmKept DEF Proc
  <2>7. SessionClients'
    BY <1>1, <2>3 DEF SessionClients
  <2>8. ASSUME ~overlapped'
        PROVE  /\ \A q \in Proc : pc[q] \notin Replacer
               /\ \A q \in Proc : q # t => pc'[q] \notin Replacer
               /\ pc'[t] = "clear"
    BY <1>1, <2>2, <2>8 DEF Alone, Changing, Replacer, GetPC
  <2>9. ASSUME ~overlapped' PROVE Replacing'
    <3>1. ASSUME entry["server"] # 0, Listed \cap wedged = {}
          PROVE  ~Live(entry["server"])'
      <4>1. PICK c \in Client : c = entry["server"]
        BY <1>1, <3>1 DEF Types, Key, Client
      <4>2. c \in S
        BY <1>3, <3>1, <4>1 DEF Listed, Key
      <4>3. ~Live(c)'
        BY <2>3, <4>2
      <4> QED
        BY <1>1, <4>1, <4>3 DEF Live
    <3>2. Emptied'
      BY <1>1, <3>1 DEF Emptied, Listed
    <3>3. \A q \in Proc : pc'[q] \notin {"close", "closeAgain", "connect", "store"}
      BY <2>8, <2>9 DEF Replacer
    <3> QED
      BY <3>2, <3>3 DEF Replacing
  <2>10. ASSUME ~overlapped' PROVE Reachable'
    <3>1. ASSUME NEW c \in Client, Live(c)' PROVE entry'["server"] = c
      <4>1. Live(c)
        BY <2>3, <3>1
      <4> QED
        BY <1>1, <2>2, <2>8, <2>10, <4>1 DEF EntriesOK, Reachable, Replacer
    <3> QED
      BY <3>1 DEF Reachable
  <2>11. ASSUME ~overlapped', mode = "session" PROVE SessionEntries'
    <3>1. entry["language"] = entry["server"]
      BY <1>1, <2>2, <2>8, <2>11 DEF EntriesOK, SessionEntries, Replacer
    <3>2. \A q \in Proc : pc'[q] \notin {"close", "closeAgain", "store"}
      BY <2>8, <2>11 DEF Replacer
    <3>3. Disconnecting'
      BY <1>1, <2>8, <2>11 DEF Disconnecting
    <3> QED
      BY <1>1, <3>1, <3>2, <3>3 DEF SessionEntries
  <2>12. EntriesOK'
    BY <1>1, <2>2, <2>9, <2>10, <2>11 DEF EntriesOK
  <2> QED
    BY <2>4, <2>5, <2>6, <2>7, <2>12 DEF BridgeInv
<1> QED
  <2>1. CASE client' = client /\ (Goto(t, "check") \/ Goto(t, "lookup"))
    BY <1>2, <2>1
  <2>2. CASE /\ \E S \in SUBSET (Listed \ wedged) :
                  /\ Listed \cap wedged = {} => S = Listed
                  /\ client' = [c \in Client |->
                                  IF c \in S /\ client[c] \in {"up", "suspect"}
                                    THEN "closed" ELSE client[c]]
             /\ Goto(t, "clear")
    BY <1>3, <2>2
  <2> QED
    BY <2>1, <2>2 DEF ToolStart

\* lsp_disconnect removes all entries.
LEMMA ClearStep ==
  ASSUME BridgeInv, ClientConstants, NEW t \in Tool, Clear(t),
         Listed \cap wedged = {}
  PROVE  BridgeInv'
<1> USE DEF fixed, throttle, warmup
<1>1. /\ Types /\ HandsOK /\ WarmAlone /\ SessionClients /\ EntriesOK
      /\ t \in Proc /\ t \notin Warm /\ pc[t] = "clear" /\ Goto(t, "idle")
      /\ entry' = [k \in Key |-> 0]
      /\ UNCHANGED <<mode, wedged, crashed, client, autoRecent, warmRecent, ticks,
                     warmRunning, warmDone, touches, mine>>
  BY DEF BridgeInv, Clear, Proc, ClientConstants
<1>2. "idle" \in PC
  BY DEF PC
<1>3. /\ pc' \in [Proc -> PC] /\ overlapped' \in BOOLEAN
      /\ \A q \in Proc : pc'[q] = IF q = t THEN "idle" ELSE pc[q]
      /\ ~overlapped' => ~overlapped /\ Alone'
  BY <1>1, <1>2, MovesOne
<1>4. /\ entry' \in [Key -> 0 .. MaxClients]
      /\ \A k \in Key : entry'[k] = 0
  BY <1>1 DEF ClientConstants
<1>5. Types'
  BY <1>1, <1>3, <1>4 DEF Types
<1>6. HandsOK'
  <2>1. \A q \in Proc : pc'[q] \in Holding => pc[q] \in Holding /\ mine'[q] = mine[q]
    BY <1>1, <1>3 DEF Holding
  <2> QED
    BY <1>1, <1>4, <2>1, HandsKept
<1>7. WarmAlone'
  BY <1>1, <1>3, WarmKept DEF Proc
<1>8. SessionClients'
  BY <1>1 DEF SessionClients
<1>9. ASSUME ~overlapped'
      PROVE  /\ \A q \in Proc : pc'[q] \notin Replacer
             /\ \A q \in Proc : pc[q] # "store"
             /\ \A c \in Client : ~Live(c)
  <2>1. Alone /\ Replacing /\ Reachable
    BY <1>1, <1>3, <1>9 DEF EntriesOK
  <2>2. \A q \in Proc : q # t => pc[q] \notin Replacer
    BY <1>1, <2>1 DEF Alone, Changing, Replacer, GetPC
  <2>3. \A q \in Proc : pc'[q] \notin Replacer /\ pc[q] # "store"
    BY <1>1, <1>3, <2>2 DEF Replacer
  <2>4. entry["server"] # 0 => ~Live(entry["server"])
    BY <1>1, <2>1 DEF Replacing, Emptied
  <2>5. \A c \in Client : ~Live(c)
    BY <2>1, <2>3, <2>4 DEF Reachable, Client
  <2> QED
    BY <2>3, <2>5
<1>10. ASSUME ~overlapped' PROVE Replacing' /\ Reachable'
  <2>1. Replacing'
    BY <1>9, <1>10 DEF Replacing, Replacer
  <2>2. \A c \in Client : ~Live(c)'
    BY <1>1, <1>9, <1>10 DEF Live
  <2> QED
    BY <2>1, <2>2 DEF Reachable
<1>11. ASSUME ~overlapped' PROVE SessionEntries'
  <2>1. \A q \in Proc : pc'[q] \notin {"close", "closeAgain", "store"}
    BY <1>9, <1>11 DEF Replacer
  <2> QED
    BY <1>4, <2>1 DEF SessionEntries, Key
<1>12. EntriesOK'
  BY <1>3, <1>10, <1>11 DEF EntriesOK
<1> QED
  BY <1>5, <1>6, <1>7, <1>8, <1>12 DEF BridgeInv

\* The process stops, and nothing is left of it.
LEMMA CrashStep ==
  ASSUME BridgeInv, ClientConstants, Crash
  PROVE  BridgeInv'
<1>1. /\ Types /\ UNCHANGED <<mode, autoRecent, warmRecent, ticks, overlapped>>
      /\ crashed' = TRUE /\ warmRunning' = FALSE /\ warmDone' = FALSE
      /\ touches' = 0 /\ 0 \in 0 .. MaxTouches /\ 0 \in 0 .. MaxClients
      /\ wedged' = {}
  BY DEF BridgeInv, Crash, throttle, ClientConstants
<1>2. /\ pc' \in [Proc -> PC] /\ \A p \in Proc : pc'[p] = "off"
      /\ client' \in [Client -> ClientState]
      /\ \A c \in Client : client'[c] = "none"
      /\ mine' \in [Proc -> 0 .. MaxClients]
      /\ entry' \in [Key -> 0 .. MaxClients] /\ \A k \in Key : entry'[k] = 0
  BY <1>1 DEF Crash, PC, ClientState
<1>3. Types'
  BY <1>1, <1>2 DEF Types
<1>4. HandsOK'
  BY <1>2 DEF HandsOK, Holding
<1>5. WarmAlone'
  <2>1. \A w \in Warm : pc'[w] = "off"
    BY <1>2 DEF Proc
  <2> QED
    BY <1>1, <2>1 DEF WarmAlone
<1>6. SessionClients'
  BY <1>2 DEF SessionClients
<1>7. Alone' /\ Replacing' /\ Reachable' /\ SessionEntries'
  <2>1. Alone'
    BY <1>2 DEF Alone, Changing, GetPC
  <2>2. Replacing'
    BY <1>2 DEF Replacing
  <2>3. Reachable'
    BY <1>2 DEF Reachable, Live
  <2>4. SessionEntries'
    BY <1>2 DEF SessionEntries, Key
  <2> QED
    BY <2>1, <2>2, <2>3, <2>4
<1>8. EntriesOK'
  BY <1>7 DEF EntriesOK
<1> QED
  BY <1>3, <1>4, <1>5, <1>6, <1>8 DEF BridgeInv

\* A client is wedged.
LEMMA WedgeStep ==
  ASSUME BridgeInv, NEW c \in Client, Wedge(c)
  PROVE  BridgeInv'
<1>1. /\ Types /\ WarmAlone /\ EntriesOK
      /\ UNCHANGED <<mode, crashed, entry, client, autoRecent, warmRecent, ticks,
                     warmRunning, warmDone, touches, pc, mine, overlapped>>
      /\ wedged' = wedged \cup {c}
  BY DEF BridgeInv, Wedge, clients, throttle, warmup
<1>2. Types'
  BY <1>1 DEF Types
<1>3. WarmAlone'
  BY <1>1 DEF WarmAlone
<1>4. ~overlapped' => ~overlapped /\ Alone'
  BY <1>1 DEF EntriesOK, Alone, Changing
<1> QED
  BY <1>1, <1>2, <1>3, <1>4, QuietStep

\* A goroutine gets to a client that is wedged, and goes no further.
LEMMA StickStep ==
  ASSUME BridgeInv, ClientConstants, NEW p \in Proc, Stick(p),
         Touches(p) \cap wedged # {}
  PROVE  BridgeInv'
<1> USE DEF fixed, clients, throttle, warmup
<1>1. /\ Types /\ HandsOK /\ WarmAlone /\ SessionClients /\ EntriesOK
      /\ Goto(p, "stuck")
      /\ UNCHANGED <<mode, wedged, crashed, entry, client, autoRecent, warmRecent,
                     ticks, warmRunning, warmDone, touches, mine>>
  BY DEF BridgeInv, Stick
<1>2. pc[p] \in {"close", "closeAgain", "ask", "wait", "lookup", "check", "poll",
                "clear"}
  BY DEF Touches
<1>3. "stuck" \in PC
  BY DEF PC
<1>4. /\ pc' \in [Proc -> PC] /\ overlapped' \in BOOLEAN
      /\ \A q \in Proc : pc'[q] = IF q = p THEN "stuck" ELSE pc[q]
      /\ ~overlapped' => ~overlapped /\ Alone'
  BY <1>1, <1>3, MovesOne
<1>5. Types'
  BY <1>1, <1>4 DEF Types
<1>6. HandsOK'
  <2>1. \A q \in Proc : pc'[q] \in Holding => pc[q] \in Holding /\ mine'[q] = mine[q]
    BY <1>1, <1>4 DEF Holding
  <2> QED
    BY <1>1, <2>1, HandsKept
<1>7. WarmAlone'
  BY <1>1, <1>2, <1>4, WarmKept DEF Proc
<1>8. SessionClients'
  BY <1>1 DEF SessionClients
<1>9. CASE pc[p] \notin Replacer
  <2>1. \A q \in Proc, l \in Replacer : pc'[q] = l <=> pc[q] = l
    BY <1>4, <1>9 DEF Replacer
  <2>2. \A c \in Client : Live(c)' => Live(c)
    BY <1>1 DEF Live
  <2> QED
    BY <1>1, <1>4, <1>5, <1>6, <1>7, <1>8, <2>1, <2>2, Undisturbed DEF BridgeInv
<1>10. CASE pc[p] \in {"close", "closeAgain"}
  <2>1. pc'[p] \notin Replacer
    BY <1>4 DEF Replacer
  <2> QED
    BY <1>1, <1>4, <1>5, <1>6, <1>7, <1>8, <1>10, <2>1, GivesUp DEF BridgeInv
<1>11. CASE pc[p] = "clear"
  <2>1. ASSUME ~overlapped'
        PROVE  /\ \A q \in Proc : q # p => pc[q] \notin Replacer
               /\ \A q \in Proc : pc'[q] \notin Replacer
    BY <1>1, <1>4, <1>11, <2>1 DEF EntriesOK, Alone, Changing, Replacer, GetPC
  <2>2. ASSUME ~overlapped' PROVE Replacing'
    BY <2>1, <2>2 DEF Replacing, Replacer
  <2>3. ASSUME ~overlapped' PROVE Reachable'
    <3>1. ASSUME NEW c \in Client, Live(c)' PROVE entry'["server"] = c
      <4>1. Live(c)
        BY <1>1, <3>1 DEF Live
      <4> QED
        BY <1>1, <1>4, <1>11, <2>1, <2>3, <4>1 DEF EntriesOK, Reachable, Replacer
    <3> QED
      BY <3>1 DEF Reachable
  <2>4. ASSUME ~overlapped', mode = "session" PROVE SessionEntries'
    <3>1. entry["language"] = entry["server"]
      BY <1>1, <1>4, <1>11, <2>1, <2>4 DEF EntriesOK, SessionEntries, Replacer
    <3>2. \A k \in Key : entry[k] # 0 => entry[k] \in wedged
      <4>1. Listed \cap wedged # {}
        BY <1>11 DEF Touches
      <4> QED
        BY <3>1, <4>1 DEF Listed, Key
    <3>3. \A q \in Proc : pc'[q] \notin {"close", "closeAgain", "store"}
      BY <2>1, <2>4 DEF Replacer
    <3> QED
      BY <1>1, <3>1, <3>2, <3>3 DEF SessionEntries, UpOrWedged
  <2>5. EntriesOK'
    BY <1>1, <1>4, <2>2, <2>3, <2>4 DEF EntriesOK
  <2> QED
    BY <1>5, <1>6, <1>7, <1>8, <2>5 DEF BridgeInv
<1> QED
  BY <1>2, <1>9, <1>10, <1>11 DEF Replacer

-----------------------------------------------------------------------------
(* The theorems. *)

\* Every step of a goroutine that does not meet a wedged client keeps the
\* invariant.
LEMMA ProceedStep ==
  ASSUME BridgeInv, ClientConstants, NEW p \in Proc, Proceeds(p),
         Touches(p) \cap wedged = {}
  PROVE  BridgeInv'
<1> USE DEF clients, throttle
<1>1. CASE GetClient(p)
  <2>1. CASE Lookup(p)
    <3>1. entry["server"] \notin wedged
      BY <2>1 DEF Touches, Lookup
    <3> QED
      BY <2>1, <3>1, LookupStep
  <2> QED
    BY <1>1, <2>1, ClosesStep, ConnectStep, StoreStep DEF GetClient
<1>2. CASE Ask(p) \/ Wait(p)
  BY <1>2, AskStep, WaitStep
<1>3. CASE p = Main /\ Hook
  <2>1. /\ pc[p] \in {"hook", "check"} /\ StartAutoConnect(p, "done")
        /\ UNCHANGED <<fixed, clients, warmRecent, ticks, warmup, mine>>
    BY <1>3 DEF Hook
  <2> QED
    BY <2>1, ConnectStartsQuietly
<1>4. CASE p \in AutoConnect /\ AutoEnds(p)
  <2>1. /\ p \notin Warm /\ pc[p] \in {"warmup", "poll"} /\ StartWarmup(p, "off")
        /\ UNCHANGED <<fixed, clients, autoRecent, ticks, mine>>
    BY <1>4 DEF AutoEnds, ClientConstants
  <2> QED
    BY <2>1, WarmupStartsQuietly
<1>5. CASE p \in Warm /\ Touch(p)
  BY <1>5, TouchStep
<1>6. CASE p \in Tool /\ Clear(p)
  <2>1. Listed \cap wedged = {}
    BY <1>6 DEF Touches, Clear
  <2> QED
    BY <1>6, <2>1, ClearStep
<1>7. CASE p \in Tool /\ Check(p)
  <2>1. /\ pc[p] \in {"hook", "check"}
        /\ StartAutoConnect(p, "poll") \/ (Goto(p, "poll") /\ UNCHANGED autoRecent)
        /\ UNCHANGED <<fixed, clients, warmRecent, ticks, warmup, mine>>
    BY <1>7 DEF Check
  <2> QED
    BY <2>1, ConnectStartsQuietly
<1>8. CASE p \in Tool /\ Poll(p)
  <2>1. /\ p \notin Warm /\ pc[p] \in {"warmup", "poll"}
        /\ UNCHANGED <<fixed, clients, autoRecent, ticks, mine>>
    BY <1>8 DEF Poll, ClientConstants
  <2>2. \E l \in {"off", "idle", "lookup"} :
          StartWarmup(p, l) \/ (Goto(p, l) /\ UNCHANGED <<warmRecent, warmup>>)
    BY <1>8 DEF Poll
  <2> QED
    BY <2>1, <2>2, WarmupStartsQuietly
<1> QED
  BY <1>1, <1>2, <1>3, <1>4, <1>5, <1>6, <1>7, <1>8 DEF Proceeds

\* A step of a goroutine keeps the invariant.
LEMMA ProcStep ==
  ASSUME BridgeInv, ClientConstants, NEW p \in Proc, Step(p)
  PROVE  BridgeInv'
BY ProceedStep, StickStep DEF Step

\* A step that changes nothing keeps the invariant.
LEMMA StutterStep ==
  ASSUME BridgeInv, UNCHANGED vars
  PROVE  BridgeInv'
<1>1. /\ Types /\ HandsOK /\ WarmAlone /\ SessionClients /\ EntriesOK
      /\ UNCHANGED <<mode, entry, client, autoRecent, warmRecent, warmRunning,
                     warmDone, touches, pc, mine, ticks, wedged, crashed,
                     overlapped>>
  BY DEF BridgeInv, vars, fixed, clients, throttle, warmup
<1>2. Types' /\ HandsOK' /\ WarmAlone' /\ SessionClients'
  BY <1>1 DEF Types, HandsOK, Created, WarmAlone, SessionClients
<1>3. /\ Alone' <=> Alone
      /\ Replacing' <=> Replacing
      /\ Reachable' <=> Reachable
      /\ SessionEntries' <=> SessionEntries
  BY <1>1 DEF Alone, Changing, Replacing, Reachable, Live, SessionEntries,
              Disconnecting, Emptied, Listed, UpOrWedged
<1>4. EntriesOK'
  BY <1>1, <1>3 DEF EntriesOK
<1> QED
  BY <1>2, <1>4 DEF BridgeInv

\* The invariant holds at first.
LEMMA Begins ==
  ASSUME Init, ClientConstants
  PROVE  BridgeInv
<1>1. /\ \A p \in Proc : pc[p] \in {"lookup", "idle", "off"}
      /\ \A w \in Warm : pc[w] = "off"
  BY DEF Init, Proc, ClientConstants
<1>2. pc \in [Proc -> PC]
  <2>1. DOMAIN pc = Proc /\ pc = [p \in Proc |-> pc[p]]
    BY DEF Init
  <2> QED
    BY <1>1, <2>1 DEF PC, GetPC
<1>3. Types
  <2>1. 0 \in 0 .. MaxClients /\ 0 \in 0 .. MaxTouches /\ 0 \in 0 .. MaxTicks
    BY DEF ClientConstants
  <2>2. /\ mode \in {"stdio", "session"}
        /\ entry \in [Key -> 0 .. MaxClients]
        /\ mine \in [Proc -> 0 .. MaxClients]
        /\ client \in [Client -> ClientState]
    BY <2>1 DEF Init, ClientState
  <2>3. /\ touches \in 0 .. MaxTouches /\ ticks \in 0 .. MaxTicks
    BY <2>1 DEF Init
  <2>4. /\ autoRecent \in BOOLEAN /\ warmRecent \in BOOLEAN
        /\ warmRunning \in BOOLEAN /\ warmDone \in BOOLEAN
        /\ wedged \subseteq Client
        /\ crashed \in BOOLEAN /\ overlapped \in BOOLEAN
    BY DEF Init
  <2> QED
    BY <1>2, <2>2, <2>3, <2>4 DEF Types
<1>4. HandsOK
  BY <1>1 DEF Init, HandsOK, Holding
<1>5. WarmAlone
  BY <1>1 DEF Init, WarmAlone
<1>6. SessionClients
  BY DEF Init, SessionClients
<1>7. Alone /\ Replacing
  BY <1>1 DEF Alone, Changing, GetPC, Replacing
<1>8. Reachable
  BY DEF Init, Reachable, Live
<1>9. SessionEntries
  BY <1>1 DEF Init, SessionEntries, Key
<1>10. EntriesOK
  BY <1>7, <1>8, <1>9 DEF EntriesOK
<1> QED
  BY <1>3, <1>4, <1>5, <1>6, <1>10 DEF BridgeInv

\* However goroutines, tool calls, lost connections, ticks and crashes follow
\* each other, the invariant of the bridge's clients holds.
THEOREM Bridge == Spec => []BridgeInv
<1>1. ClientConstants
  BY ClientConstants
<1>2. Init => BridgeInv
  BY <1>1, Begins
<1>3. BridgeInv /\ [Next]_vars => BridgeInv'
  BY <1>1, ProcStep, ToolStartStep, LoseStep, WedgeStep, TickStep, CrashStep,
     StutterStep
     DEF Next
<1> QED
  BY <1>2, <1>3, PTL DEF Spec

\* Every variable has its type, and no goroutine closes, stores or uses a
\* client that was never created.
THEOREM BridgeTypeCorrect == Spec => []TypeOK
<1>1. BridgeInv => TypeOK
  <2> SUFFICES ASSUME BridgeInv PROVE TypeOK
    OBVIOUS
  <2>1. Types /\ HandsOK
    BY DEF BridgeInv
  <2>2. \A p \in Proc : pc[p] \in Holding => mine[p] # 0 /\ client[mine[p]] # "none"
    BY <2>1 DEF HandsOK, Created, Client
  <2> QED
    BY <2>1, <2>2 DEF Types, TypeOK, Holding
<1> QED
  BY <1>1, Bridge, PTL

\* As long as no two goroutines replace the client at the same time, a client
\* that is connected is in b.clients or about to be put there: none is dropped
\* without having been closed.
THEOREM NothingLeaksAlone == Spec => []NoLeakAlone
<1>1. BridgeInv => NoLeakAlone
  BY DEF BridgeInv, EntriesOK, Reachable, Live, NoLeakAlone
<1> QED
  BY <1>1, Bridge, PTL

\* In session mode the entry of the language and the entry of the server name
\* the same adapter whenever nobody is replacing it.
THEOREM BothKeysAgree == Spec => []KeysAgree
<1>1. BridgeInv => KeysAgree
  <2> SUFFICES ASSUME BridgeInv, ~overlapped, mode = "session", Changing = {}
               PROVE  entry["language"] = entry["server"]
    BY DEF KeysAgree
  <2>1. SessionEntries
    BY DEF BridgeInv, EntriesOK
  <2>2. \A p \in Proc : pc[p] # "store"
    BY DEF Changing, GetPC
  <2> QED
    BY <2>1, <2>2 DEF SessionEntries
<1> QED
  BY <1>1, Bridge, PTL

\* However many tools and auto-connects ask for it, one warm-up runs at a time,
\* and none after one has finished.
THEOREM OneWarmupOnly == Spec => []OneWarmup
<1>1. BridgeInv => OneWarmup
  <2> SUFFICES ASSUME BridgeInv PROVE OneWarmup
    OBVIOUS
  <2>1. WarmAlone
    BY DEF BridgeInv
  <2>2. CASE warmRunning
    <3>1. PICK w \in Warm : pc[w] # "off"
      BY <2>1, <2>2 DEF WarmAlone
    <3>2. {v \in Warm : pc[v] # "off"} = {w}
      BY <2>1, <3>1 DEF WarmAlone
    <3>3. Cardinality({w}) = 1
      BY FS_Singleton
    <3> QED
      BY <2>1, <2>2, <3>2, <3>3 DEF OneWarmup, WarmAlone
  <2>3. CASE ~warmRunning
    <3>1. {v \in Warm : pc[v] # "off"} = {}
      BY <2>1, <2>3 DEF WarmAlone
    <3>2. Cardinality({}) = 0
      BY FS_EmptySet
    <3> QED
      BY <2>3, <3>1, <3>2 DEF OneWarmup
  <2> QED
    BY <2>2, <2>3
<1> QED
  BY <1>1, Bridge, PTL

=============================================================================
