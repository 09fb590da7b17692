------------------------------ MODULE LspProxy ------------------------------
(***************************************************************************)
(* cmd/lsp-proxy/main.go: one language server behind a TCP port.  Every    *)
(* client has a goroutine that forwards what it reads to the server; one   *)
(* goroutine reads the server and writes each message to the client that   *)
(* connected last.  The answer to the first initialize request is kept and *)
(* given to the later ones.                                                *)
(*                                                                         *)
(* A client numbers its requests from 1; the first one is initialize.  The *)
(* server answers in any order, and refuses every initialize request but   *)
(* the first.  A client's write and the proxy's read of it are one step.   *)
(***************************************************************************)
EXTENDS Naturals, Sequences

CONSTANTS
  Client,       \* connections
  Nobody,       \* nil
  MaxSends      \* bound of the model: requests of a client

ASSUME ProxyConstants == Nobody \notin Client /\ MaxSends \in Nat \ {0}

VARIABLES
  conn,         \* the goroutine of each client
  sent,         \* how many requests the proxy has read from each client
  toServer,     \* the server's stdin
  working,      \* requests the server has read and not answered
  fromServer,   \* the server's stdout
  inHand,       \* the message that readResponses has read
  responder,    \* where readResponses is: "read", "forward"
  activeClient,
  initialized,  \* p.initialized, with p.initializeResp
  answered,     \* what was written to each client's connection
  opened,       \* the server has accepted an initialize request
  alone         \* history: clients that have had the proxy to themselves

proxyVars == <<conn, sent, toServer, working, fromServer, inHand, responder,
               activeClient, initialized, answered, opened, alone>>

Request == [from : Client, num : 1 .. MaxSends]

Answer == [from : Client, num : 1 .. MaxSends,
           body : {"result", "capabilities", "refused"}]

ProxyTypeOK ==
  /\ conn \in [Client -> {"new", "read", "forward", "closed"}]
  /\ sent \in [Client -> 0 .. MaxSends]
  /\ toServer \in Seq(Request) /\ working \subseteq Answer
  /\ fromServer \in Seq(Answer) /\ inHand \in Seq(Answer)
  /\ responder \in {"read", "forward"}
  /\ Len(inHand) = (IF responder = "forward" THEN 1 ELSE 0)
  /\ activeClient \in Client \cup {Nobody}
  /\ initialized \in BOOLEAN /\ opened \in BOOLEAN
  /\ answered \in [Client -> Seq(Answer)]
  /\ alone \subseteq Client

ProxyInit ==
  /\ conn = [c \in Client |-> "new"] /\ sent = [c \in Client |-> 0]
  /\ toServer = << >> /\ working = {} /\ fromServer = << >>
  /\ inHand = << >> /\ responder = "read"
  /\ activeClient = Nobody /\ initialized = FALSE
  /\ answered = [c \in Client |-> << >>]
  /\ opened = FALSE /\ alone = {}

-----------------------------------------------------------------------------
(* HandleClient. *)

\* A request that somebody has sent is on its way to an answer.
UnderWay ==
  \/ toServer # << >> \/ working # {} \/ fromServer # << >> \/ inHand # << >>
  \/ \E c \in Client : conn[c] = "forward"

\* The latest client is the active one, whoever is connected already.
Accept(c) ==
  /\ conn[c] = "new"
  /\ conn' = [conn EXCEPT ![c] = "read"]
  /\ activeClient' = c
  /\ alone' = IF UnderWay THEN {} ELSE {c}
  /\ UNCHANGED <<sent, toServer, working, fromServer, inHand, responder,
                 initialized, answered, opened>>

\* An initialize request is answered from the cache once there is one, with
\* the number of this request; any other request is to be forwarded.
ReadRequest(c) ==
  /\ conn[c] = "read" /\ sent[c] < MaxSends
  /\ sent' = [sent EXCEPT ![c] = @ + 1]
  /\ IF sent'[c] = 1 /\ initialized
     THEN /\ answered' = [answered EXCEPT ![c] = Append(@,
                            [from |-> c, num |-> 1, body |-> "capabilities"])]
          /\ UNCHANGED conn
     ELSE conn' = [conn EXCEPT ![c] = "forward"] /\ UNCHANGED answered
  /\ alone' = alone \cap {c}
  /\ UNCHANGED <<toServer, working, fromServer, inHand, responder,
                 activeClient, initialized, opened>>

Forward(c) ==
  /\ conn[c] = "forward"
  /\ conn' = [conn EXCEPT ![c] = "read"]
  /\ toServer' = Append(toServer, [from |-> c, num |-> sent[c]])
  /\ UNCHANGED <<sent, working, fromServer, inHand, responder, activeClient,
                 initialized, answered, opened, alone>>

\* Mutant: a client that leaves clears the active client, whoever it is.
HangupClears(c) ==
  /\ conn[c] = "read"
  /\ conn' = [conn EXCEPT ![c] = "closed"]
  /\ activeClient' = Nobody
  /\ UNCHANGED <<sent, toServer, working, fromServer, inHand, responder,
                 initialized, answered, opened, alone>>

Hangup(c) ==
  /\ conn[c] = "read"
  /\ conn' = [conn EXCEPT ![c] = "closed"]
  /\ activeClient' = IF activeClient = c THEN Nobody ELSE activeClient
  /\ UNCHANGED <<sent, toServer, working, fromServer, inHand, responder,
                 initialized, answered, opened, alone>>

-----------------------------------------------------------------------------
(* The language server. *)

ServerReads ==
  /\ toServer # << >>
  /\ toServer' = Tail(toServer)
  /\ LET r    == Head(toServer)
         body == IF r.num > 1 THEN "result"
                 ELSE IF opened THEN "refused" ELSE "capabilities"
     IN  /\ working' = working \cup {[from |-> r.from, num |-> r.num,
                                      body |-> body]}
         /\ opened' = (opened \/ r.num = 1)
  /\ UNCHANGED <<conn, sent, fromServer, inHand, responder, activeClient,
                 initialized, answered, alone>>

ServerAnswers(a) ==
  /\ a \in working
  /\ working' = working \ {a}
  /\ fromServer' = Append(fromServer, a)
  /\ UNCHANGED <<conn, sent, toServer, inHand, responder, activeClient,
                 initialized, answered, opened, alone>>

-----------------------------------------------------------------------------
(* readResponses. *)

\* cacheInitializeResponseIfNeeded: the first answer with capabilities.
ReadAnswer ==
  /\ responder = "read" /\ fromServer # << >>
  /\ fromServer' = Tail(fromServer) /\ inHand' = <<Head(fromServer)>>
  /\ responder' = "forward"
  /\ initialized' = (initialized \/ Head(fromServer).body = "capabilities")
  /\ UNCHANGED <<conn, sent, toServer, working, activeClient, answered,
                 opened, alone>>

\* Without an active client the message is dropped.
Deliver ==
  /\ responder = "forward"
  /\ responder' = "read" /\ inHand' = << >>
  /\ answered' = [c \in Client |->
                    IF c = activeClient THEN Append(answered[c], inHand[1])
                                        ELSE answered[c]]
  /\ UNCHANGED <<conn, sent, toServer, working, fromServer, activeClient,
                 initialized, opened, alone>>

ProxyNext ==
  \/ \E c \in Client : Accept(c) \/ ReadRequest(c) \/ Forward(c) \/ Hangup(c)
  \/ ServerReads
  \/ \E a \in working : ServerAnswers(a)
  \/ ReadAnswer \/ Deliver

ProxySpec == ProxyInit /\ [][ProxyNext]_proxyVars

-----------------------------------------------------------------------------
(* Properties. *)

\* Where the answer to request n of client c can be.
Pending(c, n) ==
  \/ conn[c] = "forward" /\ n = sent[c]
  \/ \E i \in 1 .. Len(toServer) : toServer[i] = [from |-> c, num |-> n]
  \/ \E a \in working : a.from = c /\ a.num = n
  \/ \E i \in 1 .. Len(fromServer) : fromServer[i].from = c /\ fromServer[i].num = n
  \/ responder = "forward" /\ inHand[1].from = c /\ inHand[1].num = n

\* activeClient and initialized: a client that found nothing under way when
\* it connected, and since then was neither followed nor disturbed by another
\* one, gets the answer to each of its requests, once, and no other messages;
\* and its initialize request is not refused, whatever became of the clients
\* before it.  (With another client at work answers go to the one that
\* connected last, whoever asked, and two can race to be the first to send
\* initialize.)
ProxyServesAlone ==
  \A c \in alone :
    conn[c] # "closed" =>
      /\ \A i \in 1 .. Len(answered[c]) :
           /\ answered[c][i].from = c /\ answered[c][i].body # "refused"
           /\ \A j \in 1 .. i - 1 : answered[c][j].num # answered[c][i].num
      /\ \A n \in 1 .. sent[c] :
           \/ Pending(c, n)
           \/ \E i \in 1 .. Len(answered[c]) : answered[c][i].num = n

=============================================================================
