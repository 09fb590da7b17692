------------------------------ MODULE RpcCalls ------------------------------
(***************************************************************************)
(* What a request/response multiplexer promises to its callers, whatever   *)
(* connection, goroutine or process carries the messages.  Every           *)
(* invocation of Call is either refused or issued under a number of its    *)
(* own; the peer may answer any issued request; an issued invocation       *)
(* returns exactly once, with its own reply (and then the peer did answer  *)
(* it), with an error or with a timeout.                                   *)
(*                                                                         *)
(* The promise about replies is void once two goroutines have read one     *)
(* stream at the same time (`raced'): from there a reply may be anybody's. *)
(*                                                                         *)
(* SessionClient (lsp/session_client.go) implements this specification.    *)
(***************************************************************************)
EXTENDS Naturals

CONSTANT Call           \* the invocations of Call

VARIABLES
  issued,               \* how many requests have been numbered
  number,               \* number[c]: the request number of c, 0 before it
  outcome,              \* outcome[c]: how c returned, "none" until then
  answered,             \* the request numbers the peer has answered
  raced                 \* two goroutines have read one stream together

callVars == <<issued, number, outcome, answered, raced>>

Outcome == {"none", "reply", "foreign", "error", "timeout"}

CallsTypeOK ==
  /\ issued \in Nat
  /\ number \in [Call -> Nat]
  /\ outcome \in [Call -> Outcome]
  /\ answered \subseteq Nat
  /\ raced \in BOOLEAN

CallsInit ==
  /\ issued = 0
  /\ number = [c \in Call |-> 0]
  /\ outcome = [c \in Call |-> "none"]
  /\ answered = {}
  /\ raced = FALSE

Issue(c) ==
  /\ number[c] = 0 /\ outcome[c] = "none"
  /\ issued' = issued + 1
  /\ number' = [number EXCEPT ![c] = issued + 1]
  /\ UNCHANGED <<outcome, answered, raced>>

Refuse(c) ==
  /\ number[c] = 0 /\ outcome[c] = "none"
  /\ outcome' = [outcome EXCEPT ![c] = "error"]
  /\ UNCHANGED <<issued, number, answered, raced>>

Return(c) ==
  /\ number[c] # 0 /\ outcome[c] = "none"
  /\ \E o \in Outcome \ {"none"} :
       /\ o = "reply" => raced \/ number[c] \in answered
       /\ o = "foreign" => raced
       /\ outcome' = [outcome EXCEPT ![c] = o]
  /\ UNCHANGED <<issued, number, answered, raced>>

Answer ==
  /\ \E n \in 1 .. issued : answered' = answered \cup {n}
  /\ UNCHANGED <<issued, number, outcome, raced>>

Race ==
  /\ raced' = TRUE
  /\ UNCHANGED <<issued, number, outcome, answered>>

CallsNext ==
  \/ \E c \in Call : Issue(c) \/ Refuse(c) \/ Return(c)
  \/ Answer
  \/ Race

CallsSpec == CallsInit /\ [][CallsNext]_callVars

=============================================================================
