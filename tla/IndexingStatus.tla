--------------------------- MODULE IndexingStatus ---------------------------
(***************************************************************************)
(* Progress of the language server as those who read its messages see it:  *)
(* the session manager (handleNotification and getStatus of                *)
(* cmd/lsp-session-manager/main.go), or the client of a direct connection  *)
(* (lsp/handler.go with the tracker of lsp/progress.go).  Either handles   *)
(* one message after the other.                                            *)
(*                                                                         *)
(* The server runs one operation per token.  A polite server asks first    *)
(* for the token to be created and waits for the reply; others do not.     *)
(* Integer tokens, which the manager cannot decode, are left out.          *)
(***************************************************************************)
EXTENDS Naturals, Sequences

CONSTANTS
  Token,
  FileCount,    \* files that an operation goes through
  MaxStarts,    \* bound of the model: operations
  MaxInStream   \* bound of the model: messages not yet read

ASSUME ProgressConstants ==
  FileCount \in Nat \ {0} /\ MaxStarts \in Nat /\ MaxInStream \in Nat \ {0}

VARIABLES
  reader,       \* who reads: "manager", "client"
  polite,       \* the server asks for tokens to be created
  asked,        \* tokens that it has asked for
  created,      \* tokens that it has a reply for
  running,      \* operations that have begun and not ended
  starts,       \* how many have begun
  stream,       \* the server's messages
  cycle,        \* the manager's sm.indexing...: active, current, total and
                \* whether indexingFirstStartedAt is set
  tracked,      \* the keys of pt.active
  late,         \* history: a report was sent after the end of its token
  overlap       \* history: two operations ran at the same time

progressVars == <<reader, polite, asked, created, running, starts, stream,
                  cycle, tracked, late, overlap>>

Message == [kind : {"create", "begin", "report", "end", "other"},
            token : Token, n : 0 .. FileCount, m : {0, FileCount}]

ProgressTypeOK ==
  /\ reader \in {"manager", "client"} /\ polite \in BOOLEAN
  /\ created \subseteq asked /\ asked \subseteq Token /\ running \subseteq Token
  /\ polite => running \subseteq created
  /\ starts \in 0 .. MaxStarts
  /\ stream \in Seq(Message) /\ Len(stream) <= MaxInStream
  /\ cycle \in [active : BOOLEAN, started : BOOLEAN,
                current : 0 .. FileCount, total : {0, FileCount}]
  /\ cycle.current <= cycle.total
  /\ tracked \subseteq Token
  /\ late \in BOOLEAN /\ overlap \in BOOLEAN

ProgressInit ==
  /\ reader \in {"manager", "client"} /\ polite \in BOOLEAN
  /\ asked = {} /\ created = {} /\ running = {} /\ starts = 0
  /\ stream = << >>
  /\ cycle = [active |-> FALSE, started |-> FALSE, current |-> 0, total |-> 0]
  /\ tracked = {} /\ late = FALSE /\ overlap = FALSE

-----------------------------------------------------------------------------
(* The language server. *)

Sends(kind, t, n, m) ==
  /\ Len(stream) < MaxInStream
  /\ stream' = Append(stream, [kind |-> kind, token |-> t, n |-> n, m |-> m])

AskForToken(t) ==
  /\ polite /\ t \notin asked
  /\ Sends("create", t, 0, 0) /\ asked' = asked \cup {t}
  /\ UNCHANGED <<reader, polite, created, running, starts, cycle, tracked,
                 late, overlap>>

Begin(t) ==
  /\ t \notin running /\ starts < MaxStarts /\ (polite => t \in created)
  /\ Sends("begin", t, 0, 0)
  /\ running' = running \cup {t} /\ starts' = starts + 1
  /\ overlap' = (overlap \/ running # {})
  /\ UNCHANGED <<reader, polite, asked, created, cycle, tracked, late>>

\* With the numbers "n/m" in its text, or without.
Report(t, n, m) ==
  /\ t \in running /\ n <= m
  /\ Sends("report", t, n, m)
  /\ UNCHANGED <<reader, polite, asked, created, running, starts, cycle,
                 tracked, late, overlap>>

End(t) ==
  /\ t \in running
  /\ Sends("end", t, 0, 0) /\ running' = running \ {t}
  /\ UNCHANGED <<reader, polite, asked, created, starts, cycle, tracked, late,
                 overlap>>

\* A report that was computed by a thread which did not see the end.
ReportLate(t) ==
  /\ t \notin running /\ starts > 0
  /\ Sends("report", t, 1, FileCount) /\ late' = TRUE
  /\ UNCHANGED <<reader, polite, asked, created, running, starts, cycle,
                 tracked, overlap>>

\* A progress message of no known kind.
SendOther(t) ==
  /\ t \in running
  /\ Sends("other", t, 0, 0)
  /\ UNCHANGED <<reader, polite, asked, created, running, starts, cycle,
                 tracked, late, overlap>>

-----------------------------------------------------------------------------
(* The session manager. *)

\* Counters start anew with the first operation and after 30 quiet seconds.
AtBegin(quiet) ==
  IF ~cycle.started \/ quiet
  THEN [active |-> TRUE, started |-> TRUE, current |-> 0, total |-> 0]
  ELSE [cycle EXCEPT !.active = TRUE]

\* parseProgressMessage finds no numbers, or those of the report.
AtReport(e) ==
  IF e.m > 0 THEN [cycle EXCEPT !.current = e.n, !.total = e.m] ELSE cycle

\* Mutant: the end leaves the counters as they are.
EndKeepsCount == [cycle EXCEPT !.active = FALSE]

AtEnd == [cycle EXCEPT !.active = FALSE, !.current = cycle.total]

\* handleNotification.  It only logs a request to create a token: nobody
\* replies.
ManagerReads ==
  /\ reader = "manager" /\ stream # << >>
  /\ LET e == Head(stream)
     IN  \/ e.kind = "begin"  /\ \E quiet \in BOOLEAN : cycle' = AtBegin(quiet)
         \/ e.kind = "report" /\ cycle' = AtReport(e)
         \/ e.kind = "end"    /\ cycle' = AtEnd
         \/ e.kind \in {"create", "other"} /\ UNCHANGED cycle
  /\ stream' = Tail(stream)
  /\ UNCHANGED <<reader, polite, asked, created, running, starts, tracked,
                 late, overlap>>

\* getStatus: active is said of any open operation, and of a count that has
\* not reached its total.
State ==
  IF cycle.active \/ cycle.current < cycle.total THEN "indexing"
  ELSE IF cycle.total > 0 THEN "complete" ELSE "idle"

-----------------------------------------------------------------------------
(* The client of a direct connection. *)

\* Update: reports add their token too, messages of no known kind do not.
Track(e) ==
  IF e.kind \in {"begin", "report"} THEN tracked \cup {e.token}
  ELSE IF e.kind = "end" THEN tracked \ {e.token} ELSE tracked

\* Mutant: a request from the server is taken for a notification.
ClientNeverReplies ==
  /\ reader = "client" /\ stream # << >>
  /\ tracked' = Track(Head(stream)) /\ stream' = Tail(stream)
  /\ UNCHANGED <<reader, polite, asked, created, running, starts, cycle, late,
                 overlap>>

\* ClientHandler.Handle: a request to create a token is acknowledged.
ClientReads ==
  /\ reader = "client" /\ stream # << >>
  /\ LET e == Head(stream)
     IN  IF e.kind = "create"
         THEN created' = created \cup {e.token} /\ UNCHANGED tracked
         ELSE tracked' = Track(e) /\ UNCHANGED created
  /\ stream' = Tail(stream)
  /\ UNCHANGED <<reader, polite, asked, running, starts, cycle, late, overlap>>

ProgressNext ==
  \/ \E t \in Token :
       \/ AskForToken(t) \/ Begin(t) \/ End(t) \/ ReportLate(t) \/ SendOther(t)
       \/ \E n \in 0 .. FileCount, m \in {0, FileCount} : Report(t, n, m)
  \/ ManagerReads \/ ClientReads

ProgressSpec == ProgressInit /\ [][ProgressNext]_progressVars

-----------------------------------------------------------------------------
(* Properties. *)

\* main.go:719 and progress.go:115: when the reader has caught up, and no
\* report was sent after the end of its operation, the status agrees with the
\* server.  The tracker knows exactly the operations that run.  The manager,
\* which keeps one flag and one count for all tokens, says "indexing" if and
\* only if an operation runs as long as they do not overlap; overlapping ones
\* end each other, yet when the last has ended it never says "indexing".
StatusTellsIndexing ==
  stream = << >> /\ ~late =>
    /\ reader = "client" => tracked = running
    /\ reader = "manager" =>
         /\ running = {} => State # "indexing" /\ ~cycle.active
         /\ ~overlap /\ running # {} => State = "indexing"

\* The capability workDoneProgress is announced to every server, but only the
\* client of a direct connection replies to the request that comes of it: with
\* it, every token that was asked for can be used in the end.
TokensAreCreated ==
  reader = "client" =>
    \A t \in Token : t \in asked ~> t \in created

=============================================================================
