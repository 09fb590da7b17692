------------------------ MODULE NotificationLimiter ------------------------
(***************************************************************************)
(* logUnhandledNotification (lsp/unhandled_notifications.go): at most      *)
(* burstPerKey messages of one method are logged in a window of time, then *)
(* one that says so, and at the end of the window one with the number of   *)
(* those that were left out.  Every connection to a language server has a  *)
(* goroutine that calls it, all share the buckets; the lock is given up    *)
(* while the number is logged, between the look at the window and its      *)
(* reset.                                                                  *)
(*                                                                         *)
(* One method; windows are counted, a goroutine reads the clock when it    *)
(* enters.                                                                 *)
(***************************************************************************)
EXTENDS Naturals, FiniteSets

CONSTANTS
  Conn,         \* connections to language servers
  Burst,        \* cfg.burstPerKey
  MaxCalls,     \* bound of the model: notifications
  MaxWindow     \* bound of the model: the clock, in windows

ASSUME LimiterConstants ==
  /\ Burst \in Nat /\ MaxCalls \in Nat /\ MaxWindow \in Nat
  /\ IsFiniteSet(Conn)

VARIABLES
  clock,
  logger,       \* the goroutine of each connection: "idle", "enter", "flush"
  now,          \* the time it read
  bucket,       \* start, emitted, suppressed and suppressMsg of the method
  notified,     \* history: how many notifications came
  logged,       \* history: messages logged, and summaries with their numbers
  raced         \* history: the bucket was used while a summary was logged

limiterVars == <<clock, logger, now, bucket, notified, logged, raced>>

LimiterTypeOK ==
  /\ clock \in 0 .. MaxWindow
  /\ logger \in [Conn -> {"idle", "enter", "flush"}]
  /\ now \in [Conn -> 0 .. MaxWindow]
  /\ bucket \in [start : 0 .. MaxWindow, emitted : 0 .. Burst,
                 suppressed : 0 .. MaxCalls, told : BOOLEAN]
  /\ notified \in 0 .. MaxCalls
  /\ logged \in [emitted : 0 .. MaxCalls, reported : Nat, floods : 0 .. MaxCalls]
  /\ raced \in BOOLEAN

LimiterInit ==
  /\ clock = 0
  /\ logger = [c \in Conn |-> "idle"] /\ now = [c \in Conn |-> 0]
  /\ bucket = [start |-> 0, emitted |-> 0, suppressed |-> 0, told |-> FALSE]
  /\ notified = 0
  /\ logged = [emitted |-> 0, reported |-> 0, floods |-> 0]
  /\ raced = FALSE

-----------------------------------------------------------------------------

TimePasses ==
  /\ clock < MaxWindow /\ clock' = clock + 1
  /\ UNCHANGED <<logger, now, bucket, notified, logged, raced>>

\* The time is read before the lock is taken.
Notified(c) ==
  /\ logger[c] = "idle" /\ notified < MaxCalls
  /\ notified' = notified + 1
  /\ now' = [now EXCEPT ![c] = clock]
  /\ logger' = [logger EXCEPT ![c] = "enter"]
  /\ UNCHANGED <<clock, bucket, logged, raced>>

WindowOver(c) == now[c] > bucket.start

InFlush == \E c \in Conn : logger[c] = "flush"

\* Counts a notification in bucket b: it is logged, or left out; the first
\* that is left out is mentioned.
CountNotification(b) ==
  IF Burst = 0 \/ b.emitted >= Burst
  THEN /\ bucket' = [b EXCEPT !.suppressed = @ + 1, !.told = @ \/ Burst > 0]
       /\ logged' = [logged EXCEPT !.floods =
                       IF ~b.told /\ Burst > 0 THEN @ + 1 ELSE @]
  ELSE /\ bucket' = [b EXCEPT !.emitted = @ + 1]
       /\ logged' = [logged EXCEPT !.emitted = @ + 1]

Fresh(c) == [start |-> now[c], emitted |-> 0, suppressed |-> 0, told |-> FALSE]

\* The window is not over, or nothing was left out in it.
Pass(c) ==
  /\ logger[c] = "enter"
  /\ \/ ~WindowOver(c) /\ CountNotification(bucket)
     \/ WindowOver(c) /\ bucket.suppressed = 0 /\ CountNotification(Fresh(c))
  /\ raced' = (raced \/ InFlush)
  /\ logger' = [logger EXCEPT ![c] = "idle"]
  /\ UNCHANGED <<clock, now, notified>>

\* The window is over: unlock and log the number.
FlushSummary(c) ==
  /\ logger[c] = "enter" /\ WindowOver(c) /\ bucket.suppressed > 0
  /\ logged' = [logged EXCEPT !.reported = @ + bucket.suppressed]
  /\ logger' = [logger EXCEPT ![c] = "flush"]
  /\ raced' = (raced \/ InFlush)
  /\ UNCHANGED <<clock, now, bucket, notified>>

\* Mutant: the notification that finds the window over is counted in it.
ResetForgets(c) ==
  /\ logger[c] = "flush"
  /\ bucket' = Fresh(c)
  /\ logger' = [logger EXCEPT ![c] = "idle"]
  /\ UNCHANGED <<clock, now, notified, logged, raced>>

\* Lock again and reset, whatever the bucket holds by now.
ResetWindow(c) ==
  /\ logger[c] = "flush"
  /\ CountNotification(Fresh(c))
  /\ logger' = [logger EXCEPT ![c] = "idle"]
  /\ UNCHANGED <<clock, now, notified, raced>>

LimiterNext ==
  \/ TimePasses
  \/ \E c \in Conn : Notified(c) \/ Pass(c) \/ FlushSummary(c) \/ ResetWindow(c)

LimiterSpec == LimiterInit /\ [][LimiterNext]_limiterVars

-----------------------------------------------------------------------------
(* Properties. *)

\* unhandled_notifications.go:95-110: as long as no other goroutine uses the
\* bucket while the summary of a window is logged, every notification is
\* logged, or counted in a summary, or waits in the bucket to be; whatever
\* the order in which the goroutines that have read the clock get the lock.
\* (Otherwise a number is reported twice, or notifications are left out that
\* no summary counts.)
LimiterAccounts ==
  ~raced /\ (\A c \in Conn : logger[c] = "idle") =>
    notified = logged.emitted + logged.reported + bucket.suppressed

=============================================================================
