---------------------------- MODULE MCBackground ----------------------------
(***************************************************************************)
(* TLC's instance of the components that run beside the requests.  They    *)
(* share no state, so one run checks them all: the variable part says      *)
(* which one a behaviour is about, and the others rest in an initial       *)
(* state.                                                                  *)
(***************************************************************************)
EXTENDS ManagerRequests, LspProxy, PollingScan, FsnotifyWatch, IndexingStatus,
        NotificationLimiter, TLC

CONSTANTS d0, d1, d2, d3, d4, hidden, g1, g2, g3, g4

VARIABLE part

vars == <<part, managerVars, proxyVars, scanVars, fsVars, progressVars,
          limiterVars>>

\* Three directories below the workspace, one of them with a directory of its
\* own, and a hidden one.  The channel holds one directory.
Tree ==
  (d0 :> <<d1, g1, d2, hidden, d4>>) @@ (d1 :> <<g2, d3>>) @@ (d2 :> << >>)
    @@ (d3 :> <<g3>>) @@ (d4 :> << >>) @@ (hidden :> <<g4>>)

Resting ==
  /\ part # "fsnotify" => ~subExists /\ \A f \in Files : content[f] = 0
  /\ part # "progress" => reader = "client" /\ polite

BackgroundInit ==
  /\ part \in {"requests", "proxy", "scan", "fsnotify", "progress", "limiter"}
  /\ ManagerInit /\ ProxyInit /\ ScanInit /\ FsInit /\ ProgressInit
  /\ LimiterInit
  /\ Resting

Rest ==
  /\ part # "requests" => UNCHANGED managerVars
  /\ part # "proxy"    => UNCHANGED proxyVars
  /\ part # "scan"     => UNCHANGED scanVars
  /\ part # "fsnotify" => UNCHANGED fsVars
  /\ part # "progress" => UNCHANGED progressVars
  /\ part # "limiter"  => UNCHANGED limiterVars

BackgroundNext ==
  /\ UNCHANGED part
  /\ \/ part = "requests" /\ ManagerNext
     \/ part = "proxy" /\ ProxyNext
     \/ part = "scan" /\ ScanNext
     \/ part = "fsnotify" /\ FsNext
     \/ part = "progress" /\ ProgressNext
     \/ part = "limiter" /\ LimiterNext
  /\ Rest

\* The goroutines of a scan are scheduled, and the handler of a connection
\* reads what has come.
ScanIs(A) ==
  part = "scan" /\ ~panicked /\ A /\ UNCHANGED part /\ Rest

ClientIsFair ==
  part = "progress" /\ ClientReads /\ UNCHANGED part /\ Rest

BackgroundSpec ==
  /\ BackgroundInit /\ [][BackgroundNext]_vars
  /\ ManagerFairness
  /\ \A w \in Worker : WF_vars(ScanIs(WorkerStep(w)))
  /\ WF_vars(ScanIs(CloserStep))
  /\ WF_vars(ClientIsFair)

-----------------------------------------------------------------------------

\* Every variable has its type, and a request that is pending has a number
\* that sm.requestID has passed.
BackgroundTypeOK ==
  /\ ManagerTypeOK /\ ProxyTypeOK /\ ScanTypeOK /\ FsTypeOK
  /\ ProgressTypeOK /\ LimiterTypeOK

=============================================================================
