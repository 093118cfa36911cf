------------------------------ MODULE NetworkMode ------------------------------
(***************************************************************************)
(* The life of a node (cmd/hive/main.go) and the switch between offline,    *)
(* local and online (Engine.SetState in src/internal/dht/engine.go): which  *)
(* sets of background workers run, and whether the transport listens.       *)
(* SetState is called by HTTP handlers, from before the transport listens   *)
(* until the process is gone; Engine.stateMu makes each call one step.      *)
(* What holds Transport.Stop up is modelled in Transport.                   *)
(***************************************************************************)
EXTENDS Integers

CONSTANT MaxSwitches   \* bound on the sets of workers SetState starts

ASSUME SwitchAssumption == MaxSwitches \in Nat

\* The handler of /api/state passes on whatever string it is sent.
NetworkState == {"offline", "local", "online"}
Requested == NetworkState \cup {"unknown"}

\* The sets of workers: 0 is the one main starts, on the context of the whole
\* process; SetState starts the others, each on a context of its own.
Sets == 0..MaxSwitches
NoCancel == -1

VARIABLES
  state,      \* e.state
  workers,    \* each set: "none", "running", "cancelled" or "exited"
  cancelFunc, \* e.cancelFunc: the set it cancels, or NoCancel
  started,    \* the sets started so far
  conn,       \* the transport: "none", "listening" or "stopped"
  main        \* "starting", "serving", "closing" (cancelled), "exited", "panic"

vars == <<state, workers, cancelFunc, started, conn, main>>

Init ==
  /\ state = "online"
  /\ workers = [s \in Sets |-> IF s = 0 THEN "running" ELSE "none"]
  /\ cancelFunc = NoCancel
  /\ started = 1
  /\ conn = "none"
  /\ main = "starting"

Alive == main \notin {"exited", "panic"}

\* Cancelling a context is seen by the workers at their next select.
Cancelled(ws, S) ==
  [s \in Sets |-> IF s \in S /\ ws[s] = "running" THEN "cancelled" ELSE ws[s]]

CancelNone(ws) == ws   \* mutant: the previous workers run on
CancelPrevious(ws) == Cancelled(ws, {cancelFunc})

\* Transport.Stop: before Listen it does nothing; the connection is kept, so
\* that a second call closes t.done again, and panics.
StopPanics == conn = "stopped"
StopConn == IF conn = "none" THEN "none" ELSE "stopped"

\* The context of a new set is derived from that of the process.
NewWorkers == IF main = "closing" THEN "cancelled" ELSE "running"

\* A panic in an HTTP handler is recovered by the server: the call is cut
\* short, and its deferred unlocks run.
GoOffline ==
  /\ Alive /\ state # "offline"
  /\ workers' = CancelPrevious(workers)
  /\ IF StopPanics
     THEN UNCHANGED <<conn, state>>
     ELSE conn' = StopConn /\ state' = "offline"
  /\ UNCHANGED <<cancelFunc, started, main>>

NewSetLate == started + 1   \* mutant: counted before it is used
NewSet == started

\* Nothing reopens the transport; the handlers pass no bootstrap address.
GoOn(newState) ==
  /\ Alive /\ newState # state
  /\ started <= MaxSwitches
  /\ workers' = [CancelPrevious(workers) EXCEPT ![NewSet] = NewWorkers]
  /\ cancelFunc' = NewSet
  /\ started' = started + 1
  /\ state' = newState
  /\ UNCHANGED <<conn, main>>

WorkersExit(s) ==
  /\ Alive /\ workers[s] = "cancelled"
  /\ workers' = [workers EXCEPT ![s] = "exited"]
  /\ UNCHANGED <<state, cancelFunc, started, conn, main>>

\* main: the monitor serves requests before the transport listens.
Listen ==
  /\ main = "starting"
  /\ conn' = "listening"
  /\ main' = "serving"
  /\ UNCHANGED <<state, workers, cancelFunc, started>>

\* A signal, or the end of standard input: the context of the process ends
\* and every set of workers with it.
Shutdown ==
  /\ main = "serving"
  /\ main' = "closing"
  /\ workers' = Cancelled(workers, Sets)
  /\ UNCHANGED <<state, cancelFunc, started, conn>>

ShutdownStop ==
  /\ main = "closing"
  /\ IF StopPanics
     THEN main' = "panic" /\ UNCHANGED conn
     ELSE main' = "exited" /\ conn' = StopConn
  /\ UNCHANGED <<state, workers, cancelFunc, started>>

SetState(newState) ==
  IF newState = "offline" THEN GoOffline ELSE GoOn(newState)

Next ==
  \/ \E newState \in Requested : SetState(newState)
  \/ \E s \in Sets : WorkersExit(s)
  \/ Listen \/ Shutdown \/ ShutdownStop

Spec == Init /\ [][Next]_vars

\* Workers reach their select, and main runs to its end; requests and signals
\* come when they please.
FairSpec ==
  /\ Spec
  /\ \A s \in Sets : WF_vars(WorkersExit(s))
  /\ WF_vars(Listen) /\ WF_vars(ShutdownStop)

-----------------------------------------------------------------------------
(* Properties *)

\* Every variable has its type.
TypeOK ==
  /\ state \in Requested
  /\ workers \in [Sets -> {"none", "running", "cancelled", "exited"}]
  /\ cancelFunc \in {NoCancel} \cup Sets
  /\ started \in 1..(MaxSwitches + 1)
  /\ conn \in {"none", "listening", "stopped"}
  /\ main \in {"starting", "serving", "closing", "exited", "panic"}

\* However the modes are switched, and even during the shutdown, no set of
\* workers that SetState started runs beside another, or in offline mode.
OneSetOfWorkers ==
  \A s \in Sets \ {0} :
    workers[s] = "running" =>
      s = cancelFunc /\ state # "offline" /\ main \in {"starting", "serving"}

\* What it needs to be inductive: the sets are started one after the other.
StartedInOrder ==
  /\ \A s \in Sets : s >= started => workers[s] = "none"
  /\ cancelFunc < started

ModeInv == TypeOK /\ OneSetOfWorkers /\ StartedInOrder

-----------------------------------------------------------------------------
(* Claims of the documentation that do not hold (see README.md) *)

\* README.md:91: "Switch between Offline, Local, and Online modes at runtime":
\* a node that serves in online mode listens.
OnlineListens == main = "serving" /\ state = "online" => conn = "listening"

\* docs/ARCHITECTURE.md:81: "Real-time control of Offline, Local, and Online
\* modes": offline, no replication or other worker runs for long.
OfflineIsQuiet ==
  (state = "offline") ~> (state # "offline" \/ \A s \in Sets : workers[s] # "running")

\* main.go:154: "Iniciando apagado seguro" (starting a safe shutdown): the
\* process exits, and does not panic.
SafeShutdown == main # "panic"
===============================================================================
