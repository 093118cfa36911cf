---------------------------------- MODULE Node ----------------------------------
(***************************************************************************)
(* A node as a process (runServe in cmd/hive/main.go): its network mode and *)
(* workers, its MCP server, and the ratings that arrive over REST and MCP,  *)
(* through the end of the process, orderly or not, and the next start.      *)
(* NetworkMode, McpServer and Reputation each model one part; here they act *)
(* on one another: the end of MCP's input shuts the node down, the calls of *)
(* hive_rate hold the MCP loop until the scores are saved, and the end of   *)
(* the process takes everything with it, a save under way included.         *)
(***************************************************************************)
EXTENDS NetworkMode, McpServer, Reputation

CONSTANTS
  MaxStarts,   \* bound on the starts of the process
  MaxCrashes   \* bound on the ends of the process that nothing announces

ASSUME NodeAssumption == MaxStarts \in Nat \ {0} /\ MaxCrashes \in Nat

VARIABLES
  rater,    \* whose call of AddScore is saving: "rest", "mcp" or "none"
  starts,   \* how often the process was started
  crashes   \* how often it crashed

processVars == <<rater, starts, crashes>>
nodeVars == <<vars, mcpVars, repVars, processVars>>

NodeInit ==
  /\ Init /\ McpInit /\ RepInit
  /\ rater = "none"
  /\ starts = 1
  /\ crashes = 0

\* The monitor and the workers.
Switch(newState) ==
  SetState(newState) /\ UNCHANGED <<mcpVars, repVars, processVars>>
Exit(s) ==
  WorkersExit(s) /\ UNCHANGED <<mcpVars, repVars, processVars>>

\* Once the transport listens, main starts Serve in a goroutine.
ListenAndServe ==
  Listen /\ McpStart /\ UNCHANGED <<repVars, processVars>>

\* Nothing stops the goroutine of Serve before the process ends.
McpStep ==
  /\ Alive
  /\ \/ CloseInput
     \/ \E kind \in Kinds : Read(kind) \/ ScanEnds(kind)
     \/ Handled /\ ~(line = "rate" /\ rater = "mcp")
  /\ UNCHANGED <<vars, repVars, processVars>>

\* A rating over REST, in the goroutine of its request, at any time. Over MCP
\* the loop waits for it. Not every call gets here: the chunk must be found
\* and signed.
RateRest ==
  /\ Alive
  /\ \E a \in Authors, delta \in Deltas :
       \/ AddScore(a, delta) /\ rater' = "rest"
       \/ OpenFails(a, delta) /\ UNCHANGED rater
  /\ UNCHANGED <<vars, mcpVars, starts, crashes>>

RateMcp ==
  /\ Alive /\ serve = "handling" /\ line = "rate"
  /\ \E a \in Authors, delta \in Deltas :
       \/ AddScore(a, delta) /\ rater' = "mcp" /\ UNCHANGED mcpVars
       \/ OpenFails(a, delta) /\ UNCHANGED rater /\ Handled
  /\ UNCHANGED <<vars, starts, crashes>>

\* The save ends, and with it the call.
RateEnds ==
  /\ Alive
  /\ SaveDone \/ SaveFails
  /\ IF rater = "mcp" THEN Handled ELSE UNCHANGED mcpVars
  /\ rater' = "none"
  /\ UNCHANGED <<vars, starts, crashes>>

\* main waits for a signal: one of the system, or the one that the goroutine
\* of Serve sends itself when Serve has returned (main.go:150).
Signal ==
  Shutdown /\ UNCHANGED <<mcpVars, repVars, processVars>>

NoSignal == FALSE   \* mutant: the goroutine of Serve just ends
ServeSignals == serve = "ended"

ServeEnds ==
  /\ ServeSignals
  /\ Shutdown /\ UNCHANGED <<mcpVars, repVars, processVars>>

\* main returns, or panics in Stop.
MainEnds ==
  /\ ShutdownStop
  /\ RepKilled /\ McpGone /\ rater' = "none"
  /\ UNCHANGED <<starts, crashes>>

Crash ==
  /\ Alive /\ crashes < MaxCrashes
  /\ main' = "exited"
  /\ workers' = [s \in Sets |-> IF workers[s] = "none" THEN "none" ELSE "exited"]
  /\ crashes' = crashes + 1
  /\ RepKilled /\ McpGone /\ rater' = "none"
  /\ UNCHANGED <<state, cancelFunc, started, conn, starts>>

\* The next start of the process: NewReputationStore comes first (main.go:82),
\* and if it fails the process ends again.
Restart ==
  /\ ~Alive /\ starts < MaxStarts
  /\ RepLoad
  /\ state' = "online"
  /\ workers' = [s \in Sets |-> IF s = 0 THEN "running" ELSE "none"]
  /\ cancelFunc' = NoCancel /\ started' = 1
  /\ conn' = "none" /\ main' = "starting"
  /\ starts' = starts + 1
  /\ UNCHANGED <<mcpVars, rater, crashes>>

NodeNext ==
  \/ \E newState \in Requested : Switch(newState)
  \/ \E s \in Sets : Exit(s)
  \/ ListenAndServe \/ McpStep
  \/ RateRest \/ RateMcp \/ RateEnds
  \/ Signal \/ ServeEnds \/ MainEnds
  \/ Crash \/ Restart

\* Go runs what can run, the scanner reads until its input ends, file
\* operations end, and main goes through with its shutdown. A search, or the
\* lookup of a chunk to be rated, need not return.
Returns == line \notin {"search", "rate"} /\ Handled

NodeSpec ==
  /\ NodeInit /\ [][NodeNext]_nodeVars
  /\ \A s \in Sets : WF_nodeVars(Exit(s))
  /\ WF_nodeVars(ListenAndServe) /\ WF_nodeVars(MainEnds)
  /\ WF_nodeVars(ServeEnds) /\ WF_nodeVars(RateEnds)
  /\ WF_nodeVars(McpStep /\ Returns)
  /\ WF_nodeVars(McpStep /\ closed /\ \E kind \in Kinds : ScanEnds(kind))

-----------------------------------------------------------------------------
(* Properties *)

NodeTypeOK ==
  /\ TypeOK /\ McpTypeOK /\ RepTypeOK
  /\ rater \in {"none", "rest", "mcp"}
  /\ saving <=> rater # "none"
  /\ starts \in 1..MaxStarts /\ crashes \in 0..MaxCrashes

\* reputation.go: no rating is forgotten by a node that runs, whatever ended
\* the process before, and in whatever order REST and MCP rated.
RatingsKept == Remembers(Alive)

\* main.go:147-151: a node whose input is closed, because its agent is gone,
\* does not outlive it, unless a lookup never returns.
EndsWithInput ==
  (Alive /\ closed) ~> (~Alive \/ line \in {"search", "rate"})

-----------------------------------------------------------------------------
(* Claims of the documentation that do not hold (see README.md) *)

\* main.go:154: "Iniciando apagado seguro" (starting a safe shutdown): the
\* node can be started again after it (with MaxCrashes = MaxFaults = 0).
StartsAgain == ~Alive => Loads
===============================================================================
