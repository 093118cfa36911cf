------------------------------- MODULE NodeProofs -------------------------------
(***************************************************************************)
(* A node through any number of starts, crashes, ratings, lines of input    *)
(* and switches of mode: the workers of a superseded mode never run beside  *)
(* those of the current one, a rating is never forgotten while it runs,     *)
(* and its MCP server answers each request once and in turn.                *)
(***************************************************************************)
EXTENDS Node, SequenceTheorems, TLAPS

-----------------------------------------------------------------------------
(* The network mode by itself (NetworkMode) *)

\* Cancelling keeps the types, and stops only sets of workers that run.
LEMMA CancelledFacts ==
  ASSUME TypeOK, NEW S
  PROVE  /\ Cancelled(workers, S)
              \in [Sets -> {"none", "running", "cancelled", "exited"}]
         /\ \A s \in Sets :
              /\ Cancelled(workers, S)[s] = "running" =>
                    workers[s] = "running" /\ s \notin S
              /\ workers[s] = "none" => Cancelled(workers, S)[s] = "none"
BY DEF TypeOK, Cancelled

\* ModeInv holds at the start of the process.
LEMMA InitMode == Init => ModeInv
BY SwitchAssumption
   DEF Init, ModeInv, TypeOK, OneSetOfWorkers, StartedInOrder, Sets,
       NetworkState, Requested, NoCancel

LEMMA NextMode == ModeInv /\ [Next]_vars => ModeInv'
<1> SUFFICES ASSUME ModeInv, [Next]_vars PROVE ModeInv'
  OBVIOUS
<1>0. TypeOK /\ OneSetOfWorkers /\ StartedInOrder
  BY DEF ModeInv
<1>1. CASE GoOffline
  <2>1. workers' = Cancelled(workers, {cancelFunc})
    BY <1>1 DEF GoOffline, CancelPrevious
  <2>2. TypeOK'
    BY <1>0, <1>1, <2>1, CancelledFacts
       DEF GoOffline, TypeOK, StopConn, Requested, NetworkState
  <2>3. \A s \in Sets \ {0} : workers'[s] # "running"
    BY <1>0, <2>1, CancelledFacts DEF OneSetOfWorkers
  <2>4. StartedInOrder'
    BY <1>0, <1>1, <2>1, CancelledFacts DEF GoOffline, StartedInOrder
  <2> QED
    BY <2>2, <2>3, <2>4 DEF ModeInv, OneSetOfWorkers
<1>2. ASSUME NEW newState \in Requested \ {"offline"}, GoOn(newState)
      PROVE  ModeInv'
  <2> DEFINE before == Cancelled(workers, {cancelFunc})
  <2>1. /\ workers' = [before EXCEPT ![started] = NewWorkers]
        /\ cancelFunc' = started /\ started' = started + 1
        /\ state' = newState /\ conn' = conn /\ main' = main
        /\ started <= MaxSwitches
    BY <1>2 DEF GoOn, CancelPrevious, NewSet
  <2>2. before \in [Sets -> {"none", "running", "cancelled", "exited"}]
    BY <1>0, CancelledFacts
  <2>3. started \in Sets /\ started \in Nat \ {0}
    BY <1>0, <2>1, SwitchAssumption DEF TypeOK, Sets
  <2>4. workers' \in [Sets -> {"none", "running", "cancelled", "exited"}]
    BY <2>1, <2>2 DEF NewWorkers
  <2>5. TypeOK'
    BY <1>0, <2>1, <2>3, <2>4, SwitchAssumption DEF TypeOK
  <2>6. ASSUME NEW s \in Sets \ {0}, workers'[s] = "running"
        PROVE  s = started /\ main \in {"starting", "serving"}
    <3>1. CASE s = started
      BY <1>0, <1>2, <2>1, <2>2, <2>6, <3>1 DEF NewWorkers, TypeOK, GoOn, Alive
    <3>2. CASE s # started
      <4>1. workers[s] = "running" /\ s # cancelFunc
        BY <1>0, <2>1, <2>2, <2>6, <3>2, CancelledFacts
      <4> QED
        BY <1>0, <4>1 DEF OneSetOfWorkers
    <3> QED
      BY <3>1, <3>2
  <2>7. OneSetOfWorkers'
    BY <1>2, <2>1, <2>6 DEF OneSetOfWorkers
  <2>8. ASSUME NEW s \in Sets, s >= started + 1 PROVE workers'[s] = "none"
    <3>1. s # started /\ s >= started
      BY <2>3, <2>8 DEF Sets
    <3>2. workers[s] = "none"
      BY <1>0, <3>1 DEF StartedInOrder
    <3> QED
      BY <1>0, <2>1, <2>2, <3>1, <3>2, CancelledFacts
  <2>9. StartedInOrder'
    BY <2>1, <2>3, <2>8 DEF StartedInOrder
  <2> QED
    BY <2>5, <2>7, <2>9 DEF ModeInv
<1>3. ASSUME NEW s \in Sets, WorkersExit(s) PROVE ModeInv'
  BY <1>0, <1>3
     DEF WorkersExit, ModeInv, TypeOK, OneSetOfWorkers, StartedInOrder
<1>4. CASE Listen
  BY <1>0, <1>4 DEF Listen, ModeInv, TypeOK, OneSetOfWorkers, StartedInOrder
<1>5. CASE Shutdown
  <2>1. workers' = Cancelled(workers, Sets)
    BY <1>5 DEF Shutdown
  <2>2. TypeOK'
    BY <1>0, <1>5, <2>1, CancelledFacts DEF Shutdown, TypeOK
  <2>3. \A s \in Sets : workers'[s] # "running"
    BY <1>0, <2>1, CancelledFacts
  <2>4. StartedInOrder'
    BY <1>0, <1>5, <2>1, CancelledFacts DEF Shutdown, StartedInOrder
  <2> QED
    BY <2>2, <2>3, <2>4 DEF ModeInv, OneSetOfWorkers
<1>6. CASE ShutdownStop
  BY <1>0, <1>6
     DEF ShutdownStop, StopConn, ModeInv, TypeOK, OneSetOfWorkers, StartedInOrder
<1>7. CASE UNCHANGED vars
  BY <1>0, <1>7 DEF vars, ModeInv, TypeOK, OneSetOfWorkers, StartedInOrder
<1> QED
  BY <1>1, <1>2, <1>3, <1>4, <1>5, <1>6, <1>7 DEF Next, SetState

\* Every variable keeps its type (engine.go:659-683, main.go).
THEOREM TypeCorrect == Spec => []TypeOK
<1>1. ModeInv => TypeOK
  BY DEF ModeInv
<1> QED
  BY <1>1, InitMode, NextMode, PTL DEF Spec

\* engine.go:659-683: of the sets of workers SetState starts, only the last
\* may be running, not in offline mode and not once the shutdown has begun.
THEOREM WorkersCorrect == Spec => []OneSetOfWorkers
<1>1. ModeInv => OneSetOfWorkers
  BY DEF ModeInv
<1> QED
  BY <1>1, InitMode, NextMode, PTL DEF Spec

-----------------------------------------------------------------------------
(* Ratings *)

\* What a start would find: nothing it refuses, or what it was given. This is
\* about the disk, because a crash leaves nothing else.
OnDisk ==
  repFile = Torn \/ repFile = given \/ (repFile = NoFile /\ given = Unrated)

RatingsInv ==
  /\ given \in [Authors -> Int]
  /\ repFaults \in Nat
  /\ repFaults = 0 => OnDisk /\ (Alive => scores = given)

LEMMA InitRatings == NodeInit => RatingsInv
BY DEF NodeInit, RepInit, RatingsInv, OnDisk, Unrated

\* A start that succeeds has loaded every rating.
LEMMA LoadedIsGiven ==
  ASSUME given \in [Authors -> Int], OnDisk, Loads
  PROVE  Loaded = given
BY ReputationAssumption DEF OnDisk, Loads, Loaded

\* A step without ratings that does not start the process.
LEMMA UnratedStep ==
  ASSUME RatingsInv, UNCHANGED <<repFile, given, repFaults>>,
         Alive' => Alive /\ scores' = scores
  PROVE  RatingsInv'
BY DEF RatingsInv, OnDisk

LEMMA RatedStep ==
  ASSUME RatingsInv, Alive, NEW a \in Authors, NEW delta \in Deltas,
         AddScore(a, delta) \/ OpenFails(a, delta)
  PROVE  RatingsInv'
<1>1. delta \in Int
  BY ReputationAssumption
<1>2. given' \in [Authors -> Int]
  BY <1>1 DEF RatingsInv, AddScore, OpenFails
<1>3. CASE AddScore(a, delta)
  <2>1. repFaults' = repFaults /\ OnDisk'
    BY <1>3 DEF AddScore, OnDisk
  <2>2. repFaults = 0 => scores' = given'
    BY <1>3 DEF AddScore, RatingsInv
  <2> QED
    BY <1>2, <2>1, <2>2 DEF RatingsInv
<1>4. CASE OpenFails(a, delta)
  <2>1. repFaults' \in Nat /\ repFaults' # 0
    BY <1>4 DEF OpenFails, RatingsInv
  <2> QED
    BY <1>2, <2>1 DEF RatingsInv
<1> QED
  BY <1>3, <1>4

LEMMA SavedStep ==
  ASSUME RatingsInv, Alive, SaveDone \/ SaveFails
  PROVE  RatingsInv'
<1>1. given' = given /\ scores' = scores
  BY DEF SaveDone, SaveFails
<1>2. CASE SaveDone
  BY <1>1, <1>2 DEF SaveDone, RatingsInv, OnDisk
<1>3. CASE SaveFails
  <2>1. repFaults' \in Nat /\ repFaults' # 0
    BY <1>3 DEF SaveFails, RatingsInv
  <2> QED
    BY <1>1, <2>1 DEF RatingsInv
<1> QED
  BY <1>2, <1>3

LEMMA NextRatings == RatingsInv /\ [NodeNext]_nodeVars => RatingsInv'
<1> SUFFICES ASSUME RatingsInv, [NodeNext]_nodeVars PROVE RatingsInv'
  OBVIOUS
<1>1. ASSUME NEW newState \in Requested, Switch(newState) PROVE RatingsInv'
  BY <1>1, UnratedStep
     DEF Switch, SetState, GoOffline, GoOn, Alive, repVars
<1>2. ASSUME NEW s \in Sets, Exit(s) PROVE RatingsInv'
  BY <1>2, UnratedStep DEF Exit, WorkersExit, Alive, repVars
<1>3. CASE ListenAndServe
  BY <1>3, UnratedStep DEF ListenAndServe, Listen, Alive, repVars
<1>4. CASE McpStep
  BY <1>4, UnratedStep DEF McpStep, Alive, repVars, vars
<1>5. CASE RateRest
  BY <1>5, RatedStep DEF RateRest
<1>6. CASE RateMcp
  BY <1>6, RatedStep DEF RateMcp
<1>7. CASE RateEnds
  BY <1>7, SavedStep DEF RateEnds
<1>8. CASE Signal \/ ServeEnds
  BY <1>8, UnratedStep DEF Signal, ServeEnds, Shutdown, Alive, repVars
<1>9. CASE MainEnds \/ Crash
  <2>1. ~Alive' /\ UNCHANGED <<repFile, given, repFaults>>
    BY <1>9 DEF MainEnds, ShutdownStop, Crash, RepKilled, Alive
  <2> QED
    BY <2>1, UnratedStep
<1>10. CASE Restart
  <2>1. UNCHANGED <<repFile, given, repFaults>> /\ scores' = Loaded /\ Loads
    BY <1>10 DEF Restart, RepLoad
  <2>2. repFaults = 0 => scores' = given'
    BY <2>1, LoadedIsGiven DEF RatingsInv
  <2> QED
    BY <2>1, <2>2 DEF RatingsInv, OnDisk
<1>11. CASE UNCHANGED nodeVars
  BY <1>11, UnratedStep DEF nodeVars, vars, repVars, Alive
<1> QED
  BY <1>1, <1>2, <1>3, <1>4, <1>5, <1>6, <1>7, <1>8, <1>9, <1>10, <1>11
     DEF NodeNext

\* reputation.go: for any authors, ratings, crashes and restarts, a node that
\* runs knows every rating it was given, as long as no save has failed.
THEOREM RatingsRemembered == NodeSpec => []RatingsKept
<1>1. RatingsInv => RatingsKept
  BY DEF RatingsInv, RatingsKept, Remembers
<1> QED
  BY <1>1, InitRatings, NextRatings, PTL DEF NodeSpec

-----------------------------------------------------------------------------
(* Workers, through restarts *)

LEMMA RestartedMode ==
  ASSUME ModeInv, Crash \/ Restart
  PROVE  ModeInv'
<1>1. TypeOK /\ StartedInOrder
  BY DEF ModeInv
<1>2. CASE Crash
  BY <1>1, <1>2 DEF Crash, ModeInv, TypeOK, OneSetOfWorkers, StartedInOrder
<1>3. CASE Restart
  BY <1>1, <1>3, SwitchAssumption
     DEF Restart, ModeInv, TypeOK, OneSetOfWorkers, StartedInOrder, Sets,
         NetworkState, Requested, NoCancel
<1> QED
  BY <1>2, <1>3

LEMMA NextNodeMode == ModeInv /\ [NodeNext]_nodeVars => ModeInv'
<1> SUFFICES ASSUME ModeInv, [NodeNext]_nodeVars PROVE ModeInv'
  OBVIOUS
<1>1. CASE Crash \/ Restart
  BY <1>1, RestartedMode
<1>2. CASE ~(Crash \/ Restart)
  <2>1. [Next]_vars
    BY <1>2
       DEF NodeNext, nodeVars, Switch, Exit, ListenAndServe, McpStep, RateRest,
           RateMcp, RateEnds, Signal, ServeEnds, MainEnds, Next
  <2> QED
    BY <2>1, NextMode
<1> QED
  BY <1>1, <1>2

\* engine.go:659-683, main.go: the switches of mode keep one set of workers
\* also in a node that crashes and restarts.
THEOREM NodeWorkersCorrect == NodeSpec => []OneSetOfWorkers
<1>1. NodeInit => ModeInv
  BY InitMode DEF NodeInit
<1>2. ModeInv => OneSetOfWorkers
  BY DEF ModeInv
<1> QED
  BY <1>1, <1>2, NextNodeMode, PTL DEF NodeSpec

-----------------------------------------------------------------------------
(* The MCP server *)

LEMMA PrefixOfConcat ==
  ASSUME NEW S, NEW s \in Seq(S), NEW t \in Seq(S)
  PROVE  IsPrefix(s, s \o t)
<1>1. Len(s) \in Nat /\ Len(t) \in Nat /\ Len(s \o t) = Len(s) + Len(t)
  BY LenProperties, ConcatProperties
<1>2. SubSeq(s \o t, 1, Len(s)) = SubSeq(s, 1, Len(s))
  <2>1. CASE Len(s) = 0
    <3>1. Len(s) < 1 /\ Len(s) \in Int /\ 1 \in Int
      BY <1>1, <2>1
    <3> QED
      BY <3>1, SubSeqEmpty
  <2>2. CASE Len(s) # 0
    <3>1. 1 \in 1..Len(s) /\ Len(s) \in 1..Len(s)
      BY <1>1, <2>2
    <3> QED
      BY <3>1, SubSeqOfConcat1
  <2> QED
    BY <2>1, <2>2
<1> QED
  BY <1>1, <1>2 DEF IsPrefix

\* What is written for the line in hand is a list of numbers of lines.
LEMMA WrittenType ==
  ASSUME McpTypeOK, lines >= 1, NEW kind
  PROVE  Written(kind) \in Seq(1..MaxLines)
<1>1. lines \in 1..MaxLines
  BY McpAssumption DEF McpTypeOK
<1>2. <<>> \in Seq(1..MaxLines) /\ <<lines>> \in Seq(1..MaxLines)
  BY <1>1
<1> QED
  BY <1>2 DEF Written

LEMMA InitMcp == McpInit => McpInv
<1>1. <<>> \in Seq(1..MaxLines)
  OBVIOUS
<1> QED
  <2>1. McpInit => owed \in Seq(1..MaxLines) /\ answered \in Seq(1..MaxLines)
    BY <1>1 DEF McpInit
  <2>2. McpInit => lines \in 0..MaxLines
    BY McpAssumption DEF McpInit
  <2> QED
    BY <2>1, <2>2 DEF McpInit, McpInv, McpTypeOK

LEMMA GoneMcp == McpGone => McpInv'
<1>1. <<>> \in Seq(1..MaxLines)
  OBVIOUS
<1> QED
  <2>1. McpGone => owed' \in Seq(1..MaxLines) /\ answered' \in Seq(1..MaxLines)
    BY <1>1 DEF McpGone
  <2>2. McpGone => lines' \in 0..MaxLines
    BY McpAssumption DEF McpGone
  <2> QED
    BY <2>1, <2>2 DEF McpGone, McpInv, McpTypeOK

LEMMA ReadStep ==
  ASSUME McpInv, NEW kind \in Kinds, Read(kind)
  PROVE  McpInv'
<1>1. McpTypeOK /\ owed = answered
  BY DEF McpInv, Read
<1>2. lines' = lines + 1 /\ lines + 1 \in 1..MaxLines
  BY <1>1, McpAssumption DEF Read, McpTypeOK
<1>3. /\ serve' = "handling" /\ line' = kind /\ kind # "tooLong"
      /\ UNCHANGED <<answered, closed>>
      /\ owed' = IF WantsAnswer(kind) THEN Append(owed, lines + 1) ELSE owed
  BY DEF Read
<1>4. owed' = answered' \o Written(line)' /\ owed' \in Seq(1..MaxLines)
  <2>1. CASE kind = "notice"
    <3>1. owed' = owed /\ Written(line)' = <<>>
      BY <1>3, <2>1 DEF WantsAnswer, Written
    <3> QED
      BY <1>1, <1>3, <3>1, ConcatEmptySeq DEF McpTypeOK
  <2>2. CASE kind # "notice"
    <3>1. owed' = Append(owed, lines + 1) /\ Written(line)' = <<lines + 1>>
      BY <1>2, <1>3, <2>2 DEF WantsAnswer, Written
    <3>2. Append(owed, lines + 1) \in Seq(1..MaxLines)
      BY <1>1, <1>2, AppendProperties DEF McpTypeOK
    <3> QED
      BY <1>1, <1>2, <1>3, <3>1, <3>2, AppendIsConcat DEF McpTypeOK
  <2> QED
    BY <2>1, <2>2
<1>5. McpTypeOK'
  BY <1>1, <1>2, <1>3, <1>4 DEF McpTypeOK
<1>6. lines' >= 1
  BY <1>2
<1> QED
  BY <1>3, <1>4, <1>5, <1>6 DEF McpInv

LEMMA HandledStep ==
  ASSUME McpInv, Handled
  PROVE  McpInv'
<1>1. McpTypeOK /\ lines >= 1 /\ owed = answered \o Written(line)
  BY DEF McpInv, Handled
<1>2. /\ serve' = "reading" /\ line' = NoLine /\ answered' = owed
      /\ UNCHANGED <<lines, owed, closed>>
  BY <1>1 DEF Handled
<1>3. McpTypeOK'
  BY <1>1, <1>2 DEF McpTypeOK
<1> QED
  BY <1>2, <1>3 DEF McpInv

LEMMA McpUnchanged ==
  ASSUME McpInv, UNCHANGED mcpVars
  PROVE  McpInv'
BY DEF McpInv, McpTypeOK, mcpVars, Written

LEMMA NextMcp == McpInv /\ [NodeNext]_nodeVars => McpInv'
<1> SUFFICES ASSUME McpInv, [NodeNext]_nodeVars PROVE McpInv'
  OBVIOUS
<1>1. CASE ListenAndServe
  BY <1>1 DEF ListenAndServe, McpStart, McpInv, McpTypeOK
<1>2. CASE McpStep
  <2>1. CASE CloseInput
    BY <2>1 DEF CloseInput, McpInv, McpTypeOK, Written
  <2>2. ASSUME NEW kind \in Kinds, ScanEnds(kind) PROVE McpInv'
    BY <2>2 DEF ScanEnds, McpInv, McpTypeOK
  <2> QED
    BY <1>2, <2>1, <2>2, ReadStep, HandledStep DEF McpStep
<1>3. CASE RateMcp \/ RateEnds
  BY <1>3, HandledStep, McpUnchanged DEF RateMcp, RateEnds
<1>4. CASE MainEnds \/ Crash
  BY <1>4, GoneMcp DEF MainEnds, Crash
<1>5. CASE UNCHANGED mcpVars
  BY <1>5, McpUnchanged
<1> QED
  BY <1>1, <1>2, <1>3, <1>4, <1>5
  DEF NodeNext, nodeVars, Switch, Exit, RateRest, Signal, ServeEnds, Restart

\* server.go: whatever the lines, the ratings that hold one up, crashes and
\* restarts, every request is answered exactly once, in its turn.
THEOREM AnswersInTurn == NodeSpec => []AnsweredInTurn
<1>1. NodeInit => McpInv
  BY InitMcp DEF NodeInit
<1>2. McpInv => AnsweredInTurn
  <2> SUFFICES ASSUME McpInv PROVE AnsweredInTurn
    OBVIOUS
  <2>1. McpTypeOK
    BY DEF McpInv
  <2>2. CASE serve = "handling"
    BY <2>1, <2>2, WrittenType, PrefixOfConcat DEF McpInv, McpTypeOK, AnsweredInTurn
  <2>3. CASE serve # "handling"
    <3>1. <<>> \in Seq(1..MaxLines) /\ owed = answered \o <<>>
      BY <2>1, <2>3, ConcatEmptySeq DEF McpInv, McpTypeOK
    <3> QED
      BY <2>1, <2>3, <3>1, PrefixOfConcat DEF McpInv, McpTypeOK, AnsweredInTurn
  <2> QED
    BY <2>2, <2>3
<1> QED
  BY <1>1, <1>2, NextMcp, PTL DEF NodeSpec

-----------------------------------------------------------------------------
(* The types of the whole node *)

LEMMA LoadedType ==
  ASSUME RepTypeOK
  PROVE  Loaded \in [Authors -> Int]
BY DEF RepTypeOK, Loaded, Unrated

LEMMA RatedTypes ==
  ASSUME RepTypeOK, NEW a \in Authors, NEW delta \in Deltas,
         AddScore(a, delta) \/ OpenFails(a, delta)
  PROVE  RepTypeOK'
<1>1. delta \in Int
  BY ReputationAssumption
<1>2. scores' \in [Authors -> Int] /\ given' \in [Authors -> Int]
  BY <1>1 DEF RepTypeOK, AddScore, OpenFails
<1>3. ratings' \in 0..MaxRatings /\ repFaults' \in 0..MaxFaults
  BY ReputationAssumption DEF RepTypeOK, AddScore, OpenFails
<1> QED
  BY <1>2, <1>3 DEF RepTypeOK, AddScore, OpenFails

ProcessTypes ==
  /\ rater \in {"none", "rest", "mcp"}
  /\ saving <=> rater # "none"
  /\ starts \in 1..MaxStarts /\ crashes \in 0..MaxCrashes

LEMMA InitProcess == NodeInit => RepTypeOK /\ ProcessTypes
<1>1. NodeInit => RepTypeOK
  <2>1. NodeInit => scores \in [Authors -> Int] /\ given \in [Authors -> Int]
    BY DEF NodeInit, RepInit, Unrated
  <2>2. NodeInit => ratings \in 0..MaxRatings /\ repFaults \in 0..MaxFaults
    BY ReputationAssumption DEF NodeInit, RepInit
  <2> QED
    BY <2>1, <2>2 DEF NodeInit, RepInit, RepTypeOK
<1>2. NodeInit => ProcessTypes
  <2>1. NodeInit => starts \in 1..MaxStarts /\ crashes \in 0..MaxCrashes
    BY NodeAssumption DEF NodeInit
  <2> QED
    BY <2>1 DEF NodeInit, RepInit, ProcessTypes
<1> QED
  BY <1>1, <1>2

LEMMA NextProcess ==
  RepTypeOK /\ ProcessTypes /\ [NodeNext]_nodeVars => RepTypeOK' /\ ProcessTypes'
<1> SUFFICES ASSUME RepTypeOK, ProcessTypes, [NodeNext]_nodeVars
             PROVE  RepTypeOK' /\ ProcessTypes'
  OBVIOUS
<1>1. CASE UNCHANGED <<repVars, processVars>>
  BY <1>1 DEF repVars, processVars, RepTypeOK, ProcessTypes
<1>2. CASE RateRest
  <2>1. RepTypeOK'
    BY <1>2, RatedTypes DEF RateRest
  <2>2. ProcessTypes'
    BY <1>2 DEF RateRest, AddScore, OpenFails, ProcessTypes
  <2> QED
    BY <2>1, <2>2
<1>3. CASE RateMcp
  <2>1. RepTypeOK'
    BY <1>3, RatedTypes DEF RateMcp
  <2>2. ProcessTypes'
    BY <1>3 DEF RateMcp, AddScore, OpenFails, ProcessTypes
  <2> QED
    BY <2>1, <2>2
<1>4. CASE RateEnds
  <2>1. repFaults' \in 0..MaxFaults /\ repFile' \in [Authors -> Int] \cup {NoFile, Torn}
    BY <1>4, ReputationAssumption DEF RateEnds, SaveDone, SaveFails, RepTypeOK
  <2> QED
    BY <1>4, <2>1 DEF RateEnds, SaveDone, SaveFails, RepTypeOK, ProcessTypes
<1>5. CASE MainEnds
  BY <1>5 DEF MainEnds, RepKilled, RepTypeOK, ProcessTypes
<1>6. CASE Crash
  <2>1. crashes' \in 0..MaxCrashes
    BY <1>6, NodeAssumption DEF Crash, ProcessTypes
  <2> QED
    BY <1>6, <2>1 DEF Crash, RepKilled, RepTypeOK, ProcessTypes
<1>7. CASE Restart
  BY <1>7, LoadedType, NodeAssumption DEF Restart, RepLoad, RepTypeOK, ProcessTypes
<1> QED
  BY <1>1, <1>2, <1>3, <1>4, <1>5, <1>6, <1>7
  DEF NodeNext, nodeVars, Switch, Exit, ListenAndServe, McpStep, Signal, ServeEnds

\* Every variable of the node keeps its type, and a rating is being saved just
\* while the call of AddScore that holds rs.mu is known.
THEOREM NodeTypeCorrect == NodeSpec => []NodeTypeOK
<1>1. NodeInit => ModeInv /\ McpInv
  BY InitMode, InitMcp DEF NodeInit
<1>2. ModeInv /\ McpInv /\ RepTypeOK /\ ProcessTypes => NodeTypeOK
  BY DEF ModeInv, McpInv, ProcessTypes, NodeTypeOK
<1> QED
  BY <1>1, <1>2, InitProcess, NextNodeMode, NextMcp, NextProcess, PTL DEF NodeSpec
===============================================================================
