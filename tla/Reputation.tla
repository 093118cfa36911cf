------------------------------- MODULE Reputation -------------------------------
(***************************************************************************)
(* ReputationStore of src/internal/dht/reputation.go: the score of every    *)
(* author, in memory and in reputation.json. AddScore holds rs.mu while it  *)
(* changes the score and rewrites the file in place, so that a rating is    *)
(* cut in two only where the end of the process can tell the parts apart:   *)
(* between the truncation and the write of os.WriteFile. When the process   *)
(* ends and starts again is decided by Node.                                *)
(***************************************************************************)
EXTENDS Integers

CONSTANTS
  Authors,     \* public keys
  Deltas,      \* what a rating may add; the code accepts any integer
  NoFile,      \* there is no reputation.json
  Torn,        \* the file is cut: json.Unmarshal rejects it
  MaxRatings,  \* bound on the ratings given
  MaxFaults    \* bound on the saves that fail

ASSUME ReputationAssumption ==
  /\ Deltas \subseteq Int
  /\ MaxRatings \in Nat /\ MaxFaults \in Nat
  /\ NoFile \notin [Authors -> Int] /\ Torn \notin [Authors -> Int]
  /\ NoFile # Torn

VARIABLES
  scores,    \* rs.scores; an author without an entry has 0
  repFile,   \* reputation.json
  saving,    \* a rating holds rs.mu and the file is truncated
  given,     \* history: the sum of the ratings each author was given
  ratings,   \* the number of ratings
  repFaults  \* the saves that failed

repVars == <<scores, repFile, saving, given, ratings, repFaults>>

Unrated == [a \in Authors |-> 0]

RepInit ==
  /\ scores = Unrated
  /\ repFile = NoFile
  /\ saving = FALSE
  /\ given = Unrated
  /\ ratings = 0
  /\ repFaults = 0

\* AddScore, up to the write: rs.scores[key] += delta, and the file opened
\* with O_TRUNC.
AddScore(a, delta) ==
  /\ ~saving /\ ratings < MaxRatings
  /\ scores' = [scores EXCEPT ![a] = @ + delta]
  /\ given' = [given EXCEPT ![a] = @ + delta]
  /\ ratings' = ratings + 1
  /\ repFile' = Torn
  /\ saving' = TRUE
  /\ UNCHANGED repFaults

SaveDone ==
  /\ saving
  /\ repFile' = scores
  /\ saving' = FALSE
  /\ UNCHANGED <<scores, given, ratings, repFaults>>

\* The write fails; AddScore ignores the error, and the file stays torn.
SaveFails ==
  /\ saving /\ repFaults < MaxFaults
  /\ repFaults' = repFaults + 1
  /\ saving' = FALSE
  /\ UNCHANGED <<scores, repFile, given, ratings>>

\* The file cannot be opened: it stays as it was before the rating.
OpenFails(a, delta) ==
  /\ ~saving /\ ratings < MaxRatings /\ repFaults < MaxFaults
  /\ scores' = [scores EXCEPT ![a] = @ + delta]
  /\ given' = [given EXCEPT ![a] = @ + delta]
  /\ ratings' = ratings + 1
  /\ repFaults' = repFaults + 1
  /\ UNCHANGED <<repFile, saving>>

\* The process ends, whatever a save is doing. main does not wait for it.
RepKilled ==
  /\ saving' = FALSE
  /\ UNCHANGED <<scores, repFile, given, ratings, repFaults>>

\* mutant: every error of load is taken for a file that does not exist yet
LoadsAnything == TRUE
\* NewReputationStore: a file that is not there is no error, a torn one is.
Loads == repFile # Torn

Loaded == IF repFile \in {NoFile, Torn} THEN Unrated ELSE repFile

\* NewReputationStore and load; if it fails, runServe returns 1 at once.
RepLoad ==
  /\ Loads
  /\ scores' = Loaded
  /\ UNCHANGED <<repFile, saving, given, ratings, repFaults>>

-----------------------------------------------------------------------------
(* Properties; `running` says that the process has started and not ended *)

RepTypeOK ==
  /\ scores \in [Authors -> Int] /\ given \in [Authors -> Int]
  /\ repFile \in [Authors -> Int] \cup {NoFile, Torn}
  /\ saving \in BOOLEAN
  /\ ratings \in 0..MaxRatings /\ repFaults \in 0..MaxFaults

\* A node that runs knows every rating it was ever given, through any number
\* of restarts and crashes, as long as no save has failed: what a crash may
\* leave is a file the node refuses to start with, never a node that has
\* forgotten whom it distrusts.
Remembers(running) == running /\ repFaults = 0 => scores = given
===============================================================================
