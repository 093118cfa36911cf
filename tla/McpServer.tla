------------------------------- MODULE McpServer --------------------------------
(***************************************************************************)
(* The MCP server of a node (src/internal/mcp/server.go and tools.go): one  *)
(* goroutine that reads lines from standard input and handles each before   *)
(* it reads the next. What a tool does is in the modules of the engine; a   *)
(* line is here one of a few kinds, by the path it takes through Serve.     *)
(***************************************************************************)
EXTENDS Integers, Sequences, SequencesExt

CONSTANT MaxLines   \* bound on the lines of input

ASSUME McpAssumption == MaxLines \in Nat

\* "quick" is answered at once: initialize, tools/list, a call with invalid
\* parameters or of an unknown tool, hive_share, which only writes to the local
\* store, an unknown method in a request, and what is no JSON; "search" and
\* "rate" look up values in the network; "notice" is a message without an id,
\* whose methods are all unknown; "tooLong" does not fit the 64 KB of a
\* bufio.Scanner. An empty line is skipped.
Kinds == {"quick", "search", "rate", "notice", "tooLong"}
NoLine == "none"

VARIABLES
  serve,     \* "idle" (not started), "reading", "handling", "ended"
  line,      \* the kind of the line in hand, or NoLine
  lines,     \* the number of lines read
  owed,      \* history: the numbers of the lines that JSON-RPC has answered
  answered,  \* the numbers of the lines answered, in the order of the answers
  closed     \* standard input is at its end

mcpVars == <<serve, line, lines, owed, answered, closed>>

McpInit ==
  /\ serve = "idle"
  /\ line = NoLine
  /\ lines = 0
  /\ owed = <<>> /\ answered = <<>>
  /\ closed = FALSE

McpStart ==
  /\ serve = "idle" /\ serve' = "reading"
  /\ UNCHANGED <<line, lines, owed, answered, closed>>

\* The other side of standard input closes it.
CloseInput ==
  /\ ~closed /\ closed' = TRUE
  /\ UNCHANGED <<serve, line, lines, owed, answered>>

\* scanner.Scan at the end of the input, or with a line above its limit:
\* false, after which Serve returns.
ScanEnds(kind) ==
  /\ serve = "reading"
  /\ closed \/ (kind = "tooLong" /\ lines < MaxLines)
  /\ serve' = "ended"
  /\ UNCHANGED <<line, lines, owed, answered, closed>>

\* JSON-RPC wants an answer to everything but notifications.
WantsAnswer(kind) == kind # "notice"

Read(kind) ==
  /\ serve = "reading" /\ lines < MaxLines
  /\ kind # "tooLong"
  /\ serve' = "handling"
  /\ line' = kind
  /\ lines' = lines + 1
  /\ owed' = IF WantsAnswer(kind) THEN Append(owed, lines + 1) ELSE owed
  /\ UNCHANGED <<answered, closed>>

\* mutant: the test for the id is missing
WrittenAlways(kind) == <<lines>>

\* What is written for the line in hand: the default case of handleRequest
\* answers only a request with an id.
Written(kind) == IF kind = "notice" THEN <<>> ELSE <<lines>>

\* The handler returns: at once, or, for what looks up values in the network,
\* when the lookup does, which may be never (FindValue).
Handled ==
  /\ serve = "handling"
  /\ answered' = answered \o Written(line)
  /\ serve' = "reading"
  /\ line' = NoLine
  /\ UNCHANGED <<lines, owed, closed>>

\* The process is gone, or not yet started.
McpGone ==
  /\ serve' = "idle" /\ line' = NoLine /\ lines' = 0
  /\ owed' = <<>> /\ answered' = <<>>
  /\ closed' = FALSE

-----------------------------------------------------------------------------
(* Properties *)

McpTypeOK ==
  /\ serve \in {"idle", "reading", "handling", "ended"}
  /\ line \in Kinds \cup {NoLine}
  /\ lines \in 0..MaxLines
  /\ owed \in Seq(1..MaxLines) /\ answered \in Seq(1..MaxLines)
  /\ closed \in BOOLEAN

\* Agents match answers to what they sent: every request, and every line that
\* is no JSON, is answered exactly once and in its turn; nothing else is, and
\* no answer is outstanding when the next line is read or Serve returns.
AnsweredInTurn ==
  /\ IsPrefix(answered, owed)
  /\ serve # "handling" => answered = owed

\* What it needs to be inductive: between two lines nothing is owed, and while
\* a line is in hand just what Handled will write for it.
McpInv ==
  /\ McpTypeOK
  /\ serve = "handling" =>
       /\ line \in Kinds \ {"tooLong"} /\ lines >= 1
       /\ owed = answered \o Written(line)
  /\ serve # "handling" => owed = answered

-----------------------------------------------------------------------------
(* Claims of the documentation that do not hold (see README.md) *)

\* docs/API.md:43: hive_share takes chunks "larger than 32KB", which "are
\* automatically segmented": Serve ends only with its input.
LargeContentServed == serve = "ended" => closed
===============================================================================
