-------------------------------- MODULE LlmCall --------------------------------
(***************************************************************************)
(* One call of LLMService: a structured call, with its tool loop or        *)
(* without, an extraction through a forced tool, or an operator's step.    *)
(* Requests to the provider fail, hang and are made again; every answer    *)
(* costs tokens, and whoever asked is charged for them once.               *)
(*                                                                         *)
(* The deadline of an attempt ends the call for its caller.  The work goes *)
(* on until it hears of it: only a request to the provider heeds the       *)
(* signal, and an adapter with a transport of its own may ignore it.       *)
(***************************************************************************)
EXTENDS Integers, Sequences

CONSTANTS ToolCalls,         \* tool calls with their arguments
          UnknownCalls,      \* those that name no tool
          MaxModelAttempts,  \* maxAttempts of runWithTransientRetry
          MaxIterations,     \* maxToolIterations
          RepeatLimit,       \* REPEATED_TOOL_FAILURE_LIMIT
          MaxBatch           \* bound: tool calls in one answer

ASSUME LlmAssumption ==
  /\ UnknownCalls \subseteq ToolCalls
  /\ MaxModelAttempts \in Nat \ {0} /\ MaxIterations \in Nat \ {0}
  /\ RepeatLimit \in Nat \ {0} /\ MaxBatch \in Nat \ {0}

VARIABLES operation,          \* what is asked for; fixed
          phase,              \* what the work waits for
          modelAttempt,
          iteration, batch,   \* the tool loop: answers, tool calls of the last one without a reply
          streak, abandoned,  \* [ToolCalls -> failures in a row], whether the loop is given up
          reissued,           \* the structured request has been made again
          told,               \* what the caller was told
          overdue,            \* the deadline has passed
          reported,           \* tokens the call knows of
          usageRows,          \* rows of token usage
          spent, spentLate,   \* history: tokens charged, and those charged after the end
          unrecorded,         \* history: the recorder failed
          invocations,        \* history: requests to the provider
          ranLate             \* history: tool calls made after the end

loop == <<iteration, batch, streak, abandoned>>
tally == <<reported, spent, spentLate>>
ledger == <<usageRows, unrecorded>>
llmVars == <<operation, phase, modelAttempt, loop, reissued, told, overdue, tally, ledger,
             invocations, ranLate>>

Operations == {"call", "toolCall", "extract", "step"}
Invoking == {"model", "final", "first", "second", "one"}
Batches == UNION {[1..n -> ToolCalls] : n \in 0..MaxBatch}

LlmTypeOK ==
  /\ operation \in Operations
  /\ phase \in Invoking \cup {"lookup", "tools", "backoff", "backoff2", "over"}
  /\ modelAttempt \in 0..(MaxModelAttempts - 1)
  /\ iteration \in 0..MaxIterations /\ batch \in Batches
  /\ streak \in [ToolCalls -> 0..(RepeatLimit + MaxBatch)]
  /\ {abandoned, reissued, overdue, unrecorded} \subseteq BOOLEAN
  /\ told \in {"waiting", "hit", "answered", "failed"}
  /\ {reported, spent, spentLate, invocations} \subseteq Nat
  /\ usageRows \in Seq([tokens : Nat, minimum : BOOLEAN])
  /\ ranLate \subseteq ToolCalls

FirstPhase ==
  CASE operation = "call" -> "final" [] operation = "toolCall" -> "model"
    [] operation = "extract" -> "first" [] operation = "step" -> "one"

LlmInit ==
  /\ operation \in Operations /\ phase = "lookup" /\ modelAttempt = 0
  /\ iteration = 0 /\ batch = <<>> /\ streak = [t \in ToolCalls |-> 0] /\ abandoned = FALSE
  /\ reissued = FALSE /\ told = "waiting" /\ overdue = FALSE
  /\ reported = 0 /\ spent = 0 /\ spentLate = 0
  /\ usageRows = <<>> /\ unrecorded = FALSE /\ invocations = 0 /\ ranLate = {}

-----------------------------------------------------------------------------
(* Asking, charging, ending. *)

AsksModel(to) == phase' = to /\ invocations' = invocations + 1

\* An answer that carries its usage is reported as it arrives.
Charged(n) ==
  /\ spent' = spent + n /\ reported' = reported + n
  /\ spentLate' = IF told = "waiting" THEN spentLate ELSE spentLate + n

\* persistUsage writes what was reported, without the minimum charge if that is
\* nothing, and never throws; of a failure that cost nothing there is no row.
RecordUsage(outcome, n) ==
  \/ outcome = "failed" /\ n = 0 /\ UNCHANGED ledger
  \/ /\ outcome = "answered" \/ n > 0
     /\ \/ /\ usageRows' = Append(usageRows, [tokens |-> n, minimum |-> n > 0])
           /\ UNCHANGED unrecorded
        \/ unrecorded' = TRUE /\ UNCHANGED usageRows

\* Work whose caller was told already ends without a word.
Concludes(outcome, n) ==
  /\ phase' = "over"
  /\ IF told = "waiting" THEN told' = outcome /\ RecordUsage(outcome, n)
                           ELSE UNCHANGED <<told, ledger>>
  /\ UNCHANGED invocations

\* An attempt that failed for the network is made again, after a pause.
AttemptThrows(transient, n) ==
  IF transient /\ told = "waiting" /\ modelAttempt < MaxModelAttempts - 1
  THEN /\ phase' = IF phase = "second" THEN "backoff2" ELSE "backoff"
       /\ UNCHANGED <<invocations, told, ledger>>
  ELSE Concludes("failed", n)

\* A cached answer costs nothing and leaves no row.
LookUpAnswer ==
  /\ phase = "lookup"
  /\ \/ operation # "step" /\ phase' = "over" /\ told' = "hit" /\ UNCHANGED invocations
     \/ AsksModel(FirstPhase) /\ UNCHANGED told
  /\ UNCHANGED <<operation, modelAttempt, loop, reissued, overdue, tally, ledger, ranLate>>

RequestFails(transient) ==
  /\ phase \in Invoking
  /\ AttemptThrows(transient, reported)
  /\ UNCHANGED <<operation, modelAttempt, loop, reissued, overdue, tally, ranLate>>

\* The next attempt begins where the call began, or with an extraction's second
\* request.
TryAnew ==
  /\ phase \in {"backoff", "backoff2"}
  /\ modelAttempt' = modelAttempt + 1
  /\ iteration' = 0 /\ streak' = [t \in ToolCalls |-> 0] /\ abandoned' = FALSE /\ reissued' = FALSE
  /\ AsksModel(IF phase = "backoff2" THEN "second" ELSE FirstPhase)
  /\ UNCHANGED <<operation, batch, told, overdue, tally, ledger, ranLate>>

\* runBounded's deadline: the signal is aborted and the caller told.
Deadline ==
  /\ phase \in Invoking \cup {"tools"} /\ told = "waiting"
  /\ overdue' = TRUE
  /\ told' = "failed" /\ RecordUsage("failed", reported)
  /\ UNCHANGED <<operation, phase, modelAttempt, loop, reissued, tally, invocations, ranLate>>

-----------------------------------------------------------------------------
(* The tool loop. *)

\* An answer in prose ends the loop.
ModelAnswers(asked, n) ==
  /\ phase = "model"
  /\ Charged(n)
  /\ iteration' = iteration + 1 /\ batch' = asked
  /\ IF asked = <<>> THEN AsksModel("final") ELSE phase' = "tools" /\ UNCHANGED invocations
  /\ UNCHANGED <<operation, modelAttempt, streak, abandoned, reissued, told, overdue, ledger, ranLate>>

\* Mutant: a call that keeps failing ends the loop before the others are made.
LeavesAtOnce(rest, gaveUp) ==
  IF rest # <<>> /\ ~gaveUp THEN phase' = "tools" /\ UNCHANGED invocations
  ELSE AsksModel(IF gaveUp \/ iteration = MaxIterations THEN "final" ELSE "model")

\* Every call of the answer is replied to before the model is asked again.
GoesOn(rest, gaveUp) ==
  IF rest # <<>> THEN phase' = "tools" /\ UNCHANGED invocations
  ELSE AsksModel(IF gaveUp \/ iteration = MaxIterations THEN "final" ELSE "model")

\* A call that names no tool is told so, and that is no failure.
ReplyUnknown ==
  /\ phase = "tools" /\ Head(batch) \in UnknownCalls
  /\ batch' = Tail(batch) /\ GoesOn(Tail(batch), abandoned)
  /\ UNCHANGED <<operation, modelAttempt, iteration, streak, abandoned, reissued, told, overdue,
                 tally, ledger, ranLate>>

\* A success clears the streak of the same call; the last failure of a streak
\* gives up the loop.
RunTool(succeeds) ==
  LET t == Head(batch)
      failures == IF succeeds THEN 0 ELSE streak[t] + 1
      gaveUp == abandoned \/ failures >= RepeatLimit
  IN /\ phase = "tools" /\ t \notin UnknownCalls
     /\ streak' = [streak EXCEPT ![t] = failures]
     /\ abandoned' = gaveUp
     /\ batch' = Tail(batch) /\ GoesOn(Tail(batch), gaveUp)
     /\ ranLate' = IF told = "waiting" THEN ranLate ELSE ranLate \cup {t}
     /\ UNCHANGED <<operation, modelAttempt, iteration, reissued, told, overdue, tally, ledger>>

-----------------------------------------------------------------------------
(* The structured answer, the extraction, the step. *)

\* The ladder of parsers finds the answer, or throws an error that quotes the
\* payload: what it quotes may read like a network's failure.
FinalAnswers(n, usable) ==
  /\ phase = "final"
  /\ Charged(n)
  /\ IF usable THEN Concludes("answered", reported + n)
               ELSE \E transient \in BOOLEAN : AttemptThrows(transient, reported + n)
  /\ UNCHANGED <<operation, modelAttempt, loop, reissued, overdue, ranLate>>

\* A structured request that times out is made again once, before the deadline.
Reissue ==
  /\ phase = "final" /\ ~reissued /\ ~overdue
  /\ reissued' = TRUE /\ AsksModel("final")
  /\ UNCHANGED <<operation, modelAttempt, loop, told, overdue, tally, ledger, ranLate>>

\* An extraction without the tool call asks once more, with attempts of its own.
Extracts(n, usable) ==
  /\ phase \in {"first", "second"}
  /\ Charged(n)
  /\ IF usable THEN Concludes("answered", reported + n) /\ UNCHANGED modelAttempt
     ELSE IF phase = "first" /\ told = "waiting"
       THEN modelAttempt' = 0 /\ AsksModel("second") /\ UNCHANGED <<told, ledger>>
     ELSE Concludes("failed", reported + n) /\ UNCHANGED modelAttempt
  /\ UNCHANGED <<operation, loop, reissued, overdue, ranLate>>

StepAnswers(n) ==
  /\ phase = "one"
  /\ Charged(n) /\ Concludes("answered", reported + n)
  /\ UNCHANGED <<operation, modelAttempt, loop, reissued, overdue, ranLate>>

LlmNext ==
  \/ LookUpAnswer \/ TryAnew \/ Deadline \/ Reissue \/ ReplyUnknown
  \/ \E transient \in BOOLEAN : RequestFails(transient)
  \/ \E succeeds \in BOOLEAN : RunTool(succeeds)
  \/ \E n \in 0..1 :
       \/ \E asked \in Batches : ModelAnswers(asked, n)
       \/ \E usable \in BOOLEAN : FinalAnswers(n, usable) \/ Extracts(n, usable)
       \/ StepAnswers(n)

LlmSpec == LlmInit /\ [][LlmNext]_llmVars

-----------------------------------------------------------------------------
(* Properties. *)

\* Whatever fails, is made again or passes its deadline, what the provider
\* charged up to the end is recorded once, with no minimum for what nobody
\* measured; only what an adapter that ignores the signal fetches later is lost.
ChargedOnce ==
  LET due == spent - spentLate
  IN /\ told \in {"waiting", "hit"} => usageRows = <<>>
     /\ told = "answered" => Len(usageRows) = 1 \/ unrecorded
     /\ told = "failed" /\ due > 0 => Len(usageRows) = 1 \/ unrecorded
     /\ told = "failed" /\ due = 0 => usageRows = <<>>
     /\ usageRows # <<>> => usageRows = <<[tokens |-> due, minimum |-> due > 0]>>
     /\ spentLate > 0 => overdue

\* The model is never asked while a tool call of its own is without a reply:
\* providers refuse such a conversation.
RepliedTo == phase \in Invoking => batch = <<>>

\* A model that repeats a failing call, or asks for tools without end, is given
\* its tools no more: the requests of a call are bounded.
LoopEnds ==
  /\ phase = "model" => iteration < MaxIterations /\ \A t \in ToolCalls : streak[t] < RepeatLimit
  /\ invocations <= MaxModelAttempts * (IF operation = "toolCall" THEN MaxIterations + 2 ELSE 2)

\* Once the caller has its answer nothing runs for it, and after a deadline no
\* attempt is begun.
NothingLingers ==
  /\ told # "waiting" /\ phase # "over" => overdue /\ phase \notin {"backoff", "backoff2"}
  /\ ranLate # {} => overdue

LlmCallSound == LlmTypeOK /\ ChargedOnce /\ RepliedTo /\ LoopEnds /\ NothingLingers
=============================================================================
