----------------------------- MODULE RetrievalWalk -----------------------------
(***************************************************************************)
(* One run of the contextualiser: it looks for chunks near a question,     *)
(* then walks from key concepts to their facts, to the chunks the model    *)
(* picks from them, and on to neighbouring concepts, until nothing is left *)
(* or its budget of model calls is spent.  What the model picks is any of  *)
(* what it was shown, or an id it made up.                                 *)
(*                                                                         *)
(* A node's step and the edge after it are one action.                     *)
(***************************************************************************)
EXTENDS Integers, FiniteSets

CONSTANTS KeyConcepts, Texts,   \* concepts and chunks of the scope searched
          MadeUp,               \* an id that is no chunk's
          MaxCalls,             \* MAX_LLM_CALLS_PER_RUN
          MaxBatches,           \* MAX_ATOMIC_FACTS / MAX_GROUP_SIZE
          RecursionLimit        \* supersteps LangGraph allows a run

ASSUME WalkAssumption == MaxCalls \in Nat /\ MaxBatches \in Nat \ {0} /\ RecursionLimit \in Nat

VARIABLES library,       \* the facts, and whether the concepts are neighbours; fixed
          node, nextStep,
          llmCalls,      \* provider calls reported by the nodes
          steps,         \* history: supersteps
          queuedConcepts, processedConcepts, processedFacts,
          queuedChunks, processedChunks,
          explored,      \* neighbouringAlreadyExplored
          selected       \* history: chunks the model picked

walkVars == <<library, node, nextStep, llmCalls, steps, queuedConcepts, processedConcepts,
              processedFacts, queuedChunks, processedChunks, explored, selected>>

Facts == KeyConcepts \X Texts
Nodes == {"question_refiner", "rational_plan", "chunk_vector", "key_concepts", "atomic_facts",
          "neighbouring_nodes", "chunks", "answer", "end", "thrown"}

WalkTypeOK ==
  /\ library \in [facts : SUBSET Facts, neighbours : BOOLEAN]
  /\ node \in Nodes /\ nextStep \in Nodes
  /\ llmCalls \in Nat /\ steps \in Nat
  /\ queuedConcepts \subseteq KeyConcepts /\ processedConcepts \subseteq KeyConcepts
  /\ processedFacts \subseteq Facts
  /\ queuedChunks \subseteq Texts \cup {MadeUp} /\ processedChunks \subseteq Texts
  /\ explored \in BOOLEAN
  /\ selected \subseteq Texts

\* selectInitialNode: a follow-up question is refined first.
WalkInit ==
  /\ library \in [facts : SUBSET Facts, neighbours : BOOLEAN]
  /\ node \in {"rational_plan", "question_refiner"} /\ nextStep = "rational_plan"
  /\ llmCalls = 0 /\ steps = 0
  /\ queuedConcepts = {} /\ processedConcepts = {} /\ processedFacts = {}
  /\ queuedChunks = {} /\ processedChunks = {}
  /\ explored = FALSE /\ selected = {}

-----------------------------------------------------------------------------
(* The edges. *)

\* A node runs, reports n calls and the next step, and goes where it may.
Leaves(n, next) ==
  /\ steps' = steps + 1 /\ llmCalls' = llmCalls + n /\ nextStep' = next
  /\ UNCHANGED library

\* returnState: a spent budget goes to the answer.
Routed(to) == node' = IF llmCalls' >= MaxCalls THEN "answer" ELSE to

concepts == <<queuedConcepts, processedConcepts, processedFacts>>
chunks == <<queuedChunks, processedChunks, selected>>

-----------------------------------------------------------------------------
(* The nodes. *)

RefineQuestion ==
  /\ node = "question_refiner"
  /\ Leaves(1, nextStep) /\ node' = "rational_plan"
  /\ UNCHANGED <<concepts, chunks, explored>>

Plan ==
  /\ node = "rational_plan"
  /\ Leaves(1, "key_concepts") /\ node' = "chunk_vector"
  /\ UNCHANGED <<concepts, chunks, explored>>

\* The chunks nearest to the question, without a call.
SearchChunks ==
  /\ node = "chunk_vector"
  /\ \E found \in SUBSET Texts : processedChunks' = processedChunks \cup found
  /\ Leaves(0, nextStep) /\ Routed(nextStep)
  /\ UNCHANGED <<concepts, queuedChunks, selected, explored>>

\* The concepts a node may follow: any near the question, or the neighbours of
\* those processed last.
Candidates ==
  IF nextStep = "key_concepts" THEN SUBSET KeyConcepts
  ELSE {IF library.neighbours /\ processedConcepts # {} THEN KeyConcepts \ processedConcepts ELSE {}}

\* Mutant: the ranking reports no call.
RankingCallsOfNone(usable) == 0

RankingCalls(usable) == IF usable = {} THEN 0 ELSE 1

\* KeyConceptsNodeService, behind two nodes.  That neighbours were explored is
\* reported only when there are none; either way the facts come next.
RankConcepts ==
  /\ node \in {"key_concepts", "neighbouring_nodes"}
  /\ \E found \in Candidates :
       LET usable == found \ processedConcepts
       IN /\ Leaves(RankingCalls(usable), IF usable = {} THEN "answer" ELSE "atomic_facts")
          /\ explored' = (explored \/ (usable = {} /\ nextStep = "neighbouring_nodes"))
          /\ \E picked \in SUBSET usable :
               queuedConcepts' = IF picked = {} THEN {} ELSE queuedConcepts \cup picked
  /\ Routed("atomic_facts")
  /\ UNCHANGED <<processedConcepts, processedFacts, chunks>>

Fresh == queuedConcepts \ processedConcepts

\* findAtomicFactsByKeyConcepts, without what was processed, cut off anywhere.
FactsOf(some) == {f \in library.facts \ processedFacts : f[1] \in some /\ f[2] \notin processedChunks}

WithoutFacts == IF queuedChunks = {} THEN "answer" ELSE "chunks"

\* No new concept, or no new fact.
NothingToRead ==
  /\ node = "atomic_facts"
  /\ Fresh = {} \/ FactsOf(Fresh) = {}
  /\ queuedConcepts' = IF Fresh = {} THEN {} ELSE queuedConcepts
  /\ Leaves(0, WithoutFacts) /\ Routed(WithoutFacts)
  /\ UNCHANGED <<processedConcepts, processedFacts, chunks, explored>>

\* Every batch failed; failed calls count.
EveryBatchFails ==
  /\ node = "atomic_facts" /\ FactsOf(Fresh) # {}
  /\ \E n \in 1..MaxBatches : Leaves(n, WithoutFacts)
  /\ Routed(WithoutFacts)
  /\ UNCHANGED <<concepts, chunks, explored>>

AfterFacts(picked) ==
  IF picked # {} THEN "chunks"
  ELSE IF processedConcepts = {} \/ explored THEN "answer"
  ELSE "neighbouring_nodes"

\* Only the batches that were answered count, and name chunks to read.
ReadFacts ==
  /\ node = "atomic_facts"
  /\ \E facts \in SUBSET FactsOf(Fresh), answered \in 1..MaxBatches :
       \E named \in SUBSET ({f[2] : f \in facts} \cup {MadeUp}) :
         LET picked == named \ processedChunks
         IN /\ facts # {}
            /\ Leaves(answered, AfterFacts(picked)) /\ Routed(AfterFacts(picked))
            /\ queuedChunks' = picked /\ selected' = selected \cup (picked \ {MadeUp})
            /\ processedConcepts' = Fresh /\ processedFacts' = facts
  /\ queuedConcepts' = {}
  /\ UNCHANGED <<processedChunks, explored>>

\* The chunks that exist go to the notebook.
ReadChunks ==
  /\ node = "chunks"
  /\ processedChunks' = processedChunks \cup (queuedChunks \cap Texts)
  /\ queuedChunks' = {}
  /\ Leaves(0, IF explored THEN "answer" ELSE "neighbouring_nodes") /\ Routed(nextStep')
  /\ UNCHANGED <<concepts, explored, selected>>

Finish ==
  /\ node = "answer"
  /\ Leaves(0, nextStep) /\ node' = "end"
  /\ UNCHANGED <<concepts, chunks, explored>>

\* Every node but the answer makes calls that may throw, which ends the run.
WalkThrows ==
  /\ node \notin {"answer", "end", "thrown"}
  /\ node' = "thrown"
  /\ UNCHANGED <<library, nextStep, llmCalls, steps, concepts, chunks, explored>>

WalkNext ==
  \/ RefineQuestion \/ Plan \/ SearchChunks \/ RankConcepts
  \/ NothingToRead \/ EveryBatchFails \/ ReadFacts \/ ReadChunks
  \/ Finish \/ WalkThrows

WalkSpec == WalkInit /\ [][WalkNext]_walkVars

-----------------------------------------------------------------------------
(* Properties. *)

\* However the model answers, a run ends before LangGraph cuts it off: only the
\* budget of calls stops it from going back and forth between neighbours.
NeverCutOff == steps <= RecursionLimit

\* The budget is exceeded by no more than one node's batches.
BudgetKept == llmCalls < MaxCalls + MaxBatches

\* What the model picked is read before the answer, unless the budget ran out,
\* and no chunk waits while the walk goes elsewhere.
PickedIsRead ==
  /\ node = "answer" /\ llmCalls < MaxCalls => selected \subseteq processedChunks
  /\ queuedChunks # {} => node \in {"chunks", "thrown"} \/ llmCalls >= MaxCalls

WalkSound == WalkTypeOK /\ NeverCutOff /\ BudgetKept /\ PickedIsRead
=============================================================================
