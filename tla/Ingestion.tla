------------------------------- MODULE Ingestion -------------------------------
(***************************************************************************)
(* The ingestion of one HowTo: a request replaces its chunks and queues a  *)
(* job for each, every job analyses its chunk and queues a finalisation,   *)
(* and the finalisation that wins the claim completes the HowTo.  Requests *)
(* (create, update, reindex) may overlap; a pass is what one request does, *)
(* and a job is named by its pass and its chunk.  A finalisation is the    *)
(* second half of the job that queued it.                                  *)
(***************************************************************************)
EXTENDS Integers, FiniteSets

CONSTANTS Passes,           \* requests
          MaxChunks,        \* bound: chunks of all texts together
          MaxIngestFaults   \* bound: calls that throw, workers that die

ASSUME IngestAssumption == MaxChunks \in Nat /\ MaxIngestFaults \in Nat

ChunkIds == Passes \X (1..MaxChunks)
Jobs == Passes \X ChunkIds

VARIABLES aiStatus,         \* of the HowTo
          finalisationClaimed,
          chunkStatus,      \* [ChunkIds -> AiStatus, or "absent"]
          pass,             \* [Passes -> step of the request]
          parts,            \* [Passes -> chunks it still has to create]
          toQueue,          \* [Passes -> chunks it still has to queue]
          chunkJob,         \* [Jobs -> step]
          chunksLeft,       \* chunks the bound still allows
          overtaken,        \* history: a pass began before the one before had settled
          ingestFaults

requests == <<pass, parts, toQueue, chunksLeft>>
ingestVars == <<aiStatus, finalisationClaimed, chunkStatus, requests, chunkJob, overtaken,
                ingestFaults>>

Running == {"delete", "chunk", "create", "mark", "queue"}
Open == {"queued", "defer", "analyse", "hand over", "finalise", "claimed", "complete"}
Blocking == {"pending", "in_progress"}

IngestTypeOK ==
  /\ aiStatus \in {"none", "in_progress", "completed", "pending_credits"}
  /\ finalisationClaimed \in BOOLEAN
  /\ chunkStatus \in [ChunkIds -> Blocking \cup {"absent", "completed", "pending_credits"}]
  /\ pass \in [Passes -> Running \cup {"new", "done"}]
  /\ chunksLeft \in 0..MaxChunks
  /\ parts \in [Passes -> 0..MaxChunks] /\ toQueue \in [Passes -> SUBSET ChunkIds]
  /\ chunkJob \in [Jobs -> Open \cup {"none", "done", "finalised"}]
  /\ overtaken \in BOOLEAN
  /\ ingestFaults \in 0..MaxIngestFaults

IngestInit ==
  /\ aiStatus = "none" /\ finalisationClaimed = FALSE
  /\ chunkStatus = [c \in ChunkIds |-> "absent"]
  /\ pass = [p \in Passes |-> "new"]
  /\ parts = [p \in Passes |-> 0] /\ toQueue = [p \in Passes |-> {}]
  /\ chunkJob = [j \in Jobs |-> "none"]
  /\ chunksLeft = MaxChunks /\ overtaken = FALSE /\ ingestFaults = 0

Present == {c \in ChunkIds : chunkStatus[c] # "absent"}
AllAtRest == /\ \A p \in Passes : pass[p] \notin Running
             /\ \A j \in Jobs : chunkJob[j] \notin Open

\* SET on a chunk that is gone matches nothing.
WithChunk(c, s) == IF c \in Present THEN [chunkStatus EXCEPT ![c] = s] ELSE chunkStatus
AtStep(p, s) == pass' = [pass EXCEPT ![p] = s]
JobTo(j, s) == chunkJob' = [chunkJob EXCEPT ![j] = s]
Throws == ingestFaults < MaxIngestFaults /\ ingestFaults' = ingestFaults + 1

-----------------------------------------------------------------------------
(* _chunkAndQueue. *)

StartPass(p) ==
  /\ pass[p] = "new"
  /\ aiStatus' = "in_progress"
  /\ overtaken' = (overtaken \/ ~AllAtRest)
  /\ AtStep(p, "delete")
  /\ UNCHANGED <<finalisationClaimed, chunkStatus, parts, toQueue, chunkJob, chunksLeft,
                 ingestFaults>>

DeleteChunks(p) ==
  /\ pass[p] = "delete"
  /\ chunkStatus' = [c \in ChunkIds |-> "absent"]
  /\ AtStep(p, "chunk")
  /\ UNCHANGED <<aiStatus, finalisationClaimed, parts, toQueue, chunkJob, chunksLeft, overtaken,
                 ingestFaults>>

CutUp(p, n) == parts' = [parts EXCEPT ![p] = n] /\ chunksLeft' = chunksLeft - n

\* The text is cut up; createChunks begins by arming the claim again,
ArmClaim(p) ==
  /\ pass[p] = "chunk"
  /\ \E n \in 0..chunksLeft : CutUp(p, n)
  /\ finalisationClaimed' = FALSE
  /\ AtStep(p, "create")
  /\ UNCHANGED <<aiStatus, chunkStatus, toQueue, chunkJob, overtaken, ingestFaults>>

\* creates the chunks one by one,
CreateChunk(p) ==
  /\ pass[p] = "create" /\ parts[p] > 0
  /\ chunkStatus' = [chunkStatus EXCEPT ![<<p, parts[p]>>] = "pending"]
  /\ parts' = [parts EXCEPT ![p] = @ - 1]
  /\ UNCHANGED <<aiStatus, finalisationClaimed, pass, toQueue, chunkJob, chunksLeft, overtaken,
                 ingestFaults>>

\* and returns every chunk the HowTo has by then.
ListChunks(p) ==
  /\ pass[p] = "create" /\ parts[p] = 0
  /\ toQueue' = [toQueue EXCEPT ![p] = Present]
  /\ AtStep(p, "mark")
  /\ UNCHANGED <<aiStatus, finalisationClaimed, chunkStatus, parts, chunkJob, chunksLeft,
                 overtaken, ingestFaults>>

\* The request ends with its last job.
MarkAgain(p) ==
  /\ pass[p] = "mark"
  /\ aiStatus' = "in_progress"
  /\ AtStep(p, IF toQueue[p] = {} THEN "done" ELSE "queue")
  /\ UNCHANGED <<finalisationClaimed, chunkStatus, parts, toQueue, chunkJob, chunksLeft,
                 overtaken, ingestFaults>>

QueueChunk(p, c) ==
  /\ pass[p] = "queue" /\ c \in toQueue[p]
  /\ JobTo(<<p, c>>, "queued")
  /\ toQueue' = [toQueue EXCEPT ![p] = @ \ {c}]
  /\ AtStep(p, IF toQueue[p] = {c} THEN "done" ELSE "queue")
  /\ UNCHANGED <<aiStatus, finalisationClaimed, chunkStatus, parts, chunksLeft, overtaken,
                 ingestFaults>>

\* A call of the request throws: what it has done stays.
PassFails(p) ==
  /\ pass[p] \in Running /\ Throws
  /\ AtStep(p, "done")
  /\ UNCHANGED <<aiStatus, finalisationClaimed, chunkStatus, parts, toQueue, chunkJob,
                 chunksLeft, overtaken>>

-----------------------------------------------------------------------------
(* The job of a chunk. *)

\* A company without AI: the job is dropped.
DropWithoutAi(j) ==
  /\ chunkJob[j] = "queued"
  /\ JobTo(j, "done")
  /\ UNCHANGED <<aiStatus, finalisationClaimed, chunkStatus, requests, overtaken, ingestFaults>>

\* A company without credits: the chunk is deferred,
DeferChunk(j) ==
  /\ chunkJob[j] = "queued"
  /\ chunkStatus' = WithChunk(j[2], "pending_credits")
  /\ JobTo(j, "defer")
  /\ UNCHANGED <<aiStatus, finalisationClaimed, requests, overtaken, ingestFaults>>

\* and so is its owner.
DeferOwner(j) ==
  /\ chunkJob[j] = "defer"
  /\ aiStatus' = "pending_credits"
  /\ JobTo(j, "done")
  /\ UNCHANGED <<finalisationClaimed, chunkStatus, requests, overtaken, ingestFaults>>

\* A chunk that is gone ends its job; one deleted after the read is analysed.
StartAnalysis(j) ==
  /\ chunkJob[j] = "queued"
  /\ chunkStatus' = WithChunk(j[2], "in_progress")
  /\ JobTo(j, IF j[2] \in Present THEN "analyse" ELSE "done")
  /\ UNCHANGED <<aiStatus, finalisationClaimed, requests, overtaken, ingestFaults>>

\* The analysis, or the empty one after its retries, is written.
EndAnalysis(j) ==
  /\ chunkJob[j] = "analyse"
  /\ chunkStatus' = WithChunk(j[2], "completed")
  /\ JobTo(j, "hand over")
  /\ UNCHANGED <<aiStatus, finalisationClaimed, requests, overtaken, ingestFaults>>

\* Mutant: a chunk that is not the last queues no finalisation.
HandOverFirst(j) ==
  /\ chunkJob[j] = "hand over"
  /\ JobTo(j, IF \E i \in Jobs \ {j} : chunkJob[i] \in Open THEN "finalise" ELSE "done")
  /\ UNCHANGED <<aiStatus, finalisationClaimed, chunkStatus, requests, overtaken, ingestFaults>>

\* Every chunk queues a finalisation: only the last can succeed.
HandOver(j) ==
  /\ chunkJob[j] = "hand over"
  /\ JobTo(j, "finalise")
  /\ UNCHANGED <<aiStatus, finalisationClaimed, chunkStatus, requests, overtaken, ingestFaults>>

-----------------------------------------------------------------------------
(* The finalisation. *)

NothingBlocks == \A c \in Present : chunkStatus[c] \notin Blocking

\* claimContentFinalisation takes the node's lock first: test and set are one.
Claim(j) ==
  LET wins == ~finalisationClaimed /\ NothingBlocks
  IN /\ chunkJob[j] = "finalise"
     /\ finalisationClaimed' = (finalisationClaimed \/ wins)
     /\ JobTo(j, IF wins THEN "claimed" ELSE "done")
     /\ UNCHANGED <<aiStatus, chunkStatus, requests, overtaken, ingestFaults>>

MarkInProgress(j) ==
  /\ chunkJob[j] = "claimed"
  /\ aiStatus' = "in_progress"
  /\ JobTo(j, "complete")
  /\ UNCHANGED <<finalisationClaimed, chunkStatus, requests, overtaken, ingestFaults>>

MarkCompleted(j) ==
  /\ chunkJob[j] = "complete"
  /\ aiStatus' = "completed"
  /\ JobTo(j, "finalised")
  /\ UNCHANGED <<finalisationClaimed, chunkStatus, requests, overtaken, ingestFaults>>

\* A call throws or the worker dies.  A finalisation that throws releases the
\* claim, one that dies keeps it; a job has a single attempt.
JobFails(j) ==
  /\ chunkJob[j] \in Open /\ Throws
  /\ \/ UNCHANGED finalisationClaimed
     \/ chunkJob[j] \in {"claimed", "complete"} /\ finalisationClaimed' = FALSE
  /\ JobTo(j, "done")
  /\ UNCHANGED <<aiStatus, chunkStatus, requests, overtaken>>

-----------------------------------------------------------------------------
PassStep(p) == \/ StartPass(p) \/ DeleteChunks(p) \/ ArmClaim(p) \/ CreateChunk(p)
               \/ ListChunks(p) \/ MarkAgain(p) \/ PassFails(p)
               \/ \E c \in ChunkIds : QueueChunk(p, c)
JobStep(j) == \/ DropWithoutAi(j) \/ DeferChunk(j) \/ DeferOwner(j) \/ StartAnalysis(j)
              \/ EndAnalysis(j) \/ HandOver(j) \/ Claim(j) \/ MarkInProgress(j)
              \/ MarkCompleted(j) \/ JobFails(j)

IngestNext == (\E p \in Passes : PassStep(p)) \/ (\E j \in Jobs : JobStep(j))

IngestSpec == IngestInit /\ [][IngestNext]_ingestVars

-----------------------------------------------------------------------------
(* Properties. *)

\* A HowTo that is completed has no chunk left to analyse, unless a pass began
\* while the one before still had a request or a job under way.
CompletedIsWhole ==
  ~overtaken /\ aiStatus = "completed" => \A c \in Present : chunkStatus[c] \notin Blocking

\* One finalisation of a pass runs to its end, whatever the number of its
\* chunks, the order of their jobs and the ones that failed.
FinalisedOncePerPass ==
  ~overtaken => \A p \in Passes :
    Cardinality({j \in Jobs : j[1] = p /\ chunkJob[j] \in {"claimed", "complete", "finalised"}}) <= 1

\* Once all has settled, a HowTo whose chunks are all analysed is completed:
\* the last job to finish finds the claim free.  Failures and overlapping
\* passes excepted.
NobodyIsWedged ==
  /\ AllAtRest /\ ~overtaken /\ ingestFaults = 0
  /\ Present # {} /\ \A c \in Present : chunkStatus[c] = "completed"
  => aiStatus = "completed"

\* A content is completed when, and only when, all its chunks are: not before,
\* once per pass, and not never.
IngestSound == IngestTypeOK /\ CompletedIsWhole /\ FinalisedOncePerPass /\ NobodyIsWedged
=============================================================================
