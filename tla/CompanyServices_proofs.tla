------------------------ MODULE CompanyServices_proofs ------------------------
(***************************************************************************)
(* The safety of the services that a company's content and its questions   *)
(* go through, and of its documents and the lists it pages through, for    *)
(* every value of their constants.                                         *)
(*                                                                         *)
(* Each service has a part of its own: the inductive invariant, one lemma  *)
(* per action, and the theorem.  Most invariants say what the step an      *)
(* actor is at tells of the state it shares with the others; histories     *)
(* (crossed, overtaken, overlooked...) name the exceptions, and the        *)
(* invariant says what an exception has left behind.  What is claimed of   *)
(* documents and lists is of sequences: the lemmas about ranks, tilings    *)
(* and distinct lists come first, the invariants rest on them.             *)
(***************************************************************************)
EXTENDS Ingestion, CommunitySummaries, RetrievalWalk, Conversation,
        Chunking, EntityListing, FiniteSetTheorems, SequenceTheorems, TLAPS

LEMMA AtMostOne ==
  ASSUME NEW S, \A x, y \in S : x = y
  PROVE  IsFiniteSet(S) /\ Cardinality(S) <= 1
<1>1. CASE S = {}
  BY <1>1, FS_EmptySet
<1>2. CASE S # {}
  <2>1. PICK x \in S : TRUE
    BY <1>2
  <2>2. S = {x}
    BY <2>1
  <2>3. IsFiniteSet({x}) /\ Cardinality({x}) = 1
    BY FS_Singleton
  <2> QED
    BY <2>2, <2>3
<1> QED
  BY <1>1, <1>2

-----------------------------------------------------------------------------
(* The ingestion of a HowTo.  All that is claimed is of passes that follow  *)
(* one another: then one pass is active at a time, the status of a chunk    *)
(* says where its job is, and what decides who finalises is the claim, held *)
(* as long as another job of the pass could still take it (ClaimHeld).      *)

Won == {"claimed", "complete", "finalised"}

\* A pass is active as long as its request or one of its jobs is.
ActivePass(p) == pass[p] \in Running \/ \E j \in Jobs : j[1] = p /\ chunkJob[j] \in Open
OneActivePass == \A p, q \in Passes : ActivePass(p) /\ ActivePass(q) => p = q

\* A request starts from no chunks and no jobs, and queues what it has created.
PassInOrder(p) ==
  /\ pass[p] = "chunk" => \A c \in ChunkIds : chunkStatus[c] = "absent"
  /\ pass[p] \in {"create", "mark"} => \A c \in ChunkIds : chunkStatus[c] \in {"absent", "pending"}
  /\ pass[p] = "create" => ~finalisationClaimed
  /\ pass[p] = "mark" => \A c \in toQueue[p] : chunkStatus[c] = "pending"
  /\ pass[p] \in {"new", "delete", "chunk", "create", "mark"} =>
       \A j \in Jobs : j[1] = p => chunkJob[j] = "none"
  /\ pass[p] = "queue" =>
       /\ toQueue[p] # {}
       /\ \A c \in toQueue[p] : chunkStatus[c] = "pending"
       /\ \A j \in Jobs : j[1] = p /\ j[2] \in toQueue[p] => chunkJob[j] = "none"

\* The status of a chunk says where its job is.
JobInOrder(j) ==
  /\ chunkJob[j] = "queued" => chunkStatus[j[2]] = "pending"
  /\ chunkJob[j] = "analyse" => chunkStatus[j[2]] = "in_progress"
  /\ chunkJob[j] = "defer" => chunkStatus[j[2]] = "pending_credits"
  /\ chunkJob[j] \in Won => pass[j[1]] = "done"

\* The claim is held as long as another job could take it from the one that won
\* it, and while it is held nothing is left to analyse.
OneWins == \A i, j \in Jobs : chunkJob[i] \in Won /\ chunkJob[j] \in Won /\ i[1] = j[1] => i = j
ClaimHeld ==
  \A i, j \in Jobs : chunkJob[i] \in Won /\ chunkJob[j] \in Open /\ i[1] = j[1] => finalisationClaimed
ClaimIsDue == finalisationClaimed => NothingBlocks

CompletedForGood == aiStatus = "completed" => NothingBlocks /\ \A p \in Passes : pass[p] \notin Running

\* With every chunk analysed, a job is on its way to the claim, or holds it, or the
\* HowTo is completed.
OnTheWay ==
  /\ ingestFaults = 0 /\ Present # {} /\ (\A c \in Present : chunkStatus[c] = "completed")
  /\ \A p \in Passes : pass[p] \notin Running
  => IF finalisationClaimed THEN aiStatus = "completed" \/ \E j \in Jobs : chunkJob[j] \in {"claimed", "complete"}
     ELSE \E j \in Jobs : chunkJob[j] \in {"hand over", "finalise"}

IngestInv ==
  ~overtaken => /\ OneActivePass /\ (\A p \in Passes : PassInOrder(p)) /\ (\A j \in Jobs : JobInOrder(j))
                /\ OneWins /\ ClaimHeld /\ ClaimIsDue
                /\ CompletedForGood /\ OnTheWay

\* A job is its pass and its chunk.
LEMMA JobsArePairs ==
  /\ \A i \in Jobs : i[1] \in Passes /\ i[2] \in ChunkIds
  /\ \A i, k \in Jobs : i[1] = k[1] /\ i[2] = k[2] => i = k
  /\ \A q \in Passes, c \in ChunkIds : <<q, c>> \in Jobs /\ <<q, c>>[1] = q /\ <<q, c>>[2] = c
<1>1. \A i \in Jobs : i = <<i[1], i[2]>> /\ i[1] \in Passes /\ i[2] \in ChunkIds
  BY DEF Jobs
<1>2. \A q \in Passes, c \in ChunkIds : <<q, c>> \in Jobs
  BY DEF Jobs
<1> QED
  BY <1>1, <1>2

LEMMA DeleteChunksKeeps ==
  ASSUME IngestTypeOK, IngestInv, NEW p \in Passes, DeleteChunks(p)
  PROVE  IngestTypeOK' /\ IngestInv'
<1>t. IngestTypeOK'
  BY IngestAssumption, JobsArePairs DEF IngestTypeOK, DeleteChunks, AtStep, Running, Open, Blocking
<1>1. ASSUME ~overtaken
      PROVE  /\ OneActivePass' /\ (\A q \in Passes : PassInOrder(q)') /\ (\A i \in Jobs : JobInOrder(i)')
             /\ OneWins' /\ ClaimHeld' /\ ClaimIsDue' /\ CompletedForGood' /\ OnTheWay'
  <2>i1. OneActivePass
    BY <1>1 DEF IngestInv
  <2>i2. \A q \in Passes : PassInOrder(q)
    BY <1>1 DEF IngestInv
  <2>i3. \A i \in Jobs : JobInOrder(i)
    BY <1>1 DEF IngestInv
  <2>i4. OneWins
    BY <1>1 DEF IngestInv
  <2>i5. ClaimHeld
    BY <1>1 DEF IngestInv
  <2>i6. ClaimIsDue
    BY <1>1 DEF IngestInv
  <2>i7. CompletedForGood
    BY <1>1 DEF IngestInv
  <2>i8. OnTheWay
    BY <1>1 DEF IngestInv
  <2>y. /\ chunkStatus \in [ChunkIds -> Blocking \cup {"absent", "completed", "pending_credits"}]
        /\ pass \in [Passes -> Running \cup {"new", "done"}]
        /\ toQueue \in [Passes -> SUBSET ChunkIds]
        /\ chunkJob \in [Jobs -> Open \cup {"none", "done", "finalised"}]
    BY DEF IngestTypeOK
  <2>z. /\ \A i \in Jobs : i[1] \in Passes /\ i[2] \in ChunkIds
        /\ \A i, k \in Jobs : i[1] = k[1] /\ i[2] = k[2] => i = k
    BY JobsArePairs
  <2>a. p \in Passes /\ pass[p] = "delete" /\ pass[p] \in Running
    BY <2>y, <2>z DEF DeleteChunks, AtStep, Open, Running
  <2>s. /\ \A q \in Passes : pass'[q] = IF q = p THEN "chunk" ELSE pass[q]
        /\ \A c \in ChunkIds : chunkStatus'[c] = "absent"
        /\ UNCHANGED <<aiStatus, toQueue, chunkJob, ingestFaults>>
    BY <2>a, <2>y, <2>z, IngestAssumption DEF DeleteChunks, AtStep, IngestTypeOK, JobInOrder
  <2>f. finalisationClaimed' <=> finalisationClaimed
    BY DEF DeleteChunks
  <2>o. /\ \A q \in Passes : q # p => pass[q] \notin Running
        /\ \A i \in Jobs : i[1] # p => chunkJob[i] \notin Open
    BY <2>i1, <2>z, <2>a DEF OneActivePass, ActivePass
  <2>1. OneActivePass'
    <3>1. ASSUME NEW q \in Passes, q # p, pass'[q] \in Running PROVE FALSE
      BY <3>1, <2>a, <2>s, <2>o DEF Running
    <3>2. ASSUME NEW i \in Jobs, i[1] # p, chunkJob'[i] \in Open PROVE FALSE
      BY <3>2, <2>a, <2>s, <2>o, <2>z DEF Open
    <3> QED
      BY <3>1, <3>2, Zenon DEF OneActivePass, ActivePass
  <2>2. ASSUME NEW q \in Passes PROVE PassInOrder(q)'
    <3>1. PassInOrder(q)
      BY <2>i2
    <3> QED
      BY <2>a, <2>s, <2>f, <2>o, <3>1, ZenonT(40) DEF PassInOrder, Running, Open
  <2>3. ASSUME NEW i \in Jobs PROVE JobInOrder(i)'
    <3>1. JobInOrder(i)
      BY <2>i3
    <3> QED
      BY <2>a, <2>s, <2>f, <2>z, <2>i2, <2>o, <3>1 DEF JobInOrder, Won, Running, Open, PassInOrder
  <2>4. OneWins'
    BY <2>a, <2>s, <2>f, <2>i4 DEF OneWins, Won
  <2>5. ClaimHeld'
    BY <2>a, <2>s, <2>f, <2>i5 DEF ClaimHeld, Won, Open
  <2>6. ClaimIsDue'
    BY <2>a, <2>s, <2>f, <2>i6 DEF ClaimIsDue, NothingBlocks, Present, Blocking
  <2>7. CompletedForGood'
    BY <2>a, <2>s, <2>f, <2>i7 DEF CompletedForGood, NothingBlocks, Present, Blocking, Running
  <2>8. OnTheWay'
    BY <2>a, <2>s, <2>f, <2>i8 DEF OnTheWay, Present, Running, Open
  <2> QED
    BY <2>1, <2>2, <2>3, <2>4, <2>5, <2>6, <2>7, <2>8
<1>2. overtaken' = overtaken
  BY DEF DeleteChunks, requests
<1> QED
  BY <1>t, <1>1, <1>2 DEF IngestInv

LEMMA ArmClaimKeeps ==
  ASSUME IngestTypeOK, IngestInv, NEW p \in Passes, ArmClaim(p)
  PROVE  IngestTypeOK' /\ IngestInv'
<1>t. IngestTypeOK'
  <2>1. PICK n \in 0..chunksLeft : CutUp(p, n)
    BY DEF ArmClaim
  <2>2. n \in 0..MaxChunks /\ chunksLeft - n \in 0..MaxChunks
    BY IngestAssumption DEF IngestTypeOK
  <2> QED
    BY <2>1, <2>2 DEF IngestTypeOK, ArmClaim, AtStep, CutUp, Running, Open, Blocking
<1>1. ASSUME ~overtaken
      PROVE  /\ OneActivePass' /\ (\A q \in Passes : PassInOrder(q)') /\ (\A i \in Jobs : JobInOrder(i)')
             /\ OneWins' /\ ClaimHeld' /\ ClaimIsDue' /\ CompletedForGood' /\ OnTheWay'
  <2>i1. OneActivePass
    BY <1>1 DEF IngestInv
  <2>i2. \A q \in Passes : PassInOrder(q)
    BY <1>1 DEF IngestInv
  <2>i3. \A i \in Jobs : JobInOrder(i)
    BY <1>1 DEF IngestInv
  <2>i4. OneWins
    BY <1>1 DEF IngestInv
  <2>i5. ClaimHeld
    BY <1>1 DEF IngestInv
  <2>i6. ClaimIsDue
    BY <1>1 DEF IngestInv
  <2>i7. CompletedForGood
    BY <1>1 DEF IngestInv
  <2>i8. OnTheWay
    BY <1>1 DEF IngestInv
  <2>y. /\ chunkStatus \in [ChunkIds -> Blocking \cup {"absent", "completed", "pending_credits"}]
        /\ pass \in [Passes -> Running \cup {"new", "done"}]
        /\ toQueue \in [Passes -> SUBSET ChunkIds]
        /\ chunkJob \in [Jobs -> Open \cup {"none", "done", "finalised"}]
    BY DEF IngestTypeOK
  <2>z. /\ \A i \in Jobs : i[1] \in Passes /\ i[2] \in ChunkIds
        /\ \A i, k \in Jobs : i[1] = k[1] /\ i[2] = k[2] => i = k
    BY JobsArePairs
  <2>a. p \in Passes /\ pass[p] = "chunk" /\ pass[p] \in Running
    BY <2>y, <2>z DEF ArmClaim, AtStep, Open, Running
  <2>s. /\ \A q \in Passes : pass'[q] = IF q = p THEN "create" ELSE pass[q]
        /\ UNCHANGED <<aiStatus, chunkStatus, toQueue, chunkJob, ingestFaults>>
    BY <2>a, <2>y, <2>z, IngestAssumption DEF ArmClaim, AtStep, IngestTypeOK, JobInOrder
  <2>f. ~finalisationClaimed'
    BY DEF ArmClaim
  <2>o. /\ \A q \in Passes : q # p => pass[q] \notin Running
        /\ \A i \in Jobs : i[1] # p => chunkJob[i] \notin Open
    BY <2>i1, <2>z, <2>a DEF OneActivePass, ActivePass
  <2>1. OneActivePass'
    <3>1. ASSUME NEW q \in Passes, q # p, pass'[q] \in Running PROVE FALSE
      BY <3>1, <2>a, <2>s, <2>o DEF Running
    <3>2. ASSUME NEW i \in Jobs, i[1] # p, chunkJob'[i] \in Open PROVE FALSE
      BY <3>2, <2>a, <2>s, <2>o, <2>z DEF Open
    <3> QED
      BY <3>1, <3>2, Zenon DEF OneActivePass, ActivePass
  <2>2. ASSUME NEW q \in Passes PROVE PassInOrder(q)'
    <3>1. PassInOrder(q)
      BY <2>i2
    <3> QED
      BY <2>a, <2>s, <2>f, <2>o, <3>1 DEF PassInOrder, Running, Open
  <2>3. ASSUME NEW i \in Jobs PROVE JobInOrder(i)'
    <3>1. JobInOrder(i)
      BY <2>i3
    <3> QED
      BY <2>a, <2>s, <2>f, <2>z, <2>o, <3>1 DEF JobInOrder, Won, Running, Open
  <2>4. OneWins'
    BY <2>a, <2>s, <2>f, <2>i4 DEF OneWins, Won
  <2>5. ClaimHeld'
    BY <2>a, <2>s, <2>f, <2>i5, <2>i3, <2>o, <2>z, ZenonT(40) DEF ClaimHeld, Won, Open, JobInOrder
  <2>6. ClaimIsDue'
    BY <2>a, <2>s, <2>f, <2>i6 DEF ClaimIsDue, NothingBlocks, Present, Blocking
  <2>7. CompletedForGood'
    BY <2>a, <2>s, <2>f, <2>i7 DEF CompletedForGood, NothingBlocks, Present, Blocking, Running
  <2>8. OnTheWay'
    BY <2>a, <2>s, <2>f, <2>i8 DEF OnTheWay, Present, Running, Open
  <2> QED
    BY <2>1, <2>2, <2>3, <2>4, <2>5, <2>6, <2>7, <2>8
<1>2. overtaken' = overtaken
  BY DEF ArmClaim, requests
<1> QED
  BY <1>t, <1>1, <1>2 DEF IngestInv

LEMMA CreateChunkKeeps ==
  ASSUME IngestTypeOK, IngestInv, NEW p \in Passes, CreateChunk(p)
  PROVE  IngestTypeOK' /\ IngestInv'
<1>t. IngestTypeOK'
  <2>1. parts[p] \in 1..MaxChunks /\ parts[p] - 1 \in 0..MaxChunks
    BY IngestAssumption DEF IngestTypeOK, CreateChunk
  <2>2. <<p, parts[p]>> \in ChunkIds
    BY <2>1 DEF ChunkIds
  <2> QED
    BY <2>1, <2>2 DEF IngestTypeOK, CreateChunk, Blocking
<1>1. ASSUME ~overtaken
      PROVE  /\ OneActivePass' /\ (\A q \in Passes : PassInOrder(q)') /\ (\A i \in Jobs : JobInOrder(i)')
             /\ OneWins' /\ ClaimHeld' /\ ClaimIsDue' /\ CompletedForGood' /\ OnTheWay'
  <2>i1. OneActivePass
    BY <1>1 DEF IngestInv
  <2>i2. \A q \in Passes : PassInOrder(q)
    BY <1>1 DEF IngestInv
  <2>i3. \A i \in Jobs : JobInOrder(i)
    BY <1>1 DEF IngestInv
  <2>i4. OneWins
    BY <1>1 DEF IngestInv
  <2>i5. ClaimHeld
    BY <1>1 DEF IngestInv
  <2>i6. ClaimIsDue
    BY <1>1 DEF IngestInv
  <2>i7. CompletedForGood
    BY <1>1 DEF IngestInv
  <2>i8. OnTheWay
    BY <1>1 DEF IngestInv
  <2>y. /\ chunkStatus \in [ChunkIds -> Blocking \cup {"absent", "completed", "pending_credits"}]
        /\ pass \in [Passes -> Running \cup {"new", "done"}]
        /\ toQueue \in [Passes -> SUBSET ChunkIds]
        /\ chunkJob \in [Jobs -> Open \cup {"none", "done", "finalised"}]
    BY DEF IngestTypeOK
  <2>z. /\ \A i \in Jobs : i[1] \in Passes /\ i[2] \in ChunkIds
        /\ \A i, k \in Jobs : i[1] = k[1] /\ i[2] = k[2] => i = k
    BY JobsArePairs
  <2>a. p \in Passes /\ pass[p] = "create" /\ pass[p] \in Running
    BY <2>y, <2>z DEF CreateChunk, AtStep, Open, Running
  <2>s. /\ \A q \in Passes : pass'[q] = IF q = p THEN "create" ELSE pass[q]
        /\ \A c \in ChunkIds : chunkStatus'[c] \in {"pending", chunkStatus[c]}
        /\ UNCHANGED <<aiStatus, toQueue, chunkJob, ingestFaults>>
    BY <2>a, <2>y, <2>z, IngestAssumption DEF CreateChunk, AtStep, IngestTypeOK, JobInOrder
  <2>f. finalisationClaimed' <=> finalisationClaimed
    BY DEF CreateChunk
  <2>o. /\ \A q \in Passes : q # p => pass[q] \notin Running
        /\ \A i \in Jobs : i[1] # p => chunkJob[i] \notin Open
    BY <2>i1, <2>z, <2>a DEF OneActivePass, ActivePass
  <2>1. OneActivePass'
    <3>1. ASSUME NEW q \in Passes, q # p, pass'[q] \in Running PROVE FALSE
      BY <3>1, <2>a, <2>s, <2>o DEF Running
    <3>2. ASSUME NEW i \in Jobs, i[1] # p, chunkJob'[i] \in Open PROVE FALSE
      BY <3>2, <2>a, <2>s, <2>o, <2>z DEF Open
    <3> QED
      BY <3>1, <3>2, Zenon DEF OneActivePass, ActivePass
  <2>2. ASSUME NEW q \in Passes PROVE PassInOrder(q)'
    <3>1. PassInOrder(q)
      BY <2>i2
    <3> QED
      BY <2>a, <2>s, <2>f, <2>o, <3>1, ZenonT(40) DEF PassInOrder, Running, Open
  <2>3. ASSUME NEW i \in Jobs PROVE JobInOrder(i)'
    <3>1. JobInOrder(i)
      BY <2>i3
    <3> QED
      BY <2>a, <2>s, <2>f, <2>z, <2>i2, <2>o, <3>1 DEF JobInOrder, Won, Running, Open, PassInOrder
  <2>4. OneWins'
    BY <2>a, <2>s, <2>f, <2>i4 DEF OneWins, Won
  <2>5. ClaimHeld'
    BY <2>a, <2>s, <2>f, <2>i5 DEF ClaimHeld, Won, Open
  <2>6. ClaimIsDue'
    BY <2>a, <2>s, <2>f, <2>i6, <2>i2 DEF ClaimIsDue, NothingBlocks, Present, Blocking, PassInOrder
  <2>7. CompletedForGood'
    BY <2>a, <2>s, <2>f, <2>i7, <2>i2 DEF CompletedForGood, NothingBlocks, Present, Blocking, Running, PassInOrder
  <2>8. OnTheWay'
    BY <2>a, <2>s, <2>f, <2>i8, <2>i2, <2>y DEF OnTheWay, Present, Running, Open, PassInOrder
  <2> QED
    BY <2>1, <2>2, <2>3, <2>4, <2>5, <2>6, <2>7, <2>8
<1>2. overtaken' = overtaken
  BY DEF CreateChunk, requests
<1> QED
  BY <1>t, <1>1, <1>2 DEF IngestInv

LEMMA ListChunksKeeps ==
  ASSUME IngestTypeOK, IngestInv, NEW p \in Passes, ListChunks(p)
  PROVE  IngestTypeOK' /\ IngestInv'
<1>t. IngestTypeOK'
  BY IngestAssumption, JobsArePairs DEF IngestTypeOK, ListChunks, AtStep, Present, Running, Open, Blocking
<1>1. ASSUME ~overtaken
      PROVE  /\ OneActivePass' /\ (\A q \in Passes : PassInOrder(q)') /\ (\A i \in Jobs : JobInOrder(i)')
             /\ OneWins' /\ ClaimHeld' /\ ClaimIsDue' /\ CompletedForGood' /\ OnTheWay'
  <2>i1. OneActivePass
    BY <1>1 DEF IngestInv
  <2>i2. \A q \in Passes : PassInOrder(q)
    BY <1>1 DEF IngestInv
  <2>i3. \A i \in Jobs : JobInOrder(i)
    BY <1>1 DEF IngestInv
  <2>i4. OneWins
    BY <1>1 DEF IngestInv
  <2>i5. ClaimHeld
    BY <1>1 DEF IngestInv
  <2>i6. ClaimIsDue
    BY <1>1 DEF IngestInv
  <2>i7. CompletedForGood
    BY <1>1 DEF IngestInv
  <2>i8. OnTheWay
    BY <1>1 DEF IngestInv
  <2>y. /\ chunkStatus \in [ChunkIds -> Blocking \cup {"absent", "completed", "pending_credits"}]
        /\ pass \in [Passes -> Running \cup {"new", "done"}]
        /\ toQueue \in [Passes -> SUBSET ChunkIds]
        /\ chunkJob \in [Jobs -> Open \cup {"none", "done", "finalised"}]
    BY DEF IngestTypeOK
  <2>z. /\ \A i \in Jobs : i[1] \in Passes /\ i[2] \in ChunkIds
        /\ \A i, k \in Jobs : i[1] = k[1] /\ i[2] = k[2] => i = k
    BY JobsArePairs
  <2>a. p \in Passes /\ pass[p] = "create" /\ pass[p] \in Running
    BY <2>y, <2>z DEF ListChunks, AtStep, Present, Open, Running
  <2>s. /\ \A q \in Passes : pass'[q] = IF q = p THEN "mark" ELSE pass[q]
        /\ \A c \in toQueue'[p] : c \in ChunkIds /\ chunkStatus[c] # "absent"
        /\ \A q \in Passes : q # p => toQueue'[q] = toQueue[q]
        /\ UNCHANGED <<aiStatus, chunkStatus, chunkJob, ingestFaults>>
    BY <2>a, <2>y, <2>z, IngestAssumption DEF ListChunks, AtStep, Present, IngestTypeOK, JobInOrder
  <2>f. finalisationClaimed' <=> finalisationClaimed
    BY DEF ListChunks
  <2>o. /\ \A q \in Passes : q # p => pass[q] \notin Running
        /\ \A i \in Jobs : i[1] # p => chunkJob[i] \notin Open
    BY <2>i1, <2>z, <2>a DEF OneActivePass, ActivePass
  <2>1. OneActivePass'
    <3>1. ASSUME NEW q \in Passes, q # p, pass'[q] \in Running PROVE FALSE
      BY <3>1, <2>a, <2>s, <2>o DEF Running
    <3>2. ASSUME NEW i \in Jobs, i[1] # p, chunkJob'[i] \in Open PROVE FALSE
      BY <3>2, <2>a, <2>s, <2>o, <2>z DEF Open
    <3> QED
      BY <3>1, <3>2, Zenon DEF OneActivePass, ActivePass
  <2>2. ASSUME NEW q \in Passes PROVE PassInOrder(q)'
    <3>1. PassInOrder(q)
      BY <2>i2
    <3> QED
      BY <2>a, <2>s, <2>f, <2>o, <3>1 DEF PassInOrder, Running, Open
  <2>3. ASSUME NEW i \in Jobs PROVE JobInOrder(i)'
    <3>1. JobInOrder(i)
      BY <2>i3
    <3> QED
      BY <2>a, <2>s, <2>f, <2>z, <2>o, <3>1 DEF JobInOrder, Won, Running, Open
  <2>4. OneWins'
    BY <2>a, <2>s, <2>f, <2>i4 DEF OneWins, Won
  <2>5. ClaimHeld'
    BY <2>a, <2>s, <2>f, <2>i5 DEF ClaimHeld, Won, Open
  <2>6. ClaimIsDue'
    BY <2>a, <2>s, <2>f, <2>i6 DEF ClaimIsDue, NothingBlocks, Present, Blocking
  <2>7. CompletedForGood'
    BY <2>a, <2>s, <2>f, <2>i7 DEF CompletedForGood, NothingBlocks, Present, Blocking, Running
  <2>8. OnTheWay'
    BY <2>a, <2>s, <2>f, <2>i8 DEF OnTheWay, Present, Running, Open
  <2> QED
    BY <2>1, <2>2, <2>3, <2>4, <2>5, <2>6, <2>7, <2>8
<1>2. overtaken' = overtaken
  BY DEF ListChunks, requests
<1> QED
  BY <1>t, <1>1, <1>2 DEF IngestInv

LEMMA MarkAgainKeeps ==
  ASSUME IngestTypeOK, IngestInv, NEW p \in Passes, MarkAgain(p)
  PROVE  IngestTypeOK' /\ IngestInv'
<1>t. IngestTypeOK'
  BY IngestAssumption, JobsArePairs DEF IngestTypeOK, MarkAgain, AtStep, Running, Open, Blocking
<1>1. ASSUME ~overtaken
      PROVE  /\ OneActivePass' /\ (\A q \in Passes : PassInOrder(q)') /\ (\A i \in Jobs : JobInOrder(i)')
             /\ OneWins' /\ ClaimHeld' /\ ClaimIsDue' /\ CompletedForGood' /\ OnTheWay'
  <2>i1. OneActivePass
    BY <1>1 DEF IngestInv
  <2>i2. \A q \in Passes : PassInOrder(q)
    BY <1>1 DEF IngestInv
  <2>i3. \A i \in Jobs : JobInOrder(i)
    BY <1>1 DEF IngestInv
  <2>i4. OneWins
    BY <1>1 DEF IngestInv
  <2>i5. ClaimHeld
    BY <1>1 DEF IngestInv
  <2>i6. ClaimIsDue
    BY <1>1 DEF IngestInv
  <2>i7. CompletedForGood
    BY <1>1 DEF IngestInv
  <2>i8. OnTheWay
    BY <1>1 DEF IngestInv
  <2>y. /\ chunkStatus \in [ChunkIds -> Blocking \cup {"absent", "completed", "pending_credits"}]
        /\ pass \in [Passes -> Running \cup {"new", "done"}]
        /\ toQueue \in [Passes -> SUBSET ChunkIds]
        /\ chunkJob \in [Jobs -> Open \cup {"none", "done", "finalised"}]
    BY DEF IngestTypeOK
  <2>z. /\ \A i \in Jobs : i[1] \in Passes /\ i[2] \in ChunkIds
        /\ \A i, k \in Jobs : i[1] = k[1] /\ i[2] = k[2] => i = k
    BY JobsArePairs
  <2>a. p \in Passes /\ pass[p] = "mark" /\ pass[p] \in Running
    BY <2>y, <2>z DEF MarkAgain, AtStep, Open, Running
  <2>s. /\ \A q \in Passes : pass'[q] = IF q = p THEN (IF toQueue[p] = {} THEN "done" ELSE "queue") ELSE pass[q]
        /\ aiStatus' = "in_progress"
        /\ UNCHANGED <<chunkStatus, toQueue, chunkJob, ingestFaults>>
    BY <2>a, <2>y, <2>z, IngestAssumption DEF MarkAgain, AtStep, IngestTypeOK, JobInOrder
  <2>f. finalisationClaimed' <=> finalisationClaimed
    BY DEF MarkAgain
  <2>o. /\ \A q \in Passes : q # p => pass[q] \notin Running
        /\ \A i \in Jobs : i[1] # p => chunkJob[i] \notin Open
    BY <2>i1, <2>z, <2>a DEF OneActivePass, ActivePass
  <2>1. OneActivePass'
    <3>1. ASSUME NEW q \in Passes, q # p, pass'[q] \in Running PROVE FALSE
      BY <3>1, <2>a, <2>s, <2>o DEF Running
    <3>2. ASSUME NEW i \in Jobs, i[1] # p, chunkJob'[i] \in Open PROVE FALSE
      BY <3>2, <2>a, <2>s, <2>o, <2>z DEF Open
    <3> QED
      BY <3>1, <3>2, Zenon DEF OneActivePass, ActivePass
  <2>2. ASSUME NEW q \in Passes PROVE PassInOrder(q)'
    <3>1. PassInOrder(q)
      BY <2>i2
    <3> QED
      BY <2>a, <2>s, <2>f, <2>y, <2>o, <3>1 DEF PassInOrder, Running, Open
  <2>3. ASSUME NEW i \in Jobs PROVE JobInOrder(i)'
    <3>1. JobInOrder(i)
      BY <2>i3
    <3> QED
      BY <2>a, <2>s, <2>f, <2>z, <2>o, <3>1 DEF JobInOrder, Won, Running, Open
  <2>4. OneWins'
    BY <2>a, <2>s, <2>f, <2>i4 DEF OneWins, Won
  <2>5. ClaimHeld'
    BY <2>a, <2>s, <2>f, <2>i5 DEF ClaimHeld, Won, Open
  <2>6. ClaimIsDue'
    BY <2>a, <2>s, <2>f, <2>i6 DEF ClaimIsDue, NothingBlocks, Present, Blocking
  <2>7. CompletedForGood'
    BY <2>a, <2>s, <2>f, <2>i7 DEF CompletedForGood, NothingBlocks, Present, Blocking, Running
  <2>8. OnTheWay'
    BY <2>a, <2>s, <2>f, <2>i8, <2>i2, <2>y DEF OnTheWay, Present, Running, Open, PassInOrder
  <2> QED
    BY <2>1, <2>2, <2>3, <2>4, <2>5, <2>6, <2>7, <2>8
<1>2. overtaken' = overtaken
  BY DEF MarkAgain, requests
<1> QED
  BY <1>t, <1>1, <1>2 DEF IngestInv

LEMMA QueueChunkKeeps ==
  ASSUME IngestTypeOK, IngestInv, NEW p \in Passes, NEW c \in ChunkIds, NEW j \in Jobs, j = <<p, c>>, QueueChunk(p, c)
  PROVE  IngestTypeOK' /\ IngestInv'
<1>t. IngestTypeOK'
  BY IngestAssumption, JobsArePairs DEF IngestTypeOK, QueueChunk, AtStep, JobTo, Running, Open, Blocking
<1>1. ASSUME ~overtaken
      PROVE  /\ OneActivePass' /\ (\A q \in Passes : PassInOrder(q)') /\ (\A i \in Jobs : JobInOrder(i)')
             /\ OneWins' /\ ClaimHeld' /\ ClaimIsDue' /\ CompletedForGood' /\ OnTheWay'
  <2>i1. OneActivePass
    BY <1>1 DEF IngestInv
  <2>i2. \A q \in Passes : PassInOrder(q)
    BY <1>1 DEF IngestInv
  <2>i3. \A i \in Jobs : JobInOrder(i)
    BY <1>1 DEF IngestInv
  <2>i4. OneWins
    BY <1>1 DEF IngestInv
  <2>i5. ClaimHeld
    BY <1>1 DEF IngestInv
  <2>i6. ClaimIsDue
    BY <1>1 DEF IngestInv
  <2>i7. CompletedForGood
    BY <1>1 DEF IngestInv
  <2>i8. OnTheWay
    BY <1>1 DEF IngestInv
  <2>y. /\ chunkStatus \in [ChunkIds -> Blocking \cup {"absent", "completed", "pending_credits"}]
        /\ pass \in [Passes -> Running \cup {"new", "done"}]
        /\ toQueue \in [Passes -> SUBSET ChunkIds]
        /\ chunkJob \in [Jobs -> Open \cup {"none", "done", "finalised"}]
    BY DEF IngestTypeOK
  <2>z. /\ \A i \in Jobs : i[1] \in Passes /\ i[2] \in ChunkIds
        /\ \A i, k \in Jobs : i[1] = k[1] /\ i[2] = k[2] => i = k
    BY JobsArePairs
  <2>a. p \in Passes /\ pass[p] = "queue" /\ c \in toQueue[p] /\ pass[p] \in Running
    BY <2>y, <2>z DEF QueueChunk, AtStep, JobTo, Open, Running
  <2>s. /\ \A q \in Passes : pass'[q] = IF q = p THEN (IF toQueue[p] = {c} THEN "done" ELSE "queue") ELSE pass[q]
        /\ j[1] = p /\ j[2] = c /\ \A i \in Jobs : chunkJob'[i] = IF i = j THEN "queued" ELSE chunkJob[i]
        /\ toQueue'[p] = toQueue[p] \ {c} /\ \A q \in Passes : q # p => toQueue'[q] = toQueue[q]
        /\ UNCHANGED <<aiStatus, chunkStatus, ingestFaults>>
    BY <2>a, <2>y, <2>z, IngestAssumption DEF QueueChunk, AtStep, JobTo, IngestTypeOK, JobInOrder
  <2>f. finalisationClaimed' <=> finalisationClaimed
    BY DEF QueueChunk
  <2>o. /\ \A q \in Passes : q # p => pass[q] \notin Running
        /\ \A i \in Jobs : i[1] # p => chunkJob[i] \notin Open
    BY <2>i1, <2>z, <2>a DEF OneActivePass, ActivePass
  <2>1. OneActivePass'
    <3>1. ASSUME NEW q \in Passes, q # p, pass'[q] \in Running PROVE FALSE
      BY <3>1, <2>a, <2>s, <2>o DEF Running
    <3>2. ASSUME NEW i \in Jobs, i[1] # p, chunkJob'[i] \in Open PROVE FALSE
      BY <3>2, <2>a, <2>s, <2>o, <2>z DEF Open
    <3> QED
      BY <3>1, <3>2, Zenon DEF OneActivePass, ActivePass
  <2>2. ASSUME NEW q \in Passes PROVE PassInOrder(q)'
    <3>1. PassInOrder(q)
      BY <2>i2
    <3>2. CASE q = p
      <4>1. pass'[p] = "queue" => toQueue'[p] # {}
        BY <2>s, <2>a
      <4>2. \A k \in toQueue'[p] : k \in toQueue[p] /\ k # c
        BY <2>s
      <4>3. pass'[p] \in {"queue", "done"}
        BY <2>s
      <4> QED
        BY <2>a, <2>s, <3>1, <3>2, <4>1, <4>2, <4>3 DEF PassInOrder
    <3>3. CASE q # p
      <4>1. /\ pass'[q] = pass[q] /\ pass[q] \notin Running
            /\ \A i \in Jobs : i[1] = q => chunkJob'[i] = chunkJob[i]
        BY <2>s, <2>o, <3>3
      <4> QED
        BY <3>1, <4>1 DEF PassInOrder, Running
    <3> QED
      BY <3>2, <3>3
  <2>3. ASSUME NEW i \in Jobs PROVE JobInOrder(i)'
    <3>1. JobInOrder(i) /\ i[1] \in Passes
      BY <2>i3, <2>z
    <3>2. chunkStatus[c] = "pending"
      BY <2>i2, <2>a DEF PassInOrder
    <3>3. pass[i[1]] = "done" => pass'[i[1]] = "done"
      BY <2>s, <2>a, <3>1
    <3> QED
      BY <2>s, <3>1, <3>2, <3>3 DEF JobInOrder, Won
  <2>4. OneWins'
    BY <2>a, <2>s, <2>f, <2>i4 DEF OneWins, Won
  <2>5. ClaimHeld'
    <3>1. ASSUME NEW i \in Jobs, chunkJob[i] \in Won PROVE i[1] # p
      BY <3>1, <2>i3, <2>a DEF JobInOrder
    <3>2. ASSUME NEW i \in Jobs, chunkJob'[i] \in Won PROVE chunkJob[i] \in Won
      BY <3>2, <2>s DEF Won
    <3>3. ASSUME NEW i \in Jobs, chunkJob'[i] \in Open, i[1] # p PROVE chunkJob[i] \in Open
      BY <3>3, <2>s
    <3>4. ASSUME NEW i \in Jobs, NEW k \in Jobs, chunkJob[i] \in Won, chunkJob[k] \in Open, i[1] = k[1]
          PROVE  finalisationClaimed
      BY <3>4, <2>i5 DEF ClaimHeld
    <3> QED
      BY <2>f, <3>1, <3>2, <3>3, <3>4, Zenon DEF ClaimHeld
  <2>6. ClaimIsDue'
    BY <2>a, <2>s, <2>f, <2>i6 DEF ClaimIsDue, NothingBlocks, Present, Blocking
  <2>7. CompletedForGood'
    BY <2>a, <2>s, <2>f, <2>i7 DEF CompletedForGood, NothingBlocks, Present, Blocking, Running
  <2>8. OnTheWay'
    BY <2>a, <2>s, <2>f, <2>i8, <2>i2, <2>y DEF OnTheWay, Present, Running, Open, PassInOrder
  <2> QED
    BY <2>1, <2>2, <2>3, <2>4, <2>5, <2>6, <2>7, <2>8
<1>2. overtaken' = overtaken
  BY DEF QueueChunk, requests
<1> QED
  BY <1>t, <1>1, <1>2 DEF IngestInv

LEMMA PassFailsKeeps ==
  ASSUME IngestTypeOK, IngestInv, NEW p \in Passes, PassFails(p)
  PROVE  IngestTypeOK' /\ IngestInv'
<1>t. IngestTypeOK'
  <2>1. ingestFaults + 1 \in 0..MaxIngestFaults
    BY IngestAssumption DEF IngestTypeOK, PassFails, Throws
  <2> QED
    BY <2>1 DEF IngestTypeOK, PassFails, Throws, AtStep
<1>1. ASSUME ~overtaken
      PROVE  /\ OneActivePass' /\ (\A q \in Passes : PassInOrder(q)') /\ (\A i \in Jobs : JobInOrder(i)')
             /\ OneWins' /\ ClaimHeld' /\ ClaimIsDue' /\ CompletedForGood' /\ OnTheWay'
  <2>i1. OneActivePass
    BY <1>1 DEF IngestInv
  <2>i2. \A q \in Passes : PassInOrder(q)
    BY <1>1 DEF IngestInv
  <2>i3. \A i \in Jobs : JobInOrder(i)
    BY <1>1 DEF IngestInv
  <2>i4. OneWins
    BY <1>1 DEF IngestInv
  <2>i5. ClaimHeld
    BY <1>1 DEF IngestInv
  <2>i6. ClaimIsDue
    BY <1>1 DEF IngestInv
  <2>i7. CompletedForGood
    BY <1>1 DEF IngestInv
  <2>i8. OnTheWay
    BY <1>1 DEF IngestInv
  <2>y. /\ chunkStatus \in [ChunkIds -> Blocking \cup {"absent", "completed", "pending_credits"}]
        /\ pass \in [Passes -> Running \cup {"new", "done"}]
        /\ toQueue \in [Passes -> SUBSET ChunkIds]
        /\ chunkJob \in [Jobs -> Open \cup {"none", "done", "finalised"}]
    BY DEF IngestTypeOK
  <2>z. /\ \A i \in Jobs : i[1] \in Passes /\ i[2] \in ChunkIds
        /\ \A i, k \in Jobs : i[1] = k[1] /\ i[2] = k[2] => i = k
    BY JobsArePairs
  <2>a. p \in Passes /\ pass[p] # "new" /\ pass[p] \in Running
    BY <2>y, <2>z DEF PassFails, AtStep, Throws, Running, Open, Running
  <2>s. /\ \A q \in Passes : pass'[q] = IF q = p THEN "done" ELSE pass[q]
        /\ ingestFaults' # 0
        /\ UNCHANGED <<aiStatus, chunkStatus, toQueue, chunkJob>>
    BY <2>a, <2>y, <2>z, IngestAssumption DEF PassFails, AtStep, Throws, Running, IngestTypeOK, JobInOrder
  <2>f. finalisationClaimed' <=> finalisationClaimed
    BY DEF PassFails
  <2>o. /\ \A q \in Passes : q # p => pass[q] \notin Running
        /\ \A i \in Jobs : i[1] # p => chunkJob[i] \notin Open
    BY <2>i1, <2>z, <2>a DEF OneActivePass, ActivePass
  <2>1. OneActivePass'
    <3>1. ASSUME NEW q \in Passes, q # p, pass'[q] \in Running PROVE FALSE
      BY <3>1, <2>a, <2>s, <2>o DEF Running
    <3>2. ASSUME NEW i \in Jobs, i[1] # p, chunkJob'[i] \in Open PROVE FALSE
      BY <3>2, <2>a, <2>s, <2>o, <2>z DEF Open
    <3> QED
      BY <3>1, <3>2, Zenon DEF OneActivePass, ActivePass
  <2>2. ASSUME NEW q \in Passes PROVE PassInOrder(q)'
    <3>1. PassInOrder(q)
      BY <2>i2
    <3> QED
      BY <2>a, <2>s, <2>f, <2>o, <3>1 DEF PassInOrder, Running, Open
  <2>3. ASSUME NEW i \in Jobs PROVE JobInOrder(i)'
    <3>1. JobInOrder(i)
      BY <2>i3
    <3> QED
      BY <2>a, <2>s, <2>f, <2>z, <2>o, <3>1 DEF JobInOrder, Won, Running, Open
  <2>4. OneWins'
    BY <2>a, <2>s, <2>f, <2>i4 DEF OneWins, Won
  <2>5. ClaimHeld'
    BY <2>a, <2>s, <2>f, <2>i5 DEF ClaimHeld, Won, Open
  <2>6. ClaimIsDue'
    BY <2>a, <2>s, <2>f, <2>i6 DEF ClaimIsDue, NothingBlocks, Present, Blocking
  <2>7. CompletedForGood'
    BY <2>a, <2>s, <2>f, <2>i7 DEF CompletedForGood, NothingBlocks, Present, Blocking, Running
  <2>8. OnTheWay'
    BY <2>a, <2>s, <2>f, <2>i8 DEF OnTheWay, Present, Running, Open
  <2> QED
    BY <2>1, <2>2, <2>3, <2>4, <2>5, <2>6, <2>7, <2>8
<1>2. overtaken' = overtaken
  BY DEF PassFails, requests
<1> QED
  BY <1>t, <1>1, <1>2 DEF IngestInv

LEMMA DropWithoutAiKeeps ==
  ASSUME IngestTypeOK, IngestInv, NEW j \in Jobs, DropWithoutAi(j)
  PROVE  IngestTypeOK' /\ IngestInv'
<1>t. IngestTypeOK'
  BY IngestAssumption, JobsArePairs DEF IngestTypeOK, DropWithoutAi, JobTo, requests, Running, Open, Blocking
<1>1. ASSUME ~overtaken
      PROVE  /\ OneActivePass' /\ (\A q \in Passes : PassInOrder(q)') /\ (\A i \in Jobs : JobInOrder(i)')
             /\ OneWins' /\ ClaimHeld' /\ ClaimIsDue' /\ CompletedForGood' /\ OnTheWay'
  <2>i1. OneActivePass
    BY <1>1 DEF IngestInv
  <2>i2. \A q \in Passes : PassInOrder(q)
    BY <1>1 DEF IngestInv
  <2>i3. \A i \in Jobs : JobInOrder(i)
    BY <1>1 DEF IngestInv
  <2>i4. OneWins
    BY <1>1 DEF IngestInv
  <2>i5. ClaimHeld
    BY <1>1 DEF IngestInv
  <2>i6. ClaimIsDue
    BY <1>1 DEF IngestInv
  <2>i7. CompletedForGood
    BY <1>1 DEF IngestInv
  <2>i8. OnTheWay
    BY <1>1 DEF IngestInv
  <2>y. /\ chunkStatus \in [ChunkIds -> Blocking \cup {"absent", "completed", "pending_credits"}]
        /\ pass \in [Passes -> Running \cup {"new", "done"}]
        /\ toQueue \in [Passes -> SUBSET ChunkIds]
        /\ chunkJob \in [Jobs -> Open \cup {"none", "done", "finalised"}]
    BY DEF IngestTypeOK
  <2>z. /\ \A i \in Jobs : i[1] \in Passes /\ i[2] \in ChunkIds
        /\ \A i, k \in Jobs : i[1] = k[1] /\ i[2] = k[2] => i = k
    BY JobsArePairs
  <2>a. j \in Jobs /\ chunkJob[j] = "queued" /\ chunkJob[j] \in Open
    BY <2>y, <2>z, <2>i3 DEF DropWithoutAi, JobTo, requests, Open, Running
  <2>s. /\ \A i \in Jobs : chunkJob'[i] = IF i = j THEN "done" ELSE chunkJob[i]
        /\ UNCHANGED <<aiStatus, chunkStatus, pass, toQueue, ingestFaults>>
    BY <2>a, <2>y, <2>z, IngestAssumption, <2>i3 DEF DropWithoutAi, JobTo, requests, IngestTypeOK, JobInOrder
  <2>f. finalisationClaimed' <=> finalisationClaimed
    BY DEF DropWithoutAi
  <2>o. /\ \A q \in Passes : q # j[1] => pass[q] \notin Running
        /\ \A i \in Jobs : i[1] # j[1] => chunkJob[i] \notin Open
    BY <2>i1, <2>z, <2>a DEF OneActivePass, ActivePass
  <2>n. /\ pass[j[1]] \in {"queue", "done"}
        /\ pass[j[1]] = "queue" => j[2] \notin toQueue[j[1]]
    <3>1. PassInOrder(j[1]) /\ pass[j[1]] \in Running \cup {"new", "done"} /\ chunkJob[j] # "none"
      BY <2>i2, <2>y, <2>z, <2>a DEF Open
    <3> QED
      BY <3>1 DEF PassInOrder, Running
  <2>1. OneActivePass'
    <3>1. ASSUME NEW q \in Passes, q # j[1], pass'[q] \in Running PROVE FALSE
      BY <3>1, <2>a, <2>s, <2>o DEF Running
    <3>2. ASSUME NEW i \in Jobs, i[1] # j[1], chunkJob'[i] \in Open PROVE FALSE
      BY <3>2, <2>a, <2>s, <2>o, <2>z DEF Open
    <3> QED
      BY <3>1, <3>2, Zenon DEF OneActivePass, ActivePass
  <2>2. ASSUME NEW q \in Passes PROVE PassInOrder(q)'
    <3>1. PassInOrder(q)
      BY <2>i2
    <3>2. CASE q = j[1]
      <4>1. pass'[q] = pass[q] /\ pass[q] \in {"queue", "done"} /\ toQueue'[q] = toQueue[q]
        BY <2>s, <2>n, <3>2
      <4>2. CASE pass[q] = "queue"
        <5>1. toQueue[q] # {} /\ \A c \in toQueue[q] : chunkStatus[c] = "pending"
          BY <3>1, <4>2 DEF PassInOrder
        <5>2. \A i \in Jobs : i[1] = q /\ i[2] \in toQueue[q] => chunkJob[i] = "none" /\ i # j
          BY <2>n, <3>1, <3>2, <4>2 DEF PassInOrder
        <5>3. \A c \in toQueue[q] : c \in ChunkIds /\ c # j[2]
          BY <2>n, <2>y, <3>2, <4>2
        <5>4. /\ \A c \in toQueue[q] : chunkStatus'[c] = "pending"
              /\ \A i \in Jobs : i[1] = q /\ i[2] \in toQueue[q] => chunkJob'[i] = "none"
          BY <2>s, <5>1, <5>2, <5>3
        <5> QED
          BY <4>1, <4>2, <5>1, <5>4 DEF PassInOrder
      <4> QED
        BY <4>1, <4>2 DEF PassInOrder
    <3>3. CASE q # j[1]
      <4>1. /\ pass'[q] = pass[q] /\ pass[q] \notin Running
            /\ \A i \in Jobs : i[1] = q => chunkJob'[i] = chunkJob[i]
        BY <2>s, <2>o, <3>3
      <4> QED
        BY <3>1, <4>1 DEF PassInOrder, Running
    <3> QED
      BY <3>2, <3>3
  <2>3. ASSUME NEW i \in Jobs PROVE JobInOrder(i)'
    <3>1. JobInOrder(i)
      BY <2>i3
    <3> QED
      BY <2>a, <2>s, <2>f, <2>z, <2>n, <2>o, <3>1 DEF JobInOrder, Won, Running, Open
  <2>4. OneWins'
    BY <2>a, <2>s, <2>f, <2>i4 DEF OneWins, Won
  <2>5. ClaimHeld'
    BY <2>a, <2>s, <2>f, <2>i5 DEF ClaimHeld, Won, Open
  <2>6. ClaimIsDue'
    BY <2>a, <2>s, <2>f, <2>i6 DEF ClaimIsDue, NothingBlocks, Present, Blocking
  <2>7. CompletedForGood'
    BY <2>a, <2>s, <2>f, <2>i7 DEF CompletedForGood, NothingBlocks, Present, Blocking, Running
  <2>8. OnTheWay'
    BY <2>a, <2>s, <2>f, <2>i8, <2>i3, <2>z DEF OnTheWay, Present, Running, Open, JobInOrder
  <2> QED
    BY <2>1, <2>2, <2>3, <2>4, <2>5, <2>6, <2>7, <2>8
<1>2. overtaken' = overtaken
  BY DEF DropWithoutAi, requests
<1> QED
  BY <1>t, <1>1, <1>2 DEF IngestInv

LEMMA DeferChunkKeeps ==
  ASSUME IngestTypeOK, IngestInv, NEW j \in Jobs, DeferChunk(j)
  PROVE  IngestTypeOK' /\ IngestInv'
<1>t. IngestTypeOK'
  BY IngestAssumption, JobsArePairs DEF IngestTypeOK, DeferChunk, JobTo, requests, WithChunk, Present, Running, Open, Blocking
<1>1. ASSUME ~overtaken
      PROVE  /\ OneActivePass' /\ (\A q \in Passes : PassInOrder(q)') /\ (\A i \in Jobs : JobInOrder(i)')
             /\ OneWins' /\ ClaimHeld' /\ ClaimIsDue' /\ CompletedForGood' /\ OnTheWay'
  <2>i1. OneActivePass
    BY <1>1 DEF IngestInv
  <2>i2. \A q \in Passes : PassInOrder(q)
    BY <1>1 DEF IngestInv
  <2>i3. \A i \in Jobs : JobInOrder(i)
    BY <1>1 DEF IngestInv
  <2>i4. OneWins
    BY <1>1 DEF IngestInv
  <2>i5. ClaimHeld
    BY <1>1 DEF IngestInv
  <2>i6. ClaimIsDue
    BY <1>1 DEF IngestInv
  <2>i7. CompletedForGood
    BY <1>1 DEF IngestInv
  <2>i8. OnTheWay
    BY <1>1 DEF IngestInv
  <2>y. /\ chunkStatus \in [ChunkIds -> Blocking \cup {"absent", "completed", "pending_credits"}]
        /\ pass \in [Passes -> Running \cup {"new", "done"}]
        /\ toQueue \in [Passes -> SUBSET ChunkIds]
        /\ chunkJob \in [Jobs -> Open \cup {"none", "done", "finalised"}]
    BY DEF IngestTypeOK
  <2>z. /\ \A i \in Jobs : i[1] \in Passes /\ i[2] \in ChunkIds
        /\ \A i, k \in Jobs : i[1] = k[1] /\ i[2] = k[2] => i = k
    BY JobsArePairs
  <2>a. j \in Jobs /\ chunkJob[j] = "queued" /\ chunkJob[j] \in Open
    BY <2>y, <2>z, <2>i3 DEF DeferChunk, JobTo, requests, WithChunk, Present, Open, Running
  <2>s. /\ \A i \in Jobs : chunkJob'[i] = IF i = j THEN "defer" ELSE chunkJob[i]
        /\ \A c \in ChunkIds : chunkStatus'[c] = IF c = j[2] THEN "pending_credits" ELSE chunkStatus[c]
        /\ UNCHANGED <<aiStatus, pass, toQueue, ingestFaults>>
    BY <2>a, <2>y, <2>z, IngestAssumption, <2>i3 DEF DeferChunk, JobTo, requests, WithChunk, Present, IngestTypeOK, JobInOrder
  <2>f. finalisationClaimed' <=> finalisationClaimed
    BY DEF DeferChunk
  <2>o. /\ \A q \in Passes : q # j[1] => pass[q] \notin Running
        /\ \A i \in Jobs : i[1] # j[1] => chunkJob[i] \notin Open
    BY <2>i1, <2>z, <2>a DEF OneActivePass, ActivePass
  <2>n. /\ pass[j[1]] \in {"queue", "done"}
        /\ pass[j[1]] = "queue" => j[2] \notin toQueue[j[1]]
    <3>1. PassInOrder(j[1]) /\ pass[j[1]] \in Running \cup {"new", "done"} /\ chunkJob[j] # "none"
      BY <2>i2, <2>y, <2>z, <2>a DEF Open
    <3> QED
      BY <3>1 DEF PassInOrder, Running
  <2>1. OneActivePass'
    <3>1. ASSUME NEW q \in Passes, q # j[1], pass'[q] \in Running PROVE FALSE
      BY <3>1, <2>a, <2>s, <2>o DEF Running
    <3>2. ASSUME NEW i \in Jobs, i[1] # j[1], chunkJob'[i] \in Open PROVE FALSE
      BY <3>2, <2>a, <2>s, <2>o, <2>z DEF Open
    <3> QED
      BY <3>1, <3>2, Zenon DEF OneActivePass, ActivePass
  <2>2. ASSUME NEW q \in Passes PROVE PassInOrder(q)'
    <3>1. PassInOrder(q)
      BY <2>i2
    <3>2. CASE q = j[1]
      <4>1. pass'[q] = pass[q] /\ pass[q] \in {"queue", "done"} /\ toQueue'[q] = toQueue[q]
        BY <2>s, <2>n, <3>2
      <4>2. CASE pass[q] = "queue"
        <5>1. toQueue[q] # {} /\ \A c \in toQueue[q] : chunkStatus[c] = "pending"
          BY <3>1, <4>2 DEF PassInOrder
        <5>2. \A i \in Jobs : i[1] = q /\ i[2] \in toQueue[q] => chunkJob[i] = "none" /\ i # j
          BY <2>n, <3>1, <3>2, <4>2 DEF PassInOrder
        <5>3. \A c \in toQueue[q] : c \in ChunkIds /\ c # j[2]
          BY <2>n, <2>y, <3>2, <4>2
        <5>4. /\ \A c \in toQueue[q] : chunkStatus'[c] = "pending"
              /\ \A i \in Jobs : i[1] = q /\ i[2] \in toQueue[q] => chunkJob'[i] = "none"
          BY <2>s, <5>1, <5>2, <5>3
        <5> QED
          BY <4>1, <4>2, <5>1, <5>4 DEF PassInOrder
      <4> QED
        BY <4>1, <4>2 DEF PassInOrder
    <3>3. CASE q # j[1]
      <4>1. /\ pass'[q] = pass[q] /\ pass[q] \notin Running
            /\ \A i \in Jobs : i[1] = q => chunkJob'[i] = chunkJob[i]
        BY <2>s, <2>o, <3>3
      <4> QED
        BY <3>1, <4>1 DEF PassInOrder, Running
    <3> QED
      BY <3>2, <3>3
  <2>3. ASSUME NEW i \in Jobs PROVE JobInOrder(i)'
    <3>1. JobInOrder(i)
      BY <2>i3
    <3> QED
      BY <2>a, <2>s, <2>f, <2>z, <2>n, <2>o, <3>1 DEF JobInOrder, Won, Running, Open
  <2>4. OneWins'
    BY <2>a, <2>s, <2>f, <2>i4 DEF OneWins, Won
  <2>5. ClaimHeld'
    BY <2>a, <2>s, <2>f, <2>i5 DEF ClaimHeld, Won, Open
  <2>6. ClaimIsDue'
    BY <2>a, <2>s, <2>f, <2>i6 DEF ClaimIsDue, NothingBlocks, Present, Blocking
  <2>7. CompletedForGood'
    BY <2>a, <2>s, <2>f, <2>i7 DEF CompletedForGood, NothingBlocks, Present, Blocking, Running
  <2>8. OnTheWay'
    BY <2>a, <2>s, <2>f, <2>i8, <2>z DEF OnTheWay, Present, Running, Open
  <2> QED
    BY <2>1, <2>2, <2>3, <2>4, <2>5, <2>6, <2>7, <2>8
<1>2. overtaken' = overtaken
  BY DEF DeferChunk, requests
<1> QED
  BY <1>t, <1>1, <1>2 DEF IngestInv

LEMMA DeferOwnerKeeps ==
  ASSUME IngestTypeOK, IngestInv, NEW j \in Jobs, DeferOwner(j)
  PROVE  IngestTypeOK' /\ IngestInv'
<1>t. IngestTypeOK'
  BY IngestAssumption, JobsArePairs DEF IngestTypeOK, DeferOwner, JobTo, requests, Running, Open, Blocking
<1>1. ASSUME ~overtaken
      PROVE  /\ OneActivePass' /\ (\A q \in Passes : PassInOrder(q)') /\ (\A i \in Jobs : JobInOrder(i)')
             /\ OneWins' /\ ClaimHeld' /\ ClaimIsDue' /\ CompletedForGood' /\ OnTheWay'
  <2>i1. OneActivePass
    BY <1>1 DEF IngestInv
  <2>i2. \A q \in Passes : PassInOrder(q)
    BY <1>1 DEF IngestInv
  <2>i3. \A i \in Jobs : JobInOrder(i)
    BY <1>1 DEF IngestInv
  <2>i4. OneWins
    BY <1>1 DEF IngestInv
  <2>i5. ClaimHeld
    BY <1>1 DEF IngestInv
  <2>i6. ClaimIsDue
    BY <1>1 DEF IngestInv
  <2>i7. CompletedForGood
    BY <1>1 DEF IngestInv
  <2>i8. OnTheWay
    BY <1>1 DEF IngestInv
  <2>y. /\ chunkStatus \in [ChunkIds -> Blocking \cup {"absent", "completed", "pending_credits"}]
        /\ pass \in [Passes -> Running \cup {"new", "done"}]
        /\ toQueue \in [Passes -> SUBSET ChunkIds]
        /\ chunkJob \in [Jobs -> Open \cup {"none", "done", "finalised"}]
    BY DEF IngestTypeOK
  <2>z. /\ \A i \in Jobs : i[1] \in Passes /\ i[2] \in ChunkIds
        /\ \A i, k \in Jobs : i[1] = k[1] /\ i[2] = k[2] => i = k
    BY JobsArePairs
  <2>a. j \in Jobs /\ chunkJob[j] = "defer" /\ chunkJob[j] \in Open
    BY <2>y, <2>z, <2>i3 DEF DeferOwner, JobTo, requests, Open, Running
  <2>s. /\ \A i \in Jobs : chunkJob'[i] = IF i = j THEN "done" ELSE chunkJob[i]
        /\ aiStatus' = "pending_credits"
        /\ UNCHANGED <<chunkStatus, pass, toQueue, ingestFaults>>
    BY <2>a, <2>y, <2>z, IngestAssumption, <2>i3 DEF DeferOwner, JobTo, requests, IngestTypeOK, JobInOrder
  <2>f. finalisationClaimed' <=> finalisationClaimed
    BY DEF DeferOwner
  <2>o. /\ \A q \in Passes : q # j[1] => pass[q] \notin Running
        /\ \A i \in Jobs : i[1] # j[1] => chunkJob[i] \notin Open
    BY <2>i1, <2>z, <2>a DEF OneActivePass, ActivePass
  <2>n. /\ pass[j[1]] \in {"queue", "done"}
        /\ pass[j[1]] = "queue" => j[2] \notin toQueue[j[1]]
    <3>1. PassInOrder(j[1]) /\ pass[j[1]] \in Running \cup {"new", "done"} /\ chunkJob[j] # "none"
      BY <2>i2, <2>y, <2>z, <2>a DEF Open
    <3> QED
      BY <3>1 DEF PassInOrder, Running
  <2>1. OneActivePass'
    <3>1. ASSUME NEW q \in Passes, q # j[1], pass'[q] \in Running PROVE FALSE
      BY <3>1, <2>a, <2>s, <2>o DEF Running
    <3>2. ASSUME NEW i \in Jobs, i[1] # j[1], chunkJob'[i] \in Open PROVE FALSE
      BY <3>2, <2>a, <2>s, <2>o, <2>z DEF Open
    <3> QED
      BY <3>1, <3>2, Zenon DEF OneActivePass, ActivePass
  <2>2. ASSUME NEW q \in Passes PROVE PassInOrder(q)'
    <3>1. PassInOrder(q)
      BY <2>i2
    <3>2. CASE q = j[1]
      <4>1. pass'[q] = pass[q] /\ pass[q] \in {"queue", "done"} /\ toQueue'[q] = toQueue[q]
        BY <2>s, <2>n, <3>2
      <4>2. CASE pass[q] = "queue"
        <5>1. toQueue[q] # {} /\ \A c \in toQueue[q] : chunkStatus[c] = "pending"
          BY <3>1, <4>2 DEF PassInOrder
        <5>2. \A i \in Jobs : i[1] = q /\ i[2] \in toQueue[q] => chunkJob[i] = "none" /\ i # j
          BY <2>n, <3>1, <3>2, <4>2 DEF PassInOrder
        <5>3. \A c \in toQueue[q] : c \in ChunkIds /\ c # j[2]
          BY <2>n, <2>y, <3>2, <4>2
        <5>4. /\ \A c \in toQueue[q] : chunkStatus'[c] = "pending"
              /\ \A i \in Jobs : i[1] = q /\ i[2] \in toQueue[q] => chunkJob'[i] = "none"
          BY <2>s, <5>1, <5>2, <5>3
        <5> QED
          BY <4>1, <4>2, <5>1, <5>4 DEF PassInOrder
      <4> QED
        BY <4>1, <4>2 DEF PassInOrder
    <3>3. CASE q # j[1]
      <4>1. /\ pass'[q] = pass[q] /\ pass[q] \notin Running
            /\ \A i \in Jobs : i[1] = q => chunkJob'[i] = chunkJob[i]
        BY <2>s, <2>o, <3>3
      <4> QED
        BY <3>1, <4>1 DEF PassInOrder, Running
    <3> QED
      BY <3>2, <3>3
  <2>3. ASSUME NEW i \in Jobs PROVE JobInOrder(i)'
    <3>1. JobInOrder(i)
      BY <2>i3
    <3> QED
      BY <2>a, <2>s, <2>f, <2>z, <2>n, <2>o, <3>1 DEF JobInOrder, Won, Running, Open
  <2>4. OneWins'
    BY <2>a, <2>s, <2>f, <2>i4 DEF OneWins, Won
  <2>5. ClaimHeld'
    BY <2>a, <2>s, <2>f, <2>i5 DEF ClaimHeld, Won, Open
  <2>6. ClaimIsDue'
    BY <2>a, <2>s, <2>f, <2>i6 DEF ClaimIsDue, NothingBlocks, Present, Blocking
  <2>7. CompletedForGood'
    BY <2>a, <2>s, <2>f, <2>i7 DEF CompletedForGood, NothingBlocks, Present, Blocking, Running
  <2>8. OnTheWay'
    BY <2>a, <2>s, <2>f, <2>i8, <2>i3, <2>z DEF OnTheWay, Present, Running, Open, JobInOrder
  <2> QED
    BY <2>1, <2>2, <2>3, <2>4, <2>5, <2>6, <2>7, <2>8
<1>2. overtaken' = overtaken
  BY DEF DeferOwner, requests
<1> QED
  BY <1>t, <1>1, <1>2 DEF IngestInv

LEMMA StartAnalysisKeeps ==
  ASSUME IngestTypeOK, IngestInv, NEW j \in Jobs, StartAnalysis(j)
  PROVE  IngestTypeOK' /\ IngestInv'
<1>t. IngestTypeOK'
  BY IngestAssumption, JobsArePairs DEF IngestTypeOK, StartAnalysis, JobTo, requests, WithChunk, Present, Running, Open, Blocking
<1>1. ASSUME ~overtaken
      PROVE  /\ OneActivePass' /\ (\A q \in Passes : PassInOrder(q)') /\ (\A i \in Jobs : JobInOrder(i)')
             /\ OneWins' /\ ClaimHeld' /\ ClaimIsDue' /\ CompletedForGood' /\ OnTheWay'
  <2>i1. OneActivePass
    BY <1>1 DEF IngestInv
  <2>i2. \A q \in Passes : PassInOrder(q)
    BY <1>1 DEF IngestInv
  <2>i3. \A i \in Jobs : JobInOrder(i)
    BY <1>1 DEF IngestInv
  <2>i4. OneWins
    BY <1>1 DEF IngestInv
  <2>i5. ClaimHeld
    BY <1>1 DEF IngestInv
  <2>i6. ClaimIsDue
    BY <1>1 DEF IngestInv
  <2>i7. CompletedForGood
    BY <1>1 DEF IngestInv
  <2>i8. OnTheWay
    BY <1>1 DEF IngestInv
  <2>y. /\ chunkStatus \in [ChunkIds -> Blocking \cup {"absent", "completed", "pending_credits"}]
        /\ pass \in [Passes -> Running \cup {"new", "done"}]
        /\ toQueue \in [Passes -> SUBSET ChunkIds]
        /\ chunkJob \in [Jobs -> Open \cup {"none", "done", "finalised"}]
    BY DEF IngestTypeOK
  <2>z. /\ \A i \in Jobs : i[1] \in Passes /\ i[2] \in ChunkIds
        /\ \A i, k \in Jobs : i[1] = k[1] /\ i[2] = k[2] => i = k
    BY JobsArePairs
  <2>a. j \in Jobs /\ chunkJob[j] = "queued" /\ chunkJob[j] \in Open
    BY <2>y, <2>z, <2>i3 DEF StartAnalysis, JobTo, requests, WithChunk, Present, Open, Running
  <2>s. /\ \A i \in Jobs : chunkJob'[i] = IF i = j THEN "analyse" ELSE chunkJob[i]
        /\ \A c \in ChunkIds : chunkStatus'[c] = IF c = j[2] THEN "in_progress" ELSE chunkStatus[c]
        /\ UNCHANGED <<aiStatus, pass, toQueue, ingestFaults>>
    BY <2>a, <2>y, <2>z, IngestAssumption, <2>i3 DEF StartAnalysis, JobTo, requests, WithChunk, Present, IngestTypeOK, JobInOrder
  <2>f. finalisationClaimed' <=> finalisationClaimed
    BY DEF StartAnalysis
  <2>o. /\ \A q \in Passes : q # j[1] => pass[q] \notin Running
        /\ \A i \in Jobs : i[1] # j[1] => chunkJob[i] \notin Open
    BY <2>i1, <2>z, <2>a DEF OneActivePass, ActivePass
  <2>n. /\ pass[j[1]] \in {"queue", "done"}
        /\ pass[j[1]] = "queue" => j[2] \notin toQueue[j[1]]
    <3>1. PassInOrder(j[1]) /\ pass[j[1]] \in Running \cup {"new", "done"} /\ chunkJob[j] # "none"
      BY <2>i2, <2>y, <2>z, <2>a DEF Open
    <3> QED
      BY <3>1 DEF PassInOrder, Running
  <2>1. OneActivePass'
    <3>1. ASSUME NEW q \in Passes, q # j[1], pass'[q] \in Running PROVE FALSE
      BY <3>1, <2>a, <2>s, <2>o DEF Running
    <3>2. ASSUME NEW i \in Jobs, i[1] # j[1], chunkJob'[i] \in Open PROVE FALSE
      BY <3>2, <2>a, <2>s, <2>o, <2>z DEF Open
    <3> QED
      BY <3>1, <3>2, Zenon DEF OneActivePass, ActivePass
  <2>2. ASSUME NEW q \in Passes PROVE PassInOrder(q)'
    <3>1. PassInOrder(q)
      BY <2>i2
    <3>2. CASE q = j[1]
      <4>1. pass'[q] = pass[q] /\ pass[q] \in {"queue", "done"} /\ toQueue'[q] = toQueue[q]
        BY <2>s, <2>n, <3>2
      <4>2. CASE pass[q] = "queue"
        <5>1. toQueue[q] # {} /\ \A c \in toQueue[q] : chunkStatus[c] = "pending"
          BY <3>1, <4>2 DEF PassInOrder
        <5>2. \A i \in Jobs : i[1] = q /\ i[2] \in toQueue[q] => chunkJob[i] = "none" /\ i # j
          BY <2>n, <3>1, <3>2, <4>2 DEF PassInOrder
        <5>3. \A c \in toQueue[q] : c \in ChunkIds /\ c # j[2]
          BY <2>n, <2>y, <3>2, <4>2
        <5>4. /\ \A c \in toQueue[q] : chunkStatus'[c] = "pending"
              /\ \A i \in Jobs : i[1] = q /\ i[2] \in toQueue[q] => chunkJob'[i] = "none"
          BY <2>s, <5>1, <5>2, <5>3
        <5> QED
          BY <4>1, <4>2, <5>1, <5>4 DEF PassInOrder
      <4> QED
        BY <4>1, <4>2 DEF PassInOrder
    <3>3. CASE q # j[1]
      <4>1. /\ pass'[q] = pass[q] /\ pass[q] \notin Running
            /\ \A i \in Jobs : i[1] = q => chunkJob'[i] = chunkJob[i]
        BY <2>s, <2>o, <3>3
      <4> QED
        BY <3>1, <4>1 DEF PassInOrder, Running
    <3> QED
      BY <3>2, <3>3
  <2>3. ASSUME NEW i \in Jobs PROVE JobInOrder(i)'
    <3>1. JobInOrder(i)
      BY <2>i3
    <3> QED
      BY <2>a, <2>s, <2>f, <2>z, <2>n, <2>o, <3>1 DEF JobInOrder, Won, Running, Open
  <2>4. OneWins'
    BY <2>a, <2>s, <2>f, <2>i4 DEF OneWins, Won
  <2>5. ClaimHeld'
    BY <2>a, <2>s, <2>f, <2>i5 DEF ClaimHeld, Won, Open
  <2>6. ClaimIsDue'
    BY <2>a, <2>s, <2>f, <2>i6, <2>i3, <2>z DEF ClaimIsDue, NothingBlocks, Present, Blocking, JobInOrder
  <2>7. CompletedForGood'
    BY <2>a, <2>s, <2>f, <2>i7, <2>i3, <2>z DEF CompletedForGood, NothingBlocks, Present, Blocking, Running, JobInOrder
  <2>8. OnTheWay'
    BY <2>a, <2>s, <2>f, <2>i8, <2>z DEF OnTheWay, Present, Running, Open
  <2> QED
    BY <2>1, <2>2, <2>3, <2>4, <2>5, <2>6, <2>7, <2>8
<1>2. overtaken' = overtaken
  BY DEF StartAnalysis, requests
<1> QED
  BY <1>t, <1>1, <1>2 DEF IngestInv

LEMMA EndAnalysisKeeps ==
  ASSUME IngestTypeOK, IngestInv, NEW j \in Jobs, EndAnalysis(j)
  PROVE  IngestTypeOK' /\ IngestInv'
<1>t. IngestTypeOK'
  BY IngestAssumption, JobsArePairs DEF IngestTypeOK, EndAnalysis, JobTo, requests, WithChunk, Present, Running, Open, Blocking
<1>1. ASSUME ~overtaken
      PROVE  /\ OneActivePass' /\ (\A q \in Passes : PassInOrder(q)') /\ (\A i \in Jobs : JobInOrder(i)')
             /\ OneWins' /\ ClaimHeld' /\ ClaimIsDue' /\ CompletedForGood' /\ OnTheWay'
  <2>i1. OneActivePass
    BY <1>1 DEF IngestInv
  <2>i2. \A q \in Passes : PassInOrder(q)
    BY <1>1 DEF IngestInv
  <2>i3. \A i \in Jobs : JobInOrder(i)
    BY <1>1 DEF IngestInv
  <2>i4. OneWins
    BY <1>1 DEF IngestInv
  <2>i5. ClaimHeld
    BY <1>1 DEF IngestInv
  <2>i6. ClaimIsDue
    BY <1>1 DEF IngestInv
  <2>i7. CompletedForGood
    BY <1>1 DEF IngestInv
  <2>i8. OnTheWay
    BY <1>1 DEF IngestInv
  <2>y. /\ chunkStatus \in [ChunkIds -> Blocking \cup {"absent", "completed", "pending_credits"}]
        /\ pass \in [Passes -> Running \cup {"new", "done"}]
        /\ toQueue \in [Passes -> SUBSET ChunkIds]
        /\ chunkJob \in [Jobs -> Open \cup {"none", "done", "finalised"}]
    BY DEF IngestTypeOK
  <2>z. /\ \A i \in Jobs : i[1] \in Passes /\ i[2] \in ChunkIds
        /\ \A i, k \in Jobs : i[1] = k[1] /\ i[2] = k[2] => i = k
    BY JobsArePairs
  <2>a. j \in Jobs /\ chunkJob[j] = "analyse" /\ chunkJob[j] \in Open
    BY <2>y, <2>z, <2>i3 DEF EndAnalysis, JobTo, requests, WithChunk, Present, Open, Running
  <2>s. /\ \A i \in Jobs : chunkJob'[i] = IF i = j THEN "hand over" ELSE chunkJob[i]
        /\ \A c \in ChunkIds : chunkStatus'[c] = IF c = j[2] THEN "completed" ELSE chunkStatus[c]
        /\ UNCHANGED <<aiStatus, pass, toQueue, ingestFaults>>
    BY <2>a, <2>y, <2>z, IngestAssumption, <2>i3 DEF EndAnalysis, JobTo, requests, WithChunk, Present, IngestTypeOK, JobInOrder
  <2>f. finalisationClaimed' <=> finalisationClaimed
    BY DEF EndAnalysis
  <2>o. /\ \A q \in Passes : q # j[1] => pass[q] \notin Running
        /\ \A i \in Jobs : i[1] # j[1] => chunkJob[i] \notin Open
    BY <2>i1, <2>z, <2>a DEF OneActivePass, ActivePass
  <2>n. /\ pass[j[1]] \in {"queue", "done"}
        /\ pass[j[1]] = "queue" => j[2] \notin toQueue[j[1]]
    <3>1. PassInOrder(j[1]) /\ pass[j[1]] \in Running \cup {"new", "done"} /\ chunkJob[j] # "none"
      BY <2>i2, <2>y, <2>z, <2>a DEF Open
    <3> QED
      BY <3>1 DEF PassInOrder, Running
  <2>1. OneActivePass'
    <3>1. ASSUME NEW q \in Passes, q # j[1], pass'[q] \in Running PROVE FALSE
      BY <3>1, <2>a, <2>s, <2>o DEF Running
    <3>2. ASSUME NEW i \in Jobs, i[1] # j[1], chunkJob'[i] \in Open PROVE FALSE
      BY <3>2, <2>a, <2>s, <2>o, <2>z DEF Open
    <3> QED
      BY <3>1, <3>2, Zenon DEF OneActivePass, ActivePass
  <2>2. ASSUME NEW q \in Passes PROVE PassInOrder(q)'
    <3>1. PassInOrder(q)
      BY <2>i2
    <3>2. CASE q = j[1]
      <4>1. pass'[q] = pass[q] /\ pass[q] \in {"queue", "done"} /\ toQueue'[q] = toQueue[q]
        BY <2>s, <2>n, <3>2
      <4>2. CASE pass[q] = "queue"
        <5>1. toQueue[q] # {} /\ \A c \in toQueue[q] : chunkStatus[c] = "pending"
          BY <3>1, <4>2 DEF PassInOrder
        <5>2. \A i \in Jobs : i[1] = q /\ i[2] \in toQueue[q] => chunkJob[i] = "none" /\ i # j
          BY <2>n, <3>1, <3>2, <4>2 DEF PassInOrder
        <5>3. \A c \in toQueue[q] : c \in ChunkIds /\ c # j[2]
          BY <2>n, <2>y, <3>2, <4>2
        <5>4. /\ \A c \in toQueue[q] : chunkStatus'[c] = "pending"
              /\ \A i \in Jobs : i[1] = q /\ i[2] \in toQueue[q] => chunkJob'[i] = "none"
          BY <2>s, <5>1, <5>2, <5>3
        <5> QED
          BY <4>1, <4>2, <5>1, <5>4 DEF PassInOrder
      <4> QED
        BY <4>1, <4>2 DEF PassInOrder
    <3>3. CASE q # j[1]
      <4>1. /\ pass'[q] = pass[q] /\ pass[q] \notin Running
            /\ \A i \in Jobs : i[1] = q => chunkJob'[i] = chunkJob[i]
        BY <2>s, <2>o, <3>3
      <4> QED
        BY <3>1, <4>1 DEF PassInOrder, Running
    <3> QED
      BY <3>2, <3>3
  <2>3. ASSUME NEW i \in Jobs PROVE JobInOrder(i)'
    <3>1. JobInOrder(i)
      BY <2>i3
    <3> QED
      BY <2>a, <2>s, <2>f, <2>z, <2>n, <2>o, <3>1 DEF JobInOrder, Won, Running, Open
  <2>4. OneWins'
    BY <2>a, <2>s, <2>f, <2>i4 DEF OneWins, Won
  <2>5. ClaimHeld'
    BY <2>a, <2>s, <2>f, <2>i5 DEF ClaimHeld, Won, Open
  <2>6. ClaimIsDue'
    BY <2>a, <2>s, <2>f, <2>i6, <2>z DEF ClaimIsDue, NothingBlocks, Present, Blocking
  <2>7. CompletedForGood'
    BY <2>a, <2>s, <2>f, <2>i7, <2>z DEF CompletedForGood, NothingBlocks, Present, Blocking, Running
  <2>8. OnTheWay'
    BY <2>a, <2>s, <2>f, <2>i8, <2>i3, <2>i6, <2>z, <2>y DEF OnTheWay, Present, Running, Open, JobInOrder, ClaimIsDue, NothingBlocks, NothingBlocks, Blocking
  <2> QED
    BY <2>1, <2>2, <2>3, <2>4, <2>5, <2>6, <2>7, <2>8
<1>2. overtaken' = overtaken
  BY DEF EndAnalysis, requests
<1> QED
  BY <1>t, <1>1, <1>2 DEF IngestInv

LEMMA HandOverKeeps ==
  ASSUME IngestTypeOK, IngestInv, NEW j \in Jobs, HandOver(j)
  PROVE  IngestTypeOK' /\ IngestInv'
<1>t. IngestTypeOK'
  BY IngestAssumption, JobsArePairs DEF IngestTypeOK, HandOver, JobTo, requests, Running, Open, Blocking
<1>1. ASSUME ~overtaken
      PROVE  /\ OneActivePass' /\ (\A q \in Passes : PassInOrder(q)') /\ (\A i \in Jobs : JobInOrder(i)')
             /\ OneWins' /\ ClaimHeld' /\ ClaimIsDue' /\ CompletedForGood' /\ OnTheWay'
  <2>i1. OneActivePass
    BY <1>1 DEF IngestInv
  <2>i2. \A q \in Passes : PassInOrder(q)
    BY <1>1 DEF IngestInv
  <2>i3. \A i \in Jobs : JobInOrder(i)
    BY <1>1 DEF IngestInv
  <2>i4. OneWins
    BY <1>1 DEF IngestInv
  <2>i5. ClaimHeld
    BY <1>1 DEF IngestInv
  <2>i6. ClaimIsDue
    BY <1>1 DEF IngestInv
  <2>i7. CompletedForGood
    BY <1>1 DEF IngestInv
  <2>i8. OnTheWay
    BY <1>1 DEF IngestInv
  <2>y. /\ chunkStatus \in [ChunkIds -> Blocking \cup {"absent", "completed", "pending_credits"}]
        /\ pass \in [Passes -> Running \cup {"new", "done"}]
        /\ toQueue \in [Passes -> SUBSET ChunkIds]
        /\ chunkJob \in [Jobs -> Open \cup {"none", "done", "finalised"}]
    BY DEF IngestTypeOK
  <2>z. /\ \A i \in Jobs : i[1] \in Passes /\ i[2] \in ChunkIds
        /\ \A i, k \in Jobs : i[1] = k[1] /\ i[2] = k[2] => i = k
    BY JobsArePairs
  <2>a. j \in Jobs /\ chunkJob[j] = "hand over" /\ chunkJob[j] \in Open
    BY <2>y, <2>z, <2>i3 DEF HandOver, JobTo, requests, Open, Running
  <2>s. /\ \A i \in Jobs : chunkJob'[i] = IF i = j THEN "finalise" ELSE chunkJob[i]
        /\ UNCHANGED <<aiStatus, chunkStatus, pass, toQueue, ingestFaults>>
    BY <2>a, <2>y, <2>z, IngestAssumption, <2>i3 DEF HandOver, JobTo, requests, IngestTypeOK, JobInOrder
  <2>f. finalisationClaimed' <=> finalisationClaimed
    BY DEF HandOver
  <2>o. /\ \A q \in Passes : q # j[1] => pass[q] \notin Running
        /\ \A i \in Jobs : i[1] # j[1] => chunkJob[i] \notin Open
    BY <2>i1, <2>z, <2>a DEF OneActivePass, ActivePass
  <2>n. /\ pass[j[1]] \in {"queue", "done"}
        /\ pass[j[1]] = "queue" => j[2] \notin toQueue[j[1]]
    <3>1. PassInOrder(j[1]) /\ pass[j[1]] \in Running \cup {"new", "done"} /\ chunkJob[j] # "none"
      BY <2>i2, <2>y, <2>z, <2>a DEF Open
    <3> QED
      BY <3>1 DEF PassInOrder, Running
  <2>1. OneActivePass'
    <3>1. ASSUME NEW q \in Passes, q # j[1], pass'[q] \in Running PROVE FALSE
      BY <3>1, <2>a, <2>s, <2>o DEF Running
    <3>2. ASSUME NEW i \in Jobs, i[1] # j[1], chunkJob'[i] \in Open PROVE FALSE
      BY <3>2, <2>a, <2>s, <2>o, <2>z DEF Open
    <3> QED
      BY <3>1, <3>2, Zenon DEF OneActivePass, ActivePass
  <2>2. ASSUME NEW q \in Passes PROVE PassInOrder(q)'
    <3>1. PassInOrder(q)
      BY <2>i2
    <3>2. CASE q = j[1]
      <4>1. pass'[q] = pass[q] /\ pass[q] \in {"queue", "done"} /\ toQueue'[q] = toQueue[q]
        BY <2>s, <2>n, <3>2
      <4>2. CASE pass[q] = "queue"
        <5>1. toQueue[q] # {} /\ \A c \in toQueue[q] : chunkStatus[c] = "pending"
          BY <3>1, <4>2 DEF PassInOrder
        <5>2. \A i \in Jobs : i[1] = q /\ i[2] \in toQueue[q] => chunkJob[i] = "none" /\ i # j
          BY <2>n, <3>1, <3>2, <4>2 DEF PassInOrder
        <5>3. \A c \in toQueue[q] : c \in ChunkIds /\ c # j[2]
          BY <2>n, <2>y, <3>2, <4>2
        <5>4. /\ \A c \in toQueue[q] : chunkStatus'[c] = "pending"
              /\ \A i \in Jobs : i[1] = q /\ i[2] \in toQueue[q] => chunkJob'[i] = "none"
          BY <2>s, <5>1, <5>2, <5>3
        <5> QED
          BY <4>1, <4>2, <5>1, <5>4 DEF PassInOrder
      <4> QED
        BY <4>1, <4>2 DEF PassInOrder
    <3>3. CASE q # j[1]
      <4>1. /\ pass'[q] = pass[q] /\ pass[q] \notin Running
            /\ \A i \in Jobs : i[1] = q => chunkJob'[i] = chunkJob[i]
        BY <2>s, <2>o, <3>3
      <4> QED
        BY <3>1, <4>1 DEF PassInOrder, Running
    <3> QED
      BY <3>2, <3>3
  <2>3. ASSUME NEW i \in Jobs PROVE JobInOrder(i)'
    <3>1. JobInOrder(i)
      BY <2>i3
    <3> QED
      BY <2>a, <2>s, <2>f, <2>z, <2>n, <2>o, <3>1 DEF JobInOrder, Won, Running, Open
  <2>4. OneWins'
    BY <2>a, <2>s, <2>f, <2>i4 DEF OneWins, Won
  <2>5. ClaimHeld'
    BY <2>a, <2>s, <2>f, <2>i5 DEF ClaimHeld, Won, Open
  <2>6. ClaimIsDue'
    BY <2>a, <2>s, <2>f, <2>i6 DEF ClaimIsDue, NothingBlocks, Present, Blocking
  <2>7. CompletedForGood'
    BY <2>a, <2>s, <2>f, <2>i7 DEF CompletedForGood, NothingBlocks, Present, Blocking, Running
  <2>8. OnTheWay'
    BY <2>a, <2>s, <2>f, <2>i8 DEF OnTheWay, Present, Running, Open
  <2> QED
    BY <2>1, <2>2, <2>3, <2>4, <2>5, <2>6, <2>7, <2>8
<1>2. overtaken' = overtaken
  BY DEF HandOver, requests
<1> QED
  BY <1>t, <1>1, <1>2 DEF IngestInv

LEMMA ClaimKeeps ==
  ASSUME IngestTypeOK, IngestInv, NEW j \in Jobs, Claim(j)
  PROVE  IngestTypeOK' /\ IngestInv'
<1>t. IngestTypeOK'
  BY IngestAssumption, JobsArePairs DEF IngestTypeOK, Claim, JobTo, requests, Running, Open, Blocking
<1>1. ASSUME ~overtaken
      PROVE  /\ OneActivePass' /\ (\A q \in Passes : PassInOrder(q)') /\ (\A i \in Jobs : JobInOrder(i)')
             /\ OneWins' /\ ClaimHeld' /\ ClaimIsDue' /\ CompletedForGood' /\ OnTheWay'
  <2>i1. OneActivePass
    BY <1>1 DEF IngestInv
  <2>i2. \A q \in Passes : PassInOrder(q)
    BY <1>1 DEF IngestInv
  <2>i3. \A i \in Jobs : JobInOrder(i)
    BY <1>1 DEF IngestInv
  <2>i4. OneWins
    BY <1>1 DEF IngestInv
  <2>i5. ClaimHeld
    BY <1>1 DEF IngestInv
  <2>i6. ClaimIsDue
    BY <1>1 DEF IngestInv
  <2>i7. CompletedForGood
    BY <1>1 DEF IngestInv
  <2>i8. OnTheWay
    BY <1>1 DEF IngestInv
  <2>y. /\ chunkStatus \in [ChunkIds -> Blocking \cup {"absent", "completed", "pending_credits"}]
        /\ pass \in [Passes -> Running \cup {"new", "done"}]
        /\ toQueue \in [Passes -> SUBSET ChunkIds]
        /\ chunkJob \in [Jobs -> Open \cup {"none", "done", "finalised"}]
    BY DEF IngestTypeOK
  <2>z. /\ \A i \in Jobs : i[1] \in Passes /\ i[2] \in ChunkIds
        /\ \A i, k \in Jobs : i[1] = k[1] /\ i[2] = k[2] => i = k
    BY JobsArePairs
  <2>a. j \in Jobs /\ chunkJob[j] = "finalise" /\ chunkJob[j] \in Open
    BY <2>y, <2>z, <2>i3 DEF Claim, JobTo, requests, Open, Running
  <2>s. /\ \A i \in Jobs : chunkJob'[i] = IF i = j THEN (IF ~finalisationClaimed /\ NothingBlocks THEN "claimed" ELSE "done") ELSE chunkJob[i]
        /\ UNCHANGED <<aiStatus, chunkStatus, pass, toQueue, ingestFaults>>
    BY <2>a, <2>y, <2>z, IngestAssumption, <2>i3 DEF Claim, JobTo, requests, IngestTypeOK, JobInOrder
  <2>f. finalisationClaimed' <=> finalisationClaimed \/ NothingBlocks
    BY DEF Claim
  <2>o. /\ \A q \in Passes : q # j[1] => pass[q] \notin Running
        /\ \A i \in Jobs : i[1] # j[1] => chunkJob[i] \notin Open
    BY <2>i1, <2>z, <2>a DEF OneActivePass, ActivePass
  <2>n. /\ pass[j[1]] \in {"queue", "done"}
        /\ pass[j[1]] = "queue" => j[2] \notin toQueue[j[1]]
    <3>1. PassInOrder(j[1]) /\ pass[j[1]] \in Running \cup {"new", "done"} /\ chunkJob[j] # "none"
      BY <2>i2, <2>y, <2>z, <2>a DEF Open
    <3> QED
      BY <3>1 DEF PassInOrder, Running
  <2>1. OneActivePass'
    <3>1. ASSUME NEW q \in Passes, q # j[1], pass'[q] \in Running PROVE FALSE
      BY <3>1, <2>a, <2>s, <2>o DEF Running
    <3>2. ASSUME NEW i \in Jobs, i[1] # j[1], chunkJob'[i] \in Open PROVE FALSE
      BY <3>2, <2>a, <2>s, <2>o, <2>z DEF Open
    <3> QED
      BY <3>1, <3>2, Zenon DEF OneActivePass, ActivePass
  <2>2. ASSUME NEW q \in Passes PROVE PassInOrder(q)'
    <3>1. PassInOrder(q)
      BY <2>i2
    <3>2. CASE q = j[1]
      <4>1. pass'[q] = pass[q] /\ pass[q] \in {"queue", "done"} /\ toQueue'[q] = toQueue[q]
        BY <2>s, <2>n, <3>2
      <4>2. CASE pass[q] = "queue"
        <5>1. toQueue[q] # {} /\ \A c \in toQueue[q] : chunkStatus[c] = "pending"
          BY <3>1, <4>2 DEF PassInOrder
        <5>2. \A i \in Jobs : i[1] = q /\ i[2] \in toQueue[q] => chunkJob[i] = "none" /\ i # j
          BY <2>n, <3>1, <3>2, <4>2 DEF PassInOrder
        <5>3. \A c \in toQueue[q] : c \in ChunkIds /\ c # j[2]
          BY <2>n, <2>y, <3>2, <4>2
        <5>4. /\ \A c \in toQueue[q] : chunkStatus'[c] = "pending"
              /\ \A i \in Jobs : i[1] = q /\ i[2] \in toQueue[q] => chunkJob'[i] = "none"
          BY <2>s, <5>1, <5>2, <5>3
        <5> QED
          BY <4>1, <4>2, <5>1, <5>4 DEF PassInOrder
      <4> QED
        BY <4>1, <4>2 DEF PassInOrder
    <3>3. CASE q # j[1]
      <4>1. /\ pass'[q] = pass[q] /\ pass[q] \notin Running
            /\ \A i \in Jobs : i[1] = q => chunkJob'[i] = chunkJob[i]
        BY <2>s, <2>o, <3>3
      <4> QED
        BY <3>1, <4>1 DEF PassInOrder, Running
    <3> QED
      BY <3>2, <3>3
  <2>w. ~finalisationClaimed /\ NothingBlocks => pass[j[1]] = "done"
    <3>1. ASSUME pass[j[1]] = "queue" PROVE ~NothingBlocks
      <4>1. PassInOrder(j[1]) /\ toQueue[j[1]] \subseteq ChunkIds
        BY <2>i2, <2>y, <2>z
      <4>2. PICK k \in toQueue[j[1]] : k \in ChunkIds /\ chunkStatus[k] = "pending"
        BY <3>1, <4>1 DEF PassInOrder
      <4> QED
        BY <4>2 DEF NothingBlocks, Present, Blocking
    <3> QED
      BY <3>1, <2>n
  <2>3. ASSUME NEW i \in Jobs PROVE JobInOrder(i)'
    <3>1. JobInOrder(i)
      BY <2>i3
    <3> QED
      BY <2>a, <2>s, <2>w, <3>1 DEF JobInOrder, Won
  <2>4. OneWins'
    BY <2>a, <2>s, <2>f, <2>i4, <2>i5 DEF OneWins, Won, ClaimHeld
  <2>5. ClaimHeld'
    BY <2>a, <2>s, <2>f, <2>i5 DEF ClaimHeld, Won, Open
  <2>6. ClaimIsDue'
    BY <2>a, <2>s, <2>f, <2>i6 DEF ClaimIsDue, NothingBlocks, Present, Blocking
  <2>7. CompletedForGood'
    BY <2>a, <2>s, <2>f, <2>i7 DEF CompletedForGood, NothingBlocks, Present, Blocking, Running
  <2>8. OnTheWay'
    BY <2>a, <2>s, <2>f, <2>i8 DEF OnTheWay, Present, Running, Open, NothingBlocks, Blocking
  <2> QED
    BY <2>1, <2>2, <2>3, <2>4, <2>5, <2>6, <2>7, <2>8
<1>2. overtaken' = overtaken
  BY DEF Claim, requests
<1> QED
  BY <1>t, <1>1, <1>2 DEF IngestInv

LEMMA MarkInProgressKeeps ==
  ASSUME IngestTypeOK, IngestInv, NEW j \in Jobs, MarkInProgress(j)
  PROVE  IngestTypeOK' /\ IngestInv'
<1>t. IngestTypeOK'
  BY IngestAssumption, JobsArePairs DEF IngestTypeOK, MarkInProgress, JobTo, requests, Running, Open, Blocking
<1>1. ASSUME ~overtaken
      PROVE  /\ OneActivePass' /\ (\A q \in Passes : PassInOrder(q)') /\ (\A i \in Jobs : JobInOrder(i)')
             /\ OneWins' /\ ClaimHeld' /\ ClaimIsDue' /\ CompletedForGood' /\ OnTheWay'
  <2>i1. OneActivePass
    BY <1>1 DEF IngestInv
  <2>i2. \A q \in Passes : PassInOrder(q)
    BY <1>1 DEF IngestInv
  <2>i3. \A i \in Jobs : JobInOrder(i)
    BY <1>1 DEF IngestInv
  <2>i4. OneWins
    BY <1>1 DEF IngestInv
  <2>i5. ClaimHeld
    BY <1>1 DEF IngestInv
  <2>i6. ClaimIsDue
    BY <1>1 DEF IngestInv
  <2>i7. CompletedForGood
    BY <1>1 DEF IngestInv
  <2>i8. OnTheWay
    BY <1>1 DEF IngestInv
  <2>y. /\ chunkStatus \in [ChunkIds -> Blocking \cup {"absent", "completed", "pending_credits"}]
        /\ pass \in [Passes -> Running \cup {"new", "done"}]
        /\ toQueue \in [Passes -> SUBSET ChunkIds]
        /\ chunkJob \in [Jobs -> Open \cup {"none", "done", "finalised"}]
    BY DEF IngestTypeOK
  <2>z. /\ \A i \in Jobs : i[1] \in Passes /\ i[2] \in ChunkIds
        /\ \A i, k \in Jobs : i[1] = k[1] /\ i[2] = k[2] => i = k
    BY JobsArePairs
  <2>a. j \in Jobs /\ chunkJob[j] = "claimed" /\ chunkJob[j] \in Open
    BY <2>y, <2>z, <2>i3 DEF MarkInProgress, JobTo, requests, Open, Running
  <2>s. /\ \A i \in Jobs : chunkJob'[i] = IF i = j THEN "complete" ELSE chunkJob[i]
        /\ aiStatus' = "in_progress"
        /\ UNCHANGED <<chunkStatus, pass, toQueue, ingestFaults>>
    BY <2>a, <2>y, <2>z, IngestAssumption, <2>i3 DEF MarkInProgress, JobTo, requests, IngestTypeOK, JobInOrder
  <2>f. finalisationClaimed' <=> finalisationClaimed
    BY DEF MarkInProgress
  <2>o. /\ \A q \in Passes : q # j[1] => pass[q] \notin Running
        /\ \A i \in Jobs : i[1] # j[1] => chunkJob[i] \notin Open
    BY <2>i1, <2>z, <2>a DEF OneActivePass, ActivePass
  <2>n. /\ pass[j[1]] \in {"queue", "done"}
        /\ pass[j[1]] = "queue" => j[2] \notin toQueue[j[1]]
    <3>1. PassInOrder(j[1]) /\ pass[j[1]] \in Running \cup {"new", "done"} /\ chunkJob[j] # "none"
      BY <2>i2, <2>y, <2>z, <2>a DEF Open
    <3> QED
      BY <3>1 DEF PassInOrder, Running
  <2>1. OneActivePass'
    <3>1. ASSUME NEW q \in Passes, q # j[1], pass'[q] \in Running PROVE FALSE
      BY <3>1, <2>a, <2>s, <2>o DEF Running
    <3>2. ASSUME NEW i \in Jobs, i[1] # j[1], chunkJob'[i] \in Open PROVE FALSE
      BY <3>2, <2>a, <2>s, <2>o, <2>z DEF Open
    <3> QED
      BY <3>1, <3>2, Zenon DEF OneActivePass, ActivePass
  <2>2. ASSUME NEW q \in Passes PROVE PassInOrder(q)'
    <3>1. PassInOrder(q)
      BY <2>i2
    <3>2. CASE q = j[1]
      <4>1. pass'[q] = pass[q] /\ pass[q] \in {"queue", "done"} /\ toQueue'[q] = toQueue[q]
        BY <2>s, <2>n, <3>2
      <4>2. CASE pass[q] = "queue"
        <5>1. toQueue[q] # {} /\ \A c \in toQueue[q] : chunkStatus[c] = "pending"
          BY <3>1, <4>2 DEF PassInOrder
        <5>2. \A i \in Jobs : i[1] = q /\ i[2] \in toQueue[q] => chunkJob[i] = "none" /\ i # j
          BY <2>n, <3>1, <3>2, <4>2 DEF PassInOrder
        <5>3. \A c \in toQueue[q] : c \in ChunkIds /\ c # j[2]
          BY <2>n, <2>y, <3>2, <4>2
        <5>4. /\ \A c \in toQueue[q] : chunkStatus'[c] = "pending"
              /\ \A i \in Jobs : i[1] = q /\ i[2] \in toQueue[q] => chunkJob'[i] = "none"
          BY <2>s, <5>1, <5>2, <5>3
        <5> QED
          BY <4>1, <4>2, <5>1, <5>4 DEF PassInOrder
      <4> QED
        BY <4>1, <4>2 DEF PassInOrder
    <3>3. CASE q # j[1]
      <4>1. /\ pass'[q] = pass[q] /\ pass[q] \notin Running
            /\ \A i \in Jobs : i[1] = q => chunkJob'[i] = chunkJob[i]
        BY <2>s, <2>o, <3>3
      <4> QED
        BY <3>1, <4>1 DEF PassInOrder, Running
    <3> QED
      BY <3>2, <3>3
  <2>3. ASSUME NEW i \in Jobs PROVE JobInOrder(i)'
    <3>1. JobInOrder(i)
      BY <2>i3
    <3> QED
      BY <2>a, <2>s, <2>f, <2>z, <2>n, <2>o, <3>1 DEF JobInOrder, Won, Running, Open
  <2>4. OneWins'
    BY <2>a, <2>s, <2>f, <2>i4 DEF OneWins, Won
  <2>5. ClaimHeld'
    BY <2>a, <2>s, <2>f, <2>i5 DEF ClaimHeld, Won, Open
  <2>6. ClaimIsDue'
    BY <2>a, <2>s, <2>f, <2>i6 DEF ClaimIsDue, NothingBlocks, Present, Blocking
  <2>7. CompletedForGood'
    BY <2>a, <2>s, <2>f, <2>i7 DEF CompletedForGood, NothingBlocks, Present, Blocking, Running
  <2>8. OnTheWay'
    BY <2>a, <2>s, <2>f, <2>i8 DEF OnTheWay, Present, Running, Open
  <2> QED
    BY <2>1, <2>2, <2>3, <2>4, <2>5, <2>6, <2>7, <2>8
<1>2. overtaken' = overtaken
  BY DEF MarkInProgress, requests
<1> QED
  BY <1>t, <1>1, <1>2 DEF IngestInv

LEMMA MarkCompletedKeeps ==
  ASSUME IngestTypeOK, IngestInv, NEW j \in Jobs, MarkCompleted(j)
  PROVE  IngestTypeOK' /\ IngestInv'
<1>t. IngestTypeOK'
  BY IngestAssumption, JobsArePairs DEF IngestTypeOK, MarkCompleted, JobTo, requests, Running, Open, Blocking
<1>1. ASSUME ~overtaken
      PROVE  /\ OneActivePass' /\ (\A q \in Passes : PassInOrder(q)') /\ (\A i \in Jobs : JobInOrder(i)')
             /\ OneWins' /\ ClaimHeld' /\ ClaimIsDue' /\ CompletedForGood' /\ OnTheWay'
  <2>i1. OneActivePass
    BY <1>1 DEF IngestInv
  <2>i2. \A q \in Passes : PassInOrder(q)
    BY <1>1 DEF IngestInv
  <2>i3. \A i \in Jobs : JobInOrder(i)
    BY <1>1 DEF IngestInv
  <2>i4. OneWins
    BY <1>1 DEF IngestInv
  <2>i5. ClaimHeld
    BY <1>1 DEF IngestInv
  <2>i6. ClaimIsDue
    BY <1>1 DEF IngestInv
  <2>i7. CompletedForGood
    BY <1>1 DEF IngestInv
  <2>i8. OnTheWay
    BY <1>1 DEF IngestInv
  <2>y. /\ chunkStatus \in [ChunkIds -> Blocking \cup {"absent", "completed", "pending_credits"}]
        /\ pass \in [Passes -> Running \cup {"new", "done"}]
        /\ toQueue \in [Passes -> SUBSET ChunkIds]
        /\ chunkJob \in [Jobs -> Open \cup {"none", "done", "finalised"}]
    BY DEF IngestTypeOK
  <2>z. /\ \A i \in Jobs : i[1] \in Passes /\ i[2] \in ChunkIds
        /\ \A i, k \in Jobs : i[1] = k[1] /\ i[2] = k[2] => i = k
    BY JobsArePairs
  <2>a. j \in Jobs /\ chunkJob[j] = "complete" /\ chunkJob[j] \in Open
    BY <2>y, <2>z, <2>i3 DEF MarkCompleted, JobTo, requests, Open, Running
  <2>s. /\ \A i \in Jobs : chunkJob'[i] = IF i = j THEN "finalised" ELSE chunkJob[i]
        /\ aiStatus' = "completed"
        /\ UNCHANGED <<chunkStatus, pass, toQueue, ingestFaults>>
    BY <2>a, <2>y, <2>z, IngestAssumption, <2>i3 DEF MarkCompleted, JobTo, requests, IngestTypeOK, JobInOrder
  <2>f. finalisationClaimed' <=> finalisationClaimed
    BY DEF MarkCompleted
  <2>o. /\ \A q \in Passes : q # j[1] => pass[q] \notin Running
        /\ \A i \in Jobs : i[1] # j[1] => chunkJob[i] \notin Open
    BY <2>i1, <2>z, <2>a DEF OneActivePass, ActivePass
  <2>n. /\ pass[j[1]] \in {"queue", "done"}
        /\ pass[j[1]] = "queue" => j[2] \notin toQueue[j[1]]
    <3>1. PassInOrder(j[1]) /\ pass[j[1]] \in Running \cup {"new", "done"} /\ chunkJob[j] # "none"
      BY <2>i2, <2>y, <2>z, <2>a DEF Open
    <3> QED
      BY <3>1 DEF PassInOrder, Running
  <2>1. OneActivePass'
    <3>1. ASSUME NEW q \in Passes, q # j[1], pass'[q] \in Running PROVE FALSE
      BY <3>1, <2>a, <2>s, <2>o DEF Running
    <3>2. ASSUME NEW i \in Jobs, i[1] # j[1], chunkJob'[i] \in Open PROVE FALSE
      BY <3>2, <2>a, <2>s, <2>o, <2>z DEF Open
    <3> QED
      BY <3>1, <3>2, Zenon DEF OneActivePass, ActivePass
  <2>2. ASSUME NEW q \in Passes PROVE PassInOrder(q)'
    <3>1. PassInOrder(q)
      BY <2>i2
    <3>2. CASE q = j[1]
      <4>1. pass'[q] = pass[q] /\ pass[q] \in {"queue", "done"} /\ toQueue'[q] = toQueue[q]
        BY <2>s, <2>n, <3>2
      <4>2. CASE pass[q] = "queue"
        <5>1. toQueue[q] # {} /\ \A c \in toQueue[q] : chunkStatus[c] = "pending"
          BY <3>1, <4>2 DEF PassInOrder
        <5>2. \A i \in Jobs : i[1] = q /\ i[2] \in toQueue[q] => chunkJob[i] = "none" /\ i # j
          BY <2>n, <3>1, <3>2, <4>2 DEF PassInOrder
        <5>3. \A c \in toQueue[q] : c \in ChunkIds /\ c # j[2]
          BY <2>n, <2>y, <3>2, <4>2
        <5>4. /\ \A c \in toQueue[q] : chunkStatus'[c] = "pending"
              /\ \A i \in Jobs : i[1] = q /\ i[2] \in toQueue[q] => chunkJob'[i] = "none"
          BY <2>s, <5>1, <5>2, <5>3
        <5> QED
          BY <4>1, <4>2, <5>1, <5>4 DEF PassInOrder
      <4> QED
        BY <4>1, <4>2 DEF PassInOrder
    <3>3. CASE q # j[1]
      <4>1. /\ pass'[q] = pass[q] /\ pass[q] \notin Running
            /\ \A i \in Jobs : i[1] = q => chunkJob'[i] = chunkJob[i]
        BY <2>s, <2>o, <3>3
      <4> QED
        BY <3>1, <4>1 DEF PassInOrder, Running
    <3> QED
      BY <3>2, <3>3
  <2>3. ASSUME NEW i \in Jobs PROVE JobInOrder(i)'
    <3>1. JobInOrder(i)
      BY <2>i3
    <3> QED
      BY <2>a, <2>s, <2>f, <2>z, <2>n, <2>o, <3>1 DEF JobInOrder, Won, Running, Open
  <2>4. OneWins'
    BY <2>a, <2>s, <2>f, <2>i4 DEF OneWins, Won
  <2>5. ClaimHeld'
    BY <2>a, <2>s, <2>f, <2>i5 DEF ClaimHeld, Won, Open
  <2>6. ClaimIsDue'
    BY <2>a, <2>s, <2>f, <2>i6 DEF ClaimIsDue, NothingBlocks, Present, Blocking
  <2>7. CompletedForGood'
    <3>1. finalisationClaimed
      BY <2>a, <2>i5, <2>z DEF ClaimHeld, Won
    <3>2. pass[j[1]] = "done"
      BY <2>a, <2>i3 DEF JobInOrder, Won
    <3>3. NothingBlocks
      BY <3>1, <2>i6 DEF ClaimIsDue
    <3> QED
      BY <2>s, <2>o, <3>2, <3>3 DEF CompletedForGood, NothingBlocks, Present, Running
  <2>8. OnTheWay'
    BY <2>a, <2>s, <2>f, <2>i8 DEF OnTheWay, Present, Running, Open
  <2> QED
    BY <2>1, <2>2, <2>3, <2>4, <2>5, <2>6, <2>7, <2>8
<1>2. overtaken' = overtaken
  BY DEF MarkCompleted, requests
<1> QED
  BY <1>t, <1>1, <1>2 DEF IngestInv

LEMMA JobFailsKeeps ==
  ASSUME IngestTypeOK, IngestInv, NEW j \in Jobs, JobFails(j)
  PROVE  IngestTypeOK' /\ IngestInv'
<1>t. IngestTypeOK'
  <2>1. ingestFaults + 1 \in 0..MaxIngestFaults
    BY IngestAssumption DEF IngestTypeOK, JobFails, Throws
  <2> QED
    BY <2>1 DEF IngestTypeOK, JobFails, Throws, JobTo, requests
<1>1. ASSUME ~overtaken
      PROVE  /\ OneActivePass' /\ (\A q \in Passes : PassInOrder(q)') /\ (\A i \in Jobs : JobInOrder(i)')
             /\ OneWins' /\ ClaimHeld' /\ ClaimIsDue' /\ CompletedForGood' /\ OnTheWay'
  <2>i1. OneActivePass
    BY <1>1 DEF IngestInv
  <2>i2. \A q \in Passes : PassInOrder(q)
    BY <1>1 DEF IngestInv
  <2>i3. \A i \in Jobs : JobInOrder(i)
    BY <1>1 DEF IngestInv
  <2>i4. OneWins
    BY <1>1 DEF IngestInv
  <2>i5. ClaimHeld
    BY <1>1 DEF IngestInv
  <2>i6. ClaimIsDue
    BY <1>1 DEF IngestInv
  <2>i7. CompletedForGood
    BY <1>1 DEF IngestInv
  <2>i8. OnTheWay
    BY <1>1 DEF IngestInv
  <2>y. /\ chunkStatus \in [ChunkIds -> Blocking \cup {"absent", "completed", "pending_credits"}]
        /\ pass \in [Passes -> Running \cup {"new", "done"}]
        /\ toQueue \in [Passes -> SUBSET ChunkIds]
        /\ chunkJob \in [Jobs -> Open \cup {"none", "done", "finalised"}]
    BY DEF IngestTypeOK
  <2>z. /\ \A i \in Jobs : i[1] \in Passes /\ i[2] \in ChunkIds
        /\ \A i, k \in Jobs : i[1] = k[1] /\ i[2] = k[2] => i = k
    BY JobsArePairs
  <2>a. j \in Jobs /\ chunkJob[j] # "none" /\ chunkJob[j] \in Open
    BY <2>y, <2>z, <2>i3 DEF JobFails, JobTo, requests, Throws, Open, Running
  <2>s. /\ \A i \in Jobs : chunkJob'[i] = IF i = j THEN "done" ELSE chunkJob[i]
        /\ ingestFaults' # 0
        /\ UNCHANGED <<aiStatus, chunkStatus, pass, toQueue>>
    BY <2>a, <2>y, <2>z, IngestAssumption, <2>i3 DEF JobFails, JobTo, requests, Throws, IngestTypeOK, JobInOrder
  <2>f. /\ finalisationClaimed' => finalisationClaimed
        /\ finalisationClaimed /\ chunkJob[j] \notin {"claimed", "complete"} => finalisationClaimed'
    BY DEF JobFails
  <2>o. /\ \A q \in Passes : q # j[1] => pass[q] \notin Running
        /\ \A i \in Jobs : i[1] # j[1] => chunkJob[i] \notin Open
    BY <2>i1, <2>z, <2>a DEF OneActivePass, ActivePass
  <2>n. /\ pass[j[1]] \in {"queue", "done"}
        /\ pass[j[1]] = "queue" => j[2] \notin toQueue[j[1]]
    <3>1. PassInOrder(j[1]) /\ pass[j[1]] \in Running \cup {"new", "done"} /\ chunkJob[j] # "none"
      BY <2>i2, <2>y, <2>z, <2>a DEF Open
    <3> QED
      BY <3>1 DEF PassInOrder, Running
  <2>1. OneActivePass'
    <3>1. ASSUME NEW q \in Passes, q # j[1], pass'[q] \in Running PROVE FALSE
      BY <3>1, <2>a, <2>s, <2>o DEF Running
    <3>2. ASSUME NEW i \in Jobs, i[1] # j[1], chunkJob'[i] \in Open PROVE FALSE
      BY <3>2, <2>a, <2>s, <2>o, <2>z DEF Open
    <3> QED
      BY <3>1, <3>2, Zenon DEF OneActivePass, ActivePass
  <2>2. ASSUME NEW q \in Passes PROVE PassInOrder(q)'
    <3>1. PassInOrder(q)
      BY <2>i2
    <3>2. CASE q = j[1]
      <4>1. pass'[q] = pass[q] /\ pass[q] \in {"queue", "done"} /\ toQueue'[q] = toQueue[q]
        BY <2>s, <2>n, <3>2
      <4>2. CASE pass[q] = "queue"
        <5>1. toQueue[q] # {} /\ \A c \in toQueue[q] : chunkStatus[c] = "pending"
          BY <3>1, <4>2 DEF PassInOrder
        <5>2. \A i \in Jobs : i[1] = q /\ i[2] \in toQueue[q] => chunkJob[i] = "none" /\ i # j
          BY <2>n, <3>1, <3>2, <4>2 DEF PassInOrder
        <5>3. \A c \in toQueue[q] : c \in ChunkIds /\ c # j[2]
          BY <2>n, <2>y, <3>2, <4>2
        <5>4. /\ \A c \in toQueue[q] : chunkStatus'[c] = "pending"
              /\ \A i \in Jobs : i[1] = q /\ i[2] \in toQueue[q] => chunkJob'[i] = "none"
          BY <2>s, <5>1, <5>2, <5>3
        <5> QED
          BY <4>1, <4>2, <5>1, <5>4 DEF PassInOrder
      <4> QED
        BY <4>1, <4>2 DEF PassInOrder
    <3>3. CASE q # j[1]
      <4>1. /\ pass'[q] = pass[q] /\ pass[q] \notin Running
            /\ \A i \in Jobs : i[1] = q => chunkJob'[i] = chunkJob[i]
        BY <2>s, <2>o, <3>3
      <4> QED
        BY <3>1, <4>1 DEF PassInOrder, Running
    <3> QED
      BY <3>2, <3>3
  <2>3. ASSUME NEW i \in Jobs PROVE JobInOrder(i)'
    <3>1. JobInOrder(i)
      BY <2>i3
    <3> QED
      BY <2>a, <2>s, <2>f, <2>z, <2>n, <2>o, <3>1 DEF JobInOrder, Won, Running, Open
  <2>4. OneWins'
    BY <2>a, <2>s, <2>f, <2>i4 DEF OneWins, Won
  <2>5. ClaimHeld'
    <3>1. ASSUME NEW i \in Jobs, NEW k \in Jobs, chunkJob[i] \in Won, i # j, chunkJob[k] \in Open, i[1] = k[1]
          PROVE  finalisationClaimed'
      <4>1. finalisationClaimed
        BY <3>1, <2>i5 DEF ClaimHeld
      <4>2. k[1] = j[1]
        BY <3>1, <2>o
      <4>3. chunkJob[j] \notin Won
        BY <3>1, <4>2, <2>i4, <2>a DEF OneWins
      <4> QED
        BY <4>1, <4>3, <2>f DEF Won
    <3>2. ASSUME NEW i \in Jobs PROVE /\ chunkJob'[i] \in Won => chunkJob[i] \in Won /\ i # j
                                      /\ chunkJob'[i] \in Open => chunkJob[i] \in Open
      BY <2>s, <2>a DEF Won, Open
    <3> QED
      BY <3>1, <3>2, Zenon DEF ClaimHeld
  <2>6. ClaimIsDue'
    BY <2>a, <2>s, <2>f, <2>i6 DEF ClaimIsDue, NothingBlocks, Present, Blocking
  <2>7. CompletedForGood'
    BY <2>a, <2>s, <2>f, <2>i7 DEF CompletedForGood, NothingBlocks, Present, Blocking, Running
  <2>8. OnTheWay'
    BY <2>a, <2>s, <2>f, <2>i8 DEF OnTheWay, Present, Running, Open
  <2> QED
    BY <2>1, <2>2, <2>3, <2>4, <2>5, <2>6, <2>7, <2>8
<1>2. overtaken' = overtaken
  BY DEF JobFails, requests
<1> QED
  BY <1>t, <1>1, <1>2 DEF IngestInv

LEMMA StartPassKeeps ==
  ASSUME IngestTypeOK, IngestInv, NEW p \in Passes, StartPass(p)
  PROVE  IngestTypeOK' /\ IngestInv'
<1>t. IngestTypeOK'
  <2>1. overtaken' \in BOOLEAN
    BY DEF StartPass, IngestTypeOK
  <2> QED
    BY <2>1 DEF IngestTypeOK, StartPass, AtStep, Running
<1>1. ASSUME ~overtaken'
      PROVE  /\ OneActivePass' /\ (\A q \in Passes : PassInOrder(q)') /\ (\A i \in Jobs : JobInOrder(i)')
             /\ OneWins' /\ ClaimHeld' /\ ClaimIsDue' /\ CompletedForGood' /\ OnTheWay'
  <2>1. ~overtaken /\ AllAtRest
    BY <1>1 DEF StartPass
  <2>2. /\ OneActivePass /\ (\A q \in Passes : PassInOrder(q)) /\ (\A i \in Jobs : JobInOrder(i))
        /\ OneWins /\ ClaimHeld /\ ClaimIsDue
    BY <2>1 DEF IngestInv
  <2>3. /\ pass[p] = "new" /\ aiStatus' = "in_progress"
        /\ \A q \in Passes : pass'[q] = IF q = p THEN "delete" ELSE pass[q]
        /\ UNCHANGED <<chunkStatus, toQueue, chunkJob, ingestFaults>>
    BY DEF StartPass, AtStep, IngestTypeOK
  <2>f. finalisationClaimed' <=> finalisationClaimed
    BY DEF StartPass
  <2>4. /\ \A q \in Passes : pass[q] \notin Running
        /\ \A i \in Jobs : chunkJob[i] \notin Open
    BY <2>1 DEF AllAtRest
  <2>5. OneActivePass'
    <3>1. ASSUME NEW q \in Passes, q # p, pass'[q] \in Running PROVE FALSE
      BY <3>1, <2>3, <2>4
    <3>2. ASSUME NEW i \in Jobs, chunkJob'[i] \in Open PROVE FALSE
      BY <3>2, <2>3, <2>4
    <3> QED
      BY <3>1, <3>2, Zenon DEF OneActivePass, ActivePass
  <2>6. ASSUME NEW q \in Passes PROVE PassInOrder(q)'
    <3>1. PassInOrder(q)
      BY <2>2
    <3>2. CASE q = p
      BY <2>3, <3>1, <3>2 DEF PassInOrder
    <3>3. CASE q # p
      <4>1. pass'[q] = pass[q] /\ pass[q] \notin Running
        BY <2>3, <2>4, <3>3
      <4> QED
        BY <3>1, <4>1, <2>3 DEF PassInOrder, Running
    <3> QED
      BY <3>2, <3>3
  <2>7. ASSUME NEW i \in Jobs PROVE JobInOrder(i)'
    <3>1. JobInOrder(i) /\ i[1] \in Passes
      BY <2>2, JobsArePairs
    <3> QED
      BY <2>3, <3>1 DEF JobInOrder
  <2>8. OneWins'
    BY <2>2, <2>3 DEF OneWins
  <2>9. ClaimHeld'
    BY <2>2, <2>3, <2>f, Zenon DEF ClaimHeld
  <2>10. ClaimIsDue'
    BY <2>2, <2>3, <2>f DEF ClaimIsDue, NothingBlocks, Present
  <2>11. CompletedForGood' /\ OnTheWay'
    BY <2>3 DEF CompletedForGood, OnTheWay, Running
  <2> QED
    BY <2>5, <2>6, <2>7, <2>8, <2>9, <2>10, <2>11
<1> QED
  BY <1>t, <1>1 DEF IngestInv

LEMMA IngestBegins == IngestInit => IngestTypeOK /\ IngestInv
<1> SUFFICES ASSUME IngestInit PROVE IngestTypeOK /\ IngestInv
  OBVIOUS
<1> USE DEF IngestInit
<1>1. 0 \in 0..MaxChunks /\ MaxChunks \in 0..MaxChunks /\ 0 \in 0..MaxIngestFaults
  BY IngestAssumption
<1>2. IngestTypeOK
  BY <1>1 DEF IngestTypeOK
<1>3. /\ \A q \in Passes : pass[q] = "new"
      /\ \A i \in Jobs : chunkJob[i] = "none"
      /\ Present = {}
  BY DEF Present
<1>4. OneActivePass
  BY <1>3 DEF OneActivePass, ActivePass, Running, Open
<1>5. ASSUME NEW q \in Passes PROVE PassInOrder(q)
  BY <1>3 DEF PassInOrder
<1>6. ASSUME NEW i \in Jobs PROVE JobInOrder(i)
  BY <1>3 DEF JobInOrder, Won
<1>7. OneWins /\ ClaimHeld
  BY <1>3 DEF OneWins, ClaimHeld, Won
<1>8. ClaimIsDue /\ CompletedForGood /\ OnTheWay
  BY <1>3 DEF ClaimIsDue, CompletedForGood, OnTheWay
<1> QED
  BY <1>2, <1>4, <1>5, <1>6, <1>7, <1>8 DEF IngestInv

LEMMA IngestGoesOn == IngestTypeOK /\ IngestInv /\ [IngestNext]_ingestVars => IngestTypeOK' /\ IngestInv'
<1> SUFFICES ASSUME IngestTypeOK, IngestInv, [IngestNext]_ingestVars PROVE IngestTypeOK' /\ IngestInv'
  OBVIOUS
<1>1. ASSUME NEW p \in Passes, PassStep(p) PROVE IngestTypeOK' /\ IngestInv'
  <2>1. ASSUME NEW c \in ChunkIds, QueueChunk(p, c) PROVE IngestTypeOK' /\ IngestInv'
    <3>1. <<p, c>> \in Jobs
      BY JobsArePairs
    <3> QED
      BY <2>1, <3>1, QueueChunkKeeps
  <2> QED
    BY <1>1, <2>1, StartPassKeeps, DeleteChunksKeeps, ArmClaimKeeps, CreateChunkKeeps, ListChunksKeeps,
       MarkAgainKeeps, PassFailsKeeps, Zenon DEF PassStep
<1>2. ASSUME NEW j \in Jobs, JobStep(j) PROVE IngestTypeOK' /\ IngestInv'
  BY <1>2, DropWithoutAiKeeps, DeferChunkKeeps, DeferOwnerKeeps, StartAnalysisKeeps, EndAnalysisKeeps,
     HandOverKeeps, ClaimKeeps, MarkInProgressKeeps, MarkCompletedKeeps, JobFailsKeeps, Zenon DEF JobStep
<1>3. CASE UNCHANGED ingestVars
  <2>1. UNCHANGED <<aiStatus, chunkStatus, pass, parts, toQueue, chunkJob, chunksLeft, ingestFaults>>
    BY <1>3 DEF ingestVars, requests
  <2>2. UNCHANGED finalisationClaimed /\ UNCHANGED overtaken
    BY <1>3 DEF ingestVars
  <2>3. IngestTypeOK'
    BY <2>1, <2>2 DEF IngestTypeOK
  <2>4. IngestInv'
    <3>1. OneActivePass' <=> OneActivePass
      BY <2>1, Zenon DEF OneActivePass, ActivePass
    <3>2. \A p \in Passes : PassInOrder(p)' <=> PassInOrder(p)
      BY <2>1, <2>2, ZenonT(40) DEF PassInOrder
    <3>3. \A j \in Jobs : JobInOrder(j)' <=> JobInOrder(j)
      BY <2>1, Zenon DEF JobInOrder
    <3>4. (OneWins' <=> OneWins) /\ (ClaimHeld' <=> ClaimHeld)
      BY <2>1, <2>2, Zenon DEF OneWins, ClaimHeld
    <3>5. Present' = Present /\ (NothingBlocks' <=> NothingBlocks)
      BY <2>1 DEF Present, NothingBlocks
    <3>6. (ClaimIsDue' <=> ClaimIsDue) /\ (CompletedForGood' <=> CompletedForGood)
      BY <2>1, <2>2, <3>5, Zenon DEF ClaimIsDue, CompletedForGood
    <3>7. OnTheWay' <=> OnTheWay
      BY <2>1, <2>2, <3>5, Zenon DEF OnTheWay
    <3> QED
      BY <2>2, <3>1, <3>2, <3>3, <3>4, <3>6, <3>7, Zenon DEF IngestInv
  <2> QED
    BY <2>3, <2>4
<1> QED
  BY <1>1, <1>2, <1>3 DEF IngestNext

\* A content is completed when all its chunks are, once per pass, and not never.
THEOREM IngestKept == IngestSpec => []IngestSound
<1>1. IngestTypeOK /\ IngestInv => IngestSound
  <2> SUFFICES ASSUME IngestTypeOK, IngestInv PROVE IngestSound
    OBVIOUS
  <2>1. CompletedIsWhole
    BY DEF IngestInv, CompletedForGood, CompletedIsWhole, NothingBlocks
  <2>2. FinalisedOncePerPass
    <3> SUFFICES ASSUME ~overtaken, NEW p \in Passes
                 PROVE  Cardinality({j \in Jobs : /\ j[1] = p
                                                  /\ chunkJob[j] \in {"claimed", "complete", "finalised"}}) <= 1
      BY DEF FinalisedOncePerPass
    <3> DEFINE S == {j \in Jobs : j[1] = p /\ chunkJob[j] \in {"claimed", "complete", "finalised"}}
    <3> SUFFICES Cardinality(S) <= 1
      OBVIOUS
    <3>1. \A i, j \in S : i = j
      BY DEF IngestInv, OneWins, Won
    <3> QED
      BY <3>1, AtMostOne
  <2>3. NobodyIsWedged
    <3> SUFFICES ASSUME AllAtRest, ~overtaken, ingestFaults = 0, Present # {},
                        \A c \in Present : chunkStatus[c] = "completed"
                 PROVE  aiStatus = "completed"
      BY DEF NobodyIsWedged
    <3>1. OnTheWay
      BY DEF IngestInv
    <3> QED
      BY <3>1 DEF OnTheWay, AllAtRest, Open
  <2> QED
    BY <2>1, <2>2, <2>3 DEF IngestSound
<1> QED
  BY IngestBegins, IngestGoesOn, <1>1, PTL DEF IngestSpec

-----------------------------------------------------------------------------
(* The conversation of a thread.  A request says nothing that its own step  *)
(* does not tell (RequestOK); the rest is the order of what was said: a     *)
(* request reads the end of the thread, and whoever ended before it began   *)
(* has spoken before that position.                                         *)

Ended == {"done", "failed"}

\* The end of the thread is a number, and nobody has read one beyond it.
ThreadEnds ==
  /\ IsFiniteSet(messages) /\ NextPosition \in Nat /\ NoHoles
  /\ \A r \in Requests : place[r] <= NextPosition

\* The first request comes before all others.
FirstComesFirst == request[FirstRequest] = "idle" => \A r \in Requests : request[r] = "idle"

\* Who ended before another began stores nothing any more.
Past(r) ==
  /\ request[r] = "idle" => resolves[r] = {}
  /\ r = FirstRequest => endedBefore[r] = {}
  /\ \A s \in endedBefore[r] : s \in Requests /\ request[s] \in Ended

\* What a request has stored by the step it is at.
Said(r) ==
  /\ request[r] \in {"idle", "load", "end", "ask"} => MessagesOf(r) = {}
  /\ Resolving(r) /\ request[r] \in {"run", "answer"} => MessagesOf(r) = {}
  /\ request[r] = "ask" => ~Resolving(r)
  /\ request[r] \in {"run", "answer"} =>
       \A m \in MessagesOf(r) : m.kind = "question" /\ m.position < place[r]
  /\ \A m, n \in MessagesOf(r) : (m.kind = "question" <=> n.kind = "question") => m = n
  /\ \A m, n \in MessagesOf(r) : m.kind = "question" /\ n.kind # "question" => m.position < n.position

\* The position a request has read is after all that was said before it began.
PlaceFits(r) ==
  request[r] \in {"ask", "answer"} \/ (request[r] = "run" /\ ~Resolving(r)) =>
    \A n \in messages : n.by \in endedBefore[r] => n.position < place[r]

LaterIsHigher == \A m, n \in messages : n.by \in endedBefore[m.by] => n.position < m.position

\* An action has the message that asks for it, and only what was asked is resolved.
Asked(r) == \E m \in MessagesOf(r) : m.kind = "approval"
AskedFor(r) ==
  /\ request[r] = "freeze" => Asked(r)
  /\ Asked(r) /\ action[r] = "none" => request[r] \in {"freeze", "failed"}
  /\ action[r] # "none" => Asked(r)
  /\ \A a \in resolves[r] : action[a] # "none"

\* What the agent is given.
GivenMessage(r, m) ==
  \/ m \in priors[r]
  \/ Cardinality(priors[r]) = MaxPriors /\ \A n \in priors[r] : n.position >= m.position
Given(r) ==
  /\ \A m \in priors[r] : m.by # r
  /\ \A a \in resolves[r] : request[r] \notin {"load", "failed"} =>
       \E m \in MessagesOf(a) : m.kind = "approval" /\ GivenMessage(r, m)

RequestOK(r) == Past(r) /\ Said(r) /\ PlaceFits(r) /\ AskedFor(r) /\ Given(r)

ConversationInv ==
  /\ ConversationTypeOK /\ ThreadEnds /\ FirstComesFirst /\ LaterIsHigher
  /\ \A r \in Requests : RequestOK(r)

\* The end of a thread without holes is the number of its positions.
LEMMA EndOfThread ==
  ASSUME NEW S, NEW n \in Nat, S = 0..(n - 1)
  PROVE  1 + Max({-1} \cup S) = n
<1> DEFINE T == {-1} \cup S
<1>1. n - 1 \in T /\ \A y \in T : n - 1 >= y
  OBVIOUS
<1>2. \A x \in T : (\A y \in T : x >= y) => x = n - 1
  OBVIOUS
<1>3. Max(T) = n - 1
  <2> HIDE DEF T
  <2>1. Max(T) \in T /\ \A y \in T : Max(T) >= y
    BY <1>1 DEF Max
  <2> QED
    BY <1>2, <2>1
<1> QED
  BY <1>3

\* A message stored at the end, or before it, leaves no hole.
LEMMA StoringKeepsEnd ==
  ASSUME ConversationTypeOK, ThreadEnds, NEW r \in Requests, NEW kind, NEW p \in Nat, p <= NextPosition,
         StoreMessage(r, kind, p)
  PROVE  /\ IsFiniteSet(messages') /\ NextPosition' \in Nat /\ NoHoles'
         /\ NextPosition <= NextPosition' /\ p + 1 <= NextPosition'
<1> DEFINE P == {m.position : m \in messages}
           m0 == [by |-> r, kind |-> kind, position |-> p]
           n == IF p = NextPosition THEN NextPosition + 1 ELSE NextPosition
<1>1. P = 0..(NextPosition - 1) /\ NextPosition \in Nat
  BY DEF ThreadEnds, NoHoles
<1>2. messages' = messages \cup {m0} /\ m0.position = p
  BY DEF StoreMessage
<1>3. {m.position : m \in messages'} = P \cup {p}
  BY <1>2
<1>4. P \cup {p} = 0..(n - 1) /\ n \in Nat
  BY <1>1
<1>5. NextPosition' = n
  <2> HIDE DEF n, P
  <2> QED
    BY <1>3, <1>4, EndOfThread DEF NextPosition
<1>6. IsFiniteSet(messages')
  BY <1>2, FS_AddElement DEF ThreadEnds
<1>7. NextPosition <= n /\ p + 1 <= n
  BY <1>1
<1>8. NoHoles'
  <2> HIDE DEF n, P
  <2> QED
    BY <1>3, <1>4, <1>5 DEF NoHoles
<1> QED
  <2> HIDE DEF n
  <2> QED
    BY <1>4, <1>5, <1>6, <1>7, <1>8

\* What the step of one request means for another.
OneMoves(r) ==
  /\ request[r] \notin Ended /\ request'[r] # "idle"
  /\ \A t \in Requests : t # r => /\ request'[t] = request[t] /\ place'[t] = place[t]
                                  /\ resolves'[t] = resolves[t] /\ priors'[t] = priors[t]
                                  /\ endedBefore'[t] = endedBefore[t]
                                  /\ (action[t] = "none" => action'[t] = "none")
  /\ \A t \in Requests : action[t] # "none" => action'[t] # "none"
  /\ messages \subseteq messages' /\ \A m \in messages' : m \in messages \/ m.by = r

LEMMA OthersUntouched ==
  ASSUME ConversationInv, NEW r \in Requests, OneMoves(r), NEW s \in Requests, s # r
  PROVE  RequestOK(s)'
<1> USE DEF OneMoves
<1>0. RequestOK(s) /\ RequestOK(r) /\ ConversationTypeOK
  BY DEF ConversationInv
<1>1. MessagesOf(s)' = MessagesOf(s)
  BY DEF MessagesOf
<1>2. \A a \in Requests : MessagesOf(a) \subseteq MessagesOf(a)'
  BY DEF MessagesOf
<1>3. resolves[s] \subseteq Requests
  BY <1>0 DEF ConversationTypeOK
<1>4. Past(s)'
  BY <1>0 DEF RequestOK, Past
<1>5. Said(s)'
  BY <1>0, <1>1 DEF RequestOK, Said, Resolving
<1>6. PlaceFits(s)'
  <2>1. \A n \in messages' : n.by \in endedBefore[s] => n \in messages
    BY <1>0 DEF RequestOK, Past
  <2> QED
    BY <1>0, <2>1 DEF RequestOK, PlaceFits, Resolving
<1>7. AskedFor(s)'
  <2>1. Asked(s)' <=> Asked(s)
    BY <1>1 DEF Asked
  <2>2. (action'[s] = "none") <=> (action[s] = "none")
    OBVIOUS
  <2> QED
    BY <1>0, <1>3, <2>1, <2>2 DEF RequestOK, AskedFor
<1>8. Given(s)'
  <2>1. \A m : GivenMessage(s, m)' <=> GivenMessage(s, m)
    BY DEF GivenMessage
  <2>2. \A m \in priors[s] : m.by # s
    BY <1>0 DEF RequestOK, Given
  <2>3. ASSUME NEW a \in resolves[s], request[s] \notin {"load", "failed"}
        PROVE  \E m \in MessagesOf(a)' : m.kind = "approval" /\ GivenMessage(s, m)'
    <3>1. PICK m \in MessagesOf(a) : m.kind = "approval" /\ GivenMessage(s, m)
      BY <1>0, <2>3 DEF RequestOK, Given
    <3> QED
      BY <1>2, <1>3, <2>1, <3>1
  <2> QED
    BY <2>2, <2>3 DEF Given
<1> QED
  BY <1>4, <1>5, <1>6, <1>7, <1>8 DEF RequestOK

\* So much is left to show of a step.
LEMMA OneMovesKeeps ==
  ASSUME ConversationInv, NEW r \in Requests, OneMoves(r), ConversationTypeOK',
         IsFiniteSet(messages') /\ NextPosition' \in Nat /\ NoHoles', NextPosition <= NextPosition',
         place'[r] <= NextPosition', LaterIsHigher', RequestOK(r)',
         request[r] = "idle" => r = FirstRequest \/ request[FirstRequest] # "idle"
  PROVE  ConversationInv'
<1>1. \A s \in Requests : RequestOK(s)'
  BY OthersUntouched
<1>2. ThreadEnds'
  <2>1. \A s \in Requests : s # r => place'[s] <= NextPosition'
    <3>1. ASSUME NEW s \in Requests, s # r PROVE place'[s] <= NextPosition'
      <4>1. place'[s] = place[s]
        BY <3>1 DEF OneMoves
      <4>2. place[s] <= NextPosition /\ place[s] \in Nat /\ NextPosition \in Nat
        BY DEF ConversationInv, ThreadEnds, ConversationTypeOK
      <4> QED
        BY <4>1, <4>2
    <3> QED
      BY <3>1
  <2> QED
    BY <2>1 DEF ThreadEnds
<1>3. FirstComesFirst'
  <2>1. FirstComesFirst /\ FirstRequest \in Requests
    BY ConversationAssumption DEF ConversationInv
  <2> QED
    BY <2>1 DEF FirstComesFirst, OneMoves
<1> QED
  BY <1>1, <1>2, <1>3 DEF ConversationInv

\* A step that stores nothing, and does not begin a request.
LEMMA SilentKeeps ==
  ASSUME ConversationInv, NEW r \in Requests, OneMoves(r), ConversationTypeOK', request[r] # "idle",
         UNCHANGED <<messages, endedBefore>>, place'[r] <= NextPosition, RequestOK(r)'
  PROVE  ConversationInv'
<1>1. NextPosition' = NextPosition /\ (NoHoles' <=> NoHoles) /\ (LaterIsHigher' <=> LaterIsHigher)
  BY DEF NextPosition, NoHoles, LaterIsHigher
<1>2. ThreadEnds /\ LaterIsHigher
  BY DEF ConversationInv
<1> QED
  BY <1>1, <1>2, OneMovesKeeps DEF ThreadEnds

\* A step that begins a request.
LEMMA BeginningKeeps ==
  ASSUME ConversationInv, NEW r \in Requests, OneMoves(r), ConversationTypeOK', Begins(r),
         UNCHANGED <<messages, place, priors>>, RequestOK(r)',
         r = FirstRequest \/ request[FirstRequest] # "idle"
  PROVE  ConversationInv'
<1>1. NextPosition' = NextPosition /\ (NoHoles' <=> NoHoles)
  BY DEF NextPosition, NoHoles
<1>2. ThreadEnds /\ LaterIsHigher /\ Said(r)
  BY DEF ConversationInv, RequestOK
<1>3. \A m \in messages : m.by # r /\ m.by \in Requests
  BY <1>2 DEF Said, MessagesOf, Begins, ConversationInv, ConversationTypeOK, Messages
<1>4. LaterIsHigher'
  BY <1>2, <1>3 DEF LaterIsHigher, OneMoves
<1> QED
  BY <1>1, <1>2, <1>4, OneMovesKeeps DEF ThreadEnds

LEMMA CreateFirstKeeps ==
  ASSUME ConversationInv, NEW r \in Requests, CreateFirst(r)
  PROVE  ConversationInv'
<1> USE DEF CreateFirst, Begins, Goes
<1>0. ConversationTypeOK /\ RequestOK(r) /\ FirstComesFirst
  BY DEF ConversationInv
<1>1. ConversationTypeOK'
  BY <1>0 DEF ConversationTypeOK
<1>2. /\ request[r] = "idle" /\ request'[r] = "ask" /\ r = FirstRequest /\ endedBefore'[r] = {}
      /\ resolves[r] = {}
      /\ UNCHANGED <<messages, action, resolves, place, frozen, priors>>
  BY <1>0 DEF ConversationTypeOK, FirstComesFirst, RequestOK, Past
<1>3. OneMoves(r)
  BY <1>0 DEF OneMoves, ConversationTypeOK, Ended
<1>4. Past(r)' /\ PlaceFits(r)'
  BY <1>2 DEF Past, PlaceFits
<1>5. Said(r)' /\ AskedFor(r)' /\ Given(r)'
  BY <1>0, <1>2 DEF RequestOK, Said, AskedFor, Asked, Given, MessagesOf, Resolving
<1> QED
  BY <1>1, <1>2, <1>3, <1>4, <1>5, BeginningKeeps DEF RequestOK

LEMMA AppendMessageKeeps ==
  ASSUME ConversationInv, NEW r \in Requests, AppendMessage(r)
  PROVE  ConversationInv'
<1> USE DEF AppendMessage, Begins, Goes
<1>0. ConversationTypeOK /\ RequestOK(r) /\ FirstComesFirst
  BY DEF ConversationInv
<1>1. ConversationTypeOK'
  BY <1>0 DEF ConversationTypeOK
<1>2. /\ request[r] = "idle" /\ request'[r] = "load" /\ r # FirstRequest
      /\ \A s \in endedBefore'[r] : s \in Requests /\ request[s] \in Ended /\ s # r
      /\ \A s \in Requests : s # r => request'[s] = request[s]
      /\ resolves[r] = {}
      /\ UNCHANGED <<messages, action, resolves, place, frozen, priors>>
  BY <1>0 DEF ConversationTypeOK, FirstComesFirst, RequestOK, Past, Ended
<1>3. OneMoves(r)
  BY <1>0 DEF OneMoves, ConversationTypeOK, Ended
<1>4. Past(r)' /\ PlaceFits(r)'
  BY <1>2 DEF Past, PlaceFits
<1>5. Said(r)' /\ AskedFor(r)' /\ Given(r)'
  BY <1>0, <1>2 DEF RequestOK, Said, AskedFor, Asked, Given, MessagesOf, Resolving
<1> QED
  BY <1>1, <1>2, <1>3, <1>4, <1>5, BeginningKeeps DEF RequestOK

LEMMA ResolveKeeps ==
  ASSUME ConversationInv, NEW r \in Requests, NEW a \in Requests, Resolve(r, a)
  PROVE  ConversationInv'
<1> USE DEF Resolve, Begins, Goes
<1>0. ConversationTypeOK /\ RequestOK(r) /\ RequestOK(a) /\ FirstComesFirst
  BY DEF ConversationInv
<1>1. ConversationTypeOK'
  BY <1>0 DEF ConversationTypeOK
<1>2. action[a] = "pending" /\ request[a] # "idle"
  BY <1>0 DEF RequestOK, AskedFor, Asked, Said
<1>3. /\ request[r] = "idle" /\ request'[r] = "load" /\ r # FirstRequest /\ r # a
      /\ \A s \in endedBefore'[r] : s \in Requests /\ request[s] \in Ended /\ s # r
      /\ \A s \in Requests : s # r => request'[s] = request[s]
      /\ resolves'[r] = {a} /\ action'[r] = action[r] /\ action'[a] = "resolved"
      /\ UNCHANGED <<messages, place, frozen, priors>>
  BY <1>0, <1>2 DEF ConversationTypeOK, FirstComesFirst, Ended
<1>4. OneMoves(r)
  BY <1>0 DEF OneMoves, ConversationTypeOK, Ended
<1>5. Past(r)' /\ PlaceFits(r)'
  BY <1>3 DEF Past, PlaceFits
<1>6. Said(r)' /\ AskedFor(r)' /\ Given(r)'
  BY <1>0, <1>3 DEF RequestOK, Said, AskedFor, Asked, Given, MessagesOf, Resolving
<1>7. request[FirstRequest] # "idle"
  BY <1>0, <1>2 DEF FirstComesFirst
<1> QED
  BY <1>1, <1>3, <1>4, <1>5, <1>6, <1>7, BeginningKeeps DEF RequestOK

\* Who resolves an action finds the message that asks for it at the end of the
\* thread, or a thread's end full of later ones.
LEMMA RecentGivesThread ==
  ASSUME ConversationInv, NEW given \in SUBSET messages, Recent(given), NEW m \in messages
  PROVE  m \in given \/ (Cardinality(given) = MaxPriors /\ \A n \in given : n.position >= m.position)
<1> SUFFICES ASSUME m \notin given PROVE Cardinality(given) = MaxPriors /\ \A n \in given : n.position >= m.position
  OBVIOUS
<1>1. IsFiniteSet(messages) /\ messages \subseteq Messages
  BY DEF ConversationInv, ThreadEnds, ConversationTypeOK
<1>2. Cardinality(given) # Cardinality(messages)
  BY <1>1, FS_Subset
<1>3. Cardinality(given) = MaxPriors
  BY <1>2 DEF Recent
<1>4. \A n \in given : n.position \in Nat /\ m.position \in Nat /\ m.position <= n.position
  BY <1>1 DEF Recent, Messages
<1> QED
  BY <1>3, <1>4

LEMMA LoadPriorsKeeps ==
  ASSUME ConversationInv, NEW r \in Requests, LoadPriors(r)
  PROVE  ConversationInv'
<1> USE DEF LoadPriors, Goes
<1>0. ConversationTypeOK /\ RequestOK(r) /\ ThreadEnds
  BY DEF ConversationInv
<1>1. PICK given \in SUBSET messages : Recent(given) /\ priors' = [priors EXCEPT ![r] = given]
  OBVIOUS
<1>2. /\ request[r] = "load" /\ request'[r] = (IF Resolving(r) THEN "run" ELSE "end")
      /\ priors'[r] = given /\ \A s \in Requests : s # r => request'[s] = request[s] /\ priors'[s] = priors[s]
      /\ UNCHANGED <<messages, action, resolves, place, frozen, endedBefore>>
  BY <1>0, <1>1 DEF ConversationTypeOK
<1>3. ConversationTypeOK'
  BY <1>0, <1>1 DEF ConversationTypeOK
<1>4. OneMoves(r)
  BY <1>2 DEF OneMoves, Ended
<1>5. Past(r)' /\ PlaceFits(r)'
  BY <1>0, <1>2 DEF RequestOK, Past, PlaceFits, Resolving, Ended
<1>6. Said(r)' /\ AskedFor(r)'
  BY <1>0, <1>2 DEF RequestOK, Said, AskedFor, Asked, MessagesOf, Resolving
<1>7. Given(r)'
  <2>1. \A m \in given : m.by # r
    BY <1>0, <1>2 DEF RequestOK, Said, MessagesOf
  <2>2. ASSUME NEW a \in resolves[r]
        PROVE  \E m \in MessagesOf(a)' : m.kind = "approval" /\ GivenMessage(r, m)'
    <3>1. a \in Requests /\ RequestOK(a) /\ action[a] # "none"
      BY <1>0 DEF ConversationInv, ConversationTypeOK, RequestOK, AskedFor
    <3>2. PICK m \in MessagesOf(a) : m.kind = "approval"
      BY <3>1 DEF RequestOK, AskedFor, Asked
    <3>3. m \in messages /\ m \in MessagesOf(a)'
      BY <1>2, <3>2 DEF MessagesOf
    <3>4. GivenMessage(r, m)'
      BY <1>1, <1>2, <3>3, RecentGivesThread DEF GivenMessage
    <3> QED
      BY <3>2, <3>3, <3>4
  <2> QED
    BY <1>2, <2>1, <2>2 DEF Given
<1>8. place'[r] <= NextPosition
  BY <1>0, <1>2 DEF ThreadEnds
<1> QED
  BY <1>2, <1>3, <1>4, <1>5, <1>6, <1>7, <1>8, SilentKeeps DEF RequestOK

LEMMA ReadEndKeeps ==
  ASSUME ConversationInv, NEW r \in Requests, ReadEnd(r)
  PROVE  ConversationInv'
<1> USE DEF ReadEnd, Goes
<1>0. ConversationTypeOK /\ RequestOK(r) /\ ThreadEnds
  BY DEF ConversationInv
<1>1. NextPosition \in Nat /\ \A m \in messages : m.position < NextPosition
  <2>1. \A m \in messages : m.position \in 0..(NextPosition - 1)
    BY <1>0 DEF ThreadEnds, NoHoles
  <2> QED
    BY <1>0, <2>1 DEF ThreadEnds
<1>2. /\ request[r] = "end" /\ request'[r] = (IF Resolving(r) THEN "answer" ELSE "ask")
      /\ place'[r] = NextPosition
      /\ \A s \in Requests : s # r => request'[s] = request[s] /\ place'[s] = place[s]
      /\ UNCHANGED <<messages, action, resolves, frozen, priors, endedBefore>>
  BY <1>0 DEF ConversationTypeOK
<1>3. ConversationTypeOK'
  BY <1>0, <1>1 DEF ConversationTypeOK
<1>4. OneMoves(r)
  BY <1>2 DEF OneMoves, Ended
<1>5. Past(r)' /\ PlaceFits(r)'
  BY <1>0, <1>1, <1>2 DEF RequestOK, Past, PlaceFits, Resolving, Ended
<1>6. Said(r)' /\ AskedFor(r)'
  BY <1>0, <1>2 DEF RequestOK, Said, AskedFor, Asked, MessagesOf, Resolving
<1>7. Given(r)'
  BY <1>0, <1>2 DEF RequestOK, Given, GivenMessage, MessagesOf
<1>8. place'[r] <= NextPosition
  BY <1>1, <1>2
<1> QED
  BY <1>2, <1>3, <1>4, <1>5, <1>6, <1>7, <1>8, SilentKeeps DEF RequestOK

\* What is stored goes beyond what was said before the request began.
LEMMA StoringKeepsOrder ==
  ASSUME ConversationInv, NEW r \in Requests, PlaceFits(r), request[r] \in {"ask", "answer"}, NEW kind,
         StoreMessage(r, kind, place[r]), UNCHANGED endedBefore
  PROVE  LaterIsHigher'
<1>1. LaterIsHigher /\ \A s \in Requests : Past(s)
  BY DEF ConversationInv, RequestOK
<1> DEFINE m0 == [by |-> r, kind |-> kind, position |-> place[r]]
<1>2. messages' = messages \cup {m0} /\ m0.by = r /\ m0.position = place[r]
  BY DEF StoreMessage
<1>3. \A s \in Requests : r \notin endedBefore[s]
  BY <1>1 DEF Past, Ended
<1>4. \A m \in messages : m.by \in Requests
  BY DEF ConversationInv, ConversationTypeOK, Messages
<1>5. \A n \in messages : n.by \in endedBefore[r] => n.position < place[r]
  BY DEF PlaceFits
<1> HIDE DEF m0
<1> QED
  BY <1>1, <1>2, <1>3, <1>4, <1>5 DEF LaterIsHigher

LEMMA StoreQuestionKeeps ==
  ASSUME ConversationInv, NEW r \in Requests, StoreQuestion(r)
  PROVE  ConversationInv'
<1> USE DEF StoreQuestion, Goes
<1> DEFINE m0 == [by |-> r, kind |-> "question", position |-> place[r]]
<1>0. ConversationTypeOK /\ RequestOK(r) /\ ThreadEnds
  BY DEF ConversationInv
<1>p. place[r] \in Nat /\ place[r] <= NextPosition /\ NextPosition \in Nat
  BY <1>0 DEF ConversationTypeOK, ThreadEnds
<1>1. /\ IsFiniteSet(messages') /\ NextPosition' \in Nat /\ NoHoles'
      /\ NextPosition <= NextPosition' /\ place[r] + 1 <= NextPosition'
  BY <1>0, <1>p, StoringKeepsEnd
<1>2. /\ request[r] = "ask" /\ request'[r] = "run" /\ place'[r] = place[r] + 1
      /\ \A s \in Requests : s # r => request'[s] = request[s] /\ place'[s] = place[s]
      /\ UNCHANGED <<action, resolves, frozen, priors, endedBefore>>
      /\ messages' = messages \cup {m0}
  BY <1>0 DEF ConversationTypeOK, StoreMessage
<1>m. m0 \in Messages /\ m0.by = r /\ m0.kind = "question" /\ m0.position = place[r]
  BY <1>p DEF Messages
<1> HIDE DEF m0
<1>3. ConversationTypeOK'
  BY <1>0, <1>2, <1>m, <1>p DEF ConversationTypeOK
<1>4. OneMoves(r)
  BY <1>2, <1>m DEF OneMoves, Ended
<1>5. Past(r)'
  BY <1>0, <1>2 DEF RequestOK, Past, Ended
<1>6. MessagesOf(r)' = {m0} /\ ~Resolving(r) /\ ~Resolving(r)'
  BY <1>0, <1>2, <1>m DEF RequestOK, Said, MessagesOf, Resolving
<1>7. Said(r)'
  BY <1>2, <1>6, <1>m, <1>p DEF Said
<1>8. PlaceFits(r)'
  <2>1. \A n \in messages : n.position \in Nat
    BY <1>0 DEF ConversationTypeOK, Messages
  <2> QED
    BY <1>0, <1>2, <1>m, <1>p, <2>1 DEF RequestOK, PlaceFits
<1>9. AskedFor(r)'
  BY <1>0, <1>2, <1>6, <1>m DEF RequestOK, AskedFor, Asked, Said
<1>10. Given(r)'
  BY <1>0, <1>2, <1>6 DEF RequestOK, Given, Resolving
<1>11. LaterIsHigher'
  BY <1>0, <1>2, StoringKeepsOrder DEF RequestOK
<1>12. place'[r] <= NextPosition'
  BY <1>1, <1>2
<1> QED
  BY <1>1, <1>2, <1>3, <1>4, <1>5, <1>7, <1>8, <1>9, <1>10, <1>11, <1>12, OneMovesKeeps DEF RequestOK

LEMMA RunKeeps ==
  ASSUME ConversationInv, NEW r \in Requests, Run(r)
  PROVE  ConversationInv'
<1> USE DEF Run, Goes
<1>0. ConversationTypeOK /\ RequestOK(r) /\ ThreadEnds
  BY DEF ConversationInv
<1>2. /\ request[r] = "run" /\ request'[r] = (IF Resolving(r) THEN "end" ELSE "answer")
      /\ \A s \in Requests : s # r => request'[s] = request[s]
      /\ UNCHANGED <<messages, action, resolves, place, priors, endedBefore>>
  BY <1>0 DEF ConversationTypeOK
<1>3. ConversationTypeOK'
  BY <1>0 DEF ConversationTypeOK
<1>4. OneMoves(r)
  BY <1>2 DEF OneMoves, Ended
<1>5. Past(r)' /\ PlaceFits(r)'
  BY <1>0, <1>2 DEF RequestOK, Past, PlaceFits, Resolving, Ended
<1>6. Said(r)' /\ AskedFor(r)'
  BY <1>0, <1>2 DEF RequestOK, Said, AskedFor, Asked, MessagesOf, Resolving
<1>7. Given(r)'
  BY <1>0, <1>2 DEF RequestOK, Given, GivenMessage, MessagesOf
<1>8. place'[r] <= NextPosition
  BY <1>0, <1>2 DEF ThreadEnds
<1> QED
  BY <1>2, <1>3, <1>4, <1>5, <1>6, <1>7, <1>8, SilentKeeps DEF RequestOK

LEMMA StoreAnswerKeeps ==
  ASSUME ConversationInv, NEW r \in Requests, StoreAnswer(r)
  PROVE  ConversationInv'
<1> USE DEF StoreAnswer, Goes
<1> DEFINE kind == IF r \in frozen THEN "approval" ELSE "answer"
           m0 == [by |-> r, kind |-> kind, position |-> place[r]]
<1>0. ConversationTypeOK /\ RequestOK(r) /\ ThreadEnds
  BY DEF ConversationInv
<1>p. place[r] \in Nat /\ place[r] <= NextPosition /\ NextPosition \in Nat
  BY <1>0 DEF ConversationTypeOK, ThreadEnds
<1>1. /\ IsFiniteSet(messages') /\ NextPosition' \in Nat /\ NoHoles'
      /\ NextPosition <= NextPosition' /\ place[r] + 1 <= NextPosition'
  BY <1>0, <1>p, StoringKeepsEnd
<1>2. /\ request[r] = "answer" /\ request'[r] = (IF r \in frozen THEN "freeze" ELSE "done")
      /\ \A s \in Requests : s # r => request'[s] = request[s]
      /\ UNCHANGED <<action, resolves, place, frozen, priors, endedBefore>>
      /\ messages' = messages \cup {m0}
  BY <1>0 DEF ConversationTypeOK, StoreMessage
<1>m. /\ m0 \in Messages /\ m0.by = r /\ m0.kind # "question" /\ m0.position = place[r]
      /\ (m0.kind = "approval") <=> (r \in frozen)
  BY <1>p DEF Messages
<1>11. LaterIsHigher'
  BY <1>0, <1>2, StoringKeepsOrder DEF RequestOK
<1> HIDE DEF m0
<1>3. ConversationTypeOK'
  BY <1>0, <1>2, <1>m DEF ConversationTypeOK
<1>4. OneMoves(r)
  BY <1>2, <1>m DEF OneMoves, Ended
<1>5. Past(r)' /\ PlaceFits(r)'
  BY <1>0, <1>2 DEF RequestOK, Past, PlaceFits, Ended
<1>6. /\ MessagesOf(r)' = MessagesOf(r) \cup {m0}
      /\ \A m \in MessagesOf(r) : m.kind = "question" /\ m.position < place[r]
  BY <1>0, <1>2, <1>m DEF RequestOK, Said, MessagesOf
<1>7. Said(r)'
  BY <1>0, <1>2, <1>6, <1>m DEF RequestOK, Said
<1>9. AskedFor(r)'
  <2>1. Asked(r)' <=> r \in frozen
    BY <1>6, <1>m DEF Asked
  <2>2. ~Asked(r) /\ action[r] = "none"
    BY <1>0, <1>6 DEF RequestOK, AskedFor, Asked
  <2> QED
    BY <1>0, <1>2, <2>1, <2>2 DEF RequestOK, AskedFor
<1>10. Given(r)'
  <2>1. \A a : MessagesOf(a) \subseteq MessagesOf(a)'
    BY <1>2 DEF MessagesOf
  <2>2. \A m : GivenMessage(r, m)' <=> GivenMessage(r, m)
    BY <1>2 DEF GivenMessage
  <2> QED
    BY <1>0, <1>2, <2>1, <2>2 DEF RequestOK, Given
<1>12. place'[r] <= NextPosition'
  BY <1>1, <1>2, <1>p
<1> QED
  BY <1>1, <1>2, <1>3, <1>4, <1>5, <1>7, <1>9, <1>10, <1>11, <1>12, OneMovesKeeps DEF RequestOK

LEMMA CreateActionKeeps ==
  ASSUME ConversationInv, NEW r \in Requests, CreateAction(r)
  PROVE  ConversationInv'
<1> USE DEF CreateAction, Goes
<1>0. ConversationTypeOK /\ RequestOK(r) /\ ThreadEnds
  BY DEF ConversationInv
<1>2. /\ request[r] = "freeze" /\ request'[r] = "done" /\ action'[r] = "pending"
      /\ \A s \in Requests : s # r => request'[s] = request[s] /\ action'[s] = action[s]
      /\ UNCHANGED <<messages, resolves, place, frozen, priors, endedBefore>>
  BY <1>0 DEF ConversationTypeOK
<1>3. ConversationTypeOK'
  BY <1>0 DEF ConversationTypeOK
<1>4. OneMoves(r)
  BY <1>2 DEF OneMoves, Ended
<1>5. Past(r)' /\ PlaceFits(r)'
  BY <1>0, <1>2 DEF RequestOK, Past, PlaceFits, Resolving, Ended
<1>6. Said(r)'
  BY <1>0, <1>2 DEF RequestOK, Said, MessagesOf, Resolving
<1>7. AskedFor(r)'
  <2>1. resolves[r] \subseteq Requests
    BY <1>0 DEF ConversationTypeOK
  <2> QED
    BY <1>0, <1>2, <2>1 DEF RequestOK, AskedFor, Asked, MessagesOf
<1>8. Given(r)'
  BY <1>0, <1>2 DEF RequestOK, Given, GivenMessage, MessagesOf
<1>9. place'[r] <= NextPosition
  BY <1>0, <1>2 DEF ThreadEnds
<1> QED
  BY <1>2, <1>3, <1>4, <1>5, <1>6, <1>7, <1>8, <1>9, SilentKeeps DEF RequestOK

\* A request that fails stores nothing and keeps what it has stored.
LEMMA FailingKeeps ==
  ASSUME ConversationInv, NEW r \in Requests, Faulty(r), request[r] \notin {"idle", "done", "failed"},
         action' \in [Requests -> {"none", "pending", "resolved", "failed"}],
         \A s \in Requests : action'[s] # "none" <=> action[s] # "none"
  PROVE  ConversationInv'
<1> USE DEF Faulty, Goes
<1>0. ConversationTypeOK /\ RequestOK(r) /\ ThreadEnds
  BY DEF ConversationInv
<1>2. /\ request'[r] = "failed"
      /\ \A s \in Requests : s # r => request'[s] = request[s]
      /\ UNCHANGED <<messages, resolves, place, frozen, priors, endedBefore>>
  BY <1>0 DEF ConversationTypeOK
<1>f. conversationFaults' \in 0..MaxConversationFaults
  BY <1>0, ConversationAssumption DEF ConversationTypeOK
<1>3. ConversationTypeOK'
  BY <1>0, <1>f DEF ConversationTypeOK
<1>4. OneMoves(r)
  BY <1>2 DEF OneMoves, Ended
<1>5. Past(r)' /\ PlaceFits(r)'
  BY <1>0, <1>2 DEF RequestOK, Past, PlaceFits, Resolving, Ended
<1>6. Said(r)'
  BY <1>0, <1>2 DEF RequestOK, Said, MessagesOf, Resolving
<1>7. AskedFor(r)'
  <2>1. resolves[r] \subseteq Requests
    BY <1>0 DEF ConversationTypeOK
  <2> QED
    BY <1>0, <1>2, <2>1 DEF RequestOK, AskedFor, Asked, MessagesOf
<1>8. Given(r)'
  BY <1>0, <1>2 DEF RequestOK, Given
<1>9. place'[r] <= NextPosition
  BY <1>0, <1>2 DEF ThreadEnds
<1> QED
  BY <1>2, <1>3, <1>4, <1>5, <1>6, <1>7, <1>8, <1>9, SilentKeeps DEF RequestOK

LEMMA ResumeThrowsKeeps ==
  ASSUME ConversationInv, NEW r \in Requests, ResumeThrows(r)
  PROVE  ConversationInv'
<1>1. ConversationTypeOK /\ AskedFor(r)
  BY DEF ConversationInv, RequestOK
<1>2. \A s \in Requests : action'[s] # "none" <=> action[s] # "none"
  BY <1>1 DEF ResumeThrows, AskedFor
<1>3. action' \in [Requests -> {"none", "pending", "resolved", "failed"}]
  BY <1>1 DEF ResumeThrows, ConversationTypeOK
<1> QED
  BY <1>2, <1>3, FailingKeeps DEF ResumeThrows

LEMMA RequestThrowsKeeps ==
  ASSUME ConversationInv, NEW r \in Requests, RequestThrows(r)
  PROVE  ConversationInv'
  BY FailingKeeps DEF RequestThrows, ConversationInv, ConversationTypeOK

LEMMA ConversationBegins == ConversationInit => ConversationInv
<1> SUFFICES ASSUME ConversationInit PROVE ConversationInv
  OBVIOUS
<1> USE ConversationAssumption DEF ConversationInit
<1>1. 0 \in 0..MaxConversationFaults
  OBVIOUS
<1>2. ConversationTypeOK
  BY <1>1 DEF ConversationTypeOK
<1>3. {m.position : m \in messages} = {} /\ {} = 0..(0 - 1)
  OBVIOUS
<1>4. NextPosition = 0
  BY <1>3, EndOfThread DEF NextPosition
<1>5. ThreadEnds
  BY <1>3, <1>4, FS_EmptySet DEF ThreadEnds, NoHoles
<1>6. FirstComesFirst /\ LaterIsHigher
  BY DEF FirstComesFirst, LaterIsHigher
<1>7. ASSUME NEW r \in Requests PROVE RequestOK(r)
  <2>1. MessagesOf(r) = {}
    BY DEF MessagesOf
  <2> QED
    BY <2>1 DEF RequestOK, Past, Said, PlaceFits, AskedFor, Asked, Given
<1> QED
  BY <1>2, <1>5, <1>6, <1>7 DEF ConversationInv

LEMMA ConversationGoesOn == ConversationInv /\ [ConversationNext]_conversationVars => ConversationInv'
<1> SUFFICES ASSUME ConversationInv, [ConversationNext]_conversationVars PROVE ConversationInv'
  OBVIOUS
<1>1. ASSUME NEW r \in Requests, ConversationStep(r) PROVE ConversationInv'
  BY <1>1, CreateFirstKeeps, AppendMessageKeeps, ResolveKeeps, LoadPriorsKeeps, ReadEndKeeps, StoreQuestionKeeps,
     RunKeeps, StoreAnswerKeeps, CreateActionKeeps, ResumeThrowsKeeps, RequestThrowsKeeps, Zenon
     DEF ConversationStep
<1>2. CASE UNCHANGED conversationVars
  <2>1. UNCHANGED <<messages, action, request, resolves, place, frozen, priors, endedBefore, conversationFaults>>
    BY <1>2 DEF conversationVars
  <2>2. ConversationTypeOK'
    BY <2>1 DEF ConversationInv, ConversationTypeOK
  <2>3. NextPosition' = NextPosition /\ (NoHoles' <=> NoHoles)
    BY <2>1 DEF NextPosition, NoHoles
  <2>4. ThreadEnds' /\ FirstComesFirst' /\ LaterIsHigher'
    BY <2>1, <2>3 DEF ConversationInv, ThreadEnds, FirstComesFirst, LaterIsHigher
  <2>5. \A r \in Requests : RequestOK(r)' <=> RequestOK(r)
    <3>1. \A r \in Requests : (Past(r)' <=> Past(r)) /\ (PlaceFits(r)' <=> PlaceFits(r)) /\ MessagesOf(r)' = MessagesOf(r)
      BY <2>1 DEF Past, PlaceFits, MessagesOf, Resolving
    <3>2. \A r \in Requests : (Said(r)' <=> Said(r)) /\ (AskedFor(r)' <=> AskedFor(r))
      BY <2>1, Zenon DEF Said, AskedFor, Asked, MessagesOf, Resolving
    <3>3. \A r \in Requests : Given(r)' <=> Given(r)
      <4>1. \A r \in Requests : \A m : GivenMessage(r, m)' <=> GivenMessage(r, m)
        BY <2>1, Zenon DEF GivenMessage
      <4>2. \A r \in Requests : \A a : MessagesOf(a)' = MessagesOf(a)
        BY <2>1 DEF MessagesOf
      <4> QED
        BY <2>1, <4>1, <4>2, Zenon DEF Given
    <3> QED
      BY <3>1, <3>2, <3>3 DEF RequestOK
  <2> QED
    BY <2>2, <2>4, <2>5 DEF ConversationInv
<1> QED
  BY <1>1, <1>2 DEF ConversationNext

\* A thread has no hole, keeps the order of what was asked, gives the agent what
\* was said, and can be answered.
THEOREM ConversationKept == ConversationSpec => []ConversationSound
<1>1. ConversationInv => ConversationSound
  <2> SUFFICES ASSUME ConversationInv PROVE ConversationSound
    OBVIOUS
  <2>1. ConversationTypeOK /\ NoHoles /\ LaterIsHigher /\ \A r \in Requests : RequestOK(r)
    BY DEF ConversationInv, ThreadEnds
  <2>2. StoredInOrder
    <3> SUFFICES ASSUME NEW m \in messages, NEW n \in messages, n.by = m.by, n.kind = "question", m # n
                 PROVE  n.position < m.position
      BY <2>1 DEF StoredInOrder, LaterIsHigher
    <3>1. n.by \in Requests /\ m \in MessagesOf(n.by) /\ n \in MessagesOf(n.by)
      BY <2>1 DEF MessagesOf, ConversationTypeOK, Messages
    <3> QED
      BY <2>1, <3>1 DEF RequestOK, Said
  <2>3. GivenTheThread
    <3> SUFFICES ASSUME NEW r \in Requests
                 PROVE  /\ priors[r] \cap MessagesOf(r) = {}
                        /\ \A a \in resolves[r] : request[r] \notin {"load", "failed"} =>
                             \E m \in MessagesOf(a) : m.kind = "approval" /\ GivenMessage(r, m)
      BY Zenon DEF GivenTheThread, GivenMessage
    <3> QED
      BY <2>1 DEF RequestOK, Given, MessagesOf
  <2>4. AskedCanBeAnswered
    <3> SUFFICES ASSUME NEW r \in Requests
                 PROVE  /\ Asked(r) /\ action[r] = "none" => request[r] \in {"freeze", "failed"}
                        /\ action[r] # "none" => Asked(r)
                        /\ Cardinality({m \in MessagesOf(r) : m.kind # "question"}) <= 1
      BY Zenon DEF AskedCanBeAnswered, Asked
    <3> DEFINE S == {m \in MessagesOf(r) : m.kind # "question"}
    <3>1. \A m, n \in S : m = n
      BY <2>1 DEF RequestOK, Said
    <3>2. Cardinality(S) <= 1
      BY <3>1, AtMostOne
    <3> QED
      BY <2>1, <3>2 DEF RequestOK, AskedFor
  <2> QED
    BY <2>1, <2>2, <2>3, <2>4 DEF ConversationSound
<1> QED
  BY ConversationBegins, ConversationGoesOn, <1>1, PTL DEF ConversationSpec

-----------------------------------------------------------------------------
(* The communities of a company and their summaries.  A community whose     *)
(* members are not linked yet is stale and nobody summarises it (Unlinked); *)
(* what a job has read is all there is unless a concept joined meanwhile    *)
(* (ReadsAll); and with one content at a time, what it still has to assign  *)
(* is in no community (Counted).                                            *)

\* A community exists from its creation on, and has members once they are linked.
Created == \A c \in standing : detection[c] \in {"link", "count", "done"}
NoGhosts == \A c \in Ingested : c \notin standing => members[c] = {}
Unlinked ==
  \A d \in Ingested : detection[d] \in {"new", "delete", "create", "link", "assign"} =>
    /\ members[d] = {} /\ ~Summarising(d)
    /\ d \in standing => d \in staleOnes

\* What a job has read is all there is, or a member has joined since.
ReadsAll ==
  \A j \in SummaryJobs :
    summaryJob[j] = "summarise" /\ jobOf[j] \in standing /\ jobOf[j] \notin overlooked
      => members[jobOf[j]] \subseteq membersRead[j]

\* A job is for a community that is due and not deferred, as long as it is the only one.
JobsAreApart ==
  \A i, j \in SummaryJobs :
    summaryJob[i] \in Pending /\ summaryJob[j] \in Pending /\ jobOf[i] = jobOf[j] /\ i # j
      => jobOf[i] \in queuedTwice
JobsAreDue ==
  \A j \in SummaryJobs : summaryJob[j] \in Pending /\ jobOf[j] \notin queuedTwice =>
    /\ jobOf[j] \in standing => jobOf[j] \in staleOnes
    /\ summaryJob[j] # "summarise" => jobOf[j] \notin deferredOnes

\* One content after the other: what it has to assign is in no community yet, and
\* what it has linked is what it created.
OneContent == \A d, e \in Ingested : detection[d] \in Busy /\ detection[e] \in Busy => d = e
Counted ==
  \A d \in Ingested :
    /\ detection[d] = "assign" => \A c \in standing : orphans[d] \cap members[c] = {}
    /\ detection[d] = "count" /\ d \in standing => members[d] = orphans[d]

CommunityInv ==
  /\ CommunityTypeOK /\ Created /\ NoGhosts /\ Unlinked /\ ReadsAll /\ JobsAreApart /\ JobsAreDue
  /\ FreshCoversMembers /\ DeferredIsStale /\ MemberCountHonest
  /\ ~crossed => OneContent /\ Counted

LEMMA CountCommunitiesKeeps ==
  ASSUME CommunityInv, NEW d \in Ingested, NEW K \in SUBSET Concepts, CountCommunities(d, K)
  PROVE  CommunityInv'
<1>c1. Created
  BY DEF CommunityInv
<1>c2. NoGhosts
  BY DEF CommunityInv
<1>c3. Unlinked
  BY DEF CommunityInv
<1>c4. ReadsAll
  BY DEF CommunityInv
<1>c5. JobsAreApart
  BY DEF CommunityInv
<1>c6. JobsAreDue
  BY DEF CommunityInv
<1>c7. FreshCoversMembers
  BY DEF CommunityInv
<1>c8. DeferredIsStale
  BY DEF CommunityInv
<1>c9. MemberCountHonest
  BY DEF CommunityInv
<1>c10. ~crossed => OneContent
  BY DEF CommunityInv
<1>c11. ~crossed => Counted
  BY DEF CommunityInv
<1>y. /\ detection \in [Ingested -> Busy \cup {"new", "done"}]
      /\ orphans \in [Ingested -> SUBSET Concepts] /\ touched \in [Ingested -> SUBSET Ingested]
      /\ standing \subseteq Ingested /\ members \in [Ingested -> SUBSET Concepts]
      /\ memberCount \in [Ingested -> Int]
      /\ summaryJob \in [SummaryJobs -> Pending \cup {"none", "done"}]
      /\ jobOf \in [SummaryJobs -> Ingested \cup {NoCommunity}]
  BY DEF CommunityInv, CommunityTypeOK
<1>t. CommunityTypeOK'
  <2>1. crossed' \in BOOLEAN
    BY DEF CommunityInv, CommunityTypeOK, CountCommunities
  <2>2. orphans' \in [Ingested -> SUBSET Concepts] /\ detection' \in [Ingested -> Busy \cup {"new", "done"}]
    BY <1>y DEF CountCommunities, GoesTo, Unplaced, Busy
  <2> QED
    BY <2>1, <2>2 DEF CommunityInv, CommunityTypeOK, CountCommunities, graph, flags, jobs
<1>s. /\ detection[d] = "new"
      /\ \A x \in Ingested : detection'[x] = IF x = d THEN (IF standing = {} THEN "delete" ELSE "assign") ELSE detection[x]
      /\ \A x \in Ingested : x # d => orphans'[x] = orphans[x]
      /\ standing # {} => orphans'[d] = Unplaced(K)
      /\ UNCHANGED <<touched, unmarked, standing, members, memberCount, staleOnes, deferredOnes, summary, summaryJob, jobOf, membersRead, queuedTwice, overlooked>>
  BY <1>y DEF CountCommunities, GoesTo, assigning, graph, flags, jobs, CommunityInv, CommunityTypeOK
<1>f. crossed' <=> crossed \/ \E e \in Ingested : detection[e] \in Busy
  BY DEF CountCommunities
<1>1. Created'
  BY <1>s, <1>c1, <1>y DEF Created, Busy
<1>2. NoGhosts'
  BY <1>s, <1>c2 DEF NoGhosts
<1>3. Unlinked'
  BY <1>s, <1>c3 DEF Unlinked, Summarising
<1>4. ReadsAll'
  BY <1>s, <1>c4 DEF ReadsAll
<1>5. JobsAreApart'
  BY <1>s, <1>c5 DEF JobsAreApart, Pending
<1>6. JobsAreDue'
  BY <1>s, <1>c6 DEF JobsAreDue, Pending
<1>7. FreshCoversMembers'
  BY <1>s, <1>c7 DEF FreshCoversMembers
<1>8. DeferredIsStale'
  BY <1>s, <1>c8 DEF DeferredIsStale
<1>9. MemberCountHonest'
  BY <1>s, <1>c9, <1>f, <1>y, <1>c1 DEF MemberCountHonest, Busy, Created
<1>10. ~crossed' => OneContent'
  BY <1>s, <1>c10, <1>f, <1>y DEF OneContent, Busy
<1>11. ~crossed' => Counted'
  <2> SUFFICES ASSUME ~crossed', NEW e \in Ingested
               PROVE  /\ detection'[e] = "assign" => \A x \in standing' : orphans'[e] \cap members'[x] = {}
                      /\ detection'[e] = "count" /\ e \in standing' => members'[e] = orphans'[e]
    BY DEF Counted
  <2>1. detection[e] \notin Busy
    BY <1>f
  <2>2. e # d => detection'[e] \notin {"assign", "count"}
    BY <1>s, <2>1 DEF Busy
  <2>3. detection'[d] # "count" /\ (detection'[d] = "assign" => standing # {})
    BY <1>s
  <2>4. detection'[d] = "assign" => \A x \in standing : orphans'[d] \cap members[x] = {}
    BY <1>s, <2>3 DEF Unplaced, Placed
  <2> QED
    BY <1>s, <2>2, <2>3, <2>4
<1> QED
  BY <1>t, <1>1, <1>2, <1>3, <1>4, <1>5, <1>6, <1>7, <1>8, <1>9, <1>10, <1>11 DEF CommunityInv

LEMMA DeleteCommunitiesKeeps ==
  ASSUME CommunityInv, NEW d \in Ingested, DeleteCommunities(d)
  PROVE  CommunityInv'
<1>c1. Created
  BY DEF CommunityInv
<1>c2. NoGhosts
  BY DEF CommunityInv
<1>c3. Unlinked
  BY DEF CommunityInv
<1>c4. ReadsAll
  BY DEF CommunityInv
<1>c5. JobsAreApart
  BY DEF CommunityInv
<1>c6. JobsAreDue
  BY DEF CommunityInv
<1>c7. FreshCoversMembers
  BY DEF CommunityInv
<1>c8. DeferredIsStale
  BY DEF CommunityInv
<1>c9. MemberCountHonest
  BY DEF CommunityInv
<1>c10. ~crossed => OneContent
  BY DEF CommunityInv
<1>c11. ~crossed => Counted
  BY DEF CommunityInv
<1>y. /\ detection \in [Ingested -> Busy \cup {"new", "done"}]
      /\ orphans \in [Ingested -> SUBSET Concepts] /\ touched \in [Ingested -> SUBSET Ingested]
      /\ standing \subseteq Ingested /\ members \in [Ingested -> SUBSET Concepts]
      /\ memberCount \in [Ingested -> Int]
      /\ summaryJob \in [SummaryJobs -> Pending \cup {"none", "done"}]
      /\ jobOf \in [SummaryJobs -> Ingested \cup {NoCommunity}]
  BY DEF CommunityInv, CommunityTypeOK
<1>t. CommunityTypeOK'
  BY CommunityAssumption DEF CommunityInv, CommunityTypeOK, DeleteCommunities, GoesTo, assigning, graph, flags, jobs, Busy, Pending
<1>s. /\ detection[d] = "delete"
      /\ \A x \in Ingested : detection'[x] = IF x = d THEN "create" ELSE detection[x]
      /\ standing' = {}
      /\ \A x \in Ingested : members'[x] = {}
      /\ staleOnes' = {}
      /\ deferredOnes' = {}
      /\ UNCHANGED <<about, orphans, touched, unmarked, memberCount, summary, summaryJob, jobOf, membersRead, queuedTwice, overlooked>>
  BY <1>y DEF DeleteCommunities, GoesTo, assigning, graph, flags, jobs, CommunityInv, CommunityTypeOK
<1>f. crossed' <=> crossed
  BY DEF DeleteCommunities, assigning
<1>1. Created'
  BY <1>s, <1>c1 DEF Created
<1>2. NoGhosts'
  BY <1>s, <1>c2 DEF NoGhosts
<1>3. Unlinked'
  BY <1>s, <1>c3 DEF Unlinked, Summarising
<1>4. ReadsAll'
  BY <1>s, <1>c4 DEF ReadsAll
<1>5. JobsAreApart'
  BY <1>s, <1>c5 DEF JobsAreApart, Pending
<1>6. JobsAreDue'
  BY <1>s, <1>c6 DEF JobsAreDue, Pending
<1>7. FreshCoversMembers'
  BY <1>s, <1>c7 DEF FreshCoversMembers
<1>8. DeferredIsStale'
  BY <1>s, <1>c8 DEF DeferredIsStale
<1>9. MemberCountHonest'
  BY <1>s, <1>c9, <1>f DEF MemberCountHonest, Busy
<1>10. ~crossed' => OneContent'
  BY <1>s, <1>c10, <1>f DEF OneContent, Busy
<1>11. ~crossed' => Counted'
  BY <1>s, <1>c11, <1>f DEF Counted
<1> QED
  BY <1>t, <1>1, <1>2, <1>3, <1>4, <1>5, <1>6, <1>7, <1>8, <1>9, <1>10, <1>11 DEF CommunityInv

LEMMA CreateCommunityKeeps ==
  ASSUME CommunityInv, NEW d \in Ingested, NEW K \in SUBSET Concepts, CreateCommunity(d, K)
  PROVE  CommunityInv'
<1>c1. Created
  BY DEF CommunityInv
<1>c2. NoGhosts
  BY DEF CommunityInv
<1>c3. Unlinked
  BY DEF CommunityInv
<1>c4. ReadsAll
  BY DEF CommunityInv
<1>c5. JobsAreApart
  BY DEF CommunityInv
<1>c6. JobsAreDue
  BY DEF CommunityInv
<1>c7. FreshCoversMembers
  BY DEF CommunityInv
<1>c8. DeferredIsStale
  BY DEF CommunityInv
<1>c9. MemberCountHonest
  BY DEF CommunityInv
<1>c10. ~crossed => OneContent
  BY DEF CommunityInv
<1>c11. ~crossed => Counted
  BY DEF CommunityInv
<1>y. /\ detection \in [Ingested -> Busy \cup {"new", "done"}]
      /\ orphans \in [Ingested -> SUBSET Concepts] /\ touched \in [Ingested -> SUBSET Ingested]
      /\ standing \subseteq Ingested /\ members \in [Ingested -> SUBSET Concepts]
      /\ memberCount \in [Ingested -> Int]
      /\ summaryJob \in [SummaryJobs -> Pending \cup {"none", "done"}]
      /\ jobOf \in [SummaryJobs -> Ingested \cup {NoCommunity}]
  BY DEF CommunityInv, CommunityTypeOK
<1>t. CommunityTypeOK'
  <2>1. IsFiniteSet(K) /\ Cardinality(K) \in Int
    BY CommunityAssumption, FS_Subset, FS_CardinalityType
  <2> QED
    BY <2>1 DEF CommunityInv, CommunityTypeOK, CreateCommunity, GoesTo, jobs, Busy
<1>s. /\ detection[d] = "create"
      /\ \A x \in Ingested : detection'[x] = IF x = d THEN "link" ELSE detection[x]
      /\ \A x \in Ingested : orphans'[x] = IF x = d THEN K ELSE orphans[x]
      /\ standing' = standing \cup {d}
      /\ staleOnes' = staleOnes \cup {d}
      /\ \A x \in Ingested : x # d => memberCount'[x] = memberCount[x]
      /\ UNCHANGED <<about, touched, unmarked, members, deferredOnes, summary, summaryJob, jobOf, membersRead, queuedTwice, overlooked>>
  BY <1>y DEF CreateCommunity, GoesTo, assigning, graph, flags, jobs, CommunityInv, CommunityTypeOK
<1>f. crossed' <=> crossed
  BY DEF CreateCommunity, assigning
<1>1. Created'
  BY <1>s, <1>c1, <1>y DEF Created, Busy
<1>2. NoGhosts'
  BY <1>s, <1>c2 DEF NoGhosts
<1>3. Unlinked'
  BY <1>s, <1>c3 DEF Unlinked, Summarising
<1>4. ReadsAll'
  BY <1>s, <1>c4, <1>c3 DEF ReadsAll, Unlinked, Summarising
<1>5. JobsAreApart'
  BY <1>s, <1>c5 DEF JobsAreApart, Pending
<1>6. JobsAreDue'
  BY <1>s, <1>c6 DEF JobsAreDue, Pending
<1>7. FreshCoversMembers'
  BY <1>s, <1>c7 DEF FreshCoversMembers
<1>8. DeferredIsStale'
  BY <1>s, <1>c8 DEF DeferredIsStale
<1>9. MemberCountHonest'
  BY <1>s, <1>c9, <1>f, <1>y DEF MemberCountHonest, Busy
<1>10. ~crossed' => OneContent'
  BY <1>s, <1>c10, <1>f DEF OneContent, Busy
<1>11. ~crossed' => Counted'
  BY <1>s, <1>c11, <1>f, <1>c10, <1>y DEF Counted, OneContent, Busy
<1> QED
  BY <1>t, <1>1, <1>2, <1>3, <1>4, <1>5, <1>6, <1>7, <1>8, <1>9, <1>10, <1>11 DEF CommunityInv

LEMMA FindNoneKeeps ==
  ASSUME CommunityInv, NEW d \in Ingested, FindNone(d)
  PROVE  CommunityInv'
<1>c1. Created
  BY DEF CommunityInv
<1>c2. NoGhosts
  BY DEF CommunityInv
<1>c3. Unlinked
  BY DEF CommunityInv
<1>c4. ReadsAll
  BY DEF CommunityInv
<1>c5. JobsAreApart
  BY DEF CommunityInv
<1>c6. JobsAreDue
  BY DEF CommunityInv
<1>c7. FreshCoversMembers
  BY DEF CommunityInv
<1>c8. DeferredIsStale
  BY DEF CommunityInv
<1>c9. MemberCountHonest
  BY DEF CommunityInv
<1>c10. ~crossed => OneContent
  BY DEF CommunityInv
<1>c11. ~crossed => Counted
  BY DEF CommunityInv
<1>y. /\ detection \in [Ingested -> Busy \cup {"new", "done"}]
      /\ orphans \in [Ingested -> SUBSET Concepts] /\ touched \in [Ingested -> SUBSET Ingested]
      /\ standing \subseteq Ingested /\ members \in [Ingested -> SUBSET Concepts]
      /\ memberCount \in [Ingested -> Int]
      /\ summaryJob \in [SummaryJobs -> Pending \cup {"none", "done"}]
      /\ jobOf \in [SummaryJobs -> Ingested \cup {NoCommunity}]
  BY DEF CommunityInv, CommunityTypeOK
<1>t. CommunityTypeOK'
  BY CommunityAssumption DEF CommunityInv, CommunityTypeOK, FindNone, GoesTo, assigning, graph, flags, jobs, Busy, Pending
<1>s. /\ detection[d] = "create"
      /\ \A x \in Ingested : detection'[x] = IF x = d THEN "done" ELSE detection[x]
      /\ UNCHANGED <<about, orphans, touched, unmarked, standing, members, memberCount, staleOnes, deferredOnes, summary, summaryJob, jobOf, membersRead, queuedTwice, overlooked>>
  BY <1>y DEF FindNone, GoesTo, assigning, graph, flags, jobs, CommunityInv, CommunityTypeOK
<1>f. crossed' <=> crossed
  BY DEF FindNone, assigning
<1>1. Created'
  BY <1>s, <1>c1, <1>y DEF Created, Busy
<1>2. NoGhosts'
  BY <1>s, <1>c2 DEF NoGhosts
<1>3. Unlinked'
  BY <1>s, <1>c3 DEF Unlinked, Summarising
<1>4. ReadsAll'
  BY <1>s, <1>c4 DEF ReadsAll
<1>5. JobsAreApart'
  BY <1>s, <1>c5 DEF JobsAreApart, Pending
<1>6. JobsAreDue'
  BY <1>s, <1>c6 DEF JobsAreDue, Pending
<1>7. FreshCoversMembers'
  BY <1>s, <1>c7 DEF FreshCoversMembers
<1>8. DeferredIsStale'
  BY <1>s, <1>c8 DEF DeferredIsStale
<1>9. MemberCountHonest'
  BY <1>s, <1>c9, <1>f, <1>c1, <1>y DEF MemberCountHonest, Busy, Created
<1>10. ~crossed' => OneContent'
  BY <1>s, <1>c10, <1>f DEF OneContent, Busy
<1>11. ~crossed' => Counted'
  BY <1>s, <1>c11, <1>f DEF Counted
<1> QED
  BY <1>t, <1>1, <1>2, <1>3, <1>4, <1>5, <1>6, <1>7, <1>8, <1>9, <1>10, <1>11 DEF CommunityInv

LEMMA LinkMembersKeeps ==
  ASSUME CommunityInv, NEW d \in Ingested, LinkMembers(d)
  PROVE  CommunityInv'
<1>c1. Created
  BY DEF CommunityInv
<1>c2. NoGhosts
  BY DEF CommunityInv
<1>c3. Unlinked
  BY DEF CommunityInv
<1>c4. ReadsAll
  BY DEF CommunityInv
<1>c5. JobsAreApart
  BY DEF CommunityInv
<1>c6. JobsAreDue
  BY DEF CommunityInv
<1>c7. FreshCoversMembers
  BY DEF CommunityInv
<1>c8. DeferredIsStale
  BY DEF CommunityInv
<1>c9. MemberCountHonest
  BY DEF CommunityInv
<1>c10. ~crossed => OneContent
  BY DEF CommunityInv
<1>c11. ~crossed => Counted
  BY DEF CommunityInv
<1>y. /\ detection \in [Ingested -> Busy \cup {"new", "done"}]
      /\ orphans \in [Ingested -> SUBSET Concepts] /\ touched \in [Ingested -> SUBSET Ingested]
      /\ standing \subseteq Ingested /\ members \in [Ingested -> SUBSET Concepts]
      /\ memberCount \in [Ingested -> Int]
      /\ summaryJob \in [SummaryJobs -> Pending \cup {"none", "done"}]
      /\ jobOf \in [SummaryJobs -> Ingested \cup {NoCommunity}]
  BY DEF CommunityInv, CommunityTypeOK
<1>t. CommunityTypeOK'
  BY CommunityAssumption DEF CommunityInv, CommunityTypeOK, LinkMembers, GoesTo, assigning, graph, flags, jobs, Busy, Pending
<1>s. /\ detection[d] = "link"
      /\ \A x \in Ingested : detection'[x] = IF x = d THEN "count" ELSE detection[x]
      /\ d \in standing => members'[d] = orphans[d]
      /\ d \notin standing => members'[d] = members[d]
      /\ \A x \in Ingested : x # d => members'[x] = members[x]
      /\ overlooked' = IF Summarising(d) THEN overlooked \cup {d} ELSE overlooked
      /\ UNCHANGED <<about, orphans, touched, unmarked, standing, memberCount, staleOnes, deferredOnes, summary, summaryJob, jobOf, membersRead, queuedTwice>>
  BY <1>y DEF LinkMembers, GoesTo, assigning, graph, flags, jobs, CommunityInv, CommunityTypeOK
<1>f. crossed' <=> crossed
  BY DEF LinkMembers, assigning
<1>1. Created'
  BY <1>s, <1>c1, <1>y DEF Created, Busy
<1>2. NoGhosts'
  BY <1>s, <1>c2 DEF NoGhosts
<1>3. Unlinked'
  BY <1>s, <1>c3 DEF Unlinked, Summarising
<1>4. ReadsAll'
  BY <1>s, <1>c4, <1>c3, <1>y DEF ReadsAll, Unlinked, Summarising, Busy
<1>5. JobsAreApart'
  BY <1>s, <1>c5 DEF JobsAreApart, Pending
<1>6. JobsAreDue'
  BY <1>s, <1>c6 DEF JobsAreDue, Pending
<1>7. FreshCoversMembers'
  BY <1>s, <1>c7, <1>c3, <1>y DEF FreshCoversMembers, Unlinked, Summarising, Busy
<1>8. DeferredIsStale'
  BY <1>s, <1>c8 DEF DeferredIsStale
<1>9. MemberCountHonest'
  BY <1>s, <1>c9, <1>f, <1>y DEF MemberCountHonest, Busy
<1>10. ~crossed' => OneContent'
  BY <1>s, <1>c10, <1>f DEF OneContent, Busy
<1>11. ~crossed' => Counted'
  BY <1>s, <1>c11, <1>f, <1>c10, <1>y DEF Counted, OneContent, Busy
<1> QED
  BY <1>t, <1>1, <1>2, <1>3, <1>4, <1>5, <1>6, <1>7, <1>8, <1>9, <1>10, <1>11 DEF CommunityInv

LEMMA WriteCountKeeps ==
  ASSUME CommunityInv, NEW d \in Ingested, WriteCount(d)
  PROVE  CommunityInv'
<1>c1. Created
  BY DEF CommunityInv
<1>c2. NoGhosts
  BY DEF CommunityInv
<1>c3. Unlinked
  BY DEF CommunityInv
<1>c4. ReadsAll
  BY DEF CommunityInv
<1>c5. JobsAreApart
  BY DEF CommunityInv
<1>c6. JobsAreDue
  BY DEF CommunityInv
<1>c7. FreshCoversMembers
  BY DEF CommunityInv
<1>c8. DeferredIsStale
  BY DEF CommunityInv
<1>c9. MemberCountHonest
  BY DEF CommunityInv
<1>c10. ~crossed => OneContent
  BY DEF CommunityInv
<1>c11. ~crossed => Counted
  BY DEF CommunityInv
<1>y. /\ detection \in [Ingested -> Busy \cup {"new", "done"}]
      /\ orphans \in [Ingested -> SUBSET Concepts] /\ touched \in [Ingested -> SUBSET Ingested]
      /\ standing \subseteq Ingested /\ members \in [Ingested -> SUBSET Concepts]
      /\ memberCount \in [Ingested -> Int]
      /\ summaryJob \in [SummaryJobs -> Pending \cup {"none", "done"}]
      /\ jobOf \in [SummaryJobs -> Ingested \cup {NoCommunity}]
  BY DEF CommunityInv, CommunityTypeOK
<1>t. CommunityTypeOK'
  <2>1. Cardinality(orphans[d]) \in Int
    BY <1>y, CommunityAssumption, FS_Subset, FS_CardinalityType
  <2> QED
    BY <2>1 DEF CommunityInv, CommunityTypeOK, WriteCount, GoesTo, flags, jobs
<1>s. /\ detection[d] = "count"
      /\ \A x \in Ingested : detection'[x] = IF x = d THEN "done" ELSE detection[x]
      /\ d \in standing => memberCount'[d] = Cardinality(orphans[d])
      /\ \A x \in Ingested : x # d => memberCount'[x] = memberCount[x]
      /\ UNCHANGED <<about, orphans, touched, unmarked, standing, members, staleOnes, deferredOnes, summary, summaryJob, jobOf, membersRead, queuedTwice, overlooked>>
  BY <1>y DEF WriteCount, GoesTo, assigning, graph, flags, jobs, CommunityInv, CommunityTypeOK
<1>f. crossed' <=> crossed
  BY DEF WriteCount, assigning
<1>1. Created'
  BY <1>s, <1>c1, <1>y DEF Created, Busy
<1>2. NoGhosts'
  BY <1>s, <1>c2 DEF NoGhosts
<1>3. Unlinked'
  BY <1>s, <1>c3 DEF Unlinked, Summarising
<1>4. ReadsAll'
  BY <1>s, <1>c4 DEF ReadsAll
<1>5. JobsAreApart'
  BY <1>s, <1>c5 DEF JobsAreApart, Pending
<1>6. JobsAreDue'
  BY <1>s, <1>c6 DEF JobsAreDue, Pending
<1>7. FreshCoversMembers'
  BY <1>s, <1>c7 DEF FreshCoversMembers
<1>8. DeferredIsStale'
  BY <1>s, <1>c8 DEF DeferredIsStale
<1>9. MemberCountHonest'
  BY <1>s, <1>c9, <1>f, <1>c11, <1>y DEF MemberCountHonest, Busy, Counted
<1>10. ~crossed' => OneContent'
  BY <1>s, <1>c10, <1>f DEF OneContent, Busy
<1>11. ~crossed' => Counted'
  BY <1>s, <1>c11, <1>f, <1>y DEF Counted, Busy
<1> QED
  BY <1>t, <1>1, <1>2, <1>3, <1>4, <1>5, <1>6, <1>7, <1>8, <1>9, <1>10, <1>11 DEF CommunityInv

LEMMA AssignConceptKeeps ==
  ASSUME CommunityInv, NEW d \in Ingested, NEW k \in Concepts, NEW c \in Ingested, AssignConcept(d, k, c)
  PROVE  CommunityInv'
<1>c1. Created
  BY DEF CommunityInv
<1>c2. NoGhosts
  BY DEF CommunityInv
<1>c3. Unlinked
  BY DEF CommunityInv
<1>c4. ReadsAll
  BY DEF CommunityInv
<1>c5. JobsAreApart
  BY DEF CommunityInv
<1>c6. JobsAreDue
  BY DEF CommunityInv
<1>c7. FreshCoversMembers
  BY DEF CommunityInv
<1>c8. DeferredIsStale
  BY DEF CommunityInv
<1>c9. MemberCountHonest
  BY DEF CommunityInv
<1>c10. ~crossed => OneContent
  BY DEF CommunityInv
<1>c11. ~crossed => Counted
  BY DEF CommunityInv
<1>y. /\ detection \in [Ingested -> Busy \cup {"new", "done"}]
      /\ orphans \in [Ingested -> SUBSET Concepts] /\ touched \in [Ingested -> SUBSET Ingested]
      /\ standing \subseteq Ingested /\ members \in [Ingested -> SUBSET Concepts]
      /\ memberCount \in [Ingested -> Int]
      /\ summaryJob \in [SummaryJobs -> Pending \cup {"none", "done"}]
      /\ jobOf \in [SummaryJobs -> Ingested \cup {NoCommunity}]
  BY DEF CommunityInv, CommunityTypeOK
<1>t. CommunityTypeOK'
  BY CommunityAssumption DEF CommunityInv, CommunityTypeOK, AssignConcept, assigning, graph, flags, jobs, Busy, Pending
<1>s. /\ detection[d] = "assign"
      /\ k \in orphans[d]
      /\ c \in standing
      /\ members[c] # {}
      /\ \A x \in Ingested : members'[x] = IF x = c THEN members[c] \cup {k} ELSE members[x]
      /\ \A x \in Ingested : memberCount'[x] = IF x = c THEN memberCount[c] + 1 ELSE memberCount[x]
      /\ \A x \in Ingested : orphans'[x] = IF x = d THEN orphans[d] \ {k} ELSE orphans[x]
      /\ \A x \in Ingested : touched'[x] = IF x = d THEN touched[d] \cup {c} ELSE touched[x]
      /\ overlooked' = IF Summarising(c) THEN overlooked \cup {c} ELSE overlooked
      /\ UNCHANGED <<detection, about, unmarked, standing, staleOnes, deferredOnes, summary, summaryJob, jobOf, membersRead, queuedTwice>>
  BY <1>y DEF AssignConcept, assigning, graph, flags, jobs, CommunityInv, CommunityTypeOK
<1>f. crossed' <=> crossed
  BY DEF AssignConcept, assigning
<1>1. Created'
  BY <1>s, <1>c1 DEF Created
<1>2. NoGhosts'
  BY <1>s, <1>c2 DEF NoGhosts
<1>3. Unlinked'
  BY <1>s, <1>c3 DEF Unlinked, Summarising
<1>4. ReadsAll'
  <2> SUFFICES ASSUME NEW i \in SummaryJobs, summaryJob[i] = "summarise", jobOf[i] \in standing,
                      jobOf[i] \notin overlooked'
               PROVE  members'[jobOf[i]] \subseteq membersRead[i]
    BY <1>s DEF ReadsAll
  <2>1. jobOf[i] # c /\ jobOf[i] \notin overlooked
    BY <1>s DEF Summarising
  <2>2. members[jobOf[i]] \subseteq membersRead[i]
    BY <1>c4, <2>1 DEF ReadsAll
  <2> QED
    BY <1>s, <1>y, <2>1, <2>2
<1>5. JobsAreApart'
  BY <1>s, <1>c5 DEF JobsAreApart, Pending
<1>6. JobsAreDue'
  BY <1>s, <1>c6 DEF JobsAreDue, Pending
<1>7. FreshCoversMembers'
  BY <1>s, <1>c7, <1>y DEF FreshCoversMembers, Busy
<1>8. DeferredIsStale'
  BY <1>s, <1>c8 DEF DeferredIsStale
<1>9. MemberCountHonest'
  <2> SUFFICES ASSUME ~crossed, NEW x \in standing \ unmarked, detection[x] \notin Busy
               PROVE  memberCount'[x] = Cardinality(members'[x])
    BY <1>s, <1>f DEF MemberCountHonest
  <2>1. memberCount[x] = Cardinality(members[x]) /\ x \in Ingested
    BY <1>c9, <1>y DEF MemberCountHonest
  <2>2. CASE x # c
    BY <1>s, <2>1, <2>2
  <2>3. CASE x = c
    <3>1. k \notin members[c]
      BY <1>s, <1>c11 DEF Counted
    <3>2. IsFiniteSet(members[c])
      BY <1>y, CommunityAssumption, FS_Subset
    <3>3. Cardinality(members[c] \cup {k}) = Cardinality(members[c]) + 1
      BY <3>1, <3>2, FS_AddElement
    <3> QED
      BY <1>s, <2>1, <2>3, <3>3
  <2> QED
    BY <2>2, <2>3
<1>10. ~crossed' => OneContent'
  BY <1>s, <1>c10, <1>f DEF OneContent, Busy
<1>11. ~crossed' => Counted'
  BY <1>s, <1>c11, <1>f, <1>c10, <1>y DEF Counted, OneContent, Busy
<1> QED
  BY <1>t, <1>1, <1>2, <1>3, <1>4, <1>5, <1>6, <1>7, <1>8, <1>9, <1>10, <1>11 DEF CommunityInv

LEMMA LeaveOrphanKeeps ==
  ASSUME CommunityInv, NEW d \in Ingested, NEW k \in Concepts, LeaveOrphan(d, k)
  PROVE  CommunityInv'
<1>c1. Created
  BY DEF CommunityInv
<1>c2. NoGhosts
  BY DEF CommunityInv
<1>c3. Unlinked
  BY DEF CommunityInv
<1>c4. ReadsAll
  BY DEF CommunityInv
<1>c5. JobsAreApart
  BY DEF CommunityInv
<1>c6. JobsAreDue
  BY DEF CommunityInv
<1>c7. FreshCoversMembers
  BY DEF CommunityInv
<1>c8. DeferredIsStale
  BY DEF CommunityInv
<1>c9. MemberCountHonest
  BY DEF CommunityInv
<1>c10. ~crossed => OneContent
  BY DEF CommunityInv
<1>c11. ~crossed => Counted
  BY DEF CommunityInv
<1>y. /\ detection \in [Ingested -> Busy \cup {"new", "done"}]
      /\ orphans \in [Ingested -> SUBSET Concepts] /\ touched \in [Ingested -> SUBSET Ingested]
      /\ standing \subseteq Ingested /\ members \in [Ingested -> SUBSET Concepts]
      /\ memberCount \in [Ingested -> Int]
      /\ summaryJob \in [SummaryJobs -> Pending \cup {"none", "done"}]
      /\ jobOf \in [SummaryJobs -> Ingested \cup {NoCommunity}]
  BY DEF CommunityInv, CommunityTypeOK
<1>t. CommunityTypeOK'
  BY CommunityAssumption DEF CommunityInv, CommunityTypeOK, LeaveOrphan, assigning, graph, flags, jobs, Busy, Pending
<1>s. /\ detection[d] = "assign"
      /\ \A x \in Ingested : orphans'[x] = IF x = d THEN orphans[d] \ {k} ELSE orphans[x]
      /\ UNCHANGED <<detection, about, touched, unmarked, standing, members, memberCount, staleOnes, deferredOnes, summary, summaryJob, jobOf, membersRead, queuedTwice, overlooked>>
  BY <1>y DEF LeaveOrphan, assigning, graph, flags, jobs, CommunityInv, CommunityTypeOK
<1>f. crossed' <=> crossed
  BY DEF LeaveOrphan, assigning
<1>1. Created'
  BY <1>s, <1>c1 DEF Created
<1>2. NoGhosts'
  BY <1>s, <1>c2 DEF NoGhosts
<1>3. Unlinked'
  BY <1>s, <1>c3 DEF Unlinked, Summarising
<1>4. ReadsAll'
  BY <1>s, <1>c4 DEF ReadsAll
<1>5. JobsAreApart'
  BY <1>s, <1>c5 DEF JobsAreApart, Pending
<1>6. JobsAreDue'
  BY <1>s, <1>c6 DEF JobsAreDue, Pending
<1>7. FreshCoversMembers'
  BY <1>s, <1>c7 DEF FreshCoversMembers
<1>8. DeferredIsStale'
  BY <1>s, <1>c8 DEF DeferredIsStale
<1>9. MemberCountHonest'
  BY <1>s, <1>c9, <1>f DEF MemberCountHonest, Busy
<1>10. ~crossed' => OneContent'
  BY <1>s, <1>c10, <1>f DEF OneContent, Busy
<1>11. ~crossed' => Counted'
  BY <1>s, <1>c11, <1>f DEF Counted
<1> QED
  BY <1>t, <1>1, <1>2, <1>3, <1>4, <1>5, <1>6, <1>7, <1>8, <1>9, <1>10, <1>11 DEF CommunityInv

LEMMA MarkAsStaleKeeps ==
  ASSUME CommunityInv, NEW d \in Ingested, MarkAsStale(d)
  PROVE  CommunityInv'
<1>c1. Created
  BY DEF CommunityInv
<1>c2. NoGhosts
  BY DEF CommunityInv
<1>c3. Unlinked
  BY DEF CommunityInv
<1>c4. ReadsAll
  BY DEF CommunityInv
<1>c5. JobsAreApart
  BY DEF CommunityInv
<1>c6. JobsAreDue
  BY DEF CommunityInv
<1>c7. FreshCoversMembers
  BY DEF CommunityInv
<1>c8. DeferredIsStale
  BY DEF CommunityInv
<1>c9. MemberCountHonest
  BY DEF CommunityInv
<1>c10. ~crossed => OneContent
  BY DEF CommunityInv
<1>c11. ~crossed => Counted
  BY DEF CommunityInv
<1>y. /\ detection \in [Ingested -> Busy \cup {"new", "done"}]
      /\ orphans \in [Ingested -> SUBSET Concepts] /\ touched \in [Ingested -> SUBSET Ingested]
      /\ standing \subseteq Ingested /\ members \in [Ingested -> SUBSET Concepts]
      /\ memberCount \in [Ingested -> Int]
      /\ summaryJob \in [SummaryJobs -> Pending \cup {"none", "done"}]
      /\ jobOf \in [SummaryJobs -> Ingested \cup {NoCommunity}]
  BY DEF CommunityInv, CommunityTypeOK
<1>t. CommunityTypeOK'
  BY CommunityAssumption DEF CommunityInv, CommunityTypeOK, MarkAsStale, GoesTo, assigning, graph, flags, jobs, Busy, Pending
<1>s. /\ detection[d] = "assign"
      /\ orphans[d] = {}
      /\ \A x \in Ingested : detection'[x] = IF x = d THEN "done" ELSE detection[x]
      /\ staleOnes' = staleOnes \cup (touched[d] \cap standing)
      /\ \A x \in Ingested : touched'[x] = IF x = d THEN {} ELSE touched[x]
      /\ UNCHANGED <<about, orphans, unmarked, standing, members, memberCount, deferredOnes, summary, summaryJob, jobOf, membersRead, queuedTwice, overlooked>>
  BY <1>y DEF MarkAsStale, GoesTo, assigning, graph, flags, jobs, CommunityInv, CommunityTypeOK
<1>f. crossed' <=> crossed
  BY DEF MarkAsStale, assigning
<1>1. Created'
  BY <1>s, <1>c1, <1>y DEF Created, Busy
<1>2. NoGhosts'
  BY <1>s, <1>c2 DEF NoGhosts
<1>3. Unlinked'
  BY <1>s, <1>c3 DEF Unlinked, Summarising
<1>4. ReadsAll'
  BY <1>s, <1>c4 DEF ReadsAll
<1>5. JobsAreApart'
  BY <1>s, <1>c5 DEF JobsAreApart, Pending
<1>6. JobsAreDue'
  BY <1>s, <1>c6 DEF JobsAreDue, Pending
<1>7. FreshCoversMembers'
  BY <1>s, <1>c7 DEF FreshCoversMembers
<1>8. DeferredIsStale'
  BY <1>s, <1>c8 DEF DeferredIsStale
<1>9. MemberCountHonest'
  BY <1>s, <1>c9, <1>f, <1>c1, <1>y DEF MemberCountHonest, Busy, Created
<1>10. ~crossed' => OneContent'
  BY <1>s, <1>c10, <1>f DEF OneContent, Busy
<1>11. ~crossed' => Counted'
  BY <1>s, <1>c11, <1>f DEF Counted
<1> QED
  BY <1>t, <1>1, <1>2, <1>3, <1>4, <1>5, <1>6, <1>7, <1>8, <1>9, <1>10, <1>11 DEF CommunityInv

LEMMA ContentFailsKeeps ==
  ASSUME CommunityInv, NEW d \in Ingested, ContentFails(d)
  PROVE  CommunityInv'
<1>c1. Created
  BY DEF CommunityInv
<1>c2. NoGhosts
  BY DEF CommunityInv
<1>c3. Unlinked
  BY DEF CommunityInv
<1>c4. ReadsAll
  BY DEF CommunityInv
<1>c5. JobsAreApart
  BY DEF CommunityInv
<1>c6. JobsAreDue
  BY DEF CommunityInv
<1>c7. FreshCoversMembers
  BY DEF CommunityInv
<1>c8. DeferredIsStale
  BY DEF CommunityInv
<1>c9. MemberCountHonest
  BY DEF CommunityInv
<1>c10. ~crossed => OneContent
  BY DEF CommunityInv
<1>c11. ~crossed => Counted
  BY DEF CommunityInv
<1>y. /\ detection \in [Ingested -> Busy \cup {"new", "done"}]
      /\ orphans \in [Ingested -> SUBSET Concepts] /\ touched \in [Ingested -> SUBSET Ingested]
      /\ standing \subseteq Ingested /\ members \in [Ingested -> SUBSET Concepts]
      /\ memberCount \in [Ingested -> Int]
      /\ summaryJob \in [SummaryJobs -> Pending \cup {"none", "done"}]
      /\ jobOf \in [SummaryJobs -> Ingested \cup {NoCommunity}]
  BY DEF CommunityInv, CommunityTypeOK
<1>t. CommunityTypeOK'
  <2>1. communityFaults' \in 0..MaxCommunityFaults
    BY CommunityAssumption DEF CommunityInv, CommunityTypeOK, ContentFails
  <2> QED
    BY <2>1 DEF CommunityInv, CommunityTypeOK, ContentFails, GoesTo, graph, flags, jobs
<1>s. /\ detection[d] \in Busy
      /\ \A x \in Ingested : detection'[x] = IF x = d THEN "done" ELSE detection[x]
      /\ unmarked' = unmarked \cup touched[d] \cup {d}
      /\ \A x \in Ingested : touched'[x] = IF x = d THEN {} ELSE touched[x]
      /\ UNCHANGED <<about, orphans, standing, members, memberCount, staleOnes, deferredOnes, summary, summaryJob, jobOf, membersRead, queuedTwice, overlooked>>
  BY <1>y DEF ContentFails, GoesTo, assigning, graph, flags, jobs, CommunityInv, CommunityTypeOK
<1>f. crossed' <=> crossed
  BY DEF ContentFails, assigning
<1>1. Created'
  BY <1>s, <1>c1, <1>y DEF Created, Busy
<1>2. NoGhosts'
  BY <1>s, <1>c2 DEF NoGhosts
<1>3. Unlinked'
  BY <1>s, <1>c3 DEF Unlinked, Summarising
<1>4. ReadsAll'
  BY <1>s, <1>c4 DEF ReadsAll
<1>5. JobsAreApart'
  BY <1>s, <1>c5 DEF JobsAreApart, Pending
<1>6. JobsAreDue'
  BY <1>s, <1>c6 DEF JobsAreDue, Pending
<1>7. FreshCoversMembers'
  BY <1>s, <1>c7 DEF FreshCoversMembers
<1>8. DeferredIsStale'
  BY <1>s, <1>c8 DEF DeferredIsStale
<1>9. MemberCountHonest'
  BY <1>s, <1>c9, <1>f, <1>y DEF MemberCountHonest, Busy
<1>10. ~crossed' => OneContent'
  BY <1>s, <1>c10, <1>f DEF OneContent, Busy
<1>11. ~crossed' => Counted'
  BY <1>s, <1>c11, <1>f DEF Counted
<1> QED
  BY <1>t, <1>1, <1>2, <1>3, <1>4, <1>5, <1>6, <1>7, <1>8, <1>9, <1>10, <1>11 DEF CommunityInv

LEMMA ListStaleKeeps ==
  ASSUME CommunityInv, NEW j \in SummaryJobs, NEW c \in Ingested, ListStale(j, c)
  PROVE  CommunityInv'
<1>c1. Created
  BY DEF CommunityInv
<1>c2. NoGhosts
  BY DEF CommunityInv
<1>c3. Unlinked
  BY DEF CommunityInv
<1>c4. ReadsAll
  BY DEF CommunityInv
<1>c5. JobsAreApart
  BY DEF CommunityInv
<1>c6. JobsAreDue
  BY DEF CommunityInv
<1>c7. FreshCoversMembers
  BY DEF CommunityInv
<1>c8. DeferredIsStale
  BY DEF CommunityInv
<1>c9. MemberCountHonest
  BY DEF CommunityInv
<1>c10. ~crossed => OneContent
  BY DEF CommunityInv
<1>c11. ~crossed => Counted
  BY DEF CommunityInv
<1>y. /\ detection \in [Ingested -> Busy \cup {"new", "done"}]
      /\ orphans \in [Ingested -> SUBSET Concepts] /\ touched \in [Ingested -> SUBSET Ingested]
      /\ standing \subseteq Ingested /\ members \in [Ingested -> SUBSET Concepts]
      /\ memberCount \in [Ingested -> Int]
      /\ summaryJob \in [SummaryJobs -> Pending \cup {"none", "done"}]
      /\ jobOf \in [SummaryJobs -> Ingested \cup {NoCommunity}]
  BY DEF CommunityInv, CommunityTypeOK
<1>t. CommunityTypeOK'
  BY CommunityAssumption DEF CommunityInv, CommunityTypeOK, ListStale, ToSummarise, assigning, graph, flags, jobs, Busy, Pending
<1>s. /\ summaryJob[j] = "none"
      /\ c \in staleOnes
      /\ c \notin deferredOnes
      /\ \A x \in SummaryJobs : summaryJob'[x] = IF x = j THEN "listed" ELSE summaryJob[x]
      /\ \A x \in SummaryJobs : jobOf'[x] = IF x = j THEN c ELSE jobOf[x]
      /\ (\E i \in SummaryJobs : summaryJob[i] \in Pending /\ jobOf[i] = c) => c \in queuedTwice'
      /\ queuedTwice \subseteq queuedTwice'
      /\ UNCHANGED <<detection, about, orphans, touched, unmarked, standing, members, memberCount, staleOnes, deferredOnes, summary, membersRead, overlooked>>
  BY <1>y DEF ListStale, ToSummarise, assigning, graph, flags, jobs, CommunityInv, CommunityTypeOK
<1>f. crossed' <=> crossed
  BY DEF ListStale, assigning
<1>1. Created'
  BY <1>s, <1>c1 DEF Created
<1>2. NoGhosts'
  BY <1>s, <1>c2 DEF NoGhosts
<1>3. Unlinked'
  BY <1>s, <1>c3 DEF Unlinked, Summarising
<1>4. ReadsAll'
  BY <1>s, <1>c4 DEF ReadsAll
<1>5. JobsAreApart'
  BY <1>s, <1>c5 DEF JobsAreApart, Pending
<1>6. JobsAreDue'
  BY <1>s, <1>c6 DEF JobsAreDue, Pending
<1>7. FreshCoversMembers'
  BY <1>s, <1>c7 DEF FreshCoversMembers
<1>8. DeferredIsStale'
  BY <1>s, <1>c8 DEF DeferredIsStale
<1>9. MemberCountHonest'
  BY <1>s, <1>c9, <1>f DEF MemberCountHonest, Busy
<1>10. ~crossed' => OneContent'
  BY <1>s, <1>c10, <1>f DEF OneContent, Busy
<1>11. ~crossed' => Counted'
  BY <1>s, <1>c11, <1>f DEF Counted
<1> QED
  BY <1>t, <1>1, <1>2, <1>3, <1>4, <1>5, <1>6, <1>7, <1>8, <1>9, <1>10, <1>11 DEF CommunityInv

LEMMA QueueSummaryKeeps ==
  ASSUME CommunityInv, NEW j \in SummaryJobs, QueueSummary(j)
  PROVE  CommunityInv'
<1>c1. Created
  BY DEF CommunityInv
<1>c2. NoGhosts
  BY DEF CommunityInv
<1>c3. Unlinked
  BY DEF CommunityInv
<1>c4. ReadsAll
  BY DEF CommunityInv
<1>c5. JobsAreApart
  BY DEF CommunityInv
<1>c6. JobsAreDue
  BY DEF CommunityInv
<1>c7. FreshCoversMembers
  BY DEF CommunityInv
<1>c8. DeferredIsStale
  BY DEF CommunityInv
<1>c9. MemberCountHonest
  BY DEF CommunityInv
<1>c10. ~crossed => OneContent
  BY DEF CommunityInv
<1>c11. ~crossed => Counted
  BY DEF CommunityInv
<1>y. /\ detection \in [Ingested -> Busy \cup {"new", "done"}]
      /\ orphans \in [Ingested -> SUBSET Concepts] /\ touched \in [Ingested -> SUBSET Ingested]
      /\ standing \subseteq Ingested /\ members \in [Ingested -> SUBSET Concepts]
      /\ memberCount \in [Ingested -> Int]
      /\ summaryJob \in [SummaryJobs -> Pending \cup {"none", "done"}]
      /\ jobOf \in [SummaryJobs -> Ingested \cup {NoCommunity}]
  BY DEF CommunityInv, CommunityTypeOK
<1>t. CommunityTypeOK'
  BY CommunityAssumption DEF CommunityInv, CommunityTypeOK, QueueSummary, assigning, graph, flags, jobs, Busy, Pending
<1>s. /\ summaryJob[j] = "listed"
      /\ \A x \in SummaryJobs : summaryJob'[x] = IF x = j THEN "queued" ELSE summaryJob[x]
      /\ UNCHANGED <<detection, about, orphans, touched, unmarked, standing, members, memberCount, staleOnes, deferredOnes, summary, jobOf, membersRead, queuedTwice, overlooked>>
  BY <1>y DEF QueueSummary, assigning, graph, flags, jobs, CommunityInv, CommunityTypeOK
<1>f. crossed' <=> crossed
  BY DEF QueueSummary, assigning
<1>1. Created'
  BY <1>s, <1>c1 DEF Created
<1>2. NoGhosts'
  BY <1>s, <1>c2 DEF NoGhosts
<1>3. Unlinked'
  BY <1>s, <1>c3 DEF Unlinked, Summarising
<1>4. ReadsAll'
  BY <1>s, <1>c4 DEF ReadsAll
<1>5. JobsAreApart'
  BY <1>s, <1>c5 DEF JobsAreApart, Pending
<1>6. JobsAreDue'
  BY <1>s, <1>c6 DEF JobsAreDue, Pending
<1>7. FreshCoversMembers'
  BY <1>s, <1>c7 DEF FreshCoversMembers
<1>8. DeferredIsStale'
  BY <1>s, <1>c8 DEF DeferredIsStale
<1>9. MemberCountHonest'
  BY <1>s, <1>c9, <1>f DEF MemberCountHonest, Busy
<1>10. ~crossed' => OneContent'
  BY <1>s, <1>c10, <1>f DEF OneContent, Busy
<1>11. ~crossed' => Counted'
  BY <1>s, <1>c11, <1>f DEF Counted
<1> QED
  BY <1>t, <1>1, <1>2, <1>3, <1>4, <1>5, <1>6, <1>7, <1>8, <1>9, <1>10, <1>11 DEF CommunityInv

LEMMA DeferSummaryKeeps ==
  ASSUME CommunityInv, NEW j \in SummaryJobs, DeferSummary(j)
  PROVE  CommunityInv'
<1>c1. Created
  BY DEF CommunityInv
<1>c2. NoGhosts
  BY DEF CommunityInv
<1>c3. Unlinked
  BY DEF CommunityInv
<1>c4. ReadsAll
  BY DEF CommunityInv
<1>c5. JobsAreApart
  BY DEF CommunityInv
<1>c6. JobsAreDue
  BY DEF CommunityInv
<1>c7. FreshCoversMembers
  BY DEF CommunityInv
<1>c8. DeferredIsStale
  BY DEF CommunityInv
<1>c9. MemberCountHonest
  BY DEF CommunityInv
<1>c10. ~crossed => OneContent
  BY DEF CommunityInv
<1>c11. ~crossed => Counted
  BY DEF CommunityInv
<1>y. /\ detection \in [Ingested -> Busy \cup {"new", "done"}]
      /\ orphans \in [Ingested -> SUBSET Concepts] /\ touched \in [Ingested -> SUBSET Ingested]
      /\ standing \subseteq Ingested /\ members \in [Ingested -> SUBSET Concepts]
      /\ memberCount \in [Ingested -> Int]
      /\ summaryJob \in [SummaryJobs -> Pending \cup {"none", "done"}]
      /\ jobOf \in [SummaryJobs -> Ingested \cup {NoCommunity}]
  BY DEF CommunityInv, CommunityTypeOK
<1>t. CommunityTypeOK'
  BY CommunityAssumption DEF CommunityInv, CommunityTypeOK, DeferSummary, Close, assigning, graph, flags, jobs, Busy, Pending
<1>s. /\ summaryJob[j] = "queued"
      /\ deferredOnes' = deferredOnes \cup ({jobOf[j]} \cap standing)
      /\ \A x \in SummaryJobs : summaryJob'[x] = IF x = j THEN "done" ELSE summaryJob[x]
      /\ \A x \in SummaryJobs : x # j => jobOf'[x] = jobOf[x] /\ membersRead'[x] = membersRead[x]
      /\ UNCHANGED <<detection, about, orphans, touched, unmarked, standing, members, memberCount, staleOnes, summary, queuedTwice, overlooked>>
  BY <1>y DEF DeferSummary, Close, assigning, graph, flags, jobs, CommunityInv, CommunityTypeOK
<1>f. crossed' <=> crossed
  BY DEF DeferSummary, assigning
<1>1. Created'
  BY <1>s, <1>c1 DEF Created
<1>2. NoGhosts'
  BY <1>s, <1>c2 DEF NoGhosts
<1>3. Unlinked'
  BY <1>s, <1>c3 DEF Unlinked, Summarising
<1>4. ReadsAll'
  BY <1>s, <1>c4 DEF ReadsAll
<1>5. JobsAreApart'
  BY <1>s, <1>c5 DEF JobsAreApart, Pending
<1>6. JobsAreDue'
  BY <1>s, <1>c6, <1>c5 DEF JobsAreDue, Pending, JobsAreApart
<1>7. FreshCoversMembers'
  BY <1>s, <1>c7 DEF FreshCoversMembers
<1>8. DeferredIsStale'
  BY <1>s, <1>c8, <1>c6 DEF DeferredIsStale, JobsAreDue, Pending
<1>9. MemberCountHonest'
  BY <1>s, <1>c9, <1>f DEF MemberCountHonest, Busy
<1>10. ~crossed' => OneContent'
  BY <1>s, <1>c10, <1>f DEF OneContent, Busy
<1>11. ~crossed' => Counted'
  BY <1>s, <1>c11, <1>f DEF Counted
<1> QED
  BY <1>t, <1>1, <1>2, <1>3, <1>4, <1>5, <1>6, <1>7, <1>8, <1>9, <1>10, <1>11 DEF CommunityInv

LEMMA GatherMembersKeeps ==
  ASSUME CommunityInv, NEW j \in SummaryJobs, GatherMembers(j)
  PROVE  CommunityInv'
<1>c1. Created
  BY DEF CommunityInv
<1>c2. NoGhosts
  BY DEF CommunityInv
<1>c3. Unlinked
  BY DEF CommunityInv
<1>c4. ReadsAll
  BY DEF CommunityInv
<1>c5. JobsAreApart
  BY DEF CommunityInv
<1>c6. JobsAreDue
  BY DEF CommunityInv
<1>c7. FreshCoversMembers
  BY DEF CommunityInv
<1>c8. DeferredIsStale
  BY DEF CommunityInv
<1>c9. MemberCountHonest
  BY DEF CommunityInv
<1>c10. ~crossed => OneContent
  BY DEF CommunityInv
<1>c11. ~crossed => Counted
  BY DEF CommunityInv
<1>y. /\ detection \in [Ingested -> Busy \cup {"new", "done"}]
      /\ orphans \in [Ingested -> SUBSET Concepts] /\ touched \in [Ingested -> SUBSET Ingested]
      /\ standing \subseteq Ingested /\ members \in [Ingested -> SUBSET Concepts]
      /\ memberCount \in [Ingested -> Int]
      /\ summaryJob \in [SummaryJobs -> Pending \cup {"none", "done"}]
      /\ jobOf \in [SummaryJobs -> Ingested \cup {NoCommunity}]
  BY DEF CommunityInv, CommunityTypeOK
<1>t. CommunityTypeOK'
  <2>1. \A c \in Ingested : members[c] \subseteq Concepts
    BY <1>y
  <2>2. CASE Close(j)
    BY <2>2 DEF CommunityInv, CommunityTypeOK, GatherMembers, Close, assigning, graph, flags, Pending
  <2>3. CASE ~Close(j)
    <3>1. /\ summaryJob' = [summaryJob EXCEPT ![j] = "summarise"] /\ UNCHANGED jobOf
          /\ membersRead' = [membersRead EXCEPT ![j] = members[jobOf[j]]] /\ jobOf[j] \in standing
      BY <2>3 DEF GatherMembers
    <3>2. membersRead' \in [SummaryJobs -> SUBSET Concepts]
      BY <1>y, <3>1 DEF CommunityInv, CommunityTypeOK
    <3> QED
      BY <3>1, <3>2 DEF CommunityInv, CommunityTypeOK, GatherMembers, assigning, graph, flags, Pending
  <2> QED
    BY <2>2, <2>3
<1>s. /\ summaryJob[j] = "queued"
      /\ summaryJob'[j] \in {"done", "summarise"}
      /\ \A x \in SummaryJobs : x # j => summaryJob'[x] = summaryJob[x] /\ jobOf'[x] = jobOf[x] /\ membersRead'[x] = membersRead[x]
      /\ summaryJob'[j] = "summarise" => /\ jobOf[j] \in standing /\ members[jobOf[j]] # {}
                                       /\ jobOf'[j] = jobOf[j] /\ membersRead'[j] = members[jobOf[j]]
      /\ UNCHANGED <<detection, about, orphans, touched, unmarked, standing, members, memberCount, staleOnes, deferredOnes, summary, queuedTwice, overlooked>>
  BY <1>y DEF GatherMembers, Close, assigning, graph, flags, jobs, CommunityInv, CommunityTypeOK
<1>f. crossed' <=> crossed
  BY DEF GatherMembers, assigning
<1>1. Created'
  BY <1>s, <1>c1 DEF Created
<1>2. NoGhosts'
  BY <1>s, <1>c2 DEF NoGhosts
<1>3. Unlinked'
  BY <1>s, <1>c3, <1>y DEF Unlinked, Summarising, Busy
<1>4. ReadsAll'
  BY <1>s, <1>c4 DEF ReadsAll
<1>5. JobsAreApart'
  BY <1>s, <1>c5 DEF JobsAreApart, Pending
<1>6. JobsAreDue'
  BY <1>s, <1>c6 DEF JobsAreDue, Pending
<1>7. FreshCoversMembers'
  BY <1>s, <1>c7 DEF FreshCoversMembers
<1>8. DeferredIsStale'
  BY <1>s, <1>c8 DEF DeferredIsStale
<1>9. MemberCountHonest'
  BY <1>s, <1>c9, <1>f DEF MemberCountHonest, Busy
<1>10. ~crossed' => OneContent'
  BY <1>s, <1>c10, <1>f DEF OneContent, Busy
<1>11. ~crossed' => Counted'
  BY <1>s, <1>c11, <1>f DEF Counted
<1> QED
  BY <1>t, <1>1, <1>2, <1>3, <1>4, <1>5, <1>6, <1>7, <1>8, <1>9, <1>10, <1>11 DEF CommunityInv

LEMMA UpdateSummaryKeeps ==
  ASSUME CommunityInv, NEW j \in SummaryJobs, UpdateSummary(j)
  PROVE  CommunityInv'
<1>c1. Created
  BY DEF CommunityInv
<1>c2. NoGhosts
  BY DEF CommunityInv
<1>c3. Unlinked
  BY DEF CommunityInv
<1>c4. ReadsAll
  BY DEF CommunityInv
<1>c5. JobsAreApart
  BY DEF CommunityInv
<1>c6. JobsAreDue
  BY DEF CommunityInv
<1>c7. FreshCoversMembers
  BY DEF CommunityInv
<1>c8. DeferredIsStale
  BY DEF CommunityInv
<1>c9. MemberCountHonest
  BY DEF CommunityInv
<1>c10. ~crossed => OneContent
  BY DEF CommunityInv
<1>c11. ~crossed => Counted
  BY DEF CommunityInv
<1>y. /\ detection \in [Ingested -> Busy \cup {"new", "done"}]
      /\ orphans \in [Ingested -> SUBSET Concepts] /\ touched \in [Ingested -> SUBSET Ingested]
      /\ standing \subseteq Ingested /\ members \in [Ingested -> SUBSET Concepts]
      /\ memberCount \in [Ingested -> Int]
      /\ summaryJob \in [SummaryJobs -> Pending \cup {"none", "done"}]
      /\ jobOf \in [SummaryJobs -> Ingested \cup {NoCommunity}]
  BY DEF CommunityInv, CommunityTypeOK
<1>t. CommunityTypeOK'
  BY CommunityAssumption DEF CommunityInv, CommunityTypeOK, UpdateSummary, Close, assigning, graph, flags, jobs, Busy, Pending
<1>s. /\ summaryJob[j] = "summarise"
      /\ \A x \in Ingested : summary'[x] = IF x = jobOf[j] /\ x \in standing THEN membersRead[j] ELSE summary[x]
      /\ staleOnes' = staleOnes \ {jobOf[j]}
      /\ deferredOnes' = deferredOnes \ {jobOf[j]}
      /\ \A x \in SummaryJobs : summaryJob'[x] = IF x = j THEN "done" ELSE summaryJob[x]
      /\ \A x \in SummaryJobs : x # j => jobOf'[x] = jobOf[x] /\ membersRead'[x] = membersRead[x]
      /\ UNCHANGED <<detection, about, orphans, touched, unmarked, standing, members, memberCount, queuedTwice, overlooked>>
  BY <1>y DEF UpdateSummary, Close, assigning, graph, flags, jobs, CommunityInv, CommunityTypeOK
<1>f. crossed' <=> crossed
  BY DEF UpdateSummary, assigning
<1>1. Created'
  BY <1>s, <1>c1 DEF Created
<1>2. NoGhosts'
  BY <1>s, <1>c2 DEF NoGhosts
<1>3. Unlinked'
  BY <1>s, <1>c3, <1>c3 DEF Unlinked, Summarising
<1>4. ReadsAll'
  BY <1>s, <1>c4 DEF ReadsAll
<1>5. JobsAreApart'
  BY <1>s, <1>c5 DEF JobsAreApart, Pending
<1>6. JobsAreDue'
  BY <1>s, <1>c6, <1>c5 DEF JobsAreDue, Pending, JobsAreApart
<1>7. FreshCoversMembers'
  BY <1>s, <1>c7, <1>c4, <1>y DEF FreshCoversMembers, ReadsAll, Busy
<1>8. DeferredIsStale'
  BY <1>s, <1>c8 DEF DeferredIsStale
<1>9. MemberCountHonest'
  BY <1>s, <1>c9, <1>f DEF MemberCountHonest, Busy
<1>10. ~crossed' => OneContent'
  BY <1>s, <1>c10, <1>f DEF OneContent, Busy
<1>11. ~crossed' => Counted'
  BY <1>s, <1>c11, <1>f DEF Counted
<1> QED
  BY <1>t, <1>1, <1>2, <1>3, <1>4, <1>5, <1>6, <1>7, <1>8, <1>9, <1>10, <1>11 DEF CommunityInv

LEMMA LoseJobKeeps ==
  ASSUME CommunityInv, NEW j \in SummaryJobs, LoseJob(j)
  PROVE  CommunityInv'
<1>c1. Created
  BY DEF CommunityInv
<1>c2. NoGhosts
  BY DEF CommunityInv
<1>c3. Unlinked
  BY DEF CommunityInv
<1>c4. ReadsAll
  BY DEF CommunityInv
<1>c5. JobsAreApart
  BY DEF CommunityInv
<1>c6. JobsAreDue
  BY DEF CommunityInv
<1>c7. FreshCoversMembers
  BY DEF CommunityInv
<1>c8. DeferredIsStale
  BY DEF CommunityInv
<1>c9. MemberCountHonest
  BY DEF CommunityInv
<1>c10. ~crossed => OneContent
  BY DEF CommunityInv
<1>c11. ~crossed => Counted
  BY DEF CommunityInv
<1>y. /\ detection \in [Ingested -> Busy \cup {"new", "done"}]
      /\ orphans \in [Ingested -> SUBSET Concepts] /\ touched \in [Ingested -> SUBSET Ingested]
      /\ standing \subseteq Ingested /\ members \in [Ingested -> SUBSET Concepts]
      /\ memberCount \in [Ingested -> Int]
      /\ summaryJob \in [SummaryJobs -> Pending \cup {"none", "done"}]
      /\ jobOf \in [SummaryJobs -> Ingested \cup {NoCommunity}]
  BY DEF CommunityInv, CommunityTypeOK
<1>t. CommunityTypeOK'
  <2>1. communityFaults' \in 0..MaxCommunityFaults
    BY CommunityAssumption DEF CommunityInv, CommunityTypeOK, LoseJob
  <2> QED
    BY <2>1 DEF CommunityInv, CommunityTypeOK, LoseJob, Close, assigning, graph, flags, Pending
<1>s. /\ summaryJob[j] \in Pending
      /\ \A x \in SummaryJobs : summaryJob'[x] = IF x = j THEN "done" ELSE summaryJob[x]
      /\ \A x \in SummaryJobs : x # j => jobOf'[x] = jobOf[x] /\ membersRead'[x] = membersRead[x]
      /\ UNCHANGED <<detection, about, orphans, touched, unmarked, standing, members, memberCount, staleOnes, deferredOnes, summary, queuedTwice, overlooked>>
  BY <1>y DEF LoseJob, Close, assigning, graph, flags, jobs, CommunityInv, CommunityTypeOK
<1>f. crossed' <=> crossed
  BY DEF LoseJob, assigning
<1>1. Created'
  BY <1>s, <1>c1 DEF Created
<1>2. NoGhosts'
  BY <1>s, <1>c2 DEF NoGhosts
<1>3. Unlinked'
  BY <1>s, <1>c3 DEF Unlinked, Summarising
<1>4. ReadsAll'
  BY <1>s, <1>c4 DEF ReadsAll
<1>5. JobsAreApart'
  BY <1>s, <1>c5 DEF JobsAreApart, Pending
<1>6. JobsAreDue'
  BY <1>s, <1>c6 DEF JobsAreDue, Pending
<1>7. FreshCoversMembers'
  BY <1>s, <1>c7 DEF FreshCoversMembers
<1>8. DeferredIsStale'
  BY <1>s, <1>c8 DEF DeferredIsStale
<1>9. MemberCountHonest'
  BY <1>s, <1>c9, <1>f DEF MemberCountHonest, Busy
<1>10. ~crossed' => OneContent'
  BY <1>s, <1>c10, <1>f DEF OneContent, Busy
<1>11. ~crossed' => Counted'
  BY <1>s, <1>c11, <1>f DEF Counted
<1> QED
  BY <1>t, <1>1, <1>2, <1>3, <1>4, <1>5, <1>6, <1>7, <1>8, <1>9, <1>10, <1>11 DEF CommunityInv

LEMMA ClearPendingCreditsKeeps ==
  ASSUME CommunityInv, NEW S \in SUBSET deferredOnes, ClearPendingCredits(S)
  PROVE  CommunityInv'
<1>c1. Created
  BY DEF CommunityInv
<1>c2. NoGhosts
  BY DEF CommunityInv
<1>c3. Unlinked
  BY DEF CommunityInv
<1>c4. ReadsAll
  BY DEF CommunityInv
<1>c5. JobsAreApart
  BY DEF CommunityInv
<1>c6. JobsAreDue
  BY DEF CommunityInv
<1>c7. FreshCoversMembers
  BY DEF CommunityInv
<1>c8. DeferredIsStale
  BY DEF CommunityInv
<1>c9. MemberCountHonest
  BY DEF CommunityInv
<1>c10. ~crossed => OneContent
  BY DEF CommunityInv
<1>c11. ~crossed => Counted
  BY DEF CommunityInv
<1>y. /\ detection \in [Ingested -> Busy \cup {"new", "done"}]
      /\ orphans \in [Ingested -> SUBSET Concepts] /\ touched \in [Ingested -> SUBSET Ingested]
      /\ standing \subseteq Ingested /\ members \in [Ingested -> SUBSET Concepts]
      /\ memberCount \in [Ingested -> Int]
      /\ summaryJob \in [SummaryJobs -> Pending \cup {"none", "done"}]
      /\ jobOf \in [SummaryJobs -> Ingested \cup {NoCommunity}]
  BY DEF CommunityInv, CommunityTypeOK
<1>t. CommunityTypeOK'
  BY CommunityAssumption DEF CommunityInv, CommunityTypeOK, ClearPendingCredits, assigning, graph, flags, jobs, Busy, Pending
<1>s. /\ deferredOnes' = deferredOnes \ S
      /\ UNCHANGED <<detection, about, orphans, touched, unmarked, standing, members, memberCount, staleOnes, summary, summaryJob, jobOf, membersRead, queuedTwice, overlooked>>
  BY <1>y DEF ClearPendingCredits, assigning, graph, flags, jobs, CommunityInv, CommunityTypeOK
<1>f. crossed' <=> crossed
  BY DEF ClearPendingCredits, assigning
<1>1. Created'
  BY <1>s, <1>c1 DEF Created
<1>2. NoGhosts'
  BY <1>s, <1>c2 DEF NoGhosts
<1>3. Unlinked'
  BY <1>s, <1>c3 DEF Unlinked, Summarising
<1>4. ReadsAll'
  BY <1>s, <1>c4 DEF ReadsAll
<1>5. JobsAreApart'
  BY <1>s, <1>c5 DEF JobsAreApart, Pending
<1>6. JobsAreDue'
  BY <1>s, <1>c6 DEF JobsAreDue, Pending
<1>7. FreshCoversMembers'
  BY <1>s, <1>c7 DEF FreshCoversMembers
<1>8. DeferredIsStale'
  BY <1>s, <1>c8 DEF DeferredIsStale
<1>9. MemberCountHonest'
  BY <1>s, <1>c9, <1>f DEF MemberCountHonest, Busy
<1>10. ~crossed' => OneContent'
  BY <1>s, <1>c10, <1>f DEF OneContent, Busy
<1>11. ~crossed' => Counted'
  BY <1>s, <1>c11, <1>f DEF Counted
<1> QED
  BY <1>t, <1>1, <1>2, <1>3, <1>4, <1>5, <1>6, <1>7, <1>8, <1>9, <1>10, <1>11 DEF CommunityInv

LEMMA CommunityBegins ==
  ASSUME CommunityInit
  PROVE  CommunityInv
<1>0. 0 \in 0..MaxCommunityFaults /\ 0 \in Int
  BY CommunityAssumption
<1>1. CommunityTypeOK
  BY <1>0 DEF CommunityInit, CommunityTypeOK
<1>2. Created /\ FreshCoversMembers /\ DeferredIsStale
  BY DEF CommunityInit, Created, FreshCoversMembers, DeferredIsStale
<1>3. NoGhosts /\ Unlinked
  BY DEF CommunityInit, NoGhosts, Unlinked, Summarising
<1>4. ReadsAll
  BY DEF CommunityInit, ReadsAll
<1>5. JobsAreApart /\ JobsAreDue
  BY DEF CommunityInit, JobsAreApart, JobsAreDue, Pending
<1>6. MemberCountHonest
  BY DEF CommunityInit, MemberCountHonest
<1>7. OneContent /\ Counted
  BY DEF CommunityInit, OneContent, Counted, Busy
<1> QED
  BY <1>1, <1>2, <1>3, <1>4, <1>5, <1>6, <1>7 DEF CommunityInv

LEMMA CommunityRests ==
  ASSUME CommunityInv, UNCHANGED communityVars
  PROVE  CommunityInv'
<1>1. CommunityTypeOK'
  BY DEF CommunityInv, CommunityTypeOK, communityVars, assigning, graph, flags, jobs
<1>2. Created' /\ NoGhosts' /\ Unlinked'
  BY DEF CommunityInv, Created, NoGhosts, Unlinked, Summarising, communityVars, assigning, graph, flags, jobs
<1>3. ReadsAll' /\ JobsAreApart' /\ JobsAreDue'
  BY DEF CommunityInv, ReadsAll, JobsAreApart, JobsAreDue, communityVars, assigning, graph, flags, jobs
<1>4. FreshCoversMembers' /\ DeferredIsStale'
  BY DEF CommunityInv, FreshCoversMembers, DeferredIsStale, communityVars, assigning, graph, flags, jobs
<1>5. crossed' <=> crossed
  BY DEF communityVars, assigning
<1>6. MemberCountHonest'
  BY <1>5 DEF CommunityInv, MemberCountHonest, communityVars, assigning, graph, flags, jobs
<1>7. ~crossed' => OneContent' /\ Counted'
  BY <1>5 DEF CommunityInv, OneContent, Counted, communityVars, assigning, graph, flags, jobs
<1> QED
  BY <1>1, <1>2, <1>3, <1>4, <1>6, <1>7 DEF CommunityInv

LEMMA CommunityGoesOn ==
  ASSUME CommunityInv, [CommunityNext]_communityVars
  PROVE  CommunityInv'
<1>1. ASSUME NEW d \in Ingested, DetectionStep(d)
      PROVE  CommunityInv'
  BY <1>1, CountCommunitiesKeeps, CreateCommunityKeeps, DeleteCommunitiesKeeps, FindNoneKeeps,
     LinkMembersKeeps, WriteCountKeeps DEF DetectionStep
<1>2. ASSUME NEW d \in Ingested, AssignmentStep(d)
      PROVE  CommunityInv'
  BY <1>2, AssignConceptKeeps, LeaveOrphanKeeps, MarkAsStaleKeeps, ContentFailsKeeps DEF AssignmentStep
<1>3. ASSUME NEW j \in SummaryJobs, SummaryStep(j)
      PROVE  CommunityInv'
  BY <1>3, ListStaleKeeps, QueueSummaryKeeps, DeferSummaryKeeps, GatherMembersKeeps,
     UpdateSummaryKeeps, LoseJobKeeps DEF SummaryStep
<1> QED
  BY <1>1, <1>2, <1>3, ClearPendingCreditsKeeps, CommunityRests, Zenon DEF CommunityNext

\* Whatever contents are ingested, together or one after the other, and
\* whatever jobs, approvals and failures come between: a summary that passes
\* for fresh covers the members of its community, a deferred community is due
\* again and is not queued before its approval, and the counted members are
\* the members, up to the exceptions the property names.
THEOREM CommunitiesKept == CommunitySpec => []CommunitiesSound
<1>1. CommunityInit => CommunityInv
  BY CommunityBegins
<1>2. CommunityInv /\ [CommunityNext]_communityVars => CommunityInv'
  BY CommunityGoesOn
<1>3. CommunityInv => CommunitiesSound
  <2>1. CommunityInv => DeferredIsLeftAlone
    BY DEF CommunityInv, JobsAreDue, DeferredIsLeftAlone, Pending
  <2> QED
    BY <2>1 DEF CommunityInv, CommunitiesSound
<1> QED
  BY <1>1, <1>2, <1>3, PTL DEF CommunitySpec

-----------------------------------------------------------------------------
(* The walk of the contextualiser.  Its supersteps are bounded by its calls *)
(* (StepsFit): a round through the neighbours, their facts and the chunks   *)
(* picked from them takes three steps and two calls, and a round without a  *)
(* call is the last.                                                        *)

\* The budget is two calls at least, and LangGraph allows a run the supersteps it
\* takes to spend it: every round of the walk has two calls and three steps.
BudgetsFit == 2 <= MaxCalls /\ 3 * MaxCalls + 4 <= 2 * RecursionLimit

Searching == {"key_concepts", "atomic_facts", "neighbouring_nodes", "chunks"}

\* What the step before has called, and that the budget is not spent while the
\* walk goes on.
CallsFit ==
  /\ node = "question_refiner" => llmCalls = 0 /\ steps = 0
  /\ node = "rational_plan" => llmCalls <= 1 /\ steps = llmCalls
  /\ node = "chunk_vector" => llmCalls \in 1..2 /\ steps = llmCalls /\ nextStep = "key_concepts"
  /\ node \in Searching => llmCalls < MaxCalls

\* Twice the steps and three times the calls, by the node the walk is at.
StepsFit ==
  /\ node \in {"key_concepts", "neighbouring_nodes"} => 2 * steps <= 3 * llmCalls + 1
  /\ node = "atomic_facts" => 2 * steps <= 3 * llmCalls + 3
  /\ node = "atomic_facts" /\ queuedConcepts # {} => 2 * steps <= 3 * llmCalls
  /\ node = "chunks" => 2 * steps + 1 <= 3 * llmCalls
  /\ node = "answer" => 2 * steps <= 3 * MaxCalls + 2
  /\ node \in {"end", "thrown"} => 2 * steps <= 3 * MaxCalls + 4

\* What the model picked has been read or waits to be, before the chunks are read
\* or once the budget is spent.
ChunksFit ==
  /\ selected \subseteq processedChunks \cup queuedChunks
  /\ queuedChunks # {} => node \in {"chunks", "thrown"} \/ llmCalls >= MaxCalls

WalkInv == WalkTypeOK /\ BudgetKept /\ CallsFit /\ StepsFit /\ ChunksFit

LEMMA RankSteps ==
  ASSUME NEW s \in Nat, NEW c \in Nat, NEW m \in Nat, NEW d \in {c, c + 1}, 2 * s <= 3 * c + 1, c < m
  PROVE  /\ 2 * (s + 1) <= 3 * d + 3 /\ 2 * (s + 1) <= 3 * m + 2
         /\ d = c + 1 => 2 * (s + 1) <= 3 * d
OBVIOUS

LEMMA ReadSteps ==
  ASSUME NEW s \in Nat, NEW c \in Nat, NEW m \in Nat, NEW d \in Nat, c + 1 <= d, 2 * s <= 3 * c, c < m
  PROVE  2 * (s + 1) + 1 <= 3 * d /\ 2 * (s + 1) <= 3 * m + 2 /\ 2 * (s + 1) <= 3 * d + 1
OBVIOUS

LEMMA RefineQuestionKeeps ==
  ASSUME WalkInv, BudgetsFit, RefineQuestion
  PROVE  WalkInv'
<1>y. /\ llmCalls \in Nat /\ steps \in Nat /\ MaxCalls \in Nat /\ MaxBatches \in Nat /\ 1 <= MaxBatches
      /\ node \in Nodes /\ nextStep \in Nodes /\ explored \in BOOLEAN
  BY WalkAssumption DEF WalkInv, WalkTypeOK
<1>b. 2 <= MaxCalls
  BY DEF BudgetsFit
<1>c. CallsFit
  BY DEF WalkInv
<1>d. StepsFit
  BY DEF WalkInv
<1>e. ChunksFit
  BY DEF WalkInv
<1>s. /\ node = "question_refiner" /\ node' = "rational_plan"
      /\ steps' = steps + 1 /\ llmCalls' = llmCalls + 1
      /\ UNCHANGED <<queuedChunks, processedChunks, selected>>
  BY DEF RefineQuestion, Leaves, Routed, concepts, chunks, WithoutFacts
<1>1. WalkTypeOK'
  BY <1>y, <1>s DEF WalkInv, WalkTypeOK, Nodes, RefineQuestion, Leaves, concepts, chunks
<1>2. BudgetKept'
  BY <1>s, <1>y, <1>b, <1>c DEF WalkInv, BudgetKept, CallsFit, Searching
<1>3. CallsFit'
  BY <1>s, <1>y, <1>b, <1>c DEF CallsFit, Searching
<1>4. StepsFit'
  BY <1>s, <1>y, <1>b, <1>c, <1>d DEF StepsFit, CallsFit, Searching
<1>5. ChunksFit'
  BY <1>s, <1>y, <1>c, <1>e DEF ChunksFit, CallsFit, Searching
<1> QED
  BY <1>1, <1>2, <1>3, <1>4, <1>5 DEF WalkInv

LEMMA PlanKeeps ==
  ASSUME WalkInv, BudgetsFit, Plan
  PROVE  WalkInv'
<1>y. /\ llmCalls \in Nat /\ steps \in Nat /\ MaxCalls \in Nat /\ MaxBatches \in Nat /\ 1 <= MaxBatches
      /\ node \in Nodes /\ nextStep \in Nodes /\ explored \in BOOLEAN
  BY WalkAssumption DEF WalkInv, WalkTypeOK
<1>b. 2 <= MaxCalls
  BY DEF BudgetsFit
<1>c. CallsFit
  BY DEF WalkInv
<1>d. StepsFit
  BY DEF WalkInv
<1>e. ChunksFit
  BY DEF WalkInv
<1>s. /\ node = "rational_plan" /\ node' = "chunk_vector" /\ nextStep' = "key_concepts"
      /\ steps' = steps + 1 /\ llmCalls' = llmCalls + 1
      /\ UNCHANGED <<queuedChunks, processedChunks, selected>>
  BY DEF Plan, Leaves, Routed, concepts, chunks, WithoutFacts
<1>1. WalkTypeOK'
  BY <1>y, <1>s DEF WalkInv, WalkTypeOK, Nodes, Plan, Leaves, concepts, chunks
<1>2. BudgetKept'
  BY <1>s, <1>y, <1>b, <1>c DEF WalkInv, BudgetKept, CallsFit, Searching
<1>3. CallsFit'
  BY <1>s, <1>y, <1>b, <1>c DEF CallsFit, Searching
<1>4. StepsFit'
  BY <1>s, <1>y, <1>b, <1>c, <1>d DEF StepsFit, CallsFit, Searching
<1>5. ChunksFit'
  BY <1>s, <1>y, <1>c, <1>e DEF ChunksFit, CallsFit, Searching
<1> QED
  BY <1>1, <1>2, <1>3, <1>4, <1>5 DEF WalkInv

LEMMA SearchChunksKeeps ==
  ASSUME WalkInv, BudgetsFit, SearchChunks
  PROVE  WalkInv'
<1>y. /\ llmCalls \in Nat /\ steps \in Nat /\ MaxCalls \in Nat /\ MaxBatches \in Nat /\ 1 <= MaxBatches
      /\ node \in Nodes /\ nextStep \in Nodes /\ explored \in BOOLEAN
  BY WalkAssumption DEF WalkInv, WalkTypeOK
<1>b. 2 <= MaxCalls
  BY DEF BudgetsFit
<1>c. CallsFit
  BY DEF WalkInv
<1>d. StepsFit
  BY DEF WalkInv
<1>e. ChunksFit
  BY DEF WalkInv
<1>s. /\ node = "chunk_vector" /\ nextStep = "key_concepts"
      /\ node' = (IF llmCalls >= MaxCalls THEN "answer" ELSE "key_concepts")
      /\ steps' = steps + 1 /\ llmCalls' = llmCalls /\ nextStep' = nextStep
      /\ processedChunks \subseteq processedChunks' /\ UNCHANGED <<queuedChunks, selected>>
  <2>1. node = "chunk_vector" /\ nextStep = "key_concepts"
    BY <1>c DEF SearchChunks, CallsFit
  <2>2. llmCalls + 0 = llmCalls
    BY <1>y
  <2> QED
    BY <2>1, <2>2 DEF SearchChunks, Leaves, Routed
<1>1. WalkTypeOK'
  BY <1>y, <1>s DEF WalkInv, WalkTypeOK, Nodes, SearchChunks, Leaves, concepts, chunks
<1>2. BudgetKept'
  BY <1>s, <1>y, <1>b, <1>c DEF WalkInv, BudgetKept, CallsFit, Searching
<1>3. CallsFit'
  BY <1>s, <1>y, <1>b, <1>c DEF CallsFit, Searching
<1>4. StepsFit'
  BY <1>s, <1>y, <1>b, <1>c, <1>d DEF StepsFit, CallsFit, Searching
<1>5. ChunksFit'
  BY <1>s, <1>y, <1>c, <1>e DEF ChunksFit, CallsFit, Searching
<1> QED
  BY <1>1, <1>2, <1>3, <1>4, <1>5 DEF WalkInv

LEMMA RankConceptsKeeps ==
  ASSUME WalkInv, BudgetsFit, RankConcepts
  PROVE  WalkInv'
<1>y. /\ llmCalls \in Nat /\ steps \in Nat /\ MaxCalls \in Nat /\ MaxBatches \in Nat /\ 1 <= MaxBatches
      /\ node \in Nodes /\ nextStep \in Nodes /\ explored \in BOOLEAN
  BY WalkAssumption DEF WalkInv, WalkTypeOK
<1>b. 2 <= MaxCalls
  BY DEF BudgetsFit
<1>c. CallsFit
  BY DEF WalkInv
<1>d. StepsFit
  BY DEF WalkInv
<1>e. ChunksFit
  BY DEF WalkInv
<1>s. /\ node \in {"key_concepts", "neighbouring_nodes"}
      /\ node' = (IF llmCalls' >= MaxCalls THEN "answer" ELSE "atomic_facts")
      /\ steps' = steps + 1 /\ llmCalls' \in {llmCalls, llmCalls + 1}
      /\ queuedConcepts' # {} => llmCalls' = llmCalls + 1
      /\ nextStep' \in {"answer", "atomic_facts"} /\ explored' \in BOOLEAN /\ queuedConcepts' \subseteq KeyConcepts
      /\ UNCHANGED <<queuedChunks, processedChunks, selected>>
  <2>1. PICK found \in Candidates :
          LET usable == found \ processedConcepts
          IN /\ Leaves(RankingCalls(usable), IF usable = {} THEN "answer" ELSE "atomic_facts")
             /\ explored' = (explored \/ (usable = {} /\ nextStep = "neighbouring_nodes"))
             /\ \E picked \in SUBSET usable :
                  queuedConcepts' = IF picked = {} THEN {} ELSE queuedConcepts \cup picked
    BY DEF RankConcepts
  <2> DEFINE usable == found \ processedConcepts
  <2>2. usable \subseteq KeyConcepts /\ queuedConcepts \subseteq KeyConcepts
    BY DEF Candidates, WalkInv, WalkTypeOK
  <2>3. PICK picked \in SUBSET usable :
          queuedConcepts' = IF picked = {} THEN {} ELSE queuedConcepts \cup picked
    BY <2>1
  <2>4. explored' \in BOOLEAN
    BY <1>y, <2>1
  <2>5. /\ steps' = steps + 1 /\ llmCalls' = llmCalls + RankingCalls(usable)
        /\ nextStep' \in {"answer", "atomic_facts"}
    BY <2>1 DEF Leaves
  <2>6. llmCalls' \in {llmCalls, llmCalls + 1} /\ (usable # {} => llmCalls' = llmCalls + 1)
    BY <1>y, <2>5 DEF RankingCalls
  <2> QED
    BY <2>2, <2>3, <2>4, <2>5, <2>6 DEF RankConcepts, Routed, chunks
<1>1. WalkTypeOK'
  BY <1>y, <1>s DEF WalkInv, WalkTypeOK, Nodes, RankConcepts, Leaves
<1>2. BudgetKept'
  BY <1>s, <1>y, <1>b, <1>c DEF WalkInv, BudgetKept, CallsFit, Searching
<1>3. CallsFit'
  BY <1>s, <1>y, <1>b, <1>c DEF CallsFit, Searching
<1>4. StepsFit'
  <2>1. 2 * steps <= 3 * llmCalls + 1 /\ llmCalls < MaxCalls
    BY <1>s, <1>c, <1>d DEF StepsFit, CallsFit, Searching
  <2>2. steps' = steps + 1 /\ llmCalls' \in {llmCalls, llmCalls + 1}
    BY <1>s
  <2>3. /\ 2 * steps' <= 3 * llmCalls' + 3 /\ 2 * steps' <= 3 * MaxCalls + 2
        /\ llmCalls' = llmCalls + 1 => 2 * steps' <= 3 * llmCalls'
    BY <1>y, <2>1, <2>2, RankSteps
  <2>4. queuedConcepts' # {} => 2 * steps' <= 3 * llmCalls'
    BY <1>s, <2>3
  <2> QED
    BY <1>s, <2>3, <2>4 DEF StepsFit
<1>5. ChunksFit'
  BY <1>s, <1>y, <1>c, <1>e DEF ChunksFit, CallsFit, Searching
<1> QED
  BY <1>1, <1>2, <1>3, <1>4, <1>5 DEF WalkInv

LEMMA NothingToReadKeeps ==
  ASSUME WalkInv, BudgetsFit, NothingToRead
  PROVE  WalkInv'
<1>y. /\ llmCalls \in Nat /\ steps \in Nat /\ MaxCalls \in Nat /\ MaxBatches \in Nat /\ 1 <= MaxBatches
      /\ node \in Nodes /\ nextStep \in Nodes /\ explored \in BOOLEAN
  BY WalkAssumption DEF WalkInv, WalkTypeOK
<1>b. 2 <= MaxCalls
  BY DEF BudgetsFit
<1>c. CallsFit
  BY DEF WalkInv
<1>d. StepsFit
  BY DEF WalkInv
<1>e. ChunksFit
  BY DEF WalkInv
<1>s. /\ node = "atomic_facts" /\ node' = "answer" /\ llmCalls < MaxCalls /\ queuedChunks = {}
      /\ steps' = steps + 1 /\ llmCalls' = llmCalls /\ nextStep' = "answer"
      /\ UNCHANGED <<queuedChunks, processedChunks, selected>>
  <2>1. node = "atomic_facts" /\ llmCalls < MaxCalls /\ queuedChunks = {}
    BY <1>y, <1>c, <1>e DEF NothingToRead, CallsFit, ChunksFit, Searching
  <2>2. llmCalls + 0 = llmCalls /\ WithoutFacts = "answer"
    BY <1>y, <2>1 DEF WithoutFacts
  <2> QED
    BY <2>1, <2>2 DEF NothingToRead, Leaves, Routed, chunks
<1>1. WalkTypeOK'
  BY <1>y, <1>s DEF WalkInv, WalkTypeOK, Nodes, NothingToRead, Leaves, concepts, chunks
<1>2. BudgetKept'
  BY <1>s, <1>y, <1>b, <1>c DEF WalkInv, BudgetKept, CallsFit, Searching
<1>3. CallsFit'
  BY <1>s, <1>y, <1>b, <1>c DEF CallsFit, Searching
<1>4. StepsFit'
  BY <1>s, <1>y, <1>b, <1>c, <1>d DEF StepsFit, CallsFit, Searching
<1>5. ChunksFit'
  BY <1>s, <1>y, <1>c, <1>e DEF ChunksFit, CallsFit, Searching
<1> QED
  BY <1>1, <1>2, <1>3, <1>4, <1>5 DEF WalkInv

LEMMA EveryBatchFailsKeeps ==
  ASSUME WalkInv, BudgetsFit, EveryBatchFails
  PROVE  WalkInv'
<1>y. /\ llmCalls \in Nat /\ steps \in Nat /\ MaxCalls \in Nat /\ MaxBatches \in Nat /\ 1 <= MaxBatches
      /\ node \in Nodes /\ nextStep \in Nodes /\ explored \in BOOLEAN
  BY WalkAssumption DEF WalkInv, WalkTypeOK
<1>b. 2 <= MaxCalls
  BY DEF BudgetsFit
<1>c. CallsFit
  BY DEF WalkInv
<1>d. StepsFit
  BY DEF WalkInv
<1>e. ChunksFit
  BY DEF WalkInv
<1>s. /\ node = "atomic_facts" /\ node' = "answer" /\ llmCalls < MaxCalls /\ queuedChunks = {}
      /\ steps' = steps + 1 /\ nextStep' = "answer"
      /\ llmCalls' \in Nat /\ llmCalls + 1 <= llmCalls' /\ llmCalls' <= llmCalls + MaxBatches
      /\ UNCHANGED <<queuedChunks, processedChunks, selected>>
  <2>1. node = "atomic_facts" /\ llmCalls < MaxCalls /\ queuedChunks = {}
    BY <1>y, <1>c, <1>e DEF EveryBatchFails, CallsFit, ChunksFit, Searching
  <2>2. WithoutFacts = "answer"
    BY <2>1 DEF WithoutFacts
  <2>3. PICK n \in 1..MaxBatches : Leaves(n, "answer")
    BY <2>2 DEF EveryBatchFails
  <2>4. llmCalls' = llmCalls + n /\ steps' = steps + 1 /\ nextStep' = "answer"
    BY <2>3 DEF Leaves
  <2>5. node' = "answer"
    BY <2>2 DEF EveryBatchFails, Routed
  <2> QED
    BY <1>y, <2>1, <2>4, <2>5 DEF EveryBatchFails, chunks
<1>1. WalkTypeOK'
  BY <1>y, <1>s DEF WalkInv, WalkTypeOK, Nodes, EveryBatchFails, Leaves, concepts, chunks
<1>2. BudgetKept'
  BY <1>s, <1>y, <1>b, <1>c DEF WalkInv, BudgetKept, CallsFit, Searching
<1>3. CallsFit'
  BY <1>s, <1>y, <1>b, <1>c DEF CallsFit, Searching
<1>4. StepsFit'
  BY <1>s, <1>y, <1>b, <1>c, <1>d DEF StepsFit, CallsFit, Searching
<1>5. ChunksFit'
  BY <1>s, <1>y, <1>c, <1>e DEF ChunksFit, CallsFit, Searching
<1> QED
  BY <1>1, <1>2, <1>3, <1>4, <1>5 DEF WalkInv

LEMMA ReadFactsKeeps ==
  ASSUME WalkInv, BudgetsFit, ReadFacts
  PROVE  WalkInv'
<1>y. /\ llmCalls \in Nat /\ steps \in Nat /\ MaxCalls \in Nat /\ MaxBatches \in Nat /\ 1 <= MaxBatches
      /\ node \in Nodes /\ nextStep \in Nodes /\ explored \in BOOLEAN
  BY WalkAssumption DEF WalkInv, WalkTypeOK
<1>b. 2 <= MaxCalls
  BY DEF BudgetsFit
<1>c. CallsFit
  BY DEF WalkInv
<1>d. StepsFit
  BY DEF WalkInv
<1>e. ChunksFit
  BY DEF WalkInv
<1>s. /\ node = "atomic_facts" /\ llmCalls < MaxCalls /\ queuedChunks = {} /\ queuedConcepts # {}
      /\ node' \in {"answer", "chunks", "neighbouring_nodes"}
      /\ llmCalls' >= MaxCalls => node' = "answer"
      /\ queuedChunks' # {} /\ llmCalls' < MaxCalls => node' = "chunks"
      /\ steps' = steps + 1 /\ nextStep' \in {"answer", "chunks", "neighbouring_nodes"}
      /\ llmCalls' \in Nat /\ llmCalls + 1 <= llmCalls' /\ llmCalls' <= llmCalls + MaxBatches
      /\ queuedChunks' \subseteq Texts \cup {MadeUp} /\ selected' = selected \cup (queuedChunks' \ {MadeUp})
      /\ processedConcepts' \subseteq KeyConcepts /\ processedFacts' \subseteq Facts
      /\ UNCHANGED processedChunks
  <2>1. node = "atomic_facts" /\ llmCalls < MaxCalls /\ queuedChunks = {}
    BY <1>y, <1>c, <1>e DEF ReadFacts, CallsFit, ChunksFit, Searching
  <2>2. PICK facts \in SUBSET FactsOf(Fresh), answered \in 1..MaxBatches :
          \E named \in SUBSET ({f[2] : f \in facts} \cup {MadeUp}) :
            LET picked == named \ processedChunks
            IN /\ facts # {}
               /\ Leaves(answered, AfterFacts(picked)) /\ Routed(AfterFacts(picked))
               /\ queuedChunks' = picked /\ selected' = selected \cup (picked \ {MadeUp})
               /\ processedConcepts' = Fresh /\ processedFacts' = facts
    BY DEF ReadFacts
  <2>3. PICK named \in SUBSET ({f[2] : f \in facts} \cup {MadeUp}) :
            /\ facts # {}
            /\ Leaves(answered, AfterFacts(named \ processedChunks))
            /\ Routed(AfterFacts(named \ processedChunks))
            /\ queuedChunks' = named \ processedChunks
            /\ selected' = selected \cup ((named \ processedChunks) \ {MadeUp})
            /\ processedConcepts' = Fresh /\ processedFacts' = facts
    BY <2>2
  <2>4. facts \subseteq Facts /\ Fresh \subseteq KeyConcepts /\ Fresh \subseteq queuedConcepts /\ Fresh # {}
    BY <2>3 DEF FactsOf, Fresh, WalkInv, WalkTypeOK
  <2>5. \A f \in Facts : f[2] \in Texts
    BY DEF Facts
  <2>6. queuedChunks' \subseteq Texts \cup {MadeUp}
    BY <2>3, <2>4, <2>5
  <2>7. /\ AfterFacts(named \ processedChunks) \in {"answer", "chunks", "neighbouring_nodes"}
        /\ queuedChunks' # {} => AfterFacts(named \ processedChunks) = "chunks"
    BY <2>3 DEF AfterFacts
  <2>8. /\ steps' = steps + 1 /\ llmCalls' = llmCalls + answered
        /\ nextStep' = AfterFacts(named \ processedChunks)
        /\ node' = (IF llmCalls' >= MaxCalls THEN "answer" ELSE AfterFacts(named \ processedChunks))
    BY <2>3 DEF Leaves, Routed
  <2>9. llmCalls' \in Nat /\ llmCalls + 1 <= llmCalls' /\ llmCalls' <= llmCalls + MaxBatches
    BY <1>y, <2>8
  <2>10. UNCHANGED processedChunks
    BY DEF ReadFacts
  <2> QED
    BY <1>y, <2>1, <2>3, <2>4, <2>6, <2>7, <2>8, <2>9, <2>10
<1>1. WalkTypeOK'
  <2>1. selected' \subseteq Texts
    BY <1>s DEF WalkInv, WalkTypeOK
  <2> QED
    BY <1>y, <1>s, <2>1 DEF WalkInv, WalkTypeOK, Nodes, ReadFacts, Leaves
<1>2. BudgetKept'
  BY <1>s, <1>y, <1>b, <1>c DEF WalkInv, BudgetKept, CallsFit, Searching
<1>3. CallsFit'
  BY <1>s, <1>y, <1>b, <1>c DEF CallsFit, Searching
<1>4. StepsFit'
  <2>1. 2 * steps <= 3 * llmCalls /\ llmCalls < MaxCalls
    BY <1>s, <1>c, <1>d DEF StepsFit, CallsFit, Searching
  <2>2. steps' = steps + 1 /\ llmCalls' \in Nat /\ llmCalls + 1 <= llmCalls'
    BY <1>s
  <2>3. /\ 2 * steps' + 1 <= 3 * llmCalls' /\ 2 * steps' <= 3 * MaxCalls + 2
        /\ 2 * steps' <= 3 * llmCalls' + 1
    BY <1>y, <2>1, <2>2, ReadSteps
  <2> QED
    BY <1>s, <2>3 DEF StepsFit
<1>5. ChunksFit'
  BY <1>s, <1>y, <1>c, <1>e DEF ChunksFit, CallsFit, Searching
<1> QED
  BY <1>1, <1>2, <1>3, <1>4, <1>5 DEF WalkInv

LEMMA ReadChunksKeeps ==
  ASSUME WalkInv, BudgetsFit, ReadChunks
  PROVE  WalkInv'
<1>y. /\ llmCalls \in Nat /\ steps \in Nat /\ MaxCalls \in Nat /\ MaxBatches \in Nat /\ 1 <= MaxBatches
      /\ node \in Nodes /\ nextStep \in Nodes /\ explored \in BOOLEAN
  BY WalkAssumption DEF WalkInv, WalkTypeOK
<1>b. 2 <= MaxCalls
  BY DEF BudgetsFit
<1>c. CallsFit
  BY DEF WalkInv
<1>d. StepsFit
  BY DEF WalkInv
<1>e. ChunksFit
  BY DEF WalkInv
<1>s. /\ node = "chunks" /\ node' \in {"answer", "neighbouring_nodes"}
      /\ llmCalls' >= MaxCalls => node' = "answer"
      /\ steps' = steps + 1 /\ llmCalls' = llmCalls /\ nextStep' \in {"answer", "neighbouring_nodes"}
      /\ processedChunks' = processedChunks \cup (queuedChunks \cap Texts) /\ queuedChunks' = {}
      /\ selected' = selected /\ selected \subseteq Texts
  <2>1. llmCalls + 0 = llmCalls
    BY <1>y
  <2>2. selected \subseteq Texts
    BY DEF WalkInv, WalkTypeOK
  <2> QED
    BY <2>1, <2>2 DEF ReadChunks, Leaves, Routed
<1>1. WalkTypeOK'
  BY <1>y, <1>s DEF WalkInv, WalkTypeOK, Nodes, ReadChunks, Leaves, concepts, chunks
<1>2. BudgetKept'
  BY <1>s, <1>y, <1>b, <1>c DEF WalkInv, BudgetKept, CallsFit, Searching
<1>3. CallsFit'
  BY <1>s, <1>y, <1>b, <1>c DEF CallsFit, Searching
<1>4. StepsFit'
  BY <1>s, <1>y, <1>b, <1>c, <1>d DEF StepsFit, CallsFit, Searching
<1>5. ChunksFit'
  BY <1>s, <1>y, <1>c, <1>e DEF ChunksFit, CallsFit, Searching
<1> QED
  BY <1>1, <1>2, <1>3, <1>4, <1>5 DEF WalkInv

LEMMA FinishKeeps ==
  ASSUME WalkInv, BudgetsFit, Finish
  PROVE  WalkInv'
<1>y. /\ llmCalls \in Nat /\ steps \in Nat /\ MaxCalls \in Nat /\ MaxBatches \in Nat /\ 1 <= MaxBatches
      /\ node \in Nodes /\ nextStep \in Nodes /\ explored \in BOOLEAN
  BY WalkAssumption DEF WalkInv, WalkTypeOK
<1>b. 2 <= MaxCalls
  BY DEF BudgetsFit
<1>c. CallsFit
  BY DEF WalkInv
<1>d. StepsFit
  BY DEF WalkInv
<1>e. ChunksFit
  BY DEF WalkInv
<1>s. /\ node = "answer" /\ node' = "end"
      /\ steps' = steps + 1 /\ llmCalls' = llmCalls /\ nextStep' = nextStep
      /\ UNCHANGED <<queuedChunks, processedChunks, selected>>
  <2>1. llmCalls + 0 = llmCalls
    BY <1>y
  <2> QED
    BY <2>1 DEF Finish, Leaves, chunks
<1>1. WalkTypeOK'
  BY <1>y, <1>s DEF WalkInv, WalkTypeOK, Nodes, Finish, Leaves, concepts, chunks
<1>2. BudgetKept'
  BY <1>s, <1>y, <1>b, <1>c DEF WalkInv, BudgetKept, CallsFit, Searching
<1>3. CallsFit'
  BY <1>s, <1>y, <1>b, <1>c DEF CallsFit, Searching
<1>4. StepsFit'
  BY <1>s, <1>y, <1>b, <1>c, <1>d DEF StepsFit, CallsFit, Searching
<1>5. ChunksFit'
  BY <1>s, <1>y, <1>c, <1>e DEF ChunksFit, CallsFit, Searching
<1> QED
  BY <1>1, <1>2, <1>3, <1>4, <1>5 DEF WalkInv

LEMMA WalkThrowsKeeps ==
  ASSUME WalkInv, BudgetsFit, WalkThrows
  PROVE  WalkInv'
<1>y. /\ llmCalls \in Nat /\ steps \in Nat /\ MaxCalls \in Nat /\ MaxBatches \in Nat /\ 1 <= MaxBatches
      /\ node \in Nodes /\ nextStep \in Nodes /\ explored \in BOOLEAN
  BY WalkAssumption DEF WalkInv, WalkTypeOK
<1>b. 2 <= MaxCalls
  BY DEF BudgetsFit
<1>c. CallsFit
  BY DEF WalkInv
<1>d. StepsFit
  BY DEF WalkInv
<1>e. ChunksFit
  BY DEF WalkInv
<1>s. /\ node \notin {"answer", "end", "thrown"} /\ node' = "thrown"
      /\ UNCHANGED <<steps, llmCalls, nextStep>>
      /\ UNCHANGED <<queuedChunks, processedChunks, selected>>
  BY DEF WalkThrows, chunks
<1>1. WalkTypeOK'
  BY <1>y, <1>s DEF WalkInv, WalkTypeOK, Nodes, WalkThrows, concepts, chunks
<1>2. BudgetKept'
  BY <1>s, <1>y, <1>b, <1>c DEF WalkInv, BudgetKept, CallsFit, Searching
<1>3. CallsFit'
  BY <1>s, <1>y, <1>b, <1>c DEF CallsFit, Searching
<1>4. StepsFit'
  <2>1. node \in Searching => 2 * steps <= 3 * llmCalls + 3 /\ llmCalls < MaxCalls
    BY <1>y, <1>c, <1>d DEF StepsFit, CallsFit, Searching
  <2>2. node \notin Searching => steps <= 2
    BY <1>s, <1>y, <1>c DEF CallsFit, Searching, Nodes
  <2>3. 2 * steps <= 3 * MaxCalls + 4
    BY <1>y, <1>b, <2>1, <2>2
  <2> QED
    BY <1>s, <2>3 DEF StepsFit
<1>5. ChunksFit'
  BY <1>s, <1>y, <1>c, <1>e DEF ChunksFit, CallsFit, Searching
<1> QED
  BY <1>1, <1>2, <1>3, <1>4, <1>5 DEF WalkInv

LEMMA WalkBegins ==
  ASSUME WalkInit, BudgetsFit
  PROVE  WalkInv
<1>1. 0 \in Nat /\ MaxCalls \in Nat /\ MaxBatches \in Nat /\ 2 <= MaxCalls
  BY WalkAssumption DEF BudgetsFit
<1>2. WalkTypeOK
  BY DEF WalkInit, WalkTypeOK, Nodes
<1>3. BudgetKept
  BY <1>1 DEF WalkInit, BudgetKept
<1>4. CallsFit /\ StepsFit /\ ChunksFit
  BY <1>1 DEF WalkInit, CallsFit, StepsFit, ChunksFit, Searching
<1> QED
  BY <1>2, <1>3, <1>4 DEF WalkInv

LEMMA WalkRests ==
  ASSUME WalkInv, UNCHANGED walkVars
  PROVE  WalkInv'
<1>1. WalkTypeOK'
  BY DEF WalkInv, WalkTypeOK, walkVars
<1>2. BudgetKept' /\ CallsFit' /\ StepsFit' /\ ChunksFit'
  BY DEF WalkInv, BudgetKept, CallsFit, StepsFit, ChunksFit, walkVars
<1> QED
  BY <1>1, <1>2 DEF WalkInv

\* Whatever the model picks, and whatever is found: LangGraph does not cut the
\* walk off, its budget is exceeded by one node's batches at most, and what the
\* model picked is read before the answer.  The budget and the number of
\* supersteps must fit each other, as the code's 12 and 22 do.
THEOREM WalkKept ==
  ASSUME BudgetsFit
  PROVE  WalkSpec => []WalkSound
<1>1. WalkInit => WalkInv
  BY WalkBegins
<1>2. WalkInv /\ [WalkNext]_walkVars => WalkInv'
  BY RefineQuestionKeeps, PlanKeeps, SearchChunksKeeps, RankConceptsKeeps, NothingToReadKeeps,
     EveryBatchFailsKeeps, ReadFactsKeeps, ReadChunksKeeps, FinishKeeps, WalkThrowsKeeps,
     WalkRests, Zenon DEF WalkNext
<1>3. WalkInv => WalkSound
  <2> SUFFICES ASSUME WalkInv
               PROVE  WalkSound
    OBVIOUS
  <2>1. llmCalls \in Nat /\ steps \in Nat /\ MaxCalls \in Nat /\ RecursionLimit \in Nat /\ node \in Nodes
    BY WalkAssumption DEF WalkInv, WalkTypeOK
  <2>2. NeverCutOff
    BY <2>1 DEF WalkInv, CallsFit, StepsFit, Searching, Nodes, NeverCutOff, BudgetsFit
  <2>3. PickedIsRead
    BY <2>1 DEF WalkInv, ChunksFit, PickedIsRead
  <2> QED
    BY <2>2, <2>3 DEF WalkInv, WalkSound
<1> QED
  BY <1>1, <1>2, <1>3, PTL DEF WalkSpec

-----------------------------------------------------------------------------
(* Numbers in their order and places of a list (Sublists): the rank of a    *)
(* number counts those up to it, so ranks and numbers correspond one to     *)
(* one, and a sublist grows as its places do (Picked).                      *)

LEMMA RankCounts ==
  ASSUME NEW m \in Nat, NEW H, H \subseteq 1..m
  PROVE  /\ IsFiniteSet(H) /\ Cardinality(H) \in Nat /\ Cardinality(H) <= m
         /\ \A i \in H : Rank(H, i) \in 1..Cardinality(H)
         /\ \A i, k \in H : Rank(H, i) = Rank(H, k) => i = k
         /\ \A n \in 1..Cardinality(H) : \E i \in H : Rank(H, i) = n
<1>1. IsFiniteSet(1..m) /\ Cardinality(1..m) = m
  BY FS_Interval
<1>2. IsFiniteSet(H) /\ Cardinality(H) \in Nat /\ Cardinality(H) <= m
  BY <1>1, FS_Subset, FS_CardinalityType
<1>3. ASSUME NEW i \in H PROVE Rank(H, i) \in 1..Cardinality(H)
  <2>1. {j \in H : j <= i} \subseteq H /\ i \in {j \in H : j <= i}
    OBVIOUS
  <2>2. IsFiniteSet({j \in H : j <= i}) /\ Cardinality({j \in H : j <= i}) <= Cardinality(H)
    BY <1>2, <2>1, FS_Subset
  <2>3. Cardinality({j \in H : j <= i}) \in Nat /\ Cardinality({j \in H : j <= i}) # 0
    BY <2>1, <2>2, FS_CardinalityType, FS_EmptySet
  <2> QED
    BY <1>2, <2>2, <2>3 DEF Rank
<1>4. ASSUME NEW i \in H, NEW k \in H, i < k PROVE Rank(H, i) # Rank(H, k)
  <2> DEFINE A == {j \in H : j <= i}
             B == {j \in H : j <= k}
  <2>1. A \subseteq B /\ k \in B /\ k \notin A /\ B \subseteq H
    <3>1. \A j \in H : j \in Int
      OBVIOUS
    <3>2. i \in Int /\ k \in Int /\ i < k /\ k \in H
      BY <1>4, <3>1
    <3>3. \A j \in H : j <= i => j <= k
      BY <3>1, <3>2
    <3>4. ~(k <= i) /\ k <= k
      BY <3>2
    <3> QED
      BY <3>2, <3>3, <3>4, Zenon
  <2>2. IsFiniteSet(B)
    BY <1>2, <2>1, FS_Subset
  <2>3. Cardinality(A) # Cardinality(B)
    BY <2>1, <2>2, FS_Subset
  <2> QED
    BY <2>3 DEF Rank
<1>5. \A i, k \in H : Rank(H, i) = Rank(H, k) => i = k
  BY <1>4
<1>6. ASSUME NEW n \in 1..Cardinality(H) PROVE \E i \in H : Rank(H, i) = n
  <2> DEFINE f == [i \in H |-> Rank(H, i)]
  <2>1. f \in [H -> 1..Cardinality(H)]
    BY <1>3
  <2>2. f \in Injection(H, 1..Cardinality(H))
    BY <1>5, <2>1 DEF Injection, IsInjective
  <2>3. IsFiniteSet(1..Cardinality(H)) /\ Cardinality(1..Cardinality(H)) = Cardinality(H)
    BY <1>2, FS_Interval
  <2>4. f \in Surjection(H, 1..Cardinality(H))
    BY <1>2, <2>2, <2>3, FS_Injection
  <2> QED
    BY <2>4 DEF Surjection
<1> QED
  BY <1>2, <1>3, <1>5, <1>6

LEMMA RankGrows ==
  ASSUME NEW m \in Nat, NEW H, H \subseteq 1..m, NEW i \in H, NEW k \in H, i <= k
  PROVE  Rank(H, i) <= Rank(H, k)
<1> DEFINE A == {j \in H : j <= i}
           B == {j \in H : j <= k}
<1>1. \A j \in H : j \in Int
  OBVIOUS
<1>2. A \subseteq B /\ B \subseteq H
  <2>1. \A j \in H : j <= i => j <= k
    BY <1>1
  <2> QED
    BY <2>1
<1>3. IsFiniteSet(B)
  BY <1>2, RankCounts, FS_Subset
<1>4. Cardinality(A) <= Cardinality(B)
  BY <1>2, <1>3, FS_Subset
<1> QED
  BY <1>4 DEF Rank

\* The elements of a set of numbers in their order: each once, none between two
\* that follow each other.
LEMMA SortedIs ==
  ASSUME NEW m \in Nat, NEW H, H \subseteq 1..m, NEW f, f = Sorted(H)
  PROVE  /\ f \in Seq(H) /\ Len(f) = Cardinality(H) /\ Len(f) \in Nat /\ DOMAIN f = 1..Len(f)
         /\ \A n \in 1..Len(f) : f[n] \in H
         /\ \A n, k \in 1..Len(f) : n < k => f[n] < f[k]
<1>1. /\ IsFiniteSet(H) /\ Cardinality(H) \in Nat
      /\ \A i \in H : Rank(H, i) \in 1..Cardinality(H)
      /\ \A i, k \in H : Rank(H, i) = Rank(H, k) => i = k
      /\ \A n \in 1..Cardinality(H) : \E i \in H : Rank(H, i) = n
  BY RankCounts
<1> DEFINE At(n) == CHOOSE i \in H : Rank(H, i) = n
<1>2. f = [n \in 1..Cardinality(H) |-> At(n)]
  BY DEF Sorted
<1>3. \A n \in 1..Cardinality(H) : At(n) \in H /\ Rank(H, At(n)) = n
  BY <1>1
<1> HIDE DEF At
<1>4. f \in [1..Cardinality(H) -> H]
  BY <1>2, <1>3
<1>5. f \in Seq(H) /\ Len(f) = Cardinality(H) /\ Len(f) \in Nat /\ DOMAIN f = 1..Len(f)
  <2>1. f \in Seq(H)
    BY <1>1, <1>4, SeqDef
  <2> QED
    BY <1>1, <1>4, <2>1, LenProperties
<1>6. \A n \in 1..Len(f) : f[n] \in H /\ Rank(H, f[n]) = n
  BY <1>2, <1>3, <1>5
<1>7. ASSUME NEW n \in 1..Len(f), NEW k \in 1..Len(f), n < k PROVE f[n] < f[k]
  <2>1. f[n] \in H /\ f[k] \in H /\ Rank(H, f[n]) = n /\ Rank(H, f[k]) = k
    BY <1>6
  <2>2. f[n] \in Int /\ f[k] \in Int
    <3>1. \A h \in H : h \in Int
      OBVIOUS
    <3> QED
      BY <2>1, <3>1
  <2>3. ~(f[k] <= f[n])
    <3>1. SUFFICES ASSUME f[k] <= f[n] PROVE FALSE
      OBVIOUS
    <3>2. Rank(H, f[k]) <= Rank(H, f[n])
      BY <2>1, <3>1, RankGrows
    <3> QED
      BY <1>5, <1>7, <2>1, <3>2
  <2> QED
    BY <2>2, <2>3
<1> QED
  BY <1>5, <1>6, <1>7

Has(list, h) == \E n \in 1..Len(list) : list[n] = h

LEMMA SortedHas ==
  ASSUME NEW m \in Nat, NEW H, H \subseteq 1..m, NEW f, f = Sorted(H), NEW h \in H
  PROVE  Has(f, h)
<1>1. /\ \A i \in H : Rank(H, i) \in 1..Cardinality(H)
      /\ \A i, k \in H : Rank(H, i) = Rank(H, k) => i = k
      /\ \A n \in 1..Cardinality(H) : \E i \in H : Rank(H, i) = n
  BY RankCounts
<1>2. Len(f) = Cardinality(H)
  BY SortedIs
<1>3. f[Rank(H, h)] = CHOOSE i \in H : Rank(H, i) = Rank(H, h)
  BY <1>1 DEF Sorted
<1>4. f[Rank(H, h)] \in H /\ Rank(H, f[Rank(H, h)]) = Rank(H, h)
  BY <1>1, <1>3
<1> QED
  BY <1>1, <1>2, <1>4 DEF Has

\* What stands between two of them, and before and behind all.
LEMMA SortedNeighbours ==
  ASSUME NEW m \in Nat, NEW H, H \subseteq 1..m, NEW f, f = Sorted(H), NEW h \in H
  PROVE  /\ 1 \in 1..Len(f) /\ Len(f) \in 1..Len(f) /\ f[1] <= h /\ h <= f[Len(f)]
         /\ \A n \in 1..(Len(f) - 1) : ~(f[n] < h /\ h < f[n + 1])
<1>1. /\ Len(f) \in Nat /\ \A n \in 1..Len(f) : f[n] \in H
      /\ \A n, k \in 1..Len(f) : n < k => f[n] < f[k]
  BY SortedIs
<1>2. PICK p \in 1..Len(f) : f[p] = h
  <2>1. Has(f, h)
    BY SortedHas, Zenon
  <2> QED
    BY <2>1 DEF Has
<1>3. \A n \in 1..Len(f) : f[n] \in Int
  <2>1. \A i \in H : i \in Int
    OBVIOUS
  <2> QED
    BY <1>1, <2>1
<1>4. 1 \in 1..Len(f) /\ Len(f) \in 1..Len(f) /\ p \in Int /\ 1 <= p /\ p <= Len(f)
  BY <1>1, <1>2
<1>5. f[1] <= h
  BY <1>1, <1>2, <1>3, <1>4
<1>6. h <= f[Len(f)]
  BY <1>1, <1>2, <1>3, <1>4
<1>7. ASSUME NEW n \in 1..(Len(f) - 1) PROVE ~(f[n] < h /\ h < f[n + 1])
  <2>1. n \in 1..Len(f) /\ n + 1 \in 1..Len(f) /\ (p = n \/ p = n + 1 \/ p < n \/ n + 1 < p)
    BY <1>1, <1>4
  <2>2. f[n] \in Int /\ f[n + 1] \in Int /\ h \in Int
    BY <1>2, <1>3, <2>1
  <2>3. p < n => h < f[n]
    BY <1>1, <1>2, <2>1
  <2>4. n + 1 < p => f[n + 1] < h
    BY <1>1, <1>2, <2>1
  <2> QED
    BY <1>2, <2>1, <2>2, <2>3, <2>4
<1> QED
  BY <1>4, <1>5, <1>6, <1>7

\* What stands at the chosen places of a list.
Picked(f, list, g, S) == f \in Seq(S) /\ Len(f) = Len(g) /\ \A n \in 1..Len(f) : f[n] = list[g[n]]

LEMMA SublistIs ==
  ASSUME NEW S, NEW list \in Seq(S), NEW H, H \subseteq 1..Len(list), NEW f, f = Sublist(list, H),
         NEW g, g = Sorted(H)
  PROVE  Picked(f, list, g, S)
<1>1. Len(list) \in Nat /\ \A i \in 1..Len(list) : list[i] \in S
  BY LenProperties
<1>2. Len(g) \in Nat /\ DOMAIN g = 1..Len(g) /\ \A n \in 1..Len(g) : g[n] \in H
  BY <1>1, SortedIs
<1>3. f = [n \in 1..Len(g) |-> list[g[n]]]
  BY <1>2 DEF Sublist
<1>4. f \in [1..Len(g) -> S]
  <2>1. \A n \in 1..Len(g) : list[g[n]] \in S
    BY <1>1, <1>2
  <2> QED
    BY <1>3, <2>1
<1>5. f \in Seq(S)
  BY <1>2, <1>4, SeqDef
<1>6. Len(f) = Len(g)
  BY <1>2, <1>4, <1>5, LenProperties
<1> QED
  BY <1>3, <1>5, <1>6 DEF Picked

-----------------------------------------------------------------------------
(* The chunks of a document.  First pieces of a text in general: what is    *)
(* cut at some places, sliced, merged or joined still tiles the text it     *)
(* was made of (Tiling), and a tiling covers each character once.           *)

Piece == [from : Nat, to : Nat]

InOrder(list) == \A i, k \in 1..Len(list) : i < k => list[i].to <= list[k].from

\* The pieces of a text from one place to another, without gap or overlap.
Tiling(list, from, to) ==
  /\ list \in Seq(Piece) /\ Len(list) \in Nat \ {0}
  /\ \A i \in 1..Len(list) : list[i].from < list[i].to
  /\ InOrder(list)
  /\ list[1].from = from /\ list[Len(list)].to = to
  /\ \A i \in 1..(Len(list) - 1) : list[i].to = list[i + 1].from

LEMMA PieceIs ==
  ASSUME NEW c \in Piece
  PROVE  c.from \in Nat /\ c.to \in Nat /\ c = Chunk(c.from, c.to)
BY DEF Piece, Chunk

LEMMA ChunkIs ==
  ASSUME NEW from \in Nat, NEW to \in Nat
  PROVE  Chunk(from, to) \in Piece /\ Chunk(from, to).from = from /\ Chunk(from, to).to = to
BY DEF Piece, Chunk

\* Cutting a chunk: pieces between neighbouring cuts, every cut the start of one.
PiecesAt(f, c, cuts) ==
  /\ Tiling(f, c.from, c.to)
  /\ \A i \in 1..Len(f) : f[i].to \in cuts \cup {c.to} /\ f[i].from \in cuts \cup {c.from}
  /\ \A i \in 1..Len(f) : \A h \in cuts : ~(f[i].from < h /\ h < f[i].to)
  /\ \A h \in cuts \cup {c.from} : \E i \in 1..Len(f) : f[i].from = h

LEMMA CutIs ==
  ASSUME NEW c \in Piece, c.from < c.to, NEW cuts, cuts \subseteq (c.from + 1)..(c.to - 1),
         NEW f, f = Cut(c, cuts)
  PROVE  PiecesAt(f, c, cuts)
<1> DEFINE H == cuts \cup {c.to}
<1>0. PICK g : g = Sorted(H)
  OBVIOUS
<1> DEFINE n == Len(g)
<1>1. /\ c.from \in Nat /\ c.to \in Nat /\ H \subseteq 1..c.to
      /\ \A h \in H : h \in Nat /\ c.from < h /\ h <= c.to
      /\ c.to \in H
  <2>1. c.from \in Nat /\ c.to \in Nat
    BY DEF Piece
  <2>2. \A h \in H : h \in Nat /\ c.from < h /\ h <= c.to
    BY <2>1
  <2>3. H \subseteq 1..c.to
    <3> HIDE DEF H
    <3>1. \A h \in H : h \in 1..c.to
      BY <2>1, <2>2
    <3> QED
      BY <3>1
  <2> QED
    BY <2>1, <2>2, <2>3
<1>2. /\ n \in Nat /\ DOMAIN g = 1..n
      /\ \A i \in 1..n : g[i] \in H
      /\ \A h \in H : \E i \in 1..n : g[i] = h
      /\ \A i, k \in 1..n : i < k => g[i] < g[k]
  <2> HIDE DEF H
  <2>1. \A h \in H : \E i \in 1..n : g[i] = h
    <3> SUFFICES ASSUME NEW h \in H PROVE \E i \in 1..n : g[i] = h
      OBVIOUS
    <3>1. c.to \in Nat /\ H \subseteq 1..c.to
      BY <1>1
    <3>2. Has(g, h)
      BY <1>0, <3>1, SortedHas, Zenon
    <3> QED
      BY <3>2 DEF Has
  <2> QED
    BY <1>0, <1>1, <2>1, SortedIs
<1>3. \A h \in H : /\ 1 \in 1..n /\ n \in 1..n /\ g[1] <= h /\ h <= g[n]
                   /\ \A i \in 1..(n - 1) : ~(g[i] < h /\ h < g[i + 1])
  <2> HIDE DEF H
  <2> QED
    BY <1>0, <1>1, SortedNeighbours
<1>4. f = [i \in 1..n |-> Chunk(IF i = 1 THEN c.from ELSE g[i - 1], g[i])]
  BY <1>0, <1>2 DEF Cut
<1> HIDE DEF n, H
<1>5. \A i \in 1..n : i # 1 => i - 1 \in 1..n /\ i - 1 < i
  BY <1>2
<1>6. \A i \in 1..n : g[i] \in Nat /\ c.from < g[i] /\ g[i] <= c.to
  BY <1>1, <1>2
<1>7. ASSUME NEW i \in 1..n
      PROVE  /\ f[i] \in Piece /\ f[i].to = g[i] /\ f[i].from < f[i].to
             /\ i = 1 => f[i].from = c.from
             /\ i # 1 => f[i].from = g[i - 1]
  <2>1. CASE i = 1
    BY <1>1, <1>4, <1>6, <2>1, ChunkIs
  <2>2. CASE i # 1
    <3>1. i - 1 \in 1..n /\ g[i - 1] < g[i] /\ g[i - 1] \in Nat /\ g[i] \in Nat
      BY <1>2, <1>5, <1>6, <2>2
    <3> QED
      BY <1>4, <2>2, <3>1, ChunkIs
  <2> QED
    BY <2>1, <2>2
<1>8. f \in Seq(Piece) /\ Len(f) = n
  <2>1. f \in [1..n -> Piece]
    BY <1>4, <1>7
  <2>2. f \in Seq(Piece)
    BY <1>2, <2>1, SeqDef
  <2> QED
    BY <1>2, <2>1, <2>2, LenProperties
<1>9. 1 \in 1..n /\ n \in 1..n
  BY <1>1, <1>3
<1>10. InOrder(f)
  <2> SUFFICES ASSUME NEW i \in 1..n, NEW k \in 1..n, i < k PROVE f[i].to <= f[k].from
    BY <1>8 DEF InOrder
  <2>1. k # 1 /\ k - 1 \in 1..n /\ (i = k - 1 \/ i < k - 1)
    BY <1>2
  <2>2. f[i].to = g[i] /\ f[k].from = g[k - 1]
    BY <1>7, <2>1
  <2>3. g[i] \in Nat /\ g[k - 1] \in Nat /\ (i < k - 1 => g[i] < g[k - 1])
    BY <1>2, <1>6, <2>1
  <2> QED
    BY <2>1, <2>2, <2>3
<1>11. f[1].from = c.from /\ f[n].to = c.to
  <2>1. f[n].to = g[n] /\ c.to <= g[n] /\ g[n] <= c.to /\ g[n] \in Nat
    BY <1>1, <1>3, <1>6, <1>7, <1>9
  <2> QED
    BY <1>1, <1>7, <1>9, <2>1
<1>12. \A i \in 1..(n - 1) : f[i].to = f[i + 1].from
  <2> SUFFICES ASSUME NEW i \in 1..(n - 1) PROVE f[i].to = f[i + 1].from
    OBVIOUS
  <2>1. i \in 1..n /\ i + 1 \in 1..n /\ i + 1 # 1 /\ (i + 1) - 1 = i
    BY <1>2
  <2>2. f[i + 1].from = g[(i + 1) - 1]
    BY <1>7, <2>1
  <2> QED
    BY <1>7, <2>1, <2>2
<1>13. Tiling(f, c.from, c.to)
  BY <1>2, <1>7, <1>8, <1>9, <1>10, <1>11, <1>12 DEF Tiling
<1>14. \A i \in 1..n : f[i].to \in cuts \cup {c.to} /\ f[i].from \in cuts \cup {c.from}
  <2> SUFFICES ASSUME NEW i \in 1..n PROVE f[i].to \in cuts \cup {c.to} /\ f[i].from \in cuts \cup {c.from}
    OBVIOUS
  <2>1. f[i].to \in cuts \cup {c.to}
    BY <1>2, <1>7 DEF H
  <2>2. CASE i = 1
    BY <1>7, <2>1, <2>2
  <2>3. CASE i # 1
    <3>1. i - 1 \in 1..n /\ i - 1 < i /\ i \in 1..n
      BY <1>5, <2>3
    <3>2. g[i - 1] < g[i] /\ g[i - 1] \in H /\ g[i] <= c.to /\ g[i - 1] \in Nat /\ g[i] \in Nat
      BY <1>2, <1>6, <3>1
    <3>3. g[i - 1] # c.to
      BY <1>1, <3>2
    <3> QED
      BY <1>7, <2>1, <2>3, <3>2, <3>3 DEF H
  <2> QED
    BY <2>2, <2>3
<1>15. \A i \in 1..n : \A h \in cuts : ~(f[i].from < h /\ h < f[i].to)
  <2> SUFFICES ASSUME NEW i \in 1..n, NEW h \in cuts PROVE ~(f[i].from < h /\ h < f[i].to)
    OBVIOUS
  <2>1. h \in H /\ h \in Nat /\ g[1] <= h /\ \A j \in 1..(n - 1) : ~(g[j] < h /\ h < g[j + 1])
    BY <1>1, <1>3 DEF H
  <2>2. CASE i = 1
    BY <1>6, <1>7, <1>9, <2>1, <2>2
  <2>3. CASE i # 1
    <3>1. i - 1 \in 1..(n - 1) /\ (i - 1) + 1 = i
      BY <1>2, <2>3
    <3>2. ~(g[i - 1] < h /\ h < g[(i - 1) + 1])
      BY <2>1, <3>1
    <3> QED
      BY <1>7, <2>3, <3>1, <3>2
  <2> QED
    BY <2>2, <2>3
<1>16. \A h \in cuts \cup {c.from} : \E i \in 1..n : f[i].from = h
  <2> SUFFICES ASSUME NEW h \in cuts PROVE \E i \in 1..n : f[i].from = h
    BY <1>9, <1>11
  <2>1. h \in H /\ h < c.to /\ h \in Nat
    BY <1>1 DEF H
  <2>2. PICK i \in 1..n : g[i] = h
    BY <1>2, <2>1
  <2>3. c.to <= g[n] /\ i # n
    BY <1>1, <1>3, <1>6, <1>9, <2>1, <2>2
  <2>4. i + 1 \in 1..n /\ i + 1 # 1 /\ (i + 1) - 1 = i
    BY <1>2, <2>3
  <2>5. f[i + 1].from = g[(i + 1) - 1]
    BY <1>7, <2>4
  <2> QED
    BY <2>2, <2>4, <2>5
<1> QED
  BY <1>8, <1>13, <1>14, <1>15, <1>16 DEF PiecesAt

LEMMA Chained ==
  ASSUME NEW a \in Nat, NEW b \in Nat, NEW c \in Nat, NEW d \in Nat, a < b, b <= c, c < d
  PROVE  a < d
OBVIOUS

LEMMA Climbs ==
  ASSUME NEW a \in Nat, NEW b \in Nat, NEW c \in Nat, NEW d \in Nat, a <= b, b < c, c <= d
  PROVE  a < d
OBVIOUS

LEMMA Rises ==
  ASSUME NEW a \in Nat, NEW b \in Nat, NEW c \in Nat, a < b, b <= c
  PROVE  a <= c
OBVIOUS

LEMMA Through ==
  ASSUME NEW a \in Nat, NEW b \in Nat, NEW c \in Nat, a <= b, b <= c
  PROVE  a <= c
OBVIOUS

LEMMA Across ==
  ASSUME NEW a \in Nat, NEW b \in Nat, NEW c \in Nat, NEW d \in Nat, a <= b, b < c, c <= d
  PROVE  a <= d
OBVIOUS

LEMMA LeastPlace ==
  ASSUME NEW m \in Nat, NEW H, H \subseteq 1..m, H # {}
  PROVE  \E p \in H : \A h \in H : p <= h
<1>1. PICK g : g = Sorted(H)
  OBVIOUS
<1>2. \A h \in H : 1 \in 1..Len(g) /\ g[1] <= h
  BY <1>1, SortedNeighbours
<1>3. g[1] \in H
  <2>1. 1 \in 1..Len(g)
    BY <1>2
  <2> QED
    BY <1>1, <2>1, SortedIs
<1> QED
  BY <1>2, <1>3

LEMMA CoveredIs ==
  ASSUME NEW list \in Seq(Piece), NEW x
  PROVE  x \in Covered(list) <=> \E i \in 1..Len(list) : x \in (list[i].from + 1)..list[i].to
BY LenProperties DEF Covered

\* The places of a tiling are those of the text, and it covers all of it.
LEMMA TilingSpans ==
  ASSUME NEW from \in Nat, NEW to \in Nat, NEW list, Tiling(list, from, to)
  PROVE  /\ \A i \in 1..Len(list) : /\ list[i].from \in Nat /\ list[i].to \in Nat
                                    /\ from <= list[i].from /\ list[i].from < list[i].to /\ list[i].to <= to
         /\ from < to
<1>1. /\ list \in Seq(Piece) /\ Len(list) \in Nat \ {0}
      /\ \A i \in 1..Len(list) : list[i].from < list[i].to
      /\ \A i, k \in 1..Len(list) : i < k => list[i].to <= list[k].from
      /\ list[1].from = from /\ list[Len(list)].to = to
  BY DEF Tiling, InOrder
<1>2. \A i \in 1..Len(list) : list[i] \in Piece
  BY <1>1, LenProperties
<1>3. \A i \in 1..Len(list) : list[i].from \in Nat /\ list[i].to \in Nat
  BY <1>2, PieceIs
<1>4. 1 \in 1..Len(list) /\ Len(list) \in 1..Len(list)
  BY <1>1
<1>5. ASSUME NEW i \in 1..Len(list) PROVE from <= list[i].from
  <2>1. i = 1 \/ 1 < i
    BY <1>1
  <2> QED
    BY <1>1, <1>3, <1>4, <2>1
<1>6. ASSUME NEW i \in 1..Len(list) PROVE list[i].to <= to
  <2>1. i = Len(list) \/ i < Len(list)
    BY <1>1
  <2> QED
    BY <1>1, <1>3, <1>4, <2>1
<1>7. from < to
  BY <1>1, <1>3, <1>4, <1>6
<1> QED
  BY <1>1, <1>3, <1>5, <1>6, <1>7

LEMMA TilingFinds ==
  ASSUME NEW from \in Nat, NEW to \in Nat, NEW list, Tiling(list, from, to),
         NEW x \in Nat, from < x, x <= to
  PROVE  \E i \in 1..Len(list) : list[i].from < x /\ x <= list[i].to
<1>1. /\ Len(list) \in Nat \ {0}
      /\ list[1].from = from /\ list[Len(list)].to = to
      /\ \A i \in 1..(Len(list) - 1) : list[i].to = list[i + 1].from
  BY DEF Tiling
<1>2. \A i \in 1..Len(list) : list[i].from \in Nat /\ list[i].to \in Nat
  BY TilingSpans
<1> DEFINE H == {i \in 1..Len(list) : x <= list[i].to}
<1>3. H \subseteq 1..Len(list) /\ Len(list) \in H
  BY <1>1
<1>4. PICK p \in H : \A h \in H : p <= h
  <2> HIDE DEF H
  <2> QED
    BY <1>1, <1>3, LeastPlace
<1>5. p \in 1..Len(list) /\ x <= list[p].to
  OBVIOUS
<1>6. CASE p = 1
  BY <1>1, <1>5, <1>6
<1>7. CASE p # 1
  <2>1. p - 1 \in 1..Len(list) /\ p - 1 \in 1..(Len(list) - 1) /\ (p - 1) + 1 = p /\ ~(p <= p - 1)
    BY <1>1, <1>5, <1>7
  <2>2. p - 1 \notin H
    BY <1>4, <2>1
  <2>3. list[p - 1].to < x
    BY <1>2, <2>1, <2>2
  <2>4. list[p - 1].to = list[(p - 1) + 1].from
    BY <1>1, <2>1
  <2> QED
    BY <1>5, <2>1, <2>3, <2>4
<1> QED
  BY <1>6, <1>7

LEMMA TilingCovers ==
  ASSUME NEW from \in Nat, NEW to \in Nat, NEW list, Tiling(list, from, to)
  PROVE  Covered(list) = (from + 1)..to
<1>0. list \in Seq(Piece)
  BY DEF Tiling
<1>1. ASSUME NEW x \in Covered(list) PROVE x \in (from + 1)..to
  <2>1. PICK i \in 1..Len(list) : x \in (list[i].from + 1)..list[i].to
    BY <1>0, CoveredIs
  <2>2. /\ list[i].from \in Nat /\ list[i].to \in Nat /\ from <= list[i].from /\ list[i].to <= to
    BY TilingSpans
  <2> QED
    BY <2>1, <2>2
<1>2. ASSUME NEW x \in (from + 1)..to PROVE x \in Covered(list)
  <2>1. x \in Nat /\ from < x /\ x <= to
    OBVIOUS
  <2>2. PICK i \in 1..Len(list) : list[i].from < x /\ x <= list[i].to
    BY <2>1, TilingFinds
  <2>3. list[i].from \in Nat /\ list[i].to \in Nat
    BY TilingSpans
  <2>4. x \in (list[i].from + 1)..list[i].to
    BY <2>1, <2>2, <2>3
  <2> QED
    BY <1>0, <2>4, CoveredIs
<1> QED
  BY <1>1, <1>2

LEMMA OneCovers ==
  ASSUME NEW c \in Piece, NEW list, list = <<c>>
  PROVE  Covered(list) = (c.from + 1)..c.to
<1>1. list \in Seq(Piece) /\ Len(list) = 1 /\ list[1] = c
  OBVIOUS
<1>2. \A x : x \in Covered(list) <=> \E i \in 1..Len(list) : x \in (list[i].from + 1)..list[i].to
  BY <1>1, CoveredIs, Zenon
<1>3. \A x : x \in Covered(list) <=> x \in (c.from + 1)..c.to
  BY <1>1, <1>2
<1> QED
  BY <1>3

LEMMA OneTiles ==
  ASSUME NEW c \in Piece, c.from < c.to, NEW list, list = <<c>>
  PROVE  Tiling(list, c.from, c.to)
<1>1. list \in Seq(Piece) /\ Len(list) = 1 /\ list[1] = c
  OBVIOUS
<1> QED
  BY <1>1 DEF Tiling, InOrder

EndsAmong(f, list) ==
  \A k \in 1..Len(f) : \E i, j \in 1..Len(list) : f[k].from = list[i].from /\ f[k].to = list[j].to

\* Of a pass over tiling chunks, the pairs that merge tile the same text.
LEMMA PairsTile ==
  ASSUME NEW from \in Nat, NEW to \in Nat, NEW list, Tiling(list, from, to),
         NEW takers, takers \subseteq 1..(Len(list) - 1), \A i \in takers : i - 1 \notin takers,
         NEW whole, whole = [i \in 1..Len(list) |-> IF i \in takers THEN Chunk(list[i].from, list[i + 1].to) ELSE list[i]],
         NEW H, H = {i \in 1..Len(list) : i - 1 \notin takers}, NEW f, f = Sublist(whole, H)
  PROVE  Tiling(f, from, to) /\ EndsAmong(f, list)
<1>1. /\ list \in Seq(Piece) /\ Len(list) \in Nat \ {0}
      /\ \A i, k \in 1..Len(list) : i < k => list[i].to <= list[k].from
      /\ list[1].from = from /\ list[Len(list)].to = to
      /\ \A i \in 1..(Len(list) - 1) : list[i].to = list[i + 1].from
  BY DEF Tiling, InOrder
<1>2. /\ \A i \in 1..Len(list) : list[i].from \in Nat /\ list[i].to \in Nat
      /\ \A i \in 1..Len(list) : list[i].from < list[i].to
      /\ \A i \in 1..Len(list) : list[i] \in Piece
  BY <1>1, TilingSpans, LenProperties
<1> DEFINE n == Len(list)
<1>3. n \in Nat /\ n # 0
  BY <1>1
<1>4. \A i \in takers : i \in 1..n /\ i + 1 \in 1..n /\ i \in 1..(n - 1)
  BY <1>3
<1> HIDE DEF n
<1>5. \A i \in 1..n : /\ whole[i] \in Piece
                      /\ whole[i].from = list[i].from
                      /\ i \in takers => whole[i].to = list[i + 1].to
                      /\ i \notin takers => whole[i].to = list[i].to
  <2> SUFFICES ASSUME NEW i \in 1..n
               PROVE  /\ whole[i] \in Piece /\ whole[i].from = list[i].from
                      /\ i \in takers => whole[i].to = list[i + 1].to
                      /\ i \notin takers => whole[i].to = list[i].to
    OBVIOUS
  <2>1. CASE i \in takers
    <3>1. whole[i] = Chunk(list[i].from, list[i + 1].to)
      BY <2>1 DEF n
    <3>2. list[i].from \in Nat /\ list[i + 1].to \in Nat
      BY <1>2, <1>4, <2>1 DEF n
    <3>3. /\ Chunk(list[i].from, list[i + 1].to) \in Piece
          /\ Chunk(list[i].from, list[i + 1].to).from = list[i].from
          /\ Chunk(list[i].from, list[i + 1].to).to = list[i + 1].to
      BY <3>2, ChunkIs, Zenon
    <3> QED
      BY <2>1, <3>1, <3>3, Zenon
  <2>2. CASE i \notin takers
    <3>1. whole[i] = list[i]
      BY <2>2 DEF n
    <3> QED
      BY <1>2, <2>2, <3>1 DEF n
  <2> QED
    BY <2>1, <2>2
<1>6. whole \in Seq(Piece) /\ Len(whole) = n
  <2>1. whole \in [1..n -> Piece]
    BY <1>5 DEF n
  <2>2. whole \in Seq(Piece)
    BY <1>3, <2>1, SeqDef
  <2> QED
    BY <1>3, <2>1, <2>2, LenProperties
<1>7. H \subseteq 1..n /\ 1 \in H /\ \A i \in 1..n : i \in H <=> i - 1 \notin takers
  <2>1. 1 - 1 \notin takers
    BY <1>4
  <2> QED
    BY <1>3, <2>1 DEF n
<1>8. PICK g : g = Sorted(H)
  OBVIOUS
<1>9. /\ Len(g) \in Nat /\ \A k \in 1..Len(g) : g[k] \in H
      /\ \A i, k \in 1..Len(g) : i < k => g[i] < g[k]
  <2>1. n \in Nat /\ H \subseteq 1..n /\ g = Sorted(H)
    BY <1>3, <1>7, <1>8
  <2> QED
    BY ONLY <2>1, SortedIs
<1>10. \A h \in H : /\ 1 \in 1..Len(g) /\ Len(g) \in 1..Len(g) /\ g[1] <= h /\ h <= g[Len(g)]
                    /\ \A i \in 1..(Len(g) - 1) : ~(g[i] < h /\ h < g[i + 1])
  BY <1>3, <1>7, <1>8, SortedNeighbours
<1>11. f \in Seq(Piece) /\ Len(f) = Len(g) /\ \A k \in 1..Len(f) : f[k] = whole[g[k]]
  <2>1. H \subseteq 1..Len(whole) /\ whole \in Seq(Piece) /\ g = Sorted(H) /\ f = Sublist(whole, H)
    BY <1>6, <1>7, <1>8, Zenon
  <2>2. Picked(f, whole, g, Piece)
    BY ONLY <2>1, SublistIs, Zenon
  <2> QED
    BY <2>2, Zenon DEF Picked
<1> DEFINE m == Len(g)
<1>12. m \in Nat /\ 1 \in 1..m /\ m \in 1..m /\ Len(f) = m
  BY <1>7, <1>9, <1>10, <1>11
<1>13. \A k \in 1..m : /\ g[k] \in 1..n /\ g[k] \in Int /\ f[k] = whole[g[k]]
                       /\ f[k].from = list[g[k]].from
                       /\ g[k] \in takers => f[k].to = list[g[k] + 1].to
                       /\ g[k] \notin takers => f[k].to = list[g[k]].to
  <2> SUFFICES ASSUME NEW k \in 1..m
               PROVE  /\ g[k] \in 1..n /\ g[k] \in Int /\ f[k] = whole[g[k]]
                      /\ f[k].from = list[g[k]].from
                      /\ g[k] \in takers => f[k].to = list[g[k] + 1].to
                      /\ g[k] \notin takers => f[k].to = list[g[k]].to
    BY Zenon
  <2>1. g[k] \in H
    BY <1>9
  <2>2. g[k] \in 1..n
    BY <1>7, <2>1, Zenon
  <2>3. g[k] \in Int
    BY <1>3, <2>2
  <2>4. f[k] = whole[g[k]]
    BY <1>11, Zenon
  <2> QED
    BY <1>5, <2>2, <2>3, <2>4, Zenon
<1> HIDE DEF m
<1>14. \A i \in takers : i + 1 \notin H /\ (i + 2 \in 1..n => i + 2 \in H)
  <2> SUFFICES ASSUME NEW i \in takers PROVE i + 1 \notin H /\ (i + 2 \in 1..n => i + 2 \in H)
    OBVIOUS
  <2>1. i \in Int /\ (i + 1) - 1 = i /\ (i + 2) - 1 = i + 1
    BY <1>4
  <2>2. i + 1 \notin takers
    BY <2>1
  <2> QED
    BY <1>4, <1>7, <2>1, <2>2
<1>15. \A i \in 1..n : i \notin takers /\ i + 1 \in 1..n => i + 1 \in H
  <2> SUFFICES ASSUME NEW i \in 1..n, i \notin takers, i + 1 \in 1..n PROVE i + 1 \in H
    OBVIOUS
  <2>1. (i + 1) - 1 = i
    OBVIOUS
  <2> QED
    BY <1>7, <2>1
<1>16. \A k \in 1..(m - 1) : f[k].to = f[k + 1].from
  <2> SUFFICES ASSUME NEW k \in 1..(m - 1) PROVE f[k].to = f[k + 1].from
    OBVIOUS
  <2>1. k \in 1..m /\ k + 1 \in 1..m /\ k < k + 1 /\ k \in 1..(Len(g) - 1)
    BY <1>12 DEF m
  <2>2. g[k] < g[k + 1] /\ g[k] \in 1..n /\ g[k + 1] \in 1..n /\ g[k + 1] \in H /\ g[k] \in Int /\ g[k + 1] \in Int
    BY <1>9, <1>13, <2>1 DEF m
  <2>3. f[k + 1].from = list[g[k + 1]].from
    BY <1>13, <2>1
  <2>4. CASE g[k] \in takers
    <3>1. g[k + 1] # g[k] + 1
      BY <1>14, <2>2, <2>4
    <3>2. g[k] + 2 <= g[k + 1] /\ g[k] + 2 \in 1..n /\ g[k] < g[k] + 2
      BY ONLY <1>3, <2>2, <3>1, SMTT(30)
    <3>3. g[k] + 2 \in H
      BY <1>14, <2>4, <3>2
    <3>4. ~(g[k] + 2 < g[k + 1])
      BY <1>10, <2>1, <3>2, <3>3
    <3>5. g[k + 1] = g[k] + 2 /\ (g[k] + 1) + 1 = g[k] + 2 /\ g[k] + 1 \in 1..(n - 1)
      BY ONLY <1>3, <2>2, <3>2, <3>4, SMTT(30)
    <3>6. list[g[k] + 1].to = list[(g[k] + 1) + 1].from
      BY <1>1, <3>5 DEF n
    <3>7. f[k].to = list[g[k] + 1].to
      BY <1>13, <2>1, <2>4, Zenon
    <3>8. list[(g[k] + 1) + 1].from = list[g[k + 1]].from
      BY <3>5
    <3> QED
      BY <2>3, <3>6, <3>7, <3>8, Zenon
  <2>5. CASE g[k] \notin takers
    <3>1. g[k] + 1 \in 1..n /\ g[k] + 1 <= g[k + 1] /\ g[k] < g[k] + 1 /\ g[k] \in 1..(n - 1)
      BY <1>3, <2>2
    <3>2. g[k] + 1 \in H
      BY <1>15, <2>2, <2>5, <3>1
    <3>3. ~(g[k] + 1 < g[k + 1])
      BY <1>10, <2>1, <3>1, <3>2
    <3>4. g[k + 1] = g[k] + 1
      BY <2>2, <3>1, <3>3
    <3>5. list[g[k]].to = list[g[k] + 1].from
      BY <1>1, <3>1 DEF n
    <3> QED
      BY <1>13, <2>1, <2>3, <2>5, <3>4, <3>5
  <2> QED
    BY <2>4, <2>5
<1>17. f[1].from = from
  <2>1. g[1] = 1
    <3>1. g[1] <= 1 /\ g[1] \in 1..n
      BY <1>7, <1>10, <1>12, <1>13
    <3> QED
      BY <1>3, <3>1
  <2> QED
    BY <1>1, <1>12, <1>13, <2>1
<1>18. f[m].to = to
  <2>1. g[m] \in 1..n /\ g[m] \in Int /\ \A h \in H : h <= g[m]
    BY <1>10, <1>12, <1>13 DEF m
  <2>2. CASE g[m] \in takers
    <3>1. g[m] + 1 \in 1..n /\ ~(g[m] + 2 <= g[m])
      BY <1>4, <2>1, <2>2
    <3>2. g[m] + 2 \notin 1..n
      BY <1>14, <2>1, <2>2, <3>1
    <3>3. g[m] + 1 = n
      BY <1>3, <2>1, <3>1, <3>2
    <3>4. f[m].to = list[g[m] + 1].to
      BY <1>12, <1>13, <2>2, Zenon
    <3> QED
      BY <1>1, <3>3, <3>4, Zenon DEF n
  <2>3. CASE g[m] \notin takers
    <3>1. ~(g[m] + 1 <= g[m])
      BY <2>1
    <3>2. g[m] + 1 \notin 1..n
      BY <1>15, <2>1, <2>3, <3>1
    <3>3. g[m] = n
      BY <1>3, <2>1, <3>2
    <3> QED
      BY <1>1, <1>12, <1>13, <2>3, <3>3 DEF n
  <2> QED
    BY <2>2, <2>3
<1>19. \A k \in 1..m : \E i, j \in 1..n : f[k].from = list[i].from /\ f[k].to = list[j].to
  <2> SUFFICES ASSUME NEW k \in 1..m PROVE \E i, j \in 1..n : f[k].from = list[i].from /\ f[k].to = list[j].to
    OBVIOUS
  <2>1. g[k] \in takers => g[k] + 1 \in 1..n
    BY <1>4
  <2> QED
    BY <1>13, <2>1
<1>20. \A k \in 1..m : /\ f[k] \in Piece /\ f[k].from < f[k].to
                       /\ f[k].from \in Nat /\ f[k].to \in Nat
  <2> SUFFICES ASSUME NEW k \in 1..m PROVE f[k] \in Piece /\ f[k].from < f[k].to
    BY PieceIs
  <2>1. g[k] \in 1..n /\ g[k] \in Int /\ f[k] = whole[g[k]] /\ f[k].from = list[g[k]].from
    BY <1>13
  <2>2. CASE g[k] \in takers
    <3>1. g[k] + 1 \in 1..n /\ g[k] < g[k] + 1
      BY <1>4, <2>1, <2>2
    <3>2. list[g[k]].to <= list[g[k] + 1].from
      BY <1>1, <2>1, <3>1 DEF n
    <3>3. list[g[k]].from < list[g[k]].to /\ list[g[k] + 1].from < list[g[k] + 1].to
      BY <1>2, <2>1, <3>1 DEF n
    <3>4. list[g[k]].from < list[g[k] + 1].to
      <4>1. /\ list[g[k]].from \in Nat /\ list[g[k]].to \in Nat
            /\ list[g[k] + 1].from \in Nat /\ list[g[k] + 1].to \in Nat
        BY <1>2, <2>1, <3>1, Zenon DEF n
      <4> QED
        BY <3>2, <3>3, <4>1, Chained
    <3> QED
      BY <1>5, <1>13, <2>1, <2>2, <3>4
  <2>3. CASE g[k] \notin takers
    <3>1. list[g[k]].from < list[g[k]].to
      BY <1>2, <2>1, Zenon DEF n
    <3>2. f[k] \in Piece /\ f[k].to = list[g[k]].to
      BY <1>5, <2>1, <2>3, Zenon
    <3> QED
      BY ONLY <2>1, <3>1, <3>2
  <2> QED
    BY <2>2, <2>3
<1>21. InOrder(f)
  <2> SUFFICES ASSUME NEW i \in 1..Len(f), NEW k \in 1..Len(f), i < k PROVE f[i].to <= f[k].from
    BY DEF InOrder
  <2>0. i \in 1..m /\ k \in 1..m
    BY <1>12
  <2>1. i \in 1..(m - 1) /\ i + 1 \in 1..m /\ (i + 1 = k \/ i + 1 < k)
    BY <1>12, <2>0
  <2>2. f[i].to = f[i + 1].from
    BY <1>16, <2>1
  <2>3. CASE i + 1 = k
    BY <1>20, <2>0, <2>1, <2>2, <2>3
  <2>4. CASE i + 1 < k
    <3>1. g[i + 1] < g[k] /\ g[i + 1] \in 1..n /\ g[k] \in 1..n
      BY <1>9, <1>13, <2>0, <2>1, <2>4 DEF m
    <3>2. list[g[i + 1]].to <= list[g[k]].from
      BY <1>1, <3>1 DEF n
    <3>3. list[g[i + 1]].from <= list[g[k]].from
      <4>1. /\ list[g[i + 1]].from \in Nat /\ list[g[i + 1]].to \in Nat
            /\ list[g[k]].from \in Nat /\ list[g[i + 1]].from < list[g[i + 1]].to
        BY <1>2, <3>1, Zenon DEF n
      <4> QED
        BY ONLY <3>2, <4>1, Rises
    <3> QED
      BY <1>13, <2>0, <2>1, <2>2, <3>3
  <2> QED
    BY <2>1, <2>3, <2>4
<1>22. Tiling(f, from, to)
  <2>0. m \in Nat \ {0}
    BY <1>12
  <2>1. f \in Seq(Piece) /\ Len(f) \in Nat \ {0} /\ \A k \in 1..Len(f) : f[k].from < f[k].to
    BY <1>11, <1>12, <1>20, <2>0, Zenon
  <2>2. f[Len(f)].to = to /\ \A k \in 1..(Len(f) - 1) : f[k].to = f[k + 1].from
    BY <1>12, <1>16, <1>18
  <2> QED
    BY <1>17, <1>21, <2>1, <2>2, Zenon DEF Tiling
<1> QED
  BY <1>12, <1>19, <1>22 DEF n, EndsAmong

LEMMA Multiples ==
  ASSUME NEW k \in Nat \ {0}, NEW j \in Nat
  PROVE  j * k \in Nat /\ j <= j * k /\ (j + 1) * k = j * k + k
<1>1. j * (k - 1) >= 0 /\ j * k = j * (k - 1) + j
  OBVIOUS
<1> QED
  BY <1>1

\* The next slice of a piece, when it does not end before.
LEMMA SliceIs ==
  ASSUME Cap \in Nat \ {0}, NEW c \in Piece, NEW x
  PROVE  x \in Slices(c) <=> /\ x \in (c.from + 1)..(c.to - 1)
                             /\ \E j \in Nat : j >= 1 /\ x = c.from + j * Cap
<1>1. c.from \in Nat /\ c.to \in Nat
  BY PieceIs
<1>2. ASSUME x \in Slices(c)
      PROVE  x \in (c.from + 1)..(c.to - 1) /\ \E j \in Nat : j >= 1 /\ x = c.from + j * Cap
  <2>1. x \in (c.from + 1)..(c.to - 1)
    BY <1>2 DEF Slices
  <2>2. PICK j \in 1..(c.to - c.from) : x = c.from + j * Cap
    BY <1>2 DEF Slices, Size
  <2>3. j \in Nat /\ j >= 1
    BY <1>1
  <2> QED
    BY <2>1, <2>2, <2>3
<1>3. ASSUME x \in (c.from + 1)..(c.to - 1), NEW j \in Nat, j >= 1, x = c.from + j * Cap
      PROVE  x \in Slices(c)
  <2>1. j <= j * Cap /\ j * Cap \in Nat
    BY Multiples
  <2>2. j \in 1..(c.to - c.from)
    BY <1>1, <1>3, <2>1
  <2> QED
    BY <1>3, <2>2 DEF Slices, Size
<1> QED
  BY <1>2, <1>3

LEMMA FurtherBy ==
  ASSUME NEW a \in Nat, NEW b \in Nat, NEW y \in Nat, b <= y, NEW x, x = a + y
  PROVE  a + b <= x
OBVIOUS

LEMMA SliceNext ==
  ASSUME Cap \in Nat \ {0}, NEW c \in Piece, NEW x, x = c.from \/ x \in Slices(c), x + Cap < c.to
  PROVE  x + Cap \in Slices(c)
<1>1. c.from \in Nat /\ c.to \in Nat
  BY PieceIs
<1>2. PICK j \in Nat : x = c.from + j * Cap
  <2>1. CASE x = c.from
    <3>1. x = c.from + 0 * Cap
      BY <1>1, <2>1
    <3> QED
      BY <3>1
  <2>2. CASE x \in Slices(c)
    BY <2>2, SliceIs
  <2> QED
    BY <2>1, <2>2
<1>3. j * Cap \in Nat /\ (j + 1) * Cap = j * Cap + Cap
  BY Multiples
<1>4. x + Cap = c.from + (j + 1) * Cap /\ j + 1 \in Nat /\ j + 1 >= 1
  BY <1>1, <1>2, <1>3
<1>5. x + Cap \in (c.from + 1)..(c.to - 1)
  BY <1>1, <1>2, <1>3
<1> QED
  BY <1>4, <1>5, SliceIs

\* What is capped tiles the chunk with pieces within the limit, which end at a
\* cut or, inside a piece between cuts that is too long, at a slice.
LEMMA CappedIs ==
  ASSUME Cap \in Nat, Cap # 0, NEW c \in Piece, c.from < c.to,
         NEW cuts, cuts \subseteq (c.from + 1)..(c.to - 1),
         NEW f, f = Capped(c, cuts), NEW p, p = Cut(c, cuts)
  PROVE  /\ Tiling(f, c.from, c.to)
         /\ \A i \in 1..Len(f) : f[i].to - f[i].from <= Cap
         /\ \A i \in 1..Len(f) :
              \/ f[i].to \in cuts \cup {c.to}
              \/ /\ c.to - c.from > Cap
                 /\ \E k \in 1..Len(p) : /\ p[k].from < f[i].to /\ f[i].to < p[k].to
                                         /\ p[k].from + Cap <= f[i].to
<1>1. c.from \in Nat /\ c.to \in Nat
  BY PieceIs
<1>2. CASE Size(c) <= Cap
  <2>1. f = <<c>> /\ c.to - c.from <= Cap
    BY <1>2 DEF Capped, Size
  <2>2. Tiling(f, c.from, c.to)
    BY <2>1, OneTiles
  <2>3. Len(f) = 1 /\ f[1] = c
    BY <2>1
  <2> QED
    BY <2>1, <2>2, <2>3
<1>3. CASE ~(Size(c) <= Cap)
  <2>1. /\ Tiling(p, c.from, c.to)
        /\ \A i \in 1..Len(p) : p[i].to \in cuts \cup {c.to} /\ p[i].from \in cuts \cup {c.from}
        /\ \A h \in cuts \cup {c.from} : \E i \in 1..Len(p) : p[i].from = h
    <3>1. PiecesAt(p, c, cuts)
      BY CutIs, Zenon
    <3> QED
      BY <3>1 DEF PiecesAt
  <2>2. \A i \in 1..Len(p) : /\ p[i] \in Piece /\ p[i].from \in Nat /\ p[i].to \in Nat
                             /\ c.from <= p[i].from /\ p[i].from < p[i].to /\ p[i].to <= c.to
    <3>1. \A i \in 1..Len(p) : /\ p[i].from \in Nat /\ p[i].to \in Nat
                               /\ c.from <= p[i].from /\ p[i].from < p[i].to /\ p[i].to <= c.to
      BY <1>1, <2>1, TilingSpans
    <3>2. \A i \in 1..Len(p) : p[i] \in Piece
      BY <2>1, LenProperties DEF Tiling
    <3> QED
      BY <3>1, <3>2
  <2>3. DOMAIN p = 1..Len(p)
    BY <2>1, LenProperties DEF Tiling
  <2> DEFINE slices == UNION {Slices(p[i]) : i \in 1..Len(p)}
             all == cuts \cup slices
  <2>4. f = Cut(c, all)
    BY <1>3, <2>3 DEF Capped
  <2>5. \A x \in slices : \E k \in 1..Len(p) : x \in Slices(p[k])
    OBVIOUS
  <2>6. \A k \in 1..Len(p) : \A x \in Slices(p[k]) : x \in slices
    OBVIOUS
  <2> HIDE DEF slices
  <2>7. slices \subseteq (c.from + 1)..(c.to - 1)
    <3> SUFFICES ASSUME NEW x \in slices PROVE x \in (c.from + 1)..(c.to - 1)
      OBVIOUS
    <3>1. PICK k \in 1..Len(p) : x \in Slices(p[k])
      BY <2>5
    <3>2. x \in (p[k].from + 1)..(p[k].to - 1)
      BY <2>2, <3>1, SliceIs
    <3>3. p[k].from \in Nat /\ p[k].to \in Nat /\ c.from <= p[k].from /\ p[k].to <= c.to
      BY <2>2
    <3> QED
      BY <1>1, <3>2, <3>3
  <2>8. all \subseteq (c.from + 1)..(c.to - 1)
    BY <2>7
  <2>9. /\ Tiling(f, c.from, c.to)
        /\ \A i \in 1..Len(f) : f[i].to \in all \cup {c.to} /\ f[i].from \in all \cup {c.from}
        /\ \A i \in 1..Len(f) : \A h \in all : ~(f[i].from < h /\ h < f[i].to)
    <3> HIDE DEF all
    <3>1. PiecesAt(f, c, all)
      BY <2>4, <2>8, CutIs, Zenon
    <3> QED
      BY <3>1 DEF PiecesAt
  <2>10. \A i \in 1..Len(f) : /\ f[i].from \in Nat /\ f[i].to \in Nat
                              /\ c.from <= f[i].from /\ f[i].from < f[i].to /\ f[i].to <= c.to
    BY <1>1, <2>9, TilingSpans
  <2>11. ASSUME NEW i \in 1..Len(f) PROVE f[i].to - f[i].from <= Cap
    <3> DEFINE x == f[i].from
    <3>1. x \in Nat /\ f[i].to \in Nat /\ x < f[i].to /\ f[i].to <= c.to
      BY <2>10
    <3>2. SUFFICES ASSUME x + Cap < f[i].to PROVE FALSE
      BY <3>1
    <3>3. PICK k \in 1..Len(p) : /\ x = p[k].from \/ x \in Slices(p[k])
                                 /\ x < p[k].to
      <4>1. CASE x \in slices
        <5>1. PICK k \in 1..Len(p) : x \in Slices(p[k])
          BY <2>5, <4>1
        <5>2. x \in (p[k].from + 1)..(p[k].to - 1)
          BY <2>2, <5>1, SliceIs
        <5>3. x < p[k].to
          BY <2>2, <5>2
        <5> QED
          BY <5>1, <5>3
      <4>2. CASE x \in cuts \cup {c.from}
        <5>1. PICK k \in 1..Len(p) : p[k].from = x
          BY <2>1, <4>2
        <5> QED
          BY <2>2, <5>1
      <4> QED
        BY <2>9, <4>1, <4>2
    <3>4. p[k] \in Piece /\ p[k].to \in Nat
      BY <2>2
    <3>5. CASE x + Cap < p[k].to
      <4>1. x + Cap \in Slices(p[k])
        BY <3>3, <3>4, <3>5, SliceNext
      <4>2. x + Cap \in all
        BY <2>6, <4>1
      <4>3. ~(x < x + Cap /\ x + Cap < f[i].to)
        BY <2>9, <4>2
      <4> QED
        BY <3>1, <3>2, <4>3
    <3>6. CASE ~(x + Cap < p[k].to)
      <4>1. p[k].to <= x + Cap /\ p[k].to < f[i].to /\ p[k].to < c.to
        BY <1>1, <3>1, <3>2, <3>4, <3>6, SMTT(30)
      <4>2. p[k].to \in all
        BY <1>1, <2>1, <3>4, <4>1
      <4>3. ~(x < p[k].to /\ p[k].to < f[i].to)
        BY <2>9, <4>2
      <4> QED
        BY <3>3, <4>1, <4>3
    <3> QED
      BY <3>5, <3>6
  <2>12. ASSUME NEW i \in 1..Len(f)
         PROVE  \/ f[i].to \in cuts \cup {c.to}
                \/ \E k \in 1..Len(p) : /\ p[k].from < f[i].to /\ f[i].to < p[k].to
                                        /\ p[k].from + Cap <= f[i].to
    <3>1. f[i].to \in cuts \cup {c.to} \/ f[i].to \in slices
      BY <2>9
    <3>2. ASSUME f[i].to \in slices
          PROVE  \E k \in 1..Len(p) : /\ p[k].from < f[i].to /\ f[i].to < p[k].to
                                      /\ p[k].from + Cap <= f[i].to
      <4>1. PICK k \in 1..Len(p) : f[i].to \in Slices(p[k])
        BY <2>5, <3>2
      <4>2. /\ f[i].to \in (p[k].from + 1)..(p[k].to - 1)
            /\ \E j \in Nat : j >= 1 /\ f[i].to = p[k].from + j * Cap
        BY <2>2, <4>1, SliceIs
      <4>3. PICK j \in Nat : j >= 1 /\ f[i].to = p[k].from + j * Cap
        BY <4>2
      <4>4. p[k].from \in Nat /\ p[k].to \in Nat
        BY <2>2
      <4>5. Cap <= j * Cap /\ j * Cap \in Nat
        <5>1. (j - 1) * Cap \in Nat /\ ((j - 1) + 1) * Cap = (j - 1) * Cap + Cap /\ (j - 1) + 1 = j
          BY <4>3, Multiples
        <5> QED
          BY <5>1
      <4> QED
        <5>1. p[k].from < f[i].to /\ f[i].to < p[k].to
          <6>1. \A a, b, y \in Nat : y \in (a + 1)..(b - 1) => a < y /\ y < b
            OBVIOUS
          <6>2. f[i].to \in Nat
            BY <2>10
          <6> QED
            BY <4>2, <4>4, <6>1, <6>2
        <5>2. p[k].from + Cap <= f[i].to
          <6>1. PICK y \in Nat : y = j * Cap /\ Cap <= y
            BY <4>5
          <6>2. f[i].to = p[k].from + y
            BY <4>3, <6>1, Zenon
          <6> QED
            BY <4>4, <6>1, <6>2, FurtherBy
        <5> QED
          BY <5>1, <5>2
    <3> QED
      BY <3>1, <3>2
  <2>13. c.to - c.from > Cap
    BY <1>1, <1>3 DEF Size
  <2> QED
    BY <2>9, <2>11, <2>12, <2>13
<1> QED
  BY <1>2, <1>3

\* Two lists one after the other.
Follow(c, a, b) ==
  /\ Len(c) = Len(a) + Len(b)
  /\ \A i \in 1..Len(a) : i \in 1..Len(c) /\ c[i] = a[i]
  /\ \A j \in 1..Len(b) : Len(a) + j \in 1..Len(c) /\ c[Len(a) + j] = b[j]
  /\ \A k \in 1..Len(c) : k \in 1..Len(a) \/ k - Len(a) \in 1..Len(b)

LEMMA JoinedIs ==
  ASSUME NEW S, NEW a \in Seq(S), NEW b \in Seq(S), NEW c, c = a \o b
  PROVE  c \in Seq(S) /\ Follow(c, a, b)
<1>1. Len(a) \in Nat /\ Len(b) \in Nat
  BY LenProperties
<1>2. /\ c \in Seq(S) /\ Len(c) = Len(a) + Len(b)
      /\ \A i \in 1..Len(c) : c[i] = IF i <= Len(a) THEN a[i] ELSE b[i - Len(a)]
  BY ConcatProperties
<1>3. ASSUME NEW i \in 1..Len(a) PROVE i \in 1..Len(c) /\ c[i] = a[i]
  <2>1. i \in 1..Len(c) /\ i <= Len(a)
    BY <1>1, <1>2
  <2> QED
    BY <1>2, <2>1
<1>4. ASSUME NEW j \in 1..Len(b) PROVE Len(a) + j \in 1..Len(c) /\ c[Len(a) + j] = b[j]
  <2>1. Len(a) + j \in 1..Len(c) /\ ~(Len(a) + j <= Len(a)) /\ (Len(a) + j) - Len(a) = j
    BY <1>1, <1>2
  <2>2. c[Len(a) + j] = b[(Len(a) + j) - Len(a)]
    BY <1>2, <2>1
  <2> QED
    BY <2>1, <2>2
<1>5. \A k \in 1..Len(c) : k \in 1..Len(a) \/ k - Len(a) \in 1..Len(b)
  BY <1>1, <1>2
<1> QED
  BY <1>2, <1>3, <1>4, <1>5 DEF Follow

\* Every piece of one of the two is in the joined list, and none else.
MadeOf(c, a, b) ==
  /\ \A k \in 1..Len(c) : (\E i \in 1..Len(a) : c[k] = a[i]) \/ (\E j \in 1..Len(b) : c[k] = b[j])
  /\ \A i \in 1..Len(a) : \E k \in 1..Len(c) : c[k] = a[i]
  /\ \A j \in 1..Len(b) : \E k \in 1..Len(c) : c[k] = b[j]

LEMMA JoinedHas ==
  ASSUME NEW a \in Seq(Piece), NEW b \in Seq(Piece), NEW c, c = a \o b
  PROVE  c \in Seq(Piece) /\ Len(c) \in Nat /\ MadeOf(c, a, b)
<1>1. c \in Seq(Piece) /\ Follow(c, a, b)
  BY JoinedIs
<1>2. Len(c) \in Nat /\ Len(a) \in Nat /\ Len(b) \in Nat
  BY <1>1, LenProperties
<1>3. ASSUME NEW k \in 1..Len(c)
      PROVE  (\E i \in 1..Len(a) : c[k] = a[i]) \/ (\E j \in 1..Len(b) : c[k] = b[j])
  <2>1. CASE k \in 1..Len(a)
    BY <1>1, <2>1 DEF Follow
  <2>2. CASE k - Len(a) \in 1..Len(b)
    <3>1. Len(a) + (k - Len(a)) = k
      BY <1>2
    <3>2. c[Len(a) + (k - Len(a))] = b[k - Len(a)]
      BY <1>1, <2>2 DEF Follow
    <3>3. c[k] = b[k - Len(a)]
      BY <3>1, <3>2, Zenon
    <3> QED
      BY <2>2, <3>3
  <2> QED
    BY <1>1, <2>1, <2>2 DEF Follow
<1>4. \A i \in 1..Len(a) : \E k \in 1..Len(c) : c[k] = a[i]
  BY <1>1 DEF Follow
<1>5. \A j \in 1..Len(b) : \E k \in 1..Len(c) : c[k] = b[j]
  BY <1>1 DEF Follow
<1> QED
  BY <1>1, <1>2, <1>3, <1>4, <1>5 DEF MadeOf

LEMMA JoinedCovers ==
  ASSUME NEW a \in Seq(Piece), NEW b \in Seq(Piece), NEW c, c = a \o b
  PROVE  Covered(c) = Covered(a) \cup Covered(b)
<1>1. /\ c \in Seq(Piece)
      /\ \A k \in 1..Len(c) : (\E i \in 1..Len(a) : c[k] = a[i]) \/ (\E j \in 1..Len(b) : c[k] = b[j])
      /\ \A i \in 1..Len(a) : \E k \in 1..Len(c) : c[k] = a[i]
      /\ \A j \in 1..Len(b) : \E k \in 1..Len(c) : c[k] = b[j]
  <2>1. c \in Seq(Piece) /\ MadeOf(c, a, b)
    BY JoinedHas
  <2> QED
    BY <2>1 DEF MadeOf
<1>2. ASSUME NEW x \in Covered(c) PROVE x \in Covered(a) \cup Covered(b)
  <2>1. PICK k \in 1..Len(c) : x \in (c[k].from + 1)..c[k].to
    BY <1>1, CoveredIs
  <2>2. CASE \E i \in 1..Len(a) : c[k] = a[i]
    BY <2>1, <2>2, CoveredIs
  <2>3. CASE \E j \in 1..Len(b) : c[k] = b[j]
    BY <2>1, <2>3, CoveredIs
  <2> QED
    BY <1>1, <2>2, <2>3
<1>3. ASSUME NEW x \in Covered(a) PROVE x \in Covered(c)
  <2>1. PICK i \in 1..Len(a) : x \in (a[i].from + 1)..a[i].to
    BY CoveredIs
  <2>2. PICK k \in 1..Len(c) : c[k] = a[i]
    BY <1>1
  <2> QED
    BY <1>1, <2>1, <2>2, CoveredIs
<1>4. ASSUME NEW x \in Covered(b) PROVE x \in Covered(c)
  <2>1. PICK j \in 1..Len(b) : x \in (b[j].from + 1)..b[j].to
    BY CoveredIs
  <2>2. PICK k \in 1..Len(c) : c[k] = b[j]
    BY <1>1
  <2> QED
    BY <1>1, <2>1, <2>2, CoveredIs
<1> QED
  BY <1>2, <1>3, <1>4

\* All pieces of one end before those of the other begin.
Before(a, b) == \A i \in 1..Len(a) : \A j \in 1..Len(b) : a[i].to <= b[j].from

LEMMA JoinedInOrder ==
  ASSUME NEW a \in Seq(Piece), NEW b \in Seq(Piece), NEW c, c = a \o b,
         InOrder(a), InOrder(b), Before(a, b)
  PROVE  InOrder(c)
<1>1. Follow(c, a, b) /\ Len(a) \in Nat /\ Len(b) \in Nat
  BY JoinedIs, LenProperties
<1>2. SUFFICES ASSUME NEW i \in 1..Len(c), NEW k \in 1..Len(c), i < k PROVE c[i].to <= c[k].from
  BY DEF InOrder
<1>3. /\ i \in 1..Len(a) \/ i - Len(a) \in 1..Len(b)
      /\ k \in 1..Len(a) \/ k - Len(a) \in 1..Len(b)
      /\ i \in 1..Len(a) => c[i] = a[i]
      /\ k \in 1..Len(a) => c[k] = a[k]
  BY <1>1 DEF Follow
<1>4. ASSUME NEW m \in 1..Len(c), m - Len(a) \in 1..Len(b) PROVE c[m] = b[m - Len(a)]
  <2>1. c[Len(a) + (m - Len(a))] = b[m - Len(a)]
    BY <1>1, <1>4 DEF Follow
  <2>2. Len(a) + (m - Len(a)) = m
    BY <1>1
  <2> QED
    BY <2>1, <2>2, Zenon
<1>5. CASE i \in 1..Len(a) /\ k \in 1..Len(a)
  BY <1>2, <1>3, <1>5 DEF InOrder
<1>6. CASE i \in 1..Len(a) /\ k - Len(a) \in 1..Len(b)
  <2>1. c[k] = b[k - Len(a)] /\ c[i] = a[i]
    BY <1>3, <1>4, <1>6
  <2>2. a[i].to <= b[k - Len(a)].from
    BY <1>6 DEF Before
  <2> QED
    BY <2>1, <2>2
<1>7. CASE i - Len(a) \in 1..Len(b) /\ k - Len(a) \in 1..Len(b)
  <2>1. c[k] = b[k - Len(a)] /\ c[i] = b[i - Len(a)] /\ i - Len(a) < k - Len(a)
    BY <1>1, <1>2, <1>4, <1>7
  <2>2. b[i - Len(a)].to <= b[k - Len(a)].from
    BY <1>7, <2>1 DEF InOrder
  <2> QED
    BY <2>1, <2>2
<1>8. ~(i - Len(a) \in 1..Len(b) /\ k \in 1..Len(a))
  BY <1>1, <1>2
<1> QED
  BY <1>3, <1>5, <1>6, <1>7, <1>8

LEMMA RestIs ==
  ASSUME NEW r \in Seq(Piece), r # <<>>
  PROVE  /\ Tail(r) \in Seq(Piece) /\ Head(r) = r[1] /\ Head(r) \in Piece /\ 1 \in 1..Len(r)
         /\ Len(r) \in Nat /\ Len(Tail(r)) = Len(r) - 1
         /\ \A i \in 1..Len(Tail(r)) : i + 1 \in 1..Len(r) /\ Tail(r)[i] = r[i + 1]
         /\ Covered(r) = Covered(<<Head(r)>>) \cup Covered(Tail(r))
<1>1. Len(r) \in Nat /\ Len(r) # 0
  BY EmptySeq, LenProperties
<1>2. /\ Head(r) = r[1] /\ Head(r) \in Piece /\ Tail(r) \in Seq(Piece) /\ Len(Tail(r)) = Len(r) - 1
      /\ \A i \in 1..Len(Tail(r)) : Tail(r)[i] = r[i + 1]
  BY HeadTailProperties
<1>3. 1 \in 1..Len(r) /\ \A i \in 1..Len(Tail(r)) : i + 1 \in 1..Len(r)
  BY <1>1, <1>2
<1>4. Covered(r) = Covered(<<Head(r)>>) \cup Covered(Tail(r))
  <2>1. r = <<Head(r)>> \o Tail(r)
    BY HeadTailProperties
  <2>2. <<Head(r)>> \in Seq(Piece)
    BY <1>2
  <2> QED
    BY <1>2, <2>1, <2>2, JoinedCovers
<1> QED
  BY <1>1, <1>2, <1>3, <1>4

-----------------------------------------------------------------------------
(* The documents: their sections tile the text, chunks lie in its order,    *)
(* and what is ready holds the sections before the one in hand (ReadyTo).   *)

BoundsOf(d) == d.ends \cup {0, d.length}
EndsIn(d, c) == {e \in d.ends : c.from < e /\ e < c.to}
SectionsOf(d) == Cut(Chunk(0, d.length), d.headings \ {0})
FitsIn(d, limit, pieces) == \A i \in DOMAIN pieces : Size(pieces[i]) <= limit \/ EndsIn(d, pieces[i]) = {}

Proper(list, d) ==
  /\ list \in Seq(Piece) /\ InOrder(list)
  /\ \A i \in 1..Len(list) : list[i].from < list[i].to /\ list[i].to <= d.length
AtBounds(list, d) == \A i \in 1..Len(list) : list[i].from \in BoundsOf(d) /\ list[i].to \in BoundsOf(d)

\* The text of a section is there, or it was too short.
Held(s, covered) == ((s.from + 1)..s.to) \subseteq covered \/ s.to - s.from < Short

\* What is ready when a section is next: all that was not short before it.
ReadyTo(d, s, r) ==
  /\ Proper(r, d) /\ AtBounds(r, d)
  /\ s <= Len(SectionsOf(d)) => \A i \in 1..Len(r) : r[i].to <= SectionsOf(d)[s].from
  /\ \A k \in 1..Len(SectionsOf(d)) : k < s => Held(SectionsOf(d)[k], Covered(r))

\* What a section adds.
Adds(d, s, new) ==
  \/ new = <<>> /\ SectionsOf(d)[s].to - SectionsOf(d)[s].from < Short
  \/ Tiling(new, SectionsOf(d)[s].from, SectionsOf(d)[s].to) /\ AtBounds(new, d)

LEMMA TextIs ==
  ASSUME NEW d, WellFormed(d)
  PROVE  /\ d.length \in Nat /\ d.length # 0
         /\ \A e \in d.ends : e \in Nat /\ 0 < e /\ e < d.length
         /\ \A h \in d.headings : h \in BoundsOf(d) /\ (h # 0 => h \in d.ends)
         /\ BoundsOf(d) \subseteq Nat
         /\ Chunk(0, d.length) \in Piece /\ Chunk(0, d.length).from = 0 /\ Chunk(0, d.length).to = d.length
         /\ 0 \in BoundsOf(d) /\ d.length \in BoundsOf(d)
<1>1. d.length \in Nat /\ d.length # 0
  BY DEF WellFormed
<1>2. \A e \in d.ends : e \in Nat /\ 0 < e /\ e < d.length
  BY <1>1 DEF WellFormed
<1>3. \A h \in d.headings : h \in BoundsOf(d) /\ (h # 0 => h \in d.ends)
  BY DEF WellFormed, BoundsOf
<1>4. BoundsOf(d) \subseteq Nat
  BY <1>1, <1>2 DEF BoundsOf
<1>5. Chunk(0, d.length) \in Piece /\ Chunk(0, d.length).from = 0 /\ Chunk(0, d.length).to = d.length
  BY <1>1, ChunkIs
<1> QED
  BY <1>1, <1>2, <1>3, <1>4, <1>5 DEF BoundsOf

LEMMA CutInText ==
  ASSUME NEW d, WellFormed(d), NEW c \in Piece, c.from < c.to, c.from \in BoundsOf(d), c.to \in BoundsOf(d),
         NEW cuts, cuts \subseteq EndsIn(d, c), NEW f, f = Cut(c, cuts)
  PROVE  PiecesAt(f, c, cuts) /\ AtBounds(f, d)
<1>1. c.from \in Nat /\ c.to \in Nat
  BY PieceIs
<1>2. cuts \subseteq (c.from + 1)..(c.to - 1)
  <2> SUFFICES ASSUME NEW e \in cuts PROVE e \in (c.from + 1)..(c.to - 1)
    OBVIOUS
  <2>1. e \in d.ends /\ c.from < e /\ e < c.to
    BY DEF EndsIn
  <2>2. e \in Nat
    BY <2>1, TextIs
  <2> QED
    BY <1>1, <2>1, <2>2
<1>3. PiecesAt(f, c, cuts)
  BY <1>2, CutIs, Zenon
<1>4. cuts \subseteq BoundsOf(d)
  BY DEF EndsIn, BoundsOf
<1>5. AtBounds(f, d)
  <2> SUFFICES ASSUME NEW i \in 1..Len(f) PROVE f[i].from \in BoundsOf(d) /\ f[i].to \in BoundsOf(d)
    BY DEF AtBounds
  <2>1. f[i].to \in cuts \cup {c.to} /\ f[i].from \in cuts \cup {c.from}
    BY <1>3 DEF PiecesAt
  <2> QED
    BY <1>4, <2>1
<1> QED
  BY <1>3, <1>5

LEMMA SectionsTile ==
  ASSUME NEW d, WellFormed(d), NEW S, S = SectionsOf(d)
  PROVE  Tiling(S, 0, d.length) /\ AtBounds(S, d)
<1> DEFINE c == Chunk(0, d.length)
           cuts == d.headings \ {0}
<1>1. /\ c \in Piece /\ c.from = 0 /\ c.to = d.length
      /\ d.length \in Nat /\ d.length # 0 /\ 0 \in BoundsOf(d) /\ d.length \in BoundsOf(d)
  BY TextIs
<1>2. cuts \subseteq EndsIn(d, c)
  <2> SUFFICES ASSUME NEW h \in cuts PROVE h \in EndsIn(d, c)
    OBVIOUS
  <2>1. h \in d.ends /\ 0 < h /\ h < d.length
    BY TextIs
  <2> QED
    BY <1>1, <2>1 DEF EndsIn
<1>3. S = Cut(c, cuts)
  BY DEF SectionsOf
<1>4. c.from < c.to
  BY <1>1
<1> HIDE DEF c, cuts
<1>5. PiecesAt(S, c, cuts) /\ AtBounds(S, d)
  BY <1>1, <1>2, <1>3, <1>4, CutInText
<1> QED
  BY <1>1, <1>5 DEF PiecesAt

LEMMA SectionIs ==
  ASSUME NEW d, WellFormed(d), NEW S, S = SectionsOf(d), NEW s \in 1..Len(S)
  PROVE  /\ S[s] \in Piece /\ S[s].from \in Nat /\ S[s].to \in Nat
         /\ S[s].from < S[s].to /\ S[s].to <= d.length
         /\ S[s].from \in BoundsOf(d) /\ S[s].to \in BoundsOf(d)
         /\ \A k \in 1..Len(S) : (s < k => S[s].to <= S[k].from) /\ (k < s => S[k].to <= S[s].from)
<1>1. Tiling(S, 0, d.length) /\ AtBounds(S, d) /\ d.length \in Nat
  BY SectionsTile, TextIs
<1>2. S \in Seq(Piece) /\ InOrder(S)
  BY <1>1 DEF Tiling
<1>3. S[s] \in Piece
  BY <1>2, LenProperties
<1>4. S[s].from \in Nat /\ S[s].to \in Nat /\ S[s].from < S[s].to /\ S[s].to <= d.length
  BY <1>1, TilingSpans
<1> QED
  BY <1>1, <1>2, <1>3, <1>4 DEF AtBounds, InOrder

\* f covers the text between two places, and nothing else.
Spans(f, d, from, to) ==
  /\ Proper(f, d) /\ Covered(f) = (from + 1)..to /\ f # <<>>
  /\ \A i \in 1..Len(f) : from <= f[i].from /\ f[i].to <= to

LEMMA TilingProper ==
  ASSUME NEW d, WellFormed(d), NEW from \in Nat, NEW to \in Nat, to <= d.length, NEW f, Tiling(f, from, to)
  PROVE  Spans(f, d, from, to)
<1>1. /\ f \in Seq(Piece) /\ InOrder(f) /\ Len(f) \in Nat \ {0}
  BY DEF Tiling
<1>2. \A i \in 1..Len(f) : /\ f[i].from \in Nat /\ f[i].to \in Nat
                           /\ from <= f[i].from /\ f[i].from < f[i].to /\ f[i].to <= to
  BY TilingSpans
<1>3. d.length \in Nat
  BY TextIs
<1>4. \A i \in 1..Len(f) : f[i].to <= d.length
  BY <1>2, <1>3
<1>5. f # <<>>
  BY <1>1
<1>6. Proper(f, d)
  BY <1>1, <1>2, <1>4 DEF Proper
<1> QED
  BY <1>2, <1>5, <1>6, TilingCovers DEF Spans

LEMMA ProperIs ==
  ASSUME NEW d, NEW f, Proper(f, d)
  PROVE  /\ f \in Seq(Piece) /\ InOrder(f) /\ Len(f) \in Nat /\ DOMAIN f = 1..Len(f)
         /\ \A i \in 1..Len(f) : /\ f[i] \in Piece /\ f[i].from \in Nat /\ f[i].to \in Nat
                                 /\ f[i].from < f[i].to /\ f[i].to <= d.length
<1>1. /\ f \in Seq(Piece) /\ InOrder(f)
      /\ \A i \in 1..Len(f) : f[i].from < f[i].to /\ f[i].to <= d.length
  BY DEF Proper
<1>2. Len(f) \in Nat /\ DOMAIN f = 1..Len(f) /\ \A i \in 1..Len(f) : f[i] \in Piece
  BY <1>1, LenProperties
<1> QED
  BY <1>1, <1>2, PieceIs

LEMMA NothingProper ==
  ASSUME NEW d
  PROVE  Proper(<<>>, d) /\ AtBounds(<<>>, d) /\ Covered(<<>>) = {}
<1>1. <<>> \in Seq(Piece) /\ Len(<<>>) = 0
  OBVIOUS
<1>2. Covered(<<>>) = {}
  BY DEF Covered
<1> QED
  BY <1>1, <1>2 DEF Proper, AtBounds, InOrder

JoinsTo(d, c, a, b) == Proper(c, d) /\ Covered(c) = Covered(a) \cup Covered(b) /\ MadeOf(c, a, b)

LEMMA JoinedProper ==
  ASSUME NEW d, NEW a, NEW b, Proper(a, d), Proper(b, d), Before(a, b), NEW c, c = a \o b
  PROVE  JoinsTo(d, c, a, b)
<1>1. a \in Seq(Piece) /\ b \in Seq(Piece) /\ InOrder(a) /\ InOrder(b)
  BY ProperIs
<1>2. c \in Seq(Piece) /\ MadeOf(c, a, b) /\ InOrder(c) /\ Covered(c) = Covered(a) \cup Covered(b)
  BY <1>1, JoinedHas, JoinedInOrder, JoinedCovers
<1>3. ASSUME NEW k \in 1..Len(c) PROVE c[k].from < c[k].to /\ c[k].to <= d.length
  BY <1>2 DEF MadeOf, Proper
<1> QED
  BY <1>2, <1>3 DEF Proper, JoinsTo

\* After a section, what is ready holds that section too.
LEMMA ReadyAdds ==
  ASSUME NEW d, WellFormed(d), NEW s \in 1..Len(SectionsOf(d)), NEW r, ReadyTo(d, s, r),
         NEW new, Adds(d, s, new), NEW j, j = r \o new
  PROVE  ReadyTo(d, s + 1, j)
<1> DEFINE S == SectionsOf(d)
<1>1. /\ Proper(r, d) /\ AtBounds(r, d)
      /\ \A k \in 1..Len(S) : k < s => Held(S[k], Covered(r))
  BY DEF ReadyTo
<1>2. Len(S) \in Nat /\ s \in Nat /\ 1 <= s /\ s <= Len(S)
  <2>1. Tiling(S, 0, d.length)
    BY SectionsTile
  <2> QED
    BY <2>1 DEF Tiling
<1>3. \A i \in 1..Len(r) : r[i].to <= S[s].from
  BY <1>2 DEF ReadyTo
<1>4. /\ S[s] \in Piece /\ S[s].from \in Nat /\ S[s].to \in Nat
      /\ S[s].from < S[s].to /\ S[s].to <= d.length
      /\ \A k \in 1..Len(S) : s < k => S[s].to <= S[k].from
  BY SectionIs
<1>5. s + 1 <= Len(S) => /\ s + 1 \in 1..Len(S) /\ S[s + 1].from \in Nat /\ S[s].to <= S[s + 1].from
  <2> SUFFICES ASSUME s + 1 <= Len(S) PROVE s + 1 \in 1..Len(S) /\ S[s + 1].from \in Nat /\ S[s].to <= S[s + 1].from
    OBVIOUS
  <2>1. s + 1 \in 1..Len(S) /\ s < s + 1
    BY <1>2
  <2>2. S[s + 1].from \in Nat
    BY <2>1, SectionIs
  <2> QED
    BY <1>4, <2>1, <2>2
<1>6. \A i \in 1..Len(r) : r[i].to \in Nat /\ r[i] \in Piece
  BY <1>1, ProperIs
<1>7. r \in Seq(Piece)
  BY <1>1, ProperIs
<1> HIDE DEF S
<1>8. CASE new = <<>> /\ S[s].to - S[s].from < Short
  <2>1. j = r
    BY <1>7, <1>8, ConcatEmptySeq
  <2>2. Held(S[s], Covered(j))
    BY <1>8 DEF Held
  <2>3. \A k \in 1..Len(S) : k < s + 1 => Held(S[k], Covered(j))
    <3> SUFFICES ASSUME NEW k \in 1..Len(S), k < s + 1 PROVE Held(S[k], Covered(j))
      OBVIOUS
    <3>1. k < s \/ k = s
      BY <1>2
    <3> QED
      BY <1>1, <2>1, <2>2, <3>1
  <2>4. s + 1 <= Len(S) => \A i \in 1..Len(j) : j[i].to <= S[s + 1].from
    <3> SUFFICES ASSUME s + 1 <= Len(S), NEW i \in 1..Len(j) PROVE j[i].to <= S[s + 1].from
      OBVIOUS
    <3>1. j[i].to <= S[s].from /\ j[i].to \in Nat
      BY <1>3, <1>6, <2>1
    <3>2. /\ S[s].from \in Nat /\ S[s].to \in Nat /\ S[s + 1].from \in Nat
          /\ S[s].from < S[s].to /\ S[s].to <= S[s + 1].from
      BY <1>4, <1>5
    <3> QED
      BY <3>1, <3>2, Across, Zenon
  <2> QED
    BY <1>1, <2>1, <2>3, <2>4 DEF ReadyTo, S
<1>9. CASE Tiling(new, S[s].from, S[s].to) /\ AtBounds(new, d)
  <2>1. /\ Proper(new, d) /\ Covered(new) = (S[s].from + 1)..S[s].to
        /\ \A i \in 1..Len(new) : S[s].from <= new[i].from /\ new[i].to <= S[s].to
    <3>1. Spans(new, d, S[s].from, S[s].to)
      BY <1>4, <1>9, TilingProper
    <3> QED
      BY <3>1 DEF Spans
  <2>2. Before(r, new)
    <3> SUFFICES ASSUME NEW i \in 1..Len(r), NEW k \in 1..Len(new) PROVE r[i].to <= new[k].from
      BY DEF Before
    <3>1. r[i].to <= S[s].from /\ r[i].to \in Nat /\ S[s].from <= new[k].from /\ new[k].from \in Nat
      BY <1>3, <1>6, <2>1, ProperIs
    <3> QED
      BY <1>4, <3>1, Through
  <2>3. Proper(j, d) /\ Covered(j) = Covered(r) \cup Covered(new) /\ MadeOf(j, r, new)
    <3>1. Proper(r, d) /\ Proper(new, d) /\ j = r \o new
      BY <1>1, <2>1
    <3>2. JoinsTo(d, j, r, new)
      BY <2>2, <3>1, JoinedProper
    <3> QED
      BY <3>2 DEF JoinsTo
  <2>4. AtBounds(j, d)
    <3> SUFFICES ASSUME NEW k \in 1..Len(j) PROVE j[k].from \in BoundsOf(d) /\ j[k].to \in BoundsOf(d)
      BY DEF AtBounds
    <3> QED
      BY <1>1, <1>9, <2>3 DEF AtBounds, MadeOf
  <2>5. \A k \in 1..Len(S) : k < s + 1 => Held(S[k], Covered(j))
    <3> SUFFICES ASSUME NEW k \in 1..Len(S), k < s + 1 PROVE Held(S[k], Covered(j))
      OBVIOUS
    <3>1. CASE k = s
      BY <2>1, <2>3, <3>1 DEF Held
    <3>2. CASE k < s
      BY <1>1, <2>3, <3>2 DEF Held
    <3> QED
      BY <1>2, <3>1, <3>2
  <2>6. s + 1 <= Len(S) => \A i \in 1..Len(j) : j[i].to <= S[s + 1].from
    <3> SUFFICES ASSUME s + 1 <= Len(S), NEW k \in 1..Len(j) PROVE j[k].to <= S[s + 1].from
      OBVIOUS
    <3>1. CASE \E i \in 1..Len(r) : j[k] = r[i]
      <4>1. j[k].to <= S[s].from /\ j[k].to \in Nat
        BY <1>3, <1>6, <3>1
      <4> QED
        <5>1. /\ S[s].from \in Nat /\ S[s].to \in Nat /\ S[s + 1].from \in Nat
              /\ S[s].from < S[s].to /\ S[s].to <= S[s + 1].from
          BY <1>4, <1>5
        <5> QED
          BY <4>1, <5>1, Across, Zenon
    <3>2. CASE \E i \in 1..Len(new) : j[k] = new[i]
      <4>1. j[k].to <= S[s].to /\ j[k].to \in Nat
        BY <2>1, <3>2, ProperIs
      <4> QED
        <5>1. S[s].to \in Nat /\ S[s + 1].from \in Nat /\ S[s].to <= S[s + 1].from
          BY <1>4, <1>5
        <5> QED
          BY <4>1, <5>1, Through, Zenon
    <3> QED
      BY <2>3, <3>1, <3>2 DEF MadeOf
  <2> QED
    BY <2>3, <2>4, <2>5, <2>6 DEF ReadyTo, S
<1> QED
  BY <1>8, <1>9 DEF Adds, S

\* The whole text, however it is cut, holds every section.
LEMMA ReadyWhole ==
  ASSUME NEW d, WellFormed(d), NEW f, Tiling(f, 0, d.length), AtBounds(f, d),
         NEW s, s = Len(SectionsOf(d)) + 1
  PROVE  ReadyTo(d, s, f) /\ f # <<>>
<1>1. d.length \in Nat /\ d.length <= d.length
  BY TextIs
<1>2. Proper(f, d) /\ Covered(f) = (0 + 1)..d.length /\ f # <<>>
  <2>1. 0 \in Nat /\ Spans(f, d, 0, d.length)
    BY <1>1, TilingProper
  <2> QED
    BY <2>1 DEF Spans
<1>3. Len(SectionsOf(d)) \in Nat
  <2>1. Tiling(SectionsOf(d), 0, d.length)
    BY SectionsTile
  <2> QED
    BY <2>1 DEF Tiling
<1>4. \A k \in 1..Len(SectionsOf(d)) : Held(SectionsOf(d)[k], Covered(f))
  <2> SUFFICES ASSUME NEW k \in 1..Len(SectionsOf(d)) PROVE Held(SectionsOf(d)[k], Covered(f))
    OBVIOUS
  <2>1. /\ SectionsOf(d)[k].from \in Nat /\ SectionsOf(d)[k].to \in Nat
        /\ SectionsOf(d)[k].to <= d.length
    BY SectionIs
  <2>2. ((SectionsOf(d)[k].from + 1)..SectionsOf(d)[k].to) \subseteq (0 + 1)..d.length
    BY <1>1, <2>1
  <2> QED
    BY <1>2, <2>2 DEF Held
<1>5. ~(s <= Len(SectionsOf(d)))
  BY <1>3
<1> QED
  BY <1>2, <1>4, <1>5 DEF ReadyTo

\* No small chunk beside one it would fit with, in the same section.
MergedIn(list, S) ==
  \A i \in 1..(Len(list) - 1) : \A k \in 1..Len(S) :
    /\ list[i].from >= S[k].from /\ list[i + 1].to <= S[k].to
    /\ Size(list[i]) < MinChunk
    => Size(list[i]) + Size(list[i + 1]) >= Joint

LEMMA NoCycle ==
  ASSUME NEW a \in Nat, NEW b \in Nat, NEW c \in Nat, a <= b, b < c, c <= a
  PROVE  FALSE
OBVIOUS

LEMMA MergedAdds ==
  ASSUME NEW d, WellFormed(d), NEW S, S = SectionsOf(d), NEW s \in 1..Len(S), NEW r, ReadyTo(d, s, r),
         MergedIn(r, S), NEW new, Adds(d, s, new), MergedIn(new, S), NEW j, j = r \o new
  PROVE  MergedIn(j, S)
<1>0. Proper(r, d) /\ s \in Nat /\ Len(S) \in Nat /\ s <= Len(S)
  <2>1. Tiling(S, 0, d.length)
    BY SectionsTile
  <2> QED
    BY <2>1 DEF Tiling, ReadyTo
<1>1. r \in Seq(Piece) /\ Len(r) \in Nat /\ \A i \in 1..Len(r) : r[i].from \in Nat /\ r[i].to \in Nat /\ r[i].from < r[i].to
  BY <1>0, ProperIs
<1>2. \A i \in 1..Len(r) : r[i].to <= S[s].from
  BY <1>0 DEF ReadyTo
<1>3. CASE new = <<>>
  BY <1>1, <1>3, ConcatEmptySeq
<1>4. CASE new # <<>>
  <2>1. Tiling(new, S[s].from, S[s].to)
    BY <1>4 DEF Adds
  <2>2. /\ S[s].from \in Nat /\ S[s].to \in Nat /\ S[s].from < S[s].to
        /\ \A k \in 1..Len(S) : (s < k => S[s].to <= S[k].from) /\ (k < s => S[k].to <= S[s].from)
    BY SectionIs
  <2>3. /\ new \in Seq(Piece) /\ Len(new) \in Nat /\ new[1].from = S[s].from /\ 1 \in 1..Len(new)
        /\ new[1].to \in Nat /\ S[s].from < new[1].to
    <3>1. new \in Seq(Piece) /\ Len(new) \in Nat \ {0} /\ new[1].from = S[s].from
      BY <2>1 DEF Tiling
    <3>2. 1 \in 1..Len(new)
      BY <3>1
    <3>3. new[1].to \in Nat /\ new[1].from < new[1].to
      BY <2>1, <2>2, <3>2, TilingSpans
    <3> QED
      BY <3>1, <3>2, <3>3
  <2>4. Follow(j, r, new)
    BY <1>1, <2>3, JoinedIs
  <2>5. SUFFICES ASSUME NEW i \in 1..(Len(j) - 1), NEW k \in 1..Len(S),
                        j[i].from >= S[k].from, j[i + 1].to <= S[k].to, Size(j[i]) < MinChunk
                 PROVE  Size(j[i]) + Size(j[i + 1]) >= Joint
    BY DEF MergedIn
  <2>6. Len(j) = Len(r) + Len(new) /\ i \in 1..Len(j) /\ i + 1 \in 1..Len(j) /\ i \in Nat
    BY <1>1, <2>3, <2>4 DEF Follow
  <2>7. \A m \in 1..Len(j) : m - Len(r) \in 1..Len(new) => j[m] = new[m - Len(r)]
    <3> SUFFICES ASSUME NEW m \in 1..Len(j), m - Len(r) \in 1..Len(new) PROVE j[m] = new[m - Len(r)]
      OBVIOUS
    <3>1. j[Len(r) + (m - Len(r))] = new[m - Len(r)]
      BY <2>4 DEF Follow
    <3>2. Len(r) + (m - Len(r)) = m
      BY <1>1, <2>6
    <3> QED
      BY <3>1, <3>2, Zenon
  <2>8. CASE i + 1 <= Len(r)
    <3>1. i \in 1..(Len(r) - 1) /\ i \in 1..Len(r) /\ i + 1 \in 1..Len(r)
      BY <1>1, <2>6, <2>8
    <3>2. j[i] = r[i] /\ j[i + 1] = r[i + 1]
      BY <2>4, <3>1 DEF Follow
    <3> QED
      BY <2>5, <3>1, <3>2 DEF MergedIn
  <2>9. CASE i = Len(r)
    <3>1. i \in 1..Len(r) /\ (i + 1) - Len(r) = 1 /\ i + 1 \in 1..Len(j)
      BY <1>1, <2>6, <2>9
    <3>2. j[i] = r[i] /\ j[i + 1] = new[(i + 1) - Len(r)]
      BY <2>3, <2>4, <2>7, <3>1 DEF Follow
    <3>3. /\ S[k].from <= r[i].from /\ r[i].from < r[i].to /\ r[i].to <= S[s].from
          /\ r[i].from \in Nat /\ r[i].to \in Nat /\ new[1].to <= S[k].to
      BY <1>1, <1>2, <2>5, <3>1, <3>2
    <3>4. S[k].from \in Nat /\ S[k].to \in Nat /\ k \in Nat
      BY SectionIs
    <3>5. S[k].from < S[s].from
      <4>1. S[s].from \in Nat
        BY <2>2, Zenon
      <4> QED
        BY ONLY <3>3, <3>4, <4>1, Climbs
    <3>6. k < s
      BY <1>0, <2>2, <3>4, <3>5
    <3>7. S[k].to <= S[s].from
      BY <2>2, <3>6
    <3> QED
      BY <2>2, <2>3, <3>3, <3>4, <3>7, NoCycle, Zenon
  <2>10. CASE i > Len(r)
    <3>1. /\ i - Len(r) \in 1..(Len(new) - 1) /\ i - Len(r) \in 1..Len(new)
          /\ (i + 1) - Len(r) \in 1..Len(new) /\ (i + 1) - Len(r) = (i - Len(r)) + 1
      BY <1>1, <2>3, <2>6, <2>10
    <3>2. j[i] = new[i - Len(r)] /\ j[i + 1] = new[(i + 1) - Len(r)]
      BY <2>6, <2>7, <3>1
    <3>3. j[i + 1] = new[(i - Len(r)) + 1]
      BY <3>1, <3>2
    <3> QED
      BY <2>5, <3>1, <3>2, <3>3 DEF MergedIn
  <2> QED
    BY <1>1, <2>6, <2>8, <2>9, <2>10
<1> QED
  BY <1>3, <1>4

LEMMA MergedRest ==
  ASSUME NEW S, NEW r \in Seq(Piece), r # <<>>, MergedIn(r, S), NEW t, t = Tail(r)
  PROVE  MergedIn(t, S)
<1>1. /\ Len(r) \in Nat /\ Len(t) = Len(r) - 1
      /\ \A i \in 1..Len(t) : i + 1 \in 1..Len(r) /\ t[i] = r[i + 1]
  BY RestIs
<1>2. SUFFICES ASSUME NEW i \in 1..(Len(t) - 1), NEW k \in 1..Len(S),
                      t[i].from >= S[k].from, t[i + 1].to <= S[k].to, Size(t[i]) < MinChunk
               PROVE  Size(t[i]) + Size(t[i + 1]) >= Joint
  BY DEF MergedIn
<1>3. i + 1 \in 1..(Len(r) - 1) /\ i \in 1..Len(t) /\ i + 1 \in 1..Len(t)
  BY <1>1
<1>4. t[i] = r[i + 1] /\ t[i + 1] = r[(i + 1) + 1]
  BY <1>1, <1>3
<1> QED
  BY <1>2, <1>3, <1>4 DEF MergedIn

LEMMA MergedFew ==
  ASSUME NEW S, NEW list, Len(list) \in {0, 1}
  PROVE  MergedIn(list, S)
<1>1. ASSUME Len(list) = 0 PROVE 1..(Len(list) - 1) = {}
  BY <1>1
<1>2. ASSUME Len(list) = 1 PROVE 1..(Len(list) - 1) = {}
  BY <1>2
<1>3. 1..(Len(list) - 1) = {}
  BY <1>1, <1>2
<1> QED
  BY <1>3 DEF MergedIn

\* An end that is not a line's lies in a line over the hard limit.
LineKept(d, e) ==
  e \notin BoundsOf(d) =>
    \E a, b \in BoundsOf(d) : a < e /\ e < b /\ EndsIn(d, Chunk(a, b)) = {} /\ Size(Chunk(a, b)) > Cap

\* Part of the chunks are within the limit; they come first.
CappedTo(d, c, r) ==
  /\ Proper(c, d) /\ Proper(r, d) /\ Before(c, r) /\ AtBounds(r, d)
  /\ \A i \in 1..Len(c) : Size(c[i]) <= Cap /\ LineKept(d, c[i].to)
  /\ c # <<>> \/ r # <<>>
  /\ \A k \in 1..Len(SectionsOf(d)) : Held(SectionsOf(d)[k], Covered(c) \cup Covered(r))

LEMMA NoneCapped ==
  ASSUME NEW d, WellFormed(d), NEW r, ReadyTo(d, Len(SectionsOf(d)) + 1, r), r # <<>>
  PROVE  CappedTo(d, <<>>, r)
<1>1. Proper(<<>>, d) /\ Covered(<<>>) = {} /\ Len(<<>>) = 0
  BY NothingProper, EmptySeq
<1>2. Len(SectionsOf(d)) \in Nat
  <2>1. Tiling(SectionsOf(d), 0, d.length)
    BY SectionsTile
  <2> QED
    BY <2>1 DEF Tiling
<1>3. \A k \in 1..Len(SectionsOf(d)) : k < Len(SectionsOf(d)) + 1
  BY <1>2
<1>4. \A k \in 1..Len(SectionsOf(d)) : Held(SectionsOf(d)[k], Covered(r))
  BY <1>3 DEF ReadyTo
<1>5. \A k \in 1..Len(SectionsOf(d)) : Held(SectionsOf(d)[k], Covered(<<>>) \cup Covered(r))
  BY <1>1, <1>4
<1>6. 1..Len(<<>>) = {}
  BY <1>1
<1> QED
  BY <1>1, <1>5, <1>6 DEF CappedTo, ReadyTo, Before

LEMMA CappedInText ==
  ASSUME NEW d, WellFormed(d), Cap \in Nat, Cap # 0,
         NEW h \in Piece, h.from < h.to, h.to <= d.length, h.from \in BoundsOf(d), h.to \in BoundsOf(d),
         NEW cuts, cuts \subseteq EndsIn(d, h), Size(h) > Cap => FitsIn(d, Cap, Cut(h, cuts)),
         NEW x, x = Capped(h, cuts)
  PROVE  /\ Tiling(x, h.from, h.to)
         /\ \A i \in 1..Len(x) : Size(x[i]) <= Cap /\ LineKept(d, x[i].to)
<1>1. h.from \in Nat /\ h.to \in Nat
  BY PieceIs
<1>2. cuts \subseteq (h.from + 1)..(h.to - 1)
  <2> SUFFICES ASSUME NEW e \in cuts PROVE e \in (h.from + 1)..(h.to - 1)
    OBVIOUS
  <2>1. e \in d.ends /\ h.from < e /\ e < h.to
    BY DEF EndsIn
  <2>2. e \in Nat
    BY <2>1, TextIs
  <2> QED
    BY <1>1, <2>1, <2>2
<1>3. PICK p : p = Cut(h, cuts)
  OBVIOUS
<1>4. PiecesAt(p, h, cuts) /\ AtBounds(p, d)
  BY <1>3, CutInText, Zenon
<1>5. /\ Tiling(x, h.from, h.to)
      /\ \A i \in 1..Len(x) : x[i].to - x[i].from <= Cap
      /\ \A i \in 1..Len(x) :
           \/ x[i].to \in cuts \cup {h.to}
           \/ /\ h.to - h.from > Cap
              /\ \E k \in 1..Len(p) : /\ p[k].from < x[i].to /\ x[i].to < p[k].to
                                      /\ p[k].from + Cap <= x[i].to
  BY <1>2, <1>3, CappedIs
<1>6. ASSUME NEW i \in 1..Len(x) PROVE LineKept(d, x[i].to)
  <2> SUFFICES ASSUME x[i].to \notin BoundsOf(d)
               PROVE  \E a, b \in BoundsOf(d) : /\ a < x[i].to /\ x[i].to < b
                                                /\ EndsIn(d, Chunk(a, b)) = {} /\ Size(Chunk(a, b)) > Cap
    BY DEF LineKept
  <2>1. x[i].to \notin cuts \cup {h.to}
    BY DEF EndsIn, BoundsOf
  <2>2. h.to - h.from > Cap
    BY <1>5, <2>1
  <2>3. PICK k \in 1..Len(p) : p[k].from < x[i].to /\ x[i].to < p[k].to /\ p[k].from + Cap <= x[i].to
    BY <1>5, <2>1
  <2>4. /\ p[k].from \in Nat /\ p[k].to \in Nat /\ p[k] \in Piece
    <3>1. Tiling(p, h.from, h.to)
      BY <1>4 DEF PiecesAt
    <3>2. p \in Seq(Piece)
      BY <3>1 DEF Tiling
    <3> QED
      BY <3>2, LenProperties, PieceIs
  <2>5. x[i].to \in Nat
    BY <1>1, <1>5, TilingSpans
  <2>6. Size(p[k]) > Cap
    BY <2>3, <2>4, <2>5 DEF Size
  <2>7. EndsIn(d, p[k]) = {}
    <3>1. FitsIn(d, Cap, p)
      BY <1>3, <2>2 DEF Size
    <3>2. k \in DOMAIN p
      <4>1. p \in Seq(Piece)
        BY <1>4 DEF PiecesAt, Tiling
      <4> QED
        BY <4>1, LenProperties
    <3>3. Size(p[k]) \in Int
      BY <2>4 DEF Size
    <3> QED
      BY <2>6, <3>1, <3>2, <3>3 DEF FitsIn
  <2>8. p[k] = Chunk(p[k].from, p[k].to) /\ p[k].from \in BoundsOf(d) /\ p[k].to \in BoundsOf(d)
    BY <1>4, <2>4, PieceIs DEF AtBounds
  <2>9. EndsIn(d, Chunk(p[k].from, p[k].to)) = {} /\ Size(Chunk(p[k].from, p[k].to)) > Cap
    BY <2>6, <2>7, <2>8, Zenon
  <2> QED
    BY <2>3, <2>8, <2>9, Zenon
<1> QED
  BY <1>5, <1>6 DEF Size

LEMMA CapSteps ==
  ASSUME NEW d, WellFormed(d), Cap \in Nat, Cap # 0, NEW c, NEW r, CappedTo(d, c, r), r # <<>>,
         NEW h, h = Head(r), NEW cuts, cuts \subseteq EndsIn(d, h),
         Size(h) > Cap => FitsIn(d, Cap, Cut(h, cuts)),
         NEW x, x = Capped(h, cuts), NEW j, j = c \o x, NEW t, t = Tail(r)
  PROVE  CappedTo(d, j, t)
<1>1. /\ Proper(c, d) /\ Proper(r, d) /\ Before(c, r) /\ AtBounds(r, d)
      /\ \A i \in 1..Len(c) : Size(c[i]) <= Cap /\ LineKept(d, c[i].to)
      /\ \A k \in 1..Len(SectionsOf(d)) : Held(SectionsOf(d)[k], Covered(c) \cup Covered(r))
  BY DEF CappedTo
<1>2. /\ r \in Seq(Piece) /\ InOrder(r)
      /\ \A i \in 1..Len(r) : /\ r[i] \in Piece /\ r[i].from \in Nat /\ r[i].to \in Nat
                              /\ r[i].from < r[i].to /\ r[i].to <= d.length
  BY <1>1, ProperIs
<1>3. /\ t \in Seq(Piece) /\ h = r[1] /\ h \in Piece /\ 1 \in 1..Len(r)
      /\ Len(r) \in Nat /\ Len(t) = Len(r) - 1
      /\ \A i \in 1..Len(t) : i + 1 \in 1..Len(r) /\ t[i] = r[i + 1]
      /\ Covered(r) = Covered(<<h>>) \cup Covered(t)
  BY <1>2, RestIs
<1>4. /\ h.from \in Nat /\ h.to \in Nat /\ h.from < h.to /\ h.to <= d.length
      /\ h.from \in BoundsOf(d) /\ h.to \in BoundsOf(d)
  BY <1>1, <1>2, <1>3 DEF AtBounds
<1>5. /\ Tiling(x, h.from, h.to)
      /\ \A i \in 1..Len(x) : Size(x[i]) <= Cap /\ LineKept(d, x[i].to)
  BY <1>3, <1>4, CappedInText
<1>6. /\ Proper(x, d) /\ Covered(x) = (h.from + 1)..h.to /\ x # <<>>
      /\ \A i \in 1..Len(x) : h.from <= x[i].from /\ x[i].to <= h.to
  <2>1. Spans(x, d, h.from, h.to)
    BY <1>4, <1>5, TilingProper
  <2> QED
    BY <2>1 DEF Spans
<1>7. Covered(<<h>>) = Covered(x)
  BY <1>3, <1>6, OneCovers
<1>8. \A i \in 1..Len(x) : x[i].from \in Nat /\ x[i].to \in Nat
  BY <1>6, ProperIs
<1>9. Before(c, x)
  <2> SUFFICES ASSUME NEW i \in 1..Len(c), NEW k \in 1..Len(x) PROVE c[i].to <= x[k].from
    BY DEF Before
  <2>1. c[i].to <= h.from /\ c[i].to \in Nat
    BY <1>1, <1>3, ProperIs DEF Before
  <2>2. h.from <= x[k].from /\ x[k].from \in Nat
    BY <1>6, <1>8
  <2> QED
    BY <1>4, <2>1, <2>2, Through, Zenon
<1>10. JoinsTo(d, j, c, x)
  BY <1>1, <1>6, <1>9, JoinedProper
<1>11. Proper(j, d) /\ Covered(j) = Covered(c) \cup Covered(x) /\ MadeOf(j, c, x)
  BY <1>10 DEF JoinsTo
<1>12. Proper(t, d) /\ AtBounds(t, d)
  <2>1. InOrder(t)
    <3> SUFFICES ASSUME NEW i \in 1..Len(t), NEW k \in 1..Len(t), i < k PROVE t[i].to <= t[k].from
      BY DEF InOrder
    <3>1. i + 1 \in 1..Len(r) /\ k + 1 \in 1..Len(r) /\ i + 1 < k + 1 /\ t[i] = r[i + 1] /\ t[k] = r[k + 1]
      BY <1>3
    <3>2. r[i + 1].to <= r[k + 1].from
      BY <1>2, <3>1 DEF InOrder
    <3> QED
      BY <3>1, <3>2
  <2>2. \A i \in 1..Len(t) : t[i].from < t[i].to /\ t[i].to <= d.length
    BY <1>2, <1>3
  <2>3. AtBounds(t, d)
    BY <1>1, <1>3 DEF AtBounds
  <2> QED
    BY <1>3, <2>1, <2>2, <2>3 DEF Proper
<1>13. Before(j, t)
  <2> SUFFICES ASSUME NEW i \in 1..Len(j), NEW k \in 1..Len(t) PROVE j[i].to <= t[k].from
    BY DEF Before
  <2>1. k + 1 \in 1..Len(r) /\ 1 < k + 1 /\ t[k] = r[k + 1] /\ r[k + 1].from \in Nat
    BY <1>2, <1>3
  <2>2. h.to <= t[k].from
    <3>1. r[1].to <= r[k + 1].from
      BY <1>2, <1>3, <2>1 DEF InOrder
    <3> QED
      BY <1>3, <2>1, <3>1
  <2>3. CASE \E m \in 1..Len(c) : j[i] = c[m]
    BY <1>1, <2>1, <2>3 DEF Before
  <2>4. CASE \E m \in 1..Len(x) : j[i] = x[m]
    <3>1. j[i].to <= h.to /\ j[i].to \in Nat
      BY <1>6, <1>8, <2>4
    <3> QED
      BY <1>4, <2>1, <2>2, <3>1, Through, Zenon
  <2> QED
    BY <1>11, <2>3, <2>4 DEF MadeOf
<1>14. \A i \in 1..Len(j) : Size(j[i]) <= Cap /\ LineKept(d, j[i].to)
  <2> SUFFICES ASSUME NEW i \in 1..Len(j) PROVE Size(j[i]) <= Cap /\ LineKept(d, j[i].to)
    OBVIOUS
  <2>1. (\E m \in 1..Len(c) : j[i] = c[m]) \/ (\E m \in 1..Len(x) : j[i] = x[m])
    BY <1>11 DEF MadeOf
  <2> QED
    BY <1>1, <1>5, <2>1, Zenon
<1>15. j # <<>>
  <2>1. c \in Seq(Piece) /\ x \in Seq(Piece)
    BY <1>1, <1>6, ProperIs
  <2> QED
    BY <1>6, <2>1, ConcatEqualIffEmpty
<1>16. Covered(j) \cup Covered(t) = Covered(c) \cup Covered(r)
  BY <1>3, <1>7, <1>11
<1> QED
  BY <1>1, <1>11, <1>12, <1>13, <1>14, <1>15, <1>16 DEF CappedTo

-----------------------------------------------------------------------------
(* The invariant of a document on its way: the chunks of the section in     *)
(* hand tile that section (InHand), merged or as they were before; the      *)
(* chunks ready hold what comes before it; and while the limit is applied   *)
(* those within it come first and the rest is untouched (CappedTo).         *)

InSections == {"structure", "section", "large", "embed", "merge"}

\* The chunks of the section in hand, while they are merged.
InHand ==
  IF stage \in {"embed", "merge"}
    THEN /\ document.splitter = "semantic"
         /\ Tiling(work, SectionsOf(document)[section].from, SectionsOf(document)[section].to)
         /\ Tiling(grouped, SectionsOf(document)[section].from, SectionsOf(document)[section].to)
         /\ AtBounds(work, document) /\ AtBounds(grouped, document)
    ELSE work = <<>> /\ grouped = <<>>

ChunkInv ==
  /\ WellFormed(document) /\ splitFaults \in 0..MaxSplitFaults
  /\ stage \in InSections \cup {"cap", "split"}
  /\ section \in 1..(Len(SectionsOf(document)) + 1)
  /\ stage \in InSections => /\ section \in 1..Len(SectionsOf(document)) /\ capped = <<>>
                             /\ ReadyTo(document, section, ready)
  /\ stage = "structure" => section = 1 /\ ready = <<>>
  /\ InHand
  /\ stage \in {"cap", "split"} => CappedTo(document, capped, ready)
  /\ stage = "split" /\ document.source = "file" => ready = <<>>
  /\ document.splitter = "semantic" /\ splitFaults = 0 => MergedIn(ready, SectionsOf(document))

LEMMA SameText ==
  /\ Sections = SectionsOf(document) /\ Bounds = BoundsOf(document)
  /\ \A c : Inside(c) = EndsIn(document, c)
  /\ \A limit, pieces : Within(limit, pieces) <=> FitsIn(document, limit, pieces)
<1>1. Sections = SectionsOf(document)
  BY DEF Sections, SectionsOf, Whole
<1>2. Bounds = BoundsOf(document)
  BY DEF Bounds, BoundsOf
<1>3. \A c : Inside(c) = EndsIn(document, c)
  BY DEF Inside, EndsIn
<1>4. \A limit, pieces : Within(limit, pieces) <=> FitsIn(document, limit, pieces)
  BY <1>3 DEF Within, FitsIn
<1> QED
  BY <1>1, <1>2, <1>3, <1>4

LEMMA SectionCount ==
  ASSUME NEW d, WellFormed(d)
  PROVE  Len(SectionsOf(d)) \in Nat /\ Len(SectionsOf(d)) # 0
<1>1. Tiling(SectionsOf(d), 0, d.length)
  BY SectionsTile
<1> QED
  BY <1>1 DEF Tiling

\* The chunks of a section join the rest, and after the last one the rest is
\* the document's.
LEMMA AddKept ==
  ASSUME ChunkInv, stage \in InSections, document' = document, capped' = capped,
         splitFaults' \in 0..MaxSplitFaults, splitFaults' = 0 => splitFaults = 0,
         NEW new, Add(new), Adds(document, section, new),
         document.splitter = "semantic" /\ splitFaults' = 0 => MergedIn(new, SectionsOf(document))
  PROVE  ChunkInv'
<1> DEFINE d == document
           S == SectionsOf(d)
<1>1. /\ WellFormed(d) /\ section \in 1..Len(S) /\ capped = <<>> /\ ReadyTo(d, section, ready)
      /\ d.splitter = "semantic" /\ splitFaults = 0 => MergedIn(ready, S)
  BY DEF ChunkInv
<1>2. Len(S) \in Nat /\ Len(S) # 0 /\ section \in Nat /\ 1 <= section /\ section <= Len(S)
  BY <1>1, SectionCount
<1>3. PICK j : j = ready \o new
  OBVIOUS
<1>4. ReadyTo(d, section + 1, j)
  BY <1>1, <1>3, ReadyAdds
<1>5. d.splitter = "semantic" /\ splitFaults' = 0 => MergedIn(j, S)
  BY <1>1, <1>3, MergedAdds
<1>6. grouped' = <<>> /\ work' = <<>> /\ section' = section + 1
  BY DEF Add
<1>7. CASE section < Len(S)
  <2>1. stage' = "section" /\ ready' = j
    BY <1>3, <1>7, SameText DEF Add
  <2>2. section' \in 1..Len(S) /\ section' \in 1..(Len(S) + 1)
    BY <1>2, <1>6, <1>7
  <2>3. InHand'
    BY <1>6, <2>1 DEF InHand
  <2>4. ReadyTo(document', section', ready')
    BY <1>4, <1>6, <2>1
  <2>5. document'.splitter = "semantic" /\ splitFaults' = 0 => MergedIn(ready', SectionsOf(document'))
    BY <1>5, <2>1
  <2> QED
    BY <1>1, <2>1, <2>2, <2>3, <2>4, <2>5 DEF ChunkInv, InSections
<1>8. CASE ~(section < Len(S))
  <2>1. section = Len(S) /\ section + 1 = Len(S) + 1
    BY <1>2, <1>8
  <2>2. stage' = "cap" /\ ready' = IF j = <<>> THEN <<Whole>> ELSE j
    BY <1>3, <1>8, SameText DEF Add
  <2>3. ReadyTo(d, Len(S) + 1, ready') /\ ready' # <<>>
    <3>1. CASE j # <<>>
      BY <1>4, <2>1, <2>2, <3>1
    <3>2. CASE j = <<>>
      <4>1. ready' = <<Chunk(0, d.length)>>
        BY <2>2, <3>2 DEF Whole
      <4>2. /\ Chunk(0, d.length) \in Piece /\ Chunk(0, d.length).from = 0 /\ Chunk(0, d.length).to = d.length
            /\ 0 \in BoundsOf(d) /\ d.length \in BoundsOf(d) /\ d.length \in Nat /\ d.length # 0
        BY <1>1, TextIs
      <4>3. Tiling(ready', 0, d.length)
        <5>1. Chunk(0, d.length).from < Chunk(0, d.length).to
          BY <4>2
        <5>2. Tiling(ready', Chunk(0, d.length).from, Chunk(0, d.length).to)
          BY <4>1, <4>2, <5>1, OneTiles
        <5> QED
          BY <4>2, <5>2
      <4>4. AtBounds(ready', d)
        <5>1. Len(ready') = 1 /\ ready'[1] = Chunk(0, d.length)
          BY <4>1
        <5>2. \A i \in 1..Len(ready') : ready'[i] = Chunk(0, d.length)
          BY <5>1
        <5> QED
          BY <4>2, <5>2 DEF AtBounds
      <4> QED
        BY <1>1, <4>3, <4>4, ReadyWhole
    <3> QED
      BY <3>1, <3>2
  <2>4. CappedTo(d, <<>>, ready')
    BY <1>1, <2>3, NoneCapped
  <2>5. d.splitter = "semantic" /\ splitFaults' = 0 => MergedIn(ready', S)
    <3>1. CASE j # <<>>
      BY <1>5, <2>2, <3>1
    <3>2. CASE j = <<>>
      <4>1. Len(ready') = 1
        BY <2>2, <3>2
      <4> QED
        BY <4>1, MergedFew
    <3> QED
      BY <3>1, <3>2
  <2>6. InHand'
    BY <1>6, <2>2 DEF InHand
  <2>7. section' \in 1..(Len(S) + 1)
    BY <1>2, <1>6
  <2> QED
    BY <1>1, <2>2, <2>4, <2>5, <2>6, <2>7 DEF ChunkInv, InSections
<1> QED
  BY <1>7, <1>8

LEMMA SectionFacts ==
  ASSUME WellFormed(document), section \in 1..Len(SectionsOf(document))
  PROVE  /\ Section = SectionsOf(document)[section] /\ Section \in Piece
         /\ Section.from \in Nat /\ Section.to \in Nat /\ Section.from < Section.to
         /\ Section.to <= document.length
         /\ Section.from \in BoundsOf(document) /\ Section.to \in BoundsOf(document)
<1>1. Section = SectionsOf(document)[section]
  BY SameText DEF Section
<1> QED
  BY <1>1, SectionIs

\* A section taken whole, or cut where lines end.
LEMMA SectionAdds ==
  ASSUME WellFormed(document), section \in 1..Len(SectionsOf(document)),
         NEW cuts, cuts \subseteq Inside(Section), NEW f, f = <<Section>> \/ f = Cut(Section, cuts)
  PROVE  /\ Adds(document, section, f)
         /\ Tiling(f, SectionsOf(document)[section].from, SectionsOf(document)[section].to)
         /\ AtBounds(f, document)
<1>1. /\ Section = SectionsOf(document)[section] /\ Section \in Piece /\ Section.from < Section.to
      /\ Section.from \in BoundsOf(document) /\ Section.to \in BoundsOf(document)
  BY SectionFacts
<1>2. CASE f = <<Section>>
  <2>1. Tiling(f, Section.from, Section.to)
    BY <1>1, <1>2, OneTiles
  <2>2. AtBounds(f, document)
    <3>1. Len(f) = 1 /\ f[1] = Section
      BY <1>2
    <3>2. \A i \in 1..Len(f) : f[i] = Section
      BY <3>1
    <3> QED
      BY <1>1, <3>2 DEF AtBounds
  <2> QED
    BY <1>1, <2>1, <2>2 DEF Adds
<1>3. CASE f = Cut(Section, cuts)
  <2>1. cuts \subseteq EndsIn(document, Section)
    BY SameText
  <2>2. PiecesAt(f, Section, cuts) /\ AtBounds(f, document)
    BY <1>1, <1>3, <2>1, CutInText
  <2> QED
    BY <1>1, <2>2 DEF Adds, PiecesAt
<1> QED
  BY <1>2, <1>3

LEMMA StageKept ==
  ASSUME ChunkInv, stage \in {"structure", "section"}, stage' \in {"section", "large"},
         UNCHANGED <<document, section, work, grouped, ready, capped, splitFaults>>
  PROVE  ChunkInv'
<1>1. InHand'
  BY DEF ChunkInv, InHand, InSections
<1> QED
  BY <1>1 DEF ChunkInv, InSections

LEMMA SplitByStructureKept ==
  ASSUME ChunkInv, SplitByStructure
  PROVE  ChunkInv'
<1>1. /\ stage = "structure" /\ section = 1 /\ UNCHANGED <<document, capped, splitFaults>>
      /\ WellFormed(document) /\ section \in 1..Len(SectionsOf(document))
      /\ splitFaults \in 0..MaxSplitFaults
  BY DEF ChunkInv, SplitByStructure, InSections
<1>2. Len(Sections) \in Nat /\ Len(Sections) # 0 /\ Sections = SectionsOf(document)
  BY <1>1, SectionCount, SameText
<1>3. CASE stage' \in {"section", "large"} /\ UNCHANGED <<section, work, grouped, ready>>
  BY <1>1, <1>3, StageKept
<1>4. CASE ~(Len(Sections) > 1) /\ Add(<<Whole>>)
  <2>1. Len(SectionsOf(document)) = 1
    BY <1>2, <1>4
  <2>2. Tiling(SectionsOf(document), 0, document.length)
    BY <1>1, SectionsTile
  <2>3. SectionsOf(document)[1].from = 0 /\ SectionsOf(document)[1].to = document.length
    BY <2>1, <2>2 DEF Tiling
  <2>4. Section = SectionsOf(document)[1] /\ Section = Chunk(Section.from, Section.to)
    BY <1>1, SectionFacts, PieceIs
  <2>5. Whole = Section
    BY <2>3, <2>4 DEF Whole
  <2>6. Adds(document, section, <<Whole>>)
    <3>1. {} \subseteq Inside(Section)
      OBVIOUS
    <3> QED
      BY <1>1, <2>5, <3>1, SectionAdds
  <2>7. Len(<<Whole>>) = 1
    OBVIOUS
  <2>8. MergedIn(<<Whole>>, SectionsOf(document))
    BY <2>7, MergedFew
  <2> QED
    BY <1>1, <1>4, <2>6, <2>8, AddKept DEF InSections
<1> QED
  BY <1>3, <1>4 DEF SplitByStructure

LEMMA TakeSectionKept ==
  ASSUME ChunkInv, TakeSection
  PROVE  ChunkInv'
<1>1. /\ stage = "section" /\ UNCHANGED <<document, capped, splitFaults>>
      /\ WellFormed(document) /\ section \in 1..Len(SectionsOf(document))
      /\ splitFaults \in 0..MaxSplitFaults
  BY DEF ChunkInv, TakeSection, InSections
<1>2. Section = SectionsOf(document)[section]
  BY <1>1, SectionFacts
<1>3. CASE Size(Section) < Short /\ Add(<<>>)
  <2>1. Adds(document, section, <<>>)
    BY <1>2, <1>3 DEF Adds, Size
  <2>2. Len(<<>>) = 0
    OBVIOUS
  <2>3. MergedIn(<<>>, SectionsOf(document))
    BY <2>2, MergedFew
  <2> QED
    BY <1>1, <1>3, <2>1, <2>3, AddKept DEF InSections
<1>4. CASE Add(<<Section>>)
  <2>1. Adds(document, section, <<Section>>)
    <3>1. {} \subseteq Inside(Section)
      OBVIOUS
    <3> QED
      BY <1>1, <3>1, SectionAdds
  <2>2. Len(<<Section>>) = 1
    OBVIOUS
  <2>3. MergedIn(<<Section>>, SectionsOf(document))
    BY <2>2, MergedFew
  <2> QED
    BY <1>1, <1>4, <2>1, <2>3, AddKept DEF InSections
<1>5. CASE stage' = "large" /\ UNCHANGED <<section, work, grouped, ready>>
  BY <1>1, <1>5, StageKept
<1> QED
  BY <1>3, <1>4, <1>5 DEF TakeSection

LEMMA SplitLargeSectionKept ==
  ASSUME ChunkInv, SplitLargeSection
  PROVE  ChunkInv'
<1>1. /\ stage = "large" /\ document.splitter = "structural" /\ UNCHANGED <<document, capped, splitFaults>>
      /\ WellFormed(document) /\ section \in 1..Len(SectionsOf(document))
      /\ splitFaults \in 0..MaxSplitFaults
  BY DEF ChunkInv, SplitLargeSection, InSections
<1>2. PICK cuts \in SUBSET Inside(Section) : Add(Cut(Section, cuts))
  BY DEF SplitLargeSection
<1>3. Adds(document, section, Cut(Section, cuts))
  BY <1>1, <1>2, SectionAdds
<1>4. document.splitter # "semantic"
  BY <1>1
<1> QED
  BY <1>1, <1>2, <1>3, <1>4, AddKept DEF InSections

LEMMA SplitterThrowsKept ==
  ASSUME ChunkInv, SplitterThrows
  PROVE  ChunkInv'
<1> DEFINE d == document
<1>1. /\ stage = "large" /\ stage' = "cap" /\ d.splitter = "structural"
      /\ UNCHANGED <<document, section, work, grouped, capped>>
      /\ WellFormed(d) /\ section \in 1..Len(SectionsOf(d)) /\ section \in 1..(Len(SectionsOf(d)) + 1)
      /\ capped = <<>>
      /\ work = <<>> /\ grouped = <<>>
  BY DEF ChunkInv, SplitterThrows, InSections, InHand
<1>2. splitFaults' \in 0..MaxSplitFaults
  BY ChunkingAssumption DEF ChunkInv, SplitterThrows, Fails
<1>3. /\ Whole = Chunk(0, d.length) /\ Whole \in Piece /\ Whole.from = 0 /\ Whole.to = d.length
      /\ 0 \in BoundsOf(d) /\ d.length \in BoundsOf(d) /\ d.length \in Nat /\ d.length # 0
  BY <1>1, TextIs DEF Whole
<1>4. Whole.from < Whole.to
  BY <1>3
<1>5. Tiling(ready', 0, d.length) /\ AtBounds(ready', d)
  <2>1. CASE ready' = <<Whole>>
    <3>1. Tiling(ready', 0, d.length)
      BY <1>3, <1>4, <2>1, OneTiles
    <3>2. Len(ready') = 1 /\ ready'[1] = Whole
      BY <2>1
    <3>3. \A i \in 1..Len(ready') : ready'[i] = Whole
      BY <3>2
    <3> QED
      BY <1>3, <3>1, <3>3 DEF AtBounds
  <2>2. ASSUME NEW cuts \in SUBSET Inside(Whole), ready' = Cut(Whole, cuts)
        PROVE  Tiling(ready', 0, d.length) /\ AtBounds(ready', d)
    <3>1. cuts \subseteq EndsIn(d, Whole)
      BY SameText
    <3>2. PiecesAt(ready', Whole, cuts) /\ AtBounds(ready', d)
      BY <1>1, <1>3, <1>4, <2>2, <3>1, CutInText
    <3> QED
      BY <1>3, <3>2 DEF PiecesAt
  <2> QED
    BY <2>1, <2>2 DEF SplitterThrows
<1>6. ReadyTo(d, Len(SectionsOf(d)) + 1, ready') /\ ready' # <<>>
  BY <1>1, <1>5, ReadyWhole
<1>7. CappedTo(d, <<>>, ready')
  BY <1>1, <1>6, NoneCapped
<1>8. InHand'
  BY <1>1 DEF InHand
<1> QED
  BY <1>1, <1>2, <1>7, <1>8 DEF ChunkInv, InSections

LEMMA GroupSentencesKept ==
  ASSUME ChunkInv, GroupSentences
  PROVE  ChunkInv'
<1>1. /\ stage = "large" /\ document.splitter = "semantic" /\ UNCHANGED <<document, capped, splitFaults>>
      /\ WellFormed(document) /\ section \in 1..Len(SectionsOf(document))
      /\ splitFaults \in 0..MaxSplitFaults
  BY DEF ChunkInv, GroupSentences, InSections
<1>2. PICK cuts \in SUBSET Inside(Section) :
        LET groups == Cut(Section, cuts)
        IN IF Len(groups) = 1
             THEN Add(groups)
             ELSE /\ work' = groups /\ grouped' = groups /\ stage' = "embed"
                  /\ UNCHANGED <<section, ready>>
  BY DEF GroupSentences
<1>3. PICK groups : groups = Cut(Section, cuts)
  OBVIOUS
<1>4. /\ Adds(document, section, groups)
      /\ Tiling(groups, SectionsOf(document)[section].from, SectionsOf(document)[section].to)
      /\ AtBounds(groups, document)
  BY <1>1, <1>2, <1>3, SectionAdds
<1>5. CASE Len(groups) = 1
  <2>1. Add(groups)
    BY <1>2, <1>3, <1>5
  <2>2. MergedIn(groups, SectionsOf(document))
    BY <1>5, MergedFew
  <2> QED
    BY <1>1, <1>4, <2>1, <2>2, AddKept DEF InSections
<1>6. CASE Len(groups) # 1
  <2>1. work' = groups /\ grouped' = groups /\ stage' = "embed" /\ UNCHANGED <<section, ready>>
    BY <1>2, <1>3, <1>6
  <2>2. InHand'
    BY <1>1, <1>4, <2>1 DEF InHand
  <2> QED
    BY <1>1, <2>1, <2>2 DEF ChunkInv, InSections
<1> QED
  BY <1>5, <1>6

LEMMA SentencesNotEmbeddedKept ==
  ASSUME ChunkInv, SentencesNotEmbedded
  PROVE  ChunkInv'
<1>1. /\ stage = "large" /\ UNCHANGED <<document, capped>> /\ Add(<<Section>>) /\ Fails
      /\ WellFormed(document) /\ section \in 1..Len(SectionsOf(document))
      /\ splitFaults \in 0..MaxSplitFaults
  BY DEF ChunkInv, SentencesNotEmbedded, InSections
<1>2. splitFaults' \in 0..MaxSplitFaults /\ splitFaults' # 0
  BY <1>1, ChunkingAssumption DEF Fails
<1>3. Adds(document, section, <<Section>>)
  <2>1. {} \subseteq Inside(Section)
    OBVIOUS
  <2> QED
    BY <1>1, <2>1, SectionAdds
<1> QED
  BY <1>1, <1>2, <1>3, AddKept DEF InSections

LEMMA ChunksEmbeddedKept ==
  ASSUME ChunkInv, ChunksEmbedded
  PROVE  ChunkInv'
<1>1. /\ stage = "embed" /\ stage' = "merge"
      /\ UNCHANGED <<document, section, work, grouped, ready, capped, splitFaults>>
  BY DEF ChunksEmbedded
<1>2. InHand'
  BY <1>1 DEF ChunkInv, InHand
<1> QED
  BY <1>1, <1>2 DEF ChunkInv, InSections

LEMMA ChunksNotEmbeddedKept ==
  ASSUME ChunkInv, ChunksNotEmbedded
  PROVE  ChunkInv'
<1>1. /\ stage = "embed" /\ UNCHANGED <<document, capped>> /\ Add(grouped) /\ Fails
      /\ splitFaults \in 0..MaxSplitFaults /\ InHand
  BY DEF ChunkInv, ChunksNotEmbedded, InSections
<1>2. splitFaults' \in 0..MaxSplitFaults /\ splitFaults' # 0
  BY <1>1, ChunkingAssumption DEF Fails
<1>3. Adds(document, section, grouped)
  BY <1>1 DEF InHand, Adds
<1> QED
  BY <1>1, <1>2, <1>3, AddKept DEF InSections

LEMMA MergePassKept ==
  ASSUME ChunkInv, MergePass
  PROVE  ChunkInv'
<1> DEFINE S == SectionsOf(document)
           from == S[section].from
           to == S[section].to
<1>1. /\ stage = "merge" /\ UNCHANGED <<document, capped, splitFaults>>
      /\ WellFormed(document) /\ section \in 1..Len(S)
      /\ splitFaults \in 0..MaxSplitFaults
      /\ document.splitter = "semantic"
      /\ Tiling(work, from, to) /\ Tiling(grouped, from, to)
      /\ AtBounds(work, document) /\ AtBounds(grouped, document)
  BY DEF ChunkInv, MergePass, InSections, InHand
<1>2. PICK alike, takers \in SUBSET (1..(Len(work) - 1)) :
        /\ TakesNext(takers, alike)
        /\ IF takers = {}
             THEN Add(work)
             ELSE /\ work' = PairsMerged(takers) /\ stage' = "embed"
                  /\ UNCHANGED <<section, grouped, ready>>
  BY DEF MergePass
<1>3. from \in Nat /\ to \in Nat
  BY <1>1, SectionIs
<1>4. work \in Seq(Piece) /\ DOMAIN work = 1..Len(work) /\ Len(work) \in Nat
  <2>1. work \in Seq(Piece)
    BY <1>1 DEF Tiling
  <2> QED
    BY <2>1, LenProperties
<1>5. CASE takers = {}
  <2>1. Add(work)
    BY <1>2, <1>5
  <2>2. MergedIn(work, S)
    <3> SUFFICES ASSUME NEW i \in 1..(Len(work) - 1), Size(work[i]) < MinChunk
                 PROVE  Size(work[i]) + Size(work[i + 1]) >= Joint
      BY DEF MergedIn
    <3>1. i \in DOMAIN work /\ i < Len(work) /\ i + 1 \in 1..Len(work) /\ i \in 1..Len(work)
      BY <1>4
    <3>2. ~Merges(i, alike)
      BY <1>2, <1>5, <3>1 DEF TakesNext
    <3>3. ~(Size(work[i]) + Size(work[i + 1]) < Joint)
      BY <3>1, <3>2 DEF Merges
    <3>4. /\ work[i].from \in Nat /\ work[i].to \in Nat
          /\ work[i + 1].from \in Nat /\ work[i + 1].to \in Nat
      BY <1>1, <1>3, <3>1, TilingSpans
    <3>5. Joint \in Nat
      BY ChunkingAssumption
    <3> QED
      BY ONLY <3>3, <3>4, <3>5, SMTT(30) DEF Size
  <2>3. Adds(document, section, work)
    BY <1>1 DEF Adds
  <2> QED
    BY <1>1, <2>1, <2>2, <2>3, AddKept DEF InSections
<1>6. CASE takers # {}
  <2>1. work' = PairsMerged(takers) /\ stage' = "embed" /\ UNCHANGED <<section, grouped, ready>>
    BY <1>2, <1>6
  <2>2. \A i \in takers : i - 1 \notin takers
    BY <1>2, <1>4 DEF TakesNext
  <2>3. PICK whole : whole = [i \in 1..Len(work) |-> IF i \in takers THEN Chunk(work[i].from, work[i + 1].to) ELSE work[i]]
    OBVIOUS
  <2>4. PICK H : H = {i \in 1..Len(work) : i - 1 \notin takers}
    OBVIOUS
  <2>5. work' = Sublist(whole, H)
    BY <1>4, <2>1, <2>3, <2>4 DEF PairsMerged
  <2>6. Tiling(work', from, to) /\ EndsAmong(work', work)
    BY <1>1, <1>2, <1>3, <2>2, <2>3, <2>4, <2>5, PairsTile
  <2>7. AtBounds(work', document)
    BY <1>1, <2>6 DEF AtBounds, EndsAmong
  <2>8. InHand'
    BY <1>1, <2>1, <2>6, <2>7 DEF InHand
  <2> QED
    BY <1>1, <2>1, <2>8 DEF ChunkInv, InSections
<1> QED
  BY <1>5, <1>6

LEMMA CapChunkKept ==
  ASSUME ChunkInv, CapChunk
  PROVE  ChunkInv'
<1>1. /\ stage = "cap" /\ ready # <<>> /\ ready' = Tail(ready)
      /\ UNCHANGED <<document, stage, section, work, grouped, splitFaults>>
      /\ WellFormed(document) /\ CappedTo(document, capped, ready)
  BY DEF ChunkInv, CapChunk
<1>2. PICK cuts \in SUBSET Inside(Head(ready)) :
        /\ Size(Head(ready)) > Cap => Within(Cap, Cut(Head(ready), cuts))
        /\ capped' = capped \o Capped(Head(ready), cuts)
  BY DEF CapChunk
<1>3. PICK h : h = Head(ready)
  OBVIOUS
<1>4. /\ cuts \subseteq EndsIn(document, h)
      /\ Size(h) > Cap => FitsIn(document, Cap, Cut(h, cuts))
  BY <1>2, <1>3, SameText
<1>5. PICK x : x = Capped(h, cuts)
  OBVIOUS
<1>6. Cap \in Nat /\ Cap # 0
  BY ChunkingAssumption
<1>7. CappedTo(document, capped', ready')
  <2>1. capped' = capped \o x
    BY <1>2, <1>3, <1>5
  <2> QED
    BY <1>1, <1>3, <1>4, <1>5, <1>6, <2>1, CapSteps
<1>8. document.splitter = "semantic" /\ splitFaults = 0 => MergedIn(ready', SectionsOf(document))
  <2>1. ready \in Seq(Piece)
    BY <1>1, ProperIs DEF CappedTo
  <2> QED
    BY <1>1, <2>1, MergedRest DEF ChunkInv
<1>9. InHand'
  BY <1>1 DEF ChunkInv, InHand
<1> QED
  BY <1>1, <1>7, <1>8, <1>9 DEF ChunkInv, InSections

LEMMA PassOnKept ==
  ASSUME ChunkInv, PassOn
  PROVE  ChunkInv'
<1>1. /\ stage = "cap" /\ stage' = "split"
      /\ UNCHANGED <<document, section, work, grouped, ready, capped, splitFaults>>
  BY DEF PassOn
<1>2. InHand'
  BY <1>1 DEF ChunkInv, InHand, PassOn
<1>3. document.source = "file" => ready = <<>>
  BY DEF PassOn
<1> QED
  BY <1>2, <1>3 DEF ChunkInv, InSections, PassOn

LEMMA ChunkBegins ==
  ASSUME NEW text, WellFormed(text), Begun(text)
  PROVE  ChunkInv
<1>1. /\ document = text /\ stage = "structure" /\ section = 1 /\ work = <<>> /\ grouped = <<>>
      /\ ready = <<>> /\ capped = <<>> /\ splitFaults = 0
  BY DEF Begun
<1>2. Len(SectionsOf(document)) \in Nat /\ Len(SectionsOf(document)) # 0
  BY <1>1, SectionCount
<1>3. section \in 1..Len(SectionsOf(document)) /\ section \in 1..(Len(SectionsOf(document)) + 1)
  BY <1>1, <1>2
<1>4. ReadyTo(document, section, ready)
  <2>1. Proper(ready, document) /\ AtBounds(ready, document) /\ 1..Len(ready) = {}
    BY <1>1, NothingProper
  <2>2. \A k \in 1..Len(SectionsOf(document)) : ~(k < section)
    BY <1>1, <1>2
  <2> QED
    BY <2>1, <2>2 DEF ReadyTo
<1>5. MergedIn(ready, SectionsOf(document))
  <2>1. Len(ready) = 0
    BY <1>1
  <2> QED
    BY <2>1, MergedFew
<1>6. InHand
  BY <1>1 DEF InHand
<1>7. splitFaults \in 0..MaxSplitFaults
  BY <1>1, ChunkingAssumption
<1> QED
  BY <1>1, <1>3, <1>4, <1>5, <1>6, <1>7 DEF ChunkInv, InSections

LEMMA ChunkStepKept ==
  ASSUME ChunkInv, [ChunkingNext]_chunkingVars
  PROVE  ChunkInv'
<1>1. CASE UNCHANGED chunkingVars
  <2>1. InHand'
    BY <1>1 DEF ChunkInv, InHand, chunkingVars
  <2> QED
    BY <1>1, <2>1 DEF ChunkInv, chunkingVars
<1>2. CASE ChunkingNext
  BY <1>2, SplitByStructureKept, TakeSectionKept, SplitLargeSectionKept, SplitterThrowsKept,
     GroupSentencesKept, SentencesNotEmbeddedKept, ChunksEmbeddedKept, ChunksNotEmbeddedKept,
     MergePassKept, CapChunkKept, PassOnKept DEF ChunkingNext
<1> QED
  BY <1>1, <1>2

\* What the parts of the invariant say of all chunks so far.
LEMMA ChunksAre ==
  ASSUME ChunkInv
  PROVE  /\ Proper(Chunks, document)
         /\ \A k \in 1..Len(Chunks) :
              Chunks[k].to \in BoundsOf(document) \/ LineKept(document, Chunks[k].to)
         /\ stage \in {"cap", "split"} => Covered(Chunks) = Covered(capped) \cup Covered(ready) /\ Chunks # <<>>
<1>1. CASE stage \in InSections
  <2>1. capped = <<>> /\ Proper(ready, document) /\ AtBounds(ready, document)
    BY <1>1 DEF ChunkInv, ReadyTo
  <2>2. Chunks = ready
    BY <2>1, ProperIs, ConcatEmptySeq DEF Chunks
  <2>3. stage \notin {"cap", "split"}
    BY <1>1 DEF InSections
  <2> QED
    BY <2>1, <2>2, <2>3 DEF AtBounds
<1>2. CASE stage \in {"cap", "split"}
  <2>1. CappedTo(document, capped, ready)
    BY <1>2 DEF ChunkInv
  <2>2. /\ Proper(capped, document) /\ Proper(ready, document) /\ Before(capped, ready)
        /\ AtBounds(ready, document)
        /\ capped # <<>> \/ ready # <<>>
        /\ \A i \in 1..Len(capped) : LineKept(document, capped[i].to)
    BY <2>1 DEF CappedTo
  <2>3. JoinsTo(document, Chunks, capped, ready)
    BY <2>2, JoinedProper DEF Chunks
  <2>4. Proper(Chunks, document) /\ Covered(Chunks) = Covered(capped) \cup Covered(ready) /\ MadeOf(Chunks, capped, ready)
    BY <2>3 DEF JoinsTo
  <2>5. ASSUME NEW k \in 1..Len(Chunks)
        PROVE  Chunks[k].to \in BoundsOf(document) \/ LineKept(document, Chunks[k].to)
    <3>1. (\E m \in 1..Len(capped) : Chunks[k] = capped[m]) \/ (\E m \in 1..Len(ready) : Chunks[k] = ready[m])
      BY <2>4 DEF MadeOf
    <3>2. \A m \in 1..Len(ready) : ready[m].to \in BoundsOf(document)
      BY <2>2 DEF AtBounds
    <3>3. \A m \in 1..Len(capped) : LineKept(document, capped[m].to)
      BY <2>2
    <3> QED
      BY <3>1, <3>2, <3>3, Zenon
  <2>6. Chunks # <<>>
    <3>1. capped \in Seq(Piece) /\ ready \in Seq(Piece)
      BY <2>2, ProperIs
    <3> QED
      BY <2>2, <3>1, ConcatEqualIffEmpty DEF Chunks
  <2> QED
    BY <2>4, <2>5, <2>6
<1> QED
  BY <1>1, <1>2 DEF ChunkInv

LEMMA HandProper ==
  ASSUME ChunkInv
  PROVE  /\ Proper(work, document) /\ Proper(grouped, document)
         /\ work # <<>> => Covered(work) = Covered(<<Section>>)
<1>1. CASE stage \in {"embed", "merge"}
  <2>1. /\ WellFormed(document) /\ section \in 1..Len(SectionsOf(document))
        /\ Tiling(work, SectionsOf(document)[section].from, SectionsOf(document)[section].to)
        /\ Tiling(grouped, SectionsOf(document)[section].from, SectionsOf(document)[section].to)
    BY <1>1 DEF ChunkInv, InHand, InSections
  <2>2. /\ Section = SectionsOf(document)[section] /\ Section \in Piece
        /\ Section.from \in Nat /\ Section.to \in Nat /\ Section.to <= document.length
    BY <2>1, SectionFacts
  <2>3. /\ Proper(work, document) /\ Proper(grouped, document)
        /\ Covered(work) = (Section.from + 1)..Section.to
    BY <2>1, <2>2, TilingProper DEF Spans
  <2>4. Covered(<<Section>>) = (Section.from + 1)..Section.to
    BY <2>2, OneCovers
  <2> QED
    BY <2>3, <2>4
<1>2. CASE stage \notin {"embed", "merge"}
  <2>1. work = <<>> /\ grouped = <<>>
    BY <1>2 DEF ChunkInv, InHand
  <2> QED
    BY <2>1, NothingProper
<1> QED
  BY <1>1, <1>2

LEMMA ChunkTypes ==
  ASSUME ChunkInv
  PROVE  ChunkingTypeOK
<1>1. /\ WellFormed(document) /\ splitFaults \in 0..MaxSplitFaults
      /\ section \in 1..(Len(Sections) + 1)
      /\ stage \in {"structure", "section", "large", "embed", "merge", "cap", "split"}
  BY SameText DEF ChunkInv, InSections
<1>2. ASSUME NEW list \in {work, grouped, Chunks}, NEW i \in DOMAIN list
      PROVE  0 <= list[i].from /\ list[i].from < list[i].to /\ list[i].to <= document.length
  <2>1. Proper(list, document)
    BY ChunksAre, HandProper
  <2> QED
    BY <2>1, ProperIs
<1> QED
  BY <1>1, <1>2 DEF ChunkingTypeOK

LEMMA ChunkNothingLost ==
  ASSUME ChunkInv
  PROVE  NothingLost
<1>1. ASSUME NEW list \in {work, Chunks}, NEW i \in 1..(Len(list) - 1)
      PROVE  list[i].to <= list[i + 1].from
  <2>1. Proper(list, document)
    BY ChunksAre, HandProper
  <2>2. InOrder(list) /\ Len(list) \in Nat
    BY <2>1, ProperIs
  <2>3. i \in 1..Len(list) /\ i + 1 \in 1..Len(list) /\ i < i + 1
    BY <2>2
  <2> QED
    BY <2>2, <2>3 DEF InOrder
<1>2. work # <<>> => Covered(work) = Covered(<<Section>>)
  BY HandProper
<1>3. ASSUME stage \in {"cap", "split"}, NEW i \in DOMAIN Sections
      PROVE  Covered(<<Sections[i]>>) \subseteq Covered(Chunks) \/ (Size(Sections[i]) < Short /\ Chunks # <<>>)
  <2>1. /\ Sections = SectionsOf(document) /\ WellFormed(document)
        /\ CappedTo(document, capped, ready)
        /\ Covered(Chunks) = Covered(capped) \cup Covered(ready) /\ Chunks # <<>>
    BY <1>3, SameText, ChunksAre DEF ChunkInv
  <2>2. i \in 1..Len(SectionsOf(document))
    <3>1. Tiling(Sections, 0, document.length)
      BY <2>1, SectionsTile
    <3>2. Sections \in Seq(Piece)
      BY <3>1 DEF Tiling
    <3> QED
      BY <1>3, <2>1, <3>2, LenProperties
  <2>3. Held(Sections[i], Covered(Chunks))
    BY <2>1, <2>2 DEF CappedTo
  <2>4. Sections[i] \in Piece
    BY <2>1, <2>2, SectionIs
  <2>5. Covered(<<Sections[i]>>) = (Sections[i].from + 1)..Sections[i].to
    BY <2>4, OneCovers
  <2> QED
    BY <2>1, <2>3, <2>5 DEF Held, Size
<1> QED
  BY <1>1, <1>2, <1>3 DEF NothingLost

LEMMA ChunkLinesWhole ==
  ASSUME ChunkInv
  PROVE  LinesWhole
<1>1. DOMAIN Chunks = 1..Len(Chunks)
  BY ChunksAre, ProperIs
<1>2. ASSUME NEW i \in DOMAIN Chunks, Chunks[i].to \notin Bounds
      PROVE  \E a, b \in Bounds : /\ a < Chunks[i].to /\ Chunks[i].to < b
                                  /\ Inside(Chunk(a, b)) = {} /\ Size(Chunk(a, b)) > Cap
  <2>1. Bounds = BoundsOf(document) /\ \A c : Inside(c) = EndsIn(document, c)
    BY SameText
  <2>2. LineKept(document, Chunks[i].to)
    BY <1>1, <1>2, <2>1, ChunksAre
  <2>3. PICK a, b \in Bounds : /\ a < Chunks[i].to /\ Chunks[i].to < b
                               /\ EndsIn(document, Chunk(a, b)) = {} /\ Size(Chunk(a, b)) > Cap
    BY <1>2, <2>1, <2>2 DEF LineKept
  <2> QED
    BY <2>1, <2>3, Zenon
<1> QED
  BY <1>2 DEF LinesWhole

LEMMA ChunkFilesCapped ==
  ASSUME ChunkInv
  PROVE  FilesCapped
<1> SUFFICES ASSUME stage = "split", document.source = "file", NEW i \in DOMAIN Chunks
             PROVE  Size(Chunks[i]) <= Cap
  BY DEF FilesCapped
<1>1. ready = <<>> /\ CappedTo(document, capped, ready)
  BY DEF ChunkInv
<1>2. capped \in Seq(Piece) /\ DOMAIN capped = 1..Len(capped)
  BY <1>1, ProperIs DEF CappedTo
<1>3. Chunks = capped
  BY <1>1, <1>2, ConcatEmptySeq DEF Chunks
<1> QED
  BY <1>1, <1>2, <1>3 DEF CappedTo

LEMMA ChunkSmallMerged ==
  ASSUME ChunkInv
  PROVE  SmallOnesMerged
<1> SUFFICES ASSUME document.splitter = "semantic", splitFaults = 0,
                    NEW i \in 1..(Len(ready) - 1), NEW s \in DOMAIN Sections,
                    ready[i].from >= Sections[s].from, ready[i + 1].to <= Sections[s].to,
                    Size(ready[i]) < MinChunk
             PROVE  Size(ready[i]) + Size(ready[i + 1]) >= Joint
  BY DEF SmallOnesMerged
<1>1. MergedIn(ready, SectionsOf(document)) /\ Sections = SectionsOf(document) /\ WellFormed(document)
  BY SameText DEF ChunkInv
<1>2. s \in 1..Len(SectionsOf(document))
  <2>1. Tiling(Sections, 0, document.length)
    BY <1>1, SectionsTile
  <2>2. Sections \in Seq(Piece)
    BY <2>1 DEF Tiling
  <2> QED
    BY <1>1, <2>2, LenProperties
<1> QED
  BY <1>1, <1>2 DEF MergedIn

\* However a document is split, merged and capped, with calls that fail in
\* between, its text is in the chunks once and in order, lines stay whole, a
\* file's chunks are within the limit and small ones were merged.
THEOREM ChunksKept == ChunkingSpec => []ChunksSound
<1>1. ChunkingInit => ChunkInv
  BY ChunkingAssumption, ChunkBegins DEF ChunkingInit
<1>2. ChunkInv /\ [ChunkingNext]_chunkingVars => ChunkInv'
  BY ChunkStepKept
<1>3. ChunkInv => ChunksSound
  BY ChunkTypes, ChunkNothingLost, ChunkLinesWhole, ChunkFilesCapped, ChunkSmallMerged DEF ChunksSound
<1> QED
  BY <1>1, <1>2, <1>3, PTL DEF ChunkingSpec

-----------------------------------------------------------------------------
(* The lists of a client that pages.  First lists in general: what a list   *)
(* without repetition counts, the order that numbers have (Ordering), and   *)
(* what a sublist has of its list.                                          *)

\* What a list of distinct things has, it has as often as it has places.
LEMMA CountsOnce ==
  ASSUME NEW n \in Nat, NEW f, \A i, k \in 1..n : f[i] = f[k] => i = k,
         NEW T, \A i \in 1..n : f[i] \in T, \A t \in T : \E i \in 1..n : f[i] = t
  PROVE  IsFiniteSet(T) /\ Cardinality(T) = n
<1> DEFINE F == [i \in 1..n |-> f[i]]
<1>1. F \in [1..n -> T] /\ DOMAIN F = 1..n /\ \A i \in 1..n : F[i] = f[i]
  OBVIOUS
<1> HIDE DEF F
<1>2. F \in Bijection(1..n, T)
  <2>1. \A i, k \in 1..n : F[i] = F[k] => i = k
    BY <1>1
  <2>2. \A t \in T : \E i \in 1..n : F[i] = t
    BY <1>1
  <2> QED
    BY <1>1, <2>1, <2>2, Zenon DEF Bijection, Injection, Surjection, IsInjective
<1>3. IsFiniteSet(1..n) /\ Cardinality(1..n) = n
  BY FS_Interval
<1>4. ExistsBijection(1..n, T)
  BY <1>2 DEF ExistsBijection
<1> QED
  BY <1>3, <1>4, FS_Bijection

\* A list of numbers of a set, each once, in their order.
Ordering(f, H) ==
  /\ Len(f) \in Nat /\ \A n \in 1..Len(f) : f[n] \in H
  /\ \A n, k \in 1..Len(f) : n < k => f[n] < f[k]
  /\ \A h \in H : Has(f, h)

LEMMA SortedOrders ==
  ASSUME NEW m \in Nat, NEW H, H \subseteq 1..m, NEW f, f = Sorted(H)
  PROVE  Ordering(f, H)
<1>1. \A h \in H : Has(f, h)
  BY SortedHas, Zenon
<1> QED
  BY <1>1, SortedIs DEF Ordering

\* There is one.
Alike(f, g) == Len(g) = Len(f) /\ \A n \in 1..Len(f) : g[n] = f[n]

LEMMA OneOrdering ==
  ASSUME NEW m \in Nat, NEW H, H \subseteq 1..m, NEW f, Ordering(f, H), NEW g, g = Sorted(H)
  PROVE  Alike(f, g)
<1>1. /\ Len(f) \in Nat /\ \A n \in 1..Len(f) : f[n] \in H
      /\ \A n, k \in 1..Len(f) : n < k => f[n] < f[k]
  BY DEF Ordering
<1>2. \A h \in H : \E n \in 1..Len(f) : f[n] = h
  BY DEF Ordering, Has
<1>3. \A h \in H : h \in Int
  OBVIOUS
<1>4. \A n \in 1..Len(f) : f[n] \in Int
  BY <1>1, <1>3
<1>5. \A n, k \in 1..Len(f) : f[n] = f[k] => n = k
  BY <1>1, <1>4
<1>6. Cardinality(H) = Len(f)
  BY <1>1, <1>2, <1>5, CountsOnce
<1>7. Len(g) = Len(f)
  BY <1>6, SortedIs
<1>8. ASSUME NEW n \in 1..Len(f) PROVE Rank(H, f[n]) = n
  <2> DEFINE T == {j \in H : j <= f[n]}
  <2>1. n \in Nat /\ \A i \in 1..n : i \in 1..Len(f)
    BY <1>1
  <2>2. \A i, k \in 1..n : f[i] = f[k] => i = k
    BY <1>5, <2>1
  <2>3. \A i \in 1..n : f[i] \in T
    <3> SUFFICES ASSUME NEW i \in 1..n PROVE f[i] \in H /\ f[i] <= f[n]
      OBVIOUS
    <3>1. i < n \/ i = n
      BY <2>1
    <3> QED
      BY <1>1, <1>4, <2>1, <3>1
  <2>4. ASSUME NEW t \in T PROVE \E i \in 1..n : f[i] = t
    <3>1. PICK i \in 1..Len(f) : f[i] = t
      BY <1>2
    <3>2. ~(n < i)
      <4> SUFFICES ASSUME n < i PROVE FALSE
        OBVIOUS
      <4>1. f[n] < f[i] /\ f[i] <= f[n] /\ f[n] \in Int /\ f[i] \in Int
        BY <1>1, <1>4, <2>4, <3>1
      <4> QED
        BY <4>1
    <3> QED
      BY <1>1, <3>1, <3>2
  <2>5. Cardinality(T) = n
    <3> HIDE DEF T
    <3> QED
      BY <2>1, <2>2, <2>3, <2>4, CountsOnce
  <2> QED
    BY <2>5 DEF Rank
<1>9. ASSUME NEW n \in 1..Len(f) PROVE g[n] = f[n]
  <2>1. g[n] = CHOOSE i \in H : Rank(H, i) = n
    BY <1>6 DEF Sorted
  <2>2. Rank(H, f[n]) = n /\ f[n] \in H
    BY <1>1, <1>8
  <2>3. Rank(H, g[n]) = n /\ g[n] \in H
    BY <2>1, <2>2
  <2>4. \A i, k \in H : Rank(H, i) = Rank(H, k) => i = k
    BY RankCounts
  <2> QED
    BY <2>2, <2>3, <2>4
<1> QED
  BY <1>7, <1>9 DEF Alike

LEMMA ElementsIs ==
  ASSUME NEW S, NEW list \in Seq(S)
  PROVE  /\ Len(list) \in Nat /\ DOMAIN list = 1..Len(list) /\ Elements(list) \subseteq S
         /\ \A i \in 1..Len(list) : list[i] \in Elements(list) /\ list[i] \in S
         /\ \A x \in Elements(list) : \E i \in 1..Len(list) : list[i] = x
<1>1. /\ Len(list) \in Nat /\ DOMAIN list = 1..Len(list)
      /\ \A i \in 1..Len(list) : list[i] \in S
  BY LenProperties
<1> QED
  BY <1>1 DEF Elements

LEMMA DistinctIs ==
  ASSUME NEW S, NEW list \in Seq(S), Distinct(list)
  PROVE  /\ \A i, k \in 1..Len(list) : list[i] = list[k] => i = k
         /\ IsFiniteSet(Elements(list)) /\ Cardinality(Elements(list)) = Len(list)
<1>1. /\ Len(list) \in Nat /\ DOMAIN list = 1..Len(list)
      /\ \A i \in 1..Len(list) : list[i] \in Elements(list)
      /\ \A x \in Elements(list) : \E i \in 1..Len(list) : list[i] = x
  BY ElementsIs
<1>2. \A i, k \in 1..Len(list) : list[i] = list[k] => i = k
  BY <1>1 DEF Distinct
<1> QED
  BY <1>1, <1>2, CountsOnce

\* What a sublist has: what stands at the chosen places.
Sublists(f, list, H, S) ==
  /\ f \in Seq(S) /\ Len(f) = Cardinality(H) /\ Elements(f) = {list[i] : i \in H}
  /\ Distinct(list) => Distinct(f)

LEMMA SublistHas ==
  ASSUME NEW S, NEW list \in Seq(S), NEW H, H \subseteq 1..Len(list), NEW f, f = Sublist(list, H)
  PROVE  Sublists(f, list, H, S)
<1>1. Len(list) \in Nat /\ DOMAIN list = 1..Len(list)
  BY ElementsIs
<1>2. PICK g : g = Sorted(H)
  OBVIOUS
<1>3. Picked(f, list, g, S) /\ Ordering(g, H) /\ Len(g) = Cardinality(H)
  BY <1>1, <1>2, SublistIs, SortedOrders, SortedIs
<1>4. f \in Seq(S) /\ Len(f) = Len(g) /\ Len(g) \in Nat /\ \A n \in 1..Len(f) : f[n] = list[g[n]]
  BY <1>3 DEF Picked, Ordering
<1>5. DOMAIN f = 1..Len(f) /\ Elements(f) = {f[n] : n \in 1..Len(f)}
  BY <1>4, ElementsIs DEF Elements
<1>6. \A n \in 1..Len(f) : g[n] \in H
  BY <1>3, <1>4 DEF Ordering
<1>7. \A h \in H : \E n \in 1..Len(f) : g[n] = h
  BY <1>3, <1>4 DEF Ordering, Has
<1>8. Elements(f) = {list[i] : i \in H}
  <2>1. ASSUME NEW x \in Elements(f) PROVE \E i \in H : x = list[i]
    <3>1. PICK n \in 1..Len(f) : x = f[n]
      BY <1>5, <2>1
    <3> QED
      BY <1>4, <1>6, <3>1
  <2>2. ASSUME NEW h \in H PROVE list[h] \in Elements(f)
    <3>1. PICK n \in 1..Len(f) : g[n] = h
      BY <1>7, <2>2
    <3> QED
      BY <1>4, <1>5, <3>1
  <2> QED
    BY <2>1, <2>2
<1>9. ASSUME Distinct(list) PROVE Distinct(f)
  <2> SUFFICES ASSUME NEW n \in 1..Len(f), NEW k \in 1..Len(f), f[n] = f[k] PROVE n = k
    BY <1>5 DEF Distinct
  <2>1. list[g[n]] = list[g[k]] /\ g[n] \in 1..Len(list) /\ g[k] \in 1..Len(list)
    BY <1>4, <1>6
  <2>2. g[n] = g[k]
    BY <1>1, <1>9, <2>1 DEF Distinct
  <2>3. n < k => g[n] < g[k]
    BY <1>3, <1>4 DEF Ordering
  <2>4. k < n => g[k] < g[n]
    BY <1>3, <1>4 DEF Ordering
  <2>5. g[n] \in Int /\ g[k] \in Int /\ n \in Int /\ k \in Int
    BY <1>1, <1>4, <2>1
  <2> QED
    BY <2>2, <2>3, <2>4, <2>5
<1> QED
  BY <1>3, <1>4, <1>8, <1>9 DEF Sublists

-----------------------------------------------------------------------------
(* The rows of a page: the records taken from the list, in its order; where *)
(* the page is whole and every record has its owner, they are the next ones *)
(* of the list (AsListed).                                                  *)

\* The list has every record once, and a page shows one at least.
ListTyped ==
  /\ newest \in Seq(Listed) /\ Distinct(newest) /\ owned \subseteq Listed
  /\ parentOf \in [Listed -> Elements(newest) \cup {NoParent}]
  /\ listing.size \in Nat \ {0} /\ listing.declared \subseteq Relations
  /\ listing.include \subseteq listing.declared
  /\ offset \in Nat

RowsOf(rows) ==
  /\ rows \in Seq(Listed) /\ Distinct(rows) /\ Len(rows) <= listing.size + 1
  /\ Elements(rows) = {newest[i] : i \in {i \in Taken : newest[i] \in owned}}

LEMMA RowsAre ==
  ASSUME ListTyped
  PROVE  RowsOf(Rows)
<1> DEFINE H == {i \in Taken : newest[i] \in owned}
<1>1. newest \in Seq(Listed) /\ Distinct(newest) /\ Len(newest) \in Nat /\ DOMAIN newest = 1..Len(newest)
  BY ElementsIs DEF ListTyped
<1>2. H \subseteq 1..Len(newest) /\ H \subseteq (offset + 1)..(offset + listing.size + 1)
  BY <1>1 DEF Taken, ListTyped
<1>3. Cardinality(H) <= listing.size + 1
  <2> DEFINE J == (offset + 1)..(offset + listing.size + 1)
  <2>1. /\ offset + 1 \in Int /\ offset + listing.size + 1 \in Int /\ ~(offset + 1 > offset + listing.size + 1)
        /\ (offset + listing.size + 1) - (offset + 1) + 1 = listing.size + 1
    BY DEF ListTyped
  <2>2. IsFiniteSet(J) /\ Cardinality(J) = listing.size + 1
    BY <2>1, FS_Interval
  <2>3. H \subseteq J
    BY <1>2
  <2> HIDE DEF J, H
  <2>4. Cardinality(H) <= Cardinality(J)
    BY <2>2, <2>3, FS_Subset
  <2> QED
    BY <2>2, <2>4
<1>4. Rows = Sublist(newest, H)
  BY DEF Rows
<1> HIDE DEF H
<1>5. Sublists(Rows, newest, H, Listed)
  BY <1>1, <1>2, <1>4, SublistHas
<1>6. Rows \in Seq(Listed) /\ Distinct(Rows) /\ Len(Rows) <= listing.size + 1 /\ Elements(Rows) = {newest[i] : i \in H}
  BY <1>1, <1>3, <1>5 DEF Sublists
<1> QED
  BY <1>6 DEF RowsOf, H

LEMMA AllTaken ==
  ASSUME NEW o \in Nat, NEW s \in Nat, NEW k \in Nat, NEW l \in Nat, o + k = l, k < s + 1, NEW i \in 1..l
  PROVE  i <= o + s + 1
OBVIOUS

LEMMA LaterPlaces ==
  ASSUME NEW o \in Nat, NEW l \in Nat
  PROVE  {i \in 1..l : o < i} = (o + 1)..l
<1> DEFINE A == {i \in 1..l : o < i}
           B == (o + 1)..l
<1>1. \A i \in A : i \in B
  OBVIOUS
<1>2. \A i \in B : i \in A
  OBVIOUS
<1> QED
  BY <1>1, <1>2

\* The next records of the list, as they stand there.
AsListed(rows, k) == Len(rows) = k /\ \A n \in 1..k : rows[n] = newest[offset + n]

LEMMA RowsAsListed ==
  ASSUME ListTyped, Elements(newest) \subseteq owned, NEW k \in Nat, k <= listing.size + 1,
         offset + k <= Len(newest), k = listing.size + 1 \/ offset + k = Len(newest)
  PROVE  AsListed(Rows, k)
<1> DEFINE H == {i \in Taken : newest[i] \in owned}
           f == [n \in 1..k |-> offset + n]
<1>1. newest \in Seq(Listed) /\ Len(newest) \in Nat /\ DOMAIN newest = 1..Len(newest)
      /\ \A i \in 1..Len(newest) : newest[i] \in owned
  BY ElementsIs DEF ListTyped
<1>2. offset \in Nat /\ listing.size \in Nat
  BY DEF ListTyped
<1>3. H = (offset + 1)..(offset + k) /\ H \subseteq 1..Len(newest)
  <2>1. Taken = (offset + 1)..(offset + k)
    <3>1. CASE k = listing.size + 1
      BY <1>1, <1>2, <3>1 DEF Taken
    <3>2. CASE offset + k = Len(newest) /\ k < listing.size + 1
      <4>1. \A i \in 1..Len(newest) : offset < i => offset < i /\ i <= offset + listing.size + 1
        BY <1>1, <1>2, <3>2, AllTaken, Zenon
      <4>2. Taken = {i \in 1..Len(newest) : offset < i}
        BY <1>1, <4>1 DEF Taken
      <4>3. Taken = (offset + 1)..Len(newest)
        BY <1>1, <1>2, <4>2, LaterPlaces, Zenon
      <4> QED
        BY <3>2, <4>3
    <3> QED
      BY <1>2, <3>1, <3>2
  <2>2. Taken \subseteq 1..Len(newest)
    BY <1>1 DEF Taken
  <2>3. H = Taken
    BY <1>1, <2>2
  <2> QED
    BY <2>1, <2>2, <2>3
<1> HIDE DEF H
<1>4. f \in Seq(Int) /\ Len(f) = k /\ \A n \in 1..k : f[n] = offset + n
  BY <1>2
<1> HIDE DEF f
<1>5. Ordering(f, H)
  <2>1. \A n \in 1..k : f[n] \in H
    BY <1>2, <1>3, <1>4
  <2>2. \A n, j \in 1..k : n < j => f[n] < f[j]
    BY <1>2, <1>4
  <2>3. ASSUME NEW h \in H PROVE Has(f, h)
    <3>1. h - offset \in 1..k /\ offset + (h - offset) = h
      BY <1>2, <1>3
    <3>2. f[h - offset] = offset + (h - offset)
      BY <1>4, <3>1
    <3> QED
      BY <1>4, <3>1, <3>2 DEF Has
  <2> QED
    BY <1>4, <2>1, <2>2, <2>3 DEF Ordering
<1>6. Rows = Sublist(newest, H)
  BY DEF Rows, H
<1>7. PICK g : g = Sorted(H)
  OBVIOUS
<1>8. Alike(f, g)
  BY <1>1, <1>3, <1>5, <1>7, OneOrdering
<1>9. Picked(Rows, newest, g, Listed)
  BY <1>1, <1>3, <1>6, <1>7, SublistIs
<1> QED
  BY <1>4, <1>8, <1>9 DEF Picked, AsListed, Alike

-----------------------------------------------------------------------------
(* The turns at which rows name records: those of one row come before those *)
(* of a later one.                                                          *)

LEMMA TurnsOrdered ==
  ASSUME NEW i \in Nat, NEW j \in Nat, NEW w \in Nat, NEW p \in Nat, NEW q \in Nat, p < w, i < j
  PROVE  i * w + p < j * w + q
<1>1. PICK d \in Nat : j = (i + 1) + d
  <2>1. j - (i + 1) \in Nat /\ j = (i + 1) + (j - (i + 1))
    OBVIOUS
  <2> QED
    BY <2>1
<1>2. ((i + 1) + d) * w = i * w + w + d * w
  OBVIOUS
<1>3. d * w >= 0 /\ d * w \in Nat /\ i * w \in Nat
  OBVIOUS
<1>4. j * w = i * w + w + d * w
  BY <1>1, <1>2
<1> QED
  BY <1>3, <1>4

\* A turn tells the row it belongs to and its place there.
TurnAt(n, w, i, p) == i \in Nat /\ p \in Nat /\ w \in Nat /\ p < w /\ n = i * w + p

LEMMA SameTurn ==
  ASSUME NEW n, NEW w, NEW i, NEW p, TurnAt(n, w, i, p), NEW j, NEW q, TurnAt(n, w, j, q)
  PROVE  i = j /\ p = q
<1>1. /\ i \in Nat /\ j \in Nat /\ w \in Nat /\ p \in Nat /\ q \in Nat
      /\ p < w /\ q < w /\ i * w + p = j * w + q
  BY DEF TurnAt
<1>2. i * w + p \in Nat /\ j * w + q \in Nat /\ i * w \in Nat
  BY <1>1
<1>3. ~(i < j)
  BY <1>1, <1>2, TurnsOrdered
<1>4. ~(j < i)
  BY <1>1, <1>2, TurnsOrdered
<1>5. i = j
  BY <1>1, <1>3, <1>4
<1> QED
  BY <1>1, <1>2, <1>5

Wide == Len(newest) + 2

\* A record has a place with another once at most, and the place tells which.
PlaceOf(r, x, p) ==
  /\ p \in Nat /\ p < Wide
  /\ p = 0 => x = r
  /\ p = 1 => x = parentOf[r]
  /\ p # 0 /\ p # 1 => x = newest[p - 1]
  /\ p # 0 => x \in Edges(r)

LEMMA PlacesAre ==
  ASSUME ListTyped, NEW r, NEW x, NEW p \in Places(r, x)
  PROVE  PlaceOf(r, x, p)
<1>1. Len(newest) \in Nat
  BY ElementsIs DEF ListTyped
<1>2. p \in 0..(Len(newest) + 1) /\ \/ p = 0 /\ x = r
                                    \/ p = 1 /\ x \in Related(r, "parent")
                                    \/ p > 1 /\ x \in Related(r, "children") /\ x = newest[p - 1]
  BY DEF Places
<1>3. x \in Related(r, "parent") => x = parentOf[r]
  BY DEF Related
<1>4. p \in Nat /\ p < Wide
  BY <1>1, <1>2 DEF Wide
<1>5. p # 0 => x \in Edges(r)
  BY <1>2 DEF Edges
<1> QED
  BY <1>2, <1>3, <1>4, <1>5 DEF PlaceOf

\* The rows name x at turn n.
Names(rows, x, n) == \E i \in 1..Len(rows) : \E p \in Places(rows[i], x) : n = i * Wide + p

LEMMA TurnsAre ==
  ASSUME ListTyped, NEW rows, RowsOf(rows), NEW x, NEW n
  PROVE  n \in Turns(rows, x) <=> Names(rows, x, n)
<1>1. DOMAIN rows = 1..Len(rows)
  BY ElementsIs DEF RowsOf
<1> DEFINE At(i) == {Turn(i, p) : p \in Places(rows[i], x)}
<1>2. Turns(rows, x) = UNION {At(i) : i \in 1..Len(rows)}
  BY <1>1 DEF Turns
<1>3. \A i : n \in At(i) <=> \E p \in Places(rows[i], x) : n = i * Wide + p
  BY DEF Turn, Wide
<1> HIDE DEF At
<1>4. n \in Turns(rows, x) <=> \E i \in 1..Len(rows) : n \in At(i)
  BY <1>2
<1> QED
  BY <1>3, <1>4 DEF Names

LEMMA OwnTurn ==
  ASSUME ListTyped, NEW rows, RowsOf(rows), NEW i \in 1..Len(rows)
  PROVE  i * Wide \in Turns(rows, rows[i]) /\ i * Wide \in Nat
<1>1. Len(newest) \in Nat /\ Len(rows) \in Nat
  BY ElementsIs DEF ListTyped, RowsOf
<1>2. 0 \in Places(rows[i], rows[i])
  BY <1>1 DEF Places
<1>3. i \in Nat /\ Wide \in Nat /\ i * Wide = i * Wide + 0
  BY <1>1 DEF Wide
<1>4. Names(rows, rows[i], i * Wide)
  BY <1>2, <1>3, Zenon DEF Names
<1> QED
  BY <1>3, <1>4, TurnsAre

\* All turns come before the one that would follow the rows.
LEMMA TurnsWithin ==
  ASSUME ListTyped, NEW rows, RowsOf(rows), NEW x, NEW n \in Turns(rows, x)
  PROVE  n \in 1..((Len(rows) + 1) * Wide) /\ (Len(rows) + 1) * Wide \in Nat
<1>1. Len(newest) \in Nat /\ Len(rows) \in Nat
  BY ElementsIs DEF ListTyped, RowsOf
<1>2. PICK i \in 1..Len(rows) : \E p \in Places(rows[i], x) : n = i * Wide + p
  BY TurnsAre DEF Names
<1>3. PICK p \in Places(rows[i], x) : n = i * Wide + p
  BY <1>2
<1>4. p \in Nat /\ p < Wide
  BY PlacesAre DEF PlaceOf
<1>5. i \in Nat /\ Wide \in Nat /\ 0 < i /\ i < Len(rows) + 1 /\ Len(rows) + 1 \in Nat /\ 0 \in Nat /\ 0 < Wide
  BY <1>1 DEF Wide
<1>6. 0 * Wide + 0 < i * Wide + p /\ i * Wide + p < (Len(rows) + 1) * Wide + 0
  BY <1>4, <1>5, TurnsOrdered
<1>7. 0 * Wide + 0 = 0 /\ (Len(rows) + 1) * Wide \in Nat /\ i * Wide \in Nat
  BY <1>5
<1> QED
  BY <1>3, <1>4, <1>6, <1>7

Least(n, T) == n \in T /\ \A k \in T : n <= k

LEMMA FirstTurnIs ==
  ASSUME ListTyped, NEW rows, RowsOf(rows), NEW x \in Elements(rows)
  PROVE  Least(FirstTurn(rows, x), Turns(rows, x))
<1>1. PICK i \in 1..Len(rows) : rows[i] = x
  BY ElementsIs DEF RowsOf
<1>2. Turns(rows, x) # {}
  BY <1>1, OwnTurn
<1>3. (Len(rows) + 1) * Wide \in Nat
  BY <1>2, TurnsWithin
<1>4. Turns(rows, x) \subseteq 1..((Len(rows) + 1) * Wide)
  BY TurnsWithin
<1>5. \E n \in Turns(rows, x) : \A k \in Turns(rows, x) : n <= k
  BY <1>2, <1>3, <1>4, LeastPlace
<1> QED
  BY <1>5 DEF FirstTurn, Least

\* Two records are not first named at the same turn.
LEMMA OneTurn ==
  ASSUME ListTyped, NEW rows, RowsOf(rows), NEW x \in Elements(rows), NEW y \in Elements(rows),
         FirstTurn(rows, x) = FirstTurn(rows, y)
  PROVE  x = y
<1> DEFINE n == FirstTurn(rows, x)
<1>1. Names(rows, x, n) /\ Names(rows, y, n)
  BY FirstTurnIs, TurnsAre DEF Least
<1> HIDE DEF n
<1>2. PICK i \in 1..Len(rows) : \E p \in Places(rows[i], x) : n = i * Wide + p
  BY <1>1 DEF Names
<1>3. PICK j \in 1..Len(rows) : \E q \in Places(rows[j], y) : n = j * Wide + q
  BY <1>1 DEF Names
<1>4. PICK p \in Places(rows[i], x) : n = i * Wide + p
  BY <1>2
<1>5. PICK q \in Places(rows[j], y) : n = j * Wide + q
  BY <1>3
<1>6. PlaceOf(rows[i], x, p) /\ PlaceOf(rows[j], y, q)
  BY PlacesAre
<1>7. i \in Nat /\ j \in Nat /\ Wide \in Nat
  BY ElementsIs DEF ListTyped, RowsOf, Wide
<1>8. TurnAt(n, Wide, i, p) /\ TurnAt(n, Wide, j, q)
  BY <1>4, <1>5, <1>6, <1>7 DEF TurnAt, PlaceOf
<1>9. i = j /\ p = q
  BY <1>8, SameTurn
<1> QED
  BY <1>6, <1>9 DEF PlaceOf

-----------------------------------------------------------------------------
(* What the joined rows are: every record of the rows once, in the order of *)
(* first turns (InTurn).  The record that belongs to the next page is the   *)
(* last of them, unless one before it relates to it (LastIsLast).           *)

\* The records of the rows, each once, as they are first named.
InTurn(found, rows) ==
  /\ found \in Seq(Listed) /\ Distinct(found) /\ Elements(found) = Elements(rows) /\ Len(found) = Len(rows)
  /\ \A n, k \in 1..Len(found) : n < k => FirstTurn(rows, found[n]) < FirstTurn(rows, found[k])

FirstTurns(rows) == {FirstTurn(rows, r) : r \in Elements(rows)}

LEMMA FirstTurnsAre ==
  ASSUME ListTyped, NEW rows, RowsOf(rows), NEW turns, turns = Sorted(FirstTurns(rows))
  PROVE  /\ Ordering(turns, FirstTurns(rows)) /\ DOMAIN turns = 1..Len(turns)
         /\ \A n \in FirstTurns(rows) : n \in Int
<1>1. Len(newest) \in Nat /\ Len(rows) \in Nat
  BY ElementsIs DEF ListTyped, RowsOf
<1>2. (Len(rows) + 1) * Wide \in Nat
  BY <1>1 DEF Wide
<1>3. FirstTurns(rows) \subseteq 1..((Len(rows) + 1) * Wide)
  <2> SUFFICES ASSUME NEW r \in Elements(rows) PROVE FirstTurn(rows, r) \in 1..((Len(rows) + 1) * Wide)
    BY DEF FirstTurns
  <2>1. FirstTurn(rows, r) \in Turns(rows, r)
    BY FirstTurnIs DEF Least
  <2> QED
    BY <2>1, TurnsWithin
<1>4. Ordering(turns, FirstTurns(rows))
  BY <1>2, <1>3, SortedOrders
<1>5. DOMAIN turns = 1..Len(turns)
  BY <1>2, <1>3, SortedIs
<1>6. \A n \in FirstTurns(rows) : n \in Int
  BY <1>2, <1>3
<1> QED
  BY <1>4, <1>5, <1>6

LEMMA GraphListIs ==
  ASSUME ListTyped, NEW rows, RowsOf(rows), NEW found, found = GraphList(rows)
  PROVE  InTurn(found, rows)
<1>1. PICK turns : turns = Sorted(FirstTurns(rows))
  OBVIOUS
<1>2. Ordering(turns, FirstTurns(rows)) /\ DOMAIN turns = 1..Len(turns) /\ \A n \in FirstTurns(rows) : n \in Int
  BY <1>1, FirstTurnsAre
<1>3. /\ Len(turns) \in Nat /\ \A n \in 1..Len(turns) : turns[n] \in FirstTurns(rows)
      /\ \A n, k \in 1..Len(turns) : n < k => turns[n] < turns[k]
      /\ \A r \in Elements(rows) : Has(turns, FirstTurn(rows, r))
  BY <1>2 DEF Ordering, FirstTurns
<1> DEFINE At(n) == CHOOSE r \in Elements(rows) : FirstTurn(rows, r) = turns[n]
<1>4. found = [n \in 1..Len(turns) |-> At(n)]
  BY <1>1, <1>2 DEF GraphList, FirstTurns
<1>5. ASSUME NEW n \in 1..Len(turns) PROVE At(n) \in Elements(rows) /\ FirstTurn(rows, At(n)) = turns[n]
  <2>1. \E r \in Elements(rows) : FirstTurn(rows, r) = turns[n]
    BY <1>3 DEF FirstTurns
  <2> QED
    BY <2>1
<1> HIDE DEF At
<1>6. Elements(rows) \subseteq Listed /\ Len(rows) \in Nat
  BY ElementsIs DEF RowsOf
<1>7. found \in [1..Len(turns) -> Listed]
  BY <1>4, <1>5, <1>6
<1>8. found \in Seq(Listed) /\ Len(found) = Len(turns)
  <2>1. found \in Seq(Listed)
    BY <1>3, <1>7, SeqDef
  <2> QED
    BY <1>3, <1>7, <2>1, LenProperties
<1>9. \A n \in 1..Len(found) : found[n] \in Elements(rows) /\ FirstTurn(rows, found[n]) = turns[n]
  BY <1>4, <1>5, <1>8
<1>10. \A n, k \in 1..Len(found) : n < k => FirstTurn(rows, found[n]) < FirstTurn(rows, found[k])
  BY <1>3, <1>8, <1>9
<1>11. \A n \in 1..Len(turns) : turns[n] \in Int
  BY <1>2, <1>3
<1>12. DOMAIN found = 1..Len(found) /\ Elements(found) = {found[n] : n \in 1..Len(found)}
  BY <1>8, ElementsIs DEF Elements
<1>13. Distinct(found)
  <2> SUFFICES ASSUME NEW n \in 1..Len(found), NEW k \in 1..Len(found), found[n] = found[k] PROVE n = k
    BY <1>12 DEF Distinct
  <2>1. turns[n] = turns[k] /\ n \in 1..Len(turns) /\ k \in 1..Len(turns)
    BY <1>8, <1>9
  <2>2. ~(n < k) /\ ~(k < n)
    BY <1>3, <1>11, <2>1
  <2> QED
    BY <1>3, <2>1, <2>2
<1>14. Elements(found) = Elements(rows)
  <2>1. ASSUME NEW x \in Elements(rows) PROVE x \in Elements(found)
    <3>1. PICK n \in 1..Len(turns) : turns[n] = FirstTurn(rows, x)
      BY <1>3 DEF Has
    <3>2. found[n] \in Elements(rows) /\ FirstTurn(rows, found[n]) = FirstTurn(rows, x)
      BY <1>8, <1>9, <3>1
    <3>3. found[n] = x
      BY <3>2, OneTurn
    <3> QED
      BY <1>8, <1>12, <3>3
  <2>2. Elements(found) \subseteq Elements(rows)
    BY <1>9, <1>12
  <2> QED
    BY <2>1, <2>2
<1>15. Len(found) = Len(rows)
  <2>1. Cardinality(Elements(found)) = Len(found)
    BY <1>8, <1>13, DistinctIs
  <2>2. Cardinality(Elements(rows)) = Len(rows)
    BY DistinctIs DEF RowsOf
  <2> QED
    BY <1>14, <2>1, <2>2
<1> QED
  BY <1>8, <1>10, <1>13, <1>14, <1>15 DEF InTurn

\* A record no row before its own relates to is first named there.
LEMMA OwnTurnFirst ==
  ASSUME ListTyped, NEW rows, RowsOf(rows), NEW i \in 1..Len(rows),
         \A j \in 1..Len(rows) : j < i => rows[i] \notin Edges(rows[j])
  PROVE  FirstTurn(rows, rows[i]) = i * Wide
<1> DEFINE n == FirstTurn(rows, rows[i])
<1>1. rows[i] \in Elements(rows) /\ Len(rows) \in Nat /\ Len(newest) \in Nat
  BY ElementsIs DEF RowsOf, ListTyped
<1>2. n \in Turns(rows, rows[i]) /\ \A k \in Turns(rows, rows[i]) : n <= k
  BY <1>1, FirstTurnIs DEF Least
<1>3. n <= i * Wide /\ i * Wide \in Nat
  BY <1>2, OwnTurn
<1>4. Names(rows, rows[i], n)
  BY <1>2, TurnsAre
<1> HIDE DEF n
<1>5. PICK j \in 1..Len(rows) : \E p \in Places(rows[j], rows[i]) : n = j * Wide + p
  BY <1>4 DEF Names
<1>6. PICK p \in Places(rows[j], rows[i]) : n = j * Wide + p
  BY <1>5
<1>7. PlaceOf(rows[j], rows[i], p)
  BY PlacesAre
<1>8. p \in Nat /\ p < Wide /\ 0 < Wide /\ Wide \in Nat /\ i \in Nat /\ j \in Nat /\ 0 \in Nat
  BY <1>1, <1>7 DEF PlaceOf, Wide
<1>9. ~(j < i)
  <2> SUFFICES ASSUME j < i PROVE FALSE
    OBVIOUS
  <2>1. p = 0 /\ rows[i] = rows[j]
    BY <1>7 DEF PlaceOf
  <2>2. i = j
    BY <2>1, DistinctIs DEF RowsOf
  <2> QED
    BY <1>8, <2>2
<1>10. ~(i < j)
  <2> SUFFICES ASSUME i < j PROVE FALSE
    OBVIOUS
  <2>1. i * Wide + 0 < j * Wide + p
    BY <1>8, TurnsOrdered
  <2>2. j * Wide + p <= i * Wide /\ j * Wide + p \in Nat
    BY <1>3, <1>6, <1>8
  <2> QED
    BY <1>3, <2>1, <2>2
<1>11. i = j
  BY <1>8, <1>9, <1>10
<1>12. n = i * Wide + p
  BY <1>6, <1>11
<1>13. p = 0
  BY <1>3, <1>8, <1>12
<1> QED
  BY <1>3, <1>12, <1>13 DEF n

\* The record of the next page comes last, unless one before it relates to it.
LEMMA LastIsLast ==
  ASSUME ListTyped, NEW rows, RowsOf(rows), NEW found, InTurn(found, rows), Full(rows), ~Tangles(rows)
  PROVE  found[Len(found)] = rows[Len(rows)] /\ Len(found) \in 1..Len(found)
<1> DEFINE l == Len(rows)
           z == rows[l]
<1>1. Len(rows) = listing.size + 1 /\ listing.size \in Nat /\ Len(found) = l
  BY DEF Full, InTurn, ListTyped
<1>2. l \in 1..Len(rows) /\ l \in Nat /\ \A j \in 1..Len(rows) : j < l => j \in 1..listing.size
  BY <1>1
<1>3. \A j \in 1..Len(rows) : j < l => z \notin Edges(rows[j])
  BY <1>1, <1>2 DEF Tangles
<1>4. FirstTurn(rows, z) = l * Wide
  BY <1>2, <1>3, OwnTurnFirst
<1>5. /\ DOMAIN found = 1..l /\ \A n \in 1..l : found[n] \in Elements(rows)
      /\ \A x \in Elements(rows) : \E n \in 1..l : found[n] = x
  BY <1>1, ElementsIs DEF InTurn
<1>6. z \in Elements(rows)
  BY <1>2, ElementsIs DEF RowsOf
<1>7. PICK n \in 1..l : found[n] = z
  BY <1>5, <1>6
<1>8. ~(n < l)
  <2> SUFFICES ASSUME n < l PROVE FALSE
    OBVIOUS
  <2>1. FirstTurn(rows, z) < FirstTurn(rows, found[l])
    BY <1>1, <1>2, <1>7 DEF InTurn
  <2>2. PICK i \in 1..Len(rows) : rows[i] = found[l]
    <3>1. found[l] \in Elements(rows) /\ rows \in Seq(Listed)
      BY <1>2, <1>5 DEF RowsOf
    <3> HIDE DEF l
    <3> QED
      BY <3>1, ElementsIs
  <2>3. i * Wide \in Turns(rows, found[l]) /\ i * Wide \in Nat
    BY <2>2, OwnTurn
  <2>4. Least(FirstTurn(rows, found[l]), Turns(rows, found[l]))
    BY <1>2, <1>5, FirstTurnIs
  <2>5. FirstTurn(rows, found[l]) \in Nat
    <3>1. FirstTurn(rows, found[l]) \in Turns(rows, found[l])
      BY <2>4 DEF Least
    <3>2. FirstTurn(rows, found[l]) \in 1..((Len(rows) + 1) * Wide) /\ (Len(rows) + 1) * Wide \in Nat
      BY <3>1, TurnsWithin
    <3> QED
      BY <3>2
  <2>6. FirstTurn(rows, found[l]) <= i * Wide
    BY <2>3, <2>4 DEF Least
  <2>7. Wide \in Nat /\ 0 < Wide /\ l * Wide \in Nat
    <3>1. Len(newest) \in Nat
      BY ElementsIs DEF ListTyped
    <3> QED
      BY <1>2, <3>1 DEF Wide
  <2>8. i * Wide <= l * Wide
    <3>1. CASE i = l
      BY <2>7, <3>1
    <3>2. CASE i < l
      <4>1. i * Wide + 0 < l * Wide + 0
        BY <1>2, <2>7, <3>2, TurnsOrdered
      <4> QED
        BY <2>3, <2>7, <4>1
    <3> QED
      BY <1>2, <3>1, <3>2
  <2> QED
    BY <1>4, <2>1, <2>3, <2>5, <2>6, <2>7, <2>8
<1>9. n = l
  BY <1>2, <1>8
<1> QED
  BY <1>1, <1>2, <1>7, <1>9

\* Records that are not related to one another stay as they are listed.
Unrelated == \A r \in Elements(newest) : parentOf[r] = NoParent

LEMMA NoneTangled ==
  ASSUME ListTyped, Unrelated, NEW rows, RowsOf(rows), Elements(rows) \subseteq Elements(newest)
  PROVE  \A i \in 1..Len(rows) : FirstTurn(rows, rows[i]) = i * Wide
<1> SUFFICES ASSUME NEW i \in 1..Len(rows) PROVE FirstTurn(rows, rows[i]) = i * Wide
  OBVIOUS
<1>1. ASSUME NEW r \in Elements(rows) PROVE Edges(r) = {}
  <2>1. r \in Elements(newest) /\ r # NoParent
    <3>1. r \in Listed
      BY <1>1, ElementsIs DEF RowsOf
    <3> QED
      BY <1>1, <3>1, ListingAssumption DEF Listed, NoParent
  <2>2. parentOf[r] = NoParent /\ \A c \in Elements(newest) : parentOf[c] # r
    BY <2>1 DEF Unrelated
  <2>3. NoParent \notin Listed
    BY ListingAssumption DEF Listed, NoParent
  <2> QED
    BY <2>2, <2>3 DEF Edges, Related
<1>2. \A j \in 1..Len(rows) : rows[j] \in Elements(rows)
  BY ElementsIs DEF RowsOf
<1>3. \A j \in 1..Len(rows) : j < i => rows[i] \notin Edges(rows[j])
  BY <1>1, <1>2
<1> QED
  BY <1>3, OwnTurnFirst

LEMMA StaysListed ==
  ASSUME ListTyped, Unrelated, NEW rows, RowsOf(rows), Elements(rows) \subseteq Elements(newest),
         NEW found, InTurn(found, rows)
  PROVE  \A n \in 1..Len(found) : found[n] = rows[n]
<1> DEFINE l == Len(rows)
           h == [n \in 1..l |-> CHOOSE i \in 1..l : rows[i] = found[n]]
<1>1. Len(found) = l /\ l \in Nat /\ Wide \in Nat /\ 0 < Wide
  BY ElementsIs DEF InTurn, RowsOf, ListTyped, Wide
<1>2. /\ \A n \in 1..l : found[n] \in Elements(rows)
      /\ \A x \in Elements(rows) : \E n \in 1..l : found[n] = x
  BY <1>1, ElementsIs DEF InTurn
<1>3. \A x \in Elements(rows) : \E i \in 1..l : rows[i] = x
  BY ElementsIs DEF RowsOf
<1>4. \A n \in 1..l : h[n] \in 1..l /\ rows[h[n]] = found[n]
  <2> SUFFICES ASSUME NEW n \in 1..l PROVE h[n] \in 1..l /\ rows[h[n]] = found[n]
    OBVIOUS
  <2>1. \E i \in 1..l : rows[i] = found[n]
    BY <1>2, <1>3
  <2> QED
    BY <2>1
<1>5. h \in Seq(Int) /\ Len(h) = l
  <2>1. h \in [1..l -> Int]
    BY <1>1, <1>4
  <2>2. h \in Seq(Int)
    BY <1>1, <2>1, SeqDef
  <2> QED
    BY <1>1, <2>1, <2>2, LenProperties
<1> HIDE DEF h
<1>6. Ordering(h, 1..l)
  <2>1. ASSUME NEW n \in 1..l, NEW k \in 1..l, n < k PROVE h[n] < h[k]
    <3>1. FirstTurn(rows, found[n]) < FirstTurn(rows, found[k])
      BY <1>1, <2>1 DEF InTurn
    <3>2. FirstTurn(rows, found[n]) = h[n] * Wide /\ FirstTurn(rows, found[k]) = h[k] * Wide
      BY <1>4, NoneTangled
    <3>3. h[n] \in Nat /\ h[k] \in Nat /\ h[n] * Wide \in Nat /\ h[k] * Wide \in Nat
      BY <1>1, <1>4
    <3>4. ~(h[k] < h[n])
      <4> SUFFICES ASSUME h[k] < h[n] PROVE FALSE
        OBVIOUS
      <4>1. h[k] * Wide + 0 < h[n] * Wide + 0
        BY <1>1, <3>3, TurnsOrdered
      <4> QED
        BY <3>1, <3>2, <3>3, <4>1
    <3>5. h[k] # h[n]
      BY <3>1, <3>2, <3>3
    <3> QED
      BY <3>3, <3>4, <3>5
  <2>2. ASSUME NEW i \in 1..l PROVE Has(h, i)
    <3>1. rows[i] \in Elements(rows)
      BY ElementsIs DEF RowsOf
    <3>2. PICK n \in 1..l : found[n] = rows[i]
      BY <1>2, <3>1
    <3>3. h[n] = i
      BY <1>4, <3>2, DistinctIs DEF RowsOf
    <3> QED
      BY <1>5, <3>3 DEF Has
  <2> QED
    BY <1>1, <1>4, <1>5, <2>1, <2>2 DEF Ordering
<1>7. \A n \in 1..l : h[n] = n
  <2> DEFINE id == [n \in 1..l |-> n]
  <2>1. id \in Seq(Int) /\ Len(id) = l /\ \A n \in 1..l : id[n] = n
    BY <1>1
  <2> HIDE DEF id
  <2>2. Ordering(id, 1..l)
    BY <1>1, <2>1 DEF Ordering, Has
  <2>3. PICK g : g = Sorted(1..l)
    OBVIOUS
  <2>4. Alike(h, g) /\ Alike(id, g)
    BY <1>1, <1>6, <2>2, <2>3, OneOrdering
  <2> QED
    BY <1>5, <2>1, <2>4 DEF Alike
<1> QED
  BY <1>1, <1>4, <1>7

-----------------------------------------------------------------------------
(* What a page shows and where it stops (NextOnes).                         *)

\* What a page shows of what was found: all, or all but the last.
ShownOf(shown, found) ==
  /\ shown \in Seq(Listed) /\ Distinct(shown) /\ Len(shown) \in Nat /\ Len(shown) <= listing.size
  /\ Len(shown) = IF Full(found) THEN listing.size ELSE Len(found)
  /\ \A n \in 1..Len(shown) : n \in 1..Len(found) /\ shown[n] = found[n]

LEMMA ShownIs ==
  ASSUME ListTyped, NEW found \in Seq(Listed), Distinct(found), Len(found) <= listing.size + 1
  PROVE  ShownOf(Shown(found), found)
<1> DEFINE shown == Shown(found)
<1>1. /\ Len(found) \in Nat /\ \A n \in 1..Len(found) : found[n] \in Listed
      /\ \A n, k \in 1..Len(found) : found[n] = found[k] => n = k
      /\ listing.size \in Nat /\ 1 <= listing.size
  BY ElementsIs, DistinctIs DEF ListTyped
<1>2. CASE Full(found)
  <2>1. Len(found) = listing.size + 1 /\ shown = SubSeq(found, 1, listing.size)
    BY <1>2 DEF Full, Shown
  <2>2. 1 \in Int /\ listing.size \in Int /\ \A n \in 1..listing.size : n \in 1..Len(found) /\ found[n] \in Listed
    BY <1>1, <2>1
  <2>3. /\ shown \in Seq(Listed) /\ Len(shown) = listing.size - 1 + 1
        /\ \A n \in 1..(listing.size - 1 + 1) : shown[n] = found[1 + n - 1]
    BY <1>1, <2>1, <2>2, SubSeqProperties
  <2>4. listing.size - 1 + 1 = listing.size /\ \A n \in 1..listing.size : 1 + n - 1 = n
    BY <1>1
  <2>5. Len(shown) = listing.size /\ \A n \in 1..listing.size : shown[n] = found[n]
    BY <2>3, <2>4
  <2> HIDE DEF shown
  <2>6. DOMAIN shown = 1..Len(shown)
    BY <2>3, ElementsIs
  <2>7. Distinct(shown)
    BY <1>1, <2>2, <2>5, <2>6 DEF Distinct
  <2> QED
    BY <1>1, <1>2, <2>2, <2>3, <2>5, <2>7 DEF ShownOf, shown
<1>3. CASE ~Full(found)
  <2>1. shown = found /\ Len(found) # listing.size + 1
    BY <1>3 DEF Full, Shown
  <2>2. Len(found) <= listing.size
    BY <1>1, <2>1
  <2> QED
    BY <1>1, <1>3, <2>1, <2>2 DEF ShownOf
<1> QED
  BY <1>2, <1>3

\* The next ones of the list, and whether there are more.
NextOnes(shown, more) ==
  /\ Elements(shown) = {newest[offset + n] : n \in 1..Len(shown)}
  /\ offset + Len(shown) <= Len(newest)
  /\ more => Len(shown) = listing.size /\ offset + listing.size + 1 <= Len(newest)
  /\ ~more => offset + Len(shown) = Len(newest)
  /\ Unrelated => \A n \in 1..Len(shown) : shown[n] = newest[offset + n]

LEMMA WholePage ==
  ASSUME ListTyped, NEW rows, RowsOf(rows), Elements(rows) \subseteq Elements(newest), ~Tangles(rows),
         NEW k \in Nat, AsListed(rows, k), k <= listing.size + 1, offset + k <= Len(newest),
         k = listing.size + 1 \/ offset + k = Len(newest),
         NEW found, InTurn(found, rows), NEW shown, ShownOf(shown, found)
  PROVE  NextOnes(shown, Full(found))
<1>1. /\ rows \in Seq(Listed) /\ Len(rows) = k /\ \A n \in 1..k : rows[n] = newest[offset + n]
      /\ DOMAIN rows = 1..k /\ Elements(rows) = {rows[n] : n \in 1..k}
      /\ \A n, j \in 1..k : rows[n] = rows[j] => n = j
  <2>1. rows \in Seq(Listed) /\ Distinct(rows) /\ Len(rows) = k /\ \A n \in 1..k : rows[n] = newest[offset + n]
    BY DEF RowsOf, AsListed
  <2>2. DOMAIN rows = 1..k
    BY <2>1, ElementsIs
  <2>3. \A n, j \in 1..k : rows[n] = rows[j] => n = j
    BY <2>1, DistinctIs
  <2> QED
    BY <2>1, <2>2, <2>3 DEF Elements
<1>2. /\ found \in Seq(Listed) /\ Len(found) = k /\ Elements(found) = Elements(rows)
      /\ DOMAIN found = 1..k /\ Elements(found) = {found[n] : n \in 1..k}
      /\ \A n, j \in 1..k : found[n] = found[j] => n = j
  <2>1. found \in Seq(Listed) /\ Distinct(found) /\ Len(found) = k /\ Elements(found) = Elements(rows)
    BY <1>1 DEF InTurn
  <2>2. DOMAIN found = 1..k
    BY <2>1, ElementsIs
  <2>3. \A n, j \in 1..k : found[n] = found[j] => n = j
    BY <2>1, DistinctIs
  <2>4. Elements(found) = {found[n] : n \in 1..k}
    BY <2>2 DEF Elements
  <2> QED
    BY <2>1, <2>2, <2>3, <2>4
<1>3. /\ shown \in Seq(Listed) /\ DOMAIN shown = 1..Len(shown) /\ Elements(shown) = {shown[n] : n \in 1..Len(shown)}
      /\ Len(shown) = IF Full(found) THEN listing.size ELSE k
      /\ \A n \in 1..Len(shown) : n \in 1..k /\ shown[n] = found[n]
  BY <1>2, ElementsIs DEF ShownOf, Elements
<1>4. listing.size \in Nat /\ offset \in Nat /\ (Full(found) <=> k = listing.size + 1) /\ Len(newest) \in Nat
  BY <1>2, ElementsIs DEF Full, ListTyped
<1>5. Unrelated => \A n \in 1..Len(shown) : shown[n] = newest[offset + n]
  <2> SUFFICES ASSUME Unrelated, NEW n \in 1..Len(shown) PROVE shown[n] = newest[offset + n]
    OBVIOUS
  <2>1. \A j \in 1..Len(found) : found[j] = rows[j]
    BY StaysListed
  <2> QED
    BY <1>1, <1>2, <1>3, <2>1
<1>6. CASE ~Full(found)
  <2>1. Len(shown) = k /\ offset + k = Len(newest)
    BY <1>3, <1>4, <1>6
  <2>2. Elements(shown) = Elements(rows)
    BY <1>2, <1>3, <2>1
  <2>3. Elements(shown) = {newest[offset + n] : n \in 1..Len(shown)}
    BY <1>1, <2>1, <2>2
  <2> QED
    BY <1>4, <1>5, <1>6, <2>1, <2>3 DEF NextOnes
<1>7. CASE Full(found)
  <2>1. /\ k = listing.size + 1 /\ Len(shown) = listing.size /\ Full(rows)
        /\ \A n \in 1..k : n \in 1..listing.size \/ n = k
        /\ \A n \in 1..listing.size : n \in 1..k /\ n # k
        /\ k \in 1..k
    BY <1>1, <1>3, <1>4, <1>7 DEF Full
  <2>2. found[k] = rows[k]
    BY <1>1, <1>2, <2>1, LastIsLast
  <2>3. ASSUME NEW n \in 1..listing.size PROVE \E j \in 1..listing.size : found[n] = rows[j]
    <3>1. found[n] \in Elements(rows) /\ n \in 1..k
      BY <1>2, <2>1
    <3>2. PICK j \in 1..k : found[n] = rows[j]
      BY <1>1, <3>1
    <3>3. j # k
      BY <1>2, <2>1, <2>2, <3>1, <3>2
    <3> QED
      BY <2>1, <3>2, <3>3
  <2>4. ASSUME NEW n \in 1..listing.size PROVE \E j \in 1..listing.size : rows[n] = found[j]
    <3>1. rows[n] \in Elements(found) /\ n \in 1..k
      BY <1>1, <1>2, <2>1
    <3>2. PICK j \in 1..k : rows[n] = found[j]
      BY <1>2, <3>1
    <3>3. j # k
      BY <1>1, <2>1, <2>2, <3>1, <3>2
    <3> QED
      BY <2>1, <3>2, <3>3
  <2>5. Elements(shown) = {rows[n] : n \in 1..listing.size}
    <3>1. Elements(shown) = {found[n] : n \in 1..listing.size}
      BY <1>3, <2>1
    <3> DEFINE A == {found[n] : n \in 1..listing.size}
               B == {rows[n] : n \in 1..listing.size}
    <3>2. \A x \in A : x \in B
      BY <2>3
    <3>3. \A x \in B : x \in A
      BY <2>4
    <3> QED
      BY <3>1, <3>2, <3>3
  <2>6. Elements(shown) = {newest[offset + n] : n \in 1..Len(shown)}
    BY <1>1, <2>1, <2>5
  <2>7. offset + listing.size + 1 <= Len(newest) /\ offset + Len(shown) <= Len(newest)
    BY <1>4, <2>1
  <2> QED
    BY <1>5, <1>7, <2>1, <2>6, <2>7 DEF NextOnes
<1> QED
  BY <1>6, <1>7

-----------------------------------------------------------------------------
(* The document of a page.                                                  *)

\* What links lead to is closed under them, and each of it is linked from there.
LEMMA BeyondIs ==
  ASSUME NEW links, NEW from, from \subseteq Listed, \A r \in Listed : links[r] \subseteq Listed
  PROVE  /\ Beyond(links, from) \subseteq Listed
         /\ \A r \in from \cup Beyond(links, from) : links[r] \subseteq Beyond(links, from)
         /\ \A x \in Beyond(links, from) : \E r \in from \cup Beyond(links, from) : x \in links[r]
<1> DEFINE B == Beyond(links, from)
           Closed(A) == \A r \in from \cup A : links[r] \subseteq A
<1>1. B = {x \in Listed : \A A \in SUBSET Listed : Closed(A) => x \in A}
  BY DEF Beyond
<1> HIDE DEF B
<1>2. B \subseteq Listed
  BY <1>1
<1>3. ASSUME NEW r \in from \cup B, NEW x \in links[r] PROVE x \in B
  <2>1. x \in Listed
    BY <1>2
  <2>2. ASSUME NEW A \in SUBSET Listed, Closed(A) PROVE x \in A
    <3>1. r \in from \cup A
      BY <1>1, <2>2
    <3> QED
      BY <2>2, <3>1
  <2> HIDE DEF Closed
  <2> QED
    BY <1>1, <2>1, <2>2
<1>4. ASSUME NEW x \in B PROVE \E r \in from \cup B : x \in links[r]
  <2> DEFINE A == {y \in B : \E r \in from \cup B : y \in links[r]}
  <2>1. A \in SUBSET Listed
    BY <1>2
  <2>2. Closed(A)
    <3> SUFFICES ASSUME NEW r \in from \cup A, NEW y \in links[r] PROVE y \in A
      OBVIOUS
    <3>1. r \in from \cup B
      OBVIOUS
    <3> QED
      BY <1>3, <3>1
  <2> HIDE DEF Closed, A
  <2>3. x \in A
    BY <1>1, <1>4, <2>1, <2>2
  <2> QED
    BY <2>3 DEF A
<1> QED
  BY <1>2, <1>3, <1>4 DEF B

\* The relations of a record lead to records of the list; the ones that are
\* included are among them, and all of them if all are asked for.
LEMMA LinksAre ==
  ASSUME ListTyped, NEW rows, RowsOf(rows), NEW r \in Listed
  PROVE  /\ Linkage(rows)[r] \subseteq Listed /\ Followed(rows)[r] \subseteq Linkage(rows)[r]
         /\ listing.include = listing.declared => Followed(rows)[r] = Linkage(rows)[r]
<1>1. Linkage(rows)[r] = IF r \in Elements(rows) THEN Edges(r) ELSE {}
  BY DEF Linkage
<1>2. Followed(rows)[r] = IF r \in Elements(rows) THEN UNION {Related(r, name) : name \in listing.include} ELSE {}
  BY DEF Followed
<1>3. Elements(newest) \subseteq Listed
  BY ElementsIs DEF ListTyped
<1>4. \A name : Related(r, name) \subseteq Listed /\ (name \notin listing.declared => Related(r, name) = {})
  BY DEF Related
<1>5. Edges(r) \subseteq Listed /\ \A name \in Relations : Related(r, name) \subseteq Edges(r)
  BY <1>4 DEF Edges, Relations
<1>6. listing.include \subseteq Relations
  BY DEF ListTyped
<1>7. UNION {Related(r, name) : name \in listing.include} \subseteq Edges(r)
  BY <1>5, <1>6
<1>8. ASSUME listing.include = listing.declared
      PROVE  Edges(r) \subseteq UNION {Related(r, name) : name \in listing.include}
  <2>1. \A name : name \notin listing.include => Related(r, name) = {}
    BY <1>4, <1>8
  <2> QED
    BY <2>1 DEF Edges
<1> QED
  BY <1>1, <1>2, <1>5, <1>7, <1>8

\* The document of a page, whatever the page.
CompleteDoc(doc, what) ==
  LET inDocument == Elements(doc.data) \cup doc.included
  IN /\ Distinct(doc.data) /\ Len(doc.data) <= what.size
     /\ doc.included \subseteq UNION {doc.links[r] : r \in inDocument}
     /\ what.include = what.declared => \A r \in inDocument : doc.links[r] \subseteq inDocument

LEMMA DocumentIs ==
  ASSUME ListTyped, NEW rows, RowsOf(rows), NEW found, ShownOf(Shown(found), found)
  PROVE  CompleteDoc(Document(found, rows), listing)
<1> DEFINE doc == Document(found, rows)
           shown == Shown(found)
           from == Elements(shown)
           links == Followed(rows)
           beyond == Beyond(links, from)
<1>1. doc.data = shown /\ doc.links = Linkage(rows) /\ doc.included = beyond
  BY DEF Document, Included
<1>2. from \subseteq Listed /\ Distinct(shown) /\ Len(shown) <= listing.size
  BY ElementsIs DEF ShownOf
<1>3. \A r \in Listed : links[r] \subseteq Listed
  BY LinksAre
<1>4. /\ beyond \subseteq Listed
      /\ \A r \in from \cup beyond : links[r] \subseteq beyond
      /\ \A x \in beyond : \E r \in from \cup beyond : x \in links[r]
  BY <1>2, <1>3, BeyondIs
<1> HIDE DEF doc, shown, from, links, beyond
<1>5. \A r \in from \cup beyond : links[r] \subseteq doc.links[r]
  BY <1>1, <1>2, <1>4, LinksAre DEF links
<1>6. beyond \subseteq UNION {doc.links[r] : r \in from \cup beyond}
  BY <1>4, <1>5
<1>7. listing.include = listing.declared => \A r \in from \cup beyond : doc.links[r] \subseteq from \cup beyond
  <2> SUFFICES ASSUME listing.include = listing.declared, NEW r \in from \cup beyond PROVE doc.links[r] \subseteq beyond
    OBVIOUS
  <2>1. doc.links[r] = links[r]
    BY <1>1, <1>2, <1>4, LinksAre DEF links
  <2> QED
    BY <1>4, <2>1
<1>8. Elements(doc.data) = from /\ doc.included = beyond
  BY <1>1 DEF from
<1>9. CompleteDoc(doc, listing)
  BY <1>1, <1>2, <1>6, <1>7, <1>8 DEF CompleteDoc
<1> QED
  BY <1>9 DEF doc

-----------------------------------------------------------------------------
(* What a change does to the list.                                          *)

\* The list without one of its records: nothing moves by more than one place.
LEMMA SortedRanks ==
  ASSUME NEW m \in Nat, NEW H, H \subseteq 1..m, NEW f, f = Sorted(H), NEW n \in 1..Len(f)
  PROVE  f[n] \in H /\ Rank(H, f[n]) = n
<1>1. Len(f) = Cardinality(H)
  BY SortedIs
<1>2. \E i \in H : Rank(H, i) = n
  BY <1>1, RankCounts
<1>3. f[n] = CHOOSE i \in H : Rank(H, i) = n
  BY <1>1 DEF Sorted
<1> QED
  BY <1>2, <1>3

LEMMA AllButOne ==
  ASSUME NEW m \in Nat, NEW p, NEW S, S = (1..m) \ {p}
  PROVE  IsFiniteSet(S) /\ Cardinality(S) \in Nat /\ m <= Cardinality(S) + 1
<1>1. IsFiniteSet(1..m) /\ Cardinality(1..m) = m
  BY FS_Interval
<1>2. IsFiniteSet(S) /\ Cardinality(S) = IF p \in 1..m THEN m - 1 ELSE m
  <2>1. /\ IsFiniteSet((1..m) \ {p})
        /\ Cardinality((1..m) \ {p}) = IF p \in 1..m THEN Cardinality(1..m) - 1 ELSE Cardinality(1..m)
    BY <1>1, FS_RemoveElement, Zenon
  <2> QED
    BY <1>1, <2>1
<1>3. Cardinality(S) \in Nat
  BY <1>2, FS_CardinalityType
<1> QED
  BY <1>2, <1>3

LEMMA RankWithout ==
  ASSUME NEW m \in Nat, NEW H, H \subseteq 1..m, NEW p, (1..m) \ {p} \subseteq H, NEW h \in H
  PROVE  h <= Rank(H, h) + 1 /\ Rank(H, h) \in Nat
<1> DEFINE A == {j \in H : j <= h}
<1>1. h \in Nat /\ IsFiniteSet(1..h) /\ Cardinality(1..h) = h /\ h <= m
  <2>1. h \in Nat /\ 1 <= h /\ h <= m
    OBVIOUS
  <2> QED
    BY <2>1, FS_Interval
<1>2. Cardinality((1..h) \ {p}) \in Nat /\ h <= Cardinality((1..h) \ {p}) + 1
  BY <1>1, AllButOne
<1>3. (1..h) \ {p} \subseteq A
  BY <1>1
<1>4. IsFiniteSet(A) /\ Cardinality(A) \in Nat
  <2>1. IsFiniteSet(1..m)
    BY FS_Interval
  <2>2. A \subseteq 1..m
    OBVIOUS
  <2> HIDE DEF A
  <2> QED
    BY <2>1, <2>2, FS_Subset, FS_CardinalityType
<1>5. Rank(H, h) = Cardinality(A)
  BY DEF Rank
<1> HIDE DEF A
<1>6. Cardinality((1..h) \ {p}) <= Cardinality(A)
  BY <1>3, <1>4, FS_Subset
<1> QED
  BY <1>1, <1>2, <1>4, <1>5, <1>6

\* What follows the record in front.
Behind(f, list, r) ==
  /\ f \in Seq(Listed) /\ Distinct(f) /\ Elements(f) = Elements(list) \ {r} /\ Len(list) <= Len(f) + 1
  /\ \A n \in 1..Len(f) : \E k \in 1..Len(list) : k <= n + 1 /\ f[n] = list[k]

LEMMA WithoutIs ==
  ASSUME NEW list \in Seq(Listed), Distinct(list), NEW r, NEW f, f = Without(list, r)
  PROVE  Behind(f, list, r)
<1> DEFINE H == {i \in DOMAIN list : list[i] # r}
           m == Len(list)
<1>1. /\ m \in Nat /\ DOMAIN list = 1..m /\ \A i \in 1..m : list[i] \in Elements(list)
      /\ \A x \in Elements(list) : \E i \in 1..m : list[i] = x
      /\ \A i, k \in 1..m : list[i] = list[k] => i = k
  BY ElementsIs, DistinctIs
<1>2. H \subseteq 1..m /\ f = Sublist(list, H)
  BY <1>1 DEF Without
<1>3. PICK p : (1..m) \ {p} \subseteq H
  <2>1. CASE \E i \in 1..m : list[i] = r
    <3>1. PICK i \in 1..m : list[i] = r
      BY <2>1
    <3>2. (1..m) \ {i} \subseteq H
      BY <1>1, <3>1
    <3> QED
      BY <3>2
  <2>2. CASE \A i \in 1..m : list[i] # r
    <3>1. (1..m) \ {0} \subseteq H
      BY <1>1, <2>2
    <3> QED
      BY <3>1
  <2> QED
    BY <2>1, <2>2
<1>4. Elements(list) \ {r} = {list[i] : i \in H}
  BY <1>1
<1> HIDE DEF H
<1>5. Sublists(f, list, H, Listed)
  BY <1>1, <1>2, SublistHas
<1>6. f \in Seq(Listed) /\ Distinct(f) /\ Elements(f) = Elements(list) \ {r} /\ Len(f) = Cardinality(H) /\ Len(f) \in Nat
  BY <1>4, <1>5, LenProperties DEF Sublists
<1>7. m <= Len(f) + 1
  <2>1. IsFiniteSet(1..m) /\ Cardinality(1..m) = m
    BY <1>1, FS_Interval
  <2>2. Cardinality((1..m) \ {p}) \in Nat /\ m <= Cardinality((1..m) \ {p}) + 1
    BY <1>1, AllButOne
  <2>3. IsFiniteSet(H)
    BY <1>2, <2>1, FS_Subset
  <2>4. Cardinality((1..m) \ {p}) <= Cardinality(H)
    BY <1>3, <2>3, FS_Subset
  <2> QED
    BY <1>1, <1>6, <2>2, <2>4
<1>8. ASSUME NEW n \in 1..Len(f) PROVE \E k \in 1..m : k <= n + 1 /\ f[n] = list[k]
  <2>1. PICK g : g = Sorted(H)
    OBVIOUS
  <2>2. Picked(f, list, g, Listed)
    BY <1>1, <1>2, <2>1, SublistIs
  <2>3. n \in 1..Len(g) /\ f[n] = list[g[n]]
    BY <2>2 DEF Picked
  <2>4. g[n] \in H /\ Rank(H, g[n]) = n
    <3>1. m \in Nat /\ H \subseteq 1..m
      BY <1>1, <1>2
    <3> HIDE DEF m
    <3> QED
      BY <2>1, <2>3, <3>1, SortedRanks, Zenon
  <2>5. g[n] <= Rank(H, g[n]) + 1
    BY <1>1, <1>2, <1>3, <2>4, RankWithout
  <2> QED
    BY <1>2, <2>3, <2>4, <2>5
<1> QED
  BY <1>6, <1>7, <1>8 DEF Behind

-----------------------------------------------------------------------------
(* The invariant of a walk.  What the client was led past is seen, touched   *)
(* or behind the place its next page begins at (Untouched); if nobody        *)
(* disturbed it, it has seen the list as far as that place (Undisturbed).    *)

Hangs == pending = {"never"}
RowsTold == "rows" \notin pending /\ ~Hangs

WalkTyped ==
  /\ pending \in (SUBSET {"rows", "count"}) \cup {{"never"}} /\ total \in 0..Records
  /\ seen \in Seq(Listed) /\ tangled \in BOOLEAN
  /\ changed \subseteq Listed /\ deletions \in Nat
  /\ deletions <= Cardinality(changed) /\ Cardinality(changed) <= MaxChanges

Paging ==
  /\ ~RowsTold => page = NoPage
  /\ RowsTold => page.prev = Previous
  /\ page.next \in BOOLEAN
  /\ offset = 0 \/ offset = listing.size \/ offset >= 2 * listing.size
  /\ CompleteDoc(page, listing)

LedTo == IF RowsTold /\ page.next THEN offset + listing.size ELSE offset

Untouched ==
  Elements(newest) \subseteq owned /\ ~tangled /\ deletions = 0 /\ ~Hangs =>
    /\ LedTo <= Len(newest)
    /\ \A i \in 1..Len(newest) :
         newest[i] \in Elements(seen) \/ newest[i] \in changed \/ (i > LedTo /\ (RowsTold => page.next))

\* So many of the list, each once; as they stand there if they are not related.
Foremost(list, m) ==
  /\ Len(list) = m /\ m <= Len(newest) /\ Distinct(list)
  /\ Elements(list) = {newest[i] : i \in 1..m}
  /\ Unrelated => \A i \in 1..m : list[i] = newest[i]

Undisturbed ==
  Elements(newest) \subseteq owned /\ ~tangled /\ changed = {} /\ ~Hangs =>
    /\ Foremost(seen, IF RowsTold /\ ~page.next THEN Len(newest) ELSE LedTo)
    /\ "count" \notin pending => total = Len(newest)

ListingInv == ListTyped /\ WalkTyped /\ Paging /\ Untouched /\ Undisturbed

\* What a page adds to what the client has seen.
ReadTo(shown) ==
  /\ tangled' = (tangled \/ Tangles(Rows))
  /\ \/ pending' = {"never"} /\ page' = page /\ seen' = seen
     \/ /\ pending' = pending \ {"rows"} /\ seen' = seen \o shown
        /\ page'.next \in BOOLEAN /\ page'.prev = Previous /\ CompleteDoc(page', listing)
        /\ Elements(newest) \subseteq owned /\ offset <= Len(newest) /\ ~Tangles(Rows) => NextOnes(shown, page'.next)

LEMMA ReadIs ==
  ASSUME ListTyped, ReadRows, NEW shown, shown = Shown(GraphList(Rows))
  PROVE  ReadTo(shown) /\ shown \in Seq(Listed) /\ Distinct(shown)
<1>1. PICK rows : rows = Rows
  OBVIOUS
<1>2. PICK found : found = GraphList(rows)
  OBVIOUS
<1>3. RowsOf(rows) /\ InTurn(found, rows)
  BY <1>1, <1>2, RowsAre, GraphListIs
<1>4. found \in Seq(Listed) /\ Distinct(found) /\ Len(found) <= listing.size + 1
  BY <1>3 DEF InTurn, RowsOf
<1>5. shown = Shown(found) /\ ShownOf(shown, found)
  BY <1>1, <1>2, <1>4, ShownIs
<1>6. ASSUME Elements(newest) \subseteq owned, offset <= Len(newest), ~Tangles(rows)
      PROVE  NextOnes(shown, Full(found))
  <2>1. offset \in Nat /\ listing.size \in Nat /\ Len(newest) \in Nat /\ DOMAIN newest = 1..Len(newest)
    BY ElementsIs DEF ListTyped
  <2>2. PICK k \in Nat : k <= listing.size + 1 /\ offset + k <= Len(newest)
                         /\ (k = listing.size + 1 \/ offset + k = Len(newest))
    <3>1. CASE offset + listing.size + 1 <= Len(newest)
      <4>1. listing.size + 1 \in Nat /\ listing.size + 1 <= listing.size + 1
            /\ offset + (listing.size + 1) <= Len(newest)
        BY <2>1, <3>1
      <4> QED
        BY <4>1
    <3>2. CASE ~(offset + listing.size + 1 <= Len(newest))
      <4>1. Len(newest) - offset \in Nat /\ Len(newest) - offset <= listing.size + 1
            /\ offset + (Len(newest) - offset) = Len(newest) /\ Len(newest) <= Len(newest)
        BY <1>6, <2>1, <3>2
      <4> QED
        BY <4>1
    <3> QED
      BY <3>1, <3>2
  <2>3. AsListed(rows, k)
    BY <1>1, <1>6, <2>2, RowsAsListed
  <2>4. Elements(rows) \subseteq Elements(newest)
    BY <1>3, <2>1 DEF RowsOf, Elements, Taken
  <2> QED
    BY <1>3, <1>5, <1>6, <2>2, <2>3, <2>4, WholePage
<1>7. tangled' = (tangled \/ Tangles(Rows))
  BY DEF ReadRows
<1>8. CASE Endless(Linkage(rows), Elements(shown))
  <2>1. pending' = {"never"} /\ page' = page /\ seen' = seen
    BY <1>1, <1>2, <1>5, <1>8 DEF ReadRows
  <2> QED
    BY <1>5, <1>7, <2>1 DEF ReadTo, ShownOf
<1>9. CASE ~Endless(Linkage(rows), Elements(shown))
  <2>1. pending' = pending \ {"rows"} /\ page' = Document(found, rows) /\ seen' = seen \o shown
    BY <1>1, <1>2, <1>5, <1>9 DEF ReadRows
  <2>2. CompleteDoc(page', listing)
    BY <1>3, <1>5, <2>1, DocumentIs
  <2>3. page'.next = Full(found) /\ page'.prev = Previous /\ page'.next \in BOOLEAN
    BY <2>1 DEF Document, Full
  <2>4. Elements(newest) \subseteq owned /\ offset <= Len(newest) /\ ~Tangles(Rows) => NextOnes(shown, page'.next)
    BY <1>1, <1>6, <2>3
  <2> QED
    BY <1>5, <1>7, <2>1, <2>2, <2>3, <2>4 DEF ReadTo, ShownOf
<1> QED
  BY <1>8, <1>9

Joins(c, a, b, S) == c \in Seq(S) /\ Follow(c, a, b) /\ Elements(c) = Elements(a) \cup Elements(b)

LEMMA JoinedElements ==
  ASSUME NEW S, NEW a \in Seq(S), NEW b \in Seq(S), NEW c, c = a \o b
  PROVE  Joins(c, a, b, S)
<1>1. c \in Seq(S) /\ Follow(c, a, b)
  BY JoinedIs
<1>2. /\ Elements(a) = {a[i] : i \in 1..Len(a)} /\ Elements(b) = {b[i] : i \in 1..Len(b)}
      /\ Elements(c) = {c[i] : i \in 1..Len(c)}
  <2>1. DOMAIN a = 1..Len(a) /\ DOMAIN b = 1..Len(b) /\ DOMAIN c = 1..Len(c)
    BY <1>1, ElementsIs
  <2> QED
    BY <2>1 DEF Elements
<1>3. Len(a) \in Nat /\ Len(b) \in Nat /\ Len(c) \in Nat
  BY <1>1, ElementsIs
<1>4. ASSUME NEW k \in 1..Len(c) PROVE c[k] \in Elements(a) \cup Elements(b)
  <2>1. CASE k \in 1..Len(a)
    BY <1>1, <1>2, <2>1 DEF Follow
  <2>2. CASE k - Len(a) \in 1..Len(b)
    <3>1. Len(a) + (k - Len(a)) = k
      BY <1>3
    <3>2. c[Len(a) + (k - Len(a))] = b[k - Len(a)]
      BY <1>1, <2>2 DEF Follow
    <3> QED
      BY <1>2, <2>2, <3>1, <3>2
  <2> QED
    BY <1>1, <2>1, <2>2 DEF Follow
<1>5. \A i \in 1..Len(a) : a[i] \in Elements(c)
  BY <1>1, <1>2 DEF Follow
<1>6. \A j \in 1..Len(b) : b[j] \in Elements(c)
  BY <1>1, <1>2 DEF Follow
<1>7. Elements(c) \subseteq Elements(a) \cup Elements(b)
  BY <1>2, <1>4
<1>8. Elements(a) \cup Elements(b) \subseteq Elements(c)
  BY <1>2, <1>5, <1>6
<1> QED
  BY <1>1, <1>7, <1>8 DEF Joins

LEMMA ForemostGrows ==
  ASSUME ListTyped, NEW s \in Seq(Listed), Foremost(s, offset), NEW shown \in Seq(Listed), Distinct(shown),
         NEW more, NextOnes(shown, more), NEW c, c = s \o shown
  PROVE  Foremost(c, offset + Len(shown))
<1> DEFINE o == offset
           k == Len(shown)
<1>1. /\ o \in Nat /\ k \in Nat /\ Len(newest) \in Nat /\ o + k <= Len(newest)
      /\ \A i, j \in 1..Len(newest) : newest[i] = newest[j] => i = j
  BY ElementsIs, DistinctIs DEF ListTyped, NextOnes
<1>2. /\ Len(s) = o /\ Elements(s) = {newest[i] : i \in 1..o}
      /\ \A i, j \in 1..o : s[i] = s[j] => i = j
      /\ \A i \in 1..o : s[i] \in Elements(s)
  <2>1. Len(s) = o /\ Elements(s) = {newest[i] : i \in 1..o} /\ Distinct(s)
    BY DEF Foremost
  <2> QED
    BY <2>1, ElementsIs, DistinctIs
<1>3. /\ Elements(shown) = {newest[o + n] : n \in 1..k}
      /\ \A i, j \in 1..k : shown[i] = shown[j] => i = j
      /\ \A i \in 1..k : shown[i] \in Elements(shown)
  <2>1. Elements(shown) = {newest[o + n] : n \in 1..k}
    BY DEF NextOnes
  <2> QED
    BY <2>1, ElementsIs, DistinctIs
<1>4. c \in Seq(Listed) /\ Follow(c, s, shown) /\ Elements(c) = Elements(s) \cup Elements(shown)
  <2>1. Joins(c, s, shown, Listed)
    BY JoinedElements, Zenon
  <2> QED
    BY <2>1 DEF Joins
<1> HIDE DEF o, k
<1>5. Len(c) = o + k /\ DOMAIN c = 1..(o + k)
  BY <1>2, <1>4, ElementsIs DEF Follow, k
<1>6. \A i \in 1..(o + k) : \/ i \in 1..o /\ c[i] = s[i]
                            \/ i - o \in 1..k /\ c[i] = shown[i - o] /\ i = o + (i - o)
  <2> SUFFICES ASSUME NEW i \in 1..(o + k)
               PROVE  \/ i \in 1..o /\ c[i] = s[i]
                      \/ i - o \in 1..k /\ c[i] = shown[i - o] /\ i = o + (i - o)
    OBVIOUS
  <2>1. i \in 1..o \/ (i - o \in 1..k /\ o + (i - o) = i)
    BY <1>1
  <2>2. i \in 1..o => c[i] = s[i]
    BY <1>2, <1>4 DEF Follow
  <2>3. i - o \in 1..k => c[o + (i - o)] = shown[i - o]
    BY <1>2, <1>4 DEF Follow, k
  <2> QED
    BY <2>1, <2>2, <2>3
<1>7. \A i \in 1..o : \A j \in 1..k : s[i] # shown[j]
  <2> SUFFICES ASSUME NEW i \in 1..o, NEW j \in 1..k, s[i] = shown[j] PROVE FALSE
    OBVIOUS
  <2>1. PICK a \in 1..o : s[i] = newest[a]
    BY <1>2
  <2>2. PICK n \in 1..k : shown[j] = newest[o + n]
    BY <1>3
  <2>3. a \in 1..Len(newest) /\ o + n \in 1..Len(newest) /\ a # o + n
    BY <1>1
  <2> QED
    BY <1>1, <2>1, <2>2, <2>3
<1>8. Distinct(c)
  <2> SUFFICES ASSUME NEW i \in 1..(o + k), NEW j \in 1..(o + k), c[i] = c[j] PROVE i = j
    BY <1>5 DEF Distinct
  <2>1. CASE i \in 1..o /\ c[i] = s[i] /\ j \in 1..o /\ c[j] = s[j]
    BY <1>2, <2>1
  <2>2. CASE i \in 1..o /\ c[i] = s[i] /\ j - o \in 1..k /\ c[j] = shown[j - o]
    BY <1>7, <2>2
  <2>3. CASE i - o \in 1..k /\ c[i] = shown[i - o] /\ j \in 1..o /\ c[j] = s[j]
    BY <1>7, <2>3
  <2>4. CASE i - o \in 1..k /\ c[i] = shown[i - o] /\ j - o \in 1..k /\ c[j] = shown[j - o]
    <3>1. i - o = j - o
      BY <1>3, <2>4
    <3> QED
      BY <1>1, <3>1
  <2> QED
    BY <1>6, <2>1, <2>2, <2>3, <2>4
<1>9. Elements(c) = {newest[i] : i \in 1..(o + k)}
  <2>1. \A i \in 1..o : i \in 1..(o + k)
    BY <1>1
  <2>2. \A n \in 1..k : o + n \in 1..(o + k)
    BY <1>1
  <2>3. \A i \in 1..(o + k) : i \in 1..o \/ \E n \in 1..k : i = o + n
    <3> SUFFICES ASSUME NEW i \in 1..(o + k), ~(i \in 1..o) PROVE \E n \in 1..k : i = o + n
      OBVIOUS
    <3>1. i - o \in 1..k /\ i = o + (i - o)
      BY <1>1
    <3> QED
      BY <3>1
  <2> DEFINE A == {newest[i] : i \in 1..(o + k)}
  <2>4. \A x \in Elements(c) : x \in A
    BY <1>2, <1>3, <1>4, <2>1, <2>2
  <2>5. \A x \in A : x \in Elements(c)
    BY <1>2, <1>3, <1>4, <2>3
  <2> QED
    BY <2>4, <2>5
<1>10. Unrelated => \A i \in 1..(o + k) : c[i] = newest[i]
  <2> SUFFICES ASSUME Unrelated, NEW i \in 1..(o + k) PROVE c[i] = newest[i]
    OBVIOUS
  <2>1. i \in 1..o => s[i] = newest[i]
    BY DEF Foremost, o
  <2>2. i - o \in 1..k => shown[i - o] = newest[o + (i - o)]
    BY DEF NextOnes, o, k
  <2>3. i \in 1..o \/ i = o + (i - o)
    BY <1>6
  <2> QED
    BY <1>6, <2>1, <2>2, <2>3
<1> QED
  BY <1>1, <1>5, <1>8, <1>9, <1>10 DEF Foremost, o, k

-----------------------------------------------------------------------------
(* One lemma per action.                                                    *)

LEMMA ListStays ==
  ASSUME ListTyped, UNCHANGED <<newest, parentOf, owned, listing>>, offset' \in Nat
  PROVE  ListTyped'
BY DEF ListTyped

LEMMA FewListed ==
  ASSUME ListTyped
  PROVE  Len(newest) \in 0..Records
<1>1. IsFiniteSet(Listed) /\ Cardinality(Listed) = Records /\ Records \in Nat
  BY ListingAssumption, FS_Interval DEF Listed
<1>2. /\ Elements(newest) \subseteq Listed /\ Len(newest) \in Nat
      /\ Cardinality(Elements(newest)) = Len(newest)
  BY ElementsIs, DistinctIs DEF ListTyped
<1>3. Cardinality(Elements(newest)) <= Cardinality(Listed)
  BY <1>1, <1>2, FS_Subset
<1> QED
  BY <1>1, <1>2, <1>3

\* Reading leaves the list alone and asks no more for the rows.
LEMMA RowsRead ==
  ASSUME ListTyped, WalkTyped, Paging, ReadRows
  PROVE  /\ "rows" \in pending /\ ~Hangs /\ ~RowsTold /\ page = NoPage /\ LedTo = offset
         /\ pending \subseteq {"rows", "count"}
         /\ UNCHANGED <<newest, parentOf, owned, listing, offset, total, changed, deletions>>
<1>1. "rows" \in pending /\ UNCHANGED <<newest, parentOf, owned, listing, offset, total, changed, deletions>>
  BY DEF ReadRows
<1>2. pending # {"never"} /\ pending \subseteq {"rows", "count"}
  BY <1>1 DEF WalkTyped
<1>3. ~Hangs /\ ~RowsTold /\ page = NoPage /\ LedTo = offset
  BY <1>1, <1>2 DEF Hangs, RowsTold, Paging, LedTo
<1> QED
  BY <1>1, <1>2, <1>3

LEMMA ReadRowsKept ==
  ASSUME ListingInv, ReadRows
  PROVE  ListingInv'
<1>1. ListTyped /\ WalkTyped /\ Paging /\ Untouched /\ Undisturbed
  BY DEF ListingInv
<1>2. /\ "rows" \in pending /\ ~Hangs /\ ~RowsTold /\ page = NoPage /\ LedTo = offset
      /\ pending \subseteq {"rows", "count"}
  BY <1>1, RowsRead
<1>3. UNCHANGED <<newest, parentOf, owned, listing, offset, total, changed, deletions>>
  BY <1>1, RowsRead
<1>4. PICK shown : shown = Shown(GraphList(Rows))
  OBVIOUS
<1>5. ReadTo(shown) /\ shown \in Seq(Listed) /\ Distinct(shown)
  BY <1>1, <1>4, ReadIs
<1>6. offset \in Nat /\ offset' \in Nat /\ listing.size \in Nat /\ Len(newest) \in Nat /\ Len(shown) \in Nat
  BY <1>1, <1>3, <1>5, ElementsIs DEF ListTyped
<1>7. ListTyped'
  BY <1>1, <1>3, <1>6, ListStays
<1>8. CASE pending' = {"never"} /\ page' = page /\ seen' = seen
  <2>1. Hangs' /\ ~RowsTold'
    BY <1>8 DEF Hangs, RowsTold
  <2>2. WalkTyped'
    <3>1. tangled' \in BOOLEAN
      BY <1>5 DEF ReadTo
    <3> QED
      BY <1>1, <1>3, <1>8, <3>1 DEF WalkTyped
  <2>3. Paging'
    BY <1>1, <1>2, <1>3, <1>8, <2>1 DEF Paging, NoPage, CompleteDoc, Elements, Distinct, Listed
  <2> QED
    BY <1>7, <2>1, <2>2, <2>3 DEF ListingInv, Untouched, Undisturbed
<1>9. CASE pending' # {"never"}
  <2>1. /\ pending' = pending \ {"rows"} /\ seen' = seen \o shown
        /\ page'.next \in BOOLEAN /\ page'.prev = Previous /\ CompleteDoc(page', listing)
        /\ Elements(newest) \subseteq owned /\ offset <= Len(newest) /\ ~Tangles(Rows) => NextOnes(shown, page'.next)
    BY <1>5, <1>9 DEF ReadTo
  <2>2. RowsTold' /\ ~Hangs' /\ LedTo' = IF page'.next THEN offset + listing.size ELSE offset
    BY <1>3, <1>9, <2>1 DEF RowsTold, Hangs, LedTo
  <2>3. PICK s, c : s = seen /\ c = seen'
    OBVIOUS
  <2>4. s \in Seq(Listed) /\ c \in Seq(Listed) /\ Elements(c) = Elements(s) \cup Elements(shown)
    <3>1. s \in Seq(Listed)
      BY <1>1, <2>3 DEF WalkTyped
    <3>2. Joins(c, s, shown, Listed)
      BY <1>5, <2>1, <2>3, <3>1, JoinedElements, Zenon
    <3> QED
      BY <3>1, <3>2 DEF Joins
  <2>5. WalkTyped'
    <3>1. tangled' \in BOOLEAN
      BY <1>5 DEF ReadTo
    <3>2. pending' \in SUBSET {"rows", "count"}
      BY <1>2, <2>1
    <3> QED
      BY <1>1, <1>3, <2>3, <2>4, <3>1, <3>2 DEF WalkTyped
  <2>6. Paging'
    <3>1. Previous' = Previous
      BY <1>3 DEF Previous
    <3> QED
      BY <1>1, <1>3, <2>1, <2>2, <3>1 DEF Paging
  <2>7. ASSUME Elements(newest) \subseteq owned, ~tangled', deletions = 0
        PROVE  NextOnes(shown, page'.next)
    <3>1. ~tangled /\ ~Tangles(Rows)
      BY <1>5, <2>7 DEF ReadTo
    <3>2. offset <= Len(newest)
      BY <1>1, <1>2, <2>7, <3>1 DEF Untouched
    <3> QED
      BY <2>1, <2>7, <3>1, <3>2
  <2>8. Untouched'
    <3> SUFFICES ASSUME Elements(newest) \subseteq owned, ~tangled', deletions = 0
                 PROVE  /\ LedTo' <= Len(newest)
                        /\ \A i \in 1..Len(newest) :
                             newest[i] \in Elements(c) \/ newest[i] \in changed \/ (i > LedTo' /\ page'.next)
      BY <1>3, <2>2, <2>3 DEF Untouched
    <3>1. /\ Elements(shown) = {newest[offset + n] : n \in 1..Len(shown)}
          /\ offset + Len(shown) <= Len(newest)
          /\ page'.next => Len(shown) = listing.size /\ offset + listing.size + 1 <= Len(newest)
          /\ ~page'.next => offset + Len(shown) = Len(newest)
      BY <2>7 DEF NextOnes
    <3>2. ~tangled
      BY <1>5 DEF ReadTo
    <3>3. /\ offset <= Len(newest)
          /\ \A i \in 1..Len(newest) : newest[i] \in Elements(s) \/ newest[i] \in changed \/ i > offset
      BY <1>1, <1>2, <2>3, <3>2 DEF Untouched
    <3>4. LedTo' <= Len(newest)
      BY <1>6, <2>1, <2>2, <3>1, <3>3
    <3>5. ASSUME NEW i \in 1..Len(newest)
          PROVE  newest[i] \in Elements(c) \/ newest[i] \in changed \/ (i > LedTo' /\ page'.next)
      <4>1. CASE newest[i] \in Elements(s) \/ newest[i] \in changed
        BY <2>4, <4>1
      <4>2. CASE i > offset /\ i <= offset + Len(shown)
        <5>1. i - offset \in 1..Len(shown) /\ offset + (i - offset) = i
          BY <1>6, <4>2
        <5>2. newest[offset + (i - offset)] \in Elements(shown)
          BY <3>1, <5>1
        <5> QED
          BY <2>4, <5>1, <5>2
      <4>3. CASE i > offset + Len(shown)
        <5>1. page'.next
          BY <1>6, <3>1, <4>3
        <5> QED
          BY <2>2, <3>1, <4>3, <5>1
      <4> QED
        BY <1>6, <3>3, <4>1, <4>2, <4>3
    <3> QED
      BY <3>4, <3>5
  <2>9. Undisturbed'
    <3> DEFINE m == IF ~page'.next THEN Len(newest) ELSE LedTo'
    <3> SUFFICES ASSUME Elements(newest) \subseteq owned, ~tangled', changed = {}
                 PROVE  Foremost(c, m) /\ ("count" \notin pending' => total = Len(newest))
      BY <1>3, <2>2, <2>3 DEF Undisturbed, Foremost, Unrelated
    <3>1. deletions = 0
      BY <1>1, FS_EmptySet DEF WalkTyped
    <3>2. NextOnes(shown, page'.next)
      BY <2>7, <3>1
    <3>3. ~tangled
      BY <1>5 DEF ReadTo
    <3>4. Foremost(s, offset) /\ ("count" \notin pending => total = Len(newest))
      BY <1>1, <1>2, <2>3, <3>3 DEF Undisturbed
    <3>5. Foremost(c, offset + Len(shown))
      <4>1. c = s \o shown
        BY <2>1, <2>3
      <4> QED
        BY <1>1, <1>5, <2>4, <3>2, <3>4, <4>1, ForemostGrows
    <3>6. offset + Len(shown) = m
      BY <1>6, <2>1, <2>2, <3>2 DEF NextOnes
    <3>7. "count" \notin pending' => "count" \notin pending
      BY <2>1
    <3> QED
      BY <3>4, <3>5, <3>6, <3>7
  <2> QED
    BY <1>7, <2>5, <2>6, <2>8, <2>9 DEF ListingInv
<1>10. pending' = {"never"} => page' = page /\ seen' = seen
  <2>1. pending \ {"rows"} # {"never"}
    BY <1>2
  <2> QED
    BY <1>5, <2>1 DEF ReadTo
<1> QED
  BY <1>8, <1>9, <1>10

LEMMA NoPageComplete ==
  ASSUME NEW what, what.size \in Nat
  PROVE  CompleteDoc(NoPage, what) /\ NoPage.next = FALSE
<1>1. NoPage.data = <<>> /\ NoPage.included = {} /\ NoPage.next = FALSE
  BY DEF NoPage
<1>2. DOMAIN NoPage.data = {} /\ Len(NoPage.data) = 0
  BY <1>1
<1>3. Elements(NoPage.data) = {}
  BY <1>2 DEF Elements
<1> HIDE DEF NoPage
<1> QED
  BY <1>1, <1>2, <1>3 DEF CompleteDoc, Distinct

LEMMA ListedInOrder ==
  ASSUME NEW m \in Nat, m <= Records, NEW list, list = [i \in 1..m |-> i]
  PROVE  list \in Seq(Listed) /\ Distinct(list) /\ Len(list) = m /\ Elements(list) = 1..m
<1>1. Records \in Nat
  BY ListingAssumption
<1>2. \A i \in 1..m : i \in Listed
  BY <1>1 DEF Listed
<1>3. list \in Seq(Listed)
  BY <1>2
<1> QED
  BY <1>3 DEF Distinct, Elements

LEMMA ListStarts ==
  ASSUME ListingInit
  PROVE  ListingInv
<1>1. PICK there \in {Records, Records - 1}, complete \in AllBut(Listed),
           declared \in {{"parent"}, Relations}, size \in PageSizes :
        \E parents \in [1..there -> 0..there], include \in SUBSET declared :
          /\ \A r \in 1..there : parents[r] # r
          /\ Walk([i \in 1..there |-> i], [r \in Listed |-> IF r <= there THEN parents[r] ELSE NoParent], complete,
                  [declared |-> declared, include |-> include, size |-> size])
  BY DEF ListingInit
<1>2. PICK parents \in [1..there -> 0..there] : \E include \in SUBSET declared :
        Walk([i \in 1..there |-> i], [r \in Listed |-> IF r <= there THEN parents[r] ELSE NoParent], complete,
             [declared |-> declared, include |-> include, size |-> size])
  BY <1>1
<1>3. PICK include \in SUBSET declared :
        Walk([i \in 1..there |-> i], [r \in Listed |-> IF r <= there THEN parents[r] ELSE NoParent], complete,
             [declared |-> declared, include |-> include, size |-> size])
  BY <1>2
<1>4. /\ newest = [i \in 1..there |-> i] /\ parentOf = [r \in Listed |-> IF r <= there THEN parents[r] ELSE NoParent]
      /\ owned = complete /\ listing = [declared |-> declared, include |-> include, size |-> size]
      /\ offset = 0 /\ pending = {"rows", "count"} /\ page = NoPage /\ total = 0
      /\ seen = <<>> /\ tangled = FALSE /\ changed = {} /\ deletions = 0
  BY <1>3 DEF Walk
<1>5. Records \in Nat /\ there \in Nat /\ there <= Records /\ size \in Nat \ {0} /\ MaxChanges \in Nat
  BY ListingAssumption
<1>6. newest \in Seq(Listed) /\ Distinct(newest) /\ Len(newest) = there /\ Elements(newest) = 1..there
  BY <1>4, <1>5, ListedInOrder
<1>7. listing.size = size /\ listing.declared = declared /\ listing.include = include
  BY <1>4
<1>8. ListTyped
  <2>1. owned \subseteq Listed
    BY <1>4 DEF AllBut
  <2>2. \A r \in Listed : (IF r <= there THEN parents[r] ELSE NoParent) \in Elements(newest) \cup {NoParent}
    BY <1>5, <1>6 DEF Listed, NoParent
  <2>3. parentOf \in [Listed -> Elements(newest) \cup {NoParent}]
    BY <1>4, <2>2
  <2>4. declared \subseteq Relations /\ include \subseteq declared
    BY DEF Relations
  <2> QED
    BY <1>4, <1>5, <1>6, <1>7, <2>1, <2>3, <2>4 DEF ListTyped
<1>9. WalkTyped
  <2>1. Cardinality(changed) = 0 /\ changed \subseteq Listed
    BY <1>4, FS_EmptySet
  <2>2. seen \in Seq(Listed)
    BY <1>4
  <2>3. total \in 0..Records /\ deletions \in Nat /\ deletions <= Cardinality(changed) /\ Cardinality(changed) <= MaxChanges
    BY <1>4, <1>5, <2>1
  <2>4. pending \in SUBSET {"rows", "count"} /\ tangled \in BOOLEAN
    BY <1>4
  <2> QED
    BY <2>1, <2>2, <2>3, <2>4 DEF WalkTyped
<1>10. ~RowsTold /\ ~Hangs
  BY <1>4 DEF RowsTold, Hangs
<1>11. CompleteDoc(page, listing) /\ page.next = FALSE
  BY <1>4, <1>5, <1>7, NoPageComplete
<1>12. Paging
  BY <1>4, <1>10, <1>11 DEF Paging
<1>13. LedTo = 0
  BY <1>4, <1>10 DEF LedTo
<1>14. Untouched
  BY <1>5, <1>6, <1>10, <1>13 DEF Untouched
<1>15. Undisturbed
  <2>1. Foremost(seen, 0)
    BY <1>4, <1>5, <1>6 DEF Foremost, Distinct, Elements
  <2> QED
    BY <1>4, <1>10, <1>13, <2>1 DEF Undisturbed
<1> QED
  BY <1>8, <1>9, <1>12, <1>14, <1>15 DEF ListingInv

LEMMA CountRecordsKept ==
  ASSUME ListingInv, CountRecords
  PROVE  ListingInv'
<1>1. ListTyped /\ WalkTyped /\ Paging /\ Untouched /\ Undisturbed
  BY DEF ListingInv
<1>2. /\ "count" \in pending /\ pending' = pending \ {"count"} /\ total' = Len(newest)
      /\ UNCHANGED <<newest, parentOf, owned, listing, offset, page, seen, tangled, changed, deletions>>
  BY DEF CountRecords
<1>3. pending \subseteq {"rows", "count"}
  BY <1>1, <1>2 DEF WalkTyped
<1>4. ~Hangs /\ ~Hangs' /\ (RowsTold' <=> RowsTold) /\ LedTo' = LedTo
  <2>1. ~Hangs /\ ~Hangs' /\ (RowsTold' <=> RowsTold)
    BY <1>2, <1>3 DEF Hangs, RowsTold
  <2> QED
    BY <1>2, <2>1 DEF LedTo
<1>5. ListTyped'
  <2>1. offset' \in Nat
    BY <1>1, <1>2 DEF ListTyped
  <2> QED
    BY <1>1, <1>2, <2>1, ListStays
<1>6. WalkTyped'
  <2>1. Len(newest) \in 0..Records
    BY <1>1, FewListed
  <2>2. pending' \in SUBSET {"rows", "count"}
    BY <1>2, <1>3
  <2> QED
    BY <1>1, <1>2, <2>1, <2>2 DEF WalkTyped
<1>7. Paging'
  <2>1. Previous' = Previous
    BY <1>2 DEF Previous
  <2> QED
    BY <1>1, <1>2, <1>4, <2>1 DEF Paging
<1>8. Untouched'
  BY <1>1, <1>2, <1>4 DEF Untouched
<1>9. Undisturbed'
  BY <1>1, <1>2, <1>4 DEF Undisturbed, Foremost, Unrelated
<1> QED
  BY <1>5, <1>6, <1>7, <1>8, <1>9 DEF ListingInv

LEMMA FollowNextKept ==
  ASSUME ListingInv, FollowNext
  PROVE  ListingInv'
<1>1. ListTyped /\ WalkTyped /\ Paging /\ Untouched /\ Undisturbed
  BY DEF ListingInv
<1>2. /\ pending = {} /\ page.next /\ offset' = offset + listing.size
      /\ pending' = {"rows", "count"} /\ page' = NoPage /\ total' = 0
      /\ UNCHANGED <<newest, parentOf, owned, listing, seen, tangled, changed, deletions>>
  BY DEF FollowNext
<1>3. offset \in Nat /\ listing.size \in Nat \ {0} /\ offset' \in Nat
  BY <1>1, <1>2 DEF ListTyped
<1>4. ~Hangs /\ ~Hangs' /\ RowsTold /\ ~RowsTold'
  BY <1>2 DEF Hangs, RowsTold
<1>5. LedTo = offset' /\ LedTo' = offset'
  BY <1>2, <1>4 DEF LedTo
<1>6. ListTyped'
  BY <1>1, <1>2, <1>3, ListStays
<1>7. WalkTyped'
  <2>1. Records \in Nat
    BY ListingAssumption
  <2> QED
    BY <1>1, <1>2, <2>1 DEF WalkTyped
<1>8. Paging'
  <2>1. CompleteDoc(page', listing') /\ page'.next = FALSE
    BY <1>2, <1>3, NoPageComplete
  <2>2. offset' = 0 \/ offset' = listing'.size \/ offset' >= 2 * listing'.size
    <3>1. offset = 0 \/ offset = listing.size \/ offset >= 2 * listing.size
      BY <1>1 DEF Paging
    <3> QED
      BY <1>2, <1>3, <3>1
  <2> QED
    BY <1>2, <1>4, <2>1, <2>2 DEF Paging
<1>9. Untouched'
  BY <1>1, <1>2, <1>4, <1>5 DEF Untouched
<1>10. Undisturbed'
  <2> SUFFICES ASSUME Elements(newest) \subseteq owned, ~tangled, changed = {}
               PROVE  Foremost(seen, LedTo)'
    BY <1>2, <1>4 DEF Undisturbed
  <2>1. Foremost(seen, LedTo)
    BY <1>1, <1>2, <1>4 DEF Undisturbed
  <2> QED
    BY <1>2, <1>5, <2>1 DEF Foremost, Unrelated
<1> QED
  BY <1>6, <1>7, <1>8, <1>9, <1>10 DEF ListingInv

\* A record that is written comes first; the others keep their order behind it,
\* none of them nearer to the front than before.
Fronted(list, was, r) ==
  /\ list \in Seq(Listed) /\ Distinct(list) /\ Elements(list) = Elements(was) \cup {r} /\ Len(was) <= Len(list)
  /\ \A i \in 1..Len(list) : list[i] = r \/ \E k \in 1..Len(was) : k <= i /\ list[i] = was[k]

LEMMA FrontedIs ==
  ASSUME NEW was \in Seq(Listed), Distinct(was), NEW r \in Listed, NEW list, list = <<r>> \o Without(was, r)
  PROVE  Fronted(list, was, r)
<1>1. PICK f : f = Without(was, r)
  OBVIOUS
<1>2. Behind(f, was, r)
  BY <1>1, WithoutIs
<1>3. PICK a : a = <<r>>
  OBVIOUS
<1>4. a \in Seq(Listed) /\ Len(a) = 1 /\ a[1] = r /\ Elements(a) = {r}
  BY <1>3 DEF Elements
<1>5. Joins(list, a, f, Listed)
  <2>1. f \in Seq(Listed) /\ list = a \o f
    BY <1>1, <1>2, <1>3 DEF Behind
  <2> QED
    BY <1>4, <2>1, JoinedElements, Zenon
<1>6. /\ list \in Seq(Listed) /\ Elements(list) = Elements(was) \cup {r}
      /\ Len(list) = 1 + Len(f) /\ list[1] = r
      /\ \A k \in 1..Len(list) : k = 1 \/ \E n \in 1..Len(f) : k = 1 + n /\ list[k] = f[n]
      /\ Len(f) \in Nat /\ Len(was) \in Nat /\ DOMAIN list = 1..Len(list)
  <2>1. list \in Seq(Listed) /\ Follow(list, a, f) /\ Elements(list) = Elements(a) \cup Elements(f)
    BY <1>5 DEF Joins
  <2>2. Len(f) \in Nat /\ Len(was) \in Nat /\ Len(list) \in Nat /\ DOMAIN list = 1..Len(list)
    BY <1>2, <2>1, ElementsIs DEF Behind
  <2>3. Elements(list) = Elements(was) \cup {r}
    BY <1>2, <1>4, <2>1 DEF Behind
  <2>4. /\ Len(list) = 1 + Len(f) /\ list[1] = r
        /\ \A j \in 1..Len(f) : list[1 + j] = f[j]
        /\ \A k \in 1..Len(list) : k \in 1..1 \/ k - 1 \in 1..Len(f)
    BY <1>4, <2>1 DEF Follow
  <2>5. ASSUME NEW k \in 1..Len(list) PROVE k = 1 \/ \E n \in 1..Len(f) : k = 1 + n /\ list[k] = f[n]
    <3>1. k = 1 + (k - 1) /\ (k \in 1..1 => k = 1)
      BY <2>2
    <3>2. CASE k - 1 \in 1..Len(f)
      <4>1. list[1 + (k - 1)] = f[k - 1]
        BY <2>4, <3>2
      <4> QED
        BY <3>1, <3>2, <4>1
    <3> QED
      BY <2>4, <3>1, <3>2
  <2> QED
    BY <2>1, <2>2, <2>3, <2>4, <2>5
<1>7. /\ \A n \in 1..Len(f) : f[n] # r
      /\ \A n, k \in 1..Len(f) : f[n] = f[k] => n = k
      /\ \A n \in 1..Len(f) : \E k \in 1..Len(was) : k <= n + 1 /\ f[n] = was[k]
      /\ Len(was) <= Len(f) + 1
  <2>1. /\ f \in Seq(Listed) /\ Distinct(f) /\ Elements(f) = Elements(was) \ {r} /\ Len(was) <= Len(f) + 1
        /\ \A n \in 1..Len(f) : \E k \in 1..Len(was) : k <= n + 1 /\ f[n] = was[k]
    BY <1>2 DEF Behind
  <2>2. \A n \in 1..Len(f) : f[n] # r
    BY <2>1, ElementsIs
  <2>3. \A n, k \in 1..Len(f) : f[n] = f[k] => n = k
    BY <2>1, DistinctIs
  <2> QED
    BY <2>1, <2>2, <2>3
<1>8. Distinct(list)
  <2> SUFFICES ASSUME NEW i \in 1..Len(list), NEW k \in 1..Len(list), list[i] = list[k] PROVE i = k
    BY <1>6 DEF Distinct
  <2>1. CASE i = 1 /\ k = 1
    BY <2>1
  <2>2. CASE i # 1 /\ k # 1
    <3>1. PICK n \in 1..Len(f) : i = 1 + n /\ list[i] = f[n]
      BY <1>6, <2>2
    <3>2. PICK m \in 1..Len(f) : k = 1 + m /\ list[k] = f[m]
      BY <1>6, <2>2
    <3> QED
      BY <1>7, <3>1, <3>2
  <2> QED
    BY <1>6, <1>7, <2>1, <2>2
<1>9. ASSUME NEW i \in 1..Len(list) PROVE list[i] = r \/ \E k \in 1..Len(was) : k <= i /\ list[i] = was[k]
  <2>1. CASE i = 1
    BY <1>6, <2>1
  <2>2. CASE i # 1
    <3>1. PICK n \in 1..Len(f) : i = 1 + n /\ list[i] = f[n]
      BY <1>6, <2>2
    <3>2. PICK k \in 1..Len(was) : k <= n + 1 /\ f[n] = was[k]
      BY <1>7
    <3>3. k <= i
      BY <1>6, <3>1, <3>2
    <3> QED
      BY <3>1, <3>2, <3>3
  <2> QED
    BY <2>1, <2>2
<1>10. Len(was) <= Len(list)
  BY <1>6, <1>7
<1> QED
  BY <1>6, <1>8, <1>9, <1>10 DEF Fronted

LEMMA OneMoreChanged ==
  ASSUME WalkTyped, NEW r \in Listed, Change(r)
  PROVE  /\ changed' = changed \cup {r} /\ changed' \subseteq Listed /\ changed' # {}
         /\ Cardinality(changed') = Cardinality(changed) + 1 /\ Cardinality(changed) \in Nat
         /\ Cardinality(changed') <= MaxChanges
<1>1. /\ r \notin changed /\ Cardinality(changed) < MaxChanges /\ changed' = changed \cup {r}
      /\ changed \subseteq Listed
  BY DEF Change, WalkTyped
<1>2. IsFiniteSet(changed)
  <2>1. IsFiniteSet(Listed)
    BY ListingAssumption, FS_Interval DEF Listed
  <2> QED
    BY <1>1, <2>1, FS_Subset
<1>3. Cardinality(changed \cup {r}) = Cardinality(changed) + 1 /\ Cardinality(changed) \in Nat
  BY <1>1, <1>2, FS_AddElement, FS_CardinalityType
<1> QED
  BY <1>1, <1>3, ListingAssumption

LEMMA WriteListedKept ==
  ASSUME ListingInv, NEW r \in Listed, WriteListed(r)
  PROVE  ListingInv'
<1>1. ListTyped /\ WalkTyped /\ Paging /\ Untouched /\ Undisturbed
  BY DEF ListingInv
<1>2. /\ Change(r) /\ newest' = <<r>> \o Without(newest, r)
      /\ \E p \in (Elements(newest) \ {r}) \cup {NoParent} : parentOf' = [parentOf EXCEPT ![r] = p]
      /\ deletions' = deletions
  BY DEF WriteListed
<1>3. /\ pending # {"never"} /\ changed' = changed \cup {r}
      /\ UNCHANGED <<owned, listing, offset, pending, page, total, seen, tangled>>
  BY <1>2 DEF Change
<1>4. /\ changed' \subseteq Listed /\ changed' # {} /\ Cardinality(changed') <= MaxChanges
      /\ Cardinality(changed') = Cardinality(changed) + 1 /\ Cardinality(changed) \in Nat
  BY <1>1, <1>2, OneMoreChanged
<1>5. ~Hangs /\ ~Hangs' /\ (RowsTold' <=> RowsTold) /\ LedTo' = LedTo
  <2>1. ~Hangs /\ ~Hangs' /\ (RowsTold' <=> RowsTold)
    BY <1>3 DEF Hangs, RowsTold
  <2> QED
    BY <1>3, <2>1 DEF LedTo
<1>6. PICK was, list : was = newest /\ list = newest'
  OBVIOUS
<1>7. was \in Seq(Listed) /\ Distinct(was)
  BY <1>1, <1>6 DEF ListTyped
<1>8. Fronted(list, was, r)
  BY <1>2, <1>6, <1>7, FrontedIs
<1>9. ListTyped'
  <2>1. parentOf' \in [Listed -> Elements(list) \cup {NoParent}]
    <3>1. parentOf \in [Listed -> Elements(was) \cup {NoParent}]
      BY <1>1, <1>6 DEF ListTyped
    <3>2. Elements(was) \subseteq Elements(list)
      BY <1>8 DEF Fronted
    <3> QED
      BY <1>2, <1>6, <3>1, <3>2
  <2> QED
    BY <1>1, <1>3, <1>6, <1>8, <2>1 DEF ListTyped, Fronted
<1>10. WalkTyped'
  <2>1. deletions' \in Nat /\ deletions' <= Cardinality(changed')
    BY <1>1, <1>2, <1>4 DEF WalkTyped
  <2> QED
    BY <1>1, <1>3, <1>4, <2>1 DEF WalkTyped
<1>11. Paging'
  <2>1. Previous' = Previous
    BY <1>3 DEF Previous
  <2> QED
    BY <1>1, <1>3, <1>5, <2>1 DEF Paging
<1>12. Untouched'
  <2> SUFFICES ASSUME Elements(list) \subseteq owned, ~tangled, deletions = 0
               PROVE  /\ LedTo <= Len(list)
                      /\ \A i \in 1..Len(list) :
                           list[i] \in Elements(seen) \/ list[i] \in changed' \/ (i > LedTo /\ (RowsTold => page.next))
    BY <1>2, <1>3, <1>5, <1>6 DEF Untouched
  <2>1. Elements(was) \subseteq owned
    BY <1>8 DEF Fronted
  <2>2. /\ LedTo <= Len(was)
        /\ \A i \in 1..Len(was) :
             was[i] \in Elements(seen) \/ was[i] \in changed \/ (i > LedTo /\ (RowsTold => page.next))
    BY <1>1, <1>5, <1>6, <2>1 DEF Untouched
  <2>3. LedTo \in Nat /\ Len(was) \in Nat /\ Len(list) \in Nat /\ Len(was) <= Len(list)
    <3>1. LedTo \in Nat
      BY <1>1 DEF LedTo, ListTyped
    <3> QED
      BY <1>7, <1>8, <3>1, ElementsIs DEF Fronted
  <2>4. ASSUME NEW i \in 1..Len(list)
        PROVE  list[i] \in Elements(seen) \/ list[i] \in changed' \/ (i > LedTo /\ (RowsTold => page.next))
    <3>1. CASE list[i] = r
      BY <1>3, <3>1
    <3>2. CASE \E k \in 1..Len(was) : k <= i /\ list[i] = was[k]
      <4>1. PICK k \in 1..Len(was) : k <= i /\ list[i] = was[k]
        BY <3>2
      <4>2. k > LedTo => i > LedTo
        BY <2>3, <4>1
      <4>3. was[k] \in Elements(seen) \/ was[k] \in changed \/ (k > LedTo /\ (RowsTold => page.next))
        BY <2>2
      <4> QED
        BY <1>3, <4>1, <4>2, <4>3
    <3> QED
      BY <1>8, <3>1, <3>2 DEF Fronted
  <2>5. LedTo <= Len(list)
    BY <2>2, <2>3
  <2> QED
    BY <2>4, <2>5
<1>13. Undisturbed'
  BY <1>4 DEF Undisturbed
<1> QED
  BY <1>9, <1>10, <1>11, <1>12, <1>13 DEF ListingInv

LEMMA DeleteListedKept ==
  ASSUME ListingInv, NEW r \in Listed, DeleteListed(r)
  PROVE  ListingInv'
<1>1. ListTyped /\ WalkTyped /\ Paging
  BY DEF ListingInv
<1>2. /\ Change(r) /\ newest' = Without(newest, r) /\ deletions' = deletions + 1
      /\ parentOf' = [s \in Listed |-> IF s = r \/ parentOf[s] = r THEN NoParent ELSE parentOf[s]]
  BY DEF DeleteListed
<1>3. /\ pending # {"never"}
      /\ UNCHANGED <<owned, listing, offset, pending, page, total, seen, tangled>>
  BY <1>2 DEF Change
<1>4. /\ changed' \subseteq Listed /\ changed' # {} /\ Cardinality(changed') <= MaxChanges
      /\ Cardinality(changed') = Cardinality(changed) + 1 /\ Cardinality(changed) \in Nat
  BY <1>1, <1>2, OneMoreChanged
<1>5. PICK was, list : was = newest /\ list = newest'
  OBVIOUS
<1>6. Behind(list, was, r)
  BY <1>1, <1>2, <1>5, WithoutIs DEF ListTyped
<1>7. ListTyped'
  <2>1. parentOf' \in [Listed -> Elements(list) \cup {NoParent}]
    <3>1. Elements(list) = Elements(was) \ {r}
      BY <1>6 DEF Behind
    <3>2. parentOf \in [Listed -> Elements(was) \cup {NoParent}]
      BY <1>1, <1>5 DEF ListTyped
    <3> QED
      BY <1>2, <3>1, <3>2
  <2> QED
    BY <1>1, <1>3, <1>5, <1>6, <2>1 DEF ListTyped, Behind
<1>8. deletions \in Nat /\ deletions' \in Nat /\ deletions' # 0 /\ deletions' <= Cardinality(changed')
  BY <1>1, <1>2, <1>4 DEF WalkTyped
<1>9. WalkTyped'
  BY <1>1, <1>3, <1>4, <1>8 DEF WalkTyped
<1>10. Paging'
  <2>1. Previous' = Previous /\ (RowsTold' <=> RowsTold)
    BY <1>3 DEF Previous, RowsTold, Hangs
  <2> QED
    BY <1>1, <1>3, <2>1 DEF Paging
<1>11. Untouched' /\ Undisturbed'
  BY <1>4, <1>8 DEF Untouched, Undisturbed
<1> QED
  BY <1>7, <1>9, <1>10, <1>11 DEF ListingInv

LEMMA ListingStepKept ==
  ASSUME ListingInv, [ListingNext]_listingVars
  PROVE  ListingInv'
<1>1. CASE UNCHANGED listingVars
  <2>1. UNCHANGED <<newest, parentOf, owned, listing, offset, pending, page, total, seen, tangled, changed, deletions>>
    BY <1>1 DEF listingVars
  <2>2. (RowsTold' <=> RowsTold) /\ (Hangs' <=> Hangs) /\ LedTo' = LedTo /\ Previous' = Previous
    BY <2>1 DEF RowsTold, Hangs, LedTo, Previous
  <2>3. ListTyped' /\ WalkTyped' /\ Paging'
    BY <2>1, <2>2 DEF ListingInv, ListTyped, WalkTyped, Paging
  <2>4. Untouched' /\ Undisturbed'
    BY <2>1, <2>2 DEF ListingInv, Untouched, Undisturbed, Foremost, Unrelated
  <2> QED
    BY <2>3, <2>4 DEF ListingInv
<1>2. CASE ListingNext
  BY <1>2, ReadRowsKept, CountRecordsKept, FollowNextKept, WriteListedKept, DeleteListedKept DEF ListingNext
<1> QED
  BY <1>1, <1>2

-----------------------------------------------------------------------------
(* What the invariant is for.                                               *)

LEMMA ListingInvSound ==
  ASSUME ListingInv
  PROVE  ListingSound
<1>1. ListTyped /\ WalkTyped /\ Paging /\ Untouched /\ Undisturbed
  BY DEF ListingInv
<1>2. /\ offset \in Nat /\ listing.size \in Nat \ {0} /\ Len(newest) \in Nat
      /\ DOMAIN newest = 1..Len(newest) /\ Elements(newest) \subseteq Listed
      /\ \A x \in Elements(newest) : \E i \in 1..Len(newest) : newest[i] = x
  BY <1>1, ElementsIs DEF ListTyped
<1>3. AtEnd => RowsTold /\ ~Hangs
  BY DEF AtEnd, RowsTold, Hangs
<1>4. ListingTypeOK
  <2>1. deletions \in 0..MaxChanges
    <3>1. Cardinality(changed) \in Nat
      <4>1. IsFiniteSet(Listed) /\ changed \subseteq Listed
        BY <1>1, ListingAssumption, FS_Interval DEF Listed, WalkTyped
      <4> QED
        BY <4>1, FS_Subset, FS_CardinalityType
    <3> QED
      BY <1>1, <3>1, ListingAssumption DEF WalkTyped
  <2>2. Elements(seen) \subseteq Listed
    BY <1>1, ElementsIs DEF WalkTyped
  <2>3. pending \subseteq {"rows", "count", "never"}
    BY <1>1 DEF WalkTyped
  <2> QED
    BY <1>1, <1>2, <2>1, <2>2, <2>3 DEF ListingTypeOK, ListTyped, WalkTyped
<1>5. DocumentComplete
  BY <1>1 DEF Paging, CompleteDoc, DocumentComplete
<1>6. LeadsBack
  <2> SUFFICES ASSUME "rows" \notin pending, pending # {"never"}, listing.size > 1, offset > 0
               PROVE  page.prev = offset - listing.size
    BY DEF LeadsBack
  <2>1. page.prev = Previous
    BY <1>1 DEF Paging, RowsTold, Hangs
  <2>2. offset = listing.size \/ offset >= 2 * listing.size
    BY <1>1 DEF Paging
  <2>3. offset # 0 /\ offset # listing.size + 1
    BY <1>2, <2>2
  <2> QED
    BY <2>1, <2>3 DEF Previous
<1>7. WalkComplete
  <2> SUFFICES ASSUME AtEnd, Regular, changed = {}
               PROVE  /\ Elements(seen) = Elements(newest) /\ Distinct(seen) /\ total = Len(seen)
                      /\ Unrelated => seen = newest
    BY DEF WalkComplete, Unrelated
  <2>1. Foremost(seen, Len(newest)) /\ total = Len(newest)
    BY <1>1, <1>3 DEF Undisturbed, Regular, AtEnd
  <2>2. PICK s, list : s = seen /\ list = newest
    OBVIOUS
  <2>3. /\ s \in Seq(Listed) /\ list \in Seq(Listed) /\ Len(s) = Len(list) /\ Distinct(s)
        /\ Elements(s) = {list[i] : i \in 1..Len(list)}
        /\ Unrelated => \A i \in 1..Len(list) : s[i] = list[i]
    BY <1>1, <2>1, <2>2 DEF Foremost, WalkTyped, ListTyped
  <2>4. Elements(list) = {list[i] : i \in 1..Len(list)}
    BY <1>2, <2>2 DEF Elements
  <2>5. Unrelated => s = list
    BY <2>3, SeqEqual
  <2> QED
    BY <2>1, <2>2, <2>3, <2>4, <2>5
<1>8. NoneSkipped
  <2> SUFFICES ASSUME AtEnd, Regular, deletions = 0, NEW x \in Elements(newest), x \notin changed
               PROVE  x \in Elements(seen)
    BY DEF NoneSkipped
  <2>1. PICK i \in 1..Len(newest) : newest[i] = x
    BY <1>2
  <2> QED
    BY <1>1, <1>3, <2>1 DEF Untouched, Regular, AtEnd
<1> QED
  BY <1>4, <1>5, <1>6, <1>7, <1>8 DEF ListingSound

(* What a client that follows the links of a list is shown, for any number   *)
(* of records, of pages and of changes: each document is complete, each page *)
(* leads back to the one before, a walk that is not disturbed shows every    *)
(* record once, and one that is misses no record that was not touched.       *)
THEOREM ListingKept == ListingSpec => []ListingSound
<1>1. ListingInit => ListingInv
  BY ListStarts
<1>2. ListingInv /\ [ListingNext]_listingVars => ListingInv'
  BY ListingStepKept
<1>3. ListingInv => ListingSound
  BY ListingInvSound
<1> QED
  BY <1>1, <1>2, <1>3, PTL DEF ListingSpec
=============================================================================
