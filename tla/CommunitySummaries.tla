--------------------------- MODULE CommunitySummaries ---------------------------
(***************************************************************************)
(* The communities of one company.  A content that has been ingested       *)
(* detects them if there are none, and otherwise assigns its key concepts  *)
(* to them one by one and marks the ones it touched as stale; every ten    *)
(* minutes the stale ones are queued; a job reads the members, has the     *)
(* model write a summary of them, and stores it.  A community is named by  *)
(* the content whose detection created it; one of them stands for the ones *)
(* a detection creates.                                                    *)
(***************************************************************************)
EXTENDS Integers, FiniteSets

CONSTANTS Ingested,           \* contents
          Concepts,           \* key concepts
          SummaryJobs,        \* jobs of the summariser
          NoCommunity,
          MaxCommunityFaults  \* bound: calls that throw, workers that die

ASSUME CommunityAssumption == /\ NoCommunity \notin Ingested /\ IsFiniteSet(Concepts)
                              /\ MaxCommunityFaults \in Nat

VARIABLES detection,          \* [Ingested -> step of detectAndAssignCommunities]
          about,              \* [Ingested -> concepts of the content]
          orphans,            \* [Ingested -> concepts it still has to assign]
          touched,            \* [Ingested -> communities it will mark as stale]
          standing,           \* communities that exist
          members,            \* [Ingested -> concepts of the community]
          memberCount,        \* [Ingested -> its memberCount]
          staleOnes,          \* isStale
          deferredOnes,       \* pendingCredits
          summary,            \* [Ingested -> concepts the summary was written from]
          summaryJob,         \* [SummaryJobs -> step]
          jobOf,              \* [SummaryJobs -> its community]
          membersRead,           \* [SummaryJobs -> members it has read]
          crossed,            \* history: two contents at the same time
          overlooked,         \* history: communities joined while being summarised
          unmarked,           \* history: communities whose content failed halfway
          queuedTwice,        \* history: communities with two jobs at the same time
          communityFaults

assigning == <<detection, about, orphans, touched, crossed, unmarked>>
graph == <<standing, members, memberCount>>
flags == <<staleOnes, deferredOnes, summary>>
jobs == <<summaryJob, jobOf, membersRead, queuedTwice>>
communityVars == <<assigning, graph, flags, jobs, overlooked, communityFaults>>

Busy == {"delete", "create", "link", "count", "assign", "stale"}
Pending == {"listed", "queued", "summarise"}

CommunityTypeOK ==
  /\ detection \in [Ingested -> Busy \cup {"new", "done"}]
  /\ about \in [Ingested -> SUBSET Concepts] /\ orphans \in [Ingested -> SUBSET Concepts]
  /\ touched \in [Ingested -> SUBSET Ingested]
  /\ standing \subseteq Ingested /\ members \in [Ingested -> SUBSET Concepts]
  /\ memberCount \in [Ingested -> Int]
  /\ staleOnes \subseteq Ingested /\ deferredOnes \subseteq Ingested
  /\ summary \in [Ingested -> SUBSET Concepts]
  /\ summaryJob \in [SummaryJobs -> Pending \cup {"none", "done"}]
  /\ jobOf \in [SummaryJobs -> Ingested \cup {NoCommunity}]
  /\ membersRead \in [SummaryJobs -> SUBSET Concepts]
  /\ crossed \in BOOLEAN /\ overlooked \subseteq Ingested /\ unmarked \subseteq Ingested
  /\ queuedTwice \subseteq Ingested /\ communityFaults \in 0..MaxCommunityFaults

CommunityInit ==
  /\ detection = [d \in Ingested |-> "new"] /\ about = [d \in Ingested |-> {}]
  /\ orphans = [d \in Ingested |-> {}] /\ touched = [d \in Ingested |-> {}]
  /\ standing = {} /\ members = [c \in Ingested |-> {}] /\ memberCount = [c \in Ingested |-> 0]
  /\ staleOnes = {} /\ deferredOnes = {} /\ summary = [c \in Ingested |-> {}]
  /\ summaryJob = [j \in SummaryJobs |-> "none"]
  /\ jobOf = [j \in SummaryJobs |-> NoCommunity] /\ membersRead = [j \in SummaryJobs |-> {}]
  /\ crossed = FALSE /\ overlooked = {} /\ unmarked = {} /\ queuedTwice = {}
  /\ communityFaults = 0

Known == UNION {about[d] : d \in Ingested}
Placed == UNION {members[c] : c \in standing}
Summarising(c) == \E j \in SummaryJobs : summaryJob[j] = "summarise" /\ jobOf[j] = c
GoesTo(d, s) == detection' = [detection EXCEPT ![d] = s]

-----------------------------------------------------------------------------
(* detectAndAssignCommunities. *)

Unplaced(K) == K \ Placed

\* The content has these concepts; the communities are counted.
CountCommunities(d, K) ==
  /\ detection[d] = "new" /\ K # {}
  /\ about' = [about EXCEPT ![d] = K]
  /\ crossed' = (crossed \/ \E e \in Ingested : detection[e] \in Busy)
  /\ IF standing = {}
       THEN GoesTo(d, "delete") /\ UNCHANGED orphans
       ELSE GoesTo(d, "assign") /\ orphans' = [orphans EXCEPT ![d] = Unplaced(K)]
  /\ UNCHANGED <<touched, unmarked, graph, flags, jobs, overlooked, communityFaults>>

\* detectCommunities deletes what there is,
DeleteCommunities(d) ==
  /\ detection[d] = "delete"
  /\ standing' = {} /\ members' = [c \in Ingested |-> {}]
  /\ staleOnes' = {} /\ deferredOnes' = {}
  /\ GoesTo(d, "create")
  /\ UNCHANGED <<about, orphans, touched, crossed, unmarked, memberCount, summary, jobs, overlooked,
                 communityFaults>>

\* creates a community, stale, if its algorithm finds one,
CreateCommunity(d, K) ==
  /\ detection[d] = "create" /\ K # {} /\ K \subseteq Known
  /\ standing' = standing \cup {d} /\ staleOnes' = staleOnes \cup {d}
  /\ memberCount' = [memberCount EXCEPT ![d] = Cardinality(K)]
  /\ orphans' = [orphans EXCEPT ![d] = K]
  /\ GoesTo(d, "link")
  /\ UNCHANGED <<about, touched, crossed, unmarked, members, deferredOnes, summary, jobs,
                 overlooked, communityFaults>>

FindNone(d) ==
  /\ detection[d] = "create"
  /\ GoesTo(d, "done")
  /\ UNCHANGED <<about, orphans, touched, crossed, unmarked, graph, flags, jobs, overlooked,
                 communityFaults>>

\* links its members,
LinkMembers(d) ==
  /\ detection[d] = "link"
  /\ members' = IF d \in standing THEN [members EXCEPT ![d] = orphans[d]] ELSE members
  /\ overlooked' = IF Summarising(d) THEN overlooked \cup {d} ELSE overlooked
  /\ GoesTo(d, "count")
  /\ UNCHANGED <<about, orphans, touched, crossed, unmarked, standing, memberCount, flags, jobs,
                 communityFaults>>

\* and writes their number again.
WriteCount(d) ==
  /\ detection[d] = "count"
  /\ memberCount' = IF d \in standing THEN [memberCount EXCEPT ![d] = Cardinality(orphans[d])]
                    ELSE memberCount
  /\ GoesTo(d, "done")
  /\ UNCHANGED <<about, orphans, touched, crossed, unmarked, standing, members, flags, jobs,
                 overlooked, communityFaults>>

\* addMemberToCommunity, to the closest community that has members;
AssignConcept(d, k, c) ==
  /\ detection[d] = "assign" /\ k \in orphans[d] /\ c \in standing /\ members[c] # {}
  /\ members' = [members EXCEPT ![c] = @ \cup {k}]
  /\ memberCount' = [memberCount EXCEPT ![c] = @ + 1]
  /\ orphans' = [orphans EXCEPT ![d] = @ \ {k}]
  /\ touched' = [touched EXCEPT ![d] = @ \cup {c}]
  /\ overlooked' = IF Summarising(c) THEN overlooked \cup {c} ELSE overlooked
  /\ UNCHANGED <<detection, about, crossed, unmarked, standing, flags, jobs, communityFaults>>

\* a concept that no community is close to stays an orphan.
LeaveOrphan(d, k) ==
  /\ detection[d] = "assign" /\ k \in orphans[d]
  /\ orphans' = [orphans EXCEPT ![d] = @ \ {k}]
  /\ UNCHANGED <<detection, about, touched, crossed, unmarked, graph, flags, jobs, overlooked,
                 communityFaults>>

\* Mutant: only a community that has been summarised is marked.
MarkSummarised(d) ==
  /\ detection[d] = "assign" /\ orphans[d] = {}
  /\ staleOnes' = staleOnes \cup {c \in touched[d] \cap standing : summary[c] = {}}
  /\ touched' = [touched EXCEPT ![d] = {}]
  /\ GoesTo(d, "done")
  /\ UNCHANGED <<about, orphans, crossed, unmarked, graph, deferredOnes, summary, jobs, overlooked,
                 communityFaults>>

\* After the last one, the touched communities are marked.
MarkAsStale(d) ==
  /\ detection[d] = "assign" /\ orphans[d] = {}
  /\ staleOnes' = staleOnes \cup (touched[d] \cap standing)
  /\ touched' = [touched EXCEPT ![d] = {}]
  /\ GoesTo(d, "done")
  /\ UNCHANGED <<about, orphans, crossed, unmarked, graph, deferredOnes, summary, jobs, overlooked,
                 communityFaults>>

\* A call throws, or the worker dies.
ContentFails(d) ==
  /\ detection[d] \in Busy
  /\ communityFaults < MaxCommunityFaults /\ communityFaults' = communityFaults + 1
  /\ unmarked' = unmarked \cup touched[d] \cup {d}
  /\ touched' = [touched EXCEPT ![d] = {}]
  /\ GoesTo(d, "done")
  /\ UNCHANGED <<about, orphans, crossed, graph, flags, jobs, overlooked>>

-----------------------------------------------------------------------------
(* The cron and the jobs. *)

ToSummarise == staleOnes \ deferredOnes

\* The cron lists what is due,
ListStale(j, c) ==
  /\ summaryJob[j] = "none" /\ c \in ToSummarise
  /\ summaryJob' = [summaryJob EXCEPT ![j] = "listed"] /\ jobOf' = [jobOf EXCEPT ![j] = c]
  /\ queuedTwice' = IF \E i \in SummaryJobs : summaryJob[i] \in Pending /\ jobOf[i] = c
                    THEN queuedTwice \cup {c} ELSE queuedTwice
  /\ UNCHANGED <<assigning, graph, flags, membersRead, overlooked, communityFaults>>

\* and queues it, one after the other, whatever has happened to it since.
QueueSummary(j) ==
  /\ summaryJob[j] = "listed"
  /\ summaryJob' = [summaryJob EXCEPT ![j] = "queued"]
  /\ UNCHANGED <<assigning, graph, flags, jobOf, membersRead, queuedTwice, overlooked,
                 communityFaults>>

Close(j) == /\ summaryJob' = [summaryJob EXCEPT ![j] = "done"]
            /\ jobOf' = [jobOf EXCEPT ![j] = NoCommunity]
            /\ membersRead' = [membersRead EXCEPT ![j] = {}]

\* No credits: the community waits for an approval.
DeferSummary(j) ==
  /\ summaryJob[j] = "queued"
  /\ deferredOnes' = deferredOnes \cup ({jobOf[j]} \cap standing)
  /\ Close(j)
  /\ UNCHANGED <<assigning, graph, staleOnes, summary, queuedTwice, overlooked, communityFaults>>

\* The members are read; without any, there is nothing to do.
GatherMembers(j) ==
  LET found == IF jobOf[j] \in standing THEN members[jobOf[j]] ELSE {}
  IN /\ summaryJob[j] = "queued"
     /\ \/ found = {} /\ Close(j)
        \/ /\ found # {} /\ summaryJob' = [summaryJob EXCEPT ![j] = "summarise"]
           /\ membersRead' = [membersRead EXCEPT ![j] = found]
           /\ UNCHANGED jobOf
     /\ UNCHANGED <<assigning, graph, flags, queuedTwice, overlooked, communityFaults>>

\* updateSummary clears both flags, whatever happened to the community since.
UpdateSummary(j) ==
  /\ summaryJob[j] = "summarise"
  /\ summary' = [c \in Ingested |-> IF c = jobOf[j] /\ c \in standing THEN membersRead[j]
                                    ELSE summary[c]]
  /\ staleOnes' = staleOnes \ {jobOf[j]} /\ deferredOnes' = deferredOnes \ {jobOf[j]}
  /\ Close(j)
  /\ UNCHANGED <<assigning, graph, queuedTwice, overlooked, communityFaults>>

\* The job is dropped for want of AI, throws, or dies with its worker.
LoseJob(j) ==
  /\ summaryJob[j] \in Pending
  /\ communityFaults < MaxCommunityFaults /\ communityFaults' = communityFaults + 1
  /\ Close(j)
  /\ UNCHANGED <<assigning, graph, flags, queuedTwice, overlooked>>

\* An approval clears the deferrals it has read.
ClearPendingCredits(S) ==
  /\ S # {} /\ deferredOnes' = deferredOnes \ S
  /\ UNCHANGED <<assigning, graph, staleOnes, summary, jobs, overlooked, communityFaults>>

-----------------------------------------------------------------------------
DetectionStep(d) == \/ \E K \in SUBSET Concepts : CountCommunities(d, K) \/ CreateCommunity(d, K)
                    \/ DeleteCommunities(d) \/ FindNone(d) \/ LinkMembers(d) \/ WriteCount(d)
AssignmentStep(d) == \/ \E k \in Concepts, c \in Ingested : AssignConcept(d, k, c)
                     \/ \E k \in Concepts : LeaveOrphan(d, k)
                     \/ MarkAsStale(d) \/ ContentFails(d)
SummaryStep(j) == \/ \E c \in Ingested : ListStale(j, c)
                  \/ QueueSummary(j) \/ DeferSummary(j) \/ GatherMembers(j) \/ UpdateSummary(j) \/ LoseJob(j)

CommunityNext == \/ \E d \in Ingested : DetectionStep(d) \/ AssignmentStep(d)
                 \/ \E j \in SummaryJobs : SummaryStep(j)
                 \/ \E S \in SUBSET deferredOnes : ClearPendingCredits(S)

CommunitySpec == CommunityInit /\ [][CommunityNext]_communityVars

-----------------------------------------------------------------------------
(* Properties. *)

\* The summary of a community that is not stale was written from all of its
\* members, unless one joined while a job was writing, or the content that
\* added one is still at work or failed before it marked the community.
FreshCoversMembers ==
  \A c \in standing \ (staleOnes \cup overlooked \cup unmarked) :
    (\A d \in Ingested : c \notin touched[d]) => members[c] \subseteq summary[c]

\* A community that waits for credits still has a summary to be written,
\* unless two jobs were queued for it: an approval brings nothing back in vain.
DeferredIsStale == deferredOnes \subseteq staleOnes \cup queuedTwice

\* It is not queued either before an approval, unless two jobs were: a top-up
\* is not spent on it unasked.
DeferredIsLeftAlone ==
  \A j \in SummaryJobs :
    summaryJob[j] = "queued" /\ jobOf[j] \in deferredOnes => jobOf[j] \in queuedTwice

\* memberCount is the number of members, unless two contents were processed
\* at the same time, or the one that created it failed.
MemberCountHonest ==
  ~crossed => \A c \in standing \ unmarked :
    detection[c] \notin Busy => memberCount[c] = Cardinality(members[c])

\* A summary that passes for fresh covers the members of its community, one that
\* was deferred for lack of credits is due again and not before the credits come,
\* and the counted members are the members.
CommunitiesSound ==
  /\ CommunityTypeOK /\ FreshCoversMembers /\ DeferredIsStale
  /\ DeferredIsLeftAlone /\ MemberCountHonest
=============================================================================
