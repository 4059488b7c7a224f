------------------------------ MODULE EntityRecords ------------------------------
(***************************************************************************)
(* What every entity of the package inherits: AbstractService over         *)
(* AbstractRepository, for one id, with a field, a required to-one and a   *)
(* to-many relationship, unique ids and an audit service.  Requests of any *)
(* kind overlap; related nodes are deleted by their own services.          *)
(*                                                                         *)
(* A statement is one step: PUT and PATCH set updatedAt first, which locks *)
(* the node before its edges are read.  The wrapper runs a statement again *)
(* whose answer is lost.  Companies, casts, paging and the edges' own      *)
(* properties are left out.                                                *)
(***************************************************************************)
EXTENDS Integers, FiniteSets

CONSTANTS Contents,            \* values of the field
          Related,             \* nodes a record may be related to
          Edits,               \* requests
          NoContent,
          MaxRecordFaults      \* bound: lost answers, and requests that end halfway

ASSUME RecordsAssumption == NoContent \notin Contents /\ MaxRecordFaults \in Nat

VARIABLES entity,              \* the node and its edges
          living,              \* the related nodes that exist
          edit,                \* [Edits -> what is asked, where it is, what it has read]
          logged,              \* history: the field and the owner as the audit log tells them
          logBlurred,          \* history: a write fell between another request's read and
                               \* its entry, or a request did not reach its entry
          recordFaults

EditKinds == {"create", "put", "patch", "relink", "add", "remove", "delete"}

Nodes == [exists : BOOLEAN, content : Contents \cup {NoContent},
          owner : SUBSET Related, links : SUBSET Related]
NoNode == [exists |-> FALSE, content |-> NoContent, owner |-> {}, links |-> {}]

\* A request that has not come yet.
NoEdit == [kind |-> "put", content |-> NoContent, owner |-> {}, links |-> {}, at |-> "new",
           before |-> NoNode, vetted |-> {}, torn |-> FALSE]

\* The log tells neither the field nor the owner a record was created with.
Untold == [content |-> NoContent, owner |-> {}]

RecordsTypeOK ==
  /\ entity \in Nodes /\ living \subseteq Related
  /\ edit \in [Edits -> [kind : EditKinds, content : Contents \cup {NoContent},
                         owner : SUBSET Related, links : SUBSET Related,
                         at : {"new", "read", "vet", "write", "audit", "over"},
                         before : Nodes, vetted : SUBSET Related, torn : BOOLEAN]]
  /\ logged \in [content : Contents \cup {NoContent}, owner : SUBSET Related]
  /\ logBlurred \in BOOLEAN /\ recordFaults \in 0..MaxRecordFaults

recordsVars == <<entity, living, edit, logged, logBlurred, recordFaults>>

RecordsInit ==
  /\ living = Related
  /\ \/ entity = NoNode
     \/ \E c \in Contents, t \in Related :
          entity = [exists |-> TRUE, content |-> c, owner |-> {t}, links |-> {}]
  /\ edit = [e \in Edits |-> NoEdit]
  /\ logged = Untold /\ logBlurred = FALSE /\ recordFaults = 0

\* A required relationship is matched, not optionally: a record whose owner is
\* gone is found by nobody.
Visible(n) == n.exists /\ n.owner # {}

\* What a request has asked for no longer matters once it is over.
Over(e) == edit' = [edit EXCEPT ![e] = [NoEdit EXCEPT !.at = "over"]]
Given(e) == edit[e].owner \cup edit[e].links

-----------------------------------------------------------------------------
(* The requests. *)

\* What each request says.  A PUT carries every relationship, as the clients
\* send it; a PATCH the field and perhaps another owner, and the operator's tools
\* relink the owner alone.
Payloads(kind) ==
  [content : IF kind \in {"create", "put", "patch"} THEN Contents ELSE {NoContent},
   owner   : CASE kind \in {"create", "put", "relink"} -> {{t} : t \in Related}
               [] kind = "patch" -> {{}} \cup {{t} : t \in Related}
               [] OTHER -> {{}},
   links   : IF kind \in {"create", "put"} THEN SUBSET Related
             ELSE IF kind \in {"add", "remove"} THEN {{t} : t \in Related} ELSE {{}}]

\* Where a request begins: the state before it is read for the log or, by a
\* deletion, to see whose it is.
First(kind) == IF kind = "create" THEN "vet"
               ELSE IF kind \in {"add", "remove"} THEN "write" ELSE "read"

Request(e) ==
  /\ edit[e].at = "new"
  /\ \E kind \in EditKinds : \E payload \in Payloads(kind) :
       edit' = [edit EXCEPT ![e] = [NoEdit EXCEPT !.kind = kind, !.content = payload.content,
                                                  !.owner = payload.owner, !.links = payload.links,
                                                  !.at = First(kind)]]
  /\ UNCHANGED <<entity, living, logged, logBlurred, recordFaults>>

\* findById.  Only a deletion ends when there is nothing.
ReadBefore(e) ==
  /\ edit[e].at = "read"
  /\ IF edit[e].kind = "delete" /\ ~Visible(entity)
       THEN Over(e)
       ELSE edit' = [edit EXCEPT ![e].before = IF Visible(entity) THEN entity ELSE NoNode,
                                 ![e].at = IF Given(e) = {} THEN "write" ELSE "vet"]
  /\ UNCHANGED <<entity, living, logged, logBlurred, recordFaults>>

\* validateExistingNodes, a read of its own.
Validate(e) ==
  /\ edit[e].at = "vet"
  /\ IF Given(e) \subseteq living
       THEN edit' = [edit EXCEPT ![e].vetted = living, ![e].at = "write"]
       ELSE Over(e)
  /\ UNCHANGED <<entity, living, logged, logBlurred, recordFaults>>

-----------------------------------------------------------------------------
(* The statements. *)

\* One relationship: the edges to others are deleted, then those asked for are
\* merged, of which the ones to nodes that are gone match nothing.
\* Mutant: the edges to delete are those the request had read before.
EdgesFromBefore(e, old, given) == (old \ edit[e].before.owner) \cup (given \cap living)

Edges(e, old, given) == given \cap living

WithField(e, n) == IF edit[e].content = NoContent THEN n ELSE [n EXCEPT !.content = edit[e].content]

\* The owner is written first.  When it matches nothing no row is left, and what
\* the statement says of the links is not done.
WithOwner(e, n) == IF edit[e].owner = {} THEN n ELSE [n EXCEPT !.owner = Edges(e, @, edit[e].owner)]
WithEdges(e, n) == IF edit[e].owner \cap living = {} THEN WithOwner(e, n)
                   ELSE [WithOwner(e, n) EXCEPT !.links = Edges(e, @, edit[e].links)]

\* The statements of the repository, on a node that exists or, the first, on none.
CreatedRecord(e)     == WithEdges(e, WithField(e, [NoNode EXCEPT !.exists = TRUE]))
ReplacedRecord(e, n) == WithEdges(e, WithField(e, n))
Patched(e, n)        == WithOwner(e, WithField(e, n))
Added(e, n)          == [n EXCEPT !.links = @ \cup (edit[e].links \cap living)]
Removed(e, n)        == [n EXCEPT !.links = @ \ edit[e].links]

Written(e, n) ==
  CASE edit[e].kind = "create" -> CreatedRecord(e)
    [] edit[e].kind # "create" /\ (~n.exists \/ edit[e].kind = "delete") -> NoNode
    [] n.exists /\ edit[e].kind = "put" -> ReplacedRecord(e, n)
    [] n.exists /\ edit[e].kind \in {"patch", "relink"} -> Patched(e, n)
    [] n.exists /\ edit[e].kind = "add" -> Added(e, n)
    [] n.exists /\ edit[e].kind = "remove" -> Removed(e, n)

\* Something that was asked for, by a request that was checked, was not written.
Torn(e, n) == /\ n.exists
              /\ \/ edit[e].owner \notin {{}, n.owner}
                 \/ edit[e].kind \in {"create", "put"} /\ n.links # edit[e].links

\* What a request changes without having found it is not logged.
Unseen(e) == edit[e].kind \in {"put", "patch", "relink"} /\ ~edit[e].before.exists

\* Another request has read the state and not yet made its entry.
Midway(e) == \E o \in Edits \ {e} : edit[o].at \in {"vet", "write", "audit"}
                                      /\ edit[o].kind \notin {"create", "add", "remove"}

Statement(e, then) ==
  /\ entity' = Written(e, entity)
  /\ edit' = [edit EXCEPT ![e].torn = @ \/ Torn(e, entity'), ![e].at = then]
  /\ logBlurred' = (logBlurred \/ (entity' # entity /\ (Midway(e) \/ Unseen(e))))

\* A creation whose id is taken violates the constraint.
Refused(e) == edit[e].kind = "create" /\ entity.exists

PerformEdit(e) ==
  /\ edit[e].at = "write" /\ ~Refused(e)
  /\ Statement(e, IF edit[e].kind \in {"add", "remove"} \/ Unseen(e) THEN "over" ELSE "audit")
  /\ UNCHANGED <<living, logged, recordFaults>>

WriteRefused(e) ==
  /\ edit[e].at = "write" /\ Refused(e)
  /\ Over(e)
  /\ UNCHANGED <<entity, living, logged, logBlurred, recordFaults>>

\* The statement commits, its answer is lost, and the wrapper runs it again.
WriteUnacked(e) ==
  /\ edit[e].at = "write" /\ ~Refused(e)
  /\ recordFaults < MaxRecordFaults /\ recordFaults' = recordFaults + 1
  /\ entity' = Written(e, entity)
  /\ edit' = [edit EXCEPT ![e].torn = @ \/ Torn(e, entity')]
  /\ logBlurred' = TRUE
  /\ UNCHANGED <<living, logged>>

-----------------------------------------------------------------------------
(* The log, in statements of their own. *)

\* The entries of an update tell what differs between what was read and what was
\* asked for.  A creation's tells nothing, a deletion's the last state.
Told(e) ==
  CASE edit[e].kind = "delete" -> Untold
    [] edit[e].kind \in {"put", "patch"} ->
         [content |-> IF edit[e].content # edit[e].before.content THEN edit[e].content ELSE logged.content,
          owner   |-> IF edit[e].owner \notin {{}, edit[e].before.owner} THEN edit[e].owner ELSE logged.owner]
    [] edit[e].kind = "relink" -> [logged EXCEPT !.owner = {}]
    [] OTHER -> logged

\* The operator's tools give the owner as a list, which the log tells as no owner.
LogEntry(e) ==
  /\ edit[e].at = "audit"
  /\ logged' = Told(e)
  /\ Over(e)
  /\ UNCHANGED <<entity, living, logBlurred, recordFaults>>

-----------------------------------------------------------------------------
(* Failures, and the services of the related nodes. *)

RequestStops(e) ==
  /\ edit[e].at \notin {"new", "over"}
  /\ recordFaults < MaxRecordFaults /\ recordFaults' = recordFaults + 1
  /\ Over(e)
  /\ logBlurred' = (logBlurred \/ edit[e].at = "audit")
  /\ UNCHANGED <<entity, living, logged>>

\* DETACH DELETE of a related node takes its edges along.
RelatedDeleted(t) ==
  /\ t \in living
  /\ living' = living \ {t}
  /\ entity' = [entity EXCEPT !.owner = @ \ {t}, !.links = @ \ {t}]
  /\ UNCHANGED <<edit, logged, logBlurred, recordFaults>>

RecordsNext ==
  \/ \E e \in Edits : \/ Request(e) \/ ReadBefore(e) \/ Validate(e)
                      \/ PerformEdit(e) \/ WriteRefused(e) \/ WriteUnacked(e)
                      \/ LogEntry(e) \/ RequestStops(e)
  \/ \E t \in Related : RelatedDeleted(t)

RecordsSpec == RecordsInit /\ [][RecordsNext]_recordsVars

-----------------------------------------------------------------------------
(* However requests overlap, a record has one owner at most, although each
   takes away the edges to the previous owner and merges its own. *)
OneOwner == Cardinality(entity.owner) <= 1

(* A record nobody can find any more - it has no owner - has lost it with a
   related node: no order of requests and repetitions strips it. *)
HiddenNeedsLoss == entity.exists /\ entity.owner = {} => living # Related

(* What a request that was checked asked for is written whole, unless a node it
   names was deleted between the check and the statement. *)
TornNeedsLoss == \A e \in Edits : edit[e].torn => Given(e) \subseteq edit[e].vetted
                                                    /\ ~(Given(e) \subseteq living)

(* When all is done, the audit log accounts for the field and the owner, unless
   a write fell between another's read and its entry, or a request did not reach
   its entry or changed a record it had not found. *)
LogAccounts ==
  (\A e \in Edits : edit[e].at \in {"new", "over"}) /\ ~logBlurred =>
    /\ logged.content # NoContent => entity.exists /\ entity.content = logged.content
    /\ logged.owner # {} => entity.exists /\ entity.owner = logged.owner \cap living

(* What no order of overlapping requests, lost answers and deletions of related
   nodes makes of a record of AbstractService: two owners, a hidden record whose
   nodes all live, half a write, a log that tells what never was. *)
RecordsSound == RecordsTypeOK /\ OneOwner /\ HiddenNeedsLoss /\ TornNeedsLoss /\ LogAccounts
=============================================================================
