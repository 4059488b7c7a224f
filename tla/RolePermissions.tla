----------------------------- MODULE RolePermissions -----------------------------
(***************************************************************************)
(* What a role may do in a module.  The code declares it in a matrix and   *)
(* every process brings the graph in line with its own when it starts:     *)
(* RbacReconcilerService reads what the graph holds, in two reads, and     *)
(* writes the differences in one transaction.  Processes start together,   *)
(* and during a release with different matrices.                           *)
(*                                                                         *)
(* One action stands for the four.  A token of the matrix grants it "all", *)
(* or on the path it names; what is stored is one value.                   *)
(***************************************************************************)
EXTENDS Integers, Sequences, SequencesExt

CONSTANTS Processes,
          Modules, Member,
          MaxBoots,             \* bound: starts of a process
          MaxRoleDeletions      \* bound: the member's role is deleted

Administrator == "administrator"
Roles == {Member, Administrator}

ASSUME RbacAssumption == Member # Administrator /\ MaxBoots \in Nat /\ MaxRoleDeletions \in Nat

Paths == {"owner", "team"}
Stored == Paths \cup {"all", "none"}
Unset == "absent"
Undeclared == [default |-> <<>>, of |-> <<>>]

\* What the matrix may say of a module: `of' has the roles it names.
Blocks == {[default |-> <<>>, of |-> [r \in Roles |-> <<"all">>]],
           [default |-> <<"owner">>, of |-> [r \in Roles |-> <<"team">>]],
           [default |-> <<"all">>, of |-> [r \in {Administrator} |-> <<"all">>]],
           Undeclared}

Declared(matrix) == {m \in Modules : matrix[m] # Undeclared}
Names(matrix, r, m) == r \in DOMAIN matrix[m].of

VARIABLES release,          \* [Processes -> matrix its code declares]
          booting,          \* [Processes -> where its start is]
          boots,
          defaults,         \* [Modules -> Module.permissions]
          edges,            \* [Roles \X Modules -> HAS_PERMISSIONS.permissions]
          role,             \* the member's role exists
          noticed,          \* [Processes -> what it read]
          seeded,           \* history: the edges before any start
          outdated,         \* history: processes that read before another matrix was written
          settled           \* history: matrices the last complete reconciliation was of

reconcilers == <<release, booting, boots, noticed, outdated>>
rbacVars == <<reconcilers, defaults, edges, role, seeded, settled>>

Matrices == [Modules -> Blocks]
Nothing == [defaults |-> <<>>, edges |-> <<>>]

RbacTypeOK ==
  /\ release \in [Processes -> Matrices]
  /\ booting \in [Processes -> {"down", "defaults", "edges", "apply", "up", "aborted"}]
  /\ boots \in [Processes -> 0..MaxBoots]
  /\ defaults \in [Modules -> Stored \cup {Unset}]
  /\ edges \in [Roles \X Modules -> Stored \cup {Unset}]
  /\ role \in BOOLEAN
  /\ noticed \in [Processes -> [defaults : {<<>>} \cup [Modules -> Stored \cup {Unset}],
                               edges : {<<>>} \cup [Roles \X Modules -> Stored \cup {Unset}]]]
  /\ seeded \in [Roles \X Modules -> Stored \cup {Unset}]
  /\ outdated \subseteq Processes
  /\ settled \subseteq Matrices

\* The seeds give a role an edge by hand, or none.
RbacInit ==
  /\ release \in [Processes -> Matrices]
  /\ booting = [p \in Processes |-> "down"] /\ boots = [p \in Processes |-> 0]
  /\ defaults = [m \in Modules |-> Unset]
  /\ edges \in {[e \in Roles \X Modules |-> IF e[1] = Administrator THEN "owner" ELSE value] :
                   value \in {Unset, "all"}}
  /\ role = TRUE
  /\ noticed = [p \in Processes |-> Nothing]
  /\ seeded = edges
  /\ outdated = {} /\ settled = {}

StartIs(p, step) == booting' = [booting EXCEPT ![p] = step]

-----------------------------------------------------------------------------
(* The values. *)

\* The strongest token wins; of two paths the first.
ToPermissions(tokens) ==
  LET paths == {i \in DOMAIN tokens : tokens[i] \in Paths}
  IN IF Contains(tokens, "all") THEN "all"
     ELSE IF paths # {} THEN tokens[Min(paths)] ELSE "none"

ResolveDefault(matrix, m) == ToPermissions(matrix[m].default)
ResolveForRole(matrix, r, m) == ToPermissions(matrix[m].default \o matrix[m].of[r])

\* A user's permission on a module: its default first and then, in any order,
\* what the edges of the user's roles hold.
Effective(held, m) ==
  ToPermissions(<<defaults[m]>> \o SetToSeq({edges[<<r, m>>] : r \in held} \ {Unset}))

-----------------------------------------------------------------------------
(* A process starts. *)

\* Without the roles it names it does not start.
Preflight(p) ==
  LET named == \E m \in Modules : Names(release[p], Member, m)
  IN /\ booting[p] = "down" /\ boots[p] < MaxBoots
     /\ boots' = [boots EXCEPT ![p] = @ + 1]
     /\ StartIs(p, IF named /\ ~role THEN "aborted" ELSE "defaults")
     /\ UNCHANGED <<release, noticed, outdated, defaults, edges, role, seeded, settled>>

ReadDefaults(p) ==
  /\ booting[p] = "defaults"
  /\ noticed' = [noticed EXCEPT ![p].defaults = defaults]
  /\ outdated' = outdated \ {p}
  /\ StartIs(p, "edges")
  /\ UNCHANGED <<release, boots, defaults, edges, role, seeded, settled>>

ReadEdges(p) ==
  /\ booting[p] = "edges"
  /\ noticed' = [noticed EXCEPT ![p].edges = edges]
  /\ StartIs(p, "apply")
  /\ UNCHANGED <<release, boots, outdated, defaults, edges, role, seeded, settled>>

\* The differences: defaults to set, edges to write, and edges to delete of the
\* modules it declares; the administrator's edges are not its business.
Wanted(matrix, r, m) == IF Names(matrix, r, m) THEN ResolveForRole(matrix, r, m) ELSE Unset

\* Mutant: every edge the matrix does not name is deleted.
EdgesOfAll(matrix, read) ==
  {e \in Roles \X Modules : e[1] # Administrator /\ read[e] # Wanted(matrix, e[1], e[2])}

DefaultsToSet(matrix, read) == {m \in Declared(matrix) : read[m] # ResolveDefault(matrix, m)}
EdgesToChange(matrix, read) ==
  {e \in Roles \X Declared(matrix) : e[1] # Administrator /\ read[e] # Wanted(matrix, e[1], e[2])}

\* One transaction; an edge of a role that is gone matches nothing.
Apply(p) ==
  LET matrix == release[p]
      set == DefaultsToSet(matrix, noticed[p].defaults)
      change == EdgesToChange(matrix, noticed[p].edges)
      passedBy == {q \in Processes : booting[q] \in {"edges", "apply"} /\ release[q] # matrix}
  IN /\ booting[p] = "apply"
     /\ defaults' = [m \in Modules |-> IF m \in set THEN ResolveDefault(matrix, m) ELSE defaults[m]]
     /\ edges' = [e \in Roles \X Modules |->
                    IF e \in change /\ (role \/ e[1] # Member) THEN Wanted(matrix, e[1], e[2])
                    ELSE edges[e]]
     /\ settled' = IF p \in outdated THEN settled \cap {matrix} ELSE {matrix}
     /\ outdated' = (outdated \cup passedBy) \ {p}
     /\ noticed' = [noticed EXCEPT ![p] = Nothing]
     /\ StartIs(p, "up")
     /\ UNCHANGED <<release, boots, role, seeded>>

\* A read or the transaction fails and the start with it, or a process that ran
\* is stopped.
Stop(p) ==
  /\ booting[p] \notin {"down", "aborted"}
  /\ noticed' = [noticed EXCEPT ![p] = Nothing] /\ outdated' = outdated \ {p}
  /\ StartIs(p, "down")
  /\ UNCHANGED <<release, boots, defaults, edges, role, seeded, settled>>

\* RoleRepository.delete: the role goes with its edges.
DeleteRole ==
  /\ MaxRoleDeletions > 0 /\ role
  /\ role' = FALSE
  /\ edges' = [e \in Roles \X Modules |-> IF e[1] = Member THEN Unset ELSE edges[e]]
  /\ UNCHANGED <<reconcilers, defaults, seeded, settled>>

RbacNext ==
  \/ \E p \in Processes : Preflight(p) \/ ReadDefaults(p) \/ ReadEdges(p) \/ Apply(p) \/ Stop(p)
  \/ DeleteRole

RbacSpec == RbacInit /\ [][RbacNext]_rbacVars

-----------------------------------------------------------------------------
(* Properties. *)

\* After a start the graph says what that process declares, unless it read
\* before a process with another matrix wrote: then each keeps what the other
\* saw no reason to write.
GraphIsDeclared ==
  \A matrix \in settled, m \in Modules :
    m \in Declared(matrix) =>
      /\ defaults[m] = ResolveDefault(matrix, m)
      /\ role => edges[<<Member, m>>] = Wanted(matrix, Member, m)

\* Modules no matrix declares and the administrator's edges stay as they were
\* seeded, but for what goes with a deleted role.
RestUntouched ==
  \A r \in Roles, m \in Modules :
    (r = Administrator \/ (role /\ \A p \in Processes : m \notin Declared(release[p])))
      => edges[<<r, m>>] = seeded[<<r, m>>]

\* A member may do what the matrix grants it, with or without its own tokens:
\* everything if a token says so, nothing if none says anything, and otherwise
\* on a path that is declared.
MemberMayDoWhatIsDeclared ==
  role => \A matrix \in settled, m \in Modules :
    m \in Declared(matrix) =>
      LET of == IF Names(matrix, Member, m) THEN matrix[m].of[Member] ELSE <<>>
          tokens == {matrix[m].default[i] : i \in DOMAIN matrix[m].default} \cup {of[i] : i \in DOMAIN of}
          may == Effective({Member}, m)
      IN IF "all" \in tokens THEN may = "all"
         ELSE IF tokens = {} THEN may = "none" ELSE may \in tokens

\* Permissions follow the declared matrix through starts, releases and stops.
PermissionsSound == RbacTypeOK /\ GraphIsDeclared /\ RestUntouched /\ MemberMayDoWhatIsDeclared
=============================================================================
