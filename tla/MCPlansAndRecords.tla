---------------------------- MODULE MCPlansAndRecords ---------------------------
(***************************************************************************)
(* What is on offer, what a subscription makes of it, with Stripe's events *)
(* in any order, what the roles of those who use it may do, and the        *)
(* records they edit.  The four meet only in names none of them changes    *)
(* for another, so that each is explored on its own instance: a behaviour  *)
(* exercises one of them and the others stay as they began.                *)
(***************************************************************************)
EXTENDS SubscriptionSync, StripeCatalogue, RolePermissions, EntityRecords, TLC

VARIABLE exercised

Others(part, start) == exercised # part => start

PlansInit ==
  /\ exercised \in {"SubscriptionSync", "StripeCatalogue", "RolePermissions", "EntityRecords"}
  /\ Init
  /\ CatalogueInit /\ Others("StripeCatalogue", offered[Product] = NotMade)
  /\ RbacInit
  /\ Others("RolePermissions", /\ \A m \in Modules : edges[Member, m] = Unset
                               /\ release = [p \in Processes |-> [m \in Modules |-> Undeclared]])
  /\ RecordsInit /\ Others("EntityRecords", entity = NoNode)

PlansNext ==
  /\ UNCHANGED exercised
  /\ \/ exercised = "SubscriptionSync" /\ Next /\ UNCHANGED <<catalogueVars, rbacVars, recordsVars>>
     \/ exercised = "StripeCatalogue" /\ CatalogueNext /\ UNCHANGED <<vars, rbacVars, recordsVars>>
     \/ exercised = "RolePermissions" /\ RbacNext /\ UNCHANGED <<vars, catalogueVars, recordsVars>>
     \/ exercised = "EntityRecords" /\ RecordsNext /\ UNCHANGED <<vars, catalogueVars, rbacVars>>

plansVars == <<exercised, vars, catalogueVars, rbacVars, recordsVars>>

PlansSpec == PlansInit /\ [][PlansNext]_plansVars

\* Subscriptions, requests and related records do not differ, and neither do
\* the worker slots, processes and contents that have the same model values
\* without ever meeting.
Symmetry == Permutations(Subs) \cup Permutations(Workers) \cup Permutations(Related) \cup Permutations(Edits)
=============================================================================
