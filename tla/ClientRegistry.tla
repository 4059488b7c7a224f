----------------------------- MODULE ClientRegistry -----------------------------
(***************************************************************************)
(* The sockets of one user and their records in Redis, kept by the API     *)
(* instances: a hash per socket, the set of the user's sockets, and the    *)
(* user's place in the company's set, through which messages to the        *)
(* company are delivered.  A pipeline is one step; a removal and the       *)
(* cleanup read first and write later.                                     *)
(*                                                                         *)
(* Redis keeps no empty set: an empty userClients has no key, and the      *)
(* cleanup does not see it.                                                *)
(***************************************************************************)
EXTENDS Integers, FiniteSets

CONSTANTS Sockets,
          Cleaners,           \* runs of cleanupExpiredClients
          MaxRedisFaults,     \* bound: reads that fail
          MaxInstanceCrashes  \* bound: instances that die with their sockets

ASSUME RegistryAssumption == MaxRedisFaults \in Nat /\ MaxInstanceCrashes \in Nat

VARIABLES link,               \* [Sockets -> "new", "up", "down"]
          clientHash,         \* sockets with a ws_client hash
          userClients,        \* the set of the user's sockets
          listed,             \* the user is in the set of the company's users
          removal,            \* [Sockets -> progress of removeClient]
          cleaning, toCheck,  \* [Cleaners -> progress, sockets still to look at]
          lateComers,          \* history: sockets that connected while the user was being unlisted
          aged,               \* history: sockets connected for longer than a day
          missed,             \* history: a socket that a removal counted went before the removal did,
                              \* or the company's set outlived the user's
          redisFaults, instanceCrashes

records == <<clientHash, userClients, listed>>
cleaners == <<cleaning, toCheck>>
past == <<lateComers, aged, missed>>
registryVars == <<link, records, removal, cleaners, past, redisFaults, instanceCrashes>>

RegistryTypeOK ==
  /\ link \in [Sockets -> {"new", "up", "down"}]
  /\ clientHash \subseteq Sockets /\ userClients \subseteq Sockets /\ listed \in BOOLEAN
  /\ removal \in [Sockets -> {"no", "info", "count", "last", "other", "done"}]
  /\ cleaning \in [Cleaners -> {"idle", "check", "wipe"}]
  /\ toCheck \in [Cleaners -> SUBSET Sockets]
  /\ lateComers \subseteq Sockets /\ aged \subseteq Sockets /\ missed \in BOOLEAN
  /\ redisFaults \in 0..MaxRedisFaults /\ instanceCrashes \in 0..MaxInstanceCrashes

RegistryInit ==
  /\ link = [s \in Sockets |-> "new"]
  /\ clientHash = {} /\ userClients = {} /\ listed = FALSE
  /\ removal = [s \in Sockets |-> "no"]
  /\ cleaning = [k \in Cleaners |-> "idle"] /\ toCheck = [k \in Cleaners |-> {}]
  /\ lateComers = {} /\ aged = {} /\ missed = FALSE
  /\ redisFaults = 0 /\ instanceCrashes = 0

Connected == {s \in Sockets : link[s] = "up"}
Unlisting == \/ \E s \in Sockets : removal[s] = "last"
             \/ \E k \in Cleaners : cleaning[k] = "wipe"

Proceed(s, step) == removal' = [removal EXCEPT ![s] = step]

-----------------------------------------------------------------------------
\* addClient.
Connect(s) ==
  /\ link[s] = "new"
  /\ link' = [link EXCEPT ![s] = "up"]
  /\ clientHash' = clientHash \cup {s} /\ userClients' = userClients \cup {s} /\ listed' = TRUE
  /\ lateComers' = IF Unlisting THEN lateComers \cup {s} ELSE lateComers
  /\ UNCHANGED <<removal, cleaners, aged, missed, redisFaults, instanceCrashes>>

\* handleDisconnect starts removeClient.
Disconnect(s) ==
  /\ link[s] = "up"
  /\ link' = [link EXCEPT ![s] = "down"]
  /\ Proceed(s, "info")
  /\ UNCHANGED <<records, cleaners, past, redisFaults, instanceCrashes>>

\* getClientInfo: without a hash there is nothing to remove.
ReadInfo(s) ==
  /\ removal[s] = "info"
  /\ Proceed(s, IF s \in clientHash THEN "count" ELSE "done")
  /\ UNCHANGED <<link, records, cleaners, past, redisFaults, instanceCrashes>>

\* Mutant: the socket that leaves is forgotten in the comparison.
CountTwo(s) ==
  /\ removal[s] = "count"
  /\ Proceed(s, IF Cardinality(userClients) <= 2 THEN "last" ELSE "other")
  /\ missed' = (missed \/ \E t \in Sockets \ {s} : removal[t] \in {"last", "other"})
  /\ UNCHANGED <<link, records, cleaners, lateComers, aged, redisFaults, instanceCrashes>>

\* getUserClients: at most one means that this is the last.
CountClients(s) ==
  /\ removal[s] = "count"
  /\ Proceed(s, IF Cardinality(userClients) <= 1 THEN "last" ELSE "other")
  /\ missed' = (missed \/ \E t \in Sockets \ {s} : removal[t] \in {"last", "other"})
  /\ UNCHANGED <<link, records, cleaners, lateComers, aged, redisFaults, instanceCrashes>>

\* A count that fails is an empty list, and the removal goes on; the read of
\* the hash, or the pipeline, that fails ends it.
RemovalFails(s) ==
  /\ removal[s] \in {"info", "count", "last", "other"}
  /\ redisFaults < MaxRedisFaults /\ redisFaults' = redisFaults + 1
  /\ Proceed(s, IF removal[s] = "count" THEN "last" ELSE "done")
  /\ UNCHANGED <<link, records, cleaners, past, instanceCrashes>>

Remove(s) ==
  /\ removal[s] \in {"last", "other"}
  /\ clientHash' = clientHash \ {s} /\ userClients' = userClients \ {s}
  /\ listed' = (listed /\ removal[s] = "other")
  /\ Proceed(s, "done")
  /\ UNCHANGED <<link, cleaners, past, redisFaults, instanceCrashes>>

\* An instance dies, or shuts down: its sockets are gone and nothing is removed.
InstanceCrash(S) ==
  /\ instanceCrashes < MaxInstanceCrashes /\ instanceCrashes' = instanceCrashes + 1
  /\ link' = [s \in Sockets |-> IF s \in S /\ link[s] = "up" THEN "down" ELSE link[s]]
  /\ removal' = [s \in Sockets |-> IF s \in S /\ removal[s] # "no" THEN "done" ELSE removal[s]]
  /\ UNCHANGED <<records, cleaners, past, redisFaults>>

-----------------------------------------------------------------------------
(* Keys live for a day; only another connection renews the sets, that of the *)
(* company a connection of any of its users.                                 *)

HashExpires(s) ==
  /\ s \in clientHash
  /\ clientHash' = clientHash \ {s} /\ aged' = aged \cup {s}
  /\ UNCHANGED <<link, userClients, listed, removal, cleaners, lateComers, missed, redisFaults, instanceCrashes>>

SetsExpire ==
  /\ clientHash = {} /\ userClients # {} /\ userClients \subseteq aged
  /\ userClients' = {} /\ listed' \in {listed, FALSE}
  /\ missed' = (missed \/ listed')
  /\ UNCHANGED <<link, clientHash, removal, cleaners, lateComers, aged, redisFaults, instanceCrashes>>

-----------------------------------------------------------------------------
(* cleanupExpiredClients. *)

Clean(k, step) == cleaning' = [cleaning EXCEPT ![k] = step]

CleanStart(k) ==
  /\ cleaning[k] = "idle" /\ userClients # {}
  /\ Clean(k, "check") /\ toCheck' = [toCheck EXCEPT ![k] = userClients]
  /\ UNCHANGED <<link, records, removal, past, redisFaults, instanceCrashes>>

\* A socket without a hash is taken out.  No socket comes back, so that the
\* look and the removal are one step.
CleanSocket(k, s) ==
  /\ cleaning[k] = "check" /\ s \in toCheck[k]
  /\ toCheck' = [toCheck EXCEPT ![k] = @ \ {s}]
  /\ userClients' = IF s \in clientHash THEN userClients ELSE userClients \ {s}
  /\ missed' = (missed \/ \E t \in Sockets : removal[t] = "other")
  /\ UNCHANGED <<link, clientHash, listed, removal, cleaning, lateComers, aged, redisFaults, instanceCrashes>>

\* What remains is read again, and if it is nothing
CleanCount(k) ==
  /\ cleaning[k] = "check" /\ toCheck[k] = {}
  /\ Clean(k, IF userClients = {} THEN "wipe" ELSE "idle")
  /\ UNCHANGED <<link, records, removal, toCheck, past, redisFaults, instanceCrashes>>

\* the user leaves every company's set, and the key is deleted.
CleanWipe(k) ==
  /\ cleaning[k] = "wipe"
  /\ listed' = FALSE /\ userClients' = {}
  /\ Clean(k, "idle")
  /\ UNCHANGED <<link, clientHash, removal, toCheck, past, redisFaults, instanceCrashes>>

-----------------------------------------------------------------------------
SocketStep(s) == \/ Connect(s) \/ Disconnect(s) \/ ReadInfo(s) \/ CountClients(s)
                 \/ RemovalFails(s) \/ Remove(s) \/ HashExpires(s)
CleanerStep(k) == CleanStart(k) \/ (\E s \in Sockets : CleanSocket(k, s)) \/ CleanCount(k) \/ CleanWipe(k)

RegistryNext ==
  \/ \E s \in Sockets : SocketStep(s)
  \/ \E k \in Cleaners : CleanerStep(k)
  \/ \E S \in SUBSET Sockets \ {{}} : InstanceCrash(S)
  \/ SetsExpire

RegistrySpec == RegistryInit /\ [][RegistryNext]_registryVars

-----------------------------------------------------------------------------
(* Properties. *)

\* A user with a socket is reached by the company's messages, whatever leaves,
\* crashes or is cleaned at the same time, as long as no socket connected in
\* the middle of an unlisting, none is older than a day and no count failed.
ConnectedIsReached ==
  Connected # {} /\ lateComers = {} /\ aged = {} /\ redisFaults = 0 => listed

\* With that, the user's set holds every socket that is connected: the count
\* of a removal never misses one.
ConnectedIsCounted ==
  lateComers = {} /\ aged = {} => Connected \subseteq userClients \cap clientHash

\* A user whose last socket is gone from the records is not left in the
\* company's set, unless a removal counted a socket that was about to go, a call
\* failed, or the company's set outlived the user's.
GoneIsUnlisted ==
  userClients = {} /\ listed
    => missed \/ redisFaults > 0 \/ (\E s \in Sockets : removal[s] \in {"last", "other"})
         \/ (\E k \in Cleaners : cleaning[k] # "idle")

\* The registry of a user's sockets follows the sockets: those connected are
\* reached and counted, and a user who left is unlisted.
RegistrySound == RegistryTypeOK /\ ConnectedIsReached /\ ConnectedIsCounted /\ GoneIsUnlisted
=============================================================================
