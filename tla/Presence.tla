-------------------------------- MODULE Presence --------------------------------
(***************************************************************************)
(* The presence of one user: a JSON value in Redis that every connection,  *)
(* disconnection, heartbeat and sweep reads, changes and writes back.      *)
(*                                                                         *)
(* Time is what the code tells apart: how long ago the last activity was.  *)
(* It is measured in minutes, and does not pass between the read and the   *)
(* write of one call.                                                      *)
(***************************************************************************)
EXTENDS Integers, FiniteSets

CONSTANTS Connections,               \* sockets of the user
          Beats, Sweeps,       \* heartbeats under way, runs of markIdleUsersAsAway
          MaxPresenceCrashes   \* bound: instances that die with their sockets

ASSUME PresenceAssumption == MaxPresenceCrashes \in Nat

VARIABLES linked,              \* [Connections -> "new", "up", "down"]
          presence,            \* the value: sockets, stored status, age; no key: known FALSE
          call,                \* [calls -> "idle", "read" or "write"]
          seen,                \* [calls -> the value that was read]
          overwritten,         \* history: a write lost another one, or a socket left before
                               \* its setUserOnline was done
          sweptOff,            \* history: the sockets were emptied, or the key expired,
                               \* while one was connected
          instancesLost

Ages == {"recent", "idle", "stale"}      \* up to 2 minutes, up to 30, more
Statuses == {"online", "away", "offline"}

Values == [known : BOOLEAN, sockets : SUBSET Connections, status : Statuses, age : Ages]
NoValue == [known |-> FALSE, sockets |-> {}, status |-> "offline", age |-> "stale"]

Calls == {"join", "leave"} \X Connections \cup {"beat"} \X Beats \cup {"sweep"} \X Sweeps

PresenceTypeOK ==
  /\ linked \in [Connections -> {"new", "up", "down"}]
  /\ presence \in Values
  /\ call \in [Calls -> {"idle", "read", "write"}] /\ seen \in [Calls -> Values]
  /\ overwritten \in BOOLEAN /\ sweptOff \in BOOLEAN
  /\ instancesLost \in 0..MaxPresenceCrashes

presenceVars == <<linked, presence, call, seen, overwritten, sweptOff, instancesLost>>

PresenceInit ==
  /\ linked = [s \in Connections |-> "new"]
  /\ presence = NoValue
  /\ call = [c \in Calls |-> "idle"] /\ seen = [c \in Calls |-> NoValue]
  /\ overwritten = FALSE /\ sweptOff = FALSE /\ instancesLost = 0

Up == {s \in Connections : linked[s] = "up"}
Calm == \A c \in Calls : call[c] = "idle"

-----------------------------------------------------------------------------
(* The calls begin. *)

Begin(c) == call[c] = "idle" /\ call' = [call EXCEPT ![c] = "read"]

\* handleConnection: setUserOnline.
Join(s) ==
  /\ linked[s] = "new"
  /\ linked' = [linked EXCEPT ![s] = "up"]
  /\ Begin(<<"join", s>>)
  /\ UNCHANGED <<presence, seen, overwritten, sweptOff, instancesLost>>

\* handleDisconnect: setUserOffline, whether setUserOnline is done or not.
Leave(s) ==
  /\ linked[s] = "up"
  /\ linked' = [linked EXCEPT ![s] = "down"]
  /\ Begin(<<"leave", s>>)
  /\ overwritten' = (overwritten \/ call[<<"join", s>>] # "idle")
  /\ UNCHANGED <<presence, seen, sweptOff, instancesLost>>

\* handleHeartbeat of a socket: updateActivity.
Heartbeat(h) ==
  /\ Up # {}
  /\ Begin(<<"beat", h>>)
  /\ UNCHANGED <<linked, presence, seen, overwritten, sweptOff, instancesLost>>

\* The cron: markIdleUsersAsAway.
Sweep(w) ==
  /\ presence.known
  /\ Begin(<<"sweep", w>>)
  /\ UNCHANGED <<linked, presence, seen, overwritten, sweptOff, instancesLost>>

-----------------------------------------------------------------------------
(* The read, and whether there is anything to write. *)

\* The sweep marks a user idle, or takes one off who was idle for too long.
SweepDue(p) ==
  p.sockets # {} /\ (\/ p.age = "idle" /\ p.status # "away"
                     \/ p.age = "stale" /\ p.status # "offline")

\* Without a value only a connection has something to write.
Writes(c, p) == \/ c[1] = "join"
                \/ p.known /\ c[1] \in {"leave", "beat"}
                \/ p.known /\ c[1] = "sweep" /\ SweepDue(p)

ReadPresence(c) ==
  /\ call[c] = "read"
  /\ IF Writes(c, presence)
       THEN call' = [call EXCEPT ![c] = "write"] /\ seen' = [seen EXCEPT ![c] = presence]
       ELSE call' = [call EXCEPT ![c] = "idle"] /\ UNCHANGED seen
  /\ UNCHANGED <<linked, presence, overwritten, sweptOff, instancesLost>>

-----------------------------------------------------------------------------
(* What each call makes of the value it has read. *)

\* Mutant: the other sockets are forgotten.
Replaced(s, p) == [known |-> TRUE, sockets |-> {s}, status |-> "online", age |-> "recent"]

Joined(s, p) == [known |-> TRUE, sockets |-> p.sockets \cup {s}, status |-> "online", age |-> "recent"]

Left(s, p) ==
  LET rest == p.sockets \ {s}
  IN IF rest = {} THEN [p EXCEPT !.sockets = {}, !.status = "offline", !.age = "recent"]
                  ELSE [p EXCEPT !.sockets = rest]

Beaten(p) == [p EXCEPT !.status = "online", !.age = "recent"]

Swept(p) == IF p.age = "idle" THEN [p EXCEPT !.status = "away"]
                              ELSE [p EXCEPT !.status = "offline", !.sockets = {}]

Changed(c, p) == CASE c[1] = "join"  -> Joined(c[2], p)
                   [] c[1] = "leave" -> Left(c[2], p)
                   [] c[1] = "beat"  -> Beaten(p)
                   [] c[1] = "sweep" -> Swept(p)

\* The write takes no notice of what was written since the read.
WritePresence(c) ==
  /\ call[c] = "write"
  /\ presence' = Changed(c, seen[c])
  /\ overwritten' = (overwritten \/ presence # seen[c])
  /\ sweptOff' = (sweptOff \/ (c[1] = "sweep" /\ seen[c].age = "stale" /\ Up # {}))
  /\ call' = [call EXCEPT ![c] = "idle"] /\ seen' = [seen EXCEPT ![c] = NoValue]
  /\ UNCHANGED <<linked, instancesLost>>

-----------------------------------------------------------------------------
(* Time and crashes. *)

\* A call that has begun is done within minutes.
Older(age) == IF age = "recent" THEN "idle" ELSE "stale"

TimePasses ==
  /\ presence.known /\ presence.age # "stale" /\ Calm
  /\ presence' = [presence EXCEPT !.age = Older(@)]
  /\ UNCHANGED <<linked, call, seen, overwritten, sweptOff, instancesLost>>

\* The key lives for 35 minutes after the last write.
KeyExpires ==
  /\ presence.known /\ presence.age = "stale" /\ Calm
  /\ presence' = NoValue
  /\ sweptOff' = (sweptOff \/ Up # {})
  /\ UNCHANGED <<linked, call, seen, overwritten, instancesLost>>

PresenceCrash(S) ==
  /\ instancesLost < MaxPresenceCrashes /\ instancesLost' = instancesLost + 1
  /\ linked' = [s \in Connections |-> IF s \in S /\ linked[s] = "up" THEN "down" ELSE linked[s]]
  /\ call' = [c \in Calls |-> IF c[1] \in {"join", "leave"} /\ c[2] \in S THEN "idle" ELSE call[c]]
  /\ seen' = [c \in Calls |-> IF c[1] \in {"join", "leave"} /\ c[2] \in S THEN NoValue ELSE seen[c]]
  /\ UNCHANGED <<presence, overwritten, sweptOff>>

-----------------------------------------------------------------------------
PresenceNext ==
  \/ \E s \in Connections : Join(s) \/ Leave(s)
  \/ \E h \in Beats : Heartbeat(h)
  \/ \E w \in Sweeps : Sweep(w)
  \/ \E c \in Calls : ReadPresence(c) \/ WritePresence(c)
  \/ TimePasses \/ KeyExpires
  \/ \E S \in SUBSET Connections \ {{}} : PresenceCrash(S)

PresenceSpec == PresenceInit /\ [][PresenceNext]_presenceVars

-----------------------------------------------------------------------------
(* Properties. *)

\* Once no call is under way, the value holds the sockets that are connected,
\* unless a write lost another one, a socket left before it was written, the
\* sweep or the expiry took the user off, or an instance died.
PresenceKnowsSockets ==
  Calm /\ ~overwritten /\ ~sweptOff /\ instancesLost = 0
    => presence.sockets = Up

\* The value of a user's presence has its form and knows its sockets.
PresenceSound == PresenceTypeOK /\ PresenceKnowsSockets
=============================================================================
