----------------------------- MODULE AiConnections -----------------------------
(***************************************************************************)
(* One chain of AI connections in one process: the snapshot the resolver   *)
(* keeps of it, the cooldown of links that failed, and the calls that walk *)
(* the chain.  The four kinds of call walk it in four ways; a connection   *)
(* type belongs to one kind, so the calls of a behaviour are all of one    *)
(* kind (caller).                                                          *)
(* Calls meet in the cooldowns only: those outside AiCalls, as many as     *)
(* there may be, are what else puts a link in its cooldown.                *)
(***************************************************************************)
EXTENDS Integers, FiniteSets, Sequences, SequencesExt

CONSTANTS Links,            \* connections of the chain
          Env,              \* the .env block
          AiCalls,
          MaxRefreshes,     \* bound: snapshots that differ from the one before
          MaxCooled         \* bound: cooldowns that end

ASSUME AiAssumption == Env \notin Links /\ MaxRefreshes \in Nat /\ MaxCooled \in Nat

Callers == {"chat", "vision", "image", "embedder"}
Chains == SetToAllKPermutations(Links)

VARIABLES snapshot,         \* the enabled links by position, as the resolver last read them
          cooling,          \* links in their cooldown
          caller,           \* the kind of the calls
          calling,          \* [AiCalls -> step]
          ownChain,         \* [AiCalls -> the candidates it resolved at its start]
          tries,            \* [AiCalls -> attempts that failed]
          servedBy,         \* [AiCalls -> link of its last attempt]
          failedLinks,      \* [AiCalls -> links that failed it]
          shifted,          \* history: calls during which the chain changed or a link came back
          spared,           \* history: calls that gave up while the .env block was parked
          refreshed, cooled

aiVars == <<snapshot, cooling, caller, calling, ownChain, tries, servedBy, failedLinks, shifted,
            spared, refreshed, cooled>>

AiTypeOK ==
  /\ snapshot \in Chains /\ cooling \subseteq Links \cup {Env} /\ caller \in Callers
  /\ calling \in [AiCalls -> {"new", "asking", "waiting", "answered", "refused", "gaveUp"}]
  /\ \A c \in AiCalls : /\ Range(ownChain[c]) \subseteq Links \cup {Env}
                        /\ failedLinks[c] \subseteq Links \cup {Env}
  /\ servedBy \in [AiCalls -> Links \cup {Env}] /\ tries \in [AiCalls -> 0..5]
  /\ shifted \subseteq AiCalls /\ spared \subseteq AiCalls
  /\ refreshed \in 0..MaxRefreshes /\ cooled \in 0..MaxCooled

AiInit ==
  /\ snapshot \in Chains /\ cooling = {} /\ caller \in Callers
  /\ calling = [c \in AiCalls |-> "new"] /\ ownChain = [c \in AiCalls |-> <<>>]
  /\ tries = [c \in AiCalls |-> 0] /\ servedBy = [c \in AiCalls |-> Env]
  /\ failedLinks = [c \in AiCalls |-> {}]
  /\ shifted = {} /\ spared = {}
  /\ refreshed = 0 /\ cooled = 0

Least(a, b) == IF a <= b THEN a ELSE b
UnderWay == {c \in AiCalls : calling[c] \in {"asking", "waiting"}}

calls == <<caller, calling, ownChain, tries, servedBy, failedLinks, spared>>

-----------------------------------------------------------------------------
(* The resolver. *)

\* refreshNow: after an edit, every 60 seconds, at boot.  Reads that overlap may
\* install an older chain after a newer one, so any chain may follow any other.
RefreshChain(chain) ==
  /\ refreshed < MaxRefreshes /\ chain # snapshot
  /\ refreshed' = refreshed + 1
  /\ snapshot' = chain
  /\ shifted' = shifted \cup UnderWay
  /\ UNCHANGED <<cooling, calls, cooled>>

LinkCools(l) ==
  /\ l \in cooling /\ cooled < MaxCooled
  /\ cooled' = cooled + 1
  /\ cooling' = cooling \ {l}
  /\ shifted' = shifted \cup UnderWay
  /\ UNCHANGED <<snapshot, calls, refreshed>>

\* A call outside AiCalls blames the link.
BlamedElsewhere(l) ==
  /\ l \notin cooling
  /\ cooling' = cooling \cup {l}
  /\ UNCHANGED <<snapshot, calls, shifted, refreshed, cooled>>

-----------------------------------------------------------------------------
(* Calls. *)

\* The links of the chain that are not in hot, in their order.
Healthy(chain, hot) ==
  LET left == {i \in DOMAIN chain : chain[i] \notin hot}
      At(n) == CHOOSE i \in left : Cardinality({j \in left : j <= i}) = n
  IN [n \in 1..Cardinality(left) |-> chain[At(n)]]

\* The links in service when those of hot are parked: all of them if none is left.
InService(hot) ==
  LET all == snapshot \o <<Env>>
      healthy == Healthy(all, hot)
  IN IF healthy = <<>> THEN all ELSE healthy

\* The n-th link, or the last one when there are fewer.
LinkAt(chain, n) == chain[Least(n, Len(chain))]

\* The link an attempt is sent to: only an image call keeps to the chain it resolved;
\* the others resolve again, a chat or a vision call with the number of the attempt.
Picked(own, hot, failed) ==
  CASE caller = "image" -> LinkAt(own, failed + 1)
    [] caller = "chat" -> LinkAt(InService(hot), Least(failed + 1, Len(own)))
    [] caller = "vision" -> LinkAt(InService(hot), failed + 1)
    [] OTHER -> InService(hot)[1]

\* The link a failed attempt puts in its cooldown.
Blamed(c) ==
  CASE caller \in {"image", "chat"} -> LinkAt(ownChain[c], tries[c] + 1)
    [] caller = "vision" -> LinkAt(InService(cooling), tries[c] + 1)
    [] OTHER -> InService(cooling)[1]

Budget(c) ==
  CASE caller = "chat" -> Least(6, IF Len(ownChain[c]) > 3 THEN Len(ownChain[c]) ELSE 3)
    [] caller = "embedder" -> IF Len(InService(cooling)) < 2 /\ tries[c] = 0 THEN 1 ELSE 2
    [] OTHER -> 5

StartCall(c) ==
  /\ calling[c] = "new"
  /\ calling' = [calling EXCEPT ![c] = "asking"]
  /\ ownChain' = [ownChain EXCEPT ![c] = InService(cooling)]
  /\ servedBy' = [servedBy EXCEPT ![c] = Picked(InService(cooling), cooling, 0)]
  /\ UNCHANGED <<snapshot, cooling, caller, tries, failedLinks, shifted, spared,
                 refreshed, cooled>>

LinkAnswers(c) ==
  /\ calling[c] = "asking"
  /\ calling' = [calling EXCEPT ![c] = "answered"]
  /\ UNCHANGED <<snapshot, cooling, caller, ownChain, tries, servedBy,
                 failedLinks, shifted, spared, refreshed, cooled>>

\* An error that is not transient ends the call.
LinkRefuses(c) ==
  /\ calling[c] = "asking"
  /\ calling' = [calling EXCEPT ![c] = "refused"]
  /\ UNCHANGED <<snapshot, cooling, caller, ownChain, tries, servedBy,
                 failedLinks, shifted, spared, refreshed, cooled>>

\* Mutant: nobody is parked.
ParkedNobody(c) == cooling

\* The last attempt of a chat call or of an embedding blames nobody.
Parked(c) ==
  IF caller \in {"chat", "embedder"} /\ tries[c] + 1 >= Budget(c) THEN cooling
  ELSE cooling \cup {Blamed(c)}

\* A transient failure.  An embedding is sent to the next link at once, in the
\* same synchronous step; the other calls wait first.
ConnectionFails(c) ==
  LET hot == Parked(c)
  IN /\ calling[c] = "asking"
     /\ cooling' = hot
     /\ failedLinks' = [failedLinks EXCEPT ![c] = @ \cup {servedBy[c]}]
     /\ IF tries[c] + 1 >= Budget(c)
        THEN /\ calling' = [calling EXCEPT ![c] = "gaveUp"]
             /\ spared' = IF Env \in hot THEN spared \cup {c} ELSE spared
             /\ UNCHANGED <<tries, servedBy>>
        ELSE /\ tries' = [tries EXCEPT ![c] = @ + 1]
             /\ calling' = [calling EXCEPT ![c] = IF caller = "embedder" THEN @ ELSE "waiting"]
             /\ servedBy' = IF caller # "embedder" THEN servedBy
                            ELSE [servedBy EXCEPT ![c] = Picked(ownChain[c], hot, tries[c] + 1)]
             /\ UNCHANGED spared
     /\ UNCHANGED <<snapshot, caller, ownChain, shifted, refreshed, cooled>>

TryAgain(c) ==
  /\ calling[c] = "waiting"
  /\ calling' = [calling EXCEPT ![c] = "asking"]
  /\ servedBy' = [servedBy EXCEPT ![c] = Picked(ownChain[c], cooling, tries[c])]
  /\ UNCHANGED <<snapshot, cooling, caller, ownChain, tries, failedLinks,
                 shifted, spared, refreshed, cooled>>

\* The rates a call is charged at are those of the candidate of its own chain.
BilledAt(c) == LinkAt(ownChain[c], tries[c] + 1)

-----------------------------------------------------------------------------
AiNext ==
  \/ \E chain \in Chains : RefreshChain(chain)
  \/ \E l \in Links \cup {Env} : LinkCools(l) \/ BlamedElsewhere(l)
  \/ \E c \in AiCalls : \/ StartCall(c) \/ LinkAnswers(c) \/ LinkRefuses(c) \/ ConnectionFails(c)
                        \/ TryAgain(c)

AiSpec == AiInit /\ [][AiNext]_aiVars

-----------------------------------------------------------------------------
(* Properties. *)

\* A call gives up only after it tried the .env block, the end of every chain,
\* unless that was parked, or the chain moved under it.
LastLinkReached ==
  \A c \in AiCalls \ (shifted \cup spared) :
    caller # "embedder" /\ calling[c] = "gaveUp" => Env \in failedLinks[c]

\* An embedding is repeated on another link than the one that failed, whoever
\* else fails meanwhile, unless the chain moved or everything is parked.
RetriedElsewhere ==
  \A c \in AiCalls \ shifted :
    caller = "embedder" /\ calling[c] = "asking" /\ tries[c] = 1 =>
      servedBy[c] \notin failedLinks[c] \/ Range(snapshot) \cup {Env} \subseteq cooling

\* An image call is charged at the rates of the link that answered, however many
\* failed; a chat call when its first attempt answered.
BilledIsServing ==
  \A c \in AiCalls :
    /\ calling[c] = "answered"
    /\ caller = "image" \/ (caller = "chat" /\ tries[c] = 0)
    => BilledAt(c) = servedBy[c]

\* A call moves along its chain: to the end before it gives up, away from the
\* link that failed, and to the account of the link that answered.
FailoverSound == AiTypeOK /\ LastLinkReached /\ RetriedElsewhere /\ BilledIsServing
=============================================================================
