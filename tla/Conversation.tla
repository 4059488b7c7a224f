------------------------------ MODULE Conversation ------------------------------
(***************************************************************************)
(* The messages of one assistant thread and the positions they are stored  *)
(* at, under requests that overlap and fail.  A turn reads the end of the  *)
(* thread before it stores its question and runs for minutes before it     *)
(* stores the answer; a resolution reads the end after its run.            *)
(*                                                                         *)
(* A turn of the responder is one of the operator that does not freeze.    *)
(* What an action goes through once it is resolved is told in              *)
(* OperatorApprovals.                                                      *)
(***************************************************************************)
EXTENDS Integers, FiniteSetsExt

CONSTANTS Requests,
          FirstRequest,            \* the one that starts the thread
          MaxPriors,               \* MAX_MESSAGES_TO_LLM
          MaxConversationFaults    \* bound on failures

ASSUME ConversationAssumption ==
  FirstRequest \in Requests /\ MaxPriors \in Nat /\ MaxConversationFaults \in Nat

VARIABLES messages,     \* the thread's messages
          action,       \* [Requests -> the action that the request created]
          request,      \* [Requests -> progress]
          resolves,     \* [Requests -> the actions that the request resolves, by their creator]
          place,        \* [Requests -> the position read from the thread's end]
          frozen,       \* requests whose run was frozen
          priors,       \* [Requests -> messages given to the agent]
          endedBefore,        \* history: [Requests -> requests that had ended when it began]
          conversationFaults

conversationVars == <<messages, action, request, resolves, place, frozen, priors, endedBefore, conversationFaults>>

Messages == [by : Requests, kind : {"question", "answer", "approval"}, position : Nat]

ConversationTypeOK ==
  /\ messages \subseteq Messages
  /\ action \in [Requests -> {"none", "pending", "resolved", "failed"}]
  /\ request \in [Requests -> {"idle", "load", "end", "ask", "run", "answer", "freeze", "done", "failed"}]
  /\ resolves \in [Requests -> SUBSET Requests]
  /\ place \in [Requests -> Nat]
  /\ frozen \subseteq Requests
  /\ priors \in [Requests -> SUBSET Messages]
  /\ endedBefore \in [Requests -> SUBSET Requests]
  /\ conversationFaults \in 0..MaxConversationFaults

ConversationInit ==
  /\ messages = {}
  /\ action = [r \in Requests |-> "none"] /\ request = [r \in Requests |-> "idle"]
  /\ resolves = [r \in Requests |-> {}] /\ place = [r \in Requests |-> 0]
  /\ frozen = {} /\ priors = [r \in Requests |-> {}]
  /\ endedBefore = [r \in Requests |-> {}]
  /\ conversationFaults = 0

-----------------------------------------------------------------------------
(* The thread. *)

\* Mutant: the number of messages, which is the end of a thread whose
\* positions are all different.
MessageCount == Cardinality(messages)

\* getNextPosition: the highest position and one, or 0 in an empty thread.
NextPosition == 1 + Max({-1} \cup {m.position : m \in messages})

\* The messages at the end of the thread, as many as the agent is given.
Recent(given) ==
  /\ given \subseteq messages
  /\ Cardinality(given) = IF Cardinality(messages) < MaxPriors THEN Cardinality(messages) ELSE MaxPriors
  /\ \A m \in given, n \in messages \ given : n.position <= m.position

StoreMessage(r, kind, position) ==
  messages' = messages \cup {[by |-> r, kind |-> kind, position |-> position]}

Goes(r, to) == request' = [request EXCEPT ![r] = to]

Begins(r) ==
  /\ request[r] = "idle"
  /\ endedBefore' = [endedBefore EXCEPT ![r] = {s \in Requests : request[s] \in {"done", "failed"}}]

-----------------------------------------------------------------------------
(* Turns and resolutions. *)

\* createWithFirstMessage: the thread is new, so its first position is known.
CreateFirst(r) ==
  /\ r = FirstRequest
  /\ Begins(r) /\ Goes(r, "ask")
  /\ UNCHANGED <<messages, action, resolves, place, frozen, priors, conversationFaults>>

\* appendMessage: the thread is there, its first question perhaps not yet.
AppendMessage(r) ==
  /\ request[FirstRequest] # "idle"
  /\ Begins(r) /\ Goes(r, "load")
  /\ UNCHANGED <<messages, action, resolves, place, frozen, priors, conversationFaults>>

\* resolveAction: whoever finds the action pending resolves it, the others are
\* told of a conflict.
Resolve(r, a) ==
  /\ action[a] = "pending"
  /\ Begins(r) /\ Goes(r, "load")
  /\ action' = [action EXCEPT ![a] = "resolved"]
  /\ resolves' = [resolves EXCEPT ![r] = {a}]
  /\ UNCHANGED <<messages, place, frozen, priors, conversationFaults>>

Resolving(r) == resolves[r] # {}

LoadPriors(r) ==
  /\ request[r] = "load"
  /\ \E given \in SUBSET messages : Recent(given) /\ priors' = [priors EXCEPT ![r] = given]
  /\ Goes(r, IF Resolving(r) THEN "run" ELSE "end")
  /\ UNCHANGED <<messages, action, resolves, place, frozen, endedBefore, conversationFaults>>

ReadEnd(r) ==
  /\ request[r] = "end"
  /\ place' = [place EXCEPT ![r] = NextPosition]
  /\ Goes(r, IF Resolving(r) THEN "answer" ELSE "ask")
  /\ UNCHANGED <<messages, action, resolves, frozen, priors, endedBefore, conversationFaults>>

\* The question takes the position read, the answer the next one.
StoreQuestion(r) ==
  /\ request[r] = "ask"
  /\ StoreMessage(r, "question", place[r])
  /\ place' = [place EXCEPT ![r] = @ + 1]
  /\ Goes(r, "run")
  /\ UNCHANGED <<action, resolves, frozen, priors, endedBefore, conversationFaults>>

\* The agent answers, or is frozen at a call that needs an approval.
Run(r) ==
  /\ request[r] = "run"
  /\ frozen' \in {frozen, frozen \cup {r}}
  /\ Goes(r, IF Resolving(r) THEN "end" ELSE "answer")
  /\ UNCHANGED <<messages, action, resolves, place, priors, endedBefore, conversationFaults>>

StoreAnswer(r) ==
  /\ request[r] = "answer"
  /\ StoreMessage(r, IF r \in frozen THEN "approval" ELSE "answer", place[r])
  /\ Goes(r, IF r \in frozen THEN "freeze" ELSE "done")
  /\ UNCHANGED <<action, resolves, place, frozen, priors, endedBefore, conversationFaults>>

\* The action is created once the message that asks for its approval is there.
CreateAction(r) ==
  /\ request[r] = "freeze"
  /\ action' = [action EXCEPT ![r] = "pending"]
  /\ Goes(r, "done")
  /\ UNCHANGED <<messages, resolves, place, frozen, priors, endedBefore, conversationFaults>>

Faulty(r) ==
  /\ conversationFaults < MaxConversationFaults
  /\ conversationFaults' = conversationFaults + 1
  /\ Goes(r, "failed")
  /\ UNCHANGED <<messages, resolves, place, frozen, priors, endedBefore>>

\* A resumed run that throws fails the action.
ResumeThrows(r) ==
  /\ request[r] = "run" /\ Resolving(r)
  /\ action' = [a \in Requests |-> IF a \in resolves[r] THEN "failed" ELSE action[a]]
  /\ Faulty(r)

\* A call throws, or the process dies: what was stored stays.
RequestThrows(r) ==
  /\ request[r] \notin {"idle", "done", "failed"}
  /\ Faulty(r) /\ UNCHANGED action

ConversationStep(r) ==
  \/ CreateFirst(r) \/ AppendMessage(r) \/ \E a \in Requests : Resolve(r, a)
  \/ LoadPriors(r) \/ ReadEnd(r) \/ StoreQuestion(r) \/ Run(r) \/ StoreAnswer(r)
  \/ CreateAction(r) \/ ResumeThrows(r) \/ RequestThrows(r)

ConversationNext == \E r \in Requests : ConversationStep(r)

ConversationSpec == ConversationInit /\ [][ConversationNext]_conversationVars

-----------------------------------------------------------------------------
(* Properties. *)

MessagesOf(r) == {m \in messages : m.by = r}

\* Whatever overlaps or fails, the thread has no hole: a reader that pages by
\* position misses nothing.
NoHoles == {m.position : m \in messages} = 0..(NextPosition - 1)

\* A question is stored before its answer, and requests that do not overlap in
\* the order in which they were made: only those that do can share a position.
StoredInOrder ==
  \A m, n \in messages :
    \/ n.by \in endedBefore[m.by]
    \/ n.by = m.by /\ n.kind = "question" /\ m # n
    => n.position < m.position

\* The agent is given what others said before, never the question it is asked,
\* and who resolves an action is given the message that asked for it, unless
\* enough was said at the same place or later.
GivenTheThread ==
  \A r \in Requests :
    /\ priors[r] \cap MessagesOf(r) = {}
    /\ \A a \in resolves[r] : request[r] \notin {"load", "failed"} =>
         \E m \in MessagesOf(a) : /\ m.kind = "approval"
                                  /\ \/ m \in priors[r]
                                     \/ /\ Cardinality(priors[r]) = MaxPriors
                                        /\ \A n \in priors[r] : n.position >= m.position

\* A request for approval can be answered, unless the request that stored it
\* failed before it had created the action; no action goes without one, and a
\* thread has one answer at most to each question.
AskedCanBeAnswered ==
  \A r \in Requests :
    LET asked == \E m \in MessagesOf(r) : m.kind = "approval"
    IN /\ asked /\ action[r] = "none" => request[r] \in {"freeze", "failed"}
       /\ action[r] # "none" => asked
       /\ Cardinality({m \in MessagesOf(r) : m.kind # "question"}) <= 1

ConversationSound ==
  ConversationTypeOK /\ NoHoles /\ StoredInOrder /\ GivenTheThread /\ AskedCanBeAnswered
=============================================================================
