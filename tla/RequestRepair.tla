----------------------------- MODULE RequestRepair -----------------------------
(***************************************************************************)
(* Requests to one LLM deployment that refuses some parameters.  A refusal *)
(* teaches the process a verdict, which is applied to this request and to  *)
(* every later one.  Other requests learn while one waits for its answer.  *)
(*                                                                         *)
(* "effort" stands for reasoning.effort, whose two values replace one      *)
(* another; "cap" for max_tokens, which is renamed to "newCap"; "tools"    *)
(* for the parameters that are never dropped.                              *)
(***************************************************************************)
EXTENDS Integers, FiniteSets, Sequences

CONSTANTS Attempts,         \* requests to the deployment
          MaxRepairs,    \* MAX_REPAIRS
          MaxUnknown     \* bound: parameters the deployment does not know

ASSUME RepairAssumption == MaxRepairs \in Nat /\ MaxUnknown \in Nat

VARIABLES deployment,           \* what it refuses; it does not change
          verdict, taught,      \* [Params -> verdict], the order in which they were learned
          wanted, sent,         \* [Attempts -> parameters asked for, parameters sent]
          progress, repairs,    \* [Attempts -> progress, repairs made]
          stuck                 \* history: requests sent again unchanged

Params == {"effort", "cap", "newCap", "tools"}
Efforts == {"none", "minimal"}
Absent == "absent"

repairVars == <<deployment, verdict, taught, wanted, sent, progress, repairs, stuck>>

Bodies == [Params -> Efforts \cup {"set", Absent}]

\* What callers ask for: an effort, a cap, tools or none.
Asks == {b \in Bodies : /\ b["effort"] \in Efforts /\ b["newCap"] = Absent
                        /\ b["cap"] = "set" /\ b["tools"] \in {"set", Absent}}

Unlearned == [scope |-> "nothing", values |-> {}]
Verdicts == [scope : {"nothing", "parameter", "values", "clash"}, values : SUBSET (Efforts \cup {"set"})]

RepairTypeOK ==
  /\ verdict \in [Params -> Verdicts]
  /\ taught \in Seq(Params)
  /\ wanted \in [Attempts -> Bodies] /\ sent \in [Attempts -> Bodies]
  /\ progress \in [Attempts -> {"new", "sent", "accepted", "refused"}]
  /\ repairs \in [Attempts -> 0..MaxRepairs] /\ stuck \subseteq Attempts

\* A deployment does not know some parameters, refuses some efforts, and may
\* refuse an effort next to tools.  The new name of the cap is met only by those
\* that do not know the old one.
Deployments ==
  {d \in [unknown : SUBSET Params, efforts : SUBSET Efforts, clash : BOOLEAN] :
     /\ Cardinality(d.unknown \ {"newCap"}) <= MaxUnknown
     /\ "newCap" \in d.unknown => "cap" \in d.unknown
     /\ "effort" \in d.unknown => d.efforts = {} /\ ~d.clash}

RepairInit ==
  /\ deployment \in Deployments
  /\ verdict = [p \in Params |-> Unlearned] /\ taught = <<>>
  /\ wanted = [c \in Attempts |-> [p \in Params |-> Absent]] /\ sent = wanted
  /\ progress = [c \in Attempts |-> "new"] /\ repairs = [c \in Attempts |-> 0]
  /\ stuck = {}

-----------------------------------------------------------------------------
(* The verdicts. *)

Refusals(b) ==
  {<<p, "parameter">> : p \in {q \in deployment.unknown : b[q] # Absent}}
  \cup {r \in {<<"effort", "values">>} : b["effort"] \in deployment.efforts}
  \cup {r \in {<<"effort", "clash">>} : /\ deployment.clash
                                        /\ b["effort"] # Absent /\ b["tools"] # Absent}

\* VALUE_SUCCESSORS: the other spelling of "as little thinking as possible".
Sibling(e) == IF e = "none" THEN "minimal" ELSE "none"

\* A verdict covers the requests that it was given for.
Covers(d, p, b) ==
  /\ b[p] # Absent
  /\ \/ d.scope = "parameter"
     \/ d.scope = "values" /\ b[p] \in d.values
     \/ d.scope = "clash" /\ b["tools"] # Absent

Substitutes(d, p, b) == d.scope = "values" /\ p = "effort" /\ Sibling(b[p]) \notin d.values

\* One verdict applied to a request: another value, another name, or nothing.
Repaired(d, p, b) ==
  IF ~Covers(d, p, b) THEN b
  ELSE IF Substitutes(d, p, b) THEN [b EXCEPT ![p] = Sibling(@)]
  ELSE IF p = "cap" THEN [b EXCEPT !["cap"] = Absent, !["newCap"] = b["cap"]]
  ELSE [b EXCEPT ![p] = Absent]

\* applyLearned: every verdict, in the order in which its parameter was first
\* refused.  There are three at most, since what is never dropped is not learned.
Applied(verdicts, order, b) ==
  LET With(n, x) == IF n > Len(order) THEN x ELSE Repaired(verdicts[order[n]], order[n], x)
  IN With(3, With(2, With(1, b)))

\* Mutant: the refusal of one value is remembered as the parameter's.
AlwaysParameter(p, scope, b) == [scope |-> "parameter", values |-> {}]

\* What readVerdict makes of a refusal of the request.
Verdict(p, scope, b) == [scope |-> scope, values |-> IF scope = "values" THEN {b[p]} ELSE {}]

\* rememberVerdict: the broader of two verdicts stays.  Of a refused value and
\* a clash, neither of which covers the other, the one known first stays.
Merged(old, new) ==
  IF old.scope = "nothing" \/ new.scope = "parameter" THEN new
  ELSE IF old.scope = "values" /\ new.scope = "values"
         THEN [old EXCEPT !.values = @ \cup new.values]
  ELSE old

-----------------------------------------------------------------------------
(* The requests. *)

\* What is known already is applied before the first attempt.
Send(c, b) ==
  /\ progress[c] = "new"
  /\ progress' = [progress EXCEPT ![c] = "sent"]
  /\ wanted' = [wanted EXCEPT ![c] = b]
  /\ sent' = [sent EXCEPT ![c] = Applied(verdict, taught, b)]
  /\ UNCHANGED <<deployment, verdict, taught, repairs, stuck>>

\* Anything but a refusal is the caller's answer.
Accept(c) ==
  /\ progress[c] = "sent" /\ Refusals(sent[c]) = {}
  /\ progress' = [progress EXCEPT ![c] = "accepted"]
  /\ UNCHANGED <<deployment, verdict, taught, wanted, sent, repairs, stuck>>

\* A refusal is learned, and the request is sent again with all that is known.
Repair(c, p, scope) ==
  LET verdicts == [verdict EXCEPT ![p] = Merged(@, Verdict(p, scope, sent[c]))]
      order == IF verdict[p].scope = "nothing" THEN Append(taught, p) ELSE taught
      again == Applied(verdicts, order, sent[c])
  IN /\ progress[c] = "sent" /\ repairs[c] < MaxRepairs
     /\ p # "tools" /\ <<p, scope>> \in Refusals(sent[c])
     /\ verdict' = verdicts /\ taught' = order
     /\ sent' = [sent EXCEPT ![c] = again]
     /\ repairs' = [repairs EXCEPT ![c] = @ + 1]
     /\ stuck' = IF again = sent[c] THEN stuck \cup {c} ELSE stuck
     /\ UNCHANGED <<deployment, wanted, progress>>

\* A refusal of what is never dropped, or one too many, is handed back.
HandBack(c) ==
  /\ progress[c] = "sent" /\ Refusals(sent[c]) # {}
  /\ <<"tools", "parameter">> \in Refusals(sent[c]) \/ repairs[c] = MaxRepairs
  /\ progress' = [progress EXCEPT ![c] = "refused"]
  /\ UNCHANGED <<deployment, verdict, taught, wanted, sent, repairs, stuck>>

RepairStep(c) ==
  \/ \E b \in Asks : Send(c, b)
  \/ Accept(c) \/ HandBack(c)
  \/ \E p \in Params, scope \in {"parameter", "values", "clash"} : Repair(c, p, scope)

RepairNext == \E c \in Attempts : RepairStep(c)

RepairSpec == RepairInit /\ [][RepairNext]_repairVars

-----------------------------------------------------------------------------
(* Properties. *)

\* The deployment would refuse the effort whatever is done to it.
Hopeless(b) == \/ "effort" \in deployment.unknown \/ deployment.efforts = Efforts
               \/ deployment.clash /\ b["tools"] # Absent

\* Nothing a caller asked for is lost that the deployment would have taken:
\* learning from one request never costs another one a parameter.
IntentKept ==
  \A c \in Attempts :
    LET lost(p) == wanted[c][p] # Absent /\ sent[c][p] = Absent
    IN progress[c] # "new" =>
         /\ lost("effort") => Hopeless(wanted[c])
         /\ ~lost("tools")
         /\ lost("cap") => /\ "cap" \in deployment.unknown
                           /\ sent[c]["newCap"] = Absent => "newCap" \in deployment.unknown
         /\ sent[c]["effort"] \notin {wanted[c]["effort"], Absent}
              => wanted[c]["effort"] \in deployment.efforts

\* A request is refused in the end only for what is never dropped, or because
\* the deployment refuses the effort both for its value and next to tools,
\* which the process cannot remember together.
RefusedForCause ==
  \A c \in Attempts :
    /\ progress[c] = "refused" => "tools" \in deployment.unknown \/ c \in stuck
    /\ c \in stuck => deployment.clash /\ deployment.efforts # {}

\* What is known is not asked again: a request to which the verdicts were
\* applied runs into none of them, unless a rename brings a parameter back
\* that was refused before.
KnownIsNotSent ==
  \A p \in {taught[i] : i \in DOMAIN taught} \ {"newCap"} :
    \A b \in Asks : ~Covers(verdict[p], p, Applied(verdict, taught, b))

\* A refusal costs the requests that run into it no more than what was refused,
\* and each of them one attempt at most: the process learns neither too much
\* nor too little.
RepairsSound == RepairTypeOK /\ IntentKept /\ RefusedForCause /\ KnownIsNotSent
=============================================================================
