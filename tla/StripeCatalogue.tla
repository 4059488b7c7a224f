----------------------------- MODULE StripeCatalogue -----------------------------
(***************************************************************************)
(* The products and prices on offer.  Stripe holds them and the graph      *)
(* holds a copy, which also says what Stripe does not know of a price: its *)
(* tokens, its features, whether it is the trial's.  An administrator's    *)
(* request changes Stripe and then the copy; a synchronisation, which an   *)
(* application calls when Stripe tells it of a change, retrieves and       *)
(* writes the copy.  No request waits for another one.                     *)
(*                                                                         *)
(* A field's value goes with the edition of that field in Stripe and with  *)
(* who made it, which the properties compare and the code does not have.   *)
(***************************************************************************)
EXTENDS Integers

CONSTANTS CatalogueRequests,
          Product, Plans,         \* a product and its prices
          Dashboard,              \* who works in Stripe itself
          MaxDashboard,           \* bound: changes made there
          MaxCatalogueFaults      \* bound: requests that fail on the way

Items == Plans \cup {Product}
Fields == {"name", "active"}
Authors == CatalogueRequests \cup {Dashboard}

ASSUME CatalogueAssumption == /\ Product \notin Plans /\ Dashboard \notin CatalogueRequests
                              /\ MaxDashboard \in Nat /\ MaxCatalogueFaults \in Nat

VARIABLES offered,          \* [Items -> [Fields -> value]]: what Stripe has
          copied,           \* [Items -> [Fields -> value]]: what the graph has
          allowance,        \* prices whose copy says what they give
          underway,         \* [CatalogueRequests -> the request and where it is]
          author,           \* history: [Items -> who created it in Stripe]
          outrun,           \* history: copied fields an older edition was written over
          dashboards, catalogueFaults

catalogueVars == <<offered, copied, allowance, underway, author, outrun, dashboards, catalogueFaults>>

CatalogueOperations == {"create", "update", "archive", "reactivate", "sync"}
Steps == {"new", "stripe", "graph", "retrieve", "find", "refresh", "insert", "done", "failed"}
Values == [is : {"none", "given", "yes", "no"}, at : Nat, by : Authors]

CatalogueTypeOK ==
  /\ offered \in [Items -> [Fields -> Values]] /\ copied \in [Items -> [Fields -> Values]]
  /\ allowance \subseteq Plans
  /\ underway \in [CatalogueRequests -> [step : Steps, op : CatalogueOperations, item : Items, behind : Items,
                                         saw : [Fields -> Values], kept : [Fields -> Values]]]
  /\ author \in [Items -> Authors]
  /\ outrun \subseteq Items \X Fields
  /\ dashboards \in 0..MaxDashboard /\ catalogueFaults \in 0..MaxCatalogueFaults

NotMade == [f \in Fields |-> [is |-> "none", at |-> 0, by |-> Dashboard]]
Original == [f \in Fields |-> [is |-> IF f = "name" THEN "given" ELSE "yes", at |-> 1, by |-> Dashboard]]

NotAsked == [step |-> "new", op |-> "sync", item |-> Product, saw |-> NotMade,
            behind |-> Product, kept |-> NotMade]

\* Nothing yet, the product, or all of it, as an earlier request left it.
CatalogueInit ==
  /\ \E earlier \in {{}, {Product}, Items} :
        /\ offered = [i \in Items |-> IF i \in earlier THEN Original ELSE NotMade]
        /\ allowance = earlier \cap Plans
  /\ copied = offered
  /\ underway = [r \in CatalogueRequests |-> NotAsked]
  /\ author = [i \in Items |-> Dashboard]
  /\ outrun = {}
  /\ dashboards = 0 /\ catalogueFaults = 0

Made(i) == offered[i]["active"].at > 0
Recorded(i) == copied[i]["active"].at > 0
At(r, step) == underway[r].step = step
To(r, step) == underway' = [underway EXCEPT ![r].step = step]
End(r, step) == underway' = [underway EXCEPT ![r] = [NotAsked EXCEPT !.step = step]]

\* A change of field f of item i in Stripe.
NextEdition(i, f, is, by) == [is |-> is, at |-> offered[i][f].at + 1, by |-> by]
Renamed(i, is, by) == [offered[i] EXCEPT !["name"] = NextEdition(i, "name", is, by)]
Switched(i, is, by) == [offered[i] EXCEPT !["active"] = NextEdition(i, "active", is, by)]
New(i, by) == [f \in Fields |-> NextEdition(i, f, IF f = "name" THEN "given" ELSE "yes", by)]

\* The copy of i becomes row, which may be older than what it replaces.
Copy(i, row) ==
  /\ copied' = [copied EXCEPT ![i] = row]
  /\ outrun' = (outrun \cup {<<i, f>> : f \in {g \in Fields : row[g].at < copied[i][g].at}})
                    \ {<<i, f>> : f \in {g \in Fields : row[g].at = offered[i][g].at}}

-----------------------------------------------------------------------------
(* An administrator's request. *)

\* It finds what it is about, the product of a new price included.
Ask(r, op, i) ==
  /\ At(r, "new") /\ op # "sync"
  /\ IF op = "create" THEN i = Product \/ Recorded(Product) ELSE Recorded(i)
  /\ underway' = [underway EXCEPT ![r].step = "stripe", ![r].op = op, ![r].item = i]
  /\ UNCHANGED <<offered, copied, allowance, author, outrun, dashboards, catalogueFaults>>

\* Stripe names what is created.
CreateInStripe(r, i) ==
  /\ At(r, "stripe") /\ underway[r].op = "create"
  /\ ~Made(i) /\ (i = Product <=> underway[r].item = Product)
  /\ offered' = [offered EXCEPT ![i] = New(i, r)]
  /\ author' = [author EXCEPT ![i] = r]
  /\ underway' = [underway EXCEPT ![r].step = "graph", ![r].item = i, ![r].saw = New(i, r)]
  /\ UNCHANGED <<copied, allowance, outrun, dashboards, catalogueFaults>>

ChangeInStripe(r) ==
  LET o == underway[r]
      row == CASE o.op = "update" -> Renamed(o.item, "given", r)
               [] o.op = "archive" -> Switched(o.item, "no", r)
               [] o.op = "reactivate" -> Switched(o.item, "yes", r)
  IN /\ At(r, "stripe") /\ o.op # "create"
     /\ offered' = [offered EXCEPT ![o.item] = row]
     /\ underway' = [underway EXCEPT ![r].step = "graph", ![r].saw = row]
     /\ UNCHANGED <<copied, allowance, author, outrun, dashboards, catalogueFaults>>

\* The constraint on Stripe's id refuses a second copy.
CreateInGraph(r) ==
  LET i == underway[r].item
  IN /\ At(r, "graph") /\ underway[r].op = "create"
     /\ IF Recorded(i) THEN End(r, "failed") /\ UNCHANGED <<copied, allowance, outrun>>
        ELSE /\ Copy(i, underway[r].saw)
             /\ allowance' = allowance \cup ({i} \ {Product})
             /\ End(r, "done")
     /\ UNCHANGED <<offered, author, dashboards, catalogueFaults>>

\* The copy takes the one field the request changed; an update also takes what
\* a price gives.
ChangeInGraph(r) ==
  LET o == underway[r]  f == IF o.op = "update" THEN "name" ELSE "active"
  IN /\ At(r, "graph") /\ o.op # "create"
     /\ Copy(o.item, [copied[o.item] EXCEPT ![f] = o.saw[f]])
     /\ allowance' = IF o.op = "update" THEN allowance \cup ({o.item} \ {Product}) ELSE allowance
     /\ End(r, "done")
     /\ UNCHANGED <<offered, author, dashboards, catalogueFaults>>

-----------------------------------------------------------------------------
(* syncPriceFromStripe and syncProductFromStripe. *)

\* The application passes on what Stripe says has changed.
CallSync(r, i) ==
  /\ At(r, "new") /\ Made(i)
  /\ underway' = [underway EXCEPT ![r].step = "retrieve", ![r].op = "sync", ![r].item = i, ![r].behind = i]
  /\ UNCHANGED <<offered, copied, allowance, author, outrun, dashboards, catalogueFaults>>

Retrieve(r) ==
  /\ At(r, "retrieve")
  /\ underway' = [underway EXCEPT ![r].step = "find", ![r].saw = offered[underway[r].item]]
  /\ UNCHANGED <<offered, copied, allowance, author, outrun, dashboards, catalogueFaults>>

\* A price whose product has no copy has the product synchronised first.
FindCopy(r) ==
  LET i == underway[r].item
  IN /\ At(r, "find")
     /\ IF Recorded(i) THEN To(r, "refresh")
        ELSE IF i = Product \/ Recorded(Product) THEN To(r, "insert")
        ELSE underway' = [underway EXCEPT ![r].step = "retrieve", ![r].item = Product, ![r].kept = underway[r].saw]
     /\ UNCHANGED <<offered, copied, allowance, author, outrun, dashboards, catalogueFaults>>

\* The synchronisation is over, or the price that waited for its product is next.
GoOn(r) ==
  IF underway[r].item = underway[r].behind THEN underway' = [underway EXCEPT ![r].step = "done", ![r].kept = NotMade]
  ELSE underway' = [underway EXCEPT ![r].step = "insert", ![r].item = underway[r].behind, ![r].saw = underway[r].kept]

\* Mutant: a synchronisation leaves whether the item is active to the administrators.
RefreshName(r) ==
  LET i == underway[r].item  row == underway[r].saw
  IN /\ At(r, "refresh")
     /\ Copy(i, [copied[i] EXCEPT !["name"] = row["name"]])
     /\ GoOn(r)
     /\ UNCHANGED <<offered, allowance, author, dashboards, catalogueFaults>>

\* A name that Stripe has no more is left as it was.
Refresh(r) ==
  LET i == underway[r].item  row == underway[r].saw
  IN /\ At(r, "refresh")
     /\ Copy(i, IF row["name"].is = "none" THEN [row EXCEPT !["name"] = copied[i]["name"]] ELSE row)
     /\ GoOn(r)
     /\ UNCHANGED <<offered, allowance, author, dashboards, catalogueFaults>>

Insert(r) ==
  LET i == underway[r].item
  IN /\ At(r, "insert")
     /\ IF Recorded(i) THEN End(r, "failed") /\ UNCHANGED <<copied, outrun>>
        ELSE Copy(i, underway[r].saw) /\ GoOn(r)
     /\ UNCHANGED <<offered, allowance, author, dashboards, catalogueFaults>>

-----------------------------------------------------------------------------
\* A call of the request throws, the features it names do not exist, or its
\* process dies: what it has done stays.
CatalogueRequestFails(r) ==
  /\ underway[r].step \notin {"new", "done", "failed"}
  /\ catalogueFaults < MaxCatalogueFaults /\ catalogueFaults' = catalogueFaults + 1
  /\ End(r, "failed")
  /\ UNCHANGED <<offered, copied, allowance, author, outrun, dashboards>>

\* Somebody creates, renames, archives or reactivates an item in Stripe.
WorkInStripe(i) ==
  /\ dashboards < MaxDashboard /\ dashboards' = dashboards + 1
  /\ \E row \in IF Made(i) THEN {Renamed(i, "given", Dashboard), Switched(i, "yes", Dashboard),
                                 Switched(i, "no", Dashboard)}
                                \cup {Renamed(j, "none", Dashboard) : j \in {i} \ {Product}}
                ELSE {New(i, Dashboard)} :
        offered' = [offered EXCEPT ![i] = row]
  /\ Made(i) \/ i = Product \/ Made(Product)
  /\ UNCHANGED <<copied, allowance, underway, author, outrun, catalogueFaults>>

AdminStep(r) == \/ \E op \in CatalogueOperations, i \in Items : Ask(r, op, i)
                \/ \E i \in Items : CreateInStripe(r, i)
                \/ ChangeInStripe(r) \/ CreateInGraph(r) \/ ChangeInGraph(r)
SyncStep(r) == \/ \E i \in Items : CallSync(r, i)
               \/ Retrieve(r) \/ FindCopy(r) \/ Refresh(r) \/ Insert(r)

CatalogueNext ==
  \/ \E r \in CatalogueRequests : AdminStep(r) \/ SyncStep(r) \/ CatalogueRequestFails(r)
  \/ \E i \in Items : WorkInStripe(i)

CatalogueSpec == CatalogueInit /\ [][CatalogueNext]_catalogueVars

-----------------------------------------------------------------------------
(* Properties. *)

Closed(r) == underway[r].step \in {"new", "done", "failed"}
Answered(who) == who \in CatalogueRequests /\ At(who, "done")

\* Once no request is under way, the copy has a field as Stripe has it, unless
\* the last change of that field was made in Stripe itself or by a request that
\* failed, or an older edition was written over a newer one.
CopyFollows ==
  (\A r \in CatalogueRequests : Closed(r)) =>
    \A i \in Items, f \in Fields :
      Recorded(i) =>
        IF copied[i][f].at = offered[i][f].at THEN copied[i][f] = offered[i][f]
        ELSE ~Answered(offered[i][f].by) \/ <<i, f>> \in outrun

\* A synchronisation that has seen what Stripe has now, and is over, leaves the
\* copy like it, unless it was outrun; only a name taken away stays.
SyncHeals ==
  \A r \in CatalogueRequests, f \in Fields :
    LET i == underway[r].item  now == offered[i][f]
    IN At(r, "done") /\ underway[r].op = "sync" /\ underway[r].saw[f] = now
         => copied[i][f] = now \/ now.is = "none" \/ <<i, f>> \in outrun

\* A price is copied with its product, and says what it gives if the request
\* that created it was answered: a synchronisation that copied it first had
\* that request refused.  Without a failure, what was created is copied.
CopiesComplete ==
  /\ \A p \in Plans : Recorded(p) => Made(p) /\ Recorded(Product)
  /\ \A p \in Plans : Answered(author[p]) => p \in allowance
  /\ (catalogueFaults = 0 /\ \A r \in CatalogueRequests : Closed(r))
       => \A i \in Items : author[i] # Dashboard => Recorded(i)

\* The graph's products and prices are Stripe's, whoever changed them in
\* whichever order, but for what failed halfway or was outrun.
CatalogueSound == CatalogueTypeOK /\ CopyFollows /\ SyncHeals /\ CopiesComplete
=============================================================================
