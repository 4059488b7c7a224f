----------------------------- MODULE EntityListing -----------------------------
(***************************************************************************)
(* A client walks through the pages of a list: the query of a repository,  *)
(* EntityFactory which joins its rows into entities, JsonApiService and    *)
(* JsonApiPaginator which make a document of them.  The entity has a       *)
(* required owner and relates to its own kind: parent, and children when   *)
(* the descriptor declares both ends.  Lists are ordered by the last       *)
(* update, newest first; the rows of one record by the list.  Sorting and  *)
(* filters of the request, attributes and the resources of other kinds,    *)
(* which are included alike, are left out.                                 *)
(***************************************************************************)
EXTENDS Sublists

CONSTANTS Records,             \* how many records there may be
          PageSizes,
          MaxChanges           \* bound: records changed during the walk

ASSUME ListingAssumption == Records \in Nat \ {0} /\ PageSizes \subseteq Nat \ {0} /\ MaxChanges \in Nat

VARIABLES newest,              \* the records there are, last updated first
          parentOf, owned,     \* their relations; those that have their owner
          listing,             \* what the descriptor and the request say
          offset, pending,     \* the page asked for; the reads it waits for
          page, total,         \* what they told
          seen,                \* what the client has been shown
          tangled,             \* the first record of a later page was related to this one's
          changed, deletions   \* records touched during the walk, those deleted

listingVars == <<newest, parentOf, owned, listing, offset, pending, page, total, seen, tangled, changed, deletions>>

Listed == 1..Records
NoParent == 0
Relations == {"parent", "children"}
NoPage == [data |-> <<>>, included |-> {}, links |-> [r \in Listed |-> {}], next |-> FALSE, prev |-> -1]

Elements(list) == {list[i] : i \in DOMAIN list}

\* The records r relates to, by a relation the descriptor declares.
Related(r, name) ==
  {x \in Listed : /\ name \in listing.declared
                  /\ IF name = "parent" THEN x = parentOf[r] ELSE x \in Elements(newest) /\ parentOf[x] = r}
Edges(r) == Related(r, "parent") \cup Related(r, "children")

\* A walk begins at the first page.
Walk(records, parents, complete, what) ==
  /\ newest = records /\ parentOf = parents /\ owned = complete /\ listing = what
  /\ offset = 0 /\ pending = {"rows", "count"} /\ page = NoPage /\ total = 0
  /\ seen = <<>> /\ tangled = FALSE /\ changed = {} /\ deletions = 0

\* Records are numbered as they stand in the list; the last may not be there
\* yet, and one may lack its owner.
AllBut(S) == {S} \cup {S \ {r} : r \in S}

ListingInit ==
  \E there \in {Records, Records - 1}, complete \in AllBut(Listed), declared \in {{"parent"}, Relations}, size \in PageSizes :
    \E parents \in [1..there -> 0..there], include \in SUBSET declared :
      /\ \A r \in 1..there : parents[r] # r
      /\ Walk([i \in 1..there |-> i], [r \in Listed |-> IF r <= there THEN parents[r] ELSE NoParent], complete,
              [declared |-> declared, include |-> include, size |-> size])

-----------------------------------------------------------------------------
(* The query and its rows. *)

\* One record more than the page shows is taken; one without its required
\* owner matches nothing.
Taken == {i \in DOMAIN newest : offset < i /\ i <= offset + listing.size + 1}
Rows == Sublist(newest, {i \in Taken : newest[i] \in owned})

\* The places at which the rows of r name x: itself, its parent, its children
\* as they are listed.
Places(r, x) ==
  {p \in 0..(Len(newest) + 1) :
     \/ p = 0 /\ x = r
     \/ p = 1 /\ x \in Related(r, "parent")
     \/ p > 1 /\ x \in Related(r, "children") /\ x = newest[p - 1]}

Turn(i, p) == i * (Len(newest) + 2) + p
Turns(rows, x) == UNION {{Turn(i, p) : p \in Places(rows[i], x)} : i \in DOMAIN rows}
FirstTurn(rows, x) == CHOOSE n \in Turns(rows, x) : \A k \in Turns(rows, x) : n <= k

\* createGraphList joins the rows of a record and those it relates to, in the
\* order in which they are first named, and returns the records of the list.
GraphList(rows) ==
  LET turns == Sorted({FirstTurn(rows, r) : r \in Elements(rows)})
  IN [n \in DOMAIN turns |-> CHOOSE r \in Elements(rows) : FirstTurn(rows, r) = turns[n]]

-----------------------------------------------------------------------------
(* The document. *)

\* Only records of the list carry relations.
Linkage(rows) == [r \in Listed |-> IF r \in Elements(rows) THEN Edges(r) ELSE {}]
Followed(rows) ==
  [r \in Listed |-> IF r \in Elements(rows) THEN UNION {Related(r, name) : name \in listing.include} ELSE {}]

\* What links lead to from some records, one after another.
Beyond(links, from) ==
  {x \in Listed : \A A \in SUBSET Listed : (\A r \in from \cup A : links[r] \subseteq A) => x \in A}

\* Mutant: the related records without what is included for them.
IncludedFlat(rows, shown) == UNION {Followed(rows)[r] : r \in shown}

\* What is included: with each related record what is included for it, once.
Included(rows, shown) == Beyond(Followed(rows), shown)

\* Serialising follows every relation, the ones not included too, and would not
\* end on a ring.
Endless(links, from) == \E r \in from \cup Beyond(links, from) : r \in Beyond(links, {r})

\* A full page leads to the next and shows all but its last record.
Full(found) == Len(found) = listing.size + 1
Shown(found) == IF Full(found) THEN SubSeq(found, 1, listing.size) ELSE found

\* The way back is missing when the offset is the size and one.
Previous == IF offset # 0 /\ offset # listing.size + 1 THEN offset - listing.size ELSE -1

Document(found, rows) ==
  [data |-> Shown(found), links |-> Linkage(rows), included |-> Included(rows, Elements(Shown(found))),
   next |-> Full(found), prev |-> Previous]

\* The record that belongs to the next page is related to one before it.
Tangles(rows) == Full(rows) /\ \E i \in 1..listing.size : rows[Len(rows)] \in Edges(rows[i])

ReadRows ==
  /\ "rows" \in pending
  /\ LET found == GraphList(Rows)
     IN /\ tangled' = (tangled \/ Tangles(Rows))
        /\ IF Endless(Linkage(Rows), Elements(Shown(found)))
             THEN pending' = {"never"} /\ UNCHANGED <<page, seen>>
             ELSE /\ pending' = pending \ {"rows"}
                  /\ page' = Document(found, Rows)
                  /\ seen' = seen \o Shown(found)
  /\ UNCHANGED <<newest, parentOf, owned, listing, offset, total, changed, deletions>>

\* The count runs beside the query and asks for no owner.
CountRecords ==
  /\ "count" \in pending
  /\ pending' = pending \ {"count"} /\ total' = Len(newest)
  /\ UNCHANGED <<newest, parentOf, owned, listing, offset, page, seen, tangled, changed, deletions>>

\* The client follows the link to the next page.
FollowNext ==
  /\ pending = {} /\ page.next
  /\ offset' = offset + listing.size
  /\ pending' = {"rows", "count"} /\ page' = NoPage /\ total' = 0
  /\ UNCHANGED <<newest, parentOf, owned, listing, seen, tangled, changed, deletions>>

-----------------------------------------------------------------------------
(* Other requests. *)

Without(list, r) == Sublist(list, {i \in DOMAIN list : list[i] # r})

Change(r) ==
  /\ r \notin changed /\ Cardinality(changed) < MaxChanges /\ pending # {"never"}
  /\ changed' = changed \cup {r}
  /\ UNCHANGED <<owned, listing, offset, pending, page, total, seen, tangled>>

\* Creating and updating put the record in front.
WriteListed(r) ==
  /\ Change(r)
  /\ \E p \in (Elements(newest) \ {r}) \cup {NoParent} : parentOf' = [parentOf EXCEPT ![r] = p]
  /\ newest' = <<r>> \o Without(newest, r)
  /\ UNCHANGED deletions

DeleteListed(r) ==
  /\ r \in Elements(newest) /\ Change(r)
  /\ newest' = Without(newest, r)
  /\ parentOf' = [s \in Listed |-> IF s = r \/ parentOf[s] = r THEN NoParent ELSE parentOf[s]]
  /\ deletions' = deletions + 1

ListingNext ==
  \/ ReadRows \/ CountRecords \/ FollowNext
  \/ \E r \in Listed : WriteListed(r) \/ DeleteListed(r)

ListingSpec == ListingInit /\ [][ListingNext]_listingVars

-----------------------------------------------------------------------------
Distinct(list) == \A i, k \in DOMAIN list : list[i] = list[k] => i = k

ListingTypeOK ==
  /\ Elements(newest) \subseteq Listed /\ Distinct(newest) /\ owned \subseteq Listed
  /\ parentOf \in [Listed -> Elements(newest) \cup {NoParent}]
  /\ pending \subseteq {"rows", "count", "never"} /\ offset \in Nat /\ total \in 0..Records
  /\ Elements(seen) \subseteq Listed /\ tangled \in BOOLEAN
  /\ changed \subseteq Listed /\ deletions \in 0..MaxChanges

\* Nothing is in the data twice, or included without a way to it from the data;
\* when all is asked for, whatever a resource links to is in the document.
DocumentComplete ==
  LET inDocument == Elements(page.data) \cup page.included
  IN /\ Distinct(page.data) /\ Len(page.data) <= listing.size
     /\ page.included \subseteq UNION {page.links[r] : r \in inDocument}
     /\ listing.include = listing.declared => \A r \in inDocument : page.links[r] \subseteq inDocument

\* A page but the first leads back to the one before, unless it shows one record.
LeadsBack == "rows" \notin pending /\ pending # {"never"} /\ listing.size > 1 /\ offset > 0
               => page.prev = offset - listing.size

AtEnd == pending = {} /\ ~page.next
Regular == Elements(newest) \subseteq owned /\ ~tangled

\* A walk nobody disturbs shows every record once; in order, if none is related
\* to another.
WalkComplete ==
  AtEnd /\ Regular /\ changed = {} =>
    /\ Elements(seen) = Elements(newest) /\ Distinct(seen) /\ total = Len(seen)
    /\ (\A r \in Elements(newest) : parentOf[r] = NoParent) => seen = newest

\* Whatever is created and updated meanwhile, a walk misses no record that was
\* not touched: records only move towards its end.
NoneSkipped == AtEnd /\ Regular /\ deletions = 0 => Elements(newest) \ changed \subseteq Elements(seen)

(* What a client that follows the links of a list is shown. *)
ListingSound == ListingTypeOK /\ DocumentComplete /\ LeadsBack /\ WalkComplete /\ NoneSkipped
=============================================================================
