--------------------------- MODULE MCCompanyServices ---------------------------
(***************************************************************************)
(* What a company pays for and what it has of it: its subscription, with   *)
(* Stripe's events in order, and the ten services its content, its lists   *)
(* and its questions go through.  They share no state in the code and each *)
(* is explored on its own instance: a behaviour exercises one of them,     *)
(* chosen at its start, and the others stay as they began.                 *)
(***************************************************************************)
EXTENDS SubscriptionSync, Ingestion, CommunitySummaries, AiConnections,
        RequestRepair, LlmCall, LlmStream, RetrievalWalk, Conversation,
        Chunking, EntityListing, TLC

CONSTANTS TextSizes,           \* sizes of the lines that are no heading
          MaxLines             \* bound: lines of a document

VARIABLE exercised

\* Documents of a few lines.  A heading's line has size 1.
Lines == [mark : {"heading", "second"}, size : {1}] \cup [mark : {"text"}, size : TextSizes]
EndOf(lines, i) == MapThenSumSet(LAMBDA k : lines[k].size, 1..i)
HeadingsOf(lines, marks) == {EndOf(lines, i - 1) : i \in {k \in DOMAIN lines : lines[k].mark \in marks}}
TextOf(lines, how, from) ==
  [length |-> EndOf(lines, Len(lines)), ends |-> {EndOf(lines, i) : i \in 1..(Len(lines) - 1)},
   headings |-> HeadingsOf(lines, {"heading", "second"}), seconds |-> HeadingsOf(lines, {"second"}),
   splitter |-> how, source |-> from]
SmallDocuments ==
  {TextOf(lines, how, from) : lines \in UNION {[1..n -> Lines] : n \in 1..MaxLines},
                                how \in {"structural", "semantic"}, from \in {"file", "markdown"}}
OneLine == TextOf(<<[mark |-> "heading", size |-> 1]>>, "structural", "file")

Services == {"SubscriptionSync", "Ingestion", "CommunitySummaries", "AiConnections",
             "RequestRepair", "LlmCall", "LlmStream", "RetrievalWalk", "Conversation",
             "Chunking", "EntityListing"}

Others(service, start) == exercised # service => start

\* A service that is not exercised begins in one of its initial states only.
ServicesInit ==
  /\ exercised \in Services
  /\ Init /\ IngestInit /\ CommunityInit
  /\ AiInit /\ Others("AiConnections", snapshot = <<>> /\ caller = "chat")
  /\ RepairInit /\ Others("RequestRepair", deployment = [unknown |-> {}, efforts |-> {}, clash |-> FALSE])
  /\ LlmInit /\ Others("LlmCall", operation = "call") /\ StreamInit
  /\ WalkInit
  /\ Others("RetrievalWalk", node = "rational_plan" /\ library = [facts |-> {}, neighbours |-> FALSE])
  /\ ConversationInit
  /\ IF exercised = "Chunking" THEN ChunkingInit ELSE Begun(OneLine)
  /\ IF exercised = "EntityListing" THEN ListingInit
     ELSE Walk(<<>>, [r \in Listed |-> NoParent], {}, [declared |-> {}, include |-> {}, size |-> 1])

Still(service, state) == IF exercised = service THEN TRUE ELSE UNCHANGED state

ServicesNext ==
  /\ UNCHANGED exercised
  /\ Still("SubscriptionSync", vars)
  /\ Still("Ingestion", ingestVars)
  /\ Still("CommunitySummaries", communityVars)
  /\ Still("AiConnections", aiVars)
  /\ Still("RequestRepair", repairVars)
  /\ Still("LlmCall", llmVars)
  /\ Still("LlmStream", streamVars)
  /\ Still("RetrievalWalk", walkVars)
  /\ Still("Conversation", conversationVars)
  /\ Still("Chunking", chunkingVars)
  /\ Still("EntityListing", listingVars)
  /\ \/ exercised = "SubscriptionSync" /\ Next
     \/ exercised = "Ingestion" /\ IngestNext
     \/ exercised = "CommunitySummaries" /\ CommunityNext
     \/ exercised = "AiConnections" /\ AiNext
     \/ exercised = "RequestRepair" /\ RepairNext
     \/ exercised = "LlmCall" /\ LlmNext
     \/ exercised = "LlmStream" /\ StreamNext
     \/ exercised = "RetrievalWalk" /\ WalkNext
     \/ exercised = "Conversation" /\ ConversationNext
     \/ exercised = "Chunking" /\ ChunkingNext
     \/ exercised = "EntityListing" /\ ListingNext

servicesVars == <<exercised, vars, ingestVars, communityVars, aiVars,
                  repairVars, llmVars, streamVars, walkVars, conversationVars,
                  chunkingVars, listingVars>>

ServicesSpec == ServicesInit /\ [][ServicesNext]_servicesVars

\* Two subscriptions, two requests of a service or two concepts do not differ.
\* The sets of a service that are permuted together have the same model values,
\* and so have those of different services, which never meet.
Symmetry == Permutations(Subs) \cup Permutations(Concepts)
=============================================================================
