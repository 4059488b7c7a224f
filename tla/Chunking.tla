-------------------------------- MODULE Chunking --------------------------------
(***************************************************************************)
(* A document on its way to chunks: ChunkerService with the structural or  *)
(* the semantic splitter.  Text is known by its places: where its lines    *)
(* end and its headings begin, a line being a heading or a run of          *)
(* sentences no splitter takes apart.  Where meaning shifts, which chunks  *)
(* are alike and how the text splitters of LangChain pack lines are any    *)
(* choice; the overlap they repeat is left out.  Sections are split in     *)
(* parallel and share nothing: here one after the other.                   *)
(***************************************************************************)
EXTENDS Sublists

CONSTANTS Short,               \* shorter sections are left out
          MinChunk,            \* smaller chunks are merged with the next,
          Joint,               \* when both stay below this or are alike
          Target,              \* longer sections are split
          Cap,                 \* the hard limit of a chunk
          Documents,           \* texts, the splitter and where they come from
          MaxSplitFaults       \* bound: calls that fail

\* Lines end before the text does, a heading opens a line, and whatever a
\* heading of the second level opens may be taken for a table.
WellFormed(d) ==
  /\ d.length \in Nat \ {0} /\ d.ends \subseteq 1..(d.length - 1)
  /\ d.headings \subseteq d.ends \cup {0} /\ d.seconds \subseteq d.headings
  /\ d.splitter \in {"structural", "semantic"} /\ d.source \in {"file", "markdown"}

ASSUME ChunkingAssumption ==
  /\ {Short, MinChunk, Joint, Target, Cap} \subseteq Nat \ {0} /\ MaxSplitFaults \in Nat
  /\ Short < MinChunk /\ MinChunk < Target /\ Target < Joint /\ Joint < Cap
  /\ \A d \in Documents : WellFormed(d)

VARIABLES document,
          stage,               \* what comes next
          section,             \* the section in hand
          work,                \* its chunks, as far as they are merged,
          grouped,             \* and as they were before
          ready,               \* the document's chunks so far
          capped,              \* those within the hard limit, when it is applied
          splitFaults

chunkingVars == <<document, stage, section, work, grouped, ready, capped, splitFaults>>

Chunk(from, to) == [from |-> from, to |-> to]
Size(chunk) == chunk.to - chunk.from
Whole == Chunk(0, document.length)

\* The ends of lines inside a chunk.
Inside(chunk) == {e \in document.ends : chunk.from < e /\ e < chunk.to}

\* The pieces of a chunk that end at the cuts, and at its end.
\* Mutant: what follows the last cut is forgotten.
CutsOnly(chunk, cuts) ==
  LET ends == Sorted(IF cuts = {} THEN {chunk.to} ELSE cuts)
  IN [i \in DOMAIN ends |-> Chunk(IF i = 1 THEN chunk.from ELSE ends[i - 1], ends[i])]

Cut(chunk, cuts) ==
  LET ends == Sorted(cuts \cup {chunk.to})
  IN [i \in DOMAIN ends |-> Chunk(IF i = 1 THEN chunk.from ELSE ends[i - 1], ends[i])]

\* A section begins at every heading.
Sections == Cut(Whole, document.headings \ {0})
Section == Sections[section]
IsTable(s) == s.from \in document.seconds /\ Inside(s) # {}

Begun(text) ==
  /\ document = text
  /\ stage = "structure" /\ section = 1
  /\ work = <<>> /\ grouped = <<>> /\ ready = <<>> /\ capped = <<>> /\ splitFaults = 0

ChunkingInit == \E text \in Documents : Begun(text)

Fails == splitFaults < MaxSplitFaults /\ splitFaults' = splitFaults + 1

-----------------------------------------------------------------------------
\* The chunks of a section go with the rest.  A document all of whose sections
\* are short is kept whole.
Add(new) ==
  /\ grouped' = <<>> /\ work' = <<>>
  /\ section' = section + 1
  /\ IF section < Len(Sections)
       THEN stage' = "section" /\ ready' = ready \o new
       ELSE stage' = "cap" /\ ready' = IF ready \o new = <<>> THEN <<Whole>> ELSE ready \o new

\* A document of one section is neither too short nor a table.
SplitByStructure ==
  /\ stage = "structure"
  /\ IF Len(Sections) > 1
       THEN stage' = "section" /\ UNCHANGED <<section, work, grouped, ready>>
       ELSE IF Size(Whole) <= Target
              THEN Add(<<Whole>>)
              ELSE stage' = "large" /\ UNCHANGED <<section, work, grouped, ready>>
  /\ UNCHANGED <<document, capped, splitFaults>>

TakeSection ==
  /\ stage = "section"
  /\ \/ Size(Section) < Short /\ Add(<<>>)
     \/ Size(Section) >= Short /\ (IsTable(Section) \/ Size(Section) <= Target) /\ Add(<<Section>>)
     \/ /\ ~IsTable(Section) /\ Size(Section) > Target
        /\ stage' = "large" /\ UNCHANGED <<section, work, grouped, ready>>
  /\ UNCHANGED <<document, capped, splitFaults>>

\* Pieces within a limit, but for a line that is longer by itself.
Within(limit, pieces) == \A i \in DOMAIN pieces : Size(pieces[i]) <= limit \/ Inside(pieces[i]) = {}

SplitLargeSection ==
  /\ stage = "large" /\ document.splitter = "structural"
  /\ \E cuts \in SUBSET Inside(Section) :
       /\ Within(Target, Cut(Section, cuts))
       /\ Add(Cut(Section, cuts))
  /\ UNCHANGED <<document, capped, splitFaults>>

\* A splitter that throws leaves the document in one piece.  For a document of
\* one section its promise is returned, not awaited: it passes the catch, and
\* the caller splits the text without regard to its structure.
SplitterThrows ==
  /\ stage = "large" /\ document.splitter = "structural" /\ Fails
  /\ \/ Len(Sections) > 1 /\ ready' = <<Whole>>
     \/ /\ Len(Sections) = 1
        /\ \E cuts \in SUBSET Inside(Whole) :
             Within(Target, Cut(Whole, cuts)) /\ ready' = Cut(Whole, cuts)
  /\ stage' = "cap"
  /\ UNCHANGED <<document, section, work, grouped, capped>>

-----------------------------------------------------------------------------
(* The semantic splitter. *)

\* Chunks end where the meaning shifts.
GroupSentences ==
  /\ stage = "large" /\ document.splitter = "semantic"
  /\ \E cuts \in SUBSET Inside(Section) :
       LET groups == Cut(Section, cuts)
       IN IF Len(groups) = 1
            THEN Add(groups)
            ELSE /\ work' = groups /\ grouped' = groups /\ stage' = "embed"
                 /\ UNCHANGED <<section, ready>>
  /\ UNCHANGED <<document, capped, splitFaults>>

\* Sentences without embeddings have no shifts between them.
SentencesNotEmbedded ==
  /\ stage = "large" /\ document.splitter = "semantic" /\ Fails
  /\ Add(<<Section>>)
  /\ UNCHANGED <<document, capped>>

ChunksEmbedded ==
  /\ stage = "embed" /\ stage' = "merge"
  /\ UNCHANGED <<document, section, work, grouped, ready, capped, splitFaults>>

\* When the chunks, or merged ones, cannot be embedded, merging is undone.
ChunksNotEmbedded ==
  /\ stage = "embed" /\ Fails
  /\ Add(grouped)
  /\ UNCHANGED <<document, capped>>

Merges(i, alike) == /\ i < Len(work) /\ Size(work[i]) < MinChunk
                    /\ i \in alike \/ Size(work[i]) + Size(work[i + 1]) < Joint

\* One pass: a small chunk takes the next with it, and the pass goes on after
\* both, so that of those that merge none was taken by the one before.
TakesNext(takers, alike) == \A i \in DOMAIN work : i \in takers <=> Merges(i, alike) /\ i - 1 \notin takers

PairsMerged(takers) ==
  Sublist([i \in DOMAIN work |-> IF i \in takers THEN Chunk(work[i].from, work[i + 1].to) ELSE work[i]],
          {i \in DOMAIN work : i - 1 \notin takers})

\* Passes go on until one changes nothing.
MergePass ==
  /\ stage = "merge"
  /\ \E alike, takers \in SUBSET (1..(Len(work) - 1)) :
       /\ TakesNext(takers, alike)
       /\ IF takers = {}
            THEN Add(work)
            ELSE /\ work' = PairsMerged(takers) /\ stage' = "embed"
                 /\ UNCHANGED <<section, grouped, ready>>
  /\ UNCHANGED <<document, capped, splitFaults>>

-----------------------------------------------------------------------------
\* A piece still too long is sliced.
Slices(piece) == {piece.from + j * Cap : j \in 1..Size(piece)} \cap (piece.from + 1)..(piece.to - 1)

Capped(chunk, cuts) ==
  IF Size(chunk) <= Cap THEN <<chunk>>
  ELSE LET pieces == Cut(chunk, cuts)
       IN Cut(chunk, cuts \cup UNION {Slices(pieces[i]) : i \in DOMAIN pieces})

CapChunk ==
  /\ stage = "cap" /\ document.source = "file" /\ ready # <<>>
  /\ \E cuts \in SUBSET Inside(Head(ready)) :
       /\ Size(Head(ready)) > Cap => Within(Cap, Cut(Head(ready), cuts))
       /\ capped' = capped \o Capped(Head(ready), cuts)
  /\ ready' = Tail(ready)
  /\ UNCHANGED <<document, stage, section, work, grouped, splitFaults>>

\* What is split from markdown, not from a file, is not capped.
PassOn ==
  /\ stage = "cap" /\ (document.source = "markdown" \/ ready = <<>>)
  /\ stage' = "split"
  /\ UNCHANGED <<document, section, work, grouped, ready, capped, splitFaults>>

ChunkingNext ==
  \/ SplitByStructure \/ TakeSection \/ SplitLargeSection \/ SplitterThrows
  \/ GroupSentences \/ SentencesNotEmbedded \/ ChunksEmbedded \/ ChunksNotEmbedded \/ MergePass
  \/ CapChunk \/ PassOn

ChunkingSpec == ChunkingInit /\ [][ChunkingNext]_chunkingVars

-----------------------------------------------------------------------------
Bounds == document.ends \cup {0, document.length}
Chunks == capped \o ready

ChunkingTypeOK ==
  /\ WellFormed(document) /\ section \in 1..(Len(Sections) + 1) /\ splitFaults \in 0..MaxSplitFaults
  /\ stage \in {"structure", "section", "large", "embed", "merge", "cap", "split"}
  /\ \A list \in {work, grouped, Chunks} : \A i \in DOMAIN list :
       0 <= list[i].from /\ list[i].from < list[i].to /\ list[i].to <= document.length

Covered(list) == UNION {(list[i].from + 1)..list[i].to : i \in DOMAIN list}

(* Whatever is split, merged, undone and capped, the chunks hold the document's
   text in its order, nothing of it twice; only sections that are too short are
   missing, and never all of them. *)
NothingLost ==
  /\ \A list \in {work, Chunks} : \A i \in 1..(Len(list) - 1) : list[i].to <= list[i + 1].from
  /\ work # <<>> => Covered(work) = Covered(<<Section>>)
  /\ stage \in {"cap", "split"} =>
       \A i \in DOMAIN Sections :
         Covered(<<Sections[i]>>) \subseteq Covered(Chunks) \/ (Size(Sections[i]) < Short /\ Chunks # <<>>)

(* A chunk ends where a line does, unless the line alone is over the hard limit. *)
LinesWhole ==
  \A i \in DOMAIN Chunks : Chunks[i].to \notin Bounds =>
    \E a, b \in Bounds : /\ a < Chunks[i].to /\ Chunks[i].to < b
                         /\ Inside(Chunk(a, b)) = {} /\ Size(Chunk(a, b)) > Cap

(* What comes from a file is within the hard limit, whatever the splitters left. *)
FilesCapped == stage = "split" /\ document.source = "file" => \A i \in DOMAIN Chunks : Size(Chunks[i]) <= Cap

(* Merging leaves no small chunk beside one it would fit with, however many
   passes that takes. *)
SmallOnesMerged ==
  stage = "cap" /\ document.splitter = "semantic" /\ splitFaults = 0 =>
    \A i \in 1..(Len(ready) - 1) : \A s \in DOMAIN Sections :
      /\ ready[i].from >= Sections[s].from /\ ready[i + 1].to <= Sections[s].to
      /\ Size(ready[i]) < MinChunk
      => Size(ready[i]) + Size(ready[i + 1]) >= Joint

(* What a document becomes: nothing is lost, lines stay whole, a file's chunks
   are within the limit and small ones were merged. *)
ChunksSound == ChunkingTypeOK /\ NothingLost /\ LinesWhole /\ FilesCapped /\ SmallOnesMerged
=============================================================================
