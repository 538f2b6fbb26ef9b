---------------------------- MODULE InvertedIndex ----------------------------
(* index/inverted: the index of the words of a TEXT column. Documents get the next
   doc_id; their postings grow in a block in memory, which becomes one more segment;
   a merge makes one segment of several and takes the postings of the deleted
   documents out. A flush saves the table of documents, the map of addresses and the
   manifest, in that order, and only then removes the segments that it replaced.

   A doc_id is the position of the document, from 1. A posting is its doc_id: the
   frequencies that only ranking reads are left out. *)
EXTENDS Integers, Sequences, FiniteSets, SequencesExt

CONSTANTS Term,            \* the words that the analyzer tells apart
          DocText,         \* the texts, each the set of its words
          Address,         \* the addresses of rows
          Builds,          \* the sequences of <<address, text>> an index is built from
          BlockPostings,   \* postings at which a block is full
          MergeFanIn,      \* merge_fan_in
          MaxSegments,     \* inverted_max_segments
          PendingPercent,  \* inverted_pending_fraction, in hundredths
          DeletedPercent,  \* inverted_deleted_fraction, in hundredths
          DocumentLimit,   \* bound: documents ever given to the index
          GenerationLimit, \* bound: segments ever written
          CrashLimit       \* bound: crashes

ASSUME FanInAssumption == MergeFanIn \in Nat /\ MergeFanIn >= 2

VARIABLES documents,  \* doc_id -> [address, text, deleted]: the table of documents
          addresses,  \* address -> doc_id: the map of the live documents
          block,      \* the lists of the block in memory
          manifest,   \* [generations, next, purged]
          obsolete,   \* generations to remove when the manifest is saved
          segments,   \* generation -> lists: the files of the segments
          saved,      \* [documents, addresses, manifest] in their files
          saving,     \* files that the flush in course has yet to write
          torn,       \* whether a crash has caught a flush between two files
          crashes     \* crashes so far

invertedVars ==
  <<documents, addresses, block, manifest, obsolete, segments, saved, saving, torn, crashes>>

-----------------------------------------------------------------------------
(* Lists of postings and their merge. *)

EmptyLists == [term \in Term |-> <<>>]

\* SpimiBlock.add.
Added(lists, id, text) ==
  [term \in Term |-> IF term \in text THEN Append(lists[term], id) ELSE lists[term]]

PostingCount(lists) == FoldFunction(LAMBDA list, n : n + Len(list), 0, lists)

\* merge_sources: the lists of a term one after another, in the order of the sources.
MergeSources(sources) ==
  [term \in Term |-> FlattenSeq([i \in DOMAIN sources |-> sources[i][term]])]

\* PurgingSink.
Purged(lists, gone) ==
  [term \in Term |-> SelectSeq(lists[term], LAMBDA id : id \notin gone)]

\* MergePasses._merge_pass: groups of neighbours from the end, no more than are needed.
RECURSIVE MergePass(_, _)
MergePass(sources, excess) ==
  LET taken == CHOOSE n \in {MergeFanIn, excess + 1, Len(sources)} :
                 \A m \in {MergeFanIn, excess + 1, Len(sources)} : n <= m
      start == Len(sources) - taken
  IN  IF excess <= 0 \/ Len(sources) <= 1
        THEN sources
        ELSE Append(MergePass(SubSeq(sources, 1, start), excess - (taken - 1)),
                    MergeSources(SubSeq(sources, start + 1, Len(sources))))

\* MergePasses.reduce.
RECURSIVE Reduced(_)
Reduced(sources) ==
  IF Len(sources) <= MergeFanIn
    THEN sources
    ELSE Reduced(MergePass(sources, Len(sources) - MergeFanIn))

MergedLists(sources) == MergeSources(Reduced(sources))

\* SpimiBuilder.build: the blocks of one pass over the documents, merged.
BuiltLists(texts) ==
  LET step(sofar, id) ==
        LET grown == Added(sofar.block, id, texts[id])
        IN  IF PostingCount(grown) >= BlockPostings
              THEN [blocks |-> Append(sofar.blocks, grown), block |-> EmptyLists]
              ELSE [sofar EXCEPT !.block = grown]
      last == FoldLeft(step, [blocks |-> <<>>, block |-> EmptyLists],
                       [id \in DOMAIN texts |-> id])
  IN  IF last.blocks = <<>>
        THEN last.block
        ELSE MergedLists(IF last.block = EmptyLists THEN last.blocks
                                                    ELSE Append(last.blocks, last.block))

-----------------------------------------------------------------------------
Deleted == {id \in DOMAIN documents : documents[id].deleted}

\* _unpurged_count.
Unpurged == Cardinality(Deleted) - manifest.purged

SegmentLists(m) == [i \in DOMAIN m.generations |-> segments[m.generations[i]]]

\* postings: the lists of the segments, then that of the block.
Postings(term) == MergeSources(Append(SegmentLists(manifest), block))[term]

\* The documents of a search: the ranking leaves the deleted ones out.
Found(term) == SelectSeq(Postings(term), LAMBDA id : ~documents[id].deleted)

InvertedInit ==
  \E rows \in Builds :
    /\ documents = [id \in DOMAIN rows |->
                      [address |-> rows[id][1], text |-> rows[id][2], deleted |-> FALSE]]
    /\ addresses = [a \in {rows[id][1] : id \in DOMAIN rows} |->
                      CHOOSE id \in DOMAIN rows : rows[id][1] = a]
    /\ segments = (1 :> BuiltLists([id \in DOMAIN rows |-> rows[id][2]]))
    /\ manifest = [generations |-> <<1>>, next |-> 2, purged |-> 0]
    /\ block = EmptyLists /\ obsolete = {} /\ saving = <<>>
    /\ torn = FALSE /\ crashes = 0
    /\ saved = [documents |-> documents, addresses |-> addresses, manifest |-> manifest]

-----------------------------------------------------------------------------
(* What the block, the files of the segments and the manifest become. A state of
   the segments is [block, segments, manifest, obsolete]. *)

Current == [block |-> block, segments |-> segments, manifest |-> manifest, obsolete |-> obsolete]

WithFile(files, generation, lists) ==
  [g \in DOMAIN files \cup {generation} |-> IF g = generation THEN lists ELSE files[g]]

\* _write_block.
WithBlockWritten(s) ==
  IF s.block = EmptyLists
    THEN s
    ELSE LET generation == s.manifest.next
         IN  [s EXCEPT !.block = EmptyLists,
                       !.segments = WithFile(@, generation, s.block),
                       !.manifest = [@ EXCEPT !.generations = Append(@, generation),
                                              !.next = generation + 1]]

\* _replace_segments, with wrap taking out the postings of "gone".
WithSegmentsReplaced(s, start, gone) ==
  LET old == s.manifest.generations
      merged == SubSeq(old, start, Len(old))
      generation == s.manifest.next
      lists == MergedLists([i \in DOMAIN merged |-> s.segments[merged[i]]])
  IN  [s EXCEPT !.segments = WithFile(@, generation, Purged(lists, gone)),
                !.obsolete = @ \cup ToSet(merged),
                !.manifest = [@ EXCEPT !.generations = Append(SubSeq(old, 1, start - 1), generation),
                                       !.next = generation + 1]]

\* A merge that does not take the deleted documents out.
AllMergedWithDeleted(s) ==
  [WithSegmentsReplaced(s, 1, {}) EXCEPT !.manifest.purged = Cardinality(Deleted)]

\* _merge_all.
WithAllMerged(s) ==
  [WithSegmentsReplaced(s, 1, IF Unpurged = 0 THEN {} ELSE Deleted)
     EXCEPT !.manifest.purged = Cardinality(Deleted)]

\* _merge_due.
MergeDue(s) ==
  LET count(generation) == PostingCount(s.segments[generation])
      generations == s.manifest.generations
      pending == FoldLeft(LAMBDA n, g : n + count(g), 0, Tail(generations))
      indexed == Len(documents) - Cardinality(Deleted) + Unpurged
      grown == Len(generations) > 1 /\ 100 * pending >= PendingPercent * count(generations[1])
      shrunk == Unpurged > 0 /\ 100 * Unpurged >= DeletedPercent * indexed
  IN  grown \/ shrunk

\* flush, up to _persist.
WithFlush(s) ==
  CASE MergeDue(s)                                 -> WithAllMerged(s)
    [] ~MergeDue(s) /\ Len(s.manifest.generations) - 1 > MaxSegments
                                                   -> WithSegmentsReplaced(s, 2, {})
    [] OTHER                                       -> s

Becomes(s) ==
  /\ block' = s.block /\ segments' = s.segments
  /\ manifest' = s.manifest /\ obsolete' = s.obsolete

\* A flush that saves the manifest before the documents it speaks of.
ManifestFirst == <<"manifest", "documents", "addresses", "obsolete">>

\* _persist: the order of the files of a flush.
FlushOrder == <<"documents", "addresses", "manifest", "obsolete">>

Free == saving = <<>>
HasGenerations(n) == manifest.next + n <= GenerationLimit + 1

-----------------------------------------------------------------------------
\* insert. The address of a live document is refused before anything changes.
InsertDocument(address, text) ==
  /\ Free /\ Len(documents) < DocumentLimit /\ HasGenerations(1)
  /\ address \notin DOMAIN addresses
  /\ LET id == Len(documents) + 1
         grown == [Current EXCEPT !.block = Added(@, id, text)]
     IN  /\ documents' = Append(documents, [address |-> address, text |-> text, deleted |-> FALSE])
         /\ addresses' = [a \in DOMAIN addresses \cup {address} |->
                            IF a = address THEN id ELSE addresses[a]]
         /\ Becomes(IF PostingCount(grown.block) >= BlockPostings THEN WithBlockWritten(grown)
                                                                  ELSE grown)
  /\ UNCHANGED <<saved, saving, torn, crashes>>

\* delete: the address leaves the map even if the document was already deleted, which
\* only raises.
DeleteDocument(address) ==
  /\ Free /\ address \in DOMAIN addresses
  /\ addresses' = [a \in DOMAIN addresses \ {address} |-> addresses[a]]
  /\ documents' = [documents EXCEPT ![addresses[address]].deleted = TRUE]
  /\ UNCHANGED <<block, manifest, obsolete, segments, saved, saving, torn, crashes>>

FlushInverted ==
  /\ Free /\ HasGenerations(2)
  /\ Becomes(WithFlush(WithBlockWritten(Current)))
  /\ saving' = FlushOrder
  /\ UNCHANGED <<documents, addresses, saved, torn, crashes>>

MergeInverted ==
  /\ Free /\ HasGenerations(2)
  /\ Becomes(WithAllMerged(WithBlockWritten(Current)))
  /\ saving' = FlushOrder
  /\ UNCHANGED <<documents, addresses, saved, torn, crashes>>

\* One file of _persist.
SaveNext ==
  /\ ~Free
  /\ saving' = Tail(saving)
  /\ saved' = CASE Head(saving) = "documents" -> [saved EXCEPT !.documents = documents]
                [] Head(saving) = "addresses" -> [saved EXCEPT !.addresses = addresses]
                [] Head(saving) = "manifest"  -> [saved EXCEPT !.manifest = manifest]
                [] OTHER                      -> saved
  /\ IF Head(saving) = "obsolete"
       THEN /\ segments' = [g \in DOMAIN segments \ obsolete |-> segments[g]]
            /\ obsolete' = {}
       ELSE UNCHANGED <<segments, obsolete>>
  /\ UNCHANGED <<documents, addresses, block, manifest, torn, crashes>>

\* The process ends and the index is opened again from its files.
CrashInverted ==
  /\ crashes < CrashLimit /\ crashes' = crashes + 1
  /\ documents' = saved.documents /\ addresses' = saved.addresses
  /\ manifest' = saved.manifest
  /\ block' = EmptyLists /\ obsolete' = {} /\ saving' = <<>>
  /\ torn' = (torn \/ (~Free /\ Len(saving) < Len(FlushOrder) /\ Head(saving) # "obsolete"))
  /\ UNCHANGED <<segments, saved>>

InvertedNext ==
  \/ \E address \in Address, text \in DocText : InsertDocument(address, text)
  \/ \E address \in Address : DeleteDocument(address)
  \/ FlushInverted \/ MergeInverted \/ SaveNext \/ CrashInverted

InvertedSpec == InvertedInit /\ [][InvertedNext]_invertedVars

-----------------------------------------------------------------------------
InvertedTypeOK ==
  /\ documents \in Seq([address : Address, text : DocText, deleted : BOOLEAN])
  /\ \A a \in DOMAIN addresses : a \in Address /\ addresses[a] \in DOMAIN documents
  /\ ToSet(manifest.generations) \cup obsolete \subseteq DOMAIN segments
  /\ manifest.purged <= Cardinality(Deleted)

Increasing(list) == \A i, j \in DOMAIN list : i < j => list[i] < list[j]

\* A search finds the live documents that have the word, each once and in order of
\* doc_id, through inserts, deletes, flushes and merges; the map holds the live
\* documents; and with nothing left to purge the lists hold no deleted document. A
\* crash between two files of a flush may leave documents without postings.
SearchesFindTheRows ==
  ~torn =>
    /\ \A term \in Term :
         Found(term) = SelectSeq([id \in DOMAIN documents |-> id],
                                 LAMBDA id : ~documents[id].deleted /\ term \in documents[id].text)
    /\ \A id \in DOMAIN documents :
         ~documents[id].deleted <=> (documents[id].address \in DOMAIN addresses
                                     /\ addresses[documents[id].address] = id)
    /\ Unpurged = 0 => \A term \in Term : ToSet(Postings(term)) \cap Deleted = {}

\* Whatever file of a flush a crash comes after, the manifest names segments whose
\* files are there, every posting in them and every address in the map is of a
\* document of the saved table, so that no doc_id is given again to another document,
\* and the lists stay in order.
OpensAfterACrash ==
  LET ids == DOMAIN saved.documents
      lists == SegmentLists(saved.manifest)
  IN  /\ ToSet(saved.manifest.generations) \subseteq DOMAIN segments
      /\ \A i \in DOMAIN lists, term \in Term : ToSet(lists[i][term]) \subseteq ids
      /\ \A term \in Term : Increasing(MergeSources(lists)[term])
      /\ \A a \in DOMAIN saved.addresses : saved.addresses[a] \in ids
      /\ saved.manifest.purged <= Cardinality({id \in ids : saved.documents[id].deleted})

InvertedSound == InvertedTypeOK /\ SearchesFindTheRows /\ OpensAfterACrash

=============================================================================
