----------------------------- MODULE Retrieval ------------------------------
(***************************************************************************)
(* The question bank: rag-index puts the chunks of a directory of files    *)
(* and their vectors into one SQLite file (internal/rag/indexer, store,    *)
(* embedding), and the server searches it in two ways at once, by vectors  *)
(* in the table and by words in an index it loaded into memory, and fuses  *)
(* the two lists (internal/rag/retriever).                                 *)
(*                                                                         *)
(* rag-index is a process of its own that may run, twice even, beside the  *)
(* server and beside an editor of the files.  A step is one file           *)
(* operation, one query, one transaction or one call of the embedding      *)
(* service.                                                                *)
(***************************************************************************)
EXTENDS Chunker

CONSTANTS
    NumFiles,       \* markdown files of the directory, in the order of the walk
    FileTexts,      \* what a file may hold, as sequences of lines
    MaxRewrites,    \* changes of a file on disk
    Indexers,       \* runs of rag-index
    EmbeddingModels,\* the first is configured first; vectors of two have other lengths
    BatchSize,      \* texts per call of the embedding service
    MaxTopK, TopK,  \* hits either way may find, and hits that are asked for
    RrfConstant,    \* rrfConstant of the code
    MaxSearches,
    Cosine(_), Terms(_) \* how near a chunk is to the query, and how many of its words it has

FilePaths == 1..NumFiles

ASSUME RetrievalAssumption ==
    /\ NumFiles \in Nat /\ MaxRewrites \in Nat /\ MaxSearches \in Nat
    /\ BatchSize \in Nat \ {0} /\ TopK \in 1..MaxTopK /\ RrfConstant \in Nat
    /\ EmbeddingModels # <<>>

VARIABLES
    fileOnDisk,     \* the file of every path: [there, lines]
    documents,      \* rag_documents by path: id (0: no row) and the content of the hash
    chunkRows,      \* rag_chunks: [id, doc, path, ord, chunk]
    vectorRows,     \* rag_vec: [chunk, of, model]
    lastIds,        \* AUTOINCREMENT of both tables
    model,          \* the embedding model configured now
    indexRun,       \* per run of rag-index: where it is
    words,          \* the BM25 index of the server: [loaded, rows]
    searching,      \* the search in progress, both ways
    answered,       \* the last search's two lists and what it returned
    rewrites, searches,
    everStored,     \* history: chunk rows that were ever in the table
    undisturbed     \* history: runs since whose start nothing else touched files or table

indexVars == <<documents, chunkRows, vectorRows, lastIds, everStored>>
searchVars == <<words, searching, answered, searches>>
retrievalVars == <<fileOnDisk, indexVars, model, indexRun, searchVars, rewrites, undisturbed>>

NotThere == [there |-> FALSE, lines |-> <<>>]
NoDocument == [id |-> 0, lines |-> <<>>]
IndexIdle == [at |-> "idle", path |-> 0, lines |-> <<>>, old |-> 0, vectors |-> <<>>,
              model |-> 0, failed |-> {}]
NotSearching == [byVector |-> "idle", byWord |-> "idle", model |-> 0, ranked |-> <<>>,
                 vectorHits |-> <<>>, wordHits |-> <<>>]
NothingFound == [byVector |-> <<>>, byWord |-> <<>>, hits |-> <<>>]

\* The chunks of every content, worked out once.
ChunksOf == [ls \in FileTexts \cup {<<>>} |-> SplitMarkdown(Joined(ls))]

RetrievalTypeOK ==
    /\ \A p \in FilePaths : fileOnDisk[p].there \in BOOLEAN /\ documents[p].id \in 0..lastIds.doc
    /\ \A r \in chunkRows : r.id \in 1..lastIds.chunk /\ r.path \in FilePaths
    /\ \A v \in vectorRows : v.chunk \in 1..lastIds.chunk /\ v.model \in DOMAIN EmbeddingModels
    /\ model \in DOMAIN EmbeddingModels
    /\ \A x \in Indexers : indexRun[x].at \in {"idle", "walk", "look", "embed", "store", "over"}
    /\ words.loaded \in BOOLEAN
    /\ searching.byVector \in {"idle", "embed", "scan", "join", "done", "failed"}
    /\ searching.byWord \in {"idle", "load", "rank", "done", "failed"}

RetrievalInit ==
    /\ fileOnDisk = [p \in FilePaths |-> NotThere]
    /\ documents = [p \in FilePaths |-> NoDocument]
    /\ chunkRows = {} /\ vectorRows = {} /\ lastIds = [doc |-> 0, chunk |-> 0]
    /\ model = 1
    /\ indexRun = [x \in Indexers |-> IndexIdle]
    /\ words = [loaded |-> FALSE, rows |-> {}]
    /\ searching = NotSearching /\ answered = NothingFound
    /\ rewrites = 0 /\ searches = 0
    /\ everStored = {} /\ undisturbed = {}

-----------------------------------------------------------------------------
(***************************************************************************)
(* The embedding service and its client.                                   *)
(***************************************************************************)

\* A reply names the input of each vector and may be in any order.
Replies(n) == UNION {[1..m -> 0..n] : m \in 0..n}

\* Mutant: the vectors are taken in the order of the reply.
Reindexed_AsSent(reply, batch) == [i \in DOMAIN batch |-> batch[reply[i] + 1]]

\* Every vector is put at the place its index names.
Reindexed(reply, batch) ==
    [i \in DOMAIN batch |-> batch[reply[CHOOSE j \in DOMAIN reply : reply[j] = i - 1] + 1]]

\* A reply that is short, names an input twice or one that was not sent, is refused.
AcceptedReply(reply, batch) ==
    /\ Len(reply) = Len(batch)
    /\ \A i \in DOMAIN batch : \E j \in DOMAIN reply : reply[j] = i - 1

\* What a batch may come back as: what each vector is the vector of, or nothing.
EmbedBatch(batch) ==
    {Reindexed(reply, batch) : reply \in {r \in Replies(Len(batch)) : AcceptedReply(r, batch)}}

\* The batches of a text go one after another; one that fails fails them all.
Embeddings(texts) ==
    LET Batch(b) == SubSeq(texts, (b - 1) * BatchSize + 1,
                           IF b * BatchSize < Len(texts) THEN b * BatchSize ELSE Len(texts))
        numBatches == (Len(texts) + BatchSize - 1) \div BatchSize
    IN FoldLeft(LAMBDA all, b : {done \o next : done \in all, next \in EmbedBatch(Batch(b))},
                {<<>>}, [b \in 1..numBatches |-> b])

-----------------------------------------------------------------------------
(***************************************************************************)
(* rag-index.  A run walks the files in order; one that fails does not     *)
(* stop the others.                                                        *)
(***************************************************************************)
IndexStep(x, run) == indexRun' = [indexRun EXCEPT ![x] = run]

\* On to the next file, or the end of the walk.
NextFile(x, ok) ==
    LET run == indexRun[x]
        failed == IF ok THEN run.failed ELSE run.failed \cup {run.path}
    IN IndexStep(x, [IndexIdle EXCEPT !.at = IF run.path < NumFiles THEN "walk" ELSE "over",
                                      !.path = IF run.path < NumFiles THEN run.path + 1 ELSE run.path,
                                      !.model = run.model, !.failed = failed])

StartIndexing(x) ==
    /\ indexRun[x].at = "idle"
    /\ IndexStep(x, [IndexIdle EXCEPT !.at = "walk", !.path = 1, !.model = model])
    /\ undisturbed' = IF \E y \in Indexers : indexRun[y].at \notin {"idle", "over"}
                        THEN {} ELSE {x}
    /\ UNCHANGED <<fileOnDisk, indexVars, model, searchVars, rewrites>>

\* The file is read; one that vanished fails, an empty one is left as it was.
ReadDocument(x) ==
    LET file == fileOnDisk[indexRun[x].path]
    IN /\ indexRun[x].at = "walk"
       /\ IF ~file.there \/ file.lines = <<>>
            THEN NextFile(x, file.there)
            ELSE IndexStep(x, [indexRun[x] EXCEPT !.at = "look", !.lines = file.lines])
       /\ UNCHANGED <<fileOnDisk, indexVars, model, searchVars, rewrites, undisturbed>>

\* A content the table has is skipped, and so is one without a chunk.
LookUpDocument(x) ==
    LET run == indexRun[x]
        row == documents[run.path]
    IN /\ run.at = "look"
       /\ IF (row.id # 0 /\ row.lines = run.lines) \/ ChunksOf[run.lines] = <<>>
            THEN NextFile(x, TRUE)
            ELSE IndexStep(x, [run EXCEPT !.at = "embed", !.old = row.id])
       /\ UNCHANGED <<fileOnDisk, indexVars, model, searchVars, rewrites, undisturbed>>

\* The vectors are fetched before the transaction begins.
EmbedDocument(x) ==
    /\ indexRun[x].at = "embed"
    /\ \E vectors \in Embeddings(ChunksOf[indexRun[x].lines]) :
          IndexStep(x, [indexRun[x] EXCEPT !.at = "store", !.vectors = vectors])
    /\ UNCHANGED <<fileOnDisk, indexVars, model, searchVars, rewrites, undisturbed>>

\* AUTOINCREMENT: an id is never given out again.
FreshChunkId == lastIds.chunk

\* One transaction: the old row goes with its chunks and vectors, the new rows come;
\* a path that got a row in the meantime is a conflict and everything is rolled back.
StoreDocument(x) ==
    LET run == indexRun[x]
        cut == ChunksOf[run.lines]
        kept == {r \in chunkRows : r.doc # run.old}
        base == FreshChunkId
        fresh == {[id |-> base + i, doc |-> lastIds.doc + 1, path |-> run.path, ord |-> i,
                   chunk |-> cut[i]] : i \in DOMAIN cut}
    IN /\ run.at = "store"
       /\ IF documents[run.path].id \notin {0, run.old}
            THEN NextFile(x, FALSE) /\ UNCHANGED <<indexVars, undisturbed>>
            ELSE /\ documents' = [documents EXCEPT ![run.path] =
                                    [id |-> lastIds.doc + 1, lines |-> run.lines]]
                 /\ chunkRows' = kept \cup fresh
                 /\ vectorRows' = {v \in vectorRows : \E r \in kept : r.id = v.chunk}
                                  \cup {[chunk |-> base + i, of |-> run.vectors[i], model |-> run.model]
                                        : i \in DOMAIN cut}
                 /\ lastIds' = [doc |-> lastIds.doc + 1, chunk |-> lastIds.chunk + Len(cut)]
                 /\ everStored' = everStored \cup fresh
                 /\ undisturbed' = undisturbed \cap {x}
                 /\ NextFile(x, TRUE)
       /\ UNCHANGED <<fileOnDisk, model, searchVars, rewrites>>

Indexing(x) == indexRun[x].at \in {"walk", "look", "embed", "store"}

\* The file cannot be read, the service does not answer, or the table is locked by another
\* writer; a transaction is rolled back.
IndexingFails(x) ==
    /\ Indexing(x)
    /\ NextFile(x, FALSE)
    /\ UNCHANGED <<fileOnDisk, indexVars, model, searchVars, rewrites, undisturbed>>

\* The process is stopped.
StopIndexing(x) ==
    /\ Indexing(x)
    /\ IndexStep(x, [IndexIdle EXCEPT !.at = "over", !.failed = FilePaths])
    /\ UNCHANGED <<fileOnDisk, indexVars, model, searchVars, rewrites, undisturbed>>

\* Somebody writes, empties or removes a file.
RewriteFile(p) ==
    /\ rewrites < MaxRewrites
    /\ rewrites' = rewrites + 1
    /\ \E file \in {NotThere} \cup {[there |-> TRUE, lines |-> ls] : ls \in FileTexts} :
          file # fileOnDisk[p] /\ fileOnDisk' = [fileOnDisk EXCEPT ![p] = file]
    /\ undisturbed' = {}
    /\ UNCHANGED <<indexVars, model, indexRun, searchVars>>

\* Another embedding model is configured, which takes effect with the next start of
\* either process; what the server had loaded is gone with it.
ChangeModel ==
    /\ model < Len(EmbeddingModels)
    /\ model' = model + 1
    /\ words' = [loaded |-> FALSE, rows |-> {}]
    /\ searching' = NotSearching /\ answered' = NothingFound
    /\ UNCHANGED <<fileOnDisk, indexVars, indexRun, searches, rewrites, undisturbed>>

-----------------------------------------------------------------------------
(***************************************************************************)
(* A search.  A hit is a chunk row; ties may be ranked either way.         *)
(***************************************************************************)
Rankings(score, most) ==
    LET S == DOMAIN score
        n == IF Cardinality(S) < most THEN Cardinality(S) ELSE most
    IN {f \in [1..n -> S] :
          /\ \A i, j \in 1..n : i < j => f[i] # f[j] /\ score[f[i]] >= score[f[j]]
          /\ \A s \in S : (\E i \in 1..n : f[i] = s) \/ \A i \in 1..n : score[f[i]] >= score[s]}

StartSearch ==
    /\ searching = NotSearching
    /\ searches < MaxSearches
    /\ searches' = searches + 1
    /\ searching' = [NotSearching EXCEPT !.byVector = "embed", !.byWord = "load", !.model = model]
    /\ UNCHANGED <<fileOnDisk, indexVars, model, indexRun, words, answered, rewrites, undisturbed>>

OnlySearching ==
    UNCHANGED <<fileOnDisk, indexVars, model, indexRun, answered, searches, rewrites, undisturbed>>

\* BruteForce.Search: the vector of the query, one scan of all vectors, one join.
EmbedQuery ==
    /\ searching.byVector = "embed"
    /\ searching' = [searching EXCEPT !.byVector = "scan"]
    /\ OnlySearching /\ UNCHANGED words

\* Vectors of another length are skipped; to skip them all is an error.
ScanVectors ==
    LET near == {v \in vectorRows : v.model = searching.model}
    IN /\ searching.byVector = "scan"
       /\ IF vectorRows # {} /\ near = {}
            THEN searching' = [searching EXCEPT !.byVector = "failed"]
            ELSE \E ranked \in Rankings([v \in near |-> Cosine(v.of)], MaxTopK) :
                    searching' = [searching EXCEPT !.byVector = "join", !.ranked = ranked]
       /\ OnlySearching /\ UNCHANGED words

\* A chunk that has gone since the scan leaves no hit.
JoinChunks ==
    LET Here(v) == \E r \in chunkRows : r.id = v.chunk
        Row(v) == CHOOSE r \in chunkRows : r.id = v.chunk
        left == SelectSeq(searching.ranked, Here)
    IN /\ searching.byVector = "join"
       /\ searching' = [searching EXCEPT !.byVector = "done", !.ranked = <<>>,
                          !.vectorHits = [i \in DOMAIN left |-> Row(left[i])]]
       /\ OnlySearching /\ UNCHANGED words

\* The service or one of the queries fails.
VectorSearchFails ==
    /\ searching.byVector \in {"embed", "scan", "join"}
    /\ searching' = [searching EXCEPT !.byVector = "failed", !.ranked = <<>>]
    /\ OnlySearching /\ UNCHANGED words

\* BM25.Search: the words are loaded once, with the first search that succeeds in it.
LoadWords ==
    /\ searching.byWord = "load"
    /\ \/ /\ words' = IF words.loaded THEN words ELSE [loaded |-> TRUE, rows |-> chunkRows]
          /\ searching' = [searching EXCEPT !.byWord = "rank"]
       \/ /\ ~words.loaded
          /\ searching' = [searching EXCEPT !.byWord = "failed"]
          /\ UNCHANGED words
    /\ OnlySearching

RankWords ==
    /\ searching.byWord = "rank"
    /\ LET matching == {r \in words.rows : Terms(r.chunk) > 0}
       IN \E hits \in Rankings([r \in matching |-> Terms(r.chunk)], MaxTopK) :
          searching' = [searching EXCEPT !.byWord = "done", !.wordHits = hits]
    /\ OnlySearching /\ UNCHANGED words

\* Hybrid.Search: 1/(k + rank) summed over the lists, in units that make it whole.
RankUnit == FoldLeft(LAMBDA n, i : n * (RrfConstant + i), 1, [i \in 1..MaxTopK |-> i])

RankScore(hits, id) ==
    LET at == {i \in DOMAIN hits : hits[i].id = id}
    IN IF at = {} THEN 0 ELSE RankUnit \div (RrfConstant + CHOOSE i \in at : TRUE)

\* The first list that has a chunk supplies the hit.
Fused(first, second) ==
    LET ids == {h.id : h \in Range(first) \cup Range(second)}
        score == [id \in ids |-> RankScore(first, id) + RankScore(second, id)]
        HitOf(id) == IF \E h \in Range(first) : h.id = id
                       THEN CHOOSE h \in Range(first) : h.id = id
                       ELSE CHOOSE h \in Range(second) : h.id = id
    IN {[i \in DOMAIN ranked |-> HitOf(ranked[i])] : ranked \in Rankings(score, TopK)}

FuseHits ==
    /\ searching.byVector \in {"done", "failed"}
    /\ searching.byWord \in {"done", "failed"}
    /\ \E hits \in Fused(searching.vectorHits, searching.wordHits) :
          answered' = [byVector |-> searching.vectorHits, byWord |-> searching.wordHits,
                       hits |-> hits]
    /\ searching' = NotSearching
    /\ UNCHANGED <<fileOnDisk, indexVars, model, indexRun, words, searches, rewrites, undisturbed>>

RetrievalNext ==
    \/ \E x \in Indexers :
        \/ StartIndexing(x) \/ ReadDocument(x) \/ LookUpDocument(x) \/ EmbedDocument(x)
        \/ StoreDocument(x) \/ IndexingFails(x) \/ StopIndexing(x)
    \/ \E p \in FilePaths : RewriteFile(p)
    \/ ChangeModel
    \/ StartSearch \/ EmbedQuery \/ ScanVectors \/ JoinChunks \/ VectorSearchFails \/ LoadWords \/ RankWords
    \/ FuseHits

-----------------------------------------------------------------------------
\* Two runs, failures and kills leave the table whole: every document has all chunks
\* of one content its file had, in order, each with the vector of its own text, and
\* nothing is there that belongs to no document.
IndexIsWhole ==
    /\ \A p \in FilePaths :
          LET rows == {r \in chunkRows : r.path = p}
              cut == ChunksOf[documents[p].lines]
          IN IF documents[p].id = 0 THEN rows = {}
             ELSE {<<r.doc, r.ord, r.chunk>> : r \in rows}
                    = {<<documents[p].id, i, cut[i]>> : i \in DOMAIN cut}
    /\ \A r, s \in chunkRows : r.id = s.id => r = s
    /\ {v.chunk : v \in vectorRows} = {r.id : r \in chunkRows}
    /\ \A v \in vectorRows : \E r \in chunkRows : r.id = v.chunk /\ r.chunk = v.of

\* A run that nothing disturbed has left every file it did not fail on as it is on
\* disk, apart from files in which there is nothing to find.
RunsCatchUp ==
    \A x \in undisturbed : indexRun[x].at = "over" =>
        \A p \in FilePaths \ indexRun[x].failed :
            ChunksOf[fileOnDisk[p].lines] = <<>> \/ documents[p].lines = fileOnDisk[p].lines

\* A hit is a chunk as it was stored, ranked by its own text, although the table may
\* be rebuilt between scan and join and the words are those of the first search: an
\* id means one chunk for ever.
HitsAreThemselves ==
    /\ Range(answered.hits) \subseteq everStored
    /\ \A i, j \in DOMAIN answered.byVector :
          i < j => Cosine(answered.byVector[i].chunk) >= Cosine(answered.byVector[j].chunk)
    /\ \A h \in Range(answered.byVector), k \in Range(answered.byWord) : h.id = k.id => h = k

\* No chunk comes twice, and one that a list has in front of another, which no list
\* has in front of it, comes first or alone.
FusionIsFair ==
    LET hits == answered.hits
        Ahead(list, h, k) ==   \* h is in the list and k comes after it or not at all
            \E i \in DOMAIN list : list[i].id = h.id /\ \A j \in DOMAIN list : list[j].id = k.id => i < j
        Better(h, k) ==
            /\ Ahead(answered.byVector, h, k) \/ Ahead(answered.byWord, h, k)
            /\ ~Ahead(answered.byVector, k, h) /\ ~Ahead(answered.byWord, k, h)
    IN /\ \A i, j \in DOMAIN hits : hits[i].id = hits[j].id => i = j
       /\ \A j \in DOMAIN hits : \A h \in Range(answered.byVector) \cup Range(answered.byWord) :
             Better(h, hits[j]) => \E i \in 1..j - 1 : hits[i].id = h.id

\* The five together: what the model is given for a question is in the bank, whole
\* and in order.
RetrievalIsFaithful ==
    ChunksAreWhole /\ IndexIsWhole /\ RunsCatchUp /\ HitsAreThemselves /\ FusionIsFair

RetrievalSpec == RetrievalInit /\ [][RetrievalNext]_retrievalVars
=============================================================================
