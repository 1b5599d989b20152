----------------------------- MODULE Evaluation -----------------------------
(***************************************************************************)
(* The retrieval benchmark, scripts/eval_beir.py: it downloads and unpacks *)
(* a dataset once, embeds the corpus once per embedder, and scores the     *)
(* rankings of the retrieval code.  What it keeps between runs are files   *)
(* that it writes in place and takes as finished when it finds them.  Runs *)
(* follow one another, and any of them may be killed.                      *)
(*                                                                         *)
(* A document stands for its line of corpus.jsonl, and an embedder for     *)
(* those of its class name and model.  The discounts 1 / log2(rank + 1)    *)
(* are integers in the same order; metrics are fractions.                  *)
(***************************************************************************)
EXTENDS Integers, Sequences, FiniteSets, SequencesExt

CONSTANTS
  Corpus,         \* the dataset's documents, a sequence without repetition
  Archives,       \* orders in which the archive may hold Members
  Embedders,      \* their cache slugs
  Grades,         \* of relevance
  Depth,          \* METRIC_K
  Discount,       \* by rank, up to Depth
  MaxKills        \* bound on killed runs

Members == {"corpus", "queries", "qrels"}

ASSUME CorpusAssumption == Corpus \in Seq(ToSet(Corpus)) /\ IsInjective(Corpus)
ASSUME ArchivesAssumption == Archives \subseteq [1..3 -> Members] /\ \A a \in Archives : IsInjective(a)
ASSUME GradesAssumption == Grades \subseteq Nat \ {0}
ASSUME DiscountAssumption ==
  /\ Depth \in Nat \ {0} /\ Discount \in [1..Depth -> Nat \ {0}]
  /\ \A i \in 2..Depth : Discount[i] < Discount[i - 1]

VARIABLES
  archive,        \* the order of the archive in use
  zip,            \* <name>.zip: "absent", "torn" or "whole"
  dataset,        \* the dataset's files: NoFile, or their lines
  cache,          \* by slug, embeddings__<slug>.jsonl: NoFile, or its rows
  stage,          \* where the run is, "idle" if there is none
  embedder, docs, vectors,    \* what it holds
  result          \* its last query's labels and ranking

(* History variables: killed runs, and whether the dataset is what one of  *)
(* them left of an unpacking.                                              *)
VARIABLES kills, unpackKilled

fileVars == <<archive, zip, dataset, cache>>
runVars == <<embedder, docs, vectors, result>>
killVars == <<kills, unpackKilled>>
evalVars == <<archive, zip, dataset, cache, stage, embedder, docs, vectors, result, kills, unpackKilled>>

NoFile == [lines |-> << >>, torn |-> TRUE, written |-> FALSE]
NoResult == [labels |-> << >>, ranking |-> << >>]

(* A file ends where its writer was: after a line, or within one. *)
File(lines, torn) == [lines |-> lines, torn |-> torn, written |-> TRUE]
Unfinished(lines) == {File(SubSeq(lines, 1, n), torn) : n \in 0..(Len(lines) - 1), torn \in BOOLEAN}

(* The queries and the labels are a line each. *)
LinesOf(member) == IF member = "corpus" THEN Corpus ELSE <<member>>
Whole(member) == File(LinesOf(member), FALSE)

EvalInit ==
  /\ archive \in Archives
  /\ zip = "absent"
  /\ dataset = [member \in Members |-> NoFile]
  /\ cache = [e \in Embedders |-> NoFile]
  /\ stage = "idle"
  /\ embedder \in Embedders /\ docs = << >> /\ vectors = << >> /\ result = NoResult
  /\ kills = 0 /\ unpackKilled = FALSE

-----------------------------------------------------------------------------
(* ensure_dataset                                                          *)

Launch(e) ==
  /\ stage = "idle"
  /\ embedder' = e
  /\ stage' = "dataset"
  /\ UNCHANGED <<fileVars, docs, vectors, result, killVars>>

(* corpus.jsonl is the marker: its presence stands for the whole dataset.  *)
DatasetFound ==
  /\ stage = "dataset" /\ dataset["corpus"].written
  /\ stage' = "read"
  /\ UNCHANGED <<fileVars, runVars, killVars>>

DatasetMissing ==
  /\ stage = "dataset" /\ ~dataset["corpus"].written
  /\ stage' = CASE zip = "absent" -> "downloading"
               [] zip = "whole" -> "unpacking"
               [] zip = "torn" -> "failed"
  /\ UNCHANGED <<fileVars, runVars, killVars>>

Downloaded ==
  /\ stage = "downloading"
  /\ zip' = "whole"
  /\ stage' = "unpacking"
  /\ UNCHANGED <<archive, dataset, cache, runVars, killVars>>

(* urlretrieve raises, before or after it has opened the file. *)
DownloadFails ==
  /\ stage = "downloading"
  /\ zip' \in {"absent", "torn"}
  /\ stage' = "failed"
  /\ UNCHANGED <<archive, dataset, cache, runVars, killVars>>

Unpacked ==
  /\ stage = "unpacking"
  /\ dataset' = [member \in Members |-> Whole(member)]
  /\ unpackKilled' = FALSE
  /\ stage' = "read"
  /\ UNCHANGED <<archive, zip, cache, runVars, kills>>

(* Killed at the i-th member: those before it are whole, those after it as *)
(* they were.                                                              *)
UnpackKilled ==
  \E i \in 1..3 : \E file \in Unfinished(LinesOf(archive[i])) :
    dataset' = [member \in Members |->
                IF member = archive[i] THEN file
                ELSE IF \E j \in 1..i : archive[j] = member THEN Whole(member)
                ELSE dataset[member]]

-----------------------------------------------------------------------------
(* main and build_retriever                                                *)

Readable(file) == file.written /\ ~file.torn

ReadDataset ==
  /\ stage = "read"
  /\ \/ /\ \A member \in Members : Readable(dataset[member])
        /\ docs' = dataset["corpus"].lines
        /\ stage' = "embed"
     \/ /\ \E member \in Members : ~Readable(dataset[member])
        /\ stage' = "failed"
        /\ UNCHANGED docs
  /\ UNCHANGED <<fileVars, embedder, vectors, result, killVars>>

Vector(e, d) == [of |-> d, by |-> e]

(* Slip: the embeddings are cached under one name for every embedder. *)
OneSlot(e) == CHOOSE any \in Embedders : TRUE

(* embedder_cache_slug *)
Slot(e) == e

(* load_cached_embeddings: the same documents in the same order, or none. *)
Matches(rows, ids) == [i \in DOMAIN rows |-> rows[i].id] = ids

UseCached ==
  /\ stage = "embed"
  /\ Readable(cache[Slot(embedder)]) /\ Matches(cache[Slot(embedder)].lines, docs)
  /\ vectors' = [i \in DOMAIN docs |-> cache[Slot(embedder)].lines[i].embedding]
  /\ stage' = "index"
  /\ UNCHANGED <<fileVars, embedder, docs, result, killVars>>

(* A line that does not parse raises. *)
CacheUnreadable ==
  /\ stage = "embed"
  /\ cache[Slot(embedder)].written /\ cache[Slot(embedder)].torn
  /\ stage' = "failed"
  /\ UNCHANGED <<fileVars, runVars, killVars>>

EmbedCorpus ==
  /\ stage = "embed"
  /\ \/ ~cache[Slot(embedder)].written
     \/ Readable(cache[Slot(embedder)]) /\ ~Matches(cache[Slot(embedder)].lines, docs)
  /\ \/ /\ vectors' = [i \in DOMAIN docs |-> Vector(embedder, docs[i])]
        /\ stage' = "caching"
     \/ stage' = "failed" /\ UNCHANGED vectors
  /\ UNCHANGED <<fileVars, embedder, docs, result, killVars>>

Rows == [i \in DOMAIN docs |-> [id |-> docs[i], embedding |-> vectors[i]]]

WriteCached ==
  /\ stage = "caching"
  /\ cache' = [cache EXCEPT ![Slot(embedder)] = File(Rows, FALSE)]
  /\ stage' = "index"
  /\ UNCHANGED <<archive, zip, dataset, runVars, killVars>>

WriteKilled ==
  \E file \in Unfinished(Rows) : cache' = [cache EXCEPT ![Slot(embedder)] = file]

(* The index is written and loaded again by the same run. *)
BuildIndex ==
  /\ stage = "index"
  /\ stage' = "score"
  /\ UNCHANGED <<fileVars, runVars, killVars>>

(* evaluate_lanes, of which one query is kept: any labels, and any ranking *)
(* of documents of the index.                                              *)
Score ==
  /\ stage = "score"
  /\ \E labelled \in SUBSET ToSet(Corpus) :
       \E labels \in [labelled -> Grades], ranking \in UNION {[1..n -> ToSet(docs)] : n \in 0..Len(docs)} :
         /\ labelled # {} /\ IsInjective(ranking)
         /\ result' = [labels |-> labels, ranking |-> ranking]
  /\ stage' = "reported"
  /\ UNCHANGED <<fileVars, embedder, docs, vectors, killVars>>

Exit ==
  /\ stage \in {"reported", "failed"}
  /\ stage' = "idle"
  /\ docs' = << >> /\ vectors' = << >> /\ result' = NoResult
  /\ UNCHANGED <<fileVars, embedder, killVars>>

Kill ==
  /\ stage \notin {"idle", "reported", "failed"} /\ kills < MaxKills
  /\ kills' = kills + 1
  /\ unpackKilled' = (unpackKilled \/ stage = "unpacking")
  /\ IF stage = "downloading" THEN zip' \in {"absent", "torn"} ELSE UNCHANGED zip
  /\ IF stage = "unpacking" THEN UnpackKilled ELSE UNCHANGED dataset
  /\ IF stage = "caching" THEN WriteKilled ELSE UNCHANGED cache
  /\ stage' = "idle"
  /\ docs' = << >> /\ vectors' = << >>
  /\ UNCHANGED <<archive, embedder, result>>

(* The user removes the dataset, to have it unpacked again, or downloaded; *)
(* the embeddings are kept in its directory, and may go with it.           *)
Discard ==
  /\ stage = "idle"
  /\ dataset' = [member \in Members |-> NoFile]
  /\ zip' \in {zip, "absent"}
  /\ cache' \in {cache, [e \in Embedders |-> NoFile]}
  /\ unpackKilled' = FALSE
  /\ UNCHANGED <<archive, stage, runVars, kills>>

EvalNext ==
  \/ \E e \in Embedders : Launch(e)
  \/ DatasetFound \/ DatasetMissing \/ Downloaded \/ DownloadFails \/ Unpacked
  \/ ReadDataset \/ UseCached \/ CacheUnreadable \/ EmbedCorpus \/ WriteCached
  \/ BuildIndex \/ Score \/ Exit
  \/ Kill \/ Discard

EvalSpec == EvalInit /\ [][EvalNext]_evalVars

-----------------------------------------------------------------------------
(* The metrics of a ranking; a document without a label is not relevant.   *)

Grade(labels, d) == IF d \in DOMAIN labels THEN labels[d] ELSE 0
Gain(grade) == 2^grade - 1
Top(s) == SubSeq(s, 1, IF Len(s) < Depth THEN Len(s) ELSE Depth)
GradesOf(labels, ranking) == [i \in DOMAIN ranking |-> Grade(labels, ranking[i])]

(* dcg_at_k *)
DCG(grades) ==
  FoldLeftDomain(LAMBDA sum, i : sum + Gain(Top(grades)[i]) * Discount[i], 0, Top(grades))

Sorted(grades) == SortSeq(grades, LAMBDA a, b : a > b)

(* Slip: the ideal is the best order of what was ranked. *)
IdealOfRanked(labels, ranking) == Sorted(GradesOf(labels, Top(ranking)))

(* The ideal is the best order of what is labelled. *)
Ideal(labels, ranking) == Sorted(GradesOf(labels, SetToSeq(DOMAIN labels)))

NDCG(labels, ranking) ==
  [num |-> DCG(GradesOf(labels, ranking)), den |-> DCG(Ideal(labels, ranking))]

Recall(labels, ranking) ==
  [num |-> Cardinality(DOMAIN labels \cap ToSet(Top(ranking))), den |-> Cardinality(DOMAIN labels)]

Hits(labels, ranking) == {i \in DOMAIN Top(ranking) : ranking[i] \in DOMAIN labels}

MRR(labels, ranking) ==
  IF Hits(labels, ranking) = {} THEN [num |-> 0, den |-> 1]
  ELSE [num |-> 1, den |-> CHOOSE i \in Hits(labels, ranking) : \A j \in Hits(labels, ranking) : i <= j]

-----------------------------------------------------------------------------
(* Whatever was killed before, and whichever embedders ran in between: a   *)
(* run scores each document by the vector its own embedder gives it, and,  *)
(* unless it found an unpacking that was killed, it scores all documents   *)
(* (eval_beir.py:168, 231, 243).                                           *)
ScoredByItsOwnVectors ==
  stage \in {"score", "reported"} =>
    /\ vectors = [i \in DOMAIN docs |-> Vector(embedder, docs[i])]
    /\ ~unpackKilled => docs = Corpus

AtMost(m, n) == m.num * n.den <= n.num * m.den
One == [num |-> 1, den |-> 1]

(* Where a ranking has a document before a more relevant one. *)
Misplaced(labels, ranking) ==
  {i \in 1..(Len(ranking) - 1) : Grade(labels, ranking[i]) < Grade(labels, ranking[i + 1])}

Swapped(s, i) == [s EXCEPT ![i] = s[i + 1], ![i + 1] = s[i]]

(* Recall and the reciprocal rank are at most 1, both 0 or neither, and to *)
(* move a more relevant document up costs nothing by either                *)
(* (eval_beir.py:62-78).                                                   *)
HitsAreSound(labels, ranking) ==
  LET recall == Recall(labels, ranking)
      mrr == MRR(labels, ranking)
  IN /\ AtMost(recall, One) /\ AtMost(mrr, One)
     /\ recall.num = 0 <=> mrr.num = 0
     /\ \A i \in Misplaced(labels, ranking) :
          /\ AtMost(recall, Recall(labels, Swapped(ranking, i)))
          /\ AtMost(mrr, MRR(labels, Swapped(ranking, i)))

(* So it is of nDCG, which is 0 when recall is, and 1 exactly for a        *)
(* ranking that begins as the ideal does (eval_beir.py:44-59).             *)
GainIsSound(labels, ranking) ==
  LET ndcg == NDCG(labels, ranking)
      best == Top(Sorted(GradesOf(labels, SetToSeq(DOMAIN labels))))
  IN /\ AtMost(ndcg, One)
     /\ ndcg.num = 0 <=> Recall(labels, ranking).num = 0
     /\ AtMost(One, ndcg) <=>
          \A i \in DOMAIN best : i <= Len(ranking) /\ Grade(labels, ranking[i]) = best[i]
     /\ \A i \in Misplaced(labels, ranking) : AtMost(ndcg, NDCG(labels, Swapped(ranking, i)))

(* The metrics of any query agree with one another, with the labels and    *)
(* with the order of the ranking (eval_beir.py:44-78).                     *)
MetricsAreSound ==
  stage = "reported" =>
    HitsAreSound(result.labels, result.ranking) /\ GainIsSound(result.labels, result.ranking)
=============================================================================
