---------------------------- MODULE FilesProofs -----------------------------
(***************************************************************************)
(* Proofs about the programs that turn files into files, for every corpus, *)
(* document and setting.                                                   *)
(*                                                                         *)
(* The benchmark (Evaluation) and the index (IndexStore) write in place    *)
(* and may be killed, any number of times.  What is on disk is constrained *)
(* as the writer leaves it, wherever it stopped; what a reader then holds  *)
(* follows.  The benchmark: rows of an embedder's cache hold that          *)
(* embedder's vectors, however many there are, and without a killed        *)
(* unpacking the corpus is whole or missing; the metrics that count hits   *)
(* are sound for every ranking (HitsSound).  The index:                    *)
(* IncompleteIsNeverSilent speaks of what was loaded, and says nothing of  *)
(* a service still starting; ServiceWell and LoadsWhatItChecked follow it  *)
(* from the manifest to the last line.                                     *)
(*                                                                         *)
(* Ingestion (Ingest): what comes out of each loop covers what went in, so *)
(* the chunks cover the document; IngestInv says it of every round.        *)
(***************************************************************************)
EXTENDS IndexStore, Evaluation, Ingest, FiniteSetTheorems, SequenceTheorems,
        WellFoundedInduction, TLAPS

CacheHonest ==
  \A e \in Embedders : \A i \in DOMAIN cache[e].lines :
    cache[e].lines[i].embedding = Vector(e, cache[e].lines[i].id)

DatasetWhole == ~unpackKilled => dataset["corpus"] \in {NoFile, Whole("corpus")}

DocsRead ==
  stage \in {"embed", "caching", "index", "score", "reported"} =>
    docs \in Seq(ToSet(Corpus)) /\ (~unpackKilled => docs = Corpus)

VectorsMade ==
  stage \in {"caching", "index", "score", "reported"} =>
    vectors = [i \in DOMAIN docs |-> Vector(embedder, docs[i])]

HeldTypes ==
  /\ embedder \in Embedders /\ zip \in {"absent", "torn", "whole"}
  /\ DOMAIN cache = Embedders /\ DOMAIN dataset = Members
  /\ dataset["corpus"].lines \in Seq(ToSet(Corpus))

IInv == CacheHonest /\ DatasetWhole /\ DocsRead /\ VectorsMade /\ HeldTypes

(* Every prefix of the rows a run writes is honest. *)
LEMMA RowsHonest ==
  ASSUME IInv, stage = "caching", NEW file \in Unfinished(Rows) \cup {File(Rows, FALSE)}
  PROVE  \A i \in DOMAIN file.lines :
           file.lines[i].embedding = Vector(embedder, file.lines[i].id)
<1>1. /\ docs \in Seq(ToSet(Corpus))
      /\ vectors = [i \in DOMAIN docs |-> Vector(embedder, docs[i])]
  BY DEF IInv, DocsRead, VectorsMade
<1> DEFINE Row == [id : ToSet(Corpus), embedding : {Vector(embedder, d) : d \in ToSet(Corpus)}]
<1>2. /\ Rows \in Seq(Row) /\ DOMAIN Rows = 1..Len(Rows)
      /\ \A i \in DOMAIN Rows : Rows[i].embedding = Vector(embedder, Rows[i].id)
  <2>1. DOMAIN docs = 1..Len(docs) /\ Len(docs) \in Nat /\ \A i \in DOMAIN docs : docs[i] \in ToSet(Corpus)
    BY <1>1
  <2>2. \A i \in DOMAIN docs : vectors[i] = Vector(embedder, docs[i])
    BY <1>1
  <2>3. DOMAIN Rows = 1..Len(docs) /\ \A i \in DOMAIN docs : Rows[i] = [id |-> docs[i], embedding |-> vectors[i]]
    BY <2>1 DEF Rows
  <2>4. \A i \in DOMAIN Rows : Rows[i] \in Row /\ Rows[i].embedding = Vector(embedder, Rows[i].id)
    BY <2>1, <2>2, <2>3
  <2>5. Rows \in [1..Len(docs) -> Row]
    BY <2>3, <2>4 DEF Rows
  <2> HIDE DEF Row
  <2>6. Rows \in Seq(Row)
    BY <2>1, <2>5, SeqDef
  <2> QED BY <2>4, <2>6
<1>3. CASE file = File(Rows, FALSE)
  BY <1>2, <1>3 DEF File
<1>4. CASE file \in Unfinished(Rows)
  <2>1. PICK n \in 0..(Len(Rows) - 1), torn \in BOOLEAN : file = File(SubSeq(Rows, 1, n), torn)
    BY <1>4 DEF Unfinished
  <2>2. file.lines = SubSeq(Rows, 1, n)
    BY <2>1 DEF File
  <2>3. DOMAIN file.lines = 1..n /\ \A i \in 1..n : file.lines[i] = Rows[i] /\ i \in DOMAIN Rows
    BY <1>2, <2>1, <2>2
  <2> QED BY <1>2, <2>3
<1> QED BY <1>3, <1>4

(* A run that writes such a file leaves every cache honest. *)
LEMMA CacheStaysHonest ==
  ASSUME IInv, stage = "caching", NEW file \in Unfinished(Rows) \cup {File(Rows, FALSE)},
         cache' = [cache EXCEPT ![Slot(embedder)] = file]
  PROVE  CacheHonest' /\ DOMAIN cache' = Embedders
<1>1. DOMAIN cache' = Embedders /\ embedder \in Embedders
  BY DEF IInv, HeldTypes
<1>2. cache'[embedder] = file /\ \A e \in Embedders \ {embedder} : cache'[e] = cache[e]
  BY <1>1 DEF Slot, IInv, HeldTypes
<1>3. ASSUME NEW e \in Embedders
      PROVE  \A i \in DOMAIN cache'[e].lines :
               cache'[e].lines[i].embedding = Vector(e, cache'[e].lines[i].id)
  <2>1. CASE e = embedder
    BY <1>2, <2>1, RowsHonest
  <2>2. CASE e # embedder
    BY <1>2, <2>2 DEF IInv, CacheHonest
  <2> QED BY <2>1, <2>2
<1> QED BY <1>1, <1>3 DEF CacheHonest

(* The rows a run accepts give its documents their own vectors. *)
LEMMA MatchedVectors ==
  ASSUME IInv, stage = "embed", UseCached
  PROVE  vectors' = [i \in DOMAIN docs |-> Vector(embedder, docs[i])]
<1> DEFINE rows == cache[embedder].lines
<1>1. /\ vectors' = [i \in DOMAIN docs |-> rows[i].embedding]
      /\ [i \in DOMAIN rows |-> rows[i].id] = docs
  BY DEF UseCached, Slot, Matches
<1>2. DOMAIN rows = DOMAIN docs /\ \A i \in DOMAIN docs : rows[i].id = docs[i]
  BY <1>1
<1>3. \A i \in DOMAIN docs : rows[i].embedding = Vector(embedder, docs[i])
  BY <1>2 DEF IInv, CacheHonest, HeldTypes
<1> QED BY <1>1, <1>3

(* The corpus that an unpacking, killed or not, leaves. *)
LEMMA CorpusOnDisk ==
  ASSUME IInv,
         dataset' = [member \in Members |-> Whole(member)] \/ UnpackKilled
  PROVE  DOMAIN dataset' = Members /\ dataset'["corpus"].lines \in Seq(ToSet(Corpus))
<1>1. Corpus \in Seq(ToSet(Corpus)) /\ LinesOf("corpus") = Corpus /\ "corpus" \in Members
  BY CorpusAssumption DEF LinesOf, Members
<1>2. Whole("corpus").lines = Corpus
  BY <1>1 DEF Whole, File
<1>3. \A file \in Unfinished(LinesOf("corpus")) : file.lines \in Seq(ToSet(Corpus))
  <2>1. SUFFICES ASSUME NEW n \in 0..(Len(Corpus) - 1) PROVE SubSeq(Corpus, 1, n) \in Seq(ToSet(Corpus))
    BY <1>1 DEF Unfinished, File
  <2> QED BY <1>1, <2>1
<1>4. CASE UnpackKilled
  <2>0. PICK i \in 1..3 : \E file \in Unfinished(LinesOf(archive[i])) :
          dataset' = [member \in Members |->
                      IF member = archive[i] THEN file
                      ELSE IF \E j \in 1..i : archive[j] = member THEN Whole(member)
                      ELSE dataset[member]]
    BY <1>4 DEF UnpackKilled
  <2>1. PICK file \in Unfinished(LinesOf(archive[i])) :
          dataset' = [member \in Members |->
                      IF member = archive[i] THEN file
                      ELSE IF \E j \in 1..i : archive[j] = member THEN Whole(member)
                      ELSE dataset[member]]
    BY <2>0
  <2>2. CASE archive[i] = "corpus"
    BY <1>1, <1>3, <2>1, <2>2
  <2>3. CASE archive[i] # "corpus"
    BY <1>1, <1>2, <2>1, <2>3 DEF IInv, HeldTypes
  <2> QED BY <2>2, <2>3
<1> QED BY <1>1, <1>2, <1>4

LEMMA InitIInv == EvalInit => IInv
<1> SUFFICES ASSUME EvalInit PROVE IInv
  OBVIOUS
<1>1. "corpus" \in Members /\ NoFile.lines = << >>
  BY DEF Members, NoFile
<1>2. dataset["corpus"] = NoFile /\ \A e \in Embedders : cache[e].lines = << >>
  BY <1>1 DEF EvalInit
<1>3. CacheHonest
  BY <1>2 DEF CacheHonest
<1>4. HeldTypes
  <2>1. << >> \in Seq(ToSet(Corpus))
    OBVIOUS
  <2>2. DOMAIN dataset = Members /\ DOMAIN cache = Embedders
    BY DEF EvalInit
  <2> QED BY <1>1, <1>2, <2>1, <2>2 DEF EvalInit, HeldTypes
<1> QED BY <1>2, <1>3, <1>4 DEF EvalInit, IInv, DatasetWhole, DocsRead, VectorsMade

LEMMA StepIInv ==
  ASSUME IInv, [EvalNext]_evalVars
  PROVE  IInv'
<1> USE DEF IInv, fileVars, runVars, killVars
<1>1. CASE \E e \in Embedders : Launch(e)
  BY <1>1 DEF Launch, CacheHonest, DatasetWhole, DocsRead, VectorsMade, HeldTypes
<1>2. CASE DatasetFound \/ DatasetMissing \/ Downloaded \/ DownloadFails
  BY <1>2 DEF DatasetFound, DatasetMissing, Downloaded, DownloadFails,
              CacheHonest, DatasetWhole, DocsRead, VectorsMade, HeldTypes
<1>3. CASE Unpacked
  <2>1. HeldTypes'
    BY <1>3, CorpusOnDisk DEF Unpacked, HeldTypes
  <2> QED BY <1>3, <2>1 DEF Unpacked, CacheHonest, DatasetWhole, DocsRead, VectorsMade, Members
<1>4. CASE ReadDataset
  <2>1. CASE stage' = "embed"
    <3>1. docs' = dataset["corpus"].lines /\ dataset["corpus"].written
      BY <1>4, <2>1, Zenon DEF ReadDataset, Readable, Members
    <3>2. Whole("corpus").lines = Corpus /\ ~NoFile.written
      BY DEF Whole, File, LinesOf, NoFile
    <3>3. DocsRead'
      BY <1>4, <2>1, <3>1, <3>2 DEF ReadDataset, DocsRead, DatasetWhole, HeldTypes
    <3> QED BY <1>4, <2>1, <3>3 DEF ReadDataset, CacheHonest, DatasetWhole, VectorsMade, HeldTypes
  <2>2. CASE stage' = "failed"
    BY <1>4, <2>2 DEF ReadDataset, CacheHonest, DatasetWhole, DocsRead, VectorsMade, HeldTypes
  <2> QED BY <1>4, <2>1, <2>2 DEF ReadDataset
<1>5. CASE UseCached
  <2>1. VectorsMade'
    BY <1>5, MatchedVectors DEF UseCached, VectorsMade
  <2> QED BY <1>5, <2>1 DEF UseCached, CacheHonest, DatasetWhole, DocsRead, HeldTypes
<1>6. CASE CacheUnreadable \/ EmbedCorpus
  BY <1>6 DEF CacheUnreadable, EmbedCorpus, CacheHonest, DatasetWhole, DocsRead, VectorsMade, HeldTypes
<1>7. CASE WriteCached
  <2>1. CacheHonest' /\ DOMAIN cache' = Embedders
    BY <1>7, CacheStaysHonest DEF WriteCached
  <2> QED BY <1>7, <2>1 DEF WriteCached, DatasetWhole, DocsRead, VectorsMade, HeldTypes
<1>8. CASE BuildIndex \/ Score \/ Exit
  BY <1>8 DEF BuildIndex, Score, Exit, CacheHonest, DatasetWhole, DocsRead, VectorsMade, HeldTypes
<1>9. CASE Kill
  <2>1. CacheHonest' /\ DOMAIN cache' = Embedders
    <3>1. CASE stage = "caching"
      BY <1>9, <3>1, CacheStaysHonest DEF Kill, WriteKilled
    <3>2. CASE stage # "caching"
      BY <1>9, <3>2 DEF Kill, CacheHonest, HeldTypes
    <3> QED BY <3>1, <3>2
  <2>2. HeldTypes' /\ DatasetWhole'
    <3>1. CASE stage = "unpacking"
      BY <1>9, <2>1, <3>1, CorpusOnDisk DEF Kill, HeldTypes, DatasetWhole
    <3>2. CASE stage # "unpacking"
      BY <1>9, <2>1, <3>2 DEF Kill, HeldTypes, DatasetWhole
    <3> QED BY <3>1, <3>2
  <2> QED BY <1>9, <2>1, <2>2 DEF Kill, DocsRead, VectorsMade
<1>10. CASE Discard
  <2>1. "corpus" \in Members /\ NoFile.lines = << >>
    BY DEF Members, NoFile
  <2>2. CacheHonest' /\ DOMAIN cache' = Embedders
    BY <1>10, <2>1 DEF Discard, CacheHonest, HeldTypes
  <2>3. dataset'["corpus"] = NoFile /\ DOMAIN dataset' = Members
    BY <1>10, <2>1 DEF Discard
  <2>4. << >> \in Seq(ToSet(Corpus)) /\ zip' \in {"absent", "torn", "whole"}
    BY <1>10 DEF Discard, HeldTypes
  <2> QED BY <1>10, <2>1, <2>2, <2>3, <2>4 DEF Discard, DatasetWhole, DocsRead, VectorsMade, HeldTypes
<1>11. CASE UNCHANGED evalVars
  BY <1>11 DEF evalVars, CacheHonest, DatasetWhole, DocsRead, VectorsMade, HeldTypes
<1> QED BY <1>1, <1>2, <1>3, <1>4, <1>5, <1>6, <1>7, <1>8, <1>9, <1>10, <1>11 DEF EvalNext

(* A run scores every document by its own embedder's vector, and all       *)
(* documents unless an unpacking was killed, whatever earlier runs left on *)
(* disk (eval_beir.py:168, 231, 243).                                      *)
THEOREM ScoresAreItsOwn == EvalSpec => []ScoredByItsOwnVectors
<1>1. EvalInit => IInv
  BY InitIInv
<1>2. IInv /\ [EvalNext]_evalVars => IInv'
  BY StepIInv
<1>3. IInv => ScoredByItsOwnVectors
  BY DEF IInv, DocsRead, VectorsMade, ScoredByItsOwnVectors
<1> QED BY <1>1, <1>2, <1>3, PTL DEF EvalSpec

-----------------------------------------------------------------------------
(* A reader of the index finds a part of one build, its last line perhaps  *)
(* torn; a manifest holds the digest of a whole one, and there is none     *)
(* without an index.                                                       *)
IndexWell ==
  index # Absent =>
    /\ index \in Seq(Record) /\ Len(index) <= Size[corpus]
    /\ \A i \in 1..Len(index) :
         /\ index[i].corpus = corpus /\ index[i].number = i
         /\ i < Len(index) => index[i].whole

ManifestWell ==
  /\ manifest \in {Absent, Torn} \/ \E c \in Corpora : manifest = [digest |-> Complete(c)]
  /\ manifest # Absent => index # Absent

BuilderWell ==
  /\ step \in {"idle", "writing", "hashed", "signing"} /\ corpus \in Corpora
  /\ step # "idle" => index # Absent
  /\ step \in {"hashed", "signing"} => digest = Complete(corpus)

(* A verifying service compares the index with a whole one; once it has    *)
(* found no fault, and unless the index is written to, it loads one.       *)
ServiceWell ==
  /\ mode \in {"strict", "warn", "off"} /\ disturbed \in BOOLEAN
  /\ at \in Settled \cup {"exists", "parse", "hash", "open", "load"}
  /\ warned \in {"nothing", "unverified", "mismatch"}
  /\ warned = "mismatch" => mode = "warn"
  /\ at \in {"exists", "parse", "hash"} => mode # "off"
  /\ at = "parse" => manifest # Absent
  /\ at = "hash" => \E c \in Corpora : expected = Complete(c)
  /\ at \in {"exists", "parse", "hash", "open"} => lines = << >>

Silent == warned = "nothing" /\ mode # "off" /\ ~disturbed

LoadsWhatItChecked ==
  Silent =>
    /\ at \in {"open", "load"} => \E c \in Corpora : index = Complete(c)
    /\ at = "load" => /\ lines \in Seq(Record) /\ Len(lines) <= Len(index)
                      /\ \A i \in 1..Len(lines) : lines[i] = index[i]
    /\ at = "up" => \E c \in Corpora : lines = Complete(c)

IndexInv == IndexWell /\ ManifestWell /\ BuilderWell /\ ServiceWell /\ LoadsWhatItChecked

(* A complete build, as a sequence. *)
LEMMA CompleteFacts ==
  ASSUME NEW c \in Corpora
  PROVE  /\ Complete(c) \in Seq(Record) /\ Len(Complete(c)) = Size[c] /\ Size[c] \in Nat
         /\ \A i \in 1..Size[c] : Complete(c)[i] = Line(c, i, TRUE)
         /\ Complete(c) # Absent
<1>1. Size[c] \in Nat
  BY SizeAssumption
<1>2. \A n \in 1..Size[c] : Line(c, n, TRUE) \in Record
  BY <1>1 DEF Line, Record
<1>3. Complete(c) \in [1..Size[c] -> Record]
  BY <1>2 DEF Complete
<1>4. Complete(c) \in Seq(Record)
  BY <1>1, <1>3, SeqDef
<1>5. Len(Complete(c)) = Size[c]
  BY <1>1, <1>3, <1>4, LenProperties
<1> QED BY <1>1, <1>4, <1>5, AbsentAssumption DEF Complete

(* A whole line parses to itself. *)
LEMMA LineParsed ==
  ASSUME NEW c, NEW n, NEW whole
  PROVE  [Line(c, n, whole) EXCEPT !.whole = whole] = Line(c, n, whole)
  BY DEF Line

(* Lines of one build, as many as it has, are that build. *)
LEMMA AllOfABuild ==
  ASSUME NEW c \in Corpora, NEW s \in Seq(Record), Len(s) = Size[c],
         \A i \in 1..Len(s) : s[i] = Line(c, i, TRUE)
  PROVE  s = Complete(c)
<1>1. PICK n \in Nat : Size[c] = n
  BY CompleteFacts
<1>2. /\ Complete(c) \in Seq(Record) /\ Len(Complete(c)) = n
      /\ \A i \in 1..n : Complete(c)[i] = Line(c, i, TRUE)
  BY <1>1, CompleteFacts
<1> QED BY <1>1, <1>2, SeqEqual

(* What a flush keeps are the whole lines; when they are all there, the    *)
(* index is a complete build.                                              *)
LEMMA WholeFacts ==
  ASSUME IndexWell, index # Absent, corpus \in Corpora
  PROVE  /\ WholeLines \in Seq(Record) /\ Len(WholeLines) <= Size[corpus]
         /\ \A i \in 1..Len(WholeLines) : WholeLines[i] = Line(corpus, i, TRUE)
         /\ Len(WholeLines) = Size[corpus] => index = Complete(corpus)
<1>1. PICK n \in Nat : Len(index) = n
  BY LenProperties DEF IndexWell
<1>2. PICK size \in Nat : Size[corpus] = size
  BY CompleteFacts
<1>3. /\ index \in Seq(Record) /\ n <= size /\ index \in [1..n -> Record]
      /\ \A i \in 1..n : index[i].corpus = corpus /\ index[i].number = i /\ (i < n => index[i].whole)
  BY <1>1, <1>2, LenProperties DEF IndexWell
<1>4. \A i \in 1..n : index[i].whole => index[i] = Line(corpus, i, TRUE)
  BY <1>3 DEF Line, Record
<1>5. CASE index # << >> /\ ~index[n].whole
  <2>1. WholeLines = SubSeq(index, 1, n - 1) /\ n # 0
    BY <1>1, <1>3, <1>5, EmptySeq DEF WholeLines, Last, Front
  <2>2. /\ WholeLines \in Seq(Record) /\ Len(WholeLines) = n - 1
        /\ \A i \in 1..(n - 1) : WholeLines[i] = index[i]
    BY <1>3, <2>1, SubSeqProperties
  <2>3. \A i \in 1..(n - 1) : i \in 1..n /\ i < n
    BY <1>1
  <2>4. \A i \in 1..(n - 1) : WholeLines[i] = Line(corpus, i, TRUE)
    BY <1>3, <1>4, <2>2, <2>3
  <2>5. n - 1 <= size /\ n - 1 # size
    BY <1>3
  <2> QED BY <1>2, <2>2, <2>4, <2>5
<1>6. CASE index = << >> \/ index[n].whole
  <2>1. WholeLines = index
    BY <1>1, <1>6 DEF WholeLines, Last
  <2>2. \A i \in 1..n : index[i].whole
    <3>1. CASE index = << >>
      BY <1>1, <3>1, EmptySeq
    <3>2. CASE index[n].whole
      BY <1>3, <3>2
    <3> QED BY <1>6, <3>1, <3>2
  <2>3. \A i \in 1..n : index[i] = Line(corpus, i, TRUE)
    BY <1>4, <2>2
  <2>4. n = size => index = Complete(corpus)
    BY <1>1, <1>2, <1>3, <2>3, AllOfABuild
  <2> QED BY <1>1, <1>2, <1>3, <2>1, <2>3, <2>4
<1> QED BY <1>5, <1>6

(* A flush leaves a part of the build. *)
LEMMA FlushFacts ==
  ASSUME IndexWell, index # Absent, corpus \in Corpora, NEW whole \in BOOLEAN, WriteRecord(whole)
  PROVE  IndexWell' /\ index' # Absent
<1> DEFINE kept == WholeLines
<1>1. PICK n \in Nat, size \in Nat : Len(kept) = n /\ Size[corpus] = size
  <2>1. Len(kept) \in Nat /\ Size[corpus] \in Nat
    BY CompleteFacts, WholeFacts, LenProperties
  <2> QED BY <2>1
<1>2. /\ kept \in Seq(Record) /\ n < size
      /\ \A i \in 1..n : kept[i] = Line(corpus, i, TRUE)
      /\ index' = Append(kept, Line(corpus, n + 1, whole)) /\ corpus' = corpus
  BY <1>1, WholeFacts DEF WriteRecord, builderVars
<1> HIDE DEF kept
<1>3. Line(corpus, n + 1, whole) \in Record
  BY DEF Line, Record
<1>4. /\ index' \in Seq(Record) /\ Len(index') = n + 1
      /\ index'[n + 1] = Line(corpus, n + 1, whole)
      /\ \A i \in 1..n : index'[i] = Line(corpus, i, TRUE)
  <2>1. /\ Append(kept, Line(corpus, n + 1, whole)) \in Seq(Record)
        /\ Len(Append(kept, Line(corpus, n + 1, whole))) = Len(kept) + 1
        /\ Append(kept, Line(corpus, n + 1, whole))[Len(kept) + 1] = Line(corpus, n + 1, whole)
        /\ \A i \in 1..Len(kept) : Append(kept, Line(corpus, n + 1, whole))[i] = kept[i]
    BY <1>2, <1>3, AppendProperties
  <2> QED BY <1>1, <1>2, <2>1
<1>5. \A i \in 1..(n + 1) :
        /\ index'[i].corpus = corpus /\ index'[i].number = i
        /\ i < n + 1 => index'[i].whole
  <2> TAKE i \in 1..(n + 1)
  <2>1. CASE i = n + 1
    BY <1>4, <2>1 DEF Line
  <2>2. CASE i # n + 1
    <3>1. i \in 1..n
      BY <2>2
    <3>2. index'[i] = Line(corpus, i, TRUE)
      BY <1>4, <3>1
    <3> QED BY <3>2 DEF Line
  <2> QED BY <2>1, <2>2
<1>6. n + 1 <= size
  BY <1>2
<1> QED BY <1>1, <1>2, <1>4, <1>5, <1>6, AbsentAssumption DEF IndexWell

(* The builder, killed anywhere, keeps what is on disk well formed, and    *)
(* what an undisturbed service has checked.                                *)
LEMMA BuilderKeeps ==
  ASSUME IndexInv, Builder \/ Killed
  PROVE  IndexInv'
<1> USE DEF IndexInv, files, serviceVars
<1>1. \A c \in Corpora : Complete(c) \in Seq(Record) /\ Complete(c) # Absent
  BY CompleteFacts
<1>2. ASSUME NEW c \in Corpora, Build(c) PROVE IndexInv'
  <2>1. index' = << >> /\ << >> \in Seq(Record) /\ Len(<< >>) = 0 /\ << >> # Absent
    <3>1. << >> \in Seq(Record) /\ Len(<< >>) = 0
      OBVIOUS
    <3> QED BY <1>2, <3>1, AbsentAssumption DEF Build, Opened
  <2>2. IndexWell'
    <3>1. Size[c] \in Nat
      BY SizeAssumption
    <3> QED BY <1>2, <2>1, <3>1 DEF Build, IndexWell
  <2>3. ManifestWell' /\ BuilderWell' /\ ServiceWell'
    BY <1>2, <2>1 DEF Build, Disturb, ManifestWell, BuilderWell, ServiceWell
  <2>4. LoadsWhatItChecked'
    BY <1>2 DEF Build, Disturb, LoadsWhatItChecked, ServiceWell, Silent, Settled
  <2> QED BY <2>2, <2>3, <2>4
<1>3. ASSUME NEW whole \in BOOLEAN, WriteRecord(whole) PROVE IndexInv'
  <2>1. IndexWell' /\ index' # Absent
    BY <1>3, FlushFacts DEF BuilderWell, WriteRecord
  <2>2. ManifestWell' /\ BuilderWell' /\ ServiceWell'
    BY <1>3, <2>1 DEF WriteRecord, builderVars, Disturb, ManifestWell, BuilderWell, ServiceWell
  <2>3. LoadsWhatItChecked'
    BY <1>3 DEF WriteRecord, Disturb, LoadsWhatItChecked, ServiceWell, Silent, Settled
  <2> QED BY <2>1, <2>2, <2>3
<1>4. CASE HashIndex
  <2>1. digest' = Complete(corpus)
    BY <1>4, WholeFacts DEF HashIndex, Written, DigestOfFile, BuilderWell
  <2> QED BY <1>4, <2>1 DEF HashIndex, IndexWell, ManifestWell, BuilderWell, ServiceWell, LoadsWhatItChecked, Silent
<1>5. CASE OpenManifest
  BY <1>5, AbsentAssumption DEF OpenManifest, IndexWell, ManifestWell, BuilderWell, ServiceWell, LoadsWhatItChecked, Silent
<1>6. CASE WriteManifest
  <2>1. manifest' = [digest |-> Complete(corpus)] /\ corpus \in Corpora /\ index # Absent
    BY <1>6 DEF WriteManifest, BuilderWell
  <2>2. manifest' # Absent
    BY <1>1, <2>1, AbsentAssumption
  <2> QED BY <1>6, <2>1, <2>2 DEF WriteManifest, IndexWell, ManifestWell, BuilderWell, ServiceWell, LoadsWhatItChecked, Silent
<1>7. CASE Killed
  BY <1>7 DEF Killed, IndexWell, ManifestWell, BuilderWell, ServiceWell, LoadsWhatItChecked, Silent
<1> QED BY <1>2, <1>3, <1>4, <1>5, <1>6, <1>7 DEF Builder

(* A service, at each step of its startup. *)
LEMMA ServiceKeeps ==
  ASSUME IndexInv, Start \/ Startup
  PROVE  IndexInv'
<1> USE DEF IndexInv, files, builderVars, Elsewhere
<1>1. UNCHANGED <<files, builderVars, mode>>
  BY DEF Start, Startup, CheckPresence, ReadManifest, CompareDigests, OpenIndex, LoadLine, LineFails, EndOfFile
<1>2. IndexWell' /\ ManifestWell' /\ BuilderWell'
  BY <1>1 DEF IndexWell, ManifestWell, BuilderWell
<1>3. CASE Start
  BY <1>2, <1>3 DEF Start, ServiceWell, LoadsWhatItChecked, Silent, Settled
<1>4. CASE CheckPresence
  BY <1>2, <1>4 DEF CheckPresence, ManifestWell, ServiceWell, LoadsWhatItChecked, Silent, Settled
<1>5. CASE ReadManifest
  <2>1. CASE manifest = Torn
    BY <1>2, <1>5, <2>1 DEF ReadManifest, Complain, ServiceWell, LoadsWhatItChecked, Silent, Settled
  <2>2. CASE manifest # Torn
    <3>1. \E c \in Corpora : expected' = Complete(c)
      BY <1>5, <2>2 DEF ReadManifest, ManifestWell, ServiceWell
    <3> QED BY <1>2, <1>5, <2>2, <3>1 DEF ReadManifest, ServiceWell, LoadsWhatItChecked, Silent, Settled
  <2> QED BY <2>1, <2>2
<1>6. CASE CompareDigests
  BY <1>2, <1>6 DEF CompareDigests, Complain, ServiceWell, LoadsWhatItChecked, Silent, Settled
<1>7. CASE OpenIndex
  <2>1. ServiceWell'
    BY <1>7 DEF OpenIndex, ServiceWell, Settled
  <2>2. LoadsWhatItChecked'
    <3> SUFFICES ASSUME Silent' PROVE LoadsWhatItChecked'
      BY DEF LoadsWhatItChecked
    <3>1. Silent /\ \E c \in Corpora : index = Complete(c)
      BY <1>7 DEF OpenIndex, LoadsWhatItChecked, Silent
    <3>2. index # Absent /\ index \in Seq(Record)
      BY <3>1, CompleteFacts
    <3>3. at' = "load" /\ lines' = << >> /\ index' = index
      BY <1>7, <3>2 DEF OpenIndex, ServiceWell
    <3>4. << >> \in Seq(Record) /\ Len(<< >>) = 0 /\ Len(index) \in Nat
      BY <3>2, LenProperties
    <3> QED BY <3>1, <3>3, <3>4 DEF LoadsWhatItChecked
  <2> QED BY <1>2, <2>1, <2>2
<1>8. CASE LoadLine
  <2>1. ServiceWell'
    BY <1>8 DEF LoadLine, ServiceWell, Settled
  <2>2. LoadsWhatItChecked'
    <3> SUFFICES ASSUME Silent' PROVE LoadsWhatItChecked'
      BY DEF LoadsWhatItChecked
    <3>1. PICK c \in Corpora : index = Complete(c)
      BY <1>8 DEF LoadLine, LoadsWhatItChecked, Silent
    <3>2. /\ lines \in Seq(Record) /\ Len(lines) <= Len(index)
          /\ \A i \in 1..Len(lines) : lines[i] = index[i]
          /\ lines' = Append(lines, [index[Len(lines) + 1] EXCEPT !.whole = TRUE])
          /\ ~(Len(lines) >= Len(index)) /\ at' = "load" /\ index' = index
      BY <1>8 DEF LoadLine, LoadsWhatItChecked, Silent, AtEnd, NextLine
    <3>3. PICK n \in Nat, k \in Nat : n = Len(index) /\ k = Len(lines)
      <4>1. Len(index) \in Nat /\ Len(lines) \in Nat
        BY <3>1, <3>2, CompleteFacts, LenProperties
      <4> QED BY <4>1
    <3>4. k + 1 \in 1..n
      BY <3>2, <3>3
    <3>5. index[k + 1] = Line(c, k + 1, TRUE) /\ Line(c, k + 1, TRUE) \in Record
      <4>1. Size[c] = n /\ \A i \in 1..Size[c] : Complete(c)[i] = Line(c, i, TRUE)
        BY <3>1, <3>3, CompleteFacts
      <4>2. index[k + 1] = Line(c, k + 1, TRUE)
        BY <3>1, <3>4, <4>1
      <4>3. k + 1 \in Nat /\ TRUE \in BOOLEAN
        OBVIOUS
      <4> QED BY <4>2, <4>3 DEF Line, Record
    <3>6. lines' = Append(lines, index[k + 1]) /\ index[k + 1] \in Record
      <4>1. [index[k + 1] EXCEPT !.whole = TRUE] = index[k + 1]
        <5>1. [Line(c, k + 1, TRUE) EXCEPT !.whole = TRUE] = Line(c, k + 1, TRUE)
          BY LineParsed
        <5> QED BY <3>5, <5>1
      <4> QED BY <3>2, <3>3, <3>5, <4>1
    <3>7. /\ lines' \in Seq(Record) /\ Len(lines') = k + 1 /\ lines'[k + 1] = index[k + 1]
          /\ \A i \in 1..k : lines'[i] = lines[i]
      BY <3>2, <3>3, <3>6, AppendProperties
    <3>8. \A i \in 1..(k + 1) : lines'[i] = index[i]
      BY <3>2, <3>3, <3>7
    <3>9. Len(lines') <= Len(index)
      BY <3>3, <3>4, <3>7
    <3> QED BY <3>1, <3>2, <3>7, <3>8, <3>9 DEF LoadsWhatItChecked
  <2> QED BY <1>2, <2>1, <2>2
<1>9. CASE LineFails
  BY <1>2, <1>9 DEF LineFails, ServiceWell, LoadsWhatItChecked, Silent, Settled
<1>10. CASE EndOfFile
  <2>1. ServiceWell'
    BY <1>10 DEF EndOfFile, ServiceWell, Settled
  <2>2. LoadsWhatItChecked'
    <3> SUFFICES ASSUME Silent' PROVE LoadsWhatItChecked'
      BY DEF LoadsWhatItChecked
    <3>1. PICK c \in Corpora : index = Complete(c)
      BY <1>10 DEF EndOfFile, LoadsWhatItChecked, Silent
    <3>2. /\ lines \in Seq(Record) /\ Len(lines) <= Len(index)
          /\ \A i \in 1..Len(lines) : lines[i] = index[i]
          /\ Len(lines) >= Len(index) /\ at' = "up" /\ lines' = lines
      BY <1>10 DEF EndOfFile, LoadsWhatItChecked, Silent, AtEnd
    <3>3. index \in Seq(Record) /\ Len(index) \in Nat /\ Len(lines) \in Nat
      BY <3>1, <3>2, CompleteFacts, LenProperties
    <3>4. lines = index
      BY <3>2, <3>3, SeqEqual
    <3> QED BY <3>1, <3>2, <3>4 DEF LoadsWhatItChecked
  <2> QED BY <1>2, <2>1, <2>2
<1> QED BY <1>3, <1>4, <1>5, <1>6, <1>7, <1>8, <1>9, <1>10 DEF Startup

(* The disk and the service stay so throughout. *)
THEOREM IndexInvariance == Spec => []IndexInv
<1>1. Init => IndexInv
  BY DEF Init, IndexInv, IndexWell, ManifestWell, BuilderWell, ServiceWell, LoadsWhatItChecked, Silent, Settled
<1>2. IndexInv /\ [Next]_vars => IndexInv'
  <2>1. ASSUME IndexInv, UNCHANGED vars PROVE IndexInv'
    BY <2>1 DEF vars, files, builderVars, serviceVars, IndexInv, IndexWell, ManifestWell,
                BuilderWell, ServiceWell, LoadsWhatItChecked, Silent
  <2> QED BY <2>1, BuilderKeeps, ServiceKeeps DEF Next
<1> QED BY <1>1, <1>2, PTL DEF Spec

(* A service that verifies its index never serves a part of a build        *)
(* without having logged it, wherever the builder was killed, for every    *)
(* corpus and any number of builds (retrieval.py:45-85, 265-273,           *)
(* build_index.py:87-106).                                                 *)
THEOREM NeverSilentlyIncomplete == Spec => []IncompleteIsNeverSilent
<1>1. IndexInv => IncompleteIsNeverSilent
  BY DEF IndexInv, ServiceWell, LoadsWhatItChecked, Silent, IncompleteIsNeverSilent
<1> QED BY <1>1, IndexInvariance, PTL

(* The index on disk is always a part of one build, a manifest the digest  *)
(* of a whole one, for every corpus and any number of builds, killed       *)
(* anywhere (build_index.py:65-106).                                       *)
THEOREM TypeCorrect == Spec => []TypeOK
<1>1. IndexInv => TypeOK
  <2> SUFFICES ASSUME IndexInv PROVE TypeOK
    OBVIOUS
  <2>1. ASSUME index # Absent, NEW i \in DOMAIN index
        PROVE  index[i].corpus = corpus /\ index[i].number = i /\ i <= Size[corpus]
    <3>1. /\ index \in Seq(Record) /\ Len(index) <= Size[corpus] /\ Size[corpus] \in Nat
          /\ \A n \in 1..Len(index) : index[n].corpus = corpus /\ index[n].number = n
      BY <2>1, SizeAssumption DEF IndexInv, IndexWell, BuilderWell
    <3>2. i \in 1..Len(index) /\ Len(index) \in Nat
      BY <2>1, <3>1, LenProperties
    <3> QED BY <3>1, <3>2
  <2>2. manifest \in {Absent, Torn} \/ \E c \in Corpora : manifest.digest = Complete(c)
    <3>1. \A c \in Corpora : manifest = [digest |-> Complete(c)] => manifest.digest = Complete(c)
      OBVIOUS
    <3> QED BY <3>1 DEF IndexInv, ManifestWell
  <2>3. /\ step \in {"idle", "writing", "hashed", "signing"}
        /\ at \in Settled \cup {"exists", "parse", "hash", "open", "load"}
        /\ warned \in {"nothing", "unverified", "mismatch"}
    BY DEF IndexInv, BuilderWell, ServiceWell
  <2> QED BY <2>1, <2>2, <2>3 DEF TypeOK
<1> QED BY <1>1, IndexInvariance, PTL

-----------------------------------------------------------------------------
(* Ingestion: its inductive invariant.  The texts a loop has filled carry  *)
(* the document's lines up to where the loop is; what is open, the section *)
(* being read or the chunk being filled, goes on from there.               *)

RunType == [first : Nat, last : Nat]
TextType == Seq(RunType)
SectionType == [path : SUBSET Nat, text : TextType]

IngestTyped ==
  /\ document \in Documents
  /\ pass \in {"read", "merge", "chunk", "split", "loaded"}
  /\ taken \in Nat /\ from \in Nat \ {0}
  /\ stack \in SUBSET Nat
  /\ sections \in Seq(SectionType) /\ merged \in Seq(SectionType) /\ chunks \in Seq(SectionType)
  /\ pending \in Seq(SectionType) /\ Len(pending) <= 1
  /\ left \in SUBSET DOMAIN document
  /\ current \in TextType

(* Texts follow one another with nothing left out between them.            *)
Tiles(s) ==
  \A n \in DOMAIN s :
    /\ Carries(s[n].text)
    /\ LastOf(s, n - 1) < FirstLine(s[n].text)
    /\ NoneBetween(LastOf(s, n - 1), FirstLine(s[n].text))

(* Each run of a text is a section of the document; those before the last  *)
(* are small, and it stands under the headings of the last.                *)
WellPlaced(section) ==
  LET text == section.text
  IN \A i \in DOMAIN text : \A l \in text[i].first..text[i].last :
       /\ Stripped(SectionOf(l)) = <<text[i]>>
       /\ i < Len(text) => Length(<<text[i]>>) < MinChars
       /\ i = Len(text) => Enclosing(l) = section.path

WellMade(s) == Tiles(s) /\ \A n \in DOMAIN s : WellPlaced(s[n])

EndOf(s) == LastOf(s, Len(s))
ToTheEnd(s) == \A l \in SolidLines : l <= EndOf(s)

(* While reading: nothing is left out before the open section, which begins*)
(* at a heading and has no other, and the stack holds its headings.        *)
ReadInv ==
  pass = "read" =>
    /\ pending = << >> /\ merged = << >>
    /\ taken <= Len(document) /\ from <= taken + 1
    /\ from > 1 => Level(from) > 0
    /\ \A l \in (from + 1)..taken : Level(l) = 0
    /\ stack = Enclosing(taken)
    /\ \A l \in from..taken : Enclosing(l) = stack
    /\ EndOf(sections) < from /\ NoneBetween(EndOf(sections), from)

SectionsInv ==
  /\ WellMade(sections)
  /\ \A n \in DOMAIN sections : Len(sections[n].text) = 1
  /\ pass # "read" => ToTheEnd(sections)

(* While merging: what is merged and pending carries what was taken.       *)
MergeInv ==
  pass = "merge" =>
    /\ taken <= Len(sections)
    /\ WellMade(merged \o pending)
    /\ EndOf(merged \o pending) = LastOf(sections, taken)

MergedInv ==
  pass \in {"chunk", "split", "loaded"} =>
    /\ taken <= Len(merged)
    /\ WellMade(merged) /\ ToTheEnd(merged)

Fits(text, before) ==
  \/ Length(text) <= Target
  \/ Cardinality(Starts(text)) = 1
  \/ Cardinality(Starts(text)) = 2 /\ FirstLine(text) <= before

Cited(chunk) ==
  LET last == LastLine(chunk.text)
  IN \/ chunk.path = Enclosing(last)
     \/ /\ Length(Stripped(SectionOf(last))) < MinChars
        /\ \E l \in DOMAIN document : l > last /\ chunk.path = Enclosing(l)

WellChunked(s) ==
  \A n \in DOMAIN s :
    /\ Carries(s[n].text)
    /\ Follows(s[n].text, LastOf(s, n - 1))
    /\ Fits(s[n].text, LastOf(s, n - 1))
    /\ Cited(s[n])

ChunksInv ==
  /\ pass \in {"read", "merge"} => chunks = << >>
  /\ WellChunked(chunks)
  /\ pass \in {"chunk", "loaded"} => EndOf(chunks) = LastOf(merged, taken)
  /\ pass = "loaded" => taken = Len(merged)

(* What holds of the chunk being filled, in a section of this text, after  *)
(* chunks that end at this line.                                           *)
Filling(text, paragraphs, rest, end) ==
  /\ paragraphs \in TextType
  /\ \A i \in DOMAIN paragraphs : /\ paragraphs[i].first \in Starts(text)
                                  /\ paragraphs[i] = Paragraph(text, paragraphs[i].first)
  /\ Carries(paragraphs) /\ Follows(paragraphs, end)
  /\ rest = {s \in Starts(text) : s > LastLine(paragraphs)}
  /\ \/ Length(paragraphs) <= Target
     \/ Len(paragraphs) = 1
     \/ Len(paragraphs) = 2 /\ FirstLine(paragraphs) <= end

(* While splitting: no paragraph is taken yet, or a chunk is being filled. *)
SplitInv ==
  pass = "split" =>
    /\ taken < Len(merged)
    /\ current = << >> => EndOf(chunks) = LastOf(merged, taken) /\ left = Starts(Section.text)
    /\ current # << >> => Filling(Section.text, current, left, EndOf(chunks))

IngestInv == IngestTyped /\ ReadInv /\ SectionsInv /\ MergeInv /\ MergedInv /\ ChunksInv /\ SplitInv

(* A set of numbers has a least one.                                       *)
LEMMA LeastElement ==
  ASSUME NEW S \in SUBSET Nat, S # {}
  PROVE  \E k \in S : \A j \in S : k <= j
<1> DEFINE R == {p \in Nat \X Nat : p[1] < p[2]}
<1>1. IsWellFoundedOn(R, Nat)
  BY NatLessThanWellFounded DEF OpToRel
<1>2. \E k \in S : \A j \in S : <<j, k>> \notin R
  <2> HIDE DEF R
  <2> QED BY <1>1, WFMin
<1>3. \A k, j \in S : <<j, k>> \notin R => k <= j
  OBVIOUS
<1> QED BY <1>2, <1>3

(* Min of the community modules is it.                                     *)
LEMMA MinFacts ==
  ASSUME NEW S \in SUBSET Nat, S # {}
  PROVE  Min(S) \in S /\ \A j \in S : Min(S) <= j
  BY LeastElement DEF Min

(* A bounded set of numbers has a greatest one, which is Max.              *)
LEMMA MaxFacts ==
  ASSUME NEW bound \in Nat, NEW S \in SUBSET 0..bound, S # {}
  PROVE  Max(S) \in S /\ \A j \in S : j <= Max(S)
<1> DEFINE Gaps == {bound - k : k \in S}
<1>1. Gaps \in SUBSET Nat /\ Gaps # {}
  <2>1. \A k \in S : k \in 0..bound
    OBVIOUS
  <2>2. \A k \in S : bound - k \in Nat
    BY <2>1
  <2> QED BY <2>2
<1>2. PICK g \in Gaps : \A h \in Gaps : g <= h
  <2> HIDE DEF Gaps
  <2> QED BY <1>1, LeastElement
<1>3. PICK k \in S : g = bound - k
  BY <1>2
<1>4. ASSUME NEW j \in S PROVE k >= j /\ j <= k
  <2>1. bound - k <= bound - j
    BY <1>2, <1>3
  <2>2. k \in Int /\ j \in Int
    OBVIOUS
  <2> QED BY <2>1, <2>2
<1>5. \E x \in S : \A y \in S : x >= y
  BY <1>4
<1>6. Max(S) \in S /\ \A y \in S : Max(S) >= y
  BY <1>5 DEF Max
<1>7. \A y \in S : y \in Int
  OBVIOUS
<1> QED BY <1>6, <1>7

(* The document, and the numbers of its lines.                             *)
LEMMA DocumentFacts ==
  ASSUME document \in Documents
  PROVE  /\ Len(document) \in Nat /\ DOMAIN document = 1..Len(document)
         /\ SolidLines \subseteq 1..Len(document)
         /\ \A l \in SolidLines : Width[document[l]] \in Nat
         /\ \A l : Level(l) \in Nat
<1>1. document \in Seq({"empty"} \cup DOMAIN Width)
  BY DocumentsAssumption
<1>2. Len(document) \in Nat /\ DOMAIN document = 1..Len(document)
      /\ \A l \in DOMAIN document : document[l] \in {"empty"} \cup DOMAIN Width
  BY <1>1, LenProperties
<1>3. \A l : Level(l) \in Nat
  BY DEF Level, HeadingLevel
<1> QED BY <1>2, <1>3, WidthAssumption DEF SolidLines

-----------------------------------------------------------------------------
(* Lengths.                                                                *)

(* A union of n finite sets is finite.                                     *)
LEMMA FiniteUnionOf ==
  ASSUME NEW D, IsFiniteSet(D), NEW F, \A d \in D : IsFiniteSet(F[d])
  PROVE  IsFiniteSet(UNION {F[d] : d \in D})
<1> DEFINE T == {F[d] : d \in D}
           f == [d \in D |-> F[d]]
<1>1. f \in Surjection(D, T)
  BY DEF Surjection
<1>2. IsFiniteSet(T)
  <2> HIDE DEF T, f
  <2> QED BY <1>1, FS_Surjection
<1>3. \A S \in T : IsFiniteSet(S)
  OBVIOUS
<1> HIDE DEF T
<1> QED BY <1>2, <1>3, FS_UNION DEF T

(* The places of a run can be counted.                                     *)
LEMMA PlacesFinite ==
  ASSUME document \in Documents, NEW run \in RunType
  PROVE  IsFiniteSet(Places(run))
<1> DEFINE W(l) == (IF l \in SolidLines THEN Width[document[l]] ELSE 0)
                   + (IF l < run.last THEN 1 ELSE 0)
           F == [l \in run.first..run.last |-> {l} \X (1..W(l))]
<1>1. run.first \in Int /\ run.last \in Int
  BY DEF RunType
<1>2. ASSUME NEW l \in run.first..run.last PROVE IsFiniteSet(F[l])
  <2>1. W(l) \in Int
    BY <1>1, DocumentFacts
  <2>2. IsFiniteSet(1..W(l))
    <3> HIDE DEF W
    <3> QED BY <2>1, FS_Interval
  <2>3. IsFiniteSet({l} \X (1..W(l)))
    <3> HIDE DEF W
    <3> QED BY <2>2, FS_Singleton, FS_Product
  <2> QED BY <2>3
<1>3. IsFiniteSet(run.first..run.last)
  BY <1>1, FS_Interval
<1>4. IsFiniteSet(UNION {F[l] : l \in run.first..run.last})
  <2> HIDE DEF F
  <2> QED BY <1>2, <1>3, FiniteUnionOf
<1> QED BY <1>4 DEF Places

(* The places of a text can be counted, and its length is a number.        *)
LEMMA LengthFacts ==
  ASSUME document \in Documents, NEW text \in TextType
  PROVE  /\ IsFiniteSet(UNION {Places(text[i]) : i \in DOMAIN text})
         /\ Cardinality(UNION {Places(text[i]) : i \in DOMAIN text}) \in Nat
         /\ Length(text) \in Int
<1>1. Len(text) \in Nat /\ DOMAIN text = 1..Len(text) /\ \A i \in DOMAIN text : text[i] \in RunType
  BY LenProperties DEF TextType
<1> DEFINE F == [i \in DOMAIN text |-> Places(text[i])]
<1>2. \A i \in DOMAIN text : IsFiniteSet(F[i])
  BY <1>1, PlacesFinite
<1>3. IsFiniteSet(DOMAIN text)
  BY <1>1, FS_Interval
<1>4. IsFiniteSet(UNION {F[i] : i \in DOMAIN text})
  <2> HIDE DEF F
  <2> QED BY <1>2, <1>3, FiniteUnionOf
<1>5. IsFiniteSet(UNION {Places(text[i]) : i \in DOMAIN text})
  BY <1>4
<1>6. Cardinality(UNION {Places(text[i]) : i \in DOMAIN text}) \in Nat
  BY <1>5, FS_CardinalityType
<1> QED BY <1>1, <1>5, <1>6 DEF Length

(* A run of a text is no longer than the text.                             *)
LEMMA LengthOfPart ==
  ASSUME document \in Documents, NEW text \in TextType, NEW i \in DOMAIN text
  PROVE  Length(<<text[i]>>) <= Length(text)
<1>1. Len(text) \in Nat /\ DOMAIN text = 1..Len(text) /\ text[i] \in RunType
  BY LenProperties DEF TextType
<1> DEFINE All == UNION {Places(text[j]) : j \in DOMAIN text}
           one == <<text[i]>>
<1>2. IsFiniteSet(All) /\ Cardinality(All) \in Nat
  BY LengthFacts
<1>3. one \in TextType /\ Len(one) = 1 /\ DOMAIN one = {1} /\ one[1] = text[i]
  BY <1>1 DEF TextType
<1>4. UNION {Places(one[j]) : j \in DOMAIN one} = Places(text[i])
  <2> HIDE DEF one
  <2> QED BY <1>3
<1>5. Length(one) = Cardinality(Places(text[i])) + 2 * (Len(one) - 1)
  BY <1>4 DEF Length
<1>6. Places(text[i]) \in SUBSET All
  OBVIOUS
<1>7. Cardinality(Places(text[i])) <= Cardinality(All) /\ Cardinality(Places(text[i])) \in Nat
  <2> HIDE DEF All
  <2>1. IsFiniteSet(Places(text[i])) /\ Cardinality(Places(text[i])) <= Cardinality(All)
    BY <1>2, <1>6, FS_Subset
  <2> QED BY <2>1, FS_CardinalityType
<1>8. Length(text) = Cardinality(All) + 2 * (Len(text) - 1)
  BY DEF Length
<1>9. Length(one) <= Length(text)
  <2>1. Len(text) >= 1
    BY <1>1
  <2> HIDE DEF All, one
  <2> QED BY <1>1, <1>2, <1>3, <1>5, <1>7, <1>8, <2>1
<1> QED BY <1>9

(* What str.strip leaves of the lines a to b.                              *)
LEMMA StrippedFacts ==
  ASSUME document \in Documents, NEW a \in Nat, NEW b \in Nat
  PROVE  \/ Stripped(a..b) = << >> /\ a..b \cap SolidLines = {}
         \/ \E run \in RunType :
              /\ Stripped(a..b) = <<run>>
              /\ run.first \in SolidLines /\ run.last \in SolidLines
              /\ a <= run.first /\ run.first <= run.last /\ run.last <= b
              /\ \A l \in a..b : l \in SolidLines => run.first <= l /\ l <= run.last
<1> DEFINE solid == a..b \cap SolidLines
<1>1. CASE solid = {}
  BY <1>1 DEF Stripped
<1>2. CASE solid # {}
  <2>1. solid \in SUBSET Nat /\ solid \in SUBSET (0..b)
    OBVIOUS
  <2> HIDE DEF solid
  <2>2. Min(solid) \in solid /\ \A j \in solid : Min(solid) <= j
    BY <1>2, <2>1, MinFacts
  <2>3. Max(solid) \in solid /\ \A j \in solid : j <= Max(solid)
    BY <1>2, <2>1, MaxFacts
  <2>4. Stripped(a..b) = <<Run(Min(solid), Max(solid))>>
    BY <1>2 DEF Stripped, solid
  <2>5. Run(Min(solid), Max(solid)) \in RunType
    BY <2>1, <2>2, <2>3 DEF Run, RunType
  <2>6. Run(Min(solid), Max(solid)).first = Min(solid) /\ Run(Min(solid), Max(solid)).last = Max(solid)
    BY DEF Run
  <2>7. /\ Min(solid) \in SolidLines /\ Max(solid) \in SolidLines
        /\ a <= Min(solid) /\ Min(solid) <= Max(solid) /\ Max(solid) <= b
        /\ \A l \in a..b : l \in SolidLines => Min(solid) <= l /\ l <= Max(solid)
    BY <2>2, <2>3 DEF solid
  <2> QED BY <2>4, <2>5, <2>6, <2>7
<1> QED BY <1>1, <1>2

-----------------------------------------------------------------------------
(* Texts that carry the document's lines, and sequences of them.           *)

(* The first and last lines of a text are numbers.                         *)
LEMMA TextFacts ==
  ASSUME NEW text \in TextType
  PROVE  /\ Len(text) \in Nat /\ DOMAIN text = 1..Len(text)
         /\ text # << >> => Len(text) >= 1 /\ FirstLine(text) \in Nat /\ LastLine(text) \in Nat
         /\ \A i \in DOMAIN text : text[i].first \in Nat /\ text[i].last \in Nat
<1>1. /\ Len(text) \in Nat /\ DOMAIN text = 1..Len(text) /\ (text # << >> => Len(text) # 0)
      /\ \A i \in DOMAIN text : text[i] \in RunType
  BY LenProperties, EmptySeq DEF TextType
<1>2. \A i \in DOMAIN text : text[i].first \in Nat /\ text[i].last \in Nat
  BY <1>1 DEF RunType
<1>3. ASSUME text # << >> PROVE 1 \in DOMAIN text /\ Len(text) \in DOMAIN text
  BY <1>1, <1>3
<1> QED BY <1>1, <1>2, <1>3 DEF FirstLine, LastLine

(* A run between two lines that are not empty carries its lines.           *)
LEMMA RunCarries ==
  ASSUME document \in Documents, NEW run \in RunType,
         run.first \in SolidLines, run.last \in SolidLines, run.first <= run.last
  PROVE  /\ <<run>> \in TextType /\ Carries(<<run>>)
         /\ FirstLine(<<run>>) = run.first /\ LastLine(<<run>>) = run.last
<1>1. <<run>> \in TextType /\ Len(<<run>>) = 1 /\ DOMAIN <<run>> = {1} /\ <<run>>[1] = run
  BY DEF TextType
<1>2. \A l \in SolidLines : l \in Nat
  BY DocumentFacts
<1>3. run.first \in Nat /\ run.last \in Nat
  BY DEF RunType
<1> QED BY <1>1, <1>2, <1>3 DEF Carries, FirstLine, LastLine

(* In a text that carries its lines, the runs are in order.                *)
LEMMA CarriesOrder ==
  ASSUME NEW text \in TextType, Carries(text), NEW i \in DOMAIN text
  PROVE  /\ FirstLine(text) <= text[i].first /\ text[i].last <= LastLine(text)
         /\ FirstLine(text) <= LastLine(text)
<1>1. /\ Len(text) \in Nat /\ DOMAIN text = 1..Len(text) /\ text # << >> /\ Len(text) >= 1
      /\ \A k \in DOMAIN text : text[k].first \in Nat /\ text[k].last \in Nat
  BY TextFacts DEF Carries
<1>2. /\ \A k \in DOMAIN text : text[k].first <= text[k].last
      /\ \A k, j \in DOMAIN text : k < j => text[k].last < text[j].first
  BY DEF Carries
<1>3. FirstLine(text) <= text[i].first
  BY <1>1, <1>2 DEF FirstLine
<1>4. text[i].last <= LastLine(text)
  BY <1>1, <1>2 DEF LastLine
<1> QED BY <1>1, <1>2, <1>3, <1>4 DEF FirstLine, LastLine

(* Two texts with nothing between them carry the lines of both.            *)
LEMMA CarriesJoined ==
  ASSUME document \in Documents, NEW a \in TextType, NEW b \in TextType, Carries(a), Carries(b),
         LastLine(a) < FirstLine(b), NoneBetween(LastLine(a), FirstLine(b))
  PROVE  /\ a \o b \in TextType /\ Carries(a \o b) /\ Len(a \o b) = Len(a) + Len(b)
         /\ FirstLine(a \o b) = FirstLine(a) /\ LastLine(a \o b) = LastLine(b)
         /\ \A i \in DOMAIN a : (a \o b)[i] = a[i]
         /\ \A i \in DOMAIN b : (a \o b)[Len(a) + i] = b[i]
<1> DEFINE ab == a \o b
<1>1. /\ Len(a) \in Nat /\ DOMAIN a = 1..Len(a) /\ Len(a) >= 1
      /\ Len(b) \in Nat /\ DOMAIN b = 1..Len(b) /\ Len(b) >= 1
      /\ FirstLine(a) \in Nat /\ LastLine(a) \in Nat /\ FirstLine(b) \in Nat /\ LastLine(b) \in Nat
      /\ \A i \in DOMAIN a : a[i].first \in Nat /\ a[i].last \in Nat
      /\ \A i \in DOMAIN b : b[i].first \in Nat /\ b[i].last \in Nat
  BY TextFacts DEF Carries
<1>2. /\ ab \in TextType /\ Len(ab) = Len(a) + Len(b)
      /\ \A i \in 1..(Len(a) + Len(b)) : ab[i] = IF i <= Len(a) THEN a[i] ELSE b[i - Len(a)]
  BY ConcatProperties DEF TextType
<1>3. DOMAIN ab = 1..(Len(a) + Len(b)) /\ ab # << >>
  BY <1>1, <1>2, TextFacts
<1> HIDE DEF ab
<1>4. \A i \in DOMAIN a : i \in DOMAIN ab /\ ab[i] = a[i]
  BY <1>1, <1>2, <1>3
<1>5. \A i \in DOMAIN b : Len(a) + i \in DOMAIN ab /\ ab[Len(a) + i] = b[i]
  BY <1>1, <1>2, <1>3
<1>6. FirstLine(ab) = FirstLine(a)
  BY <1>1, <1>4 DEF FirstLine
<1>7. LastLine(ab) = LastLine(b)
  BY <1>1, <1>2, <1>5 DEF LastLine
<1>8. FirstLine(ab) \in SolidLines /\ LastLine(ab) \in SolidLines
  BY <1>6, <1>7 DEF Carries
<1>9. ASSUME NEW i \in DOMAIN ab PROVE ab[i].first <= ab[i].last
  <2>1. CASE i <= Len(a)
    BY <1>1, <1>2, <1>3, <2>1 DEF Carries
  <2>2. CASE i > Len(a)
    <3>1. i - Len(a) \in DOMAIN b /\ ab[i] = b[i - Len(a)]
      BY <1>1, <1>2, <1>3, <2>2
    <3> QED BY <3>1 DEF Carries
  <2> QED BY <1>1, <1>3, <2>1, <2>2
<1>10. ASSUME NEW i \in DOMAIN ab, NEW j \in DOMAIN ab, i < j PROVE ab[i].last < ab[j].first
  <2>1. CASE j <= Len(a)
    <3>1. i \in DOMAIN a /\ j \in DOMAIN a /\ ab[i] = a[i] /\ ab[j] = a[j]
      BY <1>1, <1>2, <1>3, <1>10, <2>1
    <3> QED BY <1>10, <3>1 DEF Carries
  <2>2. CASE i > Len(a)
    <3>1. /\ i - Len(a) \in DOMAIN b /\ j - Len(a) \in DOMAIN b /\ i - Len(a) < j - Len(a)
          /\ ab[i] = b[i - Len(a)] /\ ab[j] = b[j - Len(a)]
      BY <1>1, <1>2, <1>3, <1>10, <2>2
    <3> QED BY <3>1 DEF Carries
  <2>3. CASE i <= Len(a) /\ j > Len(a)
    <3>1. i \in DOMAIN a /\ j - Len(a) \in DOMAIN b /\ ab[i] = a[i] /\ ab[j] = b[j - Len(a)]
      BY <1>1, <1>2, <1>3, <2>3
    <3>2. a[i].last <= LastLine(a) /\ FirstLine(b) <= b[j - Len(a)].first
      BY <3>1, CarriesOrder
    <3> QED BY <1>1, <3>1, <3>2
  <2> QED BY <1>1, <1>3, <2>1, <2>2, <2>3
<1>11. ASSUME NEW l \in SolidLines, FirstLine(ab) <= l, l <= LastLine(ab)
       PROVE  \E i \in DOMAIN ab : l \in ab[i].first..ab[i].last
  <2>1. l \in Nat
    BY DocumentFacts
  <2>2. l <= LastLine(a) \/ l >= FirstLine(b)
    BY <1>1, <2>1 DEF NoneBetween
  <2>3. CASE l <= LastLine(a)
    <3>1. \E i \in DOMAIN a : l \in a[i].first..a[i].last
      BY <1>6, <1>11, <2>3 DEF Carries
    <3> QED BY <1>4, <3>1
  <2>4. CASE l >= FirstLine(b)
    <3>1. \E i \in DOMAIN b : l \in b[i].first..b[i].last
      BY <1>1, <1>7, <1>11, <2>1, <2>4 DEF Carries
    <3> QED BY <1>5, <3>1
  <2> QED BY <2>2, <2>3, <2>4
<1>12. Carries(ab)
  BY <1>3, <1>8, <1>9, <1>10, <1>11 DEF Carries
<1> QED BY <1>2, <1>4, <1>5, <1>6, <1>7, <1>12 DEF ab

(* The parts of a section, and where it is in its sequence.                *)
LEMMA SectionFacts ==
  ASSUME NEW s \in Seq(SectionType)
  PROVE  /\ Len(s) \in Nat /\ DOMAIN s = 1..Len(s)
         /\ \A n \in DOMAIN s : s[n] \in SectionType /\ s[n].text \in TextType
<1>1. Len(s) \in Nat /\ DOMAIN s = 1..Len(s) /\ \A n \in DOMAIN s : s[n] \in SectionType
  BY LenProperties
<1> QED BY <1>1 DEF SectionType

(* A section added after the last, with nothing between.                   *)
LEMMA WellMadeAppend ==
  ASSUME NEW s \in Seq(SectionType), NEW x \in SectionType,
         WellMade(s), Carries(x.text), WellPlaced(x),
         EndOf(s) < FirstLine(x.text), NoneBetween(EndOf(s), FirstLine(x.text))
  PROVE  WellMade(Append(s, x)) /\ EndOf(Append(s, x)) = LastLine(x.text)
<1> DEFINE t == Append(s, x)
<1>1. /\ t \in Seq(SectionType) /\ Len(t) = Len(s) + 1
      /\ \A i \in 1..Len(s) : t[i] = s[i]
      /\ t[Len(s) + 1] = x
  BY AppendProperties
<1>2. Len(s) \in Nat /\ DOMAIN s = 1..Len(s) /\ DOMAIN t = 1..(Len(s) + 1)
  BY <1>1, SectionFacts
<1> HIDE DEF t
<1>3. \A n \in 0..Len(s) : LastOf(t, n) = LastOf(s, n)
  BY <1>1, <1>2 DEF LastOf
<1>4. EndOf(t) = LastLine(x.text)
  BY <1>1, <1>2 DEF EndOf, LastOf
<1>5. ASSUME NEW n \in DOMAIN t
      PROVE  /\ Carries(t[n].text) /\ WellPlaced(t[n])
             /\ LastOf(t, n - 1) < FirstLine(t[n].text)
             /\ NoneBetween(LastOf(t, n - 1), FirstLine(t[n].text))
  <2>1. CASE n \in 1..Len(s)
    <3>1. n \in DOMAIN s /\ t[n] = s[n] /\ LastOf(t, n - 1) = LastOf(s, n - 1)
      BY <1>1, <1>2, <1>3, <2>1
    <3> QED BY <3>1 DEF WellMade, Tiles
  <2>2. CASE n = Len(s) + 1
    <3>1. t[n] = x /\ LastOf(t, n - 1) = EndOf(s)
      BY <1>1, <1>2, <1>3, <2>2 DEF EndOf
    <3> QED BY <3>1
  <2> QED BY <1>2, <2>1, <2>2
<1> QED BY <1>4, <1>5 DEF WellMade, Tiles, t

(* The same read backwards.                                                *)
LEMMA WellMadeFront ==
  ASSUME NEW s \in Seq(SectionType), NEW x \in SectionType, WellMade(Append(s, x))
  PROVE  /\ WellMade(s) /\ Carries(x.text) /\ WellPlaced(x)
         /\ EndOf(s) < FirstLine(x.text) /\ NoneBetween(EndOf(s), FirstLine(x.text))
         /\ EndOf(Append(s, x)) = LastLine(x.text)
<1> DEFINE t == Append(s, x)
<1>1. /\ t \in Seq(SectionType) /\ Len(t) = Len(s) + 1
      /\ \A i \in 1..Len(s) : t[i] = s[i]
      /\ t[Len(s) + 1] = x
  BY AppendProperties
<1>2. Len(s) \in Nat /\ DOMAIN s = 1..Len(s) /\ DOMAIN t = 1..(Len(s) + 1)
  BY <1>1, SectionFacts
<1>3. WellMade(t)
  OBVIOUS
<1> HIDE DEF t
<1>4. \A n \in 0..Len(s) : LastOf(t, n) = LastOf(s, n)
  BY <1>1, <1>2 DEF LastOf
<1>5. EndOf(t) = LastLine(x.text)
  BY <1>1, <1>2 DEF EndOf, LastOf
<1>6. \A n \in DOMAIN t : /\ Carries(t[n].text) /\ WellPlaced(t[n])
                          /\ LastOf(t, n - 1) < FirstLine(t[n].text)
                          /\ NoneBetween(LastOf(t, n - 1), FirstLine(t[n].text))
  BY <1>3 DEF WellMade, Tiles
<1>7. ASSUME NEW n \in DOMAIN s
      PROVE  n \in DOMAIN t /\ t[n] = s[n] /\ LastOf(t, n - 1) = LastOf(s, n - 1)
  BY <1>1, <1>2, <1>4
<1>8. WellMade(s)
  BY <1>6, <1>7 DEF WellMade, Tiles
<1>9. Len(s) + 1 \in DOMAIN t /\ LastOf(t, (Len(s) + 1) - 1) = EndOf(s)
  BY <1>2, <1>4 DEF EndOf
<1>10. /\ Carries(x.text) /\ WellPlaced(x)
       /\ EndOf(s) < FirstLine(x.text) /\ NoneBetween(EndOf(s), FirstLine(x.text))
  BY <1>1, <1>6, <1>9
<1> QED BY <1>5, <1>8, <1>10 DEF t

(* The lines where sections end are numbers.                               *)
LEMMA LastOfFacts ==
  ASSUME NEW s \in Seq(SectionType), WellMade(s), NEW n \in 0..Len(s)
  PROVE  LastOf(s, n) \in Nat
<1>1. CASE n = 0
  BY <1>1 DEF LastOf
<1>2. CASE n # 0
  <2>1. n \in DOMAIN s
    BY <1>2, SectionFacts
  <2>2. s[n].text \in TextType /\ s[n].text # << >>
    BY <2>1, SectionFacts DEF WellMade, Tiles, Carries
  <2> QED BY <1>2, <2>2, TextFacts DEF LastOf
<1> QED BY <1>1, <1>2

(* So is the one where the last of them ends.                              *)
LEMMA EndOfFacts ==
  ASSUME NEW s \in Seq(SectionType), WellMade(s)
  PROVE  EndOf(s) \in Nat
<1>1. Len(s) \in 0..Len(s)
  BY SectionFacts
<1> QED BY <1>1, LastOfFacts DEF EndOf

-----------------------------------------------------------------------------
(* Reading: a line's headings, by what they are, and by how they are kept. *)

(* Reading a line: its headings are those of the line before, unless it is *)
(* a heading, which does to them what Stacked does.                        *)
LEMMA EnclosingStep ==
  ASSUME document \in Documents, NEW l \in Nat
  PROVE  /\ Enclosing(0) = {} /\ Enclosing(l) \in SUBSET Nat
         /\ Level(l + 1) = 0 => Enclosing(l + 1) = Enclosing(l)
         /\ Level(l + 1) > 0 =>
              Enclosing(l + 1) = {h \in Enclosing(l) : Level(h) < Level(l + 1)} \cup {l + 1}
<1>1. \A h : Level(h) \in Nat
  BY DocumentFacts
<1>2. Enclosing(0) = {} /\ Enclosing(l) \in SUBSET Nat
  BY DEF Enclosing
<1>3. ASSUME NEW h \in 1..l
      PROVE  h \in Enclosing(l + 1) <=>
               h \in Enclosing(l) /\ (Level(l + 1) = 0 \/ Level(l + 1) > Level(h))
  <2>1. h \in 1..(l + 1)
    OBVIOUS
  <2>2. \A g : g \in (h + 1)..(l + 1) <=> g \in (h + 1)..l \/ g = l + 1
    OBVIOUS
  <2> QED BY <2>1, <2>2 DEF Enclosing
<1>4. l + 1 \in Enclosing(l + 1) <=> Level(l + 1) > 0
  <2>1. ((l + 1) + 1)..(l + 1) = {}
    OBVIOUS
  <2>2. l + 1 \in 1..(l + 1)
    OBVIOUS
  <2> QED BY <2>1, <2>2 DEF Enclosing
<1>5. \A h \in Enclosing(l) : h \in 1..l
  BY DEF Enclosing
<1>6. \A h \in Enclosing(l + 1) : h \in 1..l \/ h = l + 1
  BY DEF Enclosing
<1>7. ASSUME Level(l + 1) = 0 PROVE Enclosing(l + 1) = Enclosing(l)
  BY <1>1, <1>3, <1>4, <1>5, <1>6, <1>7
<1>8. ASSUME Level(l + 1) > 0
      PROVE  Enclosing(l + 1) = {h \in Enclosing(l) : Level(h) < Level(l + 1)} \cup {l + 1}
  <2>1. \A h \in 1..l : h \in Enclosing(l + 1) <=> h \in Enclosing(l) /\ Level(h) < Level(l + 1)
    BY <1>1, <1>3, <1>8
  <2> QED BY <1>4, <1>5, <1>6, <1>8, <2>1
<1> QED BY <1>2, <1>7, <1>8

(* The lines of a section that is read are the section of each of them.    *)
LEMMA SectionOfFacts ==
  ASSUME document \in Documents, NEW a \in Nat \ {0}, NEW b \in Nat, b <= Len(document),
         a > 1 => Level(a) > 0, \A l \in (a + 1)..b : Level(l) = 0,
         b < Len(document) => Level(b + 1) > 0, NEW l \in a..b
  PROVE  SectionOf(l) = a..b
<1>1. Len(document) \in Nat /\ DOMAIN document = 1..Len(document)
  BY DocumentFacts
<1>2. l \in Nat /\ a <= l /\ l <= b
  OBVIOUS
<1>3. ASSUME NEW i \in a..b PROVE i \in SectionOf(l)
  <2>1. i \in Nat /\ a <= i /\ i <= b
    OBVIOUS
  <2>3. i \in DOMAIN document
    BY <1>1, <2>1
  <2>2. ASSUME NEW h \in ((i + 1)..l) \cup ((l + 1)..i) PROVE Level(h) = 0
    <3>1. h \in (a + 1)..b
      BY <1>2, <2>1
    <3> QED BY <3>1
  <2> QED BY <2>2, <2>3 DEF SectionOf
<1>4. ASSUME NEW i \in SectionOf(l) PROVE i \in a..b
  <2>1. i \in 1..Len(document)
    BY <1>1 DEF SectionOf
  <2>2. i \in Nat /\ i >= 1 /\ i <= Len(document)
    BY <1>1, <2>1
  <2>3. \A h : h \in (i + 1)..l \/ h \in (l + 1)..i => Level(h) = 0
    BY DEF SectionOf
  <2>4. ASSUME i < a PROVE FALSE
    <3>1. a \in (i + 1)..l
      BY <1>2, <2>2, <2>4
    <3>2. Level(a) = 0
      BY <2>3, <3>1
    <3>3. Level(a) > 0
      BY <2>2, <2>4
    <3> QED BY <3>2, <3>3
  <2>5. ASSUME i > b PROVE FALSE
    <3>1. b + 1 \in (l + 1)..i /\ b < Len(document)
      BY <1>1, <1>2, <2>2, <2>5
    <3>2. Level(b + 1) = 0
      BY <2>3, <3>1
    <3>3. Level(b + 1) > 0
      BY <3>1
    <3> QED BY <3>2, <3>3
  <2> QED BY <2>2, <2>4, <2>5
<1> QED BY <1>3, <1>4

(* What flush makes of a section that has ended.                           *)
LEMMA FlushedFacts ==
  ASSUME IngestTyped, ReadInv, SectionsInv, pass = "read",
         taken < Len(document) => Level(taken + 1) > 0
  PROVE  /\ Flushed \in Seq(SectionType) /\ WellMade(Flushed)
         /\ \A n \in DOMAIN Flushed : Len(Flushed[n].text) = 1
         /\ EndOf(Flushed) < taken + 1 /\ NoneBetween(EndOf(Flushed), taken + 1)
<1>1. /\ document \in Documents /\ taken \in Nat /\ from \in Nat \ {0} /\ stack \in SUBSET Nat
      /\ sections \in Seq(SectionType)
  BY DEF IngestTyped
<1>2. /\ taken <= Len(document) /\ from <= taken + 1
      /\ from > 1 => Level(from) > 0
      /\ \A l \in (from + 1)..taken : Level(l) = 0
      /\ \A l \in from..taken : Enclosing(l) = stack
      /\ EndOf(sections) < from /\ NoneBetween(EndOf(sections), from)
  BY DEF ReadInv
<1>3. WellMade(sections) /\ \A n \in DOMAIN sections : Len(sections[n].text) = 1
  BY DEF SectionsInv
<1>4. EndOf(sections) \in Nat /\ \A l \in SolidLines : l \in Nat
  <2>1. EndOf(sections) \in Nat
    BY <1>1, <1>3, EndOfFacts
  <2>2. \A l \in SolidLines : l \in Nat
    BY <1>1, DocumentFacts
  <2> QED BY <2>1, <2>2
<1>5. \A l \in from..taken : SectionOf(l) = from..taken
  BY <1>1, <1>2, SectionOfFacts
<1>6. CASE Stripped(from..taken) = << >> /\ from..taken \cap SolidLines = {}
  <2>1. Flushed = sections
    BY <1>6 DEF Flushed
  <2>2. NoneBetween(EndOf(sections), taken + 1)
    <3>1. ASSUME NEW s \in SolidLines, EndOf(sections) < s, s < taken + 1 PROVE FALSE
      <4>1. s >= from
        BY <1>1, <1>2, <1>4, <3>1 DEF NoneBetween
      <4>2. s \in from..taken
        BY <1>1, <1>4, <3>1, <4>1
      <4> QED BY <1>6, <4>2
    <3> QED BY <3>1 DEF NoneBetween
  <2> QED BY <1>1, <1>2, <1>3, <1>4, <2>1, <2>2
<1>7. ASSUME NEW run \in RunType,
             Stripped(from..taken) = <<run>>,
             run.first \in SolidLines, run.last \in SolidLines,
             from <= run.first, run.first <= run.last, run.last <= taken,
             \A l \in from..taken : l \in SolidLines => run.first <= l /\ l <= run.last
      PROVE  /\ Flushed \in Seq(SectionType) /\ WellMade(Flushed)
             /\ \A n \in DOMAIN Flushed : Len(Flushed[n].text) = 1
             /\ EndOf(Flushed) < taken + 1 /\ NoneBetween(EndOf(Flushed), taken + 1)
  <2> DEFINE x == [path |-> stack, text |-> <<run>>]
  <2>1. <<run>> \in TextType /\ Carries(<<run>>)
        /\ FirstLine(<<run>>) = run.first /\ LastLine(<<run>>) = run.last
    BY <1>1, <1>7, RunCarries
  <2>2. x \in SectionType /\ x.path = stack /\ x.text = <<run>>
    BY <1>1, <2>1 DEF SectionType
  <2>3. Flushed = Append(sections, x)
    BY <1>7 DEF Flushed
  <2> HIDE DEF x
  <2>4. run.first \in Nat /\ run.last \in Nat
    BY DEF RunType
  <2>5. WellPlaced(x)
    <3>1. ASSUME NEW i \in DOMAIN <<run>>, NEW l \in <<run>>[i].first..<<run>>[i].last
          PROVE  /\ Stripped(SectionOf(l)) = <<<<run>>[i]>> /\ i = Len(<<run>>)
                 /\ Enclosing(l) = stack
      <4>1. i = 1 /\ Len(<<run>>) = 1 /\ <<run>>[i] = run
        OBVIOUS
      <4>2. l \in from..taken
        BY <1>1, <1>7, <2>4, <4>1
      <4> QED BY <1>2, <1>5, <1>7, <4>1, <4>2
    <3> QED BY <2>2, <3>1 DEF WellPlaced
  <2>6. EndOf(sections) < FirstLine(x.text) /\ NoneBetween(EndOf(sections), FirstLine(x.text))
    <3>1. EndOf(sections) < run.first
      BY <1>1, <1>2, <1>4, <1>7, <2>4
    <3>2. ASSUME NEW s \in SolidLines, EndOf(sections) < s, s < run.first PROVE FALSE
      <4>1. s >= from
        BY <1>1, <1>2, <1>4, <3>2 DEF NoneBetween
      <4>2. s \in from..taken
        BY <1>1, <1>4, <1>7, <2>4, <3>2, <4>1
      <4> QED BY <1>4, <1>7, <2>4, <3>2, <4>2
    <3> QED BY <2>1, <2>2, <3>1, <3>2 DEF NoneBetween
  <2>7. WellMade(Flushed) /\ EndOf(Flushed) = run.last
    BY <1>1, <1>3, <2>1, <2>2, <2>3, <2>5, <2>6, WellMadeAppend
  <2>8. Flushed \in Seq(SectionType) /\ \A n \in DOMAIN Flushed : Len(Flushed[n].text) = 1
    <3>1. /\ Flushed \in Seq(SectionType) /\ Len(Flushed) = Len(sections) + 1
          /\ \A n \in 1..Len(sections) : Flushed[n] = sections[n]
          /\ Flushed[Len(sections) + 1] = x
      BY <1>1, <2>2, <2>3, AppendProperties
    <3>2. /\ Len(sections) \in Nat /\ DOMAIN sections = 1..Len(sections)
          /\ DOMAIN Flushed = 1..(Len(sections) + 1)
      BY <1>1, <3>1, SectionFacts
    <3>3. Len(x.text) = 1
      BY <2>2
    <3>4. ASSUME NEW n \in DOMAIN Flushed PROVE Len(Flushed[n].text) = 1
      <4>1. CASE n = Len(sections) + 1
        BY <3>1, <3>3, <4>1
      <4>2. CASE n # Len(sections) + 1
        <5>1. n \in DOMAIN sections /\ n \in 1..Len(sections)
          BY <3>2, <4>2
        <5> QED BY <1>3, <3>1, <5>1
      <4> QED BY <4>1, <4>2
    <3> QED BY <3>1, <3>4
  <2>9. NoneBetween(run.last, taken + 1)
    <3>1. ASSUME NEW s \in SolidLines, run.last < s, s < taken + 1 PROVE FALSE
      <4>1. s \in from..taken
        BY <1>1, <1>4, <1>7, <2>4, <3>1
      <4> QED BY <1>4, <1>7, <2>4, <3>1, <4>1
    <3> QED BY <3>1 DEF NoneBetween
  <2> QED BY <1>1, <1>7, <2>4, <2>7, <2>8, <2>9
<1>8. \/ Stripped(from..taken) = << >> /\ from..taken \cap SolidLines = {}
      \/ \E run \in RunType :
           /\ Stripped(from..taken) = <<run>>
           /\ run.first \in SolidLines /\ run.last \in SolidLines
           /\ from <= run.first /\ run.first <= run.last /\ run.last <= taken
           /\ \A l \in from..taken : l \in SolidLines => run.first <= l /\ l <= run.last
  BY <1>1, StrippedFacts
<1> QED BY <1>6, <1>7, <1>8

-----------------------------------------------------------------------------
(* Paragraphs of a text.                                                   *)

(* No line is in two runs of a text.                                       *)
LEMMA RunsApart ==
  ASSUME NEW text \in TextType, Carries(text), NEW i \in DOMAIN text, NEW j \in DOMAIN text, NEW l \in Nat,
         text[i].first <= l, l <= text[i].last, text[j].first <= l, l <= text[j].last
  PROVE  i = j
<1>1. /\ DOMAIN text = 1..Len(text) /\ Len(text) \in Nat
      /\ text[i].first \in Nat /\ text[i].last \in Nat /\ text[j].first \in Nat /\ text[j].last \in Nat
  BY TextFacts
<1>2. ~(i < j)
  BY <1>1 DEF Carries
<1>3. ~(j < i)
  BY <1>1 DEF Carries
<1> QED BY <1>1, <1>2, <1>3

(* A paragraph is an unbroken run of one of the text's runs, and goes on to*)
(* an empty line or the end of that run.                                   *)
LEMMA ParagraphFacts ==
  ASSUME document \in Documents, NEW text \in TextType, NEW f \in Starts(text)
  PROVE  /\ Paragraph(text, f) \in RunType /\ Paragraph(text, f).first = f
         /\ f <= Paragraph(text, f).last /\ f \in Nat
         /\ Unbroken(text, f, Paragraph(text, f).last)
         /\ f..Paragraph(text, f).last \subseteq SolidLines
         /\ \A m \in Nat : Unbroken(text, f, m) => m <= Paragraph(text, f).last
<1> DEFINE N == Len(document)
           S == {m \in f..N : Unbroken(text, f, m)}
<1>1. N \in Nat /\ f \in 1..N /\ Unbroken(text, f, f)
  BY DocumentFacts DEF Starts
<1> HIDE DEF N
<1>2. S \in SUBSET (0..N) /\ f \in S
  BY <1>1
<1> HIDE DEF S
<1>3. Max(S) \in S /\ \A m \in S : m <= Max(S)
  BY <1>1, <1>2, MaxFacts
<1>4. Paragraph(text, f) = Run(f, Max(S))
  BY DEF Paragraph, S, N
<1>5. Max(S) \in f..N /\ Unbroken(text, f, Max(S))
  BY <1>3 DEF S
<1>6. Paragraph(text, f).first = f /\ Paragraph(text, f).last = Max(S) /\ Paragraph(text, f) \in RunType
  BY <1>1, <1>4, <1>5 DEF Run, RunType
<1>7. f..Max(S) \subseteq SolidLines
  BY <1>5 DEF Unbroken
<1>8. ASSUME NEW m \in Nat, Unbroken(text, f, m) PROVE m <= Max(S)
  <2>1. CASE m < f
    BY <1>1, <1>5, <2>1
  <2>2. CASE m >= f
    <3>1. m \in f..m /\ f..m \subseteq SolidLines
      BY <1>1, <1>8, <2>2 DEF Unbroken
    <3>2. m \in SolidLines
      BY <3>1
    <3>3. m \in 1..N
      BY <3>2, DocumentFacts DEF N
    <3>4. m \in S
      BY <1>1, <1>8, <2>2, <3>3 DEF S
    <3> QED BY <1>3, <3>4
  <2> QED BY <1>1, <2>1, <2>2
<1> QED BY <1>1, <1>5, <1>6, <1>7, <1>8

(* Every line of a text that is not empty is in a paragraph.               *)
LEMMA StartBelow ==
  ASSUME document \in Documents, NEW text \in TextType, Carries(text), NEW l \in SolidLines,
         FirstLine(text) <= l, l <= LastLine(text)
  PROVE  \E s \in Starts(text) : s <= l /\ Unbroken(text, s, l)
<1>1. l \in Nat /\ \A k \in SolidLines : k \in Nat /\ k >= 1 /\ k \in DOMAIN document
  BY DocumentFacts
<1>2. /\ DOMAIN text = 1..Len(text) /\ Len(text) \in Nat
      /\ \A i \in DOMAIN text : text[i].first \in Nat /\ text[i].last \in Nat
  BY TextFacts
<1> DEFINE S == {k \in SolidLines : k <= l /\ Unbroken(text, k, l)}
<1>3. l \in S
  <2>1. PICK i \in DOMAIN text : l \in text[i].first..text[i].last
    BY DEF Carries
  <2>2. l..l \subseteq SolidLines
    BY <1>1
  <2>3. text[i].first <= l /\ l <= text[i].last
    BY <1>2, <2>1
  <2> QED BY <1>1, <2>2, <2>3 DEF Unbroken
<1>4. S \in SUBSET Nat
  BY <1>1
<1>5. PICK k \in S : \A j \in S : k <= j
  <2> HIDE DEF S
  <2> QED BY <1>3, <1>4, LeastElement
<1>6. k \in Nat /\ k <= l /\ k \in SolidLines
  BY <1>1
<1>7. PICK i \in DOMAIN text : text[i].first <= k /\ l <= text[i].last /\ k..l \subseteq SolidLines
  BY DEF Unbroken
<1>8. Unbroken(text, k, k)
  <2>1. k <= text[i].last
    BY <1>1, <1>2, <1>6, <1>7
  <2>2. k..k \subseteq SolidLines
    BY <1>6
  <2> QED BY <1>7, <2>1, <2>2 DEF Unbroken
<1>9. ~Unbroken(text, k - 1, k)
  <2> SUFFICES ASSUME Unbroken(text, k - 1, k) PROVE FALSE
    OBVIOUS
  <2>1. PICK j \in DOMAIN text : text[j].first <= k - 1 /\ k <= text[j].last /\ (k - 1)..k \subseteq SolidLines
    BY DEF Unbroken
  <2>2. text[j].first <= k /\ k <= text[i].last
    BY <1>1, <1>2, <1>6, <1>7, <2>1
  <2>3. i = j
    BY <1>6, <1>7, <2>1, <2>2, RunsApart
  <2>4. k - 1 \in SolidLines
    <3>1. k - 1 \in (k - 1)..k
      BY <1>6
    <3> QED BY <2>1, <3>1
  <2>5. (k - 1)..l \subseteq SolidLines
    <3>1. \A n \in (k - 1)..l : n = k - 1 \/ n \in k..l
      BY <1>1, <1>6
    <3> QED BY <1>7, <2>4, <3>1
  <2>6. Unbroken(text, k - 1, l)
    BY <1>7, <2>1, <2>3, <2>5 DEF Unbroken
  <2>7. k - 1 \in S
    BY <1>1, <1>6, <2>4, <2>6
  <2>8. k <= k - 1
    BY <1>5, <2>7
  <2> QED BY <1>6, <2>8
<1>10. k \in Starts(text)
  BY <1>1, <1>6, <1>8, <1>9 DEF Starts
<1> QED BY <1>6, <1>10

(* What comes after a paragraph comes with the next ones.                  *)
LEMMA StartAfter ==
  ASSUME document \in Documents, NEW text \in TextType, Carries(text), NEW f \in Starts(text),
         NEW l \in SolidLines, FirstLine(text) <= l, l <= LastLine(text),
         Paragraph(text, f).last < l
  PROVE  \E s \in Starts(text) : Paragraph(text, f).last < s /\ s <= l
<1> DEFINE e == Paragraph(text, f).last
<1>1. /\ e \in Nat /\ f \in Nat /\ f <= e /\ Unbroken(text, f, e)
      /\ \A m \in Nat : Unbroken(text, f, m) => m <= e
  BY ParagraphFacts DEF RunType
<1> HIDE DEF e
<1>2. l \in Nat /\ e < l
  BY DocumentFacts DEF e
<1>3. PICK s \in Starts(text) : s <= l /\ Unbroken(text, s, l)
  BY StartBelow
<1>4. s \in Nat
  BY DocumentFacts DEF Starts
<1>5. ASSUME s <= e PROVE FALSE
  <2>1. PICK i \in DOMAIN text : text[i].first <= s /\ l <= text[i].last /\ s..l \subseteq SolidLines
    BY <1>3 DEF Unbroken
  <2>2. PICK j \in DOMAIN text : text[j].first <= f /\ e <= text[j].last /\ f..e \subseteq SolidLines
    BY <1>1 DEF Unbroken
  <2>3. text[i].first \in Nat /\ text[i].last \in Nat /\ text[j].first \in Nat /\ text[j].last \in Nat
    BY TextFacts
  <2>4. text[i].first <= e /\ e <= text[i].last /\ text[j].first <= e
    BY <1>1, <1>2, <1>4, <1>5, <2>1, <2>2, <2>3
  <2>5. i = j
    BY <1>1, <2>2, <2>4, RunsApart
  <2>6. f..l \subseteq SolidLines
    <3>1. \A n \in f..l : n \in f..e \/ n \in s..l
      BY <1>1, <1>2, <1>4, <1>5
    <3> QED BY <2>1, <2>2, <3>1
  <2>7. Unbroken(text, f, l)
    BY <2>1, <2>2, <2>5, <2>6 DEF Unbroken
  <2> QED BY <1>1, <1>2, <2>7
<1>6. e < s
  BY <1>1, <1>4, <1>5
<1> QED BY <1>3, <1>6 DEF e

(* A paragraph by itself is one paragraph.                                 *)
LEMMA StartsOfRun ==
  ASSUME document \in Documents, NEW p \in RunType, p.first <= p.last, p.first..p.last \subseteq SolidLines
  PROVE  Cardinality(Starts(<<p>>)) = 1
<1> DEFINE text == <<p>>
<1>1. DOMAIN text = {1} /\ text[1] = p
  OBVIOUS
<1> HIDE DEF text
<1>2. p.first \in Nat /\ p.last \in Nat
  BY DEF RunType
<1>3. p.first \in p.first..p.last
  BY <1>2
<1>4. p.first \in DOMAIN document
  BY <1>3 DEF SolidLines
<1>5. Unbroken(text, p.first, p.first) /\ ~Unbroken(text, p.first - 1, p.first)
  BY <1>1, <1>2, <1>3 DEF Unbroken
<1>6. ASSUME NEW l \in Starts(text) PROVE l = p.first
  <2>1. l \in Nat
    BY DocumentFacts DEF Starts
  <2>2. Unbroken(text, l, l) /\ ~Unbroken(text, l - 1, l)
    BY DEF Starts
  <2>3. p.first <= l /\ l <= p.last
    BY <1>1, <2>2 DEF Unbroken
  <2>4. ASSUME p.first < l PROVE FALSE
    <3>1. p.first <= l - 1 /\ (l - 1)..l \subseteq p.first..p.last
      BY <1>2, <2>1, <2>3, <2>4
    <3> QED BY <1>1, <2>2, <2>3, <3>1 DEF Unbroken
  <2> QED BY <1>2, <2>1, <2>3, <2>4
<1>7. Starts(text) = {p.first}
  BY <1>4, <1>5, <1>6 DEF Starts
<1> QED BY <1>7, FS_Singleton DEF text

(* Two things are two.                                                     *)
LEMMA CardinalityOfTwo ==
  ASSUME NEW a, NEW b, b \notin {a}
  PROVE  Cardinality({a} \cup {b}) = 2
<1>1. IsFiniteSet({a}) /\ Cardinality({a}) = 1
  BY FS_Singleton
<1>2. Cardinality({a} \cup {b}) = IF b \in {a} THEN Cardinality({a}) ELSE Cardinality({a}) + 1
  BY <1>1, FS_AddElement
<1> QED BY <1>1, <1>2

(* Two paragraphs that follow one another are two paragraphs.              *)
LEMMA StartsOfTwo ==
  ASSUME document \in Documents, NEW p \in RunType, NEW q \in RunType,
         p.first <= p.last, q.first <= q.last, p.last < q.first,
         p.first..p.last \subseteq SolidLines, q.first..q.last \subseteq SolidLines
  PROVE  Cardinality(Starts(<<p, q>>)) = 2
<1> DEFINE text == <<p, q>>
<1>1. DOMAIN text = {1, 2} /\ text[1] = p /\ text[2] = q
  OBVIOUS
<1> HIDE DEF text
<1>2. p.first \in Nat /\ p.last \in Nat /\ q.first \in Nat /\ q.last \in Nat
  BY DEF RunType
<1>3. p.first \in p.first..p.last /\ q.first \in q.first..q.last
  BY <1>2
<1>4. p.first \in DOMAIN document /\ q.first \in DOMAIN document
  BY <1>3 DEF SolidLines
<1>5. Unbroken(text, p.first, p.first) /\ Unbroken(text, q.first, q.first)
  BY <1>1, <1>2, <1>3 DEF Unbroken
<1>6. ~Unbroken(text, p.first - 1, p.first) /\ ~Unbroken(text, q.first - 1, q.first)
  BY <1>1, <1>2 DEF Unbroken
<1>7. ASSUME NEW l \in Starts(text) PROVE l = p.first \/ l = q.first
  <2>1. l \in Nat
    BY DocumentFacts DEF Starts
  <2>2. Unbroken(text, l, l) /\ ~Unbroken(text, l - 1, l)
    BY DEF Starts
  <2>3. \/ p.first <= l /\ l <= p.last
        \/ q.first <= l /\ l <= q.last
    BY <1>1, <2>2 DEF Unbroken
  <2>4. ASSUME p.first < l, l <= p.last PROVE FALSE
    <3>1. p.first <= l - 1 /\ (l - 1)..l \subseteq p.first..p.last
      BY <1>2, <2>1, <2>4
    <3> QED BY <1>1, <2>2, <2>4, <3>1 DEF Unbroken
  <2>5. ASSUME q.first < l, l <= q.last PROVE FALSE
    <3>1. q.first <= l - 1 /\ (l - 1)..l \subseteq q.first..q.last
      BY <1>2, <2>1, <2>5
    <3> QED BY <1>1, <2>2, <2>5, <3>1 DEF Unbroken
  <2> QED BY <1>2, <2>1, <2>3, <2>4, <2>5
<1>8. Starts(text) = {p.first} \cup {q.first}
  BY <1>4, <1>5, <1>6, <1>7 DEF Starts
<1>9. q.first \notin {p.first}
  BY <1>2
<1>10. Cardinality({p.first} \cup {q.first}) = 2
  BY <1>9, CardinalityOfTwo
<1> QED BY <1>8, <1>10 DEF text

(* A chunk of a section is cited rightly wherever in the section it ends.  *)
LEMMA CitedPart ==
  ASSUME document \in Documents, NEW section \in SectionType, Carries(section.text), WellPlaced(section),
         NEW chunk, chunk.path = section.path,
         NEW i \in DOMAIN section.text, LastLine(chunk.text) \in Nat,
         section.text[i].first <= LastLine(chunk.text), LastLine(chunk.text) <= section.text[i].last
  PROVE  Cited(chunk)
<1> DEFINE text == section.text
           l == LastLine(chunk.text)
<1>1. /\ text \in TextType /\ DOMAIN text = 1..Len(text) /\ Len(text) \in Nat
      /\ \A k \in DOMAIN text : text[k].first \in Nat /\ text[k].last \in Nat
  <2>1. text \in TextType
    BY DEF SectionType
  <2> QED BY <2>1, TextFacts
<1>2. l \in text[i].first..text[i].last
  BY <1>1
<1>3. /\ Stripped(SectionOf(l)) = <<text[i]>>
      /\ i < Len(text) => Length(<<text[i]>>) < MinChars
      /\ i = Len(text) => Enclosing(l) = section.path
  BY <1>2 DEF WellPlaced
<1>4. CASE i = Len(text)
  BY <1>3, <1>4 DEF Cited
<1>5. CASE i < Len(text)
  <2> DEFINE z == text[Len(text)].last
  <2>1. Len(text) \in DOMAIN text /\ text[Len(text)].first <= z /\ text[i].last < text[Len(text)].first
    BY <1>1, <1>5 DEF Carries
  <2>2. z \in text[Len(text)].first..text[Len(text)].last /\ z > l
    BY <1>1, <2>1
  <2>3. Enclosing(z) = section.path
    BY <2>1, <2>2 DEF WellPlaced
  <2>4. z \in DOMAIN document
    BY DEF Carries, LastLine, SolidLines
  <2> HIDE DEF z
  <2>5. Length(Stripped(SectionOf(l))) < MinChars
    BY <1>3, <1>5
  <2> QED BY <2>2, <2>3, <2>4, <2>5 DEF Cited
<1> QED BY <1>1, <1>4, <1>5

(* Paragraphs begin after the end of those before.                         *)
LEMMA NextStarts ==
  ASSUME document \in Documents, NEW text \in TextType, NEW f \in Starts(text), NEW s \in Starts(text), f < s
  PROVE  Paragraph(text, f).last < s
<1> DEFINE e == Paragraph(text, f).last
<1>1. /\ e \in Nat /\ f \in Nat /\ Unbroken(text, f, e)
  BY ParagraphFacts DEF RunType
<1>2. s \in Nat
  BY DocumentFacts DEF Starts
<1> HIDE DEF e
<1>3. ASSUME s <= e PROVE FALSE
  <2>1. PICK i \in DOMAIN text : text[i].first <= f /\ e <= text[i].last /\ f..e \subseteq SolidLines
    BY <1>1 DEF Unbroken
  <2>2. text[i].first \in Nat /\ text[i].last \in Nat
    BY TextFacts
  <2>3. text[i].first <= s - 1 /\ s <= text[i].last
    BY <1>1, <1>2, <1>3, <2>1, <2>2
  <2>4. (s - 1)..s \subseteq f..e
    BY <1>1, <1>2, <1>3
  <2>5. Unbroken(text, s - 1, s)
    BY <2>1, <2>3, <2>4 DEF Unbroken
  <2> QED BY <2>5 DEF Starts
<1> QED BY <1>1, <1>2, <1>3 DEF e

(* A text that begins after a line, and leaves nothing out, follows it.    *)
LEMMA FollowsAfter ==
  ASSUME document \in Documents, NEW text \in TextType, Carries(text), NEW before \in Nat,
         before < FirstLine(text), NoneBetween(before, FirstLine(text))
  PROVE  Follows(text, before)
<1>1. text # << >> /\ 1 \in DOMAIN text
  BY TextFacts DEF Carries
<1>2. FirstLine(text) <= LastLine(text) /\ FirstLine(text) \in Nat /\ LastLine(text) \in Nat
  BY <1>1, CarriesOrder, TextFacts
<1> QED BY <1>2 DEF Follows

(* A chunk that is well made, added after the last.                        *)
LEMMA ChunkAdded ==
  ASSUME NEW s \in Seq(SectionType), NEW x \in SectionType, WellChunked(s),
         Carries(x.text), Follows(x.text, EndOf(s)), Fits(x.text, EndOf(s)), Cited(x)
  PROVE  /\ Append(s, x) \in Seq(SectionType)
         /\ WellChunked(Append(s, x)) /\ EndOf(Append(s, x)) = LastLine(x.text)
<1> DEFINE t == Append(s, x)
<1>1. /\ t \in Seq(SectionType) /\ Len(t) = Len(s) + 1
      /\ \A i \in 1..Len(s) : t[i] = s[i]
      /\ t[Len(s) + 1] = x
  BY AppendProperties
<1>2. Len(s) \in Nat /\ DOMAIN s = 1..Len(s) /\ DOMAIN t = 1..(Len(s) + 1)
  BY <1>1, SectionFacts
<1> HIDE DEF t
<1>3. \A n \in 0..Len(s) : LastOf(t, n) = LastOf(s, n)
  BY <1>1, <1>2 DEF LastOf
<1>4. EndOf(t) = LastLine(x.text)
  BY <1>1, <1>2 DEF EndOf, LastOf
<1>5. ASSUME NEW n \in DOMAIN t
      PROVE  /\ Carries(t[n].text) /\ Follows(t[n].text, LastOf(t, n - 1))
             /\ Fits(t[n].text, LastOf(t, n - 1)) /\ Cited(t[n])
  <2>1. CASE n \in 1..Len(s)
    <3>1. n \in DOMAIN s /\ t[n] = s[n] /\ LastOf(t, n - 1) = LastOf(s, n - 1)
      BY <1>1, <1>2, <1>3, <2>1
    <3> QED BY <3>1 DEF WellChunked
  <2>2. CASE n = Len(s) + 1
    <3>1. t[n] = x /\ LastOf(t, n - 1) = EndOf(s)
      BY <1>1, <1>2, <1>3, <2>2 DEF EndOf
    <3> QED BY <3>1
  <2> QED BY <1>2, <2>1, <2>2
<1> QED BY <1>1, <1>4, <1>5 DEF WellChunked, t

(* What is said of texts depends on the document alone.                    *)
LEMMA DocumentStays ==
  ASSUME document' = document
  PROVE  /\ SolidLines' = SolidLines
         /\ \A l : (Level(l))' = Level(l)
         /\ \A l : (Enclosing(l))' = Enclosing(l)
         /\ \A l, m : (NoneBetween(l, m))' <=> NoneBetween(l, m)
         /\ \A s : (WellMade(s))' <=> WellMade(s)
         /\ \A s : (ToTheEnd(s))' <=> ToTheEnd(s)
         /\ \A s : (WellChunked(s))' <=> WellChunked(s)
         /\ \A t : (Carries(t))' <=> Carries(t)
         /\ \A t, l : (Follows(t, l))' <=> Follows(t, l)
         /\ \A t : (Length(t))' = Length(t)
         /\ \A t : (Starts(t))' = Starts(t)
         /\ \A t, l : (Paragraph(t, l))' = Paragraph(t, l)
  BY DEF Carries, FirstLine, LastLine, SolidLines, NoneBetween, Length, Places, Follows, Enclosing,
     SectionOf, Stripped, Level, Starts, Unbroken, Paragraph, WellMade, Tiles, WellPlaced, LastOf, EndOf,
     ToTheEnd, WellChunked, Fits, Cited

-----------------------------------------------------------------------------
(* Every step preserves the invariant.                                     *)

(* Nothing is wrong with no texts.                                         *)
LEMMA NothingYet ==
  /\ WellMade(<< >>) /\ WellChunked(<< >>) /\ EndOf(<< >>) = 0
  /\ << >> \in Seq(SectionType) /\ << >> \in TextType /\ Len(<< >>) = 0
  BY EmptySeq DEF WellMade, Tiles, WellChunked, EndOf, LastOf, TextType

(* IngestInit establishes the invariant.                                   *)
LEMMA InitIngestInv == IngestInit => IngestInv
<1> SUFFICES ASSUME IngestInit PROVE IngestInv
  OBVIOUS
<1>1. /\ document \in Documents /\ pass = "read" /\ taken = 0 /\ from = 1 /\ stack = {}
      /\ sections = << >> /\ pending = << >> /\ merged = << >>
      /\ left = {} /\ current = << >> /\ chunks = << >>
  BY DEF IngestInit
<1>2. IngestTyped
  BY <1>1, NothingYet DEF IngestTyped
<1>3. ReadInv
  <2>1. Len(document) \in Nat /\ \A l \in SolidLines : l \in Nat /\ ~(l < 1)
    BY <1>1, DocumentFacts
  <2>2. Enclosing(0) = {}
    BY <1>1, EnclosingStep
  <2>3. EndOf(sections) = 0 /\ NoneBetween(0, 1)
    BY <1>1, <2>1, NothingYet DEF NoneBetween
  <2> QED BY <1>1, <2>1, <2>2, <2>3 DEF ReadInv
<1>4. SectionsInv
  BY <1>1, NothingYet DEF SectionsInv
<1>5. MergeInv /\ MergedInv /\ SplitInv
  BY <1>1 DEF MergeInv, MergedInv, SplitInv
<1>6. ChunksInv
  BY <1>1, NothingYet DEF ChunksInv
<1> QED BY <1>2, <1>3, <1>4, <1>5, <1>6 DEF IngestInv

(* ReadText preserves it: a line that is no heading is in the same section.*)
LEMMA ReadTextIngestInv == IngestInv /\ ReadText => IngestInv'
<1> SUFFICES ASSUME IngestInv, ReadText PROVE IngestInv'
  OBVIOUS
<1>1. /\ pass = "read" /\ taken < Len(document) /\ Level(taken + 1) = 0 /\ taken' = taken + 1
      /\ document' = document /\ pass' = pass /\ from' = from /\ stack' = stack /\ sections' = sections
      /\ pending' = pending /\ merged' = merged /\ left' = left /\ current' = current /\ chunks' = chunks
  BY DEF ReadText, readVars, mergeVars, splitVars
<1>2. IngestTyped /\ ReadInv /\ SectionsInv /\ ChunksInv
  BY DEF IngestInv
<1>3. document \in Documents /\ taken \in Nat /\ from \in Nat \ {0} /\ Len(document) \in Nat
  BY <1>2, DocumentFacts DEF IngestTyped
<1>4. IngestTyped'
  BY <1>1, <1>2 DEF IngestTyped
<1>5. ReadInv'
  <2>1. Enclosing(taken + 1) = Enclosing(taken)
    BY <1>1, <1>3, EnclosingStep
  <2>2. stack = Enclosing(taken + 1)
    BY <1>1, <1>2, <2>1 DEF ReadInv
  <2>3. ASSUME NEW l \in from..(taken + 1) PROVE Enclosing(l) = stack
    <3>1. l \in from..taken \/ l = taken + 1
      BY <1>3
    <3> QED BY <1>1, <1>2, <2>2, <3>1 DEF ReadInv
  <2>4. ASSUME NEW l \in (from + 1)..(taken + 1) PROVE Level(l) = 0
    <3>1. l \in (from + 1)..taken \/ l = taken + 1
      BY <1>3
    <3> QED BY <1>1, <1>2, <3>1 DEF ReadInv
  <2>5. /\ pending = << >> /\ merged = << >>
        /\ taken + 1 <= Len(document) /\ from <= (taken + 1) + 1 /\ (from > 1 => Level(from) > 0)
        /\ EndOf(sections) < from /\ NoneBetween(EndOf(sections), from)
    BY <1>1, <1>2, <1>3 DEF ReadInv
  <2> QED BY <1>1, <2>2, <2>3, <2>4, <2>5, DocumentStays DEF ReadInv
<1>6. SectionsInv'
  BY <1>1, <1>2, DocumentStays DEF SectionsInv
<1>7. (MergeInv /\ MergedInv /\ SplitInv)'
  BY <1>1 DEF MergeInv, MergedInv, SplitInv
<1>8. ChunksInv'
  BY <1>1, <1>2, DocumentStays DEF ChunksInv
<1> QED BY <1>4, <1>5, <1>6, <1>7, <1>8 DEF IngestInv

(* ReadHeading preserves it: what is flushed is the section that ended.    *)
LEMMA ReadHeadingIngestInv == IngestInv /\ ReadHeading => IngestInv'
<1> SUFFICES ASSUME IngestInv, ReadHeading PROVE IngestInv'
  OBVIOUS
<1>1. /\ pass = "read" /\ taken < Len(document) /\ Level(taken + 1) > 0 /\ taken' = taken + 1
      /\ sections' = Flushed /\ from' = taken + 1 /\ stack' = Stacked(taken + 1)
      /\ document' = document /\ pass' = pass
      /\ pending' = pending /\ merged' = merged /\ left' = left /\ current' = current /\ chunks' = chunks
  BY DEF ReadHeading, mergeVars, splitVars
<1>2. IngestTyped /\ ReadInv /\ SectionsInv /\ ChunksInv
  BY DEF IngestInv
<1>3. document \in Documents /\ taken \in Nat /\ stack \in SUBSET Nat /\ Len(document) \in Nat
  BY <1>2, DocumentFacts DEF IngestTyped
<1>4. /\ Flushed \in Seq(SectionType) /\ WellMade(Flushed)
      /\ \A n \in DOMAIN Flushed : Len(Flushed[n].text) = 1
      /\ EndOf(Flushed) < taken + 1 /\ NoneBetween(EndOf(Flushed), taken + 1)
  BY <1>1, <1>2, FlushedFacts
<1>5. Stacked(taken + 1) \in SUBSET Nat /\ Stacked(taken + 1) = Enclosing(taken + 1)
  <2>1. stack = Enclosing(taken)
    BY <1>1, <1>2 DEF ReadInv
  <2>2. Enclosing(taken + 1) = {h \in Enclosing(taken) : Level(h) < Level(taken + 1)} \cup {taken + 1}
    BY <1>1, <1>3, EnclosingStep
  <2> QED BY <1>3, <2>1, <2>2 DEF Stacked
<1>6. IngestTyped'
  BY <1>1, <1>2, <1>3, <1>4, <1>5 DEF IngestTyped
<1>7. ReadInv'
  <2>1. \A l \in (taken + 1)..(taken + 1) : l = taken + 1
    BY <1>3
  <2>2. ((taken + 1) + 1)..(taken + 1) = {}
    BY <1>3
  <2>3. pending = << >> /\ merged = << >>
    BY <1>1, <1>2 DEF ReadInv
  <2>4. taken + 1 <= Len(document) /\ taken + 1 <= (taken + 1) + 1
    BY <1>1, <1>3
  <2> QED BY <1>1, <1>4, <1>5, <2>1, <2>2, <2>3, <2>4, DocumentStays DEF ReadInv
<1>8. SectionsInv'
  BY <1>1, <1>4, DocumentStays DEF SectionsInv
<1>9. (MergeInv /\ MergedInv /\ SplitInv)'
  BY <1>1 DEF MergeInv, MergedInv, SplitInv
<1>10. ChunksInv'
  BY <1>1, <1>2, DocumentStays DEF ChunksInv
<1> QED BY <1>6, <1>7, <1>8, <1>9, <1>10 DEF IngestInv

(* EndRead preserves it: what is flushed last goes to the end.             *)
LEMMA EndReadIngestInv == IngestInv /\ EndRead => IngestInv'
<1> SUFFICES ASSUME IngestInv, EndRead PROVE IngestInv'
  OBVIOUS
<1>1. /\ pass = "read" /\ taken = Len(document) /\ sections' = Flushed /\ pass' = "merge" /\ taken' = 0
      /\ document' = document /\ from' = from /\ stack' = stack
      /\ pending' = pending /\ merged' = merged /\ left' = left /\ current' = current /\ chunks' = chunks
  BY DEF EndRead, mergeVars, splitVars
<1>2. IngestTyped /\ ReadInv /\ SectionsInv /\ ChunksInv
  BY DEF IngestInv
<1>3. document \in Documents /\ taken \in Nat /\ pending = << >> /\ merged = << >>
  BY <1>1, <1>2 DEF IngestTyped, ReadInv
<1>4. /\ Flushed \in Seq(SectionType) /\ WellMade(Flushed)
      /\ \A n \in DOMAIN Flushed : Len(Flushed[n].text) = 1
      /\ EndOf(Flushed) < taken + 1 /\ NoneBetween(EndOf(Flushed), taken + 1)
  <2>1. taken < Len(document) => Level(taken + 1) > 0
    BY <1>1, <1>3
  <2> QED BY <1>1, <1>2, <2>1, FlushedFacts
<1>5. IngestTyped'
  BY <1>1, <1>2, <1>4 DEF IngestTyped
<1>6. ToTheEnd(Flushed)
  <2>1. ASSUME NEW l \in SolidLines PROVE l <= EndOf(Flushed)
    <3>1. l \in Nat /\ l < taken + 1
      BY <1>1, <1>3, DocumentFacts
    <3>2. EndOf(Flushed) \in Nat
      BY <1>4, EndOfFacts
    <3> QED BY <1>4, <3>1, <3>2 DEF NoneBetween
  <2> QED BY <2>1 DEF ToTheEnd
<1>7. SectionsInv'
  BY <1>1, <1>4, <1>6, DocumentStays DEF SectionsInv
<1>8. MergeInv'
  <2>1. Len(Flushed) \in Nat /\ LastOf(Flushed, 0) = 0
    BY <1>4, SectionFacts DEF LastOf
  <2>2. << >> \o << >> = << >>
    BY NothingYet, ConcatEmptySeq
  <2>3. (merged \o pending)' = << >>
    BY <1>1, <1>3, <2>2
  <2> QED BY <1>1, <2>1, <2>3, NothingYet, DocumentStays DEF MergeInv
<1>9. (ReadInv /\ MergedInv /\ SplitInv)'
  BY <1>1 DEF ReadInv, MergedInv, SplitInv
<1>10. ChunksInv'
  BY <1>1, <1>2, DocumentStays DEF ChunksInv
<1> QED BY <1>5, <1>7, <1>8, <1>9, <1>10 DEF IngestInv

(* A small section joined with the next is as well made as they are.       *)
LEMMA JoinedSections ==
  ASSUME document \in Documents, NEW s \in Seq(SectionType), NEW p \in SectionType, NEW next \in SectionType,
         WellMade(Append(s, p)), Tiny(p), Carries(next.text), WellPlaced(next), Len(next.text) = 1,
         LastLine(p.text) < FirstLine(next.text), NoneBetween(LastLine(p.text), FirstLine(next.text)),
         NEW x, x = [path |-> next.path, text |-> p.text \o next.text]
  PROVE  /\ x \in SectionType /\ WellMade(Append(s, x))
         /\ EndOf(Append(s, x)) = LastLine(next.text)
<1>1. /\ WellMade(s) /\ Carries(p.text) /\ WellPlaced(p)
      /\ EndOf(s) < FirstLine(p.text) /\ NoneBetween(EndOf(s), FirstLine(p.text))
  BY WellMadeFront
<1>2. p.text \in TextType /\ next.text \in TextType /\ next.path \in SUBSET Nat
  BY DEF SectionType
<1> DEFINE text == p.text \o next.text
<1>3. /\ text \in TextType /\ Carries(text) /\ Len(text) = Len(p.text) + Len(next.text)
      /\ FirstLine(text) = FirstLine(p.text) /\ LastLine(text) = LastLine(next.text)
      /\ \A i \in DOMAIN p.text : text[i] = p.text[i]
      /\ \A i \in DOMAIN next.text : text[Len(p.text) + i] = next.text[i]
  BY <1>1, <1>2, CarriesJoined
<1>4. x.text = text /\ x.path = next.path
  OBVIOUS
<1> HIDE DEF text
<1>5. x \in SectionType
  BY <1>2, <1>3 DEF SectionType, text
<1>6. /\ Len(p.text) \in Nat /\ DOMAIN p.text = 1..Len(p.text) /\ DOMAIN next.text = {1}
      /\ DOMAIN text = 1..(Len(p.text) + 1) /\ Len(text) = Len(p.text) + 1
  BY <1>2, <1>3, TextFacts
<1>7. WellPlaced(x)
  <2> SUFFICES ASSUME NEW i \in DOMAIN text, NEW l \in text[i].first..text[i].last
               PROVE  /\ Stripped(SectionOf(l)) = <<text[i]>>
                      /\ i < Len(text) => Length(<<text[i]>>) < MinChars
                      /\ i = Len(text) => Enclosing(l) = x.path
    BY <1>4 DEF WellPlaced
  <2>1. CASE i \in DOMAIN p.text
    <3>1. text[i] = p.text[i]
      BY <1>3, <2>1
    <3>2. Stripped(SectionOf(l)) = <<text[i]>>
      BY <1>1, <2>1, <3>1 DEF WellPlaced
    <3>3. Length(<<p.text[i]>>) <= Length(p.text)
      BY <1>2, <2>1, LengthOfPart
    <3>4. <<p.text[i]>> \in TextType
      BY <1>2, <2>1 DEF TextType
    <3>5. Length(<<p.text[i]>>) \in Int /\ Length(p.text) \in Int
      BY <1>2, <3>4, LengthFacts
    <3>6. Length(<<text[i]>>) < MinChars
      BY <3>1, <3>3, <3>5, LimitsAssumption DEF Tiny
    <3>7. i # Len(text)
      BY <1>6, <2>1
    <3> QED BY <3>2, <3>6, <3>7
  <2>2. CASE i = Len(p.text) + 1
    <3>1. text[i] = next.text[1] /\ 1 \in DOMAIN next.text
      BY <1>3, <1>6, <2>2
    <3>2. Stripped(SectionOf(l)) = <<text[i]>> /\ Enclosing(l) = next.path
      BY <3>1 DEF WellPlaced
    <3>3. ~(i < Len(text))
      BY <1>6, <2>2
    <3> QED BY <1>4, <3>2, <3>3
  <2> QED BY <1>6, <2>1, <2>2
<1>8. Carries(x.text) /\ EndOf(s) < FirstLine(x.text) /\ NoneBetween(EndOf(s), FirstLine(x.text))
  BY <1>1, <1>3, <1>4
<1>9. WellMade(Append(s, x)) /\ EndOf(Append(s, x)) = LastLine(x.text)
  BY <1>1, <1>5, <1>7, <1>8, WellMadeAppend
<1> QED BY <1>3, <1>4, <1>5, <1>9

(* A sequence of one element is that element.                              *)
LEMMA OneElement ==
  ASSUME NEW S, NEW s \in Seq(S), Len(s) <= 1, s # << >>
  PROVE  Len(s) = 1 /\ s[1] \in S /\ s = <<s[1]>>
<1>1. Len(s) \in Nat /\ Len(s) # 0
  BY LenProperties, EmptySeq
<1>2. Len(s) = 1
  BY <1>1
<1>3. s[1] \in S
  BY <1>2, ElementOfSeq
<1>4. <<s[1]>> \in Seq(S) /\ Len(<<s[1]>>) = 1 /\ \A i \in 1..1 : s[i] = <<s[1]>>[i]
  BY <1>3
<1> QED BY <1>2, <1>3, <1>4, SeqEqual

(* MergeSection preserves it: what is pending is joined, or merged as it is.*)
LEMMA MergeSectionIngestInv == IngestInv /\ MergeSection => IngestInv'
<1> SUFFICES ASSUME IngestInv, MergeSection PROVE IngestInv'
  OBVIOUS
<1> DEFINE next == sections[taken + 1]
           x == [path |-> next.path, text |-> pending[1].text \o next.text]
<1>1. /\ pass = "merge" /\ taken < Len(sections) /\ taken' = taken + 1
      /\ document' = document /\ pass' = pass /\ from' = from /\ stack' = stack /\ sections' = sections
      /\ left' = left /\ current' = current /\ chunks' = chunks
      /\ IF pending # << >> /\ Tiny(pending[1])
         THEN pending' = <<x>> /\ merged' = merged
         ELSE pending' = <<next>> /\ merged' = merged \o pending
  BY DEF MergeSection, readVars, splitVars
<1>2. IngestTyped /\ SectionsInv /\ MergeInv /\ ChunksInv
  BY DEF IngestInv
<1>3. /\ document \in Documents /\ taken \in Nat /\ sections \in Seq(SectionType)
      /\ merged \in Seq(SectionType) /\ pending \in Seq(SectionType) /\ Len(pending) <= 1
  BY <1>2 DEF IngestTyped
<1>4. /\ WellMade(merged \o pending) /\ EndOf(merged \o pending) = LastOf(sections, taken)
      /\ WellMade(sections) /\ Len(next.text) = 1
  <2>1. taken + 1 \in DOMAIN sections
    BY <1>1, <1>3, SectionFacts
  <2> QED BY <1>1, <1>2, <2>1 DEF MergeInv, SectionsInv
<1>5. /\ next \in SectionType /\ Carries(next.text) /\ WellPlaced(next)
      /\ LastOf(sections, taken) < FirstLine(next.text)
      /\ NoneBetween(LastOf(sections, taken), FirstLine(next.text))
  <2>1. taken + 1 \in DOMAIN sections /\ (taken + 1) - 1 = taken
    BY <1>1, <1>3, SectionFacts
  <2>2. next \in SectionType
    BY <1>3, <2>1, SectionFacts
  <2> QED BY <1>4, <2>1, <2>2 DEF WellMade, Tiles
<1>6. LastOf(sections, taken + 1) = LastLine(next.text)
  BY <1>3 DEF LastOf
<1> HIDE DEF next, x
<1>7. /\ merged' \in Seq(SectionType) /\ pending' \in Seq(SectionType) /\ Len(pending') <= 1
      /\ WellMade(merged' \o pending') /\ EndOf(merged' \o pending') = LastLine(next.text)
  <2>1. CASE pending # << >> /\ Tiny(pending[1])
    <3>1. pending' = <<x>> /\ merged' = merged
      BY <1>1, <2>1
    <3>2. Len(pending) = 1 /\ pending[1] \in SectionType /\ pending = <<pending[1]>>
      BY <1>3, <2>1, OneElement
    <3>3. merged \o pending = Append(merged, pending[1])
      BY <1>3, <3>2, AppendIsConcat
    <3>4. WellMade(Append(merged, pending[1])) /\ EndOf(Append(merged, pending[1])) = LastLine(pending[1].text)
      BY <1>3, <1>4, <3>2, <3>3, WellMadeFront
    <3>5. /\ LastLine(pending[1].text) < FirstLine(next.text)
          /\ NoneBetween(LastLine(pending[1].text), FirstLine(next.text))
      BY <1>4, <1>5, <3>3, <3>4
    <3>6. x = [path |-> next.path, text |-> pending[1].text \o next.text]
      BY DEF x
    <3>7. /\ x \in SectionType /\ WellMade(Append(merged, x))
          /\ EndOf(Append(merged, x)) = LastLine(next.text)
      <4>1. Tiny(pending[1]) /\ pending[1] \in SectionType /\ WellMade(Append(merged, pending[1]))
        BY <2>1, <3>2, <3>4
      <4>2. Len(next.text) = 1 /\ merged \in Seq(SectionType) /\ document \in Documents
        BY <1>3, <1>4
      <4> QED BY <1>5, <3>5, <3>6, <4>1, <4>2, JoinedSections
    <3>8. Append(merged, x) = merged \o <<x>>
      BY <1>3, <3>7, AppendIsConcat
    <3>9. <<x>> \in Seq(SectionType) /\ Len(<<x>>) <= 1
      BY <3>7
    <3> QED BY <1>3, <3>1, <3>7, <3>8, <3>9
  <2>2. CASE ~(pending # << >> /\ Tiny(pending[1]))
    <3>1. pending' = <<next>> /\ merged' = merged \o pending
      BY <1>1, <2>2
    <3>2. merged \o pending \in Seq(SectionType)
      BY <1>3, ConcatProperties
    <3>3. /\ WellMade(Append(merged \o pending, next))
          /\ EndOf(Append(merged \o pending, next)) = LastLine(next.text)
      BY <1>4, <1>5, <3>2, WellMadeAppend
    <3>4. Append(merged \o pending, next) = (merged \o pending) \o <<next>>
      BY <1>5, <3>2, AppendIsConcat
    <3>5. <<next>> \in Seq(SectionType) /\ Len(<<next>>) <= 1
      BY <1>5
    <3> QED BY <3>1, <3>2, <3>3, <3>4, <3>5
  <2> QED BY <2>1, <2>2
<1>8. IngestTyped'
  BY <1>1, <1>2, <1>3, <1>7 DEF IngestTyped
<1>9. SectionsInv'
  BY <1>1, <1>2, DocumentStays DEF SectionsInv
<1>10. MergeInv'
  <2>1. taken + 1 <= Len(sections)
    BY <1>1, <1>3, SectionFacts
  <2>2. (merged \o pending)' = merged' \o pending'
    OBVIOUS
  <2>3. (WellMade(merged \o pending))'
    BY <1>1, <1>7, <2>2, DocumentStays
  <2> QED BY <1>1, <1>6, <1>7, <2>1, <2>2, <2>3 DEF MergeInv
<1>11. (ReadInv /\ MergedInv /\ SplitInv)'
  BY <1>1 DEF ReadInv, MergedInv, SplitInv
<1>12. ChunksInv'
  BY <1>1, <1>2, DocumentStays DEF ChunksInv
<1> QED BY <1>8, <1>9, <1>10, <1>11, <1>12 DEF IngestInv

(* EndMerge preserves it: the rest is merged too.                          *)
LEMMA EndMergeIngestInv == IngestInv /\ EndMerge => IngestInv'
<1> SUFFICES ASSUME IngestInv, EndMerge PROVE IngestInv'
  OBVIOUS
<1>1. /\ pass = "merge" /\ taken = Len(sections) /\ merged' = merged \o pending
      /\ pass' = "chunk" /\ taken' = 0
      /\ document' = document /\ from' = from /\ stack' = stack /\ sections' = sections
      /\ pending' = pending /\ left' = left /\ current' = current /\ chunks' = chunks
  BY DEF EndMerge, WithRest, readVars, splitVars
<1>2. IngestTyped /\ SectionsInv /\ MergeInv /\ ChunksInv
  BY DEF IngestInv
<1>3. /\ merged \in Seq(SectionType) /\ pending \in Seq(SectionType)
      /\ merged \o pending \in Seq(SectionType) /\ chunks = << >>
  <2>1. merged \in Seq(SectionType) /\ pending \in Seq(SectionType) /\ chunks = << >>
    BY <1>1, <1>2 DEF IngestTyped, ChunksInv
  <2> QED BY <2>1, ConcatProperties
<1>4. IngestTyped'
  BY <1>1, <1>2, <1>3 DEF IngestTyped
<1>5. SectionsInv'
  BY <1>1, <1>2, DocumentStays DEF SectionsInv
<1>6. ToTheEnd(merged \o pending) /\ WellMade(merged \o pending)
  <2>1. EndOf(merged \o pending) = EndOf(sections) /\ ToTheEnd(sections) /\ WellMade(merged \o pending)
    BY <1>1, <1>2 DEF MergeInv, SectionsInv, EndOf
  <2> QED BY <2>1 DEF ToTheEnd
<1>7. MergedInv'
  <2>1. Len(merged \o pending) \in Nat
    BY <1>3, SectionFacts
  <2> QED BY <1>1, <1>6, <2>1, DocumentStays DEF MergedInv
<1>8. ChunksInv'
  <2>1. EndOf(chunks) = 0 /\ LastOf(merged', 0) = 0
    BY <1>3, NothingYet DEF LastOf
  <2> QED BY <1>1, <1>2, <2>1, DocumentStays DEF ChunksInv
<1>9. (ReadInv /\ MergeInv /\ SplitInv)'
  BY <1>1 DEF ReadInv, MergeInv, SplitInv
<1> QED BY <1>4, <1>5, <1>7, <1>8, <1>9 DEF IngestInv

(* The section in hand.                                                    *)
LEMMA SectionInHand ==
  ASSUME IngestInv, pass \in {"chunk", "split"}, taken < Len(merged)
  PROVE  /\ Section \in SectionType /\ Section.text \in TextType
         /\ Carries(Section.text) /\ WellPlaced(Section)
         /\ LastOf(merged, taken) \in Nat
         /\ LastOf(merged, taken) < FirstLine(Section.text)
         /\ NoneBetween(LastOf(merged, taken), FirstLine(Section.text))
         /\ LastOf(merged, taken + 1) = LastLine(Section.text)
         /\ FirstLine(Section.text) \in Nat /\ LastLine(Section.text) \in Nat
<1>1. merged \in Seq(SectionType) /\ taken \in Nat
  BY DEF IngestInv, IngestTyped
<1>2. taken + 1 \in DOMAIN merged /\ (taken + 1) - 1 = taken /\ taken \in 0..Len(merged)
  BY <1>1, SectionFacts
<1>3. WellMade(merged)
  BY DEF IngestInv, MergedInv
<1>4. Section \in SectionType /\ Section.text \in TextType
  BY <1>1, <1>2, SectionFacts DEF Section
<1>5. /\ Carries(Section.text) /\ WellPlaced(Section)
      /\ LastOf(merged, taken) < FirstLine(Section.text)
      /\ NoneBetween(LastOf(merged, taken), FirstLine(Section.text))
  BY <1>2, <1>3 DEF WellMade, Tiles, Section
<1>6. LastOf(merged, taken) \in Nat
  BY <1>1, <1>2, <1>3, LastOfFacts
<1>7. LastOf(merged, taken + 1) = LastLine(Section.text)
  BY <1>1 DEF LastOf, Section
<1>8. FirstLine(Section.text) \in Nat /\ LastLine(Section.text) \in Nat
  BY <1>4, <1>5, TextFacts DEF Carries
<1> QED BY <1>4, <1>5, <1>6, <1>7, <1>8

(* KeepSection preserves it: the section is a chunk that fits.             *)
LEMMA KeepSectionIngestInv == IngestInv /\ KeepSection => IngestInv'
<1> SUFFICES ASSUME IngestInv, KeepSection PROVE IngestInv'
  OBVIOUS
<1>1. /\ pass = "chunk" /\ taken < Len(merged) /\ Length(Section.text) <= Target
      /\ chunks' = Append(chunks, Section) /\ taken' = taken + 1
      /\ document' = document /\ pass' = pass /\ from' = from /\ stack' = stack /\ sections' = sections
      /\ pending' = pending /\ merged' = merged /\ left' = left /\ current' = current
  BY DEF KeepSection, readVars, mergeVars
<1>2. IngestTyped /\ SectionsInv /\ MergedInv /\ ChunksInv
  BY DEF IngestInv
<1>3. /\ document \in Documents /\ taken \in Nat /\ merged \in Seq(SectionType)
      /\ chunks \in Seq(SectionType)
  BY <1>2 DEF IngestTyped
<1>4. /\ Section \in SectionType /\ Section.text \in TextType
      /\ Carries(Section.text) /\ WellPlaced(Section)
      /\ LastOf(merged, taken) \in Nat
      /\ LastOf(merged, taken) < FirstLine(Section.text)
      /\ NoneBetween(LastOf(merged, taken), FirstLine(Section.text))
      /\ LastOf(merged, taken + 1) = LastLine(Section.text)
      /\ LastLine(Section.text) \in Nat
  BY <1>1, SectionInHand
<1>5. WellChunked(chunks) /\ EndOf(chunks) = LastOf(merged, taken)
  BY <1>1, <1>2 DEF ChunksInv
<1>6. Follows(Section.text, EndOf(chunks))
  BY <1>3, <1>4, <1>5, FollowsAfter
<1>7. Fits(Section.text, EndOf(chunks))
  BY <1>1 DEF Fits
<1>8. Cited(Section)
  <2> DEFINE i == Len(Section.text)
  <2>1. i \in DOMAIN Section.text
    BY <1>4, TextFacts DEF Carries
  <2>2. Section.text[i].first <= LastLine(Section.text) /\ LastLine(Section.text) <= Section.text[i].last
    BY <1>4, <2>1 DEF Carries, LastLine
  <2> QED BY <1>3, <1>4, <2>1, <2>2, CitedPart
<1>9. /\ chunks' \in Seq(SectionType) /\ WellChunked(chunks')
      /\ EndOf(chunks') = LastOf(merged, taken + 1)
  BY <1>1, <1>3, <1>4, <1>5, <1>6, <1>7, <1>8, ChunkAdded
<1>10. IngestTyped'
  BY <1>1, <1>2, <1>9 DEF IngestTyped
<1>11. SectionsInv'
  BY <1>1, <1>2, DocumentStays DEF SectionsInv
<1>12. MergedInv'
  <2>1. taken + 1 <= Len(merged)
    BY <1>1, <1>3, SectionFacts
  <2> QED BY <1>1, <1>2, <2>1, DocumentStays DEF MergedInv
<1>13. ChunksInv'
  BY <1>1, <1>9, DocumentStays DEF ChunksInv
<1>14. (ReadInv /\ MergeInv /\ SplitInv)'
  BY <1>1 DEF ReadInv, MergeInv, SplitInv
<1> QED BY <1>10, <1>11, <1>12, <1>13, <1>14 DEF IngestInv

(* BeginSplit preserves it: all paragraphs of the section are left.        *)
LEMMA BeginSplitIngestInv == IngestInv /\ BeginSplit => IngestInv'
<1> SUFFICES ASSUME IngestInv, BeginSplit PROVE IngestInv'
  OBVIOUS
<1>1. /\ pass = "chunk" /\ taken < Len(merged) /\ left' = Starts(Section.text)
      /\ current' = << >> /\ pass' = "split" /\ taken' = taken
      /\ document' = document /\ from' = from /\ stack' = stack /\ sections' = sections
      /\ pending' = pending /\ merged' = merged /\ chunks' = chunks
  BY DEF BeginSplit, readVars, mergeVars
<1>2. IngestTyped /\ SectionsInv /\ MergedInv /\ ChunksInv
  BY DEF IngestInv
<1>3. Section' = Section
  BY <1>1 DEF Section
<1>4. left' \in SUBSET DOMAIN document
  BY <1>1 DEF Starts
<1>5. IngestTyped'
  BY <1>1, <1>2, <1>4, NothingYet DEF IngestTyped
<1>6. SectionsInv' /\ MergedInv' /\ ChunksInv'
  <2>1. SectionsInv'
    BY <1>1, <1>2, DocumentStays DEF SectionsInv
  <2>2. MergedInv'
    BY <1>1, <1>2, DocumentStays DEF MergedInv
  <2>3. ChunksInv'
    BY <1>1, <1>2, DocumentStays DEF ChunksInv
  <2> QED BY <2>1, <2>2, <2>3
<1>7. SplitInv'
  <2>1. EndOf(chunks) = LastOf(merged, taken)
    BY <1>1, <1>2 DEF ChunksInv
  <2>2. left' = (Starts(Section.text))'
    BY <1>1, <1>3, DocumentStays
  <2> QED BY <1>1, <2>1, <2>2 DEF SplitInv
<1>8. (ReadInv /\ MergeInv)'
  BY <1>1 DEF ReadInv, MergeInv
<1> QED BY <1>5, <1>6, <1>7, <1>8 DEF IngestInv

(* Loaded preserves it: no section is left.                                *)
LEMMA LoadedIngestInv == IngestInv /\ Loaded => IngestInv'
<1> SUFFICES ASSUME IngestInv, Loaded PROVE IngestInv'
  OBVIOUS
<1>1. /\ pass = "chunk" /\ taken = Len(merged) /\ pass' = "loaded" /\ taken' = taken
      /\ document' = document /\ from' = from /\ stack' = stack /\ sections' = sections
      /\ pending' = pending /\ merged' = merged /\ left' = left /\ current' = current /\ chunks' = chunks
  BY DEF Loaded, readVars, mergeVars, splitVars
<1>2. IngestTyped /\ SectionsInv /\ MergedInv /\ ChunksInv
  BY DEF IngestInv
<1>3. IngestTyped'
  BY <1>1, <1>2 DEF IngestTyped
<1>4. SectionsInv'
  BY <1>1, <1>2, DocumentStays DEF SectionsInv
<1>5. MergedInv'
  BY <1>1, <1>2, DocumentStays DEF MergedInv
<1>6. ChunksInv'
  BY <1>1, <1>2, DocumentStays DEF ChunksInv
<1>7. (ReadInv /\ MergeInv /\ SplitInv)'
  BY <1>1 DEF ReadInv, MergeInv, SplitInv
<1> QED BY <1>3, <1>4, <1>5, <1>6, <1>7 DEF IngestInv

(* What a paragraph is, as a text of its own.                              *)
LEMMA ParagraphAlone ==
  ASSUME document \in Documents, NEW text \in TextType, NEW f \in Starts(text),
         NEW p, p = Paragraph(text, f)
  PROVE  /\ p \in RunType /\ <<p>> \in TextType /\ Carries(<<p>>) /\ p.first = f
         /\ FirstLine(<<p>>) = f /\ LastLine(<<p>>) = p.last
         /\ f \in Nat /\ p.last \in Nat /\ f <= p.last /\ f..p.last \subseteq SolidLines
         /\ \E i \in DOMAIN text : text[i].first <= f /\ p.last <= text[i].last
<1>1. /\ p \in RunType /\ p.first = f /\ f <= p.last /\ f \in Nat
      /\ Unbroken(text, f, p.last) /\ f..p.last \subseteq SolidLines
  BY ParagraphFacts
<1>2. p.last \in Nat
  BY <1>1 DEF RunType
<1>3. f \in SolidLines /\ p.last \in SolidLines
  <2>1. f \in f..p.last /\ p.last \in f..p.last
    BY <1>1, <1>2
  <2> QED BY <1>1, <2>1
<1>4. <<p>> \in TextType /\ Carries(<<p>>) /\ FirstLine(<<p>>) = p.first /\ LastLine(<<p>>) = p.last
  BY <1>1, <1>3, RunCarries
<1> QED BY <1>1, <1>2, <1>4 DEF Unbroken

(* The chunk being filled ends with a paragraph of its section.            *)
LEMMA FillingFacts ==
  ASSUME document \in Documents, NEW text \in TextType, Carries(text), NEW paragraphs, NEW rest, NEW end,
         Filling(text, paragraphs, rest, end)
  PROVE  /\ Len(paragraphs) \in DOMAIN paragraphs
         /\ LastLine(paragraphs) \in Nat /\ FirstLine(paragraphs) \in Nat
         /\ \E f \in Starts(text) : LastLine(paragraphs) = Paragraph(text, f).last
         /\ \E i \in DOMAIN text : text[i].first <= LastLine(paragraphs) /\ LastLine(paragraphs) <= text[i].last
         /\ FirstLine(text) <= LastLine(paragraphs) /\ LastLine(paragraphs) <= LastLine(text)
<1>1. paragraphs \in TextType /\ Carries(paragraphs)
  BY DEF Filling
<1>2. /\ Len(paragraphs) \in DOMAIN paragraphs
      /\ LastLine(paragraphs) \in Nat /\ FirstLine(paragraphs) \in Nat
  BY <1>1, TextFacts DEF Carries
<1> DEFINE q == paragraphs[Len(paragraphs)]
           f == q.first
<1>3. f \in Starts(text) /\ q = Paragraph(text, f) /\ LastLine(paragraphs) = q.last
  BY <1>2 DEF Filling, LastLine
<1> HIDE DEF q, f
<1>4. PICK i \in DOMAIN text : text[i].first <= f /\ q.last <= text[i].last /\ f <= q.last
                               /\ f \in Nat /\ q.last \in Nat
  BY <1>3, ParagraphAlone
<1>5. text[i].first \in Nat /\ text[i].last \in Nat
  BY TextFacts
<1>6. text[i].first <= q.last
  BY <1>4, <1>5
<1>7. FirstLine(text) <= text[i].first /\ text[i].last <= LastLine(text)
  BY CarriesOrder
<1>8. FirstLine(text) \in Nat /\ LastLine(text) \in Nat
  BY TextFacts DEF Carries
<1>9. FirstLine(text) <= q.last /\ q.last <= LastLine(text)
  BY <1>4, <1>5, <1>6, <1>7, <1>8
<1> QED BY <1>2, <1>3, <1>4, <1>6, <1>9

(* A chunk that is closed fits, and is cited rightly.                      *)
LEMMA ClosedChunk ==
  ASSUME document \in Documents, NEW section \in SectionType, Carries(section.text), WellPlaced(section),
         NEW paragraphs, NEW rest, NEW end, Filling(section.text, paragraphs, rest, end),
         NEW x, x = [path |-> section.path, text |-> paragraphs]
  PROVE  x \in SectionType /\ Carries(x.text) /\ Follows(x.text, end) /\ Fits(x.text, end) /\ Cited(x)
<1> DEFINE text == section.text
<1>1. text \in TextType /\ section.path \in SUBSET Nat
  BY DEF SectionType
<1>2. paragraphs \in TextType /\ Carries(paragraphs) /\ Follows(paragraphs, end)
  BY DEF Filling
<1>3. x \in SectionType /\ x.text = paragraphs /\ x.path = section.path
  BY <1>1, <1>2 DEF SectionType
<1> HIDE DEF text
<1>4. Cited(x)
  <2>1. LastLine(paragraphs) \in Nat
    BY <1>1, FillingFacts DEF text
  <2>2. PICK i \in DOMAIN text : text[i].first <= LastLine(paragraphs) /\ LastLine(paragraphs) <= text[i].last
    BY <1>1, FillingFacts DEF text
  <2> QED BY <1>3, <2>1, <2>2, CitedPart DEF text
<1>5. \A i \in DOMAIN paragraphs :
        /\ paragraphs[i] \in RunType /\ paragraphs[i].first <= paragraphs[i].last
        /\ paragraphs[i].first..paragraphs[i].last \subseteq SolidLines
  <2>1. ASSUME NEW i \in DOMAIN paragraphs
        PROVE  paragraphs[i].first \in Starts(text) /\ paragraphs[i] = Paragraph(text, paragraphs[i].first)
    BY DEF Filling, text
  <2>2. ASSUME NEW i \in DOMAIN paragraphs
        PROVE  /\ paragraphs[i] \in RunType /\ paragraphs[i].first <= paragraphs[i].last
               /\ paragraphs[i].first..paragraphs[i].last \subseteq SolidLines
    <3> DEFINE p == paragraphs[i]
               f == p.first
    <3>1. f \in Starts(text) /\ p = Paragraph(text, f)
      BY <2>1
    <3> HIDE DEF p, f
    <3>2. p \in RunType /\ f <= p.last /\ f..p.last \subseteq SolidLines
      BY <1>1, <3>1, ParagraphAlone
    <3> QED BY <3>2 DEF p, f
  <2> QED BY <2>2
<1>6. Fits(paragraphs, end)
  <2>1. CASE Length(paragraphs) <= Target
    BY <2>1 DEF Fits
  <2>2. CASE Len(paragraphs) = 1
    <3>1. paragraphs = <<paragraphs[1]>> /\ 1 \in DOMAIN paragraphs
      BY <1>2, <2>2, OneElement, TextFacts DEF TextType, Carries
    <3>2. Cardinality(Starts(<<paragraphs[1]>>)) = 1
      BY <1>5, <3>1, StartsOfRun
    <3> QED BY <3>1, <3>2 DEF Fits
  <2>3. CASE Len(paragraphs) = 2 /\ FirstLine(paragraphs) <= end
    <3>1. 1 \in DOMAIN paragraphs /\ 2 \in DOMAIN paragraphs
      BY <1>2, <2>3, TextFacts
    <3>2. paragraphs = <<paragraphs[1], paragraphs[2]>>
      <4>1. /\ <<paragraphs[1], paragraphs[2]>> \in Seq(RunType) /\ Len(<<paragraphs[1], paragraphs[2]>>) = 2
            /\ \A i \in 1..2 : paragraphs[i] = <<paragraphs[1], paragraphs[2]>>[i]
        BY <1>5, <3>1
      <4> QED BY <1>2, <2>3, <4>1, SeqEqual DEF TextType
    <3>3. paragraphs[1].last < paragraphs[2].first
      BY <1>2, <3>1 DEF Carries
    <3>4. Cardinality(Starts(<<paragraphs[1], paragraphs[2]>>)) = 2
      BY <1>5, <3>1, <3>3, StartsOfTwo
    <3> QED BY <2>3, <3>2, <3>4 DEF Fits
  <2> QED BY <2>1, <2>2, <2>3 DEF Filling
<1> QED BY <1>2, <1>3, <1>4, <1>6

(* Nothing is left out before the next paragraph.                          *)
LEMMA NothingSkipped ==
  ASSUME document \in Documents, NEW text \in TextType, Carries(text), NEW rest, NEW end \in Nat,
         NEW f \in rest, \A s \in rest : f <= s, end < f, FirstLine(text) <= f, f <= LastLine(text),
         \/ end < FirstLine(text) /\ NoneBetween(end, FirstLine(text)) /\ rest = Starts(text)
         \/ /\ FirstLine(text) <= end /\ rest = {s \in Starts(text) : s > end}
            /\ \E g \in Starts(text) : end = Paragraph(text, g).last
  PROVE  NoneBetween(end, f)
<1>1. f \in Starts(text) /\ f \in Nat /\ FirstLine(text) \in Nat /\ LastLine(text) \in Nat
  <2>1. f \in Starts(text)
    OBVIOUS
  <2>2. f \in Nat
    BY <2>1, DocumentFacts DEF Starts
  <2> QED BY <2>1, <2>2, TextFacts DEF Carries
<1>2. ASSUME NEW l \in SolidLines, end < l, l < f PROVE FALSE
  <2>1. l \in Nat
    BY DocumentFacts
  <2>2. l <= LastLine(text)
    BY <1>1, <1>2, <2>1
  <2>3. CASE end < FirstLine(text) /\ NoneBetween(end, FirstLine(text)) /\ rest = Starts(text)
    <3>1. FirstLine(text) <= l
      BY <1>1, <1>2, <2>1, <2>3 DEF NoneBetween
    <3>2. PICK s \in Starts(text) : s <= l
      BY <2>2, <3>1, StartBelow
    <3>3. s \in Nat /\ f <= s
      BY <2>3, <3>2, DocumentFacts DEF Starts
    <3> QED BY <1>1, <1>2, <2>1, <3>2, <3>3
  <2>4. CASE /\ FirstLine(text) <= end /\ rest = {s \in Starts(text) : s > end}
             /\ \E g \in Starts(text) : end = Paragraph(text, g).last
    <3>1. FirstLine(text) <= l
      BY <1>1, <1>2, <2>1, <2>4
    <3>2. PICK g \in Starts(text) : end = Paragraph(text, g).last
      BY <2>4
    <3>3. PICK s \in Starts(text) : end < s /\ s <= l
      BY <1>2, <2>2, <3>1, <3>2, StartAfter
    <3>4. s \in Nat
      BY DocumentFacts DEF Starts
    <3>5. s \in rest
      BY <2>4, <3>3
    <3>6. f <= s
      BY <3>5
    <3> QED BY <1>1, <1>2, <2>1, <3>3, <3>4, <3>6
  <2> QED BY <2>3, <2>4
<1> QED BY <1>2 DEF NoneBetween

(* What is left when the first paragraph left is taken.                    *)
LEMMA RestAfter ==
  ASSUME document \in Documents, NEW text \in TextType, NEW rest, NEW f \in rest, \A s \in rest : f <= s,
         \/ rest = Starts(text)
         \/ \E end \in Nat : rest = {s \in Starts(text) : s > end}
  PROVE  rest \ {f} = {s \in Starts(text) : s > Paragraph(text, f).last}
<1> DEFINE e == Paragraph(text, f).last
<1>1. f \in Starts(text) /\ \A s \in Starts(text) : s \in Nat
  BY DocumentFacts DEF Starts
<1>2. e \in Nat /\ f <= e /\ f \in Nat
  BY <1>1, ParagraphFacts DEF RunType
<1>3. \A s \in Starts(text) : f < s => e < s
  BY <1>1, NextStarts
<1> HIDE DEF e
<1>4. ASSUME NEW s \in rest \ {f} PROVE s \in Starts(text) /\ s > e
  <2>1. s \in Starts(text) /\ f <= s /\ s # f
    OBVIOUS
  <2>2. f < s
    BY <1>1, <1>2, <2>1
  <2> QED BY <1>1, <1>2, <1>3, <2>1, <2>2
<1>5. ASSUME NEW s \in Starts(text), s > e PROVE s \in rest \ {f}
  <2>1. s \in Nat /\ f < s
    BY <1>1, <1>2, <1>5
  <2>2. s \in rest
    <3>1. CASE rest = Starts(text)
      BY <3>1
    <3>2. ASSUME NEW end \in Nat, rest = {t \in Starts(text) : t > end} PROVE s \in rest
      <4>1. f > end
        BY <3>2
      <4>2. s > end
        BY <1>2, <2>1, <4>1
      <4> QED BY <3>2, <4>2
    <3> QED BY <3>1, <3>2
  <2> QED BY <1>2, <2>1, <2>2
<1> QED BY <1>4, <1>5 DEF e

(* A chunk begun with a paragraph.                                         *)
LEMMA FillingBegun ==
  ASSUME document \in Documents, NEW text \in TextType, Carries(text), NEW f \in Starts(text),
         NEW p, p = Paragraph(text, f), NEW end \in Nat, end < f, NoneBetween(end, f)
  PROVE  Filling(text, <<p>>, {s \in Starts(text) : s > p.last}, end)
<1>1. /\ <<p>> \in TextType /\ Carries(<<p>>) /\ p.first = f
      /\ FirstLine(<<p>>) = f /\ LastLine(<<p>>) = p.last
  BY ParagraphAlone
<1>2. Follows(<<p>>, end)
  BY <1>1, FollowsAfter
<1>3. Len(<<p>>) = 1 /\ \A i \in DOMAIN <<p>> : <<p>>[i] = p
  OBVIOUS
<1> QED BY <1>1, <1>2, <1>3 DEF Filling

(* A second element makes a pair.                                          *)
LEMMA PairOf ==
  ASSUME NEW S, NEW q \in S, NEW p \in S
  PROVE  Append(<<q>>, p) = <<q, p>>
<1>1. /\ Append(<<q>>, p) \in Seq(S) /\ Len(Append(<<q>>, p)) = 2
      /\ Append(<<q>>, p)[1] = q /\ Append(<<q>>, p)[2] = p
  OBVIOUS
<1>2. <<q, p>> \in Seq(S) /\ Len(<<q, p>>) = 2 /\ <<q, p>>[1] = q /\ <<q, p>>[2] = p
  OBVIOUS
<1>3. \A i \in 1..2 : i = 1 \/ i = 2
  OBVIOUS
<1> HIDE <1>1, <1>2
<1> QED BY <1>1, <1>2, <1>3, SeqEqual

(* A chunk begun with a short paragraph repeated.                          *)
LEMMA FillingRepeated ==
  ASSUME document \in Documents, NEW text \in TextType, Carries(text),
         NEW g \in Starts(text), NEW q, q = Paragraph(text, g), Length(<<q>>) < OverlapBelow,
         NEW f \in Starts(text), NEW p, p = Paragraph(text, f), q.last < f, NoneBetween(q.last, f)
  PROVE  Filling(text, <<q, p>>, {s \in Starts(text) : s > p.last}, q.last)
<1>1. /\ p \in RunType /\ <<p>> \in TextType /\ Carries(<<p>>) /\ p.first = f
      /\ FirstLine(<<p>>) = f /\ LastLine(<<p>>) = p.last /\ f \in Nat /\ p.last \in Nat /\ f <= p.last
  BY ParagraphAlone
<1>2. /\ q \in RunType /\ <<q>> \in TextType /\ Carries(<<q>>) /\ q.first = g
      /\ FirstLine(<<q>>) = g /\ LastLine(<<q>>) = q.last /\ g \in Nat /\ q.last \in Nat /\ g <= q.last
      /\ g..q.last \subseteq SolidLines
  BY ParagraphAlone
<1>3. /\ <<q>> \o <<p>> \in TextType /\ Carries(<<q>> \o <<p>>)
      /\ FirstLine(<<q>> \o <<p>>) = g /\ LastLine(<<q>> \o <<p>>) = p.last
  BY <1>1, <1>2, CarriesJoined
<1>4. <<q>> \o <<p>> = <<q, p>>
  <2>1. Append(<<q>>, p) = <<q>> \o <<p>>
    BY <1>1, <1>2, AppendIsConcat DEF TextType
  <2>2. Append(<<q>>, p) = <<q, p>>
    BY <1>1, <1>2, PairOf
  <2> QED BY <2>1, <2>2
<1>5. /\ <<q, p>> \in TextType /\ Carries(<<q, p>>)
      /\ FirstLine(<<q, p>>) = g /\ LastLine(<<q, p>>) = p.last
  BY <1>3, <1>4
<1>6. Run(g, q.last) = q
  <2>1. q = Run(g, Max({m \in g..Len(document) : Unbroken(text, g, m)}))
    BY DEF Paragraph
  <2> QED BY <2>1 DEF Run
<1>7. Follows(<<q, p>>, q.last)
  <2>1. q.last < p.last /\ g <= q.last
    BY <1>1, <1>2
  <2>2. NoneBetween(q.last, g)
    <3>1. \A s \in SolidLines : s \in Nat
      BY DocumentFacts
    <3> QED BY <1>2, <3>1 DEF NoneBetween
  <2> QED BY <1>2, <1>5, <1>6, <2>1, <2>2 DEF Follows
<1>8. /\ Len(<<q, p>>) = 2 /\ DOMAIN <<q, p>> = {1, 2} /\ <<q, p>>[1] = q /\ <<q, p>>[2] = p
  OBVIOUS
<1>9. \A i \in DOMAIN <<q, p>> : /\ <<q, p>>[i].first \in Starts(text)
                                 /\ <<q, p>>[i] = Paragraph(text, <<q, p>>[i].first)
  BY <1>1, <1>2, <1>8
<1> QED BY <1>2, <1>5, <1>7, <1>8, <1>9 DEF Filling

(* A paragraph added to a chunk that has room for it.                      *)
LEMMA FillingExtended ==
  ASSUME document \in Documents, NEW text \in TextType, Carries(text),
         NEW paragraphs, NEW rest, NEW end \in Nat, Filling(text, paragraphs, rest, end),
         NEW f \in Starts(text), NEW p, p = Paragraph(text, f),
         LastLine(paragraphs) < f, NoneBetween(LastLine(paragraphs), f),
         ~(Length(Append(paragraphs, p)) > Target)
  PROVE  Filling(text, Append(paragraphs, p), {s \in Starts(text) : s > p.last}, end)
<1>1. /\ p \in RunType /\ <<p>> \in TextType /\ Carries(<<p>>) /\ p.first = f
      /\ FirstLine(<<p>>) = f /\ LastLine(<<p>>) = p.last /\ f \in Nat /\ p.last \in Nat /\ f <= p.last
  BY ParagraphAlone
<1>2. paragraphs \in TextType /\ Carries(paragraphs) /\ Follows(paragraphs, end)
  BY DEF Filling
<1> DEFINE longer == Append(paragraphs, p)
<1>3. longer = paragraphs \o <<p>>
  BY <1>1, <1>2, AppendIsConcat DEF TextType
<1>4. /\ longer \in TextType /\ Carries(longer) /\ Len(longer) = Len(paragraphs) + 1
      /\ FirstLine(longer) = FirstLine(paragraphs) /\ LastLine(longer) = p.last
      /\ \A i \in DOMAIN paragraphs : longer[i] = paragraphs[i]
      /\ longer[Len(paragraphs) + 1] = p
  <2>1. Len(<<p>>) = 1 /\ 1 \in DOMAIN <<p>> /\ <<p>>[1] = p
    OBVIOUS
  <2>2. LastLine(paragraphs) < FirstLine(<<p>>) /\ NoneBetween(LastLine(paragraphs), FirstLine(<<p>>))
    BY <1>1
  <2>3. /\ paragraphs \o <<p>> \in TextType /\ Carries(paragraphs \o <<p>>)
        /\ Len(paragraphs \o <<p>>) = Len(paragraphs) + Len(<<p>>)
        /\ FirstLine(paragraphs \o <<p>>) = FirstLine(paragraphs)
        /\ LastLine(paragraphs \o <<p>>) = LastLine(<<p>>)
        /\ \A i \in DOMAIN paragraphs : (paragraphs \o <<p>>)[i] = paragraphs[i]
        /\ \A i \in DOMAIN <<p>> : (paragraphs \o <<p>>)[Len(paragraphs) + i] = <<p>>[i]
    BY <1>1, <1>2, <2>2, CarriesJoined
  <2> HIDE DEF longer
  <2> QED BY <1>1, <1>3, <2>1, <2>3
<1> HIDE DEF longer
<1>5. LastLine(paragraphs) \in Nat /\ FirstLine(paragraphs) \in Nat /\ Len(paragraphs) \in Nat
      /\ DOMAIN paragraphs = 1..Len(paragraphs) /\ DOMAIN longer = 1..(Len(paragraphs) + 1)
  BY <1>2, <1>4, TextFacts DEF Carries
<1>6. Follows(longer, end)
  <2>1. end < p.last
    BY <1>1, <1>2, <1>5 DEF Follows
  <2> QED BY <1>2, <1>4, <2>1 DEF Follows
<1>7. ASSUME NEW i \in DOMAIN longer
      PROVE  longer[i].first \in Starts(text) /\ longer[i] = Paragraph(text, longer[i].first)
  <2>1. CASE i \in DOMAIN paragraphs
    BY <1>4, <2>1 DEF Filling
  <2>2. CASE i = Len(paragraphs) + 1
    BY <1>1, <1>4, <2>2
  <2> QED BY <1>5, <2>1, <2>2
<1>8. Length(longer) <= Target
  <2>1. Length(longer) \in Int /\ Target \in Nat
    BY <1>4, LengthFacts, LimitsAssumption
  <2> QED BY <2>1 DEF longer
<1> QED BY <1>4, <1>6, <1>7, <1>8 DEF Filling, longer

(* AddParagraph: the chunk that is closed is well made, and the one begun  *)
(* or going on is filled rightly.                                          *)
LEMMA AddParagraphSplit ==
  ASSUME IngestInv, AddParagraph
  PROVE  /\ chunks' \in Seq(SectionType) /\ WellChunked(chunks')
         /\ current' # << >> /\ left' \in SUBSET DOMAIN document
         /\ Filling(Section.text, current', left', EndOf(chunks'))
<1> DEFINE text == Section.text
           f == Min(left)
           p == Paragraph(text, f)
           end == IF current = << >> THEN LastOf(merged, taken) ELSE LastLine(current)
<1>1. /\ pass = "split" /\ left # {} /\ left' = left \ {f}
      /\ IF current # << >> /\ Length(Append(current, p)) > Target
         THEN chunks' = Append(chunks, Chunk(current)) /\ current' = Append(Overlap, p)
         ELSE current' = Append(current, p) /\ chunks' = chunks
  BY DEF AddParagraph, Overflows
<1>2. IngestTyped /\ SplitInv /\ ChunksInv
  BY DEF IngestInv
<1>3. /\ document \in Documents /\ chunks \in Seq(SectionType) /\ WellChunked(chunks)
      /\ left \in SUBSET DOMAIN document /\ current \in TextType
  BY <1>2 DEF IngestTyped, ChunksInv
<1>4. /\ taken < Len(merged)
      /\ current = << >> => EndOf(chunks) = LastOf(merged, taken) /\ left = Starts(text)
      /\ current # << >> => Filling(text, current, left, EndOf(chunks))
  BY <1>1, <1>2 DEF SplitInv
<1>5. /\ Section \in SectionType /\ text \in TextType /\ Carries(text) /\ WellPlaced(Section)
      /\ LastOf(merged, taken) \in Nat /\ LastOf(merged, taken) < FirstLine(text)
      /\ NoneBetween(LastOf(merged, taken), FirstLine(text))
      /\ FirstLine(text) \in Nat /\ LastLine(text) \in Nat
  BY <1>1, <1>4, SectionInHand
<1>6. f \in left /\ \A s \in left : f <= s
  <2>1. left \in SUBSET Nat
    BY <1>3, DocumentFacts
  <2> QED BY <1>1, <2>1, MinFacts
<1>0. p = Paragraph(text, f)
  BY DEF p
<1> HIDE DEF text, f, p
<1>7. f \in Starts(text)
  <2>1. CASE current = << >>
    BY <1>4, <1>6, <2>1
  <2>2. CASE current # << >>
    BY <1>4, <1>6, <2>2 DEF Filling
  <2> QED BY <2>1, <2>2
<1>8. /\ p \in RunType /\ p.first = f /\ f \in Nat /\ p.last \in Nat /\ f <= p.last
      /\ FirstLine(text) <= f /\ f <= LastLine(text)
  <2>1. /\ p \in RunType /\ p.first = f /\ f \in Nat /\ p.last \in Nat /\ f <= p.last
        /\ \E i \in DOMAIN text : text[i].first <= f /\ p.last <= text[i].last
    <3>1. document \in Documents /\ text \in TextType /\ f \in Starts(text) /\ p = Paragraph(text, f)
      BY <1>0, <1>3, <1>5, <1>7
    <3> HIDE DEF end
    <3> QED BY <3>1, ParagraphAlone
  <2>2. PICK i \in DOMAIN text : text[i].first <= f /\ p.last <= text[i].last
    BY <2>1
  <2>3. FirstLine(text) <= text[i].first /\ text[i].last <= LastLine(text)
    BY <1>5, <2>2, CarriesOrder
  <2>4. text[i].first \in Nat /\ text[i].last \in Nat
    BY <1>5, <2>2, TextFacts
  <2> QED BY <1>5, <2>1, <2>2, <2>3, <2>4
<1>9. /\ end \in Nat /\ end < f /\ NoneBetween(end, f)
      /\ left \ {f} = {s \in Starts(text) : s > p.last}
  <2>1. CASE current = << >>
    <3>1. end = LastOf(merged, taken) /\ end \in Nat /\ end < f /\ left = Starts(text)
      BY <1>4, <1>5, <1>8, <2>1
    <3>2. NoneBetween(end, f)
      BY <1>3, <1>5, <1>6, <1>8, <3>1, NothingSkipped
    <3>3. left \ {f} = {s \in Starts(text) : s > p.last}
      BY <1>3, <1>5, <1>6, <3>1, RestAfter, <1>0
    <3> QED BY <3>1, <3>2, <3>3
  <2>2. CASE current # << >>
    <3>1. /\ LastLine(current) \in Nat
          /\ \E g \in Starts(text) : LastLine(current) = Paragraph(text, g).last
          /\ FirstLine(text) <= LastLine(current)
      BY <1>3, <1>4, <1>5, <2>2, FillingFacts
    <3>2. left = {s \in Starts(text) : s > LastLine(current)}
      BY <1>4, <2>2 DEF Filling
    <3>3. end = LastLine(current) /\ end \in Nat
      BY <2>2, <3>1
    <3>4. end < f
      BY <1>6, <1>8, <3>2, <3>3
    <3> HIDE DEF end
    <3>5. NoneBetween(end, f)
      BY <1>3, <1>5, <1>6, <1>8, <3>1, <3>2, <3>3, <3>4, NothingSkipped
    <3>6. left \ {f} = {s \in Starts(text) : s > p.last}
      BY <1>3, <1>5, <1>6, <3>2, <3>3, RestAfter, <1>0
    <3> QED BY <3>3, <3>4, <3>5, <3>6
  <2> QED BY <2>1, <2>2
<1> HIDE DEF end
<1>10. left' \in SUBSET DOMAIN document
  BY <1>1, <1>3
<1>11. CASE current = << >>
  <2>1. current' = <<p>> /\ chunks' = chunks /\ end = LastOf(merged, taken)
    BY <1>1, <1>11 DEF end
  <2>2. Filling(text, <<p>>, {s \in Starts(text) : s > p.last}, end)
    BY <1>3, <1>5, <1>7, <1>9, FillingBegun, <1>0
  <2>3. EndOf(chunks') = end
    BY <1>4, <1>11, <2>1
  <2> QED BY <1>1, <1>3, <1>9, <1>10, <2>1, <2>2, <2>3 DEF text
<1>12. CASE current # << >> /\ ~(Length(Append(current, p)) > Target)
  <2>1. current' = Append(current, p) /\ chunks' = chunks /\ end = LastLine(current)
    BY <1>1, <1>12 DEF end
  <2>2. EndOf(chunks) \in Nat
    <3>1. CASE chunks = << >>
      BY <3>1, NothingYet
    <3>2. CASE chunks # << >>
      <4>1. /\ Len(chunks) \in DOMAIN chunks /\ Len(chunks) # 0
            /\ chunks[Len(chunks)].text \in TextType
        BY <1>3, <3>2, SectionFacts, EmptySeq
      <4>2. Carries(chunks[Len(chunks)].text)
        BY <1>3, <4>1 DEF WellChunked
      <4> QED BY <4>1, <4>2, TextFacts DEF EndOf, LastOf, Carries
    <3> QED BY <3>1, <3>2
  <2>3. Filling(text, current, left, EndOf(chunks))
    BY <1>4, <1>12
  <2>4. LastLine(current) < f /\ NoneBetween(LastLine(current), f)
    BY <1>9, <2>1
  <2>5. Filling(text, Append(current, p), {s \in Starts(text) : s > p.last}, EndOf(chunks))
    BY <1>3, <1>5, <1>7, <1>12, <2>2, <2>3, <2>4, FillingExtended, <1>0
  <2>6. Append(current, p) # << >>
    BY <1>3, <1>8, AppendProperties DEF TextType
  <2> QED BY <1>1, <1>3, <1>9, <1>10, <2>1, <2>5, <2>6 DEF text
<1>13. CASE current # << >> /\ Length(Append(current, p)) > Target
  <2>1. /\ chunks' = Append(chunks, Chunk(current)) /\ current' = Append(Overlap, p)
        /\ end = LastLine(current)
    BY <1>1, <1>13 DEF end
  <2>2. Filling(text, current, left, EndOf(chunks))
    BY <1>4, <1>13
  <2>3. Chunk(current) = [path |-> Section.path, text |-> current]
    BY DEF Chunk
  <2>4. /\ Chunk(current) \in SectionType /\ Carries(Chunk(current).text)
        /\ Follows(Chunk(current).text, EndOf(chunks)) /\ Fits(Chunk(current).text, EndOf(chunks))
        /\ Cited(Chunk(current))
    BY <1>3, <1>5, <2>2, <2>3, ClosedChunk DEF text
  <2>5. /\ chunks' \in Seq(SectionType) /\ WellChunked(chunks')
        /\ EndOf(chunks') = LastLine(current)
    BY <1>3, <2>1, <2>3, <2>4, ChunkAdded
  <2> DEFINE q == current[Len(current)]
             g == q.first
  <2>6. g \in Starts(text) /\ q = Paragraph(text, g) /\ q.last = LastLine(current) /\ Last(current) = q
    <3>1. Len(current) \in DOMAIN current
      BY <1>3, <1>5, <2>2, FillingFacts
    <3> QED BY <2>2, <3>1 DEF Filling, LastLine, Last
  <2> HIDE DEF q, g
  <2>7. Overlap = IF Length(<<q>>) < OverlapBelow THEN <<q>> ELSE << >>
    BY <2>6 DEF Overlap
  <2>8. CASE Length(<<q>>) < OverlapBelow
    <3>1. current' = <<q, p>>
      <4>1. q \in RunType
        BY <1>3, <1>5, <2>6, ParagraphAlone
      <4>2. Append(<<q>>, p) = <<q, p>>
        BY <1>8, <4>1, PairOf
      <4> QED BY <2>1, <2>7, <2>8, <4>2
    <3>2. q.last < f /\ NoneBetween(q.last, f)
      BY <1>9, <2>1, <2>6
    <3>3. Filling(text, <<q, p>>, {s \in Starts(text) : s > p.last}, q.last)
      BY <1>3, <1>5, <1>7, <2>6, <2>8, <3>2, FillingRepeated, <1>0
    <3> QED BY <1>1, <1>9, <1>10, <2>5, <2>6, <3>1, <3>3 DEF text
  <2>9. CASE ~(Length(<<q>>) < OverlapBelow)
    <3>1. current' = <<p>> /\ <<p>> # << >>
      <4>1. Append(<< >>, p) = <<p>> /\ <<p>> # << >>
        OBVIOUS
      <4> QED BY <2>1, <2>7, <2>9, <4>1
    <3>2. Filling(text, <<p>>, {s \in Starts(text) : s > p.last}, end)
      BY <1>3, <1>5, <1>7, <1>9, FillingBegun, <1>0
    <3> QED BY <1>1, <1>9, <1>10, <2>1, <2>5, <3>1, <3>2 DEF text
  <2> QED BY <2>8, <2>9
<1> QED BY <1>11, <1>12, <1>13

(* AddParagraph preserves the invariant.                                   *)
LEMMA AddParagraphIngestInv == IngestInv /\ AddParagraph => IngestInv'
<1> SUFFICES ASSUME IngestInv, AddParagraph PROVE IngestInv'
  OBVIOUS
<1>1. /\ pass = "split" /\ document' = document /\ pass' = pass /\ taken' = taken
      /\ from' = from /\ stack' = stack /\ sections' = sections
      /\ pending' = pending /\ merged' = merged
  BY DEF AddParagraph, readVars, mergeVars
<1>2. /\ chunks' \in Seq(SectionType) /\ WellChunked(chunks')
      /\ current' # << >> /\ left' \in SUBSET DOMAIN document
      /\ Filling(Section.text, current', left', EndOf(chunks'))
  BY AddParagraphSplit
<1>3. IngestTyped /\ SectionsInv /\ MergedInv /\ SplitInv
  BY DEF IngestInv
<1>4. IngestTyped'
  <2>1. current' \in TextType
    BY <1>2 DEF Filling
  <2> QED BY <1>1, <1>2, <1>3, <2>1 DEF IngestTyped
<1>5. SectionsInv'
  BY <1>1, <1>3, DocumentStays DEF SectionsInv
<1>6. MergedInv'
  BY <1>1, <1>3, DocumentStays DEF MergedInv
<1>7. ChunksInv'
  BY <1>1, <1>2, DocumentStays DEF ChunksInv
<1>8. SplitInv'
  <2>1. Section' = Section
    BY <1>1 DEF Section
  <2>2. taken < Len(merged)
    BY <1>1, <1>3 DEF SplitInv
  <2>3. Filling(Section.text, current, left, EndOf(chunks))'
    BY <1>1, <1>2, <2>1, DocumentStays DEF Filling
  <2> QED BY <1>1, <1>2, <2>2, <2>3 DEF SplitInv
<1>9. (ReadInv /\ MergeInv)'
  BY <1>1 DEF ReadInv, MergeInv
<1> QED BY <1>4, <1>5, <1>6, <1>7, <1>8, <1>9 DEF IngestInv

(* EndSplit preserves it: the last chunk ends where its section does.      *)
LEMMA EndSplitIngestInv == IngestInv /\ EndSplit => IngestInv'
<1> SUFFICES ASSUME IngestInv, EndSplit PROVE IngestInv'
  OBVIOUS
<1> DEFINE text == Section.text
<1>1. /\ pass = "split" /\ left = {}
      /\ chunks' = IF current = << >> THEN chunks ELSE Append(chunks, Chunk(current))
      /\ pass' = "chunk" /\ taken' = taken + 1
      /\ document' = document /\ from' = from /\ stack' = stack /\ sections' = sections
      /\ pending' = pending /\ merged' = merged /\ left' = left /\ current' = current
  BY DEF EndSplit, readVars, mergeVars
<1>2. IngestTyped /\ SectionsInv /\ MergedInv /\ ChunksInv /\ SplitInv
  BY DEF IngestInv
<1>3. /\ document \in Documents /\ chunks \in Seq(SectionType) /\ WellChunked(chunks)
      /\ merged \in Seq(SectionType) /\ taken \in Nat
  BY <1>2 DEF IngestTyped, ChunksInv
<1>4. /\ taken < Len(merged)
      /\ current = << >> => left = Starts(text)
      /\ current # << >> => Filling(text, current, left, EndOf(chunks))
  BY <1>1, <1>2 DEF SplitInv
<1>5. /\ Section \in SectionType /\ text \in TextType /\ Carries(text) /\ WellPlaced(Section)
      /\ LastOf(merged, taken + 1) = LastLine(text)
      /\ FirstLine(text) \in Nat /\ LastLine(text) \in Nat
  BY <1>1, <1>4, SectionInHand
<1> HIDE DEF text
<1>6. /\ LastLine(text) \in SolidLines /\ FirstLine(text) <= LastLine(text) /\ LastLine(text) <= LastLine(text)
  <2>1. LastLine(text) \in SolidLines /\ 1 \in DOMAIN text
    BY <1>5, TextFacts DEF Carries
  <2>2. FirstLine(text) <= LastLine(text)
    BY <1>5, <2>1, CarriesOrder
  <2> QED BY <1>5, <2>1, <2>2
<1>7. current # << >>
  <2>1. \E s \in Starts(text) : s <= LastLine(text)
    BY <1>3, <1>5, <1>6, StartBelow
  <2> QED BY <1>1, <1>4, <2>1
<1>8. Filling(text, current, left, EndOf(chunks))
  BY <1>4, <1>7
<1>9. LastLine(current) = LastLine(text)
  <2>1. /\ LastLine(current) \in Nat /\ LastLine(current) <= LastLine(text)
        /\ \E g \in Starts(text) : LastLine(current) = Paragraph(text, g).last
    BY <1>3, <1>5, <1>8, FillingFacts
  <2>2. PICK g \in Starts(text) : LastLine(current) = Paragraph(text, g).last
    BY <2>1
  <2>3. ASSUME LastLine(current) < LastLine(text) PROVE FALSE
    <3>1. PICK s \in Starts(text) : LastLine(current) < s /\ s <= LastLine(text)
      BY <1>3, <1>5, <1>6, <2>2, <2>3, StartAfter
    <3>2. s \in Nat
      BY <1>3, DocumentFacts DEF Starts
    <3>3. s \in left
      BY <1>8, <2>1, <3>1, <3>2 DEF Filling
    <3> QED BY <1>1, <3>3
  <2> QED BY <1>5, <2>1, <2>3
<1>10. /\ Chunk(current) \in SectionType /\ Carries(Chunk(current).text)
       /\ Follows(Chunk(current).text, EndOf(chunks)) /\ Fits(Chunk(current).text, EndOf(chunks))
       /\ Cited(Chunk(current)) /\ Chunk(current).text = current
  <2>1. Chunk(current) = [path |-> Section.path, text |-> current]
    BY DEF Chunk
  <2>2. /\ Chunk(current) \in SectionType /\ Carries(Chunk(current).text)
        /\ Follows(Chunk(current).text, EndOf(chunks)) /\ Fits(Chunk(current).text, EndOf(chunks))
        /\ Cited(Chunk(current))
    BY <1>3, <1>5, <1>8, <2>1, ClosedChunk DEF text
  <2>3. Chunk(current).text = current
    BY <2>1
  <2> QED BY <2>2, <2>3
<1>11. /\ chunks' \in Seq(SectionType) /\ WellChunked(chunks')
       /\ EndOf(chunks') = LastOf(merged, taken + 1)
  <2>1. chunks' = Append(chunks, Chunk(current))
    BY <1>1, <1>7
  <2>2. /\ Append(chunks, Chunk(current)) \in Seq(SectionType)
        /\ WellChunked(Append(chunks, Chunk(current)))
        /\ EndOf(Append(chunks, Chunk(current))) = LastLine(Chunk(current).text)
    BY <1>3, <1>10, ChunkAdded
  <2> QED BY <1>5, <1>9, <1>10, <2>1, <2>2
<1>12. IngestTyped'
  BY <1>1, <1>2, <1>11 DEF IngestTyped
<1>13. SectionsInv'
  BY <1>1, <1>2, DocumentStays DEF SectionsInv
<1>14. MergedInv'
  <2>1. taken + 1 <= Len(merged)
    BY <1>3, <1>4, SectionFacts
  <2> QED BY <1>1, <1>2, <2>1, DocumentStays DEF MergedInv
<1>15. ChunksInv'
  BY <1>1, <1>11, DocumentStays DEF ChunksInv
<1>16. (ReadInv /\ MergeInv /\ SplitInv)'
  BY <1>1 DEF ReadInv, MergeInv, SplitInv
<1> QED BY <1>12, <1>13, <1>14, <1>15, <1>16 DEF IngestInv

(* Whatever the document, every state of its ingestion satisfies the       *)
(* invariant (ingest.py:53-148).                                           *)
THEOREM IngestInvariance == IngestSpec => []IngestInv
<1>1. IngestInit => IngestInv
  BY InitIngestInv
<1>2. IngestInv /\ [IngestNext]_ingestVars => IngestInv'
  <2> SUFFICES ASSUME IngestInv, [IngestNext]_ingestVars PROVE IngestInv'
    OBVIOUS
  <2>1. CASE UNCHANGED ingestVars
    <3>1. /\ document' = document /\ pass' = pass /\ taken' = taken /\ from' = from /\ stack' = stack
          /\ sections' = sections /\ pending' = pending /\ merged' = merged
          /\ left' = left /\ current' = current /\ chunks' = chunks
      BY <2>1 DEF ingestVars
    <3>2. IngestTyped'
      BY <3>1 DEF IngestInv, IngestTyped
    <3>3. ReadInv' /\ SectionsInv'
      BY <3>1, DocumentStays DEF IngestInv, ReadInv, SectionsInv
    <3>4. MergeInv' /\ MergedInv' /\ ChunksInv'
      BY <3>1, DocumentStays DEF IngestInv, MergeInv, MergedInv, ChunksInv
    <3>5. SplitInv'
      BY <3>1, DocumentStays DEF IngestInv, SplitInv, Filling, Section
    <3> QED BY <3>2, <3>3, <3>4, <3>5 DEF IngestInv
  <2> QED BY <2>1, ReadTextIngestInv, ReadHeadingIngestInv, EndReadIngestInv, MergeSectionIngestInv,
             EndMergeIngestInv, KeepSectionIngestInv, BeginSplitIngestInv, AddParagraphIngestInv,
             EndSplitIngestInv, LoadedIngestInv DEF IngestNext
<1> QED BY <1>1, <1>2, PTL DEF IngestSpec

(* Chunking loses nothing, reorders nothing, and repeats only a short      *)
(* paragraph between two chunks: for every document, whatever its lines,   *)
(* headings and sizes (ingest.py:53-125).                                  *)
THEOREM NothingLostInChunking == IngestSpec => []ChunksCoverTheDocument
<1>1. IngestInv => ChunksCoverTheDocument
  <2> SUFFICES ASSUME IngestInv, pass = "loaded"
               PROVE  /\ \A n \in DOMAIN chunks :
                           Carries(chunks[n].text) /\ Follows(chunks[n].text, LastOf(chunks, n - 1))
                      /\ \A l \in SolidLines : l <= LastOf(chunks, Len(chunks))
    BY DEF ChunksCoverTheDocument
  <2>1. WellChunked(chunks) /\ EndOf(chunks) = LastOf(merged, taken) /\ taken = Len(merged)
    BY DEF IngestInv, ChunksInv
  <2>2. ToTheEnd(merged)
    BY DEF IngestInv, MergedInv
  <2> QED BY <2>1, <2>2 DEF WellChunked, ToTheEnd, EndOf
<1> QED BY <1>1, IngestInvariance, PTL

(* No chunk is larger than the target but one that cannot be split and one *)
(* that a repeated paragraph fills up (ingest.py:87-104).                  *)
THEOREM ChunksWithinTarget == IngestSpec => []ChunksFit
<1>1. IngestInv => ChunksFit
  <2> SUFFICES ASSUME IngestInv, pass = "loaded", NEW n \in DOMAIN chunks
               PROVE  \/ Length(chunks[n].text) <= Target
                      \/ Cardinality(Starts(chunks[n].text)) = 1
                      \/ /\ Cardinality(Starts(chunks[n].text)) = 2 /\ n > 1
                         /\ FirstLine(chunks[n].text) <= LastOf(chunks, n - 1)
    BY DEF ChunksFit
  <2>1. Fits(chunks[n].text, LastOf(chunks, n - 1)) /\ Carries(chunks[n].text)
    BY DEF IngestInv, ChunksInv, WellChunked
  <2>2. document \in Documents /\ chunks \in Seq(SectionType)
    BY DEF IngestInv, IngestTyped
  <2>3. n \in Nat \ {0}
    BY <2>2, SectionFacts
  <2>4. FirstLine(chunks[n].text) \in SolidLines
    BY <2>1 DEF Carries
  <2>5. FirstLine(chunks[n].text) \in Nat \ {0}
    BY <2>2, <2>4, DocumentFacts
  <2>6. n = 1 => LastOf(chunks, n - 1) = 0
    BY DEF LastOf
  <2> QED BY <2>1, <2>3, <2>5, <2>6 DEF Fits
<1> QED BY <1>1, IngestInvariance, PTL

(* A chunk is cited under the headings its last line stands under, or      *)
(* under those of the section its own small one was merged into            *)
(* (ingest.py:61-83, 115-119).                                             *)
THEOREM CitedRightly == IngestSpec => []CitedUnderItsHeadings
<1>1. IngestInv => CitedUnderItsHeadings
  BY DEF IngestInv, ChunksInv, WellChunked, Cited, CitedUnderItsHeadings
<1> QED BY <1>1, IngestInvariance, PTL

-----------------------------------------------------------------------------
(* The benchmark's metrics.                                                *)

(* The first ranks of a ranking, at most Depth of them.                    *)
LEMMA TopFacts ==
  ASSUME NEW S, NEW r \in Seq(S)
  PROVE  LET k == IF Len(r) < Depth THEN Len(r) ELSE Depth
         IN /\ k \in 0..Len(r) /\ DOMAIN Top(r) = 1..k
            /\ \A i \in 1..k : Top(r)[i] = r[i]
            /\ ToSet(Top(r)) = {r[i] : i \in 1..k}
<1> DEFINE k == IF Len(r) < Depth THEN Len(r) ELSE Depth
<1>1. k \in 0..Len(r) /\ 1 \in 1..(Len(r) + 1) /\ Len(r) \in Nat
  BY LenProperties, DiscountAssumption
<1> HIDE DEF k
<1>2. DOMAIN SubSeq(r, 1, k) = 1..k /\ \A i \in 1..k : SubSeq(r, 1, k)[i] = r[i]
  BY <1>1, SubSeqProperties
<1>3. Top(r) = SubSeq(r, 1, k)
  BY DEF Top, k
<1>4. ToSet(Top(r)) = {r[i] : i \in 1..k}
  BY <1>2, <1>3 DEF ToSet
<1> QED BY <1>1, <1>2, <1>3, <1>4 DEF k

(* The reciprocal rank is that of the first hit, if there is one.          *)
LEMMA FirstHit ==
  ASSUME NEW labels, NEW S, NEW r \in Seq(S)
  PROVE  /\ Hits(labels, r) = {i \in DOMAIN Top(r) : r[i] \in DOMAIN labels}
         /\ Hits(labels, r) = {} => MRR(labels, r) = [num |-> 0, den |-> 1]
         /\ Hits(labels, r) # {} =>
              /\ MRR(labels, r).num = 1 /\ MRR(labels, r).den \in Hits(labels, r)
              /\ MRR(labels, r).den \in Nat \ {0}
              /\ \A j \in Hits(labels, r) : MRR(labels, r).den <= j
<1> DEFINE H == Hits(labels, r)
<1>1. H \in SUBSET (Nat \ {0})
  <2>1. PICK k \in Nat : DOMAIN Top(r) = 1..k
    BY TopFacts, LenProperties
  <2> QED BY <2>1 DEF Hits
<1>2. H = {} => MRR(labels, r) = [num |-> 0, den |-> 1]
  BY DEF MRR
<1>3. ASSUME H # {}
      PROVE  /\ MRR(labels, r).num = 1 /\ MRR(labels, r).den \in H
             /\ \A j \in H : MRR(labels, r).den <= j
  <2> DEFINE first == CHOOSE i \in H : \A j \in H : i <= j
  <2>1. \E i \in H : \A j \in H : i <= j
    <3>1. H \in SUBSET Nat
      BY <1>1
    <3> HIDE DEF H
    <3> QED BY <1>3, <3>1, LeastElement
  <2>2. first \in H /\ \A j \in H : first <= j
    <3> HIDE DEF H
    <3> QED BY <2>1
  <2>3. MRR(labels, r) = [num |-> 1, den |-> first]
    BY <1>3 DEF MRR
  <2> HIDE DEF first, H
  <2> QED BY <2>2, <2>3
<1> HIDE DEF H
<1>4. H = {i \in DOMAIN Top(r) : r[i] \in DOMAIN labels}
  BY DEF H, Hits
<1> QED BY <1>1, <1>2, <1>3, <1>4 DEF H

(* Two neighbours of a ranking swapped.                                    *)
LEMMA SwappedFacts ==
  ASSUME NEW S, NEW r \in Seq(S), NEW i \in 1..(Len(r) - 1)
  PROVE  /\ Swapped(r, i) \in Seq(S) /\ Len(Swapped(r, i)) = Len(r)
         /\ Swapped(r, i)[i] = r[i + 1] /\ Swapped(r, i)[i + 1] = r[i]
         /\ \A j \in 1..Len(r) : j # i /\ j # i + 1 => Swapped(r, i)[j] = r[j]
<1>1. /\ Len(r) \in Nat /\ DOMAIN r = 1..Len(r) /\ i \in DOMAIN r /\ i + 1 \in DOMAIN r /\ i # i + 1
      /\ r[i] \in S /\ r[i + 1] \in S
  BY LenProperties
<1> DEFINE b == Swapped(r, i)
<1>2. /\ b[i] = r[i + 1] /\ b[i + 1] = r[i]
      /\ \A j \in 1..Len(r) : j # i /\ j # i + 1 => b[j] = r[j]
  BY <1>1 DEF Swapped
<1>3. b \in [1..Len(r) -> S]
  <2>1. r \in [1..Len(r) -> S]
    BY <1>1
  <2>2. DOMAIN b = 1..Len(r) /\ b = [j \in 1..Len(r) |-> b[j]]
    BY <1>1, <2>1 DEF Swapped
  <2>3. \A j \in 1..Len(r) : b[j] \in S
    BY <1>1, <1>2, <2>1
  <2> HIDE DEF b
  <2> QED BY <2>2, <2>3
<1> HIDE DEF b
<1>4. b \in Seq(S) /\ Len(b) = Len(r)
  BY <1>1, <1>3, SeqDef, LenProperties
<1> QED BY <1>2, <1>4 DEF b

(* Products are monotone.                                                  *)
LEMMA Ratios ==
  ASSUME NEW m \in Nat, NEW n \in Nat, NEW d \in Nat, m <= n
  PROVE  m * d <= n * d
<1>1. (n - m) * d >= 0
  BY n - m \in Nat
<1> QED BY <1>1

(* The counts of any ranking without repetition, against any labels.  When *)
(* a swap moves a labelled document from beyond Depth to the first ranks,  *)
(* it is none of those there, and takes the place of at most one hit.      *)
LEMMA HitsSound ==
  ASSUME NEW labels, IsFiniteSet(DOMAIN labels), DOMAIN labels # {},
         \A d \in DOMAIN labels : labels[d] \in Nat \ {0},
         NEW S, NEW r \in Seq(S), IsInjective(r)
  PROVE  HitsAreSound(labels, r)
<1> DEFINE D == DOMAIN labels
           k == IF Len(r) < Depth THEN Len(r) ELSE Depth
           A == D \cap {r[j] : j \in 1..k}
<1>1. /\ k \in 0..Len(r) /\ DOMAIN Top(r) = 1..k /\ ToSet(Top(r)) = {r[j] : j \in 1..k}
      /\ Len(r) \in Nat /\ DOMAIN r = 1..Len(r)
  BY TopFacts, LenProperties
<1>2. /\ IsFiniteSet(A) /\ Cardinality(A) \in Nat /\ Cardinality(A) <= Cardinality(D)
      /\ Cardinality(D) \in Nat \ {0} /\ (Cardinality(A) = 0 <=> A = {})
  <2> HIDE DEF k
  <2>1. IsFiniteSet(A) /\ Cardinality(A) <= Cardinality(D)
    BY FS_Intersection
  <2>2. Cardinality(A) \in Nat /\ Cardinality(D) \in Nat
    BY <2>1, FS_CardinalityType
  <2> HIDE DEF A
  <2> QED BY <2>1, <2>2, FS_EmptySet
<1>3. Recall(labels, r) = [num |-> Cardinality(A), den |-> Cardinality(D)]
  BY <1>1 DEF Recall
<1>4. Hits(labels, r) = {j \in 1..k : r[j] \in D}
  BY <1>1, FirstHit
<1> HIDE DEF A, k
<1>5. AtMost(Recall(labels, r), One)
  <2> HIDE DEF D
  <2> QED BY <1>2, <1>3 DEF AtMost, One
<1>6. AtMost(MRR(labels, r), One)
  <2>1. CASE Hits(labels, r) = {}
    BY <2>1, FirstHit DEF AtMost, One
  <2>2. CASE Hits(labels, r) # {}
    BY <2>2, FirstHit DEF AtMost, One
  <2> QED BY <2>1, <2>2
<1>7. Recall(labels, r).num = 0 <=> MRR(labels, r).num = 0
  <2>1. A = {} <=> Hits(labels, r) = {}
    BY <1>4 DEF A
  <2>2. MRR(labels, r).num = 0 <=> Hits(labels, r) = {}
    BY FirstHit
  <2>3. Recall(labels, r).num = Cardinality(A)
    BY <1>3
  <2> QED BY <1>2, <2>1, <2>2, <2>3
<1>8. ASSUME NEW i \in Misplaced(labels, r)
      PROVE  /\ AtMost(Recall(labels, r), Recall(labels, Swapped(r, i)))
             /\ AtMost(MRR(labels, r), MRR(labels, Swapped(r, i)))
  <2> DEFINE b == Swapped(r, i)
             B == D \cap {b[j] : j \in 1..k}
  <2>1. i \in 1..(Len(r) - 1) /\ Grade(labels, r[i]) < Grade(labels, r[i + 1])
    BY DEF Misplaced
  <2>2. /\ b \in Seq(S) /\ Len(b) = Len(r) /\ b[i] = r[i + 1] /\ b[i + 1] = r[i]
        /\ \A j \in 1..Len(r) : j # i /\ j # i + 1 => b[j] = r[j]
    BY <2>1, SwappedFacts
  <2>3. r[i + 1] \in D
    <3>1. CASE r[i + 1] \notin D
      BY <2>1, <3>1 DEF Grade
    <3> QED BY <3>1
  <2> HIDE DEF b, D
  <2>4. DOMAIN Top(b) = 1..k /\ ToSet(Top(b)) = {b[j] : j \in 1..k}
    BY <2>2, TopFacts DEF k
  <2>5. Recall(labels, b) = [num |-> Cardinality(B), den |-> Cardinality(D)]
    BY <2>4 DEF Recall, D
  <2>6. IsFiniteSet(B) /\ Cardinality(B) \in Nat /\ Cardinality(A) <= Cardinality(B)
    <3>1. IsFiniteSet(B) /\ Cardinality(B) \in Nat
      <4>1. IsFiniteSet(B)
        BY FS_Intersection DEF D
      <4> QED BY <4>1, FS_CardinalityType
    <3>2. CASE i # k
      <4>1. A = B
        <5>1. ASSUME NEW j \in 1..k 
             PROVE  r[j] \in {b[n] : n \in 1..k} /\ b[j] \in {r[n] : n \in 1..k}
          <6>1. CASE j # i /\ j # i + 1
            BY <1>1, <2>2, <6>1
          <6>2. CASE j = i
            <7>1. i + 1 \in 1..k
              BY <1>1, <2>1, <3>2, <6>2
            <7> QED BY <2>2, <6>2, <7>1
          <6>3. CASE j = i + 1
            <7>1. i \in 1..k
              BY <1>1, <2>1, <6>3
            <7> QED BY <2>2, <6>3, <7>1
          <6> QED BY <6>1, <6>2, <6>3
        <5>2. {r[j] : j \in 1..k} = {b[j] : j \in 1..k}
          BY <5>1
        <5> QED BY <5>2 DEF A
      <4> HIDE DEF B
      <4> QED BY <1>2, <3>1, <4>1
    <3>3. CASE i = k
      <4>1. r[i + 1] \notin {r[j] : j \in 1..k}
        BY <1>1, <2>1, <3>3 DEF IsInjective
      <4>2. B = (A \ {r[i]}) \cup {r[i + 1]}
        <5>1. {b[j] : j \in 1..k} = ({r[j] : j \in 1..k} \ {r[i]}) \cup {r[i + 1]}
          <6>1. \A j \in 1..(k - 1) : b[j] = r[j] /\ r[j] # r[i]
            BY <1>1, <2>1, <2>2, <3>3 DEF IsInjective
          <6>2. b[k] = r[i + 1] /\ r[k] = r[i] /\ k \in 1..k /\ \A j \in 1..k : j = k \/ j \in 1..(k - 1)
            BY <1>1, <2>1, <2>2, <3>3
          <6>3. 1..(k - 1) \subseteq 1..k
            BY <1>1
          <6> QED BY <6>1, <6>2, <6>3
        <5> QED BY <2>3, <4>1, <5>1 DEF A
      <4>3. r[i + 1] \notin A \ {r[i]}
        BY <4>1 DEF A
      <4>4. /\ IsFiniteSet(A \ {r[i]}) /\ Cardinality(A \ {r[i]}) \in Nat
            /\ Cardinality(A \ {r[i]}) >= Cardinality(A) - 1
        <5>1. /\ IsFiniteSet(A \ {r[i]})
              /\ Cardinality(A \ {r[i]}) = IF r[i] \in A THEN Cardinality(A) - 1 ELSE Cardinality(A)
          BY <1>2, FS_RemoveElement
        <5>2. Cardinality(A \ {r[i]}) \in Nat
          BY <5>1, FS_CardinalityType
        <5> QED BY <1>2, <5>1, <5>2
      <4>5. Cardinality(B) = Cardinality(A \ {r[i]}) + 1
        <5> HIDE DEF B
        <5> QED BY <4>2, <4>3, <4>4, FS_AddElement
      <4> HIDE DEF B
      <4> QED BY <1>2, <3>1, <4>4, <4>5
    <3> QED BY <3>2, <3>3
  <2> HIDE DEF B
  <2>7. AtMost(Recall(labels, r), Recall(labels, b))
    <3>1. Cardinality(D) \in Nat
      BY <1>2
    <3>2. Cardinality(A) * Cardinality(D) <= Cardinality(B) * Cardinality(D)
      BY <1>2, <2>6, <3>1, Ratios
    <3>3. /\ Recall(labels, r).num = Cardinality(A) /\ Recall(labels, r).den = Cardinality(D)
          /\ Recall(labels, b).num = Cardinality(B) /\ Recall(labels, b).den = Cardinality(D)
      BY <1>3, <2>5
    <3> QED BY <3>2, <3>3 DEF AtMost
  <2>8. Hits(labels, b) = {j \in 1..k : b[j] \in D}
    BY <2>2, <2>4, FirstHit DEF D
  <2>9. AtMost(MRR(labels, r), MRR(labels, b))
    <3>1. /\ MRR(labels, b).num \in Nat /\ MRR(labels, b).den \in Nat
          /\ Hits(labels, b) # {} => MRR(labels, b).num = 1
          /\ \A j \in Hits(labels, b) : MRR(labels, b).den <= j
      <4>1. /\ Hits(labels, b) = {} => MRR(labels, b) = [num |-> 0, den |-> 1]
            /\ Hits(labels, b) # {} =>
                 /\ MRR(labels, b).num = 1 /\ MRR(labels, b).den \in Nat \ {0}
                 /\ \A j \in Hits(labels, b) : MRR(labels, b).den <= j
        BY <2>2, FirstHit
      <4>2. CASE Hits(labels, b) = {}
        <5>1. MRR(labels, b).num = 0 /\ MRR(labels, b).den = 1
          BY <4>1, <4>2
        <5> QED BY <4>2, <5>1
      <4> QED BY <4>1, <4>2
    <3>2. CASE Hits(labels, r) = {}
      <4>1. MRR(labels, r).num = 0 /\ MRR(labels, r).den = 1
        BY <3>2, FirstHit
      <4>2. 0 * MRR(labels, b).den = 0 /\ MRR(labels, b).num * 1 >= 0
        BY <3>1
      <4> QED BY <4>1, <4>2 DEF AtMost
    <3>3. CASE Hits(labels, r) # {}
      <4> DEFINE m == MRR(labels, r).den
      <4>1. m \in Hits(labels, r) /\ m \in Nat /\ MRR(labels, r).num = 1
        BY <3>3, FirstHit
      <4>2. \E j \in Hits(labels, b) : j \in Nat /\ j <= m
        <5> HIDE DEF m
        <5>1. m \in 1..k /\ r[m] \in D
          BY <1>4, <4>1
        <5>2. CASE m # i /\ m # i + 1
          BY <1>1, <2>2, <2>8, <5>1, <5>2
        <5>3. CASE m = i
          BY <2>2, <2>3, <2>8, <5>1, <5>3, <4>1
        <5>4. CASE m = i + 1
          <6>1. i \in 1..k /\ i <= m /\ i \in Nat
            BY <1>1, <2>1, <5>1, <5>4
          <6> QED BY <2>2, <2>3, <2>8, <6>1
        <5> QED BY <5>2, <5>3, <5>4
      <4>3. MRR(labels, b).num = 1 /\ MRR(labels, b).den <= m
        <5> HIDE DEF m
        <5> QED BY <3>1, <4>1, <4>2
      <4> QED BY <3>1, <4>1, <4>3 DEF AtMost
    <3> QED BY <3>2, <3>3
  <2> QED BY <2>7, <2>9 DEF b
<1> QED BY <1>5, <1>6, <1>7, <1>8 DEF HitsAreSound

(* The dataset has finitely many documents.                                *)
LEMMA CorpusFinite == IsFiniteSet(ToSet(Corpus))
<1> DEFINE n == Len(Corpus)
           F == [j \in 1..n |-> {Corpus[j]}]
<1>1. n \in Nat /\ DOMAIN Corpus = 1..n
  BY CorpusAssumption, LenProperties
<1>2. \A j \in 1..n : IsFiniteSet(F[j])
  BY FS_Singleton
<1>3. IsFiniteSet(UNION {F[j] : j \in 1..n})
  <2>1. IsFiniteSet(1..n)
    BY <1>1, FS_Interval
  <2> HIDE DEF F, n
  <2> QED BY <1>2, <2>1, FiniteUnionOf
<1>4. ToSet(Corpus) = UNION {F[j] : j \in 1..n}
  BY <1>1 DEF ToSet
<1> QED BY <1>3, <1>4

(* What is scored: a ranking without repetition, against positive labels.  *)
ResultWell ==
  stage = "reported" =>
    /\ result.ranking \in Seq(ToSet(docs)) /\ IsInjective(result.ranking)
    /\ DOMAIN result.labels \in SUBSET ToSet(Corpus) /\ DOMAIN result.labels # {}
    /\ \A d \in DOMAIN result.labels : result.labels[d] \in Nat \ {0}

(* Score alone makes a result, of such labels and such a ranking.          *)
LEMMA StepResultWell == IInv /\ ResultWell /\ [EvalNext]_evalVars => ResultWell'
<1> SUFFICES ASSUME IInv, ResultWell, [EvalNext]_evalVars PROVE ResultWell'
  OBVIOUS
<1>1. CASE Score
  <2>1. PICK labelled \in SUBSET ToSet(Corpus) :
          \E labels \in [labelled -> Grades], ranking \in UNION {[1..n -> ToSet(docs)] : n \in 0..Len(docs)} :
            /\ labelled # {} /\ IsInjective(ranking)
            /\ result' = [labels |-> labels, ranking |-> ranking]
    BY <1>1 DEF Score
  <2>2. PICK labels \in [labelled -> Grades], ranking \in UNION {[1..n -> ToSet(docs)] : n \in 0..Len(docs)} :
            /\ labelled # {} /\ IsInjective(ranking)
            /\ result' = [labels |-> labels, ranking |-> ranking]
    BY <2>1
  <2>3. PICK n \in 0..Len(docs) : ranking \in [1..n -> ToSet(docs)]
    BY <2>2
  <2>4. Len(docs) \in Nat /\ docs' = docs
    BY <1>1 DEF IInv, DocsRead, Score
  <2>5. ranking \in Seq(ToSet(docs))
    BY <2>3, <2>4, SeqDef
  <2>6. \A d \in DOMAIN labels : labels[d] \in Nat \ {0}
    BY GradesAssumption
  <2>7. result'.ranking = ranking /\ result'.labels = labels /\ DOMAIN labels = labelled
    BY <2>2
  <2> QED BY <2>2, <2>4, <2>5, <2>6, <2>7 DEF ResultWell
<1>2. CASE stage' # "reported"
  BY <1>2 DEF ResultWell
<1>3. CASE UNCHANGED evalVars
  BY <1>3 DEF evalVars, ResultWell
<1>4. CASE Discard \/ Kill
  BY <1>4 DEF Discard, Kill, ResultWell
<1>5. CASE EvalNext /\ ~Score /\ ~Discard /\ ~Kill
  <2>1. CASE (\E e \in Embedders : Launch(e)) \/ DatasetFound \/ Downloaded \/ DownloadFails \/ Unpacked
    BY <1>2, <2>1 DEF Launch, DatasetFound, Downloaded, DownloadFails, Unpacked
  <2>2. CASE DatasetMissing
    <3>1. stage' \in {"downloading", "unpacking", "failed"}
      BY <2>2 DEF DatasetMissing, IInv, HeldTypes
    <3> QED BY <1>2, <3>1
  <2>3. CASE ReadDataset \/ CacheUnreadable \/ EmbedCorpus
    BY <1>2, <2>3 DEF ReadDataset, CacheUnreadable, EmbedCorpus
  <2>4. CASE UseCached \/ WriteCached \/ BuildIndex \/ Exit
    BY <1>2, <2>4 DEF UseCached, WriteCached, BuildIndex, Exit
  <2> QED BY <1>5, <2>1, <2>2, <2>3, <2>4 DEF EvalNext
<1> QED BY <1>1, <1>3, <1>4, <1>5

(* Recall and the reciprocal rank of every query that is scored are at most*)
(* 1, both 0 or neither, and do not fall when a more relevant document is  *)
(* moved up: what MetricsAreSound says of the metrics that count hits      *)
(* (eval_beir.py:62-78).                                                   *)
THEOREM RecallAndRankSound ==
  EvalSpec => [](stage = "reported" => HitsAreSound(result.labels, result.ranking))
<1>1. EvalInit => IInv /\ ResultWell
  BY InitIInv DEF EvalInit, ResultWell
<1>2. IInv /\ ResultWell /\ [EvalNext]_evalVars => (IInv /\ ResultWell)'
  BY StepIInv, StepResultWell
<1>3. ResultWell => (stage = "reported" => HitsAreSound(result.labels, result.ranking))
  <2> SUFFICES ASSUME ResultWell, stage = "reported"
               PROVE  HitsAreSound(result.labels, result.ranking)
    OBVIOUS
  <2>1. IsFiniteSet(DOMAIN result.labels)
    BY CorpusFinite, FS_Subset DEF ResultWell
  <2> QED BY <2>1, HitsSound DEF ResultWell
<1> QED BY <1>1, <1>2, <1>3, PTL DEF EvalSpec
=============================================================================
