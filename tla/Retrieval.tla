----------------------------- MODULE Retrieval ------------------------------
(***************************************************************************)
(* How app/retrieval.py and app/pipeline.py turn rankings into the chunks  *)
(* an answer is made from.  Retriever.retrieve fuses the dense and the     *)
(* lexical ranking, injects the chunks that match an identifier of the     *)
(* query, removes duplicates and selects by maximal marginal relevance;    *)
(* answer_question fuses the results of its phrasings ("merge") and        *)
(* selects from them again.  The two rankings themselves (cosine, BM25),   *)
(* tokens and identifiers are inputs.                                      *)
(*                                                                         *)
(* Arithmetic.  A score of 1.0 is Unit, divisible by every 60 + rank that  *)
(* occurs, so fusion is exact; similarities are multiples of 1/20, lambda  *)
(* of 1/10.  The code computes in floats.                                  *)
(***************************************************************************)
EXTENDS Integers, Sequences, FiniteSets, SequencesExt

CONSTANTS
  Chunks,         \* 1..n: a chunk is its place in self.chunks
  Corpora,        \* [doc, title] assignments of the chunks
  Inputs,         \* [mode, lanes, matches, k]
  Cosine,         \* [Chunks \X Chunks -> -20..20]
  Unit, Constant, \* 1.0, and the constant of reciprocal_rank_fusion
  RerankPool,     \* rerank_pool
  MaxPerDoc,      \* context_max_per_doc
  Lambda          \* ten times mmr_lambda

ASSUME ChunksAssumption == Chunks \subseteq Nat /\ IsFiniteSet(Chunks)
ASSUME InputsAssumption == \A in \in Inputs :
  /\ in.mode \in {"retrieve", "merge"} /\ in.k \in Nat /\ in.matches \subseteq Chunks
  /\ \A l \in 1..2 : in.lanes[l] \in Seq(Chunks) /\ IsInjective(in.lanes[l])
ASSUME CosineAssumption == Cosine \in [Chunks \X Chunks -> -20..20]
ASSUME UnitAssumption ==
  /\ Unit \in Nat \ {0} /\ Constant \in Nat \ {0}
  /\ \A rank \in 1..Cardinality(Chunks) : Unit % (Constant + rank) = 0
ASSUME LambdaAssumption == Lambda \in 0..10
ASSUME LimitsAssumption == RerankPool \in Nat \ {0} /\ MaxPerDoc \in Nat \ {0}

VARIABLES
  corpus,     \* the document and the title of each chunk
  input,      \* the rankings, the matching chunks, the number of results
  stage,
  list,       \* the ScoredChunks in hand: [chunk, score] records
  remaining,  \* _dedup, mmr_select: not yet considered
  selected    \* mmr_select: the chunks chosen

vars == <<corpus, input, stage, list, remaining, selected>>

Least(a, b) == IF a <= b THEN a ELSE b
Greatest(a, b) == IF a >= b THEN a ELSE b

Init ==
  /\ corpus \in Corpora
  /\ input \in Inputs
  /\ stage = "fuse"
  /\ list = << >>
  /\ remaining = << >>
  /\ selected = << >>

Goto(next) == stage' = next /\ UNCHANGED <<corpus, input>>

(* pool_size in retrieve; rerank_pool in answer_question. *)
Limit == IF input.mode = "retrieve" THEN Greatest(input.k, RerankPool) ELSE RerankPool

Cut(s) == SubSeq(s, 1, Least(Len(s), Limit))

(* The elements of a finite set in the order that R, a set of pairs, puts   *)
(* them in.                                                                *)
Arranged(S, R) ==
  [n \in 1..Cardinality(S) |->
     CHOOSE x \in S : Cardinality({y \in S : <<y, x>> \in R}) = n - 1]

Ascending(S) == Arranged(S, {p \in S \X S : p[1] < p[2]})

(* list.sort by descending score, which keeps the order of equals. *)
HigherFirst(s) ==
  {p \in (1..Len(s)) \X (1..Len(s)) :
     \/ s[p[1]].score > s[p[2]].score
     \/ s[p[1]].score = s[p[2]].score /\ p[1] < p[2]}

Sorted(s) ==
  LET places == Arranged(1..Len(s), HigherFirst(s))
  IN [n \in 1..Len(s) |-> s[places[n]]]

-----------------------------------------------------------------------------
(* reciprocal_rank_fusion                                                  *)

RankIn(lane, c) == CHOOSE i \in DOMAIN lane : lane[i] = c
Weight(lane, c) == IF Contains(lane, c) THEN Unit \div (Constant + RankIn(lane, c)) ELSE 0

(* Slip: a lane's score replaces the score so far. *)
ScoreOfLastLane(lanes, c) ==
  IF Contains(lanes[2], c) THEN Weight(lanes[2], c) ELSE Weight(lanes[1], c)

FusedScore(lanes, c) == Weight(lanes[1], c) + Weight(lanes[2], c)

(* The keys of the dictionary of scores, in the order of insertion. *)
FirstSeen(lanes) ==
  LET new == Ascending({i \in DOMAIN lanes[2] : ~Contains(lanes[1], lanes[2][i])})
  IN lanes[1] \o [n \in DOMAIN new |-> lanes[2][new[n]]]

(* _dense_rank and _lexical_rank cut their rankings as well. *)
Lanes == [l \in 1..2 |-> IF input.mode = "retrieve" THEN Cut(input.lanes[l])
                                                    ELSE input.lanes[l]]

Scored(chunks) == [i \in DOMAIN chunks |->
                     [chunk |-> chunks[i], score |-> FusedScore(Lanes, chunks[i])]]

Fuse ==
  /\ stage = "fuse"
  /\ list' = Cut(Sorted(Scored(FirstSeen(Lanes))))
  /\ IF input.mode = "retrieve"
     THEN Goto("inject") /\ UNCHANGED remaining
     ELSE Goto("mmr") /\ remaining' = list'    \* the passthrough reranker
  /\ UNCHANGED selected

-----------------------------------------------------------------------------
(* _inject_identifier_matches, the sort after it, and _dedup               *)

InList(c) == \E i \in DOMAIN list : list[i].chunk = c

(* Slip: only a chunk that was not ranked gets the score of a match. *)
BoostedIfNew(item) == item

Boosted(item) ==
  IF item.chunk \in input.matches THEN [item EXCEPT !.score = @ + Unit] ELSE item

Injected ==
  LET new == Ascending({c \in input.matches : ~InList(c)})
  IN [i \in DOMAIN list |-> Boosted(list[i])]
     \o [i \in DOMAIN new |-> [chunk |-> new[i], score |-> Unit]]

Inject ==
  /\ stage = "inject"
  /\ remaining' = Sorted(Injected)
  /\ list' = << >>
  /\ Goto("dedup")
  /\ UNCHANGED selected

Doc(c) == corpus.doc[c]
Title(c) == corpus.title[c]
OfDoc(items, d) == {i \in DOMAIN items : Doc(items[i].chunk) = d}

(* A title belongs to the first document that brings it. *)
TitleTaken(kept, c) ==
  \E i \in DOMAIN kept : Title(kept[i].chunk) = Title(c) /\ Doc(kept[i].chunk) # Doc(c)

IsDuplicate(c) ==
  TitleTaken(list, c) \/ Cardinality(OfDoc(list, Doc(c))) >= MaxPerDoc

Unfinished == remaining # << >> /\ Len(list) < Limit

(* One turn of the loop of _dedup. *)
Keep ==
  /\ stage = "dedup" /\ Unfinished
  /\ list' = IF IsDuplicate(Head(remaining).chunk) THEN list
                                                   ELSE Append(list, Head(remaining))
  /\ remaining' = Tail(remaining)
  /\ UNCHANGED <<corpus, input, stage, selected>>

Deduplicated ==
  /\ stage = "dedup" /\ ~Unfinished
  /\ remaining' = list
  /\ Goto("mmr")
  /\ UNCHANGED <<list, selected>>

-----------------------------------------------------------------------------
(* mmr_select: one turn of its loop is one step.                           *)

Similarity(c, d) ==
  IF c = d THEN 20
  ELSE IF Doc(c) = Doc(d) THEN Greatest(Cosine[<<c, d>>], 17) ELSE Cosine[<<c, d>>]

TopScore == LET scores == {list[i].score : i \in DOMAIN list}
            IN IF scores = {} \/ scores = {0} THEN Unit
               ELSE CHOOSE s \in scores : \A t \in scores : t <= s

Penalty(c) ==
  LET similarities == {Similarity(c, selected[i].chunk) : i \in DOMAIN selected}
  IN IF similarities = {} THEN 0
     ELSE CHOOSE s \in similarities : \A t \in similarities : t <= s

(* The value of a candidate, times 200 * TopScore. *)
Value(item) ==
  Lambda * 20 * item.score - (10 - Lambda) * Penalty(item.chunk) * TopScore

(* Slip: the cap is not looked at. *)
WithinCapAlways(item) == TRUE

WithinCap(item) == Cardinality(OfDoc(selected, Doc(item.chunk))) < MaxPerDoc

Eligible == {i \in DOMAIN remaining : WithinCap(remaining[i])}

More == remaining # << >> /\ Len(selected) < input.k

(* The first of the candidates of the greatest value. *)
Best == CHOOSE i \in Eligible : \A j \in Eligible :
          \/ Value(remaining[i]) > Value(remaining[j])
          \/ Value(remaining[i]) = Value(remaining[j]) /\ i <= j

Select ==
  /\ stage = "mmr" /\ More /\ Eligible # {}
  /\ selected' = Append(selected, remaining[Best])
  /\ remaining' = RemoveAt(remaining, Best)
  /\ UNCHANGED <<corpus, input, stage, list>>

(* Every candidate left is over its document's cap: the first is dropped. *)
Skip ==
  /\ stage = "mmr" /\ More /\ Eligible = {}
  /\ remaining' = Tail(remaining)
  /\ UNCHANGED <<corpus, input, stage, list, selected>>

Return ==
  /\ stage = "mmr" /\ ~More
  /\ Goto("done")
  /\ UNCHANGED <<list, remaining, selected>>

Next == Fuse \/ Inject \/ Keep \/ Deduplicated \/ Select \/ Skip \/ Return

Spec == Init /\ [][Next]_vars

-----------------------------------------------------------------------------
Results == {selected[i].chunk : i \in DOMAIN selected}

TypeOK ==
  /\ stage \in {"fuse", "inject", "dedup", "mmr", "done"}
  /\ \A items \in {list, remaining, selected} : \A i \in DOMAIN items :
       items[i].chunk \in Chunks /\ items[i].score \in 0..(2 * Unit)
  /\ Len(selected) <= input.k /\ Cardinality(Results) = Len(selected)

(* Fusion respects the rankings where they agree: a chunk that precedes    *)
(* another in every ranking the other is in precedes it in the fusion, and *)
(* the limit drops the other first (retrieval.py:159-178).                 *)
FusionRespectsAgreement ==
  stage = "inject" \/ (stage = "mmr" /\ input.mode = "merge") =>
    \A a, b \in Chunks :
      LET ahead(lane) == Contains(lane, a) /\ RankIn(lane, a) < RankIn(lane, b)
          placeOf(c) == CHOOSE i \in DOMAIN list : list[i].chunk = c
      IN InList(b) /\ (\A l \in 1..2 : Contains(Lanes[l], b) => ahead(Lanes[l]))
           => InList(a) /\ (a # b => placeOf(a) < placeOf(b))

(* The results hold as many chunks as were asked for, or as many as the    *)
(* limit per document allows to be taken from the candidates: no document  *)
(* crowds out the others, and skipping a document at its limit leaves no   *)
(* slot unused (retrieval.py:194-213).                                     *)
SlotsFilled ==
  LET available(d) == Least(MaxPerDoc, Cardinality(OfDoc(list, d)))
      taken(d) == Cardinality(OfDoc(selected, d))
  IN stage = "done" =>
       \A d \in {Doc(c) : c \in Chunks} :
         /\ taken(d) <= available(d)
         /\ Len(selected) = input.k \/ (Len(selected) < input.k /\ taken(d) = available(d))

(* What two rankings can give a chunk at most is twice Reach.  What a match *)
(* has over another chunk in relevance is then more than diversity can     *)
(* take from it: so it is with mmr_lambda 0.7 and the constant 60.         *)
Reach == Unit \div (Constant + 1)

RelevanceOutweighs ==
  (10 - Lambda) * 40 * (Unit + 2 * Reach) < Lambda * 20 * (Unit - 2 * Reach)

(* Chunks that match an identifier of the query come before all others,    *)
(* however the rankings place them and however similar they are; and one   *)
(* is left out in favour of another chunk only if matches have filled its  *)
(* document's limit or taken its title (docs/ARCHITECTURE.md:47-51).       *)
IdentifierMatchesComeFirst ==
  stage = "done" /\ input.mode = "retrieve" =>
    \A i \in DOMAIN selected : selected[i].chunk \notin input.matches =>
      /\ \A j \in DOMAIN selected : j > i => selected[j].chunk \notin input.matches
      /\ \A c \in input.matches \ Results :
           LET rivals == Results \cap input.matches
           IN \/ Cardinality({r \in rivals : Doc(r) = Doc(c)}) >= MaxPerDoc
              \/ \E r \in rivals : Title(r) = Title(c) /\ Doc(r) # Doc(c)
=============================================================================
