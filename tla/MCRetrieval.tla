---------------------------- MODULE MCRetrieval -----------------------------
(* Four chunks of at most three documents.  The chunks may be named so     *)
(* that the first ranking is a prefix of their order; the second is any.   *)
EXTENDS Retrieval

ASSUME RelevanceAssumption == RelevanceOutweighs

Rankings == {r \in UNION {[1..n -> Chunks] : n \in 0..Cardinality(Chunks)} :
               \A i, j \in DOMAIN r : r[i] = r[j] => i = j}
FirstRankings == {[i \in 1..n |-> i] : n \in {0, 2, 4}}

MCInputs ==
  [mode : {"retrieve"}, lanes : {<<f, s>> : f \in FirstRankings, s \in Rankings},
   matches : SUBSET Chunks, k : {1, 3}]
  \cup
  [mode : {"merge"}, lanes : {<<f, s>> : f \in FirstRankings, s \in Rankings},
   matches : {{}}, k : {2, 4}]

(* One document; two; two that share a title; three. *)
MCCorpora ==
  {[doc |-> <<1, 1, 1, 1>>, title |-> <<1, 1, 1, 1>>],
   [doc |-> <<1, 2, 1, 1>>, title |-> <<1, 2, 1, 1>>],
   [doc |-> <<1, 2, 2, 1>>, title |-> <<1, 1, 1, 1>>],
   [doc |-> <<1, 2, 3, 1>>, title |-> <<1, 2, 1, 1>>]}

MCCosine == [p \in Chunks \X Chunks |->
               IF p[1] + p[2] = 5 THEN 20 ELSE IF p[1] + p[2] = 4 THEN -20 ELSE 10]
=============================================================================
