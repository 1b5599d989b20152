-------------------------- MODULE MCSemanticCache ---------------------------
(* Two threads; alice asks two near-identical questions (above the         *)
(* threshold, below an exact match) and an unrelated one, bob one of the   *)
(* two.                                                                    *)
EXTENDS SemanticCache, TLC

CONSTANTS alice, bob, v1, v2, v3

MCScore == [p \in Vectors \X Vectors |->
              IF p[1] = p[2] THEN 100 ELSE IF v3 \in {p[1], p[2]} THEN 20 ELSE 98]

MCQuestions == [vec : Vectors, scope : {alice}] \cup [vec : {v1}, scope : {bob}]

Symmetric == Permutations(Threads)
=============================================================================
