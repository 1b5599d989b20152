------------------------------ MODULE MCFiles -------------------------------
(* The two programs that write files in place and may be killed, checked   *)
(* together: a behaviour builds and serves an index, of two corpora of a   *)
(* few records or one with none, or runs the benchmark on three documents. *)
EXTENDS IndexStore, Evaluation

CONSTANTS c, d, none, e, f

VARIABLE program

MCSize == (c :> 2) @@ (d :> 1) @@ (none :> 0)

MCCorpus == <<d, e, f>>
MCArchives == {<<"corpus", "queries", "qrels">>, <<"qrels", "corpus", "queries">>}
MCDiscount == <<10, 6>>

FilesInit ==
  /\ Init /\ EvalInit /\ program \in {"index", "benchmark"}
  /\ program = "index" => embedder = "hash" /\ archive[1] = "corpus"
  /\ program = "benchmark" => corpus = none /\ mode = "off"

FilesNext ==
  /\ \/ program = "index" /\ Next /\ UNCHANGED evalVars
     \/ program = "benchmark" /\ EvalNext /\ UNCHANGED vars
  /\ UNCHANGED program

FilesSpec == FilesInit /\ [][FilesNext]_<<vars, evalVars, program>> /\ Fairness
=============================================================================
