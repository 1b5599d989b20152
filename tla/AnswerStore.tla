---------------------------- MODULE AnswerStore -----------------------------
(***************************************************************************)
(* What the rest of the service may assume of the semantic cache           *)
(* (app/cache.py): a bounded set of answers, each under one scope, from    *)
(* which a question gets an answer of its own scope or nothing.  A miss    *)
(* means that nothing kept under the scope is similar enough, at one       *)
(* instant between the question and its reply.  Answers may be forgotten   *)
(* at any time (they expire), and one is pushed out only by a full store.  *)
(*                                                                         *)
(* SemanticCache implements this module; AnswerPipeline is built on it.    *)
(***************************************************************************)
EXTENDS Integers, FiniteSets

CONSTANTS
  Clients,      \* threads that use the store
  Vectors,      \* question embeddings, as far as similarity tells them apart
  Scopes,       \* cache scopes
  Answers,      \* answer text and the evidence stored with it
  Similar,      \* the pairs of embeddings at or above the threshold
  MaxEntries    \* the capacity, at least 1

VARIABLES
  kept,         \* the entries in the store
  lookup        \* per client: NoQuery, the question it looks up, or the reply

vars == <<kept, lookup>>

Entry == [vec : Vectors, scope : Scopes, answer : Answers]
Query == [vec : Vectors, scope : Scopes]
NoQuery == [scope |-> "none"]
NoEntry == [answer |-> "none"]

Init ==
  /\ kept = {}
  /\ lookup = [c \in Clients |-> NoQuery]

(* The kept entries that may be served to a question. *)
Servable(q) == {e \in kept : e.scope = q.scope /\ <<q.vec, e.vec>> \in Similar}

(* A lookup: the question, then one instant at which it hits or misses,    *)
(* then the client is done with the reply.                                 *)
Ask(c, q) ==
  /\ lookup[c] = NoQuery
  /\ lookup' = [lookup EXCEPT ![c] = q]
  /\ UNCHANGED kept

Hit(c, e) ==
  /\ lookup[c] \in Query
  /\ e \in Servable(lookup[c])
  /\ lookup' = [lookup EXCEPT ![c] = e]
  /\ UNCHANGED kept

Miss(c) ==
  /\ lookup[c] \in Query
  /\ Servable(lookup[c]) = {}
  /\ lookup' = [lookup EXCEPT ![c] = NoEntry]
  /\ UNCHANGED kept

Consume(c) ==
  /\ lookup[c] \in Entry \cup {NoEntry}
  /\ lookup' = [lookup EXCEPT ![c] = NoQuery]
  /\ UNCHANGED kept

(* An insertion pushes another entry out of a full store, and only then. *)
Keep(e) ==
  /\ LET all == kept \cup {e}
     IN IF Cardinality(all) <= MaxEntries
        THEN kept' = all
        ELSE \E out \in kept \ {e} : kept' = all \ {out}
  /\ UNCHANGED lookup

(* Entries expire, in any number. *)
Forget(gone) == kept' = kept \ gone /\ UNCHANGED lookup

Next ==
  \/ \E c \in Clients :
       \/ Miss(c) \/ Consume(c)
       \/ \E e \in kept : Hit(c, e)
       \/ \E q \in Query : Ask(c, q)
  \/ \E gone \in SUBSET kept : Forget(gone)
  \/ \E e \in Entry : Keep(e)

Spec == Init /\ [][Next]_vars
=============================================================================
