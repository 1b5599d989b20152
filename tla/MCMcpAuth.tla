----------------------------- MODULE MCMcpAuth ------------------------------
(* Two users with keys of their own, and tokens that fail one check each.  *)
EXTENDS McpAuth

CONSTANTS k1, k2, alice, bob

MCToken(key, kid, fits, scoped, sub) ==
  [readable |-> TRUE, key |-> key, kid |-> kid, fits |-> fits, scoped |-> scoped, sub |-> sub]

MCTokens ==
  {MCToken(k1, k1, TRUE, TRUE, alice),
   MCToken(k2, k2, TRUE, TRUE, bob),
   MCToken(k2, None, TRUE, FALSE, None),
   [MCToken(k1, k1, TRUE, TRUE, alice) EXCEPT !.readable = FALSE]}

(* k2 is introduced and withdrawn beside k1, ahead of it. *)
MCKeySets == {<<k1>>, <<k2, k1>>}
=============================================================================
