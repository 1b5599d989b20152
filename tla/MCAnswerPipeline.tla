-------------------------- MODULE MCAnswerPipeline --------------------------
(* Who may ask: anonymous HTTP clients and an MCP user with a token.       *)
EXTENDS AnswerPipeline

CONSTANTS alice, q, hello, blank

MCAnonymous == {[surface |-> "http", principal |-> None]}
MCAudiences == MCAnonymous \cup {[surface |-> "mcp", principal |-> alice]}

(* The model labels and expands, no gate; the offline default, gated. *)
MCConfigurations ==
  {[router |-> TRUE, openai |-> TRUE, grounding |-> FALSE],
   [router |-> TRUE, openai |-> FALSE, grounding |-> TRUE]}
MCOpenAI == {[router |-> TRUE, openai |-> TRUE, grounding |-> TRUE]}

MCSimilar == {<<x, x>> : x \in Questions}
=============================================================================
