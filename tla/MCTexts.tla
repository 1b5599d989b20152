------------------------------ MODULE MCTexts -------------------------------
(* The transformations of texts and URLs, checked together: a behaviour    *)
(* ingests a document, splits an answer, or leads a client to a token.     *)
EXTENDS Ingest, SlackRender, Discovery

MCWidth == [kind \in {"h1", "h2", "h3", "short", "long", "huge"} |->
             CASE kind = "short" -> 2 [] kind = "long" -> 6 [] kind = "huge" -> 16 [] OTHER -> 1]

Kinds == {"h1", "h2", "h3", "empty", "short", "long", "huge"}

(* Every document of at most five lines; one or two sections of four       *)
(* paragraphs; every nesting of seven headings.                            *)
MCDocuments ==
  UNION {[1..n -> Kinds] : n \in 0..5}
  \cup {<<"h1", "empty", p[1], "empty", p[2], "empty", "empty", p[3], h, p[4], "empty", p[5], p[6]>> :
          p \in [1..6 -> {"short", "long", "huge"}], h \in {"empty", "h2"}}
  \cup [1..7 -> {"h1", "h2", "h3"}]

(* Every answer of at most nine characters. *)
MCAnswers == UNION {[1..n -> {"visible", "blank", "newline"}] : n \in 0..9}

(* Unset, and with or without a path and a slash. *)
MCConfigured ==
  {Unset} \cup [origin : {"host"}, path : {<< >>, <<"mcp">>, <<"rag", "mcp">>}, slash : BOOLEAN]

NoDocument ==
  /\ document = << >> /\ pass = "done" /\ taken = 0
  /\ from = 1 /\ stack = {} /\ sections = << >> /\ pending = << >> /\ merged = << >>
  /\ left = {} /\ current = << >> /\ chunks = << >>
NoAnswer == answer = << >> /\ splitting = FALSE /\ remaining = << >> /\ parts = << >>
NoClient == settings = << >> /\ step = "none" /\ url = << >> /\ metadata = << >> /\ bearer = << >>

TextsInit ==
  \/ IngestInit /\ NoAnswer /\ NoClient
  \/ RenderInit /\ NoDocument /\ NoClient
  \/ DiscoveryInit /\ NoDocument /\ NoAnswer

TextsNext ==
  \/ IngestNext /\ UNCHANGED <<renderVars, discoveryVars>>
  \/ RenderNext /\ UNCHANGED <<ingestVars, discoveryVars>>
  \/ DiscoveryNext /\ UNCHANGED <<ingestVars, renderVars>>

TextsSpec == TextsInit /\ [][TextsNext]_<<ingestVars, renderVars, discoveryVars>>
=============================================================================
