----------------------------- MODULE IndexStore -----------------------------
(***************************************************************************)
(* The index file and its manifest: scripts/build_index.py rewrites both   *)
(* in place, one after the other, and may be killed at any point; a        *)
(* service that starts meanwhile verifies the pair and then reads the      *)
(* index again (Retriever.__init__ in app/retrieval.py).                   *)
(*                                                                         *)
(* A file is a sequence of lines, a line the record of a corpus at a       *)
(* place; a flush of the writer's buffer may leave the last line torn.  A  *)
(* digest is the content it was computed from (no collisions).  One        *)
(* builder runs at a time; services do not affect one another, so there is *)
(* one of them.                                                            *)
(***************************************************************************)
EXTENDS Naturals, Sequences, SequencesExt

CONSTANTS
  Corpora, Size,  \* what can be built, and how many records each has
  Absent, Torn,   \* no file; a manifest that is not JSON yet
  MaxRuns     \* bound: how often the builder is started

ASSUME SizeAssumption == Size \in [Corpora -> Nat]
ASSUME MaxRunsAssumption == MaxRuns \in Nat

Record == [corpus : Corpora, number : Nat, whole : BOOLEAN]

(* No file is neither an empty one nor a torn one. *)
ASSUME AbsentAssumption == Absent \notin Seq(Record) \cup [digest : Seq(Record)] \cup {Torn}

VARIABLES
  index,      \* Absent or the lines on disk
  manifest,   \* Absent, Torn or [digest]
  step,       \* the builder: "idle", "writing", "hashed", "signing"
  corpus,     \* what it builds, or built last
  digest,     \* index_sha256, as computed
  completed,  \* history: the last run of the builder finished
  runs,
  mode,       \* INDEX_VERIFY; any other value is as "warn"
  at,         \* where the service is in its startup
  expected,   \* the digest it read from the manifest
  lines,      \* the lines it has loaded
  warned,     \* history: what it logged, "nothing", "unverified", "mismatch"
  disturbed   \* history: the index was written to during its startup

files == <<index, manifest>>
builderVars == <<step, corpus, digest, completed, runs>>
serviceVars == <<at, expected, lines, warned>>
vars == <<files, builderVars, mode, serviceVars, disturbed>>

Settled == {"down", "up", "failed"}

Line(c, n, whole) == [corpus |-> c, number |-> n, whole |-> whole]
Complete(c) == [n \in 1..Size[c] |-> Line(c, n, TRUE)]

(* Only the last line can be torn. *)
WholeLines == IF index # << >> /\ ~Last(index).whole THEN Front(index) ELSE index

Init ==
  /\ index = Absent /\ manifest = Absent
  /\ step = "idle" /\ corpus \in Corpora /\ digest = << >>
  /\ completed = FALSE /\ runs = 0
  /\ mode \in {"strict", "warn", "off"}
  /\ at = "down"
  /\ expected = << >>
  /\ lines = << >>
  /\ warned = "nothing"
  /\ disturbed = FALSE

-----------------------------------------------------------------------------
(* main and write_manifest of scripts/build_index.py                       *)

Disturb == disturbed' = (disturbed \/ at \notin Settled)

Opened == << >>

Build(c) ==
  /\ step = "idle" /\ runs < MaxRuns
  /\ runs' = runs + 1
  /\ corpus' = c
  /\ completed' = FALSE
  /\ index' = Opened
  /\ step' = "writing"
  /\ Disturb
  /\ UNCHANGED <<manifest, digest, mode, serviceVars>>

(* A flush completes the line in the buffer, or leaves it torn. *)
WriteRecord(whole) ==
  /\ step = "writing" /\ Len(WholeLines) < Size[corpus]
  /\ index' = Append(WholeLines, Line(corpus, Len(WholeLines) + 1, whole))
  /\ Disturb
  /\ UNCHANGED <<manifest, builderVars, mode, serviceVars>>

(* Slip: the handle is still open, and nothing says that all was flushed. *)
WrittenUnflushed == TRUE

Written == Len(WholeLines) = Size[corpus]

(* Slip: the last line is still in the buffer when the file is hashed. *)
DigestBeforeFlush == SubSeq(index, 1, Len(index) - 1)

DigestOfFile == index

HashIndex ==
  /\ step = "writing" /\ Written
  /\ digest' = DigestOfFile
  /\ step' = "hashed"
  /\ UNCHANGED <<files, corpus, completed, runs, mode, serviceVars, disturbed>>

OpenManifest ==
  /\ step = "hashed"
  /\ manifest' = Torn
  /\ step' = "signing"
  /\ UNCHANGED <<index, corpus, digest, completed, runs, mode, serviceVars, disturbed>>

WriteManifest ==
  /\ step = "signing"
  /\ manifest' = [digest |-> digest]
  /\ completed' = TRUE
  /\ step' = "idle"
  /\ UNCHANGED <<index, corpus, digest, runs, mode, serviceVars, disturbed>>

Killed ==
  /\ step # "idle"
  /\ step' = "idle"
  /\ UNCHANGED <<files, corpus, digest, completed, runs, mode, serviceVars, disturbed>>

Builder ==
  \/ \E c \in Corpora : Build(c)
  \/ \E whole \in BOOLEAN : WriteRecord(whole)
  \/ HashIndex \/ OpenManifest \/ WriteManifest

-----------------------------------------------------------------------------
(* verify_index_integrity and _load_index                                  *)

Elsewhere == UNCHANGED <<files, builderVars, mode, disturbed>>

Start ==
  /\ at \in Settled
  /\ at' = IF mode = "off" THEN "open" ELSE "exists"
  /\ expected' = << >>
  /\ lines' = << >>
  /\ warned' = "nothing"
  /\ disturbed' = FALSE
  /\ UNCHANGED <<files, builderVars, mode>>

(* A missing manifest is logged and tolerated; a missing index has nothing *)
(* to be verified.                                                         *)
CheckPresence ==
  /\ at = "exists"
  /\ IF manifest = Absent
     THEN warned' = "unverified" /\ at' = "open"
     ELSE UNCHANGED warned /\ at' = (IF index = Absent THEN "open" ELSE "parse")
  /\ UNCHANGED <<expected, lines>> /\ Elsewhere

Complain ==
  IF mode = "strict"
  THEN at' = "failed" /\ UNCHANGED warned
  ELSE at' = "open" /\ warned' = "mismatch"

ReadManifest ==
  /\ at = "parse"
  /\ IF manifest = Torn
     THEN Complain /\ UNCHANGED expected
     ELSE /\ expected' = manifest.digest
          /\ at' = "hash" /\ UNCHANGED warned
  /\ UNCHANGED lines /\ Elsewhere

CompareDigests ==
  /\ at = "hash"
  /\ IF index = expected THEN at' = "open" /\ UNCHANGED warned ELSE Complain
  /\ UNCHANGED <<expected, lines>> /\ Elsewhere

OpenIndex ==
  /\ at = "open"
  /\ at' = IF index = Absent THEN "up" ELSE "load"
  /\ UNCHANGED <<expected, lines, warned>> /\ Elsewhere

AtEnd == Len(lines) >= Len(index)
NextLine == index[Len(lines) + 1]

(* A torn line parses if only its newline is missing. *)
LoadLine ==
  /\ at = "load" /\ ~AtEnd
  /\ lines' = Append(lines, [NextLine EXCEPT !.whole = TRUE])
  /\ UNCHANGED <<at, expected, warned>> /\ Elsewhere

(* json.loads raises: the line is torn, or the file was rewritten since    *)
(* the last line and the reader is in the middle of another one.           *)
LineFails ==
  /\ at = "load" /\ ~AtEnd
  /\ \/ ~NextLine.whole
     \/ lines # << >> /\ Last(lines).corpus # NextLine.corpus
  /\ at' = "failed"
  /\ UNCHANGED <<expected, lines, warned>> /\ Elsewhere

EndOfFile ==
  /\ at = "load" /\ AtEnd
  /\ at' = "up"
  /\ UNCHANGED <<expected, lines, warned>> /\ Elsewhere

Startup ==
  \/ CheckPresence \/ ReadManifest \/ CompareDigests
  \/ OpenIndex \/ LoadLine \/ LineFails \/ EndOfFile

-----------------------------------------------------------------------------
Next == Builder \/ Killed \/ Start \/ Startup

(* A started process goes through its startup, and one that failed is      *)
(* started again (by its supervisor; external).  Nothing is assumed of the *)
(* builder.                                                                *)
Fairness == WF_vars(Startup) /\ WF_vars(at = "failed" /\ Start)

Spec == Init /\ [][Next]_vars /\ Fairness

-----------------------------------------------------------------------------
(* The index on disk is always a part of one build.                        *)
TypeOK ==
  /\ index # Absent => \A i \in DOMAIN index :
       index[i].corpus = corpus /\ index[i].number = i /\ i <= Size[corpus]
  /\ manifest \in {Absent, Torn} \/ \E c \in Corpora : manifest.digest = Complete(c)
  /\ step \in {"idle", "writing", "hashed", "signing"}
  /\ at \in Settled \cup {"exists", "parse", "hash", "open", "load"}
  /\ warned \in {"nothing", "unverified", "mismatch"}

(* A service that verifies its index and serves anything but a complete    *)
(* build has logged so, wherever the builder was killed; in strict mode it *)
(* does so only for want of a manifest.  The index must not be written to  *)
(* between the check and the load, which read it twice (retrieval.py:229). *)
IncompleteIsNeverSilent ==
  at = "up" /\ mode # "off" /\ ~disturbed =>
    \/ \E c \in Corpora : lines = Complete(c)
    \/ warned = "unverified"
    \/ warned = "mismatch" /\ mode = "warn"

(* Whatever was interrupted before, running the builder to its end brings  *)
(* back a service that refuses the index (build_index.py:94-106).          *)
RebuildRestoresService ==
  at = "failed" /\ runs = MaxRuns /\ step = "idle" /\ completed ~> at = "up"
=============================================================================
