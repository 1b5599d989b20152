# Verification of grounded-rag-service

This directory holds TLA+ models of the parts of the service that share state
between requests, the TLC configurations that check them, and proofs that TLAPS
checks for every value of their constants. Sources are named relative to the
repository's root (`app/resilience.py`).

## The system

The service answers questions from a corpus: a FastAPI application (`app/main.py`)
runs the synchronous handlers of `/v1` in a thread pool, an MCP server
(`app/mcp_server.py`) offers the same as tools, and adapters (`app/channels/`) bring
questions from chat platforms. All surfaces call one pipeline with one set of
dependencies (`app/deps.py`), so the state below is shared by concurrent threads.

| Component | Source | State it keeps | Operations |
| --- | --- | --- | --- |
| circuit breaker | `app/resilience.py` | state, failure count, opening time, under a lock | call / context manager: admit, probe, refuse, record |
| semantic cache | `app/cache.py` | ordered entries with scope and age, key counter, under a lock | get (three critical sections), set, expire; load/persist when given a path |
| answer pipeline | `app/pipeline.py`, `router.py`, `llm.py`, `grounding.py` | none of its own; a request in progress | embed, look up, route, expand, retrieve, generate, judge, regenerate, store |
| rate limiter | `app/ratelimit.py` | buckets in least-recently-used order, under a lock | allow |
| HTTP API | `app/main.py` | the application's state: dependencies, limiter, feedback store | ask, search, feedback; bearer check, rate limit, cache scope |
| MCP server, MCP authentication | `app/mcp_server.py`, `app/mcp_auth.py` | the JWKS cache; the current claims, per request | tools; verify a token, refetch keys |
| Slack adapter | `app/channels/slack.py` | the set of seen event ids, a breaker of its own, background tasks | events and interactions webhooks, process_event |
| Slack rendering | `app/channels/slack_render.py` | none | split an answer into blocks |
| retrieval | `app/retrieval.py` | the loaded index, never changed | rank, fuse, inject identifiers, deduplicate, MMR; verify and load the index |
| index build | `scripts/build_index.py`, `app/ingest.py` | the index file and its manifest | chunk, embed, write both files |
| benchmark | `scripts/eval_beir.py` | the unpacked dataset, the embeddings per embedder | download, unpack, embed, index, score |
| feedback, audit | `app/feedback.py`, `app/audit.py` | a table that is only appended to; a log, a fallback key | record, emit |
| wiring | `app/deps.py`, `registry.py`, `interfaces.py`, `config.py`, `providers.py` | none after startup | resolve names, build objects |

Interactions. Every provider call of the pipeline goes through the one circuit
breaker; every request asks the one cache before it does anything else and stores
its answer at the end; the caller's identity reaches the cache only as a scope
string. The Slack adapter calls the core through a callable and Slack through a
second breaker.

What is hard: results recorded in a breaker out of order; a cache lookup whose steps
interleave with insertions and evictions; a cache hit that bypasses retrieval and
must not cross identities; a grounding verdict that must belong to the text it is
delivered with; a webhook whose deliveries are repeated, reordered and lost; a clock
that is set back; signing keys that rotate while a cached set is in use; identities carried
in a context variable; files rewritten while they are read, or left half-written. `PROJECT.json` lists these
hazards line by line.

## The modules

| Module | Models | Built on |
| --- | --- | --- |
| `CircuitBreaker` | `app/resilience.py` | |
| `AnswerStore` | what the service may assume of the answer cache (abstract) | |
| `SemanticCache` | `app/cache.py`, get and set | implements `AnswerStore` |
| `AnswerPipeline` | `app/pipeline.py` with routing, expansion, generation, the gate, cache scopes | `CircuitBreaker`, `AnswerStore` |
| `RateLimiter` | `app/ratelimit.py` | |
| `RequestGate` | the dependencies in front of `/v1` in `app/main.py` | implements `RateLimiter` |
| `McpAuth` | `app/mcp_auth.py`, the tools of `app/mcp_server.py`, their records of `app/audit.py` | |
| `Discovery` | resource URL, challenge and metadata of `app/mcp_auth.py`, `app/mcp_server.py` | |
| `SlackAdapter` | `app/channels/slack.py` | `CircuitBreaker` |
| `SlackRender` | `_split_text` of `app/channels/slack_render.py` | |
| `Retrieval` | fusion, identifier matches, deduplication, MMR of `app/retrieval.py` | |
| `Ingest` | sections and chunks of `app/ingest.py` | |
| `IndexStore` | `scripts/build_index.py` and the load in `app/retrieval.py` | |
| `Evaluation` | `scripts/eval_beir.py` | |
| `CircuitBreakerProofs`, `SemanticCacheProofs`, `PipelineProofs`, `RetrievalProofs` | theorems | the modules they are named for |
| `RateLimiterProofs` | theorems about the limiter and the gate | `RequestGate`, and with it `RateLimiter` |
| `McpAuthProofs` | theorems about the MCP surface | `McpAuth`, `Discovery` |
| `SlackProofs` | theorems about Slack | `SlackAdapter`, `SlackRender` |
| `FilesProofs` | theorems about files written in place, and about what goes into them | `IndexStore`, `Evaluation`, `Ingest` |

`MC*` modules give the constants their values; `MCTexts` and `MCFiles` also join
modules that share nothing, so that one run checks them side by side. In every module, operators whose
comment begins with "Slip:" are not part of the model: each is a plausible mistake in
the definition below it, and `PROJECT.json` ("mutants") says which property notices
when it is put in that definition's place.

### CircuitBreaker

`CircuitBreaker.call` and the context manager take the lock three times: before the
call, and after it on success or on failure. Each critical section is an action
(`Admit`, `Probe`, `Refuse`; `Succeed`, `Fail`), and between the first and the last the
caller is in `inCall`, where others interleave with it. `opened_at` is kept as the time
since it (`openedFor`), saturating at the cooldown, which is all the code compares; that
makes the state space finite without a bound on time. `failureCount` stays within the threshold plus the
number of callers. History: the run of failures as recorded, and the time since the
last of them.

### SemanticCache and AnswerStore

`get` reads the clock, takes the lock to expire entries, takes it again to copy its
scope's entries, and scores the copy without it: `Get`, `EvictExpired`, `Snapshot`,
`ScoreCandidates`. `set` is one section. An entry's key is the number in `e<n>`.
`AnswerStore` has a bounded set of entries and a lookup with one instant at which it
hits or misses; under the refinement mapping that instant is the copy, and what the
copy will score is what the lookup then holds. The pipeline is built on `AnswerStore`,
so that its state space holds no keys or clock.

### AnswerPipeline

`stage` says where a request is in `answer_question`. A provider call is two steps,
`Enter` (the breaker's `Admit` or `Probe`) and the step that returns or `Raises`; a
refusal ends the request. Everything between two calls that touches no shared state
(retrieval, fusion, selection, citations) is in the step it precedes. Texts are
reduced to which prompt produced them, and an answer records who asked for it, with
which history, and which text the verdict in hand was given to. `CacheScope` is
`cache_scope_for` on HTTP, `mcp:<subject>` on MCP and the default for Slack. Judging is a
local step: `grounding_judge=llm` calls its provider outside the breaker and turns
its errors into a score of 0.

### RateLimiter

`allow` runs whole under the lock: one step, `Allow` or `Deny`. Tokens are counted in
units of 1/`Window` of a token, so that the model is exact where the code uses floats:
rounding of the floats themselves is not modelled. The clock may be set back.

### RequestGate

The dependencies of the `/v1` router in their order: the bearer (`Authorized`), the limiter
under the key of `rate_limit_key` (`Bucket`: the principal of a verified bearer, else the
host), the length of the question (`ReachesProvider`). A refused bearer changes nothing, so a
401 has no action. `provided` counts the handlers of a protected service that reached a
provider: a question that is too long has been charged and reaches none.
The limiter is taken to be enabled.

### McpAuth

The middleware verifies on the event loop and fetches the JWKS there with a blocking
client, so a verification is one step (`VerifyCached`), or the two ends of a fetch (`Fetch`, then
`FetchAnswered` or `FetchFailed`), between which no other request begins or ends. What the
provider answers with are the keys of that instant (`ProviderAnswers`, external); they may be
overtaken by a rotation, or the clock, on their way. Tools run in worker threads and interleave with everything: `CallTool` notes the caller for the
audit record, `ToolEnds` asks again for the cache scope and leaves the records, two for the
alias `search_docs`. A token says which of the checks it passes. Times are ages; the age of
the cached set is that of the time read before the fetch, as in the code. `changed` is history:
the keys that changed while the answer was on its way. That a tool reads
the context of its own request is what the code's docstring says of the SDK (external); the
mutant `SharedContext` shows what depends on it. Verifiers with pinned keys never fetch
and are left out.

### Discovery

One client and one deployment: how the resource URL is written, mounted or standalone, the
mode, an overridden audience, required scopes. The client calls, follows the challenge (or
tries the bare path first), has a token issued for what the document says, and calls
again.

### SlackAdapter

`slack_events` does not await between reading the body and returning, so a delivery is
one step; `process_event` awaits three times, so a task is `post`, `ask`, `edit`, with
the breaker entered before and left after each Slack call. An original is answered without a
look at the set of seen events, as in the code; only retries are looked up. The platform, which sends,
repeats and loses deliveries and acknowledgements, is external.

### SlackRender

A text is visible characters, blanks and newlines; `CutPart` and `LastPart` are the turns of
the loop in `_split_text`, with `lstrip` between them. Parts hold positions of the answer,
so that what is lost, repeated or moved shows.

### Retrieval

`Retriever.retrieve` is `Fuse`, `Inject`, one `Keep` per turn of `_dedup`'s loop,
`Deduplicated`, then one `Select` or `Skip` per turn of MMR's loop. `answer_question` fuses the lists of its phrasings and selects again; that
is the same code with other limits (`mode = "merge"`). A score of 1.0 is an integer
divisible by every 60 + rank, so that ties are ties. The rankings are inputs.

### Ingest

A line is a heading of a level, empty, or text of a size. A step is a round of one of the
loops: `ReadText` and `ReadHeading` of `read_sections`, `MergeSection` of
`merge_tiny_sections`, `KeepSection` or `BeginSplit` and one `AddParagraph` per paragraph of
`chunk_section`; `EndRead`, `EndMerge` and `EndSplit` are what follows the loops. All
sections are merged before one is split, and a document is loaded by itself. A text is a
sequence of runs of the document's lines, with an empty line between two: what `strip` and
`split` leave of a text is where its runs begin and end, and its length is counted character by
character (`Places`). Titles, slugs, identifiers and lines of white space only are left out.

### IndexStore

A file is the sequence of its lines; the builder truncates it, appends (a flush may
tear the last line), hashes what is on disk, truncates the manifest, writes it, and may
be killed between any two of these. A service checks, hashes and then loads the
file again line by line, while the builder may be at work. Digests do not collide.
Services have no effect on one another or on the files, so one of them stands for all.

### Evaluation

Runs follow one another; a run goes through `main` step by step and may be killed at any.
A killed writer leaves a prefix of its lines, perhaps with a torn one: of the archive, of any
member of the dataset (those before it whole, those after it as they were), of the cached
embeddings. The user may remove the dataset. The ranking of one query is any sequence of
indexed documents and its labels are any grades: nDCG, recall and MRR are operators
on the two. The discounts 1 / log2(rank + 1) are integers that fall in the same order.

## What is checked

| Run | Question | Instance, and why it is enough |
| --- | --- | --- |
| `breaker` | open exactly on a run of failures; half-open has its probe; no admission within a cooldown; recovery closes; an outage opens | 3 callers: a probe, a call left from before the opening, and a newcomer overlap. Threshold 2, cooldown 2 ticks: below, at and past each. No bound on behaviours |
| `cache` | scope isolation, freshness, bound, nothing lost early, no missed hit, refinement of `AnswerStore` | 2 threads, 2 scopes, 3 vectors (two similar), room for 2 entries, 3 insertions, 2 ticks with a lifetime of 1: an insertion, an eviction and an expiry can each fall between the steps of a lookup |
| `pipeline` | the caveat is on exactly the answers that failed the gate; no answer crosses audiences; the breaker is driven right and told of every call; requests end | 2 concurrent requests of 2 audiences, with labels and expansion or behind the gate, a question of each kind, cache of 1 (so that hits and evictions compete), threshold 1 (so that one failure opens), no bound on behaviours |
| `gate` | rate bound, honesty of Retry-After, which keys are kept, one rate for all holders of the bearer | 3 hosts with room for 2 keys, an open and a protected service; capacity 2, window 3, so that quotients have remainders; clock set back once |
| `mcp` | a withdrawn key dies with the cache; refusals have a cause; a new key comes into use; calls are recorded and cached under their own caller | 2 connections, 2 keys with one user each, a token without the scopes, one without a key id, one that cannot be read; lifetime of 2 ticks, clock set back once; the provider rotates, also while its answer is on the way, and fails without bound |
| `slack` | retries answered once, acknowledged means started, breaker driven right and told of every call, tasks end | one event, of any kind, with up to 3 deliveries in any order and losses; memory and signatures last one tick of three, so both expire between deliveries |
| `retrieval` | fusion agrees with the rankings, slots filled within the cap, identifier matches first | every second ranking of 4 chunks against a first one, every set of matches, 4 corpora (one to three documents, shared titles), limits smaller than the lists |
| `files` | an incomplete index is never served silently, a completed build restores the service; a benchmark scores all documents by its own embedder's vectors, unless it found an unpacking that was killed, and its metrics are sound | 4 builds of any of 3 corpora (one empty), killed anywhere, a service in each mode started at any moment. Benchmark: 3 documents, 2 embedders, 2 killed runs, two orders of the archive; depth 2, so that labels and rankings are longer and shorter than it |
| `texts` | chunking loses, reorders and misplaces nothing and keeps its size; blocks carry the answer; discovery leads to acceptance | every document of 5 lines, 2 sections of 6 paragraphs (overlaps that chain), every nesting of 7 headings; every answer of 9 characters at a limit of 4; every deployment with seven spellings of the URL |

Three runs check what the repository says of itself and find that the code does not do
it (`PROJECT.json`, "findings"):

| Run | What the repository says | What happens |
| --- | --- | --- |
| `breaker_stale` | while a probe is in flight everyone else keeps failing fast (`app/resilience.py:70-71`) | a result of a call admitted before the opening is taken for the probe's: it closes or reopens the breaker, and others get in before the probe resolves |
| `pipeline_outage` | a provider outage opens the breaker (`docs/ARCHITECTURE.md:136-138`) | with the generator down and the embedder up, every request's embedding resets the shared count |
| `pipeline_history` | history must reach the model (`tests/test_history.py:1`) | a cache hit ignores the request's history and replays an answer made with another's |

The type invariants of `CircuitBreaker`, `AnswerPipeline`, `RateLimiter`, `SlackAdapter`,
`Retrieval` and `IndexStore` are proved and not run.

Smaller observations that no run shows.
Index: in strict mode a first build that was killed leaves no manifest, and the torn or
partial index is then loaded with a log line only, because a missing manifest is tolerated
(`IncompleteIsNeverSilent` allows it as "unverified"); an index rewritten between the check
and the load is served unverified (its premise excludes it).
Ingest: a merged section takes its successor's heading path (`CitedUnderItsHeadings` says
which); the overlap is added without being measured, so a chunk may exceed its target by
that and a short paragraph may be repeated whole.
Slack: when the core or the edit fails, the placeholder stays, although
`app/channels/slack.py:38-39` promises an edit; a feedback click sends a message timestamp
where the API expects an answer's id; an empty answer is one empty block; an original that arrives
after its own retry is answered a second time, because only retries are looked up in the set
of seen events (`app/channels/slack.py:122-125`; the documentation speaks of retries only).
MCP: `canonical_resource_url` says that it always includes the MCP path, and keeps another
path when one is configured; mode "off" with required scopes refuses every call with a
challenge for a document that a mounted server does not register.
Benchmark: `corpus.jsonl` stands for the whole dataset, so an unpacking that was killed after
it is used as it is, and a short corpus is scored without a word (`ScoredByItsOwnVectors`
excludes it); a torn archive, dataset or cache fails every run until a person removes it;
cached vectors are matched by the ids of documents, not by their texts.

### Fairness

Safety runs need none. `breaker`: the clock runs, a guarded call ends (client
timeouts), and callers keep coming; the last is an assumption on demand, needed because
only a caller takes the breaker out of "open". `pipeline`: a worker thread keeps running
its request, and provider calls end; nothing is assumed of the clock or of other requests.
`pipeline_outage` adds that requests keep arriving and the clock runs, so that the
counterexample is not mere silence. `slack`: the event loop runs its tasks and calls end
(10 s timeout); nothing is assumed of the platform. `files`: a startup proceeds, and a
service that failed is started again; nothing is assumed of the builder or the
benchmark. `mcp`: the clock runs, nothing else; that the provider answers and a key stays
published are premises of `KeysComeIntoUse`. All are weak fairness.

Deadlock is checked except in `retrieval` and `texts`, which end, and in `slack`, where the
platform has sent all it will and the clock has reached its bound.

## What is proved

TLAPS checks these for every value of the constants that satisfies the modules' ASSUMEs,
which say what the constants are (`ScoreAssumption`, `InputsAssumption`, ...), that lengths and
limits are natural numbers (`BoundsAssumption`, `LimitsAssumption`, ...) and that an absent
thing is none of the present ones (`AbsentAssumption`). One theorem has a hypothesis besides
them, named below. 33 of the 40 properties of the passing runs are theorems; every
inductive invariant was checked by TLC before it was proved.

`CircuitBreakerProofs` (any set of callers, any threshold and cooldown): `TypeCorrect`,
`OpensOnFailureRun`, `NeverStranded`, and the action property `FailsFast`. None of them is
inductive alone. The inductive invariant `IInv` adds that in "closed" the count equals
the run of failures, below the threshold (`ClosedCountsTheRun`), without which a count out
of step with the run could open early; and that in "open" the stamp is as old as the
last failure (`OpenStampsLastFailure`), without which the cooldown could have begun
before it.

`SemanticCacheProofs` (any threads, scopes, similarities, capacity, lifetime): `TypeCorrect`
(with the bound on entries), `ScopesIsolated`, `ServedFresh`, `KeptUntilDue`, `NoHitMissed`, and
`CacheImplementsStore`, the refinement of `AnswerStore`. A lookup gives the lock back twice,
so what it returns is known only through what it holds at each stage: `LookupWell` says for
each stage which entries it may hold and which it must (all fresh ones of its scope that
are as old as the lookup), although others were stored, expired or evicted meanwhile; `SharedWell`
ties the live keys to the history of insertions. `KeptUntilDue` needs that no thread's
clock reading is ahead of the clock, for a lookup evicts by the time it read.
In the refinement the copy is the store's `Hit` or `Miss` (`SnapshotAnswers`), an expiry its
`Forget`, an insertion with the evictions it causes its `Keep`, and scoring a stutter.

`PipelineProofs` (any requests, origins, questions, similarity, capacity):
`PipelineImplementsBreaker` maps every step of the pipeline to a step of the breaker or a
stutter, so the breaker's theorems hold in the pipeline. The breaker's specification is one of
safety: it lets a caller leave only with a recorded result, but would also let it stay in for
ever. So `ImplementsBreaker` says in its second part, `CallsAreRecorded`, that a request which goes
on, or ends, has no call left in the breaker. `AudiencesSeparate` and
`CaveatIsHonest` speak of delivered answers; the invariant ties every stage to what its
request holds (`Fit`) and says of every cached entry that it is honest and stored under
its maker's scope (`KeptFits`). That scopes separate audiences is the lemma
`ScopesSeparate`; it rests on `OriginsAssumption` (HTTP knows one principal, Slack none).
With `CacheImplementsStore`, what is proved over the abstract store holds over the cache.

`RateLimiterProofs` (any keys, capacity, window, clock): `RateBounded` needs `RateBalance`,
what a bucket holds, will be given and has spent never exceeds what it was given;
`RetryHonoured` needs `PromiseFunded`, what it holds and what arrives by the promised
instant buys a call. `MostRecentKept` needs that the order in which the buckets stand is the
end of the order in which the keys last called (`RecentOrder`). `GateImplementsLimiter` maps
every step of the gate to one of the limiter or a
stutter, so the limiter's theorems hold behind it. `OneRateForTheBearer` bounds what
all holders of the bearer spend together, from the invariant `Account`: a protected limiter
tracks no bucket but the bearer's, so it is never evicted and has counted every call since
the service started.

`McpAuthProofs` (any connections, tokens, key sets, tools and lifetimes): `TypeCorrect`,
`WithdrawnKeysDie`, `RefusalsHaveCause`, `CallsKeepTheirNames`. The first two actions speak of
keys that changed since the set in hand was fetched; the invariant `CacheTracksProvider` says
that a key whose standing differs between the cached and the published set changed no longer
ago than the set's age, by a clock that may have been set back. It holds when a fetch ends because
of `ResponseTracksProvider`: keys on their way differ from the published ones only where these
changed since the answer, and so since the time the set will be stamped with. `HeldBy` follows a call
from its token through the context variable to its record and its scope. `ClientsGetIn` (any
spelling of the resource URL) rests on the lemma that the canonical URL has a path, so that
the document a challenge names is one that is served.

`SlackProofs`: `SlackImplementsBreaker` (the adapter drives its breaker as `CircuitBreaker` says, and
no task goes on with a call of its own unrecorded, which needs that only a task in a Slack call is
in the breaker, `CallsWell`);
`RetriesOnce` and `AcknowledgedStarted` (any events, retries, lifetimes). `RetriesOnce` is about retries and says nothing of an original
that comes after one. The promise speaks of starts in
the past, the code looks at its set of seen events: `LeaderIsSeen` (within the TTL of a task that
leads, its event is in the set) and `SeenIsAStart` (what is in the set was put there by a task's
start) tie the two; `NetworkWell` says that no delivery can start twice, because the platform
numbers its retries. `BlocksAreTheAnswer` (any answer, limit and least size) needs that
what is left is always an end of the answer, with everything visible before it in the
parts, in order (`SplitSoFar`).

`FilesProofs`: `ScoresAreItsOwn` (any corpus, archive, embedders, number of killed runs).
The invariant constrains what a run may find on disk: the rows of a cache hold the vectors of
its own embedder, however many were written (`CacheHonest`), and without a killed unpacking
the corpus is whole or missing (`DatasetWhole`); what a run reads and accepts follows
(`DocsRead`, `VectorsMade`). `RecallAndRankSound` (any labels, ranking and depth) is the other part
of `MetricsAreSound`, `HitsAreSound`, about the metrics that count hits: a swap over the cut at `Depth`
is the case that matters, where a labelled document enters and at most one leaves. `TypeCorrect` and `NeverSilentlyIncomplete` (any corpora, any number of killed builds):
a manifest names a complete build (`ManifestWell`), which holds only because the builder
hashes what is on disk after the last line; and a service that has compared the digests
reads that same build while nobody writes (`LoadsWhatItChecked`).
`NothingLostInChunking`, `ChunksWithinTarget` and `CitedRightly` (any document, line widths, target,
minimum and overlap) are about the end of four loops; the invariant `IngestInv` says of every
round that the texts made so far carry the document's lines, in order, up to where the loop is,
and that what is open goes on from there. `ReadInv` ties the stack of headings, a thing of the
reading's history, to the headings a line stands under by their levels alone (`Enclosing`).
`WellPlaced` says of a merged section that each run but the last was a small section of the
document, which is why a chunk of it may be cited under a later one's headings. `Filling`, of
the chunk being split off, adds what the target does not bound: one paragraph, or one after a
repeated one, which reaches back to where the chunk before ended. That paragraphs and their
first lines exist is induction on line numbers, in the form that a set of numbers has a least
one (`LeastElement`).

`RetrievalProofs` (any number of chunks, rankings, similarities and limits): `TypeCorrect`,
`AgreementRespected`, `NoSlotLost`, `MatchesFirst`. Everything that is sorted goes through `Arranged`,
whose lemma `Arrangement` is proved by counting. `AgreementRespected` compares the sums of two
lanes' quotients (`AgreedScoresMore`); a sort that kept equals in another order would break it.
`NoSlotLost` is about the end of the selection and needs the balance `SlotsAccountedFor` at each
turn: what a document has lost from the candidates is in the results, unless it has reached its
limit. `MatchesFirst` needs why each match was dropped by `_dedup` (`MatchesKept`) and that nothing
but matches is selected while one remains (`MatchesSelected`): the limit per document cannot bind
after `_dedup`, and a match is worth more than any other chunk. The last is the theorem's
hypothesis `RelevanceOutweighs`, a bound on `mmr_lambda` and the constant of the fusion: it holds
for the defaults, 0.7 and 60, and for the instance that TLC checks
(`RelevanceAssumption` of `MCRetrieval`); with a lower `mmr_lambda` diversity may put
another chunk before a match.

Only model-checked:

- liveness, which is beyond the prover: `RecoveryCloses`, `OutageOpens`, `EveryRequestEnds`,
  `TasksEnd`, `KeysComeIntoUse`, `RebuildRestoresService`;
- `GainIsSound`, what `MetricsAreSound` of `Evaluation` says of nDCG: gains are powers of two, of
  which the provers know nothing, and nDCG is a quotient of sums over rankings, one of them
  sorted, which takes an induction over data.

## What is not modelled

Providers, prompts, BM25 and cosine arithmetic, the wording of answers and reports, and
configuration are pure or external. The feedback store is an append-only table behind one
lock, and the `rag.ask` record one call after the pipeline: neither has an interleaving
to check. The other scripts and the examples have no state of their own. The cache's `_persist` and `_load` run in no configuration of the service
(`app/deps.py` gives it no path). Crashes of the service lose only memory, and the
modules start from empty memory; the Slack task lost that way is listed as a hazard.
Interrupts (`BaseException`) inside a guarded call are not modelled: worker threads
receive none. `PROJECT.json` gives the reason for each component left out.

## Plan

The order was: the breaker, because every provider call depends on it; the cache and its
abstraction; the pipeline that composes the two; the limiter; the Slack adapter, which
has the distributed behaviour; retrieval and the index files; then the surfaces around them
(`RequestGate`, `McpAuth`, `Discovery`), the texts (`Ingest`, `SlackRender`) and the
benchmark. Next:

1. Prove. `GainIsSound`, with gains as a constant that grows with the grade and the ideal order
   given by what it is, sorted, rather than by a sort: sums then need the argument from the least
   counterexample that `LeastElement` serves in `FilesProofs`.
2. Extend. `CircuitBreaker` with a clock that is set back; chunk identifiers in `Ingest`,
   which two files of one name share; the cache's persistence, should a configuration use it.
