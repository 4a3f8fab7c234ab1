# Berean, specified

TLA+ modules that model Berean's core, the TLC configurations that check them on
small instances, and proofs that TLAPS checks for every instance. Paths are
relative to the repository root, `src/` here.

Berean answers questions from the documents one church tradition treats as
authoritative. A Python service, **Catena**, retrieves passages and has a language
model write an *answer object*. A Go process, the **gateway**, decides whether
that object may be shown: it looks every citation up in the database, applies the
rules of the tradition, allows one regeneration, records the turn, and prints.
The documents reach the database through a pipeline of their own: acquired,
*blessed* by a person who read them, staged to files, ingested, embedded.

The two halves meet in the corpus tables and nowhere else. The gateway reads them
one statement at a time and holds no snapshot; ingestion rewrites them and holds
no lock that a reader would notice. What the reader of an answer is promised has to
survive that, and a crash anywhere.

Contents: 1 inventory, 2 modules and their correspondence to the code, 3 runs, 4
proofs, 5 disagreements found, 6 what is not covered, 7 plan.


## 1. Inventory

### Components

| Component | State it keeps | Operations | What makes it correct |
| --- | --- | --- | --- |
| Verification engine, `services/gateway/internal/verify` | none between turns | `Verify`: four checks per citation, a dozen answer rules; `Confidence` | nothing passes that the reader could not find in the source under this tradition; the rules *together* imply that |
| Turn loop, `internal/turn` | attempts, feedback, verdict | `Ask` | two attempts at most; the second is told what the first got wrong; nothing of a refused attempt survives; it ends |
| Gateway command, `cmd/berean` | the process itself | load, ask, describe, persist, print | recorded before shown; an error never prints an answer |
| Trace store, `internal/trace` and migrations 2 to 7 | `trace.*` tables | `validate`, `Write` (one transaction) | the rows explain the outcome; what Go admits the schema admits |
| Renderer, `internal/render` | none | `Answer` | prints what was verified, all of it, and never content of a degraded turn |
| Profile loader, `internal/profile` | none | parse, validate, tiers, contested loci | a profile naming a corpus that is not there is refused; each corpus has one tier |
| Gateway's corpus reads, `internal/corpus` | none | `Lookup`, `Exists`, `Works` | each one statement; an unknown licence is refused |
| Normalisation, `internal/normalise` and `catena/normalise.py` | none | `Normalise` | Go and Python agree; twice is once |
| Catena service, `catena/serve` | encoder behind a lock, worker pool, health | retrieve, select, generate, report failure | rulings reach the model; the trace says what was considered; readiness is honest |
| Ingestion, `catena/ingest` | `corpus.*` tables | load, check, plan, apply text, embed backlog | text is one blessed edition; no vector outlives its text; resumption converges and redoes nothing |
| Acquisition, `catena/acquire` | cache, `document.txt`, `segments.jsonl`, staged files, manifest, fingerprints | fetch, extract, segment, normalise, verify, bless, stage | what passes was approved; the blessed text is what the blessed bytes make; a verdict about upstream is of upstream |
| Browse, `catena/browse` | one token for each run of the server; a thread for each submission | show a corpus, offer the form, bless from it | what is blessed is what was read; only what nobody has blessed; a refusal is not for ever |
| Corpus adapters, `catena/acquire/corpora` | the state of one parse | extract, segment | an adapter that is satisfied has put all of the text, and nothing else, where it belongs |
| Compose files, tools | none | deploy, provision, guard | see section 6 |

### Interactions

* *Gateway to Catena*: one gRPC call per attempt. It returns an answer object, or
  a report that generation failed, or a transport error. Go sets no deadline on it.
* *Gateway to corpus tables*: autocommitted statements, one for each corpus at
  load, one for each citation at verification, one for the labels at the end.
* *Gateway to trace tables*: one transaction per turn.
* *Ingestion to corpus tables*: one transaction for all text of a corpus, then one
  for each batch of vectors. Any number of invocations may run; nothing excludes it.
* *Acquisition to ingestion*: four files, each replaced by a rename, never together.
* *Browser to acquisition*: a submission is a whole acquisition on a thread, over the
  files a command at a terminal uses too; nothing keeps them apart.
* *Acquisition to an adapter*: two calls, bytes to document and document to segments,
  through files that are written and read back in between.
* *Catena to corpus tables*: a search, then one statement for each contested ruling.

### What is hard here

* **Interleaving.** Citations of one answer are checked against tables that change
  between them, so an answer may rest on two editions. Two ingestions of one
  corpus interleave statement by statement. Acquisition replaces files under a
  reader of them, and under another acquisition.
* **Crash and resumption.** Nothing but the tables records what ingestion has done.
  A turn may die between its rows and its output.
* **Rules that only work together.** The renderer trusts that verification ruled
  out an answer which both stays silent and argues; the confidence label trusts
  the tier check; the omission rule trusts check 2. A dozen rules, each tested
  alone, have to imply together what a printed answer promises.
* **Two statements of one thing.** Go's `validate` and the schema's CHECK
  constraints both say which turns are recordable.
* **What was read, and what is blessed.** A person puts a name to a passage; the
  corpus is then fetched again, by a run that may find it changed.
* **A document that shifted.** A heading that is gone leaves what follows it looking
  like more of what came before. Text goes missing most easily where nothing counts it.
* **Ending.** Generations take minutes, embedding takes hours, and the loops
  around both meet failures at every step.

`PROJECT.json` lists each hazard at its line with the properties that watch it.


## 2. Modules

```
Verification      the decision, as operators           (pure)
    ^ EXTENDS
Turn              one `berean ask`      --- implements --->  TurnContract
    ^ EXTENDS                ^ EXTENDS
MCTurn (TLC)      TurnProofs (TLAPS) <--- TurnRulesProofs

Ingestion         `catena ingest`       --- implements --->  CorpusTables
    ^ EXTENDS                ^ EXTENDS                       (what Turn's tables do)
MCIngestion       IngestionProofs

Berean            the two over one database         --- implements --->  Turn
    ^ EXTENDS                ^ EXTENDS
MCBerean          BereanProofs

Retrieval         one `Answer` call of Catena
    ^ EXTENDS                ^ EXTENDS
MCRetrieval       RetrievalProofs

Acquire           one corpus, publisher to staging seam
    ^ EXTENDS
Browse            the same from a browser
    ^ EXTENDS                ^ EXTENDS
MCBrowse          BrowseProofs

Extraction        a publisher's page to lines   } what Acquire's
    ^ EXTENDS                                   } Extract and
Segmentation      lines to segments             } Segments stand for
    ^ EXTENDS                ^ EXTENDS
MCSegmentation    SegmentationProofs

ProofLemmas       numbers, sequences, finite sets: what the proofs share
```

Definitions keep the code's names where TLA+ allows it. A definition commented as a
*Variant* is a plausible mistake in the definition after it, which no behaviour uses; it
is kept because it shows that some property would notice.

### Verification: `verify.go`, `confidence.go`, `lookup.go`'s licences

`CheckCitation` is the four checks on one citation against one row. `Sound` is an
empty `failure_detail`. `AnswerFailures` is the union of the answer-level rules,
one operator per rule, and `Passed` is `Outcome.Passed`. `Confidence` derives the
label from the answer and the number of the attempt.

*Text* is a member of `Strings`. All that the checks can tell about a string is what
it normalises to, how many runes it has, what it contains and whether it is blank,
so those four are constants. Normalisation is assumed to be idempotent. A
citation carries its slot and the number of the claim it supports, so one flat
sequence stands for the four repeated fields of the proto message, in the order
`verify.go` walks them.

The tier in a citation is the one Python claimed. No operator reads it: the
profile's is looked up, as in the code.

### Turn: `turn.go`, `main.go`, `store.go`, `render.go`, `registry.go`

| Variable | In the code |
| --- | --- |
| `chunks`, `license`, `embedded` | `corpus.chunks`, `corpus.works`, `corpus.chunk_embeddings` |
| `ask` | the resolved profile (`tiers`, `loci`), the query, `BEREAN_SERVE_LOCAL_ONLY` |
| `pc` | where `run` is: load, generate, verify, describe, record, print; or how it ended |
| `unprobed` | the corpora `profile.validate` has yet to ask `Exists` about |
| `feedback` | `failed_citations` and `answer_failures` of the next request |
| `draft` | the response being verified and the results so far |
| `attempts`, `result` | `Turn.Attempts`, and the rest of `Turn` |
| `recorded`, `screen` | the committed rows; what was printed |
| `held` | history: every row some `Lookup` could have returned |

`CheckNextCitation` is one `Lookup` and the four checks on what it returned. A
`CommitText` or `CommitVectors` of ingestion may come between any two. The
judgement after the last citation, with everything `Ask` does before its next
call, is one step: `Accept`, `Regenerate` or `Degrade`. Every call that can return
an error has an action ending in `Fails`; `RecordFails` includes a commit whose
acknowledgement is lost. `Render` ending in `failed` is a closed stdout.

The answer is any member of `Answers`, or the empty message, which is what an unset
oneof reads as. `complete` stands for the fields `validate` demands of Catena (a
trace, its model names). `Exists` is true as soon as one chunk has a vector, as the
query has it.

### TurnContract

Three actions, `Attempt`, `Record`, `Show`, over counters and labels: at most two
generations, a verdict that fits their number and is never revised, recorded
before shown, content only under a verdict that verified it. `Turn` implements it.

### Ingestion: `catena/ingest`, with what `catena/acquire` leaves for it

| Variable | In the code |
| --- | --- |
| `chunks` | rows of `corpus.chunks` for one corpus: generated id, text, contract version |
| `embeddings` | `corpus.chunk_embeddings`, as the text each vector was computed from |
| `works` | the work facts (licence, attribution) in `corpus.works` |
| `manifest`, `fingerprints` | the blessed record: `manifest.yaml`, `fingerprints.txt` |
| `records`, `declared` | the staged files: `records.jsonl`, `work.json` |
| `stager` | the acquisition under way, between two of its writes |
| `pc`, `execute`, `loaded`, `plan`, `pending` | the locals of `run_one`, for each invocation |
| `approved`, `stagings`, `runs` | history, and the two bounds |

`Bless`, `WriteFingerprints`, `WriteRecords`, `WriteWork` are the writes of an
acquisition, each a rename; `StagerDies` is a crash between them. `Provision` is
an acquisition without `--bless`. A manifest records the licence, attribution, addresses
and diagnostic of the work (`terms`) and none of its other facts, so those may change
without a new blessing. One invocation of `ingest` is `ReadWork`,
`ReadRecords`, `CheckStaging` (fingerprints and token limit), `MakePlan` (the diff;
a dry run ends here), `ApplyText`, `ReadBacklog`, then `EmbedBatch` until nothing is
pending. `ApplyText` is one transaction: upsert the work, delete, update, drop the
vectors of updated rows, insert. An abort is an action; a commit that succeeded
with its acknowledgement lost is an alternative of the action. `Kill` may come
anywhere and `Start` begins afresh with no memory.

A text stands for its content hash, since the hash is computed from the text and
nothing else. Batches are any non-empty subset of what is pending: the token budget
decides which, and no property depends on it. The constraints of the schema that
decide whether a statement aborts (`chunks_corpus_locator_unique`, the foreign key
and the primary key of a vector) are the guards `Insertable` and `Writable`. A row's
id is drawn afresh by an insert and kept by an update, so that a stale id is told
from a current one.

One corpus is the whole story: `--all` runs `run_one` for each corpus over rows and
files no other corpus shares, and continues past a failure.

### Retrieval: `serve/service.py`, `retrieval.py`, `postgres.py`, `generate.py`

| Variable | In the code |
| --- | --- |
| `rows`, `embedded` | `corpus.chunks` (generated id and text), `corpus.chunk_embeddings` |
| `request` | the `AnswerRequest`: tiers, contested loci, `top_k`, attempt |
| `pc`, `unprobed` | the gateway's load that admits the profile, then the stages of `_answer` |
| `hits`, `asked`, `pinned` | the locals of `_retrieve` |
| `ordered`, `used`, `passages`, `candidates` | the locals of `select` |
| `response` | what the gateway receives |

`Search` is one statement and `ResolveRuling` another for each locus; ingestion may
commit between them. Which rows the approximate index finds is left open; their order
is not, since the scan is in strict order. `Consider` is one turn of the loop of
`select`. `Generate` takes what came back through the tests of `_parse` in the code's
order. `CallFails` is any error that ends in `context.abort`: the encoder, the database, a
delimiter inside a passage, the model out of reach or out of time.

A text has a size and a score, and nothing else the code looks at. The model's
budget, which the code computes from a number of tokens, is a constant. All vectors
are of one embedding model; the gateway's `Exists` does not ask of which, so during
a change of model the load would admit even more than is shown here.

### Acquire: `fetch.py`, `pipeline.py`, `fingerprints.py`, `manifest.py`, `acquire/cli.py`

| Variable | In the code |
| --- | --- |
| `source`, `up`, `follow`, `adapter` | what the publisher serves, whether it answers, whether the corpus is an index and its pages; the version of the adapter's code |
| `cache`, `damaged` | blobs under `fetch/`, named by what they hold, and those that no longer hold it |
| `document`, `segments` | `extract/document.txt`, `segment/segments.jsonl` |
| `stage` | `records.jsonl` and `work.json` |
| `manifest`, `fingerprints` | the committed evidence |
| `run` | the locals of each `run_one` or submission, with its own copy of the evidence it read |
| `since`, `approved` | history: what upstream showed during a `--verify-only`; what people put names to |

A hash is the thing hashed, so that a blob's name *is* its content and a fingerprint is
the text. An archive wraps what it stores, so its bytes never equal the publisher's.
`Begin` is one command, with what `run_one` decides before it fetches. `ReadLocalCopy`,
`ReadCache`, `Download` and `FetchPage` are the ways to come by bytes: a followed corpus
gets its index as any other gets its bytes, and then asks for the pages one by one, without
an archive to fall back on, while the publisher may change between them.
`LocalCopyUnreadable` and `NeitherAnswers` are a fetch that comes by none.
`ExtractDocument`, `SegmentDocument` and `NormaliseSegments` read what the one before
left in the shared directory. Then each command goes its way: `Provision`,
`VerifyOnly`, `ShowDiagnostic`, `Approve` or `Decline`; the four writes of a blessing are
four steps. Around them, `Republish`, `Outage`, `Recover`, `Damage` (a blob truncated, a
committed file merged badly) and `Kill`.

What an adapter makes of a document is a constant here: a corpus has a few locators and a
few texts. `complete` says that its facts survive being written to a manifest and
read back.

`Ingestion` has a smaller stager of its own, which leaves what these actions may leave;
it is not composed with this module.

### Browse: `browse/server.py`, `verify.py`, `staged.py`

`page` is what the reader has in front of them: the passage the form offers, if it offers
one, the status shown, and whether its token is of the server now running. `LoadPage` reads
five files in one step; the module's header says why that loses nothing. `Submit` makes
the checks of `bless_route` and `verify.apply` up to the network and begins an acquisition
with `Acquire`'s steps; `Compare` makes those after it: the text moved, or fingerprints
turned up, or the blessing goes ahead in the words the reader saw. A refusal for moved
text stages what was fetched, so that the next page shows it. `Stop` kills every
submission and the tokens with them; `Upgrade` deploys another version of the adapter.

A reader has one page and any number of threads: the form can be sent again while an
earlier one runs.

### Extraction: the `extract` half of `acquire/corpora`

A source is a sequence of events: tags opened and closed and the text between them, as
`html.parser` delivers them, or lines. Text is in *fragments*. A fragment has a kind, which
is what the adapter's anchored patterns would take it for (a question, a chapter heading, a
page's running head), the number such a pattern captures, and `at`: the address the
fragment has in the work, `None` for what is not the work's text. No action reads `at`.
Only the properties do; it is the truth they compare with.

`parser` is the extractor object: the depth of divs, what is being dropped and how deep,
the rows of a table held back, what was read in bold, the state of the line machine of the
one PDF. One action per handler and publisher: `OpcOpen` is `handle_starttag` on an OPC page,
`OpcClose`, `OpcText`, and `OpcExtracted` what follows the parse; likewise for the others.
Eight adapters have six extractors: three OPC pages share one, and the plain text and the zip
share one that keeps every line.

### Segmentation: the `segment` half

`reader` is the locals of one `segment`: the section being read, the number it expects
next, what it has counted. One action per kind of line, in the order the code tests them;
`AtEnd` has the assertions about the whole edition, whose numbers are the constant
`Expected`. `calvin` looks at the whole work before it takes a line, so that it is one
action over operators: the greedy run of numbers, the synopsis that repeats it, chapters
within books.

`Published` and `MayBe` say what a publisher may have done to *one* block of an edition:
lost it, served it twice, swapped it with the next, renamed its class names, left its
last tag open, or changed the bytes into some that do not decode.

### CorpusTables

What a reader of one corpus may rely on: text is replaced as a whole, in one step,
by a staged edition; that step keeps exactly the vectors of text that did not change;
vectors are only ever added, to text that is there. `Ingestion` implements it with
one invocation at a time. `Turn`'s `CommitText` and `CommitVectors` are these two
steps, written out for several corpora.

### Berean: one database, two programs

`Turn` assumes what ingestion may commit; here `Ingestion` itself commits it. The module
extends `Turn`, and `Catena` is an instance of `Ingestion` (by way of its proofs) for one
corpus, the constant `Corpus`; the other corpora stand still. `rows`, `vectors` and `works`
are the tables as Catena writes them, `chunks`, `embedded` and `license` the same
tables as the gateway reads them, which knows neither generated ids nor what a vector was
computed from. They are two variables for one thing, and `SharedTables` in the proofs
says that they agree.

A step is a `Commit`, which is a transaction of Catena's that changes a table, and shows
at once to the next statement of the gateway; `Prepare`, anything else of acquisition and
ingestion, which the gateway cannot see; or `Serve`, a step of the gateway. Every
action of the two components is here with its own guards, and nothing else joins them, as in
the code. The corpus starts out empty. That is no loss: a gateway that has not yet loaded
its profile has read nothing, and waits while Catena brings the tables into any state it can.
`LicenseOf` is the licence among the work facts of an edition, and `EditionsCover`
says that `Turn`'s `Editions` are any text there is under any facts there are, since
`load` reads the two from different files.


## 3. What the runs check

| Run | States | Question |
| --- | --- | --- |
| `turn_race` | 112 thousand | one turn while ingestion commits twice and everything may fail |
| `turn_rules` | 1.4 million | do the rules together imply what a printed answer promises |
| `ingest_crash` | 1.4 million | successive invocations dying anywhere, over changing staging |
| `quotation` | 1.9 million | gateway and ingestion over one database |
| `retrieval_race` | 59 thousand | one `Answer` call while ingestion commits twice |
| `browse_one` | 1.3 million | acquiring, verifying and blessing in turns, while the world changes |
| `corpus_damaged` | 23 thousand | seven adapters over an edition with any one block damaged |
| `ingest_twice` | stops | two invocations at once: vectors go stale |
| `ingest_half_staged` | stops | load between two file writes: not whole |
| `ruling_missing` | stops | an admitted profile whose ruling does not resolve |
| `browse_twice` | stops | a form sent twice: a blessing replaced without a word |
| `corpus_bold` | stops | a paragraph that opens in bold becomes a heading |

The last five are expected to fail; section 5 says what they show.

### turn_race

Properties, with what each one means to a reader of the code:

* `ShownIsRecorded`: whatever is on the screen is in the trace tables with the same
  outcome, answer and confidence.
* `ShownIsSourced`: every citation printed was found, under a licence servable at
  that moment, in *one* row its corpus held during the turn. It says nothing of
  the moment of printing: ingestion may have replaced the row since, and the code
  does not claim otherwise.
* `RetryIsInformed`: the second request carries every citation that failed, none
  that passed, and every broken rule, and is not empty.
* `TraceExplainsOutcome`: from the rows alone one can tell why the turn ended as it
  did.
* `SchemaAccepts`: every turn that comes to be recorded fits the CHECK constraints on its
  shape, and `validate` refuses it for a blank question or an incomplete trace only. The
  constraints on each attempt's trace and each citation are not modelled one by one:
  `complete` stands for those that `validate` repeats.
* `KeepsContract`: `Turn` implements `TurnContract`.
* `TurnEnds`: every turn ends.

Bounds. Two corpora of four locators (one never present), with one open question
and its ruling. Four answers: one needs two rows to stand still, one needs the
ruling, one needs nothing, one that no tables can rescue; and the empty message.
Two commits are enough for text to change and change back between two lookups, for
a licence to be withdrawn between load and lookup, and for a half-embedded corpus
to become whole. The starting tables are ingested; interrupted in the middle of a
revision, whose text no longer carries the quotes; or empty. One question is blank, so `validate` refuses it after the generations were
spent.

### turn_rules

* `EveryArgumentHasAuthority`: no printed argument rests on advisory corpora alone.
* `ContestedIsShownContested`: a printed answer that cites the ruling of an open
  question, in whatever slot, says so; and one that says so argues nothing and
  quotes the ruling.
* `SilenceIsAlone`: a printed silence stood beside no claim, no position and no contest, and
  a printed answer is never empty. Citations in a contested block that does not say it is
  contested support nothing; those a silence may carry, and the renderer drops them.
* `HighConfidenceIsCorroborated`: "high" means a first attempt whose arguments rest
  on two different places in corpora that bind or govern.

Bounds. Seventeen ways to support an answer, under four things an answer may say of
itself, and eight answers that break the remaining rules: about seventy-five, each as
first and as second attempt, under two profiles (one the reverse of the other, so
that every corpus is seen as authority and as not) and three states of the licences.
Tables stand still, since the race is `turn_race`'s question.
Strings include the boundary cases of the rules: 39 and 40 runes, 200 and 201, a
blank that is not empty, a quote that only matches once normalised.

### ingest_crash

* `VectorsAreFresh`: a vector is of the text its chunk carries now.
* `TextIsOneBlessedEdition`: the table is empty or holds, whole, one edition a
  person blessed.
* `CompletedRunConverges`: a run that succeeded left what it loaded, all embedded.
* `ResumeKeepsWork`: no step drops the vector of text it leaves alone.
* `IngestEnds`: every invocation that goes on running ends.
* `KeepsTables`: `Ingestion` implements `CorpusTables`.

Bounds. Three locators and five editions that leave, change, drop, move and add
chunks, one of them too long for the encoder, or change nothing but the title, under two
contract versions. Three
acquisitions and three invocations: enough for one to die after its text, another
edition to be staged, the next to die among its vectors, and the last to finish.

`OnlyApplyWrites`, that dry and refused runs write nothing, needs no run of its own: it is
proved, and a run that wrote before its checks would break `TextIsOneBlessedEdition`.

### quotation

* `WhatIsShownWasBlessed`: every quotation of the corpus that is printed is in a text a
  person put a name to, at the locator it is cited by. `Turn` promises a row
  that was held, `Ingestion` a table that was blessed; this is what a reader is after. It
  does not say that two quotations of one answer are of the same edition: they need not be,
  and the run reaches an answer that quotes one sentence at two places where no edition
  has it at both.
* `IngestionIsAssumed`: the whole implements `Turn`. What ingestion does to the tables is
  what `turn_race` lets happen to them, and the proofs about `Turn` rest on.

Bounds. One corpus of two places with two editions that move a sentence from the first to the
second, under different work facts; one that stands still. One answer, citing the
sentence at both. Two acquisitions, blessed or provisional, two invocations that take turns,
three commits to be seen by the gateway: enough for an edition to be committed, cited in
part, blessed anew, committed anew between two lookups, and for unblessed text to be
staged meanwhile and refused. The rules of the answer are `turn_rules`' question, and the
ways an ingestion can be interrupted `ingest_crash`'s; here they only have to meet.

### retrieval_race

* `RulingsReachTheModel`: every ruling that resolved is in the prompt in the words a
  lookup of it found, whatever the budget and whatever the search returned of it before.
* `BudgetHeld`: as soon as anything but rulings is in the prompt, all of it fits. Rulings
  alone may overrun, as the code accepts.
* `LeftOutForBetter`: what was found and left out was left out for rulings and for chunks
  at least as close to the question.
* `EveryHitHasOneFate`: each chunk found is one candidate of the trace, included exactly
  when the model saw it.
* `TraceIsRecordable`: the gateway's `validate` takes the trace, also of a failure.
* `CallEnds`: a call received is answered or aborted, if its worker goes on.

Bounds. Two corpora of two places; a budget of four characters against texts of one to
five, so that two ordinary passages, one ruling and a little, or a ruling that overruns
all are met. One, two and no loci, two loci with one ruling, `top_k` unset and smaller
than what there is. Two commits: a ruling reworded between search and lookup, or gone
and inserted again under another id, so that one place appears twice.

### browse_one

* `WhatWasReadIsBlessed`: a committed manifest names the passage that was in front of the
  person whose name it carries, although the corpus was fetched again since.
* `BlessedBytesGiveBlessedText`: the text of every blessing is what the bytes it names
  make, although the stages hand it on through files that other runs write too.
* `WhatPassesWasApproved`: what a page calls blessed, and what a command lets through as
  verified, a person approved, section for section. It is stated for the text and for
  the manifest separately: after a crash in the middle of a second blessing, a command may
  pass on the old fingerprints under the new manifest, if the two agree on all the check
  compares.
* `VerdictIsOfUpstream`: `--verify-only` says OK only of what upstream, or the archive in
  its place, had up while the command ran. For a followed corpus that may be one
  page of before an edit and one of after it: nothing in the code compares editions of pages.
* `BrowserBlessesOnlyTheUnblessed`: no submission replaces a manifest or fingerprints.
* `RefusalIsNotPermanent`: a reader who keeps reading what the page shows and naming it is
  not refused for ever. The corpus ends up blessed, or no form is offered, or there is
  nothing upstream that the adapter could bless.

Bounds. Two pages that are two sections, one of them the diagnostic. Six things the
publisher may have up: the edition; the first section reworded; either section gone; one
locator twice; a page that makes no document. One typographic difference that the first
contract folds and the second, a later version of the adapter whose licence is
narrower and whose facts do not survive a manifest, does not. An archive and one local copy.
Two commands at a terminal and one thread of the browser, which take turns, in any
order; two events. That is enough for a blessing to be interrupted between two files and
met by the browser and by a verification, for text to change between reading and
submission and change back, and for a cached blob to be truncated before the next command.
Taking turns is an assumption about the operator and not about the code, hence the run that
drops it.

### corpus_damaged

* `NumberedThrough`: in an accepted edition the addresses are distinct and ascend, and a
  number past the first of its chapter comes right after the one before it.
* `TextAndNothingElse`: an adapter that is satisfied has put each piece of the work's text
  that was served into segments, as often as it was served, and nothing else
  (`EveryPieceOnce`), inside a section in reading order, also out of a table
  (`InReadingOrder`), and a section that opens with its own number under the address it has
  in the work (`OpenersAreAddressed`). `Unseen` lists what is exempt, and section 5 what that means.
* `LossIsNoticed`: a block that opened a section, or that an adapter counts, is missed, unless
  it was the last of its chapter.
* `EditionIsAccepted`: the edition an adapter was written for is accepted, also with
  paragraphs, tables and headings left open.

Bounds. One small work for each page shape, holding each thing its adapter tells apart: a
table within a section, an answer in its question's paragraph, a page of another numbering,
a footnote, a divider page, a paragraph divided by a page's edge, a chapter with a synopsis
of its own sections, a verse known to be blank. Any one block, damaged in any of the six ways
or not at all. `wlc` stands for `wsc`, which is the same code with other numbers. Two faults
at once are not tried.

### Fairness

`FairSpec` of `Turn` has weak fairness on the gateway's steps together: a running
process goes on, the database answers or errs, and Catena replies or errs because
its own call to the model has a timeout (`serve/generate.py`). Go's call has no
deadline, so a Catena whose four workers never come free would contradict this; its
server process is not modelled (section 6). There is no fairness on ingestion or
on `Kill`. `FairSpec` of `Ingestion` has weak fairness on the steps of each
invocation that is running, none on starting one, staging or killing. No property
needs a step to succeed: every step that can fail does so as a way of going on.

`FairSpec` of `Retrieval` has weak fairness on the call's steps together: the encoder
returns, statements return or err, and the request to the model carries a timeout.

`FairSpec` of `Browse` has weak fairness on each run once it has begun, for a process or a
thread goes on and its downloads carry a timeout; on `Recover`, an outage ends; and on
`LoadPage`, the reader reloads a page that is out of date. It has strong fairness on
submitting a form with a name, since turns are taken and the form comes and goes: this is
the persistent reader the property is about. There is none on commands, events or `Kill`.

Deadlock checking is off in every run, because processes end.


## 4. What is proved

TLAPS checks these for every value of the constants that satisfies the named
assumptions: any corpora, locators, texts, editions, answers, profiles, any
number of commits and restarts.

### TurnProofs

| Theorem | Argument |
| --- | --- |
| `TypeOKHolds` | by itself not inductive: `Record` and `Render` read `result`, so `Delivering` (there is a result once the turn is past verification) comes with it |
| `TurnHolds` | `TurnInv` is `TypeOK`, `Delivering` and `Ordered` |
| `ShownIsRecordedHolds` | from `Ordered`, by the renderer's cases |
| `KeepsContractHolds` | initial states map to initial states; every step is `Attempt`, `Record`, `Show` or a stutter, given `TurnInv` |
| `ShownIsSourcedHolds` | `Grounded` |

`Ordered` ties the stages together: what number of attempts each place in the
program admits, which verdict each number admits, that rows exist only once there
is a verdict and equal it, and that a screen exists only over rows. `Grounded` is
why citations stay sourced though rows go away: each result so far of the draft
that is sound is backed by a row in `held`, and `held` only grows. The lookup adds
such a row, because `held` contains the tables as they are now; `Accept` carries it to
the verdict; `Record` and `Render` carry it on.

### IngestionProofs

| Theorem | For |
| --- | --- |
| `TypesHold`, `TypeOKHolds`, `OnlyApplyWritesHolds`, `RowsHold` | any number of invocations at once |
| `VectorsAreFreshHolds`, `TextIsOneBlessedEditionHolds`, `CompletedRunConvergesHolds`, `ConvergedIsEmbeddedHolds`, `ResumeKeepsWorkHolds`, `KeepsTablesHolds` | one invocation at a time |

The second group assumes `OneInvocation`: any two members of `Procs` are the same.
Nothing in the code ensures it, and run `ingest_twice` shows `VectorsAreFresh` false
without it. It is the operator's to ensure.

The invariant is `TablesInv`. `VectorsAreFresh` is not inductive: `EmbedBatch`
writes a vector of the text it remembers. So the invariant also ties what an
invocation remembers to the tables: what is pending is the text the chunks carry
(`PendingIsCurrent`); a plan about to be applied, or printed by a dry run, is the diff against
the tables as they are (`PlanIsCurrent`), from which a lemma concludes that applying it yields exactly what was
loaded (`PlanReachesStaging`); after phase one the tables are what was loaded
(`AppliedIsStored`); and whatever has no vector is pending (`UnembeddedIsPending`),
which is why an empty backlog means done. What an operator may conclude from a plan called
converged is `ConvergedIsEmbedded`, which no run lists: text and vectors, not work facts. For blessed text the chain is:
fingerprints about to be written are approved, fingerprints are approved, text past
the check equals them, text committed is text past the check.

`RowsHold` is what is left of that with any number of invocations. Two plans of one
corpus, each made from tables the other has since replaced, may leave rows of one edition
beside rows of another, so the *table* is nobody's edition. But a row is only ever
written from a text past the check, at that text's locator, so each *row* is blessed
(`RowsAreApproved`); and the foreign key keeps a vector from outliving its row
(`VectorsHaveRows`). `RowsInv` needs for it only that whoever is about to write carries
staged text past the check (`WritesAreStaged`), not that the tables are still what its plan
was made from. The gateway looks citations up row by row, so this is what it has to rely on.

### BereanProofs

| Theorem | For |
| --- | --- |
| `SystemHolds`, `WhatIsShownWasBlessedHolds`, `PromisesHold`, `ContractHolds` | any number of invocations at once |
| `IngestionIsAssumedHolds` | one invocation at a time |

`SystemInv` is `RowsInv` of the one side, `TurnInv` and `Grounded` of the other, and two
conjuncts that are about both: `SharedTables`, and `HeldIsApproved`, that every row a lookup
could have returned so far was then in an approved text. The last is why approval outlives
the row: `approved` and `held` only grow, and what a commit adds to `held` is, by
`SharedTables` and `RowsInv`, rows of approved texts. `Grounded` then leads from a printed
citation to a row held, and `HeldIsApproved` from there to a person.

`IngestionIsAssumedHolds` says that the whole implements `Turn`, and so has every property
that was proved of it. It takes `ApplyText` to `CommitText` (`TextCommitted`) and `EmbedBatch`
to `CommitVectors` (`VectorsCommitted`), from two lemmas of `IngestionProofs` that say
what each does to all tables at once, and it assumes `OneInvocation`. Without that it is false: of
two invocations that made the same plan, the second drops the vectors the first has
already written of text it leaves unchanged, and `CommitText` drops no such vector.

Nothing a turn promises depends on it, though. `WhatIsShownWasBlessed` could not come from the
refinement in any case, since `Turn` knows nothing of blessing. And `PromisesHold` has the
nine safety properties of `Turn` of the whole, for any number of invocations, from the same
invariants: a commit, whatever it does, leaves the gateway's variables alone
(`RulesCommit`) and adds the new rows to `held` (`CommitTurn`), and each property follows from
the invariant in a lemma of its own (`ShownIsRecordedFollows` and its like) that mentions no step.
`ContractHolds` is likewise the refinement of `TurnContract`. So what can be lost when two
invocations meet is retrieval, by missing or stale vectors, and not what is promised of
an answer that is shown.

`CatenaAssumptions` shows that what `Ingestion` asks of its constants follows from what
`Berean` asks of its own.

### TurnRulesProofs

| Theorem | Argument |
| --- | --- |
| `TurnIInvHolds` | `TurnIInv` is `TurnInv`, `Grounded`, `Rightful`, `Informed` and `Accounted`, together inductive |
| `EveryArgumentHasAuthorityHolds`, `ContestedIsShownContestedHolds`, `SilenceIsAloneHolds` | `Rightful`: what is printed was passed, and what passes has none of the answer's failures |
| `HighConfidenceIsCorroboratedHolds` | `Rightful`: the confidence is derived from that answer and the number of its attempt; a set with two members is not a singleton |
| `RetryIsInformedHolds` | `Informed` |
| `TraceExplainsOutcomeHolds`, `SchemaAcceptsHolds` | `Accounted` with `Ordered` |

None of the seven properties is inductive, for each speaks of what was printed or
recorded, and the reason lies steps earlier. `Rightful` carries the verdict from
`Accept` to the screen. For that the results so far have to be *about* the citations
they stand beside, position by position, which is part of it. `Informed` says what the
feedback holds between two attempts and while the second is checked. `Accounted` says of
each attempt so far that it is numbered by its place, has a result for each citation, and
is clean only if it is the last and ended the turn.

### RetrievalProofs

| Theorem | Argument |
| --- | --- |
| `RetrievalTypeOKHolds` | inductive as it stands |
| `RetrievalIInvHolds` | `RetrievalIInv` is `TypeOK`, `Selected`, `Roomy` and `Recordable` |
| `RulingsReachTheModelHolds` | `Queued`, `Matched`, `Gathered` |
| `BudgetHeldHolds`, `LeftOutForBetterHolds` | `Roomy`, given `Queued` |
| `EveryHitHasOneFateHolds` | `Matched`, and `Gathered` with nothing left to consider |
| `TraceIsRecordableHolds` | `Matched` at the moment the trace is made |

`Selected` has four parts. `Returned`: hits are in descending order, no two of one
chunk, none of them pinned, and nothing is selected before selection. `Queued`: whatever is
still to be considered comes after every passage there is, pinned ones first; and once
something was left out no ruling is to come. `Matched`: one candidate for each chunk, the
included ones are the passages, and a pinned passage is in the words of a lookup.
`Gathered`: what was found is waiting or recorded, and a ruling that is recorded has
reached the model. The hard case is a ruling skipped because its chunk has been *seen*: it
was seen as a ruling, since rulings come first, and so it was included, in the words of the
other lookup. For the budget, `Counted` says that `used` is the sum over the passages; when
a hit is left out, everything let in before it is at least as good, by `Queued`.

The sum is a recursive function. That it is a function at all, and that it grows by
what is appended, needs induction over its length, and the library's induction theorem
takes an operator; the lemmas `SumIs` and `PartialSums` instead take the least length
for which they would fail (`LeastNat`, from the well-foundedness of `<` on the numbers).

### BrowseProofs

| Theorem | For |
| --- | --- |
| `BrowseTypeOKHolds`, `WhatWasReadIsBlessedHolds`, `WhatPassesWasApprovedHolds` | any number of commands and submissions at once |
| `BlessedBytesGiveBlessedTextHolds`, `VerdictIsOfUpstreamHolds`, `BrowserBlessesOnlyTheUnblessedHolds` | one at a time |

`Phases` ties what a run holds to where it is. `Vouched`, over any number of runs: evidence
on disk, evidence a run carries, and text a run lets through were each put a name to.
Two blessings that interleave may leave the manifest of one beside the fingerprints of the
other; each half is still some person's, and that is what the properties say.

The other three assume `OneAtATime`, that no two runs are between their beginning and their
end. Run `browse_twice` shows `BrowserBlessesOnlyTheUnblessed` false without it. `Alone`
then says that a run reads back from the shared directories what it put there (`Sourced`),
that every page it has was up since it began (`Evaluated`), and that a submission which found
no evidence still would (`Unblessed`).

The attempt to prove `VerdictIsOfUpstream` found that it was too strong as first
written. The set of pages was one that a *current* index names, and the index may be
changed between its fetch and that of its last page: the witness is any index that was up
during the run. It also did not say that there was any page.

### SegmentationProofs

| Theorem | Argument |
| --- | --- |
| `SegmentationIInvHolds` | `SegmentationIInv` is `Numbering` and, for the book, `BookLines` |
| `NumberedThroughHolds` | `Numbering` when the reader is done |

The run damages seven small works in one place. The theorem is for any works and any blocks,
hence for any faults at once: what an adapter accepts is numbered through because it looked,
not because its publisher numbered it. `Numbering` ties the reader's chapter and next
number to `Given`, the addresses there would be if the text ended here. Every step is one of
three: it leaves `Given` alone (`Stays`), it begins a chapter past the one before (`Turns`), or
it appends the address the reader expected (`Opens`); so the proof has one lemma for each kind
and the actions only have to be shown to be of a kind. The book is the exception. Its chapters
may come in any order while it is read and are compared only at its end, so for it `Numbering`
speaks of order on condition that the chapters *seen* so far rise (`Rising`). That condition
compares numbers, and so the lines of the book have to be lines of numbered fragments from
publication on (`BookLines`), through whatever was done to a block. `FlattenSeq` is a recursive
function too, and is met as the sum was (`Joins`, `Flattened`).

### Assumptions

`StringsAssumption` (normalisation is idempotent and stays in `Strings`), and for each
constant that is a set of inputs that it has its type (`AnswersAssumption`,
`AsksAssumption`, `StoredAssumption`, `EditionsAssumption`, `TextsAssumption`,
`InputsAssumption`, `BoundsAssumption`, `SitesAssumption` and their like).
`ParsersAssumption` says the same of `Extract`, `Segments` and `Normalise`. An edition has
a page. `WorksAssumption`: a work of the book's adapter is lines, and a chapter's heading is
known by its number. `RulingsAssumption`: the profile loader refuses a ruling outside the
profile's corpora. `NoneAssumption`, in each module that has one: `None` is none of the values
it stands beside; in `Acquire`, `Unreadable` is none of them either, nor `None`. That last
clause was missing until a proof asked for it. In `Berean`: the corpus is one of the
gateway's (`CorpusAssumption`); its locators are finitely many, and its texts
are strings (`LocatorsAssumption`, `TextsAssumption`); editions are typed and have facts
(`StagedAssumption`); facts have a licence and missing ones have none (`LicenseAssumption`);
and `EditionsCover`, explained with the module.

### Only model-checked

Liveness (`TurnEnds`, `IngestEnds`, `CallEnds`, `RefusalIsNotPermanent`) is beyond TLAPS.
So is what recursion over the data computes: the Roman numerals, and the operators over the
whole of the *Institutes*. `TextAndNothingElse`, `LossIsNoticed` and
`EditionIsAccepted` compare the segments with the work that was published and hold of works
shaped like these editions, damaged in one place; of any blocks whatever they are false.
`Segmentation`'s `TypeOK` says what the *Institutes*' folds return, so it stays too.
Every other property of a passing run is a theorem.


## 5. Where code and words disagree

1. **Two ingestions of one corpus leave a stale vector for good** (`ingest_twice`).
   `embed_backlog` reads the text it will embed once, and writes vectors by chunk id,
   minutes or hours later. If another invocation commits a revised text in between,
   the update keeps the id and finds no vector to drop; the first invocation then
   writes the vector of the old text. The backlog of any later run is the chunks
   without a vector, so nothing repairs it. `apply.py:102-107` describes this very
   state as the thing to prevent.
2. **`load` can return one edition's text under another's work facts**
   (`ingest_half_staged`). The two staged files are replaced one after the other and
   compared by a count alone. `source.py:57` promises to refuse "anything that is not
   whole".
3. **A ruling past the load may not resolve** (`ruling_missing`). `Exists` asks for one
   vector of the corpus. With the first embedding interrupted, or a revision committed
   between load and call, the ruling has none and is dropped, while the prompt still
   demands that it be quoted. `test_serve_service.py:202` says "Go's profile load is what
   refuses an un-ingested ruling, honestly."
4. **A form sent twice replaces the blessing it has just made** (`browse_twice`). A submission
   looks for a manifest before it goes to the network and for fingerprints after, and holds
   nothing in between. Two submissions both find neither. `browse/verify.py:28-31` says
   "Unblessed corpora only": replacing a verification is left to a terminal, where a
   confirmation has to be typed.
5. **A paragraph that opens in bold is taken for a heading** (`corpus_bold`).
   `_handle_start` counts `<b>` and nothing counts `</b>`, so that plain text after it is
   bold too, up to the end of the paragraph, and its number may open a section.
   `pca_ga28_2000_creation_study.py:137-138` says "A heading is a paragraph that is *entirely*
   bold".

Observed while modelling, without a run of their own: no line of the repository claims
otherwise, or the claim is narrower than what a run would show, or it is about a hint that is
printed and read by no code:

* A converged plan may still have something to do. `converged` looks at chunks and vectors and
  not at work facts, of which the licence is one: after an edition is blessed again with
  another licence alone, `plan.py:68` says "The database already agrees with staging. Nothing to do.",
  and applying the plan rewrites the licence. Of text and vectors it is right
  (`ConvergedIsEmbeddedHolds`).
* After a crash between the manifest and the fingerprints of a *first* blessing, the page says
  unblessed, offers the form, and refuses it every time, because the manifest is there. Only a
  terminal gets out of it.
* When an edition no longer has the diagnostic section the page offers no form at all.
* The last section of a chapter can be lost without notice in every adapter that counts chapters
  and not sections. `wcf_1788_american.py:123-125` says a dropped section shows as a gap.
* In the book of church order a chapter heading lost right after a divider page takes its
  chapter with it, since a divider page goes on until a heading, and chapters are asserted
  ascending only. `pca_bco_2026.py:162-164` says that paragraphs swallowed inside a chapter
  break the contiguity check; those at a chapter's end do not.
* A chapter of the *Institutes* whose synopsis and body no longer number the same sections is
  taken from its synopsis on, and its text lands under wrong addresses.
* In the creation report a lost heading is not noticed, and a footnote whose class is renamed
  is read as text.
* Verses are not asserted to be contiguous, by intent; a lost verse is not noticed.


## 6. What is not modelled, and why

* **Of the adapters**: the regular expressions themselves. A fragment has the kind its
  pattern would give it, so whether `^(\d+)\.` matches a certain line is outside. So are
  the facts each adapter states of its work, and the registry that lists them. How the
  table of verse numbers is read out of a zip, and a page's characters out of a PDF, is a library's.
* **Of browsing**: the list of corpora, the paging of text, the markup, the check of the origin
  header and of a body's size. They keep nothing.
* **`normalise/records.jsonl`**: written by every acquisition and read by none.
* **Catena's server process**: which call a pool of four workers takes, health, and
  what a signal does to calls in flight are the gRPC library's behaviour, of
  which the source shows only the settings.
* **Normalisation's tables and the batching of vectors**: pure functions over characters and
  lengths. Where they matter to the state, a string has what it normalises to and a
  batch is any subset.
* **Constraints on single rows of citations and candidates** in the trace schema, and the
  parsing of a profile before it is validated.
* **Wording**: details, labels, wrapping, prompts, the JSON schema sent to the model.
* **Configuration, compose files, tools, observability**: no state anything reads back.
* **The encoder and the model**: external. What depends on them is modelled: a
  batch that fails, a text too long, a generation that fails.
* **Database upgrades**: migrations are read for their constraints; moving between
  versions is not modelled.
* **Time**: none is needed but for fairness; timeouts are an error return that may
  come at any moment.


## 7. Plan

What is written, and then the rest in the order it matters.

1. `Verification`, `Turn`, `TurnContract`: the trust boundary. *Done.*
2. `Ingestion`, `CorpusTables`: the tables it trusts. *Done.*
3. First proofs of both. *Done.*
4. `Retrieval`: one attempt on Catena's side. *Done, with its proofs.*
5. `Acquire`, `Browse`: where blessed text comes from, and who blesses it. *Done, with
   their proofs.*
6. `Extraction`, `Segmentation`: the adapters. *Done.*
7. Proofs of the rest of `Turn`'s safety. *Done.* `Segmentation`: that what is accepted is
   numbered through. *Done.*
8. `Berean`: `Ingestion` under `Turn`. *Done, with its proofs.* `Retrieval` beside them is
   not: whether a locus whose ruling was dropped can ever be answered, and what the trace
   then says. Nor is `Acquire` in the place of `Ingestion`'s own stager.
9. `TraceStore`: `validate` against every per-row constraint, as two operators over one
   set of turns, compared.
10. `Profile`: tiers and refusals as operators against a reference definition.

### Running

`tlc -config turn_race.cfg MCTurn.tla`, and likewise for the others with the module
`PROJECT.json` names; `tlapm TurnProofs.tla`, and likewise `TurnRulesProofs`, `IngestionProofs`,
`BereanProofs`, `RetrievalProofs`, `BrowseProofs`, `SegmentationProofs` and `ProofLemmas`, each in a minute or two.
