----------------------------- MODULE Ingestion -----------------------------
(***************************************************************************)
(* `catena ingest` over one corpus: load staging, check it against the     *)
(* blessed fingerprints, diff it against the tables, commit the text in    *)
(* one transaction, then embed the backlog a batch at a time.  An          *)
(* invocation can die between any two statements and is simply run again;  *)
(* nothing but the tables remembers what was done.                         *)
(*                                                                         *)
(* Acquisition writes four files, each replaced by a rename: manifest.yaml *)
(* and fingerprints.txt when a person blesses an edition, records.jsonl    *)
(* and work.json when it stages one.  An invocation reads the last three.  *)
(*                                                                         *)
(* `catena ingest --all` runs run_one for each corpus in turn, over rows   *)
(* and files no other corpus shares, so one corpus is the whole story.  A  *)
(* text stands for its content hash: the hash is the text's own.           *)
(***************************************************************************)
EXTENDS Integers, FiniteSets

CONSTANTS
    Procs,        \* invocations of catena ingest that may run at once
    Locators,
    Texts,        \* normalised chunk texts
    Overlong,     \* those that exceed the embedding model's window
    Editions,     \* what acquisition may stage: texts, work facts, terms, contract version
    None,         \* no chunk, no vector, no file
    MaxStagings,  \* bound on acquisitions
    MaxRuns       \* bound on invocations by one of Procs, restarts included

Text == Texts \cup {None}
Edition == [texts : [Locators -> Text], work : STRING, terms : STRING, version : Nat \ {0}]

ASSUME LocatorsAssumption == IsFiniteSet(Locators)
ASSUME NoneAssumption == None \notin Texts
ASSUME OverlongAssumption == Overlong \subseteq Texts
ASSUME EditionsAssumption ==
    /\ Editions \subseteq Edition
    /\ \A e \in Editions : e.work # None
ASSUME BoundsAssumption == MaxStagings \in Nat /\ MaxRuns \in Nat

VARIABLES
    chunks,       \* corpus.chunks: locator -> its row; text None where there is none
    embeddings,   \* corpus.chunk_embeddings: locator -> the text its vector is of
    works,        \* corpus.works: the work facts, None before the first ingestion
    manifest,     \* manifest.yaml: terms and version blessed, None if absent
    fingerprints, \* fingerprints.txt: locator -> the text it blesses, None if absent
    records,      \* stage/records.jsonl: locator -> text, None if absent
    declared,     \* stage/work.json: work facts, version and count, None if absent
    stager,       \* the acquisition under way
    stagings,     \* acquisitions so far, at most MaxStagings
    approved,     \* history: every text a person has blessed
    pc,           \* where each invocation is
    runs,         \* invocations each of Procs has started, at most MaxRuns
    execute,      \* --apply
    loaded,       \* StagedCorpus, and work.json alone until records.jsonl is read
    plan,         \* the Plan of the invocation
    pending       \* chunks the backlog query returned, not yet embedded

tables == <<chunks, embeddings, works>>
files  == <<manifest, fingerprints, records, declared, stager, stagings, approved>>
local  == <<pc, runs, execute, loaded, plan, pending>>
vars   == <<tables, files, local>>

Working == {"load", "records", "check", "plan", "text", "backlog", "embed"}
Ended   == {"never", "done", "dry", "refused", "failed", "killed"}

NoPlan == [inserts |-> {}, updates |-> {}, deletes |-> {}, unembedded |-> {}]
NoCorpus == [work |-> None, version |-> 0, count |-> 0, texts |-> None]

Chunks(texts) == {l \in Locators : texts[l] # None}

\* What ingestion sees of the chunks table: the text of each row.
StoredTexts == [l \in Locators |-> chunks[l].text]

---------------------------------------------------------------------------
(* Acquisition, as far as ingestion can see it.                            *)

\* Of the work a manifest keeps the terms alone: licence, attribution, addresses
\* and diagnostic.  Its title, its author and the rest are the adapter's.
BlessedFacts(e) == [terms |-> e.terms, version |-> e.version]

\* A person types a name, and the manifest is written at once.
Bless(e) ==
    /\ stager.pc = "idle" /\ stagings < MaxStagings
    /\ approved' = approved \cup {e.texts}
    /\ manifest' = BlessedFacts(e)
    /\ stager' = [pc |-> "fingerprints", edition |-> e]
    /\ stagings' = stagings + 1
    /\ UNCHANGED <<tables, fingerprints, records, declared, local>>

\* The rest of pipeline.bless; run_one then stages.
WriteFingerprints ==
    /\ stager.pc = "fingerprints"
    /\ fingerprints' = stager.edition.texts
    /\ stager' = [stager EXCEPT !.pc = "records"]
    /\ UNCHANGED <<tables, manifest, records, declared, stagings, approved, local>>

\* Re-acquiring.  A corpus with a manifest is staged only when it verifies: the
\* terms the manifest records, and every fingerprint.  Other facts of the work
\* may be new.  A corpus without a manifest is staged unverified.
Provision(e) ==
    /\ stager.pc = "idle" /\ stagings < MaxStagings
    /\ manifest \in {None, BlessedFacts(e)}
    /\ manifest # None => fingerprints = e.texts
    /\ stager' = [pc |-> "records", edition |-> e]
    /\ stagings' = stagings + 1
    /\ UNCHANGED <<tables, manifest, fingerprints, records, declared, approved, local>>

WriteRecords ==
    /\ stager.pc = "records"
    /\ records' = stager.edition.texts
    /\ stager' = [stager EXCEPT !.pc = "work"]
    /\ UNCHANGED <<tables, manifest, fingerprints, declared, stagings, approved, local>>

WriteWork ==
    /\ stager.pc = "work"
    /\ declared' = [work    |-> stager.edition.work,
                    version |-> stager.edition.version,
                    count   |-> Cardinality(Chunks(stager.edition.texts))]
    /\ stager' = [stager EXCEPT !.pc = "idle"]
    /\ UNCHANGED <<tables, manifest, fingerprints, records, stagings, approved, local>>

StagerDies ==
    /\ stager.pc # "idle"
    /\ stager' = [stager EXCEPT !.pc = "idle"]
    /\ UNCHANGED <<tables, manifest, fingerprints, records, declared, stagings, approved,
                   local>>

---------------------------------------------------------------------------
(* run_one, up to the plan: reads, and refusals.                           *)

Goto(p, label) == pc' = [pc EXCEPT ![p] = label]

\* A new process: nothing of an earlier invocation survives in memory.
Start(p) ==
    /\ pc[p] \in Ended /\ runs[p] < MaxRuns
    /\ runs' = [runs EXCEPT ![p] = @ + 1]
    /\ \E apply \in BOOLEAN : execute' = [execute EXCEPT ![p] = apply]
    /\ loaded' = [loaded EXCEPT ![p] = NoCorpus]
    /\ plan' = [plan EXCEPT ![p] = NoPlan]
    /\ pending' = [pending EXCEPT ![p] = {}]
    /\ Goto(p, "load")
    /\ UNCHANGED <<tables, files>>

\* source.load reads work.json first.
ReadWork(p) ==
    /\ pc[p] = "load"
    /\ IF declared = None
       THEN Goto(p, "refused") /\ UNCHANGED loaded
       ELSE /\ loaded' = [loaded EXCEPT ![p] = [work |-> declared.work,
                                                version |-> declared.version,
                                                count |-> declared.count,
                                                texts |-> None]]
            /\ Goto(p, "records")
    /\ UNCHANGED <<tables, files, runs, execute, plan, pending>>

\* work.json may have been there and records.jsonl not: open raises.
ReadRecords(p) ==
    /\ pc[p] = "records"
    /\ IF records # None /\ Cardinality(Chunks(records)) = loaded[p].count
       THEN loaded' = [loaded EXCEPT ![p].texts = records] /\ Goto(p, "check")
       ELSE Goto(p, "refused") /\ UNCHANGED loaded
    /\ UNCHANGED <<tables, files, runs, execute, plan, pending>>

\* Variant: a committed locator missing from staging is not a disagreement.
BlessedMissingAllowed(texts) ==
    fingerprints # None /\ \A l \in Chunks(texts) : fingerprints[l] = texts[l]

\* Variant: with no fingerprints committed there is nothing to disagree with.
BlessedUnlessAbsent(texts) == fingerprints = None \/ fingerprints = texts

\* check_fingerprints: missing, unexpected and mismatched all refuse.
Blessed(texts) == fingerprints = texts

\* check_token_limit.
WithinLimit(texts) == \A l \in Chunks(texts) : texts[l] \notin Overlong

CheckStaging(p) ==
    /\ pc[p] = "check"
    /\ Goto(p, IF Blessed(loaded[p].texts) /\ WithinLimit(loaded[p].texts)
               THEN "plan" ELSE "refused")
    /\ UNCHANGED <<tables, files, runs, execute, loaded, plan, pending>>

\* Variant: a row hashed under another contract version counts as changed.
DiffOnVersion(staged) ==
    LET common == Chunks(staged.texts) \cap Chunks(StoredTexts)
        changed == {l \in common : \/ staged.texts[l] # chunks[l].text
                                   \/ staged.version # chunks[l].version}
    IN  [inserts    |-> Chunks(staged.texts) \ Chunks(StoredTexts),
         updates    |-> changed,
         deletes    |-> Chunks(StoredTexts) \ Chunks(staged.texts),
         unembedded |-> {l \in common \ changed : embeddings[l] = None}]

\* plan.diff, over the rows as existing_chunks reads them.
Diff(staged) ==
    LET common == Chunks(staged.texts) \cap Chunks(StoredTexts)
        changed == {l \in common : staged.texts[l] # chunks[l].text}
    IN  [inserts    |-> Chunks(staged.texts) \ Chunks(StoredTexts),
         updates    |-> changed,
         deletes    |-> Chunks(StoredTexts) \ Chunks(staged.texts),
         unembedded |-> {l \in common \ changed : embeddings[l] = None}]

\* Plan.converged.
Converged(pl) == pl.inserts \cup pl.updates \cup pl.deletes \cup pl.unembedded = {}

\* One autocommitted read; nothing is held open behind it.  A dry run ends here.
MakePlan(p) ==
    /\ pc[p] = "plan"
    /\ plan' = [plan EXCEPT ![p] = Diff(loaded[p])]
    /\ Goto(p, IF execute[p] THEN "text" ELSE "dry")
    /\ UNCHANGED <<tables, files, runs, execute, loaded, pending>>

---------------------------------------------------------------------------
(* Phase one.                                                              *)

\* Chunks keeps one row per locator: inserting over one aborts the transaction.
Insertable(p) == \A l \in plan[p].inserts : chunks[l].text = None

\* The rows an UPDATE of the plan's updates reaches.
Touched(p) == plan[p].updates \cap Chunks(StoredTexts)

\* Variant: blessed text that left the edition stays in the table.
NewRowsWithoutDeletes(p) ==
    LET written == Touched(p) \cup plan[p].inserts IN
    [l \in Locators |->
        [id      |-> IF l \in plan[p].inserts THEN chunks[l].id + 1 ELSE chunks[l].id,
         text    |-> IF l \in written THEN loaded[p].texts[l] ELSE chunks[l].text,
         version |-> IF l \in written THEN loaded[p].version ELSE chunks[l].version]]

\* A row's id is how many rows its locator has had; an insert takes a new one.
NewRows(p) ==
    LET written == Touched(p) \cup plan[p].inserts IN
    [l \in Locators |->
        [id      |-> IF l \in plan[p].inserts THEN chunks[l].id + 1 ELSE chunks[l].id,
         text    |-> IF l \in plan[p].deletes THEN None
                    ELSE IF l \in written THEN loaded[p].texts[l] ELSE chunks[l].text,
         version |-> IF l \in written THEN loaded[p].version ELSE chunks[l].version]]

\* Variant: the schema is trusted to notice an update, as it does a delete.
KeptOnUpdate(p) ==
    [l \in Locators |-> IF l \in plan[p].deletes THEN None ELSE embeddings[l]]

\* Deletes cascade to the vectors; the vectors of updated rows are deleted by id.
KeptVectors(p) ==
    [l \in Locators |-> IF l \in plan[p].deletes \cup Touched(p) THEN None ELSE embeddings[l]]

\* upsert_work, delete, update, delete_embeddings, insert, in one transaction:
\* the works row it writes first serialises it with any other.  "failed" is a
\* commit whose acknowledgement was lost.
ApplyText(p) ==
    /\ pc[p] = "text"
    /\ Insertable(p)
    /\ works' = loaded[p].work
    /\ chunks' = NewRows(p)
    /\ embeddings' = KeptVectors(p)
    /\ Goto(p, "backlog") \/ Goto(p, "failed")
    /\ UNCHANGED <<files, runs, execute, loaded, plan, pending>>

\* A constraint, or the database, rolls the transaction back.
TextAborts(p) ==
    /\ pc[p] = "text"
    /\ Goto(p, "failed")
    /\ UNCHANGED <<tables, files, runs, execute, loaded, plan, pending>>

---------------------------------------------------------------------------
(* Phase two.                                                              *)

\* Variant: the resume query outer-joins from the vectors' side as well.
BacklogWithGhosts == {[locator |-> l, id |-> chunks[l].id, text |-> chunks[l].text] :
                         l \in {l \in Locators : embeddings[l] = None}}

Backlog == {[locator |-> l, id |-> chunks[l].id, text |-> chunks[l].text] :
               l \in {l \in Chunks(StoredTexts) : embeddings[l] = None}}

\* Variant: the backlog is taken from the plan rather than from the tables.
ReadBacklogOfPlan(p) ==
    /\ pc[p] = "backlog"
    /\ pending' = [pending EXCEPT ![p] =
                     {i \in Backlog : i.locator \in plan[p].inserts \cup plan[p].updates}]
    /\ Goto(p, IF pending'[p] = {} THEN "done" ELSE "embed")
    /\ UNCHANGED <<tables, files, runs, execute, loaded, plan>>

\* The resume query: read once, text included, from the tables and not the plan.
ReadBacklog(p) ==
    /\ pc[p] = "backlog"
    /\ pending' = [pending EXCEPT ![p] = Backlog]
    /\ Goto(p, IF Backlog = {} THEN "done" ELSE "embed")
    /\ UNCHANGED <<tables, files, runs, execute, loaded, plan>>

\* The foreign key and the primary key of chunk_embeddings.
Writable(batch) ==
    \A i \in batch : /\ chunks[i.locator].text # None
                     /\ chunks[i.locator].id = i.id
                     /\ embeddings[i.locator] = None

\* Batches are formed by token count; which chunks share one is left open.
EmbedBatch(p) ==
    /\ pc[p] = "embed"
    /\ \E batch \in SUBSET pending[p] :
          /\ batch # {}
          /\ Writable(batch)
          /\ embeddings' = [l \in Locators |->
                IF \E i \in batch : i.locator = l
                THEN (CHOOSE i \in batch : i.locator = l).text
                ELSE embeddings[l]]
          /\ pending' = [pending EXCEPT ![p] = @ \ batch]
          /\ \/ Goto(p, IF batch = pending[p] THEN "done" ELSE "embed")
             \/ Goto(p, "failed")
    /\ UNCHANGED <<chunks, works, files, runs, execute, loaded, plan>>

\* Variant: a batch that failed is tried again from a fresh backlog.
EmbedRetries(p) ==
    /\ pc[p] = "embed"
    /\ Goto(p, "backlog")
    /\ UNCHANGED <<tables, files, runs, execute, loaded, plan, pending>>

\* A constraint, the database, or an encoder that returned too few vectors.
EmbedAborts(p) ==
    /\ pc[p] = "embed"
    /\ Goto(p, "failed")
    /\ UNCHANGED <<tables, files, runs, execute, loaded, plan, pending>>

Kill(p) ==
    /\ pc[p] \in Working
    /\ Goto(p, "killed")
    /\ UNCHANGED <<tables, files, runs, execute, loaded, plan, pending>>

---------------------------------------------------------------------------
Init ==
    /\ chunks = [l \in Locators |-> [id |-> 0, text |-> None, version |-> 0]]
    /\ embeddings = [l \in Locators |-> None]
    /\ works = None
    /\ manifest = None
    /\ fingerprints = None
    /\ records = None
    /\ declared = None
    /\ stager = [pc |-> "idle", edition |-> None]
    /\ stagings = 0
    /\ approved = {}
    /\ pc = [p \in Procs |-> "never"]
    /\ runs = [p \in Procs |-> 0]
    /\ execute = [p \in Procs |-> FALSE]
    /\ loaded = [p \in Procs |-> NoCorpus]
    /\ plan = [p \in Procs |-> NoPlan]
    /\ pending = [p \in Procs |-> {}]

Acquisition == \/ \E e \in Editions : Bless(e) \/ Provision(e)
               \/ WriteFingerprints \/ WriteRecords \/ WriteWork \/ StagerDies

Step(p) == \/ ReadWork(p) \/ ReadRecords(p) \/ CheckStaging(p) \/ MakePlan(p)
           \/ ApplyText(p) \/ TextAborts(p)
           \/ ReadBacklog(p) \/ EmbedBatch(p) \/ EmbedAborts(p)

Next == Acquisition \/ \E p \in Procs : Start(p) \/ Step(p) \/ Kill(p)

Spec == Init /\ [][Next]_vars

\* A process that is running goes on: files read, statements return or err, the
\* encoder returns.
FairSpec == Spec /\ \A p \in Procs : WF_vars(Step(p))

---------------------------------------------------------------------------
(* Types.                                                                  *)

Plan == [inserts : SUBSET Locators, updates : SUBSET Locators,
         deletes : SUBSET Locators, unembedded : SUBSET Locators]

Facts == {e.work : e \in Editions}

EditionTexts == {e.texts : e \in Editions}

TypeOK ==
    /\ chunks \in [Locators -> [id : Nat, text : Text, version : Nat]]
    /\ embeddings \in [Locators -> Text]
    /\ works \in Facts \cup {None}
    /\ manifest \in [terms : STRING, version : Nat] \cup {None}
    /\ fingerprints \in EditionTexts \cup {None}
    /\ records \in EditionTexts \cup {None}
    /\ declared \in [work : Facts, version : Nat, count : Nat] \cup {None}
    /\ stager \in [pc : {"idle", "fingerprints", "records", "work"}, edition : Editions]
                  \cup [pc : {"idle"}, edition : {None}]
    /\ stagings \in 0..MaxStagings
    /\ approved \subseteq EditionTexts
    /\ pc \in [Procs -> Working \cup Ended]
    /\ runs \in [Procs -> 0..MaxRuns]
    /\ execute \in [Procs -> BOOLEAN]
    /\ loaded \in [Procs -> [work : Facts \cup {None}, version : Nat, count : Nat,
                             texts : EditionTexts \cup {None}]]
    /\ plan \in [Procs -> Plan]
    /\ pending \in [Procs -> SUBSET [locator : Locators, id : Nat, text : Texts]]

---------------------------------------------------------------------------
(* The tables, with one invocation at a time.                              *)

\* A vector is always of the text its chunk now carries, wherever invocations
\* died and whatever editions they loaded: otherwise a chunk is retrieved for
\* what it used to say and quoted for what it now says (apply.py, apply_text).
VectorsAreFresh ==
    \A l \in Locators : embeddings[l] # None => embeddings[l] = chunks[l].text

\* The chunks table is empty or holds, whole, one edition somebody blessed:
\* never a part of one, never a mixture of two, never text staged unverified.
TextIsOneBlessedEdition ==
    StoredTexts \in approved \cup {[l \in Locators |-> None]}

\* An invocation that applied and succeeded leaves exactly what it loaded, and a
\* vector for all of it, however many invocations died before it.
CompletedRunConverges ==
    \A p \in Procs : pc[p] = "done" =>
        /\ StoredTexts = loaded[p].texts
        /\ works = loaded[p].work
        /\ \A l \in Chunks(StoredTexts) : embeddings[l] # None

\* Nothing embedded is embedded again: no step drops the vector of a chunk whose
\* text it leaves alone, so a run resumed costs only what was not yet done.
ResumeKeepsWork ==
    [][\A l \in Locators :
          embeddings[l] # None /\ chunks'[l].text = chunks[l].text =>
              embeddings'[l] = embeddings[l]]_vars

\* A dry run, and a run that is refused, writes nothing: the tables change only
\* in the two writing steps of an invocation told to apply.
OnlyApplyWrites ==
    [][tables' # tables => \E p \in Procs : execute[p] /\ pc[p] \in {"text", "embed"}]_vars

\* A plan that is called converged, when it is about to be applied and after a dry
\* run that printed it, is one of tables that hold what was loaded, all of it
\* embedded.  Of work facts it says nothing, and applying it may change them.
ConvergedIsEmbedded ==
    \A p \in Procs : pc[p] \in {"text", "dry"} /\ Converged(plan[p]) =>
        /\ StoredTexts = loaded[p].texts
        /\ \A l \in Chunks(StoredTexts) : embeddings[l] # None

\* Every invocation that goes on running ends.
IngestEnds == \A p \in Procs : pc[p] \in Working ~> pc[p] \in Ended

\* The tables change as CorpusTables says they do.
Tables == INSTANCE CorpusTables WITH
    text     <- StoredTexts,
    facts    <- works,
    embedded <- {l \in Locators : embeddings[l] # None},
    Texts    <- EditionTexts

\* A reader finds the whole text of one edition, replaced in one step, and loses
\* no vector but those of text that changed (CorpusTables).
KeepsTables == Tables!Spec

---------------------------------------------------------------------------
(* What the code's comments say and the code does not keep.                *)

\* source.py:57 says load refuses "anything that is not whole": the text and
\* the work facts it returns are of one edition.
LoadedIsWhole ==
    \A p \in Procs : loaded[p].texts # None =>
        \E e \in Editions : e.texts = loaded[p].texts /\ e.work = loaded[p].work
=============================================================================
