------------------------------ MODULE Acquire ------------------------------
(***************************************************************************)
(* One corpus from its publisher to the staging seam: acquire/fetch.py,    *)
(* the pipeline of acquire/pipeline.py, and the run acquire/cli.py makes   *)
(* of it at a terminal.  Runs share the corpus's directories: each stage   *)
(* writes its file and the next one reads that file back.                  *)
(*                                                                         *)
(* A hash is the thing hashed.  A file appears whole or not at all, by     *)
(* temp-then-rename; a crash falls between two files.  What an adapter     *)
(* makes of a document is a parameter here and a module of its own.        *)
(***************************************************************************)
EXTENDS Naturals, Sequences, FiniteSets

CONSTANTS
    Runs,             \* processes and threads that may acquire the corpus
    Terminals,        \* those of Runs that are `catena acquire` at a terminal
    Pages,            \* pages a followed index may name, numbered in reading order
    Contents,         \* what a page may say
    Sites,            \* what the publisher may have up
    Archive,          \* the snapshot at archive_url, or None
    LocalCopies,      \* what --from-file may be pointed at
    Index(_),         \* plan.follow: the pages a site's index names
    Extract(_),       \* adapter.extract: a document, None when it has no text
    Segments(_),      \* adapter.segment: a sequence of segments
    Normalise(_, _),  \* normalise.normalise under a contract version
    Blank,            \* the empty string
    Locators, Texts, Documents,
    Adapters,         \* versions of the adapter that may be deployed
    Deployed,         \* the one that is deployed first
    OneAtATime,       \* TRUE if nobody starts an acquisition during another
    MaxEvents,        \* bound on things that befall the world
    MaxTerminalRuns,  \* bound on commands typed
    None, Unreadable

ASSUME RunsAssumption == Terminals \subseteq Runs /\ Pages \subseteq Nat
ASSUME SitesAssumption == /\ Sites \subseteq [Pages -> Contents]
                          /\ Archive \in Sites \cup {None}
                          /\ \A s \in Sites : Index(s) \subseteq Pages
                          /\ Pages # {}
ASSUME BoundsAssumption == /\ OneAtATime \in BOOLEAN
                           /\ MaxEvents \in Nat /\ MaxTerminalRuns \in Nat

\* What a fetch hands on.  An archive wraps what it stores, so its bytes differ.
Blob == [pages : UNION {[S -> Contents] : S \in SUBSET Pages}, archived : BOOLEAN]

ASSUME LocalCopiesAssumption == LocalCopies \subseteq Blob

Segment      == [locator : Locators, text : Texts \cup {Blank}]
Fingerprints == UNION {[S -> Texts] : S \in SUBSET Locators}

\* What the repository's code says of the corpus.
Adapter  == [contract : Nat, facts : STRING, license : STRING,
             diagnostic : Locators, complete : BOOLEAN]
Manifest == [upstream : Blob, adapter : Adapter, count : Nat, expected : Texts]

ASSUME AdaptersAssumption == Adapters \subseteq Adapter /\ Deployed \in Adapters

\* An adapter takes whatever bytes it is given, and may find no text in them.
ASSUME ParsersAssumption ==
    /\ \A S \in SUBSET Pages : \A pages \in [S -> Contents] : Extract(pages) \in Documents \cup {None}
    /\ \A d \in Documents : Segments(d) \in Seq(Segment)
    /\ \A a \in Adapters, t \in Texts \cup {Blank} :
          Normalise(a.contract, t) \in Texts \cup {Blank}

\* What a file holds once work.json is written.
Facts == [license : STRING, count : Nat]

ASSUME NoneAssumption ==
    /\ None # Unreadable
    /\ {None, Unreadable} \cap (Blob \cup Fingerprints \cup Manifest \cup Facts \cup Documents
                                \cup Texts \cup Sites) = {}

VARIABLES
    source,       \* what the publisher has up
    up,           \* whether it answers
    follow,       \* whether the corpus is an index and its pages
    adapter,      \* the adapter deployed
    cache,        \* fetch/: digests with a blob
    damaged,      \* digests whose blob no longer hashes to its name
    document,     \* extract/document.txt
    segments,     \* segment/segments.jsonl
    stage,        \* stage/records.jsonl and stage/work.json
    manifest,     \* the committed manifest.yaml
    fingerprints, \* the committed fingerprints.txt
    run,          \* where each run is
    events,       \* things that have befallen the world
    typed,        \* commands typed
    since,        \* history: what was up at some time during each --verify-only
    approved      \* history: blessings a human put a name to

upstream == <<source, up, follow, adapter>>
blobs    == <<cache, damaged>>
working  == <<document, segments>>
evidence == <<manifest, fingerprints>>
bounds   == <<events, typed>>
acquireVars == <<upstream, blobs, working, stage, evidence, run, bounds, since, approved>>

Idle == [pc |-> "idle", mode |-> "none", file |-> None, manifest |-> None,
         committed |-> None, read |-> None, left |-> {}, bytes |-> None, records |-> None]

Modes == {"provision", "verify", "show", "bless", "browser"}

Init0 ==
    /\ source \in Sites /\ up = TRUE /\ follow \in BOOLEAN /\ adapter = Deployed
    /\ cache = {} /\ damaged = {}
    /\ document = None /\ segments = <<>>
    /\ stage = [records |-> None, work |-> None]
    /\ manifest = None /\ fingerprints = None
    /\ run = [r \in Runs |-> Idle]
    /\ events = 0 /\ typed = 0
    /\ since = [r \in Runs |-> {}] /\ approved = {}

---------------------------------------------------------------------------
(* The steps of a run.                                                     *)

At(r, pc) == run[r].pc = pc
Become(r, new) == run' = [run EXCEPT ![r] = new]
Goto(r, pc) == Become(r, [run[r] EXCEPT !.pc = pc])
Refuse(r) == Goto(r, "refused")

Free == OneAtATime => \A r \in Runs : At(r, "idle")

\* run_one up to the acquisition.  The evidence is read here and kept.
Begin(r, mode, file) ==
    /\ r \in Terminals /\ At(r, "idle") /\ Free
    /\ typed < MaxTerminalRuns /\ typed' = typed + 1
    /\ since' = [since EXCEPT ![r] = IF mode = "verify" THEN {source} ELSE {}]
    /\ Become(r, [Idle EXCEPT !.mode = mode, !.file = file,
                              !.manifest = manifest, !.committed = fingerprints,
                              !.pc = IF \/ manifest = Unreadable \/ fingerprints = Unreadable
                                        \/ manifest = None /\ mode = "verify"
                                     THEN "refused" ELSE "fetch"])
    /\ UNCHANGED <<upstream, blobs, working, stage, evidence, events, approved>>

Store(r, blob) ==
    /\ cache' = cache \cup {blob}
    /\ Become(r, [run[r] EXCEPT !.bytes = blob, !.left = {}, !.pc = "extract"])
    /\ UNCHANGED damaged

Fetching(r) ==
    /\ At(r, "fetch")
    /\ UNCHANGED <<upstream, working, stage, evidence, bounds, since, approved>>

ReadLocalCopy(r) ==
    /\ Fetching(r) /\ run[r].file # None
    /\ Store(r, run[r].file)

LocalCopyUnreadable(r) ==
    /\ Fetching(r) /\ run[r].file # None
    /\ Refuse(r) /\ UNCHANGED blobs

\* Variant: --verify-only is as content with the cache as any other run.
CacheHitForAll(r) == /\ run[r].file = None
                     /\ run[r].manifest # None /\ run[r].manifest.upstream \in cache

\* refetch: drift is what --verify-only is there to notice.
CacheHit(r) == /\ run[r].file = None /\ run[r].mode # "verify"
               /\ run[r].manifest # None /\ run[r].manifest.upstream \in cache

\* The blob is hashed again: its name is not trusted.
ReadCache(r) ==
    /\ Fetching(r) /\ CacheHit(r)
    /\ IF run[r].manifest.upstream \in damaged THEN Refuse(r)
       ELSE Become(r, [run[r] EXCEPT !.bytes = run[r].manifest.upstream, !.pc = "extract"])
    /\ UNCHANGED blobs

\* The source, or the archive when it does not answer.  A followed corpus gets
\* its index this way, and then the pages the index names.
Download(r) ==
    /\ Fetching(r) /\ run[r].file = None /\ ~CacheHit(r)
    /\ LET got == IF up THEN source ELSE Archive IN
       IF got = None \/ (follow /\ Index(got) = {})
       THEN Refuse(r) /\ UNCHANGED blobs
       ELSE IF follow
       THEN /\ Become(r, [run[r] EXCEPT !.left = Index(got), !.pc = "pages",
                                        !.bytes = [pages |-> <<>>, archived |-> FALSE]])
            /\ UNCHANGED blobs
       ELSE Store(r, [pages |-> got, archived |-> ~up])

\* The archive need not answer either.
NeitherAnswers(r) ==
    /\ Fetching(r) /\ run[r].file = None /\ ~CacheHit(r)
    /\ ~up
    /\ Refuse(r) /\ UNCHANGED blobs

\* Pages are asked for one by one, and have no archive to fall back on.
FetchPage(r) ==
    /\ At(r, "pages")
    /\ LET p    == CHOOSE p \in run[r].left : \A q \in run[r].left : p <= q
           have == run[r].bytes.pages
           blob == [run[r].bytes EXCEPT !.pages =
                      [q \in DOMAIN have \cup {p} |-> IF q = p THEN source[p] ELSE have[q]]]
       IN IF ~up THEN Refuse(r) /\ UNCHANGED blobs
          ELSE IF run[r].left = {p} THEN Store(r, blob)
          ELSE /\ Become(r, [run[r] EXCEPT !.bytes = blob, !.left = @ \ {p}])
               /\ UNCHANGED blobs
    /\ UNCHANGED <<upstream, working, stage, evidence, bounds, since, approved>>

Working(r, pc) ==
    /\ At(r, pc)
    /\ UNCHANGED <<upstream, blobs, stage, evidence, bounds, since, approved>>

ExtractDocument(r) ==
    /\ Working(r, "extract")
    /\ LET text == Extract(run[r].bytes.pages) IN
       IF text = None THEN Refuse(r) /\ UNCHANGED document
       ELSE document' = text /\ Goto(r, "segment")
    /\ UNCHANGED segments

\* Variant: segments already there are reused.
SegmentDocumentOnce(r) ==
    /\ Working(r, "segment")
    /\ LET found == IF segments # <<>> THEN segments ELSE Segments(document) IN
       IF found = <<>> THEN Refuse(r) /\ UNCHANGED segments
       ELSE segments' = found /\ Goto(r, "normalise")
    /\ UNCHANGED document

SegmentDocument(r) ==
    /\ Working(r, "segment")
    /\ LET found == Segments(document) IN
       IF found = <<>> THEN Refuse(r) /\ UNCHANGED segments
       ELSE segments' = found /\ Goto(r, "normalise")
    /\ UNCHANGED document

\* The records a run of segments makes, None if it is refused: a locator twice,
\* or nothing left of a segment once normalised.
Normalised(found) ==
    LET text(i) == Normalise(adapter.contract, found[i].text) IN
    IF \/ \E i, j \in DOMAIN found : i # j /\ found[i].locator = found[j].locator
       \/ \E i \in DOMAIN found : text(i) = Blank
    THEN None
    ELSE [l \in {found[i].locator : i \in DOMAIN found} |->
             text(CHOOSE i \in DOMAIN found : found[i].locator = l)]

NormaliseSegments(r) ==
    /\ Working(r, "normalise")
    /\ IF Normalised(segments) = None THEN Refuse(r)
       ELSE Become(r, [run[r] EXCEPT !.records = Normalised(segments), !.pc = "acquired"])
    /\ UNCHANGED working

---------------------------------------------------------------------------
(* What is done with an acquisition.                                       *)

Acquired(r, mode) ==
    /\ At(r, "acquired") /\ run[r].mode = mode
    /\ UNCHANGED <<upstream, blobs, working, stage, evidence, bounds, since>>

HasDiagnostic(r) == adapter.diagnostic \in DOMAIN run[r].records

ShowDiagnostic(r) ==
    /\ Acquired(r, "show") /\ UNCHANGED approved
    /\ IF HasDiagnostic(r) THEN Goto(r, "done") ELSE Refuse(r)

\* The three classes of fp.compare, none of them allowed.
Diff(committed, acquired) ==
    [missing    |-> DOMAIN committed \ DOMAIN acquired,
     unexpected |-> DOMAIN acquired \ DOMAIN committed,
     mismatched |-> {l \in DOMAIN committed \cap DOMAIN acquired : committed[l] # acquired[l]}]

\* Variant: only what was acquired is looked at.
CleanOfAcquired(diff) == diff.unexpected \cup diff.mismatched = {}

Clean(diff) == diff.missing \cup diff.unexpected \cup diff.mismatched = {}

EditionOk(m, records) ==
    /\ m.adapter.diagnostic \in DOMAIN records
    /\ records[m.adapter.diagnostic] = m.expected

\* pipeline.verify: the manifest and the code agree about what the corpus is,
\* and the acquisition is what the evidence says.
Verifies(r) ==
    LET m == run[r].manifest IN
    /\ m.adapter.contract = adapter.contract
    /\ m.adapter.facts = adapter.facts /\ m.adapter.license = adapter.license
    /\ m.adapter.diagnostic = adapter.diagnostic
    /\ Clean(Diff(run[r].committed, run[r].records))
    /\ m.count = Cardinality(DOMAIN run[r].records)
    /\ EditionOk(m, run[r].records)

\* A corpus never blessed is staged unverified.
Provision(r) ==
    /\ Acquired(r, "provision") /\ UNCHANGED approved
    /\ IF run[r].manifest = None THEN Goto(r, "records")
       ELSE IF run[r].committed # None /\ Verifies(r) THEN Goto(r, "records")
       ELSE Refuse(r)

VerifyOnly(r) ==
    /\ Acquired(r, "verify") /\ UNCHANGED approved
    /\ IF run[r].committed # None /\ Verifies(r) THEN Goto(r, "done") ELSE Refuse(r)

\* The manifest a blessing of this run would commit.
ManifestOf(r) ==
    [upstream |-> run[r].bytes, adapter |-> adapter,
     count |-> Cardinality(DOMAIN run[r].records),
     expected |-> run[r].records[adapter.diagnostic]]

\* The passage has been read and a name typed.  An adapter mf.parse would not
\* read back is refused before anything is written.
Bless(r, passage) ==
    IF ~HasDiagnostic(r) \/ ~adapter.complete THEN Refuse(r) /\ UNCHANGED approved
    ELSE /\ approved' = approved \cup {[read |-> passage, manifest |-> ManifestOf(r),
                                        fingerprints |-> run[r].records]}
         /\ Become(r, [run[r] EXCEPT !.read = passage, !.manifest = ManifestOf(r),
                                     !.pc = "manifest"])

\* The human at the terminal is shown the passage and types a name, and first
\* the confirmation if fingerprints were committed when the run began.
Approve(r) ==
    /\ Acquired(r, "bless")
    /\ Bless(r, IF HasDiagnostic(r) THEN run[r].records[adapter.diagnostic] ELSE None)

\* Not a terminal, the confirmation mistyped, or no name.
Decline(r) == Acquired(r, "bless") /\ Refuse(r) /\ UNCHANGED approved

WriteManifest(r) ==
    /\ At(r, "manifest")
    /\ manifest' = run[r].manifest
    /\ Goto(r, "fingerprints")
    /\ UNCHANGED <<upstream, blobs, working, stage, fingerprints, bounds, since, approved>>

WriteFingerprints(r) ==
    /\ At(r, "fingerprints")
    /\ fingerprints' = run[r].records
    /\ Goto(r, "records")
    /\ UNCHANGED <<upstream, blobs, working, stage, manifest, bounds, since, approved>>

\* Variant: the facts are written before the records.
WriteRecordsLast(r) ==
    /\ At(r, "records")
    /\ stage' = [stage EXCEPT !.work = [license |-> adapter.license,
                                        count |-> Cardinality(DOMAIN run[r].records)]]
    /\ Goto(r, "work")
    /\ UNCHANGED <<upstream, blobs, working, evidence, bounds, since, approved>>

\* write_stage: the records, then the facts beside them.
WriteRecords(r) ==
    /\ At(r, "records")
    /\ stage' = [stage EXCEPT !.records = run[r].records]
    /\ Goto(r, "work")
    /\ UNCHANGED <<upstream, blobs, working, evidence, bounds, since, approved>>

WriteWork(r) ==
    /\ At(r, "work")
    /\ stage' = [stage EXCEPT !.work = [license |-> adapter.license,
                                        count |-> Cardinality(DOMAIN run[r].records)]]
    /\ Goto(r, "done")
    /\ UNCHANGED <<upstream, blobs, working, evidence, bounds, since, approved>>

Exit(r) ==
    /\ r \in Terminals /\ run[r].pc \in {"done", "refused"}
    /\ Become(r, Idle)
    /\ since' = [since EXCEPT ![r] = {}]
    /\ UNCHANGED <<upstream, blobs, working, stage, evidence, bounds, approved>>

\* What a run does by itself once it has been started.
Proceed(r) ==
    \/ ReadLocalCopy(r) \/ LocalCopyUnreadable(r) \/ ReadCache(r)
    \/ Download(r) \/ NeitherAnswers(r) \/ FetchPage(r)
    \/ ExtractDocument(r) \/ SegmentDocument(r) \/ NormaliseSegments(r)
    \/ ShowDiagnostic(r) \/ Provision(r) \/ VerifyOnly(r) \/ Approve(r) \/ Decline(r)
    \/ WriteManifest(r) \/ WriteFingerprints(r) \/ WriteRecords(r) \/ WriteWork(r)
    \/ Exit(r)

---------------------------------------------------------------------------
(* What befalls the world, at most MaxEvents times.                        *)

Befalls == events < MaxEvents /\ events' = events + 1

Republish ==
    /\ Befalls /\ source' \in Sites \ {source}
    /\ since' = [r \in Runs |-> IF run[r].mode = "verify" THEN since[r] \cup {source'} ELSE {}]
    /\ UNCHANGED <<up, follow, adapter, blobs, working, stage, evidence, run, typed, approved>>

Outage ==
    /\ Befalls /\ up /\ up' = FALSE
    /\ UNCHANGED <<source, follow, adapter, blobs, working, stage, evidence, run, typed, since,
                   approved>>

Recover ==
    /\ ~up /\ up' = TRUE
    /\ UNCHANGED <<source, follow, adapter, blobs, working, stage, evidence, run, bounds, since,
                   approved>>

\* The directories are bind mounts: a blob may be truncated, and what is
\* committed may be merged badly.
Damage ==
    /\ Befalls
    /\ \/ /\ \E b \in cache \ damaged : damaged' = damaged \cup {b}
          /\ UNCHANGED evidence
       \/ /\ manifest # None /\ manifest' = Unreadable
          /\ UNCHANGED <<damaged, fingerprints>>
       \/ /\ fingerprints # None /\ fingerprints' = Unreadable
          /\ UNCHANGED <<damaged, manifest>>
    /\ UNCHANGED <<upstream, cache, working, stage, run, typed, since, approved>>

Kill(r) ==
    /\ Befalls /\ r \in Terminals /\ ~At(r, "idle")
    /\ Become(r, Idle)
    /\ since' = [since EXCEPT ![r] = {}]
    /\ UNCHANGED <<upstream, blobs, working, stage, evidence, typed, approved>>

AcquireNext ==
    \/ \E r \in Runs : \/ \E mode \in Modes \ {"browser"}, file \in LocalCopies \cup {None} :
                             Begin(r, mode, file)
                       \/ Proceed(r) \/ Kill(r)
    \/ Republish \/ Outage \/ Recover \/ Damage
=============================================================================
