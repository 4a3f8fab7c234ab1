------------------------------- MODULE Berean -------------------------------
(***************************************************************************)
(* The whole path of a quotation: a person blesses an edition, `catena     *)
(* ingest` commits it, and `berean ask` quotes it.  Turn and Ingestion over *)
(* one database, where Turn alone assumes what ingestion may commit.       *)
(*                                                                         *)
(* Turn's variables are this module's; Catena is Ingestion of one corpus,  *)
(* the others stand still.  The gateway and catena share the tables and    *)
(* nothing else: rows and vectors are corpus.chunks and                    *)
(* corpus.chunk_embeddings as catena writes them, chunks, license and      *)
(* embedded the same tables as the gateway reads them.                     *)
(*                                                                         *)
(* The corpus starts out empty.  A process in "load" has read nothing yet, *)
(* so one that waits there finds the tables in any state they get into.    *)
(***************************************************************************)
EXTENDS Turn

CONSTANTS
    Corpus,       \* the corpus being acquired and ingested
    Procs,        \* Ingestion's constants; Staged is its Editions
    Texts,
    Overlong,
    Staged,
    MaxStagings,
    MaxRuns,
    LicenseOf(_)  \* the licence among a work's facts, "unknown" where no work is

VARIABLES
    rows,         \* Ingestion's variables; rows, vectors and at are its chunks,
    vectors,      \* embeddings and pc
    works,
    manifest,
    fingerprints,
    records,
    declared,
    stager,
    stagings,
    approved,
    at,
    runs,
    execute,
    loaded,
    plan,
    pending

Catena == INSTANCE IngestionProofs WITH
    Editions   <- Staged,
    chunks     <- rows,
    embeddings <- vectors,
    pc         <- at

ASSUME CorpusAssumption == Corpus \in Corpora
ASSUME LocatorsAssumption == IsFiniteSet(Locators)
ASSUME TextsAssumption == Texts \subseteq Strings /\ Overlong \subseteq Texts
ASSUME StagedAssumption ==
    /\ Staged \subseteq Catena!Edition
    /\ \A e \in Staged : e.work # None
ASSUME BoundsAssumption == MaxStagings \in Nat /\ MaxRuns \in Nat
ASSUME LicenseAssumption ==
    /\ \A w \in Catena!Facts : LicenseOf(w) \in License \cup {"unknown"}
    /\ LicenseOf(None) = "unknown"

\* Turn's editions are all that ingestion can commit.  Text and work facts are
\* read from two files, so any text may arrive under any facts.
ASSUME EditionsCover ==
    {[corpus |-> Corpus, license |-> LicenseOf(w), texts |-> t] :
        w \in Catena!Facts, t \in Catena!EditionTexts} \subseteq Editions

gateway == <<ask, pc, unprobed, turn, recorded, screen>>
stored  == <<rows, vectors, works>>
catena  == <<stored, manifest, fingerprints, records, declared, stager, stagings, approved,
             at, runs, execute, loaded, plan, pending>>
systemVars == <<vars, catena>>

---------------------------------------------------------------------------
SystemInit ==
    /\ Init
    /\ Catena!Init
    /\ license[Corpus] = LicenseOf(works)
    /\ \A r \in Ref : r.corpus = Corpus => chunks[r] = rows[r.locator].text

\* A transaction of catena's commits: the next statement of the gateway sees it.
Commit ==
    /\ Catena!Next
    /\ stored' # stored
    /\ writes < MaxWrites
    /\ writes' = writes + 1
    /\ chunks' = [r \in Ref |->
                     IF r.corpus = Corpus THEN rows'[r.locator].text ELSE chunks[r]]
    /\ license' = [license EXCEPT ![Corpus] = LicenseOf(works')]
    /\ embedded' = {r \in Ref : IF r.corpus = Corpus THEN vectors'[r.locator] # None
                                                     ELSE r \in embedded}
    /\ held' = held \cup Rows(chunks', license')
    /\ UNCHANGED gateway

\* Everything else acquisition and catena do is out of the gateway's sight.
Prepare ==
    /\ UNCHANGED <<stored, vars>>
    /\ Catena!Next

\* The gateway's connection only reads.
Serve ==
    /\ Gateway \/ Kill
    /\ UNCHANGED catena

SystemNext == Commit \/ Prepare \/ Serve

System == SystemInit /\ [][SystemNext]_systemVars

---------------------------------------------------------------------------
\* What berean prints as a quotation of the corpus is in a text that a person
\* blessed, at the locator it is cited by: not in text staged unverified, nor in
\* what an invocation that died left behind, nor from another locator.
WhatIsShownWasBlessed ==
    Shown("answer") =>
        \A k \in DOMAIN screen.answer.citations :
            LET citation == screen.answer.citations[k] IN
            citation.corpus = Corpus =>
                \E texts \in approved : /\ texts[citation.locator] # None
                                        /\ QuoteFound(texts[citation.locator], citation.quote)

\* Turn checks and proves what it promises over tables that change in the ways
\* it assumes: everything ingestion does to them is one of those.
IngestionIsAssumed == Spec
=============================================================================
