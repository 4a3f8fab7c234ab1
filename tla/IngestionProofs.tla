-------------------------- MODULE IngestionProofs --------------------------
(***************************************************************************)
(* Proofs about Ingestion, for every set of locators, texts and editions,  *)
(* however often invocations die, acquire and start over.                  *)
(*                                                                         *)
(* TypeInv and Applying hold of any number of invocations at once.  What   *)
(* the tables promise is proved for one invocation at a time, the          *)
(* hypothesis OneInvocation: ingest_twice shows it false of two.           *)
(***************************************************************************)
EXTENDS Ingestion, FiniteSetTheorems, TLAPS

---------------------------------------------------------------------------
(* Types.                                                                  *)

\* Staging has been read by every invocation past reading it.
LoadedFirst ==
    \A p \in Procs : pc[p] \in {"check", "plan", "dry", "text", "backlog", "embed"}
                        => loaded[p].texts # None

TypeInv == TypeOK /\ LoadedFirst

LEMMA EditionTypes ==
    ASSUME NEW e \in Editions
    PROVE  /\ e.texts \in [Locators -> Text]
           /\ e.texts \in EditionTexts
           /\ e.work \in Facts
           /\ e.terms \in STRING
           /\ e.version \in Nat
    BY EditionsAssumption DEF Edition, EditionTexts, Facts

LEMMA EditionTextsType == EditionTexts \subseteq [Locators -> Text]
    BY EditionsAssumption DEF Edition, EditionTexts

LEMMA CountType ==
    ASSUME NEW texts PROVE Cardinality(Chunks(texts)) \in Nat
    BY LocatorsAssumption, FS_Subset, FS_CardinalityType DEF Chunks

LEMMA TypeInit == Init => TypeInv
    BY BoundsAssumption DEF Init, TypeInv, TypeOK, LoadedFirst, Text, Plan, NoPlan, NoCorpus,
                            Working, Ended

LEMMA TypeAcquisition == TypeInv /\ Acquisition => TypeInv'
  <1> SUFFICES ASSUME TypeInv, Acquisition PROVE TypeInv'
    OBVIOUS
  <1> USE DEF TypeInv, TypeOK, LoadedFirst
  <1>1. ASSUME NEW e \in Editions, Bless(e) PROVE TypeInv'
    BY <1>1, EditionTypes, BoundsAssumption DEF Bless, BlessedFacts, tables, local
  <1>2. ASSUME NEW e \in Editions, Provision(e) PROVE TypeInv'
    BY <1>2, EditionTypes, BoundsAssumption DEF Provision, tables, local
  <1>3. CASE WriteRecords
    BY <1>3, EditionTypes DEF WriteRecords, tables, local
  <1>4. CASE WriteWork
    <2>1. stager.edition \in Editions
      BY <1>4 DEF WriteWork
    <2>2. declared' \in [work : Facts, version : Nat, count : Nat]
      BY <1>4, <2>1, EditionTypes, CountType DEF WriteWork
    <2>3. stager' \in [pc : {"idle", "fingerprints", "records", "work"}, edition : Editions]
      BY <1>4, <2>1 DEF WriteWork
    <2> QED
      BY <1>4, <2>2, <2>3 DEF WriteWork, tables, local
  <1>5. CASE StagerDies
    BY <1>5 DEF StagerDies, tables, local
  <1>6. CASE WriteFingerprints
    BY <1>6, EditionTypes DEF WriteFingerprints, tables, local
  <1> QED
    BY <1>1, <1>2, <1>3, <1>4, <1>5, <1>6 DEF Acquisition

LEMMA NewRowsType ==
    ASSUME TypeInv, NEW p \in Procs, pc[p] = "text"
    PROVE  /\ NewRows(p) \in [Locators -> [id : Nat, text : Text, version : Nat]]
           /\ KeptVectors(p) \in [Locators -> Text]
  <1>1. loaded[p].texts \in [Locators -> Text]
    BY EditionTextsType DEF TypeInv, TypeOK, LoadedFirst
  <1>2. ASSUME NEW l \in Locators
        PROVE  NewRows(p)[l] \in [id : Nat, text : Text, version : Nat]
    BY <1>1 DEF NewRows, TypeInv, TypeOK, Text
  <1>3. NewRows(p) \in [Locators -> [id : Nat, text : Text, version : Nat]]
    BY <1>2 DEF NewRows
  <1>4. KeptVectors(p) \in [Locators -> Text]
    BY DEF KeptVectors, TypeInv, TypeOK, Text
  <1> QED
    BY <1>3, <1>4

LEMMA BacklogType ==
    TypeOK => Backlog \subseteq [locator : Locators, id : Nat, text : Texts]
  <1> SUFFICES ASSUME TypeOK, NEW i \in Backlog
               PROVE  i \in [locator : Locators, id : Nat, text : Texts]
    OBVIOUS
  <1>1. PICK l \in {l \in Chunks(StoredTexts) : embeddings[l] = None} :
            i = [locator |-> l, id |-> chunks[l].id, text |-> chunks[l].text]
    BY DEF Backlog
  <1>2. l \in Locators /\ chunks[l].text # None
    BY <1>1 DEF Chunks, StoredTexts
  <1>3. chunks[l].id \in Nat /\ chunks[l].text \in Texts
    BY <1>2 DEF TypeOK, Text
  <1> QED
    BY <1>1, <1>2, <1>3

LEMMA TypeStart ==
    ASSUME TypeInv, NEW p \in Procs, Start(p)
    PROVE  TypeInv'
  <1>1. runs' \in [Procs -> 0..MaxRuns]
    BY BoundsAssumption DEF TypeInv, TypeOK, Start
  <1> QED
    BY <1>1 DEF TypeInv, TypeOK, LoadedFirst, Start, Goto, tables, files, NoCorpus, NoPlan,
                Plan, Working, Ended

\* The refusals, the aborts and the kills only move pc.
LEMMA TypeStops ==
    ASSUME TypeInv, NEW p \in Procs, TextAborts(p) \/ EmbedAborts(p) \/ Kill(p)
    PROVE  TypeInv'
    BY DEF TypeInv, TypeOK, LoadedFirst, TextAborts, EmbedAborts, Kill, Goto, tables, files,
           Working, Ended

LEMMA TypeReads ==
    ASSUME TypeInv, NEW p \in Procs,
           ReadWork(p) \/ ReadRecords(p) \/ CheckStaging(p) \/ MakePlan(p) \/ ReadBacklog(p)
    PROVE  TypeInv'
  <1> USE DEF TypeInv, TypeOK, LoadedFirst, Goto, tables, files, Working, Ended
  <1>1. CASE ReadWork(p)
    <2>1. loaded'[p] \in [work : Facts \cup {None}, version : Nat, count : Nat,
                          texts : EditionTexts \cup {None}]
      BY <1>1 DEF ReadWork
    <2>2. loaded' \in [Procs -> [work : Facts \cup {None}, version : Nat, count : Nat,
                                texts : EditionTexts \cup {None}]]
      BY <1>1, <2>1 DEF ReadWork
    <2>3. pc' \in [Procs -> Working \cup Ended] /\ LoadedFirst'
      BY <1>1 DEF ReadWork
    <2> QED
      BY <1>1, <2>2, <2>3 DEF ReadWork
  <1>2. CASE ReadRecords(p)
    <2>1. CASE loaded' = [loaded EXCEPT ![p].texts = records] /\ records # None
                 /\ pc' = [pc EXCEPT ![p] = "check"]
      <3>1. loaded'[p] = [loaded[p] EXCEPT !.texts = records]
        BY <2>1
      <3>2. loaded' \in [Procs -> [work : Facts \cup {None}, version : Nat, count : Nat,
                                  texts : EditionTexts \cup {None}]]
        BY <2>1
      <3>3. LoadedFirst'
        BY <2>1, <3>1
      <3> QED
        BY <1>2, <2>1, <3>2, <3>3 DEF ReadRecords
    <2>2. CASE UNCHANGED loaded /\ pc' = [pc EXCEPT ![p] = "refused"]
      BY <1>2, <2>2 DEF ReadRecords
    <2> QED
      BY <1>2, <2>1, <2>2 DEF ReadRecords
  <1>3. CASE CheckStaging(p)
    BY <1>3 DEF CheckStaging
  <1>4. CASE MakePlan(p)
    <2>1. Diff(loaded[p]) \in Plan
      BY DEF Diff, Plan, Chunks, StoredTexts
    <2> QED
      BY <1>4, <2>1 DEF MakePlan
  <1>5. CASE ReadBacklog(p)
    BY <1>5, BacklogType DEF ReadBacklog
  <1> QED
    BY <1>1, <1>2, <1>3, <1>4, <1>5

LEMMA TypeApplyText ==
    ASSUME TypeInv, NEW p \in Procs, ApplyText(p)
    PROVE  TypeInv'
  <1>1. /\ chunks' \in [Locators -> [id : Nat, text : Text, version : Nat]]
        /\ embeddings' \in [Locators -> Text]
    BY NewRowsType DEF ApplyText
  <1> QED
    BY <1>1 DEF ApplyText, TypeInv, TypeOK, LoadedFirst, Goto, files, Working, Ended

LEMMA TypeEmbedBatch ==
    ASSUME TypeInv, NEW p \in Procs, EmbedBatch(p)
    PROVE  TypeInv'
  <1>1. PICK batch \in SUBSET pending[p] :
            /\ embeddings' = [l \in Locators |->
                  IF \E i \in batch : i.locator = l
                  THEN (CHOOSE i \in batch : i.locator = l).text
                  ELSE embeddings[l]]
            /\ pending' = [pending EXCEPT ![p] = @ \ batch]
    BY DEF EmbedBatch
  <1>2. batch \subseteq [locator : Locators, id : Nat, text : Texts]
    BY DEF TypeInv, TypeOK
  <1>3. ASSUME NEW l \in Locators PROVE embeddings'[l] \in Text
    BY <1>1, <1>2 DEF TypeInv, TypeOK, Text
  <1>4. embeddings' \in [Locators -> Text]
    BY <1>1, <1>3
  <1>5. pending' \in [Procs -> SUBSET [locator : Locators, id : Nat, text : Texts]]
    BY <1>1 DEF TypeInv, TypeOK
  <1>6. pc' \in [Procs -> Working \cup Ended] /\ LoadedFirst'
    BY DEF EmbedBatch, TypeInv, TypeOK, LoadedFirst, Goto, Working, Ended
  <1> QED
    BY <1>4, <1>5, <1>6 DEF EmbedBatch, TypeInv, TypeOK, files

LEMMA TypeNext == TypeInv /\ [Next]_vars => TypeInv'
  <1> SUFFICES ASSUME TypeInv, [Next]_vars PROVE TypeInv'
    OBVIOUS
  <1>1. CASE Acquisition
    BY <1>1, TypeAcquisition
  <1>2. ASSUME NEW p \in Procs, Start(p) \/ Step(p) \/ Kill(p) PROVE TypeInv'
    BY <1>2, TypeStart, TypeStops, TypeReads, TypeApplyText, TypeEmbedBatch DEF Step
  <1>3. CASE UNCHANGED vars
    BY <1>3 DEF vars, tables, files, local, TypeInv, TypeOK, LoadedFirst
  <1> QED
    BY <1>1, <1>2, <1>3 DEF Next

\* Every variable keeps its type, and no invocation gets past reading staging
\* without having read it: however many run at once (cli.py, run_one).
THEOREM TypesHold == Spec => []TypeInv
    BY TypeInit, TypeNext, PTL DEF Spec

\* The type invariant the runs check.
THEOREM TypeOKHolds == Spec => []TypeOK
  <1>1. TypeInv => TypeOK
    BY DEF TypeInv
  <1> QED
    BY <1>1, TypesHold, PTL

---------------------------------------------------------------------------
(* Only an invocation told to apply writes.                                *)

Applying == \A p \in Procs : pc[p] \in {"text", "backlog", "embed"} => execute[p]

LEMMA ApplyingInit == Init => Applying
    BY DEF Init, Applying

LEMMA ApplyingNext == TypeInv /\ Applying /\ [Next]_vars => Applying'
  <1> SUFFICES ASSUME TypeInv, Applying, [Next]_vars PROVE Applying'
    OBVIOUS
  <1> USE DEF TypeInv, TypeOK, Applying
  <1>1. CASE Acquisition
    BY <1>1 DEF Acquisition, Bless, Provision, WriteFingerprints,
                WriteRecords, WriteWork, StagerDies, local
  <1>2. ASSUME NEW p \in Procs, Start(p) \/ Kill(p) PROVE Applying'
    BY <1>2 DEF Start, Kill, Goto
  <1>3. ASSUME NEW p \in Procs, Step(p) PROVE Applying'
    BY <1>3 DEF Step, ReadWork, ReadRecords, CheckStaging, MakePlan, ApplyText, TextAborts,
                ReadBacklog, EmbedBatch, EmbedAborts, Goto
  <1>4. CASE UNCHANGED vars
    BY <1>4 DEF vars, local
  <1> QED
    BY <1>1, <1>2, <1>3, <1>4 DEF Next

\* A dry run and a refused run write nothing, however many invocations run at
\* once: the tables change in the two writing steps of one told to apply.
THEOREM OnlyApplyWritesHolds == Spec => OnlyApplyWrites
  <1> DEFINE Writes == \E p \in Procs : execute[p] /\ pc[p] \in {"text", "embed"}
  <1>1. TypeInv /\ Applying /\ [Next]_vars => [tables' # tables => Writes]_vars
    <2> SUFFICES ASSUME TypeInv, Applying, [Next]_vars, tables' # tables PROVE Writes
      OBVIOUS
    <2>1. CASE Acquisition
      BY <2>1 DEF Acquisition, Bless, Provision, WriteFingerprints,
                  WriteRecords, WriteWork, StagerDies
    <2>2. ASSUME NEW p \in Procs, Start(p) \/ Kill(p) PROVE FALSE
      BY <2>2 DEF Start, Kill
    <2>3. ASSUME NEW p \in Procs, Step(p) PROVE pc[p] \in {"text", "embed"}
      BY <2>3 DEF Step, ReadWork, ReadRecords, CheckStaging, MakePlan, ApplyText, TextAborts,
                  ReadBacklog, EmbedBatch, EmbedAborts
    <2>4. CASE UNCHANGED vars
      BY <2>4 DEF vars
    <2> QED
      BY <2>1, <2>2, <2>3, <2>4 DEF Next, Applying
  <1> QED
    BY <1>1, TypeInit, TypeNext, ApplyingInit, ApplyingNext, PTL DEF Spec, OnlyApplyWrites

---------------------------------------------------------------------------
(* The tables row by row, however many invocations run at once.            *)

BlessedIsApproved == fingerprints \in approved \cup {None}

BlessingIsApproved == stager.pc = "fingerprints" => stager.edition.texts \in approved

CheckedIsApproved ==
    \A p \in Procs : pc[p] \in {"plan", "text", "backlog", "embed"}
                        => loaded[p].texts \in approved

Approved == BlessedIsApproved /\ BlessingIsApproved /\ CheckedIsApproved

\* Whatever an acquisition does, a text once blessed stays approved.
LEMMA ApprovedNext == TypeInv /\ Approved /\ [Next]_vars => Approved'
  <1> SUFFICES ASSUME TypeInv, Approved, [Next]_vars PROVE Approved'
    OBVIOUS
  <1> USE DEF TypeInv, TypeOK, LoadedFirst, Approved,
              BlessedIsApproved, BlessingIsApproved, CheckedIsApproved
  <1>1. CASE Acquisition
    BY <1>1 DEF Acquisition, Bless, Provision, WriteFingerprints,
                WriteRecords, WriteWork, StagerDies, local
  <1>2. ASSUME NEW p \in Procs, Start(p) \/ Kill(p) PROVE Approved'
    BY <1>2 DEF Start, Kill, Goto, files
  <1>3. ASSUME NEW p \in Procs, ReadWork(p) \/ ReadRecords(p) PROVE Approved'
    BY <1>3 DEF ReadWork, ReadRecords, Goto, files
  <1>4. ASSUME NEW p \in Procs, CheckStaging(p) PROVE Approved'
    BY <1>4 DEF CheckStaging, Blessed, Goto, files
  <1>5. ASSUME NEW p \in Procs, Step(p), ~ReadWork(p), ~ReadRecords(p), ~CheckStaging(p)
        PROVE  Approved'
    BY <1>5 DEF Step, MakePlan, ApplyText, TextAborts, ReadBacklog, EmbedBatch, EmbedAborts,
                Goto, files
  <1>6. CASE UNCHANGED vars
    BY <1>6 DEF vars, files, local
  <1> QED
    BY <1>1, <1>2, <1>3, <1>4, <1>5, <1>6 DEF Next

\* A plan writes only chunks that staging has.
WritesAreStaged ==
    \A p \in Procs : pc[p] = "text" =>
        plan[p].inserts \cup plan[p].updates \subseteq Chunks(loaded[p].texts)

RowsAreApproved ==
    \A l \in Locators : chunks[l].text # None => \E t \in approved : t[l] = chunks[l].text

VectorsHaveRows == \A l \in Locators : embeddings[l] # None => chunks[l].text # None

RowsInv == TypeInv /\ Approved /\ WritesAreStaged /\ RowsAreApproved /\ VectorsHaveRows

LEMMA RowsInit == Init => RowsInv
  <1> SUFFICES ASSUME Init PROVE RowsInv
    OBVIOUS
  <1>1. TypeInv
    BY TypeInit
  <1>2. Approved
    BY DEF Init, Approved, BlessedIsApproved, BlessingIsApproved, CheckedIsApproved
  <1>3. WritesAreStaged /\ RowsAreApproved /\ VectorsHaveRows
    BY DEF Init, WritesAreStaged, RowsAreApproved, VectorsHaveRows
  <1> QED
    BY <1>1, <1>2, <1>3 DEF RowsInv

\* approved is history: no step takes a text out of it.
LEMMA ApprovedGrows == [Next]_vars => approved \subseteq approved'
  <1> SUFFICES ASSUME [Next]_vars PROVE approved \subseteq approved'
    OBVIOUS
  <1>1. CASE Acquisition
    BY <1>1 DEF Acquisition, Bless, Provision, WriteFingerprints, WriteRecords, WriteWork,
                StagerDies
  <1>2. ASSUME NEW p \in Procs, Start(p) \/ Step(p) \/ Kill(p) PROVE approved' = approved
    BY <1>2 DEF Start, Kill, Step, ReadWork, ReadRecords, CheckStaging, MakePlan, ApplyText,
                TextAborts, ReadBacklog, EmbedBatch, EmbedAborts, files
  <1>3. CASE UNCHANGED vars
    BY <1>3 DEF vars, files
  <1> QED
    BY <1>1, <1>2, <1>3 DEF Next

LEMMA WritesAreStagedNext == TypeInv /\ WritesAreStaged /\ [Next]_vars => WritesAreStaged'
  <1> SUFFICES ASSUME TypeInv, WritesAreStaged, [Next]_vars PROVE WritesAreStaged'
    OBVIOUS
  <1> USE DEF TypeInv, TypeOK, WritesAreStaged
  <1>0. \A t : Chunks(t)' = Chunks(t)
    BY DEF Chunks
  <1>1. CASE Acquisition
    BY <1>1 DEF Acquisition, Bless, Provision, WriteFingerprints, WriteRecords, WriteWork,
                StagerDies, local, Chunks
  <1>2. ASSUME NEW p \in Procs, MakePlan(p) PROVE WritesAreStaged'
    <2>1. /\ plan'[p] = Diff(loaded[p])
          /\ loaded' = loaded
          /\ \A q \in Procs \ {p} : plan'[q] = plan[q] /\ pc'[q] = pc[q]
      BY <1>2 DEF MakePlan, Goto
    <2>2. Diff(loaded[p]).inserts \cup Diff(loaded[p]).updates \subseteq Chunks(loaded[p].texts)
      BY DEF Diff
    <2>3. ASSUME NEW q \in Procs, pc'[q] = "text"
          PROVE  plan'[q].inserts \cup plan'[q].updates \subseteq Chunks(loaded'[q].texts)
      BY <2>1, <2>2, <2>3
    <2> QED
      BY <2>3 DEF Chunks
  <1>3. ASSUME NEW p \in Procs, Start(p) \/ Kill(p) \/ (Step(p) /\ ~MakePlan(p))
        PROVE  WritesAreStaged'
    <2>1. ASSUME NEW q \in Procs, pc'[q] = "text"
          PROVE  pc[q] = "text" /\ plan'[q] = plan[q] /\ loaded'[q] = loaded[q]
      BY <1>3, <2>1 DEF Start, Kill, Step, ReadWork, ReadRecords, CheckStaging, ApplyText,
                        TextAborts, ReadBacklog, EmbedBatch, EmbedAborts, Goto
    <2> QED
      BY <2>1 DEF Chunks
  <1>4. CASE UNCHANGED vars
    BY <1>4 DEF vars, local, Chunks
  <1> QED
    BY <1>1, <1>2, <1>3, <1>4 DEF Next

\* The only two steps that write.
LEMMA Writers ==
    ASSUME [Next]_vars, tables' # tables
    PROVE  \E p \in Procs : ApplyText(p) \/ EmbedBatch(p)
  <1>1. ~Acquisition
    BY DEF Acquisition, Bless, Provision, WriteFingerprints,
           WriteRecords, WriteWork, StagerDies
  <1>2. ASSUME NEW p \in Procs, Start(p) \/ Kill(p) PROVE FALSE
    BY <1>2 DEF Start, Kill
  <1>3. ASSUME NEW p \in Procs, Step(p) PROVE ApplyText(p) \/ EmbedBatch(p)
    BY <1>3 DEF Step, ReadWork, ReadRecords, CheckStaging, MakePlan, TextAborts, ReadBacklog,
                EmbedAborts
  <1>4. ~UNCHANGED vars
    BY DEF vars
  <1> QED
    BY <1>1, <1>2, <1>3, <1>4 DEF Next

\* A row is written from a text a person blessed, or is the row that was there;
\* a row that goes takes its vector with it.
LEMMA ApplyTextRows ==
    ASSUME RowsInv, NEW p \in Procs, ApplyText(p)
    PROVE  RowsAreApproved' /\ VectorsHaveRows'
  <1> USE DEF RowsInv
  <1>1. /\ pc[p] = "text" /\ approved' = approved
        /\ chunks' = NewRows(p) /\ embeddings' = KeptVectors(p)
    BY DEF ApplyText, files
  <1>2. loaded[p].texts \in approved
    BY <1>1 DEF Approved, CheckedIsApproved
  <1>3. plan[p].inserts \cup Touched(p) \subseteq Chunks(loaded[p].texts)
    BY <1>1 DEF WritesAreStaged, Touched
  <1>4. ASSUME NEW l \in Locators
        PROVE  \/ l \in plan[p].deletes /\ chunks'[l].text = None
               \/ /\ l \in plan[p].inserts \cup Touched(p)
                  /\ chunks'[l].text = loaded[p].texts[l]
               \/ l \notin plan[p].inserts \cup Touched(p) /\ chunks'[l].text = chunks[l].text
    BY <1>1 DEF NewRows
  <1>5. RowsAreApproved'
    BY <1>1, <1>2, <1>4 DEF RowsAreApproved
  <1>6. ASSUME NEW l \in Locators, embeddings'[l] # None PROVE chunks'[l].text # None
    <2>1. l \notin plan[p].deletes /\ embeddings[l] # None
      BY <1>1, <1>6 DEF KeptVectors
    <2>2. l \in Chunks(loaded[p].texts) => loaded[p].texts[l] # None
      BY DEF Chunks
    <2> QED
      BY <1>3, <1>4, <2>1, <2>2 DEF VectorsHaveRows
  <1> QED
    BY <1>5, <1>6 DEF VectorsHaveRows

LEMMA EmbedBatchRows ==
    ASSUME RowsInv, NEW p \in Procs, EmbedBatch(p)
    PROVE  RowsAreApproved' /\ VectorsHaveRows'
  <1>1. chunks' = chunks /\ approved' = approved
    BY DEF EmbedBatch, files
  <1>2. PICK batch : /\ Writable(batch)
                     /\ embeddings' = [l \in Locators |->
                           IF \E i \in batch : i.locator = l
                           THEN (CHOOSE i \in batch : i.locator = l).text
                           ELSE embeddings[l]]
    BY DEF EmbedBatch
  <1>3. VectorsHaveRows'
    BY <1>1, <1>2 DEF RowsInv, VectorsHaveRows, Writable
  <1> QED
    BY <1>1, <1>3 DEF RowsInv, RowsAreApproved

LEMMA RowsNext == RowsInv /\ [Next]_vars => RowsInv'
  <1> SUFFICES ASSUME RowsInv, [Next]_vars PROVE RowsInv'
    OBVIOUS
  <1>1. TypeInv' /\ Approved' /\ WritesAreStaged' /\ approved \subseteq approved'
    BY TypeNext, ApprovedNext, WritesAreStagedNext, ApprovedGrows DEF RowsInv
  <1>2. CASE tables' = tables
    BY <1>1, <1>2 DEF RowsInv, RowsAreApproved, VectorsHaveRows, tables
  <1>3. ASSUME NEW p \in Procs, ApplyText(p) \/ EmbedBatch(p)
        PROVE  RowsAreApproved' /\ VectorsHaveRows'
    BY <1>3, ApplyTextRows, EmbedBatchRows
  <1> QED
    BY <1>1, <1>2, <1>3, Writers DEF RowsInv

\* Every row is of a text some person blessed, and every vector of a row that is
\* there, though any number of invocations write over each other.
THEOREM RowsHold == Spec => []RowsInv
    BY RowsInit, RowsNext, PTL DEF Spec

---------------------------------------------------------------------------
(* The tables, with one invocation at a time.                              *)

OneInvocation == \A p, q \in Procs : p = q

PendingIsCurrent ==
    \A p \in Procs : pc[p] = "embed" =>
        \A i \in pending[p] : chunks[i.locator].text = i.text

PlanIsCurrent == \A p \in Procs : pc[p] \in {"text", "dry"} => plan[p] = Diff(loaded[p])

AppliedIsStored ==
    \A p \in Procs : pc[p] \in {"backlog", "embed", "done"} =>
        StoredTexts = loaded[p].texts /\ works = loaded[p].work

UnembeddedIsPending ==
    \A p \in Procs : pc[p] = "embed" =>
        \A l \in Chunks(StoredTexts) : embeddings[l] = None => \E i \in pending[p] : i.locator = l

DoneIsEmbedded ==
    \A p \in Procs : pc[p] = "done" => \A l \in Chunks(StoredTexts) : embeddings[l] # None

\* What ties an invocation's memory to the tables.
Current == /\ PendingIsCurrent
           /\ PlanIsCurrent
           /\ AppliedIsStored
           /\ UnembeddedIsPending
           /\ DoneIsEmbedded

TablesInv == /\ TypeInv
             /\ Approved
             /\ Current
             /\ VectorsAreFresh
             /\ TextIsOneBlessedEdition

\* A plan that is current turns the table into what was loaded.
LEMMA PlanReachesStaging ==
    ASSUME TypeInv, NEW p \in Procs, pc[p] = "text", plan[p] = Diff(loaded[p]),
           NEW l \in Locators
    PROVE  NewRows(p)[l].text = loaded[p].texts[l]
  <1>1. plan[p].inserts = Chunks(loaded[p].texts) \ Chunks(StoredTexts)
    BY DEF Diff
  <1>2. plan[p].deletes = Chunks(StoredTexts) \ Chunks(loaded[p].texts)
    BY DEF Diff
  <1>3. plan[p].updates = {m \in Chunks(loaded[p].texts) \cap Chunks(StoredTexts) :
                              loaded[p].texts[m] # chunks[m].text}
    BY DEF Diff
  <1>4. /\ l \in Chunks(StoredTexts) <=> chunks[l].text # None
        /\ l \in Chunks(loaded[p].texts) <=> loaded[p].texts[l] # None
    BY DEF Chunks, StoredTexts
  <1> QED
    BY <1>1, <1>2, <1>3, <1>4 DEF NewRows, Touched

LEMMA TablesInit == Init => TablesInv
  <1> SUFFICES ASSUME Init PROVE TablesInv
    OBVIOUS
  <1>1. TypeInv
    BY TypeInit
  <1>2. Approved
    BY DEF Init, Approved, BlessedIsApproved, BlessingIsApproved, CheckedIsApproved
  <1>3. Current
    BY DEF Init, Current, PendingIsCurrent, PlanIsCurrent, AppliedIsStored,
           UnembeddedIsPending, DoneIsEmbedded
  <1>4. VectorsAreFresh /\ TextIsOneBlessedEdition
    BY DEF Init, VectorsAreFresh, TextIsOneBlessedEdition, StoredTexts
  <1> QED
    BY <1>1, <1>2, <1>3, <1>4 DEF TablesInv

\* Phase one, committed.
LEMMA ApplyTextTables ==
    ASSUME OneInvocation, TablesInv, NEW p \in Procs, ApplyText(p)
    PROVE  Current' /\ VectorsAreFresh' /\ TextIsOneBlessedEdition'
  <1> USE DEF TablesInv
  <1>1. pc[p] = "text" /\ plan[p] = Diff(loaded[p]) /\ loaded' = loaded
    BY DEF ApplyText, Current, PlanIsCurrent
  <1>2. loaded[p].texts \in [Locators -> Text]
    BY <1>1, EditionTextsType DEF TypeInv, TypeOK, LoadedFirst
  <1>3. \A l \in Locators : chunks'[l].text = loaded[p].texts[l]
    BY <1>1, PlanReachesStaging DEF ApplyText
  <1>4. StoredTexts' = loaded[p].texts
    BY <1>2, <1>3 DEF StoredTexts
  <1>5. pc'[p] \in {"backlog", "failed"} /\ works' = loaded[p].work
    BY DEF ApplyText, Goto, TypeInv, TypeOK
  <1>6. \A q \in Procs : q = p
    BY DEF OneInvocation
  <1>7. Current'
    BY <1>1, <1>4, <1>5, <1>6
    DEF Current, PendingIsCurrent, PlanIsCurrent, AppliedIsStored, UnembeddedIsPending,
        DoneIsEmbedded
  <1>8. ASSUME NEW l \in Locators, embeddings'[l] # None
        PROVE  embeddings'[l] = chunks'[l].text
    <2>1. /\ l \notin plan[p].deletes
          /\ l \notin Touched(p)
          /\ embeddings'[l] = embeddings[l]
      BY <1>8 DEF ApplyText, KeptVectors
    <2>2. embeddings[l] = chunks[l].text
      BY <1>8, <2>1 DEF VectorsAreFresh
    <2>3. l \notin plan[p].inserts
      BY <1>8, <2>1, <2>2 DEF ApplyText, Insertable
    <2>4. chunks'[l].text = chunks[l].text
      BY <2>1, <2>3 DEF ApplyText, NewRows
    <2> QED
      BY <2>1, <2>2, <2>4
  <1>9. loaded[p].texts \in approved'
    BY <1>1 DEF ApplyText, Approved, CheckedIsApproved, files
  <1> QED
    BY <1>4, <1>7, <1>8, <1>9 DEF VectorsAreFresh, TextIsOneBlessedEdition

\* What a batch of phase two leaves, in terms of the pending chunks alone.
LEMMA BatchWrites ==
    ASSUME TypeInv, PendingIsCurrent, NEW p \in Procs, EmbedBatch(p)
    PROVE  \E batch \in SUBSET pending[p] :
              /\ batch # {}
              /\ pending'[p] = pending[p] \ batch
              /\ pc'[p] \in {IF batch = pending[p] THEN "done" ELSE "embed", "failed"}
              /\ \A i \in batch : embeddings[i.locator] = None
              /\ \A l \in Locators :
                    IF \E i \in batch : i.locator = l
                    THEN embeddings'[l] = chunks[l].text /\ chunks[l].text \in Texts
                    ELSE embeddings'[l] = embeddings[l]
  <1>1. PICK batch \in SUBSET pending[p] :
            /\ batch # {}
            /\ Writable(batch)
            /\ embeddings' = [l \in Locators |->
                  IF \E i \in batch : i.locator = l
                  THEN (CHOOSE i \in batch : i.locator = l).text
                  ELSE embeddings[l]]
            /\ pending' = [pending EXCEPT ![p] = @ \ batch]
            /\ \/ Goto(p, IF batch = pending[p] THEN "done" ELSE "embed")
               \/ Goto(p, "failed")
    BY DEF EmbedBatch
  <1>2. \A i \in batch : chunks[i.locator].text = i.text /\ i.text \in Texts
    BY DEF EmbedBatch, PendingIsCurrent, TypeInv, TypeOK
  <1>3. ASSUME NEW l \in Locators, \E i \in batch : i.locator = l
        PROVE  embeddings'[l] = chunks[l].text /\ chunks[l].text \in Texts
    BY <1>1, <1>2, <1>3
  <1>4. ASSUME NEW l \in Locators, ~\E i \in batch : i.locator = l
        PROVE  embeddings'[l] = embeddings[l]
    BY <1>1, <1>4
  <1>5. pending'[p] = pending[p] \ batch
    BY <1>1 DEF TypeInv, TypeOK
  <1>6. pc'[p] \in {IF batch = pending[p] THEN "done" ELSE "embed", "failed"}
    BY <1>1 DEF TypeInv, TypeOK, Goto
  <1>7. \A i \in batch : embeddings[i.locator] = None
    BY <1>1 DEF Writable
  <1> QED
    BY <1>1, <1>3, <1>4, <1>5, <1>6, <1>7

\* Phase two.
LEMMA EmbedBatchTables ==
    ASSUME OneInvocation, TablesInv, NEW p \in Procs, EmbedBatch(p)
    PROVE  Current' /\ VectorsAreFresh' /\ TextIsOneBlessedEdition'
  <1> USE DEF TablesInv
  <1>1. PendingIsCurrent /\ AppliedIsStored /\ UnembeddedIsPending
    BY DEF Current
  <1>2. PICK batch \in SUBSET pending[p] :
              /\ pending'[p] = pending[p] \ batch
              /\ pc'[p] \in {IF batch = pending[p] THEN "done" ELSE "embed", "failed"}
              /\ \A i \in batch : embeddings[i.locator] = None
              /\ \A l \in Locators :
                    IF \E i \in batch : i.locator = l
                    THEN embeddings'[l] = chunks[l].text /\ chunks[l].text \in Texts
                    ELSE embeddings'[l] = embeddings[l]
    BY <1>1, BatchWrites
  <1>3. /\ pc[p] = "embed"
        /\ chunks' = chunks /\ works' = works /\ loaded' = loaded
        /\ StoredTexts' = StoredTexts /\ Chunks(StoredTexts)' = Chunks(StoredTexts)
        /\ approved' = approved
    BY DEF EmbedBatch, StoredTexts, Chunks, files
  <1>4. \A q \in Procs : q = p
    BY DEF OneInvocation
  <1>5. VectorsAreFresh'
    BY <1>2, <1>3 DEF VectorsAreFresh
  <1>6. TextIsOneBlessedEdition'
    BY <1>3 DEF TextIsOneBlessedEdition
  <1>7. PendingIsCurrent' /\ PlanIsCurrent' /\ AppliedIsStored'
    BY <1>1, <1>2, <1>3, <1>4 DEF PendingIsCurrent, PlanIsCurrent, AppliedIsStored
  <1>8. ASSUME NEW l \in Chunks(StoredTexts), embeddings'[l] = None
        PROVE  \E i \in pending[p] \ batch : i.locator = l
    <2>1. l \in Locators
      BY DEF Chunks
    <2>2. embeddings[l] = None /\ ~\E i \in batch : i.locator = l
      BY <1>2, <1>8, <2>1, NoneAssumption
    <2> QED
      BY <1>1, <1>3, <2>2 DEF UnembeddedIsPending
  <1>9. UnembeddedIsPending' /\ DoneIsEmbedded'
    <2>1. pc'[p] = "done" => batch = pending[p]
      BY <1>2
    <2> QED
      BY <1>2, <1>3, <1>4, <1>8, <2>1 DEF UnembeddedIsPending, DoneIsEmbedded
  <1> QED
    BY <1>5, <1>6, <1>7, <1>9 DEF Current

\* Steps that leave the tables alone.
LEMMA OtherStepsTables ==
    ASSUME OneInvocation, TablesInv, NEW p \in Procs,
           Start(p) \/ Kill(p) \/ (Step(p) /\ ~ApplyText(p) /\ ~EmbedBatch(p))
    PROVE  Current' /\ VectorsAreFresh' /\ TextIsOneBlessedEdition'
  <1> USE DEF TablesInv, TypeInv, TypeOK
  <1>1. /\ chunks' = chunks /\ embeddings' = embeddings /\ works' = works
        /\ StoredTexts' = StoredTexts /\ Chunks(StoredTexts)' = Chunks(StoredTexts)
        /\ approved' = approved
    BY DEF Start, Kill, Step, ReadWork, ReadRecords, CheckStaging, MakePlan, TextAborts,
           ReadBacklog, EmbedAborts, tables, files, StoredTexts, Chunks
  <1>2. VectorsAreFresh' /\ TextIsOneBlessedEdition'
    BY <1>1 DEF VectorsAreFresh, TextIsOneBlessedEdition
  <1>3. \A q \in Procs : q = p
    BY DEF OneInvocation
  <1> USE DEF Current, PendingIsCurrent, PlanIsCurrent, AppliedIsStored, UnembeddedIsPending,
              DoneIsEmbedded
  <1>4. CASE pc'[p] \notin {"text", "dry", "backlog", "embed", "done"}
    BY <1>2, <1>3, <1>4
  <1>5. CASE MakePlan(p)
    <2>1. plan'[p] = Diff(loaded[p]) /\ pc'[p] \in {"text", "dry"} /\ loaded' = loaded
      BY <1>5 DEF MakePlan, Goto
    <2>2. Diff(loaded[p])' = Diff(loaded[p])
      BY <1>1, <2>1 DEF Diff
    <2> QED
      BY <1>1, <1>2, <1>3, <2>1, <2>2
  <1>6. CASE ReadBacklog(p)
    <2>1. /\ pending'[p] = Backlog /\ loaded' = loaded /\ pc[p] = "backlog"
          /\ pc'[p] = IF Backlog = {} THEN "done" ELSE "embed"
      BY <1>6 DEF ReadBacklog, Goto
    <2>2. \A i \in Backlog : chunks[i.locator].text = i.text
      BY DEF Backlog
    <2>3. ASSUME NEW l \in Chunks(StoredTexts), embeddings[l] = None
          PROVE  \E i \in Backlog : i.locator = l
      <3> DEFINE i == [locator |-> l, id |-> chunks[l].id, text |-> chunks[l].text]
      <3>1. i \in Backlog
        BY <2>3 DEF Backlog
      <3> QED
        BY <3>1
    <2> QED
      BY <1>1, <1>2, <1>3, <2>1, <2>2, <2>3
  <1>7. \/ pc'[p] \notin {"text", "dry", "backlog", "embed", "done"}
        \/ MakePlan(p) \/ ReadBacklog(p)
    BY DEF Start, Kill, Step, ReadWork, ReadRecords, CheckStaging, TextAborts, EmbedAborts, Goto
  <1> QED
    BY <1>2, <1>4, <1>5, <1>6, <1>7

LEMMA AcquisitionTables ==
    ASSUME TablesInv, Acquisition
    PROVE  Current' /\ VectorsAreFresh' /\ TextIsOneBlessedEdition'
  <1>1. UNCHANGED <<tables, local>> /\ approved \subseteq approved'
    BY DEF Acquisition, Bless, Provision, WriteFingerprints,
           WriteRecords, WriteWork, StagerDies
  <1>2. StoredTexts' = StoredTexts /\ Chunks(StoredTexts)' = Chunks(StoredTexts)
    BY <1>1 DEF tables, StoredTexts, Chunks
  <1>3. ASSUME NEW p \in Procs PROVE Diff(loaded[p])' = Diff(loaded[p])
    BY <1>1, <1>2 DEF Diff, tables, local
  <1>4. Current'
    BY <1>1, <1>2, <1>3
    DEF TablesInv, Current, PendingIsCurrent, PlanIsCurrent, AppliedIsStored,
        UnembeddedIsPending, DoneIsEmbedded, tables, local
  <1>5. VectorsAreFresh' /\ TextIsOneBlessedEdition'
    BY <1>1, <1>2 DEF TablesInv, VectorsAreFresh, TextIsOneBlessedEdition, tables
  <1> QED
    BY <1>4, <1>5

LEMMA TablesNext ==
    ASSUME OneInvocation PROVE TablesInv /\ [Next]_vars => TablesInv'
  <1> SUFFICES ASSUME TablesInv, [Next]_vars PROVE TablesInv'
    OBVIOUS
  <1>1. TypeInv' /\ Approved'
    BY TypeNext, ApprovedNext DEF TablesInv
  <1>2. Current' /\ VectorsAreFresh' /\ TextIsOneBlessedEdition'
    <2>1. CASE Acquisition
      BY <2>1, AcquisitionTables
    <2>2. ASSUME NEW p \in Procs, Start(p) \/ Step(p) \/ Kill(p)
          PROVE  Current' /\ VectorsAreFresh' /\ TextIsOneBlessedEdition'
      BY <2>2, OtherStepsTables, ApplyTextTables, EmbedBatchTables
    <2>3. CASE UNCHANGED vars
      <3>1. /\ chunks' = chunks /\ embeddings' = embeddings /\ works' = works
            /\ approved' = approved /\ UNCHANGED local
        BY <2>3 DEF vars, tables, files
      <3>2. StoredTexts' = StoredTexts /\ Chunks(StoredTexts)' = Chunks(StoredTexts)
        BY <3>1 DEF StoredTexts, Chunks
      <3>3. ASSUME NEW p \in Procs PROVE Diff(loaded[p])' = Diff(loaded[p])
        BY <3>1, <3>2 DEF Diff, local
      <3>4. Current'
        BY <3>1, <3>2, <3>3
        DEF TablesInv, Current, PendingIsCurrent, PlanIsCurrent, AppliedIsStored,
            UnembeddedIsPending, DoneIsEmbedded, local
      <3> QED
        BY <3>1, <3>2, <3>4 DEF TablesInv, VectorsAreFresh, TextIsOneBlessedEdition
    <2> QED
      BY <2>1, <2>2, <2>3 DEF Next
  <1> QED
    BY <1>1, <1>2 DEF TablesInv

THEOREM TablesHold ==
    ASSUME OneInvocation PROVE Spec => []TablesInv
  <1>1. TablesInv /\ [Next]_vars => TablesInv'
    BY TablesNext
  <1> QED
    BY <1>1, TablesInit, PTL DEF Spec

\* A vector is always of the text its chunk carries, wherever invocations died,
\* as long as they run one at a time (apply.py, apply_text and embed_backlog).
THEOREM VectorsAreFreshHolds ==
    ASSUME OneInvocation PROVE Spec => []VectorsAreFresh
  <1>1. TablesInv => VectorsAreFresh
    BY DEF TablesInv
  <1> QED
    BY <1>1, TablesHold, PTL

\* The chunks table is empty or one edition somebody blessed, whole (plan.py,
\* check_fingerprints and diff; apply.py, apply_text).
THEOREM TextIsOneBlessedEditionHolds ==
    ASSUME OneInvocation PROVE Spec => []TextIsOneBlessedEdition
  <1>1. TablesInv => TextIsOneBlessedEdition
    BY DEF TablesInv
  <1> QED
    BY <1>1, TablesHold, PTL

\* An invocation that applied and succeeded left what it loaded and a vector for
\* all of it, whatever the invocations before it left undone.
THEOREM CompletedRunConvergesHolds ==
    ASSUME OneInvocation PROVE Spec => []CompletedRunConverges
  <1>1. TablesInv => CompletedRunConverges
    BY DEF TablesInv, Current, AppliedIsStored, DoneIsEmbedded, CompletedRunConverges
  <1> QED
    BY <1>1, TablesHold, PTL

\* A plan that calls the tables converged is right about their text and vectors,
\* when it is about to be applied as after a dry run (plan.py, Plan.converged).
THEOREM ConvergedIsEmbeddedHolds ==
    ASSUME OneInvocation PROVE Spec => []ConvergedIsEmbedded
  <1>1. TablesInv => ConvergedIsEmbedded
    <2> SUFFICES ASSUME TablesInv, NEW p \in Procs, pc[p] \in {"text", "dry"},
                        Converged(plan[p])
                 PROVE  /\ StoredTexts = loaded[p].texts
                        /\ \A l \in Chunks(StoredTexts) : embeddings[l] # None
      BY DEF ConvergedIsEmbedded
    <2> DEFINE staged == loaded[p].texts
    <2>1. staged \in [Locators -> Text]
      BY EditionTextsType DEF TablesInv, TypeInv, TypeOK, LoadedFirst
    <2>2. plan[p] = Diff(loaded[p])
      BY DEF TablesInv, Current, PlanIsCurrent
    <2>3. /\ Chunks(staged) \ Chunks(StoredTexts) = {}
          /\ Chunks(StoredTexts) \ Chunks(staged) = {}
          /\ {l \in Chunks(staged) \cap Chunks(StoredTexts) : staged[l] # chunks[l].text} = {}
      BY <2>2 DEF Converged, Diff
    <2>4. ASSUME NEW l \in Locators PROVE chunks[l].text = staged[l]
      <3>1. /\ l \in Chunks(staged) <=> staged[l] # None
            /\ l \in Chunks(StoredTexts) <=> chunks[l].text # None
        BY DEF Chunks, StoredTexts
      <3> QED
        BY <2>3, <3>1
    <2>5. StoredTexts = staged
      BY <2>1, <2>4 DEF StoredTexts
    <2>6. \A l \in Chunks(StoredTexts) : embeddings[l] # None
      <3>1. plan[p].unembedded =
               {l \in (Chunks(staged) \cap Chunks(StoredTexts)) \ plan[p].updates :
                    embeddings[l] = None}
        BY <2>2 DEF Diff
      <3>2. plan[p].unembedded = {} /\ plan[p].updates = {}
        BY DEF Converged
      <3> QED
        BY <2>5, <3>1, <3>2
    <2> QED
      BY <2>5, <2>6
  <1> QED
    BY <1>1, TablesHold, PTL

---------------------------------------------------------------------------
(* What every change of the tables is.                                     *)

\* Work facts have been read by every invocation past reading them.
WorkFirst ==
    \A p \in Procs : pc[p] \in {"records", "check", "plan", "text"} => loaded[p].work \in Facts

LEMMA WorkFirstInit == Init => WorkFirst
    BY DEF Init, WorkFirst

LEMMA WorkFirstNext == TypeInv /\ WorkFirst /\ [Next]_vars => WorkFirst'
  <1> SUFFICES ASSUME TypeInv, WorkFirst, [Next]_vars PROVE WorkFirst'
    OBVIOUS
  <1> USE DEF TypeInv, TypeOK, WorkFirst
  <1>0. Facts' = Facts
    BY DEF Facts
  <1>1. CASE Acquisition
    BY <1>1 DEF Acquisition, Bless, Provision, WriteFingerprints,
                WriteRecords, WriteWork, StagerDies, local
  <1>2. ASSUME NEW p \in Procs, Start(p) \/ Kill(p) PROVE WorkFirst'
    BY <1>2 DEF Start, Kill, Goto
  <1>3. ASSUME NEW p \in Procs, ReadWork(p) PROVE WorkFirst'
    BY <1>3 DEF ReadWork, Goto
  <1>4. ASSUME NEW p \in Procs, ReadRecords(p) PROVE WorkFirst'
    <2> loaded' = loaded \/ loaded' = [loaded EXCEPT ![p].texts = records]
      BY <1>4 DEF ReadRecords
    <2>1. \A q \in Procs : loaded'[q].work = loaded[q].work
      OBVIOUS
    <2>2. \A q \in Procs : pc'[q] # pc[q] => q = p /\ pc[p] = "records"
      BY <1>4 DEF ReadRecords, Goto
    <2> QED
      BY <2>1, <2>2
  <1>5. ASSUME NEW p \in Procs, Step(p), ~ReadWork(p), ~ReadRecords(p) PROVE WorkFirst'
    BY <1>5 DEF Step, CheckStaging, MakePlan, ApplyText, TextAborts, ReadBacklog, EmbedBatch,
                EmbedAborts, Goto
  <1>6. CASE UNCHANGED vars
    BY <1>6 DEF vars, local
  <1> QED
    BY <1>1, <1>2, <1>3, <1>4, <1>5, <1>6 DEF Next

\* Phase one keeps the vectors of the text it keeps, and no others.
LEMMA KeptVectorsAreOfKeptText ==
    ASSUME OneInvocation, TablesInv, NEW p \in Procs, ApplyText(p),
           NEW l \in Locators, embeddings[l] # None
    PROVE  embeddings'[l] = IF chunks'[l].text = chunks[l].text THEN embeddings[l] ELSE None
  <1>1. pc[p] = "text" /\ plan[p] = Diff(loaded[p]) /\ TypeInv
    BY DEF TablesInv, Current, PlanIsCurrent, ApplyText
  <1>2. chunks'[l].text = loaded[p].texts[l]
    BY <1>1, PlanReachesStaging DEF ApplyText
  <1>3. chunks[l].text # None /\ l \in Chunks(StoredTexts)
    BY DEF TablesInv, VectorsAreFresh, Chunks, StoredTexts
  <1>4. plan[p].deletes = Chunks(StoredTexts) \ Chunks(loaded[p].texts)
    BY <1>1 DEF Diff
  <1>5. plan[p].updates = {m \in Chunks(loaded[p].texts) \cap Chunks(StoredTexts) :
                              loaded[p].texts[m] # chunks[m].text}
    BY <1>1 DEF Diff
  <1>6. l \in plan[p].deletes \cup Touched(p) <=> loaded[p].texts[l] # chunks[l].text
    BY <1>3, <1>4, <1>5 DEF Touched, Chunks
  <1> QED
    BY <1>2, <1>6 DEF ApplyText, KeptVectors

\* No step drops the vector of a chunk whose text it leaves alone, so a run
\* resumed costs only what was not yet done (plan.py, diff; apply.py).
THEOREM ResumeKeepsWorkHolds ==
    ASSUME OneInvocation PROVE Spec => ResumeKeepsWork
  <1> DEFINE Keeps == \A l \in Locators :
                         embeddings[l] # None /\ chunks'[l].text = chunks[l].text =>
                             embeddings'[l] = embeddings[l]
  <1>1. TablesInv /\ [Next]_vars => [Keeps]_vars
    <2> SUFFICES ASSUME TablesInv, [Next]_vars, NEW l \in Locators, embeddings[l] # None,
                        chunks'[l].text = chunks[l].text
                 PROVE  embeddings'[l] = embeddings[l]
      OBVIOUS
    <2>1. CASE tables' = tables
      BY <2>1 DEF tables
    <2>2. ASSUME NEW p \in Procs, ApplyText(p) PROVE embeddings'[l] = embeddings[l]
      BY <2>2, KeptVectorsAreOfKeptText
    <2>3. ASSUME NEW p \in Procs, EmbedBatch(p) PROVE embeddings'[l] = embeddings[l]
      BY <2>3, BatchWrites DEF TablesInv, Current
    <2> QED
      BY <2>1, <2>2, <2>3, Writers
  <1>2. TablesInv /\ [Next]_vars => TablesInv'
    BY TablesNext
  <1> QED
    BY <1>1, <1>2, TablesInit, PTL DEF Spec, ResumeKeepsWork

\* What phase one does to the tables: the whole text of one edition comes in, and
\* of the vectors those of the text that stays are kept.
LEMMA ApplyTextReplaces ==
    ASSUME OneInvocation, TablesInv, WorkFirst, NEW p \in Procs, ApplyText(p)
    PROVE  /\ loaded[p].texts \in EditionTexts
           /\ StoredTexts' = loaded[p].texts
           /\ works' \in Facts
           /\ {l \in Locators : embeddings'[l] # None} =
                 {l \in Locators : embeddings[l] # None /\ loaded[p].texts[l] = StoredTexts[l]}
  <1> DEFINE staged == loaded[p].texts
  <1>1. pc[p] = "text" /\ plan[p] = Diff(loaded[p]) /\ TypeInv
    BY DEF TablesInv, Current, PlanIsCurrent, ApplyText
  <1>2. staged \in EditionTexts /\ staged \in [Locators -> Text]
    BY <1>1, EditionTextsType DEF TypeInv, TypeOK, LoadedFirst
  <1>3. \A l \in Locators : chunks'[l].text = staged[l]
    BY <1>1, PlanReachesStaging DEF ApplyText
  <1>4. StoredTexts' = staged
    BY <1>2, <1>3 DEF StoredTexts
  <1>5. works' \in Facts
    BY <1>1 DEF ApplyText, WorkFirst
  <1>6. ASSUME NEW l \in Locators, embeddings[l] # None
        PROVE  embeddings'[l] # None <=> staged[l] = StoredTexts[l]
    BY <1>3, <1>6, KeptVectorsAreOfKeptText DEF StoredTexts
  <1>7. ASSUME NEW l \in Locators, embeddings[l] = None PROVE embeddings'[l] = None
    BY <1>7 DEF ApplyText, KeptVectors
  <1> QED
    BY <1>2, <1>4, <1>5, <1>6, <1>7

\* What a batch of phase two does to them: vectors for some chunks without one.
LEMMA EmbedBatchEmbeds ==
    ASSUME TypeInv, PendingIsCurrent, NEW p \in Procs, EmbedBatch(p)
    PROVE  /\ chunks' = chunks /\ works' = works
           /\ \E located \in SUBSET {l \in Chunks(StoredTexts) : embeddings[l] = None} :
                 /\ located # {}
                 /\ {l \in Locators : embeddings'[l] # None} =
                       {l \in Locators : embeddings[l] # None} \cup located
  <1>1. PICK batch \in SUBSET pending[p] :
            /\ batch # {}
            /\ \A i \in batch : embeddings[i.locator] = None
            /\ \A l \in Locators :
                  IF \E i \in batch : i.locator = l
                  THEN embeddings'[l] = chunks[l].text /\ chunks[l].text \in Texts
                  ELSE embeddings'[l] = embeddings[l]
    BY BatchWrites
  <1> DEFINE located == {l \in Locators : \E i \in batch : i.locator = l}
  <1>2. \A i \in batch : i.locator \in Locators
    BY DEF TypeInv, TypeOK
  <1>3. located # {}
    BY <1>1, <1>2
  <1>4. located \subseteq {l \in Locators : embeddings[l] = None /\ StoredTexts[l] # None}
    BY <1>1, NoneAssumption DEF StoredTexts
  <1>5. {l \in Locators : embeddings'[l] # None} =
           {l \in Locators : embeddings[l] # None} \cup located
    BY <1>1, NoneAssumption
  <1> QED
    BY <1>3, <1>4, <1>5 DEF EmbedBatch, Chunks

\* Ingestion implements CorpusTables: a reader finds the whole text of one
\* edition, replaced in one step, and loses no vector but those of text that
\* changed.  Turn reads tables that change as CorpusTables says.
THEOREM KeepsTablesHolds ==
    ASSUME OneInvocation PROVE Spec => KeepsTables
  <1>1. Init => Tables!Init
    BY DEF Init, Tables!Init, StoredTexts
  <1>2. ASSUME TablesInv, WorkFirst, NEW p \in Procs, ApplyText(p)
        PROVE  Tables!Next
    <2>1. PICK edition \in EditionTexts : edition = loaded[p].texts
      BY <1>2, ApplyTextReplaces
    <2>2. Tables!Replace(edition)
      BY <1>2, <2>1, ApplyTextReplaces DEF Tables!Replace
    <2> QED
      BY <2>2 DEF Tables!Next
  <1>3. ASSUME TablesInv, NEW p \in Procs, EmbedBatch(p)
        PROVE  Tables!Next
    <2>1. PICK located \in SUBSET {l \in Chunks(StoredTexts) : embeddings[l] = None} :
              /\ located # {}
              /\ {l \in Locators : embeddings'[l] # None} =
                    {l \in Locators : embeddings[l] # None} \cup located
      BY <1>3, EmbedBatchEmbeds DEF TablesInv, Current
    <2>2. StoredTexts' = StoredTexts /\ works' = works
      BY <1>3 DEF EmbedBatch, StoredTexts
    <2>3. Tables!Embed(located)
      BY <2>1, <2>2 DEF Tables!Embed, Chunks
    <2> QED
      BY <2>1, <2>3 DEF Tables!Next, Chunks
  <1>4. TablesInv /\ WorkFirst /\ [Next]_vars => [Tables!Next]_(Tables!tableVars)
    <2> SUFFICES ASSUME TablesInv, WorkFirst, [Next]_vars
                 PROVE  Tables!Next \/ UNCHANGED Tables!tableVars
      OBVIOUS
    <2>1. CASE tables' = tables
      BY <2>1 DEF tables, Tables!tableVars, StoredTexts
    <2> QED
      BY <1>2, <1>3, <2>1, Writers
  <1>5. TablesInv /\ [Next]_vars => TablesInv'
    BY TablesNext
  <1>6. TablesInv => TypeInv
    BY DEF TablesInv
  <1> QED
    BY <1>1, <1>4, <1>5, <1>6, TablesInit, WorkFirstInit, WorkFirstNext, PTL
    DEF Spec, KeepsTables, Tables!Spec
=============================================================================
