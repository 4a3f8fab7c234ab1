---------------------------- MODULE BereanProofs ----------------------------
(***************************************************************************)
(* Proofs about the whole path of a quotation, from the lemmas of the two  *)
(* components: what ingestion keeps of the tables bounds what a lookup can *)
(* return, and verification bounds what is printed by what was returned.   *)
(***************************************************************************)
EXTENDS Berean, TurnRulesProofs

\* What Ingestion asks of its constants holds of the ones it is given here.
LEMMA CatenaAssumptions ==
    /\ Catena!LocatorsAssumption
    /\ Catena!NoneAssumption
    /\ Catena!OverlongAssumption
    /\ Catena!EditionsAssumption
    /\ Catena!BoundsAssumption
  <1>1. Catena!LocatorsAssumption
    BY LocatorsAssumption DEF Catena!LocatorsAssumption, IsFiniteSet, Catena!IsFiniteSet
  <1>2. Catena!NoneAssumption
    BY NoneAssumption, TextsAssumption DEF Catena!NoneAssumption
  <1>3. Catena!OverlongAssumption
    BY TextsAssumption DEF Catena!OverlongAssumption
  <1>4. Catena!EditionsAssumption
    BY StagedAssumption DEF Catena!EditionsAssumption
  <1>5. Catena!BoundsAssumption
    BY BoundsAssumption DEF Catena!BoundsAssumption
  <1> QED
    BY <1>1, <1>2, <1>3, <1>4, <1>5

LEMMA RowsInit == Catena!Init => Catena!RowsInv
    BY CatenaAssumptions, Catena!RowsInit

LEMMA RowsNext == Catena!RowsInv /\ [Catena!Next]_(Catena!vars) => Catena!RowsInv'
    BY CatenaAssumptions, Catena!RowsNext

LEMMA ApprovedGrows == [Catena!Next]_(Catena!vars) => approved \subseteq approved'
    BY CatenaAssumptions, Catena!ApprovedGrows

LEMMA CatenaUnchanged == UNCHANGED catena => UNCHANGED Catena!vars
    BY DEF catena, stored, Catena!vars, Catena!tables, Catena!files, Catena!local

\* Every step of the whole is a step of catena's or leaves it alone.
LEMMA StepsOfCatena == [SystemNext]_systemVars => [Catena!Next]_(Catena!vars)
    BY CatenaUnchanged DEF SystemNext, Commit, Prepare, Serve, systemVars

\* What the types of the two say of each other.
Meet == /\ \A l \in Locators : rows[l].text \in Strings \cup {None}
        /\ LicenseOf(works) \in License \cup {"unknown"}
        /\ \A l \in Locators : vectors[l] # None => rows[l].text # None

LEMMA TypesMeet == Catena!RowsInv => Meet
  <1> SUFFICES ASSUME Catena!RowsInv PROVE Meet
    OBVIOUS
  <1>1. /\ rows \in [Locators -> [id : Nat, text : Texts \cup {None}, version : Nat]]
        /\ works \in Catena!Facts \cup {None}
    BY DEF Catena!RowsInv, Catena!TypeInv, Catena!TypeOK, Catena!Text
  <1>2. \A l \in Locators : rows[l].text \in Strings \cup {None}
    BY <1>1, TextsAssumption
  <1>3. LicenseOf(works) \in License \cup {"unknown"}
    BY <1>1, LicenseAssumption
  <1>4. \A l \in Locators : vectors[l] # None => rows[l].text # None
    BY DEF Catena!RowsInv, Catena!VectorsHaveRows
  <1> QED
    BY <1>2, <1>3, <1>4 DEF Meet

\* The same of the state a step leads to.
LEMMA TypesMeetNext == Catena!RowsInv' => Meet'
    BY TypesMeet, PTL

---------------------------------------------------------------------------
(* One database, seen from two sides.                                      *)

SharedTables ==
    /\ \A r \in Ref : r.corpus = Corpus => chunks[r] = rows[r.locator].text
    /\ license[Corpus] = LicenseOf(works)
    /\ \A r \in Ref : r.corpus = Corpus => (r \in embedded <=> vectors[r.locator] # None)

\* Whatever a lookup could have returned was, when it could, an approved text.
HeldIsApproved ==
    \A row \in held : row.ref.corpus = Corpus /\ row.text # None =>
        \E t \in approved : t[row.ref.locator] = row.text

SystemInv == /\ Catena!RowsInv
             /\ TurnInv
             /\ Grounded
             /\ SharedTables
             /\ HeldIsApproved

LEMMA SharedInit == SystemInit => SharedTables
  <1> SUFFICES ASSUME SystemInit PROVE SharedTables
    OBVIOUS
  <1>1. \A r \in Ref : r.corpus = Corpus => chunks[r] = rows[r.locator].text
    BY DEF SystemInit
  <1>2. \A l \in Locators : rows[l].text = None /\ vectors[l] = None
    BY DEF SystemInit, Catena!Init
  <1>3. \A r \in Ref : r \in embedded => chunks[r] # None
    BY StoredAssumption DEF SystemInit, Init, Tables
  <1>4. \A r \in Ref : r.locator \in Locators
    BY DEF Ref
  <1> QED
    BY <1>1, <1>2, <1>3, <1>4 DEF SharedTables, SystemInit

\* What the rows of one moment add to what was held before.
LEMMA RowsOfTables ==
    ASSUME SharedTables, Catena!RowsInv, NEW row \in Rows(chunks, license),
           row.ref.corpus = Corpus, row.text # None
    PROVE  \E t \in approved : t[row.ref.locator] = row.text
  <1>1. row.ref \in Ref /\ row.text = chunks[row.ref] /\ row.ref.locator \in Locators
    BY DEF Rows, Ref
  <1>2. row.text = rows[row.ref.locator].text
    BY <1>1 DEF SharedTables
  <1> QED
    BY <1>1, <1>2 DEF Catena!RowsInv, Catena!RowsAreApproved

LEMMA SystemInvInit == SystemInit => SystemInv
  <1> SUFFICES ASSUME SystemInit PROVE SystemInv
    OBVIOUS
  <1>1. Catena!RowsInv
    BY RowsInit DEF SystemInit
  <1>2. TurnInv
    BY TypeInit, OrderedInit DEF SystemInit, Init, Delivering, TurnInv
  <1>3. Grounded
    BY GroundedInit DEF SystemInit
  <1>4. SharedTables
    BY SharedInit
  <1>5. held = Rows(chunks, license)
    BY DEF SystemInit, Init
  <1>6. HeldIsApproved
    BY <1>1, <1>4, <1>5, RowsOfTables DEF HeldIsApproved
  <1> QED
    BY <1>1, <1>2, <1>3, <1>4, <1>6 DEF SystemInv

---------------------------------------------------------------------------
(* The steps.                                                              *)

LEMMA SharedNext == SharedTables /\ TypeOK /\ [SystemNext]_systemVars => SharedTables'
  <1> SUFFICES ASSUME SharedTables, TypeOK, [SystemNext]_systemVars PROVE SharedTables'
    OBVIOUS
  <1>0. Ref' = Ref
    BY DEF Ref
  <1>1. CASE Commit
    BY <1>0, <1>1, CorpusAssumption DEF Commit, SharedTables, TypeOK
  <1>2. CASE Prepare \/ UNCHANGED systemVars
    BY <1>0, <1>2 DEF Prepare, SharedTables, systemVars, vars, tables, catena, stored
  <1>3. CASE Serve
    <2>1. UNCHANGED tables
      BY <1>3 DEF Serve, Gateway, Load, ProbeCorpus, LoadFails, Generate, ReceiveAnswer,
                  ReceiveGenerationFailure, GenerateFails, Verify, CheckNextCitation,
                  LookupFails, Accept, Regenerate, Degrade, Judged, Deliver, Describe, Record,
                  RecordFails, Render, Kill
    <2> QED
      BY <1>0, <1>3, <2>1 DEF Serve, SharedTables, tables, catena, stored
  <1> QED
    BY <1>1, <1>2, <1>3 DEF SystemNext

\* A commit of catena's, whatever it is, leaves the turn what it was.
LEMMA CommitTurn ==
    ASSUME TurnInv, Grounded, Commit, Catena!RowsInv'
    PROVE  TurnInv' /\ Grounded'
  <1>1. /\ pc' = pc
        /\ UNCHANGED <<ask, unprobed, feedback, draft, attempts, result, recorded, screen>>
    BY DEF Commit, gateway, turn
  <1>2. /\ \A l \in Locators : rows'[l].text \in Strings \cup {None}
        /\ LicenseOf(works') \in License \cup {"unknown"}
        /\ \A l \in Locators : vectors'[l] # None => rows'[l].text # None
    BY TypesMeetNext DEF Meet
  <1>3. TypeOK'
    <2>1. chunks' \in [Ref -> Strings \cup {None}]
      BY <1>2 DEF Commit, Ref, TurnInv, TypeOK
    <2>2. license' \in [Corpora -> License \cup {"unknown"}]
      BY <1>2 DEF Commit, TurnInv, TypeOK
    <2>3. embedded' \subseteq {r \in Ref : chunks'[r] # None}
      BY <1>2 DEF Commit, Ref, TurnInv, TypeOK
    <2>4. writes' \in 0..MaxWrites
      BY MaxWritesAssumption DEF Commit, TurnInv, TypeOK
    <2> QED
      BY <1>1, <2>1, <2>2, <2>3, <2>4 DEF TurnInv, TypeOK
  <1>4. Delivering'
    BY <1>1 DEF TurnInv, Delivering
  <1>5. Ordered'
    BY <1>1, OrderedAside DEF TurnInv
  <1>6. Grounded'
    <2>1. held \subseteq held' /\ Rows(chunks', license') \subseteq held'
      BY DEF Commit
    <2> QED
      BY <1>1, <2>1, GroundedAside
  <1> QED
    BY <1>3, <1>4, <1>5, <1>6 DEF TurnInv

\* Every other step is one that Turn has, or changes nothing of it.
LEMMA OtherSteps ==
    ASSUME [SystemNext]_systemVars, ~Commit
    PROVE  [Next]_vars
    BY DEF SystemNext, Prepare, Serve, Next, systemVars, vars

LEMMA TurnStays ==
    TurnInv /\ Grounded /\ Catena!RowsInv' /\ [SystemNext]_systemVars => TurnInv' /\ Grounded'
    BY CommitTurn, OtherSteps, TurnNext, GroundedNext

\* Only a commit adds to what a lookup could return.
LEMMA HeldStays ==
    ASSUME [SystemNext]_systemVars, ~Commit
    PROVE  held' = held
  <1>1. CASE Serve
    BY <1>1 DEF Serve, Gateway, Load, ProbeCorpus, LoadFails, Generate, ReceiveAnswer,
                ReceiveGenerationFailure, GenerateFails, Verify, CheckNextCitation,
                LookupFails, Accept, Regenerate, Degrade, Judged, Deliver, Describe, Record,
                RecordFails, Render, Kill, tables
  <1>2. CASE Prepare \/ UNCHANGED systemVars
    BY <1>2 DEF Prepare, systemVars, vars, tables
  <1> QED
    BY <1>1, <1>2 DEF SystemNext

\* The same as RowsOfTables of the state a step leads to.
RowsApproved ==
    \A row \in Rows(chunks, license) : row.ref.corpus = Corpus /\ row.text # None =>
        \E t \in approved : t[row.ref.locator] = row.text

LEMMA RowsApprovedNow == SharedTables /\ Catena!RowsInv => RowsApproved
    BY RowsOfTables DEF RowsApproved

LEMMA RowsApprovedNext == SharedTables' /\ Catena!RowsInv' => RowsApproved'
    BY RowsApprovedNow, PTL

LEMMA HeldNext ==
    ASSUME SystemInv, [SystemNext]_systemVars, SharedTables', Catena!RowsInv'
    PROVE  HeldIsApproved'
  <1>1. approved \subseteq approved'
    BY StepsOfCatena, ApprovedGrows
  <1>2. ASSUME NEW row \in held, row.ref.corpus = Corpus, row.text # None
        PROVE  \E t \in approved' : t[row.ref.locator] = row.text
    BY <1>1, <1>2 DEF SystemInv, HeldIsApproved
  <1>3. CASE Commit
    <2>1. held' = held \cup Rows(chunks, license)'
      BY <1>3 DEF Commit, Rows, Ref
    <2>2. RowsApproved'
      BY RowsApprovedNext
    <2> QED
      BY <1>2, <2>1, <2>2 DEF HeldIsApproved, RowsApproved
  <1>4. CASE ~Commit
    BY <1>2, <1>4, HeldStays DEF HeldIsApproved
  <1> QED
    BY <1>3, <1>4

LEMMA SystemInvNext == SystemInv /\ [SystemNext]_systemVars => SystemInv'
  <1> SUFFICES ASSUME SystemInv, [SystemNext]_systemVars PROVE SystemInv'
    OBVIOUS
  <1>1. Catena!RowsInv'
    BY StepsOfCatena, RowsNext DEF SystemInv
  <1>2. TurnInv' /\ Grounded'
    BY <1>1, TurnStays DEF SystemInv
  <1>3. SharedTables'
    BY SharedNext DEF SystemInv, TurnInv
  <1>4. HeldIsApproved'
    BY <1>1, <1>3, HeldNext
  <1> QED
    BY <1>1, <1>2, <1>3, <1>4 DEF SystemInv

\* The inductive invariant of the whole, for any number of invocations at once.
THEOREM SystemHolds == System => []SystemInv
    BY SystemInvInit, SystemInvNext, PTL DEF System

\* Every quotation berean prints of the corpus is in a text a person blessed, at
\* the locator it is cited by, whatever is staged, whenever ingestion commits and
\* dies, and however many invocations of it run at once (verify.go,
\* checkCitation; plan.py, check_fingerprints; apply.py, apply_text).
THEOREM WhatIsShownWasBlessedHolds == System => []WhatIsShownWasBlessed
  <1>1. SystemInv => WhatIsShownWasBlessed
    <2> SUFFICES ASSUME SystemInv, Shown("answer"), NEW k \in DOMAIN screen.answer.citations,
                        screen.answer.citations[k].corpus = Corpus
                 PROVE  \E texts \in approved :
                           /\ texts[screen.answer.citations[k].locator] # None
                           /\ QuoteFound(texts[screen.answer.citations[k].locator],
                                         screen.answer.citations[k].quote)
      BY DEF WhatIsShownWasBlessed
    <2> DEFINE citation == screen.answer.citations[k]
    <2>1. Sourced(citation)
      BY GroundedIsSourced DEF SystemInv, ShownIsSourced
    <2>2. PICK row \in held : /\ row.ref = RefOf(citation)
                              /\ row.text # None
                              /\ QuoteFound(row.text, citation.quote)
      BY <2>1 DEF Sourced
    <2>3. row.ref.corpus = Corpus /\ row.ref.locator = citation.locator
      BY <2>2 DEF RefOf
    <2>4. PICK texts \in approved : texts[citation.locator] = row.text
      BY <2>2, <2>3 DEF SystemInv, HeldIsApproved
    <2> QED
      BY <2>2, <2>4
  <1> QED
    BY <1>1, SystemHolds, PTL

---------------------------------------------------------------------------
(* What a turn promises, whatever ingestion does to the tables under it.   *)

RulesInv == SystemInv /\ Rightful /\ Informed /\ Accounted

LEMMA RulesCommit ==
    ASSUME TurnInv, Rightful, Informed, Accounted, Commit
    PROVE  Rightful' /\ Informed' /\ Accounted'
  <1>1. pc' = pc /\ UNCHANGED <<ask, feedback, draft, attempts, result>>
    BY DEF Commit, gateway, turn
  <1> QED
    BY <1>1, RightfulAside, InformedAside, AccountedAside

LEMMA RulesNext == RulesInv /\ [SystemNext]_systemVars => RulesInv'
  <1> SUFFICES ASSUME RulesInv, [SystemNext]_systemVars PROVE RulesInv'
    OBVIOUS
  <1>1. SystemInv'
    BY SystemInvNext DEF RulesInv
  <1>2. CASE Commit
    BY <1>1, <1>2, RulesCommit DEF RulesInv, SystemInv
  <1>3. CASE ~Commit
    BY <1>1, <1>3, OtherSteps, RightfulNext, InformedNext, AccountedNext
    DEF RulesInv, SystemInv
  <1> QED
    BY <1>2, <1>3

\* What Turn promises of its states it promises here too, also when invocations
\* of ingestion interleave and do to the tables what Turn does not allow for
\* (turn.go, verify.go, store.go and render.go, beside apply.py).
THEOREM PromisesHold ==
    System => [](/\ ShownIsRecorded
                 /\ ShownIsSourced
                 /\ EveryArgumentHasAuthority
                 /\ ContestedIsShownContested
                 /\ SilenceIsAlone
                 /\ HighConfidenceIsCorroborated
                 /\ RetryIsInformed
                 /\ TraceExplainsOutcome
                 /\ SchemaAccepts)
  <1>1. SystemInit => RulesInv
    BY SystemInvInit, TurnIInvInit DEF RulesInv, SystemInit
  <1>2. RulesInv => TurnInv /\ Grounded /\ TurnIInv
    BY DEF RulesInv, SystemInv, TurnIInv
  <1>3. RulesInv => /\ ShownIsRecorded
                    /\ ShownIsSourced
                    /\ EveryArgumentHasAuthority
                    /\ ContestedIsShownContested
                    /\ SilenceIsAlone
                    /\ HighConfidenceIsCorroborated
                    /\ RetryIsInformed
                    /\ TraceExplainsOutcome
                    /\ SchemaAccepts
    BY <1>2, ShownIsRecordedFollows, GroundedIsSourced, EveryArgumentHasAuthorityFollows,
       ContestedIsShownContestedFollows, SilenceIsAloneFollows,
       HighConfidenceIsCorroboratedFollows, RetryIsInformedFollows,
       TraceExplainsOutcomeFollows, SchemaAcceptsFollows
  <1> QED
    BY <1>1, <1>3, RulesNext, PTL DEF System

\* And so with the contract of a turn: attempts, verdict, rows and screen change
\* only as it says, whatever else changes (turn.go, Ask; main.go, deliver).
THEOREM ContractHolds == System => KeepsContract
  <1>1. SystemInit => Contract!Init
    BY ContractInit DEF SystemInit
  <1>2. SystemInv /\ [SystemNext]_systemVars => [Contract!Next]_(Contract!contractVars)
    <2> SUFFICES ASSUME SystemInv, [SystemNext]_systemVars
                 PROVE  [Contract!Next]_(Contract!contractVars)
      OBVIOUS
    <2>1. CASE Commit
      BY <2>1 DEF Commit, gateway, turn, Contract!contractVars
    <2>2. CASE ~Commit
      BY <2>2, OtherSteps, ContractNext DEF SystemInv
    <2> QED
      BY <2>1, <2>2
  <1> QED
    BY <1>1, <1>2, SystemHolds, PTL DEF System, KeepsContract, Contract!Spec

---------------------------------------------------------------------------
(* What Turn assumed, with one invocation at a time.                       *)

CatenaInv == Catena!TablesInv /\ Catena!WorkFirst

LEMMA CatenaInvInit == Catena!Init => CatenaInv
    BY CatenaAssumptions, Catena!TablesInit, Catena!WorkFirstInit DEF CatenaInv

LEMMA CatenaInvNext ==
    ASSUME Catena!OneInvocation
    PROVE  CatenaInv /\ [Catena!Next]_(Catena!vars) => CatenaInv'
  <1>1. Catena!TablesInv /\ [Catena!Next]_(Catena!vars) => Catena!TablesInv'
    BY CatenaAssumptions, Catena!TablesNext
  <1>2. Catena!TablesInv => Catena!TypeInv
    BY DEF Catena!TablesInv
  <1>3. Catena!TypeInv /\ Catena!WorkFirst /\ [Catena!Next]_(Catena!vars) => Catena!WorkFirst'
    BY CatenaAssumptions, Catena!WorkFirstNext
  <1> QED
    BY <1>1, <1>2, <1>3 DEF CatenaInv

\* Phase one, seen from the gateway.
LEMMA TextCommitted ==
    ASSUME Catena!OneInvocation, CatenaInv, SystemInv, Commit,
           NEW p \in Procs, Catena!ApplyText(p)
    PROVE  \E e \in Editions : CommitText(e)
  <1>1. /\ loaded[p].texts \in Catena!EditionTexts
        /\ Catena!StoredTexts' = loaded[p].texts
        /\ works' \in Catena!Facts
        /\ {l \in Locators : vectors'[l] # None} =
              {l \in Locators : vectors[l] # None /\ loaded[p].texts[l] = Catena!StoredTexts[l]}
    BY CatenaAssumptions, Catena!ApplyTextReplaces DEF CatenaInv
  <1> DEFINE e == [corpus |-> Corpus, license |-> LicenseOf(works'), texts |-> loaded[p].texts]
  <1>2. e \in Editions
    <2>1. PICK w \in Catena!Facts, t \in Catena!EditionTexts :
              w = works' /\ t = loaded[p].texts
      BY <1>1
    <2>2. [corpus |-> Corpus, license |-> LicenseOf(w), texts |-> t] \in Editions
      BY EditionsCover
    <2> QED
      BY <2>1, <2>2
  <1>3. ASSUME NEW r \in Ref
        PROVE  chunks'[r] = IF r.corpus = Corpus THEN e.texts[r.locator] ELSE chunks[r]
    BY <1>1 DEF Commit, Ref, Catena!StoredTexts
  <1>4. chunks' = [r \in Ref |-> IF r.corpus = e.corpus THEN e.texts[r.locator] ELSE chunks[r]]
    BY <1>3 DEF Commit
  <1>5. license' = [license EXCEPT ![e.corpus] = e.license]
    BY DEF Commit
  <1>6. ASSUME NEW r \in Ref
        PROVE  r \in embedded' <=> r \in embedded /\ chunks'[r] = chunks[r]
    <2>1. CASE r.corpus # Corpus
      BY <1>3, <2>1 DEF Commit
    <2>2. CASE r.corpus = Corpus
      <3>1. r.locator \in Locators
        BY DEF Ref
      <3>2. r \in embedded' <=> vectors'[r.locator] # None
        BY <2>2 DEF Commit
      <3>3. vectors'[r.locator] # None <=>
               vectors[r.locator] # None /\ e.texts[r.locator] = rows[r.locator].text
        BY <1>1, <3>1 DEF Catena!StoredTexts
      <3>4. chunks'[r] = e.texts[r.locator] /\ chunks[r] = rows[r.locator].text
        BY <1>3, <2>2 DEF SystemInv, SharedTables
      <3>5. r \in embedded <=> vectors[r.locator] # None
        BY <2>2 DEF SystemInv, SharedTables
      <3> QED
        BY <3>2, <3>3, <3>4, <3>5
    <2> QED
      BY <2>1, <2>2
  <1>7. embedded' = {r \in embedded : chunks'[r] = chunks[r]}
    <2>1. embedded' \subseteq Ref /\ embedded \subseteq Ref
      BY DEF Commit, SystemInv, TurnInv, TypeOK
    <2> QED
      BY <1>6, <2>1
  <1>8. CommitText(e)
    BY <1>4, <1>5, <1>7 DEF CommitText, Commit, gateway
  <1> QED
    BY <1>2, <1>8

\* A batch of phase two, seen from the gateway.
LEMMA VectorsCommitted ==
    ASSUME CatenaInv, SystemInv, Commit, NEW p \in Procs, Catena!EmbedBatch(p)
    PROVE  CommitVectors(Corpus)
  <1>1. /\ rows' = rows /\ works' = works
        /\ \E located \in SUBSET {l \in Catena!Chunks(Catena!StoredTexts) : vectors[l] = None} :
              /\ located # {}
              /\ {l \in Locators : vectors'[l] # None} =
                    {l \in Locators : vectors[l] # None} \cup located
    BY CatenaAssumptions, Catena!EmbedBatchEmbeds
    DEF CatenaInv, Catena!TablesInv, Catena!Current
  <1>2. PICK located \in SUBSET {l \in Catena!Chunks(Catena!StoredTexts) : vectors[l] = None} :
            /\ located # {}
            /\ {l \in Locators : vectors'[l] # None} =
                  {l \in Locators : vectors[l] # None} \cup located
    BY <1>1
  <1>3. /\ chunks \in [Ref -> Strings \cup {None}]
        /\ license \in [Corpora -> License \cup {"unknown"}]
        /\ embedded \subseteq Ref
    BY DEF SystemInv, TurnInv, TypeOK
  <1>4. chunks' = chunks
    <2>1. \A r \in Ref : chunks'[r] = chunks[r]
      BY <1>1 DEF Commit, SystemInv, SharedTables
    <2> QED
      BY <1>3, <2>1 DEF Commit
  <1>5. license' = license
    BY <1>1, <1>3 DEF Commit, SystemInv, SharedTables
  <1>6. held' = held
    BY <1>4, <1>5 DEF Commit, SystemInv, Grounded
  <1> DEFINE batch == {r \in Ref : r.corpus = Corpus /\ r.locator \in located}
  <1>7. batch # {}
    <2>1. PICK l \in located : l \in Locators
      BY <1>2
    <2>2. [corpus |-> Corpus, locator |-> l] \in batch
      BY <2>1, CorpusAssumption DEF Ref
    <2> QED
      BY <2>2
  <1>8. batch \in SUBSET {r \in Ref \ embedded : r.corpus = Corpus /\ chunks[r] # None}
    BY <1>2 DEF SystemInv, SharedTables, Catena!StoredTexts, Catena!Chunks
  <1>9. embedded' = embedded \cup batch
    <2>1. ASSUME NEW r \in Ref PROVE r \in embedded' <=> r \in embedded \/ r \in batch
      <3>1. CASE r.corpus # Corpus
        BY <3>1 DEF Commit
      <3>2. CASE r.corpus = Corpus
        <4>1. r.locator \in Locators
          BY DEF Ref
        <4>2. r \in embedded' <=> vectors'[r.locator] # None
          BY <3>2 DEF Commit
        <4>3. r \in embedded <=> vectors[r.locator] # None
          BY <3>2 DEF SystemInv, SharedTables
        <4>4. vectors'[r.locator] # None <=> vectors[r.locator] # None \/ r.locator \in located
          BY <1>2, <4>1
        <4> QED
          BY <3>2, <4>2, <4>3, <4>4
      <3> QED
        BY <3>1, <3>2
    <2>2. embedded' \subseteq Ref
      BY DEF Commit
    <2> QED
      BY <1>3, <2>1, <2>2
  <1> HIDE DEF batch
  <1> QED
    BY <1>4, <1>5, <1>6, <1>7, <1>8, <1>9 DEF CommitVectors, Commit, gateway

LEMMA CommitIsAssumed ==
    ASSUME Catena!OneInvocation, CatenaInv, SystemInv, Commit
    PROVE  Ingestion
  <1>1. [Catena!Next]_(Catena!vars) /\ Catena!tables' # Catena!tables
    BY DEF Commit, stored, Catena!tables
  <1>2. PICK p \in Procs : Catena!ApplyText(p) \/ Catena!EmbedBatch(p)
    BY <1>1, CatenaAssumptions, Catena!Writers
  <1> QED
    BY <1>2, TextCommitted, VectorsCommitted, CorpusAssumption DEF Ingestion

\* What Turn assumes of ingestion, ingestion keeps, one invocation at a time: the
\* whole implements Turn, and so everything proved of Turn holds of it too
\* (apply.py, apply_text and embed_backlog, beside lookup.go and registry.go).
THEOREM IngestionIsAssumedHolds ==
    ASSUME Catena!OneInvocation PROVE System => IngestionIsAssumed
  <1>1. SystemInit => Init /\ CatenaInv
    BY CatenaInvInit DEF SystemInit
  <1>2. CatenaInv /\ [SystemNext]_systemVars => CatenaInv'
    BY StepsOfCatena, CatenaInvNext
  <1>3. CatenaInv /\ SystemInv /\ [SystemNext]_systemVars => [Next]_vars
    BY CommitIsAssumed, OtherSteps DEF Next
  <1> QED
    BY <1>1, <1>2, <1>3, SystemHolds, PTL DEF System, Spec, IngestionIsAssumed
=============================================================================
