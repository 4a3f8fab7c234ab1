---------------------------- MODULE BrowseProofs ----------------------------
(***************************************************************************)
(* Proofs about Acquire and Browse, for every corpus, adapter, publisher   *)
(* and number of runs, and however often things befall them.               *)
(***************************************************************************)
EXTENDS Browse, ProofLemmas

---------------------------------------------------------------------------
(* Types.                                                                  *)

Got == {"extract", "segment", "normalise", "acquired"}
Recorded == {"acquired", "manifest", "fingerprints", "records", "work"}
Submitted == {"fetch", "pages", "extract", "segment", "normalise", "acquired"}

\* What a run holds at each point of the pipeline, and what it may rely on
\* finding in the corpus's directories: doc is document.txt, st is stage/.
Fits(r, me, doc, st) ==
    /\ me.pc = "pages" => me.left # {} /\ me.bytes # None
    /\ me.pc \in Got => me.bytes # None
    /\ me.pc = "segment" => doc # None
    /\ me.pc \in Recorded => me.records # None
    /\ me.records # None => IsFiniteSet(DOMAIN me.records)
    /\ me.pc = "work" => st.records # None
    /\ me.mode = "browser" /\ me.pc \in Submitted => me.read # None
    /\ me.pc # "idle" => (me.mode = "browser" <=> r \in Threads)

Phases == \A r \in Runs : Fits(r, run[r], document, stage)

Typed == TypeOK /\ Phases

LEMMA NotNone ==
    /\ None \notin Blob \cup Fingerprints \cup Manifest \cup Facts \cup Documents \cup Texts \cup Sites
    /\ Unreadable \notin Blob \cup Fingerprints \cup Manifest
    /\ None # Unreadable
    BY NoneAssumption

LEMMA IdleType == Idle \in RunState
    BY DEF Idle, RunState

\* A step of one run that leaves the directories at least as full.
LEMMA OneRun ==
    ASSUME Typed, NEW r \in Runs, NEW new \in RunState, Become(r, new),
           Fits(r, new, document', stage'),
           document # None => document' # None,
           stage.records # None => stage'.records # None
    PROVE  run' \in [Runs -> RunState] /\ Phases'
  <1>1. run \in [Runs -> RunState]
    BY DEF Typed, TypeOK
  <1>2. run' \in [Runs -> RunState] /\ run'[r] = new /\ \A q \in Runs \ {r} : run'[q] = run[q]
    BY <1>1 DEF Become
  <1>3. \A q \in Runs : Fits(q, run[q], document, stage)
    BY DEF Typed, Phases
  <1> QED
    BY <1>2, <1>3 DEF Phases, Fits

LEMMA NoRun ==
    ASSUME Phases, UNCHANGED run,
           document # None => document' # None,
           stage.records # None => stage'.records # None
    PROVE  Phases'
    BY DEF Phases, Fits

Points == {"idle", "fetch", "pages", "extract", "segment", "normalise", "acquired",
           "manifest", "fingerprints", "records", "work", "done", "refused"}

\* Moving a run on changes nothing else it holds.
LEMMA MovedOn ==
    ASSUME NEW me \in RunState, NEW pc \in Points
    PROVE  LET new == [me EXCEPT !.pc = pc] IN
           /\ new \in RunState /\ new.pc = pc
           /\ new.mode = me.mode /\ new.file = me.file /\ new.manifest = me.manifest
           /\ new.committed = me.committed /\ new.read = me.read /\ new.left = me.left
           /\ new.bytes = me.bytes /\ new.records = me.records
    BY DEF RunState, Points

LEMMA GotoFits ==
    ASSUME Typed, NEW r \in Runs, NEW pc \in Points \ {"pages"}, Goto(r, pc),
           run[r].pc # "idle",
           document # None => document' # None,
           stage.records # None => stage'.records # None,
           pc \in Got => run[r].bytes # None,
           pc \in Recorded => run[r].records # None,
           pc \in Submitted => run[r].pc \in Submitted,
           pc = "segment" => document' # None,
           pc = "work" => stage'.records # None
    PROVE  run' \in [Runs -> RunState] /\ Phases'
  <1> DEFINE new == [run[r] EXCEPT !.pc = pc]
  <1>1. run[r] \in RunState /\ Fits(r, run[r], document, stage)
    BY DEF Typed, TypeOK, Phases
  <1>2. /\ new \in RunState /\ new.pc = pc
        /\ new.mode = run[r].mode /\ new.read = run[r].read
        /\ new.bytes = run[r].bytes /\ new.records = run[r].records
    BY <1>1, MovedOn
  <1>3. Become(r, new)
    BY DEF Goto
  <1> HIDE DEF new
  <1>4. Fits(r, new, document', stage')
    BY <1>1, <1>2 DEF Fits
  <1> QED
    BY <1>2, <1>3, <1>4, OneRun

LEMMA RefuseFits ==
    ASSUME Typed, NEW r \in Runs, Refuse(r), run[r].pc # "idle", UNCHANGED <<document, stage>>
    PROVE  run' \in [Runs -> RunState] /\ Phases'
    BY GotoFits DEF Refuse, Points, Got, Recorded, Submitted

---------------------------------------------------------------------------
(* The fetch.                                                              *)

LEMMA StoreFits ==
    ASSUME Typed, NEW r \in Runs, NEW blob \in Blob, Store(r, blob),
           run[r].pc \in {"fetch", "pages"}, UNCHANGED <<document, stage>>
    PROVE  /\ run' \in [Runs -> RunState] /\ Phases'
           /\ cache' \subseteq Blob /\ damaged' \subseteq cache'
  <1> DEFINE new == [run[r] EXCEPT !.bytes = blob, !.left = {}, !.pc = "extract"]
  <1>1. run[r] \in RunState /\ Fits(r, run[r], document, stage)
    BY DEF Typed, TypeOK, Phases
  <1>2. /\ new \in RunState /\ new.pc = "extract"
        /\ new.mode = run[r].mode /\ new.read = run[r].read
        /\ new.bytes = blob /\ new.records = run[r].records
    BY <1>1 DEF RunState
  <1>3. Become(r, new)
    BY DEF Store
  <1> HIDE DEF new
  <1>4. Fits(r, new, document', stage')
    BY <1>1, <1>2, NotNone DEF Fits, Got, Recorded, Submitted
  <1>5. cache' \subseteq Blob /\ damaged' \subseteq cache'
    BY DEF Store, Typed, TypeOK
  <1> QED
    BY <1>2, <1>3, <1>4, <1>5, OneRun

\* Nothing but the run and the cache is touched.
FetchFrame == UNCHANGED <<upstream, working, stage, evidence, bounds, since, approved, page>>

LEMMA TypeAfterFetch ==
    ASSUME Typed, FetchFrame, run' \in [Runs -> RunState], Phases',
           cache' \subseteq Blob, damaged' \subseteq cache'
    PROVE  Typed'
    BY DEF Typed, TypeOK, FetchFrame, upstream, working, evidence, bounds

LEMMA TypeReadLocalCopy ==
    ASSUME Typed, NEW r \in Runs, UNCHANGED page, ReadLocalCopy(r) \/ LocalCopyUnreadable(r)
    PROVE  Typed'
  <1>1. /\ FetchFrame /\ UNCHANGED <<document, stage>>
        /\ run[r].pc = "fetch" /\ run[r].file # None
    BY DEF ReadLocalCopy, LocalCopyUnreadable, Fetching, FetchFrame, At, working
  <1>2. CASE ReadLocalCopy(r)
    <2>1. run[r].file \in Blob
      BY <1>1, LocalCopiesAssumption DEF Typed, TypeOK, RunState
    <2> QED
      BY <1>1, <1>2, <2>1, StoreFits, TypeAfterFetch DEF ReadLocalCopy
  <1>3. CASE LocalCopyUnreadable(r)
    BY <1>1, <1>3, RefuseFits, TypeAfterFetch
    DEF LocalCopyUnreadable, blobs, Typed, TypeOK
  <1> QED
    BY <1>2, <1>3

LEMMA TypeReadCache ==
    ASSUME Typed, NEW r \in Runs, UNCHANGED page, ReadCache(r)
    PROVE  Typed'
  <1>1. /\ FetchFrame /\ UNCHANGED <<document, stage, cache, damaged>>
        /\ run[r].pc = "fetch" /\ run[r].manifest.upstream \in cache
    BY DEF ReadCache, CacheHit, Fetching, FetchFrame, At, working, blobs
  <1>2. CASE Refuse(r)
    BY <1>1, <1>2, RefuseFits, TypeAfterFetch DEF Typed, TypeOK
  <1>3. CASE Become(r, [run[r] EXCEPT !.bytes = run[r].manifest.upstream, !.pc = "extract"])
    <2> DEFINE blob == run[r].manifest.upstream
               new == [run[r] EXCEPT !.bytes = blob, !.pc = "extract"]
    <2>1. run[r] \in RunState /\ Fits(r, run[r], document, stage) /\ blob \in Blob
      BY <1>1 DEF Typed, TypeOK, Phases
    <2> HIDE DEF blob
    <2>2. /\ new \in RunState /\ new.pc = "extract"
          /\ new.mode = run[r].mode /\ new.read = run[r].read
          /\ new.bytes = blob /\ new.records = run[r].records
      BY <2>1 DEF RunState
    <2>3. Become(r, new)
      BY <1>3 DEF blob
    <2> HIDE DEF new
    <2>4. Fits(r, new, document', stage')
      BY <1>1, <2>1, <2>2, NotNone DEF Fits, Got, Recorded, Submitted
    <2> QED
      BY <1>1, <2>2, <2>3, <2>4, OneRun, TypeAfterFetch DEF Typed, TypeOK
  <1> QED
    BY <1>2, <1>3 DEF ReadCache

\* What a site says, as the first reply of a fetch.
LEMMA SitePages ==
    ASSUME NEW got \in Sites, NEW archived \in BOOLEAN
    PROVE  /\ [pages |-> got, archived |-> archived] \in Blob
           /\ got \in [Pages -> Contents] /\ Index(got) \subseteq Pages
    BY SitesAssumption DEF Blob

LEMMA TypeDownload ==
    ASSUME Typed, NEW r \in Runs, UNCHANGED page, Download(r)
    PROVE  Typed'
  <1> DEFINE got == IF up THEN source ELSE Archive
  <1>1. /\ FetchFrame /\ UNCHANGED <<document, stage>> /\ run[r].pc = "fetch"
        /\ up \in BOOLEAN /\ got \in Sites \cup {None}
    BY SitesAssumption DEF Download, Fetching, FetchFrame, At, working, Typed, TypeOK
  <1>2. CASE Refuse(r) /\ UNCHANGED blobs
    BY <1>1, <1>2, RefuseFits, TypeAfterFetch DEF blobs, Typed, TypeOK
  <1>3. CASE got # None /\ Store(r, [pages |-> got, archived |-> ~up])
    BY <1>1, <1>3, SitePages, StoreFits, TypeAfterFetch
  <1>4. CASE /\ got # None /\ Index(got) # {} /\ UNCHANGED blobs
             /\ Become(r, [run[r] EXCEPT !.left = Index(got), !.pc = "pages",
                                         !.bytes = [pages |-> <<>>, archived |-> FALSE]])
    <2> DEFINE blob == [pages |-> <<>>, archived |-> FALSE]
               new == [run[r] EXCEPT !.left = Index(got), !.pc = "pages", !.bytes = blob]
    <2>1. blob \in Blob
      <3>1. <<>> \in [{} -> Contents]
        OBVIOUS
      <3> QED
        BY <3>1 DEF Blob
    <2>2. run[r] \in RunState /\ Fits(r, run[r], document, stage) /\ Index(got) \subseteq Pages
      BY <1>1, <1>4, SitePages DEF Typed, TypeOK, Phases
    <2>3. Become(r, new)
      BY <1>4
    <2> HIDE DEF blob, got
    <2>4. /\ new \in RunState /\ new.pc = "pages" /\ new.left = Index(got)
          /\ new.mode = run[r].mode /\ new.read = run[r].read
          /\ new.bytes = blob /\ new.records = run[r].records
      BY <2>1, <2>2 DEF RunState
    <2> HIDE DEF new
    <2>5. Fits(r, new, document', stage')
      BY <1>1, <1>4, <2>1, <2>2, <2>4, NotNone DEF Fits, Got, Recorded, Submitted
    <2> QED
      BY <1>1, <1>4, <2>3, <2>4, <2>5, OneRun, TypeAfterFetch DEF Typed, TypeOK, blobs
  <1> QED
    BY <1>2, <1>3, <1>4 DEF Download

LEMMA TypeNeitherAnswers ==
    ASSUME Typed, NEW r \in Runs, UNCHANGED page, NeitherAnswers(r)
    PROVE  Typed'
  <1>1. FetchFrame /\ UNCHANGED <<document, stage>> /\ run[r].pc = "fetch"
    BY DEF NeitherAnswers, Fetching, FetchFrame, At, working
  <1> QED
    BY <1>1, RefuseFits, TypeAfterFetch DEF NeitherAnswers, blobs, Typed, TypeOK

\* The page a followed index names next, and what has been read with it.
LEMMA NextPage ==
    ASSUME Typed, NEW r \in Runs, At(r, "pages")
    PROVE  LET p == CHOOSE p \in run[r].left : \A q \in run[r].left : p <= q
               have == run[r].bytes.pages
               more == [q \in DOMAIN have \cup {p} |-> IF q = p THEN source[p] ELSE have[q]]
           IN  /\ p \in run[r].left /\ p \in Pages
               /\ run[r].bytes \in Blob /\ have \in [DOMAIN have -> Contents]
               /\ DOMAIN have \subseteq Pages
               /\ [run[r].bytes EXCEPT !.pages = more] \in Blob
               /\ [run[r].bytes EXCEPT !.pages = more].pages = more
               /\ more \in [DOMAIN have \cup {p} -> Contents]
  <1> DEFINE left == run[r].left
             p == CHOOSE p \in left : \A q \in left : p <= q
             have == run[r].bytes.pages
             more == [q \in DOMAIN have \cup {p} |-> IF q = p THEN source[p] ELSE have[q]]
  <1>1. /\ left \subseteq Pages /\ left # {} /\ run[r].bytes \in Blob
        /\ source \in [Pages -> Contents]
    BY SitesAssumption DEF At, Typed, TypeOK, Phases, Fits, RunState
  <1>2. p \in left /\ p \in Pages
    <2>1. left \subseteq Nat
      BY <1>1, RunsAssumption
    <2> HIDE DEF left
    <2> QED
      BY <1>1, <2>1, LeastNat
  <1>3. PICK S \in SUBSET Pages : have \in [S -> Contents]
    BY <1>1 DEF Blob
  <1>4. DOMAIN have = S
    BY <1>3
  <1> HIDE DEF p, have
  <1>5. more \in [S \cup {p} -> Contents]
    BY <1>1, <1>2, <1>3, <1>4
  <1>6. S \cup {p} \in SUBSET Pages
    BY <1>2
  <1> HIDE DEF more
  <1>7. [run[r].bytes EXCEPT !.pages = more] \in Blob
    BY <1>1, <1>5, <1>6 DEF Blob
  <1>8. [run[r].bytes EXCEPT !.pages = more].pages = more
    BY <1>1 DEF Blob
  <1> QED
    BY <1>1, <1>2, <1>3, <1>4, <1>5, <1>6, <1>7, <1>8 DEF p, have, more

LEMMA TypeFetchPage ==
    ASSUME Typed, NEW r \in Runs, UNCHANGED page, FetchPage(r)
    PROVE  Typed'
  <1> DEFINE p == CHOOSE p \in run[r].left : \A q \in run[r].left : p <= q
             have == run[r].bytes.pages
             more == [q \in DOMAIN have \cup {p} |-> IF q = p THEN source[p] ELSE have[q]]
             blob == [run[r].bytes EXCEPT !.pages = more]
  <1>1. FetchFrame /\ UNCHANGED <<document, stage>> /\ run[r].pc = "pages" /\ At(r, "pages")
    BY DEF FetchPage, FetchFrame, At, working
  <1>2. blob \in Blob /\ p \in run[r].left
    BY <1>1, NextPage
  <1>3. CASE Refuse(r) /\ UNCHANGED blobs
    BY <1>1, <1>3, RefuseFits, TypeAfterFetch DEF blobs, Typed, TypeOK
  <1>4. CASE Store(r, blob)
    BY <1>1, <1>2, <1>4, StoreFits, TypeAfterFetch
  <1>5. CASE /\ run[r].left # {p} /\ UNCHANGED blobs
             /\ Become(r, [run[r] EXCEPT !.bytes = blob, !.left = @ \ {p}])
    <2> HIDE DEF blob, p
    <2> DEFINE new == [run[r] EXCEPT !.bytes = blob, !.left = @ \ {p}]
    <2>1. run[r] \in RunState /\ Fits(r, run[r], document, stage)
      BY DEF Typed, TypeOK, Phases
    <2>2. /\ new \in RunState /\ new.pc = "pages" /\ new.left = run[r].left \ {p}
          /\ new.mode = run[r].mode /\ new.read = run[r].read
          /\ new.bytes = blob /\ new.records = run[r].records
      BY <1>1, <1>2, <2>1 DEF RunState
    <2>3. Become(r, new)
      BY <1>5
    <2> HIDE DEF new
    <2>4. Fits(r, new, document', stage')
      <3>1. new.left # {}
        BY <1>2, <1>5, <2>2
      <3> QED
        BY <1>1, <1>2, <2>1, <2>2, <3>1, NotNone DEF Fits, Got, Recorded, Submitted
    <2> QED
      BY <1>1, <1>5, <2>2, <2>3, <2>4, OneRun, TypeAfterFetch DEF Typed, TypeOK, blobs
  <1> QED
    BY <1>3, <1>4, <1>5 DEF FetchPage

---------------------------------------------------------------------------
(* The pipeline.                                                           *)

LEMMA BlobExtracts ==
    ASSUME NEW blob \in Blob PROVE Extract(blob.pages) \in Documents \cup {None}
    BY ParsersAssumption DEF Blob

LEMMA TypeExtract ==
    ASSUME Typed, NEW r \in Runs, UNCHANGED page, ExtractDocument(r)
    PROVE  Typed'
  <1>1. /\ UNCHANGED <<upstream, blobs, segments, stage, evidence, bounds, since, approved>>
        /\ run[r].pc = "extract" /\ run[r] \in RunState
        /\ Fits(r, run[r], document, stage)
    BY DEF ExtractDocument, Working, At, Typed, TypeOK, Phases
  <1>2. run[r].bytes \in Blob
    BY <1>1 DEF Fits, Got, RunState
  <1>3. Extract(run[r].bytes.pages) \in Documents \cup {None}
    BY <1>2, BlobExtracts
  <1>4. /\ run' \in [Runs -> RunState] /\ Phases'
        /\ document' \in Documents \cup {None}
    <2>1. CASE Refuse(r) /\ UNCHANGED document
      BY <1>1, <2>1, RefuseFits DEF Typed, TypeOK
    <2>2. CASE /\ Extract(run[r].bytes.pages) # None
               /\ document' = Extract(run[r].bytes.pages) /\ Goto(r, "segment")
      BY <1>1, <1>2, <1>3, <2>2, NotNone, GotoFits DEF Points, Got, Recorded, Submitted
    <2> QED
      BY <2>1, <2>2 DEF ExtractDocument
  <1> QED
    BY <1>1, <1>4 DEF Typed, TypeOK, upstream, blobs, evidence, bounds

LEMMA TypeSegment ==
    ASSUME Typed, NEW r \in Runs, UNCHANGED page, SegmentDocument(r)
    PROVE  Typed'
  <1>1. /\ UNCHANGED <<upstream, blobs, document, stage, evidence, bounds, since, approved>>
        /\ run[r].pc = "segment" /\ run[r] \in RunState
        /\ Fits(r, run[r], document, stage)
    BY DEF SegmentDocument, Working, At, Typed, TypeOK, Phases
  <1>2. run[r].bytes # None /\ Segments(document) \in Seq(Segment)
    BY <1>1, ParsersAssumption DEF Fits, Got, Typed, TypeOK
  <1>3. run' \in [Runs -> RunState] /\ Phases' /\ segments' \in Seq(Segment)
    <2>1. CASE Refuse(r) /\ UNCHANGED segments
      BY <1>1, <2>1, RefuseFits DEF Typed, TypeOK
    <2>2. CASE segments' = Segments(document) /\ Goto(r, "normalise")
      BY <1>1, <1>2, <2>2, GotoFits DEF Points, Got, Recorded, Submitted
    <2> QED
      BY <2>1, <2>2 DEF SegmentDocument
  <1> QED
    BY <1>1, <1>3 DEF Typed, TypeOK, upstream, blobs, evidence, bounds

\* Records are a text for each of finitely many locators.
LEMMA NormalisedType ==
    ASSUME NEW found \in Seq(Segment), adapter \in Adapters, Normalised(found) # None
    PROVE  Normalised(found) \in Fingerprints /\ IsFiniteSet(DOMAIN Normalised(found))
  <1> DEFINE places == {found[i].locator : i \in DOMAIN found}
             chosen(l) == CHOOSE i \in DOMAIN found : found[i].locator = l
             text(i) == Normalise(adapter.contract, found[i].text)
  <1>1. \A i \in DOMAIN found : found[i] \in Segment
    OBVIOUS
  <1>2. places \subseteq Locators
    BY <1>1 DEF Segment
  <1>3. \A l \in places : chosen(l) \in DOMAIN found
    OBVIOUS
  <1>4. /\ \A i \in DOMAIN found : text(i) # Blank
        /\ Normalised(found) = [l \in places |-> text(chosen(l))]
    BY DEF Normalised
  <1>5. \A i \in DOMAIN found : text(i) \in Texts
    <2> TAKE i \in DOMAIN found
    <2>1. found[i].text \in Texts \cup {Blank}
      BY <1>1 DEF Segment
    <2>2. text(i) \in Texts \cup {Blank}
      BY <2>1, ParsersAssumption
    <2> QED
      BY <1>4, <2>2
  <1>6. Normalised(found) \in [places -> Texts]
    BY <1>3, <1>4, <1>5
  <1>7. IsFiniteSet(places)
    BY LocatorsOfFinite
  <1> HIDE DEF places
  <1> QED
    BY <1>2, <1>6, <1>7 DEF Fingerprints

LEMMA TypeNormalise ==
    ASSUME Typed, NEW r \in Runs, UNCHANGED page, NormaliseSegments(r)
    PROVE  Typed'
  <1>1. /\ UNCHANGED <<upstream, blobs, working, stage, evidence, bounds, since, approved>>
        /\ run[r].pc = "normalise" /\ run[r] \in RunState
        /\ Fits(r, run[r], document, stage) /\ UNCHANGED <<document, stage>>
    BY DEF NormaliseSegments, Working, At, Typed, TypeOK, Phases, working
  <1>2. run' \in [Runs -> RunState] /\ Phases'
    <2>1. CASE Refuse(r)
      BY <1>1, <2>1, RefuseFits
    <2>2. CASE /\ Normalised(segments) # None
               /\ Become(r, [run[r] EXCEPT !.records = Normalised(segments), !.pc = "acquired"])
      <3> DEFINE records == Normalised(segments)
                 new == [run[r] EXCEPT !.records = records, !.pc = "acquired"]
      <3>1. records \in Fingerprints /\ IsFiniteSet(DOMAIN records) /\ records # None
        BY <2>2, NormalisedType DEF Typed, TypeOK
      <3>2. Become(r, new)
        BY <2>2
      <3> HIDE DEF records
      <3>3. /\ new \in RunState /\ new.pc = "acquired"
            /\ new.mode = run[r].mode /\ new.read = run[r].read
            /\ new.bytes = run[r].bytes /\ new.records = records
        BY <1>1, <3>1 DEF RunState
      <3> HIDE DEF new
      <3>4. Fits(r, new, document', stage')
        BY <1>1, <3>1, <3>3 DEF Fits, Got, Recorded, Submitted
      <3> QED
        BY <1>1, <3>2, <3>3, <3>4, OneRun
    <2> QED
      BY <2>1, <2>2 DEF NormaliseSegments
  <1> QED
    BY <1>1, <1>2 DEF Typed, TypeOK, upstream, blobs, working, evidence, bounds

---------------------------------------------------------------------------
(* What is done with an acquisition.                                       *)

\* Only the run is touched.
RunFrame == UNCHANGED <<upstream, blobs, working, stage, evidence, bounds, since, approved, page>>

LEMMA TypeAfterRun ==
    ASSUME Typed, RunFrame, run' \in [Runs -> RunState], Phases'
    PROVE  Typed'
    BY DEF Typed, TypeOK, RunFrame, upstream, blobs, working, evidence, bounds

\* An acquisition that ends here, or goes on to be staged.
LEMMA TypeDecided ==
    ASSUME Typed, NEW r \in Runs, UNCHANGED page,
           \/ ShowDiagnostic(r) \/ Provision(r) \/ VerifyOnly(r) \/ Decline(r)
    PROVE  Typed'
  <1>1. /\ RunFrame /\ UNCHANGED <<document, stage>> /\ run[r].pc = "acquired"
        /\ Refuse(r) \/ Goto(r, "done") \/ Goto(r, "records")
    BY DEF ShowDiagnostic, Provision, VerifyOnly, Decline, Acquired, RunFrame, At, working
  <1>2. run[r].records # None
    BY <1>1 DEF Typed, Phases, Fits, Recorded
  <1>3. run' \in [Runs -> RunState] /\ Phases'
    BY <1>1, <1>2, RefuseFits, GotoFits DEF Points, Got, Recorded, Submitted
  <1> QED
    BY <1>1, <1>3, TypeAfterRun

LEMMA ManifestType ==
    ASSUME Typed, NEW r \in Runs, run[r].pc = "acquired", HasDiagnostic(r)
    PROVE  ManifestOf(r) \in Manifest /\ run[r].records \in Fingerprints
  <1>1. /\ run[r].bytes \in Blob /\ run[r].records \in Fingerprints
        /\ IsFiniteSet(DOMAIN run[r].records) /\ adapter \in Adapter
    BY AdaptersAssumption DEF Typed, TypeOK, Phases, Fits, Got, Recorded, RunState
  <1>2. Cardinality(DOMAIN run[r].records) \in Nat
    BY <1>1, FS_CardinalityType
  <1>3. run[r].records[adapter.diagnostic] \in Texts
    BY <1>1 DEF HasDiagnostic, Fingerprints
  <1> QED
    BY <1>1, <1>2, <1>3 DEF ManifestOf, Manifest

LEMMA TypeBless ==
    ASSUME Typed, NEW r \in Runs, NEW passage, Bless(r, passage), run[r].pc = "acquired",
           HasDiagnostic(r) => passage \in Texts,
           UNCHANGED <<upstream, blobs, working, stage, evidence, bounds, since, page>>
    PROVE  Typed'
  <1>0. UNCHANGED <<document, stage>>
    BY DEF working
  <1>1. CASE Refuse(r) /\ UNCHANGED approved
    BY <1>0, <1>1, RefuseFits, TypeAfterRun DEF RunFrame
  <1>2. CASE /\ HasDiagnostic(r)
             /\ approved' = approved \cup {[read |-> passage, manifest |-> ManifestOf(r),
                                           fingerprints |-> run[r].records]}
             /\ Become(r, [run[r] EXCEPT !.read = passage, !.manifest = ManifestOf(r),
                                         !.pc = "manifest"])
    <2> DEFINE committed == ManifestOf(r)
               new == [run[r] EXCEPT !.read = passage, !.manifest = committed, !.pc = "manifest"]
    <2>1. /\ committed \in Manifest /\ run[r].records \in Fingerprints
          /\ run[r] \in RunState /\ Fits(r, run[r], document, stage)
      BY <1>2, ManifestType DEF Typed, TypeOK, Phases
    <2>2. approved' \subseteq [read : Texts, manifest : Manifest, fingerprints : Fingerprints]
      BY <1>2, <2>1 DEF Typed, TypeOK
    <2>3. Become(r, new)
      BY <1>2
    <2> HIDE DEF committed
    <2>4. /\ new \in RunState /\ new.pc = "manifest"
          /\ new.mode = run[r].mode /\ new.records = run[r].records
      BY <1>2, <2>1 DEF RunState
    <2> HIDE DEF new
    <2>5. Fits(r, new, document', stage')
      BY <1>0, <2>1, <2>4 DEF Fits, Got, Recorded, Submitted
    <2> QED
      BY <1>0, <2>2, <2>3, <2>4, <2>5, OneRun
      DEF Typed, TypeOK, upstream, blobs, working, evidence, bounds
  <1> QED
    BY <1>1, <1>2 DEF Bless

LEMMA TypeApprove ==
    ASSUME Typed, NEW r \in Runs, UNCHANGED page, Approve(r)
    PROVE  Typed'
  <1>1. run[r].pc = "acquired"
    BY DEF Approve, Acquired, At
  <1>2. HasDiagnostic(r) => run[r].records[adapter.diagnostic] \in Texts
    BY <1>1, ManifestType DEF HasDiagnostic, Fingerprints
  <1> QED
    BY <1>1, <1>2, TypeBless DEF Approve, Acquired

LEMMA TypeWrite ==
    ASSUME Typed, NEW r \in Runs, UNCHANGED page,
           WriteManifest(r) \/ WriteFingerprints(r) \/ WriteRecords(r) \/ WriteWork(r)
    PROVE  Typed'
  <1>1. run[r] \in RunState /\ Fits(r, run[r], document, stage)
    BY DEF Typed, TypeOK, Phases
  <1>2. CASE WriteManifest(r)
    <2>1. /\ run[r].pc = "manifest" /\ UNCHANGED <<document, stage>>
          /\ Goto(r, "fingerprints") /\ run[r].records # None
      BY <1>1, <1>2 DEF WriteManifest, At, working, Fits, Recorded
    <2>2. run' \in [Runs -> RunState] /\ Phases'
      BY <2>1, GotoFits DEF Points, Got, Recorded, Submitted
    <2>3. manifest' \in Manifest \cup {None, Unreadable}
      BY <1>1, <1>2 DEF WriteManifest, RunState
    <2> QED
      BY <1>2, <2>2, <2>3
      DEF WriteManifest, Typed, TypeOK, upstream, blobs, working, bounds
  <1>3. CASE WriteFingerprints(r)
    <2>1. /\ run[r].pc = "fingerprints" /\ UNCHANGED <<document, stage>>
          /\ Goto(r, "records") /\ run[r].records # None
      BY <1>1, <1>3 DEF WriteFingerprints, At, working, Fits, Recorded
    <2>2. run' \in [Runs -> RunState] /\ Phases'
      BY <2>1, GotoFits DEF Points, Got, Recorded, Submitted
    <2>3. fingerprints' \in Fingerprints \cup {None, Unreadable}
      BY <1>1, <1>3 DEF WriteFingerprints, RunState
    <2> QED
      BY <1>3, <2>2, <2>3
      DEF WriteFingerprints, Typed, TypeOK, upstream, blobs, working, bounds
  <1>4. CASE WriteRecords(r)
    <2>1. /\ run[r].pc = "records" /\ UNCHANGED document /\ Goto(r, "work")
          /\ run[r].records # None
      BY <1>1, <1>4 DEF WriteRecords, At, working, Fits, Recorded
    <2>2. /\ stage' \in [records : Fingerprints \cup {None}, work : Facts \cup {None}]
          /\ stage'.records # None
      BY <1>1, <1>4, <2>1 DEF WriteRecords, RunState, Typed, TypeOK
    <2>3. run' \in [Runs -> RunState] /\ Phases'
      BY <2>1, <2>2, GotoFits DEF Points, Got, Recorded, Submitted
    <2> QED
      BY <1>4, <2>2, <2>3
      DEF WriteRecords, Typed, TypeOK, upstream, blobs, working, evidence, bounds
  <1>5. CASE WriteWork(r)
    <2>1. /\ run[r].pc = "work" /\ UNCHANGED document /\ Goto(r, "done")
          /\ IsFiniteSet(DOMAIN run[r].records) /\ stage.records # None
      BY <1>1, <1>5 DEF WriteWork, At, working, Fits, Recorded
    <2>2. [license |-> adapter.license, count |-> Cardinality(DOMAIN run[r].records)] \in Facts
      BY <2>1, FS_CardinalityType, AdaptersAssumption DEF Facts, Adapter, Typed, TypeOK
    <2>3. /\ stage' \in [records : Fingerprints \cup {None}, work : Facts \cup {None}]
          /\ stage'.records = stage.records
      BY <1>5, <2>2 DEF WriteWork, Typed, TypeOK
    <2>4. run' \in [Runs -> RunState] /\ Phases'
      BY <2>1, <2>3, GotoFits DEF Points, Got, Recorded, Submitted
    <2> QED
      BY <1>5, <2>1, <2>3, <2>4
      DEF WriteWork, Typed, TypeOK, upstream, blobs, working, evidence, bounds
  <1> QED
    BY <1>2, <1>3, <1>4, <1>5

---------------------------------------------------------------------------
(* Starting and ending a run.                                              *)

LEMMA IdleFits ==
    ASSUME NEW r \in Runs, NEW doc, NEW st
    PROVE  Idle \in RunState /\ Fits(r, Idle, doc, st)
    BY IdleType DEF Idle, Fits, Got, Recorded, Submitted

LEMMA BeIdle ==
    ASSUME Typed, NEW r \in Runs, Become(r, Idle), UNCHANGED <<document, stage>>
    PROVE  run' \in [Runs -> RunState] /\ Phases'
    BY IdleFits, OneRun

LEMMA TypeExit ==
    ASSUME Typed, NEW r \in Runs, UNCHANGED page, Exit(r)
    PROVE  Typed'
  <1>1. /\ UNCHANGED <<upstream, blobs, working, stage, evidence, bounds, approved>>
        /\ UNCHANGED <<document, stage>> /\ Become(r, Idle)
        /\ since' = [since EXCEPT ![r] = {}]
    BY DEF Exit, working
  <1>2. since' \in [Runs -> SUBSET Sites]
    BY <1>1 DEF Typed, TypeOK
  <1> QED
    BY <1>1, <1>2, BeIdle DEF Typed, TypeOK, upstream, blobs, working, evidence, bounds

LEMMA TypeKill ==
    ASSUME Typed, NEW r \in Runs, UNCHANGED page, Kill(r)
    PROVE  Typed'
  <1>1. /\ UNCHANGED <<upstream, blobs, working, stage, evidence, typed, approved>>
        /\ UNCHANGED <<document, stage>> /\ Become(r, Idle)
        /\ since' = [since EXCEPT ![r] = {}]
    BY DEF Kill, working
  <1>2. since' \in [Runs -> SUBSET Sites]
    BY <1>1 DEF Typed, TypeOK
  <1>3. events' \in 0..MaxEvents
    BY BoundsAssumption DEF Kill, Befalls, Typed, TypeOK
  <1> QED
    BY <1>1, <1>2, <1>3, BeIdle DEF Typed, TypeOK, upstream, blobs, working, evidence

LEMMA TypeBegin ==
    ASSUME Typed, NEW r \in Runs, NEW mode \in Modes \ {"browser"},
           NEW file \in LocalCopies \cup {None}, UNCHANGED page, Begin(r, mode, file)
    PROVE  Typed'
  <1> DEFINE pc == IF \/ manifest = Unreadable \/ fingerprints = Unreadable
                      \/ manifest = None /\ mode = "verify"
                   THEN "refused" ELSE "fetch"
             new == [Idle EXCEPT !.mode = mode, !.file = file, !.manifest = manifest,
                                 !.committed = fingerprints, !.pc = pc]
  <1>1. /\ UNCHANGED <<upstream, blobs, working, stage, evidence, events, approved>>
        /\ UNCHANGED <<document, stage>> /\ Become(r, new) /\ r \in Terminals
    BY DEF Begin, working
  <1>2. typed' \in 0..MaxTerminalRuns
    BY BoundsAssumption DEF Begin, Typed, TypeOK
  <1>3. since' \in [Runs -> SUBSET Sites]
    BY DEF Begin, Typed, TypeOK
  <1>4. pc \in {"refused", "fetch"}
    OBVIOUS
  <1> HIDE DEF pc
  <1>5. /\ new \in RunState /\ new.pc = pc /\ new.mode = mode /\ new.records = None
    <2>1. new \in [pc : {pc}, mode : {mode}, file : {file}, manifest : {manifest},
                    committed : {fingerprints}, read : {None}, left : {{}}, bytes : {None},
                    records : {None}]
      BY DEF Idle
    <2>2. /\ manifest \in Manifest \cup {None, Unreadable}
          /\ fingerprints \in Fingerprints \cup {None, Unreadable}
      BY DEF Typed, TypeOK
    <2>3. mode \in Modes \cup {"none"}
      OBVIOUS
    <2> HIDE DEF new
    <2> QED
      BY <1>4, <2>1, <2>2, <2>3 DEF RunState
  <1> HIDE DEF new
  <1>6. Fits(r, new, document', stage')
    BY <1>1, <1>4, <1>5 DEF Fits, Got, Recorded, Submitted, Threads
  <1>7. run' \in [Runs -> RunState] /\ Phases'
    BY <1>1, <1>5, <1>6, OneRun
  <1> QED
    BY <1>1, <1>2, <1>3, <1>7 DEF Typed, TypeOK, upstream, blobs, working, evidence

LEMMA TypeProceed ==
    ASSUME Typed, NEW r \in Runs, UNCHANGED page, Proceed(r)
    PROVE  Typed'
    BY TypeReadLocalCopy, TypeReadCache, TypeDownload, TypeNeitherAnswers, TypeFetchPage, TypeExtract, TypeSegment,
       TypeNormalise, TypeDecided, TypeApprove, TypeWrite, TypeExit DEF Proceed

---------------------------------------------------------------------------
(* The world.                                                              *)

LEMMA TypeWorld ==
    ASSUME Typed, UNCHANGED page, Republish \/ Outage \/ Recover \/ Damage
    PROVE  Typed'
  <1>1. /\ UNCHANGED <<working, stage, run, typed, approved, cache>>
        /\ UNCHANGED <<document, stage>>
    BY DEF Republish, Outage, Recover, Damage, working, blobs, bounds
  <1>2. events' \in 0..MaxEvents
    BY BoundsAssumption DEF Republish, Outage, Recover, Damage, Befalls, bounds, Typed, TypeOK
  <1>3. Phases'
    BY <1>1, NoRun DEF Typed
  <1>4. CASE Republish
    <2>1. since' \in [Runs -> SUBSET Sites]
      BY <1>4 DEF Republish, Typed, TypeOK
    <2> QED
      BY <1>1, <1>2, <1>3, <1>4, <2>1 DEF Republish, Typed, TypeOK, working, blobs, evidence
  <1>5. CASE Outage
    BY <1>1, <1>2, <1>3, <1>5 DEF Outage, Typed, TypeOK, working, blobs, evidence
  <1>6. CASE Recover
    BY <1>1, <1>2, <1>3, <1>6 DEF Recover, Typed, TypeOK, working, blobs, evidence
  <1>7. CASE Damage
    BY <1>1, <1>2, <1>3, <1>7 DEF Damage, Typed, TypeOK, upstream, working, evidence
  <1> QED
    BY <1>4, <1>5, <1>6, <1>7

---------------------------------------------------------------------------
(* The browser.                                                            *)

Page == [form : Texts \cup {None}, status : Status \cup {"none"},
         shown : Fingerprints \cup {None}, current : BOOLEAN]

LEMMA CorpusPageType == Typed => CorpusPage \in Page
  <1> SUFFICES ASSUME Typed PROVE CorpusPage \in Page
    OBVIOUS
  <1>1. CASE stage.work = None
    BY <1>1 DEF CorpusPage, NoPage, Page
  <1>2. CASE stage.work # None
    <2>1. stage.records \in Fingerprints
      BY <1>2 DEF Typed, TypeOK
    <2>2. \A c : StatusOf(c, stage.records) \in Status
      BY DEF StatusOf, Status
    <2>3. Offer(stage.records) \in Texts \cup {None}
      BY <2>1 DEF Offer, Fingerprints
    <2> QED
      BY <1>2, <2>1, <2>2, <2>3 DEF CorpusPage, Page
  <1> QED
    BY <1>1, <1>2

LEMMA TypeLoadPage == Typed /\ LoadPage => Typed'
  <1> SUFFICES ASSUME Typed, LoadPage PROVE Typed'
    OBVIOUS
  <1>1. page' \in Page /\ UNCHANGED acquireVars
    BY CorpusPageType DEF LoadPage
  <1>2. UNCHANGED run /\ UNCHANGED document /\ UNCHANGED stage
    BY <1>1 DEF acquireVars, working
  <1> QED
    BY <1>1, <1>2, NoRun
    DEF Page, Typed, TypeOK, acquireVars, upstream, blobs, working, evidence, bounds

LEMMA TypeSubmit ==
    ASSUME Typed, NEW w \in Threads, NEW named \in BOOLEAN, Submit(w, named)
    PROVE  Typed'
  <1> DEFINE pc == IF MayBless(named) THEN "fetch" ELSE "refused"
             new == [Idle EXCEPT !.mode = "browser", !.read = page.form, !.pc = pc]
  <1>1. /\ RunFrame /\ UNCHANGED <<document, stage>> /\ Become(w, new) /\ w \in Runs
        /\ page.form # None
    BY DEF Submit, RunFrame, working, Threads
  <1>2. pc \in {"refused", "fetch"} /\ page.form \in Texts
    BY <1>1 DEF Typed, TypeOK
  <1> HIDE DEF pc
  <1>3. /\ new \in RunState /\ new.pc = pc /\ new.mode = "browser" /\ new.records = None
        /\ new.read = page.form
    BY <1>2 DEF Idle, RunState, Modes
  <1> HIDE DEF new
  <1>4. Fits(w, new, document', stage')
    BY <1>1, <1>2, <1>3 DEF Fits, Got, Recorded, Submitted
  <1> QED
    BY <1>1, <1>3, <1>4, OneRun, TypeAfterRun

LEMMA TypeCompare ==
    ASSUME Typed, NEW w \in Threads, Compare(w)
    PROVE  Typed'
  <1>1. /\ UNCHANGED <<upstream, blobs, working, stage, evidence, bounds, since, page>>
        /\ UNCHANGED <<document, stage>>
        /\ run[w].pc = "acquired" /\ run[w].mode = "browser" /\ w \in Runs
    BY DEF Compare, Acquired, At, Threads, working
  <1>2. run[w].read \in Texts /\ run[w].records # None
    BY <1>1 DEF Typed, TypeOK, Phases, Fits, Submitted, Recorded, RunState
  <1>3. CASE Bless(w, run[w].read)
    BY <1>1, <1>2, <1>3, TypeBless
  <1>4. CASE UNCHANGED approved /\ Refuse(w)
    BY <1>1, <1>4, RefuseFits, TypeAfterRun DEF RunFrame
  <1>5. CASE UNCHANGED approved /\ RefuseMoved(w)
    <2>1. run' \in [Runs -> RunState] /\ Phases'
      BY <1>1, <1>2, <1>5, GotoFits DEF RefuseMoved, Points, Got, Recorded, Submitted
    <2> QED
      BY <1>1, <1>5, <2>1, TypeAfterRun DEF RunFrame
  <1> QED
    BY <1>3, <1>4, <1>5 DEF Compare

LEMMA TypeRespond ==
    ASSUME Typed, NEW w \in Threads, Respond(w)
    PROVE  Typed'
  <1>1. /\ UNCHANGED <<upstream, blobs, working, stage, evidence, bounds, since, approved>>
        /\ UNCHANGED <<document, stage>> /\ Become(w, Idle) /\ w \in Runs
        /\ page' \in Page
    BY CorpusPageType DEF Respond, Threads, working
  <1> QED
    BY <1>1, BeIdle DEF Page, Typed, TypeOK, upstream, blobs, working, evidence, bounds

LEMMA TypeStop == Typed /\ Stop => Typed'
  <1> SUFFICES ASSUME Typed, Stop PROVE Typed'
    OBVIOUS
  <1>1. /\ UNCHANGED <<upstream, blobs, working, stage, evidence, typed, since, approved>>
        /\ UNCHANGED <<document, stage>>
        /\ run' = [r \in Runs |-> IF r \in Threads THEN Idle ELSE run[r]]
    BY DEF Stop, working
  <1>2. run' \in [Runs -> RunState] /\ Phases'
    BY <1>1, IdleFits DEF Typed, TypeOK, Phases
  <1>3. events' \in 0..MaxEvents
    BY BoundsAssumption DEF Stop, Befalls, Typed, TypeOK
  <1>4. page' \in Page
    BY DEF Stop, Page, Typed, TypeOK
  <1> QED
    BY <1>1, <1>2, <1>3, <1>4 DEF Page, Typed, TypeOK, upstream, blobs, working, evidence

LEMMA TypeUpgrade == Typed /\ Upgrade => Typed'
  <1> SUFFICES ASSUME Typed, Upgrade PROVE Typed'
    OBVIOUS
  <1>1. /\ UNCHANGED <<source, up, follow, blobs, working, stage, evidence, run, typed, since,
                      approved>>
        /\ UNCHANGED <<document, stage>> /\ adapter' \in Adapters
    BY DEF Upgrade, working
  <1>2. events' \in 0..MaxEvents
    BY BoundsAssumption DEF Upgrade, Befalls, Typed, TypeOK
  <1>3. page' \in Page
    BY DEF Upgrade, Page, Typed, TypeOK
  <1> QED
    BY <1>1, <1>2, <1>3, NoRun DEF Page, Typed, TypeOK, blobs, working, evidence

LEMMA TypeInit == Init => Typed
  <1> SUFFICES ASSUME Init PROVE Typed
    OBVIOUS
  <1> USE DEF Init, Init0
  <1>1. run \in [Runs -> RunState] /\ Phases
    BY IdleFits DEF Phases
  <1>2. events \in 0..MaxEvents /\ typed \in 0..MaxTerminalRuns
    BY BoundsAssumption
  <1>3. page \in Page
    BY DEF NoPage, Page
  <1> QED
    BY <1>1, <1>2, <1>3, AdaptersAssumption DEF Typed, TypeOK, Page

LEMMA TypeNext == Typed /\ [Next]_vars => Typed'
  <1> SUFFICES ASSUME Typed, [Next]_vars PROVE Typed'
    OBVIOUS
  <1>1. CASE AcquireNext /\ UNCHANGED page
    BY <1>1, TypeBegin, TypeProceed, TypeKill, TypeWorld DEF AcquireNext
  <1>2. CASE UNCHANGED vars
    <2>1. UNCHANGED run /\ UNCHANGED document /\ UNCHANGED stage
      BY <1>2 DEF vars, acquireVars, working
    <2> QED
      BY <1>2, <2>1, NoRun
      DEF Typed, TypeOK, vars, acquireVars, upstream, blobs, working, evidence, bounds
  <1>3. CASE \E w \in Threads : Handle(w) \/ \E named \in BOOLEAN : Submit(w, named)
    BY <1>3, TypeCompare, TypeRespond, TypeSubmit DEF Handle
  <1> QED
    BY <1>1, <1>2, <1>3, TypeLoadPage, TypeStop, TypeUpgrade DEF Next

\* What a run, the corpus's directories and the reader's page hold keeps its
\* type; the facts are staged beside records and a manifest's count is a count
\* (acquire/pipeline.py, browse/server.py).
THEOREM BrowseTypeOKHolds == Spec => []TypeOK
  <1>1. Typed => TypeOK
    BY DEF Typed
  <1> QED
    BY <1>1, TypeInit, TypeNext, PTL DEF Spec

---------------------------------------------------------------------------
(* What a human put a name to.                                             *)

\* A person read this passage and named this manifest; and approved this text.
NamedManifest(m, blessings) == \E b \in blessings : b.manifest = m /\ b.read = m.expected
NamedText(records, blessings) == \E b \in blessings : b.fingerprints = records

Staging == {"records", "work", "done"}

\* What a run carries of the evidence, and what it may stage or report.
VouchedRun(me, blessings, diagnostic) ==
    me.pc # "refused" =>
        /\ me.manifest # Unreadable /\ me.committed # Unreadable
        /\ me.manifest # None => NamedManifest(me.manifest, blessings)
        /\ me.committed # None => NamedText(me.committed, blessings)
        /\ me.pc \in {"manifest", "fingerprints"} =>
              NamedText(me.records, blessings) /\ me.mode \notin {"provision", "verify"}
        /\ me.mode \in {"provision", "verify"} /\ me.manifest # None /\ me.pc \in Staging =>
              /\ NamedText(me.records, blessings)
              /\ me.manifest.expected = me.records[diagnostic]

VouchedEvidence ==
    /\ manifest \notin {None, Unreadable} => NamedManifest(manifest, approved)
    /\ fingerprints \notin {None, Unreadable} => NamedText(fingerprints, approved)

VouchedPage == page.status = "blessed" /\ page.shown # None => NamedText(page.shown, approved)

VouchedRuns == \A r \in Runs : VouchedRun(run[r], approved, adapter.diagnostic)

Vouched == VouchedEvidence /\ VouchedRuns /\ VouchedPage

\* A step of one run that keeps what the run was started with.
Carries(r) ==
    /\ run'[r].mode = run[r].mode /\ run'[r].file = run[r].file
    /\ run'[r].manifest = run[r].manifest /\ run'[r].committed = run[r].committed
    /\ run'[r].read = run[r].read
    /\ \A q \in Runs \ {r} : run'[q] = run[q]

LEMMA AfterGoto ==
    ASSUME Typed, NEW r \in Runs, NEW pc \in Points, Goto(r, pc)
    PROVE  /\ Carries(r) /\ run'[r].pc = pc
           /\ run'[r].left = run[r].left /\ run'[r].bytes = run[r].bytes
           /\ run'[r].records = run[r].records
  <1>1. run \in [Runs -> RunState] /\ run[r] \in RunState
    BY DEF Typed, TypeOK
  <1>2. /\ run'[r] = [run[r] EXCEPT !.pc = pc]
        /\ \A q \in Runs \ {r} : run'[q] = run[q]
    BY <1>1 DEF Goto, Become
  <1> QED
    BY <1>1, <1>2, MovedOn DEF Carries

LEMMA AfterStore ==
    ASSUME Typed, NEW r \in Runs, NEW blob, Store(r, blob)
    PROVE  /\ Carries(r) /\ run'[r].pc = "extract" /\ run'[r].bytes = blob
           /\ run'[r].records = run[r].records
  <1>1. run \in [Runs -> RunState] /\ run[r] \in RunState
    BY DEF Typed, TypeOK
  <1> QED
    BY <1>1 DEF Store, Become, Carries, RunState

LEMMA AfterReadCache ==
    ASSUME Typed, NEW r \in Runs, ReadCache(r)
    PROVE  Carries(r) /\ run'[r].pc \in {"extract", "refused"}
  <1>1. run \in [Runs -> RunState] /\ run[r] \in RunState
    BY DEF Typed, TypeOK
  <1>2. CASE Refuse(r)
    BY <1>2, AfterGoto DEF Refuse, Points
  <1>3. CASE Become(r, [run[r] EXCEPT !.bytes = run[r].manifest.upstream, !.pc = "extract"])
    <2> DEFINE blob == run[r].manifest.upstream
    <2>1. Become(r, [run[r] EXCEPT !.bytes = blob, !.pc = "extract"])
      BY <1>3
    <2> HIDE DEF blob
    <2> QED
      BY <1>1, <2>1 DEF Become, Carries, RunState
  <1> QED
    BY <1>2, <1>3 DEF ReadCache

LEMMA AfterDownload ==
    ASSUME Typed, NEW r \in Runs, Download(r)
    PROVE  LET got == IF up THEN source ELSE Archive IN
           /\ Carries(r) /\ run[r].file = None
           /\ \/ run'[r].pc = "refused"
              \/ /\ run'[r].pc = "extract" /\ got # None
                 /\ run'[r].bytes = [pages |-> got, archived |-> ~up]
              \/ /\ run'[r].pc = "pages" /\ got # None
                 /\ run'[r].left = Index(got) /\ run'[r].bytes.pages = <<>>
  <1> DEFINE got == IF up THEN source ELSE Archive
  <1>1. run \in [Runs -> RunState] /\ run[r] \in RunState
    BY DEF Typed, TypeOK
  <1>2. run[r].file = None
    BY DEF Download
  <1>3. CASE Refuse(r)
    BY <1>2, <1>3, AfterGoto DEF Refuse, Points
  <1>4. CASE got # None /\ Store(r, [pages |-> got, archived |-> ~up])
    BY <1>2, <1>4, AfterStore
  <1>5. CASE /\ got # None
             /\ Become(r, [run[r] EXCEPT !.left = Index(got), !.pc = "pages",
                                         !.bytes = [pages |-> <<>>, archived |-> FALSE]])
    <2> DEFINE index == Index(got)
               blob == [pages |-> <<>>, archived |-> FALSE]
    <2>1. Become(r, [run[r] EXCEPT !.left = index, !.pc = "pages", !.bytes = blob])
      BY <1>5
    <2>2. blob.pages = <<>>
      OBVIOUS
    <2> HIDE DEF index, blob
    <2>3. Carries(r) /\ run'[r].pc = "pages" /\ run'[r].left = index /\ run'[r].bytes = blob
      BY <1>1, <2>1 DEF Become, Carries, RunState
    <2> QED
      BY <1>2, <1>5, <2>2, <2>3 DEF index
  <1> QED
    BY <1>3, <1>4, <1>5 DEF Download

LEMMA AfterFetchPage ==
    ASSUME Typed, NEW r \in Runs, FetchPage(r)
    PROVE  LET p == CHOOSE p \in run[r].left : \A q \in run[r].left : p <= q
               have == run[r].bytes.pages
               more == [q \in DOMAIN have \cup {p} |-> IF q = p THEN source[p] ELSE have[q]]
           IN  /\ Carries(r)
               /\ \/ run'[r].pc = "refused"
                  \/ /\ run'[r].pc = "extract" /\ run[r].left = {p}
                     /\ run'[r].bytes.pages = more
                  \/ /\ run'[r].pc = "pages" /\ run'[r].left = run[r].left \ {p}
                     /\ run'[r].bytes.pages = more
  <1> DEFINE p == CHOOSE p \in run[r].left : \A q \in run[r].left : p <= q
             have == run[r].bytes.pages
             more == [q \in DOMAIN have \cup {p} |-> IF q = p THEN source[p] ELSE have[q]]
             blob == [run[r].bytes EXCEPT !.pages = more]
  <1>1. /\ run \in [Runs -> RunState] /\ run[r] \in RunState
        /\ run[r].pc = "pages" /\ At(r, "pages")
    BY DEF FetchPage, At, Typed, TypeOK
  <1>2. blob.pages = more
    BY <1>1, NextPage
  <1>3. CASE Refuse(r)
    BY <1>3, AfterGoto DEF Refuse, Points
  <1>4. CASE run[r].left = {p} /\ Store(r, blob)
    BY <1>2, <1>4, AfterStore
  <1>5. CASE Become(r, [run[r] EXCEPT !.bytes = blob, !.left = @ \ {p}])
    <2> HIDE DEF blob, p, more
    <2>1. /\ Carries(r) /\ run'[r].pc = "pages" /\ run'[r].left = run[r].left \ {p}
          /\ run'[r].bytes = blob
      BY <1>1, <1>5 DEF Become, Carries, RunState
    <2> QED
      BY <1>2, <2>1 DEF p, more
  <1> QED
    BY <1>3, <1>4, <1>5 DEF FetchPage

LEMMA AfterNormalise ==
    ASSUME Typed, NEW r \in Runs, NormaliseSegments(r)
    PROVE  /\ Carries(r) /\ run'[r].bytes = run[r].bytes
           /\ \/ run'[r].pc = "refused"
              \/ /\ run'[r].pc = "acquired" /\ Normalised(segments) # None
                 /\ run'[r].records = Normalised(segments)
  <1>1. run \in [Runs -> RunState] /\ run[r] \in RunState
    BY DEF Typed, TypeOK
  <1>2. CASE Refuse(r)
    BY <1>2, AfterGoto DEF Refuse, Points
  <1>3. CASE /\ Normalised(segments) # None
             /\ Become(r, [run[r] EXCEPT !.records = Normalised(segments), !.pc = "acquired"])
    BY <1>1, <1>3 DEF Become, Carries, RunState
  <1> QED
    BY <1>2, <1>3 DEF NormaliseSegments

\* The steps that bring a run from its first request to its records.
Acquiring(r) ==
    \/ ReadLocalCopy(r) \/ LocalCopyUnreadable(r) \/ ReadCache(r)
    \/ Download(r) \/ NeitherAnswers(r) \/ FetchPage(r)
    \/ ExtractDocument(r) \/ SegmentDocument(r) \/ NormaliseSegments(r)

LEMMA AfterAcquiring ==
    ASSUME Typed, NEW r \in Runs, Acquiring(r)
    PROVE  /\ Carries(r)
           /\ run[r].pc \in Submitted \ {"acquired"}
           /\ run'[r].pc \in (Submitted \ {"fetch"}) \cup {"refused"}
           /\ UNCHANGED <<manifest, fingerprints, approved, adapter, source, since, stage>>
  <1>1. /\ run[r].pc \in Submitted \ {"acquired"}
        /\ UNCHANGED <<manifest, fingerprints, approved, adapter, source, since, stage>>
    BY DEF Acquiring, ReadLocalCopy, LocalCopyUnreadable, ReadCache, Download,
           NeitherAnswers, Fetching, FetchPage, ExtractDocument, SegmentDocument, NormaliseSegments, Working, At, Submitted,
           evidence, upstream
  <1>2. Carries(r) /\ run'[r].pc \in (Submitted \ {"fetch"}) \cup {"refused"}
    <2>1. CASE ReadLocalCopy(r)
      BY <2>1, AfterStore DEF ReadLocalCopy, Submitted
    <2>2. CASE \/ LocalCopyUnreadable(r) \/ NeitherAnswers(r)
               \/ ExtractDocument(r) \/ SegmentDocument(r)
      <3>1. Refuse(r) \/ Goto(r, "segment") \/ Goto(r, "normalise")
        BY <2>2 DEF LocalCopyUnreadable, NeitherAnswers, ExtractDocument, SegmentDocument
      <3> QED
        BY <3>1, AfterGoto DEF Refuse, Points, Submitted
    <2> QED
      BY <2>1, <2>2, AfterReadCache, AfterDownload, AfterFetchPage, AfterNormalise
      DEF Acquiring, Submitted
  <1> QED
    BY <1>1, <1>2

LEMMA CleanIsEqual ==
    ASSUME NEW c \in Fingerprints, NEW a \in Fingerprints, Clean(Diff(c, a))
    PROVE  c = a
  <1>1. DOMAIN c = DOMAIN a /\ \A l \in DOMAIN c : c[l] = a[l]
    BY DEF Clean, Diff
  <1>2. c = [l \in DOMAIN c |-> c[l]] /\ a = [l \in DOMAIN a |-> a[l]]
    BY DEF Fingerprints
  <1> QED
    BY <1>1, <1>2

\* Approval is not taken back.
LEMMA StillVouched ==
    ASSUME NEW me, NEW old, NEW new, NEW diagnostic, VouchedRun(me, old, diagnostic),
           old \subseteq new
    PROVE  VouchedRun(me, new, diagnostic)
    BY DEF VouchedRun, NamedManifest, NamedText

LEMMA StillVouchedPage ==
    ASSUME Vouched, approved \subseteq approved', UNCHANGED page
    PROVE  VouchedPage'
    BY DEF Vouched, VouchedPage, NamedText

LEMMA StillVouchedEvidence ==
    ASSUME Vouched, approved \subseteq approved', UNCHANGED evidence
    PROVE  VouchedEvidence'
    BY DEF Vouched, VouchedEvidence, NamedText, NamedManifest, evidence

LEMMA VouchedStep ==
    ASSUME Vouched, NEW r \in Runs, \A q \in Runs \ {r} : run'[q] = run[q],
           UNCHANGED adapter, approved \subseteq approved',
           VouchedRun(run'[r], approved', adapter'.diagnostic)
    PROVE  VouchedRuns'
  <1>1. \A q \in Runs \ {r} : VouchedRun(run'[q], approved', adapter'.diagnostic)
    BY StillVouched DEF Vouched, VouchedRuns
  <1> QED
    BY <1>1 DEF VouchedRuns

LEMMA VouchedAcquiring ==
    ASSUME Typed, Vouched, NEW r \in Runs, UNCHANGED page, Acquiring(r)
    PROVE  Vouched'
  <1>1. VouchedRun(run[r], approved, adapter.diagnostic)
    BY DEF Vouched, VouchedRuns
  <1>2. VouchedRun(run'[r], approved', adapter'.diagnostic)
    BY <1>1, AfterAcquiring DEF VouchedRun, Carries, Submitted, Staging
  <1>3. VouchedRuns'
    BY <1>2, AfterAcquiring, VouchedStep DEF Carries
  <1> QED
    BY <1>3, AfterAcquiring, StillVouchedPage, StillVouchedEvidence DEF Vouched, evidence

\* A decision is reported on, or staged from, only what the evidence says.
LEMMA VouchedDecided ==
    ASSUME Typed, Vouched, NEW r \in Runs, UNCHANGED page,
           \/ ShowDiagnostic(r) \/ Provision(r) \/ VerifyOnly(r) \/ Decline(r)
    PROVE  Vouched'
  <1>1. /\ UNCHANGED <<adapter, approved, evidence>> /\ run[r].pc = "acquired"
        /\ \/ Refuse(r)
           \/ run[r].mode = "show" /\ Goto(r, "done")
           \/ /\ run[r].mode \in {"provision", "verify"}
              /\ Goto(r, "done") \/ Goto(r, "records")
              /\ run[r].manifest # None => run[r].committed # None /\ Verifies(r)
    BY DEF ShowDiagnostic, Provision, VerifyOnly, Decline, Acquired, At, upstream
  <1>2. VouchedRun(run[r], approved, adapter.diagnostic)
    BY DEF Vouched, VouchedRuns
  <1>3. run[r].records \in Fingerprints /\ run[r].committed \in Fingerprints \cup {None, Unreadable}
    BY <1>1 DEF Typed, TypeOK, Phases, Fits, Recorded, RunState
  <1>4. ASSUME run[r].manifest # None, run[r].committed # None, Verifies(r)
        PROVE  /\ NamedText(run[r].records, approved)
               /\ run[r].manifest.expected = run[r].records[adapter.diagnostic]
    <2>1. run[r].committed \in Fingerprints /\ NamedText(run[r].committed, approved)
      BY <1>1, <1>2, <1>3, <1>4 DEF VouchedRun
    <2>2. run[r].committed = run[r].records
      BY <1>3, <1>4, <2>1, CleanIsEqual DEF Verifies
    <2> QED
      BY <1>4, <2>1, <2>2 DEF Verifies, EditionOk
  <1>5. /\ VouchedRun(run'[r], approved', adapter'.diagnostic)
        /\ \A q \in Runs \ {r} : run'[q] = run[q]
    <2>1. CASE Refuse(r)
      BY <2>1, AfterGoto DEF Refuse, Points, VouchedRun, Carries
    <2>2. CASE run[r].mode = "show" /\ Goto(r, "done")
      <3>1. Carries(r) /\ run'[r].pc = "done"
        BY <2>2, AfterGoto DEF Points
      <3> QED
        BY <1>1, <1>2, <2>2, <3>1 DEF VouchedRun, Carries, Staging
    <2>3. CASE /\ run[r].mode \in {"provision", "verify"}
               /\ Goto(r, "done") \/ Goto(r, "records")
               /\ run[r].manifest # None => run[r].committed # None /\ Verifies(r)
      <3>1. /\ Carries(r) /\ run'[r].pc \in {"done", "records"}
            /\ run'[r].records = run[r].records
        BY <2>3, AfterGoto DEF Points
      <3> QED
        BY <1>1, <1>2, <1>4, <2>3, <3>1 DEF VouchedRun, Carries, Staging
    <2> QED
      BY <1>1, <2>1, <2>2, <2>3
  <1> QED
    BY <1>1, <1>5, VouchedStep, StillVouchedPage, StillVouchedEvidence DEF Vouched

LEMMA AfterBless ==
    ASSUME Typed, NEW r \in Runs, NEW passage, Bless(r, passage), run[r].pc = "acquired"
    PROVE  \/ Refuse(r) /\ UNCHANGED approved
           \/ /\ HasDiagnostic(r) /\ ManifestOf(r) \in Manifest
              /\ approved' = approved \cup {[read |-> passage, manifest |-> ManifestOf(r),
                                             fingerprints |-> run[r].records]}
              /\ run'[r].manifest = ManifestOf(r) /\ run'[r].pc = "manifest"
              /\ run'[r].mode = run[r].mode /\ run'[r].file = run[r].file
              /\ run'[r].committed = run[r].committed
              /\ run'[r].bytes = run[r].bytes /\ run'[r].records = run[r].records
              /\ \A q \in Runs \ {r} : run'[q] = run[q]
  <1>1. run \in [Runs -> RunState] /\ run[r] \in RunState
    BY DEF Typed, TypeOK
  <1>2. CASE Refuse(r) /\ UNCHANGED approved
    BY <1>2
  <1>3. CASE /\ HasDiagnostic(r)
             /\ approved' = approved \cup {[read |-> passage, manifest |-> ManifestOf(r),
                                            fingerprints |-> run[r].records]}
             /\ Become(r, [run[r] EXCEPT !.read = passage, !.manifest = ManifestOf(r),
                                         !.pc = "manifest"])
    <2> DEFINE committed == ManifestOf(r)
    <2>1. Become(r, [run[r] EXCEPT !.read = passage, !.manifest = committed, !.pc = "manifest"])
      BY <1>3
    <2> HIDE DEF committed
    <2>2. /\ run'[r].manifest = committed /\ run'[r].pc = "manifest"
          /\ run'[r].mode = run[r].mode /\ run'[r].file = run[r].file
          /\ run'[r].committed = run[r].committed
          /\ run'[r].bytes = run[r].bytes /\ run'[r].records = run[r].records
          /\ \A q \in Runs \ {r} : run'[q] = run[q]
      BY <1>1, <2>1 DEF Become, RunState
    <2> QED
      BY <1>3, <2>2, ManifestType DEF committed
  <1> QED
    BY <1>2, <1>3 DEF Bless

\* What is blessed is what was read.
LEMMA VouchedBless ==
    ASSUME Typed, Vouched, NEW r \in Runs, NEW passage, Bless(r, passage),
           run[r].pc = "acquired", run[r].mode \notin {"provision", "verify"},
           HasDiagnostic(r) => passage = run[r].records[adapter.diagnostic],
           UNCHANGED <<adapter, evidence, page>>
    PROVE  Vouched'
  <1>1. VouchedRun(run[r], approved, adapter.diagnostic)
    BY DEF Vouched, VouchedRuns
  <1>2. CASE Refuse(r) /\ UNCHANGED approved
    <2>1. Carries(r) /\ run'[r].pc = "refused"
      BY <1>2, AfterGoto DEF Refuse, Points
    <2>2. VouchedRuns'
      BY <1>2, <2>1, VouchedStep DEF Carries, VouchedRun
    <2> QED
      BY <1>2, <2>2, StillVouchedPage, StillVouchedEvidence DEF Vouched
  <1>3. CASE /\ HasDiagnostic(r) /\ ManifestOf(r) \in Manifest
             /\ approved' = approved \cup {[read |-> passage, manifest |-> ManifestOf(r),
                                            fingerprints |-> run[r].records]}
             /\ run'[r].manifest = ManifestOf(r) /\ run'[r].pc = "manifest"
             /\ run'[r].mode = run[r].mode /\ run'[r].committed = run[r].committed
             /\ run'[r].records = run[r].records
             /\ \A q \in Runs \ {r} : run'[q] = run[q]
    <2> DEFINE b == [read |-> passage, manifest |-> ManifestOf(r), fingerprints |-> run[r].records]
    <2>1. /\ b \in approved' /\ b.manifest = ManifestOf(r) /\ b.fingerprints = run[r].records
          /\ b.read = ManifestOf(r).expected
      BY <1>3 DEF ManifestOf
    <2>2. approved \subseteq approved'
      BY <1>3
    <2>3. NamedManifest(ManifestOf(r), approved') /\ NamedText(run[r].records, approved')
      BY <2>1 DEF NamedManifest, NamedText
    <2>4. VouchedRun(run[r], approved', adapter.diagnostic)
      BY <1>1, <2>2, StillVouched
    <2>5. VouchedRun(run'[r], approved', adapter'.diagnostic)
      BY <1>3, <2>3, <2>4, NotNone DEF VouchedRun, Staging
    <2>6. VouchedRuns'
      BY <1>3, <2>2, <2>5, VouchedStep
    <2> QED
      BY <2>2, <2>6, StillVouchedPage, StillVouchedEvidence DEF Vouched
  <1> QED
    BY <1>2, <1>3, AfterBless

LEMMA VouchedApprove ==
    ASSUME Typed, Vouched, NEW r \in Runs, UNCHANGED page, Approve(r)
    PROVE  Vouched'
    BY VouchedBless DEF Approve, Acquired, At, upstream

LEMMA VouchedCompare ==
    ASSUME Typed, Vouched, NEW w \in Threads, Compare(w)
    PROVE  Vouched'
  <1>1. /\ UNCHANGED <<adapter, evidence, page>> /\ w \in Runs
        /\ run[w].pc = "acquired" /\ run[w].mode = "browser"
    BY DEF Compare, Acquired, At, Threads, upstream
  <1>2. CASE ~Moved(w) /\ Bless(w, run[w].read)
    BY <1>1, <1>2, VouchedBless DEF Moved
  <1>3. CASE UNCHANGED approved /\ (RefuseMoved(w) \/ Refuse(w))
    <2>1. Carries(w) /\ run'[w].pc \in {"refused", "records"}
      BY <1>1, <1>3, AfterGoto DEF RefuseMoved, Refuse, Points
    <2>2. VouchedRun(run[w], approved, adapter.diagnostic)
      BY <1>1 DEF Vouched, VouchedRuns
    <2>3. VouchedRun(run'[w], approved', adapter'.diagnostic)
      BY <1>1, <1>3, <2>1, <2>2 DEF VouchedRun, Carries, Staging
    <2>4. VouchedRuns'
      BY <1>1, <1>3, <2>1, <2>3, VouchedStep DEF Carries
    <2> QED
      BY <1>1, <1>3, <2>4, StillVouchedPage, StillVouchedEvidence DEF Vouched
  <1> QED
    BY <1>2, <1>3 DEF Compare

LEMMA VouchedWrite ==
    ASSUME Typed, Vouched, NEW r \in Runs, UNCHANGED page,
           WriteManifest(r) \/ WriteFingerprints(r) \/ WriteRecords(r) \/ WriteWork(r)
    PROVE  Vouched'
  <1>1. /\ VouchedRun(run[r], approved, adapter.diagnostic) /\ VouchedEvidence
        /\ UNCHANGED <<adapter, approved>>
    BY DEF Vouched, VouchedRuns, WriteManifest, WriteFingerprints, WriteRecords, WriteWork, upstream
  <1>2. VouchedPage'
    BY <1>1, StillVouchedPage
  <1>3. CASE WriteManifest(r)
    <2>1. /\ run[r].pc = "manifest" /\ manifest' = run[r].manifest /\ UNCHANGED fingerprints
          /\ Carries(r) /\ run'[r].pc = "fingerprints" /\ run'[r].records = run[r].records
      BY <1>3, AfterGoto DEF WriteManifest, At, Points
    <2>2. VouchedEvidence'
      BY <1>1, <2>1 DEF VouchedEvidence, VouchedRun
    <2>3. VouchedRuns'
      BY <1>1, <2>1, VouchedStep DEF Carries, VouchedRun, Staging
    <2> QED
      BY <1>2, <2>2, <2>3 DEF Vouched
  <1>4. CASE WriteFingerprints(r)
    <2>1. /\ run[r].pc = "fingerprints" /\ fingerprints' = run[r].records /\ UNCHANGED manifest
          /\ Carries(r) /\ run'[r].pc = "records" /\ run'[r].records = run[r].records
      BY <1>4, AfterGoto DEF WriteFingerprints, At, Points
    <2>2. VouchedEvidence'
      BY <1>1, <2>1 DEF VouchedEvidence, VouchedRun
    <2>3. VouchedRuns'
      BY <1>1, <2>1, VouchedStep DEF Carries, VouchedRun, Staging
    <2> QED
      BY <1>2, <2>2, <2>3 DEF Vouched
  <1>5. CASE WriteRecords(r) \/ WriteWork(r)
    <2>1. /\ UNCHANGED evidence /\ Carries(r) /\ run'[r].records = run[r].records
          /\ run[r].pc \in Staging /\ run'[r].pc \in Staging
      BY <1>5, AfterGoto DEF WriteRecords, WriteWork, At, Points, Staging
    <2>2. VouchedRuns'
      BY <1>1, <2>1, VouchedStep DEF Carries, VouchedRun, Staging
    <2> QED
      BY <1>1, <1>2, <2>1, <2>2, StillVouchedEvidence DEF Vouched
  <1> QED
    BY <1>3, <1>4, <1>5

LEMMA AfterIdle ==
    ASSUME Typed, NEW r \in Runs, Become(r, Idle)
    PROVE  run'[r] = Idle /\ \A q \in Runs \ {r} : run'[q] = run[q]
    BY DEF Typed, TypeOK, Become

LEMMA AfterBegin ==
    ASSUME Typed, NEW r \in Runs, NEW mode \in Modes \ {"browser"},
           NEW file \in LocalCopies \cup {None}, Begin(r, mode, file)
    PROVE  /\ run'[r].mode = mode /\ run'[r].file = file
           /\ run'[r].manifest = manifest /\ run'[r].committed = fingerprints
           /\ run'[r].pc = "refused"
              \/ /\ run'[r].pc = "fetch" /\ manifest # Unreadable /\ fingerprints # Unreadable
                 /\ mode = "verify" => manifest # None
           /\ \A q \in Runs \ {r} : run'[q] = run[q]
           /\ UNCHANGED <<adapter, approved, evidence>>
  <1> DEFINE pc == IF \/ manifest = Unreadable \/ fingerprints = Unreadable
                      \/ manifest = None /\ mode = "verify"
                   THEN "refused" ELSE "fetch"
             new == [Idle EXCEPT !.mode = mode, !.file = file, !.manifest = manifest,
                                 !.committed = fingerprints, !.pc = pc]
  <1>1. run \in [Runs -> RunState] /\ Become(r, new) /\ UNCHANGED <<adapter, approved, evidence>>
    BY DEF Begin, Typed, TypeOK, upstream
  <1>2. run'[r] = new /\ \A q \in Runs \ {r} : run'[q] = run[q]
    BY <1>1 DEF Become
  <1>3. /\ new.mode = mode /\ new.file = file /\ new.manifest = manifest
        /\ new.committed = fingerprints /\ new.pc = pc
    BY DEF Idle
  <1> HIDE DEF new
  <1> QED
    BY <1>1, <1>2, <1>3

LEMMA VouchedIdle ==
    ASSUME NEW blessings, NEW diagnostic
    PROVE  VouchedRun(Idle, blessings, diagnostic)
    BY NotNone DEF VouchedRun, Idle, Staging

LEMMA VouchedEnds ==
    ASSUME Typed, Vouched, NEW r \in Runs, Become(r, Idle),
           UNCHANGED <<adapter, approved, evidence>>
    PROVE  VouchedEvidence' /\ VouchedRuns'
  <1>1. VouchedRun(run'[r], approved', adapter'.diagnostic)
    BY AfterIdle, VouchedIdle
  <1> QED
    BY <1>1, AfterIdle, VouchedStep, StillVouchedEvidence

LEMMA VouchedBegin ==
    ASSUME Typed, Vouched, NEW r \in Runs, NEW mode \in Modes \ {"browser"},
           NEW file \in LocalCopies \cup {None}, UNCHANGED page, Begin(r, mode, file)
    PROVE  Vouched'
  <1>1. VouchedRun(run'[r], approved', adapter'.diagnostic)
    BY AfterBegin DEF VouchedRun, Vouched, VouchedEvidence, Staging
  <1>2. VouchedRuns'
    BY <1>1, AfterBegin, VouchedStep
  <1> QED
    BY <1>2, AfterBegin, StillVouchedPage, StillVouchedEvidence DEF Vouched

LEMMA VouchedProceed ==
    ASSUME Typed, Vouched, NEW r \in Runs, UNCHANGED page, Proceed(r)
    PROVE  Vouched'
  <1>1. CASE Exit(r)
    <2>1. Become(r, Idle) /\ UNCHANGED <<adapter, approved, evidence>>
      BY <1>1 DEF Exit, upstream
    <2> QED
      BY <2>1, VouchedEnds, StillVouchedPage DEF Vouched
  <1>2. CASE ~Exit(r)
    BY <1>2, VouchedAcquiring, VouchedDecided, VouchedApprove, VouchedWrite
    DEF Proceed, Acquiring
  <1> QED
    BY <1>1, <1>2

LEMMA VouchedKill ==
    ASSUME Typed, Vouched, NEW r \in Runs, UNCHANGED page, Kill(r)
    PROVE  Vouched'
  <1>1. Become(r, Idle) /\ UNCHANGED <<adapter, approved, evidence>>
    BY DEF Kill, upstream
  <1> QED
    BY <1>1, VouchedEnds, StillVouchedPage DEF Vouched

LEMMA VouchedWorld ==
    ASSUME Vouched, UNCHANGED page, Republish \/ Outage \/ Recover \/ Damage
    PROVE  Vouched'
  <1>1. UNCHANGED <<run, adapter, approved>>
    BY DEF Republish, Outage, Recover, Damage, upstream
  <1>2. \/ UNCHANGED evidence
        \/ manifest' = Unreadable /\ UNCHANGED fingerprints
        \/ fingerprints' = Unreadable /\ UNCHANGED manifest
    BY DEF Republish, Outage, Recover, Damage
  <1>3. VouchedEvidence'
    BY <1>1, <1>2 DEF Vouched, VouchedEvidence, evidence
  <1> QED
    BY <1>1, <1>3 DEF Vouched, VouchedRuns, VouchedPage

\* A page calls blessed only the records that somebody approved.
LEMMA CorpusPageVouched ==
    ASSUME Typed, Vouched, UNCHANGED approved, page' = CorpusPage
    PROVE  VouchedPage'
  <1> SUFFICES ASSUME page'.status = "blessed", page'.shown # None
               PROVE  NamedText(page'.shown, approved)
    BY DEF VouchedPage
  <1>1. stage.work # None
    BY DEF CorpusPage, NoPage
  <1>2. /\ page'.shown = stage.records
        /\ StatusOf(Readable(fingerprints), stage.records) = "blessed"
    BY <1>1 DEF CorpusPage
  <1>3. stage.records \in Fingerprints /\ fingerprints \in Fingerprints \cup {None, Unreadable}
    BY <1>1 DEF Typed, TypeOK
  <1>4. fingerprints \in Fingerprints /\ Clean(Diff(fingerprints, stage.records))
    BY <1>2, <1>3 DEF StatusOf, Readable
  <1>5. fingerprints = stage.records /\ fingerprints \notin {None, Unreadable}
    BY <1>3, <1>4, NotNone, CleanIsEqual
  <1> QED
    BY <1>2, <1>5 DEF Vouched, VouchedEvidence

LEMMA VouchedBrowser ==
    ASSUME Typed, Vouched,
           \/ LoadPage \/ Stop \/ Upgrade
           \/ \E w \in Threads : Respond(w) \/ \E named \in BOOLEAN : Submit(w, named)
    PROVE  Vouched'
  <1>1. CASE LoadPage
    <2>1. UNCHANGED <<adapter, approved, evidence, run>>
      BY <1>1 DEF LoadPage, acquireVars, upstream
    <2> QED
      BY <1>1, <2>1, CorpusPageVouched, StillVouchedEvidence DEF LoadPage, Vouched, VouchedRuns
  <1>2. CASE Stop
    <2>1. /\ UNCHANGED <<adapter, approved, evidence>>
          /\ run' = [r \in Runs |-> IF r \in Threads THEN Idle ELSE run[r]]
          /\ page'.status = page.status /\ page'.shown = page.shown
      BY <1>2 DEF Stop, upstream, Typed, TypeOK
    <2>2. VouchedRuns'
      BY <2>1, VouchedIdle DEF Vouched, VouchedRuns
    <2> QED
      BY <2>1, <2>2, StillVouchedEvidence DEF Vouched, VouchedPage
  <1>3. CASE Upgrade
    <2>1. /\ UNCHANGED <<approved, evidence, run>> /\ \A r \in Runs : run[r].pc = "idle"
          /\ page'.status = page.status /\ page'.shown = page.shown
      BY <1>3 DEF Upgrade, At, Typed, TypeOK
    <2>2. VouchedRuns'
      BY <2>1 DEF Vouched, VouchedRuns, VouchedRun, Staging
    <2> QED
      BY <2>1, <2>2, StillVouchedEvidence DEF Vouched, VouchedPage
  <1>4. ASSUME NEW w \in Threads, Respond(w) PROVE Vouched'
    <2>1. /\ UNCHANGED <<adapter, approved, evidence>> /\ Become(w, Idle) /\ w \in Runs
          /\ page' = CorpusPage
      BY <1>4 DEF Respond, Threads, upstream
    <2> QED
      BY <2>1, CorpusPageVouched, VouchedEnds DEF Vouched
  <1>5. ASSUME NEW w \in Threads, NEW named \in BOOLEAN, Submit(w, named) PROVE Vouched'
    <2> DEFINE pc == IF MayBless(named) THEN "fetch" ELSE "refused"
               new == [Idle EXCEPT !.mode = "browser", !.read = page.form, !.pc = pc]
    <2>1. /\ UNCHANGED <<adapter, approved, evidence, page>> /\ Become(w, new) /\ w \in Runs
          /\ run \in [Runs -> RunState]
      BY <1>5 DEF Submit, Threads, upstream, Typed, TypeOK
    <2>2. new.manifest = None /\ new.committed = None /\ new.pc \in {"fetch", "refused"}
      BY DEF Idle
    <2> HIDE DEF new
    <2>3. run'[w] = new /\ \A q \in Runs \ {w} : run'[q] = run[q]
      BY <2>1 DEF Become
    <2>4. VouchedRun(run'[w], approved', adapter'.diagnostic)
      BY <2>2, <2>3, NotNone DEF VouchedRun, Staging
    <2>5. VouchedRuns'
      BY <2>1, <2>3, <2>4, VouchedStep
    <2> QED
      BY <2>1, <2>5, StillVouchedPage, StillVouchedEvidence DEF Vouched
  <1> QED
    BY <1>1, <1>2, <1>3, <1>4, <1>5

LEMMA VouchedInit == Init => Vouched
  <1> SUFFICES ASSUME Init PROVE Vouched
    OBVIOUS
  <1>1. VouchedRuns
    BY VouchedIdle DEF Init, Init0, VouchedRuns
  <1> QED
    BY <1>1 DEF Init, Init0, Vouched, VouchedEvidence, VouchedPage, NoPage

LEMMA VouchedNext == Typed /\ Vouched /\ [Next]_vars => Vouched'
  <1> SUFFICES ASSUME Typed, Vouched, [Next]_vars PROVE Vouched'
    OBVIOUS
  <1>1. CASE AcquireNext /\ UNCHANGED page
    BY <1>1, VouchedBegin, VouchedProceed, VouchedKill, VouchedWorld DEF AcquireNext
  <1>2. CASE \E w \in Threads : Compare(w)
    BY <1>2, VouchedCompare
  <1>3. CASE UNCHANGED vars
    <2>1. UNCHANGED <<run, adapter, approved, manifest, fingerprints, page>>
      BY <1>3 DEF vars, acquireVars, upstream, evidence
    <2> QED
      BY <2>1 DEF Vouched, VouchedEvidence, VouchedRuns, VouchedPage
  <1> QED
    BY <1>1, <1>2, <1>3, VouchedBrowser DEF Next, Handle

LEMMA VouchedHolds == Spec => [](Typed /\ Vouched)
  <1> QED
    BY TypeInit, TypeNext, VouchedInit, VouchedNext, PTL DEF Spec

\* bless_route and bless (browse/server.py, acquire/pipeline.py) fetch the corpus
\* again, but commit only a manifest whose passage is the one that the person whose
\* name it carries had read; also with any number of submissions at once.
THEOREM WhatWasReadIsBlessedHolds == Spec => []WhatWasReadIsBlessed
  <1>1. Typed /\ Vouched => WhatWasReadIsBlessed
    BY DEF Vouched, VouchedEvidence, NamedManifest, WhatWasReadIsBlessed
  <1> QED
    BY <1>1, VouchedHolds, PTL

\* What load_staged calls blessed, and what verify lets through to the staging
\* seam or reports OK, is word for word a text somebody approved, under a manifest
\* somebody read the passage of (browse/staged.py, acquire/pipeline.py); also with
\* any number of submissions at once.
THEOREM WhatPassesWasApprovedHolds == Spec => []WhatPassesWasApproved
  <1>1. ASSUME Typed, Vouched PROVE WhatPassesWasApproved
    <2>1. page.status = "blessed" /\ page.shown # None =>
             \E b \in approved : b.fingerprints = page.shown
      BY <1>1 DEF Vouched, VouchedPage, NamedText
    <2>2. ASSUME NEW r \in Runs, run[r].mode \in {"provision", "verify"}, run[r].manifest # None,
                 run[r].pc \in {"records", "work", "done"}
          PROVE  /\ \E b \in approved : b.fingerprints = run[r].records
                 /\ \E b \in approved : /\ b.manifest = run[r].manifest
                                        /\ b.read = run[r].records[adapter.diagnostic]
      <3>1. VouchedRun(run[r], approved, adapter.diagnostic)
        BY <1>1 DEF Vouched, VouchedRuns
      <3> QED
        BY <2>2, <3>1 DEF VouchedRun, Staging, NamedText, NamedManifest
    <2> QED
      BY <2>1, <2>2 DEF WhatPassesWasApproved
  <1> QED
    BY <1>1, VouchedHolds, PTL

---------------------------------------------------------------------------
(* One acquisition at a time: what its text was made of.                   *)

OneRunning == \A r, q \in Runs : run[r].pc # "idle" /\ run[q].pc # "idle" => r = q

\* The segments that a run's bytes make, and the records those make.
Made(blob) == Segments(Extract(blob.pages))

Records(contract, found) ==
    LET text(i) == Normalise(contract, found[i].text) IN
    IF \/ \E i, j \in DOMAIN found : i # j /\ found[i].locator = found[j].locator
       \/ \E i \in DOMAIN found : text(i) = Blank
    THEN None
    ELSE [l \in {found[i].locator : i \in DOMAIN found} |->
             text(CHOOSE i \in DOMAIN found : found[i].locator = l)]

LEMMA NormalisedIs == \A found : Normalised(found) = Records(adapter.contract, found)
    BY DEF Normalised, Records

\* What a run reads back from the shared directories is what it put there.
Sourced(me, doc, segs, contract) ==
    /\ me.pc \in {"segment", "normalise"} \cup Recorded \cup {"done"} =>
          Extract(me.bytes.pages) # None
    /\ me.pc = "segment" => doc = Extract(me.bytes.pages)
    /\ me.pc = "normalise" => segs = Made(me.bytes)
    /\ me.pc \in Recorded \cup {"done"} =>
          me.records # None /\ me.records = Records(contract, Made(me.bytes))

\* Pages each of which was up at some time.
Witnessed(pages, sites) == \A p \in DOMAIN pages : \E s \in sites : s[p] = pages[p]

\* Bytes that a fetch during which these sites were up can come back with.
Upstream(pages, sites) ==
    \E named \in {Pages} \cup {Index(s) : s \in (sites \cup {Archive}) \ {None}} :
        /\ named # {} /\ pages \in [named -> Contents]
        /\ pages = Archive \/ Witnessed(pages, sites)

\* What a --verify-only run has of the pages that were up during it.
Evaluated(me, src, seen) ==
    me.mode = "verify" /\ me.pc # "idle" =>
        /\ src \in seen /\ me.pc \notin Recorded \ {"acquired"}
        /\ me.pc = "pages" =>
              /\ Witnessed(me.bytes.pages, seen)
              /\ \E s \in (seen \cup {Archive}) \ {None} :
                    DOMAIN me.bytes.pages \cup me.left = Index(s)
        /\ me.pc \in Got \cup {"done"} /\ me.file = None => Upstream(me.bytes.pages, seen)
        /\ me.pc = "done" => me.committed = me.records

\* A submission finds no evidence, and nothing else writes any meanwhile.
Unblessed(r, me, man, fps) ==
    r \in Threads =>
        /\ me.pc \in Submitted \cup {"manifest"} => man = None
        /\ me.pc \in {"manifest", "fingerprints"} => fps = None

Lone(r, me, doc, segs, contract, src, seen, man, fps) ==
    Sourced(me, doc, segs, contract) /\ Evaluated(me, src, seen) /\ Unblessed(r, me, man, fps)

Blessed == \A b \in approved :
    b.fingerprints # None /\ b.fingerprints = Records(b.manifest.adapter.contract, Made(b.manifest.upstream))

Alone ==
    /\ OneRunning
    /\ \A r \in Runs : Lone(r, run[r], document, segments, adapter.contract, source, since[r],
                            manifest, fingerprints)
    /\ Blessed

\* The same of a run that is not under way says nothing.
LEMMA IdleIsLone ==
    ASSUME NEW r, NEW me, me.pc = "idle", NEW doc, NEW segs, NEW contract, NEW src, NEW seen,
           NEW man, NEW fps
    PROVE  Lone(r, me, doc, segs, contract, src, seen, man, fps)
    BY DEF Lone, Sourced, Evaluated, Unblessed, Recorded, Got, Submitted

LEMMA OthersIdle ==
    ASSUME Alone, NEW r \in Runs, run[r].pc # "idle"
    PROVE  \A q \in Runs \ {r} : run[q].pc = "idle"
    BY DEF Alone, OneRunning

LEMMA LoneStep ==
    ASSUME NEW r \in Runs, Blessed',
           \A q \in Runs \ {r} : run'[q] = run[q] /\ run[q].pc = "idle",
           Lone(r, run'[r], document', segments', adapter'.contract, source', since'[r],
                manifest', fingerprints')
    PROVE  Alone'
  <1>1. OneRunning'
    BY DEF OneRunning
  <1>2. \A q \in Runs \ {r} : Lone(q, run'[q], document', segments', adapter'.contract, source',
                                   since'[q], manifest', fingerprints')
    BY IdleIsLone
  <1> QED
    BY <1>1, <1>2 DEF Alone

\* What a run's first reply, and each page after it, witnesses.
LEMMA LoneDownload ==
    ASSUME Typed, Alone, NEW r \in Runs, Download(r)
    PROVE  Evaluated(run'[r], source, since[r])
  <1> DEFINE got == IF up THEN source ELSE Archive
  <1>1. /\ run[r].pc = "fetch" /\ Evaluated(run[r], source, since[r]) /\ source \in Sites
        /\ Archive \in Sites \cup {None}
    BY SitesAssumption DEF Alone, Lone, Download, Fetching, At, Typed, TypeOK
  <1>2. SUFFICES ASSUME run'[r].mode = "verify"
                 PROVE  Evaluated(run'[r], source, since[r])
    BY DEF Evaluated
  <1>3. source \in since[r]
    BY <1>1, <1>2, AfterDownload DEF Evaluated, Carries
  <1>4. CASE run'[r].pc = "refused"
    BY <1>3, <1>4 DEF Evaluated, Got, Recorded
  <1>5. CASE run'[r].pc = "extract" /\ got # None /\ run'[r].bytes = [pages |-> got, archived |-> ~up]
    <2>1. got \in [Pages -> Contents] /\ run'[r].bytes.pages = got
      BY <1>1, <1>5, SitesAssumption
    <2>2. got = Archive \/ Witnessed(got, since[r])
      BY <1>3 DEF Witnessed
    <2>3. Upstream(got, since[r])
      BY <2>1, <2>2, SitesAssumption DEF Upstream
    <2> QED
      BY <1>3, <1>5, <2>1, <2>3 DEF Evaluated, Recorded
  <1>6. CASE /\ run'[r].pc = "pages" /\ got # None
             /\ run'[r].left = Index(got) /\ run'[r].bytes.pages = <<>>
    <2>1. got \in (since[r] \cup {Archive}) \ {None}
      BY <1>3, <1>6
    <2>2. DOMAIN run'[r].bytes.pages = {}
      BY <1>6
    <2> QED
      BY <1>3, <1>6, <2>1, <2>2 DEF Evaluated, Witnessed, Got, Recorded
  <1> QED
    BY <1>4, <1>5, <1>6, AfterDownload

LEMMA LoneFetchPage ==
    ASSUME Typed, Alone, NEW r \in Runs, FetchPage(r)
    PROVE  Evaluated(run'[r], source, since[r])
  <1> DEFINE p == CHOOSE p \in run[r].left : \A q \in run[r].left : p <= q
             have == run[r].bytes.pages
             more == [q \in DOMAIN have \cup {p} |-> IF q = p THEN source[p] ELSE have[q]]
  <1>1. /\ run[r].pc = "pages" /\ At(r, "pages") /\ Evaluated(run[r], source, since[r])
    BY DEF Alone, Lone, FetchPage, At
  <1>2. SUFFICES ASSUME run'[r].mode = "verify"
                 PROVE  Evaluated(run'[r], source, since[r])
    BY DEF Evaluated
  <1>3. /\ source \in since[r] /\ Witnessed(have, since[r])
        /\ \E s \in (since[r] \cup {Archive}) \ {None} : DOMAIN have \cup run[r].left = Index(s)
    BY <1>1, <1>2, AfterFetchPage DEF Evaluated, Carries
  <1>4. p \in run[r].left /\ more \in [DOMAIN have \cup {p} -> Contents]
    BY <1>1, NextPage
  <1>5. \/ run'[r].pc = "refused"
        \/ run'[r].pc = "extract" /\ run[r].left = {p} /\ run'[r].bytes.pages = more
        \/ /\ run'[r].pc = "pages" /\ run'[r].left = run[r].left \ {p}
           /\ run'[r].bytes.pages = more
    BY AfterFetchPage
  <1> HIDE DEF p, have
  <1>6. DOMAIN more = DOMAIN have \cup {p} /\ Witnessed(more, since[r])
    BY <1>3 DEF Witnessed
  <1> HIDE DEF more
  <1>7. CASE run'[r].pc = "extract" /\ run[r].left = {p} /\ run'[r].bytes.pages = more
    <2>1. PICK s \in (since[r] \cup {Archive}) \ {None} : DOMAIN have \cup {p} = Index(s)
      BY <1>3, <1>7
    <2>2. Upstream(more, since[r])
      BY <1>4, <1>6, <2>1 DEF Upstream
    <2> QED
      BY <1>3, <1>7, <2>2 DEF Evaluated, Recorded
  <1>8. CASE /\ run'[r].pc = "pages" /\ run'[r].left = run[r].left \ {p}
             /\ run'[r].bytes.pages = more
    <2>1. DOMAIN more \cup run'[r].left = DOMAIN have \cup run[r].left
      BY <1>4, <1>6, <1>8
    <2> QED
      BY <1>3, <1>6, <1>8, <2>1 DEF Evaluated, Got, Recorded
  <1> QED
    BY <1>3, <1>5, <1>7, <1>8 DEF Evaluated, Got, Recorded

LEMMA LoneAcquiring ==
    ASSUME Typed, Alone, NEW r \in Runs, UNCHANGED page, Acquiring(r)
    PROVE  Alone'
  <1> DEFINE contract == adapter.contract
  <1>1. /\ Sourced(run[r], document, segments, contract)
        /\ Evaluated(run[r], source, since[r])
        /\ Unblessed(r, run[r], manifest, fingerprints) /\ Blessed
    BY DEF Alone, Lone
  <1>2. /\ Carries(r) /\ run[r].pc \in Submitted \ {"acquired"}
        /\ run'[r].pc \in (Submitted \ {"fetch"}) \cup {"refused"}
        /\ UNCHANGED <<manifest, fingerprints, approved, adapter, source, since, stage>>
    BY AfterAcquiring
  <1>3. \A q \in Runs \ {r} : run'[q] = run[q] /\ run[q].pc = "idle"
    BY <1>2, OthersIdle DEF Carries, Submitted
  <1>4. Unblessed(r, run'[r], manifest', fingerprints')
    BY <1>1, <1>2 DEF Unblessed, Submitted
  <1>5. Sourced(run'[r], document', segments', contract) /\ Evaluated(run'[r], source, since[r])
    <2>1. CASE ReadLocalCopy(r)
      <3>1. run'[r].pc = "extract" /\ run[r].file # None /\ run[r].pc = "fetch"
        BY <2>1, AfterStore DEF ReadLocalCopy, Fetching, At
      <3> QED
        BY <1>1, <1>2, <3>1 DEF Sourced, Evaluated, Carries, Recorded
    <2>2. CASE LocalCopyUnreadable(r) \/ NeitherAnswers(r)
      <3>1. run'[r].pc = "refused" /\ run[r].pc = "fetch"
        BY <2>2, AfterGoto DEF LocalCopyUnreadable, NeitherAnswers, Fetching, At, Refuse, Points
      <3> QED
        BY <1>1, <1>2, <3>1 DEF Sourced, Evaluated, Carries, Recorded, Got
    <2>3. CASE ReadCache(r)
      <3>1. run'[r].pc \in {"extract", "refused"} /\ run[r].mode # "verify"
        BY <2>3, AfterReadCache DEF ReadCache, CacheHit
      <3> QED
        BY <1>2, <3>1 DEF Sourced, Evaluated, Carries, Recorded
    <2>4. CASE Download(r)
      BY <2>4, AfterDownload, LoneDownload DEF Sourced, Recorded
    <2>5. CASE FetchPage(r)
      BY <2>5, AfterFetchPage, LoneFetchPage DEF Sourced, Recorded
    <2>6. CASE ExtractDocument(r)
      <3>1. /\ run[r].pc = "extract" /\ run'[r].bytes = run[r].bytes
            /\ \/ run'[r].pc = "refused"
               \/ /\ run'[r].pc = "segment" /\ Extract(run[r].bytes.pages) # None
                  /\ document' = Extract(run[r].bytes.pages)
        BY <2>6, AfterGoto DEF ExtractDocument, Working, At, Refuse, Points
      <3> QED
        BY <1>1, <1>2, <3>1 DEF Sourced, Evaluated, Carries, Recorded, Got
    <2>7. CASE SegmentDocument(r)
      <3>1. /\ run[r].pc = "segment" /\ run'[r].bytes = run[r].bytes
            /\ \/ run'[r].pc = "refused"
               \/ run'[r].pc = "normalise" /\ segments' = Segments(document)
        BY <2>7, AfterGoto DEF SegmentDocument, Working, At, Refuse, Points
      <3> QED
        BY <1>1, <1>2, <3>1 DEF Sourced, Evaluated, Carries, Recorded, Got, Made
    <2>8. CASE NormaliseSegments(r)
      <3>1. /\ run[r].pc = "normalise" /\ run'[r].bytes = run[r].bytes
            /\ \/ run'[r].pc = "refused"
               \/ /\ run'[r].pc = "acquired" /\ run'[r].records # None
                  /\ run'[r].records = Records(contract, segments)
        BY <2>8, AfterNormalise, NormalisedIs DEF NormaliseSegments, Working, At
      <3> QED
        BY <1>1, <1>2, <3>1 DEF Sourced, Evaluated, Carries, Recorded, Got
    <2> QED
      BY <2>1, <2>2, <2>3, <2>4, <2>5, <2>6, <2>7, <2>8 DEF Acquiring
  <1>6. Blessed'
    BY <1>1, <1>2 DEF Blessed
  <1> QED
    BY <1>2, <1>3, <1>4, <1>5, <1>6, LoneStep DEF Lone

\* A run that goes on to stage or ends, having made nothing new.
LEMMA LoneGoto ==
    ASSUME Typed, Alone, NEW r \in Runs, NEW pc \in Staging \cup {"refused", "fingerprints"},
           Goto(r, pc), run[r].pc \in Recorded,
           UNCHANGED <<adapter, approved, source, since>>,
           run[r].mode = "verify" =>
              \/ pc = "refused"
              \/ pc = "done" /\ run[r].committed = run[r].records,
           pc = "fingerprints" => fingerprints' = fingerprints /\ run[r].pc = "manifest"
    PROVE  Alone'
  <1>1. /\ Sourced(run[r], document, segments, adapter.contract)
        /\ Evaluated(run[r], source, since[r])
        /\ Unblessed(r, run[r], manifest, fingerprints) /\ Blessed
    BY DEF Alone, Lone
  <1>2. /\ Carries(r) /\ run'[r].pc = pc /\ run'[r].bytes = run[r].bytes
        /\ run'[r].records = run[r].records
    BY AfterGoto DEF Staging, Points
  <1>3. \A q \in Runs \ {r} : run'[q] = run[q] /\ run[q].pc = "idle"
    BY <1>2, OthersIdle DEF Carries, Recorded
  <1>4. Sourced(run'[r], document', segments', adapter'.contract)
    BY <1>1, <1>2 DEF Sourced, Recorded, Staging
  <1>5. Unblessed(r, run'[r], manifest', fingerprints')
    BY <1>1, <1>2 DEF Unblessed, Submitted, Staging
  <1>6. Blessed'
    BY <1>1 DEF Blessed
  <1>7. Evaluated(run'[r], source', since'[r])
    BY <1>1, <1>2 DEF Evaluated, Carries, Staging, Recorded, Got
  <1> QED
    BY <1>3, <1>4, <1>5, <1>6, <1>7, LoneStep DEF Lone

LEMMA LoneDecided ==
    ASSUME Typed, Vouched, Alone, NEW r \in Runs, UNCHANGED page,
           \/ ShowDiagnostic(r) \/ Provision(r) \/ VerifyOnly(r) \/ Decline(r)
    PROVE  Alone'
  <1>1. /\ UNCHANGED <<adapter, approved, source, since>> /\ run[r].pc = "acquired"
        /\ \/ Refuse(r)
           \/ run[r].mode # "verify" /\ (Goto(r, "done") \/ Goto(r, "records"))
           \/ Goto(r, "done") /\ run[r].committed # None /\ Verifies(r)
    BY DEF ShowDiagnostic, Provision, VerifyOnly, Decline, Acquired, At, upstream
  <1>2. CASE Goto(r, "done") /\ run[r].committed # None /\ Verifies(r)
    <2>1. /\ run[r].records \in Fingerprints /\ run[r].committed # Unreadable
          /\ run[r].committed \in Fingerprints \cup {None, Unreadable}
      BY <1>1 DEF Typed, TypeOK, Phases, Fits, Recorded, RunState, Vouched, VouchedRuns, VouchedRun
    <2>2. run[r].committed = run[r].records
      BY <1>2, <2>1, CleanIsEqual DEF Verifies
    <2> QED
      BY <1>1, <1>2, <2>2, LoneGoto DEF Staging, Recorded
  <1>3. CASE Refuse(r)
    BY <1>1, <1>3, LoneGoto DEF Refuse, Staging, Recorded
  <1>4. CASE run[r].mode # "verify" /\ (Goto(r, "done") \/ Goto(r, "records"))
    BY <1>1, <1>4, LoneGoto DEF Staging, Recorded
  <1> QED
    BY <1>1, <1>2, <1>3, <1>4

LEMMA LoneBless ==
    ASSUME Typed, Alone, NEW r \in Runs, NEW passage, Bless(r, passage),
           run[r].pc = "acquired", run[r].mode # "verify",
           r \in Threads => fingerprints = None,
           UNCHANGED <<adapter, evidence, source, since>>
    PROVE  Alone'
  <1>1. CASE Refuse(r) /\ UNCHANGED approved
    BY <1>1, LoneGoto DEF Refuse, Staging, Recorded
  <1>2. CASE /\ HasDiagnostic(r) /\ ManifestOf(r) \in Manifest
             /\ approved' = approved \cup {[read |-> passage, manifest |-> ManifestOf(r),
                                            fingerprints |-> run[r].records]}
             /\ run'[r].manifest = ManifestOf(r) /\ run'[r].pc = "manifest"
             /\ run'[r].mode = run[r].mode
             /\ run'[r].bytes = run[r].bytes /\ run'[r].records = run[r].records
             /\ \A q \in Runs \ {r} : run'[q] = run[q]
    <2>1. /\ Sourced(run[r], document, segments, adapter.contract)
          /\ Unblessed(r, run[r], manifest, fingerprints) /\ Blessed
      BY DEF Alone, Lone
    <2>2. \A q \in Runs \ {r} : run'[q] = run[q] /\ run[q].pc = "idle"
      BY <1>2, OthersIdle
    <2>3. Sourced(run'[r], document', segments', adapter'.contract)
      BY <1>2, <2>1 DEF Sourced, Recorded
    <2>4. Evaluated(run'[r], source', since'[r])
      BY <1>2 DEF Evaluated
    <2>5. Unblessed(r, run'[r], manifest', fingerprints')
      BY <1>2, <2>1 DEF Unblessed, Submitted, evidence
    <2>6. Blessed'
      <3>1. ManifestOf(r).adapter = adapter /\ ManifestOf(r).upstream = run[r].bytes
        BY DEF ManifestOf
      <3>2. /\ run[r].records # None
            /\ run[r].records = Records(adapter.contract, Made(run[r].bytes))
        BY <2>1 DEF Sourced, Recorded
      <3> QED
        BY <1>2, <2>1, <3>1, <3>2 DEF Blessed
    <2> QED
      BY <2>2, <2>3, <2>4, <2>5, <2>6, LoneStep DEF Lone
  <1> QED
    BY <1>1, <1>2, AfterBless

LEMMA LoneApprove ==
    ASSUME Typed, Alone, NEW r \in Runs, Approve(r)
    PROVE  Alone'
  <1>1. /\ run[r].pc = "acquired" /\ run[r].mode = "bless"
        /\ UNCHANGED <<adapter, evidence, source, since>>
    BY DEF Approve, Acquired, At, upstream
  <1>2. r \notin Threads
    BY <1>1 DEF Typed, Phases, Fits
  <1> QED
    BY <1>1, <1>2, LoneBless DEF Approve

LEMMA LoneCompare ==
    ASSUME Typed, Alone, NEW w \in Threads, Compare(w)
    PROVE  Alone'
  <1>1. /\ run[w].pc = "acquired" /\ run[w].mode = "browser" /\ w \in Runs
        /\ UNCHANGED <<adapter, evidence, source, since>>
    BY DEF Compare, Acquired, At, Threads, upstream
  <1>2. CASE fingerprints = None /\ Bless(w, run[w].read)
    BY <1>1, <1>2, LoneBless
  <1>3. CASE UNCHANGED approved /\ (RefuseMoved(w) \/ Refuse(w))
    BY <1>1, <1>3, LoneGoto DEF RefuseMoved, Refuse, Staging, Recorded
  <1> QED
    BY <1>2, <1>3 DEF Compare

LEMMA LoneWrite ==
    ASSUME Typed, Alone, NEW r \in Runs,
           WriteManifest(r) \/ WriteFingerprints(r) \/ WriteRecords(r) \/ WriteWork(r)
    PROVE  Alone'
  <1>1. /\ UNCHANGED <<adapter, approved, source, since>>
        /\ run[r].pc \in Recorded \ {"acquired"}
    BY DEF WriteManifest, WriteFingerprints, WriteRecords, WriteWork, upstream, At, Recorded
  <1>2. run[r].mode # "verify"
    BY <1>1 DEF Alone, Lone, Evaluated, Recorded
  <1>3. \/ Goto(r, "records") \/ Goto(r, "work") \/ Goto(r, "done")
        \/ Goto(r, "fingerprints") /\ UNCHANGED fingerprints /\ run[r].pc = "manifest"
    BY DEF WriteManifest, WriteFingerprints, WriteRecords, WriteWork, At
  <1> QED
    BY <1>1, <1>2, <1>3, LoneGoto DEF Staging

\* A run that ends, or one that begins with nothing else under way.
LEMMA LoneEnds ==
    ASSUME Typed, Alone, NEW r \in Runs, Become(r, Idle), run[r].pc # "idle",
           UNCHANGED <<approved>>
    PROVE  Alone'
  <1>1. run'[r].pc = "idle"
    BY AfterIdle DEF Idle
  <1>2. \A q \in Runs \ {r} : run'[q] = run[q] /\ run[q].pc = "idle"
    BY AfterIdle, OthersIdle
  <1> QED
    BY <1>1, <1>2, IdleIsLone, LoneStep DEF Alone, Blessed

LEMMA LoneBegin ==
    ASSUME Typed, Alone, OneAtATime, NEW r \in Runs, NEW mode \in Modes \ {"browser"},
           NEW file \in LocalCopies \cup {None}, Begin(r, mode, file)
    PROVE  Alone'
  <1>1. /\ \A q \in Runs \ {r} : run'[q] = run[q] /\ run[q].pc = "idle"
        /\ run'[r].mode = mode /\ run'[r].pc \in {"refused", "fetch"} /\ r \notin Threads
        /\ UNCHANGED <<approved, source>>
    BY AfterBegin DEF Begin, Free, At, Threads, upstream
  <1>2. mode = "verify" => source \in since'[r]
    BY DEF Begin, Typed, TypeOK
  <1>3. Lone(r, run'[r], document', segments', adapter'.contract, source', since'[r],
             manifest', fingerprints')
    BY <1>1, <1>2 DEF Lone, Sourced, Evaluated, Unblessed, Recorded, Got
  <1> QED
    BY <1>1, <1>3, LoneStep DEF Alone, Blessed

LEMMA LoneSubmit ==
    ASSUME Typed, Alone, OneAtATime, NEW w \in Threads, NEW named \in BOOLEAN, Submit(w, named)
    PROVE  Alone'
  <1> DEFINE pc == IF MayBless(named) THEN "fetch" ELSE "refused"
             new == [Idle EXCEPT !.mode = "browser", !.read = page.form, !.pc = pc]
  <1>1. /\ UNCHANGED <<approved, evidence>> /\ Become(w, new) /\ w \in Runs
        /\ run \in [Runs -> RunState] /\ \A q \in Runs : run[q].pc = "idle"
    BY DEF Submit, Free, At, Threads, Typed, TypeOK
  <1>2. new.mode = "browser" /\ (new.pc # "refused" => new.pc = "fetch" /\ manifest = None)
    BY DEF Idle, MayBless
  <1> HIDE DEF new
  <1>3. run'[w] = new /\ \A q \in Runs \ {w} : run'[q] = run[q]
    BY <1>1 DEF Become
  <1>4. Lone(w, run'[w], document', segments', adapter'.contract, source', since'[w],
             manifest', fingerprints')
    BY <1>1, <1>2, <1>3
    DEF Lone, Sourced, Evaluated, Unblessed, Recorded, Got, Submitted, evidence
  <1> QED
    BY <1>1, <1>3, <1>4, LoneStep DEF Alone, Blessed

LEMMA LoneProceed ==
    ASSUME Typed, Vouched, Alone, NEW r \in Runs, UNCHANGED page, Proceed(r)
    PROVE  Alone'
  <1>1. CASE Exit(r)
    <2>1. Become(r, Idle) /\ run[r].pc # "idle" /\ UNCHANGED <<approved>>
      BY <1>1 DEF Exit
    <2> QED
      BY <2>1, LoneEnds
  <1>2. CASE ~Exit(r)
    BY <1>2, LoneAcquiring, LoneDecided, LoneApprove, LoneWrite DEF Proceed, Acquiring
  <1> QED
    BY <1>1, <1>2

LEMMA LoneKill ==
    ASSUME Typed, Alone, NEW r \in Runs, Kill(r)
    PROVE  Alone'
    BY LoneEnds DEF Kill, At

\* More sites witness more.
LEMMA MoreSeen ==
    ASSUME NEW me, NEW old, NEW new, NEW src, NEW next \in new, old \subseteq new,
           Evaluated(me, src, old)
    PROVE  Evaluated(me, next, new)
  <1>1. \A pages : Witnessed(pages, old) => Witnessed(pages, new)
    BY DEF Witnessed
  <1>2. \A pages : Upstream(pages, old) => Upstream(pages, new)
    BY <1>1 DEF Upstream
  <1> QED
    BY <1>1, <1>2 DEF Evaluated

LEMMA LoneWorld ==
    ASSUME Typed, Alone, Republish \/ Outage \/ Recover \/ Damage
    PROVE  Alone'
  <1>1. UNCHANGED <<run, adapter, approved, document, segments>>
    BY DEF Republish, Outage, Recover, Damage, upstream, working
  <1>2. (manifest = None => manifest' = None) /\ (fingerprints = None => fingerprints' = None)
    BY DEF Republish, Outage, Recover, Damage, evidence
  <1>3. OneRunning' /\ Blessed'
    BY <1>1 DEF Alone, OneRunning, Blessed
  <1>4. ASSUME NEW r \in Runs PROVE Evaluated(run[r], source', since'[r])
    <2>1. Evaluated(run[r], source, since[r])
      BY DEF Alone, Lone
    <2>2. CASE Republish
      <3>1. run[r].mode = "verify" => since'[r] = since[r] \cup {source'}
        BY <2>2 DEF Republish
      <3>2. CASE run[r].mode = "verify"
        BY <2>1, <3>1, <3>2, MoreSeen
      <3> QED
        BY <3>2 DEF Evaluated
    <2>3. CASE Outage \/ Recover \/ Damage
      <3>1. UNCHANGED <<source, since>>
        BY <2>3 DEF Outage, Recover, Damage, upstream
      <3> QED
        BY <2>1, <3>1
    <2> QED
      BY <2>2, <2>3
  <1>5. ASSUME NEW r \in Runs
        PROVE  Lone(r, run'[r], document', segments', adapter'.contract, source', since'[r],
                    manifest', fingerprints')
    <2>1. Lone(r, run[r], document, segments, adapter.contract, source, since[r],
               manifest, fingerprints)
      BY DEF Alone
    <2> QED
      BY <1>1, <1>2, <1>4, <2>1 DEF Lone, Unblessed
  <1> QED
    BY <1>3, <1>5 DEF Alone

LEMMA LoneBrowser ==
    ASSUME Typed, Alone, OneAtATime,
           \/ LoadPage \/ Stop \/ Upgrade
           \/ \E w \in Threads : Respond(w) \/ \E named \in BOOLEAN : Submit(w, named)
    PROVE  Alone'
  <1>1. CASE LoadPage
    BY <1>1
    DEF LoadPage, acquireVars, upstream, working, evidence, Alone, OneRunning, Blessed
  <1>2. CASE Stop
    <2>1. /\ UNCHANGED <<adapter, approved, document, segments, manifest, fingerprints, source,
                         since>>
          /\ \A r \in Runs : run'[r] = run[r] \/ run'[r] = Idle
      BY <1>2 DEF Stop, upstream, working, evidence
    <2>2. \A r \in Runs : run'[r] = run[r] \/ run'[r].pc = "idle"
      BY <2>1 DEF Idle
    <2>3. OneRunning' /\ Blessed'
      BY <2>1, <2>2 DEF Alone, OneRunning, Blessed
    <2>4. \A r \in Runs : Lone(r, run'[r], document', segments', adapter'.contract, source',
                               since'[r], manifest', fingerprints')
      BY <2>1, <2>2, IdleIsLone DEF Alone
    <2> QED
      BY <2>3, <2>4 DEF Alone
  <1>3. CASE Upgrade
    <2>1. UNCHANGED <<run, approved>> /\ \A r \in Runs : run[r].pc = "idle"
      BY <1>3 DEF Upgrade, At
    <2> QED
      BY <2>1, IdleIsLone DEF Alone, OneRunning, Blessed
  <1>4. ASSUME NEW w \in Threads, Respond(w) PROVE Alone'
    <2>1. Become(w, Idle) /\ run[w].pc # "idle" /\ UNCHANGED <<approved>> /\ w \in Runs
      BY <1>4 DEF Respond, Threads
    <2> QED
      BY <2>1, LoneEnds
  <1>5. ASSUME NEW w \in Threads, NEW named \in BOOLEAN, Submit(w, named) PROVE Alone'
    BY <1>5, LoneSubmit
  <1> QED
    BY <1>1, <1>2, <1>3, <1>4, <1>5

LEMMA AloneInit == Init => Alone
  <1> SUFFICES ASSUME Init PROVE Alone
    OBVIOUS
  <1>1. \A r \in Runs : run[r].pc = "idle"
    BY DEF Init, Init0, Idle
  <1> QED
    BY <1>1, IdleIsLone DEF Init, Init0, Alone, OneRunning, Blessed

LEMMA AloneNext ==
    ASSUME OneAtATime
    PROVE  Typed /\ Vouched /\ Alone /\ [Next]_vars => Alone'
  <1> SUFFICES ASSUME Typed, Vouched, Alone, [Next]_vars PROVE Alone'
    OBVIOUS
  <1>1. CASE AcquireNext /\ UNCHANGED page
    BY <1>1, LoneBegin, LoneProceed, LoneKill, LoneWorld DEF AcquireNext
  <1>2. CASE \E w \in Threads : Compare(w)
    BY <1>2, LoneCompare
  <1>3. CASE UNCHANGED vars
    BY <1>3
    DEF vars, acquireVars, upstream, working, evidence, Alone, OneRunning, Blessed
  <1> QED
    BY <1>1, <1>2, <1>3, LoneBrowser DEF Next, Handle

LEMMA AloneHolds == ASSUME OneAtATime PROVE Spec => [](Typed /\ Vouched /\ Alone)
  <1> QED
    BY TypeInit, TypeNext, VouchedInit, VouchedNext, AloneInit, AloneNext, PTL DEF Spec

\* Each stage of the pipeline writes its file in one directory and the next reads it
\* back from there (acquire/pipeline.py): while acquisitions take turns, the text a
\* blessing commits is what the upstream bytes that it names make, under the
\* contract that it names.  Submissions that overlap do without this (browse_twice).
THEOREM BlessedBytesGiveBlessedTextHolds ==
    ASSUME OneAtATime PROVE Spec => []BlessedBytesGiveBlessedText
  <1>1. ASSUME Alone, NEW b \in approved
        PROVE  LET found == Segments(Extract(b.manifest.upstream.pages)) IN
               b.fingerprints =
                  [l \in {found[i].locator : i \in DOMAIN found} |->
                      Normalise(b.manifest.adapter.contract,
                                found[CHOOSE i \in DOMAIN found : found[i].locator = l].text)]
    <2> DEFINE found == Made(b.manifest.upstream)
               contract == b.manifest.adapter.contract
    <2>1. Records(contract, found) # None /\ b.fingerprints = Records(contract, found)
      BY <1>1 DEF Alone, Blessed
    <2> HIDE DEF found, contract
    <2>2. b.fingerprints =
             [l \in {found[i].locator : i \in DOMAIN found} |->
                 Normalise(contract,
                           found[CHOOSE i \in DOMAIN found : found[i].locator = l].text)]
      BY <2>1 DEF Records
    <2> QED
      BY <2>2 DEF found, contract, Made
  <1>2. Alone => BlessedBytesGiveBlessedText
    BY <1>1 DEF BlessedBytesGiveBlessedText
  <1> QED
    BY <1>2, AloneHolds, PTL

\* verify (acquire/pipeline.py) under --verify-only refetches (acquire/fetch.py): while
\* acquisitions take turns, it reports OK only of committed fingerprints that pages up
\* during the run, or the archive, make, however often the publisher changes them or
\* goes away during the run.
THEOREM VerdictIsOfUpstreamHolds ==
    ASSUME OneAtATime PROVE Spec => []VerdictIsOfUpstream
  <1>1. ASSUME Alone, NEW r \in Runs, run[r].mode = "verify", run[r].pc = "done",
               run[r].file = None
        PROVE  \E named \in {Pages} \cup {Index(s) : s \in (since[r] \cup {Archive}) \ {None}} :
               \E got \in [named -> Contents] :
                   /\ named # {}
                   /\ \/ got = Archive
                      \/ \A p \in named : \E s \in since[r] : s[p] = got[p]
                   /\ Extract(got) # None
                   /\ Normalised(Segments(Extract(got))) = run[r].committed
    <2> DEFINE pages == run[r].bytes.pages
    <2>1. /\ Sourced(run[r], document, segments, adapter.contract)
          /\ Evaluated(run[r], source, since[r])
      BY <1>1 DEF Alone, Lone
    <2>2. /\ Extract(pages) # None
          /\ Normalised(Segments(Extract(pages))) = run[r].committed
      BY <1>1, <2>1, NormalisedIs DEF Sourced, Evaluated, Made
    <2>3. Upstream(pages, since[r])
      BY <1>1, <2>1 DEF Evaluated
    <2> HIDE DEF pages
    <2> QED
      BY <2>2, <2>3 DEF Upstream, Witnessed
  <1>2. Alone => VerdictIsOfUpstream
    BY <1>1 DEF VerdictIsOfUpstream
  <1> QED
    BY <1>2, AloneHolds, PTL

\* bless_route refuses a corpus with a manifest and bless asks for a confirmation
\* the form cannot give when there are fingerprints (browse/server.py,
\* acquire/pipeline.py): while acquisitions take turns, a submission replaces neither.
THEOREM BrowserBlessesOnlyTheUnblessedHolds ==
    ASSUME OneAtATime PROVE Spec => BrowserBlessesOnlyTheUnblessed
  <1>1. Alone => [\A w \in Threads : /\ WriteManifest(w) => manifest = None
                                     /\ WriteFingerprints(w) => fingerprints = None]_vars
    BY DEF Alone, Lone, Unblessed, WriteManifest, WriteFingerprints, At, Threads
  <1> QED
    BY <1>1, AloneHolds, PTL DEF BrowserBlessesOnlyTheUnblessed
=============================================================================
