------------------------------- MODULE Browse -------------------------------
(***************************************************************************)
(* Reading an acquired corpus in a browser and blessing it from the page:  *)
(* browse/staged.py, browse/server.py and browse/verify.py over Acquire,   *)
(* whose steps a submission takes on a thread of its own.  The reader has  *)
(* one page open, and may submit its form again while a submission runs.   *)
(*                                                                         *)
(* A page is loaded in one step.  staged.load reads five files, but what   *)
(* a page carries on to a submission is one hash, and a form; with a form  *)
(* offered, the files read before the fingerprints are as at some earlier  *)
(* load that offered it too, since nothing removes fingerprints.           *)
(***************************************************************************)
EXTENDS Acquire

CONSTANT ServeLocalOnly   \* BEREAN_SERVE_LOCAL_ONLY

ASSUME ServeLocalOnlyAssumption == ServeLocalOnly \in BOOLEAN

Threads == Runs \ Terminals

VARIABLE page   \* what the reader has in front of them

vars == <<acquireVars, page>>

Status == {"blessed", "drifted", "unblessed"}

NoPage == [form |-> None, status |-> "none", shown |-> None, current |-> FALSE]

---------------------------------------------------------------------------
(* GET /c/<corpus>.                                                        *)

\* text_withheld_reason: what verification check 4 says of the same licence.
Withheld(license) ==
    \/ license = "refused"
    \/ license = "local-only" /\ ~ServeLocalOnly

\* A committed file that cannot be read counts as absent, and is reported.
Readable(file) == IF file = Unreadable THEN None ELSE file
OverlayError == manifest = Unreadable \/ fingerprints = Unreadable

StatusOf(committed, records) ==
    IF committed = None THEN "unblessed"
    ELSE IF Clean(Diff(committed, records)) THEN "blessed" ELSE "drifted"

\* verify.offer: the passage to read and put a name to.
Offer(records) ==
    IF OverlayError \/ adapter.diagnostic \notin DOMAIN records THEN None
    ELSE records[adapter.diagnostic]

\* route: an error page without work.json, and no text at all when withheld.
CorpusPage ==
    IF stage.work = None THEN NoPage
    ELSE LET status == StatusOf(Readable(fingerprints), stage.records)
             hidden == Withheld(stage.work.license)
         IN [form    |-> IF hidden \/ status # "unblessed" THEN None ELSE Offer(stage.records),
             status  |-> status,
             shown   |-> IF hidden THEN None ELSE stage.records,
             current |-> TRUE]

LoadPage ==
    /\ page' = CorpusPage /\ page' # page
    /\ UNCHANGED acquireVars

---------------------------------------------------------------------------
(* POST /bless/<corpus>.                                                   *)

\* Variant: the manifest is not looked for again when the form comes back.
MayBlessAnyway(named) ==
    /\ page.current /\ stage.work # None /\ ~Withheld(stage.work.license) /\ named

\* Everything bless_route and verify.apply ask before the network.  A page kept
\* over a restart of the server carries an old token.
MayBless(named) ==
    /\ page.current /\ stage.work # None /\ ~Withheld(stage.work.license) /\ named
    /\ manifest = None

Submit(w, named) ==
    /\ w \in Threads /\ At(w, "idle") /\ Free /\ page.form # None
    /\ Become(w, [Idle EXCEPT !.mode = "browser", !.read = page.form,
                              !.pc = IF MayBless(named) THEN "fetch" ELSE "refused"])
    /\ UNCHANGED <<upstream, blobs, working, stage, evidence, bounds, since, approved, page>>

\* Variant: the form need not name what was read.
MovedNever(w) == FALSE

\* The passage is no longer the one that was read.
Moved(w) == run[w].records[adapter.diagnostic] # run[w].read

\* Variant: a refusal leaves stage/ as it was.
RefuseMovedOnly(w) == Refuse(w)

\* What is upstream now is staged, so that it can be read.
RefuseMoved(w) == Goto(w, "records")

\* Committed fingerprints make bless ask for a confirmation, and the form only
\* answers with the name.
Compare(w) ==
    /\ Acquired(w, "browser") /\ UNCHANGED page
    /\ IF HasDiagnostic(w) /\ ~Moved(w) /\ fingerprints = None THEN Bless(w, run[w].read)
       ELSE /\ UNCHANGED approved
            /\ IF HasDiagnostic(w) /\ Moved(w) THEN RefuseMoved(w) ELSE Refuse(w)

\* A refusal renders the page again; a blessing redirects to it.
Respond(w) ==
    /\ w \in Threads /\ run[w].pc \in {"done", "refused"}
    /\ page' = CorpusPage
    /\ Become(w, Idle)
    /\ UNCHANGED <<upstream, blobs, working, stage, evidence, bounds, since, approved>>

\* The server is stopped, with every submission it was handling.  Its next run
\* issues another token.
Stop ==
    /\ Befalls
    /\ run' = [r \in Runs |-> IF r \in Threads THEN Idle ELSE run[r]]
    /\ page' = [page EXCEPT !.current = FALSE]
    /\ UNCHANGED <<upstream, blobs, working, stage, evidence, typed, since, approved>>

\* Another version of the code is deployed, with nothing running.
Upgrade ==
    /\ Befalls /\ \A r \in Runs : At(r, "idle")
    /\ adapter' \in Adapters \ {adapter}
    /\ page' = [page EXCEPT !.current = FALSE]
    /\ UNCHANGED <<source, up, follow, blobs, working, stage, evidence, run, typed, since,
                   approved>>

Handle(w) == Compare(w) \/ Respond(w)

Next ==
    \/ AcquireNext /\ UNCHANGED page
    \/ LoadPage \/ Stop \/ Upgrade
    \/ \E w \in Threads : Handle(w) \/ \E named \in BOOLEAN : Submit(w, named)

Init == Init0 /\ page = NoPage

Spec == Init /\ [][Next]_vars

\* A run goes on once begun, an outage ends, and the reader reloads and, with a
\* form in front of them, types their name again and again.
FairSpec ==
    /\ Spec /\ WF_vars(Recover /\ UNCHANGED page) /\ WF_vars(LoadPage)
    /\ \A r \in Runs : WF_vars(Proceed(r) /\ UNCHANGED page)
    /\ \A w \in Threads : WF_vars(Handle(w)) /\ SF_vars(Submit(w, TRUE))

---------------------------------------------------------------------------
(* Properties.                                                             *)

RunState == [pc : {"idle", "fetch", "pages", "extract", "segment", "normalise", "acquired",
                   "manifest", "fingerprints", "records", "work", "done", "refused"},
             mode : Modes \cup {"none"}, file : LocalCopies \cup {None},
             manifest : Manifest \cup {None, Unreadable},
             committed : Fingerprints \cup {None, Unreadable}, read : Texts \cup {None},
             left : SUBSET Pages, bytes : Blob \cup {None}, records : Fingerprints \cup {None}]

TypeOK ==
    /\ source \in Sites /\ up \in BOOLEAN /\ follow \in BOOLEAN /\ adapter \in Adapters
    /\ cache \subseteq Blob /\ damaged \subseteq cache
    /\ document \in Documents \cup {None} /\ segments \in Seq(Segment)
    /\ stage \in [records : Fingerprints \cup {None}, work : Facts \cup {None}]
    /\ stage.work # None => stage.records # None
    /\ manifest \in Manifest \cup {None, Unreadable}
    /\ fingerprints \in Fingerprints \cup {None, Unreadable}
    /\ run \in [Runs -> RunState]
    /\ events \in 0..MaxEvents /\ typed \in 0..MaxTerminalRuns
    /\ since \in [Runs -> SUBSET Sites]
    /\ approved \subseteq [read : Texts, manifest : Manifest, fingerprints : Fingerprints]
    /\ page \in [form : Texts \cup {None}, status : Status \cup {"none"},
                 shown : Fingerprints \cup {None}, current : BOOLEAN]

\* A committed manifest records the passage that was in front of the person
\* whose name it carries, although a submission fetches the corpus again.
WhatWasReadIsBlessed ==
    manifest \notin {None, Unreadable} =>
        \E b \in approved : b.manifest = manifest /\ b.read = manifest.expected

\* What the evidence says the corpus is, is what the upstream bytes it names
\* make: no blessing mixes the bytes of one acquisition with the text of another.
BlessedBytesGiveBlessedText ==
    \A b \in approved :
        LET m == b.manifest
            found == Segments(Extract(m.upstream.pages))
        IN b.fingerprints = [l \in {found[i].locator : i \in DOMAIN found} |->
                Normalise(m.adapter.contract,
                          found[CHOOSE i \in DOMAIN found : found[i].locator = l].text)]

\* Whatever is reported verified, on a page or by a command, a human approved:
\* every section of it, and no other.
WhatPassesWasApproved ==
    /\ page.status = "blessed" /\ page.shown # None =>
           \E b \in approved : b.fingerprints = page.shown
    /\ \A r \in Runs :
           /\ run[r].mode \in {"provision", "verify"} /\ run[r].manifest # None
           /\ run[r].pc \in {"records", "work", "done"}
           => /\ \E b \in approved : b.fingerprints = run[r].records
              /\ \E b \in approved : /\ b.manifest = run[r].manifest
                                     /\ b.read = run[r].records[adapter.diagnostic]

\* --verify-only reports OK only if pages upstream had up while it ran, or the
\* archive, make the committed fingerprints: a success that evaluated nothing
\* is what it is there to rule out.
VerdictIsOfUpstream ==
    \A r \in Runs :
        run[r].mode = "verify" /\ run[r].pc = "done" /\ run[r].file = None =>
            \E named \in {Pages} \cup {Index(s) : s \in (since[r] \cup {Archive}) \ {None}} :
            \E got \in [named -> Contents] :
                /\ named # {}
                /\ \/ got = Archive
                   \/ \A p \in named : \E s \in since[r] : s[p] = got[p]
                /\ Extract(got) # None
                /\ Normalised(Segments(Extract(got))) = run[r].committed

\* The browser blesses only what nobody has blessed: it replaces neither a
\* manifest nor fingerprints.  Re-blessing is a terminal's.
BrowserBlessesOnlyTheUnblessed ==
    [][\A w \in Threads : /\ WriteManifest(w) => manifest = None
                          /\ WriteFingerprints(w) => fingerprints = None]_vars

\* A refusal is not permanent: a reader who keeps reading what the page shows
\* and putting a name to it is not refused for ever because the text moved.
\* The corpus is blessed, or no form is offered any more, or upstream has
\* nothing the adapter can bless.
Blessable ==
    /\ adapter.complete
    /\ \E records \in {IF Extract(source) = None THEN None
                       ELSE Normalised(Segments(Extract(source)))} :
           records # None /\ adapter.diagnostic \in DOMAIN records

RefusalIsNotPermanent ==
    page.form # None ~> manifest # None \/ ~Blessable \/ CorpusPage.form = None
=============================================================================
