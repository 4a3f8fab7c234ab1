---------------------------- MODULE Segmentation ----------------------------
(***************************************************************************)
(* The segment half of the corpus adapters: a document of lines, to        *)
(* segments under their locators, or a refusal.  An adapter reads one line *)
(* after another, except calvin, which looks for the whole work's          *)
(* divisions first.                                                        *)
(***************************************************************************)
EXTENDS Extraction

CONSTANTS
    Expected,     \* what each adapter asserts of its edition
    Works,        \* sources as published: an adapter, and blocks of events
    DamagedBy     \* what a publisher may do to one block

\* A line of the book; a chapter's heading is known by its number.
BookText == {f \in Fragment : f.kind = "chapter" => f.n # <<>>}
BookLine == [do : {"line"}, line : Seq(BookText)]

ASSUME WorksAssumption == \A w \in Works : w.adapter \in Bco => w.blocks \in Seq(Seq(BookLine))

VARIABLES reader, segments

vars == <<extractVars, reader, segments>>

Reader == [open      |-> None,  \* the locator whose text is being read
           body      |-> <<>>,
           answered  |-> FALSE, \* its question has its answer
           next      |-> 1,     \* the section, paragraph or question to come
           chapter   |-> 0,     \* 0 before the first
           seen      |-> <<>>,  \* chapters, or books, in the order found
           used      |-> {},    \* chapters with a paragraph
           sections  |-> 0,
           divisions |-> 0, navigation |-> 0, unnumbered |-> 0,
           path      |-> <<0, 0, 0>>,   \* roman, letter and number of a heading, 0 for none
           ruling    |-> FALSE, \* among the recommendations
           rulings   |-> 0,
           blanks    |-> <<>>]

Number(line) == line[1].n[1]

Segment(locator, text) == [locator |-> locator, text |-> text]

\* The section being read ends: it becomes a segment.
Closed == IF reader.open = None THEN segments
          ELSE Append(segments, Segment(reader.open, reader.body))

Reading(adapters, kinds) ==
    /\ stage = "segment" /\ adapter \in adapters
    /\ document # <<>> /\ Kind(Head(document)) \in kinds

Line == Head(document)

RefuseLine == stage' = "refused"
              /\ UNCHANGED <<adapter, damage, source, parser, document, reader, segments>>

\* The line is taken, unless it is not what may come next.
Take(wrong, read, out) ==
    IF wrong THEN RefuseLine
    ELSE /\ reader' = read /\ segments' = out /\ document' = Tail(document)
         /\ UNCHANGED <<adapter, damage, source, stage, parser>>

More == [reader EXCEPT !.body = @ \o Line]

AtEnd(adapters, wrong) ==
    /\ stage = "segment" /\ adapter \in adapters /\ document = <<>>
    /\ IF wrong THEN RefuseLine
       ELSE /\ stage' = "done" /\ segments' = Closed
            /\ UNCHANGED <<adapter, damage, source, parser, document, reader>>

BlankLine == Reading(Opc \cup Epcew \cup Ga28 \cup Bco \cup Web, {"blank"})
             /\ Take(FALSE, reader, segments)

---------------------------------------------------------------------------
(* _catechism.py: questions with their answers.                            *)

Catechisms == {"wlc", "wsc"}
Unanswered == reader.open # None /\ ~reader.answered

\* Variant: a question follows whatever question came before it.
QuestionAnyNumber ==
    /\ Reading(Catechisms, {"question"})
    /\ Take(Unanswered,
            [reader EXCEPT !.open = <<Number(Line)>>, !.body = Line, !.answered = FALSE,
                           !.next = Number(Line) + 1], Closed)

Question ==
    /\ Reading(Catechisms, {"question"})
    /\ Take(Unanswered \/ Number(Line) # reader.next,
            [reader EXCEPT !.open = <<Number(Line)>>, !.body = Line, !.answered = FALSE,
                           !.next = Number(Line) + 1], Closed)

Answer ==
    /\ Reading(Catechisms, {"answer"})
    /\ Take(reader.open = None \/ reader.answered, [More EXCEPT !.answered = TRUE], segments)

\* All capitals, whatever it says.
IsDivision(line) == \A i \in DOMAIN line : line[i].kind = "division"

Division ==
    /\ Reading(Catechisms, {"division"}) /\ IsDivision(Line)
    /\ Take(Unanswered, [reader EXCEPT !.open = None, !.body = <<>>, !.answered = FALSE,
                                       !.divisions = @ + 1], Closed)

Continuation ==
    /\ stage = "segment" /\ adapter \in Catechisms /\ document # <<>>
    /\ Kind(Line) \notin {"blank", "question", "answer"} /\ ~IsDivision(Line)
    /\ Take(~reader.answered, More, segments)

EndOfCatechism ==
    AtEnd(Catechisms, \/ Unanswered
                      \/ reader.next - 1 # Expected[adapter].questions
                      \/ reader.divisions # Expected[adapter].divisions)

---------------------------------------------------------------------------
(* wcf_1788: sections within chapters.                                     *)

Chapter ==
    /\ Reading({"wcf_1788"}, {"chapter"})
    /\ Take(Number(Line) # reader.chapter + 1,
            [reader EXCEPT !.open = None, !.body = <<>>, !.chapter = Number(Line), !.next = 1],
            Closed)

\* Variant: the numbering may start again without a chapter.
SectionMayRestart ==
    /\ Reading({"wcf_1788"}, {"section"})
    /\ Take(reader.chapter = 0 \/ Number(Line) \notin {1, reader.next},
            [reader EXCEPT !.open = <<reader.chapter, Number(Line)>>, !.body = Line,
                           !.next = Number(Line) + 1], Closed)

Section ==
    /\ Reading({"wcf_1788"}, {"section"})
    /\ Take(reader.chapter = 0 \/ Number(Line) # reader.next,
            [reader EXCEPT !.open = <<reader.chapter, Number(Line)>>, !.body = Line,
                           !.next = Number(Line) + 1], Closed)

SectionText ==
    /\ stage = "segment" /\ adapter = "wcf_1788" /\ document # <<>>
    /\ Kind(Line) \notin {"blank", "chapter", "section"}
    /\ Take(reader.open = None, More, segments)

EndOfConfession == AtEnd({"wcf_1788"}, reader.chapter # Expected["wcf_1788"].chapters)

---------------------------------------------------------------------------
(* wcf_1646: the same, numbered in Roman, with a page's links between.     *)

\* Variant: every letter counts for itself.
ArabicAdditive(numeral) == FoldSet(LAMBDA i, sum : numeral[i] + sum, 0, DOMAIN numeral)

\* A letter counts against those to its right that are worth more.
Arabic(numeral) ==
    LET before == {i \in DOMAIN numeral : \E j \in DOMAIN numeral : j > i /\ numeral[j] > numeral[i]}
        worth(S) == FoldSet(LAMBDA i, sum : numeral[i] + sum, 0, S)
    IN worth(DOMAIN numeral \ before) - worth(before)

Numeral(line) == Arabic(line[1].n)

Navigation ==
    /\ Reading(Epcew, {"navigation"})
    /\ Take(FALSE, [reader EXCEPT !.navigation = @ + 1], segments)

\* One chapter is known to tell the editions apart by its sections.
MiscountedChapter == /\ reader.chapter = Expected["wcf_1646"].telling
                     /\ reader.sections # Expected["wcf_1646"].sections

PageChapter ==
    /\ Reading(Epcew, {"chapter"})
    /\ Take(MiscountedChapter \/ Numeral(Line) # reader.chapter + 1,
            [reader EXCEPT !.open = None, !.body = <<>>, !.chapter = Numeral(Line), !.next = 1,
                           !.sections = 0], Closed)

PageSection ==
    /\ Reading(Epcew, {"section"})
    /\ Take(reader.chapter = 0 \/ Numeral(Line) # reader.next,
            [reader EXCEPT !.open = <<reader.chapter, Numeral(Line)>>, !.body = Line,
                           !.next = Numeral(Line) + 1, !.sections = Numeral(Line)], Closed)

\* Text under a chapter that numbers no section is the chapter's one section.
PageText ==
    /\ stage = "segment" /\ adapter \in Epcew /\ document # <<>>
    /\ Kind(Line) \notin {"blank", "navigation", "chapter", "section"}
    /\ IF reader.open = None /\ reader.chapter > 0 /\ reader.next = 1
       THEN Take(FALSE, [reader EXCEPT !.open = <<reader.chapter, 1>>, !.body = Line, !.next = 2,
                                       !.sections = 1, !.unnumbered = @ + 1], segments)
       ELSE Take(reader.open = None, More, segments)

EndOfPages ==
    AtEnd(Epcew, \/ MiscountedChapter
                 \/ reader.chapter # Expected["wcf_1646"].chapters
                 \/ reader.unnumbered # Expected["wcf_1646"].unnumbered
                 \/ reader.navigation # reader.chapter * Expected["wcf_1646"].navigation)

---------------------------------------------------------------------------
(* ga28: paragraphs under the path of their headings.                      *)

\* A bold paragraph past any heading's length is text.
IsHeading(line) == /\ line[1] = HeadingPrefix
                   /\ ~\E i \in DOMAIN line : line[i].kind = "long"

ReportHeading ==
    /\ Reading(Ga28, {"#"}) /\ IsHeading(Line)
    /\ LET head == Tail(Line)
           n    == Number(head)
           to(path) == [reader EXCEPT !.ruling = FALSE, !.path = path, !.sections = 0]
           roman == reader.path[1]
       IN \/ /\ Kind(head) = "recommendations"
             /\ Take(FALSE, [reader EXCEPT !.ruling = TRUE, !.sections = 0], segments)
          \/ Kind(head) = "roman" /\ Take(FALSE, to(<<n, 0, 0>>), segments)
          \/ Kind(head) = "letter" /\ roman # 0 /\ Take(FALSE, to(<<roman, n, 0>>), segments)
          \/ /\ Kind(head) = "number" /\ roman # 0
             /\ Take(FALSE, to([reader.path EXCEPT ![3] = n]), segments)
          \/ /\ Kind(head) \notin {"recommendations", "roman"}
             /\ Kind(head) \in {"letter", "number"} => roman = 0
             /\ Take(FALSE, [reader EXCEPT !.ruling = FALSE, !.unnumbered = @ + 1], segments)

\* What is not numbered among the recommendations introduces them.
ReportParagraph ==
    /\ stage = "segment" /\ adapter \in Ga28 /\ document # <<>>
    /\ Line # <<>> /\ ~IsHeading(Line)
    /\ LET text == IF Line[1] = HeadingPrefix THEN Tail(Line) ELSE Line
           read == [reader EXCEPT !.sections = @ + 1]
       IN \/ reader.ruling /\ Kind(text) # "number" /\ Take(FALSE, reader, segments)
          \/ reader.ruling /\ Kind(text) = "number"
             /\ LET k == reader.rulings + 1
                IN Take(Number(text) # k, [reader EXCEPT !.rulings = k],
                        Append(segments, Segment(<<k>>, text)))
          \/ ~reader.ruling
             /\ Take(reader.path[1] = 0, read,
                     Append(segments, Segment(Append(reader.path, read.sections), text)))

EndOfReport == AtEnd(Ga28, reader.rulings # Expected["ga28"].recommendations)

---------------------------------------------------------------------------
(* bco: paragraphs that carry their chapter's number and their own.        *)

BookChapter ==
    /\ Reading(Bco, {"chapter"})
    /\ Take(FALSE, [reader EXCEPT !.open = None, !.body = <<>>, !.chapter = Number(Line),
                                  !.seen = Append(@, Number(Line)), !.next = 1], Closed)

Paragraph ==
    /\ Reading(Bco, {"paragraph"})
    /\ LET in == Number(Line)
           found == IF Line[1].kind = "half" THEN Line[2].n[1] ELSE Line[1].n[2]
       IN Take(reader.chapter = 0 \/ in # reader.chapter \/ found # reader.next,
               [reader EXCEPT !.open = <<in, found>>, !.body = Line, !.next = found + 1,
                              !.used = @ \cup {in}], Closed)

\* Under a chapter's heading and above its first paragraph is its title.
ParagraphText ==
    /\ stage = "segment" /\ adapter \in Bco /\ document # <<>>
    /\ Kind(Line) \notin {"blank", "chapter", "paragraph"}
    /\ Take(FALSE, IF reader.open = None THEN reader ELSE More, segments)

EndOfBook ==
    LET seen == reader.seen IN
    AtEnd(Bco, \/ \E i, j \in DOMAIN seen : i < j /\ seen[i] >= seen[j]
               \/ seen # <<>> /\ Last(seen) # Expected["bco"].chapters
               \/ SelectSeq(seen, LAMBDA c : c \notin reader.used) # Expected["bco"].vacated)

---------------------------------------------------------------------------
(* web: verses, of which a few are known to be blank.                      *)

Verse ==
    /\ stage = "segment" /\ adapter \in Web /\ document # <<>> /\ Line # <<>>
    /\ LET in   == Number(Line)
           seen == reader.seen
           goes == seen # <<>> /\ Last(seen) = in     \* on in the same book
       IN Take(\/ Kind(Line) \notin {"verse", "blankverse"}
               \/ in \notin ToSet(Expected["web"].books)
               \/ ~goes /\ in \in ToSet(seen),
               [reader EXCEPT !.seen = IF goes THEN @ ELSE Append(@, in),
                              !.blanks = IF Kind(Line) = "verse" THEN @ ELSE Append(@, Line[1].n)],
               IF Kind(Line) = "verse" THEN Append(segments, Segment(Line[1].n, Line)) ELSE segments)

EndOfBible == AtEnd(Web, \/ reader.seen # Expected["web"].books
                         \/ reader.blanks # Expected["web"].blanks)

---------------------------------------------------------------------------
(* calvin: paragraphs of sections of chapters of books.  An operator gives *)
(* segments, or None for a refusal.                                        *)

Joined(parts) == IF \E i \in DOMAIN parts : parts[i] = None THEN None ELSE FlattenSeq(parts)

\* The lines of each part that opens at one of these places.
Parts(lines, starts) ==
    [k \in DOMAIN starts |->
        SubSeq(lines, starts[k], IF k = Len(starts) THEN Len(lines) ELSE starts[k + 1] - 1)]

Openings(lines, kind) ==
    SelectSeq([i \in DOMAIN lines |-> i], LAMBDA i : Kind(lines[i]) = kind)

\* The greedy run 1, 2, 3, ...
Ascending(lines, openings) ==
    FoldLeft(LAMBDA run, i : IF Number(lines[i]) = Len(run) + 1 THEN Append(run, i) ELSE run,
             <<>>, openings)

\* A chapter's synopsis numbers its sections as its body does.  If the two runs
\* do not agree there is no synopsis.
Body(lines) ==
    LET openings == Openings(lines, "section")
        first  == Ascending(lines, openings)
        second == Ascending(lines, SelectSeq(openings, LAMBDA i : first = <<>> \/ i > Last(first)))
    IN IF first # <<>> /\ Len(second) = Len(first) THEN second ELSE first

Paragraphs(lines) ==
    LET text == SelectSeq(lines, LAMBDA line : Kind(line) # "argument")
        join(found, i) ==
            IF text[i] = <<>> THEN found
            ELSE IF i = 1 \/ text[i - 1] = <<>> THEN Append(found, text[i])
            ELSE Append(Front(found), Last(found) \o text[i])
    IN FoldLeft(join, <<>>, [i \in DOMAIN text |-> i])

\* A section opens with its number and a word of text, so it has a paragraph.
Sections(lines, path, expected) ==
    LET body == Body(lines)
        part(k) == Paragraphs(Parts(lines, body)[k])
    IN IF \/ body = <<>> \/ expected \notin {None, Len(body)}
          \/ \E k \in DOMAIN body : \E p \in ToSet(part(k)) : \E i \in DOMAIN p : p[i].kind = "long"
       THEN None
       ELSE FlattenSeq([k \in DOMAIN body |->
                [p \in DOMAIN part(k) |-> Segment(path \o <<k, p>>, part(k)[p])]])

\* A chapter's number may be missing: an anchor swallowed it.
Chapters(lines, book) ==
    LET starts == Openings(lines, "chapter") IN
    IF \/ Len(starts) # Expected["calvin"].chapters[book]
       \/ \E k \in DOMAIN starts : lines[starts[k]][1].n \notin {<<>>, <<k>>}
    THEN None
    ELSE Joined([k \in DOMAIN starts |-> Sections(Parts(lines, starts)[k], <<book, k>>, None)])

Books(lines) ==
    LET starts == Openings(lines, "book") IN
    IF \/ Len(starts) # Len(Expected["calvin"].chapters)
       \/ \E k \in DOMAIN starts : Number(lines[starts[k]]) # k
    THEN None
    ELSE Joined([k \in DOMAIN starts |-> Chapters(Parts(lines, starts)[k], k)])

Institutes ==
    /\ stage = "segment" /\ adapter \in Calvin
    /\ LET split == Find(document, "institutes", 1)
           found == Joined(<<Sections(SubSeq(document, 1, split - 1), <<0, 0>>,
                                      Expected["calvin"].prefatory),
                             Books(SubSeq(document, split + 1, Len(document)))>>)
       IN IF found = None THEN RefuseLine
          ELSE /\ stage' = "done" /\ segments' = found
               /\ UNCHANGED <<adapter, damage, source, parser, document, reader>>

---------------------------------------------------------------------------
(* What a publisher may have done, and the whole adapter.                  *)

Fragments(event) ==
    CASE event.do = "text" -> <<event.text>> [] event.do = "line" -> event.line [] OTHER -> <<>>

FragmentsOf(events) == FlattenSeq([i \in DOMAIN events |-> Fragments(events[i])])

Marked(event) == event.do = "open" /\ event.mark # "none"
Unmarked(block) == [i \in DOMAIN block |-> IF Marked(block[i]) THEN [block[i] EXCEPT !.mark = "none"]
                                           ELSE block[i]]

Swapped(blocks, i) == [blocks EXCEPT ![i] = blocks[i + 1], ![i + 1] = blocks[i]]

\* What is there to fetch, if block `at' was damaged so.
Published(blocks, how, at) ==
    CASE how = "lost"     -> RemoveAt(blocks, at)
      [] how = "twice"    -> InsertAt(blocks, at, blocks[at])
      [] how = "swapped"  -> Swapped(blocks, at)
      [] how = "renamed"  -> [blocks EXCEPT ![at] = Unmarked(@)]
      [] how = "unclosed" -> [blocks EXCEPT ![at] = Front(@)]
      [] OTHER            -> blocks

MayBe(blocks, how, at) ==
    /\ how = "swapped" => at < Len(blocks)
    /\ how = "renamed" => \E i \in DOMAIN blocks[at] : Marked(blocks[at][i])
    /\ how = "unclosed" => LET last == Last(blocks[at])
                           IN last.do = "close" /\ last.tag \in {"p", "table", "h3"}
    /\ how \in {"lost", "twice", "swapped"} => FragmentsOf(blocks[at]) # <<>>
    /\ how \in {"none", "bytes"} => at = 1

Init ==
    /\ \E work \in Works : \E how \in DamagedBy, at \in DOMAIN work.blocks :
           /\ MayBe(work.blocks, how, at)
           /\ adapter = work.adapter
           /\ damage = [how |-> how, at |-> at, work |-> work]
           /\ source = FlattenSeq(Published(work.blocks, how, at))
    /\ stage = "decode" /\ parser = Parser /\ document = <<>>
    /\ reader = Reader /\ segments = <<>>

SegmentLines ==
    \/ BlankLine
    \/ Question \/ Answer \/ Division \/ Continuation \/ EndOfCatechism
    \/ Chapter \/ Section \/ SectionText \/ EndOfConfession
    \/ Navigation \/ PageChapter \/ PageSection \/ PageText \/ EndOfPages
    \/ ReportHeading \/ ReportParagraph \/ EndOfReport
    \/ BookChapter \/ Paragraph \/ ParagraphText \/ EndOfBook
    \/ Verse \/ EndOfBible
    \/ Institutes

Next ==
    \/ Extract /\ UNCHANGED <<reader, segments>>
    \/ SegmentLines

Spec == Init /\ [][Next]_vars
---------------------------------------------------------------------------
(* Properties.                                                             *)

\* The text of the work that was there to fetch.
Served == SelectSeq(FragmentsOf(FlattenSeq(Published(damage.work.blocks, damage.how, damage.at))),
                    LAMBDA f : f.at # None)

Damaged == FragmentsOf(damage.work.blocks[damage.at])

Kept == FlattenSeq([i \in DOMAIN segments |-> segments[i].text])

TypeOK ==
    /\ adapter \in {w.adapter : w \in Works} /\ damage.how \in DamagedBy
    /\ stage \in {"decode", "extract", "segment", "done", "refused"}
    /\ \A i \in DOMAIN document : document[i] \in Seq(Fragment)
    /\ \A i \in DOMAIN parser.lines : parser.lines[i] \in Seq(Fragment)
    /\ parser.buffer \in Seq(Fragment) /\ parser.bold \in Seq(Fragment)
    /\ parser.depth \in Nat /\ parser.dropped \in Nat /\ (Dropping <=> parser.dropped > 0)
    /\ \A i \in DOMAIN segments : segments[i] \in [locator : Seq(Nat), text : Seq(Fragment)]
    /\ reader.open \in Seq(Nat) \cup {None} /\ reader.body \in Seq(Fragment)
    /\ reader.answered => reader.open # None

Openers == {"question", "section", "paragraph", "half"}
Numbered == Catechisms \cup Epcew \cup Bco \cup {"wcf_1788"}

InChapter(locator) == IF Len(locator) = 1 THEN 0 ELSE locator[1]
NumberIn(locator) == Last(locator)

Precedes(first, second) ==
    \/ InChapter(first) < InChapter(second)
    \/ InChapter(first) = InChapter(second) /\ NumberIn(first) < NumberIn(second)

\* In an edition that is accepted every address was given once, in ascending
\* order, and a number past the first of its chapter came right after the one
\* before it: normalisation refuses a locator "segmented twice", and a number
\* that is passed over is text that was dropped.
NumberedThrough ==
    stage = "done" /\ adapter \in Numbered => \A j \in DOMAIN segments :
        LET at == segments[j].locator IN
        /\ \A i \in 1..(j - 1) : Precedes(segments[i].locator, at)
        /\ NumberIn(at) # 1 =>
              /\ j > 1
              /\ InChapter(segments[j - 1].locator) = InChapter(at)
              /\ NumberIn(segments[j - 1].locator) = NumberIn(at) - 1

\* What an adapter does not see: a chapter whose heading is lost after a divider
\* goes with the divider, and a divider page's text stays when its first line
\* goes; a chapter of the Institutes whose synopsis and body no
\* longer agree is taken from its synopsis on; and only wcf_1646 looks for
\* footnote marks that are no longer marked as such.
Unseen == \/ adapter \in Bco /\ damage.how = "lost" /\ Kind(Damaged) \in {"chapter", "divider"}
          \/ adapter \in Calvin /\ damage.how \in {"lost", "twice"}
          \/ adapter \in Ga28 /\ damage.how = "renamed"

\* Nothing that was served is missing or there twice, and nothing else is there.
EveryPieceOnce ==
    stage = "done" /\ damage.how # "swapped" /\ ~Unseen =>
        \A f \in ToSet(Served) \cup ToSet(Kept) :
            Cardinality({i \in DOMAIN Kept : Kept[i] = f}) =
            Cardinality({i \in DOMAIN Served : Served[i] = f})

\* A table's columns are not interleaved, and paragraphs are joined as served.
InReadingOrder ==
    stage = "done" /\ damage.how \notin {"twice", "swapped"} => \A k \in DOMAIN segments :
        LET text == SelectSeq(segments[k].text, LAMBDA f : f.kind = "text")
        IN \A i, j \in DOMAIN text : i < j => text[i].n[1] <= text[j].n[1]

\* A section that opens with its number is found under the address it has in the
\* work, whatever block was lost, repeated or moved: never under the chapter
\* before because a heading went missing.
OpenersAreAddressed ==
    stage = "done" /\ adapter \in Numbered => \A i \in DOMAIN segments :
        LET first == segments[i].text[1]
        IN first.kind \in Openers => first.at = segments[i].locator

\* An adapter that is satisfied has put every piece of the work's text that was
\* served into a segment, as often as it was served, in reading order, and nothing
\* else: no heading, link, footnote, running head or appendix.  The segment has the
\* address of the section it opens with.
TextAndNothingElse == EveryPieceOnce /\ InReadingOrder /\ OpenersAreAddressed

\* The lines an adapter's own assertions count or number.
Asserted == [wlc |-> {"question", "answer", "division"}, wsc |-> {"question", "answer"},
             wcf_1788 |-> {"chapter"}, wcf_1646 |-> {"chapter", "navigation"},
             bco |-> {"start"}, web |-> {"blankverse"}, ga28 |-> {},
             calvin |-> ToSet(AfterAddress) \cup {"prefatory", "index", "start", "book", "chapter"}]

\* A lost line is noticed if it is one an adapter counts, or opens a section and
\* another of its chapter follows.  The last section of a chapter is not missed,
\* nor a verse, whose numbering is not asserted contiguous.
LossIsNoticed ==
    stage = "done" /\ damage.how = "lost" => \A i \in DOMAIN Damaged :
        LET f == Damaged[i] IN
        /\ f.kind \notin Asserted[adapter]
        /\ adapter \in Ga28 /\ f.kind = "number" => f.at = None
        /\ adapter \in Numbered /\ f.kind \in Openers /\ f.at # None =>
              \A g \in ToSet(Served) : g.at[1] = f.at[1] => g.at[2] < f.at[2]

\* The edition an adapter is written for is accepted, whether or not its
\* publisher closes the paragraphs, tables and headings it opens.
EditionIsAccepted == stage = "refused" => damage.how \notin {"none", "unclosed"}

\* A heading of the report is a paragraph that is entirely bold.
InBold(f) ==
    LET events == FlattenSeq(damage.work.blocks)
        before(i, do) == Cardinality({j \in 1..i : events[j].do = do /\ events[j].tag = "b"})
    IN \E i \in DOMAIN events : /\ events[i].do = "text" /\ events[i].text = f
                                /\ before(i - 1, "open") > before(i - 1, "close")

HeadingsAreEntirelyBold ==
    \A i \in DOMAIN document :
        Kind(document[i]) = "#" => \A f \in ToSet(Tail(document[i])) : InBold(f)
=============================================================================
