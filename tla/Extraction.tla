----------------------------- MODULE Extraction -----------------------------
(***************************************************************************)
(* The extract half of the corpus adapters, acquire/corpora/: what a       *)
(* publisher serves, to a document of lines.                               *)
(*                                                                         *)
(* A source is a sequence of events: the tags and text html.parser calls   *)
(* its handlers with, or lines.  Text is fragments, each with the kind of  *)
(* thing it begins (what a pattern anchored at ^ would see), the number    *)
(* it carries, and `at': the address it has in the work, None for what is  *)
(* not the work's text.  No adapter reads `at'; the properties do.         *)
(***************************************************************************)
EXTENDS Naturals, SequencesExt

CONSTANTS None, AfterAddress   \* calvin: the headings of _AFTER_ADDRESS, in order

ASSUME NoneAssumption == None \notin Seq(Nat)

Fragment == [kind : STRING, n : Seq(Nat), at : Seq(Nat) \cup {None}]

Opc == {"wcf_1788", "wlc", "wsc"}    \* one publisher, one page shape
Epcew == {"wcf_1646"}
Ga28 == {"ga28"}
Bco == {"bco"}
Calvin == {"calvin"}
Web == {"web"}

VARIABLES
    adapter,   \* the corpus being acquired
    damage,    \* what its publisher changed
    source,    \* what is left to parse
    stage,     \* "decode", "extract", "segment", "done" or "refused"
    parser,    \* the extractor
    document   \* lines, each a sequence of fragments; blank if empty

extractVars == <<adapter, damage, source, stage, parser, document>>

Parser == [lines    |-> <<>>, buffer |-> <<>>,
           depth    |-> 0,     \* divs open from the container's inwards
           finished |-> FALSE, \* the container has closed, or the appendices begun
           dropping |-> None,  \* the tag of the subtree being dropped
           dropped  |-> 0,     \* how many of it are open
           heading  |-> FALSE,
           table    |-> None,  \* the rows held, each a sequence of cells
           bold     |-> <<>>,  \* the part of buffer read inside <b>
           bolds    |-> 0,
           note     |-> FALSE, \* inside a footnote's body
           clash    |-> FALSE, \* a paragraph that looks like a marked heading
           started  |-> FALSE, dividing |-> FALSE]

Kind(line) == IF line = <<>> THEN "blank"
              ELSE IF Len(line) > 1 /\ line[1].kind = "half" /\ line[2].kind = "tail"
              THEN "paragraph" ELSE line[1].kind

Refuse == stage' = "refused" /\ UNCHANGED <<adapter, damage, source, parser, document>>

\* The bytes, as text.  Only ga28 has a second encoding to try; a zip or a PDF
\* that cannot be read is refused like text that cannot.
Decode ==
    /\ stage = "decode"
    /\ IF damage.how = "bytes" /\ adapter \notin Ga28 THEN Refuse
       ELSE stage' = "extract" /\ UNCHANGED <<adapter, damage, source, parser, document>>

\* The next event is one of these, for an adapter of these.
On(adapters, do) ==
    /\ stage = "extract" /\ adapter \in adapters
    /\ source # <<>> /\ Head(source).do = do

Read(p) ==
    /\ parser' = p /\ source' = Tail(source)
    /\ stage' = IF p.clash THEN "refused" ELSE stage
    /\ UNCHANGED <<adapter, damage, document>>

Tag == Head(source).tag
Mark == Head(source).mark

Dropping == parser.dropping # None

\* A subtree is dropped until as many of its tag have closed as have opened.
OpenDropped(p) == [p EXCEPT !.dropped = IF Tag = p.dropping THEN @ + 1 ELSE @]
\* Variant: the first tag of a dropped subtree is not counted.
DropUncounted(p) == [p EXCEPT !.dropping = Tag]

Drop(p) == [p EXCEPT !.dropping = Tag, !.dropped = 1]
CloseDropped(p) ==
    LET left == IF Tag = p.dropping THEN p.dropped - 1 ELSE p.dropped
    IN [p EXCEPT !.dropped = left, !.dropping = IF left = 0 THEN None ELSE @]

---------------------------------------------------------------------------
(* _opc.py: the block of text on an OPC page.                              *)

DroppedTags == {"ol", "ul", "h1", "h2", "sup", "script", "style", "noscript"}
BlockTags == {"p", "div", "li", "center", "blockquote", "br", "h3", "h4", "tr", "td", "th"}

\* The pending run of text becomes a line, or a cell of the row that is open.
Flush(p) ==
    LET line == p.buffer
        in   == [p EXCEPT !.buffer = <<>>]
    IN IF line = <<>> THEN in
       ELSE IF p.table \notin {None, <<>>}
       THEN [in EXCEPT !.table = Append(Front(@), Append(Last(@), line))]
       ELSE [in EXCEPT !.lines = Append(@, line)]

\* Variant: a table is read across its rows.
EmitTableByRow(p) ==
    IF p.table = None THEN p
    ELSE [p EXCEPT !.table = None, !.lines = @ \o FlattenSeq(p.table)]

\* A held table is read down its columns.
EmitTable(p) ==
    IF p.table = None THEN p
    ELSE LET column(c) == LET long == SelectSeq(p.table, LAMBDA row : Len(row) >= c)
                          IN [i \in DOMAIN long |-> long[i][c]]
             width == Max({0} \cup {Len(p.table[i]) : i \in DOMAIN p.table})
         IN [p EXCEPT !.table = None, !.lines = @ \o FlattenSeq([c \in 1..width |-> column(c)])]

Inside == parser.depth > 0 /\ ~parser.finished

OpcOpen ==
    /\ On(Opc, "open")
    /\ LET in == [parser EXCEPT !.depth = IF Tag = "div" THEN @ + 1 ELSE @] IN
       \/ ~Inside /\ (parser.finished \/ Mark # "container") /\ Read(parser)
       \/ ~Inside /\ ~parser.finished /\ Mark = "container"
          /\ Read([parser EXCEPT !.depth = 1])
       \/ Inside /\ Dropping /\ Read(OpenDropped(in))
       \/ Inside /\ ~Dropping /\ Tag \in DroppedTags /\ Read(Drop(in))
       \/ /\ Inside /\ ~Dropping /\ Tag \notin DroppedTags
          /\ \/ Tag = "table" /\ Read([Flush(in) EXCEPT !.table = <<>>])
             \/ Tag = "tr" /\ parser.table # None
                /\ Read([Flush(in) EXCEPT !.table = Append(@, <<>>)])
             \/ Tag = "h3" /\ Read([Flush(in) EXCEPT !.heading = TRUE])
             \/ Tag = "br" /\ parser.heading /\ Read(in)   \* a heading is one line
             \/ /\ Tag \notin {"table", "h3"} /\ ~(Tag = "br" /\ parser.heading)
                /\ ~(Tag = "tr" /\ parser.table # None)
                /\ Read(IF Tag \in BlockTags THEN Flush(in) ELSE in)

\* The text ends with its container.
CloseDiv(p) ==
    IF Tag # "div" THEN p
    ELSE IF p.depth > 1 THEN [p EXCEPT !.depth = @ - 1]
    ELSE [EmitTable(Flush(p)) EXCEPT !.depth = 0, !.finished = TRUE]

OpcClose ==
    /\ On(Opc, "close")
    /\ \/ ~Inside /\ Read(parser)
       \/ Inside /\ Dropping /\ Read(CloseDiv(CloseDropped(parser)))
       \/ /\ Inside /\ ~Dropping
          /\ \/ Tag = "table" /\ Read(EmitTable(Flush(parser)))
             \/ Tag = "h3" /\ Read([Flush(parser) EXCEPT !.heading = FALSE])
             \/ /\ Tag \notin {"table", "h3"}
                /\ Read(CloseDiv(IF Tag \in BlockTags /\ ~(Tag = "br" /\ parser.heading)
                                 THEN Flush(parser) ELSE parser))

OpcText ==
    /\ On(Opc, "text")
    /\ IF Inside /\ ~Dropping
       THEN Read([parser EXCEPT !.buffer = Append(@, Head(source).text)])
       ELSE Read(parser)

Extracted(p, refused) ==
    /\ stage = "extract" /\ source = <<>>
    /\ IF refused THEN Refuse
       ELSE /\ stage' = "segment" /\ document' = p.lines
            /\ UNCHANGED <<adapter, damage, source, parser>>

OpcExtracted ==
    /\ adapter \in Opc
    /\ LET p == EmitTable(Flush(parser)) IN Extracted(p, p.lines = <<>>)

---------------------------------------------------------------------------
(* wcf_1646: a page for each chapter, one after another.                   *)

EpcewOpen ==
    /\ On(Epcew, "open")
    /\ LET in == [parser EXCEPT !.depth = IF Tag = "div" /\ @ > 0 THEN @ + 1 ELSE @] IN
       \/ Tag = "h1" /\ Mark = "header" /\ Read([Flush(parser) EXCEPT !.heading = TRUE])
       \/ Tag = "div" /\ Mark = "container" /\ Read([Flush(parser) EXCEPT !.depth = 1])
       \/ /\ Mark \notin {"header", "container"}
          /\ \/ Dropping /\ Read(OpenDropped(in))
             \/ ~Dropping /\ Mark = "footnote" /\ Read(Drop(parser))
             \/ ~Dropping /\ Mark # "footnote" /\ Read(IF Tag = "p" THEN Flush(in) ELSE in)

EpcewClose ==
    /\ On(Epcew, "close")
    /\ \/ Dropping /\ Read(CloseDropped(parser))
       \/ ~Dropping /\ Tag = "h1" /\ Read(IF parser.heading
                                          THEN [Flush(parser) EXCEPT !.heading = FALSE] ELSE parser)
       \/ ~Dropping /\ Tag = "p" /\ Read(Flush(parser))
       \/ ~Dropping /\ Tag = "div"
          /\ LET out == [parser EXCEPT !.depth = IF @ > 0 THEN @ - 1 ELSE 0]
             IN Read(IF parser.depth = 1 THEN Flush(out) ELSE out)
       \/ ~Dropping /\ Tag \notin {"h1", "p", "div"} /\ Read(parser)

EpcewText ==
    /\ On(Epcew, "text")
    /\ IF ~Dropping /\ (parser.heading \/ parser.depth > 0)
       THEN Read([parser EXCEPT !.buffer = Append(@, Head(source).text)])
       ELSE Read(parser)

\* A proof-text marker that is not behind a link is not let through.
EpcewExtracted ==
    /\ adapter \in Epcew
    /\ LET p == Flush(parser)
       IN Extracted(p, \/ p.lines = <<>>
                       \/ \E i \in DOMAIN p.lines : \E j \in DOMAIN p.lines[i] :
                              p.lines[i][j].kind = "footnote")

---------------------------------------------------------------------------
(* ga28: paragraphs of a report, those that are headings marked.           *)

HeadingPrefix == [kind |-> "#", n |-> <<>>, at |-> None]

\* Nothing is a heading, or text, before the last line that is the report's title.
FlushReport(p) ==
    LET line == p.buffer
        in   == [p EXCEPT !.buffer = <<>>, !.bold = <<>>, !.bolds = 0]
    IN IF Kind(line) = "marker" THEN [in EXCEPT !.started = TRUE, !.lines = <<>>]
       ELSE IF line = <<>> \/ ~p.started THEN in
       ELSE IF Kind(line) = "#" THEN [in EXCEPT !.clash = TRUE]
       ELSE [in EXCEPT !.lines = Append(@, IF p.bold = line THEN <<HeadingPrefix>> \o line ELSE line)]

ReportOpen ==
    /\ On(Ga28, "open")
    /\ \/ Dropping /\ Read(OpenDropped(parser))
       \/ ~Dropping /\ Mark = "footnote" /\ Read(Drop(parser))
       \/ ~Dropping /\ Mark = "note" /\ Read([FlushReport(parser) EXCEPT !.note = TRUE])
       \/ ~Dropping /\ Tag = "p" /\ Read(FlushReport(parser))
       \/ ~Dropping /\ Tag = "b" /\ Read([parser EXCEPT !.bolds = @ + 1])
       \/ ~Dropping /\ Tag \notin {"p", "b"} /\ Mark \notin {"footnote", "note"} /\ Read(parser)

\* No tag but <p>, </p>, </div> and </td> ends what <b> began.
ReportClose ==
    /\ On(Ga28, "close")
    /\ LET ends == Tag = "div" /\ parser.note IN
       \/ ends /\ Read([parser EXCEPT !.buffer = <<>>, !.bold = <<>>, !.note = FALSE])
       \/ ~ends /\ Dropping /\ Read(CloseDropped(parser))
       \/ ~ends /\ ~Dropping
          /\ Read(IF Tag \in {"p", "div", "td"} THEN FlushReport(parser) ELSE parser)

ReportText ==
    /\ On(Ga28, "text")
    /\ LET text == Head(source).text IN
       IF Dropping \/ parser.note THEN Read(parser)
       ELSE Read([parser EXCEPT !.buffer = Append(@, text),
                                !.bold = IF parser.bolds > 0 THEN Append(@, text) ELSE @])

ReportExtracted ==
    /\ adapter \in Ga28
    /\ LET p == FlushReport(parser) IN Extracted(p, p.clash \/ p.lines = <<>>)

---------------------------------------------------------------------------
(* bco: the lines of a printed book's pages.                               *)

Furniture == {"blank", "head", "blankpage"}

\* Variant: a divider is a line, and what follows it is the book's.
DividerAlone(line) == Read(parser)

\* A divider page goes on until a chapter begins.
Divider(line) == Read([parser EXCEPT !.dividing = TRUE])

PageLine ==
    /\ On(Bco, "line")
    /\ LET line == Head(source).line
           kind == Kind(line)
           in   == [parser EXCEPT !.dividing = FALSE]
           last == parser.lines[Len(parser.lines)]
           text == /\ parser.started /\ kind \notin Furniture \cup {"appendices"}
                   /\ parser.dividing => kind = "chapter"
           rejoins == kind = "tail" /\ parser.lines # <<>> /\ Kind(last) = "half"
       IN \/ parser.finished /\ Read(parser)
          \/ /\ ~parser.finished
             /\ \/ ~parser.started /\ Read([parser EXCEPT !.started = kind = "start"])
                \/ parser.started /\ kind = "appendices"
                   /\ Read([parser EXCEPT !.finished = TRUE])
                \/ parser.started /\ kind # "appendices" /\ ~text /\ Read(parser)
                \/ text /\ kind \in {"divider", "start"} /\ Divider(line)
                \/ text /\ rejoins /\ Read([in EXCEPT !.lines = Append(Front(@), last \o line)])
                \/ text /\ ~rejoins /\ kind \notin {"divider", "start"}
                   /\ Read([in EXCEPT !.lines = Append(@, line)])

BookExtracted ==
    /\ adapter \in Bco
    /\ Extracted(parser, ~parser.started \/ parser.lines = <<>>)

---------------------------------------------------------------------------
(* calvin: two regions of a text file.  web: the lines of a zip's member.  *)

TextLine ==
    /\ On(Calvin \cup Web, "line")
    /\ Read([parser EXCEPT !.lines = Append(@, Head(source).line)])

WebExtracted == adapter \in Web /\ Extracted(parser, FALSE)

Places(lines, kind, from, to) == {i \in Max({1, from})..to : Kind(lines[i]) = kind}
Find(lines, kind, from) == IF Places(lines, kind, from, Len(lines)) = {} THEN 0
                           ELSE Min(Places(lines, kind, from, Len(lines)))

\* Footnote anchors are taken out of the lines, and a rule is a blank line.
Bare(lines) ==
    [i \in DOMAIN lines |-> IF Kind(lines[i]) = "rule" THEN <<>>
                            ELSE SelectSeq(lines[i], LAMBDA f : f.kind # "anchor")]

Marker == <<[kind |-> "institutes", n |-> <<>>, at |-> None]>>

\* The address to Francis I ends at the first of four headings, each of which
\* must be there once, in their order.
InstitutesExtracted ==
    /\ adapter \in Calvin
    /\ LET lines     == Bare(parser.lines)
           prefatory == Find(lines, "prefatory", 1)
           index     == Find(lines, "index", prefatory)
           start     == Find(lines, "start", index)
           end       == IF Find(lines, "aphorisms", start) = 0 THEN Len(lines) + 1
                        ELSE Find(lines, "aphorisms", start)
           at        == [k \in DOMAIN AfterAddress |->
                           Places(lines, AfterAddress[k], prefatory, index - 1)]
           ends      == [k \in DOMAIN at |-> Min(at[k])]
       IN IF \/ 0 \in {prefatory, index, start}
             \/ \E k \in DOMAIN at : Cardinality(at[k]) # 1
             \/ \E j, k \in DOMAIN at : j < k /\ ends[j] > ends[k]
          THEN Extracted(parser, TRUE)
          ELSE Extracted([parser EXCEPT !.lines = SubSeq(lines, prefatory, ends[1] - 1)
                            \o <<Marker>> \o SubSeq(lines, start, end - 1)], FALSE)

Extract ==
    \/ Decode
    \/ OpcOpen \/ OpcClose \/ OpcText \/ OpcExtracted
    \/ EpcewOpen \/ EpcewClose \/ EpcewText \/ EpcewExtracted
    \/ ReportOpen \/ ReportClose \/ ReportText \/ ReportExtracted
    \/ PageLine \/ BookExtracted
    \/ TextLine \/ WebExtracted \/ InstitutesExtracted
=============================================================================
