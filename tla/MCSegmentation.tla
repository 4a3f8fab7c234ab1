---------------------------- MODULE MCSegmentation ----------------------------
(***************************************************************************)
(* A small work for each page shape, with everything its adapter tells     *)
(* apart in it, and any one block of it lost, repeated, out of order,      *)
(* left unclosed, or with its class names changed.                         *)
(***************************************************************************)
EXTENDS Segmentation

Text(kind, n, at) == [kind |-> kind, n |-> n, at |-> at]
Title == Text("title", <<>>, None)
Head1(kind, n) == Text(kind, n, None)     \* structure: a heading, a link, a mark

Open(tag, mark) == [do |-> "open", tag |-> tag, mark |-> mark]
Shut(tag) == [do |-> "close", tag |-> tag]
Say(f) == [do |-> "text", text |-> f]
On1(tag, mark, events) == <<Open(tag, mark)>> \o events \o <<Shut(tag)>>
Tagged(tag, events) == On1(tag, "none", events)
P(f) == Tagged("p", <<Say(f)>>)
L(line) == <<[do |-> "line", line |-> line]>>

Container == <<Open("div", "container")>>
Footer == <<Shut("div")>> \o P(Title)
Cell(k) == Tagged("td", <<Say(Text("text", <<k>>, <<1, 1>>))>>)
Heading(n) == Tagged("h3", <<Say(Head1("chapter", <<n>>))>> \o Tagged("br", <<>>) \o
                           Tagged("i", <<Say(Title)>>))

\* Cells 3..6, which are to be read 3, 5, 4, 6.
Columns == Tagged("table", Tagged("tr", Cell(3) \o Cell(5)) \o Tagged("tr", Cell(4) \o Cell(6)))

Confession ==
    <<P(Title), Container, Tagged("h1", <<Say(Title)>>),
      Tagged("ol", Tagged("li", <<Say(Title)>>) \o Tagged("ol", <<>>)),
      Heading(1),
      P(Text("section", <<1>>, <<1, 1>>)), Columns, P(Text("text", <<7>>, <<1, 1>>)),
      Tagged("div", P(Text("section", <<2>>, <<1, 2>>)) \o
                    Tagged("sup", <<Open("div", "none"), Say(Title), Shut("div")>>)),
      Heading(2),
      P(Text("section", <<1>>, <<2, 1>>)), Footer>>

Asked(n) == Tagged("p", <<Say(Text("question", <<n>>, <<n>>))>> \o Tagged("br", <<>>) \o
                        <<Say(Text("answer", <<n>>, <<n>>))>>)

Catechism ==
    <<Container, Asked(1), P(Head1("division", <<>>)), Asked(2),
      P(Text("text", <<3>>, <<2>>)),
      P(Text("question", <<3>>, <<3>>)), P(Text("answer", <<3>>, <<3>>)), Footer>>

Linked(f) == Tagged("p", <<Say(f)>> \o On1("a", "footnote", <<Say(Head1("footnote", <<>>))>>) \o
                         Tagged("a", <<>>))
EpcewPage(numeral, paragraphs) ==
    <<On1("h1", "header", <<Say(Head1("chapter", numeral))>>),
      <<Open("div", "container")>>>> \o paragraphs \o
    <<P(Head1("navigation", <<>>)), <<Shut("div")>>, P(Title)>>

Pages ==
    EpcewPage(<<1>>, <<Linked(Text("section", <<1>>, <<1, 1>>)), P(Text("text", <<1>>, <<1, 1>>)),
                       Tagged("div", P(Text("section", <<1, 1>>, <<1, 2>>)))>>)
    \o EpcewPage(<<1, 1>>, <<P(Text("text", <<1>>, <<2, 1>>))>>)
    \o EpcewPage(<<1, 1, 1>>, <<P(Text("section", <<1>>, <<3, 1>>)),
                                P(Text("section", <<1, 1>>, <<3, 2>>)),
                                P(Text("section", <<1, 1, 1>>, <<3, 3>>)),
                                P(Text("section", <<1, 5>>, <<3, 4>>))>>)

Bold(f) == Tagged("p", Tagged("b", <<Say(f)>>))
Report ==
    <<P(Head1("marker", <<>>)), Tagged("td", <<Say(Title)>>), Bold(Head1("marker", <<>>)),
      Bold(Head1("roman", <<1>>)), P(Text("text", <<1>>, <<1, 0, 0, 1>>)),
      Bold(Head1("letter", <<1>>)), Linked(Text("text", <<1>>, <<1, 1, 0, 1>>)),
      Tagged("p", <<Say(Text("text", <<1>>, <<1, 1, 0, 2>>))>> \o
                  Tagged("b", <<Say(Text("text", <<2>>, <<1, 1, 0, 2>>))>>)),
      Bold(Head1("number", <<1>>)), Bold(Text("long", <<>>, <<1, 1, 1, 1>>)),
      Bold(Title), Bold(Head1("roman", <<2>>)), P(Text("text", <<1>>, <<2, 0, 0, 1>>)),
      Bold(Head1("recommendations", <<>>)), P(Title),
      P(Text("number", <<1>>, <<1>>)), P(Text("number", <<2>>, <<2>>)),
      Tagged("div", <<>>),
      On1("div", "note", On1("a", "footnote", <<Say(Head1("footnote", <<>>))>>) \o <<Say(Title)>>)>>

\* The report with a paragraph that opens in bold and goes on in plain type.
RunInReport ==
    Append(SubSeq(Report, 1, 4),
           Tagged("p", Tagged("b", <<Say(Text("text", <<1>>, <<1, 0, 0, 1>>))>>) \o
                       <<Say(Text("text", <<2>>, <<1, 0, 0, 1>>))>>))
    \o SubSeq(Report, 6, Len(Report))

Book ==
    <<L(<<Head1("paragraph", <<4, 21>>)>>), L(<<Head1("start", <<>>)>>),
      L(<<Head1("divider", <<>>)>>), L(<<Title>>),
      L(<<Head1("chapter", <<1>>)>>), L(<<Title>>),
      L(<<Text("paragraph", <<1, 1>>, <<1, 1>>)>>), L(<<Head1("head", <<>>)>>),
      L(<<Text("text", <<1>>, <<1, 1>>)>>), L(<<Text("paragraph", <<1, 2>>, <<1, 2>>)>>),
      L(<<Head1("blankpage", <<>>)>>),
      L(<<Head1("divider", <<>>)>>), L(<<Title>>),
      L(<<Head1("chapter", <<2>>)>>), L(<<Title>>),
      L(<<Head1("chapter", <<3>>)>>),
      L(<<Text("half", <<3>>, <<3, 1>>)>>) \o L(<<Text("tail", <<1>>, <<3, 1>>)>>),
      L(<<Text("paragraph", <<3, 2>>, <<3, 2>>)>>),
      L(<<Head1("appendices", <<>>)>>), L(<<Head1("paragraph", <<9, 1>>)>>)>>

Opener(n) == Head1("section", <<n>>)
Blank == L(<<>>)
InstitutesText ==
    <<L(<<Title>>), L(<<Head1("prefatory", <<>>)>>),
      L(<<Text("section", <<1>>, <<0, 0, 1, 1>>)>>), Blank,
      L(<<Text("text", <<1>>, <<0, 0, 1, 2>>)>>),
      L(<<Head1("epistle", <<>>)>>), L(<<Head1("method", <<>>)>>), L(<<Head1("index", <<>>)>>),
      L(<<Title>>), L(<<Head1("start", <<>>)>>),
      L(<<Head1("book", <<1>>)>>), L(<<Head1("argument", <<>>)>>),
      L(<<Head1("chapter", <<1>>)>>), L(<<Opener(1)>>), L(<<Opener(2)>>), Blank,
      L(<<Text("section", <<1>>, <<1, 1, 1, 1>>)>>), L(<<Text("text", <<1>>, <<1, 1, 1, 1>>)>>),
      L(<<Head1("rule", <<>>)>>),
      L(<<Text("section", <<5>>, <<1, 1, 1, 2>>)>>), Blank,
      L(<<Text("section", <<2>>, <<1, 1, 2, 1>>), Head1("anchor", <<>>)>>),
      L(<<Head1("chapter", <<>>), Head1("anchor", <<>>)>>),
      L(<<Text("section", <<1>>, <<1, 2, 1, 1>>)>>), Blank,
      L(<<Text("section", <<2>>, <<1, 2, 2, 1>>)>>),
      L(<<Head1("book", <<2>>)>>), L(<<Head1("chapter", <<1>>)>>),
      L(<<Text("section", <<1>>, <<2, 1, 1, 1>>)>>),
      L(<<Head1("aphorisms", <<>>)>>), L(<<Title>>)>>

VerseOf(n) == L(<<Text("verse", n, n)>>)
Bible ==
    <<VerseOf(<<1, 1, 1>>), VerseOf(<<1, 1, 2>>), Blank, VerseOf(<<2, 1, 1>>),
      L(<<Head1("blankverse", <<2, 1, 2>>)>>), VerseOf(<<2, 1, 3>>), VerseOf(<<3, 1, 1>>)>>

Work(a, blocks) == [adapter |-> a, blocks |-> blocks]
MCWorks == {Work("wcf_1788", Confession), Work("wlc", Catechism), Work("wcf_1646", Pages),
            Work("ga28", Report), Work("bco", Book), Work("calvin", InstitutesText),
            Work("web", Bible)}

MCRunIn == {Work("ga28", RunInReport)}

MCExpected ==
    [wcf_1788 |-> [chapters |-> 2],
     wlc |-> [questions |-> 3, divisions |-> 1],
     wcf_1646 |-> [chapters |-> 3, telling |-> 3, sections |-> 4, unnumbered |-> 1,
                   navigation |-> 1],
     ga28 |-> [recommendations |-> 2],
     bco |-> [chapters |-> 3, vacated |-> <<2>>],
     web |-> [books |-> <<1, 2, 3>>, blanks |-> <<<<2, 1, 2>>>>],
     calvin |-> [chapters |-> <<2, 1>>, prefatory |-> 1]]
MCAfterAddress == <<"epistle", "method">>
=============================================================================
