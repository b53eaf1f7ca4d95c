----------------------------- MODULE MCChunking -----------------------------
(* Short texts over every kind of unit, and short documents over every kind *)
(* of line.                                                                 *)
EXTENDS Chunking

\* A token a unit that is not whitespace, but three letters in a row are one.
MCCount(text) ==
    IF text = << "a", "a", "a" >> THEN 1 ELSE Len(SelectSeq(text, LAMBDA u : ~ IsWhitespace(u)))

Plain(text) ==
    [text |-> text, ending |-> << "\n" >>, fence |-> {}, run |-> {}, level |-> 0, name |-> "", marker |-> {},
     lead |-> 0, grouped |-> FALSE, bar |-> FALSE, delimiter |-> FALSE, dashes |-> "no"]

Run(mark, length) == {[mark |-> mark, length |-> length]}
Item(lead, ordered) == [Plain(<< "-", " ", "a" >>) EXCEPT !.lead = lead, !.marker =
    {[indent |-> lead, contentIndent |-> lead + 2, ordered |-> ordered]}]
Heading(level, name, lead) ==
    [Plain(<< "#" >>) EXCEPT !.level = level, !.name = name, !.lead = lead]

Paragraph == Plain(<< "a", " ", "b" >>)
Empty     == Plain(<<>>)
Ticks     == [Plain(<< "=" >>) EXCEPT !.fence = Run("=", 3), !.run = Run("=", 3)]
Tildes    == [Plain(<< "~" >>) EXCEPT !.fence = Run("~", 3), !.run = Run("~", 3)]
Row       == [Plain(<< "|" >>) EXCEPT !.bar = TRUE]
Rule      == [Plain(<< "|", "-" >>) EXCEPT !.bar = TRUE, !.delimiter = TRUE]
Quote     == [Plain(<< ">", "H", "L" >>) EXCEPT !.grouped = TRUE]
Dashes    == [Plain(<< "-" >>) EXCEPT !.dashes = "exact"]
Marked    == [Plain(<< "B", "-" >>) EXCEPT !.dashes = "marked"]

Source(format, title, lines, policy) ==
    [format |-> format, title |-> title, hashed |-> TRUE, lines |-> lines, messages |-> <<>>,
     target |-> policy[1], max |-> policy[2]]

Policies == { << 1, 1 >>, << 1, 2 >>, << 2, 3 >> }

Units == { "a", ".", ")", " ", "H", "L" }

Texts ==
    { Source("text", <<>>, << [Plain(text) EXCEPT !.ending = <<>>] >>, policy) :
        text \in SeqOf(Units, 4) \cup SeqOf({"a", "."}, 6) \cup SeqOf({"a", " ", "."}, 5), policy \in Policies }

Endings ==
    { Source("text", <<>>, << [Plain(a) EXCEPT !.ending = << "\r", "\n" >>], Plain(b), Plain(c), Plain(<< "a", "b" >>) >>, policy) :
        a, b, c \in { <<>>, << "a" >>, << "a", "b" >> }, policy \in Policies }

Documents(title, kinds, policy) ==
    { Source("markdown", title, lines, policy) : lines \in SeqOf(kinds, 4) }

Conversations ==
    { [Source("conversation", <<>>, <<>>, << 1, 2 >>) EXCEPT !.messages = messages, !.hashed = hashed] :
        messages \in SeqOf({ [id |-> i, text |-> t] : i \in 1..2, t \in { << "a" >>, << " " >>, << "H" >> } }, 2),
        hashed \in BOOLEAN }

MCSources ==
    Texts \cup Endings \cup Conversations
    \cup Documents(<< "T" >>, {Ticks, Tildes, Heading(1, "A", 0), Heading(2, "B", 0), Heading(1, "", 0), Paragraph, Empty}, << 2, 3 >>)
    \cup Documents(<<>>, {Item(0, FALSE), Item(4, FALSE), Item(0, TRUE), Heading(1, "A", 2), Heading(1, "A", 0), Paragraph, Empty}, << 2, 3 >>)
    \cup Documents(<< "T" >>, {Row, Rule, Quote, Heading(1, "A", 0), Paragraph, Dashes, Marked}, << 1, 2 >>)

=============================================================================
