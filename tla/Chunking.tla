------------------------------ MODULE Chunking ------------------------------
(***************************************************************************)
(* The three chunkers: a source becomes context blocks.  Markdown and text *)
(* are read line by line into logical blocks, which are cut to the token   *)
(* policy and grouped, one heading section at a time; a conversation gives *)
(* one block a message.                                                    *)
(*                                                                         *)
(* A text is a sequence of code units, and a range [from, to) holds the    *)
(* units from + 1 .. to.  A line is its text and its ending, and what the  *)
(* patterns of the source find in it: the fence it opens and the run that  *)
(* may close one, its heading level (0 for none) and name, a list marker,  *)
(* the spaces it starts with, a quote or tag, a bar, a table delimiter,    *)
(* and whether it is a line of dashes.                                     *)
(***************************************************************************)
EXTENDS Integers, SequencesExt

CONSTANTS Sources,   \* [format, title, hashed, lines, messages, target, max]
          Count(_)   \* what the tokenizer counts in a sequence of units

\* A chunker is not built with other options.
OptionsAccepted(policy) == policy.target >= 1 /\ policy.target <= policy.max

ASSUME ChunkingAssumption == \A s \in Sources : OptionsAccepted(s)

VARIABLES source, phase,
          line,       \* the next line to scan
          headings,   \* [level, name, from, body]
          spans,      \* the logical blocks: [from, to, atomic]
          section,    \* the next section to cut, 0 for what is before a heading
          blocks      \* [from, to, tokens, path, id]

vars == << source, phase, line, headings, spans, section, blocks >>

Init ==
    /\ source \in Sources
    /\ phase = "given" /\ line = 1 /\ section = 0
    /\ headings = <<>> /\ spans = <<>> /\ blocks = <<>>

-----------------------------------------------------------------------------
(* Text.                                                                   *)

Lines == source.lines
Full(i) == Lines[i].text \o Lines[i].ending

Text == FlattenSeq([ i \in DOMAIN Lines |-> Full(i) ])

LineStart(i)  == Len(FlattenSeq([ j \in 1 .. i - 1 |-> Full(j) ]))
ContentEnd(i) == LineStart(i) + Len(Lines[i].text)

IsWhitespace(unit) == unit \in {" ", "\n", "\r"}

AllWhitespace(text) == \A i \in DOMAIN text : IsWhitespace(text[i])
Blank(i) == AllWhitespace(Lines[i].text)

High(unit) == unit = "H"
Low(unit)  == unit = "L"

HasLoneSurrogate(text) ==
    \E i \in DOMAIN text :
        \/ High(text[i]) /\ (i = Len(text) \/ ~ Low(text[i + 1]))
        \/ Low(text[i])  /\ (i = 1 \/ ~ High(text[i - 1]))

\* Line endings are unified before a content is hashed: CRLF, then a lone CR.
Normal(text) ==
    LET kept(i) == ~ (text[i] = "\n" /\ i > 1 /\ text[i - 1] = "\r")
        units   == SelectSeq([ i \in DOMAIN text |-> i ], kept)
    IN  [ i \in DOMAIN units |-> IF text[units[i]] = "\r" THEN "\n" ELSE text[units[i]] ]

-----------------------------------------------------------------------------
(* Structure.                                                              *)

\* The first line from i on of which Is holds; the line after the last if none.
FirstFrom(i, Is(_)) ==
    LET found == { j \in i .. Len(Lines) : Is(j) } IN Min(found \cup {Len(Lines) + 1})

\* Frontmatter needs both of its lines, and the first is the first of the source.
BodyLine ==
    LET closing == FirstFrom(2, LAMBDA j : Lines[j].dashes = "exact")
    IN  IF source.format = "markdown" /\ Lines # <<>> /\ Lines[1].dashes # "no" /\ closing <= Len(Lines)
        THEN closing + 1 ELSE 1

TableStarts(i) == Lines[i].bar /\ i < Len(Lines) /\ Lines[i + 1].delimiter

ListStarts(i) == \E m \in Lines[i].marker : m.indent <= 3

\* What a line that is not inside anything begins.  Plain text has paragraphs only.
Kind(i) ==
    IF Blank(i)                      THEN "blank"
    ELSE IF source.format = "text"   THEN "paragraph"
    ELSE IF Lines[i].fence # {}      THEN "code"
    ELSE IF Lines[i].level > 0       THEN "heading"
    ELSE IF TableStarts(i)           THEN "table"
    ELSE IF ListStarts(i)            THEN "list"
    ELSE IF Lines[i].grouped         THEN "grouped"
    ELSE "paragraph"

Closes(i, j) == \E o \in Lines[i].fence, c \in Lines[j].run : c.mark = o.mark /\ c.length >= o.length

\* After blank lines a list goes on with an item of its own kind, or a deeper one.
GoesOn(root, i) ==
    \E m \in Lines[i].marker :
        m.indent > root.indent \/ (m.indent = root.indent /\ m.ordered = root.ordered)

\* A list ends at a heading that is no content of an item, or at the blank lines
\* after which it does not go on.
ListEndsAt(root, j) ==
    IF ~ Blank(j) THEN Lines[j].level > 0 /\ Lines[j].lead < root.contentIndent
    ELSE /\ ~ Blank(j - 1)
         /\ LET next == FirstFrom(j, LAMBDA k : ~ Blank(k)) IN next > Len(Lines) \/ ~ GoesOn(root, next)

\* The line after the logical block that begins at line i.  A fence that is never
\* closed runs to the end.
SpanEnd(i) ==
    CASE Kind(i) = "code"      -> Min({FirstFrom(i + 1, LAMBDA j : Closes(i, j)) + 1, Len(Lines) + 1})
      [] Kind(i) = "table"     -> FirstFrom(i + 2, LAMBDA j : Blank(j) \/ ~ Lines[j].bar)
      [] Kind(i) = "list"      -> LET root == CHOOSE m \in Lines[i].marker : TRUE
                                  IN  FirstFrom(i + 1, LAMBDA j : ListEndsAt(root, j))
      [] Kind(i) = "grouped"   -> FirstFrom(i + 1, LAMBDA j : Blank(j))
      [] Kind(i) = "paragraph" -> FirstFrom(i + 1, LAMBDA j : Kind(j) # "paragraph")

-----------------------------------------------------------------------------
(* Cutting.                                                                *)

Slice(from, to) == SubSeq(Text, from + 1, to)
Tokens(from, to) == Count(Slice(from, to))
Fits(from, to)   == Tokens(from, to) <= source.max
OffTarget(tokens) == LET d == tokens - source.target IN IF d < 0 THEN 0 - d ELSE d

TrimmedEnd(from, to) == Max({from} \cup { e \in from + 1 .. to : ~ IsWhitespace(Text[e]) })

\* After a stop and what closes the sentence, before whitespace.
SentenceBoundaries(from, to) ==
    { e \in from + 1 .. to - 1 :
        /\ IsWhitespace(Text[e + 1])
        /\ \E k \in from + 1 .. e : Text[k] = "." /\ \A c \in k + 1 .. e : Text[c] = ")" }

WhitespaceBoundaries(from, to) ==
    { e \in from + 1 .. to - 1 : IsWhitespace(Text[e + 1]) /\ ~ IsWhitespace(Text[e]) }

\* Defect: every code unit is a boundary.
CodeUnitBoundaries(from, to) == from + 1 .. to

CodePointBoundaries(from, to) ==
    { e \in from + 1 .. to : ~ (High(Text[e]) /\ e < to /\ Low(Text[e + 1])) }

\* The boundary nearest to the target among those that fit, the later of two
\* that are as near.  Counts are not monotone: all of them are tried.
BestFitting(from, candidates) ==
    LET end(e)   == TrimmedEnd(from, e)
        fitting  == { e \in candidates : end(e) > from /\ Fits(from, end(e)) }
        off(e)   == OffTarget(Tokens(from, end(e)))
        nearest  == { e \in fitting : \A f \in fitting : off(e) <= off(f) }
    IN  IF nearest = {} THEN {} ELSE {[end |-> end(Max(nearest)), next |-> Max(nearest)]}

\* Where the piece that starts at from ends.  A code point that fits nowhere is
\* emitted whole.
Boundary(from, to) ==
    LET rest   == TrimmedEnd(from, to)
        single == Min(CodePointBoundaries(from, to))
        tried  == << IF Fits(from, rest) THEN {[end |-> rest, next |-> to]} ELSE {},
                     BestFitting(from, SentenceBoundaries(from, to)),
                     BestFitting(from, WhitespaceBoundaries(from, to)),
                     BestFitting(from, CodePointBoundaries(from, to)),
                     {[end |-> single, next |-> single]} >>
        first  == Min({ n \in DOMAIN tried : tried[n] # {} })
    IN  CHOOSE b \in tried[first] : TRUE

SplitRange(span) ==
    LET to == span.to
        pieces[cursor \in 0 .. to] ==
            LET starts == { s \in cursor .. to - 1 : ~ IsWhitespace(Text[s + 1]) }
            IN  IF starts = {} THEN <<>>
                ELSE LET from == Min(starts)
                         b    == Boundary(from, to)
                     IN  << [from |-> from, to |-> b.end, atomic |-> FALSE] >> \o pieces[Max({b.next, from + 1})]
    IN  IF span.atomic \/ Fits(span.from, to) THEN << span >> ELSE pieces[span.from]

-----------------------------------------------------------------------------
(* Grouping, towards the target.                                           *)

Flushed(g) == [groups |-> g.groups \o SetToSeq(g.open), open |-> {}]

Grouped(g, range) ==
    LET alone     == [from |-> range.from, to |-> range.to, tokens |-> Tokens(range.from, range.to)]
        joined(o) == [o EXCEPT !.to = range.to, !.tokens = Tokens(o.from, range.to)]
        joins(o)  == joined(o).tokens <= source.max /\ OffTarget(joined(o).tokens) <= OffTarget(o.tokens)
    IN  IF range.atomic /\ alone.tokens > source.max
        THEN [groups |-> Append(Flushed(g).groups, alone), open |-> {}]
        ELSE IF \E o \in g.open : joins(o) THEN [g EXCEPT !.open = { joined(o) : o \in @ }]
        ELSE [Flushed(g) EXCEPT !.open = {alone}]

GroupRanges(ranges) == Flushed(FoldLeft(Grouped, [groups |-> <<>>, open |-> {}], ranges)).groups

-----------------------------------------------------------------------------
(* Sections.                                                               *)

SectionEnd(k) == IF k < Len(headings) THEN headings[k + 1].from ELSE Len(Text)

\* A heading leaves the stack when one of its level or above follows.
Stack(k) ==
    FoldLeft(LAMBDA stack, h : Append(SelectSeq(stack, LAMBDA g : g.level < h.level), h), <<>>, SubSeq(headings, 1, k))

\* An empty heading adds nothing; without a heading the title stands for one.
HeadingPath(k) ==
    LET named == SelectSeq(Stack(k), LAMBDA h : h.name # "")
    IN  IF named = <<>> THEN source.title ELSE [ i \in DOMAIN named |-> named[i].name ]

InSection(k) ==
    SelectSeq(spans, LAMBDA s : s.from < SectionEnd(k) /\ (k > 0 => s.from >= SectionEnd(k - 1)))

\* The occurrence tells blocks of one content under one path apart.
BuildBlock(built, group, path) ==
    LET base  == << path, Normal(Slice(group.from, group.to)) >>
        again == Len(SelectSeq(built, LAMBDA b : SubSeq(b.id, 1, 2) = base))
    IN  Append(built, [from |-> group.from, to |-> group.to, tokens |-> group.tokens, path |-> path,
                       id |-> Append(base, again)])

-----------------------------------------------------------------------------
(* A chunker at work.                                                      *)

Distinct(messages) == \A i, j \in DOMAIN messages : messages[i].id = messages[j].id => i = j

\* validateSource: the source is what its document says it is, and well-formed.
Accepted ==
    /\ source.hashed
    /\ IF source.format = "conversation"
       THEN /\ Distinct(source.messages)
            /\ \A m \in Range(source.messages) : ~ HasLoneSurrogate(m.text) /\ ~ AllWhitespace(m.text)
       ELSE ~ HasLoneSurrogate(Text)

Validates ==
    /\ phase = "given"
    /\ phase' = IF Accepted THEN "scanning" ELSE "refused"
    /\ line' = BodyLine
    /\ UNCHANGED << source, headings, spans, section, blocks >>

Scanning(kinds) ==
    /\ phase = "scanning" /\ source.format # "conversation" /\ line <= Len(Lines)
    /\ Kind(line) \in kinds
    /\ UNCHANGED << source, phase, section, blocks >>

SkipsBlank == Scanning({"blank"}) /\ line' = line + 1 /\ UNCHANGED << headings, spans >>

TakesHeading ==
    /\ Scanning({"heading"})
    /\ line' = line + 1
    /\ headings' = Append(headings, [level |-> Lines[line].level, name |-> Lines[line].name,
                                     from |-> LineStart(line), body |-> LineStart(line + 1)])
    /\ UNCHANGED spans

\* What is inside is not looked at again.
TakesSpan ==
    /\ Scanning({"code", "table", "list", "grouped", "paragraph"})
    /\ line' = SpanEnd(line)
    /\ spans' = Append(spans, [from |-> LineStart(line), to |-> ContentEnd(SpanEnd(line) - 1),
                               atomic |-> Kind(line) # "paragraph"])
    /\ UNCHANGED headings

EndsScan ==
    /\ phase = "scanning" /\ source.format # "conversation" /\ line > Len(Lines)
    /\ phase' = "cutting"
    /\ UNCHANGED << source, line, headings, spans, section, blocks >>

CutsSection ==
    /\ phase = "cutting" /\ section <= Len(headings)
    /\ LET ranges == FlattenSeq([ i \in DOMAIN InSection(section) |-> SplitRange(InSection(section)[i]) ])
           path   == HeadingPath(section)
       IN  blocks' = FoldLeft(LAMBDA built, group : BuildBlock(built, group, path), blocks, GroupRanges(ranges))
    /\ section' = section + 1
    /\ UNCHANGED << source, phase, line, headings, spans >>

\* A message is told apart by its identifier, not by its place or its content.
CutsMessages ==
    /\ phase = "scanning" /\ source.format = "conversation"
    /\ blocks' = [ i \in DOMAIN source.messages |->
                     LET m == source.messages[i]
                     IN  [from |-> i - 1, to |-> i, tokens |-> Count(m.text), path |-> <<>>,
                          id |-> << m.id, Normal(m.text) >>] ]
    /\ phase' = "done"
    /\ UNCHANGED << source, line, headings, spans, section >>

Finishes ==
    /\ phase = "cutting" /\ section > Len(headings)
    /\ phase' = "done"
    /\ UNCHANGED << source, line, headings, spans, section, blocks >>

\* One count that is not given, and nothing is returned.
TokenizerFails ==
    /\ \/ phase = "cutting" /\ section <= Len(headings) /\ InSection(section) # <<>>
       \/ phase = "scanning" /\ source.format = "conversation" /\ source.messages # <<>>
    /\ phase' = "failed" /\ blocks' = <<>>
    /\ UNCHANGED << source, line, headings, spans, section >>

Ended == phase \in {"done", "refused", "failed"} /\ UNCHANGED vars

Next ==
    \/ Validates \/ SkipsBlank \/ TakesHeading \/ TakesSpan \/ EndsScan
    \/ CutsSection \/ CutsMessages \/ Finishes \/ TokenizerFails \/ Ended

Spec == Init /\ [][Next]_vars

-----------------------------------------------------------------------------
Holds(b, unit) == b.from < unit /\ unit <= b.to

\* The headings a section stands under, without a stack.
Enclosing(k) ==
    LET over(i) == headings[i].name # "" /\ \A j \in i + 1 .. k : headings[j].level > headings[i].level
        path    == SelectSeq([ i \in 1 .. k |-> i ], over)
    IN  IF path = <<>> THEN source.title ELSE [ i \in DOMAIN path |-> headings[path[i]].name ]

SectionOf(b) == Max({0} \cup { k \in DOMAIN headings : headings[k].from <= b.from })

IsHeading(unit) == \E h \in Range(headings) : Holds([from |-> h.from, to |-> h.body], unit)

WholeCodePoints(b) ==
    /\ ~ Low(Text[b.from + 1])
    /\ b.to < Len(Text) => ~ Low(Text[b.to + 1])

\* A block over the maximum is one that could not be cut.
CannotBeCut(b) ==
    \/ \E s \in Range(spans) : s.atomic /\ s.from = b.from /\ s.to = b.to
    \/ b.to - b.from = IF High(Text[b.from + 1]) THEN 2 ELSE 1

\* Whatever a source holds and however its tokens are counted, the blocks lie one
\* after the other and hold every code unit that is not whitespace, a heading or
\* frontmatter exactly once; none cuts a code point or a logical block that may
\* not be cut, none is over the maximum that could have been cut, each stands
\* under the headings it is below, and no two have one identifier.
BlocksCoverTheSource ==
    phase = "done" =>
        /\ \A i, j \in DOMAIN blocks : blocks[i].id = blocks[j].id => i = j
        /\ source.format = "conversation" => Len(blocks) = Len(source.messages)
        /\ source.format # "conversation" =>
              /\ \A i \in 1 .. Len(blocks) - 1 : blocks[i].to <= blocks[i + 1].from
              /\ \A u \in DOMAIN Text : ~ IsWhitespace(Text[u]) =>
                    ((\E b \in Range(blocks) : Holds(b, u)) <=> (u > LineStart(BodyLine) /\ ~ IsHeading(u)))
              /\ \A s \in Range(spans) : s.atomic => \E b \in Range(blocks) : b.from <= s.from /\ s.to <= b.to
              /\ \A b \in Range(blocks) :
                    /\ ~ AllWhitespace(Slice(b.from, b.to))
                    /\ WholeCodePoints(b)
                    /\ b.tokens > source.max => CannotBeCut(b)
                    /\ b.path = Enclosing(SectionOf(b))

=============================================================================
