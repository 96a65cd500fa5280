------------------------------ MODULE Chunker ------------------------------
(***************************************************************************)
(* How a markdown file of questions and answers is cut into the chunks     *)
(* that are embedded and searched (internal/rag/chunker): decoration is    *)
(* stripped, every heading of the third level starts a section, a section  *)
(* that is too long is cut between its fenced blocks, and what is still    *)
(* too long at the coarsest separator that occurs in it.                   *)
(*                                                                         *)
(* A text is a sequence of runes.  "nl" and " " are the blank ones; the    *)
(* marks that start a line (headings, the fence, the bar of front matter), *)
(* the div tags and a separator count as one rune each.  Positions count   *)
(* from 0, as in Go.                                                       *)
(***************************************************************************)
EXTENDS Integers, Sequences, FiniteSets, SequencesExt

CONSTANTS
    FileLines,      \* the lines a file may have, as sequences of runes
    MaxFileLines,   \* lines of one file
    ChunkSize,      \* runes of a chunk
    ChunkOverlap,   \* runes a piece repeats of the one before it
    LabelSize,      \* runes of the labels in front of a chunk
    Seps            \* separators, coarsest first; <<>> cuts anywhere

ASSUME ChunkerAssumption ==
    /\ \A l \in FileLines : l \in Seq(STRING) /\ ~Contains(l, "nl")
    /\ MaxFileLines \in Nat /\ LabelSize \in Nat
    /\ ChunkSize \in Nat \ {0} /\ ChunkOverlap \in Nat
    /\ Seps # <<>> /\ Last(Seps) = <<>>

VARIABLE markdown   \* the lines of the file

chunkerVars == <<markdown>>

ChunkerTypeOK == markdown \in Seq(FileLines) /\ Len(markdown) <= MaxFileLines

ChunkerInit == markdown = <<>>

AddLine(l) ==
    /\ Len(markdown) < MaxFileLines
    /\ markdown' = Append(markdown, l)

ChunkerNext == \E l \in FileLines : AddLine(l)

-----------------------------------------------------------------------------
(***************************************************************************)
(* Texts and lines.                                                        *)
(***************************************************************************)
Blank(r) == r \in {"nl", " "}
IsBlank(t) == \A i \in DOMAIN t : Blank(t[i])
Starts(line, mark) == line # <<>> /\ Head(line) = mark

TrimSpace(t) ==
    LET ink == {i \in DOMAIN t : ~Blank(t[i])}
    IN IF ink = {} THEN <<>> ELSE SubSeq(t, Min(ink), Max(ink))

Joined(ls) ==
    IF ls = <<>> THEN <<>>
    ELSE FoldLeft(LAMBDA t, l : t \o <<"nl">> \o l, Head(ls), Tail(ls))

\* The offset of every line, and one past the end.
LineOffs(t) ==
    LET breaks == SetToSortSeq({i \in DOMAIN t : t[i] = "nl"}, <)
    IN <<0>> \o breaks \o <<Len(t) + 1>>

LinesAt(t, off) ==
    [k \in 1..Len(off) - 1 |-> SubSeq(t, off[k] + 1, off[k + 1] - 1)]

TextLines(t) == LinesAt(t, LineOffs(t))

-----------------------------------------------------------------------------
(***************************************************************************)
(* Decoration.                                                             *)
(***************************************************************************)

\* From one bar line to the next; the closing line must be followed by another, or
\* be the last, and then nothing is left.
AfterFrontmatter(t, ls) ==
    LET closing == {k \in 2..Len(ls) - 1 : ls[k] = <<"bar">>}
    IN IF Len(ls) < 2 \/ ls[1] # <<"bar">> THEN t
       ELSE IF closing # {} THEN Joined(SubSeq(ls, Min(closing) + 1, Len(ls)))
       ELSE IF Last(ls) = <<"bar">> THEN <<>>
       ELSE t

StripFrontmatter(t) == AfterFrontmatter(t, TextLines(t))

Count(t, r, i, j) == Cardinality({k \in i..j : t[k] = r})

\* Where the text goes on behind a block that ends at `end': blanks and one line end go too.
AfterBlock(t, end) ==
    LET gap == Max({j \in end..Len(t) : \A k \in end + 1..j : t[k] = " "})
    IN SubSeq(t, gap + 1, Len(t))

DropLineEnd(t) == IF Starts(t, "nl") THEN Tail(t) ELSE t

\* The blocks are nested; one that is never closed stays, and so does all after it.
RECURSIVE StripDivs(_)
StripDivs(t) ==
    LET opens == {i \in DOMAIN t : t[i] = "<div"}
        Behind(open) ==
            LET ends == {j \in open..Len(t) : Count(t, "<div", open, j) = Count(t, "</div", open, j)}
            IN IF ends = {} THEN SubSeq(t, open, Len(t))
               ELSE StripDivs(DropLineEnd(AfterBlock(t, Min(ends))))
        Without(open) == SubSeq(t, 1, open - 1) \o Behind(open)
    IN IF opens = {} THEN t ELSE Without(Min(opens))

Stripped(t) == StripDivs(StripFrontmatter(t))

-----------------------------------------------------------------------------
(***************************************************************************)
(* Sections.  A section is known by the offset its body starts at.         *)
(***************************************************************************)
NoSection == [chapter |-> <<>>, question |-> <<>>, lines |-> <<>>, start |-> 0]

IsSectionHeading(line, inFence) == ~inFence /\ (Starts(line, "##") \/ Starts(line, "###"))

\* A section without a title or a body is not kept.
Kept(open, body) ==
    IF open.question = <<>> \/ body = <<>> THEN <<>>
    ELSE <<[chapter |-> open.chapter, question |-> open.question,
            body |-> body, start |-> open.start]>>

Flushed(open) == Kept(open, TrimSpace(Joined(open.lines)))

NextLine(acc, line, fence, after) ==
    IF IsSectionHeading(line, fence)
      THEN [fence |-> fence, done |-> acc.done \o Flushed(acc.open),
            open |-> IF Head(line) = "###"
                       THEN [NoSection EXCEPT !.chapter = acc.open.chapter,
                                              !.question = TrimSpace(Tail(line)), !.start = after]
                       ELSE [NoSection EXCEPT !.chapter = TrimSpace(Tail(line))]]
      ELSE [acc EXCEPT !.fence = fence,
                       !.open.lines = IF acc.open.question = <<>> THEN @ ELSE Append(@, line)]

TogglesFence(line) == Starts(TrimSpace(line), "fence")

AllSections(acc) == acc.done \o Flushed(acc.open)

SectionsOf(ls, off) ==
    AllSections(FoldLeftDomain(
        LAMBDA acc, k : NextLine(acc, ls[k], acc.fence # TogglesFence(ls[k]), off[k + 1]),
        [fence |-> FALSE, done |-> <<>>, open |-> NoSection], ls))

ExtractSections(t) == SectionsOf(TextLines(t), LineOffs(t))

-----------------------------------------------------------------------------
(***************************************************************************)
(* Fenced blocks of a body: only a fence at the start of a line counts,    *)
(* and one that is never closed reaches to the end.                        *)
(***************************************************************************)
FlushedSegment(acc) ==
    IF acc.lines = <<>> \/ (~acc.code /\ IsBlank(Joined(acc.lines))) THEN acc.done
    ELSE Append(acc.done, [code |-> acc.code, runes |-> Joined(acc.lines), off |-> acc.off])

NextSegmentLine(acc, line, at, after) ==
    IF ~Starts(line, "fence") THEN [acc EXCEPT !.lines = Append(@, line)]
    ELSE IF acc.code
           THEN [done |-> FlushedSegment([acc EXCEPT !.lines = Append(@, line)]),
                 lines |-> <<>>, off |-> after, code |-> FALSE]
           ELSE [done |-> FlushedSegment(acc), lines |-> <<line>>, off |-> at, code |-> TRUE]

SegmentsOf(ls, off) ==
    FlushedSegment(FoldLeftDomain(
        LAMBDA acc, k : NextSegmentLine(acc, ls[k], off[k], off[k + 1]),
        [done |-> <<>>, lines |-> <<>>, off |-> 0, code |-> FALSE], ls))

SplitByFences(body) == SegmentsOf(TextLines(body), LineOffs(body))

-----------------------------------------------------------------------------
(***************************************************************************)
(* The splitter: ranges <<from, to>> of a text that fit into a chunk,      *)
(* packed and then extended backwards.                                     *)
(***************************************************************************)
RECURSIVE FindAll(_, _, _, _)
FindAll(t, from, to, sep) ==
    IF from + Len(sep) > to THEN <<>>
    ELSE IF SubSeq(t, from + 1, from + Len(sep)) = sep
           THEN <<from>> \o FindAll(t, from + Len(sep), to, sep)
           ELSE FindAll(t, from + 1, to, sep)

HardCuts(from, to) ==
    [k \in 1..((to - from + ChunkSize - 1) \div ChunkSize) |->
        <<from + (k - 1) * ChunkSize,
          IF from + k * ChunkSize < to THEN from + k * ChunkSize ELSE to>>]

\* A separator belongs to the piece on its left; a piece that is still too long is
\* cut by the finer ones.
PieceBounds(from, ends, to) == <<from>> \o ends \o (IF Last(ends) < to THEN <<to>> ELSE <<>>)

RECURSIVE Atomize(_, _, _, _)
Atomize(t, from, to, seps) ==
    LET Pieces(bounds) ==
            FoldLeft(\o, <<>>,
                     [i \in 1..Len(bounds) - 1 |-> Atomize(t, bounds[i], bounds[i + 1], Tail(seps))])
        AtCuts(cuts) ==
            IF cuts = <<>> THEN Atomize(t, from, to, Tail(seps))
            ELSE Pieces(PieceBounds(from, [i \in DOMAIN cuts |-> cuts[i] + Len(Head(seps))], to))
    IN IF to - from <= ChunkSize \/ seps = <<>> THEN <<<<from, to>>>>
       ELSE IF Head(seps) = <<>> THEN HardCuts(from, to)
       ELSE AtCuts(FindAll(t, from, to, Head(seps)))

BodyOverlap == IF ChunkOverlap >= ChunkSize THEN ChunkSize \div 4 ELSE ChunkOverlap

Pack(atoms) ==
    LET Fill(acc, a) ==
            IF acc # <<>> /\ a[2] - Last(acc)[1] <= ChunkSize
              THEN [acc EXCEPT ![Len(acc)][2] = a[2]]
              ELSE Append(acc, a)
        Extend(acc, c) ==
            IF acc = <<>> THEN <<c>>
            ELSE Append(acc, <<IF c[1] - BodyOverlap < Last(acc)[1] THEN Last(acc)[1] ELSE c[1] - BodyOverlap,
                               c[2]>>)
    IN FoldLeft(Extend, <<>>, FoldLeft(Fill, <<>>, atoms))

TextAt(t, ranges) ==
    [i \in DOMAIN ranges |->
        [off |-> ranges[i][1], runes |-> SubSeq(t, ranges[i][1] + 1, ranges[i][2])]]

SplitText(t) == IF t = <<>> THEN <<>> ELSE TextAt(t, Pack(Atomize(t, 0, Len(t), Seps)))

-----------------------------------------------------------------------------
(***************************************************************************)
(* MarkdownSplitter.Split.  The place of a chunk in the result is its ord, *)
(* start + off its CharStart.                                              *)
(***************************************************************************)
ChunkOf(s, whole, off, runes) ==
    [chapter |-> s.chapter, question |-> s.question, whole |-> whole,
     start |-> s.start, off |-> off, runes |-> runes]

PrefixLen(s) == Len(s.chapter) + Len(s.question) + LabelSize

\* A block of code is one chunk, however long it is.
PieceChunks(s, segment, subs) ==
    [i \in DOMAIN subs |-> ChunkOf(s, FALSE, segment.off + subs[i].off, subs[i].runes)]

SegmentChunks(s, segment) ==
    IF segment.code THEN <<ChunkOf(s, FALSE, segment.off, segment.runes)>>
    ELSE PieceChunks(s, segment, SplitText(segment.runes))

CutSection(s) ==
    IF Len(s.body) + PrefixLen(s) <= ChunkSize
      THEN <<ChunkOf(s, TRUE, 0, s.body)>>
      ELSE FoldLeft(LAMBDA cs, g : cs \o SegmentChunks(s, g), <<>>, SplitByFences(s.body))

SplitMarkdown(t) ==
    FoldLeft(LAMBDA cs, s : cs \o CutSection(s), <<>>, ExtractSections(Stripped(t)))

-----------------------------------------------------------------------------
(***************************************************************************)
(* What a reader of the chunks relies on, said of the stripped text.       *)
(***************************************************************************)

\* Where a chunk's runes really lie: CharStart forgets the blanks that were trimmed
\* in front of the body.
BodyAt(t, start) == Min({i \in start + 1..Len(t) : ~Blank(t[i])}) - 1
RealStart(t, c) == BodyAt(t, c.start) + c.off
Span(t, c) == RealStart(t, c)..RealStart(t, c) + Len(c.runes) - 1

\* The lines of the answers, by looking back from each: the last heading before it
\* that is not code asks a question.
AnswerLines(ls) ==
    LET Fences(k) == {j \in 1..k : Starts(TrimSpace(ls[j]), "fence")}
        headings == {k \in DOMAIN ls : /\ Starts(ls[k], "##") \/ Starts(ls[k], "###")
                                       /\ Cardinality(Fences(k)) % 2 = 0}
    IN {k \in DOMAIN ls \ headings :
          \E h \in headings : /\ h < k
                              /\ \A j \in headings : j <= h \/ k < j
                              /\ Starts(ls[h], "###") /\ ~IsBlank(Tail(ls[h]))}

\* Every word of an answer is in a chunk, at its place.
NoWordIsLost(t, chunks) ==
    LET off == LineOffs(t)
        ls == TextLines(t)
    IN \A k \in AnswerLines(ls) : \A p \in off[k]..off[k] + Len(ls[k]) - 1 :
          Blank(t[p + 1]) \/ \E i \in DOMAIN chunks :
              /\ p \in Span(t, chunks[i])
              /\ chunks[i].runes[p - RealStart(t, chunks[i]) + 1] = t[p + 1]

\* A fence at the start of a line is in a chunk that starts with a fence and ends
\* with the next one, or with the answer.
FencesStayWhole(t, chunks) ==
    \A i \in DOMAIN chunks :
        LET c == chunks[i]
            fences == {p \in Span(t, c) : /\ t[p + 1] = "fence"
                                          /\ p = BodyAt(t, c.start) \/ t[p] = "nl"}
        IN c.whole \/ fences = {}
           \/ /\ RealStart(t, c) \in fences
              /\ \/ Cardinality(fences) = 2 /\ Starts(Last(TextLines(c.runes)), "fence")
                 \/ Cardinality(fences) = 1 /\ \A j \in i + 1..Len(chunks) : chunks[j].start # c.start

\* A chunk of prose fits, up to what it repeats of the one before.
ChunksFit(chunks) ==
    \A i \in DOMAIN chunks :
        Len(chunks[i].runes) <= ChunkSize + BodyOverlap \/ Starts(chunks[i].runes, "fence")

CutWhole(t, chunks) == NoWordIsLost(t, chunks) /\ FencesStayWhole(t, chunks) /\ ChunksFit(chunks)

\* Cutting a file for the index loses no word of an answer, tears no block of code and
\* makes no piece of prose longer than asked for, for whatever the file looks like.
ChunksAreWhole == CutWhole(Stripped(Joined(markdown)), SplitMarkdown(Joined(markdown)))

ChunkerSpec == ChunkerInit /\ [][ChunkerNext]_chunkerVars
=============================================================================
