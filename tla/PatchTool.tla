----------------------------- MODULE PatchTool -----------------------------
(***************************************************************************)
(* read_file, write_file and apply_patch on one text file that several     *)
(* hands edit: the calls of one batch run at the same time, and the user   *)
(* and other programs write the file too.  Nothing is locked.  A read      *)
(* hands out an observed_state (size and modification time, here a version *)
(* that every write renews) which a later write or patch may bring back as *)
(* a guard; a patch finds its place in the file by the lines around it.    *)
(*                                                                         *)
(* A line is its text and whether white space trails it.  A file is the    *)
(* sequence of its lines; line ends, modes and size limits are left out.   *)
(***************************************************************************)
EXTENDS Naturals, Sequences, FiniteSets, FiniteSetsExt, SequencesExt

CONSTANTS
    Editors,        \* the hands that edit the file
    Texts,          \* the texts a line may have
    FirstLines,     \* the file at the start
    Patches,        \* the patches the model writes: sequences of rows
    Drafts,         \* the contents write_file is given
    MaxEdits        \* edits begun in all

Line == [text : Texts, pad : BOOLEAN]

\* The prefixes a patch row may have; "*" is a header of another patch format, "end"
\* its last line, "nonl" the no-newline marker and "bad" anything else.
Tags == {"@@", "ctx", "del", "add", "nonl", "*", "end", "bad"}
PatchRow == [tag : Tags, line : Line]

ASSUME PatchAssumption ==
    /\ FirstLines \in Seq(Line)
    /\ Patches \subseteq Seq(PatchRow)
    /\ Drafts \subseteq Seq(Line)
    /\ MaxEdits \in Nat

-----------------------------------------------------------------------------
(***************************************************************************)
(* Parsing: rows into hunks, each with its old and its new lines.          *)
(***************************************************************************)
NoHunk == [old |-> <<>>, new |-> <<>>, changes |-> 0]

Flush(acc) ==
    IF ~acc.open THEN acc
    ELSE [acc EXCEPT !.ok = @ /\ acc.hunk.changes > 0 /\ acc.hunk.old # <<>>,
                     !.hunks = Append(@, acc.hunk), !.open = FALSE]

Extend(acc, old, new, changes) ==
    [acc EXCEPT !.hunk = [old |-> @.old \o old, new |-> @.new \o new,
                          changes |-> @.changes + changes]]

ParseRow(acc, row) ==
    CASE row.tag = "end" -> Flush(acc)
      [] row.tag = "@@" -> [Flush(acc) EXCEPT !.open = TRUE, !.hunk = NoHunk]
      [] row.tag = "*" /\ ~acc.open -> acc
      [] row.tag = "nonl" /\ acc.open -> acc
      [] row.tag = "ctx" /\ acc.open -> Extend(acc, <<row.line>>, <<row.line>>, 0)
      [] row.tag = "del" /\ acc.open -> Extend(acc, <<row.line>>, <<>>, 1)
      [] row.tag = "add" /\ acc.open -> Extend(acc, <<>>, <<row.line>>, 1)
      [] OTHER -> [acc EXCEPT !.ok = FALSE]

ParseContextPatch(rows) ==
    LET parsed == Flush(FoldLeft(ParseRow,
            [ok |-> TRUE, open |-> FALSE, hunk |-> NoHunk, hunks |-> <<>>], rows))
    IN [ok |-> parsed.ok /\ parsed.hunks # <<>>, hunks |-> parsed.hunks]

-----------------------------------------------------------------------------
(***************************************************************************)
(* Placing: an exact match that is the only one or, when there is none, a  *)
(* window whose lines agree with the hunk's well enough, weighted by how   *)
(* rare each line is in the file.                                          *)
(***************************************************************************)
Windows(lines, old) ==
    IF old = <<>> \/ Len(old) > Len(lines) THEN {} ELSE 0..(Len(lines) - Len(old))

MatchingLineRanges(lines, old) ==
    {at \in Windows(lines, old) : \A j \in DOMAIN old : lines[at + j] = old[j]}

LineEqForMatch(a, b) == a.text = b.text

LineFreq(lines, line) == Cardinality({i \in DOMAIN lines : lines[i] = line})

LineDistinctValue(lines, line) ==
    LET freq == LineFreq(lines, line)
    IN IF freq <= 1 THEN 4 ELSE IF freq <= 2 THEN 3 ELSE IF freq <= 4 THEN 2 ELSE 1

Agreeing(lines, old, at) ==
    {j \in DOMAIN old : LineEqForMatch(lines[at + j], old[j])}

WeightOf(lines, old, rows) ==
    MapThenSumSet(LAMBDA j : LineDistinctValue(lines, old[j]), rows)

Score(lines, old, at) == WeightOf(lines, old, Agreeing(lines, old, at))

\* At least 0.55 of the weight, an agreeing line that is not common, and no window
\* that does as well.
BestMatchPosition(lines, old) ==
    {at \in Windows(lines, old) :
        /\ Score(lines, old, at) > 0
        /\ 100 * Score(lines, old, at) >= 55 * WeightOf(lines, old, DOMAIN old)
        /\ \E j \in Agreeing(lines, old, at) : LineDistinctValue(lines, old[j]) >= 2
        /\ \A other \in Windows(lines, old) \ {at} :
            Score(lines, old, other) < Score(lines, old, at)}

PlaceOf(lines, old) ==
    IF MatchingLineRanges(lines, old) # {}
      THEN MatchingLineRanges(lines, old)
      ELSE BestMatchPosition(lines, old)

ApplyHunk(acc, hunk) ==
    LET places == PlaceOf(acc.lines, hunk.old)
    IN IF ~acc.ok \/ Cardinality(places) # 1 THEN [acc EXCEPT !.ok = FALSE]
       ELSE LET at == CHOOSE p \in places : TRUE
            IN [ok |-> TRUE,
                lines |-> SubSeq(acc.lines, 1, at) \o hunk.new
                          \o SubSeq(acc.lines, at + Len(hunk.old) + 1, Len(acc.lines))]

\* All hunks in memory, one after the other, or nothing.
ApplyContextPatch(lines, hunks) ==
    FoldLeft(ApplyHunk, [ok |-> TRUE, lines |-> lines], hunks)

-----------------------------------------------------------------------------
VARIABLES
    lines,          \* the content of the file
    version,        \* its observed_state, as it would be computed now
    editor,         \* what every editor is doing
    seen,           \* what the model of every editor was told by its last read
    edits,          \* edits begun
    lastEdit         \* history: the last edit that got past its guard

patchVars == <<lines, version, editor, seen, edits, lastEdit>>

AtRest == [pc |-> "rest", ver |-> 0, guarded |-> FALSE, hunks |-> <<>>,
           raw |-> <<>>, next |-> <<>>]
Unread == [ver |-> 0, lines |-> <<>>]
NothingStarted == [guarded |-> FALSE, base |-> <<>>, saw |-> <<>>]

PatchTypeOK ==
    /\ lines \in Seq(Line)
    /\ version \in Nat
    /\ \A e \in Editors :
        /\ editor[e].pc \in {"rest", "statted", "loaded", "verified", "checked",
                             "writing", "emptied"}
        /\ editor[e].raw \in Seq(Line) /\ editor[e].next \in Seq(Line)
        /\ seen[e].ver \in 0..version /\ seen[e].lines \in Seq(Line)
    /\ edits \in 0..MaxEdits

PatchInit ==
    /\ lines = FirstLines /\ version = 1
    /\ editor = [e \in Editors |-> AtRest]
    /\ seen = [e \in Editors |-> Unread]
    /\ edits = 0 /\ lastEdit = NothingStarted

Doing(e, pc) == editor[e].pc = pc
Becomes(e, state) == editor' = [editor EXCEPT ![e] = state]

\* read_file: the state is taken before the content is.
StatForRead(e) ==
    /\ Doing(e, "rest")
    /\ Becomes(e, [AtRest EXCEPT !.pc = "statted", !.ver = version])
    /\ UNCHANGED <<lines, version, seen, edits, lastEdit>>

ReadContent(e) ==
    /\ Doing(e, "statted")
    /\ seen' = [seen EXCEPT ![e] = [ver |-> editor[e].ver, lines |-> lines]]
    /\ Becomes(e, AtRest)
    /\ UNCHANGED <<lines, version, edits, lastEdit>>

\* Mutant: the guard is never compared.
VerifyObservedState_Any(e, guarded) == guarded => seen[e].ver <= version

\* The guard is left out or brings back the state of the last read.
VerifyObservedState(e, guarded) == guarded => version = seen[e].ver

BeginEdit(guarded, e) ==
    /\ Doing(e, "rest")
    /\ edits < MaxEdits
    /\ edits' = edits + 1
    /\ guarded => seen[e] # Unread

\* apply_patch: the content is taken first, then the guard is tested and the
\* patch applied in memory.
LoadForPatch(e, patch, guarded) ==
    /\ BeginEdit(guarded, e)
    /\ ParseContextPatch(patch).ok
    /\ Becomes(e, [AtRest EXCEPT !.pc = "loaded", !.guarded = guarded, !.raw = lines,
                                 !.hunks = ParseContextPatch(patch).hunks])
    /\ UNCHANGED <<lines, version, seen, lastEdit>>

ComputePatch(e) ==
    /\ Doing(e, "loaded")
    /\ LET result == ApplyContextPatch(editor[e].raw, editor[e].hunks)
       IN IF /\ VerifyObservedState(e, editor[e].guarded)
             /\ result.ok
             /\ result.lines # editor[e].raw
            THEN /\ Becomes(e, [editor[e] EXCEPT !.pc = "verified",
                                    !.hunks = <<>>, !.next = result.lines])
                 /\ lastEdit' = [guarded |-> editor[e].guarded, base |-> editor[e].raw,
                                saw |-> seen[e].lines]
            ELSE Becomes(e, AtRest) /\ UNCHANGED lastEdit
    /\ UNCHANGED <<lines, version, seen, edits>>

\* The file is read once more before the rename.
RecheckPatch(e) ==
    /\ Doing(e, "verified")
    /\ Becomes(e, IF lines = editor[e].raw THEN [editor[e] EXCEPT !.pc = "checked"]
                                           ELSE AtRest)
    /\ UNCHANGED <<lines, version, seen, edits, lastEdit>>

RenamePatched(e) ==
    /\ Doing(e, "checked")
    /\ lines' = editor[e].next
    /\ version' = version + 1
    /\ Becomes(e, AtRest)
    /\ UNCHANGED <<seen, edits, lastEdit>>

\* write_file: the guard, then a write that empties the file before it fills it.
VerifyWrite(e, draft, guarded) ==
    /\ BeginEdit(guarded, e)
    /\ VerifyObservedState(e, guarded)
    /\ Becomes(e, [AtRest EXCEPT !.pc = "writing", !.next = draft])
    /\ lastEdit' = [guarded |-> guarded, base |-> lines, saw |-> seen[e].lines]
    /\ UNCHANGED <<lines, version, seen>>

EmptyFile(e) ==
    /\ Doing(e, "writing")
    /\ lines' = <<>>
    /\ version' = version + 1
    /\ Becomes(e, [editor[e] EXCEPT !.pc = "emptied"])
    /\ UNCHANGED <<seen, edits, lastEdit>>

FillFile(e) ==
    /\ Doing(e, "emptied")
    /\ lines' = editor[e].next
    /\ version' = version + 1
    /\ Becomes(e, AtRest)
    /\ UNCHANGED <<seen, edits, lastEdit>>

PatchNext ==
    \E e \in Editors :
        \/ StatForRead(e) \/ ReadContent(e)
        \/ \E patch \in Patches, guarded \in BOOLEAN : LoadForPatch(e, patch, guarded)
        \/ ComputePatch(e) \/ RecheckPatch(e) \/ RenamePatched(e)
        \/ \E draft \in Drafts, guarded \in BOOLEAN : VerifyWrite(e, draft, guarded)
        \/ EmptyFile(e) \/ FillFile(e)

PatchSpec == PatchInit /\ [][PatchNext]_patchVars

-----------------------------------------------------------------------------
\* An edit that brings back the observed_state of a read is made from the content
\* that read has shown, whatever was written before, between and after the steps
\* of the read and of the edit.
GuardedEditsKnowTheirBase == lastEdit.guarded => lastEdit.base = lastEdit.saw
=============================================================================
