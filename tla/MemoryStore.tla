---------------------------- MODULE MemoryStore ----------------------------
(***************************************************************************)
(* The user's long-term memory file (internal/memory/store.go) and those   *)
(* who write it: the user in an editor, with the hash of what it shows     *)
(* (service/memory.go, handler/memory.go), and the agent with the remember *)
(* tool (agent/tools/memory.go), from the snippet it was given at the      *)
(* start of its turn (runtimectx/memory_middleware.go).                    *)
(*                                                                         *)
(* A file is its sequence of lines without the blank ones: a heading, or   *)
(* an entry, with the dates in brackets that stand in front of its text.   *)
(* The registry gives everybody the same store, so one lock: every         *)
(* operation of the store is one step.  Hashes are the contents.           *)
(***************************************************************************)
EXTENDS Naturals, Sequences, FiniteSets, SequencesExt

CONSTANTS
    MemoryTabs,     \* open editors of the user
    Entries,        \* lines somebody may type, as entries
    FirstFiles,     \* contents the file may have at the start, old formats included
    Days,           \* headings that are dates, 1..n, in the order of the calendar
    MaxLines,       \* stands for MaxBytes
    MaxWrites

ASSUME MemoryAssumption ==
    /\ Days \in Nat \ {0} /\ MaxLines \in Nat /\ MaxWrites \in Nat
    /\ \A e \in Entries : e.dates \in Seq(1..Days)

Heading(h) == [heading |-> h, dates |-> <<>>, text |-> ""]
Entry(dates, text) == [heading |-> 0, dates |-> dates, text |-> text]
IsHeading(line) == line.heading # 0

-----------------------------------------------------------------------------
(***************************************************************************)
(* Structure: groups are [heading, entries], the one without a heading has *)
(* heading 0.                                                              *)
(***************************************************************************)
GroupAt(groups, h) == SelectInSeq(groups, LAMBDA g : g.heading = h)

EnsureGroup(groups, h) ==
    IF GroupAt(groups, h) = 0 THEN Append(groups, [heading |-> h, entries |-> <<>>]) ELSE groups

AddTo(groups, h, entries) ==
    LET all == EnsureGroup(groups, h)
    IN [all EXCEPT ![GroupAt(all, h)].entries = @ \o entries]

\* One line: a heading opens its group; an old-style line goes to the date in front of
\* it, which is taken off; anything else to the open group, or stays loose.
ParseLine(acc, line) ==
    IF IsHeading(line)
    THEN [acc EXCEPT !.groups = EnsureGroup(@, line.heading), !.open = line.heading]
    ELSE IF line.dates # <<>>
    THEN [acc EXCEPT !.groups = AddTo(@, Head(line.dates), <<Entry(Tail(line.dates), line.text)>>)]
    ELSE IF acc.open = 0 THEN [acc EXCEPT !.loose = Append(@, line)]
    ELSE [acc EXCEPT !.groups = AddTo(@, acc.open, <<line>>)]

ParseGroups(content) == FoldLeft(ParseLine, [groups |-> <<>>, loose |-> <<>>, open |-> 0], content)

RenderGroup(g) ==
    IF g.entries = <<>> THEN <<>>
    ELSE IF g.heading = 0 THEN g.entries ELSE <<Heading(g.heading)>> \o g.entries

RenderGroups(groups) == FlattenSeq([i \in DOMAIN groups |-> RenderGroup(groups[i])])

Restructure(content) ==
    LET p == ParseGroups(content)
    IN RenderGroups(<<[heading |-> 0, entries |-> p.loose]>> \o p.groups)

Canonicalize(content, day) ==
    LET p == ParseGroups(content)
    IN RenderGroups(IF p.loose = <<>> THEN p.groups ELSE AddTo(p.groups, day, p.loose))

AppendEntry(content, entry, day) ==
    LET p == ParseGroups(content)
    IN RenderGroups(AddTo(p.groups, day, Append(p.loose, entry)))

CheckSize(content) == Len(content) <= MaxLines

-----------------------------------------------------------------------------
VARIABLES
    stored,         \* memory.md
    shown,          \* per editor, the content it shows, which is also the hash it holds
    told,           \* the content in the snippet of the running turn
    today,
    writes,
    filed,          \* history: per text, the headings it was ever given by an author
    overlooked      \* history: texts that an editor's save or an append dropped unseen

memoryVars == <<stored, shown, told, today, writes, filed, overlooked>>

TextsOf(content) == {content[i].text : i \in {j \in DOMAIN content : ~IsHeading(content[j])}}

\* The texts of a canonical content under one heading.
Under(content, h) ==
    LET gs == ParseGroups(content).groups
    IN IF GroupAt(gs, h) = 0 THEN {} ELSE TextsOf(gs[GroupAt(gs, h)].entries)

\* What the author of a content says about the place of each text: the dates typed in
\* front of it, the heading above it, or nothing, which means the day of the write.
Says(content, day) ==
    [t \in {e.text : e \in Entries} |->
        UNION {Range(content[i].dates) : i \in {j \in DOMAIN content : content[j].text = t}}
        \cup {h \in 1..Days : \E i \in DOMAIN content :
                /\ content[i].text = t /\ content[i].dates = <<>> /\ ~IsHeading(content[i])
                /\ LET above == {j \in 1..i : IsHeading(content[j])}
                   IN IF above = {} THEN h = day
                      ELSE h = content[CHOOSE j \in above : \A k \in above : k <= j].heading}]

MemoryTypeOK ==
    /\ stored \in Seq([heading : 0..Days, dates : Seq(1..Days), text : STRING])
    /\ today \in 1..Days /\ writes \in 0..MaxWrites

MemoryInit ==
    /\ stored \in FirstFiles
    /\ shown = [u \in MemoryTabs |-> Restructure(stored)] /\ told = Restructure(stored)
    /\ today = 1 /\ writes = 0
    /\ filed = Says(stored, 1) /\ overlooked = {}

\* The store replaces the file, on behalf of an author who submitted `content'.
WriteLocked(new, content) ==
    /\ stored' = new
    /\ writes' = writes + 1
    /\ filed' = LET says == Says(content, today)
                IN [t \in DOMAIN filed |-> filed[t] \cup says[t]]

Drops(new, seen) == overlooked' = overlooked \cup ((TextsOf(stored) \ TextsOf(new)) \ TextsOf(seen))

\* One line more, at either end, or one less.
EditsOf(content) ==
    UNION {{Append(content, e), <<e>> \o content} : e \in Entries}
    \cup {RemoveAt(content, i) : i \in DOMAIN content}

OpenEditor(u) ==
    /\ shown' = [shown EXCEPT ![u] = Restructure(stored)]
    /\ UNCHANGED <<stored, told, today, writes, filed, overlooked>>

\* Mutant: the hash is not compared.
HashMatches_Any(seen) == seen \in Seq([heading : 0..Days, dates : Seq(1..Days), text : STRING])

\* Restructure(stored) is the content a read returns and the hash it carries.
HashMatches(seen) == seen = Restructure(stored)

UserSaves(u, content) ==
    /\ writes < MaxWrites
    /\ content \in EditsOf(shown[u])
    /\ LET new == Canonicalize(content, today)
       IN /\ CheckSize(new)
          /\ HashMatches(shown[u])
          /\ WriteLocked(new, content) /\ Drops(new, shown[u])
          /\ shown' = [shown EXCEPT ![u] = new]
    /\ UNCHANGED <<told, today>>

\* MemoryMiddleware.BeforeAgent.
TurnBegins ==
    /\ told' = Restructure(stored)
    /\ UNCHANGED <<stored, shown, today, writes, filed, overlooked>>

\* remember, append: the answer carries the new content.
Remember(entry) ==
    /\ writes < MaxWrites
    /\ LET seen == Restructure(stored)
           new == AppendEntry(seen, entry, today)
       IN /\ CheckSize(new)
          /\ WriteLocked(new, Append(ParseGroups(seen).loose, entry)) /\ Drops(new, seen)
          /\ told' = new
    /\ UNCHANGED <<shown, today>>

\* A full file is told with its content, and so is the way out of it.
RememberFull(entry) ==
    /\ ~CheckSize(AppendEntry(Restructure(stored), entry, today))
    /\ told' = Restructure(stored)
    /\ UNCHANGED <<stored, shown, today, writes, filed, overlooked>>

\* remember, rewrite: no hash is asked for.
Rewrite(content) ==
    /\ writes < MaxWrites
    /\ content \in EditsOf(told)
    /\ LET new == Canonicalize(content, today)
       IN CheckSize(new) /\ WriteLocked(new, content) /\ told' = new
    /\ UNCHANGED <<shown, today, overlooked>>

NextDay ==
    /\ today < Days /\ today' = today + 1
    /\ UNCHANGED <<stored, shown, told, writes, filed, overlooked>>

MemoryNext ==
    \/ \E u \in MemoryTabs : \/ OpenEditor(u)
                           \/ \E content \in EditsOf(shown[u]) : UserSaves(u, content)
    \/ TurnBegins \/ NextDay
    \/ \E e \in Entries : Remember(e) \/ RememberFull(e)
    \/ \E content \in EditsOf(told) : Rewrite(content)

MemorySpec == MemoryInit /\ [][MemoryNext]_memoryVars

-----------------------------------------------------------------------------
\* Restructuring, migrating and saving never refile an entry: each one stands under
\* the day on which it was first written without a date, or where an author put it.
DatesAreKept ==
    \A h \in 1..Days : \A t \in Under(stored, h) : h \in filed[t]

\* A save from an editor and an append never drop an entry their author had not
\* seen.  (A rewrite by the agent, which asks for no hash, may.)
NothingIsOverlooked == overlooked = {}

\* TestCanonicalizeIsIdempotent: what a write left on disk reads back as it was returned to
\* its author, and another save of it changes nothing -- unless a line still has a date
\* in front: only the first of two is taken off, and the next read refiles the line.
SavingTwiceChangesNothing ==
    (writes > 0 /\ \A i \in DOMAIN stored : stored[i].dates = <<>>)
        => Canonicalize(stored, today) = stored /\ Restructure(stored) = stored

\* All three: nothing remembered is refiled, nothing is dropped unseen, and a file stays
\* as it was saved.
MemoryIsKept == DatesAreKept /\ NothingIsOverlooked /\ SavingTwiceChangesNothing
=============================================================================
