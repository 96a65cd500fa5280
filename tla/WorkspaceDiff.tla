---------------------------- MODULE WorkspaceDiff -----------------------------
(***************************************************************************)
(* The changes panel (internal/service/workspace_diff.go over              *)
(* internal/workspacegit): what changed in a workspace, either against     *)
(* git's HEAD (scope "all") or against the baselines of the agent's        *)
(* present turn (scope "agent"), as a list of files and as the diff of one *)
(* of them.  The two scopes reach their answers by different code.         *)
(*                                                                         *)
(* git is modelled from the commands the code runs: porcelain v1 status,   *)
(* numstat and diff against HEAD, renames only of equal contents.          *)
(***************************************************************************)
EXTENDS Naturals, Sequences, FiniteSets, SequencesExt, Functions

CONSTANTS
    NumPaths,       \* the paths are 1..NumPaths, in the order of their names
    SensitivePaths, \* those approval.PathIsSensitive knows
    Contents,       \* what a file may hold: its kind and its lines
    FirstCommit,    \* path -> content at HEAD, NoFile when it is not there
    AgentTools,     \* names of tools, "run_command" among them
    MaxListed,      \* maxChangedFiles
    MaxPanelEdits,      \* writes to the disk
    MaxPanelTurns   \* user messages

Paths == 1..NumPaths
NoFile == [kind |-> "none", lines |-> <<>>]
Directory == [kind |-> "dir", lines |-> <<>>]

ASSUME WorkspaceDiffAssumption ==
    /\ \A c \in Contents : c.kind \in {"text", "binary", "large"}
    /\ FirstCommit \in [Paths -> Contents \cup {NoFile}]
    /\ SensitivePaths \subseteq Paths

VARIABLES
    born,           \* HEAD names a commit
    commit,         \* HEAD's content of every path
    staged,         \* the index
    onDisk,           \* content and modification time
    userSeq,        \* LatestUserSeq
    baselines,      \* those of this turn: existed, content, time
    touches         \* WorkspaceChangeEvents of this turn: path and tool

diffVars == <<born, commit, staged, onDisk, userSeq, baselines, touches>>

IsFile(c) == c.kind \notin {"none", "dir"}
NoBaseline == [row |-> FALSE, was |-> NoFile, time |-> 0]

DiffTypeOK ==
    /\ born \in BOOLEAN /\ userSeq \in 0..MaxPanelTurns
    /\ commit \in [Paths -> Contents \cup {NoFile}] /\ staged \in [Paths -> Contents \cup {NoFile}]
    /\ \A p \in Paths : onDisk[p].is \in Contents \cup {NoFile, Directory} /\ onDisk[p].time \in 0..MaxPanelEdits
    /\ \A p \in Paths : baselines[p].row => userSeq > 0 /\ baselines[p].was # Directory
    /\ \A i \in DOMAIN touches : touches[i].path \in Paths /\ baselines[touches[i].path].row

-----------------------------------------------------------------------------
(***************************************************************************)
(* git.                                                                    *)
(***************************************************************************)
\* The lines taken out and put in; the changed lines of the instances lie together.
Patch(old, new) ==
    LET common == {n \in 0..Len(old.lines) : n <= Len(new.lines) /\ IsPrefix(SubSeq(old.lines, 1, n), new.lines)}
        front == CHOOSE n \in common : \A m \in common : m <= n
        tails == {n \in 0..Len(old.lines) - front :
                    n <= Len(new.lines) - front
                    /\ IsSuffix(SubSeq(old.lines, Len(old.lines) - n + 1, Len(old.lines)), new.lines)}
        back == CHOOSE n \in tails : \A m \in tails : m <= n
    IN [del |-> SubSeq(old.lines, front + 1, Len(old.lines) - back),
        add |-> SubSeq(new.lines, front + 1, Len(new.lines) - back)]
EmptyPatch == [del |-> <<>>, add |-> <<>>]

\* git tracks files only: a directory in a file's place is a deleted file.
Working(p) == IF IsFile(onDisk[p].is) THEN onDisk[p].is ELSE NoFile
\* What `git diff HEAD' sees of a path.
Tracked(p) == IF staged[p] = NoFile THEN NoFile ELSE Working(p)

Letter(old, new) ==
    CASE old = new -> " "
      [] old = NoFile -> "A"
      [] new = NoFile -> "D"
      [] OTHER -> "M"

\* Pairs of a path that went and one that came with the same content.
Renames(old, new) ==
    LET gone == {p \in Paths : old[p] # NoFile /\ new[p] = NoFile}
        came == {p \in Paths : old[p] = NoFile /\ new[p] # NoFile}
    IN {<<p, q>> \in gone \X came :
          /\ old[p] = new[q]
          /\ \A r \in gone : r < p => old[r] # new[q]
          /\ \A r \in came : r < q => old[p] # new[r]}

InOrder(ps) == SelectSeq([i \in Paths |-> i], LAMBDA p : p \in ps)

\* The line of one tracked path: X compares HEAD with the index, Y the index with the disk.
TrackedEntry(p, moved) ==
    LET sources == {q \in Paths : <<q, p>> \in moved}
    IN [index |-> IF sources = {} THEN Letter(commit[p], staged[p]) ELSE "R",
        work |-> IF staged[p] = NoFile THEN " " ELSE Letter(staged[p], Working(p)),
        path |-> p, old |-> IF sources = {} THEN 0 ELSE CHOOSE q \in sources : TRUE]

UntrackedEntry(p) == [index |-> "?", work |-> "?", path |-> p, old |-> 0]

\* parseStatus of `status --porcelain=v1': tracked paths, then untracked ones, each in order.
StatusWith(moved) ==
    LET differ == {p \in Paths : commit[p] # staged[p] \/ (staged[p] # NoFile /\ staged[p] # Working(p))}
        tracked == InOrder(differ \ {m[1] : m \in moved})
        untracked == InOrder({p \in Paths : staged[p] = NoFile /\ Working(p) # NoFile})
    IN [i \in DOMAIN tracked |-> TrackedEntry(tracked[i], moved)]
       \o [i \in DOMAIN untracked |-> UntrackedEntry(untracked[i])]

Status == StatusWith(Renames(commit, staged))

StatusPaths(status) == UNION {{status[i].path, status[i].old} : i \in DOMAIN status} \ {0}

\* parseNumStat: nothing before the first commit; a rename is one entry at its new path.
NumStatWith(now, moved) ==
    LET stays == {p \in Paths : commit[p] # now[p] /\ \A m \in moved : p \notin {m[1], m[2]}}
        pairs == {<<p, p>> : p \in stays} \cup moved
    IN {[path |-> m[2], old |-> IF m[1] = m[2] THEN 0 ELSE m[1],
         binary |-> "binary" \in {commit[m[1]].kind, now[m[2]].kind},
         patch |-> Patch(commit[m[1]], now[m[2]])] : m \in pairs}

NumStatOf(now) == IF born THEN NumStatWith(now, Renames(commit, now)) ELSE {}
NumStat == NumStatOf([p \in Paths |-> Tracked(p)])

\* RepositoryStatus: an entry may be both staged and not.
RepositoryCounts(status) ==
    LET tracked == SelectSeq(status, LAMBDA e : e.index # "?")
    IN [changed |-> Len(status), dirty |-> status # <<>>,
        untracked |-> Len(status) - Len(tracked),
        staged |-> Len(SelectSeq(tracked, LAMBDA e : e.index # " ")),
        unstaged |-> Len(SelectSeq(tracked, LAMBDA e : e.work # " "))]

-----------------------------------------------------------------------------
(***************************************************************************)
(* The list and the diff of scope "all".                                   *)
(***************************************************************************)
StatusName(e) ==
    CASE e.index = "?" /\ e.work = "?" -> "added"
      [] "R" \in {e.index, e.work} -> "renamed"
      [] "D" \in {e.index, e.work} -> "deleted"
      [] "A" \in {e.index, e.work} -> "added"
      [] OTHER -> "modified"

Binary(c) == c.kind = "binary"
\* Neither a regular file nor a small one.
TooLarge(c) == c.kind \in {"large", "dir"}

Listing(p, old, status, add, del, binary, tooLarge, tools) ==
    [path |-> p, old |-> old, status |-> status, binary |-> binary, tooLarge |-> tooLarge,
     sensitive |-> p \in SensitivePaths, additions |-> add, deletions |-> del, tools |-> tools]

\* git counts no lines of a binary file.
GitFile(e, status, stats) ==
    LET stat == CHOOSE s \in stats : s.path = e.path
        c == onDisk[e.path].is
        hidden == e.path \in SensitivePaths
    IN IF \E s \in stats : s.path = e.path
       THEN Listing(e.path, IF e.old = 0 THEN stat.old ELSE e.old, status,
                    IF stat.binary \/ hidden THEN 0 ELSE Len(stat.patch.add),
                    IF stat.binary \/ hidden THEN 0 ELSE Len(stat.patch.del), stat.binary, FALSE, <<>>)
       ELSE IF status = "added"
       THEN Listing(e.path, e.old, status, IF c.kind = "text" /\ ~hidden THEN Len(c.lines) ELSE 0, 0,
                    Binary(c), TooLarge(c), <<>>)
       ELSE Listing(e.path, e.old, status, 0, 0, FALSE, FALSE, <<>>)

FirstListed(s) == SubSeq(s, 1, IF Len(s) > MaxListed THEN MaxListed ELSE Len(s))

\* The first MaxListed of them, sorted by path.
GitChangesOf(entries, stats) ==
    SortSeq([i \in DOMAIN entries |-> GitFile(entries[i], StatusName(entries[i]), stats)],
            LAMBDA f, g : f.path < g.path)
GitChanges == GitChangesOf(FirstListed(Status), NumStat)

NotFound == [at |-> "not_found"]
Answer(file, patch) == [at |-> "shown", file |-> file, patch |-> patch]

\* changedFileByPath: the first entry that has the path, or had it before a rename.
EntryFor(files, p) == SelectSeq(files, LAMBDA f : p \in {f.path, f.old})

ShowGitFile(f, p) ==
    IF f.binary \/ f.sensitive \/ f.tooLarge THEN Answer(f, EmptyPatch)
    ELSE IF onDisk[p].is = Directory THEN NotFound
    ELSE IF f.status = "added" THEN Answer(f, Patch(NoFile, onDisk[p].is))
    ELSE IF ~born THEN [at |-> "error"]
    ELSE Answer(f, Patch(commit[p], Tracked(p)))

\* `files' is what gitChanges returns.
GitFileDiff(files, p) ==
    IF EntryFor(files, p) = <<>> THEN NotFound ELSE ShowGitFile(Head(EntryFor(files, p)), p)

-----------------------------------------------------------------------------
(***************************************************************************)
(* The list and the diff of scope "agent".                                 *)
(***************************************************************************)
\* A sensitive or a large file is known by its size and its time only.
BaselineChanged(p) ==
    LET b == baselines[p]
        now == onDisk[p].is
    IN IF (b.was = NoFile) # (now = NoFile) THEN TRUE
       ELSE IF b.was = NoFile THEN FALSE
       ELSE IF p \in SensitivePaths \/ TooLarge(b.was) \/ TooLarge(now)
       THEN Len(b.was.lines) # Len(now.lines) \/ b.time # onDisk[p].time
       ELSE b.was # now

BaselineStatus(was, now) ==
    CASE was = NoFile /\ now # NoFile -> "added"
      [] was # NoFile /\ now = NoFile -> "deleted"
      [] OTHER -> "modified"

\* Mutant: the two headers of the patch are counted too.
CountPatchLines_Headers(patch) ==
    LET headers == IF patch = EmptyPatch THEN 0 ELSE 1
    IN [add |-> Len(patch.add) + headers, del |-> Len(patch.del) + headers]

\* A deleted line that begins with "--", or an added one with "++", looks like a header.
CountPatchLines(patch) ==
    [add |-> Len(SelectSeq(patch.add, LAMBDA l : l # "++")),
     del |-> Len(SelectSeq(patch.del, LAMBDA l : l # "--"))]

\* Each tool once, in the order of its first event.
EventTools(p) ==
    LET mine == SelectSeq(touches, LAMBDA t : t.path = p)
        first == {i \in DOMAIN mine : \A j \in 1..i - 1 : mine[j].tool # mine[i].tool}
    IN [i \in 1..Cardinality(first) |->
          mine[CHOOSE k \in first : Cardinality({j \in first : j <= k}) = i].tool]

AgentFile(p) ==
    LET was == baselines[p].was
        now == onDisk[p].is
        binary == Binary(was) \/ Binary(now)
        tooLarge == TooLarge(was) \/ TooLarge(now)
        counts == CountPatchLines(IF binary \/ tooLarge \/ p \in SensitivePaths THEN EmptyPatch ELSE Patch(was, now))
    IN Listing(p, 0, BaselineStatus(was, now), counts.add, counts.del, binary, tooLarge, EventTools(p))

\* The baselines are read in the order of their paths; a skipped one takes no place.
AgentListed ==
    InOrder({p \in Paths : baselines[p].row /\ onDisk[p].is # Directory /\ BaselineChanged(p)})

AgentChangesOf(listed) == [i \in DOMAIN listed |-> AgentFile(listed[i])]
AgentChanges == AgentChangesOf(FirstListed(AgentListed))

ShowAgentFile(f, p) ==
    Answer(f, IF f.binary \/ f.sensitive \/ f.tooLarge THEN EmptyPatch
              ELSE Patch(baselines[p].was, onDisk[p].is))

AgentFileDiff(p) ==
    IF baselines[p].row /\ BaselineChanged(p) THEN ShowAgentFile(AgentFile(p), p) ELSE NotFound

-----------------------------------------------------------------------------
(***************************************************************************)
(* The user, git and the agent at work.                                    *)
(***************************************************************************)
LastSave == LET times == {onDisk[p].time : p \in Paths} IN CHOOSE t \in times : \A s \in times : s <= t

DiffInit ==
    /\ born \in BOOLEAN
    /\ commit = IF born THEN FirstCommit ELSE [p \in Paths |-> NoFile]
    /\ staged = commit
    /\ onDisk = [p \in Paths |-> [is |-> FirstCommit[p], time |-> 0]]
    /\ userSeq = 0 /\ baselines = [p \in Paths |-> NoBaseline] /\ touches = <<>>

SaveFile(p, c) ==
    /\ LastSave < MaxPanelEdits /\ onDisk[p].is # c
    /\ onDisk' = [onDisk EXCEPT ![p] = [is |-> c, time |-> LastSave + 1]]

UserEdit(p, c) == SaveFile(p, c) /\ UNCHANGED <<born, commit, staged, userSeq, baselines, touches>>

\* A directory is no file: its baseline says there was none.
Snapshot(p) == [row |-> TRUE, was |-> IF onDisk[p].is = Directory THEN NoFile ELSE onDisk[p].is,
                time |-> onDisk[p].time]

\* captureCommand: of a path git had nothing to say about, the baseline is HEAD's blob.
CommandBaseline(p) ==
    IF p \in StatusPaths(Status) THEN Snapshot(p) ELSE [row |-> TRUE, was |-> commit[p], time |-> 0]

KeepBaseline(p, b) ==
    baselines' = IF baselines[p].row THEN baselines ELSE [baselines EXCEPT ![p] = b]

AgentEdit(p, c, tool) ==
    /\ userSeq > 0
    /\ SaveFile(p, c)
    /\ KeepBaseline(p, IF tool = "run_command" THEN CommandBaseline(p) ELSE Snapshot(p))
    /\ touches' = Append(touches, [path |-> p, tool |-> tool])
    /\ UNCHANGED <<born, commit, staged, userSeq>>

\* git add, git rm and git rm --cached.
Stage(p) ==
    /\ staged[p] # Working(p)
    /\ staged' = [staged EXCEPT ![p] = Working(p)]
    /\ UNCHANGED <<born, commit, onDisk, userSeq, baselines, touches>>

Unstage(p) ==
    /\ staged[p] # NoFile
    /\ staged' = [staged EXCEPT ![p] = NoFile]
    /\ UNCHANGED <<born, commit, onDisk, userSeq, baselines, touches>>

Commit ==
    /\ commit # staged
    /\ commit' = staged /\ born' = TRUE
    /\ UNCHANGED <<staged, onDisk, userSeq, baselines, touches>>

PanelTurn ==
    /\ userSeq < MaxPanelTurns
    /\ userSeq' = userSeq + 1
    /\ baselines' = [p \in Paths |-> NoBaseline] /\ touches' = <<>>
    /\ UNCHANGED <<born, commit, staged, onDisk>>

DiffNext ==
    \/ \E p \in Paths, c \in Contents \cup {NoFile, Directory} : UserEdit(p, c)
    \/ \E p \in Paths, c \in Contents \cup {NoFile}, tool \in AgentTools : AgentEdit(p, c, tool)
    \/ \E p \in Paths : Stage(p) \/ Unstage(p)
    \/ Commit
    \/ PanelTurn

DiffSpec == DiffInit /\ [][DiffNext]_diffVars

-----------------------------------------------------------------------------
\* Whatever was edited, staged, renamed or committed, a file that is not what HEAD has is in
\* the list of scope "all", under its name or as the source of a rename, unless the list
\* says it was cut off.
NothingIsHidden(git, cut) ==
    \A p \in Paths : Working(p) # commit[p] => cut \/ EntryFor(git, p) # <<>>

\* The counters beside the branch agree with the list: every entry is counted at least once,
\* and a workspace is clean only when the disk, the index and HEAD hold the same.
CountersAgree(n, git) ==
    /\ Len(git) = (IF n.changed > MaxListed THEN MaxListed ELSE n.changed)
    /\ n.staged + n.unstaged + n.untracked \in n.changed..(2 * n.changed)
    /\ n.dirty <=> \E p \in Paths : commit[p] # staged[p] \/ staged[p] # Working(p)

\* Opening an entry of a list shows that entry, and the lines of its patch are those the
\* list counted: for the agent's list always but for lines that look like headers, for
\* git's unless the path is an end of a rename or is listed twice, where the code takes the
\* first entry that mentions it, or HEAD names no commit yet, where `git diff HEAD' fails.
Looks(patch) == "++" \in Range(patch.add) \/ "--" \in Range(patch.del)
Counts(f) == <<f.additions, f.deletions>>
CountsMatch(f, patch) == Counts(f) = <<Len(patch.add), Len(patch.del)>>

OpensAs(f, d) ==
    /\ d.at = "shown" /\ d.file = f
    /\ f.sensitive \/ f.tooLarge \/ f.binary \/ CountsMatch(f, d.patch) \/ (f.tools # <<>> /\ Looks(d.patch))

AgentListOpens(mine) == \A f \in Range(mine) : f.tools # <<>> /\ OpensAs(f, AgentFileDiff(f.path))

GitListOpens(git, stats) ==
    \A f \in Range(git) :
        \/ Len(EntryFor(git, f.path)) > 1 \/ f.old # 0 \/ \E s \in stats : s.old = f.path
        \/ ~born /\ f.status # "added"
        \/ OpensAs(f, GitFileDiff(git, f.path))
        \/ onDisk[f.path].is = Directory /\ GitFileDiff(git, f.path) = NotFound

\* The two scopes agree: a small file whose baseline is what HEAD and the index have is in
\* both lists or in neither, with the same status and the same counts.
SameStory(mine, gits, patch) ==
    /\ Len(mine) = Len(gits)
    /\ mine # <<>> => /\ Head(mine).status = Head(gits).status
                      /\ Looks(patch) \/ Counts(Head(mine)) = Counts(Head(gits))

ScopesAgree(mine, git) ==
    \A p \in Paths :
        LET was == baselines[p].was
        IN /\ born /\ baselines[p].row /\ p \notin SensitivePaths
           /\ was = commit[p] /\ was = staged[p] /\ {was.kind, onDisk[p].is.kind} \subseteq {"text", "none"}
           /\ \A f \in Range(git) : p \in {f.path, f.old} => f.old = 0
           => SameStory(SelectSeq(mine, LAMBDA f : f.path = p), EntryFor(git, p), Patch(was, onDisk[p].is))

\* All of it: what the panel lists, counts and opens and what changed are one story.
OneStory(git, mine, stats, counts, mineCut) ==
    /\ NothingIsHidden(git, counts.changed > MaxListed)
    /\ CountersAgree(counts, git)
    /\ AgentListOpens(mine)
    /\ GitListOpens(git, stats)
    /\ counts.changed > MaxListed \/ mineCut \/ ScopesAgree(mine, git)

PanelIsConsistent ==
    OneStory(GitChanges, AgentChanges, NumStat, RepositoryCounts(Status), Len(AgentListed) > MaxListed)
=============================================================================
