------------------------------- MODULE MCDesk -------------------------------
(***************************************************************************)
(* Small instances of the components around the chat runtime.  They share  *)
(* no state: a behaviour picks one of them, `focus', and steps it while    *)
(* the others rest in one of their initial states.                         *)
(***************************************************************************)
EXTENDS ApprovalPolicy, ShellClass, FileTools, ChunkedWrite, PatchTool, WorkPlan,
        ChangeGate, OAuthTokens, MemoryStore, BrowserBridge, History,
        SkillHub, BrowserPool, WorkspaceDiff, Projects, Retrieval

VARIABLE focus

Parts == {"policy", "shell", "files", "chunks", "patch", "plan", "gate", "oauth",
          "memory", "bridge", "history", "skills", "pool", "diff", "folders", "removals",
          "cuts", "bank"}

deskVars == <<policyVars, shellVars, fileVars, chunkVars, patchVars, planVars,
              gateVars, oauthVars, memoryVars, bridgeVars, historyVars,
              skillVars, poolVars, diffVars, projectVars, chunkerVars, retrievalVars,
              focus>>

DeskInit ==
    /\ focus \in Parts
    /\ PolicyInit /\ ShellInit /\ FileInit /\ ChunkInit /\ PatchInit /\ PlanInit
    /\ GateInit /\ OAuthInit /\ MemoryInit /\ BridgeInit /\ HistoryInit
    /\ SkillInit /\ PoolInit /\ DiffInit /\ ProjectInit /\ ChunkerInit /\ RetrievalInit
    /\ focus # "policy" => stage = "none"
    /\ focus # "gate" => Dirty = {}
    /\ focus # "memory" => stored = <<>>
    /\ focus # "history" => rows = <<>> /\ keep = 0
    /\ focus # "diff" => born
    /\ focus # "removals" => \A c \in Chats : ~chat[c].here
    /\ focus # "folders" => workspaceOf[1] = "a" /\ \A l \in Links : leadsTo[l] = "a"

Others(part) ==
    /\ focus = part
    /\ UNCHANGED focus
    /\ part # "policy" => UNCHANGED policyVars
    /\ part # "shell" => UNCHANGED shellVars
    /\ part # "files" => UNCHANGED fileVars
    /\ part # "chunks" => UNCHANGED chunkVars
    /\ part # "patch" => UNCHANGED patchVars
    /\ part # "plan" => UNCHANGED planVars
    /\ part # "gate" => UNCHANGED gateVars
    /\ part # "oauth" => UNCHANGED oauthVars
    /\ part # "memory" => UNCHANGED memoryVars
    /\ part # "bridge" => UNCHANGED bridgeVars
    /\ part # "history" => UNCHANGED historyVars
    /\ part # "skills" => UNCHANGED skillVars
    /\ part # "pool" => UNCHANGED poolVars
    /\ part # "diff" => UNCHANGED diffVars
    /\ part \notin {"folders", "removals"} => UNCHANGED projectVars
    /\ part # "cuts" => UNCHANGED chunkerVars
    /\ part # "bank" => UNCHANGED retrievalVars

DeskNext ==
    \/ Others("policy") /\ PolicyNext
    \/ Others("shell") /\ ShellNext
    \/ Others("files") /\ FileNext
    \/ Others("chunks") /\ ChunkNext
    \/ Others("patch") /\ PatchNext
    \/ Others("plan") /\ PlanNext
    \/ Others("gate") /\ GateNext
    \/ Others("oauth") /\ OAuthNext
    \/ Others("memory") /\ MemoryNext
    \/ Others("bridge") /\ BridgeNext
    \/ Others("history") /\ HistoryNext
    \/ Others("skills") /\ SkillNext
    \/ Others("pool") /\ PoolNext
    \/ Others("diff") /\ DiffNext
    \/ Others("folders") /\ (FolderNext \/ RemovalNext)
    \/ Others("removals") /\ (ChatNext \/ RemovalNext \/ Restart)
    \/ Others("cuts") /\ ChunkerNext
    \/ Others("bank") /\ RetrievalNext

DeskSpec == DeskInit /\ [][DeskNext]_deskVars

\* Every component keeps the types of its state: the stores, sessions, files and
\* the counters of the completion gate, which stops asking after three attempts.
TypesOK ==
    CASE focus = "policy" -> PolicyTypeOK
      [] focus = "shell" -> ShellTypeOK
      [] focus = "files" -> FileTypeOK
      [] focus = "chunks" -> ChunkTypeOK
      [] focus = "patch" -> PatchTypeOK
      [] focus = "plan" -> PlanTypeOK
      [] focus = "gate" -> GateTypeOK
      [] focus = "oauth" -> OAuthTypeOK
      [] focus = "memory" -> MemoryTypeOK
      [] focus = "bridge" -> BridgeTypeOK
      [] focus = "history" -> HistoryTypeOK
      [] focus = "skills" -> SkillTypeOK
      [] focus = "pool" -> PoolTypeOK
      [] focus = "diff" -> DiffTypeOK
      [] focus \in {"folders", "removals"} -> ProjectTypeOK
      [] focus = "cuts" -> ChunkerTypeOK
      [] focus = "bank" -> RetrievalTypeOK

\* The panel over a workspace's changes tells one story, whatever is edited, staged and
\* committed.  Two of the invariants are costly and looked at only where their component
\* moves: everywhere else it is in one of its initial states.
PanelStaysConsistent == focus = "diff" => PanelIsConsistent

\* What a search over the indexed files returns is in the bank, whole and in order,
\* whatever is cut, indexed, rewritten and searched meanwhile.
RetrievalStaysFaithful == focus \in {"cuts", "bank"} => RetrievalIsFaithful

-----------------------------------------------------------------------------
(***************************************************************************)
(* The instances.                                                          *)
(***************************************************************************)

\* A write in the workspace, one through a link that leads out of it, and one of
\* the memory file.
DerivedEffect(k, t) ==
    [kind |-> k, external |-> FALSE, destructive |-> FALSE, autoApproved |-> FALSE,
     class |-> "", privateHost |-> FALSE, sensitive |-> FALSE, target |-> t, does |-> "write"]
MCOutcomes == {DerivedEffect("filesystem-write", "a"),
               [DerivedEffect("filesystem-write", "link") EXCEPT !.external = TRUE],
               DerivedEffect("memory-write", "m")}

MCIrreversible == {<<"rm", "-rf", "x">>, <<"git", "-C", "d", "reset", "--hard">>,
                   <<"kill", "1">>, <<"truncate", "-s", "0", "x">>}
MCPrograms == MCIrreversible \cup
    {<<"ls", "../x">>, <<"git", "status">>, <<"git", "tag", "-d", "x">>,
     <<"go", "--version">>, <<"", "x">>}

\* A workspace with a directory `d' that holds the memory file, a link `k' to it, a link
\* `l' to a directory `o' outside, and in `o' a link `y' that leads back to `d': "l/y"
\* passes two links and is in the workspace, and so is "../o/y", which lies outside.
MCPlaces == {<<>>, <<"d">>, <<"d", "M">>, <<"k">>, <<"k", "M">>, <<"l">>, <<"l", "y">>,
             <<"..", "o">>, <<"..", "o", "y">>}
MCMemoryFile == <<"d", "M">>
MCTree ==
    [p \in MCPlaces |->
        CASE p \in {<<>>, <<"d">>, <<"..", "o">>} -> [kind |-> "dir", to |-> <<>>]
          [] p = <<"d", "M">> -> [kind |-> "file", to |-> <<>>]
          [] p = <<"l">> -> [kind |-> "link", to |-> <<"..", "o">>]
          [] p \in {<<"k">>, <<"..", "o", "y">>} -> [kind |-> "link", to |-> <<"d">>]
          [] OTHER -> NoNode]

\* Three lines, the second with white space behind it; patches that fit exactly, by
\* another format, in two hunks, not at all, or cannot be parsed.
TextLine(t) == [text |-> t, pad |-> FALSE]
Padded(t) == [text |-> t, pad |-> TRUE]
PatchLine(t, l) == [tag |-> t, line |-> l]
MCTexts == {"a", "b", "c"}
MCFirstLines == <<TextLine("a"), Padded("b"), TextLine("c")>>
MCPatches ==
    LET A == TextLine("a")
        B == TextLine("b")
        C == TextLine("c")
    IN {<<PatchLine("@@", A), PatchLine("ctx", A), PatchLine("del", B), PatchLine("add", C)>>,
        <<PatchLine("*", A), PatchLine("@@", A), PatchLine("del", A), PatchLine("add", B),
          PatchLine("nonl", A), PatchLine("end", A)>>,
        <<PatchLine("@@", A), PatchLine("ctx", C), PatchLine("add", A), PatchLine("@@", A),
          PatchLine("ctx", A), PatchLine("ctx", B), PatchLine("del", A),
          PatchLine("add", Padded("b"))>>,
        <<PatchLine("@@", A), PatchLine("ctx", B)>>,
        <<PatchLine("ctx", A), PatchLine("bad", B)>>}
MCDrafts == {<<TextLine("a"), TextLine("b"), TextLine("a")>>, MCFirstLines}

MCItems == {"i1", "i2"}
MCBoards == {[i \in MCItems |-> IF i = "i1" THEN "pending" ELSE "absent"],
             [i \in MCItems |-> IF i = "i1" THEN "completed" ELSE "in_progress"]}

MCPrinted == {[zero |-> TRUE, form |-> "text", events |-> FALSE, found |-> {}],
              [zero |-> FALSE, form |-> "go-test-json", events |-> TRUE,
               found |-> {[sev |-> "error", msg |-> ""]}]}

\* A file of the old format: a line with its date in front, and one without; a line with
\* two dates is typed.
MCEntries == {Entry(<<>>, "a"), Entry(<<2>>, "b"), Entry(<<2, 1>>, "b")}
MCFirstFiles == {<<>>, <<Entry(<<1>>, "a"), Entry(<<>>, "b")>>}

\* A history of an old version: the last row repeats its tools in Extra.
MCFirstRows ==
    {<<>>,
     <<UserRow, CallRow("text", <<1, 2>>), ResultRow(2, FALSE), ResultRow(1, TRUE),
       [Row("assistant", "text") EXCEPT !.legacy = <<1>>]>>}

\* Archives of the hub: two slugs of one skill, one of a built-in's name, one whose
\* SKILL.md names something else, a broken one, and one with two names that a file
\* system may take for the same file.
ZipEntry(n, low, s) == [name |-> n, lower |-> low, isLocal |-> TRUE, size |-> s]
Bundle(slug, tail, md, es) ==
    [slug |-> slug, tail |-> tail, md |-> md, described |-> TRUE, entries |-> es]
GoodArchive == <<ZipEntry("SKILL.md", "skill.md", 1), ZipEntry("rest", "rest", 1)>>
MCBundles ==
    {Bundle("x", "x", "x", GoodArchive), Bundle("@a/x", "x", "x", GoodArchive),
     Bundle("b", "b", "b", GoodArchive), Bundle("y", "y", "x2", GoodArchive),
     Bundle("x", "x", "broken", GoodArchive),
     Bundle("x", "x", "x", <<ZipEntry("SKILL.md", "skill.md", 1), ZipEntry("skill.md", "skill.md", 1)>>)}

\* A text, one with a line that looks like a patch header, a large and a binary file; of
\* three paths the last is sensitive and not in the first commit.
ContentOf(k, ls) == [kind |-> k, lines |-> ls]
MCContents == {ContentOf("text", <<"x">>), ContentOf("text", <<"x", "--">>),
               ContentOf("large", <<"x">>), ContentOf("binary", <<"x">>)}
MCFirstCommit == <<ContentOf("text", <<"x">>), ContentOf("text", <<"x", "--">>), ContentOf("none", <<>>)>>

\* Headings with and without a title, fences with and without an indent, an answer that
\* must be cut, and decoration.
MCFileLines ==
    {<<>>, <<"###", "q">>, <<"##", "c">>, <<"###", " ">>, <<"fence">>, <<" ", "fence">>,
     <<"x", ".", "y", " ", "z", "w">>, <<"v">>, <<"bar">>, <<"<div">>, <<"</div", " ">>}
MCSeps == <<<<"nl", "nl">>, <<"nl">>, <<".">>, <<" ">>, <<>>>>

\* A file without a question, one with a short answer and one whose answer is cut in two,
\* of which one is nearer to the query and the other has more of its words.
MCFileTexts ==
    {<<<<"v", "x">>>>, <<<<"###", "q">>, <<"v", "x">>>>,
     <<<<"###", "q">>, <<"x", "x", ".", "y", " ", "x", "w">>>>}
MCEmbeddingModels == <<"e1", "e2">>
MCCosine(c) == Len(c.runes)
MCTerms(c) == Cardinality({i \in DOMAIN c.runes : c.runes[i] = "x"})
=============================================================================
