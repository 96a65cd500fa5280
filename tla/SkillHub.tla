------------------------------ MODULE SkillHub ------------------------------
(***************************************************************************)
(* Skills: bundles of the registry are installed into and removed from the *)
(* user's skills directory (internal/skillhub installer.go, installed.go,  *)
(* bundle.go), and the loader indexes that directory and the built-in      *)
(* skills at the start of every agent run (internal/agent/skills).         *)
(*                                                                         *)
(* No lock is held over the directory: an install, an uninstall and a      *)
(* refresh are goroutines, and one step here is one operation on the file  *)
(* system.  A folder keeps its identity when it is renamed, as an open     *)
(* directory does; it is abstracted to which of its files are there.       *)
(***************************************************************************)
EXTENDS Naturals, Sequences, FiniteSets, SequencesExt

CONSTANTS
    SkillNames,     \* well-formed names, which are also names of directories
    Builtins,       \* the names of the skills that ship with the binary
    Bundles,        \* what the registry may serve
    Slugs,          \* the slugs a user may ask to uninstall
    Installs, Uninstalls, Refreshes,    \* requests and runs; the first two are used once
    MaxEntries, FileCap, TotalCap,      \* maxBundleFiles and the two size caps
    MaxFolders      \* folders made so far

ASSUME SkillAssumption == Builtins \subseteq SkillNames /\ MaxFolders \in Nat

VARIABLES
    place,          \* path -> folder, 0 when there is none
    folders,        \* folder -> what is in it
    numFolders,     \* folders made so far
    install,        \* per install: where it is, its bundle's name and slug, backedUp
    removal,        \* per uninstall: where it is, Directory, the folder it has open
    refresh,        \* per run: where its Refresh is, entries to read, the index it builds
    index,          \* Loader.skills: the source of every skill
    owned           \* history: names that were installed and not asked to be removed since

skillVars == <<place, folders, numFolders, install, removal, refresh, index, owned>>

\* staging and backup carry the name and a fresh uuid: one path for every install.
Dir(n) == <<"skill", n>>
Staging(i) == <<"staging", i>>
Backup(i) == <<"replace-old", i>>
Spots == {Dir(n) : n \in SkillNames} \cup {Staging(i) : i \in Installs} \cup {Backup(i) : i \in Installs}

Parcel == {"SKILL.md", "rest", "marker"}
NoFolder == [slug |-> "", md |-> "", described |-> FALSE, files |-> {}]

FolderAt(p) == IF place[p] = 0 THEN NoFolder ELSE folders[place[p]]
Whole(f) == f.files = Parcel
\* Folders some uninstall has opened.
Torn == {removal[u].folder : u \in Uninstalls}

SkillTypeOK ==
    /\ place \in [Spots -> 0..MaxFolders] /\ numFolders \in 0..MaxFolders
    /\ \A f \in 1..MaxFolders : folders[f].files \subseteq Parcel
    /\ \A i \in Installs :
        /\ install[i].at \in {"idle", "staging", "stat", "aside", "swap", "rollback", "cleanup", "over"}
        /\ install[i].backedUp => install[i].at \in {"swap", "rollback", "cleanup"}
    /\ \A u \in Uninstalls : removal[u].at \in {"idle", "found", "emptying", "over"}
    /\ index \in [SkillNames -> {"none", "builtin", "user"}]
    /\ owned \subseteq SkillNames

-----------------------------------------------------------------------------
(***************************************************************************)
(* What a bundle must be, and what a directory must hold, to be a skill.   *)
(***************************************************************************)
\* unzipBounded: too many entries, a path that leaves the root, two names that differ
\* only in case and a size over a cap each condemn the whole bundle.
Unzips(entries) ==
    /\ Len(entries) <= MaxEntries
    /\ \A i \in DOMAIN entries : entries[i].isLocal /\ entries[i].size <= FileCap
    /\ \A i, j \in DOMAIN entries :
        entries[i].lower = entries[j].lower => entries[i].name = entries[j].name
    /\ FoldLeft(LAMBDA total, e : total + e.size, 0, entries) <= TotalCap

\* parseSkill: "broken" has no frontmatter, "" one without a name.
Parses(md) == md # "broken"
SlugTail(b) == b.tail
DeclaredName(b) == IF Parses(b.md) THEN b.md ELSE ""
DirectoryName(b) == IF DeclaredName(b) = "" THEN SlugTail(b) ELSE DeclaredName(b)

\* ValidateMetadata, the rule of the scan and of the installer.
ValidMetadata(md, described, dir) == Parses(md) /\ md \in SkillNames /\ md = dir /\ described

ReservedBuiltinNames == {n \in SkillNames : index[n] = "builtin"}

Accepts(b) ==
    /\ Unzips(b.entries)
    /\ \E i \in DOMAIN b.entries : b.entries[i].name = "SKILL.md"
    /\ ValidMetadata(b.md, b.described, DirectoryName(b))
    /\ DirectoryName(b) \notin ReservedBuiltinNames

\* scanRoot's verdict on the directory n.  Staging and backup directories have names no
\* SKILL.md declares, so the scan always skips them.
Discovered(n) ==
    LET f == FolderAt(Dir(n))
    IN "SKILL.md" \in f.files /\ ValidMetadata(f.md, f.described, n)

\* NewLoaderAt: the built-in skills are extracted anew, then both roots are scanned.
FreshIndex ==
    [n \in SkillNames |->
        IF n \in Builtins THEN "builtin" ELSE IF Discovered(n) THEN "user" ELSE "none"]

SkillInit ==
    /\ place = [p \in Spots |-> 0] /\ numFolders = 0
    /\ folders = [f \in 1..MaxFolders |-> NoFolder]
    /\ install = [i \in Installs |-> [at |-> "idle", name |-> "", backedUp |-> FALSE]]
    /\ removal = [u \in Uninstalls |-> [at |-> "idle", path |-> "", folder |-> 0]]
    /\ refresh = [r \in Refreshes |-> [at |-> "idle", todo |-> {}, out |-> [n \in SkillNames |-> "none"]]]
    /\ index = FreshIndex /\ owned = {}

-----------------------------------------------------------------------------
(***************************************************************************)
(* Install.                                                                *)
(***************************************************************************)
Advance(i, to) == install' = [install EXCEPT ![i].at = to]
Over == [at |-> "over", name |-> "", backedUp |-> FALSE]

\* The download fails, or the bundle is looked at before any file is touched.
Fetch(i) ==
    /\ install[i].at = "idle"
    /\ \/ install' = [install EXCEPT ![i] = Over] /\ UNCHANGED <<place, folders, numFolders>>
       \/ \E b \in Bundles :
            /\ Accepts(b) /\ numFolders < MaxFolders
            /\ numFolders' = numFolders + 1
            /\ place' = [place EXCEPT ![Staging(i)] = numFolders']
            /\ folders' = [folders EXCEPT ![numFolders'] =
                [slug |-> b.slug, md |-> b.md, described |-> b.described, files |-> {}]]
            /\ install' = [install EXCEPT ![i].at = "staging", ![i].name = DirectoryName(b)]
    /\ UNCHANGED <<removal, refresh, index, owned>>

\* The files are written in any order, the marker last.
StageFile(i, file) ==
    LET f == place[Staging(i)]
    IN /\ install[i].at = "staging"
       /\ file \in Parcel \ folders[f].files
       /\ file = "marker" => folders[f].files = Parcel \ {"marker"}
       /\ folders' = [folders EXCEPT ![f].files = @ \cup {file}]
       /\ Advance(i, IF file = "marker" THEN "stat" ELSE "staging")
       /\ UNCHANGED <<place, numFolders, removal, refresh, index, owned>>

StageFails(i) ==
    /\ install[i].at = "staging"
    /\ Advance(i, "cleanup")
    /\ UNCHANGED <<place, folders, numFolders, removal, refresh, index, owned>>

StatTarget(i) ==
    /\ install[i].at = "stat"
    /\ Advance(i, IF place[Dir(install[i].name)] = 0 THEN "swap" ELSE "aside")
    /\ UNCHANGED <<place, folders, numFolders, removal, refresh, index, owned>>

\* rename(2) of a directory: onto nothing, or onto an empty directory.
Movable(from, to) == place[from] # 0 /\ (place[to] = 0 \/ FolderAt(to).files = {})
Rename(from, to) == place' = [place EXCEPT ![to] = place[from], ![from] = 0]

MoveAside(i) ==
    /\ install[i].at = "aside"
    /\ \/ /\ Movable(Dir(install[i].name), Backup(i)) /\ Rename(Dir(install[i].name), Backup(i))
          /\ install' = [install EXCEPT ![i].at = "swap", ![i].backedUp = TRUE]
       \/ Advance(i, "cleanup") /\ UNCHANGED place
    /\ UNCHANGED <<folders, numFolders, removal, refresh, index, owned>>

SwapIn(i) ==
    /\ install[i].at = "swap"
    /\ \/ /\ Movable(Staging(i), Dir(install[i].name)) /\ Rename(Staging(i), Dir(install[i].name))
          /\ owned' = IF place[Staging(i)] \in Torn THEN owned \ {install[i].name} ELSE owned \cup {install[i].name}
          /\ Advance(i, "cleanup")
       \/ /\ Advance(i, IF install[i].backedUp THEN "rollback" ELSE "cleanup")
          /\ UNCHANGED <<place, owned>>
    /\ UNCHANGED <<folders, numFolders, removal, refresh, index>>

\* Mutant: a backup that could not be rolled back is deleted with the staging directory.
Rollback_Drop(i) ==
    /\ install[i].at = "rollback"
    /\ \/ /\ Movable(Backup(i), Dir(install[i].name)) /\ Rename(Backup(i), Dir(install[i].name))
          /\ install' = [install EXCEPT ![i].at = "cleanup", ![i].backedUp = FALSE]
       \/ Advance(i, "cleanup") /\ UNCHANGED place
    /\ UNCHANGED <<folders, numFolders, removal, refresh, index, owned>>

\* Whether the old version comes back or not, the backup is no longer this install's to
\* delete.
Rollback(i) ==
    /\ install[i].at = "rollback"
    /\ \/ Movable(Backup(i), Dir(install[i].name)) /\ Rename(Backup(i), Dir(install[i].name))
       \/ UNCHANGED place
    /\ install' = [install EXCEPT ![i].at = "cleanup", ![i].backedUp = FALSE]
    /\ UNCHANGED <<folders, numFolders, removal, refresh, index, owned>>

\* The deferred removals.
CleanUp(i) ==
    /\ install[i].at = "cleanup"
    /\ place' = [place EXCEPT ![Staging(i)] = 0,
                              ![Backup(i)] = IF install[i].backedUp THEN 0 ELSE @]
    /\ install' = [install EXCEPT ![i] = Over]
    /\ UNCHANGED <<folders, numFolders, removal, refresh, index, owned>>

-----------------------------------------------------------------------------
(***************************************************************************)
(* Uninstall, copies made by hand, and the agent's index.                  *)
(***************************************************************************)
\* ListInstalled: whatever holds a SKILL.md, under the marker's slug or its own name.
Listed(p) == "SKILL.md" \in FolderAt(p).files
SlugAt(p) ==
    IF "marker" \in FolderAt(p).files THEN FolderAt(p).slug
    ELSE IF p[1] = "skill" THEN p[2] ELSE "."

\* ReadDir sorts by name: .replace-old-*, .staging-*, then the skills.
Rank(p) == CASE p[1] = "replace-old" -> 0 [] p[1] = "staging" -> 1 [] OTHER -> 2

FindSkill(u, slug) ==
    /\ removal[u].at = "idle"
    /\ LET matches == {p \in Spots : Listed(p) /\ SlugAt(p) = slug}
       IN IF matches = {} THEN removal' = [removal EXCEPT ![u].at = "over"]
          ELSE \E p \in matches :
                 /\ \A q \in matches : Rank(p) <= Rank(q)
                 /\ removal' = [removal EXCEPT ![u].at = "found", ![u].path = p]
    /\ UNCHANGED <<place, folders, numFolders, install, refresh, index, owned>>

\* os.RemoveAll opens the directory, empties what it has opened and removes the path, which
\* by then may lead to another directory.
OpenFolder(u) ==
    LET f == place[removal[u].path]
    IN /\ removal[u].at = "found"
       /\ IF f = 0 THEN removal' = [removal EXCEPT ![u].at = "over", ![u].path = ""] /\ UNCHANGED owned
          ELSE /\ removal' = [removal EXCEPT ![u].at = "emptying", ![u].folder = f]
               /\ owned' = owned \ {folders[f].md}
       /\ UNCHANGED <<place, folders, numFolders, install, refresh, index>>

RemoveFile(u, file) ==
    LET f == removal[u].folder
    IN /\ removal[u].at = "emptying"
       /\ file \in folders[f].files
       /\ folders' = [folders EXCEPT ![f].files = @ \ {file}]
       /\ UNCHANGED <<place, numFolders, install, removal, refresh, index, owned>>

RemoveFolder(u) ==
    /\ removal[u].at = "emptying"
    /\ folders[removal[u].folder].files = {}
    /\ place' = IF FolderAt(removal[u].path).files = {}
                THEN [place EXCEPT ![removal[u].path] = 0] ELSE place
    /\ removal' = [removal EXCEPT ![u].at = "over", ![u].path = ""]
    /\ UNCHANGED <<folders, numFolders, install, refresh, index, owned>>

\* The user copies a directory in by hand, under any name and with any SKILL.md.
HandCopy(n, md) ==
    /\ place[Dir(n)] = 0 /\ numFolders < MaxFolders
    /\ numFolders' = numFolders + 1
    /\ place' = [place EXCEPT ![Dir(n)] = numFolders']
    /\ folders' = [folders EXCEPT ![numFolders'] =
        [slug |-> "", md |-> md, described |-> TRUE, files |-> {"SKILL.md", "rest"}]]
    /\ UNCHANGED <<install, removal, refresh, index, owned>>

\* Refresh: the built-in root first.
StartRefresh(r) ==
    /\ refresh[r].at = "idle"
    /\ refresh' = [refresh EXCEPT ![r] = [at |-> "scanning", todo |-> {n \in SkillNames : place[Dir(n)] # 0},
        out |-> [n \in SkillNames |-> IF n \in Builtins THEN "builtin" ELSE "none"]]]
    /\ UNCHANGED <<place, folders, numFolders, install, removal, index, owned>>

\* First name wins.
ScanEntry(r, n) ==
    /\ n \in refresh[r].todo
    /\ refresh' = [refresh EXCEPT ![r].todo = @ \ {n},
                                  ![r].out[n] = IF Discovered(n) /\ @ = "none" THEN "user" ELSE @]
    /\ UNCHANGED <<place, folders, numFolders, install, removal, index, owned>>

SwapIndex(r) ==
    /\ refresh[r].at = "scanning" /\ refresh[r].todo = {}
    /\ index' = refresh[r].out
    /\ refresh' = [refresh EXCEPT ![r].at = "idle", ![r].out = [n \in SkillNames |-> "none"]]
    /\ UNCHANGED <<place, folders, numFolders, install, removal, owned>>

\* The server stops anywhere: what is on disk stays, the index is built again.
RestartHub ==
    /\ install' = [i \in Installs |->
        IF install[i].at = "idle" THEN install[i] ELSE Over]
    /\ removal' = [u \in Uninstalls |->
        IF removal[u].at = "idle" THEN removal[u] ELSE [removal[u] EXCEPT !.at = "over", !.path = ""]]
    /\ refresh' = [r \in Refreshes |->
        [at |-> "idle", todo |-> {}, out |-> [n \in SkillNames |-> "none"]]]
    /\ index' = FreshIndex
    /\ UNCHANGED <<place, folders, numFolders, owned>>

InstallStep(i) ==
    \/ Fetch(i) \/ StageFails(i) \/ StatTarget(i) \/ MoveAside(i) \/ SwapIn(i) \/ Rollback(i) \/ CleanUp(i)
    \/ \E file \in Parcel : StageFile(i, file)

UninstallStep(u) ==
    \/ OpenFolder(u) \/ RemoveFolder(u)
    \/ \E slug \in Slugs : FindSkill(u, slug)
    \/ \E file \in Parcel : RemoveFile(u, file)

RefreshStep(r) == StartRefresh(r) \/ SwapIndex(r) \/ \E n \in SkillNames : ScanEntry(r, n)

SkillNext ==
    \/ \E i \in Installs : InstallStep(i)
    \/ \E u \in Uninstalls : UninstallStep(u)
    \/ \E r \in Refreshes : RefreshStep(r)
    \/ \E n \in SkillNames, md \in SkillNames : HandCopy(n, md)
    \/ RestartHub

SkillSpec == SkillInit /\ [][SkillNext]_skillVars

-----------------------------------------------------------------------------
\* Whatever two installs of one skill, an uninstall and a crash do to each other, a skill
\* that was installed and not asked to be removed is whole on disk somewhere: in its
\* directory, or in a backup kept for recovery (stageAndSwap).
NothingIsLost ==
    \A n \in owned :
        \E p \in {Dir(n)} \cup {Backup(i) : i \in Installs} : Whole(FolderAt(p)) /\ FolderAt(p).md = n

\* A skill's directory never holds half a bundle, unless an uninstall is to blame or the
\* user copied it there by hand; and what an install put there is discovered by the scan.
DirectoriesAreWhole ==
    \A n \in SkillNames :
        \/ place[Dir(n)] \in Torn \cup {0} \/ FolderAt(Dir(n)).slug = ""
        \/ Whole(FolderAt(Dir(n))) /\ Discovered(n)

\* Neither an install nor a directory copied by hand takes the place of a built-in skill in
\* the index, whatever refreshes overlap.
BuiltinsStay == \A n \in Builtins : index[n] = "builtin"

\* The three together: installed skills survive every interleaving of installs, removals,
\* refreshes and crashes, whole and discoverable, and never shadow a built-in one.
SkillsSurvive == NothingIsLost /\ DirectoriesAreWhole /\ BuiltinsStay
=============================================================================
