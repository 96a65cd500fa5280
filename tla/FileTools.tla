------------------------------ MODULE FileTools ------------------------------
(***************************************************************************)
(* The file tools of one workspace (write_file, mkdir, rm, mv, cp, reads)  *)
(* beside the derivers that tell the approval policy what each call would  *)
(* do.  Tool and deriver resolve the same arguments twice, by different    *)
(* code: the tool through scope.Resolve and the system calls it makes, the *)
(* deriver through canonicalEffectPath.  A call is one step: both see the  *)
(* same tree.                                                              *)
(*                                                                         *)
(* A path is the sequence of its names below the workspace root; a path    *)
(* that starts with ".." is absolute and outside.                          *)
(***************************************************************************)
EXTENDS Naturals, Sequences, SequencesExt

CONSTANTS
    Places,         \* the paths of the instance
    Dangerous,      \* those IsDangerousPath knows by name
    MemoryFile,     \* memory.ProjectPath of the workspace
    MaxLinks,       \* links filepath.EvalSymlinks follows before it gives up (255)
    FirstTree       \* the tree the agent finds

Root == <<>>
Within(p) == p = Root \/ Head(p) # ".."

NoNode == [kind |-> "none", to |-> Root]
Node == {NoNode} \cup [kind : {"file", "dir", "link"}, to : Places]

ASSUME FileToolsAssumption ==
    /\ Root \in Places /\ MemoryFile \in Places
    /\ Dangerous \subseteq Places
    /\ \A p \in Places : p \in Seq(STRING) /\ p # <<"..">>
    /\ \A p \in Places : \A n \in 0..Len(p) : SubSeq(p, 1, n) \in Places \cup {<<"..">>}
    /\ MaxLinks \in Nat
    /\ FirstTree \in [Places -> Node] /\ FirstTree[Root].kind = "dir"
    /\ \A p, q \in Places :
          IsStrictPrefix(q, p) /\ FirstTree[p].kind # "none" => FirstTree[q].kind = "dir"

VARIABLES
    tree,           \* what lies at every path: [Places -> Node]
    done            \* the last call: its effect, the paths it changed, those that
                    \* led to what the effect names when it was made, and those
                    \* that lay outside of the workspace and led nowhere else

fileVars == <<tree, done>>

-----------------------------------------------------------------------------
(***************************************************************************)
(* Paths: the canonical form of a path, and the two ways a tool resolves   *)
(* its argument.                                                           *)
(***************************************************************************)
NodeAt(p) == IF p \in Places THEN tree[p] ELSE NoNode
Exists(p) == NodeAt(p).kind # "none"
IsDir(p) == NodeAt(p).kind = "dir"

\* The first n names of a path; where on the way there are links, p itself included;
\* and what becomes of p when the first of them is followed.
Upto(p, n) == SubSeq(p, 1, n)
LinksOn(p) == {n \in 1..Len(p) : NodeAt(Upto(p, n)).kind = "link"}
Hop(p) ==
    IF LinksOn(p) = {} THEN p
    ELSE LET n == CHOOSE n \in LinksOn(p) : \A k \in LinksOn(p) : n <= k
         IN  NodeAt(Upto(p, n)).to \o SubSeq(p, n + 1, Len(p))

\* filepath.EvalSymlinks, were all of the path there: what p has become after
\* every number of links.
Hops(p) ==
    LET hops[n \in 0..MaxLinks] == IF n = 0 THEN p ELSE Hop(hops[n - 1])
    IN  hops
Real(p) == Hops(p)[MaxLinks]

\* The place itself, which is what Lstat looks at: the links of its parents are
\* followed and a link in the last place is not.
Spot(p) == IF p = Root THEN p ELSE Append(Real(Front(p)), Last(p))

\* Why a path cannot be evaluated: too many links, a file where a directory should
\* be, or a link on the way that leads to nothing.
Circular(p) == LinksOn(Real(p)) # {}
Blocked(p) == \E n \in 1..Len(p) - 1 : NodeAt(Real(Upto(p, n))).kind = "file"
Dangling(p) ==
    \E n \in 1..Len(p) : LET q == Upto(p, n)
                         IN NodeAt(Spot(q)).kind = "link" /\ ~Exists(Real(q))
Broken(p) == Circular(p) \/ Blocked(p) \/ Dangling(p)

\* Mutant: the path is looked at and the links are not.
MayWrite_Lexical(p) == Within(p)

\* scope.Resolve: the path and what it leads to lie in the workspace.
MayWrite(p) == Within(p) /\ ~Broken(p) /\ Within(Real(p))

\* scope.ResolveRead: an absolute path is taken as it is, and a relative one too
\* when something on the way is not there.
MayRead(p, absolute) == absolute \/ ~Within(p) \/ ~(Circular(p) \/ Blocked(p))
ReadPath(p, absolute) == IF absolute \/ ~Within(p) \/ Dangling(p) THEN p ELSE Real(p)

\* canonicalEffectPath: a path that cannot be evaluated is reported as it is.
Canonical(p) == IF Broken(p) THEN p ELSE Real(p)

-----------------------------------------------------------------------------
(***************************************************************************)
(* The derivers.                                                           *)
(***************************************************************************)
ReadTarget(p) ==
    IF MayRead(p, FALSE)
      THEN [path |-> Canonical(p), external |-> ~Within(Canonical(p))]
      ELSE [path |-> p, external |-> FALSE]

WriteTarget(p) ==
    IF MayWrite(p)
      THEN [path |-> Canonical(p), external |-> FALSE]
      ELSE [path |-> p, external |-> TRUE]

WriteKind(p) == IF p = MemoryFile THEN "memory-write" ELSE "filesystem-write"

FileEffect(kind, target, dest, external, destructive) ==
    [kind |-> kind, path |-> target, dest |-> dest, external |-> external,
     destructive |-> destructive]

ReadEffect(p) ==
    FileEffect("filesystem-read", ReadTarget(p).path, Root,
               ReadTarget(p).external, FALSE)

WriteEffect(p) ==
    FileEffect(WriteKind(WriteTarget(p).path), WriteTarget(p).path, Root,
               WriteTarget(p).external, FALSE)

StructureEffect(p) ==
    FileEffect("filesystem-structure", WriteTarget(p).path, Root,
               WriteTarget(p).external, FALSE)

RmEffect(p, recursive) ==
    [WriteEffect(p) EXCEPT
        !.destructive = recursive \/ {p, WriteTarget(p).path} \cap Dangerous # {}]

\* A move writes its source too; of the two ends the destination decides the kind.
TransferEffect(src, dst, deletesSource) ==
    LET s == IF deletesSource THEN WriteTarget(src) ELSE ReadTarget(src)
        d == WriteTarget(dst)
    IN  FileEffect(IF WriteKind(d.path) = "memory-write"
                     THEN "memory-write" ELSE "filesystem-transfer",
                   s.path, d.path, s.external \/ d.external, FALSE)

-----------------------------------------------------------------------------
(***************************************************************************)
(* The tools: the tree a call leaves behind, the same one when it fails.   *)
(***************************************************************************)
Below(p) == {q \in Places : IsPrefix(p, q) /\ q # p}
Above(p) == {q \in Places : IsPrefix(q, p) /\ q # p}

CanMakeDirs(p) == \A q \in Above(p) \ {Root} : NodeAt(q).kind \in {"none", "dir"}

WithDirs(ps) == [q \in Places |-> IF q \in ps /\ ~Exists(q)
                                    THEN [NoNode EXCEPT !.kind = "dir"] ELSE tree[q]]

Written(p) ==
    LET r == Real(p) IN
    IF /\ MayWrite(p) /\ r # Root
       /\ r \in Places /\ ~IsDir(r) /\ CanMakeDirs(r)
      THEN [WithDirs(Above(r)) EXCEPT ![r] = [NoNode EXCEPT !.kind = "file"]]
      ELSE tree

DirMade(p) ==
    LET r == Real(p) IN
    IF MayWrite(p) /\ r \in Places /\ CanMakeDirs(r) /\ NodeAt(r).kind # "file"
      THEN WithDirs(Above(r) \cup {r})
      ELSE tree

\* rm looks at the place itself, so it removes a link and not what it leads to.
Removed(p, recursive) ==
    LET s == Spot(p) IN
    IF /\ MayWrite(p) /\ p # Root
       /\ Exists(s)
       /\ IsDir(s) /\ ~recursive => \A q \in Below(s) : ~Exists(q)
      THEN [q \in Places |-> IF q = s \/ (IsDir(s) /\ q \in Below(s))
                               THEN NoNode ELSE tree[q]]
      ELSE tree

\* Into an existing directory, under the name of the source; onto nothing else.
FinalDst(src, dst) ==
    IF IsDir(Spot(dst)) THEN Append(Spot(dst), Last(src)) ELSE Spot(dst)

Transferable(src, dst) ==
    /\ MayWrite(dst)
    /\ Exists(src)
    /\ LET f == FinalDst(src, dst) IN
        /\ f \in Places /\ MayWrite(f) /\ ~Exists(f)
        /\ CanMakeDirs(f)

Shift(src, f, q) == f \o SubSeq(q, Len(src) + 1, Len(q))

Copied(src, f) ==
    [q \in Places |->
        IF IsPrefix(f, q) /\ src \o SubSeq(q, Len(f) + 1, Len(q)) \in Places
          THEN tree[src \o SubSeq(q, Len(f) + 1, Len(q))]
          ELSE WithDirs(Above(f))[q]]

\* A tree that would not fit the places of the instance is not moved.
Fits(src, f) ==
    \A q \in Below(src) : Exists(q) => Shift(src, f, q) \in Places

\* What is moved into itself stays, and the directories made for it do too.
Moved(src, dst) ==
    LET s == Spot(src)
        f == FinalDst(s, dst)
    IN IF ~(MayWrite(src) /\ src # Root /\ Transferable(s, dst) /\ Fits(s, f)) THEN tree
       ELSE IF IsPrefix(s, f) THEN WithDirs(Above(f))
       ELSE [q \in Places |-> IF IsPrefix(s, q) THEN NoNode ELSE Copied(s, f)[q]]

\* A directory that is copied into itself grows until its paths are too long, which
\* fits in no instance.
CopiedTo(src, dst, absolute) ==
    LET s == Spot(ReadPath(src, absolute))
        f == FinalDst(s, dst)
    IN IF /\ MayRead(src, absolute) /\ s # Root
          /\ Transferable(s, dst) /\ ~IsPrefix(s, f) /\ Fits(s, f)
         THEN Copied(s, f) ELSE tree

-----------------------------------------------------------------------------
NoCall == [effect |-> FileEffect("none", Root, Root, FALSE, FALSE),
           changed |-> {}, ways |-> {}, outside |-> {}]

FileInit == tree = FirstTree /\ done = NoCall

\* One call: the effect derived for it, the tree it leaves behind, and the files
\* it writes without changing the shape of the tree.
Call(effect, after, wrote) ==
    /\ done = NoCall
    /\ tree' = after
    /\ done' = [effect |-> effect,
                changed |-> {p \in Places : after[p] # tree[p]} \cup wrote,
                ways |-> {p \in Places : Canonical(p) \in {effect.path, effect.dest}},
                outside |-> {p \in Places : ~Within(p) /\ ~Within(Real(p))}]

ReadTool(p) == Call(ReadEffect(p), tree, {})

WriteFile(p) ==
    Call(WriteEffect(p), Written(p),
         IF MayWrite(p) /\ NodeAt(Real(p)).kind = "file" THEN {Real(p)} ELSE {})

Mkdir(p) == Call(StructureEffect(p), DirMade(p), {})

Rm(p, recursive) == Call(RmEffect(p, recursive), Removed(p, recursive), {})

Mv(src, dst) == Call(TransferEffect(src, dst, TRUE), Moved(src, dst), {})

Cp(src, dst, absolute) ==
    Call(TransferEffect(src, dst, FALSE), CopiedTo(src, dst, absolute), {})

\* The agent has its answer.
TakeAnswer == done # NoCall /\ done' = NoCall /\ UNCHANGED tree

FileNext ==
    \/ TakeAnswer
    \/ \E p \in Places : ReadTool(p) \/ WriteFile(p) \/ Mkdir(p)
    \/ \E p \in Places, recursive \in BOOLEAN : Rm(p, recursive)
    \/ \E src, dst \in Places : Mv(src, dst)
    \/ \E src, dst \in Places, absolute \in BOOLEAN : Cp(src, dst, absolute)

FileSpec == FileInit /\ [][FileNext]_fileVars

-----------------------------------------------------------------------------
FileTypeOK ==
    /\ tree \in [Places -> Node]
    /\ done.changed \subseteq Places

\* Whatever links there are and however they were moved and copied, no tool changes
\* a path outside of the workspace, save a link out there that leads into it: that
\* one passes scope.Resolve, and rm and mv take the link itself.
OnlyTheWorkspaceChanges == done.changed \cap done.outside = {}

\* The places an effect speaks of: its path and its destination, whatever leads
\* to them, and the name a transfer takes in the directory it goes into.
Spoken(d) ==
    d.ways \cup {d.effect.path, d.effect.dest}
      \cup {Append(q, Last(w)) : q \in {d.effect.dest}, w \in d.ways \ {Root}}

\* What a call changes is what its effect speaks of, something below it, or a
\* directory made on the way to it; a read changes nothing.
EffectTellsTheChange ==
    /\ done.effect.kind = "filesystem-read" => done.changed = {}
    /\ \A p \in done.changed :
        \E q \in Spoken(done) \ {Root} : IsPrefix(q, p) \/ p \in Above(q)

\* Both: a call does what its effect says and nothing outside of the workspace.
EffectsAreTrue == OnlyTheWorkspaceChanges /\ EffectTellsTheChange
=============================================================================
