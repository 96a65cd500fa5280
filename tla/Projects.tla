------------------------------ MODULE Projects ------------------------------
(***************************************************************************)
(* Folders opened as projects, the conversations bound to them, and what   *)
(* deleting either takes with it (service/project.go, conversation.go,     *)
(* repository/project_repo.go, conversation_repo.go; the rows, streams and *)
(* cards of ChatService.Start, Resume and consumeAndPersist they meet).    *)
(*                                                                         *)
(* Requests to open a folder, to post, to answer a card and to delete run  *)
(* at the same time as the runs they started; a step is one query, one     *)
(* transaction or one access to the registry of streams.  Of a run only    *)
(* what it writes is kept, and whether its context was cancelled.          *)
(***************************************************************************)
EXTENDS Naturals, FiniteSets

CONSTANTS
    Chats,          \* conversations
    Posts,          \* requests to a conversation, each with the run it starts
    Removals,       \* requests to delete a conversation or a project
    Openings,       \* requests to open a folder
    Folders,        \* directories
    Links,          \* symbolic links, each another spelling of a directory
    MaxProjects     \* projects made

ASSUME ProjectsAssumption == MaxProjects \in Nat \ {0} /\ Folders \cap Links = {}

Spellings == Folders \cup Links
ProjectIds == 1..MaxProjects
Unmade == "unmade"
Nowhere == "nowhere"

VARIABLES
    workspaceOf,    \* the projects table: the path stored with each
    numProjects,    \* projects made so far
    leadsTo,        \* the directory each spelling leads to, links can move
    opening,        \* per request to open a folder: where it is, and the folder
    chat,           \* the conversations table
    rowsOf,         \* kinds of rows stored for each conversation
    tracked,        \* workspace baselines and events: <<conversation, project>>
    streams,        \* stream.Manager: the run registered for each conversation
    cards,          \* conversations with a card in the pending store
    post,           \* per post: where it and its run are
    checked,        \* conversations with a validation run checked and not yet stored
    deletion,        \* per request to delete: where it is
    past            \* history: what deletions met

fileSystemVars == <<workspaceOf, numProjects, leadsTo, opening>>
tableVars == <<chat, rowsOf, tracked>>
liveVars == <<streams, cards, post, checked>>
projectVars == <<fileSystemVars, tableVars, liveVars, deletion, past>>

\* "kept": compactions, plans and their items.
RowKinds == {"message", "kept", "validation", "pending", "checkpoint"}

NoChat == [here |-> FALSE, project |-> 0]
NoPost == [at |-> "idle", chat |-> "", project |-> 0, binds |-> FALSE, cancelled |-> FALSE]
NoRemoval == [at |-> "idle", project |-> 0, chat |-> "", todo |-> {}, met |-> {}]

Registered == {"created", "recreated"}
Asking == {"looked", "found", "upserted", "bound", "stored", "answered"} \cup Registered
Acting == {"running", "paused", "settling"}

ProjectTypeOK ==
    /\ workspaceOf \in [ProjectIds -> Spellings \cup {Unmade}]
    /\ numProjects \in 0..MaxProjects
    /\ leadsTo \in [Spellings -> Folders \cup {Nowhere}]
    /\ \A o \in Openings : opening[o].at \in {"idle", "waiting", "locked", "scanning", "over"}
    /\ \A c \in Chats : chat[c].project \in 0..numProjects /\ rowsOf[c] \subseteq RowKinds
    /\ tracked \subseteq Chats \X ProjectIds
    /\ cards \subseteq Chats /\ checked \subseteq Chats
    /\ \A s \in Posts : post[s].at \in Asking \cup Acting \cup {"idle", "loading", "over"}
    /\ \A d \in Removals : deletion[d].at \in {"idle", "stopping", "removing", "over"}

\* A project of an old version may be stored with a path through a link, and a
\* conversation without a project.
ProjectInit ==
    /\ \E old \in Spellings \cup {Unmade} :
        /\ workspaceOf = [p \in ProjectIds |-> IF p = 1 THEN old ELSE Unmade]
        /\ numProjects = IF old = Unmade THEN 0 ELSE 1
    /\ leadsTo \in [Spellings -> Folders]
    /\ \A f \in Folders : leadsTo[f] = f
    /\ opening = [o \in Openings |-> [at |-> "idle", folder |-> Nowhere]]
    /\ \E old \in SUBSET Chats : chat = [c \in Chats |-> [NoChat EXCEPT !.here = c \in old]]
    /\ rowsOf = [c \in Chats |-> {}] /\ tracked = {}
    /\ streams = [c \in Chats |-> {}] /\ cards = {} /\ checked = {}
    /\ post = [s \in Posts |-> NoPost]
    /\ deletion = [d \in Removals |-> NoRemoval]
    /\ past = [escaped |-> {}, left |-> {}, late |-> {}, revived |-> {},
               strays |-> {}, deleted |-> {}, moved |-> FALSE]

-----------------------------------------------------------------------------
(***************************************************************************)
(* Opening a folder.                                                       *)
(***************************************************************************)
There(p) == p # 0 /\ workspaceOf[p] # Unmade

\* canonicalWorkspaceDir, before the lock.
CanonicalFolder(o, spelling) ==
    /\ opening[o].at = "idle"
    /\ opening' = [opening EXCEPT ![o] =
        [at |-> IF leadsTo[spelling] = Nowhere THEN "over" ELSE "waiting", folder |-> leadsTo[spelling]]]
    /\ UNCHANGED <<workspaceOf, numProjects, leadsTo>>

OpenMuIsFree == \A o \in Openings : opening[o].at \notin {"locked", "scanning"}

Lock(o) ==
    /\ opening[o].at = "waiting" /\ OpenMuIsFree
    /\ opening' = [opening EXCEPT ![o].at = "locked"]
    /\ UNCHANGED <<workspaceOf, numProjects, leadsTo>>

OpeningOver(o) == opening' = [opening EXCEPT ![o] = [at |-> "over", folder |-> Nowhere]]

\* GetByWorkspace: the project stored with this very path is touched and returned.
GetByWorkspace(o) ==
    /\ opening[o].at = "locked"
    /\ IF \E p \in ProjectIds : workspaceOf[p] = opening[o].folder THEN OpeningOver(o)
       ELSE opening' = [opening EXCEPT ![o].at = "scanning"]
    /\ UNCHANGED <<workspaceOf, numProjects, leadsTo>>

SameFolder(p, folder) == There(p) /\ leadsTo[workspaceOf[p]] = folder

\* Otherwise one whose path leads to the same directory, or a new one.
OpenOrCreate(o) ==
    /\ opening[o].at = "scanning"
    /\ OpeningOver(o)
    /\ IF \E p \in ProjectIds : SameFolder(p, opening[o].folder) THEN UNCHANGED <<workspaceOf, numProjects>>
       ELSE /\ numProjects < MaxProjects
            /\ numProjects' = numProjects + 1
            /\ workspaceOf' = [workspaceOf EXCEPT ![numProjects + 1] = opening[o].folder]
    /\ UNCHANGED leadsTo

\* The user's file system: a link is made to lead elsewhere, or is taken away.
MoveLink(l, folder) ==
    /\ leadsTo[l] # folder
    /\ leadsTo' = [leadsTo EXCEPT ![l] = folder]
    /\ past' = [past EXCEPT !.moved = TRUE]
    /\ UNCHANGED <<workspaceOf, numProjects, opening, tableVars, liveVars, deletion>>

OpenProject(o) ==
    /\ \/ \E spelling \in Spellings : CanonicalFolder(o, spelling)
       \/ Lock(o) \/ GetByWorkspace(o) \/ OpenOrCreate(o)
    /\ UNCHANGED <<tableVars, liveVars, deletion, past>>

-----------------------------------------------------------------------------
(***************************************************************************)
(* ChatService.Start: what it reads of a conversation and a project, and   *)
(* the rows it writes, one query after the other.                          *)
(***************************************************************************)
PostOver == [NoPost EXCEPT !.at = "over"]
StepsTo(s, at) == post' = [post EXCEPT ![s] = IF at = "over" THEN PostOver ELSE [@ EXCEPT !.at = at]]

\* Two posts to one conversation at a time are a matter of the chat runtime.
NobodyAsks(c) == \A s \in Posts : post[s].at \in Asking => post[s].chat # c

Look(s, c, wanted) ==
    LET mine == IF chat[c].here THEN chat[c].project ELSE 0
    IN /\ post[s].at = "idle" /\ NobodyAsks(c)
       /\ mine = 0 => wanted # 0
       /\ mine # 0 => wanted \in {0, mine}
       /\ post' = [post EXCEPT ![s] = [NoPost EXCEPT !.at = "looked", !.chat = c,
            !.project = IF mine = 0 THEN wanted ELSE mine, !.binds = mine = 0]]
       /\ past' = [past EXCEPT !.deleted = @ \ {c}]
       /\ UNCHANGED <<tableVars, streams, cards, checked>>

FindProject(s) ==
    /\ post[s].at = "looked"
    /\ StepsTo(s, IF There(post[s].project) THEN "found" ELSE "over")
    /\ UNCHANGED <<tableVars, streams, cards, checked, past>>

Upserted(c) == [chat EXCEPT ![c].here = TRUE]

Upsert(s) ==
    /\ post[s].at = "found"
    /\ chat' = Upserted(post[s].chat)
    /\ StepsTo(s, "upserted")
    /\ UNCHANGED <<rowsOf, tracked, streams, cards, checked, past>>

\* SetProjectID, if the row that was read had no project: it updates the row there is.
SetProjectID(s) ==
    LET c == post[s].chat
        bound == post[s].binds /\ chat[c].here
    IN /\ post[s].at = "upserted"
       /\ chat' = IF bound THEN [chat EXCEPT ![c].project = post[s].project] ELSE chat
       /\ past' = IF bound /\ ~There(post[s].project) THEN [past EXCEPT !.strays = @ \cup {c}] ELSE past
       /\ StepsTo(s, "bound")
       /\ UNCHANGED <<rowsOf, tracked, streams, cards, checked>>

StoreUserRow(s) ==
    /\ post[s].at = "bound"
    /\ rowsOf' = [rowsOf EXCEPT ![post[s].chat] = @ \cup {"message"}]
    /\ StepsTo(s, "stored")
    /\ UNCHANGED <<chat, tracked, streams, cards, checked, past>>

\* A run escapes a deletion that does not find it in the registry.
Live(s) == post[s].at \in Asking \cup Acting \cup {"loading"} /\ ~post[s].cancelled
Escape(run) == [past EXCEPT !.escaped = @ \cup {post[s].chat : s \in {r \in run : Live(r)}}]

\* CreateAt: a run that was registered before is no longer, and goes on.
CreateAt(s) ==
    /\ post[s].at \in {"stored", "answered"}
    /\ past' = Escape(streams[post[s].chat])
    /\ streams' = [streams EXCEPT ![post[s].chat] = {s}]
    /\ StepsTo(s, IF post[s].at = "stored" THEN "created" ELSE "recreated")
    /\ UNCHANGED <<tableVars, cards, checked>>

\* pending.Clear; a card that was answered is cleared likewise.
ClearCards(c) ==
    /\ cards' = cards \ {c}
    /\ rowsOf' = [rowsOf EXCEPT ![c] = @ \ {"pending"}]

\* SetCancel, pending.Clear and the goroutine.
StartRun(s) ==
    /\ post[s].at = "created"
    /\ StepsTo(s, "running")
    /\ ClearCards(post[s].chat)
    /\ UNCHANGED <<chat, tracked, streams, checked, past>>

\* Resume, ResumeQuestion, ResumePlan: Resolve, when it was the last card.
Resolve(s, c) ==
    /\ post[s].at = "idle" /\ c \in cards /\ NobodyAsks(c)
    /\ ClearCards(c)
    /\ post' = [post EXCEPT ![s] = [NoPost EXCEPT !.at = "answered", !.chat = c]]
    /\ UNCHANGED <<chat, tracked, streams, checked, past>>

StartResume(s) ==
    /\ post[s].at = "recreated"
    /\ StepsTo(s, "loading")
    /\ UNCHANGED <<tableVars, streams, cards, checked, past>>

\* ResumeWithParams reads the checkpoint, which the deletion of a project may have left.
LoadCheckpoint(s) ==
    LET c == post[s].chat
        revives == <<c, "checkpoint">> \in past.left
    IN /\ post[s].at = "loading"
       /\ StepsTo(s, IF "checkpoint" \in rowsOf[c] THEN "running" ELSE "over")
       /\ past' = IF revives THEN [past EXCEPT !.revived = @ \cup {c}] ELSE past
       /\ UNCHANGED <<tableVars, streams, cards, checked>>

-----------------------------------------------------------------------------
(***************************************************************************)
(* A run.  What is stored with its own context fails once that is          *)
(* cancelled; messages, cards and validation runs are stored with one of   *)
(* their own.                                                              *)
(***************************************************************************)
StoreMessage(s) ==
    /\ post[s].at = "running"
    /\ rowsOf' = [rowsOf EXCEPT ![post[s].chat] = @ \cup {"message"}]
    /\ UNCHANGED <<chat, tracked, liveVars, past>>

StoreKept(s) ==
    /\ post[s].at = "running" /\ ~post[s].cancelled
    /\ rowsOf' = [rowsOf EXCEPT ![post[s].chat] = @ \cup {"kept"}]
    /\ UNCHANGED <<chat, tracked, liveVars, past>>

\* Enrich asks for the conversation and its project with the context of the run and stores
\* the validation run with one of its own, when the run may be cancelled or over.
CheckRun(s) ==
    LET c == post[s].chat
    IN /\ post[s].at = "running" /\ ~post[s].cancelled
       /\ chat[c].here /\ There(chat[c].project)
       /\ checked' = checked \cup {c}
       /\ UNCHANGED <<tableVars, streams, cards, post, past>>

\* Another call of the batch may be as far.
StoreValidation(c) ==
    /\ c \in checked
    /\ rowsOf' = [rowsOf EXCEPT ![c] = @ \cup {"validation"}]
    /\ checked' \in {checked, checked \ {c}}
    /\ UNCHANGED <<chat, tracked, streams, cards, post, past>>

\* resolveRun of the tracker: the conversation and its project must be there.
Track(s) ==
    LET c == post[s].chat
    IN /\ post[s].at = "running" /\ ~post[s].cancelled
       /\ chat[c].here /\ There(chat[c].project)
       /\ tracked' = tracked \cup {<<c, chat[c].project>>}
       /\ UNCHANGED <<chat, rowsOf, liveVars, past>>

\* The runner stores the checkpoint before it reports the interrupt.
Pause(s) ==
    /\ post[s].at = "running" /\ ~post[s].cancelled
    /\ rowsOf' = [rowsOf EXCEPT ![post[s].chat] = @ \cup {"checkpoint"}]
    /\ StepsTo(s, "paused")
    /\ UNCHANGED <<chat, tracked, streams, cards, checked, past>>

RecordCard(s) ==
    /\ post[s].at = "paused"
    /\ rowsOf' = [rowsOf EXCEPT ![post[s].chat] = @ \cup {"pending"}]
    /\ cards' = cards \cup {post[s].chat}
    /\ StepsTo(s, "settling")
    /\ UNCHANGED <<chat, tracked, streams, checked, past>>

\* ConsumeADKEvents returns: nil at the end of the events, an error after a cancel, which it
\* may notice only when its last event has been handled.
Ends(s) ==
    /\ post[s].at = "running"
    /\ \/ StepsTo(s, "over")
       \/ ~post[s].cancelled /\ StepsTo(s, "settling")
    /\ UNCHANGED <<tableVars, streams, cards, checked, past>>

\* The end of consumeAndPersist: only a run that ended well stores its conversation again.
SettleRun(s) ==
    /\ post[s].at = "settling"
    /\ \/ chat' = Upserted(post[s].chat)
       \/ post[s].cancelled /\ UNCHANGED chat
    /\ StepsTo(s, "over")
    /\ UNCHANGED <<rowsOf, tracked, streams, cards, checked, past>>

\* PUT of the approval mode: of any conversation.
SetApprovalMode(s, c) ==
    /\ post[s].at = "idle"
    /\ chat' = Upserted(c)
    /\ StepsTo(s, "over")
    /\ UNCHANGED <<rowsOf, tracked, streams, cards, checked, past>>

Chatting(s) ==
    /\ \/ \E c \in Chats : SetApprovalMode(s, c) \/ Resolve(s, c) \/ \E wanted \in 0..numProjects : Look(s, c, wanted)
       \/ FindProject(s) \/ Upsert(s) \/ SetProjectID(s) \/ StoreUserRow(s)
       \/ CreateAt(s) \/ StartRun(s)
       \/ StartResume(s) \/ LoadCheckpoint(s)
       \/ StoreMessage(s) \/ StoreKept(s) \/ CheckRun(s) \/ Track(s) \/ Pause(s) \/ RecordCard(s)
       \/ Ends(s) \/ SettleRun(s)
    /\ UNCHANGED <<fileSystemVars, deletion>>

-----------------------------------------------------------------------------
(***************************************************************************)
(* Deleting a conversation or a project.                                   *)
(***************************************************************************)
ListByProject(p) == {c \in Chats : chat[c].here /\ chat[c].project = p}

Begin(d, p, c, affected) ==
    deletion' = [deletion EXCEPT ![d] = [NoRemoval EXCEPT
        !.at = "stopping", !.project = p, !.chat = c, !.todo = affected,
        !.met = UNION {streams[b] : b \in affected}]]

DeleteChat(d, c) ==
    /\ deletion[d].at = "idle"
    /\ Begin(d, 0, c, {c})
    /\ UNCHANGED <<tableVars, liveVars, workspaceOf, past>>

DeleteProject(d, p) ==
    /\ deletion[d].at = "idle" /\ There(p)
    /\ Begin(d, p, "", ListByProject(p))
    /\ UNCHANGED <<tableVars, liveVars, workspaceOf, past>>

\* Mutant: the stream is removed from the registry without a Cancel.
Cancelled_None(run) == post

Cancelled(run) == [s \in Posts |-> IF s \in run /\ Live(s) THEN [post[s] EXCEPT !.cancelled = TRUE] ELSE post[s]]

\* manager.Get and buf.Cancel, which does nothing before SetCancel.
CancelStream(d, c) ==
    LET early == {s \in streams[c] : post[s].at \in Registered}
    IN /\ deletion[d].at = "stopping" /\ c \in deletion[d].todo
       /\ post' = Cancelled(streams[c] \ early)
       /\ past' = Escape(early)
       /\ deletion' = [deletion EXCEPT ![d].todo = @ \ {c}, ![d].chat = c,
                                      ![d].at = IF streams[c] = {} THEN "stopping" ELSE "removing"]
       /\ UNCHANGED <<tableVars, streams, cards, checked, workspaceOf>>

\* manager.Remove, of whatever run is registered by now.
RemoveStream(d) ==
    LET c == deletion[d].chat
    IN /\ deletion[d].at = "removing"
       /\ past' = Escape(streams[c] \ deletion[d].met)
       /\ streams' = [streams EXCEPT ![c] = {}]
       /\ deletion' = [deletion EXCEPT ![d].at = "stopping"]
       /\ UNCHANGED <<tableVars, cards, post, checked, workspaceOf>>

\* Rows that ProjectRepo.Delete does not ask for.
LeftBy(d, gone) ==
    IF deletion[d].project = 0 THEN {}
    ELSE {l \in gone \X (RowKinds \ {"message"}) : l[2] \in rowsOf[l[1]]}

\* What this deletion had not met: a post on its way, or a run registered after it began.
Gone(d, gone) ==
    LET unmet == {s \in Posts \ deletion[d].met : post[s].chat \in gone}
    IN /\ chat' = [c \in Chats |-> IF c \in gone THEN NoChat ELSE chat[c]]
       /\ deletion' = [deletion EXCEPT ![d] = [NoRemoval EXCEPT !.at = "over"]]
       /\ past' = [Escape(unmet) EXCEPT
            !.deleted = @ \cup {c \in gone : NobodyAsks(c)},
            !.strays = @ \ gone,
            !.revived = @ \ gone,
            !.late = (@ \ gone) \cup (gone \cap checked),
            !.left = {l \in @ : l[1] \notin gone} \cup LeftBy(d, gone)]
       /\ UNCHANGED liveVars

Stopped(d) == deletion[d].at = "stopping" /\ deletion[d].todo = {}

\* ConversationRepo.Delete
DropConversation(d) ==
    LET c == deletion[d].chat
    IN /\ Stopped(d) /\ deletion[d].project = 0
       /\ rowsOf' = [rowsOf EXCEPT ![c] = {}]
       /\ tracked' = {t \in tracked : t[1] # c}
       /\ Gone(d, {c})
       /\ UNCHANGED workspaceOf

\* ProjectRepo.Delete
DropProject(d) ==
    LET p == deletion[d].project
        dropped == ListByProject(p)
    IN /\ Stopped(d) /\ p # 0
       /\ rowsOf' = [c \in Chats |-> rowsOf[c] \ (IF c \in dropped THEN {"message"} ELSE {})]
       /\ tracked' = {t \in tracked : t[2] # p}
       /\ workspaceOf' = [workspaceOf EXCEPT ![p] = Unmade]
       /\ Gone(d, dropped)

Deleting(d) ==
    /\ \/ \E c \in Chats : DeleteChat(d, c) \/ CancelStream(d, c)
       \/ \E p \in ProjectIds : DeleteProject(d, p)
       \/ RemoveStream(d) \/ DropConversation(d) \/ DropProject(d)
    /\ UNCHANGED <<numProjects, leadsTo, opening>>

\* ReconcileChatState keeps the cards that have a conversation and a checkpoint; they are
\* back in the store, the others are deleted.
ValidCards == {c \in Chats : chat[c].here /\ {"pending", "checkpoint"} \subseteq rowsOf[c]}

Restart ==
    /\ rowsOf' = [c \in Chats |-> rowsOf[c] \ (IF c \in ValidCards THEN {} ELSE {"pending"})]
    /\ cards' = ValidCards
    /\ streams' = [c \in Chats |-> {}] /\ checked' = {}
    /\ post' = [s \in Posts |-> IF post[s].at = "idle" THEN NoPost ELSE PostOver]
    /\ deletion' = [d \in Removals |-> IF deletion[d].at = "idle" THEN NoRemoval ELSE [NoRemoval EXCEPT !.at = "over"]]
    /\ opening' = [o \in Openings |->
        IF opening[o].at = "idle" THEN opening[o] ELSE [at |-> "over", folder |-> Nowhere]]
    /\ UNCHANGED <<workspaceOf, numProjects, leadsTo, chat, tracked, past>>

FolderNext ==
    \/ \E o \in Openings : OpenProject(o)
    \/ \E l \in Links, folder \in Folders \cup {Nowhere} : MoveLink(l, folder)

ChatNext ==
    \/ \E s \in Posts : Chatting(s)
    \/ (\E c \in Chats : StoreValidation(c)) /\ UNCHANGED <<fileSystemVars, deletion>>

RemovalNext == \E d \in Removals : Deleting(d)

ProjectNext == FolderNext \/ ChatNext \/ RemovalNext \/ Restart

ProjectSpec == ProjectInit /\ [][ProjectNext]_projectVars

-----------------------------------------------------------------------------
\* A folder is one project, however many requests open it and however it is spelled, as long
\* as nobody moves a link.
OneProjectPerFolder ==
    \A p, q \in ProjectIds : There(p) /\ There(q) /\ p # q =>
        /\ workspaceOf[p] # workspaceOf[q]
        /\ past.moved \/ leadsTo[workspaceOf[p]] # leadsTo[workspaceOf[q]]

InList(c) == chat[c].here /\ chat[c].project # 0

\* A listed conversation has its project, unless it was bound by a post that had looked the
\* project up before it was deleted.
ListedHaveProject == \A c \in Chats : InList(c) => There(chat[c].project) \/ c \in past.strays

\* A deleted conversation is listed again only by a post that begins afterwards, though the
\* last Upsert of its run may put a row without a project back.
DeletedStayAway == \A c \in past.deleted : ~InList(c)

\* A run that may still act has its conversation, unless the deletion of that conversation,
\* or of its project, found no run to cancel, or the run was started later from a checkpoint
\* that the deletion of its project had left.
RunsAreStopped ==
    \A s \in Posts : post[s].at \in Acting /\ ~post[s].cancelled =>
        \/ chat[post[s].chat].here
        \/ post[s].chat \in past.escaped \cup past.revived

\* Of a deleted conversation nothing stays but what its cancelled run wrote last, a validation
\* run that was checked when the rows were deleted, and what the deletion of a project leaves.
NothingStays ==
    \A c \in past.deleted :
        /\ \A t \in tracked : t[1] # c
        /\ c \notin past.escaped \cup past.revived =>
              \A k \in rowsOf[c] \ {"message", "pending"} :
                  <<c, k>> \in past.left \/ (k = "validation" /\ c \in past.late)

\* Opening and deleting, among posts, answers, runs and a restart, leave no duplicate, no
\* orphan in the list, no live run and no row behind but in the cases named above.
DeletionsAreClean ==
    OneProjectPerFolder /\ ListedHaveProject /\ DeletedStayAway /\ RunsAreStopped /\ NothingStays
=============================================================================
