------------------------------ MODULE WorkPlan ------------------------------
(***************************************************************************)
(* The plan and todo board of a conversation (internal/workplan), its two  *)
(* tools create_plan and todo_write, the plan page of the browser and the  *)
(* way a plan prompt is answered.                                          *)
(*                                                                         *)
(* Every operation reads the row of a plan, then its items, decides in     *)
(* memory and writes row and items in one transaction that succeeds only   *)
(* if the row still has the expected revision.  Several hands do so at the *)
(* same time: the calls of the agent and the tabs of the user, who sends   *)
(* the revision that was shown.                                            *)
(***************************************************************************)
EXTENDS Naturals, Sequences, FiniteSets, SequencesExt

CONSTANTS
    Tabs,           \* open pages of the conversation
    Helpers,        \* tool calls of the agent that run at the same time
    Items,          \* item ids
    Boards,         \* item lists that are sent, see Board
    MaxPlans,       \* plans created
    MaxSaves,       \* operations begun
    MaxTurns        \* user messages

OpenStatuses == {"pending", "in_progress"}
ItemStatuses == OpenStatuses \cup {"completed", "cancelled"}

\* What is sent: "absent" for an item that is not in the list, "" for one without
\* a status.  Content, position and malformed ids are left out.
Board == [Items -> ItemStatuses \cup {"absent", ""}]
Saved == [Items -> ItemStatuses \cup {"absent"}]

ASSUME PlanAssumption ==
    /\ Boards \subseteq Board
    /\ MaxPlans \in Nat /\ MaxSaves \in Nat /\ MaxTurns \in Nat

Plans == 1..MaxPlans
Hands == Tabs \cup Helpers

-----------------------------------------------------------------------------
NoItems == [i \in Items |-> "absent"]

WithDefaults(board) == [i \in Items |-> IF board[i] = "" THEN "pending" ELSE board[i]]

\* normalizeItems: at least one item and at most one in progress, or an error.
Normal(board) ==
    /\ \E i \in Items : board[i] # "absent"
    /\ Cardinality({i \in Items : board[i] = "in_progress"}) <= 1

MergeItems(current, updates) ==
    [i \in Items |->
        IF updates[i] = "absent" \/ (updates[i] = "" /\ current[i] # "absent")
          THEN current[i] ELSE updates[i]]

StatusForItems(board) ==
    IF \E i \in Items : board[i] \in OpenStatuses THEN "active" ELSE "completed"

Dropped(board) ==
    [i \in Items |-> IF board[i] \in OpenStatuses THEN "cancelled" ELSE board[i]]

-----------------------------------------------------------------------------
VARIABLES
    plan,           \* the work_plans and work_items tables
    recent,         \* the plans in the order they were last written
    view,           \* what every tab shows
    hand,           \* the operation every hand is in
    prompt,         \* the plan prompt of the checkpoint
    sibling,        \* another prompt of the same checkpoint, ask_user for one
    decision,       \* the decision stored for the plan prompt
    chatMode,       \* conversations.chat_mode
    agent,          \* the run of the conversation
    turn,           \* the seq of the latest user message
    saves,          \* operations begun
    lastWrite       \* history: what the last writer had seen and what it replaced

planVars == <<plan, recent, view, hand, prompt, sibling, decision, chatMode, agent,
              turn, saves, lastWrite>>

NoPlan == [status |-> "none", rev |-> 0, items |-> NoItems, turn |-> 0]
NoView == [pid |-> 0, rev |-> 0, items |-> NoItems, next |-> "done"]
Resting == [op |-> "rest", pid |-> 0, rev |-> 0, saw |-> NoItems, items |-> NoItems,
            next |-> "begin"]

Operations == {"rest", "create", "edit", "start", "cancel", "merge", "replace"}
PlanStatuses == {"none", "awaiting", "active", "completed", "cancelled"}
PromptStates == {"none", "pending", "settled"}

PlanTypeOK ==
    /\ plan \in [Plans -> [status : PlanStatuses, rev : Nat, items : Saved, turn : Nat]]
    /\ recent \in Seq(Plans)
    /\ view \in [Tabs -> [pid : 0..MaxPlans, rev : Nat, items : Saved,
                          next : {"items", "done"}]]
    /\ hand \in [Hands -> [op : Operations, pid : 0..MaxPlans, rev : Nat, saw : Saved,
                           items : Board, next : {"begin", "row", "items", "save", "tell"}]]
    /\ prompt \in PromptStates /\ sibling \in PromptStates
    /\ decision \in {"none", "start", "cancel"}
    /\ chatMode \in {"plan", "agent"}
    /\ agent \in {"idle", "running", "waiting", "planning", "implementing", "stopping"}
    /\ turn \in 1..MaxTurns /\ saves \in 0..MaxSaves

PlanInit ==
    /\ plan = [p \in Plans |-> NoPlan] /\ recent = <<>>
    /\ view = [t \in Tabs |-> NoView]
    /\ hand = [h \in Hands |-> Resting]
    /\ prompt = "none" /\ sibling = "none" /\ decision = "none"
    /\ chatMode = "plan" /\ agent = "running"
    /\ turn = 1 /\ saves = 0
    /\ lastWrite = [saw |-> NoItems, replaced |-> NoItems]

tables == <<plan, recent>>
promptVars == <<prompt, sibling, decision>>
runVars == <<chatMode, agent, turn>>

-----------------------------------------------------------------------------
(***************************************************************************)
(* Reading and writing a plan.                                             *)
(***************************************************************************)
Fresh == CHOOSE p \in Plans : plan[p].status = "none"
CanCreate == \E p \in Plans : plan[p].status = "none"

Touch(p) == Append(SelectSeq(recent, LAMBDA q : q # p), p)

LatestOf(p, ps) ==
    LET those == SelectSeq(recent, LAMBDA q : q \in ps) IN those # <<>> /\ p = Last(those)

LatestForUserTurn ==
    LET ofTurn == {p \in Plans : plan[p].turn = turn}
    IN IF \E p \in Plans : LatestOf(p, ofTurn) THEN CHOOSE p \in Plans : LatestOf(p, ofTurn) ELSE 0

Moves(h, state) == hand' = [hand EXCEPT ![h] = state]

\* A page shows the latest plan: its row, and in a second query its items.
ShowRow(t) ==
    /\ view[t].next = "done"
    /\ \E p \in Plans :
        /\ LatestOf(p, Plans)
        /\ view' = [view EXCEPT ![t] = [pid |-> p, rev |-> plan[p].rev,
                                        items |-> NoItems, next |-> "items"]]
    /\ UNCHANGED <<tables, hand, promptVars, runVars, saves, lastWrite>>

ShowItems(t) ==
    /\ view[t].next = "items"
    /\ view' = [view EXCEPT ![t].items = plan[view[t].pid].items, ![t].next = "done"]
    /\ UNCHANGED <<tables, hand, promptVars, runVars, saves, lastWrite>>

BeginSave(h, state) ==
    /\ hand[h] = Resting
    /\ saves < MaxSaves
    /\ saves' = saves + 1
    /\ Moves(h, state)
    /\ UNCHANGED <<tables, view, promptVars, runVars, lastWrite>>

\* A tab sends the revision it shows; start and cancel first ask whether the plan
\* prompt is still pending.
BeginFromTab(t, op, board) ==
    /\ view[t].next = "done" /\ view[t].pid # 0
    /\ op \in {"start", "cancel"} => prompt = "pending"
    /\ op # "cancel" => Normal(WithDefaults(board))
    /\ BeginSave(t, [op |-> op, pid |-> view[t].pid, rev |-> view[t].rev,
                 saw |-> view[t].items, items |-> WithDefaults(board), next |-> "row"])

\* planGuard: create_plan in Plan mode, todo_write outside it.
BeginFromAgent(h, op, board, pid) ==
    /\ agent \in {"running", "planning", "implementing"}
    /\ IF op = "create" THEN chatMode = "plan" /\ prompt = "none" /\ Normal(WithDefaults(board))
                        ELSE chatMode = "agent"
    /\ op # "merge" => pid = 0
    /\ pid # 0 => plan[pid].status # "none"
    /\ BeginSave(h, [op |-> op, pid |-> pid, rev |-> 0, saw |-> NoItems,
                 items |-> board, next |-> "row"])

Awaits(p) == plan[p].status = "awaiting"

Fails(h) == Moves(h, Resting) /\ UNCHANGED <<plan, recent, lastWrite>>

\* The row, and what its status decides.
ReadRow(h) ==
    /\ hand[h].next = "row"
    /\ LET o == hand[h]
           p == IF o.pid = 0 THEN LatestForUserTurn ELSE o.pid
       IN CASE o.op \in {"edit", "start"} ->
                  IF Awaits(p) THEN Moves(h, [o EXCEPT !.next = "save"]) ELSE Moves(h, Resting)
            [] o.op = "cancel" -> Moves(h, [o EXCEPT !.next = "items"])
            [] o.op = "create" /\ p # 0 /\ Awaits(p) ->
                  Moves(h, [o EXCEPT !.pid = p, !.rev = plan[p].rev, !.next = "save"])
            [] o.op \in {"merge", "replace"} /\ p # 0 ->
                  IF plan[p].status = "cancelled" THEN Moves(h, Resting)
                  ELSE Moves(h, [o EXCEPT !.pid = p, !.rev = plan[p].rev, !.next = "items"])
            [] OTHER -> Moves(h, [o EXCEPT !.pid = 0, !.next = "save"])
    /\ UNCHANGED <<tables, view, promptVars, runVars, saves, lastWrite>>

\* The items: cancel closes the open ones, a merge changes some.
ReadItems(h) ==
    /\ hand[h].next = "items"
    /\ LET o == hand[h]
           read == plan[o.pid].items
       IN Moves(h, [o EXCEPT
            !.saw = IF o.op = "cancel" THEN @ ELSE read,
            !.items = CASE o.op = "cancel" -> Dropped(read)
                        [] o.op = "merge" -> MergeItems(read, @)
                        [] OTHER -> @,
            !.next = "save"])
    /\ UNCHANGED <<tables, view, promptVars, runVars, saves, lastWrite>>

StatusAfter(o, items) ==
    CASE o.op \in {"create", "edit"} -> "awaiting"
      [] o.op = "cancel" -> "cancelled"
      [] OTHER -> StatusForItems(items)

\* Mutant: the row is written whatever its revision.
RevisionIs_Any(p, rev) == rev <= plan[p].rev

\* The compare-and-swap of WorkPlanRepo.Update.
RevisionIs(p, rev) == plan[p].rev = rev

\* start and cancel go on to answer the prompt, create_plan to raise it.
AfterSave(o) ==
    IF o.op \in {"start", "cancel", "create"} THEN [o EXCEPT !.next = "tell"] ELSE Resting

SavePlan(h) ==
    /\ hand[h].next = "save"
    /\ LET o == hand[h]
           items == WithDefaults(o.items)
       IN CASE ~Normal(items) /\ o.op # "cancel" -> Fails(h)
            [] o.pid = 0 ->
                /\ CanCreate
                /\ plan' = [plan EXCEPT ![Fresh] =
                      [status |-> StatusAfter(o, items), rev |-> 1, items |-> items,
                       turn |-> turn]]
                /\ recent' = Append(recent, Fresh)
                /\ Moves(h, AfterSave(o))
                /\ UNCHANGED lastWrite
            [] o.pid # 0 /\ ~RevisionIs(o.pid, o.rev) -> Fails(h)
            [] OTHER ->
                /\ plan' = [plan EXCEPT ![o.pid].status = StatusAfter(o, items),
                                        ![o.pid].rev = o.rev + 1,
                                        ![o.pid].items = items]
                /\ recent' = Touch(o.pid)
                /\ lastWrite' = IF o.op \in {"create", "replace"} THEN lastWrite
                                ELSE [saw |-> o.saw, replaced |-> plan[o.pid].items]
                /\ Moves(h, AfterSave(o))
    /\ UNCHANGED <<view, promptVars, runVars, saves>>

-----------------------------------------------------------------------------
(***************************************************************************)
(* The plan prompt.  create_plan interrupts the run, perhaps together with *)
(* another call of the batch; the run goes on when every prompt of the     *)
(* checkpoint is answered.                                                 *)
(***************************************************************************)
RaisePrompt(h) ==
    /\ hand[h].op = "create" /\ hand[h].next = "tell"
    /\ agent = "running" /\ prompt = "none"
    /\ \A other \in Helpers \ {h} : hand[other] = Resting
    /\ prompt' = "pending"
    /\ sibling' \in {"none", "pending"}
    /\ agent' = "waiting"
    /\ Moves(h, Resting)
    /\ UNCHANGED <<tables, view, decision, chatMode, turn, saves, lastWrite>>

\* The run that is resumed with the decision `d'.
ResumedWith(d) == IF d = "start" THEN "implementing" ELSE "stopping"

\* ResumePlan: the answer that completes the batch also leaves Plan mode.
AnswerPlan(t) ==
    /\ hand[t].op \in {"start", "cancel"} /\ hand[t].next = "tell"
    /\ Moves(t, Resting)
    /\ IF prompt # "pending" THEN UNCHANGED <<promptVars, chatMode, agent>>
       ELSE /\ decision' = hand[t].op
            /\ prompt' = "settled"
            /\ IF sibling = "pending" THEN UNCHANGED <<chatMode, agent>>
               ELSE /\ chatMode' = IF hand[t].op = "start" THEN "agent" ELSE chatMode
                    /\ agent' = ResumedWith(hand[t].op)
            /\ UNCHANGED sibling
    /\ UNCHANGED <<tables, view, turn, saves, lastWrite>>

\* ResumeQuestion and Resume: the other prompt is answered.
AnswerSibling ==
    /\ sibling = "pending"
    /\ sibling' = "settled"
    /\ agent' = IF prompt = "settled" THEN ResumedWith(decision) ELSE agent
    /\ UNCHANGED <<tables, view, hand, prompt, decision, chatMode, turn, saves, lastWrite>>

\* The user stops the run while it waits, or it ends: no prompt is left.
EndRun ==
    /\ agent # "idle"
    /\ \A h \in Helpers : hand[h] = Resting
    /\ agent' = "idle"
    /\ prompt' = "none" /\ sibling' = "none" /\ decision' = "none"
    /\ UNCHANGED <<tables, view, hand, chatMode, turn, saves, lastWrite>>

\* The next message, in the mode the user has picked for it.
NextTurn(mode) ==
    /\ agent = "idle"
    /\ turn < MaxTurns
    /\ turn' = turn + 1
    /\ chatMode' = mode
    /\ agent' = "running"
    /\ UNCHANGED <<tables, view, hand, promptVars, saves, lastWrite>>

PlanNext ==
    \/ \E t \in Tabs :
        \/ ShowRow(t) \/ ShowItems(t) \/ AnswerPlan(t)
        \/ \E op \in {"edit", "start"}, board \in Boards : BeginFromTab(t, op, board)
        \/ BeginFromTab(t, "cancel", NoItems)
    \/ \E h \in Helpers :
        \/ \E op \in {"create", "merge", "replace"}, board \in Boards, pid \in {0} \cup Plans :
            BeginFromAgent(h, op, board, pid)
        \/ RaisePrompt(h)
    \/ \E h \in Hands : ReadRow(h) \/ ReadItems(h) \/ SavePlan(h)
    \/ AnswerSibling
    \/ EndRun
    \/ \E mode \in {"plan", "agent"} : NextTurn(mode)

PlanSpec == PlanInit /\ [][PlanNext]_planVars

-----------------------------------------------------------------------------
\* Whoever edits, starts, cancels or merges into a plan has seen exactly the items
\* it replaces: no item and no status saved by another hand is lost, although the
\* row and the items are read in different queries and nothing is locked.
UpdatesKnowWhatTheyReplace == lastWrite.saw = lastWrite.replaced

\* A cancelled plan stays cancelled and a plan that was started never again waits
\* for the user, whichever operations overtake each other.
NeverReopens(p) ==
    /\ plan[p].status = "cancelled" => plan'[p].status = "cancelled"
    /\ plan[p].status \in {"active", "completed"} => plan'[p].status # "awaiting"

\* No step overwrites items its hand has not seen, nor undoes what the user decided.
PlansAreKept == [][UpdatesKnowWhatTheyReplace' /\ \A p \in Plans : NeverReopens(p)]_planVars
=============================================================================
