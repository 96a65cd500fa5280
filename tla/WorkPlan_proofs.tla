---------------------------- MODULE WorkPlan_proofs ----------------------------
(***************************************************************************)
(* Proofs about WorkPlan for any tabs, tool calls, items and plans: a      *)
(* revision stands for what a hand has seen.                               *)
(***************************************************************************)
EXTENDS WorkPlan, TLAPS

-----------------------------------------------------------------------------
(***************************************************************************)
(* The inductive invariant.                                                *)
(***************************************************************************)
Nexts == {"begin", "row", "items", "save", "tell"}
PlanShape == [status : PlanStatuses, rev : Nat, items : Saved, turn : Nat]
ViewShape == [pid : 0..MaxPlans, rev : Nat, items : Saved, next : {"items", "done"}]
HandShape == [op : Operations, pid : 0..MaxPlans, rev : Nat, saw : Saved, items : Board,
              next : Nexts]

PlanTyped ==
    /\ plan \in [Plans -> PlanShape]
    /\ view \in [Tabs -> ViewShape]
    /\ hand \in [Hands -> HandShape]
    /\ turn \in Nat

\* What a page shows belongs to the revision it shows, or that has been replaced.
Shows(v, pl) ==
    IF v.pid = 0 THEN v.next = "done"
    ELSE /\ v.rev <= pl[v.pid].rev
         /\ v.next = "done" /\ v.rev = pl[v.pid].rev => v.items = pl[v.pid].items

FromTab == {"edit", "start", "cancel"}
Working == {"row", "items", "save"}

\* While the revision of a hand is current: what it has seen is what is saved, and the
\* status it has decided by is still there.
Current(o, pl) == o.pid # 0 /\ o.rev = pl[o.pid].rev

SeesItems(o) ==
    \/ o.op \in FromTab /\ o.next \in Working
    \/ o.op = "merge" /\ o.next = "save"

Asked(o) == o.op \in {"edit", "start", "create"} /\ o.next = "save"

Updating(o) == o.op \in {"merge", "replace"} /\ o.next \in {"items", "save"}

Knows(o, pl) ==
    /\ o.op \in FromTab /\ o.next \in Working => o.pid # 0
    /\ o.next = "items" => o.pid # 0 /\ o.op \in {"cancel", "merge", "replace"}
    /\ o.op = "rest" => o.next = "begin"
    /\ o.pid # 0 /\ o.next \in Working => o.rev <= pl[o.pid].rev
    /\ Current(o, pl) /\ SeesItems(o) => o.saw = pl[o.pid].items
    /\ Current(o, pl) /\ Asked(o) => pl[o.pid].status = "awaiting"
    /\ Current(o, pl) /\ Updating(o) => pl[o.pid].status # "cancelled"

PlanInv ==
    /\ PlanTyped
    /\ \A p \in Plans : plan[p].status = "none" => plan[p].rev = 0
    /\ \A t \in Tabs : Shows(view[t], plan)
    /\ \A h \in Hands : Knows(hand[h], plan)
    /\ UpdatesKnowWhatTheyReplace

-----------------------------------------------------------------------------
(***************************************************************************)
(* Lists of items.                                                         *)
(***************************************************************************)
LEMMA NoItemsSaved == NoItems \in Saved
BY DEF NoItems, Saved

LEMMA SavedIsBoard == Saved \subseteq Board
BY DEF Saved, Board

LEMMA DefaultsType ==
    ASSUME NEW b \in Board PROVE WithDefaults(b) \in Saved
BY DEF WithDefaults, Saved, Board, ItemStatuses, OpenStatuses

LEMMA MergeType ==
    ASSUME NEW a \in Saved, NEW b \in Board PROVE MergeItems(a, b) \in Board
BY DEF MergeItems, Saved, Board

LEMMA DroppedType ==
    ASSUME NEW a \in Saved PROVE Dropped(a) \in Saved
BY DEF Dropped, Saved, ItemStatuses, OpenStatuses

LEMMA PlansAreNumbers == Plans \subseteq Nat /\ 0 \notin Plans /\ 0..MaxPlans = Plans \cup {0}
BY PlanAssumption DEF Plans, PlanAssumption

-----------------------------------------------------------------------------
(***************************************************************************)
(* A plan that is not written stays, one that is written leaves its        *)
(* revision behind: whoever knows something of it goes on to know it.      *)
(***************************************************************************)
Grown(old, new) == new = old \/ new.rev > old.rev

LEMMA ViewsStay ==
    ASSUME NEW pl \in [Plans -> PlanShape], NEW pm \in [Plans -> PlanShape],
           \A p \in Plans : Grown(pl[p], pm[p]),
           NEW v \in ViewShape, Shows(v, pl)
    PROVE  Shows(v, pm)
<1> SUFFICES ASSUME v.pid # 0 PROVE Shows(v, pm) BY DEF Shows
<1>1. v.pid \in Plans /\ v.rev \in Nat BY PlansAreNumbers DEF ViewShape
<1>2. pl[v.pid].rev \in Nat /\ pm[v.pid].rev \in Nat BY <1>1 DEF PlanShape
<1>3. pm[v.pid] = pl[v.pid] \/ pm[v.pid].rev > pl[v.pid].rev BY <1>1 DEF Grown
<1>. QED BY <1>1, <1>2, <1>3 DEF Shows

LEMMA HandsStay ==
    ASSUME NEW pl \in [Plans -> PlanShape], NEW pm \in [Plans -> PlanShape],
           \A p \in Plans : Grown(pl[p], pm[p]),
           NEW o \in HandShape, Knows(o, pl)
    PROVE  Knows(o, pm)
<1>1. CASE o.pid = 0 BY <1>1 DEF Knows, Current
<1>2. CASE o.pid # 0
  <2>1. o.pid \in Plans /\ o.rev \in Nat BY <1>2, PlansAreNumbers DEF HandShape
  <2>2. pl[o.pid].rev \in Nat /\ pm[o.pid].rev \in Nat BY <2>1 DEF PlanShape
  <2>3. pm[o.pid] = pl[o.pid] \/ pm[o.pid].rev > pl[o.pid].rev BY <2>1 DEF Grown
  <2>4. SeesItems(o) \/ Asked(o) \/ Updating(o) => o.next \in Working
    BY DEF SeesItems, Asked, Updating, Working
  <2>. QED BY <1>2, <2>1, <2>2, <2>3, <2>4 DEF Knows, Current
<1>. QED BY <1>1, <1>2

LEMMA HandType ==
    ASSUME NEW o, NEW op \in Operations, NEW pid \in 0..MaxPlans, NEW rev \in Nat,
           NEW saw \in Saved, NEW items \in Board, NEW next \in Nexts,
           o = [op |-> op, pid |-> pid, rev |-> rev, saw |-> saw, items |-> items, next |-> next]
    PROVE  o \in HandShape
BY DEF HandShape

LEMMA RestingKnows ==
    ASSUME NEW pl PROVE Resting \in HandShape /\ Knows(Resting, pl)
<1>1. NoItems \in Saved /\ NoItems \in Board BY NoItemsSaved, SavedIsBoard
<1>2. 0 \in 0..MaxPlans BY PlansAreNumbers
<1>3. Resting \in HandShape BY <1>1, <1>2, HandType DEF Resting, Operations, Nexts
<1>4. Resting.op = "rest" /\ Resting.pid = 0 /\ Resting.next = "begin" BY DEF Resting
<1>. QED BY <1>3, <1>4 DEF Knows, Current, FromTab, Working

\* A step that moves one hand and leaves the plans alone.
LEMMA HandMoves ==
    ASSUME PlanInv, NEW h \in Hands, NEW k, Moves(h, k), UNCHANGED <<plan, turn>>,
           k \in HandShape, Knows(k, plan)
    PROVE  hand' \in [Hands -> HandShape] /\ \A g \in Hands : Knows(hand'[g], plan')
<1>1. hand \in [Hands -> HandShape] BY DEF PlanInv, PlanTyped
<1>2. hand' = [hand EXCEPT ![h] = k] BY DEF Moves
<1>3. hand' \in [Hands -> HandShape] BY <1>1, <1>2
<1>4. ASSUME NEW g \in Hands PROVE Knows(hand'[g], plan')
  <2>1. hand'[g] = IF g = h THEN k ELSE hand[g] BY <1>1, <1>2
  <2>2. Knows(hand[g], plan) BY DEF PlanInv
  <2>. QED BY <2>1, <2>2
<1>. QED BY <1>3, <1>4

LEMMA OnlyHandMoves ==
    ASSUME PlanInv, NEW h \in Hands, NEW k, Moves(h, k),
           UNCHANGED <<plan, view, turn, lastWrite>>, k \in HandShape, Knows(k, plan)
    PROVE  PlanInv'
<1>1. hand' \in [Hands -> HandShape] /\ \A g \in Hands : Knows(hand'[g], plan')
  BY HandMoves
<1>. QED BY <1>1 DEF PlanInv, PlanTyped, UpdatesKnowWhatTheyReplace

-----------------------------------------------------------------------------
(***************************************************************************)
(* Beginning and reading.                                                  *)
(***************************************************************************)
LEMMA TabBegins ==
    ASSUME PlanInv, NEW t \in Tabs, NEW op \in FromTab, NEW board,
           board \in Boards \/ board = NoItems, BeginFromTab(t, op, board)
    PROVE  PlanInv'
<1> DEFINE k == [op |-> op, pid |-> view[t].pid, rev |-> view[t].rev,
                 saw |-> view[t].items, items |-> WithDefaults(board), next |-> "row"]
<1>1. board \in Board BY NoItemsSaved, SavedIsBoard, PlanAssumption DEF PlanAssumption
<1>2. WithDefaults(board) \in Board BY <1>1, DefaultsType, SavedIsBoard
<1>3. view[t] \in ViewShape BY DEF PlanInv, PlanTyped
<1>4. view[t].pid \in 0..MaxPlans /\ view[t].rev \in Nat /\ view[t].items \in Saved
  BY <1>3 DEF ViewShape
<1>5. k \in HandShape BY <1>2, <1>4, HandType DEF Operations, FromTab, Nexts
<1>6. view[t].pid # 0 /\ view[t].next = "done" BY DEF BeginFromTab
<1>7. Shows(view[t], plan) BY DEF PlanInv
<1>8. k.op = op /\ k.pid = view[t].pid /\ k.rev = view[t].rev /\ k.saw = view[t].items
      /\ k.next = "row"
  OBVIOUS
<1>9. t \in Hands /\ Moves(t, k) /\ UNCHANGED <<plan, view, turn, lastWrite>>
  BY DEF BeginFromTab, BeginSave, Hands, tables, runVars
<1> HIDE DEF k
<1>10. Knows(k, plan)
  BY <1>6, <1>7, <1>8 DEF Knows, Shows, Current, SeesItems, Asked, Updating, FromTab, Working
<1>. QED BY <1>5, <1>9, <1>10, OnlyHandMoves

LEMMA AgentBegins ==
    ASSUME PlanInv, NEW h \in Helpers, NEW op \in {"create", "merge", "replace"},
           NEW board \in Boards, NEW pid \in {0} \cup Plans, BeginFromAgent(h, op, board, pid)
    PROVE  PlanInv'
<1> DEFINE k == [op |-> op, pid |-> pid, rev |-> 0, saw |-> NoItems, items |-> board,
                 next |-> "row"]
<1>1. board \in Board BY PlanAssumption DEF PlanAssumption
<1>2. pid \in 0..MaxPlans BY PlansAreNumbers
<1>3. k \in HandShape BY <1>1, <1>2, HandType, NoItemsSaved DEF Operations, Nexts
<1>4. k.op = op /\ k.pid = pid /\ k.rev = 0 /\ k.next = "row" OBVIOUS
<1>5. h \in Hands /\ Moves(h, k) /\ UNCHANGED <<plan, view, turn, lastWrite>>
  BY DEF BeginFromAgent, BeginSave, Hands, tables, runVars
<1>6. pid # 0 => plan[pid].rev \in Nat BY DEF PlanInv, PlanTyped, PlanShape
<1>7. pid # 0 => 0 <= plan[pid].rev BY <1>6
<1> HIDE DEF k
<1>8. Knows(k, plan)
  BY <1>4, <1>7 DEF Knows, Current, SeesItems, Asked, Updating, FromTab, Working
<1>. QED BY <1>3, <1>5, <1>8, OnlyHandMoves

\* The fields of a hand that is moved on.
LEMMA HandFields ==
    ASSUME NEW o \in HandShape
    PROVE  /\ o.op \in Operations /\ o.pid \in 0..MaxPlans /\ o.rev \in Nat /\ o.saw \in Saved
           /\ o.items \in Board /\ o.next \in Nexts
BY DEF HandShape

LEMMA NextOf ==
    ASSUME NEW o \in HandShape, NEW n \in Nexts, NEW k, k = [o EXCEPT !.next = n]
    PROVE  /\ k \in HandShape /\ k.op = o.op /\ k.pid = o.pid /\ k.rev = o.rev
           /\ k.saw = o.saw /\ k.items = o.items /\ k.next = n
BY DEF HandShape

LEMMA LatestIsAPlan == LatestForUserTurn \in 0..MaxPlans
<1> DEFINE S == {p \in Plans : plan[p].turn = turn}
<1>1. CASE \E p \in Plans : LatestOf(p, S)
  <2>1. LatestForUserTurn = CHOOSE p \in Plans : LatestOf(p, S) BY <1>1 DEF LatestForUserTurn
  <2> HIDE DEF S
  <2>. QED BY <1>1, <2>1, PlansAreNumbers
<1>2. CASE ~ \E p \in Plans : LatestOf(p, S)
  <2>1. LatestForUserTurn = 0 BY <1>2 DEF LatestForUserTurn
  <2>. QED BY <2>1, PlansAreNumbers
<1>. QED BY <1>1, <1>2

LEMMA RowRead ==
    ASSUME PlanInv, NEW h \in Hands, ReadRow(h)
    PROVE  PlanInv'
<1> DEFINE o == hand[h]
           p == IF o.pid = 0 THEN LatestForUserTurn ELSE o.pid
<1>1. o \in HandShape /\ Knows(o, plan) BY DEF PlanInv, PlanTyped
<1>2. o.pid \in 0..MaxPlans /\ o.op \in Operations /\ o.next = "row"
  BY <1>1, HandFields DEF ReadRow
<1>3. p \in 0..MaxPlans BY <1>2, LatestIsAPlan
<1>4. p # 0 => p \in Plans /\ plan[p].rev \in Nat
  BY <1>3, PlansAreNumbers DEF PlanInv, PlanTyped, PlanShape
<1>5. UNCHANGED <<plan, view, turn, lastWrite>> BY DEF ReadRow, tables, runVars
<1>6. {"save", "items"} \subseteq Nexts BY DEF Nexts
<1>7. ASSUME NEW k, Moves(h, k), k \in HandShape, Knows(k, plan) PROVE PlanInv'
  BY <1>5, <1>7, OnlyHandMoves
<1>8. Moves(h, Resting) => PlanInv' BY <1>7, RestingKnows
<1>9. o.op \in FromTab => o.pid # 0 /\ p = o.pid BY <1>1, <1>2 DEF Knows, FromTab, Working
<1>10. CASE o.op \in {"edit", "start"}
  <2> DEFINE k == [o EXCEPT !.next = "save"]
  <2>1. IF Awaits(p) THEN Moves(h, k) ELSE Moves(h, Resting) BY <1>10 DEF ReadRow
  <2>2. /\ k \in HandShape /\ k.op = o.op /\ k.pid = o.pid /\ k.rev = o.rev
        /\ k.saw = o.saw /\ k.next = "save"
    BY <1>1, <1>6, NextOf
  <2> HIDE DEF k
  <2>3. ASSUME Awaits(p) PROVE Knows(k, plan)
    <3>1. plan[o.pid].status = "awaiting" BY <2>3, <1>9, <1>10 DEF Awaits, FromTab
    <3>. QED BY <1>1, <1>2, <1>9, <1>10, <2>2, <3>1
           DEF Knows, Current, SeesItems, Asked, Updating, FromTab, Working
  <2>. QED BY <1>7, <1>8, <2>1, <2>2, <2>3
<1>11. CASE o.op = "cancel"
  <2> DEFINE k == [o EXCEPT !.next = "items"]
  <2>1. Moves(h, k) BY <1>11 DEF ReadRow
  <2>2. /\ k \in HandShape /\ k.op = o.op /\ k.pid = o.pid /\ k.rev = o.rev
        /\ k.saw = o.saw /\ k.next = "items"
    BY <1>1, <1>6, NextOf
  <2> HIDE DEF k
  <2>3. Knows(k, plan)
    BY <1>1, <1>2, <1>9, <1>11, <2>2
    DEF Knows, Current, SeesItems, Asked, Updating, FromTab, Working
  <2>. QED BY <1>7, <2>1, <2>2, <2>3
<1>12. CASE o.op = "create" /\ p # 0 /\ Awaits(p)
  <2> DEFINE k == [o EXCEPT !.pid = p, !.rev = plan[p].rev, !.next = "save"]
  <2>1. Moves(h, k) BY <1>12 DEF ReadRow
  <2>2. plan[p].status = "awaiting" BY <1>12 DEF Awaits
  <2>. HIDE DEF k, p
  <2>3. k \in HandShape /\ k.op = o.op /\ k.pid = p /\ k.rev = plan[p].rev /\ k.next = "save"
    <3>1. k = [o EXCEPT !.pid = p, !.rev = plan[p].rev, !.next = "save"] BY DEF k
    <3>2. o \in HandShape /\ p \in 0..MaxPlans /\ plan[p].rev \in Nat /\ "save" \in Nexts
      BY <1>1, <1>3, <1>4, <1>6, <1>12
    <3>. HIDE DEF o
    <3>. QED BY <3>1, <3>2 DEF HandShape
  <2>4. Knows(k, plan)
    BY <1>4, <1>12, <2>2, <2>3
    DEF Knows, Current, SeesItems, Asked, Updating, FromTab, Working
  <2>. QED BY <1>7, <2>1, <2>3, <2>4
<1>13. CASE o.op \in {"merge", "replace"} /\ p # 0
  <2> DEFINE k == [o EXCEPT !.pid = p, !.rev = plan[p].rev, !.next = "items"]
  <2>1. IF plan[p].status = "cancelled" THEN Moves(h, Resting) ELSE Moves(h, k)
    BY <1>13 DEF ReadRow
  <2>. HIDE DEF k, p
  <2>2. k \in HandShape /\ k.op = o.op /\ k.pid = p /\ k.rev = plan[p].rev /\ k.next = "items"
    <3>1. k = [o EXCEPT !.pid = p, !.rev = plan[p].rev, !.next = "items"] BY DEF k
    <3>2. o \in HandShape /\ p \in 0..MaxPlans /\ plan[p].rev \in Nat /\ "items" \in Nexts
      BY <1>1, <1>3, <1>4, <1>6, <1>13
    <3>. HIDE DEF o
    <3>. QED BY <3>1, <3>2 DEF HandShape
  <2>3. ASSUME plan[p].status # "cancelled" PROVE Knows(k, plan)
    BY <1>4, <1>13, <2>2, <2>3
    DEF Knows, Current, SeesItems, Asked, Updating, FromTab, Working
  <2>. QED BY <1>7, <1>8, <2>1, <2>2, <2>3
<1>14. CASE /\ o.op \notin {"edit", "start"} /\ o.op # "cancel"
            /\ ~(o.op = "create" /\ p # 0 /\ Awaits(p))
            /\ ~(o.op \in {"merge", "replace"} /\ p # 0)
  <2> DEFINE k == [o EXCEPT !.pid = 0, !.next = "save"]
  <2>1. Moves(h, k) BY <1>14 DEF ReadRow
  <2>2. k \in HandShape /\ k.op = o.op /\ k.pid = 0 /\ k.next = "save"
    <3>1. k = [o EXCEPT !.pid = 0, !.next = "save"] OBVIOUS
    <3>2. o \in HandShape /\ "save" \in Nexts BY <1>1, <1>6
    <3>. HIDE DEF k, o
    <3>. QED BY <3>1, <3>2, PlansAreNumbers DEF HandShape
  <2>3. k.op # "rest" BY <1>1, <1>2, <2>2 DEF Knows
  <2> HIDE DEF k
  <2>4. Knows(k, plan)
    BY <1>14, <2>2, <2>3 DEF Knows, Current, SeesItems, Asked, Updating, FromTab, Working
  <2>. QED BY <1>7, <2>1, <2>2, <2>4
<1>. QED BY <1>10, <1>11, <1>12, <1>13, <1>14

LEMMA ItemsRead ==
    ASSUME PlanInv, NEW h \in Hands, ReadItems(h)
    PROVE  PlanInv'
<1> DEFINE o == hand[h]
           read == plan[o.pid].items
           saw == IF o.op = "cancel" THEN o.saw ELSE read
           items == CASE o.op = "cancel" -> Dropped(read)
                      [] o.op = "merge" -> MergeItems(read, o.items)
                      [] OTHER -> o.items
           k == [o EXCEPT !.saw = saw, !.items = items, !.next = "save"]
<1>1. o \in HandShape /\ Knows(o, plan) /\ o.next = "items"
  BY DEF PlanInv, PlanTyped, ReadItems
<1>2. /\ o.op \in Operations /\ o.pid \in 0..MaxPlans /\ o.rev \in Nat /\ o.saw \in Saved
      /\ o.items \in Board
  BY <1>1, HandFields
<1>3. o.pid # 0 /\ o.op \in {"cancel", "merge", "replace"} BY <1>1 DEF Knows
<1>4. read \in Saved BY <1>2, <1>3, PlansAreNumbers DEF PlanInv, PlanTyped, PlanShape
<1>5. saw \in Saved BY <1>2, <1>4
<1>6. items \in Board BY <1>2, <1>3, <1>4, DroppedType, MergeType, SavedIsBoard
<1>7. Moves(h, [o EXCEPT !.saw = IF o.op = "cancel" THEN @ ELSE read,
                         !.items = CASE o.op = "cancel" -> Dropped(read)
                                     [] o.op = "merge" -> MergeItems(read, @)
                                     [] OTHER -> @,
                         !.next = "save"])
  BY DEF ReadItems
<1>8. Moves(h, k) BY <1>7
<1>9. UNCHANGED <<plan, view, turn, lastWrite>> BY DEF ReadItems, tables, runVars
<1> HIDE DEF saw, items
<1>10. /\ k \in HandShape /\ k.op = o.op /\ k.pid = o.pid /\ k.rev = o.rev /\ k.saw = saw
       /\ k.next = "save"
  BY <1>1, <1>5, <1>6 DEF HandShape, Nexts
<1>11. saw = IF o.op = "cancel" THEN o.saw ELSE plan[o.pid].items BY DEF saw
<1> HIDE DEF k
<1>12. Knows(k, plan)
  BY <1>1, <1>3, <1>10, <1>11
  DEF Knows, Current, SeesItems, Asked, Updating, FromTab, Working
<1>. QED BY <1>8, <1>9, <1>10, <1>12, OnlyHandMoves

-----------------------------------------------------------------------------
(***************************************************************************)
(* Saving.                                                                 *)
(***************************************************************************)

\* A step that moves the hand that wrote, to rest or to what comes after.
LEMMA PlanWritten ==
    ASSUME PlanInv, NEW h \in Hands, NEW k, Moves(h, k), UNCHANGED <<view, turn>>,
           plan' \in [Plans -> PlanShape],
           \A p \in Plans : Grown(plan[p], plan'[p]),
           \A p \in Plans : plan'[p].status = "none" => plan'[p] = plan[p],
           k \in HandShape, Knows(k, plan'), UpdatesKnowWhatTheyReplace'
    PROVE  PlanInv'
<1>1. plan \in [Plans -> PlanShape] /\ view \in [Tabs -> ViewShape]
      /\ hand \in [Hands -> HandShape] /\ turn \in Nat
  BY DEF PlanInv, PlanTyped
<1>2. hand' = [hand EXCEPT ![h] = k] BY DEF Moves
<1>3. PlanTyped' BY <1>1, <1>2 DEF PlanTyped
<1>4. \A p \in Plans : plan'[p].status = "none" => plan'[p].rev = 0 BY DEF PlanInv
<1>5. ASSUME NEW t \in Tabs PROVE Shows(view'[t], plan')
  <2>1. view[t] \in ViewShape /\ Shows(view[t], plan) BY <1>1 DEF PlanInv
  <2>. QED BY <1>1, <2>1, ViewsStay
<1>6. ASSUME NEW g \in Hands PROVE Knows(hand'[g], plan')
  <2>1. hand'[g] = IF g = h THEN k ELSE hand[g] BY <1>1, <1>2
  <2>2. hand[g] \in HandShape /\ Knows(hand[g], plan) BY <1>1 DEF PlanInv
  <2>3. Knows(hand[g], plan') BY <1>1, <2>2, HandsStay
  <2>. QED BY <2>1, <2>3
<1>. QED BY <1>3, <1>4, <1>5, <1>6 DEF PlanInv

LEMMA AfterSaveKnows ==
    ASSUME NEW o \in HandShape, NEW pl
    PROVE  AfterSave(o) \in HandShape /\ Knows(AfterSave(o), pl)
<1> DEFINE k == [o EXCEPT !.next = "tell"]
<1>1. CASE o.op \in {"start", "cancel", "create"}
  <2>1. AfterSave(o) = k BY <1>1 DEF AfterSave
  <2>2. k \in HandShape /\ k.op = o.op /\ k.next = "tell" BY NextOf DEF Nexts
  <2> HIDE DEF k
  <2>3. Knows(k, pl)
    BY <1>1, <2>2 DEF Knows, Current, SeesItems, Asked, Updating, FromTab, Working
  <2>. QED BY <2>1, <2>2, <2>3
<1>2. CASE o.op \notin {"start", "cancel", "create"}
  <2>1. AfterSave(o) = Resting BY <1>2 DEF AfterSave
  <2>. QED BY <2>1, RestingKnows
<1>. QED BY <1>1, <1>2

LEMMA StatusAfterType ==
    ASSUME NEW o, NEW items
    PROVE  /\ StatusAfter(o, items) \in PlanStatuses \ {"none"}
           /\ o.op \notin {"create", "edit"} => StatusAfter(o, items) # "awaiting"
           /\ o.op \in {"merge", "replace"} => StatusAfter(o, items) \in {"active", "completed"}
           /\ o.op = "start" => StatusAfter(o, items) \in {"active", "completed"}
BY DEF StatusAfter, StatusForItems, PlanStatuses

\* What a step may do to a plan.
Kept == UpdatesKnowWhatTheyReplace' /\ \A p \in Plans : NeverReopens(p)

LEMMA Saves ==
    ASSUME PlanInv, NEW h \in Hands, SavePlan(h)
    PROVE  PlanInv' /\ Kept
<1> DEFINE o == hand[h]
           items == WithDefaults(o.items)
           st == StatusAfter(o, items)
<1>1. o \in HandShape /\ Knows(o, plan) /\ o.next = "save"
  BY DEF PlanInv, PlanTyped, SavePlan
<1>2. /\ o.op \in Operations /\ o.pid \in 0..MaxPlans /\ o.rev \in Nat /\ o.saw \in Saved
      /\ o.items \in Board
  BY <1>1, HandFields
<1>3. items \in Saved BY <1>2, DefaultsType
<1>4. /\ st \in PlanStatuses \ {"none"}
      /\ o.op \notin {"create", "edit"} => st # "awaiting"
      /\ o.op \in {"merge", "replace", "start"} => st \in {"active", "completed"}
  BY StatusAfterType
<1>5. plan \in [Plans -> PlanShape] BY DEF PlanInv, PlanTyped
<1>6. UNCHANGED <<view, turn>> BY DEF SavePlan, runVars
<1>7. UpdatesKnowWhatTheyReplace BY DEF PlanInv
<1>8. CASE Fails(h)
  <2>1. Moves(h, Resting) /\ UNCHANGED <<plan, view, turn, lastWrite>>
    BY <1>6, <1>8 DEF Fails
  <2>2. PlanInv' BY <2>1, RestingKnows, OnlyHandMoves
  <2>3. Kept BY <1>7, <2>1 DEF Kept, UpdatesKnowWhatTheyReplace, NeverReopens
  <2>. QED BY <2>2, <2>3
<1>9. CASE /\ o.pid = 0 /\ CanCreate
           /\ plan' = [plan EXCEPT ![Fresh] = [status |-> st, rev |-> 1, items |-> items,
                                               turn |-> turn]]
           /\ Moves(h, AfterSave(o))
           /\ UNCHANGED lastWrite
  <2>1. Fresh \in Plans /\ plan[Fresh].status = "none" BY <1>9 DEF CanCreate, Fresh
  <2> DEFINE new == [status |-> st, rev |-> 1, items |-> items, turn |-> turn]
             f == Fresh
  <2>2. new \in PlanShape BY <1>3, <1>4 DEF PlanShape, PlanInv, PlanTyped
  <2>3. new.status = st /\ new.rev = 1 OBVIOUS
  <2>4. plan' = [plan EXCEPT ![f] = new] BY <1>9
  <2>5. f \in Plans /\ plan[f].status = "none" /\ plan[f].rev = 0 BY <2>1 DEF PlanInv
  <2> HIDE DEF new, f
  <2>6. plan' \in [Plans -> PlanShape] BY <1>5, <2>2, <2>4
  <2>7. \A p \in Plans : plan'[p] = IF p = f THEN new ELSE plan[p] BY <1>5, <2>4
  <2>8. \A p \in Plans : Grown(plan[p], plan'[p]) BY <2>3, <2>5, <2>7 DEF Grown
  <2>9. \A p \in Plans : plan'[p].status = "none" => plan'[p] = plan[p] BY <1>4, <2>3, <2>7
  <2>10. AfterSave(o) \in HandShape /\ Knows(AfterSave(o), plan') BY <1>1, AfterSaveKnows
  <2>11. UpdatesKnowWhatTheyReplace' BY <1>7, <1>9 DEF UpdatesKnowWhatTheyReplace
  <2>12. PlanInv' BY <1>6, <1>9, <2>6, <2>8, <2>9, <2>10, <2>11, PlanWritten
  <2>13. \A p \in Plans : NeverReopens(p) BY <2>5, <2>7 DEF NeverReopens
  <2>. QED BY <2>11, <2>12, <2>13 DEF Kept
<1>10. CASE /\ o.pid # 0 /\ RevisionIs(o.pid, o.rev)
            /\ plan' = [plan EXCEPT ![o.pid].status = st, ![o.pid].rev = o.rev + 1,
                                    ![o.pid].items = items]
            /\ lastWrite' = IF o.op \in {"create", "replace"} THEN lastWrite
                            ELSE [saw |-> o.saw, replaced |-> plan[o.pid].items]
            /\ Moves(h, AfterSave(o))
  <2> DEFINE q == o.pid
             new == [plan[q] EXCEPT !.status = st, !.rev = o.rev + 1, !.items = items]
  <2>1. q \in Plans /\ plan[q] \in PlanShape /\ plan[q].rev = o.rev
    BY <1>2, <1>5, <1>10, PlansAreNumbers DEF RevisionIs
  <2>2. plan' = [plan EXCEPT ![q] = new] BY <1>10
  <2>3. new \in PlanShape /\ new.status = st /\ new.rev = o.rev + 1
    <3>1. new = [plan[q] EXCEPT !.status = st, !.rev = o.rev + 1, !.items = items] OBVIOUS
    <3>2. /\ plan[q] \in PlanShape /\ st \in PlanStatuses /\ o.rev + 1 \in Nat
          /\ items \in Saved
      BY <1>2, <1>3, <1>4, <2>1
    <3>. HIDE DEF new, st, items, q, o
    <3>. QED BY <3>1, <3>2 DEF PlanShape
  <2>4. Current(o, plan) BY <1>10, <2>1 DEF Current
  <2>5. o.op \in FromTab \cup {"merge"} => o.saw = plan[q].items
    BY <1>1, <2>4 DEF Knows, SeesItems, Working
  <2>6. o.op \in {"edit", "start", "create"} => plan[q].status = "awaiting"
    BY <1>1, <2>4 DEF Knows, Asked
  <2>7. o.op \in {"merge", "replace"} => plan[q].status # "cancelled"
    BY <1>1, <2>4 DEF Knows, Updating
  <2>8. o.op \in {"create", "edit", "start", "cancel", "merge", "replace"}
    BY <1>1, <1>2 DEF Knows, Operations
  <2>9. o.op = "cancel" => st = "cancelled" BY DEF StatusAfter
  <2>10. UpdatesKnowWhatTheyReplace'
    <3>1. CASE o.op \in {"create", "replace"}
      BY <1>7, <1>10, <3>1 DEF UpdatesKnowWhatTheyReplace
    <3>2. CASE o.op \in FromTab \cup {"merge"}
      BY <1>10, <2>5, <3>2 DEF UpdatesKnowWhatTheyReplace, FromTab
    <3>. QED BY <2>8, <3>1, <3>2 DEF FromTab
  <2>11. AfterSave(o) \in HandShape /\ Knows(AfterSave(o), plan') BY <1>1, AfterSaveKnows
  <2> HIDE DEF new
  <2>12. plan' \in [Plans -> PlanShape] BY <1>5, <2>1, <2>2, <2>3
  <2>13. \A p \in Plans : plan'[p] = IF p = q THEN new ELSE plan[p] BY <1>5, <2>2
  <2>14. \A p \in Plans : Grown(plan[p], plan'[p]) BY <1>2, <2>1, <2>3, <2>13 DEF Grown
  <2>15. \A p \in Plans : plan'[p].status = "none" => plan'[p] = plan[p]
    BY <1>4, <2>3, <2>13
  <2>16. PlanInv' BY <1>6, <1>10, <2>10, <2>11, <2>12, <2>14, <2>15, PlanWritten
  <2>17. \A p \in Plans : NeverReopens(p)
    BY <1>4, <2>3, <2>6, <2>7, <2>8, <2>9, <2>13 DEF NeverReopens
  <2>. QED BY <2>10, <2>16, <2>17 DEF Kept
<1>11. \/ Fails(h)
       \/ /\ o.pid = 0 /\ CanCreate
          /\ plan' = [plan EXCEPT ![Fresh] = [status |-> st, rev |-> 1, items |-> items,
                                              turn |-> turn]]
          /\ Moves(h, AfterSave(o))
          /\ UNCHANGED lastWrite
       \/ /\ o.pid # 0 /\ RevisionIs(o.pid, o.rev)
          /\ plan' = [plan EXCEPT ![o.pid].status = st, ![o.pid].rev = o.rev + 1,
                                  ![o.pid].items = items]
          /\ lastWrite' = IF o.op \in {"create", "replace"} THEN lastWrite
                          ELSE [saw |-> o.saw, replaced |-> plan[o.pid].items]
          /\ Moves(h, AfterSave(o))
  BY Zenon DEF SavePlan
<1>. QED BY <1>8, <1>9, <1>10, <1>11

-----------------------------------------------------------------------------
(***************************************************************************)
(* The other steps, and the theorem.                                       *)
(***************************************************************************)
LEMMA RowShown ==
    ASSUME PlanInv, NEW t \in Tabs, ShowRow(t) \/ ShowItems(t)
    PROVE  PlanInv'
<1>1. view \in [Tabs -> ViewShape] /\ plan \in [Plans -> PlanShape] BY DEF PlanInv, PlanTyped
<1>2. UNCHANGED <<plan, hand, turn, lastWrite>>
  BY DEF ShowRow, ShowItems, tables, runVars
<1>3. ASSUME NEW k \in ViewShape, Shows(k, plan), view' = [view EXCEPT ![t] = k] PROVE PlanInv'
  <2>1. view' \in [Tabs -> ViewShape] BY <1>1, <1>3
  <2>2. \A u \in Tabs : view'[u] = IF u = t THEN k ELSE view[u] BY <1>1, <1>3
  <2>3. \A u \in Tabs : Shows(view'[u], plan') BY <1>2, <1>3, <2>2 DEF PlanInv
  <2>. QED BY <1>2, <2>1, <2>3 DEF PlanInv, PlanTyped, UpdatesKnowWhatTheyReplace
<1>4. CASE ShowRow(t)
  <2>1. PICK p \in Plans : view' = [view EXCEPT ![t] = [pid |-> p, rev |-> plan[p].rev,
                                                    items |-> NoItems, next |-> "items"]]
    BY <1>4 DEF ShowRow
  <2> DEFINE k == [pid |-> p, rev |-> plan[p].rev, items |-> NoItems, next |-> "items"]
  <2>2. plan[p].rev \in Nat BY <1>1 DEF PlanShape
  <2>3. k \in ViewShape BY <2>2, NoItemsSaved, PlansAreNumbers DEF ViewShape
  <2>4. k.pid = p /\ k.rev = plan[p].rev /\ k.next = "items" /\ p # 0
    BY PlansAreNumbers
  <2>5. view' = [view EXCEPT ![t] = k] BY <2>1
  <2> HIDE DEF k
  <2>6. Shows(k, plan) BY <2>2, <2>4 DEF Shows
  <2>. QED BY <1>3, <2>3, <2>5, <2>6
<1>5. CASE ShowItems(t)
  <2> DEFINE v == view[t]
             k == [v EXCEPT !.items = plan[v.pid].items, !.next = "done"]
  <2>1. v \in ViewShape /\ Shows(v, plan) BY <1>1 DEF PlanInv
  <2>2. view' = [view EXCEPT ![t] = k] BY <1>5 DEF ShowItems
  <2>3. v.pid \in Plans /\ v.pid # 0 /\ v.rev \in Nat
    BY <1>5, <2>1, PlansAreNumbers DEF ShowItems, Shows, ViewShape
  <2>4. plan[v.pid].items \in Saved BY <1>1, <2>3 DEF PlanShape
  <2>5. /\ k \in ViewShape /\ k.pid = v.pid /\ k.rev = v.rev
        /\ k.items = plan[v.pid].items /\ k.next = "done"
    BY <2>1, <2>4 DEF ViewShape
  <2> HIDE DEF k
  <2>6. Shows(k, plan) BY <2>1, <2>3, <2>5 DEF Shows
  <2>. QED BY <1>3, <2>2, <2>5, <2>6
<1>. QED BY <1>4, <1>5

\* The steps of the prompt and of the run move a hand to rest at most.
LEMMA PromptSteps ==
    ASSUME PlanInv,
           \/ \E t \in Tabs : AnswerPlan(t)
           \/ \E h \in Helpers : RaisePrompt(h)
           \/ AnswerSibling
           \/ EndRun
           \/ \E mode \in {"plan", "agent"} : NextTurn(mode)
    PROVE  PlanInv'
<1>1. ASSUME NEW h \in Hands, Moves(h, Resting), UNCHANGED <<plan, view, turn, lastWrite>>
      PROVE  PlanInv'
  BY <1>1, RestingKnows, OnlyHandMoves
<1>2. CASE \E t \in Tabs : AnswerPlan(t)
  BY <1>1, <1>2 DEF AnswerPlan, Hands, tables
<1>3. CASE \E h \in Helpers : RaisePrompt(h)
  BY <1>1, <1>3 DEF RaisePrompt, Hands, tables
<1>4. ASSUME UNCHANGED <<plan, view, hand, lastWrite>>, turn' \in Nat PROVE PlanInv'
  BY <1>4 DEF PlanInv, PlanTyped, UpdatesKnowWhatTheyReplace
<1>5. turn \in Nat BY DEF PlanInv, PlanTyped
<1>6. CASE AnswerSibling BY <1>4, <1>5, <1>6 DEF AnswerSibling, tables
<1>7. CASE EndRun BY <1>4, <1>5, <1>7 DEF EndRun, tables
<1>8. CASE \E mode \in {"plan", "agent"} : NextTurn(mode)
  BY <1>4, <1>5, <1>8 DEF NextTurn, tables
<1>. QED BY <1>2, <1>3, <1>6, <1>7, <1>8

\* Only a save writes plans.
LEMMA OthersKeep ==
    ASSUME PlanInv, UNCHANGED <<plan, lastWrite>>
    PROVE  Kept
BY DEF PlanInv, Kept, UpdatesKnowWhatTheyReplace, NeverReopens

LEMMA InitPlan == PlanInit => PlanInv
<1> SUFFICES ASSUME PlanInit PROVE PlanInv OBVIOUS
<1>1. NoItems \in Saved BY NoItemsSaved
<1>2. NoPlan \in PlanShape BY <1>1 DEF NoPlan, PlanShape, PlanStatuses
<1>3. NoView \in ViewShape /\ NoView.pid = 0 /\ NoView.next = "done"
  BY <1>1, PlansAreNumbers DEF NoView, ViewShape
<1>4. NoPlan.rev = 0 BY DEF NoPlan
<1>5. Resting \in HandShape /\ Knows(Resting, plan) BY RestingKnows
<1>6. PlanTyped BY <1>2, <1>3, <1>5 DEF PlanInit, PlanTyped
<1>7. \A t \in Tabs : Shows(view[t], plan) BY <1>3 DEF PlanInit, Shows
<1>8. \A h \in Hands : Knows(hand[h], plan) BY <1>5 DEF PlanInit
<1>9. UpdatesKnowWhatTheyReplace BY DEF PlanInit, UpdatesKnowWhatTheyReplace
<1>10. \A p \in Plans : plan[p].rev = 0 BY <1>4 DEF PlanInit
<1>. QED BY <1>6, <1>7, <1>8, <1>9, <1>10 DEF PlanInv

LEMMA PlanStep == PlanInv /\ [PlanNext]_planVars => PlanInv' /\ Kept
<1> SUFFICES ASSUME PlanInv, [PlanNext]_planVars PROVE PlanInv' /\ Kept
  OBVIOUS
<1>1. CASE UNCHANGED planVars
  <2>1. UNCHANGED <<plan, view, hand, turn, lastWrite>> BY <1>1 DEF planVars
  <2>. QED BY <2>1, OthersKeep DEF PlanInv, PlanTyped, UpdatesKnowWhatTheyReplace
<1>2. CASE \E h \in Hands : SavePlan(h) BY <1>2, Saves
<1>3. CASE \E h \in Hands : ReadRow(h)
  BY <1>3, RowRead, OthersKeep DEF ReadRow, tables
<1>4. CASE \E h \in Hands : ReadItems(h)
  BY <1>4, ItemsRead, OthersKeep DEF ReadItems, tables
<1>5. CASE \E t \in Tabs : ShowRow(t) \/ ShowItems(t)
  BY <1>5, RowShown, OthersKeep DEF ShowRow, ShowItems, tables
<1>6. CASE \E t \in Tabs, op \in {"edit", "start"}, board \in Boards : BeginFromTab(t, op, board)
  BY <1>6, TabBegins, OthersKeep DEF BeginFromTab, BeginSave, tables, FromTab
<1>7. CASE \E t \in Tabs : BeginFromTab(t, "cancel", NoItems)
  BY <1>7, TabBegins, OthersKeep DEF BeginFromTab, BeginSave, tables, FromTab
<1>8. CASE \E h \in Helpers, op \in {"create", "merge", "replace"}, board \in Boards,
             pid \in {0} \cup Plans : BeginFromAgent(h, op, board, pid)
  BY <1>8, AgentBegins, OthersKeep DEF BeginFromAgent, BeginSave, tables
<1>9. CASE \/ \E t \in Tabs : AnswerPlan(t)
           \/ \E h \in Helpers : RaisePrompt(h)
           \/ AnswerSibling
           \/ EndRun
           \/ \E mode \in {"plan", "agent"} : NextTurn(mode)
  BY <1>9, PromptSteps, OthersKeep
  DEF AnswerPlan, RaisePrompt, AnswerSibling, EndRun, NextTurn, tables
<1>. QED BY <1>1, <1>2, <1>3, <1>4, <1>5, <1>6, <1>7, <1>8, <1>9 DEF PlanNext

\* Whatever tabs and tool calls do at once, and whatever they had read: no update replaces
\* items its writer has not seen, a cancelled plan stays cancelled, and one that was
\* started does not wait for the user again (WorkPlanRepo.Update and the status checks
\* before it).
THEOREM PlansKept == PlanSpec => PlansAreKept
<1>1. PlanInit => PlanInv BY InitPlan
<1>2. PlanInv /\ [PlanNext]_planVars => PlanInv' BY PlanStep
<1>3. PlanInv /\ [PlanNext]_planVars
        => [UpdatesKnowWhatTheyReplace' /\ \A p \in Plans : NeverReopens(p)]_planVars
  BY PlanStep DEF Kept
<1>. QED BY <1>1, <1>2, <1>3, PTL DEF PlanSpec, PlansAreKept
=============================================================================
