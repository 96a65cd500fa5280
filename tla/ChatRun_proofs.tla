---------------------------- MODULE ChatRun_proofs ----------------------------
(***************************************************************************)
(* Proofs about ChatRun for any finite set of calls, any number of runs    *)
(* and crashes and every combination of liberties: type correctness, one   *)
(* result per tool call, and no execution without the user's consent.      *)
(***************************************************************************)
EXTENDS ChatRun, TLAPS, FiniteSetTheorems, SequenceTheorems

-----------------------------------------------------------------------------
(* Lemmas about the operators the actions are built from                   *)

(* Whatever kind is given, a waiting status is one of the statuses.         *)
LEMMA WaitingType == \A kind : Waiting(kind) \in Statuses
  BY DEF Waiting, Statuses, Stale

(* The head of the pending list decides on a status, or the fallback does.  *)
LEMMA HeadStatusType ==
  ASSUME NEW w \in Statuses
  PROVE  HeadStatus(w) \in Statuses
  BY WaitingType DEF HeadStatus

(* The status a run ends with is a status.                                  *)
LEMMA FinalStatusType == FinalStatus \in Statuses
  BY HeadStatusType DEF FinalStatus, Statuses

(* The rows the code appends are rows.                                      *)
LEMMA UserRowType == UserRow \in Row
  BY DEF UserRow, Row, Outcomes

(* So is an assistant row.                                                     *)
LEMMA AssistantRowType ==
  ASSUME NEW S \in SUBSET Calls
  PROVE  AssistantRow(S) \in Row
  BY DEF AssistantRow, Row, Outcomes

(* So are the tool rows.                                                    *)
LEMMA ToolRowType ==
  ASSUME NEW c \in Calls, NEW out \in Outcomes
  PROVE  ToolRow(c, out) \in Row
  BY DEF ToolRow, Row, Outcomes

(* The calls a transcript mentions are calls.                              *)
LEMMA DeclaredType ==
  ASSUME NEW h \in Seq(Row)
  PROVE  /\ Declared(h) \in SUBSET Calls
         /\ Resulted(h) \in SUBSET Calls
         /\ OpenToolCalls(h) \in SUBSET Calls
<1>1. \A i \in DOMAIN h : h[i].calls \subseteq Calls
  <2> SUFFICES ASSUME NEW i \in DOMAIN h PROVE h[i].calls \subseteq Calls
    OBVIOUS
  <2>1. h[i] \in Row
    BY LenProperties
  <2> QED
    BY <2>1 DEF Row
<1>2. Declared(h) \subseteq Calls
  BY <1>1 DEF Declared
<1>3. Resulted(h) \subseteq Calls
  BY <1>1 DEF Resulted
<1> QED
  BY <1>2, <1>3 DEF OpenToolCalls

(* A keyed append yields a transcript.                                     *)
LEMMA AppendToolResultType ==
  ASSUME NEW h \in Seq(Row), NEW c \in Calls, NEW out \in Outcomes
  PROVE  AppendToolResult(h, c, out) \in Seq(Row)
  BY ToolRowType, AppendProperties DEF AppendToolResult

(* Appending rows declares at least what was declared before.               *)
LEMMA DeclaredAppend ==
  ASSUME NEW h \in Seq(Row), NEW x \in Row
  PROVE  /\ Declared(h) \subseteq Declared(Append(h, x))
         /\ x.role = "assistant" => x.calls \subseteq Declared(Append(h, x))
  BY AppendProperties DEF Declared

(* What a longer table declares.                                            *)
LEMMA DeclaredConcat ==
  ASSUME NEW h \in Seq(Row), NEW t \in Seq(Row)
  PROVE  Declared(h) \subseteq Declared(h \o t)
  BY ConcatProperties DEF Declared

(* A tool result declares no call.                                          *)
LEMMA DeclaredToolResult ==
  ASSUME NEW h \in Seq(Row), NEW c \in Calls, NEW out \in Outcomes
  PROVE  Declared(h) \subseteq Declared(AppendToolResult(h, c, out))
  BY DeclaredAppend, ToolRowType DEF AppendToolResult

(* The items of the pending list.                                           *)
LEMMA PendItems ==
  ASSUME TypeOK
  PROVE  /\ Len(pend) \in Nat /\ DOMAIN pend = 1..Len(pend)
         /\ \A i \in DOMAIN pend : pend[i] \in [call: Calls, ans: Answers \cup {"none"}]
<1> DEFINE Pending == [call: Calls, ans: Answers \cup {"none"}]
<1>1. pend \in Seq(Pending)
  BY DEF TypeOK
<1> HIDE DEF Pending
<1>2. Len(pend) \in Nat /\ DOMAIN pend = 1..Len(pend) /\ \A i \in DOMAIN pend : pend[i] \in Pending
  BY <1>1, LenProperties
<1> QED
  BY <1>2 DEF Pending

(* Deleting by key leaves a sequence of calls.                              *)
LEMMA WithoutType ==
  ASSUME NEW ids \in Seq(Calls), NEW c
  PROVE  Without(ids, c) \in Seq(Calls)
<1> DEFINE at == {i \in DOMAIN ids : ids[i] = c}
           k  == CHOOSE i \in at : TRUE
<1>1. CASE at = {}
  BY <1>1 DEF Without
<1>2. CASE at # {}
  <2>1. k \in 1..Len(ids)
    <3>1. k \in at
      BY <1>2, Zenon
    <3> QED
      BY <3>1, LenProperties
  <2>2. Len(ids) \in Nat /\ \A i \in 1..Len(ids) : ids[i] \in Calls
    BY LenProperties
  <2>3. Without(ids, c) = SubSeq(ids, 1, k - 1) \o SubSeq(ids, k + 1, Len(ids))
    BY <1>2 DEF Without
  <2> HIDE DEF k
  <2>4. SubSeq(ids, 1, k - 1) \in Seq(Calls)
    <3>1. \A i \in 1..(k - 1) : ids[i] \in Calls
      BY <2>1, <2>2
    <3> QED
      BY <2>1, <2>2, <3>1, SubSeqProperties
  <2>5. SubSeq(ids, k + 1, Len(ids)) \in Seq(Calls)
    <3>1. \A i \in (k + 1)..Len(ids) : ids[i] \in Calls
      BY <2>1, <2>2
    <3> QED
      BY <2>1, <2>2, <3>1, SubSeqProperties
  <2> QED
    BY <2>3, <2>4, <2>5, ConcatProperties
<1> QED
  BY <1>1, <1>2

(* An order of a finite set of calls is a sequence without repetitions.     *)
LEMMA OrdersType ==
  ASSUME NEW S \in SUBSET Calls, NEW s \in Orders(S)
  PROVE  /\ Cardinality(S) \in Nat
         /\ s \in Seq(S) /\ DOMAIN s = 1..Cardinality(S)
         /\ \A i, j \in DOMAIN s : i # j => s[i] # s[j]
<1>1. Cardinality(S) \in Nat
  BY FS_Subset, FS_CardinalityType, ChatAssumption
<1> QED
  BY <1>1 DEF Orders

(* The rows Reconcile adds.                                                 *)
LEMMA ClosingRows ==
  ASSUME NEW S \in SUBSET Calls, NEW s \in Orders(S)
  PROVE  [i \in DOMAIN s |-> ToolRow(s[i], "canceled")] \in Seq(Row)
<1>1. \A i \in DOMAIN s : ToolRow(s[i], "canceled") \in Row
  BY OrdersType, ToolRowType, ElementOfSeq DEF Outcomes, Orders
<1> QED
  BY <1>1, OrdersType

-----------------------------------------------------------------------------
(* Type correctness                                                        *)

(* Every handler and every step of a run keeps the types.                   *)
LEMMA RunStepType ==
  ASSUME TypeOK, NEW r \in Runs, RunStep(r)
  PROVE  TypeOK'
<1>1. CASE ListPrior(r)
  BY <1>1, LenProperties DEF TypeOK, durable, handler, runner, history, Goto, Labels,
       AtRest, ListPrior
<1>2. CASE StoreUser(r)
  BY <1>2, UserRowType, AppendProperties DEF TypeOK, durable, handler, runner, history,
       Goto, Labels, AtRest, StoreUser
<1>3. CASE StartCreate(r)
  BY <1>3 DEF TypeOK, durable, handler, runner, history, Goto, CreateBuffer, Labels,
       AtRest, StartCreate
<1>4. CASE ClearPending(r)
  BY <1>4, EmptySeq DEF TypeOK, durable, handler, runner, history, Goto, Labels, AtRest,
       ClearPending
<1>5. CASE ClearPendingRows(r)
  BY <1>5, EmptySeq DEF TypeOK, durable, handler, runner, history, Goto, Labels, AtRest,
       ClearPendingRows
<1>6. CASE BeginRun(r)
  BY <1>6 DEF TypeOK, durable, handler, runner, history, Goto, Labels, AtRest, Statuses,
       Stale, BeginRun
<1>7. CASE DeclareCalls(r)
  BY <1>7, AssistantRowType, AppendProperties DEF TypeOK, durable, handler, runner,
       history, Goto, Phases, DeclareCalls
<1>8. CASE Reply(r)
  BY <1>8, AssistantRowType, AppendProperties DEF TypeOK, durable, handler, runner,
       history, Goto, Labels, AtRest, Reply
<1>9. CASE Interrupt(r)
  BY <1>9 DEF TypeOK, durable, handler, runner, history, Goto, Labels, AtRest, NoCalls,
       Phases, Interrupt
<1>10. CASE InsertPendingRow(r)
  BY <1>10, AppendProperties DEF TypeOK, durable, handler, runner, history, Goto, Labels,
       AtRest, InsertPendingRow
<1>11. CASE MarkWaiting(r)
  BY <1>11, WaitingType DEF TypeOK, durable, handler, runner, history, Goto, Labels,
       AtRest, MarkWaiting
<1>12. CASE Exhaust(r)
  BY <1>12 DEF TypeOK, durable, handler, runner, history, Goto, Labels, AtRest, Exhaust
<1>13. CASE Fail(r)
  BY <1>13 DEF TypeOK, durable, handler, runner, history, Goto, AfterError, Labels,
       AtRest, NoCalls, Phases, Fail
<1>14. CASE Abandon(r)
  BY <1>14 DEF TypeOK, durable, handler, runner, history, Goto, AfterError, Labels,
       AtRest, Phases, Abandon
<1>15. CASE CheckPending(r)
  BY <1>15 DEF TypeOK, durable, handler, runner, history, Goto, AfterLoop, Labels, AtRest,
       CheckPending
<1>16. CASE KeepPartial(r)
  <2>0. Append(rows, AssistantRow({})) \in Seq(Row)
    BY AssistantRowType, AppendProperties DEF TypeOK
  <2>1. rows' \in Seq(Row)
    BY <1>16, <2>0 DEF TypeOK, KeepPartial
  <2> QED
    BY <1>16, <2>1 DEF TypeOK, durable, handler, runner, history, Goto, Labels, AtRest,
         KeepPartial
<1>17. CASE ScanOpen(r)
  BY <1>17, DeclaredType DEF TypeOK, durable, handler, runner, history, Goto, Labels,
       AtRest, ScanOpen
<1>18. CASE CloseOpen(r)
  <2>1. PICK c \in todo[r] :
          /\ rows' = AppendToolResult(rows, c, "canceled")
          /\ todo' = [todo EXCEPT ![r] = @ \ {c}]
    BY <1>18 DEF CloseOpen
  <2>2. c \in Calls /\ "canceled" \in Outcomes
    BY DEF TypeOK, Outcomes
  <2>3. rows' \in Seq(Row)
    BY <2>1, <2>2, AppendToolResultType DEF TypeOK
  <2> QED
    BY <1>18, <2>1, <2>3 DEF TypeOK, durable, handler, runner, history, Goto, CloseOpen
<1>19. CASE ReadHead(r)
  BY <1>19, FinalStatusType DEF TypeOK, durable, handler, runner, history, Goto, Labels,
       AtRest, ReadHead
<1>20. CASE WriteStatus(r)
  BY <1>20 DEF TypeOK, durable, handler, runner, history, Goto, Labels, AtRest, WriteStatus
<1>21. CASE Finish(r)
  BY <1>21 DEF TypeOK, durable, handler, runner, history, Goto, Labels, AtRest, Finish
<1>22. CASE DropPendingRow(r)
  BY <1>22, WithoutType DEF TypeOK, durable, handler, runner, history, Goto, DropPendingRow
<1>23. CASE ResumeRead(r)
  BY <1>23, HeadStatusType DEF TypeOK, durable, handler, runner, history, Goto, Labels,
       AtRest, Statuses, Stale, ResumeRead
<1>24. CASE ResumeWrite(r)
  BY <1>24 DEF TypeOK, durable, handler, runner, history, Goto, Labels, AtRest, ResumeWrite
<1>25. CASE ResumeCreate(r)
  BY <1>25 DEF TypeOK, durable, handler, runner, history, Goto, CreateBuffer, Labels,
       AtRest, ResumeCreate
<1>26. CASE BeginResume(r)
  BY <1>26 DEF TypeOK, durable, handler, runner, history, Goto, Labels, AtRest, Statuses,
       Stale, BeginResume
<1>27. CASE LoadCheckpoint(r)
  BY <1>27 DEF TypeOK, durable, handler, runner, history, Goto, Reenter, Labels, AtRest,
       Phases, LoadCheckpoint
<1>28. CASE LoadFails(r)
  BY <1>28 DEF TypeOK, durable, handler, runner, history, Goto, Labels, AtRest, Statuses,
       LoadFails
<1>29. ASSUME NEW c \in Calls, RunTool(r, c) PROVE TypeOK'
  BY <1>29 DEF TypeOK, durable, handler, runner, history, Goto, Phases, RunTool
<1>30. ASSUME NEW c \in Calls, AskUser(r, c) PROVE TypeOK'
  BY <1>30 DEF TypeOK, durable, handler, runner, history, Goto, Phases, AskUser
<1>31. ASSUME NEW c \in Calls, DeliverResult(r, c) PROVE TypeOK'
  BY <1>31, AppendToolResultType DEF TypeOK, durable, handler, runner, history, Goto,
       Phases, Outcomes, DeliverResult
<1>32. ASSUME NEW c \in Calls, Record(r, c) PROVE TypeOK'
  <2>1. pend' \in Seq([call: Calls, ans: Answers \cup {"none"}])
    <3>1. pend \in Seq([call: Calls, ans: Answers \cup {"none"}])
      BY DEF TypeOK
    <3>2. Item(c) \in [call: Calls, ans: Answers \cup {"none"}]
      BY DEF Item
    <3>3. pend' \in {pend, Append(pend, Item(c))}
      BY <1>32 DEF Record
    <3> QED
      <4> HIDE DEF Item
      <4> DEFINE T == [call: Calls, ans: Answers \cup {"none"}]
      <4>1. Append(pend, Item(c)) \in Seq(T)
        <5> HIDE DEF T
        <5> QED
          BY <3>1, <3>2, AppendProperties DEF T
      <4> QED
        BY <3>1, <3>3, <4>1
  <2>2. pc' \in [Runs -> Labels] /\ now' \in [Runs -> SUBSET Calls]
    BY <1>32 DEF TypeOK, Goto, Labels, AtRest, Record
  <2>3. UNCHANGED <<durable, up, cur, buf, emit, todo, note, plen, late, runner, history, crashes>>
    BY <1>32 DEF Record
  <2> QED
    BY <2>1, <2>2, <2>3 DEF TypeOK, durable, runner, history
<1> QED
  BY <1>1, <1>2, <1>3, <1>4, <1>5, <1>6, <1>7, <1>8, <1>9, <1>10, <1>11, <1>12, <1>13,
       <1>14, <1>15, <1>16, <1>17, <1>18, <1>19, <1>20, <1>21, <1>22, <1>23, <1>24, <1>25,
       <1>26, <1>27, <1>28, <1>29, <1>30, <1>31, <1>32 DEF RunStep, Handling, Driving,
       Settling

(* The handlers that answer an interrupt.                                   *)
LEMMA AnswerType ==
  ASSUME TypeOK, NEW c \in Calls, NEW a \in Answers,
         AnswerOne(c, a) \/ \E r \in Runs : AnswerLast(c, a, r)
  PROVE  TypeOK'
<1> DEFINE Pending == [call: Calls, ans: Answers \cup {"none"}]
<1>1. Len(pend) \in Nat /\ DOMAIN pend = 1..Len(pend)
      /\ \A i \in DOMAIN pend : pend[i] \in Pending
  BY PendItems
<1>2. CASE AnswerOne(c, a)
  <2>1. \A i \in 1..Len(pend) :
          (IF pend[i].call = c THEN [pend[i] EXCEPT !.ans = a] ELSE pend[i]) \in Pending
    BY <1>1
  <2>2. Resolved(c, a) \in Seq(Pending)
    BY <1>1, <2>1 DEF Resolved
  <2> QED
    BY <1>2, <2>2 DEF TypeOK, AnswerOne, durable, runner, Answers
<1>3. ASSUME NEW r \in Runs, AnswerLast(c, a, r)
      PROVE  TypeOK'
  <2>1. \A d \in Calls :
          (\E i \in DOMAIN pend : pend[i].call = d)
             => pend[CHOOSE i \in DOMAIN pend : pend[i].call = d].ans \in Answers \cup {"none"}
    BY <1>1
  <2>2. targets' \in [Runs -> [Calls -> Answers \cup {"none"}]]
    BY <1>3, <2>1 DEF TypeOK, AnswerLast
  <2>3. {pend[i].call : i \in DOMAIN pend} \subseteq Calls
    BY <1>1
  <2>4. todo' \in [Runs -> SUBSET Calls] /\ pend' \in Seq(Pending)
    BY <1>3, <2>3, EmptySeq DEF TypeOK, AnswerLast
  <2> QED
    BY <1>3, <2>2, <2>4 DEF TypeOK, AnswerLast, durable, Goto, Labels, AtRest
<1> QED
  BY <1>2, <1>3

(* A crash loses the memory, the restart rebuilds the pending list.         *)
LEMMA CrashType ==
  ASSUME TypeOK, Crash
  PROVE  TypeOK'
<1>1. pend' \in Seq([call: Calls, ans: Answers \cup {"none"}])
  BY EmptySeq DEF Crash
<1>2. call' \in [Runs -> [Calls -> Phases]] /\ targets' \in [Runs -> [Calls -> Answers \cup {"none"}]]
  BY DEF Crash, NoCalls, NoAnswer, Phases
<1>3. pc' \in [Runs -> Labels] /\ buf' \in [Runs -> {"none", "streaming", "complete"}]
  BY DEF Crash, Labels, AtRest
<1>4. UNCHANGED <<rows, status, ckpt, pendDB, execs, asked, said>>
  BY DEF Crash, durable, history
<1>5. crashes' \in Nat /\ plen' \in [Runs -> Nat] /\ cur' \in Runs \cup {0}
  BY DEF TypeOK, Crash
<1>7. up' \in BOOLEAN /\ cancelled' \in [Runs -> BOOLEAN]
  BY DEF Crash
<1>8. late' \in [Calls -> Statuses \cup {"none", "read"}] /\ note' \in [Runs -> Statuses]
  BY DEF Crash, Statuses
<1>6. emit' \in [Runs -> SUBSET Calls] /\ now' \in [Runs -> SUBSET Calls]
      /\ todo' \in [Runs -> SUBSET Calls]
  BY DEF Crash
<1> QED
  BY <1>1, <1>2, <1>3, <1>4, <1>5, <1>6, <1>7, <1>8 DEF TypeOK

(* The repair after a restart.                                              *)
LEMMA ReconcileType ==
  ASSUME TypeOK, Reconcile
  PROVE  TypeOK'
<1> DEFINE Pending == [call: Calls, ans: Answers \cup {"none"}]
<1>1. pendDB' \in Seq(Calls)
  BY EmptySeq DEF TypeOK, Reconcile
<1>2. pend' \in Seq(Pending)
  <2>1. \A i \in 1..Len(pendDB') : Item(pendDB'[i]) \in Pending
    BY <1>1, ElementOfSeq DEF Item
  <2>2. Len(pendDB') \in Nat /\ pend' \in [1..Len(pendDB') -> Pending]
    BY <1>1, <2>1, LenProperties DEF Reconcile
  <2> HIDE DEF Pending
  <2> QED
    BY <2>2, SeqDef
<1>3. status' \in Statuses
  BY WaitingType DEF TypeOK, Reconcile, Statuses
<1>4. rows' \in Seq(Row)
  <2>1. CASE UNCHANGED rows
    BY <2>1 DEF TypeOK
  <2>2. ASSUME NEW s \in Orders(OpenToolCalls(rows)),
               rows' = rows \o [i \in DOMAIN s |-> ToolRow(s[i], "canceled")]
        PROVE  rows' \in Seq(Row)
    <3>1. [i \in DOMAIN s |-> ToolRow(s[i], "canceled")] \in Seq(Row)
      BY DeclaredType, ClosingRows DEF TypeOK
    <3> QED
      BY <2>2, <3>1, ConcatProperties DEF TypeOK
  <2> QED
    BY <2>1, <2>2 DEF Reconcile
<1> QED
  BY <1>1, <1>2, <1>3, <1>4 DEF TypeOK, Reconcile, handler, runner, history

(* No step leaves the types.                                                *)
LEMMA TypeInductive == TypeOK /\ [Next]_vars => TypeOK'
<1> SUFFICES ASSUME TypeOK, [Next]_vars PROVE TypeOK'
  OBVIOUS
<1>1. ASSUME NEW r \in Runs, Post(r) PROVE TypeOK'
  BY <1>1 DEF TypeOK, Post, durable, runner, history, Goto, Labels, AtRest
<1>2. ASSUME NEW c \in Calls, LateRead(c) PROVE TypeOK'
  BY <1>2, HeadStatusType DEF TypeOK, LateRead, durable, runner, history, Statuses, Stale
<1>3. ASSUME NEW c \in Calls, LateWrite(c) PROVE TypeOK'
  BY <1>3 DEF TypeOK, LateWrite, runner, history
<1>4. CASE Cancel
  BY <1>4 DEF TypeOK, Cancel, durable, handler, history
<1>5. CASE UNCHANGED vars
  BY <1>5 DEF TypeOK, vars, durable, handler, runner, history
<1> QED
  BY <1>1, <1>2, <1>3, <1>4, <1>5, RunStepType, AnswerType, CrashType, ReconcileType
     DEF Next, UserStep, LateStep

(* The initial state is well typed.                                         *)
LEMMA TypeInit == Init => TypeOK
  BY EmptySeq DEF Init, TypeOK, NoCalls, NoAnswer, Phases, Statuses, Labels, AtRest

(* Every variable keeps its type, for any calls, runs and crashes.          *)
THEOREM TypeCorrect == Spec => []TypeOK
  BY TypeInit, TypeInductive, PTL DEF Spec

-----------------------------------------------------------------------------
(* One result per tool call                                                *)

(* A tool row is about one call, and no two are about the same one.         *)
ToolRowsSingle(h) ==
  \A i \in DOMAIN h : h[i].role = "tool" => \E c \in Calls : h[i].calls = {c}
ToolRowsDiffer(h) ==
  \A i, j \in DOMAIN h :
    h[i].role = "tool" /\ h[j].role = "tool" /\ h[i].calls = h[j].calls => i = j
SingleResults(h) == ToolRowsSingle(h) /\ ToolRowsDiffer(h)

(* User and assistant rows are no results.                                  *)
LEMMA PlainRowKeepsSingle ==
  ASSUME NEW h \in Seq(Row), NEW x \in Row, x.role # "tool", SingleResults(h)
  PROVE  SingleResults(Append(h, x))
<1> DEFINE g == Append(h, x)
<1>1. Len(h) \in Nat /\ DOMAIN h = 1..Len(h) /\ DOMAIN g = 1..(Len(h) + 1)
      /\ (\A i \in 1..Len(h) : g[i] = h[i]) /\ g[Len(h) + 1] = x
  BY AppendProperties, LenProperties
<1>2. \A i \in DOMAIN g : g[i].role = "tool" => i \in DOMAIN h /\ g[i] = h[i]
  BY <1>1
<1> HIDE DEF g
<1> QED
  BY <1>2 DEF SingleResults, ToolRowsSingle, ToolRowsDiffer, g

(* The event key: a result is appended only for a call without one.         *)
LEMMA KeyedRowKeepsSingle ==
  ASSUME NEW h \in Seq(Row), NEW c \in Calls, NEW out \in Outcomes, SingleResults(h)
  PROVE  SingleResults(AppendToolResult(h, c, out))
<1>1. CASE c \in Resulted(h)
  BY <1>1 DEF AppendToolResult
<1>2. CASE c \notin Resulted(h)
  <2> DEFINE x == ToolRow(c, out)
             g == Append(h, x)
  <2>1. x \in Row /\ x.role = "tool" /\ x.calls = {c}
    BY ToolRowType DEF ToolRow
  <2>2. \A i \in DOMAIN h : h[i].role = "tool" => h[i].calls # {c}
    BY <1>2 DEF Resulted
  <2> HIDE DEF x
  <2>3. Len(h) \in Nat /\ DOMAIN h = 1..Len(h) /\ DOMAIN g = 1..(Len(h) + 1)
        /\ (\A i \in 1..Len(h) : g[i] = h[i]) /\ g[Len(h) + 1] = x
    BY <2>1, AppendProperties, LenProperties
  <2>4. AppendToolResult(h, c, out) = g
    BY <1>2 DEF AppendToolResult, x
  <2> HIDE DEF g
  <2>5. ToolRowsSingle(g)
    BY <2>1, <2>3 DEF SingleResults, ToolRowsSingle
  <2>6. ToolRowsDiffer(g)
    BY <2>1, <2>2, <2>3 DEF SingleResults, ToolRowsDiffer
  <2> QED
    BY <2>4, <2>5, <2>6 DEF SingleResults
<1> QED
  BY <1>1, <1>2

(* The rows Reconcile adds are about open calls, each once.                 *)
LEMMA ClosingKeepsSingle ==
  ASSUME NEW h \in Seq(Row), NEW s \in Orders(OpenToolCalls(h)), SingleResults(h)
  PROVE  SingleResults(h \o [i \in DOMAIN s |-> ToolRow(s[i], "canceled")])
<1> DEFINE n == Cardinality(OpenToolCalls(h))
           t == [i \in DOMAIN s |-> ToolRow(s[i], "canceled")]
           g == h \o t
<1>1. n \in Nat /\ DOMAIN s = 1..n /\ t \in Seq(Row)
      /\ (\A i \in 1..n : s[i] \in Calls /\ s[i] \notin Resulted(h))
      /\ (\A i, j \in 1..n : i # j => s[i] # s[j])
  <2>1. OpenToolCalls(h) \in SUBSET Calls
    BY DeclaredType
  <2>2. n \in Nat /\ t \in Seq(Row)
    BY <2>1, OrdersType, ClosingRows
  <2>3. s \in [1..n -> OpenToolCalls(h)] /\ \A i, j \in DOMAIN s : i # j => s[i] # s[j]
    BY DEF Orders
  <2> HIDE DEF n, t
  <2> QED
    BY <2>1, <2>2, <2>3 DEF OpenToolCalls
<1>2. Len(t) = n /\ \A i \in 1..n : t[i].role = "tool" /\ t[i].calls = {s[i]}
  BY <1>1, LenProperties DEF ToolRow
<1>3. \A i \in DOMAIN h, c \in Calls :
        h[i].role = "tool" /\ h[i].calls = {c} => c \in Resulted(h)
  BY DEF Resulted
<1> HIDE DEF t, n
<1>4. Len(h) \in Nat /\ DOMAIN h = 1..Len(h) /\ DOMAIN g = 1..(Len(h) + n)
      /\ (\A i \in 1..Len(h) : g[i] = h[i])
      /\ (\A i \in (Len(h) + 1)..(Len(h) + n) : g[i] = t[i - Len(h)])
  BY <1>1, <1>2, ConcatProperties, LenProperties
<1> HIDE DEF g
<1>5. ToolRowsSingle(g)
  <2> SUFFICES ASSUME NEW i \in DOMAIN g, g[i].role = "tool"
               PROVE  \E c \in Calls : g[i].calls = {c}
    BY DEF ToolRowsSingle
  <2>1. CASE i \in 1..Len(h)
    BY <1>4, <2>1 DEF SingleResults, ToolRowsSingle
  <2>2. CASE i \notin 1..Len(h)
    <3>1. i - Len(h) \in 1..n /\ g[i] = t[i - Len(h)]
      BY <1>1, <1>4, <2>2
    <3> QED
      BY <1>1, <1>2, <3>1
  <2> QED
    BY <2>1, <2>2
<1>6. ASSUME NEW i \in DOMAIN g, i \notin DOMAIN h
      PROVE  \E k \in 1..n : i = Len(h) + k /\ g[i].calls = {s[k]}
  <2> DEFINE k == i - Len(h)
  <2>1. k \in 1..n /\ i = Len(h) + k
    BY <1>1, <1>4, <1>6
  <2>2. g[i] = t[k]
    BY <1>1, <1>4, <1>6
  <2> HIDE DEF k
  <2> QED
    BY <1>2, <2>1, <2>2
<1>7. ToolRowsDiffer(g)
  <2> SUFFICES ASSUME NEW i \in DOMAIN g, NEW j \in DOMAIN g,
                      g[i].role = "tool", g[j].role = "tool", g[i].calls = g[j].calls
               PROVE  i = j
    BY DEF ToolRowsDiffer
  <2>1. CASE i \in DOMAIN h /\ j \in DOMAIN h
    BY <1>4, <2>1 DEF SingleResults, ToolRowsDiffer
  <2>2. CASE i \notin DOMAIN h /\ j \notin DOMAIN h
    <3>1. PICK k \in 1..n : i = Len(h) + k /\ g[i].calls = {s[k]}
      BY <1>6, <2>2
    <3>2. PICK l \in 1..n : j = Len(h) + l /\ g[j].calls = {s[l]}
      BY <1>6, <2>2
    <3> QED
      BY <1>1, <3>1, <3>2
  <2>3. CASE i \in DOMAIN h /\ j \notin DOMAIN h
    <3>1. PICK k \in 1..n : g[j].calls = {s[k]}
      BY <1>6, <2>3
    <3>2. g[i] = h[i] /\ h[i].role = "tool" /\ h[i].calls = {s[k]}
      BY <1>4, <2>3, <3>1
    <3> QED
      BY <1>1, <1>3, <2>3, <3>2
  <2>4. CASE i \notin DOMAIN h /\ j \in DOMAIN h
    <3>1. PICK k \in 1..n : g[i].calls = {s[k]}
      BY <1>6, <2>4
    <3>2. g[j] = h[j] /\ h[j].role = "tool" /\ h[j].calls = {s[k]}
      BY <1>4, <2>4, <3>1
    <3> QED
      BY <1>1, <1>3, <2>4, <3>2
  <2> QED
    BY <2>1, <2>2, <2>3, <2>4
<1> QED
  BY <1>5, <1>7 DEF SingleResults, g, t

(* No step adds a second result.                                            *)
LEMMA SingleInductive ==
  TypeOK /\ SingleResults(rows) /\ [Next]_vars => SingleResults(rows')
<1> SUFFICES ASSUME TypeOK, SingleResults(rows), [Next]_vars
             PROVE  SingleResults(rows')
  OBVIOUS
<1>1. rows \in Seq(Row)
  BY DEF TypeOK
<1>2. ASSUME NEW r \in Runs, StoreUser(r) PROVE SingleResults(rows')
  BY <1>1, <1>2, UserRowType, PlainRowKeepsSingle DEF StoreUser, UserRow
<1>3. ASSUME NEW S \in SUBSET Calls, rows' = Append(rows, AssistantRow(S))
      PROVE  SingleResults(rows')
  BY <1>1, <1>3, AssistantRowType, PlainRowKeepsSingle DEF AssistantRow
<1>4. ASSUME NEW c \in Calls, NEW out \in Outcomes,
             rows' = AppendToolResult(rows, c, out)
      PROVE  SingleResults(rows')
  BY <1>1, <1>4, KeyedRowKeepsSingle
<1>5. CASE UNCHANGED rows
  BY <1>5
<1>6. ASSUME NEW r \in Runs, DeclareCalls(r) \/ Reply(r) \/ KeepPartial(r)
      PROVE  SingleResults(rows')
  BY <1>3, <1>5, <1>6 DEF DeclareCalls, Reply, KeepPartial
<1>7. ASSUME NEW r \in Runs, NEW c \in Calls, DeliverResult(r, c)
      PROVE  SingleResults(rows')
  BY <1>4, <1>7 DEF DeliverResult, Outcomes
<1>8. ASSUME NEW r \in Runs, CloseOpen(r) PROVE SingleResults(rows')
  BY <1>4, <1>8 DEF CloseOpen, TypeOK, Outcomes
<1>9. CASE Reconcile
  BY <1>1, <1>5, <1>9, ClosingKeepsSingle DEF Reconcile
<1>10. ASSUME NEW r \in Runs, RunStep(r)
       PROVE  UNCHANGED rows \/ StoreUser(r) \/ DeclareCalls(r) \/ Reply(r)
              \/ KeepPartial(r) \/ CloseOpen(r) \/ \E c \in Calls : DeliverResult(r, c)
  BY <1>10 DEF RunStep, Handling, Driving, Settling, durable, CreateBuffer, ListPrior,
     StartCreate, ClearPending, ClearPendingRows, DropPendingRow, ResumeRead, ResumeWrite,
     ResumeCreate, BeginRun, BeginResume, LoadCheckpoint, LoadFails, Interrupt, RunTool,
     AskUser, Record, InsertPendingRow, MarkWaiting, Exhaust, Fail, Abandon, CheckPending,
     ScanOpen, ReadHead, WriteStatus, Finish
<1>11. CASE UserStep \/ LateStep \/ Crash \/ UNCHANGED vars
  BY <1>5, <1>11 DEF UserStep, Post, AnswerOne, AnswerLast, Cancel, LateStep, LateRead,
     LateWrite, Crash, durable, vars
<1> QED
  BY <1>2, <1>5, <1>6, <1>7, <1>8, <1>9, <1>10, <1>11 DEF Next

(* The transcript never holds two results for one tool call.                *)
THEOREM SingleResult == Spec => []OneResultPerCall
<1>1. Init => SingleResults(rows)
  BY EmptySeq DEF Init, SingleResults, ToolRowsSingle, ToolRowsDiffer
<1>2. SingleResults(rows) => OneResultPerCall
  BY DEF SingleResults, ToolRowsDiffer, OneResultPerCall
<1>3. TypeOK /\ SingleResults(rows) /\ [Next]_vars => SingleResults(rows)'
  BY SingleInductive DEF SingleResults, ToolRowsSingle, ToolRowsDiffer
<1> QED
  BY <1>1, <1>2, <1>3, TypeCorrect, PTL DEF Spec

-----------------------------------------------------------------------------
(* No execution without consent                                            *)

consentVars == <<call, targets, pend, ckpt, execs, asked, said>>

(* A step that only adds rows, and leaves the rest of ConsentInv alone.     *)
LEMMA RowsOnlyKeepConsent ==
  ASSUME ConsentInv, Declared(rows) \subseteq Declared(rows'), UNCHANGED consentVars
  PROVE  ConsentInv'
  BY DEF ConsentInv, consentVars, AskedIsDeclared, CheckpointAsked, YesWasSaid,
     CalledIsSanctioned, RunsOnlyOnYes

(* A step after which the runners hold no more than before.                 *)
LEMMA ForgetKeepsConsent ==
  ASSUME TypeOK, ConsentInv,
         call' \in [Runs -> [Calls -> Phases]],
         \A r \in Runs, c \in Calls : call'[r][c] \in {"-", call[r][c]},
         UNCHANGED <<rows, targets, pend, ckpt, execs, asked, said>>
  PROVE  ConsentInv'
<1>1. AskedIsDeclared'
  BY DEF ConsentInv, AskedIsDeclared
<1>2. CheckpointAsked'
  BY DEF ConsentInv, CheckpointAsked
<1>3. YesWasSaid' /\ RunsOnlyOnYes'
  BY DEF ConsentInv, YesWasSaid, RunsOnlyOnYes
<1>4. CalledIsSanctioned'
  BY DEF ConsentInv, CalledIsSanctioned
<1> QED
  BY <1>1, <1>2, <1>3, <1>4 DEF ConsentInv

(* The steps of the runner.                                                 *)
LEMMA DeclareCallsConsent ==
  ASSUME TypeOK, ConsentInv, NEW r \in Runs, DeclareCalls(r)
  PROVE  ConsentInv'
<1>1. PICK S \in SUBSET (Calls \ Declared(rows)) :
        /\ rows' = Append(rows, AssistantRow(S))
        /\ call[r] = NoCalls
        /\ call' = [call EXCEPT ![r] = [c \in Calls |-> IF c \in S THEN "called" ELSE "-"]]
        /\ UNCHANGED <<targets, pend, ckpt, execs, asked, said>>
  BY DEF DeclareCalls, history
<1>2. Declared(rows) \subseteq Declared(rows') /\ S \subseteq Declared(rows')
  BY <1>1, AssistantRowType, DeclaredAppend DEF TypeOK, AssistantRow
<1>3. \A q \in Runs, c \in Calls :
        call'[q][c] = IF q # r THEN call[q][c] ELSE IF c \in S THEN "called" ELSE "-"
  BY <1>1 DEF TypeOK
<1>4. AskedIsDeclared'
  BY <1>1, <1>2, <1>3 DEF ConsentInv, AskedIsDeclared
<1>5. CheckpointAsked'
  BY <1>1, <1>2, <1>3 DEF ConsentInv, CheckpointAsked
<1>6. YesWasSaid' /\ RunsOnlyOnYes'
  BY <1>1 DEF ConsentInv, YesWasSaid, RunsOnlyOnYes
<1>7. CalledIsSanctioned'
  <2>1. \A c \in S : c \notin asked /\ execs[c] = 0 /\ \A q \in Runs : call[q][c] = "-"
    BY DEF TypeOK, ConsentInv, AskedIsDeclared
  <2> QED
    BY <1>1, <1>3, <2>1 DEF ConsentInv, CalledIsSanctioned
<1> QED
  BY <1>4, <1>5, <1>6, <1>7 DEF ConsentInv

(* A tool runs: its call was called, so it was not asked or had a yes.      *)
LEMMA RunToolConsent ==
  ASSUME TypeOK, ConsentInv, NEW r \in Runs, NEW c \in Calls, RunTool(r, c)
  PROVE  ConsentInv'
<1>1. /\ call[r][c] = "called"
      /\ \A q \in Runs, d \in Calls :
           call'[q][d] = IF q = r /\ d = c THEN "ran" ELSE call[q][d]
      /\ \A d \in Calls : execs'[d] = IF d = c THEN execs[c] + 1 ELSE execs[d]
      /\ UNCHANGED <<rows, targets, pend, ckpt, asked, said>>
  BY DEF RunTool, TypeOK, durable
<1>2. AskedIsDeclared'
  BY <1>1 DEF ConsentInv, AskedIsDeclared
<1>3. CheckpointAsked' /\ YesWasSaid'
  BY <1>1 DEF ConsentInv, CheckpointAsked, YesWasSaid
<1>4. CalledIsSanctioned'
  BY <1>1 DEF ConsentInv, CalledIsSanctioned
<1>5. RunsOnlyOnYes'
  BY <1>1 DEF ConsentInv, CalledIsSanctioned, RunsOnlyOnYes, TypeOK
<1> QED
  BY <1>2, <1>3, <1>4, <1>5 DEF ConsentInv

(* The middleware interrupts.                                               *)
LEMMA AskUserConsent ==
  ASSUME TypeOK, ConsentInv, NEW r \in Runs, NEW c \in Calls, AskUser(r, c)
  PROVE  ConsentInv'
<1>1. /\ call[r][c] = "called"
      /\ \A q \in Runs, d \in Calls :
           call'[q][d] = IF q = r /\ d = c THEN "asked" ELSE call[q][d]
      /\ asked' = asked \cup {c}
      /\ UNCHANGED <<rows, targets, pend, ckpt, execs, said>>
  BY DEF AskUser, TypeOK, durable
<1>2. AskedIsDeclared'
  BY <1>1 DEF ConsentInv, AskedIsDeclared
<1>3. CheckpointAsked' /\ YesWasSaid'
  BY <1>1 DEF ConsentInv, CheckpointAsked, YesWasSaid
<1>4. CalledIsSanctioned'
  BY <1>1 DEF ConsentInv, CalledIsSanctioned
<1>5. RunsOnlyOnYes'
  BY <1>1 DEF ConsentInv, CalledIsSanctioned, RunsOnlyOnYes, TypeOK
<1> QED
  BY <1>2, <1>3, <1>4, <1>5 DEF ConsentInv

(* The runner saves its checkpoint: no call in it is called.                *)
LEMMA InterruptConsent ==
  ASSUME TypeOK, ConsentInv, NEW r \in Runs, Interrupt(r)
  PROVE  ConsentInv'
<1>1. /\ ckpt' = call[r] /\ \A c \in Calls : call[r][c] # "called"
      /\ \A q \in Runs, c \in Calls : call'[q][c] = IF q = r THEN "-" ELSE call[q][c]
      /\ UNCHANGED <<rows, targets, pend, execs, asked, said>>
  BY DEF Interrupt, TypeOK, history, NoCalls
<1>2. AskedIsDeclared' /\ CheckpointAsked'
  BY <1>1 DEF ConsentInv, AskedIsDeclared, CheckpointAsked
<1>3. YesWasSaid' /\ RunsOnlyOnYes'
  BY <1>1 DEF ConsentInv, YesWasSaid, RunsOnlyOnYes
<1>4. CalledIsSanctioned'
  BY <1>1 DEF ConsentInv, CalledIsSanctioned
<1> QED
  BY <1>2, <1>3, <1>4 DEF ConsentInv

(* Reenter yields "called" for an approved call only.                       *)
LEMMA LoadCheckpointConsent ==
  ASSUME TypeOK, ConsentInv, NEW r \in Runs, LoadCheckpoint(r)
  PROVE  ConsentInv'
<1>1. /\ \A q \in Runs, c \in Calls :
           call'[q][c] = IF q = r THEN Reenter(ckpt[c], targets[r][c]) ELSE call[q][c]
      /\ UNCHANGED <<rows, targets, pend, ckpt, execs, asked, said>>
  BY DEF LoadCheckpoint, TypeOK, durable, history
<1>2. \A c \in Calls :
        /\ Reenter(ckpt[c], targets[r][c]) # "-" => c \in Declared(rows)
        /\ Reenter(ckpt[c], targets[r][c]) = "asked" => c \in asked
        /\ Reenter(ckpt[c], targets[r][c]) = "called" => c \in asked /\ "yes" \in said[c]
  BY DEF Reenter, TypeOK, Phases, ConsentInv, CheckpointAsked, YesWasSaid
<1>3. AskedIsDeclared'
  BY <1>1, <1>2 DEF ConsentInv, AskedIsDeclared
<1>4. CheckpointAsked' /\ YesWasSaid' /\ RunsOnlyOnYes'
  BY <1>1, <1>2 DEF ConsentInv, CheckpointAsked, YesWasSaid, RunsOnlyOnYes
<1>5. CalledIsSanctioned'
  BY <1>1, <1>2 DEF ConsentInv, CalledIsSanctioned
<1> QED
  BY <1>3, <1>4, <1>5 DEF ConsentInv

(* The pending list: recorded without an answer, answered by the user.      *)
LEMMA PendConsent ==
  ASSUME TypeOK, ConsentInv, YesWasSaid',
         \A c \in Calls : said[c] \subseteq said'[c],
         UNCHANGED <<rows, call, ckpt, execs, asked>>
  PROVE  ConsentInv'
  BY DEF ConsentInv, AskedIsDeclared, CheckpointAsked, CalledIsSanctioned, RunsOnlyOnYes, TypeOK

(* A new pending item carries no answer yet.                                *)
LEMMA RecordConsent ==
  ASSUME TypeOK, ConsentInv, NEW r \in Runs, NEW c \in Calls, Record(r, c)
  PROVE  ConsentInv'
<1>1. pend' = pend \/ pend' = Append(pend, Item(c))
  BY DEF Record
<1>2. UNCHANGED <<rows, call, ckpt, execs, asked, targets, said>>
  BY DEF Record, durable, runner, history
<1>3. \A i \in DOMAIN pend' : pend'[i].ans = "yes" => i \in DOMAIN pend /\ pend'[i] = pend[i]
  <2>1. Item(c) \in [call: Calls, ans: Answers \cup {"none"}] /\ Item(c).ans = "none"
    BY DEF Item
  <2> DEFINE Pending == [call: Calls, ans: Answers \cup {"none"}]
             next    == Append(pend, Item(c))
  <2>2. pend \in Seq(Pending)
    BY DEF TypeOK
  <2>3. Len(pend) \in Nat /\ DOMAIN pend = 1..Len(pend)
    BY PendItems
  <2> HIDE DEF Pending
  <2>4. /\ DOMAIN next = 1..(Len(pend) + 1)
        /\ \A i \in 1..Len(pend) : next[i] = pend[i]
        /\ next[Len(pend) + 1] = Item(c)
    BY <2>1, <2>2, <2>3, AppendProperties, LenProperties DEF Pending
  <2> HIDE DEF next
  <2>5. \A i \in DOMAIN next : next[i].ans = "yes" => i \in DOMAIN pend /\ next[i] = pend[i]
    BY <2>1, <2>3, <2>4
  <2> QED
    BY <1>1, <2>5 DEF next
<1>4. YesWasSaid'
  BY <1>2, <1>3 DEF ConsentInv, YesWasSaid
<1> QED
  BY <1>2, <1>4, PendConsent

(* An answer is said before it reaches a pending item or a target.          *)
LEMMA AnswerConsent ==
  ASSUME TypeOK, ConsentInv, NEW c \in Calls, NEW a \in Answers,
         AnswerOne(c, a) \/ \E r \in Runs : AnswerLast(c, a, r)
  PROVE  ConsentInv'
<1>1. /\ \A d \in Calls : said'[d] = IF d = c THEN said[d] \cup {a} ELSE said[d]
      /\ UNCHANGED <<rows, call, ckpt, execs, asked>>
  <2>1. said' = [said EXCEPT ![c] = said[c] \cup {a}]
    BY DEF AnswerOne, AnswerLast
  <2>2. said \in [Calls -> SUBSET Answers]
    BY DEF TypeOK
  <2>3. \A d \in Calls : said'[d] = IF d = c THEN said[d] \cup {a} ELSE said[d]
    BY <2>1, <2>2
  <2>4. UNCHANGED <<rows, call, ckpt, execs, asked>>
    BY DEF AnswerOne, AnswerLast, durable, runner
  <2> QED
    BY <2>3, <2>4
<1>2. \A i \in DOMAIN pend : pend[i].call \in Calls
  BY PendItems
<1>3. CASE AnswerOne(c, a)
  <2>1. DOMAIN pend' = DOMAIN pend /\ UNCHANGED targets
    BY <1>3 DEF AnswerOne, Resolved, runner
  <2>2. \A i \in DOMAIN pend : pend'[i].call = pend[i].call
          /\ pend'[i].ans = IF pend[i].call = c THEN a ELSE pend[i].ans
    BY <1>3, LenProperties DEF AnswerOne, Resolved, TypeOK
  <2>3. YesWasSaid'
    <3>1. \A d \in Calls : said[d] \subseteq said'[d]
      BY <1>1
    <3>2. \A q \in Runs, d \in Calls : targets'[q][d] = "yes" => "yes" \in said'[d]
      BY <2>1, <3>1 DEF ConsentInv, YesWasSaid
    <3>3. ASSUME NEW i \in DOMAIN pend, pend'[i].ans = "yes"
          PROVE  "yes" \in said'[pend'[i].call]
      <4>1. CASE pend[i].call = c
        <5>1. pend'[i].call = c /\ a = "yes"
          BY <2>2, <3>3, <4>1
        <5>2. "yes" \in said'[c]
          BY <1>1, <5>1
        <5> QED
          BY <5>1, <5>2
      <4>2. CASE pend[i].call # c
        <5>1. pend[i].ans = "yes" /\ pend'[i].call = pend[i].call
          BY <2>2, <3>3, <4>2
        <5>2. "yes" \in said[pend[i].call]
          BY <5>1 DEF ConsentInv, YesWasSaid
        <5> QED
          BY <1>2, <3>1, <5>1, <5>2
      <4> QED
        BY <4>1, <4>2
    <3> QED
      BY <2>1, <3>2, <3>3 DEF YesWasSaid
  <2> QED
    BY <1>1, <2>3, PendConsent
<1>4. ASSUME NEW r \in Runs, AnswerLast(c, a, r) PROVE ConsentInv'
  <2>1. \A q \in Runs, d \in Calls : targets'[q][d] =
          IF q # r THEN targets[q][d]
          ELSE IF d = c THEN a
          ELSE IF \E i \in DOMAIN pend : pend[i].call = d
               THEN pend[CHOOSE i \in DOMAIN pend : pend[i].call = d].ans
               ELSE "none"
    BY <1>4 DEF AnswerLast, TypeOK
  <2>2. \A d \in Calls :
          (\E i \in DOMAIN pend : pend[i].call = d)
            => (pend[CHOOSE i \in DOMAIN pend : pend[i].call = d].ans = "yes" => "yes" \in said[d])
    BY DEF ConsentInv, YesWasSaid
  <2>3. pend' = <<>>
    BY <1>4 DEF AnswerLast
  <2>4. YesWasSaid'
    <3>1. ASSUME NEW q \in Runs, NEW d \in Calls, targets'[q][d] = "yes"
          PROVE  "yes" \in said'[d]
      <4>1. CASE q # r
        BY <1>1, <2>1, <3>1, <4>1 DEF ConsentInv, YesWasSaid
      <4>2. CASE q = r /\ d = c
        <5>1. targets'[q][d] = a
          BY <2>1, <4>2
        <5>2. a = "yes"
          BY <3>1, <5>1
        <5> QED
          BY <1>1, <4>2, <5>2
      <4>3. CASE q = r /\ d # c
        BY <1>1, <2>1, <2>2, <3>1, <4>3
      <4> QED
        BY <4>1, <4>2, <4>3
    <3>2. DOMAIN pend' = {}
      BY <2>3
    <3> QED
      BY <3>1, <3>2 DEF YesWasSaid
  <2> QED
    BY <1>1, <2>4, PendConsent
<1> QED
  BY <1>3, <1>4

(* A crash empties the runners and the pending items.                       *)
LEMMA CrashConsent ==
  ASSUME TypeOK, ConsentInv, Crash
  PROVE  ConsentInv'
<1>1. /\ pend' = <<>> /\ UNCHANGED <<rows, ckpt, execs, asked, said>>
      /\ \A r \in Runs, c \in Calls : call'[r][c] = "-" /\ targets'[r][c] = "none"
  BY DEF Crash, durable, history, NoCalls, NoAnswer
<1> QED
  BY <1>1, EmptySeq DEF ConsentInv, AskedIsDeclared, CheckpointAsked, YesWasSaid,
     CalledIsSanctioned, RunsOnlyOnYes

(* The restored items carry no answer.                                      *)
LEMMA ReconcileConsent ==
  ASSUME TypeOK, ConsentInv, Reconcile
  PROVE  ConsentInv'
<1>1. Declared(rows) \subseteq Declared(rows')
  <2>1. ASSUME NEW s \in Orders(OpenToolCalls(rows)),
               rows' = rows \o [i \in DOMAIN s |-> ToolRow(s[i], "canceled")]
        PROVE  Declared(rows) \subseteq Declared(rows')
    <3>1. rows \in Seq(Row) /\ OpenToolCalls(rows) \in SUBSET Calls
      BY DeclaredType DEF TypeOK
    <3>2. [i \in DOMAIN s |-> ToolRow(s[i], "canceled")] \in Seq(Row)
      BY <3>1, ClosingRows
    <3> QED
      BY <2>1, <3>1, <3>2, DeclaredConcat
  <2> QED
    BY <2>1 DEF Reconcile
<1>2. UNCHANGED <<call, targets, ckpt, execs, asked, said>>
  BY DEF Reconcile, runner, history
<1>3. \A i \in DOMAIN pend' : pend'[i].ans = "none"
  BY DEF Reconcile, Item
<1> QED
  BY <1>1, <1>2, <1>3 DEF ConsentInv, AskedIsDeclared, CheckpointAsked, YesWasSaid,
     CalledIsSanctioned, RunsOnlyOnYes

(* Every step of a run keeps the consent invariant.                         *)
LEMMA RunStepConsent ==
  ASSUME TypeOK, ConsentInv, NEW r \in Runs, RunStep(r)
  PROVE  ConsentInv'
<1>1. rows \in Seq(Row)
  BY DEF TypeOK
<1>2. CASE StoreUser(r)
  BY <1>1, <1>2, UserRowType, DeclaredAppend, RowsOnlyKeepConsent
     DEF StoreUser, consentVars, runner, history
<1>3. CASE Reply(r) \/ KeepPartial(r)
  BY <1>1, <1>3, AssistantRowType, DeclaredAppend, RowsOnlyKeepConsent
     DEF Reply, KeepPartial, consentVars, runner, history
<1>4. CASE CloseOpen(r)
  BY <1>1, <1>4, DeclaredToolResult, RowsOnlyKeepConsent
     DEF CloseOpen, consentVars, runner, history, TypeOK, Outcomes
<1>5. ASSUME NEW c \in Calls, DeliverResult(r, c) PROVE ConsentInv'
  <2>1. Declared(rows) \subseteq Declared(rows')
    BY <1>1, <1>5, DeclaredToolResult DEF DeliverResult, Outcomes
  <2>2. UNCHANGED <<targets, pend, ckpt, execs, asked, said>>
        /\ \A q \in Runs, d \in Calls : call'[q][d] \in {"-", call[q][d]}
    BY <1>5 DEF DeliverResult, history, TypeOK
  <2> QED
    BY <2>1, <2>2 DEF ConsentInv, AskedIsDeclared, CheckpointAsked, YesWasSaid,
       CalledIsSanctioned, RunsOnlyOnYes
<1>6. CASE Fail(r) \/ Abandon(r)
  <2>1. call' \in [Runs -> [Calls -> Phases]]
    BY RunStepType DEF TypeOK
  <2>2. \A q \in Runs, c \in Calls : call'[q][c] \in {"-", call[q][c]}
    <3>1. CASE Fail(r)
      BY <3>1 DEF Fail, NoCalls, TypeOK
    <3>2. CASE Abandon(r)
      BY <3>2 DEF Abandon, TypeOK
    <3> QED
      BY <1>6, <3>1, <3>2
  <2>3. UNCHANGED <<rows, targets, pend, ckpt, execs, asked, said>>
    BY <1>6 DEF Fail, Abandon, durable, history
  <2> QED
    BY <2>1, <2>2, <2>3, ForgetKeepsConsent
<1>7. CASE ClearPending(r)
  <2>1. YesWasSaid' /\ UNCHANGED <<rows, call, ckpt, execs, asked, said>>
    BY <1>7, EmptySeq DEF ClearPending, durable, runner, history, ConsentInv, YesWasSaid
  <2> QED
    BY <2>1, PendConsent
<1>8. CASE UNCHANGED <<rows, consentVars>>
  BY <1>8, RowsOnlyKeepConsent DEF consentVars
<1>9. \/ StoreUser(r) \/ Reply(r) \/ KeepPartial(r) \/ CloseOpen(r)
      \/ \E c \in Calls : DeliverResult(r, c) \/ RunTool(r, c) \/ AskUser(r, c) \/ Record(r, c)
      \/ Fail(r) \/ Abandon(r) \/ ClearPending(r)
      \/ DeclareCalls(r) \/ Interrupt(r) \/ LoadCheckpoint(r)
      \/ UNCHANGED <<rows, consentVars>>
  BY DEF RunStep, Handling, Driving, Settling, durable, runner, history, consentVars,
     CreateBuffer, ListPrior, StartCreate, ClearPendingRows, DropPendingRow, ResumeRead,
     ResumeWrite, ResumeCreate, BeginRun, BeginResume, LoadFails, InsertPendingRow,
     MarkWaiting, Exhaust, CheckPending, ScanOpen, ReadHead, WriteStatus, Finish
<1> QED
  BY <1>2, <1>3, <1>4, <1>5, <1>6, <1>7, <1>8, <1>9, DeclareCallsConsent, RunToolConsent,
     AskUserConsent, InterruptConsent, LoadCheckpointConsent, RecordConsent

(* The consent invariant is inductive.                                      *)
LEMMA ConsentInductive == TypeOK /\ ConsentInv /\ [Next]_vars => ConsentInv'
<1> SUFFICES ASSUME TypeOK, ConsentInv, [Next]_vars PROVE ConsentInv'
  OBVIOUS
<1>1. CASE (\E r \in Runs : Post(r)) \/ Cancel \/ LateStep \/ UNCHANGED vars
  <2>1. UNCHANGED <<rows, consentVars>>
    BY <1>1 DEF Post, Cancel, LateStep, LateRead, LateWrite, vars, durable, runner, history,
       consentVars
  <2> QED
    BY <2>1, RowsOnlyKeepConsent DEF consentVars
<1> QED
  BY <1>1, RunStepConsent, AnswerConsent, CrashConsent, ReconcileConsent DEF Next, UserStep

(* A tool that was put to the user runs only after the user said yes.       *)
THEOREM ConsentHolds == Spec => []RunsOnlyOnYes
<1>1. Init => ConsentInv
  BY EmptySeq DEF Init, NoCalls, NoAnswer, ConsentInv, AskedIsDeclared, CheckpointAsked,
     YesWasSaid, CalledIsSanctioned, RunsOnlyOnYes
<1>2. ConsentInv => RunsOnlyOnYes
  BY DEF ConsentInv
<1> QED
  BY <1>1, <1>2, TypeCorrect, ConsentInductive, PTL DEF Spec

=============================================================================
