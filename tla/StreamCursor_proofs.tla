------------------------ MODULE StreamCursor_proofs ------------------------
(***************************************************************************)
(* Proofs about StreamCursor for any tabs, calls, bounds and channel       *)
(* capacity: type correctness, the exact view of a tab that joined by its  *)
(* cursor, and that the whole implements Delivery.                         *)
(***************************************************************************)
EXTENDS StreamCursor, TLAPS, FiniteSetTheorems, SequenceTheorems

-----------------------------------------------------------------------------
(* Lemmas about the operators the actions are built from                   *)

(* More text and more sub-agent events leave the rows rows.                 *)
LEMMA RowTypeGrows ==
  ASSUME NEW n \in Nat, NEW k \in Nat, NEW m \in Nat, NEW l \in Nat, n <= m, k <= l
  PROVE  RowType(n, k) \subseteq RowType(m, l)
  BY DEF RowType

(* The same for a table.                                                     *)
LEMMA RowsGrow ==
  ASSUME NEW n \in Nat, NEW k \in Nat, NEW m \in Nat, NEW l \in Nat, n <= m, k <= l,
         NEW h \in Seq(RowType(n, k))
  PROVE  h \in Seq(RowType(m, l))
  BY RowTypeGrows, SeqMonotonic

(* A new row is a row.                                                      *)
LEMMA RowIsRow ==
  ASSUME NEW n \in Nat, NEW k \in Nat, NEW u \in 0..n, NEW S \in SUBSET Calls,
         NEW role \in {"user", "assistant", "tool", "closed"}
  PROVE  Row(role, u, S) \in RowType(n, k)
  BY DEF Row, RowType

(* How much text the first rows hold.                                        *)
LEMMA UptoType ==
  ASSUME NEW n \in Nat, NEW k \in Nat, NEW h \in Seq(RowType(n, k)), NEW i \in 0..Len(h)
  PROVE  UptoAt(h, i) \in 0..n
<1>1. CASE i = 0
  BY <1>1 DEF UptoAt
<1>2. CASE i # 0
  <2>1. h[i] \in RowType(n, k)
    BY <1>2, ElementOfSeq
  <2> QED
    BY <1>2, <2>1 DEF UptoAt, RowType
<1> QED
  BY <1>1, <1>2

(* Open calls are calls.                                                     *)
LEMMA DeclaredType ==
  ASSUME NEW n \in Nat, NEW k \in Nat, NEW h \in Seq(RowType(n, k))
  PROVE  Open(h) \in SUBSET Calls
<1>1. \A i \in DOMAIN h : h[i].calls \subseteq Calls
  <2> SUFFICES ASSUME NEW i \in DOMAIN h PROVE h[i].calls \subseteq Calls
    OBVIOUS
  <2>1. h[i] \in RowType(n, k)
    BY LenProperties
  <2> QED
    BY <2>1 DEF RowType
<1> QED
  BY <1>1 DEF Open, Declared, Resulted

(* An appended row leaves the texts of the others alone.                    *)
LEMMA AppendedRows ==
  ASSUME NEW n \in Nat, NEW k \in Nat, NEW h \in Seq(RowType(n, k)),
         NEW r \in RowType(n, k)
  PROVE  LET g == Append(h, r)
         IN  /\ g \in Seq(RowType(n, k)) /\ Len(g) = Len(h) + 1
             /\ \A i \in 0..Len(h) : UptoAt(g, i) = UptoAt(h, i)
             /\ Upto(g) = r.upto
  BY AppendProperties DEF UptoAt, Upto

(* What Orders returns are sequences of the frames it is given.             *)
LEMMA OrdersType ==
  ASSUME NEW S \in SUBSET Calls, NEW q \in Orders({Calling(c) : c \in S})
  PROVE  q \in Seq(CallFrames)
<1> DEFINE F == {Calling(c) : c \in S}
<1>1. IsFiniteSet(S)
  BY FS_Subset, StreamAssumption
<1>2. IsFiniteSet(F)
  <2>1. [c \in S |-> Calling(c)] \in Surjection(S, F)
    BY DEF Surjection
  <2> QED
    BY <1>1, <2>1, FS_Surjection
<1>3. Cardinality(F) \in Nat
  BY <1>2, FS_CardinalityType
<1>4. F \subseteq CallFrames
  BY DEF Calling, Frame, CallFrames
<1>5. q \in Seq(F)
  BY <1>3, SeqDef DEF Orders
<1> QED
  BY <1>4, <1>5, SeqMonotonic
-----------------------------------------------------------------------------
(* Type correctness                                                        *)

(* What the tabs hold stays of its type while the table and the text grow. *)
LEMMA TabTypeGrows ==
  ASSUME TypeOK, Len(rows') \in Nat, Len(rows) <= Len(rows'),
         said' \in Nat, said <= said', UNCHANGED views,
         st' \in [Clients -> Places], poster' \in Clients \cup {Nobody}
  PROVE  TabType'
<1>1. said \in Nat /\ Len(rows) \in Nat
  BY LenProperties DEF TypeOK, ServerType
<1>2. 0..Len(rows) \subseteq 0..Len(rows')
  BY <1>1
<1>3. \A c \in Clients : text[c] \in Seq(1..said')
  <2> SUFFICES ASSUME NEW c \in Clients PROVE text[c] \in Seq(1..said')
    OBVIOUS
  <2>1. text[c] \in Seq(1..said) /\ 1..said \subseteq 1..said'
    BY <1>1 DEF TypeOK, TabType
  <2> QED
    BY <2>1, SeqMonotonic
<1>4. text' \in [Clients -> Seq(1..said')]
  BY <1>3 DEF TypeOK, TabType, views
<1>5. base' \in [Clients -> 0..Len(rows')]
  BY <1>2 DEF TypeOK, TabType, views
<1> QED
  BY <1>4, <1>5 DEF TypeOK, TabType, views

(* A step that no tab takes part in.                                         *)
LEMMA SameTabs ==
  ASSUME TypeOK, Len(rows') \in Nat, Len(rows) <= Len(rows'),
         said' \in Nat, said <= said', UNCHANGED <<tabs, poster>>
  PROVE  TabType'
<1>1. st' \in [Clients -> Places] /\ poster' \in Clients \cup {Nobody} /\ UNCHANGED views
  BY DEF TypeOK, TabType, tabs
<1> QED
  BY <1>1, TabTypeGrows

(* A step that sends nothing.                                                *)
LEMMA SameLinks ==
  ASSUME TypeOK, UNCHANGED links
  PROVE  LinkType'
  BY DEF TypeOK, LinkType, links

(* The subscribers' channels keep their types and their capacity.           *)
LEMMA SendType ==
  ASSUME TypeOK, NEW f \in Frames, Send(f)
  PROVE  LinkType'
<1>1. \A c \in Clients : inbox'[c] \in {q \in Seq(Frames) : Len(q) <= Cap}
  <2> SUFFICES ASSUME NEW c \in Clients
               PROVE  inbox'[c] \in {q \in Seq(Frames) : Len(q) <= Cap}
    OBVIOUS
  <2>1. inbox[c] \in Seq(Frames) /\ Len(inbox[c]) <= Cap /\ Len(inbox[c]) \in Nat
    BY LenProperties DEF TypeOK, LinkType
  <2>2. Append(inbox[c], f) \in Seq(Frames) /\ Len(Append(inbox[c], f)) = Len(inbox[c]) + 1
    BY <2>1, AppendProperties
  <2> QED
    BY <2>1, <2>2, StreamAssumption DEF Send
<1> QED
  BY <1>1 DEF Send, TypeOK, LinkType

(* Append keeps the buffer and the channels of their types.                  *)
LEMMA AppendFrameType ==
  ASSUME TypeOK, NEW f \in Frames, AppendFrame(f)
  PROVE  LinkType' /\ chunks' \in Seq(Frames) /\ UNCHANGED <<status, durable>>
<1>1. chunks' \in Seq(Frames)
  BY AppendProperties DEF AppendFrame, TypeOK, ServerType
<1> QED
  BY <1>1, SendType DEF AppendFrame

(* Every frame the code publishes is a frame.                               *)
LEMMA FramesType ==
  ASSUME TypeOK
  PROVE  /\ said < MaxText => Frame("text", said + 1) \in Frames
         /\ subs < MaxSub => Frame("sub", subs + 1) \in Frames
         /\ Frame("card", 0) \in Frames /\ Frame("done", 0) \in Frames
         /\ \A c \in Calls : Result(c) \in CallFrames /\ Calling(c) \in CallFrames
         /\ CallFrames \subseteq Frames
  BY StreamAssumption DEF TypeOK, ServerType, Frame, Frames, CallFrames, Result, Calling

(* What every proof about the types uses.                                   *)
LEMMA TypeFacts ==
  ASSUME TypeOK
  PROVE  /\ said \in Nat /\ subs \in Nat /\ rows \in Seq(RowType(said, subs))
         /\ Len(rows) \in Nat /\ Upto(rows) \in 0..said /\ Open(rows) \in SUBSET Calls
<1>1. said \in Nat /\ subs \in Nat /\ rows \in Seq(RowType(said, subs)) /\ Len(rows) \in Nat
  BY LenProperties, StreamAssumption DEF TypeOK, ServerType
<1> QED
  BY <1>1, UptoType, DeclaredType DEF Upto

(* Appending a row, and writing sub-agent events, to the table.             *)
LEMMA TableAppend ==
  ASSUME TypeOK, NEW role \in {"user", "assistant", "tool", "closed"}, NEW u \in 0..said,
         NEW S \in SUBSET Calls, rows' = Append(rows, Row(role, u, S))
  PROVE  /\ rows' \in Seq(RowType(said, subs)) /\ Len(rows') = Len(rows) + 1
         /\ \A i \in 0..Len(rows) : UptoAt(rows', i) = UptoAt(rows, i)
         /\ Upto(rows') = u
<1>1. Row(role, u, S) \in RowType(said, subs)
  BY TypeFacts, RowIsRow
<1>2. Row(role, u, S).upto = u
  BY DEF Row
<1> QED
  BY <1>1, <1>2, TypeFacts, AppendedRows

(* It leaves the length and the texts of the table alone, whatever row is  *)
(* written to.                                                             *)
LEMMA SaveTimelineRows ==
  ASSUME TypeOK, SaveTimeline
  PROVE  /\ rows' \in Seq(RowType(said, subs)) /\ Len(rows') = Len(rows)
         /\ \A i \in 0..Len(rows) : UptoAt(rows', i) = UptoAt(rows, i)
<1> DEFINE target == IF lastRow = 0 THEN LatestAssistant(rows) ELSE lastRow
<1>1. CASE rows' = rows
  BY <1>1, TypeFacts
<1>2. CASE rows' = [rows EXCEPT ![target].subs = timeline]
  <2>1. timeline \in SUBSET (1..subs)
    BY DEF TypeOK, ServerType
  <2>2. DOMAIN rows' = 1..Len(rows) /\ \A i \in 1..Len(rows) : rows[i] \in RowType(said, subs)
    BY <1>2, TypeFacts, ElementOfSeq, LenProperties
  <2> HIDE DEF target
  <2>3. \A i \in 1..Len(rows) : rows'[i] \in RowType(said, subs) /\ rows'[i].upto = rows[i].upto
    BY <1>2, <2>1, <2>2, TypeFacts, LenProperties DEF RowType
  <2>4. rows' \in [1..Len(rows) -> RowType(said, subs)]
    BY <1>2, <2>2, <2>3
  <2>5. rows' \in Seq(RowType(said, subs)) /\ Len(rows') = Len(rows)
    BY <2>4, TypeFacts
  <2> QED
    BY <2>3, <2>5 DEF UptoAt
<1> QED
  BY <1>1, <1>2 DEF SaveTimeline

(* The start of a run, by a message or by the last answer.                  *)
LEMMA BeginType ==
  ASSUME TypeOK, Begin
  PROVE  TypeOK'
<1> USE StreamAssumption
<1>1. ASSUME NEW p \in Clients \cup {Nobody}, StartRun(p)
      PROVE  TypeOK'
  <2>1. rows' \in Seq(RowType(said, subs)) /\ Len(rows') = Len(rows) + 1
    BY <1>1, TypeFacts, TableAppend DEF StartRun
  <2>2. UNCHANGED <<said, subs, buffer, pub, waiting, views, links>>
    BY <1>1 DEF StartRun
  <2>3. run' \in 0..NRuns /\ timeline' = {} /\ lastRow' = 0 /\ pc' \in Labels
    BY <1>1 DEF StartRun, NewRun, Goto, Labels, TypeOK, ServerType
  <2>4. dirty' \in BOOLEAN
    BY <1>1, Zenon DEF StartRun, NewRun
  <2>5. ServerType'
    BY <2>1, <2>2, <2>3, <2>4, TypeFacts DEF TypeOK, ServerType, buffer
  <2>6. st' \in [Clients -> Places] /\ poster' \in Clients \cup {Nobody}
    BY <1>1 DEF StartRun, TypeOK, TabType, Places
  <2>7. TabType'
    BY <2>1, <2>2, <2>6, TypeFacts, TabTypeGrows
  <2> QED
    BY <2>2, <2>5, <2>7, SameLinks DEF TypeOK
<1>2. CASE ResumeRun
  <2>1. UNCHANGED <<rows, said, subs, pub, poster, tabs, links>>
    BY <1>2 DEF ResumeRun, CreateAt
  <2>2. dirty' \in BOOLEAN
    BY <1>2, Zenon DEF ResumeRun, NewRun
  <2>3. ServerType'
    BY <1>2, <2>1, <2>2, TypeFacts DEF TypeOK, ServerType, ResumeRun, NewRun, CreateAt, Goto, Labels
  <2>4. TabType'
    BY <2>1, TypeFacts, SameTabs
  <2> QED
    BY <2>1, <2>3, <2>4, SameLinks DEF TypeOK
<1> QED
  BY <1>1, <1>2 DEF Begin

(* Every step of a run keeps the types.                                     *)
LEMMA RunStepType ==
  ASSUME TypeOK, RunStep
  PROVE  TypeOK'
<1> USE StreamAssumption, TypeFacts
<1>1. CASE StartCreate
  <2>1. UNCHANGED <<rows, said, subs, run, pub, waiting, timeline, dirty, lastRow, poster,
                    tabs, links>>
    BY <1>1 DEF StartCreate, CreateAt
  <2>2. ServerType'
    BY <1>1, <2>1 DEF TypeOK, ServerType, StartCreate, CreateAt, Goto, Labels
  <2> QED
    BY <2>1, <2>2, SameTabs, SameLinks DEF TypeOK
<1>2. CASE Say
  <2>1. AppendFrame(Frame("text", said + 1)) /\ said < MaxText /\ said' = said + 1
        /\ UNCHANGED <<rows, subs, agent, tabs>>
    BY <1>2 DEF Say
  <2>2. LinkType' /\ chunks' \in Seq(Frames) /\ UNCHANGED <<status, durable>>
    BY <2>1, FramesType, AppendFrameType
  <2>3. rows' \in Seq(RowType(said', subs'))
    BY <2>1, RowsGrow
  <2>4. ServerType'
    BY <2>1, <2>2, <2>3 DEF TypeOK, ServerType, agent
  <2>5. TabType'
    BY <2>1, SameTabs DEF agent
  <2> QED
    BY <2>2, <2>4, <2>5 DEF TypeOK
<1>3. CASE SubAgentSays
  <2>1. AppendFrame(Frame("sub", subs + 1)) /\ subs < MaxSub /\ subs' = subs + 1
        /\ UNCHANGED <<rows, said, run, pc, pub, waiting, lastRow, poster, tabs>>
    BY <1>3 DEF SubAgentSays
  <2>2. LinkType' /\ chunks' \in Seq(Frames) /\ UNCHANGED <<status, durable>>
    BY <2>1, FramesType, AppendFrameType
  <2>3. rows' \in Seq(RowType(said', subs'))
    BY <2>1, RowsGrow
  <2>4. timeline' \in SUBSET (1..subs')
    BY <1>3, <2>1 DEF TypeOK, ServerType, SubAgentSays
  <2>5. dirty' \in BOOLEAN
    BY <1>3, Zenon DEF SubAgentSays
  <2>6. ServerType'
    BY <2>1, <2>2, <2>3, <2>4, <2>5 DEF TypeOK, ServerType
  <2>7. TabType'
    BY <2>1, SameTabs
  <2> QED
    BY <2>2, <2>6, <2>7 DEF TypeOK
<1>4. CASE EmptyMessage
  <2>1. UNCHANGED <<rows, said, subs, run, pub, waiting, timeline, dirty, lastRow, poster,
                    tabs, status, links>>
    BY <1>4 DEF EmptyMessage, CommitBoundary
  <2>2. durable' = durable /\ chunks' = <<>>
    BY <1>4 DEF EmptyMessage, CommitBoundary, TypeOK, ServerType
  <2>3. ServerType'
    BY <1>4, <2>1, <2>2 DEF TypeOK, ServerType, EmptyMessage, Goto, Labels
  <2> QED
    BY <2>1, <2>3, SameTabs, SameLinks DEF TypeOK
<1>5. ASSUME NEW S \in SUBSET Calls, CloseMessage(S)
      PROVE  TypeOK'
  <2>1. UNCHANGED <<said, subs, buffer, run, waiting, timeline, dirty, poster, tabs, links>>
    BY <1>5 DEF CloseMessage
  <2>2. rows' \in Seq(RowType(said, subs)) /\ Len(rows') = Len(rows) + 1
    BY <1>5, TableAppend DEF CloseMessage
  <2>3. pub' \in Seq(CallFrames) /\ lastRow' \in 0..Len(rows') /\ pc' \in Labels
    BY <1>5, <2>2, OrdersType DEF CloseMessage, Goto, Labels
  <2>4. ServerType'
    BY <2>1, <2>2, <2>3 DEF TypeOK, ServerType, buffer
  <2> QED
    BY <2>1, <2>2, <2>4, SameTabs, SameLinks DEF TypeOK
<1>6. ASSUME NEW c \in Calls, ToolResult(c)
      PROVE  TypeOK'
  <2>1. UNCHANGED <<said, subs, buffer, run, waiting, timeline, dirty, lastRow, poster,
                    tabs, links>>
    BY <1>6 DEF ToolResult
  <2>2. rows' \in Seq(RowType(said, subs)) /\ Len(rows') = Len(rows) + 1
    <3>1. rows' = Append(rows, Row("tool", Upto(rows), {c})) /\ {c} \in SUBSET Calls
      BY <1>6 DEF ToolResult
    <3> QED
      BY <3>1, TableAppend
  <2>3. pub' \in Seq(CallFrames) /\ pc' \in Labels
    BY <1>6, FramesType DEF ToolResult, Goto, Labels
  <2>4. ServerType'
    BY <2>1, <2>2, <2>3 DEF TypeOK, ServerType, buffer
  <2> QED
    BY <2>1, <2>2, <2>4, SameTabs, SameLinks DEF TypeOK
<1>7. ASSUME NEW c \in Calls, CloseOpen(c)
      PROVE  TypeOK'
  <2>1. UNCHANGED <<said, subs, buffer, agent, tabs, links>>
    BY <1>7 DEF CloseOpen
  <2>2. rows' \in Seq(RowType(said, subs)) /\ Len(rows') = Len(rows) + 1
    <3>1. rows' = Append(rows, Row("closed", Upto(rows), {c})) /\ {c} \in SUBSET Calls
      BY <1>7 DEF CloseOpen
    <3> QED
      BY <3>1, TableAppend
  <2>3. ServerType'
    BY <2>1, <2>2 DEF TypeOK, ServerType, buffer, agent
  <2>4. TabType'
    BY <2>1, <2>2, SameTabs DEF agent
  <2> QED
    BY <2>1, <2>3, <2>4, SameLinks DEF TypeOK
<1>8. CASE FlushSubEvents \/ UpdateMetadata
  <2>1. UNCHANGED <<said, subs, buffer, run, pub, waiting, timeline, lastRow, poster, tabs, links>>
        /\ SaveTimeline /\ pc' \in Labels
    BY <1>8 DEF FlushSubEvents, UpdateMetadata, Goto, Labels
  <2>2. rows' \in Seq(RowType(said, subs)) /\ Len(rows') = Len(rows)
    BY <2>1, SaveTimelineRows
  <2>3. dirty' \in BOOLEAN
    BY <2>1, Zenon DEF SaveTimeline
  <2>4. ServerType'
    BY <2>1, <2>2, <2>3 DEF TypeOK, ServerType, buffer
  <2> QED
    BY <2>1, <2>2, <2>4, SameTabs, SameLinks DEF TypeOK
<1>9. CASE Commit
  <2>1. UNCHANGED <<rows, said, subs, run, pub, waiting, timeline, dirty, lastRow, poster,
                    tabs, status, links>>
    BY <1>9 DEF Commit, CommitBoundary
  <2>2. durable' \in 0..Len(rows) /\ chunks' = <<>>
    BY <1>9 DEF Commit, CommitBoundary, TypeOK, ServerType
  <2>3. ServerType'
    BY <1>9, <2>1, <2>2 DEF TypeOK, ServerType, Commit, Goto, Labels
  <2> QED
    BY <2>1, <2>3, SameTabs, SameLinks DEF TypeOK
<1>10. CASE Publish
  <2>1. Send(Head(pub)) /\ pub # <<>> /\ pub' = Tail(pub)
        /\ UNCHANGED <<rows, said, subs, buffer, run, pc, waiting, timeline, dirty, lastRow,
                       poster, tabs>>
    BY <1>10 DEF Publish, PublishLive
  <2>2. pub' \in Seq(CallFrames) /\ Head(pub) \in Frames
    BY <2>1, FramesType, HeadTailProperties DEF TypeOK, ServerType
  <2>3. ServerType'
    BY <2>1, <2>2 DEF TypeOK, ServerType, buffer
  <2> QED
    BY <2>1, <2>2, <2>3, SameTabs, SendType DEF TypeOK
<1>11. CASE Published \/ Stop \/ Closed
  <2>1. UNCHANGED <<rows, said, subs, buffer, run, pub, waiting, timeline, dirty, lastRow,
                    poster, tabs, links>> /\ pc' \in Labels
    BY <1>11 DEF Published, Stop, Closed, Goto, Labels
  <2>2. ServerType'
    BY <2>1 DEF TypeOK, ServerType, buffer
  <2> QED
    BY <2>1, <2>2, SameTabs, SameLinks DEF TypeOK
<1>12. CASE Interrupt
  <2>1. AppendFrame(Frame("card", 0)) /\ waiting' \in SUBSET Calls /\ pc' \in Labels
        /\ UNCHANGED <<rows, said, subs, run, pub, timeline, dirty, lastRow, poster, tabs>>
    BY <1>12 DEF Interrupt, Goto, Labels
  <2>2. LinkType' /\ chunks' \in Seq(Frames) /\ UNCHANGED <<status, durable>>
    BY <2>1, FramesType, AppendFrameType
  <2>3. ServerType'
    BY <2>1, <2>2 DEF TypeOK, ServerType
  <2> QED
    BY <2>1, <2>2, <2>3, SameTabs DEF TypeOK
<1>13. CASE KeepPartial
  <2>1. UNCHANGED <<said, subs, buffer, run, pub, waiting, timeline, dirty, poster, tabs, links>>
        /\ pc' \in Labels
    BY <1>13 DEF KeepPartial, Goto, Labels
  <2>2. CASE said > Upto(rows)
    <3>1. rows' = Append(rows, Row("assistant", said, {})) /\ lastRow' = Len(rows) + 1
      BY <1>13, <2>2 DEF KeepPartial
    <3>2. rows' \in Seq(RowType(said, subs)) /\ Len(rows') = Len(rows) + 1
      BY <3>1, TableAppend
    <3>3. ServerType'
      BY <2>1, <3>1, <3>2 DEF TypeOK, ServerType, buffer
    <3> QED
      BY <2>1, <3>2, <3>3, SameTabs, SameLinks DEF TypeOK
  <2>3. CASE ~(said > Upto(rows))
    <3>1. UNCHANGED <<rows, lastRow>>
      BY <1>13, <2>3 DEF KeepPartial
    <3>2. ServerType'
      BY <2>1, <3>1 DEF TypeOK, ServerType, buffer
    <3> QED
      BY <2>1, <3>1, <3>2, SameTabs, SameLinks DEF TypeOK
  <2> QED
    BY <2>2, <2>3
<1>14. CASE FinalFrame
  <2>1. AppendFrame(Frame("done", 0)) /\ pc' \in Labels
        /\ UNCHANGED <<rows, said, subs, run, pub, waiting, timeline, dirty, lastRow, poster, tabs>>
    BY <1>14 DEF FinalFrame, Goto, Labels
  <2>2. LinkType' /\ chunks' \in Seq(Frames) /\ UNCHANGED <<status, durable>>
    BY <2>1, FramesType, AppendFrameType
  <2>3. ServerType'
    BY <2>1, <2>2 DEF TypeOK, ServerType
  <2> QED
    BY <2>1, <2>2, <2>3, SameTabs DEF TypeOK
<1>15. CASE Finish
  <2>1. UNCHANGED <<rows, said, subs, run, pub, waiting, timeline, dirty, lastRow, poster, tabs,
                    durable, chunks, replay, inbox, lag>>
        /\ pc' \in Labels /\ status' = "complete" /\ open' = [c \in Clients |-> FALSE]
    BY <1>15 DEF Finish, FinishBuffer, Goto, Labels
  <2>2. ServerType'
    BY <2>1 DEF TypeOK, ServerType
  <2>3. LinkType'
    BY <2>1 DEF TypeOK, LinkType
  <2> QED
    BY <2>1, <2>2, <2>3, SameTabs DEF TypeOK
<1> QED
  BY <1>1, <1>2, <1>3, <1>4, <1>5, <1>6, <1>7, <1>8, <1>9, <1>10, <1>11, <1>12, <1>13, <1>14,
     <1>15 DEF RunStep

(* A tab that shows the table shows pieces and frames.                      *)
LEMMA ShownType ==
  ASSUME TypeOK
  PROVE  Pieces(Upto(rows)) \in Seq(1..said) /\ Shown(rows) \in SUBSET Frames
<1>1. Pieces(Upto(rows)) \in Seq(1..said)
  BY TypeFacts DEF Pieces
<1>2. \A i \in DOMAIN rows : rows[i].calls \subseteq Calls
  <2> SUFFICES ASSUME NEW i \in DOMAIN rows PROVE rows[i].calls \subseteq Calls
    OBVIOUS
  <2>1. rows[i] \in RowType(said, subs)
    BY TypeFacts, LenProperties
  <2> QED
    BY <2>1 DEF RowType
<1>3. Declared(rows) \subseteq Calls /\ Resulted(rows) \subseteq Calls
  BY <1>2 DEF Declared, Resulted
<1> QED
  BY <1>1, <1>3, FramesType DEF Shown

(* A tab reads the table.                                                   *)
LEMMA ShowTypes ==
  ASSUME TypeOK, NEW c \in Clients, Show(c, rows)
  PROVE  /\ base' \in [Clients -> 0..Len(rows)]
         /\ text' \in [Clients -> Seq(1..said)]
         /\ known' \in [Clients -> SUBSET Frames]
<1>1. /\ base \in [Clients -> 0..Len(rows)] /\ text \in [Clients -> Seq(1..said)]
      /\ known \in [Clients -> SUBSET Frames]
  BY DEF TypeOK, TabType
<1>2. /\ base' = [base EXCEPT ![c] = Len(rows)]
      /\ text' = [text EXCEPT ![c] = Pieces(Upto(rows))]
      /\ known' = [known EXCEPT ![c] = Shown(rows)]
  BY DEF Show
<1>3. Len(rows) \in 0..Len(rows)
  BY TypeFacts
<1>4. base' \in [Clients -> 0..Len(rows)]
  BY <1>1, <1>2, <1>3
<1>5. text' \in [Clients -> Seq(1..said)]
  BY <1>1, <1>2, ShownType
<1>6. known' \in [Clients -> SUBSET Frames]
  BY <1>1, <1>2, ShownType, Zenon
<1> QED
  BY <1>4, <1>5, <1>6

(* A step of a tab leaves the table, the buffer and the run alone.           *)
LEMMA SameServer ==
  ASSUME TypeOK, UNCHANGED server
  PROVE  ServerType'
  BY DEF TypeOK, ServerType, server, buffer

(* What a tab does keeps the types: the pieces on the way to it are pieces  *)
(* of the text.                                                            *)
LEMMA TabStepType ==
  ASSUME TypeOK, ViewInOrder, NEW c \in Clients,
         LoadHistory(c) \/ Asking(c) \/ Reading(c) \/ Leave(c)
  PROVE  TypeOK'
<1> USE StreamAssumption, TypeFacts
<1>1. CASE LoadHistory(c)
  <2>1. UNCHANGED <<server, poster, told, open, replay, inbox>> /\ UNCHANGED <<rows, said>>
    BY <1>1 DEF LoadHistory, server
  <2>2. /\ base' \in [Clients -> 0..Len(rows)] /\ text' \in [Clients -> Seq(1..said)]
        /\ known' \in [Clients -> SUBSET Frames]
    BY <1>1, ShowTypes DEF LoadHistory
  <2>3. st' \in [Clients -> Places] /\ via' \in [Clients -> {"get", "post"}]
        /\ tries' \in [Clients -> Nat]
    BY <1>1 DEF TypeOK, TabType, LoadHistory, Places
  <2>4. TabType'
    BY <2>1, <2>2, <2>3 DEF TypeOK, TabType
  <2>5. LinkType'
    BY <1>1, <2>1 DEF TypeOK, LinkType, LoadHistory
  <2> QED
    BY <2>1, <2>4, <2>5, SameServer DEF TypeOK
<1>2. CASE JoinStream(c) \/ StreamAll(c)
  <2>1. PICK how \in {"get", "post"} : Subscribe(c, how)
    BY <1>2 DEF JoinStream, StreamAll
  <2>2. UNCHANGED <<server, base, tries, text, known, told>> /\ UNCHANGED <<rows, said>>
        /\ poster' \in Clients \cup {Nobody}
    BY <1>2 DEF JoinStream, StreamAll, server, TypeOK, TabType
  <2>3. TabType'
    BY <2>1, <2>2 DEF TypeOK, TabType, Subscribe, Places
  <2>4. LinkType'
    <3>1. chunks \in Seq(Frames) /\ <<>> \in Seq(Frames) /\ Len(<<>>) <= Cap
      BY EmptySeq DEF TypeOK, ServerType
    <3>2. open' \in [Clients -> BOOLEAN] /\ lag' \in [Clients -> BOOLEAN]
      BY <2>1 DEF TypeOK, LinkType, Subscribe
    <3>3. replay' \in [Clients -> Seq(Frames)]
          /\ inbox' \in [Clients -> {q \in Seq(Frames) : Len(q) <= Cap}]
      BY <2>1, <3>1 DEF TypeOK, LinkType, Subscribe
    <3> QED
      BY <3>2, <3>3 DEF LinkType
  <2> QED
    BY <2>2, <2>3, <2>4, SameServer DEF TypeOK
<1>3. CASE Refused(c) \/ NothingToJoin(c) \/ ToldIdle(c) \/ ToldToRetry(c)
  <2>1. UNCHANGED <<server, poster, base, text, known, via, links>> /\ UNCHANGED <<rows, said>>
    BY <1>3 DEF Refused, NothingToJoin, ToldIdle, ToldToRetry, server, views
  <2>2. st' \in [Clients -> Places]
    BY <1>3 DEF Refused, NothingToJoin, ToldIdle, ToldToRetry, Retry, TypeOK, TabType, Places
  <2>3. tries' \in [Clients -> Nat] /\ told' \in [Clients -> 0..NRuns]
    <3>1. tries \in [Clients -> Nat] /\ told \in [Clients -> 0..NRuns] /\ run \in 0..NRuns
      BY DEF TypeOK, TabType, ServerType
    <3>2. tries' = tries \/ tries' = [tries EXCEPT ![c] = @ + 1]
      BY <1>3 DEF Refused, NothingToJoin, ToldIdle, ToldToRetry, Retry, views
    <3>3. told' = told \/ told' = [told EXCEPT ![c] = IF pc = "rest" THEN run ELSE 0]
      BY <1>3 DEF Refused, NothingToJoin, ToldIdle, ToldToRetry, Retry, views
    <3>4. tries' \in [Clients -> Nat]
      BY <3>1, <3>2
    <3>5. (IF pc = "rest" THEN run ELSE 0) \in 0..NRuns
      BY <3>1
    <3>6. told' \in [Clients -> 0..NRuns]
      BY <3>1, <3>3, <3>5
    <3> QED
      BY <3>4, <3>6
  <2>4. TabType'
    BY <2>1, <2>2, <2>3 DEF TypeOK, TabType
  <2> QED
    BY <2>1, <2>4, SameServer, SameLinks DEF TypeOK
<1>4. CASE ReloadHistory(c)
  <2>1. UNCHANGED <<server, poster, tries, via, told, links>> /\ UNCHANGED <<rows, said>>
    BY <1>4 DEF ReloadHistory, server
  <2>2. st' \in [Clients -> Places]
    BY <1>4 DEF TypeOK, TabType, ReloadHistory, Places
  <2>3. /\ base' \in [Clients -> 0..Len(rows)] /\ text' \in [Clients -> Seq(1..said)]
        /\ known' \in [Clients -> SUBSET Frames]
    BY <1>4, ShowTypes DEF ReloadHistory
  <2>4. TabType'
    BY <2>1, <2>2, <2>3 DEF TypeOK, TabType
  <2> QED
    BY <2>1, <2>4, SameServer, SameLinks DEF TypeOK
<1>5. CASE Receive(c)
  <2>1. UNCHANGED <<server, poster, base, tries, via, told, lag>> /\ UNCHANGED <<rows, said>>
    BY <1>5 DEF Receive, server
  <2>2. replay[c] \in Seq(Frames) /\ inbox[c] \in Seq(Frames) /\ Len(inbox[c]) <= Cap
    BY DEF TypeOK, LinkType
  <2>3. Queued(c) \in Seq(Frames) /\ Queued(c) # <<>>
    BY <1>5, <2>2, ConcatProperties DEF Receive, Queued
  <2>4. PICK f : f = Head(Queued(c))
    OBVIOUS
  <2>5. f \in Frames /\ f = Queued(c)[1] /\ 1 \in DOMAIN Queued(c)
    BY <2>3, <2>4, HeadTailProperties, LenProperties
  <2>6. IsText(f) => f.n \in 1..said
    <3>1. InOrder(Queued(c), Newest(text[c])) /\ InRange(Queued(c), said)
      BY <1>5 DEF ViewInOrder, ViewOf, QueueOf, Receive
    <3>2. text[c] \in Seq(1..said)
      BY DEF TypeOK, TabType
    <3>3. Newest(text[c]) \in Nat
      BY <3>2, LenProperties, ElementOfSeq DEF Newest
    <3>4. IsText(f) => f.n \in Nat
      BY <2>5 DEF IsText, Frames, CallFrames
    <3> QED
      BY <2>5, <3>1, <3>3, <3>4 DEF InOrder, InRange
  <2>7. text' \in [Clients -> Seq(1..said)]
    <3>1. text' = IF IsText(f) THEN [text EXCEPT ![c] = Append(@, f.n)] ELSE text
      BY <1>5, <2>4 DEF Receive
    <3>2. IsText(f) => Append(text[c], f.n) \in Seq(1..said)
      BY <2>6, AppendProperties DEF TypeOK, TabType
    <3> QED
      BY <3>1, <3>2 DEF TypeOK, TabType
  <2>8. known' \in [Clients -> SUBSET Frames] /\ st' \in [Clients -> Places]
    BY <1>5, <2>4, <2>5 DEF Receive, TypeOK, TabType, Places
  <2>9. TabType'
    BY <2>1, <2>7, <2>8 DEF TypeOK, TabType
  <2>10. LinkType'
    <3>1. open' = open \/ open' = [open EXCEPT ![c] = FALSE]
      BY <1>5 DEF Receive
    <3>2. open' \in [Clients -> BOOLEAN] /\ lag' \in [Clients -> BOOLEAN]
      BY <2>1, <3>1 DEF TypeOK, LinkType
    <3>3. CASE replay[c] # <<>>
      <4>1. replay' = [replay EXCEPT ![c] = Tail(@)] /\ inbox' = inbox
        BY <1>5, <3>3 DEF Receive
      <4>2. Tail(replay[c]) \in Seq(Frames)
        BY <2>2, <3>3, HeadTailProperties
      <4> QED
        BY <3>2, <4>1, <4>2 DEF TypeOK, LinkType
    <3>4. CASE replay[c] = <<>>
      <4>1. inbox' = [inbox EXCEPT ![c] = Tail(@)] /\ replay' = replay
        BY <1>5, <3>4 DEF Receive
      <4>2. inbox[c] # <<>>
        BY <1>5, <2>2, <3>4, ConcatEmptySeq DEF Receive, Queued
      <4>3. Tail(inbox[c]) \in Seq(Frames) /\ Len(Tail(inbox[c])) <= Cap
        BY <2>2, <4>2, HeadTailProperties, LenProperties
      <4> QED
        BY <3>2, <4>1, <4>3 DEF TypeOK, LinkType
    <3> QED
      BY <3>3, <3>4
  <2> QED
    BY <2>1, <2>9, <2>10, SameServer DEF TypeOK
<1>6. CASE EndOfStream(c)
  <2>1. UNCHANGED <<server, poster, views, links>> /\ UNCHANGED <<rows, said>>
        /\ st' = [st EXCEPT ![c] = "ended"]
    BY <1>6 DEF EndOfStream, server
  <2>2. TabType'
    BY <2>1 DEF TypeOK, TabType, views, Places
  <2> QED
    BY <2>1, <2>2, SameServer, SameLinks DEF TypeOK
<1>7. CASE Leave(c)
  <2>1. UNCHANGED <<server, via, told>> /\ UNCHANGED <<rows, said>>
    BY <1>7 DEF Leave, server
  <2>2. <<>> \in Seq(1..said) /\ <<>> \in Seq(Frames) /\ Len(<<>>) <= Cap
    BY EmptySeq
  <2>3. TabType'
    <3>1. st' \in [Clients -> Places] /\ poster' \in Clients \cup {Nobody}
      BY <1>7 DEF TypeOK, TabType, Leave, Places
    <3>2. base' \in [Clients -> 0..Len(rows)] /\ tries' \in [Clients -> Nat]
      BY <1>7 DEF TypeOK, TabType, Leave
    <3>3. text' \in [Clients -> Seq(1..said)]
      BY <1>7, <2>2 DEF TypeOK, TabType, Leave
    <3>4. known' \in [Clients -> SUBSET Frames]
      BY <1>7 DEF TypeOK, TabType, Leave
    <3> QED
      BY <2>1, <3>1, <3>2, <3>3, <3>4 DEF TypeOK, TabType
  <2>4. open' \in [Clients -> BOOLEAN] /\ lag' \in [Clients -> BOOLEAN]
    BY <1>7 DEF TypeOK, LinkType, Leave
  <2>5. replay' \in [Clients -> Seq(Frames)]
        /\ inbox' \in [Clients -> {q \in Seq(Frames) : Len(q) <= Cap}]
    BY <1>7, <2>2 DEF TypeOK, LinkType, Leave
  <2> QED
    BY <2>1, <2>3, <2>4, <2>5, SameServer DEF TypeOK, LinkType
<1> QED
  BY <1>1, <1>2, <1>3, <1>4, <1>5, <1>6, <1>7 DEF Asking, Reading

-----------------------------------------------------------------------------
(* Queues of frames                                                        *)

(* A text frame carries a number.                                           *)
LEMMA TextNumber ==
  ASSUME NEW q \in Seq(Frames)
  PROVE  \A i \in DOMAIN q : IsText(q[i]) => q[i].n \in Nat
<1> SUFFICES ASSUME NEW i \in DOMAIN q, IsText(q[i])
             PROVE  q[i].n \in Nat
  OBVIOUS
<1>1. q[i] \in Frames
  BY LenProperties, ElementOfSeq
<1> QED
  BY <1>1, StreamAssumption DEF IsText, Frames, CallFrames

(* A frame that is not a text disturbs nothing.                             *)
LEMMA AppendOther ==
  ASSUME NEW q \in Seq(Frames), NEW f \in Frames, ~IsText(f), NEW have, NEW n
  PROVE  /\ InOrder(q, have) => InOrder(Append(q, f), have)
         /\ InRange(q, n) => InRange(Append(q, f), n)
         /\ Gapless(q, have) => Gapless(Append(q, f), have)
         /\ Complete(q, have, n) => Complete(Append(q, f), have, n)
<1> DEFINE r == Append(q, f)
<1>1. /\ Len(q) \in Nat /\ DOMAIN q = 1..Len(q) /\ DOMAIN r = 1..(Len(q) + 1)
      /\ \A i \in 1..Len(q) : r[i] = q[i]
      /\ r[Len(q) + 1] = f
  BY LenProperties, AppendProperties
<1> HIDE DEF r
<1>2. \A i \in DOMAIN r : IsText(r[i]) => i \in DOMAIN q /\ r[i] = q[i] /\ 1..(i - 1) \subseteq DOMAIN q
  BY <1>1
<1>3. InOrder(q, have) => InOrder(r, have)
  BY <1>1, <1>2 DEF InOrder
<1>4. InRange(q, n) => InRange(r, n)
  BY <1>1, <1>2 DEF InRange
<1>5. Gapless(q, have) => Gapless(r, have)
  BY <1>1, <1>2 DEF Gapless
<1>6. Complete(q, have, n) => Complete(r, have, n)
  BY <1>1 DEF Complete, TextIn
<1> QED
  BY <1>3, <1>4, <1>5, <1>6 DEF r

(* The next piece behind all the others.                                    *)
LEMMA AppendText ==
  ASSUME NEW q \in Seq(Frames), NEW f \in Frames, IsText(f), NEW n \in Nat, f.n = n + 1,
         NEW have \in 0..n, InOrder(q, have), InRange(q, n)
  PROVE  /\ InOrder(Append(q, f), have) /\ InRange(Append(q, f), n + 1)
         /\ Gapless(q, have) /\ Complete(q, have, n) =>
              Gapless(Append(q, f), have) /\ Complete(Append(q, f), have, n + 1)
<1> DEFINE r == Append(q, f)
<1>1. /\ Len(q) \in Nat /\ DOMAIN q = 1..Len(q) /\ DOMAIN r = 1..(Len(q) + 1)
      /\ \A i \in 1..Len(q) : r[i] = q[i]
      /\ r[Len(q) + 1] = f
  BY LenProperties, AppendProperties
<1> HIDE DEF r
<1>2. \A i \in DOMAIN q : IsText(q[i]) => q[i].n \in Nat /\ q[i].n <= n
  BY TextNumber DEF InRange
<1>3. InOrder(r, have)
  <2> SUFFICES ASSUME NEW i \in DOMAIN r, IsText(r[i])
               PROVE  /\ have < r[i].n
                      /\ \A j \in 1..(i - 1) : IsText(r[j]) => r[j].n < r[i].n
    BY DEF InOrder
  <2>1. CASE i \in DOMAIN q
    BY <1>1, <2>1 DEF InOrder
  <2>2. CASE i = Len(q) + 1
    BY <1>1, <1>2, <2>2
  <2> QED
    BY <1>1, <2>1, <2>2
<1>4. InRange(r, n + 1)
  BY <1>1, <1>2 DEF InRange
<1>5. ASSUME Gapless(q, have), Complete(q, have, n)
      PROVE  Gapless(r, have)
  <2> SUFFICES ASSUME NEW i \in DOMAIN r, IsText(r[i])
               PROVE  \/ r[i].n = have + 1
                      \/ \E j \in 1..(i - 1) : IsText(r[j]) /\ r[j].n = r[i].n - 1
    BY DEF Gapless
  <2>1. CASE i \in DOMAIN q
    <3>1. \/ q[i].n = have + 1
          \/ \E j \in 1..(i - 1) : IsText(q[j]) /\ q[j].n = q[i].n - 1
      BY <1>1, <1>5, <2>1 DEF Gapless
    <3> QED
      BY <1>1, <2>1, <3>1
  <2>2. CASE i = Len(q) + 1
    <3>1. CASE have = n
      BY <1>1, <2>2, <3>1
    <3>2. CASE have < n
      <4>1. TextIn(q, n)
        BY <1>5, <3>2 DEF Complete
      <4>2. PICK j \in DOMAIN q : IsText(q[j]) /\ q[j].n = n
        BY <4>1 DEF TextIn
      <4> QED
        BY <1>1, <2>2, <4>2
    <3> QED
      BY <3>1, <3>2
  <2> QED
    BY <1>1, <2>1, <2>2
<1>6. ASSUME Complete(q, have, n)
      PROVE  Complete(r, have, n + 1)
  <2> SUFFICES ASSUME NEW k \in (have + 1)..(n + 1)
               PROVE  TextIn(r, k)
    BY DEF Complete
  <2>1. CASE k = n + 1
    BY <1>1, <2>1 DEF TextIn
  <2>2. CASE k \in (have + 1)..n
    <3>1. PICK j \in DOMAIN q : IsText(q[j]) /\ q[j].n = k
      BY <1>6, <2>2 DEF Complete, TextIn
    <3> QED
      BY <1>1, <3>1 DEF TextIn
  <2> QED
    BY <2>1, <2>2
<1> QED
  BY <1>3, <1>4, <1>5, <1>6 DEF r

(* Taking the first frame: a text is the next piece if none is missing.     *)
LEMMA TakeFrame ==
  ASSUME NEW q \in Seq(Frames), q # <<>>, NEW n \in Nat, NEW have \in Nat, InOrder(q, have)
  PROVE  LET f == q[1]
             now == IF IsText(f) THEN f.n ELSE have
         IN  /\ InOrder(Tail(q), now)
             /\ InRange(q, n) => InRange(Tail(q), n)
             /\ Gapless(q, have) => Gapless(Tail(q), now) /\ (IsText(f) => now = have + 1)
             /\ Complete(q, have, n) => Complete(Tail(q), now, n)
<1> DEFINE f == q[1]
           now == IF IsText(f) THEN f.n ELSE have
           r == Tail(q)
<1>1. /\ Len(q) \in Nat \ {0} /\ DOMAIN q = 1..Len(q) /\ DOMAIN r = 1..(Len(q) - 1)
      /\ \A i \in 1..(Len(q) - 1) : r[i] = q[i + 1]
  BY LenProperties, EmptySeq, HeadTailProperties
<1> HIDE DEF r
<1>2. \A i \in DOMAIN q : IsText(q[i]) => q[i].n \in Nat
  BY TextNumber
<1>3. now \in Nat /\ have <= now
  BY <1>1, <1>2 DEF InOrder
<1>4. InOrder(r, now)
  <2> SUFFICES ASSUME NEW i \in DOMAIN r, IsText(r[i])
               PROVE  /\ now < r[i].n
                      /\ \A j \in 1..(i - 1) : IsText(r[j]) => r[j].n < r[i].n
    BY DEF InOrder
  <2>1. /\ have < q[i + 1].n
        /\ \A j \in 1..i : IsText(q[j]) => q[j].n < q[i + 1].n
    BY <1>1 DEF InOrder
  <2> QED
    BY <1>1, <2>1
<1>5. InRange(q, n) => InRange(r, n)
  BY <1>1 DEF InRange
<1>6. ASSUME Gapless(q, have)
      PROVE  Gapless(r, now) /\ (IsText(f) => now = have + 1)
  <2>1. IsText(f) => now = have + 1
    BY <1>1, <1>6 DEF Gapless
  <2>2. Gapless(r, now)
    <3> SUFFICES ASSUME NEW i \in DOMAIN r, IsText(r[i])
                 PROVE  \/ r[i].n = now + 1
                        \/ \E j \in 1..(i - 1) : IsText(r[j]) /\ r[j].n = r[i].n - 1
      BY DEF Gapless
    <3>1. \/ q[i + 1].n = have + 1
          \/ \E j \in 1..i : IsText(q[j]) /\ q[j].n = q[i + 1].n - 1
      BY <1>1, <1>6 DEF Gapless
    <3>2. now < r[i].n /\ r[i] = q[i + 1] /\ r[i].n \in Nat
      BY <1>1, <1>2, <1>4 DEF InOrder
    <3>3. CASE q[i + 1].n = have + 1
      BY <1>3, <2>1, <3>2, <3>3
    <3>4. ASSUME NEW j \in 1..i, IsText(q[j]), q[j].n = q[i + 1].n - 1
          PROVE  \/ r[i].n = now + 1
                 \/ \E l \in 1..(i - 1) : IsText(r[l]) /\ r[l].n = r[i].n - 1
      <4>1. CASE j = 1
        <5>1. now = q[1].n /\ q[1].n \in Nat
          BY <1>1, <1>2, <3>4, <4>1
        <5> QED
          BY <3>2, <3>4, <4>1, <5>1
      <4>2. CASE j # 1
        <5>1. j - 1 \in 1..(i - 1) /\ j - 1 \in 1..(Len(q) - 1) /\ r[j - 1] = q[j]
          BY <1>1, <4>2
        <5> QED
          BY <3>2, <3>4, <5>1
      <4> QED
        BY <4>1, <4>2
    <3> QED
      BY <3>1, <3>3, <3>4
  <2> QED
    BY <2>1, <2>2
<1>7. ASSUME Complete(q, have, n)
      PROVE  Complete(r, now, n)
  <2> SUFFICES ASSUME NEW k \in (now + 1)..n
               PROVE  TextIn(r, k)
    BY DEF Complete
  <2>1. PICK i \in DOMAIN q : IsText(q[i]) /\ q[i].n = k
    BY <1>3, <1>7 DEF Complete, TextIn
  <2>2. i # 1
    BY <1>3, <2>1
  <2>3. i - 1 \in DOMAIN r /\ r[i - 1] = q[i]
    BY <1>1, <2>1, <2>2
  <2> QED
    BY <2>1, <2>3 DEF TextIn
<1> QED
  BY <1>4, <1>5, <1>6, <1>7 DEF r

-----------------------------------------------------------------------------
(* The exact view                                                          *)

(* What is on its way to a tab, and what it shows, are well typed.           *)
LEMMA QueueType ==
  ASSUME TypeOK, NEW c \in Clients
  PROVE  /\ replay[c] \in Seq(Frames) /\ inbox[c] \in Seq(Frames) /\ Queued(c) \in Seq(Frames)
         /\ text[c] \in Seq(1..said) /\ Len(text[c]) \in Nat /\ Newest(text[c]) \in 0..said
         /\ said \in Nat
<1>1. replay[c] \in Seq(Frames) /\ inbox[c] \in Seq(Frames) /\ text[c] \in Seq(1..said)
  BY DEF TypeOK, LinkType, TabType
<1>2. Queued(c) \in Seq(Frames)
  BY <1>1, ConcatProperties DEF Queued
<1>3. Len(text[c]) \in Nat /\ (text[c] # <<>> => Len(text[c]) \in 1..Len(text[c]))
  BY <1>1, LenProperties, EmptySeq
<1>4. Newest(text[c]) \in 0..said
  BY <1>1, <1>3, TypeFacts, ElementOfSeq DEF Newest
<1> QED
  BY <1>1, <1>2, <1>3, <1>4, TypeFacts

(* What a published frame does to the queue of a tab.                       *)
LEMMA SendQueue ==
  ASSUME TypeOK, NEW f \in Frames, Send(f), NEW c \in Clients
  PROVE  /\ open'[c] = open[c]
         /\ ~open[c] => Queued(c)' = Queued(c) /\ lag'[c] = lag[c]
         /\ open[c] => \/ lag'[c] /\ Queued(c)' = Queued(c)
                       \/ lag'[c] = lag[c] /\ Queued(c)' = Append(Queued(c), f)
<1>1. /\ open' = open /\ replay' = replay
      /\ inbox'[c] = IF open[c] /\ ~(Len(inbox[c]) >= Cap) THEN Append(inbox[c], f) ELSE inbox[c]
      /\ lag'[c] = (lag[c] \/ (open[c] /\ Len(inbox[c]) >= Cap))
  BY DEF Send
<1>2. CASE open[c] /\ ~(Len(inbox[c]) >= Cap)
  <2>1. Queued(c)' = replay[c] \o Append(inbox[c], f)
    BY <1>1, <1>2 DEF Queued
  <2>2. Append(inbox[c], f) = inbox[c] \o <<f>> /\ <<f>> \in Seq(Frames)
    BY QueueType, AppendIsConcat
  <2>3. Append(Queued(c), f) = Queued(c) \o <<f>>
    BY QueueType, AppendIsConcat
  <2>4. \A s, t, u \in Seq(Frames) : (s \o t) \o u = s \o (t \o u)
    BY ConcatAssociative
  <2>5. Queued(c)' = Append(Queued(c), f)
    <3>1. replay[c] \in Seq(Frames) /\ inbox[c] \in Seq(Frames)
      BY QueueType
    <3>2. (replay[c] \o inbox[c]) \o <<f>> = replay[c] \o (inbox[c] \o <<f>>)
      BY <2>2, <2>4, <3>1, Zenon
    <3>3. Queued(c) = replay[c] \o inbox[c]
      BY Zenon DEF Queued
    <3> QED
      BY <2>1, <2>2, <2>3, <3>2, <3>3, Zenon
  <2>6. lag'[c] = lag[c]
    BY <1>1, <1>2 DEF TypeOK, LinkType
  <2> QED
    BY <1>1, <1>2, <2>5, <2>6
<1>3. CASE open[c] /\ Len(inbox[c]) >= Cap
  BY <1>1, <1>3 DEF Queued
<1>4. CASE ~open[c]
  <2>1. lag'[c] = lag[c]
    BY <1>1, <1>4 DEF TypeOK, LinkType
  <2> QED
    BY <1>1, <1>4, <2>1 DEF Queued
<1> QED
  BY <1>2, <1>3, <1>4

(* Steps that neither say nor publish anything.                             *)
LEMMA SameView ==
  ASSUME TypeOK, ViewInOrder, UNCHANGED <<st, text, via, links, said>>,
         status' = status \/ status' = "streaming"
  PROVE  ViewInOrder'
<1> SUFFICES ASSUME NEW c \in Clients
             PROVE  ViewOf(c)'
  BY DEF ViewInOrder
<1>1. ViewOf(c)
  BY DEF ViewInOrder
<1>2. /\ open' = open /\ lag' = lag /\ Queued(c)' = Queued(c)
      /\ Whole(c)' = Whole(c) /\ Following(c)' = Following(c)
  BY DEF links, Queued, Whole, Following
<1> QED
  BY <1>1, <1>2 DEF ViewOf, QueueOf

(* A frame that is not a text.                                              *)
LEMMA OtherView ==
  ASSUME TypeOK, ViewInOrder, UNCHANGED <<st, text, via, said, status>>,
         NEW f \in Frames, ~IsText(f), Send(f)
  PROVE  ViewInOrder'
<1> SUFFICES ASSUME NEW c \in Clients
             PROVE  ViewOf(c)'
  BY DEF ViewInOrder
<1>1. ViewOf(c) /\ open'[c] = open[c]
  BY SendQueue DEF ViewInOrder
<1>2. Whole(c)' => Whole(c)
  BY SendQueue DEF Whole
<1>3. Following(c)' => Following(c) /\ Whole(c)
  BY SendQueue DEF Whole, Following
<1>4. Queued(c)' = Queued(c) \/ Queued(c)' = Append(Queued(c), f)
  BY SendQueue
<1>5. QueueOf(c) => QueueOf(c)'
  <2> DEFINE q == Queued(c)
             have == Newest(text[c])
  <2> SUFFICES ASSUME QueueOf(c)
               PROVE  /\ InOrder(q', have) /\ InRange(q', said)
                      /\ Whole(c)' => Gapless(q', have)
                      /\ Following(c)' => Complete(q', have, said)
    BY DEF QueueOf
  <2>1. /\ InOrder(q, have) /\ InRange(q, said)
        /\ Whole(c) => Gapless(q, have)
        /\ Following(c) => Complete(q, have, said)
    BY DEF QueueOf
  <2>2. CASE q' = q
    BY <1>2, <1>3, <2>1, <2>2
  <2>3. CASE q' = Append(q, f)
    <3>1. q \in Seq(Frames)
      BY QueueType
    <3> HIDE DEF q, have
    <3> QED
      BY <1>2, <1>3, <2>1, <2>3, <3>1, AppendOther
  <2> QED
    BY <1>4, <2>2, <2>3
<1> QED
  BY <1>1, <1>2, <1>5 DEF ViewOf

(* The next piece of the text.                                              *)
LEMMA TextView ==
  ASSUME TypeOK, ViewInOrder, UNCHANGED <<st, text, via, status>>, said' = said + 1,
         NEW f \in Frames, IsText(f), f.n = said + 1, Send(f), status = "streaming"
  PROVE  ViewInOrder'
<1> SUFFICES ASSUME NEW c \in Clients
             PROVE  ViewOf(c)'
  BY DEF ViewInOrder
<1>1. ViewOf(c) /\ open'[c] = open[c]
  BY SendQueue DEF ViewInOrder
<1>2. Whole(c)' => Whole(c)
  BY SendQueue DEF Whole
<1>3. Following(c)' => Following(c) /\ Whole(c) /\ Queued(c)' = Append(Queued(c), f)
  BY SendQueue DEF Whole, Following
<1>4. QueueOf(c) => QueueOf(c)'
  <2> DEFINE q == Queued(c)
             have == Newest(text[c])
  <2> SUFFICES ASSUME QueueOf(c)
               PROVE  /\ InOrder(q', have) /\ InRange(q', said + 1)
                      /\ Whole(c)' => Gapless(q', have)
                      /\ Following(c)' => Complete(q', have, said + 1)
    BY DEF QueueOf
  <2>1. /\ InOrder(q, have) /\ InRange(q, said)
        /\ Whole(c) => Gapless(q, have)
        /\ Following(c) => Complete(q, have, said)
    BY DEF QueueOf
  <2>2. q \in Seq(Frames) /\ have \in 0..said /\ said \in Nat
    BY QueueType
  <2>3. InRange(q, said + 1)
    BY <2>1, <2>2, TextNumber DEF InRange
  <2>4. CASE ~open[c]
    <3>1. q' = q /\ ~Following(c)'
      BY <1>1, <2>4, SendQueue DEF Following
    <3> QED
      BY <1>2, <2>1, <2>3, <3>1
  <2>5. CASE open[c] /\ lag'[c] /\ q' = q
    <3>1. ~Whole(c)' /\ ~Following(c)'
      BY <2>5 DEF Whole, Following
    <3> QED
      BY <2>1, <2>3, <2>5, <3>1
  <2>6. CASE open[c] /\ lag'[c] = lag[c] /\ q' = Append(q, f)
    <3>1. Whole(c)' => Following(c) /\ Whole(c)
      BY <1>1, <2>6 DEF Whole, Following, ViewOf
    <3> HIDE DEF q, have
    <3> QED
      BY <1>3, <2>1, <2>2, <2>6, <3>1, AppendText
  <2> QED
    BY <2>4, <2>5, <2>6, SendQueue
<1> QED
  BY <1>1, <1>2, <1>4 DEF ViewOf

(* The replay while nothing is added to it ...                              *)
LEMMA SameReplay ==
  ASSUME ReplayExact, UNCHANGED <<chunks, durable, said>>,
         UptoAt(rows', durable) = UptoAt(rows, durable),
         status' = status \/ status' = "complete"
  PROVE  ReplayExact'
  BY DEF ReplayExact

(* ... when it starts over behind the whole text ...                        *)
LEMMA EmptyReplay ==
  ASSUME TypeOK, chunks' = <<>>, UptoAt(rows', durable') = said', said' = said
  PROVE  ReplayExact'
<1>1. (said + 1)..said = {}
  BY TypeFacts
<1>2. DOMAIN <<>> = {}
  OBVIOUS
<1> QED
  BY <1>1, <1>2 DEF ReplayExact, InOrder, InRange, Gapless, Complete

(* ... and when a frame is appended.                                        *)
LEMMA OtherReplay ==
  ASSUME TypeOK, ReplayExact, UNCHANGED <<rows, said>>, NEW f \in Frames, ~IsText(f),
         AppendFrame(f)
  PROVE  ReplayExact'
<1>1. chunks' = Append(chunks, f) /\ UNCHANGED <<status, durable>> /\ chunks \in Seq(Frames)
  BY DEF AppendFrame, TypeOK, ServerType
<1> DEFINE saved == UptoAt(rows, durable)
<1>2. /\ InOrder(chunks, saved) /\ InRange(chunks, said)
      /\ status = "streaming" => Gapless(chunks, saved) /\ Complete(chunks, saved, said)
  BY DEF ReplayExact
<1>3. saved' = saved
  BY <1>1
<1> HIDE DEF saved
<1>4. /\ InOrder(chunks', saved) /\ InRange(chunks', said)
      /\ status = "streaming" => Gapless(chunks', saved) /\ Complete(chunks', saved, said)
  BY <1>1, <1>2, AppendOther
<1> QED
  BY <1>1, <1>3, <1>4 DEF ReplayExact, saved

(* The next piece of the text extends an exact replay.                       *)
LEMMA TextReplay ==
  ASSUME TypeOK, ReplayExact, rows' = rows, said' = said + 1, NEW f \in Frames, IsText(f),
         f.n = said + 1, AppendFrame(f), status = "streaming"
  PROVE  ReplayExact'
<1>1. chunks' = Append(chunks, f) /\ UNCHANGED <<status, durable>> /\ chunks \in Seq(Frames)
  BY DEF AppendFrame, TypeOK, ServerType
<1> DEFINE saved == UptoAt(rows, durable)
<1>2. /\ InOrder(chunks, saved) /\ InRange(chunks, said)
      /\ Gapless(chunks, saved) /\ Complete(chunks, saved, said)
  BY DEF ReplayExact
<1>3. saved' = saved
  BY <1>1
<1>4. saved \in 0..said /\ said \in Nat
  BY TypeFacts, UptoType DEF TypeOK, ServerType
<1> HIDE DEF saved
<1>5. /\ InOrder(chunks', saved) /\ InRange(chunks', said + 1)
      /\ Gapless(chunks', saved) /\ Complete(chunks', saved, said + 1)
  BY <1>1, <1>2, <1>4, AppendText
<1> QED
  BY <1>1, <1>3, <1>5 DEF ReplayExact, saved

(* What the tabs that may join know is not touched by a run.                *)
LEMMA SameJoiners ==
  ASSUME TypeOK, JoinerKnows, ViewInOrder, UNCHANGED <<tabs, poster>>,
         \A i \in 0..Len(rows) : UptoAt(rows', i) = UptoAt(rows, i),
         \A c \in Clients : ~open[c] => lag'[c] = lag[c],
         \/ UptoAt(rows', durable') = said
         \/ UptoAt(rows', durable') = UptoAt(rows, durable) /\ (pc = "posted" => pc' = "posted")
  PROVE  JoinerKnows'
<1> SUFFICES ASSUME NEW c \in Clients
             PROVE  JoinerOf(c)'
  BY DEF JoinerKnows
<1>1. JoinerOf(c) /\ (open[c] => st[c] = "live")
  BY DEF JoinerKnows, ViewInOrder, ViewOf
<1>2. /\ st'[c] = st[c] /\ text'[c] = text[c] /\ base'[c] = base[c] /\ via'[c] = via[c]
      /\ poster' = poster
  BY DEF tabs, views
<1>3. UptoAt(rows', base[c]) = UptoAt(rows, base[c])
  BY DEF TypeOK, TabType
<1>4. Whole(c) /\ st[c] # "live" => Whole(c)'
  BY <1>1, <1>2 DEF Whole
<1>5. Newest(text[c]) \in 0..said
  BY QueueType
<1>6. poster = c /\ pc' # "posted" => Newest(text[c]) <= UptoAt(rows', durable')
  BY <1>1, <1>5 DEF JoinerOf
<1> QED
  BY <1>1, <1>2, <1>3, <1>4, <1>6 DEF JoinerOf

(* The first and the last row.                                              *)
LEMMA DurableType ==
  ASSUME TypeOK
  PROVE  durable \in 0..Len(rows) /\ UptoAt(rows, durable) \in 0..said
         /\ chunks \in Seq(Frames) /\ UptoAt(rows, Len(rows)) = Upto(rows)
  BY TypeFacts, UptoType DEF TypeOK, ServerType, Upto

(* A run begins with an empty replay behind the whole table.                *)
LEMMA BeginCursor ==
  ASSUME TypeOK, CursorInv, Begin
  PROVE  CursorInv'
<1> USE TypeFacts, DurableType DEF CursorInv
<1>1. ASSUME NEW p \in Clients \cup {Nobody}, StartRun(p)
      PROVE  CursorInv'
  <2>1. UNCHANGED <<said, subs, buffer, pub, waiting, views, links>> /\ pc = "rest" /\ pc' = "posted"
        /\ rows' = Append(rows, Row("user", said, {})) /\ poster = Nobody
    BY <1>1 DEF StartRun, Goto
  <2>2. Len(rows') = Len(rows) + 1 /\ Upto(rows') = said
        /\ \A i \in 0..Len(rows) : UptoAt(rows', i) = UptoAt(rows, i)
    BY <2>1, TableAppend
  <2>3. TableComplete'
    BY <2>1, <2>2 DEF TableComplete, buffer
  <2>4. ReplayExact'
    BY <2>1, <2>2, SameReplay DEF buffer
  <2>5. \A c \in Clients : /\ st'[c] = IF c = p THEN "posting" ELSE st[c]
                           /\ c = p => st[c] \in {"idle", "ended"}
                           /\ poster' = c => c = p
    BY <1>1, StreamAssumption DEF StartRun, TypeOK, TabType
  <2>6. JoinerKnows'
    <3> SUFFICES ASSUME NEW c \in Clients
                 PROVE  JoinerOf(c)'
      BY DEF JoinerKnows
    <3>1. JoinerOf(c) /\ UNCHANGED <<text, base, via, lag>>
      BY <2>1 DEF JoinerKnows, views, links
    <3>2. UptoAt(rows', base[c]) = UptoAt(rows, base[c])
      BY <2>2 DEF TypeOK, TabType
    <3> QED
      BY <2>1, <2>5, <3>1, <3>2 DEF JoinerOf, Whole
  <2>7. ViewInOrder'
    <3> SUFFICES ASSUME NEW c \in Clients
                 PROVE  ViewOf(c)'
      BY DEF ViewInOrder
    <3>1. /\ ViewOf(c) /\ open' = open /\ lag' = lag /\ text' = text /\ via' = via
          /\ status' = status /\ said' = said /\ Queued(c)' = Queued(c)
      BY <2>1 DEF ViewInOrder, views, links, buffer, Queued
    <3>2. Whole(c)' = Whole(c) /\ (st'[c] = "live" => st[c] = "live") /\ (open[c] => st'[c] = st[c])
      BY <2>5, <3>1 DEF Whole, ViewOf
    <3>3. st'[c] = "live" => Following(c)' = Following(c)
      BY <3>1, <3>2 DEF Following
    <3> QED
      BY <3>1, <3>2, <3>3 DEF ViewOf, QueueOf
  <2> QED
    BY <2>3, <2>4, <2>6, <2>7
<1>2. CASE ResumeRun
  <2>1. UNCHANGED <<rows, said, subs, pub, poster, tabs, links>> /\ pc = "rest" /\ pc' = "loop"
        /\ status' = "streaming" /\ durable' = Len(rows) /\ chunks' = <<>>
    BY <1>2 DEF ResumeRun, CreateAt, Goto
  <2>2. TableComplete'
    BY <2>1 DEF TableComplete
  <2>3. UptoAt(rows', durable') = said
    BY <2>1 DEF TableComplete
  <2>4. ReplayExact'
    BY <2>1, <2>3, EmptyReplay
  <2>5. JoinerKnows'
    BY <2>1, <2>3, SameJoiners DEF links
  <2>6. ViewInOrder'
    BY <2>1, SameView DEF tabs, views
  <2> QED
    BY <2>2, <2>4, <2>5, <2>6
<1> QED
  BY <1>1, <1>2 DEF Begin

(* Every step of a run keeps the table, the replay and the queues in line.  *)
LEMMA RunStepCursor ==
  ASSUME TypeOK, CursorInv, RunStep
  PROVE  CursorInv'
<1> USE StreamAssumption, TypeFacts, DurableType DEF CursorInv
<1>1. CASE StartCreate
  <2>1. UNCHANGED <<rows, said, poster, tabs, links>> /\ pc = "posted" /\ pc' = "loop"
        /\ status' = "streaming" /\ durable' = Len(rows) /\ chunks' = <<>>
    BY <1>1 DEF StartCreate, CreateAt, Goto
  <2>2. TableComplete'
    BY <2>1 DEF TableComplete
  <2>3. UptoAt(rows', durable') = said
    BY <2>1 DEF TableComplete
  <2>4. ReplayExact'
    BY <2>1, <2>3, EmptyReplay
  <2>5. JoinerKnows'
    BY <2>1, <2>3, SameJoiners DEF links
  <2>6. ViewInOrder'
    BY <2>1, SameView DEF tabs, views
  <2> QED
    BY <2>2, <2>4, <2>5, <2>6
<1>2. CASE Say
  <2> DEFINE f == Frame("text", said + 1)
  <2>1. AppendFrame(f) /\ said < MaxText /\ said' = said + 1 /\ pc = "loop" /\ Open(rows) = {}
        /\ UNCHANGED <<rows, agent, tabs>>
    BY <1>2 DEF Say
  <2>2. f \in Frames /\ IsText(f) /\ f.n = said + 1
    BY <2>1, FramesType DEF Frame, IsText
  <2>3. UNCHANGED <<status, durable>> /\ Send(f) /\ pc' = pc /\ poster' = poster /\ status = "streaming"
    BY <2>1 DEF AppendFrame, agent, TableComplete
  <2> HIDE DEF f
  <2>4. TableComplete'
    BY <2>1, <2>3 DEF TableComplete
  <2>5. ReplayExact'
    BY <2>1, <2>2, <2>3, TextReplay
  <2>6. JoinerKnows'
    BY <2>1, <2>2, <2>3, SendQueue, SameJoiners
  <2>7. ViewInOrder'
    BY <2>1, <2>2, <2>3, TextView DEF tabs, views
  <2> QED
    BY <2>4, <2>5, <2>6, <2>7
<1>3. CASE SubAgentSays \/ Interrupt \/ FinalFrame
  <2>1. PICK f \in Frames : AppendFrame(f) /\ ~IsText(f)
    BY <1>3, FramesType DEF SubAgentSays, Interrupt, FinalFrame, Frame, IsText
  <2>2. UNCHANGED <<rows, said, poster, tabs>>
    BY <1>3 DEF SubAgentSays, Interrupt, FinalFrame
  <2>3. UNCHANGED <<status, durable>> /\ Send(f)
    BY <2>1 DEF AppendFrame
  <2>4. TableComplete'
    BY <1>3, <2>2, <2>3 DEF TableComplete, SubAgentSays, Interrupt, FinalFrame, Goto
  <2>5. ReplayExact'
    BY <2>1, <2>2, OtherReplay
  <2>6. JoinerKnows'
    <3>1. pc # "posted"
      BY <1>3 DEF SubAgentSays, Interrupt, FinalFrame
    <3> QED
      BY <2>1, <2>2, <2>3, <3>1, SendQueue, SameJoiners
  <2>7. ViewInOrder'
    BY <2>1, <2>2, <2>3, OtherView DEF tabs, views
  <2> QED
    BY <2>4, <2>5, <2>6, <2>7
<1>4. CASE EmptyMessage
  <2>1. UNCHANGED <<rows, said, poster, tabs, status, links>> /\ chunks' = <<>>
        /\ pc = "loop" /\ pc' = "partial" /\ said = Upto(rows)
    BY <1>4 DEF EmptyMessage, CommitBoundary, Goto
  <2>2. durable' = durable
    BY <1>4 DEF EmptyMessage, CommitBoundary
  <2>3. UptoAt(rows', durable') = said
    BY <2>1, <2>2 DEF TableComplete
  <2>4. TableComplete'
    BY <2>1, <2>2 DEF TableComplete
  <2>5. ReplayExact'
    BY <2>1, <2>3, EmptyReplay
  <2>6. JoinerKnows'
    BY <2>1, <2>3, SameJoiners DEF links
  <2>7. ViewInOrder'
    BY <2>1, SameView DEF tabs, views
  <2> QED
    BY <2>4, <2>5, <2>6, <2>7
<1>5. ASSUME NEW S \in SUBSET Calls, NEW role \in {"assistant", "tool", "closed"}, NEW u \in 0..said,
             rows' = Append(rows, Row(role, u, S)), u = said,
             UNCHANGED <<said, buffer, poster, tabs, links>>,
             pc # "posted", pc' \in {"commit", "flush", "close"},
             status = "streaming"
      PROVE  CursorInv'
  <2>1. Len(rows') = Len(rows) + 1 /\ Upto(rows') = said
        /\ \A i \in 0..Len(rows) : UptoAt(rows', i) = UptoAt(rows, i)
    BY <1>5, TableAppend
  <2>2. TableComplete'
    BY <1>5, <2>1 DEF TableComplete, buffer
  <2>3. ReplayExact'
    BY <1>5, <2>1, SameReplay DEF buffer
  <2>4. JoinerKnows'
    BY <1>5, <2>1, SameJoiners DEF buffer, links
  <2>5. ViewInOrder'
    BY <1>5, SameView DEF tabs, views, buffer
  <2> QED
    BY <2>2, <2>3, <2>4, <2>5
<1>6. ASSUME NEW S \in SUBSET Calls, CloseMessage(S)
      PROVE  CursorInv'
  <2>1. /\ rows' = Append(rows, Row("assistant", said, S)) /\ pc = "loop" /\ pc' = "commit"
        /\ UNCHANGED <<said, buffer, poster, tabs, links>>
    BY <1>6 DEF CloseMessage, Goto
  <2>2. said \in 0..said /\ status = "streaming"
    BY <2>1 DEF TableComplete
  <2> QED
    BY <1>5, <2>1, <2>2
<1>7. ASSUME NEW c \in Calls, ToolResult(c)
      PROVE  CursorInv'
  <2>1. said = Upto(rows) /\ status = "streaming"
    BY <1>7 DEF ToolResult, TableComplete
  <2> QED
    BY <1>5, <1>7, <2>1 DEF ToolResult, Goto
<1>8. ASSUME NEW c \in Calls, CloseOpen(c)
      PROVE  CursorInv'
  <2>1. said = Upto(rows) /\ status = "streaming" /\ pc = "close" /\ pc' = pc /\ poster' = poster
    BY <1>8 DEF CloseOpen, TableComplete, agent
  <2> QED
    BY <1>5, <1>8, <2>1 DEF CloseOpen
<1>9. CASE FlushSubEvents \/ UpdateMetadata
  <2>1. UNCHANGED <<said, buffer, poster, tabs, links>> /\ SaveTimeline
        /\ pc \in {"flush", "metadata"} /\ pc' \in {"commit", "final"}
    BY <1>9 DEF FlushSubEvents, UpdateMetadata, Goto
  <2>2. Len(rows') = Len(rows) /\ \A i \in 0..Len(rows) : UptoAt(rows', i) = UptoAt(rows, i)
    BY <2>1, SaveTimelineRows
  <2>3. Upto(rows') = Upto(rows)
    BY <2>2 DEF Upto
  <2>4. TableComplete'
    BY <2>1, <2>2, <2>3 DEF TableComplete, buffer
  <2>5. ReplayExact'
    BY <2>1, <2>2, SameReplay DEF buffer
  <2>6. JoinerKnows'
    BY <2>1, <2>2, SameJoiners DEF buffer, links
  <2>7. ViewInOrder'
    BY <2>1, SameView DEF tabs, views, buffer
  <2> QED
    BY <2>4, <2>5, <2>6, <2>7
<1>10. CASE Commit
  <2>1. UNCHANGED <<rows, said, poster, tabs, status, links>> /\ chunks' = <<>>
        /\ durable' = Len(rows) /\ pc = "commit" /\ pc' = "publish"
    BY <1>10 DEF Commit, CommitBoundary, Goto
  <2>2. UptoAt(rows', durable') = said
    BY <2>1 DEF TableComplete
  <2>3. TableComplete'
    BY <2>1 DEF TableComplete
  <2>4. ReplayExact'
    BY <2>1, <2>2, EmptyReplay
  <2>5. JoinerKnows'
    BY <2>1, <2>2, SameJoiners DEF links
  <2>6. ViewInOrder'
    BY <2>1, SameView DEF tabs, views
  <2> QED
    BY <2>3, <2>4, <2>5, <2>6
<1>11. CASE Publish
  <2>1. Send(Head(pub)) /\ UNCHANGED <<rows, said, buffer, pc, poster, tabs>> /\ pub # <<>>
        /\ pc = "publish"
    BY <1>11 DEF Publish, PublishLive
  <2>2. Head(pub) \in CallFrames
    BY <2>1, HeadTailProperties DEF TypeOK, ServerType
  <2>3. Head(pub) \in Frames /\ ~IsText(Head(pub))
    BY <2>2, FramesType DEF CallFrames, IsText
  <2>4. TableComplete'
    BY <2>1 DEF TableComplete, buffer
  <2>5. ReplayExact'
    BY <2>1, SameReplay DEF buffer
  <2>6. JoinerKnows'
    BY <2>1, <2>3, SendQueue, SameJoiners DEF buffer
  <2>7. ViewInOrder'
    BY <2>1, <2>3, OtherView DEF tabs, views, buffer
  <2> QED
    BY <2>4, <2>5, <2>6, <2>7
<1>12. CASE Published \/ Stop \/ Closed
  <2>1. UNCHANGED <<rows, said, buffer, poster, tabs, links>> /\ pc # "posted"
    BY <1>12 DEF Published, Stop, Closed
  <2>2. TableComplete'
    BY <1>12, <2>1 DEF TableComplete, buffer, Published, Stop, Closed, Goto
  <2>3. ReplayExact'
    BY <2>1, SameReplay DEF buffer
  <2>4. JoinerKnows'
    BY <2>1, SameJoiners DEF buffer, links
  <2>5. ViewInOrder'
    BY <2>1, SameView DEF tabs, views, buffer
  <2> QED
    BY <2>2, <2>3, <2>4, <2>5
<1>13. CASE KeepPartial
  <2>1. UNCHANGED <<said, buffer, poster, tabs, links>> /\ pc = "partial" /\ pc' = "close"
        /\ status = "streaming"
    BY <1>13 DEF KeepPartial, Goto, TableComplete
  <2>2. CASE said > Upto(rows)
    <3>1. rows' = Append(rows, Row("assistant", said, {})) /\ said \in 0..said /\ {} \in SUBSET Calls
      BY <1>13, <2>2 DEF KeepPartial
    <3> QED
      BY <1>5, <2>1, <3>1
  <2>3. CASE ~(said > Upto(rows))
    <3>1. rows' = rows /\ said = Upto(rows)
      BY <1>13, <2>3 DEF KeepPartial
    <3>2. TableComplete'
      BY <2>1, <3>1 DEF TableComplete, buffer
    <3>3. ReplayExact'
      BY <2>1, <3>1, SameReplay DEF buffer
    <3>4. JoinerKnows'
      BY <2>1, <3>1, SameJoiners DEF buffer, links
    <3>5. ViewInOrder'
      BY <2>1, SameView DEF tabs, views, buffer
    <3> QED
      BY <3>2, <3>3, <3>4, <3>5
  <2> QED
    BY <2>2, <2>3
<1>14. CASE Finish
  <2>1. UNCHANGED <<rows, said, poster, tabs, durable, chunks, replay, inbox, lag>>
        /\ pc = "finish" /\ pc' = "rest"
        /\ status' = "complete" /\ open' = [c \in Clients |-> FALSE]
    BY <1>14 DEF Finish, FinishBuffer, Goto
  <2>2. TableComplete'
    BY <2>1 DEF TableComplete
  <2>3. ReplayExact'
    BY <2>1, SameReplay
  <2>4. JoinerKnows'
    BY <2>1, SameJoiners
  <2>5. ViewInOrder'
    <3> SUFFICES ASSUME NEW c \in Clients
                 PROVE  ViewOf(c)'
      BY DEF ViewInOrder
    <3>1. ViewOf(c) /\ ~open'[c] /\ UNCHANGED <<st, text, via, lag, said>> /\ Queued(c)' = Queued(c)
      BY <2>1 DEF ViewInOrder, tabs, views, Queued
    <3>2. Whole(c)' = Whole(c) /\ ~Following(c)'
      BY <3>1 DEF Whole, Following
    <3> QED
      BY <3>1, <3>2 DEF ViewOf, QueueOf
  <2> QED
    BY <2>2, <2>3, <2>4, <2>5
<1> QED
  BY <1>1, <1>2, <1>3, <1>4, <1>6, <1>7, <1>8, <1>9, <1>10, <1>11, <1>12, <1>13, <1>14
     DEF RunStep

(* The first n pieces.                                                      *)
LEMMA PiecesFacts ==
  ASSUME NEW n \in Nat
  PROVE  /\ Len(Pieces(n)) = n /\ Newest(Pieces(n)) = n /\ Pieces(n) \in Seq(Nat)
         /\ Append(Pieces(n), n + 1) = Pieces(n + 1)
<1>1. Pieces(n) \in Seq(Nat) /\ Len(Pieces(n)) = n /\ Pieces(n + 1) \in Seq(Nat)
      /\ Len(Pieces(n + 1)) = n + 1
  BY DEF Pieces
<1>2. Newest(Pieces(n)) = n
  <2>1. CASE n = 0
    <3>1. Pieces(n) = <<>>
      BY <1>1, <2>1, EmptySeq
    <3> QED
      BY <2>1, <3>1 DEF Newest
  <2>2. CASE n # 0
    <3>1. Pieces(n) # <<>>
      BY <1>1, <2>2, EmptySeq
    <3> QED
      BY <1>1, <2>2, <3>1 DEF Newest, Pieces
  <2> QED
    BY <2>1, <2>2
<1>3. Append(Pieces(n), n + 1) = Pieces(n + 1)
  <2> DEFINE s == Append(Pieces(n), n + 1)
  <2>1. s \in Seq(Nat) /\ Len(s) = n + 1
    BY <1>1, AppendProperties
  <2>2. \A i \in 1..(n + 1) : s[i] = Pieces(n + 1)[i]
    BY <1>1, AppendProperties DEF Pieces
  <2> HIDE DEF s
  <2> QED
    BY <1>1, <2>1, <2>2, SeqEqual DEF s
<1> QED
  BY <1>1, <1>2, <1>3

(* The newest piece is the last one appended.                               *)
LEMMA AppendNewest ==
  ASSUME NEW s \in Seq(Nat), NEW n \in Nat
  PROVE  Newest(Append(s, n)) = n
<1>1. /\ Append(s, n) \in Seq(Nat) /\ Len(Append(s, n)) = Len(s) + 1
      /\ Append(s, n)[Len(s) + 1] = n
  BY AppendProperties
<1>2. Len(s) \in Nat
  BY LenProperties
<1>3. Append(s, n) # <<>>
  BY <1>1, <1>2, EmptySeq
<1> QED
  BY <1>1, <1>3 DEF Newest

(* What a tab that shows all its frames shows is known by its newest piece. *)
LEMMA WholeNewest ==
  ASSUME TypeOK, NEW c \in Clients, text[c] = Pieces(Len(text[c]))
  PROVE  Newest(text[c]) = Len(text[c])
  BY QueueType, PiecesFacts

(* The first frame of a queue is taken from the replay, then from the       *)
(* channel.                                                                *)
LEMMA TailConcat ==
  ASSUME NEW s \in Seq(Frames), NEW t \in Seq(Frames), s # <<>>
  PROVE  Tail(s) \o t = Tail(s \o t)
<1>1. /\ s \o t \in Seq(Frames) /\ Len(s \o t) = Len(s) + Len(t)
      /\ \A i \in 1..(Len(s) + Len(t)) : (s \o t)[i] = IF i <= Len(s) THEN s[i] ELSE t[i - Len(s)]
  BY ConcatProperties
<1>2. Len(s) \in Nat \ {0} /\ Len(t) \in Nat
  BY EmptySeq, LenProperties
<1>3. s \o t # <<>>
  BY <1>1, <1>2, EmptySeq
<1>4. /\ Tail(s \o t) \in Seq(Frames) /\ Len(Tail(s \o t)) = Len(s) + Len(t) - 1
      /\ \A i \in 1..(Len(s) + Len(t) - 1) : Tail(s \o t)[i] = (s \o t)[i + 1]
  BY <1>1, <1>3, HeadTailProperties
<1>5. /\ Tail(s) \in Seq(Frames) /\ Len(Tail(s)) = Len(s) - 1
      /\ \A i \in 1..(Len(s) - 1) : Tail(s)[i] = s[i + 1]
  BY HeadTailProperties
<1>6. /\ Tail(s) \o t \in Seq(Frames) /\ Len(Tail(s) \o t) = Len(s) - 1 + Len(t)
      /\ \A i \in 1..(Len(s) - 1 + Len(t)) :
           (Tail(s) \o t)[i] = IF i <= Len(s) - 1 THEN Tail(s)[i] ELSE t[i - (Len(s) - 1)]
  BY <1>5, ConcatProperties
<1>7. \A i \in 1..(Len(s) + Len(t) - 1) : (Tail(s) \o t)[i] = Tail(s \o t)[i]
  BY <1>1, <1>2, <1>4, <1>5, <1>6
<1>8. Len(Tail(s) \o t) = Len(s) + Len(t) - 1
  BY <1>2, <1>6
<1> QED
  BY <1>4, <1>6, <1>7, <1>8, SeqEqual

(* A step of one tab does not touch another one.                            *)
LEMMA OtherTab ==
  ASSUME CursorInv, NEW d \in Clients, UNCHANGED server, poster' = d => poster = d,
         st'[d] = st[d], base'[d] = base[d], text'[d] = text[d], via'[d] = via[d],
         lag'[d] = lag[d], open'[d] = open[d], replay'[d] = replay[d], inbox'[d] = inbox[d]
  PROVE  JoinerOf(d)' /\ ViewOf(d)'
<1>1. JoinerOf(d) /\ ViewOf(d)
  BY DEF CursorInv, JoinerKnows, ViewInOrder
<1>2. rows' = rows /\ said' = said /\ status' = status /\ durable' = durable /\ pc' = pc
  BY DEF server, buffer
<1>3. Queued(d)' = Queued(d) /\ Whole(d)' = Whole(d) /\ Following(d)' = Following(d)
  BY DEF Queued, Whole, Following
<1>4. JoinerOf(d)'
  BY <1>1, <1>2, <1>3 DEF JoinerOf
<1>5. ViewOf(d)'
  BY <1>1, <1>2, <1>3 DEF ViewOf, QueueOf
<1> QED
  BY <1>4, <1>5

(* It is enough to look at the tab that acts.                               *)
LEMMA OneTab ==
  ASSUME CursorInv, NEW c \in Clients, UNCHANGED server,
         \A d \in Clients \ {c} :
           /\ poster' = d => poster = d
           /\ st'[d] = st[d] /\ base'[d] = base[d] /\ text'[d] = text[d] /\ via'[d] = via[d]
           /\ lag'[d] = lag[d] /\ open'[d] = open[d] /\ replay'[d] = replay[d]
           /\ inbox'[d] = inbox[d],
         JoinerOf(c)', ViewOf(c)'
  PROVE  CursorInv'
<1>1. \A d \in Clients : JoinerOf(d)' /\ ViewOf(d)'
  BY OtherTab
<1>2. TableComplete'
  BY DEF CursorInv, TableComplete, server, buffer
<1>3. ReplayExact'
  BY SameReplay DEF CursorInv, server, buffer
<1> QED
  BY <1>1, <1>2, <1>3 DEF CursorInv, JoinerKnows, ViewInOrder

(* What a tab does keeps its view exact.                                    *)
LEMMA TabStepCursor ==
  ASSUME TypeOK, CursorInv, NEW c \in Clients,
         LoadHistory(c) \/ Asking(c) \/ Reading(c) \/ Leave(c)
  PROVE  CursorInv'
<1> USE TypeFacts, DurableType
<1>1. JoinerOf(c) /\ ViewOf(c) /\ TableComplete /\ ReplayExact
  BY DEF CursorInv, JoinerKnows, ViewInOrder
<1>2. /\ st \in [Clients -> Places] /\ base \in [Clients -> 0..Len(rows)]
      /\ text \in [Clients -> Seq(1..said)] /\ via \in [Clients -> {"get", "post"}]
      /\ DOMAIN open = Clients /\ DOMAIN lag = Clients /\ DOMAIN replay = Clients
      /\ DOMAIN inbox = Clients /\ poster \in Clients \cup {Nobody}
  BY DEF TypeOK, TabType, LinkType
<1>3. ASSUME Show(c, rows), UNCHANGED <<server, poster, open, replay, inbox>>,
             \A d \in Clients \ {c} : st'[d] = st[d] /\ via'[d] = via[d] /\ lag'[d] = lag[d],
             via'[c] = "get", ~lag'[c], st'[c] \in {"loaded", "gaveup"}, ~open[c], poster # c
      PROVE  CursorInv'
  <2>1. /\ base'[c] = Len(rows) /\ text'[c] = Pieces(Upto(rows))
        /\ open' = open /\ poster' = poster
    BY <1>2, <1>3 DEF Show
  <2>2. Len(text'[c]) = Upto(rows)
    BY <2>1, PiecesFacts
  <2>3. UptoAt(rows', base'[c]) = Upto(rows)
    BY <1>3, <2>1 DEF server
  <2>4. JoinerOf(c)'
    BY <1>3, <2>1, <2>3 DEF JoinerOf, Whole
  <2>5. ViewOf(c)'
    BY <1>3, <2>1, <2>2 DEF ViewOf
  <2>6. \A d \in Clients \ {c} : /\ st'[d] = st[d] /\ base'[d] = base[d] /\ text'[d] = text[d]
                                 /\ via'[d] = via[d] /\ lag'[d] = lag[d]
    BY <1>2, <1>3 DEF Show
  <2> QED
    BY <1>3, <2>4, <2>5, <2>6, OneTab
<1>4. CASE LoadHistory(c)
  <2>1. st[c] \in {"off", "idle", "ended", "gaveup"} /\ st' = [st EXCEPT ![c] = "loaded"]
    BY <1>4 DEF LoadHistory
  <2>2. ~open[c] /\ poster # c
    BY <1>1, <2>1 DEF ViewOf, JoinerOf
  <2>3. /\ \A d \in Clients \ {c} : st'[d] = st[d] /\ via'[d] = via[d] /\ lag'[d] = lag[d]
        /\ via'[c] = "get" /\ ~lag'[c] /\ st'[c] = "loaded"
    BY <1>2, <1>4, <2>1 DEF LoadHistory
  <2> QED
    BY <1>3, <1>4, <2>2, <2>3 DEF LoadHistory
<1>5. CASE ReloadHistory(c)
  <2>1. /\ st[c] = "retry"
        /\ st' = [st EXCEPT ![c] = IF tries[c] < Attempts THEN "loaded" ELSE "gaveup"]
    BY <1>5 DEF ReloadHistory
  <2>2. ~open[c] /\ poster # c /\ Whole(c)
    BY <1>1, <2>1 DEF ViewOf, JoinerOf
  <2>3. /\ \A d \in Clients \ {c} : st'[d] = st[d] /\ via'[d] = via[d] /\ lag'[d] = lag[d]
        /\ via'[c] = "get" /\ ~lag'[c] /\ st'[c] \in {"loaded", "gaveup"}
    BY <1>2, <1>5, <2>1, <2>2 DEF ReloadHistory, Whole, links
  <2> QED
    BY <1>3, <1>5, <2>2, <2>3 DEF ReloadHistory, links
<1>6. CASE Refused(c) \/ NothingToJoin(c) \/ ToldIdle(c) \/ ToldToRetry(c)
  <2>1. /\ UNCHANGED <<server, poster, base, text, via, links>>
        /\ \A d \in Clients \ {c} : st'[d] = st[d]
        /\ st'[c] \in {"asking", "idle", "retry"} /\ st[c] \in {"loaded", "asking"}
    BY <1>2, <1>6 DEF Refused, NothingToJoin, ToldIdle, ToldToRetry, Retry, views
  <2>2. ~open[c] /\ poster # c
    BY <1>1, <2>1 DEF ViewOf, JoinerOf
  <2>3. Whole(c)' = Whole(c) /\ open' = open /\ rows' = rows
    BY <2>1 DEF Whole, links, server
  <2>4. JoinerOf(c)'
    BY <1>1, <2>1, <2>2, <2>3 DEF JoinerOf
  <2>5. ViewOf(c)'
    BY <1>1, <2>1, <2>2, <2>3 DEF ViewOf
  <2> QED
    BY <2>1, <2>4, <2>5, OneTab DEF links
<1>7. ASSUME NEW how \in {"get", "post"}, Subscribe(c, how), UNCHANGED <<server, base, text>>,
             poster' # c, \A d \in Clients \ {c} : poster' = d => poster = d,
             InOrder(chunks, Newest(text[c])),
             how = "get" => /\ status = "streaming" /\ Gapless(chunks, Newest(text[c]))
                            /\ text[c] = Pieces(Len(text[c]))
                            /\ Complete(chunks, Newest(text[c]), said)
      PROVE  CursorInv'
  <2>1. /\ st'[c] = "live" /\ via'[c] = how /\ replay'[c] = chunks /\ inbox'[c] = <<>>
        /\ text' = text
        /\ \A d \in Clients \ {c} : /\ st'[d] = st[d] /\ via'[d] = via[d] /\ lag'[d] = lag[d]
                                    /\ open'[d] = open[d] /\ replay'[d] = replay[d]
                                    /\ inbox'[d] = inbox[d]
    BY <1>2, <1>7 DEF Subscribe
  <2>2. open'[c] => status = "streaming"
    BY <1>2, <1>7 DEF Subscribe
  <2>3. Queued(c)' = chunks
    BY <2>1, ConcatEmptySeq DEF Queued
  <2>4. Whole(c)' => how = "get"
    BY <2>1 DEF Whole
  <2>5. Following(c)' => how = "get"
    BY <2>1 DEF Following
  <2>6. said' = said /\ status' = status
    BY <1>7 DEF server, buffer
  <2>7. QueueOf(c)'
    BY <1>1, <1>7, <2>1, <2>3, <2>4, <2>5, <2>6 DEF QueueOf, ReplayExact
  <2>8. ViewOf(c)'
    BY <1>7, <2>1, <2>2, <2>4, <2>6, <2>7 DEF ViewOf
  <2>9. JoinerOf(c)'
    BY <1>7, <2>1 DEF JoinerOf
  <2> QED
    BY <1>7, <2>1, <2>8, <2>9, OneTab
<1>8. CASE JoinStream(c)
  <2>1. /\ st[c] = "loaded" /\ status = "streaming" /\ base[c] = durable
        /\ Subscribe(c, "get") /\ UNCHANGED <<server, poster, base, text>>
    BY <1>2, <1>8 DEF JoinStream, Behind, Ahead, TypeOK, ServerType
  <2>2. poster # c /\ text[c] = Pieces(UptoAt(rows, durable))
    BY <1>1, <2>1 DEF JoinerOf
  <2>3. Newest(text[c]) = UptoAt(rows, durable) /\ text[c] = Pieces(Len(text[c]))
    <3> DEFINE n == UptoAt(rows, durable)
    <3>1. n \in Nat
      OBVIOUS
    <3>2. Len(Pieces(n)) = n /\ Newest(Pieces(n)) = n
      BY <3>1, PiecesFacts
    <3> HIDE DEF n
    <3>3. text[c] = Pieces(n)
      BY <2>2 DEF n
    <3> QED
      BY <3>2, <3>3 DEF n
  <2> QED
    BY <1>1, <1>7, <2>1, <2>2, <2>3 DEF ReplayExact
<1>9. CASE StreamAll(c)
  <2>1. /\ poster = c /\ pc # "posted" /\ poster' = Nobody
        /\ Subscribe(c, "post") /\ UNCHANGED <<server, base, text>>
    BY <1>9 DEF StreamAll
  <2>2. Newest(text[c]) <= UptoAt(rows, durable) /\ Newest(text[c]) \in Nat
    BY <1>1, <2>1, QueueType DEF JoinerOf
  <2>3. InOrder(chunks, Newest(text[c]))
    BY <1>1, <2>2, TextNumber DEF ReplayExact, InOrder
  <2> QED
    BY <1>7, <2>1, <2>3, StreamAssumption
<1>10. CASE Receive(c)
  <2> DEFINE q == Queued(c)
             have == Newest(text[c])
             f == q[1]
             now == IF IsText(f) THEN f.n ELSE have
  <2>1. /\ st[c] = "live" /\ q # <<>> /\ q \in Seq(Frames) /\ UNCHANGED <<server, poster, base, via, lag>>
        /\ have \in Nat /\ f = Head(q) /\ Len(text[c]) \in Nat /\ text[c] \in Seq(1..said)
    BY <1>10, QueueType DEF Receive
  <2>2. Queued(c)' = Tail(q)
    <3>1. replay[c] \in Seq(Frames) /\ inbox[c] \in Seq(Frames)
      BY QueueType
    <3>2. CASE replay[c] # <<>>
      <4>1. replay'[c] = Tail(replay[c]) /\ inbox' = inbox
        BY <1>2, <1>10, <3>2 DEF Receive
      <4>2. Tail(replay[c]) \o inbox[c] = Tail(replay[c] \o inbox[c])
        BY <3>1, <3>2, TailConcat
      <4> QED
        BY <4>1, <4>2 DEF Queued
    <3>3. CASE replay[c] = <<>>
      <4>1. inbox'[c] = Tail(inbox[c]) /\ replay' = replay
        BY <1>2, <1>10, <3>3 DEF Receive
      <4>2. replay[c] \o inbox[c] = inbox[c]
        BY <3>1, <3>3, ConcatEmptySeq
      <4>3. inbox[c] # <<>>
        BY <2>1, <4>2 DEF Queued
      <4>4. Tail(inbox[c]) \in Seq(Frames)
        BY <3>1, <4>3, HeadTailProperties
      <4>5. <<>> \o Tail(inbox[c]) = Tail(inbox[c])
        BY <4>4, ConcatEmptySeq
      <4> QED
        BY <3>3, <4>1, <4>2, <4>5 DEF Queued
    <3> QED
      BY <3>2, <3>3
  <2>3. /\ st'[c] \in {"live", "ended"} /\ (open'[c] => open[c] /\ st'[c] = "live")
        /\ text'[c] = IF IsText(f) THEN Append(text[c], f.n) ELSE text[c]
        /\ \A d \in Clients \ {c} : st'[d] = st[d] /\ open'[d] = open[d] /\ text'[d] = text[d]
    <3>1. /\ text' = IF IsText(f) THEN [text EXCEPT ![c] = Append(@, f.n)] ELSE text
          /\ st' = IF f.kind = "done" THEN [st EXCEPT ![c] = "ended"] ELSE st
          /\ open' = IF f.kind = "done" THEN [open EXCEPT ![c] = FALSE] ELSE open
      BY <1>10, <2>1 DEF Receive
    <3> HIDE DEF f
    <3>2. CASE f.kind = "done"
      BY <1>2, <2>1, <3>1, <3>2 DEF IsText
    <3>3. CASE f.kind # "done"
      <4>1. open' = open /\ st' = st
        BY <3>1, <3>3
      <4> QED
        BY <1>1, <1>2, <2>1, <3>1, <4>1 DEF ViewOf
    <3> QED
      BY <3>2, <3>3
  <2>4. \A d \in Clients \ {c} : replay'[d] = replay[d] /\ inbox'[d] = inbox[d]
    BY <1>2, <1>10 DEF Receive
  <2>5. /\ InOrder(q, have) /\ InRange(q, said) /\ (Whole(c) => Gapless(q, have))
        /\ (Following(c) => Complete(q, have, said)) /\ said' = said /\ status' = status
    BY <1>1, <2>1 DEF ViewOf, QueueOf, server, buffer
  <2>6. /\ InOrder(Tail(q), now) /\ InRange(Tail(q), said)
        /\ Whole(c) => Gapless(Tail(q), now) /\ (IsText(f) => f.n = have + 1)
        /\ Following(c) => Complete(Tail(q), now, said)
    <3> HIDE DEF q, have
    <3> QED
      BY <2>1, <2>5, TakeFrame
  <2>7. Newest(text'[c]) = now /\ (Whole(c) => text'[c] = Pieces(Len(text'[c])))
    <3>1. CASE ~IsText(f)
      BY <1>1, <2>3, <3>1 DEF ViewOf
    <3>2. CASE IsText(f)
      <4>1. f.n \in Nat
        BY <2>1, <3>2, TextNumber, EmptySeq, LenProperties
      <4>2. text[c] \in Seq(Nat)
        BY <2>1, SeqMonotonic
      <4>3. text'[c] = Append(text[c], f.n)
        BY <2>3, <3>2
      <4>4. Newest(text'[c]) = f.n
        <5> HIDE DEF f
        <5> QED
          BY <4>1, <4>2, <4>3, AppendNewest
      <4>5. ASSUME Whole(c)
            PROVE  text'[c] = Pieces(Len(text'[c]))
        <5> DEFINE m == Len(text[c])
        <5>1. text[c] = Pieces(m)
          BY <1>1, <4>5 DEF ViewOf
        <5>2. f.n = m + 1
          BY <2>6, <3>2, <4>5, <5>1, WholeNewest
        <5>3. m \in Nat /\ m + 1 \in Nat
          BY <2>1
        <5> HIDE DEF m, f
        <5>4. text'[c] = Pieces(m + 1)
          BY <4>3, <5>1, <5>2, <5>3, PiecesFacts
        <5>5. Len(Pieces(m + 1)) = m + 1
          BY <5>3, PiecesFacts
        <5> QED
          BY <5>4, <5>5
      <4> QED
        BY <3>2, <4>4, <4>5
    <3> QED
      BY <3>1, <3>2
  <2>8. Whole(c)' = Whole(c) /\ (Following(c)' => Following(c))
    BY <2>1, <2>3 DEF Whole, Following
  <2>9. QueueOf(c)'
    BY <2>2, <2>5, <2>6, <2>7, <2>8 DEF QueueOf
  <2>10. poster # c
    BY <1>1, <2>1 DEF JoinerOf
  <2>11. JoinerOf(c)'
    BY <2>1, <2>3, <2>10 DEF JoinerOf
  <2>12. ViewOf(c)'
    BY <1>1, <2>3, <2>5, <2>7, <2>8, <2>9 DEF ViewOf
  <2> QED
    BY <2>1, <2>3, <2>4, <2>11, <2>12, OneTab
<1>11. CASE EndOfStream(c)
  <2>1. /\ st[c] = "live" /\ ~open[c] /\ st' = [st EXCEPT ![c] = "ended"]
        /\ UNCHANGED <<server, poster, views, links>>
    BY <1>11 DEF EndOfStream
  <2>2. /\ UNCHANGED <<base, text, via, lag, open, replay, inbox>> /\ Whole(c)' = Whole(c)
        /\ st'[c] = "ended" /\ \A d \in Clients \ {c} : st'[d] = st[d]
    BY <1>2, <2>1 DEF views, links, Whole
  <2>3. poster # c
    BY <1>1, <2>1 DEF JoinerOf
  <2>4. JoinerOf(c)' /\ ViewOf(c)'
    BY <1>1, <2>1, <2>2, <2>3 DEF JoinerOf, ViewOf
  <2> QED
    BY <2>1, <2>2, <2>4, OneTab
<1>12. CASE Leave(c)
  <2>1. /\ UNCHANGED <<server, via>> /\ st'[c] = "off" /\ text'[c] = <<>> /\ ~open'[c]
        /\ poster' # c
        /\ \A d \in Clients \ {c} : /\ st'[d] = st[d] /\ base'[d] = base[d] /\ text'[d] = text[d]
                                    /\ lag'[d] = lag[d] /\ open'[d] = open[d]
                                    /\ replay'[d] = replay[d] /\ inbox'[d] = inbox[d]
                                    /\ (poster' = d => poster = d)
    BY <1>2, <1>12, StreamAssumption DEF Leave
  <2>2. Pieces(0) = <<>> /\ Len(<<>>) = 0
    BY DEF Pieces
  <2>3. JoinerOf(c)' /\ ViewOf(c)'
    BY <2>1, <2>2 DEF JoinerOf, ViewOf
  <2> QED
    BY <2>1, <2>3, OneTab
<1> QED
  BY <1>4, <1>5, <1>6, <1>8, <1>9, <1>10, <1>11, <1>12 DEF Asking, Reading
-----------------------------------------------------------------------------
(* The theorems                                                            *)

(* Nothing was said yet and no tab shows anything.                          *)
LEMMA CursorInit == Init => TypeOK /\ CursorInv
<1> SUFFICES ASSUME Init
             PROVE  TypeOK /\ CursorInv
  OBVIOUS
<1> USE StreamAssumption DEF Init
<1>1. Len(<<>>) = 0 /\ Pieces(0) = <<>>
  BY DEF Pieces
<1>2. \A T : <<>> \in Seq(T)
  BY EmptySeq
<1>3. Open(rows) = {}
  BY DEF Open, Declared, Resulted
<1>4. ServerType
  <2>1. rows \in Seq(RowType(said, subs)) /\ chunks \in Seq(Frames) /\ pub \in Seq(CallFrames)
    BY <1>2
  <2>2. said \in 0..MaxText /\ subs \in 0..MaxSub /\ run \in 0..NRuns /\ pc \in Labels
    BY DEF Labels
  <2>3. durable \in 0..Len(rows) /\ lastRow \in 0..Len(rows)
    BY <1>1
  <2>4. dirty \in BOOLEAN
    OBVIOUS
  <2>5. status \in {"none", "streaming", "complete"}
    OBVIOUS
  <2>6. timeline \in SUBSET (1..subs) /\ waiting \in SUBSET Calls
    OBVIOUS
  <2> HIDE DEF Init
  <2> QED
    BY <2>1, <2>2, <2>3, <2>4, <2>5, <2>6 DEF ServerType
<1>5. TabType
  BY <1>1, <1>2 DEF TabType, Places
<1>6. LinkType
  <2>1. <<>> \in {q \in Seq(Frames) : Len(q) <= Cap}
    BY <1>1, <1>2
  <2> QED
    BY <1>2, <2>1 DEF LinkType
<1>7. TableComplete
  BY <1>1 DEF TableComplete, Upto, UptoAt
<1>8. ReplayExact
  BY <1>1 DEF ReplayExact, InOrder, InRange
<1>9. JoinerKnows
  BY <1>1 DEF JoinerKnows, JoinerOf
<1>10. ViewInOrder
  BY <1>1 DEF ViewInOrder, ViewOf
<1> QED
  BY <1>4, <1>5, <1>6, <1>7, <1>8, <1>9, <1>10 DEF TypeOK, CursorInv

(* A step that changes nothing keeps everything.                            *)
LEMMA CursorStutter ==
  ASSUME TypeOK, CursorInv, UNCHANGED vars
  PROVE  (TypeOK /\ CursorInv)'
<1>1. /\ UNCHANGED <<rows, said, subs, status, durable, chunks, run, pc, pub, waiting, timeline>>
      /\ UNCHANGED <<dirty, lastRow, poster, st, base, tries, text, known, via, told>>
      /\ UNCHANGED <<open, replay, inbox, lag>> /\ UNCHANGED <<buffer, server, tabs, links>>
  BY DEF vars, buffer, agent, views, links, server, tabs
<1>2. TypeOK'
  BY <1>1 DEF TypeOK, ServerType, TabType, LinkType
<1>3. TableComplete' /\ ReplayExact'
  BY <1>1, SameReplay DEF CursorInv, TableComplete
<1>4. \A c \in Clients : JoinerOf(c)' /\ ViewOf(c)'
  BY <1>1, OtherTab
<1> QED
  BY <1>2, <1>3, <1>4 DEF CursorInv, JoinerKnows, ViewInOrder

(* The types and the cursor invariant are inductive together: that a tab    *)
(* shows pieces which exist needs the order of the frames on their way.    *)
LEMMA CursorInductive == TypeOK /\ CursorInv /\ [Next]_vars => (TypeOK /\ CursorInv)'
<1> SUFFICES ASSUME TypeOK, CursorInv, [Next]_vars
             PROVE  (TypeOK /\ CursorInv)'
  OBVIOUS
<1>1. CASE Begin
  BY <1>1, BeginType, BeginCursor
<1>2. CASE RunStep
  BY <1>2, RunStepType, RunStepCursor
<1>3. ASSUME NEW c \in Clients, LoadHistory(c) \/ Asking(c) \/ Reading(c) \/ Leave(c)
      PROVE  (TypeOK /\ CursorInv)'
  <2>1. ViewInOrder
    BY DEF CursorInv
  <2> QED
    BY <1>3, <2>1, TabStepType, TabStepCursor
<1>4. CASE UNCHANGED vars
  BY <1>4, CursorStutter
<1> QED
  BY <1>1, <1>2, <1>3, <1>4 DEF Next

(* Table, buffer, run, tabs and channels keep their types: a channel never  *)
(* holds more than Cap frames, and the durable frontier, a tab's cursor and *)
(* the sub-agent rows never point behind the end of the table.             *)
THEOREM CursorTypes == Spec => []TypeOK
<1>1. Init => TypeOK /\ CursorInv
  BY CursorInit
<1>2. TypeOK /\ CursorInv /\ [Next]_vars => (TypeOK /\ CursorInv)'
  BY CursorInductive
<1> QED
  BY <1>1, <1>2, PTL DEF Spec

(* The cursor invariant holds in every reachable state.                     *)
THEOREM CursorHolds == Spec => [](TypeOK /\ CursorInv)
<1>1. Init => TypeOK /\ CursorInv
  BY CursorInit
<1>2. TypeOK /\ CursorInv /\ [Next]_vars => (TypeOK /\ CursorInv)'
  BY CursorInductive
<1> QED
  BY <1>1, <1>2, PTL DEF Spec

(* What the cursor invariant says of a tab that follows the stream.         *)
LEMMA CursorExact == TypeOK /\ CursorInv => LiveViewExact
<1> SUFFICES ASSUME TypeOK, CursorInv, NEW c \in Clients, Following(c)
             PROVE  /\ text[c] = Pieces(Len(text[c]))
                    /\ InOrder(Queued(c), Len(text[c]))
                    /\ \A n \in 1..MaxText :
                         TextIn(Queued(c), n) <=> n \in (Len(text[c]) + 1)..said
  BY DEF LiveViewExact
<1> DEFINE q == Queued(c)
           have == Len(text[c])
<1>1. Whole(c) /\ st[c] = "live" /\ ViewOf(c)
  BY DEF Following, Whole, CursorInv, ViewInOrder
<1>2. text[c] = Pieces(have)
  BY <1>1 DEF ViewOf
<1>3. Newest(text[c]) = have
  BY <1>2, WholeNewest
<1>4. InOrder(q, have) /\ InRange(q, said) /\ Complete(q, have, said)
  BY <1>1, <1>3 DEF ViewOf, QueueOf
<1>5. q \in Seq(Frames) /\ have \in Nat /\ said \in Nat
  BY QueueType
<1>6. ASSUME NEW n \in 1..MaxText
      PROVE  TextIn(q, n) <=> n \in (have + 1)..said
  <2> HIDE DEF q, have
  <2>1. ASSUME TextIn(q, n)
        PROVE  n \in (have + 1)..said
    <3>1. n \in Nat /\ have < n /\ n <= said
      BY <1>4, <2>1, StreamAssumption DEF TextIn, InOrder, InRange
    <3> QED
      BY <1>5, <3>1
  <2>2. ASSUME n \in (have + 1)..said
        PROVE  TextIn(q, n)
    BY <1>4, <2>2 DEF Complete
  <2> QED
    BY <2>1, <2>2
<1> QED
  BY <1>2, <1>4, <1>6

(* A tab that joined by its cursor and lost no frame shows, together with   *)
(* what is on the way to it, exactly what the agent has said: StreamFrom   *)
(* admits a tab only where the table it read and the replay meet.          *)
THEOREM ExactView == Spec => []LiveViewExact
<1>1. Spec => [](TypeOK /\ CursorInv)
  BY CursorHolds
<1>2. TypeOK /\ CursorInv => LiveViewExact
  BY CursorExact
<1> QED
  BY <1>1, <1>2, PTL
-----------------------------------------------------------------------------
(* The refinement of Delivery                                              *)

(* The abstract value of `whole`.                                           *)
Intact == [c \in Clients |-> via[c] = "get" /\ ~lag[c]]

(* A frame that does not fit into a channel is a loss, and so is joining    *)
(* without a cursor.                                                       *)
LEMMA LosesSome ==
  ASSUME UNCHANGED text, said' \in {said, said + 1},
         \A c \in Clients : Whole(c)' => Whole(c)
  PROVE  Delivered!Next
<1> DEFINE L == {c \in Clients : ~Whole(c)'}
<1>1. Intact' = [c \in Clients |-> Intact[c] /\ c \notin L]
  BY DEF Intact, Whole
<1>2. L \in SUBSET Clients
  OBVIOUS
<1>3. Delivered!Losing
  BY <1>1, <1>2 DEF Delivered!Losing, Intact
<1> QED
  BY <1>3 DEF Delivered!Next, Delivered!Write, Delivered!Lose

(* What a run does to the tabs.                                             *)
LEMMA RunDelivers ==
  ASSUME TypeOK, Begin \/ RunStep
  PROVE  Delivered!Next
<1>1. ASSUME UNCHANGED links
      PROVE  UNCHANGED lag
  BY <1>1 DEF links
<1>2. ASSUME NEW f, Send(f)
      PROVE  \A c \in Clients : lag[c] => lag'[c]
  BY <1>2 DEF Send
<1>3. UNCHANGED <<text, via>> /\ said' \in {said, said + 1}
      /\ (UNCHANGED links \/ FinishBuffer \/ \E f : Send(f))
  <2>1. CASE Begin
    BY <2>1 DEF Begin, ResumeRun, StartRun, CreateAt, tabs, views
  <2>2. CASE RunStep
    <3>1. CASE StartCreate \/ EmptyMessage \/ Commit
      BY <3>1 DEF StartCreate, EmptyMessage, Commit, CreateAt, CommitBoundary, tabs, views
    <3>2. CASE Say \/ SubAgentSays \/ Interrupt \/ FinalFrame \/ Publish
      BY <3>2 DEF Say, SubAgentSays, Interrupt, FinalFrame, Publish, AppendFrame, PublishLive,
                  tabs, views
    <3>3. ASSUME NEW S \in SUBSET Calls, CloseMessage(S)
          PROVE  UNCHANGED <<text, via, said, links>>
      BY <3>3 DEF CloseMessage, tabs, views
    <3>4. ASSUME NEW c \in Calls, ToolResult(c) \/ CloseOpen(c)
          PROVE  UNCHANGED <<text, via, said, links>>
      BY <3>4 DEF ToolResult, CloseOpen, tabs, views
    <3>5. CASE FlushSubEvents \/ Published \/ Stop \/ KeepPartial \/ Closed \/ UpdateMetadata
      BY <3>5 DEF FlushSubEvents, Published, Stop, KeepPartial, Closed, UpdateMetadata, tabs,
                  views
    <3>6. CASE Finish
      BY <3>6 DEF Finish, tabs, views
    <3> QED
      BY <2>2, <3>1, <3>2, <3>3, <3>4, <3>5, <3>6 DEF RunStep
  <2> QED
    BY <2>1, <2>2
<1>4. \A c \in Clients : lag[c] => lag'[c]
  BY <1>1, <1>2, <1>3 DEF FinishBuffer
<1>5. \A c \in Clients : Whole(c)' => Whole(c)
  BY <1>3, <1>4 DEF Whole
<1> QED
  BY <1>3, <1>5, LosesSome

(* What a tab does to itself.                                               *)
LEMMA TabDelivers ==
  ASSUME TypeOK, CursorInv, NEW c \in Clients,
         LoadHistory(c) \/ Asking(c) \/ Reading(c) \/ Leave(c)
  PROVE  [Delivered!Next]_(Delivered!vars)
<1> USE TypeFacts
<1>1. JoinerOf(c) /\ ViewOf(c)
  BY DEF CursorInv, JoinerKnows, ViewInOrder
<1>2. /\ st \in [Clients -> Places] /\ text \in [Clients -> Seq(1..said)]
      /\ via \in [Clients -> {"get", "post"}] /\ lag \in [Clients -> BOOLEAN]
  BY DEF TypeOK, TabType, LinkType
<1>3. ASSUME NEW k \in 0..said, text' = [text EXCEPT ![c] = Pieces(k)], UNCHANGED said,
             Intact' \in {Intact, [Intact EXCEPT ![c] = TRUE]}
      PROVE  [Delivered!Next]_(Delivered!vars)
  <2>1. Pieces(k) = Delivered!Beginning(k)
    BY DEF Pieces, Delivered!Beginning
  <2>2. Delivered!Reload(c)
    BY <1>3, <2>1 DEF Delivered!Reload, Intact
  <2> QED
    BY <2>2 DEF Delivered!Next
<1>4. ASSUME UNCHANGED <<text, said>>, Intact' = Intact
      PROVE  [Delivered!Next]_(Delivered!vars)
  BY <1>4 DEF Delivered!vars, Intact
<1>5. CASE LoadHistory(c)
  <2>1. /\ via' = [via EXCEPT ![c] = "get"] /\ lag' = [lag EXCEPT ![c] = FALSE] /\ said' = said
        /\ text' = [text EXCEPT ![c] = Pieces(Upto(rows))]
    BY <1>5 DEF LoadHistory, Show, server
  <2>2. Intact' = [Intact EXCEPT ![c] = TRUE]
    BY <1>2, <2>1 DEF Intact
  <2> QED
    BY <1>3, <2>1, <2>2
<1>6. CASE ReloadHistory(c)
  <2>1. /\ UNCHANGED <<via, lag, said>> /\ text' = [text EXCEPT ![c] = Pieces(Upto(rows))]
    BY <1>6 DEF ReloadHistory, Show, server, links
  <2>2. Intact' = Intact
    BY <2>1 DEF Intact
  <2> QED
    BY <1>3, <2>1, <2>2
<1>7. CASE Leave(c)
  <2>1. /\ UNCHANGED <<via, said>> /\ lag' = [lag EXCEPT ![c] = FALSE]
        /\ text' = [text EXCEPT ![c] = <<>>]
    BY <1>7 DEF Leave, server
  <2>2. text' = [text EXCEPT ![c] = Pieces(0)] /\ 0 \in 0..said
    <3>1. <<>> = Pieces(0)
      BY DEF Pieces
    <3>2. text' = [text EXCEPT ![c] = Pieces(0)]
      BY <2>1, <3>1, Zenon
    <3>3. 0 \in 0..said
      OBVIOUS
    <3> QED
      BY <3>2, <3>3
  <2>3. CASE via[c] = "get"
    <3>1. Intact' = [Intact EXCEPT ![c] = TRUE]
      BY <1>2, <2>1, <2>3 DEF Intact
    <3> QED
      BY <1>3, <2>1, <2>2, <3>1
  <2>4. CASE via[c] # "get"
    <3>1. Intact' = Intact
      BY <1>2, <2>1, <2>4 DEF Intact
    <3> QED
      BY <1>3, <2>1, <2>2, <3>1
  <2> QED
    BY <2>3, <2>4
<1>8. CASE Refused(c) \/ NothingToJoin(c) \/ ToldIdle(c) \/ ToldToRetry(c) \/ EndOfStream(c)
  <2>1. UNCHANGED <<text, said, via, lag>>
    BY <1>8 DEF Refused, NothingToJoin, ToldIdle, ToldToRetry, EndOfStream, Retry, views, links,
                server
  <2> QED
    BY <1>4, <2>1 DEF Intact
<1>9. CASE JoinStream(c)
  <2>1. /\ UNCHANGED <<text, said>> /\ via' = [via EXCEPT ![c] = "get"]
        /\ lag' = [lag EXCEPT ![c] = FALSE] /\ st[c] = "loaded"
    BY <1>9 DEF JoinStream, Subscribe, server
  <2>2. via[c] = "get" /\ ~lag[c]
    BY <1>1, <2>1 DEF JoinerOf, Whole
  <2>3. via' = via /\ lag' = lag
    BY <1>2, <2>1, <2>2
  <2> QED
    BY <1>4, <2>1, <2>3 DEF Intact
<1>10. CASE StreamAll(c)
  <2>1. /\ UNCHANGED <<text, said>> /\ via' = [via EXCEPT ![c] = "post"]
        /\ lag' = [lag EXCEPT ![c] = FALSE]
    BY <1>10 DEF StreamAll, Subscribe, server
  <2>2. \A d \in Clients : Whole(d)' => Whole(d)
    BY <1>2, <2>1 DEF Whole
  <2> QED
    BY <2>1, <2>2, LosesSome
<1>11. CASE Receive(c)
  <2> DEFINE q == Queued(c)
             f == q[1]
             have == Newest(text[c])
  <2>1. /\ st[c] = "live" /\ q # <<>> /\ q \in Seq(Frames) /\ f = Head(q)
        /\ have \in 0..said /\ UNCHANGED <<said, via, lag>>
    BY <1>11, QueueType DEF Receive, server
  <2>2. text' = IF IsText(f) THEN [text EXCEPT ![c] = Append(@, f.n)] ELSE text
    BY <1>11, <2>1 DEF Receive
  <2>3. Intact' = Intact
    BY <2>1 DEF Intact
  <2>4. CASE ~IsText(f)
    BY <1>4, <2>1, <2>2, <2>3, <2>4
  <2>5. CASE IsText(f)
    <3>1. InOrder(q, have) /\ InRange(q, said) /\ (Whole(c) => Gapless(q, have))
      BY <1>1, <2>1 DEF ViewOf, QueueOf
    <3>2. 1 \in DOMAIN q /\ f.n \in Nat
      BY <2>1, <2>5, TextNumber, EmptySeq, LenProperties
    <3> HIDE DEF q, have
    <3>3. f.n > have /\ f.n \in 1..said /\ (Whole(c) => f.n = have + 1)
      BY <2>1, <2>5, <3>1, <3>2 DEF InOrder, InRange, Gapless
    <3>4. have = Delivered!Newest(text[c]) /\ Intact[c] = Whole(c)
      BY DEF have, Newest, Delivered!Newest, Intact, Whole
    <3>5. text' = [text EXCEPT ![c] = Append(@, f.n)]
      BY <2>2, <2>5
    <3> HIDE DEF f
    <3>6. Delivered!Extend(c)
      BY <2>1, <2>3, <3>3, <3>4, <3>5 DEF Delivered!Extend, Intact
    <3> QED
      BY <3>6 DEF Delivered!Next
  <2> QED
    BY <2>4, <2>5
<1> QED
  BY <1>5, <1>6, <1>7, <1>8, <1>9, <1>10, <1>11 DEF Asking, Reading

(* Every behaviour of the stream, its buffer and the tabs is one of         *)
(* Delivery: no tab ever shows a piece twice or before an earlier one, and *)
(* one that joined by its cursor shows a beginning of the text until the   *)
(* buffer drops a frame it was to be sent.                                 *)
THEOREM ImplementsDelivery == Spec => DeliverySpec
<1>1. Init => Delivered!Init
  <2> SUFFICES ASSUME Init
               PROVE  Delivered!Init
    OBVIOUS
  <2>1. \A c \in Clients : via[c] = "get" /\ ~lag[c]
    BY DEF Init
  <2>2. said = 0 /\ text = [c \in Clients |-> <<>>]
    BY DEF Init
  <2> QED
    BY <2>1, <2>2 DEF Delivered!Init
<1>2. TypeOK /\ CursorInv /\ [Next]_vars => [Delivered!Next]_(Delivered!vars)
  <2> SUFFICES ASSUME TypeOK, CursorInv, [Next]_vars
               PROVE  [Delivered!Next]_(Delivered!vars)
    OBVIOUS
  <2>1. CASE Begin \/ RunStep
    BY <2>1, RunDelivers
  <2>2. ASSUME NEW c \in Clients, LoadHistory(c) \/ Asking(c) \/ Reading(c) \/ Leave(c)
        PROVE  [Delivered!Next]_(Delivered!vars)
    BY <2>2, TabDelivers
  <2>3. CASE UNCHANGED vars
    <3>1. UNCHANGED <<said, text, via, lag>>
      BY <2>3 DEF vars, views, links
    <3> QED
      BY <3>1 DEF Delivered!vars
  <2> QED
    BY <2>1, <2>2, <2>3 DEF Next
<1>3. Spec => [](TypeOK /\ CursorInv)
  BY CursorHolds
<1> QED
  BY <1>1, <1>2, <1>3, PTL DEF Spec, DeliverySpec, Delivered!Spec


-----------------------------------------------------------------------------
(* No call is missing                                                      *)

(* The frames of a queue; the call and result frames that a row stands for, *)
(* and those that are published for it.                                    *)
Elems(q) == {q[i] : i \in DOMAIN q}

FramesOf(r, ends) ==
  {Calling(x) : x \in {y \in r.calls : r.role = "assistant"}}
    \cup {Result(x) : x \in {y \in r.calls : r.role \in ends}}

Noted(r) == FramesOf(r, {"tool", "closed"})
Sent(r)  == FramesOf(r, {"tool"})

NotedAt(h, n) == UNION {Noted(h[i]) : i \in 1..n}

(* Frames are published for rows that are durable, after their boundary.    *)
AgentCalls ==
  /\ pc \notin {"flush", "commit", "publish"} => pub = <<>>
  /\ pc # "rest" => run > 0
  /\ status = "streaming" => \A i \in (durable + 1)..Len(rows) : Sent(rows[i]) \subseteq Elems(pub)
  /\ Resulted(rows) \subseteq Declared(rows)

(* A tab about to join shows the calls of the rows it has read; one that    *)
(* follows has every call of the table, or will be sent it; one that was   *)
(* told that nothing goes on shows all there is.                           *)
CallsOf(c) ==
  /\ told[c] <= run
  /\ st[c] \in {"loaded", "asking"} => known[c] = NotedAt(rows, base[c])
  /\ Following(c) =>
       \A i \in 1..Len(rows) : Sent(rows[i]) \subseteq known[c] \cup Elems(Queued(c)) \cup Elems(pub)
  /\ st[c] = "idle" /\ told[c] = run => pc = "rest" /\ text[c] = Pieces(said) /\ known[c] = Shown(rows)

CallsInv == AgentCalls /\ \A c \in Clients : CallsOf(c)

(* Parallel calls are published one after the other, each of them.          *)
LEMMA OrdersAll ==
  ASSUME NEW S \in SUBSET Calls, NEW q \in Orders({Calling(c) : c \in S})
  PROVE  Elems(q) = {Calling(c) : c \in S}
<1> DEFINE F == {Calling(c) : c \in S}
<1>1. IsFiniteSet(S)
  BY FS_Subset, StreamAssumption
<1>2. IsFiniteSet(F)
  <2>1. [c \in S |-> Calling(c)] \in Surjection(S, F)
    BY DEF Surjection
  <2> QED
    BY <1>1, <2>1, FS_Surjection
<1> DEFINE n == Cardinality(F)
<1>3. n \in Nat
  BY <1>2, FS_CardinalityType
<1>4. q \in [1..n -> F] /\ \A i, j \in 1..n : i # j => q[i] # q[j]
  BY DEF Orders
<1> HIDE DEF F
<1>5. Cardinality(1..n) = n
  BY <1>3, FS_Interval
<1> HIDE DEF n
<1>6. q \in Injection(1..n, F)
  BY <1>4 DEF Injection, IsInjective
<1>7. q \in Surjection(1..n, F)
  BY <1>2, <1>5, <1>6, FS_Injection DEF n
<1>8. Elems(q) = F
  BY <1>4, <1>7 DEF Elems, Surjection
<1> QED
  BY <1>8 DEF F

(* What is in a queue after a frame is put in or taken out.                 *)
LEMMA ElemsFacts ==
  ASSUME NEW q \in Seq(Frames), NEW f \in Frames
  PROVE  /\ Elems(Append(q, f)) = Elems(q) \cup {f}
         /\ q # <<>> => Elems(q) = {Head(q)} \cup Elems(Tail(q))
<1>1. Len(q) \in Nat /\ DOMAIN q = 1..Len(q)
  BY LenProperties
<1>2. /\ DOMAIN Append(q, f) = 1..(Len(q) + 1)
      /\ \A i \in 1..Len(q) : Append(q, f)[i] = q[i]
      /\ Append(q, f)[Len(q) + 1] = f
  BY AppendProperties, LenProperties
<1>3. Elems(Append(q, f)) = Elems(q) \cup {f}
  <2> DEFINE g == Append(q, f)
  <2>1. DOMAIN g = 1..(Len(q) + 1) /\ (\A i \in 1..Len(q) : g[i] = q[i]) /\ g[Len(q) + 1] = f
    BY <1>2
  <2> HIDE DEF g
  <2>2. Elems(g) \subseteq Elems(q) \cup {f}
    BY <1>1, <2>1 DEF Elems
  <2>3. Elems(q) \subseteq Elems(g) /\ f \in Elems(g)
    BY <1>1, <2>1 DEF Elems
  <2> QED
    BY <2>2, <2>3 DEF g
<1>4. ASSUME q # <<>> PROVE Elems(q) = {Head(q)} \cup Elems(Tail(q))
  <2> DEFINE t == Tail(q)
  <2>1. /\ Len(q) >= 1 /\ DOMAIN t = 1..(Len(q) - 1) /\ Head(q) = q[1]
        /\ \A i \in 1..(Len(q) - 1) : t[i] = q[i + 1]
    BY <1>1, <1>4, HeadTailProperties, LenProperties, EmptySeq
  <2> HIDE DEF t
  <2>2. \A i \in DOMAIN q : i = 1 \/ (i - 1 \in DOMAIN t /\ t[i - 1] = q[i])
    BY <1>1, <2>1
  <2>3. \A i \in DOMAIN t : i + 1 \in DOMAIN q /\ q[i + 1] = t[i]
    BY <1>1, <2>1
  <2>4. Elems(q) \subseteq {Head(q)} \cup Elems(t)
    BY <2>1, <2>2 DEF Elems
  <2>5. {Head(q)} \cup Elems(t) \subseteq Elems(q)
    BY <1>1, <2>1, <2>3 DEF Elems
  <2> QED
    BY <2>4, <2>5 DEF t
<1> QED
  BY <1>3, <1>4

(* The page shows what every row of the table stands for.                   *)
LEMMA ShownIsNoted ==
  ASSUME NEW h, DOMAIN h = 1..Len(h)
  PROVE  Shown(h) = NotedAt(h, Len(h))
<1>1. ASSUME NEW f \in Shown(h) PROVE f \in NotedAt(h, Len(h))
  <2>1. CASE \E x \in Declared(h) : f = Calling(x)
    <3>1. PICK i \in DOMAIN h : h[i].role = "assistant" /\ \E x \in h[i].calls : f = Calling(x)
      BY <2>1 DEF Declared
    <3> QED
      BY <3>1 DEF NotedAt, Noted, FramesOf
  <2>2. CASE \E x \in Resulted(h) : f = Result(x)
    <3>1. PICK i \in DOMAIN h : h[i].role \in {"tool", "closed"} /\ \E x \in h[i].calls : f = Result(x)
      BY <2>2 DEF Resulted
    <3> QED
      BY <3>1 DEF NotedAt, Noted, FramesOf
  <2> QED
    BY <1>1, <2>1, <2>2 DEF Shown
<1>2. ASSUME NEW f \in NotedAt(h, Len(h)) PROVE f \in Shown(h)
  <2>1. PICK i \in DOMAIN h : f \in Noted(h[i])
    BY <1>2 DEF NotedAt
  <2>2. CASE \E x \in h[i].calls : h[i].role = "assistant" /\ f = Calling(x)
    BY <2>2 DEF Shown, Declared
  <2>3. CASE \E x \in h[i].calls : h[i].role \in {"tool", "closed"} /\ f = Result(x)
    BY <2>3 DEF Shown, Resulted
  <2> QED
    BY <2>1, <2>2, <2>3 DEF Noted, FramesOf
<1> QED
  BY <1>1, <1>2

(* Rows that have their calls stand for the same frames.                    *)
LEMMA SameRows ==
  ASSUME NEW g, NEW h, NEW n \in Nat,
         \A i \in 1..n : g[i].role = h[i].role /\ g[i].calls = h[i].calls
  PROVE  /\ \A m \in 0..n : NotedAt(g, m) = NotedAt(h, m)
         /\ \A i \in 1..n : Sent(g[i]) = Sent(h[i])
<1>1. \A i \in 1..n : Sent(g[i]) = Sent(h[i]) /\ Noted(g[i]) = Noted(h[i])
  BY DEF Sent, Noted, FramesOf
<1>2. ASSUME NEW m \in 0..n PROVE NotedAt(g, m) = NotedAt(h, m)
  <2>1. \A i \in 1..m : Noted(g[i]) = Noted(h[i])
    BY <1>1
  <2> QED
    BY <2>1 DEF NotedAt
<1> QED
  BY <1>1, <1>2

(* The tables that the runs and the tabs agree on.                          *)
LEMMA RowsDomain ==
  ASSUME TypeOK
  PROVE  Len(rows) \in Nat /\ DOMAIN rows = 1..Len(rows) /\ Shown(rows) = NotedAt(rows, Len(rows))
<1>1. Len(rows) \in Nat /\ DOMAIN rows = 1..Len(rows)
  BY TypeFacts, LenProperties
<1> QED
  BY <1>1, ShownIsNoted

(* What the invariant says of every call is what a reader wants to know.    *)
LEMMA CallsComplete == TypeOK /\ CallsInv => TabsAreComplete
<1> SUFFICES ASSUME TypeOK, CallsInv PROVE TabsAreComplete
  OBVIOUS
<1>1. ASSUME NEW c \in Clients, Following(c)
      PROVE  LET arriving == {Queued(c)[i] : i \in DOMAIN Queued(c)} \cup {pub[i] : i \in DOMAIN pub}
                 closed   == {Result(x) : x \in Declared(rows) \ Answered(rows)}
             IN  Shown(rows) \subseteq known[c] \cup arriving \cup closed
  <2> DEFINE have == known[c] \cup Elems(Queued(c)) \cup Elems(pub)
  <2>1. \A i \in 1..Len(rows) : Sent(rows[i]) \subseteq have
    BY <1>1 DEF CallsInv, CallsOf
  <2> HIDE DEF have
  <2>2. ASSUME NEW x \in Declared(rows) PROVE Calling(x) \in have
    <3>1. PICK i \in 1..Len(rows) : rows[i].role = "assistant" /\ x \in rows[i].calls
      BY RowsDomain DEF Declared
    <3> QED
      BY <2>1, <3>1 DEF Sent, FramesOf
  <2>3. ASSUME NEW x \in Resulted(rows) PROVE Result(x) \in have \/ x \in Declared(rows) \ Answered(rows)
    <3>1. CASE x \in Answered(rows)
      <4>1. PICK i \in 1..Len(rows) : rows[i].role = "tool" /\ x \in rows[i].calls
        BY <3>1, RowsDomain DEF Answered
      <4> QED
        BY <2>1, <4>1 DEF Sent, FramesOf
    <3> QED
      BY <3>1 DEF CallsInv, AgentCalls
  <2> QED
    BY <2>2, <2>3 DEF Shown, have, Elems
<1>2. CallsArrive
  BY <1>1 DEF CallsArrive
<1>3. IdleIsComplete
  BY DEF CallsInv, CallsOf, IdleIsComplete
<1> QED
  BY <1>2, <1>3 DEF TabsAreComplete


(* A step of the server that takes nothing away from the tabs: what is      *)
(* published reaches them, unless the channel is full.                     *)
LEMMA RunKeepsCalls ==
  ASSUME TypeOK, CallsInv, UNCHANGED <<base, text, known, via, told>>,
         \A c \in Clients : st'[c] \in {st[c], "posting"},
         run' \in Nat, run' >= run, run' = run => pc # "rest",
         Len(rows') \in Nat, Len(rows) <= Len(rows'),
         \A i \in 1..Len(rows) : rows'[i].role = rows[i].role /\ rows'[i].calls = rows[i].calls,
         \A i \in 1..Len(rows') : i > Len(rows) => Sent(rows'[i]) \subseteq Elems(pub'),
         \A c \in Clients :
           /\ open'[c] => open[c]
           /\ lag[c] => lag'[c]
           /\ Following(c)' => /\ Elems(Queued(c)) \subseteq Elems(Queued(c)')
                               /\ Elems(pub) \subseteq Elems(Queued(c)') \cup Elems(pub')
  PROVE  \A c \in Clients : CallsOf(c)'
<1> SUFFICES ASSUME NEW c \in Clients PROVE CallsOf(c)'
  OBVIOUS
<1>1. /\ CallsOf(c) /\ Len(rows) \in Nat /\ base[c] \in 0..Len(rows) /\ run \in Nat /\ told[c] \in Nat
  BY RowsDomain, StreamAssumption DEF CallsInv, TypeOK, TabType, ServerType
<1>2. /\ \A m \in 0..Len(rows) : NotedAt(rows', m) = NotedAt(rows, m)
      /\ \A i \in 1..Len(rows) : Sent(rows'[i]) = Sent(rows[i])
  BY ZenonT(40), <1>1, SameRows
<1>3. told'[c] <= run'
  BY <1>1 DEF CallsOf
<1>4. st'[c] \in {"loaded", "asking"} => known'[c] = NotedAt(rows', base'[c])
  BY <1>1, <1>2 DEF CallsOf
<1>5. ASSUME Following(c)', NEW i \in 1..Len(rows')
      PROVE  Sent(rows'[i]) \subseteq known'[c] \cup Elems(Queued(c)') \cup Elems(pub')
  <2>1. Following(c)
    BY <1>5 DEF Following
  <2>2. CASE i <= Len(rows)
    <3>1. i \in 1..Len(rows)
      BY <1>1, <2>2
    <3>2. Sent(rows[i]) \subseteq known[c] \cup Elems(Queued(c)) \cup Elems(pub)
      BY <1>1, <2>1, <3>1 DEF CallsOf
    <3>3. Sent(rows'[i]) = Sent(rows[i]) /\ known' = known
      BY <1>2, <3>1
    <3> QED
      BY <1>5, <3>2, <3>3
  <2>3. CASE i > Len(rows)
    BY <2>3
  <2> QED
    BY <1>1, <2>2, <2>3
<1>6. ~(st'[c] = "idle" /\ told'[c] = run')
  BY <1>1 DEF CallsOf
<1> QED
  BY <1>3, <1>4, <1>5, <1>6 DEF CallsOf

(* What becomes of calls and results when a row is appended.                *)
LEMMA AppendedCalls ==
  ASSUME TypeOK, NEW role \in {"user", "assistant", "tool", "closed"}, NEW u \in 0..said,
         NEW S \in SUBSET Calls, rows' = Append(rows, Row(role, u, S))
  PROVE  /\ Len(rows') = Len(rows) + 1 /\ Len(rows) \in Nat /\ DOMAIN rows' = 1..(Len(rows) + 1)
         /\ \A i \in 1..Len(rows) : rows'[i] = rows[i]
         /\ rows'[Len(rows) + 1].role = role /\ rows'[Len(rows) + 1].calls = S
         /\ Declared(rows') = Declared(rows) \cup (IF role = "assistant" THEN S ELSE {})
         /\ Resulted(rows') = Resulted(rows) \cup (IF role \in {"tool", "closed"} THEN S ELSE {})
<1> DEFINE r == Row(role, u, S)
<1>1. r \in RowType(said, subs) /\ r.role = role /\ r.calls = S
  BY TypeFacts, RowIsRow DEF Row
<1> HIDE DEF r
<1>2. rows \in Seq(RowType(said, subs)) /\ rows' = Append(rows, r)
  BY TypeFacts DEF r
<1>3. /\ Len(rows') = Len(rows) + 1 /\ Len(rows) \in Nat /\ DOMAIN rows' = 1..(Len(rows) + 1)
      /\ DOMAIN rows = 1..Len(rows)
      /\ \A i \in 1..Len(rows) : rows'[i] = rows[i]
      /\ rows'[Len(rows) + 1] = r
  BY <1>1, <1>2, AppendProperties, LenProperties
<1> DEFINE n == Len(rows) + 1
<1>4. n \notin DOMAIN rows /\ n \in Nat /\ DOMAIN rows' = DOMAIN rows \cup {n} /\ rows'[n] = r
      /\ \A i \in DOMAIN rows : rows'[i] = rows[i]
  BY <1>3
<1> HIDE DEF n
<1>5. Declared(rows') = Declared(rows) \cup (IF role = "assistant" THEN S ELSE {})
  <2>1. \A x : x \in Declared(rows') <=> \E i \in DOMAIN rows' : rows'[i].role = "assistant" /\ x \in rows'[i].calls
    BY DEF Declared
  <2>2. \A x : x \in Declared(rows) <=> \E i \in DOMAIN rows : rows[i].role = "assistant" /\ x \in rows[i].calls
    BY DEF Declared
  <2> QED
    BY <1>1, <1>4, <2>1, <2>2
<1>6. Resulted(rows') = Resulted(rows) \cup (IF role \in {"tool", "closed"} THEN S ELSE {})
  <2>1. \A x : x \in Resulted(rows') <=> \E i \in DOMAIN rows' : rows'[i].role \in {"tool", "closed"} /\ x \in rows'[i].calls
    BY DEF Resulted
  <2>2. \A x : x \in Resulted(rows) <=> \E i \in DOMAIN rows : rows[i].role \in {"tool", "closed"} /\ x \in rows[i].calls
    BY DEF Resulted
  <2> QED
    BY <1>1, <1>4, <2>1, <2>2
<1> QED
  BY <1>1, <1>3, <1>5, <1>6

(* Sub-agent events change no call.                                         *)
LEMMA SavedCalls ==
  ASSUME TypeOK, SaveTimeline
  PROVE  /\ Len(rows') = Len(rows) /\ DOMAIN rows' = 1..Len(rows)
         /\ \A i \in 1..Len(rows) : rows'[i].role = rows[i].role /\ rows'[i].calls = rows[i].calls
         /\ Declared(rows') = Declared(rows) /\ Resulted(rows') = Resulted(rows)
<1> DEFINE target == IF lastRow = 0 THEN LatestAssistant(rows) ELSE lastRow
<1>1. rows' = rows \/ rows' = [rows EXCEPT ![target].subs = timeline]
  BY DEF SaveTimeline
<1> HIDE DEF target
<1>2. /\ Len(rows') = Len(rows) /\ DOMAIN rows' = 1..Len(rows) /\ DOMAIN rows = 1..Len(rows)
  BY SaveTimelineRows, TypeFacts, LenProperties
<1>3. \A i \in 1..Len(rows) : rows[i] \in RowType(said, subs)
  BY TypeFacts, ElementOfSeq
<1>4. \A i \in 1..Len(rows) : rows'[i].role = rows[i].role /\ rows'[i].calls = rows[i].calls
  BY <1>1, <1>2, <1>3 DEF RowType
<1>5. Declared(rows') = Declared(rows) /\ Resulted(rows') = Resulted(rows)
  BY <1>2, <1>4 DEF Declared, Resulted
<1> QED
  BY <1>2, <1>4, <1>5

(* Every step that writes the table or the stream keeps the calls in line.  *)
LEMMA BeginCalls ==
  ASSUME TypeOK, CursorInv, CallsInv, Begin
  PROVE  CallsInv'
<1>1. /\ Len(rows) \in Nat /\ run \in Nat /\ AgentCalls /\ TableComplete /\ pc = "rest"
      /\ pub = <<>> /\ DOMAIN rows = 1..Len(rows)
  BY RowsDomain, StreamAssumption DEF TypeOK, ServerType, CallsInv, CursorInv, Begin, ResumeRun, StartRun, AgentCalls
<1>2. run' = run + 1 /\ UNCHANGED <<base, text, known, via, told, pub, open, replay, inbox, lag>>
  BY DEF Begin, StartRun, ResumeRun, NewRun, CreateAt, tabs, views, links
<1>3. \A c \in Clients : Queued(c)' = Queued(c)
  BY <1>2 DEF Queued
<1>4. ASSUME NEW p \in Clients \cup {Nobody}, StartRun(p) PROVE CallsInv'
  <2>1. /\ rows' = Append(rows, Row("user", said, {})) /\ status' = status /\ pc' = "posted"
        /\ st' = [c \in Clients |-> IF c = p THEN "posting" ELSE st[c]]
        /\ {} \in SUBSET Calls /\ said \in 0..said
    BY <1>4, TypeFacts DEF StartRun, buffer, Goto
  <2>2. /\ Len(rows') = Len(rows) + 1 /\ \A i \in 1..Len(rows) : rows'[i] = rows[i]
        /\ rows'[Len(rows) + 1].role = "user" /\ rows'[Len(rows) + 1].calls = {}
        /\ Declared(rows') = Declared(rows) /\ Resulted(rows') = Resulted(rows)
    BY <2>1, AppendedCalls
  <2>3. \A i \in 1..Len(rows') : i > Len(rows) => Sent(rows'[i]) = {}
    BY <1>1, <2>2 DEF Sent, FramesOf
  <2>4. AgentCalls'
    BY <1>1, <1>2, <2>1, <2>2 DEF AgentCalls, TableComplete
  <2>5. \A c \in Clients : st'[c] \in {st[c], "posting"}
    BY <2>1
  <2>6. \A c \in Clients : CallsOf(c)'
    BY <1>1, <1>2, <1>3, <2>2, <2>3, <2>5, RunKeepsCalls
  <2> QED
    BY <2>4, <2>6 DEF CallsInv
<1>5. CASE ResumeRun
  <2>1. UNCHANGED <<rows, st>> /\ durable' = Len(rows) /\ pc' = "loop"
    BY <1>5 DEF ResumeRun, CreateAt, tabs, Goto
  <2>2. AgentCalls'
    BY <1>1, <1>2, <2>1 DEF AgentCalls
  <2>3. \A c \in Clients : CallsOf(c)'
    BY <1>1, <1>2, <1>3, <2>1, RunKeepsCalls
  <2> QED
    BY <2>2, <2>3 DEF CallsInv
<1> QED
  BY <1>4, <1>5 DEF Begin


(* The steps of a run: what it publishes goes from pub into the channels of *)
(* those that follow, or they are no longer said to follow.                *)
LEMMA RunStepCalls ==
  ASSUME TypeOK, CursorInv, CallsInv, RunStep
  PROVE  CallsInv'
<1>1. /\ Len(rows) \in Nat /\ run \in Nat /\ AgentCalls /\ TableComplete /\ DOMAIN rows = 1..Len(rows)
      /\ durable \in 0..Len(rows) /\ pub \in Seq(CallFrames) /\ Elems(<<>>) = {}
  BY RowsDomain, StreamAssumption DEF TypeOK, ServerType, CallsInv, CursorInv, Elems
<1>2. run' = run /\ UNCHANGED <<st, base, text, known, via, told>> /\ pc # "rest" /\ run > 0
  <2>1. run' = run /\ UNCHANGED <<st, base, text, known, via, told>> /\ pc # "rest"
    BY DEF RunStep, StartCreate, Say, SubAgentSays, EmptyMessage, CloseMessage, ToolResult, CloseOpen,
           FlushSubEvents, Commit, Publish, Published, Interrupt, Stop, KeepPartial, Closed, UpdateMetadata,
           FinalFrame, Finish, agent, tabs, views
  <2> QED
    BY <1>1, <2>1 DEF AgentCalls
<1>3. ASSUME UNCHANGED links PROVE \A c \in Clients : Queued(c)' = Queued(c) /\ open'[c] = open[c] /\ lag'[c] = lag[c]
  BY <1>3 DEF Queued, links
<1>4. ASSUME UNCHANGED <<rows, pub, links>> PROVE \A c \in Clients : CallsOf(c)'
  BY <1>1, <1>2, <1>3, <1>4, RunKeepsCalls
<1>5. CASE StartCreate \/ Commit \/ Published \/ Stop \/ Closed
  <2>1. UNCHANGED <<rows, pub, links>>
    BY <1>5 DEF StartCreate, CreateAt, Commit, CommitBoundary, Published, Stop, Closed
  <2>2. (StartCreate \/ Commit => durable' = Len(rows)) /\ (Published \/ Stop \/ Closed => UNCHANGED <<durable, status>>)
    BY <1>1 DEF StartCreate, CreateAt, Commit, CommitBoundary, Published, Stop, Closed, buffer
  <2>3. \A i \in (Len(rows) + 1)..Len(rows) : FALSE
    BY <1>1
  <2>4. AgentCalls'
    <3>1. pc' \notin {"flush", "commit", "publish"} => pub' = <<>>
      BY <1>1, <1>5, <2>1 DEF AgentCalls, StartCreate, Commit, Published, Stop, Closed, Goto
    <3>2. status' = "streaming" => \A i \in (durable' + 1)..Len(rows') : Sent(rows'[i]) \subseteq Elems(pub')
      BY <1>1, <1>5, <2>1, <2>2, <2>3 DEF AgentCalls
    <3> QED
      BY <1>1, <1>2, <2>1, <3>1, <3>2 DEF AgentCalls
  <2> QED
    BY <1>4, <2>1, <2>4 DEF CallsInv
<1>6. CASE EmptyMessage
  <2>1. UNCHANGED <<rows, pub, links, status>> /\ durable' = durable /\ pc = "loop" /\ pc' = "partial"
    BY <1>1, <1>6 DEF EmptyMessage, CommitBoundary, Goto
  <2>2. AgentCalls'
    BY <1>1, <1>2, <2>1 DEF AgentCalls
  <2> QED
    BY <1>4, <2>1, <2>2 DEF CallsInv
<1>7. CASE Say \/ SubAgentSays \/ Interrupt \/ FinalFrame
  <2>1. PICK f \in Frames : AppendFrame(f)
    BY <1>7, FramesType DEF Say, SubAgentSays, Interrupt, FinalFrame
  <2>2. Send(f) /\ UNCHANGED <<status, durable, rows, pub>>
    BY <1>7, <2>1 DEF AppendFrame, Say, SubAgentSays, Interrupt, FinalFrame, agent
  <2>3. pc \notin {"flush", "commit", "publish"} /\ pc' \notin {"flush", "commit", "publish"}
    BY <1>7 DEF Say, SubAgentSays, Interrupt, FinalFrame, agent, Goto
  <2>4. ASSUME NEW c \in Clients
        PROVE  (open'[c] => open[c]) /\ (lag[c] => lag'[c]) /\ (Following(c)' => Elems(Queued(c)) \subseteq Elems(Queued(c)'))
    <3>1. Queued(c)' = Queued(c) \/ Queued(c)' = Append(Queued(c), f)
      BY <2>2, SendQueue
    <3>2. Elems(Queued(c)) \subseteq Elems(Queued(c)')
      <4>1. Queued(c) \in Seq(Frames)
        BY QueueType
      <4>2. Elems(Append(Queued(c), f)) = Elems(Queued(c)) \cup {f}
        BY <4>1, ElemsFacts
      <4>3. CASE Queued(c)' = Queued(c)
        BY <4>3
      <4>4. CASE Queued(c)' = Append(Queued(c), f)
        BY <4>2, <4>4
      <4> QED
        BY <3>1, <4>3, <4>4
    <3> QED
      BY <2>2, <3>2, SendQueue
  <2>5. \A c \in Clients : CallsOf(c)'
    BY <1>1, <1>2, <2>2, <2>4, RunKeepsCalls
  <2>6. AgentCalls'
    BY <1>1, <1>2, <2>2, <2>3 DEF AgentCalls
  <2> QED
    BY <2>5, <2>6 DEF CallsInv
<1>8. ASSUME NEW S \in SUBSET Calls, NEW role \in {"assistant", "tool", "closed"}, NEW u \in 0..said,
             rows' = Append(rows, Row(role, u, S)), pub = <<>>,
             S = {} \/ \/ role = "assistant" /\ Elems(pub') = {Calling(x) : x \in S}
                       \/ role = "tool" /\ Elems(pub') = {Result(x) : x \in S} /\ S \subseteq Declared(rows)
                       \/ role = "closed" /\ S \subseteq Declared(rows),
             UNCHANGED <<buffer, links>>, pc \in {"loop", "partial", "close"},
             pc' \notin {"flush", "commit", "publish"} => pub' = <<>>,
             pc = "loop" \/ S = {} \/ role = "closed"
      PROVE  CallsInv'
  <2>1. /\ Len(rows') = Len(rows) + 1 /\ \A i \in 1..Len(rows) : rows'[i] = rows[i]
        /\ rows'[Len(rows) + 1].role = role /\ rows'[Len(rows) + 1].calls = S
        /\ Declared(rows') = Declared(rows) \cup (IF role = "assistant" THEN S ELSE {})
        /\ Resulted(rows') = Resulted(rows) \cup (IF role \in {"tool", "closed"} THEN S ELSE {})
    BY <1>8, AppendedCalls
  <2>2. Sent(rows'[Len(rows) + 1]) \subseteq Elems(pub')
    BY <1>8, <2>1 DEF Sent, FramesOf
  <2>3. \A i \in 1..Len(rows') : i > Len(rows) => Sent(rows'[i]) \subseteq Elems(pub')
    BY <1>1, <2>1, <2>2
  <2>4. \A c \in Clients : CallsOf(c)'
    <3>1. \A c \in Clients : Queued(c)' = Queued(c) /\ open'[c] = open[c] /\ lag'[c] = lag[c]
      BY <1>3, <1>8
    <3>2. Elems(pub) = {}
      BY <1>1, <1>8
    <3> QED
      BY <1>1, <1>2, <2>1, <2>3, <3>1, <3>2, RunKeepsCalls
  <2>5. Resulted(rows') \subseteq Declared(rows')
    BY <1>1, <1>8, <2>1 DEF AgentCalls
  <2>6. \A i \in (durable + 1)..Len(rows') : i \in 1..Len(rows')
    BY <1>1, <2>1
  <2>7. status = "streaming" => \A i \in (durable + 1)..Len(rows') : Sent(rows'[i]) \subseteq Elems(pub')
    <3>1. ASSUME status = "streaming", NEW i \in (durable + 1)..Len(rows), i # Len(rows) + 1
          PROVE  Sent(rows'[i]) \subseteq Elems(pub')
      <4>1. Sent(rows[i]) \subseteq Elems(pub)
        BY <1>1, <3>1 DEF AgentCalls
      <4>2. rows'[i] = rows[i]
        BY <1>1, <2>1
      <4> QED
        BY <1>1, <1>8, <4>1, <4>2
    <3> QED
      BY <1>1, <2>1, <2>3, <2>6, <3>1
  <2>8. AgentCalls'
    BY <1>1, <1>2, <1>8, <2>5, <2>7 DEF AgentCalls, buffer
  <2> QED
    BY <2>4, <2>8 DEF CallsInv
<1>9. ASSUME NEW S \in SUBSET Calls, CloseMessage(S) PROVE CallsInv'
  <2>1. /\ rows' = Append(rows, Row("assistant", said, S)) /\ pc = "loop" /\ pc' = "commit"
        /\ pub' \in Orders({Calling(c) : c \in S}) /\ UNCHANGED <<buffer, links>> /\ said \in 0..said
    BY <1>9, TypeFacts DEF CloseMessage, Goto
  <2>2. pub = <<>> /\ Elems(pub') = {Calling(c) : c \in S}
    BY <1>1, <2>1, OrdersAll DEF AgentCalls
  <2> QED
    BY <1>8, <2>1, <2>2
<1>10. ASSUME NEW c \in Calls, ToolResult(c) PROVE CallsInv'
  <2>1. /\ rows' = Append(rows, Row("tool", Upto(rows), {c})) /\ pc = "loop" /\ pc' = "flush"
        /\ pub' = <<Result(c)>> /\ UNCHANGED <<buffer, links>> /\ Upto(rows) \in 0..said /\ c \in Declared(rows)
        /\ {c} \in SUBSET Calls
    BY <1>10, TypeFacts DEF ToolResult, Goto, Open
  <2>2. pub = <<>> /\ Elems(pub') = {Result(x) : x \in {c}}
    BY <1>1, <2>1 DEF AgentCalls, Elems
  <2> QED
    BY <1>8, <2>1, <2>2
<1>11. ASSUME NEW c \in Calls, CloseOpen(c) PROVE CallsInv'
  <2>1. /\ rows' = Append(rows, Row("closed", Upto(rows), {c})) /\ pc = "close" /\ pc' = "close" /\ pub' = pub
        /\ UNCHANGED <<buffer, links>> /\ Upto(rows) \in 0..said /\ c \in Declared(rows) /\ {c} \in SUBSET Calls
    BY <1>11, TypeFacts DEF CloseOpen, Open, agent
  <2>2. pub = <<>>
    BY <1>1, <2>1 DEF AgentCalls
  <2> QED
    BY <1>8, <2>1, <2>2
<1>12. CASE KeepPartial
  <2>1. /\ pc = "partial" /\ pc' = "close" /\ pub' = pub /\ UNCHANGED <<buffer, links>> /\ said \in 0..said
        /\ {} \in SUBSET Calls
    BY <1>12, TypeFacts DEF KeepPartial, Goto
  <2>2. pub = <<>>
    BY <1>1, <2>1 DEF AgentCalls
  <2>3. CASE rows' = Append(rows, Row("assistant", said, {}))
    BY <1>8, <2>1, <2>2, <2>3
  <2>4. CASE rows' = rows
    <3>1. AgentCalls'
      BY <1>1, <1>2, <2>1, <2>2, <2>4 DEF AgentCalls, buffer
    <3> QED
      BY <1>4, <2>1, <2>4, <3>1 DEF CallsInv
  <2> QED
    BY <1>12, <2>3, <2>4 DEF KeepPartial
<1>13. CASE FlushSubEvents \/ UpdateMetadata
  <2>1. SaveTimeline /\ UNCHANGED <<pub, buffer, links>>
        /\ (pc' \notin {"flush", "commit", "publish"} => pc \notin {"flush", "commit", "publish"})
    BY <1>13 DEF FlushSubEvents, UpdateMetadata, Goto
  <2>2. /\ Len(rows') = Len(rows) /\ DOMAIN rows' = 1..Len(rows)
        /\ \A i \in 1..Len(rows) : rows'[i].role = rows[i].role /\ rows'[i].calls = rows[i].calls
        /\ Declared(rows') = Declared(rows) /\ Resulted(rows') = Resulted(rows)
    BY <2>1, SavedCalls
  <2>3. \A i \in (durable + 1)..Len(rows) : Sent(rows'[i]) = Sent(rows[i])
    <3>1. \A i \in 1..Len(rows) : Sent(rows'[i]) = Sent(rows[i])
      BY <1>1, <2>2, SameRows
    <3> QED
      BY <1>1, <3>1
  <2>4. AgentCalls'
    BY <1>1, <1>2, <2>1, <2>2, <2>3 DEF AgentCalls, buffer
  <2>5. \A c \in Clients : CallsOf(c)'
    BY <1>1, <1>2, <1>3, <2>1, <2>2, RunKeepsCalls
  <2> QED
    BY <2>4, <2>5 DEF CallsInv
<1>14. CASE Publish
  <2> DEFINE f == Head(pub)
  <2>1. /\ Send(f) /\ UNCHANGED <<rows, buffer, pc>> /\ pub # <<>> /\ pub' = Tail(pub) /\ pc = "publish"
    BY <1>14 DEF Publish, PublishLive
  <2>2. f \in Frames /\ pub \in Seq(Frames)
    <3>1. f \in CallFrames
      BY <1>1, <2>1, HeadTailProperties
    <3>2. CallFrames \subseteq Frames
      BY DEF Frames
    <3> QED
      BY <1>1, <3>1, <3>2, SeqMonotonic
  <2>3. Elems(pub) = {f} \cup Elems(pub')
    BY <2>1, <2>2, ElemsFacts
  <2> HIDE DEF f
  <2>4. durable = Len(rows)
    BY <1>1, <2>1 DEF TableComplete
  <2>5. AgentCalls'
    <3>1. \A i \in (durable + 1)..Len(rows) : FALSE
      BY <1>1, <2>4
    <3> QED
      BY <1>1, <1>2, <2>1, <3>1 DEF AgentCalls, buffer
  <2>6. ASSUME NEW c \in Clients
        PROVE  /\ open'[c] => open[c]
               /\ lag[c] => lag'[c]
               /\ Following(c)' => /\ Elems(Queued(c)) \subseteq Elems(Queued(c)')
                                   /\ Elems(pub) \subseteq Elems(Queued(c)') \cup Elems(pub')
    <3>1. (open'[c] => open[c]) /\ (lag[c] => lag'[c])
      BY <2>1, <2>2, SendQueue
    <3>2. ASSUME Following(c)' PROVE Elems(Queued(c)') = Elems(Queued(c)) \cup {f}
      <4>1. Queued(c)' = Append(Queued(c), f)
        BY <2>1, <2>2, <3>2, SendQueue DEF Following
      <4> QED
        BY <2>2, <4>1, QueueType, ElemsFacts
    <3> QED
      BY <2>3, <3>1, <3>2
  <2>7. \A c \in Clients : CallsOf(c)'
    BY <1>1, <1>2, <2>1, <2>6, RunKeepsCalls
  <2> QED
    BY <2>5, <2>7 DEF CallsInv
<1>15. CASE Finish
  <2>1. UNCHANGED <<rows, pub, replay, inbox, lag>> /\ status' = "complete" /\ open' = [c \in Clients |-> FALSE]
        /\ pc = "finish"
    BY <1>15 DEF Finish, FinishBuffer
  <2>2. AgentCalls'
    BY <1>1, <1>2, <2>1 DEF AgentCalls
  <2>3. \A c \in Clients : ~open'[c] /\ ~Following(c)' /\ lag'[c] = lag[c]
    BY <2>1 DEF Following
  <2>4. \A c \in Clients : CallsOf(c)'
    BY <1>1, <1>2, <2>1, <2>3, RunKeepsCalls
  <2> QED
    BY <2>2, <2>4 DEF CallsInv
<1> QED
  BY <1>5, <1>6, <1>7, <1>9, <1>10, <1>11, <1>12, <1>13, <1>14, <1>15 DEF RunStep


(* A step of one tab takes nothing away from another one.                   *)
LEMMA OtherTabCalls ==
  ASSUME CallsInv, NEW d \in Clients, UNCHANGED server,
         st'[d] = st[d], base'[d] = base[d], text'[d] = text[d], known'[d] = known[d],
         told'[d] = told[d], via'[d] = via[d], lag'[d] = lag[d], open'[d] = open[d],
         replay'[d] = replay[d], inbox'[d] = inbox[d]
  PROVE  CallsOf(d)'
<1>1. rows' = rows /\ said' = said /\ run' = run /\ pc' = pc /\ pub' = pub /\ CallsOf(d)
  BY DEF server, CallsInv
<1>2. Queued(d)' = Queued(d) /\ Following(d)' = Following(d)
  BY DEF Queued, Following
<1> QED
  BY <1>1, <1>2 DEF CallsOf

LEMMA OneTabCalls ==
  ASSUME CallsInv, NEW c \in Clients, UNCHANGED server,
         \A d \in Clients \ {c} :
           /\ st'[d] = st[d] /\ base'[d] = base[d] /\ text'[d] = text[d] /\ known'[d] = known[d]
           /\ told'[d] = told[d] /\ via'[d] = via[d] /\ lag'[d] = lag[d] /\ open'[d] = open[d]
           /\ replay'[d] = replay[d] /\ inbox'[d] = inbox[d],
         CallsOf(c)'
  PROVE  CallsInv'
<1>1. \A d \in Clients : CallsOf(d)'
  BY OtherTabCalls
<1>2. AgentCalls'
  BY DEF CallsInv, AgentCalls, server, buffer
<1> QED
  BY <1>1, <1>2 DEF CallsInv

(* The first frame of what is queued is taken.                              *)
LEMMA ReceiveQueue ==
  ASSUME TypeOK, NEW c \in Clients, Receive(c)
  PROVE  Queued(c) # <<>> /\ Queued(c)' = Tail(Queued(c))
<1>1. /\ replay[c] \in Seq(Frames) /\ inbox[c] \in Seq(Frames) /\ Queued(c) # <<>>
      /\ DOMAIN replay = Clients /\ DOMAIN inbox = Clients
  BY QueueType DEF Receive, TypeOK, LinkType
<1>2. CASE replay[c] # <<>>
  <2>1. replay'[c] = Tail(replay[c]) /\ inbox' = inbox
    BY <1>1, <1>2 DEF Receive
  <2>2. Tail(replay[c]) \o inbox[c] = Tail(replay[c] \o inbox[c])
    BY <1>1, <1>2, TailConcat
  <2> QED
    BY <1>1, <2>1, <2>2 DEF Queued
<1>3. CASE replay[c] = <<>>
  <2>1. inbox'[c] = Tail(inbox[c]) /\ replay' = replay
    BY <1>1, <1>3 DEF Receive
  <2>2. replay[c] \o inbox[c] = inbox[c]
    BY <1>1, <1>3, ConcatEmptySeq
  <2>3. Tail(inbox[c]) \in Seq(Frames)
    BY <1>1, <2>2, HeadTailProperties DEF Queued
  <2>4. <<>> \o Tail(inbox[c]) = Tail(inbox[c])
    BY <2>3, ConcatEmptySeq
  <2> QED
    BY <1>1, <1>3, <2>1, <2>2, <2>4 DEF Queued
<1> QED
  BY <1>2, <1>3

(* What a tab does: to load and to join leaves it with all the calls, and a *)
(* frame that it receives becomes known.                                   *)
LEMMA TabStepCalls ==
  ASSUME TypeOK, CursorInv, CallsInv, NEW c \in Clients,
         LoadHistory(c) \/ Asking(c) \/ Reading(c) \/ Leave(c)
  PROVE  CallsInv'
<1>1. /\ JoinerOf(c) /\ TableComplete /\ CallsOf(c) /\ AgentCalls
      /\ Len(rows) \in Nat /\ DOMAIN rows = 1..Len(rows) /\ Shown(rows) = NotedAt(rows, Len(rows))
      /\ run \in Nat /\ durable \in 0..Len(rows)
  BY RowsDomain, StreamAssumption DEF CursorInv, JoinerKnows, CallsInv, TypeOK, ServerType
<1>2. /\ DOMAIN st = Clients /\ DOMAIN base = Clients /\ DOMAIN text = Clients /\ DOMAIN known = Clients
      /\ DOMAIN via = Clients /\ DOMAIN told = Clients /\ DOMAIN open = Clients /\ DOMAIN lag = Clients
      /\ DOMAIN replay = Clients /\ DOMAIN inbox = Clients /\ base[c] \in 0..Len(rows)
  BY DEF TypeOK, TabType, LinkType
<1>3. UNCHANGED server
  BY DEF LoadHistory, Asking, Reading, Leave, JoinStream, Refused, NothingToJoin, ToldIdle, ToldToRetry,
         ReloadHistory, StreamAll, Receive, EndOfStream
<1>4. rows' = rows /\ said' = said /\ run' = run /\ pc' = pc /\ pub' = pub
  BY <1>3 DEF server
<1>5. ASSUME Show(c, rows), UNCHANGED <<told, open, replay, inbox>>, st'[c] \in {"loaded", "gaveup"},
             \A d \in Clients \ {c} : st'[d] = st[d] /\ via'[d] = via[d] /\ lag'[d] = lag[d]
      PROVE  CallsInv'
  <2>1. /\ base'[c] = Len(rows) /\ known'[c] = Shown(rows)
        /\ \A d \in Clients \ {c} : base'[d] = base[d] /\ text'[d] = text[d] /\ known'[d] = known[d]
    BY <1>2, <1>5 DEF Show
  <2>2. known'[c] = NotedAt(rows', base'[c])
    BY <1>1, <1>4, <2>1
  <2>3. CallsOf(c)'
    BY <1>1, <1>4, <1>5, <2>2 DEF CallsOf, Following
  <2> QED
    BY <1>3, <1>5, <2>1, <2>3, OneTabCalls
<1>6. CASE LoadHistory(c)
  <2>1. /\ Show(c, rows) /\ UNCHANGED <<told, open, replay, inbox>> /\ st'[c] = "loaded"
        /\ \A d \in Clients \ {c} : st'[d] = st[d] /\ via'[d] = via[d] /\ lag'[d] = lag[d]
    BY <1>2, <1>6 DEF LoadHistory
  <2> QED
    BY <1>5, <2>1
<1>7. CASE ReloadHistory(c)
  <2>1. /\ Show(c, rows) /\ UNCHANGED <<told, via, open, replay, inbox, lag>>
        /\ st' = [st EXCEPT ![c] = IF tries[c] < Attempts THEN "loaded" ELSE "gaveup"]
    BY <1>7 DEF ReloadHistory, links
  <2>2. st'[c] \in {"loaded", "gaveup"} /\ \A d \in Clients \ {c} : st'[d] = st[d]
    BY <1>2, <2>1
  <2> QED
    BY <1>5, <2>1, <2>2
<1>8. CASE Refused(c) \/ NothingToJoin(c) \/ ToldToRetry(c)
  <2>1. /\ UNCHANGED <<base, text, known, via, told, open, replay, inbox, lag>>
        /\ st[c] \in {"loaded", "asking"} /\ st'[c] \in {"asking", "retry"}
        /\ \A d \in Clients \ {c} : st'[d] = st[d]
    BY <1>2, <1>8 DEF Refused, NothingToJoin, ToldToRetry, Retry, views, links
  <2>2. CallsOf(c)'
    BY <1>1, <1>4, <2>1 DEF CallsOf, Following
  <2> QED
    BY <1>3, <2>1, <2>2, OneTabCalls
<1>9. CASE ToldIdle(c)
  <2>1. /\ UNCHANGED <<base, text, known, via, open, replay, inbox, lag>>
        /\ st[c] = "asking" /\ st'[c] = "idle" /\ base[c] = Len(rows)
        /\ told'[c] = IF pc = "rest" THEN run ELSE 0
        /\ \A d \in Clients \ {c} : st'[d] = st[d] /\ told'[d] = told[d]
    BY <1>2, <1>9 DEF ToldIdle, CaughtUp, links
  <2>2. known[c] = Shown(rows)
    BY <1>1, <2>1 DEF CallsOf
  <2>3. told'[c] = run => pc = "rest"
    BY <1>1, <2>1 DEF AgentCalls
  <2>4. pc = "rest" => text[c] = Pieces(said)
    BY <1>1, <2>1 DEF JoinerOf, TableComplete, Upto
  <2>5. CallsOf(c)'
    BY <1>1, <1>4, <2>1, <2>2, <2>3, <2>4 DEF CallsOf, Following
  <2> QED
    BY <1>3, <2>1, <2>5, OneTabCalls
<1>10. CASE JoinStream(c)
  <2>1. /\ UNCHANGED <<base, text, known, told>> /\ st[c] = "loaded" /\ status = "streaming"
        /\ st'[c] = "live" /\ base[c] = durable
        /\ \A d \in Clients \ {c} : /\ st'[d] = st[d] /\ via'[d] = via[d] /\ lag'[d] = lag[d]
                                    /\ open'[d] = open[d] /\ replay'[d] = replay[d] /\ inbox'[d] = inbox[d]
    BY <1>1, <1>2, <1>10 DEF JoinStream, Subscribe, Behind, Ahead
  <2>2. ASSUME NEW i \in 1..Len(rows) PROVE Sent(rows[i]) \subseteq known[c] \cup Elems(pub)
    <3>1. CASE i <= durable
      <4>1. Sent(rows[i]) \subseteq Noted(rows[i])
        BY DEF Sent, Noted, FramesOf
      <4>2. Noted(rows[i]) \subseteq NotedAt(rows, durable)
        BY <1>1, <3>1 DEF NotedAt
      <4>3. known[c] = NotedAt(rows, durable)
        BY <1>1, <2>1 DEF CallsOf
      <4> QED
        BY <4>1, <4>2, <4>3
    <3>2. CASE i > durable
      <4>1. i \in (durable + 1)..Len(rows)
        BY <1>1, <3>2
      <4> QED
        BY <1>1, <2>1, <4>1 DEF AgentCalls
    <3> QED
      BY <1>1, <3>1, <3>2
  <2>3. CallsOf(c)'
    BY <1>1, <1>4, <2>1, <2>2 DEF CallsOf
  <2> QED
    BY <1>3, <2>1, <2>3, OneTabCalls
<1>11. CASE StreamAll(c)
  <2>1. /\ UNCHANGED <<base, text, known, told>> /\ st'[c] = "live" /\ via'[c] = "post"
        /\ \A d \in Clients \ {c} : /\ st'[d] = st[d] /\ via'[d] = via[d] /\ lag'[d] = lag[d]
                                    /\ open'[d] = open[d] /\ replay'[d] = replay[d] /\ inbox'[d] = inbox[d]
    BY <1>2, <1>11 DEF StreamAll, Subscribe
  <2>2. CallsOf(c)'
    BY <1>1, <1>4, <2>1 DEF CallsOf, Following
  <2> QED
    BY <1>3, <2>1, <2>2, OneTabCalls
<1>12. CASE Receive(c)
  <2> DEFINE q == Queued(c)
             f == Head(q)
  <2>1. /\ UNCHANGED <<base, via, told, lag>> /\ st[c] = "live" /\ q \in Seq(Frames) /\ q # <<>>
        /\ Queued(c)' = Tail(q)
    BY <1>12, QueueType, ReceiveQueue DEF Receive
  <2>2. /\ text' = IF IsText(f) THEN [text EXCEPT ![c] = Append(@, f.n)] ELSE text
        /\ known' = IF f.kind \in {"call", "result"} THEN [known EXCEPT ![c] = @ \cup {f}] ELSE known
        /\ st' = IF f.kind = "done" THEN [st EXCEPT ![c] = "ended"] ELSE st
        /\ open' = IF f.kind = "done" THEN [open EXCEPT ![c] = FALSE] ELSE open
    <3>1. f = Head(Queued(c))
      OBVIOUS
    <3> HIDE DEF f
    <3> QED
      BY <1>12, <3>1 DEF Receive
  <2>3. Elems(q) = {f} \cup Elems(Tail(q)) /\ f \in Frames
    <3>1. f \in Frames
      BY <2>1, HeadTailProperties
    <3> QED
      BY <2>1, <3>1, ElemsFacts
  <2> HIDE DEF f
  <2>4. \A d \in Clients \ {c} : /\ st'[d] = st[d] /\ text'[d] = text[d] /\ known'[d] = known[d]
                                 /\ open'[d] = open[d] /\ replay'[d] = replay[d] /\ inbox'[d] = inbox[d]
    <3>1. \A d \in Clients \ {c} : replay'[d] = replay[d] /\ inbox'[d] = inbox[d]
      <4>1. \/ replay' = [replay EXCEPT ![c] = Tail(@)] /\ inbox' = inbox
            \/ inbox' = [inbox EXCEPT ![c] = Tail(@)] /\ replay' = replay
        BY <1>12 DEF Receive
      <4>2. CASE replay' = [replay EXCEPT ![c] = Tail(@)] /\ inbox' = inbox
        BY <1>2, <4>2
      <4>3. CASE inbox' = [inbox EXCEPT ![c] = Tail(@)] /\ replay' = replay
        BY <1>2, <4>3
      <4> QED
        BY <4>1, <4>2, <4>3
    <3>2. \A d \in Clients \ {c} : st'[d] = st[d] /\ open'[d] = open[d]
      BY <2>2
    <3>3. \A d \in Clients \ {c} : text'[d] = text[d] /\ known'[d] = known[d]
      BY <2>2
    <3> QED
      BY <3>1, <3>2, <3>3
  <2> HIDE DEF q
  <2>5. /\ known[c] \subseteq known'[c] /\ (f.kind \in {"call", "result"} => f \in known'[c])
        /\ st'[c] \in {"live", "ended"} /\ (open'[c] => open[c])
    BY <1>2, <2>1, <2>2
  <2>6. ASSUME Following(c)', NEW i \in 1..Len(rows)
        PROVE  Sent(rows[i]) \subseteq known'[c] \cup Elems(Tail(q)) \cup Elems(pub)
    <3>1. Following(c)
      BY <2>1, <2>5, <2>6 DEF Following
    <3>2. Sent(rows[i]) \subseteq known[c] \cup Elems(q) \cup Elems(pub)
      BY <1>1, <3>1 DEF CallsOf, q
    <3>3. \A x \in Sent(rows[i]) : x.kind \in {"call", "result"}
      BY DEF Sent, FramesOf, Calling, Result, Frame
    <3> QED
      BY <2>3, <2>5, <3>2, <3>3
  <2>7. CallsOf(c)'
    <3>1. told'[c] <= run'
      BY <1>1, <1>4, <2>1 DEF CallsOf
    <3> QED
      BY <1>4, <2>1, <2>5, <2>6, <3>1 DEF CallsOf
  <2> QED
    BY <1>3, <2>1, <2>4, <2>7, OneTabCalls
<1>13. CASE EndOfStream(c)
  <2>1. /\ UNCHANGED <<base, text, known, via, told, open, replay, inbox, lag>> /\ st'[c] = "ended"
        /\ \A d \in Clients \ {c} : st'[d] = st[d]
    BY <1>2, <1>13 DEF EndOfStream, views, links
  <2>2. CallsOf(c)'
    BY <1>1, <1>4, <2>1 DEF CallsOf, Following
  <2> QED
    BY <1>3, <2>1, <2>2, OneTabCalls
<1>14. CASE Leave(c)
  <2>1. /\ UNCHANGED <<via, told>> /\ st'[c] = "off"
        /\ \A d \in Clients \ {c} : /\ st'[d] = st[d] /\ base'[d] = base[d] /\ text'[d] = text[d]
                                    /\ known'[d] = known[d] /\ lag'[d] = lag[d] /\ open'[d] = open[d]
                                    /\ replay'[d] = replay[d] /\ inbox'[d] = inbox[d]
    BY <1>2, <1>14 DEF Leave
  <2>2. CallsOf(c)'
    BY <1>1, <1>4, <2>1 DEF CallsOf, Following
  <2> QED
    BY <1>3, <2>1, <2>2, OneTabCalls
<1> QED
  BY <1>6, <1>7, <1>8, <1>9, <1>10, <1>11, <1>12, <1>13, <1>14 DEF Asking, Reading

(* Nothing was called yet.                                                  *)
LEMMA CallsInit == Init => CallsInv
<1> SUFFICES ASSUME Init PROVE CallsInv
  OBVIOUS
<1>1. Len(<<>>) = 0 /\ Resulted(rows) = {}
  BY DEF Init, Resulted
<1>2. AgentCalls
  BY <1>1 DEF Init, AgentCalls
<1>3. \A c \in Clients : CallsOf(c)
  BY DEF Init, CallsOf, Following
<1> QED
  BY <1>2, <1>3 DEF CallsInv

(* The calls need the cursor: that a tab which joins has read every row in   *)
(* front of the frontier, and that what it was told at rest is all there is. *)
LEMMA CallsInductive == TypeOK /\ CursorInv /\ CallsInv /\ [Next]_vars => CallsInv'
<1> SUFFICES ASSUME TypeOK, CursorInv, CallsInv, [Next]_vars
             PROVE  CallsInv'
  OBVIOUS
<1>1. CASE UNCHANGED vars
  <2>1. /\ UNCHANGED <<rows, said, run, pc, pub, status, durable, st, base, text, known, via, told>>
        /\ UNCHANGED <<open, replay, inbox, lag, server>>
    BY <1>1 DEF vars, agent, buffer, views, links, server
  <2>2. \A c \in Clients : CallsOf(c)'
    BY <2>1, OtherTabCalls
  <2> QED
    BY <2>1, <2>2 DEF CallsInv, AgentCalls
<1> QED
  BY <1>1, BeginCalls, RunStepCalls, TabStepCalls DEF Next

(* No call and no result is ever missing: a tab that follows a run has, or   *)
(* is about to be sent, every call and result that the table holds (a frame  *)
(* that is published live is never replayed), and a tab that was told that   *)
(* there is no run shows the whole conversation until the next one begins.   *)
THEOREM TabsComplete == Spec => []TabsAreComplete
<1>1. Init => CallsInv
  BY CallsInit
<1>2. TypeOK /\ CursorInv /\ CallsInv /\ [Next]_vars => CallsInv'
  BY CallsInductive
<1>3. TypeOK /\ CallsInv => TabsAreComplete
  BY CallsComplete
<1>4. Spec => [](TypeOK /\ CursorInv)
  BY CursorHolds
<1> QED
  BY <1>1, <1>2, <1>3, <1>4, PTL DEF Spec
=============================================================================
