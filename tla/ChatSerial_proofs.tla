-------------------------- MODULE ChatSerial_proofs --------------------------
(***************************************************************************)
(* Proofs about ChatRun when the user takes one thing after the other: no  *)
(* answer arrives before the run that asked has closed its stream, and no  *)
(* message is posted from two windows at once.  Errors, cancels, crashes,  *)
(* messages over pending interrupts and failing resumes stay possible.     *)
(***************************************************************************)
EXTENDS ChatRun_proofs

(* What the theorems below assume of the user.                             *)
Serial  == "early_answer" \notin Allowed /\ "double_post" \notin Allowed
Patient == Serial /\ "answers_together" \notin Allowed

Busy(r) == pc[r] \notin AtRest

(* One goroutine at a time drives the conversation, and none while the     *)
(* process is down.                                                        *)
OneAtATime ==
  /\ \A r, q \in Runs : Busy(r) /\ Busy(q) => r = q
  /\ ~up => Quiet /\ pend = <<>>

NothingPends == {"starting", "loop", "restatus", "install", "resuming", "load"}
Emitting     == {"emit", "insert", "mark"}
Resuming     == {"resolved", "restatus", "install", "resuming", "load"}
Pends(c)     == \E i \in DOMAIN pend : pend[i].call = c

(* What waits, in memory and in the table, was asked by the saved          *)
(* checkpoint; the table holds no more than the memory, except while a     *)
(* handler empties the one after the other; and nothing is left of either  *)
(* when the runner is started.                                             *)
PendingInv ==
  /\ \A i \in DOMAIN pend : ckpt[pend[i].call] = "asked"
  /\ \A i \in DOMAIN pendDB : ckpt[pendDB[i]] = "asked"
  /\ \A i, j \in DOMAIN pendDB : pendDB[i] = pendDB[j] => i = j
  /\ \A r \in Runs : pc[r] \in NothingPends \cup {"cleared", "resolved"} => pend = <<>>
  /\ \A r \in Runs : pc[r] \in NothingPends => pendDB = <<>>
  /\ \A r \in Runs : pc[r] = "resolved" => \A i \in DOMAIN pendDB : pendDB[i] \in todo[r]
  /\ up /\ (\A r \in Runs : pc[r] \notin {"cleared", "resolved"})
       => \A i \in DOMAIN pendDB : Pends(pendDB[i])
  /\ \A r \in Runs : pc[r] \in Emitting => \A c \in emit[r] \cup now[r] : ckpt[c] = "asked"
  /\ \A r \in Runs : pc[r] = "insert" => \A c \in now[r] : Pends(c)
  /\ \A r \in Runs : pc[r] \notin {"insert", "mark"} => now[r] = {}

(* The checkpoint can still be re-entered.                                 *)
Active ==
  \/ pend # <<>> \/ pendDB # <<>>
  \/ \E r \in Runs : pc[r] \in Emitting \cup Resuming

InHand(r, c) == call[r][c] \in {"called", "asked"}

(* A call that may still run is in the hands of one run, or in a           *)
(* checkpoint that can be re-entered, and has not run.                     *)
OneHolder ==
  \A c \in Calls :
    /\ \A r \in Runs : InHand(r, c) => execs[c] = 0 /\ \A q \in Runs : InHand(q, c) => q = r
    /\ Active /\ ckpt[c] = "asked" => execs[c] = 0 /\ \A r \in Runs : ~InHand(r, c)

-----------------------------------------------------------------------------
(* One run at a time                                                       *)

(* Every step of a run but a tool's belongs to a run that is busy, and     *)
(* moves no other one.                                                     *)
LEMMA StepsAreBusy ==
  ASSUME TypeOK, NEW r \in Runs, RunStep(r), ~(\E c \in Calls : RunTool(r, c))
  PROVE  /\ Busy(r) /\ UNCHANGED <<up, late>>
         /\ \A q \in Runs : q # r => pc'[q] = pc[q]
<1> USE DEF Busy, AtRest, handler, Goto
<1>0. pc \in [Runs -> Labels]
  BY DEF TypeOK
<1>1. CASE ListPrior(r) \/ StoreUser(r) \/ StartCreate(r) \/ ClearPending(r)
           \/ ClearPendingRows(r) \/ DropPendingRow(r) \/ ResumeRead(r) \/ ResumeWrite(r)
           \/ ResumeCreate(r)
  BY <1>0, <1>1 DEF ListPrior, StoreUser, StartCreate, CreateBuffer, ClearPending,
     ClearPendingRows, DropPendingRow, ResumeRead, ResumeWrite, ResumeCreate
<1>2. CASE BeginRun(r) \/ BeginResume(r) \/ LoadCheckpoint(r) \/ LoadFails(r)
           \/ DeclareCalls(r) \/ Reply(r) \/ Interrupt(r)
  BY <1>0, <1>2 DEF BeginRun, BeginResume, LoadCheckpoint, LoadFails, DeclareCalls, Reply,
     Interrupt
<1>3. ASSUME NEW c \in Calls, AskUser(r, c) \/ DeliverResult(r, c) \/ Record(r, c)
      PROVE  /\ Busy(r) /\ UNCHANGED <<up, late>>
             /\ \A q \in Runs : q # r => pc'[q] = pc[q]
  BY <1>0, <1>3 DEF AskUser, DeliverResult, Record
<1>4. CASE InsertPendingRow(r) \/ MarkWaiting(r) \/ Exhaust(r) \/ Fail(r) \/ Abandon(r)
  BY <1>0, <1>4 DEF InsertPendingRow, MarkWaiting, Exhaust, Fail, Abandon
<1>5. CASE Settling(r)
  BY <1>0, <1>5 DEF Settling, CheckPending, KeepPartial, ScanOpen, CloseOpen, ReadHead,
     WriteStatus, Finish
<1> QED
  BY <1>1, <1>2, <1>3, <1>4, <1>5 DEF RunStep, Handling, Driving

(* The handlers' guards, Serial and Quiet keep the second goroutine out.   *)
LEMMA OneAtATimeStep ==
  ASSUME Serial, TypeOK, OneAtATime, [Next]_vars
  PROVE  OneAtATime'
<1> USE DEF OneAtATime
<1>0. pc \in [Runs -> Labels]
  BY DEF TypeOK
<1>1. ASSUME NEW r \in Runs, RunStep(r), ~(\E c \in Calls : RunTool(r, c))
      PROVE  OneAtATime'
  BY <1>1, StepsAreBusy DEF Busy, Quiet
<1>2. ASSUME NEW r \in Runs, NEW c \in Calls, RunTool(r, c) PROVE OneAtATime'
  BY <1>2 DEF RunTool, handler, Busy, Quiet
<1>3. ASSUME NEW r \in Runs, Post(r) PROVE OneAtATime'
  BY <1>0, <1>3 DEF Post, Goto, Busy, Quiet, Serial
<1>4. ASSUME NEW c \in Calls, NEW a \in Answers, AnswerOne(c, a) PROVE OneAtATime'
  BY <1>4 DEF AnswerOne, MayAnswer, Busy, Quiet
<1>5. ASSUME NEW c \in Calls, NEW a \in Answers, NEW r \in Runs, AnswerLast(c, a, r)
      PROVE OneAtATime'
  BY <1>0, <1>5 DEF AnswerLast, MayAnswer, Goto, Busy, Quiet, Serial
<1>6. CASE Cancel \/ LateStep \/ UNCHANGED vars
  BY <1>6 DEF Cancel, LateStep, LateRead, LateWrite, handler, vars, Busy, Quiet
<1>7. CASE Crash
  BY <1>7 DEF Crash, Busy, Quiet, AtRest
<1>8. CASE Reconcile
  BY <1>8 DEF Reconcile, handler, Busy, Quiet
<1> QED
  BY <1>1, <1>2, <1>3, <1>4, <1>5, <1>6, <1>7, <1>8 DEF Next, UserStep

-----------------------------------------------------------------------------
(* What is pending                                                         *)

(* A step that goes on from a label about which PendingInv says nothing    *)
(* more than about the next one.                                           *)
LEMMA MovesPending ==
  ASSUME TypeOK, OneAtATime, PendingInv, NEW r \in Runs, NEW l, Busy(r), Goto(r, l),
         UNCHANGED <<pend, pendDB, ckpt, up, now>>,
         pc[r] \notin Emitting \cup {"cleared", "resolved"},
         l \notin Emitting \cup {"cleared", "resolved"},
         l \in NothingPends => pc[r] \in NothingPends
  PROVE  PendingInv'
<1>1. pc \in [Runs -> Labels]
  BY DEF TypeOK
<1>2. pc'[r] = l /\ \A q \in Runs : q # r => pc'[q] = pc[q] /\ pc[q] \in AtRest
  BY <1>1 DEF Goto, OneAtATime, Busy
<1>3. \A q \in Runs : q # r => pc'[q] \notin Emitting \cup {"cleared", "resolved"} \cup NothingPends
  BY <1>2 DEF AtRest, Emitting, NothingPends
<1>4. \A c : Pends(c)' <=> Pends(c)
  BY DEF Pends
<1> QED
  BY <1>2, <1>3, <1>4 DEF PendingInv, Emitting

(* A step that leaves everything PendingInv is about.                      *)
LEMMA SamePending ==
  ASSUME PendingInv, UNCHANGED <<pend, pendDB, ckpt, up, pc, emit, now>>,
         \A r \in Runs : pc[r] = "resolved" => todo'[r] = todo[r]
  PROVE  PendingInv'
  BY DEF PendingInv, Pends

(* Deleting by key takes the only row of that key.                         *)
LEMMA WithoutOne ==
  ASSUME NEW ids \in Seq(Calls), NEW c,
         \A i, j \in DOMAIN ids : ids[i] = ids[j] => i = j
  PROVE  /\ \A i, j \in DOMAIN Without(ids, c) : Without(ids, c)[i] = Without(ids, c)[j] => i = j
         /\ \A i \in DOMAIN Without(ids, c) :
              Without(ids, c)[i] # c /\ \E j \in DOMAIN ids : Without(ids, c)[i] = ids[j]
<1> DEFINE at == {i \in DOMAIN ids : ids[i] = c}
           k  == CHOOSE i \in at : TRUE
           w  == Without(ids, c)
<1>1. CASE at = {}
  BY <1>1 DEF Without
<1>2. CASE at # {}
  <2>1. k \in at
    BY <1>2, Zenon
  <2>2. Len(ids) \in Nat /\ DOMAIN ids = 1..Len(ids)
    BY LenProperties
  <2>3. w = SubSeq(ids, 1, k - 1) \o SubSeq(ids, k + 1, Len(ids))
    BY <1>2 DEF Without
  <2>4. k \in 1..Len(ids) /\ ids[k] = c
    BY <2>1, <2>2
  <2> HIDE DEF k, w
  <2>5. /\ SubSeq(ids, 1, k - 1) \in Seq(Calls) /\ Len(SubSeq(ids, 1, k - 1)) = k - 1
        /\ \A i \in 1..(k - 1) : SubSeq(ids, 1, k - 1)[i] = ids[i]
    BY <2>2, <2>4, SubSeqProperties
  <2>6. /\ SubSeq(ids, k + 1, Len(ids)) \in Seq(Calls)
        /\ Len(SubSeq(ids, k + 1, Len(ids))) = Len(ids) - k
        /\ \A i \in 1..(Len(ids) - k) : SubSeq(ids, k + 1, Len(ids))[i] = ids[k + i]
    <3>1. /\ k + 1 \in Int /\ Len(ids) \in Int /\ \A i \in (k + 1)..Len(ids) : ids[i] \in Calls
          /\ Len(ids) - (k + 1) + 1 = Len(ids) - k
          /\ \A i \in 1..(Len(ids) - k) : (k + 1) + i - 1 = k + i
      BY <2>2, <2>4
    <3>2. /\ SubSeq(ids, k + 1, Len(ids)) \in Seq(Calls)
          /\ Len(SubSeq(ids, k + 1, Len(ids))) = IF k + 1 <= Len(ids) THEN Len(ids) - (k + 1) + 1 ELSE 0
          /\ \A i \in 1..(Len(ids) - (k + 1) + 1) : SubSeq(ids, k + 1, Len(ids))[i] = ids[(k + 1) + i - 1]
      BY <3>1, SubSeqProperties
    <3>3. k \in Nat /\ k <= Len(ids) /\ Len(ids) \in Nat
      BY <2>2, <2>4
    <3>4. Len(SubSeq(ids, k + 1, Len(ids))) = Len(ids) - k
      BY <3>2, <3>3
    <3>5. \A i \in 1..(Len(ids) - k) : SubSeq(ids, k + 1, Len(ids))[i] = ids[k + i]
      BY <3>1, <3>2
    <3> QED
      BY <3>2, <3>4, <3>5
  <2>7. /\ DOMAIN w = 1..(Len(ids) - 1)
        /\ \A i \in DOMAIN w : w[i] = IF i < k THEN ids[i] ELSE ids[i + 1]
    <3> DEFINE a == SubSeq(ids, 1, k - 1)
               b == SubSeq(ids, k + 1, Len(ids))
    <3>1. /\ a \in Seq(Calls) /\ b \in Seq(Calls) /\ w = a \o b
          /\ Len(a) = k - 1 /\ Len(b) = Len(ids) - k
          /\ \A i \in 1..(k - 1) : a[i] = ids[i]
          /\ \A i \in 1..(Len(ids) - k) : b[i] = ids[k + i]
      BY <2>3, <2>5, <2>6
    <3> HIDE DEF a, b
    <3>2. Len(w) = Len(ids) - 1 /\ DOMAIN w = 1..(Len(ids) - 1)
      <4>0. w \in Seq(Calls) /\ Len(w) = Len(a) + Len(b)
        BY <3>1, ConcatProperties
      <4>1. Len(w) = Len(a) + Len(b) /\ DOMAIN w = 1..Len(w)
        BY <4>0, LenProperties
      <4> QED
        BY <2>2, <2>4, <3>1, <4>1
    <3>3. \A i \in 1..(Len(ids) - 1) : w[i] = IF i <= k - 1 THEN a[i] ELSE b[i - (k - 1)]
      <4>1. \A i \in 1..(Len(a) + Len(b)) : w[i] = IF i <= Len(a) THEN a[i] ELSE b[i - Len(a)]
        BY <3>1, ConcatProperties
      <4>2. Len(a) + Len(b) = Len(ids) - 1 /\ Len(a) = k - 1
        BY <2>2, <2>4, <3>1
      <4> QED
        BY <4>1, <4>2
    <3>4. ASSUME NEW i \in 1..(Len(ids) - 1) PROVE w[i] = IF i < k THEN ids[i] ELSE ids[i + 1]
      <4>1. CASE i < k
        BY <2>2, <2>4, <3>1, <3>3, <4>1
      <4>2. CASE ~(i < k)
        <5>1. i - (k - 1) \in 1..(Len(ids) - k) /\ k + (i - (k - 1)) = i + 1
          BY <2>2, <2>4, <4>2
        <5> QED
          BY <2>2, <2>4, <3>1, <3>3, <4>2, <5>1
      <4> QED
        BY <4>1, <4>2
    <3> QED
      BY <3>2, <3>4
  <2>8. \A i, j \in DOMAIN w : w[i] = w[j] => i = j
    BY <2>2, <2>4, <2>7
  <2>9. \A i \in DOMAIN w : w[i] # c /\ \E j \in DOMAIN ids : w[i] = ids[j]
    BY <2>2, <2>4, <2>7
  <2> QED
    BY <2>8, <2>9 DEF w
<1> QED
  BY <1>1, <1>2

(* The handlers that start a run or a resume.                              *)
LEMMA HandlingPending ==
  ASSUME TypeOK, OneAtATime, PendingInv, NEW r \in Runs, Handling(r)
  PROVE  PendingInv'
<1>0. pc \in [Runs -> Labels] /\ pendDB \in Seq(Calls)
  BY DEF TypeOK
<1>1. CASE ListPrior(r) \/ StoreUser(r) \/ StartCreate(r)
  <2>1. PICK l \in {"listed", "stored", "created"} : Goto(r, l)
    BY <1>1 DEF ListPrior, StoreUser, StartCreate, CreateBuffer
  <2>2. pc[r] \in {"posted", "listed", "stored"} /\ UNCHANGED <<pend, pendDB, ckpt, up, now>>
    BY <1>1 DEF ListPrior, StoreUser, StartCreate, CreateBuffer, durable
  <2> QED
    BY <2>1, <2>2, MovesPending DEF Busy, AtRest, Emitting, NothingPends
<1>2. CASE ResumeWrite(r) \/ ResumeCreate(r)
  <2>1. PICK l \in {"install", "resuming"} : Goto(r, l)
    BY <1>2 DEF ResumeWrite, ResumeCreate, CreateBuffer
  <2>2. pc[r] \in {"restatus", "install"} /\ UNCHANGED <<pend, pendDB, ckpt, up, now>>
    BY <1>2 DEF ResumeWrite, ResumeCreate, CreateBuffer, durable
  <2> QED
    BY <2>1, <2>2, MovesPending DEF Busy, AtRest, Emitting, NothingPends
<1>3. ASSUME pc[r] \in {"created", "cleared", "resolved"}
      PROVE  \A q \in Runs : q # r => pc[q] \in AtRest
  BY <1>3 DEF OneAtATime, Busy, AtRest
<1>4. CASE ClearPending(r)
  <2>1. /\ pc[r] = "created" /\ pend' = <<>> /\ UNCHANGED <<pendDB, ckpt, up, now>>
        /\ pc'[r] = "cleared" /\ \A q \in Runs : q # r => pc'[q] = pc[q]
    BY <1>0, <1>4 DEF ClearPending, durable, Goto
  <2>2. \A q \in Runs : q # r => pc'[q] \in AtRest
    BY <1>3, <2>1
  <2> QED
    BY <2>1, <2>2 DEF PendingInv, AtRest, Emitting, NothingPends
<1>5. CASE ClearPendingRows(r)
  <2>1. /\ pc[r] = "cleared" /\ pendDB' = <<>> /\ UNCHANGED <<pend, ckpt, up, now>>
        /\ pc'[r] = "starting" /\ \A q \in Runs : q # r => pc'[q] = pc[q]
    BY <1>0, <1>5 DEF ClearPendingRows, Goto
  <2>2. pend = <<>>
    BY <2>1 DEF PendingInv
  <2>3. \A q \in Runs : q # r => pc'[q] \in AtRest
    BY <1>3, <2>1
  <2> QED
    BY <2>1, <2>2, <2>3 DEF PendingInv, AtRest, Emitting, NothingPends
<1>6. CASE DropPendingRow(r)
  <2>1. /\ pc[r] = "resolved" /\ UNCHANGED <<pend, ckpt, up, pc, now>>
    BY <1>6 DEF DropPendingRow
  <2>2. PICK c \in todo[r] : pendDB' = Without(pendDB, c) /\ todo' = [todo EXCEPT ![r] = @ \ {c}]
    BY <1>6 DEF DropPendingRow
  <2>3. /\ \A i, j \in DOMAIN pendDB' : pendDB'[i] = pendDB'[j] => i = j
        /\ \A i \in DOMAIN pendDB' : pendDB'[i] # c /\ \E j \in DOMAIN pendDB : pendDB'[i] = pendDB[j]
    BY <1>0, <2>2, WithoutOne DEF PendingInv
  <2>4. \A i \in DOMAIN pendDB' : ckpt[pendDB'[i]] = "asked" /\ pendDB'[i] \in todo'[r]
    BY <2>1, <2>2, <2>3 DEF PendingInv, TypeOK
  <2>5. \A q \in Runs : q # r => pc'[q] \in AtRest
    BY <1>3, <2>1
  <2> QED
    BY <2>1, <2>3, <2>4, <2>5 DEF PendingInv, AtRest, Emitting, NothingPends
<1>7. CASE ResumeRead(r)
  <2>1. /\ pc[r] = "resolved" /\ todo[r] = {} /\ UNCHANGED <<pend, pendDB, ckpt, up, now>>
        /\ pc'[r] = "restatus" /\ \A q \in Runs : q # r => pc'[q] = pc[q]
    BY <1>0, <1>7 DEF ResumeRead, durable, Goto
  <2>2. pend = <<>> /\ DOMAIN pendDB = {}
    BY <2>1 DEF PendingInv
  <2>3. pendDB = <<>>
    BY <1>0, <2>2, LenProperties, EmptySeq
  <2>4. \A q \in Runs : q # r => pc'[q] \in AtRest
    BY <1>3, <2>1
  <2> QED
    BY <2>1, <2>2, <2>3, <2>4 DEF PendingInv, AtRest, Emitting, NothingPends
<1> QED
  BY <1>1, <1>2, <1>4, <1>5, <1>6, <1>7 DEF Handling

(* A recorded item stands behind the others.                               *)
LEMMA AppendedItem ==
  ASSUME TypeOK, NEW c \in Calls
  PROVE  /\ Len(pend) \in Nat /\ DOMAIN pend = 1..Len(pend)
         /\ DOMAIN Append(pend, Item(c)) = 1..(Len(pend) + 1)
         /\ \A i \in 1..Len(pend) : Append(pend, Item(c))[i] = pend[i]
         /\ Append(pend, Item(c))[Len(pend) + 1] = Item(c)
         /\ Item(c).call = c /\ Item(c).ans = "none"
<1>1. Item(c) \in [call: Calls, ans: Answers \cup {"none"}] /\ Item(c).call = c /\ Item(c).ans = "none"
  BY DEF Item
<1> DEFINE Pending == [call: Calls, ans: Answers \cup {"none"}]
<1>2. pend \in Seq(Pending) /\ Item(c) \in Pending
  BY <1>1 DEF TypeOK
<1> HIDE DEF Pending
<1>3. /\ Len(pend) \in Nat /\ DOMAIN pend = 1..Len(pend)
      /\ DOMAIN Append(pend, Item(c)) = 1..(Len(pend) + 1)
      /\ \A i \in 1..Len(pend) : Append(pend, Item(c))[i] = pend[i]
      /\ Append(pend, Item(c))[Len(pend) + 1] = Item(c)
  BY <1>2, AppendProperties, LenProperties
<1> QED
  BY <1>1, <1>3

(* The runner interrupts and its contexts are recorded.                    *)
LEMMA EmittingPending ==
  ASSUME TypeOK, OneAtATime, PendingInv, NEW r \in Runs,
         Interrupt(r) \/ InsertPendingRow(r) \/ MarkWaiting(r) \/ \E c \in Calls : Record(r, c)
  PROVE  PendingInv'
<1>0. pc \in [Runs -> Labels] /\ pendDB \in Seq(Calls)
      /\ pend \in Seq([call: Calls, ans: Answers \cup {"none"}])
      /\ emit \in [Runs -> SUBSET Calls] /\ now \in [Runs -> SUBSET Calls]
  BY DEF TypeOK
<1>1. pc[r] \in {"loop"} \cup Emitting
  BY DEF Interrupt, InsertPendingRow, MarkWaiting, Record, Emitting
<1>2. \A q \in Runs : q # r => pc[q] \in AtRest /\ pc'[q] = pc[q]
  BY <1>0, <1>1 DEF OneAtATime, Busy, AtRest, Emitting, Interrupt, InsertPendingRow, MarkWaiting,
     Record, Goto
<1>3. CASE Interrupt(r)
  <2>1. /\ pc[r] = "loop" /\ pc'[r] = "emit" /\ ckpt' = call[r] /\ UNCHANGED <<pend, pendDB, up, now>>
        /\ emit'[r] = {c \in Calls : call[r][c] = "asked"}
    BY <1>0, <1>3 DEF Interrupt, Goto
  <2>2. pend = <<>> /\ pendDB = <<>>
    BY <2>1 DEF PendingInv, NothingPends
  <2>3. \A c \in emit'[r] : ckpt'[c] = "asked"
    BY <2>1
  <2> QED
    BY <1>2, <2>1, <2>2, <2>3 DEF PendingInv, AtRest, Emitting, NothingPends
<1>4. ASSUME NEW c \in Calls, Record(r, c) PROVE PendingInv'
  <2>1. /\ pc[r] = "emit" /\ c \in emit[r] /\ now'[r] = {c} /\ UNCHANGED <<pendDB, ckpt, up, emit>>
        /\ \A q \in Runs : q # r => now'[q] = now[q]
        /\ pc'[r] \in Emitting
    BY <1>0, <1>4 DEF Record, Goto, durable, Emitting
  <2>2. /\ \A i \in DOMAIN pend' : pend'[i].call = c \/ \E j \in DOMAIN pend : pend'[i].call = pend[j].call
        /\ \E i \in DOMAIN pend' : pend'[i].call = c
        /\ \A i \in DOMAIN pend : \E j \in DOMAIN pend' : pend'[j].call = pend[i].call
    <3>1. CASE pend' = pend /\ \E i \in DOMAIN pend : pend[i].call = c
      BY <3>1
    <3>2. CASE pend' = Append(pend, Item(c))
      BY <3>2, AppendedItem
    <3> QED
      BY <1>4, <3>1, <3>2 DEF Record
  <2>3. ckpt[c] = "asked"
    BY <2>1 DEF PendingInv, Emitting
  <2>4. \A i \in DOMAIN pend' : ckpt'[pend'[i].call] = "asked"
    BY <2>1, <2>2, <2>3 DEF PendingInv
  <2>7. up => \A i \in DOMAIN pendDB : \E j \in DOMAIN pend' : pend'[j].call = pendDB[i]
    <3>1. \A q \in Runs : pc[q] \notin {"cleared", "resolved"}
      BY <1>2, <2>1 DEF AtRest
    <3> QED
      BY <2>2, <3>1 DEF PendingInv, Pends
  <2> QED
    <3>1. \A d \in emit'[r] \cup now'[r] : ckpt'[d] = "asked"
      BY <2>1, <2>3 DEF PendingInv, Emitting
    <3>2. \A d \in now'[r] : Pends(d)'
      BY <2>1, <2>2 DEF Pends
    <3>3. \A q \in Runs : pc'[q] \in {"insert", "mark"} => q = r
      BY <1>2, <2>1 DEF AtRest
    <3>4. \A q \in Runs : pc'[q] \notin {"insert", "mark"} => now'[q] = {}
      <4>1. pc'[r] \in {"insert", "mark"}
        BY <1>0, <1>4 DEF Record, Goto
      <4> QED
        BY <1>2, <2>1, <4>1 DEF PendingInv, AtRest
    <3>5. \A q \in Runs : pc'[q] \notin NothingPends \cup {"cleared", "resolved"}
      BY <1>2, <2>1 DEF AtRest, NothingPends, Emitting
    <3>6. \A q \in Runs : pc'[q] \in Emitting => q = r
      BY <1>2, <2>1 DEF AtRest, Emitting
    <3>7. \A i, j \in DOMAIN pendDB' : pendDB'[i] = pendDB'[j] => i = j
      BY <2>1 DEF PendingInv
    <3>8. \A i \in DOMAIN pendDB' : ckpt'[pendDB'[i]] = "asked"
      BY <2>1 DEF PendingInv
    <3>9. up' => \A i \in DOMAIN pendDB' : Pends(pendDB[i])'
      BY <2>1, <2>7 DEF Pends
    <3> QED
      BY <2>4, <3>1, <3>2, <3>3, <3>4, <3>5, <3>6, <3>7, <3>8, <3>9 DEF PendingInv
<1>5. CASE InsertPendingRow(r)
  <2>1. /\ pc[r] = "insert" /\ pc'[r] = "mark" /\ UNCHANGED <<pend, ckpt, up, emit, now>>
    BY <1>0, <1>5 DEF InsertPendingRow, Goto
  <2>2. PICK c \in now[r] : pendDB' = IF \E i \in DOMAIN pendDB : pendDB[i] = c THEN pendDB
                                     ELSE Append(pendDB, c)
    BY <1>5 DEF InsertPendingRow
  <2>3. c \in Calls /\ ckpt[c] = "asked" /\ Pends(c)
    BY <1>0, <2>1 DEF PendingInv, Emitting
  <2>4. /\ \A i \in DOMAIN pendDB' : pendDB'[i] = c \/ \E j \in DOMAIN pendDB : pendDB'[i] = pendDB[j]
        /\ \A i, j \in DOMAIN pendDB' : pendDB'[i] = pendDB'[j] => i = j
    <3>1. CASE pendDB' = pendDB
      BY <3>1 DEF PendingInv
    <3>2. CASE pendDB' = Append(pendDB, c) /\ ~\E i \in DOMAIN pendDB : pendDB[i] = c
      <4>1. /\ Len(pendDB) \in Nat /\ DOMAIN pendDB = 1..Len(pendDB)
            /\ DOMAIN pendDB' = 1..(Len(pendDB) + 1)
            /\ \A i \in 1..Len(pendDB) : pendDB'[i] = pendDB[i]
            /\ pendDB'[Len(pendDB) + 1] = c
        BY <1>0, <2>3, <3>2, AppendProperties, LenProperties
      <4> QED
        BY <3>2, <4>1 DEF PendingInv
    <3> QED
      BY <2>2, <3>1, <3>2
  <2>6. up => \A i \in DOMAIN pendDB : Pends(pendDB[i])
    <3>1. \A q \in Runs : pc[q] \notin {"cleared", "resolved"}
      BY <1>2, <2>1 DEF AtRest
    <3> QED
      BY <3>1 DEF PendingInv
  <2>7. up => \A i \in DOMAIN pendDB' : \E j \in DOMAIN pend' : pend'[j].call = pendDB'[i]
    BY <2>1, <2>3, <2>4, <2>6 DEF Pends
  <2>8. \A i \in DOMAIN pendDB' : ckpt'[pendDB'[i]] = "asked"
    BY <2>1, <2>3, <2>4 DEF PendingInv
  <2> QED
    BY <1>2, <2>1, <2>3, <2>4, <2>7, <2>8 DEF PendingInv, Pends, AtRest, Emitting, NothingPends
<1>6. CASE MarkWaiting(r)
  <2>1. /\ pc[r] = "mark" /\ UNCHANGED <<pend, pendDB, ckpt, up>>
        /\ pc'[r] \in {"tail", "emit"} /\ now'[r] = {} /\ emit'[r] \subseteq emit[r]
        /\ \A q \in Runs : q # r => now'[q] = now[q]
    BY <1>0, <1>6 DEF MarkWaiting, Goto
  <2>2. \A d : Pends(d)' <=> Pends(d)
    BY <2>1 DEF Pends
  <2> QED
    BY <1>2, <2>1, <2>2 DEF PendingInv, AtRest, Emitting, NothingPends
<1> QED
  BY <1>3, <1>4, <1>5, <1>6

(* Every step of a run.                                                    *)
LEMMA RunStepPending ==
  ASSUME TypeOK, OneAtATime, PendingInv, NEW r \in Runs, RunStep(r)
  PROVE  PendingInv'
<1>1. CASE \/ DeclareCalls(r) \/ CloseOpen(r)
           \/ \E c \in Calls : RunTool(r, c) \/ AskUser(r, c) \/ DeliverResult(r, c)
  <2>1. UNCHANGED <<pend, pendDB, ckpt, up, pc, emit, now>>
    BY <1>1 DEF DeclareCalls, CloseOpen, RunTool, AskUser, DeliverResult, durable, handler
  <2>2. \A q \in Runs : pc[q] = "resolved" => todo'[q] = todo[q]
    <3>1. CASE CloseOpen(r)
      BY <3>1 DEF CloseOpen, TypeOK
    <3> QED
      BY <1>1, <3>1 DEF DeclareCalls, RunTool, AskUser, DeliverResult, handler
  <2> QED
    BY <2>1, <2>2, SamePending
<1>2. CASE BeginRun(r) \/ BeginResume(r) \/ LoadCheckpoint(r) \/ LoadFails(r)
  <2>1. PICK l \in {"loop", "load", "finish"} : Goto(r, l)
    BY <1>2 DEF BeginRun, BeginResume, LoadCheckpoint, LoadFails
  <2>2. pc[r] \in {"starting", "resuming", "load"} /\ UNCHANGED <<pend, pendDB, ckpt, up, now>>
    BY <1>2 DEF BeginRun, BeginResume, LoadCheckpoint, LoadFails, durable
  <2> QED
    BY <2>1, <2>2, MovesPending DEF Busy, AtRest, Emitting, NothingPends
<1>3. CASE Reply(r) \/ Exhaust(r) \/ Fail(r) \/ Abandon(r) \/ CheckPending(r) \/ KeepPartial(r)
           \/ ScanOpen(r) \/ ReadHead(r) \/ WriteStatus(r) \/ Finish(r)
  <2>1. PICK l \in {"tail", "check", "partial", "scan", "finalize", "close", "write", "finish", "done"} :
          Goto(r, l)
    BY <1>3 DEF Reply, Exhaust, Fail, Abandon, CheckPending, KeepPartial, ScanOpen, ReadHead,
       WriteStatus, Finish, AfterError, AfterLoop
  <2>2. /\ pc[r] \in {"loop", "tail", "check", "partial", "scan", "finalize", "close", "write", "finish"}
        /\ UNCHANGED <<pend, pendDB, ckpt, up, now>>
    BY <1>3 DEF Reply, Exhaust, Fail, Abandon, CheckPending, KeepPartial, ScanOpen, ReadHead,
       WriteStatus, Finish, durable
  <2> QED
    BY <2>1, <2>2, MovesPending DEF Busy, AtRest, Emitting, NothingPends
<1> QED
  BY <1>1, <1>2, <1>3, HandlingPending, EmittingPending DEF RunStep, Driving, Settling

(* The user's requests.                                                    *)
LEMMA UserPending ==
  ASSUME Serial, TypeOK, OneAtATime, PendingInv, UserStep
  PROVE  PendingInv'
<1>0. pc \in [Runs -> Labels] /\ todo \in [Runs -> SUBSET Calls]
  BY DEF TypeOK
<1>1. ASSUME NEW r \in Runs, Post(r) PROVE PendingInv'
  <2>1. /\ Quiet /\ up /\ pc'[r] = "posted" /\ UNCHANGED <<pend, pendDB, ckpt, up, now, emit, todo>>
        /\ \A q \in Runs : q # r => pc'[q] = pc[q]
    BY <1>0, <1>1 DEF Post, Serial, durable, Goto
  <2>2. \A q \in Runs : pc[q] \in AtRest /\ pc'[q] \in AtRest \cup {"posted"}
    BY <2>1 DEF Quiet
  <2>3. \A i \in DOMAIN pendDB : Pends(pendDB[i])
    BY <2>1, <2>2 DEF PendingInv, AtRest
  <2> QED
    BY <2>1, <2>2, <2>3 DEF PendingInv, Pends, AtRest, Emitting, NothingPends
<1>2. ASSUME NEW c \in Calls, NEW a \in Answers, AnswerOne(c, a) PROVE PendingInv'
  <2>1. UNCHANGED <<pendDB, ckpt, up, pc, emit, now, todo>>
    BY <1>2 DEF AnswerOne, durable
  <2>2. DOMAIN pend' = DOMAIN pend /\ \A i \in DOMAIN pend : pend'[i].call = pend[i].call
    BY <1>2, PendItems DEF AnswerOne, Resolved
  <2>3. \A r \in Runs : pc[r] \in AtRest
    BY <1>2 DEF AnswerOne, MayAnswer, Serial, Quiet
  <2> QED
    BY <2>1, <2>2, <2>3 DEF PendingInv, Pends, AtRest, Emitting, NothingPends
<1>3. ASSUME NEW c \in Calls, NEW a \in Answers, NEW r \in Runs, AnswerLast(c, a, r)
      PROVE  PendingInv'
  <2>1. /\ Quiet /\ up /\ pc'[r] = "resolved" /\ UNCHANGED <<pendDB, ckpt, up, now, emit>>
        /\ \A q \in Runs : q # r => pc'[q] = pc[q]
        /\ pend' = <<>> /\ todo'[r] = {pend[i].call : i \in DOMAIN pend}
    BY <1>0, <1>3 DEF AnswerLast, MayAnswer, Serial, durable, Goto
  <2>2. \A q \in Runs : pc[q] \in AtRest
    BY <2>1 DEF Quiet
  <2>3. \A i \in DOMAIN pendDB : Pends(pendDB[i])
    BY <2>1, <2>2 DEF PendingInv, AtRest
  <2>4. \A i \in DOMAIN pendDB : pendDB[i] \in todo'[r]
    BY <2>1, <2>3 DEF Pends
  <2> QED
    BY <2>1, <2>2, <2>4 DEF PendingInv, AtRest, Emitting, NothingPends
<1>4. CASE Cancel
  BY <1>4, SamePending DEF Cancel, durable, handler
<1> QED
  BY <1>1, <1>2, <1>3, <1>4 DEF UserStep

(* What is pending is inductive.                                           *)
LEMMA PendingStep ==
  ASSUME Serial, TypeOK, OneAtATime, PendingInv, [Next]_vars
  PROVE  PendingInv'
<1>1. CASE LateStep \/ UNCHANGED vars
  BY <1>1, SamePending DEF LateStep, LateRead, LateWrite, durable, vars, handler
<1>2. CASE Crash
  <2>1. /\ pend' = <<>> /\ UNCHANGED <<pendDB, ckpt>> /\ ~up'
        /\ \A r \in Runs : pc'[r] \in AtRest /\ now'[r] = {}
    BY <1>2 DEF Crash, durable, AtRest
  <2> QED
    BY <2>1 DEF PendingInv, AtRest, Emitting, NothingPends
<1>3. CASE Reconcile
  <2>1. /\ UNCHANGED <<ckpt, pc, now, emit, todo>> /\ \A r \in Runs : pc[r] \in AtRest
        /\ pendDB' = <<>> \/ pendDB' = pendDB
        /\ pend' = [i \in DOMAIN pendDB' |-> Item(pendDB'[i])]
    BY <1>3 DEF Reconcile, handler, OneAtATime, Quiet
  <2>2. /\ DOMAIN pend' = DOMAIN pendDB' /\ \A i \in DOMAIN pendDB' : pend'[i].call = pendDB'[i]
    BY <2>1 DEF Item
  <2>3. /\ \A i \in DOMAIN pendDB' : ckpt'[pendDB'[i]] = "asked"
        /\ \A i, j \in DOMAIN pendDB' : pendDB'[i] = pendDB'[j] => i = j
    BY <2>1 DEF PendingInv
  <2> QED
    BY <2>1, <2>2, <2>3 DEF PendingInv, Pends, AtRest, Emitting, NothingPends
<1> QED
  BY <1>1, <1>2, <1>3, RunStepPending, UserPending DEF Next

-----------------------------------------------------------------------------
(* Who may still run a call                                                *)

(* The steps after which nobody holds more calls than before, and no dead  *)
(* checkpoint has come back to life.                                       *)
LEMMA SameHolder ==
  ASSUME OneHolder, UNCHANGED <<execs, ckpt>>, Active' => Active,
         \A r \in Runs, c \in Calls : InHand(r, c)' => InHand(r, c)
  PROVE  OneHolder'
  BY DEF OneHolder

(* Only an interrupt saves a checkpoint or brings one to life, and only a  *)
(* message of the model or a resume puts calls into the hands of a run.    *)
LEMMA HoldsNoMore ==
  ASSUME TypeOK, [Next]_vars
  PROVE  /\ \/ UNCHANGED ckpt /\ (Active' => Active)
            \/ \E r \in Runs : Interrupt(r)
         /\ \/ \A q \in Runs, d \in Calls : InHand(q, d)' => InHand(q, d)
            \/ \E r \in Runs : DeclareCalls(r) \/ LoadCheckpoint(r)
<1>0. pc \in [Runs -> Labels] /\ call \in [Runs -> [Calls -> Phases]]
  BY DEF TypeOK
<1> DEFINE Goal == /\ UNCHANGED ckpt /\ (Active' => Active)
                   /\ \A q \in Runs, d \in Calls : InHand(q, d)' => InHand(q, d)
<1>1. ASSUME UNCHANGED <<ckpt, call>>, Active' => Active PROVE Goal
  BY <1>1 DEF InHand
<1>2. ASSUME NEW r \in Runs, UNCHANGED <<pend, pendDB>>, \A q \in Runs : q # r => pc'[q] = pc[q],
             pc'[r] \in Emitting \cup Resuming => pc[r] \in Emitting \cup Resuming
      PROVE  Active' => Active
  BY <1>2 DEF Active
<1>3. ASSUME Cancel \/ LateStep \/ UNCHANGED vars PROVE Goal
  <2>1. UNCHANGED <<ckpt, call, pend, pendDB, pc>>
    BY <1>3 DEF Cancel, LateStep, LateRead, LateWrite, vars, durable, handler, runner
  <2> QED
    BY <1>1, <2>1 DEF Active
<1>4. ASSUME NEW r \in Runs, Post(r) PROVE Goal
  <2>1. /\ UNCHANGED <<ckpt, call, pend, pendDB>> /\ pc'[r] = "posted"
        /\ \A q \in Runs : q # r => pc'[q] = pc[q]
    BY <1>0, <1>4 DEF Post, durable, runner, Goto
  <2> QED
    BY <1>1, <1>2, <2>1 DEF Emitting, Resuming
<1>5. ASSUME NEW c \in Calls, NEW a \in Answers,
             AnswerOne(c, a) \/ \E r \in Runs : AnswerLast(c, a, r)
      PROVE  Goal
  <2>1. UNCHANGED <<ckpt, call>> /\ c \in Listed
    BY <1>5 DEF AnswerOne, AnswerLast, MayAnswer, durable, runner
  <2>2. pend # <<>>
    BY <2>1 DEF Listed, Unresolved
  <2> QED
    BY <1>1, <2>1, <2>2 DEF Active
<1>6. ASSUME Crash PROVE Goal
  <2>1. /\ UNCHANGED <<ckpt, pendDB>> /\ pend' = <<>>
        /\ \A r \in Runs : pc'[r] \in AtRest /\ \A c \in Calls : call'[r][c] = "-"
    BY <1>6 DEF Crash, durable, AtRest, NoCalls
  <2> QED
    BY <2>1 DEF Active, InHand, AtRest, Emitting, Resuming
<1>7. ASSUME Reconcile PROVE Goal
  <2>1. /\ UNCHANGED <<ckpt, call, pc>>
        /\ pendDB' = <<>> \/ pendDB' = pendDB
        /\ DOMAIN pend' = DOMAIN pendDB'
    BY <1>7 DEF Reconcile, handler, runner
  <2>2. pendDB' = <<>> => pend' = <<>>
    BY <2>1, TypeInductive, EmptySeq DEF TypeOK
  <2> QED
    BY <1>1, <2>1, <2>2 DEF Active
<1>8. ASSUME NEW r \in Runs, NEW c \in Calls, RunTool(r, c) \/ AskUser(r, c) \/ DeliverResult(r, c)
      PROVE  Goal
  <2>1. \A q \in Runs, d \in Calls : InHand(q, d)' => InHand(q, d)
    BY <1>0, <1>8 DEF RunTool, AskUser, DeliverResult, InHand
  <2>2. UNCHANGED <<ckpt, pend, pendDB, pc>>
    BY <1>8 DEF RunTool, AskUser, DeliverResult, durable, handler
  <2> QED
    BY <2>1, <2>2 DEF Active
<1>9. ASSUME NEW r \in Runs, Fail(r) \/ Abandon(r) PROVE Goal
  <2>1. \A q \in Runs, d \in Calls : InHand(q, d)' => InHand(q, d)
    BY <1>0, <1>9 DEF Fail, Abandon, InHand, NoCalls
  <2>2. UNCHANGED <<ckpt, pend, pendDB>>
    BY <1>9 DEF Fail, Abandon, durable
  <2>3. \A q \in Runs : q # r => pc'[q] = pc[q]
    BY <1>0, <1>9 DEF Fail, Abandon, Goto
  <2>4. pc'[r] \in {"partial", "scan"}
    BY <1>0, <1>9 DEF Fail, Abandon, Goto, AfterError
  <2> QED
    BY <1>2, <2>1, <2>2, <2>3, <2>4 DEF Emitting, Resuming
<1>10. ASSUME NEW r \in Runs, Handling(r) PROVE Goal
  <2>1. UNCHANGED <<ckpt, call>>
    BY <1>10 DEF Handling, ListPrior, StoreUser, StartCreate, CreateBuffer, ClearPending,
       ClearPendingRows, DropPendingRow, ResumeRead, ResumeWrite, ResumeCreate, durable, runner
  <2>2. /\ pend' # <<>> => pend # <<>>
        /\ pendDB' # <<>> => pendDB # <<>> \/ pc[r] = "resolved"
        /\ pc'[r] \in Emitting \cup Resuming => pc[r] \in Resuming
        /\ \A q \in Runs : q # r => pc'[q] = pc[q]
    BY <1>0, <1>10 DEF Handling, ListPrior, StoreUser, StartCreate, CreateBuffer, ClearPending,
       ClearPendingRows, DropPendingRow, ResumeRead, ResumeWrite, ResumeCreate, durable, Goto,
       Emitting, Resuming
  <2> QED
    BY <1>1, <2>1, <2>2 DEF Active, Resuming
<1>11. ASSUME NEW r \in Runs,
              \/ BeginRun(r) \/ BeginResume(r) \/ LoadFails(r) \/ Reply(r) \/ Settling(r)
              \/ InsertPendingRow(r) \/ MarkWaiting(r) \/ Exhaust(r) \/ \E c \in Calls : Record(r, c)
       PROVE  Goal
  <2>1. UNCHANGED <<ckpt, call>>
    BY <1>11 DEF BeginRun, BeginResume, LoadFails, Reply, Settling, InsertPendingRow, MarkWaiting,
       Exhaust, Record, CheckPending, KeepPartial, ScanOpen, CloseOpen, ReadHead, WriteStatus,
       Finish, durable, runner
  <2>2. \/ pc[r] \in Emitting
        \/ /\ UNCHANGED <<pend, pendDB>>
           /\ pc'[r] \in Emitting \cup Resuming => pc[r] \in Resuming
    BY <1>0, <1>11 DEF BeginRun, BeginResume, LoadFails, Reply, Settling, InsertPendingRow,
       MarkWaiting, Exhaust, Record, CheckPending, KeepPartial, ScanOpen, CloseOpen, ReadHead,
       WriteStatus, Finish, durable, Goto, Emitting, Resuming, AfterLoop
  <2>3. \A q \in Runs : q # r => pc'[q] = pc[q]
    BY <1>0, <1>11 DEF BeginRun, BeginResume, LoadFails, Reply, Settling, InsertPendingRow,
       MarkWaiting, Exhaust, Record, CheckPending, KeepPartial, ScanOpen, CloseOpen, ReadHead,
       WriteStatus, Finish, Goto
  <2>4. Active' => Active
    BY <2>2, <2>3 DEF Active
  <2> QED
    BY <1>1, <2>1, <2>4
<1>12. ASSUME NEW r \in Runs, DeclareCalls(r) \/ LoadCheckpoint(r)
       PROVE  UNCHANGED ckpt /\ (Active' => Active)
  <2>1. /\ UNCHANGED <<ckpt, pend, pendDB>> /\ \A q \in Runs : q # r => pc'[q] = pc[q]
        /\ pc'[r] \notin Emitting \cup Resuming
    BY <1>0, <1>12 DEF DeclareCalls, LoadCheckpoint, durable, handler, Goto, Emitting, Resuming
  <2> QED
    BY <1>2, <2>1
<1>13. ASSUME NEW r \in Runs, Interrupt(r)
       PROVE  \A q \in Runs, d \in Calls : InHand(q, d)' => InHand(q, d)
  BY <1>0, <1>13 DEF Interrupt, InHand, NoCalls
<1> HIDE DEF Goal
<1>14. \/ Goal \/ \E r \in Runs : Interrupt(r) \/ DeclareCalls(r) \/ LoadCheckpoint(r)
  <2>1. ASSUME NEW r \in Runs, RunStep(r), ~Interrupt(r), ~DeclareCalls(r), ~LoadCheckpoint(r)
        PROVE  Goal
    BY <1>8, <1>9, <1>10, <1>11, <2>1 DEF RunStep, Driving
  <2>2. ASSUME UserStep PROVE Goal
    BY <1>3, <1>4, <1>5, <2>2 DEF UserStep
  <2> QED
    BY <1>3, <1>6, <1>7, <2>1, <2>2 DEF Next
<1> QED
  BY <1>12, <1>13, <1>14 DEF Goal

(* A call the model declares is in no other hand: it is new.               *)
LEMMA DeclareHolder ==
  ASSUME TypeOK, ConsentInv, OneHolder, NEW r \in Runs, DeclareCalls(r)
  PROVE  OneHolder'
<1>1. PICK S \in SUBSET (Calls \ Declared(rows)) :
        call' = [call EXCEPT ![r] = [c \in Calls |-> IF c \in S THEN "called" ELSE "-"]]
  BY DEF DeclareCalls
<1>2. UNCHANGED <<execs, ckpt, pend, pendDB, pc>>
  BY DEF DeclareCalls, history, handler
<1>3. \A q \in Runs, c \in Calls :
        call'[q][c] = IF q # r THEN call[q][c] ELSE IF c \in S THEN "called" ELSE "-"
  BY <1>1 DEF TypeOK
<1>4. Active' <=> Active
  BY <1>2 DEF Active
<1>5. ASSUME NEW c \in S
      PROVE  execs[c] = 0 /\ ckpt[c] = "-" /\ \A q \in Runs : call[q][c] = "-"
  BY <1>5 DEF ConsentInv, AskedIsDeclared, CheckpointAsked, TypeOK
<1>6. ASSUME NEW c \in Calls, c \notin S, NEW q \in Runs PROVE InHand(q, c)' => InHand(q, c)
  BY <1>3, <1>6 DEF InHand
<1>7. \A c \in S : \A q \in Runs : InHand(q, c)' => q = r
  BY <1>3, <1>5 DEF InHand
<1> QED
  BY <1>2, <1>4, <1>5, <1>6, <1>7 DEF OneHolder

(* A tool that runs leaves the hand of the one run that had it.            *)
LEMMA RunToolHolder ==
  ASSUME TypeOK, OneHolder, NEW r \in Runs, NEW c \in Calls, RunTool(r, c)
  PROVE  OneHolder'
<1>1. /\ call[r][c] = "called" /\ UNCHANGED <<ckpt, pend, pendDB, pc>>
      /\ call' = [call EXCEPT ![r][c] = "ran"] /\ execs' = [execs EXCEPT ![c] = @ + 1]
  BY DEF RunTool, durable, handler
<1>2. \A q \in Runs, d \in Calls : call'[q][d] = IF q = r /\ d = c THEN "ran" ELSE call[q][d]
  BY <1>1 DEF TypeOK
<1>3. \A d \in Calls : d # c => execs'[d] = execs[d]
  BY <1>1 DEF TypeOK
<1>4. Active' <=> Active
  BY <1>1 DEF Active
<1>5. \A q \in Runs : ~InHand(q, c)'
  BY <1>1, <1>2 DEF InHand, OneHolder
<1>6. ~(Active /\ ckpt[c] = "asked")
  BY <1>1 DEF InHand, OneHolder
<1>7. \A q \in Runs, d \in Calls : d # c => (InHand(q, d)' <=> InHand(q, d))
  BY <1>2 DEF InHand
<1> QED
  BY <1>1, <1>3, <1>4, <1>5, <1>6, <1>7 DEF OneHolder

(* What the runner asks about moves from its hands into the checkpoint.    *)
LEMMA InterruptHolder ==
  ASSUME TypeOK, OneHolder, NEW r \in Runs, Interrupt(r)
  PROVE  OneHolder'
<1>1. /\ ckpt' = call[r] /\ UNCHANGED execs
      /\ \A q \in Runs, c \in Calls : call'[q][c] = IF q = r THEN "-" ELSE call[q][c]
  BY DEF Interrupt, TypeOK, history, NoCalls
<1>2. \A q \in Runs, c \in Calls : InHand(q, c)' => InHand(q, c) /\ q # r
  BY <1>1 DEF InHand
<1>3. \A c \in Calls : ckpt'[c] = "asked" => InHand(r, c)
  BY <1>1 DEF InHand
<1> QED
  BY <1>1, <1>2, <1>3 DEF OneHolder

(* A resume takes them out again, and nothing can re-enter the checkpoint  *)
(* a second time.                                                          *)
LEMMA LoadHolder ==
  ASSUME TypeOK, ConsentInv, OneAtATime, PendingInv, OneHolder, NEW r \in Runs, LoadCheckpoint(r)
  PROVE  OneHolder'
<1>1. /\ pc[r] = "load" /\ pc' = [pc EXCEPT ![r] = "loop"] /\ UNCHANGED <<execs, ckpt, pend, pendDB>>
      /\ \A q \in Runs, c \in Calls :
           call'[q][c] = IF q = r THEN Reenter(ckpt[c], targets[r][c]) ELSE call[q][c]
  BY DEF LoadCheckpoint, TypeOK, durable, history, Goto
<1>2. pend = <<>> /\ pendDB = <<>> /\ Active
  BY <1>1 DEF PendingInv, NothingPends, Active, Resuming
<1>3. \A q \in Runs : q # r => pc'[q] \in AtRest
  BY <1>1 DEF OneAtATime, Busy, AtRest, TypeOK
<1>4. ~Active'
  <2>1. pc'[r] = "loop"
    BY <1>1 DEF TypeOK
  <2> QED
    BY <1>1, <1>2, <1>3, <2>1 DEF Active, AtRest, Emitting, Resuming
<1>5. \A c \in Calls : InHand(r, c)' => ckpt[c] = "asked"
  BY <1>1 DEF InHand, Reenter, ConsentInv, CheckpointAsked
<1>6. \A q \in Runs, c \in Calls : q # r => (InHand(q, c)' <=> InHand(q, c))
  BY <1>1 DEF InHand
<1>7. \A c \in Calls : ckpt[c] = "asked" => execs[c] = 0 /\ \A q \in Runs : ~InHand(q, c)
  BY <1>2 DEF OneHolder
<1> QED
  BY <1>1, <1>4, <1>5, <1>6, <1>7 DEF OneHolder

(* The only step that counts an execution.                                 *)
LEMMA OnlyToolsExecute ==
  ASSUME [Next]_vars
  PROVE  UNCHANGED execs \/ \E r \in Runs, c \in Calls : RunTool(r, c)
  BY DEF Next, vars, UserStep, Post, AnswerOne, AnswerLast, Cancel, LateStep, LateRead, LateWrite,
     Crash, Reconcile, RunStep, Handling, Driving, Settling, ListPrior, StoreUser, StartCreate,
     CreateBuffer, ClearPending, ClearPendingRows, DropPendingRow, ResumeRead, ResumeWrite,
     ResumeCreate, BeginRun, BeginResume, LoadCheckpoint, LoadFails, DeclareCalls, Reply,
     Interrupt, AskUser, DeliverResult, Record, InsertPendingRow, MarkWaiting, Exhaust, Fail,
     Abandon, CheckPending, KeepPartial, ScanOpen, CloseOpen, ReadHead, WriteStatus, Finish,
     history

(* Every step keeps one holder per call.                                   *)
LEMMA HolderStep ==
  ASSUME TypeOK, ConsentInv, OneAtATime, PendingInv, OneHolder, [Next]_vars
  PROVE  OneHolder'
<1>1. CASE \E r \in Runs : DeclareCalls(r) \/ LoadCheckpoint(r) \/ Interrupt(r)
  BY <1>1, DeclareHolder, LoadHolder, InterruptHolder
<1>2. CASE \E r \in Runs, c \in Calls : RunTool(r, c)
  BY <1>2, RunToolHolder
<1> QED
  BY <1>1, <1>2, OnlyToolsExecute, HoldsNoMore, SameHolder

-----------------------------------------------------------------------------
(* Nothing runs twice, and what waits can be resumed                       *)

SerialInv == OneAtATime /\ PendingInv /\ OneHolder

(* Nothing runs, nothing pends at the start.                               *)
LEMMA SerialInit == Init => SerialInv
<1> SUFFICES ASSUME Init PROVE SerialInv
  OBVIOUS
<1>1. OneAtATime /\ PendingInv
  BY DEF Init, OneAtATime, Busy, AtRest, PendingInv, Emitting, NothingPends
<1>2. OneHolder
  BY DEF Init, OneHolder, Active, InHand, NoCalls, Emitting, Resuming
<1> QED
  BY <1>1, <1>2 DEF SerialInv

(* The three invariants together are inductive.                            *)
LEMMA SerialStep ==
  ASSUME Serial
  PROVE  TypeOK /\ ConsentInv /\ SerialInv /\ [Next]_vars => SerialInv'
  BY OneAtATimeStep, PendingStep, HolderStep DEF SerialInv

(* A call that runs had not run before.                                    *)
LEMMA ExecutesOnce ==
  TypeOK /\ OneHolder /\ NeverReexecuted /\ [Next]_vars => NeverReexecuted'
<1> SUFFICES ASSUME TypeOK, OneHolder, NeverReexecuted, [Next]_vars PROVE NeverReexecuted'
  OBVIOUS
<1>1. ASSUME NEW r \in Runs, NEW c \in Calls, RunTool(r, c) PROVE NeverReexecuted'
  <2>1. call[r][c] = "called" /\ execs' = [execs EXCEPT ![c] = @ + 1]
    BY <1>1 DEF RunTool
  <2>2. execs[c] = 0
    BY <2>1 DEF OneHolder, InHand
  <2>3. \A d \in Calls : execs'[d] = IF d = c THEN 1 ELSE execs[d]
    BY <2>1, <2>2 DEF TypeOK
  <2> QED
    BY <2>3 DEF NeverReexecuted
<1> QED
  BY <1>1, OnlyToolsExecute DEF NeverReexecuted

(* ReconcileChatState, "It never re-executes a tool": however often the    *)
(* process dies, a resume fails or a new message is posted over a pending  *)
(* card, no tool runs a second time. OneHolder carries it: what may still  *)
(* run is in one hand.                                                     *)
THEOREM NothingRunsTwice == ASSUME Serial PROVE Spec => []NeverReexecuted
<1>1. Init => ConsentInv /\ NeverReexecuted
  BY EmptySeq DEF Init, NoCalls, NoAnswer, ConsentInv, AskedIsDeclared, CheckpointAsked,
     YesWasSaid, CalledIsSanctioned, RunsOnlyOnYes, NeverReexecuted
<1>2. SerialInv => OneHolder
  BY DEF SerialInv
<1> QED
  BY <1>1, <1>2, TypeCorrect, ConsentInductive, SerialInit, SerialStep, ExecutesOnce, PTL DEF Spec

(* resolveInterruptAndAct resumes from the saved checkpoint: once a turn   *)
(* has settled, the checkpoint is the one that asked for whatever the user *)
(* is still shown as waiting, since PendingStore.Clear comes before the    *)
(* checkpoint is overwritten.                                              *)
THEOREM WaitingCanResume == ASSUME Serial PROVE Spec => []WaitingIsResumable
<1>1. Init => ConsentInv
  BY EmptySeq DEF Init, NoCalls, NoAnswer, ConsentInv, AskedIsDeclared, CheckpointAsked,
     YesWasSaid, CalledIsSanctioned, RunsOnlyOnYes
<1>2. SerialInv => WaitingIsResumable
  BY DEF SerialInv, PendingInv, WaitingIsResumable, Listed, Unresolved
<1> QED
  BY <1>1, <1>2, TypeCorrect, ConsentInductive, SerialInit, SerialStep, PTL DEF Spec

-----------------------------------------------------------------------------
(* The status at rest                                                      *)

NoneLate == \A c \in Calls : late[c] = "none"

(* A status that was computed and is still to be written is the one the    *)
(* pending list calls for; one answer at a time is under way, and only     *)
(* while no run is.                                                        *)
StatusInv ==
  /\ \A r \in Runs : pc[r] = "write" => note[r] = HeadStatus("idle")
  /\ \A r \in Runs : pc[r] = "finish" => status = HeadStatus("idle")
  /\ \A r \in Runs : Busy(r) => NoneLate
  /\ \A c, d \in Calls : late[c] # "none" /\ late[d] # "none" => c = d
  /\ \A c \in Calls : late[c] # "none" => Unresolved # {}
  /\ \A c \in Calls : late[c] \notin {"none", "read"} => late[c] = HeadStatus("idle")
  /\ ~up => NoneLate
  /\ RestStatusIsTrue

(* The head is a matter of the list.                                       *)
LEMMA SameHead ==
  ASSUME UNCHANGED pend
  PROVE  /\ HeadStatus("idle")' = HeadStatus("idle")
         /\ (Unresolved = {})' <=> (Unresolved = {})
<1>1. Unresolved' = Unresolved
  BY DEF Unresolved
<1> QED
  BY <1>1 DEF HeadStatus

(* With an unanswered item the fallback does not matter, without it        *)
(* decides.                                                                *)
LEMMA HeadOf ==
  /\ Unresolved # {} => HeadStatus("running") = HeadStatus("idle")
  /\ Unresolved = {} => HeadStatus("idle") = "idle"
  BY DEF HeadStatus

(* What does not touch the list or the status keeps StatusInv.             *)
LEMMA SameStatus ==
  ASSUME StatusInv, UNCHANGED <<pend, pc, note, status, late, up>>
  PROVE  StatusInv'
  BY SameHead DEF StatusInv, RestStatusIsTrue, NoneLate, Quiet, Busy

(* While a run is busy with something else than its last status, StatusInv *)
(* says nothing but that no answer is under way.                           *)
LEMMA BusyStatus ==
  ASSUME TypeOK, OneAtATime, StatusInv, NEW r \in Runs, Busy(r), Busy(r)', UNCHANGED <<late, up>>,
         \A q \in Runs : q # r => pc'[q] = pc[q],
         pc'[r] \notin {"write", "finish"}
  PROVE  StatusInv'
<1>1. NoneLate /\ NoneLate'
  BY DEF StatusInv, NoneLate
<1>2. \A q \in Runs : q # r => pc'[q] \in AtRest
  BY DEF OneAtATime, Busy
<1>3. ~Quiet'
  BY DEF Quiet, Busy
<1> QED
  BY <1>1, <1>2, <1>3 DEF StatusInv, RestStatusIsTrue, NoneLate, AtRest

(* Steps of a run.                                                         *)
LEMMA RunStepStatus ==
  ASSUME TypeOK, OneAtATime, PendingInv, StatusInv, NEW r \in Runs, RunStep(r)
  PROVE  StatusInv'
<1>0. pc \in [Runs -> Labels] /\ note \in [Runs -> Statuses]
  BY DEF TypeOK
<1>1. CASE \E c \in Calls : RunTool(r, c)
  BY <1>1, SameStatus DEF RunTool, durable, handler
<1>2. CASE ReadHead(r)
  <2>1. /\ pc'[r] = "write" /\ \A q \in Runs : q # r => pc'[q] = pc[q]
        /\ note'[r] = HeadStatus("idle") /\ UNCHANGED <<pend, status, late, up>>
        /\ pc[r] \in {"finalize", "close"}
    BY <1>0, <1>2 DEF ReadHead, Goto, durable, FinalStatus
  <2>2. NoneLate /\ NoneLate'
    BY <2>1 DEF StatusInv, NoneLate, Busy, AtRest
  <2>3. \A q \in Runs : q # r => pc'[q] \in AtRest
    BY <2>1 DEF OneAtATime, Busy, AtRest
  <2>4. ~Quiet'
    BY <2>1 DEF Quiet, AtRest
  <2> QED
    BY <2>1, <2>2, <2>3, <2>4, SameHead DEF StatusInv, RestStatusIsTrue, NoneLate, AtRest
<1>3. CASE WriteStatus(r)
  <2>1. /\ pc'[r] = "finish" /\ \A q \in Runs : q # r => pc'[q] = pc[q]
        /\ status' = note[r] /\ UNCHANGED <<pend, late, up>>
        /\ pc[r] = "write"
    BY <1>0, <1>3 DEF WriteStatus, Goto
  <2>2. NoneLate /\ NoneLate' /\ status' = HeadStatus("idle")'
    BY <2>1, SameHead DEF StatusInv, NoneLate, Busy, AtRest
  <2>3. \A q \in Runs : q # r => pc'[q] \in AtRest
    BY <2>1 DEF OneAtATime, Busy, AtRest
  <2>4. ~Quiet'
    BY <2>1 DEF Quiet, AtRest
  <2> QED
    BY <2>1, <2>2, <2>3, <2>4 DEF StatusInv, RestStatusIsTrue, NoneLate, AtRest
<1>4. CASE LoadFails(r)
  <2>1. /\ pc'[r] = "finish" /\ \A q \in Runs : q # r => pc'[q] = pc[q]
        /\ status' = "idle" /\ UNCHANGED <<pend, late, up>>
        /\ pc[r] = "load"
    BY <1>0, <1>4 DEF LoadFails, Goto
  <2>2. pend = <<>>
    BY <2>1 DEF PendingInv, NothingPends
  <2>3. HeadStatus("idle")' = "idle"
    BY <2>1, <2>2, HeadOf, SameHead DEF Unresolved
  <2>4. NoneLate /\ NoneLate'
    BY <2>1 DEF StatusInv, NoneLate, Busy, AtRest
  <2>5. \A q \in Runs : q # r => pc'[q] \in AtRest
    BY <2>1 DEF OneAtATime, Busy, AtRest
  <2>6. ~Quiet'
    BY <2>1 DEF Quiet, AtRest
  <2> QED
    BY <2>1, <2>3, <2>4, <2>5, <2>6 DEF StatusInv, RestStatusIsTrue, NoneLate, AtRest
<1>5. CASE Finish(r)
  <2>1. /\ pc'[r] = "done" /\ \A q \in Runs : q # r => pc'[q] = pc[q]
        /\ UNCHANGED <<pend, status, late, up>>
        /\ pc[r] = "finish"
    BY <1>0, <1>5 DEF Finish, Goto, durable
  <2>2. NoneLate /\ NoneLate' /\ status' = HeadStatus("idle")'
    BY <2>1, SameHead DEF StatusInv, NoneLate, Busy, AtRest
  <2>3. \A q \in Runs : q # r => pc'[q] \in AtRest
    BY <2>1 DEF OneAtATime, Busy, AtRest
  <2> QED
    BY <2>1, <2>2, <2>3 DEF StatusInv, RestStatusIsTrue, NoneLate, AtRest
<1>6. ASSUME ~(\E c \in Calls : RunTool(r, c)), ~ReadHead(r), ~WriteStatus(r), ~LoadFails(r), ~Finish(r)
      PROVE  StatusInv'
  <2>1. /\ Busy(r) /\ UNCHANGED <<up, late>>
        /\ \A q \in Runs : q # r => pc'[q] = pc[q]
    BY <1>6, StepsAreBusy
  <2>2. pc'[r] \notin AtRest \cup {"write", "finish"}
    <3>1. CASE Handling(r)
      BY <1>0, <3>1 DEF Handling, ListPrior, StoreUser, StartCreate, CreateBuffer, ClearPending,
         ClearPendingRows, DropPendingRow, ResumeRead, ResumeWrite, ResumeCreate, Goto, AtRest
    <3>2. CASE Driving(r)
      BY <1>0, <1>6, <3>2 DEF Driving, BeginRun, BeginResume, LoadCheckpoint, DeclareCalls, Reply,
         Interrupt, AskUser, DeliverResult, Record, InsertPendingRow, MarkWaiting, Exhaust, Fail,
         Abandon, handler, Goto, AtRest, AfterError
    <3>3. CASE Settling(r)
      BY <1>0, <1>6, <3>3 DEF Settling, CheckPending, KeepPartial, ScanOpen, CloseOpen, Goto,
         AtRest, AfterLoop
    <3> QED
      BY <3>1, <3>2, <3>3 DEF RunStep
  <2> QED
    BY <2>1, <2>2, BusyStatus DEF Busy
<1> QED
  BY <1>1, <1>2, <1>3, <1>4, <1>5, <1>6

(* Posts and answers.                                                      *)
LEMMA UserStatus ==
  ASSUME Patient, TypeOK, OneAtATime, StatusInv, UserStep
  PROVE  StatusInv'
<1>0. pc \in [Runs -> Labels] /\ late \in [Calls -> Statuses \cup {"none", "read"}]
  BY DEF TypeOK
<1>1. CASE Cancel
  BY <1>1, SameStatus DEF Cancel, durable, handler
<1>2. ASSUME NEW r \in Runs, Post(r) PROVE StatusInv'
  <2>1. /\ Quiet /\ NoneLate /\ up /\ pc'[r] = "posted" /\ UNCHANGED <<late, up>>
        /\ \A q \in Runs : q # r => pc'[q] = pc[q]
    BY <1>0, <1>2 DEF Post, Patient, Serial, NoneLate, Goto
  <2>2. /\ NoneLate' /\ ~Quiet' /\ \A q \in Runs : pc'[q] \in AtRest \cup {"posted"}
    BY <2>1 DEF NoneLate, Quiet, AtRest
  <2> QED
    BY <2>1, <2>2 DEF StatusInv, RestStatusIsTrue, NoneLate, AtRest
<1>3. ASSUME NEW c \in Calls, NEW a \in Answers, NEW r \in Runs, AnswerLast(c, a, r)
      PROVE  StatusInv'
  <2>1. /\ Quiet /\ NoneLate /\ up /\ pc'[r] = "resolved" /\ UNCHANGED <<late, up>>
        /\ \A q \in Runs : q # r => pc'[q] = pc[q]
    BY <1>0, <1>3 DEF AnswerLast, MayAnswer, Patient, Serial, NoneLate, Goto
  <2>2. /\ NoneLate' /\ ~Quiet' /\ \A q \in Runs : pc'[q] \in AtRest \cup {"resolved"}
    BY <2>1 DEF NoneLate, Quiet, AtRest
  <2> QED
    BY <2>1, <2>2 DEF StatusInv, RestStatusIsTrue, NoneLate, AtRest
<1>4. ASSUME NEW c \in Calls, NEW a \in Answers, AnswerOne(c, a) PROVE StatusInv'
  <2>1. /\ Quiet /\ NoneLate /\ up /\ UNCHANGED <<pc, up>> /\ late' = [late EXCEPT ![c] = "read"]
        /\ c \in Listed /\ Listed # {c} /\ pend' = Resolved(c, a)
    BY <1>4 DEF AnswerOne, MayAnswer, Patient, Serial, NoneLate
  <2>2. \A d \in Calls : late'[d] = IF d = c THEN "read" ELSE "none"
    BY <1>0, <2>1 DEF NoneLate
  <2>3. Unresolved' # {}
    <3>1. PICK i \in Unresolved : pend[i].call # c
      BY <2>1 DEF Listed
    <3>2. i \in DOMAIN pend' /\ pend'[i].ans = "none"
      BY <2>1, <3>1 DEF Resolved, Unresolved
    <3> QED
      BY <3>2 DEF Unresolved
  <2>4. \A q \in Runs : pc'[q] \in AtRest
    BY <2>1 DEF Quiet
  <2>5. ~NoneLate' /\ ~(\A d \in Calls : late'[d] = "none")
    BY <2>2 DEF NoneLate
  <2> QED
    BY <2>1, <2>2, <2>3, <2>4, <2>5 DEF StatusInv, RestStatusIsTrue, NoneLate, AtRest, Busy
<1> QED
  BY <1>1, <1>2, <1>3, <1>4 DEF UserStep

(* An answer that was not the last writes the status it has read.          *)
LEMMA LateStatus ==
  ASSUME TypeOK, OneAtATime, StatusInv, LateStep
  PROVE  StatusInv'
<1>0. late \in [Calls -> Statuses \cup {"none", "read"}]
  BY DEF TypeOK
<1>1. PICK c \in Calls : LateRead(c) \/ LateWrite(c)
  BY DEF LateStep
<1>2. /\ up /\ late[c] # "none" /\ UNCHANGED <<pend, pc, note, up>>
  BY <1>1 DEF LateRead, LateWrite, durable
<1>3. /\ Unresolved # {} /\ Unresolved' # {} /\ \A d \in Calls : d # c => late[d] = "none"
      /\ \A q \in Runs : pc[q] \in AtRest
  BY <1>2, SameHead DEF StatusInv, NoneLate, Busy
<1>4. CASE LateRead(c)
  <2>1. late' = [late EXCEPT ![c] = HeadStatus("idle")] /\ UNCHANGED status
    BY <1>3, <1>4, HeadOf DEF LateRead, durable
  <2>2. HeadStatus("idle") \in Statuses
    BY HeadStatusType DEF Statuses
  <2>3. \A d \in Calls : late'[d] = IF d = c THEN HeadStatus("idle") ELSE "none"
    BY <1>0, <1>3, <2>1
  <2>4. HeadStatus("idle") # "none"
    BY <2>2 DEF Statuses, Stale
  <2>5. late'[c] # "none" /\ late'[c] = HeadStatus("idle")'
    BY <1>2, <2>3, <2>4, SameHead
  <2> QED
    BY <1>2, <1>3, <2>3, <2>5 DEF StatusInv, RestStatusIsTrue, NoneLate, AtRest, Busy
<1>5. CASE LateWrite(c)
  <2>1. /\ late' = [late EXCEPT ![c] = "none"] /\ status' = late[c] /\ late[c] \notin {"none", "read"}
    BY <1>5 DEF LateWrite
  <2>2. status' = HeadStatus("idle")'
    BY <1>2, <2>1, SameHead DEF StatusInv
  <2>3. \A d \in Calls : late'[d] = "none"
    BY <1>0, <1>3, <2>1
  <2> QED
    BY <1>2, <1>3, <2>2, <2>3 DEF StatusInv, RestStatusIsTrue, NoneLate, AtRest, Busy
<1> QED
  BY <1>1, <1>4, <1>5

(* Every step keeps the status true at rest.                               *)
LEMMA StatusStep ==
  ASSUME Patient, TypeOK, OneAtATime, PendingInv, StatusInv, [Next]_vars
  PROVE  StatusInv'
<1>1. CASE UNCHANGED vars
  BY <1>1, SameStatus DEF vars, durable, handler
<1>2. CASE Crash
  <2>1. /\ ~up' /\ NoneLate' /\ \A r \in Runs : pc'[r] \in AtRest
    BY <1>2 DEF Crash, AtRest, NoneLate
  <2> QED
    BY <2>1 DEF StatusInv, RestStatusIsTrue, NoneLate, AtRest, Busy
<1>3. CASE Reconcile
  <2>1. /\ ~up /\ UNCHANGED <<pc, late>> /\ NoneLate
        /\ pend' = [i \in DOMAIN pendDB' |-> Item(pendDB'[i])]
    BY <1>3 DEF Reconcile, handler, StatusInv
  <2>2. NoneLate' /\ \A r \in Runs : pc'[r] \in AtRest
    BY <2>1 DEF NoneLate, OneAtATime, Quiet
  <2>3. status' = HeadStatus("idle")'
    <3>1. CASE pendDB' # <<>>
      <4>1. pendDB' \in Seq(Calls)
        BY TypeInductive DEF TypeOK
      <4>2. /\ Len(pendDB') \in Nat /\ DOMAIN pendDB' = 1..Len(pendDB') /\ 1 \in DOMAIN pendDB'
            /\ \A i \in DOMAIN pendDB' : 1 <= i
        BY <3>1, <4>1, LenProperties, EmptySeq
      <4>3. Unresolved' = DOMAIN pendDB' /\ pend'[1].call = pendDB'[1]
        BY <2>1, <4>2 DEF Unresolved, Item
      <4>4. \A i \in Unresolved' : (\A j \in Unresolved' : i <= j) => i = 1
        BY <4>2, <4>3
      <4>5. HeadStatus("idle")' = Waiting(Kind[pend'[1].call])
        BY <4>2, <4>3, <4>4 DEF HeadStatus
      <4> QED
        BY <1>3, <3>1, <4>3, <4>5 DEF Reconcile
    <3>2. CASE pendDB' = <<>>
      <4>1. Unresolved' = {}
        BY <2>1, <3>2 DEF Unresolved
      <4>2. HeadStatus("idle")' = "idle"
        BY <4>1 DEF HeadStatus
      <4> QED
        BY <1>3, <3>2, <4>2 DEF Reconcile, TypeOK, Statuses
    <3> QED
      BY <3>1, <3>2
  <2> QED
    BY <2>2, <2>3 DEF StatusInv, RestStatusIsTrue, NoneLate, AtRest, Busy
<1> QED
  BY <1>1, <1>2, <1>3, RunStepStatus, UserStatus, LateStatus DEF Next

(* Once everything has settled the sidebar tells the truth, after errors,  *)
(* cancels, crashes and failing resumes too, if the user does not answer   *)
(* two cards at the same instant: the last writer of agent_status has read *)
(* the head of the list after everything that moved it.                    *)
THEOREM StatusAtRest == ASSUME Patient PROVE Spec => []RestStatusIsTrue
<1>1. Init => ConsentInv
  BY EmptySeq DEF Init, NoCalls, NoAnswer, ConsentInv, AskedIsDeclared, CheckpointAsked,
     YesWasSaid, CalledIsSanctioned, RunsOnlyOnYes
<1>2. Init => StatusInv
  BY DEF Init, StatusInv, RestStatusIsTrue, NoneLate, Busy, AtRest, HeadStatus, Unresolved
<1>3. SerialInv => OneAtATime /\ PendingInv
  BY DEF SerialInv
<1>4. StatusInv => RestStatusIsTrue
  BY DEF StatusInv
<1>5. TypeOK /\ OneAtATime /\ PendingInv /\ StatusInv /\ [Next]_vars => StatusInv'
  BY StatusStep
<1>6. TypeOK /\ ConsentInv /\ SerialInv /\ [Next]_vars => SerialInv'
  BY SerialStep DEF Patient
<1> QED
  BY <1>1, <1>2, <1>3, <1>4, <1>5, <1>6, TypeCorrect, ConsentInductive, SerialInit, PTL DEF Spec

-----------------------------------------------------------------------------
(* What a transcript declares and answers                                  *)

(* What a row at the end declares, or answers, is added to the rest.       *)
LEMMA RowsAppend ==
  ASSUME NEW h \in Seq(Row), NEW x \in Row
  PROVE  /\ Declared(Append(h, x)) = IF x.role = "assistant" THEN Declared(h) \cup x.calls ELSE Declared(h)
         /\ Resulted(Append(h, x)) = IF x.role = "tool" THEN Resulted(h) \cup x.calls ELSE Resulted(h)
<1> DEFINE g == Append(h, x)
<1>1. Len(h) \in Nat /\ DOMAIN h = 1..Len(h) /\ DOMAIN g = 1..(Len(h) + 1)
      /\ (\A i \in 1..Len(h) : g[i] = h[i]) /\ g[Len(h) + 1] = x
  BY AppendProperties, LenProperties
<1> HIDE DEF g
<1>2. \A i \in DOMAIN g : (i \in DOMAIN h /\ g[i] = h[i]) \/ i = Len(h) + 1
  BY <1>1
<1>3. \A i \in DOMAIN h : i \in DOMAIN g /\ g[i] = h[i]
  BY <1>1
<1>4. Len(h) + 1 \in DOMAIN g
  BY <1>1
<1>5. Declared(g) = IF x.role = "assistant" THEN Declared(h) \cup x.calls ELSE Declared(h)
  BY <1>1, <1>2, <1>3, <1>4 DEF Declared
<1>6. Resulted(g) = IF x.role = "tool" THEN Resulted(h) \cup x.calls ELSE Resulted(h)
  BY <1>1, <1>2, <1>3, <1>4 DEF Resulted
<1> QED
  BY <1>5, <1>6 DEF g

(* A result appended at the end closes its call and no other.              *)
LEMMA RowsResult ==
  ASSUME NEW h \in Seq(Row), NEW c \in Calls, NEW out \in Outcomes
  PROVE  /\ Declared(AppendToolResult(h, c, out)) = Declared(h)
         /\ Resulted(AppendToolResult(h, c, out)) = Resulted(h) \cup {c}
<1>1. ToolRow(c, out) \in Row /\ ToolRow(c, out).role = "tool" /\ ToolRow(c, out).calls = {c}
  BY ToolRowType DEF ToolRow
<1> QED
  BY <1>1, RowsAppend DEF AppendToolResult

(* An order of a finite set names every element of it.                     *)
LEMMA OrdersAll ==
  ASSUME NEW S \in SUBSET Calls, NEW s \in Orders(S)
  PROVE  {s[i] : i \in DOMAIN s} = S
<1> DEFINE n == Cardinality(S)
           T == {s[i] : i \in 1..n}
<1>1. n \in Nat /\ s \in [1..n -> S] /\ \A i, j \in 1..n : i # j => s[i] # s[j]
  BY OrdersType DEF Orders
<1>2. IsFiniteSet(S)
  BY FS_Subset, ChatAssumption
<1> HIDE DEF n
<1>3. T \subseteq S
  BY <1>1
<1>4. IsFiniteSet(T) /\ IsFiniteSet(1..n) /\ Cardinality(1..n) = n
  BY <1>1, <1>2, <1>3, FS_Subset, FS_Interval
<1>5. Cardinality(T) = n
  <2>1. s \in Bijection(1..n, T)
    BY <1>1 DEF Bijection, Injection, Surjection, IsInjective
  <2> QED
    BY <1>4, <2>1, FS_Bijection DEF ExistsBijection
<1>6. T = S
  BY <1>2, <1>3, <1>5, FS_Subset DEF n
<1> QED
  BY <1>1, <1>6

(* CloseOpen closes all calls of the last turn that are open.              *)
LEMMA RowsClosing ==
  ASSUME NEW h \in Seq(Row), NEW s \in Orders(OpenToolCalls(h))
  PROVE  LET g == h \o [i \in DOMAIN s |-> ToolRow(s[i], "canceled")]
         IN  /\ Declared(g) = Declared(h)
             /\ Resulted(g) = Resulted(h) \cup OpenToolCalls(h)
<1> DEFINE t == [i \in DOMAIN s |-> ToolRow(s[i], "canceled")]
           g == h \o t
           n == Len(t)
<1>1. OpenToolCalls(h) \in SUBSET Calls
  BY DeclaredType
<1>2. t \in Seq(Row) /\ {s[i] : i \in DOMAIN s} = OpenToolCalls(h)
  BY <1>1, ClosingRows, OrdersAll
<1>3. DOMAIN t = DOMAIN s /\ \A i \in DOMAIN s : t[i].role = "tool" /\ t[i].calls = {s[i]}
  BY DEF ToolRow
<1> HIDE DEF t
<1>4. /\ Len(h) \in Nat /\ n \in Nat /\ DOMAIN h = 1..Len(h) /\ DOMAIN t = 1..n
      /\ DOMAIN g = 1..(Len(h) + n)
      /\ \A i \in 1..(Len(h) + n) : g[i] = IF i <= Len(h) THEN h[i] ELSE t[i - Len(h)]
  <2>1. g \in Seq(Row) /\ Len(g) = Len(h) + n
    BY <1>2, ConcatProperties
  <2> QED
    BY <1>2, <2>1, ConcatProperties, LenProperties
<1> HIDE DEF g, n
<1>5. ASSUME NEW i \in DOMAIN g
      PROVE  \/ i \in DOMAIN h /\ g[i] = h[i]
             \/ i - Len(h) \in DOMAIN t /\ g[i] = t[i - Len(h)]
  <2>1. CASE i <= Len(h)
    BY <1>4, <2>1
  <2>2. CASE ~(i <= Len(h))
    <3>1. i - Len(h) \in 1..n
      BY <1>4, <2>2
    <3> QED
      BY <1>4, <2>2, <3>1
  <2> QED
    BY <2>1, <2>2
<1>6. \A i \in DOMAIN h : i \in DOMAIN g /\ g[i] = h[i]
  BY <1>4
<1>7. \A k \in DOMAIN t : Len(h) + k \in DOMAIN g /\ g[Len(h) + k] = t[k]
  <2> SUFFICES ASSUME NEW k \in DOMAIN t PROVE Len(h) + k \in DOMAIN g /\ g[Len(h) + k] = t[k]
    OBVIOUS
  <2>1. Len(h) + k \in 1..(Len(h) + n) /\ ~(Len(h) + k <= Len(h)) /\ (Len(h) + k) - Len(h) = k
    BY <1>4
  <2> QED
    BY <1>4, <2>1
<1>8. Declared(g) = Declared(h)
  BY <1>3, <1>5, <1>6 DEF Declared
<1>9. Resulted(g) \subseteq Resulted(h) \cup OpenToolCalls(h)
  BY <1>2, <1>3, <1>5 DEF Resulted
<1>10. Resulted(h) \subseteq Resulted(g)
  BY <1>6 DEF Resulted
<1>11. OpenToolCalls(h) \subseteq Resulted(g)
  <2> SUFFICES ASSUME NEW k \in DOMAIN s PROVE s[k] \in Resulted(g)
    BY <1>2
  <2>1. Len(h) + k \in DOMAIN g /\ g[Len(h) + k].role = "tool" /\ s[k] \in g[Len(h) + k].calls
    BY <1>3, <1>7
  <2> QED
    BY <2>1 DEF Resulted
<1> QED
  BY <1>8, <1>9, <1>10, <1>11 DEF g, t


(* Who writes rows.                                                        *)
LEMMA RowWriters ==
  ASSUME [Next]_vars
  PROVE  \/ UNCHANGED rows \/ Reconcile
         \/ \E r \in Runs : \/ StoreUser(r) \/ Reply(r) \/ KeepPartial(r) \/ DeclareCalls(r) \/ CloseOpen(r)
                            \/ \E c \in Calls : DeliverResult(r, c)
  BY DEF Next, vars, UserStep, Post, AnswerOne, AnswerLast, Cancel, LateStep, LateRead, LateWrite,
     Crash, RunStep, Handling, Driving, Settling, ListPrior, StartCreate,
     CreateBuffer, ClearPending, ClearPendingRows, DropPendingRow, ResumeRead, ResumeWrite,
     ResumeCreate, BeginRun, BeginResume, LoadCheckpoint, LoadFails, RunTool,
     Interrupt, AskUser, Record, InsertPendingRow, MarkWaiting, Exhaust, Fail,
     Abandon, CheckPending, ScanOpen, ReadHead, WriteStatus, Finish, durable

(* What each step does to the rows, as far as calls are concerned.         *)
RowsKept == Declared(rows') = Declared(rows) /\ Resulted(rows') = Resulted(rows)

(* What each step does to the transcript: it grows at the end.             *)
LEMMA RowsStep ==
  ASSUME TypeOK, [Next]_vars
  PROVE  \/ RowsKept
         \/ \E r \in Runs : DeclareCalls(r)
         \/ /\ Declared(rows') = Declared(rows)
            /\ \E r \in Runs, c \in Calls :
                 /\ DeliverResult(r, c) \/ (CloseOpen(r) /\ c \in todo[r] /\ todo' = [todo EXCEPT ![r] = @ \ {c}])
                 /\ Resulted(rows') = Resulted(rows) \cup {c}
         \/ /\ Declared(rows') = Declared(rows) /\ Reconcile /\ pendDB' = <<>>
            /\ Resulted(rows') = Resulted(rows) \cup OpenToolCalls(rows)
<1>0. rows \in Seq(Row) /\ todo \in [Runs -> SUBSET Calls] /\ call \in [Runs -> [Calls -> Phases]]
  BY DEF TypeOK
<1>1. ASSUME NEW r \in Runs, StoreUser(r) \/ Reply(r) \/ KeepPartial(r) PROVE RowsKept
  <2>1. \/ UNCHANGED rows
        \/ rows' = Append(rows, UserRow) \/ rows' = Append(rows, AssistantRow({}))
    BY <1>1 DEF StoreUser, Reply, KeepPartial
  <2> QED
    BY ZenonT(40), <1>0, <2>1, UserRowType, AssistantRowType, RowsAppend DEF RowsKept, UserRow, AssistantRow
<1>2. ASSUME NEW r \in Runs, NEW c \in Calls, DeliverResult(r, c)
      PROVE  Declared(rows') = Declared(rows) /\ Resulted(rows') = Resulted(rows) \cup {c}
  <2>1. rows' = AppendToolResult(rows, c, call[r][c]) /\ call[r][c] \in Outcomes
    BY <1>2 DEF DeliverResult, Outcomes
  <2> QED
    BY <1>0, <2>1, RowsResult
<1>3. ASSUME NEW r \in Runs, CloseOpen(r)
      PROVE  /\ Declared(rows') = Declared(rows)
             /\ \E c \in Calls : /\ c \in todo[r] /\ todo' = [todo EXCEPT ![r] = @ \ {c}]
                                 /\ Resulted(rows') = Resulted(rows) \cup {c}
  <2>1. PICK c \in todo[r] : /\ rows' = AppendToolResult(rows, c, "canceled")
                             /\ todo' = [todo EXCEPT ![r] = @ \ {c}]
    BY <1>3 DEF CloseOpen
  <2>2. c \in Calls
    BY <1>0
  <2> QED
    BY <1>0, <2>1, <2>2, RowsResult DEF Outcomes
<1>4. ASSUME Reconcile
      PROVE  \/ RowsKept
             \/ /\ Declared(rows') = Declared(rows) /\ pendDB' = <<>>
                /\ Resulted(rows') = Resulted(rows) \cup OpenToolCalls(rows)
  BY <1>0, <1>4, RowsClosing DEF Reconcile, RowsKept
<1>5. UNCHANGED rows => RowsKept
  BY DEF RowsKept
<1> QED
  BY <1>1, <1>2, <1>3, <1>4, <1>5, RowWriters

-----------------------------------------------------------------------------
(* A call that waits is not closed                                         *)

Opening  == {"posted", "listed", "stored", "created"}
Starting == {"unused", "cleared", "starting"} \cup Opening
Gate     == {"tail", "partial", "check", "scan", "close"}

(* Only declared calls have results, and only declared ones are closed.    *)
ResultsKnown ==
  /\ Resulted(rows) \subseteq Declared(rows)
  /\ \A r \in Runs : pc[r] = "close" => todo[r] \subseteq Declared(rows)

(* Once a run has emitted its interrupts, every call the checkpoint asked  *)
(* about is in the pending list, unanswered, and the close loop spares it. *)
AskedPends ==
  /\ \A r \in Runs : pc[r] \in {"insert", "mark"} => \A c \in now[r] : Pends(c)
  /\ \A r \in Runs : pc[r] \in Emitting =>
       \A c \in Calls : ckpt[c] = "asked" => Pends(c) \/ c \in emit[r]
  /\ \A r \in Runs : pc[r] \in Gate /\ pend # <<>> =>
       \A c \in Calls : ckpt[c] = "asked" => Pends(c)
  /\ \A r \in Runs : Busy(r) /\ pc[r] \notin Opening => \A i \in DOMAIN pend : pend[i].ans = "none"
  /\ \A r \in Runs : pc[r] = "close" => todo[r] \cap Guarded = {}

(* A call a runner may still run, or a checkpoint still ask about, has no  *)
(* result.                                                                 *)
HeldIsOpen ==
  /\ \A r \in Runs : pc[r] \in Starting => \A c \in Calls : ~InHand(r, c)
  /\ \A r \in Runs, c \in Calls :
       pc[r] = "loop" /\ InHand(r, c) /\ Kind[c] # "question" => c \notin Resulted(rows)
  /\ \A c \in Calls :
       Active /\ ckpt[c] = "asked" /\ Kind[c] # "question" => c \notin Resulted(rows)

(* Which steps bring a run to the close loop, or fill its list.            *)
LEMMA CloseStep ==
  ASSUME TypeOK, [Next]_vars, NEW q \in Runs, pc'[q] = "close"
  PROVE  \/ ScanOpen(q)
         \/ pc[q] = "close" /\ (todo'[q] \subseteq todo[q])
<1>0. pc \in [Runs -> Labels] /\ todo \in [Runs -> SUBSET Calls]
  BY DEF TypeOK
<1>1. ASSUME NEW r \in Runs, Handling(r) PROVE pc[q] = "close" /\ (todo'[q] \subseteq todo[q])
  BY <1>0, <1>1 DEF Handling, ListPrior, StoreUser, StartCreate, CreateBuffer, ClearPending,
     ClearPendingRows, DropPendingRow, ResumeRead, ResumeWrite, ResumeCreate, Goto
<1>2. ASSUME NEW r \in Runs, Driving(r) PROVE pc[q] = "close" /\ (todo'[q] \subseteq todo[q])
  BY <1>0, <1>2 DEF Driving, BeginRun, BeginResume, LoadCheckpoint, LoadFails, DeclareCalls, Reply,
     Interrupt, RunTool, AskUser, DeliverResult, Record, InsertPendingRow, MarkWaiting, Exhaust,
     Fail, Abandon, AfterError, Goto, handler
<1>3. ASSUME NEW r \in Runs, Settling(r), ~ScanOpen(q)
      PROVE  pc[q] = "close" /\ (todo'[q] \subseteq todo[q])
  BY <1>0, <1>3 DEF Settling, CheckPending, KeepPartial, ScanOpen, CloseOpen, ReadHead,
     WriteStatus, Finish, AfterLoop, Goto
<1>4. ASSUME \/ UserStep \/ LateStep \/ Crash \/ Reconcile \/ UNCHANGED vars
      PROVE  pc[q] = "close" /\ (todo'[q] \subseteq todo[q])
  BY <1>0, <1>4 DEF UserStep, Post, AnswerOne, AnswerLast, Cancel, LateStep, LateRead, LateWrite,
     Crash, Reconcile, vars, handler, Goto
<1> QED
  BY <1>1, <1>2, <1>3, <1>4 DEF Next, RunStep

(* A call with a result has been declared.                                 *)
LEMMA ResultsKnownStep ==
  ASSUME TypeOK, ConsentInv, ResultsKnown, [Next]_vars
  PROVE  ResultsKnown'
<1>0. rows \in Seq(Row) /\ call \in [Runs -> [Calls -> Phases]]
  BY DEF TypeOK
<1>1. Declared(rows) \subseteq Declared(rows')
  <2>1. ASSUME NEW r \in Runs, DeclareCalls(r) PROVE Declared(rows) \subseteq Declared(rows')
    <3>1. PICK S \in SUBSET (Calls \ Declared(rows)) : rows' = Append(rows, AssistantRow(S))
      BY <2>1 DEF DeclareCalls
    <3> QED
      BY <1>0, <3>1, AssistantRowType, DeclaredAppend
  <2> QED
    BY <2>1, RowsStep DEF RowsKept
<1>2. \A r \in Runs : pc'[r] = "close" => todo'[r] \subseteq Declared(rows')
  <2> SUFFICES ASSUME NEW r \in Runs, pc'[r] = "close" PROVE todo'[r] \subseteq Declared(rows')
    OBVIOUS
  <2>1. CASE ScanOpen(r)
    BY <1>1, <2>1 DEF ScanOpen, OpenToolCalls, TypeOK
  <2>2. CASE pc[r] = "close" /\ (todo'[r] \subseteq todo[r])
    BY <1>1, <2>2 DEF ResultsKnown
  <2> QED
    BY <2>1, <2>2, CloseStep
<1>3. Resulted(rows') \subseteq Declared(rows')
  <2>1. ASSUME NEW r \in Runs, DeclareCalls(r) PROVE Resulted(rows') = Resulted(rows)
    <3>1. PICK S \in SUBSET (Calls \ Declared(rows)) : rows' = Append(rows, AssistantRow(S))
      BY <2>1 DEF DeclareCalls
    <3> QED
      BY <1>0, <3>1, AssistantRowType, RowsAppend DEF AssistantRow
  <2>2. ASSUME NEW r \in Runs, NEW c \in Calls, DeliverResult(r, c) \/ (CloseOpen(r) /\ c \in todo[r])
        PROVE  c \in Declared(rows)
    BY <2>2 DEF DeliverResult, CloseOpen, ConsentInv, AskedIsDeclared, ResultsKnown
  <2> QED
    BY <1>1, <2>1, <2>2, RowsStep DEF ResultsKnown, RowsKept, OpenToolCalls
<1> QED
  BY <1>2, <1>3 DEF ResultsKnown


-----------------------------------------------------------------------------
(* Every call the checkpoint asks about is pending before the gate         *)

(* A step of a busy run that only moves on.                                *)
LEMMA MovesAsked ==
  ASSUME TypeOK, OneAtATime, AskedPends, NEW r \in Runs, Busy(r), NEW l, Goto(r, l),
         UNCHANGED ckpt, pend' = pend \/ pend' = <<>>,
         l \notin Emitting \cup {"close"},
         l \in Gate => pend' = <<>> \/ pc[r] \in Gate,
         pend' = <<>> \/ l \in Opening \/ pc[r] \notin Opening
  PROVE  AskedPends'
<1>1. pc \in [Runs -> Labels]
  BY DEF TypeOK
<1>2. pc'[r] = l /\ \A q \in Runs : q # r => pc'[q] = pc[q] /\ pc[q] \in AtRest
  BY <1>1 DEF Goto, OneAtATime, Busy
<1>3. \A q \in Runs : q # r => pc'[q] \notin Emitting \cup Gate \cup {"close"} /\ ~Busy(q)'
  BY <1>2 DEF AtRest, Emitting, Gate, Busy
<1>4. CASE pend' = <<>>
  BY <1>2, <1>3, <1>4 DEF AskedPends, Emitting
<1>5. CASE UNCHANGED pend
  <2>1. \A c : Pends(c)' <=> Pends(c)
    BY <1>5 DEF Pends
  <2> QED
    BY <1>2, <1>3, <1>5, <2>1 DEF AskedPends, Emitting
<1> QED
  BY <1>4, <1>5

(* A step that leaves everything AskedPends is about.                      *)
LEMMA SameAsked ==
  ASSUME AskedPends, UNCHANGED <<pend, ckpt, pc, emit, now>>, \A q \in Runs : todo'[q] \subseteq todo[q]
  PROVE  AskedPends'
<1>1. (\A c : Pends(c)' <=> Pends(c)) /\ Guarded' = Guarded
  BY DEF Pends, Guarded, Listed, Unresolved
<1> QED
  BY <1>1 DEF AskedPends, Busy

(* Steps of a run keep what was asked pending.                             *)
LEMMA RunStepAsked ==
  ASSUME TypeOK, OneAtATime, PendingInv, AskedPends, NEW r \in Runs, RunStep(r)
  PROVE  AskedPends'
<1>0. /\ pc \in [Runs -> Labels] /\ todo \in [Runs -> SUBSET Calls]
      /\ emit \in [Runs -> SUBSET Calls] /\ now \in [Runs -> SUBSET Calls]
  BY DEF TypeOK
<1>1. CASE Handling(r) /\ ~DropPendingRow(r)
  <2>1. PICK l \in {"listed", "stored", "created", "cleared", "starting", "restatus", "install", "resuming"} :
          /\ Goto(r, l)
          /\ l \in Opening \/ pc[r] \notin Opening \/ pend' = <<>>
    BY <1>1 DEF Handling, ListPrior, StoreUser, StartCreate, CreateBuffer, ClearPending,
       ClearPendingRows, ResumeRead, ResumeWrite, ResumeCreate, Opening
  <2>2. Busy(r) /\ UNCHANGED ckpt /\ (pend' = pend \/ pend' = <<>>)
    BY <1>1 DEF Handling, ListPrior, StoreUser, StartCreate, CreateBuffer, ClearPending,
       ClearPendingRows, ResumeRead, ResumeWrite, ResumeCreate, durable, Busy, AtRest
  <2> QED
    BY <2>1, <2>2, MovesAsked DEF Emitting, Gate
<1>2. CASE \/ DropPendingRow(r) \/ CloseOpen(r) \/ DeclareCalls(r)
           \/ \E c \in Calls : RunTool(r, c) \/ AskUser(r, c) \/ DeliverResult(r, c)
  <2>1. UNCHANGED <<pend, ckpt, pc, emit, now>> /\ \A q \in Runs : todo'[q] \subseteq todo[q]
    BY <1>0, <1>2 DEF DropPendingRow, CloseOpen, DeclareCalls, RunTool, AskUser, DeliverResult, durable,
       handler
  <2> QED
    BY <2>1, SameAsked
<1>3. CASE \/ BeginRun(r) \/ BeginResume(r) \/ LoadCheckpoint(r) \/ LoadFails(r) \/ Reply(r)
           \/ Exhaust(r) \/ Fail(r) \/ Abandon(r) \/ CheckPending(r) \/ KeepPartial(r) \/ ReadHead(r)
           \/ WriteStatus(r) \/ Finish(r)
  <2>1. PICK l \in {"loop", "load", "finish", "tail", "check", "partial", "scan", "finalize", "write", "done"} :
          Goto(r, l)
    BY <1>3 DEF BeginRun, BeginResume, LoadCheckpoint, LoadFails, Reply, Exhaust, Fail, Abandon,
       AfterError, AfterLoop, CheckPending, KeepPartial, ReadHead, WriteStatus, Finish
  <2>2. /\ Busy(r) /\ UNCHANGED <<ckpt, pend>> /\ pc[r] \notin Opening
        /\ l \in Gate => pc[r] \in Gate \cup {"loop"}
    BY <1>0, <1>3, <2>1 DEF BeginRun, BeginResume, LoadCheckpoint, LoadFails, Reply, Exhaust, Fail, Abandon,
       AfterError, AfterLoop, CheckPending, KeepPartial, ReadHead, WriteStatus, Finish, durable, Busy,
       AtRest, Opening, Gate, Goto
  <2>3. pc[r] = "loop" => pend = <<>>
    BY DEF PendingInv, NothingPends
  <2> QED
    BY <2>1, <2>2, <2>3, MovesAsked DEF Emitting
<1>4. CASE Interrupt(r)
  <2>1. /\ pc[r] = "loop" /\ pc'[r] = "emit" /\ \A q \in Runs : q # r => pc'[q] = pc[q]
        /\ ckpt' = call[r] /\ UNCHANGED pend /\ emit'[r] = {c \in Calls : call[r][c] = "asked"}
    BY <1>0, <1>4 DEF Interrupt, Goto
  <2>2. \A q \in Runs : q # r => pc'[q] \in AtRest
    BY <2>1 DEF OneAtATime, Busy, AtRest
  <2>3. pend' = <<>>
    BY <2>1 DEF PendingInv, NothingPends
  <2> QED
    BY <2>1, <2>2, <2>3 DEF AskedPends, Emitting, Gate, AtRest, Busy
<1>5. ASSUME NEW c \in Calls, Record(r, c) PROVE AskedPends'
  <2>1. /\ pc[r] = "emit" /\ c \in emit[r] /\ pc'[r] \in {"mark", "insert"}
        /\ \A q \in Runs : q # r => pc'[q] = pc[q]
        /\ now'[r] = {c} /\ UNCHANGED <<ckpt, emit>>
    BY <1>0, <1>5 DEF Record, Goto, durable
  <2>2. \A q \in Runs : q # r => pc'[q] \in AtRest
    BY <2>1 DEF OneAtATime, Busy, AtRest
  <2>3. /\ \A d : Pends(d) => Pends(d)'
        /\ Pends(c)'
        /\ (\A i \in DOMAIN pend : pend[i].ans = "none") => \A i \in DOMAIN pend' : pend'[i].ans = "none"
    <3>1. CASE UNCHANGED pend /\ Pends(c)
      BY <3>1 DEF Pends
    <3>2. CASE pend' = Append(pend, Item(c))
      <4>1. /\ DOMAIN pend' = 1..(Len(pend) + 1) /\ DOMAIN pend = 1..Len(pend) /\ Len(pend) \in Nat
            /\ \A i \in DOMAIN pend : pend'[i] = pend[i]
            /\ pend'[Len(pend) + 1] = Item(c)
        BY <3>2, PendItems, AppendedItem
      <4> QED
        BY <4>1 DEF Pends, Item
    <3> QED
      BY <1>5, <3>1, <3>2 DEF Record, Pends
  <2>4. \A i \in DOMAIN pend : pend[i].ans = "none"
    BY <2>1 DEF AskedPends, Busy, AtRest, Opening
  <2>5. \A d \in Calls : ckpt[d] = "asked" => Pends(d) \/ d \in emit[r]
    BY <2>1 DEF AskedPends, Emitting
  <2> QED
    BY <2>1, <2>2, <2>3, <2>4, <2>5 DEF AskedPends, Emitting, Gate, AtRest, Busy
<1>6. CASE InsertPendingRow(r) \/ MarkWaiting(r)
  <2>1. /\ pc[r] \in {"insert", "mark"} /\ \A q \in Runs : q # r => pc'[q] = pc[q]
        /\ UNCHANGED <<ckpt, pend>>
        /\ \/ UNCHANGED <<emit, now>> /\ pc'[r] = "mark"
           \/ /\ emit'[r] = emit[r] \ now[r] /\ pc'[r] = IF emit'[r] = {} THEN "tail" ELSE "emit"
    BY <1>0, <1>6 DEF InsertPendingRow, MarkWaiting, Goto
  <2>2. \A q \in Runs : q # r => pc'[q] \in AtRest
    BY <2>1 DEF OneAtATime, Busy, AtRest
  <2>3. \A c : Pends(c)' <=> Pends(c)
    BY <2>1 DEF Pends
  <2>4. \A c \in now[r] : Pends(c)
    BY <2>1 DEF AskedPends
  <2>5. \A d \in Calls : ckpt[d] = "asked" => Pends(d) \/ d \in emit[r]
    BY <2>1 DEF AskedPends, Emitting
  <2>6. \A i \in DOMAIN pend : pend[i].ans = "none"
    BY <2>1 DEF AskedPends, Busy, AtRest, Opening
  <2> QED
    BY <2>1, <2>2, <2>3, <2>4, <2>5, <2>6 DEF AskedPends, Emitting, Gate, AtRest, Busy
<1>7. CASE ScanOpen(r)
  <2>1. /\ pc[r] = "scan" /\ pc'[r] = "close" /\ \A q \in Runs : q # r => pc'[q] = pc[q]
        /\ UNCHANGED <<ckpt, pend>> /\ todo'[r] = OpenToolCalls(rows) \ Guarded
    BY <1>0, <1>7 DEF ScanOpen, Goto, durable
  <2>2. \A q \in Runs : q # r => pc'[q] \in AtRest
    BY <2>1 DEF OneAtATime, Busy, AtRest
  <2>3. (\A c : Pends(c)' <=> Pends(c)) /\ Guarded' = Guarded
    BY <2>1 DEF Pends, Guarded, Listed, Unresolved
  <2>4. \A i \in DOMAIN pend : pend[i].ans = "none"
    BY <2>1 DEF AskedPends, Busy, AtRest, Opening
  <2> QED
    BY <2>1, <2>2, <2>3, <2>4 DEF AskedPends, Emitting, Gate, AtRest, Busy
<1> QED
  BY <1>1, <1>2, <1>3, <1>4, <1>5, <1>6, <1>7 DEF RunStep, Driving, Settling, Handling

(* So does every other step.                                               *)
LEMMA AskedStep ==
  ASSUME Serial, TypeOK, OneAtATime, PendingInv, AskedPends, [Next]_vars
  PROVE  AskedPends'
<1>0. pc \in [Runs -> Labels]
  BY DEF TypeOK
<1>1. CASE LateStep \/ Cancel \/ UNCHANGED vars
  <2>1. UNCHANGED <<pend, ckpt, pc, emit, now, todo>>
    BY <1>1 DEF LateStep, LateRead, LateWrite, Cancel, durable, vars, handler
  <2> QED
    BY <2>1, SameAsked
<1>2. CASE Crash \/ Reconcile
  <2>1. \A q \in Runs : pc'[q] \in AtRest
    BY <1>2 DEF Crash, Reconcile, AtRest, OneAtATime, Quiet, handler
  <2> QED
    BY <2>1 DEF AskedPends, Busy, AtRest, Emitting, Gate
<1>3. ASSUME NEW r \in Runs, Post(r) PROVE AskedPends'
  <2>1. \A q \in Runs : pc'[q] \in AtRest \cup {"posted"}
    BY <1>0, <1>3 DEF Post, Serial, Quiet, Goto
  <2> QED
    BY <2>1 DEF AskedPends, Busy, AtRest, Emitting, Gate, Opening
<1>4. ASSUME NEW c \in Calls, NEW a \in Answers, AnswerOne(c, a) PROVE AskedPends'
  <2>1. \A q \in Runs : pc'[q] \in AtRest
    BY <1>4 DEF AnswerOne, MayAnswer, Serial, Quiet
  <2> QED
    BY <2>1 DEF AskedPends, Busy, AtRest, Emitting, Gate
<1>5. ASSUME NEW c \in Calls, NEW a \in Answers, NEW r \in Runs, AnswerLast(c, a, r) PROVE AskedPends'
  <2>1. pend' = <<>> /\ \A q \in Runs : pc'[q] \in AtRest \cup {"resolved"}
    BY <1>0, <1>5 DEF AnswerLast, MayAnswer, Serial, Quiet, Goto
  <2> QED
    BY <2>1 DEF AskedPends, Busy, AtRest, Emitting, Gate
<1> QED
  BY <1>1, <1>2, <1>3, <1>4, <1>5, RunStepAsked DEF Next, UserStep


-----------------------------------------------------------------------------
(* What is held is open                                                    *)

(* Where a run is about to let its runner go, or has just loaded.          *)
LEMMA HeldMoves ==
  ASSUME TypeOK, [Next]_vars, NEW q \in Runs
  PROVE  /\ pc'[q] \in Starting => pc[q] \in Starting
         /\ pc'[q] = "loop" => pc[q] \in {"starting", "loop"} \/ LoadCheckpoint(q)
<1>0. pc \in [Runs -> Labels]
  BY DEF TypeOK
<1> DEFINE Goal == /\ pc'[q] \in Starting => pc[q] \in Starting
                   /\ pc'[q] = "loop" => pc[q] \in {"starting", "loop"} \/ LoadCheckpoint(q)
<1>1. ASSUME NEW r \in Runs, Handling(r) PROVE Goal
  BY <1>0, <1>1 DEF Handling, ListPrior, StoreUser, StartCreate, CreateBuffer, ClearPending,
     ClearPendingRows, DropPendingRow, ResumeRead, ResumeWrite, ResumeCreate, Goto, Starting, Opening
<1>2. ASSUME NEW r \in Runs, Driving(r) PROVE Goal
  BY <1>0, <1>2 DEF Driving, BeginRun, BeginResume, LoadCheckpoint, LoadFails, DeclareCalls, Reply,
     Interrupt, RunTool, AskUser, DeliverResult, Record, InsertPendingRow, MarkWaiting, Exhaust,
     Fail, Abandon, AfterError, Goto, handler, Starting, Opening
<1>3. ASSUME NEW r \in Runs, Settling(r) PROVE Goal
  BY <1>0, <1>3 DEF Settling, CheckPending, KeepPartial, ScanOpen, CloseOpen, ReadHead,
     WriteStatus, Finish, AfterLoop, Goto, Starting, Opening
<1>4. ASSUME \/ UserStep \/ LateStep \/ Crash \/ Reconcile \/ UNCHANGED vars PROVE Goal
  BY <1>0, <1>4 DEF UserStep, Post, AnswerOne, AnswerLast, Cancel, LateStep, LateRead, LateWrite,
     Crash, Reconcile, vars, handler, Goto, Starting, Opening, Fresh
<1> QED
  BY <1>1, <1>2, <1>3, <1>4 DEF Next, RunStep

(* While a run drives the runner, no checkpoint is alive.                  *)
LEMMA LoopIsAlone ==
  ASSUME OneAtATime, PendingInv, NEW r \in Runs, pc[r] = "loop"
  PROVE  ~Active
<1>1. pend = <<>> /\ pendDB = <<>>
  BY DEF PendingInv, NothingPends
<1>2. \A q \in Runs : pc[q] \in AtRest \cup {"loop"}
  BY DEF OneAtATime, Busy, AtRest
<1> QED
  BY <1>1, <1>2 DEF Active, AtRest, Emitting, Resuming

(* The close loop spares what a live checkpoint asked about.               *)
LEMMA CloseSpares ==
  ASSUME TypeOK, OneAtATime, PendingInv, AskedPends, Active, NEW r \in Runs, pc[r] = "close",
         NEW c \in todo[r], c \in Calls, ckpt[c] = "asked"
  PROVE  Kind[c] = "question"
<1>1. \A q \in Runs : pc[q] \in AtRest \cup {"close"}
  BY DEF OneAtATime, Busy, AtRest
<1>2. up
  BY DEF OneAtATime, Quiet, AtRest
<1>3. \A i \in DOMAIN pendDB : Pends(pendDB[i])
  BY <1>1, <1>2 DEF PendingInv, AtRest
<1>4. pend # <<>>
  <2>1. CASE pendDB # <<>>
    <3>1. 1 \in DOMAIN pendDB
      BY <2>1, EmptySeq, LenProperties DEF TypeOK
    <3> QED
      BY <1>3, <3>1 DEF Pends
  <2>2. CASE pendDB = <<>>
    BY <1>1, <2>2 DEF Active, AtRest, Emitting, Resuming
  <2> QED
    BY <2>1, <2>2
<1>5. PICK i \in DOMAIN pend : pend[i].call = c
  BY <1>4 DEF AskedPends, Gate, Pends
<1>6. pend[i].ans = "none"
  BY DEF AskedPends, Busy, AtRest, Opening
<1>7. c \in Listed
  BY <1>5, <1>6 DEF Listed, Unresolved
<1> QED
  BY <1>7 DEF AskedPends, Guarded

(* What is held is open, after every step.                                 *)
LEMMA HeldStep ==
  ASSUME TypeOK, ConsentInv, OneAtATime, PendingInv, ResultsKnown, AskedPends, HeldIsOpen, [Next]_vars
  PROVE  HeldIsOpen'
<1>0. /\ pc \in [Runs -> Labels] /\ call \in [Runs -> [Calls -> Phases]] /\ rows \in Seq(Row)
      /\ todo \in [Runs -> SUBSET Calls]
  BY DEF TypeOK
<1>1. ASSUME NEW r \in Runs, DeclareCalls(r) PROVE HeldIsOpen'
  <2>1. PICK S \in SUBSET (Calls \ Declared(rows)) :
          /\ rows' = Append(rows, AssistantRow(S))
          /\ call' = [call EXCEPT ![r] = [c \in Calls |-> IF c \in S THEN "called" ELSE "-"]]
    BY <1>1 DEF DeclareCalls
  <2>2. pc[r] = "loop" /\ UNCHANGED <<pc, pend, pendDB, ckpt>>
    BY <1>1 DEF DeclareCalls, handler
  <2>3. Resulted(rows') = Resulted(rows)
    BY <1>0, <2>1, AssistantRowType, RowsAppend DEF AssistantRow
  <2>4. \A q \in Runs, c \in Calls :
          call'[q][c] = IF q # r THEN call[q][c] ELSE IF c \in S THEN "called" ELSE "-"
    BY <1>0, <2>1
  <2>5. \A c \in S : c \notin Resulted(rows)
    BY DEF ResultsKnown
  <2>6. ~Active'
    BY <2>2, LoopIsAlone DEF Active
  <2>7. \A q \in Runs : pc'[q] \in Starting => q # r
    BY <2>2 DEF Starting, Opening
  <2> QED
    BY <2>2, <2>3, <2>4, <2>5, <2>6, <2>7 DEF HeldIsOpen, InHand
<1>2. ASSUME NEW r \in Runs, LoadCheckpoint(r) PROVE HeldIsOpen'
  <2>1. /\ pc[r] = "load" /\ pc' = [pc EXCEPT ![r] = "loop"] /\ UNCHANGED <<rows, ckpt, pend, pendDB>>
        /\ \A q \in Runs, c \in Calls :
             call'[q][c] = IF q = r THEN Reenter(ckpt[c], targets[r][c]) ELSE call[q][c]
    BY <1>2 DEF LoadCheckpoint, TypeOK, durable, Goto
  <2>2. Active
    BY <2>1 DEF Active, Resuming
  <2>3. \A c \in Calls : InHand(r, c)' => ckpt[c] = "asked"
    BY <2>1 DEF InHand, Reenter, ConsentInv, CheckpointAsked
  <2>4. \A q \in Runs, c \in Calls : q # r => (InHand(q, c)' <=> InHand(q, c)) /\ pc'[q] = pc[q]
    BY <1>0, <2>1 DEF InHand
  <2>5. pc'[r] = "loop"
    BY <1>0, <2>1
  <2> QED
    BY <2>1, <2>2, <2>3, <2>4, <2>5 DEF HeldIsOpen, Starting, Opening
<1>3. ASSUME NEW r \in Runs, Interrupt(r) PROVE HeldIsOpen'
  <2>1. /\ pc[r] = "loop" /\ pc' = [pc EXCEPT ![r] = "emit"] /\ UNCHANGED rows /\ ckpt' = call[r]
        /\ \A q \in Runs, c \in Calls : call'[q][c] = IF q = r THEN "-" ELSE call[q][c]
    BY <1>0, <1>3 DEF Interrupt, NoCalls, Goto
  <2>2. \A c \in Calls : ckpt'[c] = "asked" /\ Kind[c] # "question" => c \notin Resulted(rows)
    BY <2>1 DEF HeldIsOpen, InHand
  <2>3. \A q \in Runs : \A c \in Calls : InHand(q, c)' => InHand(q, c) /\ q # r
    BY <2>1 DEF InHand
  <2>4. \A q \in Runs : q # r => pc'[q] = pc[q]
    BY <1>0, <2>1
  <2> QED
    BY <2>1, <2>2, <2>3, <2>4 DEF HeldIsOpen, Starting, Opening
<1>4. ASSUME NEW r \in Runs, NEW c \in Calls, DeliverResult(r, c),
             Resulted(rows') = Resulted(rows) \cup {c}
      PROVE  HeldIsOpen'
  <2>1. /\ pc[r] = "loop" /\ UNCHANGED <<pc, ckpt, pend, pendDB>>
        /\ \A q \in Runs, d \in Calls : call'[q][d] = IF q = r /\ d = c THEN "-" ELSE call[q][d]
    BY <1>0, <1>4 DEF DeliverResult, handler
  <2>2. ~Active'
    BY <2>1, LoopIsAlone DEF Active
  <2>3. \A q \in Runs : pc'[q] = "loop" => q = r
    BY <2>1 DEF OneAtATime, Busy, AtRest
  <2>4. \A q \in Runs, d \in Calls : InHand(q, d)' => InHand(q, d) /\ ~(q = r /\ d = c)
    BY <2>1 DEF InHand
  <2> QED
    BY <1>4, <2>1, <2>2, <2>3, <2>4 DEF HeldIsOpen
<1>5. ASSUME NEW r \in Runs, NEW c \in Calls, CloseOpen(r), c \in todo[r],
             Resulted(rows') = Resulted(rows) \cup {c}
      PROVE  HeldIsOpen'
  <2>1. pc[r] = "close" /\ UNCHANGED <<pc, ckpt, pend, pendDB, call>>
    BY <1>5 DEF CloseOpen, runner
  <2>2. \A q \in Runs : pc'[q] # "loop"
    BY <2>1 DEF OneAtATime, Busy, AtRest
  <2>3. Active' <=> Active
    BY <2>1 DEF Active
  <2>4. Active /\ ckpt[c] = "asked" => Kind[c] = "question"
    BY <1>5, <2>1, CloseSpares
  <2> QED
    BY <1>5, <2>1, <2>2, <2>3, <2>4 DEF HeldIsOpen, InHand
<1>6. ASSUME Reconcile, pendDB' = <<>> PROVE HeldIsOpen'
  <2>1. /\ UNCHANGED <<pc, call>> /\ \A r \in Runs : pc[r] \in AtRest
        /\ DOMAIN pend' = DOMAIN pendDB'
    BY <1>6 DEF Reconcile, handler, runner, OneAtATime, Quiet
  <2>2. pend' = <<>>
    BY <1>6, <2>1, TypeInductive, EmptySeq DEF TypeOK
  <2>3. ~Active'
    BY <1>6, <2>1, <2>2 DEF Active, AtRest, Emitting, Resuming
  <2> QED
    BY <2>1, <2>3 DEF HeldIsOpen, InHand, AtRest
<1>7. ASSUME RowsKept, UNCHANGED ckpt, Active' => Active,
             \A q \in Runs, d \in Calls : InHand(q, d)' => InHand(q, d),
             ~(\E r \in Runs : LoadCheckpoint(r))
      PROVE  HeldIsOpen'
  <2>1. \A q \in Runs : /\ pc'[q] \in Starting => pc[q] \in Starting
                        /\ pc'[q] = "loop" => pc[q] \in {"starting", "loop"}
    BY <1>7, HeldMoves
  <2>2. \A q \in Runs, d \in Calls : pc'[q] = "loop" /\ InHand(q, d)' => pc[q] = "loop"
    BY <1>7, <2>1 DEF HeldIsOpen, Starting
  <2> QED
    BY <1>7, <2>1, <2>2 DEF HeldIsOpen, RowsKept
<1> QED
  BY <1>1, <1>2, <1>3, <1>4, <1>5, <1>6, <1>7, HoldsNoMore, RowsStep

(* A call that still waits for the user's decision has no result, whatever *)
(* was canceled, failed or restarted meanwhile. HeldIsOpen carries it:     *)
(* what a checkpoint or a run still has to ask has no result in the table  *)
(* either.                                                                 *)
THEOREM WaitingStaysOpen == ASSUME Serial PROVE Spec => []WaitingIsOpen
<1>1. Init => ConsentInv
  BY EmptySeq DEF Init, NoCalls, NoAnswer, ConsentInv, AskedIsDeclared, CheckpointAsked,
     YesWasSaid, CalledIsSanctioned, RunsOnlyOnYes
<1>2. Init => ResultsKnown /\ AskedPends /\ HeldIsOpen
  BY EmptySeq DEF Init, NoCalls, ResultsKnown, Resulted, AskedPends, HeldIsOpen, Busy, AtRest, InHand,
     Emitting, Resuming, Gate, Active
<1>3. SerialInv => OneAtATime /\ PendingInv
  BY DEF SerialInv
<1>4. TypeOK /\ SerialInv /\ HeldIsOpen => WaitingIsOpen
  BY PendItems DEF SerialInv, PendingInv, HeldIsOpen, WaitingIsOpen, Active, Listed, Unresolved
<1>5. TypeOK /\ ConsentInv /\ ResultsKnown /\ [Next]_vars => ResultsKnown'
  BY ResultsKnownStep
<1>6. TypeOK /\ OneAtATime /\ PendingInv /\ AskedPends /\ [Next]_vars => AskedPends'
  BY AskedStep
<1>7. TypeOK /\ ConsentInv /\ OneAtATime /\ PendingInv /\ ResultsKnown /\ AskedPends /\ HeldIsOpen
      /\ [Next]_vars => HeldIsOpen'
  BY HeldStep
<1> QED
  BY <1>1, <1>2, <1>3, <1>4, <1>5, <1>6, <1>7, TypeCorrect, ConsentInductive, SerialInit, SerialStep,
     PTL DEF Spec


-----------------------------------------------------------------------------
(* An open call is always behind a status the repair looks at              *)

Attended == {"load", "loop", "emit", "insert", "mark", "tail", "partial", "check", "scan",
             "close", "finalize", "write"}

(* While a run is at work its conversation has a status the repair looks   *)
(* at; what the statuses still to be written are; a resume finds a         *)
(* checkpoint; and a run writes "idle" only over a transcript without open *)
(* calls.                                                                  *)
RepairInv ==
  /\ OpenCallsRepairable
  /\ \A r \in Runs : pc[r] \in Attended => status \in Stale
  /\ \A r \in Runs : pc[r] = "restatus" => note[r] \in Stale
  /\ \A c \in Calls : late[c] \in Stale \cup {"none", "read"}
  /\ \A r \in Runs : pc[r] \in Resuming => \E c \in Calls : ckpt[c] = "asked"
  /\ \A r \in Runs : pc[r] = "finalize" => pend # <<>>
  /\ \A r \in Runs : pc[r] = "close" => OpenToolCalls(rows) \subseteq todo[r] \cup Listed
  /\ \A r \in Runs : pc[r] = "write" /\ note[r] = "idle" => OpenToolCalls(rows) = {}

(* The head of a list with an unanswered item is a waiting status.         *)
LEMMA HeadIsStale ==
  /\ Unresolved # {} => HeadStatus("idle") \in Stale
  /\ HeadStatus("running") \in Stale
  BY DEF HeadStatus, Waiting, Stale

(* Only a message of the model opens calls.                                *)
LEMMA OpenStep ==
  ASSUME TypeOK, [Next]_vars
  PROVE  (OpenToolCalls(rows') \subseteq OpenToolCalls(rows)) \/ \E r \in Runs : DeclareCalls(r)
  BY RowsStep DEF RowsKept, OpenToolCalls

(* A step that moves one run on, and writes neither status nor rows.       *)
LEMMA MovesRepair ==
  ASSUME TypeOK, OneAtATime, RepairInv, NEW r \in Runs, Busy(r), NEW l, pc'[r] = l,
         \A q \in Runs : q # r => pc'[q] = pc[q],
         UNCHANGED <<ckpt, late>>,
         OpenToolCalls(rows') \subseteq OpenToolCalls(rows),
         status' = status \/ status' \in Stale,
         l \in Attended => pc[r] \in Attended \/ status' \in Stale,
         l = "restatus" => note'[r] \in Stale,
         l \in Resuming => pc[r] \in Resuming,
         l = "finalize" => pend' # <<>>,
         l = "close" => OpenToolCalls(rows') \subseteq todo'[r] \cup Listed',
         l = "write" /\ note'[r] = "idle" => OpenToolCalls(rows') = {}
  PROVE  RepairInv'
<1>1. \A q \in Runs : q # r => pc'[q] \in AtRest
  BY DEF OneAtATime, Busy
<1>2. OpenCallsRepairable'
  BY DEF RepairInv, OpenCallsRepairable
<1>3. \A q \in Runs : q # r => /\ pc'[q] \notin Attended \cup Resuming
                               /\ pc'[q] \notin {"restatus", "finalize", "close", "write"}
  BY <1>1 DEF AtRest, Attended, Resuming
<1> QED
  BY <1>2, <1>3 DEF RepairInv

(* Steps of a run keep an open call behind a stale status.                 *)
LEMMA RunStepRepair ==
  ASSUME "resume_error" \notin Allowed, TypeOK, OneAtATime, AskedPends, RepairInv,
         NEW r \in Runs, RunStep(r),
         ~(\E q \in Runs : DeclareCalls(q)), ~(\E q \in Runs, c \in Calls : RunTool(q, c))
  PROVE  RepairInv'
<1>0. /\ pc \in [Runs -> Labels] /\ todo \in [Runs -> SUBSET Calls] /\ note \in [Runs -> Statuses]
      /\ rows \in Seq(Row)
  BY DEF TypeOK
<1>1. Busy(r) /\ UNCHANGED <<up, late>> /\ \A q \in Runs : q # r => pc'[q] = pc[q]
  BY StepsAreBusy
<1>2. OpenToolCalls(rows') \subseteq OpenToolCalls(rows)
  BY OpenStep DEF Next
<1>3. CASE Handling(r)
  <2>1. UNCHANGED ckpt
    BY <1>3 DEF Handling, ListPrior, StoreUser, StartCreate, CreateBuffer, ClearPending,
       ClearPendingRows, DropPendingRow, ResumeRead, ResumeWrite, ResumeCreate, durable
  <2>2. \/ pc'[r] \in {"listed", "stored", "created", "cleared", "starting"} /\ UNCHANGED status
        \/ /\ pc'[r] \in Resuming /\ pc[r] \in Resuming /\ pc'[r] # "load"
           /\ pc'[r] = "restatus" => note'[r] = HeadStatus("running")
           /\ status' = status \/ (pc[r] = "restatus" /\ status' = note[r])
    BY <1>0, <1>3 DEF Handling, ListPrior, StoreUser, StartCreate, CreateBuffer, ClearPending,
       ClearPendingRows, DropPendingRow, ResumeRead, ResumeWrite, ResumeCreate, durable, Goto, Resuming
  <2>3. /\ pc'[r] \notin Attended
        /\ status' = status \/ status' \in Stale
        /\ pc'[r] = "restatus" => note'[r] \in Stale
        /\ pc'[r] \in Resuming => pc[r] \in Resuming
    BY <2>2, HeadIsStale DEF RepairInv, Resuming, Attended
  <2> QED
    BY <1>1, <1>2, <2>1, <2>3, MovesRepair DEF Attended
<1>4. CASE Interrupt(r)
  <2>1. /\ pc[r] = "loop" /\ pc' = [pc EXCEPT ![r] = "emit"] /\ UNCHANGED <<rows, status, late>>
    BY <1>4 DEF Interrupt, Goto
  <2>2. \A q \in Runs : pc'[q] \in AtRest \cup {"emit"}
    BY <1>0, <2>1 DEF OneAtATime, Busy, AtRest
  <2>3. status' \in Stale
    BY <2>1 DEF RepairInv, Attended
  <2> QED
    BY <2>1, <2>2, <2>3 DEF RepairInv, OpenCallsRepairable, AtRest, Resuming, Attended
<1>5. CASE LoadFails(r)
  <2>1. ckpt = NoCalls /\ pc[r] = "load"
    BY <1>5 DEF LoadFails
  <2> QED
    BY <2>1 DEF RepairInv, Resuming, NoCalls
<1>6. CASE \/ BeginRun(r) \/ BeginResume(r) \/ LoadCheckpoint(r) \/ Reply(r)
           \/ \E c \in Calls : AskUser(r, c) \/ DeliverResult(r, c) \/ Record(r, c)
           \/ InsertPendingRow(r) \/ MarkWaiting(r) \/ Exhaust(r) \/ Fail(r) \/ Abandon(r)
           \/ KeepPartial(r) \/ Finish(r)
  <2>1. UNCHANGED ckpt
    BY <1>6 DEF BeginRun, BeginResume, LoadCheckpoint, Reply, AskUser, DeliverResult, Record,
       InsertPendingRow, MarkWaiting, Exhaust, Fail, Abandon, KeepPartial, Finish, durable
  <2>2. \/ status' = "running" /\ pc'[r] \in {"loop", "load"} /\ (pc'[r] = "load" => pc[r] = "resuming")
        \/ pc'[r] = "loop" /\ pc[r] \in {"load", "loop"} /\ UNCHANGED status
        \/ pc'[r] \in {"tail", "emit", "insert", "mark", "check", "partial", "scan"}
           /\ pc[r] \in Attended /\ (UNCHANGED status \/ \E c \in Calls : status' = Waiting(Kind[c]))
        \/ pc'[r] = "done" /\ UNCHANGED status
    BY <1>0, <1>6 DEF BeginRun, BeginResume, LoadCheckpoint, Reply, AskUser, DeliverResult, Record,
       InsertPendingRow, MarkWaiting, Exhaust, Fail, Abandon, KeepPartial, Finish, durable, handler,
       Goto, AfterError, Attended, TypeOK
  <2>3. /\ status' = status \/ status' \in Stale
        /\ pc'[r] \in Attended => pc[r] \in Attended \/ status' \in Stale
        /\ pc'[r] \notin {"restatus", "finalize", "close", "write"}
        /\ pc'[r] \in Resuming => pc[r] \in Resuming
    BY <2>2 DEF Stale, Waiting, Resuming, Attended
  <2> QED
    BY <1>1, <1>2, <2>1, <2>3, MovesRepair
<1>7. CASE CheckPending(r)
  <2>1. /\ pc[r] = "check" /\ pc'[r] = IF pend = <<>> THEN "scan" ELSE "finalize"
        /\ UNCHANGED <<ckpt, status, pend>>
    BY <1>0, <1>7 DEF CheckPending, AfterLoop, HasPending, Goto, durable
  <2> QED
    BY <1>1, <1>2, <2>1, MovesRepair DEF Attended, Resuming
<1>8. CASE ScanOpen(r)
  <2>1. /\ pc[r] = "scan" /\ pc'[r] = "close" /\ todo'[r] = OpenToolCalls(rows) \ Guarded
        /\ UNCHANGED <<ckpt, status, pend, rows>>
    BY <1>0, <1>8 DEF ScanOpen, Goto, durable
  <2>2. OpenToolCalls(rows') \subseteq todo'[r] \cup Listed'
    BY <2>1 DEF Guarded, Listed, Unresolved
  <2> QED
    BY <1>1, <1>2, <2>1, <2>2, MovesRepair DEF Attended, Resuming
<1>9. CASE CloseOpen(r)
  <2>1. pc[r] = "close" /\ UNCHANGED <<pc, ckpt, status, pend>>
    BY <1>9 DEF CloseOpen
  <2>2. PICK c \in todo[r] : /\ rows' = AppendToolResult(rows, c, "canceled")
                             /\ todo' = [todo EXCEPT ![r] = @ \ {c}]
    BY <1>9 DEF CloseOpen
  <2>3. c \in Calls /\ todo'[r] = todo[r] \ {c}
    BY <1>0, <2>2
  <2>4. OpenToolCalls(rows') = OpenToolCalls(rows) \ {c}
    BY <1>0, <2>2, <2>3, RowsResult DEF OpenToolCalls, Outcomes
  <2>5. OpenToolCalls(rows') \subseteq todo'[r] \cup Listed'
    BY <2>1, <2>3, <2>4 DEF RepairInv, Listed, Unresolved
  <2> QED
    BY <1>1, <1>2, <2>1, <2>5, MovesRepair DEF Attended, Resuming
<1>10. CASE ReadHead(r)
  <2>1. /\ pc[r] = "finalize" \/ (pc[r] = "close" /\ todo[r] = {})
        /\ pc'[r] = "write" /\ note'[r] = HeadStatus("idle")
        /\ UNCHANGED <<ckpt, status, pend, rows>>
    BY <1>0, <1>10 DEF ReadHead, Goto, FinalStatus, durable
  <2>2. ASSUME note'[r] = "idle" PROVE OpenToolCalls(rows') = {}
    <3>1. Unresolved = {}
      BY <2>1, <2>2, HeadIsStale DEF Stale
    <3>2. pc[r] # "finalize"
      <4> SUFFICES ASSUME pc[r] = "finalize" PROVE FALSE
        OBVIOUS
      <4>1. pend # <<>> /\ \A i \in DOMAIN pend : pend[i].ans = "none"
        BY DEF RepairInv, AskedPends, Busy, AtRest, Opening
      <4>2. 1 \in DOMAIN pend
        BY <4>1, PendItems, EmptySeq DEF TypeOK
      <4> QED
        BY <3>1, <4>1, <4>2 DEF Unresolved
    <3>3. Listed = {}
      BY <3>1 DEF Listed
    <3> QED
      BY <2>1, <3>2, <3>3 DEF RepairInv
  <2> QED
    BY <1>1, <1>2, <2>1, <2>2, MovesRepair DEF Attended, Resuming
<1>11. CASE WriteStatus(r)
  <2>1. /\ pc[r] = "write" /\ pc'[r] = "finish" /\ status' = note[r] /\ UNCHANGED <<rows, late>>
        /\ note[r] \in Statuses
    BY <1>0, <1>11 DEF WriteStatus, Goto
  <2>2. \A q \in Runs : pc'[q] \in AtRest \cup {"finish"}
    BY <1>1, <2>1 DEF OneAtATime, Busy
  <2>3. OpenCallsRepairable'
    BY <2>1 DEF RepairInv, OpenCallsRepairable, Statuses
  <2> QED
    BY <2>1, <2>2, <2>3 DEF RepairInv, AtRest, Attended, Resuming
<1> QED
  BY <1>3, <1>4, <1>5, <1>6, <1>7, <1>8, <1>9, <1>10, <1>11 DEF RunStep, Driving, Settling

(* So does every other step.                                               *)
LEMMA RepairStep ==
  ASSUME "resume_error" \notin Allowed, Serial, TypeOK, OneAtATime, PendingInv, AskedPends, RepairInv,
         [Next]_vars
  PROVE  RepairInv'
<1>0. /\ pc \in [Runs -> Labels] /\ rows \in Seq(Row) /\ late \in [Calls -> Statuses \cup {"none", "read"}]
  BY DEF TypeOK
<1>1. ASSUME NEW r \in Runs, DeclareCalls(r) PROVE RepairInv'
  <2>1. pc[r] = "loop" /\ UNCHANGED <<pc, status, ckpt, late, pend, note, todo>>
    BY <1>1 DEF DeclareCalls, handler
  <2>2. \A q \in Runs : pc'[q] \in AtRest \cup {"loop"}
    BY <2>1 DEF OneAtATime, Busy, AtRest
  <2>3. status' \in Stale
    BY <2>1 DEF RepairInv, Attended
  <2> QED
    BY <2>1, <2>2, <2>3 DEF RepairInv, OpenCallsRepairable, AtRest, Resuming, Attended
<1>2. ASSUME UNCHANGED <<rows, status, ckpt, pc, pend, todo, note, late>> PROVE RepairInv'
  BY <1>2 DEF RepairInv, OpenCallsRepairable, Listed, Unresolved
<1>3. CASE (\E r \in Runs, c \in Calls : RunTool(r, c)) \/ Cancel \/ UNCHANGED vars
  BY <1>2, <1>3 DEF RunTool, Cancel, vars, durable, handler
<1>4. CASE LateStep
  <2>1. PICK c \in Calls : LateRead(c) \/ LateWrite(c)
    BY <1>4 DEF LateStep
  <2>2. UNCHANGED <<rows, ckpt, pc, pend, todo, note>>
    BY <2>1 DEF LateRead, LateWrite, durable
  <2>3. /\ status' = status \/ status' \in Stale
        /\ \A d \in Calls : late'[d] \in Stale \cup {"none", "read"}
    BY <1>0, <2>1, HeadIsStale DEF LateRead, LateWrite, durable, RepairInv
  <2> QED
    BY <2>2, <2>3 DEF RepairInv, OpenCallsRepairable, Listed, Unresolved
<1>5. CASE Crash
  <2>1. /\ UNCHANGED <<rows, status>> /\ \A r \in Runs : pc'[r] \in AtRest
        /\ \A c \in Calls : late'[c] = "none"
    BY <1>5 DEF Crash, durable, AtRest
  <2> QED
    BY <2>1 DEF RepairInv, OpenCallsRepairable, AtRest, Attended, Resuming
<1>6. CASE Reconcile
  <2>1. /\ UNCHANGED <<pc, late>> /\ \A r \in Runs : pc'[r] \in AtRest
    BY <1>6 DEF Reconcile, handler, OneAtATime, Quiet
  <2>2. OpenCallsRepairable'
    <3>1. CASE pendDB' # <<>>
      BY <1>6, <3>1 DEF Reconcile, OpenCallsRepairable, Waiting, Stale
    <3>2. CASE pendDB' = <<>> /\ status \in Stale
      <4>1. PICK s \in Orders(OpenToolCalls(rows)) :
              rows' = rows \o [i \in DOMAIN s |-> ToolRow(s[i], "canceled")]
        BY <1>6, <3>2 DEF Reconcile
      <4>2. OpenToolCalls(rows') = {}
        BY <1>0, <4>1, RowsClosing DEF OpenToolCalls
      <4> QED
        BY <4>2 DEF OpenCallsRepairable
    <3>3. CASE pendDB' = <<>> /\ status \notin Stale
      BY <1>6, <3>3 DEF Reconcile, OpenCallsRepairable, RepairInv
    <3> QED
      BY <3>1, <3>2, <3>3
  <2> QED
    BY <2>1, <2>2 DEF RepairInv, AtRest, Attended, Resuming
<1>7. ASSUME NEW r \in Runs, Post(r) PROVE RepairInv'
  <2>1. /\ UNCHANGED <<rows, status, late>> /\ \A q \in Runs : pc'[q] \in AtRest \cup {"posted"}
    BY <1>0, <1>7 DEF Post, Serial, Quiet, Goto, durable
  <2> QED
    BY <2>1 DEF RepairInv, OpenCallsRepairable, AtRest, Attended, Resuming
<1>8. ASSUME NEW c \in Calls, NEW a \in Answers, AnswerOne(c, a) PROVE RepairInv'
  <2>1. /\ UNCHANGED <<rows, status>> /\ \A q \in Runs : pc'[q] \in AtRest
        /\ late' = [late EXCEPT ![c] = "read"]
    BY <1>8 DEF AnswerOne, MayAnswer, Serial, Quiet, durable
  <2>2. \A d \in Calls : late'[d] \in Stale \cup {"none", "read"}
    BY <1>0, <2>1 DEF RepairInv
  <2> QED
    BY <2>1, <2>2 DEF RepairInv, OpenCallsRepairable, AtRest, Attended, Resuming
<1>9. ASSUME NEW c \in Calls, NEW a \in Answers, NEW r \in Runs, AnswerLast(c, a, r) PROVE RepairInv'
  <2>1. /\ UNCHANGED <<rows, status, late, ckpt>> /\ \A q \in Runs : pc'[q] \in AtRest \cup {"resolved"}
        /\ c \in Listed
    BY <1>0, <1>9 DEF AnswerLast, MayAnswer, Serial, Quiet, Goto, durable
  <2>2. ckpt[c] = "asked"
    BY <2>1 DEF Listed, Unresolved, PendingInv
  <2> QED
    BY <2>1, <2>2 DEF RepairInv, OpenCallsRepairable, AtRest, Attended, Resuming
<1> QED
  BY <1>1, <1>3, <1>4, <1>5, <1>6, <1>7, <1>8, <1>9, RunStepRepair DEF Next, UserStep

(* ReconcileChatState repairs the conversations whose status says that     *)
(* something was going on: at every instant the process may die, an open   *)
(* tool call is behind such a status. A resume that cannot be started      *)
(* breaks it, so it is left out.                                           *)
THEOREM OpenIsRepairable ==
  ASSUME Serial, "resume_error" \notin Allowed
  PROVE  Spec => []OpenCallsRepairable
<1>1. Init => AskedPends /\ RepairInv
  BY EmptySeq DEF Init, NoCalls, AskedPends, Busy, AtRest, Emitting, Resuming, Gate, RepairInv,
     OpenCallsRepairable, OpenToolCalls, Declared, Attended
<1>2. SerialInv => OneAtATime /\ PendingInv
  BY DEF SerialInv
<1>3. RepairInv => OpenCallsRepairable
  BY DEF RepairInv
<1>4. TypeOK /\ OneAtATime /\ PendingInv /\ AskedPends /\ [Next]_vars => AskedPends'
  BY AskedStep
<1>5. TypeOK /\ OneAtATime /\ PendingInv /\ AskedPends /\ RepairInv /\ [Next]_vars => RepairInv'
  BY RepairStep
<1>6. Init => ConsentInv
  BY EmptySeq DEF Init, NoCalls, NoAnswer, ConsentInv, AskedIsDeclared, CheckpointAsked,
     YesWasSaid, CalledIsSanctioned, RunsOnlyOnYes
<1> QED
  BY <1>1, <1>2, <1>3, <1>4, <1>5, <1>6, TypeCorrect, ConsentInductive, SerialInit, SerialStep,
     PTL DEF Spec


-----------------------------------------------------------------------------
(* The prompt of a new turn is paired                                      *)

(* The rows behind an assistant row: all its results have come, or it is   *)
(* the last one and every row behind it is one of its results.             *)
Answered(h, i) ==
  \A k \in 1..Cardinality(h[i].calls) :
    i + k \in DOMAIN h /\ h[i + k].role = "tool" /\ h[i + k].calls \subseteq h[i].calls
BeingAnswered(h, i) ==
  /\ \A k \in DOMAIN h : k > i => h[k].role = "tool" /\ h[k].calls \subseteq h[i].calls
  /\ Len(h) - i = Cardinality(h[i].calls \cap Resulted(h))

(* The blocks a transcript is made of.                                     *)
Blocks(h) ==
  /\ \A i, j \in DOMAIN h : h[i].role = "assistant" /\ h[j].role = "assistant" /\ i # j
       => h[i].calls \cap h[j].calls = {}
  /\ \A i \in DOMAIN h : h[i].role = "tool" =>
       \E j \in DOMAIN h : j < i /\ h[j].role = "assistant" /\ h[i].calls # {} /\ h[i].calls \subseteq h[j].calls
  /\ \A i \in DOMAIN h : h[i].role = "assistant" =>
       IF h[i].calls \subseteq Resulted(h) THEN Answered(h, i) ELSE BeingAnswered(h, i)

(* Why a call may be open: a runner has it, or a live checkpoint.          *)
OpenIsHeld ==
  /\ Active => \A c \in OpenToolCalls(rows) : ckpt[c] # "-"
  /\ \A r \in Runs : pc[r] = "loop" => \A c \in OpenToolCalls(rows) : call[r][c] # "-"
  /\ \A r \in Runs : pc[r] \in Opening \cup {"cleared", "starting"} =>
       OpenToolCalls(rows) = {} /\ pend = <<>>
  /\ \A r \in Runs : pc[r] = "partial" => OpenToolCalls(rows) = {}
  /\ \A r \in Runs : pc[r] \in {"tail", "check", "write", "finish"} /\ pend = <<>> =>
       OpenToolCalls(rows) = {}
  /\ up /\ Quiet /\ pend = <<>> => OpenToolCalls(rows) = {}

(* The prompt of a run that has listed the rows is the whole transcript.   *)
PromptIsAll == \A r \in Runs : pc[r] = "listed" => plen[r] = Len(rows)

-----------------------------------------------------------------------------
(* Rows keep their blocks                                                  *)

(* The calls of a row are finitely many.                                   *)
LEMMA FiniteCalls ==
  ASSUME NEW S \in SUBSET Calls
  PROVE  IsFiniteSet(S) /\ Cardinality(S) \in Nat
  BY FS_Subset, FS_CardinalityType, ChatAssumption

(* The rows of a transcript.                                               *)
LEMMA RowOf ==
  ASSUME NEW h \in Seq(Row)
  PROVE  /\ Len(h) \in Nat /\ DOMAIN h = 1..Len(h)
         /\ \A i \in DOMAIN h : h[i].calls \in SUBSET Calls /\ h[i].role \in {"user", "assistant", "tool"}
<1>1. Len(h) \in Nat /\ DOMAIN h = 1..Len(h) /\ \A i \in DOMAIN h : h[i] \in Row
  BY LenProperties, ElementOfSeq
<1> QED
  BY <1>1 DEF Row

(* A user row, or an assistant row of new calls, over a transcript without *)
(* open calls.                                                             *)
LEMMA PlainRowBlocks ==
  ASSUME NEW h \in Seq(Row), NEW x \in Row, Blocks(h), OpenToolCalls(h) = {},
         Resulted(h) \subseteq Declared(h),
         x.role # "tool", x.role = "assistant" => x.calls \cap Declared(h) = {}
  PROVE  Blocks(Append(h, x))
<1> DEFINE g == Append(h, x)
           n == Len(h) + 1
<1>1. /\ g \in Seq(Row) /\ Len(h) \in Nat /\ DOMAIN h = 1..Len(h) /\ DOMAIN g = 1..n /\ Len(g) = n
      /\ (\A i \in DOMAIN h : g[i] = h[i]) /\ g[n] = x
  BY AppendProperties, LenProperties
<1>2. Resulted(g) = Resulted(h)
  BY RowsAppend
<1> HIDE DEF g, n
<1>3. n \in Nat /\ \A i \in DOMAIN g : (i \in DOMAIN h /\ g[i] = h[i] /\ i < n) \/ i = n
  BY <1>1 DEF n
<1>4. \A i \in DOMAIN h : h[i].role = "assistant" =>
        /\ h[i].calls \subseteq Declared(h) /\ h[i].calls \subseteq Resulted(h) /\ Answered(h, i)
  BY DEF Blocks, OpenToolCalls, Declared
<1>5. \A i, j \in DOMAIN g : g[i].role = "assistant" /\ g[j].role = "assistant" /\ i # j
       => g[i].calls \cap g[j].calls = {}
  BY <1>1, <1>3, <1>4 DEF Blocks
<1>6. \A i \in DOMAIN g : g[i].role = "tool" =>
       \E j \in DOMAIN g : j < i /\ g[j].role = "assistant" /\ g[i].calls # {} /\ g[i].calls \subseteq g[j].calls
  <2> SUFFICES ASSUME NEW i \in DOMAIN g, g[i].role = "tool"
               PROVE  \E j \in DOMAIN g : j < i /\ g[j].role = "assistant" /\ g[i].calls # {} /\ g[i].calls \subseteq g[j].calls
    OBVIOUS
  <2>1. i \in DOMAIN h /\ g[i] = h[i]
    BY <1>1, <1>3
  <2>2. PICK j \in DOMAIN h : j < i /\ h[j].role = "assistant" /\ h[i].calls # {} /\ h[i].calls \subseteq h[j].calls
    BY <2>1 DEF Blocks
  <2>3. j \in DOMAIN g /\ g[j] = h[j]
    BY <1>1 DEF n
  <2> QED
    BY <2>1, <2>2, <2>3
<1>7. ASSUME NEW i \in DOMAIN g, g[i].role = "assistant"
      PROVE  IF g[i].calls \subseteq Resulted(g) THEN Answered(g, i) ELSE BeingAnswered(g, i)
  <2>1. CASE i \in DOMAIN h
    <3>1. g[i] = h[i] /\ h[i].calls \subseteq Resulted(h) /\ Answered(h, i)
      BY <1>1, <1>4, <1>7, <2>1
    <3>2. \A k \in DOMAIN h : k \in DOMAIN g /\ g[k] = h[k]
      BY <1>1 DEF n
    <3>3. Answered(g, i)
      BY <3>1, <3>2 DEF Answered
    <3> QED
      BY <1>2, <3>1, <3>3
  <2>2. CASE i = n
    <3>1. g[i].calls \in SUBSET Calls /\ g[i].calls \cap Resulted(g) = {}
      BY <1>1, <1>2, <1>7, <2>2 DEF Row
    <3>2. CASE g[i].calls = {}
      BY <3>1, <3>2, FS_EmptySet DEF Answered
    <3>3. CASE g[i].calls # {}
      <4>1. ~(g[i].calls \subseteq Resulted(g))
        BY <3>1, <3>3
      <4>2. Len(g) - i = Cardinality(g[i].calls \cap Resulted(g))
        <5>1. g[i].calls \cap Resulted(g) = {} /\ Cardinality({}) = 0
          BY <3>1, FS_EmptySet
        <5>2. Cardinality(g[i].calls \cap Resulted(g)) = 0
          BY <5>1, Zenon
        <5> QED
          BY <1>1, <1>3, <2>2, <5>2
      <4>3. \A k \in DOMAIN g : ~(k > i)
        BY <1>1, <1>3, <2>2
      <4> QED
        BY <4>1, <4>2, <4>3 DEF BeingAnswered
    <3> QED
      BY <3>2, <3>3
  <2> QED
    BY <1>3, <2>1, <2>2
<1>8. Blocks(g)
  BY <1>5, <1>6, <1>7 DEF Blocks
<1> QED
  BY <1>8 DEF g

(* Results of open calls go behind the one row that still waits for some.  *)
LEMMA ResultsBlocks ==
  ASSUME NEW h \in Seq(Row), NEW g \in Seq(Row), Blocks(h),
         NEW T, T \subseteq OpenToolCalls(h),
         Len(g) = Len(h) + Cardinality(T), Resulted(g) = Resulted(h) \cup T,
         \A i \in 1..Len(h) : g[i] = h[i],
         \A i \in (Len(h) + 1)..Len(g) : g[i].role = "tool" /\ g[i].calls # {} /\ g[i].calls \subseteq T
  PROVE  Blocks(g)
<1>1. /\ Len(h) \in Nat /\ DOMAIN h = 1..Len(h) /\ Len(g) \in Nat /\ DOMAIN g = 1..Len(g)
      /\ \A i \in DOMAIN h : h[i].calls \in SUBSET Calls
  BY RowOf
<1>2. T \in SUBSET Calls /\ IsFiniteSet(T) /\ Cardinality(T) \in Nat
  BY DeclaredType, FiniteCalls
<1>3. /\ \A i \in DOMAIN h : i \in DOMAIN g /\ g[i] = h[i]
      /\ \A i \in DOMAIN g : i \in DOMAIN h \/ (i > Len(h) /\ i \in (Len(h) + 1)..Len(g))
  BY <1>1, <1>2
<1>4. \A i \in DOMAIN g : g[i].role = "assistant" => i \in DOMAIN h /\ g[i] = h[i]
  BY <1>3
<1>5. ASSUME NEW j \in DOMAIN h, h[j].role = "assistant", ~(h[j].calls \subseteq Resulted(h))
      PROVE  /\ BeingAnswered(h, j)
             /\ \A i \in DOMAIN h : h[i].role = "assistant" /\ i # j => h[i].calls \subseteq Resulted(h)
             /\ T \subseteq h[j].calls
  <2>1. BeingAnswered(h, j)
    BY <1>5 DEF Blocks
  <2>2. ASSUME NEW i \in DOMAIN h, h[i].role = "assistant", i # j PROVE h[i].calls \subseteq Resulted(h)
    <3> SUFFICES ASSUME ~(h[i].calls \subseteq Resulted(h)) PROVE FALSE
      OBVIOUS
    <3>1. BeingAnswered(h, i)
      BY <2>2 DEF Blocks
    <3>2. i > j \/ j > i
      BY <1>1, <2>2
    <3> QED
      BY <1>5, <2>1, <2>2, <3>1, <3>2 DEF BeingAnswered
  <2>3. ASSUME NEW c \in T PROVE c \in h[j].calls
    <3>1. c \in Declared(h) /\ c \notin Resulted(h)
      BY <2>3 DEF OpenToolCalls
    <3>2. PICK i \in DOMAIN h : h[i].role = "assistant" /\ c \in h[i].calls
      BY <3>1 DEF Declared
    <3> QED
      BY <2>2, <3>1, <3>2
  <2> QED
    BY <2>1, <2>2, <2>3
<1>6. \A i, j \in DOMAIN g : g[i].role = "assistant" /\ g[j].role = "assistant" /\ i # j
       => g[i].calls \cap g[j].calls = {}
  BY <1>4 DEF Blocks
<1>7. ASSUME NEW i \in DOMAIN g, g[i].role = "tool"
      PROVE  \E j \in DOMAIN g : j < i /\ g[j].role = "assistant" /\ g[i].calls # {} /\ g[i].calls \subseteq g[j].calls
  <2>1. CASE i \in DOMAIN h
    <3>1. PICK j \in DOMAIN h : j < i /\ h[j].role = "assistant" /\ h[i].calls # {} /\ h[i].calls \subseteq h[j].calls
      BY <1>3, <1>7, <2>1 DEF Blocks
    <3> QED
      BY <1>3, <2>1, <3>1
  <2>2. CASE i > Len(h) /\ i \in (Len(h) + 1)..Len(g)
    <3>1. g[i].calls # {} /\ g[i].calls \subseteq T
      BY <2>2
    <3>2. PICK c : c \in T
      BY <3>1
    <3>3. PICK j \in DOMAIN h : h[j].role = "assistant" /\ c \in h[j].calls
      BY <3>2 DEF OpenToolCalls, Declared
    <3>4. c \notin Resulted(h)
      BY <3>2 DEF OpenToolCalls
    <3>5. T \subseteq h[j].calls
      BY <1>5, <3>3, <3>4
    <3>6. j < i
      BY <1>1, <2>2
    <3> QED
      BY <1>3, <3>1, <3>3, <3>5, <3>6
  <2> QED
    BY <1>3, <2>1, <2>2
<1>8. ASSUME NEW i \in DOMAIN g, g[i].role = "assistant"
      PROVE  IF g[i].calls \subseteq Resulted(g) THEN Answered(g, i) ELSE BeingAnswered(g, i)
  <2>1. i \in DOMAIN h /\ g[i] = h[i]
    BY <1>4, <1>8
  <2>2. CASE h[i].calls \subseteq Resulted(h)
    <3>1. Answered(h, i)
      BY <1>8, <2>1, <2>2 DEF Blocks
    <3>2. Answered(g, i)
      BY <1>3, <2>1, <3>1 DEF Answered
    <3> QED
      BY <2>1, <2>2, <3>2
  <2>3. CASE ~(h[i].calls \subseteq Resulted(h))
    <3> DEFINE S == h[i].calls
    <3>1. BeingAnswered(h, i) /\ T \subseteq S
      BY <1>5, <1>8, <2>1, <2>3
    <3>2. \A k \in DOMAIN g : k > i => g[k].role = "tool" /\ g[k].calls \subseteq S
      BY <1>3, <3>1 DEF BeingAnswered
    <3>3. Len(g) - i = Cardinality(S \cap Resulted(g))
      <4>1. S \cap Resulted(g) = (S \cap Resulted(h)) \cup T /\ (S \cap Resulted(h)) \cap T = {}
        BY <3>1 DEF OpenToolCalls
      <4>2. IsFiniteSet(S \cap Resulted(h)) /\ Cardinality(S \cap Resulted(h)) \in Nat
        BY <1>1, <2>1, FiniteCalls
      <4>3. Cardinality(S \cap Resulted(g)) = Cardinality(S \cap Resulted(h)) + Cardinality(T)
        <5> DEFINE A == S \cap Resulted(h)
        <5>1. Cardinality(A \cup T) = Cardinality(A) + Cardinality(T) - Cardinality(A \cap T)
          BY <1>2, <4>2, FS_Union
        <5>2. Cardinality(A \cap T) = 0
          <6>1. A \cap T = {} /\ Cardinality({}) = 0
            BY <4>1, FS_EmptySet
          <6> QED
            BY <6>1, Zenon
        <5>3. Cardinality(S \cap Resulted(g)) = Cardinality(A \cup T)
          BY <4>1, Zenon
        <5> HIDE DEF A
        <5>4. Cardinality(A) \in Nat
          BY <4>2 DEF A
        <5>5. Cardinality(A \cup T) = Cardinality(A) + Cardinality(T)
          BY <1>2, <5>1, <5>2, <5>4
        <5> QED
          BY <5>3, <5>5 DEF A
      <4>4. Len(h) - i = Cardinality(S \cap Resulted(h))
        BY <3>1 DEF BeingAnswered
      <4> QED
        BY <1>1, <1>2, <2>1, <4>2, <4>3, <4>4
    <3>4. ASSUME S \subseteq Resulted(g) PROVE Answered(g, i)
      <4>1. S \cap Resulted(g) = S
        BY <3>4
      <4>2. Len(g) - i = Cardinality(S) /\ Cardinality(S) \in Nat
        BY <1>1, <2>1, <3>3, <4>1, FiniteCalls
      <4>3. \A k \in 1..Cardinality(S) : i + k \in DOMAIN g /\ i + k > i
        BY <1>1, <2>1, <4>2
      <4> QED
        BY <2>1, <3>2, <4>3 DEF Answered
    <3> QED
      BY <2>1, <3>2, <3>3, <3>4 DEF BeingAnswered
  <2> QED
    BY <2>2, <2>3
<1> QED
  BY <1>6, <1>7, <1>8 DEF Blocks

(* One result.                                                             *)
LEMMA ToolResultBlocks ==
  ASSUME NEW h \in Seq(Row), NEW c \in Calls, NEW out \in Outcomes, Blocks(h), c \in Declared(h)
  PROVE  Blocks(AppendToolResult(h, c, out))
<1>1. CASE c \in Resulted(h)
  BY <1>1 DEF AppendToolResult
<1>2. CASE c \notin Resulted(h)
  <2> DEFINE g == Append(h, ToolRow(c, out))
  <2>1. ToolRow(c, out) \in Row /\ ToolRow(c, out).role = "tool" /\ ToolRow(c, out).calls = {c}
    BY ToolRowType DEF ToolRow
  <2>2. /\ g \in Seq(Row) /\ Len(g) = Len(h) + 1 /\ Len(h) \in Nat
        /\ (\A i \in 1..Len(h) : g[i] = h[i]) /\ g[Len(h) + 1] = ToolRow(c, out)
    BY <2>1, AppendProperties, LenProperties
  <2>3. Resulted(g) = Resulted(h) \cup {c}
    BY <2>1, RowsAppend
  <2>4. {c} \subseteq OpenToolCalls(h) /\ Cardinality({c}) = 1
    BY <1>2, FS_Singleton DEF OpenToolCalls
  <2> HIDE DEF g
  <2>5. \A i \in (Len(h) + 1)..Len(g) : i = Len(h) + 1
    BY <2>2
  <2>6. Blocks(g)
    BY <2>1, <2>2, <2>3, <2>4, <2>5, ResultsBlocks
  <2> QED
    BY <1>2, <2>6 DEF g, AppendToolResult
<1> QED
  BY <1>1, <1>2

(* All the missing ones, in any order.                                     *)
LEMMA ClosingBlocks ==
  ASSUME NEW h \in Seq(Row), NEW s \in Orders(OpenToolCalls(h)), Blocks(h)
  PROVE  Blocks(h \o [i \in DOMAIN s |-> ToolRow(s[i], "canceled")])
<1> DEFINE t == [i \in DOMAIN s |-> ToolRow(s[i], "canceled")]
           g == h \o t
           T == OpenToolCalls(h)
<1>1. T \in SUBSET Calls
  BY DeclaredType
<1>2. t \in Seq(Row) /\ DOMAIN s = 1..Cardinality(T) /\ {s[i] : i \in DOMAIN s} = T /\ Cardinality(T) \in Nat
  BY <1>1, ClosingRows, OrdersType, OrdersAll
<1>3. DOMAIN t = DOMAIN s /\ \A i \in DOMAIN t : t[i].role = "tool" /\ t[i].calls # {} /\ t[i].calls \subseteq T
  BY <1>2 DEF ToolRow
<1>4. Resulted(g) = Resulted(h) \cup T
  BY RowsClosing
<1> HIDE DEF t
<1>5. Len(t) = Cardinality(T) /\ DOMAIN t = 1..Cardinality(T) /\ Len(h) \in Nat
  BY <1>2, <1>3, LenProperties
<1>6. /\ g \in Seq(Row) /\ Len(g) = Len(h) + Cardinality(T)
      /\ \A i \in 1..(Len(h) + Cardinality(T)) : g[i] = IF i <= Len(h) THEN h[i] ELSE t[i - Len(h)]
  BY <1>2, <1>5, ConcatProperties
<1> HIDE DEF g
<1>7. \A i \in 1..Len(h) : g[i] = h[i]
  BY <1>2, <1>5, <1>6
<1>8. ASSUME NEW i \in (Len(h) + 1)..Len(g)
      PROVE  g[i].role = "tool" /\ g[i].calls # {} /\ g[i].calls \subseteq T
  <2>1. i - Len(h) \in DOMAIN t /\ g[i] = t[i - Len(h)]
    BY <1>2, <1>5, <1>6
  <2> QED
    BY <1>3, <2>1
<1> HIDE DEF T
<1>9. T \subseteq OpenToolCalls(h)
  BY DEF T
<1>10. Blocks(g)
  BY <1>4, <1>6, <1>7, <1>8, <1>9, ResultsBlocks
<1> QED
  BY <1>10 DEF g, t

(* A transcript of blocks without open calls is paired.                    *)
LEMMA BlocksArePaired ==
  ASSUME NEW h \in Seq(Row), Blocks(h), OpenToolCalls(h) = {}
  PROVE  Paired(h)
<1>1. DOMAIN h = 1..Len(h) /\ Len(h) \in Nat
  BY RowOf
<1>2. \A i \in DOMAIN h : h[i].role = "assistant" => h[i].calls \subseteq Resulted(h) /\ Answered(h, i)
  BY DEF Blocks, OpenToolCalls, Declared
<1>3. ASSUME NEW i \in DOMAIN h, h[i].role = "tool"
      PROVE  \E j \in 1..(i - 1) : Kept(h, j) /\ h[i].calls \subseteq h[j].calls
  <2>1. PICK j \in DOMAIN h : j < i /\ h[j].role = "assistant" /\ h[i].calls # {} /\ h[i].calls \subseteq h[j].calls
    BY <1>3 DEF Blocks
  <2>2. j \in 1..(i - 1)
    BY <1>1, <2>1
  <2> QED
    BY <1>2, <2>1, <2>2 DEF Kept
<1> QED
  BY <1>2, <1>3 DEF Paired, Kept, Answered


-----------------------------------------------------------------------------
(* Every open call is held, when no message is posted over pending         *)
(* interrupts and no resume fails                                          *)

Calm == Serial /\ "abandon" \notin Allowed /\ "resume_error" \notin Allowed

Settled == {"tail", "check", "write", "finish"}

(* Steps that leave the transcript alone keep what is open in hand.        *)
LEMMA MovesHeld ==
  ASSUME OneAtATime, OpenIsHeld, NEW r \in Runs, Busy(r),
         \A q \in Runs : q # r => pc'[q] = pc[q],
         OpenToolCalls(rows') \subseteq OpenToolCalls(rows), UNCHANGED ckpt, Active' => Active,
         pc'[r] = "loop" => \A c \in OpenToolCalls(rows') : call'[r][c] # "-",
         pc'[r] \in Opening \cup {"cleared", "starting"} => OpenToolCalls(rows') = {} /\ pend' = <<>>,
         pc'[r] = "partial" => OpenToolCalls(rows') = {},
         pc'[r] \in Settled \cup AtRest /\ pend' = <<>> => OpenToolCalls(rows') = {}
  PROVE  OpenIsHeld'
<1>1. \A q \in Runs : q # r => pc'[q] \in AtRest
  BY DEF OneAtATime, Busy
<1>2. \A q \in Runs : q # r =>
        pc'[q] \notin Opening \cup {"cleared", "starting", "loop", "partial"} \cup Settled
  BY <1>1 DEF AtRest, Opening, Settled
<1>3. Quiet' => pc'[r] \in AtRest
  BY DEF Quiet
<1> QED
  BY <1>2, <1>3 DEF OpenIsHeld, Settled

(* Steps of a run keep what is open in hand.                               *)
LEMMA RunStepHeld ==
  ASSUME TypeOK, ConsentInv, OneAtATime, PendingInv, AskedPends, RepairInv, OpenIsHeld,
         "resume_error" \notin Allowed, NEW r \in Runs, RunStep(r),
         ~(\E q \in Runs : DeclareCalls(q)), ~(\E q \in Runs, c \in Calls : RunTool(q, c)),
         ~(\E q \in Runs : Interrupt(q))
  PROVE  OpenIsHeld'
<1>0. /\ pc \in [Runs -> Labels] /\ todo \in [Runs -> SUBSET Calls] /\ call \in [Runs -> [Calls -> Phases]]
      /\ rows \in Seq(Row) /\ OpenToolCalls(rows) \in SUBSET Calls
  BY DeclaredType DEF TypeOK
<1>1. Busy(r) /\ UNCHANGED <<up, late>> /\ \A q \in Runs : q # r => pc'[q] = pc[q]
  BY StepsAreBusy
<1>2. /\ OpenToolCalls(rows') \subseteq OpenToolCalls(rows)
      /\ UNCHANGED ckpt /\ (Active' => Active)
  BY OpenStep, HoldsNoMore DEF Next
<1>3. CASE Handling(r)
  <2>1. \/ /\ pc[r] \in Opening \cup {"cleared"} /\ pc'[r] \in Opening \cup {"cleared", "starting"}
           /\ pend' = pend \/ pend' = <<>>
        \/ pc'[r] \in Resuming
    BY <1>0, <1>3 DEF Handling, ListPrior, StoreUser, StartCreate, CreateBuffer, ClearPending,
       ClearPendingRows, DropPendingRow, ResumeRead, ResumeWrite, ResumeCreate, Goto, Resuming, Opening, durable
  <2> QED
    BY <1>1, <1>2, <2>1, MovesHeld DEF OpenIsHeld, Resuming, Opening, Settled, AtRest
<1>4. CASE BeginRun(r)
  <2>1. pc[r] = "starting" /\ pc'[r] = "loop"
    BY <1>0, <1>4 DEF BeginRun, Goto
  <2>2. OpenToolCalls(rows') = {}
    BY <1>2, <2>1 DEF OpenIsHeld
  <2> QED
    BY <1>1, <1>2, <2>1, <2>2, MovesHeld DEF Opening, Settled, AtRest
<1>5. CASE LoadCheckpoint(r)
  <2>1. /\ pc[r] = "load" /\ pc'[r] = "loop"
        /\ \A c \in Calls : call'[r][c] = Reenter(ckpt[c], targets[r][c])
    BY <1>0, <1>5 DEF LoadCheckpoint, Goto
  <2>2. Active
    BY <2>1 DEF Active, Resuming
  <2>3. \A c \in OpenToolCalls(rows) : c \in Calls /\ ckpt[c] # "-"
    BY <1>0, <2>2 DEF OpenIsHeld
  <2>4. \A c \in OpenToolCalls(rows') : call'[r][c] # "-"
    BY <1>2, <2>1, <2>3 DEF Reenter
  <2> QED
    BY <1>1, <1>2, <2>1, <2>4, MovesHeld DEF Opening, Settled, AtRest
<1>6. CASE LoadFails(r)
  <2>1. ckpt = NoCalls /\ pc[r] = "load"
    BY <1>6 DEF LoadFails
  <2> QED
    BY <2>1 DEF RepairInv, Resuming, NoCalls
<1>7. ASSUME NEW c \in Calls, AskUser(r, c) PROVE OpenIsHeld'
  <2>1. /\ pc[r] = "loop" /\ pc'[r] = "loop"
        /\ \A d \in Calls : call'[r][d] = IF d = c THEN "asked" ELSE call[r][d]
    BY <1>0, <1>7 DEF AskUser, handler
  <2>2. \A d \in OpenToolCalls(rows') : call'[r][d] # "-"
    BY <1>0, <1>2, <2>1 DEF OpenIsHeld
  <2> QED
    BY <1>1, <1>2, <2>1, <2>2, MovesHeld DEF Opening, Settled, AtRest
<1>8. ASSUME NEW c \in Calls, DeliverResult(r, c) PROVE OpenIsHeld'
  <2>1. /\ pc[r] = "loop" /\ pc'[r] = "loop" /\ rows' = AppendToolResult(rows, c, call[r][c])
        /\ call[r][c] \in Outcomes
        /\ \A d \in Calls : call'[r][d] = IF d = c THEN "-" ELSE call[r][d]
    BY <1>0, <1>8 DEF DeliverResult, handler, Outcomes
  <2>2. c \notin OpenToolCalls(rows')
    BY <1>0, <2>1, RowsResult DEF OpenToolCalls
  <2>3. \A d \in OpenToolCalls(rows') : call'[r][d] # "-"
    BY <1>0, <1>2, <2>1, <2>2 DEF OpenIsHeld
  <2> QED
    BY <1>1, <1>2, <2>1, <2>3, MovesHeld DEF Opening, Settled, AtRest
<1>9. CASE Reply(r) \/ Fail(r) \/ Abandon(r)
  <2>1. pc'[r] \in {"tail", "partial", "scan"} /\ pc[r] \in {"loop", "tail"}
    BY <1>0, <1>9 DEF Reply, Fail, Abandon, Goto, AfterError
  <2>2. pc'[r] \in {"tail", "partial"} => pc[r] = "loop" /\ call[r] = NoCalls
    BY <1>0, <1>9 DEF Reply, Fail, Abandon, Goto, AfterError
  <2>3. pc'[r] \in {"tail", "partial"} => OpenToolCalls(rows) = {}
    BY <1>0, <2>2 DEF OpenIsHeld, NoCalls
  <2> QED
    BY <1>1, <1>2, <2>1, <2>3, MovesHeld DEF Opening, Settled, AtRest
<1>10. CASE BeginResume(r) \/ InsertPendingRow(r) \/ \E c \in Calls : Record(r, c)
  <2>1. pc'[r] \in {"load", "mark", "insert"}
    BY <1>0, <1>10 DEF BeginResume, InsertPendingRow, Record, Goto
  <2> QED
    BY <1>1, <1>2, <2>1, MovesHeld DEF Opening, Settled, AtRest
<1>11. CASE MarkWaiting(r)
  <2>1. pc[r] = "mark" /\ pc'[r] \in {"tail", "emit"} /\ UNCHANGED pend /\ now[r] # {} /\ now[r] \subseteq Calls
    BY <1>0, <1>11 DEF MarkWaiting, Goto, TypeOK
  <2>2. pend' # <<>>
    BY <2>1 DEF AskedPends, Pends
  <2> QED
    BY <1>1, <1>2, <2>1, <2>2, MovesHeld DEF Opening, Settled, AtRest
<1>12. CASE Exhaust(r) \/ CheckPending(r) \/ KeepPartial(r) \/ ScanOpen(r) \/ CloseOpen(r)
  <2>1. /\ UNCHANGED pend /\ pc'[r] \in {"check", "finalize", "scan", "close"}
        /\ pc'[r] = "check" => pc[r] = "tail"
    BY <1>0, <1>12 DEF Exhaust, CheckPending, KeepPartial, ScanOpen, CloseOpen, Goto, AfterLoop, durable
  <2> QED
    BY <1>1, <1>2, <2>1, MovesHeld DEF OpenIsHeld, Opening, Settled, AtRest
<1>13. CASE ReadHead(r)
  <2>1. /\ pc[r] = "finalize" \/ (pc[r] = "close" /\ todo[r] = {})
        /\ UNCHANGED pend
    BY <1>13 DEF ReadHead, durable
  <2>2. pend = <<>> => Listed = {}
    BY DEF Listed, Unresolved
  <2>3. pend' = <<>> => OpenToolCalls(rows') = {}
    BY <1>2, <2>1, <2>2 DEF RepairInv
  <2>4. pc'[r] = "write"
    BY <1>0, <1>13 DEF ReadHead, Goto
  <2> QED
    BY <1>1, <1>2, <2>3, <2>4, MovesHeld DEF Opening, AtRest
<1>14. CASE WriteStatus(r) \/ Finish(r)
  <2>1. /\ UNCHANGED pend /\ pc[r] \in Settled /\ pc'[r] \in {"finish", "done"}
    BY <1>0, <1>14 DEF WriteStatus, Finish, Goto, durable, Settled
  <2> QED
    BY <1>1, <1>2, <2>1, MovesHeld DEF OpenIsHeld, Opening, Settled
<1> QED
  BY <1>3, <1>4, <1>5, <1>6, <1>7, <1>8, <1>9, <1>10, <1>11, <1>12, <1>13, <1>14
     DEF RunStep, Driving, Settling

(* So does every other step.                                               *)
LEMMA OpenHeldStep ==
  ASSUME Calm, TypeOK, ConsentInv, OneAtATime, PendingInv, ResultsKnown, AskedPends, RepairInv, OpenIsHeld,
         [Next]_vars
  PROVE  OpenIsHeld'
<1>0. /\ pc \in [Runs -> Labels] /\ call \in [Runs -> [Calls -> Phases]] /\ rows \in Seq(Row)
      /\ OpenToolCalls(rows) \in SUBSET Calls
  BY DeclaredType DEF TypeOK
<1>1. ASSUME NEW r \in Runs, DeclareCalls(r) PROVE OpenIsHeld'
  <2>1. PICK S \in SUBSET (Calls \ Declared(rows)) :
          /\ rows' = Append(rows, AssistantRow(S))
          /\ call' = [call EXCEPT ![r] = [c \in Calls |-> IF c \in S THEN "called" ELSE "-"]]
    BY <1>1 DEF DeclareCalls
  <2>2. pc[r] = "loop" /\ call[r] = NoCalls /\ UNCHANGED <<pc, pend, pendDB, ckpt>>
    BY <1>1 DEF DeclareCalls, handler
  <2>3. OpenToolCalls(rows) = {}
    BY <1>0, <2>2 DEF OpenIsHeld, NoCalls
  <2>4. OpenToolCalls(rows') \subseteq S
    BY <1>0, <2>1, <2>3, AssistantRowType, RowsAppend DEF AssistantRow, OpenToolCalls
  <2>5. \A c \in OpenToolCalls(rows') : call'[r][c] # "-"
    BY <1>0, <2>1, <2>4
  <2>6. ~Active'
    BY <2>2, LoopIsAlone DEF Active
  <2>7. \A q \in Runs : (pc'[q] = "loop" /\ q = r) \/ pc'[q] \in AtRest
    BY <2>2 DEF OneAtATime, Busy, AtRest
  <2>8. ~Quiet'
    BY <2>2 DEF Quiet, AtRest
  <2> QED
    BY <2>5, <2>6, <2>7, <2>8 DEF OpenIsHeld, AtRest, Opening
<1>2. ASSUME NEW r \in Runs, NEW c \in Calls, RunTool(r, c) PROVE OpenIsHeld'
  <2>1. /\ UNCHANGED <<rows, ckpt, pc, pend, pendDB, up>>
        /\ \A q \in Runs, d \in Calls : call'[q][d] = IF q = r /\ d = c THEN "ran" ELSE call[q][d]
    BY <1>0, <1>2 DEF RunTool, durable, handler
  <2>2. (Active' <=> Active) /\ (Quiet' <=> Quiet)
    BY <2>1 DEF Active, Quiet
  <2> QED
    BY <1>0, <2>1, <2>2 DEF OpenIsHeld
<1>3. ASSUME NEW r \in Runs, Interrupt(r) PROVE OpenIsHeld'
  <2>1. /\ pc[r] = "loop" /\ pc' = [pc EXCEPT ![r] = "emit"] /\ UNCHANGED rows /\ ckpt' = call[r]
    BY <1>3 DEF Interrupt, Goto
  <2>2. \A q \in Runs : pc'[q] \in AtRest \cup {"emit"}
    BY <1>0, <2>1 DEF OneAtATime, Busy, AtRest
  <2>3. ~Quiet'
    BY <1>0, <2>1 DEF Quiet, AtRest
  <2>4. \A c \in OpenToolCalls(rows') : ckpt'[c] # "-"
    BY <2>1 DEF OpenIsHeld
  <2> QED
    BY <2>2, <2>3, <2>4 DEF OpenIsHeld, AtRest, Opening
<1>4. ASSUME UNCHANGED <<rows, ckpt, pc, call, pend, pendDB, up>> PROVE OpenIsHeld'
  BY <1>4 DEF OpenIsHeld, Active, Quiet
<1>5. CASE LateStep \/ Cancel \/ UNCHANGED vars
  BY <1>4, <1>5 DEF LateStep, LateRead, LateWrite, Cancel, vars, durable, handler, runner
<1>6. CASE Crash
  <2>1. /\ UNCHANGED <<rows, ckpt, pendDB>> /\ pend' = <<>> /\ ~up' /\ \A q \in Runs : pc'[q] \in AtRest
    BY <1>6 DEF Crash, durable, AtRest
  <2>2. Active' => Active
    BY <2>1 DEF Active, AtRest, Emitting, Resuming
  <2> QED
    BY <2>1, <2>2 DEF OpenIsHeld, AtRest, Opening
<1>7. CASE Reconcile
  <2>1. /\ UNCHANGED <<pc, ckpt>> /\ \A q \in Runs : pc'[q] \in AtRest
        /\ pendDB' = <<>> \/ pendDB' = pendDB
        /\ DOMAIN pend' = DOMAIN pendDB'
    BY <1>7 DEF Reconcile, handler, OneAtATime, Quiet
  <2>2. pend' = <<>> <=> pendDB' = <<>>
    BY <2>1, TypeInductive, EmptySeq DEF TypeOK
  <2>3. CASE pendDB' = <<>>
    <3>1. ~Active'
      BY <2>1, <2>2, <2>3 DEF Active, AtRest, Emitting, Resuming
    <3>2. OpenToolCalls(rows') = {}
      <4>1. CASE status \in Stale
        <5>1. PICK s \in Orders(OpenToolCalls(rows)) :
                rows' = rows \o [i \in DOMAIN s |-> ToolRow(s[i], "canceled")]
          BY <1>7, <2>3, <4>1 DEF Reconcile
        <5> QED
          BY <1>0, <5>1, RowsClosing DEF OpenToolCalls
      <4>2. CASE status \notin Stale
        BY <1>7, <2>3, <4>2 DEF Reconcile, RepairInv, OpenCallsRepairable
      <4> QED
        BY <4>1, <4>2
    <3> QED
      BY <2>1, <3>1, <3>2 DEF OpenIsHeld, AtRest, Opening
  <2>4. CASE pendDB' # <<>>
    <3>1. Active /\ UNCHANGED rows
      BY <1>7, <2>1, <2>4 DEF Active, Reconcile
    <3> QED
      BY <2>1, <2>2, <2>4, <3>1 DEF OpenIsHeld, AtRest, Opening
  <2> QED
    BY <2>3, <2>4
<1>8. ASSUME NEW r \in Runs, Post(r) PROVE OpenIsHeld'
  <2>1. /\ UNCHANGED <<rows, ckpt, pend, pendDB>> /\ up /\ Quiet /\ pend = <<>>
        /\ \A q \in Runs : pc'[q] = IF q = r THEN "posted" ELSE pc[q]
    BY <1>0, <1>8 DEF Post, Calm, Serial, Goto, durable, HasPending
  <2>2. OpenToolCalls(rows') = {}
    BY <2>1 DEF OpenIsHeld
  <2>3. \A q \in Runs : pc'[q] \in AtRest \cup {"posted"}
    BY <2>1 DEF Quiet
  <2> QED
    BY <2>1, <2>2, <2>3 DEF OpenIsHeld, AtRest
<1>9. ASSUME NEW c \in Calls, NEW a \in Answers, AnswerOne(c, a) \/ \E r \in Runs : AnswerLast(c, a, r)
      PROVE  OpenIsHeld'
  <2>1. /\ UNCHANGED <<rows, ckpt>> /\ c \in Listed /\ Quiet
        /\ \/ UNCHANGED pc /\ DOMAIN pend' = DOMAIN pend
           \/ \E r \in Runs : \A q \in Runs : pc'[q] = IF q = r THEN "resolved" ELSE pc[q]
    BY <1>0, <1>9 DEF AnswerOne, AnswerLast, MayAnswer, Calm, Serial, Goto, durable, Resolved
  <2>2. \E i \in DOMAIN pend : TRUE
    BY <2>1 DEF Listed, Unresolved
  <2>3. Active
    BY <2>2 DEF Active
  <2>4. \A q \in Runs : pc'[q] \in AtRest \cup {"resolved"}
    BY <2>1 DEF Quiet
  <2>5. Quiet' => pend' # <<>>
    BY <2>1, <2>2 DEF Quiet, AtRest
  <2> QED
    BY <2>1, <2>3, <2>4, <2>5 DEF OpenIsHeld, AtRest, Opening
<1> QED
  BY <1>1, <1>2, <1>3, <1>5, <1>6, <1>7, <1>8, <1>9, RunStepHeld DEF Next, UserStep, Calm


(* The transcript stays a sequence of blocks.                              *)
LEMMA BlocksStep ==
  ASSUME TypeOK, ConsentInv, ResultsKnown, OpenIsHeld, Blocks(rows), [Next]_vars
  PROVE  Blocks(rows')
<1>0. /\ call \in [Runs -> [Calls -> Phases]] /\ rows \in Seq(Row) /\ todo \in [Runs -> SUBSET Calls]
      /\ OpenToolCalls(rows) \in SUBSET Calls /\ Resulted(rows) \subseteq Declared(rows)
  BY DeclaredType DEF TypeOK, ResultsKnown
<1>1. ASSUME NEW r \in Runs, StoreUser(r) PROVE Blocks(rows')
  <2>1. OpenToolCalls(rows) = {} /\ rows' = Append(rows, UserRow)
    BY <1>1 DEF StoreUser, OpenIsHeld, Opening
  <2> QED
    BY <1>0, <2>1, UserRowType, PlainRowBlocks DEF UserRow
<1>2. ASSUME NEW r \in Runs, Reply(r) \/ KeepPartial(r) PROVE Blocks(rows')
  <2>1. OpenToolCalls(rows) = {} /\ (UNCHANGED rows \/ rows' = Append(rows, AssistantRow({})))
    BY <1>0, <1>2 DEF Reply, KeepPartial, OpenIsHeld, NoCalls
  <2> QED
    BY <1>0, <2>1, AssistantRowType, PlainRowBlocks DEF AssistantRow
<1>3. ASSUME NEW r \in Runs, DeclareCalls(r) PROVE Blocks(rows')
  <2>1. PICK S \in SUBSET (Calls \ Declared(rows)) : rows' = Append(rows, AssistantRow(S))
    BY <1>3 DEF DeclareCalls
  <2>2. OpenToolCalls(rows) = {}
    BY <1>0, <1>3 DEF DeclareCalls, OpenIsHeld, NoCalls
  <2> QED
    BY <1>0, <2>1, <2>2, AssistantRowType, PlainRowBlocks DEF AssistantRow
<1>4. ASSUME NEW r \in Runs, NEW c \in Calls, DeliverResult(r, c) PROVE Blocks(rows')
  <2>1. rows' = AppendToolResult(rows, c, call[r][c]) /\ call[r][c] \in Outcomes /\ c \in Declared(rows)
    BY <1>4 DEF DeliverResult, Outcomes, ConsentInv, AskedIsDeclared
  <2> QED
    BY <1>0, <2>1, ToolResultBlocks
<1>5. ASSUME NEW r \in Runs, CloseOpen(r) PROVE Blocks(rows')
  <2>1. PICK c \in todo[r] : rows' = AppendToolResult(rows, c, "canceled")
    BY <1>5 DEF CloseOpen
  <2>2. c \in Calls /\ c \in Declared(rows)
    BY <1>0, <1>5 DEF CloseOpen, ResultsKnown
  <2> QED
    BY <1>0, <2>1, <2>2, ToolResultBlocks DEF Outcomes
<1>6. CASE Reconcile
  BY <1>0, <1>6, ClosingBlocks DEF Reconcile
<1> QED
  BY <1>1, <1>2, <1>3, <1>4, <1>5, <1>6, RowWriters

(* A prompt is the whole transcript, after every step.                     *)
LEMMA PromptStep ==
  ASSUME TypeOK, OneAtATime, PromptIsAll, [Next]_vars
  PROVE  PromptIsAll'
<1>0. /\ pc \in [Runs -> Labels] /\ plen \in [Runs -> Nat]
  BY DEF TypeOK
<1> SUFFICES ASSUME NEW q \in Runs, pc'[q] = "listed" PROVE plen'[q] = Len(rows')
  BY DEF PromptIsAll
<1> DEFINE Same == pc[q] = "listed" /\ UNCHANGED <<rows, plen>>
<1>1. ASSUME NEW r \in Runs, RunStep(r), ~(\E c \in Calls : RunTool(r, c)), ~ListPrior(r) PROVE FALSE
  <2>1. Busy(r) /\ \A p \in Runs : p # r => pc'[p] = pc[p]
    BY <1>1, StepsAreBusy
  <2>2. pc'[r] # "listed"
    <3>1. CASE Handling(r)
      BY <1>0, <1>1, <3>1 DEF Handling, StoreUser, StartCreate, CreateBuffer, ClearPending,
         ClearPendingRows, DropPendingRow, ResumeRead, ResumeWrite, ResumeCreate, Goto
    <3>2. CASE Driving(r)
      BY <1>0, <1>1, <3>2 DEF Driving, BeginRun, BeginResume, LoadCheckpoint, LoadFails, DeclareCalls, Reply,
         Interrupt, AskUser, DeliverResult, Record, InsertPendingRow, MarkWaiting, Exhaust,
         Fail, Abandon, AfterError, Goto, handler
    <3>3. CASE Settling(r)
      BY <1>0, <3>3 DEF Settling, CheckPending, KeepPartial, ScanOpen, CloseOpen, ReadHead,
         WriteStatus, Finish, AfterLoop, Goto
    <3> QED
      BY <1>1, <3>1, <3>2, <3>3 DEF RunStep
  <2>3. q # r => pc[q] = "listed" /\ Busy(q)
    BY <2>1 DEF Busy, AtRest
  <2> QED
    BY <2>1, <2>2, <2>3 DEF OneAtATime
<1>2. ASSUME NEW r \in Runs, ListPrior(r) PROVE plen'[q] = Len(rows')
  <2>1. /\ pc[r] = "posted" /\ plen' = [plen EXCEPT ![r] = Len(rows)] /\ UNCHANGED rows
        /\ pc' = [pc EXCEPT ![r] = "listed"]
    BY <1>2 DEF ListPrior, durable, Goto
  <2>2. q = r
    BY <1>0, <2>1 DEF OneAtATime, Busy, AtRest
  <2> QED
    BY <1>0, <2>1, <2>2
<1>3. ASSUME NEW r \in Runs, NEW c \in Calls, RunTool(r, c) PROVE Same
  BY <1>3 DEF RunTool, durable, handler
<1>4. ASSUME UserStep \/ LateStep \/ Crash \/ UNCHANGED vars PROVE Same
  BY <1>0, <1>4 DEF UserStep, Post, AnswerOne, AnswerLast, Cancel, LateStep, LateRead, LateWrite,
     Crash, vars, handler, durable, Goto
<1>5. ASSUME Reconcile PROVE FALSE
  BY <1>5 DEF Reconcile, handler, OneAtATime, Quiet, AtRest
<1>6. Same => plen'[q] = Len(rows')
  BY DEF PromptIsAll
<1> HIDE DEF Same
<1> QED
  BY <1>1, <1>2, <1>3, <1>4, <1>5, <1>6 DEF Next

(* The first plen rows of a transcript that has no more are the            *)
(* transcript.                                                             *)
LEMMA WholePrompt ==
  ASSUME NEW h \in Seq(Row)
  PROVE  SubSeq(h, 1, Len(h)) = h
<1>1. Len(h) \in Nat /\ \A i \in 1..Len(h) : h[i] \in Row
  BY LenProperties, ElementOfSeq
<1>2. /\ SubSeq(h, 1, Len(h)) \in Seq(Row) /\ Len(SubSeq(h, 1, Len(h))) = Len(h)
      /\ \A i \in 1..Len(h) : SubSeq(h, 1, Len(h))[i] = h[i]
  BY <1>1, SubSeqProperties
<1> QED
  BY <1>2, SeqEqual

(* The rows a run sends to the model pair each assistant message that is   *)
(* kept with its results, which are in front of anything else: closing the *)
(* open calls of the last turn appends their results right after it. It    *)
(* needs a user who answers before writing on (run ChatUnpaired shows      *)
(* why).                                                                   *)
THEOREM PromptsArePaired == ASSUME Calm PROVE Spec => []PromptIsPaired
<1>1. Init => ConsentInv
  BY EmptySeq DEF Init, NoCalls, NoAnswer, ConsentInv, AskedIsDeclared, CheckpointAsked,
     YesWasSaid, CalledIsSanctioned, RunsOnlyOnYes
<1>2. Init => ResultsKnown /\ AskedPends /\ RepairInv
  BY EmptySeq DEF Init, NoCalls, ResultsKnown, Resulted, AskedPends, Busy, AtRest, Emitting, Resuming,
     Gate, RepairInv, OpenCallsRepairable, OpenToolCalls, Declared, Attended
<1>3. Init => OpenIsHeld /\ Blocks(rows) /\ PromptIsAll
  BY EmptySeq DEF Init, OpenIsHeld, Blocks, PromptIsAll, OpenToolCalls, Declared, Opening
<1>4. SerialInv => OneAtATime /\ PendingInv
  BY DEF SerialInv
<1>5. TypeOK /\ OpenIsHeld /\ Blocks(rows) /\ PromptIsAll => PromptIsPaired
  <2> SUFFICES ASSUME TypeOK, OpenIsHeld, Blocks(rows), PromptIsAll, NEW r \in Runs, pc[r] = "listed"
               PROVE  Paired(SubSeq(rows, 1, plen[r]))
    BY DEF PromptIsPaired
  <2>1. rows \in Seq(Row) /\ plen[r] = Len(rows) /\ OpenToolCalls(rows) = {}
    BY DEF TypeOK, PromptIsAll, OpenIsHeld, Opening
  <2>2. SubSeq(rows, 1, plen[r]) = rows
    BY <2>1, WholePrompt
  <2> QED
    BY <2>1, <2>2, BlocksArePaired
<1>6. TypeOK /\ ConsentInv /\ ResultsKnown /\ [Next]_vars => ResultsKnown'
  BY ResultsKnownStep
<1>7. TypeOK /\ OneAtATime /\ PendingInv /\ AskedPends /\ [Next]_vars => AskedPends'
  BY AskedStep DEF Calm
<1>8. TypeOK /\ OneAtATime /\ PendingInv /\ AskedPends /\ RepairInv /\ [Next]_vars => RepairInv'
  BY RepairStep DEF Calm
<1>9. TypeOK /\ ConsentInv /\ OneAtATime /\ PendingInv /\ ResultsKnown /\ AskedPends /\ RepairInv
      /\ OpenIsHeld /\ [Next]_vars => OpenIsHeld'
  BY OpenHeldStep
<1>10. TypeOK /\ ConsentInv /\ ResultsKnown /\ OpenIsHeld /\ Blocks(rows) /\ [Next]_vars => Blocks(rows)'
  BY BlocksStep DEF Blocks, Answered, BeingAnswered, Resulted
<1>11. TypeOK /\ OneAtATime /\ PromptIsAll /\ [Next]_vars => PromptIsAll'
  BY PromptStep
<1>12. TypeOK /\ ConsentInv /\ SerialInv /\ [Next]_vars => SerialInv'
  BY SerialStep DEF Calm
<1> QED
  BY <1>1, <1>2, <1>3, <1>4, <1>5, <1>6, <1>7, <1>8, <1>9, <1>10, <1>11, <1>12, TypeCorrect,
     ConsentInductive, SerialInit, PTL DEF Spec

-----------------------------------------------------------------------------
(* What the transcript says of a call                                      *)

(* The outcome of a call is the one in its result row.                     *)
LEMMA OutcomeOfRow ==
  ASSUME NEW h, SingleResults(h), NEW i \in DOMAIN h, NEW c \in Calls,
         h[i].role = "tool", h[i].calls = {c}
  PROVE  c \in Resulted(h) /\ ResultOf(h, c) = h[i].out
<1> DEFINE At(j) == h[j].role = "tool" /\ h[j].calls = {c}
<1>1. c \in Resulted(h)
  BY DEF Resulted
<1>2. \A j \in DOMAIN h : At(j) => j = i
  BY DEF SingleResults, ToolRowsDiffer
<1>3. (CHOOSE j \in DOMAIN h : At(j)) = i
  <2>1. At(i)
    OBVIOUS
  <2> HIDE DEF At
  <2> QED
    BY <1>2, <2>1, Zenon
<1> QED
  BY <1>1, <1>3 DEF ResultOf

(* A call with a result has a row of its own.                              *)
LEMMA RowOfResult ==
  ASSUME NEW h, SingleResults(h), NEW c \in Resulted(h)
  PROVE  \E i \in DOMAIN h : h[i].role = "tool" /\ h[i].calls = {c}
  BY DEF Resulted, SingleResults, ToolRowsSingle

(* A transcript that only grows keeps every outcome it has.                *)
LEMMA OutcomesStay ==
  ASSUME NEW h, NEW g, SingleResults(h), SingleResults(g), NEW c \in Calls, c \in Resulted(h),
         \A i \in DOMAIN h : i \in DOMAIN g /\ g[i] = h[i]
  PROVE  ResultOf(g, c) = ResultOf(h, c)
<1>1. PICK i \in DOMAIN h : h[i].role = "tool" /\ h[i].calls = {c}
  BY RowOfResult
<1> QED
  BY <1>1, OutcomeOfRow

(* A row that is no result says nothing about any call.                    *)
LEMMA PlainRowOutcome ==
  ASSUME NEW h \in Seq(Row), NEW x \in Row, x.role # "tool", SingleResults(h), NEW c \in Calls
  PROVE  ResultOf(Append(h, x), c) = ResultOf(h, c)
<1> DEFINE g == Append(h, x)
<1>1. SingleResults(g) /\ Resulted(g) = Resulted(h)
  BY PlainRowKeepsSingle, RowsAppend
<1>2. \A i \in DOMAIN h : i \in DOMAIN g /\ g[i] = h[i]
  BY AppendProperties, LenProperties
<1> HIDE DEF g
<1>3. CASE c \in Resulted(h)
  BY <1>1, <1>2, <1>3, OutcomesStay DEF g
<1>4. CASE c \notin Resulted(h)
  BY <1>1, <1>4 DEF ResultOf, g
<1> QED
  BY <1>3, <1>4

(* The first result of a call is the one that counts.                      *)
LEMMA ToolRowOutcome ==
  ASSUME NEW h \in Seq(Row), NEW c \in Calls, NEW out \in Outcomes, SingleResults(h), NEW d \in Calls
  PROVE  ResultOf(AppendToolResult(h, c, out), d)
           = IF d = c /\ c \notin Resulted(h) THEN out ELSE ResultOf(h, d)
<1> DEFINE x == ToolRow(c, out)
           g == AppendToolResult(h, c, out)
<1>1. SingleResults(g) /\ Resulted(g) = Resulted(h) \cup {c}
  BY KeyedRowKeepsSingle, RowsResult
<1>2. CASE c \in Resulted(h)
  BY <1>2 DEF AppendToolResult
<1>3. CASE c \notin Resulted(h)
  <2>1. x \in Row /\ x.role = "tool" /\ x.calls = {c} /\ x.out = out
    BY ToolRowType DEF ToolRow
  <2>2. g = Append(h, x)
    BY <1>3 DEF AppendToolResult
  <2> HIDE DEF x, g
  <2>3. /\ \A i \in DOMAIN h : i \in DOMAIN g /\ g[i] = h[i]
        /\ Len(h) + 1 \in DOMAIN g /\ g[Len(h) + 1] = x
    BY <2>1, <2>2, AppendProperties, LenProperties
  <2>4. CASE d = c
    <3>1. ResultOf(g, c) = out
      BY <1>1, <2>1, <2>3, OutcomeOfRow
    <3> QED
      BY <1>3, <2>4, <3>1 DEF g
  <2>5. CASE d # c /\ d \in Resulted(h)
    <3>1. ResultOf(g, d) = ResultOf(h, d)
      BY <1>1, <2>3, <2>5, OutcomesStay
    <3> QED
      BY <2>5, <3>1 DEF g
  <2>6. CASE d # c /\ d \notin Resulted(h)
    <3>1. ResultOf(g, d) = ResultOf(h, d)
      BY <1>1, <2>6 DEF ResultOf
    <3> QED
      BY <2>6, <3>1 DEF g
  <2> QED
    BY <2>4, <2>5, <2>6
<1> QED
  BY <1>2, <1>3

(* The repair gives every open call the same outcome.                      *)
LEMMA ClosingOutcome ==
  ASSUME NEW h \in Seq(Row), NEW s \in Orders(OpenToolCalls(h)), SingleResults(h), NEW c \in Calls
  PROVE  ResultOf(h \o [i \in DOMAIN s |-> ToolRow(s[i], "canceled")], c)
           = IF c \in OpenToolCalls(h) THEN "canceled" ELSE ResultOf(h, c)
<1> DEFINE t == [i \in DOMAIN s |-> ToolRow(s[i], "canceled")]
           g == h \o t
<1>1. SingleResults(g) /\ Resulted(g) = Resulted(h) \cup OpenToolCalls(h)
  BY ClosingKeepsSingle, RowsClosing
<1>2. OpenToolCalls(h) \in SUBSET Calls
  BY DeclaredType
<1>3. t \in Seq(Row) /\ {s[i] : i \in DOMAIN s} = OpenToolCalls(h)
  BY <1>2, ClosingRows, OrdersAll
<1>4. /\ DOMAIN t = DOMAIN s
      /\ \A i \in DOMAIN s : t[i].role = "tool" /\ t[i].calls = {s[i]} /\ t[i].out = "canceled"
  BY DEF ToolRow
<1> HIDE DEF t
<1>5. /\ \A i \in DOMAIN h : i \in DOMAIN g /\ g[i] = h[i]
      /\ \A k \in DOMAIN t : Len(h) + k \in DOMAIN g /\ g[Len(h) + k] = t[k]
  <2>1. g \in Seq(Row) /\ Len(g) = Len(h) + Len(t) /\ Len(h) \in Nat /\ Len(t) \in Nat
        /\ DOMAIN h = 1..Len(h) /\ DOMAIN t = 1..Len(t) /\ DOMAIN g = 1..(Len(h) + Len(t))
    BY <1>3, ConcatProperties, LenProperties
  <2>2. \A i \in 1..(Len(h) + Len(t)) : g[i] = IF i <= Len(h) THEN h[i] ELSE t[i - Len(h)]
    BY <1>3, <2>1, ConcatProperties
  <2> HIDE DEF g
  <2>3. ASSUME NEW k \in DOMAIN t PROVE Len(h) + k \in DOMAIN g /\ g[Len(h) + k] = t[k]
    <3>1. Len(h) + k \in 1..(Len(h) + Len(t)) /\ ~(Len(h) + k <= Len(h)) /\ (Len(h) + k) - Len(h) = k
      BY <2>1
    <3> QED
      BY <2>1, <2>2, <3>1
  <2> QED
    BY <2>1, <2>2, <2>3
<1> HIDE DEF g
<1>6. CASE c \in OpenToolCalls(h)
  <2>1. PICK k \in DOMAIN s : s[k] = c
    BY <1>3, <1>6
  <2>2. ResultOf(g, c) = "canceled"
    BY <1>1, <1>4, <1>5, <2>1, OutcomeOfRow
  <2> QED
    BY <1>6, <2>2 DEF g, t
<1>7. CASE c \notin OpenToolCalls(h) /\ c \in Resulted(h)
  <2>1. ResultOf(g, c) = ResultOf(h, c)
    BY <1>1, <1>5, <1>7, OutcomesStay
  <2> QED
    BY <1>7, <2>1 DEF g, t
<1>8. CASE c \notin OpenToolCalls(h) /\ c \notin Resulted(h)
  <2>1. ResultOf(g, c) = ResultOf(h, c)
    BY <1>1, <1>8 DEF ResultOf
  <2> QED
    BY <1>8, <2>1 DEF g, t
<1> QED
  BY <1>6, <1>7, <1>8

(* What each step makes the transcript say: nothing new, the result the    *)
(* runner delivers of one call, or that open calls are given up.           *)
LEMMA OutcomeStep ==
  ASSUME TypeOK, SingleResults(rows), ResultsKnown, [Next]_vars
  PROVE  \/ \A c \in Calls : ResultOf(rows', c) = ResultOf(rows, c)
         \/ \E r \in Runs, c \in Calls :
              /\ DeliverResult(r, c) /\ c \notin Resulted(rows)
              /\ \A d \in Calls : ResultOf(rows', d) = IF d = c THEN call[r][c] ELSE ResultOf(rows, d)
         \/ \E S \in SUBSET OpenToolCalls(rows) :
              /\ Reconcile \/ \E r \in Runs : CloseOpen(r)
              /\ \A d \in Calls : ResultOf(rows', d) = IF d \in S THEN "canceled" ELSE ResultOf(rows, d)
<1>0. rows \in Seq(Row) /\ todo \in [Runs -> SUBSET Calls]
  BY DEF TypeOK
<1>1. ASSUME NEW x \in {UserRow} \cup {AssistantRow(S) : S \in SUBSET Calls}, rows' = Append(rows, x),
             NEW c \in Calls
      PROVE  ResultOf(rows', c) = ResultOf(rows, c)
  <2>1. x \in Row /\ x.role # "tool"
    BY UserRowType, AssistantRowType DEF UserRow, AssistantRow
  <2> QED
    BY <1>0, <1>1, <2>1, PlainRowOutcome
<1>2. ASSUME NEW r \in Runs, StoreUser(r) \/ Reply(r) \/ KeepPartial(r) \/ DeclareCalls(r), NEW c \in Calls
      PROVE  ResultOf(rows', c) = ResultOf(rows, c)
  <2>1. \/ UNCHANGED rows
        \/ \E x \in {UserRow} \cup {AssistantRow(S) : S \in SUBSET Calls} : rows' = Append(rows, x)
    BY <1>2 DEF StoreUser, Reply, KeepPartial, DeclareCalls
  <2> QED
    BY <1>1, <2>1
<1>3. ASSUME NEW r \in Runs, NEW c \in Calls, DeliverResult(r, c)
      PROVE  \/ \A d \in Calls : ResultOf(rows', d) = ResultOf(rows, d)
             \/ /\ c \notin Resulted(rows)
                /\ \A d \in Calls : ResultOf(rows', d) = IF d = c THEN call[r][c] ELSE ResultOf(rows, d)
  <2>1. rows' = AppendToolResult(rows, c, call[r][c]) /\ call[r][c] \in Outcomes
    BY <1>3 DEF DeliverResult, Outcomes
  <2>2. \A d \in Calls : ResultOf(rows', d) = IF d = c /\ c \notin Resulted(rows) THEN call[r][c]
                                              ELSE ResultOf(rows, d)
    BY <1>0, <2>1, ToolRowOutcome
  <2> QED
    BY <2>2
<1>4. ASSUME NEW r \in Runs, CloseOpen(r)
      PROVE  \E S \in SUBSET OpenToolCalls(rows) :
               \A d \in Calls : ResultOf(rows', d) = IF d \in S THEN "canceled" ELSE ResultOf(rows, d)
  <2>1. PICK c \in todo[r] : pc[r] = "close" /\ rows' = AppendToolResult(rows, c, "canceled")
    BY <1>4 DEF CloseOpen
  <2>2. c \in Calls /\ c \in Declared(rows)
    BY <1>0, <2>1 DEF ResultsKnown
  <2>3. \A d \in Calls : ResultOf(rows', d) = IF d = c /\ c \notin Resulted(rows) THEN "canceled"
                                              ELSE ResultOf(rows, d)
    BY <1>0, <2>1, <2>2, ToolRowOutcome DEF Outcomes
  <2>4. {c} \ Resulted(rows) \in SUBSET OpenToolCalls(rows)
    BY <2>2 DEF OpenToolCalls
  <2> QED
    BY <2>3, <2>4
<1>5. ASSUME Reconcile
      PROVE  \E S \in SUBSET OpenToolCalls(rows) :
               \A d \in Calls : ResultOf(rows', d) = IF d \in S THEN "canceled" ELSE ResultOf(rows, d)
  <2>1. \/ UNCHANGED rows
        \/ \E s \in Orders(OpenToolCalls(rows)) :
             rows' = rows \o [i \in DOMAIN s |-> ToolRow(s[i], "canceled")]
    BY <1>5 DEF Reconcile
  <2>2. CASE UNCHANGED rows
    <3>1. PICK S \in SUBSET OpenToolCalls(rows) : S = {}
      OBVIOUS
    <3> QED
      BY <2>2, <3>1
  <2>3. ASSUME NEW s \in Orders(OpenToolCalls(rows)),
               rows' = rows \o [i \in DOMAIN s |-> ToolRow(s[i], "canceled")]
        PROVE  \A d \in Calls : ResultOf(rows', d) = IF d \in OpenToolCalls(rows) THEN "canceled"
                                                     ELSE ResultOf(rows, d)
    BY <1>0, <2>3, ClosingOutcome
  <2> QED
    BY <2>1, <2>2, <2>3
<1> DEFINE Same == \A c \in Calls : ResultOf(rows', c) = ResultOf(rows, c)
           One(r, c) == /\ DeliverResult(r, c) /\ c \notin Resulted(rows)
                        /\ \A d \in Calls : ResultOf(rows', d) = IF d = c THEN call[r][c] ELSE ResultOf(rows, d)
           Given(S) == \A d \in Calls : ResultOf(rows', d) = IF d \in S THEN "canceled" ELSE ResultOf(rows, d)
<1>6. UNCHANGED rows => Same
  OBVIOUS
<1>7. \A r \in Runs : StoreUser(r) \/ Reply(r) \/ KeepPartial(r) \/ DeclareCalls(r) => Same
  BY <1>2
<1>8. \A r \in Runs, c \in Calls : DeliverResult(r, c) => Same \/ One(r, c)
  BY <1>3
<1>9. (Reconcile \/ \E r \in Runs : CloseOpen(r)) => \E S \in SUBSET OpenToolCalls(rows) : Given(S)
  BY <1>4, <1>5
<1> HIDE DEF Same, One, Given
<1>10. \/ Same \/ \E r \in Runs, c \in Calls : One(r, c)
       \/ (Reconcile \/ \E r \in Runs : CloseOpen(r))
  BY <1>6, <1>7, <1>8, RowWriters
<1>11. \/ Same \/ \E r \in Runs, c \in Calls : One(r, c)
       \/ \E S \in SUBSET OpenToolCalls(rows) : (Reconcile \/ \E r \in Runs : CloseOpen(r)) /\ Given(S)
  BY <1>9, <1>10
<1> QED
  BY <1>11 DEF Same, One, Given

-----------------------------------------------------------------------------
(* What the transcript says is true                                        *)

(* A refusal that is on its way was said by the user.                      *)
NoWasSaid ==
  /\ \A r \in Runs, c \in Calls : targets[r][c] = "no" => "no" \in said[c]
  /\ \A i \in DOMAIN pend : pend[i].ans = "no" => "no" \in said[pend[i].call]

(* A result in the hands of a run, in the checkpoint or in the transcript. *)
Reached(c, out) ==
  \/ \E r \in Runs : call[r][c] = out
  \/ ckpt[c] = out
  \/ ResultOf(rows, c) = out

(* A call that can be run or put to the user.                              *)
InPlay(c) == (\E r \in Runs : InHand(r, c)) \/ (Active /\ ckpt[c] = "asked")

(* A result "ran" is of a tool that ran; a call that is denied anywhere    *)
(* was refused, has not run and is out of play.                            *)
OutcomesTrue ==
  \A c \in Calls :
    /\ Reached(c, "ran") => execs[c] > 0
    /\ Reached(c, "denied") => c \in asked /\ "no" \in said[c] /\ execs[c] = 0 /\ ~InPlay(c)

(* The user's answers are remembered.                                      *)
LEMMA SaidGrows ==
  ASSUME TypeOK, [Next]_vars
  PROVE  /\ asked \subseteq asked' /\ \A c \in Calls : said[c] \subseteq said'[c]
         /\ \/ UNCHANGED <<asked, said>>
            \/ \E r \in Runs, c \in Calls : AskUser(r, c)
            \/ \E c \in Calls, a \in Answers : AnswerOne(c, a) \/ \E r \in Runs : AnswerLast(c, a, r)
<1>1. \/ UNCHANGED <<asked, said>>
      \/ \E r \in Runs, c \in Calls : AskUser(r, c)
      \/ \E c \in Calls, a \in Answers : AnswerOne(c, a) \/ \E r \in Runs : AnswerLast(c, a, r)
  BY DEF Next, vars, UserStep, Post, Cancel, LateStep, LateRead, LateWrite,
     Crash, Reconcile, RunStep, Handling, Driving, Settling, ListPrior, StoreUser, StartCreate,
     CreateBuffer, ClearPending, ClearPendingRows, DropPendingRow, ResumeRead, ResumeWrite,
     ResumeCreate, BeginRun, BeginResume, LoadCheckpoint, LoadFails, DeclareCalls, Reply,
     Interrupt, RunTool, DeliverResult, Record, InsertPendingRow, MarkWaiting, Exhaust, Fail,
     Abandon, CheckPending, KeepPartial, ScanOpen, CloseOpen, ReadHead, WriteStatus, Finish,
     history
<1>2. ASSUME NEW r \in Runs, NEW c \in Calls, AskUser(r, c)
      PROVE  asked \subseteq asked' /\ UNCHANGED said
  BY <1>2 DEF AskUser
<1>3. ASSUME NEW c \in Calls, NEW a \in Answers, AnswerOne(c, a) \/ \E r \in Runs : AnswerLast(c, a, r)
      PROVE  UNCHANGED asked /\ \A d \in Calls : said[d] \subseteq said'[d]
  <2>1. UNCHANGED asked /\ said' = [said EXCEPT ![c] = @ \cup {a}]
    BY <1>3 DEF AnswerOne, AnswerLast
  <2>2. said \in [Calls -> SUBSET Answers]
    BY DEF TypeOK
  <2> QED
    BY <2>1, <2>2
<1> QED
  BY <1>1, <1>2, <1>3

(* Who touches the pending list and the answers of a resume.               *)
LEMMA AnswerCarriers ==
  ASSUME [Next]_vars
  PROVE  \/ UNCHANGED <<pend, targets>>
         \/ pend' = <<>> /\ UNCHANGED targets
         \/ \E r \in Runs, c \in Calls : Record(r, c)
         \/ Crash \/ Reconcile
         \/ \E c \in Calls, a \in Answers : AnswerOne(c, a) \/ \E r \in Runs : AnswerLast(c, a, r)
  BY DEF Next, vars, UserStep, Post, Cancel, LateStep, LateRead, LateWrite,
     RunStep, Handling, Driving, Settling, ListPrior, StoreUser, StartCreate,
     CreateBuffer, ClearPending, ClearPendingRows, DropPendingRow, ResumeRead, ResumeWrite,
     ResumeCreate, BeginRun, BeginResume, LoadCheckpoint, LoadFails, DeclareCalls, Reply,
     Interrupt, RunTool, AskUser, DeliverResult, InsertPendingRow, MarkWaiting, Exhaust, Fail,
     Abandon, CheckPending, KeepPartial, ScanOpen, CloseOpen, ReadHead, WriteStatus, Finish,
     runner

(* An answer is said before it reaches a pending item or a target.         *)
LEMMA AnswerRefuses ==
  ASSUME TypeOK, NoWasSaid, NEW c \in Calls, NEW a \in Answers,
         AnswerOne(c, a) \/ \E r \in Runs : AnswerLast(c, a, r)
  PROVE  NoWasSaid'
<1>1. \A d \in Calls : said'[d] = IF d = c THEN said[d] \cup {a} ELSE said[d]
  <2>1. said' = [said EXCEPT ![c] = said[c] \cup {a}]
    BY DEF AnswerOne, AnswerLast
  <2> QED
    BY <2>1 DEF TypeOK
<1>2. \A i \in DOMAIN pend : pend[i].call \in Calls
  BY PendItems
<1>3. CASE AnswerOne(c, a)
  <2>1. /\ DOMAIN pend' = DOMAIN pend /\ UNCHANGED targets
        /\ \A i \in DOMAIN pend : /\ pend'[i].call = pend[i].call
                                  /\ pend'[i].ans = IF pend[i].call = c THEN a ELSE pend[i].ans
    BY <1>3, LenProperties DEF AnswerOne, Resolved, TypeOK, runner
  <2>2. \A q \in Runs, d \in Calls : targets'[q][d] = "no" => "no" \in said'[d]
    BY <1>1, <2>1 DEF NoWasSaid
  <2>3. ASSUME NEW i \in DOMAIN pend, pend'[i].ans = "no" PROVE "no" \in said'[pend'[i].call]
    <3>1. CASE pend[i].call = c
      <4>1. pend'[i].call = c
        BY <2>1, <3>1
      <4>2. a = "no"
        BY <2>1, <2>3, <3>1
      <4>3. "no" \in said'[c]
        BY <1>1, <4>2
      <4> QED
        BY <4>1, <4>3
    <3>2. CASE pend[i].call # c
      <4>1. pend'[i].call = pend[i].call /\ "no" \in said[pend[i].call]
        BY <2>1, <2>3, <3>2 DEF NoWasSaid
      <4>2. said'[pend[i].call] = said[pend[i].call]
        BY <1>1, <1>2, <3>2
      <4> QED
        BY <4>1, <4>2
    <3> QED
      BY <3>1, <3>2
  <2> QED
    BY <2>1, <2>2, <2>3 DEF NoWasSaid
<1>4. ASSUME NEW r \in Runs, AnswerLast(c, a, r) PROVE NoWasSaid'
  <2>1. /\ \A q \in Runs, d \in Calls : targets'[q][d] =
             IF q # r THEN targets[q][d]
             ELSE IF d = c THEN a
             ELSE IF \E i \in DOMAIN pend : pend[i].call = d
                  THEN pend[CHOOSE i \in DOMAIN pend : pend[i].call = d].ans
                  ELSE "none"
        /\ pend' = <<>>
    BY <1>4 DEF AnswerLast, TypeOK
  <2>2. \A d \in Calls :
          (\E i \in DOMAIN pend : pend[i].call = d)
            => (pend[CHOOSE i \in DOMAIN pend : pend[i].call = d].ans = "no" => "no" \in said[d])
    BY DEF NoWasSaid
  <2>3. ASSUME NEW q \in Runs, NEW d \in Calls, targets'[q][d] = "no" PROVE "no" \in said'[d]
    <3>1. CASE q # r
      BY <1>1, <2>1, <2>3, <3>1 DEF NoWasSaid
    <3>2. CASE q = r /\ d = c
      <4>1. a = "no"
        BY <2>1, <2>3, <3>2
      <4> QED
        BY <1>1, <3>2, <4>1
    <3>3. CASE q = r /\ d # c
      BY <1>1, <2>1, <2>2, <2>3, <3>3
    <3> QED
      BY <3>1, <3>2, <3>3
  <2>4. DOMAIN pend' = {}
    BY <2>1
  <2> QED
    BY <2>3, <2>4 DEF NoWasSaid
<1> QED
  BY <1>3, <1>4

(* Nobody refuses for the user.                                            *)
LEMMA NoStep ==
  ASSUME TypeOK, NoWasSaid, [Next]_vars
  PROVE  NoWasSaid'
<1>1. \A c \in Calls : said[c] \subseteq said'[c]
  BY SaidGrows
<1>2. \A i \in DOMAIN pend : pend[i].call \in Calls
  BY PendItems
<1>3. ASSUME UNCHANGED targets, \A i \in DOMAIN pend' : \/ pend'[i].ans = "none"
                                                        \/ i \in DOMAIN pend /\ pend'[i] = pend[i]
      PROVE  NoWasSaid'
  BY <1>1, <1>2, <1>3 DEF NoWasSaid
<1>4. ASSUME NEW r \in Runs, NEW c \in Calls, Record(r, c) PROVE NoWasSaid'
  <2>1. UNCHANGED targets /\ (pend' = pend \/ pend' = Append(pend, Item(c)))
    BY <1>4 DEF Record, runner
  <2>2. Item(c).ans = "none"
    BY DEF Item
  <2>3. pend \in Seq([call: Calls, ans: Answers \cup {"none"}])
    BY DEF TypeOK
  <2>4. ASSUME pend' = Append(pend, Item(c)), NEW i \in DOMAIN pend'
        PROVE  pend'[i] = Item(c) \/ (i \in DOMAIN pend /\ pend'[i] = pend[i])
    <3> DEFINE x == Item(c)
    <3> HIDE DEF x
    <3>1. /\ Len(pend) \in Nat /\ DOMAIN pend = 1..Len(pend) /\ DOMAIN Append(pend, x) = 1..(Len(pend) + 1)
          /\ (\A j \in 1..Len(pend) : Append(pend, x)[j] = pend[j]) /\ Append(pend, x)[Len(pend) + 1] = x
      BY <2>3, PendItems
    <3>2. pend' = Append(pend, x)
      BY <2>4 DEF x
    <3> QED
      BY <2>4, <3>1, <3>2 DEF x
  <2> QED
    BY <1>3, <2>1, <2>2, <2>4
<1>5. CASE Crash
  <2>1. pend' = <<>> /\ targets' = [r \in Runs |-> NoAnswer]
    BY <1>5 DEF Crash
  <2> QED
    BY <2>1 DEF NoWasSaid, NoAnswer
<1>6. CASE Reconcile
  <2>1. UNCHANGED targets /\ \A i \in DOMAIN pend' : pend'[i].ans = "none"
    BY <1>6 DEF Reconcile, runner, Item
  <2> QED
    BY <1>3, <2>1
<1>7. ASSUME pend' = <<>>, UNCHANGED targets PROVE NoWasSaid'
  BY <1>3, <1>7
<1>8. CASE UNCHANGED <<pend, targets>>
  BY <1>3, <1>8
<1> QED
  BY <1>4, <1>5, <1>6, <1>7, <1>8, AnswerRefuses, AnswerCarriers

(* Where a result comes from: the tool, a refusal met by a resume, or the  *)
(* place where it was before.                                              *)
LEMMA PhaseSources ==
  ASSUME TypeOK, [Next]_vars, NEW c \in Calls, NEW out \in {"ran", "denied"}
  PROVE  /\ \A q \in Runs : call'[q][c] = out =>
              \/ call[q][c] = out
              \/ RunTool(q, c) /\ out = "ran"
              \/ LoadCheckpoint(q) /\ Reenter(ckpt[c], targets[q][c]) = out
         /\ ckpt'[c] = out => ckpt[c] = out \/ \E q \in Runs : call[q][c] = out
<1>0. call \in [Runs -> [Calls -> Phases]]
  BY DEF TypeOK
<1>1. ckpt'[c] = out => ckpt[c] = out \/ \E q \in Runs : call[q][c] = out
  <2>1. ASSUME NEW r \in Runs, Interrupt(r) PROVE ckpt' = call[r]
    BY <2>1 DEF Interrupt
  <2> QED
    BY <2>1, HoldsNoMore
<1>2. ASSUME NEW q \in Runs, call'[q][c] = out, call[q][c] # out
      PROVE  \/ RunTool(q, c) /\ out = "ran"
             \/ LoadCheckpoint(q) /\ Reenter(ckpt[c], targets[q][c]) = out
  <2>1. ASSUME NEW r \in Runs, NEW d \in Calls, RunTool(r, d)
        PROVE  RunTool(q, c) /\ out = "ran"
    <3>1. call' = [call EXCEPT ![r][d] = "ran"]
      BY <2>1 DEF RunTool
    <3>2. r = q /\ d = c
      BY <1>0, <1>2, <3>1
    <3> QED
      BY <1>0, <1>2, <2>1, <3>1, <3>2
  <2>2. ASSUME NEW r \in Runs, LoadCheckpoint(r)
        PROVE  LoadCheckpoint(q) /\ Reenter(ckpt[c], targets[q][c]) = out
    <3>1. call' = [call EXCEPT ![r] = [d \in Calls |-> Reenter(ckpt[d], targets[r][d])]]
      BY <2>2 DEF LoadCheckpoint
    <3>2. r = q
      BY <1>0, <1>2, <3>1
    <3> QED
      BY <1>0, <1>2, <2>2, <3>1, <3>2
  <2>3. ASSUME NEW r \in Runs, DeclareCalls(r) PROVE FALSE
    <3>1. PICK S : call' = [call EXCEPT ![r] = [d \in Calls |-> IF d \in S THEN "called" ELSE "-"]]
      BY <2>3 DEF DeclareCalls
    <3> QED
      BY <1>0, <1>2, <3>1
  <2>4. ASSUME NEW r \in Runs, NEW d \in Calls, AskUser(r, d) \/ DeliverResult(r, d) PROVE FALSE
    BY <1>0, <1>2, <2>4 DEF AskUser, DeliverResult
  <2>5. ASSUME NEW r \in Runs, Interrupt(r) \/ Fail(r) PROVE FALSE
    BY <1>0, <1>2, <2>5 DEF Interrupt, Fail, NoCalls
  <2>6. ASSUME NEW r \in Runs, Abandon(r) PROVE FALSE
    BY <1>0, <1>2, <2>6 DEF Abandon
  <2>7. ASSUME Crash PROVE FALSE
    BY <1>2, <2>7 DEF Crash, NoCalls
  <2>8. UNCHANGED call => FALSE
    BY <1>2
  <2>9. \/ UNCHANGED call \/ Crash
        \/ \E r \in Runs : \/ DeclareCalls(r) \/ LoadCheckpoint(r) \/ Interrupt(r) \/ Fail(r) \/ Abandon(r)
                           \/ \E d \in Calls : RunTool(r, d) \/ AskUser(r, d) \/ DeliverResult(r, d)
    BY DEF Next, vars, UserStep, Post, AnswerOne, AnswerLast, Cancel, LateStep, LateRead, LateWrite,
       Reconcile, RunStep, Handling, Driving, Settling, ListPrior, StoreUser, StartCreate,
       CreateBuffer, ClearPending, ClearPendingRows, DropPendingRow, ResumeRead, ResumeWrite,
       ResumeCreate, BeginRun, BeginResume, LoadFails, Reply,
       Record, InsertPendingRow, MarkWaiting, Exhaust,
       CheckPending, KeepPartial, ScanOpen, CloseOpen, ReadHead, WriteStatus, Finish, runner
  <2> QED
    BY <2>1, <2>2, <2>3, <2>4, <2>5, <2>6, <2>7, <2>8, <2>9
<1> QED
  BY <1>1, <1>2


(* A run of a call, or the refusal of one, is told by whoever holds its    *)
(* result: these are the only steps that make a call reach an outcome.     *)
LEMMA ReachedStep ==
  ASSUME TypeOK, SingleResults(rows), ResultsKnown, [Next]_vars,
         NEW c \in Calls, NEW out \in {"ran", "denied"}, Reached(c, out)'
  PROVE  \/ Reached(c, out)
         \/ \E r \in Runs : \/ RunTool(r, c) /\ out = "ran"
                            \/ LoadCheckpoint(r) /\ ckpt[c] = "asked" /\ targets[r][c] = "no" /\ out = "denied"
<1>1. ASSUME NEW q \in Runs, call'[q][c] = out
      PROVE  \/ Reached(c, out)
             \/ RunTool(q, c) /\ out = "ran"
             \/ LoadCheckpoint(q) /\ ckpt[c] = "asked" /\ targets[q][c] = "no" /\ out = "denied"
  <2>1. \/ call[q][c] = out
        \/ RunTool(q, c) /\ out = "ran"
        \/ LoadCheckpoint(q) /\ Reenter(ckpt[c], targets[q][c]) = out
    BY <1>1, PhaseSources
  <2>2. Reenter(ckpt[c], targets[q][c]) = out =>
          ckpt[c] = out \/ (ckpt[c] = "asked" /\ targets[q][c] = "no" /\ out = "denied")
    BY DEF Reenter
  <2> QED
    BY <2>1, <2>2 DEF Reached
<1>2. ASSUME ckpt'[c] = out PROVE Reached(c, out)
  <2>1. ckpt[c] = out \/ \E q \in Runs : call[q][c] = out
    BY <1>2, PhaseSources
  <2> QED
    BY <2>1 DEF Reached
<1>3. ASSUME ResultOf(rows', c) = out PROVE Reached(c, out)
  <2>1. CASE ResultOf(rows', c) = ResultOf(rows, c)
    BY <1>3, <2>1 DEF Reached
  <2>2. ASSUME NEW r \in Runs, NEW d \in Calls,
               ResultOf(rows', c) = IF c = d THEN call[r][d] ELSE ResultOf(rows, c)
        PROVE  Reached(c, out)
    BY <1>3, <2>2 DEF Reached
  <2>3. ASSUME NEW S, ResultOf(rows', c) = IF c \in S THEN "canceled" ELSE ResultOf(rows, c)
        PROVE  Reached(c, out)
    BY <1>3, <2>3 DEF Reached
  <2> QED
    BY <2>1, <2>2, <2>3, OutcomeStep
<1>4. (\E q \in Runs : call'[q][c] = out) \/ ckpt'[c] = out \/ ResultOf(rows', c) = out
  BY DEF Reached
<1> QED
  BY <1>1, <1>2, <1>3, <1>4

(* Once a checkpoint is loaded nothing pends: it cannot be re-entered.     *)
LEMMA LoadEndsIt ==
  ASSUME TypeOK, OneAtATime, PendingInv, NEW r \in Runs, LoadCheckpoint(r)
  PROVE  Active /\ ~Active'
<1>1. pc[r] = "load" /\ pc' = [pc EXCEPT ![r] = "loop"] /\ UNCHANGED <<pend, pendDB>>
  BY DEF LoadCheckpoint, durable, Goto
<1>2. pend = <<>> /\ pendDB = <<>> /\ Active
  BY <1>1 DEF PendingInv, NothingPends, Active, Resuming
<1>3. \A q \in Runs : q # r => pc'[q] \in AtRest
  BY <1>1 DEF OneAtATime, Busy, AtRest, TypeOK
<1>4. pc'[r] = "loop"
  BY <1>1 DEF TypeOK
<1> QED
  BY <1>1, <1>2, <1>3, <1>4 DEF Active, AtRest, Emitting, Resuming

(* A call that is out of play stays there, unless the model declares it.   *)
LEMMA OutOfPlay ==
  ASSUME TypeOK, ConsentInv, OneAtATime, PendingInv, OneHolder, [Next]_vars,
         NEW c \in Declared(rows), c \in Calls, ~InPlay(c)
  PROVE  ~InPlay(c)'
<1>0. call \in [Runs -> [Calls -> Phases]]
  BY DEF TypeOK
<1>1. (\A q \in Runs : ~InHand(q, c)) /\ ~(Active /\ ckpt[c] = "asked")
  BY DEF InPlay
<1>2. ASSUME NEW r \in Runs, DeclareCalls(r), NEW q \in Runs PROVE ~InHand(q, c)'
  <2>1. PICK S \in SUBSET (Calls \ Declared(rows)) :
          call' = [call EXCEPT ![r] = [d \in Calls |-> IF d \in S THEN "called" ELSE "-"]]
    BY <1>2 DEF DeclareCalls
  <2>2. c \notin S
    BY <2>1
  <2>3. call'[q][c] = IF q = r THEN "-" ELSE call[q][c]
    BY <1>0, <2>1, <2>2
  <2> QED
    BY <1>1, <2>3 DEF InHand
<1>3. ASSUME NEW r \in Runs, LoadCheckpoint(r), NEW q \in Runs PROVE ~InHand(q, c)'
  <2>1. call' = [call EXCEPT ![r] = [d \in Calls |-> Reenter(ckpt[d], targets[r][d])]]
    BY <1>3 DEF LoadCheckpoint
  <2>2. call'[q][c] = IF q = r THEN Reenter(ckpt[c], targets[r][c]) ELSE call[q][c]
    BY <1>0, <2>1
  <2>3. ckpt[c] # "asked" /\ ckpt[c] # "called"
    BY <1>1, <1>3, LoadEndsIt DEF ConsentInv, CheckpointAsked
  <2>4. Reenter(ckpt[c], targets[r][c]) \notin {"called", "asked"}
    BY <2>3 DEF Reenter
  <2> QED
    BY <1>1, <2>2, <2>4 DEF InHand
<1>4. \A q \in Runs : ~InHand(q, c)'
  BY <1>1, <1>2, <1>3, HoldsNoMore
<1>5. ASSUME NEW r \in Runs, Interrupt(r) PROVE ckpt'[c] # "asked"
  BY <1>1, <1>5 DEF Interrupt, InHand
<1>6. ~(Active' /\ ckpt'[c] = "asked")
  BY <1>1, <1>5, HoldsNoMore
<1> QED
  BY <1>4, <1>6 DEF InPlay

(* A denied call stays as it is.                                           *)
LEMMA DeniedStays ==
  ASSUME TypeOK, ConsentInv, OneAtATime, PendingInv, OneHolder, [Next]_vars,
         NEW c \in asked, c \in Calls, "no" \in said[c], execs[c] = 0, ~InPlay(c)
  PROVE  c \in asked' /\ "no" \in said'[c] /\ execs'[c] = 0 /\ ~InPlay(c)'
<1>1. c \in asked' /\ "no" \in said'[c]
  BY SaidGrows
<1>2. ~InPlay(c)'
  BY OutOfPlay DEF ConsentInv, AskedIsDeclared
<1>3. execs'[c] = 0
  <2>1. ASSUME NEW r \in Runs, NEW d \in Calls, RunTool(r, d) PROVE execs'[c] = 0
    <3>1. call[r][d] = "called" /\ execs' = [execs EXCEPT ![d] = @ + 1]
      BY <2>1 DEF RunTool
    <3>2. d # c
      BY <3>1 DEF InPlay, InHand
    <3> QED
      BY <3>1, <3>2 DEF TypeOK
  <2> QED
    BY <2>1, OnlyToolsExecute
<1> QED
  BY <1>1, <1>2, <1>3

(* A resume that brings a "no" puts the call out of play.                  *)
LEMMA DenialTrue ==
  ASSUME TypeOK, ConsentInv, OneAtATime, PendingInv, OneHolder, NoWasSaid,
         NEW r \in Runs, LoadCheckpoint(r), NEW c \in Calls, ckpt[c] = "asked", targets[r][c] = "no"
  PROVE  c \in asked' /\ "no" \in said'[c] /\ execs'[c] = 0 /\ ~InPlay(c)'
<1>1. UNCHANGED <<asked, said, execs>> /\ c \in asked /\ "no" \in said[c]
  BY DEF LoadCheckpoint, history, ConsentInv, CheckpointAsked, NoWasSaid
<1>2. Active /\ ~Active'
  BY LoadEndsIt
<1>3. execs[c] = 0 /\ \A q \in Runs : ~InHand(q, c)
  BY <1>2 DEF OneHolder
<1>4. ASSUME NEW q \in Runs PROVE ~InHand(q, c)'
  <2>1. call' = [call EXCEPT ![r] = [d \in Calls |-> Reenter(ckpt[d], targets[r][d])]]
    BY DEF LoadCheckpoint
  <2>2. call'[q][c] = IF q = r THEN Reenter(ckpt[c], targets[r][c]) ELSE call[q][c]
    BY <2>1 DEF TypeOK
  <2>3. Reenter(ckpt[c], targets[r][c]) = "denied"
    BY DEF Reenter
  <2> QED
    BY <1>3, <2>2, <2>3 DEF InHand
<1> QED
  BY <1>1, <1>2, <1>3, <1>4 DEF InPlay

(* Every step keeps what the transcript says true.                         *)
LEMMA OutcomesTrueStep ==
  ASSUME TypeOK, ConsentInv, SerialInv, SingleResults(rows), ResultsKnown, NoWasSaid, OutcomesTrue,
         [Next]_vars
  PROVE  OutcomesTrue'
<1>0. OneAtATime /\ PendingInv /\ OneHolder /\ execs \in [Calls -> Nat]
  BY DEF SerialInv, TypeOK
<1>1. ASSUME NEW c \in Calls, Reached(c, "ran")' PROVE execs'[c] > 0
  <2>1. CASE Reached(c, "ran")
    <3>1. execs[c] > 0
      BY <2>1 DEF OutcomesTrue
    <3>2. ASSUME NEW r \in Runs, NEW d \in Calls, RunTool(r, d) PROVE execs'[c] > 0
      BY <1>0, <3>1, <3>2 DEF RunTool
    <3> QED
      BY <3>1, <3>2, OnlyToolsExecute
  <2>2. ASSUME NEW r \in Runs, RunTool(r, c) PROVE execs'[c] > 0
    BY <1>0, <2>2 DEF RunTool
  <2> QED
    BY <1>1, <2>1, <2>2, ReachedStep
<1>2. ASSUME NEW c \in Calls, Reached(c, "denied")'
      PROVE  c \in asked' /\ "no" \in said'[c] /\ execs'[c] = 0 /\ ~InPlay(c)'
  <2>1. CASE Reached(c, "denied")
    BY <1>0, <2>1, DeniedStays DEF OutcomesTrue
  <2>2. ASSUME NEW r \in Runs, LoadCheckpoint(r), ckpt[c] = "asked", targets[r][c] = "no"
        PROVE  c \in asked' /\ "no" \in said'[c] /\ execs'[c] = 0 /\ ~InPlay(c)'
    BY <1>0, <2>2, DenialTrue
  <2> QED
    BY <1>2, <2>1, <2>2, ReachedStep
<1> QED
  BY <1>1, <1>2 DEF OutcomesTrue


-----------------------------------------------------------------------------
(* Every call lives the life CallLife describes                            *)

(* All that is needed of a state: types, consent, one holder of each call, *)
(* one true result for each, and no second execution.                      *)
LifeInv ==
  /\ TypeOK /\ ConsentInv /\ SerialInv /\ NeverReexecuted
  /\ SingleResults(rows) /\ ResultsKnown /\ NoWasSaid /\ OutcomesTrue

(* Nothing is declared at the start.                                       *)
LEMMA NothingTold ==
  ASSUME rows = <<>>
  PROVE  Declared(rows) = {} /\ Resulted(rows) = {} /\ \A c \in Calls : ResultOf(rows, c) = "none"
<1>1. DOMAIN rows = {}
  OBVIOUS
<1>2. Declared(rows) = {} /\ Resulted(rows) = {}
  BY <1>1 DEF Declared, Resulted
<1> QED
  BY <1>2 DEF ResultOf

(* A fresh conversation has the invariant, and is a fresh CallLife.        *)
LEMMA LifeInit == Init => LifeInv /\ Life!Init
<1> SUFFICES ASSUME Init PROVE LifeInv /\ Life!Init
  OBVIOUS
<1>1. TypeOK /\ SerialInv
  BY TypeInit, SerialInit
<1>2. ConsentInv /\ NeverReexecuted
  BY EmptySeq DEF Init, NoCalls, NoAnswer, ConsentInv, AskedIsDeclared, CheckpointAsked,
     YesWasSaid, CalledIsSanctioned, RunsOnlyOnYes, NeverReexecuted
<1>3. /\ rows = <<>> /\ pend = <<>> /\ asked = {} /\ said = [c \in Calls |-> {}]
      /\ execs = [c \in Calls |-> 0] /\ ckpt = NoCalls
      /\ \A r \in Runs : pc[r] = "unused" /\ call[r] = NoCalls /\ targets[r] = NoAnswer
  BY DEF Init
<1>4. Declared(rows) = {} /\ Resulted(rows) = {} /\ \A c \in Calls : ResultOf(rows, c) = "none"
  BY <1>3, NothingTold
<1>5. SingleResults(rows)
  BY <1>3 DEF SingleResults, ToolRowsSingle, ToolRowsDiffer
<1>6. ResultsKnown
  BY <1>3, <1>4 DEF ResultsKnown
<1>7. NoWasSaid
  BY <1>3 DEF NoWasSaid, NoAnswer
<1>8. OutcomesTrue
  <2>1. ASSUME NEW c \in Calls, NEW out \in {"ran", "denied"} PROVE ~Reached(c, out)
    BY <1>3, <1>4 DEF Reached, NoCalls
  <2> QED
    BY <2>1 DEF OutcomesTrue
<1>9. Life!Init
  BY <1>3, <1>4 DEF Life!Init
<1> QED
  BY <1>1, <1>2, <1>5, <1>6, <1>7, <1>8, <1>9 DEF LifeInv

(* The invariant is inductive.                                             *)
LEMMA LifeInvStep == ASSUME Serial PROVE LifeInv /\ [Next]_vars => LifeInv'
<1> SUFFICES ASSUME LifeInv, [Next]_vars PROVE LifeInv'
  OBVIOUS
<1>1. TypeOK' /\ ConsentInv' /\ SerialInv'
  BY TypeInductive, ConsentInductive, SerialStep DEF LifeInv
<1>2. NeverReexecuted'
  BY ExecutesOnce DEF LifeInv, SerialInv
<1>3. SingleResults(rows)'
  BY SingleInductive DEF LifeInv
<1>4. ResultsKnown' /\ NoWasSaid'
  BY ResultsKnownStep, NoStep DEF LifeInv
<1>5. OutcomesTrue'
  BY OutcomesTrueStep DEF LifeInv
<1> QED
  BY <1>1, <1>2, <1>3, <1>4, <1>5 DEF LifeInv


(* A result is one of the outcomes.                                        *)
LEMMA ResultOfType ==
  ASSUME NEW h \in Seq(Row), SingleResults(h), NEW c \in Calls
  PROVE  /\ ResultOf(h, c) \in Outcomes
         /\ c \notin Resulted(h) => ResultOf(h, c) = "none"
<1>1. c \notin Resulted(h) => ResultOf(h, c) = "none"
  BY DEF ResultOf
<1>2. CASE c \in Resulted(h)
  <2>1. PICK i \in DOMAIN h : h[i].role = "tool" /\ h[i].calls = {c}
    BY <1>2, RowOfResult
  <2>2. ResultOf(h, c) = h[i].out
    BY <2>1, OutcomeOfRow
  <2>3. h[i] \in Row
    OBVIOUS
  <2> QED
    BY <1>1, <2>2, <2>3 DEF Row
<1> QED
  BY <1>1, <1>2 DEF Outcomes

(* A call in play is alive: declared, never run, and told of as "canceled" *)
(* at most.                                                                *)
LEMMA AliveInPlay ==
  ASSUME LifeInv, NEW c \in Calls, InPlay(c)
  PROVE  Life!Alive(c)
<1>1. rows \in Seq(Row) /\ SingleResults(rows)
  BY DEF LifeInv, TypeOK
<1>2. execs[c] = 0
  BY DEF LifeInv, SerialInv, OneHolder, InPlay
<1>3. c \in Declared(rows)
  <2>1. CASE \E r \in Runs : InHand(r, c)
    BY <2>1 DEF LifeInv, ConsentInv, AskedIsDeclared, InHand
  <2>2. CASE ckpt[c] = "asked"
    BY <2>2 DEF LifeInv, ConsentInv, CheckpointAsked
  <2> QED
    BY <2>1, <2>2 DEF InPlay
<1>4. ResultOf(rows, c) \notin {"ran", "denied"}
  BY <1>2 DEF LifeInv, OutcomesTrue, Reached
<1>5. ResultOf(rows, c) \in {"none", "canceled"}
  BY <1>1, <1>4, ResultOfType DEF Outcomes
<1> QED
  BY <1>2, <1>3, <1>5 DEF Life!Alive

(* A tool that runs.                                                       *)
LEMMA RunLife ==
  ASSUME LifeInv, NEW r \in Runs, NEW c \in Calls, RunTool(r, c)
  PROVE  Life!Next
<1>1. call[r][c] = "called" /\ UNCHANGED <<rows, asked, said>> /\ execs' = [execs EXCEPT ![c] = @ + 1]
  BY DEF RunTool, durable
<1>2. Life!Alive(c)
  BY <1>1, AliveInPlay DEF InPlay, InHand
<1>3. execs' = [execs EXCEPT ![c] = 1]
  BY <1>1, <1>2 DEF Life!Alive
<1>4. c \in asked => "yes" \in said[c]
  BY <1>1 DEF LifeInv, ConsentInv, CalledIsSanctioned
<1>5. Life!Run(c)
  BY <1>1, <1>2, <1>3, <1>4 DEF Life!Run
<1> QED
  BY <1>5 DEF Life!Next

(* A call put to the user.                                                 *)
LEMMA AskLife ==
  ASSUME LifeInv, NEW r \in Runs, NEW c \in Calls, AskUser(r, c)
  PROVE  Life!Next
<1>1. call[r][c] = "called" /\ UNCHANGED <<rows, execs, said>> /\ asked' = asked \cup {c}
  BY DEF AskUser, durable
<1>2. Life!Alive(c)
  BY <1>1, AliveInPlay DEF InPlay, InHand
<1>3. Life!Ask(c)
  BY <1>1, <1>2 DEF Life!Ask
<1> QED
  BY <1>3 DEF Life!Next

(* An answer: what is listed was asked by the checkpoint, which can still  *)
(* be re-entered.                                                          *)
LEMMA AnswerLife ==
  ASSUME LifeInv, NEW c \in Calls, NEW a \in Answers,
         AnswerOne(c, a) \/ \E r \in Runs : AnswerLast(c, a, r)
  PROVE  Life!Next
<1>1. UNCHANGED <<rows, asked, execs>> /\ said' = [said EXCEPT ![c] = @ \cup {a}] /\ c \in Listed
  BY DEF AnswerOne, AnswerLast, MayAnswer, durable
<1>2. PICK i \in DOMAIN pend : pend[i].call = c
  BY <1>1 DEF Listed, Unresolved
<1>3. ckpt[c] = "asked" /\ pend # <<>>
  BY <1>2 DEF LifeInv, SerialInv, PendingInv
<1>4. c \in asked
  BY <1>3 DEF LifeInv, ConsentInv, CheckpointAsked
<1>5. Life!Alive(c)
  BY <1>3, AliveInPlay DEF InPlay, Active
<1>6. Life!Answer(c, a)
  BY <1>1, <1>4, <1>5 DEF Life!Answer
<1>7. a \in {"yes", "no"}
  BY DEF Answers
<1> QED
  BY <1>6, <1>7 DEF Life!Next

(* New calls.                                                              *)
LEMMA DeclareLife ==
  ASSUME LifeInv, NEW r \in Runs, DeclareCalls(r)
  PROVE  Life!Next
<1>1. PICK S \in SUBSET (Calls \ Declared(rows)) : rows' = Append(rows, AssistantRow(S))
  BY DEF DeclareCalls
<1>2. rows \in Seq(Row) /\ AssistantRow(S) \in Row /\ AssistantRow(S).role # "tool"
      /\ AssistantRow(S).role = "assistant" /\ AssistantRow(S).calls = S
  BY AssistantRowType DEF LifeInv, TypeOK, AssistantRow
<1>3. Declared(rows') = Declared(rows) \cup S
  <2> DEFINE x == AssistantRow(S)
  <2>1. x \in Row /\ x.role = "assistant" /\ x.calls = S /\ rows' = Append(rows, x)
    BY <1>1, <1>2
  <2> HIDE DEF x
  <2>2. Declared(Append(rows, x)) = Declared(rows) \cup (IF x.role = "assistant" THEN x.calls ELSE {})
    BY <1>2, <2>1, RowsAppend
  <2> QED
    BY <2>1, <2>2
<1>4. \A c \in Calls : ResultOf(rows', c) = ResultOf(rows, c)
  BY <1>1, <1>2, PlainRowOutcome DEF LifeInv
<1>5. UNCHANGED <<asked, said, execs>>
  BY DEF DeclareCalls, history
<1>6. Life!Declare
  BY <1>3, <1>4, <1>5 DEF Life!Declare
<1> QED
  BY <1>6 DEF Life!Next

(* Results: what the runner delivers is what happened to the call.         *)
LEMMA DeliverLife ==
  ASSUME LifeInv, NEW r \in Runs, NEW c \in Calls, DeliverResult(r, c), c \notin Resulted(rows),
         Declared(rows') = Declared(rows), UNCHANGED <<asked, said, execs>>,
         \A d \in Calls : ResultOf(rows', d) = IF d = c THEN call[r][c] ELSE ResultOf(rows, d)
  PROVE  Life!Next
<1> DEFINE out == call[r][c]
<1>1. out \in {"ran", "denied"} /\ c \in Declared(rows)
  BY DEF DeliverResult, LifeInv, ConsentInv, AskedIsDeclared
<1>2. Reached(c, out)
  BY DEF Reached
<1>3. ResultOf(rows, c) = "none"
  BY ResultOfType DEF LifeInv, TypeOK
<1>4. out = "ran" => execs[c] = 1
  BY <1>2 DEF LifeInv, OutcomesTrue, NeverReexecuted, TypeOK
<1>5. out = "denied" => execs[c] = 0 /\ c \in asked /\ "no" \in said[c]
  BY <1>2 DEF LifeInv, OutcomesTrue
<1>6. [d \in Calls |-> ResultOf(rows', d)] = [[d \in Calls |-> ResultOf(rows, d)] EXCEPT ![c] = out]
  OBVIOUS
<1>7. Life!Deliver(c, out)
  BY <1>1, <1>3, <1>4, <1>5, <1>6 DEF Life!Deliver, Life!Closed
<1> QED
  BY <1>1, <1>7 DEF Life!Next

(* Open calls are given up.                                                *)
LEMMA CloseLife ==
  ASSUME LifeInv, NEW S \in SUBSET OpenToolCalls(rows),
         Declared(rows') = Declared(rows), UNCHANGED <<asked, said, execs>>,
         \A d \in Calls : ResultOf(rows', d) = IF d \in S THEN "canceled" ELSE ResultOf(rows, d)
  PROVE  Life!Next
<1>1. S \in SUBSET Declared(rows) /\ S \in SUBSET Calls
  BY DeclaredType DEF LifeInv, TypeOK, OpenToolCalls
<1>2. \A c \in S : ResultOf(rows, c) = "none"
  BY <1>1, ResultOfType DEF OpenToolCalls, LifeInv, TypeOK
<1>3. Life!Close(S)
  BY <1>1, <1>2 DEF Life!Close, Life!Closed
<1> QED
  BY <1>1, <1>3 DEF Life!Next

(* Every step of the conversation is a step of CallLife, or none.          *)
LEMMA LifeStep ==
  ASSUME LifeInv, [Next]_vars
  PROVE  [Life!Next]_(Life!vars)
<1>1. ASSUME UNCHANGED <<asked, said, execs>>, ~ \E r \in Runs : DeclareCalls(r)
      PROVE  [Life!Next]_(Life!vars)
  <2>1. Declared(rows') = Declared(rows)
    BY <1>1, RowsStep DEF LifeInv, RowsKept
  <2>2. CASE \A c \in Calls : ResultOf(rows', c) = ResultOf(rows, c)
    BY <1>1, <2>1, <2>2 DEF Life!vars
  <2>3. ASSUME NEW r \in Runs, NEW c \in Calls, DeliverResult(r, c), c \notin Resulted(rows),
               \A d \in Calls : ResultOf(rows', d) = IF d = c THEN call[r][c] ELSE ResultOf(rows, d)
        PROVE  Life!Next
    BY <1>1, <2>1, <2>3, DeliverLife
  <2>4. ASSUME NEW S \in SUBSET OpenToolCalls(rows),
               \A d \in Calls : ResultOf(rows', d) = IF d \in S THEN "canceled" ELSE ResultOf(rows, d)
        PROVE  Life!Next
    BY <1>1, <2>1, <2>4, CloseLife
  <2> QED
    BY <2>2, <2>3, <2>4, OutcomeStep DEF LifeInv
<1>2. ASSUME NEW r \in Runs, DeclareCalls(r) PROVE Life!Next
  BY <1>2, DeclareLife
<1>3. ASSUME NEW r \in Runs, NEW c \in Calls, RunTool(r, c) \/ AskUser(r, c) PROVE Life!Next
  BY <1>3, RunLife, AskLife
<1>4. ASSUME NEW c \in Calls, NEW a \in Answers, AnswerOne(c, a) \/ \E r \in Runs : AnswerLast(c, a, r)
      PROVE  Life!Next
  BY <1>4, AnswerLife
<1>5. \/ UNCHANGED <<asked, said, execs>>
      \/ \E r \in Runs, c \in Calls : RunTool(r, c) \/ AskUser(r, c)
      \/ \E c \in Calls, a \in Answers : AnswerOne(c, a) \/ \E r \in Runs : AnswerLast(c, a, r)
  BY OnlyToolsExecute, SaidGrows DEF LifeInv
<1> QED
  BY <1>1, <1>2, <1>3, <1>4, <1>5

(* approval.evaluate, messageJournal, the resume and ReconcileChatState    *)
(* together: through interrupts, resumes, cancels, errors and restarts     *)
(* every tool call lives the life of CallLife. It runs at most once and as *)
(* the user said, and its one result is final and true: "ran" ran,         *)
(* "denied" was refused and never runs.                                    *)
THEOREM CallsLiveOnce == ASSUME Serial PROVE Spec => CallLifeSpec
<1>1. LifeInv /\ [Next]_vars => [Life!Next]_(Life!vars)
  BY LifeStep
<1> QED
  BY <1>1, LifeInit, LifeInvStep, PTL DEF Spec, CallLifeSpec, Life!Spec
=============================================================================
