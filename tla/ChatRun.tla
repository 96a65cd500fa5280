------------------------------- MODULE ChatRun -------------------------------
(***************************************************************************)
(* One conversation of the chat service: the rows of its message table,    *)
(* the interrupts that wait for the user, the goroutines that drive the    *)
(* agent runner, the HTTP handlers that start, answer and cancel them,     *)
(* and the repair the server does after a restart.                         *)
(*                                                                         *)
(* A "run" is one goroutine of ChatService together with the handler that  *)
(* launched it (Start or startResume), so its program counter begins in    *)
(* the handler.  Every step is one database statement, one section under   *)
(* a lock, or one event taken from the agent iterator.                     *)
(*                                                                         *)
(* The agent runner (eino's adk.Runner) is external: what it may do is     *)
(* the set of phases a tool call goes through, "called" (about to reach    *)
(* the approval middleware), "asked" (the middleware interrupted), "ran"   *)
(* and "denied" (a result waits to be delivered as an event).              *)
(***************************************************************************)
EXTENDS Integers, Sequences, FiniteSets

CONSTANTS
  Calls,       (* ids of the tool calls the language model may declare     *)
  Kind,        (* the interrupt each of them raises if it raises one       *)
  NRuns,       (* bound: goroutines (first runs and resumed runs)          *)
  MaxCrashes,  (* bound: process crashes                                   *)
  Allowed      (* what may happen besides one patient user; see Liberties  *)

Kinds == {"approval", "question", "plan"}

(* early_answer     an answer arrives before the interrupted run has closed *)
(*                  its stream                                             *)
(* answers_together an answer arrives while another one is being handled   *)
(* abandon          a new message is posted while interrupts are pending   *)
(* double_post      a message is posted while another request of the same  *)
(*                  conversation is still inside its handler               *)
(* run_error        the iterator fails                                     *)
(* resume_error     ResumeWithParams fails                                 *)
Liberties == {"early_answer", "answers_together", "abandon", "double_post",
              "run_error", "resume_error"}

ASSUME ChatAssumption ==
  /\ IsFiniteSet(Calls)
  /\ Kind \in [Calls -> Kinds]
  /\ NRuns \in Nat
  /\ MaxCrashes \in Nat
  /\ Allowed \subseteq Liberties

Runs == 1..NRuns

VARIABLES
  (* durable: SQLite *)
  rows,     (* messages: what was appended, in seq order                   *)
  status,   (* conversations.agent_status                                  *)
  ckpt,     (* checkpoints: phase of every call in the saved checkpoint    *)
  pendDB,   (* pending_approvals, in created_at order                      *)
  (* in memory *)
  up,       (* the process serves requests                                 *)
  pend,     (* PendingStore.items                                          *)
  cur,      (* Manager.buffers: the run whose buffer is registered, or 0   *)
  buf,      (* status of the buffer each run writes to                     *)
  pc,       (* where each run, or the handler launching it, stands         *)
  call,     (* phase of every call inside the runner of each run           *)
  targets,  (* the answers a resumed run carries                           *)
  emit,     (* interrupt contexts the run still has to record              *)
  now,      (* the one it is recording                                     *)
  todo,     (* rows to delete (handler), calls to close (run)              *)
  note,     (* a status that was computed and not written yet              *)
  plen,     (* how many rows the run's prompt was built from               *)
  cancelled,(* the run's context has been cancelled                        *)
  late,     (* status handed back by an answer that did not resume         *)
  (* history *)
  execs,    (* how often each tool really ran                              *)
  asked,    (* calls that were ever put to the user                        *)
  said,     (* every answer the user gave for a call                       *)
  crashes

durable == <<rows, status, ckpt, pendDB>>
handler == <<pc, emit, now, todo, note, plen, late>>
runner  == <<call, targets, cancelled>>
history == <<execs, asked, said>>
vars    == <<durable, up, pend, cur, buf, handler, runner, history, crashes>>

-----------------------------------------------------------------------------
(* Data *)

Phases   == {"-", "called", "asked", "ran", "denied"}
NoCalls  == [c \in Calls |-> "-"]
Answers  == {"yes", "no"}
NoAnswer == [c \in Calls |-> "none"]
Outcomes == {"none", "ran", "denied", "canceled"}
Row      == [role: {"user", "assistant", "tool"}, calls: SUBSET Calls, out: Outcomes]

UserRow         == [role |-> "user", calls |-> {}, out |-> "none"]
AssistantRow(S) == [role |-> "assistant", calls |-> S, out |-> "none"]
ToolRow(c, out) == [role |-> "tool", calls |-> {c}, out |-> out]

Declared(h) == UNION {h[i].calls : i \in {j \in DOMAIN h : h[j].role = "assistant"}}
Resulted(h) == UNION {h[i].calls : i \in {j \in DOMAIN h : h[j].role = "tool"}}

(* Mutant: one result settles every call of its assistant row.             *)
OpenToolCalls_AnyResult(h) ==
  UNION {h[i].calls : i \in {j \in DOMAIN h :
    h[j].role = "assistant" /\ h[j].calls \cap Resulted(h) = {}}}

(* OpenToolCalls: declared by an assistant row, answered by no tool row.   *)
OpenToolCalls(h) == Declared(h) \ Resulted(h)

(* Mutant: the insert does not mind the event key.                         *)
AppendToolResult_NoKey(h, c, out) == Append(h, ToolRow(c, out))

(* AppendToolResult: the event key "tool:<id>" makes a second row a no-op. *)
AppendToolResult(h, c, out) ==
  IF c \in Resulted(h) THEN h ELSE Append(h, ToolRow(c, out))

(* Mutant: the kind itself is written for a question or a plan.            *)
Waiting_Raw(kind) == IF kind = "approval" THEN "waiting_approval" ELSE kind

Waiting(kind) ==
  CASE kind = "question" -> "waiting_user"
    [] kind = "plan"     -> "waiting_plan"
    [] OTHER             -> "waiting_approval"

(* Mutant: a running conversation is not looked at after a restart.        *)
Stale_WaitingOnly == {"waiting_approval", "waiting_user", "waiting_plan"}

Stale    == {"running", "waiting_approval", "waiting_user", "waiting_plan"}
Statuses == Stale \cup {"idle"}

(* PendingStore.List skips the items that were answered, HasPending not.   *)
Item(c)     == [call |-> c, ans |-> "none"]
Unresolved  == {i \in DOMAIN pend : pend[i].ans = "none"}
Listed      == {pend[i].call : i \in Unresolved}
HasPending  == pend # <<>>

(* Mutant: no open call is spared.                                         *)
Guarded_None == {}

(* The waiting calls persistInterruptState knows by CallID: ask_user       *)
(* leaves that field of its interrupt empty.                               *)
Guarded == {c \in Listed : Kind[c] # "question"}

(* applyWaitingStatus: the kind of the first unanswered item decides.      *)
HeadStatus(whenEmpty) ==
  IF Unresolved = {} THEN whenEmpty
  ELSE LET first == CHOOSE i \in Unresolved : \A j \in Unresolved : i <= j
       IN  Waiting(Kind[pend[first].call])

(* Mutant: a run that ends with nothing pending stays "running".           *)
FinalStatus_Running == HeadStatus("running")

FinalStatus == HeadStatus("idle")

IsStreaming == cur # 0 /\ buf[cur] = "streaming"

AtRest == {"unused", "dead", "done"}
Labels == AtRest \cup
  {"posted", "listed", "stored", "created", "cleared", "starting", "loop", "emit",
   "insert", "mark", "tail", "partial", "check", "scan", "close", "finalize",
   "write", "finish", "resolved", "restatus", "install", "resuming", "load"}
Fresh(r) == pc[r] = "unused" /\ \A q \in Runs : q < r => pc[q] # "unused"
Quiet    == \A r \in Runs : pc[r] \in AtRest

Goto(r, label) == pc' = [pc EXCEPT ![r] = label]

-----------------------------------------------------------------------------
Init ==
  /\ rows = <<>> /\ status = "idle" /\ ckpt = NoCalls /\ pendDB = <<>>
  /\ up = TRUE /\ pend = <<>> /\ cur = 0
  /\ buf = [r \in Runs |-> "none"]
  /\ pc = [r \in Runs |-> "unused"]
  /\ call = [r \in Runs |-> NoCalls]
  /\ targets = [r \in Runs |-> NoAnswer]
  /\ emit = [r \in Runs |-> {}] /\ now = [r \in Runs |-> {}]
  /\ todo = [r \in Runs |-> {}]
  /\ note = [r \in Runs |-> "idle"]
  /\ plen = [r \in Runs |-> 0]
  /\ cancelled = [r \in Runs |-> FALSE]
  /\ late = [c \in Calls |-> "none"]
  /\ execs = [c \in Calls |-> 0] /\ asked = {} /\ said = [c \in Calls |-> {}]
  /\ crashes = 0

-----------------------------------------------------------------------------
(* POST /chat/:id.  The handler looks at IsStreaming, and only later does  *)
(* Start register the new buffer.                                          *)

Post(r) ==
  /\ up /\ Fresh(r) /\ ~IsStreaming
  /\ "double_post" \in Allowed \/ (Quiet /\ \A c \in Calls : late[c] = "none")
  /\ "abandon" \in Allowed \/ ~HasPending
  /\ Goto(r, "posted")
  /\ UNCHANGED <<durable, up, pend, cur, buf, emit, now, todo, note, plen, late,
                 runner, history, crashes>>

(* prior is read, then the user row appended, by one handler.              *)
ListPrior(r) ==
  /\ pc[r] = "posted"
  /\ plen' = [plen EXCEPT ![r] = Len(rows)]
  /\ Goto(r, "listed")
  /\ UNCHANGED <<durable, up, pend, cur, buf, emit, now, todo, note, late,
                 runner, history, crashes>>

StoreUser(r) ==
  /\ pc[r] = "listed"
  /\ rows' = Append(rows, UserRow)
  /\ Goto(r, "stored")
  /\ UNCHANGED <<status, ckpt, pendDB, up, pend, cur, buf, emit, now, todo, note,
                 plen, late, runner, history, crashes>>

(* CreateAt replaces whatever buffer the conversation had; the one that is *)
(* replaced is neither cancelled nor finished.                             *)
CreateBuffer(r, next) ==
  /\ cur' = r
  /\ buf' = [buf EXCEPT ![r] = "streaming"]
  /\ Goto(r, next)
  /\ UNCHANGED <<durable, up, pend, emit, now, todo, note, plen, late, runner,
                 history, crashes>>

StartCreate(r) == pc[r] = "stored" /\ CreateBuffer(r, "created")

(* Mutant: a new run leaves what an earlier one asked in memory.           *)
ClearPending_Keep(r) ==
  /\ pc[r] = "created"
  /\ Goto(r, "cleared")
  /\ UNCHANGED <<durable, up, pend, cur, buf, emit, now, todo, note, plen, late,
                 runner, history, crashes>>

(* PendingStore.Clear: the memory first, then the table, then "go func".   *)
ClearPending(r) ==
  /\ pc[r] = "created"
  /\ pend' = <<>>
  /\ Goto(r, "cleared")
  /\ UNCHANGED <<durable, up, cur, buf, emit, now, todo, note, plen, late, runner,
                 history, crashes>>

ClearPendingRows(r) ==
  /\ pc[r] = "cleared"
  /\ pendDB' = <<>>
  /\ Goto(r, "starting")
  /\ UNCHANGED <<rows, status, ckpt, up, pend, cur, buf, emit, now, todo, note,
                 plen, late, runner, history, crashes>>

(* runAgent up to runner.Run.                                              *)
BeginRun(r) ==
  /\ pc[r] = "starting"
  /\ status' = "running"
  /\ Goto(r, "loop")
  /\ UNCHANGED <<rows, ckpt, pendDB, up, pend, cur, buf, emit, now, todo, note,
                 plen, late, runner, history, crashes>>

-----------------------------------------------------------------------------
(* The agent runner and ConsumeADKEvents                                   *)

(* An assistant message with tool calls closes: journal.AppendAssistant.   *)
DeclareCalls(r) ==
  \E S \in SUBSET (Calls \ Declared(rows)) :
    /\ S # {}
    /\ pc[r] = "loop" /\ call[r] = NoCalls
    /\ rows' = Append(rows, AssistantRow(S))
    /\ call' = [call EXCEPT ![r] = [c \in Calls |-> IF c \in S THEN "called" ELSE "-"]]
    /\ UNCHANGED <<status, ckpt, pendDB, up, pend, cur, buf, handler, targets,
                   cancelled, history, crashes>>

(* The final answer: an assistant message without calls ends the iterator. *)
Reply(r) ==
  /\ pc[r] = "loop" /\ call[r] = NoCalls
  /\ rows' = Append(rows, AssistantRow({}))
  /\ Goto(r, "tail")
  /\ UNCHANGED <<status, ckpt, pendDB, up, pend, cur, buf, emit, now, todo, note,
                 plen, late, runner, history, crashes>>

(* The approval middleware lets the call through (mode, remembered grant   *)
(* or an approving answer for this very call) and the tool runs.           *)
RunTool(r, c) ==
  /\ up /\ call[r][c] = "called"
  /\ call' = [call EXCEPT ![r][c] = "ran"]
  /\ execs' = [execs EXCEPT ![c] = @ + 1]
  /\ UNCHANGED <<durable, up, pend, cur, buf, handler, targets, cancelled, asked,
                 said, crashes>>

(* The middleware, ask_user or create_plan interrupts.  On a resumed run   *)
(* that happens too: the effect no longer is the one the user reviewed.    *)
AskUser(r, c) ==
  /\ pc[r] = "loop" /\ call[r][c] = "called"
  /\ call' = [call EXCEPT ![r][c] = "asked"]
  /\ asked' = asked \cup {c}
  /\ UNCHANGED <<durable, up, pend, cur, buf, handler, targets, cancelled, execs,
                 said, crashes>>

(* Mutant: a refusal is delivered like any other result.                   *)
DeliverResult_Plain(r, c) ==
  /\ pc[r] = "loop" /\ call[r][c] \in {"ran", "denied"}
  /\ rows' = AppendToolResult(rows, c, "ran")
  /\ call' = [call EXCEPT ![r][c] = "-"]
  /\ UNCHANGED <<status, ckpt, pendDB, up, pend, cur, buf, handler, targets,
                 cancelled, history, crashes>>

(* emitToolResult of a root call.                                          *)
DeliverResult(r, c) ==
  /\ pc[r] = "loop" /\ call[r][c] \in {"ran", "denied"}
  /\ rows' = AppendToolResult(rows, c, call[r][c])
  /\ call' = [call EXCEPT ![r][c] = "-"]
  /\ UNCHANGED <<status, ckpt, pendDB, up, pend, cur, buf, handler, targets,
                 cancelled, history, crashes>>

(* The tools node has waited for every sibling; the runner saves the       *)
(* checkpoint and only then sends the interrupt event.                     *)
Interrupt(r) ==
  /\ pc[r] = "loop"
  /\ \E c \in Calls : call[r][c] = "asked"
  /\ \A c \in Calls : call[r][c] # "called"
  /\ ckpt' = call[r]
  /\ emit' = [emit EXCEPT ![r] = {c \in Calls : call[r][c] = "asked"}]
  /\ call' = [call EXCEPT ![r] = NoCalls]
  /\ Goto(r, "emit")
  /\ UNCHANGED <<rows, status, pendDB, up, pend, cur, buf, now, todo, note, plen,
                 late, targets, cancelled, history, crashes>>

(* emitInterrupt takes the contexts one at a time: PendingStore.Record     *)
(* under its lock, the table afterwards, the waiting status last.          *)
Record(r, c) ==
  /\ pc[r] = "emit" /\ c \in emit[r]
  /\ now' = [now EXCEPT ![r] = {c}]
  /\ LET duplicate == \E i \in DOMAIN pend : pend[i].call = c
     IN  /\ pend' = IF duplicate THEN pend ELSE Append(pend, Item(c))
         /\ Goto(r, IF duplicate THEN "mark" ELSE "insert")
  /\ UNCHANGED <<durable, up, cur, buf, emit, todo, note, plen, late, runner,
                 history, crashes>>

InsertPendingRow(r) ==
  /\ pc[r] = "insert"
  /\ \E c \in now[r] :
       pendDB' = IF \E i \in DOMAIN pendDB : pendDB[i] = c THEN pendDB
                 ELSE Append(pendDB, c)
  /\ Goto(r, "mark")
  /\ UNCHANGED <<rows, status, ckpt, up, pend, cur, buf, emit, now, todo, note,
                 plen, late, runner, history, crashes>>

MarkWaiting(r) ==
  /\ pc[r] = "mark"
  /\ \E c \in now[r] : status' = Waiting(Kind[c])
  /\ emit' = [emit EXCEPT ![r] = @ \ now[r]]
  /\ now' = [now EXCEPT ![r] = {}]
  /\ Goto(r, IF emit[r] \ now[r] = {} THEN "tail" ELSE "emit")
  /\ UNCHANGED <<rows, ckpt, pendDB, up, pend, cur, buf, todo, note, plen, late,
                 runner, history, crashes>>

(* The iterator is exhausted: ConsumeADKEvents returns nil.                *)
Exhaust(r) ==
  /\ pc[r] = "tail"
  /\ Goto(r, "check")
  /\ UNCHANGED <<durable, up, pend, cur, buf, emit, now, todo, note, plen, late,
                 runner, history, crashes>>

(* Mutant: persistInterruptState is skipped when the run ends in an error. *)
AfterError_Skip(r) == "finalize"

(* ConsumeADKEvents returns an error.  Text can only be half way while the *)
(* model, and no tool, is at work.                                         *)
AfterError(r) == IF pc[r] = "loop" /\ call[r] = NoCalls THEN "partial" ELSE "scan"

(* The iterator failed.                                                    *)
Fail(r) ==
  /\ pc[r] = "loop" /\ "run_error" \in Allowed
  /\ Goto(r, AfterError(r))
  /\ call' = [call EXCEPT ![r] = NoCalls]
  /\ UNCHANGED <<durable, up, pend, cur, buf, emit, now, todo, note, plen, late,
                 targets, cancelled, history, crashes>>

(* The context is cancelled: the loop returns at its next iteration, while *)
(* a tool the runner has started may still go on (RunTool); nobody reads   *)
(* its result.                                                             *)
Abandon(r) ==
  /\ pc[r] \in {"loop", "tail"} /\ cancelled[r]
  /\ Goto(r, AfterError(r))
  /\ call' = [call EXCEPT ![r] =
       [c \in Calls |-> IF call[r][c] = "called" THEN "called" ELSE "-"]]
  /\ UNCHANGED <<durable, up, pend, cur, buf, emit, now, todo, note, plen, late,
                 targets, cancelled, history, crashes>>

-----------------------------------------------------------------------------
(* consumeAndPersist after the loop                                        *)

(* Mutant: an interrupted run returns without settling its stream.         *)
AfterLoop_Return == IF HasPending THEN "done" ELSE "scan"

AfterLoop == IF HasPending THEN "finalize" ELSE "scan"

CheckPending(r) ==
  /\ pc[r] = "check"
  /\ Goto(r, AfterLoop)
  /\ UNCHANGED <<durable, up, pend, cur, buf, emit, now, todo, note, plen, late,
                 runner, history, crashes>>

(* AppendPartialAssistant, which writes nothing when there is no text.     *)
KeepPartial(r) ==
  /\ pc[r] = "partial"
  /\ rows' \in {rows, Append(rows, AssistantRow({}))}
  /\ Goto(r, "scan")
  /\ UNCHANGED <<status, ckpt, pendDB, up, pend, cur, buf, emit, now, todo, note,
                 plen, late, runner, history, crashes>>

(* persistInterruptState: the open calls it does not know to be waiting ... *)
ScanOpen(r) ==
  /\ pc[r] = "scan"
  /\ todo' = [todo EXCEPT ![r] = OpenToolCalls(rows) \ Guarded]
  /\ Goto(r, "close")
  /\ UNCHANGED <<durable, up, pend, cur, buf, emit, now, note, plen, late, runner,
                 history, crashes>>

(* ... get a "[canceled]" result each.                                     *)
CloseOpen(r) ==
  /\ pc[r] = "close" /\ todo[r] # {}
  /\ \E c \in todo[r] :
       /\ rows' = AppendToolResult(rows, c, "canceled")
       /\ todo' = [todo EXCEPT ![r] = @ \ {c}]
  /\ UNCHANGED <<status, ckpt, pendDB, up, pend, cur, buf, pc, emit, now, note,
                 plen, late, runner, history, crashes>>

(* finalizeStatus: read the list, then write the row.                      *)
ReadHead(r) ==
  /\ pc[r] = "finalize" \/ (pc[r] = "close" /\ todo[r] = {})
  /\ note' = [note EXCEPT ![r] = FinalStatus]
  /\ Goto(r, "write")
  /\ UNCHANGED <<durable, up, pend, cur, buf, emit, now, todo, plen, late, runner,
                 history, crashes>>

WriteStatus(r) ==
  /\ pc[r] = "write"
  /\ status' = note[r]
  /\ Goto(r, "finish")
  /\ UNCHANGED <<rows, ckpt, pendDB, up, pend, cur, buf, emit, now, todo, note,
                 plen, late, runner, history, crashes>>

(* FinalizeOK and FinalizeErr: the buffer completes.                       *)
Finish(r) ==
  /\ pc[r] = "finish"
  /\ buf' = [buf EXCEPT ![r] = "complete"]
  /\ Goto(r, "done")
  /\ UNCHANGED <<durable, up, pend, cur, emit, now, todo, note, plen, late, runner,
                 history, crashes>>

-----------------------------------------------------------------------------
(* POST .../approvals/:interrupt_id, .../questions/:interrupt_id and the   *)
(* plan endpoints: Resume, ResumeQuestion, ResumePlan.                     *)

MayAnswer(c) ==
  /\ up /\ c \in Listed
  /\ "early_answer" \in Allowed \/ Quiet
  /\ "answers_together" \in Allowed \/ \A d \in Calls : late[d] = "none"

(* What Resolve leaves in the list once c is answered with a.              *)
Resolved(c, a) ==
  [i \in DOMAIN pend |-> IF pend[i].call = c THEN [pend[i] EXCEPT !.ans = a]
                         ELSE pend[i]]

(* A sibling of the same checkpoint is still unanswered.                   *)
AnswerOne(c, a) ==
  /\ MayAnswer(c) /\ Listed # {c}
  /\ pend' = Resolved(c, a)
  /\ said' = [said EXCEPT ![c] = @ \cup {a}]
  /\ late' = [late EXCEPT ![c] = "read"]
  /\ UNCHANGED <<durable, up, cur, buf, pc, emit, now, todo, note, plen, runner,
                 execs, asked, crashes>>

LateRead(c) ==
  /\ up /\ late[c] = "read"
  /\ late' = [late EXCEPT ![c] = HeadStatus("running")]
  /\ UNCHANGED <<durable, up, pend, cur, buf, pc, emit, now, todo, note, plen,
                 runner, history, crashes>>

LateWrite(c) ==
  /\ up /\ late[c] \notin {"none", "read"}
  /\ status' = late[c]
  /\ late' = [late EXCEPT ![c] = "none"]
  /\ UNCHANGED <<rows, ckpt, pendDB, up, pend, cur, buf, pc, emit, now, todo, note,
                 plen, runner, history, crashes>>

(* The last answer takes the whole batch out of the list.                  *)
AnswerLast(c, a, r) ==
  /\ MayAnswer(c) /\ Listed = {c} /\ Fresh(r)
  /\ said' = [said EXCEPT ![c] = @ \cup {a}]
  /\ targets' = [targets EXCEPT ![r] =
       [d \in Calls |-> IF d = c THEN a
                        ELSE IF \E i \in DOMAIN pend : pend[i].call = d
                             THEN pend[CHOOSE i \in DOMAIN pend : pend[i].call = d].ans
                             ELSE "none"]]
  /\ todo' = [todo EXCEPT ![r] = {pend[i].call : i \in DOMAIN pend}]
  /\ pend' = <<>>
  /\ Goto(r, "resolved")
  /\ UNCHANGED <<durable, up, cur, buf, emit, now, note, plen, late, call,
                 cancelled, execs, asked, crashes>>

Without(ids, c) ==
  LET at == {i \in DOMAIN ids : ids[i] = c}
      k  == CHOOSE i \in at : TRUE
  IN  IF at = {} THEN ids ELSE SubSeq(ids, 1, k - 1) \o SubSeq(ids, k + 1, Len(ids))

(* DeleteByInterruptID, one statement per answered interrupt.              *)
DropPendingRow(r) ==
  /\ pc[r] = "resolved" /\ todo[r] # {}
  /\ \E c \in todo[r] :
       /\ pendDB' = Without(pendDB, c)
       /\ todo' = [todo EXCEPT ![r] = @ \ {c}]
  /\ UNCHANGED <<rows, status, ckpt, up, pend, cur, buf, pc, emit, now, note, plen,
                 late, runner, history, crashes>>

(* startResume: status, MaxSeq, buffer, goroutine.                         *)
ResumeRead(r) ==
  /\ pc[r] = "resolved" /\ todo[r] = {}
  /\ note' = [note EXCEPT ![r] = HeadStatus("running")]
  /\ Goto(r, "restatus")
  /\ UNCHANGED <<durable, up, pend, cur, buf, emit, now, todo, plen, late, runner,
                 history, crashes>>

ResumeWrite(r) ==
  /\ pc[r] = "restatus"
  /\ status' = note[r]
  /\ Goto(r, "install")
  /\ UNCHANGED <<rows, ckpt, pendDB, up, pend, cur, buf, emit, now, todo, note,
                 plen, late, runner, history, crashes>>

ResumeCreate(r) == pc[r] = "install" /\ CreateBuffer(r, "resuming")

BeginResume(r) ==
  /\ pc[r] = "resuming"
  /\ status' = "running"
  /\ Goto(r, "load")
  /\ UNCHANGED <<rows, ckpt, pendDB, up, pend, cur, buf, emit, now, todo, note,
                 plen, late, runner, history, crashes>>

(* Mutant: being resumed is taken for being approved.                      *)
Reenter_Implicit(phase, answer) == IF phase = "asked" THEN "called" ELSE phase

(* ResumeWithParams re-enters the tools node of the checkpoint.  A call    *)
(* that was asked about meets the middleware with its answer: approved it  *)
(* goes on, refused it is denied, and without one it interrupts again.     *)
Reenter(phase, answer) ==
  CASE phase = "asked" /\ answer = "yes" -> "called"
    [] phase = "asked" /\ answer = "no"  -> "denied"
    [] OTHER                             -> phase

LoadCheckpoint(r) ==
  /\ pc[r] = "load" /\ ckpt # NoCalls
  /\ call' = [call EXCEPT ![r] = [c \in Calls |-> Reenter(ckpt[c], targets[r][c])]]
  /\ Goto(r, "loop")
  /\ UNCHANGED <<durable, up, pend, cur, buf, emit, now, todo, note, plen, late,
                 targets, cancelled, history, crashes>>

(* resumeAgent's error return: status and buffer only.                     *)
LoadFails(r) ==
  /\ pc[r] = "load"
  /\ ckpt = NoCalls \/ "resume_error" \in Allowed
  /\ status' = "idle"
  /\ Goto(r, "finish")
  /\ UNCHANGED <<rows, ckpt, pendDB, up, pend, cur, buf, emit, now, todo, note,
                 plen, late, runner, history, crashes>>

-----------------------------------------------------------------------------
(* POST /chat/:id/cancel                                                   *)
Cancel ==
  /\ up /\ cur # 0 /\ ~cancelled[cur]
  /\ cancelled' = [cancelled EXCEPT ![cur] = TRUE]
  /\ UNCHANGED <<durable, up, pend, cur, buf, handler, call, targets, history,
                 crashes>>

-----------------------------------------------------------------------------
(* The process dies, and ReconcileChatState repairs what it left behind    *)
(* before the server listens again.                                        *)

Crash ==
  /\ up /\ crashes < MaxCrashes
  /\ crashes' = crashes + 1
  /\ up' = FALSE /\ pend' = <<>> /\ cur' = 0
  /\ buf' = [r \in Runs |-> "none"]
  /\ pc' = [r \in Runs |-> IF pc[r] = "unused" THEN "unused" ELSE "dead"]
  /\ call' = [r \in Runs |-> NoCalls]
  /\ targets' = [r \in Runs |-> NoAnswer]
  /\ emit' = [r \in Runs |-> {}] /\ now' = [r \in Runs |-> {}]
  /\ todo' = [r \in Runs |-> {}]
  /\ note' = [r \in Runs |-> "idle"]
  /\ plen' = [r \in Runs |-> 0]
  /\ cancelled' = [r \in Runs |-> FALSE]
  /\ late' = [c \in Calls |-> "none"]
  /\ UNCHANGED <<durable, history>>

Orders(S) ==
  {s \in [1..Cardinality(S) -> S] : \A i, j \in DOMAIN s : i # j => s[i] # s[j]}

(* A pending row without a checkpoint is dropped; with a valid one left    *)
(* every open call is kept for the resume, otherwise all are closed.       *)
Reconcile ==
  /\ ~up
  /\ up' = TRUE
  /\ pendDB' = IF ckpt = NoCalls THEN <<>> ELSE pendDB
  /\ pend' = [i \in DOMAIN pendDB' |-> Item(pendDB'[i])]
  /\ IF pendDB' # <<>>
     THEN status' = Waiting(Kind[pendDB'[1]]) /\ UNCHANGED rows
     ELSE IF status \in Stale
     THEN /\ status' = "idle"
          /\ \E s \in Orders(OpenToolCalls(rows)) :
               rows' = rows \o [i \in DOMAIN s |-> ToolRow(s[i], "canceled")]
     ELSE UNCHANGED <<status, rows>>
  /\ UNCHANGED <<ckpt, cur, buf, handler, runner, history, crashes>>

-----------------------------------------------------------------------------
(* Everything run r does on its own once a request launched it.            *)
Handling(r) ==
  \/ ListPrior(r) \/ StoreUser(r) \/ StartCreate(r) \/ ClearPending(r)
  \/ ClearPendingRows(r) \/ DropPendingRow(r) \/ ResumeRead(r) \/ ResumeWrite(r)
  \/ ResumeCreate(r)

Driving(r) ==
  \/ BeginRun(r) \/ BeginResume(r) \/ LoadCheckpoint(r) \/ LoadFails(r)
  \/ DeclareCalls(r) \/ Reply(r) \/ Interrupt(r)
  \/ \E c \in Calls : RunTool(r, c) \/ AskUser(r, c) \/ DeliverResult(r, c)
  \/ \E c \in Calls : Record(r, c)
  \/ InsertPendingRow(r) \/ MarkWaiting(r) \/ Exhaust(r) \/ Fail(r) \/ Abandon(r)

Settling(r) ==
  \/ CheckPending(r) \/ KeepPartial(r) \/ ScanOpen(r) \/ CloseOpen(r)
  \/ ReadHead(r) \/ WriteStatus(r) \/ Finish(r)

RunStep(r) == Handling(r) \/ Driving(r) \/ Settling(r)
LateStep   == \E c \in Calls : LateRead(c) \/ LateWrite(c)

UserStep ==
  \/ \E r \in Runs : Post(r)
  \/ \E c \in Calls, a \in Answers : AnswerOne(c, a)
  \/ \E c \in Calls, a \in Answers, r \in Runs : AnswerLast(c, a, r)
  \/ Cancel

Next ==
  \/ UserStep
  \/ \E r \in Runs : RunStep(r)
  \/ LateStep
  \/ Crash
  \/ Reconcile

Spec == Init /\ [][Next]_vars

(* The goroutines and handlers of a living process are scheduled, a server *)
(* that died is started again; the user owes nothing.                      *)
Fairness ==
  /\ \A r \in Runs : WF_vars(RunStep(r))
  /\ WF_vars(LateStep)
  /\ WF_vars(Reconcile)

FairSpec == Spec /\ Fairness
-----------------------------------------------------------------------------
(* Properties *)

(* Types of every variable; the fields a crash loses are back at their      *)
(* initial values while the process is down.                               *)
TypeOK ==
  /\ rows \in Seq(Row) /\ status \in Statuses
  /\ ckpt \in [Calls -> Phases] /\ pendDB \in Seq(Calls)
  /\ up \in BOOLEAN
  /\ pend \in Seq([call: Calls, ans: Answers \cup {"none"}])
  /\ cur \in Runs \cup {0}
  /\ buf \in [Runs -> {"none", "streaming", "complete"}]
  /\ pc \in [Runs -> Labels]
  /\ call \in [Runs -> [Calls -> Phases]]
  /\ targets \in [Runs -> [Calls -> Answers \cup {"none"}]]
  /\ emit \in [Runs -> SUBSET Calls] /\ now \in [Runs -> SUBSET Calls]
  /\ todo \in [Runs -> SUBSET Calls]
  /\ note \in [Runs -> Statuses]
  /\ plen \in [Runs -> Nat]
  /\ cancelled \in [Runs -> BOOLEAN]
  /\ late \in [Calls -> Statuses \cup {"none", "read"}]
  /\ execs \in [Calls -> Nat] /\ asked \in SUBSET Calls
  /\ said \in [Calls -> SUBSET Answers]
  /\ crashes \in Nat

(* Whatever runs, handlers, cancels and restarts do to one conversation,   *)
(* the transcript never holds two results for one tool call (the event key *)
(* of messageJournal.AppendToolResult).                                    *)
OneResultPerCall ==
  \A i, j \in DOMAIN rows :
    /\ rows[i].role = "tool" /\ rows[j].role = "tool"
    /\ rows[i].calls = rows[j].calls
    => i = j

(* A tool that was put to the user runs only after the user approved it,   *)
(* also when answers, resumes and restarts race (approval.evaluate: a      *)
(* missing payload fails closed).                                          *)
RunsOnlyOnYes == \A c \in asked : execs[c] > 0 => "yes" \in said[c]

(* Why RunsOnlyOnYes holds, as an inductive invariant: what was asked or    *)
(* executed has been declared, a call is re-entered as "called" only by a   *)
(* "yes" that came from the user, and a call that reached the middleware    *)
(* without having been put to the user is in the hands of one run only.     *)
AskedIsDeclared ==
  /\ asked \subseteq Declared(rows)
  /\ \A c \in Calls : execs[c] > 0 => c \in Declared(rows)
  /\ \A r \in Runs, c \in Calls : call[r][c] # "-" => c \in Declared(rows)

CheckpointAsked ==
  /\ \A r \in Runs, c \in Calls : call[r][c] = "asked" => c \in asked
  /\ \A c \in Calls : /\ ckpt[c] = "asked" => c \in asked
                      /\ ckpt[c] # "-" => c \in Declared(rows)
                      /\ ckpt[c] # "called"

YesWasSaid ==
  /\ \A r \in Runs, c \in Calls : targets[r][c] = "yes" => "yes" \in said[c]
  /\ \A i \in DOMAIN pend : pend[i].ans = "yes" => "yes" \in said[pend[i].call]

CalledIsSanctioned ==
  \A r \in Runs, c \in Calls : call[r][c] = "called" =>
    IF c \in asked THEN "yes" \in said[c]
    ELSE execs[c] = 0 /\ \A q \in Runs \ {r} : call[q][c] # "called"

ConsentInv ==
  AskedIsDeclared /\ CheckpointAsked /\ YesWasSaid /\ CalledIsSanctioned /\ RunsOnlyOnYes

(* No tool is executed a second time: not by a resume, not by the repair   *)
(* after a restart (ReconcileChatState: "It never re-executes a tool").    *)
NeverReexecuted == \A c \in Calls : execs[c] <= 1

(* The prompt toSchemaMessages builds from the rows a new turn has read    *)
(* pairs every assistant message that keeps its tool calls with the tool   *)
(* messages right behind it, and leaves no tool message without one.       *)
Kept(h, i) == h[i].role = "assistant" /\ h[i].calls # {} /\ h[i].calls \subseteq Resulted(h)

Paired(h) == \A i \in DOMAIN h :
  /\ Kept(h, i) => \A k \in 1..Cardinality(h[i].calls) :
       /\ i + k \in DOMAIN h
       /\ h[i + k].role = "tool" /\ h[i + k].calls \subseteq h[i].calls
  /\ h[i].role = "tool" => \E j \in 1..(i - 1) :
       Kept(h, j) /\ h[i].calls \subseteq h[j].calls

PromptIsPaired ==
  \A r \in Runs : pc[r] = "listed" => Paired(SubSeq(rows, 1, plen[r]))

(* ReconcileChatState repairs only conversations whose status says that    *)
(* something was going on: at every instant the process may die, an open   *)
(* tool call is behind such a status.                                      *)
OpenCallsRepairable == OpenToolCalls(rows) # {} => status \in Stale

(* Once everything has settled the sidebar tells the truth: idle, or       *)
(* waiting for the first unanswered interrupt.                             *)
RestStatusIsTrue ==
  up /\ Quiet /\ (\A c \in Calls : late[c] = "none") => status = HeadStatus("idle")

(* Whoever is listed as waiting can be resumed: the saved checkpoint is    *)
(* the one that asked (PendingStore.Clear on a new run).                   *)
WaitingIsResumable == up /\ Quiet => \A c \in Listed : ckpt[c] = "asked"

(* A tool call that still waits for the user's decision has no result yet:  *)
(* no cancel, error or restart closed it behind the card (persistInterrupt- *)
(* State, ReconcileChatState; Guarded says why questions are left out).     *)
WaitingIsOpen ==
  up /\ Quiet => \A c \in Listed : Kind[c] # "question" => c \notin Resulted(rows)

(* Resolve holds the answers back until one resume carries an answer for    *)
(* every interrupt of the checkpoint it loads.                             *)
BatchIsComplete ==
  \A r \in Runs : pc[r] = "load" =>
    \A c \in Calls : ckpt[c] = "asked" => targets[r][c] # "none"

(* "[canceled]" opens the result of a call that never ran.                 *)
CanceledNeverRan ==
  \A i \in DOMAIN rows :
    rows[i].role = "tool" /\ rows[i].out = "canceled" => \A c \in rows[i].calls : execs[c] = 0

(* What the transcript says of a call: the outcome in its one result row.  *)
ResultOf(h, c) ==
  IF c \notin Resulted(h) THEN "none"
  ELSE h[CHOOSE i \in DOMAIN h : h[i].role = "tool" /\ h[i].calls = {c}].out

Life == INSTANCE CallLife WITH
  known <- Declared(rows), result <- [c \in Calls |-> ResultOf(rows, c)]

(* Through all runs, resumes, cancels and restarts every tool call has the  *)
(* life CallLife describes (approval.evaluate, messageJournal, resume and  *)
(* ReconcileChatState together): it runs once, as the user said, and its   *)
(* one result is true and final.                                           *)
CallLifeSpec == Life!Spec

(* Every stream a request opened completes, unless the process dies.       *)
StreamCompletes ==
  \A r \in Runs : pc[r] # "unused" ~> (pc[r] = "dead" \/ buf[r] = "complete")

(* A call whose answer reached a resume ends up with a result in the       *)
(* transcript, unless the same batch puts something to the user again.     *)
AnsweredCallSettles ==
  \A c \in Calls :
    (\E r \in Runs : targets[r][c] # "none")
      ~> (c \in Resulted(rows) \/ Listed # {})
=============================================================================
