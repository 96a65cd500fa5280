---------------------------- MODULE StreamCursor ----------------------------
(***************************************************************************)
(* How a browser tab joins a conversation whose answer is being written:   *)
(* it reads the message table, asks the stream buffer for everything after *)
(* the last row it has seen, and then appends what arrives.  The buffer    *)
(* keeps only what is not in the table yet (chunks) and the seq up to      *)
(* which it considers the table complete (durable).                        *)
(*                                                                         *)
(* One run writes at a time; ChatRun models runs that overlap.  A message  *)
(* text is abstracted to the numbers of its pieces: the agent says piece   *)
(* 1, 2, 3, ... and a row stores the number of the last piece it holds.    *)
(***************************************************************************)
EXTENDS Integers, Sequences, FiniteSets

CONSTANTS
  Clients,    (* browser tabs                                              *)
  Nobody,     (* a POST that none of the modelled tabs has sent            *)
  Calls,      (* ids of the tool calls of the root agent                   *)
  NRuns,      (* bound: runs of the conversation, each with its buffer     *)
  MaxText,    (* bound: pieces of text                                     *)
  MaxSub,     (* bound: sub-agent events                                   *)
  Cap,        (* capacity of a subscriber's channel (64 in the code)       *)
  Attempts    (* how often a tab asks again after a 409 (4 in the code)    *)

ASSUME StreamAssumption ==
  /\ Nobody \notin Clients
  /\ IsFiniteSet(Calls)
  /\ NRuns \in Nat /\ MaxText \in Nat /\ MaxSub \in Nat
  /\ Cap \in Nat \ {0} /\ Attempts \in Nat \ {0}

VARIABLES
  rows,     (* the message table                                           *)
  said,     (* text pieces the agent has produced                          *)
  subs,     (* sub-agent events it has produced                            *)
  (* StreamBuffer *)
  status,   (* of the registered buffer                                    *)
  durable,  (* durableSeq                                                  *)
  chunks,   (* what a reconnect replays                                    *)
  (* the run *)
  run,      (* how many runs there were                                    *)
  pc,
  pub,      (* frames it still has to publish                              *)
  waiting,  (* calls that wait for the user                                *)
  timeline, (* RunCollector.subEvents                                      *)
  dirty,    (* subEventsVersion differs from subEventsFlushed              *)
  lastRow,  (* messageJournal.lastAssistantID, as a row number             *)
  poster,   (* the tab whose POST started the run and awaits its stream    *)
  (* the tabs *)
  st,       (* where a tab stands                                          *)
  base,     (* last_seq of the history it shows                            *)
  tries,    (* attempts of the reconnect loop                              *)
  text,     (* the pieces it shows, in order                               *)
  known,    (* tool calls and results it shows                             *)
  via,      (* "get": joined by cursor, "post": by its own message         *)
  open,     (* subscribed to the registered, unfinished buffer             *)
  replay,   (* frames of the snapshot it has not received                  *)
  inbox,    (* frames in its channel                                       *)
  lag,      (* a frame did not fit into the channel                        *)
  told      (* history: the run after which it was told 204; 0 if another  *)
            (* run had begun by then                                       *)

buffer == <<status, durable, chunks>>
agent  == <<run, pc, pub, waiting, timeline, dirty, lastRow, poster>>
views  == <<base, tries, text, known, via, told>>
links  == <<open, replay, inbox, lag>>
vars   == <<rows, said, subs, buffer, agent, st, views, links>>

-----------------------------------------------------------------------------
(* Data *)

(* The text that the first n rows hold, that the whole table holds.        *)
UptoAt(h, n) == IF n = 0 THEN 0 ELSE h[n].upto
Upto(h)      == UptoAt(h, Len(h))

Pieces(n) == [i \in 1..n |-> i]

Declared(h) == UNION {h[i].calls : i \in {j \in DOMAIN h : h[j].role = "assistant"}}
Resulted(h) == UNION {h[i].calls : i \in {j \in DOMAIN h : h[j].role \in {"tool", "closed"}}}
Open(h)     == Declared(h) \ Resulted(h)

Row(role, upto, calls) == [role |-> role, upto |-> upto, calls |-> calls, subs |-> {}]

Frame(k, x) == [kind |-> k, n |-> x]
Calling(c)  == Frame("call", c)
Result(c)   == Frame("result", c)
IsText(f)   == f.kind = "text"

(* What a tab shows of the calls when it has read the table.               *)
Shown(h) == {Calling(c) : c \in Declared(h)} \cup {Result(c) : c \in Resulted(h)}

(* A set of frames in the order in which they are published; parallel      *)
(* calls are declared and answered in any order.                           *)
Orders(S) == {s \in [1..Cardinality(S) -> S] : \A i, j \in DOMAIN s : i # j => s[i] # s[j]}

LatestAssistant(h) ==
  LET A == {i \in DOMAIN h : h[i].role = "assistant"}
  IN  IF A = {} THEN 0 ELSE CHOOSE i \in A : \A j \in A : j <= i

Goto(label) == pc' = label

-----------------------------------------------------------------------------
Init ==
  /\ rows = <<>> /\ said = 0 /\ subs = 0
  /\ status = "none" /\ durable = 0 /\ chunks = <<>>
  /\ run = 0 /\ pc = "rest" /\ pub = <<>> /\ waiting = {}
  /\ timeline = {} /\ dirty = FALSE /\ lastRow = 0 /\ poster = Nobody
  /\ st = [c \in Clients |-> "off"] /\ base = [c \in Clients |-> 0]
  /\ tries = [c \in Clients |-> 0] /\ text = [c \in Clients |-> <<>>]
  /\ known = [c \in Clients |-> {}] /\ via = [c \in Clients |-> "get"]
  /\ open = [c \in Clients |-> FALSE] /\ replay = [c \in Clients |-> <<>>]
  /\ inbox = [c \in Clients |-> <<>>] /\ lag = [c \in Clients |-> FALSE]
  /\ told = [c \in Clients |-> 0]

-----------------------------------------------------------------------------
(* StreamBuffer *)

(* Mutant: the channel takes any number of frames.                         *)
Send_Always(f) ==
  /\ inbox' = [c \in Clients |-> IF open[c] THEN Append(inbox[c], f) ELSE inbox[c]]
  /\ UNCHANGED <<open, replay, lag>>

(* The loop over the subscribers, which drops what does not fit.           *)
Send(f) ==
  LET full(c) == Len(inbox[c]) >= Cap
  IN  /\ inbox' = [c \in Clients |-> IF open[c] /\ ~full(c) THEN Append(inbox[c], f)
                                     ELSE inbox[c]]
      /\ lag' = [c \in Clients |-> lag[c] \/ (open[c] /\ full(c))]
      /\ UNCHANGED <<open, replay>>

AppendFrame(f) ==
  /\ chunks' = Append(chunks, f)
  /\ Send(f)
  /\ UNCHANGED <<status, durable>>

PublishLive(f) == Send(f) /\ UNCHANGED buffer

(* Mutant: what is durable stays in the replay.                            *)
CommitBoundary_KeepReplay(seq) ==
  /\ durable' = IF seq > durable THEN seq ELSE durable
  /\ UNCHANGED <<status, chunks, links>>

(* What the table holds now is not replayed any more; the frontier never   *)
(* moves back.                                                             *)
CommitBoundary(seq) ==
  /\ durable' = IF seq > durable THEN seq ELSE durable
  /\ chunks' = <<>>
  /\ UNCHANGED <<status, links>>

(* Mutant: the subscribers' channels are not closed.                       *)
FinishBuffer_LeaveOpen ==
  /\ status' = "complete"
  /\ UNCHANGED <<durable, chunks, links>>

FinishBuffer ==
  /\ status' = "complete"
  /\ open' = [c \in Clients |-> FALSE]
  /\ UNCHANGED <<durable, chunks, replay, inbox, lag>>

CreateAt(seq) ==
  /\ status' = "streaming" /\ durable' = seq /\ chunks' = <<>>
  /\ UNCHANGED links

-----------------------------------------------------------------------------
(* The run *)

tabs == <<st, views>>

NewRun ==
  /\ run < NRuns
  /\ run' = run + 1
  /\ timeline' = {} /\ dirty' = FALSE /\ lastRow' = 0

(* Start: the user row first, the buffer later.                            *)
StartRun(p) ==
  /\ pc = "rest" /\ waiting = {} /\ poster = Nobody
  /\ p \in {Nobody} \cup {c \in Clients : st[c] \in {"idle", "ended"}}
  /\ NewRun
  /\ rows' = Append(rows, Row("user", said, {}))
  /\ poster' = p
  /\ st' = [c \in Clients |-> IF c = p THEN "posting" ELSE st[c]]
  /\ Goto("posted")
  /\ UNCHANGED <<said, subs, buffer, pub, waiting, views, links>>

StartCreate ==
  /\ pc = "posted"
  /\ CreateAt(Len(rows))
  /\ Goto("loop")
  /\ UNCHANGED <<rows, said, subs, run, pub, waiting, timeline, dirty, lastRow,
                 poster, tabs>>

(* startResume reads MAX(seq) and registers a buffer at it.                *)
ResumeRun ==
  /\ pc = "rest" /\ waiting # {} /\ poster = Nobody
  /\ NewRun
  /\ CreateAt(Len(rows))
  /\ waiting' = {}
  /\ Goto("loop")
  /\ UNCHANGED <<rows, said, subs, pub, poster, tabs>>

(* drainAssistantStream, per chunk of the root agent; no tool is at work.  *)
Say ==
  /\ pc = "loop" /\ Open(rows) = {} /\ said < MaxText
  /\ said' = said + 1
  /\ AppendFrame(Frame("text", said + 1))
  /\ UNCHANGED <<rows, subs, agent, tabs>>

(* A frame of a sub-agent that runs inside an open call.                   *)
SubAgentSays ==
  /\ pc = "loop" /\ Open(rows) # {} /\ subs < MaxSub
  /\ subs' = subs + 1
  /\ timeline' = timeline \cup {subs + 1} /\ dirty' = TRUE
  /\ AppendFrame(Frame("sub", subs + 1))
  /\ UNCHANGED <<rows, said, run, pc, pub, waiting, lastRow, poster, tabs>>

(* The streamed message of the root agent is complete: the row, then the   *)
(* boundary, then one tool_call frame per call.  Without calls the agent   *)
(* is done.                                                                *)
CloseMessage(S) ==
  /\ pc = "loop" /\ Open(rows) = {} /\ S \cap Declared(rows) = {}
  /\ S # {} \/ said > Upto(rows)
  /\ rows' = Append(rows, Row("assistant", said, S))
  /\ lastRow' = Len(rows) + 1
  /\ pub' \in Orders({Calling(c) : c \in S})
  /\ Goto("commit")
  /\ UNCHANGED <<said, subs, buffer, run, waiting, timeline, dirty, poster, tabs,
                 links>>

(* A message without text or calls ends the agent too; it stores nothing   *)
(* and commits seq 0.                                                      *)
EmptyMessage ==
  /\ pc = "loop" /\ Open(rows) = {} /\ said = Upto(rows)
  /\ CommitBoundary(0)
  /\ Goto("partial")
  /\ UNCHANGED <<rows, said, subs, run, pub, waiting, timeline, dirty, lastRow,
                 poster, tabs>>

(* emitToolResult: the row, the sub-agent events, the boundary, the frame. *)
ToolResult(c) ==
  /\ pc = "loop" /\ c \in Open(rows)
  /\ rows' = Append(rows, Row("tool", Upto(rows), {c}))
  /\ pub' = <<Result(c)>>
  /\ Goto("flush")
  /\ UNCHANGED <<said, subs, buffer, run, waiting, timeline, dirty, lastRow, poster,
                 tabs, links>>

(* UpdateLastAssistant overwrites the sub_events of the row it finds.      *)
SaveTimeline ==
  LET target == IF lastRow = 0 THEN LatestAssistant(rows) ELSE lastRow
  IN  /\ rows' = IF dirty /\ target # 0 THEN [rows EXCEPT ![target].subs = timeline]
                 ELSE rows
      /\ dirty' = FALSE

FlushSubEvents ==
  /\ pc = "flush"
  /\ SaveTimeline
  /\ Goto("commit")
  /\ UNCHANGED <<said, subs, buffer, run, pub, waiting, timeline, lastRow, poster,
                 tabs, links>>

Commit ==
  /\ pc = "commit"
  /\ CommitBoundary(Len(rows))
  /\ Goto("publish")
  /\ UNCHANGED <<rows, said, subs, run, pub, waiting, timeline, dirty, lastRow,
                 poster, tabs>>

Publish ==
  /\ pc = "publish" /\ pub # <<>>
  /\ PublishLive(Head(pub))
  /\ pub' = Tail(pub)
  /\ UNCHANGED <<rows, said, subs, run, pc, waiting, timeline, dirty, lastRow,
                 poster, tabs>>

Published ==
  /\ pc = "publish" /\ pub = <<>>
  /\ Goto(IF rows[Len(rows)].role = "assistant" /\ Open(rows) = {} THEN "partial" ELSE "loop")
  /\ UNCHANGED <<rows, said, subs, buffer, run, pub, waiting, timeline, dirty,
                 lastRow, poster, tabs, links>>

(* emitInterrupt: a card per call that waits; the run then ends normally.  *)
Interrupt ==
  /\ pc = "loop" /\ Open(rows) # {}
  /\ waiting' = Open(rows)
  /\ AppendFrame(Frame("card", 0))
  /\ Goto("metadata")
  /\ UNCHANGED <<rows, said, subs, run, pub, timeline, dirty, lastRow, poster, tabs>>

(* Cancelled, or the iterator fails.                                       *)
Stop ==
  /\ pc = "loop"
  /\ Goto("partial")
  /\ UNCHANGED <<rows, said, subs, buffer, run, pub, waiting, timeline, dirty,
                 lastRow, poster, tabs, links>>

(* persistInterruptState: rows that get neither a boundary nor a frame.    *)
KeepPartial ==
  /\ pc = "partial"
  /\ IF said > Upto(rows)
     THEN rows' = Append(rows, Row("assistant", said, {})) /\ lastRow' = Len(rows) + 1
     ELSE UNCHANGED <<rows, lastRow>>
  /\ Goto("close")
  /\ UNCHANGED <<said, subs, buffer, run, pub, waiting, timeline, dirty, poster, tabs,
                 links>>

CloseOpen(c) ==
  /\ pc = "close" /\ c \in Open(rows)
  /\ rows' = Append(rows, Row("closed", Upto(rows), {c}))
  /\ UNCHANGED <<said, subs, buffer, agent, tabs, links>>

Closed ==
  /\ pc = "close" /\ Open(rows) = {}
  /\ Goto("metadata")
  /\ UNCHANGED <<rows, said, subs, buffer, run, pub, waiting, timeline, dirty,
                 lastRow, poster, tabs, links>>

UpdateMetadata ==
  /\ pc = "metadata"
  /\ SaveTimeline
  /\ Goto("final")
  /\ UNCHANGED <<said, subs, buffer, run, pub, waiting, timeline, lastRow, poster,
                 tabs, links>>

(* FinalizeOK and FinalizeErr: the last frame, then the end of the buffer. *)
FinalFrame ==
  /\ pc = "final"
  /\ AppendFrame(Frame("done", 0))
  /\ Goto("finish")
  /\ UNCHANGED <<rows, said, subs, run, pub, waiting, timeline, dirty, lastRow,
                 poster, tabs>>

Finish ==
  /\ pc = "finish"
  /\ FinishBuffer
  /\ Goto("rest")
  /\ UNCHANGED <<rows, said, subs, run, pub, waiting, timeline, dirty, lastRow,
                 poster, tabs>>

-----------------------------------------------------------------------------
(* A tab *)

server == <<rows, said, subs, buffer, run, pc, pub, waiting, timeline, dirty, lastRow>>

Show(c, h) ==
  /\ base' = [base EXCEPT ![c] = Len(h)]
  /\ text' = [text EXCEPT ![c] = Pieces(Upto(h))]
  /\ known' = [known EXCEPT ![c] = Shown(h)]

(* The tab is opened, or looks again after an approval (resume).           *)
LoadHistory(c) ==
  /\ st[c] \in {"off", "idle", "ended", "gaveup"}
  /\ Show(c, rows)
  /\ tries' = [tries EXCEPT ![c] = 0]
  /\ via' = [via EXCEPT ![c] = "get"]
  /\ st' = [st EXCEPT ![c] = "loaded"]
  /\ lag' = [lag EXCEPT ![c] = FALSE]
  /\ UNCHANGED <<server, poster, told, open, replay, inbox>>

(* Mutant: a tab that knows less than the buffer assumes may join.         *)
Behind_Never(c) == FALSE

(* StreamFrom's comparison: the table has moved on since the tab read it,  *)
Behind(c) == base[c] < durable

(* Mutant: a tab that knows more than the buffer assumes may join.         *)
Ahead_Never(c) == FALSE

(* or the tab has read a row whose boundary is not committed yet.          *)
Ahead(c) == base[c] > durable

Retry(c) ==
  /\ tries' = [tries EXCEPT ![c] = @ + 1]
  /\ st' = [st EXCEPT ![c] = "retry"]
  /\ UNCHANGED told

Subscribe(c, how) ==
  /\ st' = [st EXCEPT ![c] = "live"]
  /\ via' = [via EXCEPT ![c] = how]
  /\ replay' = [replay EXCEPT ![c] = chunks]
  /\ inbox' = [inbox EXCEPT ![c] = <<>>]
  /\ open' = [open EXCEPT ![c] = status = "streaming"]
  /\ lag' = [lag EXCEPT ![c] = FALSE]

(* GET /chat/:id?after_seq: under the lock of the buffer ...               *)
JoinStream(c) ==
  /\ st[c] = "loaded" /\ status = "streaming"
  /\ ~Behind(c) /\ ~Ahead(c)
  /\ Subscribe(c, "get")
  /\ UNCHANGED <<server, poster, base, tries, text, known, told>>

Refused(c) ==
  /\ st[c] = "loaded" /\ status = "streaming"
  /\ Behind(c) \/ Ahead(c)
  /\ Retry(c)
  /\ UNCHANGED <<server, poster, base, text, known, via, links>>

NothingToJoin(c) ==
  /\ st[c] = "loaded" /\ status # "streaming"
  /\ st' = [st EXCEPT ![c] = "asking"]
  /\ UNCHANGED <<server, poster, views, links>>

CaughtUp(c) == base[c] = Len(rows)

(* ... and, with no live buffer, against MAX(seq) of the table.            *)
ToldIdle(c) ==
  /\ st[c] = "asking" /\ CaughtUp(c)
  /\ st' = [st EXCEPT ![c] = "idle"]
  /\ told' = [told EXCEPT ![c] = IF pc = "rest" THEN run ELSE 0]
  /\ UNCHANGED <<server, poster, base, tries, text, known, via, links>>

ToldToRetry(c) ==
  /\ st[c] = "asking" /\ ~CaughtUp(c)
  /\ Retry(c)
  /\ UNCHANGED <<server, poster, base, text, known, via, links>>

ReloadHistory(c) ==
  /\ st[c] = "retry"
  /\ Show(c, rows)
  /\ st' = [st EXCEPT ![c] = IF tries[c] < Attempts THEN "loaded" ELSE "gaveup"]
  /\ UNCHANGED <<server, poster, tries, via, told, links>>

(* The POST that started the run gets everything, without a cursor.        *)
StreamAll(c) ==
  /\ poster = c /\ pc # "posted"
  /\ Subscribe(c, "post")
  /\ poster' = Nobody
  /\ UNCHANGED <<server, base, tries, text, known, told>>

Queued(c) == replay[c] \o inbox[c]

Receive(c) ==
  /\ st[c] = "live" /\ Queued(c) # <<>>
  /\ IF replay[c] # <<>>
     THEN replay' = [replay EXCEPT ![c] = Tail(@)] /\ UNCHANGED inbox
     ELSE inbox' = [inbox EXCEPT ![c] = Tail(@)] /\ UNCHANGED replay
  /\ LET f == Head(Queued(c))
     IN  /\ text' = IF IsText(f) THEN [text EXCEPT ![c] = Append(@, f.n)] ELSE text
         /\ known' = IF f.kind \in {"call", "result"} THEN [known EXCEPT ![c] = @ \cup {f}]
                     ELSE known
         /\ st' = IF f.kind = "done" THEN [st EXCEPT ![c] = "ended"] ELSE st
         /\ open' = IF f.kind = "done" THEN [open EXCEPT ![c] = FALSE] ELSE open
  /\ UNCHANGED <<server, poster, base, tries, via, told, lag>>

(* The channel is closed and drained: end of the response.                 *)
EndOfStream(c) ==
  /\ st[c] = "live" /\ Queued(c) = <<>> /\ ~open[c]
  /\ st' = [st EXCEPT ![c] = "ended"]
  /\ UNCHANGED <<server, poster, views, links>>

(* The tab is closed, or shows another conversation.                       *)
Leave(c) ==
  /\ st[c] # "off"
  /\ st' = [st EXCEPT ![c] = "off"]
  /\ poster' = IF poster = c THEN Nobody ELSE poster
  /\ text' = [text EXCEPT ![c] = <<>>] /\ known' = [known EXCEPT ![c] = {}]
  /\ base' = [base EXCEPT ![c] = 0] /\ tries' = [tries EXCEPT ![c] = 0]
  /\ open' = [open EXCEPT ![c] = FALSE]
  /\ replay' = [replay EXCEPT ![c] = <<>>] /\ inbox' = [inbox EXCEPT ![c] = <<>>]
  /\ lag' = [lag EXCEPT ![c] = FALSE]
  /\ UNCHANGED <<server, via, told>>

-----------------------------------------------------------------------------
RunStep ==
  \/ StartCreate \/ Say \/ SubAgentSays \/ EmptyMessage
  \/ \E S \in SUBSET Calls : CloseMessage(S)
  \/ \E c \in Calls : ToolResult(c) \/ CloseOpen(c)
  \/ FlushSubEvents \/ Commit \/ Publish \/ Published \/ Interrupt \/ Stop
  \/ KeepPartial \/ Closed \/ UpdateMetadata \/ FinalFrame \/ Finish

Begin == ResumeRun \/ \E p \in Clients \cup {Nobody} : StartRun(p)

Asking(c)  == JoinStream(c) \/ Refused(c) \/ NothingToJoin(c) \/ ToldIdle(c)
              \/ ToldToRetry(c) \/ ReloadHistory(c) \/ StreamAll(c)
Reading(c) == Receive(c) \/ EndOfStream(c)

Next ==
  \/ Begin
  \/ RunStep
  \/ \E c \in Clients : LoadHistory(c) \/ Asking(c) \/ Reading(c) \/ Leave(c)

Spec == Init /\ [][Next]_vars

(* A run that exists goes on, a tab's requests are answered and it reads    *)
(* what it is sent.                                                        *)
Fairness ==
  /\ WF_vars(RunStep)
  /\ \A c \in Clients : WF_vars(Asking(c)) /\ WF_vars(Reading(c))

FairSpec == Spec /\ Fairness

-----------------------------------------------------------------------------
(* Properties *)

CallFrames == [kind: {"call", "result"}, n: Calls]
Frames     == [kind: {"text", "sub", "card", "done"}, n: 0..(MaxText + MaxSub)]
              \cup CallFrames

RowType(n, k) == [role: {"user", "assistant", "tool", "closed"}, upto: 0..n,
                  calls: SUBSET Calls, subs: SUBSET (1..k)]
Labels == {"rest", "posted", "loop", "flush", "commit", "publish", "partial", "close",
           "metadata", "final", "finish"}
Places == {"off", "loaded", "asking", "retry", "live", "idle", "gaveup", "ended", "posting"}

ServerType ==
  /\ rows \in Seq(RowType(said, subs))
  /\ said \in 0..MaxText /\ subs \in 0..MaxSub
  /\ status \in {"none", "streaming", "complete"}
  /\ durable \in 0..Len(rows) /\ chunks \in Seq(Frames)
  /\ run \in 0..NRuns /\ pc \in Labels
  /\ pub \in Seq(CallFrames) /\ waiting \in SUBSET Calls
  /\ timeline \in SUBSET (1..subs) /\ dirty \in BOOLEAN /\ lastRow \in 0..Len(rows)

TabType ==
  /\ poster \in Clients \cup {Nobody}
  /\ st \in [Clients -> Places]
  /\ base \in [Clients -> 0..Len(rows)] /\ tries \in [Clients -> Nat]
  /\ text \in [Clients -> Seq(1..said)] /\ known \in [Clients -> SUBSET Frames]
  /\ via \in [Clients -> {"get", "post"}] /\ told \in [Clients -> 0..NRuns]

LinkType ==
  /\ open \in [Clients -> BOOLEAN]
  /\ replay \in [Clients -> Seq(Frames)]
  /\ inbox \in [Clients -> {q \in Seq(Frames) : Len(q) <= Cap}]
  /\ lag \in [Clients -> BOOLEAN]

(* Types of every variable.                                                *)
TypeOK == ServerType /\ TabType /\ LinkType

(* The text pieces in a queue: whether one of them is n, and that they are *)
(* newer than `have` and in order.                                         *)
TextIn(q, n) == \E i \in DOMAIN q : IsText(q[i]) /\ q[i].n = n

InOrder(q, have) ==
  \A i \in DOMAIN q : IsText(q[i]) =>
    /\ have < q[i].n
    /\ \A j \in 1..(i - 1) : IsText(q[j]) => q[j].n < q[i].n

(* It joined by its cursor, its response goes on and no frame was dropped. *)
Following(c) == st[c] = "live" /\ via[c] = "get" /\ open[c] /\ ~lag[c]

(* What such a tab shows and what is on the way to it is what the agent    *)
(* has said, without a gap, a repetition or a swap (StreamFrom: only an    *)
(* exact cursor match may consume replay).                                 *)
LiveViewExact ==
  \A c \in Clients : Following(c) =>
    LET have == Len(text[c])
    IN  /\ text[c] = Pieces(have)
        /\ InOrder(Queued(c), have)
        /\ \A n \in 1..MaxText : TextIn(Queued(c), n) <=> n \in (have + 1)..said

(* The calls whose tools have reported; others are closed without a frame. *)
Answered(h) == UNION {h[i].calls : i \in {j \in DOMAIN h : h[j].role = "tool"}}

(* Such a tab also has, or is about to be sent, every call and result that  *)
(* the table holds, although a live frame is never replayed.               *)
CallsArrive ==
  \A c \in Clients : Following(c) =>
    LET arriving == {Queued(c)[i] : i \in DOMAIN Queued(c)} \cup {pub[i] : i \in DOMAIN pub}
        closed   == {Result(x) : x \in Declared(rows) \ Answered(rows)}
    IN  Shown(rows) \subseteq known[c] \cup arriving \cup closed

(* A tab that was told 204 shows the whole conversation until the next run  *)
(* begins: nothing is written to the table once the buffer is complete.    *)
IdleIsComplete ==
  \A c \in Clients : st[c] = "idle" /\ told[c] = run =>
    text[c] = Pieces(said) /\ known[c] = Shown(rows)

(* Both: no call, result or piece of text is missing from a tab that       *)
(* follows a run, nor from one that was told there is none.                *)
TabsAreComplete == CallsArrive /\ IdleIsComplete

(* After a reload the conversation still shows everything the sub-agents    *)
(* of its finished runs reported (SubAgentEvent: "so the frontend can      *)
(* replay the nested ... timeline after the conversation reloads").        *)
TimelineReplayable ==
  pc = "rest" => 1..subs \subseteq UNION {rows[i].subs : i \in DOMAIN rows}

(* Why LiveViewExact holds: the table is complete up to what is not in the  *)
(* replay, the replay is exact behind the durable frontier, and a tab that *)
(* may join shows what the frontier covers.                                *)
Newest(s) == IF s = <<>> THEN 0 ELSE s[Len(s)]
Whole(c)  == via[c] = "get" /\ ~lag[c]

InRange(q, n)        == \A i \in DOMAIN q : IsText(q[i]) => q[i].n <= n
Complete(q, have, n) == \A k \in (have + 1)..n : TextIn(q, k)

Gapless(q, have) ==
  \A i \in DOMAIN q : IsText(q[i]) =>
    \/ q[i].n = have + 1
    \/ \E j \in 1..(i - 1) : IsText(q[j]) /\ q[j].n = q[i].n - 1

TableComplete ==
  /\ pc \in {"loop", "publish"} => durable = Len(rows)
  /\ pc \notin {"loop", "partial"} => said = Upto(rows)
  /\ pc = "loop" /\ Open(rows) # {} => said = Upto(rows)
  /\ status = "streaming" <=> pc \notin {"rest", "posted"}

ReplayExact ==
  LET saved == UptoAt(rows, durable)
  IN  /\ InOrder(chunks, saved) /\ InRange(chunks, said)
      /\ status = "streaming" => Gapless(chunks, saved) /\ Complete(chunks, saved, said)

JoinerOf(c) ==
  /\ st[c] \in {"loaded", "asking"} => text[c] = Pieces(UptoAt(rows, base[c]))
  /\ st[c] \in {"loaded", "asking", "retry"} => Whole(c)
  /\ poster = c => st[c] = "posting" /\ (pc # "posted" => Newest(text[c]) <= UptoAt(rows, durable))

QueueOf(c) ==
  LET q == Queued(c) have == Newest(text[c])
  IN  /\ InOrder(q, have) /\ InRange(q, said)
      /\ Whole(c) => Gapless(q, have)
      /\ Following(c) => Complete(q, have, said)

ViewOf(c) ==
  /\ open[c] => st[c] = "live" /\ status = "streaming"
  /\ Whole(c) => text[c] = Pieces(Len(text[c]))
  /\ st[c] = "live" => QueueOf(c)

JoinerKnows == \A c \in Clients : JoinerOf(c)
ViewInOrder == \A c \in Clients : ViewOf(c)

CursorInv == TableComplete /\ ReplayExact /\ JoinerKnows /\ ViewInOrder

(* Every response a tab reads ends, also when the frame that says so was    *)
(* dropped.                                                                *)
LiveEnds == \A c \in Clients : st[c] = "live" ~> st[c] # "live"

Delivered == INSTANCE Delivery WITH
  shown <- text, whole <- [c \in Clients |-> via[c] = "get" /\ ~lag[c]]

(* Whatever a tab does, it never shows a piece twice or before an earlier  *)
(* one, and without a loss it shows a beginning of the text (Delivery).    *)
DeliverySpec == Delivered!Spec
=============================================================================
