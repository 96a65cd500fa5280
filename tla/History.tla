------------------------------ MODULE History ------------------------------
(***************************************************************************)
(* The history of one conversation and its three readers: the compactor,   *)
(* which folds old rows into a summary when a turn starts (internal/       *)
(* compaction, repository/compaction_repo.go), the prompt that replays the *)
(* rest to the model (toSchemaMessages of service/chat.go), and the page,  *)
(* which folds the rows into one entry per turn (foldMessages and          *)
(* insertCompactionMarker of handler/conversation.go).                     *)
(*                                                                         *)
(* Turns follow each other here, and a turn that ends leaves every call    *)
(* with a result; ChatRun has the runs that overlap and crash.  A row is   *)
(* its role, what its body holds, the calls it declares (ids), the call it *)
(* answers, and the usage it carries; its seq is its place.  A row costs   *)
(* one token and a summary another.                                        *)
(***************************************************************************)
EXTENDS Naturals, Sequences, FiniteSets, FiniteSetsExt, SequencesExt

CONSTANTS
    FirstRows,      \* the histories a conversation may come with, old formats included
    KeepChoices,    \* values of COMPACTION_KEEP_LAST_TURNS
    Threshold,      \* ThresholdTokens
    MaxRows,
    MaxCallsPerRow,
    MaxDeletes

ASSUME HistoryAssumption ==
    /\ Threshold \in Nat /\ MaxRows \in Nat /\ MaxCallsPerRow \in Nat /\ MaxDeletes \in Nat
    /\ KeepChoices \subseteq Nat

\* body: "text", "thought" (reasoning only) or "none"; legacy: tools kept in Extra by
\* an old version; cancelled: a result that says the call was not carried out.
Row(role, body) == [role |-> role, body |-> body, calls |-> <<>>, legacy |-> <<>>,
                    call |-> 0, cancelled |-> FALSE, usage |-> 0, folds |-> 0]

UserRow == Row("user", "text")
CallRow(body, calls) == [Row("assistant", body) EXCEPT !.calls = calls]
ResultRow(c, cancelled) == [Row("tool", "text") EXCEPT !.call = c, !.cancelled = cancelled]

VARIABLES
    rows,           \* the messages of the conversation in seq order
    compactions,    \* its compactions: [through, covers]
    keep,           \* KeepLastUserTurns
    phase,          \* "idle", "compacting", "running"
    prior,          \* rows loaded by Start before the user row
    replay,         \* the projected history of the turn
    nextCall,
    deletes

historyVars == <<rows, compactions, keep, phase, prior, replay, nextCall, deletes>>

-----------------------------------------------------------------------------
(***************************************************************************)
(* Compaction.  NoCompaction stands for nil: it folds nothing.             *)
(***************************************************************************)
NoCompaction == [through |-> 0, covers |-> {}]

Latest(cs) ==
    IF cs = {} THEN NoCompaction
    ELSE CHOOSE c \in cs : \A d \in cs : d.through <= c.through

ActiveRows(n, active) == {i \in 1..n : i > active.through}

\* The newest usage in scope plus the rows after it; without one, everything.
EstimateTokens(n, active) ==
    LET scope == ActiveRows(n, active)
        used == {i \in scope : rows[i].usage > 0}
    IN IF used # {}
       THEN rows[Max(used)].usage + Cardinality({i \in scope : i > Max(used)})
       ELSE Cardinality(scope) + (IF active = NoCompaction THEN 0 ELSE 1)

\* The rows to fold: all in scope, or those before the last turns to keep.
Split(n, active) ==
    LET scope == ActiveRows(n, active)
        users == {i \in scope : rows[i].role = "user"}
        kept == IF keep = 0 THEN n + 1
                ELSE CHOOSE i \in users : Cardinality({j \in users : j >= i}) = keep
    IN IF keep > 0 /\ Cardinality(users) <= keep THEN {} ELSE {i \in scope : i < kept}

HasAssistantContent(folded) == \E i \in folded : rows[i].role \in {"assistant", "tool"}

\* Mutant: the earlier summary is not given to the summarizer.
Folding_Fresh(n, active) ==
    LET folded == Split(n, active)
    IN [through |-> Max(folded), covers |-> folded]

\* The summarizer is given the rows and the earlier summary.
Folding(n, active) ==
    LET folded == Split(n, active)
    IN [through |-> Max(folded), covers |-> folded \cup active.covers]

MaybeCompact(n, ok) ==
    LET active == Latest(compactions)
        folded == Split(n, active)
    IN IF n > 0 /\ EstimateTokens(n, active) >= Threshold /\ HasAssistantContent(folded) /\ ok
       THEN compactions \cup {Folding(n, active)} ELSE compactions

-----------------------------------------------------------------------------
(***************************************************************************)
(* The prompt.                                                             *)
(***************************************************************************)
HaveResult(scope) == {rows[i].call : i \in {j \in scope : rows[j].role = "tool"}}

\* A row whose calls are not all answered in scope loses all of them.
CallsSent(i, scope) ==
    IF Range(rows[i].calls) \subseteq HaveResult(scope) THEN rows[i].calls ELSE <<>>

Sendable(i, scope) ==
    ~(rows[i].role = "assistant" /\ rows[i].body # "text" /\ CallsSent(i, scope) = <<>>)

ToSchemaMessages(n, active) ==
    LET scope == ActiveRows(n, active)
        picked == SelectSeq([i \in 1..n |-> i], LAMBDA i : i \in scope /\ Sendable(i, scope))
    IN [k \in DOMAIN picked |-> [seq |-> picked[k], calls |-> CallsSent(picked[k], scope)]]

-----------------------------------------------------------------------------
(***************************************************************************)
(* The page.                                                               *)
(***************************************************************************)
Card(c, status) == [id |-> c, status |-> status]
Cards(row) ==
    IF row.calls # <<>> THEN [k \in DOMAIN row.calls |-> Card(row.calls[k], "pending")]
    ELSE [k \in DOMAIN row.legacy |-> Card(row.legacy[k], "ok")]

Phantom(row) == row.body = "none" /\ Cards(row) = <<>>

OpenEntry(items) == items # <<>> /\ Last(items).role = "assistant"

OnLast(items, item) == Front(items) \o <<item>>

\* A result goes to the first card with its id in any segment of the entry, or
\* makes a card in the last segment.
FillCard(segments, c, status) ==
    LET at == {<<s, k>> \in (DOMAIN segments) \X (1..MaxRows) :
                k \in DOMAIN segments[s] /\ segments[s][k].id = c}
    IN IF at = {} THEN [segments EXCEPT ![Len(segments)] = Append(@, Card(c, status))]
       ELSE LET p == CHOOSE p \in at : \A q \in at :
                        p[1] < q[1] \/ (p[1] = q[1] /\ p[2] <= q[2])
            IN [segments EXCEPT ![p[1]][p[2]].status = status]

SegmentToolIDs(segments) == {card.id : card \in UNION {Range(segments[s]) : s \in DOMAIN segments}}

FoldTool(items, row) ==
    IF ~OpenEntry(items) THEN items
    ELSE OnLast(items, [Last(items) EXCEPT !.segments =
            FillCard(@, row.call, IF row.cancelled THEN "cancelled" ELSE "ok")])

FoldAssistant(items, row, seq) ==
    IF Phantom(row)
      THEN IF OpenEntry(items) THEN OnLast(items, [Last(items) EXCEPT !.seq = seq]) ELSE items
    ELSE IF OpenEntry(items)
      THEN LET prev == Last(items)
               fresh == SelectSeq(Cards(row), LAMBDA card : card.id \notin SegmentToolIDs(prev.segments))
           IN OnLast(items, [prev EXCEPT !.seq = seq, !.segments = Append(@, fresh)])
    ELSE Append(items, [role |-> "assistant", seq |-> seq, segments |-> <<Cards(row)>>])

FoldMessages(rs) ==
    FoldLeftDomain(
        LAMBDA items, i :
            CASE rs[i].role = "tool" -> FoldTool(items, rs[i])
              [] rs[i].role = "assistant" -> FoldAssistant(items, rs[i], i)
              [] OTHER -> Append(items, [role |-> rs[i].role, seq |-> i, segments |-> <<>>]),
        <<>>, rs)

\* How many entries stand before the divider.
MarkerAt(items, active) ==
    Cardinality({k \in DOMAIN items : \A j \in 1..k : items[j].seq <= active.through})

-----------------------------------------------------------------------------
(***************************************************************************)
(* Turns.                                                                  *)
(***************************************************************************)
HistoryTypeOK ==
    /\ Len(rows) <= MaxRows + 1 /\ phase \in {"idle", "compacting", "running"}
    /\ \A c \in compactions : c.covers \subseteq 1..c.through
    /\ keep \in KeepChoices /\ prior \in 0..(MaxRows + 1) /\ deletes \in 0..MaxDeletes

HistoryInit ==
    /\ rows \in FirstRows /\ keep \in KeepChoices
    /\ compactions = {} /\ phase = "idle" /\ prior = 0 /\ replay = <<>>
    /\ nextCall = 100 /\ deletes = 0

Open == UNION {Range(rows[i].calls) : i \in DOMAIN rows} \ HaveResult(DOMAIN rows)

StartTurn ==
    /\ phase = "idle" /\ Len(rows) < MaxRows
    /\ prior' = Len(rows)
    /\ rows' = Append(rows, UserRow)
    /\ phase' = "compacting"
    /\ UNCHANGED <<compactions, keep, replay, nextCall, deletes>>

\* The goroutine of Start: the summary may fail, be empty, or not be stored.
CompactAndSend(ok) ==
    /\ phase = "compacting"
    /\ compactions' = MaybeCompact(prior, ok)
    /\ replay' = ToSchemaMessages(prior, Latest(compactions'))
    /\ phase' = "running"
    /\ UNCHANGED <<rows, keep, prior, nextCall, deletes>>

AssistantCalls(n, body) ==
    /\ phase = "running" /\ Open = {} /\ Len(rows) + n < MaxRows
    /\ rows' = Append(rows, CallRow(body, [k \in 1..n |-> nextCall + k]))
    /\ nextCall' = nextCall + n
    /\ UNCHANGED <<compactions, keep, phase, prior, replay, deletes>>

ToolResult ==
    /\ phase = "running"
    /\ \E c \in Open : rows' = Append(rows, ResultRow(c, FALSE))
    /\ UNCHANGED <<compactions, keep, phase, prior, replay, nextCall, deletes>>

\* The last row of the turn carries the usage of the whole context.
FinishTurn ==
    /\ phase = "running" /\ Open = {}
    /\ rows' = Append(rows, [Row("assistant", "text") EXCEPT
                                !.usage = Len(replay) + Len(rows) - prior + 1,
                                !.folds = Cardinality(compactions)])
    /\ phase' = "idle"
    /\ UNCHANGED <<compactions, keep, prior, replay, nextCall, deletes>>

\* Cancelled while thinking: reasoning and nothing else is kept, and every open call
\* gets its placeholder.
CancelTurn ==
    /\ phase = "running"
    /\ \E order \in SetToSeqs(Open) :
        rows' = rows \o (IF Open = {} THEN <<Row("assistant", "thought")>> ELSE <<>>)
                     \o [k \in DOMAIN order |-> ResultRow(order[k], TRUE)]
    /\ phase' = "idle"
    /\ UNCHANGED <<compactions, keep, prior, replay, nextCall, deletes>>

\* ConversationRepo.Delete; the same id may be used again.
DeleteConversation ==
    /\ phase = "idle" /\ deletes < MaxDeletes
    /\ rows' = <<>> /\ compactions' = {}
    /\ deletes' = deletes + 1
    /\ UNCHANGED <<keep, phase, prior, replay, nextCall>>

HistoryNext ==
    \/ StartTurn \/ ToolResult \/ FinishTurn \/ CancelTurn \/ DeleteConversation
    \/ \E ok \in BOOLEAN : CompactAndSend(ok)
    \/ \E n \in 1..MaxCallsPerRow, body \in {"text", "none"} : AssistantCalls(n, body)

HistorySpec == HistoryInit /\ [][HistoryNext]_historyVars

-----------------------------------------------------------------------------
Answers(i, c) == rows[i].role = "tool" /\ rows[i].call = c

\* What the model gets is the whole history: each row of the earlier turns is either
\* covered by the summary in front, directly or through the summary before it, or
\* replayed, except assistant rows with nothing to say; and in the replayed part the
\* results follow right after their calls.
PromptIsWhole ==
    phase = "running" =>
        LET active == Latest(compactions)
            replayed == {replay[k].seq : k \in DOMAIN replay}
        IN /\ \A i \in 1..prior :
                \/ i \in active.covers /\ i \notin replayed
                \/ i \notin active.covers /\ i \in replayed
                \/ i \notin active.covers /\ ~Sendable(i, ActiveRows(prior, active))
           /\ \A k \in DOMAIN replay :
                /\ \A m \in 1..Len(replay[k].calls) :
                    /\ k + m \in DOMAIN replay
                    /\ \E c \in Range(replay[k].calls) : Answers(replay[k + m].seq, c)
                /\ rows[replay[k].seq].role = "tool" =>
                    \E j \in 1..(k - 1) : rows[replay[k].seq].call \in Range(replay[j].calls)

\* The usage an estimate starts from was measured after the last fold.  (When turns
\* are kept and the next one is cancelled, the usage of a kept turn is what is left.)
UsageIsOfThisContext ==
    phase = "compacting" /\ keep = 0 =>
        LET used == {i \in ActiveRows(prior, Latest(compactions)) : rows[i].usage > 0}
        IN used # {} => rows[Max(used)].folds = Cardinality(compactions)

\* Both: the prompt is whole, and what says whether it has to be folded is its own.
PromptIsWholeAndMeasured == PromptIsWhole /\ UsageIsOfThisContext

\* The page shows one card for every call, pending as long as it has no result, and
\* the divider stands between what the summary covers and what it does not.
CardsTellTheResults ==
    LET items == FoldMessages(rows)
        all == FlattenSeq([k \in DOMAIN items |-> FlattenSeq(items[k].segments)])
        active == Latest(compactions)
        at == MarkerAt(items, active)
    IN /\ \A i, j \in DOMAIN all : all[i].id = all[j].id => i = j
       /\ \A c \in UNION {Range(rows[i].calls) \cup Range(rows[i].legacy) : i \in DOMAIN rows} :
            \E i \in DOMAIN all : all[i].id = c
       /\ \A i \in DOMAIN all : all[i].status = "pending" <=> all[i].id \in Open
       /\ \A k \in DOMAIN items : items[k].seq <= active.through <=> k <= at

\* Both readers of the rows, the model's prompt and the tab's cards, get the same story.
HistoryIsTold == PromptIsWholeAndMeasured /\ CardsTellTheResults
=============================================================================
