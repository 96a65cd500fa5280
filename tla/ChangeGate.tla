----------------------------- MODULE ChangeGate -----------------------------
(***************************************************************************)
(* One user turn on a workspace: the tracker that records what the tools   *)
(* of the agent change (internal/changes), the validation runs parsed out  *)
(* of commands and the completion gate that reads both                     *)
(* (internal/validation).                                                  *)
(*                                                                         *)
(* The tracker wraps the tools: it keeps the content a file had before the *)
(* first change of the turn as its baseline and an event for every change. *)
(* It sees the change of a file tool by its effect and that of a command   *)
(* by comparing the git status before and after.  The validation           *)
(* middleware wraps the tracker.  Calls of a batch and of sub-agents run   *)
(* at the same time.                                                       *)
(*                                                                         *)
(* A content is a number and every write makes a new one: 1 is what a file *)
(* was before the turn, 0 anything else the agent has not made, such as no *)
(* file at all.  All times are places in one log: rows are stamped as they *)
(* are inserted.  Events with a directory's path are left out of it, they  *)
(* are no code to the gate.                                                *)
(***************************************************************************)
EXTENDS Naturals, Sequences, FiniteSets, FiniteSetsExt, SequencesExt

CONSTANTS
    Files,          \* files of the workspace that git does not ignore
    CodeFiles,      \* those the gate cares for
    Slots,          \* calls that run at the same time
    Commands,       \* commands, by validation_kind, text and cwd
    Outputs,        \* what a command may print and return, see Output
    MaxContents,    \* contents there ever are
    MaxRecords      \* rows of the log

Severity == {"error", "warning", "info"}
Found == [sev : Severity, msg : {"", "text"}]

\* The exit code, the form of the output, and the diagnostics found in it.
Output == [zero : BOOLEAN, form : {"eslint-json", "go-test-json", "text"},
           events : BOOLEAN, found : SUBSET Found]

ASSUME GateAssumption ==
    /\ IsFiniteSet(Files) /\ CodeFiles \subseteq Files
    /\ Outputs \subseteq Output
    /\ MaxContents \in Nat /\ MaxRecords \in Nat

-----------------------------------------------------------------------------
(***************************************************************************)
(* Parsing: the exit code decides, the diagnostics explain.                *)
(***************************************************************************)
Dedupe(found) == {d \in found : d.msg # ""}

ParseOutput(out) ==
    LET candidates == Dedupe(out.found)
        parsed == \/ out.form = "eslint-json"
                  \/ (out.form = "go-test-json" /\ out.events)
                  \/ (out.form = "text" /\ out.found # {})
    IN [passed |-> out.zero,
        parseOK |-> parsed \/ (out.zero /\ out.found = {}),
        diags |-> IF ~out.zero /\ candidates = {}
                    THEN {[sev |-> "error", msg |-> "text"]} ELSE candidates]

-----------------------------------------------------------------------------
VARIABLES
    disk, head,     \* the content of every file, in the workspace and in HEAD
    contents,       \* the newest content
    baseline,       \* the baselines of the turn
    log,            \* events and validation runs, in the order they were inserted
    call,           \* what every slot is doing
    gate,           \* the run local values of the gate
    final,          \* how the run has ended
    made,           \* history: the contents the agent has made, of every file
    untold,         \* history: files a call has changed without a successful event of them
    blurred         \* history: files whose first content the tracker may not have seen

gateVars == <<disk, head, contents, baseline, log, call, gate, final, made, untold, blurred>>
workspaceVars == <<disk, head, contents, made>>
storeVars == <<baseline, log, gate, final>>

None == "none"
Elsewhere == 0
AsFound == 1

\* A file tool has the files it records events of (listed), those below a directory it
\* removes or moves (below) and those of a directory it makes (added).  A command has
\* what the status said before it, which of that has been rewritten since, and what it
\* has read (checked).  Both have what they have changed and not recorded (owes).
RestingCall ==
    [pc |-> "rest", listed |-> {}, below |-> {}, added |-> {}, todo |-> {}, file |-> None,
     before |-> [f \in Files |-> Elsewhere], dirty |-> {}, rewritten |-> {},
     command |-> None, checked |-> [f \in Files |-> Elsewhere], ok |-> TRUE, owes |-> {}]
NoAttempts == [attempts |-> 0, fingerprint |-> {}, repeats |-> 0, released |-> FALSE]

GateTypeOK ==
    /\ disk \in [Files -> 0..MaxContents] /\ head \in [Files -> 0..MaxContents]
    /\ contents \in 1..MaxContents
    /\ baseline \in [Files -> {<<>>} \cup {<<c>> : c \in 0..MaxContents}]
    /\ Len(log) <= MaxRecords
    /\ \A s \in Slots :
        /\ call[s].pc \in {"rest", "capture", "snapped", "written", "status", "tracked"}
        /\ UNION {call[s].todo, call[s].dirty, call[s].owes} \subseteq Files
    /\ gate.attempts \in 0..3 /\ gate.repeats \in 0..3 /\ gate.released \in BOOLEAN
    /\ final \in {None, "passed", "released", "unread"}
    /\ made \in [Files -> SUBSET (0..MaxContents)]
    /\ untold \subseteq Files /\ blurred \subseteq Files

\* The user may have left a file that differs from HEAD.
GateInit ==
    /\ disk = [f \in Files |-> AsFound] /\ head \in [Files -> {AsFound, Elsewhere}]
    /\ contents = AsFound
    /\ baseline = [f \in Files |-> <<>>]
    /\ log = <<>>
    /\ call = [s \in Slots |-> RestingCall]
    /\ gate = NoAttempts /\ final = None
    /\ made = [f \in Files |-> {}]
    /\ untold = {} /\ blurred = {}

InFlight(s) == call[s].pc # "rest"

\* A call begins while the run goes on and the log has room for its row.
MayBegin(s) ==
    /\ final = None /\ ~InFlight(s)
    /\ Len(log) + Cardinality({r \in Slots : InFlight(r)}) < MaxRecords

Goes(s, state) == call' = [call EXCEPT ![s] = state]

\* Mutant: the baseline follows every change.
CreateBaselineIfAbsent_Replace(f, content) == [baseline EXCEPT ![f] = <<content>>]

CreateBaselineIfAbsent(f, content) ==
    IF baseline[f] = <<>> THEN [baseline EXCEPT ![f] = <<content>>] ELSE baseline

Insert(row) == Append(log, row)
Event(f, ok) == [kind |-> "event", file |-> f, ok |-> ok]

\* A content somebody owes that no baseline is older than.
Unseen(f) == baseline[f] = <<>> /\ \E r \in Slots : f \in call[r].owes

\* Call s has changed f: it owes an event, and every command that found f dirty will see
\* that it was written.
Changes(s, f) ==
    call' = [r \in Slots |->
        [call[r] EXCEPT !.rewritten = @ \cup (call[r].dirty \cap {f}),
                        !.owes = IF r = s THEN @ \cup {f} ELSE @]]

\* Every content the agent puts into a file is new.
Puts(s, f) ==
    /\ contents < MaxContents
    /\ contents' = contents + 1
    /\ disk' = [disk EXCEPT ![f] = contents + 1]
    /\ made' = [made EXCEPT ![f] = @ \cup {contents + 1}]
    /\ Changes(s, f)

\* What a call still owes when it ends stays untold.
EndsOwing(s) ==
    /\ Goes(s, RestingCall)
    /\ untold' = untold \cup call[s].owes
    /\ blurred' = blurred \cup {f \in call[s].owes : baseline[f] = <<>>}

-----------------------------------------------------------------------------
(***************************************************************************)
(* A file tool: the paths of its effect are captured, a directory by the   *)
(* files below it, and get a baseline; the tool is called; an event is     *)
(* recorded for every path, also when the tool has failed, and for every   *)
(* file of a directory it has made.                                        *)
(***************************************************************************)
BeginTool(s, listed, below, added) ==
    /\ MayBegin(s)
    /\ listed \cup below \cup added # {} /\ listed \cap (below \cup added) = {}
    /\ Goes(s, [RestingCall EXCEPT !.pc = "capture", !.listed = listed, !.below = below,
                                   !.added = added, !.todo = listed \cup below])
    /\ UNCHANGED <<workspaceVars, storeVars, untold, blurred>>

CaptureFile(s, f) ==
    /\ call[s].pc = "capture" /\ f \in call[s].todo
    /\ Goes(s, [call[s] EXCEPT !.pc = "snapped", !.file = f, !.before[f] = disk[f]])
    /\ blurred' = blurred \cup {g \in {f} : Unseen(g)}
    /\ UNCHANGED <<workspaceVars, storeVars, untold>>

CreateBaseline(s) ==
    /\ call[s].pc = "snapped"
    /\ LET f == call[s].file
       IN /\ baseline' = CreateBaselineIfAbsent(f, call[s].before[f])
          /\ Goes(s, [call[s] EXCEPT !.pc = "capture", !.todo = @ \ {f}, !.file = None,
                                     !.before[f] = Elsewhere])
    /\ UNCHANGED <<workspaceVars, log, gate, final, untold, blurred>>

\* The tool changes its files one after the other, and returns or fails at any point.
WriteTool(s, f) ==
    /\ call[s].pc = "capture" /\ call[s].todo = {}
    /\ f \in call[s].listed \cup call[s].below \cup call[s].added
    /\ Puts(s, f)
    /\ UNCHANGED <<head, storeVars, untold, blurred>>

ToolReturns(s, ok) ==
    /\ call[s].pc = "capture" /\ call[s].todo = {}
    /\ Goes(s, [RestingCall EXCEPT !.pc = "written", !.ok = ok, !.added = call[s].added,
            !.todo = call[s].listed \cup {f \in call[s].added : ok}, !.owes = call[s].owes])
    /\ UNCHANGED <<workspaceVars, storeVars, untold, blurred>>

\* A file of a new directory gets its baseline here: it was not there.
RecordEvent(s, f) ==
    /\ call[s].pc = "written" /\ f \in call[s].todo
    /\ Len(log) < MaxRecords
    /\ log' = Insert(Event(f, call[s].ok))
    /\ baseline' = IF f \in call[s].added THEN CreateBaselineIfAbsent(f, Elsewhere) ELSE baseline
    /\ LET told == {g \in {f} : call[s].ok}
       IN /\ untold' = untold \ told
          /\ Goes(s, [call[s] EXCEPT !.todo = @ \ {f}, !.owes = @ \ told])
    /\ UNCHANGED <<workspaceVars, gate, final, blurred>>

EndTool(s) ==
    /\ call[s].pc = "written" /\ call[s].todo = {}
    /\ EndsOwing(s)
    /\ UNCHANGED <<workspaceVars, storeVars>>

-----------------------------------------------------------------------------
(***************************************************************************)
(* A command; whether it has a validation_kind matters when it has ended.  *)
(***************************************************************************)
Dirty == {f \in Files : disk[f] # head[f]}

\* The status before, with the contents of what is dirty.
StatusBefore(s, c) ==
    /\ MayBegin(s)
    /\ Goes(s, [RestingCall EXCEPT !.pc = "status", !.command = c, !.dirty = Dirty,
            !.before = [f \in Files |-> IF f \in Dirty THEN disk[f] ELSE Elsewhere],
            !.checked = disk])
    /\ blurred' = blurred \cup {f \in Dirty : Unseen(f)}
    /\ UNCHANGED <<workspaceVars, storeVars, untold>>

\* What it checks it reads when it begins, or later.
CommandReads(s, f) ==
    /\ call[s].pc = "status"
    /\ Goes(s, [call[s] EXCEPT !.checked[f] = disk[f]])
    /\ UNCHANGED <<workspaceVars, storeVars, untold, blurred>>

CommandWrites(s, f) ==
    /\ call[s].pc = "status"
    /\ Puts(s, f)
    /\ UNCHANGED <<head, storeVars, untold, blurred>>

\* git restore, and git commit, which moves the content HEAD has.
CommandRestores(s, f) ==
    /\ call[s].pc = "status" /\ f \in Dirty
    /\ disk' = [disk EXCEPT ![f] = head[f]]
    /\ Changes(s, f)
    /\ UNCHANGED <<head, contents, made, storeVars, untold, blurred>>

CommandCommits(s, f) ==
    /\ call[s].pc = "status" /\ f \in Dirty
    /\ head' = [head EXCEPT ![f] = disk[f]]
    /\ blurred' = blurred \cup {g \in {f} : Unseen(g)}
    /\ UNCHANGED <<disk, contents, made, storeVars, call, untold>>

\* A path that was dirty before has changed if it was written since, its modification
\* time tells; one that was clean is compared with what HEAD has now, whose time is not
\* known, so it counts as changed whenever it is dirty after.
ChangedBy(s) == call[s].rewritten \cup (Dirty \ call[s].dirty)

StartOf(s, f) == IF f \in call[s].dirty THEN call[s].before[f] ELSE head[f]

\* It has returned, or the call of it has failed: it may have run all the same.
TrackerDone(s, ok, told) ==
    /\ call[s].pc = "status"
    /\ Goes(s, [RestingCall EXCEPT !.pc = "tracked", !.command = call[s].command, !.ok = ok,
                                   !.checked = call[s].checked, !.owes = call[s].owes \ told])
    /\ untold' = untold \ told

\* One event for every changed file, in whatever order a map is walked through.
TrackCommand(s, ok) ==
    /\ TrackerDone(s, ok, {f \in ChangedBy(s) : ok})
    /\ Len(log) + Cardinality(ChangedBy(s)) <= MaxRecords
    /\ baseline' = [f \in Files |-> IF f \in ChangedBy(s)
                        THEN CreateBaselineIfAbsent(f, StartOf(s, f))[f] ELSE baseline[f]]
    /\ \E order \in SetToSeqs(ChangedBy(s)) :
            log' = log \o [i \in DOMAIN order |-> Event(order[i], ok)]
    /\ UNCHANGED <<workspaceVars, gate, final, blurred>>

\* The status before has failed, or the one after it does: no baseline and no event.
StatusFails(s, ok) ==
    /\ TrackerDone(s, ok, {})
    /\ UNCHANGED <<workspaceVars, storeVars, blurred>>

\* Enrich: the run is stored after the events of the command itself.  What has changed
\* since it was read the run has missed.
StoreRun(s, out) ==
    /\ call[s].pc = "tracked" /\ call[s].ok
    /\ Len(log) < MaxRecords
    /\ LET summary == ParseOutput(out)
       IN log' = Insert([kind |-> "run", command |-> call[s].command,
                         passed |-> summary.passed, diags |-> summary.diags,
                         checked |-> call[s].checked,
                         missed |-> {f \in Files : call[s].checked[f] # disk[f]}])
    /\ EndsOwing(s)
    /\ UNCHANGED <<workspaceVars, baseline, gate, final>>

\* No run: the call has failed, the command has no validation_kind, its result cannot
\* be parsed, or the store cannot be asked.
StoreNoRun(s) ==
    /\ call[s].pc = "tracked"
    /\ EndsOwing(s)
    /\ UNCHANGED <<workspaceVars, storeVars>>

-----------------------------------------------------------------------------
(***************************************************************************)
(* The gate.                                                               *)
(***************************************************************************)
CodeEvents == {i \in DOMAIN log : log[i].kind = "event" /\ log[i].ok /\ log[i].file \in CodeFiles}
LatestChange == IF CodeEvents = {} THEN 0 ELSE Max(CodeEvents)

Runs == {i \in DOMAIN log : log[i].kind = "run"}

\* The newest of the runs of the same command.
LatestEquivalentRuns ==
    {i \in Runs : \A j \in Runs : log[j].command = log[i].command => j <= i}

\* Mutant: a run counts however old it is.
CurrentRuns_Any == LatestEquivalentRuns

CurrentRuns == {i \in LatestEquivalentRuns : i > LatestChange}

Digests == {[command |-> log[i].command, passed |-> log[i].passed, diags |-> log[i].diags] :
                i \in CurrentRuns}

EvaluateCompletion ==
    IF LatestChange = 0 THEN "passed"
    ELSE IF CurrentRuns = {} THEN "missing"
    ELSE IF \A d \in Digests : d.passed THEN "passed" ELSE "failed"

\* The model has answered and calls no tool.
AnswerPasses ==
    /\ final = None
    /\ \A s \in Slots : ~InFlight(s)
    /\ EvaluateCompletion = "passed" \/ gate.released
    /\ final' = IF gate.released THEN "released" ELSE "passed"
    /\ UNCHANGED <<workspaceVars, baseline, log, call, gate, untold, blurred>>

\* The gate cannot read the events, and lets the answer through.
AnswerUnread ==
    /\ final = None
    /\ \A s \in Slots : ~InFlight(s)
    /\ final' = "unread"
    /\ UNCHANGED <<workspaceVars, baseline, log, call, gate, untold, blurred>>

\* Mutant: the gate never gives up.
Released_Never(attempts, repeats) == attempts < 0

\* Three attempts at most, and two with the same failures.
Released(attempts, repeats) ==
    attempts >= 3 \/ (EvaluateCompletion = "failed" /\ repeats >= 2)

\* rewriteFinal: the answer is replaced by a call of the gate.
RewriteFinal ==
    /\ final = None
    /\ \A s \in Slots : ~InFlight(s)
    /\ EvaluateCompletion # "passed" /\ ~gate.released
    /\ LET attempts == gate.attempts + 1
           repeats == IF gate.attempts > 0 /\ gate.fingerprint = Digests
                        THEN gate.repeats + 1 ELSE 1
       IN gate' = [attempts |-> attempts, fingerprint |-> Digests, repeats |-> repeats,
                   released |-> Released(attempts, repeats)]
    /\ UNCHANGED <<workspaceVars, baseline, log, call, final, untold, blurred>>

GateNext ==
    \/ \E s \in Slots :
        \/ \E listed, below, added \in SUBSET Files : BeginTool(s, listed, below, added)
        \/ \E f \in Files : CaptureFile(s, f) \/ WriteTool(s, f) \/ RecordEvent(s, f)
        \/ CreateBaseline(s) \/ EndTool(s)
        \/ \E ok \in BOOLEAN : ToolReturns(s, ok)
        \/ \E c \in Commands : StatusBefore(s, c)
        \/ \E f \in Files :
            \/ CommandReads(s, f) \/ CommandWrites(s, f)
            \/ CommandRestores(s, f) \/ CommandCommits(s, f)
        \/ \E ok \in BOOLEAN : TrackCommand(s, ok) \/ StatusFails(s, ok)
        \/ \E out \in Outputs : StoreRun(s, out)
        \/ StoreNoRun(s)
    \/ AnswerPasses
    \/ AnswerUnread
    \/ RewriteFinal

GateSpec == GateInit /\ [][GateNext]_gateVars

-----------------------------------------------------------------------------
\* A baseline is no content the agent has made: what the agent changed in the turn
\* stays visible in the diff of the turn, however the calls overlap.  Only a change
\* that is behind no baseline may be taken for the first content: while its call has
\* not recorded it and another one captures or commits the file, and after a call that
\* has ended without a baseline of it.
BaselineIsNotTheAgents ==
    \A f \in Files \ blurred :
        \A c \in made[f] : baseline[f] # <<c>>

\* A run has read a file as it is now, or the file was changed while it was running.
Covers(i, f) == log[i].checked[f] = disk[f] \/ f \in log[i].missed

\* When the gate lets a final answer through as passed, every code file is as the user
\* left it, or there are current runs, all of them have passed, and each has read the
\* file as it is now or was running when it was changed.  That is so of every file whose
\* changes are told by events; a call that fails, removes a directory, or commits what
\* it changes may leave one untold.
PassedMeansChecked ==
    final = "passed" =>
        \A f \in CodeFiles \ untold :
            \/ made[f] = {} /\ disk[f] = AsFound
            \/ CurrentRuns # {} /\ \A i \in CurrentRuns : log[i].passed /\ Covers(i, f)

\* A failed run is never stored without a diagnostic that says so.
FailuresAreTold ==
    \A i \in Runs : ~log[i].passed => log[i].diags # {}

\* All three: a turn shows what the agent has changed, what the gate says of the
\* code is so, and it can say why.
ChangesAreAccountedFor == BaselineIsNotTheAgents /\ PassedMeansChecked /\ FailuresAreTold
=============================================================================
