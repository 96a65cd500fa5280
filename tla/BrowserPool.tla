---------------------------- MODULE BrowserPool -----------------------------
(***************************************************************************)
(* The browsers the agent drives (internal/agent/browseruse manager.go,    *)
(* session.go, state.go, actions.go; tools/browser_use.go): one browser    *)
(* process for all conversations, booted with the first session and killed *)
(* with the last, and one session of tabs for every conversation.          *)
(*                                                                         *)
(* The calls of one assistant turn run in parallel, several conversations  *)
(* run at once, and handlers close sessions of conversations they delete.  *)
(* A step is one section under the manager's or the context's lock, or one *)
(* call to the driver between two of them.                                 *)
(***************************************************************************)
EXTENDS Naturals, FiniteSets

CONSTANTS
    Convs,          \* conversations
    ToolCalls,      \* browser_use calls and deletions, each used once
    MaxContexts,    \* browser contexts made, and browsers booted
    MaxTabs         \* tabs opened

ASSUME PoolAssumption == MaxContexts \in Nat /\ MaxTabs \in Nat

VARIABLES
    pool,           \* Manager.sessions, 0 when a conversation has none
    chromium,       \* Manager.browser and Manager.pw, 0 when nil
    running,        \* the browser processes
    booted,         \* browsers booted so far
    contexts,       \* contexts made so far
    context,        \* per context: its browser, its pages, whether bctx is not nil
    tabOwner,       \* per tab opened, its conversation
    snapshots,      \* tabs with a snapshot of their elements
    toolCall,       \* per call: where it is and what it holds
    asked           \* history: conversations one of whose tabs was asked to be closed

poolVars == <<pool, chromium, running, booted, contexts, context, tabOwner, snapshots, toolCall, asked>>

Free == [at |-> "idle", conv |-> "", verb |-> "", tab |-> 0, held |-> 0, closing |-> {}, killing |-> 0]
CallOver == [Free EXCEPT !.at = "over"]

\* "click" stands for every verb that finds a page and then drives it: hover, type, press,
\* scroll, wait_for, reload, extract, screenshot and the others.
Verbs == {"open_tab", "list_pages", "close_tab", "read_state", "click"}
NumTabs == Cardinality(DOMAIN tabOwner)

PoolTypeOK ==
    /\ pool \in [Convs -> 0..MaxContexts] /\ chromium \in 0..MaxContexts
    /\ running \subseteq 1..booted /\ booted \in 0..MaxContexts /\ contexts \in 0..MaxContexts
    /\ \A s \in 1..MaxContexts : context[s].pages \subseteq DOMAIN tabOwner
    /\ DOMAIN tabOwner \in {1..n : n \in 0..MaxTabs} /\ snapshots \subseteq DOMAIN tabOwner
    /\ \A c \in ToolCalls :
        toolCall[c].at \in {"idle", "ready", "found", "drained", "closing", "killing", "over"}

PoolInit ==
    /\ pool = [v \in Convs |-> 0] /\ chromium = 0 /\ running = {} /\ booted = 0 /\ contexts = 0
    /\ context = [s \in 1..MaxContexts |-> [browser |-> 0, pages |-> {}, open |-> FALSE]]
    /\ tabOwner = <<>> /\ snapshots = {}
    /\ toolCall = [c \in ToolCalls |-> Free] /\ asked = {}

-----------------------------------------------------------------------------
(***************************************************************************)
(* Manager.Session, which every verb but close_session calls first.        *)
(***************************************************************************)
Ready(c, v, verb, tab, s) ==
    toolCall' = [toolCall EXCEPT ![c] =
        [at |-> "ready", conv |-> v, verb |-> verb, tab |-> tab, held |-> s,
         closing |-> {}, killing |-> 0]]

Finish(c) == toolCall' = [toolCall EXCEPT ![c] = CallOver]

\* The tab a verb names is one the model was told of, in this conversation or another.
Names(verb, tab) ==
    IF verb \in {"open_tab", "list_pages"} THEN tab = 0 ELSE tab \in DOMAIN tabOwner

Session(c, v, verb, tab) ==
    /\ toolCall[c].at = "idle" /\ Names(verb, tab)
    /\ pool[v] # 0
    /\ Ready(c, v, verb, tab, pool[v])
    /\ UNCHANGED <<pool, chromium, running, booted, contexts, context, tabOwner, snapshots, asked>>

\* ensureBrowserLocked and NewContext, each of which may fail.
NewSession(c, v, verb, tab) ==
    LET b == IF chromium = 0 THEN booted + 1 ELSE chromium
        s == contexts + 1
    IN /\ toolCall[c].at = "idle" /\ Names(verb, tab)
       /\ pool[v] = 0
       /\ b <= MaxContexts /\ s <= MaxContexts
       /\ chromium' = b /\ running' = running \cup {b} /\ booted' = IF chromium = 0 THEN b ELSE booted
       /\ \/ Finish(c) /\ UNCHANGED <<pool, contexts, context>>
          \/ /\ contexts' = s
             /\ context' = [context EXCEPT ![s] = [browser |-> b, pages |-> {}, open |-> TRUE]]
             /\ pool' = [pool EXCEPT ![v] = s]
             /\ Ready(c, v, verb, tab, s)
       /\ UNCHANGED <<tabOwner, snapshots, asked>>

DriverMissing(c, v) ==
    /\ toolCall[c].at = "idle" /\ pool[v] = 0 /\ chromium = 0
    /\ Finish(c)
    /\ UNCHANGED <<pool, chromium, running, booted, contexts, context, tabOwner, snapshots, asked>>

-----------------------------------------------------------------------------
(***************************************************************************)
(* The verbs.                                                              *)
(***************************************************************************)
At(c, where, verb) == toolCall[c].at = where /\ toolCall[c].verb = verb

\* Another call may have closed the session meanwhile: its context is nil then, and the
\* call ends in a panic that the runner turns into an error.
Usable(s) == context[s].open /\ context[s].browser \in running

OpenPage(c) ==
    /\ At(c, "ready", "open_tab")
    /\ \/ /\ Usable(toolCall[c].held) /\ NumTabs < MaxTabs
          /\ tabOwner' = [p \in 1..NumTabs + 1 |-> IF p \in DOMAIN tabOwner THEN tabOwner[p] ELSE toolCall[c].conv]
          /\ context' = [context EXCEPT ![toolCall[c].held].pages = @ \cup {NumTabs + 1}]
       \/ UNCHANGED <<tabOwner, context>>
    /\ Finish(c)
    /\ UNCHANGED <<pool, chromium, running, booted, contexts, snapshots, asked>>

ListPages(c) ==
    /\ At(c, "ready", "list_pages")
    /\ Finish(c)
    /\ UNCHANGED <<pool, chromium, running, booted, contexts, context, tabOwner, snapshots, asked>>

\* The last tab takes the session with it, in a second step.
CloseTab(c) ==
    LET s == toolCall[c].held
        rest == context[s].pages \ {toolCall[c].tab}
    IN /\ At(c, "ready", "close_tab")
       /\ IF toolCall[c].tab \notin context[s].pages THEN Finish(c) /\ UNCHANGED <<context, asked>>
          ELSE /\ context' = [context EXCEPT ![s].pages = rest]
               /\ asked' = asked \cup {toolCall[c].conv}
               /\ IF rest # {} THEN Finish(c)
                  ELSE toolCall' = [toolCall EXCEPT ![c].at = "drained", ![c].held = 0, ![c].tab = 0]
       /\ UNCHANGED <<pool, chromium, running, booted, contexts, tabOwner, snapshots>>

\* Session.page, which releases the lock before the page is used.
FindPage(c) ==
    /\ At(c, "ready", "read_state") \/ At(c, "ready", "click")
    /\ IF toolCall[c].tab \in context[toolCall[c].held].pages
       THEN toolCall' = [toolCall EXCEPT ![c].at = "found"] ELSE Finish(c)
    /\ UNCHANGED <<pool, chromium, running, booted, contexts, context, tabOwner, snapshots, asked>>

\* Evaluate fails when the page is gone; the snapshot is stored on the entry it found.
ReadState(c) ==
    /\ At(c, "found", "read_state")
    /\ \/ toolCall[c].tab \in context[toolCall[c].held].pages /\ snapshots' = snapshots \cup {toolCall[c].tab}
       \/ UNCHANGED snapshots
    /\ Finish(c)
    /\ UNCHANGED <<pool, chromium, running, booted, contexts, context, tabOwner, asked>>

\* elementByIndex looks the page up again; the page then changes under its snapshot.
Click(c) ==
    /\ At(c, "found", "click")
    /\ Finish(c)
    /\ UNCHANGED <<pool, chromium, running, booted, contexts, context, tabOwner, snapshots, asked>>

-----------------------------------------------------------------------------
(***************************************************************************)
(* Manager.CloseSession, asked by close_session, by a handler that deletes *)
(* the conversation or its project, or by the last close_tab.              *)
(***************************************************************************)
\* Mutant: every closed session takes the browser down.
LastSession_Any(v) == pool[v] # 0

LastSession(v) == \A w \in Convs \ {v} : pool[w] = 0

Detach(c, v) ==
    /\ pool' = [pool EXCEPT ![v] = 0]
    /\ chromium' = IF LastSession(v) THEN 0 ELSE chromium
    /\ toolCall' = [toolCall EXCEPT ![c] = [Free EXCEPT
        !.at = "closing", !.closing = {pool[v]} \ {0}, !.killing = IF LastSession(v) THEN chromium ELSE 0]]
    /\ UNCHANGED <<running, booted, contexts, context, tabOwner, snapshots>>

CloseSession(c, v) ==
    /\ toolCall[c].at = "idle"
    /\ asked' = asked \cup {v}
    /\ Detach(c, v)

OnEmpty(c) ==
    /\ toolCall[c].at = "drained"
    /\ Detach(c, toolCall[c].conv)
    /\ UNCHANGED asked

\* Session.close: the pages and the context.
CloseContexts(c) ==
    /\ toolCall[c].at = "closing"
    /\ context' = [s \in DOMAIN context |->
        IF s \in toolCall[c].closing THEN [context[s] EXCEPT !.pages = {}, !.open = FALSE] ELSE context[s]]
    /\ toolCall' = [toolCall EXCEPT ![c].at = "killing", ![c].closing = {}]
    /\ UNCHANGED <<pool, chromium, running, booted, contexts, tabOwner, snapshots, asked>>

KillBrowser(c) ==
    /\ toolCall[c].at = "killing"
    /\ running' = running \ {toolCall[c].killing}
    /\ Finish(c)
    /\ UNCHANGED <<pool, chromium, booted, contexts, context, tabOwner, snapshots, asked>>

CallStep(c) ==
    \/ OpenPage(c) \/ ListPages(c) \/ CloseTab(c) \/ FindPage(c) \/ ReadState(c) \/ Click(c)
    \/ OnEmpty(c) \/ CloseContexts(c) \/ KillBrowser(c)
    \/ \E v \in Convs : CloseSession(c, v) \/ DriverMissing(c, v)
    \/ \E v \in Convs, verb \in Verbs, tab \in 0..MaxTabs :
        Session(c, v, verb, tab) \/ NewSession(c, v, verb, tab)

PoolNext == \E c \in ToolCalls : CallStep(c)
PoolSpec == PoolInit /\ [][PoolNext]_poolVars

-----------------------------------------------------------------------------
\* A session in the pool can be used: its context is open in the pool's browser, and that
\* browser runs, whatever other calls are closing at that moment.
SessionsAreUsable ==
    /\ chromium # 0 => chromium \in running
    /\ \A v \in Convs : pool[v] # 0 => Usable(pool[v]) /\ context[pool[v]].browser = chromium

\* No context and no browser process outlives its place in the pool, except in the hands of
\* the call that is closing it.
NothingLeaks ==
    /\ \A s \in 1..contexts : context[s].open =>
        (\E v \in Convs : pool[v] = s) \/ \E c \in ToolCalls : s \in toolCall[c].closing
    /\ \A b \in running : b = chromium \/ \E c \in ToolCalls : toolCall[c].killing = b

\* Tabs are lost only to their own conversation's requests: nothing another conversation
\* opens, closes or deletes takes them away.
TabsStay ==
    \A p \in DOMAIN tabOwner :
        tabOwner[p] \in asked \/ (pool[tabOwner[p]] # 0 /\ p \in context[pool[tabOwner[p]]].pages)

\* The three together: sharing one browser process neither leaks it nor takes it away from a
\* conversation that still uses it.
PoolIsSound == SessionsAreUsable /\ NothingLeaks /\ TabsStay
=============================================================================
