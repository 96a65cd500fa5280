--------------------------- MODULE BrowserBridge ---------------------------
(***************************************************************************)
(* The bridge to the user's own browsers (internal/agent/browserbridge):   *)
(* the websocket sessions of the extension (ws.go), the registry of        *)
(* clients and pages (registry.go), and the commands that tools send and   *)
(* wait for (service.go, actions.go).  A session is one goroutine that     *)
(* reads frames until its socket breaks; every caller of SendCommand is    *)
(* another.  The registry and the service have one lock each, and a step   *)
(* here is what runs under one of them.                                    *)
(***************************************************************************)
EXTENDS Naturals, FiniteSets

CONSTANTS
    Browsers,       \* the stable ids of the extensions
    Sessions,       \* websocket sessions, each used once
    Sends,          \* calls of SendCommand
    BrowserTabs,    \* tab ids of a browser
    MaxPages,       \* page ids handed out
    NoSession

\* A placeholder id is a fresh uuid, never the id of an extension.
ASSUME BridgeAssumption ==
    /\ MaxPages \in Nat /\ NoSession \notin Sessions
    /\ Sessions \cap Browsers = {}

VARIABLES
    sess,           \* per session, how far its goroutine is
    bid,            \* per session, BridgeClient.BrowserID: a browser, or itself (placeholder)
    byBrowser,      \* Registry.clientsByBrowser
    pages,          \* Registry.pages
    pageIds,        \* page ids handed out so far
    conns,          \* Service.connections
    pendingCmds,    \* Service.pending: the calls with an open channel in the map
    failing,        \* per session, the channels detachConn took over and has yet to fail
    command,        \* per call: where it is, its client, what is in its channel
    overlapped      \* history: browsers that had two sessions at once

bridgeVars == <<sess, bid, byBrowser, pages, pageIds, conns, pendingCmds, failing, command, overlapped>>

Stages == {"unused", "registered", "open", "detached", "gone"}
Arrivals == {"", "result", "error", "disconnected"}

BridgeTypeOK ==
    /\ sess \in [Sessions -> Stages]
    /\ bid \in [Sessions -> Browsers \cup Sessions]
    /\ byBrowser \in [Browsers \cup Sessions -> Sessions \cup {NoSession}]
    /\ pages \subseteq [id : 1..MaxPages, browser : Browsers, tab : BrowserTabs]
    /\ conns \subseteq Sessions /\ pendingCmds \subseteq Sends
    /\ failing \in [Sessions -> SUBSET Sends]
    /\ \A c \in Sends :
        /\ command[c].at \in {"idle", "checked", "written", "waiting", "over"}
        /\ command[c].channel \in Arrivals /\ command[c].sends \in Nat

BridgeInit ==
    /\ sess = [s \in Sessions |-> "unused"] /\ bid = [s \in Sessions |-> s]
    /\ byBrowser = [b \in Browsers \cup Sessions |-> NoSession]
    /\ pages = {} /\ pageIds = 0 /\ conns = {} /\ pendingCmds = {}
    /\ failing = [s \in Sessions |-> {}]
    /\ command = [c \in Sends |-> [at |-> "idle", session |-> NoSession, channel |-> "", sends |-> 0]]
    /\ overlapped = {}

-----------------------------------------------------------------------------
(***************************************************************************)
(* A session.                                                              *)
(***************************************************************************)
RegisterClient(s) ==
    /\ sess[s] = "unused"
    /\ sess' = [sess EXCEPT ![s] = "registered"]
    /\ byBrowser' = [byBrowser EXCEPT ![s] = s]
    /\ UNCHANGED <<bid, pages, pageIds, conns, pendingCmds, failing, command, overlapped>>

AttachConn(s) ==
    /\ sess[s] = "registered"
    /\ sess' = [sess EXCEPT ![s] = "open"]
    /\ conns' = conns \cup {s}
    /\ UNCHANGED <<bid, byBrowser, pages, pageIds, pendingCmds, failing, command, overlapped>>

Alive == {s \in Sessions : sess[s] \in {"registered", "open", "detached"}}

\* SetBrowserID; the extension may say hello again, with the same id.
Hello(s, b) ==
    /\ sess[s] = "open" /\ bid[s] \in {s, b}
    /\ bid' = [bid EXCEPT ![s] = b]
    /\ byBrowser' = [byBrowser EXCEPT ![bid[s]] = NoSession, ![b] = s]
    /\ overlapped' = IF \E t \in Alive \ {s} : bid[t] = b THEN overlapped \cup {b} ELSE overlapped
    /\ UNCHANGED <<sess, pages, pageIds, conns, pendingCmds, failing, command>>

\* The extension names its own browser in page frames.
Frames(s, b) == sess[s] = "open" /\ bid[s] = b

UpsertPage(s, b, tab) ==
    /\ Frames(s, b)
    /\ ~\E p \in pages : p.browser = b /\ p.tab = tab
    /\ pageIds < MaxPages
    /\ pageIds' = pageIds + 1
    /\ pages' = pages \cup {[id |-> pageIds', browser |-> b, tab |-> tab]}
    /\ UNCHANGED <<sess, bid, byBrowser, conns, pendingCmds, failing, command, overlapped>>

RemovePage(s, b, tab) ==
    /\ Frames(s, b)
    /\ pages' = {p \in pages : p.browser # b \/ p.tab # tab}
    /\ UNCHANGED <<sess, bid, byBrowser, pageIds, conns, pendingCmds, failing, command, overlapped>>

Put(c, what) == [command EXCEPT ![c].channel = what, ![c].sends = @ + 1]

\* deliverResult, deliverError: the extension may answer late, twice or not at all.
Deliver(s, c, what) ==
    /\ sess[s] = "open" /\ command[c].session = s
    /\ command[c].at \in {"waiting", "over"}
    /\ c \in pendingCmds
    /\ pendingCmds' = pendingCmds \ {c}
    /\ command' = Put(c, what)
    /\ UNCHANGED <<sess, bid, byBrowser, pages, pageIds, conns, failing, overlapped>>

\* Mutant: the commands are dropped and nobody tells their callers.
DetachConn_Silent(s) ==
    /\ sess[s] = "open"
    /\ sess' = [sess EXCEPT ![s] = "detached"]
    /\ conns' = conns \ {s}
    /\ pendingCmds' = {}
    /\ UNCHANGED <<bid, byBrowser, pages, pageIds, failing, command, overlapped>>

\* detachConn, under its lock: every pending command is taken over, those of the
\* other sessions too.
DetachConn(s) ==
    /\ sess[s] = "open"
    /\ sess' = [sess EXCEPT ![s] = "detached"]
    /\ conns' = conns \ {s}
    /\ failing' = [failing EXCEPT ![s] = pendingCmds]
    /\ pendingCmds' = {}
    /\ UNCHANGED <<bid, byBrowser, pages, pageIds, command, overlapped>>

FailOne(s, c) ==
    /\ c \in failing[s]
    /\ failing' = [failing EXCEPT ![s] = @ \ {c}]
    /\ command' = Put(c, "disconnected")
    /\ UNCHANGED <<sess, bid, byBrowser, pages, pageIds, conns, pendingCmds, overlapped>>

UnregisterClient(s) ==
    /\ sess[s] = "detached" /\ failing[s] = {}
    /\ sess' = [sess EXCEPT ![s] = "gone"]
    /\ byBrowser' = [byBrowser EXCEPT ![bid[s]] = NoSession]
    /\ pages' = {p \in pages : p.browser # bid[s]}
    /\ UNCHANGED <<bid, pageIds, conns, pendingCmds, failing, command, overlapped>>

-----------------------------------------------------------------------------
(***************************************************************************)
(* SendCommand.                                                            *)
(***************************************************************************)
Targets(b) == {p \in pages : p.browser = b}

\* An action on a page looks the page up (requirePage), open_tab does not; then the
\* client of the browser is looked up.
LookUp(c, b) ==
    /\ command[c].at = "idle" /\ byBrowser[b] # NoSession
    /\ command' = [command EXCEPT ![c].at = "checked", ![c].session = byBrowser[b]]
    /\ UNCHANGED <<sess, bid, byBrowser, pages, pageIds, conns, pendingCmds, failing, overlapped>>

OpenTab(c, b) == LookUp(c, b)
ActOnPage(c, b, p) == p \in Targets(b) /\ LookUp(c, b)

\* Under the lock: no connection, no command.
AddPending(c) ==
    /\ command[c].at = "checked"
    /\ IF command[c].session \in conns
       THEN /\ pendingCmds' = pendingCmds \cup {c}
            /\ command' = [command EXCEPT ![c].at = "written"]
       ELSE /\ command' = [command EXCEPT ![c].at = "over"]
            /\ UNCHANGED pendingCmds
    /\ UNCHANGED <<sess, bid, byBrowser, pages, pageIds, conns, failing, overlapped>>

\* writeJSON: the connection may be gone by now, or the write may fail.
WriteCommand(c, ok) ==
    /\ command[c].at = "written"
    /\ ok => command[c].session \in conns
    /\ command' = [command EXCEPT ![c].at = IF ok THEN "waiting" ELSE "over"]
    /\ pendingCmds' = IF ok THEN pendingCmds ELSE pendingCmds \ {c}
    /\ UNCHANGED <<sess, bid, byBrowser, pages, pageIds, conns, failing, overlapped>>

Receive(c) ==
    /\ command[c].at = "waiting" /\ command[c].channel # ""
    /\ command' = [command EXCEPT ![c].at = "over"]
    /\ UNCHANGED <<sess, bid, byBrowser, pages, pageIds, conns, pendingCmds, failing, overlapped>>

\* The deadline or the cancelled context wins, also against an answer that is there.
GiveUp(c) ==
    /\ command[c].at = "waiting"
    /\ command' = [command EXCEPT ![c].at = "over"]
    /\ pendingCmds' = pendingCmds \ {c}
    /\ UNCHANGED <<sess, bid, byBrowser, pages, pageIds, conns, failing, overlapped>>

BridgeNext ==
    \/ \E s \in Sessions :
        \/ RegisterClient(s) \/ AttachConn(s) \/ DetachConn(s) \/ UnregisterClient(s)
        \/ \E b \in Browsers :
            \/ Hello(s, b)
            \/ \E tab \in BrowserTabs : UpsertPage(s, b, tab) \/ RemovePage(s, b, tab)
        \/ \E c \in Sends : \/ FailOne(s, c)
                             \/ \E what \in {"result", "error"} : Deliver(s, c, what)
    \/ \E c \in Sends :
        \/ \E b \in Browsers : OpenTab(c, b) \/ \E p \in pages : ActOnPage(c, b, p)
        \/ AddPending(c) \/ Receive(c) \/ GiveUp(c)
        \/ \E ok \in BOOLEAN : WriteCommand(c, ok)

BridgeSpec == BridgeInit /\ [][BridgeNext]_bridgeVars

-----------------------------------------------------------------------------
\* A channel is sent to at most once (a second send would hit a closed channel, and
\* a full one would block the reader of another session); and a caller that waits is
\* never forgotten: its command is in the map while its connection stands, or its
\* answer is in the channel, or a session that went down is about to put one there.
CommandsEndOnce ==
    \A c \in Sends :
        /\ command[c].sends <= 1
        /\ command[c].at = "waiting" =>
            \/ c \in pendingCmds /\ command[c].session \in conns
            \/ command[c].channel # ""
            \/ \E s \in Sessions : c \in failing[s]

\* A browser whose session has said hello is found by its id, with at most one page per tab,
\* unless two sessions of that browser were ever up at once: then the end of the older
\* one takes the id away from the newer.
HelloMakesReachable ==
    /\ \A s \in Sessions :
        sess[s] = "open" /\ bid[s] \in Browsers \ overlapped => byBrowser[bid[s]] = s
    /\ \A p, q \in pages : p.browser = q.browser /\ p.tab = q.tab => p = q

\* Both: a connected browser can be reached, and no caller of it waits in vain.
BridgeAnswers == CommandsEndOnce /\ HelloMakesReachable
=============================================================================
