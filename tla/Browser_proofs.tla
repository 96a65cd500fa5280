--------------------------- MODULE Browser_proofs ---------------------------
(***************************************************************************)
(* Proofs about the browser: the bridge to the user's own browser, and the *)
(* process the conversations share.                                        *)
(***************************************************************************)
EXTENDS BrowserBridge, BrowserPool, FiniteSetTheorems, TLAPS

-----------------------------------------------------------------------------
(***************************************************************************)
(* The bridge, for any browsers, sessions and commands: a command ends     *)
(* once and is never forgotten, and a browser that said hello is found.    *)
(***************************************************************************)

(***************************************************************************)
(* The inductive invariant.                                                *)
(***************************************************************************)
Places == {"idle", "checked", "written", "waiting", "over"}
CommandShape == [at : Places, session : Sessions \cup {NoSession}, channel : Arrivals, sends : Nat]
Ids == Browsers \cup Sessions

BridgeTyped ==
    /\ sess \in [Sessions -> Stages]
    /\ bid \in [Sessions -> Ids]
    /\ byBrowser \in [Ids -> Sessions \cup {NoSession}]
    /\ pendingCmds \in SUBSET Sends
    /\ failing \in [Sessions -> SUBSET Sends]
    /\ command \in [Sends -> CommandShape]

\* A connection stands while its session reads, and only a session that went down has
\* channels to fail.
Connected ==
    \A s \in Sessions :
        /\ s \in conns <=> sess[s] = "open"
        /\ sess[s] \in {"unused", "registered", "open"} => failing[s] = {}

InMap(c) == c \in pendingCmds
TakenBy(c, s) == c \in failing[s]

\* The channel of a command is in one place until something is put into it: nowhere yet,
\* in the map, or with one of the sessions that went down.
OnePlace(c) ==
    /\ command[c].at \in {"idle", "checked"} => ~InMap(c) /\ command[c].sends = 0
    /\ InMap(c) => command[c].session \in conns /\ command[c].sends = 0
    /\ \A s \in Sessions : TakenBy(c, s) =>
        /\ command[c].at \notin {"idle", "checked"}
        /\ ~InMap(c) /\ command[c].sends = 0
        /\ \A t \in Sessions : TakenBy(c, t) => t = s

\* A caller that is about to wait, or waits, will hear.
WillHear(c) ==
    command[c].at \in {"written", "waiting"} =>
        InMap(c) \/ command[c].channel # "" \/ \E s \in Sessions : TakenBy(c, s)

Commands == \A c \in Sends : OnePlace(c) /\ WillHear(c) /\ command[c].sends \in {0, 1}

\* A session has its placeholder until it says hello, two sessions of one browser at a time
\* are remembered, and pages are unique.
Hellos ==
    /\ \A s \in Sessions : sess[s] \in {"unused", "registered"} => bid[s] = s
    /\ \A s, t \in Alive : bid[s] = bid[t] /\ bid[s] \in Browsers \ overlapped => s = t
    /\ HelloMakesReachable

BridgeInv == BridgeTyped /\ Connected /\ Commands /\ Hellos

-----------------------------------------------------------------------------
LEMMA Disjoint == \A s \in Sessions : s \notin Browsers
BY BridgeAssumption DEF BridgeAssumption

LEMMA InitBridge == BridgeInit => BridgeInv
<1> SUFFICES ASSUME BridgeInit PROVE BridgeInv OBVIOUS
<1>1. BridgeTyped
  BY DEF BridgeInit, BridgeTyped, Stages, Ids, CommandShape, Places, Arrivals
<1>2. Connected BY DEF BridgeInit, Connected
<1>3. Commands
  <2>1. ASSUME NEW c \in Sends
        PROVE  /\ command[c].at = "idle" /\ command[c].sends = 0 /\ ~InMap(c)
               /\ \A s \in Sessions : ~TakenBy(c, s)
    BY DEF BridgeInit, InMap, TakenBy
  <2>. QED BY <2>1 DEF Commands, OnePlace, WillHear
<1>4. Hellos BY DEF BridgeInit, Hellos, Alive, HelloMakesReachable
<1>. QED BY <1>1, <1>2, <1>3, <1>4 DEF BridgeInv

\* The steps of the sessions that leave the commands alone.
LEMMA CommandsStay ==
    ASSUME Commands, UNCHANGED <<pendingCmds, failing, command>>,
           \A c \in pendingCmds : command[c].session \in conns => command[c].session \in conns'
    PROVE  Commands'
BY DEF Commands, OnePlace, WillHear, InMap, TakenBy

LEMMA RegisterStep ==
    ASSUME BridgeInv, NEW s \in Sessions, RegisterClient(s)
    PROVE  BridgeInv'
<1>1. BridgeTyped' BY DEF BridgeInv, BridgeTyped, RegisterClient, Stages, Ids
<1>2. \A t \in Sessions : sess'[t] = IF t = s THEN "registered" ELSE sess[t]
  BY DEF BridgeInv, BridgeTyped, RegisterClient
<1>3. \A b \in Ids : byBrowser'[b] = IF b = s THEN s ELSE byBrowser[b]
  BY DEF BridgeInv, BridgeTyped, RegisterClient
<1>4. sess[s] = "unused" /\ UNCHANGED <<bid, pages, conns, pendingCmds, failing, command, overlapped>>
  BY DEF RegisterClient
<1>5. Connected' BY <1>2, <1>4 DEF BridgeInv, Connected
<1>6. Commands' BY <1>4, CommandsStay DEF BridgeInv
<1>7. Hellos'
  <2>1. bid[s] = s /\ s \notin Browsers BY <1>4, Disjoint DEF BridgeInv, Hellos
  <2>2. Alive' = Alive \cup {s} BY <1>2, <1>4 DEF Alive
  <2>3. \A t \in Sessions : sess'[t] \in {"unused", "registered"} => bid'[t] = t
    BY <1>2, <1>4 DEF BridgeInv, Hellos
  <2>4. \A t, u \in Alive' : bid'[t] = bid'[u] /\ bid'[t] \in Browsers \ overlapped' => t = u
    BY <1>4, <2>1, <2>2 DEF BridgeInv, Hellos
  <2>5. HelloMakesReachable'
    BY <1>2, <1>3, <1>4, <2>1 DEF BridgeInv, Hellos, HelloMakesReachable, Ids
  <2>. QED BY <2>3, <2>4, <2>5 DEF Hellos
<1>. QED BY <1>1, <1>5, <1>6, <1>7 DEF BridgeInv

LEMMA AttachStep ==
    ASSUME BridgeInv, NEW s \in Sessions, AttachConn(s)
    PROVE  BridgeInv'
<1>1. BridgeTyped' BY DEF BridgeInv, BridgeTyped, AttachConn, Stages
<1>2. \A t \in Sessions : sess'[t] = IF t = s THEN "open" ELSE sess[t]
  BY DEF BridgeInv, BridgeTyped, AttachConn
<1>3. /\ sess[s] = "registered" /\ conns' = conns \cup {s}
      /\ UNCHANGED <<bid, byBrowser, pages, pendingCmds, failing, command, overlapped>>
  BY DEF AttachConn
<1>4. Connected' BY <1>2, <1>3 DEF BridgeInv, Connected
<1>5. Commands' BY <1>3, CommandsStay DEF BridgeInv
<1>6. Hellos'
  <2>1. bid[s] = s /\ s \notin Browsers BY <1>3, Disjoint DEF BridgeInv, Hellos
  <2>2. Alive' = Alive BY <1>2, <1>3 DEF Alive
  <2>3. \A t \in Sessions : sess'[t] \in {"unused", "registered"} => bid'[t] = t
    BY <1>2, <1>3 DEF BridgeInv, Hellos
  <2>4. HelloMakesReachable'
    BY <1>2, <1>3, <2>1 DEF BridgeInv, Hellos, HelloMakesReachable
  <2>. QED BY <1>3, <2>2, <2>3, <2>4 DEF BridgeInv, Hellos
<1>. QED BY <1>1, <1>4, <1>5, <1>6 DEF BridgeInv

LEMMA HelloStep ==
    ASSUME BridgeInv, NEW s \in Sessions, NEW b \in Browsers, Hello(s, b)
    PROVE  BridgeInv'
<1>1. BridgeTyped' BY DEF BridgeInv, BridgeTyped, Hello, Ids
<1>2. \A t \in Sessions : bid'[t] = IF t = s THEN b ELSE bid[t]
  BY DEF BridgeInv, BridgeTyped, Hello
<1>3. \A i \in Ids : byBrowser'[i] = IF i = b THEN s ELSE IF i = bid[s] THEN NoSession ELSE byBrowser[i]
  BY DEF BridgeInv, BridgeTyped, Hello
<1>4. /\ sess[s] = "open" /\ bid[s] \in {s, b}
      /\ UNCHANGED <<sess, pages, conns, pendingCmds, failing, command>>
  BY DEF Hello
<1>5. /\ overlapped \subseteq overlapped'
      /\ \A t \in Alive \ {s} : bid[t] = b => b \in overlapped'
  BY DEF Hello
<1>6. Connected' BY <1>4 DEF BridgeInv, Connected
<1>7. Commands' BY <1>4, CommandsStay DEF BridgeInv
<1>8. Hellos'
  <2>1. Alive' = Alive BY <1>4 DEF Alive
  <2>2. \A t \in Sessions : sess'[t] \in {"unused", "registered"} => bid'[t] = t
    BY <1>2, <1>4 DEF BridgeInv, Hellos
  <2>3. ASSUME NEW t \in Alive', NEW u \in Alive', bid'[t] = bid'[u],
               bid'[t] \in Browsers \ overlapped'
        PROVE  t = u
    <3>1. t \in Sessions /\ u \in Sessions /\ t \in Alive /\ u \in Alive BY <2>1 DEF Alive
    <3>2. CASE t # s /\ u # s
      BY <1>2, <1>5, <2>3, <3>1, <3>2 DEF BridgeInv, Hellos
    <3>3. CASE t = s \/ u = s BY <1>2, <1>5, <2>3, <3>1, <3>3
    <3>. QED BY <3>2, <3>3
  <2>4. ASSUME NEW t \in Sessions, sess'[t] = "open", bid'[t] \in Browsers \ overlapped'
        PROVE  byBrowser'[bid'[t]] = t
    <3>1. CASE t = s BY <1>2, <1>3, <3>1 DEF Ids
    <3>2. CASE t # s
      <4>1. bid'[t] = bid[t] /\ bid[t] \in Browsers \ overlapped /\ t \in Alive
        BY <1>2, <1>4, <1>5, <2>4, <3>2 DEF Alive
      <4>2. byBrowser[bid[t]] = t BY <1>4, <2>4, <4>1 DEF BridgeInv, Hellos, HelloMakesReachable
      <4>3. bid[t] # b BY <1>5, <2>4, <3>2, <4>1
      <4>4. bid[t] # bid[s] BY <1>4, <4>1, <4>3, Disjoint
      <4>. QED BY <1>3, <4>1, <4>2, <4>3, <4>4 DEF Ids
    <3>. QED BY <3>1, <3>2
  <2>5. HelloMakesReachable' BY <1>4, <2>4 DEF BridgeInv, Hellos, HelloMakesReachable
  <2>. QED BY <2>2, <2>3, <2>5 DEF Hellos
<1>. QED BY <1>1, <1>6, <1>7, <1>8 DEF BridgeInv

LEMMA PageSteps ==
    ASSUME BridgeInv, NEW s \in Sessions, NEW b \in Browsers, NEW tab \in BrowserTabs,
           UpsertPage(s, b, tab) \/ RemovePage(s, b, tab)
    PROVE  BridgeInv'
<1>1. UNCHANGED <<sess, bid, byBrowser, conns, pendingCmds, failing, command, overlapped>>
  BY DEF UpsertPage, RemovePage
<1>2. \A p, q \in pages' : p.browser = q.browser /\ p.tab = q.tab => p = q
  <2>1. \A p, q \in pages : p.browser = q.browser /\ p.tab = q.tab => p = q
    BY DEF BridgeInv, Hellos, HelloMakesReachable
  <2>2. CASE RemovePage(s, b, tab) BY <2>1, <2>2 DEF RemovePage
  <2>3. CASE UpsertPage(s, b, tab)
    <3> DEFINE new == [id |-> pageIds', browser |-> b, tab |-> tab]
    <3>1. new.browser = b /\ new.tab = tab OBVIOUS
    <3>2. pages' = pages \cup {new} BY <2>3 DEF UpsertPage
    <3>3. \A p \in pages : p.browser # b \/ p.tab # tab BY <2>3 DEF UpsertPage
    <3> HIDE DEF new
    <3>. QED BY <2>1, <3>1, <3>2, <3>3
  <2>. QED BY <2>2, <2>3
<1>3. HelloMakesReachable' BY <1>1, <1>2 DEF BridgeInv, Hellos, HelloMakesReachable
<1>4. BridgeTyped' /\ Connected' BY <1>1 DEF BridgeInv, BridgeTyped, Connected
<1>5. Commands' BY <1>1, CommandsStay DEF BridgeInv
<1>6. Alive' = Alive BY <1>1 DEF Alive
<1>7. Hellos' BY <1>1, <1>3, <1>6 DEF BridgeInv, Hellos
<1>. QED BY <1>4, <1>5, <1>7 DEF BridgeInv

LEMMA UnregisterStep ==
    ASSUME BridgeInv, NEW s \in Sessions, UnregisterClient(s)
    PROVE  BridgeInv'
<1>1. BridgeTyped' BY DEF BridgeInv, BridgeTyped, UnregisterClient, Stages, Ids
<1>2. \A t \in Sessions : sess'[t] = IF t = s THEN "gone" ELSE sess[t]
  BY DEF BridgeInv, BridgeTyped, UnregisterClient
<1>3. \A i \in Ids : byBrowser'[i] = IF i = bid[s] THEN NoSession ELSE byBrowser[i]
  BY DEF BridgeInv, BridgeTyped, UnregisterClient
<1>4. /\ sess[s] = "detached" /\ pages' \subseteq pages
      /\ UNCHANGED <<bid, conns, pendingCmds, failing, command, overlapped>>
  BY DEF UnregisterClient
<1>5. Connected' BY <1>2, <1>4 DEF BridgeInv, Connected
<1>6. Commands' BY <1>4, CommandsStay DEF BridgeInv
<1>7. Hellos'
  <2>1. Alive' = Alive \ {s} /\ s \in Alive BY <1>2, <1>4 DEF Alive
  <2>2. \A t \in Sessions : sess'[t] \in {"unused", "registered"} => bid'[t] = t
    BY <1>2, <1>4 DEF BridgeInv, Hellos
  <2>3. \A t, u \in Alive' : bid'[t] = bid'[u] /\ bid'[t] \in Browsers \ overlapped' => t = u
    BY <1>4, <2>1 DEF BridgeInv, Hellos
  <2>4. ASSUME NEW t \in Sessions, sess'[t] = "open", bid'[t] \in Browsers \ overlapped'
        PROVE  byBrowser'[bid'[t]] = t
    <3>1. t # s /\ sess[t] = "open" /\ t \in Alive BY <1>2, <2>4 DEF Alive
    <3>2. bid[t] \in Browsers \ overlapped /\ bid'[t] = bid[t] BY <1>4, <2>4
    <3>3. byBrowser[bid[t]] = t BY <3>1, <3>2 DEF BridgeInv, Hellos, HelloMakesReachable
    <3>4. bid[t] # bid[s] BY <2>1, <3>1, <3>2 DEF BridgeInv, Hellos
    <3>. QED BY <1>3, <3>2, <3>3, <3>4 DEF Ids
  <2>5. HelloMakesReachable' BY <1>4, <2>4 DEF BridgeInv, Hellos, HelloMakesReachable
  <2>. QED BY <2>2, <2>3, <2>5 DEF Hellos
<1>. QED BY <1>1, <1>5, <1>6, <1>7 DEF BridgeInv

\* A session goes down: what is in the map is with it now.
LEMMA LeaveStep ==
    ASSUME BridgeInv, NEW s \in Sessions, DetachConn(s)
    PROVE  BridgeInv'
<1>1. BridgeTyped' BY DEF BridgeInv, BridgeTyped, DetachConn, Stages
<1>2. \A t \in Sessions : sess'[t] = IF t = s THEN "detached" ELSE sess[t]
  BY DEF BridgeInv, BridgeTyped, DetachConn
<1>3. \A t \in Sessions : failing'[t] = IF t = s THEN pendingCmds ELSE failing[t]
  BY DEF BridgeInv, BridgeTyped, DetachConn
<1>4. /\ sess[s] = "open" /\ conns' = conns \ {s} /\ pendingCmds' = {}
      /\ UNCHANGED <<bid, byBrowser, pages, command, overlapped>>
  BY DEF DetachConn
<1>5. Connected' BY <1>2, <1>3, <1>4 DEF BridgeInv, Connected
<1>6. failing[s] = {} BY <1>4 DEF BridgeInv, Connected
<1>7. ASSUME NEW c \in Sends PROVE OnePlace(c)' /\ WillHear(c)' /\ command'[c].sends \in {0, 1}
  <2>1. OnePlace(c) /\ WillHear(c) /\ command[c].sends \in {0, 1} BY DEF BridgeInv, Commands
  <2>2. command'[c] = command[c] /\ ~InMap(c)' BY <1>4 DEF InMap
  <2>3. \A t \in Sessions : TakenBy(c, t)' <=> (t = s /\ InMap(c)) \/ TakenBy(c, t)
    BY <1>3, <1>6 DEF TakenBy, InMap
  <2>4. WillHear(c)' BY <2>1, <2>2, <2>3 DEF WillHear
  <2>5. OnePlace(c)' BY <2>1, <2>2, <2>3 DEF OnePlace
  <2>. QED BY <2>1, <2>2, <2>4, <2>5
<1>8. Commands' BY <1>7 DEF Commands
<1>9. Alive' = Alive BY <1>2, <1>4 DEF Alive
<1>10. HelloMakesReachable' BY <1>2, <1>4 DEF BridgeInv, Hellos, HelloMakesReachable
<1>11. Hellos' BY <1>2, <1>4, <1>9, <1>10 DEF BridgeInv, Hellos
<1>. QED BY <1>1, <1>5, <1>8, <1>11 DEF BridgeInv

-----------------------------------------------------------------------------
(***************************************************************************)
(* The steps of a command leave the sessions alone.                        *)
(***************************************************************************)
LEMMA SessionsStay ==
    ASSUME BridgeInv, UNCHANGED <<sess, bid, byBrowser, pages, conns, overlapped>>
    PROVE  Hellos' /\ (UNCHANGED failing => Connected')
<1>1. Alive' = Alive BY DEF Alive
<1>2. HelloMakesReachable' BY DEF BridgeInv, Hellos, HelloMakesReachable
<1>. QED BY <1>1, <1>2 DEF BridgeInv, Hellos, Connected

\* A command that is not touched, when others are.
LEMMA SamePlace ==
    ASSUME NEW d \in Sends, UNCHANGED conns, command'[d] = command[d], InMap(d)' <=> InMap(d),
           \A s \in Sessions : TakenBy(d, s)' <=> TakenBy(d, s),
           OnePlace(d), WillHear(d), command[d].sends \in {0, 1}
    PROVE  OnePlace(d)' /\ WillHear(d)' /\ command'[d].sends \in {0, 1}
<1>1. WillHear(d)' BY DEF WillHear
<1>2. OnePlace(d)'
  <2>1. command'[d].at \in {"idle", "checked"} => ~InMap(d)' /\ command'[d].sends = 0
    BY DEF OnePlace
  <2>2. InMap(d)' => command'[d].session \in conns' /\ command'[d].sends = 0 BY DEF OnePlace
  <2>3. ASSUME NEW s \in Sessions, TakenBy(d, s)'
        PROVE  /\ command'[d].at \notin {"idle", "checked"}
               /\ ~InMap(d)' /\ command'[d].sends = 0
               /\ \A t \in Sessions : TakenBy(d, t)' => t = s
    BY <2>3 DEF OnePlace
  <2>. QED BY <2>1, <2>2, <2>3 DEF OnePlace
<1>. QED BY <1>1, <1>2

LEMMA OneCommand ==
    ASSUME BridgeInv, UNCHANGED <<sess, bid, byBrowser, pages, conns, overlapped, failing>>,
           NEW c \in Sends, NEW k \in CommandShape, command' = [command EXCEPT ![c] = k],
           pendingCmds' \in SUBSET Sends,
           \A d \in Sends \ {c} : d \in pendingCmds' <=> d \in pendingCmds,
           OnePlace(c)', WillHear(c)', k.sends \in {0, 1}
    PROVE  BridgeInv'
<1>1. \A d \in Sends : command'[d] = IF d = c THEN k ELSE command[d]
  BY DEF BridgeInv, BridgeTyped
<1>2. BridgeTyped' BY DEF BridgeInv, BridgeTyped
<1>3. Hellos' /\ Connected' BY SessionsStay
<1>4. ASSUME NEW d \in Sends PROVE OnePlace(d)' /\ WillHear(d)' /\ command'[d].sends \in {0, 1}
  <2>1. CASE d = c BY <1>1, <2>1
  <2>2. CASE d # c
    <3>1. OnePlace(d) /\ WillHear(d) /\ command[d].sends \in {0, 1} BY DEF BridgeInv, Commands
    <3>2. command'[d] = command[d] /\ (InMap(d)' <=> InMap(d)) BY <1>1, <2>2 DEF InMap
    <3>3. \A s \in Sessions : TakenBy(d, s)' <=> TakenBy(d, s) BY DEF TakenBy
    <3>. QED BY <3>1, <3>2, <3>3, SamePlace
  <2>. QED BY <2>1, <2>2
<1>. QED BY <1>2, <1>3, <1>4 DEF BridgeInv, Commands

\* The record of a command, changed in one field or two.
LEMMA AtChanged ==
    ASSUME NEW k \in CommandShape, NEW at \in Places, NEW m, m = [k EXCEPT !.at = at]
    PROVE  /\ m \in CommandShape /\ m.at = at /\ m.session = k.session
           /\ m.channel = k.channel /\ m.sends = k.sends
BY DEF CommandShape

LEMMA CommandOf ==
    ASSUME BridgeInv, NEW c \in Sends
    PROVE  /\ command[c] \in CommandShape /\ command[c].at \in Places
           /\ command[c].sends \in Nat
           /\ OnePlace(c) /\ WillHear(c) /\ command[c].sends \in {0, 1}
           /\ command \in [Sends -> CommandShape] /\ pendingCmds \in SUBSET Sends
BY DEF BridgeInv, BridgeTyped, Commands, CommandShape

LEMMA LookUpStep ==
    ASSUME BridgeInv, NEW c \in Sends, NEW b \in Browsers, LookUp(c, b)
    PROVE  BridgeInv'
<1> DEFINE f == command[c]
           k == [f EXCEPT !.at = "checked", !.session = byBrowser[b]]
<1>1. f \in CommandShape /\ f.at = "idle" /\ f.sends \in Nat /\ OnePlace(c) /\ f.sends \in {0, 1}
  BY CommandOf DEF LookUp
<1>2. byBrowser[b] \in Sessions \cup {NoSession} BY DEF BridgeInv, BridgeTyped, Ids
<1>3. k \in CommandShape /\ k.at = "checked" /\ k.sends = f.sends
  BY <1>1, <1>2 DEF CommandShape, Places
<1>4. command' = [command EXCEPT ![c] = k] BY CommandOf DEF LookUp
<1>5. UNCHANGED <<sess, bid, byBrowser, pages, conns, overlapped, failing, pendingCmds>>
  BY DEF LookUp
<1> HIDE DEF k
<1>6. command'[c] = k BY <1>4, CommandOf
<1>7. OnePlace(c)' /\ WillHear(c)'
  BY <1>1, <1>3, <1>5, <1>6 DEF OnePlace, WillHear, InMap, TakenBy
<1>. QED BY <1>1, <1>3, <1>4, <1>5, <1>7, OneCommand, CommandOf

LEMMA AddStep ==
    ASSUME BridgeInv, NEW c \in Sends, AddPending(c)
    PROVE  BridgeInv'
<1> DEFINE f == command[c]
           at == IF f.session \in conns THEN "written" ELSE "over"
           k == [f EXCEPT !.at = at]
<1>1. /\ f \in CommandShape /\ f.at = "checked" /\ f.sends \in Nat /\ OnePlace(c)
      /\ f.sends \in {0, 1}
  BY CommandOf DEF AddPending
<1>2. /\ k \in CommandShape /\ k.at = at /\ k.session = f.session /\ k.sends = f.sends
  BY <1>1, AtChanged DEF Places
<1>3. command' = [command EXCEPT ![c] = k] BY DEF AddPending
<1>4. UNCHANGED <<sess, bid, byBrowser, pages, conns, overlapped, failing>> BY DEF AddPending
<1>5. pendingCmds' = IF f.session \in conns THEN pendingCmds \cup {c} ELSE pendingCmds
  BY DEF AddPending
<1> HIDE DEF k
<1>6. command'[c] = k BY <1>3, CommandOf
<1>7. OnePlace(c)' /\ WillHear(c)'
  BY <1>1, <1>2, <1>4, <1>5, <1>6 DEF OnePlace, WillHear, InMap, TakenBy
<1>8. pendingCmds' \in SUBSET Sends /\ \A d \in Sends \ {c} : d \in pendingCmds' <=> d \in pendingCmds
  BY <1>5, CommandOf
<1>. QED BY <1>1, <1>2, <1>3, <1>4, <1>7, <1>8, OneCommand

\* A step that moves the caller on and may take its command out of the map.
LEMMA CallerStep ==
    ASSUME BridgeInv, NEW c \in Sends, NEW at \in {"waiting", "over"},
           command' = [command EXCEPT ![c].at = at],
           UNCHANGED <<sess, bid, byBrowser, pages, conns, overlapped, failing>>,
           command[c].at \in {"written", "waiting"},
           pendingCmds' = pendingCmds \/ (at = "over" /\ pendingCmds' = pendingCmds \ {c})
    PROVE  BridgeInv'
<1> DEFINE f == command[c]
           k == [f EXCEPT !.at = at]
<1>1. f \in CommandShape /\ f.sends \in Nat /\ OnePlace(c) /\ WillHear(c) /\ f.sends \in {0, 1}
  BY CommandOf
<1>2. /\ k \in CommandShape /\ k.at = at /\ k.session = f.session /\ k.sends = f.sends
      /\ k.channel = f.channel
  BY <1>1, AtChanged DEF Places
<1>3. command' = [command EXCEPT ![c] = k] OBVIOUS
<1> HIDE DEF k
<1>4. command'[c] = k BY <1>3, CommandOf
<1>5. InMap(c)' => InMap(c) BY DEF InMap
<1>6. \A s \in Sessions : TakenBy(c, s)' <=> TakenBy(c, s) BY DEF TakenBy
<1>7. at = "waiting" => (InMap(c)' <=> InMap(c)) BY DEF InMap
<1>8. WillHear(c)' BY <1>1, <1>2, <1>4, <1>6, <1>7 DEF WillHear
<1>9. OnePlace(c)' BY <1>1, <1>2, <1>4, <1>5, <1>6 DEF OnePlace
<1>10. pendingCmds' \in SUBSET Sends /\ \A d \in Sends \ {c} : d \in pendingCmds' <=> d \in pendingCmds
  BY CommandOf
<1>. QED BY <1>1, <1>2, <1>3, <1>8, <1>9, <1>10, OneCommand

LEMMA CallerSteps ==
    ASSUME BridgeInv, NEW c \in Sends,
           (\E ok \in BOOLEAN : WriteCommand(c, ok)) \/ Receive(c) \/ GiveUp(c)
    PROVE  BridgeInv'
<1>1. CASE WriteCommand(c, TRUE) BY <1>1, CallerStep DEF WriteCommand
<1>2. CASE WriteCommand(c, FALSE) BY <1>2, CallerStep DEF WriteCommand
<1>3. CASE Receive(c) BY <1>3, CallerStep DEF Receive
<1>4. CASE GiveUp(c) BY <1>4, CallerStep DEF GiveUp
<1>. QED BY <1>1, <1>2, <1>3, <1>4

\* What is put into a channel is put there once.
LEMMA DeliverStep ==
    ASSUME BridgeInv, NEW s \in Sessions, NEW c \in Sends, NEW what \in {"result", "error"},
           Deliver(s, c, what)
    PROVE  BridgeInv'
<1> DEFINE n == command[c].sends + 1
           k == [command[c] EXCEPT !.channel = what, !.sends = n]
<1>1. InMap(c) BY DEF Deliver, InMap
<1>2. OnePlace(c) BY CommandOf
<1>3. command[c].sends = 0 /\ command[c].at \notin {"idle", "checked"}
  BY <1>1, <1>2 DEF OnePlace
<1>4. k \in CommandShape /\ k.at = command[c].at /\ k.channel # "" /\ k.sends = 1
  <2>1. n = 1 BY <1>3
  <2>2. command[c] \in CommandShape BY CommandOf
  <2>3. what \in Arrivals \ {""} BY DEF Arrivals
  <2> HIDE DEF n
  <2>. QED BY <2>1, <2>2, <2>3 DEF CommandShape
<1>5. command' = [command EXCEPT ![c] = k] BY DEF Deliver, Put
<1>6. /\ pendingCmds' = pendingCmds \ {c}
      /\ UNCHANGED <<sess, bid, byBrowser, pages, conns, overlapped, failing>>
  BY DEF Deliver
<1> HIDE DEF k
<1>7. command'[c] = k BY <1>5, CommandOf
<1>8. OnePlace(c)' /\ WillHear(c)'
  BY <1>1, <1>2, <1>3, <1>4, <1>6, <1>7 DEF OnePlace, WillHear, InMap, TakenBy
<1>9. pendingCmds' \in SUBSET Sends /\ \A d \in Sends \ {c} : d \in pendingCmds' <=> d \in pendingCmds
  BY <1>6, CommandOf
<1>10. k.sends \in {0, 1} BY <1>4
<1>. QED BY <1>4, <1>5, <1>6, <1>8, <1>9, <1>10, OneCommand

LEMMA FailStep ==
    ASSUME BridgeInv, NEW s \in Sessions, NEW c \in Sends, FailOne(s, c)
    PROVE  BridgeInv'
<1> DEFINE n == command[c].sends + 1
           k == [command[c] EXCEPT !.channel = "disconnected", !.sends = n]
<1>1. TakenBy(c, s) BY DEF FailOne, TakenBy
<1>2. OnePlace(c) BY CommandOf
<1>3. /\ command[c].sends = 0 /\ command[c].at \notin {"idle", "checked"} /\ ~InMap(c)
      /\ \A t \in Sessions : TakenBy(c, t) => t = s
  BY <1>1, <1>2 DEF OnePlace
<1>4. k \in CommandShape /\ k.at = command[c].at /\ k.channel # "" /\ k.sends = 1
  <2>1. n = 1 BY <1>3
  <2>2. command[c] \in CommandShape BY CommandOf
  <2> HIDE DEF n
  <2>. QED BY <2>1, <2>2 DEF CommandShape, Arrivals
<1>5. command' = [command EXCEPT ![c] = k] BY DEF FailOne, Put
<1>6. UNCHANGED <<sess, bid, byBrowser, pages, conns, overlapped, pendingCmds>> BY DEF FailOne
<1>7. \A t \in Sessions : failing'[t] = IF t = s THEN failing[t] \ {c} ELSE failing[t]
  BY DEF FailOne, BridgeInv, BridgeTyped
<1> HIDE DEF k
<1>8. \A d \in Sends : command'[d] = IF d = c THEN k ELSE command[d] BY <1>5, CommandOf
<1>9. BridgeTyped'
  <2>1. command' \in [Sends -> CommandShape] BY <1>4, <1>5, CommandOf
  <2>2. failing' \in [Sessions -> SUBSET Sends] BY DEF FailOne, BridgeInv, BridgeTyped
  <2>. QED BY <1>6, <2>1, <2>2 DEF BridgeInv, BridgeTyped
<1>10. Hellos' BY <1>6, SessionsStay
<1>11. Connected' BY <1>6, <1>7 DEF BridgeInv, Connected
<1>12. ASSUME NEW d \in Sends PROVE OnePlace(d)' /\ WillHear(d)' /\ command'[d].sends \in {0, 1}
  <2>1. InMap(d)' <=> InMap(d) BY <1>6 DEF InMap
  <2>2. CASE d = c
    <3>1. \A t \in Sessions : ~TakenBy(c, t)' BY <1>3, <1>7 DEF TakenBy
    <3>2. /\ command'[d].at \notin {"idle", "checked"} /\ command'[d].channel # ""
          /\ command'[d].sends \in {0, 1} /\ ~InMap(d)'
      BY <1>3, <1>4, <1>8, <2>1, <2>2
    <3>. QED BY <2>2, <3>1, <3>2 DEF OnePlace, WillHear
  <2>3. CASE d # c
    <3>1. \A t \in Sessions : TakenBy(d, t)' <=> TakenBy(d, t) BY <1>7, <2>3 DEF TakenBy
    <3>2. OnePlace(d) /\ WillHear(d) /\ command[d].sends \in {0, 1} BY CommandOf
    <3>3. command'[d] = command[d] BY <1>8, <2>3
    <3>. QED BY <1>6, <2>1, <3>1, <3>2, <3>3 DEF OnePlace, WillHear
  <2>. QED BY <2>2, <2>3
<1>. QED BY <1>9, <1>10, <1>11, <1>12 DEF BridgeInv, Commands

-----------------------------------------------------------------------------
LEMMA BridgeStep == BridgeInv /\ [BridgeNext]_bridgeVars => BridgeInv'
<1> SUFFICES ASSUME BridgeInv, [BridgeNext]_bridgeVars PROVE BridgeInv' OBVIOUS
<1>1. CASE UNCHANGED bridgeVars
  <2>1. UNCHANGED <<sess, bid, byBrowser, pages, conns, overlapped, failing, pendingCmds, command>>
    BY <1>1 DEF bridgeVars
  <2>2. Hellos' /\ Connected' BY <2>1, SessionsStay
  <2>3. Commands' BY <2>1, CommandsStay DEF BridgeInv
  <2>. QED BY <2>1, <2>2, <2>3 DEF BridgeInv, BridgeTyped
<1>2. CASE \E s \in Sessions : RegisterClient(s) \/ AttachConn(s) \/ DetachConn(s) \/ UnregisterClient(s)
  BY <1>2, RegisterStep, AttachStep, LeaveStep, UnregisterStep
<1>3. CASE \E s \in Sessions, b \in Browsers : Hello(s, b) BY <1>3, HelloStep
<1>4. CASE \E s \in Sessions, b \in Browsers, tab \in BrowserTabs :
             UpsertPage(s, b, tab) \/ RemovePage(s, b, tab)
  BY <1>4, PageSteps
<1>5. CASE \E s \in Sessions, c \in Sends : FailOne(s, c) BY <1>5, FailStep
<1>6. CASE \E s \in Sessions, c \in Sends, what \in {"result", "error"} : Deliver(s, c, what)
  BY <1>6, DeliverStep
<1>7. CASE \E c \in Sends, b \in Browsers : OpenTab(c, b) \/ \E p \in pages : ActOnPage(c, b, p)
  BY <1>7, LookUpStep DEF OpenTab, ActOnPage
<1>8. CASE \E c \in Sends : AddPending(c) BY <1>8, AddStep
<1>9. CASE \E c \in Sends : (\E ok \in BOOLEAN : WriteCommand(c, ok)) \/ Receive(c) \/ GiveUp(c)
  BY <1>9, CallerSteps
<1>. QED BY <1>1, <1>2, <1>3, <1>4, <1>5, <1>6, <1>7, <1>8, <1>9 DEF BridgeNext

\* For any number of browsers that connect, reconnect and break, and of commands that are
\* answered, late or never, time out or are cancelled: a channel gets one answer, nobody
\* waits in vain, and a browser that said hello and was alone is found.
THEOREM BridgeHolds == BridgeSpec => []BridgeAnswers
<1>1. BridgeInit => BridgeInv BY InitBridge
<1>2. BridgeInv /\ [BridgeNext]_bridgeVars => BridgeInv' BY BridgeStep
<1>3. ASSUME BridgeInv PROVE BridgeAnswers
  <2>1. ASSUME NEW c \in Sends PROVE command[c].sends <= 1
    <3>1. command[c].sends = 0 \/ command[c].sends = 1 BY <1>3 DEF BridgeInv, Commands
    <3>. QED BY <3>1
  <2>2. ASSUME NEW c \in Sends, command[c].at = "waiting"
        PROVE  \/ c \in pendingCmds /\ command[c].session \in conns
               \/ command[c].channel # ""
               \/ \E s \in Sessions : c \in failing[s]
    <3>1. OnePlace(c) /\ WillHear(c) BY <1>3 DEF BridgeInv, Commands
    <3>. QED BY <2>2, <3>1 DEF OnePlace, WillHear, InMap, TakenBy
  <2>3. HelloMakesReachable BY <1>3 DEF BridgeInv, Hellos
  <2>. QED BY <2>1, <2>2, <2>3 DEF BridgeAnswers, CommandsEndOnce
<1>. QED BY <1>1, <1>2, <1>3, PTL DEF BridgeSpec

-----------------------------------------------------------------------------
(***************************************************************************)
(* The pool, for any conversations, calls, tabs and number of sessions:    *)
(* sharing one browser process neither leaks it nor takes it away from a   *)
(* conversation that still uses it.                                        *)
(***************************************************************************)

(***************************************************************************)
(* The inductive invariant.                                                *)
(***************************************************************************)
Wheres == {"idle", "ready", "found", "drained", "closing", "killing", "over"}

CallShape ==
    [at : Wheres, conv : Convs \cup {""}, verb : Verbs \cup {""}, tab : Nat, held : Nat,
     closing : SUBSET Nat, killing : Nat]

ContextShape == [browser : Nat, pages : SUBSET Nat, open : BOOLEAN]

PoolTyped ==
    /\ pool \in [Convs -> Nat]
    /\ chromium \in Nat /\ booted \in Nat /\ contexts \in Nat
    /\ contexts <= MaxContexts /\ chromium <= booted
    /\ running \in SUBSET (1..booted)
    /\ context \in [1..MaxContexts -> ContextShape]
    /\ toolCall \in [ToolCalls -> CallShape]

TabsTyped ==
    /\ \E n \in Nat : DOMAIN tabOwner = 1..n
    /\ \A p \in DOMAIN tabOwner : tabOwner[p] \in Convs

\* A session belongs to one conversation, and browsers are numbered in their order.
Owned ==
    /\ \A v \in Convs : pool[v] <= contexts
    /\ \A v, w \in Convs : pool[v] = pool[w] /\ pool[v] # 0 => v = w

\* What a call that closes has taken is no longer in the pool.
Taken(call) ==
    /\ call.closing # {} => call.at = "closing"
    /\ call.killing # 0 => call.at \in {"closing", "killing"}
    /\ \A s \in call.closing : s \in 1..contexts /\ \A v \in Convs : pool[v] # s
    /\ call.killing # 0 => call.killing <= booted /\ call.killing # chromium

\* What a call holds is its conversation's session, or was until that was asked to go.
Holds(call) ==
    /\ call.at \in {"ready", "found"} =>
        /\ call.conv \in Convs
        /\ call.held \in 1..contexts
        /\ \A w \in Convs : pool[w] = call.held => w = call.conv
        /\ pool[call.conv] = call.held \/ call.conv \in asked
    /\ call.at = "drained" => call.conv \in Convs /\ call.conv \in asked

PoolInv ==
    /\ PoolTyped /\ TabsTyped
    /\ Owned
    /\ \A c \in ToolCalls : Taken(toolCall[c])
    /\ \A c \in ToolCalls : Holds(toolCall[c])
    /\ SessionsAreUsable /\ NothingLeaks /\ TabsStay

-----------------------------------------------------------------------------
LEMMA FreeShape == Free \in CallShape /\ CallOver \in CallShape
BY DEF Free, CallOver, CallShape, Wheres

LEMMA PoolInitially == PoolInit => PoolInv
<1> SUFFICES ASSUME PoolInit PROVE PoolInv
  OBVIOUS
<1> USE PoolAssumption DEF PoolInit
<1>1. PoolTyped
  BY FreeShape DEF PoolTyped, ContextShape
<1>2. TabsTyped
  <2>1. DOMAIN tabOwner = 1..0
    OBVIOUS
  <2> QED BY <2>1 DEF TabsTyped
<1>3. Owned
  BY DEF Owned
<1>4. \A c \in ToolCalls : Taken(toolCall[c]) /\ Holds(toolCall[c])
  BY DEF Taken, Holds, Free
<1>5. SessionsAreUsable /\ NothingLeaks /\ TabsStay
  BY DEF SessionsAreUsable, NothingLeaks, TabsStay
<1> QED BY <1>1, <1>2, <1>3, <1>4, <1>5 DEF PoolInv

-----------------------------------------------------------------------------
(***************************************************************************)
(* The steps.                                                              *)
(***************************************************************************)
\* A call that moves on, nothing else.
LEMMA CallMoves ==
  ASSUME PoolInv, NEW c \in ToolCalls, NEW k \in CallShape,
         toolCall' = [toolCall EXCEPT ![c] = k],
         UNCHANGED <<pool, chromium, running, booted, contexts, context, tabOwner, asked>>,
         Taken(k), Holds(k), k.closing = toolCall[c].closing, k.killing = toolCall[c].killing
  PROVE  PoolInv'
<1> USE DEF PoolInv
<1>0. toolCall \in [ToolCalls -> CallShape]
  BY DEF PoolTyped
<1>1. \A d \in ToolCalls : toolCall'[d] = IF d = c THEN k ELSE toolCall[d]
  BY <1>0
<1>2. PoolTyped' /\ TabsTyped' /\ Owned'
  BY <1>0 DEF PoolTyped, TabsTyped, Owned
<1>3. \A d \in ToolCalls : Taken(toolCall'[d]) /\ Holds(toolCall'[d])
  BY <1>1
<1>4. (\A d \in ToolCalls : Taken(toolCall[d]))'
  BY <1>3 DEF Taken
<1>5. (\A d \in ToolCalls : Holds(toolCall[d]))'
  BY <1>3 DEF Holds
<1>6. SessionsAreUsable' /\ TabsStay'
  BY DEF SessionsAreUsable, TabsStay, Usable
<1>7. NothingLeaks'
  <2>1. \A d \in ToolCalls : toolCall'[d].closing = toolCall[d].closing
                            /\ toolCall'[d].killing = toolCall[d].killing
    BY <1>1
  <2> QED BY <2>1 DEF NothingLeaks
<1> QED BY <1>2, <1>4, <1>5, <1>6, <1>7

\* A call that is over, or is between two of its steps, holds nothing it has to close.
LEMMA CallEnds ==
  ASSUME PoolInv, NEW c \in ToolCalls, Finish(c),
         UNCHANGED <<pool, chromium, running, booted, contexts, context, tabOwner, asked>>,
         toolCall[c].at \notin {"closing", "killing"}
  PROVE  PoolInv'
<1>1. CallOver.at = "over" /\ CallOver.closing = {} /\ CallOver.killing = 0
  BY DEF CallOver, Free
<1>2. Taken(CallOver) /\ Holds(CallOver)
  BY <1>1 DEF Taken, Holds
<1>3. Taken(toolCall[c])
  BY DEF PoolInv
<1>4. toolCall[c].closing = {} /\ toolCall[c].killing = 0
  BY <1>3 DEF Taken
<1>5. CallOver.closing = {} /\ CallOver.killing = 0
  BY <1>1
<1>6. toolCall' = [toolCall EXCEPT ![c] = CallOver]
  BY DEF Finish
<1>7. CallOver.closing = toolCall[c].closing /\ CallOver.killing = toolCall[c].killing
  BY <1>4, <1>5
<1> QED BY <1>2, <1>6, <1>7, CallMoves, FreeShape

\* The call that has found or made its session.
ReadyCall(v, verb, tab, s) ==
    [at |-> "ready", conv |-> v, verb |-> verb, tab |-> tab, held |-> s,
     closing |-> {}, killing |-> 0]

LEMMA ReadyCalls ==
  ASSUME NEW v \in Convs, NEW verb \in Verbs, NEW tab \in 0..MaxTabs, NEW s \in Nat
  PROVE  LET k == ReadyCall(v, verb, tab, s)
         IN k \in CallShape /\ k.at = "ready" /\ k.conv = v /\ k.held = s
            /\ k.closing = {} /\ k.killing = 0
<1>1. ReadyCall(v, verb, tab, s) \in CallShape
  <2>0. tab \in Nat
    OBVIOUS
  <2>1. v \in Convs \cup {""} 
    OBVIOUS
  <2>3. verb \in Verbs \cup {""}
    OBVIOUS
  <2>2. "ready" \in Wheres /\ {} \in SUBSET Nat /\ 0 \in Nat
    BY DEF Wheres
  <2> QED BY <2>0, <2>1, <2>3, <2>2 DEF ReadyCall, CallShape
<1>2. LET k == ReadyCall(v, verb, tab, s)
      IN k.at = "ready" /\ k.conv = v /\ k.held = s /\ k.closing = {} /\ k.killing = 0
  BY DEF ReadyCall
<1> QED BY <1>1, <1>2

LEMMA SessionStep ==
  ASSUME PoolInv, NEW c \in ToolCalls, NEW v \in Convs, NEW verb \in Verbs, NEW tab \in 0..MaxTabs,
         Session(c, v, verb, tab)
  PROVE  PoolInv'
<1> DEFINE k == ReadyCall(v, verb, tab, pool[v])
<1>1. pool[v] \in Nat
  BY DEF PoolInv, PoolTyped
<1>2. /\ k \in CallShape /\ k.at = "ready" /\ k.conv = v /\ k.held = pool[v]
      /\ k.closing = {} /\ k.killing = 0
  BY <1>1, ReadyCalls
<1>3. toolCall' = [toolCall EXCEPT ![c] = k]
  BY DEF Session, Ready, ReadyCall
<1> HIDE DEF k
<1>4. Taken(k) /\ Holds(k)
  BY <1>1, <1>2 DEF Taken, Holds, PoolInv, Owned, PoolTyped, Session
<1>5. Taken(toolCall[c])
  BY DEF PoolInv
<1>6. k.closing = toolCall[c].closing /\ k.killing = toolCall[c].killing
  BY <1>2, <1>5 DEF Taken, Session
<1> QED BY <1>2, <1>3, <1>4, <1>6, CallMoves DEF Session

\* Before the browser is up there is no session.
LEMMA NoBrowserNoSession ==
  ASSUME PoolInv, chromium = 0, NEW v \in Convs
  PROVE  pool[v] = 0
BY DEF PoolInv, PoolTyped, SessionsAreUsable, Usable

\* The browser boots and the session does not come to be.
LEMMA BootFails ==
  ASSUME PoolInv, NEW c \in ToolCalls, toolCall[c].at = "idle", chromium = 0,
         chromium' = booted + 1, running' = running \cup {booted + 1}, booted' = booted + 1,
         Finish(c), UNCHANGED <<pool, contexts, context, tabOwner, asked>>
  PROVE  PoolInv'
<1> USE DEF PoolInv
<1>1. toolCall \in [ToolCalls -> CallShape] /\ toolCall' = [toolCall EXCEPT ![c] = CallOver]
  BY DEF PoolTyped, Finish
<1>2. \A d \in ToolCalls : toolCall'[d] = IF d = c THEN CallOver ELSE toolCall[d]
  BY <1>1
<1>3. CallOver.at = "over" /\ CallOver.closing = {} /\ CallOver.killing = 0
  BY DEF CallOver, Free
<1>4. toolCall[c].closing = {} /\ toolCall[c].killing = 0
  BY DEF Taken
<1>5. toolCall' \in [ToolCalls -> CallShape]
  BY <1>1, FreeShape
<1>6. PoolTyped' /\ TabsTyped' /\ Owned'
  BY <1>5 DEF PoolTyped, TabsTyped, Owned
<1>7. (\A d \in ToolCalls : Taken(toolCall[d]))'
  <2> SUFFICES ASSUME NEW d \in ToolCalls PROVE Taken(toolCall[d])'
    OBVIOUS
  <2>1. Taken(toolCall[d])
    OBVIOUS
  <2>2. toolCall[d].killing \in Nat /\ booted \in Nat
    BY <1>1 DEF PoolTyped, CallShape
  <2> QED BY <1>2, <1>3, <2>1, <2>2 DEF Taken
<1>8. (\A d \in ToolCalls : Holds(toolCall[d]))'
  BY <1>2, <1>3 DEF Holds
<1>9. SessionsAreUsable' /\ TabsStay'
  BY NoBrowserNoSession DEF SessionsAreUsable, TabsStay
<1>10. NothingLeaks'
  <2>1. \A d \in ToolCalls : /\ toolCall'[d].closing = toolCall[d].closing
                             /\ toolCall'[d].killing = toolCall[d].killing
    BY <1>2, <1>3, <1>4
  <2>2. \A b \in running : b # 0
    BY DEF PoolTyped
  <2> QED BY <2>1, <2>2 DEF NothingLeaks
<1> QED BY <1>6, <1>7, <1>8, <1>9, <1>10

\* The session comes to be, in the browser that runs or in one that boots.
LEMMA SessionIsMade ==
  ASSUME PoolInv, NEW c \in ToolCalls, NEW v \in Convs, NEW verb \in Verbs, NEW tab \in 0..MaxTabs,
         NEW b \in Nat, b = IF chromium = 0 THEN booted + 1 ELSE chromium,
         NEW s \in Nat, s = contexts + 1, s <= MaxContexts,
         toolCall[c].at = "idle", pool[v] = 0,
         chromium' = b, running' = running \cup {b}, booted' = IF chromium = 0 THEN b ELSE booted,
         contexts' = s,
         context' = [context EXCEPT ![s] = [browser |-> b, pages |-> {}, open |-> TRUE]],
         pool' = [pool EXCEPT ![v] = s],
         Ready(c, v, verb, tab, s),
         UNCHANGED <<tabOwner, asked>>
  PROVE  PoolInv'
<1> USE DEF PoolInv
<1> DEFINE k == ReadyCall(v, verb, tab, s)
<1>1. toolCall \in [ToolCalls -> CallShape] /\ toolCall' = [toolCall EXCEPT ![c] = k]
  BY DEF PoolTyped, Ready, ReadyCall
<1>2. k \in CallShape /\ k.at = "ready" /\ k.conv = v /\ k.held = s /\ k.closing = {} /\ k.killing = 0
  BY ReadyCalls
<1> HIDE DEF k
<1>3. \A d \in ToolCalls : toolCall'[d] = IF d = c THEN k ELSE toolCall[d]
  BY <1>1
<1>4. \A d \in ToolCalls : /\ toolCall[d] \in CallShape
                           /\ toolCall[d].held \in Nat /\ toolCall[d].killing \in Nat
                           /\ toolCall[d].closing \in SUBSET Nat
  BY <1>1 DEF CallShape
<1>5. /\ contexts \in Nat /\ s \in 1..MaxContexts /\ booted \in Nat /\ chromium \in Nat
      /\ pool \in [Convs -> Nat] /\ context \in [1..MaxContexts -> ContextShape]
      /\ running \in SUBSET (1..booted) /\ chromium <= booted /\ b \in 1..booted'
  BY DEF PoolTyped
<1>6. \A w \in Convs : pool'[w] = IF w = v THEN s ELSE pool[w]
  BY <1>5
<1>7. \A x \in 1..MaxContexts : x # s => context'[x] = context[x]
  BY <1>5
<1>8. context'[s].browser = b /\ context'[s].open = TRUE
  BY <1>5
<1>9. \A w \in Convs : pool[w] <= contexts /\ pool[w] \in Nat /\ pool[w] # s
  BY <1>5 DEF Owned
<1>10. PoolTyped'
  <2>1. toolCall' \in [ToolCalls -> CallShape]
    BY <1>1, <1>2
  <2>2. context' \in [1..MaxContexts -> ContextShape]
    BY <1>5 DEF ContextShape
  <2>3. running' \in SUBSET (1..booted') /\ chromium' <= booted' /\ booted' \in Nat
    BY <1>5
  <2>4. pool' \in [Convs -> Nat]
    BY <1>5
  <2> QED BY <2>1, <2>2, <2>3, <2>4 DEF PoolTyped
<1>11. TabsTyped' /\ Owned'
  BY <1>5, <1>6, <1>9 DEF TabsTyped, Owned
<1>12. (\A d \in ToolCalls : Taken(toolCall[d]))'
  <2> SUFFICES ASSUME NEW d \in ToolCalls PROVE Taken(toolCall[d])'
    OBVIOUS
  <2>1. Taken(toolCall[d])
    OBVIOUS
  <2>2. CASE d = c
    BY <1>2, <1>3, <2>2 DEF Taken
  <2>3. CASE d # c
    BY <1>3, <1>4, <1>5, <1>6, <2>1, <2>3 DEF Taken
  <2> QED BY <2>2, <2>3
<1>13. (\A d \in ToolCalls : Holds(toolCall[d]))'
  <2> SUFFICES ASSUME NEW d \in ToolCalls PROVE Holds(toolCall[d])'
    OBVIOUS
  <2>1. Holds(toolCall[d])
    OBVIOUS
  <2>2. CASE d = c
    BY <1>2, <1>3, <1>5, <1>6, <1>9, <2>2 DEF Holds
  <2>3. CASE d # c
    BY <1>3, <1>4, <1>5, <1>6, <1>9, <2>1, <2>3 DEF Holds
  <2> QED BY <2>2, <2>3
<1>14. SessionsAreUsable'
  <2>1. chromium' \in running'
    OBVIOUS
  <2>2. ASSUME NEW w \in Convs, pool'[w] # 0
        PROVE  context'[pool'[w]].open /\ context'[pool'[w]].browser = b
    <3>1. CASE w = v
      BY <1>6, <1>8, <3>1
    <3>2. CASE w # v
      <4>1. pool'[w] = pool[w] /\ pool[w] # 0
        BY <1>6, <2>2, <3>2
      <4>2. chromium # 0 /\ context[pool[w]].open /\ context[pool[w]].browser = chromium
        BY <4>1, NoBrowserNoSession DEF SessionsAreUsable, Usable
      <4>3. pool[w] \in 1..MaxContexts /\ pool[w] # s
        BY <1>5, <1>9, <4>1, PoolAssumption
      <4> QED BY <1>7, <4>1, <4>2, <4>3
    <3> QED BY <3>1, <3>2
  <2> QED BY <2>1, <2>2 DEF SessionsAreUsable, Usable
<1>15. NothingLeaks'
  <2>1. \A d \in ToolCalls : toolCall[d].closing = {} \/ d # c
    BY DEF Taken
  <2>2. toolCall[c].closing = {} /\ toolCall[c].killing = 0
    BY DEF Taken
  <2>3. \A d \in ToolCalls : /\ toolCall'[d].closing = toolCall[d].closing
                             /\ toolCall'[d].killing = toolCall[d].killing
    BY <1>2, <1>3, <2>2
  <2>4. ASSUME NEW x \in 1..contexts', context'[x].open
        PROVE  (\E w \in Convs : pool'[w] = x) \/ \E d \in ToolCalls : x \in toolCall'[d].closing
    <3>1. CASE x = s
      BY <1>6, <3>1
    <3>2. CASE x # s
      <4>1. x \in 1..contexts /\ x \in 1..MaxContexts
        BY <1>5, <3>2, PoolAssumption
      <4>2. context[x].open
        BY <1>7, <2>4, <3>2, <4>1
      <4>3. (\E w \in Convs : pool[w] = x) \/ \E d \in ToolCalls : x \in toolCall[d].closing
        BY <4>1, <4>2 DEF NothingLeaks
      <4> QED BY <1>6, <2>3, <4>1, <4>3
    <3> QED BY <3>1, <3>2
  <2>5. ASSUME NEW x \in running'
        PROVE  x = chromium' \/ \E d \in ToolCalls : toolCall'[d].killing = x
    BY <1>5, <2>3 DEF NothingLeaks
  <2> QED BY <2>4, <2>5 DEF NothingLeaks
<1>16. TabsStay'
  <2> SUFFICES ASSUME NEW p \in DOMAIN tabOwner
               PROVE  tabOwner[p] \in asked
                      \/ (pool'[tabOwner[p]] # 0 /\ p \in context'[pool'[tabOwner[p]]].pages)
    BY DEF TabsStay
  <2>1. CASE tabOwner[p] \in asked
    BY <2>1
  <2>2. CASE tabOwner[p] \notin asked
    <3>1. tabOwner[p] \in Convs
      BY DEF TabsTyped
    <3>2. pool[tabOwner[p]] # 0 /\ p \in context[pool[tabOwner[p]]].pages
      BY <2>2 DEF TabsStay
    <3>3. tabOwner[p] # v /\ pool[tabOwner[p]] \in 1..MaxContexts /\ pool[tabOwner[p]] # s
      BY <1>5, <1>9, <3>1, <3>2, PoolAssumption
    <3> QED BY <1>6, <1>7, <3>1, <3>2, <3>3
  <2> QED BY <2>1, <2>2
<1> QED BY <1>10, <1>11, <1>12, <1>13, <1>14, <1>15, <1>16

LEMMA NewSessionStep ==
  ASSUME PoolInv, NEW c \in ToolCalls, NEW v \in Convs, NEW verb \in Verbs, NEW tab \in 0..MaxTabs,
         NewSession(c, v, verb, tab)
  PROVE  PoolInv'
<1> DEFINE b == IF chromium = 0 THEN booted + 1 ELSE chromium
           s == contexts + 1
<1>1. b \in Nat /\ s \in Nat
  BY DEF PoolInv, PoolTyped
<1>2. /\ toolCall[c].at = "idle" /\ pool[v] = 0 /\ s <= MaxContexts
      /\ chromium' = b /\ running' = running \cup {b}
      /\ booted' = IF chromium = 0 THEN b ELSE booted
      /\ UNCHANGED <<tabOwner, asked>>
  BY DEF NewSession
<1>3. CASE Finish(c) /\ UNCHANGED <<pool, contexts, context>>
  <2>1. CASE chromium = 0
    BY <1>2, <1>3, <2>1, BootFails
  <2>2. CASE chromium # 0
    <3>1. chromium \in running
      BY <2>2 DEF PoolInv, SessionsAreUsable
    <3>2. UNCHANGED <<chromium, running, booted>>
      BY <1>2, <2>2, <3>1
    <3> QED BY <1>2, <1>3, <3>2, CallEnds
  <2> QED BY <2>1, <2>2
<1>4. CASE /\ contexts' = s
           /\ context' = [context EXCEPT ![s] = [browser |-> b, pages |-> {}, open |-> TRUE]]
           /\ pool' = [pool EXCEPT ![v] = s]
           /\ Ready(c, v, verb, tab, s)
  BY <1>1, <1>2, <1>4, SessionIsMade
<1> QED BY <1>3, <1>4 DEF NewSession

\* The verbs that change nothing an invariant speaks of.
LEMMA TameStep ==
  ASSUME PoolInv, NEW c \in ToolCalls,
         \/ ListPages(c) \/ ReadState(c) \/ Click(c)
         \/ \E v \in Convs : DriverMissing(c, v)
  PROVE  PoolInv'
<1>1. toolCall[c].at \notin {"closing", "killing"}
  BY DEF ListPages, ReadState, Click, DriverMissing, At
<1>2. Finish(c) /\ UNCHANGED <<pool, chromium, running, booted, contexts, context, tabOwner, asked>>
  BY DEF ListPages, ReadState, Click, DriverMissing
<1> QED BY <1>1, <1>2, CallEnds

LEMMA FindPageStep ==
  ASSUME PoolInv, NEW c \in ToolCalls, FindPage(c)
  PROVE  PoolInv'
<1>1. toolCall[c].at = "ready"
  BY DEF FindPage, At
<1>2. UNCHANGED <<pool, chromium, running, booted, contexts, context, tabOwner, asked>>
  BY DEF FindPage
<1>3. CASE Finish(c)
  BY <1>1, <1>2, <1>3, CallEnds
<1>4. CASE toolCall' = [toolCall EXCEPT ![c].at = "found"]
  <2> DEFINE k == [toolCall[c] EXCEPT !.at = "found"]
  <2>1. toolCall[c] \in CallShape /\ Taken(toolCall[c]) /\ Holds(toolCall[c])
    BY DEF PoolInv, PoolTyped
  <2>2. k \in CallShape
    BY <2>1 DEF CallShape, Wheres
  <2>3. /\ k.at = "found" /\ k.conv = toolCall[c].conv /\ k.held = toolCall[c].held
        /\ k.closing = toolCall[c].closing /\ k.killing = toolCall[c].killing
    BY <2>1 DEF CallShape
  <2>4. toolCall' = [toolCall EXCEPT ![c] = k]
    BY <1>4
  <2> HIDE DEF k
  <2>5. Taken(k)
    BY <1>1, <2>1, <2>3 DEF Taken
  <2>6. Holds(k)
    BY <1>1, <2>1, <2>3 DEF Holds
  <2> QED BY <1>2, <2>2, <2>3, <2>4, <2>5, <2>6, CallMoves
<1> QED BY <1>3, <1>4 DEF FindPage

\* What a ready call holds is usable or was asked to be closed; pages are added to and
\* taken from it, and the pages of all other sessions stay.
LEMMA PagesChange ==
  ASSUME PoolInv, NEW s \in 1..contexts, NEW P \in SUBSET Nat,
         context' = [context EXCEPT ![s].pages = P]
  PROVE  /\ context' \in [1..MaxContexts -> ContextShape]
         /\ \A x \in 1..MaxContexts :
              /\ context'[x].open = context[x].open
              /\ context'[x].browser = context[x].browser
              /\ context'[x].pages = IF x = s THEN P ELSE context[x].pages
<1>1. context \in [1..MaxContexts -> ContextShape] /\ s \in 1..MaxContexts
  BY PoolAssumption DEF PoolInv, PoolTyped
<1> QED BY <1>1 DEF ContextShape

\* The call that changes pages is over or drained; only the tabs have to be looked at.
LEMMA PagesStep ==
  ASSUME PoolInv, NEW c \in ToolCalls, NEW s \in 1..contexts, NEW P \in SUBSET Nat,
         context' = [context EXCEPT ![s].pages = P] \/ UNCHANGED context,
         toolCall[c].at = "ready", NEW k \in CallShape,
         toolCall' = [toolCall EXCEPT ![c] = k],
         k.closing = {}, k.killing = 0,
         k.at = "over" \/ (k.at = "drained" /\ k.conv \in Convs /\ k.conv \in asked'),
         asked \subseteq asked',
         UNCHANGED <<pool, chromium, running, booted, contexts>>,
         TabsTyped', TabsStay'
  PROVE  PoolInv'
<1>3. /\ context' \in [1..MaxContexts -> ContextShape]
      /\ \A x \in 1..MaxContexts : context'[x].open = context[x].open
                                   /\ context'[x].browser = context[x].browser
  <2>1. CASE context' = [context EXCEPT ![s].pages = P]
    BY <2>1, PagesChange
  <2>2. CASE UNCHANGED context
    BY <2>2 DEF PoolInv, PoolTyped
  <2> QED BY <2>1, <2>2
<1> USE DEF PoolInv
<1>1. toolCall \in [ToolCalls -> CallShape]
  BY DEF PoolTyped
<1>2. \A d \in ToolCalls : toolCall'[d] = IF d = c THEN k ELSE toolCall[d]
  BY <1>1
<1>4. contexts <= MaxContexts /\ contexts \in Nat /\ pool \in [Convs -> Nat]
  BY DEF PoolTyped
<1>5. \A w \in Convs : pool[w] # 0 => pool[w] \in 1..MaxContexts
  BY <1>4, PoolAssumption DEF Owned
<1>6. PoolTyped' /\ Owned'
  <2>1. toolCall' \in [ToolCalls -> CallShape]
    BY <1>1
  <2> QED BY <1>3, <2>1 DEF PoolTyped, Owned
<1>7. (\A d \in ToolCalls : Taken(toolCall[d]))'
  BY <1>2 DEF Taken
<1>8. (\A d \in ToolCalls : Holds(toolCall[d]))'
  BY <1>2 DEF Holds
<1>9. SessionsAreUsable'
  BY <1>3, <1>5 DEF SessionsAreUsable, Usable
<1>10. NothingLeaks'
  <2>1. toolCall[c].closing = {} /\ toolCall[c].killing = 0
    BY DEF Taken
  <2>2. \A d \in ToolCalls : /\ toolCall'[d].closing = toolCall[d].closing
                             /\ toolCall'[d].killing = toolCall[d].killing
    BY <1>2, <2>1
  <2>3. \A x \in 1..contexts : x \in 1..MaxContexts
    BY <1>4, PoolAssumption
  <2> QED BY <1>3, <2>2, <2>3 DEF NothingLeaks
<1> QED BY <1>6, <1>7, <1>8, <1>9, <1>10

LEMMA OpenPageStep ==
  ASSUME PoolInv, NEW c \in ToolCalls, OpenPage(c)
  PROVE  PoolInv'
<1> DEFINE s == toolCall[c].held
           v == toolCall[c].conv
<1>1. /\ toolCall[c].at = "ready" /\ Finish(c)
      /\ UNCHANGED <<pool, chromium, running, booted, contexts, snapshots, asked>>
  BY DEF OpenPage, At
<1>2. CASE UNCHANGED <<tabOwner, context>>
  BY <1>1, <1>2, CallEnds
<1>3. CASE /\ NumTabs < MaxTabs
           /\ tabOwner' = [p \in 1..NumTabs + 1 |-> IF p \in DOMAIN tabOwner THEN tabOwner[p] ELSE v]
           /\ context' = [context EXCEPT ![s].pages = @ \cup {NumTabs + 1}]
  <2>1. /\ s \in 1..contexts /\ v \in Convs
        /\ pool[v] = s \/ v \in asked
    BY <1>1 DEF PoolInv, Holds
  <2>2. PICK n \in Nat : DOMAIN tabOwner = 1..n
    BY DEF PoolInv, TabsTyped
  <2>3. NumTabs = n
    BY <2>2, FS_Interval DEF NumTabs
  <2>4. /\ DOMAIN tabOwner' = 1..(n + 1)
        /\ \A p \in 1..n : tabOwner'[p] = tabOwner[p]
        /\ tabOwner'[n + 1] = v
    BY <1>3, <2>2, <2>3
  <2>5. TabsTyped'
    BY <2>1, <2>2, <2>4 DEF PoolInv, TabsTyped
  <2>6. context \in [1..MaxContexts -> ContextShape] /\ s \in 1..MaxContexts
        /\ pool \in [Convs -> Nat] /\ contexts \in Nat /\ contexts <= MaxContexts
    BY <2>1, PoolAssumption DEF PoolInv, PoolTyped
  <2>7. context[s].pages \cup {n + 1} \in SUBSET Nat
    BY <2>6 DEF ContextShape
  <2>8. context' = [context EXCEPT ![s].pages = context[s].pages \cup {n + 1}]
    BY <1>3, <2>3
  <2>9. \A x \in 1..MaxContexts :
          context'[x].pages = IF x = s THEN context[s].pages \cup {n + 1} ELSE context[x].pages
    BY ZenonT(40), <2>1, <2>7, <2>8, PagesChange
  <2>10. TabsStay'
    <3> SUFFICES ASSUME NEW p \in 1..(n + 1)
                 PROVE  tabOwner'[p] \in asked
                        \/ (pool[tabOwner'[p]] # 0 /\ p \in context'[pool[tabOwner'[p]]].pages)
      BY <1>1, <2>4 DEF TabsStay
    <3>1. CASE p = n + 1
      BY <2>1, <2>4, <2>6, <2>9, <3>1
    <3>2. CASE p \in 1..n
      <4>1. tabOwner'[p] = tabOwner[p] /\ tabOwner[p] \in Convs
        BY <2>2, <2>4, <3>2 DEF PoolInv, TabsTyped
      <4>2. CASE tabOwner[p] \in asked
        BY <4>1, <4>2
      <4>3. CASE tabOwner[p] \notin asked
        <5>1. pool[tabOwner[p]] # 0 /\ p \in context[pool[tabOwner[p]]].pages
          BY <2>2, <3>2, <4>3 DEF PoolInv, TabsStay
        <5>2. pool[tabOwner[p]] \in 1..MaxContexts
          BY <2>6, <4>1, <5>1, PoolAssumption DEF PoolInv, Owned
        <5> QED BY <2>9, <4>1, <5>1, <5>2
      <4> QED BY <4>2, <4>3
    <3> QED BY <2>2, <3>1, <3>2
  <2>11. CallOver \in CallShape /\ CallOver.at = "over" /\ CallOver.closing = {} /\ CallOver.killing = 0
    BY FreeShape DEF CallOver, Free
  <2>12. toolCall' = [toolCall EXCEPT ![c] = CallOver] /\ asked' = asked
    BY <1>1 DEF Finish
  <2> HIDE DEF s
  <2> QED BY <1>1, <2>1, <2>5, <2>7, <2>8, <2>10, <2>11, <2>12, PagesStep
<1> QED BY <1>2, <1>3 DEF OpenPage

LEMMA CloseTabStep ==
  ASSUME PoolInv, NEW c \in ToolCalls, CloseTab(c)
  PROVE  PoolInv'
<1> DEFINE s == toolCall[c].held
           v == toolCall[c].conv
           t == toolCall[c].tab
           rest == context[s].pages \ {t}
           k == [toolCall[c] EXCEPT !.at = "drained", !.held = 0, !.tab = 0]
<1>1. toolCall[c].at = "ready" /\ UNCHANGED <<pool, chromium, running, booted, contexts, tabOwner>>
  BY DEF CloseTab, At
<1>2. CASE t \notin context[s].pages
  BY <1>1, <1>2, CallEnds DEF CloseTab
<1>3. CASE t \in context[s].pages
  <2>1. /\ context' = [context EXCEPT ![s].pages = rest]
        /\ asked' = asked \cup {v}
        /\ Finish(c) \/ toolCall' = [toolCall EXCEPT ![c].at = "drained", ![c].held = 0, ![c].tab = 0]
    BY <1>3 DEF CloseTab
  <2>2. toolCall[c] \in CallShape /\ Taken(toolCall[c]) /\ Holds(toolCall[c])
        /\ context \in [1..MaxContexts -> ContextShape] /\ pool \in [Convs -> Nat]
        /\ contexts \in Nat /\ contexts <= MaxContexts
    BY DEF PoolInv, PoolTyped
  <2>3. /\ s \in 1..contexts /\ v \in Convs
        /\ \A w \in Convs : pool[w] = s => w = v
    BY <1>1, <2>2 DEF Holds
  <2>4. rest \in SUBSET Nat /\ s \in 1..MaxContexts
    BY <2>2, <2>3, PoolAssumption DEF ContextShape
  <2>5. \A x \in 1..MaxContexts : x # s => context'[x].pages = context[x].pages
    BY <2>1, <2>3, <2>4, PagesChange
  <2>6. TabsTyped'
    BY <1>1 DEF PoolInv, TabsTyped
  <2>7. TabsStay'
    <3> SUFFICES ASSUME NEW p \in DOMAIN tabOwner, tabOwner[p] \notin asked'
                 PROVE  pool[tabOwner[p]] # 0 /\ p \in context'[pool[tabOwner[p]]].pages
      BY <1>1 DEF TabsStay
    <3>1. tabOwner[p] \in Convs /\ tabOwner[p] # v /\ tabOwner[p] \notin asked
      BY <2>1 DEF PoolInv, TabsTyped
    <3>2. pool[tabOwner[p]] # 0 /\ p \in context[pool[tabOwner[p]]].pages
      BY <3>1 DEF PoolInv, TabsStay
    <3>3. pool[tabOwner[p]] \in 1..MaxContexts /\ pool[tabOwner[p]] # s
      BY <2>2, <2>3, <3>1, <3>2, PoolAssumption DEF PoolInv, Owned
    <3> QED BY <2>5, <3>2, <3>3
  <2>8. CASE Finish(c)
    <3>1. CallOver \in CallShape /\ CallOver.at = "over" /\ CallOver.closing = {} /\ CallOver.killing = 0
      BY FreeShape DEF CallOver, Free
    <3>2. toolCall' = [toolCall EXCEPT ![c] = CallOver]
      BY <2>8 DEF Finish
    <3> HIDE DEF s, rest
    <3> QED BY <1>1, <2>1, <2>3, <2>4, <2>6, <2>7, <3>1, <3>2, PagesStep
  <2>9. CASE toolCall' = [toolCall EXCEPT ![c].at = "drained", ![c].held = 0, ![c].tab = 0]
    <3>1. k \in CallShape
      BY <2>2 DEF CallShape, Wheres
    <3>2. k.at = "drained" /\ k.conv = v /\ k.closing = {} /\ k.killing = 0
      BY <1>1, <2>2 DEF CallShape, Taken
    <3>3. toolCall' = [toolCall EXCEPT ![c] = k]
      BY <2>9
    <3>4. k.conv \in Convs /\ k.conv \in asked' /\ asked \subseteq asked'
      BY <2>1, <2>3, <3>2
    <3> HIDE DEF s, rest, k
    <3> QED BY <1>1, <2>1, <2>3, <2>4, <2>6, <2>7, <3>1, <3>2, <3>3, <3>4, PagesStep
  <2> QED BY <2>1, <2>8, <2>9
<1> QED BY <1>2, <1>3

\* The session leaves the pool in the hands of the call, and with the last one the browser.
LEMMA DetachStep ==
  ASSUME PoolInv, NEW c \in ToolCalls, NEW v \in Convs, Detach(c, v),
         toolCall[c].at \in {"idle", "drained"}, asked \subseteq asked', v \in asked'
  PROVE  PoolInv'
<1> USE DEF PoolInv
<1> DEFINE k == [Free EXCEPT !.at = "closing", !.closing = {pool[v]} \ {0},
                             !.killing = IF LastSession(v) THEN chromium ELSE 0]
<1>1. /\ pool' = [pool EXCEPT ![v] = 0]
      /\ chromium' = IF LastSession(v) THEN 0 ELSE chromium
      /\ toolCall' = [toolCall EXCEPT ![c] = k]
      /\ UNCHANGED <<running, booted, contexts, context, tabOwner>>
  BY DEF Detach
<1>2. /\ pool \in [Convs -> Nat] /\ chromium \in Nat /\ booted \in Nat /\ contexts \in Nat
      /\ chromium <= booted /\ toolCall \in [ToolCalls -> CallShape]
      /\ contexts <= MaxContexts
  BY DEF PoolTyped
<1>3. k \in CallShape
  BY <1>2, FreeShape DEF CallShape, Wheres
<1>4. /\ k.at = "closing" /\ k.closing = {pool[v]} \ {0}
      /\ k.killing = IF LastSession(v) THEN chromium ELSE 0
  BY DEF Free
<1> HIDE DEF k
<1>5. \A d \in ToolCalls : toolCall'[d] = IF d = c THEN k ELSE toolCall[d]
  BY <1>1, <1>2
<1>6. \A w \in Convs : pool'[w] = IF w = v THEN 0 ELSE pool[w]
  BY <1>1, <1>2
<1>7. toolCall[c].closing = {} /\ toolCall[c].killing = 0
  BY DEF Taken
<1>8. PoolTyped'
  <2>1. toolCall' \in [ToolCalls -> CallShape] /\ pool' \in [Convs -> Nat]
    BY <1>1, <1>2, <1>3
  <2> QED BY <1>1, <2>1 DEF PoolTyped
<1>9. TabsTyped' /\ Owned'
  BY <1>1, <1>2, <1>6 DEF TabsTyped, Owned
<1>10. (\A d \in ToolCalls : Taken(toolCall[d]))'
  <2> SUFFICES ASSUME NEW d \in ToolCalls PROVE Taken(toolCall[d])'
    OBVIOUS
  <2>1. CASE d = c
    <3>1. \A x \in k.closing : x \in 1..contexts /\ \A w \in Convs : pool'[w] # x
      BY <1>2, <1>4, <1>6 DEF Owned
    <3>2. k.killing # 0 => k.killing <= booted /\ k.killing # chromium'
      BY <1>1, <1>2, <1>4
    <3> QED BY <1>1, <1>4, <1>5, <2>1, <3>1, <3>2 DEF Taken
  <2>2. CASE d # c
    <3>1. Taken(toolCall[d]) /\ toolCall'[d] = toolCall[d]
      BY <1>5, <2>2
    <3>2. \A x \in toolCall[d].closing : x \in 1..contexts /\ \A w \in Convs : pool'[w] # x
      BY <1>2, <1>6, <3>1 DEF Taken
    <3>3. toolCall[d].killing # 0 => toolCall[d].killing <= booted /\ toolCall[d].killing # chromium'
      BY <1>1, <3>1 DEF Taken
    <3> QED BY <1>1, <3>1, <3>2, <3>3 DEF Taken
  <2> QED BY <2>1, <2>2
<1>11. (\A d \in ToolCalls : Holds(toolCall[d]))'
  <2> SUFFICES ASSUME NEW d \in ToolCalls PROVE Holds(toolCall[d])'
    OBVIOUS
  <2>1. CASE d = c
    BY <1>4, <1>5, <2>1 DEF Holds
  <2>2. CASE d # c
    <3>1. Holds(toolCall[d]) /\ toolCall'[d] = toolCall[d]
      BY <1>5, <2>2
    <3> QED BY <1>1, <1>2, <1>6, <3>1 DEF Holds
  <2> QED BY <2>1, <2>2
<1>12. SessionsAreUsable'
  BY <1>1, <1>2, <1>6 DEF SessionsAreUsable, Usable, LastSession
<1>13. NothingLeaks'
  <2>1. ASSUME NEW x \in 1..contexts, context[x].open
        PROVE  (\E w \in Convs : pool'[w] = x) \/ \E d \in ToolCalls : x \in toolCall'[d].closing
    <3>1. CASE \E w \in Convs : pool[w] = x
      <4>1. PICK w \in Convs : pool[w] = x
        BY <3>1
      <4>2. CASE w = v
        BY <1>4, <1>5, <4>1, <4>2
      <4>3. CASE w # v
        BY <1>6, <4>1, <4>3
      <4> QED BY <4>2, <4>3
    <3>2. CASE \E d \in ToolCalls : x \in toolCall[d].closing
      BY <1>5, <1>7, <3>2
    <3> QED BY <2>1, <3>1, <3>2 DEF NothingLeaks
  <2>2. ASSUME NEW b \in running
        PROVE  b = chromium' \/ \E d \in ToolCalls : toolCall'[d].killing = b
    <3>1. CASE b = chromium
      BY <1>1, <1>4, <1>5, <3>1
    <3>2. CASE \E d \in ToolCalls : toolCall[d].killing = b
      <4>1. b # 0
        BY DEF PoolTyped
      <4> QED BY <1>5, <1>7, <3>2, <4>1
    <3> QED BY <3>1, <3>2 DEF NothingLeaks
  <2> QED BY <1>1, <2>1, <2>2 DEF NothingLeaks
<1>14. TabsStay'
  BY <1>1, <1>6 DEF TabsStay, TabsTyped
<1> QED BY <1>8, <1>9, <1>10, <1>11, <1>12, <1>13, <1>14

LEMMA CloseContextsStep ==
  ASSUME PoolInv, NEW c \in ToolCalls, CloseContexts(c)
  PROVE  PoolInv'
<1> USE DEF PoolInv
<1> DEFINE k == [toolCall[c] EXCEPT !.at = "killing", !.closing = {}]
<1>1. /\ toolCall[c].at = "closing"
      /\ toolCall' = [toolCall EXCEPT ![c] = k]
      /\ UNCHANGED <<pool, chromium, running, booted, contexts, tabOwner, asked>>
  BY DEF CloseContexts
<1>2. /\ toolCall \in [ToolCalls -> CallShape] /\ context \in [1..MaxContexts -> ContextShape]
      /\ pool \in [Convs -> Nat] /\ contexts \in Nat /\ contexts <= MaxContexts
  BY DEF PoolTyped
<1>3. k \in CallShape
  BY <1>2 DEF CallShape, Wheres
<1>4. k.at = "killing" /\ k.closing = {} /\ k.killing = toolCall[c].killing
  BY <1>2 DEF CallShape
<1> HIDE DEF k
<1>5. \A d \in ToolCalls : toolCall'[d] = IF d = c THEN k ELSE toolCall[d]
  BY <1>1, <1>2
<1>6. \A x \in 1..MaxContexts :
        context'[x] = IF x \in toolCall[c].closing
                      THEN [context[x] EXCEPT !.pages = {}, !.open = FALSE] ELSE context[x]
  BY <1>2 DEF CloseContexts
<1>7. context' \in [1..MaxContexts -> ContextShape]
  <2>1. context' = [x \in 1..MaxContexts |->
            IF x \in toolCall[c].closing
            THEN [context[x] EXCEPT !.pages = {}, !.open = FALSE] ELSE context[x]]
    BY <1>2 DEF CloseContexts
  <2>2. \A x \in 1..MaxContexts : [context[x] EXCEPT !.pages = {}, !.open = FALSE] \in ContextShape
    BY <1>2 DEF ContextShape
  <2> QED BY <1>2, <2>1, <2>2
<1>8. PoolTyped' /\ TabsTyped' /\ Owned'
  <2>1. toolCall' \in [ToolCalls -> CallShape]
    BY <1>1, <1>2, <1>3
  <2> QED BY <1>1, <1>7, <2>1 DEF PoolTyped, TabsTyped, Owned
<1>9. (\A d \in ToolCalls : Taken(toolCall[d]))'
  BY <1>1, <1>4, <1>5 DEF Taken
<1>10. (\A d \in ToolCalls : Holds(toolCall[d]))'
  BY <1>1, <1>4, <1>5 DEF Holds
<1>11. \A w \in Convs : pool[w] # 0 => context'[pool[w]] = context[pool[w]]
  <2> SUFFICES ASSUME NEW w \in Convs, pool[w] # 0 PROVE context'[pool[w]] = context[pool[w]]
    OBVIOUS
  <2>1. pool[w] \notin toolCall[c].closing
    BY DEF Taken
  <2>2. pool[w] \in 1..MaxContexts
    BY <1>2, PoolAssumption DEF Owned
  <2> QED BY <1>6, <2>1, <2>2
<1>12. SessionsAreUsable' /\ TabsStay'
  BY <1>1, <1>11 DEF SessionsAreUsable, Usable, TabsStay, TabsTyped
<1>13. NothingLeaks'
  <2>1. ASSUME NEW x \in 1..contexts, context'[x].open
        PROVE  (\E w \in Convs : pool[w] = x) \/ \E d \in ToolCalls : x \in toolCall'[d].closing
    <3>1. x \in 1..MaxContexts
      BY <1>2, PoolAssumption
    <3>2. CASE x \in toolCall[c].closing
      <4>1. context'[x] = [context[x] EXCEPT !.pages = {}, !.open = FALSE] /\ context[x] \in ContextShape
        BY <1>2, <1>6, <3>1, <3>2
      <4> QED BY <2>1, <4>1 DEF ContextShape
    <3>3. CASE x \notin toolCall[c].closing
      <4>1. context[x].open
        BY <1>6, <2>1, <3>1, <3>3
      <4> QED BY <1>5, <3>3, <4>1 DEF NothingLeaks
    <3> QED BY <3>2, <3>3
  <2>2. \A d \in ToolCalls : toolCall'[d].killing = toolCall[d].killing
    BY <1>4, <1>5
  <2> QED BY <1>1, <2>1, <2>2 DEF NothingLeaks
<1> QED BY <1>8, <1>9, <1>10, <1>12, <1>13

LEMMA KillBrowserStep ==
  ASSUME PoolInv, NEW c \in ToolCalls, KillBrowser(c)
  PROVE  PoolInv'
<1> USE DEF PoolInv
<1>1. /\ toolCall[c].at = "killing"
      /\ running' = running \ {toolCall[c].killing}
      /\ toolCall' = [toolCall EXCEPT ![c] = CallOver]
      /\ UNCHANGED <<pool, chromium, booted, contexts, context, tabOwner, asked>>
  BY DEF KillBrowser, Finish
<1>2. toolCall \in [ToolCalls -> CallShape] /\ running \in SUBSET (1..booted)
  BY DEF PoolTyped
<1>3. CallOver \in CallShape /\ CallOver.at = "over" /\ CallOver.closing = {} /\ CallOver.killing = 0
  BY FreeShape DEF CallOver, Free
<1>4. \A d \in ToolCalls : toolCall'[d] = IF d = c THEN CallOver ELSE toolCall[d]
  BY <1>1, <1>2
<1>5. PoolTyped' /\ TabsTyped' /\ Owned'
  <2>1. toolCall' \in [ToolCalls -> CallShape]
    BY <1>1, <1>2, <1>3
  <2> QED BY <1>1, <2>1 DEF PoolTyped, TabsTyped, Owned
<1>6. (\A d \in ToolCalls : Taken(toolCall[d]))'
  BY <1>1, <1>3, <1>4 DEF Taken
<1>7. (\A d \in ToolCalls : Holds(toolCall[d]))'
  BY <1>1, <1>3, <1>4 DEF Holds
<1>8. toolCall[c].closing = {} /\ (toolCall[c].killing # 0 => toolCall[c].killing # chromium)
  BY <1>1 DEF Taken
<1>9. chromium # 0 => chromium \in running'
  BY <1>1, <1>8 DEF SessionsAreUsable
<1>10. SessionsAreUsable'
  BY <1>1, <1>9, NoBrowserNoSession DEF SessionsAreUsable, Usable
<1>11. NothingLeaks'
  BY <1>1, <1>4, <1>8 DEF NothingLeaks
<1>12. TabsStay'
  BY <1>1 DEF TabsStay
<1> QED BY <1>5, <1>6, <1>7, <1>10, <1>11, <1>12

-----------------------------------------------------------------------------
LEMMA PoolStep == PoolInv /\ [PoolNext]_poolVars => PoolInv'
<1> SUFFICES ASSUME PoolInv, [PoolNext]_poolVars PROVE PoolInv'
  OBVIOUS
<1>1. ASSUME NEW c \in ToolCalls, CallStep(c) PROVE PoolInv'
  <2>1. CASE OpenPage(c)
    BY <2>1, OpenPageStep
  <2>2. CASE ListPages(c) \/ ReadState(c) \/ Click(c) \/ \E v \in Convs : DriverMissing(c, v)
    BY <2>2, TameStep
  <2>3. CASE CloseTab(c)
    BY <2>3, CloseTabStep
  <2>4. CASE FindPage(c)
    BY <2>4, FindPageStep
  <2>5. CASE OnEmpty(c)
    <3>1. toolCall[c].at = "drained" /\ Detach(c, toolCall[c].conv) /\ asked' = asked
      BY <2>5 DEF OnEmpty
    <3>2. toolCall[c].conv \in Convs /\ toolCall[c].conv \in asked
      BY <3>1 DEF PoolInv, Holds
    <3> QED BY <3>1, <3>2, DetachStep
  <2>6. CASE CloseContexts(c)
    BY <2>6, CloseContextsStep
  <2>7. CASE KillBrowser(c)
    BY <2>7, KillBrowserStep
  <2>8. CASE \E v \in Convs : CloseSession(c, v)
    <3>1. PICK v \in Convs : CloseSession(c, v)
      BY <2>8
    <3>2. toolCall[c].at = "idle" /\ asked' = asked \cup {v} /\ Detach(c, v)
      BY <3>1 DEF CloseSession
    <3> QED BY <3>2, DetachStep
  <2>9. CASE \E v \in Convs, verb \in Verbs, tab \in 0..MaxTabs :
               Session(c, v, verb, tab) \/ NewSession(c, v, verb, tab)
    BY <2>9, SessionStep, NewSessionStep
  <2> QED BY <1>1, <2>1, <2>2, <2>3, <2>4, <2>5, <2>6, <2>7, <2>8, <2>9 DEF CallStep
<1>2. CASE UNCHANGED poolVars
  BY <1>2 DEF poolVars, PoolInv, PoolTyped, TabsTyped, Owned, Taken, Holds,
              SessionsAreUsable, Usable, NothingLeaks, TabsStay
<1> QED BY <1>1, <1>2 DEF PoolNext

\* Sharing one browser process neither leaks it nor takes it away from a conversation that
\* still uses it, for any conversations, calls, tabs and number of sessions.
THEOREM PoolSound == PoolSpec => []PoolIsSound
<1>1. PoolInv => PoolIsSound
  BY DEF PoolInv, PoolIsSound
<1> QED BY <1>1, PoolInitially, PoolStep, PTL DEF PoolSpec
=============================================================================
