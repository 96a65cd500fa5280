---------------------------- MODULE Stores_proofs ----------------------------
(***************************************************************************)
(* Proofs about what is kept on disk and in tables: the tokens of MCP      *)
(* servers, installed skills, and projects with their conversations.       *)
(***************************************************************************)
EXTENDS OAuthTokens, SkillHub, Projects, TLAPS

-----------------------------------------------------------------------------
(***************************************************************************)
(* Tokens, for any number of requests, flows, tokens and revokes: an       *)
(* authorization is redeemed once, and only the named windows leave a      *)
(* token where it should not be.                                           *)
(***************************************************************************)

(***************************************************************************)
(* The inductive invariant.                                                *)
(***************************************************************************)
Ats == {"idle", "register", "open", "exchange", "store", "keep", "forget", "load", "fill",
        "drop", "delete"}
RequestShape == [op : Ops, at : Ats, client : Nat, token : Nat, flow : Nat]
RowShape == [client : Nat, token : Nat]
FlowShape == [flow : Nat, client : Nat, old : BOOLEAN]

Typed ==
    /\ req \in [Requests -> RequestShape]
    /\ row \in RowShape /\ cache \in Nat
    /\ pending \in SUBSET FlowShape
    /\ flowsStarted \in Nat /\ flowsStarted <= MaxFlows /\ minted \in Nat
    /\ redeemed \in [1..MaxFlows -> {0, 1}]

\* Which steps an operation has.
Fits(q) ==
    /\ q.op = "idle" <=> q.at = "idle"
    /\ q.op = "authorize" <=> q.at \in {"register", "open"}
    /\ q.op = "complete" => q.at \in {"exchange", "store", "keep", "forget"}
    /\ q.op = "get" => q.at \in {"load", "fill"}
    /\ q.op = "revoke" => q.at \in {"forget", "drop", "delete"}

\* A flow that is not redeemed yet is in one place: with the request that opens it, pending,
\* or with the callback that has taken it.
Bears(q) == q.op = "authorize" \/ (q.op = "complete" /\ q.at = "exchange")

Flows ==
    /\ \A f \in 1..MaxFlows : f > flowsStarted => redeemed[f] = 0
    /\ \A p \in pending : p.flow \in 1..flowsStarted /\ redeemed[p.flow] = 0
    /\ \A p, q \in pending : p.flow = q.flow => p = q
    /\ \A r \in Requests : Bears(req[r]) =>
        /\ req[r].flow \in 1..flowsStarted /\ redeemed[req[r].flow] = 0
        /\ \A p \in pending : p.flow # req[r].flow
        /\ \A s \in Requests : Bears(req[s]) /\ req[s].flow = req[r].flow => s = r

\* Outside the windows: what is about to be cached is the token of the row, and whoever has a
\* token, or a flow that may give one, has the user's consent.
Consented ==
    /\ row.token # NoToken => consent
    /\ cache # NoToken => consent
    /\ pending # {} => consent
    /\ \A r \in Requests : req[r].at \in {"exchange", "store", "keep", "fill"} => consent

Clean ==
    /\ cache = NoToken \/ cache = row.token \/ \E r \in Requests : req[r].at = "keep"
    /\ \A r \in Requests : req[r].at \in {"keep", "fill"} => req[r].token = row.token

OAuthInv ==
    /\ Typed
    /\ \A r \in Requests : Fits(req[r])
    /\ Flows
    /\ raced \/ (Consented /\ Clean)

-----------------------------------------------------------------------------
(***************************************************************************)
(* What the parts need of a step.                                          *)
(***************************************************************************)
LEMMA RequestOf ==
    ASSUME OAuthInv, NEW r \in Requests
    PROVE  /\ req[r] \in RequestShape /\ Fits(req[r])
           /\ req[r].op \in Ops /\ req[r].at \in Ats /\ req[r].client \in Nat
           /\ req[r].token \in Nat /\ req[r].flow \in Nat
           /\ req \in [Requests -> RequestShape]
BY DEF OAuthInv, Typed, RequestShape

\* A step of one request.
LEMMA OneRequest ==
    ASSUME OAuthInv, NEW r \in Requests, NEW k \in RequestShape, Fits(k),
           req' = [req EXCEPT ![r] = k]
    PROVE  /\ req' \in [Requests -> RequestShape]
           /\ \A s \in Requests : req'[s] = IF s = r THEN k ELSE req[s]
           /\ \A s \in Requests : Fits(req'[s])
BY RequestOf

\* Flows stay where they are, or are dropped.
LEMMA FlowsStay ==
    ASSUME OAuthInv, NEW r \in Requests, NEW k \in RequestShape,
           \A s \in Requests : req'[s] = IF s = r THEN k ELSE req[s],
           Bears(k) => Bears(req[r]) /\ k.flow = req[r].flow,
           pending' \subseteq pending, UNCHANGED <<flowsStarted, redeemed>>
    PROVE  Flows'
<1>1. Flows BY DEF OAuthInv
<1>2. \A s \in Requests : Bears(req'[s]) => Bears(req[s]) /\ req'[s].flow = req[s].flow
  OBVIOUS
<1>3. ASSUME NEW s \in Requests, Bears(req'[s])
      PROVE  /\ req'[s].flow \in 1..flowsStarted' /\ redeemed'[req'[s].flow] = 0
             /\ \A p \in pending' : p.flow # req'[s].flow
             /\ \A t \in Requests : Bears(req'[t]) /\ req'[t].flow = req'[s].flow => t = s
  BY <1>1, <1>2, <1>3 DEF Flows
<1>. QED BY <1>1, <1>3 DEF Flows

\* A step of a request that moves on without a flow and leaves row, cache and consent alone.
LEMMA PlainStep ==
    ASSUME OAuthInv, NEW r \in Requests, NEW k \in RequestShape, Fits(k),
           req' = [req EXCEPT ![r] = k], UNCHANGED <<row, cache, consent, raced>>,
           Typed', Flows', pending' # {} => pending # {} \/ consent,
           req[r].at # "keep",
           raced \/ k.at \notin {"exchange", "store", "keep", "fill"}
                 \/ (consent /\ (k.at \in {"keep", "fill"} => k.token = row.token))
    PROVE  OAuthInv'
<1>1. \A s \in Requests : req'[s] = IF s = r THEN k ELSE req[s] BY OneRequest
<1>2. \A s \in Requests : Fits(req'[s]) BY OneRequest
<1>3. ASSUME ~raced PROVE (Consented /\ Clean)'
  <2>1. Consented /\ Clean BY <1>3 DEF OAuthInv
  <2>2. Consented' BY <1>1, <1>3, <2>1 DEF Consented
  <2>3. \A s \in Requests : req[s].at = "keep" => req'[s].at = "keep" BY <1>1
  <2>4. Clean' BY <1>1, <1>3, <2>1, <2>3 DEF Clean
  <2>. QED BY <2>2, <2>4
<1>. QED BY <1>2, <1>3 DEF OAuthInv

LEMMA TypedFrom ==
    ASSUME OAuthInv, req' \in [Requests -> RequestShape], row' \in RowShape, cache' \in Nat,
           pending' \in SUBSET FlowShape, flowsStarted' \in Nat, flowsStarted' <= MaxFlows,
           minted' \in Nat, redeemed' \in [1..MaxFlows -> {0, 1}]
    PROVE  Typed'
BY DEF Typed

\* The record of a request, changed in a field or two.
LEMMA AtChanged ==
    ASSUME NEW q \in RequestShape, NEW at \in Ats, NEW k, k = [q EXCEPT !.at = at]
    PROVE  /\ k \in RequestShape /\ k.op = q.op /\ k.at = at /\ k.token = q.token
           /\ k.flow = q.flow /\ k.client = q.client
BY DEF RequestShape

LEMMA IdleShape == Idle \in RequestShape /\ Fits(Idle) /\ ~Bears(Idle) /\ Idle.at = "idle"
BY DEF Idle, RequestShape, Fits, Bears, Ops, Ats, NoClient, NoToken

LEMMA Started ==
    ASSUME OAuthInv
    PROVE  /\ flowsStarted \in Nat /\ flowsStarted <= MaxFlows /\ MaxFlows \in Nat
           /\ ConfigFor \in Nat /\ row \in RowShape /\ cache \in Nat /\ row.token \in Nat
           /\ pending \in SUBSET FlowShape /\ minted \in Nat
           /\ redeemed \in [1..MaxFlows -> {0, 1}]
<1>1. row \in RowShape BY DEF OAuthInv, Typed
<1>2. row.token \in Nat /\ row.client \in Nat BY <1>1 DEF RowShape
<1>3. ConfigFor \in Nat BY <1>2, OAuthAssumption DEF ConfigFor, OAuthAssumption
<1>. QED BY <1>1, <1>2, <1>3, OAuthAssumption DEF OAuthInv, Typed, OAuthAssumption

-----------------------------------------------------------------------------
(***************************************************************************)
(* Flows.                                                                  *)
(***************************************************************************)
LEMMA AuthorizeStep ==
    ASSUME OAuthInv, NEW r \in Requests, Authorize(r)
    PROVE  OAuthInv'
<1> DEFINE n == flowsStarted + 1
           at == IF ConfigFor = NoClient THEN "register" ELSE "open"
           k == [op |-> "authorize", client |-> ConfigFor, token |-> NoToken, flow |-> n, at |-> at]
<1>1. /\ flowsStarted < MaxFlows /\ flowsStarted' = n /\ req[r].op = "idle"
      /\ req' = [req EXCEPT ![r] = k]
      /\ UNCHANGED <<row, cache, pending, minted, redeemed, consent, raced>>
  BY DEF Authorize
<1>2. n \in Nat /\ n <= MaxFlows /\ n \in 1..MaxFlows BY <1>1, Started
<1>3. at \in {"register", "open"} OBVIOUS
<1>4. k \in RequestShape /\ k.op = "authorize" /\ k.at = at /\ k.flow = n
  BY <1>2, <1>3, Started DEF RequestShape, Ops, Ats, NoToken
<1> HIDE DEF k, at
<1>5. Fits(k) BY <1>3, <1>4 DEF Fits
<1>6. /\ req' \in [Requests -> RequestShape]
      /\ \A s \in Requests : req'[s] = IF s = r THEN k ELSE req[s]
  BY <1>1, <1>4, <1>5, OneRequest
<1>7. Typed' BY <1>1, <1>2, <1>6, Started, TypedFrom
<1>8. Flows'
  <2>1. Flows BY DEF OAuthInv
  <2>2. redeemed[n] = 0 BY <1>2, <2>1, Started DEF Flows
  <2>3. \A f : f \in 1..flowsStarted => f \in 1..n /\ f # n BY <1>2, Started
  <2>4. \A f \in 1..MaxFlows : f > n => redeemed[f] = 0 BY <1>2, <2>1, Started DEF Flows
  <2>5. \A p \in pending : p.flow \in 1..n /\ p.flow # n /\ redeemed[p.flow] = 0
    BY <2>1, <2>3 DEF Flows
  <2>6. \A s \in Requests \ {r} : Bears(req[s]) => req[s].flow \in 1..n /\ req[s].flow # n
    BY <2>1, <2>3 DEF Flows
  <2>7. n \in 1..n BY <1>2
  <2>8. ASSUME NEW s \in Requests, Bears(req'[s])
        PROVE  /\ req'[s].flow \in 1..n /\ redeemed[req'[s].flow] = 0
               /\ \A p \in pending : p.flow # req'[s].flow
               /\ \A t \in Requests : Bears(req'[t]) /\ req'[t].flow = req'[s].flow => t = s
    <3>1. CASE s = r BY <1>4, <1>6, <2>2, <2>5, <2>6, <2>7, <3>1
    <3>2. CASE s # r
      <4>1. req'[s] = req[s] /\ Bears(req[s]) BY <1>6, <2>8, <3>2
      <4>2. req[s].flow \in 1..n /\ req[s].flow # n BY <2>6, <3>2, <4>1
      <4>. QED BY <1>4, <1>6, <2>1, <4>1, <4>2 DEF Flows
    <3>. QED BY <3>1, <3>2
  <2>9. pending' = pending /\ redeemed' = redeemed /\ flowsStarted' = n BY <1>1
  <2>10. \A p, q \in pending : p.flow = q.flow => p = q BY <2>1 DEF Flows
  <2>. QED BY <2>4, <2>5, <2>8, <2>9, <2>10 DEF Flows
<1>9. req[r].at # "keep" BY <1>1, RequestOf DEF Fits
<1>. QED BY <1>1, <1>3, <1>4, <1>5, <1>7, <1>8, <1>9, PlainStep

LEMMA RegisterSteps ==
    ASSUME OAuthInv, NEW r \in Requests, NEW ok \in BOOLEAN, Register(r, ok)
    PROVE  OAuthInv'
<1>1. /\ req[r].at = "register"
      /\ UNCHANGED <<cache, pending, flowsStarted, minted, redeemed, consent, raced>>
  BY DEF Register, Reached
<1>2. CASE ok
  <2> DEFINE c == req[r].flow + ConfigClient
             k == [req[r] EXCEPT !.client = c, !.at = "open"]
  <2>1. c \in Nat BY RequestOf, OAuthAssumption DEF OAuthAssumption
  <2>2. req' = [req EXCEPT ![r] = k] /\ row' = [row EXCEPT !.client = c] BY <1>2 DEF Register
  <2> HIDE DEF c
  <2>3. k \in RequestShape /\ k.op = req[r].op /\ k.at = "open" /\ k.flow = req[r].flow
    BY <2>1, RequestOf DEF RequestShape, Ats
  <2>4. row' \in RowShape /\ row'.token = row.token BY <2>1, <2>2, Started DEF RowShape
  <2> HIDE DEF k
  <2>5. Fits(k) /\ (Bears(k) => Bears(req[r]) /\ k.flow = req[r].flow)
    BY <1>1, <2>3, RequestOf DEF Fits, Bears
  <2>6. /\ req' \in [Requests -> RequestShape]
        /\ \A s \in Requests : req'[s] = IF s = r THEN k ELSE req[s]
        /\ \A s \in Requests : Fits(req'[s])
    BY <2>2, <2>3, <2>5, OneRequest
  <2>7. Typed' BY <1>1, <2>4, <2>6, Started, TypedFrom
  <2>8. Flows' BY <1>1, <2>3, <2>5, <2>6, FlowsStay
  <2>9. ASSUME ~raced PROVE (Consented /\ Clean)'
    <3>1. Consented /\ Clean BY <2>9 DEF OAuthInv
    <3>2. Consented' BY <1>1, <2>3, <2>4, <2>6, <3>1 DEF Consented
    <3>3. \A s \in Requests : req[s].at = "keep" => req'[s].at = "keep" BY <1>1, <2>6
    <3>4. Clean' BY <1>1, <2>3, <2>4, <2>6, <3>1, <3>3 DEF Clean
    <3>. QED BY <3>2, <3>4
  <2>. QED BY <1>1, <2>6, <2>7, <2>8, <2>9 DEF OAuthInv
<1>3. CASE ~ok
  <2>1. req' = [req EXCEPT ![r] = Idle] /\ UNCHANGED row BY <1>3 DEF Register, Done
  <2>2. /\ req' \in [Requests -> RequestShape]
        /\ \A s \in Requests : req'[s] = IF s = r THEN Idle ELSE req[s]
    BY <2>1, IdleShape, OneRequest
  <2>3. Typed' BY <1>1, <2>1, <2>2, Started, TypedFrom
  <2>4. Flows' BY <1>1, <2>2, IdleShape, FlowsStay
  <2>. QED BY <1>1, <2>1, <2>3, <2>4, IdleShape, PlainStep
<1>. QED BY <1>2, <1>3

LEMMA OpenStep ==
    ASSUME OAuthInv, NEW r \in Requests, OpenFlow(r)
    PROVE  OAuthInv'
<1> DEFINE new == [flow |-> req[r].flow, client |-> req[r].client, old |-> FALSE]
<1>1. /\ req[r].at = "open" /\ pending' = Sweep(pending) \cup {new} /\ consent' = TRUE
      /\ req' = [req EXCEPT ![r] = Idle]
      /\ UNCHANGED <<row, cache, flowsStarted, minted, redeemed, raced>>
  BY DEF OpenFlow, Reached, Done
<1>2. new \in FlowShape /\ new.flow = req[r].flow BY RequestOf DEF FlowShape
<1> HIDE DEF new
<1>3. Sweep(pending) \subseteq pending BY DEF Sweep
<1>4. /\ req' \in [Requests -> RequestShape]
      /\ \A s \in Requests : req'[s] = IF s = r THEN Idle ELSE req[s]
      /\ \A s \in Requests : Fits(req'[s])
  BY <1>1, IdleShape, OneRequest
<1>5. pending' \in SUBSET FlowShape BY <1>1, <1>2, <1>3, Started
<1>6. Typed' BY <1>1, <1>4, <1>5, Started, TypedFrom
<1>7. Flows'
  <2>1. Flows BY DEF OAuthInv
  <2>2. Bears(req[r]) BY <1>1, RequestOf DEF Fits, Bears
  <2>3. /\ new.flow \in 1..flowsStarted /\ redeemed[new.flow] = 0
        /\ \A p \in pending : p.flow # new.flow
        /\ \A s \in Requests : Bears(req[s]) /\ req[s].flow = new.flow => s = r
    BY <1>2, <2>1, <2>2 DEF Flows
  <2>4. \A p \in pending' : p \in pending \/ p = new BY <1>1, <1>3
  <2>5. \A p \in pending' : p.flow \in 1..flowsStarted /\ redeemed[p.flow] = 0
    BY <2>1, <2>3, <2>4 DEF Flows
  <2>6. \A p, q \in pending' : p.flow = q.flow => p = q BY <2>1, <2>3, <2>4 DEF Flows
  <2>7. ASSUME NEW s \in Requests, Bears(req'[s])
        PROVE  /\ req'[s].flow \in 1..flowsStarted /\ redeemed[req'[s].flow] = 0
               /\ \A p \in pending' : p.flow # req'[s].flow
               /\ \A t \in Requests : Bears(req'[t]) /\ req'[t].flow = req'[s].flow => t = s
    <3>1. s # r /\ req'[s] = req[s] /\ Bears(req[s]) BY <1>4, <2>7, IdleShape
    <3>2. req[s].flow # new.flow BY <2>3, <3>1
    <3>3. \A t \in Requests : Bears(req'[t]) => Bears(req[t]) /\ req'[t] = req[t]
      BY <1>4, IdleShape
    <3>4. \A p \in pending' : p.flow # req[s].flow BY <2>1, <2>4, <3>1, <3>2 DEF Flows
    <3>. QED BY <2>1, <3>1, <3>3, <3>4 DEF Flows
  <2>8. UNCHANGED <<flowsStarted, redeemed>> BY <1>1
  <2>9. \A f \in 1..MaxFlows : f > flowsStarted => redeemed[f] = 0 BY <2>1 DEF Flows
  <2>. QED BY <2>5, <2>6, <2>7, <2>8, <2>9 DEF Flows
<1>8. ASSUME ~raced PROVE (Consented /\ Clean)'
  <2>1. Consented' BY <1>1 DEF Consented
  <2>2. Clean BY <1>8 DEF OAuthInv
  <2>3. \A s \in Requests : req[s].at = "keep" => req'[s].at = "keep" BY <1>1, <1>4
  <2>4. Clean' BY <1>1, <1>4, <2>2, <2>3, IdleShape DEF Clean
  <2>. QED BY <2>1, <2>4
<1>. QED BY <1>1, <1>4, <1>6, <1>7, <1>8 DEF OAuthInv

LEMMA ExpireStep ==
    ASSUME OAuthInv, ExpireFlow
    PROVE  OAuthInv'
<1>1. PICK p \in pending : pending' = (pending \ {p}) \cup {[p EXCEPT !.old = TRUE]}
  BY DEF ExpireFlow
<1> DEFINE new == [p EXCEPT !.old = TRUE]
<1>2. p \in FlowShape BY Started
<1>3. new \in FlowShape /\ new.flow = p.flow BY <1>2 DEF FlowShape
<1>4. pending' = (pending \ {p}) \cup {new} BY <1>1
<1> HIDE DEF new
<1>5. UNCHANGED <<row, cache, req, flowsStarted, minted, redeemed, consent, raced>>
  BY DEF ExpireFlow
<1>6. pending' \in SUBSET FlowShape BY <1>3, <1>4, Started
<1>7. Typed' BY <1>5, <1>6 DEF OAuthInv, Typed
<1>8. Flows'
  <2>1. Flows BY DEF OAuthInv
  <2>2. \A q \in pending' : \E o \in pending : o.flow = q.flow /\ (q = o \/ (o = p /\ q = new))
    BY <1>3, <1>4
  <2>3. \A q \in pending' : q.flow \in 1..flowsStarted /\ redeemed[q.flow] = 0
    BY <2>1, <2>2 DEF Flows
  <2>4. ASSUME NEW a \in pending', NEW b \in pending', a.flow = b.flow PROVE a = b
    <3>1. \A q \in pending \ {p} : q.flow # p.flow BY <2>1 DEF Flows
    <3>. QED BY <1>3, <1>4, <2>1, <2>4, <3>1 DEF Flows
  <2>5. ASSUME NEW s \in Requests, Bears(req[s])
        PROVE  \A q \in pending' : q.flow # req[s].flow
    BY <2>1, <2>2, <2>5 DEF Flows
  <2>. QED BY <1>5, <2>1, <2>3, <2>4, <2>5 DEF Flows
<1>9. pending # {} OBVIOUS
<1>. QED BY <1>5, <1>7, <1>8, <1>9 DEF OAuthInv, Consented, Clean

LEMMA CallbackStep ==
    ASSUME OAuthInv, NEW r \in Requests, NEW flow \in 1..MaxFlows, Callback(r, flow)
    PROVE  OAuthInv'
<1> DEFINE live == Sweep(pending)
           mine == {p \in live : p.flow = flow}
           c == (CHOOSE p \in mine : TRUE).client
           k == [op |-> "complete", at |-> "exchange", flow |-> flow, client |-> c,
                 token |-> NoToken]
<1>1. /\ req[r].op = "idle" /\ pending' = live \ mine
      /\ UNCHANGED <<row, cache, flowsStarted, minted, redeemed, consent, raced>>
  BY DEF Callback
<1>2. pending' \subseteq pending BY <1>1 DEF Sweep
<1>3. pending' \in SUBSET FlowShape BY <1>2, Started
<1>4. req[r].at = "idle" BY <1>1, RequestOf DEF Fits
<1>5. CASE mine = {}
  <2>1. UNCHANGED req BY <1>5 DEF Callback
  <2>2. Typed' BY <1>1, <1>3, <2>1 DEF OAuthInv, Typed
  <2>3. Flows' BY <1>1, <1>2, <2>1 DEF OAuthInv, Flows
  <2>4. raced' \/ (Consented /\ Clean)'
    BY <1>1, <1>2, <2>1 DEF OAuthInv, Consented, Clean
  <2>. QED BY <2>1, <2>2, <2>3, <2>4 DEF OAuthInv
<1>6. CASE mine # {}
  <2>1. req' = [req EXCEPT ![r] = k] BY <1>6 DEF Callback
  <2>2. PICK p \in mine : c = p.client BY <1>6
  <2>3. p \in pending /\ p.flow = flow /\ p \in FlowShape BY Started DEF Sweep
  <2>4. c \in Nat BY <2>2, <2>3 DEF FlowShape
  <2>5. \A q \in pending' : q.flow # flow BY <1>1
  <2> HIDE DEF live, mine, c
  <2>6. k \in RequestShape BY <2>4 DEF RequestShape, Ops, Ats, NoToken
  <2>7. k.op = "complete" /\ k.at = "exchange" /\ k.flow = flow OBVIOUS
  <2> HIDE DEF k
  <2>8. Fits(k) BY <2>7 DEF Fits
  <2>9. /\ req' \in [Requests -> RequestShape]
        /\ \A s \in Requests : req'[s] = IF s = r THEN k ELSE req[s]
    BY <2>1, <2>6, <2>8, OneRequest
  <2>10. Typed' BY <1>1, <1>3, <2>9, Started, TypedFrom
  <2>11. Flows'
    <3>1. Flows BY DEF OAuthInv
    <3>2. flow \in 1..flowsStarted /\ redeemed[flow] = 0 BY <2>3, <3>1 DEF Flows
    <3>3. \A s \in Requests : Bears(req[s]) => req[s].flow # flow BY <2>3, <3>1 DEF Flows
    <3>4. ASSUME NEW s \in Requests, Bears(req'[s])
          PROVE  /\ req'[s].flow \in 1..flowsStarted /\ redeemed[req'[s].flow] = 0
                 /\ \A q \in pending' : q.flow # req'[s].flow
                 /\ \A t \in Requests : Bears(req'[t]) /\ req'[t].flow = req'[s].flow => t = s
      <4>1. CASE s = r BY <2>5, <2>7, <2>9, <3>2, <3>3, <4>1
      <4>2. CASE s # r
        <5>1. req'[s] = req[s] /\ Bears(req[s]) BY <2>9, <3>4, <4>2
        <5>. QED BY <1>2, <2>7, <2>9, <3>1, <3>3, <5>1 DEF Flows
      <4>. QED BY <4>1, <4>2
    <3>. QED BY <1>1, <1>2, <3>1, <3>4 DEF Flows
  <2>12. raced \/ consent BY <2>3 DEF OAuthInv, Consented
  <2>. QED BY <1>1, <1>2, <1>4, <2>1, <2>6, <2>7, <2>8, <2>10, <2>11, <2>12, PlainStep
<1>. QED BY <1>5, <1>6

-----------------------------------------------------------------------------
(***************************************************************************)
(* Tokens.                                                                 *)
(***************************************************************************)
LEMMA ExchangeStep ==
    ASSUME OAuthInv, NEW r \in Requests, NEW ok \in BOOLEAN, Exchange(r, ok)
    PROVE  OAuthInv'
<1> DEFINE q == req[r]
<1>1. q.at = "exchange" /\ UNCHANGED <<row, cache, pending, flowsStarted, consent, raced>>
  BY DEF Exchange, Reached
<1>2. redeemed' = IF q.op = "complete" THEN [redeemed EXCEPT ![q.flow] = @ + 1] ELSE redeemed
  BY DEF Exchange
<1>3. PICK k \in RequestShape :
        /\ req' = [req EXCEPT ![r] = k] /\ Fits(k) /\ ~Bears(k)
        /\ k.at \in {"idle", "store"} /\ minted' \in Nat
  <2>1. CASE ok
    <3> DEFINE k == [q EXCEPT !.token = minted + 1, !.at = "store"]
    <3>1. req' = [req EXCEPT ![r] = k] /\ minted' = minted + 1 BY <2>1 DEF Exchange
    <3>2. minted + 1 \in Nat BY Started
    <3>3. k \in RequestShape /\ k.op = q.op /\ k.at = "store"
      BY <3>2, RequestOf DEF RequestShape, Ats
    <3> HIDE DEF k
    <3>4. Fits(k) /\ ~Bears(k) BY <1>1, <3>3, RequestOf DEF Fits, Bears
    <3>. QED BY <3>1, <3>2, <3>3, <3>4
  <2>2. CASE ~ok BY <2>2, IdleShape, Started DEF Exchange, Done
  <2>. QED BY <2>1, <2>2
<1>4. /\ req' \in [Requests -> RequestShape]
      /\ \A s \in Requests : req'[s] = IF s = r THEN k ELSE req[s]
  BY <1>3, OneRequest
<1>5. Flows BY DEF OAuthInv
<1>6. Bears(q) <=> q.op = "complete"
  BY <1>1, RequestOf DEF Bears, Fits
<1>7. q.op = "complete" => q.flow \in 1..flowsStarted /\ q.flow \in 1..MaxFlows /\ redeemed[q.flow] = 0
  BY <1>5, <1>6, Started DEF Flows
<1>8. /\ redeemed' \in [1..MaxFlows -> {0, 1}]
      /\ \A f \in 1..MaxFlows : redeemed'[f] = redeemed[f] \/ (q.op = "complete" /\ f = q.flow)
  BY <1>2, <1>7, Started
<1>9. Typed' BY <1>1, <1>3, <1>4, <1>8, Started, TypedFrom
<1>10. Flows'
  <2>1. \A f \in 1..flowsStarted : f \in 1..MaxFlows BY Started
  <2>2. \A f \in 1..MaxFlows : f > flowsStarted => redeemed'[f] = 0
    <3>1. \A f \in 1..MaxFlows : f > flowsStarted => f \notin 1..flowsStarted BY Started
    <3>. QED BY <1>5, <1>7, <1>8, <3>1 DEF Flows
  <2>3. \A p \in pending : p.flow \in 1..flowsStarted /\ redeemed'[p.flow] = 0
    BY <1>5, <1>6, <1>8, <2>1 DEF Flows
  <2>4. ASSUME NEW s \in Requests, Bears(req'[s])
        PROVE  /\ req'[s].flow \in 1..flowsStarted /\ redeemed'[req'[s].flow] = 0
               /\ \A p \in pending : p.flow # req'[s].flow
               /\ \A t \in Requests : Bears(req'[t]) /\ req'[t].flow = req'[s].flow => t = s
    <3>1. s # r /\ req'[s] = req[s] /\ Bears(req[s]) BY <1>3, <1>4, <2>4
    <3>2. req[s].flow \in 1..flowsStarted /\ redeemed[req[s].flow] = 0 BY <1>5, <3>1 DEF Flows
    <3>3. q.op = "complete" => req[s].flow # q.flow BY <1>5, <1>6, <3>1 DEF Flows
    <3>4. redeemed'[req[s].flow] = 0 BY <1>8, <2>1, <3>2, <3>3
    <3>5. \A t \in Requests : Bears(req'[t]) => Bears(req[t]) /\ req'[t] = req[t]
      BY <1>3, <1>4
    <3>. QED BY <1>5, <3>1, <3>2, <3>4, <3>5 DEF Flows
  <2>. QED BY <1>1, <1>5, <2>2, <2>3, <2>4 DEF Flows
<1>11. raced \/ consent BY <1>1 DEF OAuthInv, Consented
<1>. QED BY <1>1, <1>3, <1>9, <1>10, <1>11, PlainStep

LEMMA StoreStep ==
    ASSUME OAuthInv, NEW r \in Requests, StoreToken(r)
    PROVE  OAuthInv'
<1> DEFINE q == req[r]
           k == [q EXCEPT !.at = "keep"]
<1>1. /\ q.at = "store" /\ row' = [row EXCEPT !.token = q.token]
      /\ raced' = (raced \/ HoldsOlder(r)) /\ req' = [req EXCEPT ![r] = k]
      /\ UNCHANGED <<cache, pending, flowsStarted, minted, redeemed, consent>>
  BY DEF StoreToken, Reached, Goto
<1>2. k \in RequestShape /\ k.op = q.op /\ k.at = "keep" /\ k.token = q.token
  BY RequestOf, AtChanged DEF Ats
<1>3. row' \in RowShape /\ row'.token = q.token BY <1>1, RequestOf, Started DEF RowShape
<1> HIDE DEF k
<1>4. Fits(k) /\ ~Bears(k) BY <1>1, <1>2, RequestOf DEF Fits, Bears
<1>5. /\ req' \in [Requests -> RequestShape]
      /\ \A s \in Requests : req'[s] = IF s = r THEN k ELSE req[s]
      /\ \A s \in Requests : Fits(req'[s])
  BY <1>1, <1>2, <1>4, OneRequest
<1>6. Typed' BY <1>1, <1>3, <1>5, Started, TypedFrom
<1>7. Flows' BY <1>1, <1>2, <1>4, <1>5, FlowsStay
<1>8. ASSUME ~raced' PROVE (Consented /\ Clean)'
  <2>1. Consented /\ Clean BY <1>1, <1>8 DEF OAuthInv
  <2>2. \A s \in Requests \ {r} : req[s].at \notin {"fill", "keep"}
    BY <1>1, <1>8 DEF HoldsOlder
  <2>3. consent BY <1>1, <2>1 DEF Consented
  <2>4. Consented' BY <1>1, <2>3 DEF Consented
  <2>5. Clean' BY <1>2, <1>3, <1>5, <2>2 DEF Clean
  <2>. QED BY <2>4, <2>5
<1>. QED BY <1>5, <1>6, <1>7, <1>8 DEF OAuthInv

\* A step that sets the cache to what the row has, or to nothing.
LEMMA CacheStep ==
    ASSUME OAuthInv, NEW r \in Requests, NEW k \in RequestShape, Fits(k), ~Bears(k),
           req' = [req EXCEPT ![r] = k],
           UNCHANGED <<row, pending, flowsStarted, minted, redeemed, consent, raced>>,
           cache' \in Nat, raced \/ cache' = row.token \/ cache' = NoToken,
           k.at \notin {"store", "keep", "fill"}, k.at = "exchange" => raced \/ consent
    PROVE  OAuthInv'
<1>1. /\ req' \in [Requests -> RequestShape]
      /\ \A s \in Requests : req'[s] = IF s = r THEN k ELSE req[s]
      /\ \A s \in Requests : Fits(req'[s])
  BY OneRequest
<1>2. Typed' BY <1>1, Started, TypedFrom
<1>3. Flows' BY <1>1, FlowsStay
<1>4. ASSUME ~raced PROVE (Consented /\ Clean)'
  <2>1. Consented /\ Clean BY <1>4 DEF OAuthInv
  <2>2. cache' # NoToken => consent BY <1>4, <2>1 DEF Consented
  <2>3. Consented' BY <1>1, <1>4, <2>1, <2>2 DEF Consented
  <2>4. Clean' BY <1>1, <1>4, <2>1 DEF Clean
  <2>. QED BY <2>3, <2>4
<1>. QED BY <1>1, <1>2, <1>3, <1>4 DEF OAuthInv

LEMMA KeepStep ==
    ASSUME OAuthInv, NEW r \in Requests, KeepToken(r)
    PROVE  OAuthInv'
<1>1. /\ req[r].at = "keep" /\ cache' = req[r].token
      /\ UNCHANGED <<row, pending, flowsStarted, minted, redeemed, consent, raced>>
  BY DEF KeepToken, Reached
<1>2. raced \/ cache' = row.token BY <1>1 DEF OAuthInv, Clean
<1>3. cache' \in Nat BY <1>1, RequestOf
<1>4. CASE req[r].op = "complete"
  <2> DEFINE k == [req[r] EXCEPT !.at = "forget"]
  <2>1. req' = [req EXCEPT ![r] = k] BY <1>4 DEF KeepToken, Goto
  <2>2. k \in RequestShape /\ k.op = "complete" /\ k.at = "forget"
    BY <1>4, RequestOf, AtChanged DEF Ats
  <2> HIDE DEF k
  <2>3. Fits(k) /\ ~Bears(k) BY <2>2 DEF Fits, Bears
  <2>. QED BY <1>1, <1>2, <1>3, <2>1, <2>2, <2>3, CacheStep
<1>5. CASE req[r].op # "complete"
  <2>1. req' = [req EXCEPT ![r] = Idle] BY <1>5 DEF KeepToken, Done
  <2>. QED BY <1>1, <1>2, <1>3, <2>1, IdleShape, CacheStep
<1>. QED BY <1>4, <1>5

LEMMA FillStep ==
    ASSUME OAuthInv, NEW r \in Requests, Fill(r)
    PROVE  OAuthInv'
<1>1. /\ req[r].at = "fill" /\ cache' = req[r].token
      /\ UNCHANGED <<row, pending, flowsStarted, minted, redeemed, consent, raced>>
  BY DEF Fill, Reached
<1>2. raced \/ cache' = row.token BY <1>1 DEF OAuthInv, Clean
<1>3. cache' \in Nat BY <1>1, RequestOf
<1>4. CASE req[r].op = "refresh"
  <2> DEFINE k == [req[r] EXCEPT !.at = "exchange"]
  <2>1. req' = [req EXCEPT ![r] = k] BY <1>4 DEF Fill, Goto
  <2>2. k \in RequestShape /\ k.op = "refresh" /\ k.at = "exchange"
    BY <1>4, RequestOf, AtChanged DEF Ats
  <2> HIDE DEF k
  <2>3. Fits(k) /\ ~Bears(k) BY <2>2 DEF Fits, Bears
  <2>4. raced \/ consent BY <1>1 DEF OAuthInv, Consented
  <2>. QED BY <1>1, <1>2, <1>3, <2>1, <2>2, <2>3, <2>4, CacheStep
<1>5. CASE req[r].op # "refresh"
  <2>1. req' = [req EXCEPT ![r] = Idle] BY <1>5 DEF Fill, Done
  <2>. QED BY <1>1, <1>2, <1>3, <2>1, IdleShape, CacheStep
<1>. QED BY <1>4, <1>5

LEMMA ForgetStep ==
    ASSUME OAuthInv, NEW r \in Requests, Forget(r)
    PROVE  OAuthInv'
<1>1. /\ req[r].at = "forget" /\ cache' = NoToken
      /\ UNCHANGED <<row, pending, flowsStarted, minted, redeemed, consent, raced>>
  BY DEF Forget, Reached
<1>2. cache' \in Nat BY <1>1 DEF NoToken
<1>3. CASE req[r].op = "complete"
  <2>1. req' = [req EXCEPT ![r] = Idle] BY <1>3 DEF Forget, Done
  <2>. QED BY <1>1, <1>2, <2>1, IdleShape, CacheStep
<1>4. ASSUME NEW at \in {"load", "drop"}, req' = [req EXCEPT ![r].at = at],
             at = "load" => req[r].op = "refresh", at = "drop" => req[r].op = "revoke"
      PROVE  OAuthInv'
  <2> DEFINE k == [req[r] EXCEPT !.at = at]
  <2>1. req' = [req EXCEPT ![r] = k] BY <1>4
  <2>2. k \in RequestShape /\ k.op = req[r].op /\ k.at = at
    BY RequestOf, AtChanged DEF Ats
  <2> HIDE DEF k
  <2>3. Fits(k) /\ ~Bears(k) BY <1>4, <2>2 DEF Fits, Bears
  <2>. QED BY <1>1, <1>2, <2>1, <2>2, <2>3, CacheStep
<1>5. CASE req[r].op = "refresh" BY <1>4, <1>5 DEF Forget, Goto
<1>6. CASE req[r].op = "revoke" BY <1>4, <1>6 DEF Forget, Goto
<1>7. req[r].op \in {"complete", "refresh", "revoke"}
  BY <1>1, RequestOf DEF Fits, Ops
<1>. QED BY <1>3, <1>5, <1>6, <1>7

\* Steps that touch only their request and, for DropFlows, the pending flows.
LEMMA OnlyRequest ==
    ASSUME OAuthInv, NEW r \in Requests, NEW k \in RequestShape, Fits(k), ~Bears(k),
           req' = [req EXCEPT ![r] = k],
           UNCHANGED <<row, cache, flowsStarted, minted, redeemed, consent, raced>>,
           pending' \subseteq pending, req[r].at # "keep",
           \/ k.at \notin {"exchange", "store", "keep", "fill"}
           \/ raced \/ (consent /\ (k.at \in {"keep", "fill"} => k.token = row.token))
    PROVE  OAuthInv'
<1>1. /\ req' \in [Requests -> RequestShape]
      /\ \A s \in Requests : req'[s] = IF s = r THEN k ELSE req[s]
  BY OneRequest
<1>2. pending' \in SUBSET FlowShape BY Started
<1>3. Typed' BY <1>1, <1>2, Started, TypedFrom
<1>4. Flows' BY <1>1, FlowsStay
<1>5. pending' # {} => pending # {} OBVIOUS
<1>. QED BY <1>3, <1>4, <1>5, PlainStep

LEMMA BeginStep ==
    ASSUME OAuthInv, NEW r \in Requests,
           UNCHANGED <<row, cache, pending, flowsStarted, minted, redeemed, consent, raced>>,
           \/ BeginRequest(r, "get", "load")
           \/ BeginRequest(r, "refresh", "forget")
           \/ BeginRequest(r, "revoke", "forget")
    PROVE  OAuthInv'
<1>1. PICK op \in {"get", "refresh", "revoke"}, at \in {"load", "forget"} :
        BeginRequest(r, op, at) /\ (at = "load" <=> op = "get")
  OBVIOUS
<1> DEFINE k == [Idle EXCEPT !.op = op, !.at = at]
<1>2. req[r].op = "idle" /\ req' = [req EXCEPT ![r] = k] BY <1>1 DEF BeginRequest
<1>3. k \in RequestShape /\ k.op = op /\ k.at = at BY IdleShape DEF RequestShape, Ops, Ats
<1> HIDE DEF k
<1>4. Fits(k) /\ ~Bears(k) BY <1>1, <1>3 DEF Fits, Bears
<1>5. req[r].at # "keep" BY <1>2, RequestOf DEF Fits
<1>6. k.at \notin {"exchange", "store", "keep", "fill"} BY <1>3
<1>. QED BY <1>2, <1>3, <1>4, <1>5, <1>6, OnlyRequest

LEMMA StoreFailsStep ==
    ASSUME OAuthInv, NEW r \in Requests, StoreFails(r)
    PROVE  OAuthInv'
<1>1. /\ req[r].at = "store" /\ req' = [req EXCEPT ![r] = Idle]
      /\ UNCHANGED <<row, cache, pending, flowsStarted, minted, redeemed, consent, raced>>
  BY DEF StoreFails, Reached, Done
<1>. QED BY <1>1, IdleShape, OnlyRequest

LEMMA LoadStep ==
    ASSUME OAuthInv, NEW r \in Requests, Load(r)
    PROVE  OAuthInv'
<1>1. /\ req[r].at = "load"
      /\ UNCHANGED <<row, cache, pending, flowsStarted, minted, redeemed, consent, raced>>
  BY DEF Load, Reached
<1>2. req[r].op \in {"refresh", "get"} BY <1>1, RequestOf DEF Fits, Ops
<1>3. CASE req[r].op = "refresh" /\ cache # NoToken
  <2> DEFINE k == [req[r] EXCEPT !.token = cache, !.at = "exchange"]
  <2>1. req' = [req EXCEPT ![r] = k] BY <1>3 DEF Load
  <2>2. k \in RequestShape /\ k.op = "refresh" /\ k.at = "exchange"
    BY <1>3, RequestOf, Started DEF RequestShape, Ats
  <2> HIDE DEF k
  <2>3. Fits(k) /\ ~Bears(k) BY <2>2 DEF Fits, Bears
  <2>4. raced \/ consent BY <1>3 DEF OAuthInv, Consented
  <2>. QED BY <1>1, <2>1, <2>2, <2>3, <2>4, OnlyRequest
<1>4. CASE ~(req[r].op = "refresh" /\ cache # NoToken) /\ row.token = NoToken
  <2>1. req' = [req EXCEPT ![r] = Idle] BY <1>4 DEF Load, Done
  <2>. QED BY <1>1, <2>1, IdleShape, OnlyRequest
<1>5. CASE ~(req[r].op = "refresh" /\ cache # NoToken) /\ row.token # NoToken
  <2> DEFINE k == [req[r] EXCEPT !.token = row.token, !.at = "fill"]
  <2>1. req' = [req EXCEPT ![r] = k] BY <1>5 DEF Load
  <2>2. k \in RequestShape /\ k.op = req[r].op /\ k.at = "fill" /\ k.token = row.token
    <3>1. row.token \in Nat BY Started
    <3>. QED BY <3>1, RequestOf DEF RequestShape, Ats
  <2> HIDE DEF k
  <2>3. Fits(k) /\ ~Bears(k) BY <1>2, <2>2 DEF Fits, Bears
  <2>4. raced \/ consent BY <1>5 DEF OAuthInv, Consented
  <2>. QED BY <1>1, <2>1, <2>2, <2>3, <2>4, OnlyRequest
<1>. QED BY <1>3, <1>4, <1>5

LEMMA DropStep ==
    ASSUME OAuthInv, NEW r \in Requests, DropFlows(r)
    PROVE  OAuthInv'
<1> DEFINE k == [req[r] EXCEPT !.at = "delete"]
<1>1. /\ req[r].at = "drop" /\ req' = [req EXCEPT ![r] = k] /\ pending' = {}
      /\ UNCHANGED <<row, cache, flowsStarted, minted, redeemed, consent, raced>>
  BY DEF DropFlows, Reached, Goto
<1>2. k \in RequestShape /\ k.op = req[r].op /\ k.at = "delete"
  BY RequestOf, AtChanged DEF Ats
<1> HIDE DEF k
<1>3. req[r].op \notin {"idle", "authorize", "complete", "get"} BY <1>1, RequestOf DEF Fits
<1>4. Fits(k) /\ ~Bears(k) BY <1>2, <1>3 DEF Fits, Bears
<1>. QED BY <1>1, <1>2, <1>4, OnlyRequest

LEMMA DeleteStep ==
    ASSUME OAuthInv, NEW r \in Requests, DeleteRow(r)
    PROVE  OAuthInv'
<1>1. /\ req[r].at = "delete" /\ row' = [client |-> NoClient, token |-> NoToken]
      /\ raced' = (raced \/ cache # NoToken \/ pending # {}
                       \/ \E q \in Requests \ {r} : req[q].op \in Ops \ {"idle", "revoke"})
      /\ consent' = FALSE /\ req' = [req EXCEPT ![r] = Idle]
      /\ UNCHANGED <<cache, pending, flowsStarted, minted, redeemed>>
  BY DEF DeleteRow, Reached, Done
<1>2. row' \in RowShape /\ row'.token = NoToken BY <1>1 DEF RowShape, NoClient, NoToken
<1>3. /\ req' \in [Requests -> RequestShape]
      /\ \A s \in Requests : req'[s] = IF s = r THEN Idle ELSE req[s]
      /\ \A s \in Requests : Fits(req'[s])
  BY <1>1, IdleShape, OneRequest
<1>4. Typed' BY <1>1, <1>2, <1>3, Started, TypedFrom
<1>5. Flows' BY <1>1, <1>3, IdleShape, FlowsStay
<1>6. ASSUME ~raced' PROVE (Consented /\ Clean)'
  <2>1. cache = NoToken /\ pending = {} BY <1>1, <1>6
  <2>2. ASSUME NEW s \in Requests \ {r} PROVE req[s].op \in {"idle", "revoke"}
    BY <1>1, <1>6, RequestOf
  <2>3. ASSUME NEW s \in Requests PROVE req'[s].at \notin {"exchange", "store", "keep", "fill"}
    <3>1. CASE s = r BY <1>3, <3>1, IdleShape
    <3>2. CASE s # r
      <4>1. req'[s] = req[s] /\ req[s].op \in {"idle", "revoke"} BY <1>3, <2>2, <3>2
      <4>. QED BY <4>1, RequestOf DEF Fits
    <3>. QED BY <3>1, <3>2
  <2>4. Consented' BY <1>1, <1>2, <2>1, <2>3 DEF Consented
  <2>5. Clean' BY <1>1, <2>1, <2>3 DEF Clean
  <2>. QED BY <2>4, <2>5
<1>. QED BY <1>3, <1>4, <1>5, <1>6 DEF OAuthInv

-----------------------------------------------------------------------------
LEMMA InitOAuth == OAuthInit => OAuthInv
<1> SUFFICES ASSUME OAuthInit PROVE OAuthInv OBVIOUS
<1>1. req = [r \in Requests |-> Idle] /\ pending = {} BY DEF OAuthInit
<1>2. row = [client |-> NoClient, token |-> NoToken] /\ cache = NoToken BY DEF OAuthInit
<1>3. redeemed = [f \in 1..MaxFlows |-> 0] /\ flowsStarted = 0 /\ minted = 0 BY DEF OAuthInit
<1>4. Typed
  <2>1. row \in RowShape BY <1>2 DEF RowShape, NoClient, NoToken
  <2>2. cache \in Nat BY <1>2 DEF NoToken
  <2>3. req \in [Requests -> RequestShape] BY <1>1, IdleShape
  <2>. QED BY <1>1, <1>3, <2>1, <2>2, <2>3, OAuthAssumption DEF Typed, OAuthAssumption
<1>5. Flows BY <1>1, <1>3, IdleShape DEF Flows
<1>6. Consented BY <1>1, <1>2, IdleShape DEF Consented
<1>7. Clean BY <1>1, <1>2, IdleShape DEF Clean
<1>. QED BY <1>1, <1>4, <1>5, <1>6, <1>7, IdleShape DEF OAuthInv

LEMMA OAuthStep == OAuthInv /\ [OAuthNext]_oauthVars => OAuthInv'
<1> SUFFICES ASSUME OAuthInv, [OAuthNext]_oauthVars PROVE OAuthInv' OBVIOUS
<1>1. CASE UNCHANGED oauthVars
  BY <1>1 DEF oauthVars, OAuthInv, Typed, Flows, Consented, Clean
<1>2. CASE \E r \in Requests : Authorize(r) \/ OpenFlow(r) BY <1>2, AuthorizeStep, OpenStep
<1>3. CASE \E r \in Requests, ok \in BOOLEAN : Register(r, ok) \/ Exchange(r, ok)
  BY <1>3, RegisterSteps, ExchangeStep
<1>4. CASE \E r \in Requests, flow \in 1..MaxFlows : Callback(r, flow) BY <1>4, CallbackStep
<1>5. CASE \E r \in Requests : StoreToken(r) \/ StoreFails(r) \/ KeepToken(r) \/ Forget(r)
  BY <1>5, StoreStep, StoreFailsStep, KeepStep, ForgetStep
<1>6. CASE \E r \in Requests : GetToken(r) \/ Refresh(r) \/ Revoke(r)
  BY <1>6, BeginStep DEF GetToken, Refresh, Revoke
<1>7. CASE \E r \in Requests : Load(r) \/ Fill(r) BY <1>7, LoadStep, FillStep
<1>8. CASE \E r \in Requests : DropFlows(r) \/ DeleteRow(r) BY <1>8, DropStep, DeleteStep
<1>9. CASE ExpireFlow BY <1>9, ExpireStep
<1>. QED BY <1>1, <1>2, <1>3, <1>4, <1>5, <1>6, <1>7, <1>8, <1>9 DEF OAuthNext

\* Whatever handlers and transports do at once, reload, fail or revoke: the code of an
\* authorization is exchanged at most once, and unless a write fell into one of the named
\* windows the cache holds what the row holds and a stored token has the user's consent.
THEOREM TokensOwned == OAuthSpec => []TokensAreOwned
<1>1. OAuthInit => OAuthInv BY InitOAuth
<1>2. OAuthInv /\ [OAuthNext]_oauthVars => OAuthInv' BY OAuthStep
<1>3. ASSUME OAuthInv PROVE TokensAreOwned
  <2>1. FlowsAreRedeemedOnce
    <3>1. \A f \in 1..MaxFlows : redeemed[f] = 0 \/ redeemed[f] = 1 BY <1>3, Started
    <3>. QED BY <3>1 DEF FlowsAreRedeemedOnce
  <2>2. OnlyRacesStray
    BY <1>3 DEF OAuthInv, Consented, Clean, OnlyRacesStray, Reached
  <2>. QED BY <2>1, <2>2 DEF TokensAreOwned
<1>. QED BY <1>1, <1>2, <1>3, PTL DEF OAuthSpec

-----------------------------------------------------------------------------
(***************************************************************************)
(* Installed skills, for any names, bundles, installs and uninstalls: a    *)
(* skill that was installed is whole in its place or in a backup, and a    *)
(* folder under its name is what a loader accepts.                         *)
(***************************************************************************)

\* A folder is a record; the rest of the types.
IsFolder(x) ==
    /\ x = [slug |-> x.slug, md |-> x.md, described |-> x.described, files |-> x.files]
    /\ x.files \subseteq Parcel

InstallAts == {"idle", "staging", "stat", "aside", "swap", "rollback", "cleanup", "over"}
InstallShape == [at : InstallAts, name : SkillNames \cup {""}, backedUp : BOOLEAN]
UninstallShape == [at : {"idle", "found", "emptying", "over"}, path : Spots \cup {""}, folder : Nat]

HubTyped ==
    /\ numFolders \in 0..MaxFolders
    /\ place \in [Spots -> 0..numFolders]
    /\ folders = [f \in 1..MaxFolders |-> folders[f]] /\ \A f \in 1..MaxFolders : IsFolder(folders[f])
    /\ install \in [Installs -> InstallShape]
    /\ removal \in [Uninstalls -> UninstallShape]

\* No folder is at two places, and an uninstall has opened one folder at most.
OneSpot == \A p, q \in Spots : p # q /\ place[p] # 0 => place[p] # place[q]

OpensOnce == \A u \in Uninstalls :
    /\ removal[u].at \in {"idle", "found"} => removal[u].folder = 0
    /\ removal[u].at \in {"found", "emptying"} => removal[u].path \in Spots

\* What an install made under the name n; what may stand under it.
Made(f, n) == folders[f].files = Parcel /\ ValidMetadata(folders[f].md, folders[f].described, n)

Good(f, n) ==
    \/ f = 0 \/ f \in Torn
    \/ folders[f].slug = "" /\ "marker" \notin folders[f].files
    \/ Made(f, n)

DirsGood == \A n \in SkillNames : Good(place[Dir(n)], n)

\* What an install has staged, and what it has moved aside.
Staged(i) ==
    install[i].at \in {"staging", "stat", "aside", "swap"} /\ place[Staging(i)] \notin Torn \cup {0} =>
        LET f == folders[place[Staging(i)]]
        IN /\ ValidMetadata(f.md, f.described, install[i].name)
           /\ install[i].at # "staging" => f.files = Parcel

InstallsGood == \A i \in Installs :
    /\ install[i].at \notin {"idle", "over"} => install[i].name \in SkillNames
    /\ install[i].at = "rollback" => install[i].backedUp
    /\ install[i].backedUp => /\ install[i].at \in {"swap", "rollback", "cleanup"}
                              /\ Good(place[Backup(i)], install[i].name)
    /\ Staged(i)

\* Where a skill survives: not in a backup that is about to be deleted, because its
\* successor is in place.
Doomed(i) == install[i].at = "cleanup" /\ install[i].backedUp

Refuges(n) == {Dir(n)} \cup {Backup(i) : i \in {j \in Installs : ~Doomed(j)}}

Kept(n, p) == place[p] \notin Torn \cup {0} /\ folders[place[p]].files = Parcel /\ folders[place[p]].md = n

OwnedKept == owned \subseteq SkillNames /\ \A n \in owned : \E p \in Refuges(n) : Kept(n, p)

SkillInv == HubTyped /\ OneSpot /\ OpensOnce /\ DirsGood /\ InstallsGood /\ OwnedKept

-----------------------------------------------------------------------------
\* Directories, staging directories and backups are different places.
LEMMA SpotsDiffer ==
    /\ \A n \in SkillNames : Dir(n) \in Spots
    /\ \A i \in Installs : Staging(i) \in Spots /\ Backup(i) \in Spots
    /\ \A n, m : Dir(n) = Dir(m) => n = m
    /\ \A i, j : (Staging(i) = Staging(j) => i = j) /\ (Backup(i) = Backup(j) => i = j)
    /\ \A n, i : Dir(n) # Staging(i) /\ Dir(n) # Backup(i)
    /\ \A i, j : Staging(i) # Backup(j)
  BY DEF Spots, Dir, Staging, Backup

\* A skill that survives is at a place that is not empty.
LEMMA KeptIsFull ==
    ASSUME NEW n, NEW p, Kept(n, p)
    PROVE  FolderAt(p).files # {}
  BY DEF Kept, FolderAt, Parcel

\* What a rename does to the places.
LEMMA RenameFrame ==
    ASSUME SkillInv, NEW from \in Spots, NEW to \in Spots, from # to,
           Movable(from, to), Rename(from, to), UNCHANGED <<folders, numFolders, removal>>
    PROVE  /\ place' \in [Spots -> 0..numFolders'] /\ OneSpot' /\ OpensOnce' /\ Torn' = Torn
           /\ place'[to] = place[from] /\ place'[from] = 0 /\ place[from] # 0
           /\ \A p \in Spots : p # from /\ p # to => place'[p] = place[p]
           /\ \A f, n : Good(f, n)' <=> Good(f, n)
           /\ \A n : Kept(n, from) => Kept(n, to)'
           /\ \A n : \A p \in Spots : Kept(n, p) /\ p # from => p # to /\ Kept(n, p)'
           /\ \A n : Kept(n, to)' => Kept(n, from)
<1>1. /\ place \in [Spots -> 0..numFolders] /\ OneSpot
      /\ place' = [place EXCEPT ![to] = place[from], ![from] = 0] /\ place[from] # 0
  BY DEF SkillInv, HubTyped, Rename, Movable
<1>2. /\ place' \in [Spots -> 0..numFolders'] /\ place'[to] = place[from] /\ place'[from] = 0
      /\ \A p \in Spots : p # from /\ p # to => place'[p] = place[p]
  <2>1. numFolders' = numFolders /\ 0 \in 0..numFolders /\ place[from] \in 0..numFolders
    BY <1>1, SkillAssumption DEF SkillInv, HubTyped
  <2> QED
    BY <1>1, <2>1
<1>3. OneSpot'
  BY <1>1, <1>2 DEF OneSpot
<1>4. Torn' = Torn /\ OpensOnce'
  BY DEF Torn, OpensOnce, SkillInv
<1>5. \A f, n : Good(f, n)' <=> Good(f, n)
  BY <1>4 DEF Good, Made
<1>6. \A n : Kept(n, to)' <=> Kept(n, from)
  BY <1>2, <1>4 DEF Kept
<1>7. ASSUME NEW n, Kept(n, to) PROVE FALSE
  <2>1. FolderAt(to).files # {} /\ place[to] # 0
    BY <1>7, KeptIsFull DEF Kept
  <2> QED
    BY <2>1 DEF Movable
<1>8. \A n : \A p \in Spots : Kept(n, p) /\ p # from => p # to /\ Kept(n, p)'
  BY <1>2, <1>4, <1>7 DEF Kept
<1> QED
  BY <1>1, <1>2, <1>3, <1>4, <1>5, <1>6, <1>8

\* The rest of the invariant after a step of install i, from what it does to it.
LEMMA InstallFrame ==
    ASSUME SkillInv, NEW i \in Installs, NEW rec \in InstallShape, install' = [install EXCEPT ![i] = rec]
    PROVE  /\ install' \in [Installs -> InstallShape] /\ install'[i] = rec
           /\ \A j \in Installs : j # i => install'[j] = install[j]
           /\ \A j \in Installs : j # i => (Doomed(j)' <=> Doomed(j))
  BY DEF SkillInv, HubTyped, Doomed

\* Steps that change the record of one install and nothing else.
LEMMA QuietInstall ==
    ASSUME SkillInv, NEW i \in Installs, NEW rec \in InstallShape,
           install' = [install EXCEPT ![i] = rec], UNCHANGED <<place, folders, numFolders, removal, owned>>,
           rec.at \notin {"idle", "over"} => rec.name \in SkillNames,
           rec.at = "rollback" => rec.backedUp,
           rec.backedUp => /\ install[i].backedUp /\ rec.name = install[i].name
                           /\ rec.at \in {"swap", "rollback", "cleanup"},
           rec.at = "cleanup" => ~rec.backedUp,
           rec.at \in {"staging", "stat", "aside", "swap"} =>
               /\ rec.name = install[i].name /\ install[i].at \in {"staging", "stat", "aside", "swap"}
               /\ rec.at # "staging" => install[i].at # "staging"
    PROVE  SkillInv'
<1>1. /\ install' \in [Installs -> InstallShape] /\ install'[i] = rec
      /\ \A j \in Installs : j # i => install'[j] = install[j]
      /\ \A j \in Installs : j # i => (Doomed(j)' <=> Doomed(j))
  BY InstallFrame
<1>2. ~Doomed(i)' /\ \A j \in Installs : Doomed(j)' => Doomed(j)
  BY <1>1 DEF Doomed
<1>3. Torn' = Torn /\ (\A f, n : Good(f, n)' <=> Good(f, n)) /\ \A n, p : Kept(n, p)' <=> Kept(n, p)
  BY DEF Torn, Good, Made, Kept
<1>4. HubTyped' /\ OneSpot' /\ OpensOnce' /\ DirsGood'
  BY <1>1, <1>3 DEF SkillInv, HubTyped, OneSpot, OpensOnce, DirsGood
<1>5. OwnedKept'
  BY <1>2, <1>3 DEF SkillInv, OwnedKept, Refuges
<1>6. \A j \in Installs : j # i => (Staged(j) => Staged(j)')
  BY <1>1, <1>3 DEF Staged
<1>7. Staged(i)'
  BY <1>1, <1>3 DEF SkillInv, InstallsGood, Staged
<1>8. InstallsGood'
  BY <1>1, <1>3, <1>6, <1>7 DEF SkillInv, InstallsGood
<1> QED
  BY <1>4, <1>5, <1>8 DEF SkillInv


\* A new folder at a place: what is elsewhere stays as it is.
LEMMA FolderFrame ==
    ASSUME SkillInv, NEW q \in Spots, NEW fresh, IsFolder(fresh), numFolders < MaxFolders,
           numFolders' = numFolders + 1, place' = [place EXCEPT ![q] = numFolders'],
           folders' = [folders EXCEPT ![numFolders'] = fresh], UNCHANGED removal,
           install' \in [Installs -> InstallShape]
    PROVE  /\ HubTyped' /\ OneSpot' /\ OpensOnce' /\ Torn' = Torn
           /\ numFolders' \in 1..MaxFolders /\ place'[q] = numFolders' /\ folders'[numFolders'] = fresh
           /\ \A p \in Spots : p # q =>
                /\ place'[p] = place[p]
                /\ place[p] = 0 \/ folders'[place[p]] = folders[place[p]]
<1>1. /\ numFolders \in Nat /\ MaxFolders \in Nat /\ numFolders' \in 1..MaxFolders
      /\ place \in [Spots -> 0..numFolders] /\ folders = [f \in 1..MaxFolders |-> folders[f]]
      /\ \A f \in 1..MaxFolders : IsFolder(folders[f])
  BY SkillAssumption DEF HubTyped, SkillInv
<1>2. /\ place' \in [Spots -> 0..numFolders'] /\ place'[q] = numFolders'
      /\ \A p \in Spots : p # q => place'[p] = place[p] /\ place[p] \in 0..numFolders /\ place'[p] # numFolders'
  BY <1>1
<1>3. /\ folders' = [f \in 1..MaxFolders |-> folders'[f]] /\ folders'[numFolders'] = fresh
      /\ \A f \in 1..MaxFolders : f # numFolders' => folders'[f] = folders[f]
  BY <1>1
<1>4. \A f \in 1..MaxFolders : IsFolder(folders'[f])
  BY <1>1, <1>3
<1>5. numFolders' \in 0..MaxFolders /\ removal' \in [Uninstalls -> UninstallShape] /\ Torn' = Torn
  BY <1>1 DEF HubTyped, SkillInv, Torn
<1>6. HubTyped'
  BY <1>2, <1>3, <1>4, <1>5 DEF HubTyped, IsFolder
<1>7. OneSpot' /\ OpensOnce'
  BY <1>1, <1>2 DEF OneSpot, OpensOnce, SkillInv
<1>8. \A p \in Spots : p # q => place[p] = 0 \/ folders'[place[p]] = folders[place[p]]
  BY <1>1, <1>2, <1>3
<1> QED
  BY <1>1, <1>2, <1>3, <1>5, <1>6, <1>7, <1>8

\* A fetched bundle is staged as a new folder, which nothing else knows of.
LEMMA FetchStep ==
    ASSUME SkillInv, NEW i \in Installs, Fetch(i)
    PROVE  SkillInv'
<1> USE SpotsDiffer
<1>0. HubTyped /\ install[i].at = "idle" /\ Over \in InstallShape /\ ~install[i].backedUp
  BY DEF SkillInv, Fetch, Over, InstallShape, InstallAts, InstallsGood
<1>1. CASE install' = [install EXCEPT ![i] = Over] /\ UNCHANGED <<place, folders, numFolders>>
  <2>1. UNCHANGED <<removal, owned>> /\ Over.at = "over" /\ ~Over.backedUp
    BY DEF Fetch, Over
  <2> QED
    BY <1>0, <1>1, <2>1, QuietInstall
<1>2. ASSUME NEW b \in Bundles,
             Accepts(b), numFolders < MaxFolders, numFolders' = numFolders + 1,
             place' = [place EXCEPT ![Staging(i)] = numFolders'],
             folders' = [folders EXCEPT ![numFolders'] =
                 [slug |-> b.slug, md |-> b.md, described |-> b.described, files |-> {}]],
             install' = [install EXCEPT ![i].at = "staging", ![i].name = DirectoryName(b)]
      PROVE  SkillInv'
  <2> DEFINE n == DirectoryName(b)
             rec == [install[i] EXCEPT !.at = "staging", !.name = n]
             fresh == [slug |-> b.slug, md |-> b.md, described |-> b.described, files |-> {}]
  <2>1. ValidMetadata(b.md, b.described, n) /\ n \in SkillNames
    BY <1>2 DEF Accepts, ValidMetadata
  <2>2. /\ rec \in InstallShape /\ rec.at = "staging" /\ rec.name = n /\ ~rec.backedUp
        /\ install' = [install EXCEPT ![i] = rec] /\ install[i] \in InstallShape
    BY <1>0, <1>2, <2>1 DEF HubTyped, InstallShape, InstallAts
  <2>3. /\ install' \in [Installs -> InstallShape] /\ install'[i] = rec
        /\ \A j \in Installs : j # i => install'[j] = install[j]
        /\ \A j \in Installs : j # i => (Doomed(j)' <=> Doomed(j))
    BY <2>2, InstallFrame
  <2> HIDE DEF rec, n
  <2>4. UNCHANGED <<removal, owned>> /\ IsFolder(fresh) /\ fresh.md = b.md /\ fresh.described = b.described
    BY DEF Fetch, IsFolder
  <2> HIDE DEF fresh
  <2>5. /\ HubTyped' /\ OneSpot' /\ OpensOnce' /\ Torn' = Torn
        /\ place'[Staging(i)] = numFolders' /\ folders'[numFolders'] = fresh
        /\ \A p \in Spots : p # Staging(i) =>
             /\ place'[p] = place[p]
             /\ place[p] = 0 \/ folders'[place[p]] = folders[place[p]]
    BY <1>2, <2>3, <2>4, FolderFrame DEF fresh
  <2>11. \A p \in Spots : p # Staging(i) => \A m : Good(place[p], m) => Good(place[p], m)'
    BY <2>5 DEF Good, Made
  <2>12. DirsGood'
    BY <2>11 DEF DirsGood, SkillInv
  <2>13. \A p \in Spots : p # Staging(i) => \A m : Kept(m, p) => Kept(m, p)'
    BY <2>5 DEF Kept
  <2>14. ~Doomed(i)'
    BY <2>2, <2>3 DEF Doomed
  <2>15. OwnedKept'
    <3>1. ASSUME NEW m \in owned PROVE \E p \in Refuges(m)' : Kept(m, p)'
      <4>1. PICK p \in Refuges(m) : Kept(m, p)
        BY DEF SkillInv, OwnedKept
      <4>2. m \in SkillNames /\ p \in Spots /\ p # Staging(i)
        BY DEF SkillInv, OwnedKept, Refuges
      <4>3. p \in Refuges(m)'
        BY <2>3, <2>14 DEF Refuges
      <4> QED
        BY <2>13, <4>1, <4>2, <4>3
    <3> QED
      BY <2>4, <3>1 DEF OwnedKept, SkillInv
  <2>16. \A j \in Installs : j # i => (Staged(j) => Staged(j)')
    BY <2>3, <2>5 DEF Staged
  <2>17. Staged(i)'
    BY <2>1, <2>2, <2>3, <2>4, <2>5 DEF Staged
  <2>18. InstallsGood'
    BY <2>1, <2>2, <2>3, <2>11, <2>16, <2>17 DEF InstallsGood, SkillInv
  <2> QED
    BY <2>5, <2>12, <2>15, <2>18 DEF SkillInv
<1> QED
  BY <1>1, <1>2 DEF Fetch

\* A file is added to a folder that is being staged.
LEMMA StageFileStep ==
    ASSUME SkillInv, NEW i \in Installs, NEW file \in Parcel, StageFile(i, file)
    PROVE  SkillInv'
<1> DEFINE f == place[Staging(i)]
           to == IF file = "marker" THEN "stat" ELSE "staging"
           rec == [install[i] EXCEPT !.at = to]
<1> USE SpotsDiffer
<1>1. /\ HubTyped /\ install[i] \in InstallShape /\ install[i].at = "staging" /\ ~install[i].backedUp
      /\ install[i].name \in SkillNames /\ install' = [install EXCEPT ![i] = rec]
      /\ UNCHANGED <<place, numFolders, removal, owned>> /\ folders' = [folders EXCEPT ![f].files = @ \cup {file}]
      /\ f \in 0..numFolders /\ numFolders \in 0..MaxFolders /\ MaxFolders \in Nat /\ Torn' = Torn
  <2>1. HubTyped /\ InstallsGood /\ MaxFolders \in Nat
    BY SkillAssumption DEF SkillInv
  <2>2. /\ install[i].at = "staging" /\ UNCHANGED <<place, numFolders, removal, owned>>
        /\ folders' = [folders EXCEPT ![f].files = @ \cup {file}]
        /\ install' = [install EXCEPT ![i].at = to]
    BY DEF StageFile, Advance
  <2>3. /\ install \in [Installs -> InstallShape] /\ f \in 0..numFolders /\ numFolders \in 0..MaxFolders
    BY <2>1 DEF HubTyped
  <2>4. install' = [install EXCEPT ![i] = rec]
    BY <2>2, <2>3 DEF InstallShape
  <2>5. install[i].name \in SkillNames /\ ~install[i].backedUp
    BY <2>1, <2>2, <2>3 DEF InstallsGood, InstallShape
  <2> QED
    BY <2>1, <2>2, <2>3, <2>4, <2>5 DEF Torn
<1>2. rec \in InstallShape /\ rec.at = to /\ to \in {"staging", "stat"} /\ rec.name = install[i].name /\ ~rec.backedUp
  BY <1>1 DEF InstallShape, InstallAts
<1>3. /\ install' \in [Installs -> InstallShape] /\ install'[i] = rec
      /\ \A j \in Installs : j # i => install'[j] = install[j]
      /\ \A j \in Installs : j # i => (Doomed(j)' <=> Doomed(j))
  BY <1>1, <1>2, InstallFrame
<1>4. ~Doomed(i)' /\ ~Doomed(i)
  BY <1>1, <1>2, <1>3 DEF Doomed
<1> HIDE DEF f, rec
<1>5. /\ folders' = [g \in 1..MaxFolders |-> folders'[g]]
      /\ \A g \in 1..MaxFolders : g # f => folders'[g] = folders[g]
      /\ f \in 1..MaxFolders => folders'[f] = [folders[f] EXCEPT !.files = @ \cup {file}]
      /\ f = 0 => folders' = folders
      /\ \A g \in 1..MaxFolders : IsFolder(folders[g])
  <2>1. folders = [g \in 1..MaxFolders |-> folders[g]] /\ \A g \in 1..MaxFolders : IsFolder(folders[g])
    BY <1>1 DEF HubTyped
  <2>2. folders' = [g \in 1..MaxFolders |->
                      IF g = f THEN [folders[g] EXCEPT !.files = @ \cup {file}] ELSE folders[g]]
    BY <1>1, <2>1
  <2>4. f = 0 => folders' = folders
    BY <1>1, <2>1, <2>2
  <2> QED
    BY <1>1, <2>1, <2>2, <2>4
<1>6. f \in 1..MaxFolders => /\ IsFolder(folders'[f]) /\ folders'[f].md = folders[f].md
                             /\ folders'[f].described = folders[f].described /\ folders'[f].slug = folders[f].slug
                             /\ folders'[f].files = folders[f].files \cup {file}
  BY ZenonT(40), <1>5 DEF IsFolder
<1>7. HubTyped'
  <2>1. \A g \in 1..MaxFolders : IsFolder(folders'[g])
    BY <1>5, <1>6
  <2> QED
    BY <1>1, <1>3, <1>5, <2>1 DEF HubTyped, IsFolder
<1>8. OneSpot' /\ OpensOnce'
  BY <1>1 DEF OneSpot, OpensOnce, SkillInv
<1>9. \A p \in Spots : p # Staging(i) => place[p] # f \/ f = 0
  BY <1>1 DEF OneSpot, SkillInv, f
<1>10. \A p \in Spots : p # Staging(i) /\ place[p] # 0 => folders'[place[p]] = folders[place[p]]
  BY <1>1, <1>5, <1>9 DEF HubTyped
<1>11. DirsGood'
  <2>1. ASSUME NEW n \in SkillNames PROVE Good(place[Dir(n)], n)'
    <3>1. Good(place[Dir(n)], n) /\ place'[Dir(n)] = place[Dir(n)]
      BY <1>1 DEF SkillInv, DirsGood
    <3> QED
      <4>1. Dir(n) \in Spots /\ Dir(n) # Staging(i)
        OBVIOUS
      <4>2. place[Dir(n)] = 0 \/ folders'[place[Dir(n)]] = folders[place[Dir(n)]]
        BY <1>10, <4>1
      <4> QED
        BY <1>1, <3>1, <4>2 DEF Good, Made
  <2> QED
    BY <2>1 DEF DirsGood
<1>12. \A p \in Spots : \A m : Kept(m, p) => Kept(m, p)'
  <2>1. ASSUME NEW p \in Spots, NEW m, Kept(m, p), p # Staging(i) PROVE Kept(m, p)'
    BY <1>1, <1>10, <2>1 DEF Kept
  <2>2. ASSUME NEW m, Kept(m, Staging(i)) PROVE FALSE
    BY <1>1, <2>2 DEF Kept, StageFile, f
  <2> QED
    BY <2>1, <2>2
<1>13. OwnedKept'
  <2>1. \A m \in SkillNames : Refuges(m)' = Refuges(m) /\ Refuges(m) \subseteq Spots
    BY <1>3, <1>4 DEF Refuges
  <2> QED
    BY <1>1, <1>12, <2>1 DEF OwnedKept, SkillInv
<1>14. ASSUME NEW j \in Installs, j # i PROVE Staged(j)'
  <2>1. Staged(j) /\ Staging(j) # Staging(i) /\ Staging(j) \in Spots
    BY <1>14 DEF SkillInv, InstallsGood
  <2> QED
    BY <1>1, <1>3, <1>10, <1>14, <2>1 DEF Staged
<1>15. Staged(i)'
  <2>1. Staged(i)
    BY DEF SkillInv, InstallsGood
  <2>2. CASE f = 0
    BY <1>1, <2>2 DEF Staged, f
  <2>3. CASE f \in 1..MaxFolders
    <3>1. /\ f \notin Torn => ValidMetadata(folders[f].md, folders[f].described, install[i].name)
          /\ file = "marker" => folders'[f].files = Parcel
      BY <1>1, <1>6, <2>1, <2>3 DEF Staged, StageFile, f, Parcel
    <3>2. place'[Staging(i)] = f
      BY <1>1 DEF f
    <3> QED
      BY <1>1, <1>2, <1>3, <1>6, <2>3, <3>1, <3>2 DEF Staged
  <2> QED
    BY <1>1, <2>2, <2>3
<1>16. InstallsGood'
  <2>1. ASSUME NEW j \in Installs, j # i, install[j].backedUp PROVE Good(place[Backup(j)], install[j].name)'
    <3>1. Good(place[Backup(j)], install[j].name) /\ Backup(j) # Staging(i) /\ Backup(j) \in Spots
      BY <2>1 DEF SkillInv, InstallsGood
    <3> QED
      BY <1>1, <1>3, <1>10, <2>1, <3>1 DEF Good, Made
  <2> QED
    BY <1>1, <1>2, <1>3, <1>14, <1>15, <2>1 DEF InstallsGood, SkillInv
<1> QED
  BY <1>7, <1>8, <1>11, <1>13, <1>16 DEF SkillInv

\* A folder that a user copies in is a new folder under a name that was free.
LEMMA HandCopyStep ==
    ASSUME SkillInv, NEW n \in SkillNames, NEW md \in SkillNames, HandCopy(n, md)
    PROVE  SkillInv'
<1> DEFINE fresh == [slug |-> "", md |-> md, described |-> TRUE, files |-> {"SKILL.md", "rest"}]
<1> USE SpotsDiffer
<1>1. /\ HubTyped /\ UNCHANGED <<install, removal, owned>> /\ Torn' = Torn /\ place[Dir(n)] = 0
      /\ numFolders' = numFolders + 1 /\ place' = [place EXCEPT ![Dir(n)] = numFolders']
      /\ folders' = [folders EXCEPT ![numFolders'] = fresh]
  BY DEF HandCopy, SkillInv, Torn
<1>3. IsFolder(fresh) /\ fresh.slug = "" /\ "marker" \notin fresh.files
  BY DEF IsFolder, Parcel
<1> HIDE DEF fresh
<1>4. /\ HubTyped' /\ OneSpot' /\ OpensOnce' /\ Torn' = Torn
      /\ place'[Dir(n)] = numFolders' /\ folders'[numFolders'] = fresh
      /\ \A p \in Spots : p # Dir(n) =>
           /\ place'[p] = place[p]
           /\ place[p] = 0 \/ folders'[place[p]] = folders[place[p]]
  <2>1. numFolders < MaxFolders /\ install' \in [Installs -> InstallShape]
    BY <1>1 DEF HandCopy, HubTyped
  <2> QED
    BY <1>1, <1>3, <2>1, FolderFrame
<1>8. \A p \in Spots : p # Dir(n) => \A m : Good(place[p], m) => Good(place[p], m)'
  BY <1>4 DEF Good, Made
<1>9. \A m : Good(place[Dir(n)], m)'
  BY <1>3, <1>4 DEF Good
<1>10. DirsGood'
  BY <1>8, <1>9 DEF DirsGood, SkillInv
<1>11. \A p \in Spots : \A m : Kept(m, p) => Kept(m, p)'
  <2>1. \A m : ~Kept(m, Dir(n))
    BY <1>1 DEF Kept
  <2> QED
    BY <1>1, <1>4, <2>1 DEF Kept
<1>12. OwnedKept'
  <2>1. \A m \in SkillNames : Refuges(m)' = Refuges(m) /\ Refuges(m) \subseteq Spots
    BY <1>1 DEF Refuges, Doomed
  <2> QED
    BY <1>1, <1>11, <2>1 DEF OwnedKept, SkillInv
<1>13. \A j \in Installs : Staged(j)'
  <2>1. \A j \in Installs : Staged(j) /\ Staging(j) # Dir(n) /\ Staging(j) \in Spots
    BY DEF SkillInv, InstallsGood
  <2> QED
    BY <1>1, <1>4, <2>1 DEF Staged
<1>14. InstallsGood'
  <2>1. ASSUME NEW j \in Installs, install[j].backedUp PROVE Good(place[Backup(j)], install[j].name)'
    <3>1. Good(place[Backup(j)], install[j].name) /\ Backup(j) \in Spots /\ Backup(j) # Dir(n)
      BY <2>1 DEF SkillInv, InstallsGood
    <3>2. install' = install
      BY <1>1
    <3> QED
      BY <1>4, <3>1, <3>2 DEF Good, Made
  <2> QED
    BY <1>1, <1>13, <2>1 DEF InstallsGood, SkillInv
<1> QED
  BY <1>4, <1>10, <1>12, <1>14 DEF SkillInv

\* The steps of an install that fail, and the one that looks at the target: no place
\* changes.
LEMMA QuietMove ==
    ASSUME SkillInv, NEW i \in Installs, NEW to \in {"swap", "aside", "rollback", "cleanup"}, NEW b \in BOOLEAN,
           UNCHANGED <<place, folders, numFolders, removal, owned>>,
           install' = [install EXCEPT ![i].at = to, ![i].backedUp = b],
           install[i].at \in {"staging", "stat", "aside", "swap", "rollback"},
           to = "rollback" => b, to = "cleanup" => ~b,
           b => install[i].backedUp /\ to \in {"swap", "rollback"},
           to \in {"swap", "aside"} => install[i].at \in {"stat", "aside", "swap"}
    PROVE  SkillInv'
<1> DEFINE rec == [install[i] EXCEPT !.at = to, !.backedUp = b]
<1>1. /\ install \in [Installs -> InstallShape] /\ install[i] \in InstallShape
      /\ install[i].name \in SkillNames
  BY DEF SkillInv, HubTyped, InstallsGood
<1>2. rec \in InstallShape /\ rec.at = to /\ rec.backedUp = b /\ rec.name = install[i].name
  BY <1>1 DEF InstallShape, InstallAts
<1>3. install' = [install EXCEPT ![i] = rec]
  BY <1>1
<1> HIDE DEF rec
<1> QED
  BY ZenonT(40), <1>1, <1>2, <1>3, QuietInstall

\* A step that only advances leaves backedUp as it is.
LEMMA AdvanceKeeps ==
    ASSUME SkillInv, NEW i \in Installs, NEW to, Advance(i, to)
    PROVE  /\ install' = [install EXCEPT ![i].at = to, ![i].backedUp = install[i].backedUp]
           /\ install[i].backedUp \in BOOLEAN
  BY DEF Advance, SkillInv, HubTyped, InstallShape

\* An install that fails while it is staged goes on to clean up.
LEMMA StageFailsStep ==
    ASSUME SkillInv, NEW i \in Installs, StageFails(i)
    PROVE  SkillInv'
<1>1. /\ install[i].at = "staging" /\ UNCHANGED <<place, folders, numFolders, removal, owned>>
      /\ Advance(i, "cleanup")
  BY DEF StageFails
<1>2. ~install[i].backedUp
  BY <1>1 DEF SkillInv, InstallsGood
<1> QED
  BY <1>1, <1>2, AdvanceKeeps, QuietMove

\* An install looks where its folder will go.
LEMMA StatTargetStep ==
    ASSUME SkillInv, NEW i \in Installs, StatTarget(i)
    PROVE  SkillInv'
<1>1. /\ install[i].at = "stat" /\ UNCHANGED <<place, folders, numFolders, removal, owned>>
      /\ Advance(i, "swap") \/ Advance(i, "aside")
  BY DEF StatTarget
<1>2. ~install[i].backedUp
  BY <1>1 DEF SkillInv, InstallsGood
<1> QED
  BY <1>1, <1>2, AdvanceKeeps, QuietMove

\* What a rename by install i leaves as it is.
LEMMA MoveFrame ==
    ASSUME SkillInv, NEW i \in Installs, NEW rec \in InstallShape, install' = [install EXCEPT ![i] = rec],
           NEW from \in Spots, NEW to \in Spots, from # to,
           Movable(from, to), Rename(from, to), UNCHANGED <<folders, numFolders, removal>>,
           \A j \in Installs : j # i =>
               from # Staging(j) /\ from # Backup(j) /\ to # Staging(j) /\ to # Backup(j),
           \A n \in SkillNames : to = Dir(n) => Good(place[from], n)
    PROVE  /\ HubTyped' /\ OneSpot' /\ OpensOnce' /\ DirsGood'
           /\ \A j \in Installs : j # i =>
                /\ install'[j] = install[j] /\ (Doomed(j)' <=> Doomed(j)) /\ Staged(j)'
                /\ install[j].backedUp => Good(place[Backup(j)], install[j].name)'
<1> USE SpotsDiffer
<1>1. /\ place' \in [Spots -> 0..numFolders'] /\ OneSpot' /\ OpensOnce' /\ Torn' = Torn
      /\ place'[to] = place[from] /\ place'[from] = 0 /\ place[from] # 0
      /\ \A p \in Spots : p # from /\ p # to => place'[p] = place[p]
  BY RenameFrame
<1>2. /\ install' \in [Installs -> InstallShape] /\ install'[i] = rec
      /\ \A j \in Installs : j # i => install'[j] = install[j]
      /\ \A j \in Installs : j # i => (Doomed(j)' <=> Doomed(j))
  BY InstallFrame
<1>3. HubTyped'
  BY <1>1, <1>2 DEF HubTyped, SkillInv, IsFolder
<1>4. ASSUME NEW n \in SkillNames PROVE Good(place[Dir(n)], n)'
  <2>1. CASE Dir(n) = from
    BY <1>1, <2>1 DEF Good
  <2>2. CASE Dir(n) = to
    <3>1. Good(place[from], n)
      BY <2>2
    <3> QED
      BY <1>1, <2>2, <3>1 DEF Good, Made
  <2>3. CASE Dir(n) # from /\ Dir(n) # to
    <3>1. Good(place[Dir(n)], n) /\ place'[Dir(n)] = place[Dir(n)]
      BY <1>1, <2>3 DEF SkillInv, DirsGood
    <3> QED
      BY <1>1, <3>1 DEF Good, Made
  <2> QED
    BY <2>1, <2>2, <2>3
<1>5. ASSUME NEW j \in Installs, j # i PROVE place'[Staging(j)] = place[Staging(j)] /\ place'[Backup(j)] = place[Backup(j)]
  BY <1>1, <1>5
<1>6. ASSUME NEW j \in Installs, j # i PROVE Staged(j)'
  <2>1. Staged(j)
    BY DEF SkillInv, InstallsGood
  <2> QED
    BY <1>1, <1>2, <1>5, <1>6, <2>1 DEF Staged
<1>7. ASSUME NEW j \in Installs, j # i, install[j].backedUp PROVE Good(place[Backup(j)], install[j].name)'
  <2>1. Good(place[Backup(j)], install[j].name)
    BY <1>7 DEF SkillInv, InstallsGood
  <2> QED
    BY <1>1, <1>2, <1>5, <1>7, <2>1 DEF Good, Made
<1>8. DirsGood'
  BY <1>4 DEF DirsGood
<1> QED
  BY <1>1, <1>2, <1>3, <1>6, <1>7, <1>8

\* An old version moved aside is still kept: its backup is nobody's to delete yet.
LEMMA MoveAsideStep ==
    ASSUME SkillInv, NEW i \in Installs, MoveAside(i)
    PROVE  SkillInv'
<1> USE SpotsDiffer
<1>0. PICK n \in SkillNames : install[i].name = n
  BY DEF MoveAside, Rollback, SkillInv, InstallsGood
<1> DEFINE rec == [install[i] EXCEPT !.at = "swap", !.backedUp = TRUE]
<1>1. /\ install[i].at = "aside" /\ UNCHANGED <<folders, numFolders, removal, owned>>
      /\ install \in [Installs -> InstallShape] /\ ~install[i].backedUp
  BY DEF MoveAside, SkillInv, HubTyped, InstallsGood
<1>2. CASE Advance(i, "cleanup") /\ UNCHANGED place
  BY <1>1, <1>2, AdvanceKeeps, QuietMove
<1>3. ASSUME Movable(Dir(n), Backup(i)), Rename(Dir(n), Backup(i)),
             install' = [install EXCEPT ![i].at = "swap", ![i].backedUp = TRUE]
      PROVE  SkillInv'
  <2>1. /\ rec \in InstallShape /\ rec.at = "swap" /\ rec.backedUp /\ rec.name = n
        /\ install' = [install EXCEPT ![i] = rec]
    BY <1>0, <1>1, <1>3 DEF InstallShape, InstallAts
  <2> HIDE DEF rec
  <2>2. /\ HubTyped' /\ OneSpot' /\ OpensOnce' /\ DirsGood'
        /\ \A j \in Installs : j # i =>
             /\ install'[j] = install[j] /\ (Doomed(j)' <=> Doomed(j)) /\ Staged(j)'
             /\ install[j].backedUp => Good(place[Backup(j)], install[j].name)'
    <3>1. \A j \in Installs : j # i =>
               Dir(n) # Staging(j) /\ Dir(n) # Backup(j) /\ Backup(i) # Staging(j) /\ Backup(i) # Backup(j)
      OBVIOUS
    <3>2. \A m \in SkillNames : Backup(i) # Dir(m)
      OBVIOUS
    <3>3. Dir(n) \in Spots /\ Backup(i) \in Spots /\ Dir(n) # Backup(i)
      BY <1>1
    <3>4. UNCHANGED <<folders, numFolders, removal>>
      BY <1>1
    <3>5. \A m \in SkillNames : Backup(i) = Dir(m) => Good(place[Dir(n)], m)
      BY <3>2
    <3>6. rec \in InstallShape /\ install' = [install EXCEPT ![i] = rec]
      BY <2>1
    <3> QED
      BY <1>3, <3>1, <3>3, <3>4, <3>5, <3>6, MoveFrame
  <2>3. /\ place'[Backup(i)] = place[Dir(n)] /\ Torn' = Torn /\ place'[Staging(i)] = place[Staging(i)]
        /\ \A m : Kept(m, Dir(n)) => Kept(m, Backup(i))'
        /\ \A m : \A p \in Spots : Kept(m, p) /\ p # Dir(n) => Kept(m, p)'
    BY <1>1, <1>3, RenameFrame
  <2>4. /\ install' \in [Installs -> InstallShape] /\ install'[i] = rec
    BY <2>1, InstallFrame
  <2>5. ~Doomed(i) /\ ~Doomed(i)'
    BY <1>1, <2>1, <2>4 DEF Doomed
  <2>6. Good(place[Backup(i)], n)'
    <3>1. Good(place[Dir(n)], n)
      BY DEF SkillInv, DirsGood
    <3> QED
      BY <1>1, <2>3, <3>1 DEF Good, Made
  <2>7. Staged(i)'
    <3>1. Staged(i)
      BY DEF SkillInv, InstallsGood
    <3> QED
      BY <1>0, <1>1, <2>1, <2>3, <2>4, <3>1 DEF Staged
  <2>8. InstallsGood'
    BY <1>0, <1>1, <2>1, <2>2, <2>4, <2>6, <2>7 DEF InstallsGood, SkillInv
  <2>9. ASSUME NEW m \in owned PROVE \E p \in Refuges(m)' : Kept(m, p)'
    <3>1. PICK p \in Refuges(m) : Kept(m, p)
      BY DEF SkillInv, OwnedKept
    <3>2. m \in SkillNames /\ p \in Spots /\ Backup(i) \in Refuges(m)' /\ p \in Refuges(m)'
      BY <2>2, <2>5, <3>1 DEF SkillInv, OwnedKept, Refuges
    <3> QED
      BY <2>3, <3>1, <3>2
  <2>10. OwnedKept'
    BY <1>1, <2>9 DEF OwnedKept, SkillInv
  <2> QED
    BY <2>2, <2>8, <2>10 DEF SkillInv
<1> QED
  BY <1>0, <1>2, <1>3 DEF MoveAside

\* The backup of a failed swap comes back, or is left alone.
LEMMA RollbackStep ==
    ASSUME SkillInv, NEW i \in Installs, Rollback(i)
    PROVE  SkillInv'
<1> USE SpotsDiffer
<1>0. PICK n \in SkillNames : install[i].name = n
  BY DEF MoveAside, Rollback, SkillInv, InstallsGood
<1> DEFINE rec == [install[i] EXCEPT !.at = "cleanup", !.backedUp = FALSE]
<1>1. /\ install[i].at = "rollback" /\ UNCHANGED <<folders, numFolders, removal, owned>>
      /\ install \in [Installs -> InstallShape] /\ Good(place[Backup(i)], n)
      /\ install' = [install EXCEPT ![i].at = "cleanup", ![i].backedUp = FALSE]
  BY <1>0 DEF Rollback, SkillInv, HubTyped, InstallsGood
<1>2. CASE UNCHANGED place
  BY <1>1, <1>2, QuietMove
<1>3. ASSUME Movable(Backup(i), Dir(n)), Rename(Backup(i), Dir(n)) PROVE SkillInv'
  <2>1. /\ rec \in InstallShape /\ rec.at = "cleanup" /\ ~rec.backedUp /\ rec.name = n
        /\ install' = [install EXCEPT ![i] = rec]
    BY ZenonT(40), <1>0, <1>1 DEF InstallShape, InstallAts
  <2> HIDE DEF rec
  <2>2. /\ HubTyped' /\ OneSpot' /\ OpensOnce' /\ DirsGood'
        /\ \A j \in Installs : j # i =>
             /\ install'[j] = install[j] /\ (Doomed(j)' <=> Doomed(j)) /\ Staged(j)'
             /\ install[j].backedUp => Good(place[Backup(j)], install[j].name)'
    <3>1. \A j \in Installs : j # i =>
               Backup(i) # Staging(j) /\ Backup(i) # Backup(j) /\ Dir(n) # Staging(j) /\ Dir(n) # Backup(j)
      OBVIOUS
    <3>2. \A m \in SkillNames : Dir(n) = Dir(m) => Good(place[Backup(i)], m)
      BY <1>1
    <3>3. Dir(n) \in Spots /\ Backup(i) \in Spots /\ Dir(n) # Backup(i)
      BY <1>1
    <3>4. UNCHANGED <<folders, numFolders, removal>>
      BY <1>1
    <3>5. rec \in InstallShape /\ install' = [install EXCEPT ![i] = rec]
      BY <2>1
    <3> QED
      BY <1>3, <3>1, <3>2, <3>3, <3>4, <3>5, MoveFrame
  <2>3. /\ \A m : Kept(m, Backup(i)) => Kept(m, Dir(n))'
        /\ \A m : \A p \in Spots : Kept(m, p) /\ p # Backup(i) => Kept(m, p)'
    <3>1. Dir(n) \in Spots /\ Backup(i) \in Spots /\ Dir(n) # Backup(i)
      BY <1>1
    <3> QED
      BY <1>1, <1>3, <3>1, RenameFrame
  <2>4. /\ install' \in [Installs -> InstallShape] /\ install'[i] = rec
    BY <2>1, InstallFrame
  <2>5. ~Doomed(i) /\ ~Doomed(i)'
    BY <1>1, <2>1, <2>4 DEF Doomed
  <2>6. InstallsGood'
    BY <1>0, <1>1, <2>1, <2>2, <2>4 DEF InstallsGood, SkillInv, Staged
  <2>7. ASSUME NEW m, Kept(m, Backup(i)) PROVE m = n
    BY <1>1, <2>7 DEF Kept, Good, Made, ValidMetadata, Parcel
  <2>8. ASSUME NEW m \in owned PROVE \E p \in Refuges(m)' : Kept(m, p)'
    <3>1. PICK p \in Refuges(m) : Kept(m, p)
      BY DEF SkillInv, OwnedKept
    <3>2. m \in SkillNames /\ p \in Spots /\ Dir(m) \in Refuges(m)' /\ p \in Refuges(m)'
      BY <2>2, <2>5, <3>1 DEF SkillInv, OwnedKept, Refuges
    <3>3. CASE p = Backup(i)
      <4>1. m = n
        BY <2>7, <3>1, <3>3
      <4> QED
        BY <2>3, <3>1, <3>2, <3>3, <4>1
    <3> QED
      BY <2>3, <3>1, <3>2, <3>3
  <2>9. OwnedKept'
    BY <1>1, <2>8 DEF OwnedKept, SkillInv
  <2> QED
    BY <2>2, <2>6, <2>9 DEF SkillInv
<1> QED
  BY <1>0, <1>1, <1>2, <1>3 DEF Rollback

\* The new version takes the directory; from then on its backup is not needed.
LEMMA SwapInStep ==
    ASSUME SkillInv, NEW i \in Installs, SwapIn(i)
    PROVE  SkillInv'
<1> USE SpotsDiffer
<1>0. PICK n \in SkillNames : install[i].name = n
  BY DEF SwapIn, SkillInv, InstallsGood
<1> DEFINE rec == [install[i] EXCEPT !.at = "cleanup"]
<1>1. /\ install[i].at = "swap" /\ UNCHANGED <<folders, numFolders, removal>>
      /\ install \in [Installs -> InstallShape] /\ install[i].backedUp \in BOOLEAN
      /\ install[i].backedUp => Good(place[Backup(i)], n)
      /\ place[Staging(i)] \notin Torn \cup {0} => Made(place[Staging(i)], n)
  <2>1. install \in [Installs -> InstallShape] /\ install[i].backedUp \in BOOLEAN
    BY DEF SkillInv, HubTyped, InstallShape
  <2>2. install[i].at = "swap" /\ UNCHANGED <<folders, numFolders, removal>>
    BY DEF SwapIn
  <2>3. Staged(i) /\ (install[i].backedUp => Good(place[Backup(i)], n))
    BY <1>0 DEF SkillInv, InstallsGood
  <2> QED
    BY <1>0, <2>1, <2>2, <2>3 DEF Staged, Made
<1>2. CASE /\ Advance(i, IF install[i].backedUp THEN "rollback" ELSE "cleanup")
           /\ UNCHANGED <<place, owned>>
  <2>1. CASE install[i].backedUp
    <3>1. Advance(i, "rollback")
      BY <1>2, <2>1
    <3> QED
      BY <1>1, <1>2, <2>1, <3>1, AdvanceKeeps, QuietMove
  <2>2. CASE ~install[i].backedUp
    <3>1. Advance(i, "cleanup")
      BY <1>2, <2>2
    <3> QED
      BY <1>1, <1>2, <2>2, <3>1, AdvanceKeeps, QuietMove
  <2> QED
    BY <2>1, <2>2
<1>3. ASSUME Movable(Staging(i), Dir(n)), Rename(Staging(i), Dir(n)), Advance(i, "cleanup"),
             owned' = IF place[Staging(i)] \in Torn THEN owned \ {n} ELSE owned \cup {n}
      PROVE  SkillInv'
  <2>1. /\ rec \in InstallShape /\ rec.at = "cleanup" /\ rec.backedUp = install[i].backedUp /\ rec.name = n
        /\ install' = [install EXCEPT ![i] = rec]
    BY <1>0, <1>1, <1>3 DEF InstallShape, InstallAts, Advance
  <2> HIDE DEF rec
  <2>2. Good(place[Staging(i)], n)
    BY <1>1 DEF Good
  <2>3. /\ HubTyped' /\ OneSpot' /\ OpensOnce' /\ DirsGood'
        /\ \A j \in Installs : j # i =>
             /\ install'[j] = install[j] /\ (Doomed(j)' <=> Doomed(j)) /\ Staged(j)'
             /\ install[j].backedUp => Good(place[Backup(j)], install[j].name)'
    <3>1. \A j \in Installs : j # i =>
               Staging(i) # Staging(j) /\ Staging(i) # Backup(j) /\ Dir(n) # Staging(j) /\ Dir(n) # Backup(j)
      OBVIOUS
    <3>2. \A m \in SkillNames : Dir(n) = Dir(m) => Good(place[Staging(i)], m)
      BY <2>2
    <3>3. Dir(n) \in Spots /\ Staging(i) \in Spots /\ Dir(n) # Staging(i)
      BY <1>1
    <3>4. UNCHANGED <<folders, numFolders, removal>>
      BY <1>1
    <3>5. rec \in InstallShape /\ install' = [install EXCEPT ![i] = rec]
      BY <2>1
    <3> QED
      BY <1>3, <3>1, <3>2, <3>3, <3>4, <3>5, MoveFrame
  <2>4. /\ place'[Dir(n)] = place[Staging(i)] /\ place[Staging(i)] # 0 /\ Torn' = Torn
        /\ place'[Backup(i)] = place[Backup(i)]
        /\ \A m : \A p \in Spots : Kept(m, p) /\ p # Staging(i) => Kept(m, p)'
    <3>1. Dir(n) \in Spots /\ Staging(i) \in Spots /\ Dir(n) # Staging(i) /\ Backup(i) \in Spots
          /\ Backup(i) # Staging(i) /\ Backup(i) # Dir(n)
      BY <1>1
    <3>2. UNCHANGED <<folders, numFolders, removal>>
      BY <1>1
    <3> QED
      BY <1>3, <3>1, <3>2, RenameFrame
  <2>5. /\ install' \in [Installs -> InstallShape] /\ install'[i] = rec
    BY <2>1, InstallFrame
  <2>6. install[i].backedUp => Good(place[Backup(i)], n)'
    <3>1. CASE install[i].backedUp
      <4>1. Good(place[Backup(i)], n)
        BY <1>1, <3>1
      <4> QED
        BY <1>1, <2>4, <4>1 DEF Good, Made
    <3> QED
      BY <3>1
  <2>7. InstallsGood'
    BY <1>0, <1>1, <2>1, <2>3, <2>5, <2>6 DEF InstallsGood, SkillInv, Staged
  <2>8. ASSUME NEW m \in owned, m # n PROVE \E p \in Refuges(m)' : Kept(m, p)'
    <3>1. PICK p \in Refuges(m) : Kept(m, p)
      BY DEF SkillInv, OwnedKept
    <3>2. m \in SkillNames /\ p \in Spots /\ p # Staging(i)
      BY <3>1 DEF SkillInv, OwnedKept, Refuges
    <3>3. p = Backup(i) => ~install[i].backedUp
      <4>1. ASSUME p = Backup(i), install[i].backedUp PROVE FALSE
        <5>1. Good(place[Backup(i)], n)
          BY <1>1, <4>1
        <5> QED
          BY <2>8, <3>1, <4>1, <5>1 DEF Kept, Good, Made, ValidMetadata, Parcel
      <4> QED
        BY <4>1
    <3>4. p \in Refuges(m)'
      <4>1. p = Backup(i) => ~Doomed(i)'
        BY <2>1, <2>5, <3>3 DEF Doomed
      <4> QED
        BY <2>3, <3>1, <4>1 DEF Refuges
    <3> QED
      BY <2>4, <3>1, <3>2, <3>4
  <2>9. CASE place[Staging(i)] \in Torn
    <3>1. owned' = owned \ {n}
      BY <1>3, <2>9
    <3> QED
      <4>1. OwnedKept'
        BY <2>8, <3>1 DEF OwnedKept, SkillInv
      <4> QED
        BY <2>3, <2>7, <4>1 DEF SkillInv
  <2>10. CASE place[Staging(i)] \notin Torn
    <3>1. owned' = owned \cup {n}
      BY <1>3, <2>10
    <3>2. Made(place[Staging(i)], n)
      BY <1>1, <2>4, <2>10
    <3>3. Kept(n, Dir(n))'
      BY <1>1, <2>4, <2>10, <3>2 DEF Kept, Made, ValidMetadata
    <3>4. Dir(n) \in Refuges(n)'
      BY DEF Refuges
    <3>5. OwnedKept'
      BY <2>8, <3>1, <3>3, <3>4 DEF OwnedKept, SkillInv
    <3> QED
      BY <2>3, <2>7, <3>5 DEF SkillInv
  <2> QED
    BY <2>9, <2>10
<1> QED
  BY <1>0, <1>2, <1>3 DEF SwapIn

\* The staging directory goes, and the backup of a version that was replaced.
LEMMA CleanUpStep ==
    ASSUME SkillInv, NEW i \in Installs, CleanUp(i)
    PROVE  SkillInv'
<1> USE SpotsDiffer
<1>1. /\ HubTyped /\ install[i].at = "cleanup" /\ UNCHANGED <<folders, numFolders, removal, owned>>
      /\ install' = [install EXCEPT ![i] = Over] /\ Over \in InstallShape /\ Torn' = Torn
      /\ place' = [place EXCEPT ![Staging(i)] = 0, ![Backup(i)] = IF install[i].backedUp THEN 0 ELSE @]
  BY DEF CleanUp, SkillInv, Torn, Over, InstallShape, InstallAts
<1>2. Over.at = "over" /\ ~Over.backedUp
  BY DEF Over
<1>3. /\ install' \in [Installs -> InstallShape] /\ install'[i] = Over
      /\ \A j \in Installs : j # i => install'[j] = install[j]
      /\ \A j \in Installs : j # i => (Doomed(j)' <=> Doomed(j))
  BY <1>1, InstallFrame
<1>4. /\ place' \in [Spots -> 0..numFolders] /\ 0 \in 0..numFolders
      /\ \A p \in Spots : place'[p] = place[p] \/ place'[p] = 0
      /\ \A p \in Spots : p # Staging(i) /\ (p = Backup(i) => ~install[i].backedUp) => place'[p] = place[p]
  <2>1. place \in [Spots -> 0..numFolders] /\ numFolders \in Nat /\ 0 \in 0..numFolders
    BY <1>1, SkillAssumption DEF HubTyped
  <2>2. ASSUME NEW p \in Spots
        PROVE  /\ place'[p] = place[p] \/ place'[p] = 0
               /\ p # Staging(i) /\ (p = Backup(i) => ~install[i].backedUp) => place'[p] = place[p]
    <3>1. CASE p = Staging(i)
      BY <1>1, <2>1, <2>2, <3>1
    <3>2. CASE p = Backup(i)
      BY <1>1, <2>1, <2>2, <3>2
    <3>3. CASE p # Staging(i) /\ p # Backup(i)
      BY <1>1, <2>1, <2>2, <3>3
    <3> QED
      BY <3>1, <3>2, <3>3
  <2>3. place' \in [Spots -> 0..numFolders]
    BY <1>1, <2>1
  <2> QED
    BY <2>1, <2>2, <2>3
<1>5. HubTyped'
  BY <1>1, <1>3, <1>4 DEF HubTyped, IsFolder
<1>6. OneSpot' /\ OpensOnce'
  BY <1>1, <1>4 DEF OneSpot, OpensOnce, SkillInv
<1>7. ASSUME NEW p \in Spots, NEW m, Good(place[p], m) PROVE Good(place[p], m)'
  BY <1>1, <1>4, <1>7 DEF Good, Made
<1>8. DirsGood'
  BY <1>7 DEF DirsGood, SkillInv
<1>9. ASSUME NEW j \in Installs, j # i PROVE Staged(j)'
  <2>1. Staged(j) /\ (place'[Staging(j)] = place[Staging(j)] \/ place'[Staging(j)] = 0)
    BY <1>4 DEF SkillInv, InstallsGood
  <2> QED
    BY <1>1, <1>3, <1>9, <2>1 DEF Staged
<1>10. ASSUME NEW j \in Installs, j # i, install[j].backedUp PROVE Good(place[Backup(j)], install[j].name)'
  <2>1. Good(place[Backup(j)], install[j].name) /\ Backup(j) \in Spots /\ install'[j] = install[j]
    BY <1>3, <1>10 DEF SkillInv, InstallsGood
  <2> QED
    BY <1>1, <1>4, <2>1 DEF Good, Made
<1>11. InstallsGood'
  BY <1>2, <1>3, <1>9, <1>10 DEF InstallsGood, SkillInv, Staged
<1>12. ~Doomed(i)'
  BY <1>2, <1>3 DEF Doomed
<1>13. ASSUME NEW m \in owned PROVE \E p \in Refuges(m)' : Kept(m, p)'
  <2>1. PICK p \in Refuges(m) : Kept(m, p)
    BY DEF SkillInv, OwnedKept
  <2>2. m \in SkillNames /\ p \in Spots /\ p # Staging(i) /\ p \in Refuges(m)'
    BY <1>3, <1>12, <2>1 DEF SkillInv, OwnedKept, Refuges
  <2>3. p = Backup(i) => ~install[i].backedUp
    BY <1>1, <2>1 DEF Refuges, Doomed
  <2>4. Kept(m, p)'
    BY <1>1, <1>4, <2>1, <2>2, <2>3 DEF Kept
  <2> QED
    BY <2>2, <2>4
<1>14. OwnedKept'
  BY <1>1, <1>13 DEF OwnedKept, SkillInv
<1> QED
  BY <1>5, <1>6, <1>8, <1>11, <1>14 DEF SkillInv

\* Steps of an uninstall that only change its record: nothing of the rest looks at it but
\* for the folders that are torn.
LEMMA QuietRemoval ==
    ASSUME SkillInv, removal' \in [Uninstalls -> UninstallShape], OpensOnce', Torn \subseteq Torn' \cup {0},
           UNCHANGED <<place, folders, numFolders, install>>, owned' \subseteq owned,
           \A n \in owned' : \A p \in Refuges(n) : Kept(n, p) => place[p] \notin Torn'
    PROVE  SkillInv'
<1>1. HubTyped' /\ OneSpot'
  BY DEF SkillInv, HubTyped, OneSpot, IsFolder
<1>2. ASSUME NEW f, NEW n, Good(f, n) PROVE Good(f, n)'
  BY <1>2 DEF Good, Made
<1>3. ASSUME NEW n \in SkillNames PROVE Good(place[Dir(n)], n)'
  <2>1. Good(place[Dir(n)], n) /\ place' = place
    BY DEF SkillInv, DirsGood
  <2> QED
    BY <2>1 DEF Good, Made
<1>4. ASSUME NEW j \in Installs PROVE Staged(j)' /\ (install[j].backedUp => Good(place[Backup(j)], install[j].name)')
  <2>1. Staged(j) /\ (install[j].backedUp => Good(place[Backup(j)], install[j].name))
    BY DEF SkillInv, InstallsGood
  <2>2. Staged(j)'
    BY <2>1 DEF Staged
  <2>3. CASE install[j].backedUp
    <3>1. Good(place[Backup(j)], install[j].name) /\ place' = place /\ install' = install
      BY <2>1, <2>3
    <3> QED
      BY <2>2, <3>1 DEF Good, Made
  <2> QED
    BY <2>2, <2>3
<1>5. InstallsGood'
  BY <1>4 DEF InstallsGood, SkillInv
<1>6. ASSUME NEW n \in owned' PROVE \E p \in Refuges(n)' : Kept(n, p)'
  <2>1. PICK p \in Refuges(n) : Kept(n, p)
    BY DEF SkillInv, OwnedKept
  <2>2. Refuges(n)' = Refuges(n)
    BY DEF Refuges, Doomed
  <2>3. Kept(n, p)'
    BY <1>6, <2>1 DEF Kept
  <2> QED
    BY <2>1, <2>2, <2>3
<1>7. OwnedKept'
  BY <1>6 DEF OwnedKept, SkillInv
<1> QED
  BY <1>1, <1>3, <1>5, <1>7 DEF SkillInv, DirsGood

\* An uninstall finds the folder it was asked for.
LEMMA FindSkillStep ==
    ASSUME SkillInv, NEW u \in Uninstalls, NEW slug \in Slugs, FindSkill(u, slug)
    PROVE  SkillInv'
<1>1. /\ removal \in [Uninstalls -> UninstallShape] /\ removal[u].at = "idle" /\ removal[u].folder = 0 /\ OpensOnce
      /\ UNCHANGED <<place, folders, numFolders, install, owned>>
  BY DEF FindSkill, SkillInv, HubTyped, OpensOnce
<1>2. PICK p \in Spots \cup {""}, at \in {"found", "over"} :
        /\ at = "found" => p \in Spots
        /\ removal' = [removal EXCEPT ![u].at = at, ![u].path = p]
  <2> DEFINE matches == {p \in Spots : Listed(p) /\ SlugAt(p) = slug}
  <2>1. CASE removal' = [removal EXCEPT ![u].at = "over"]
    <3>1. removal' = [removal EXCEPT ![u].at = "over", ![u].path = removal[u].path]
      BY <1>1, <2>1 DEF UninstallShape
    <3>2. removal[u].path \in Spots \cup {""}
      BY <1>1 DEF UninstallShape
    <3> QED
      BY <3>1, <3>2
  <2>2. CASE \E p \in Spots : removal' = [removal EXCEPT ![u].at = "found", ![u].path = p]
    BY <2>2
  <2> QED
    BY <2>1, <2>2 DEF FindSkill
<1>3. /\ removal' \in [Uninstalls -> UninstallShape] /\ removal'[u].at = at /\ removal'[u].path = p
      /\ \A v \in Uninstalls : removal'[v].folder = removal[v].folder
      /\ \A v \in Uninstalls : v # u => removal'[v] = removal[v]
  BY <1>1, <1>2 DEF UninstallShape
<1>4. Torn' = Torn /\ OpensOnce'
  <2>1. \A v \in Uninstalls : removal'[v].folder = removal[v].folder
    BY <1>3
  <2>2. Torn' = Torn
    BY <2>1 DEF Torn
  <2> QED
    BY <1>1, <1>2, <1>3, <2>2 DEF OpensOnce
<1>5. \A n \in owned' : \A q \in Refuges(n) : Kept(n, q) => place[q] \notin Torn'
  BY <1>4 DEF Kept
<1> QED
  BY <1>1, <1>3, <1>4, <1>5, QuietRemoval

\* Opening a folder tears it; the skill whose folder it was is then asked to be removed.
LEMMA OpenFolderStep ==
    ASSUME SkillInv, NEW u \in Uninstalls, OpenFolder(u)
    PROVE  SkillInv'
<1> DEFINE f == place[removal[u].path]
<1>1. /\ removal \in [Uninstalls -> UninstallShape] /\ removal[u].at = "found" /\ removal[u].folder = 0 /\ OpensOnce
      /\ UNCHANGED <<place, folders, numFolders, install>> /\ removal[u].path \in Spots
      /\ place \in [Spots -> 0..numFolders] /\ f \in Nat
  <2>1. numFolders \in Nat /\ place \in [Spots -> 0..numFolders]
    BY SkillAssumption DEF SkillInv, HubTyped
  <2>2. removal \in [Uninstalls -> UninstallShape] /\ OpensOnce
    BY DEF SkillInv, HubTyped
  <2>3. removal[u].at = "found" /\ UNCHANGED <<place, folders, numFolders, install>>
    BY DEF OpenFolder
  <2>4. removal[u].path \in Spots /\ removal[u].folder = 0
    BY <2>2, <2>3 DEF OpensOnce
  <2>5. f \in 0..numFolders
    BY <2>1, <2>4
  <2> QED
    BY <2>1, <2>2, <2>3, <2>4, <2>5
<1>2. CASE f = 0
  <2>1. removal' = [removal EXCEPT ![u].at = "over", ![u].path = ""] /\ UNCHANGED owned
    BY <1>2 DEF OpenFolder
  <2>2. /\ removal' \in [Uninstalls -> UninstallShape] /\ removal'[u].at = "over"
        /\ \A v \in Uninstalls : removal'[v].folder = removal[v].folder
        /\ \A v \in Uninstalls : v # u => removal'[v] = removal[v]
    BY <1>1, <2>1 DEF UninstallShape
  <2>3. Torn' = Torn
    BY <2>2 DEF Torn
  <2>4. OpensOnce'
    BY <1>1, <2>2 DEF OpensOnce
  <2>5. \A n \in owned' : \A q \in Refuges(n) : Kept(n, q) => place[q] \notin Torn'
    BY <2>3 DEF Kept
  <2> QED
    BY <1>1, <2>1, <2>2, <2>3, <2>4, <2>5, QuietRemoval
<1>3. CASE f # 0
  <2>1. removal' = [removal EXCEPT ![u].at = "emptying", ![u].folder = f] /\ owned' = owned \ {folders[f].md}
    BY <1>3 DEF OpenFolder
  <2>2. /\ removal' \in [Uninstalls -> UninstallShape] /\ removal'[u].at = "emptying"
        /\ removal'[u].folder = f /\ removal'[u].path = removal[u].path
        /\ \A v \in Uninstalls : v # u => removal'[v] = removal[v]
    BY <1>1, <2>1 DEF UninstallShape
  <2> HIDE DEF f
  <2>3. OpensOnce'
    BY <1>1, <2>2 DEF OpensOnce
  <2>4. ASSUME NEW n \in owned', NEW q \in Refuges(n), Kept(n, q) PROVE place[q] \notin Torn'
    <3>1. place[q] # f
      BY <2>1, <2>4 DEF Kept
    <3>2. ASSUME NEW v \in Uninstalls PROVE place[q] # removal'[v].folder
      BY <2>2, <2>4, <3>1 DEF Kept, Torn
    <3> QED
      BY <3>2 DEF Torn
  <2>5. Torn \subseteq Torn' \cup {0}
    <3>1. ASSUME NEW v \in Uninstalls PROVE removal[v].folder \in Torn' \cup {0}
      <4>1. removal'[v].folder \in Torn'
        BY DEF Torn
      <4> QED
        BY <1>1, <2>2, <4>1
    <3> QED
      BY <3>1 DEF Torn
  <2> QED
    BY <1>1, <2>1, <2>2, <2>3, <2>4, <2>5, QuietRemoval
<1> QED
  BY <1>2, <1>3

\* RemoveAll goes on, in the folder it opened and in no other.
LEMMA RemoveFileStep ==
    ASSUME SkillInv, NEW u \in Uninstalls, NEW file \in Parcel, RemoveFile(u, file)
    PROVE  SkillInv'
<1> DEFINE f == removal[u].folder
<1>1. /\ HubTyped /\ UNCHANGED <<place, numFolders, install, removal, owned>> /\ Torn' = Torn
      /\ folders' = [folders EXCEPT ![f].files = @ \ {file}] /\ f \in Torn
  BY DEF RemoveFile, SkillInv, Torn
<1>2. folders = [g \in 1..MaxFolders |-> folders[g]] /\ \A g \in 1..MaxFolders : IsFolder(folders[g])
  BY <1>1 DEF HubTyped
<1> HIDE DEF f
<1>3. /\ folders' = [g \in 1..MaxFolders |-> folders'[g]]
      /\ \A g \in 1..MaxFolders : g \notin Torn => folders'[g] = folders[g]
      /\ \A g \in 1..MaxFolders : IsFolder(folders'[g])
  <2>1. \A g \in 1..MaxFolders : g # f => folders'[g] = folders[g]
    BY <1>1, <1>2
  <2>2. f \in 1..MaxFolders => IsFolder(folders'[f])
    BY <1>1, <1>2 DEF IsFolder
  <2> QED
    BY <1>1, <1>2, <2>1, <2>2
<1>4. HubTyped' /\ OneSpot' /\ OpensOnce'
  BY <1>1, <1>3 DEF HubTyped, IsFolder, OneSpot, OpensOnce, SkillInv
<1>5. \A p \in Spots : place[p] \notin Torn \cup {0} => folders'[place[p]] = folders[place[p]]
  BY <1>1, <1>3, SkillAssumption DEF HubTyped
<1> USE SpotsDiffer
<1>6. ASSUME NEW n \in SkillNames PROVE Good(place[Dir(n)], n)'
  <2>1. Good(place[Dir(n)], n) /\ place' = place
    BY <1>1 DEF SkillInv, DirsGood
  <2> QED
    BY <1>1, <1>5, <2>1 DEF Good, Made
<1>7. ASSUME NEW j \in Installs PROVE Staged(j)' /\ (install[j].backedUp => Good(place[Backup(j)], install[j].name)')
  <2>1. Staged(j) /\ (install[j].backedUp => Good(place[Backup(j)], install[j].name))
    BY DEF SkillInv, InstallsGood
  <2>2. Staged(j)'
    BY <1>1, <1>5, <2>1 DEF Staged
  <2>3. CASE install[j].backedUp
    <3>1. Good(place[Backup(j)], install[j].name) /\ place' = place /\ install' = install /\ Backup(j) \in Spots
      BY <1>1, <2>1, <2>3
    <3> QED
      BY <1>1, <1>5, <2>2, <3>1 DEF Good, Made
  <2> QED
    BY <2>2, <2>3
<1>8. InstallsGood'
  BY <1>1, <1>7 DEF InstallsGood, SkillInv
<1>9. \A p \in Spots : \A m : Kept(m, p) => Kept(m, p)'
  BY <1>1, <1>5 DEF Kept
<1>10. OwnedKept'
  <2>1. \A m \in SkillNames : Refuges(m)' = Refuges(m) /\ Refuges(m) \subseteq Spots
    BY <1>1 DEF Refuges, Doomed
  <2> QED
    BY <1>1, <1>9, <2>1 DEF OwnedKept, SkillInv
<1> QED
  BY <1>4, <1>6, <1>8, <1>10 DEF SkillInv, DirsGood

\* The last step of an uninstall takes away a path, if what is there by then is empty.
LEMMA RemoveFolderStep ==
    ASSUME SkillInv, NEW u \in Uninstalls, RemoveFolder(u)
    PROVE  SkillInv'
<1>0. PICK q \in Spots : q = removal[u].path
  BY DEF RemoveFolder, SkillInv, OpensOnce
<1>1. /\ HubTyped /\ UNCHANGED <<folders, numFolders, install, owned>>
      /\ removal' = [removal EXCEPT ![u].at = "over", ![u].path = ""]
      /\ place' = IF FolderAt(q).files = {} THEN [place EXCEPT ![q] = 0] ELSE place
  BY <1>0 DEF RemoveFolder, SkillInv
<1>2. /\ removal' \in [Uninstalls -> UninstallShape] /\ removal'[u].at = "over"
      /\ \A v \in Uninstalls : removal'[v].folder = removal[v].folder
      /\ \A v \in Uninstalls : v # u => removal'[v] = removal[v]
  <2>1. removal \in [Uninstalls -> UninstallShape]
    BY <1>1 DEF HubTyped
  <2>2. removal' = [removal EXCEPT ![u].at = "over", ![u].path = ""]
    BY <1>1
  <2> QED
    BY <2>1, <2>2 DEF UninstallShape
<1>3. Torn' = Torn
  BY <1>2 DEF Torn
<1> USE SpotsDiffer
<1>4. /\ place' \in [Spots -> 0..numFolders] /\ 0 \in 0..numFolders
      /\ \A p \in Spots : place'[p] = place[p] \/ (place'[p] = 0 /\ FolderAt(p).files = {})
  <2>1. place \in [Spots -> 0..numFolders] /\ 0 \in 0..numFolders
    <3>1. HubTyped
      BY <1>1
    <3> QED
      BY <3>1, SkillAssumption DEF HubTyped
  <2>2. CASE FolderAt(q).files = {}
    <3>1. place' = [place EXCEPT ![q] = 0]
      BY <1>1, <2>2
    <3>2. \A p \in Spots : place'[p] = place[p] \/ (place'[p] = 0 /\ p = q)
      BY <2>1, <3>1
    <3> QED
      BY <2>1, <2>2, <3>1, <3>2
  <2>3. CASE FolderAt(q).files # {}
    BY <1>1, <2>1, <2>3
  <2> QED
    BY <2>2, <2>3
<1>5. HubTyped' /\ OneSpot' /\ OpensOnce'
  <2>1. HubTyped'
    BY <1>1, <1>2, <1>4 DEF HubTyped, IsFolder
  <2>2. OneSpot'
    BY <1>4 DEF OneSpot, SkillInv
  <2>3. OpensOnce'
    BY <1>2 DEF OpensOnce, SkillInv
  <2> QED
    BY <2>1, <2>2, <2>3
<1>6. ASSUME NEW p \in Spots, NEW m, Good(place[p], m) PROVE Good(place[p], m)'
  BY <1>1, <1>3, <1>4, <1>6 DEF Good, Made
<1>7. DirsGood'
  BY <1>6 DEF DirsGood, SkillInv
<1>8. ASSUME NEW j \in Installs PROVE Staged(j)' /\ (install[j].backedUp => Good(place[Backup(j)], install[j].name)')
  <2>1. /\ Staged(j) /\ (install[j].backedUp => Good(place[Backup(j)], install[j].name))
        /\ Backup(j) \in Spots /\ Staging(j) \in Spots
    BY DEF SkillInv, InstallsGood
  <2>2. Staged(j)'
    BY <1>1, <1>3, <1>4, <2>1 DEF Staged
  <2>3. CASE install[j].backedUp
    <3>1. Good(place[Backup(j)], install[j].name) /\ install' = install /\ Backup(j) \in Spots
      BY <1>1, <2>1, <2>3
    <3> QED
      BY <1>1, <1>3, <1>4, <2>2, <3>1 DEF Good, Made
  <2> QED
    BY <2>2, <2>3
<1>9. InstallsGood'
  BY <1>1, <1>8 DEF InstallsGood, SkillInv
<1>10. ASSUME NEW m, NEW p \in Spots, Kept(m, p) PROVE Kept(m, p)'
  <2>1. place'[p] = place[p]
    BY <1>4, <1>10, KeptIsFull
  <2> QED
    BY <1>1, <1>3, <1>10, <2>1 DEF Kept
<1>11. OwnedKept'
  <2>1. \A m \in SkillNames : Refuges(m)' = Refuges(m) /\ Refuges(m) \subseteq Spots
    BY ZenonT(40), <1>1 DEF Refuges, Doomed
  <2> QED
    BY <1>1, <1>10, <2>1 DEF OwnedKept, SkillInv
<1> QED
  BY <1>5, <1>7, <1>9, <1>11 DEF SkillInv

\* A run's index starts with the built-in skills and lets nobody take their names.
BuiltinsHeld ==
    /\ BuiltinsStay
    /\ refresh \in [Refreshes -> [at : {"idle", "scanning"}, todo : SUBSET SkillNames,
                                  out : [SkillNames -> {"none", "builtin", "user"}]]]
    /\ \A r \in Refreshes :
        /\ refresh[r].at = "idle" => refresh[r].todo = {}
        /\ refresh[r].at = "scanning" => \A n \in Builtins : refresh[r].out[n] = "builtin"

SkillsInv == SkillInv /\ BuiltinsHeld

\* A fresh index has the built-in skills.
LEMMA FreshHasBuiltins ==
    \A n \in Builtins : FreshIndex[n] = "builtin"
  BY SkillAssumption DEF FreshIndex

\* A refresh of the index moves no folder and loses no built-in skill.
LEMMA RefreshSteps ==
    ASSUME SkillsInv, NEW r \in Refreshes, RefreshStep(r)
    PROVE  BuiltinsHeld' /\ UNCHANGED <<place, folders, numFolders, install, removal, owned>>
<1> DEFINE Run == [at : {"idle", "scanning"}, todo : SUBSET SkillNames,
                   out : [SkillNames -> {"none", "builtin", "user"}]]
<1>1. /\ refresh \in [Refreshes -> Run] /\ BuiltinsStay /\ SkillAssumption
      /\ \A s \in Refreshes : refresh[s].at = "idle" => refresh[s].todo = {}
      /\ \A s \in Refreshes : refresh[s].at = "scanning" => \A n \in Builtins : refresh[s].out[n] = "builtin"
  BY SkillAssumption DEF SkillsInv, BuiltinsHeld
<1>2. ASSUME NEW rec \in Run, refresh' = [refresh EXCEPT ![r] = rec], BuiltinsStay',
             rec.at = "idle" => rec.todo = {},
             rec.at = "scanning" => \A n \in Builtins : rec.out[n] = "builtin"
      PROVE  BuiltinsHeld'
  <2>1. /\ refresh' \in [Refreshes -> Run] /\ refresh'[r] = rec
        /\ \A s \in Refreshes : s # r => refresh'[s] = refresh[s]
    BY <1>1, <1>2
  <2> QED
    BY <1>1, <1>2, <2>1 DEF BuiltinsHeld
<1>3. CASE StartRefresh(r)
  <2> DEFINE rec == [at |-> "scanning", todo |-> {n \in SkillNames : place[Dir(n)] # 0},
                     out |-> [n \in SkillNames |-> IF n \in Builtins THEN "builtin" ELSE "none"]]
  <2>1. /\ refresh' = [refresh EXCEPT ![r] = rec] /\ index' = index
        /\ UNCHANGED <<place, folders, numFolders, install, removal, owned>>
    BY <1>3 DEF StartRefresh
  <2>2. rec \in Run /\ rec.at = "scanning" /\ \A n \in Builtins : rec.out[n] = "builtin"
    BY <1>1 DEF SkillAssumption
  <2>3. BuiltinsStay'
    BY <1>1, <2>1 DEF BuiltinsStay
  <2> HIDE DEF rec, Run
  <2> QED
    BY <1>2, <2>1, <2>2, <2>3
<1>4. ASSUME NEW n \in SkillNames, ScanEntry(r, n)
      PROVE  BuiltinsHeld' /\ UNCHANGED <<place, folders, numFolders, install, removal, owned>>
  <2>1. refresh[r] \in Run /\ refresh[r].at = "scanning" /\ n \in refresh[r].todo
    BY <1>1, <1>4 DEF ScanEntry
  <2>2. /\ index' = index
        /\ UNCHANGED <<place, folders, numFolders, install, removal, owned>>
        /\ refresh' = [refresh EXCEPT ![r].todo = @ \ {n},
                                      ![r].out[n] = IF Discovered(n) /\ @ = "none" THEN "user" ELSE @]
    BY <1>4 DEF ScanEntry
  <2> DEFINE src == IF Discovered(n) /\ refresh[r].out[n] = "none" THEN "user" ELSE refresh[r].out[n]
             rec == [refresh[r] EXCEPT !.todo = @ \ {n}, !.out = [@ EXCEPT ![n] = src]]
  <2>3. refresh' = [refresh EXCEPT ![r] = rec]
    BY <1>1, <2>1, <2>2
  <2>4. src \in {"none", "builtin", "user"}
    BY <2>1
  <2>5. rec \in Run /\ rec.at = "scanning"
    BY <2>1, <2>4
  <2>6. ASSUME NEW m \in Builtins PROVE rec.out[m] = "builtin"
    <3>1. refresh[r].out[m] = "builtin" /\ m \in SkillNames
      BY <1>1, <2>1 DEF SkillAssumption
    <3> QED
      BY <2>1, <3>1
  <2>7. BuiltinsStay'
    BY <1>1, <2>2 DEF BuiltinsStay
  <2> HIDE DEF rec, Run
  <2> QED
    BY <1>2, <2>2, <2>3, <2>5, <2>6, <2>7
<1>5. CASE SwapIndex(r)
  <2> DEFINE rec == [refresh[r] EXCEPT !.at = "idle", !.out = [n \in SkillNames |-> "none"]]
  <2>1. /\ refresh[r].at = "scanning" /\ refresh[r].todo = {} /\ index' = refresh[r].out
        /\ refresh' = [refresh EXCEPT ![r].at = "idle", ![r].out = [n \in SkillNames |-> "none"]]
        /\ UNCHANGED <<place, folders, numFolders, install, removal, owned>>
    BY <1>5 DEF SwapIndex
  <2>2. refresh[r] \in Run
    BY <1>1
  <2>3. rec \in Run /\ rec.at = "idle" /\ rec.todo = {}
    BY <2>1, <2>2
  <2>4. refresh' = [refresh EXCEPT ![r] = rec]
    BY <1>1, <2>1, <2>2
  <2>5. BuiltinsStay'
    BY <1>1, <2>1 DEF BuiltinsStay
  <2> HIDE DEF rec, Run
  <2> QED
    BY <1>2, <2>1, <2>3, <2>4, <2>5
<1> QED
  BY <1>3, <1>4, <1>5 DEF RefreshStep

\* A crash: what is on disk stays, installs and uninstalls stop where they are.
LEMMA RestartHubStep ==
    ASSUME SkillsInv, RestartHub
    PROVE  SkillsInv'
<1>1. /\ SkillInv /\ HubTyped /\ OpensOnce /\ UNCHANGED <<place, folders, numFolders, owned>>
      /\ install' = [i \in Installs |-> IF install[i].at = "idle" THEN install[i] ELSE Over]
      /\ removal' = [u \in Uninstalls |->
           IF removal[u].at = "idle" THEN removal[u] ELSE [removal[u] EXCEPT !.at = "over", !.path = ""]]
  BY DEF RestartHub, SkillsInv, SkillInv
<1>2. Over \in InstallShape /\ Over.at = "over" /\ ~Over.backedUp
  BY DEF Over, InstallShape, InstallAts
<1>3. /\ install' \in [Installs -> InstallShape]
      /\ \A i \in Installs : install'[i].at \in {"idle", "over"} /\ ~install'[i].backedUp
  <2>1. install \in [Installs -> InstallShape] /\ \A i \in Installs : install[i].at = "idle" => ~install[i].backedUp
    BY <1>1 DEF HubTyped, SkillInv, InstallsGood
  <2>2. install' = [i \in Installs |-> IF install[i].at = "idle" THEN install[i] ELSE Over]
    BY <1>1
  <2> QED
    BY <1>2, <2>1, <2>2
<1>4. /\ removal' \in [Uninstalls -> UninstallShape]
      /\ \A u \in Uninstalls : removal'[u].folder = removal[u].folder
      /\ \A u \in Uninstalls : removal'[u] = removal[u] \/ removal'[u].at = "over"
  <2>1. removal \in [Uninstalls -> UninstallShape]
    BY <1>1 DEF HubTyped
  <2>2. removal' = [u \in Uninstalls |->
           IF removal[u].at = "idle" THEN removal[u] ELSE [removal[u] EXCEPT !.at = "over", !.path = ""]]
    BY <1>1
  <2> QED
    BY <2>1, <2>2 DEF UninstallShape
<1>5. Torn' = Torn
  BY <1>4 DEF Torn
<1> USE SpotsDiffer
<1>6. HubTyped'
  <2>1. UNCHANGED <<place, folders, numFolders>> /\ HubTyped
    BY <1>1
  <2> QED
    BY <1>3, <1>4, <2>1 DEF HubTyped, IsFolder
<1>7. OneSpot' /\ OpensOnce'
  <2>1. OneSpot'
    BY <1>1 DEF OneSpot, SkillInv
  <2>2. OpensOnce'
    BY <1>1, <1>4 DEF OpensOnce
  <2> QED
    BY <2>1, <2>2
<1>8. ASSUME NEW n \in SkillNames PROVE Good(place[Dir(n)], n)'
  <2>1. Good(place[Dir(n)], n) /\ UNCHANGED <<place, folders>>
    BY <1>1 DEF SkillInv, DirsGood
  <2> QED
    BY <1>5, <2>1 DEF Good, Made
<1>9. InstallsGood'
  BY <1>3 DEF InstallsGood, Staged
<1>10. OwnedKept'
  <2>1. \A i \in Installs : ~Doomed(i)'
    BY <1>3 DEF Doomed
  <2>2. \A n : Refuges(n) \subseteq Refuges(n)'
    BY <2>1 DEF Refuges
  <2>3. \A n, p : Kept(n, p) => Kept(n, p)'
    BY <1>1, <1>5 DEF Kept
  <2> QED
    BY <1>1, <2>2, <2>3 DEF OwnedKept, SkillInv
<1>11. BuiltinsHeld'
  <2>1. index' = FreshIndex
    BY DEF RestartHub
  <2>2. BuiltinsStay'
    BY <2>1, FreshHasBuiltins DEF BuiltinsStay
  <2>3. refresh' = [r \in Refreshes |-> [at |-> "idle", todo |-> {}, out |-> [n \in SkillNames |-> "none"]]]
    BY DEF RestartHub
  <2> QED
    BY <2>2, <2>3 DEF BuiltinsHeld
<1> QED
  BY <1>6, <1>7, <1>8, <1>9, <1>10, <1>11 DEF SkillsInv, SkillInv, DirsGood

\* At the start no folder is anywhere, and the index is as a scan makes it.
LEMMA SkillInitially == SkillInit => SkillsInv
<1> SUFFICES ASSUME SkillInit PROVE SkillsInv
  OBVIOUS
<1>1. /\ place = [p \in Spots |-> 0] /\ numFolders = 0 /\ folders = [f \in 1..MaxFolders |-> NoFolder]
      /\ install = [i \in Installs |-> [at |-> "idle", name |-> "", backedUp |-> FALSE]]
      /\ removal = [u \in Uninstalls |-> [at |-> "idle", path |-> "", folder |-> 0]]
      /\ refresh = [r \in Refreshes |-> [at |-> "idle", todo |-> {}, out |-> [n \in SkillNames |-> "none"]]]
      /\ index = FreshIndex /\ owned = {}
  BY DEF SkillInit
<1>2. IsFolder(NoFolder)
  BY DEF IsFolder, NoFolder
<1>3. HubTyped
  <2>1. numFolders \in 0..MaxFolders /\ place \in [Spots -> 0..numFolders]
    <3>1. numFolders = 0 /\ place = [p \in Spots |-> 0]
      BY <1>1
    <3>2. 0 \in 0..0 /\ 0 \in 0..MaxFolders
      BY SkillAssumption
    <3> QED
      BY <3>1, <3>2
  <2>2. folders = [f \in 1..MaxFolders |-> folders[f]] /\ \A f \in 1..MaxFolders : IsFolder(folders[f])
    BY <1>1, <1>2
  <2>3. install \in [Installs -> InstallShape]
    <3>1. install = [i \in Installs |-> [at |-> "idle", name |-> "", backedUp |-> FALSE]]
      BY <1>1
    <3> QED
      BY <3>1 DEF InstallShape, InstallAts
  <2>4. removal \in [Uninstalls -> UninstallShape]
    <3>1. removal = [u \in Uninstalls |-> [at |-> "idle", path |-> "", folder |-> 0]]
      BY <1>1
    <3> QED
      BY <3>1 DEF UninstallShape
  <2> QED
    BY <2>1, <2>2, <2>3, <2>4 DEF HubTyped
<1> USE SpotsDiffer
<1>4. OneSpot /\ OpensOnce /\ DirsGood /\ InstallsGood /\ OwnedKept
  BY <1>1 DEF OneSpot, OpensOnce, DirsGood, Good, InstallsGood, Staged, OwnedKept
<1>5. BuiltinsHeld
  BY <1>1, FreshHasBuiltins DEF BuiltinsHeld, BuiltinsStay
<1> QED
  BY <1>3, <1>4, <1>5 DEF SkillsInv, SkillInv

\* Every step keeps the invariant.
LEMMA SkillStep == SkillsInv /\ [SkillNext]_skillVars => SkillsInv'
<1> SUFFICES ASSUME SkillsInv, [SkillNext]_skillVars PROVE SkillsInv'
  OBVIOUS
<1>1. SkillInv /\ BuiltinsHeld
  BY DEF SkillsInv
<1>2. ASSUME UNCHANGED <<refresh, index>> PROVE BuiltinsHeld'
  BY <1>1, <1>2 DEF BuiltinsHeld, BuiltinsStay
<1>3. ASSUME UNCHANGED <<place, folders, numFolders, install, removal, owned>> PROVE SkillInv'
  <2>1. Torn' = Torn
    BY <1>3 DEF Torn
  <2>2. OpensOnce' /\ \A n \in owned' : \A p \in Refuges(n) : Kept(n, p) => place[p] \notin Torn'
    BY <1>1, <1>3, <2>1 DEF OpensOnce, Kept, SkillInv
  <2>3. removal' \in [Uninstalls -> UninstallShape]
    BY <1>1, <1>3 DEF SkillInv, HubTyped
  <2> QED
    BY <1>1, <1>3, <2>1, <2>2, <2>3, QuietRemoval
<1>4. ASSUME NEW i \in Installs, InstallStep(i) PROVE SkillsInv'
  <2>1. SkillInv'
    BY <1>1, <1>4, FetchStep, StageFailsStep, StatTargetStep, MoveAsideStep, SwapInStep, RollbackStep, CleanUpStep,
       StageFileStep DEF InstallStep
  <2>2. UNCHANGED <<refresh, index>>
    BY <1>4 DEF InstallStep, Fetch, StageFails, StatTarget, MoveAside, SwapIn, Rollback, CleanUp, StageFile
  <2> QED
    BY <1>2, <2>1, <2>2 DEF SkillsInv
<1>5. ASSUME NEW u \in Uninstalls, UninstallStep(u) PROVE SkillsInv'
  <2>1. SkillInv'
    BY <1>1, <1>5, OpenFolderStep, RemoveFolderStep, FindSkillStep, RemoveFileStep DEF UninstallStep
  <2>2. UNCHANGED <<refresh, index>>
    BY <1>5 DEF UninstallStep, OpenFolder, RemoveFolder, FindSkill, RemoveFile
  <2> QED
    BY <1>2, <2>1, <2>2 DEF SkillsInv
<1>6. ASSUME NEW r \in Refreshes, RefreshStep(r) PROVE SkillsInv'
  BY <1>3, <1>6, RefreshSteps DEF SkillsInv
<1>7. ASSUME NEW n \in SkillNames, NEW md \in SkillNames, HandCopy(n, md) PROVE SkillsInv'
  <2>1. SkillInv'
    BY <1>1, <1>7, HandCopyStep
  <2>2. UNCHANGED <<refresh, index>>
    BY <1>7 DEF HandCopy
  <2> QED
    BY <1>2, <2>1, <2>2 DEF SkillsInv
<1>8. CASE UNCHANGED skillVars
  BY <1>2, <1>3, <1>8 DEF skillVars, SkillsInv
<1> QED
  BY <1>4, <1>5, <1>6, <1>7, <1>8, RestartHubStep DEF SkillNext

\* The invariant says what the run checks.
LEMMA SkillsAreSafe == SkillsInv => SkillsSurvive
<1> SUFFICES ASSUME SkillsInv PROVE SkillsSurvive
  OBVIOUS
<1> USE SpotsDiffer
<1>1. SkillInv /\ BuiltinsStay
  BY DEF SkillsInv, BuiltinsHeld
<1>2. ASSUME NEW n \in owned
      PROVE  \E p \in {Dir(n)} \cup {Backup(i) : i \in Installs} : Whole(FolderAt(p)) /\ FolderAt(p).md = n
  <2>1. PICK p \in Refuges(n) : Kept(n, p)
    BY <1>1 DEF SkillInv, OwnedKept
  <2>2. p \in {Dir(n)} \cup {Backup(i) : i \in Installs}
    BY <2>1 DEF Refuges
  <2>3. Whole(FolderAt(p)) /\ FolderAt(p).md = n
    BY <2>1 DEF Kept, Whole, FolderAt
  <2> QED
    BY <2>2, <2>3
<1>3. ASSUME NEW n \in SkillNames
      PROVE  \/ place[Dir(n)] \in Torn \cup {0} \/ FolderAt(Dir(n)).slug = ""
             \/ Whole(FolderAt(Dir(n))) /\ Discovered(n)
  <2>1. Good(place[Dir(n)], n)
    BY <1>1 DEF SkillInv, DirsGood
  <2>2. CASE place[Dir(n)] # 0 /\ Made(place[Dir(n)], n)
    BY <2>2 DEF Made, Whole, Discovered, FolderAt, Parcel
  <2>3. CASE place[Dir(n)] # 0 /\ folders[place[Dir(n)]].slug = ""
    BY <2>3 DEF FolderAt
  <2> QED
    BY <2>1, <2>2, <2>3 DEF Good
<1> QED
  BY <1>1, <1>2, <1>3 DEF SkillsSurvive, NothingIsLost, DirectoriesAreWhole

\* Skills survive: whatever installs of one skill, uninstalls, copies made by hand, refreshes
\* and crashes do to each other, a skill that was installed and not asked to be removed is
\* whole in its directory or in a backup, no directory holds half a bundle, and no install
\* or copy shadows a built-in skill (stageAndSwap, Uninstall, Loader.Refresh).
THEOREM SkillsKept == SkillSpec => []SkillsSurvive
<1>1. SkillSpec => []SkillsInv
  BY SkillInitially, SkillStep, PTL DEF SkillSpec
<1> QED
  BY <1>1, SkillsAreSafe, PTL

-----------------------------------------------------------------------------
(***************************************************************************)
(* Projects and conversations, for any posts, openings, deletions and      *)
(* links: a deletion that meets a run cancels it before the rows go.       *)
(***************************************************************************)

\* The types.
PostShape == [at : Asking \cup Acting \cup {"idle", "loading", "over"}, chat : Chats \cup {""},
              project : 0..MaxProjects, binds : BOOLEAN, cancelled : BOOLEAN]
DeletionShape == [at : {"idle", "stopping", "removing", "over"}, project : 0..MaxProjects,
                 chat : Chats \cup {""}, todo : SUBSET Chats, met : SUBSET Posts]
PastShape == [escaped : SUBSET Chats, left : SUBSET (Chats \X RowKinds), late : SUBSET Chats,
              revived : SUBSET Chats, strays : SUBSET Chats, deleted : SUBSET Chats, moved : BOOLEAN]

FoldersTyped ==
    /\ workspaceOf \in [ProjectIds -> Spellings \cup {Unmade}] /\ numProjects \in 0..MaxProjects
    /\ leadsTo \in [Spellings -> Folders \cup {Nowhere}]
    /\ opening \in [Openings -> [at : {"idle", "waiting", "locked", "scanning", "over"},
                                 folder : Folders \cup {Nowhere}]]
TablesTyped ==
    /\ chat \in [Chats -> [here : BOOLEAN, project : 0..MaxProjects]]
    /\ rowsOf \in [Chats -> SUBSET RowKinds]
LiveTyped ==
    /\ streams \in [Chats -> SUBSET Posts] /\ cards \subseteq Chats /\ checked \subseteq Chats
    /\ post \in [Posts -> PostShape]
HistoryTyped ==
    /\ deletion \in [Removals -> DeletionShape] /\ past \in PastShape
ProjectsTyped == FoldersTyped /\ TablesTyped /\ LiveTyped /\ HistoryTyped

\* Projects beyond the number made are not there; what is there is one project for each
\* folder.
FoldersInv ==
    /\ \A p \in ProjectIds : p > numProjects => workspaceOf[p] = Unmade
    /\ \A f \in Folders : leadsTo[f] = f
    /\ \A o \in Openings : opening[o].at \in {"waiting", "locked", "scanning"} => opening[o].folder \in Folders
    /\ OneProjectPerFolder

\* Where a post has a run in the registry, or had one.
Entered == Registered \cup {"loading", "over"} \cup Acting

Excused == past.escaped \cup past.revived
Standing(c) == chat[c].here \/ c \in Excused

PostInv ==
    /\ \A s \in Posts : post[s].at \notin {"idle", "over"} => post[s].chat \in Chats
    /\ \A s \in Posts : post[s].cancelled => post[s].at \in Acting \cup {"loading"}
    /\ \A c \in Chats : \A s \in streams[c] : post[s].at \in Entered /\ (post[s].at # "over" => post[s].chat = c)

\* A run that a deletion met has been cancelled, has escaped or will be met in the registry.
Met(d, s) ==
    /\ post[s].at \in Entered
    /\ \/ ~Live(s) \/ post[s].chat \in past.escaped
       \/ post[s].chat \in deletion[d].todo /\ s \in streams[post[s].chat]

RemovalInv ==
    \A d \in Removals : deletion[d].at \in {"stopping", "removing"} =>
        /\ deletion[d].at = "removing" => deletion[d].chat \in Chats \ deletion[d].todo
        /\ deletion[d].project = 0 => deletion[d].chat \in Chats
        /\ \A s \in deletion[d].met : Met(d, s)

\* Posts whose conversation must be there: those past Upsert, and runs.
Bound == {"upserted", "bound", "stored", "created"} \cup Acting

RunInv ==
    /\ \A s \in Posts : post[s].at \in Bound /\ ~post[s].cancelled => Standing(post[s].chat)
    /\ \A c \in Chats : "checkpoint" \in rowsOf[c] => Standing(c) \/ <<c, "checkpoint">> \in past.left

ListInv ==
    /\ \A c \in Chats : ~chat[c].here => chat[c].project = 0
    /\ ListedHaveProject
    /\ \A c \in past.deleted : chat[c].project = 0

\* Nobody began to post to a deleted conversation, else it were not called deleted.
MayStay(c, k) ==
    k \in {"message", "pending"} \/ <<c, k>> \in past.left \/ (k = "validation" /\ c \in past.late)

GoneInv ==
    /\ \A s \in Posts : post[s].at \in Asking \ {"answered", "recreated"} => post[s].chat \notin past.deleted
    /\ \A c \in past.deleted : c \in checked => c \in past.late
    /\ \A c \in past.deleted \ Excused :
        /\ \A s \in Posts : post[s].chat = c /\ Live(s) => post[s].at \in {"answered", "recreated", "loading"}
        /\ \A k \in rowsOf[c] : MayStay(c, k)

ProjectsInv == ProjectsTyped /\ FoldersInv /\ PostInv /\ RemovalInv /\ RunInv /\ ListInv /\ GoneInv

-----------------------------------------------------------------------------
\* Who is there stays there while folders are opened.
LEMMA FolderSteps ==
    ASSUME ProjectsInv, NEW o \in Openings, OpenProject(o)
    PROVE  FoldersTyped' /\ FoldersInv' /\ \A p \in ProjectIds : There(p) => There(p)'
<1>1. /\ FoldersTyped /\ FoldersInv /\ UNCHANGED <<leadsTo, past>> /\ MaxProjects \in Nat
      /\ opening \in [Openings -> [at : {"idle", "waiting", "locked", "scanning", "over"}, folder : Folders \cup {Nowhere}]]
  BY ProjectsAssumption DEF ProjectsInv, ProjectsTyped, FoldersTyped, OpenProject, CanonicalFolder, Lock, GetByWorkspace, OpenOrCreate
<1> DEFINE Shape == [at : {"idle", "waiting", "locked", "scanning", "over"}, folder : Folders \cup {Nowhere}]
<1>2. ASSUME NEW rec \in Shape, opening' = [opening EXCEPT ![o] = rec], UNCHANGED <<workspaceOf, numProjects>>,
             rec.at \in {"waiting", "locked", "scanning"} => rec.folder \in Folders
      PROVE  FoldersTyped' /\ FoldersInv' /\ \A p \in ProjectIds : There(p) => There(p)'
  <2>1. /\ opening' \in [Openings -> Shape] /\ opening'[o] = rec
        /\ \A x \in Openings : x # o => opening'[x] = opening[x]
    BY <1>1, <1>2
  <2>2. FoldersTyped'
    BY <1>1, <1>2, <2>1 DEF FoldersTyped
  <2>3. OneProjectPerFolder'
    BY <1>1, <1>2 DEF FoldersInv, OneProjectPerFolder, There
  <2>4. FoldersInv'
    BY <1>1, <1>2, <2>1, <2>3 DEF FoldersInv
  <2>5. \A p \in ProjectIds : There(p) => There(p)'
    BY <1>2 DEF There
  <2> QED
    BY <2>2, <2>4, <2>5
<1>3. CASE \E spelling \in Spellings : CanonicalFolder(o, spelling)
  <2>1. PICK spelling \in Spellings : CanonicalFolder(o, spelling)
    BY <1>3
  <2> DEFINE rec == [at |-> IF leadsTo[spelling] = Nowhere THEN "over" ELSE "waiting", folder |-> leadsTo[spelling]]
  <2>2. opening' = [opening EXCEPT ![o] = rec] /\ UNCHANGED <<workspaceOf, numProjects>>
    BY <2>1 DEF CanonicalFolder
  <2>3. leadsTo[spelling] \in Folders \cup {Nowhere}
    BY <1>1 DEF FoldersTyped
  <2>4. rec \in Shape /\ (rec.at \in {"waiting", "locked", "scanning"} => rec.folder \in Folders)
    BY <2>3
  <2> HIDE DEF rec, Shape
  <2> QED
    BY <1>2, <2>2, <2>4
<1>4. CASE Lock(o) \/ (GetByWorkspace(o) /\ opening' = [opening EXCEPT ![o].at = "scanning"])
  <2>1. PICK at \in {"locked", "scanning"} : /\ opening' = [opening EXCEPT ![o].at = at]
                                             /\ opening[o].at \in {"waiting", "locked"}
                                             /\ UNCHANGED <<workspaceOf, numProjects>>
    BY <1>4 DEF Lock, GetByWorkspace
  <2> DEFINE rec == [opening[o] EXCEPT !.at = at]
  <2>2. opening[o] \in Shape /\ opening[o].folder \in Folders
    BY <1>1, <2>1 DEF FoldersInv
  <2>3. rec \in Shape /\ rec.folder \in Folders /\ opening' = [opening EXCEPT ![o] = rec]
    BY <1>1, <2>1, <2>2
  <2> HIDE DEF rec, Shape
  <2> QED
    BY <1>2, <2>1, <2>3
<1>5. [at |-> "over", folder |-> Nowhere] \in Shape
  OBVIOUS
<1>6. CASE GetByWorkspace(o) /\ OpeningOver(o)
  <2>1. opening' = [opening EXCEPT ![o] = [at |-> "over", folder |-> Nowhere]] /\ UNCHANGED <<workspaceOf, numProjects>>
    BY <1>6 DEF GetByWorkspace, OpeningOver
  <2> HIDE DEF Shape
  <2> QED
    BY <1>2, <1>5, <2>1
<1>7. CASE OpenOrCreate(o)
  <2>1. opening' = [opening EXCEPT ![o] = [at |-> "over", folder |-> Nowhere]] /\ opening[o].at = "scanning"
    BY <1>7 DEF OpenOrCreate, OpeningOver
  <2>2. CASE UNCHANGED <<workspaceOf, numProjects>>
    <3> HIDE DEF Shape
    <3> QED
      BY <1>2, <1>5, <2>1, <2>2
  <2>3. ASSUME \A p \in ProjectIds : ~SameFolder(p, opening[o].folder), numProjects < MaxProjects,
               numProjects' = numProjects + 1,
               workspaceOf' = [workspaceOf EXCEPT ![numProjects + 1] = opening[o].folder]
        PROVE  FoldersTyped' /\ FoldersInv' /\ \A p \in ProjectIds : There(p) => There(p)'
    <3>0. PICK n \in ProjectIds : n = numProjects + 1
      BY <1>1, <2>3 DEF FoldersTyped, ProjectIds
    <3>1. PICK f \in Folders : f = opening[o].folder
      BY <1>1, <2>1 DEF FoldersInv
    <3>2. /\ opening' \in [Openings -> Shape] /\ opening'[o].at = "over"
          /\ \A x \in Openings : x # o => opening'[x] = opening[x]
      BY <1>1, <1>5, <2>1
    <3>3. /\ workspaceOf \in [ProjectIds -> Spellings \cup {Unmade}] /\ numProjects \in 0..MaxProjects
          /\ n \in 1..MaxProjects /\ numProjects' = n /\ workspaceOf' = [workspaceOf EXCEPT ![n] = f]
      BY <1>1, <2>3, <3>0, <3>1 DEF FoldersTyped, ProjectIds
    <3>4. /\ workspaceOf' \in [ProjectIds -> Spellings \cup {Unmade}] /\ numProjects' \in 0..MaxProjects
          /\ workspaceOf'[n] = f /\ \A p \in ProjectIds : p # n => workspaceOf'[p] = workspaceOf[p]
      BY <3>3 DEF Spellings
    <3>5. FoldersTyped'
      BY <1>1, <3>2, <3>4 DEF FoldersTyped
    <3>6. workspaceOf[n] = Unmade
      BY <1>1, <3>0, <3>3 DEF FoldersInv
    <3>7. \A p \in ProjectIds : There(p) => p # n /\ workspaceOf[p] # f /\ leadsTo[workspaceOf[p]] # f /\ leadsTo[f] = f
      BY <1>1, <2>3, <3>1, <3>6 DEF There, SameFolder, FoldersInv
    <3>8. OneProjectPerFolder'
      BY <1>1, <3>4, <3>7 DEF OneProjectPerFolder, There, FoldersInv
    <3>9. \A p \in ProjectIds : p > numProjects' => workspaceOf'[p] = Unmade
      BY <1>1, <3>0, <3>3, <3>4 DEF FoldersInv, ProjectIds
    <3>10. FoldersInv'
      BY <1>1, <3>2, <3>8, <3>9 DEF FoldersInv
    <3>11. \A p \in ProjectIds : There(p) => There(p)'
      BY <3>4, <3>7 DEF There
    <3> QED
      BY <3>5, <3>10, <3>11
  <2> QED
    BY <1>7, <2>2, <2>3 DEF OpenOrCreate
<1> QED
  BY <1>3, <1>4, <1>6, <1>7 DEF OpenProject, GetByWorkspace

\* A link that moves changes what folders are the same, and nothing else.
LEMMA MoveLinkStep ==
    ASSUME ProjectsInv, NEW l \in Links, NEW folder \in Folders \cup {Nowhere}, MoveLink(l, folder)
    PROVE  FoldersTyped' /\ FoldersInv' /\ \A p \in ProjectIds : There(p) => There(p)'
<1>1. /\ FoldersTyped /\ FoldersInv /\ UNCHANGED <<workspaceOf, numProjects, opening>> /\ l \notin Folders
      /\ leadsTo' = [leadsTo EXCEPT ![l] = folder] /\ past' = [past EXCEPT !.moved = TRUE] /\ past \in PastShape
  BY ProjectsAssumption DEF ProjectsInv, ProjectsTyped, HistoryTyped, MoveLink
<1>2. past'.moved
  BY <1>1 DEF PastShape
<1>3. /\ leadsTo' \in [Spellings -> Folders \cup {Nowhere}] /\ \A f \in Folders : leadsTo'[f] = leadsTo[f]
  BY <1>1 DEF FoldersTyped, Spellings
<1>4. FoldersTyped'
  BY <1>1, <1>3 DEF FoldersTyped
<1>5. OneProjectPerFolder'
  BY <1>1, <1>2 DEF OneProjectPerFolder, FoldersInv, There
<1>6. FoldersInv'
  BY <1>1, <1>3, <1>5 DEF FoldersInv
<1> QED
  BY <1>1, <1>4, <1>6 DEF There

\* RecordSteps that leave the conversations, the runs and the deletions alone.
LEMMA OtherFolders ==
    ASSUME ProjectsInv, FoldersTyped', FoldersInv', \A p \in ProjectIds : There(p) => There(p)',
           UNCHANGED <<chat, rowsOf, tracked, streams, cards, checked, post, deletion>>,
           past' \in PastShape, past'.escaped = past.escaped, past'.revived = past.revived,
           past'.left = past.left, past'.late = past.late,
           past'.strays = past.strays, past'.deleted = past.deleted
    PROVE  ProjectsInv'
<1>1. ProjectsTyped'
  BY DEF ProjectsInv, ProjectsTyped, TablesTyped, LiveTyped, HistoryTyped
<1>2. Excused' = Excused /\ (\A c : Standing(c)' <=> Standing(c)) /\ \A s : Live(s)' <=> Live(s)
  BY DEF Excused, Standing, Live
<1>3. PostInv'
  BY DEF ProjectsInv, PostInv
<1>4. RemovalInv'
  BY <1>2 DEF ProjectsInv, RemovalInv, Met
<1>5. RunInv'
  BY <1>2 DEF ProjectsInv, RunInv
<1>6. ListInv'
  <2>1. \A c \in Chats : chat[c].project \in 0..MaxProjects /\ (InList(c) => chat[c].project \in ProjectIds)
    BY ProjectsAssumption DEF ProjectsInv, ProjectsTyped, TablesTyped, InList, ProjectIds
  <2> QED
    BY <2>1 DEF ProjectsInv, ListInv, ListedHaveProject, InList
<1>7. GoneInv'
  BY <1>2 DEF ProjectsInv, GoneInv, MayStay
<1> QED
  BY <1>1, <1>3, <1>4, <1>5, <1>6, <1>7 DEF ProjectsInv

-----------------------------------------------------------------------------
\* What a step of a post makes of its record.
LEMMA RecordSteps ==
    ASSUME post \in [Posts -> PostShape], NEW s \in Posts, post[s].at # "over",
           NEW at \in Asking \cup Acting \cup {"loading", "over"}, StepsTo(s, at)
    PROVE  \E rec \in PostShape :
              /\ post' = [post EXCEPT ![s] = rec] /\ rec.at = at
              /\ at # "over" => /\ rec.chat = post[s].chat /\ rec.cancelled = post[s].cancelled
                                /\ rec.project = post[s].project /\ rec.binds = post[s].binds
              /\ at = "over" => ~rec.cancelled
<1>1. post[s] \in PostShape /\ 0 \in 0..MaxProjects
  BY ProjectsAssumption
<1>2. CASE at = "over"
  <2>1. NoPost \in PostShape /\ ~NoPost.cancelled
    BY <1>1 DEF NoPost, PostShape
  <2>2. PostOver \in PostShape /\ PostOver.at = "over" /\ ~PostOver.cancelled
    BY <2>1 DEF PostOver, PostShape
  <2>3. post' = [post EXCEPT ![s] = PostOver]
    BY <1>2 DEF StepsTo
  <2> QED
    BY <1>2, <2>2, <2>3
<1>3. CASE at # "over"
  <2> DEFINE rec == [post[s] EXCEPT !.at = at]
  <2>1. post' = [post EXCEPT ![s] = rec]
    BY <1>3 DEF StepsTo
  <2>2. rec \in PostShape /\ rec.at = at /\ rec.chat = post[s].chat /\ rec.cancelled = post[s].cancelled
        /\ rec.project = post[s].project /\ rec.binds = post[s].binds
    BY <1>1 DEF PostShape
  <2> HIDE DEF rec
  <2> QED
    BY <1>3, <2>1, <2>2
<1> QED
  BY <1>2, <1>3

\* What the registry and the deletions know of the posts, after a step of one.
LEMMA PostStep ==
    ASSUME ProjectsInv, NEW s \in Posts, NEW rec \in PostShape, post' = [post EXCEPT ![s] = rec], UNCHANGED deletion,
           rec.at \notin {"idle", "over"} => rec.chat \in Chats,
           rec.cancelled => rec.at \in Acting \cup {"loading"},
           post[s].at \in Entered =>
               /\ rec.at \in Entered
               /\ rec.at # "over" => /\ rec.chat = post[s].chat /\ rec.cancelled = post[s].cancelled
                                     /\ post[s].at # "over",
           \A c \in Chats : \A x \in streams'[c] :
               x \in streams[c] \/ (x = s /\ rec.at \in Entered /\ rec.chat = c),
           \A c \in Chats : \A x \in streams[c] : x \in streams'[c] \/ ~Live(x) \/ c \in past'.escaped,
           past.escaped \subseteq past'.escaped
    PROVE  PostInv' /\ RemovalInv'
<1>1. /\ post \in [Posts -> PostShape] /\ PostInv /\ RemovalInv
      /\ post'[s] = rec /\ \A x \in Posts : x # s => post'[x] = post[x]
      /\ streams \in [Chats -> SUBSET Posts] /\ deletion \in [Removals -> DeletionShape]
  BY DEF ProjectsInv, ProjectsTyped, LiveTyped, HistoryTyped
<1>2. \A c \in Chats : \A x \in streams'[c] : x \in Posts
  BY <1>1
<1>3. ASSUME NEW c \in Chats, NEW x \in streams'[c] PROVE post'[x].at \in Entered /\ (post'[x].at # "over" => post'[x].chat = c)
  <2>1. CASE x \in streams[c] /\ x # s
    BY <1>1, <1>2, <2>1 DEF PostInv
  <2>2. CASE x \in streams[c] /\ x = s
    BY <1>1, <1>2, <2>2 DEF PostInv
  <2>3. CASE x = s /\ rec.at \in Entered /\ rec.chat = c
    BY <1>1, <2>3
  <2> QED
    BY <1>3, <2>1, <2>2, <2>3
<1>4. PostInv'
  <2>1. \A x \in Posts : post'[x].at \notin {"idle", "over"} => post'[x].chat \in Chats
    BY <1>1 DEF PostInv
  <2>2. \A x \in Posts : post'[x].cancelled => post'[x].at \in Acting \cup {"loading"}
    BY <1>1 DEF PostInv
  <2> QED
    BY <1>3, <2>1, <2>2 DEF PostInv
<1>5. ASSUME NEW x \in Posts, post[x].at \in Entered PROVE post'[x].at \in Entered /\ (Live(x)' => Live(x) /\ post'[x].chat = post[x].chat)
  <2>1. CASE x = s
    BY <1>1, <1>5, <2>1 DEF Live, Entered, Registered, Asking, Acting
  <2>2. CASE x # s
    BY <1>1, <1>5, <2>2 DEF Live
  <2> QED
    BY <2>1, <2>2
<1>6. ASSUME NEW d \in Removals, NEW x \in Posts, Met(d, x) PROVE Met(d, x)'
  <2>1. post[x].at \in Entered
    BY <1>6 DEF Met
  <2>2. CASE ~Live(x)' \/ post'[x].chat \in past'.escaped
    BY <1>5, <2>1, <2>2 DEF Met
  <2>3. CASE Live(x)' /\ post'[x].chat \notin past'.escaped
    <3>1. Live(x) /\ post'[x].chat = post[x].chat
      BY <1>5, <2>1, <2>3
    <3>2. post[x].chat \in deletion[d].todo /\ x \in streams[post[x].chat]
      BY <1>6, <2>3, <3>1 DEF Met
    <3>3. post[x].chat \in Chats
      BY <1>1, <3>1 DEF PostInv, Live, Asking, Acting, Registered
    <3>4. x \in streams'[post[x].chat]
      BY <2>3, <3>1, <3>2, <3>3
    <3> QED
      BY <1>5, <2>1, <3>1, <3>2, <3>4 DEF Met
  <2> QED
    BY <2>2, <2>3
<1>7. RemovalInv'
  <2>1. \A d \in Removals : deletion[d].met \subseteq Posts
    BY <1>1 DEF DeletionShape
  <2> QED
    BY <1>1, <1>6, <2>1 DEF RemovalInv
<1> QED
  BY <1>4, <1>7

\* Who must have a conversation, and what a deleted one keeps, after a step of one post.
LEMMA PostEffects ==
    ASSUME ProjectsInv, NEW s \in Posts, NEW rec \in PostShape, post' = [post EXCEPT ![s] = rec],
           \A c \in Chats : Standing(c) => Standing(c)',
           Excused \subseteq Excused', past.escaped \subseteq past'.escaped,
           past'.left = past.left, past'.late = past.late,
           past'.deleted \subseteq past.deleted, past.deleted \subseteq Chats,
           rec.at \in Bound /\ ~rec.cancelled => Standing(rec.chat)',
           \A c \in Chats : "checkpoint" \in rowsOf'[c] => "checkpoint" \in rowsOf[c] \/ Standing(c)',
           rec.at \in Asking \ {"answered", "recreated"} => rec.chat \notin past'.deleted,
           \A c \in past'.deleted : c \in checked' => c \in checked,
           \A c \in past'.deleted \ Excused' :
               /\ rec.chat = c /\ rec.at \notin {"idle", "over"} /\ ~rec.cancelled =>
                    rec.at \in {"answered", "recreated", "loading"}
               /\ rowsOf'[c] \subseteq rowsOf[c] \cup {"message", "pending"}
    PROVE  RunInv' /\ GoneInv'
<1>1. /\ post \in [Posts -> PostShape] /\ PostInv /\ RunInv /\ GoneInv
      /\ post'[s] = rec /\ \A x \in Posts : x # s => post'[x] = post[x]
  BY DEF ProjectsInv, ProjectsTyped, LiveTyped
<1>2. ASSUME NEW x \in Posts, post'[x].at \in Bound, ~post'[x].cancelled PROVE Standing(post[x].chat)'
  <2>1. CASE x = s
    <3>1. Standing(rec.chat)'
      BY <1>1, <1>2, <2>1
    <3> QED
      BY <1>1, <2>1, <3>1 DEF Standing
  <2>2. CASE x # s
    <3>1. Standing(post[x].chat) /\ post'[x] = post[x]
      BY <1>1, <1>2, <2>2 DEF RunInv
    <3>2. post[x].chat \in Chats
      BY <1>1, <1>2, <3>1 DEF PostInv, Bound, Acting
    <3>3. PICK c \in Chats : c = post[x].chat
      BY <3>2
    <3>4. Standing(c)'
      BY <3>1, <3>3
    <3>5. c = post'[x].chat
      BY <3>1, <3>3
    <3> QED
      BY <3>4, <3>5 DEF Standing
  <2> QED
    BY <2>1, <2>2
<1>3. \A c \in Chats : "checkpoint" \in rowsOf'[c] => Standing(c)' \/ <<c, "checkpoint">> \in past'.left
  BY <1>1 DEF RunInv
<1>4. RunInv'
  BY <1>2, <1>3 DEF RunInv
<1>5. \A x \in Posts : post'[x].at \in Asking \ {"answered", "recreated"} => post'[x].chat \notin past'.deleted
  BY <1>1 DEF GoneInv
<1>6. ASSUME NEW c \in past'.deleted \ Excused', NEW x \in Posts, post'[x].chat = c, Live(x)'
      PROVE  post'[x].at \in {"answered", "recreated", "loading"}
  <2>1. c \in past.deleted \ Excused
    BY <1>6
  <2>2. CASE x = s
    BY <1>1, <1>6, <2>2 DEF Live, Asking, Acting, Registered
  <2>3. CASE x # s
    BY <1>1, <1>6, <2>1, <2>3 DEF GoneInv, Live
  <2> QED
    BY <2>2, <2>3
<1>7. ASSUME NEW c \in past'.deleted \ Excused', NEW k \in rowsOf'[c] PROVE MayStay(c, k)'
  <2>1. c \in past.deleted \ Excused /\ (k \in rowsOf[c] \/ k \in {"message", "pending"})
    BY <1>7
  <2> QED
    BY <1>1, <2>1 DEF GoneInv, MayStay
<1>8. \A c \in past'.deleted : c \in checked' => c \in past'.late
  BY <1>1 DEF GoneInv
<1>9. GoneInv'
  BY <1>5, <1>6, <1>7, <1>8 DEF GoneInv
<1> QED
  BY <1>4, <1>9

\* A step of a post that leaves the registry alone.
LEMMA PostOnlyStep ==
    ASSUME ProjectsInv, NEW s \in Posts, NEW rec \in PostShape, post' = [post EXCEPT ![s] = rec],
           UNCHANGED <<workspaceOf, numProjects, leadsTo, opening, streams, deletion>>,
           past' \in PastShape, past'.moved = past.moved, past'.escaped = past.escaped,
           past.revived \subseteq past'.revived, past'.left = past.left, past'.late = past.late,
           past'.deleted \subseteq past.deleted,
           TablesTyped', cards' \subseteq Chats, checked' \subseteq Chats, ListInv',
           \A c \in Chats : chat[c].here => chat'[c].here,
           rec.at \notin {"idle", "over"} => rec.chat \in Chats,
           rec.cancelled => rec.at \in Acting \cup {"loading"},
           post[s].at \in Entered =>
               /\ rec.at \in Entered
               /\ rec.at # "over" => /\ rec.chat = post[s].chat /\ rec.cancelled = post[s].cancelled
                                     /\ post[s].at # "over",
           rec.at \in Bound /\ ~rec.cancelled => chat'[rec.chat].here \/ rec.chat \in Excused',
           \A c \in Chats : "checkpoint" \in rowsOf'[c] => "checkpoint" \in rowsOf[c] \/ Standing(c),
           rec.at \in Asking \ {"answered", "recreated"} => rec.chat \notin past'.deleted,
           \A c \in past'.deleted : c \in checked' => c \in checked,
           \A c \in past'.deleted \ Excused' :
               /\ rec.chat = c /\ rec.at \notin {"idle", "over"} /\ ~rec.cancelled =>
                    rec.at \in {"answered", "recreated", "loading"}
               /\ rowsOf'[c] \subseteq rowsOf[c] \cup {"message", "pending"}
    PROVE  ProjectsInv'
<1>1. Excused \subseteq Excused'
  BY DEF Excused
<1>2. \A c \in Chats : Standing(c) => Standing(c)'
  BY <1>1 DEF Standing
<1>3. PostInv' /\ RemovalInv'
  BY PostStep
<1>4. past.deleted \subseteq Chats
  BY DEF ProjectsInv, ProjectsTyped, HistoryTyped, PastShape
<1>5. RunInv' /\ GoneInv'
  <2>1. rec.at \in Bound /\ ~rec.cancelled => Standing(rec.chat)'
    BY DEF Standing
  <2>2. \A c \in Chats : "checkpoint" \in rowsOf'[c] => "checkpoint" \in rowsOf[c] \/ Standing(c)'
    BY <1>2
  <2> QED
    BY <1>1, <1>2, <1>4, <2>1, <2>2, PostEffects
<1>6. ProjectsTyped'
  BY DEF ProjectsInv, ProjectsTyped, FoldersTyped, LiveTyped, HistoryTyped
<1>7. FoldersInv'
  BY DEF ProjectsInv, FoldersInv, OneProjectPerFolder, There
<1> QED
  BY <1>3, <1>5, <1>6, <1>7 DEF ProjectsInv

\* A post that goes on, with its conversation and its fate, and stores rows maybe.
LEMMA GoesOn ==
    ASSUME ProjectsInv, NEW s \in Posts, post[s].at \notin {"idle", "over"},
           NEW at \in Asking \cup Acting \cup {"loading", "over"}, StepsTo(s, at),
           UNCHANGED <<workspaceOf, numProjects, leadsTo, opening, streams, deletion, past, chat, tracked>>,
           TablesTyped', cards' \subseteq Chats, checked' = checked,
           post[s].at \in Entered => at \in Entered,
           post[s].cancelled => at \in Acting \cup {"loading", "over"},
           at \in Bound /\ ~post[s].cancelled => Standing(post[s].chat),
           \A c \in Chats : "checkpoint" \in rowsOf'[c] => "checkpoint" \in rowsOf[c] \/ Standing(c),
           at \in Asking \ {"answered", "recreated"} => post[s].chat \notin past.deleted,
           at \notin {"over", "answered", "recreated", "loading"} /\ ~post[s].cancelled =>
               post[s].chat \notin past.deleted \ Excused,
           \A c \in past.deleted \ Excused : rowsOf'[c] \subseteq rowsOf[c] \cup {"message", "pending"}
    PROVE  ProjectsInv'
<1>1. post \in [Posts -> PostShape] /\ past \in PastShape /\ PostInv /\ ListInv
  BY DEF ProjectsInv, ProjectsTyped, LiveTyped, HistoryTyped
<1>2. PICK rec \in PostShape :
        /\ post' = [post EXCEPT ![s] = rec] /\ rec.at = at
        /\ at # "over" => rec.chat = post[s].chat /\ rec.cancelled = post[s].cancelled
        /\ at = "over" => ~rec.cancelled
  BY <1>1, RecordSteps
<1>3. ListInv'
  BY <1>1 DEF ListInv, ListedHaveProject, InList, There
<1>4. /\ rec.at \notin {"idle", "over"} => rec.chat \in Chats
      /\ rec.cancelled => rec.at \in Acting \cup {"loading"}
      /\ post[s].at \in Entered =>
               /\ rec.at \in Entered
               /\ rec.at # "over" => /\ rec.chat = post[s].chat /\ rec.cancelled = post[s].cancelled
                                     /\ post[s].at # "over"
  BY <1>1, <1>2 DEF PostInv
<1>5. /\ rec.at \in Bound /\ ~rec.cancelled => chat'[rec.chat].here \/ rec.chat \in Excused'
      /\ rec.at \in Asking \ {"answered", "recreated"} => rec.chat \notin past'.deleted
      /\ \A c \in past'.deleted \ Excused' :
               /\ rec.chat = c /\ rec.at \notin {"idle", "over"} /\ ~rec.cancelled =>
                    rec.at \in {"answered", "recreated", "loading"}
               /\ rowsOf'[c] \subseteq rowsOf[c] \cup {"message", "pending"}
  <2>1. at \in Asking \/ at \in Bound => at # "over"
    BY DEF Asking, Bound, Acting, Registered
  <2> QED
    BY <1>2, <2>1 DEF Standing, Excused
<1> QED
  <2>1. checked \subseteq Chats
    BY DEF ProjectsInv, ProjectsTyped, LiveTyped
  <2> QED
    BY <1>1, <1>2, <1>3, <1>4, <1>5, <2>1, PostOnlyStep

\* The steps of a post that store nothing.
LEMMA QuietSteps ==
    ASSUME ProjectsInv, NEW s \in Posts, UNCHANGED <<fileSystemVars, deletion>>,
           FindProject(s) \/ StartResume(s) \/ Ends(s)
    PROVE  ProjectsInv'
<1>1. /\ UNCHANGED <<workspaceOf, numProjects, leadsTo, opening, streams, deletion, past, chat, tracked, rowsOf, cards, checked>>
      /\ TablesTyped' /\ cards' \subseteq Chats /\ RunInv /\ GoneInv /\ PostInv
  BY DEF ProjectsInv, ProjectsTyped, LiveTyped, TablesTyped, fileSystemVars, tableVars, FindProject, StartResume, Ends
<1>2. CASE FindProject(s)
  <2>1. PICK at \in {"found", "over"} : StepsTo(s, at) /\ post[s].at = "looked"
    BY <1>2 DEF FindProject
  <2>2. ~post[s].cancelled /\ post[s].chat \notin past.deleted
    BY <1>1, <2>1 DEF PostInv, GoneInv, Acting, Asking
  <2> QED
    BY <1>1, <2>1, <2>2, GoesOn DEF Asking, Acting, Bound, Entered, Registered
<1>3. CASE StartResume(s)
  <2>1. StepsTo(s, "loading") /\ post[s].at = "recreated"
    BY <1>3 DEF StartResume
  <2> QED
    BY <1>1, <2>1, GoesOn DEF Asking, Acting, Bound, Entered, Registered
<1>4. CASE Ends(s)
  <2>1. PICK at \in {"settling", "over"} : StepsTo(s, at) /\ post[s].at = "running"
    BY <1>4 DEF Ends
  <2>2. ~post[s].cancelled => Standing(post[s].chat) /\ post[s].chat \notin past.deleted \ Excused
    BY <1>1, <2>1 DEF RunInv, GoneInv, Bound, Acting, Live
  <2> QED
    BY <1>1, <2>1, <2>2, GoesOn DEF Asking, Acting, Bound, Entered, Registered
<1> QED
  BY <1>2, <1>3, <1>4

\* A run goes on from a checkpoint: its conversation is there, or the deletion of its
\* project has left the checkpoint.
LEMMA LoadCheckpointStep ==
    ASSUME ProjectsInv, NEW s \in Posts, UNCHANGED <<fileSystemVars, deletion>>, LoadCheckpoint(s)
    PROVE  ProjectsInv'
<1>1. /\ UNCHANGED <<workspaceOf, numProjects, leadsTo, opening, streams, deletion, chat, tracked, rowsOf, cards, checked>>
      /\ TablesTyped' /\ cards' \subseteq Chats /\ checked' \subseteq Chats /\ RunInv /\ GoneInv /\ PostInv /\ ListInv
      /\ post \in [Posts -> PostShape] /\ past \in PastShape /\ past.deleted \subseteq Chats /\ post[s].at = "loading"
  <2>1. past \in PastShape /\ past.deleted \subseteq Chats
    BY DEF ProjectsInv, ProjectsTyped, HistoryTyped, PastShape
  <2> QED
    BY <2>1 DEF ProjectsInv, ProjectsTyped, LiveTyped, TablesTyped, fileSystemVars, tableVars, LoadCheckpoint
<1>2. PICK c \in Chats : c = post[s].chat
  BY <1>1 DEF PostInv
<1>3. PICK at \in {"running", "over"} : StepsTo(s, at) /\ (at = "running" => "checkpoint" \in rowsOf[c])
  BY <1>2 DEF LoadCheckpoint
<1>4. PICK rec \in PostShape :
        /\ post' = [post EXCEPT ![s] = rec] /\ rec.at = at
        /\ at # "over" => rec.chat = c /\ rec.cancelled = post[s].cancelled
        /\ at = "over" => ~rec.cancelled
  BY <1>1, <1>2, <1>3, RecordSteps DEF Acting
<1>5. /\ past' \in PastShape /\ past'.moved = past.moved /\ past'.escaped = past.escaped
      /\ past.revived \subseteq past'.revived /\ past'.left = past.left /\ past'.late = past.late
      /\ past'.deleted = past.deleted /\ past'.strays = past.strays
      /\ <<c, "checkpoint">> \in past.left => c \in past'.revived
  BY <1>1, <1>2 DEF LoadCheckpoint, PastShape
<1>6. at = "running" => chat'[c].here \/ c \in Excused'
  BY <1>1, <1>3, <1>5 DEF RunInv, Standing, Excused
<1>7. at = "running" => c \notin past'.deleted \ Excused'
  BY <1>1, <1>3, <1>5 DEF GoneInv, MayStay, Excused
<1>8. ListInv'
  BY <1>1, <1>5 DEF ListInv, ListedHaveProject, InList, There
<1>9. /\ rec.at \in Entered /\ rec.at \notin Asking /\ (rec.at \in Bound => at = "running")
      /\ rec.at \notin {"idle", "over"} => at = "running" /\ rec.at \in Acting
  BY <1>3, <1>4 DEF Entered, Asking, Bound, Acting, Registered
<1> QED
  BY <1>1, <1>2, <1>3, <1>4, <1>5, <1>6, <1>7, <1>8, <1>9, PostOnlyStep

\* The steps of a post that store rows or clear cards.
LEMMA RowSteps ==
    ASSUME ProjectsInv, NEW s \in Posts, UNCHANGED <<fileSystemVars, deletion>>,
           StoreUserRow(s) \/ StartRun(s) \/ Pause(s) \/ RecordCard(s)
    PROVE  ProjectsInv'
<1>1. /\ UNCHANGED <<workspaceOf, numProjects, leadsTo, opening, streams, deletion, past, chat, tracked>>
      /\ rowsOf \in [Chats -> SUBSET RowKinds] /\ chat \in [Chats -> [here : BOOLEAN, project : 0..MaxProjects]]
      /\ cards \subseteq Chats /\ checked' = checked /\ RunInv /\ GoneInv /\ PostInv
  BY DEF ProjectsInv, ProjectsTyped, LiveTyped, TablesTyped, fileSystemVars, StoreUserRow, StartRun, Pause, RecordCard
<1>2. PICK c \in Chats : c = post[s].chat
  BY <1>1 DEF PostInv, StoreUserRow, StartRun, Pause, RecordCard
<1>3. CASE StoreUserRow(s)
  <2>1. /\ post[s].at = "bound" /\ StepsTo(s, "stored") /\ cards' = cards
        /\ rowsOf' = [rowsOf EXCEPT ![c] = @ \cup {"message"}]
    BY <1>2, <1>3 DEF StoreUserRow
  <2>2. TablesTyped' /\ \A b \in Chats : rowsOf'[b] \subseteq rowsOf[b] \cup {"message", "pending"}
    BY <1>1, <2>1 DEF TablesTyped, RowKinds
  <2>3. ~post[s].cancelled /\ c \notin past.deleted /\ Standing(c)
    BY <1>1, <1>2, <2>1 DEF PostInv, GoneInv, RunInv, Bound, Acting, Asking
  <2>4. past.deleted \subseteq Chats
    BY DEF ProjectsInv, ProjectsTyped, HistoryTyped, PastShape
  <2> QED
    BY <1>1, <1>2, <2>1, <2>2, <2>3, <2>4, GoesOn DEF Asking, Acting, Bound, Entered, Registered
<1>4. CASE StartRun(s)
  <2>1. /\ post[s].at = "created" /\ StepsTo(s, "running") /\ cards' \subseteq cards
        /\ rowsOf' = [rowsOf EXCEPT ![c] = @ \ {"pending"}]
    BY <1>2, <1>4 DEF StartRun, ClearCards
  <2>2. TablesTyped' /\ \A b \in Chats : rowsOf'[b] \subseteq rowsOf[b] \cup {"message", "pending"}
    BY <1>1, <2>1 DEF TablesTyped, RowKinds
  <2>3. ~post[s].cancelled /\ c \notin past.deleted /\ Standing(c)
    BY <1>1, <1>2, <2>1 DEF PostInv, GoneInv, RunInv, Bound, Acting, Asking, Registered
  <2>4. past.deleted \subseteq Chats
    BY DEF ProjectsInv, ProjectsTyped, HistoryTyped, PastShape
  <2> QED
    BY <1>1, <1>2, <2>1, <2>2, <2>3, <2>4, GoesOn DEF Asking, Acting, Bound, Entered, Registered
<1>5. CASE Pause(s)
  <2>1. /\ post[s].at = "running" /\ ~post[s].cancelled /\ StepsTo(s, "paused") /\ cards' = cards
        /\ rowsOf' = [rowsOf EXCEPT ![c] = @ \cup {"checkpoint"}]
    BY <1>2, <1>5 DEF Pause
  <2>2. TablesTyped' /\ \A b \in Chats : b # c => rowsOf'[b] = rowsOf[b]
    BY <1>1, <2>1 DEF TablesTyped, RowKinds
  <2>3. c \notin past.deleted \ Excused /\ Standing(c)
    BY <1>1, <1>2, <2>1 DEF GoneInv, RunInv, Bound, Acting, Live
  <2>4. past.deleted \subseteq Chats
    BY DEF ProjectsInv, ProjectsTyped, HistoryTyped, PastShape
  <2> QED
    BY <1>1, <1>2, <2>1, <2>2, <2>3, <2>4, GoesOn DEF Asking, Acting, Bound, Entered, Registered
<1>6. CASE RecordCard(s)
  <2>1. /\ post[s].at = "paused" /\ StepsTo(s, "settling") /\ cards' = cards \cup {c}
        /\ rowsOf' = [rowsOf EXCEPT ![c] = @ \cup {"pending"}]
    BY <1>2, <1>6 DEF RecordCard
  <2>2. TablesTyped' /\ \A b \in Chats : rowsOf'[b] \subseteq rowsOf[b] \cup {"message", "pending"}
    BY <1>1, <2>1 DEF TablesTyped, RowKinds
  <2>3. ~post[s].cancelled => c \notin past.deleted \ Excused /\ Standing(c)
    BY <1>1, <1>2, <2>1 DEF GoneInv, RunInv, Bound, Acting, Live
  <2>4. past.deleted \subseteq Chats /\ cards' \subseteq Chats
    BY <1>1, <2>1 DEF ProjectsInv, ProjectsTyped, HistoryTyped, PastShape
  <2> QED
    BY <1>1, <1>2, <2>1, <2>2, <2>3, <2>4, GoesOn DEF Asking, Acting, Bound, Entered, Registered
<1> QED
  BY <1>3, <1>4, <1>5, <1>6

\* What a run stores while it runs.
LEMMA RunSteps ==
    ASSUME ProjectsInv, NEW s \in Posts, UNCHANGED <<fileSystemVars, deletion>>,
           StoreMessage(s) \/ StoreKept(s) \/ CheckRun(s) \/ Track(s)
    PROVE  ProjectsInv'
<1>1. /\ UNCHANGED <<workspaceOf, numProjects, leadsTo, opening, streams, cards, post, deletion, past, chat>>
      /\ rowsOf \in [Chats -> SUBSET RowKinds] /\ chat \in [Chats -> [here : BOOLEAN, project : 0..MaxProjects]]
      /\ cards \subseteq Chats /\ RunInv /\ GoneInv /\ PostInv /\ ListInv /\ past \in PastShape
      /\ post \in [Posts -> PostShape] /\ post[s].at = "running" /\ checked \subseteq Chats
  BY DEF ProjectsInv, ProjectsTyped, LiveTyped, TablesTyped, HistoryTyped, fileSystemVars, liveVars, StoreMessage, StoreKept,
         CheckRun, tableVars, Track
<1>2. PICK c \in Chats : c = post[s].chat
  BY <1>1 DEF PostInv
<1>3. PICK rec \in PostShape : rec = post[s] /\ post' = [post EXCEPT ![s] = rec]
  BY <1>1
<1>4. ListInv'
  BY <1>1 DEF ListInv, ListedHaveProject, InList, There
<1>5. ~rec.cancelled => Standing(c) /\ c \notin past.deleted \ Excused
  BY <1>1, <1>2, <1>3 DEF RunInv, GoneInv, Bound, Acting, Live
<1>6. /\ rec.at = "running" /\ rec.chat = c /\ rec.at \in Entered /\ rec.at \notin Asking
      /\ rec.at \in Acting
  BY <1>1, <1>2, <1>3 DEF Entered, Acting, Asking, Registered
<1>7. ASSUME TablesTyped', \A b \in Chats : "checkpoint" \in rowsOf'[b] => "checkpoint" \in rowsOf[b],
             checked' \subseteq Chats,
             \A b \in past.deleted : b \in checked' => b \in checked,
             \A b \in past.deleted \ Excused : rowsOf'[b] \subseteq rowsOf[b] \cup {"message", "pending"}
      PROVE  ProjectsInv'
  <2>1. past.deleted \subseteq Chats /\ Excused' = Excused
    BY <1>1 DEF PastShape, Excused
  <2>2. \A b \in past'.deleted \ Excused' :
          rec.chat = b /\ rec.at \notin {"idle", "over"} /\ ~rec.cancelled => rec.at \in {"answered", "recreated", "loading"}
    BY <1>1, <1>5, <1>6, <2>1
  <2>3. rec.at \in Bound /\ ~rec.cancelled => chat'[rec.chat].here \/ rec.chat \in Excused'
    BY <1>1, <1>5, <1>6, <2>1 DEF Standing
  <2> QED
    BY <1>1, <1>3, <1>4, <1>6, <1>7, <2>1, <2>2, <2>3, PostOnlyStep
<1>8. CASE StoreMessage(s)
  <2>1. rowsOf' = [rowsOf EXCEPT ![c] = @ \cup {"message"}] /\ checked' = checked
    BY <1>2, <1>8 DEF StoreMessage, liveVars
  <2>2. TablesTyped' /\ \A b \in Chats : rowsOf'[b] \subseteq rowsOf[b] \cup {"message"}
    BY <1>1, <2>1 DEF TablesTyped, RowKinds
  <2>3. past.deleted \subseteq Chats
    BY <1>1 DEF PastShape
  <2> QED
    BY <1>1, <1>7, <2>1, <2>2, <2>3
<1>9. CASE StoreKept(s)
  <2>1. rowsOf' = [rowsOf EXCEPT ![c] = @ \cup {"kept"}] /\ checked' = checked /\ ~rec.cancelled
    BY <1>2, <1>3, <1>9 DEF StoreKept, liveVars
  <2>2. TablesTyped' /\ \A b \in Chats : rowsOf'[b] \subseteq rowsOf[b] \cup {"kept"} /\ (b # c => rowsOf'[b] = rowsOf[b])
    BY <1>1, <2>1 DEF TablesTyped, RowKinds
  <2>3. past.deleted \subseteq Chats
    BY <1>1 DEF PastShape
  <2> QED
    BY <1>1, <1>5, <1>7, <2>1, <2>2, <2>3
<1>10. CASE Track(s)
  <2>1. rowsOf' = rowsOf /\ checked' = checked /\ TablesTyped'
    BY <1>1, <1>10 DEF Track, liveVars, TablesTyped
  <2> QED
    BY <1>1, <1>7, <2>1
<1>11. CASE CheckRun(s)
  <2>1. rowsOf' = rowsOf /\ checked' = checked \cup {c} /\ There(chat[c].project)
    BY <1>2, <1>11 DEF CheckRun, tableVars
  <2>2. TablesTyped' /\ c \notin past.deleted
    BY <1>1, <2>1 DEF TablesTyped, ListInv, There
  <2> QED
    BY <1>1, <1>7, <2>1, <2>2
<1> QED
  BY <1>8, <1>9, <1>10, <1>11

\* A validation run that was checked is stored: of a deleted conversation it is late.
LEMMA ValidationStep ==
    ASSUME ProjectsInv, NEW c \in Chats, UNCHANGED <<fileSystemVars, deletion>>, StoreValidation(c)
    PROVE  ProjectsInv'
<1>1. /\ UNCHANGED <<workspaceOf, numProjects, leadsTo, opening, streams, cards, post, deletion, past, chat, tracked>>
      /\ rowsOf \in [Chats -> SUBSET RowKinds] /\ chat \in [Chats -> [here : BOOLEAN, project : 0..MaxProjects]]
      /\ RunInv /\ GoneInv /\ past.deleted \subseteq Chats /\ checked' \subseteq checked /\ c \in checked
      /\ rowsOf' = [rowsOf EXCEPT ![c] = @ \cup {"validation"}]
  BY DEF ProjectsInv, ProjectsTyped, TablesTyped, HistoryTyped, PastShape, fileSystemVars, StoreValidation
<1>2. TablesTyped' /\ \A b \in Chats : \A k \in rowsOf'[b] : k \in rowsOf[b] \/ (b = c /\ k = "validation")
  BY <1>1 DEF TablesTyped, RowKinds
<1>3. Excused' = Excused /\ (\A b : Standing(b)' <=> Standing(b)) /\ \A x : Live(x)' <=> Live(x)
  BY <1>1 DEF Excused, Standing, Live
<1>4. RunInv'
  BY <1>1, <1>2, <1>3 DEF RunInv
<1>5. ASSUME NEW b \in past.deleted \ Excused, NEW k \in rowsOf'[b] PROVE MayStay(b, k)'
  BY <1>1, <1>2, <1>5 DEF GoneInv, MayStay
<1>6. GoneInv'
  BY <1>1, <1>3, <1>5 DEF GoneInv
<1>7. PostInv' /\ RemovalInv' /\ FoldersInv' /\ ListInv'
  BY <1>1, <1>3 DEF ProjectsInv, PostInv, RemovalInv, Met, FoldersInv, OneProjectPerFolder, ListInv,
         ListedHaveProject, InList, There
<1> QED
  BY <1>1, <1>2, <1>4, <1>6, <1>7 DEF ProjectsInv, ProjectsTyped, FoldersTyped, LiveTyped, HistoryTyped

\* A conversation stored again keeps its project, and has none when it was not there.
LEMMA UpsertKeeps ==
    ASSUME ProjectsInv, NEW c \in Chats, chat' = Upserted(c), UNCHANGED <<workspaceOf, rowsOf, past>>
    PROVE  /\ TablesTyped' /\ ListInv' /\ chat'[c].here
           /\ \A b \in Chats : chat[b].here => chat'[b].here
<1>1. /\ chat \in [Chats -> [here : BOOLEAN, project : 0..MaxProjects]] /\ ListInv /\ past \in PastShape
      /\ rowsOf \in [Chats -> SUBSET RowKinds]
  BY DEF ProjectsInv, ProjectsTyped, TablesTyped, HistoryTyped
<1>2. /\ chat' \in [Chats -> [here : BOOLEAN, project : 0..MaxProjects]] /\ chat'[c].here
      /\ \A b \in Chats : chat'[b].project = chat[b].project /\ (b # c => chat'[b] = chat[b])
  BY <1>1 DEF Upserted
<1>3. past.deleted \subseteq Chats
  BY <1>1 DEF PastShape
<1>4. \A b \in Chats : InList(b)' => There(chat[b].project) \/ b \in past.strays
  BY <1>1, <1>2 DEF InList, ListInv, ListedHaveProject
<1>5. ListInv'
  BY <1>1, <1>2, <1>3, <1>4 DEF ListInv, ListedHaveProject, There, InList
<1> QED
  BY <1>1, <1>2, <1>5 DEF TablesTyped

\* The steps that store the row of a conversation.
LEMMA UpsertSteps ==
    ASSUME ProjectsInv, NEW s \in Posts, UNCHANGED <<fileSystemVars, deletion>>,
           Upsert(s) \/ SettleRun(s) \/ \E b \in Chats : SetApprovalMode(s, b)
    PROVE  ProjectsInv'
<1>1. /\ UNCHANGED <<workspaceOf, numProjects, leadsTo, opening, streams, cards, checked, deletion, past, rowsOf, tracked>>
      /\ cards \subseteq Chats /\ checked \subseteq Chats /\ RunInv /\ GoneInv /\ PostInv /\ past \in PastShape
      /\ post \in [Posts -> PostShape] /\ chat \in [Chats -> [here : BOOLEAN, project : 0..MaxProjects]]
      /\ rowsOf \in [Chats -> SUBSET RowKinds] /\ ListInv
  BY DEF ProjectsInv, ProjectsTyped, LiveTyped, TablesTyped, HistoryTyped, fileSystemVars, Upsert, SettleRun, SetApprovalMode
<1>2. past.deleted \subseteq Chats
  BY <1>1 DEF PastShape
<1>3. ASSUME UNCHANGED chat PROVE TablesTyped' /\ ListInv' /\ \A b \in Chats : chat[b].here => chat'[b].here
  BY <1>1, <1>3 DEF TablesTyped, ListInv, ListedHaveProject, InList, There
<1>4. CASE Upsert(s)
  <2>1. PICK c \in Chats : c = post[s].chat /\ post[s].at = "found"
    BY <1>1, <1>4 DEF PostInv, Upsert
  <2>2. chat' = Upserted(c) /\ StepsTo(s, "upserted")
    BY <1>4, <2>1 DEF Upsert
  <2>3. PICK rec \in PostShape : post' = [post EXCEPT ![s] = rec] /\ rec.at = "upserted" /\ rec.chat = c
                                 /\ rec.cancelled = post[s].cancelled
    BY <1>1, <2>1, <2>2, RecordSteps DEF Asking
  <2>4. ~rec.cancelled /\ c \notin past.deleted /\ post[s].at \notin Entered
    BY <1>1, <2>1, <2>3 DEF PostInv, GoneInv, Acting, Asking, Entered, Registered
  <2>5. TablesTyped' /\ ListInv' /\ chat'[c].here /\ \A b \in Chats : chat[b].here => chat'[b].here
    BY <1>1, <2>2, UpsertKeeps
  <2> QED
    BY <1>1, <1>2, <2>3, <2>4, <2>5, PostOnlyStep
<1>5. ASSUME NEW rec \in PostShape, rec.at = "over", ~rec.cancelled, post' = [post EXCEPT ![s] = rec],
             TablesTyped', ListInv', \A b \in Chats : chat[b].here => chat'[b].here
      PROVE  ProjectsInv'
  <2>1. rec.at \in Entered /\ rec.at \notin Bound /\ rec.at \notin Asking
    BY <1>5 DEF Entered, Bound, Asking, Acting, Registered
  <2> QED
    BY <1>1, <1>2, <1>5, <2>1, PostOnlyStep
<1>6. CASE SettleRun(s)
  <2>1. PICK c \in Chats : c = post[s].chat /\ post[s].at = "settling"
    BY <1>1, <1>6 DEF PostInv, SettleRun
  <2>2. (chat' = Upserted(c) \/ UNCHANGED chat) /\ StepsTo(s, "over")
    BY <1>6, <2>1 DEF SettleRun
  <2>3. PICK rec \in PostShape : post' = [post EXCEPT ![s] = rec] /\ rec.at = "over" /\ ~rec.cancelled
    BY <1>1, <2>1, <2>2, RecordSteps
  <2>4. TablesTyped' /\ ListInv' /\ \A b \in Chats : chat[b].here => chat'[b].here
    BY <1>1, <1>3, <2>2, UpsertKeeps
  <2> QED
    BY <1>5, <2>3, <2>4
<1>7. ASSUME NEW b \in Chats, SetApprovalMode(s, b) PROVE ProjectsInv'
  <2>1. chat' = Upserted(b) /\ StepsTo(s, "over") /\ post[s].at = "idle"
    BY <1>7 DEF SetApprovalMode
  <2>2. PICK rec \in PostShape : post' = [post EXCEPT ![s] = rec] /\ rec.at = "over" /\ ~rec.cancelled
    BY <1>1, <2>1, RecordSteps
  <2>3. TablesTyped' /\ ListInv' /\ \A c \in Chats : chat[c].here => chat'[c].here
    BY <1>1, <2>1, UpsertKeeps
  <2> QED
    BY <1>5, <2>2, <2>3
<1> QED
  BY <1>4, <1>6, <1>7

\* Binding a conversation to a project that is no longer there makes it a stray.
LEMMA SetProjectIDStep ==
    ASSUME ProjectsInv, NEW s \in Posts, UNCHANGED <<fileSystemVars, deletion>>, SetProjectID(s)
    PROVE  ProjectsInv'
<1>1. /\ UNCHANGED <<workspaceOf, numProjects, leadsTo, opening, streams, cards, checked, deletion, rowsOf, tracked>>
      /\ cards \subseteq Chats /\ checked \subseteq Chats /\ RunInv /\ GoneInv /\ PostInv /\ past \in PastShape
      /\ post \in [Posts -> PostShape] /\ chat \in [Chats -> [here : BOOLEAN, project : 0..MaxProjects]]
      /\ rowsOf \in [Chats -> SUBSET RowKinds] /\ ListInv
  BY DEF ProjectsInv, ProjectsTyped, LiveTyped, TablesTyped, HistoryTyped, fileSystemVars, SetProjectID
<1>2. past.deleted \subseteq Chats
  BY <1>1 DEF PastShape
<1>3. PICK c \in Chats : c = post[s].chat /\ post[s].at = "upserted"
  BY <1>1 DEF PostInv, SetProjectID
<1>4. PICK p \in 0..MaxProjects : p = post[s].project
  BY <1>1 DEF PostShape
<1>5. PICK bound \in BOOLEAN :
        /\ bound => chat[c].here
        /\ chat' = IF bound THEN [chat EXCEPT ![c].project = p] ELSE chat
        /\ past' = IF bound /\ ~There(p) THEN [past EXCEPT !.strays = @ \cup {c}] ELSE past
        /\ StepsTo(s, "bound")
  BY <1>1, <1>3, <1>4 DEF SetProjectID, PostShape
<1>6. PICK rec \in PostShape : post' = [post EXCEPT ![s] = rec] /\ rec.at = "bound" /\ rec.chat = c
                               /\ rec.cancelled = post[s].cancelled
  BY <1>1, <1>3, <1>5, RecordSteps DEF Asking
<1>7. ~rec.cancelled /\ c \notin past.deleted /\ Standing(c) /\ post[s].at \notin Entered
  BY <1>1, <1>3, <1>6 DEF PostInv, GoneInv, RunInv, Bound, Acting, Asking, Entered, Registered
<1>8. /\ chat' \in [Chats -> [here : BOOLEAN, project : 0..MaxProjects]]
      /\ \A b \in Chats : chat'[b].here = chat[b].here /\ (b # c \/ ~bound => chat'[b] = chat[b])
      /\ bound => chat'[c].project = p
  BY <1>1, <1>5
<1>9. /\ past' \in PastShape /\ past'.moved = past.moved /\ past'.escaped = past.escaped
      /\ past'.revived = past.revived /\ past'.left = past.left /\ past'.late = past.late
      /\ past'.deleted = past.deleted
      /\ past.strays \subseteq past'.strays /\ (bound /\ ~There(p) => c \in past'.strays)
  BY <1>1, <1>5 DEF PastShape
<1>10. TablesTyped'
  BY <1>1, <1>8 DEF TablesTyped
<1>11. ListInv'
  <2>1. ASSUME NEW b \in Chats, InList(b)' PROVE There(chat'[b].project) \/ b \in past'.strays
    <3>1. CASE b # c \/ ~bound
      BY <1>1, <1>8, <1>9, <2>1, <3>1 DEF InList, ListInv, ListedHaveProject
    <3>2. CASE b = c /\ bound
      BY <1>8, <1>9, <3>2
    <3> QED
      BY <3>1, <3>2
  <2>2. \A b \in Chats : ~chat'[b].here => chat'[b].project = 0
    BY <1>1, <1>5, <1>8 DEF ListInv
  <2>3. \A b \in past'.deleted : chat'[b].project = 0
    BY <1>1, <1>2, <1>7, <1>8, <1>9 DEF ListInv
  <2> QED
    BY <1>1, <2>1, <2>2, <2>3 DEF ListInv, ListedHaveProject, There
<1> QED
  BY <1>1, <1>2, <1>6, <1>7, <1>8, <1>9, <1>10, <1>11, PostOnlyStep DEF Standing, Excused, Asking

\* A request to post, and an answer to a card, begin.
LEMMA BeginSteps ==
    ASSUME ProjectsInv, NEW s \in Posts, NEW c \in Chats, UNCHANGED <<fileSystemVars, deletion>>,
           Resolve(s, c) \/ \E wanted \in 0..numProjects : Look(s, c, wanted)
    PROVE  ProjectsInv'
<1>1. /\ UNCHANGED <<workspaceOf, numProjects, leadsTo, opening, streams, deletion, chat, tracked, checked>>
      /\ cards \subseteq Chats /\ checked \subseteq Chats /\ past \in PastShape /\ post[s].at = "idle"
      /\ post \in [Posts -> PostShape] /\ chat \in [Chats -> [here : BOOLEAN, project : 0..MaxProjects]]
      /\ rowsOf \in [Chats -> SUBSET RowKinds] /\ ListInv /\ numProjects \in 0..MaxProjects
  BY DEF ProjectsInv, ProjectsTyped, LiveTyped, TablesTyped, HistoryTyped, FoldersTyped, fileSystemVars, tableVars, Resolve, Look
<1>2. post[s].at \notin Entered /\ past.deleted \subseteq Chats /\ NoPost \in PostShape /\ ~NoPost.cancelled
      /\ MaxProjects \in Nat
  <2>1. post[s].at \notin Entered
    BY <1>1 DEF Entered, Registered, Acting
  <2>2. past.deleted \subseteq Chats
    BY <1>1 DEF PastShape
  <2>3. MaxProjects \in Nat /\ 0 \in 0..MaxProjects
    BY ProjectsAssumption
  <2>4. NoPost \in PostShape /\ ~NoPost.cancelled
    BY <2>3 DEF NoPost, PostShape
  <2> QED
    BY <2>1, <2>2, <2>3, <2>4
<1>3. CASE Resolve(s, c)
  <2> DEFINE rec == [NoPost EXCEPT !.at = "answered", !.chat = c]
  <2>1. /\ past' = past /\ cards' = cards \ {c} /\ rowsOf' = [rowsOf EXCEPT ![c] = @ \ {"pending"}]
        /\ post' = [post EXCEPT ![s] = rec]
    BY <1>3 DEF Resolve, ClearCards
  <2>2. rec \in PostShape /\ rec.at = "answered" /\ rec.chat = c /\ ~rec.cancelled
    BY <1>2 DEF PostShape, Asking
  <2> HIDE DEF rec
  <2>3. TablesTyped' /\ \A b \in Chats : rowsOf'[b] \subseteq rowsOf[b]
    BY <1>1, <2>1 DEF TablesTyped
  <2>4. ListInv'
    BY <1>1, <2>1 DEF ListInv, ListedHaveProject, InList, There
  <2>5. rec.at \notin Bound
    BY <2>2 DEF Bound, Acting
  <2> QED
    BY <1>1, <1>2, <2>1, <2>2, <2>3, <2>4, <2>5, PostOnlyStep
<1>4. ASSUME NEW wanted \in 0..numProjects, Look(s, c, wanted) PROVE ProjectsInv'
  <2> DEFINE mine == IF chat[c].here THEN chat[c].project ELSE 0
             rec == [NoPost EXCEPT !.at = "looked", !.chat = c,
                       !.project = IF mine = 0 THEN wanted ELSE mine, !.binds = mine = 0]
  <2>1. /\ past' = [past EXCEPT !.deleted = @ \ {c}] /\ cards' = cards /\ rowsOf' = rowsOf
        /\ post' = [post EXCEPT ![s] = rec]
    BY <1>4 DEF Look, tableVars
  <2>2. mine \in 0..MaxProjects /\ wanted \in 0..MaxProjects
    BY <1>1, <1>2
  <2> HIDE DEF mine
  <2>3. rec \in PostShape /\ rec.at = "looked" /\ rec.chat = c /\ ~rec.cancelled
    BY <1>2, <2>2 DEF PostShape, Asking
  <2> HIDE DEF rec
  <2>4. /\ past' \in PastShape /\ past'.moved = past.moved /\ past'.escaped = past.escaped
        /\ past'.revived = past.revived /\ past'.left = past.left /\ past'.late = past.late
        /\ past'.deleted = past.deleted \ {c} /\ past'.strays = past.strays
    BY <1>1, <2>1 DEF PastShape
  <2>5. ListInv'
    BY <1>1, <2>1, <2>4 DEF ListInv, ListedHaveProject, InList, There
  <2>6. rec.at \notin Bound /\ TablesTyped'
    BY <1>1, <2>1, <2>3 DEF Bound, Acting, TablesTyped
  <2> QED
    BY <1>1, <1>2, <2>1, <2>3, <2>4, <2>5, <2>6, PostOnlyStep
<1> QED
  BY <1>3, <1>4

\* What an escape adds, and nothing else.
LEMMA Escapes ==
    ASSUME past \in PastShape, PostInv, NEW run \in SUBSET Posts
    PROVE  /\ Escape(run) \in PastShape /\ Escape(run).moved = past.moved /\ Escape(run).revived = past.revived
           /\ Escape(run).left = past.left /\ Escape(run).late = past.late
           /\ Escape(run).strays = past.strays /\ Escape(run).deleted = past.deleted
           /\ past.escaped \subseteq Escape(run).escaped
           /\ \A s \in run : Live(s) => post[s].chat \in Escape(run).escaped
<1> DEFINE more == {post[s].chat : s \in {r \in run : Live(r)}}
<1>1. more \subseteq Chats
  BY DEF PostInv, Live, Asking, Acting, Registered
<1>2. \A s \in run : Live(s) => post[s].chat \in more
  OBVIOUS
<1>3. Escape(run) = [past EXCEPT !.escaped = @ \cup more]
  BY DEF Escape
<1> HIDE DEF more
<1> QED
  BY <1>1, <1>2, <1>3 DEF PastShape

\* A run takes the place of another in the registry: the other escapes deletions from now on.
LEMMA CreateAtStep ==
    ASSUME ProjectsInv, NEW s \in Posts, UNCHANGED <<fileSystemVars, deletion>>, CreateAt(s)
    PROVE  ProjectsInv'
<1>1. /\ UNCHANGED <<workspaceOf, numProjects, leadsTo, opening, deletion, cards, checked, chat, rowsOf, tracked>>
      /\ RunInv /\ GoneInv /\ PostInv /\ past \in PastShape /\ ListInv
      /\ post \in [Posts -> PostShape] /\ streams \in [Chats -> SUBSET Posts]
      /\ chat \in [Chats -> [here : BOOLEAN, project : 0..MaxProjects]]
  BY DEF ProjectsInv, ProjectsTyped, LiveTyped, TablesTyped, HistoryTyped, fileSystemVars, tableVars, CreateAt
<1>2. PICK c \in Chats : c = post[s].chat /\ post[s].at \in {"stored", "answered"}
  BY <1>1 DEF PostInv, CreateAt
<1>3. PICK at \in {"created", "recreated"} : StepsTo(s, at) /\ (at = "created" => post[s].at = "stored")
  BY <1>2 DEF CreateAt
<1>4. PICK rec \in PostShape : post' = [post EXCEPT ![s] = rec] /\ rec.at = at /\ rec.chat = c
                               /\ rec.cancelled = post[s].cancelled
  BY <1>1, <1>2, <1>3, RecordSteps DEF Asking, Registered
<1>5. past' = Escape(streams[c]) /\ streams' = [streams EXCEPT ![c] = {s}] /\ streams[c] \in SUBSET Posts
  BY <1>1, <1>2 DEF CreateAt
<1>6. /\ past' \in PastShape /\ past'.moved = past.moved /\ past'.revived = past.revived
      /\ past'.left = past.left /\ past'.late = past.late
      /\ past'.strays = past.strays /\ past'.deleted = past.deleted
      /\ past.escaped \subseteq past'.escaped
      /\ \A x \in streams[c] : Live(x) => post[x].chat \in past'.escaped
  BY <1>1, <1>5, Escapes
<1>7. Excused \subseteq Excused' /\ past.deleted \subseteq Chats /\ \A b \in Chats : Standing(b) => Standing(b)'
  BY <1>1, <1>6 DEF Excused, Standing, PastShape
<1>8. ~rec.cancelled /\ post[s].at \notin Entered /\ rec.at \in Entered
      /\ (at = "created" => c \notin past.deleted /\ Standing(c))
  BY <1>1, <1>2, <1>3, <1>4 DEF PostInv, GoneInv, RunInv, Bound, Acting, Asking, Entered, Registered
<1>9. ASSUME NEW b \in Chats, NEW x \in streams[b] PROVE x \in streams'[b] \/ ~Live(x) \/ b \in past'.escaped
  <2>1. Live(x) => post[x].chat = b
    BY <1>1 DEF PostInv, Live, Asking, Acting, Registered
  <2>2. CASE b = c
    BY <1>6, <2>1, <2>2
  <2>3. CASE b # c
    BY <1>1, <1>5, <2>3
  <2> QED
    BY <2>2, <2>3
<1>10. \A b \in Chats : \A x \in streams'[b] : x \in streams[b] \/ (x = s /\ rec.at \in Entered /\ rec.chat = b)
  BY <1>1, <1>4, <1>5, <1>8
<1>11. PostInv' /\ RemovalInv'
  BY ZenonT(40), <1>1, <1>4, <1>6, <1>8, <1>9, <1>10, PostStep
<1>12. RunInv' /\ GoneInv'
  <2>1. rec.at \in Bound /\ ~rec.cancelled => Standing(rec.chat)'
    <3>1. rec.at \in Bound => at = "created"
      BY <1>4 DEF Bound, Acting
    <3>2. at = "created" => Standing(c)'
      BY <1>7, <1>8
    <3> QED
      BY <1>4, <3>1, <3>2 DEF Standing
  <2>2. rec.at \in Asking \ {"answered", "recreated"} => rec.chat \notin past'.deleted
    BY <1>4, <1>6, <1>8
  <2>3. \A b \in past'.deleted \ Excused' :
          rec.chat = b /\ rec.at \notin {"idle", "over"} /\ ~rec.cancelled => rec.at \in {"answered", "recreated", "loading"}
    BY <1>4, <1>6, <1>8
  <2> QED
    BY <1>1, <1>4, <1>6, <1>7, <2>1, <2>2, <2>3, PostEffects
<1>13. ProjectsTyped'
  <2>1. streams' \in [Chats -> SUBSET Posts] /\ post' \in [Posts -> PostShape]
    BY <1>1, <1>4, <1>5
  <2> QED
    BY <1>1, <1>6, <2>1 DEF ProjectsInv, ProjectsTyped, FoldersTyped, LiveTyped, HistoryTyped, TablesTyped
<1>14. FoldersInv'
  BY <1>1, <1>6 DEF ProjectsInv, FoldersInv, OneProjectPerFolder, There
<1>15. ListInv'
  BY <1>1, <1>6 DEF ListInv, ListedHaveProject, InList, There
<1> QED
  BY <1>11, <1>12, <1>13, <1>14, <1>15 DEF ProjectsInv

\* Every step of a post or of its run keeps the invariant.
LEMMA ChattingStep ==
    ASSUME ProjectsInv, NEW s \in Posts, Chatting(s)
    PROVE  ProjectsInv'
<1>1. UNCHANGED <<fileSystemVars, deletion>>
  BY DEF Chatting
<1>2. CASE \E c \in Chats : SetApprovalMode(s, c)
  BY <1>1, <1>2, UpsertSteps
<1>3. CASE \E c \in Chats : Resolve(s, c) \/ \E wanted \in 0..numProjects : Look(s, c, wanted)
  BY <1>1, <1>3, BeginSteps
<1>4. CASE FindProject(s) \/ StartResume(s) \/ Ends(s)
  BY <1>1, <1>4, QuietSteps
<1>5. CASE Upsert(s) \/ SettleRun(s)
  BY <1>1, <1>5, UpsertSteps
<1>6. CASE StoreUserRow(s) \/ StartRun(s) \/ Pause(s) \/ RecordCard(s)
  BY <1>1, <1>6, RowSteps
<1>7. CASE StoreMessage(s) \/ StoreKept(s) \/ CheckRun(s) \/ Track(s)
  BY <1>1, <1>7, RunSteps
<1>8. CASE LoadCheckpoint(s)
  BY <1>1, <1>8, LoadCheckpointStep
<1>9. CASE SetProjectID(s)
  BY <1>1, <1>9, SetProjectIDStep
<1>10. CASE CreateAt(s)
  BY <1>1, <1>10, CreateAtStep
<1> QED
  BY Zenon, <1>2, <1>3, <1>4, <1>5, <1>6, <1>7, <1>8, <1>9, <1>10 DEF Chatting

-----------------------------------------------------------------------------
\* What a step of a deletion leaves of the registry and of the other deletions: runs leave
\* it cancelled, excused or finished.
LEMMA RemovalStep ==
    ASSUME ProjectsInv, NEW d \in Removals, NEW rec \in DeletionShape, deletion' = [deletion EXCEPT ![d] = rec],
           post' \in [Posts -> PostShape],
           \A x \in Posts : /\ post'[x].at = post[x].at /\ post'[x].chat = post[x].chat
                            /\ post[x].cancelled => post'[x].cancelled
                            /\ post'[x].cancelled => post[x].cancelled \/ post[x].at \in Acting \cup {"loading"},
           \A c \in Chats : streams'[c] \subseteq streams[c],
           \A c \in Chats : \A x \in streams[c] : x \in streams'[c] \/ ~Live(x) \/ c \in past'.escaped,
           past.escaped \subseteq past'.escaped,
           rec.at = "removing" => rec.chat \in Chats \ rec.todo,
           rec.at # "over" /\ rec.project = 0 => rec.chat \in Chats,
           rec.at # "over" => \A x \in rec.met :
               /\ post[x].at \in Entered
               /\ ~Live(x)' \/ post[x].chat \in past'.escaped \/ (post[x].chat \in rec.todo /\ x \in streams'[post[x].chat])
    PROVE  PostInv' /\ RemovalInv'
<1>1. /\ PostInv /\ RemovalInv /\ deletion \in [Removals -> DeletionShape] /\ streams \in [Chats -> SUBSET Posts]
      /\ deletion'[d] = rec /\ \A e \in Removals : e # d => deletion'[e] = deletion[e]
  BY DEF ProjectsInv, ProjectsTyped, LiveTyped, HistoryTyped
<1>2. PostInv'
  <2>1. \A c \in Chats : \A x \in streams'[c] : x \in Posts /\ x \in streams[c]
    BY <1>1
  <2> QED
    BY <1>1, <2>1 DEF PostInv
<1>3. ASSUME NEW e \in Removals, e # d, NEW x \in Posts, Met(e, x) PROVE Met(e, x)'
  <2>1. deletion'[e] = deletion[e] /\ post'[x].at = post[x].at /\ post'[x].chat = post[x].chat /\ (Live(x)' => Live(x))
    BY <1>1, <1>3 DEF Live
  <2>2. CASE ~Live(x)' \/ post[x].chat \in past'.escaped
    BY <1>3, <2>1, <2>2 DEF Met
  <2>3. CASE Live(x)' /\ post[x].chat \notin past'.escaped
    <3>1. post[x].chat \in deletion[e].todo /\ x \in streams[post[x].chat]
      BY <1>3, <2>1, <2>3 DEF Met
    <3>2. post[x].chat \in Chats
      BY <1>1, <2>1, <2>3 DEF PostInv, Live, Asking, Acting, Registered
    <3>3. x \in streams'[post[x].chat]
      BY <2>1, <2>3, <3>1, <3>2
    <3> QED
      BY <1>3, <2>1, <3>1, <3>3 DEF Met
  <2> QED
    BY <2>2, <2>3
<1>4. ASSUME rec.at # "over", NEW x \in rec.met PROVE Met(d, x)'
  <2>1. x \in Posts
    BY DEF DeletionShape
  <2> QED
    BY <1>1, <1>4, <2>1 DEF Met
<1>5. RemovalInv'
  <2>1. ASSUME NEW e \in Removals, deletion'[e].at \in {"stopping", "removing"}
        PROVE  /\ deletion'[e].at = "removing" => deletion'[e].chat \in Chats \ deletion'[e].todo
               /\ deletion'[e].project = 0 => deletion'[e].chat \in Chats
               /\ \A x \in deletion'[e].met : Met(e, x)'
    <3>1. CASE e = d
      BY <1>1, <1>4, <2>1, <3>1
    <3>2. CASE e # d
      <4>1. deletion[e].met \subseteq Posts
        BY <1>1 DEF DeletionShape
      <4> QED
        BY <1>1, <1>3, <2>1, <3>2, <4>1 DEF RemovalInv
    <3> QED
      BY <3>1, <3>2
  <2> QED
    BY <2>1 DEF RemovalInv
<1> QED
  BY <1>2, <1>5

\* While it stops streams, a deletion changes no table.
LEMMA SameTables ==
    ASSUME ProjectsInv, PostInv', RemovalInv',
           UNCHANGED <<workspaceOf, numProjects, leadsTo, opening, chat, rowsOf, tracked, cards, checked>>,
           streams' \in [Chats -> SUBSET Posts], post' \in [Posts -> PostShape],
           deletion' \in [Removals -> DeletionShape], past' \in PastShape,
           past'.moved = past.moved, past'.strays = past.strays, past'.deleted = past.deleted,
           past'.left = past.left, past'.late = past.late, Excused \subseteq Excused',
           past.escaped \subseteq past'.escaped,
           \A x \in Posts : /\ post'[x].at = post[x].at /\ post'[x].chat = post[x].chat
                            /\ post[x].cancelled => post'[x].cancelled
    PROVE  ProjectsInv'
<1>1. ProjectsTyped'
  BY DEF ProjectsInv, ProjectsTyped, FoldersTyped, LiveTyped, HistoryTyped, TablesTyped
<1>2. FoldersInv' /\ ListInv'
  BY DEF ProjectsInv, FoldersInv, OneProjectPerFolder, There, ListInv, ListedHaveProject, InList
<1>3. \A c : Standing(c) => Standing(c)'
  BY DEF Standing
<1>4. RunInv'
  <2>1. ASSUME NEW x \in Posts, post'[x].at \in Bound, ~post'[x].cancelled PROVE Standing(post[x].chat)'
    <3>1. Standing(post[x].chat) /\ post'[x].chat = post[x].chat
      BY <2>1 DEF ProjectsInv, RunInv
    <3> QED
      BY <3>1 DEF Standing
  <2> QED
    BY <1>3, <2>1 DEF ProjectsInv, RunInv
<1>5. GoneInv'
  <2>1. \A x \in Posts : Live(x)' => Live(x)
    BY DEF Live
  <2> QED
    BY <2>1 DEF ProjectsInv, GoneInv, MayStay
<1> QED
  BY <1>1, <1>2, <1>4, <1>5 DEF ProjectsInv

\* A deletion begins: it knows the runs that are registered for what it will delete.
LEMMA BeginDeletion ==
    ASSUME ProjectsInv, NEW d \in Removals, NEW p \in 0..MaxProjects, NEW c \in Chats \cup {""},
           NEW affected \in SUBSET Chats, Begin(d, p, c, affected), p = 0 => c \in Chats,
           UNCHANGED <<workspaceOf, numProjects, leadsTo, opening, tableVars, liveVars, past>>
    PROVE  ProjectsInv'
<1> DEFINE met == UNION {streams[b] : b \in affected}
           rec == [NoRemoval EXCEPT !.at = "stopping", !.project = p, !.chat = c, !.todo = affected, !.met = met]
<1>1. /\ streams \in [Chats -> SUBSET Posts] /\ post \in [Posts -> PostShape] /\ past \in PastShape
      /\ deletion \in [Removals -> DeletionShape] /\ PostInv
      /\ UNCHANGED <<workspaceOf, numProjects, leadsTo, opening, chat, rowsOf, tracked, cards, checked, streams, post, past>>
  BY DEF ProjectsInv, ProjectsTyped, LiveTyped, HistoryTyped, tableVars, liveVars
<1>2. deletion' = [deletion EXCEPT ![d] = rec]
  BY DEF Begin
<1>3. met \subseteq Posts /\ \A x \in met : \E b \in affected : x \in streams[b]
  BY ZenonT(40), <1>1
<1> HIDE DEF met
<1>4. rec \in DeletionShape /\ rec.at = "stopping" /\ rec.project = p /\ rec.chat = c /\ rec.todo = affected /\ rec.met = met
  BY <1>3, ProjectsAssumption DEF DeletionShape, NoRemoval
<1> HIDE DEF rec
<1>5. Excused' = Excused /\ \A x : Live(x)' <=> Live(x)
  BY <1>1 DEF Excused, Live
<1>6. ASSUME NEW x \in met
      PROVE  post[x].at \in Entered /\ (~Live(x)' \/ (post[x].chat \in affected /\ x \in streams'[post[x].chat]))
  <2>1. PICK b \in affected : x \in streams[b]
    BY <1>3
  <2>2. post[x].at \in Entered /\ (Live(x) => post[x].chat = b)
    BY <1>1, <2>1 DEF PostInv, Live, Asking, Acting, Registered
  <2> QED
    BY <1>1, <1>5, <2>1, <2>2
<1>7. PostInv' /\ RemovalInv'
  BY <1>1, <1>2, <1>4, <1>5, <1>6, RemovalStep
<1>8. deletion' \in [Removals -> DeletionShape]
  BY <1>1, <1>2, <1>4
<1> QED
  BY <1>1, <1>5, <1>7, <1>8, SameTables


\* A conversation is deleted alone, a project with those listed under it.
LEMMA DeleteSteps ==
    ASSUME ProjectsInv, NEW d \in Removals, UNCHANGED <<numProjects, leadsTo, opening>>,
           (\E c \in Chats : DeleteChat(d, c)) \/ \E p \in ProjectIds : DeleteProject(d, p)
    PROVE  ProjectsInv'
<1>1. 0 \in 0..MaxProjects /\ ProjectIds \subseteq 0..MaxProjects /\ 0 \notin ProjectIds
  BY ProjectsAssumption DEF ProjectIds
<1>2. ASSUME NEW c \in Chats, DeleteChat(d, c) PROVE ProjectsInv'
  <2>1. UNCHANGED <<tableVars, liveVars, workspaceOf, past>> /\ Begin(d, 0, c, {c}) /\ {c} \in SUBSET Chats
    BY <1>2 DEF DeleteChat
  <2> QED
    BY <1>1, <2>1, BeginDeletion
<1>3. ASSUME NEW p \in ProjectIds, DeleteProject(d, p) PROVE ProjectsInv'
  <2>1. UNCHANGED <<tableVars, liveVars, workspaceOf, past>> /\ Begin(d, p, "", ListByProject(p))
        /\ ListByProject(p) \in SUBSET Chats /\ p # 0
    BY <1>1, <1>3 DEF DeleteProject, ListByProject
  <2> QED
    BY <1>1, <2>1, BeginDeletion
<1> QED
  BY <1>2, <1>3

\* The run registered for a conversation is cancelled, or escapes when it has no cancel yet.
LEMMA CancelStreamStep ==
    ASSUME ProjectsInv, NEW d \in Removals, NEW c \in Chats, UNCHANGED <<numProjects, leadsTo, opening>>,
           CancelStream(d, c)
    PROVE  ProjectsInv'
<1> DEFINE early == {s \in streams[c] : post[s].at \in Registered}
           atNext == IF streams[c] = {} THEN "stopping" ELSE "removing"
           rec == [deletion[d] EXCEPT !.todo = @ \ {c}, !.chat = c, !.at = atNext]
<1>1. /\ streams \in [Chats -> SUBSET Posts] /\ post \in [Posts -> PostShape] /\ past \in PastShape
      /\ deletion \in [Removals -> DeletionShape] /\ PostInv /\ RemovalInv /\ streams[c] \subseteq Posts
      /\ UNCHANGED <<workspaceOf, numProjects, leadsTo, opening, chat, rowsOf, tracked, cards, checked, streams>>
      /\ deletion[d].at = "stopping" /\ c \in deletion[d].todo
  BY DEF ProjectsInv, ProjectsTyped, LiveTyped, HistoryTyped, tableVars, liveVars, CancelStream
<1>2. post' = Cancelled(streams[c] \ early) /\ past' = Escape(early) /\ early \in SUBSET Posts
  BY <1>1 DEF CancelStream
<1>3. early \subseteq streams[c] /\ \A s \in streams[c] : s \notin early => post[s].at \notin Registered
  OBVIOUS
<1> HIDE DEF early
<1>4. deletion' = [deletion EXCEPT ![d] = rec]
  BY <1>1 DEF CancelStream
<1>5. /\ deletion[d] \in DeletionShape /\ rec \in DeletionShape /\ rec.at = atNext /\ rec.chat = c
      /\ rec.todo = deletion[d].todo \ {c} /\ rec.met = deletion[d].met /\ rec.project = deletion[d].project
  BY <1>1 DEF DeletionShape
<1> HIDE DEF rec
<1>6. /\ past' \in PastShape /\ past'.moved = past.moved /\ past'.revived = past.revived
      /\ past'.left = past.left /\ past'.late = past.late
      /\ past'.strays = past.strays /\ past'.deleted = past.deleted
      /\ past.escaped \subseteq past'.escaped
      /\ \A s \in early : Live(s) => post[s].chat \in past'.escaped
  BY <1>1, <1>2, Escapes
<1>7. Excused \subseteq Excused'
  BY <1>6 DEF Excused
<1>8. ASSUME NEW x \in Posts
      PROVE  /\ post'[x] \in PostShape /\ post'[x].at = post[x].at /\ post'[x].chat = post[x].chat
             /\ post[x].cancelled => post'[x].cancelled
             /\ post'[x].cancelled => post[x].cancelled \/ post[x].at \in Acting \cup {"loading"}
             /\ x \in streams[c] /\ x \notin early => ~Live(x)'
  <2>1. post[x] \in PostShape /\ post'[x] = (IF x \in streams[c] \ early /\ Live(x) THEN [post[x] EXCEPT !.cancelled = TRUE] ELSE post[x])
    BY <1>1, <1>2 DEF Cancelled
  <2>2. CASE x \in streams[c] \ early /\ Live(x)
    <3>1. /\ post'[x] \in PostShape /\ post'[x].at = post[x].at /\ post'[x].chat = post[x].chat
          /\ post'[x].cancelled
      BY <2>1, <2>2 DEF PostShape
    <3>2. post[x].at \in Entered /\ post[x].at \notin Registered
      BY <1>1, <1>3, <2>2 DEF PostInv
    <3>3. post[x].at \in Acting \cup {"loading"}
      BY <2>2, <3>2 DEF Entered, Live, Asking, Registered
    <3> QED
      BY <3>1, <3>3 DEF Live
  <2>3. CASE ~(x \in streams[c] \ early /\ Live(x))
    BY <2>1, <2>3 DEF Live
  <2> QED
    BY <2>2, <2>3
<1>9. post' \in [Posts -> PostShape]
  BY <1>2, <1>8 DEF Cancelled
<1>10. ASSUME NEW x \in rec.met
       PROVE  /\ post[x].at \in Entered
              /\ ~Live(x)' \/ post[x].chat \in past'.escaped \/ (post[x].chat \in rec.todo /\ x \in streams'[post[x].chat])
  <2>1. Met(d, x) /\ x \in Posts
    BY <1>1, <1>5 DEF RemovalInv, DeletionShape
  <2>2. CASE ~Live(x)
    BY <1>8, <2>1, <2>2 DEF Met, Live
  <2>3. CASE post[x].chat \in past.escaped
    BY <1>6, <1>7, <2>1, <2>3 DEF Met
  <2>4. CASE Live(x) /\ post[x].chat \in deletion[d].todo /\ x \in streams[post[x].chat]
    <3>1. CASE post[x].chat = c /\ x \in early
      BY <1>6, <1>7, <2>1, <2>4, <3>1 DEF Met
    <3>2. CASE post[x].chat = c /\ x \notin early
      BY <1>8, <2>1, <2>4, <3>2 DEF Met
    <3>3. CASE post[x].chat # c
      BY <1>1, <1>5, <2>1, <2>4, <3>3 DEF Met
    <3> QED
      BY <3>1, <3>2, <3>3
  <2> QED
    BY <2>1, <2>2, <2>3, <2>4 DEF Met
<1>11. rec.at = "removing" => rec.chat \in Chats \ rec.todo
  BY <1>5
<1>12. rec.at # "over" /\ rec.project = 0 => rec.chat \in Chats
  BY <1>5
<1>13. \A b \in Chats : \A x \in streams[b] : x \in streams'[b] \/ ~Live(x) \/ b \in past'.escaped
  BY <1>1
<1>14. PostInv' /\ RemovalInv'
  BY <1>1, <1>4, <1>5, <1>6, <1>7, <1>8, <1>9, <1>10, <1>11, <1>12, <1>13, RemovalStep
<1>15. deletion' \in [Removals -> DeletionShape]
  BY <1>1, <1>4, <1>5
<1> QED
  BY <1>1, <1>6, <1>7, <1>8, <1>9, <1>14, <1>15, SameTables

\* Then whatever run is registered is no longer: it escapes unless this deletion met it.
LEMMA RemoveStreamStep ==
    ASSUME ProjectsInv, NEW d \in Removals, UNCHANGED <<numProjects, leadsTo, opening>>, RemoveStream(d)
    PROVE  ProjectsInv'
<1>1. /\ streams \in [Chats -> SUBSET Posts] /\ post \in [Posts -> PostShape] /\ past \in PastShape
      /\ deletion \in [Removals -> DeletionShape] /\ PostInv /\ RemovalInv
      /\ UNCHANGED <<workspaceOf, numProjects, leadsTo, opening, chat, rowsOf, tracked, cards, checked, post>>
      /\ deletion[d].at = "removing"
  BY DEF ProjectsInv, ProjectsTyped, LiveTyped, HistoryTyped, tableVars, liveVars, RemoveStream
<1>2. PICK c \in Chats : c = deletion[d].chat /\ c \notin deletion[d].todo
  BY <1>1 DEF RemovalInv
<1> DEFINE unmet == streams[c] \ deletion[d].met
           rec == [deletion[d] EXCEPT !.at = "stopping"]
<1>3. past' = Escape(unmet) /\ unmet \in SUBSET Posts /\ streams' = [streams EXCEPT ![c] = {}]
  BY <1>1, <1>2 DEF RemoveStream
<1>4. deletion' = [deletion EXCEPT ![d] = rec]
  BY <1>1 DEF RemoveStream
<1>5. /\ deletion[d] \in DeletionShape /\ rec \in DeletionShape /\ rec.at = "stopping" /\ rec.chat = c
      /\ rec.todo = deletion[d].todo /\ rec.met = deletion[d].met /\ rec.project = deletion[d].project
  BY <1>1, <1>2 DEF DeletionShape
<1> HIDE DEF rec
<1>6. /\ past' \in PastShape /\ past'.moved = past.moved /\ past'.revived = past.revived
      /\ past'.left = past.left /\ past'.late = past.late
      /\ past'.strays = past.strays /\ past'.deleted = past.deleted
      /\ past.escaped \subseteq past'.escaped
      /\ \A s \in unmet : Live(s) => post[s].chat \in past'.escaped
  BY <1>1, <1>3, Escapes
<1>7. Excused \subseteq Excused'
  BY <1>6 DEF Excused
<1>8. ASSUME NEW x \in streams[c] PROVE ~Live(x) \/ c \in past'.escaped
  <2>1. Live(x) => post[x].chat = c
    BY <1>1 DEF PostInv, Live, Asking, Acting, Registered
  <2>2. CASE x \in unmet
    BY <1>6, <1>7, <2>1, <2>2
  <2>3. CASE x \in deletion[d].met
    <3>1. Met(d, x)
      BY <1>1, <2>3 DEF RemovalInv
    <3> QED
      BY <1>2, <1>6, <1>7, <2>1, <3>1 DEF Met
  <2> QED
    BY <2>2, <2>3
<1>9. \A b \in Chats : streams'[b] \subseteq streams[b]
  BY <1>1, <1>3
<1>10. \A b \in Chats : \A x \in streams[b] : x \in streams'[b] \/ ~Live(x) \/ b \in past'.escaped
  BY <1>1, <1>3, <1>8
<1>11. \A x : Live(x)' <=> Live(x)
  BY <1>1 DEF Live
<1>12. ASSUME NEW x \in rec.met
       PROVE  /\ post[x].at \in Entered
              /\ ~Live(x)' \/ post[x].chat \in past'.escaped \/ (post[x].chat \in rec.todo /\ x \in streams'[post[x].chat])
  <2>1. Met(d, x) /\ x \in Posts
    BY <1>1, <1>5 DEF RemovalInv, DeletionShape
  <2>2. Live(x) => post[x].chat \in Chats
    BY <1>1, <2>1 DEF PostInv, Live, Asking, Acting, Registered
  <2>3. post[x].chat \in rec.todo => post[x].chat # c
    BY <1>2, <1>5
  <2> QED
    BY <1>1, <1>3, <1>5, <1>6, <1>7, <1>11, <2>1, <2>2, <2>3 DEF Met
<1>13. PostInv' /\ RemovalInv'
  BY <1>1, <1>2, <1>4, <1>5, <1>6, <1>7, <1>9, <1>10, <1>12, RemovalStep
<1>14. /\ deletion' \in [Removals -> DeletionShape] /\ streams' \in [Chats -> SUBSET Posts]
  BY <1>1, <1>3, <1>4, <1>5
<1> QED
  BY <1>1, <1>6, <1>7, <1>13, <1>14, SameTables


\* The rows go: runs that the deletion met do nothing more, what it did not meet escapes.
LEMMA GoneStep ==
    ASSUME ProjectsInv, NEW d \in Removals, Stopped(d), NEW gone \in SUBSET Chats, Gone(d, gone),
           UNCHANGED <<numProjects, leadsTo, opening>>,
           workspaceOf' \in [ProjectIds -> Spellings \cup {Unmade}],
           \A p \in ProjectIds : workspaceOf'[p] \in {workspaceOf[p], Unmade},
           \A c \in Chats \ gone : InList(c) => workspaceOf'[chat[c].project] = workspaceOf[chat[c].project],
           rowsOf' \in [Chats -> SUBSET RowKinds], \A c \in Chats : rowsOf'[c] \subseteq rowsOf[c],
           deletion[d].project = 0 => \A c \in gone : rowsOf'[c] = {}
    PROVE  ProjectsInv'
<1> DEFINE unmet == {s \in Posts \ deletion[d].met : post[s].chat \in gone}
           quiet == {c \in gone : NobodyAsks(c)}
           rec == [NoRemoval EXCEPT !.at = "over"]
           by == LeftBy(d, gone)
<1>1. /\ streams \in [Chats -> SUBSET Posts] /\ post \in [Posts -> PostShape] /\ past \in PastShape
      /\ deletion \in [Removals -> DeletionShape] /\ PostInv /\ RemovalInv /\ RunInv /\ ListInv /\ GoneInv /\ FoldersInv
      /\ chat \in [Chats -> [here : BOOLEAN, project : 0..MaxProjects]] /\ FoldersTyped
      /\ UNCHANGED <<streams, cards, post, checked>> /\ cards \subseteq Chats /\ checked \subseteq Chats
      /\ deletion[d].at = "stopping" /\ deletion[d].todo = {}
  BY DEF ProjectsInv, ProjectsTyped, LiveTyped, HistoryTyped, TablesTyped, liveVars, Gone, Stopped
<1>2. /\ past' = [Escape(unmet) EXCEPT !.deleted = @ \cup quiet, !.strays = @ \ gone, !.revived = @ \ gone,
                                       !.late = (@ \ gone) \cup (gone \cap checked),
                                       !.left = {l \in @ : l[1] \notin gone} \cup by]
      /\ chat' = [c \in Chats |-> IF c \in gone THEN NoChat ELSE chat[c]]
      /\ deletion' = [deletion EXCEPT ![d] = rec] /\ unmet \in SUBSET Posts /\ quiet \subseteq gone
  BY DEF Gone
<1>3. \A s \in Posts : post[s].chat \in gone => s \in deletion[d].met \/ s \in unmet
  OBVIOUS
<1>4. \A c \in quiet : \A s \in Posts : post[s].at \in Asking => post[s].chat # c
  BY DEF NobodyAsks
<1>21. /\ by \in SUBSET (Chats \X RowKinds)
       /\ deletion[d].project # 0 => \A c \in gone : \A k \in rowsOf[c] : k = "message" \/ <<c, k>> \in by
  <2>1. rowsOf \in [Chats -> SUBSET RowKinds]
    BY DEF ProjectsInv, ProjectsTyped, TablesTyped
  <2> QED
    BY <2>1 DEF LeftBy
<1> HIDE DEF unmet, quiet, by
<1>5. PICK esc \in PastShape :
         /\ esc = Escape(unmet) /\ esc.moved = past.moved /\ esc.revived = past.revived
         /\ esc.left = past.left /\ esc.late = past.late
         /\ esc.strays = past.strays /\ esc.deleted = past.deleted /\ past.escaped \subseteq esc.escaped
         /\ \A s \in unmet : Live(s) => post[s].chat \in esc.escaped
  BY <1>1, <1>2, Escapes
<1>6. /\ past' \in PastShape /\ past'.moved = past.moved /\ past'.strays = past.strays \ gone
      /\ past'.deleted = past.deleted \cup quiet /\ past'.escaped = esc.escaped
      /\ past'.revived = past.revived \ gone /\ past'.late = (past.late \ gone) \cup (gone \cap checked)
      /\ past'.left = {l \in past.left : l[1] \notin gone} \cup by
  <2>1. {l \in past.left : l[1] \notin gone} \cup by \in SUBSET (Chats \X RowKinds)
    BY <1>1, <1>21 DEF PastShape
  <2> QED
    BY <1>1, <1>2, <1>5, <2>1 DEF PastShape
<1>7. /\ past.escaped \subseteq past'.escaped
      /\ \A c \in Chats \ gone : Standing(c) => Standing(c)'
      /\ \A c \in Chats \ gone : c \notin Excused' => c \notin Excused
      /\ \A c \in Chats : c \in past'.escaped => Standing(c)' /\ c \in Excused'
  BY <1>2, <1>5, <1>6 DEF Excused, Standing
<1>8. rec \in DeletionShape /\ rec.at = "over"
  <2>1. 0 \in 0..MaxProjects
    BY ProjectsAssumption
  <2>2. NoRemoval \in DeletionShape
    BY <2>1 DEF DeletionShape, NoRemoval
  <2> QED
    BY <2>2 DEF DeletionShape
<1> HIDE DEF rec
<1>9. \A s \in Posts : Live(s)' <=> Live(s)
  BY <1>1 DEF Live
<1>10. ASSUME NEW s \in Posts, post[s].chat \in gone, Live(s) PROVE post[s].chat \in past'.escaped
  <2>1. CASE s \in deletion[d].met
    BY <1>1, <1>7, <1>10, <2>1 DEF RemovalInv, Met
  <2>2. CASE s \in unmet
    BY <1>5, <1>6, <1>7, <1>10, <2>2
  <2> QED
    BY <1>3, <1>10, <2>1, <2>2
<1>11. \A x \in Posts : /\ post'[x].at = post[x].at /\ post'[x].chat = post[x].chat
                        /\ post'[x].cancelled = post[x].cancelled
  BY <1>1
<1>12. \A c \in Chats : streams'[c] = streams[c]
  BY <1>1
<1>13. PostInv' /\ RemovalInv'
  BY <1>1, <1>2, <1>6, <1>7, <1>8, <1>11, <1>12, RemovalStep
<1>14. NoChat \in [here : BOOLEAN, project : 0..MaxProjects] /\ ~NoChat.here /\ NoChat.project = 0
  BY ProjectsAssumption DEF NoChat
<1>15. /\ chat' \in [Chats -> [here : BOOLEAN, project : 0..MaxProjects]]
       /\ \A c \in Chats : IF c \in gone THEN ~chat'[c].here /\ chat'[c].project = 0 ELSE chat'[c] = chat[c]
  BY <1>1, <1>2, <1>14
<1>16. ProjectsTyped'
  <2>1. deletion' \in [Removals -> DeletionShape]
    BY <1>1, <1>2, <1>8
  <2> QED
    BY <1>1, <1>6, <1>15, <2>1 DEF ProjectsTyped, FoldersTyped, TablesTyped, LiveTyped, HistoryTyped
<1>17. FoldersInv'
  <2>1. \A p \in ProjectIds : There(p)' => There(p) /\ workspaceOf'[p] = workspaceOf[p]
    BY DEF There
  <2>2. OneProjectPerFolder'
    BY <1>1, <1>6, <2>1 DEF FoldersInv, OneProjectPerFolder
  <2> QED
    BY <1>1, <2>2 DEF FoldersInv
<1>18. RunInv'
  <2>1. ASSUME NEW s \in Posts, post[s].at \in Bound, ~post[s].cancelled PROVE Standing(post[s].chat)'
    <3>1. Live(s) /\ post[s].chat \in Chats /\ Standing(post[s].chat)
      BY <1>1, <2>1 DEF PostInv, RunInv, Bound, Live, Asking, Acting, Registered
    <3>2. PICK c \in Chats : c = post[s].chat
      BY <3>1
    <3>3. c \in gone => c \in past'.escaped
      BY <1>10, <3>1, <3>2
    <3>4. Standing(c)'
      BY <1>7, <3>1, <3>2, <3>3
    <3> QED
      BY <1>1, <3>2, <3>4 DEF Standing
  <2>2. ASSUME NEW c \in Chats, "checkpoint" \in rowsOf'[c] PROVE Standing(c)' \/ <<c, "checkpoint">> \in past'.left
    <3>1. CASE c \in gone
      <4>1. deletion[d].project # 0 /\ "checkpoint" \in rowsOf[c]
        BY <2>2, <3>1
      <4> QED
        BY <1>6, <1>21, <3>1, <4>1
    <3>2. CASE c \notin gone
      BY <1>1, <1>6, <1>7, <2>2, <3>2 DEF RunInv
    <3> QED
      BY <3>1, <3>2
  <2> QED
    BY <1>1, <2>1, <2>2 DEF RunInv, Standing
<1>19. ListInv'
  <2>1. \A c \in Chats : InList(c)' => c \notin gone /\ InList(c)
    BY <1>15 DEF InList
  <2>2. ListedHaveProject'
    BY <1>1, <1>6, <1>15, <2>1 DEF ListInv, ListedHaveProject, There
  <2>3. \A c \in past'.deleted : chat'[c].project = 0
    BY <1>1, <1>2, <1>6, <1>15 DEF ListInv, PastShape
  <2> QED
    BY <1>1, <1>15, <2>2, <2>3 DEF ListInv
<1>20. GoneInv'
  <2>1. \A s \in Posts : post[s].at \in Asking \ {"answered", "recreated"} => post[s].chat \notin past'.deleted
    BY <1>1, <1>4, <1>6 DEF GoneInv
  <2>2. \A c \in past'.deleted : c \in checked => c \in past'.late
    BY <1>1, <1>2, <1>6 DEF GoneInv
  <2>3. ASSUME NEW c \in past'.deleted \ Excused'
        PROVE  /\ \A s \in Posts : post[s].chat = c /\ Live(s) => post[s].at \in {"answered", "recreated", "loading"}
               /\ \A k \in rowsOf'[c] : MayStay(c, k)'
    <3>1. c \in Chats
      BY <1>6, <2>3 DEF PastShape
    <3>2. CASE c \notin gone
      <4>1. c \in past.deleted \ Excused /\ rowsOf'[c] \subseteq rowsOf[c]
        BY <1>2, <1>6, <1>7, <2>3, <3>1, <3>2
      <4> QED
        BY <1>1, <1>6, <3>2, <4>1 DEF GoneInv, MayStay
    <3>3. CASE c \in gone
      <4>1. \A s \in Posts : ~(post[s].chat = c /\ Live(s))
        BY <1>7, <1>10, <2>3, <3>1, <3>3
      <4>2. ASSUME NEW k \in rowsOf'[c] PROVE MayStay(c, k)'
        <5>1. deletion[d].project # 0 /\ k \in rowsOf[c]
          BY <3>1, <3>3
        <5> QED
          BY <1>6, <1>21, <3>3, <5>1 DEF MayStay
      <4> QED
        BY <4>1, <4>2
    <3> QED
      BY <3>2, <3>3
  <2> QED
    BY <1>1, <1>9, <2>1, <2>2, <2>3 DEF GoneInv
<1> QED
  BY <1>13, <1>16, <1>17, <1>18, <1>19, <1>20 DEF ProjectsInv

\* ConversationRepo.Delete and ProjectRepo.Delete.
LEMMA DropSteps ==
    ASSUME ProjectsInv, NEW d \in Removals, UNCHANGED <<numProjects, leadsTo, opening>>,
           DropConversation(d) \/ DropProject(d)
    PROVE  ProjectsInv'
<1>1. /\ rowsOf \in [Chats -> SUBSET RowKinds] /\ workspaceOf \in [ProjectIds -> Spellings \cup {Unmade}]
      /\ chat \in [Chats -> [here : BOOLEAN, project : 0..MaxProjects]]
      /\ deletion \in [Removals -> DeletionShape] /\ RemovalInv /\ ListInv
  BY DEF ProjectsInv, ProjectsTyped, TablesTyped, FoldersTyped, HistoryTyped
<1>2. CASE DropConversation(d)
  <2>1. PICK c \in Chats : c = deletion[d].chat
    BY <1>1, <1>2 DEF DropConversation, Stopped, RemovalInv
  <2>2. /\ Stopped(d) /\ Gone(d, {c}) /\ UNCHANGED workspaceOf /\ {c} \in SUBSET Chats
        /\ rowsOf' = [rowsOf EXCEPT ![c] = {}]
    BY <1>2, <2>1 DEF DropConversation
  <2>3. /\ rowsOf' \in [Chats -> SUBSET RowKinds] /\ (\A b \in Chats : rowsOf'[b] \subseteq rowsOf[b])
        /\ rowsOf'[c] = {}
        /\ \A p \in ProjectIds : workspaceOf'[p] \in {workspaceOf[p], Unmade}
    BY <1>1, <2>2
  <2> QED
    BY <1>1, <2>2, <2>3, GoneStep
<1>3. CASE DropProject(d)
  <2> DEFINE p == deletion[d].project
  <2>1. /\ Stopped(d) /\ Gone(d, ListByProject(p)) /\ p # 0 /\ ListByProject(p) \in SUBSET Chats
        /\ workspaceOf' = [workspaceOf EXCEPT ![p] = Unmade]
        /\ rowsOf' = [c \in Chats |-> rowsOf[c] \ (IF c \in ListByProject(p) THEN {"message"} ELSE {})]
    BY <1>3 DEF DropProject, ListByProject
  <2>2. /\ rowsOf' \in [Chats -> SUBSET RowKinds] /\ \A b \in Chats : rowsOf'[b] \subseteq rowsOf[b]
    BY <1>1, <2>1
  <2>3. /\ workspaceOf' \in [ProjectIds -> Spellings \cup {Unmade}]
        /\ \A q \in ProjectIds : workspaceOf'[q] \in {workspaceOf[q], Unmade} /\ (q # p => workspaceOf'[q] = workspaceOf[q])
    BY <1>1, <2>1
  <2>4. \A c \in Chats \ ListByProject(p) : InList(c) => workspaceOf'[chat[c].project] = workspaceOf[chat[c].project]
    <3>1. \A c \in Chats \ ListByProject(p) : InList(c) => chat[c].project # p /\ chat[c].project \in ProjectIds
      BY <1>1, ProjectsAssumption DEF ListByProject, InList, ProjectIds
    <3> QED
      BY <2>3, <3>1
  <2> QED
    BY <2>1, <2>2, <2>3, <2>4, GoneStep
<1> QED
  BY <1>2, <1>3


-----------------------------------------------------------------------------
\* After a restart nobody asks and nothing runs.
LEMMA RestartStep ==
    ASSUME ProjectsInv, Restart
    PROVE  ProjectsInv'
<1>1. /\ UNCHANGED <<workspaceOf, numProjects, leadsTo, chat, tracked, past>>
      /\ rowsOf \in [Chats -> SUBSET RowKinds] /\ past \in PastShape /\ FoldersTyped /\ FoldersInv
      /\ chat \in [Chats -> [here : BOOLEAN, project : 0..MaxProjects]] /\ RunInv /\ ListInv /\ GoneInv
  BY DEF ProjectsInv, ProjectsTyped, TablesTyped, HistoryTyped, Restart
<1>2. rowsOf' \in [Chats -> SUBSET RowKinds] /\ \A c \in Chats : rowsOf'[c] \subseteq rowsOf[c]
  BY <1>1 DEF Restart
<1>3. 0 \in 0..MaxProjects
  BY ProjectsAssumption
<1>4. /\ NoPost \in PostShape /\ PostOver \in PostShape /\ ~NoPost.cancelled /\ ~PostOver.cancelled
      /\ NoPost.at = "idle" /\ PostOver.at = "over"
  <2>1. NoPost \in PostShape /\ NoPost.at = "idle" /\ ~NoPost.cancelled
    BY <1>3 DEF NoPost, PostShape
  <2>2. PostOver \in PostShape /\ PostOver.at = "over" /\ ~PostOver.cancelled
    BY <2>1 DEF PostOver, PostShape
  <2> QED
    BY <2>1, <2>2
<1>5. post' \in [Posts -> PostShape] /\ \A s \in Posts : post'[s].at \in {"idle", "over"} /\ ~post'[s].cancelled
  BY <1>4 DEF Restart
<1>6. NoRemoval \in DeletionShape /\ NoRemoval.at = "idle"
  BY <1>3 DEF NoRemoval, DeletionShape
<1> DEFINE removed == [NoRemoval EXCEPT !.at = "over"]
<1>7. removed \in DeletionShape /\ removed.at = "over"
  BY <1>6 DEF DeletionShape
<1>8. deletion' = [d \in Removals |-> IF deletion[d].at = "idle" THEN NoRemoval ELSE removed]
  BY DEF Restart
<1> HIDE DEF removed
<1>9. deletion' \in [Removals -> DeletionShape] /\ \A d \in Removals : deletion'[d].at \in {"idle", "over"}
  BY <1>6, <1>7, <1>8
<1>10. streams' \in [Chats -> SUBSET Posts] /\ (\A c \in Chats : streams'[c] = {})
       /\ cards' \subseteq Chats /\ checked' = {}
  BY DEF Restart, ValidCards
<1> DEFINE Shape == [at : {"idle", "waiting", "locked", "scanning", "over"}, folder : Folders \cup {Nowhere}]
<1>11. /\ opening' \in [Openings -> Shape]
       /\ \A o \in Openings : opening'[o].at \notin {"waiting", "locked", "scanning"}
  <2>1. [at |-> "over", folder |-> Nowhere] \in Shape
    OBVIOUS
  <2>2. opening \in [Openings -> Shape]
    BY <1>1 DEF FoldersTyped
  <2>3. ASSUME NEW o \in Openings PROVE opening'[o] \in Shape /\ opening'[o].at \notin {"waiting", "locked", "scanning"}
    <3>1. opening'[o] = (IF opening[o].at = "idle" THEN opening[o] ELSE [at |-> "over", folder |-> Nowhere])
      BY DEF Restart
    <3>2. CASE opening[o].at = "idle"
      BY <2>2, <3>1, <3>2
    <3>3. CASE opening[o].at # "idle"
      BY <2>1, <3>1, <3>3
    <3> QED
      BY <3>2, <3>3
  <2> HIDE DEF Shape
  <2>4. opening' = [o \in Openings |-> opening'[o]]
    BY DEF Restart
  <2> QED
    BY <2>3, <2>4
<1>12. Excused' = Excused /\ \A c : Standing(c)' <=> Standing(c)
  BY <1>1 DEF Excused, Standing
<1>13. ProjectsTyped'
  BY <1>1, <1>2, <1>5, <1>9, <1>10, <1>11 DEF ProjectsTyped, FoldersTyped, TablesTyped, LiveTyped, HistoryTyped
<1>14. FoldersInv'
  BY <1>1, <1>11 DEF FoldersInv, OneProjectPerFolder, There
<1>15. PostInv'
  BY <1>5, <1>10 DEF PostInv
<1>16. RemovalInv'
  BY <1>9 DEF RemovalInv
<1>17. RunInv'
  <2>1. \A s \in Posts : post'[s].at \notin Bound
    BY <1>5 DEF Bound, Acting
  <2> QED
    BY <1>1, <1>2, <1>12, <2>1 DEF RunInv
<1>18. ListInv'
  BY <1>1 DEF ListInv, ListedHaveProject, InList, There
<1>19. GoneInv'
  <2>1. \A s \in Posts : post'[s].at \notin Asking /\ ~Live(s)'
    BY <1>5 DEF Live, Asking, Acting, Registered
  <2>2. past.deleted \subseteq Chats
    BY <1>1 DEF PastShape
  <2> QED
    BY <1>1, <1>2, <1>10, <1>12, <2>1, <2>2 DEF GoneInv, MayStay
<1> QED
  BY <1>13, <1>14, <1>15, <1>16, <1>17, <1>18, <1>19 DEF ProjectsInv

\* At the start there may be a project and conversations of an old version.
LEMMA ProjectsInitially == ProjectInit => ProjectsInv
<1> SUFFICES ASSUME ProjectInit PROVE ProjectsInv
  OBVIOUS
<1>1. PICK old \in Spellings \cup {Unmade} :
        /\ workspaceOf = [p \in ProjectIds |-> IF p = 1 THEN old ELSE Unmade]
        /\ numProjects = IF old = Unmade THEN 0 ELSE 1
  BY DEF ProjectInit
<1>2. PICK known \in SUBSET Chats : chat = [c \in Chats |-> [NoChat EXCEPT !.here = c \in known]]
  BY DEF ProjectInit
<1>3. MaxProjects \in Nat \ {0} /\ 0 \in 0..MaxProjects /\ 1 \in 0..MaxProjects
  BY ProjectsAssumption
<1>4. /\ NoPost \in PostShape /\ NoPost.at = "idle" /\ ~NoPost.cancelled
      /\ NoRemoval \in DeletionShape /\ NoRemoval.at = "idle"
  BY <1>3 DEF NoPost, PostShape, NoRemoval, DeletionShape
<1>5. FoldersTyped
  <2>1. opening \in [Openings -> [at : {"idle", "waiting", "locked", "scanning", "over"}, folder : Folders \cup {Nowhere}]]
    BY DEF ProjectInit
  <2>2. leadsTo \in [Spellings -> Folders \cup {Nowhere}]
    BY DEF ProjectInit
  <2>3. workspaceOf \in [ProjectIds -> Spellings \cup {Unmade}] /\ numProjects \in 0..MaxProjects
    BY <1>1, <1>3
  <2> QED
    BY <2>1, <2>2, <2>3 DEF FoldersTyped
<1>6. /\ chat \in [Chats -> [here : BOOLEAN, project : 0..MaxProjects]]
      /\ \A c \in Chats : chat[c].project = 0
  <2> DEFINE start(b) == [NoChat EXCEPT !.here = b]
  <2>1. \A b \in BOOLEAN : start(b) \in [here : BOOLEAN, project : 0..MaxProjects] /\ start(b).project = 0
    BY <1>3 DEF NoChat
  <2>2. chat = [c \in Chats |-> start(c \in known)]
    BY <1>2
  <2>3. \A c \in Chats : (c \in known) \in BOOLEAN
    OBVIOUS
  <2> HIDE DEF start
  <2> QED
    BY <2>1, <2>2, <2>3
<1>7. /\ past \in PastShape /\ past.deleted = {} /\ past.strays = {} /\ past.escaped = {}
  BY DEF ProjectInit, PastShape
<1>8. /\ rowsOf = [c \in Chats |-> {}] /\ streams = [c \in Chats |-> {}] /\ cards = {} /\ checked = {}
      /\ post \in [Posts -> PostShape] /\ (\A s \in Posts : post[s].at = "idle" /\ ~post[s].cancelled)
      /\ deletion \in [Removals -> DeletionShape] /\ \A d \in Removals : deletion[d].at = "idle"
  BY <1>4 DEF ProjectInit
<1>9. ProjectsTyped
  <2>1. rowsOf \in [Chats -> SUBSET RowKinds] /\ streams \in [Chats -> SUBSET Posts]
    BY <1>8
  <2> QED
    BY <1>5, <1>6, <1>7, <1>8, <2>1 DEF ProjectsTyped, TablesTyped, LiveTyped, HistoryTyped
<1>10. FoldersInv
  <2>1. OneProjectPerFolder
    BY <1>1 DEF OneProjectPerFolder, There
  <2>2. \A o \in Openings : opening[o].at = "idle"
    BY DEF ProjectInit
  <2>3. \A p \in ProjectIds : p > numProjects => workspaceOf[p] = Unmade
    BY <1>1, <1>3 DEF ProjectIds
  <2> QED
    BY <2>1, <2>2, <2>3 DEF FoldersInv, ProjectInit
<1>11. PostInv /\ RemovalInv
  BY <1>8 DEF PostInv, RemovalInv
<1>12. RunInv
  BY <1>8 DEF RunInv, Bound, Acting
<1>13. ListInv
  BY <1>6, <1>7 DEF ListInv, ListedHaveProject, InList
<1>14. GoneInv
  BY <1>7 DEF GoneInv
<1> QED
  BY <1>9, <1>10, <1>11, <1>12, <1>13, <1>14 DEF ProjectsInv

\* Every step keeps the invariant.
LEMMA ProjectStep == ProjectsInv /\ [ProjectNext]_projectVars => ProjectsInv'
<1> SUFFICES ASSUME ProjectsInv, [ProjectNext]_projectVars PROVE ProjectsInv'
  OBVIOUS
<1>1. ASSUME NEW o \in Openings, OpenProject(o) PROVE ProjectsInv'
  <2>1. FoldersTyped' /\ FoldersInv' /\ \A p \in ProjectIds : There(p) => There(p)'
    BY <1>1, FolderSteps
  <2>2. UNCHANGED <<chat, rowsOf, tracked, streams, cards, checked, post, deletion, past>> /\ past \in PastShape
    BY <1>1 DEF OpenProject, tableVars, liveVars, ProjectsInv, ProjectsTyped, HistoryTyped
  <2> QED
    BY <2>1, <2>2, OtherFolders
<1>2. ASSUME NEW l \in Links, NEW folder \in Folders \cup {Nowhere}, MoveLink(l, folder) PROVE ProjectsInv'
  <2>1. FoldersTyped' /\ FoldersInv' /\ \A p \in ProjectIds : There(p) => There(p)'
    BY <1>2, MoveLinkStep
  <2>2. /\ UNCHANGED <<chat, rowsOf, tracked, streams, cards, checked, post, deletion>> /\ past \in PastShape
        /\ past' = [past EXCEPT !.moved = TRUE]
    BY <1>2 DEF MoveLink, tableVars, liveVars, ProjectsInv, ProjectsTyped, HistoryTyped
  <2>3. /\ past' \in PastShape /\ past'.escaped = past.escaped /\ past'.revived = past.revived
        /\ past'.left = past.left /\ past'.late = past.late
        /\ past'.strays = past.strays /\ past'.deleted = past.deleted
    BY <2>2 DEF PastShape
  <2> QED
    BY <2>1, <2>2, <2>3, OtherFolders
<1>3. ASSUME NEW d \in Removals, Deleting(d) PROVE ProjectsInv'
  <2>1. UNCHANGED <<numProjects, leadsTo, opening>>
    BY <1>3 DEF Deleting
  <2>2. CASE \E c \in Chats : CancelStream(d, c)
    BY <2>1, <2>2, CancelStreamStep
  <2>3. CASE RemoveStream(d)
    BY <2>1, <2>3, RemoveStreamStep
  <2> QED
    BY <1>3, <2>1, <2>2, <2>3, DeleteSteps, DropSteps DEF Deleting
<1>4. ASSUME UNCHANGED projectVars PROVE ProjectsInv'
  <2>1. UNCHANGED <<workspaceOf, numProjects, leadsTo, opening, chat, rowsOf, tracked, streams, cards, checked, post, deletion, past>>
    BY <1>4 DEF projectVars, fileSystemVars, tableVars, liveVars
  <2>2. FoldersTyped' /\ FoldersInv' /\ past \in PastShape
    BY <2>1 DEF ProjectsInv, ProjectsTyped, FoldersTyped, HistoryTyped, FoldersInv, OneProjectPerFolder, There
  <2> QED
    BY <2>1, <2>2, OtherFolders DEF There
<1>5. ASSUME NEW c \in Chats, StoreValidation(c), UNCHANGED <<fileSystemVars, deletion>> PROVE ProjectsInv'
  BY <1>5, ValidationStep
<1> QED
  BY <1>1, <1>2, <1>3, <1>4, <1>5, ChattingStep, RestartStep DEF ProjectNext, FolderNext, ChatNext, RemovalNext

-----------------------------------------------------------------------------
\* What is tracked for a conversation is tracked under its project, and a post that will bind
\* it to one is alone and finds it without.
Binding == {"looked", "found", "upserted"}

TrackInv ==
    /\ \A t \in tracked : t \in Chats \X ProjectIds /\ chat[t[1]].project = t[2]
    /\ \A s \in Posts : post[s].at \in Binding /\ post[s].binds => chat[post[s].chat].project = 0
    /\ \A r, s \in Posts : post[r].at \in Asking /\ post[s].at \in Asking /\ post[r].chat = post[s].chat => r = s

\* A step of a post that goes on where it was, while no conversation changes its project.
LEMMA TrackGoesOn ==
    ASSUME ProjectsInv, TrackInv, NEW s \in Posts, NEW rec \in PostShape, post' = [post EXCEPT ![s] = rec],
           \A c \in Chats : chat'[c].project = chat[c].project,
           \A t \in tracked' : t \in tracked \/ (t \in Chats \X ProjectIds /\ chat[t[1]].project = t[2]),
           rec.at \in Asking => rec.chat \in Chats /\ \A r \in Posts \ {s} : post[r].at \in Asking => post[r].chat # rec.chat,
           rec.at \in Binding /\ rec.binds => chat[rec.chat].project = 0
    PROVE  TrackInv'
<1>1. /\ post \in [Posts -> PostShape] /\ post'[s] = rec /\ (\A x \in Posts : x # s => post'[x] = post[x])
      /\ \A x \in Posts : post[x].at \in Binding => post[x].chat \in Chats
      /\ rec.at \in Binding => rec.at \in Asking
  BY DEF ProjectsInv, ProjectsTyped, LiveTyped, PostInv, Binding, Asking
<1>2. \A t \in tracked' : t \in Chats \X ProjectIds /\ chat'[t[1]].project = t[2]
  BY DEF TrackInv
<1>3. \A x \in Posts : post'[x].at \in Binding /\ post'[x].binds => chat'[post'[x].chat].project = 0
  BY <1>1 DEF TrackInv
<1>4. \A r, x \in Posts : post'[r].at \in Asking /\ post'[x].at \in Asking /\ post'[r].chat = post'[x].chat => r = x
  BY <1>1 DEF TrackInv
<1> QED
  BY <1>2, <1>3, <1>4 DEF TrackInv

\* The step of a post to another place.
LEMMA TrackSteps ==
    ASSUME ProjectsInv, TrackInv, NEW s \in Posts, post[s].at \notin {"idle", "over"},
           NEW at \in Asking \cup Acting \cup {"loading", "over"}, StepsTo(s, at),
           at \in Asking => post[s].at \in Asking, at \in Binding => post[s].at \in Binding,
           \A c \in Chats : chat'[c].project = chat[c].project, UNCHANGED tracked
    PROVE  TrackInv'
<1>1. post \in [Posts -> PostShape] /\ PostInv
  BY DEF ProjectsInv, ProjectsTyped, LiveTyped
<1>2. PICK rec \in PostShape :
        /\ post' = [post EXCEPT ![s] = rec] /\ rec.at = at
        /\ at # "over" => rec.chat = post[s].chat /\ rec.binds = post[s].binds
  BY <1>1, RecordSteps
<1>3. rec.at \in Asking => /\ rec.chat \in Chats
                           /\ \A r \in Posts \ {s} : post[r].at \in Asking => post[r].chat # rec.chat
  <2>1. "over" \notin Asking /\ "idle" \notin Asking
    BY DEF Asking, Registered
  <2>2. rec.at \in Asking => rec.chat = post[s].chat /\ post[s].at \in Asking /\ post[s].chat \in Chats
    BY <1>1, <1>2, <2>1 DEF PostInv
  <2> QED
    BY <2>2 DEF TrackInv
<1>4. rec.at \in Binding /\ rec.binds => chat[rec.chat].project = 0
  BY <1>1, <1>2 DEF TrackInv, Binding
<1>5. \A t \in tracked' : t \in tracked
  OBVIOUS
<1> QED
  BY <1>2, <1>3, <1>4, <1>5, TrackGoesOn

\* A row stored again keeps its project.
LEMMA UpsertedKeeps ==
    ASSUME TablesTyped, NEW b \in Chats, chat' = Upserted(b)
    PROVE  \A c \in Chats : chat'[c].project = chat[c].project
BY DEF TablesTyped, Upserted

\* A request begins only where nobody asks; Look reads the project the conversation has.
LEMMA TrackBegins ==
    ASSUME ProjectsInv, TrackInv, NEW s \in Posts, NEW c \in Chats, UNCHANGED <<chat, tracked>>,
           Resolve(s, c) \/ \E wanted \in 0..numProjects : Look(s, c, wanted)
    PROVE  TrackInv'
<1>1. /\ post \in [Posts -> PostShape] /\ (\A r \in Posts : post[r].at \in Asking => post[r].chat # c)
      /\ chat \in [Chats -> [here : BOOLEAN, project : 0..MaxProjects]] /\ numProjects \in 0..MaxProjects /\ ListInv
  BY DEF ProjectsInv, ProjectsTyped, FoldersTyped, TablesTyped, LiveTyped, Resolve, Look, NobodyAsks
<1>2. MaxProjects \in Nat /\ 0 \in 0..MaxProjects /\ NoPost \in PostShape
  <2>1. MaxProjects \in Nat /\ 0 \in 0..MaxProjects
    BY ProjectsAssumption
  <2> QED
    BY <2>1 DEF NoPost, PostShape
<1>3. ASSUME NEW rec \in PostShape, post' = [post EXCEPT ![s] = rec], rec.chat = c,
             rec.at \in Binding /\ rec.binds => chat[c].project = 0
      PROVE  TrackInv'
  <2>1. \A b \in Chats : chat'[b].project = chat[b].project
    OBVIOUS
  <2>2. \A t \in tracked' : t \in tracked
    OBVIOUS
  <2>3. rec.at \in Asking => rec.chat \in Chats /\ \A r \in Posts \ {s} : post[r].at \in Asking => post[r].chat # rec.chat
    BY <1>1, <1>3
  <2> QED
    BY <1>3, <2>1, <2>2, <2>3, TrackGoesOn
<1>4. CASE Resolve(s, c)
  <2> DEFINE rec == [NoPost EXCEPT !.at = "answered", !.chat = c]
  <2>1. post' = [post EXCEPT ![s] = rec]
    BY <1>4 DEF Resolve
  <2>2. rec \in PostShape /\ rec.at = "answered" /\ rec.chat = c
    BY <1>2 DEF PostShape, Asking
  <2> HIDE DEF rec
  <2> QED
    BY <1>3, <2>1, <2>2 DEF Binding
<1>5. ASSUME NEW wanted \in 0..numProjects, Look(s, c, wanted) PROVE TrackInv'
  <2> DEFINE mine == IF chat[c].here THEN chat[c].project ELSE 0
             rec == [NoPost EXCEPT !.at = "looked", !.chat = c,
                       !.project = IF mine = 0 THEN wanted ELSE mine, !.binds = mine = 0]
  <2>1. post' = [post EXCEPT ![s] = rec]
    BY <1>5 DEF Look
  <2>2. mine \in 0..MaxProjects /\ wanted \in 0..MaxProjects /\ (mine = 0 => chat[c].project = 0)
    BY <1>1, <1>2 DEF ListInv
  <2> HIDE DEF mine
  <2>3. rec \in PostShape /\ rec.chat = c /\ (rec.binds => mine = 0)
    BY <1>2, <2>2 DEF PostShape, Asking, NoPost
  <2> HIDE DEF rec
  <2> QED
    BY <1>3, <2>1, <2>2, <2>3
<1> QED
  BY <1>4, <1>5

\* Binding a conversation: nothing is tracked for one without a project.
LEMMA TrackBinds ==
    ASSUME ProjectsInv, TrackInv, NEW s \in Posts, SetProjectID(s)
    PROVE  TrackInv'
<1>1. /\ post \in [Posts -> PostShape] /\ post[s].at = "upserted" /\ tracked' = tracked /\ StepsTo(s, "bound")
      /\ chat \in [Chats -> [here : BOOLEAN, project : 0..MaxProjects]] /\ PostInv
  BY DEF ProjectsInv, ProjectsTyped, TablesTyped, LiveTyped, SetProjectID
<1>2. PICK c \in Chats : c = post[s].chat
  BY <1>1 DEF PostInv
<1>3. CASE UNCHANGED chat
  BY <1>1, <1>3, TrackSteps DEF Asking, Binding
<1>4. CASE post[s].binds /\ chat' = [chat EXCEPT ![c].project = post[s].project]
  <2>1. chat[c].project = 0 /\ \A b \in Chats : b # c => chat'[b] = chat[b]
    BY <1>1, <1>2, <1>4 DEF TrackInv, Binding
  <2>2. PICK rec \in PostShape : post' = [post EXCEPT ![s] = rec] /\ rec.at = "bound" /\ rec.chat = c
    BY <1>1, <1>2, RecordSteps DEF Asking
  <2>3. \A x \in Posts : IF x = s THEN post'[x] = rec ELSE post'[x] = post[x]
    BY <1>1, <2>2
  <2>4. \A t \in tracked' : t \in Chats \X ProjectIds /\ chat'[t[1]].project = t[2]
    <3>1. 0 \notin ProjectIds
      BY ProjectsAssumption DEF ProjectIds
    <3>2. \A t \in tracked : t \in Chats \X ProjectIds /\ chat[t[1]].project = t[2]
      BY DEF TrackInv
    <3>3. \A t \in tracked : t[1] \in Chats /\ t[2] \in ProjectIds
      BY <3>2
    <3>4. \A t \in tracked : t[1] # c
      BY <2>1, <3>1, <3>2, <3>3
    <3> QED
      BY <1>1, <2>1, <3>2, <3>3, <3>4
  <2>5. \A x \in Posts : x # s /\ post[x].at \in Asking => post[x].chat # c
    BY <1>1, <1>2 DEF TrackInv, Asking
  <2>6. \A x \in Posts : post'[x].at \in Binding /\ post'[x].binds => chat'[post'[x].chat].project = 0
    <3>1. ASSUME NEW x \in Posts, x # s, post[x].at \in Binding, post[x].binds PROVE chat'[post[x].chat].project = 0
      <4>1. post[x].chat \in Chats /\ post[x].chat # c /\ chat[post[x].chat].project = 0
        BY <1>1, <2>5, <3>1 DEF PostInv, TrackInv, Binding, Asking
      <4> QED
        BY <2>1, <4>1
    <3> QED
      BY <2>2, <2>3, <3>1 DEF Binding
  <2>7. \A r, x \in Posts : post'[r].at \in Asking /\ post'[x].at \in Asking /\ post'[r].chat = post'[x].chat => r = x
    BY <2>2, <2>3, <2>5 DEF TrackInv
  <2> QED
    BY <2>4, <2>6, <2>7 DEF TrackInv
<1> QED
  BY <1>2, <1>3, <1>4 DEF SetProjectID

\* Every step of a post or of its run.
LEMMA TrackChatting ==
    ASSUME ProjectsInv, TrackInv, NEW s \in Posts, Chatting(s)
    PROVE  TrackInv'
<1>1. /\ post \in [Posts -> PostShape] /\ TablesTyped /\ PostInv
      /\ chat \in [Chats -> [here : BOOLEAN, project : 0..MaxProjects]]
  BY DEF ProjectsInv, ProjectsTyped, TablesTyped, LiveTyped
<1>2. CASE \E c \in Chats : SetApprovalMode(s, c)
  <2>1. PICK c \in Chats : SetApprovalMode(s, c)
    BY <1>2
  <2>2. /\ chat' = Upserted(c) /\ StepsTo(s, "over") /\ post[s].at = "idle" /\ tracked' = tracked
    BY <2>1 DEF SetApprovalMode
  <2>3. \A b \in Chats : chat'[b].project = chat[b].project
    BY <1>1, <2>2, UpsertedKeeps
  <2>4. PICK rec \in PostShape : post' = [post EXCEPT ![s] = rec] /\ rec.at = "over"
    BY <1>1, <2>2, RecordSteps
  <2>5. rec.at \notin Asking /\ rec.at \notin Binding /\ \A t \in tracked' : t \in tracked
    BY <2>2, <2>4 DEF Asking, Binding, Registered
  <2> QED
    BY <2>3, <2>4, <2>5, TrackGoesOn
<1>3. CASE \E c \in Chats : Resolve(s, c) \/ \E wanted \in 0..numProjects : Look(s, c, wanted)
  <2>1. UNCHANGED <<chat, tracked>>
    BY <1>3 DEF Resolve, Look, tableVars
  <2> QED
    BY <1>3, <2>1, TrackBegins
<1>4. CASE Upsert(s) \/ SettleRun(s)
  <2>1. PICK at \in {"upserted", "over"} : StepsTo(s, at) /\ (at = "upserted" => post[s].at = "found")
    BY <1>4 DEF Upsert, SettleRun
  <2>2. /\ post[s].at \in {"found", "settling"} /\ tracked' = tracked
        /\ chat' = Upserted(post[s].chat) \/ chat' = chat
    BY <1>4 DEF Upsert, SettleRun
  <2>3. post[s].chat \in Chats
    BY <1>1, <2>2 DEF PostInv
  <2>4. \A b \in Chats : chat'[b].project = chat[b].project
    BY <1>1, <2>2, <2>3, UpsertedKeeps
  <2> QED
    BY <2>1, <2>2, <2>4, TrackSteps DEF Asking, Binding, Registered
<1>5. CASE StoreMessage(s) \/ StoreKept(s) \/ CheckRun(s) \/ Track(s)
  <2>1. /\ UNCHANGED <<post, chat>>
        /\ \A t \in tracked' : t \in tracked \/ (t = <<post[s].chat, chat[post[s].chat].project>> /\ There(t[2]))
        /\ post[s].at = "running"
    BY <1>5 DEF StoreMessage, StoreKept, CheckRun, Track, tableVars, liveVars
  <2>2. PICK c \in Chats : c = post[s].chat
    BY <1>1, <2>1 DEF PostInv
  <2>3. ASSUME NEW t, t = <<c, chat[c].project>>, There(t[2]) PROVE t \in Chats \X ProjectIds /\ chat[t[1]].project = t[2]
    BY <1>1, <2>3, ProjectsAssumption DEF There, ProjectIds
  <2>4. \A t \in tracked' : t \in Chats \X ProjectIds /\ chat'[t[1]].project = t[2]
    BY <2>1, <2>2, <2>3 DEF TrackInv
  <2> QED
    BY <2>1, <2>4 DEF TrackInv
<1>6. CASE FindProject(s) \/ StoreUserRow(s) \/ CreateAt(s) \/ StartRun(s)
  <2>1. PICK at \in {"found", "over", "stored", "created", "recreated", "running"} :
          /\ StepsTo(s, at) /\ UNCHANGED <<chat, tracked>> /\ post[s].at \in Asking
          /\ at = "found" => post[s].at = "looked"
    BY <1>6 DEF FindProject, StoreUserRow, CreateAt, StartRun, tableVars, Asking, Registered
  <2> QED
    BY <2>1, TrackSteps DEF Asking, Acting, Binding, Registered
<1>7. CASE StartResume(s) \/ LoadCheckpoint(s) \/ Pause(s) \/ RecordCard(s) \/ Ends(s)
  <2>1. PICK at \in Acting \cup {"loading", "over"} :
          StepsTo(s, at) /\ UNCHANGED <<chat, tracked>> /\ post[s].at \notin {"idle", "over"}
    BY <1>7 DEF StartResume, LoadCheckpoint, Pause, RecordCard, Ends, tableVars, Acting
  <2>2. at \notin Asking /\ at \notin Binding
    BY <2>1 DEF Asking, Acting, Binding, Registered
  <2> QED
    BY <2>1, <2>2, TrackSteps
<1>8. CASE SetProjectID(s)
  BY <1>8, TrackBinds
<1> QED
  BY Zenon, <1>2, <1>3, <1>4, <1>5, <1>6, <1>7, <1>8 DEF Chatting

\* A deletion takes what is tracked with the project or the conversation.
LEMMA TrackDeleting ==
    ASSUME ProjectsInv, TrackInv, NEW d \in Removals, Deleting(d)
    PROVE  TrackInv'
<1>1. /\ post \in [Posts -> PostShape] /\ PostInv /\ ListInv /\ RemovalInv
      /\ chat \in [Chats -> [here : BOOLEAN, project : 0..MaxProjects]]
  BY DEF ProjectsInv, ProjectsTyped, TablesTyped, LiveTyped
<1>2. ASSUME UNCHANGED <<chat, tracked>>,
             \A x \in Posts : post'[x].at = post[x].at /\ post'[x].chat = post[x].chat /\ post'[x].binds = post[x].binds
      PROVE  TrackInv'
  BY <1>2 DEF TrackInv
<1>3. CASE (\E c \in Chats : DeleteChat(d, c)) \/ (\E p \in ProjectIds : DeleteProject(d, p)) \/ RemoveStream(d)
  <2>1. UNCHANGED <<chat, tracked, post>>
    BY <1>3 DEF DeleteChat, DeleteProject, RemoveStream, tableVars, liveVars
  <2> QED
    BY <1>2, <2>1
<1>4. ASSUME NEW c \in Chats, CancelStream(d, c) PROVE TrackInv'
  <2>1. PICK run : post' = Cancelled(run) /\ UNCHANGED <<chat, tracked>>
    BY <1>4 DEF CancelStream, tableVars
  <2>2. ASSUME NEW x \in Posts
        PROVE  post'[x].at = post[x].at /\ post'[x].chat = post[x].chat /\ post'[x].binds = post[x].binds
    <3>1. post[x] \in PostShape /\ post'[x] \in {post[x], [post[x] EXCEPT !.cancelled = TRUE]}
      BY <1>1, <2>1 DEF Cancelled
    <3> QED
      BY <3>1 DEF PostShape
  <2> QED
    BY <1>2, <2>1, <2>2
<1>5. ASSUME NEW gone \in SUBSET Chats, Gone(d, gone),
             \A t \in tracked' : t \in tracked /\ t[1] \notin gone
      PROVE  TrackInv'
  <2>1. NoChat.project = 0
    BY DEF NoChat
  <2>2. /\ chat' = [c \in Chats |-> IF c \in gone THEN NoChat ELSE chat[c]] /\ post' = post
        /\ \A c \in Chats : chat'[c].project = (IF c \in gone THEN 0 ELSE chat[c].project)
    BY <1>5, <2>1 DEF Gone, liveVars
  <2>3. \A t \in tracked' : t \in Chats \X ProjectIds /\ t[1] \in Chats /\ chat[t[1]].project = t[2]
    BY <1>5 DEF TrackInv
  <2>4. \A x \in Posts : post[x].at \in Binding => post[x].chat \in Chats
    BY <1>1 DEF PostInv, Binding
  <2> QED
    BY <1>5, <2>2, <2>3, <2>4 DEF TrackInv
<1>6. CASE DropConversation(d)
  <2>1. /\ Gone(d, {deletion[d].chat}) /\ tracked' = {t \in tracked : t[1] # deletion[d].chat}
        /\ deletion[d].chat \in Chats
    BY <1>1, <1>6 DEF DropConversation, Stopped, RemovalInv
  <2> QED
    BY <1>5, <2>1
<1>7. CASE DropProject(d)
  <2> DEFINE p == deletion[d].project
  <2>1. Gone(d, ListByProject(p)) /\ tracked' = {t \in tracked : t[2] # p} /\ ListByProject(p) \in SUBSET Chats
    BY <1>7 DEF DropProject, ListByProject
  <2>2. \A t \in tracked' : t \in tracked /\ t[1] \notin ListByProject(p)
    BY <2>1 DEF ListByProject, TrackInv
  <2> QED
    BY <1>5, <2>1, <2>2
<1> QED
  BY Zenon, <1>3, <1>4, <1>6, <1>7 DEF Deleting

\* Every step.
LEMMA TrackStep == ProjectsInv /\ TrackInv /\ [ProjectNext]_projectVars => TrackInv'
<1> SUFFICES ASSUME ProjectsInv, TrackInv, [ProjectNext]_projectVars PROVE TrackInv'
  OBVIOUS
<1>1. ASSUME UNCHANGED <<chat, tracked, post>> PROVE TrackInv'
  BY <1>1 DEF TrackInv
<1>2. CASE FolderNext \/ UNCHANGED projectVars \/ \E c \in Chats : StoreValidation(c)
  <2>1. UNCHANGED <<chat, tracked, post>>
    BY <1>2 DEF FolderNext, OpenProject, MoveLink, StoreValidation, projectVars, tableVars, liveVars
  <2> QED
    BY <1>1, <2>1
<1>3. CASE Restart
  <2>1. UNCHANGED <<chat, tracked>> /\ \A s \in Posts : post'[s].at \in {"idle", "over"}
    BY <1>3 DEF Restart, NoPost, PostOver
  <2>2. \A s \in Posts : post'[s].at \notin Asking /\ post'[s].at \notin Binding
    BY <2>1 DEF Asking, Binding, Registered
  <2> QED
    BY <2>1, <2>2 DEF TrackInv
<1>4. CASE \E s \in Posts : Chatting(s)
  BY <1>4, TrackChatting
<1>5. CASE RemovalNext
  BY <1>5, TrackDeleting DEF RemovalNext
<1> QED
  BY Zenon, <1>2, <1>3, <1>4, <1>5 DEF ProjectNext, ChatNext

\* What the invariant says of the tables, the posts and the registry is what a reader wants
\* to know.
LEMMA ProjectsAreClean == ProjectsInv /\ TrackInv => DeletionsAreClean
<1> SUFFICES ASSUME ProjectsInv, TrackInv PROVE DeletionsAreClean
  OBVIOUS
<1>1. OneProjectPerFolder /\ ListedHaveProject
  BY DEF ProjectsInv, FoldersInv, ListInv
<1>2. DeletedStayAway
  BY DEF ProjectsInv, ListInv, DeletedStayAway, InList
<1>3. RunsAreStopped
  BY DEF ProjectsInv, RunInv, RunsAreStopped, Bound, Standing, Excused
<1>4. ASSUME NEW c \in past.deleted, NEW t \in tracked PROVE t[1] # c
  <2>1. chat[c].project = 0 /\ 0 \notin ProjectIds
    BY ProjectsAssumption DEF ProjectsInv, ListInv, ProjectIds
  <2>2. t[2] \in ProjectIds /\ chat[t[1]].project = t[2]
    BY DEF TrackInv
  <2> QED
    BY <2>1, <2>2
<1>5. NothingStays
  BY <1>4 DEF ProjectsInv, GoneInv, NothingStays, Excused, MayStay
<1> QED
  BY <1>1, <1>2, <1>3, <1>5 DEF DeletionsAreClean

\* Whoever opens, posts, answers, deletes or restarts, and in whatever order: no folder is two
\* projects, no listed conversation is without its project, no deleted one comes back, no run
\* goes on without its conversation and no row of it stays, but where DeletionsAreClean says.
THEOREM DeletionsClean == ProjectSpec => []DeletionsAreClean
<1>1. ProjectInit => TrackInv
  <2>1. ProjectInit => tracked = {} /\ \A s \in Posts : post[s].at = "idle"
    <3>1. NoPost.at = "idle"
      BY DEF NoPost
    <3>2. ProjectInit => tracked = {} /\ post = [s \in Posts |-> NoPost]
      BY Zenon DEF ProjectInit
    <3> QED
      BY <3>1, <3>2
  <2>2. "idle" \notin Asking /\ "idle" \notin Binding
    BY DEF Asking, Binding, Registered
  <2> QED
    BY <2>1, <2>2 DEF TrackInv
<1>2. ProjectSpec => [](ProjectsInv /\ TrackInv)
  BY <1>1, ProjectsInitially, ProjectStep, TrackStep, PTL DEF ProjectSpec
<1> QED
  BY <1>2, ProjectsAreClean, PTL
=============================================================================
