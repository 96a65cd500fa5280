---------------------------- MODULE OAuthTokens ----------------------------
(***************************************************************************)
(* The credentials of one OAuth MCP server (internal/mcp/oauth.go,         *)
(* tokenstore.go, repository/mcp_credential_repo.go): the row with the     *)
(* registered client and the token, the read-through cache of the token    *)
(* store, the browser flows that wait for their callback, and the requests *)
(* that work on them at the same time.  Only the map of pending flows and  *)
(* the cache have a lock, and no request holds one over a database or      *)
(* network call, so each of those calls is a step of its own here.  The    *)
(* servers share nothing but the maps, so one is enough.                   *)
(***************************************************************************)
EXTENDS Naturals, FiniteSets

CONSTANTS
    Requests,       \* handler calls and transport requests that may run at once
    ConfigClient,   \* the client id written in the config; 0: none
    MaxFlows,       \* authorizations started
    MaxTokens,      \* tokens obtained, by exchange or refresh
    MaxRevokes

ASSUME OAuthAssumption ==
    ConfigClient \in Nat /\ MaxFlows \in Nat /\ MaxTokens \in Nat /\ MaxRevokes \in Nat

VARIABLES
    row,            \* the mcp_credentials row: the client id, the token
    cache,          \* tokenStore.cache
    pending,        \* Authorizer.pending: flows by their state parameter
    req,            \* per request, where it is
    flowsStarted,        \* flows, which are also the clients registered dynamically
    minted,         \* tokens obtained so far
    redeemed,       \* history: per flow, how often its code was exchanged
    consent,        \* history: the user authorized after the last revoke
    raced,          \* history: a write fell into one of the windows named below
    revoked         \* revokes begun

oauthVars == <<row, cache, pending, req, flowsStarted, minted, redeemed, consent, raced, revoked>>

NoToken == 0
NoClient == 0
Idle == [op |-> "idle", at |-> "idle", client |-> NoClient, token |-> NoToken, flow |-> 0]
Ops == {"idle", "authorize", "complete", "refresh", "get", "revoke"}

OAuthTypeOK ==
    /\ row \in [client : 0..(MaxFlows + ConfigClient), token : 0..MaxTokens]
    /\ cache \in 0..MaxTokens
    /\ pending \subseteq [flow : 1..MaxFlows, client : 1..(MaxFlows + ConfigClient),
                          old : BOOLEAN]
    /\ \A r \in Requests : req[r].op \in Ops
    /\ flowsStarted \in 0..MaxFlows /\ minted \in 0..MaxTokens /\ revoked \in 0..MaxRevokes
    /\ consent \in BOOLEAN /\ raced \in BOOLEAN

OAuthInit ==
    /\ row = [client |-> NoClient, token |-> NoToken]
    /\ cache = NoToken /\ pending = {} /\ req = [r \in Requests |-> Idle]
    /\ flowsStarted = 0 /\ minted = 0 /\ redeemed = [f \in 1..MaxFlows |-> 0]
    /\ consent = FALSE /\ raced = FALSE /\ revoked = 0

-----------------------------------------------------------------------------
BeginRequest(r, op, at) == req[r].op = "idle" /\ req' = [req EXCEPT ![r] = [Idle EXCEPT !.op = op, !.at = at]]
Goto(r, at) == req' = [req EXCEPT ![r].at = at]
Done(r) == req' = [req EXCEPT ![r] = Idle]
Reached(r, at) == req[r].at = at

Sweep(flows) == {p \in flows : ~p.old}

\* The client id of configFor: the one in the file wins over the registered one.
ConfigFor == IF ConfigClient # 0 THEN ConfigClient ELSE row.client

\* A write of the row that some other request will not see: it is about to cache
\* what it read or saved before.
HoldsOlder(r) == \E q \in Requests \ {r} : req[q].at \in {"fill", "keep"}

-----------------------------------------------------------------------------
(***************************************************************************)
(* BuildAuthURL.                                                           *)
(***************************************************************************)
Authorize(r) ==
    /\ flowsStarted < MaxFlows
    /\ flowsStarted' = flowsStarted + 1
    /\ req[r].op = "idle"
    /\ req' = [req EXCEPT ![r] = [op |-> "authorize", client |-> ConfigFor, token |-> NoToken,
                                  flow |-> flowsStarted',
                                  at |-> IF ConfigFor = NoClient THEN "register" ELSE "open"]]
    /\ UNCHANGED <<row, cache, pending, minted, redeemed, consent, raced, revoked>>

\* Dynamic registration; discovery, the registration or the save may fail.
Register(r, ok) ==
    /\ Reached(r, "register")
    /\ IF ok
       THEN /\ req' = [req EXCEPT ![r].client = req[r].flow + ConfigClient, ![r].at = "open"]
            /\ row' = [row EXCEPT !.client = req[r].flow + ConfigClient]
       ELSE Done(r) /\ UNCHANGED row
    /\ UNCHANGED <<cache, pending, flowsStarted, minted, redeemed, consent, raced, revoked>>

OpenFlow(r) ==
    /\ Reached(r, "open")
    /\ pending' = Sweep(pending) \cup {[flow |-> req[r].flow, client |-> req[r].client, old |-> FALSE]}
    /\ consent' = TRUE
    /\ Done(r)
    /\ UNCHANGED <<row, cache, flowsStarted, minted, redeemed, raced, revoked>>

\* pendingTTL passes.
ExpireFlow ==
    /\ \E p \in pending :
        ~p.old /\ pending' = (pending \ {p}) \cup {[p EXCEPT !.old = TRUE]}
    /\ UNCHANGED <<row, cache, req, flowsStarted, minted, redeemed, consent, raced, revoked>>

-----------------------------------------------------------------------------
(***************************************************************************)
(* CompleteAuth: the callback, possibly reloaded or made up.               *)
(***************************************************************************)

\* Mutant: the flow stays pending after its callback.
Callback_Keep(r, flow) ==
    /\ req[r].op = "idle" /\ flow \in 1..flowsStarted
    /\ pending' = Sweep(pending)
    /\ \E p \in pending' :
        /\ p.flow = flow
        /\ req' = [req EXCEPT ![r] = [op |-> "complete", at |-> "exchange", flow |-> flow,
                                       client |-> p.client, token |-> NoToken]]
    /\ UNCHANGED <<row, cache, flowsStarted, minted, redeemed, consent, raced, revoked>>

Callback(r, flow) ==
    /\ req[r].op = "idle" /\ flow \in 1..flowsStarted
    /\ LET live == Sweep(pending)
           mine == {p \in live : p.flow = flow}
       IN /\ pending' = live \ mine
          /\ req' = IF mine = {} THEN req
                    ELSE [req EXCEPT ![r] = [op |-> "complete", at |-> "exchange", flow |-> flow,
                                             client |-> (CHOOSE p \in mine : TRUE).client,
                                             token |-> NoToken]]
    /\ UNCHANGED <<row, cache, flowsStarted, minted, redeemed, consent, raced, revoked>>

\* ProcessAuthorizationResponse, or RefreshToken: the provider hands out a token or
\* refuses.
Exchange(r, ok) ==
    /\ Reached(r, "exchange")
    /\ redeemed' = IF req[r].op = "complete"
                     THEN [redeemed EXCEPT ![req[r].flow] = @ + 1] ELSE redeemed
    /\ IF ok
       THEN /\ minted < MaxTokens /\ minted' = minted + 1
            /\ req' = [req EXCEPT ![r].token = minted', ![r].at = "store"]
       ELSE Done(r) /\ UNCHANGED minted
    /\ UNCHANGED <<row, cache, pending, flowsStarted, consent, raced, revoked>>

\* tokenStore.SaveToken, its database half: only the token column is written.
StoreToken(r) ==
    /\ Reached(r, "store")
    /\ row' = [row EXCEPT !.token = req[r].token]
    /\ raced' = (raced \/ HoldsOlder(r))
    /\ Goto(r, "keep")
    /\ UNCHANGED <<cache, pending, flowsStarted, minted, redeemed, consent, revoked>>

StoreFails(r) ==
    /\ Reached(r, "store")
    /\ Done(r)
    /\ UNCHANGED <<row, cache, pending, flowsStarted, minted, redeemed, consent, raced, revoked>>

KeepToken(r) ==
    /\ Reached(r, "keep")
    /\ cache' = req[r].token
    /\ IF req[r].op = "complete" THEN Goto(r, "forget") ELSE Done(r)
    /\ UNCHANGED <<row, pending, flowsStarted, minted, redeemed, consent, raced, revoked>>

\* forgetToken, after the exchange and first thing in Refresh and Revoke.
Forget(r) ==
    /\ Reached(r, "forget")
    /\ cache' = NoToken
    /\ CASE req[r].op = "complete" -> Done(r)
         [] req[r].op = "refresh" -> Goto(r, "load")
         [] req[r].op = "revoke" -> Goto(r, "drop")
    /\ UNCHANGED <<row, pending, flowsStarted, minted, redeemed, consent, raced, revoked>>

-----------------------------------------------------------------------------
(***************************************************************************)
(* GetToken, alone (before every request, HasToken) or inside Refresh.     *)
(***************************************************************************)
GetToken(r) ==
    /\ cache = NoToken
    /\ BeginRequest(r, "get", "load")
    /\ UNCHANGED <<row, cache, pending, flowsStarted, minted, redeemed, consent, raced, revoked>>

Refresh(r) ==
    /\ BeginRequest(r, "refresh", "forget")
    /\ UNCHANGED <<row, cache, pending, flowsStarted, minted, redeemed, consent, raced, revoked>>

Load(r) ==
    /\ Reached(r, "load")
    /\ IF req[r].op = "refresh" /\ cache # NoToken
         THEN req' = [req EXCEPT ![r].token = cache, ![r].at = "exchange"]
         ELSE IF row.token = NoToken THEN Done(r)
         ELSE req' = [req EXCEPT ![r].token = row.token, ![r].at = "fill"]
    /\ UNCHANGED <<row, cache, pending, flowsStarted, minted, redeemed, consent, raced, revoked>>

Fill(r) ==
    /\ Reached(r, "fill")
    /\ cache' = req[r].token
    /\ IF req[r].op = "refresh" THEN Goto(r, "exchange") ELSE Done(r)
    /\ UNCHANGED <<row, pending, flowsStarted, minted, redeemed, consent, raced, revoked>>

-----------------------------------------------------------------------------
(***************************************************************************)
(* Revoke.                                                                 *)
(***************************************************************************)
Revoke(r) ==
    /\ revoked < MaxRevokes
    /\ BeginRequest(r, "revoke", "forget")
    /\ revoked' = revoked + 1
    /\ UNCHANGED <<row, cache, pending, flowsStarted, minted, redeemed, consent, raced>>

DropFlows(r) ==
    /\ Reached(r, "drop")
    /\ pending' = {}
    /\ Goto(r, "delete")
    /\ UNCHANGED <<row, cache, flowsStarted, minted, redeemed, consent, raced, revoked>>

\* What strays is what another request is in the middle of: a token it holds, or
\* one that was cached again or a flow opened again since this revoke dropped them.
DeleteRow(r) ==
    /\ Reached(r, "delete")
    /\ row' = [client |-> NoClient, token |-> NoToken]
    /\ raced' = (raced \/ cache # NoToken \/ pending # {}
                       \/ \E q \in Requests \ {r} : req[q].op \in Ops \ {"idle", "revoke"})
    /\ consent' = FALSE
    /\ Done(r)
    /\ UNCHANGED <<cache, pending, flowsStarted, minted, redeemed, revoked>>

OAuthNext ==
    \/ \E r \in Requests :
        \/ Authorize(r) \/ OpenFlow(r)
        \/ \E ok \in BOOLEAN : Register(r, ok) \/ Exchange(r, ok)
        \/ \E flow \in 1..MaxFlows : Callback(r, flow)
        \/ StoreToken(r) \/ StoreFails(r) \/ KeepToken(r) \/ Forget(r)
        \/ GetToken(r) \/ Refresh(r) \/ Load(r) \/ Fill(r)
        \/ Revoke(r) \/ DropFlows(r) \/ DeleteRow(r)
    \/ ExpireFlow

OAuthSpec == OAuthInit /\ [][OAuthNext]_oauthVars

-----------------------------------------------------------------------------
\* The code of one authorization is exchanged at most once, however often the
\* callback page is reloaded and however the requests interleave.
FlowsAreRedeemedOnce == \A f \in 1..MaxFlows : redeemed[f] <= 1

\* Outside the named windows (a write of the row while another request is about to
\* cache what it had before; a delete while another request is under way or after
\* one has refilled what the revoke dropped) the cache holds the token of the row
\* or nothing as soon as no save is half done, and a row with a token means that
\* the user authorized after the last revoke.
OnlyRacesStray ==
    raced \/ /\ cache \in {NoToken, row.token} \/ \E r \in Requests : Reached(r, "keep")
             /\ row.token # NoToken => consent

\* Both: one authorization gives one token, and tokens are those of the row and of
\* a user who consents, apart from the windows OnlyRacesStray names.
TokensAreOwned == FlowsAreRedeemedOnce /\ OnlyRacesStray
=============================================================================
