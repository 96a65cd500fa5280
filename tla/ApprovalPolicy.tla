--------------------------- MODULE ApprovalPolicy ---------------------------
(***************************************************************************)
(* The deterministic three-mode approval policy of internal/approval and   *)
(* the two stores it reads: the mode of the conversation (a read-through   *)
(* cache beside a table column) and the grants "allow for this             *)
(* conversation", which live in the process and are frozen for every run.  *)
(*                                                                         *)
(* One conversation makes one tool call after another.  What a call would  *)
(* do is its effect; the effect is derived again on every evaluation and   *)
(* the world may have changed by then (a link points elsewhere, a server   *)
(* reconnected with other hints), so `derived' may change at any moment.   *)
(***************************************************************************)
EXTENDS FiniteSets, Naturals

CONSTANTS
    Outcomes,       \* the effects the calls of the conversation may derive to
    MaxSets,        \* mode changes the user makes
    MaxBoots        \* restarts of the server

(***************************************************************************)
(* Effects, with the fields the policy reads.  `sensitive' stands for the  *)
(* inspection of the path and of the written content; `target' for path,   *)
(* command, host or server and tool; `does' for what the tool then does,   *)
(* which no deriver records for the tools that write one file.             *)
(***************************************************************************)
Kinds == {"filesystem-read", "filesystem-write", "filesystem-structure",
          "filesystem-transfer", "memory-write", "process-exec",
          "network-request", "skill-load", "mcp-call", "user-interaction",
          "readonly-query", "agent-state", "delegate-agent", "unknown"}

Classes == {"", "harmless", "normal", "destructive"}

Effects == [kind : Kinds, external : BOOLEAN, destructive : BOOLEAN,
            autoApproved : BOOLEAN, class : Classes, privateHost : BOOLEAN,
            sensitive : BOOLEAN, target : STRING, does : STRING]

Modes == {"manual", "accept-write", "auto"}

ASSUME PolicyAssumption ==
    Outcomes \subseteq Effects /\ MaxSets \in Nat /\ MaxBoots \in Nat

(***************************************************************************)
(* The policy, a pure function of the effect and the mode.                 *)
(***************************************************************************)
MustAsk(e) ==
    \/ e.kind \in {"unknown", "memory-write"}
    \/ e.destructive /\ ~e.autoApproved
    \/ ~e.destructive /\ e.class = "destructive"

IsSensitiveCall(e) ==
    e.kind \in {"filesystem-write", "filesystem-transfer"} /\ e.sensitive

HasNoSideEffect(e) ==
    \/ e.kind \in {"readonly-query", "user-interaction", "agent-state",
                   "skill-load", "delegate-agent", "filesystem-structure"}
    \/ e.kind = "filesystem-read" /\ ~e.external
    \/ e.kind = "process-exec" /\ e.class = "harmless"
    \/ e.kind = "mcp-call" /\ e.autoApproved

AcceptWriteAsks(e) ==
    CASE e.kind \in {"filesystem-read", "filesystem-write",
                     "filesystem-transfer"} -> e.external
      [] e.kind = "process-exec" -> e.class # "harmless"
      [] e.kind \in {"network-request", "mcp-call"} -> e.privateHost
      [] OTHER -> TRUE

ShouldAsk(mode, e) ==
    /\ ~HasNoSideEffect(e)
    /\ mode # "auto"
    /\ mode = "accept-write" => AcceptWriteAsks(e)

Walled(e) == MustAsk(e) \/ IsSensitiveCall(e)

\* What a remembered grant is filed under: a walled call is never rememberable,
\* the others are known by their kind and their target.
Rememberable(e) ==
    /\ ~Walled(e)
    /\ e.kind \in {"filesystem-read", "filesystem-write",
                   "filesystem-transfer", "process-exec", "network-request",
                   "mcp-call"}
    /\ e.target # ""

Fingerprint(e) == [kind |-> e.kind, target |-> e.target]

Fingerprints == [kind : Kinds, target : STRING]

\* What the digest of a decision covers: the derived effect as it is shown on
\* the card.  A digest is a set, empty where the decision carries none.
Shown(e) == [e EXCEPT !.does = "", !.sensitive = FALSE]

NoEffect == [kind |-> "unknown", external |-> FALSE, destructive |-> FALSE,
             autoApproved |-> FALSE, class |-> "", privateHost |-> FALSE,
             sensitive |-> FALSE, target |-> "", does |-> ""]

-----------------------------------------------------------------------------
VARIABLES
    savedMode,      \* the approval_mode column of the conversation
    cachedMode,     \* ModeStore.byID of it, "none" when absent
    settingModes,   \* modes written to the column and not yet to the cache
    polledMode,     \* what GET .../mode has loaded and not yet cached, or "none"
    remembered,     \* Memory.byID of the conversation
    snapshot,       \* the grants frozen into the context of the current run
    stage,          \* where the current tool call is
    derived,        \* the effect of the call: as the evaluation derived it and, while
                    \* an answer is awaited, as it would be derived now
    loadedMode,     \* the mode the evaluation has loaded and not yet cached
    card,           \* the effect stored with the pending item, a set: it is empty
                    \* where no card waits and on a card of an older build
    answer,         \* the decision on its way to the call
    passed,         \* the last call let through: its effect and by what
    setsLeft, bootsLeft,
    yesTo,          \* history: the effects the user said yes to for this call
    inherited,      \* history: the call waits on a card an older build has left
    grantedFor,     \* history: the effects remembered since grants were last dropped
    frozenFor       \* history: grantedFor when the run took its snapshot

modeVars == <<savedMode, cachedMode, settingModes, polledMode, setsLeft>>
grantVars == <<remembered, snapshot, grantedFor, frozenFor>>
callVars == <<stage, loadedMode, card, answer, passed, yesTo, inherited>>
policyVars == <<modeVars, grantVars, callVars, derived, bootsLeft>>

NoAnswer == [given |-> FALSE, approved |-> FALSE, digest |-> {}]
NothingPassed == [by |-> "nothing", effect |-> NoEffect]

\* "none": no run; "idle": a run between two calls; "mode": past the wall, about
\* to read the mode; "fill": mode loaded, cache not written; "card": the user is
\* asked; "answered": the continuation is about to start; "resume": it
\* re-enters the call with the answer.
CallStates == {"none", "idle", "mode", "fill", "card", "answered", "resume"}

PolicyTypeOK ==
    /\ savedMode \in Modes
    /\ cachedMode \in Modes \cup {"none"}
    /\ settingModes \subseteq Modes
    /\ polledMode \in Modes \cup {"none"}
    /\ loadedMode \in Modes \cup {"none"}
    /\ remembered \subseteq Fingerprints
    /\ snapshot \subseteq Fingerprints
    /\ stage \in CallStates
    /\ {derived, passed.effect} \cup card \subseteq Effects
    /\ answer.given \in BOOLEAN /\ answer.approved \in BOOLEAN
    /\ answer.digest \subseteq Effects
    /\ inherited \in BOOLEAN
    /\ passed.by \in {"nothing", "mode", "grant", "yes"}
    /\ yesTo \subseteq Effects
    /\ grantedFor \subseteq Effects
    /\ frozenFor \subseteq Effects
    /\ setsLeft \in Nat /\ bootsLeft \in Nat

\* The server starts without a run, or with a card that an older build has left: the
\* column for the effect did not exist, and nothing in it can be parsed.
PolicyInit ==
    /\ savedMode = "manual" /\ cachedMode = "none"
    /\ settingModes = {} /\ polledMode = "none" /\ loadedMode = "none"
    /\ remembered = {} /\ snapshot = {} /\ grantedFor = {} /\ frozenFor = {}
    /\ card = {} /\ answer = NoAnswer /\ passed = NothingPassed /\ yesTo = {}
    /\ \/ stage = "none" /\ derived = NoEffect /\ inherited = FALSE
       \/ stage = "card" /\ derived \in Outcomes /\ inherited = TRUE
    /\ setsLeft = MaxSets /\ bootsLeft = MaxBoots

-----------------------------------------------------------------------------
(***************************************************************************)
(* The evaluation of one tool call.                                        *)
(***************************************************************************)

\* A run or a continuation copies the grants as they are.
FreezeGrants ==
    /\ snapshot' = remembered
    /\ frozenFor' = grantedFor

StartPolicyRun ==
    /\ stage = "none"
    /\ FreezeGrants
    /\ stage' = "idle"
    /\ UNCHANGED <<modeVars, remembered, grantedFor, loadedMode, card,
                   answer, passed, yesTo, inherited, derived, bootsLeft>>

EndPolicyRun ==
    /\ stage = "idle"
    /\ stage' = "none"
    /\ snapshot' = {} /\ frozenFor' = {}
    /\ passed' = NothingPassed /\ yesTo' = {}
    /\ UNCHANGED <<modeVars, remembered, grantedFor, loadedMode, card, answer,
                   inherited, derived, bootsLeft>>

\* The call is put to the user with the effect derived for it.
AskUser(e) ==
    /\ card' = {e}
    /\ derived' = e
    /\ stage' = "card"
    /\ inherited' = FALSE
    /\ UNCHANGED passed

Settle ==
    /\ stage' = "idle"
    /\ card' = {}
    /\ derived' = NoEffect
    /\ UNCHANGED inherited

Pass(e, by) ==
    /\ passed' = [by |-> by, effect |-> e]
    /\ Settle

\* The next call of the run: the wall comes before the mode.
EvaluateCall ==
    /\ stage = "idle"
    /\ \E e \in Outcomes :
        IF Walled(e)
          THEN card' = {e} /\ derived' = e /\ stage' = "card"
          ELSE card' = {} /\ derived' = e /\ stage' = "mode"
    /\ yesTo' = {} /\ inherited' = FALSE
    /\ passed' = NothingPassed
    /\ UNCHANGED <<modeVars, grantVars, loadedMode, answer, bootsLeft>>

\* What the policy does with the derived effect under the mode it has read.
DecideUnder(mode) ==
    IF ~ShouldAsk(mode, derived)
      THEN Pass(derived, "mode")
      ELSE IF Rememberable(derived) /\ Fingerprint(derived) \in snapshot
             THEN Pass(derived, "grant")
             ELSE AskUser(derived)

ReadCachedMode ==
    /\ stage = "mode"
    /\ cachedMode # "none"
    /\ DecideUnder(cachedMode)
    /\ UNCHANGED <<modeVars, grantVars, loadedMode, answer, yesTo, bootsLeft>>

\* The column is read between the read lock and the write lock of the store; a
\* read that fails counts as manual.
LoadMode ==
    /\ stage = "mode"
    /\ cachedMode = "none"
    /\ loadedMode' \in {savedMode, "manual"}
    /\ stage' = "fill"
    /\ UNCHANGED <<modeVars, grantVars, card, answer, passed, yesTo, inherited,
                   derived, bootsLeft>>

FillMode ==
    /\ stage = "fill"
    /\ cachedMode' = loadedMode
    /\ loadedMode' = "none"
    /\ DecideUnder(loadedMode)
    /\ UNCHANGED <<savedMode, settingModes, polledMode, setsLeft, grantVars,
                   answer, yesTo, bootsLeft>>

ContinueRun ==
    /\ stage = "answered"
    /\ FreezeGrants
    /\ stage' = "resume"
    /\ UNCHANGED <<modeVars, remembered, grantedFor, loadedMode, card, answer,
                   passed, yesTo, inherited, derived, bootsLeft>>

\* Mutant: an answer is good for whatever the call has become.
BoundTo_Any(decision, e) == decision.given

\* An answer with a digest is good for the effect it was given for and for nothing
\* else; one without is good for whatever the call has become.
BoundTo(decision, e) == decision.digest # {} => Shown(e) \in decision.digest

\* The re-entry of an interrupted call decides before the wall and the mode.
ResumeCall ==
    /\ stage = "resume"
    /\ IF answer.given /\ ~answer.approved
         THEN Settle /\ UNCHANGED passed
         ELSE IF answer.given /\ BoundTo(answer, derived)
                THEN Pass(derived, "yes")
                ELSE AskUser(derived)
    /\ answer' = NoAnswer
    /\ UNCHANGED <<modeVars, grantVars, loadedMode, yesTo, bootsLeft>>

-----------------------------------------------------------------------------
(***************************************************************************)
(* The user.                                                               *)
(***************************************************************************)

\* An answer to the card: the digest is taken of the effect stored with it, if one
\* is.  A grant is stored before the answer is resolved, and an answer that asks to
\* remember what cannot be remembered, or is not known, is refused whole.
AnswerCard(approved, remember) ==
    LET digest == IF approved THEN {Shown(e) : e \in card} ELSE {}
        grant == IF remember THEN card ELSE {}
    IN /\ stage = "card"
       /\ remember => approved /\ card # {} /\ \A e \in card : Rememberable(e)
       /\ answer' = [given |-> TRUE, approved |-> approved, digest |-> digest]
       /\ yesTo' = digest
       /\ remembered' = remembered \cup {Fingerprint(e) : e \in grant}
       /\ grantedFor' = grantedFor \cup grant
       /\ stage' = "answered"
       /\ UNCHANGED <<modeVars, snapshot, frozenFor, loadedMode, card, passed, inherited,
                      derived, bootsLeft>>

\* The run is resumed for the sake of a sibling and this call has no answer.
ResumeUnanswered ==
    /\ stage = "card"
    /\ answer' = NoAnswer
    /\ stage' = "answered"
    /\ UNCHANGED <<modeVars, grantVars, loadedMode, card, passed, yesTo, inherited,
                   derived, bootsLeft>>

ClearGrants ==
    /\ remembered # {}
    /\ remembered' = {}
    /\ grantedFor' = {}
    /\ UNCHANGED <<modeVars, snapshot, frozenFor, callVars, derived, bootsLeft>>

\* The user picks a mode: the column first, then, in a step of its own, the cache.
SaveMode(mode) ==
    /\ setsLeft > 0
    /\ setsLeft' = setsLeft - 1
    /\ mode \notin settingModes
    /\ savedMode' = mode
    /\ settingModes' = settingModes \cup {mode}
    /\ UNCHANGED <<cachedMode, polledMode, grantVars, callVars,
                   derived, bootsLeft>>

CacheMode(mode) ==
    /\ mode \in settingModes
    /\ settingModes' = settingModes \ {mode}
    /\ cachedMode' = mode
    /\ UNCHANGED <<savedMode, polledMode, setsLeft, grantVars, callVars,
                   derived, bootsLeft>>

\* The page asks for the mode; the store is the same, the reader another.
PollMode ==
    /\ polledMode = "none"
    /\ cachedMode = "none"
    /\ polledMode' \in {savedMode, "manual"}
    /\ UNCHANGED <<savedMode, cachedMode, settingModes, setsLeft,
                   grantVars, callVars, derived, bootsLeft>>

FillPolled ==
    /\ polledMode # "none"
    /\ cachedMode' = polledMode
    /\ polledMode' = "none"
    /\ UNCHANGED <<savedMode, settingModes, setsLeft, grantVars, callVars,
                   derived, bootsLeft>>

-----------------------------------------------------------------------------
(***************************************************************************)
(* The world.                                                              *)
(***************************************************************************)

\* A link is retargeted, a file appears, a server reconnects: the call a card is
\* about derives to something else.
WorldChanges ==
    /\ stage \in {"card", "answered", "resume"}
    /\ \E e \in Outcomes : e # derived /\ derived' = e
    /\ UNCHANGED <<modeVars, grantVars, callVars, bootsLeft>>

\* Grants and cache are of the process, the column and the card are saved.
RestartServer ==
    /\ bootsLeft > 0
    /\ bootsLeft' = bootsLeft - 1
    /\ cachedMode' = "none" /\ settingModes' = {} /\ polledMode' = "none"
    /\ loadedMode' = "none"
    /\ remembered' = {} /\ snapshot' = {} /\ grantedFor' = {} /\ frozenFor' = {}
    /\ answer' = NoAnswer /\ passed' = NothingPassed
    /\ IF stage = "card"
         THEN UNCHANGED <<stage, card, derived, yesTo>>
         ELSE /\ stage' = "none"
              /\ card' = {} /\ derived' = NoEffect /\ yesTo' = {}
    /\ UNCHANGED <<savedMode, setsLeft, inherited>>

PolicyNext ==
    \/ StartPolicyRun \/ EndPolicyRun
    \/ EvaluateCall \/ ReadCachedMode \/ LoadMode \/ FillMode
    \/ ContinueRun \/ ResumeCall
    \/ \E approved, remember \in BOOLEAN : AnswerCard(approved, remember)
    \/ ResumeUnanswered
    \/ ClearGrants
    \/ \E mode \in Modes : SaveMode(mode) \/ CacheMode(mode)
    \/ PollMode \/ FillPolled
    \/ WorldChanges
    \/ RestartServer

-----------------------------------------------------------------------------
\* A call that passes without an answer is not one of the calls every mode puts
\* to a human, and one that passes with an answer is the call the user saw: the
\* effect derived again at the re-entry is one that was shown and approved.  Only
\* a card that was there when the server started, left by an older build without
\* its effect, lets through what the call has become; a card of this build, also
\* one that such a call is put on again, does not.
NothingUnseenPasses ==
    /\ passed.by \in {"mode", "grant"} => ~Walled(passed.effect)
    /\ passed.by = "yes" /\ ~inherited => Shown(passed.effect) \in yesTo

\* A grant lets a call pass only where the user, since the grants were last
\* cleared before this run or continuation began and since the server started,
\* asked to remember an operation of the same kind on the same target.
GrantsAreTheUsers ==
    passed.by = "grant" =>
        \E e \in frozenFor : e.kind = passed.effect.kind
                            /\ e.target = passed.effect.target

\* Both: what passes without a question was granted or needs none, and what passes
\* with an answer is what was answered.
PassesAreEarned == NothingUnseenPasses /\ GrantsAreTheUsers

PolicySpec == PolicyInit /\ [][PolicyNext]_policyVars
=============================================================================
