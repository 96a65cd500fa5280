---------------------------- MODULE Tools_proofs ----------------------------
(***************************************************************************)
(* Proofs about the tools that wait for consent or write files: what lets  *)
(* a call pass the approval middleware, which content a guarded edit       *)
(* replaces, what is kept of a file that is written in chunks, what the    *)
(* tracker and the completion gate say of a turn, and what the file tools  *)
(* do to a tree beside the effect the policy was told of.                  *)
(***************************************************************************)
EXTENDS ApprovalPolicy, PatchTool, ChunkedWrite, ChangeGate, FileTools,
        FiniteSetTheorems, SequenceTheorems, WellFoundedInduction, TLAPS

-----------------------------------------------------------------------------
(***************************************************************************)
(* What lets a tool call pass, for every set of effects the calls of a     *)
(* conversation may have. An evaluation takes several steps, the world     *)
(* moves between a card and its answer, and grants are dropped and frozen  *)
(* behind it; the invariant says what each stage of a call may rely on.    *)
(***************************************************************************)

\* Nothing has passed while a call is on its way.
QuietOnTheWay == stage # "idle" => passed = NothingPassed

\* Only a call that is past the wall reaches the mode.
PastTheWall == stage \in {"mode", "fill"} => ~Walled(derived)

\* An answer exists only on its way back to the call, and a yes is for an effect
\* the user was shown and said yes to; it is for none only on a card that an older
\* build has left.
AnswersAreFresh ==
    /\ answer.given => stage \in {"answered", "resume"}
    /\ answer.given /\ answer.approved => answer.digest \subseteq yesTo
    /\ answer.given /\ answer.approved => answer.digest # {} \/ inherited

\* The card of a call that has not been inherited holds its effect.
CardsAreWhole == stage = "card" => card # {} \/ inherited

\* Every stored fingerprint is that of an effect the user asked to remember.
FiledFor(fps, effects) ==
    \A f \in fps : \E e \in effects : f = Fingerprint(e)

GrantsAreFiled ==
    /\ FiledFor(remembered, grantedFor)
    /\ FiledFor(snapshot, frozenFor)

PolicyInv ==
    /\ QuietOnTheWay
    /\ PastTheWall
    /\ AnswersAreFresh
    /\ CardsAreWhole
    /\ GrantsAreFiled
    /\ PassesAreEarned

-----------------------------------------------------------------------------
\* New fingerprints filed with the effects they come from keep the file sound.
LEMMA FilingThese ==
    ASSUME NEW fps, NEW effects, NEW new, FiledFor(fps, effects)
    PROVE  FiledFor(fps \cup {Fingerprint(e) : e \in new}, effects \cup new)
BY DEF FiledFor

\* A fingerprint found on file names an effect of the same kind and target.
LEMMA FoundOnFile ==
    ASSUME NEW fps, NEW effects, NEW d, FiledFor(fps, effects),
           Fingerprint(d) \in fps
    PROVE  \E e \in effects : e.kind = d.kind /\ e.target = d.target
<1>1. PICK e \in effects : Fingerprint(d) = Fingerprint(e)
  BY DEF FiledFor
<1>2. [kind |-> d.kind, target |-> d.target]
        = [kind |-> e.kind, target |-> e.target]
  BY <1>1 DEF Fingerprint
<1>3. [kind |-> d.kind, target |-> d.target].kind
        = [kind |-> e.kind, target |-> e.target].kind
  BY <1>2
<1>4. [kind |-> d.kind, target |-> d.target].target
        = [kind |-> e.kind, target |-> e.target].target
  BY <1>2
<1> QED BY <1>1, <1>3, <1>4

\* A verdict under a mode lets the derived effect pass for a reason, or asks.
LEMMA VerdictIsEarned ==
    ASSUME NEW mode, PolicyInv, stage \in {"mode", "fill"}, DecideUnder(mode),
           UNCHANGED <<grantVars, answer, yesTo>>
    PROVE  PolicyInv'
<1> USE DEF PolicyInv
<1>1. ~answer.given
  BY DEF AnswersAreFresh
<1>2. passed = NothingPassed /\ stage # "idle"
  BY DEF QuietOnTheWay
<1>3. AnswersAreFresh'
  BY <1>1 DEF AnswersAreFresh
<1>4. GrantsAreFiled'
  BY DEF GrantsAreFiled, FiledFor, grantVars
<1>5. stage' \notin {"mode", "fill"}
  BY DEF DecideUnder, Pass, Settle, AskUser
<1>6. ~Walled(derived)
  BY DEF PastTheWall
<1>6a. CardsAreWhole'
  BY DEF DecideUnder, Pass, Settle, AskUser, CardsAreWhole
<1>7. CASE ~ShouldAsk(mode, derived)
  <2>1. passed' = [by |-> "mode", effect |-> derived] /\ stage' = "idle"
    BY <1>7 DEF DecideUnder, Pass, Settle
  <2>2. passed'.by = "mode" /\ passed'.effect = derived
    BY <2>1
  <2> QED BY <1>3, <1>4, <1>5, <1>6, <1>6a, <2>1, <2>2
          DEF QuietOnTheWay, PastTheWall, PassesAreEarned, NothingUnseenPasses,
              GrantsAreTheUsers
<1>8. CASE /\ ShouldAsk(mode, derived)
           /\ Rememberable(derived) /\ Fingerprint(derived) \in snapshot
  <2>1. passed' = [by |-> "grant", effect |-> derived] /\ stage' = "idle"
    BY <1>8 DEF DecideUnder, Pass, Settle
  <2>2. passed'.by = "grant" /\ passed'.effect = derived
    BY <2>1
  <2>3. \E e \in frozenFor : e.kind = derived.kind /\ e.target = derived.target
    BY <1>8, FoundOnFile DEF GrantsAreFiled
  <2>4. frozenFor' = frozenFor
    BY DEF grantVars
  <2> QED BY <1>3, <1>4, <1>5, <1>6, <1>6a, <2>1, <2>2, <2>3, <2>4
          DEF QuietOnTheWay, PastTheWall, PassesAreEarned, NothingUnseenPasses,
              GrantsAreTheUsers
<1>9. CASE /\ ShouldAsk(mode, derived)
           /\ ~(Rememberable(derived) /\ Fingerprint(derived) \in snapshot)
  <2>1. passed' = passed
    BY <1>9 DEF DecideUnder, AskUser
  <2> QED BY <1>2, <1>3, <1>4, <1>5, <1>6a, <2>1
          DEF QuietOnTheWay, PastTheWall, PassesAreEarned, NothingUnseenPasses,
              GrantsAreTheUsers, NothingPassed
<1> QED BY <1>7, <1>8, <1>9

\* Where nothing has passed, nothing has to be earned.
LEMMA NothingToEarn ==
    ASSUME passed = NothingPassed
    PROVE  PassesAreEarned
<1>1. passed.by = "nothing"
  BY DEF NothingPassed
<1> QED BY <1>1 DEF PassesAreEarned, NothingUnseenPasses, GrantsAreTheUsers

\* The steps of the modes and of the page touch neither the call nor the grants.
LEMMA ModesAreApart ==
    ASSUME PolicyInv, UNCHANGED <<grantVars, callVars, derived>>
    PROVE  PolicyInv'
BY DEF PolicyInv, QuietOnTheWay, PastTheWall, AnswersAreFresh, CardsAreWhole,
       GrantsAreFiled, FiledFor, PassesAreEarned, NothingUnseenPasses, GrantsAreTheUsers,
       grantVars, callVars

-----------------------------------------------------------------------------
LEMMA InitPolicyInv == PolicyInit => PolicyInv
<1> SUFFICES ASSUME PolicyInit PROVE PolicyInv
  OBVIOUS
<1>1. PassesAreEarned
  BY NothingToEarn DEF PolicyInit
<1> QED BY <1>1 DEF PolicyInit, PolicyInv, QuietOnTheWay, PastTheWall,
              AnswersAreFresh, CardsAreWhole, NoAnswer, GrantsAreFiled, FiledFor

\* Freezing the grants at the start of a run or of a continuation.
LEMMA FreezeIsFiled ==
    ASSUME GrantsAreFiled, FreezeGrants, UNCHANGED <<remembered, grantedFor>>
    PROVE  GrantsAreFiled'
BY DEF GrantsAreFiled, FiledFor, FreezeGrants

\* Every step of a conversation keeps the invariant.
LEMMA NextPolicyInv == PolicyInv /\ [PolicyNext]_policyVars => PolicyInv'
<1> SUFFICES ASSUME PolicyInv, [PolicyNext]_policyVars PROVE PolicyInv'
  OBVIOUS
<1>0. /\ QuietOnTheWay /\ PastTheWall /\ AnswersAreFresh /\ CardsAreWhole
      /\ GrantsAreFiled /\ PassesAreEarned
  BY DEF PolicyInv
<1>1. CASE StartPolicyRun
  <2>1. passed = NothingPassed /\ ~answer.given
    BY <1>0, <1>1 DEF StartPolicyRun, QuietOnTheWay, AnswersAreFresh
  <2>2. passed' = NothingPassed
    BY <1>1, <2>1 DEF StartPolicyRun
  <2>3. PassesAreEarned'
    BY <2>2 DEF NothingPassed, PassesAreEarned, NothingUnseenPasses,
                GrantsAreTheUsers
  <2>4. GrantsAreFiled'
    BY <1>0, <1>1, FreezeIsFiled DEF StartPolicyRun
  <2>5. AnswersAreFresh'
    BY <1>1, <2>1 DEF StartPolicyRun, AnswersAreFresh
  <2> QED BY <1>1, <2>3, <2>4, <2>5
          DEF StartPolicyRun, PolicyInv, QuietOnTheWay, PastTheWall, CardsAreWhole
<1>2. CASE EndPolicyRun
  <2>1. ~answer.given
    BY <1>0, <1>2 DEF EndPolicyRun, AnswersAreFresh
  <2>2. PassesAreEarned'
    BY <1>2 DEF EndPolicyRun, NothingPassed, PassesAreEarned,
                NothingUnseenPasses, GrantsAreTheUsers
  <2>3. GrantsAreFiled'
    BY <1>0, <1>2 DEF EndPolicyRun, GrantsAreFiled, FiledFor
  <2> QED BY <1>2, <2>1, <2>2, <2>3
          DEF EndPolicyRun, PolicyInv, QuietOnTheWay, PastTheWall,
              AnswersAreFresh, CardsAreWhole
<1>3. CASE EvaluateCall
  <2>1. ~answer.given
    BY <1>0, <1>3 DEF EvaluateCall, AnswersAreFresh
  <2>2. PassesAreEarned'
    BY <1>3 DEF EvaluateCall, NothingPassed, PassesAreEarned,
                NothingUnseenPasses, GrantsAreTheUsers
  <2>3. GrantsAreFiled'
    BY <1>0, <1>3 DEF EvaluateCall, GrantsAreFiled, FiledFor, grantVars
  <2>4. PastTheWall' /\ CardsAreWhole'
    <3>1. PICK e \in Outcomes :
            \/ Walled(e) /\ stage' = "card" /\ card' = {e}
            \/ ~Walled(e) /\ derived' = e /\ stage' = "mode"
      BY <1>3 DEF EvaluateCall
    <3> QED BY <3>1 DEF PastTheWall, CardsAreWhole
  <2>5. QuietOnTheWay' /\ AnswersAreFresh'
    BY <1>3, <2>1 DEF EvaluateCall, QuietOnTheWay, AnswersAreFresh
  <2> QED BY <2>2, <2>3, <2>4, <2>5 DEF PolicyInv
<1>4. CASE ReadCachedMode
  BY <1>4, VerdictIsEarned DEF ReadCachedMode
<1>5. CASE LoadMode
  <2>1. passed = NothingPassed /\ ~answer.given
    BY <1>0, <1>5 DEF LoadMode, QuietOnTheWay, AnswersAreFresh
  <2>2. PassesAreEarned'
    BY <1>5, <2>1 DEF LoadMode, NothingPassed, PassesAreEarned,
                      NothingUnseenPasses, GrantsAreTheUsers
  <2>3. GrantsAreFiled'
    BY <1>0, <1>5 DEF LoadMode, GrantsAreFiled, FiledFor, grantVars
  <2> QED BY <1>0, <1>5, <2>1, <2>2, <2>3
          DEF LoadMode, PolicyInv, QuietOnTheWay, PastTheWall, AnswersAreFresh,
              CardsAreWhole
<1>6. CASE FillMode
  BY <1>6, VerdictIsEarned DEF FillMode
<1>7. CASE ContinueRun
  <2>1. passed = NothingPassed
    BY <1>0, <1>7 DEF ContinueRun, QuietOnTheWay
  <2>2. PassesAreEarned'
    BY <1>7, <2>1 DEF ContinueRun, NothingPassed, PassesAreEarned,
                      NothingUnseenPasses, GrantsAreTheUsers
  <2>3. GrantsAreFiled'
    BY <1>0, <1>7, FreezeIsFiled DEF ContinueRun
  <2> QED BY <1>0, <1>7, <2>1, <2>2, <2>3
          DEF ContinueRun, PolicyInv, QuietOnTheWay, PastTheWall,
              AnswersAreFresh, CardsAreWhole
<1>8. CASE ResumeCall
  <2>1. passed = NothingPassed
    BY <1>0, <1>8 DEF ResumeCall, QuietOnTheWay
  <2>2. GrantsAreFiled'
    BY <1>0, <1>8 DEF ResumeCall, GrantsAreFiled, FiledFor, grantVars
  <2>3. AnswersAreFresh'
    BY <1>8 DEF ResumeCall, AnswersAreFresh, NoAnswer
  <2>4. PastTheWall' /\ CardsAreWhole'
    BY <1>8 DEF ResumeCall, Settle, Pass, AskUser, PastTheWall, CardsAreWhole
  <2>5. yesTo' = yesTo
    BY <1>8 DEF ResumeCall
  <2>6. CASE answer.given /\ ~answer.approved
    <3>1. passed' = NothingPassed
      BY <1>8, <2>1, <2>6 DEF ResumeCall
    <3>2. PassesAreEarned'
      BY <3>1 DEF NothingPassed, PassesAreEarned, NothingUnseenPasses,
                  GrantsAreTheUsers
    <3> QED BY <2>2, <2>3, <2>4, <3>1, <3>2 DEF PolicyInv, QuietOnTheWay
  <2>7. CASE answer.given /\ answer.approved /\ BoundTo(answer, derived)
    <3>1. /\ passed' = [by |-> "yes", effect |-> derived] /\ stage' = "idle"
          /\ inherited' = inherited
      BY <1>8, <2>7 DEF ResumeCall, Pass, Settle
    <3>2. passed'.by = "yes" /\ passed'.effect = derived
      BY <3>1
    <3>3. ~inherited => Shown(derived) \in yesTo
      BY <1>0, <2>7 DEF AnswersAreFresh, BoundTo
    <3>4. PassesAreEarned'
      BY <2>5, <3>1, <3>2, <3>3 DEF PassesAreEarned, NothingUnseenPasses,
                              GrantsAreTheUsers
    <3> QED BY <2>2, <2>3, <2>4, <3>1, <3>4 DEF PolicyInv, QuietOnTheWay
  <2>8. CASE /\ ~(answer.given /\ ~answer.approved)
             /\ ~(answer.given /\ answer.approved /\ BoundTo(answer, derived))
    <3>1. passed' = NothingPassed
      BY <1>8, <2>1, <2>8 DEF ResumeCall, AskUser
    <3>2. PassesAreEarned'
      BY <3>1 DEF NothingPassed, PassesAreEarned, NothingUnseenPasses,
                  GrantsAreTheUsers
    <3> QED BY <2>2, <2>3, <2>4, <3>1, <3>2 DEF PolicyInv, QuietOnTheWay
  <2> QED BY <2>6, <2>7, <2>8
<1>9. ASSUME NEW approved \in BOOLEAN, NEW remember \in BOOLEAN,
             AnswerCard(approved, remember)
      PROVE  PolicyInv'
  <2>1. passed = NothingPassed
    BY <1>0, <1>9 DEF AnswerCard, QuietOnTheWay
  <2>2. passed' = NothingPassed
    BY <1>9, <2>1 DEF AnswerCard
  <2>3. PassesAreEarned'
    BY <2>2 DEF NothingPassed, PassesAreEarned, NothingUnseenPasses,
                GrantsAreTheUsers
  <2>4. FiledFor(remembered, grantedFor)'
    BY <1>0, <1>9, FilingThese DEF AnswerCard, GrantsAreFiled
  <2>5. FiledFor(snapshot, frozenFor)'
    BY <1>0, <1>9 DEF AnswerCard, GrantsAreFiled, FiledFor
  <2>6. AnswersAreFresh'
    <3> DEFINE digest == IF approved THEN {Shown(e) : e \in card} ELSE {}
    <3>1. /\ answer' = [given |-> TRUE, approved |-> approved, digest |-> digest]
          /\ yesTo' = digest /\ stage' = "answered" /\ inherited' = inherited
          /\ stage = "card"
      BY <1>9 DEF AnswerCard
    <3>2. approved => digest # {} \/ inherited
      BY <1>0, <3>1 DEF CardsAreWhole
    <3> HIDE DEF digest
    <3>3. answer'.approved = approved /\ answer'.digest = digest
      BY <3>1
    <3> QED BY <3>1, <3>2, <3>3 DEF AnswersAreFresh
  <2> QED BY <1>9, <2>2, <2>3, <2>4, <2>5, <2>6
          DEF AnswerCard, PolicyInv, QuietOnTheWay, PastTheWall, CardsAreWhole,
              GrantsAreFiled
<1>10. CASE ResumeUnanswered
  <2>1. passed' = NothingPassed
    BY <1>0, <1>10 DEF ResumeUnanswered, QuietOnTheWay
  <2>2. PassesAreEarned'
    BY <2>1 DEF NothingPassed, PassesAreEarned, NothingUnseenPasses,
                GrantsAreTheUsers
  <2>3. GrantsAreFiled'
    BY <1>0, <1>10 DEF ResumeUnanswered, GrantsAreFiled, FiledFor, grantVars
  <2> QED BY <1>10, <2>1, <2>2, <2>3
          DEF ResumeUnanswered, PolicyInv, QuietOnTheWay, PastTheWall,
              AnswersAreFresh, CardsAreWhole, NoAnswer
<1>11. CASE ClearGrants
  <2>1. GrantsAreFiled'
    BY <1>0, <1>11 DEF ClearGrants, GrantsAreFiled, FiledFor
  <2>2. QuietOnTheWay' /\ PastTheWall' /\ AnswersAreFresh' /\ CardsAreWhole'
    BY <1>0, <1>11 DEF ClearGrants, callVars, QuietOnTheWay, PastTheWall,
                       AnswersAreFresh, CardsAreWhole
  <2>3. PassesAreEarned'
    BY <1>0, <1>11 DEF ClearGrants, callVars, PassesAreEarned,
                       NothingUnseenPasses, GrantsAreTheUsers
  <2> QED BY <2>1, <2>2, <2>3 DEF PolicyInv
<1>12. ASSUME NEW mode \in Modes, SaveMode(mode) \/ CacheMode(mode)
       PROVE  PolicyInv'
  BY <1>12, ModesAreApart DEF SaveMode, CacheMode
<1>13. CASE PollMode \/ FillPolled
  BY <1>13, ModesAreApart DEF PollMode, FillPolled
<1>14. CASE WorldChanges
  <2>1. GrantsAreFiled'
    BY <1>0, <1>14 DEF WorldChanges, grantVars, GrantsAreFiled, FiledFor
  <2>2. QuietOnTheWay' /\ PastTheWall' /\ AnswersAreFresh' /\ CardsAreWhole'
    BY <1>0, <1>14 DEF WorldChanges, callVars, QuietOnTheWay, PastTheWall,
                       AnswersAreFresh, CardsAreWhole
  <2>3. PassesAreEarned'
    BY <1>0, <1>14 DEF WorldChanges, callVars, grantVars, PassesAreEarned,
                       NothingUnseenPasses, GrantsAreTheUsers
  <2> QED BY <2>1, <2>2, <2>3 DEF PolicyInv
<1>15. CASE RestartServer
  <2>1. PassesAreEarned'
    BY <1>15 DEF RestartServer, NothingPassed, PassesAreEarned,
                 NothingUnseenPasses, GrantsAreTheUsers
  <2>2. GrantsAreFiled'
    BY <1>15 DEF RestartServer, GrantsAreFiled, FiledFor
  <2>3. AnswersAreFresh'
    BY <1>15 DEF RestartServer, NoAnswer, AnswersAreFresh
  <2>4. QuietOnTheWay' /\ PastTheWall' /\ CardsAreWhole'
    BY <1>0, <1>15 DEF RestartServer, QuietOnTheWay, PastTheWall, CardsAreWhole
  <2> QED BY <2>1, <2>2, <2>3, <2>4 DEF PolicyInv
<1>16. CASE UNCHANGED policyVars
  BY <1>16, ModesAreApart DEF policyVars
<1> QED BY <1>1, <1>2, <1>3, <1>4, <1>5, <1>6, <1>7, <1>8, <1>9, <1>10, <1>11,
           <1>12, <1>13, <1>14, <1>15, <1>16 DEF PolicyNext

-----------------------------------------------------------------------------
\* What passes without a question needs none or was granted on the same
\* operation, and what passes with an answer is what the user was shown and
\* approved, however the world and the grants change in between; only where an
\* older build left a card without its effect does a yes let anything pass.
THEOREM PassesEarned == PolicySpec => []PassesAreEarned
<1>1. PolicyInit => PolicyInv
  BY InitPolicyInv
<1>2. PolicyInv /\ [PolicyNext]_policyVars => PolicyInv'
  BY NextPolicyInv
<1>3. PolicyInv => PassesAreEarned
  BY DEF PolicyInv
<1> QED BY <1>1, <1>2, <1>3, PTL DEF PolicySpec

-----------------------------------------------------------------------------
(***************************************************************************)
(* Edits and the version they were made from. What editors still hold is   *)
(* of the past, unless the file has not been written since.                *)
(***************************************************************************)

\* The states a read and an edit hold are of the past, and one that is still the
\* file's names the content that was read or loaded.
ReadsAreDated ==
    \A e \in Editors :
        /\ editor[e].pc = "statted" => editor[e].ver \in Nat /\ editor[e].ver <= version
        /\ seen[e].ver \in Nat /\ seen[e].ver <= version
        /\ seen[e].ver = version => seen[e].lines = lines
        /\ editor[e].pc = "loaded" /\ editor[e].guarded /\ seen[e].ver = version
             => editor[e].raw = lines

PatchInv ==
    /\ version \in Nat \ {0}
    /\ DOMAIN editor = Editors /\ DOMAIN seen = Editors
    /\ ReadsAreDated
    /\ GuardedEditsKnowTheirBase

(* At the start nobody has read anything.                                  *)
LEMMA InitPatch == PatchInit => PatchInv
BY DEF PatchInit, PatchInv, ReadsAreDated, GuardedEditsKnowTheirBase, AtRest, Unread, NothingStarted

\* A write renews the version, so nothing that was read before is up to date.
LEMMA RenewStep ==
    ASSUME PatchInv, NEW e \in Editors, version' = version + 1, NEW s, s.pc \notin {"statted", "loaded"},
           Becomes(e, s), UNCHANGED <<seen, lastEdit>>
    PROVE  PatchInv'
<1>1. \A d \in Editors : d # e => editor'[d] = editor[d]
  BY DEF PatchInv, Becomes
<1>2. editor'[e] = s
  BY DEF PatchInv, Becomes
<1>3. ReadsAreDated'
  BY <1>1, <1>2 DEF PatchInv, ReadsAreDated
<1> QED BY <1>3 DEF PatchInv, Becomes, GuardedEditsKnowTheirBase

\* Any other step leaves file and version alone and moves one editor.
LEMMA EditorStep ==
    ASSUME PatchInv, NEW e \in Editors, UNCHANGED <<lines, version>>, NEW s, Becomes(e, s),
           s.pc = "statted" => s.ver = version,
           s.pc = "loaded" => (s.raw = lines \/ ~s.guarded)
    PROVE  /\ editor' = [editor EXCEPT ![e] = s] /\ DOMAIN editor' = Editors
           /\ UNCHANGED seen => ReadsAreDated'
<1>1. editor' = [editor EXCEPT ![e] = s]
  BY DEF Becomes
<1>2. \A d \in Editors : editor'[d] = IF d = e THEN s ELSE editor[d]
  BY <1>1 DEF PatchInv
<1>3. ASSUME UNCHANGED seen PROVE ReadsAreDated'
  BY <1>2, <1>3 DEF PatchInv, ReadsAreDated
<1> QED BY <1>1, <1>3 DEF PatchInv

(* Every step keeps the invariant.                                         *)
LEMMA PatchStep == PatchInv /\ [PatchNext]_patchVars => PatchInv'
<1> SUFFICES ASSUME PatchInv, [PatchNext]_patchVars PROVE PatchInv'
  OBVIOUS
<1> USE DEF GuardedEditsKnowTheirBase
<1>1. ASSUME NEW e \in Editors, StatForRead(e) PROVE PatchInv'
  <2>1. AtRest.ver = 0 /\ [AtRest EXCEPT !.pc = "statted", !.ver = version].pc = "statted"
        /\ [AtRest EXCEPT !.pc = "statted", !.ver = version].ver = version
    BY DEF AtRest
  <2> QED BY <1>1, <2>1, EditorStep DEF StatForRead, PatchInv
<1>2. ASSUME NEW e \in Editors, ReadContent(e) PROVE PatchInv'
  <2>1. \A d \in Editors : d # e => seen'[d] = seen[d] /\ editor'[d] = editor[d]
    BY <1>2 DEF ReadContent, Becomes, PatchInv
  <2>2. seen'[e].ver = editor[e].ver /\ seen'[e].lines = lines /\ editor'[e].pc = "rest"
    BY <1>2 DEF ReadContent, Becomes, PatchInv, AtRest
  <2>3. editor[e].ver \in Nat /\ editor[e].ver <= version
    BY <1>2 DEF ReadContent, Doing, PatchInv, ReadsAreDated
  <2>4. ReadsAreDated'
    BY <1>2, <2>1, <2>2, <2>3 DEF ReadContent, PatchInv, ReadsAreDated
  <2> QED BY <1>2, <2>4 DEF ReadContent, Becomes, PatchInv
<1>3. ASSUME NEW e \in Editors, NEW patch \in Patches, NEW guarded \in BOOLEAN, LoadForPatch(e, patch, guarded)
      PROVE PatchInv'
  <2> DEFINE s == [AtRest EXCEPT !.pc = "loaded", !.guarded = guarded, !.raw = lines,
                                 !.hunks = ParseContextPatch(patch).hunks]
  <2>1. s.pc = "loaded" /\ s.raw = lines
    BY DEF AtRest
  <2>2. Becomes(e, s) /\ UNCHANGED <<lines, version, seen, lastEdit>>
    BY <1>3 DEF LoadForPatch
  <2> HIDE DEF s
  <2> QED BY <2>1, <2>2, EditorStep DEF PatchInv
<1>4. ASSUME NEW e \in Editors, ComputePatch(e) PROVE PatchInv'
  <2> DEFINE result == ApplyContextPatch(editor[e].raw, editor[e].hunks)
             s == [editor[e] EXCEPT !.pc = "verified", !.hunks = <<>>, !.next = result.lines]
  <2>0. UNCHANGED <<lines, version, seen>> /\ editor[e].pc = "loaded"
    BY <1>4 DEF ComputePatch, Doing
  <2>1. CASE Becomes(e, AtRest) /\ UNCHANGED lastEdit
    <3>1. AtRest.pc = "rest"
      BY DEF AtRest
    <3> QED BY <2>0, <2>1, <3>1, EditorStep DEF PatchInv
  <2>2. CASE /\ VerifyObservedState(e, editor[e].guarded)
             /\ Becomes(e, s)
             /\ lastEdit' = [guarded |-> editor[e].guarded, base |-> editor[e].raw, saw |-> seen[e].lines]
    <3>1. s.pc \notin {"statted", "loaded"}
      OBVIOUS
    <3> HIDE DEF s
    <3>2. DOMAIN editor' = Editors /\ ReadsAreDated'
      BY <2>0, <2>2, <3>1, EditorStep
    <3>3. lastEdit'.guarded => lastEdit'.base = lastEdit'.saw
      BY <2>0, <2>2 DEF PatchInv, ReadsAreDated, VerifyObservedState
    <3> QED BY <2>0, <3>2, <3>3 DEF PatchInv
  <2>3. \/ Becomes(e, AtRest) /\ UNCHANGED lastEdit
        \/ /\ VerifyObservedState(e, editor[e].guarded)
           /\ Becomes(e, s)
           /\ lastEdit' = [guarded |-> editor[e].guarded, base |-> editor[e].raw, saw |-> seen[e].lines]
    BY <1>4 DEF ComputePatch
  <2> QED BY <2>1, <2>2, <2>3
<1>5. ASSUME NEW e \in Editors, RecheckPatch(e) PROVE PatchInv'
  <2> DEFINE s == IF lines = editor[e].raw THEN [editor[e] EXCEPT !.pc = "checked"] ELSE AtRest
  <2>1. s.pc \notin {"statted", "loaded"}
    BY DEF AtRest
  <2>2. Becomes(e, s) /\ UNCHANGED <<lines, version, seen, lastEdit>>
    BY <1>5 DEF RecheckPatch
  <2> HIDE DEF s
  <2> QED BY <2>1, <2>2, EditorStep DEF PatchInv
<1>6. ASSUME NEW e \in Editors, RenamePatched(e) PROVE PatchInv'
  <2>1. AtRest.pc = "rest"
    BY DEF AtRest
  <2> QED BY <1>6, <2>1, RenewStep DEF RenamePatched
<1>7. ASSUME NEW e \in Editors, NEW draft \in Drafts, NEW guarded \in BOOLEAN, VerifyWrite(e, draft, guarded)
      PROVE PatchInv'
  <2> DEFINE s == [AtRest EXCEPT !.pc = "writing", !.next = draft]
  <2>1. s.pc = "writing"
    BY DEF AtRest
  <2>2. Becomes(e, s) /\ UNCHANGED <<lines, version, seen>>
    BY <1>7 DEF VerifyWrite
  <2>3. lastEdit' = [guarded |-> guarded, base |-> lines, saw |-> seen[e].lines]
        /\ (guarded => version = seen[e].ver)
    BY <1>7 DEF VerifyWrite, VerifyObservedState
  <2> HIDE DEF s
  <2>4. DOMAIN editor' = Editors /\ ReadsAreDated'
    BY <2>1, <2>2, EditorStep
  <2>5. lastEdit'.guarded => lastEdit'.base = lastEdit'.saw
    BY <2>3 DEF PatchInv, ReadsAreDated
  <2> QED BY <2>2, <2>4, <2>5 DEF PatchInv
<1>8. ASSUME NEW e \in Editors, EmptyFile(e) PROVE PatchInv'
  <2> DEFINE s == [editor[e] EXCEPT !.pc = "emptied"]
  <2>1. s.pc = "emptied"
    OBVIOUS
  <2>2. Becomes(e, s)
    BY <1>8 DEF EmptyFile
  <2> HIDE DEF s
  <2> QED BY <1>8, <2>1, <2>2, RenewStep DEF EmptyFile
<1>9. ASSUME NEW e \in Editors, FillFile(e) PROVE PatchInv'
  <2>1. AtRest.pc = "rest"
    BY DEF AtRest
  <2> QED BY <1>9, <2>1, RenewStep DEF FillFile
<1>10. CASE UNCHANGED patchVars
  BY <1>10 DEF patchVars, PatchInv, ReadsAreDated
<1> QED BY <1>1, <1>2, <1>3, <1>4, <1>5, <1>6, <1>7, <1>8, <1>9, <1>10 DEF PatchNext

(* An edit that brings back the observed_state of a read is made from the  *)
(* content that read has shown: a patch compares the state after it has    *)
(* loaded the content, and a write replaces what has that state. For any   *)
(* editors and any contents.                                               *)
THEOREM GuardsHold == PatchSpec => []GuardedEditsKnowTheirBase
<1>1. PatchInv => GuardedEditsKnowTheirBase
  BY DEF PatchInv
<1> QED BY <1>1, InitPatch, PatchStep, PTL DEF PatchSpec

-----------------------------------------------------------------------------
(***************************************************************************)
(* Chunked writes: every chunk has its place in one file, behind what was  *)
(* acknowledged before it was sent.                                        *)
(***************************************************************************)

\* What was sent has a number, and stands in one place of one file.
Numbered ==
    /\ \A s \in Uploads : \A i \in DOMAIN bytes[s] : bytes[s][i] <= sent
    /\ \A task \in calls : task.chunk <= sent

OnePlaceEach ==
    \A s, t \in Uploads : \A i \in DOMAIN bytes[s], j \in DOMAIN bytes[t] :
        bytes[s][i] = bytes[t][j] => s = t /\ i = j

Saved(c, s) == \E i \in DOMAIN bytes[s] : bytes[s][i] = c

AckedAreSaved == \A s \in Uploads : \A i \in DOMAIN acked[s] : Saved(acked[s][i], s)

\* What came before a chunk is acknowledged, and lies in front of it.
BeforeIsAcked == \A c \in Chunk : \A d \in before[c] : \E s \in Uploads : \E i \in DOMAIN acked[s] : acked[s][i] = d

InOrder ==
    \A s \in Uploads : \A i, j \in DOMAIN bytes[s] :
        bytes[s][j] \in before[bytes[s][i]] => j < i

\* What an append under way has done: its chunk is saved between the write and the
\* save of the session, which will not count more chunks than there are.
Appends(task) ==
    /\ task.next \in {"open", "write", "save"} /\ task.chunk \in Chunk
    /\ task.next # "save" => /\ \A s \in Uploads : ~Saved(task.chunk, s)
                             /\ task.size <= Len(bytes[task.sid])
    /\ task.next = "save" => /\ Saved(task.chunk, task.sid)
                             /\ task.size + 1 <= Len(bytes[task.sid])

UnderWay ==
    /\ \A task \in calls : task.sid \in used
    /\ \A task \in calls : IF task.mode = "append" THEN Appends(task) ELSE task.next \in {"rename", "delete"}
    /\ \A task, other \in calls :
        task.mode = "append" /\ other.mode = "append" /\ task.chunk = other.chunk => task = other

\* An id that was not drawn has nothing.
Undrawn == \A s \in Uploads \ used : ~session[s].live /\ bytes[s] = <<>> /\ acked[s] = <<>>

ChunkInv ==
    /\ ChunkTypeOK
    /\ Numbered /\ OnePlaceEach /\ AckedAreSaved /\ BeforeIsAcked /\ InOrder
    /\ UnderWay /\ Undrawn
    /\ RecordedSizeIsThere /\ OnlyWritesStart

-----------------------------------------------------------------------------
LEMMA InitChunks == ChunkInit => ChunkInv
<1> SUFFICES ASSUME ChunkInit PROVE ChunkInv
  OBVIOUS
<1> USE ChunkAssumption DEF ChunkInit
<1>1. ChunkTypeOK
  BY DEF ChunkTypeOK, NoUpload, Chunk
<1>2. Numbered /\ OnePlaceEach /\ AckedAreSaved /\ BeforeIsAcked /\ InOrder
  BY DEF Numbered, OnePlaceEach, AckedAreSaved, BeforeIsAcked, InOrder
<1>3. UnderWay /\ Undrawn /\ RecordedSizeIsThere /\ OnlyWritesStart
  BY DEF UnderWay, Undrawn, RecordedSizeIsThere, OnlyWritesStart, NoUpload
<1> QED BY <1>1, <1>2, <1>3 DEF ChunkInv

\* A step that moves calls, drops or ages sessions and renames files writes nothing.
LEMMA QuietStep ==
    ASSUME ChunkInv, UNCHANGED <<bytes, sent, acked, before, used, unasked>>,
           session' \in [Uploads -> [live : BOOLEAN, fresh : BOOLEAN, size : Nat]],
           temp' \in [Uploads -> {"none", "temp", "target"}],
           \A s \in Uploads : session'[s].live => session[s].live /\ session'[s].size = session[s].size,
           calls' \subseteq CallState, UnderWay',
           \A task \in calls' : task.chunk <= sent
    PROVE  ChunkInv'
<1> USE DEF ChunkInv
<1>1. ChunkTypeOK'
  BY DEF ChunkTypeOK
<1>2. Numbered' /\ OnePlaceEach' /\ AckedAreSaved' /\ BeforeIsAcked' /\ InOrder'
  BY DEF Numbered, OnePlaceEach, AckedAreSaved, BeforeIsAcked, InOrder, Saved
<1>3. Undrawn' /\ RecordedSizeIsThere' /\ OnlyWritesStart'
  BY DEF Undrawn, RecordedSizeIsThere, OnlyWritesStart
<1> QED BY <1>1, <1>2, <1>3

\* The calls that are left know as much as before.
LEMMA CallsLeft ==
    ASSUME ChunkInv, UNCHANGED <<bytes, used>>, calls' \subseteq calls
    PROVE  UnderWay' /\ calls' \subseteq CallState /\ \A task \in calls' : task.chunk <= sent
BY DEF ChunkInv, ChunkTypeOK, Numbered, UnderWay, Appends, Saved

\* One call goes on to another step.
LEMMA CallSteps ==
    ASSUME ChunkInv, UNCHANGED <<bytes, used>>, NEW task \in calls,
           NEW next \in {"open", "write", "save", "rename", "delete"}, Step(task, next),
           IF task.mode = "append" THEN task.next = "open" /\ next = "write" ELSE next \in {"rename", "delete"}
    PROVE  UnderWay' /\ calls' \subseteq CallState /\ \A other \in calls' : other.chunk <= sent
<1> DEFINE moved == [task EXCEPT !.next = next]
<1>1. task \in CallState /\ calls \subseteq CallState
  BY DEF ChunkInv, ChunkTypeOK
<1>2. moved \in CallState /\ moved.next = next /\ moved.mode = task.mode /\ moved.sid = task.sid
      /\ moved.chunk = task.chunk /\ moved.size = task.size
  BY <1>1 DEF CallState
<1>3. calls' = (calls \ {task}) \cup {moved}
  BY DEF Step
<1> HIDE DEF moved
<1>4. calls' \subseteq CallState /\ \A other \in calls' : other.chunk <= sent
  BY <1>1, <1>2, <1>3 DEF ChunkInv, Numbered
<1>5. IF moved.mode = "append" THEN Appends(moved)' ELSE moved.next \in {"rename", "delete"}
  BY <1>2 DEF ChunkInv, UnderWay, Appends, Saved
<1>6. \A other \in calls : IF other.mode = "append" THEN Appends(other)' ELSE other.next \in {"rename", "delete"}
  BY DEF ChunkInv, UnderWay, Appends, Saved
<1>7. \A other \in calls' : IF other.mode = "append" THEN Appends(other)' ELSE other.next \in {"rename", "delete"}
  BY <1>3, <1>5, <1>6
<1>8. \A c, d \in calls' : c.mode = "append" /\ d.mode = "append" /\ c.chunk = d.chunk => c = d
  BY <1>2, <1>3 DEF ChunkInv, UnderWay
<1>9. \A c \in calls' : c.sid \in used'
  BY <1>2, <1>3 DEF ChunkInv, UnderWay
<1> QED BY <1>4, <1>7, <1>8, <1>9 DEF UnderWay

-----------------------------------------------------------------------------
LEMMA StartStep ==
    ASSUME ChunkInv, NEW s \in Uploads, NEW in \in Input, StartSession(s, in)
    PROVE  ChunkInv'
<1> USE ChunkAssumption DEF ChunkInv
<1> DEFINE gone == {x \in Uploads : Reaped(x)}
           first == IF in.content THEN <<sent + 1>> ELSE <<>>
<1>0. /\ s \notin used /\ used' = used \cup {s} /\ calls' = calls
      /\ in.content => sent < MaxChunks
      /\ sent' = sent + Len(first)
      /\ before' = IF in.content THEN [before EXCEPT ![sent + 1] = AllAcked] ELSE before
      /\ bytes' = [bytes EXCEPT ![s] = first] /\ acked' = [acked EXCEPT ![s] = first]
      /\ session' = [x \in Uploads |->
            IF x = s THEN [live |-> TRUE, fresh |-> TRUE, size |-> Len(first)]
            ELSE IF x \in gone THEN NoUpload ELSE session[x]]
      /\ temp' = [x \in Uploads |->
            IF x = s THEN "temp"
            ELSE IF x \in gone /\ temp[x] = "temp" THEN "none" ELSE temp[x]]
  BY DEF StartSession
<1>1. ChunkTypeOK
  OBVIOUS
<1>2. /\ first \in Seq(Chunk) /\ Len(first) \in {0, 1} /\ DOMAIN first = 1..Len(first)
      /\ \A i \in DOMAIN first : first[i] = sent + 1
      /\ sent' \in 0..MaxChunks /\ sent <= sent'
      /\ \A i \in DOMAIN first : first[i] <= sent'
      /\ Len(first) = 1 <=> in.content
  <2>1. CASE in.content
    <3>1. sent + 1 \in Chunk
      BY <1>0, <1>1, <2>1 DEF Chunk, ChunkTypeOK
    <3> QED BY <1>0, <1>1, <2>1, <3>1 DEF ChunkTypeOK
  <2>2. CASE ~in.content
    BY <1>0, <1>1, <2>2 DEF ChunkTypeOK
  <2> QED BY <2>1, <2>2
<1> HIDE DEF first, gone
<1>3. \A x \in Uploads : bytes'[x] = (IF x = s THEN first ELSE bytes[x]) /\ acked'[x] = (IF x = s THEN first ELSE acked[x])
  BY <1>0, <1>1 DEF ChunkTypeOK
<1>4. ~session[s].live /\ bytes[s] = <<>> /\ acked[s] = <<>>
  BY <1>0 DEF Undrawn
<1>5. unasked' = {}
  <2>1. DerivedAsWrite(in)
    BY DEF StartSession, Accepted, DerivedAsWrite
  <2> QED BY <2>1 DEF StartSession, OnlyWritesStart
<1>6. \A x \in Uploads : \A i \in DOMAIN acked[x] : acked[x][i] \in Chunk
  BY <1>1 DEF ChunkTypeOK
<1>7. AllAcked = {c \in Chunk : \E x \in Uploads : \E i \in DOMAIN acked[x] : acked[x][i] = c}
  BY <1>6 DEF AllAcked, ToSet
<1>8. \A c \in Chunk : before'[c] = IF in.content /\ c = sent + 1 THEN AllAcked ELSE before[c]
  BY <1>0, <1>1 DEF ChunkTypeOK
<1>9. \A c \in AllAcked : c <= sent
  BY <1>1, <1>7 DEF AckedAreSaved, Saved, Numbered
<1>10. ChunkTypeOK'
  <2>1. session' \in [Uploads -> [live : BOOLEAN, fresh : BOOLEAN, size : Nat]]
    BY <1>0, <1>1, <1>2 DEF ChunkTypeOK, NoUpload
  <2>2. temp' \in [Uploads -> {"none", "temp", "target"}]
    BY <1>0, <1>1 DEF ChunkTypeOK
  <2>3. before' \in [Chunk -> SUBSET Chunk]
    BY <1>0, <1>1, <1>7 DEF ChunkTypeOK
  <2> QED BY <1>0, <1>1, <1>2, <1>5, <2>1, <2>2, <2>3 DEF ChunkTypeOK
<1>11. Numbered'
  <2>0. sent \in Nat /\ sent' \in Nat
    BY <1>1, <1>10 DEF ChunkTypeOK
  <2>1. \A x \in Uploads : \A i \in DOMAIN bytes[x] : bytes[x][i] \in Nat
    BY <1>1 DEF ChunkTypeOK, Chunk
  <2>2. \A x \in Uploads : \A i \in DOMAIN bytes'[x] : bytes'[x][i] <= sent'
    BY <1>2, <1>3, <2>0, <2>1 DEF Numbered
  <2>3. \A task \in calls : task.chunk \in Nat
    BY <1>1 DEF ChunkTypeOK, CallState
  <2> QED BY <1>0, <1>2, <2>0, <2>2, <2>3 DEF Numbered
<1>12. OnePlaceEach'
  <2>1. \A x \in Uploads : \A i \in DOMAIN bytes[x] : bytes[x][i] \in Nat /\ bytes[x][i] <= sent
    BY <1>1 DEF ChunkTypeOK, Chunk, Numbered
  <2>2. sent \in Nat
    BY <1>1 DEF ChunkTypeOK
  <2>3. \A x, t \in Uploads : \A i \in DOMAIN bytes'[x], j \in DOMAIN bytes'[t] :
          bytes'[x][i] = bytes'[t][j] => x = t /\ i = j
    BY <1>2, <1>3, <2>1, <2>2 DEF OnePlaceEach
  <2> QED BY <2>3 DEF OnePlaceEach
<1>13. AckedAreSaved'
  BY <1>3 DEF AckedAreSaved, Saved
<1>14. BeforeIsAcked'
  <2>1. \A x \in Uploads : \A i \in DOMAIN acked[x] : x # s
    BY <1>4
  <2>2. ASSUME NEW x \in Uploads, NEW i \in DOMAIN acked[x]
        PROVE  \E y \in Uploads : \E j \in DOMAIN acked'[y] : acked'[y][j] = acked[x][i]
    <3>1. acked'[x] = acked[x]
      BY <1>3, <2>1
    <3> QED BY <3>1
  <2>3. ASSUME NEW c \in Chunk, NEW d \in before'[c]
        PROVE  \E x \in Uploads : \E i \in DOMAIN acked[x] : acked[x][i] = d
    BY <1>7, <1>8, <2>3 DEF BeforeIsAcked
  <2> QED BY <2>2, <2>3 DEF BeforeIsAcked
<1>15. InOrder'
  <2>1. \A x \in Uploads : \A i \in DOMAIN bytes[x] : bytes[x][i] \in Chunk /\ bytes[x][i] # sent + 1
    BY <1>1 DEF ChunkTypeOK, Chunk, Numbered
  <2>2. \A i, j \in DOMAIN first : first[j] \notin before'[first[i]]
    <3> SUFFICES ASSUME NEW i \in DOMAIN first, NEW j \in DOMAIN first PROVE first[j] \notin before'[first[i]]
      OBVIOUS
    <3>1. first[i] = sent + 1 /\ first[j] = sent + 1 /\ sent + 1 \in Chunk /\ in.content
      BY <1>2
    <3>2. before'[first[i]] = AllAcked
      BY <1>8, <3>1
    <3>3. sent + 1 \notin AllAcked
      BY <1>1, <1>9 DEF ChunkTypeOK
    <3> QED BY <3>1, <3>2, <3>3
  <2>3. \A x \in Uploads \ {s} : \A i, j \in DOMAIN bytes[x] : bytes[x][j] \in before'[bytes[x][i]] => j < i
    BY <1>8, <2>1 DEF InOrder
  <2> QED BY <1>3, <2>2, <2>3 DEF InOrder
<1>16. UnderWay'
  <2>1. \A task \in calls : task.sid \in Uploads /\ task.sid # s /\ task.chunk \in Nat /\ task.chunk <= sent
    BY <1>0, <1>1 DEF ChunkTypeOK, CallState, Numbered, UnderWay
  <2>2. \A task \in calls : \A x \in Uploads : Saved(task.chunk, x)' <=> Saved(task.chunk, x)
    <3>1. ASSUME NEW task \in calls PROVE ~Saved(task.chunk, s) /\ ~Saved(task.chunk, s)'
      <4>1. task.chunk # sent + 1
        BY <1>1, <2>1 DEF ChunkTypeOK
      <4> QED BY <1>2, <1>3, <1>4, <4>1 DEF Saved
    <3> QED BY <1>3, <3>1 DEF Saved
  <2>3. \A task \in calls : Appends(task) => Appends(task)'
    BY <1>3, <2>1, <2>2 DEF Appends
  <2> QED BY <1>0, <2>3 DEF UnderWay
<1>17. Undrawn'
  BY <1>0, <1>3 DEF Undrawn, NoUpload
<1>18. RecordedSizeIsThere'
  BY <1>0, <1>2, <1>3 DEF RecordedSizeIsThere, NoUpload
<1> QED BY <1>5, <1>10, <1>11, <1>12, <1>13, <1>14, <1>15, <1>16, <1>17, <1>18 DEF OnlyWritesStart

(* A chunk that is sent gets a number no other has.                        *)
LEMMA AppendStep ==
    ASSUME ChunkInv, NEW s \in Uploads, NEW in \in Input, Append1(s, in)
    PROVE  ChunkInv'
<1> USE ChunkAssumption DEF ChunkInv
<1> DEFINE entered == [mode |-> "append", sid |-> s, chunk |-> sent + 1, size |-> session[s].size, next |-> "open"]
<1>0. /\ session[s].live /\ sent < MaxChunks /\ sent' = sent + 1
      /\ before' = [before EXCEPT ![sent + 1] = AllAcked]
      /\ calls' = calls \cup {entered}
      /\ UNCHANGED <<session, temp, bytes, acked, used, unasked>>
  BY DEF Append1, Enter, Loadable
<1>1. ChunkTypeOK
  OBVIOUS
<1>2. sent \in Nat /\ sent + 1 \in Chunk /\ sent' \in 0..MaxChunks
  BY <1>0, <1>1 DEF ChunkTypeOK, Chunk
<1>3. PICK new \in CallState :
        /\ calls' = calls \cup {new}
        /\ new.mode = "append" /\ new.sid = s /\ new.chunk = sent + 1
        /\ new.size = session[s].size /\ new.next = "open"
  <2>1. entered \in CallState
    BY <1>1, <1>2 DEF ChunkTypeOK, CallState, Chunk
  <2> QED BY <1>0, <2>1
<1> HIDE DEF entered
<1>4. \A x \in Uploads : \A i \in DOMAIN bytes[x] : bytes[x][i] \in Chunk /\ bytes[x][i] \in Nat /\ bytes[x][i] <= sent
  BY <1>1 DEF ChunkTypeOK, Chunk, Numbered
<1>5. \A task \in calls : task \in CallState /\ task.chunk \in Nat /\ task.chunk <= sent
  BY <1>1 DEF ChunkTypeOK, CallState, Numbered
<1>6. AllAcked = {c \in Chunk : \E x \in Uploads : \E i \in DOMAIN acked[x] : acked[x][i] = c}
  <2>1. \A x \in Uploads : \A i \in DOMAIN acked[x] : acked[x][i] \in Chunk
    BY <1>1 DEF ChunkTypeOK
  <2> QED BY <2>1 DEF AllAcked, ToSet
<1>7. \A c \in Chunk : before'[c] = IF c = sent + 1 THEN AllAcked ELSE before[c]
  BY <1>0, <1>1 DEF ChunkTypeOK
<1>8. ChunkTypeOK'
  <2>1. before' \in [Chunk -> SUBSET Chunk]
    BY <1>0, <1>1, <1>6 DEF ChunkTypeOK
  <2>2. calls' \subseteq CallState
    BY <1>0, <1>3, <1>5
  <2> QED BY <1>0, <1>1, <1>2, <2>1, <2>2 DEF ChunkTypeOK
<1>9. Numbered'
  <2>1. \A x \in Uploads : \A i \in DOMAIN bytes[x] : bytes[x][i] <= sent + 1
    BY <1>2, <1>4
  <2>2. \A task \in calls' : task.chunk <= sent + 1
    BY <1>0, <1>2, <1>3, <1>5
  <2> QED BY <1>0, <2>1, <2>2 DEF Numbered
<1>10. OnePlaceEach' /\ AckedAreSaved'
  BY <1>0 DEF OnePlaceEach, AckedAreSaved, Saved
<1>11. BeforeIsAcked'
  BY <1>0, <1>6, <1>7 DEF BeforeIsAcked
<1>12. InOrder'
  BY <1>0, <1>2, <1>4, <1>7 DEF InOrder
<1>13. UnderWay'
  <2>1. s \in used
    BY <1>0 DEF Undrawn
  <2>2. Appends(new)'
    <3>1. new.next = "open" /\ new.chunk \in Chunk /\ new.size <= Len(bytes'[new.sid])
      BY <1>0, <1>2, <1>3 DEF RecordedSizeIsThere
    <3>2. \A x \in Uploads : \A i \in DOMAIN bytes'[x] : bytes'[x][i] # new.chunk
      BY <1>0, <1>2, <1>3, <1>4
    <3> QED BY <3>1, <3>2 DEF Appends, Saved
  <2>3. \A task \in calls : Appends(task) => Appends(task)'
    BY <1>0 DEF Appends, Saved
  <2>4. \A task \in calls : task.chunk # new.chunk
    BY <1>2, <1>3, <1>5
  <2>5. \A task \in calls' : task.sid \in used'
    BY <1>0, <1>3, <2>1 DEF UnderWay
  <2>6. \A task \in calls' : IF task.mode = "append" THEN Appends(task)' ELSE task.next \in {"rename", "delete"}
    BY <1>0, <1>3, <2>2, <2>3 DEF UnderWay
  <2>7. \A task, other \in calls' :
          task.mode = "append" /\ other.mode = "append" /\ task.chunk = other.chunk => task = other
    BY <1>3, <2>4 DEF UnderWay
  <2> QED BY <2>5, <2>6, <2>7 DEF UnderWay
<1>14. Undrawn' /\ RecordedSizeIsThere' /\ OnlyWritesStart'
  BY <1>0 DEF Undrawn, RecordedSizeIsThere, OnlyWritesStart
<1> QED BY <1>8, <1>9, <1>10, <1>11, <1>12, <1>13, <1>14

(* The bytes go to the end of the file, where the chunk has its one place. *)
LEMMA WriteStep ==
    ASSUME ChunkInv, NEW task \in calls, AppendWrite(task)
    PROVE  ChunkInv'
<1> USE DEF ChunkInv
<1>0. ChunkTypeOK /\ task \in CallState /\ task.sid \in Uploads /\ task.next = "write"
  BY DEF AppendWrite, ChunkTypeOK, CallState
<1>1. CASE Return(task) /\ UNCHANGED bytes
  <2>1. UNCHANGED <<session, temp, bytes, sent, acked, before, used, unasked>> /\ calls' \subseteq calls
    BY <1>1 DEF AppendWrite, Return
  <2> QED BY <1>0, <2>1, CallsLeft, QuietStep DEF ChunkTypeOK
<1>2. CASE bytes' = [bytes EXCEPT ![task.sid] = Append(@, task.chunk)] /\ Step(task, "save")
  <2> DEFINE s == task.sid
             c == task.chunk
             moved == [task EXCEPT !.next = "save"]
  <2>0. UNCHANGED <<session, temp, sent, acked, before, used, unasked>>
    BY DEF AppendWrite
  <2>1. task.mode = "append" /\ Appends(task) /\ c \in Chunk /\ \A x \in Uploads : ~Saved(c, x)
    BY <1>0 DEF UnderWay, Appends
  <2>2. moved \in CallState /\ moved.next = "save" /\ moved.mode = "append" /\ moved.sid = s
        /\ moved.chunk = c /\ moved.size = task.size /\ task.size \in Nat
    BY <1>0, <2>1 DEF CallState
  <2>3. calls' = (calls \ {task}) \cup {moved}
    BY <1>2 DEF Step
  <2>4. bytes[s] \in Seq(Chunk) /\ Len(bytes[s]) \in Nat /\ DOMAIN bytes[s] = 1..Len(bytes[s])
    BY <1>0 DEF ChunkTypeOK
  <2>5. /\ bytes'[s] \in Seq(Chunk) /\ Len(bytes'[s]) = Len(bytes[s]) + 1
        /\ DOMAIN bytes'[s] = 1..(Len(bytes[s]) + 1)
        /\ \A i \in DOMAIN bytes[s] : bytes'[s][i] = bytes[s][i]
        /\ bytes'[s][Len(bytes[s]) + 1] = c
    BY <1>0, <1>2, <2>1, <2>4 DEF ChunkTypeOK
  <2>6. \A x \in Uploads : x # s => bytes'[x] = bytes[x]
    BY <1>0, <1>2 DEF ChunkTypeOK
  <2>7. bytes' \in [Uploads -> Seq(Chunk)]
    BY <1>0, <1>2, <2>1, <2>4 DEF ChunkTypeOK
  <2> HIDE DEF s, c, moved
  <2>8. s \in Uploads
    BY <1>0 DEF s
  <2>9. \A x \in Uploads : \A d \in Chunk : Saved(d, x)' <=> (Saved(d, x) \/ (x = s /\ d = c))
    <3>1. \A d \in Chunk : Saved(d, s)' <=> (Saved(d, s) \/ d = c)
      BY <2>4, <2>5 DEF Saved
    <3> QED BY <2>6, <3>1 DEF Saved
  <2>10. ChunkTypeOK'
    BY <1>0, <2>0, <2>2, <2>3, <2>7 DEF ChunkTypeOK
  <2>11. Numbered'
    <3>1. task.chunk = c /\ c <= sent
      BY DEF c, Numbered
    <3>2. \A x \in Uploads : \A i \in DOMAIN bytes'[x] : bytes'[x][i] <= sent
      BY <2>4, <2>5, <2>6, <3>1 DEF Numbered
    <3> QED BY <2>0, <2>2, <2>3, <3>1, <3>2 DEF Numbered
  <2>12. OnePlaceEach'
    <3>1. \A x \in Uploads : \A i \in DOMAIN bytes[x] : bytes[x][i] # c
      BY <2>1 DEF Saved
    <3>2. ASSUME NEW x \in Uploads, NEW i \in DOMAIN bytes'[x]
          PROVE  \/ i \in DOMAIN bytes[x] /\ bytes'[x][i] = bytes[x][i]
                 \/ x = s /\ i = Len(bytes[s]) + 1 /\ bytes'[x][i] = c
      <4>1. CASE x = s
        BY <2>4, <2>5, <4>1
      <4>2. CASE x # s
        BY <2>6, <4>2
      <4> QED
        BY <4>1, <4>2
    <3>3. ASSUME NEW x \in Uploads, NEW t \in Uploads, NEW i \in DOMAIN bytes'[x], NEW j \in DOMAIN bytes'[t],
                 bytes'[x][i] = bytes'[t][j]
          PROVE  x = t /\ i = j
      <4>1. CASE i \in DOMAIN bytes[x] /\ bytes'[x][i] = bytes[x][i]
        <5>1. bytes'[t][j] # c
          BY <3>1, <3>3, <4>1
        <5>2. j \in DOMAIN bytes[t] /\ bytes'[t][j] = bytes[t][j]
          BY <3>2, <5>1
        <5>3. bytes[x][i] = bytes[t][j]
          BY <3>3, <4>1, <5>2, Zenon
        <5> QED
          BY <4>1, <5>2, <5>3, Zenon DEF OnePlaceEach
      <4>2. CASE x = s /\ i = Len(bytes[s]) + 1 /\ bytes'[x][i] = c
        <5>1. ~(j \in DOMAIN bytes[t] /\ bytes'[t][j] = bytes[t][j])
          BY <3>1, <3>3, <4>2
        <5> QED
          BY <3>2, <4>2, <5>1
      <4> QED
        BY <3>2, <4>1, <4>2
    <3> QED BY <3>3 DEF OnePlaceEach
  <2>13. AckedAreSaved'
    <3>1. \A x \in Uploads : \A i \in DOMAIN acked[x] : acked[x][i] \in Chunk
      BY <1>0 DEF ChunkTypeOK
    <3> QED BY <2>0, <2>9, <3>1 DEF AckedAreSaved
  <2>14. BeforeIsAcked'
    BY <2>0 DEF BeforeIsAcked
  <2>15. InOrder'
    <3>1. \A d \in Chunk : c \notin before[d]
      BY <2>1 DEF BeforeIsAcked, AckedAreSaved
    <3>2. \A i \in DOMAIN bytes[s] : bytes[s][i] \in Chunk
      BY <2>4
    <3>3. \A i, j \in DOMAIN bytes'[s] : bytes'[s][j] \in before[bytes'[s][i]] => j < i
      <4> SUFFICES ASSUME NEW i \in DOMAIN bytes'[s], NEW j \in DOMAIN bytes'[s],
                          bytes'[s][j] \in before[bytes'[s][i]]
                   PROVE  j < i
        OBVIOUS
      <4>1. bytes'[s][i] \in Chunk
        BY <2>5
      <4>2. j \in DOMAIN bytes[s]
        BY <2>4, <2>5, <3>1, <4>1
      <4>3. CASE i \in DOMAIN bytes[s]
        BY <2>5, <2>8, <4>2, <4>3 DEF InOrder
      <4>4. CASE i \notin DOMAIN bytes[s]
        BY <2>4, <2>5, <4>2, <4>4
      <4> QED BY <4>3, <4>4
    <3> QED BY <2>0, <2>6, <3>3 DEF InOrder
  <2>16. UnderWay'
    <3>1. Appends(moved)'
      BY <2>1, <2>2, <2>4, <2>5, <2>8, <2>9 DEF Appends, s
    <3>2. \A other \in calls : other # task /\ other.mode = "append" => other.chunk # c
      BY <2>1 DEF UnderWay, c
    <3>3. \A other \in calls : other \in CallState /\ other.sid \in Uploads /\ other.size \in Nat
      BY <1>0 DEF ChunkTypeOK, CallState
    <3>4. \A x \in Uploads : Len(bytes[x]) \in Nat /\ Len(bytes'[x]) \in Nat /\ Len(bytes[x]) <= Len(bytes'[x])
      <4>1. \A x \in Uploads : bytes[x] \in Seq(Chunk)
        BY <1>0 DEF ChunkTypeOK
      <4>2. \A x \in Uploads : Len(bytes[x]) \in Nat
        BY <4>1
      <4> QED BY <2>4, <2>5, <2>6, <4>2
    <3>5. \A other \in calls : other # task /\ other.mode = "append" => Appends(other)'
      <4> SUFFICES ASSUME NEW other \in calls, other # task, other.mode = "append" PROVE Appends(other)'
        OBVIOUS
      <4>1. Appends(other) /\ other.chunk # c /\ other.chunk \in Chunk
        BY <3>2 DEF UnderWay, Appends
      <4>2. Len(bytes[other.sid]) \in Nat /\ Len(bytes'[other.sid]) \in Nat
            /\ Len(bytes[other.sid]) <= Len(bytes'[other.sid]) /\ other.size \in Nat
        BY <3>3, <3>4
      <4>3. \A x \in Uploads : Saved(other.chunk, x)' <=> Saved(other.chunk, x)
        BY <2>9, <4>1
      <4> QED BY <3>3, <4>1, <4>2, <4>3 DEF Appends
    <3>6. \A d, e \in calls' : d.mode = "append" /\ e.mode = "append" /\ d.chunk = e.chunk => d = e
      BY <2>2, <2>3, <3>2 DEF UnderWay
    <3> QED BY <2>0, <2>2, <2>3, <3>1, <3>5, <3>6 DEF UnderWay, s
  <2>17. Undrawn'
    <3>1. s \in used
      BY DEF UnderWay, s
    <3> QED BY <2>0, <2>6, <3>1 DEF Undrawn
  <2>18. RecordedSizeIsThere'
    <3>1. \A x \in Uploads : session[x].size \in Nat /\ Len(bytes[x]) \in Nat
      BY <1>0 DEF ChunkTypeOK
    <3> QED BY <2>0, <2>5, <2>6, <3>1 DEF RecordedSizeIsThere
  <2> QED BY <2>0, <2>10, <2>11, <2>12, <2>13, <2>14, <2>15, <2>16, <2>17, <2>18 DEF OnlyWritesStart
<1> QED BY <1>1, <1>2 DEF AppendWrite

(* What is acknowledged is in the file.                                    *)
LEMMA SaveStep ==
    ASSUME ChunkInv, NEW task \in calls, AppendSave(task)
    PROVE  ChunkInv'
<1> USE DEF ChunkInv
<1>0. ChunkTypeOK /\ task \in CallState /\ task.sid \in Uploads /\ task.next = "save" /\ task.size \in Nat
  BY DEF AppendSave, ChunkTypeOK, CallState
<1>1. UNCHANGED <<temp, bytes, sent, before, used, unasked>> /\ calls' \subseteq calls
  BY DEF AppendSave, Return
<1>2. CASE UNCHANGED <<session, acked>>
  BY <1>0, <1>1, <1>2, CallsLeft, QuietStep DEF ChunkTypeOK
<1>3. CASE /\ session' = [session EXCEPT ![task.sid] = [live |-> TRUE, fresh |-> TRUE, size |-> task.size + 1]]
           /\ acked' = [acked EXCEPT ![task.sid] = Append(@, task.chunk)]
  <2> DEFINE s == task.sid
  <2>1. Appends(task) /\ task.chunk \in Chunk /\ Saved(task.chunk, s) /\ task.size + 1 <= Len(bytes[s])
    BY <1>0 DEF UnderWay, Appends
  <2>2. \A x \in Uploads : x # s => acked'[x] = acked[x] /\ session'[x] = session[x]
    BY <1>0, <1>3 DEF ChunkTypeOK
  <2>3. acked[s] \in Seq(Chunk)
    BY <1>0 DEF ChunkTypeOK
  <2>4. acked'[s] = Append(acked[s], task.chunk) /\ session'[s] = [live |-> TRUE, fresh |-> TRUE, size |-> task.size + 1]
    BY <1>0, <1>3 DEF ChunkTypeOK
  <2>5. /\ \A i \in DOMAIN acked[s] : i \in DOMAIN acked'[s] /\ acked'[s][i] = acked[s][i]
        /\ \A i \in DOMAIN acked'[s] : acked'[s][i] = task.chunk \/ (i \in DOMAIN acked[s] /\ acked'[s][i] = acked[s][i])
    BY <2>1, <2>3, <2>4
  <2>6. ChunkTypeOK'
    <3>1. session' \in [Uploads -> [live : BOOLEAN, fresh : BOOLEAN, size : Nat]]
      BY <1>0, <1>3 DEF ChunkTypeOK
    <3>2. acked' \in [Uploads -> Seq(Chunk)]
      BY <1>0, <1>3, <2>1 DEF ChunkTypeOK
    <3> QED BY <1>0, <1>1, <3>1, <3>2 DEF ChunkTypeOK
  <2> HIDE DEF s
  <2>7. Numbered' /\ OnePlaceEach' /\ InOrder'
    BY <1>1 DEF Numbered, OnePlaceEach, InOrder
  <2>8. AckedAreSaved'
    <3>1. \A x \in Uploads : \A d \in Chunk : Saved(d, x)' <=> Saved(d, x)
      BY <1>1 DEF Saved
    <3>2. \A x \in Uploads : \A i \in DOMAIN acked'[x] : Saved(acked'[x][i], x)
      BY <2>1, <2>2, <2>5 DEF AckedAreSaved
    <3> QED BY <1>1, <3>2 DEF AckedAreSaved, Saved
  <2>9. BeforeIsAcked'
    BY <1>1, <2>2, <2>5 DEF BeforeIsAcked
  <2>10. UnderWay'
    BY <1>1, CallsLeft
  <2>11. Undrawn'
    <3>1. s \in used
      BY DEF UnderWay, s
    <3> QED BY <1>1, <2>2, <3>1 DEF Undrawn
  <2>12. RecordedSizeIsThere'
    BY <1>1, <2>1, <2>2, <2>4 DEF RecordedSizeIsThere
  <2> QED BY <1>1, <2>6, <2>7, <2>8, <2>9, <2>10, <2>11, <2>12 DEF OnlyWritesStart
<1> QED BY <1>2, <1>3 DEF AppendSave

(* A finish that enters moves no bytes and sends none.                     *)
LEMMA FinishStep ==
    ASSUME ChunkInv, NEW s \in Uploads, NEW in \in Input, Finish1(s, in)
    PROVE  ChunkInv'
<1> DEFINE new == [mode |-> "finish", sid |-> s, chunk |-> 0, size |-> session[s].size, next |-> "rename"]
<1>1. /\ session[s].live /\ calls' = calls \cup {new}
      /\ UNCHANGED <<session, temp, bytes, sent, acked, before, used, unasked>>
  BY DEF Finish1, Enter, Loadable
<1>2. ChunkTypeOK /\ sent \in Nat
  BY DEF ChunkInv, ChunkTypeOK
<1>3. new \in CallState /\ new.mode = "finish" /\ new.sid = s /\ new.chunk = 0 /\ new.next = "rename"
  BY <1>2, ChunkAssumption DEF ChunkTypeOK, CallState
<1> HIDE DEF new
<1>4. calls' \subseteq CallState /\ \A task \in calls' : task.chunk <= sent
  BY <1>1, <1>2, <1>3 DEF ChunkInv, ChunkTypeOK, Numbered
<1>5. UnderWay'
  <2>1. s \in used
    BY <1>1 DEF ChunkInv, Undrawn
  <2>2. \A task \in calls : Appends(task) => Appends(task)'
    BY <1>1 DEF Appends, Saved
  <2> QED BY <1>1, <1>3, <2>1, <2>2 DEF ChunkInv, UnderWay
<1> QED BY <1>1, <1>2, <1>4, <1>5, QuietStep DEF ChunkTypeOK

(* A session that is forgotten leaves the bytes where they are.            *)
LEMMA ForgetStep ==
    ASSUME ChunkInv, NEW s \in Uploads, ForgetSessions({s}),
           UNCHANGED <<bytes, calls, sent, acked, before, used, unasked>>
    PROVE  ChunkInv'
<1>1. ChunkTypeOK
  BY DEF ChunkInv
<1>2. /\ session' \in [Uploads -> [live : BOOLEAN, fresh : BOOLEAN, size : Nat]]
      /\ temp' \in [Uploads -> {"none", "temp", "target"}]
      /\ \A x \in Uploads : session'[x].live => session[x].live /\ session'[x].size = session[x].size
  BY <1>1 DEF ForgetSessions, ChunkTypeOK, NoUpload
<1> QED BY <1>2, CallsLeft, QuietStep

(* Every step keeps the invariant.                                         *)
LEMMA ChunkStep == ChunkInv /\ [ChunkNext]_chunkVars => ChunkInv'
<1> SUFFICES ASSUME ChunkInv, [ChunkNext]_chunkVars PROVE ChunkInv'
  OBVIOUS
<1>0. /\ ChunkTypeOK /\ session \in [Uploads -> [live : BOOLEAN, fresh : BOOLEAN, size : Nat]]
      /\ temp \in [Uploads -> {"none", "temp", "target"}] /\ calls \subseteq CallState
  BY DEF ChunkInv, ChunkTypeOK
<1>1. ASSUME NEW s \in Uploads, NEW in \in Input, AbortSession(s, in) PROVE ChunkInv'
  BY <1>1, ForgetStep DEF AbortSession
<1>2. ASSUME NEW s \in Uploads, LoadExpired(s) PROVE ChunkInv'
  BY <1>2, ForgetStep DEF LoadExpired
<1>3. ASSUME NEW task \in calls, AppendOpen(task) PROVE ChunkInv'
  <2>1. /\ task.next = "open" /\ (Step(task, "write") \/ Return(task))
        /\ UNCHANGED <<session, temp, bytes, sent, acked, before, used, unasked>>
    BY <1>3 DEF AppendOpen
  <2>2. task.mode = "append"
    BY <2>1 DEF ChunkInv, UnderWay
  <2>3. CASE Step(task, "write")
    BY <1>0, <2>1, <2>2, <2>3, CallSteps, QuietStep
  <2>4. CASE Return(task)
    BY <1>0, <2>1, <2>4, CallsLeft, QuietStep DEF Return
  <2> QED BY <2>1, <2>3, <2>4
<1>4. ASSUME NEW task \in calls, FinishRename(task) PROVE ChunkInv'
  <2>1. task.next = "rename" /\ UNCHANGED <<session, bytes, sent, acked, before, used, unasked>>
    BY <1>4 DEF FinishRename
  <2>2. task.mode # "append" /\ task.sid \in Uploads
    BY <1>0, <2>1 DEF ChunkInv, UnderWay, Appends, CallState
  <2>3. CASE temp' = [temp EXCEPT ![task.sid] = "target"] /\ Step(task, "delete")
    <3>1. temp' \in [Uploads -> {"none", "temp", "target"}]
      BY <1>0, <2>3
    <3> QED BY <1>0, <2>1, <2>2, <2>3, <3>1, CallSteps, QuietStep
  <2>4. CASE Return(task) /\ UNCHANGED temp
    BY <1>0, <2>1, <2>4, CallsLeft, QuietStep DEF Return
  <2> QED BY <1>4, <2>3, <2>4 DEF FinishRename
<1>5. ASSUME NEW task \in calls, FinishDelete(task) PROVE ChunkInv'
  <2>1. calls' \subseteq calls /\ UNCHANGED <<temp, bytes, sent, acked, before, used, unasked>>
        /\ session' = [session EXCEPT ![task.sid] = NoUpload]
    BY <1>5 DEF FinishDelete, Return
  <2>2. session' \in [Uploads -> [live : BOOLEAN, fresh : BOOLEAN, size : Nat]]
        /\ \A x \in Uploads : session'[x].live => session[x].live /\ session'[x].size = session[x].size
    BY <1>0, <2>1 DEF NoUpload
  <2> QED BY <1>0, <2>1, <2>2, CallsLeft, QuietStep
<1>6. ASSUME NEW s \in Uploads, ExpireSession(s) PROVE ChunkInv'
  <2>1. UNCHANGED <<temp, bytes, calls, sent, acked, before, used, unasked>>
        /\ session' = [session EXCEPT ![s].fresh = FALSE]
    BY <1>6 DEF ExpireSession
  <2>2. session' \in [Uploads -> [live : BOOLEAN, fresh : BOOLEAN, size : Nat]]
        /\ \A x \in Uploads : session'[x].live => session[x].live /\ session'[x].size = session[x].size
    BY <1>0, <2>1
  <2> QED BY <1>0, <2>1, <2>2, CallsLeft, QuietStep
<1>7. CASE Break
  BY <1>0, <1>7, CallsLeft, QuietStep DEF Break
<1>8. CASE UNCHANGED chunkVars
  BY <1>0, <1>8, CallsLeft, QuietStep DEF chunkVars
<1> QED BY <1>1, <1>2, <1>3, <1>4, <1>5, <1>6, <1>7, <1>8, StartStep, AppendStep, WriteStep, SaveStep, FinishStep
        DEF ChunkNext

\* One place is what AckedChunksAreSaved counts.
LEMMA InvSaves == ChunkInv => ChunksAreKept
<1> SUFFICES ASSUME ChunkInv PROVE ChunksAreKept
  OBVIOUS
<1> USE DEF ChunkInv
<1>1. ASSUME NEW s \in Uploads, NEW c \in ToSet(acked[s])
      PROVE  /\ Cardinality({i \in DOMAIN bytes[s] : bytes[s][i] = c}) = 1
             /\ \A i, j \in DOMAIN bytes[s] : bytes[s][i] = c /\ bytes[s][j] \in before[c] => j < i
  <2>1. PICK k \in DOMAIN bytes[s] : bytes[s][k] = c
    BY <1>1 DEF AckedAreSaved, Saved, ToSet
  <2>2. {i \in DOMAIN bytes[s] : bytes[s][i] = c} = {k}
    BY <2>1 DEF OnePlaceEach
  <2> QED BY <2>2, FS_Singleton DEF InOrder
<1> QED BY <1>1 DEF ChunksAreKept, AckedChunksAreSaved

(* chunked_write: a chunk whose call reported success is in the file once, *)
(* behind every chunk acknowledged before it was sent; a session never     *)
(* records more than the file has; and only a call that was derived as a   *)
(* write starts one. For any number of uploads, chunks and calls in        *)
(* flight.                                                                 *)
THEOREM ChunksKept == ChunkSpec => []ChunksAreKept
BY InitChunks, ChunkStep, InvSaves, PTL DEF ChunkSpec


-----------------------------------------------------------------------------
(***************************************************************************)
(* The tracker and the completion gate, for any files, commands and calls  *)
(* at the same time.  Contents are numbered as they are written, so what   *)
(* was there before a write is known by its number.  The gate's promise    *)
(* rests on what every call owes: a change is owed by its call, or told by *)
(* an event that only runs which have read it, or missed it, come behind.  *)
(***************************************************************************)
GateStages == {"rest", "capture", "snapped", "written", "status", "tracked"}

EventRow == [kind : {"event"}, file : Files, ok : BOOLEAN]
RunRow ==
    [kind : {"run"}, command : Commands, passed : BOOLEAN, diags : SUBSET Found,
     checked : [Files -> Nat], missed : SUBSET Files]
GateRow == EventRow \cup RunRow

GateCall ==
    [pc : GateStages, listed : SUBSET Files, below : SUBSET Files, added : SUBSET Files,
     todo : SUBSET Files, file : Files \cup {None}, before : [Files -> Nat],
     dirty : SUBSET Files, rewritten : SUBSET Files, command : Commands \cup {None},
     checked : [Files -> Nat], ok : BOOLEAN, owes : SUBSET Files]

GateTyped ==
    /\ disk \in [Files -> Nat] /\ head \in [Files -> Nat] /\ contents \in Nat
    /\ DOMAIN baseline = Files /\ made \in [Files -> SUBSET (Nat \ {Elsewhere})]
    /\ log \in Seq(GateRow) /\ call \in [Slots -> GateCall]
    /\ untold \in SUBSET Files /\ blurred \in SUBSET Files

\* What is written next is newer than everything that was seen.
NewestContent ==
    \A f \in Files :
        /\ disk[f] <= contents /\ head[f] <= contents
        /\ \A c \in Nat : baseline[f] = <<c>> => c <= contents

\* The first content of a file can still be known.
Open(f) == baseline[f] = <<>> /\ f \notin blurred

\* What a call has captured while the first content can still be known is not the
\* agent's, what it has captured has a baseline, and at rest it owes nothing.
GoodCall(c) ==
    /\ \A f \in Files : c.before[f] <= contents
    /\ c.pc = "snapped" =>
        c.file \in Files /\ (Open(c.file) => c.before[c.file] \notin made[c.file])
    /\ c.pc = "status" => \A f \in c.dirty : Open(f) => c.before[f] \notin made[f]
    /\ c.pc \in {"capture", "snapped"} =>
        \A f \in (c.listed \cup c.below) \ c.todo : baseline[f] # <<>>
    /\ c.pc = "written" => \A f \in c.todo \ c.added : baseline[f] # <<>>
    /\ c.pc \in {"status", "tracked"} => c.command \in Commands
    /\ c.pc = "rest" => c.owes = {}

CallsAreGood == \A s \in Slots : GoodCall(call[s])

\* While the first content can still be known, what the agent has made is owed by a call
\* and not what HEAD has.
Owed(f) == \E s \in Slots : f \in call[s].owes
MadeIsOwed == \A f \in Files : Open(f) => head[f] \notin made[f] /\ (made[f] # {} => Owed(f))

\* What nobody owes is untouched, or told by an event that every later run covers.
EventAt(e, f) == log[e].kind = "event" /\ log[e].ok /\ log[e].file = f
ToldOf(f) ==
    \E e \in DOMAIN log :
        EventAt(e, f) /\ \A i \in DOMAIN log : i > e /\ log[i].kind = "run" => Covers(i, f)
Untouched(f) == made[f] = {} /\ disk[f] = AsFound

ChangesAreTold == \A f \in Files \ untold : Owed(f) \/ Untouched(f) \/ ToldOf(f)

\* After the final answer no call is under way.
EndedAtRest == final # None => \A s \in Slots : ~InFlight(s)

GateInv ==
    /\ GateTyped /\ NewestContent /\ CallsAreGood /\ MadeIsOwed /\ ChangesAreTold /\ EndedAtRest
    /\ ChangesAreAccountedFor

\* The newest row of a set of rows.
LEMMA NewestRow ==
    ASSUME NEW n \in Nat, NEW S \in SUBSET (1..n), S # {}
    PROVE  Max(S) \in S /\ \A i \in S : i <= Max(S)
<1> DEFINE T == {n - i : i \in S}
<1>1. T \in SUBSET Nat /\ T # {}
  <2>1. \A i \in S : i \in Nat /\ i <= n /\ n - i \in Nat
    OBVIOUS
  <2>2. T \in SUBSET Nat
    BY <2>1, Zenon
  <2> QED
    BY <2>2, Zenon
<1> HIDE DEF T
<1>2. PICK x \in T : \A y \in T : <<y, x>> \notin OpToRel(<, Nat)
  BY <1>1, WFMin, NatLessThanWellFounded, Zenon
<1>3. \A y \in T : ~(y < x)
  BY <1>1, <1>2, Zenon DEF OpToRel
<1>4. PICK m \in S : x = n - m
  BY DEF T
<1>5. ASSUME NEW i \in S PROVE i <= m
  <2>1. n - i \in T /\ i \in Nat /\ m \in Nat
    BY DEF T
  <2>2. ~(n - i < n - m)
    BY <1>3, <1>4, <2>1
  <2> QED
    BY <2>1, <2>2
<1>6. \E a \in S : \A b \in S : a >= b
  BY <1>5
<1>7. Max(S) \in S /\ \A b \in S : Max(S) >= b
  BY <1>6 DEF Max
<1> QED
  BY <1>7

\* The log after a row was inserted.
LEMMA LogInsert ==
    ASSUME log \in Seq(GateRow), NEW row \in GateRow, log' = Insert(row)
    PROVE  /\ Len(log) \in Nat /\ DOMAIN log = 1..Len(log) /\ DOMAIN log' = 1..(Len(log) + 1)
           /\ log' \in Seq(GateRow) /\ log'[Len(log) + 1] = row
           /\ \A i \in DOMAIN log : log'[i] = log[i]
  BY AppendProperties, LenProperties DEF Insert

\* A sequence put behind another one.
LEMMA Joined ==
    ASSUME NEW R, NEW p \in Seq(R), NEW q \in Seq(R)
    PROVE  /\ p \o q \in Seq(R) /\ Len(p) \in Nat /\ DOMAIN p = 1..Len(p)
           /\ DOMAIN p \subseteq DOMAIN (p \o q) /\ \A i \in DOMAIN p : (p \o q)[i] = p[i]
           /\ \A i \in DOMAIN (p \o q) \ DOMAIN p :
                (\E j \in DOMAIN q : (p \o q)[i] = q[j]) /\ \A k \in DOMAIN p : k < i
           /\ \A j \in DOMAIN q : \E i \in DOMAIN (p \o q) \ DOMAIN p : (p \o q)[i] = q[j]
<1> DEFINE r == p \o q
           m == Len(p)
           n == Len(q)
<1>1. m \in Nat /\ n \in Nat /\ DOMAIN p = 1..m /\ DOMAIN q = 1..n
  BY LenProperties
<1>2. /\ r \in Seq(R) /\ Len(r) = m + n
      /\ \A i \in 1..(m + n) : r[i] = IF i <= m THEN p[i] ELSE q[i - m]
  BY ConcatProperties
<1>3. DOMAIN r = 1..(m + n)
  BY <1>2, LenProperties
<1> HIDE DEF r, m, n
<1>4. DOMAIN p \subseteq DOMAIN r /\ \A i \in DOMAIN p : r[i] = p[i]
  BY <1>1, <1>2, <1>3
<1>5. ASSUME NEW i \in DOMAIN r \ DOMAIN p
      PROVE  (\E j \in DOMAIN q : r[i] = q[j]) /\ \A k \in DOMAIN p : k < i
  <2>1. i \in 1..(m + n) /\ ~(i <= m) /\ i - m \in DOMAIN q
    BY <1>1, <1>3
  <2> QED
    BY <1>1, <1>2, <2>1
<1>6. ASSUME NEW j \in DOMAIN q PROVE \E i \in DOMAIN r \ DOMAIN p : r[i] = q[j]
  <2>1. m + j \in DOMAIN r \ DOMAIN p /\ r[m + j] = q[j]
    <3>1. j \in Nat /\ j >= 1 /\ j <= n /\ m + j \in 1..(m + n) /\ ~(m + j <= m) /\ (m + j) - m = j
      BY <1>1
    <3> QED
      BY <1>1, <1>2, <1>3, <3>1
  <2> QED
    BY <2>1
<1> QED
  BY <1>1, <1>2, <1>4, <1>5, <1>6 DEF r, m

\* The log after the events of a command, one for every file that has changed.
LEMMA LogTracked ==
    ASSUME log \in Seq(GateRow), NEW S \in SUBSET Files, NEW ok \in BOOLEAN, NEW s, S = ChangedBy(s),
           TrackCommand(s, ok)
    PROVE  /\ log' \in Seq(GateRow) /\ DOMAIN log \subseteq DOMAIN log'
           /\ \A i \in DOMAIN log : log'[i] = log[i]
           /\ \A i \in DOMAIN log' \ DOMAIN log : log'[i].kind = "event" /\ \A k \in DOMAIN log : k < i
           /\ \A f \in S : \E i \in DOMAIN log' \ DOMAIN log : log'[i] = Event(f, ok)
<1>0. PICK order \in SetToSeqs(S) : log' = log \o [i \in DOMAIN order |-> Event(order[i], ok)]
  BY DEF TrackCommand
<1> DEFINE q == [i \in DOMAIN order |-> Event(order[i], ok)]
           n == Cardinality(S)
<1>1. IsFiniteSet(S) /\ n \in Nat
  BY FS_Subset, FS_CardinalityType, GateAssumption
<1>2. order \in [1..n -> S] /\ \A i, j \in 1..n : i # j => order[i] # order[j]
  BY DEF SetToSeqs
<1>3. \A f \in S : \E j \in 1..n : order[j] = f
  <2>1. order \in Injection(1..n, S)
    BY <1>2 DEF Injection, IsInjective
  <2>2. Cardinality(1..n) = Cardinality(S)
    BY <1>1, FS_Interval
  <2>3. order \in Surjection(1..n, S)
    BY <1>1, <2>1, <2>2, FS_Injection
  <2> QED
    BY <2>3 DEF Surjection
<1>4. DOMAIN q = 1..n /\ \A j \in 1..n : q[j] = Event(order[j], ok) /\ q[j] \in GateRow /\ q[j].kind = "event"
  <2>1. DOMAIN order = 1..n /\ \A j \in 1..n : order[j] \in Files
    BY <1>2
  <2>2. \A f \in Files : Event(f, ok) \in GateRow /\ Event(f, ok).kind = "event"
    BY DEF Event, GateRow, EventRow
  <2> QED
    BY <2>1, <2>2
<1>5. q \in Seq(GateRow)
  <2>1. q \in [1..n -> GateRow]
    <3>1. q = [j \in 1..n |-> q[j]]
      BY <1>2
    <3> HIDE DEF q, n, GateRow
    <3> QED
      BY <1>4, <3>1
  <2> HIDE DEF q, n, GateRow
  <2> QED
    BY <1>1, <2>1, SeqDef
<1> HIDE DEF q, n
<1>6. /\ log \o q \in Seq(GateRow) /\ DOMAIN log \subseteq DOMAIN (log \o q)
      /\ \A i \in DOMAIN log : (log \o q)[i] = log[i]
      /\ \A i \in DOMAIN (log \o q) \ DOMAIN log :
           (\E j \in DOMAIN q : (log \o q)[i] = q[j]) /\ \A k \in DOMAIN log : k < i
      /\ \A j \in DOMAIN q : \E i \in DOMAIN (log \o q) \ DOMAIN log : (log \o q)[i] = q[j]
  BY <1>5, Joined
<1>7. log' = log \o q
  BY <1>0 DEF q
<1>8. ASSUME NEW i \in DOMAIN log' \ DOMAIN log
      PROVE  log'[i].kind = "event" /\ \A k \in DOMAIN log : k < i
  <2>1. PICK j \in DOMAIN q : log'[i] = q[j]
    BY <1>6, <1>7, Zenon
  <2> QED
    BY <1>4, <1>6, <1>7, <2>1, Zenon
<1>9. ASSUME NEW f \in S PROVE \E i \in DOMAIN log' \ DOMAIN log : log'[i] = Event(f, ok)
  <2>1. PICK j \in DOMAIN q : q[j] = Event(f, ok)
    BY <1>3, <1>4, Zenon
  <2> QED
    BY <1>6, <1>7, <2>1, Zenon
<1> QED
  BY <1>6, <1>7, <1>8, <1>9, Zenon

\* What the step lemmas take from the invariant.
LEMMA GateFacts ==
    ASSUME GateInv
    PROVE  /\ GateTyped /\ NewestContent /\ CallsAreGood /\ MadeIsOwed /\ ChangesAreTold /\ EndedAtRest
           /\ BaselineIsNotTheAgents /\ FailuresAreTold
           /\ contents \in Nat /\ DOMAIN log = 1..Len(log) /\ Len(log) \in Nat
  BY LenProperties DEF GateInv, GateTyped, ChangesAreAccountedFor

\* A good call stays good while baselines are made and newer contents are written.
LEMMA GoodStays ==
    ASSUME GateTyped, NEW c \in GateCall, GoodCall(c), contents' \in Nat, contents <= contents',
           \A f \in Files : baseline[f] # <<>> => baseline'[f] # <<>>,
           blurred \subseteq blurred',
           \A f \in Files : made'[f] \subseteq made[f] \cup {contents + 1}
    PROVE  GoodCall(c)'
<1>1. contents \in Nat /\ c.before \in [Files -> Nat]
  BY DEF GateTyped, GateCall
<1>2. \A f \in Files : c.before[f] <= contents' /\ c.before[f] # contents + 1
  BY <1>1 DEF GoodCall
<1>3. \A f \in Files : Open(f)' => Open(f)
  BY DEF Open
<1>4. \A f \in Files : Open(f)' /\ (Open(f) => c.before[f] \notin made[f]) => c.before[f] \notin made'[f]
  BY <1>2, <1>3
<1>5. c.dirty \in SUBSET Files /\ (c.listed \cup c.below) \ c.todo \in SUBSET Files
      /\ c.todo \ c.added \in SUBSET Files
  BY DEF GateCall
<1>6. c.pc = "snapped" => c.file \in Files /\ (Open(c.file)' => c.before[c.file] \notin made'[c.file])
  BY <1>4 DEF GoodCall
<1>7. c.pc = "status" => \A f \in c.dirty : Open(f)' => c.before[f] \notin made'[f]
  BY <1>4, <1>5 DEF GoodCall
<1> QED
  BY <1>2, <1>5, <1>6, <1>7 DEF GoodCall

\* While a call is under way or begins there is no final answer.
LEMMA GateGoesOn ==
    ASSUME GateInv, GateTyped', NewestContent', CallsAreGood', MadeIsOwed', ChangesAreTold',
           BaselineIsNotTheAgents', FailuresAreTold', final' = final,
           NEW s \in Slots, InFlight(s) \/ final = None
    PROVE  GateInv'
<1>1. final' = None /\ None # "passed"
  BY DEF GateInv, EndedAtRest, None
<1>2. EndedAtRest' /\ PassedMeansChecked'
  BY <1>1 DEF EndedAtRest, PassedMeansChecked
<1> QED
  BY <1>2 DEF GateInv, ChangesAreAccountedFor

\* A step of a call that leaves the workspace: it may make baselines of old contents,
\* add events and covering runs to the log, and get rid of what it owes by an event of it
\* or by leaving it untold.
LEMMA GateMoves ==
    ASSUME GateInv, NEW s \in Slots, NEW r \in GateCall, Goes(s, r), InFlight(s) \/ final = None,
           UNCHANGED <<disk, head, contents, made, final>>,
           DOMAIN baseline' = Files, untold' \in SUBSET Files, blurred' \in SUBSET Files,
           blurred \subseteq blurred',
           \A f \in Files :
               \/ baseline'[f] = baseline[f]
               \/ /\ baseline[f] = <<>>
                  /\ \E c \in Nat : baseline'[f] = <<c>> /\ c <= contents /\ (Open(f) => c \notin made[f]),
           log' \in Seq(GateRow), DOMAIN log \subseteq DOMAIN log',
           \A i \in DOMAIN log : log'[i] = log[i],
           \A i \in DOMAIN log' \ DOMAIN log : \A k \in DOMAIN log : k < i,
           \A i \in DOMAIN log' \ DOMAIN log :
               \/ log'[i].kind = "event"
               \/ (~log'[i].passed => log'[i].diags # {}) /\ \A f \in Files : Covers(i, f)',
           \A f \in Files \ untold' :
               \/ f \notin untold /\ (f \in call[s].owes => f \in r.owes)
               \/ \E e \in DOMAIN log' \ DOMAIN log : EventAt(e, f)',
           \A f \in call[s].owes : f \in r.owes \/ baseline'[f] # <<>> \/ f \in blurred',
           GoodCall(r)'
    PROVE  GateInv'
<1> USE GateFacts
<1>1. /\ call' \in [Slots -> GateCall] /\ call'[s] = r /\ \A t \in Slots : t # s => call'[t] = call[t]
  BY DEF GateTyped, Goes
<1>2. GateTyped'
  BY <1>1 DEF GateTyped
<1>3. \A f \in Files : Open(f)' => Open(f) /\ baseline'[f] = baseline[f]
  <2> SUFFICES ASSUME NEW f \in Files, Open(f)' PROVE Open(f) /\ baseline'[f] = baseline[f]
    OBVIOUS
  <2>1. baseline'[f] = <<>> /\ f \notin blurred
    BY DEF Open
  <2>2. \A c \in Nat : <<c>> # <<>>
    OBVIOUS
  <2> QED
    BY <2>1, <2>2 DEF Open
<1>4. NewestContent'
  <2> SUFFICES ASSUME NEW f \in Files, NEW c \in Nat, baseline'[f] = <<c>> PROVE c <= contents
    BY DEF NewestContent
  <2>1. CASE baseline'[f] = baseline[f]
    BY <2>1 DEF NewestContent
  <2>2. ASSUME NEW d \in Nat, baseline'[f] = <<d>>, d <= contents PROVE c <= contents
    <3>1. c = d
      BY <2>2
    <3> QED
      BY <2>2, <3>1
  <2> QED
    BY <2>1, <2>2
<1>5. CallsAreGood'
  <2> SUFFICES ASSUME NEW t \in Slots, t # s, NEW c \in GateCall, c = call[t] PROVE GoodCall(c)'
    BY <1>1 DEF CallsAreGood, GateTyped
  <2>1. GoodCall(c)
    BY DEF CallsAreGood
  <2>2. \A f \in Files : baseline[f] # <<>> => baseline'[f] # <<>>
    OBVIOUS
  <2>3. contents' = contents /\ contents \in Nat /\ contents <= contents
    BY DEF GateTyped
  <2> QED
    BY <2>1, <2>2, <2>3, GoodStays
<1>6. MadeIsOwed'
  <2> SUFFICES ASSUME NEW f \in Files, Open(f)' PROVE head[f] \notin made[f] /\ (made[f] # {} => Owed(f)')
    BY DEF MadeIsOwed
  <2>1. Open(f) /\ head[f] \notin made[f] /\ (made[f] # {} => Owed(f))
    BY <1>3 DEF MadeIsOwed
  <2>2. ASSUME NEW t \in Slots, f \in call[t].owes PROVE f \in call'[t].owes
    BY <1>1, <2>2 DEF Open
  <2> QED
    BY <2>1, <2>2 DEF Owed
<1>7. ChangesAreTold'
  <2> SUFFICES ASSUME NEW f \in Files \ untold' PROVE Owed(f)' \/ Untouched(f)' \/ ToldOf(f)'
    BY DEF ChangesAreTold
  <2>1. CASE f \notin untold /\ (f \in call[s].owes => f \in r.owes)
    <3>1. Owed(f) => Owed(f)'
      BY <1>1, <2>1 DEF Owed
    <3>2. Untouched(f) => Untouched(f)'
      BY DEF Untouched
    <3>3. ASSUME ToldOf(f) PROVE ToldOf(f)'
      <4>1. PICK e \in DOMAIN log : EventAt(e, f) /\ \A i \in DOMAIN log : i > e /\ log[i].kind = "run" => Covers(i, f)
        BY <3>3 DEF ToldOf
      <4>2. e \in DOMAIN log' /\ EventAt(e, f)'
        BY <4>1 DEF EventAt
      <4>3. ASSUME NEW i \in DOMAIN log', i > e, log'[i].kind = "run" PROVE Covers(i, f)'
        <5>1. CASE i \in DOMAIN log
          <6>1. Covers(i, f) /\ log'[i] = log[i]
            BY <4>1, <4>3, <5>1
          <6> QED
            BY <6>1 DEF Covers
        <5>2. CASE i \notin DOMAIN log
          BY <4>3, <5>2
        <5> QED
          BY <5>1, <5>2
      <4> QED
        BY <4>2, <4>3 DEF ToldOf
    <3> QED
      BY <2>1, <3>1, <3>2, <3>3 DEF ChangesAreTold
  <2>2. ASSUME NEW e \in DOMAIN log' \ DOMAIN log, EventAt(e, f)' PROVE ToldOf(f)'
    <3>0. DOMAIN log' = 1..Len(log') /\ Len(log') \in Nat
      BY LenProperties
    <3>1. ASSUME NEW i \in DOMAIN log', i > e, log'[i].kind = "run" PROVE Covers(i, f)'
      <4>1. i \notin DOMAIN log
        <5>1. i \in DOMAIN log => i < e
          OBVIOUS
        <5> QED
          BY <3>0, <3>1, <5>1
      <4> QED
        BY <3>1, <4>1
    <3> QED
      BY <2>2, <3>1 DEF ToldOf
  <2> QED
    BY <2>1, <2>2
<1>8. BaselineIsNotTheAgents'
  <2> SUFFICES ASSUME NEW f \in Files, f \notin blurred', NEW c \in made[f], baseline'[f] = <<c>> PROVE FALSE
    BY DEF BaselineIsNotTheAgents
  <2>1. CASE baseline'[f] = baseline[f]
    BY <2>1 DEF BaselineIsNotTheAgents
  <2>2. ASSUME baseline[f] = <<>>, NEW d \in Nat, baseline'[f] = <<d>>, Open(f) => d \notin made[f] PROVE FALSE
    <3>1. Open(f) /\ c = d
      BY <2>2 DEF Open
    <3> QED
      BY <2>2, <3>1
  <2> QED
    BY <2>1, <2>2
<1>9. FailuresAreTold'
  <2> SUFFICES ASSUME NEW i \in DOMAIN log', log'[i].kind = "run", ~log'[i].passed PROVE log'[i].diags # {}
    BY DEF FailuresAreTold, Runs
  <2>1. CASE i \in DOMAIN log
    BY <2>1 DEF FailuresAreTold, Runs
  <2>2. CASE i \notin DOMAIN log
    BY <2>2
  <2> QED
    BY <2>1, <2>2
<1> QED
  BY <1>2, <1>4, <1>5, <1>6, <1>7, <1>8, <1>9, GateGoesOn

\* A slot at rest.
LEMMA RestingIsCall ==
    /\ RestingCall \in GateCall /\ RestingCall.pc = "rest" /\ RestingCall.owes = {}
    /\ \A f \in Files : RestingCall.before[f] = 0
  BY DEF RestingCall, GateCall, GateStages, Elsewhere

\* What a call becomes when it changes a file, or another one does.
LEMMA ChangesFacts ==
    ASSUME GateTyped, NEW s \in Slots, NEW f \in Files, Changes(s, f)
    PROVE  /\ call' \in [Slots -> GateCall] /\ f \in call'[s].owes
           /\ \A t \in Slots :
                /\ call[t].owes \subseteq call'[t].owes /\ call'[t].owes \subseteq call[t].owes \cup {f}
                /\ t # s => call'[t].owes = call[t].owes
                /\ call'[t] = [call[t] EXCEPT !.rewritten = call'[t].rewritten, !.owes = call'[t].owes]
<1> DEFINE CallAfter(r) == [call[r] EXCEPT !.rewritten = @ \cup (call[r].dirty \cap {f}),
                                       !.owes = IF r = s THEN @ \cup {f} ELSE @]
<1>1. call' = [r \in Slots |-> CallAfter(r)]
  BY DEF Changes
<1>2. ASSUME NEW t \in Slots
      PROVE  /\ CallAfter(t) \in GateCall
             /\ CallAfter(t).owes = IF t = s THEN call[t].owes \cup {f} ELSE call[t].owes
             /\ CallAfter(t) = [call[t] EXCEPT !.rewritten = CallAfter(t).rewritten, !.owes = CallAfter(t).owes]
  <2>1. call[t] \in GateCall
    BY DEF GateTyped
  <2> QED
    BY <2>1 DEF GateCall
<1> HIDE DEF CallAfter
<1> QED
  BY <1>1, <1>2

\* What it becomes stays good.
LEMMA ChangedIsGood ==
    ASSUME NEW c \in GateCall, NEW d \in GateCall, GoodCall(c)',
           d = [c EXCEPT !.rewritten = d.rewritten, !.owes = d.owes], c.pc = "rest" => d.owes = {}
    PROVE  GoodCall(d)'
<1>1. /\ d.pc = c.pc /\ d.before = c.before /\ d.file = c.file /\ d.dirty = c.dirty /\ d.listed = c.listed
      /\ d.below = c.below /\ d.todo = c.todo /\ d.added = c.added /\ d.command = c.command
  BY DEF GateCall
<1> QED
  BY <1>1 DEF GoodCall

\* A call puts a new content into a file, or what HEAD has.
LEMMA GateWrites ==
    ASSUME GateInv, NEW s \in Slots, NEW f \in Files, Changes(s, f), InFlight(s),
           UNCHANGED <<head, baseline, log, final, untold, blurred>>,
           disk' \in [Files -> Nat], \A g \in Files : g # f => disk'[g] = disk[g],
           contents' \in Nat, contents <= contents', disk'[f] <= contents',
           made' \in [Files -> SUBSET (Nat \ {Elsewhere})],
           \A g \in Files : made'[g] \subseteq made[g] \cup {contents + 1},
           \A g \in Files : g # f => made'[g] = made[g]
    PROVE  GateInv'
<1> USE GateFacts
<1>1. /\ call' \in [Slots -> GateCall] /\ f \in call'[s].owes
      /\ \A t \in Slots :
           /\ call[t].owes \subseteq call'[t].owes
           /\ t # s => call'[t].owes = call[t].owes
           /\ call'[t] = [call[t] EXCEPT !.rewritten = call'[t].rewritten, !.owes = call'[t].owes]
  BY ChangesFacts
<1>2. GateTyped'
  BY <1>1 DEF GateTyped
<1>3. NewestContent'
  <2>1. \A g \in Files : disk[g] \in Nat /\ disk[g] <= contents /\ head[g] \in Nat /\ head[g] <= contents
    BY DEF GateTyped, NewestContent
  <2>2. \A g \in Files : disk'[g] <= contents' /\ head'[g] <= contents'
    BY <2>1
  <2>3. \A g \in Files : \A c \in Nat : baseline'[g] = <<c>> => c <= contents'
    BY DEF NewestContent
  <2> QED
    BY <2>2, <2>3 DEF NewestContent
<1>4. CallsAreGood'
  <2> SUFFICES ASSUME NEW t \in Slots, NEW c \in GateCall, c = call[t], NEW d \in GateCall, d = call'[t]
               PROVE  GoodCall(d)'
    BY <1>1 DEF CallsAreGood, GateTyped
  <2>1. GoodCall(c)
    BY DEF CallsAreGood
  <2>2. GoodCall(c)'
    BY <2>1, GoodStays
  <2>3. c.pc = "rest" => d.owes = {}
    BY <1>1, <2>1 DEF GoodCall, InFlight
  <2> QED
    BY <1>1, <2>2, <2>3, ChangedIsGood
<1>5. \A g \in Files : Owed(g) \/ g = f => Owed(g)'
  BY <1>1 DEF Owed
<1>6. MadeIsOwed'
  <2> SUFFICES ASSUME NEW g \in Files, Open(g)' PROVE head[g] \notin made'[g] /\ (made'[g] # {} => Owed(g)')
    BY DEF MadeIsOwed
  <2>1. Open(g) /\ head[g] \notin made[g] /\ (made[g] # {} => Owed(g))
    BY DEF MadeIsOwed, Open
  <2>2. head[g] # contents + 1
    BY DEF NewestContent, GateTyped
  <2> QED
    BY <1>5, <2>1, <2>2
<1>7. ChangesAreTold'
  <2> SUFFICES ASSUME NEW g \in Files \ untold, g # f PROVE Owed(g)' \/ Untouched(g)' \/ ToldOf(g)'
    BY <1>5 DEF ChangesAreTold
  <2>1. disk'[g] = disk[g] /\ made'[g] = made[g]
    OBVIOUS
  <2>2. ToldOf(g) => ToldOf(g)'
    BY <2>1 DEF ToldOf, EventAt, Covers
  <2>3. Untouched(g) => Untouched(g)'
    BY <2>1 DEF Untouched
  <2> QED
    BY <1>5, <2>2, <2>3 DEF ChangesAreTold
<1>8. BaselineIsNotTheAgents'
  <2> SUFFICES ASSUME NEW g \in Files, g \notin blurred, NEW c \in made'[g], baseline[g] = <<c>> PROVE FALSE
    BY DEF BaselineIsNotTheAgents
  <2>1. c \notin made[g]
    BY DEF BaselineIsNotTheAgents
  <2>2. c = contents + 1 /\ contents \in Nat
    BY <2>1
  <2> QED
    BY <2>2 DEF NewestContent
<1>9. FailuresAreTold'
  BY DEF FailuresAreTold, Runs
<1> QED
  BY <1>2, <1>3, <1>4, <1>6, <1>7, <1>8, <1>9, GateGoesOn

\* A new content is newer than all others.
LEMMA PutsStep ==
    ASSUME GateInv, NEW s \in Slots, NEW f \in Files, Puts(s, f), InFlight(s),
           UNCHANGED <<head, storeVars, untold, blurred>>
    PROVE  GateInv'
<1> USE GateFacts
<1>1. /\ contents' = contents + 1 /\ disk' = [disk EXCEPT ![f] = contents + 1]
      /\ made' = [made EXCEPT ![f] = made[f] \cup {contents + 1}] /\ Changes(s, f)
      /\ UNCHANGED <<head, baseline, log, final, untold, blurred>>
      /\ contents \in Nat /\ disk \in [Files -> Nat] /\ made \in [Files -> SUBSET (Nat \ {Elsewhere})]
  BY DEF Puts, GateTyped, storeVars
<1>2. contents' \in Nat /\ contents <= contents' /\ contents + 1 \in Nat \ {Elsewhere}
  BY <1>1 DEF Elsewhere
<1>3. /\ disk' \in [Files -> Nat] /\ disk'[f] <= contents' /\ \A g \in Files : g # f => disk'[g] = disk[g]
  BY <1>1, <1>2
<1>4. /\ made' \in [Files -> SUBSET (Nat \ {Elsewhere})]
      /\ \A g \in Files : made'[g] \subseteq made[g] \cup {contents + 1}
      /\ \A g \in Files : g # f => made'[g] = made[g]
  BY <1>1, <1>2
<1> QED
  BY <1>1, <1>2, <1>3, <1>4, GateWrites

\* A file tool begins; nothing is captured yet.
LEMMA BeginToolStep ==
    ASSUME GateInv, NEW s \in Slots, NEW listed \in SUBSET Files, NEW below \in SUBSET Files,
           NEW added \in SUBSET Files, BeginTool(s, listed, below, added)
    PROVE  GateInv'
<1> USE GateFacts
<1> DEFINE r == [RestingCall EXCEPT !.pc = "capture", !.listed = listed, !.below = below,
                                    !.added = added, !.todo = listed \cup below]
<1>1. /\ call[s].pc = "rest" /\ final = None /\ Goes(s, r)
      /\ UNCHANGED <<disk, head, contents, made, baseline, log, final, untold, blurred>>
  BY DEF BeginTool, MayBegin, InFlight, workspaceVars, storeVars
<1>2. /\ r \in GateCall /\ r.pc = "capture" /\ (r.listed \cup r.below) \ r.todo = {}
      /\ \A f \in Files : r.before[f] = 0
  BY RestingIsCall DEF GateCall, GateStages
<1> HIDE DEF r
<1>3. call[s].owes = {}
  BY <1>1 DEF CallsAreGood, GoodCall
<1>4. GoodCall(r)'
  BY <1>1, <1>2 DEF GoodCall
<1> QED
  BY <1>1, <1>2, <1>3, <1>4, GateMoves DEF GateTyped

\* It captures a content: if that is the agent's, a call owes it.
LEMMA CaptureFileStep ==
    ASSUME GateInv, NEW s \in Slots, NEW f \in Files, CaptureFile(s, f)
    PROVE  GateInv'
<1> USE GateFacts
<1> DEFINE d == [call[s] EXCEPT !.pc = "snapped", !.file = f, !.before[f] = disk[f]]
<1>1. /\ call[s].pc = "capture" /\ call[s] \in GateCall /\ GoodCall(call[s]) /\ Goes(s, d) /\ InFlight(s)
      /\ UNCHANGED <<disk, head, contents, made, baseline, log, final, untold>>
      /\ blurred' = blurred \cup {g \in {f} : Unseen(g)} /\ disk \in [Files -> Nat]
  BY DEF CaptureFile, InFlight, workspaceVars, storeVars, GateTyped, CallsAreGood
<1>a. /\ d \in GateCall /\ d.pc = "snapped" /\ d.file = f /\ d.before[f] = disk[f] /\ d.owes = call[s].owes
      /\ \A g \in Files : d.before[g] \in {call[s].before[g], disk[g]}
      /\ d.listed = call[s].listed /\ d.below = call[s].below /\ d.todo = call[s].todo
  BY <1>1 DEF GateCall, GateStages
<1> HIDE DEF d
<1>2. PICK r \in GateCall :
        /\ Goes(s, r) /\ r.pc = "snapped" /\ r.file = f /\ r.before[f] = disk[f] /\ r.owes = call[s].owes
        /\ \A g \in Files : r.before[g] \in {call[s].before[g], disk[g]}
        /\ r.listed = call[s].listed /\ r.below = call[s].below /\ r.todo = call[s].todo
  BY <1>1, <1>a
<1>3. GoodCall(r)'
  <2>1. Open(f)' => disk[f] \notin made[f]
    BY <1>1 DEF Open, Unseen, MadeIsOwed, Owed
  <2>2. \A g \in Files : r.before[g] <= contents
    BY <1>1, <1>2 DEF GoodCall, NewestContent
  <2> QED
    BY <1>1, <1>2, <2>1, <2>2 DEF GoodCall
<1> QED
  BY <1>1, <1>2, <1>3, GateMoves DEF GateTyped

\* What was captured becomes the baseline, unless there is one.
LEMMA CreateBaselineStep ==
    ASSUME GateInv, NEW s \in Slots, CreateBaseline(s)
    PROVE  GateInv'
<1> USE GateFacts
<1>0. PICK f \in Files : f = call[s].file
  BY DEF CreateBaseline, CallsAreGood, GoodCall
<1> DEFINE v == call[s].before[f]
           d == [call[s] EXCEPT !.pc = "capture", !.todo = @ \ {f}, !.file = None, !.before[f] = Elsewhere]
<1>1. /\ call[s].pc = "snapped" /\ call[s] \in GateCall /\ GoodCall(call[s]) /\ Goes(s, d) /\ InFlight(s)
      /\ UNCHANGED <<disk, head, contents, made, log, final, untold, blurred>>
      /\ baseline' = CreateBaselineIfAbsent(f, v) /\ DOMAIN baseline = Files
  BY <1>0 DEF CreateBaseline, InFlight, workspaceVars, GateTyped, CallsAreGood
<1>a. /\ d \in GateCall /\ d.pc = "capture" /\ d.owes = call[s].owes
      /\ \A g \in Files : d.before[g] \in {call[s].before[g], 0}
      /\ d.listed = call[s].listed /\ d.below = call[s].below /\ d.todo = call[s].todo \ {f}
  BY <1>1 DEF GateCall, GateStages, Elsewhere
<1> HIDE DEF d
<1>2. PICK r \in GateCall :
        /\ Goes(s, r) /\ r.pc = "capture" /\ r.owes = call[s].owes
        /\ \A g \in Files : r.before[g] \in {call[s].before[g], 0}
        /\ r.listed = call[s].listed /\ r.below = call[s].below /\ r.todo = call[s].todo \ {f}
  BY <1>1, <1>a
<1>3. v \in Nat /\ v <= contents /\ (Open(f) => v \notin made[f])
  BY <1>0, <1>1 DEF GateCall, GoodCall
<1> HIDE DEF v
<1>4. /\ DOMAIN baseline' = Files /\ baseline'[f] # <<>>
      /\ \A g \in Files : \/ baseline'[g] = baseline[g]
                          \/ g = f /\ baseline[f] = <<>> /\ baseline'[f] = <<v>>
  BY <1>1 DEF CreateBaselineIfAbsent
<1>5. GoodCall(r)'
  <2>1. \A g \in Files : r.before[g] <= contents
    BY <1>1, <1>2 DEF GoodCall
  <2>2. \A g \in (r.listed \cup r.below) \ r.todo : baseline'[g] # <<>>
    <3> SUFFICES ASSUME NEW g \in (r.listed \cup r.below) \ r.todo, g # f PROVE baseline'[g] # <<>>
      BY <1>4
    <3>1. g \in Files /\ baseline[g] # <<>>
      BY <1>1, <1>2 DEF GoodCall, GateCall
    <3> QED
      BY <1>4, <3>1
  <2> QED
    BY <1>1, <1>2, <2>1, <2>2 DEF GoodCall
<1>6. \A g \in Files :
        \/ baseline'[g] = baseline[g]
        \/ /\ baseline[g] = <<>>
           /\ \E c \in Nat : baseline'[g] = <<c>> /\ c <= contents /\ (Open(g) => c \notin made[g])
  BY <1>3, <1>4
<1> QED
  BY <1>1, <1>2, <1>4, <1>5, <1>6, GateMoves DEF GateTyped

\* A file tool and a command write.
LEMMA WriteStepGate ==
    ASSUME GateInv, NEW s \in Slots, NEW f \in Files, WriteTool(s, f) \/ CommandWrites(s, f)
    PROVE  GateInv'
  BY PutsStep DEF WriteTool, CommandWrites, InFlight

\* A file tool returns, and goes on to the events.
LEMMA ToolReturnsStep ==
    ASSUME GateInv, NEW s \in Slots, NEW ok \in BOOLEAN, ToolReturns(s, ok)
    PROVE  GateInv'
<1> USE GateFacts
<1> DEFINE d == [RestingCall EXCEPT !.pc = "written", !.ok = ok, !.added = call[s].added,
                     !.todo = call[s].listed \cup {f \in call[s].added : ok}, !.owes = call[s].owes]
<1>1. /\ call[s].pc = "capture" /\ call[s].todo = {} /\ call[s] \in GateCall /\ GoodCall(call[s])
      /\ Goes(s, d) /\ InFlight(s)
      /\ UNCHANGED <<disk, head, contents, made, baseline, log, final, untold, blurred>>
  BY DEF ToolReturns, InFlight, workspaceVars, storeVars, GateTyped, CallsAreGood
<1>a. /\ d \in GateCall /\ d.pc = "written" /\ d.owes = call[s].owes
      /\ \A g \in Files : d.before[g] = 0
      /\ d.todo \ d.added \subseteq call[s].listed
  BY <1>1, RestingIsCall DEF GateCall, GateStages
<1> HIDE DEF d
<1>2. PICK r \in GateCall :
        /\ Goes(s, r) /\ r.pc = "written" /\ r.owes = call[s].owes
        /\ \A g \in Files : r.before[g] = 0
        /\ r.todo \ r.added \subseteq call[s].listed
  BY <1>1, <1>a
<1>3. GoodCall(r)'
  <2>1. call[s].listed \in SUBSET Files /\ \A f \in call[s].listed : baseline[f] # <<>>
    BY <1>1 DEF GoodCall, GateCall
  <2> QED
    BY <1>1, <1>2, <2>1 DEF GoodCall
<1> QED
  BY <1>1, <1>2, <1>3, GateMoves DEF GateTyped

\* Its event is put behind everything in the log; a file it has added was not there.
LEMMA RecordEventStep ==
    ASSUME GateInv, NEW s \in Slots, NEW f \in Files, RecordEvent(s, f)
    PROVE  GateInv'
<1> USE GateFacts
<1> DEFINE told == {g \in {f} : call[s].ok}
           row == Event(f, call[s].ok)
           d == [call[s] EXCEPT !.todo = @ \ {f}, !.owes = @ \ told]
<1>1. /\ call[s].pc = "written" /\ f \in call[s].todo /\ call[s] \in GateCall /\ GoodCall(call[s])
      /\ Goes(s, d) /\ InFlight(s) /\ log' = Insert(row) /\ untold' = untold \ told
      /\ UNCHANGED <<disk, head, contents, made, final, blurred>>
      /\ baseline' = IF f \in call[s].added THEN CreateBaselineIfAbsent(f, Elsewhere) ELSE baseline
      /\ DOMAIN baseline = Files /\ log \in Seq(GateRow) /\ untold \in SUBSET Files
  BY DEF RecordEvent, InFlight, workspaceVars, GateTyped, CallsAreGood
<1>2. /\ row \in GateRow /\ row.kind = "event" /\ row.file = f /\ row.ok = call[s].ok
      /\ told \subseteq {f} /\ (f \in told => call[s].ok)
  BY <1>1 DEF Event, GateRow, EventRow, GateCall
<1>a. /\ d \in GateCall /\ d.pc = "written" /\ d.owes = call[s].owes \ told
      /\ d.before = call[s].before /\ d.todo = call[s].todo \ {f} /\ d.added = call[s].added
  BY <1>1 DEF GateCall
<1> HIDE DEF d
<1>3. PICK r \in GateCall :
        /\ Goes(s, r) /\ r.pc = "written" /\ r.owes = call[s].owes \ told
        /\ r.before = call[s].before /\ r.todo = call[s].todo \ {f} /\ r.added = call[s].added
  BY <1>1, <1>a
<1> HIDE DEF row, told
<1>4. /\ DOMAIN baseline' = Files /\ baseline'[f] # <<>>
      /\ \A g \in Files : \/ baseline'[g] = baseline[g]
                          \/ g = f /\ baseline[f] = <<>> /\ baseline'[f] = <<0>>
  <2>1. CASE f \in call[s].added
    BY <1>1, <2>1 DEF CreateBaselineIfAbsent, Elsewhere
  <2>2. CASE f \notin call[s].added
    BY <1>1, <2>2 DEF GoodCall
  <2> QED
    BY <2>1, <2>2
<1>5. \A g \in Files :
        \/ baseline'[g] = baseline[g]
        \/ /\ baseline[g] = <<>>
           /\ \E c \in Nat : baseline'[g] = <<c>> /\ c <= contents /\ (Open(g) => c \notin made[g])
  <2>1. 0 \in Nat /\ 0 <= contents /\ \A g \in Files : 0 \notin made[g]
    BY DEF GateTyped, Elsewhere
  <2> QED
    BY <1>4, <2>1
<1>6. GoodCall(r)'
  <2>1. \A g \in Files : baseline[g] # <<>> => baseline'[g] # <<>>
    BY <1>4
  <2>2. \A g \in r.todo \ r.added : g \in Files /\ baseline[g] # <<>>
    BY <1>1, <1>3 DEF GoodCall, GateCall
  <2> QED
    BY <1>1, <1>3, <2>1, <2>2 DEF GoodCall
<1>7. /\ log' \in Seq(GateRow) /\ DOMAIN log \subseteq DOMAIN log' /\ \A i \in DOMAIN log : log'[i] = log[i]
      /\ DOMAIN log' \ DOMAIN log = {Len(log) + 1} /\ log'[Len(log) + 1] = row
      /\ \A k \in DOMAIN log : k < Len(log) + 1
  <2>1. /\ DOMAIN log' = 1..(Len(log) + 1) /\ log' \in Seq(GateRow) /\ log'[Len(log) + 1] = row
        /\ \A i \in DOMAIN log : log'[i] = log[i]
    BY <1>1, <1>2, LogInsert
  <2> QED
    BY <2>1
<1>8. \A g \in told : \E e \in DOMAIN log' \ DOMAIN log : EventAt(e, g)'
  BY <1>2, <1>7 DEF EventAt
<1>9. \A g \in Files \ untold' : \/ g \notin untold /\ (g \in call[s].owes => g \in r.owes)
                                 \/ \E e \in DOMAIN log' \ DOMAIN log : EventAt(e, g)'
  <2>1. \A g \in Files \ untold' : g \in told \/ (g \notin untold /\ (g \in call[s].owes => g \in r.owes))
    BY <1>1, <1>3
  <2> QED
    BY <1>8, <2>1, Zenon
<1>10. /\ \A i \in DOMAIN log' \ DOMAIN log : log'[i].kind = "event"
       /\ \A i \in DOMAIN log' \ DOMAIN log : \A k \in DOMAIN log : k < i
  BY <1>2, <1>7
<1>11. \A g \in call[s].owes : g \in r.owes \/ baseline'[g] # <<>>
  BY <1>2, <1>3, <1>4
<1>12. untold' \in SUBSET Files /\ blurred' \in SUBSET Files /\ blurred \subseteq blurred'
  BY <1>1 DEF GateTyped
<1> QED
  BY <1>1, <1>3, <1>4, <1>5, <1>6, <1>7, <1>9, <1>10, <1>11, <1>12, GateMoves

\* A call ends: what it owes stays untold, and without a baseline blurred.
LEMMA EndsStep ==
    ASSUME GateInv, NEW s \in Slots, EndsOwing(s), InFlight(s),
           UNCHANGED <<disk, head, contents, made, baseline, final>>,
           log' \in Seq(GateRow), DOMAIN log \subseteq DOMAIN log',
           \A i \in DOMAIN log : log'[i] = log[i],
           \A i \in DOMAIN log' \ DOMAIN log : \A k \in DOMAIN log : k < i,
           \A i \in DOMAIN log' \ DOMAIN log :
               (~log'[i].passed => log'[i].diags # {}) /\ \A f \in Files : Covers(i, f)'
    PROVE  GateInv'
<1> USE GateFacts
<1> DEFINE r == RestingCall
<1>1. /\ Goes(s, r) /\ untold' = untold \cup call[s].owes
      /\ blurred' = blurred \cup {f \in call[s].owes : baseline[f] = <<>>}
      /\ call[s].owes \in SUBSET Files /\ DOMAIN baseline = Files
  BY DEF EndsOwing, GateTyped, GateCall
<1>2. r \in GateCall /\ r.pc = "rest" /\ r.owes = {} /\ \A f \in Files : r.before[f] = 0
  BY RestingIsCall
<1> HIDE DEF r
<1>3. GoodCall(r)'
  BY <1>2 DEF GoodCall
<1>4. untold' \in SUBSET Files /\ blurred' \in SUBSET Files /\ blurred \subseteq blurred'
  BY <1>1 DEF GateTyped
<1> QED
  BY <1>1, <1>2, <1>3, <1>4, GateMoves

LEMMA EndQuietly ==
    ASSUME GateInv, NEW s \in Slots, EndTool(s) \/ StoreNoRun(s)
    PROVE  GateInv'
<1>1. EndsOwing(s) /\ InFlight(s) /\ UNCHANGED <<disk, head, contents, made, baseline, log, final>>
  BY DEF EndTool, StoreNoRun, InFlight, workspaceVars, storeVars
<1> QED
  BY <1>1, EndsStep DEF GateInv, GateTyped

\* A command begins: what it finds dirty and the agent's, a call owes.
LEMMA StatusBeforeStep ==
    ASSUME GateInv, NEW s \in Slots, NEW c \in Commands, StatusBefore(s, c)
    PROVE  GateInv'
<1> USE GateFacts
<1> DEFINE b == [f \in Files |-> IF f \in Dirty THEN disk[f] ELSE Elsewhere]
           d == [RestingCall EXCEPT !.pc = "status", !.command = c, !.dirty = Dirty, !.before = b,
                                    !.checked = disk]
<1>1. /\ call[s].pc = "rest" /\ final = None /\ Goes(s, d)
      /\ UNCHANGED <<disk, head, contents, made, baseline, log, final, untold>>
      /\ blurred' = blurred \cup {f \in Dirty : Unseen(f)}
      /\ disk \in [Files -> Nat] /\ Dirty \in SUBSET Files
  BY DEF StatusBefore, MayBegin, InFlight, GateTyped, Dirty, workspaceVars, storeVars
<1>2. b \in [Files -> Nat] /\ \A f \in Files : b[f] \in {0, disk[f]} /\ (f \in Dirty => b[f] = disk[f])
  BY <1>1 DEF Elsewhere
<1> HIDE DEF b
<1>a. d \in GateCall /\ d.pc = "status" /\ d.before = b /\ d.command = c /\ d.dirty = Dirty
  <2> HIDE DEF GateStages
  <2>1. RestingCall \in GateCall /\ "status" \in GateStages
    BY RestingIsCall DEF GateStages
  <2> QED
    BY <1>1, <1>2, <2>1 DEF GateCall
<1> HIDE DEF d
<1>3. PICK r \in GateCall :
        Goes(s, r) /\ r.pc = "status" /\ r.before = b /\ r.command = c /\ r.dirty = Dirty
  BY <1>1, <1>a
<1>4. call[s].owes = {}
  BY <1>1 DEF CallsAreGood, GoodCall
<1>5. GoodCall(r)'
  <2>1. \A f \in Dirty : Open(f)' => disk[f] \notin made[f]
    BY <1>1 DEF Open, Unseen, MadeIsOwed, Owed
  <2>2. \A f \in Files : b[f] <= contents
    BY <1>2 DEF NewestContent
  <2> QED
    BY <1>1, <1>2, <1>3, <2>1, <2>2 DEF GoodCall
<1> QED
  BY <1>1, <1>3, <1>4, <1>5, GateMoves DEF GateTyped

\* It reads.
LEMMA CommandReadsStep ==
    ASSUME GateInv, NEW s \in Slots, NEW f \in Files, CommandReads(s, f)
    PROVE  GateInv'
<1> USE GateFacts
<1> DEFINE d == [call[s] EXCEPT !.checked[f] = disk[f]]
<1>1. /\ call[s].pc = "status" /\ call[s] \in GateCall /\ GoodCall(call[s]) /\ Goes(s, d) /\ InFlight(s)
      /\ UNCHANGED <<disk, head, contents, made, baseline, log, final, untold, blurred>>
      /\ disk \in [Files -> Nat]
  BY DEF CommandReads, InFlight, workspaceVars, storeVars, GateTyped, CallsAreGood
<1>a. /\ d \in GateCall /\ d.pc = "status" /\ d.owes = call[s].owes /\ d.before = call[s].before
      /\ d.dirty = call[s].dirty /\ d.command = call[s].command
  BY <1>1 DEF GateCall
<1> HIDE DEF d
<1>2. PICK r \in GateCall :
        /\ Goes(s, r) /\ r.pc = "status" /\ r.owes = call[s].owes /\ r.before = call[s].before
        /\ r.dirty = call[s].dirty /\ r.command = call[s].command
  BY <1>1, <1>a
<1>3. GoodCall(r)'
  BY <1>1, <1>2 DEF GoodCall, Open
<1> QED
  BY <1>1, <1>2, <1>3, GateMoves DEF GateTyped

\* git restore puts back what HEAD has.
LEMMA CommandRestoresStep ==
    ASSUME GateInv, NEW s \in Slots, NEW f \in Files, CommandRestores(s, f)
    PROVE  GateInv'
<1> USE GateFacts
<1>1. /\ disk' = [disk EXCEPT ![f] = head[f]] /\ Changes(s, f) /\ InFlight(s)
      /\ UNCHANGED <<head, contents, made, baseline, log, final, untold, blurred>>
      /\ disk \in [Files -> Nat] /\ head \in [Files -> Nat] /\ made \in [Files -> SUBSET (Nat \ {Elsewhere})]
  BY DEF CommandRestores, InFlight, GateTyped, storeVars
<1>2. /\ disk' \in [Files -> Nat] /\ disk'[f] = head[f] /\ head[f] <= contents
      /\ \A g \in Files : g # f => disk'[g] = disk[g]
  BY <1>1 DEF NewestContent
<1>3. contents' \in Nat /\ contents <= contents' /\ disk'[f] <= contents'
  BY <1>1, <1>2
<1> QED
  BY <1>1, <1>2, <1>3, GateWrites

\* git commit makes HEAD what the disk has; if that is the agent's, a call owes it.
LEMMA CommandCommitsStep ==
    ASSUME GateInv, NEW s \in Slots, NEW f \in Files, CommandCommits(s, f)
    PROVE  GateInv'
<1> USE GateFacts
<1>1. /\ head' = [head EXCEPT ![f] = disk[f]] /\ blurred' = blurred \cup {g \in {f} : Unseen(g)} /\ InFlight(s)
      /\ UNCHANGED <<disk, contents, made, baseline, log, call, final, untold>>
      /\ disk \in [Files -> Nat] /\ head \in [Files -> Nat]
  BY DEF CommandCommits, InFlight, GateTyped, storeVars
<1>2. head' \in [Files -> Nat] /\ head'[f] = disk[f] /\ \A g \in Files : g # f => head'[g] = head[g]
  BY <1>1
<1>3. GateTyped'
  BY <1>1, <1>2 DEF GateTyped
<1>4. NewestContent'
  BY <1>1, <1>2 DEF NewestContent
<1>5. CallsAreGood'
  <2> SUFFICES ASSUME NEW t \in Slots, NEW c \in GateCall, c = call[t] PROVE GoodCall(c)'
    BY <1>1 DEF CallsAreGood, GateTyped
  <2>1. GoodCall(c)
    BY DEF CallsAreGood
  <2>2. contents' = contents /\ contents <= contents
    BY <1>1 DEF GateTyped
  <2> QED
    BY <1>1, <2>1, <2>2, GoodStays
<1>6. MadeIsOwed'
  <2> SUFFICES ASSUME NEW g \in Files, Open(g)' PROVE head'[g] \notin made[g] /\ (made[g] # {} => Owed(g))
    BY <1>1 DEF MadeIsOwed, Owed
  <2>1. Open(g) /\ head[g] \notin made[g] /\ (made[g] # {} => Owed(g))
    BY <1>1 DEF MadeIsOwed, Open
  <2>2. g = f => made[f] = {}
    BY <1>1, <2>1 DEF Open, Unseen, Owed
  <2> QED
    BY <1>2, <2>1, <2>2
<1>7. ChangesAreTold'
  <2>1. \A g : Owed(g)' = Owed(g) /\ ToldOf(g)' = ToldOf(g) /\ Untouched(g)' = Untouched(g)
    BY <1>1 DEF Owed, ToldOf, EventAt, Covers, Untouched
  <2> QED
    BY <1>1, <2>1 DEF ChangesAreTold
<1>8. BaselineIsNotTheAgents' /\ FailuresAreTold'
  BY <1>1 DEF BaselineIsNotTheAgents, FailuresAreTold, Runs
<1> QED
  BY <1>1, <1>3, <1>4, <1>5, <1>6, <1>7, <1>8, GateGoesOn

\* What the tracker leaves of a command for the validation.
LEMMA TrackedIsGood ==
    ASSUME GateInv, NEW s \in Slots, NEW ok \in BOOLEAN, NEW told \in SUBSET Files,
           TrackerDone(s, ok, told), contents' = contents
    PROVE  \E r \in GateCall :
             /\ Goes(s, r) /\ GoodCall(r)' /\ r.owes = call[s].owes \ told
             /\ call[s].pc = "status" /\ InFlight(s) /\ untold' = untold \ told
<1> USE GateFacts
<1> DEFINE d == [RestingCall EXCEPT !.pc = "tracked", !.command = call[s].command, !.ok = ok,
                                    !.checked = call[s].checked, !.owes = call[s].owes \ told]
<1>1. /\ call[s].pc = "status" /\ call[s] \in GateCall /\ GoodCall(call[s]) /\ Goes(s, d) /\ InFlight(s)
      /\ untold' = untold \ told
  BY DEF TrackerDone, InFlight, GateTyped, CallsAreGood
<1>a. /\ d \in GateCall /\ d.pc = "tracked" /\ d.owes = call[s].owes \ told /\ d.command = call[s].command
      /\ \A f \in Files : d.before[f] = 0
  <2> HIDE DEF GateStages
  <2>1. RestingCall \in GateCall /\ "tracked" \in GateStages
    BY RestingIsCall DEF GateStages
  <2> QED
    BY <1>1, <2>1, RestingIsCall DEF GateCall
<1> HIDE DEF d
<1>2. PICK r \in GateCall :
        /\ Goes(s, r) /\ r.pc = "tracked" /\ r.owes = call[s].owes \ told /\ r.command = call[s].command
        /\ \A f \in Files : r.before[f] = 0
  BY <1>1, <1>a
<1>3. call[s].command \in Commands /\ contents' = contents
  BY <1>1 DEF GoodCall
<1>4. GoodCall(r)'
  BY <1>2, <1>3 DEF GoodCall
<1> QED
  BY <1>1, <1>2, <1>4

\* A command is tracked: its events are put behind everything in the log, and what
\* becomes a baseline it found before it began, or HEAD has it.
LEMMA TrackCommandStep ==
    ASSUME GateInv, NEW s \in Slots, NEW ok \in BOOLEAN, TrackCommand(s, ok)
    PROVE  GateInv'
<1> USE GateFacts
<1>1. PICK S \in SUBSET Files : S = ChangedBy(s)
  BY DEF ChangedBy, Dirty, TrackCommand, TrackerDone, GateTyped, GateCall
<1>2. PICK told \in SUBSET Files : told = {f \in S : ok}
  OBVIOUS
<1>3. /\ TrackerDone(s, ok, told) /\ UNCHANGED <<disk, head, contents, made, final, blurred>>
      /\ baseline' = [f \in Files |-> IF f \in S THEN CreateBaselineIfAbsent(f, StartOf(s, f))[f] ELSE baseline[f]]
  BY <1>1, <1>2 DEF TrackCommand, workspaceVars
<1>5. PICK r \in GateCall :
        /\ Goes(s, r) /\ GoodCall(r)' /\ r.owes = call[s].owes \ told
        /\ call[s].pc = "status" /\ InFlight(s) /\ untold' = untold \ told
  BY <1>3, TrackedIsGood
<1>6. call[s] \in GateCall /\ GoodCall(call[s]) /\ DOMAIN baseline = Files /\ log \in Seq(GateRow)
      /\ untold \in SUBSET Files /\ blurred \in SUBSET Files
  BY DEF GateTyped, CallsAreGood
<1>7. ASSUME NEW f \in S, baseline[f] = <<>>
      PROVE  /\ baseline'[f] = <<StartOf(s, f)>> /\ StartOf(s, f) \in Nat /\ StartOf(s, f) <= contents
             /\ Open(f) => StartOf(s, f) \notin made[f]
  <2>1. baseline'[f] = <<StartOf(s, f)>>
    BY <1>3, <1>6, <1>7 DEF CreateBaselineIfAbsent
  <2>2. CASE f \in call[s].dirty
    <3>1. StartOf(s, f) = call[s].before[f] /\ call[s].before[f] \in Nat
      BY <1>6, <2>2 DEF StartOf, GateCall
    <3>2. call[s].before[f] <= contents /\ (Open(f) => call[s].before[f] \notin made[f])
      BY <1>5, <1>6, <2>2 DEF GoodCall
    <3> QED
      BY <2>1, <3>1, <3>2
  <2>3. CASE f \notin call[s].dirty
    <3>1. StartOf(s, f) = head[f] /\ head[f] \in Nat /\ head[f] <= contents
      BY <2>3 DEF StartOf, GateTyped, NewestContent
    <3>2. Open(f) => head[f] \notin made[f]
      BY DEF MadeIsOwed
    <3> QED
      BY <2>1, <3>1, <3>2
  <2> QED
    BY <2>2, <2>3
<1>8. ASSUME NEW f \in Files, f \notin S \/ baseline[f] # <<>> PROVE baseline'[f] = baseline[f]
  BY <1>3, <1>8 DEF CreateBaselineIfAbsent
<1>9. DOMAIN baseline' = Files
  BY <1>3
<1>10. \A f \in Files :
        \/ baseline'[f] = baseline[f]
        \/ /\ baseline[f] = <<>>
           /\ \E c \in Nat : baseline'[f] = <<c>> /\ c <= contents /\ (Open(f) => c \notin made[f])
  <2> SUFFICES ASSUME NEW f \in S, baseline[f] = <<>>
               PROVE  \E c \in Nat : baseline'[f] = <<c>> /\ c <= contents /\ (Open(f) => c \notin made[f])
    BY <1>8
  <2> QED
    BY <1>7
<1>11. \A f \in S : baseline'[f] # <<>>
  <2> SUFFICES ASSUME NEW f \in S PROVE baseline'[f] # <<>>
    OBVIOUS
  <2>1. CASE baseline[f] = <<>>
    <3>1. PICK c \in Nat : baseline'[f] = <<c>>
      BY <1>7, <2>1
    <3> QED
      BY <3>1
  <2>2. CASE baseline[f] # <<>>
    BY <1>8, <2>2
  <2> QED
    BY <2>1, <2>2
<1>12. /\ log' \in Seq(GateRow) /\ DOMAIN log \subseteq DOMAIN log'
       /\ \A i \in DOMAIN log : log'[i] = log[i]
       /\ \A i \in DOMAIN log' \ DOMAIN log : log'[i].kind = "event" /\ \A k \in DOMAIN log : k < i
       /\ \A f \in S : \E i \in DOMAIN log' \ DOMAIN log : log'[i] = Event(f, ok)
  BY <1>1, <1>6, LogTracked
<1>13. ASSUME NEW f \in told PROVE \E e \in DOMAIN log' \ DOMAIN log : EventAt(e, f)'
  <2>1. PICK e \in DOMAIN log' \ DOMAIN log : log'[e] = Event(f, ok)
    BY <1>2, <1>12
  <2>2. EventAt(e, f)'
    BY <1>2, <2>1 DEF EventAt, Event
  <2> QED
    BY <2>2
<1>14. \A f \in Files \ untold' : \/ f \notin untold /\ (f \in call[s].owes => f \in r.owes)
                                  \/ \E e \in DOMAIN log' \ DOMAIN log : EventAt(e, f)'
  <2>1. \A f \in Files \ untold' : f \in told \/ (f \notin untold /\ (f \in call[s].owes => f \in r.owes))
    BY <1>5
  <2> QED
    BY <1>13, <2>1
<1>15. \A f \in call[s].owes : f \in r.owes \/ baseline'[f] # <<>>
  BY <1>2, <1>5, <1>11
<1>16. untold' \in SUBSET Files /\ blurred' \in SUBSET Files /\ blurred \subseteq blurred'
  BY <1>3, <1>5, <1>6
<1> QED
  BY <1>3, <1>5, <1>9, <1>10, <1>12, <1>14, <1>15, <1>16, GateMoves

\* The status fails: what the command owes it goes on owing.
LEMMA StatusFailsStep ==
    ASSUME GateInv, NEW s \in Slots, NEW ok \in BOOLEAN, StatusFails(s, ok)
    PROVE  GateInv'
<1> USE GateFacts
<1>1. TrackerDone(s, ok, {}) /\ UNCHANGED <<disk, head, contents, made, baseline, log, final, blurred>>
  BY DEF StatusFails, workspaceVars, storeVars
<1>2. PICK r \in GateCall :
        /\ Goes(s, r) /\ GoodCall(r)' /\ r.owes = call[s].owes \ {} /\ InFlight(s) /\ untold' = untold \ {}
  BY <1>1, TrackedIsGood
<1> QED
  BY <1>1, <1>2, GateMoves DEF GateTyped

\* What parsing makes of an output: a failure has a diagnostic.
LEMMA Parsed ==
    ASSUME NEW out \in Output
    PROVE  /\ ParseOutput(out).passed \in BOOLEAN /\ ParseOutput(out).diags \in SUBSET Found
           /\ ~ParseOutput(out).passed => ParseOutput(out).diags # {}
<1> DEFINE found == Dedupe(out.found)
           one == [sev |-> "error", msg |-> "text"]
           diags == IF ~out.zero /\ found = {} THEN {one} ELSE found
<1>1. ParseOutput(out).passed = out.zero /\ ParseOutput(out).diags = diags
  BY DEF ParseOutput
<1>2. out.zero \in BOOLEAN /\ found \in SUBSET Found
  BY DEF Output, Dedupe
<1>3. one \in Found
  BY DEF Found, Severity
<1> HIDE DEF found, one
<1> QED
  BY <1>1, <1>2, <1>3

\* A run is stored: it has read every file as it is, or has missed it.
LEMMA StoreRunStep ==
    ASSUME GateInv, NEW s \in Slots, NEW out \in Outputs, StoreRun(s, out)
    PROVE  GateInv'
<1> USE GateFacts
<1> DEFINE summary == ParseOutput(out)
           row == [kind |-> "run", command |-> call[s].command, passed |-> summary.passed,
                   diags |-> summary.diags, checked |-> call[s].checked,
                   missed |-> {f \in Files : call[s].checked[f] # disk[f]}]
<1>1. /\ call[s].pc = "tracked" /\ call[s] \in GateCall /\ GoodCall(call[s]) /\ EndsOwing(s) /\ InFlight(s)
      /\ UNCHANGED <<disk, head, contents, made, baseline, final>>
      /\ log' = Insert(row) /\ log \in Seq(GateRow)
  BY DEF StoreRun, InFlight, GateTyped, CallsAreGood, workspaceVars
<1>2. /\ row \in GateRow /\ (~row.passed => row.diags # {})
      /\ \A f \in Files : row.checked[f] = disk[f] \/ f \in row.missed
  <2>1. call[s].command \in Commands /\ call[s].checked \in [Files -> Nat]
    BY <1>1 DEF GateCall, GoodCall
  <2>2. /\ summary.passed \in BOOLEAN /\ summary.diags \in SUBSET Found
        /\ ~summary.passed => summary.diags # {}
    BY GateAssumption, Parsed
  <2> HIDE DEF summary
  <2> QED
    BY <2>1, <2>2 DEF GateRow, RunRow
<1> HIDE DEF row
<1>3. /\ DOMAIN log = 1..Len(log) /\ DOMAIN log' = 1..(Len(log) + 1) /\ Len(log) \in Nat
      /\ log' \in Seq(GateRow) /\ log'[Len(log) + 1] = row /\ \A i \in DOMAIN log : log'[i] = log[i]
  BY <1>1, <1>2, LogInsert
<1>4. /\ DOMAIN log \subseteq DOMAIN log' /\ DOMAIN log' \ DOMAIN log = {Len(log) + 1}
      /\ \A k \in DOMAIN log : k < Len(log) + 1
  BY <1>3
<1>6. \A i \in DOMAIN log' \ DOMAIN log :
        (~log'[i].passed => log'[i].diags # {}) /\ \A f \in Files : Covers(i, f)'
  <2> SUFFICES ASSUME NEW i \in DOMAIN log' \ DOMAIN log
               PROVE  (~log'[i].passed => log'[i].diags # {}) /\ \A f \in Files : Covers(i, f)'
    OBVIOUS
  <2>1. log'[i] = row
    BY <1>3, <1>4
  <2> QED
    BY <1>1, <1>2, <2>1 DEF Covers
<1>7. \A i \in DOMAIN log' \ DOMAIN log : \A k \in DOMAIN log : k < i
  BY <1>4
<1> QED
  BY <1>1, <1>3, <1>4, <1>6, <1>7, EndsStep

\* Steps that leave everything but the final answer and the gate's own counters.
LEMMA GateKeeps ==
    ASSUME GateInv, UNCHANGED <<disk, head, contents, baseline, log, call, made, untold, blurred>>
    PROVE  /\ GateTyped' /\ NewestContent' /\ CallsAreGood' /\ MadeIsOwed' /\ ChangesAreTold'
           /\ BaselineIsNotTheAgents' /\ FailuresAreTold'
<1> USE GateFacts
<1>1. GateTyped' /\ NewestContent' /\ BaselineIsNotTheAgents' /\ FailuresAreTold'
  BY DEF GateTyped, NewestContent, BaselineIsNotTheAgents, FailuresAreTold, Runs
<1>2. \A f : Open(f)' = Open(f) /\ Owed(f)' = Owed(f) /\ ToldOf(f)' = ToldOf(f) /\ Untouched(f)' = Untouched(f)
  BY DEF Open, Owed, ToldOf, EventAt, Covers, Untouched
<1>3. MadeIsOwed' /\ ChangesAreTold'
  BY <1>2 DEF MadeIsOwed, ChangesAreTold
<1>4. CallsAreGood'
  <2> SUFFICES ASSUME NEW t \in Slots, NEW c \in GateCall, c = call[t] PROVE GoodCall(c)'
    BY DEF CallsAreGood, GateTyped
  <2>1. GoodCall(c) /\ contents <= contents
    BY DEF CallsAreGood, GateTyped
  <2> QED
    BY <2>1, GoodStays
<1> QED
  BY <1>1, <1>3, <1>4

LEMMA GateReads ==
    ASSUME GateInv, UNCHANGED <<disk, log>>
    PROVE  /\ CurrentRuns' = CurrentRuns /\ LatestChange' = LatestChange
           /\ \A i : \A f : Covers(i, f)' = Covers(i, f)
<1>1. LatestChange' = LatestChange /\ LatestEquivalentRuns' = LatestEquivalentRuns
  BY DEF LatestChange, CodeEvents, LatestEquivalentRuns, Runs
<1> QED
  BY <1>1 DEF CurrentRuns, Covers

\* The gate lets an answer through: nothing is owed any more, and the current runs come
\* behind the event that tells of a change.
LEMMA AnswerPassesStep ==
    ASSUME GateInv, AnswerPasses
    PROVE  GateInv'
<1> USE GateFacts
<1>1. /\ \A t \in Slots : ~InFlight(t)
      /\ UNCHANGED <<disk, head, contents, made, baseline, log, call, untold, blurred>>
      /\ final' = IF gate.released THEN "released" ELSE "passed"
      /\ EvaluateCompletion = "passed" \/ gate.released
  BY DEF AnswerPasses, workspaceVars
<1>2. EndedAtRest'
  BY <1>1 DEF EndedAtRest, InFlight
<1>3. PassedMeansChecked'
  <2> SUFFICES ASSUME final' = "passed", NEW f \in CodeFiles, f \notin untold, ~Untouched(f)
               PROVE  CurrentRuns # {} /\ \A i \in CurrentRuns : log[i].passed /\ Covers(i, f)
    BY <1>1, GateReads DEF PassedMeansChecked, Untouched
  <2>1. EvaluateCompletion = "passed"
    BY <1>1
  <2>2. ~Owed(f)
    BY <1>1 DEF Owed, InFlight, CallsAreGood, GoodCall
  <2>3. PICK e \in DOMAIN log : EventAt(e, f) /\ \A i \in DOMAIN log : i > e /\ log[i].kind = "run" => Covers(i, f)
    BY <2>2, GateAssumption DEF ChangesAreTold, ToldOf
  <2>4. e \in CodeEvents /\ CodeEvents \in SUBSET (1..Len(log))
    BY <2>3 DEF CodeEvents, EventAt
  <2>5. LatestChange \in 1..Len(log) /\ e <= LatestChange
    BY <2>4, NewestRow DEF LatestChange
  <2>6. CurrentRuns # {} /\ \A d \in Digests : d.passed
    BY <2>1, <2>5 DEF EvaluateCompletion
  <2>7. ASSUME NEW i \in CurrentRuns PROVE log[i].passed /\ Covers(i, f)
    <3>1. i \in 1..Len(log) /\ log[i].kind = "run" /\ i > LatestChange
      BY DEF CurrentRuns, LatestEquivalentRuns, Runs
    <3>2. i > e
      BY <2>4, <2>5, <3>1
    <3> DEFINE d == [command |-> log[i].command, passed |-> log[i].passed, diags |-> log[i].diags]
    <3>3. d \in Digests
      BY DEF Digests
    <3>4. d.passed
      BY <2>6, <3>3
    <3> QED
      BY <2>3, <3>1, <3>2, <3>4
  <2> QED
    BY <2>6, <2>7
<1> QED
  BY <1>1, <1>2, <1>3, GateKeeps DEF GateInv, ChangesAreAccountedFor

\* It lets one through unread.
LEMMA AnswerUnreadStep ==
    ASSUME GateInv, AnswerUnread
    PROVE  GateInv'
<1>1. /\ \A t \in Slots : ~InFlight(t)
      /\ UNCHANGED <<disk, head, contents, made, baseline, log, call, untold, blurred>>
      /\ final' # "passed"
  BY DEF AnswerUnread, workspaceVars
<1>2. EndedAtRest' /\ PassedMeansChecked'
  BY <1>1 DEF EndedAtRest, InFlight, PassedMeansChecked
<1> QED
  BY <1>1, <1>2, GateKeeps DEF GateInv, ChangesAreAccountedFor

\* It asks for more, or nothing happens.
LEMMA GateWaits ==
    ASSUME GateInv, UNCHANGED <<disk, head, contents, baseline, log, call, final, made, untold, blurred>>
    PROVE  GateInv'
<1>1. EndedAtRest'
  BY DEF GateInv, EndedAtRest, InFlight
<1>2. PassedMeansChecked'
  BY GateReads DEF GateInv, ChangesAreAccountedFor, PassedMeansChecked
<1> QED
  BY <1>1, <1>2, GateKeeps DEF GateInv, ChangesAreAccountedFor

\* A turn that has not begun.
LEMMA GateStarts == ASSUME GateInit PROVE GateInv
<1>0. /\ disk = [f \in Files |-> AsFound] /\ head \in [Files -> {AsFound, Elsewhere}] /\ contents = 1
      /\ baseline = [f \in Files |-> <<>>] /\ log = <<>> /\ call = [s \in Slots |-> RestingCall]
      /\ final = None /\ made = [f \in Files |-> {}] /\ untold = {} /\ blurred = {}
  BY DEF GateInit, AsFound
<1>1. log \in Seq(GateRow) /\ DOMAIN log = {}
  BY <1>0
<1>2. GateTyped
  BY <1>0, <1>1, RestingIsCall DEF GateTyped, AsFound, Elsewhere
<1>3. NewestContent
  BY <1>0 DEF NewestContent, AsFound, Elsewhere
<1>4. CallsAreGood
  BY <1>0, RestingIsCall DEF CallsAreGood, GoodCall
<1>5. MadeIsOwed /\ ChangesAreTold
  BY <1>0 DEF MadeIsOwed, ChangesAreTold, Untouched
<1>6. EndedAtRest /\ BaselineIsNotTheAgents
  BY <1>0 DEF EndedAtRest, BaselineIsNotTheAgents
<1>7. PassedMeansChecked /\ FailuresAreTold
  BY <1>0, <1>1 DEF PassedMeansChecked, FailuresAreTold, Runs, None
<1> QED
  BY <1>2, <1>3, <1>4, <1>5, <1>6, <1>7 DEF GateInv, ChangesAreAccountedFor

\* One step of the turn.
LEMMA GateSteps == ASSUME GateInv, [GateNext]_gateVars PROVE GateInv'
<1>1. CASE UNCHANGED gateVars
  BY <1>1, GateWaits DEF gateVars
<1>2. CASE AnswerPasses
  BY <1>2, AnswerPassesStep
<1>3. CASE AnswerUnread
  BY <1>3, AnswerUnreadStep
<1>4. CASE RewriteFinal
  BY <1>4, GateWaits DEF RewriteFinal, workspaceVars
<1>5. ASSUME NEW s \in Slots, NEW f \in Files,
             CaptureFile(s, f) \/ WriteTool(s, f) \/ RecordEvent(s, f)
      PROVE  GateInv'
  BY <1>5, CaptureFileStep, WriteStepGate, RecordEventStep
<1>6. ASSUME NEW s \in Slots, NEW f \in Files,
             \/ CommandReads(s, f) \/ CommandWrites(s, f)
             \/ CommandRestores(s, f) \/ CommandCommits(s, f)
      PROVE  GateInv'
  BY <1>6, CommandReadsStep, WriteStepGate, CommandRestoresStep, CommandCommitsStep
<1>7. ASSUME NEW s \in Slots, CreateBaseline(s) \/ EndTool(s) \/ StoreNoRun(s) PROVE GateInv'
  BY <1>7, CreateBaselineStep, EndQuietly
<1>8. ASSUME NEW s \in Slots, NEW ok \in BOOLEAN, ToolReturns(s, ok) \/ TrackCommand(s, ok) \/ StatusFails(s, ok)
      PROVE  GateInv'
  BY <1>8, ToolReturnsStep, TrackCommandStep, StatusFailsStep
<1>9. ASSUME NEW s \in Slots, NEW listed \in SUBSET Files, NEW below \in SUBSET Files, NEW added \in SUBSET Files,
             BeginTool(s, listed, below, added)
      PROVE  GateInv'
  BY <1>9, BeginToolStep
<1>10. ASSUME NEW s \in Slots, NEW c \in Commands, StatusBefore(s, c) PROVE GateInv'
  BY <1>10, StatusBeforeStep
<1>11. ASSUME NEW s \in Slots, NEW out \in Outputs, StoreRun(s, out) PROVE GateInv'
  BY <1>11, StoreRunStep
<1> QED
  BY <1>1, <1>2, <1>3, <1>4, <1>5, <1>6, <1>7, <1>8, <1>9, <1>10, <1>11 DEF GateNext

\* A turn shows what the agent has changed: no baseline is a content of the agent's,
\* unless a change was behind no baseline when another call captured or committed the
\* file or its own call ended.  When the gate lets an answer through as passed, every
\* code file that no call has left untold is as the user left it, or the current runs
\* have all passed and each has read it as it is, or was running when it was changed.
\* And no failed run is without a diagnostic.
THEOREM ChangesAccounted == GateSpec => []ChangesAreAccountedFor
<1>1. GateInit => GateInv
  BY GateStarts
<1>2. GateInv /\ [GateNext]_gateVars => GateInv'
  BY GateSteps
<1>3. GateInv => ChangesAreAccountedFor
  BY DEF GateInv
<1> QED
  BY <1>1, <1>2, <1>3, PTL DEF GateSpec

-----------------------------------------------------------------------------
(***************************************************************************)
(* The file tools: what a call changes is what its effect says, for every  *)
(* tree, whatever links it holds.  First what the paths need: prefixes     *)
(* name by name, and induction over the links that are followed.           *)
(***************************************************************************)
Paths == Seq(STRING)

(* A set with zero and with the successor of each of its naturals has all. *)
LEMMA AllNaturals ==
  ASSUME NEW S, 0 \in S, \A n \in Nat : n \in S => n + 1 \in S
  PROVE  \A n \in Nat : n \in S
<1> DEFINE R == OpToRel(<, Nat)
           T == Nat \ S
<1>1. \A x, y \in Nat : y < x => <<y, x>> \in R
  BY DEF OpToRel
<1>2. IsWellFoundedOn(R, Nat)
  BY NatLessThanWellFounded
<1> HIDE DEF R
<1>3. SUFFICES ASSUME T # {} PROVE FALSE
  BY <1>3
<1>4. PICK x \in T : \A y \in T : <<y, x>> \notin R
  BY <1>2, <1>3, WFMin
<1>5. x \in Nat /\ x # 0 /\ x \notin S
  BY <1>4
<1>6. x - 1 \in Nat /\ x - 1 < x /\ (x - 1) + 1 = x
  BY <1>5
<1>7. x - 1 \notin S
  BY <1>5, <1>6
<1> QED
  BY <1>1, <1>4, <1>5, <1>6, <1>7

LEMMA SamePath ==
  ASSUME NEW p \in Paths, NEW q \in Paths, Len(p) = Len(q),
         \A i \in 1..Len(p) : p[i] = q[i]
  PROVE  p = q
  BY SeqEqual DEF Paths

(* The first names of a path.                                              *)
LEMMA UptoPath ==
  ASSUME NEW p \in Paths, NEW n \in 0..Len(p)
  PROVE  /\ Upto(p, n) \in Paths /\ Len(Upto(p, n)) = n
         /\ \A i \in 1..n : Upto(p, n)[i] = p[i]
<1>1. n \in Nat /\ n <= Len(p) /\ Len(p) \in Nat
  BY DEF Paths
<1>2. Upto(p, n) = [i \in 1..n |-> p[i]]
  BY <1>1, SubSeqProperties DEF Upto, Paths
<1>3. \A i \in 1..n : p[i] \in STRING
  BY <1>1 DEF Paths
<1> QED
  BY <1>1, <1>2, <1>3 DEF Paths

LEMMA UptoAll ==
  ASSUME NEW p \in Paths
  PROVE  Upto(p, Len(p)) = p
<1>1. Len(p) \in 0..Len(p)
  BY DEF Paths
<1> QED
  BY <1>1, UptoPath, SamePath

LEMMA UptoUpto ==
  ASSUME NEW p \in Paths, NEW n \in 0..Len(p), NEW m \in 0..n
  PROVE  Upto(Upto(p, n), m) = Upto(p, m)
<1>1. m \in 0..Len(p) /\ m \in 0..Len(Upto(p, n)) /\ Upto(p, n) \in Paths
  <2>1. Upto(p, n) \in Paths /\ Len(Upto(p, n)) = n
    BY UptoPath
  <2>2. Len(p) \in Nat
    BY LenProperties DEF Paths
  <2> QED
    BY <2>1, <2>2
<1>2. /\ Upto(p, m) \in Paths /\ Len(Upto(p, m)) = m
      /\ \A i \in 1..m : Upto(p, m)[i] = p[i]
  BY <1>1, UptoPath
<1>3. /\ Upto(Upto(p, n), m) \in Paths /\ Len(Upto(Upto(p, n), m)) = m
      /\ \A i \in 1..m : Upto(Upto(p, n), m)[i] = Upto(p, n)[i]
  BY <1>1, UptoPath
<1>4. \A i \in 1..m : Upto(p, n)[i] = p[i]
  BY UptoPath
<1> QED
  BY <1>2, <1>3, <1>4, SamePath

(* A prefix is what its name says.                                         *)
LEMMA PrefixUpto ==
  ASSUME NEW p \in Paths, NEW q \in Paths
  PROVE  IsPrefix(q, p) <=> Len(q) <= Len(p) /\ Upto(p, Len(q)) = q
  BY UptoAll DEF IsPrefix, Upto

LEMMA PrefixNames ==
  ASSUME NEW p \in Paths, NEW q \in Paths
  PROVE  IsPrefix(q, p) <=> Len(q) <= Len(p) /\ \A i \in 1..Len(q) : q[i] = p[i]
<1>1. CASE Len(q) <= Len(p)
  <2>1. Len(q) \in 0..Len(p)
    BY <1>1 DEF Paths
  <2>2. /\ Upto(p, Len(q)) \in Paths /\ Len(Upto(p, Len(q))) = Len(q)
        /\ \A i \in 1..Len(q) : Upto(p, Len(q))[i] = p[i]
    BY <2>1, UptoPath
  <2>3. ASSUME \A i \in 1..Len(q) : q[i] = p[i] PROVE Upto(p, Len(q)) = q
    BY <2>2, <2>3, SamePath
  <2> QED
    BY <1>1, <2>2, <2>3, PrefixUpto
<1>2. CASE ~(Len(q) <= Len(p))
  BY <1>2, PrefixUpto
<1> QED
  BY <1>1, <1>2

LEMMA UptoPrefix ==
  ASSUME NEW p \in Paths, NEW n \in 0..Len(p)
  PROVE  IsPrefix(Upto(p, n), p)
<1>1. n <= Len(p)
  BY DEF Paths
<1> QED
  BY <1>1, UptoPath, PrefixUpto

LEMMA PrefixSelf ==
  ASSUME NEW p \in Paths
  PROVE  IsPrefix(p, p)
  BY PrefixNames DEF Paths

LEMMA PrefixTransitive ==
  ASSUME NEW p \in Paths, NEW q \in Paths, NEW r \in Paths,
         IsPrefix(p, q), IsPrefix(q, r)
  PROVE  IsPrefix(p, r)
<1>1. Len(p) \in Nat /\ Len(q) \in Nat /\ Len(r) \in Nat
  BY DEF Paths
<1> QED
  BY <1>1, PrefixNames

LEMMA PrefixBoth ==
  ASSUME NEW p \in Paths, NEW q \in Paths, IsPrefix(p, q), IsPrefix(q, p)
  PROVE  p = q
<1>1. Len(p) \in Nat /\ Len(q) \in Nat
  BY DEF Paths
<1>2. Len(p) = Len(q)
  BY <1>1, PrefixNames
<1> QED
  BY <1>2, PrefixNames, SamePath

(* Of two prefixes of one path one is a prefix of the other.               *)
LEMMA PrefixesMeet ==
  ASSUME NEW p \in Paths, NEW q \in Paths, NEW r \in Paths,
         IsPrefix(p, r), IsPrefix(q, r)
  PROVE  IsPrefix(p, q) \/ IsPrefix(q, p)
<1>1. Len(p) \in Nat /\ Len(q) \in Nat /\ Len(r) \in Nat
  BY DEF Paths
<1>2. /\ Len(p) <= Len(r) /\ \A i \in 1..Len(p) : p[i] = r[i]
      /\ Len(q) <= Len(r) /\ \A i \in 1..Len(q) : q[i] = r[i]
  BY PrefixNames
<1>3. CASE Len(p) <= Len(q)
  BY <1>1, <1>2, <1>3, PrefixNames
<1>4. CASE Len(q) <= Len(p)
  BY <1>1, <1>2, <1>4, PrefixNames
<1> QED
  BY <1>1, <1>3, <1>4

LEMMA RootPath == Root \in Paths /\ Len(Root) = 0
  BY DEF Root, Paths

LEMMA RootOrNamed ==
  ASSUME NEW p \in Paths
  PROVE  p # Root <=> Len(p) >= 1
  BY DEF Root, Paths

(* The last name of a path and what it stands in.                          *)
LEMMA FrontPath ==
  ASSUME NEW p \in Paths, p # Root
  PROVE  /\ Len(p) \in Nat /\ Len(p) >= 1
         /\ Front(p) = Upto(p, Len(p) - 1)
         /\ Front(p) \in Paths /\ Len(Front(p)) = Len(p) - 1
         /\ Last(p) \in STRING
         /\ p = Append(Front(p), Last(p))
<1>1. Len(p) \in Nat /\ Len(p) >= 1
  BY RootOrNamed DEF Paths
<1>2. Front(p) = Upto(p, Len(p) - 1) /\ Len(p) - 1 \in 0..Len(p)
  BY <1>1 DEF Front, Upto
<1>3. /\ Front(p) \in Paths /\ Len(Front(p)) = Len(p) - 1
      /\ \A i \in 1..Len(p) - 1 : Front(p)[i] = p[i]
  BY <1>2, UptoPath
<1>4. Last(p) = p[Len(p)] /\ Last(p) \in STRING
  BY <1>1 DEF Last, Paths
<1>5. /\ Append(Front(p), Last(p)) \in Paths
      /\ Len(Append(Front(p), Last(p))) = Len(p)
      /\ \A i \in 1..Len(p) : Append(Front(p), Last(p))[i]
                                = IF i = Len(p) THEN Last(p) ELSE Front(p)[i]
  BY <1>1, <1>3, <1>4 DEF Paths
<1>6. \A i \in 1..Len(p) : Append(Front(p), Last(p))[i] = p[i]
  BY <1>1, <1>3, <1>4, <1>5
<1> QED
  BY <1>1, <1>2, <1>3, <1>4, <1>5, <1>6, SamePath

LEMMA AppendNames ==
  ASSUME NEW S, NEW u \in Seq(S), NEW x \in S
  PROVE  /\ Append(u, x) \in Seq(S) /\ Len(Append(u, x)) = Len(u) + 1 /\ Len(u) \in Nat
         /\ \A i \in 1..Len(u) : Append(u, x)[i] = u[i]
         /\ Append(u, x)[Len(u) + 1] = x /\ Append(u, x) # <<>>
<1>1. Append(u, x) \in Seq(S) /\ Len(Append(u, x)) = Len(u) + 1 /\ Len(u) \in Nat
  OBVIOUS
<1>2. \A i \in 1..Len(u) : Append(u, x)[i] = u[i]
  OBVIOUS
<1>3. Append(u, x)[Len(u) + 1] = x
  OBVIOUS
<1>4. Append(u, x) # <<>>
  BY AppendProperties
<1> QED
  BY <1>1, <1>2, <1>3, <1>4

LEMMA AppendStrings ==
  ASSUME NEW u \in Seq(STRING), NEW x \in STRING
  PROVE  /\ Append(u, x) \in Seq(STRING) /\ Len(Append(u, x)) = Len(u) + 1 /\ Len(u) \in Nat
         /\ \A i \in 1..Len(u) : Append(u, x)[i] = u[i]
         /\ Append(u, x)[Len(u) + 1] = x /\ Append(u, x) # <<>>
  BY AppendNames, Zenon

LEMMA AppendPath ==
  ASSUME NEW u \in Paths, NEW x \in STRING
  PROVE  /\ Append(u, x) \in Paths /\ Append(u, x) # Root
         /\ Len(Append(u, x)) = Len(u) + 1
         /\ Len(u) \in Nat
         /\ \A n \in 0..Len(u) : Upto(Append(u, x), n) = Upto(u, n)
         /\ Front(Append(u, x)) = u /\ Last(Append(u, x)) = x
         /\ \A i \in 1..Len(u) : Append(u, x)[i] = u[i]
         /\ Append(u, x)[Len(u) + 1] = x
<1>1. /\ Append(u, x) \in Paths /\ Len(Append(u, x)) = Len(u) + 1 /\ Len(u) \in Nat
      /\ \A i \in 1..Len(u) : Append(u, x)[i] = u[i]
      /\ Append(u, x)[Len(u) + 1] = x
  BY AppendStrings, Zenon DEF Paths
<1>2. Append(u, x) # Root
  BY AppendStrings, Zenon DEF Root, Paths
<1>3. ASSUME NEW n \in 0..Len(u) PROVE Upto(Append(u, x), n) = Upto(u, n)
  <2>1. n \in 0..Len(Append(u, x))
    BY <1>1
  <2>2. /\ Upto(u, n) \in Paths /\ Len(Upto(u, n)) = n
        /\ \A i \in 1..n : Upto(u, n)[i] = u[i]
    BY UptoPath
  <2>3. /\ Upto(Append(u, x), n) \in Paths /\ Len(Upto(Append(u, x), n)) = n
        /\ \A i \in 1..n : Upto(Append(u, x), n)[i] = Append(u, x)[i]
    BY <1>1, <2>1, UptoPath
  <2>4. \A i \in 1..n : i \in 1..Len(u)
    BY <1>1
  <2> QED
    BY <1>1, <2>2, <2>3, <2>4, SamePath
<1>4. Front(Append(u, x)) = Upto(Append(u, x), Len(u)) /\ Len(u) \in 0..Len(u)
  BY <1>1 DEF Front, Upto
<1>5. Front(Append(u, x)) = u
  BY <1>3, <1>4, UptoAll
<1>6. Last(Append(u, x)) = x
  <2>1. Last(Append(u, x)) = Append(u, x)[Len(Append(u, x))]
    BY DEF Last
  <2> QED
    BY <1>1, <2>1
<1> QED
  BY <1>1, <1>2, <1>3, <1>5, <1>6

(* What lies below a path of the workspace lies in it.                     *)
LEMMA WithinBelow ==
  ASSUME NEW p \in Paths, NEW q \in Paths, p # Root, IsPrefix(p, q)
  PROVE  Within(p) <=> Within(q)
<1>1. Len(p) \in Nat /\ Len(q) \in Nat /\ Len(p) >= 1
  BY RootOrNamed DEF Paths
<1>2. Len(p) <= Len(q) /\ p[1] = q[1]
  BY <1>1, PrefixNames
<1>3. q # Root
  BY <1>1, <1>2, RootOrNamed
<1>4. Head(p) = p[1] /\ Head(q) = q[1]
  OBVIOUS
<1> QED
  BY <1>2, <1>3, <1>4 DEF Within

LEMMA WithinAbove ==
  ASSUME NEW p \in Paths, NEW q \in Paths, IsPrefix(q, p), Within(p)
  PROVE  Within(q)
<1>1. CASE q = Root
  BY <1>1 DEF Within
<1>2. CASE q # Root
  BY <1>2, WithinBelow
<1> QED
  BY <1>1, <1>2


-----------------------------------------------------------------------------
(***************************************************************************)
(* Following links.  A path with none left stays where it is, and a path   *)
(* whose front is followed first ends where the path itself does.          *)
(***************************************************************************)
TreeTyped == tree \in [Places -> Node] /\ tree[Root].kind = "dir"

LEMMA PlacesArePaths ==
  /\ Root \in Places /\ MaxLinks \in Nat
  /\ \A p \in Places :
        /\ p \in Paths /\ p # <<"..">>
        /\ \A n \in 0..Len(p) : Upto(p, n) \in Places \cup {<<"..">>}
  BY FileToolsAssumption DEF Paths, Upto

LEMMA NodeFacts ==
  ASSUME TreeTyped, NEW q
  PROVE  /\ NodeAt(q) \in Node /\ NodeAt(q).to \in Paths
         /\ NodeAt(q).kind \in {"none", "file", "dir", "link"}
         /\ NodeAt(q).kind # "none" => q \in Places
         /\ NodeAt(q).kind = "none" => NodeAt(q) = NoNode
         /\ q \in Places => NodeAt(q) = tree[q]
<1>1. NoNode \in Node /\ NoNode.to \in Paths /\ NoNode.kind = "none"
  BY RootPath DEF NoNode, Node
<1>2. \A v \in Node : /\ v.to \in Paths /\ v.kind \in {"none", "file", "dir", "link"}
                      /\ v.kind = "none" => v = NoNode
  BY <1>1, PlacesArePaths DEF Node
<1>3. CASE q \in Places
  BY <1>2, <1>3 DEF TreeTyped, NodeAt
<1>4. CASE q \notin Places
  BY <1>1, <1>4 DEF NodeAt
<1> QED
  BY <1>3, <1>4

LEMMA LinksOnPath ==
  ASSUME TreeTyped, NEW p \in Paths
  PROVE  /\ LinksOn(p) \subseteq Nat
         /\ \A n : n \in LinksOn(p) <=>
               n \in 1..Len(p) /\ NodeAt(Upto(p, n)).kind = "link"
  BY DEF LinksOn, Paths

LEMMA LinksOnUpto ==
  ASSUME TreeTyped, NEW p \in Paths, NEW n \in 0..Len(p), LinksOn(p) = {}
  PROVE  LinksOn(Upto(p, n)) = {}
<1>1. Upto(p, n) \in Paths /\ Len(Upto(p, n)) = n /\ Len(p) \in Nat
  BY UptoPath DEF Paths
<1>2. ASSUME NEW m \in LinksOn(Upto(p, n)) PROVE FALSE
  <2>1. m \in 1..n /\ NodeAt(Upto(Upto(p, n), m)).kind = "link"
    BY <1>1, <1>2, LinksOnPath
  <2>2. m \in 0..n /\ m \in 1..Len(p)
    BY <1>1, <2>1
  <2>3. Upto(Upto(p, n), m) = Upto(p, m)
    BY <2>2, UptoUpto
  <2> QED
    BY <2>1, <2>2, <2>3, LinksOnPath
<1> QED
  BY <1>2

LEMMA LinksOnAppend ==
  ASSUME TreeTyped, NEW u \in Paths, NEW x \in STRING
  PROVE  /\ LinksOn(u) \subseteq LinksOn(Append(u, x))
         /\ LinksOn(Append(u, x)) \subseteq LinksOn(u) \cup {Len(u) + 1}
         /\ Len(u) + 1 \in LinksOn(Append(u, x)) <=> NodeAt(Append(u, x)).kind = "link"
<1> DEFINE v == Append(u, x)
<1>1. /\ v \in Paths /\ Len(v) = Len(u) + 1 /\ Len(u) \in Nat
      /\ \A n \in 0..Len(u) : Upto(v, n) = Upto(u, n)
      /\ Upto(v, Len(v)) = v
  BY AppendPath, UptoAll
<1> HIDE DEF v
<1>2. ASSUME NEW n \in LinksOn(u) PROVE n \in LinksOn(v)
  <2>1. n \in 1..Len(u) /\ NodeAt(Upto(u, n)).kind = "link"
    BY <1>2, LinksOnPath
  <2>2. n \in 0..Len(u) /\ n \in 1..Len(v)
    BY <1>1, <2>1
  <2> QED
    BY <1>1, <2>1, <2>2, LinksOnPath
<1>3. ASSUME NEW n \in LinksOn(v), n # Len(u) + 1 PROVE n \in LinksOn(u)
  <2>1. n \in 1..Len(v) /\ NodeAt(Upto(v, n)).kind = "link"
    BY <1>1, <1>3, LinksOnPath
  <2>2. n \in 0..Len(u) /\ n \in 1..Len(u)
    BY <1>1, <1>3, <2>1
  <2> QED
    BY <1>1, <2>1, <2>2, LinksOnPath
<1>4. Len(u) + 1 \in LinksOn(v) <=> NodeAt(v).kind = "link"
  <2>1. Len(u) + 1 \in 1..Len(v)
    BY <1>1
  <2> QED
    BY <1>1, <2>1, LinksOnPath
<1> QED
  BY <1>2, <1>3, <1>4 DEF v

(* The first of the links on a path.                                       *)
LEMMA FirstLink ==
  ASSUME TreeTyped, NEW p \in Paths, LinksOn(p) # {}
  PROVE  \E n \in LinksOn(p) :
           /\ n \in 1..Len(p)
           /\ \A k \in LinksOn(p) : n <= k
           /\ Hop(p) = NodeAt(Upto(p, n)).to \o SubSeq(p, n + 1, Len(p))
<1> DEFINE First(n) == n \in LinksOn(p) /\ \A k \in LinksOn(p) : n <= k
           R == OpToRel(<, Nat)
<1>1. \A x, y \in Nat : y < x => <<y, x>> \in R
  BY DEF OpToRel
<1>2. IsWellFoundedOn(R, Nat)
  BY NatLessThanWellFounded
<1> HIDE DEF R
<1>3. PICK x \in LinksOn(p) : \A y \in LinksOn(p) : <<y, x>> \notin R
  BY <1>2, LinksOnPath, WFMin
<1>4. \A y \in LinksOn(p) : x <= y
  <2>1. LinksOn(p) \subseteq Nat
    BY LinksOnPath
  <2>2. \A y \in LinksOn(p) : ~(y < x)
    BY <1>1, <1>3, <2>1
  <2> QED
    BY <2>1, <2>2
<1>5. \E n \in LinksOn(p) : \A k \in LinksOn(p) : n <= k
  BY <1>4
<1>6. PICK n : /\ n \in LinksOn(p) /\ \A k \in LinksOn(p) : n <= k
               /\ n = CHOOSE m \in LinksOn(p) : \A k \in LinksOn(p) : m <= k
  BY <1>5
<1>7. Hop(p) = NodeAt(Upto(p, n)).to \o SubSeq(p, n + 1, Len(p))
  BY <1>6 DEF Hop
<1> QED
  BY <1>6, <1>7, LinksOnPath

LEMMA RestPath ==
  ASSUME NEW p \in Paths, NEW n \in 0..Len(p)
  PROVE  /\ SubSeq(p, n + 1, Len(p)) \in Paths
         /\ Len(SubSeq(p, n + 1, Len(p))) = Len(p) - n
         /\ \A i \in 1..Len(p) - n : SubSeq(p, n + 1, Len(p))[i] = p[n + i]
<1>1. Len(p) \in Nat /\ n \in Nat /\ n <= Len(p)
  BY DEF Paths
<1>2. \A i \in n + 1..Len(p) : p[i] \in STRING
  BY <1>1 DEF Paths
<1>3. /\ SubSeq(p, n + 1, Len(p)) \in Seq(STRING)
      /\ Len(SubSeq(p, n + 1, Len(p)))
           = IF n + 1 <= Len(p) THEN Len(p) - (n + 1) + 1 ELSE 0
      /\ \A i \in 1..Len(p) - (n + 1) + 1 :
           SubSeq(p, n + 1, Len(p))[i] = p[(n + 1) + i - 1]
  <2>1. n + 1 \in Int /\ Len(p) \in Int
    BY <1>1
  <2> QED
    BY <1>2, <2>1, SubSeqProperties
<1> QED
  BY <1>1, <1>3 DEF Paths

LEMMA HopPath ==
  ASSUME TreeTyped, NEW p \in Paths
  PROVE  Hop(p) \in Paths /\ (LinksOn(p) = {} => Hop(p) = p)
<1>1. CASE LinksOn(p) = {}
  BY <1>1 DEF Hop
<1>2. CASE LinksOn(p) # {}
  <2>1. PICK n \in 1..Len(p) :
               Hop(p) = NodeAt(Upto(p, n)).to \o SubSeq(p, n + 1, Len(p))
    BY <1>2, FirstLink
  <2>2. n \in 0..Len(p)
    BY <2>1 DEF Paths
  <2>3. NodeAt(Upto(p, n)).to \in Paths /\ SubSeq(p, n + 1, Len(p)) \in Paths
    BY <2>2, NodeFacts, RestPath
  <2> QED
    BY <1>2, <2>1, <2>3, ConcatProperties DEF Paths
<1> QED
  BY <1>1, <1>2

LEMMA OneName ==
  ASSUME NEW S, NEW x \in S
  PROVE  <<x>> \in Seq(S)
  OBVIOUS

LEMMA ConcatAppend ==
  ASSUME NEW s \in Paths, NEW u \in Paths, NEW x \in STRING
  PROVE  s \o Append(u, x) = Append(s \o u, x)
<1>1. s \in Seq(STRING) /\ u \in Seq(STRING)
  BY DEF Paths
<1>2. <<x>> \in Seq(STRING)
  BY OneName
<1>3. Append(u, x) = u \o <<x>>
  BY <1>1, AppendIsConcat
<1>4. s \o u \in Seq(STRING)
  BY <1>1, ConcatProperties
<1>5. Append(s \o u, x) = (s \o u) \o <<x>>
  BY <1>4, AppendIsConcat
<1>6. s \o (u \o <<x>>) = (s \o u) \o <<x>>
  BY <1>1, <1>2, ConcatAssociative
<1> QED
  BY <1>3, <1>5, <1>6, Zenon

(* A link that is followed in the front is followed in the path.           *)
LEMMA HopAppend ==
  ASSUME TreeTyped, NEW u \in Paths, NEW x \in STRING, LinksOn(u) # {}
  PROVE  Hop(Append(u, x)) = Append(Hop(u), x)
<1> DEFINE v == Append(u, x)
<1>1. /\ v \in Paths /\ Len(v) = Len(u) + 1 /\ Len(u) \in Nat
      /\ \A n \in 0..Len(u) : Upto(v, n) = Upto(u, n)
  BY AppendPath
<1>2. /\ LinksOn(u) \subseteq LinksOn(v)
      /\ LinksOn(v) \subseteq LinksOn(u) \cup {Len(u) + 1}
  BY LinksOnAppend
<1>3. LinksOn(u) \subseteq Nat /\ LinksOn(v) \subseteq Nat
  BY <1>1, LinksOnPath
<1>4. PICK n \in LinksOn(u) :
         /\ n \in 1..Len(u)
         /\ \A k \in LinksOn(u) : n <= k
         /\ Hop(u) = NodeAt(Upto(u, n)).to \o SubSeq(u, n + 1, Len(u))
  BY FirstLink
<1> HIDE DEF v
<1>5. LinksOn(v) # {}
  BY <1>2
<1>6. PICK m \in LinksOn(v) :
         /\ m \in 1..Len(v)
         /\ \A k \in LinksOn(v) : m <= k
         /\ Hop(v) = NodeAt(Upto(v, m)).to \o SubSeq(v, m + 1, Len(v))
  BY <1>1, <1>5, FirstLink
<1>7. m = n
  <2>1. m <= n
    BY <1>2, <1>4, <1>6
  <2>2. m \in LinksOn(u)
    BY <1>1, <1>2, <1>3, <1>4, <1>6, <2>1
  <2> QED
    BY <1>3, <1>4, <2>1, <2>2
<1>8. n \in 0..Len(u) /\ n \in 0..Len(v)
  BY <1>1, <1>4
<1>9. SubSeq(v, n + 1, Len(v)) = Append(SubSeq(u, n + 1, Len(u)), x)
  <2> DEFINE a == SubSeq(v, n + 1, Len(v))
  <2> DEFINE b == SubSeq(u, n + 1, Len(u))
  <2>1. /\ a \in Paths /\ Len(a) = Len(v) - n
        /\ \A i \in 1..Len(v) - n : a[i] = v[n + i]
    BY <1>1, <1>8, RestPath
  <2>2. /\ b \in Paths /\ Len(b) = Len(u) - n
        /\ \A i \in 1..Len(u) - n : b[i] = u[n + i]
    BY <1>8, RestPath
  <2>3. /\ Append(b, x) \in Paths /\ Len(Append(b, x)) = Len(b) + 1 /\ Len(b) \in Nat
        /\ \A i \in 1..Len(b) : Append(b, x)[i] = b[i]
        /\ Append(b, x)[Len(b) + 1] = x
    BY <2>2, AppendPath
  <2>4. /\ \A i \in 1..Len(u) : v[i] = u[i]
        /\ v[Len(u) + 1] = x
    BY AppendPath DEF v
  <2> HIDE DEF a, b
  <2>5. ASSUME NEW i \in 1..Len(a) PROVE a[i] = Append(b, x)[i]
    <3>1. CASE i = Len(b) + 1
      <4>1. i \in 1..Len(v) - n /\ n + i = Len(u) + 1
        BY <1>1, <1>8, <2>1, <2>2, <3>1
      <4>2. a[i] = x
        BY <2>1, <2>4, <4>1
      <4> QED
        BY <2>3, <3>1, <4>2
    <3>2. CASE i # Len(b) + 1
      <4>0. Len(a) = Len(v) - n /\ Len(b) = Len(u) - n
        BY <2>1, <2>2
      <4>1. i \in 1..Len(b) /\ n + i \in 1..Len(u) /\ i \in 1..Len(v) - n
        BY <1>1, <1>8, <3>2, <4>0
      <4>2. a[i] = u[n + i]
        BY <2>1, <2>4, <4>1
      <4>3. b[i] = u[n + i]
        BY <2>2, <2>3, <4>1
      <4> QED
        BY <2>3, <4>1, <4>2, <4>3
    <3> QED
      BY <3>1, <3>2
  <2>6. Len(a) = Len(Append(b, x))
    BY <1>1, <1>8, <2>1, <2>2, <2>3
  <2>7. a = Append(b, x)
    BY <2>1, <2>3, <2>5, <2>6, SamePath
  <2> QED
    BY <2>7 DEF a, b
<1>10. NodeAt(Upto(u, n)).to \in Paths /\ SubSeq(u, n + 1, Len(u)) \in Paths
  BY <1>8, NodeFacts, RestPath
<1>11. Upto(v, m) = Upto(u, n)
  BY <1>1, <1>7, <1>8
<1>12. Hop(v) = NodeAt(Upto(u, n)).to \o Append(SubSeq(u, n + 1, Len(u)), x)
  BY <1>6, <1>7, <1>9, <1>11, Zenon
<1>13. NodeAt(Upto(u, n)).to \o Append(SubSeq(u, n + 1, Len(u)), x)
         = Append(NodeAt(Upto(u, n)).to \o SubSeq(u, n + 1, Len(u)), x)
  BY <1>10, ConcatAppend, Zenon
<1>14. Hop(v) = Append(Hop(u), x)
  BY <1>4, <1>12, <1>13, Zenon
<1> QED
  BY <1>14 DEF v


(* Every number of links up to the last has been followed from the one     *)
(* before.                                                                 *)
LEMMA HopsAre ==
  ASSUME NEW p
  PROVE  /\ Hops(p)[0] = p
         /\ \A n \in 1..MaxLinks : Hops(p)[n] = Hop(Hops(p)[n - 1])
<1> DEFINE Is(f, m) == f = [n \in 0..m |-> IF n = 0 THEN p ELSE Hop(f[n - 1])]
           S == {m \in Nat : \E f : Is(f, m)}
<1>1. 0 \in S
  <2>1. Is([n \in 0..0 |-> p], 0)
    OBVIOUS
  <2> QED
    BY <2>1
<1>2. ASSUME NEW m \in Nat, m \in S PROVE m + 1 \in S
  <2>1. PICK f : Is(f, m)
    BY <1>2
  <2> DEFINE g == [n \in 0..m + 1 |-> IF n = m + 1 THEN Hop(f[m]) ELSE f[n]]
  <2>2. f = [n \in 0..m |-> IF n = 0 THEN p ELSE Hop(f[n - 1])]
    BY <2>1
  <2> HIDE DEF Is
  <2>3. ASSUME NEW n \in 0..m + 1
        PROVE  g[n] = IF n = 0 THEN p ELSE Hop(g[n - 1])
    <3>1. CASE n = m + 1
      <4>1. n # 0 /\ n - 1 = m /\ m \in 0..m + 1 /\ m # m + 1
        BY <3>1
      <4>2. g[m] = f[m] /\ g[n] = Hop(f[m])
        BY <3>1, <4>1
      <4> QED
        BY <4>1, <4>2
    <3>2. CASE n # m + 1
      <4>1. n \in 0..m
        BY <3>2
      <4>2. g[n] = f[n] /\ f[n] = IF n = 0 THEN p ELSE Hop(f[n - 1])
        BY <2>2, <3>2, <4>1
      <4>3. CASE n # 0
        <5>1. n - 1 \in 0..m + 1 /\ n - 1 # m + 1
          BY <4>1, <4>3
        <5>2. g[n - 1] = f[n - 1]
          BY <5>1
        <5> QED
          BY <4>2, <4>3, <5>2
      <4> QED
        BY <4>2, <4>3
    <3> QED
      BY <3>1, <3>2
  <2>4. g = [n \in 0..m + 1 |-> g[n]]
    OBVIOUS
  <2> HIDE DEF g
  <2>5. g = [n \in 0..m + 1 |-> IF n = 0 THEN p ELSE Hop(g[n - 1])]
    BY <2>3, <2>4
  <2>6. Is(g, m + 1)
    BY <2>5 DEF Is
  <2> QED
    BY <2>6
<1>3. MaxLinks \in Nat
  BY PlacesArePaths
<1>4. \E f : Is(f, MaxLinks)
  <2> HIDE DEF Is
  <2>1. \A m \in Nat : m \in S
    <3> HIDE DEF S
    <3> QED
      BY <1>1, <1>2, AllNaturals
  <2> QED
    BY <1>3, <2>1
<1>5. Hops(p) = CHOOSE f : Is(f, MaxLinks)
  BY DEF Hops
<1>6. Is(Hops(p), MaxLinks)
  <2> HIDE DEF Is
  <2> QED
    BY <1>4, <1>5
<1>7. Hops(p) = [n \in 0..MaxLinks |-> IF n = 0 THEN p ELSE Hop(Hops(p)[n - 1])]
  BY <1>6
<1> HIDE DEF Is, S
<1>8. \A n \in 0..MaxLinks : Hops(p)[n] = IF n = 0 THEN p ELSE Hop(Hops(p)[n - 1])
  BY <1>7
<1>9. 0 \in 0..MaxLinks /\ \A n \in 1..MaxLinks : n \in 0..MaxLinks /\ n # 0
  BY <1>3
<1> QED
  BY <1>8, <1>9

LEMMA HopsPaths ==
  ASSUME TreeTyped, NEW p \in Paths
  PROVE  \A n \in 0..MaxLinks : Hops(p)[n] \in Paths
<1> DEFINE S == {n \in Nat : n \in 0..MaxLinks => Hops(p)[n] \in Paths}
<1>1. 0 \in S
  BY HopsAre
<1>2. ASSUME NEW n \in Nat, n \in S PROVE n + 1 \in S
  <2>1. SUFFICES ASSUME n + 1 \in 0..MaxLinks PROVE Hops(p)[n + 1] \in Paths
    OBVIOUS
  <2>2. n \in 0..MaxLinks /\ n + 1 \in 1..MaxLinks /\ (n + 1) - 1 = n
    BY <2>1, PlacesArePaths
  <2>3. Hops(p)[n] \in Paths
    BY <1>2, <2>2
  <2>4. Hops(p)[n + 1] = Hop(Hops(p)[n])
    BY <2>2, HopsAre
  <2> QED
    BY <2>3, <2>4, HopPath
<1>3. \A n \in Nat : n \in S
  <2> HIDE DEF S
  <2> QED
    BY <1>1, <1>2, AllNaturals
<1> QED
  BY <1>3

(* Where no link is left it stays.                                         *)
LEMMA HopsStay ==
  ASSUME TreeTyped, NEW p \in Paths, NEW k \in 0..MaxLinks,
         LinksOn(Hops(p)[k]) = {}
  PROVE  \A n \in k..MaxLinks : Hops(p)[n] = Hops(p)[k]
<1> DEFINE S == {n \in Nat : k + n \in 0..MaxLinks => Hops(p)[k + n] = Hops(p)[k]}
<1>1. k \in Nat /\ MaxLinks \in Nat
  BY PlacesArePaths
<1>2. 0 \in S
  BY <1>1
<1>3. ASSUME NEW n \in Nat, n \in S PROVE n + 1 \in S
  <2>1. SUFFICES ASSUME k + (n + 1) \in 0..MaxLinks
                 PROVE  Hops(p)[k + (n + 1)] = Hops(p)[k]
    OBVIOUS
  <2>2. /\ k + n \in 0..MaxLinks /\ k + (n + 1) \in 1..MaxLinks
        /\ (k + (n + 1)) - 1 = k + n
    BY <1>1, <2>1
  <2>3. Hops(p)[k + n] = Hops(p)[k] /\ Hops(p)[k + n] \in Paths
    BY <1>3, <2>2, HopsPaths
  <2>4. Hops(p)[k + (n + 1)] = Hop(Hops(p)[k + n])
    BY <2>2, HopsAre
  <2> QED
    BY <2>3, <2>4, HopPath
<1>4. \A n \in Nat : n \in S
  <2> HIDE DEF S
  <2> QED
    BY <1>2, <1>3, AllNaturals
<1>5. ASSUME NEW n \in k..MaxLinks PROVE Hops(p)[n] = Hops(p)[k]
  <2>1. n - k \in Nat /\ k + (n - k) = n /\ n \in 0..MaxLinks
    BY <1>1
  <2>2. n - k \in S
    BY <1>4, <2>1
  <2> QED
    BY <2>1, <2>2
<1> QED
  BY <1>5

(* A path without links is real.                                           *)
LEMMA RealOfReal ==
  ASSUME TreeTyped, NEW p \in Paths, LinksOn(p) = {}
  PROVE  Real(p) = p
<1>1. MaxLinks \in Nat /\ 0 \in 0..MaxLinks /\ MaxLinks \in 0..MaxLinks
  BY PlacesArePaths
<1>2. Hops(p)[0] = p
  BY HopsAre
<1> QED
  BY <1>1, <1>2, HopsStay DEF Real

LEMMA RealPath ==
  ASSUME TreeTyped, NEW p \in Paths
  PROVE  Real(p) \in Paths
<1>1. MaxLinks \in 0..MaxLinks
  BY PlacesArePaths
<1> QED
  BY <1>1, HopsPaths DEF Real

(* Following on from where some links have been followed.                  *)
LEMMA HopsGoOn ==
  ASSUME TreeTyped, NEW p \in Paths, NEW j \in 0..MaxLinks
  PROVE  \A i \in 0..MaxLinks - j : Hops(Hops(p)[j])[i] = Hops(p)[j + i]
<1> DEFINE q == Hops(p)[j]
           S == {i \in Nat : i \in 0..MaxLinks - j => Hops(q)[i] = Hops(p)[j + i]}
<1>1. j \in Nat /\ MaxLinks \in Nat
  BY PlacesArePaths
<1>2. 0 \in S
  BY <1>1, HopsAre
<1>3. ASSUME NEW i \in Nat, i \in S PROVE i + 1 \in S
  <2>1. SUFFICES ASSUME i + 1 \in 0..MaxLinks - j
                 PROVE  Hops(q)[i + 1] = Hops(p)[j + (i + 1)]
    OBVIOUS
  <2>2. /\ i \in 0..MaxLinks - j /\ i + 1 \in 1..MaxLinks /\ (i + 1) - 1 = i
        /\ j + (i + 1) \in 1..MaxLinks /\ (j + (i + 1)) - 1 = j + i
    BY <1>1, <2>1
  <2>3. Hops(q)[i] = Hops(p)[j + i]
    BY <1>3, <2>2
  <2> HIDE DEF q, S
  <2>4. Hops(q)[i + 1] = Hop(Hops(q)[i])
    BY <2>2, HopsAre
  <2>5. Hops(p)[j + (i + 1)] = Hop(Hops(p)[j + i])
    BY <2>2, HopsAre
  <2> QED
    BY <2>3, <2>4, <2>5
<1>4. \A i \in Nat : i \in S
  <2> HIDE DEF S
  <2> QED
    BY <1>2, <1>3, AllNaturals
<1> QED
  BY <1>1, <1>4

(* As long as the front has links, they are the first that are followed.   *)
LEMMA FrontGoesFirst ==
  ASSUME TreeTyped, NEW u \in Paths, NEW x \in STRING, NEW m \in 0..MaxLinks,
         \A k \in 0..MaxLinks : k < m => LinksOn(Hops(u)[k]) # {}
  PROVE  Hops(Append(u, x))[m] = Append(Hops(u)[m], x)
<1> DEFINE v == Append(u, x)
           Same(n) == Hops(v)[n] = Append(Hops(u)[n], x)
           S == {n \in Nat : n \in 0..m => Same(n)}
<1>1. m \in Nat /\ MaxLinks \in Nat
  BY PlacesArePaths
<1>2. 0 \in S
  BY HopsAre
<1>3. ASSUME NEW n \in Nat, n \in S PROVE n + 1 \in S
  <2> HIDE DEF Same
  <2>1. SUFFICES ASSUME n + 1 \in 0..m PROVE Same(n + 1)
    OBVIOUS
  <2>2. /\ n \in 0..m /\ n < m /\ n \in 0..MaxLinks
        /\ n + 1 \in 1..MaxLinks /\ (n + 1) - 1 = n
    BY <1>1, <2>1
  <2>3. Same(n)
    BY <1>3, <2>2
  <2> HIDE DEF v, S
  <2>4. Hops(v)[n + 1] = Hop(Hops(v)[n]) /\ Hops(u)[n + 1] = Hop(Hops(u)[n])
    BY <2>2, HopsAre
  <2>5. Hops(u)[n] \in Paths /\ LinksOn(Hops(u)[n]) # {}
    BY <2>2, HopsPaths
  <2>6. Hop(Append(Hops(u)[n], x)) = Append(Hop(Hops(u)[n]), x)
    BY <2>5, HopAppend
  <2> QED
    BY <2>3, <2>4, <2>6 DEF Same
<1>4. \A n \in Nat : n \in S
  <2> HIDE DEF S
  <2> QED
    BY <1>2, <1>3, AllNaturals
<1>5. m \in Nat /\ m \in 0..m
  BY <1>1
<1>6. Same(m)
  <2> HIDE DEF Same
  <2> QED
    BY <1>4, <1>5
<1> QED
  BY <1>6

(* A path that ends without a link has a front that does.                  *)
LEMMA FrontSettles ==
  ASSUME TreeTyped, NEW u \in Paths, NEW x \in STRING,
         LinksOn(Real(Append(u, x))) = {}
  PROVE  LinksOn(Real(u)) = {}
<1>1. MaxLinks \in Nat /\ MaxLinks \in 0..MaxLinks
  BY PlacesArePaths
<1>2. SUFFICES ASSUME LinksOn(Real(u)) # {} PROVE FALSE
  OBVIOUS
<1>3. ASSUME NEW k \in 0..MaxLinks PROVE LinksOn(Hops(u)[k]) # {}
  <2>1. SUFFICES ASSUME LinksOn(Hops(u)[k]) = {} PROVE FALSE
    OBVIOUS
  <2>2. MaxLinks \in k..MaxLinks
    BY <1>1
  <2>3. Hops(u)[MaxLinks] = Hops(u)[k]
    BY <2>1, <2>2, HopsStay
  <2> QED
    BY <1>2, <2>1, <2>3 DEF Real
<1>4. Real(Append(u, x)) = Append(Real(u), x)
  BY <1>1, <1>3, FrontGoesFirst DEF Real
<1> QED
  BY <1>2, <1>4, RealPath, LinksOnAppend

(* Where the place itself leads is where the path leads.                   *)
LEMMA SpotLeadsThere ==
  ASSUME TreeTyped, NEW p \in Paths, p # Root, LinksOn(Real(p)) = {}
  PROVE  /\ Spot(p) = Append(Real(Front(p)), Last(p))
         /\ Spot(p) \in Paths /\ Spot(p) # Root /\ Last(Spot(p)) = Last(p)
         /\ Front(Spot(p)) = Real(Front(p))
         /\ Real(Front(p)) \in Paths /\ LinksOn(Real(Front(p))) = {}
         /\ Real(Spot(p)) = Real(p)
<1> DEFINE u == Front(p)
           x == Last(p)
           s == Append(Real(u), x)
<1>1. u \in Paths /\ x \in STRING /\ p = Append(u, x)
  BY FrontPath
<1>2. Spot(p) = s
  BY DEF Spot
<1> HIDE DEF u, x
<1>3. Real(u) \in Paths /\ LinksOn(Real(u)) = {}
  BY <1>1, RealPath, FrontSettles
<1>4. s \in Paths /\ s # Root /\ Front(s) = Real(u) /\ Last(s) = x
  BY <1>1, <1>3, AppendPath
<1> HIDE DEF s
<1>5. MaxLinks \in Nat /\ MaxLinks \in 0..MaxLinks
  BY PlacesArePaths
<1>6. \E j \in 0..MaxLinks : /\ LinksOn(Hops(u)[j]) = {}
                             /\ \A k \in 0..MaxLinks : k < j => LinksOn(Hops(u)[k]) # {}
  <2> DEFINE T == {j \in 0..MaxLinks : LinksOn(Hops(u)[j]) = {}}
             R == OpToRel(<, Nat)
  <2>1. MaxLinks \in T /\ T \subseteq Nat
    BY <1>3, <1>5 DEF Real
  <2>2. \A a, b \in Nat : b < a => <<b, a>> \in R
    BY DEF OpToRel
  <2>3. IsWellFoundedOn(R, Nat)
    BY NatLessThanWellFounded
  <2> HIDE DEF R
  <2>4. PICK j \in T : \A k \in T : <<k, j>> \notin R
    <3> HIDE DEF T
    <3> QED
      BY <2>1, <2>3, WFMin
  <2>5. \A k \in T : ~(k < j)
    BY <2>1, <2>2, <2>4
  <2> QED
    BY <2>4, <2>5
<1>7. PICK j \in 0..MaxLinks :
         /\ LinksOn(Hops(u)[j]) = {}
         /\ \A k \in 0..MaxLinks : k < j => LinksOn(Hops(u)[k]) # {}
  BY <1>6
<1>8. Hops(u)[j] = Real(u)
  <2>1. MaxLinks \in j..MaxLinks
    BY <1>5
  <2> QED
    BY <1>1, <1>7, <2>1, HopsStay DEF Real
<1>9. Hops(p)[j] = s
  BY <1>1, <1>7, <1>8, FrontGoesFirst DEF s
<1>10. MaxLinks - j \in 0..MaxLinks /\ MaxLinks - j \in 0..MaxLinks - j
       /\ j + (MaxLinks - j) = MaxLinks /\ MaxLinks \in (MaxLinks - j)..MaxLinks
  BY <1>5
<1>11. Hops(s)[MaxLinks - j] = Real(p)
  <2>1. Hops(Hops(p)[j])[MaxLinks - j] = Hops(p)[j + (MaxLinks - j)]
    BY <1>10, HopsGoOn
  <2> QED
    BY <1>9, <1>10, <2>1 DEF Real
<1>12. Hops(s)[MaxLinks] = Hops(s)[MaxLinks - j]
  BY <1>4, <1>10, <1>11, HopsStay
<1>13. Real(s) = Real(p)
  BY <1>11, <1>12 DEF Real
<1> QED
  BY <1>2, <1>3, <1>4, <1>13 DEF s, u, x


-----------------------------------------------------------------------------
(***************************************************************************)
(* Trees.  What exists lies in directories, and no call breaks that: links *)
(* and files have nothing below them.                                      *)
(***************************************************************************)
Sound(t) ==
    /\ t \in [Places -> Node] /\ t[Root].kind = "dir"
    /\ \A p, q \in Places : IsStrictPrefix(q, p) /\ t[p].kind # "none" => t[q].kind = "dir"

LEMMA SoundTree ==
  ASSUME Sound(tree)
  PROVE  /\ TreeTyped
         /\ NodeAt(Root).kind = "dir" /\ Root \in Places
         /\ \A p, q \in Places : IsStrictPrefix(q, p) /\ Exists(p) => IsDir(q)
  BY PlacesArePaths DEF Sound, TreeTyped, Exists, IsDir, NodeAt

LEMMA PlaceFacts ==
  ASSUME NEW p \in Places, NEW q \in Paths, IsPrefix(q, p), q # <<"..">>
  PROVE  q \in Places
<1>1. p \in Paths /\ \A n \in 0..Len(p) : Upto(p, n) \in Places \cup {<<"..">>}
  BY PlacesArePaths
<1>2. Len(q) \in 0..Len(p) /\ Upto(p, Len(q)) = q
  BY <1>1, PrefixUpto DEF Paths
<1> QED
  BY <1>1, <1>2

LEMMA AboveFacts ==
  ASSUME NEW f \in Paths, NEW q
  PROVE  q \in Above(f) <=> q \in Places /\ q \in Paths /\ IsStrictPrefix(q, f)
  BY PlacesArePaths DEF Above, IsStrictPrefix

(* Directories that are made on the way to a place.                        *)
LEMMA DirsMade ==
  ASSUME Sound(tree), NEW f \in Places, CanMakeDirs(f)
  PROVE  /\ Sound(WithDirs(Above(f)))
         /\ \A q \in Places : q \notin Above(f) => WithDirs(Above(f))[q] = tree[q]
         /\ \A q \in Above(f) : WithDirs(Above(f))[q].kind = "dir"
<1> DEFINE t == WithDirs(Above(f))
<1>1. f \in Paths /\ \A q \in Places : q \in Paths
  BY PlacesArePaths
<1>2. \A q \in Places : t[q] = IF q \in Above(f) /\ ~Exists(q)
                                 THEN [NoNode EXCEPT !.kind = "dir"] ELSE tree[q]
  BY DEF WithDirs
<1>3. [NoNode EXCEPT !.kind = "dir"] \in Node /\ [NoNode EXCEPT !.kind = "dir"].kind = "dir"
  BY PlacesArePaths DEF NoNode, Node
<1>4. t \in [Places -> Node]
  <2>1. t = [q \in Places |-> IF q \in Above(f) /\ ~Exists(q)
                                THEN [NoNode EXCEPT !.kind = "dir"] ELSE tree[q]]
    BY DEF WithDirs
  <2> QED
    BY <1>3, <2>1 DEF Sound
<1> HIDE DEF t
<1>5. ASSUME NEW q \in Above(f) PROVE t[q].kind = "dir"
  <2>1. q \in Places
    BY DEF Above
  <2>2. CASE ~Exists(q)
    BY <1>2, <1>3, <2>1, <2>2
  <2>3. CASE Exists(q) /\ q = Root
    BY <1>2, <2>1, <2>3 DEF Sound
  <2>4. CASE Exists(q) /\ q # Root
    <3>1. NodeAt(q).kind \in {"none", "dir"} /\ NodeAt(q) = tree[q]
      BY <2>1, <2>4 DEF CanMakeDirs, NodeAt
    <3> QED
      BY <1>2, <2>1, <2>4, <3>1 DEF Exists
  <2> QED
    BY <2>2, <2>3, <2>4
<1>6. \A q \in Places : q \notin Above(f) => t[q] = tree[q]
  BY <1>2
<1>7. t[Root].kind = "dir"
  BY <1>5, <1>6, PlacesArePaths DEF Sound
<1>8. ASSUME NEW p \in Places, NEW q \in Places, IsStrictPrefix(q, p), t[p].kind # "none"
      PROVE  t[q].kind = "dir"
  <2>1. CASE p \in Above(f)
    <3>1. IsPrefix(q, p) /\ IsPrefix(p, f) /\ q # p
      BY <1>8, <2>1 DEF Above, IsStrictPrefix
    <3>2. IsPrefix(q, f) /\ q # f
      BY <1>1, <3>1, PrefixTransitive, PrefixBoth
    <3>3. q \in Above(f)
      BY <3>2 DEF Above
    <3> QED
      BY <1>5, <3>3
  <2>2. CASE p \notin Above(f)
    <3>1. tree[p].kind # "none"
      BY <1>6, <1>8, <2>2
    <3>2. tree[q].kind = "dir"
      BY <1>8, <3>1 DEF Sound
    <3> QED
      BY <1>5, <1>6, <3>2
  <2> QED
    BY <2>1, <2>2
<1>9. Sound(t)
  BY <1>4, <1>7, <1>8 DEF Sound
<1> QED
  BY <1>5, <1>6, <1>9 DEF t

(* A place that goes with all there is below it.                           *)
Pruned(t, s) == [q \in Places |-> IF IsPrefix(s, q) THEN NoNode ELSE t[q]]

LEMMA PrunedSound ==
  ASSUME NEW t, Sound(t), NEW s \in Paths, s # Root
  PROVE  Sound(Pruned(t, s))
<1> DEFINE w == Pruned(t, s)
<1>1. \A q \in Places : w[q] = IF IsPrefix(s, q) THEN NoNode ELSE t[q]
  BY DEF Pruned
<1>2. w \in [Places -> Node]
  BY DEF Pruned, Sound, Node
<1> HIDE DEF w
<1>3. ~IsPrefix(s, Root)
  BY RootPath, RootOrNamed, PrefixNames
<1>4. w[Root].kind = "dir"
  BY <1>1, <1>3, PlacesArePaths DEF Sound
<1>5. ASSUME NEW p \in Places, NEW q \in Places, IsStrictPrefix(q, p), w[p].kind # "none"
      PROVE  w[q].kind = "dir"
  <2>1. p \in Paths /\ q \in Paths
    BY PlacesArePaths
  <2>2. ~IsPrefix(s, p) /\ w[p] = t[p]
    BY <1>1, <1>5 DEF NoNode
  <2>3. ~IsPrefix(s, q)
    BY <1>5, <2>1, <2>2, PrefixTransitive DEF IsStrictPrefix
  <2> QED
    BY <1>1, <1>5, <2>2, <2>3 DEF Sound
<1>6. Sound(w)
  BY <1>2, <1>4, <1>5 DEF Sound
<1> QED
  BY <1>6 DEF w

(* What lies below one place, seen below another.                          *)
LEMMA Graft ==
  ASSUME NEW s \in Paths, NEW f \in Paths, NEW q \in Paths, IsPrefix(f, q)
  PROVE  /\ Len(s) \in Nat /\ Len(f) \in Nat /\ Len(q) \in Nat /\ Len(f) <= Len(q)
         /\ Shift(f, s, q) \in Paths
         /\ Len(Shift(f, s, q)) = Len(s) + (Len(q) - Len(f))
         /\ \A i \in 1..Len(s) : Shift(f, s, q)[i] = s[i]
         /\ \A i \in 1..Len(q) - Len(f) : Shift(f, s, q)[Len(s) + i] = q[Len(f) + i]
<1> DEFINE r == SubSeq(q, Len(f) + 1, Len(q))
<1>1. Len(s) \in Nat /\ Len(f) \in Nat /\ Len(q) \in Nat /\ Len(f) <= Len(q)
  BY PrefixNames DEF Paths
<1>2. /\ r \in Paths /\ Len(r) = Len(q) - Len(f)
      /\ \A i \in 1..Len(q) - Len(f) : r[i] = q[Len(f) + i]
  BY <1>1, RestPath
<1>3. Shift(f, s, q) = s \o r
  BY DEF Shift
<1> HIDE DEF r
<1>4. s \in Seq(STRING) /\ r \in Seq(STRING)
  BY <1>2 DEF Paths
<1>5. /\ s \o r \in Seq(STRING) /\ Len(s \o r) = Len(s) + Len(r)
      /\ \A i \in 1..Len(s) + Len(r) :
            (s \o r)[i] = IF i <= Len(s) THEN s[i] ELSE r[i - Len(s)]
  BY <1>4, ConcatProperties
<1>6. ASSUME NEW i \in 1..Len(s) PROVE (s \o r)[i] = s[i]
  <2>1. i \in 1..Len(s) + Len(r) /\ i <= Len(s)
    BY <1>1, <1>2
  <2> QED
    BY <1>5, <2>1
<1>7. ASSUME NEW i \in 1..Len(q) - Len(f) PROVE (s \o r)[Len(s) + i] = q[Len(f) + i]
  <2>1. /\ Len(s) + i \in 1..Len(s) + Len(r) /\ ~(Len(s) + i <= Len(s))
        /\ (Len(s) + i) - Len(s) = i
    BY <1>1, <1>2
  <2> QED
    BY <1>2, <1>5, <2>1
<1> QED
  BY <1>1, <1>2, <1>3, <1>5, <1>6, <1>7 DEF Paths

LEMMA GraftPrefix ==
  ASSUME NEW s \in Paths, NEW f \in Paths, NEW q \in Paths, NEW p \in Paths,
         IsPrefix(f, q), IsPrefix(q, p), q # p
  PROVE  IsStrictPrefix(Shift(f, s, q), Shift(f, s, p))
<1> DEFINE a == Shift(f, s, q)
           b == Shift(f, s, p)
<1>1. IsPrefix(f, p)
  BY PrefixTransitive
<1>2. /\ Len(s) \in Nat /\ Len(f) \in Nat /\ Len(q) \in Nat /\ Len(f) <= Len(q)
      /\ a \in Paths /\ Len(a) = Len(s) + (Len(q) - Len(f))
      /\ \A i \in 1..Len(s) : a[i] = s[i]
      /\ \A i \in 1..Len(q) - Len(f) : a[Len(s) + i] = q[Len(f) + i]
  BY Graft, Zenon
<1>3. /\ Len(p) \in Nat
      /\ b \in Paths /\ Len(b) = Len(s) + (Len(p) - Len(f))
      /\ \A i \in 1..Len(s) : b[i] = s[i]
      /\ \A i \in 1..Len(p) - Len(f) : b[Len(s) + i] = p[Len(f) + i]
  BY <1>1, Graft, Zenon
<1> HIDE DEF a, b
<1>4. Len(q) <= Len(p) /\ \A i \in 1..Len(q) : q[i] = p[i]
  BY PrefixNames
<1>5. Len(q) # Len(p)
  BY <1>4, SamePath
<1>6. ASSUME NEW i \in 1..Len(a) PROVE a[i] = b[i]
  <2>1. CASE i <= Len(s)
    <3>1. i \in 1..Len(s)
      BY <1>2, <2>1
    <3> QED
      BY <1>2, <1>3, <3>1
  <2>2. CASE ~(i <= Len(s))
    <3>1. PICK j \in 1..Len(q) - Len(f) : i = Len(s) + j
      <4>1. i - Len(s) \in 1..Len(q) - Len(f) /\ i = Len(s) + (i - Len(s))
        BY <1>2, <2>2
      <4> QED
        BY <4>1
    <3>2. j \in 1..Len(p) - Len(f) /\ Len(f) + j \in 1..Len(q)
      BY <1>2, <1>3, <1>4
    <3>3. a[i] = q[Len(f) + j] /\ b[i] = p[Len(f) + j]
      BY <1>2, <1>3, <3>1, <3>2
    <3> QED
      BY <1>4, <3>2, <3>3
  <2> QED
    BY <2>1, <2>2
<1>7. Len(a) <= Len(b) /\ Len(a) # Len(b)
  BY <1>2, <1>3, <1>4, <1>5
<1>8. IsStrictPrefix(a, b)
  BY <1>2, <1>3, <1>6, <1>7, PrefixNames DEF IsStrictPrefix
<1> QED
  BY <1>8 DEF a, b

LEMMA CopiedIs ==
  ASSUME NEW s, NEW f
  PROVE  /\ Copied(s, f) = [q \in Places |->
                IF IsPrefix(f, q) /\ Shift(f, s, q) \in Places
                  THEN tree[Shift(f, s, q)] ELSE WithDirs(Above(f))[q]]
         /\ \A q \in Places : Copied(s, f)[q] =
                IF IsPrefix(f, q) /\ Shift(f, s, q) \in Places
                  THEN tree[Shift(f, s, q)] ELSE WithDirs(Above(f))[q]
  BY DEF Copied, Shift

(* A copy of something stands in directories, and so does what is in it.   *)
LEMMA CopiedSound ==
  ASSUME Sound(tree), NEW s \in Places, s # Root, NEW f \in Places, f # Root,
         ~Exists(f), CanMakeDirs(f)
  PROVE  Sound(Copied(s, f))
<1> DEFINE t == Copied(s, f)
           d == WithDirs(Above(f))
           g(q) == Shift(f, s, q)
<1>1. s \in Paths /\ f \in Paths /\ s # <<"..">> /\ \A q \in Places : q \in Paths
  BY PlacesArePaths
<1>2. /\ t = [q \in Places |-> IF IsPrefix(f, q) /\ g(q) \in Places THEN tree[g(q)] ELSE d[q]]
      /\ \A q \in Places : t[q] = IF IsPrefix(f, q) /\ g(q) \in Places THEN tree[g(q)] ELSE d[q]
  BY CopiedIs
<1>3. /\ Sound(d)
      /\ \A q \in Places : q \notin Above(f) => d[q] = tree[q]
      /\ \A q \in Above(f) : d[q].kind = "dir"
  BY DirsMade
<1> HIDE DEF t, d
<1>4. t \in [Places -> Node]
  <2>1. \A q \in Places : t[q] \in Node
    BY <1>2, <1>3 DEF Sound
  <2> QED
    BY <1>2, <2>1
<1>5. ~IsPrefix(f, Root)
  BY <1>1, RootPath, RootOrNamed, PrefixNames
<1>6. t[Root].kind = "dir"
  BY <1>2, <1>3, <1>5, PlacesArePaths DEF Sound
<1>7. tree[f].kind = "none"
  BY DEF Exists, NodeAt
<1>8. ASSUME NEW p \in Places, NEW q \in Places, IsStrictPrefix(q, p), t[p].kind # "none"
      PROVE  t[q].kind = "dir"
  <2>1. p \in Paths /\ q \in Paths /\ IsPrefix(q, p) /\ q # p
    BY <1>1, <1>8 DEF IsStrictPrefix
  <2>2. CASE ~IsPrefix(f, p)
    <3>1. ~IsPrefix(f, q)
      BY <1>1, <2>1, <2>2, PrefixTransitive
    <3>2. t[p] = d[p] /\ t[q] = d[q]
      BY <1>2, <2>2, <3>1
    <3> QED
      BY <1>3, <1>8, <3>2 DEF Sound
  <2>3. CASE IsPrefix(f, p)
    <3>1. g(p) \in Places /\ t[p] = tree[g(p)]
      <4>1. SUFFICES ASSUME g(p) \notin Places PROVE FALSE
        BY <1>2, <2>3
      <4>2. p \notin Above(f)
        BY <1>1, <2>3, PrefixBoth DEF Above
      <4>3. tree[p].kind # "none"
        BY <1>2, <1>3, <1>8, <4>1, <4>2
      <4>4. p = f \/ IsStrictPrefix(f, p)
        BY <2>3 DEF IsStrictPrefix
      <4> QED
        BY <1>7, <4>3, <4>4 DEF Sound
    <3>2. CASE IsPrefix(f, q)
      <4>1. IsStrictPrefix(g(q), g(p))
        BY <1>1, <2>1, <3>2, GraftPrefix
      <4>2. /\ g(q) \in Paths
            /\ Len(g(q)) = Len(s) + (Len(q) - Len(f))
            /\ Len(s) \in Nat /\ Len(q) \in Nat /\ Len(f) \in Nat /\ Len(f) <= Len(q)
            /\ \A i \in 1..Len(s) : g(q)[i] = s[i]
        BY <1>1, <2>1, <3>2, Graft
      <4>3. g(q) # <<"..">>
        <5>1. SUFFICES ASSUME g(q) = <<"..">> PROVE FALSE
          OBVIOUS
        <5>2. Len(g(q)) = 1 /\ Len(s) >= 1
          <6>1. Len(s) >= 1
            BY <1>1, RootOrNamed
          <6>2. Len(<<"..">>) = 1
            OBVIOUS
          <6> HIDE DEF g
          <6> QED
            BY <5>1, <6>1, <6>2
        <5> HIDE DEF g
        <5>3. Len(s) = Len(g(q))
          <6>1. \A a, b, c \in Nat : a + (b - c) = 1 /\ a >= 1 /\ c <= b => a = 1
            OBVIOUS
          <6>2. Len(s) + (Len(q) - Len(f)) = 1
            BY <4>2, <5>2, Zenon
          <6>3. Len(s) = 1
            BY <4>2, <5>2, <6>1, <6>2
          <6> QED
            BY <5>2, <6>3
        <5>4. s = g(q)
          BY <1>1, <4>2, <5>3, SamePath
        <5> QED
          BY <1>1, <5>1, <5>4
      <4>4. g(q) \in Places
        BY <3>1, <4>1, <4>2, <4>3, PlaceFacts DEF IsStrictPrefix
      <4>5. tree[g(q)].kind = "dir"
        BY <1>8, <3>1, <4>1, <4>4 DEF Sound
      <4> QED
        BY <1>2, <3>2, <4>4, <4>5
    <3>3. CASE ~IsPrefix(f, q)
      <4>1. IsPrefix(q, f) /\ q # f
        BY <1>1, <2>1, <2>3, <3>3, PrefixesMeet, PrefixSelf
      <4>2. q \in Above(f)
        BY <4>1 DEF Above
      <4> QED
        BY <1>2, <1>3, <3>3, <4>2
    <3> QED
      BY <3>2, <3>3
  <2> QED
    BY <2>2, <2>3
<1>9. Sound(t)
  BY <1>4, <1>6, <1>8 DEF Sound
<1> QED
  BY <1>9 DEF t


-----------------------------------------------------------------------------
(***************************************************************************)
(* What a path leads to and what an effect calls it.                       *)
(***************************************************************************)

(* The place itself, when it is no link, is where the path leads.          *)
LEMMA SpotIsReal ==
  ASSUME Sound(tree), NEW p \in Paths, LinksOn(Real(p)) = {},
         NodeAt(Spot(p)).kind # "link"
  PROVE  Spot(p) = Real(p) /\ LinksOn(Spot(p)) = {}
<1>1. TreeTyped
  BY SoundTree
<1>2. CASE p = Root
  <2>1. LinksOn(Root) = {}
    BY DEF LinksOn, Root
  <2>2. Real(Root) = Root
    BY <1>1, <2>1, RootPath, RealOfReal
  <2> QED
    BY <1>2, <2>1, <2>2 DEF Spot
<1>3. CASE p # Root
  <2>1. /\ Spot(p) = Append(Real(Front(p)), Last(p))
        /\ Spot(p) \in Paths
        /\ Real(Front(p)) \in Paths /\ LinksOn(Real(Front(p))) = {}
        /\ Real(Spot(p)) = Real(p)
    BY <1>1, <1>3, SpotLeadsThere
  <2>2. Last(p) \in STRING
    BY <1>3, FrontPath
  <2>3. LinksOn(Spot(p)) = {}
    BY <1>1, <2>1, <2>2, LinksOnAppend
  <2> QED
    BY <1>1, <2>1, <2>3, RealOfReal
<1> QED
  BY <1>2, <1>3

(* A path without links that ends in something is not broken.              *)
LEMMA NothingBroken ==
  ASSUME Sound(tree), NEW u \in Paths, NEW x \in STRING, LinksOn(u) = {},
         Exists(Append(u, x)), LinksOn(Real(Append(u, x))) = {},
         NodeAt(Append(u, x)).kind = "link" => Exists(Real(Append(u, x)))
  PROVE  ~Broken(Append(u, x))
<1> DEFINE s == Append(u, x)
<1>1. /\ s \in Paths /\ Len(s) = Len(u) + 1 /\ Len(u) \in Nat /\ s # Root
      /\ \A n \in 0..Len(u) : Upto(s, n) = Upto(u, n)
      /\ Upto(s, Len(s)) = s /\ Front(s) = u /\ Last(s) = x
  BY AppendPath, UptoAll
<1>2. TreeTyped
  BY SoundTree
<1>3. Spot(s) = s
  BY <1>1, <1>2, RealOfReal DEF Spot
<1>4. Exists(s) /\ LinksOn(Real(s)) = {} /\ (NodeAt(s).kind = "link" => Exists(Real(s)))
  OBVIOUS
<1> HIDE DEF s
<1>5. s \in Places
  BY <1>2, <1>4, NodeFacts DEF Exists
<1>6. ASSUME NEW n \in 1..Len(s) - 1
      PROVE  /\ Upto(s, n) \in Paths /\ Upto(s, n) # Root
             /\ LinksOn(Upto(s, n)) = {} /\ Real(Upto(s, n)) = Upto(s, n)
             /\ NodeAt(Upto(s, n)).kind \in {"none", "dir"}
             /\ Spot(Upto(s, n)) = Upto(s, n)
  <2> DEFINE a == Upto(s, n)
  <2>1. n \in 0..Len(s) /\ n \in 0..Len(u) /\ n \in Nat /\ n >= 1 /\ n # Len(s)
    BY <1>1
  <2>2. a \in Paths /\ Len(a) = n /\ IsPrefix(a, s)
    BY <1>1, <2>1, UptoPath, UptoPrefix
  <2>3. a # Root /\ a # s
    BY <2>1, <2>2, RootOrNamed
  <2>4. a = Upto(u, n)
    BY <1>1, <2>1
  <2>5. LinksOn(a) = {}
    BY <1>2, <2>1, <2>4, LinksOnUpto
  <2> HIDE DEF a
  <2>6. Real(a) = a
    BY <1>2, <2>2, <2>5, RealOfReal
  <2>7. NodeAt(a).kind \in {"none", "dir"}
    <3>1. CASE a \notin Places
      BY <3>1 DEF NodeAt, NoNode
    <3>2. CASE a \in Places
      <4>1. IsDir(a)
        BY <1>4, <1>5, <2>2, <2>3, <3>2, SoundTree DEF IsStrictPrefix
      <4> QED
        BY <4>1 DEF IsDir
    <3> QED
      BY <3>1, <3>2
  <2>8. Spot(a) = a
    <3>1. LinksOn(Real(a)) = {} /\ LinksOn(a) = {}
      BY <2>5, <2>6
    <3>2. LinksOn(Front(a)) = {} /\ Front(a) \in Paths /\ a = Append(Front(a), Last(a))
      <4>1. /\ Front(a) = Upto(a, Len(a) - 1) /\ Len(a) \in Nat /\ Len(a) >= 1
            /\ Front(a) \in Paths /\ a = Append(Front(a), Last(a))
        BY <2>2, <2>3, FrontPath
      <4>2. Len(a) - 1 \in 0..Len(a)
        BY <4>1
      <4> QED
        BY <1>2, <2>2, <2>5, <4>1, <4>2, LinksOnUpto
    <3>3. Real(Front(a)) = Front(a)
      BY <1>2, <3>2, RealOfReal
    <3> QED
      BY <2>3, <3>2, <3>3 DEF Spot
  <2> QED
    BY <2>2, <2>3, <2>5, <2>6, <2>7, <2>8 DEF a
<1>7. ~Circular(s)
  BY <1>4 DEF Circular
<1>8. ~Blocked(s)
  BY <1>6 DEF Blocked
<1>9. ~Dangling(s)
  <2>1. SUFFICES ASSUME NEW n \in 1..Len(s), NodeAt(Spot(Upto(s, n))).kind = "link",
                        ~Exists(Real(Upto(s, n)))
                 PROVE  FALSE
    BY DEF Dangling
  <2>2. CASE n = Len(s)
    BY <1>1, <1>3, <1>4, <2>1, <2>2
  <2>3. CASE n # Len(s)
    <3>1. n \in 1..Len(s) - 1
      BY <1>1, <2>3
    <3> QED
      BY <1>6, <2>1, <3>1
  <2> QED
    BY <2>2, <2>3
<1>10. ~Broken(s)
  BY <1>7, <1>8, <1>9 DEF Broken
<1> QED
  BY <1>10 DEF s

(* The place itself, when something is there, has the name of the path.    *)
LEMMA SpotIsKnown ==
  ASSUME Sound(tree), NEW p \in Paths, p # Root, ~Broken(p), Exists(Spot(p))
  PROVE  /\ Spot(p) \in Places /\ Spot(p) # Root /\ Last(Spot(p)) = Last(p)
         /\ Canonical(Spot(p)) = Canonical(p)
         /\ Real(Spot(p)) = Canonical(p)
<1>1. TreeTyped
  BY SoundTree
<1>2. LinksOn(Real(p)) = {} /\ ~Dangling(p) /\ Canonical(p) = Real(p)
  BY DEF Broken, Circular, Canonical
<1>3. /\ Spot(p) = Append(Real(Front(p)), Last(p))
      /\ Spot(p) \in Paths /\ Spot(p) # Root /\ Last(Spot(p)) = Last(p)
      /\ Real(Front(p)) \in Paths /\ LinksOn(Real(Front(p))) = {}
      /\ Real(Spot(p)) = Real(p)
  BY <1>1, <1>2, SpotLeadsThere
<1>4. Last(p) \in STRING /\ Len(p) \in 1..Len(p) /\ Upto(p, Len(p)) = p
  <2>1. Len(p) \in Nat /\ Len(p) >= 1 /\ Last(p) \in STRING
    BY FrontPath
  <2> QED
    BY <2>1, UptoAll
<1>5. NodeAt(Spot(p)).kind = "link" => Exists(Real(p))
  BY <1>2, <1>4 DEF Dangling
<1>6. ~Broken(Spot(p))
  BY <1>2, <1>3, <1>4, <1>5, NothingBroken
<1>7. Canonical(Spot(p)) = Real(p)
  BY <1>3, <1>6 DEF Canonical
<1>8. Spot(p) \in Places
  BY <1>1, NodeFacts DEF Exists
<1> QED
  BY <1>2, <1>3, <1>7, <1>8

LEMMA WriteFacts ==
  ASSUME Sound(tree), NEW p \in Places, MayWrite(p)
  PROVE  /\ p \in Paths /\ ~Broken(p) /\ LinksOn(Real(p)) = {}
         /\ Real(p) \in Paths /\ Within(Real(p))
         /\ Canonical(p) = Real(p) /\ WriteTarget(p).path = Real(p)
<1>1. p \in Paths /\ TreeTyped
  BY PlacesArePaths, SoundTree
<1>2. ~Broken(p) /\ Within(Real(p))
  BY DEF MayWrite
<1>3. Canonical(p) = Real(p) /\ LinksOn(Real(p)) = {}
  BY <1>2 DEF Canonical, Broken, Circular
<1>4. WriteTarget(p).path = Canonical(p)
  BY DEF WriteTarget
<1> QED
  BY <1>1, <1>2, <1>3, <1>4, RealPath

(* What a call says and what lies outside when it is made.                 *)
DoneBy(effect, after, wrote) ==
    [effect |-> effect,
     changed |-> {p \in Places : after[p] # tree[p]} \cup wrote,
     ways |-> {p \in Places : Canonical(p) \in {effect.path, effect.dest}},
     outside |-> {p \in Places : ~Within(p) /\ ~Within(Real(p))}]

Told(d, q) ==
    /\ q \notin d.outside
    /\ \E w \in Spoken(d) \ {Root} : IsPrefix(w, q) \/ q \in Above(w)

FileInv == Sound(tree) /\ FileTypeOK /\ EffectsAreTrue

LEMMA SpokenFacts ==
  ASSUME NEW effect, NEW after, NEW wrote
  PROVE  LET d == DoneBy(effect, after, wrote) IN
         /\ effect.path \in Spoken(d) /\ effect.dest \in Spoken(d)
         /\ \A w \in Places : Canonical(w) \in {effect.path, effect.dest} =>
               /\ w \in Spoken(d)
               /\ w # Root => Append(effect.dest, Last(w)) \in Spoken(d)
<1> DEFINE d == DoneBy(effect, after, wrote)
<1>1. d.effect = effect /\ d.ways = {p \in Places : Canonical(p) \in {effect.path, effect.dest}}
  BY DEF DoneBy
<1> HIDE DEF d
<1>2. effect.path \in Spoken(d) /\ effect.dest \in Spoken(d)
  BY <1>1 DEF Spoken
<1>3. ASSUME NEW w \in Places, Canonical(w) \in {effect.path, effect.dest}
      PROVE  w \in Spoken(d) /\ (w # Root => Append(effect.dest, Last(w)) \in Spoken(d))
  <2>1. w \in d.ways
    BY <1>1, <1>3
  <2>2. w # Root => w \in d.ways \ {Root}
    BY <2>1
  <2> QED
    BY <1>1, <2>1, <2>2 DEF Spoken
<1> QED
  BY <1>2, <1>3 DEF d

LEMMA ToldNear ==
  ASSUME NEW effect, NEW after, NEW wrote,
         NEW w \in Paths, w \in Spoken(DoneBy(effect, after, wrote)), w # Root, Within(w),
         NEW q \in Places, IsPrefix(w, q) \/ q \in Above(w)
  PROVE  Told(DoneBy(effect, after, wrote), q)
<1>1. q \in Paths
  BY PlacesArePaths
<1>2. Within(q)
  BY <1>1, WithinBelow, WithinAbove DEF Above
<1>3. q \notin DoneBy(effect, after, wrote).outside
  BY <1>2 DEF DoneBy
<1> QED
  BY <1>3 DEF Told

(* A call that tells what it changes keeps the invariant.                  *)
LEMMA CallKeeps ==
  ASSUME FileInv, NEW effect, NEW after, NEW wrote, Call(effect, after, wrote),
         Sound(after), wrote \subseteq Places,
         effect.kind = "filesystem-read" => after = tree /\ wrote = {},
         \A q \in Places : after[q] # tree[q] \/ q \in wrote =>
            Told(DoneBy(effect, after, wrote), q)
  PROVE  FileInv'
<1> DEFINE d == DoneBy(effect, after, wrote)
<1>1. tree' = after /\ done' = d
  BY DEF Call, DoneBy
<1>2. /\ d.effect = effect
      /\ d.changed = {p \in Places : after[p] # tree[p]} \cup wrote
  BY DEF DoneBy
<1>3. \A q \in Places : after[q] # tree[q] \/ q \in wrote => Told(d, q)
  OBVIOUS
<1> HIDE DEF d
<1>4. Sound(tree)'
  BY <1>1 DEF Sound
<1>5. d.changed \subseteq Places
  BY <1>2
<1>6. \A q \in d.changed : Told(d, q)
  BY <1>2, <1>3
<1>7. d.changed \cap d.outside = {}
  BY <1>6 DEF Told
<1>8. d.effect.kind = "filesystem-read" => d.changed = {}
  BY <1>2
<1>9. \A p \in d.changed : \E q \in Spoken(d) \ {Root} : IsPrefix(q, p) \/ p \in Above(q)
  BY <1>6 DEF Told
<1>10. OnlyTheWorkspaceChanges'
  BY <1>1, <1>7 DEF OnlyTheWorkspaceChanges
<1>11. EffectTellsTheChange'
  BY <1>1, <1>8, <1>9 DEF EffectTellsTheChange, Above
<1>12. FileTypeOK'
  BY <1>1, <1>5 DEF FileTypeOK, Sound
<1> QED
  BY <1>4, <1>10, <1>11, <1>12 DEF FileInv, EffectsAreTrue


-----------------------------------------------------------------------------
(***************************************************************************)
(* The tools, one by one.                                                  *)
(***************************************************************************)

(* One place that is filled anew.                                          *)
LEMMA Laid ==
  ASSUME NEW d, Sound(d), NEW r \in Places, r # Root, NEW v \in Node,
         \A q \in Places : IsStrictPrefix(q, r) => d[q].kind = "dir",
         \/ v.kind = "dir"
         \/ \A p \in Places : IsStrictPrefix(r, p) => d[p].kind = "none"
  PROVE  Sound([d EXCEPT ![r] = v])
<1> DEFINE t == [d EXCEPT ![r] = v]
<1>1. t \in [Places -> Node] /\ t[r] = v /\ \A q \in Places : q # r => t[q] = d[q]
  BY DEF Sound
<1> HIDE DEF t
<1>2. t[Root].kind = "dir"
  BY <1>1, PlacesArePaths DEF Sound
<1>3. ASSUME NEW p \in Places, NEW q \in Places, IsStrictPrefix(q, p), t[p].kind # "none"
      PROVE  t[q].kind = "dir"
  <2>1. p # q
    BY <1>3 DEF IsStrictPrefix
  <2>2. CASE p = r
    BY <1>1, <1>3, <2>1, <2>2
  <2>3. CASE p # r /\ q = r
    BY <1>1, <1>3, <2>3
  <2>4. CASE p # r /\ q # r
    BY <1>1, <1>3, <2>4 DEF Sound
  <2> QED
    BY <2>2, <2>3, <2>4
<1>4. Sound(t)
  BY <1>1, <1>2, <1>3 DEF Sound
<1> QED
  BY <1>4 DEF t

LEMMA NotAboveItself ==
  ASSUME NEW f \in Places, NEW q \in Places, IsPrefix(f, q)
  PROVE  q \notin Above(f)
<1>1. f \in Paths /\ q \in Paths
  BY PlacesArePaths
<1> QED
  BY <1>1, PrefixBoth DEF Above

LEMMA EffectFacts ==
  ASSUME NEW p, NEW recursive
  PROVE  /\ WriteEffect(p).path = WriteTarget(p).path
         /\ WriteEffect(p).kind # "filesystem-read"
         /\ StructureEffect(p).path = WriteTarget(p).path
         /\ StructureEffect(p).kind # "filesystem-read"
         /\ RmEffect(p, recursive).path = WriteTarget(p).path
         /\ RmEffect(p, recursive).kind # "filesystem-read"
  BY DEF WriteEffect, StructureEffect, RmEffect, FileEffect, WriteKind

LEMMA TransferFacts ==
  ASSUME NEW src, NEW dst
  PROVE  /\ TransferEffect(src, dst, TRUE).path = WriteTarget(src).path
         /\ TransferEffect(src, dst, FALSE).path = ReadTarget(src).path
         /\ \A b \in BOOLEAN :
               /\ TransferEffect(src, dst, b).dest = WriteTarget(dst).path
               /\ TransferEffect(src, dst, b).kind # "filesystem-read"
  BY DEF TransferEffect, FileEffect, WriteKind

LEMMA WriteFileStep ==
  ASSUME FileInv, NEW p \in Places, WriteFile(p)
  PROVE  FileInv'
<1> DEFINE r == Real(p)
           wrote == IF MayWrite(p) /\ NodeAt(r).kind = "file" THEN {r} ELSE {}
           after == Written(p)
           e == WriteEffect(p)
<1>1. Sound(tree) /\ TreeTyped
  BY SoundTree DEF FileInv
<1>2. Call(e, after, wrote)
  BY DEF WriteFile
<1>3. e.kind # "filesystem-read" /\ e.path = WriteTarget(p).path
  BY EffectFacts
<1> HIDE DEF e
<1>4. CASE ~MayWrite(p)
  <2>1. after = tree /\ wrote = {}
    BY <1>4 DEF Written
  <2> HIDE DEF after, wrote
  <2> QED
    BY <1>1, <1>2, <1>3, <2>1, CallKeeps
<1>5. CASE MayWrite(p)
  <2>1. r \in Paths /\ Within(r) /\ e.path = r
    BY <1>1, <1>3, <1>5, WriteFacts
  <2>2. e.path \in Spoken(DoneBy(e, after, wrote))
    BY SpokenFacts
  <2>3. wrote \subseteq Places /\ (wrote # {} => wrote = {r} /\ r # Root /\ r \in Places)
    <3>1. NodeAt(r).kind = "file" => r \in Places /\ r # Root
      BY <1>1, NodeFacts, SoundTree
    <3> QED
      BY <3>1
  <2> HIDE DEF wrote
  <2>4. CASE r # Root /\ r \in Places /\ ~IsDir(r) /\ CanMakeDirs(r)
    <3> DEFINE d == WithDirs(Above(r))
               v == [NoNode EXCEPT !.kind = "file"]
    <3>1. after = [d EXCEPT ![r] = v]
      BY <1>5, <2>4 DEF Written
    <3>2. /\ Sound(d)
          /\ \A q \in Places : q \notin Above(r) => d[q] = tree[q]
          /\ \A q \in Above(r) : d[q].kind = "dir"
      BY <1>1, <2>4, DirsMade
    <3>3. v \in Node
      BY PlacesArePaths DEF Node, NoNode
    <3> HIDE DEF d, v, after
    <3>4. \A q \in Places : IsStrictPrefix(q, r) => d[q].kind = "dir"
      BY <3>2 DEF IsStrictPrefix, Above
    <3>5. ASSUME NEW q \in Places, IsStrictPrefix(r, q) PROVE d[q].kind = "none"
      <4>1. q \notin Above(r)
        BY <2>4, <3>5, NotAboveItself DEF IsStrictPrefix
      <4>2. ~Exists(q)
        BY <1>1, <2>4, <3>5, SoundTree
      <4> QED
        BY <3>2, <4>1, <4>2 DEF Exists, NodeAt
    <3>6. Sound(after)
      BY <2>4, <3>1, <3>2, <3>3, <3>4, <3>5, Laid
    <3>7. ASSUME NEW q \in Places, after[q] # tree[q] \/ q \in wrote
          PROVE  IsPrefix(r, q) \/ q \in Above(r)
      <4>1. CASE q = r
        BY <2>1, <4>1, PrefixSelf
      <4>2. CASE q # r
        BY <2>3, <3>1, <3>2, <3>7, <4>2 DEF Sound
      <4> QED
        BY <4>1, <4>2
    <3>8. \A q \in Places : after[q] # tree[q] \/ q \in wrote => Told(DoneBy(e, after, wrote), q)
      BY <2>1, <2>2, <2>4, <3>7, ToldNear
    <3> QED
      BY <1>2, <1>3, <2>3, <3>6, <3>8, CallKeeps
  <2>5. CASE ~(r # Root /\ r \in Places /\ ~IsDir(r) /\ CanMakeDirs(r))
    <3>1. after = tree
      BY <2>5 DEF Written
    <3> HIDE DEF after
    <3>2. \A q \in Places : after[q] # tree[q] \/ q \in wrote => Told(DoneBy(e, after, wrote), q)
      <4>1. SUFFICES ASSUME NEW q \in Places, q \in wrote PROVE Told(DoneBy(e, after, wrote), q)
        BY <3>1
      <4>2. q = r /\ r # Root /\ IsPrefix(r, q)
        BY <2>1, <2>3, <4>1, PrefixSelf
      <4> QED
        BY <2>1, <2>2, <4>2, ToldNear
    <3> QED
      BY <1>1, <1>2, <1>3, <2>3, <3>1, <3>2, CallKeeps
  <2> QED
    BY <2>4, <2>5
<1> QED
  BY <1>4, <1>5

LEMMA MkdirStep ==
  ASSUME FileInv, NEW p \in Places, Mkdir(p)
  PROVE  FileInv'
<1> DEFINE r == Real(p)
           after == DirMade(p)
           e == StructureEffect(p)
<1>1. Sound(tree) /\ TreeTyped
  BY SoundTree DEF FileInv
<1>2. Call(e, after, {})
  BY DEF Mkdir
<1>3. e.kind # "filesystem-read" /\ e.path = WriteTarget(p).path
  BY EffectFacts
<1> HIDE DEF e
<1>4. CASE ~(MayWrite(p) /\ r \in Places /\ CanMakeDirs(r) /\ NodeAt(r).kind # "file")
  <2>1. after = tree
    BY <1>4 DEF DirMade
  <2> HIDE DEF after
  <2> QED
    BY <1>1, <1>2, <1>3, <2>1, CallKeeps
<1>5. CASE MayWrite(p) /\ r \in Places /\ CanMakeDirs(r) /\ NodeAt(r).kind # "file"
  <2> DEFINE d == WithDirs(Above(r))
             v == [NoNode EXCEPT !.kind = "dir"]
  <2>1. r \in Paths /\ Within(r) /\ e.path = r
    BY <1>1, <1>3, <1>5, WriteFacts
  <2>2. e.path \in Spoken(DoneBy(e, after, {}))
    BY SpokenFacts
  <2>3. /\ Sound(d)
        /\ \A q \in Places : q \notin Above(r) => d[q] = tree[q]
        /\ \A q \in Above(r) : d[q].kind = "dir"
    BY <1>1, <1>5, DirsMade
  <2>4. v \in Node /\ v.kind = "dir"
    BY PlacesArePaths DEF Node, NoNode
  <2>5. r \notin Above(r)
    BY DEF Above
  <2>6. after = WithDirs(Above(r) \cup {r})
    BY <1>5 DEF DirMade
  <2>7. after = IF Exists(r) THEN d ELSE [d EXCEPT ![r] = v]
    <3>1. \A q \in Places : after[q] = IF q \in Above(r) \cup {r} /\ ~Exists(q) THEN v ELSE tree[q]
      BY <2>6 DEF WithDirs
    <3>2. \A q \in Places : d[q] = IF q \in Above(r) /\ ~Exists(q) THEN v ELSE tree[q]
      BY DEF WithDirs
    <3>3. after = [q \in Places |-> after[q]] /\ d = [q \in Places |-> d[q]]
      BY <2>6 DEF WithDirs
    <3> HIDE DEF after, d, v, r
    <3>4. CASE Exists(r)
      <4>1. \A q \in Places : after[q] = d[q]
        BY <2>5, <3>1, <3>2, <3>4
      <4> QED
        BY <3>3, <3>4, <4>1
    <3>5. CASE ~Exists(r)
      <4> DEFINE w == [d EXCEPT ![r] = v]
      <4>1. w = [q \in Places |-> IF q = r THEN v ELSE d[q]]
        BY <3>3
      <4>2. \A q \in Places : after[q] = IF q = r THEN v ELSE d[q]
        BY <2>5, <3>1, <3>2, <3>5
      <4>3. after = w
        BY <3>3, <4>1, <4>2
      <4> QED
        BY <3>5, <4>3
    <3> QED
      BY <3>4, <3>5
  <2> HIDE DEF d, v, after
  <2>8. Sound(after)
    <3>1. CASE Exists(r)
      BY <2>3, <2>7, <3>1
    <3>2. CASE ~Exists(r)
      <4>1. r # Root
        BY <1>1, <3>2, SoundTree DEF Exists
      <4>2. \A q \in Places : IsStrictPrefix(q, r) => d[q].kind = "dir"
        BY <2>3 DEF IsStrictPrefix, Above
      <4> QED
        BY <1>5, <2>3, <2>4, <2>7, <3>2, <4>1, <4>2, Laid
    <3> QED
      BY <3>1, <3>2
  <2>9. ASSUME NEW q \in Places, after[q] # tree[q]
        PROVE  r # Root /\ (IsPrefix(r, q) \/ q \in Above(r))
    <3>1. q = r \/ q \in Above(r)
      BY <2>3, <2>7, <2>9 DEF Sound
    <3>2. q = r => ~Exists(r)
      BY <2>3, <2>5, <2>7, <2>9
    <3>3. CASE q = r
      BY <1>1, <2>1, <3>2, <3>3, PrefixSelf, SoundTree DEF Exists
    <3>4. CASE q # r
      <4>1. q \in Above(r)
        BY <3>1, <3>4
      <4>2. q \in Paths /\ IsPrefix(q, r) /\ q # r
        BY <4>1, PlacesArePaths DEF Above
      <4>3. r # Root
        BY <2>1, <4>2, RootPath, RootOrNamed, PrefixNames, PrefixBoth
      <4> QED
        BY <4>1, <4>3
    <3> QED
      BY <3>3, <3>4
  <2>10. \A q \in Places : after[q] # tree[q] \/ q \in {} => Told(DoneBy(e, after, {}), q)
    BY <2>1, <2>2, <2>9, ToldNear
  <2> QED
    BY <1>2, <1>3, <2>8, <2>10, CallKeeps
<1> QED
  BY <1>4, <1>5

(* Whatever goes with the place of a path that may be written is told, and *)
(* it lies in the workspace or is a link that leads there.                 *)
LEMMA ToldGone ==
  ASSUME Sound(tree), NEW effect, NEW after, NEW wrote,
         NEW p \in Places, p # Root, MayWrite(p), effect.path = WriteTarget(p).path,
         Exists(Spot(p)), NEW q \in Places, IsPrefix(Spot(p), q), Exists(q)
  PROVE  Told(DoneBy(effect, after, wrote), q)
<1> DEFINE s == Spot(p)
<1>1. /\ p \in Paths /\ ~Broken(p) /\ LinksOn(Real(p)) = {} /\ Within(Real(p))
      /\ Canonical(p) = Real(p) /\ effect.path = Real(p)
  BY WriteFacts
<1>2. s \in Places /\ s # Root /\ Canonical(s) = Real(p) /\ Real(s) = Real(p)
  BY <1>1, SpotIsKnown
<1>3. s \in Paths
  BY <1>2, PlacesArePaths
<1>4. s \in Spoken(DoneBy(effect, after, wrote))
  BY <1>1, <1>2, SpokenFacts
<1>5. CASE NodeAt(s).kind # "link"
  <2>1. Within(s)
    BY <1>1, <1>5, SpotIsReal
  <2> QED
    BY <1>2, <1>3, <1>4, <2>1, ToldNear
<1>6. CASE NodeAt(s).kind = "link"
  <2>1. q = s
    <3>1. SUFFICES ASSUME q # s PROVE FALSE
      OBVIOUS
    <3>2. IsDir(s)
      BY <1>2, <3>1, SoundTree DEF IsStrictPrefix
    <3> QED
      BY <1>6, <3>2 DEF IsDir
  <2>2. q \notin DoneBy(effect, after, wrote).outside
    BY <1>1, <1>2, <2>1 DEF DoneBy
  <2> QED
    BY <1>2, <1>4, <2>2 DEF Told
<1> QED
  BY <1>5, <1>6

LEMMA RmStep ==
  ASSUME FileInv, NEW p \in Places, NEW recursive \in BOOLEAN, Rm(p, recursive)
  PROVE  FileInv'
<1> DEFINE s == Spot(p)
           after == Removed(p, recursive)
           e == RmEffect(p, recursive)
           Acts == /\ MayWrite(p) /\ p # Root
                   /\ Exists(s)
                   /\ IsDir(s) /\ ~recursive => \A q \in Below(s) : ~Exists(q)
<1>1. Sound(tree) /\ TreeTyped
  BY SoundTree DEF FileInv
<1>2. Call(e, after, {})
  BY DEF Rm
<1>3. e.kind # "filesystem-read" /\ e.path = WriteTarget(p).path
  BY EffectFacts
<1> HIDE DEF e
<1>4. CASE ~Acts
  <2>1. after = tree
    BY <1>4 DEF Removed
  <2> HIDE DEF after
  <2> QED
    BY <1>1, <1>2, <1>3, <2>1, CallKeeps
<1>5. CASE Acts
  <2>1. s \in Places /\ s # Root
    BY <1>1, <1>5, WriteFacts, SpotIsKnown
  <2>2. s \in Paths
    BY <2>1, PlacesArePaths
  <2>3. after = [q \in Places |-> IF q = s \/ (IsDir(s) /\ q \in Below(s)) THEN NoNode ELSE tree[q]]
    BY <1>5 DEF Removed
  <2> HIDE DEF after, Acts
  <2>4. ASSUME NEW q \in Places PROVE after[q] = IF IsPrefix(s, q) THEN NoNode ELSE tree[q]
    <3>1. CASE ~IsPrefix(s, q)
      BY <2>2, <2>3, <3>1, PrefixSelf DEF Below
    <3>2. CASE IsPrefix(s, q) /\ (q = s \/ IsDir(s))
      BY <2>3, <3>2 DEF Below
    <3>3. CASE IsPrefix(s, q) /\ q # s /\ ~IsDir(s)
      <4>1. ~Exists(q)
        BY <1>1, <2>1, <3>3, SoundTree DEF IsStrictPrefix
      <4>2. tree[q] = NoNode
        BY <1>1, <4>1, NodeFacts DEF Exists
      <4> QED
        BY <2>3, <3>3, <4>2
    <3> QED
      BY <3>1, <3>2, <3>3
  <2>5. after = Pruned(tree, s)
    BY <2>3, <2>4 DEF Pruned
  <2>6. Sound(after)
    BY <1>1, <2>1, <2>2, <2>5, PrunedSound
  <2>7. ASSUME NEW q \in Places, after[q] # tree[q] PROVE Told(DoneBy(e, after, {}), q)
    <3>1. IsPrefix(s, q) /\ tree[q] # NoNode
      BY <2>4, <2>7
    <3>2. Exists(q)
      BY <1>1, <3>1, NodeFacts DEF Exists
    <3>3. MayWrite(p) /\ p # Root /\ Exists(s)
      BY <1>5 DEF Acts
    <3> QED
      BY <1>1, <1>3, <3>1, <3>2, <3>3, ToldGone
  <2> QED
    BY <1>2, <1>3, <2>6, <2>7, CallKeeps
<1> QED
  BY <1>4, <1>5

(* Where a transfer puts what it takes.                                    *)
LEMMA FinalKnown ==
  ASSUME Sound(tree), NEW s \in Paths, NEW dst \in Places, Transferable(s, dst)
  PROVE  /\ FinalDst(s, dst) \in Places /\ FinalDst(s, dst) # Root
         /\ FinalDst(s, dst) \in Paths /\ Within(FinalDst(s, dst))
         /\ ~Exists(FinalDst(s, dst)) /\ CanMakeDirs(FinalDst(s, dst))
         /\ WriteTarget(dst).path = Real(dst)
         /\ FinalDst(s, dst) \in {Real(dst), Append(Real(dst), Last(s))}
<1> DEFINE f == FinalDst(s, dst)
<1>1. /\ MayWrite(dst) /\ f \in Places /\ MayWrite(f) /\ ~Exists(f) /\ CanMakeDirs(f)
  BY DEF Transferable
<1>2. /\ dst \in Paths /\ LinksOn(Real(dst)) = {} /\ WriteTarget(dst).path = Real(dst)
  BY <1>1, WriteFacts
<1>3. f \in Paths /\ f # Root /\ Within(f)
  BY <1>1, PlacesArePaths, SoundTree DEF MayWrite, Exists
<1>4. f = IF IsDir(Spot(dst)) THEN Append(Spot(dst), Last(s)) ELSE Spot(dst)
  BY DEF FinalDst
<1> HIDE DEF f
<1>5. NodeAt(Spot(dst)).kind # "link"
  BY <1>1, <1>4 DEF IsDir, Exists
<1>6. Spot(dst) = Real(dst)
  BY <1>2, <1>5, SpotIsReal
<1>7. f \in {Real(dst), Append(Real(dst), Last(s))}
  BY <1>4, <1>6
<1> QED
  BY <1>1, <1>2, <1>3, <1>7 DEF f

(* That is told, when the effect knows a way to what is taken by the name  *)
(* it is taken with.                                                       *)
LEMMA FinalSpoken ==
  ASSUME Sound(tree), NEW s \in Paths, NEW dst \in Places, Transferable(s, dst),
         NEW effect, NEW after, NEW wrote, effect.dest = WriteTarget(dst).path,
         NEW w \in Places, w # Root, Last(w) = Last(s),
         Canonical(w) \in {effect.path, effect.dest}
  PROVE  FinalDst(s, dst) \in Spoken(DoneBy(effect, after, wrote))
<1>1. FinalDst(s, dst) \in {effect.dest, Append(effect.dest, Last(w))}
  BY FinalKnown
<1> QED
  BY <1>1, SpokenFacts

LEMMA CopyNear ==
  ASSUME Sound(tree), NEW s, NEW f \in Places, CanMakeDirs(f),
         NEW q \in Places, Copied(s, f)[q] # tree[q]
  PROVE  IsPrefix(f, q) \/ q \in Above(f)
  BY CopiedIs, DirsMade

LEMMA MvStep ==
  ASSUME FileInv, NEW src \in Places, NEW dst \in Places, Mv(src, dst)
  PROVE  FileInv'
<1> DEFINE s == Spot(src)
           f == FinalDst(s, dst)
           after == Moved(src, dst)
           e == TransferEffect(src, dst, TRUE)
           Acts == MayWrite(src) /\ src # Root /\ Transferable(s, dst) /\ Fits(s, f)
<1>1. Sound(tree) /\ TreeTyped
  BY SoundTree DEF FileInv
<1>2. Call(e, after, {})
  BY DEF Mv
<1>3. /\ e.kind # "filesystem-read"
      /\ e.path = WriteTarget(src).path /\ e.dest = WriteTarget(dst).path
  BY TransferFacts
<1> HIDE DEF e
<1>4. CASE ~Acts
  <2>1. after = tree
    BY <1>4 DEF Moved
  <2> HIDE DEF after
  <2> QED
    BY <1>1, <1>2, <1>3, <2>1, CallKeeps
<1>5. CASE Acts
  <2>1. MayWrite(src) /\ src # Root /\ Transferable(s, dst) /\ Exists(s)
    BY <1>5 DEF Transferable
  <2>2. after = IF IsPrefix(s, f) THEN WithDirs(Above(f)) ELSE Pruned(Copied(s, f), s)
    BY <1>5 DEF Moved, Pruned
  <2> HIDE DEF after, Acts
  <2>3. /\ src \in Paths /\ ~Broken(src) /\ Canonical(src) = Real(src)
        /\ e.path = Real(src)
    BY <1>1, <1>3, <2>1, WriteFacts
  <2>4. s \in Places /\ s # Root /\ Last(s) = Last(src) /\ Canonical(s) = Canonical(src)
    BY <1>1, <2>1, <2>3, SpotIsKnown
  <2>5. s \in Paths
    BY <2>4, PlacesArePaths
  <2> HIDE DEF s
  <2>6. /\ f \in Places /\ f # Root /\ f \in Paths /\ Within(f)
        /\ ~Exists(f) /\ CanMakeDirs(f)
    BY <1>1, <2>1, <2>5, FinalKnown
  <2>7. f \in Spoken(DoneBy(e, after, {}))
    BY <1>1, <1>3, <2>1, <2>3, <2>4, <2>5, FinalSpoken
  <2> HIDE DEF f
  <2>8. \A q \in Places : IsPrefix(f, q) \/ q \in Above(f) => Told(DoneBy(e, after, {}), q)
    BY <2>6, <2>7, ToldNear
  <2>9. CASE IsPrefix(s, f)
    <3>1. Sound(after) /\ \A q \in Places : q \notin Above(f) => after[q] = tree[q]
      BY <1>1, <2>2, <2>6, <2>9, DirsMade
    <3> QED
      BY <1>2, <1>3, <2>8, <3>1, CallKeeps
  <2>10. CASE ~IsPrefix(s, f)
    <3>1. Sound(Copied(s, f))
      BY <1>1, <2>4, <2>6, CopiedSound
    <3>2. Sound(after)
      BY <2>2, <2>4, <2>5, <2>10, <3>1, PrunedSound
    <3>3. ASSUME NEW q \in Places, after[q] # tree[q] PROVE Told(DoneBy(e, after, {}), q)
      <4>1. after[q] = IF IsPrefix(s, q) THEN NoNode ELSE Copied(s, f)[q]
        BY <2>2, <2>10 DEF Pruned
      <4>2. CASE IsPrefix(s, q)
        <5>1. Exists(q)
          BY <1>1, <3>3, <4>1, <4>2, NodeFacts DEF Exists
        <5> QED
          BY <1>1, <1>3, <2>1, <4>2, <5>1, ToldGone DEF s
      <4>3. CASE ~IsPrefix(s, q)
        BY <1>1, <2>6, <2>8, <3>3, <4>1, <4>3, CopyNear
      <4> QED
        BY <4>2, <4>3
    <3> QED
      BY <1>2, <1>3, <3>2, <3>3, CallKeeps
  <2> QED
    BY <2>9, <2>10
<1> QED
  BY <1>4, <1>5

(* What is copied is found by the name it is copied with.                  *)
LEMMA CopySource ==
  ASSUME Sound(tree), NEW src \in Places, NEW absolute \in BOOLEAN,
         MayRead(src, absolute), Spot(ReadPath(src, absolute)) # Root,
         Exists(Spot(ReadPath(src, absolute)))
  PROVE  \E w \in Places : /\ w # Root /\ Canonical(w) = ReadTarget(src).path
                           /\ Last(w) = Last(Spot(ReadPath(src, absolute)))
<1> DEFINE s == Spot(ReadPath(src, absolute))
<1>1. src \in Paths /\ TreeTyped
  BY PlacesArePaths, SoundTree
<1>2. ReadTarget(src).path = Canonical(src)
  <2>1. CASE MayRead(src, FALSE)
    BY <2>1 DEF ReadTarget
  <2>2. CASE ~MayRead(src, FALSE)
    <3>1. Broken(src)
      BY <2>2 DEF MayRead, Broken
    <3> QED
      BY <2>2, <3>1 DEF ReadTarget, Canonical
  <2> QED
    BY <2>1, <2>2
<1>3. CASE absolute \/ ~Within(src) \/ Dangling(src)
  <2>1. s = Spot(src) /\ src # Root
    BY <1>3 DEF ReadPath, Spot
  <2>2. Last(s) = Last(src)
    <3>1. Spot(src) = Append(Real(Front(src)), Last(src))
      BY <2>1 DEF Spot
    <3>2. Front(src) \in Paths /\ Last(src) \in STRING
      BY <1>1, <2>1, FrontPath
    <3>3. Last(Append(Real(Front(src)), Last(src))) = Last(src)
      BY <1>1, <3>2, RealPath, AppendPath
    <3> QED
      BY <2>1, <3>1, <3>3
  <2> QED
    BY <1>2, <2>1, <2>2
<1>4. CASE ~(absolute \/ ~Within(src) \/ Dangling(src))
  <2>1. ~Broken(src) /\ s = Spot(Real(src))
    BY <1>4 DEF MayRead, Broken, ReadPath
  <2>2. /\ LinksOn(Real(src)) = {} /\ Canonical(src) = Real(src) /\ Real(src) \in Paths
    BY <1>1, <2>1, RealPath DEF Broken, Circular, Canonical
  <2>3. Real(src) # Root
    BY <2>1 DEF Spot
  <2>4. s = Real(src)
    <3> DEFINE r == Real(src)
    <3>1. Real(r) = r
      BY <1>1, <2>2, RealOfReal
    <3>2. /\ Front(r) = Upto(r, Len(r) - 1) /\ Len(r) \in Nat /\ Len(r) >= 1
          /\ Front(r) \in Paths /\ r = Append(Front(r), Last(r))
      BY <2>2, <2>3, FrontPath
    <3>3. LinksOn(Front(r)) = {}
      <4>1. Len(r) - 1 \in 0..Len(r)
        BY <3>2
      <4> QED
        BY <1>1, <2>2, <3>2, <4>1, LinksOnUpto
    <3>4. Real(Front(r)) = Front(r)
      BY <1>1, <3>2, <3>3, RealOfReal
    <3> QED
      BY <2>1, <2>3, <3>2, <3>4 DEF Spot
  <2>5. s \in Places
    BY <1>1, NodeFacts DEF Exists
  <2>6. Canonical(s) = s
    BY <1>1, <2>2, <2>4, RealOfReal DEF Canonical
  <2> QED
    BY <1>2, <2>2, <2>3, <2>4, <2>5, <2>6
<1> QED
  BY <1>3, <1>4

LEMMA CpStep ==
  ASSUME FileInv, NEW src \in Places, NEW dst \in Places, NEW absolute \in BOOLEAN,
         Cp(src, dst, absolute)
  PROVE  FileInv'
<1> DEFINE s == Spot(ReadPath(src, absolute))
           f == FinalDst(s, dst)
           after == CopiedTo(src, dst, absolute)
           e == TransferEffect(src, dst, FALSE)
           Acts == /\ MayRead(src, absolute) /\ s # Root
                   /\ Transferable(s, dst) /\ ~IsPrefix(s, f) /\ Fits(s, f)
<1>1. Sound(tree) /\ TreeTyped
  BY SoundTree DEF FileInv
<1>2. Call(e, after, {})
  BY DEF Cp
<1>3. /\ e.kind # "filesystem-read"
      /\ e.path = ReadTarget(src).path /\ e.dest = WriteTarget(dst).path
  BY TransferFacts
<1> HIDE DEF e
<1>4. CASE ~Acts
  <2>1. after = tree
    BY <1>4 DEF CopiedTo
  <2> HIDE DEF after
  <2> QED
    BY <1>1, <1>2, <1>3, <2>1, CallKeeps
<1>5. CASE Acts
  <2>1. MayRead(src, absolute) /\ s # Root /\ Transferable(s, dst) /\ Exists(s)
    BY <1>5 DEF Transferable
  <2>2. after = Copied(s, f)
    BY <1>5 DEF CopiedTo
  <2> HIDE DEF after, Acts
  <2>3. PICK w \in Places : w # Root /\ Canonical(w) = e.path /\ Last(w) = Last(s)
    BY <1>1, <1>3, <2>1, CopySource
  <2> HIDE DEF s
  <2>4. s \in Places /\ s \in Paths
    BY <1>1, <2>1, NodeFacts, PlacesArePaths DEF Exists
  <2>5. /\ f \in Places /\ f # Root /\ f \in Paths /\ Within(f)
        /\ ~Exists(f) /\ CanMakeDirs(f)
    BY <1>1, <2>1, <2>4, FinalKnown
  <2>6. f \in Spoken(DoneBy(e, after, {}))
    BY <1>1, <1>3, <2>1, <2>3, <2>4, FinalSpoken
  <2> HIDE DEF f
  <2>7. Sound(after)
    BY <1>1, <2>1, <2>2, <2>4, <2>5, CopiedSound
  <2>8. \A q \in Places : after[q] # tree[q] => Told(DoneBy(e, after, {}), q)
    BY <1>1, <2>2, <2>5, <2>6, CopyNear, ToldNear
  <2> QED
    BY <1>2, <1>3, <2>7, <2>8, CallKeeps
<1> QED
  BY <1>4, <1>5

(* The tree the agent finds is sound, and every step keeps it so.          *)
LEMMA InitFiles == FileInit => FileInv
<1> SUFFICES ASSUME FileInit PROVE FileInv
  OBVIOUS
<1>1. Sound(tree)
  BY FileToolsAssumption DEF FileInit, Sound
<1>2. done.changed = {} 
  BY DEF FileInit, NoCall
<1>3. FileTypeOK
  BY <1>1, <1>2 DEF FileTypeOK, Sound
<1> QED
  BY <1>1, <1>2, <1>3 DEF FileInv, EffectsAreTrue, OnlyTheWorkspaceChanges,
                         EffectTellsTheChange

LEMMA NextFiles == FileInv /\ [FileNext]_fileVars => FileInv'
<1> SUFFICES ASSUME FileInv, [FileNext]_fileVars PROVE FileInv'
  OBVIOUS
<1>1. CASE TakeAnswer
  <2>1. tree' = tree /\ done' = NoCall
    BY <1>1 DEF TakeAnswer
  <2>2. done'.changed = {}
    BY <2>1 DEF NoCall
  <2>3. Sound(tree)' /\ tree' \in [Places -> Node]
    BY <2>1 DEF FileInv, Sound
  <2> QED
    BY <2>2, <2>3 DEF FileInv, FileTypeOK, EffectsAreTrue, OnlyTheWorkspaceChanges,
                      EffectTellsTheChange
<1>2. ASSUME NEW p \in Places, ReadTool(p) PROVE FileInv'
  <2>1. Call(ReadEffect(p), tree, {}) /\ Sound(tree)
    BY <1>2 DEF ReadTool, FileInv
  <2> QED
    BY <2>1, CallKeeps
<1>3. ASSUME NEW p \in Places, WriteFile(p) PROVE FileInv'
  BY <1>3, WriteFileStep
<1>4. ASSUME NEW p \in Places, Mkdir(p) PROVE FileInv'
  BY <1>4, MkdirStep
<1>5. ASSUME NEW p \in Places, NEW recursive \in BOOLEAN, Rm(p, recursive) PROVE FileInv'
  BY <1>5, RmStep
<1>6. ASSUME NEW src \in Places, NEW dst \in Places, Mv(src, dst) PROVE FileInv'
  BY <1>6, MvStep
<1>7. ASSUME NEW src \in Places, NEW dst \in Places, NEW absolute \in BOOLEAN,
             Cp(src, dst, absolute)
      PROVE  FileInv'
  BY <1>7, CpStep
<1>8. CASE UNCHANGED fileVars
  <2>1. tree' = tree /\ done' = done
    BY <1>8 DEF fileVars
  <2>2. Sound(tree)'
    BY <2>1 DEF FileInv, Sound
  <2>3. (FileTypeOK /\ EffectsAreTrue)'
    BY <2>1 DEF FileInv, FileTypeOK, EffectsAreTrue, OnlyTheWorkspaceChanges,
                EffectTellsTheChange, Spoken, Above
  <2> QED
    BY <2>2, <2>3 DEF FileInv
<1> QED
  BY <1>1, <1>2, <1>3, <1>4, <1>5, <1>6, <1>7, <1>8 DEF FileNext

(***************************************************************************)
(* Whatever links there are, a call changes what its effect speaks of, a   *)
(* read changes nothing, and no tool changes what lies outside of the      *)
(* workspace, save a link out there that leads into it: what the deriver   *)
(* says of a call before it runs is true of what the tool then does.       *)
(***************************************************************************)
THEOREM FileEffectsTrue == FileSpec => []EffectsAreTrue
<1>1. FileSpec => []FileInv
  BY InitFiles, NextFiles, PTL DEF FileSpec
<1>2. FileInv => EffectsAreTrue
  BY DEF FileInv
<1> QED
  BY <1>1, <1>2, PTL
=============================================================================
