-------------------------- MODULE McpManager_proofs --------------------------
(***************************************************************************)
(* Proofs about McpManager for any servers, config entries, files and      *)
(* number of jobs: a server that is connecting has a dial that decides     *)
(* about it; a connection belongs to the entry of its server unless the    *)
(* server was re-added, and it takes a twin or a re-added server to lose   *)
(* one; slugs, names and effects follow their servers; and the page shows, *)
(* and the manager runs, what the file says.                               *)
(***************************************************************************)
EXTENDS McpManager, FiniteSetTheorems, WellFoundedInduction, TLAPS

-----------------------------------------------------------------------------
(* Types.  The names the allocator gives out are left open: they come from *)
(* some set V.                                                             *)

AnyEntry == Entries \cup {Off, Absent}

ServerShape(V) ==
  [cfg : AnyEntry, gen : Nat, conn : Jobs \cup {NoDial}, state : States \cup {"absent"},
   slug : SUBSET V, tools : SUBSET V]

ServersTyped == \E V : servers \in [Names -> ServerShape(V)]

Typed ==
  /\ disk \in File
  /\ jobs \in [Jobs -> JobType]
  /\ dials \in [Names -> [Jobs -> DialType]]
  /\ ServersTyped
  /\ \A n \in Names : ~Known(n) => servers[n].cfg = Absent /\ servers[n].conn = NoDial

-----------------------------------------------------------------------------
(* The inductive invariants, each about one server                         *)

(* A server is given by its record s and its dials d.                       *)

(* Dial j is in flight with the server's generation.                       *)
Current(s, d, j) == d[j].pc = "dial" /\ s.state # "absent" /\ s.gen = d[j].gen

Decides(s, d) == s.state = "connecting" =>
  /\ s.cfg \in Entries
  /\ \E j \in Jobs : d[j].pc = "begin" \/ Current(s, d, j)

(* The connection a server holds is up.                                    *)
Held(s, d) == s.conn # NoDial => s.conn \in Jobs /\ d[s.conn].pc = "up"

(* No dial is ahead of its server, one of the same generation has the same *)
(* entry, and so has the connection.                                       *)
Matches(s, d) ==
  /\ \A j \in Jobs : s.state # "absent" /\ d[j].pc = "dial" =>
       /\ d[j].gen <= s.gen
       /\ d[j].gen = s.gen => d[j].cfg = s.cfg
  /\ s.conn # NoDial => d[s.conn].cfg = s.cfg

(* A server has one connection or one current dial, never two.             *)
Single(s, d) ==
  /\ \A j \in Jobs : d[j].pc = "up" => s.conn = j
  /\ \A j \in Jobs : Current(s, d, j) =>
       s.conn = NoDial /\ \A i \in Jobs : Current(s, d, i) => i = j

HeldInv   == \A n \in Names : Held(servers[n], dials[n])
DecideInv == \A n \in Names : Decides(servers[n], dials[n])
MatchInv  == "readd" \notin odd => \A n \in Names : Matches(servers[n], dials[n])
SingleInv == odd \cap {"twin", "readd"} = {} =>
               \A n \in Names : Single(servers[n], dials[n])

Inv == Typed /\ HeldInv /\ DecideInv /\ MatchInv /\ SingleInv

-----------------------------------------------------------------------------
(* Lemmas                                                                  *)

(* -1 is no job.                                                           *)
LEMMA NoDialIsNoJob == NoDial \notin Jobs /\ Boot \in Jobs
  BY McpAssumption DEF NoDial, Jobs, Boot

(* The records a server starts with.                                       *)
LEMMA FreshType ==
  ASSUME NEW V, NEW e \in AnyEntry, NEW s \in ServerShape(V)
  PROVE  /\ NoServer \in ServerShape(V)
         /\ Fresh(e) \in ServerShape(V)
         /\ TornDown(s, e) \in ServerShape(V)
<1>1. NoServer \in ServerShape(V)
  BY DEF NoServer, ServerShape, States, AnyEntry
<1>2. InitialState(e) \in States
  BY DEF InitialState, States
<1>3. Fresh(e) \in ServerShape(V)
  BY <1>1, <1>2 DEF Fresh, ServerShape
<1>4. s.gen + 1 \in Nat
  BY DEF ServerShape
<1> QED
  BY <1>1, <1>3, <1>4 DEF TornDown, ServerShape

(* Their fields.                                                           *)
LEMMA FreshFields ==
  ASSUME NEW e, NEW s
  PROVE  /\ NoServer.cfg = Absent /\ NoServer.state = "absent" /\ NoServer.conn = NoDial
         /\ Fresh(e).cfg = e /\ Fresh(e).gen = 0 /\ Fresh(e).conn = NoDial
         /\ Fresh(e).state = InitialState(e)
         /\ TornDown(s, e).cfg = e /\ TornDown(s, e).gen = s.gen + 1
         /\ TornDown(s, e).conn = NoDial /\ TornDown(s, e).state = InitialState(e)
  BY DEF NoServer, Fresh, TornDown

(* The records of dials.                                                   *)
LEMMA DialTypes ==
  /\ Idle \in DialType /\ Spawned \in DialType /\ Ended \in DialType
  /\ Idle.pc = "idle" /\ Spawned.pc = "begin" /\ Ended.pc = "done"
  BY DEF Idle, Spawned, Ended, DialType

(* The records of jobs.                                                    *)
LEMMA JobTypes ==
  /\ NoJob \in JobType /\ Over \in JobType
  /\ \A kind \in {"save", "delete", "reconnect"}, S \in SUBSET Names :
       Loading(kind, S) \in JobType
  BY DEF NoJob, Over, Loading, JobType, File

(* A server that enters the table with an entry is connecting only if the  *)
(* entry is enabled.                                                       *)
LEMMA InitialStates ==
  ASSUME NEW e
  PROVE  /\ InitialState(e) # "absent"
         /\ InitialState(e) = "connecting" => e \in Entries
  BY DEF InitialState

(* A file, and the entries of one.                                         *)
LEMMA FileEntries ==
  ASSUME NEW f \in File, NEW n \in Names
  PROVE  f[n] \in AnyEntry
  BY DEF File, AnyEntry

(* What a step of dial j of server n leaves of the others.                 *)
LEMMA DialFrame ==
  ASSUME dials \in [Names -> [Jobs -> DialType]],
         NEW n \in Names, NEW j \in Jobs, NEW d \in DialType, Step(n, j, d)
  PROVE  /\ dials' \in [Names -> [Jobs -> DialType]]
         /\ dials'[n][j] = d
         /\ \A i \in Jobs \ {j} : dials'[n][i] = dials[n][i]
         /\ \A m \in Names \ {n} : dials'[m] = dials[m]
  BY DEF Step

(* The invariant after a step, from what the step does to each server.     *)
LEMMA Assemble ==
  ASSUME Inv, Typed', odd \subseteq odd',
         \A n \in Names : Held(servers'[n], dials'[n]) /\ Decides(servers'[n], dials'[n]),
         \A n \in Names : "readd" \notin odd' /\ Matches(servers[n], dials[n])
                          => Matches(servers'[n], dials'[n]),
         \A n \in Names : /\ odd' \cap {"twin", "readd"} = {}
                          /\ Matches(servers[n], dials[n]) /\ Single(servers[n], dials[n])
                          => Single(servers'[n], dials'[n])
  PROVE  Inv'
<1>1. MatchInv'
  BY DEF Inv, MatchInv
<1>2. SingleInv'
  <2> SUFFICES ASSUME odd' \cap {"twin", "readd"} = {}
               PROVE  \A n \in Names : Single(servers'[n], dials'[n])
    BY DEF SingleInv
  <2>1. odd \cap {"twin", "readd"} = {} /\ "readd" \notin odd
    OBVIOUS
  <2> QED
    BY <2>1 DEF Inv, MatchInv, SingleInv
<1> QED
  BY <1>1, <1>2 DEF Inv, HeldInv, DecideInv

(* The same when the step is about server n only.                          *)
LEMMA AssembleAt ==
  ASSUME Inv, Typed', odd \subseteq odd', NEW n \in Names,
         \A m \in Names \ {n} : servers'[m] = servers[m] /\ dials'[m] = dials[m],
         Held(servers'[n], dials'[n]), Decides(servers'[n], dials'[n]),
         "readd" \notin odd' /\ Matches(servers[n], dials[n])
           => Matches(servers'[n], dials'[n]),
         /\ odd' \cap {"twin", "readd"} = {}
         /\ Matches(servers[n], dials[n]) /\ Single(servers[n], dials[n])
         => Single(servers'[n], dials'[n])
  PROVE  Inv'
<1>1. \A m \in Names : Held(servers'[m], dials'[m]) /\ Decides(servers'[m], dials'[m])
  BY DEF Inv, HeldInv, DecideInv
<1>2. \A m \in Names : "readd" \notin odd' /\ Matches(servers[m], dials[m])
                       => Matches(servers'[m], dials'[m])
  OBVIOUS
<1>3. \A m \in Names : /\ odd' \cap {"twin", "readd"} = {}
                       /\ Matches(servers[m], dials[m]) /\ Single(servers[m], dials[m])
                       => Single(servers'[m], dials'[m])
  OBVIOUS
<1> QED
  BY <1>1, <1>2, <1>3, Assemble

-----------------------------------------------------------------------------
(* Begin                                                                   *)

LEMMA BeginKeeps ==
  ASSUME Inv, NEW n \in Names, NEW j \in Jobs, Begin(n, j)
  PROVE  Inv'
<1> USE NoDialIsNoJob
<1>1. servers' = servers /\ jobs' = jobs /\ disk' = disk
  BY DEF Begin
<1>2. PICK V : servers \in [Names -> ServerShape(V)]
  BY DEF Inv, Typed, ServersTyped
<1>3. PICK d \in DialType :
        /\ Step(n, j, d)
        /\ \/ /\ ~Known(n) \/ servers[n].cfg \notin Entries
              /\ d.pc = "done" /\ odd' = odd
           \/ /\ Known(n) /\ servers[n].cfg \in Entries
              /\ d.pc = "dial" /\ d.gen = servers[n].gen /\ d.cfg = servers[n].cfg
              /\ odd' = odd \cup (IF HasTwin(n, j) THEN {"twin"} ELSE {})
  <2>1. CASE ~Known(n) \/ servers[n].cfg \notin Entries
    BY <2>1, DialTypes DEF Begin
  <2>2. CASE Known(n) /\ servers[n].cfg \in Entries
    <3> DEFINE D == [pc |-> "dial", gen |-> servers[n].gen, cfg |-> servers[n].cfg]
    <3>1. D \in DialType
      BY <1>2 DEF ServerShape, DialType, AnyEntry
    <3> QED
      BY <2>2, <3>1 DEF Begin
  <2> QED
    BY <2>1, <2>2
<1>4. dials \in [Names -> [Jobs -> DialType]] /\ dials[n][j].pc = "begin"
  BY DEF Inv, Typed, Begin
<1>5. /\ dials' \in [Names -> [Jobs -> DialType]]
      /\ dials'[n][j] = d
      /\ \A i \in Jobs \ {j} : dials'[n][i] = dials[n][i]
      /\ \A m \in Names \ {n} : dials'[m] = dials[m]
  BY <1>3, <1>4, DialFrame
<1>6. Typed'
  BY <1>1, <1>5 DEF Inv, Typed, ServersTyped, Known
<1>7. \A m \in Names \ {n} : servers'[m] = servers[m] /\ dials'[m] = dials[m]
  BY <1>1, <1>5
<1>8. Held(servers'[n], dials'[n]) /\ servers[n].conn # j
  BY <1>1, <1>4, <1>5 DEF Inv, HeldInv, Held
<1>9. Decides(servers'[n], dials'[n])
  <2> SUFFICES ASSUME servers[n].state = "connecting" PROVE Decides(servers'[n], dials'[n])
    BY <1>1 DEF Decides
  <2>1. servers[n].cfg \in Entries /\ Known(n)
    BY DEF Inv, DecideInv, Decides, Known
  <2>2. Current(servers'[n], dials'[n], j)
    BY <1>1, <1>3, <1>5, <2>1 DEF Current, InFlight, Outdated, Known
  <2> QED
    BY <1>1, <2>1, <2>2 DEF Decides
<1>10. Matches(servers[n], dials[n]) => Matches(servers'[n], dials'[n])
  <2> SUFFICES ASSUME Matches(servers[n], dials[n]) PROVE Matches(servers'[n], dials'[n])
    OBVIOUS
  <2>1. ASSUME NEW i \in Jobs, Known(n)', InFlight(n, i)'
        PROVE  /\ dials'[n][i].gen <= servers'[n].gen
               /\ dials'[n][i].gen = servers'[n].gen => dials'[n][i].cfg = servers'[n].cfg
    <3>1. CASE i = j
      <4>1. servers[n].gen \in Nat
        BY <1>2 DEF ServerShape
      <4> QED
        BY <1>1, <1>3, <1>5, <2>1, <3>1, <4>1 DEF InFlight
    <3>2. CASE i # j
      BY <1>1, <1>5, <2>1, <3>2 DEF Matches, InFlight, Known, Outdated
    <3> QED
      BY <3>1, <3>2
  <2>2. servers[n].conn # NoDial => dials'[n][servers[n].conn].cfg = servers[n].cfg
    BY <1>1, <1>5, <1>8 DEF Matches, Held, InFlight, Outdated, Known
  <2> QED
    BY <1>1, <2>1, <2>2 DEF Matches, InFlight, Outdated, Known
<1>11. "twin" \notin odd' /\ Single(servers[n], dials[n]) => Single(servers'[n], dials'[n])
  <2> SUFFICES ASSUME "twin" \notin odd', Single(servers[n], dials[n])
               PROVE  Single(servers'[n], dials'[n])
    OBVIOUS
  <2>1. \A i \in Jobs : Current(servers'[n], dials'[n], i) /\ i # j
                        => Current(servers[n], dials[n], i)
    BY <1>1, <1>5 DEF Current, InFlight, Outdated, Known
  <2>2. Current(servers'[n], dials'[n], j) => ~HasTwin(n, j)
    BY <1>3, <1>5 DEF Current, InFlight, Outdated, Known
  <2>3. Current(servers'[n], dials'[n], j) =>
          servers[n].conn = NoDial /\ \A i \in Jobs \ {j} : ~Current(servers[n], dials[n], i)
    BY <2>2 DEF HasTwin, Current, Outdated, InFlight, Known
  <2>4. \A i \in Jobs : dials'[n][i].pc = "up" => servers'[n].conn = i
    BY <1>1, <1>3, <1>5 DEF Single
  <2> QED
    BY <1>1, <2>1, <2>3, <2>4 DEF Single
<1>12. odd \subseteq odd'
  BY <1>3
<1> QED
  BY <1>6, <1>7, <1>8, <1>9, <1>10, <1>11, <1>12, AssembleAt
-----------------------------------------------------------------------------
(* The other steps of a dial                                               *)

(* A current dial fails: the state changes, to one that is not connecting. *)
LEMMA FailKeeps ==
  ASSUME Inv, NEW n \in Names, NEW j \in Jobs, Fail(n, j)
  PROVE  Inv'
<1> USE NoDialIsNoJob
<1>1. PICK V : servers \in [Names -> ServerShape(V)]
  BY DEF Inv, Typed, ServersTyped
<1>2. PICK st \in {"needs_auth", "error"} : servers' = [servers EXCEPT ![n].state = st]
  BY DEF Fail, FailedState
<1>3. /\ dials \in [Names -> [Jobs -> DialType]] /\ Current(servers[n], dials[n], j)
      /\ odd' = odd
  BY DEF Inv, Typed, Fail, Current, InFlight, Outdated, Known
<1>4. /\ dials' \in [Names -> [Jobs -> DialType]]
      /\ dials'[n][j] = Ended /\ dials'[n][j].pc = "done"
      /\ \A i \in Jobs \ {j} : dials'[n][i] = dials[n][i]
      /\ \A m \in Names \ {n} : dials'[m] = dials[m]
  BY <1>3, DialTypes, DialFrame DEF Fail
<1>5. /\ servers' \in [Names -> ServerShape(V)]
      /\ servers'[n].state = st /\ servers'[n].cfg = servers[n].cfg
      /\ servers'[n].gen = servers[n].gen /\ servers'[n].conn = servers[n].conn
      /\ \A m \in Names \ {n} : servers'[m] = servers[m]
  BY <1>1, <1>2 DEF ServerShape, States
<1>6. Typed'
  <2>1. \A m \in Names : ~Known(m)' => servers'[m].cfg = Absent /\ servers'[m].conn = NoDial
    <3>1. Known(n)'
      BY <1>2, <1>5 DEF Known
    <3> QED
      BY <1>5, <3>1 DEF Inv, Typed, Known
  <2> QED
    BY <1>4, <1>5, <2>1 DEF Inv, Typed, ServersTyped, Fail
<1>7. Known(n) /\ Known(n)'
  BY <1>2, <1>3, <1>5 DEF Known, Current, Outdated, InFlight
<1>8. \A m \in Names \ {n} : servers'[m] = servers[m] /\ dials'[m] = dials[m]
  BY <1>4, <1>5
<1>9. Held(servers'[n], dials'[n]) /\ Decides(servers'[n], dials'[n]) /\ servers[n].conn # j
  BY <1>2, <1>3, <1>4, <1>5 DEF Inv, HeldInv, Held, Decides, Current, InFlight, Outdated, Known
<1>10. Matches(servers[n], dials[n]) => Matches(servers'[n], dials'[n])
  BY <1>4, <1>5, <1>7, <1>9 DEF Matches, InFlight, Inv, HeldInv, Held, Outdated, Known
<1>11. Single(servers[n], dials[n]) => Single(servers'[n], dials'[n])
  BY <1>4, <1>5, <1>7 DEF Single, Current, InFlight, Outdated, Known
<1> QED
  BY <1>3, <1>6, <1>8, <1>9, <1>10, <1>11, AssembleAt

(* An outdated dial ends: nobody counted on it.                            *)
LEMMA DiscardKeeps ==
  ASSUME Inv, NEW n \in Names, NEW j \in Jobs, Discard(n, j)
  PROVE  Inv'
<1> USE NoDialIsNoJob
<1>1. servers' = servers /\ odd' = odd
  BY DEF Discard
<1>2. /\ dials \in [Names -> [Jobs -> DialType]]
      /\ InFlight(n, j) /\ ~Current(servers[n], dials[n], j)
  BY DEF Inv, Typed, Discard, Current, InFlight, Outdated, Known
<1>3. /\ dials' \in [Names -> [Jobs -> DialType]]
      /\ dials'[n][j] = Ended /\ dials'[n][j].pc = "done"
      /\ \A i \in Jobs \ {j} : dials'[n][i] = dials[n][i]
      /\ \A m \in Names \ {n} : dials'[m] = dials[m]
  BY <1>2, DialTypes, DialFrame DEF Discard
<1>4. Typed'
  BY <1>1, <1>3 DEF Inv, Typed, ServersTyped, Known, Discard
<1>5. \A m \in Names \ {n} : servers'[m] = servers[m] /\ dials'[m] = dials[m]
  BY <1>1, <1>3
<1>6. Held(servers'[n], dials'[n]) /\ servers[n].conn # j
  BY <1>1, <1>2, <1>3 DEF Inv, HeldInv, Held, InFlight
<1>7. \A i \in Jobs \ {j} : Current(servers[n], dials[n], i)
                           => Current(servers'[n], dials'[n], i)
  BY <1>1, <1>3 DEF Current, InFlight, Outdated, Known
<1>8. Decides(servers'[n], dials'[n])
  <2> SUFFICES ASSUME servers[n].state = "connecting" PROVE Decides(servers'[n], dials'[n])
    BY <1>1 DEF Decides
  <2>1. PICK i \in Jobs : dials[n][i].pc = "begin" \/ Current(servers[n], dials[n], i)
    BY DEF Inv, DecideInv, Decides
  <2>2. i # j
    BY <1>2, <2>1 DEF InFlight
  <2>3. dials'[n][i].pc = "begin" \/ Current(servers'[n], dials'[n], i)
    BY <1>3, <1>7, <2>1, <2>2
  <2>4. servers'[n].cfg \in Entries
    BY <1>1 DEF Inv, DecideInv, Decides
  <2> QED
    BY <2>3, <2>4 DEF Decides
<1>9. Matches(servers[n], dials[n]) => Matches(servers'[n], dials'[n])
  BY <1>1, <1>3, <1>6 DEF Matches, InFlight, Known, Inv, HeldInv, Held, Outdated
<1>10. Single(servers[n], dials[n]) => Single(servers'[n], dials'[n])
  BY <1>1, <1>3 DEF Single, Current, InFlight, Outdated, Known
<1> QED
  BY <1>1, <1>4, <1>5, <1>6, <1>8, <1>9, <1>10, AssembleAt

(* A current dial installs its connection: it was the only one.            *)
LEMMA InstallKeeps ==
  ASSUME Inv, NEW n \in Names, NEW j \in Jobs, Install(n, j)
  PROVE  Inv'
<1> USE NoDialIsNoJob
<1>1. PICK V : servers \in [Names -> ServerShape(V)]
  BY DEF Inv, Typed, ServersTyped
<1>2. PICK slug, tools :
        servers' = [servers EXCEPT ![n] = [@ EXCEPT !.conn = j, !.state = "connected",
                                             !.slug = slug, !.tools = tools]]
  BY DEF Install
<1>3. /\ dials \in [Names -> [Jobs -> DialType]] /\ Current(servers[n], dials[n], j)
      /\ odd \subseteq odd'
  BY DEF Inv, Typed, Install, Current, InFlight, Outdated, Known
<1> DEFINE d == [dials[n][j] EXCEPT !.pc = "up", !.gen = 0]
<1>4. d \in DialType /\ d.pc = "up" /\ d.cfg = dials[n][j].cfg
  <2>1. dials[n][j] \in DialType
    BY <1>3
  <2> QED
    BY <2>1 DEF DialType
<1>5. /\ dials' \in [Names -> [Jobs -> DialType]]
      /\ dials'[n][j] = d
      /\ \A i \in Jobs \ {j} : dials'[n][i] = dials[n][i]
      /\ \A m \in Names \ {n} : dials'[m] = dials[m]
  BY <1>3, <1>4, DialFrame DEF Install
<1>6. PICK W : servers' \in [Names -> ServerShape(W)]
  <2> DEFINE W == UNION {V, slug, tools}
  <2>1. [servers[n] EXCEPT !.conn = j, !.state = "connected",
                           !.slug = slug, !.tools = tools] \in ServerShape(W)
    BY <1>1 DEF ServerShape, States
  <2>2. \A m \in Names : servers[m] \in ServerShape(W)
    BY <1>1 DEF ServerShape
  <2> QED
    BY <1>1, <1>2, <2>1, <2>2
<1>7. /\ servers'[n].state = "connected" /\ servers'[n].cfg = servers[n].cfg
      /\ servers'[n].gen = servers[n].gen /\ servers'[n].conn = j
      /\ \A m \in Names \ {n} : servers'[m] = servers[m]
  BY <1>1, <1>2 DEF ServerShape
<1>8. Known(n) /\ Known(n)'
  BY <1>3, <1>7 DEF Known, Current, Outdated, InFlight
<1>9. Typed'
  <2>1. \A m \in Names : ~Known(m)' => servers'[m].cfg = Absent /\ servers'[m].conn = NoDial
    BY <1>7, <1>8 DEF Inv, Typed, Known
  <2> QED
    BY <1>5, <1>6, <2>1 DEF Inv, Typed, ServersTyped, Install
<1>10. \A m \in Names \ {n} : servers'[m] = servers[m] /\ dials'[m] = dials[m]
  BY <1>5, <1>7
<1>11. Held(servers'[n], dials'[n]) /\ Decides(servers'[n], dials'[n])
  BY <1>4, <1>5, <1>7 DEF Held, Decides
<1>12. Matches(servers[n], dials[n]) => Matches(servers'[n], dials'[n])
  <2> SUFFICES ASSUME Matches(servers[n], dials[n]) PROVE Matches(servers'[n], dials'[n])
    OBVIOUS
  <2>1. dials[n][j].cfg = servers[n].cfg
    BY <1>3, <1>8 DEF Matches, Current, Known
  <2>2. dials'[n][j].pc = "up" /\ dials'[n][j].cfg = servers'[n].cfg
    BY <1>4, <1>5, <1>7, <2>1
  <2>3. ASSUME NEW i \in Jobs, dials'[n][i].pc = "dial"
        PROVE  /\ dials'[n][i].gen <= servers'[n].gen
               /\ dials'[n][i].gen = servers'[n].gen => dials'[n][i].cfg = servers'[n].cfg
    <3>1. i # j
      BY <2>2, <2>3
    <3>2. dials'[n][i] = dials[n][i]
      BY <1>5, <3>1
    <3> QED
      BY <1>7, <1>8, <2>3, <3>2 DEF Matches, Known
  <2> HIDE DEF d
  <2> QED
    BY <1>7, <2>2, <2>3 DEF Matches
<1>13. Single(servers[n], dials[n]) => Single(servers'[n], dials'[n])
  <2> SUFFICES ASSUME Single(servers[n], dials[n]) PROVE Single(servers'[n], dials'[n])
    OBVIOUS
  <2>1. \A i \in Jobs : ~Current(servers'[n], dials'[n], i)
    <3> SUFFICES ASSUME NEW i \in Jobs, Current(servers'[n], dials'[n], i) PROVE FALSE
      OBVIOUS
    <3>1. CASE i = j
      BY <1>4, <1>5, <3>1 DEF Current, InFlight, Outdated, Known
    <3>2. CASE i # j
      <4>1. Current(servers[n], dials[n], i)
        BY <1>5, <1>7, <1>8, <3>2 DEF Current, InFlight, Outdated, Known
      <4> QED
        BY <1>3, <3>2, <4>1 DEF Single
    <3> QED
      BY <3>1, <3>2
  <2>2. \A i \in Jobs : dials'[n][i].pc = "up" => i = j
    BY <1>3, <1>5 DEF Single
  <2> QED
    BY <1>7, <2>1, <2>2 DEF Single
<1> QED
  BY <1>3, <1>9, <1>10, <1>11, <1>12, <1>13, AssembleAt

-----------------------------------------------------------------------------
(* The steps of saves, deletions and authorizations                        *)

(* Steps that touch neither servers nor dials.                             *)
LEMMA JobFrame ==
  ASSUME Inv, disk' \in File, jobs' \in [Jobs -> JobType],
         servers' = servers, dials' = dials, odd' = odd
  PROVE  Inv'
<1>1. Typed'
  BY DEF Inv, Typed, ServersTyped, Known
<1> QED
  BY <1>1 DEF Inv, HeldInv, DecideInv, MatchInv, SingleInv

(* A file is saved or rewritten, a job starts, reads or gives up.          *)
LEMMA PlainJobsKeep ==
  ASSUME Inv, NEW j \in Jobs,
         Save(j) \/ Delete(j) \/ Rewrite(j) \/ Authorized(j) \/ Load(j)
  PROVE  Inv'
<1>1. /\ disk \in File /\ jobs \in [Jobs -> JobType]
      /\ servers' = servers /\ dials' = dials /\ odd' = odd
  BY DEF Inv, Typed, Save, Delete, Rewrite, Authorized, Load
<1>2. jobs[j] \in JobType
  BY <1>1
<1>3. \A kind \in {"save", "delete", "reconnect"}, S \in SUBSET Names :
        Loading(kind, S) \in JobType
  BY JobTypes
<1>4. disk' \in File /\ jobs' \in [Jobs -> JobType]
  <2>1. CASE Save(j)
    <3>1. disk' \in File
      BY <2>1, McpAssumption DEF Save
    <3>2. Loading("save", Names) \in JobType
      BY <1>3
    <3> QED
      BY <1>1, <2>1, <3>1, <3>2 DEF Save
  <2>2. CASE Delete(j)
    <3>1. PICK n \in Names : jobs' = [jobs EXCEPT ![j] =
            IF disk[n] # Absent
            THEN [pc |-> "write", kind |-> "delete", names |-> {n}, seen |-> disk]
            ELSE IF Known(n) THEN Loading("delete", Names)
            ELSE Over]
      BY <2>2, McpAssumption DEF Delete
    <3>2. [pc |-> "write", kind |-> "delete", names |-> {n}, seen |-> disk] \in JobType
      BY <1>1 DEF JobType
    <3>3. Loading("delete", Names) \in JobType
      BY <1>3
    <3> QED
      BY <1>1, <2>2, <3>1, <3>2, <3>3, JobTypes DEF Delete
  <2>3. CASE Rewrite(j)
    <3>1. disk' \in File
      BY <1>2, <2>3 DEF Rewrite, File, JobType
    <3>2. Loading("delete", Names) \in JobType
      BY <1>3
    <3> QED
      BY <1>1, <2>3, <3>1, <3>2 DEF Rewrite
  <2>4. CASE Authorized(j)
    <3>1. PICK n \in Names : jobs' = [jobs EXCEPT ![j] = Loading("reconnect", {n})]
      BY <2>4, McpAssumption DEF Authorized
    <3>2. Loading("reconnect", {n}) \in JobType
      BY <1>3
    <3> QED
      BY <1>1, <2>4, <3>1, <3>2 DEF Authorized
  <2>5. CASE Load(j)
    <3>1. [jobs[j] EXCEPT !.pc = "apply", !.seen = disk] \in JobType
      BY <1>1, <1>2 DEF JobType
    <3> QED
      BY <1>1, <2>5, <3>1, JobTypes DEF Load
  <2> QED
    BY <2>1, <2>2, <2>3, <2>4, <2>5
<1> QED
  BY <1>1, <1>4, JobFrame

(* The lock section of Apply and Reconnect.                                *)
LEMMA ReconcileKeeps ==
  ASSUME Inv, NEW j \in Jobs, NEW f \in File,
         NEW gone \in SUBSET Names, NEW torn \in SUBSET Names, NEW new \in SUBSET Names,
         \A n \in new : ~Known(n),
         Reconcile(j, gone, torn, new, f)
  PROVE  Inv'
<1> USE NoDialIsNoJob
<1>1. PICK V : servers \in [Names -> ServerShape(V)]
  BY DEF Inv, Typed, ServersTyped
<1>2. dials \in [Names -> [Jobs -> DialType]] /\ jobs \in [Jobs -> JobType]
  BY DEF Inv, Typed
<1> DEFINE start == ToStart(torn \cup new, f)
<1>3. \A n \in Names, i \in Jobs : dials'[n][i] =
        IF i = j /\ n \in start THEN Spawned
        ELSE IF n \in gone \cup torn /\ servers[n].conn = i THEN Ended ELSE dials[n][i]
  BY DEF Reconcile, DialsAfter
<1>4. dials' \in [Names -> [Jobs -> DialType]]
  <2>1. \A n \in Names, i \in Jobs : dials[n][i] \in DialType
    BY <1>2
  <2> QED
    BY <2>1, DialTypes DEF Reconcile, DialsAfter
<1>5. \A n \in Names : servers'[n] =
        IF n \in gone THEN NoServer
        ELSE IF n \in torn THEN TornDown(servers[n], f[n])
        ELSE IF n \in new THEN Fresh(f[n]) ELSE servers[n]
  BY DEF Reconcile
<1>6. \A n \in Names : f[n] \in AnyEntry
  BY FileEntries
<1>7. servers' \in [Names -> ServerShape(V)]
  <2>1. \A n \in Names : servers[n] \in ServerShape(V)
    BY <1>1
  <2>2. \A n \in Names : servers'[n] \in ServerShape(V)
    BY <1>5, <1>6, <2>1, FreshType
  <2> QED
    BY <2>2 DEF Reconcile
<1>8. Typed'
  <2>1. ASSUME NEW n \in Names, servers'[n].state = "absent"
        PROVE  servers'[n].cfg = Absent /\ servers'[n].conn = NoDial
    <3>1. CASE n \in gone
      BY <1>5, <3>1, FreshFields
    <3>2. CASE n \notin gone /\ n \in torn \cup new
      <4>1. servers'[n].state = InitialState(f[n])
        BY <1>5, <3>2, FreshFields
      <4> QED
        BY <2>1, <4>1, InitialStates
    <3>3. CASE n \notin gone \cup torn \cup new
      BY <1>5, <2>1, <3>3 DEF Inv, Typed, Known
    <3> QED
      BY <3>1, <3>2, <3>3
  <2>2. disk' \in File /\ jobs' \in [Jobs -> JobType]
    BY <1>2, JobTypes DEF Inv, Typed, Reconcile
  <2> QED
    BY <1>4, <1>7, <2>1, <2>2 DEF Typed, ServersTyped, Known
<1>9. odd \subseteq odd'
  BY DEF Reconcile
<1>10. "readd" \notin odd' => \A n \in torn \cup new, i \in Jobs :
                                ~Known(n) => dials[n][i].pc # "dial"
  BY DEF Reconcile, InFlight
<1>11. ASSUME NEW n \in Names
       PROVE  /\ Held(servers'[n], dials'[n]) /\ Decides(servers'[n], dials'[n])
              /\ "readd" \notin odd' /\ Matches(servers[n], dials[n])
                   => Matches(servers'[n], dials'[n])
              /\ odd' \cap {"twin", "readd"} = {} /\ Matches(servers[n], dials[n])
                   /\ Single(servers[n], dials[n]) => Single(servers'[n], dials'[n])
  <2> DEFINE s == servers[n]
             d == dials[n]
             t == servers'[n]
             e == dials'[n]
  <2>1. /\ s \in ServerShape(V) /\ d \in [Jobs -> DialType] /\ s.gen \in Nat
        /\ \A i \in Jobs : d[i].gen \in Nat
    BY <1>1, <1>2 DEF ServerShape, DialType
  <2>2. Held(s, d) /\ Decides(s, d)
    BY DEF Inv, HeldInv, DecideInv
  <2>3. \A i \in Jobs : e[i] = IF i = j /\ n \in start THEN Spawned
                              ELSE IF n \in gone \cup torn /\ s.conn = i THEN Ended ELSE d[i]
    BY <1>3
  <2>4. CASE n \notin gone \cup torn \cup new
    <3>1. t = s
      BY <1>5, <2>4
    <3>2. e = d
      <4>1. \A i \in Jobs : e[i] = d[i]
        BY <2>3, <2>4 DEF ToStart
      <4> QED
        BY <1>4, <2>1, <4>1
    <3> QED
      BY <2>2, <3>1, <3>2
  <2>5. CASE n \in gone \cup torn \cup new
    <3>1. t.conn = NoDial
      BY <1>5, <2>5, FreshFields
    <3>2. t.state = "connecting" => t.cfg \in Entries /\ n \in start
      <4> SUFFICES ASSUME t.state = "connecting" PROVE t.cfg \in Entries /\ n \in start
        OBVIOUS
      <4>1. n \notin gone
        BY <1>5, FreshFields
      <4>2. t.cfg = f[n] /\ t.state = InitialState(f[n])
        BY <1>5, <2>5, <4>1, FreshFields
      <4> QED
        BY <2>5, <4>1, <4>2, InitialStates DEF ToStart
    <3>3. n \in start => e[j].pc = "begin"
      BY <2>3, DialTypes
    <3>4. Held(t, e) /\ Decides(t, e)
      BY <3>1, <3>2, <3>3 DEF Held, Decides
    <3>5. \A i \in Jobs : e[i].pc = "dial" => d[i].pc = "dial" /\ e[i] = d[i]
      BY <2>3, DialTypes
    <3>6. ASSUME "readd" \notin odd', Matches(s, d), t.state # "absent",
                 NEW i \in Jobs, e[i].pc = "dial"
          PROVE  e[i].gen < t.gen
      <4>1. n \in torn \cup new /\ n \notin gone
        BY <1>5, <2>5, <3>6, FreshFields
      <4>2. Known(n)
        BY <1>10, <3>5, <3>6, <4>1
      <4>3. t.gen = s.gen + 1
        BY <1>5, <4>1, <4>2, FreshFields
      <4>4. d[i].gen <= s.gen
        BY <3>5, <3>6, <4>2 DEF Matches, Known
      <4> QED
        BY <2>1, <3>5, <3>6, <4>3, <4>4
    <3>7. t.gen \in Nat
      BY <1>7 DEF ServerShape
    <3>8. "readd" \notin odd' /\ Matches(s, d) => Matches(t, e)
      <4> SUFFICES ASSUME "readd" \notin odd', Matches(s, d) PROVE Matches(t, e)
        OBVIOUS
      <4>1. \A i \in Jobs : e[i].gen \in Nat
        BY <1>4 DEF DialType
      <4> QED
        BY <3>1, <3>6, <3>7, <4>1 DEF Matches
    <3>9. odd' \cap {"twin", "readd"} = {} /\ Matches(s, d) /\ Single(s, d) => Single(t, e)
      <4> SUFFICES ASSUME odd' \cap {"twin", "readd"} = {}, Matches(s, d), Single(s, d)
                   PROVE  Single(t, e)
        OBVIOUS
      <4>1. \A i \in Jobs : ~Current(t, e, i)
        <5> SUFFICES ASSUME NEW i \in Jobs, Current(t, e, i) PROVE FALSE
          OBVIOUS
        <5>1. e[i].gen < t.gen
          BY <3>6 DEF Current
        <5> QED
          BY <3>7, <5>1 DEF Current
      <4>2. \A i \in Jobs : e[i].pc # "up"
        <5> SUFFICES ASSUME NEW i \in Jobs, e[i].pc = "up" PROVE FALSE
          OBVIOUS
        <5>1. e[i] = d[i] /\ ~(n \in gone \cup torn /\ s.conn = i)
          BY <2>3, DialTypes
        <5>2. s.conn = i
          BY <5>1 DEF Single
        <5>3. n \in new
          BY <2>5, <5>1, <5>2
        <5>4. s.conn = NoDial
          BY <5>3 DEF Inv, Typed
        <5> QED
          BY <5>2, <5>4
      <4> QED
        BY <4>1, <4>2 DEF Single
    <3> QED
      BY <3>4, <3>8, <3>9
  <2> QED
    BY <2>4, <2>5
<1> QED
  BY <1>8, <1>9, <1>11, Assemble

(* A save or deletion is applied, an authorized server reconnects.         *)
LEMMA ReconcilesKeep ==
  ASSUME Inv, NEW j \in Jobs, Apply(j) \/ Reconnect(j)
  PROVE  Inv'
<1>1. jobs[j].names \in SUBSET Names /\ jobs[j].seen \in File
  BY DEF Inv, Typed, JobType
<1>2. CASE Apply(j)
  <2> DEFINE f == jobs[j].seen
  <2>1. Gone(f) \in SUBSET Names /\ Bounced(f) \in SUBSET Names /\ Added(f) \in SUBSET Names
    BY DEF Gone, Bounced, Added
  <2>2. \A n \in Added(f) : ~Known(n)
    BY DEF Added
  <2>3. Reconcile(j, Gone(f), Bounced(f), Added(f), f)
    BY <1>2 DEF Apply
  <2> QED
    BY <1>1, <2>1, <2>2, <2>3, ReconcileKeeps
<1>3. CASE Reconnect(j)
  BY <1>1, <1>3, ReconcileKeeps DEF Reconnect
<1> QED
  BY <1>2, <1>3

-----------------------------------------------------------------------------
(* The remaining steps                                                     *)

(* A tool is refused: only the marks change.                               *)
LEMMA RejectKeeps ==
  ASSUME Inv, NEW n \in Names, NEW j \in Jobs, Reject(n, j)
  PROVE  Inv'
  BY JobFrame DEF Reject, Inv, Typed

(* A mark changes the state of a server to one that is not connecting.     *)
LEMMA MarkKeeps ==
  ASSUME Inv, NEW n \in Names, NEW j \in Jobs, MarkNeedsAuth(n, j)
  PROVE  Inv'
<1> USE NoDialIsNoJob
<1>1. CASE ~Known(n)
  BY <1>1, JobFrame DEF MarkNeedsAuth, Marked, Inv, Typed
<1>2. CASE Known(n)
  <2>1. PICK V : servers \in [Names -> ServerShape(V)]
    BY DEF Inv, Typed, ServersTyped
  <2>2. /\ servers' = [servers EXCEPT ![n].state = "needs_auth"]
        /\ dials' = dials /\ disk' = disk /\ jobs' = jobs /\ odd \subseteq odd'
    BY <1>2 DEF MarkNeedsAuth, Marked
  <2>3. /\ servers' \in [Names -> ServerShape(V)]
        /\ servers'[n].state = "needs_auth" /\ servers'[n].cfg = servers[n].cfg
        /\ servers'[n].gen = servers[n].gen /\ servers'[n].conn = servers[n].conn
        /\ \A m \in Names \ {n} : servers'[m] = servers[m]
    BY <2>1, <2>2 DEF ServerShape, States
  <2>4. Typed'
    BY <2>2, <2>3 DEF Inv, Typed, ServersTyped, Known
  <2>5. \A m \in Names \ {n} : servers'[m] = servers[m] /\ dials'[m] = dials[m]
    BY <2>2, <2>3
  <2>6. Held(servers'[n], dials'[n]) /\ Decides(servers'[n], dials'[n])
    BY <2>2, <2>3 DEF Inv, HeldInv, Held, Decides
  <2>7. Matches(servers[n], dials[n]) => Matches(servers'[n], dials'[n])
    BY <1>2, <2>2, <2>3 DEF Matches, Known
  <2>8. Single(servers[n], dials[n]) => Single(servers'[n], dials'[n])
    BY <1>2, <2>2, <2>3 DEF Single, Current, Known
  <2> QED
    BY <2>2, <2>4, <2>5, <2>6, <2>7, <2>8, AssembleAt
<1> QED
  BY <1>1, <1>2

(* Close drops every connection and leaves generations and states alone.   *)
LEMMA CloseKeeps ==
  ASSUME Inv, Close
  PROVE  Inv'
<1> USE NoDialIsNoJob
<1>1. PICK V : servers \in [Names -> ServerShape(V)]
  BY DEF Inv, Typed, ServersTyped
<1>2. dials \in [Names -> [Jobs -> DialType]]
  BY DEF Inv, Typed
<1>3. \A n \in Names, i \in Jobs :
        dials'[n][i] = IF servers[n].conn = i THEN Ended ELSE dials[n][i]
  BY DEF Close, DialsAfter
<1>4. dials' \in [Names -> [Jobs -> DialType]]
  <2>1. \A n \in Names, i \in Jobs : dials[n][i] \in DialType
    BY <1>2
  <2> QED
    BY <2>1, DialTypes DEF Close, DialsAfter
<1>5. /\ servers' \in [Names -> ServerShape(V)]
      /\ \A n \in Names : /\ servers'[n].conn = NoDial
                          /\ servers'[n].cfg = servers[n].cfg
                          /\ servers'[n].gen = servers[n].gen
                          /\ servers'[n].state = servers[n].state
  BY <1>1 DEF Close, ServerShape
<1>6. Typed' /\ odd' = odd
  BY <1>4, <1>5 DEF Close, Inv, Typed, ServersTyped, Known
<1>7. ASSUME NEW n \in Names
      PROVE  /\ Held(servers'[n], dials'[n]) /\ Decides(servers'[n], dials'[n])
             /\ Matches(servers[n], dials[n]) => Matches(servers'[n], dials'[n])
             /\ Single(servers[n], dials[n]) => Single(servers'[n], dials'[n])
  <2>1. Held(servers[n], dials[n]) /\ Decides(servers[n], dials[n])
    BY DEF Inv, HeldInv, DecideInv
  <2>2. \A i \in Jobs : dials[n][i].pc \in {"begin", "dial"} => dials'[n][i] = dials[n][i]
    BY <1>3, <2>1 DEF Held
  <2>3. \A i \in Jobs : dials'[n][i].pc \in {"dial", "up"} => dials'[n][i] = dials[n][i]
    BY <1>3, DialTypes
  <2>4. Held(servers'[n], dials'[n])
    BY <1>5 DEF Held
  <2>5. Decides(servers'[n], dials'[n])
    BY <1>5, <2>1, <2>2 DEF Decides, Current
  <2>6. Matches(servers[n], dials[n]) => Matches(servers'[n], dials'[n])
    BY <1>5, <2>3 DEF Matches
  <2>7. Single(servers[n], dials[n]) => Single(servers'[n], dials'[n])
    <3> SUFFICES ASSUME Single(servers[n], dials[n]) PROVE Single(servers'[n], dials'[n])
      OBVIOUS
    <3>1. \A i \in Jobs : dials'[n][i].pc # "up"
      BY <1>3, <2>3, DialTypes DEF Single
    <3>2. \A i \in Jobs : Current(servers'[n], dials'[n], i)
                          => Current(servers[n], dials[n], i)
      BY <1>5, <2>3 DEF Current
    <3> QED
      BY <1>5, <3>1, <3>2 DEF Single
  <2> QED
    BY <2>4, <2>5, <2>6, <2>7
<1> QED
  BY <1>6, <1>7, Assemble

-----------------------------------------------------------------------------
(* Theorems                                                                *)

(* The invariant holds after Connect.                                      *)
LEMMA InitInv ==
  ASSUME Init PROVE Inv
<1> USE NoDialIsNoJob
<1>1. disk \in File /\ \A n \in Names : disk[n] \in AnyEntry
  BY McpAssumption, FileEntries DEF Init
<1>2. jobs \in [Jobs -> JobType]
  BY JobTypes DEF Init
<1>3. \A n \in Names, i \in Jobs :
        dials[n][i] = IF i = Boot /\ disk[n] # Absent THEN Spawned ELSE Idle
  BY DEF Init
<1>4. dials \in [Names -> [Jobs -> DialType]]
  BY DialTypes DEF Init
<1>5. \A n \in Names : servers[n] = IF disk[n] = Absent THEN NoServer ELSE Fresh(disk[n])
  BY DEF Init
<1>6. servers \in [Names -> ServerShape({})]
  <2>1. NoServer \in ServerShape({})
    BY DEF NoServer, ServerShape, States, AnyEntry
  <2>2. \A n \in Names : servers[n] \in ServerShape({})
    BY <1>1, <1>5, <2>1, FreshType
  <2> QED
    BY <2>2 DEF Init
<1>7. ASSUME NEW n \in Names
      PROVE  /\ ~Known(n) => servers[n].cfg = Absent /\ servers[n].conn = NoDial
             /\ Held(servers[n], dials[n]) /\ Decides(servers[n], dials[n])
             /\ Matches(servers[n], dials[n]) /\ Single(servers[n], dials[n])
  <2>1. servers[n].conn = NoDial
    BY <1>5, FreshFields
  <2>2. \A i \in Jobs : dials[n][i].pc \in {"begin", "idle"}
    BY <1>3, DialTypes
  <2>3. disk[n] # Absent => /\ servers[n].state = InitialState(disk[n])
                            /\ servers[n].cfg = disk[n] /\ dials[n][Boot].pc = "begin"
    BY <1>3, <1>5, FreshFields, DialTypes
  <2>4. disk[n] = Absent => servers[n].state = "absent" /\ servers[n].cfg = Absent
    BY <1>5, FreshFields
  <2>5. Decides(servers[n], dials[n])
    BY <2>3, <2>4, InitialStates DEF Decides
  <2>6. ~Known(n) => servers[n].cfg = Absent
    BY <2>3, <2>4, InitialStates DEF Known
  <2> QED
    BY <2>1, <2>2, <2>5, <2>6 DEF Held, Matches, Single, Current
<1> QED
  BY <1>1, <1>2, <1>4, <1>6, <1>7
     DEF Inv, Typed, ServersTyped, HeldInv, DecideInv, MatchInv, SingleInv

(* Every step preserves it.                                                *)
LEMMA NextInv ==
  ASSUME Inv, [Next]_vars PROVE Inv'
<1>1. ASSUME NEW n \in Names, NEW j \in Jobs,
             DialStep(n, j) \/ Reject(n, j) \/ MarkNeedsAuth(n, j)
      PROVE  Inv'
  BY <1>1, BeginKeeps, FailKeeps, DiscardKeeps, InstallKeeps, RejectKeeps, MarkKeeps DEF DialStep
<1>2. ASSUME NEW j \in Jobs, JobStep(j) PROVE Inv'
  BY <1>2, PlainJobsKeep, ReconcilesKeep DEF JobStep
<1>3. CASE UNCHANGED vars
  BY <1>3, JobFrame DEF vars, Inv, Typed
<1> QED
  BY <1>1, <1>2, <1>3, CloseKeeps DEF Next

(* The inductive invariant of the manager.                                 *)
THEOREM Invariance == Spec => []Inv
  BY InitInv, NextInv, PTL DEF Spec

(* A server that is shown as connecting always has a dial that will decide *)
(* about it, whatever saves, deletions, authorizations and marks overtake  *)
(* the dials: the page cannot hang on a server nobody dials.               *)
THEOREM DialDecides == Spec => []ConnectingHasDial
<1>1. Inv => ConnectingHasDial
  BY DEF Inv, DecideInv, Decides, Current, ConnectingHasDial, InFlight, Outdated, Known
<1> QED
  BY <1>1, Invariance, PTL

(* The connection of a server was dialled with the entry the server has,   *)
(* unless a server was re-added under a dial in flight.                    *)
THEOREM ConnectionMatches == Spec => []ConnMatchesUnlessReadded
<1>1. Inv => ConnMatchesUnlessReadded
  BY DEF Inv, MatchInv, Matches, ConnMatchesUnlessReadded, ConnMatchesConfig, Without
<1> QED
  BY <1>1, Invariance, PTL

(* No installed connection is lost from sight unless two dials ran under   *)
(* one generation or a server was re-added under a dial in flight.         *)
THEOREM NothingLost == Spec => []NoConnectionLost
<1>1. Inv => NoConnectionLost
  BY DEF Inv, SingleInv, Single, NoConnectionLost, Without
<1> QED
  BY <1>1, Invariance, PTL

-----------------------------------------------------------------------------
(* Names and effects                                                       *)

(* A set of naturals that is not empty has a least element.                *)
LEMMA LeastOne ==
  ASSUME NEW T \in SUBSET Nat, T # {}
  PROVE  \E x \in T : \A y \in T : x <= y
<1> DEFINE R == OpToRel(<, Nat)
<1>1. \A x, y \in Nat : y < x => <<y, x>> \in R
  BY DEF OpToRel
<1>2. IsWellFoundedOn(R, Nat)
  BY NatLessThanWellFounded
<1> HIDE DEF R
<1>3. \E x \in T : \A y \in T : <<y, x>> \notin R
  BY <1>2, WFMin
<1>4. PICK x \in T : \A y \in T : <<y, x>> \notin R
  BY <1>3
<1>5. \A y \in T : ~(y < x) /\ x \in Nat /\ y \in Nat
  BY <1>1, <1>4
<1> QED
  BY <1>5

(* The allocator's suffix is free: it may try one more than there are      *)
(* names.                                                                  *)
LEMMA FirstFreeIsFree ==
  ASSUME NEW b, NEW used, IsFiniteSet(used)
  PROVE  FirstFree(b, used) \notin used
<1>1. Cardinality(used) \in Nat
  BY FS_CardinalityType
<1> DEFINE K == 1..(Cardinality(used) + 1)
           P(i) == /\ <<b, i>> \notin used
                   /\ \A k \in 1..(i - 1) : <<b, k>> \in used
<1>2. \E i \in K : <<b, i>> \notin used
  <2> SUFFICES ASSUME \A i \in K : <<b, i>> \in used PROVE FALSE
    OBVIOUS
  <2>1. IsFiniteSet(K) /\ Cardinality(K) = Cardinality(used) + 1
    BY <1>1, FS_Interval
  <2> DEFINE f == [i \in K |-> <<b, i>>]
  <2>2. f \in [K -> used] /\ \A i \in K : f[i] = <<b, i>>
    OBVIOUS
  <2>3. Cardinality(used) < Cardinality(K)
    BY <1>1, <2>1
  <2> HIDE DEF f, K
  <2>4. PICK x, y \in K : x # y /\ f[x] = f[y]
    BY <2>1, <2>2, <2>3, FS_PigeonHole
  <2> QED
    BY <2>2, <2>4
<1>3. \E i \in K : P(i)
  <2> DEFINE T == {i \in K : <<b, i>> \notin used}
  <2>1. T \in SUBSET Nat /\ T # {}
    BY <1>1, <1>2
  <2>2. PICK i \in T : \A k \in T : i <= k
    BY <2>1, LeastOne
  <2>3. ASSUME NEW k \in 1..(i - 1) PROVE <<b, k>> \in used
    BY <1>1, <2>2
  <2> QED
    BY <2>2, <2>3
<1>4. P(CHOOSE i \in K : P(i))
  BY <1>3
<1> QED
  BY <1>4 DEF FirstFree

(* What the allocator and the effect registry hold for the servers: a      *)
(* server's slug and names are allocated to it and to no other, and each   *)
(* of its names has its one effect.                                        *)
NamesInv ==
  /\ IsFiniteSet(usedSlugs) /\ IsFiniteSet(usedNames)
  /\ \A n \in Names : servers[n].slug \subseteq usedSlugs /\ servers[n].tools \subseteq usedNames
  /\ \A m, n \in Names : m # n => /\ servers[m].slug \cap servers[n].slug = {}
                                  /\ servers[m].tools \cap servers[n].tools = {}
  /\ \A e \in effects : e.name \in usedNames
  /\ \A n \in Names : \A t \in servers[n].tools :
       {e \in effects : e.name = t} = {[name |-> t, server |-> n, cfg |-> servers[n].cfg]}

(* A server without a connection has no names, until Close.                *)
NamesNeedConnection ==
  ~closed => \A n \in Names : servers[n].conn = NoDial =>
    servers[n].slug = {} /\ servers[n].tools = {}

(* A server keeps its names and its entry.                                 *)
KeepsNames == \A n \in Names : /\ servers'[n].slug = servers[n].slug
                               /\ servers'[n].tools = servers[n].tools
                               /\ servers'[n].cfg = servers[n].cfg

(* Steps that are not about names.                                         *)
LEMMA NamesKept ==
  ASSUME NamesInv, NamesNeedConnection, NamesReturned, KeepsNames, UNCHANGED registry, odd \subseteq odd',
         closed' \/ (closed' = closed /\ \A n \in Names : servers'[n].conn = servers[n].conn)
  PROVE  NamesInv' /\ NamesNeedConnection' /\ NamesReturned'
<1>1. usedSlugs' = usedSlugs /\ usedNames' = usedNames /\ effects' = effects
  BY DEF registry
<1>2. NamesInv'
  BY <1>1 DEF NamesInv, KeepsNames
<1>3. NamesNeedConnection'
  BY DEF NamesNeedConnection, KeepsNames
<1>4. SlugsOf(Names)' = SlugsOf(Names) /\ ToolsOf(Names)' = ToolsOf(Names)
  BY DEF SlugsOf, ToolsOf, KeepsNames
<1> QED
  BY <1>1, <1>2, <1>3, <1>4 DEF NamesReturned, Without

(* The connection that is installed gets a slug and a name of its own.     *)
LEMMA InstallNames ==
  ASSUME Inv, NamesInv, NamesNeedConnection, NamesReturned, NEW n \in Names, NEW j \in Jobs, Install(n, j)
  PROVE  NamesInv' /\ NamesNeedConnection' /\ NamesReturned'
<1> DEFINE slug == SlugFor(n)
           name == NameFor(slug)
           eff == [name |-> name, server |-> n, cfg |-> servers[n].cfg]
<1>0. slug \notin usedSlugs /\ name \notin usedNames
  BY FirstFreeIsFree DEF NamesInv, SlugFor, NameFor
<1>1. /\ usedSlugs' = usedSlugs \cup {slug} /\ usedNames' = usedNames \cup {name}
      /\ closed' = closed
  BY DEF Install
<1>2. PICK tools :
        /\ servers' = [servers EXCEPT ![n] = [@ EXCEPT !.conn = j, !.state = "connected",
                                                      !.slug = {slug}, !.tools = tools]]
        /\ \/ /\ tools = {name} /\ odd' = odd
              /\ effects' = {o \in effects : o.name # name} \cup {eff}
           \/ tools = {} /\ odd' = odd \cup {"skipped"} /\ effects' = effects
  BY DEF Install, Register
<1>3. PICK V : servers \in [Names -> ServerShape(V)]
  BY DEF Inv, Typed, ServersTyped
<1>4. /\ servers'[n].slug = {slug} /\ servers'[n].tools = tools /\ servers'[n].conn = j
      /\ servers'[n].cfg = servers[n].cfg
      /\ \A m \in Names \ {n} : servers'[m] = servers[m]
  BY <1>2, <1>3 DEF ServerShape
<1> HIDE DEF slug, name
<1>5. IsFiniteSet(usedSlugs') /\ IsFiniteSet(usedNames')
  BY <1>1, FS_AddElement DEF NamesInv
<1>6. \A m \in Names : servers'[m].slug \subseteq usedSlugs' /\ servers'[m].tools \subseteq usedNames'
  BY <1>1, <1>2, <1>4 DEF NamesInv
<1>7. \A l, m \in Names : l # m => /\ servers'[l].slug \cap servers'[m].slug = {}
                                   /\ servers'[l].tools \cap servers'[m].tools = {}
  BY <1>0, <1>2, <1>4 DEF NamesInv
<1>8. \A e \in effects' : e.name \in usedNames'
  BY <1>1, <1>2 DEF NamesInv
<1>9. ASSUME NEW m \in Names, NEW t \in servers'[m].tools
      PROVE  {e \in effects' : e.name = t} = {[name |-> t, server |-> m, cfg |-> servers'[m].cfg]}
  <2>1. CASE m = n
    <3>1. t = name /\ effects' = {o \in effects : o.name # name} \cup {eff}
      BY <1>2, <1>4, <1>9, <2>1
    <3> QED
      BY <1>4, <2>1, <3>1
  <2>2. CASE m # n
    <3>1. t \in usedNames /\ t # name /\ servers'[m] = servers[m] /\ t \in servers[m].tools
      BY <1>0, <1>4, <1>9, <2>2 DEF NamesInv
    <3>2. {e \in effects' : e.name = t} = {e \in effects : e.name = t}
      BY <1>2, <3>1
    <3> QED
      BY <3>1, <3>2 DEF NamesInv
  <2> QED
    BY <2>1, <2>2
<1>10. NamesInv'
  BY <1>5, <1>6, <1>7, <1>8, <1>9 DEF NamesInv
<1>11. NamesNeedConnection'
  BY <1>1, <1>4, NoDialIsNoJob DEF NamesNeedConnection
<1>12. NamesReturned'
  <2> SUFFICES ASSUME ~closed', odd' \cap {"twin", "readd", "skipped"} = {}
               PROVE  usedSlugs' = SlugsOf(Names)' /\ usedNames' = ToolsOf(Names)'
    BY DEF NamesReturned, Without
  <2>1. tools = {name} /\ odd' = odd
    BY <1>2
  <2>2. servers[n].conn = NoDial
    BY <2>1 DEF Install, InFlight, Outdated, Known, Inv, SingleInv, Single, Current
  <2>3. servers[n].slug = {} /\ servers[n].tools = {}
    BY <1>1, <2>2 DEF NamesNeedConnection
  <2>4. usedSlugs = SlugsOf(Names) /\ usedNames = ToolsOf(Names)
    BY <1>1, <2>1 DEF NamesReturned, Without
  <2>5. SlugsOf(Names)' = SlugsOf(Names) \cup {slug} /\ ToolsOf(Names)' = ToolsOf(Names) \cup {name}
    BY <1>4, <2>1, <2>3 DEF SlugsOf, ToolsOf
  <2> QED
    BY <1>1, <2>4, <2>5
<1> QED
  BY <1>10, <1>11, <1>12

(* A teardown returns what its servers have, and nothing else.             *)
LEMMA ReconcileNames ==
  ASSUME NamesInv, NamesNeedConnection, NamesReturned, NEW S \in SUBSET Names, Release(S), Unregister(S),
         odd \subseteq odd', closed' = closed,
         \A n \in S : servers'[n].slug = {} /\ servers'[n].tools = {},
         \A n \in Names \ S : \/ servers'[n] = servers[n]
                              \/ /\ servers[n].slug = {} /\ servers[n].tools = {}
                                 /\ servers'[n].slug = {} /\ servers'[n].tools = {}
  PROVE  NamesInv' /\ NamesNeedConnection' /\ NamesReturned'
<1>1. /\ usedSlugs' = usedSlugs \ SlugsOf(S) /\ usedNames' = usedNames \ ToolsOf(S)
      /\ effects' = {e \in effects : e.name \notin ToolsOf(S)}
  BY DEF Release, Unregister
<1>2. \A n \in Names : \/ servers'[n].slug = {} /\ servers'[n].tools = {}
                       \/ n \notin S /\ servers'[n] = servers[n]
  OBVIOUS
<1>3. \A n \in Names \ S : servers[n].slug \cap SlugsOf(S) = {} /\ servers[n].tools \cap ToolsOf(S) = {}
  BY DEF NamesInv, SlugsOf, ToolsOf
<1>4. IsFiniteSet(usedSlugs') /\ IsFiniteSet(usedNames')
  BY <1>1, FS_Difference DEF NamesInv
<1>5. \A m \in Names : servers'[m].slug \subseteq usedSlugs' /\ servers'[m].tools \subseteq usedNames'
  BY <1>1, <1>2, <1>3 DEF NamesInv
<1>6. \A l, m \in Names : l # m => /\ servers'[l].slug \cap servers'[m].slug = {}
                                   /\ servers'[l].tools \cap servers'[m].tools = {}
  BY <1>2 DEF NamesInv
<1>7. \A e \in effects' : e.name \in usedNames'
  BY <1>1 DEF NamesInv
<1>8. ASSUME NEW m \in Names, NEW t \in servers'[m].tools
      PROVE  {e \in effects' : e.name = t} = {[name |-> t, server |-> m, cfg |-> servers'[m].cfg]}
  <2>1. m \notin S /\ servers'[m] = servers[m] /\ t \notin ToolsOf(S)
    BY <1>2, <1>3
  <2>2. {e \in effects' : e.name = t} = {e \in effects : e.name = t}
    BY <1>1, <2>1
  <2> QED
    BY <1>8, <2>1, <2>2 DEF NamesInv
<1>9. NamesInv'
  BY <1>4, <1>5, <1>6, <1>7, <1>8 DEF NamesInv
<1>10. NamesNeedConnection'
  BY <1>2 DEF NamesNeedConnection
<1>11. SlugsOf(Names)' = SlugsOf(Names) \ SlugsOf(S)
  <2>1. \A n \in Names : servers'[n].slug = IF n \in S THEN {} ELSE servers[n].slug
    OBVIOUS
  <2> QED
    BY <1>3, <2>1 DEF SlugsOf
<1>12. ToolsOf(Names)' = ToolsOf(Names) \ ToolsOf(S)
  <2>1. \A n \in Names : servers'[n].tools = IF n \in S THEN {} ELSE servers[n].tools
    OBVIOUS
  <2> QED
    BY <1>3, <2>1 DEF ToolsOf
<1> QED
  BY <1>1, <1>9, <1>10, <1>11, <1>12 DEF NamesReturned, Without


-----------------------------------------------------------------------------
(* What the file says and what runs                                        *)

Oddities == {"twin", "readd", "stale", "skipped", "late_mark"}

(* A name without a server or without an entry has no trace; a job that    *)
(* reconnects is about one server, which the file it has read names; and   *)
(* only enabled servers are dialled.                                       *)
ServersShape == \A n \in Names :
  servers[n].state = "absent" \/ servers[n].cfg = Absent => servers[n] = NoServer

Reconnects(job) == job.kind = "reconnect" =>
  /\ \E n \in Names : job.names = {n}
  /\ job.pc = "apply" => \A n \in job.names : job.seen[n] # Absent

ShapeInv ==
  /\ ServersShape
  /\ \A j \in Jobs : Reconnects(jobs[j])
  /\ \A n \in Names, j \in Jobs : InFlight(n, j) => dials[n][j].cfg \in Entries
  /\ rejected \subseteq Names \X Jobs /\ closed \in BOOLEAN /\ odd \subseteq Oddities

(* A job that will apply the file as it is saved now.                      *)
WillApply(j) ==
  /\ jobs[j].kind \in {"save", "delete"}
  /\ jobs[j].pc = "load" \/ (jobs[j].pc = "apply" /\ jobs[j].seen = disk)

(* The servers are those of the file, or some job will make them so.       *)
SavedInv == "stale" \notin odd =>
  \/ \A n \in Names : servers[n].cfg = disk[n]
  \/ \E j \in Jobs : WillApply(j)

(* What a failed dial, a mark and an installation do to the server.        *)
LEMMA ServerFrame ==
  ASSUME Inv, NEW n \in Names, NEW j \in Jobs
  PROVE  /\ Fail(n, j) => /\ servers'[n].state \in {"needs_auth", "error"}
                          /\ servers'[n] = [servers[n] EXCEPT !.state = servers'[n].state]
         /\ MarkNeedsAuth(n, j) => \/ servers' = servers
                                   \/ /\ Known(n) /\ servers'[n].state = "needs_auth"
                                      /\ servers'[n] = [servers[n] EXCEPT !.state = "needs_auth"]
         /\ Install(n, j) => /\ servers'[n].state = "connected" /\ servers'[n].conn = j
                             /\ servers'[n].cfg = servers[n].cfg
         /\ Fail(n, j) \/ MarkNeedsAuth(n, j) \/ Install(n, j) =>
              \A m \in Names : /\ m # n => servers'[m] = servers[m]
                               /\ servers'[m].cfg = servers[m].cfg
         /\ Fail(n, j) \/ MarkNeedsAuth(n, j) =>
              /\ KeepsNames /\ \A m \in Names : servers'[m].conn = servers[m].conn
<1>1. PICK V : servers \in [Names -> ServerShape(V)]
  BY DEF Inv, Typed, ServersTyped
<1>2. ASSUME NEW st, servers' = [servers EXCEPT ![n].state = st]
      PROVE  /\ servers'[n] = [servers[n] EXCEPT !.state = st] /\ servers'[n].state = st
             /\ \A m \in Names : m # n => servers'[m] = servers[m]
             /\ KeepsNames /\ \A m \in Names : servers'[m].conn = servers[m].conn
  BY <1>1, <1>2 DEF ServerShape, KeepsNames
<1>3. ASSUME Fail(n, j)
      PROVE  /\ servers'[n].state \in {"needs_auth", "error"}
             /\ servers'[n] = [servers[n] EXCEPT !.state = servers'[n].state]
             /\ \A m \in Names : m # n => servers'[m] = servers[m]
             /\ KeepsNames /\ \A m \in Names : servers'[m].conn = servers[m].conn
  <2>1. PICK st \in {"needs_auth", "error"} : servers' = [servers EXCEPT ![n].state = st]
    BY <1>3 DEF Fail, FailedState
  <2> QED
    BY <1>2, <2>1
<1>4. ASSUME MarkNeedsAuth(n, j)
      PROVE  /\ \/ servers' = servers
                \/ /\ Known(n) /\ servers'[n].state = "needs_auth"
                   /\ servers'[n] = [servers[n] EXCEPT !.state = "needs_auth"]
             /\ \A m \in Names : m # n => servers'[m] = servers[m]
             /\ KeepsNames /\ \A m \in Names : servers'[m].conn = servers[m].conn
  <2>1. CASE servers' = servers
    BY <2>1 DEF KeepsNames
  <2>2. CASE Known(n) /\ servers' = [servers EXCEPT ![n].state = "needs_auth"]
    BY <1>2, <2>2
  <2> QED
    BY <1>4, <2>1, <2>2 DEF MarkNeedsAuth, Marked
<1>5. ASSUME Install(n, j)
      PROVE  /\ servers'[n].state = "connected" /\ servers'[n].conn = j
             /\ servers'[n].cfg = servers[n].cfg
             /\ \A m \in Names : m # n => servers'[m] = servers[m]
  <2>1. PICK slug, tools : servers' = [servers EXCEPT ![n] =
          [@ EXCEPT !.conn = j, !.state = "connected", !.slug = slug, !.tools = tools]]
    BY <1>5 DEF Install
  <2> QED
    BY <1>1, <2>1 DEF ServerShape
<1> QED
  BY <1>3, <1>4, <1>5 DEF KeepsNames

(* What Close does to a server.                                            *)
LEMMA CloseFrame ==
  ASSUME Inv, Close
  PROVE  KeepsNames /\ \A n \in Names : /\ servers'[n] = [servers[n] EXCEPT !.conn = NoDial]
                                        /\ servers'[n].state = servers[n].state
                                        /\ servers'[n].conn = NoDial
<1>1. PICK V : servers \in [Names -> ServerShape(V)]
  BY DEF Inv, Typed, ServersTyped
<1> QED
  BY <1>1 DEF Close, ServerShape, KeepsNames

(* Steps that leave the servers alone, and what is apart from them.        *)
LEMMA QuietFrame ==
  ASSUME \/ \E n \in Names, j \in Jobs : Begin(n, j) \/ Discard(n, j) \/ Reject(n, j)
         \/ \E j \in Jobs : Save(j) \/ Delete(j) \/ Rewrite(j) \/ Authorized(j) \/ Load(j)
         \/ UNCHANGED vars
  PROVE  UNCHANGED <<servers, registry, closed>> /\ odd \subseteq odd'
  BY DEF Begin, Discard, Reject, Save, Delete, Rewrite, Authorized, Load, vars

(* A job that reconciles, and the servers afterwards.                      *)
LEMMA ReconcileFrame ==
  ASSUME Inv, ShapeInv, NEW j \in Jobs, Apply(j) \/ Reconnect(j)
  PROVE  \E gone, torn, new \in SUBSET Names : \E f \in File :
           /\ Reconcile(j, gone, torn, new, f) /\ f = jobs[j].seen
           /\ \A n \in new : ~Known(n)
           /\ \A n \in torn \cup new : f[n] # Absent
           /\ \A n \in gone : f[n] = Absent
           /\ Apply(j) => \A n \in Names : n \notin gone \cup torn \cup new => servers[n].cfg = f[n]
<1>1. jobs[j].names \in SUBSET Names /\ jobs[j].seen \in File
  BY DEF Inv, Typed, JobType
<1>2. CASE Apply(j)
  <2> DEFINE f == jobs[j].seen
  <2>1. Gone(f) \in SUBSET Names /\ Bounced(f) \in SUBSET Names /\ Added(f) \in SUBSET Names
    BY DEF Gone, Bounced, Added
  <2>2. Reconcile(j, Gone(f), Bounced(f), Added(f), f)
    BY <1>2 DEF Apply
  <2>3. \A n \in Names : n \notin Gone(f) \cup Bounced(f) \cup Added(f) => servers[n].cfg = f[n]
    BY DEF Gone, Bounced, Added, Inv, Typed
  <2>4. /\ \A n \in Added(f) : ~Known(n)
        /\ \A n \in Bounced(f) \cup Added(f) : f[n] # Absent
        /\ \A n \in Gone(f) : f[n] = Absent
    BY DEF Gone, Bounced, Added
  <2> QED
    BY <1>1, <2>1, <2>2, <2>3, <2>4
<1>3. CASE Reconnect(j)
  <2>1. ~Apply(j) /\ Reconcile(j, {}, jobs[j].names, {}, jobs[j].seen)
    BY <1>3 DEF Reconnect, Apply
  <2>2. \A n \in jobs[j].names : jobs[j].seen[n] # Absent
    BY <1>3 DEF Reconnect, ShapeInv, Reconnects
  <2> QED
    BY <1>1, <2>1, <2>2
<1> QED
  BY <1>2, <1>3


(* What is apart from the servers: the jobs, and what dials were given.    *)
LEMMA JobsShape ==
  ASSUME Inv, ShapeInv, [Next]_vars
  PROVE  \A i \in Jobs : Reconnects(jobs'[i])
<1>1. jobs \in [Jobs -> JobType] /\ disk \in File
  BY DEF Inv, Typed
<1>2. /\ Reconnects(Over) /\ \A S : Reconnects(Loading("save", S)) /\ Reconnects(Loading("delete", S))
      /\ \A n \in Names : Reconnects(Loading("reconnect", {n}))
  BY DEF Reconnects, Over, Loading, NoJob
<1>3. ASSUME NEW j \in Jobs, NEW job, jobs' = [jobs EXCEPT ![j] = job], Reconnects(job)
      PROVE  \A i \in Jobs : Reconnects(jobs'[i])
  BY <1>1, <1>3 DEF ShapeInv
<1>4. ASSUME NEW j \in Jobs, Save(j) PROVE \A i \in Jobs : Reconnects(jobs'[i])
  BY <1>2, <1>3, <1>4 DEF Save
<1>5. ASSUME NEW j \in Jobs, Delete(j) PROVE \A i \in Jobs : Reconnects(jobs'[i])
  <2>1. PICK n \in Names : jobs' = [jobs EXCEPT ![j] =
          IF disk[n] # Absent
          THEN [pc |-> "write", kind |-> "delete", names |-> {n}, seen |-> disk]
          ELSE IF Known(n) THEN Loading("delete", Names)
          ELSE Over]
    BY <1>5, McpAssumption DEF Delete
  <2>2. Reconnects([pc |-> "write", kind |-> "delete", names |-> {n}, seen |-> disk])
    BY DEF Reconnects
  <2> QED
    BY <1>2, <1>3, <2>1, <2>2
<1>6. ASSUME NEW j \in Jobs, Rewrite(j) PROVE \A i \in Jobs : Reconnects(jobs'[i])
  BY <1>2, <1>3, <1>6 DEF Rewrite
<1>7. ASSUME NEW j \in Jobs, Authorized(j) PROVE \A i \in Jobs : Reconnects(jobs'[i])
  <2>1. PICK n \in Names : jobs' = [jobs EXCEPT ![j] = Loading("reconnect", {n})]
    BY <1>7, McpAssumption DEF Authorized
  <2> QED
    BY <1>2, <1>3, <2>1
<1>8. ASSUME NEW j \in Jobs, Load(j) PROVE \A i \in Jobs : Reconnects(jobs'[i])
  <2> DEFINE job == [jobs[j] EXCEPT !.pc = "apply", !.seen = disk]
  <2>1. CASE jobs[j].kind = "reconnect" /\ \A n \in jobs[j].names : disk[n] = Absent
    BY <1>2, <1>3, <1>8, <2>1 DEF Load
  <2>2. CASE ~(jobs[j].kind = "reconnect" /\ \A n \in jobs[j].names : disk[n] = Absent)
    <3>1. jobs' = [jobs EXCEPT ![j] = job]
      BY <1>8, <2>2 DEF Load
    <3>2. job.kind = jobs[j].kind /\ job.names = jobs[j].names /\ job.pc = "apply" /\ job.seen = disk
      BY <1>1 DEF JobType
    <3>3. Reconnects(job)
      BY <2>2, <3>2 DEF ShapeInv, Reconnects
    <3> QED
      BY <1>3, <3>1, <3>3
  <2> QED
    BY <2>1, <2>2
<1>9. ASSUME NEW j \in Jobs, Apply(j) \/ Reconnect(j) PROVE \A i \in Jobs : Reconnects(jobs'[i])
  BY <1>2, <1>3, <1>9 DEF Apply, Reconnect, Reconcile
<1>10. ASSUME NEW n \in Names, NEW j \in Jobs, DialStep(n, j) \/ Reject(n, j) \/ MarkNeedsAuth(n, j)
       PROVE  jobs' = jobs
  BY <1>10 DEF DialStep, Begin, Fail, Discard, Install, Reject, MarkNeedsAuth
<1>11. CASE Close \/ UNCHANGED vars
  BY <1>11 DEF Close, vars, ShapeInv
<1> QED
  BY <1>4, <1>5, <1>6, <1>7, <1>8, <1>9, <1>10, <1>11 DEF Next, JobStep, ShapeInv

(* Dials are started with the entry of an enabled server.                  *)
LEMMA DialsShape ==
  ASSUME Inv, ShapeInv, [Next]_vars
  PROVE  \A m \in Names, i \in Jobs : InFlight(m, i)' => dials'[m][i].cfg \in Entries
<1>1. dials \in [Names -> [Jobs -> DialType]]
  BY DEF Inv, Typed
<1>2. ASSUME NEW n \in Names, NEW j \in Jobs, NEW d, Step(n, j, d), d.pc = "dial" => d.cfg \in Entries
      PROVE  \A m \in Names, i \in Jobs : InFlight(m, i)' => dials'[m][i].cfg \in Entries
  BY <1>1, <1>2 DEF Step, ShapeInv, InFlight
<1>3. ASSUME NEW n \in Names, NEW j \in Jobs, DialStep(n, j)
      PROVE  \A m \in Names, i \in Jobs : InFlight(m, i)' => dials'[m][i].cfg \in Entries
  <2>1. CASE Begin(n, j)
    <3>1. \/ Step(n, j, Ended)
          \/ /\ servers[n].cfg \in Entries
             /\ Step(n, j, [pc |-> "dial", gen |-> servers[n].gen, cfg |-> servers[n].cfg])
      BY <2>1 DEF Begin
    <3> QED
      BY <1>2, <3>1, DialTypes
  <2>2. CASE Fail(n, j) \/ Discard(n, j)
    BY <1>2, <2>2, DialTypes DEF Fail, Discard
  <2>3. CASE Install(n, j)
    <3>1. Step(n, j, [dials[n][j] EXCEPT !.pc = "up", !.gen = 0])
      BY <2>3 DEF Install
    <3>2. [dials[n][j] EXCEPT !.pc = "up", !.gen = 0].pc = "up"
      BY <1>1 DEF DialType
    <3> QED
      BY <1>2, <3>1, <3>2
  <2> QED
    BY <1>3, <2>1, <2>2, <2>3 DEF DialStep
<1>4. ASSUME NEW torn, NEW start, NEW j, dials' = DialsAfter(torn, start, j)
      PROVE  \A m \in Names, i \in Jobs : InFlight(m, i)' => dials'[m][i].cfg \in Entries
  <2>1. \A m \in Names, i \in Jobs : dials'[m][i] \in {Spawned, Ended, dials[m][i]}
    BY <1>4 DEF DialsAfter
  <2> QED
    BY <2>1, DialTypes DEF InFlight, ShapeInv
<1>5. ASSUME NEW j \in Jobs, Apply(j) \/ Reconnect(j)
      PROVE  \A m \in Names, i \in Jobs : InFlight(m, i)' => dials'[m][i].cfg \in Entries
  BY <1>4, <1>5 DEF Apply, Reconnect, Reconcile
<1>6. CASE Close
  BY <1>4, <1>6 DEF Close
<1>7. ASSUME UNCHANGED dials
      PROVE  \A m \in Names, i \in Jobs : InFlight(m, i)' => dials'[m][i].cfg \in Entries
  BY <1>7 DEF InFlight, ShapeInv
<1>8. ASSUME NEW n \in Names, NEW j \in Jobs, Reject(n, j) \/ MarkNeedsAuth(n, j) PROVE UNCHANGED dials
  BY <1>8 DEF Reject, MarkNeedsAuth
<1>9. ASSUME NEW j \in Jobs, Save(j) \/ Delete(j) \/ Rewrite(j) \/ Authorized(j) \/ Load(j) PROVE UNCHANGED dials
  BY <1>9 DEF Save, Delete, Rewrite, Authorized, Load
<1> QED
  BY <1>3, <1>5, <1>6, <1>7, <1>8, <1>9 DEF Next, JobStep, vars

(* A server that is gone or has no entry leaves no trace.                  *)
LEMMA ServersShapeStep ==
  ASSUME Inv, ShapeInv, [Next]_vars
  PROVE  ServersShape'
<1>1. ASSUME NEW n \in Names, NEW j \in Jobs, Fail(n, j) \/ Install(n, j) \/ MarkNeedsAuth(n, j)
      PROVE  ServersShape'
  <2>1. servers' = servers \/ (servers'[n].state # "absent" /\ servers'[n].cfg = servers[n].cfg /\ Known(n))
    BY <1>1, ServerFrame DEF Fail, Install, Outdated
  <2>2. \A m \in Names \ {n} : servers'[m] = servers[m]
    BY <1>1, ServerFrame
  <2>3. Known(n) => servers[n].cfg # Absent
    BY FreshFields DEF ShapeInv, ServersShape, Known
  <2> QED
    BY <2>1, <2>2, <2>3 DEF ShapeInv, ServersShape
<1>2. ASSUME NEW j \in Jobs, Apply(j) \/ Reconnect(j) PROVE ServersShape'
  <2>1. PICK gone, torn, new \in SUBSET Names, f \in File :
          /\ Reconcile(j, gone, torn, new, f)
          /\ \A n \in torn \cup new : f[n] # Absent
    BY <1>2, ReconcileFrame
  <2>2. \A n \in Names : servers'[n] =
          IF n \in gone THEN NoServer
          ELSE IF n \in torn THEN TornDown(servers[n], f[n])
          ELSE IF n \in new THEN Fresh(f[n]) ELSE servers[n]
    BY <2>1 DEF Reconcile
  <2>3. \A n \in torn \cup new : /\ TornDown(servers[n], f[n]).state # "absent" /\ TornDown(servers[n], f[n]).cfg # Absent
                                 /\ Fresh(f[n]).state # "absent" /\ Fresh(f[n]).cfg # Absent
    BY <2>1, FreshFields, InitialStates
  <2> QED
    BY <2>2, <2>3 DEF ShapeInv, ServersShape
<1>3. CASE Close
  <2>1. [NoServer EXCEPT !.conn = NoDial] = NoServer
    BY DEF NoServer
  <2> QED
    BY <1>3, <2>1, CloseFrame DEF ShapeInv, ServersShape, KeepsNames
<1>4. CASE servers' = servers
  BY <1>4 DEF ShapeInv, ServersShape
<1> QED
  BY <1>1, <1>2, <1>3, <1>4, QuietFrame DEF Next, DialStep, JobStep

(* Every step keeps the shapes, and odd and closed only grow.              *)
LEMMA ShapeStep ==
  ASSUME Inv, ShapeInv, [Next]_vars
  PROVE  ShapeInv' /\ odd \subseteq odd' /\ (closed => closed')
<1> USE DEF Oddities
<1>1. /\ rejected' \subseteq Names \X Jobs /\ closed' \in BOOLEAN /\ odd' \subseteq Oddities
      /\ odd \subseteq odd' /\ (closed => closed')
  <2>1. ASSUME NEW n \in Names, NEW j \in Jobs, DialStep(n, j) \/ Reject(n, j) \/ MarkNeedsAuth(n, j)
        PROVE  /\ rejected' \subseteq Names \X Jobs /\ closed' = closed /\ odd' \subseteq Oddities
               /\ odd \subseteq odd'
    <3>1. CASE Begin(n, j)
      BY <3>1 DEF Begin, ShapeInv
    <3>2. CASE Fail(n, j) \/ Discard(n, j) \/ Reject(n, j)
      BY <3>2 DEF Fail, Discard, Reject, ShapeInv
    <3>3. CASE Install(n, j)
      BY <3>3 DEF Install, ShapeInv
    <3>4. CASE MarkNeedsAuth(n, j)
      BY <3>4 DEF MarkNeedsAuth, ShapeInv
    <3> QED
      BY <2>1, <3>1, <3>2, <3>3, <3>4 DEF DialStep
  <2>2. ASSUME NEW j \in Jobs, JobStep(j)
        PROVE  rejected' = rejected /\ closed' = closed /\ odd' \subseteq Oddities /\ odd \subseteq odd'
    <3>1. CASE Save(j) \/ Delete(j) \/ Rewrite(j) \/ Authorized(j) \/ Load(j)
      BY <3>1 DEF Save, Delete, Rewrite, Authorized, Load, ShapeInv
    <3>2. CASE Apply(j) \/ Reconnect(j)
      BY <3>2 DEF Apply, Reconnect, Reconcile, ShapeInv
    <3> QED
      BY <2>2, <3>1, <3>2 DEF JobStep
  <2>3. CASE Close \/ UNCHANGED vars
    BY <2>3 DEF Close, vars, ShapeInv
  <2> QED
    BY <2>1, <2>2, <2>3 DEF Next, ShapeInv
<1> QED
  BY <1>1, JobsShape, DialsShape, ServersShapeStep DEF ShapeInv

(* Every step keeps names and effects with their servers.                  *)
LEMMA NamesStep ==
  ASSUME Inv, ShapeInv, NamesInv, NamesNeedConnection, NamesReturned, [Next]_vars
  PROVE  NamesInv' /\ NamesNeedConnection' /\ NamesReturned'
<1>1. ASSUME NEW n \in Names, NEW j \in Jobs, Install(n, j)
      PROVE  NamesInv' /\ NamesNeedConnection' /\ NamesReturned'
  BY <1>1, InstallNames
<1>2. ASSUME NEW n \in Names, NEW j \in Jobs, Fail(n, j) \/ MarkNeedsAuth(n, j)
      PROVE  NamesInv' /\ NamesNeedConnection' /\ NamesReturned'
  <2>1. UNCHANGED <<registry, closed>> /\ odd \subseteq odd'
    BY <1>2 DEF Fail, MarkNeedsAuth
  <2>2. KeepsNames /\ \A m \in Names : servers'[m].conn = servers[m].conn
    BY <1>2, ServerFrame
  <2> QED
    BY <2>1, <2>2, NamesKept
<1>3. ASSUME NEW j \in Jobs, Apply(j) \/ Reconnect(j)
      PROVE  NamesInv' /\ NamesNeedConnection' /\ NamesReturned'
  <2>1. PICK gone, torn, new \in SUBSET Names, f \in File :
          /\ Reconcile(j, gone, torn, new, f)
          /\ \A n \in new : ~Known(n)
    BY <1>3, ReconcileFrame
  <2>2. \A n \in Names : servers'[n] =
          IF n \in gone THEN NoServer
          ELSE IF n \in torn THEN TornDown(servers[n], f[n])
          ELSE IF n \in new THEN Fresh(f[n]) ELSE servers[n]
    BY <2>1 DEF Reconcile
  <2>3. /\ NoServer.slug = {} /\ NoServer.tools = {}
        /\ \A s, e : /\ Fresh(e).slug = {} /\ Fresh(e).tools = {}
                     /\ TornDown(s, e).slug = {} /\ TornDown(s, e).tools = {}
    BY DEF NoServer, Fresh, TornDown
  <2>4. \A n \in new : servers[n] = NoServer
    BY <2>1 DEF ShapeInv, ServersShape, Known
  <2>5. /\ Release(gone \cup torn) /\ Unregister(gone \cup torn)
        /\ odd \subseteq odd' /\ closed' = closed
    BY <2>1 DEF Reconcile
  <2>6. \A n \in gone \cup torn : servers'[n].slug = {} /\ servers'[n].tools = {}
    BY <2>2, <2>3
  <2>7. \A n \in Names \ (gone \cup torn) :
          \/ servers'[n] = servers[n]
          \/ /\ servers[n].slug = {} /\ servers[n].tools = {}
             /\ servers'[n].slug = {} /\ servers'[n].tools = {}
    BY <2>2, <2>3, <2>4
  <2> QED
    BY <2>5, <2>6, <2>7, ReconcileNames
<1>4. CASE Close
  <2>1. UNCHANGED registry /\ odd \subseteq odd' /\ closed'
    BY <1>4 DEF Close
  <2> QED
    BY <1>4, <2>1, CloseFrame, NamesKept
<1>5. CASE UNCHANGED <<servers, registry, closed>> /\ odd \subseteq odd'
  BY <1>5, NamesKept DEF KeepsNames
<1> QED
  BY <1>1, <1>2, <1>3, <1>4, <1>5, QuietFrame DEF Next, DialStep, JobStep


(* The truth about one server.                                             *)
Shown(s, down) ==
  /\ s.conn # NoDial => s.state \in {"connected", "needs_auth"}
  /\ s.state = "connected" => down \/ s.conn # NoDial
  /\ s.state = "disabled" <=> s.cfg = Off

(* A dial that is decided belongs to an enabled server without a           *)
(* connection.                                                             *)
LEMMA DecidedFree ==
  ASSUME Inv, ShapeInv, odd \cap {"twin", "readd"} = {}, NEW n \in Names, NEW j \in Jobs,
         InFlight(n, j), ~Outdated(n, j)
  PROVE  servers[n].conn = NoDial /\ servers[n].cfg \in Entries
<1>1. Current(servers[n], dials[n], j) /\ Known(n) /\ dials[n][j].cfg \in Entries
  BY DEF Current, InFlight, Outdated, Known, ShapeInv
<1>2. servers[n].conn = NoDial
  BY <1>1 DEF Inv, SingleInv, Single
<1>3. dials[n][j].cfg = servers[n].cfg
  BY <1>1 DEF Inv, MatchInv, Matches, Current
<1> QED
  BY <1>1, <1>2, <1>3

(* Every step keeps the page true.                                         *)
LEMMA StatusStep ==
  ASSUME Inv, ShapeInv, StatusIsTrue, [Next]_vars
  PROVE  StatusIsTrue'
<1>0. odd \subseteq odd' /\ (closed => closed')
  BY ShapeStep
<1> SUFFICES ASSUME odd' \cap {"twin", "readd", "late_mark"} = {}, NEW m \in Names
             PROVE  Shown(servers'[m], closed')
  BY DEF StatusIsTrue, Without, Shown
<1>1. \A n \in Names : Shown(servers[n], closed)
  BY <1>0 DEF StatusIsTrue, Without, Shown
<1>2. odd \cap {"twin", "readd"} = {}
  BY <1>0
<1>3. Off \notin Entries /\ Off # Absent
  BY McpAssumption
<1>4. PICK V : servers \in [Names -> ServerShape(V)]
  BY DEF Inv, Typed, ServersTyped
<1>5. CASE servers'[m] = servers[m]
  BY <1>0, <1>1, <1>5 DEF Shown
<1>6. ASSUME NEW j \in Jobs, Fail(m, j) PROVE Shown(servers'[m], closed')
  <2>1. servers[m].conn = NoDial /\ servers[m].cfg \in Entries
    BY <1>2, <1>6, DecidedFree DEF Fail
  <2>2. servers'[m].state \in {"needs_auth", "error"} /\ servers'[m].conn = NoDial /\ servers'[m].cfg = servers[m].cfg
    BY <1>6, <2>1, ServerFrame
  <2> QED
    BY <1>3, <2>1, <2>2 DEF Shown
<1>7. ASSUME NEW j \in Jobs, Install(m, j) PROVE Shown(servers'[m], closed')
  <2>1. servers[m].conn = NoDial /\ servers[m].cfg \in Entries
    BY <1>2, <1>7, DecidedFree DEF Install
  <2>2. servers'[m].state = "connected" /\ servers'[m].conn = j /\ servers'[m].cfg = servers[m].cfg
    BY <1>7, ServerFrame
  <2> QED
    BY <1>3, <2>1, <2>2, NoDialIsNoJob DEF Shown
<1>8. ASSUME NEW j \in Jobs, MarkNeedsAuth(m, j), servers'[m] # servers[m] PROVE Shown(servers'[m], closed')
  <2>1. /\ Known(m) /\ servers'[m].state = "needs_auth"
        /\ servers'[m].conn = servers[m].conn /\ servers'[m].cfg = servers[m].cfg
    BY <1>8, ServerFrame
  <2>2. servers[m].conn = j
    BY <1>8, <2>1 DEF MarkNeedsAuth
  <2> QED
    BY <1>1, <2>1, <2>2, NoDialIsNoJob DEF Shown
<1>9. ASSUME NEW n \in Names, NEW j \in Jobs, Fail(n, j) \/ Install(n, j) \/ MarkNeedsAuth(n, j)
      PROVE  Shown(servers'[m], closed')
  BY <1>5, <1>6, <1>7, <1>8, <1>9, ServerFrame
<1>10. ASSUME NEW j \in Jobs, Apply(j) \/ Reconnect(j) PROVE Shown(servers'[m], closed')
  <2>1. PICK gone, torn, new \in SUBSET Names, f \in File :
          /\ Reconcile(j, gone, torn, new, f)
          /\ \A n \in torn \cup new : f[n] # Absent
    BY <1>10, ReconcileFrame
  <2>2. servers'[m] =
          IF m \in gone THEN NoServer
          ELSE IF m \in torn THEN TornDown(servers[m], f[m])
          ELSE IF m \in new THEN Fresh(f[m]) ELSE servers[m]
    BY <2>1 DEF Reconcile
  <2>3. Shown(NoServer, closed')
    BY <1>3, FreshFields DEF Shown
  <2>4. ASSUME m \in torn \cup new
        PROVE  Shown(TornDown(servers[m], f[m]), closed') /\ Shown(Fresh(f[m]), closed')
    <3>1. f[m] \in Entries \cup {Off}
      BY <2>1, <2>4, FileEntries DEF AnyEntry
    <3>2. InitialState(f[m]) = "disabled" <=> f[m] = Off
      BY <1>3, <3>1 DEF InitialState
    <3>3. InitialState(f[m]) # "connected"
      BY DEF InitialState
    <3> QED
      BY <3>2, <3>3, FreshFields DEF Shown
  <2> QED
    BY <1>5, <2>2, <2>3, <2>4
<1>11. CASE Close
  <2>1. /\ servers'[m].conn = NoDial /\ servers'[m].state = servers[m].state
        /\ servers'[m].cfg = servers[m].cfg /\ closed'
    BY <1>11, CloseFrame DEF Close, KeepsNames
  <2> QED
    BY <1>1, <2>1 DEF Shown
<1>12. CASE UNCHANGED <<servers, registry, closed>>
  BY <1>5, <1>12
<1> QED
  BY <1>9, <1>10, <1>11, <1>12, QuietFrame DEF Next, DialStep, JobStep

(* Every step keeps the servers those of the file, or a job that will make *)
(* them so.                                                                *)
LEMMA SavedStep ==
  ASSUME Inv, ShapeInv, SavedInv, [Next]_vars
  PROVE  SavedInv'
<1>0. odd \subseteq odd' /\ jobs \in [Jobs -> JobType] /\ disk \in File
  BY ShapeStep DEF Inv, Typed
<1> SUFFICES ASSUME "stale" \notin odd'
             PROVE  (\A n \in Names : servers'[n].cfg = disk'[n]) \/ \E j \in Jobs : WillApply(j)'
  BY DEF SavedInv
<1>1. (\A n \in Names : servers[n].cfg = disk[n]) \/ \E j \in Jobs : WillApply(j)
  BY <1>0 DEF SavedInv
<1>2. /\ \A S : Loading("save", S).pc = "load" /\ Loading("save", S).kind = "save"
      /\ \A S : Loading("delete", S).pc = "load" /\ Loading("delete", S).kind = "delete"
  BY DEF Loading, NoJob
<1>3. ASSUME NEW j \in Jobs, Save(j) \/ Rewrite(j) PROVE WillApply(j)'
  <2>1. PICK kind \in {"save", "delete"} : jobs' = [jobs EXCEPT ![j] = Loading(kind, Names)]
    BY <1>3 DEF Save, Rewrite
  <2> QED
    BY <1>0, <1>2, <2>1 DEF WillApply
<1>4. ASSUME disk' = disk, \A n \in Names : servers'[n].cfg = servers[n].cfg,
             \A j \in Jobs : jobs'[j] = jobs[j] \/ ~WillApply(j) \/ WillApply(j)'
      PROVE  (\A n \in Names : servers'[n].cfg = disk'[n]) \/ \E j \in Jobs : WillApply(j)'
  BY <1>1, <1>4 DEF WillApply
<1>5. ASSUME NEW j \in Jobs, Delete(j) \/ Authorized(j)
      PROVE  (\A n \in Names : servers'[n].cfg = disk'[n]) \/ \E i \in Jobs : WillApply(i)'
  <2>1. ~WillApply(j) /\ disk' = disk /\ servers' = servers
    BY <1>5 DEF Delete, Authorized, Starting, WillApply
  <2>2. \A i \in Jobs : i # j => jobs'[i] = jobs[i]
    BY <1>0, <1>5 DEF Delete, Authorized
  <2> QED
    BY <1>4, <2>1, <2>2
<1>6. ASSUME NEW j \in Jobs, Load(j)
      PROVE  (\A n \in Names : servers'[n].cfg = disk'[n]) \/ \E i \in Jobs : WillApply(i)'
  <2>1. disk' = disk /\ servers' = servers /\ \A i \in Jobs : i # j => jobs'[i] = jobs[i]
    BY <1>0, <1>6 DEF Load
  <2>2. WillApply(j) => WillApply(j)'
    BY <1>0, <1>6 DEF Load, WillApply, JobType
  <2> QED
    BY <1>4, <2>1, <2>2
<1>7. ASSUME NEW j \in Jobs, Apply(j) \/ Reconnect(j)
      PROVE  (\A n \in Names : servers'[n].cfg = disk'[n]) \/ \E i \in Jobs : WillApply(i)'
  <2>1. PICK gone, torn, new \in SUBSET Names, f \in File :
          /\ Reconcile(j, gone, torn, new, f)
          /\ \A n \in gone : f[n] = Absent
          /\ Apply(j) => \A n \in Names : n \notin gone \cup torn \cup new => servers[n].cfg = f[n]
    BY <1>7, ReconcileFrame
  <2>2. f = disk /\ disk' = disk /\ \A i \in Jobs : i # j => jobs'[i] = jobs[i]
    BY <1>0, <2>1 DEF Reconcile
  <2>3. \A n \in Names : servers'[n].cfg =
          IF n \in gone \cup torn \cup new THEN disk[n] ELSE servers[n].cfg
    BY <2>1, <2>2, FreshFields DEF Reconcile
  <2>4. CASE Apply(j)
    BY <2>1, <2>2, <2>3, <2>4
  <2>5. CASE Reconnect(j)
    <3>1. ~WillApply(j)
      BY <2>5 DEF Reconnect, WillApply
    <3>2. \A i \in Jobs : WillApply(i) => WillApply(i)'
      BY <2>2, <3>1 DEF WillApply
    <3> QED
      BY <1>1, <2>2, <2>3, <3>2
  <2> QED
    BY <1>7, <2>4, <2>5
<1>8. ASSUME NEW n \in Names, NEW j \in Jobs, DialStep(n, j) \/ Reject(n, j) \/ MarkNeedsAuth(n, j)
      PROVE  jobs' = jobs /\ disk' = disk /\ \A m \in Names : servers'[m].cfg = servers[m].cfg
  <2>1. jobs' = jobs /\ disk' = disk
    BY <1>8 DEF DialStep, Begin, Fail, Discard, Install, Reject, MarkNeedsAuth
  <2>2. \A m \in Names : servers'[m].cfg = servers[m].cfg
    BY <1>8, ServerFrame, QuietFrame DEF DialStep
  <2> QED
    BY <2>1, <2>2
<1>9. CASE Close
  BY <1>4, <1>9, CloseFrame DEF Close, KeepsNames
<1>10. CASE UNCHANGED vars
  BY <1>4, <1>10 DEF vars
<1> QED
  BY <1>3, <1>4, <1>5, <1>6, <1>7, <1>8, <1>9, <1>10 DEF Next, JobStep

(* All of it holds after Connect.                                          *)
LEMMA InitShape ==
  ASSUME Init
  PROVE  /\ ShapeInv /\ SavedInv /\ StatusIsTrue
         /\ NamesInv /\ NamesNeedConnection /\ NamesReturned
<1>1. /\ disk \in File /\ \A n \in Names : disk[n] \in AnyEntry
      /\ Off # Absent /\ Off \notin Entries /\ Absent \notin Entries
  BY McpAssumption, FileEntries DEF Init
<1>2. \A n \in Names : servers[n] = IF disk[n] = Absent THEN NoServer ELSE Fresh(disk[n])
  BY DEF Init
<1>3. \A n \in Names : servers[n].slug = {} /\ servers[n].tools = {} /\ servers[n].cfg = disk[n]
  <2>1. /\ NoServer.slug = {} /\ NoServer.tools = {}
        /\ \A e : Fresh(e).slug = {} /\ Fresh(e).tools = {}
    BY DEF Fresh, NoServer
  <2> QED
    BY <1>2, <2>1, FreshFields
<1>4. ServersShape
  BY <1>2, FreshFields, InitialStates DEF ServersShape
<1>5. \A j \in Jobs : Reconnects(jobs[j])
  BY DEF Init, Reconnects, Over, NoJob
<1>6. \A n \in Names, j \in Jobs : ~InFlight(n, j)
  BY DialTypes DEF Init, InFlight
<1>7. ShapeInv /\ SavedInv
  BY <1>3, <1>4, <1>5, <1>6 DEF Init, ShapeInv, SavedInv
<1>8. ASSUME NEW n \in Names PROVE Shown(servers[n], closed)
  <2>1. Shown(NoServer, closed)
    BY <1>1, FreshFields DEF Shown
  <2>2. disk[n] # Absent => Shown(Fresh(disk[n]), closed)
    BY <1>1, FreshFields DEF Shown, InitialState, AnyEntry
  <2> QED
    BY <1>2, <2>1, <2>2
<1>9. StatusIsTrue
  BY <1>8 DEF StatusIsTrue, Shown
<1>10. SlugsOf(Names) = {} /\ ToolsOf(Names) = {}
  BY <1>3 DEF SlugsOf, ToolsOf
<1>11. NamesInv /\ NamesNeedConnection /\ NamesReturned
  BY <1>3, <1>10, FS_EmptySet DEF Init, NamesInv, NamesNeedConnection, NamesReturned
<1> QED
  BY <1>7, <1>9, <1>11

(* The types are a part of the invariants.                                 *)
LEMMA TypesFollow == Inv /\ NamesInv /\ ShapeInv => TypeOK
<1> SUFFICES ASSUME Inv, NamesInv, ShapeInv PROVE TypeOK
  OBVIOUS
<1>1. PICK V : servers \in [Names -> ServerShape(V)]
  BY DEF Inv, Typed, ServersTyped
<1>2. \A n \in Names : servers[n] \in ServerType
  <2> TAKE n \in Names
  <2>1. servers[n] \in ServerShape(V)
    BY <1>1
  <2>2. servers[n].slug \in SUBSET usedSlugs /\ servers[n].tools \in SUBSET usedNames
    BY DEF NamesInv
  <2> QED
    BY <2>1, <2>2 DEF ServerShape, ServerType, AnyEntry
<1>3. servers \in [Names -> ServerType]
  BY <1>1, <1>2
<1> QED
  BY <1>3 DEF TypeOK, Inv, Typed, ShapeInv, ServersShape, Oddities

(* The manager's whole invariant.                                          *)
LEMMA Everything ==
  Spec => [](/\ Inv /\ ShapeInv /\ SavedInv /\ StatusIsTrue
             /\ NamesInv /\ NamesNeedConnection /\ NamesReturned)
<1> DEFINE All == /\ Inv /\ ShapeInv /\ SavedInv /\ StatusIsTrue
                  /\ NamesInv /\ NamesNeedConnection /\ NamesReturned
<1>1. Init => All
  BY InitInv, InitShape
<1>2. All /\ [Next]_vars => All'
  BY NextInv, ShapeStep, SavedStep, StatusStep, NamesStep
<1> QED
  BY <1>1, <1>2, PTL DEF Spec

(* Every variable keeps its type, the allocator has whatever slug or name  *)
(* a server has, and a name the manager does not know has no trace in it.  *)
THEOREM ManagerTypes == Spec => []TypeOK
  BY TypesFollow, Everything, PTL

(* naming.go:36-39 and effect.go:223-229: slugs, names and effects follow  *)
(* the server that registered them.  A torn-down server gives its names    *)
(* back, no two servers share one, and the effect the approval policy      *)
(* finds is that of the server's present entry.                            *)
THEOREM NamesFollow == Spec => []NamesAndEffectsFollow
<1>1. NamesInv /\ NamesReturned => NamesAndEffectsFollow
  BY DEF NamesInv, NamesAndEffectsFollow, NoInheritedEffect
<1> QED
  BY <1>1, Everything, PTL

(* The connectors page tells the truth, and when no save, deletion or      *)
(* authorization is under way the servers are those of the file, unless a  *)
(* job applied a file that had been replaced.                              *)
THEOREM FileIsServed == Spec => []ServersAreAsSaved
<1>1. SavedInv => RunsWhatIsSaved
  BY DEF SavedInv, RunsWhatIsSaved, WillApply, Without
<1> QED
  BY <1>1, Everything, PTL DEF ServersAreAsSaved
=============================================================================
