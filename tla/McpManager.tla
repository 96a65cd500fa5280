----------------------------- MODULE McpManager -----------------------------
(***************************************************************************)
(* The manager of the MCP servers: servers are dialled in the background,  *)
(* outside the manager's lock, while saves and deletions of the config     *)
(* file, finished authorizations and rejected tokens change the very state *)
(* the dials will install themselves into.  Every teardown moves a         *)
(* server's generation, and a dial whose generation is no longer the       *)
(* server's discards its connection.                                       *)
(*                                                                         *)
(* A config entry is an opaque value: two entries are the same value when  *)
(* their hashes are the same.  A server offers one tool.                   *)
(***************************************************************************)
EXTENDS Integers, FiniteSets

CONSTANTS
  Names,    (* names of servers                                            *)
  Base,     (* what sanitize makes of a name                               *)
  Entries,  (* config entries of an enabled server                         *)
  Off,      (* the config entry of a disabled server                       *)
  Absent,   (* no config entry                                             *)
  Booted,   (* the config files the program may start with                 *)
  Files,    (* the config files a user may save                            *)
  Targets,  (* bound: the servers that are deleted, authorized or refused  *)
  MaxJobs,  (* bound: saves, deletions and authorizations                  *)
  MaxMarks  (* bound: tools that find their token rejected                 *)

File == [Names -> Entries \cup {Off, Absent}]

ASSUME McpAssumption ==
  /\ Off # Absent /\ Off \notin Entries /\ Absent \notin Entries
  /\ Booted \subseteq File /\ Files \subseteq File /\ Targets \subseteq Names
  /\ MaxJobs \in Nat /\ MaxMarks \in Nat

Boot == 0
Jobs == Boot..MaxJobs   (* a job starts at most one dial of each server     *)
NoDial == -1

VARIABLES
  disk,       (* the config file                                           *)
  jobs,       (* the handlers and goroutines that change the configuration *)
  servers,    (* Manager.servers                                           *)
  dials,      (* the bringUp goroutines, by server and the job that started it *)
  usedSlugs,  (* allocator.usedSlugs                                       *)
  usedNames,  (* allocator.usedNames                                       *)
  effects,    (* what the effect registry holds for remote tools           *)
  rejected,   (* tools that were refused and will call MarkNeedsAuth       *)
  closed,     (* Close has run                                             *)
  odd         (* history: the unfortunate orders of steps seen so far      *)

registry == <<usedSlugs, usedNames, effects>>
vars == <<disk, jobs, servers, dials, registry, rejected, closed, odd>>

-----------------------------------------------------------------------------
(* Servers *)

States == {"disabled", "connecting", "connected", "needs_auth", "error"}

NoServer == [cfg |-> Absent, gen |-> 0, conn |-> NoDial, state |-> "absent",
             slug |-> {}, tools |-> {}]

Known(n) == servers[n].state # "absent"

InitialState(e) == IF e \in Entries THEN "connecting" ELSE "disabled"

Fresh(e) == [NoServer EXCEPT !.cfg = e, !.state = InitialState(e)]

(* Mutant: a teardown does not move the generation.                        *)
TornDown_SameGen(s, e) == [Fresh(e) EXCEPT !.gen = s.gen]

(* A server after teardownLocked, with the entry it gets next.             *)
TornDown(s, e) == [Fresh(e) EXCEPT !.gen = s.gen + 1]

-----------------------------------------------------------------------------
(* Dials *)

(* A dial is up from the moment its connection is installed until that is  *)
(* closed.                                                                 *)
Idle    == [pc |-> "idle", gen |-> 0, cfg |-> Absent]
Spawned == [Idle EXCEPT !.pc = "begin"]
Ended   == [Idle EXCEPT !.pc = "done"]

InFlight(n, j) == dials[n][j].pc = "dial"

(* Mutant: only a server that is gone is noticed.                          *)
Outdated_GoneOnly(n, j) == ~Known(n)

(* The test bringUp and fail make under the lock.                          *)
Outdated(n, j) == ~Known(n) \/ servers[n].gen # dials[n][j].gen

(* Some other dial runs or has run under the server's present generation.  *)
HasTwin(n, j) ==
  \/ servers[n].conn # NoDial
  \/ \E i \in Jobs \ {j} : InFlight(n, i) /\ dials[n][i].gen = servers[n].gen

(* The connections of the servers in torn are closed, job j spawns a dial  *)
(* of each server in start.                                                *)
DialsAfter(torn, start, j) ==
  [n \in Names |-> [i \in Jobs |->
     IF i = j /\ n \in start THEN Spawned
     ELSE IF n \in torn /\ servers[n].conn = i THEN Ended
     ELSE dials[n][i]]]

-----------------------------------------------------------------------------
(* Names and effects *)

FirstFree(b, used) ==
  <<b, CHOOSE i \in 1..(Cardinality(used) + 1) :
         /\ <<b, i>> \notin used
         /\ \A k \in 1..(i - 1) : <<b, k>> \in used>>

SlugFor(n)    == FirstFree(Base[n], usedSlugs)
NameFor(slug) == FirstFree(slug, usedNames)

SlugsOf(S) == UNION {servers[n].slug : n \in S}
ToolsOf(S) == UNION {servers[n].tools : n \in S}

Release(S) ==
  /\ usedSlugs' = usedSlugs \ SlugsOf(S)
  /\ usedNames' = usedNames \ ToolsOf(S)

(* Mutant: the effects stay.                                               *)
Unregister_None(S) == UNCHANGED effects

Unregister(S) == effects' = {e \in effects : e.name \notin ToolsOf(S)}

Register(e) == effects' = {o \in effects : o.name # e.name} \cup {e}

-----------------------------------------------------------------------------
(* bringUp *)

Step(n, j, d) == dials' = [dials EXCEPT ![n][j] = d]

(* It reads the entry and the generation; there may be nothing to dial.    *)
Begin(n, j) ==
  /\ dials[n][j].pc = "begin"
  /\ \/ /\ ~Known(n) \/ servers[n].cfg \notin Entries
        /\ Step(n, j, Ended)
        /\ UNCHANGED odd
     \/ /\ Known(n) /\ servers[n].cfg \in Entries
        /\ Step(n, j, [pc |-> "dial", gen |-> servers[n].gen,
                       cfg |-> servers[n].cfg])
        /\ odd' = odd \cup (IF HasTwin(n, j) THEN {"twin"} ELSE {})
  /\ UNCHANGED <<disk, jobs, servers, registry, rejected, closed>>

(* Mutant: a server that wants an authorization keeps its state.           *)
FailedState_Keep(how) == IF how = "unauthorized" THEN "connecting" ELSE "error"

FailedState(how) == IF how = "unauthorized" THEN "needs_auth" ELSE "error"

(* connect fails, also after a refreshed token, or the tools cannot be     *)
(* listed.  Neither touches the manager before fail takes the lock.        *)
Fail(n, j) ==
  /\ InFlight(n, j) /\ ~Outdated(n, j)
  /\ Step(n, j, Ended)
  /\ \E how \in {"unauthorized", "broken"} :
       servers' = [servers EXCEPT ![n].state = FailedState(how)]
  /\ UNCHANGED <<disk, jobs, registry, rejected, closed, odd>>

(* Whatever came of the dial, the server has been torn down meanwhile: the *)
(* connection, if there is one, is closed.                                 *)
Discard(n, j) ==
  /\ InFlight(n, j) /\ Outdated(n, j)
  /\ Step(n, j, Ended)
  /\ UNCHANGED <<disk, jobs, servers, registry, rejected, closed, odd>>

(* The connection is installed and its tool named and registered, or named *)
(* and then skipped because its schema cannot be converted.                *)
Install(n, j) ==
  /\ InFlight(n, j) /\ ~Outdated(n, j)
  /\ Step(n, j, [dials[n][j] EXCEPT !.pc = "up", !.gen = 0])
  /\ LET slug == SlugFor(n)
         name == NameFor(slug)
         Up(tools) == servers' = [servers EXCEPT ![n] =
                        [@ EXCEPT !.conn = j, !.state = "connected",
                                  !.slug = {slug}, !.tools = tools]]
     IN /\ usedSlugs' = usedSlugs \cup {slug}
        /\ usedNames' = usedNames \cup {name}
        /\ \/ /\ Up({name})
              /\ Register([name |-> name, server |-> n, cfg |-> servers[n].cfg])
              /\ UNCHANGED odd
           \/ /\ Up({})
              /\ odd' = odd \cup {"skipped"}
              /\ UNCHANGED effects
  /\ UNCHANGED <<disk, jobs, rejected, closed>>

-----------------------------------------------------------------------------
(* Saves, deletions, authorizations *)

NoJob == [pc |-> "idle", kind |-> "none", names |-> {}, seen |-> [n \in Names |-> Absent]]

(* Jobs are numbered in the order in which they start.                     *)
Starting(j) == /\ j # Boot /\ jobs[j].pc = "idle" /\ ~closed
               /\ \A i \in Boot..(j - 1) : jobs[i].pc # "idle"

Over == [NoJob EXCEPT !.pc = "over"]

(* A job that goes on to read the file.                                    *)
Loading(kind, S) == [NoJob EXCEPT !.pc = "load", !.kind = kind, !.names = S]

(* SaveConfig writes the file.                                             *)
Save(j) ==
  /\ Starting(j)
  /\ \E f \in Files \ {disk} : disk' = f
  /\ jobs' = [jobs EXCEPT ![j] = Loading("save", Names)]
  /\ UNCHANGED <<servers, dials, registry, rejected, closed, odd>>

(* DeleteServer: RemoveServer reads the file.                              *)
Delete(j) ==
  /\ Starting(j)
  /\ \E n \in Targets :
       jobs' = [jobs EXCEPT ![j] =
         IF disk[n] # Absent
         THEN [pc |-> "write", kind |-> "delete", names |-> {n}, seen |-> disk]
         ELSE IF Known(n) THEN Loading("delete", Names)
         ELSE Over]
  /\ UNCHANGED <<disk, servers, dials, registry, rejected, closed, odd>>

(* RemoveServer writes back what it has read, without the entry.           *)
Rewrite(j) ==
  /\ jobs[j].pc = "write"
  /\ disk' = [n \in Names |-> IF n \in jobs[j].names THEN Absent ELSE jobs[j].seen[n]]
  /\ jobs' = [jobs EXCEPT ![j] = Loading("delete", Names)]
  /\ UNCHANGED <<servers, dials, registry, rejected, closed, odd>>

(* CompleteAuth has stored a token and starts Reconnect.                   *)
Authorized(j) ==
  /\ Starting(j)
  /\ \E n \in Targets :
       jobs' = [jobs EXCEPT ![j] = Loading("reconnect", {n})]
  /\ UNCHANGED <<disk, servers, dials, registry, rejected, closed, odd>>

(* LoadConfig, outside the manager's lock.  Reconnect gives up when the    *)
(* file does not name its server.                                          *)
Load(j) ==
  /\ jobs[j].pc = "load"
  /\ jobs' = [jobs EXCEPT ![j] =
       IF jobs[j].kind = "reconnect" /\ \A n \in jobs[j].names : disk[n] = Absent
       THEN Over ELSE [jobs[j] EXCEPT !.pc = "apply", !.seen = disk]]
  /\ UNCHANGED <<disk, servers, dials, registry, rejected, closed, odd>>

(* Mutant: an entry that changed is not noticed while its server works.    *)
Bounced_Broken(f) == {n \in Names : /\ Known(n) /\ f[n] # Absent
                                    /\ servers[n].state = "error"}

(* Servers that are gone from a file, that are new in it, whose entry      *)
(* changed or that are in error.                                           *)
Gone(f)    == {n \in Names : Known(n) /\ f[n] = Absent}
Added(f)   == {n \in Names : ~Known(n) /\ f[n] # Absent}
Bounced(f) == {n \in Names : /\ Known(n) /\ f[n] # Absent
                             /\ servers[n].cfg # f[n] \/ servers[n].state = "error"}

(* Mutant: a server whose connection was torn down is not dialled again.   *)
ToStart_NewOnly(S, f) == {n \in S : f[n] \in Entries /\ ~Known(n)}

(* The servers that bringUp is called for.                                 *)
ToStart(S, f) == {n \in S : f[n] \in Entries}

(* What Apply and Reconnect do under the lock: remove the servers in gone, *)
(* tear down those in torn, add those in new.                              *)
Reconcile(j, gone, torn, new, f) ==
  /\ servers' = [n \in Names |->
       IF n \in gone THEN NoServer
       ELSE IF n \in torn THEN TornDown(servers[n], f[n])
       ELSE IF n \in new THEN Fresh(f[n])
       ELSE servers[n]]
  /\ dials' = DialsAfter(gone \cup torn, ToStart(torn \cup new, f), j)
  /\ Release(gone \cup torn) /\ Unregister(gone \cup torn)
  /\ jobs' = [jobs EXCEPT ![j] = Over]
  /\ odd' = odd \cup (IF f # disk THEN {"stale"} ELSE {})
                \cup (IF \E n \in torn \cup new, i \in Jobs : ~Known(n) /\ InFlight(n, i)
                      THEN {"readd"} ELSE {})
  /\ UNCHANGED <<disk, rejected, closed>>

Apply(j) ==
  /\ jobs[j].pc = "apply" /\ jobs[j].kind \in {"save", "delete"}
  /\ LET f == jobs[j].seen IN Reconcile(j, Gone(f), Bounced(f), Added(f), f)

(* Reconnect tears down in any case; a server it has to create starts with *)
(* generation 1.                                                           *)
Reconnect(j) ==
  /\ jobs[j].pc = "apply" /\ jobs[j].kind = "reconnect"
  /\ Reconcile(j, {}, jobs[j].names, {}, jobs[j].seen)

-----------------------------------------------------------------------------
(* Rejected tokens, and the end *)

(* A call through an installed connection is refused and the token cannot  *)
(* be refreshed.                                                           *)
Reject(n, j) ==
  /\ dials[n][j].pc = "up" /\ n \in Targets
  /\ <<n, j>> \notin rejected /\ Cardinality(rejected) < MaxMarks
  /\ rejected' = rejected \cup {<<n, j>>}
  /\ UNCHANGED <<disk, jobs, servers, dials, registry, closed, odd>>

(* Mutant: the mark makes an entry for a server that was removed.          *)
Marked_Any(n) == [servers EXCEPT ![n].state = "needs_auth"]

Marked(n) == IF Known(n) THEN [servers EXCEPT ![n].state = "needs_auth"] ELSE servers

MarkNeedsAuth(n, j) ==
  /\ <<n, j>> \in rejected
  /\ rejected' = rejected \ {<<n, j>>}
  /\ servers' = Marked(n)
  /\ odd' = odd \cup (IF Known(n) /\ servers[n].conn # j THEN {"late_mark"} ELSE {})
  /\ UNCHANGED <<disk, jobs, dials, registry, closed>>

Close ==
  /\ ~closed
  /\ closed' = TRUE
  /\ servers' = [n \in Names |-> [servers[n] EXCEPT !.conn = NoDial]]
  /\ dials' = DialsAfter(Names, {}, Boot)
  /\ UNCHANGED <<disk, jobs, registry, rejected, odd>>

-----------------------------------------------------------------------------
(* The system.  It starts after Connect, which starts a dial for every     *)
(* server in the file, the disabled ones included.                         *)

Init ==
  /\ disk \in Booted
  /\ jobs = [j \in Jobs |-> IF j = Boot THEN Over ELSE NoJob]
  /\ servers = [n \in Names |-> IF disk[n] = Absent THEN NoServer ELSE Fresh(disk[n])]
  /\ dials = [n \in Names |-> [j \in Jobs |->
               IF j = Boot /\ disk[n] # Absent THEN Spawned ELSE Idle]]
  /\ usedSlugs = {} /\ usedNames = {} /\ effects = {}
  /\ rejected = {} /\ closed = FALSE /\ odd = {}

DialStep(n, j) == Begin(n, j) \/ Fail(n, j) \/ Discard(n, j) \/ Install(n, j)

JobStep(j) ==
  \/ Save(j) \/ Delete(j) \/ Rewrite(j) \/ Authorized(j)
  \/ Load(j) \/ Apply(j) \/ Reconnect(j)

Next ==
  \/ \E n \in Names, j \in Jobs : DialStep(n, j) \/ Reject(n, j) \/ MarkNeedsAuth(n, j)
  \/ \E j \in Jobs : JobStep(j)
  \/ Close

Spec == Init /\ [][Next]_vars

(* A dial ends: connect and the listing have a deadline.  Nothing makes    *)
(* the user save, or a token be rejected.                                  *)
Fairness == \A n \in Names, j \in Jobs : WF_vars(DialStep(n, j))

FairSpec == Spec /\ Fairness

-----------------------------------------------------------------------------
(* Properties.  The unfortunate orders of steps recorded in odd:           *)
(*   twin        a dial begins under a generation that already has one:    *)
(*               its goroutine was slower than the teardown after it       *)
(*   readd       a server comes back, with its generations counted from    *)
(*               the start, while a dial of its predecessor is in flight   *)
(*   stale       Apply or Reconnect uses a config that is no longer saved  *)
(*   skipped     a tool is named and then left out                         *)
(*   late_mark   a server is marked for a token that a connection it no    *)
(*               longer has was refused                                    *)

Without(S) == odd \cap S = {}

ServerType == [cfg : Entries \cup {Off, Absent}, gen : Nat, conn : Jobs \cup {NoDial},
               state : States \cup {"absent"},
               slug : SUBSET usedSlugs, tools : SUBSET usedNames]

DialType == [pc : {"idle", "begin", "dial", "up", "done"}, gen : Nat,
             cfg : Entries \cup {Off, Absent}]

JobType == [pc : {"idle", "write", "load", "apply", "over"},
            kind : {"none", "save", "delete", "reconnect"},
            names : SUBSET Names, seen : File]

(* Every variable has its type, and a name the manager does not know has   *)
(* no trace in it.                                                         *)
TypeOK ==
  /\ disk \in File
  /\ jobs \in [Jobs -> JobType]
  /\ servers \in [Names -> ServerType]
  /\ dials \in [Names -> [Jobs -> DialType]]
  /\ rejected \subseteq Names \X Jobs
  /\ closed \in BOOLEAN
  /\ odd \subseteq {"twin", "readd", "stale", "skipped", "late_mark"}
  /\ \A n \in Names : (servers[n].state = "absent" \/ servers[n].cfg = Absent)
                       => servers[n] = NoServer

(* manager.go:78-81: a connection that was installed is held by its server *)
(* until it is closed, so some teardown will close it (for a stdio server  *)
(* it is a child process).  It takes a twin or a re-added server to lose   *)
(* one.                                                                    *)
NoConnectionLost ==
  Without({"twin", "readd"}) =>
    \A n \in Names, j \in Jobs :
      dials[n][j].pc = "up" => servers[n].conn = j

(* The connection a server holds was dialled with the entry it has now,    *)
(* however saves, deletions and authorizations overtake the dial.          *)
ConnMatchesConfig ==
  \A n \in Names : servers[n].conn # NoDial =>
    dials[n][servers[n].conn].cfg = servers[n].cfg

(* So long as no server is re-added under a dial in flight.                *)
ConnMatchesUnlessReadded == Without({"readd"}) => ConnMatchesConfig

(* A server shown as connecting has a dial that will decide about it: one  *)
(* that has not begun, or one whose generation is the server's.            *)
ConnectingHasDial ==
  \A n \in Names : servers[n].state = "connecting" =>
    \E j \in Jobs : \/ dials[n][j].pc = "begin"
                    \/ InFlight(n, j) /\ ~Outdated(n, j)

(* naming.go:36-39: the allocator holds exactly the slugs and names of the *)
(* connected servers, so a server that reconnects gets its names back.     *)
NamesReturned ==
  (~closed /\ Without({"twin", "readd", "skipped"})) =>
    usedSlugs = SlugsOf(Names) /\ usedNames = ToolsOf(Names)

(* effect.go:223-229: the effect the approval policy finds for a tool is   *)
(* the one of the server that has the tool now, under its present entry;   *)
(* no two servers share a tool name, and an effect that was left behind is *)
(* under a name that is never given out again.                             *)
NoInheritedEffect ==
  /\ \A n \in Names : \A t \in servers[n].tools :
       /\ {e \in effects : e.name = t} =
            {[name |-> t, server |-> n, cfg |-> servers[n].cfg]}
       /\ \A m \in Names \ {n} : t \notin servers[m].tools
  /\ \A e \in effects : e.name \in usedNames

(* Both: slugs, names and effects follow the server that registered them.  *)
NamesAndEffectsFollow == NamesReturned /\ NoInheritedEffect

(* The connectors page tells the truth: a server is connected when it has  *)
(* a connection, in error only without one, and disabled when its entry    *)
(* says so.                                                                *)
StatusIsTrue ==
  Without({"twin", "readd", "late_mark"}) =>
    \A n \in Names : LET s == servers[n] IN
      /\ s.conn # NoDial => s.state \in {"connected", "needs_auth"}
      /\ s.state = "connected" => closed \/ s.conn # NoDial
      /\ s.state = "disabled" <=> s.cfg = Off

(* When no save, deletion or authorization is under way, the servers are   *)
(* those of the file, unless one of them applied a file that had been      *)
(* replaced.                                                               *)
RunsWhatIsSaved ==
  (Without({"stale"}) /\ \A j \in Jobs : jobs[j].pc \in {"idle", "over"}) =>
    \A n \in Names : servers[n].cfg = disk[n]

(* Both: the page and the running servers are those of the file.           *)
ServersAreAsSaved == StatusIsTrue /\ RunsWhatIsSaved

(* Once the user stops changing things no server is shown as connecting    *)
(* any more: every dial ends, and the last one of a server decides.        *)
Settles == <>[](\A n \in Names : servers[n].state # "connecting")
=============================================================================
