---------------------------- MODULE ChunkedWrite ----------------------------
(***************************************************************************)
(* write_file_chunked: a large file is written through a session that is   *)
(* kept as a JSON file in the workspace and a temporary file beside the    *)
(* target.  The tool holds no lock, the calls of one batch run at the same *)
(* time, and every call is several file operations: an append loads the    *)
(* session, opens the temporary file, writes its chunk and saves the       *)
(* session it loaded with new counts.                                      *)
(*                                                                         *)
(* A chunk is a number, new for every call; the size of a file is the      *)
(* number of its chunks.  Files are inodes: an append that has opened the  *)
(* temporary file writes to it also after finish has renamed it.           *)
(***************************************************************************)
EXTENDS Naturals, Sequences, FiniteSets, SequencesExt

CONSTANTS
    Uploads,       \* the session ids start may draw
    MaxChunks,      \* chunks the model sends
    SizeCap,        \* maxChunkedWriteBytes
    MaxInFlight     \* calls of one batch that run at the same time

ASSUME ChunkAssumption ==
    MaxChunks \in Nat /\ SizeCap \in Nat /\ MaxInFlight \in Nat

VARIABLES
    session,        \* the JSON file of every session
    temp,           \* where the temporary file of every session is
    bytes,          \* the chunks in the inode of every session
    calls,          \* the calls in flight
    sent,           \* chunks sent so far
    acked,          \* history: the chunks whose call reported success, in that order
    before,         \* history: for every chunk, those acknowledged before it was sent
    used,           \* history: the ids that were drawn
    unasked         \* history: the sessions a call derived as harmless has opened

chunkVars == <<session, temp, bytes, calls, sent, acked, before, used, unasked>>

NoUpload == [live |-> FALSE, fresh |-> FALSE, size |-> 0]
Chunk == 1..MaxChunks

\* An append remembers the session it loaded; the steps are named for what is next.
CallState == [mode : {"append", "finish"}, sid : Uploads, chunk : 0..MaxChunks,
              size : Nat, next : {"open", "write", "save", "rename", "delete"}]

ChunkTypeOK ==
    /\ session \in [Uploads -> [live : BOOLEAN, fresh : BOOLEAN, size : Nat]]
    /\ temp \in [Uploads -> {"none", "temp", "target"}]
    /\ bytes \in [Uploads -> Seq(Chunk)]
    /\ calls \subseteq CallState
    /\ sent \in 0..MaxChunks
    /\ acked \in [Uploads -> Seq(Chunk)]
    /\ before \in [Chunk -> SUBSET Chunk]
    /\ used \subseteq Uploads /\ unasked \subseteq Uploads

ChunkInit ==
    /\ session = [s \in Uploads |-> NoUpload]
    /\ temp = [s \in Uploads |-> "none"]
    /\ bytes = [s \in Uploads |-> <<>>]
    /\ calls = {} /\ sent = 0
    /\ acked = [s \in Uploads |-> <<>>]
    /\ before = [c \in Chunk |-> {}]
    /\ used = {} /\ unasked = {}

-----------------------------------------------------------------------------
(***************************************************************************)
(* What a call means: the model may leave the mode out, and tool and       *)
(* deriver must read the same mode out of the other arguments.             *)
(***************************************************************************)
Input == [mode : {"", "start", "append", "finish", "abort", "other"},
          sid : BOOLEAN, path : BOOLEAN, content : BOOLEAN]

ResolveMode(in) ==
    CASE in.mode \in {"start", "append", "finish", "abort"} -> in.mode
      [] in.mode = "" /\ in.sid /\ in.content -> "append"
      [] in.mode = "" /\ ~in.sid /\ in.path -> "start"
      [] OTHER -> "error"

\* Mutant: the deriver knows a start by its name only.
DerivedAsWrite_Named(in) == in.mode = "start"

\* The deriver: only a start is a write, all other modes continue one.
DerivedAsWrite(in) == ResolveMode(in) = "start"

Accepted(in, mode) ==
    /\ ResolveMode(in) = mode
    /\ mode = "start" => in.path
    /\ mode # "start" => in.sid
    /\ mode = "append" => in.content

-----------------------------------------------------------------------------
AllAcked == UNION {ToSet(acked[s]) : s \in Uploads}

\* A session file that has outlived its hours takes its temporary file along.
Reaped(s) == session[s].live /\ ~session[s].fresh

ForgetSessions(gone) ==
    /\ session' = [s \in Uploads |-> IF s \in gone THEN NoUpload ELSE session[s]]
    /\ temp' = [s \in Uploads |->
                  IF s \in gone /\ temp[s] = "temp" THEN "none" ELSE temp[s]]

\* start, with or without a first chunk: expired sessions are swept, then the
\* temporary file is made and, last, the session is saved under a new id.
StartSession(s, in) ==
    /\ Accepted(in, "start")
    /\ s \notin used
    /\ used' = used \cup {s}
    /\ in.content => sent < MaxChunks
    /\ LET gone == {x \in Uploads : Reaped(x)}
           first == IF in.content THEN <<sent + 1>> ELSE <<>>
       IN /\ sent' = sent + Len(first)
          /\ before' = IF in.content THEN [before EXCEPT ![sent + 1] = AllAcked] ELSE before
          /\ bytes' = [bytes EXCEPT ![s] = first]
          /\ acked' = [acked EXCEPT ![s] = first]
          /\ session' = [x \in Uploads |->
                IF x = s THEN [live |-> TRUE, fresh |-> TRUE, size |-> Len(first)]
                ELSE IF x \in gone THEN NoUpload ELSE session[x]]
          /\ temp' = [x \in Uploads |->
                IF x = s THEN "temp"
                ELSE IF x \in gone /\ temp[x] = "temp" THEN "none" ELSE temp[x]]
    /\ unasked' = IF DerivedAsWrite(in) THEN unasked ELSE unasked \cup {s}
    /\ UNCHANGED calls

\* Every other call loads the session first; an expired one is removed instead.
LoadExpired(s) ==
    /\ Reaped(s)
    /\ ForgetSessions({s})
    /\ UNCHANGED <<bytes, calls, sent, acked, before, used, unasked>>

Loadable(s) == session[s].live /\ session[s].fresh

Enter(call) ==
    /\ Cardinality(calls) < MaxInFlight
    /\ call \notin calls
    /\ calls' = calls \cup {call}

\* The cap is on the size the session knows of.
UnderCap(size) == size + 1 <= SizeCap

Append1(s, in) ==
    /\ Accepted(in, "append")
    /\ Loadable(s)
    /\ sent < MaxChunks
    /\ UnderCap(session[s].size)
    /\ sent' = sent + 1
    /\ before' = [before EXCEPT ![sent + 1] = AllAcked]
    /\ Enter([mode |-> "append", sid |-> s, chunk |-> sent + 1,
              size |-> session[s].size, next |-> "open"])
    /\ UNCHANGED <<session, temp, bytes, acked, used, unasked>>

Step(call, next) == calls' = (calls \ {call}) \cup {[call EXCEPT !.next = next]}
Return(call) == calls' = calls \ {call}

\* Opening fails when the temporary file is gone.
AppendOpen(call) ==
    /\ call.next = "open"
    /\ IF temp[call.sid] = "temp" THEN Step(call, "write") ELSE Return(call)
    /\ UNCHANGED <<session, temp, bytes, sent, acked, before, used, unasked>>

\* The write goes to the end of the inode, wherever that is by now, or fails.
AppendWrite(call) ==
    /\ call.next = "write"
    /\ \/ /\ bytes' = [bytes EXCEPT ![call.sid] = Append(@, call.chunk)]
          /\ Step(call, "save")
       \/ Return(call) /\ UNCHANGED bytes
    /\ UNCHANGED <<session, temp, sent, acked, before, used, unasked>>

\* The session that was loaded is written back, counted up; this may make a
\* session file anew that finish or abort has deleted.  The error of a save that
\* fails says nothing of the chunk, which is in the file.
AppendSave(call) ==
    /\ call.next = "save"
    /\ Return(call)
    /\ \/ /\ session' = [session EXCEPT ![call.sid] =
                          [live |-> TRUE, fresh |-> TRUE, size |-> call.size + 1]]
          /\ acked' = [acked EXCEPT ![call.sid] = Append(@, call.chunk)]
       \/ UNCHANGED <<session, acked>>
    /\ UNCHANGED <<temp, bytes, sent, before, used, unasked>>

Finish1(s, in) ==
    /\ Accepted(in, "finish")
    /\ Loadable(s)
    /\ Enter([mode |-> "finish", sid |-> s, chunk |-> 0,
              size |-> session[s].size, next |-> "rename"])
    /\ UNCHANGED <<session, temp, bytes, sent, acked, before, used, unasked>>

FinishRename(call) ==
    /\ call.next = "rename"
    /\ IF temp[call.sid] = "temp"
         THEN /\ temp' = [temp EXCEPT ![call.sid] = "target"]
              /\ Step(call, "delete")
         ELSE Return(call) /\ UNCHANGED temp
    /\ UNCHANGED <<session, bytes, sent, acked, before, used, unasked>>

FinishDelete(call) ==
    /\ call.next = "delete"
    /\ Return(call)
    /\ session' = [session EXCEPT ![call.sid] = NoUpload]
    /\ UNCHANGED <<temp, bytes, sent, acked, before, used, unasked>>

AbortSession(s, in) ==
    /\ Accepted(in, "abort")
    /\ Loadable(s)
    /\ ForgetSessions({s})
    /\ UNCHANGED <<bytes, calls, sent, acked, before, used, unasked>>

-----------------------------------------------------------------------------
\* Twelve hours pass over a session nobody touches.
ExpireSession(s) ==
    /\ Loadable(s)
    /\ \A call \in calls : call.sid # s
    /\ session' = [session EXCEPT ![s].fresh = FALSE]
    /\ UNCHANGED <<temp, bytes, calls, sent, acked, before, used, unasked>>

\* The run is cancelled or the server stops: calls end where they are.
Break ==
    /\ calls # {}
    /\ calls' = {}
    /\ UNCHANGED <<session, temp, bytes, sent, acked, before, used, unasked>>

ChunkNext ==
    \/ \E s \in Uploads, in \in Input :
        \/ StartSession(s, in) \/ Append1(s, in)
        \/ Finish1(s, in) \/ AbortSession(s, in)
    \/ \E call \in calls :
        \/ AppendOpen(call) \/ AppendWrite(call) \/ AppendSave(call)
        \/ FinishRename(call) \/ FinishDelete(call)
    \/ \E s \in Uploads : LoadExpired(s) \/ ExpireSession(s)
    \/ Break

ChunkSpec == ChunkInit /\ [][ChunkNext]_chunkVars

-----------------------------------------------------------------------------
\* A chunk whose call reported success is in the file of its session exactly once
\* and behind every chunk that was acknowledged before it was sent, whatever other
\* calls, failures, cancels and restarts fall between its steps.
AckedChunksAreSaved ==
    \A s \in Uploads : \A c \in ToSet(acked[s]) :
        /\ Cardinality({i \in DOMAIN bytes[s] : bytes[s][i] = c}) = 1
        /\ \A i, j \in DOMAIN bytes[s] :
            bytes[s][i] = c /\ bytes[s][j] \in before[c] => j < i

\* The size a session records, which finish reports and the cap is tested with, is
\* never more than what is in the file.
RecordedSizeIsThere ==
    \A s \in Uploads : session[s].live => session[s].size <= Len(bytes[s])

\* Whatever arguments the model leaves out, a session is opened only by a call
\* that was derived as a write: tool and deriver agree on what a start is.
OnlyWritesStart == unasked = {}

\* All three: what the tool has reported is so, and was asked for.
ChunksAreKept == AckedChunksAreSaved /\ RecordedSizeIsThere /\ OnlyWritesStart
=============================================================================
