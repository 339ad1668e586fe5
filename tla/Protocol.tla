------------------------------ MODULE Protocol ------------------------------
(***************************************************************************)
(* A client (bup save -r, bup get -r) and the bup server it runs, over two *)
(* byte streams.  The client keeps copies of the server's .idx files       *)
(* (index-cache) to know what it need not send; the server names the       *)
(* indexes the client would have needed ("suggestions") while it receives  *)
(* objects, and the client interrupts the upload to fetch them.            *)
(*                                                                         *)
(* As in Repository a pack, and its .idx, is named by the objects in it.   *)
(* Other processes write to the repository between any two steps.          *)
(***************************************************************************)
EXTENDS Naturals, Sequences, FiniteSets

CONSTANTS
    Objects,
    Trees,        \* those bup get writes some time after it looked for them
    FirstIdxs,    \* what the repository may hold at first
    OtherIdxs,    \* the packs other processes may add
    PackLimit,    \* max_pack_objects
    MaxSessions, MaxFaults, MaxOthers   \* bounds

ASSUME ProtocolParameters ==
    /\ Trees \subseteq Objects
    /\ FirstIdxs \subseteq SUBSET ((SUBSET Objects) \ {{}})
    /\ OtherIdxs \subseteq (SUBSET Objects) \ {{}}
    /\ PackLimit \in Nat \ {0}
    /\ {MaxSessions, MaxFaults, MaxOthers} \subseteq Nat

VARIABLES
    \* the repository
    idxs,       \* objects/pack/*.idx
    ref,        \* the branch: everything reachable from it, {} if none
    dedup,      \* bup.server.deduplicate-writes
    \* the server process
    srv,        \* "none", "command" (handle's loop), "receive"
    srvOpen,    \* the objects in its unfinished pack
    srvCache,   \* its PackIdxList, a snapshot of idxs
    suggested,  \* in this receive-objects-v2
    suspended,
    \* the client process
    pc,         \* what it does, or which reply it waits for
    back,       \* where it goes on once toLoad is empty
    want,       \* what its commit reaches
    seen,       \* trees found missing, to be written later
    writer,     \* is there a packwriter?
    objcache,   \* its PackIdxList, a snapshot of cachedir
    pending,    \* _pending_oids
    count,      \* _obj_count
    packopen,   \* is a receive-objects-v2 running, or suspended?
    toLoad,     \* indexes to fetch
    oldref,     \* the branch when it began
    \* the client's disk
    cachedir,
    diskFull,   \* the index cache cannot be written
    \* the streams
    c2s, s2c,
    \* bounds
    sessions, faults, others

repository == <<idxs, ref, dedup>>
server == <<srv, srvOpen, srvCache, suggested, suspended>>
session == <<want, seen, writer, objcache, pending, count, packopen, oldref>>
disk == <<cachedir, diskFull>>
client == <<pc, back, session, toLoad, disk>>
streams == <<c2s, s2c>>
bounds == <<sessions, faults, others>>
vars == <<repository, server, client, streams, bounds>>

Idxs == (SUBSET Objects) \ {{}}
NotLoaded == {{{}}}     \* _objcache is None

\* None is not a list of indexes: an object is no empty set.
ASSUME NotLoadedIsNone == NotLoaded \notin SUBSET Idxs

Msg(kind, arg) == [kind |-> kind, arg |-> arg]

Commands == {"read-ref", "list-indexes", "send-index", "receive-objects-v2",
             "update-ref", "quit"}

TypeOK ==
    /\ idxs \subseteq Idxs
    /\ ref \subseteq Objects
    /\ dedup \in BOOLEAN
    /\ srv \in {"none", "command", "receive"}
    /\ srvOpen \subseteq Objects
    /\ srvCache \subseteq Idxs \/ srvCache = NotLoaded
    /\ suggested \subseteq Idxs
    /\ suspended \in BOOLEAN
    /\ pc \in {"out", "oldref", "ready", "list", "load", "idx", "input",
               "suggestions", "close", "update", "raise"}
    /\ back \in {"ready", "resume", "update", "raise"}
    /\ want \subseteq Objects /\ seen \subseteq Objects
    /\ pending \subseteq Objects /\ oldref \subseteq Objects
    /\ writer \in BOOLEAN /\ packopen \in BOOLEAN
    /\ objcache \subseteq Idxs \/ objcache = NotLoaded
    /\ count \in 0..PackLimit
    /\ toLoad \subseteq Idxs /\ cachedir \subseteq Idxs
    /\ diskFull \in BOOLEAN
    /\ \A s \in {c2s, s2c} : \A i \in DOMAIN s :
           s[i].kind \in Commands \cup {"object", "suspend", "end", "eof", "ok",
                                        "ref", "list", "idx", "index", "packed"}
    /\ sessions \in 0..MaxSessions
    /\ faults \in 0..MaxFaults
    /\ others \in 0..MaxOthers

Init ==
    /\ idxs \in FirstIdxs
    /\ ref = {}
    /\ dedup \in BOOLEAN
    /\ srv = "none" /\ srvOpen = {} /\ srvCache = NotLoaded
    /\ suggested = {} /\ suspended = FALSE
    /\ pc = "out" /\ back = "ready"
    /\ want = {} /\ seen = {} /\ writer = FALSE /\ objcache = NotLoaded
    /\ pending = {} /\ count = 0 /\ packopen = FALSE /\ oldref = {}
    /\ toLoad = {} /\ cachedir = {} /\ diskFull = FALSE
    /\ c2s = <<>> /\ s2c = <<>>
    /\ sessions = 0 /\ faults = 0 /\ others = 0

-----------------------------------------------------------------------------
(***************************************************************************)
(* The client: connection and calls                                        *)
(***************************************************************************)

Send(kind, arg) == c2s' = Append(c2s, Msg(kind, arg)) /\ UNCHANGED s2c

\* The next thing the server said.  A call that reads anything but its own
\* answer raises; the last line of any answer is "ok".
Heard(kind) == s2c # <<>> /\ Head(s2c).kind = kind
Receive == s2c' = Tail(s2c) /\ UNCHANGED c2s

\* Client() and the reading of the branch's tip.  help, set-dir and
\* config-get are calls like read-ref.
Connect(W) ==
    /\ pc = "out"
    /\ srv = "none"
    /\ sessions < MaxSessions
    /\ sessions' = sessions + 1
    /\ srv' = "command"
    /\ c2s' = <<Msg("read-ref", {})>> /\ s2c' = <<>>
    /\ pc' = "oldref"
    /\ want' = W /\ seen' = {} /\ pending' = {} /\ count' = 0
    /\ UNCHANGED <<repository, srvOpen, srvCache, suggested, suspended, back,
                   writer, objcache, packopen, oldref, toLoad, disk, faults,
                   others>>

OldRef ==
    /\ pc = "oldref"
    /\ Heard("ref")
    /\ Receive
    /\ oldref' = Head(s2c).arg
    /\ pc' = "ready"
    /\ UNCHANGED <<repository, server, back, want, seen, writer, objcache, pending,
                   count, packopen, toLoad, disk, bounds>>

\* new_packwriter: sync_indexes begins.
EnsurePackwriter ==
    /\ pc = "ready"
    /\ ~writer
    /\ Send("list-indexes", {})
    /\ pc' = "list"
    /\ UNCHANGED <<repository, server, back, session, toLoad, disk, bounds>>

\* MISTAKE: indexes the server no longer has stay in the cache.
SyncIndexesKeep ==
    /\ pc = "list"
    /\ Heard("list")
    /\ Receive
    /\ toLoad' = IF dedup THEN {} ELSE Head(s2c).arg
    /\ pc' = "load" /\ back' = "ready"
    /\ UNCHANGED <<repository, server, session, disk, bounds>>

\* Cached indexes the server does not have are removed.  A server that does
\* not deduplicate marks every index with "load", and all of them are needed.
SyncIndexes ==
    /\ pc = "list"
    /\ Heard("list")
    /\ Receive
    /\ cachedir' = cachedir \cap Head(s2c).arg
    /\ toLoad' = IF dedup THEN {} ELSE Head(s2c).arg
    /\ pc' = "load" /\ back' = "ready"
    /\ UNCHANGED <<repository, server, session, diskFull, bounds>>

\* sync_index: "won't request existing .idx" is an exception.
RequestIdx(i) ==
    /\ pc = "load"
    /\ i \in toLoad
    /\ IF i \in cachedir
       THEN pc' = "raise" /\ UNCHANGED streams
       ELSE pc' = "idx" /\ Send("send-index", i)
    /\ UNCHANGED <<repository, server, back, session, toLoad, disk, bounds>>

StoreIdx ==
    /\ pc = "idx"
    /\ ~diskFull
    /\ Heard("idx")
    /\ Receive
    /\ cachedir' = cachedir \cup {Head(s2c).arg}
    /\ toLoad' = toLoad \ {Head(s2c).arg}
    /\ pc' = "load"
    /\ UNCHANGED <<repository, server, back, session, diskFull, bounds>>

Fault ==
    /\ faults < MaxFaults
    /\ faults' = faults + 1

\* The file cannot be written; nothing replaces the old one.
StoreIdxFails ==
    /\ pc = "idx"
    /\ diskFull
    /\ Heard("idx")
    /\ Receive
    /\ pc' = "raise"
    /\ UNCHANGED <<repository, server, back, session, toLoad, disk, bounds>>

DiskFills ==
    /\ ~diskFull
    /\ Fault
    /\ diskFull' = TRUE
    /\ UNCHANGED <<repository, server, pc, back, session, toLoad, cachedir, streams,
                   sessions, others>>

\* new_packwriter goes on with a new RemotePackStore and PackWriter.
SyncDone ==
    /\ pc = "load" /\ toLoad = {}
    /\ back = "ready"
    /\ writer' = TRUE
    /\ pc' = "ready"
    /\ UNCHANGED <<repository, server, back, want, seen, objcache, pending, count,
                   packopen, oldref, toLoad, disk, streams, bounds>>

-----------------------------------------------------------------------------
(***************************************************************************)
(* The client: writing                                                     *)
(***************************************************************************)

Snapshot == IF objcache = NotLoaded THEN cachedir ELSE objcache
Known == pending \cup UNION Snapshot
Exists(o) == o \in Known

Writing == pc = "ready" /\ writer /\ count < PackLimit

\* RemotePackStore.write, after _open.
SendObject(o) ==
    /\ c2s' = c2s \o (IF packopen THEN <<>> ELSE <<Msg("receive-objects-v2", {})>>)
                  \o <<Msg("object", {o})>>
    /\ UNCHANGED s2c
    /\ packopen' = TRUE
    /\ pending' = pending \cup {o}
    /\ count' = count + 1
    /\ pc' = "input"

\* maybe_write, and a leaf of bup get: looked for, then written.
Write(o) ==
    /\ Writing
    /\ o \in want \ seen
    /\ ~Exists(o)
    /\ objcache' = Snapshot
    /\ SendObject(o)
    /\ UNCHANGED <<repository, server, back, want, seen, writer, oldref, toLoad,
                   disk, bounds>>

\* bup get descends into a tree it does not find at the destination; the
\* tree itself is written after what is in it.
SeeTree(o) ==
    /\ Writing
    /\ o \in (want \cap Trees) \ seen
    /\ ~Exists(o)
    /\ objcache' = Snapshot
    /\ seen' = seen \cup {o}
    /\ UNCHANGED <<repository, server, pc, back, want, writer, pending, count,
                   packopen, oldref, toLoad, disk, streams, bounds>>

\* MISTAKE: the tree was missing, so it is written.
WriteTreeUnchecked(o) ==
    /\ Writing
    /\ o \in seen
    /\ seen' = seen \ {o}
    /\ SendObject(o)
    /\ UNCHANGED <<repository, server, back, want, writer, objcache, oldref,
                   toLoad, disk, bounds>>

\* get_random_item looks again before just_write.
WriteTree(o) ==
    /\ Writing
    /\ o \in seen
    /\ seen' = seen \ {o}
    /\ objcache' = IF o \in pending THEN objcache ELSE Snapshot
    /\ IF Exists(o)
       THEN UNCHANGED <<pc, pending, count, packopen, streams>>
       ELSE SendObject(o)
    /\ UNCHANGED <<repository, server, back, want, writer, oldref, toLoad,
                   disk, bounds>>

\* has_input: nothing, or nothing yet.
NoInput ==
    /\ pc = "input"
    /\ pc' = "ready"
    /\ UNCHANGED <<repository, server, back, session, toLoad, disk, streams,
                   bounds>>

\* The server suggests something: suspend the upload.
Suspend ==
    /\ pc = "input"
    /\ s2c # <<>> /\ Head(s2c).kind # "eof"
    /\ objcache # NotLoaded
    /\ Send("suspend", {})
    /\ pc' = "suggestions" /\ back' = "resume"
    /\ UNCHANGED <<repository, server, session, toLoad, disk, bounds>>

\* _suggest_packs reads up to the "ok"; then each index is fetched.
IsIdxLine(m) == m.kind \in {"index", "packed"}

Suggestions ==
    /\ pc = "suggestions"
    /\ \E n \in DOMAIN s2c :
          /\ s2c[n].kind = "ok"
          /\ \A k \in 1..(n - 1) : IsIdxLine(s2c[k])
          /\ toLoad' = {s2c[k].arg : k \in 1..(n - 1)}
          /\ s2c' = SubSeq(s2c, n + 1, Len(s2c))
    /\ pc' = "load"
    /\ UNCHANGED <<repository, server, back, session, disk, c2s, bounds>>

\* MISTAKE: the upload goes on without the command that resumes it.
ResumeSilently ==
    /\ pc = "load" /\ toLoad = {}
    /\ back = "resume"
    /\ objcache' = objcache \cup cachedir
    /\ pc' = "ready"
    /\ UNCHANGED <<repository, server, back, want, seen, writer, pending, count,
                   packopen, oldref, toLoad, disk, streams, bounds>>

\* The upload is taken up again and the snapshot refreshed.
Resume ==
    /\ pc = "load" /\ toLoad = {}
    /\ back = "resume"
    /\ Send("receive-objects-v2", {})
    /\ objcache' = objcache \cup cachedir
    /\ pc' = "ready"
    /\ UNCHANGED <<repository, server, back, want, seen, writer, pending, count,
                   packopen, oldref, toLoad, disk, bounds>>

\* finish_pack: the snapshot goes; an open pack is ended, whatever its state,
\* and the suggestions are read.
FinishPack(then) ==
    /\ objcache' = NotLoaded
    /\ IF packopen
       THEN /\ Send("end", {})
            /\ packopen' = FALSE
            /\ pc' = "suggestions" /\ back' = then
       ELSE /\ pc' = then
            /\ UNCHANGED <<streams, packopen, back>>

Breakpoint ==
    /\ pc = "ready" /\ writer
    /\ count = PackLimit
    /\ FinishPack("ready")
    /\ count' = 0
    /\ UNCHANGED <<repository, server, want, seen, writer, pending, oldref,
                   toLoad, disk, bounds>>

\* Everything is there: update_ref begins with finish_writing.
CloseWriter ==
    /\ Writing
    /\ seen = {}
    /\ \A o \in want : Exists(o)
    /\ FinishPack("update")
    /\ UNCHANGED <<repository, server, want, seen, writer, pending, count, oldref,
                   toLoad, disk, bounds>>

Closed ==
    /\ pc = "load" /\ toLoad = {}
    /\ back = "update"
    /\ pc' = "update"
    /\ UNCHANGED <<repository, server, back, session, toLoad, disk, streams,
                   bounds>>

UpdateRef ==
    /\ pc = "update"
    /\ Send("update-ref", [new |-> want, old |-> oldref])
    /\ writer' = FALSE
    /\ pc' = "close"
    /\ UNCHANGED <<repository, server, back, want, seen, objcache, pending, count,
                   packopen, oldref, toLoad, disk, bounds>>

-----------------------------------------------------------------------------
(***************************************************************************)
(* The client: the end                                                     *)
(***************************************************************************)

\* Client.close: "quit", and the streams are closed.
Quit ==
    /\ Send("quit", {})
    /\ pc' = "out"
    /\ writer' = FALSE /\ packopen' = FALSE /\ objcache' = NotLoaded

Updated ==
    /\ pc = "close"
    /\ Heard("ok")
    /\ c2s' = Append(c2s, Msg("quit", {})) /\ s2c' = Tail(s2c)
    /\ pc' = "out"
    /\ packopen' = FALSE /\ objcache' = NotLoaded
    /\ UNCHANGED <<repository, server, back, want, seen, writer, pending, count,
                   oldref, toLoad, disk, bounds>>

\* The command fails between two writes: a file cannot be read.
Abandon ==
    /\ Fault
    /\ pc = "ready"
    /\ pc' = "raise"
    /\ UNCHANGED <<repository, server, back, session, toLoad, disk, streams,
                   sessions, others>>

\* An exception leaves "with RemoteRepo": close finishes the open pack first.
RaiseFinish ==
    /\ pc = "raise"
    /\ packopen
    /\ FinishPack("raise")
    /\ UNCHANGED <<repository, server, want, seen, writer, pending, count, oldref,
                   toLoad, disk, bounds>>

RaiseFinished ==
    /\ pc = "load" /\ toLoad = {}
    /\ back = "raise"
    /\ pc' = "raise"
    /\ UNCHANGED <<repository, server, back, session, toLoad, disk, streams,
                   bounds>>

RaiseQuit ==
    /\ pc = "raise"
    /\ ~packopen
    /\ Quit
    /\ UNCHANGED <<repository, server, back, want, seen, pending, count, oldref,
                   toLoad, disk, bounds>>

\* The process is gone; what it wrote may still arrive.
Gone ==
    /\ pc # "out"
    /\ pc' = "out"
    /\ c2s' = Append(c2s, Msg("eof", {})) /\ UNCHANGED s2c
    /\ writer' = FALSE /\ packopen' = FALSE /\ objcache' = NotLoaded
    /\ UNCHANGED <<repository, server, back, want, seen, pending, count, oldref,
                   toLoad, disk>>

Kill == Fault /\ Gone /\ UNCHANGED <<sessions, others>>

\* "server exited unexpectedly"
ServerLost ==
    /\ \E n \in DOMAIN s2c : s2c[n].kind = "eof"
    /\ Gone
    /\ UNCHANGED bounds

-----------------------------------------------------------------------------
(***************************************************************************)
(* The server                                                              *)
(***************************************************************************)

Asked(kind) == srv = "command" /\ c2s # <<>> /\ Head(c2s).kind = kind
Arrived(kind) == srv = "receive" /\ c2s # <<>> /\ Head(c2s).kind = kind

Reply(lines) == s2c' = s2c \o lines /\ c2s' = Tail(c2s)
Ok == Msg("ok", {})

\* A packwriter is closed: what it received, if anything, becomes a pack.
FinishWriting ==
    /\ idxs' = idxs \cup ({srvOpen} \ {{}})
    /\ srvOpen' = {} /\ srvCache' = NotLoaded

SrvReadRef ==
    /\ Asked("read-ref")
    /\ Reply(<<Msg("ref", ref)>>)
    /\ UNCHANGED <<repository, server, client, bounds>>

SrvListIndexes ==
    /\ Asked("list-indexes")
    /\ Reply(<<Msg("list", idxs)>>)
    /\ UNCHANGED <<repository, server, client, bounds>>

SrvSendIndex ==
    /\ Asked("send-index")
    /\ Reply(<<Msg("idx", Head(c2s).arg)>>)
    /\ UNCHANGED <<repository, server, client, bounds>>

\* MISTAKE: every receive_objects_v2 begins a pack.
SrvReceiveAnew ==
    /\ Asked("receive-objects-v2")
    /\ c2s' = Tail(c2s) /\ UNCHANGED s2c
    /\ srv' = "receive"
    /\ srvOpen' = {}
    /\ suggested' = {} /\ suspended' = FALSE
    /\ UNCHANGED <<repository, srvCache, client, bounds>>

\* receive_objects_v2 begins, or goes on after a suspension with the pack it
\* had; what was suggested before is forgotten.
SrvReceive ==
    /\ Asked("receive-objects-v2")
    /\ c2s' = Tail(c2s) /\ UNCHANGED s2c
    /\ srv' = "receive"
    /\ suggested' = {} /\ suspended' = FALSE
    /\ UNCHANGED <<repository, srvOpen, srvCache, client, bounds>>

SrvSnapshot == IF srvCache = NotLoaded THEN idxs ELSE srvCache

\* An object the server has in an index: the first time, it names the index.
SrvKnows(o) ==
    /\ \E i \in SrvSnapshot :
          /\ o \in i
          /\ Reply(IF i \in suggested THEN <<>> ELSE <<Msg("index", i)>>)
          /\ suggested' = suggested \cup {i}
    /\ srvCache' = SrvSnapshot
    /\ UNCHANGED srvOpen

SrvStore(o) ==
    /\ Reply(<<>>)
    /\ srvCache' = IF dedup THEN SrvSnapshot ELSE srvCache
    /\ srvOpen' = srvOpen \cup {o}
    /\ UNCHANGED suggested

SrvObject ==
    /\ Arrived("object")
    /\ \E o \in Head(c2s).arg :
          IF dedup /\ o \in UNION SrvSnapshot THEN SrvKnows(o) ELSE SrvStore(o)
    /\ UNCHANGED <<repository, srv, suspended, client, bounds>>

\* MISTAKE: nothing confirms the suspension.
SrvSuspendSilent ==
    /\ Arrived("suspend")
    /\ Reply(<<>>)
    /\ srv' = "command"
    /\ suspended' = TRUE
    /\ UNCHANGED <<repository, srvOpen, srvCache, suggested, client, bounds>>

SrvSuspend ==
    /\ Arrived("suspend")
    /\ Reply(<<Ok>>)
    /\ srv' = "command"
    /\ suspended' = TRUE
    /\ UNCHANGED <<repository, srvOpen, srvCache, suggested, client, bounds>>

\* The pack is finished and, if there is one, its .idx named.
SrvEnd ==
    /\ Arrived("end")
    /\ FinishWriting
    /\ Reply((IF srvOpen = {} THEN <<>> ELSE <<Msg("packed", srvOpen)>>) \o <<Ok>>)
    /\ srv' = "command"
    /\ UNCHANGED <<ref, dedup, suggested, suspended, client, bounds>>

\* The server leaves handle(): __exit__ finishes a suspended upload, and
\* closing the repository any other.
SrvExit ==
    /\ FinishWriting
    /\ srv' = "none"
    /\ suspended' = FALSE /\ suggested' = {}
    /\ c2s' = <<>>
    /\ s2c' = Append(s2c, Msg("eof", {}))

\* update_ref finishes what is being written, then moves the ref if it still
\* is what the client saw; otherwise git fails and the server with it.
SrvUpdateRef ==
    /\ Asked("update-ref")
    /\ ref = Head(c2s).arg.old
    /\ FinishWriting
    /\ ref' = Head(c2s).arg.new
    /\ Reply(<<Ok>>)
    /\ UNCHANGED <<dedup, srv, suggested, suspended, client, bounds>>

SrvUpdateRefFails ==
    /\ Asked("update-ref")
    /\ ref # Head(c2s).arg.old
    /\ SrvExit
    /\ UNCHANGED <<ref, dedup, client, bounds>>

SrvQuit ==
    /\ Asked("quit") \/ Asked("eof")
    /\ SrvExit
    /\ UNCHANGED <<ref, dedup, client, bounds>>

\* "object read: expected length header, got EOF": the pack is aborted.
SrvAbort ==
    /\ Arrived("eof")
    /\ srv' = "none"
    /\ srvOpen' = {} /\ srvCache' = NotLoaded
    /\ suggested' = {} /\ suspended' = FALSE
    /\ c2s' = <<>> /\ s2c' = Append(s2c, Msg("eof", {}))
    /\ UNCHANGED <<repository, client, bounds>>

\* The client is gone and does not take the answer.
SrvBrokenPipe ==
    /\ srv # "none"
    /\ pc = "out" /\ s2c # <<>>
    /\ SrvExit
    /\ UNCHANGED <<ref, dedup, client, bounds>>

\* handle reads lines.  The four zero bytes that end an upload are none: only
\* with what follows do they become one, an "unknown server command".
SrvUnknownCommand ==
    /\ Asked("end")
    /\ Len(c2s) > 1
    /\ SrvExit
    /\ UNCHANGED <<ref, dedup, client, bounds>>

-----------------------------------------------------------------------------
(***************************************************************************)
(* Other processes                                                         *)
(***************************************************************************)

Other ==
    /\ others < MaxOthers
    /\ others' = others + 1

\* A save by somebody else, to this branch or to another one.
OtherSave(P) ==
    /\ Other
    /\ idxs' = idxs \cup {P}
    /\ ref' \in {ref, P}
    /\ UNCHANGED <<dedup, server, client, streams, sessions, faults>>

\* A collection drops a pack nothing needs while nobody writes.
OtherGc(P) ==
    /\ Other
    /\ pc = "out" /\ srv = "none"
    /\ P \in idxs
    /\ ref \subseteq UNION (idxs \ {P})
    /\ idxs' = idxs \ {P}
    /\ UNCHANGED <<ref, dedup, server, client, streams, sessions, faults>>

ClientNext ==
    \/ OldRef \/ EnsurePackwriter \/ SyncIndexes \/ SyncDone
    \/ \E i \in toLoad : RequestIdx(i)
    \/ StoreIdx \/ StoreIdxFails \/ NoInput \/ Suspend \/ Suggestions \/ Resume
    \/ \E o \in want : Write(o) \/ SeeTree(o) \/ WriteTree(o)
    \/ Breakpoint \/ CloseWriter \/ Closed \/ UpdateRef \/ Updated
    \/ RaiseFinish \/ RaiseFinished \/ RaiseQuit \/ ServerLost

ServerNext ==
    \/ SrvReadRef \/ SrvListIndexes \/ SrvSendIndex \/ SrvReceive
    \/ SrvObject \/ SrvSuspend \/ SrvEnd \/ SrvUpdateRef
    \/ SrvUpdateRefFails \/ SrvQuit \/ SrvAbort \/ SrvUnknownCommand

Next ==
    \/ \E W \in Idxs : Connect(W)
    \/ ClientNext \/ ServerNext
    \/ DiskFills \/ Abandon \/ Kill \/ SrvBrokenPipe
    \/ \E P \in OtherIdxs : OtherSave(P)
    \/ \E P \in idxs : OtherGc(P)

Spec == Init /\ [][Next]_vars

FairSpec == Spec /\ WF_vars(ClientNext) /\ WF_vars(ServerNext)

-----------------------------------------------------------------------------
\* Whatever the branch reaches is in a finished pack, when client, server and
\* the other processes are killed or interleave as they will.
RefComplete == ref \subseteq UNION idxs

InFlight == UNION {c2s[i].arg : i \in {j \in DOMAIN c2s : c2s[j].kind = "object"}}

\* What a packwriter takes for existing, from the index cache or because it
\* sent it, is on the server or on its way.
KnownIsKept ==
    writer /\ srv # "none" => Known \subseteq (UNION idxs) \cup srvOpen \cup InFlight

\* Suggestions do not end the client: sync_index is never asked for an index
\* the cache has (the comment in get_random_item tells how that could happen;
\* it is when the server does not deduplicate: sync_indexes then asks for all
\* it lists), and write has the snapshot whose temporary files it closes.
SuggestionsAreSafe ==
    /\ dedup /\ pc = "load" => toLoad \cap cachedir = {}
    /\ pc = "input" => objcache # NotLoaded

\* Both ends agree on what they talk about, as long as the index cache can be
\* written: the server takes nothing of an upload for a command, and no call
\* reads another call's answer.
Expected == [p \in {"oldref", "list", "idx", "suggestions", "close"} |->
    CASE p = "oldref" -> {"ref"}
      [] p = "list" -> {"list"}
      [] p = "idx" -> {"idx"}
      [] p = "suggestions" -> {"index", "packed", "ok"}
      [] p = "close" -> {"ok"}]

InSync == ~diskFull =>
    /\ srv = "command" /\ c2s # <<>> => Head(c2s).kind \in Commands \cup {"eof"}
    /\ srv = "receive" /\ c2s # <<>> =>
         Head(c2s).kind \in {"object", "suspend", "end", "eof"}
    /\ pc \in DOMAIN Expected /\ s2c # <<>> =>
         Head(s2c).kind \in Expected[pc] \cup {"eof"}

\* Every session ends, one way or the other, as long as the index cache can be
\* written: when a suggested index cannot be, finish_pack ends an upload the
\* server has suspended, and each side waits for the other.
SessionEnds == (pc # "out") ~> (pc = "out" \/ diskFull)
=============================================================================
