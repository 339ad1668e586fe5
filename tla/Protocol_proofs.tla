---------------------------- MODULE Protocol_proofs ----------------------------
(***************************************************************************)
(* What client and server promise each other holds for every set of        *)
(* objects, every pack size limit and any number of sessions, kills and    *)
(* other writers.                                                          *)
(***************************************************************************)
EXTENDS Protocol, SequenceTheorems, TLAPS

-----------------------------------------------------------------------------
(***************************************************************************)
(* The streams                                                             *)
(***************************************************************************)

Signals == {"read-ref", "list-indexes", "receive-objects-v2", "quit", "suspend",
            "end", "eof", "ok"}

Message ==
    [kind : Signals, arg : {{}}]
    \cup [kind : {"object"}, arg : {{o} : o \in Objects}]
    \cup [kind : {"ref"}, arg : SUBSET Objects]
    \cup [kind : {"send-index", "idx", "index", "packed"}, arg : Idxs]
    \cup [kind : {"list"}, arg : SUBSET Idxs]
    \cup [kind : {"update-ref"}, arg : [new : SUBSET Objects, old : SUBSET Objects]]

\* What is in a stream.
In(s) == {s[j] : j \in 1..Len(s)}

\* The server runs, and the client that talks to it.
Talking == srv # "none" /\ pc # "out"

\* The first n messages are what is left of an upload: the command that
\* begins or resumes it, unless the server has seen that, and objects.
Upload(n) ==
    /\ srv = "command" => n >= 1
    /\ \A j \in 1..n :
          c2s[j].kind = IF srv = "command" /\ j = 1 THEN "receive-objects-v2"
                                                    ELSE "object"

\* The server waits for a command and the client owes it none.
Quiet == srv = "command" /\ c2s = <<>> /\ s2c = <<>>

\* All the server has said is what it suggests.
Suggesting == \A j \in 1..Len(s2c) : s2c[j].kind = "index"

Uploading == Upload(Len(c2s)) /\ Suggesting

\* The upload ends with a message the server answers.
Ending(kind) ==
    /\ Len(c2s) >= 1
    /\ c2s[Len(c2s)].kind = kind
    /\ Upload(Len(c2s) - 1)
    /\ Suggesting

\* It has answered.
Ended ==
    /\ srv = "command" /\ c2s = <<>>
    /\ Len(s2c) >= 1
    /\ s2c[Len(s2c)].kind = "ok"
    /\ \A j \in 1..(Len(s2c) - 1) :
          IF back = "resume" THEN s2c[j].kind = "index" ELSE IsIdxLine(s2c[j])

\* A command is on its way, or its answer.
Calling(kind, answer) ==
    /\ srv = "command"
    /\ \/ Len(c2s) = 1 /\ c2s[1].kind = kind /\ s2c = <<>>
       \/ c2s = <<>> /\ Len(s2c) = 1 /\ s2c[1].kind = answer

\* The client ended an upload that it had suspended; neither says any more.
Stalled ==
    /\ diskFull
    /\ srv = "command" /\ s2c = <<>>
    /\ Len(c2s) = 1 /\ c2s[1].kind = "end"

-----------------------------------------------------------------------------
(***************************************************************************)
(* The inductive invariant                                                 *)
(***************************************************************************)

Types == TypeOK /\ c2s \in Seq(Message) /\ s2c \in Seq(Message)

\* Where the client is, and whether it has a packwriter and an upload.
Phase ==
    /\ packopen => /\ writer
                   /\ pc \in {"ready", "input", "suggestions", "load", "idx", "raise"}
    /\ pc = "input" => packopen
    /\ pc \in {"suggestions", "load", "idx"} => (packopen <=> back = "resume")
    /\ pc = "suggestions" => writer
    /\ pc \in {"load", "idx"} => writer \/ back = "ready"
    /\ writer => pc \notin {"out", "oldref", "list", "close"}

\* What is in the streams, by what the client does.
Dialogue == Talking =>
    /\ pc = "oldref" => Calling("read-ref", "ref")
    /\ pc = "list" => Calling("list-indexes", "list")
    /\ pc = "idx" => Calling("send-index", "idx")
    /\ pc = "close" => Calling("update-ref", "ok")
    /\ pc \in {"ready", "raise"} /\ ~packopen => Quiet
    /\ pc \in {"update", "load"} => Quiet
    /\ pc \in {"ready", "input"} /\ packopen => Uploading
    /\ pc = "raise" /\ packopen => Uploading \/ (diskFull /\ Quiet)
    /\ pc = "suggestions" =>
         \/ Ending(IF back = "resume" THEN "suspend" ELSE "end")
         \/ Ended
         \/ back = "raise" /\ Stalled

\* The client is gone: the server reads what it had sent, up to the end.
Draining == srv # "none" /\ pc = "out" =>
    LET n == Len(c2s) - 1
    IN  /\ n >= 0
        /\ \/ n = 0 /\ srv = "command" /\ c2s[1].kind = "quit"
           \/ /\ c2s[n + 1].kind = "eof"
              /\ \/ n = 0
                 \/ /\ n = 1 /\ srv = "command"
                    /\ c2s[1].kind \in {"read-ref", "list-indexes", "send-index",
                                        "update-ref"}
                 \/ Upload(n)
                 \/ n >= 1 /\ Upload(n - 1) /\ c2s[n].kind \in {"suspend", "end"}
                 \/ n = 1 /\ srv = "command" /\ diskFull /\ c2s[1].kind = "end"

\* Only update_ref ends a server whose client is there.
Alone == srv = "none" /\ pc # "out" =>
    pc = "close" /\ Len(s2c) = 1 /\ s2c[1].kind = "eof"

\* The server's pack and its snapshot: what it deduplicates is not in both.
ServerPack ==
    /\ srv = "none" => srvOpen = {} /\ srvCache = NotLoaded
    /\ srvCache = NotLoaded \/ srvCache \subseteq idxs
    /\ dedup /\ srvOpen # {} =>
         srvCache # NotLoaded /\ srvOpen \cap UNION srvCache = {}

\* The client's snapshot follows its index cache, and that the server.
ClientCache ==
    /\ objcache # NotLoaded =>
         /\ writer /\ objcache \subseteq cachedir
         /\ pc \in {"ready", "input", "suggestions"} => objcache = cachedir
    /\ pc = "input" => objcache # NotLoaded
    /\ pc \in {"suggestions", "load", "idx"} => (objcache # NotLoaded <=> back = "resume")
    /\ pc = "update" => objcache = NotLoaded
    /\ writer \/ pc \in {"load", "idx"} => cachedir \subseteq idxs

\* An index one end names to the other is there.
Named == Talking =>
    /\ pc \in {"load", "idx"} => toLoad \subseteq idxs
    /\ \A m \in In(s2c) :
          /\ m.kind = "list" => m.arg \subseteq idxs
          /\ m.kind = "idx" => m.arg \in toLoad
          /\ IsIdxLine(m) => m.arg \in idxs
    /\ \A m \in In(c2s) : m.kind = "send-index" => m.arg \in toLoad

\* A server that deduplicates tells the client nothing it knew: neither what
\* it sends nor what it sent is in an index it has.
New == Talking /\ dedup =>
    /\ pc \in {"load", "idx"} => toLoad \cap cachedir = {}
    /\ \A m \in In(s2c) : IsIdxLine(m) => m.arg \notin cachedir
    /\ \A m \in In(c2s) : m.kind = "object" => m.arg \cap UNION cachedir = {}
    /\ srvOpen \cap UNION cachedir = {}

\* What is suggested during an upload comes from the server's snapshot.
FromSnapshot(i) == dedup /\ srvCache # NotLoaded /\ i \in srvCache

Suggested == Talking =>
    /\ packopen \/ (pc = "suggestions" /\ c2s # <<>>) =>
         \A m \in In(s2c) : m.kind = "index" => FromSnapshot(m.arg)
    /\ packopen /\ pc \in {"load", "idx"} => \A i \in toLoad : FromSnapshot(i)

\* Without an upload the server has no pack open.
NothingOpen ==
    Talking /\ ~packopen /\ (pc = "suggestions" => c2s = <<>>) => srvOpen = {}

Kept == (UNION idxs) \cup srvOpen \cup InFlight

\* What the client sent, and what its commit reaches once it is to be
\* written, is on the server or on its way.
Secured == srv # "none" =>
    /\ pc # "out" => pending \subseteq Kept
    /\ pc = "update" \/ (pc \in {"suggestions", "load", "idx"} /\ back = "update") =>
         want \subseteq Kept
    /\ \A m \in In(c2s) :
          m.kind = "update-ref" => m.arg.new \subseteq (UNION idxs) \cup srvOpen

IInv ==
    /\ Types
    /\ Phase /\ Dialogue /\ Draining /\ Alone
    /\ ServerPack /\ ClientCache /\ Named /\ New /\ Suggested /\ NothingOpen
    /\ Secured /\ RefComplete

-----------------------------------------------------------------------------
\* What each kind of message carries.
LEMMA MessageArg ==
    ASSUME NEW m \in Message
    PROVE  /\ m = Msg(m.kind, m.arg)
           /\ m.kind = "object" => \E o \in Objects : m.arg = {o}
           /\ m.kind = "ref" => m.arg \subseteq Objects
           /\ m.kind \in {"send-index", "idx", "index", "packed"} => m.arg \in Idxs
           /\ m.kind = "list" => m.arg \subseteq Idxs
           /\ m.kind = "update-ref" =>
                m.arg \in [new : SUBSET Objects, old : SUBSET Objects]
           /\ m.kind \in Commands \cup {"object", "suspend", "end", "eof", "ok",
                                        "ref", "list", "idx", "index", "packed"}
  BY DEF Message, Signals, Msg, Commands

\* Every message either end sends is a message.
LEMMA IsMessage ==
    /\ \A k \in Signals : Msg(k, {}) \in Message
    /\ \A o \in Objects : Msg("object", {o}) \in Message
    /\ \A r \in SUBSET Objects : Msg("ref", r) \in Message
    /\ \A i \in Idxs : /\ Msg("send-index", i) \in Message
                       /\ Msg("idx", i) \in Message
                       /\ Msg("index", i) \in Message
                       /\ Msg("packed", i) \in Message
    /\ \A I \in SUBSET Idxs : Msg("list", I) \in Message
    /\ \A new, old \in SUBSET Objects :
          Msg("update-ref", [new |-> new, old |-> old]) \in Message
  BY DEF Message, Msg

\* The kinds of messages in a stream, for the type invariant.
LEMMA StreamKinds ==
    ASSUME NEW s \in Seq(Message)
    PROVE  \A i \in DOMAIN s :
              s[i].kind \in Commands \cup {"object", "suspend", "end", "eof", "ok",
                                        "ref", "list", "idx", "index", "packed"}
  BY MessageArg

\* A stream a message is added to, or taken from.
LEMMA Sent ==
    ASSUME NEW s \in Seq(Message), NEW m \in Message
    PROVE  /\ Append(s, m) \in Seq(Message)
           /\ Len(Append(s, m)) = Len(s) + 1
           /\ \A j \in 1..Len(s) : Append(s, m)[j] = s[j]
           /\ Append(s, m)[Len(s) + 1] = m
  OBVIOUS

\* A stream the first message is taken from.
LEMMA Taken ==
    ASSUME NEW s \in Seq(Message), s # <<>>
    PROVE  /\ Head(s) \in Message /\ Head(s) = s[1] /\ Len(s) >= 1
           /\ Tail(s) \in Seq(Message)
           /\ Len(Tail(s)) = Len(s) - 1
           /\ \A j \in 1..Len(Tail(s)) : Tail(s)[j] = s[j + 1]
  OBVIOUS

\* A stream of one message.
LEMMA One ==
    ASSUME NEW m \in Message
    PROVE  <<m>> \in Seq(Message) /\ Len(<<m>>) = 1 /\ <<m>>[1] = m
  OBVIOUS

\* Two streams, one after the other.
LEMMA Joined ==
    ASSUME NEW s \in Seq(Message), NEW t \in Seq(Message)
    PROVE  /\ s \o t \in Seq(Message)
           /\ Len(s \o t) = Len(s) + Len(t)
           /\ \A j \in 1..Len(s) : (s \o t)[j] = s[j]
           /\ \A j \in 1..Len(t) : (s \o t)[Len(s) + j] = t[j]
  BY ConcatProperties

\* The server's steps leave the client alone.
LEMMA ServerStep == ServerNext => UNCHANGED <<client, dedup, bounds>>
  BY DEF ServerNext, SrvReadRef, SrvListIndexes, SrvSendIndex, SrvReceive,
         SrvObject, SrvSuspend, SrvEnd, SrvUpdateRef, SrvUpdateRefFails, SrvQuit,
         SrvAbort, SrvUnknownCommand, repository, bounds

\* The client's steps leave the repository and the server alone.
LEMMA ClientStep == ClientNext => UNCHANGED <<repository, server>>
<1> USE DEF ClientNext, Gone
<1> QED
  BY DEF OldRef, EnsurePackwriter, SyncIndexes, SyncDone, RequestIdx, StoreIdx,
         StoreIdxFails, NoInput, Suspend, Suggestions, Resume, Write, SeeTree,
         WriteTree, Breakpoint, CloseWriter, Closed, UpdateRef, Updated,
         RaiseFinish, RaiseFinished, RaiseQuit, ServerLost

-----------------------------------------------------------------------------
(***************************************************************************)
(* Types                                                                   *)
(***************************************************************************)

RepositoryTypes ==
    idxs \subseteq Idxs /\ ref \subseteq Objects /\ dedup \in BOOLEAN

ServerTypes ==
    /\ srv \in {"none", "command", "receive"}
    /\ srvOpen \subseteq Objects
    /\ srvCache \subseteq Idxs \/ srvCache = NotLoaded
    /\ suggested \subseteq Idxs
    /\ suspended \in BOOLEAN

ClientTypes ==
    /\ pc \in {"out", "oldref", "ready", "list", "load", "idx", "input",
               "suggestions", "close", "update", "raise"}
    /\ back \in {"ready", "resume", "update", "raise"}
    /\ want \subseteq Objects /\ seen \subseteq Objects
    /\ pending \subseteq Objects /\ oldref \subseteq Objects
    /\ writer \in BOOLEAN /\ packopen \in BOOLEAN
    /\ objcache \subseteq Idxs \/ objcache = NotLoaded
    /\ count \in 0..PackLimit
    /\ toLoad \subseteq Idxs /\ cachedir \subseteq Idxs
    /\ diskFull \in BOOLEAN

BoundTypes ==
    sessions \in 0..MaxSessions /\ faults \in 0..MaxFaults /\ others \in 0..MaxOthers

StreamTypes == c2s \in Seq(Message) /\ s2c \in Seq(Message)

StateTypes == RepositoryTypes /\ ServerTypes /\ ClientTypes /\ BoundTypes

\* The types of the variables, those of the streams apart.
LEMMA TypesSplit == Types <=> StateTypes /\ StreamTypes
<1>1. StreamTypes => \A s \in {c2s, s2c} : \A i \in DOMAIN s :
           s[i].kind \in Commands \cup {"object", "suspend", "end", "eof", "ok",
                                        "ref", "list", "idx", "index", "packed"}
  BY StreamKinds DEF StreamTypes
<1>2. QED
  BY <1>1 DEF Types, TypeOK, StreamTypes, StateTypes, RepositoryTypes, ServerTypes,
              ClientTypes, BoundTypes

\* The client's steps keep the types.
LEMMA ClientTypesStep ==
    StateTypes /\ StreamTypes /\ ClientCache /\ ClientNext => StateTypes' /\ StreamTypes'
<1> SUFFICES ASSUME StateTypes, StreamTypes, ClientCache, ClientNext
             PROVE  ClientTypes' /\ StreamTypes' /\ bounds' = bounds
  BY ClientStep
     DEF StateTypes, RepositoryTypes, ServerTypes, BoundTypes, repository, server, bounds
<1> USE DEF StateTypes, ClientTypes, StreamTypes, session, disk, streams
<1>1. s2c # <<>> => Head(s2c) \in Message /\ Tail(s2c) \in Seq(Message)
  BY Taken
<1>2. CASE OldRef
  BY <1>1, <1>2, MessageArg DEF OldRef, Heard, Receive
<1>3. CASE EnsurePackwriter
  BY <1>3, IsMessage, Sent DEF EnsurePackwriter, Send, Signals
<1>4. CASE SyncIndexes
  BY <1>1, <1>4, MessageArg DEF SyncIndexes, Heard, Receive
<1>5. CASE SyncDone
  BY <1>5 DEF SyncDone
<1>6. ASSUME NEW i \in toLoad, RequestIdx(i)
      PROVE  ClientTypes' /\ StreamTypes' /\ bounds' = bounds
  BY <1>6, IsMessage, Sent DEF RequestIdx, Send
<1>7. CASE StoreIdx \/ StoreIdxFails
  BY <1>1, <1>7, MessageArg DEF StoreIdx, StoreIdxFails, Heard, Receive
<1>8. CASE NoInput
  BY <1>8 DEF NoInput
<1>9. CASE Suspend
  BY <1>9, IsMessage, Sent DEF Suspend, Send, Signals
<1>10. CASE Suggestions
  <2>1. PICK n \in DOMAIN s2c :
           /\ s2c[n].kind = "ok"
           /\ \A k \in 1..(n - 1) : IsIdxLine(s2c[k])
           /\ toLoad' = {s2c[k].arg : k \in 1..(n - 1)}
           /\ s2c' = SubSeq(s2c, n + 1, Len(s2c))
    BY <1>10 DEF Suggestions
  <2>2. \A k \in 1..(n - 1) : s2c[k] \in Message
    BY <2>1
  <2>3. \A k \in 1..(n - 1) : s2c[k].arg \in Idxs
    BY <2>1, <2>2, MessageArg DEF IsIdxLine
  <2>4. s2c' \in Seq(Message)
    BY <2>1
  <2>5. QED
    BY <1>10, <2>1, <2>3, <2>4 DEF Suggestions
<1>11. CASE Resume
  BY <1>11, IsMessage, Sent DEF ClientCache, Resume, Send, Signals
<1>12. ASSUME NEW o \in Objects, SendObject(o), count < PackLimit
       PROVE  StreamTypes' /\ packopen' \in BOOLEAN /\ pending' \subseteq Objects
              /\ count' \in 0..PackLimit
  <2>1. c2s' \in Seq(Message)
    BY <1>12, IsMessage, One, Joined DEF SendObject, Signals
  <2>2. QED
    BY <1>12, <2>1, ProtocolParameters DEF SendObject
<1>13. Snapshot \subseteq Idxs \/ Snapshot = NotLoaded
  BY DEF Snapshot
<1>14. ASSUME NEW o \in want, Write(o)
       PROVE  ClientTypes' /\ StreamTypes' /\ bounds' = bounds
  BY <1>12, <1>13, <1>14 DEF Write, Writing, SendObject
<1>15. ASSUME NEW o \in want, SeeTree(o)
       PROVE  ClientTypes' /\ StreamTypes' /\ bounds' = bounds
  BY <1>13, <1>15 DEF SeeTree
<1>16. ASSUME NEW o \in want, WriteTree(o)
       PROVE  ClientTypes' /\ StreamTypes' /\ bounds' = bounds
  <2>1. CASE Exists(o)
    BY <1>13, <1>16, <2>1 DEF WriteTree
  <2>2. CASE ~Exists(o)
    BY <1>12, <1>13, <1>16, <2>2 DEF WriteTree, Writing, SendObject
  <2>3. QED
    BY <2>1, <2>2
<1>17. CASE Breakpoint \/ CloseWriter \/ RaiseFinish
  <2>1. count' \in 0..PackLimit
    BY <1>17, ProtocolParameters DEF Breakpoint, CloseWriter, RaiseFinish
  <2>2. Append(c2s, Msg("end", {})) \in Seq(Message)
    BY IsMessage, Sent DEF Signals
  <2>3. QED
    BY <1>17, <2>1, <2>2 DEF Breakpoint, CloseWriter, RaiseFinish, FinishPack, Send
<1>18. CASE Closed \/ RaiseFinished
  BY <1>18 DEF Closed, RaiseFinished
<1>19. CASE UpdateRef
  BY <1>19, IsMessage, Sent DEF UpdateRef, Send
<1>20. CASE Updated
  BY <1>1, <1>20, IsMessage, Sent DEF Updated, Heard, Signals
<1>21. CASE RaiseQuit
  BY <1>21, IsMessage, Sent DEF RaiseQuit, Quit, Send, Signals
<1>22. CASE ServerLost
  BY <1>22, IsMessage, Sent DEF ServerLost, Gone, Signals
<1>23. QED
  BY <1>2, <1>3, <1>4, <1>5, <1>6, <1>7, <1>8, <1>9, <1>10, <1>11, <1>14, <1>15,
     <1>16, <1>17, <1>18, <1>19, <1>20, <1>21, <1>22 DEF ClientNext

\* The server's steps keep the types.
LEMMA ServerTypesStep == StateTypes /\ StreamTypes /\ ServerNext => StateTypes' /\ StreamTypes'
<1> SUFFICES ASSUME StateTypes, StreamTypes, ServerNext
             PROVE  RepositoryTypes' /\ ServerTypes' /\ StreamTypes'
  BY ServerStep
     DEF StateTypes, ClientTypes, BoundTypes, client, session, disk, bounds
<1> USE DEF StateTypes, RepositoryTypes, ServerTypes, StreamTypes
<1>1. c2s # <<>> => Head(c2s) \in Message /\ Tail(c2s) \in Seq(Message)
  BY Taken
<1>2. dedup' = dedup
  BY ServerStep
<1>3. <<>> \in Seq(Message)
  OBVIOUS
<1>4. FinishWriting => /\ idxs' \subseteq Idxs /\ srvOpen' \subseteq Objects
                       /\ srvCache' \subseteq Idxs \/ srvCache' = NotLoaded
  BY DEF FinishWriting, Idxs
<1>5. SrvExit => /\ StreamTypes' /\ srv' = "none"
                 /\ suspended' \in BOOLEAN /\ suggested' \subseteq Idxs
                 /\ idxs' \subseteq Idxs /\ srvOpen' \subseteq Objects
                 /\ srvCache' \subseteq Idxs \/ srvCache' = NotLoaded
  BY <1>3, <1>4, IsMessage, Sent DEF SrvExit, Signals
<1>6. ASSUME NEW lines \in Seq(Message), c2s # <<>>, Reply(lines)
      PROVE  StreamTypes'
  BY <1>1, <1>6, Joined DEF Reply
<1>7. CASE SrvReadRef
  <2>1. <<Msg("ref", ref)>> \in Seq(Message)
    BY IsMessage, One
  <2>2. QED
    BY <1>2, <1>6, <1>7, <2>1 DEF SrvReadRef, Asked, repository, server
<1>8. CASE SrvListIndexes
  <2>1. <<Msg("list", idxs)>> \in Seq(Message)
    BY IsMessage, One
  <2>2. QED
    BY <1>2, <1>6, <1>8, <2>1 DEF SrvListIndexes, Asked, repository, server
<1>9. CASE SrvSendIndex
  <2>1. <<Msg("idx", Head(c2s).arg)>> \in Seq(Message)
    BY <1>1, <1>9, MessageArg, IsMessage, One DEF SrvSendIndex, Asked
  <2>2. QED
    BY <1>2, <1>6, <1>9, <2>1 DEF SrvSendIndex, Asked, repository, server
<1>10. CASE SrvReceive
  BY <1>1, <1>2, <1>10 DEF SrvReceive, Asked, repository
<1>11. CASE SrvObject
  <2>1. c2s # <<>> /\ UNCHANGED <<idxs, ref, srv, suspended>>
    BY <1>11 DEF SrvObject, Arrived, repository
  <2>2. PICK o \in Head(c2s).arg :
           IF dedup /\ o \in UNION SrvSnapshot THEN SrvKnows(o) ELSE SrvStore(o)
    BY <1>11 DEF SrvObject
  <2>3. o \in Objects
    BY <1>1, <1>11, <2>1, <2>2, MessageArg DEF SrvObject, Arrived
  <2>4. SrvSnapshot \subseteq Idxs
    BY DEF SrvSnapshot
  <2>5. CASE SrvKnows(o)
    <3>1. PICK i \in SrvSnapshot :
             /\ Reply(IF i \in suggested THEN <<>> ELSE <<Msg("index", i)>>)
             /\ suggested' = suggested \cup {i}
      BY <2>5 DEF SrvKnows
    <3>2. (IF i \in suggested THEN <<>> ELSE <<Msg("index", i)>>) \in Seq(Message)
      BY <2>4, <1>3, IsMessage, One
    <3>3. QED
      BY <1>2, <1>6, <2>1, <2>4, <2>5, <3>1, <3>2 DEF SrvKnows
  <2>6. CASE SrvStore(o)
    BY <1>2, <1>3, <1>6, <2>1, <2>3, <2>4, <2>6 DEF SrvStore
  <2>7. QED
    BY <2>2, <2>5, <2>6
<1>12. CASE SrvSuspend
  BY <1>2, <1>6, <1>12, IsMessage, One
     DEF SrvSuspend, Arrived, Ok, Signals, repository
<1>13. CASE SrvEnd
  <2>1. <<Ok>> \in Seq(Message)
    BY IsMessage, One DEF Ok, Signals
  <2>2. (IF srvOpen = {} THEN <<>> ELSE <<Msg("packed", srvOpen)>>) \in Seq(Message)
    BY <1>3, IsMessage, One DEF Idxs
  <2>3. QED
    BY <1>2, <1>4, <1>6, <1>13, <2>1, <2>2, Joined DEF SrvEnd, Arrived
<1>14. CASE SrvUpdateRef
  BY <1>1, <1>2, <1>4, <1>6, <1>14, MessageArg, IsMessage, One
     DEF SrvUpdateRef, Asked, Ok, Signals
<1>15. CASE SrvUpdateRefFails \/ SrvQuit \/ SrvUnknownCommand
  BY <1>2, <1>5, <1>15 DEF SrvUpdateRefFails, SrvQuit, SrvUnknownCommand
<1>16. CASE SrvAbort
  BY <1>2, <1>3, <1>16, IsMessage, Sent DEF SrvAbort, Signals, repository
<1>17. QED
  BY <1>7, <1>8, <1>9, <1>10, <1>11, <1>12, <1>13, <1>14, <1>15, <1>16 DEF ServerNext

\* So does any other step: a connection, a kill, another writer.
LEMMA TypesStep == Types /\ ClientCache /\ [Next]_vars => Types'
<1>0. Types' <=> StateTypes' /\ StreamTypes'
  BY TypesSplit, PTL
<1> SUFFICES ASSUME StateTypes, StreamTypes, ClientCache, [Next]_vars
             PROVE  StateTypes' /\ StreamTypes'
  BY <1>0, TypesSplit
<1> USE DEF StateTypes, RepositoryTypes, ServerTypes, ClientTypes, BoundTypes,
            StreamTypes, client, session, disk, bounds, streams, server, repository
<1>1. ASSUME NEW W \in Idxs, Connect(W)
      PROVE  StateTypes' /\ StreamTypes'
  <2>1. <<Msg("read-ref", {})>> \in Seq(Message)
    BY IsMessage, One DEF Signals
  <2>2. QED
    BY <1>1, <2>1, ProtocolParameters DEF Connect, Idxs
<1>2. CASE ClientNext
  BY <1>2, ClientTypesStep
<1>3. CASE ServerNext
  BY <1>3, ServerTypesStep
<1>4. CASE DiskFills \/ Abandon
  <2>1. faults' \in 0..MaxFaults
    BY <1>4, ProtocolParameters DEF DiskFills, Abandon, Fault
  <2>2. CASE DiskFills
    BY <2>1, <2>2 DEF DiskFills, Fault
  <2>3. CASE Abandon
    BY <2>1, <2>3 DEF Abandon, Fault
  <2>4. QED
    BY <1>4, <2>2, <2>3
<1>5. CASE Kill
  <2>1. faults' \in 0..MaxFaults
    BY <1>5, ProtocolParameters DEF Kill, Fault
  <2>2. c2s' \in Seq(Message)
    BY <1>5, IsMessage, Sent DEF Kill, Gone, Signals
  <2>3. QED
    BY <1>5, <2>1, <2>2 DEF Kill, Gone
<1>6. CASE SrvBrokenPipe
  <2>1. c2s' \in Seq(Message) /\ s2c' \in Seq(Message)
    BY <1>6, IsMessage, Sent, EmptySeq DEF SrvBrokenPipe, SrvExit, Signals
  <2>2. idxs' \subseteq Idxs
    BY <1>6 DEF SrvBrokenPipe, SrvExit, FinishWriting, Idxs
  <2>3. QED
    BY <1>6, <2>1, <2>2 DEF SrvBrokenPipe, SrvExit, FinishWriting
<1>7. ASSUME NEW P \in OtherIdxs, OtherSave(P)
      PROVE  StateTypes' /\ StreamTypes'
  BY <1>7, ProtocolParameters DEF OtherSave, Other, Idxs
<1>8. ASSUME NEW P \in idxs, OtherGc(P)
      PROVE  StateTypes' /\ StreamTypes'
  BY <1>8, ProtocolParameters DEF OtherGc, Other
<1>9. CASE UNCHANGED vars
  BY <1>9 DEF vars
<1>10. QED
  BY <1>1, <1>2, <1>3, <1>4, <1>5, <1>6, <1>7, <1>8, <1>9 DEF Next

-----------------------------------------------------------------------------
(***************************************************************************)
(* The client's phases                                                     *)
(***************************************************************************)

\* A packwriter and an upload are there when the client is where it uses them.
LEMMA PhaseStep == Types /\ Phase /\ [Next]_vars => Phase'
<1> SUFFICES ASSUME Types, Phase, [Next]_vars
             PROVE  Phase'
  OBVIOUS
<1> writer \in BOOLEAN /\ packopen \in BOOLEAN
  BY DEF Types, TypeOK
<1> USE DEF Phase
<1>1. CASE UNCHANGED vars \/ ServerNext
  BY <1>1, ServerStep DEF vars, client, session
<1>2. ASSUME NEW W \in Idxs, Connect(W)
      PROVE  Phase'
  BY <1>2 DEF Connect
<1>3. CASE ClientNext
  <2>1. CASE OldRef \/ EnsurePackwriter \/ SyncIndexes \/ SyncDone
    BY <2>1 DEF OldRef, EnsurePackwriter, SyncIndexes, SyncDone, session
  <2>2. CASE (\E i \in toLoad : RequestIdx(i)) \/ StoreIdx \/ StoreIdxFails
             \/ NoInput \/ Suspend \/ Suggestions \/ Resume
    BY <2>2 DEF RequestIdx, StoreIdx, StoreIdxFails, NoInput, Suspend,
                Suggestions, Resume, session
  <2>3. CASE \E o \in want : Write(o) \/ SeeTree(o) \/ WriteTree(o)
    BY <2>3 DEF Write, SeeTree, WriteTree, SendObject, Writing
  <2>4. CASE Breakpoint \/ CloseWriter \/ Closed \/ UpdateRef \/ Updated
    BY <2>4 DEF Breakpoint, CloseWriter, Closed, UpdateRef, Updated,
                FinishPack, Writing, session
  <2>5. CASE RaiseFinish \/ RaiseFinished \/ RaiseQuit \/ ServerLost
    BY <2>5 DEF RaiseFinish, RaiseFinished, RaiseQuit, ServerLost,
                FinishPack, Quit, Gone, session
  <2>6. QED
    BY <1>3, <2>1, <2>2, <2>3, <2>4, <2>5 DEF ClientNext
<1>4. CASE DiskFills \/ Abandon \/ Kill \/ SrvBrokenPipe
  BY <1>4 DEF DiskFills, Abandon, Kill, Gone, SrvBrokenPipe, client, session
<1>5. CASE (\E P \in OtherIdxs : OtherSave(P)) \/ (\E P \in idxs : OtherGc(P))
  BY <1>5 DEF OtherSave, OtherGc, client, session
<1>6. QED
  BY <1>1, <1>2, <1>3, <1>4, <1>5 DEF Next

-----------------------------------------------------------------------------
(***************************************************************************)
(* The dialogue                                                            *)
(***************************************************************************)

\* A stream is empty when its length is zero.
LEMMA EmptyStream ==
    ASSUME NEW s \in Seq(Message)
    PROVE  Len(s) \in Nat /\ (s = <<>> <=> Len(s) = 0)
  OBVIOUS

\* While both run, the server does not say that it ends.
LEMMA NoEof ==
    ASSUME Types, Phase, Dialogue, Talking
    PROVE  \A j \in 1..Len(s2c) : s2c[j].kind # "eof"
<1> USE EmptyStream DEF Types, TypeOK, Phase, Dialogue, Talking
<1>1. CASE pc \in {"oldref", "list", "idx", "close"}
  BY <1>1 DEF Calling
<1>2. CASE pc \in {"update", "load", "ready", "input", "raise"}
  BY <1>2 DEF Quiet, Uploading, Suggesting
<1>3. CASE pc = "suggestions"
  BY <1>3 DEF Ending, Ended, Stalled, Suggesting, IsIdxLine
<1>4. QED
  BY <1>1, <1>2, <1>3

\* Only a client that waits for update_ref's answer may be without a server.
LEMMA ClientTalks ==
    ASSUME Types, Alone, ClientNext
    PROVE  Talking \/ (srv = "none" /\ ServerLost)
<1>1. ASSUME srv = "none", pc = "close", Len(s2c) = 1, s2c[1].kind = "eof"
      PROVE  ServerLost
  <2>1. ~Heard("ok")
    BY <1>1, Taken, EmptyStream DEF Heard, Types
  <2>2. QED
    BY <1>1, <2>1 DEF ClientNext, OldRef, EnsurePackwriter, SyncIndexes, SyncDone,
         RequestIdx, StoreIdx, StoreIdxFails, NoInput, Suspend, Suggestions, Resume,
         Write, SeeTree, WriteTree, Writing, Breakpoint, CloseWriter, Closed,
         UpdateRef, Updated, RaiseFinish, RaiseFinished, RaiseQuit
<1>2. pc # "out"
  BY DEF ClientNext, OldRef, EnsurePackwriter, SyncIndexes, SyncDone,
         RequestIdx, StoreIdx, StoreIdxFails, NoInput, Suspend, Suggestions, Resume,
         Write, SeeTree, WriteTree, Writing, Breakpoint, CloseWriter, Closed,
         UpdateRef, Updated, RaiseFinish, RaiseFinished, RaiseQuit, ServerLost, Gone
<1>3. QED
  BY <1>1, <1>2 DEF Alone, Talking

\* What the server may find to do while the client is there.
LEMMA Found ==
    ASSUME Types, Phase, Dialogue, Talking, c2s # <<>>
    PROVE  LET k == Head(c2s).kind
               sending == \/ packopen /\ pc \in {"ready", "input", "raise"} /\ Uploading
                          \/ /\ pc = "suggestions"
                             /\ Ending(IF back = "resume" THEN "suspend" ELSE "end")
           IN  /\ srv = "command" =>
                    \/ k = "read-ref" /\ pc = "oldref" /\ Len(c2s) = 1 /\ s2c = <<>>
                    \/ k = "list-indexes" /\ pc = "list" /\ Len(c2s) = 1 /\ s2c = <<>>
                    \/ k = "send-index" /\ pc = "idx" /\ Len(c2s) = 1 /\ s2c = <<>>
                    \/ k = "update-ref" /\ pc = "close" /\ Len(c2s) = 1 /\ s2c = <<>>
                    \/ k = "receive-objects-v2" /\ sending
                    \/ k = "end" /\ Stalled
               /\ srv = "receive" =>
                    /\ sending
                    /\ \/ k = "object"
                       \/ /\ pc = "suggestions" /\ Len(c2s) = 1
                          /\ k = IF back = "resume" THEN "suspend" ELSE "end"
<1> USE Taken, EmptyStream DEF Types, TypeOK, Phase, Dialogue, Talking
<1>1. CASE pc \in {"oldref", "list", "idx", "close"}
  BY <1>1 DEF Calling
<1>2. CASE pc \in {"update", "load", "ready", "input", "raise"}
  BY <1>2 DEF Quiet, Uploading, Upload
<1>3. CASE pc = "suggestions"
  <2>1. Len(c2s) \in Nat /\ Len(c2s) >= 1 /\ Head(c2s) = c2s[1]
    BY Taken, EmptyStream
  <2>2. CASE Ending(IF back = "resume" THEN "suspend" ELSE "end")
    <3>1. CASE Len(c2s) = 1
      BY <1>3, <2>1, <2>2, <3>1 DEF Ending, Upload
    <3>2. CASE Len(c2s) # 1
      <4>1. Len(c2s) - 1 >= 1
        BY ONLY <2>1, <3>2
      <4>2. Upload(Len(c2s) - 1)
        BY <2>2 DEF Ending
      <4>3. c2s[1].kind = IF srv = "command" THEN "receive-objects-v2" ELSE "object"
        BY <2>1, <4>1, <4>2 DEF Upload
      <4>4. QED
        BY <1>3, <2>1, <2>2, <4>3
    <3>3. QED
      BY ONLY <3>1, <3>2
  <2>3. QED
    BY <1>3, <2>1, <2>2 DEF Ended, Stalled
<1>4. QED
  BY <1>1, <1>2, <1>3

\* What it may find once the client is gone.
LEMMA Remains ==
    ASSUME Types, Draining, srv # "none", pc = "out"
    PROVE  LET k == Head(c2s).kind
           IN  /\ c2s # <<>>
               /\ srv = "command" =>
                    \/ k = "quit" /\ Len(c2s) = 1
                    \/ k = "eof" /\ Len(c2s) = 1
                    \/ /\ k \in {"read-ref", "list-indexes", "send-index", "update-ref"}
                       /\ Len(c2s) = 2 /\ c2s[2].kind = "eof"
                    \/ k = "receive-objects-v2" /\ Len(c2s) >= 2
                    \/ k = "end" /\ diskFull /\ Len(c2s) = 2
               /\ srv = "receive" => k \in {"object", "suspend", "end", "eof"}
<1>1. Len(c2s) \in Nat /\ c2s # <<>> /\ Head(c2s) = c2s[1]
  BY Taken, EmptyStream DEF Types, Draining
<1>2. QED
  BY <1>1 DEF Types, TypeOK, Draining, Upload

\* The client leaves in the middle of anything.
LEMMA Leaves ==
    ASSUME Types, Phase, Dialogue, Talking,
           c2s' = Append(c2s, Msg("eof", {})), UNCHANGED <<srv, diskFull>>
    PROVE  Draining'
<1>1. /\ Len(c2s) \in Nat /\ Len(c2s') = Len(c2s) + 1
      /\ \A j \in 1..Len(c2s) : c2s'[j] = c2s[j]
      /\ c2s'[Len(c2s) + 1].kind = "eof"
  BY IsMessage, Sent, EmptyStream DEF Types, Signals, Msg
<1>2. \/ Len(c2s) = 0
      \/ /\ Len(c2s) = 1 /\ srv = "command"
         /\ c2s[1].kind \in {"read-ref", "list-indexes", "send-index", "update-ref"}
      \/ Upload(Len(c2s))
      \/ Len(c2s) >= 1 /\ Upload(Len(c2s) - 1) /\ c2s[Len(c2s)].kind \in {"suspend", "end"}
      \/ Len(c2s) = 1 /\ srv = "command" /\ diskFull /\ c2s[1].kind = "end"
  <2> USE EmptyStream DEF Types, TypeOK, Phase, Dialogue, Talking
  <2>1. CASE pc \in {"oldref", "list", "idx", "close"}
    BY <2>1 DEF Calling
  <2>2. CASE pc \in {"update", "load", "ready", "input", "raise"}
    BY <2>2 DEF Quiet, Uploading
  <2>3. CASE pc = "suggestions"
    BY <2>3 DEF Ending, Ended, Stalled
  <2>4. QED
    BY <2>1, <2>2, <2>3
<1>3. \A n \in 0..Len(c2s) : Upload(n) => Upload(n)'
  BY <1>1 DEF Upload
<1>4. QED
  BY <1>1, <1>2, <1>3 DEF Draining

Streams == Dialogue /\ Draining /\ Alone

\* What the client sends fits what the server waits for, and the client waits
\* for the answer to what it sent.
LEMMA StreamsClient ==
    ASSUME Types, Types', Phase, Phase', Streams, Named, New, Suggested, ClientNext
    PROVE  Streams'
<1> USE EmptyStream DEF Types
<1>1. CASE srv = "none" /\ ServerLost
  BY <1>1, ClientStep DEF Streams, Dialogue, Draining, Alone, Talking, ServerLost, Gone, server
<1>2. CASE Talking
  <2>1. UNCHANGED <<srv, srvOpen, srvCache, dedup>> /\ srv # "none"
    BY <1>2, ClientStep DEF Talking, repository, server
  <2>2. Alone'
    BY <2>1 DEF Alone
  <2>3. ~ServerLost
    BY <1>2, NoEof DEF ServerLost, Streams
  <2>4. c2s # <<>> => Len(c2s) >= 1
    OBVIOUS
  <2>5. s2c # <<>> => /\ Head(s2c) = s2c[1] /\ Len(Tail(s2c)) = Len(s2c) - 1
                      /\ Tail(s2c) = <<>> <=> Len(s2c) = 1
    <3>1. s2c # <<>> => Tail(s2c) \in Seq(Message)
      BY Taken
    <3>2. s2c # <<>> => (Tail(s2c) = <<>> <=> Len(Tail(s2c)) = 0)
      BY <3>1, EmptyStream
    <3>3. s2c # <<>> => Len(Tail(s2c)) = Len(s2c) - 1 /\ Head(s2c) = s2c[1]
      BY Taken
    <3>4. Len(s2c) \in Nat
      BY EmptyStream
    <3>5. QED
      BY ONLY <3>2, <3>3, <3>4
  <2>6. ASSUME NEW k \in Signals
        PROVE  /\ Len(Append(c2s, Msg(k, {}))) = Len(c2s) + 1
               /\ \A j \in 1..Len(c2s) : Append(c2s, Msg(k, {}))[j] = c2s[j]
               /\ Append(c2s, Msg(k, {}))[Len(c2s) + 1].kind = k
    BY IsMessage, Sent DEF Msg
  <2> USE <1>2, <2>1 DEF Talking, Streams
  <2>7. pc' # "out" => Draining'
    BY DEF Draining
  <2>8. pc' = "out" => Dialogue'
    BY DEF Dialogue
  <2>9. CASE OldRef
    BY <2>2, <2>5, <2>7, <2>9 DEF OldRef, Heard, Receive, Dialogue, Calling, Quiet, Phase
  <2>10. CASE EnsurePackwriter
    BY <2>2, <2>6, <2>7, <2>10 DEF EnsurePackwriter, Send, Dialogue, Calling, Quiet, Phase, Signals
  <2>11. CASE SyncIndexes
    BY <2>2, <2>5, <2>7, <2>11 DEF SyncIndexes, Heard, Receive, Dialogue, Calling, Quiet, Phase
  <2>12. CASE SyncDone
    BY <2>2, <2>7, <2>12 DEF SyncDone, Dialogue, Quiet, Phase, streams
  <2>13. ASSUME NEW i \in toLoad, RequestIdx(i)
         PROVE  Streams'
    <3>1. CASE i \in cachedir
      <4>1. back # "resume"
        BY <2>13, <3>1 DEF RequestIdx, Suggested, FromSnapshot, New, Phase
      <4>2. QED
        BY <2>2, <2>7, <2>13, <3>1, <4>1 DEF RequestIdx, Dialogue, Quiet, Phase, streams, session
    <3>2. CASE i \notin cachedir
      <4>1. /\ Len(c2s') = 1 /\ c2s'[1].kind = "send-index" /\ s2c' = <<>>
        BY <2>13, <3>2 DEF RequestIdx, Send, Dialogue, Quiet, Msg
      <4>2. QED
        BY <2>2, <2>7, <2>13, <3>2, <4>1 DEF RequestIdx, Dialogue, Quiet, Phase, Calling
    <3>3. QED
      BY <3>1, <3>2
  <2>14. CASE StoreIdx
    BY <2>2, <2>5, <2>7, <2>14 DEF StoreIdx, Heard, Receive, Dialogue, Calling, Quiet, Phase
  <2>15. CASE StoreIdxFails
    BY <2>2, <2>5, <2>7, <2>15 DEF StoreIdxFails, Heard, Receive, Dialogue, Calling, Quiet,
                                   Phase, disk
  <2>16. CASE NoInput
    BY <2>2, <2>7, <2>16 DEF NoInput, Dialogue, Uploading, Upload, Suggesting, Phase,
                                streams, session
  <2>17. CASE Suspend
    BY <2>2, <2>6, <2>7, <2>17
       DEF Suspend, Send, Dialogue, Uploading, Upload, Suggesting, Ending, Phase, Signals, session
  <2>18. CASE Suggestions
    BY <2>2, <2>7, <2>18
       DEF Suggestions, Dialogue, Ending, Ended, Stalled, Quiet, Suggesting, Phase, IsIdxLine
  <2>19. CASE Resume
    BY <2>2, <2>6, <2>7, <2>19
       DEF Resume, Send, Dialogue, Quiet, Uploading, Upload, Suggesting, Phase, Signals
  <2>20. ASSUME NEW o \in Objects, SendObject(o), Writing
         PROVE  Streams'
    <3>1. packopen' /\ pc' = "input" /\ s2c' = s2c
      BY <2>20 DEF SendObject
    <3>2. CASE packopen
      <4>1. /\ Len(c2s') = Len(c2s) + 1 /\ c2s'[Len(c2s) + 1].kind = "object"
            /\ \A j \in 1..Len(c2s) : c2s'[j] = c2s[j]
        <5>1. c2s' = c2s \o <<Msg("object", {o})>>
          BY <2>20, <3>2, ConcatEmptySeq DEF SendObject
        <5>2. QED
          BY <5>1, IsMessage, One, Joined DEF Msg
      <4>2. Uploading
        BY <2>20, <3>2 DEF Dialogue, Writing
      <4>3. QED
        BY <2>2, <2>7, <3>1, <4>1, <4>2 DEF Dialogue, Uploading, Upload, Suggesting
    <3>3. CASE ~packopen
      <4>1. Quiet
        BY <2>20, <3>3 DEF Dialogue, Writing
      <4>2. /\ Len(c2s') = 2
            /\ c2s'[1].kind = "receive-objects-v2" /\ c2s'[2].kind = "object"
        <5>1. c2s' = c2s \o <<Msg("receive-objects-v2", {})>> \o <<Msg("object", {o})>>
          BY <2>20, <3>3 DEF SendObject
        <5>2. c2s' = <<Msg("receive-objects-v2", {})>> \o <<Msg("object", {o})>>
          BY <4>1, <5>1, IsMessage, One, ConcatEmptySeq DEF Quiet, Signals
        <5>3. QED
          BY <5>2, IsMessage, One, Joined DEF Msg, Signals
      <4>3. QED
        BY <2>2, <2>7, <3>1, <4>1, <4>2 DEF Dialogue, Quiet, Uploading, Upload, Suggesting
    <3>4. QED
      BY <3>2, <3>3
  <2>21. ASSUME NEW o \in want, SeeTree(o)
         PROVE  Streams'
    BY <2>2, <2>7, <2>21
       DEF SeeTree, Writing, Dialogue, Quiet, Uploading, Upload, Suggesting, streams
  <2>22. ASSUME NEW o \in want, Write(o)
         PROVE  Streams'
    BY <2>20, <2>22 DEF Write, TypeOK
  <2>23. ASSUME NEW o \in want, WriteTree(o)
         PROVE  Streams'
    <3>1. CASE Exists(o)
      BY <2>2, <2>7, <2>23, <3>1
         DEF WriteTree, Writing, Dialogue, Quiet, Uploading, Upload, Suggesting, streams
    <3>2. CASE ~Exists(o)
      BY <2>20, <2>23, <3>2 DEF WriteTree, TypeOK
    <3>3. QED
      BY <3>1, <3>2
  <2>24. ASSUME NEW then \in {"ready", "update", "raise"}, FinishPack(then),
                pc \in {"ready", "raise"}, pc = "raise" => packopen /\ then = "raise",
                pc = "ready" => then # "raise",
                disk' = disk
         PROVE  Streams'
    <3>1. CASE packopen
      <4>1. pc' = "suggestions" /\ back' = then /\ s2c' = s2c
            /\ c2s' = Append(c2s, Msg("end", {})) /\ diskFull' = diskFull
        BY <2>24, <3>1 DEF FinishPack, Send, disk
      <4>2. Len(c2s') = Len(c2s) + 1 /\ c2s'[Len(c2s) + 1].kind = "end"
            /\ \A j \in 1..Len(c2s) : c2s'[j] = c2s[j]
        BY <2>6, <4>1 DEF Signals
      <4>3. CASE Uploading
        BY <2>2, <2>7, <2>24, <4>1, <4>2, <4>3
           DEF Uploading, Upload, Suggesting, Ending, Dialogue
      <4>4. CASE pc = "raise" /\ diskFull /\ Quiet
        BY <2>2, <2>7, <2>24, <4>1, <4>2, <4>4 DEF Quiet, Stalled, Dialogue
      <4>5. QED
        BY <2>24, <3>1, <4>3, <4>4 DEF Dialogue
    <3>2. CASE ~packopen
      BY <2>2, <2>7, <2>24, <3>2 DEF FinishPack, Dialogue, Quiet, streams
    <3>3. QED
      BY <3>1, <3>2
  <2>25. CASE Closed \/ RaiseFinished
    BY <2>2, <2>7, <2>25 DEF Closed, RaiseFinished, Dialogue, Quiet, Phase, streams, session
  <2>26. CASE UpdateRef
    <3>1. Len(c2s') = 1 /\ c2s'[1].kind = "update-ref" /\ s2c' = <<>>
      BY <2>26 DEF UpdateRef, Send, Dialogue, Quiet, Msg
    <3>2. QED
      BY <2>2, <2>7, <2>26, <3>1 DEF UpdateRef, Dialogue, Calling, Quiet, Phase
  <2>27. CASE Updated
    BY <2>2, <2>5, <2>6, <2>8, <2>27 DEF Updated, Heard, Dialogue, Calling, Draining, Signals
  <2>28. CASE RaiseQuit
    BY <2>2, <2>6, <2>8, <2>28 DEF RaiseQuit, Quit, Send, Dialogue, Quiet, Draining, Signals
  <2>29. CASE Breakpoint
    BY <2>24, <2>29 DEF Breakpoint
  <2>30. CASE CloseWriter
    BY <2>24, <2>30 DEF CloseWriter, Writing
  <2>31. CASE RaiseFinish
    BY <2>24, <2>31 DEF RaiseFinish
  <2>32. QED
    BY <2>3, <2>9, <2>10, <2>11, <2>12, <2>13, <2>14, <2>15, <2>16, <2>17, <2>18, <2>19,
       <2>21, <2>22, <2>23, <2>25, <2>26, <2>27, <2>28, <2>29, <2>30, <2>31
       DEF ClientNext
<1>3. QED
  BY <1>1, <1>2, ClientTalks DEF Streams

\* The server reads one message and answers, or is done.
LEMMA Answers ==
    ASSUME StreamTypes, NEW lines \in Seq(Message), c2s # <<>>, Reply(lines)
    PROVE  /\ Len(c2s') = Len(c2s) - 1
           /\ c2s' = <<>> <=> Len(c2s) = 1
           /\ \A j \in 1..Len(c2s') : c2s'[j] = c2s[j + 1]
           /\ Len(s2c') = Len(s2c) + Len(lines)
           /\ \A j \in 1..Len(s2c) : s2c'[j] = s2c[j]
           /\ \A j \in 1..Len(lines) : s2c'[Len(s2c) + j] = lines[j]
<1>1. Tail(c2s) \in Seq(Message)
  BY Taken DEF StreamTypes
<1>2. Tail(c2s) = <<>> <=> Len(Tail(c2s)) = 0
  BY <1>1, EmptyStream
<1>3. Len(Tail(c2s)) = Len(c2s) - 1 /\ \A j \in 1..Len(Tail(c2s)) : Tail(c2s)[j] = c2s[j + 1]
  BY Taken DEF StreamTypes
<1>4. Len(c2s) \in Nat
  BY EmptyStream DEF StreamTypes
<1>5. Tail(c2s) = <<>> <=> Len(c2s) = 1
  BY ONLY <1>2, <1>3, <1>4
<1>6. QED
  BY <1>3, <1>5, Joined DEF Reply, StreamTypes

\* The server answers with one message.
LEMMA AnswersOne ==
    ASSUME StreamTypes, NEW m \in Message, c2s # <<>>, Reply(<<m>>)
    PROVE  /\ Len(s2c') = Len(s2c) + 1
           /\ \A j \in 1..Len(s2c) : s2c'[j] = s2c[j]
           /\ s2c'[Len(s2c) + 1] = m
<1>1. Reply(<<m>>) <=> s2c' = Append(s2c, m) /\ c2s' = Tail(c2s)
  BY AppendIsConcat DEF Reply, StreamTypes
<1>2. QED
  BY <1>1, Sent DEF StreamTypes

\* It reads an object and says nothing.
LEMMA AnswersNothing ==
    ASSUME StreamTypes, Reply(<<>>)
    PROVE  s2c' = s2c
  BY ConcatEmptySeq DEF Reply, StreamTypes

\* The server ends: nobody reads what was sent, and the client sees the end.
LEMMA ExitStreams ==
    ASSUME StreamTypes, SrvExit
    PROVE  /\ srv' = "none" /\ c2s' = <<>>
           /\ Len(s2c') = Len(s2c) + 1 /\ s2c'[Len(s2c) + 1].kind = "eof"
  BY IsMessage, Sent DEF SrvExit, StreamTypes, Signals, Msg

\* The server only acts on what it is sent.
LEMMA ServerBusy == ServerNext => srv # "none" /\ c2s # <<>>
  BY DEF ServerNext, SrvReadRef, SrvListIndexes, SrvSendIndex, SrvReceive, SrvObject,
         SrvSuspend, SrvEnd, SrvUpdateRef, SrvUpdateRefFails, SrvQuit, SrvAbort,
         SrvUnknownCommand, Asked, Arrived

\* The server answers a client that is there, in the order it was asked.
LEMMA StreamsServer ==
    ASSUME Types, Types', Phase, Streams, ServerNext, Talking
    PROVE  Streams'
<1> UNCHANGED <<pc, back, packopen, diskFull>> /\ Streams /\ StreamTypes /\ srv # "none"
    /\ c2s # <<>> /\ Len(c2s) \in Nat /\ Len(s2c) \in Nat
    /\ srv \in {"none", "command", "receive"} /\ packopen \in BOOLEAN
  BY ServerStep, ServerBusy, EmptyStream
     DEF client, session, disk, Talking, Types, TypeOK, StreamTypes
<1> pc' # "out" /\ Draining'
  BY DEF Talking, Draining
<1> DEFINE k == Head(c2s).kind
           sending == \/ packopen /\ pc \in {"ready", "input", "raise"} /\ Uploading
                      \/ /\ pc = "suggestions"
                         /\ Ending(IF back = "resume" THEN "suspend" ELSE "end")
<1>1. srv = "command" =>
          \/ k = "read-ref" /\ pc = "oldref" /\ Len(c2s) = 1 /\ s2c = <<>>
          \/ k = "list-indexes" /\ pc = "list" /\ Len(c2s) = 1 /\ s2c = <<>>
          \/ k = "send-index" /\ pc = "idx" /\ Len(c2s) = 1 /\ s2c = <<>>
          \/ k = "update-ref" /\ pc = "close" /\ Len(c2s) = 1 /\ s2c = <<>>
          \/ k = "receive-objects-v2" /\ sending
          \/ k = "end" /\ Stalled
  BY Found DEF Streams
<1>2. srv = "receive" =>
          /\ sending
          /\ \/ k = "object"
             \/ /\ pc = "suggestions" /\ Len(c2s) = 1
                /\ k = IF back = "resume" THEN "suspend" ELSE "end"
  BY Found DEF Streams
<1>3. Head(c2s) = c2s[1]
  BY Taken DEF StreamTypes
<1> HIDE DEF k
<1>4. ASSUME NEW m \in Message, Reply(<<m>>), Len(c2s) = 1, s2c = <<>>
      PROVE  c2s' = <<>> /\ Len(s2c') = 1 /\ s2c'[1] = m
  <2>1. c2s' = <<>>
    BY <1>4, Answers, One
  <2>2. Len(s2c) = 0
    BY <1>4
  <2>3. Len(s2c') = Len(s2c) + 1 /\ s2c'[Len(s2c) + 1] = m
    BY <1>4, AnswersOne
  <2>4. QED
    BY <2>1, <2>2, <2>3
<1>5. CASE SrvReadRef
  <2>1. k = "read-ref" /\ srv = "command" /\ srv' = srv /\ Msg("ref", ref) \in Message
    BY <1>5, IsMessage DEF SrvReadRef, Asked, server, k, Types, TypeOK
  <2>2. c2s' = <<>> /\ Len(s2c') = 1 /\ s2c'[1].kind = "ref"
    BY <1>1, <1>4, <1>5, <2>1 DEF SrvReadRef, Msg
  <2>3. QED
    BY <1>1, <2>1, <2>2 DEF Streams, Dialogue, Calling, Alone
<1>6. CASE SrvListIndexes
  <2>1. k = "list-indexes" /\ srv = "command" /\ srv' = srv /\ Msg("list", idxs) \in Message
    BY <1>6, IsMessage DEF SrvListIndexes, Asked, server, k, Types, TypeOK
  <2>2. c2s' = <<>> /\ Len(s2c') = 1 /\ s2c'[1].kind = "list"
    BY <1>1, <1>4, <1>6, <2>1 DEF SrvListIndexes, Msg
  <2>3. QED
    BY <1>1, <2>1, <2>2 DEF Streams, Dialogue, Calling, Alone
<1>7. CASE SrvSendIndex
  <2>1. k = "send-index" /\ srv = "command" /\ srv' = srv
    BY <1>7 DEF SrvSendIndex, Asked, server, k
  <2>2. Msg("idx", Head(c2s).arg) \in Message
    BY <2>1, Taken, MessageArg, IsMessage DEF k, StreamTypes
  <2>3. c2s' = <<>> /\ Len(s2c') = 1 /\ s2c'[1].kind = "idx"
    BY <1>1, <1>4, <1>7, <2>1, <2>2 DEF SrvSendIndex, Msg
  <2>4. QED
    BY <1>1, <2>1, <2>3 DEF Streams, Dialogue, Calling, Alone
<1>8. CASE SrvUpdateRef
  <2>1. k = "update-ref" /\ srv = "command" /\ srv' = srv /\ Ok \in Message /\ Ok.kind = "ok"
    BY <1>8, IsMessage DEF SrvUpdateRef, Asked, k, Ok, Signals, Msg
  <2>2. c2s' = <<>> /\ Len(s2c') = 1 /\ s2c'[1].kind = "ok"
    BY <1>1, <1>4, <1>8, <2>1 DEF SrvUpdateRef
  <2>3. QED
    BY <1>1, <2>1, <2>2 DEF Streams, Dialogue, Calling, Alone
<1>9. CASE SrvUpdateRefFails
  <2>1. pc = "close" /\ s2c = <<>>
    BY <1>1, <1>9 DEF SrvUpdateRefFails, Asked, k
  <2>2. srv' = "none" /\ Len(s2c') = 1 /\ s2c'[1].kind = "eof"
    BY <1>9, <2>1, ExitStreams DEF SrvUpdateRefFails
  <2>3. QED
    BY <2>1, <2>2 DEF Streams, Dialogue, Alone, Talking, Draining
<1>10. CASE SrvReceive
  <2>1. /\ k = "receive-objects-v2" /\ srv = "command" /\ srv' = "receive" /\ s2c' = s2c
        /\ c2s' = Tail(c2s) /\ sending
    BY <1>1, <1>10 DEF SrvReceive, Asked, k, Stalled
  <2>2. Len(c2s') = Len(c2s) - 1 /\ \A j \in 1..Len(c2s') : c2s'[j] = c2s[j + 1]
    BY <2>1, Taken DEF StreamTypes
  <2>3. \A n \in 1..Len(c2s) : Upload(n) => Upload(n - 1)'
    BY <2>1, <2>2 DEF Upload
  <2>4. CASE packopen /\ pc \in {"ready", "input", "raise"} /\ Uploading
    BY <1>3, <2>1, <2>2, <2>3, <2>4 DEF Streams, Dialogue, Alone, Uploading, Suggesting, Upload
  <2>5. CASE pc = "suggestions" /\ Ending(IF back = "resume" THEN "suspend" ELSE "end")
    BY <1>3, <2>1, <2>2, <2>3, <2>5 DEF Streams, Dialogue, Alone, Ending, Suggesting, Upload
  <2>6. QED
    BY <2>1, <2>4, <2>5
<1>11. CASE SrvObject
  <2>1. /\ k = "object" /\ srv = "receive" /\ srv' = srv /\ sending
    BY <1>2, <1>11 DEF SrvObject, Arrived, k
  <2>2. \/ Reply(<<>>)
        \/ \E m \in Message : m.kind = "index" /\ Reply(<<m>>)
    <3>1. SrvSnapshot \subseteq Idxs
      BY DEF SrvSnapshot, Types, TypeOK
    <3>2. \A i \in SrvSnapshot : Msg("index", i) \in Message /\ Msg("index", i).kind = "index"
      BY <3>1, IsMessage DEF Msg
    <3>3. PICK o \in Head(c2s).arg : SrvKnows(o) \/ SrvStore(o)
      BY <1>11 DEF SrvObject
    <3>4. CASE SrvKnows(o)
      BY <3>2, <3>4 DEF SrvKnows
    <3>5. CASE SrvStore(o)
      BY <3>5 DEF SrvStore
    <3>6. QED
      BY <3>3, <3>4, <3>5
  <2>3. /\ Len(c2s') = Len(c2s) - 1 /\ \A j \in 1..Len(c2s') : c2s'[j] = c2s[j + 1]
        /\ c2s' = <<>> <=> Len(c2s) = 1
    BY <2>2, Answers, One, EmptySeq
  <2>4. Suggesting => Suggesting'
    <3>1. CASE Reply(<<>>)
      BY <3>1, AnswersNothing DEF Suggesting
    <3>2. ASSUME NEW m \in Message, m.kind = "index", Reply(<<m>>)
          PROVE  Suggesting => Suggesting'
      BY <3>2, AnswersOne DEF Suggesting
    <3>3. QED
      BY <2>2, <3>1, <3>2
  <2>5. \A n \in 1..Len(c2s) : Upload(n) => Upload(n - 1)'
    BY <2>1, <2>3 DEF Upload
  <2>6. CASE packopen /\ pc \in {"ready", "input", "raise"} /\ Uploading
    BY <1>3, <2>1, <2>3, <2>4, <2>5, <2>6 DEF Streams, Dialogue, Alone, Uploading, Upload
  <2>7. CASE pc = "suggestions" /\ Ending(IF back = "resume" THEN "suspend" ELSE "end")
    BY <1>3, <2>1, <2>3, <2>4, <2>5, <2>7 DEF Streams, Dialogue, Alone, Ending, Upload, k
  <2>8. QED
    BY <2>1, <2>6, <2>7
<1>12. CASE SrvSuspend
  <2>1. /\ k = "suspend" /\ srv = "receive" /\ srv' = "command" /\ pc = "suggestions"
        /\ back = "resume" /\ Len(c2s) = 1 /\ Suggesting
    BY <1>2, <1>12 DEF SrvSuspend, Arrived, k, Ending
  <2>2. Ok \in Message /\ Ok.kind = "ok"
    BY IsMessage DEF Ok, Signals, Msg
  <2>3. /\ c2s' = <<>> /\ Len(s2c') = Len(s2c) + 1 /\ s2c'[Len(s2c) + 1].kind = "ok"
        /\ \A j \in 1..Len(s2c) : s2c'[j] = s2c[j]
    <3>1. Reply(<<Ok>>)
      BY <1>12 DEF SrvSuspend
    <3>2. c2s' = <<>>
      BY <2>1, <2>2, <3>1, Answers, One
    <3>3. QED
      BY <2>2, <3>1, <3>2, AnswersOne
  <2>4. QED
    BY <2>1, <2>3 DEF Streams, Dialogue, Alone, Ended, Suggesting
<1>13. CASE SrvEnd
  <2>1. /\ k = "end" /\ srv = "receive" /\ srv' = "command" /\ pc = "suggestions"
        /\ back # "resume" /\ Len(c2s) = 1 /\ Suggesting
    BY <1>2, <1>13 DEF SrvEnd, Arrived, k, Ending
  <2>2. PICK lines \in Seq(Message) :
            /\ Reply(lines) /\ Len(lines) >= 1 /\ lines[Len(lines)].kind = "ok"
            /\ \A j \in 1..(Len(lines) - 1) : lines[j].kind = "packed"
    <3>1. Ok \in Message /\ Ok.kind = "ok"
      BY IsMessage DEF Ok, Signals, Msg
    <3>2. CASE srvOpen = {}
      <4>1. Reply(<<Ok>>)
        BY <1>13, <3>1, <3>2, One, ConcatEmptySeq DEF SrvEnd
      <4>2. QED
        BY <3>1, <4>1, One
    <3>3. CASE srvOpen # {}
      <4>1. Msg("packed", srvOpen) \in Message
        BY <3>3, IsMessage DEF Idxs, Types, TypeOK
      <4> DEFINE said == <<Msg("packed", srvOpen)>> \o <<Ok>>
      <4>2. /\ said \in Seq(Message) /\ Len(said) = 2
            /\ said[1].kind = "packed" /\ said[2].kind = "ok"
        BY <3>1, <4>1, One, Joined DEF Msg
      <4>3. Reply(said)
        BY <1>13, <3>3 DEF SrvEnd
      <4> HIDE DEF said
      <4>4. /\ Len(said) >= 1 /\ said[Len(said)].kind = "ok"
            /\ \A j \in 1..(Len(said) - 1) : said[j].kind = "packed"
        BY <4>2
      <4>5. QED
        BY <4>2, <4>3, <4>4
    <3>4. QED
      BY <3>2, <3>3
  <2>3. /\ c2s' = <<>> /\ Len(s2c') = Len(s2c) + Len(lines)
        /\ \A j \in 1..Len(s2c) : s2c'[j] = s2c[j]
        /\ \A j \in 1..Len(lines) : s2c'[Len(s2c) + j] = lines[j]
        /\ Len(lines) \in Nat
    BY <2>1, <2>2, Answers, EmptyStream
  <2>4. s2c'[Len(s2c')].kind = "ok" /\ Len(s2c') >= 1
    BY <2>2, <2>3
  <2>5. ASSUME NEW j \in 1..(Len(s2c') - 1)
        PROVE  s2c'[j].kind \in {"index", "packed"}
    <3>1. CASE j \in 1..Len(s2c)
      BY <2>1, <2>3, <3>1 DEF Suggesting
    <3>2. CASE j \notin 1..Len(s2c)
      <4>1. PICK i \in 1..(Len(lines) - 1) : j = Len(s2c) + i
        <5>1. /\ Len(s2c) \in Nat /\ Len(lines) \in Nat /\ Len(s2c') = Len(s2c) + Len(lines)
              /\ j \in 1..(Len(s2c') - 1) /\ j \notin 1..Len(s2c)
          BY <2>3, <2>5, <3>2
        <5>2. j - Len(s2c) \in 1..(Len(lines) - 1) /\ j = Len(s2c) + (j - Len(s2c))
          BY ONLY <5>1
        <5>3. QED
          BY ONLY <5>2
      <4>2. i \in 1..Len(lines)
        BY <2>3
      <4>3. QED
        BY <2>2, <2>3, <4>1, <4>2
    <3>3. QED
      BY <3>1, <3>2
  <2>6. QED
    BY <2>1, <2>3, <2>4, <2>5 DEF Streams, Dialogue, Alone, Ended, IsIdxLine
<1>14. ~SrvQuit
  BY <1>1 DEF SrvQuit, Asked, k
<1>15. ~SrvAbort
  BY <1>2 DEF SrvAbort, Arrived, k
<1>16. ~SrvUnknownCommand
  <2>1. SrvUnknownCommand => Len(c2s) > 1 /\ srv = "command" /\ k = "end"
    BY DEF SrvUnknownCommand, Asked, k
  <2>2. SrvUnknownCommand => Len(c2s) = 1
    BY <1>1, <2>1 DEF Stalled
  <2>3. \A n \in Nat : ~(n = 1 /\ n > 1)
    OBVIOUS
  <2>4. QED
    BY <2>1, <2>2, <2>3
<1>17. QED
  BY <1>5, <1>6, <1>7, <1>8, <1>9, <1>10, <1>11, <1>12, <1>13, <1>14, <1>15, <1>16
     DEF ServerNext

\* It reads what a client that is gone had sent, to the end.
LEMMA StreamsDrain ==
    ASSUME Types, Types', Streams, ServerNext, pc = "out"
    PROVE  Streams'
<1> UNCHANGED <<pc, diskFull>> /\ Draining /\ StreamTypes /\ srv # "none"
    /\ c2s # <<>> /\ Len(c2s) \in Nat /\ srv \in {"none", "command", "receive"}
  BY ServerStep, ServerBusy, EmptyStream
     DEF client, session, disk, Streams, Types, TypeOK, StreamTypes
<1> Dialogue' /\ Alone'
  BY DEF Dialogue, Talking, Alone
<1> DEFINE k == Head(c2s).kind
<1>1. /\ srv = "command" =>
           \/ k = "quit" /\ Len(c2s) = 1
           \/ k = "eof" /\ Len(c2s) = 1
           \/ /\ k \in {"read-ref", "list-indexes", "send-index", "update-ref"}
              /\ Len(c2s) = 2 /\ c2s[2].kind = "eof"
           \/ k = "receive-objects-v2" /\ Len(c2s) >= 2
           \/ k = "end" /\ diskFull /\ Len(c2s) = 2
      /\ srv = "receive" => k \in {"object", "suspend", "end", "eof"}
  BY Remains
<1>2. Head(c2s) = c2s[1]
  BY Taken DEF StreamTypes
<1>3. ASSUME NEW lines \in Seq(Message), Reply(lines)
      PROVE  Len(c2s') = Len(c2s) - 1 /\ \A j \in 1..Len(c2s') : c2s'[j] = c2s[j + 1]
  BY <1>3, Answers
<1>4. CASE srv' = "none"
  BY <1>4 DEF Streams, Draining
<1>5. SrvExit => srv' = "none"
  BY DEF SrvExit
<1>6. CASE SrvReadRef \/ SrvListIndexes \/ SrvSendIndex \/ SrvUpdateRef
  <2>1. srv = "command" /\ srv' = srv
        /\ k \in {"read-ref", "list-indexes", "send-index", "update-ref"}
    BY <1>6 DEF SrvReadRef, SrvListIndexes, SrvSendIndex, SrvUpdateRef, Asked, server
  <2>2. \E lines \in Seq(Message) : Reply(lines)
    <3>1. Ok \in Message
      BY IsMessage DEF Ok, Signals
    <3>2. Msg("ref", ref) \in Message /\ Msg("list", idxs) \in Message
      BY IsMessage DEF Types, TypeOK
    <3>3. k = "send-index" => Msg("idx", Head(c2s).arg) \in Message
      BY Taken, MessageArg, IsMessage DEF StreamTypes
    <3>4. QED
      BY <1>6, <3>1, <3>2, <3>3, One
         DEF SrvReadRef, SrvListIndexes, SrvSendIndex, SrvUpdateRef, Asked
  <2>3. Len(c2s) = 2 /\ c2s[2].kind = "eof"
    BY <1>1, <2>1
  <2>4. Len(c2s') = 1 /\ c2s'[1].kind = "eof"
    BY <1>3, <2>2, <2>3
  <2>5. QED
    BY <2>1, <2>4 DEF Streams, Draining
<1>7. CASE SrvReceive
  <2>1. /\ k = "receive-objects-v2" /\ srv = "command" /\ srv' = "receive"
        /\ c2s' = Tail(c2s)
    BY <1>7 DEF SrvReceive, Asked
  <2>2. Len(c2s') = Len(c2s) - 1 /\ \A j \in 1..Len(c2s') : c2s'[j] = c2s[j + 1]
    BY <2>1, Taken DEF StreamTypes
  <2>3. Len(c2s) >= 2
    BY <1>1, <2>1
  <2>4. \A n \in 1..Len(c2s) : Upload(n) => Upload(n - 1)'
    BY <2>1, <2>2 DEF Upload
  <2>5. QED
    BY <1>2, <2>1, <2>2, <2>3, <2>4 DEF Streams, Draining, Upload
<1>8. CASE SrvObject \/ SrvSuspend \/ SrvEnd
  <2>1. srv = "receive" /\ srv' \in {"receive", "command"}
        /\ (SrvObject => srv' = "receive" /\ k = "object")
        /\ (~SrvObject => k \in {"suspend", "end"})
    BY <1>8 DEF SrvObject, SrvSuspend, SrvEnd, Arrived
  <2>2. \E lines \in Seq(Message) : Reply(lines)
    <3>1. Ok \in Message
      BY IsMessage DEF Ok, Signals
    <3>2. \A i \in SrvSnapshot : Msg("index", i) \in Message
      BY IsMessage DEF SrvSnapshot, Types, TypeOK
    <3>3. srvOpen # {} => Msg("packed", srvOpen) \in Message
      BY IsMessage DEF Idxs, Types, TypeOK
    <3>4. (IF srvOpen = {} THEN <<>> ELSE <<Msg("packed", srvOpen)>>) \o <<Ok>> \in Seq(Message)
      BY <3>1, <3>3, One, Joined, EmptySeq
    <3>5. SrvObject => \E lines \in Seq(Message) : Reply(lines)
      BY <3>2, One, EmptySeq DEF SrvObject, SrvKnows, SrvStore
    <3>6. QED
      BY <1>8, <3>1, <3>4, <3>5, One DEF SrvSuspend, SrvEnd
  <2>3. Len(c2s') = Len(c2s) - 1 /\ \A j \in 1..Len(c2s') : c2s'[j] = c2s[j + 1]
    BY <1>3, <2>2
  <2>4. PICK n \in Nat :
           /\ Len(c2s) = n + 1 /\ c2s[n + 1].kind = "eof"
           /\ n = 0 \/ Upload(n) \/ (n >= 1 /\ Upload(n - 1) /\ c2s[n].kind \in {"suspend", "end"})
    <3>1. Len(c2s) - 1 \in Nat /\ Len(c2s) = (Len(c2s) - 1) + 1
      BY DEF Draining
    <3>2. QED
      BY <2>1, <3>1 DEF Draining
  <2>5. n >= 1 /\ \A m \in 1..n : Upload(m) => c2s[1].kind = "object"
    BY <1>2, <2>1, <2>4 DEF Upload
  <2>6. Len(c2s') = n /\ \A j \in 1..n : c2s'[j] = c2s[j + 1]
    BY <2>3, <2>4
  <2>7. CASE SrvObject
    <3>1. ASSUME NEW m \in 1..n, Upload(m)
          PROVE  srv' = "receive" /\ \A j \in 1..(m - 1) : c2s'[j].kind = "object"
      BY <2>1, <2>6, <2>7, <3>1 DEF Upload
    <3>2. c2s'[n].kind = "eof" /\ srv' = "receive"
      BY <2>1, <2>4, <2>5, <2>6, <2>7
    <3>3. CASE Upload(n)
      <4>1. \A j \in 1..(n - 1) : c2s'[j].kind = "object"
        BY <2>5, <3>1, <3>3
      <4>2. QED
        BY <2>5, <2>6, <3>2, <4>1 DEF Streams, Draining, Upload
    <3>4. CASE Upload(n - 1) /\ c2s[n].kind \in {"suspend", "end"}
      <4>1. n >= 2
        <5>1. n # 1
          BY <1>2, <2>1, <2>7, <3>4
        <5>2. QED
          BY ONLY <2>5, <5>1, n \in Nat
      <4>2. n - 1 \in 1..n
        BY ONLY <4>1, n \in Nat
      <4>3. \A j \in 1..(n - 2) : c2s'[j].kind = "object"
        BY <3>1, <3>4, <4>1, <4>2
      <4>4. c2s'[n - 1].kind \in {"suspend", "end"}
        BY <2>6, <3>4, <4>1
      <4>5. QED
        BY <2>6, <3>2, <4>1, <4>3, <4>4 DEF Streams, Draining, Upload
    <3>5. QED
      BY <2>4, <2>5, <3>3, <3>4
  <2>8. CASE ~SrvObject
    <3>1. n = 1
      <4>1. k = c2s[1].kind /\ k # "object"
        BY <1>2, <2>1, <2>8
      <4>2. ~Upload(n) /\ (Upload(n - 1) => n < 2)
        BY <2>5, <4>1
      <4>3. QED
        BY <2>4, <2>5, <4>2
    <3>2. Len(c2s') = 1 /\ c2s'[1].kind = "eof"
      BY <2>4, <2>6, <3>1
    <3>3. QED
      BY <3>2 DEF Streams, Draining
  <2>9. QED
    BY <2>7, <2>8
<1>9. CASE SrvUpdateRefFails \/ SrvQuit \/ SrvUnknownCommand \/ SrvAbort
  BY <1>4, <1>5, <1>9 DEF SrvUpdateRefFails, SrvQuit, SrvUnknownCommand, SrvAbort
<1>10. QED
  BY <1>6, <1>7, <1>8, <1>9 DEF ServerNext

\* The dialogue holds through kills, broken pipes and other writers too.
LEMMA StreamsStep ==
    ASSUME Types, Types', Phase, Phase', Streams, Named, New, Suggested, [Next]_vars
    PROVE  Streams'
<1>1. CASE ClientNext
  BY <1>1, StreamsClient
<1>2. CASE ServerNext
  <2>1. srv # "none"
    BY <1>2, ServerBusy
  <2>2. QED
    BY <1>2, <2>1, StreamsServer, StreamsDrain DEF Talking
<1>3. ASSUME NEW W \in Idxs, Connect(W)
      PROVE  Streams'
  <2>1. /\ srv' = "command" /\ pc' = "oldref" /\ s2c' = <<>>
        /\ c2s' = <<Msg("read-ref", {})>>
    BY <1>3 DEF Connect
  <2>2. Len(c2s') = 1 /\ c2s'[1].kind = "read-ref"
    BY <2>1, IsMessage, One DEF Signals, Msg
  <2>3. QED
    BY <2>1, <2>2 DEF Streams, Dialogue, Draining, Alone, Calling
<1>4. CASE DiskFills
  BY <1>4 DEF DiskFills, Streams, Dialogue, Draining, Alone, Talking, Calling, Quiet, Uploading,
              Upload, Suggesting, Ending, Ended, Stalled, server, session, streams
<1>5. CASE Abandon
  BY <1>5 DEF Abandon, Streams, Dialogue, Draining, Alone, Talking, Quiet, Uploading,
              Upload, Suggesting, server, session, streams
<1>6. CASE Kill
  <2>1. pc' = "out" /\ c2s' = Append(c2s, Msg("eof", {})) 
        /\ UNCHANGED <<srv, diskFull>> /\ pc # "out"
    BY <1>6 DEF Kill, Gone, server, disk
  <2>2. Dialogue' /\ Alone'
    BY <2>1 DEF Dialogue, Alone, Talking
  <2>3. Draining'
    <3>1. CASE srv = "none"
      BY <2>1, <3>1 DEF Draining
    <3>2. CASE srv # "none"
      BY <2>1, <3>2, Leaves DEF Streams, Talking
    <3>3. QED
      BY <3>1, <3>2
  <2>4. QED
    BY <2>2, <2>3 DEF Streams
<1>7. CASE SrvBrokenPipe
  BY <1>7 DEF SrvBrokenPipe, SrvExit, client, Streams, Dialogue, Draining, Alone, Talking
<1>8. CASE \/ UNCHANGED vars
           \/ \E P \in OtherIdxs : OtherSave(P)
           \/ \E P \in idxs : OtherGc(P)
  <2>1. UNCHANGED <<pc, back, srv, packopen, diskFull, c2s, s2c>>
    BY <1>8 DEF vars, OtherSave, OtherGc, client, server, session, disk, streams
  <2>2. QED
    BY <2>1 DEF Streams, Dialogue, Draining, Alone, Talking, Calling, Quiet, Uploading,
                Upload, Suggesting, Ending, Ended, Stalled
<1>9. QED
  BY <1>1, <1>2, <1>3, <1>4, <1>5, <1>6, <1>7, <1>8 DEF Next

-----------------------------------------------------------------------------
(***************************************************************************)
(* What is said                                                            *)
(***************************************************************************)

\* A stream as a set of messages, when one is added, joined or taken.
LEMMA InStream ==
    ASSUME NEW s \in Seq(Message)
    PROVE  /\ In(s) \subseteq Message
           /\ \A j \in 1..Len(s) : s[j] \in In(s)
           /\ In(<<>>) = {}
           /\ \A m \in Message : In(Append(s, m)) = In(s) \cup {m} /\ In(<<m>>) = {m}
           /\ \A t \in Seq(Message) : In(s \o t) = In(s) \cup In(t)
           /\ s # <<>> => /\ Head(s) \in In(s) /\ In(s) = {Head(s)} \cup In(Tail(s))
<1> USE DEF In
<1>1. In(s) \subseteq Message /\ \A j \in 1..Len(s) : s[j] \in In(s)
  OBVIOUS
<1>2. In(<<>>) = {}
  OBVIOUS
<1>3. ASSUME NEW m \in Message
      PROVE  In(Append(s, m)) = In(s) \cup {m} /\ In(<<m>>) = {m}
  <2>1. Len(s) \in Nat
    OBVIOUS
  <2>2. In(<<m>>) = {m}
    BY One
  <2>3. 1..(Len(s) + 1) = 1..Len(s) \cup {Len(s) + 1}
    BY <2>1
  <2>4. QED
    BY <2>2, <2>3, Sent
<1>4. ASSUME NEW t \in Seq(Message)
      PROVE  In(s \o t) = In(s) \cup In(t)
  <2>1. Len(s) \in Nat /\ Len(t) \in Nat
    OBVIOUS
  <2>2. \A j \in 1..(Len(s) + Len(t)) :
           j \in 1..Len(s) \/ \E i \in 1..Len(t) : j = Len(s) + i
    <3>1. ASSUME NEW j \in 1..(Len(s) + Len(t)), j \notin 1..Len(s)
          PROVE  j - Len(s) \in 1..Len(t) /\ j = Len(s) + (j - Len(s))
      BY ONLY <2>1, <3>1
    <3>2. QED
      BY <3>1
  <2>3. /\ \A i \in 1..Len(s) : i \in 1..(Len(s) + Len(t))
        /\ \A i \in 1..Len(t) : Len(s) + i \in 1..(Len(s) + Len(t))
    BY ONLY <2>1
  <2>4. In(s \o t) \subseteq In(s) \cup In(t)
    BY <2>2, Joined
  <2>5. In(s) \cup In(t) \subseteq In(s \o t)
    <3>1. Len(s \o t) = Len(s) + Len(t)
      BY Joined
    <3>2. ASSUME NEW j \in 1..Len(s)
          PROVE  s[j] \in In(s \o t)
      BY <2>3, <3>1, Joined
    <3>3. ASSUME NEW j \in 1..Len(t)
          PROVE  t[j] \in In(s \o t)
      <4>1. (s \o t)[Len(s) + j] = t[j]
        BY Joined
      <4>2. QED
        BY <2>3, <3>1, <4>1
    <3>4. QED
      BY <3>2, <3>3
  <2>6. QED
    BY <2>4, <2>5
<1>5. ASSUME s # <<>>
      PROVE  Head(s) \in In(s) /\ In(s) = {Head(s)} \cup In(Tail(s))
  <2>1. Len(s) \in Nat /\ Len(s) >= 1 /\ Len(Tail(s)) = Len(s) - 1 /\ Head(s) = s[1]
    BY <1>5, Taken
  <2>2. \A j \in 1..Len(s) : j = 1 \/ \E i \in 1..Len(Tail(s)) : j = i + 1
    <3>1. \A j \in 1..Len(s) : j = 1 \/ (j - 1 \in 1..Len(Tail(s)) /\ j = (j - 1) + 1)
      BY ONLY <2>1
    <3>2. QED
      BY <3>1
  <2>3. \A i \in 1..Len(Tail(s)) : i + 1 \in 1..Len(s)
    BY ONLY <2>1
  <2>4. \A i \in 1..Len(Tail(s)) : Tail(s)[i] = s[i + 1]
    BY <1>5, Taken
  <2>5. 1 \in 1..Len(s)
    BY ONLY <2>1
  <2>6. In(s) \subseteq {Head(s)} \cup In(Tail(s))
    BY <2>1, <2>2, <2>4
  <2>7. {Head(s)} \cup In(Tail(s)) \subseteq In(s)
    BY <2>1, <2>3, <2>4, <2>5
  <2>8. QED
    BY <2>6, <2>7
<1>6. QED
  BY <1>1, <1>2, <1>3, <1>4, <1>5

\* The same, for the provers to use one at a time.
LEMMA InOne == \A m \in Message : In(<<m>>) = {m}
<1>1. <<>> \in Seq(Message)
  OBVIOUS
<1>2. QED
  BY <1>1, InStream

\* A message is added to a stream.
LEMMA InAdded == \A s \in Seq(Message), m \in Message : In(Append(s, m)) = In(s) \cup {m}
  BY InStream

\* Two streams are joined.
LEMMA InJoined == \A s, t \in Seq(Message) : In(s \o t) = In(s) \cup In(t)
  BY InStream

\* A stream of one message is joined to another.
LEMMA InJoinedOne ==
    ASSUME NEW s \in Seq(Message), NEW m \in Message
    PROVE  In(s \o <<m>>) = In(s) \cup {m}
<1> DEFINE t == <<m>>
<1>1. t \in Seq(Message) /\ In(t) = {m}
  BY One, InOne
<1> HIDE DEF t
<1>2. In(s \o t) = In(s) \cup {m}
  BY <1>1, InJoined
<1>3. QED
  BY <1>2 DEF t

\* The objects that are on their way.
LEMMA InFlightIs ==
    InFlight = UNION {m.arg : m \in {n \in In(c2s) : n.kind = "object"}}
  BY DEF InFlight, In

\* Which messages may be under way, by what the client waits for.
OnlyAsked ==
    /\ pc \in {"load", "update"} => In(c2s) = {} /\ In(s2c) = {}
    /\ pc \in {"ready", "raise"} /\ ~packopen => In(c2s) = {} /\ In(s2c) = {}
    /\ \A m \in In(c2s) :
          /\ m.kind = "send-index" => pc = "idx"
          /\ m.kind = "update-ref" => pc = "close"
          /\ m.kind = "object" => packopen \/ pc = "suggestions"
    /\ \A m \in In(s2c) :
          /\ m.kind = "list" => pc = "list"
          /\ m.kind = "idx" => pc = "idx"
          /\ IsIdxLine(m) => packopen \/ pc = "suggestions"

\* A client that talks to a server has said one thing, and is answered that.
LEMMA UnderWay == Types /\ Phase /\ Dialogue /\ Talking => OnlyAsked
<1> SUFFICES ASSUME Types, Phase, Dialogue, Talking
             PROVE  OnlyAsked
  OBVIOUS
<1> USE EmptyStream DEF Types, TypeOK, Phase, Dialogue, Talking, In, IsIdxLine, OnlyAsked
<1>1. CASE pc \in {"oldref", "list", "idx", "close"}
  BY <1>1 DEF Calling
<1>2. CASE pc \in {"update", "load", "ready", "input", "raise"}
  BY <1>2 DEF Quiet, Uploading, Upload, Suggesting
<1>3. CASE pc = "suggestions"
  <2>1. CASE Ending(IF back = "resume" THEN "suspend" ELSE "end")
    <3>1. \A j \in 1..Len(c2s) : j = Len(c2s) \/ j \in 1..(Len(c2s) - 1)
      BY EmptyStream
    <3>2. \A j \in 1..Len(c2s) : c2s[j].kind \in {"suspend", "end", "object", "receive-objects-v2"}
      BY <2>1, <3>1 DEF Ending, Upload
    <3>3. \A j \in 1..Len(s2c) : s2c[j].kind = "index"
      BY <2>1 DEF Ending, Suggesting
    <3>4. QED
      BY <1>3, <3>2, <3>3
  <2>2. CASE Ended
    <3>1. \A j \in 1..Len(s2c) : j = Len(s2c) \/ j \in 1..(Len(s2c) - 1)
      BY EmptyStream
    <3>2. \A j \in 1..Len(s2c) : s2c[j].kind \in {"index", "packed", "ok"}
      BY <2>2, <3>1 DEF Ended
    <3>3. QED
      BY <1>3, <2>2, <3>2 DEF Ended
  <2>3. CASE Stalled
    BY <1>3, <2>3 DEF Stalled
  <2>4. QED
    BY <1>3, <2>1, <2>2, <2>3
<1>4. QED
  BY <1>1, <1>2, <1>3

\* What a client that talks to the server says in a step, and what it is the
\* step does.
LEMMA ClientSays ==
    ASSUME Types, ClientNext
    PROVE  /\ In(s2c') \subseteq In(s2c)
           /\ In(c2s) \subseteq In(c2s')
           /\ \A m \in In(c2s') : m \in In(c2s) \/
                 /\ m.kind = "send-index" =>
                      pc' = "idx" /\ pc = "load" /\ m.arg \in toLoad
                 /\ m.kind = "update-ref" => UpdateRef /\ m.arg.new = want
                 /\ m.kind = "object" => \E o \in want :
                      Writing /\ ~Exists(o) /\ pc' = "input" /\ m.arg = {o}
<1> c2s \in Seq(Message) /\ s2c \in Seq(Message) /\ want \subseteq Objects /\ seen \subseteq Objects
  BY DEF Types, TypeOK
<1> DEFINE Adds(m) == c2s' = Append(c2s, m) /\ UNCHANGED s2c
           Goal == /\ In(s2c') \subseteq In(s2c)
                   /\ In(c2s) \subseteq In(c2s')
                   /\ \A m \in In(c2s') : m \in In(c2s) \/
                         /\ m.kind = "send-index" =>
                              pc' = "idx" /\ pc = "load" /\ m.arg \in toLoad
                         /\ m.kind = "update-ref" => UpdateRef /\ m.arg.new = want
                         /\ m.kind = "object" => \E o \in want :
                              Writing /\ ~Exists(o) /\ pc' = "input" /\ m.arg = {o}
<1>1. s2c # <<>> => In(Tail(s2c)) \subseteq In(s2c)
  BY InStream
<1>2. \A m \in Message : Adds(m) => In(c2s') = In(c2s) \cup {m} /\ In(s2c') = In(s2c)
  BY InAdded
<1>3. \A k \in Signals : LET m == Msg(k, {})
                         IN  /\ m \in Message /\ m.kind = k
                             /\ k \notin {"send-index", "update-ref", "object"}
  BY IsMessage DEF Msg, Signals
<1>4. ASSUME NEW k \in Signals, Adds(Msg(k, {}))
      PROVE  Goal
  BY <1>2, <1>3, <1>4
<1>5. CASE OldRef \/ SyncIndexes \/ StoreIdx \/ StoreIdxFails
  BY <1>1, <1>5 DEF OldRef, SyncIndexes, StoreIdx, StoreIdxFails, Heard, Receive
<1>6. CASE EnsurePackwriter \/ Suspend \/ Resume
  BY <1>4, <1>6 DEF EnsurePackwriter, Suspend, Resume, Send, Signals
<1>7. CASE SyncDone \/ NoInput \/ Closed \/ RaiseFinished
  BY <1>7 DEF SyncDone, NoInput, Closed, RaiseFinished, streams
<1>8. ASSUME NEW i \in toLoad, RequestIdx(i)
      PROVE  Goal
  <2>1. CASE i \in cachedir
    BY <1>8, <2>1 DEF RequestIdx, streams
  <2>2. CASE i \notin cachedir
    <3>1. Msg("send-index", i) \in Message /\ Adds(Msg("send-index", i))
          /\ pc' = "idx" /\ pc = "load"
      BY <1>8, <2>2, IsMessage DEF RequestIdx, Send, Types, TypeOK
    <3>2. QED
      BY <1>2, <3>1 DEF Msg
  <2>3. QED
    BY <2>1, <2>2
<1>9. CASE Suggestions
  <2>1. UNCHANGED c2s
    BY <1>9 DEF Suggestions
  <2>2. In(s2c') \subseteq In(s2c)
    <3>1. PICK n \in DOMAIN s2c : s2c' = SubSeq(s2c, n + 1, Len(s2c))
      BY <1>9 DEF Suggestions
    <3>2. n \in 1..Len(s2c) /\ Len(s2c) \in Nat
      OBVIOUS
    <3>3. /\ Len(s2c') = Len(s2c) - n
          /\ \A j \in 1..Len(s2c') : s2c'[j] = s2c[n + j] /\ n + j \in 1..Len(s2c)
      BY <3>1, <3>2
    <3>4. QED
      BY <3>3 DEF In
  <2>3. QED
    BY <2>1, <2>2
<1>10. ASSUME NEW o \in Objects, o \in want, Writing, ~Exists(o), SendObject(o)
       PROVE  Goal
  <2>1. /\ Msg("object", {o}) \in Message /\ Msg("receive-objects-v2", {}) \in Message
        /\ <<Msg("object", {o})>> \in Seq(Message)
        /\ <<Msg("receive-objects-v2", {})>> \in Seq(Message)
        /\ <<>> \in Seq(Message)
    BY IsMessage, One DEF Signals
  <2> DEFINE begin == IF packopen THEN <<>> ELSE <<Msg("receive-objects-v2", {})>>
  <2>2. begin \in Seq(Message) /\ In(begin) \subseteq {Msg("receive-objects-v2", {})}
    BY <2>1, InStream
  <2>3. c2s' = (c2s \o begin) \o <<Msg("object", {o})>> /\ s2c' = s2c /\ pc' = "input"
    BY <1>10 DEF SendObject
  <2> HIDE DEF begin
  <2>4. c2s \o begin \in Seq(Message) /\ In(c2s \o begin) = In(c2s) \cup In(begin)
    BY <2>2, Joined, InJoined
  <2>5. In(c2s') = In(c2s \o begin) \cup {Msg("object", {o})}
    BY <2>1, <2>3, <2>4, InJoinedOne
  <2>6. In(c2s') = In(c2s) \cup In(begin) \cup {Msg("object", {o})} /\ In(s2c') = In(s2c)
    BY <2>3, <2>4, <2>5
  <2>7. ASSUME NEW m \in In(c2s'), m \notin In(c2s)
        PROVE  /\ m.kind \in {"object", "receive-objects-v2"}
               /\ m.kind = "object" => m.arg = {o}
    BY <2>2, <2>6, <2>7 DEF Msg
  <2>8. QED
    BY <1>10, <2>3, <2>6, <2>7
<1>11. CASE \E o \in want : Write(o) \/ SeeTree(o) \/ WriteTree(o)
  <2>1. PICK o \in want : Write(o) \/ SeeTree(o) \/ WriteTree(o)
    BY <1>11
  <2>2. CASE UNCHANGED streams
    BY <2>2 DEF streams
  <2>3. Write(o) \/ SeeTree(o) \/ WriteTree(o) =>
           UNCHANGED streams \/ (Writing /\ ~Exists(o) /\ SendObject(o))
    BY DEF Write, SeeTree, WriteTree, streams
  <2>4. QED
    BY <1>10, <2>1, <2>2, <2>3
<1>12. CASE Breakpoint \/ CloseWriter \/ RaiseFinish
  BY <1>4, <1>12 DEF Breakpoint, CloseWriter, RaiseFinish, FinishPack, Send, streams, Signals
<1>13. CASE UpdateRef
  <2>1. /\ Msg("update-ref", [new |-> want, old |-> oldref]) \in Message
        /\ Adds(Msg("update-ref", [new |-> want, old |-> oldref]))
    BY <1>13, IsMessage DEF UpdateRef, Send, Types, TypeOK
  <2>2. QED
    BY <1>2, <1>13, <2>1 DEF Msg
<1>14. CASE Updated
  <2>1. /\ In(c2s') = In(c2s) \cup {Msg("quit", {})} /\ In(s2c') \subseteq In(s2c)
        /\ Msg("quit", {}).kind = "quit"
    BY <1>1, <1>3, <1>14, InStream DEF Updated, Heard, Signals
  <2>2. QED
    BY <2>1
<1>15. CASE RaiseQuit \/ ServerLost
  BY <1>4, <1>15 DEF RaiseQuit, Quit, Send, ServerLost, Gone, Signals
<1>16. QED
  BY <1>5, <1>6, <1>7, <1>8, <1>9, <1>11, <1>12, <1>13, <1>14, <1>15 DEF ClientNext

\* What a server says in a step, and what it takes.
LEMMA ServerSays ==
    ASSUME Types, ServerNext, srv' # "none"
    PROVE  /\ In(c2s) = {Head(c2s)} \cup In(c2s') /\ Head(c2s) \in In(c2s)
           /\ In(s2c) \subseteq In(s2c')
           /\ \A m \in In(s2c') : m \in In(s2c) \/
                 /\ m.kind = "list" => m.arg = idxs
                 /\ m.kind = "idx" => SrvSendIndex /\ Head(c2s).kind = "send-index"
                                      /\ m.arg = Head(c2s).arg
                 /\ m.kind = "index" => SrvObject /\
                      \E o \in Head(c2s).arg :
                         SrvKnows(o) /\ dedup /\ m.arg \in SrvSnapshot /\ o \in m.arg
                 /\ m.kind = "packed" => SrvEnd /\ m.arg = srvOpen /\ srvOpen # {}
<1> c2s \in Seq(Message) /\ s2c \in Seq(Message) /\ c2s # <<>>
  BY ServerBusy DEF Types
<1>1. In(c2s) = {Head(c2s)} \cup In(Tail(c2s)) /\ Head(c2s) \in In(c2s) /\ Head(c2s) \in Message
  BY InStream, Taken
<1> SUFFICES /\ c2s' = Tail(c2s)
             /\ In(s2c) \subseteq In(s2c')
             /\ \A m \in In(s2c') : m \in In(s2c) \/
                 /\ m.kind = "list" => m.arg = idxs
                 /\ m.kind = "idx" => SrvSendIndex /\ Head(c2s).kind = "send-index"
                                      /\ m.arg = Head(c2s).arg
                 /\ m.kind = "index" => SrvObject /\
                      \E o \in Head(c2s).arg :
                         SrvKnows(o) /\ dedup /\ m.arg \in SrvSnapshot /\ o \in m.arg
                 /\ m.kind = "packed" => SrvEnd /\ m.arg = srvOpen /\ srvOpen # {}
  BY <1>1
<1>2. ASSUME NEW m \in Message, Reply(<<m>>)
      PROVE  c2s' = Tail(c2s) /\ In(s2c') = In(s2c) \cup {m}
  BY <1>2, InJoinedOne DEF Reply
<1>3. ASSUME Reply(<<>>)
      PROVE  c2s' = Tail(c2s) /\ In(s2c') = In(s2c)
  BY <1>3, ConcatEmptySeq DEF Reply
<1>4. Ok \in Message /\ Ok.kind = "ok"
  BY IsMessage DEF Ok, Signals, Msg
<1>5. CASE SrvReadRef
  <2>1. Msg("ref", ref) \in Message /\ Reply(<<Msg("ref", ref)>>)
    BY <1>5, IsMessage DEF SrvReadRef, Types, TypeOK
  <2>2. QED
    BY <1>2, <2>1 DEF Msg
<1>6. CASE SrvListIndexes
  <2>1. Msg("list", idxs) \in Message /\ Reply(<<Msg("list", idxs)>>)
    BY <1>6, IsMessage DEF SrvListIndexes, Types, TypeOK
  <2>2. QED
    BY <1>2, <2>1 DEF Msg
<1>7. CASE SrvSendIndex
  <2>1. Head(c2s).kind = "send-index" /\ Reply(<<Msg("idx", Head(c2s).arg)>>)
    BY <1>7 DEF SrvSendIndex, Asked
  <2>2. Msg("idx", Head(c2s).arg) \in Message
    BY <1>1, <2>1, MessageArg, IsMessage
  <2>3. QED
    BY <1>2, <1>7, <2>1, <2>2 DEF Msg
<1>8. CASE SrvReceive
  BY <1>8 DEF SrvReceive
<1>9. CASE SrvObject
  <2>1. PICK o \in Head(c2s).arg :
           IF dedup /\ o \in UNION SrvSnapshot THEN SrvKnows(o) ELSE SrvStore(o)
    BY <1>9 DEF SrvObject
  <2>2. CASE SrvStore(o)
    BY <1>3, <2>2 DEF SrvStore
  <2>3. CASE SrvKnows(o) /\ dedup
    <3>1. PICK i \in SrvSnapshot :
             o \in i /\ Reply(IF i \in suggested THEN <<>> ELSE <<Msg("index", i)>>)
      BY <2>3 DEF SrvKnows
    <3>2. Msg("index", i) \in Message
      <4>1. SrvSnapshot \subseteq Idxs
        BY DEF SrvSnapshot, Types, TypeOK
      <4>2. QED
        BY <4>1, IsMessage
    <3>3. CASE i \in suggested
      BY <1>3, <3>1, <3>3
    <3>4. CASE i \notin suggested
      <4>1. c2s' = Tail(c2s) /\ In(s2c') = In(s2c) \cup {Msg("index", i)}
        BY <1>2, <3>1, <3>2, <3>4
      <4>2. QED
        BY <1>9, <2>3, <3>1, <4>1 DEF Msg
    <3>5. QED
      BY <3>3, <3>4
  <2>4. QED
    BY <2>1, <2>2, <2>3
<1>10. CASE SrvSuspend \/ SrvUpdateRef
  BY <1>2, <1>4, <1>10 DEF SrvSuspend, SrvUpdateRef
<1>11. CASE SrvEnd
  <2>1. CASE srvOpen = {}
    <3>1. Reply(<<Ok>>)
      BY <1>4, <1>11, <2>1, One, ConcatEmptySeq DEF SrvEnd
    <3>2. QED
      BY <1>2, <1>4, <3>1
  <2>2. CASE srvOpen # {}
    <3>1. Msg("packed", srvOpen) \in Message /\ <<Msg("packed", srvOpen)>> \in Seq(Message)
          /\ <<Ok>> \in Seq(Message)
      BY <1>4, <2>2, IsMessage, One DEF Idxs, Types, TypeOK
    <3> DEFINE said == <<Msg("packed", srvOpen)>> \o <<Ok>>
    <3>2. said \in Seq(Message) /\ In(said) = {Msg("packed", srvOpen)} \cup {Ok}
      <4>1. said \in Seq(Message)
        BY <3>1, Joined
      <4>2. In(said) = In(<<Msg("packed", srvOpen)>>) \cup {Ok}
        BY <1>4, <3>1, InJoinedOne
      <4>3. In(<<Msg("packed", srvOpen)>>) = {Msg("packed", srvOpen)}
        BY <3>1, InOne
      <4>4. QED
        BY <4>1, <4>2, <4>3
    <3>3. Reply(said)
      BY <1>11, <2>2 DEF SrvEnd
    <3> HIDE DEF said
    <3>4. c2s' = Tail(c2s) /\ In(s2c') = In(s2c) \cup {Msg("packed", srvOpen), Ok}
      BY <3>2, <3>3, InStream DEF Reply
    <3>5. QED
      BY <1>4, <1>11, <2>2, <3>4 DEF Msg
  <2>3. QED
    BY <2>1, <2>2
<1>12. CASE SrvUpdateRefFails \/ SrvQuit \/ SrvUnknownCommand \/ SrvAbort
  BY <1>12 DEF SrvUpdateRefFails, SrvQuit, SrvUnknownCommand, SrvAbort, SrvExit
<1>13. QED
  BY <1>5, <1>6, <1>7, <1>8, <1>9, <1>10, <1>11, <1>12 DEF ServerNext

-----------------------------------------------------------------------------
(***************************************************************************)
(* The indexes                                                             *)
(***************************************************************************)

\* As long as a server or a client runs, indexes only come.
LEMMA IndexesStay ==
    ASSUME [Next]_vars, srv # "none" \/ pc # "out"
    PROVE  idxs \subseteq idxs'
<1>1. CASE ClientNext
  BY <1>1, ClientStep DEF repository
<1>2. CASE ServerNext \/ SrvBrokenPipe
  BY <1>2 DEF ServerNext, SrvReadRef, SrvListIndexes, SrvSendIndex, SrvReceive, SrvObject,
         SrvSuspend, SrvEnd, SrvUpdateRef, SrvUpdateRefFails, SrvQuit, SrvAbort,
         SrvUnknownCommand, SrvBrokenPipe, SrvExit, FinishWriting, repository
<1>3. CASE (\E W \in Idxs : Connect(W)) \/ DiskFills \/ Abandon \/ Kill \/ UNCHANGED vars
  BY <1>3 DEF Connect, DiskFills, Abandon, Kill, Gone, repository, vars
<1>4. CASE (\E P \in OtherIdxs : OtherSave(P)) \/ (\E P \in idxs : OtherGc(P))
  BY <1>4 DEF OtherSave, OtherGc
<1>5. QED
  BY <1>1, <1>2, <1>3, <1>4 DEF Next

\* The server's snapshot, when it has one and when it takes one.
LEMMA SnapshotIs ==
    ASSUME Types, ServerPack
    PROVE  SrvSnapshot \subseteq idxs /\ SrvSnapshot # NotLoaded
  BY NotLoadedIsNone DEF SrvSnapshot, ServerPack, Types, TypeOK

\* The server's snapshot stays a part of the repository, and what its open pack
\* holds is in none of the snapshot's indexes.
LEMMA ServerPackStep ==
    ASSUME Types, Types', ServerPack, [Next]_vars
    PROVE  ServerPack'
<1>6. UNCHANGED dedup
  BY ClientStep, ServerStep
     DEF Next, vars, repository, Connect, DiskFills, Abandon, Kill, Gone, SrvBrokenPipe,
         OtherSave, OtherGc
<1>1. CASE UNCHANGED server /\ srv # "none"
  BY <1>1, <1>6, IndexesStay DEF ServerPack, server
<1>2. CASE ServerNext
  <2>1. idxs \subseteq idxs' /\ dedup' = dedup
    BY <1>2, ServerBusy, ServerStep, IndexesStay
  <2>2. CASE SrvReadRef \/ SrvListIndexes \/ SrvSendIndex \/ SrvReceive \/ SrvSuspend
    BY <2>1, <2>2 DEF SrvReadRef, SrvListIndexes, SrvSendIndex, SrvReceive, SrvSuspend,
                      Asked, Arrived, ServerPack, server
  <2>3. CASE SrvObject
    <3>1. PICK o \in Head(c2s).arg :
             IF dedup /\ o \in UNION SrvSnapshot THEN SrvKnows(o) ELSE SrvStore(o)
      BY <2>3 DEF SrvObject
    <3>2. srv' = srv /\ srv # "none"
      BY <2>3 DEF SrvObject, Arrived
    <3>3. CASE SrvKnows(o)
      BY <2>1, <3>2, <3>3, SnapshotIs DEF SrvKnows, ServerPack, SrvSnapshot
    <3>4. CASE SrvStore(o) /\ ~(dedup /\ o \in UNION SrvSnapshot)
      BY <2>1, <3>2, <3>4, SnapshotIs DEF SrvStore, ServerPack, SrvSnapshot
    <3>5. QED
      BY <3>1, <3>3, <3>4
  <2>4. CASE SrvEnd \/ SrvUpdateRef \/ SrvUpdateRefFails \/ SrvQuit \/ SrvAbort
             \/ SrvUnknownCommand
    BY <2>4 DEF SrvEnd, SrvUpdateRef, SrvUpdateRefFails, SrvQuit, SrvAbort,
                SrvUnknownCommand, SrvExit, FinishWriting, ServerPack
  <2>5. QED
    BY <1>2, <2>2, <2>3, <2>4 DEF ServerNext
<1>3. CASE SrvBrokenPipe
  BY <1>3 DEF SrvBrokenPipe, SrvExit, FinishWriting, ServerPack
<1>4. CASE srv = "none" /\ UNCHANGED <<srvOpen, srvCache, dedup>>
  BY <1>4 DEF ServerPack
<1>5. UNCHANGED server \/ ServerNext \/ SrvBrokenPipe \/ \E W \in Idxs : Connect(W)
  BY ClientStep DEF Next, vars, DiskFills, Abandon, Kill, Gone, OtherSave, OtherGc
<1>7. CASE \E W \in Idxs : Connect(W)
  BY <1>4, <1>7 DEF Connect, repository
<1>8. CASE UNCHANGED server
  <2>1. CASE srv = "none"
    BY <1>4, <1>6, <1>8, <2>1 DEF server
  <2>2. QED
    BY <1>1, <1>8, <2>1
<1>9. QED
  BY <1>2, <1>3, <1>5, <1>7, <1>8

\* The client's snapshot and its index cache: every index in them is one the
\* server has.
LEMMA ClientCacheStep ==
    ASSUME Types, Types', Phase, Phase', ClientCache, Alone, Named, [Next]_vars
    PROVE  ClientCache'
<1> /\ writer \in BOOLEAN /\ cachedir \subseteq Idxs /\ cachedir' \subseteq Idxs
    /\ writer' \in BOOLEAN
  BY DEF Types, TypeOK
<1>1. CASE ClientNext
  <2>1. idxs' = idxs
    BY <1>1, ClientStep DEF repository
  <2>2. Talking \/ (srv = "none" /\ ServerLost)
    BY <1>1, ClientTalks
  <2>3. s2c # <<>> => Head(s2c) \in In(s2c)
    BY InStream DEF Types
  <2> USE DEF Phase
  <2>4. CASE OldRef \/ EnsurePackwriter \/ NoInput \/ Suspend \/ Suggestions \/ Closed
             \/ RaiseFinished \/ StoreIdxFails \/ \E i \in toLoad : RequestIdx(i)
    <3>1. UNCHANGED <<objcache, writer, cachedir>>
      BY <2>4 DEF OldRef, EnsurePackwriter, NoInput, Suspend, Suggestions, Closed, RaiseFinished,
                  StoreIdxFails, RequestIdx, session, disk
    <3>2. CASE OldRef \/ EnsurePackwriter \/ NoInput \/ Suspend
      BY <2>1, <3>1, <3>2 DEF OldRef, EnsurePackwriter, NoInput, Suspend, ClientCache
    <3>3. CASE Suggestions \/ Closed \/ RaiseFinished
      BY <2>1, <3>1, <3>3 DEF Suggestions, Closed, RaiseFinished, ClientCache
    <3>4. CASE StoreIdxFails \/ \E i \in toLoad : RequestIdx(i)
      BY <2>1, <3>1, <3>4 DEF StoreIdxFails, RequestIdx, ClientCache
    <3>5. QED
      BY <2>4, <3>2, <3>3, <3>4
  <2>5. CASE SyncIndexes
    <3>1. Head(s2c).arg \subseteq idxs
      BY <2>2, <2>3, <2>5 DEF SyncIndexes, Heard, Named, ServerLost, Gone
    <3>2. QED
      BY <2>1, <2>5, <3>1 DEF SyncIndexes, ClientCache, session
  <2>6. CASE StoreIdx
    <3>1. Head(s2c).arg \in idxs
      BY <2>2, <2>3, <2>6 DEF StoreIdx, Heard, Named, ServerLost, Gone, ClientCache
    <3>2. QED
      BY <2>1, <2>6, <3>1 DEF StoreIdx, ClientCache, session
  <2>7. CASE SyncDone
    BY <2>1, <2>7 DEF SyncDone, ClientCache, disk
  <2>8. CASE Resume
    BY <2>1, <2>8, NotLoadedIsNone DEF Resume, ClientCache, disk
  <2>9. ASSUME NEW o \in want, Write(o) \/ SeeTree(o)
        PROVE  ClientCache'
    BY <2>1, <2>9, NotLoadedIsNone DEF Write, SeeTree, SendObject, Writing, Snapshot,
                                              ClientCache, disk
  <2>10. ASSUME NEW o \in want, WriteTree(o)
         PROVE  ClientCache'
    <3>1. CASE Exists(o)
      BY <2>1, <2>10, <3>1, NotLoadedIsNone DEF WriteTree, Writing, Snapshot, ClientCache, disk
    <3>2. CASE ~Exists(o)
      <4>1. o \notin pending
        BY <3>2 DEF Exists, Known
      <4>2. QED
        BY <2>1, <2>10, <3>2, <4>1, NotLoadedIsNone
           DEF WriteTree, SendObject, Writing, Snapshot, ClientCache, disk
    <3>3. QED
      BY <3>1, <3>2
  <2>11. CASE Breakpoint \/ CloseWriter \/ RaiseFinish
    BY <2>1, <2>11 DEF Breakpoint, CloseWriter, RaiseFinish, FinishPack, Writing, ClientCache, disk
  <2>12. CASE UpdateRef \/ Updated \/ RaiseQuit \/ ServerLost
    BY <2>1, <2>12 DEF UpdateRef, Updated, RaiseQuit, ServerLost, Quit, Gone, ClientCache, disk
  <2>13. QED
    BY <1>1, <2>4, <2>5, <2>6, <2>7, <2>8, <2>9, <2>10, <2>11, <2>12 DEF ClientNext
<1>2. CASE UNCHANGED client
  <2>1. UNCHANGED <<pc, back, writer, objcache, cachedir>>
    BY <1>2 DEF client, session, disk
  <2>2. CASE pc # "out"
    BY <2>1, <2>2, IndexesStay DEF ClientCache
  <2>3. CASE pc = "out"
    BY <2>1, <2>3 DEF ClientCache, Phase
  <2>4. QED
    BY <2>2, <2>3
<1>3. CASE \E W \in Idxs : Connect(W)
  BY <1>3 DEF Connect, ClientCache, Phase, disk
<1>4. CASE DiskFills \/ Abandon \/ Kill
  BY <1>4 DEF DiskFills, Abandon, Kill, Gone, ClientCache, Phase, disk, session, repository
<1>5. QED
  BY <1>1, <1>2, <1>3, <1>4, ServerStep
     DEF Next, vars, SrvBrokenPipe, OtherSave, OtherGc

-----------------------------------------------------------------------------
(***************************************************************************)
(* What is named, and what is new to the client                            *)
(***************************************************************************)

\* A connection begins with nothing under way but the first command.
LEMMA Connected ==
    ASSUME NEW W \in Idxs, Connect(W)
    PROVE  /\ In(s2c') = {} /\ \A m \in In(c2s') : m.kind = "read-ref"
           /\ pc' = "oldref" /\ srv = "none" /\ pc = "out"
           /\ UNCHANGED <<repository, srvOpen, srvCache, writer, packopen>>
  BY IsMessage, InOne DEF Connect, Signals, Msg, In

\* After a step that is none of the client's or the server's, what a client
\* that talks to its server still knows.
LEMMA OthersLeave ==
    ASSUME [Next]_vars, ~ClientNext, ~ServerNext, Talking'
    PROVE  \/ \E W \in Idxs : Connect(W)
           \/ /\ Talking
              /\ UNCHANGED <<server, session, back, toLoad, cachedir, streams, dedup>>
              /\ pc' = pc \/ (pc = "ready" /\ pc' = "raise")
<1>1. CASE DiskFills \/ Abandon \/ UNCHANGED vars
  BY <1>1 DEF DiskFills, Abandon, Talking, repository, server, client, disk, vars
<1>2. CASE Kill \/ SrvBrokenPipe
  BY <1>2 DEF Kill, Gone, SrvBrokenPipe, SrvExit, Talking
<1>3. CASE (\E P \in OtherIdxs : OtherSave(P)) \/ (\E P \in idxs : OtherGc(P))
  BY <1>3 DEF OtherSave, OtherGc, client, server, disk, Talking
<1>4. QED
  BY <1>1, <1>2, <1>3 DEF Next

\* What may be under way, after a step.
LEMMA UnderWayNext == (Types /\ Phase /\ Streams /\ Talking)' => OnlyAsked'
<1>1. Types /\ Phase /\ Streams /\ Talking => OnlyAsked
  BY UnderWay DEF Streams
<1>2. QED
  BY <1>1, PTL

\* An index named by one end stays in the repository until it is fetched.
LEMMA NamedStep ==
    ASSUME Types, Types', Phase, Phase', Streams, Streams', ServerPack, ServerPack',
           Named, [Next]_vars
    PROVE  Named'
<1> SUFFICES ASSUME Talking'
             PROVE  Named'
  BY DEF Named
<1>1. CASE ClientNext
  <2>1. Talking /\ UNCHANGED idxs
    BY <1>1, ClientTalks, ClientStep
       DEF Streams, Talking, ServerLost, Gone, server, repository
  <2>2. /\ pc' \in {"load", "update"} => In(c2s') = {} /\ In(s2c') = {}
        /\ \A m \in In(s2c') : m.kind = "idx" => pc' = "idx"
        /\ \A m \in In(c2s') : m.kind = "send-index" => pc' = "idx"
    BY UnderWayNext DEF OnlyAsked
  <2>3. pc' \in {"load", "idx"} => toLoad' \subseteq idxs
    <3>1. CASE SyncIndexes
      BY <2>1, <3>1, InStream DEF SyncIndexes, Heard, Named, Types
    <3>2. CASE Suggestions
      <4>1. \A n \in DOMAIN s2c : s2c[n] \in In(s2c)
        BY DEF In, Types
      <4>2. PICK n \in DOMAIN s2c : /\ \A k \in 1..(n - 1) : IsIdxLine(s2c[k])
                                    /\ toLoad' = {s2c[k].arg : k \in 1..(n - 1)}
        BY <3>2 DEF Suggestions
      <4>3. \A k \in 1..(n - 1) : k \in DOMAIN s2c
        BY DEF Types
      <4>4. QED
        BY <2>1, <4>1, <4>2, <4>3 DEF Named
    <3>3. CASE StoreIdx
      BY <2>1, <3>3 DEF StoreIdx, Named
    <3>4. CASE (\E i \in toLoad : RequestIdx(i)) \/ SyncDone \/ Closed \/ RaiseFinished \/ Resume
      BY <2>1, <3>4 DEF RequestIdx, SyncDone, Closed, RaiseFinished, Resume, Named, session
    <3>5. \/ pc' \notin {"load", "idx"} \/ SyncIndexes \/ Suggestions \/ StoreIdx
          \/ (\E i \in toLoad : RequestIdx(i)) \/ SyncDone \/ Closed \/ RaiseFinished \/ Resume
          \/ \E o \in want : SeeTree(o) \/ WriteTree(o)
      BY <1>1 DEF ClientNext, OldRef, EnsurePackwriter, StoreIdxFails, NoInput, Suspend, Write,
                  SendObject, Breakpoint, CloseWriter, UpdateRef, Updated, RaiseFinish,
                  RaiseQuit, Quit, ServerLost, Gone, FinishPack
    <3>6. (\E o \in want : SeeTree(o) \/ WriteTree(o)) => pc' \notin {"load", "idx"}
      BY DEF SeeTree, WriteTree, SendObject, Writing
    <3>7. QED
      BY <3>1, <3>2, <3>3, <3>4, <3>5, <3>6
  <2>4. /\ In(s2c') \subseteq In(s2c)
        /\ \A m \in In(c2s') : m \in In(c2s) \/
              (m.kind = "send-index" => pc' = "idx" /\ pc = "load" /\ m.arg \in toLoad)
    BY <1>1, ClientSays
  <2>5. pc' = "idx" => toLoad' = toLoad
    BY <1>1 DEF ClientNext, OldRef, EnsurePackwriter, SyncIndexes, StoreIdx, Suggestions,
                  RequestIdx, SyncDone, Resume,
                  StoreIdxFails, NoInput, Suspend, Write, SeeTree, WriteTree, Writing,
                  SendObject, Breakpoint, CloseWriter, UpdateRef, Updated, RaiseFinish, RaiseFinished,
                  RaiseQuit, Quit, ServerLost, Gone, FinishPack, Closed
  <2>6. QED
    BY <2>1, <2>2, <2>3, <2>4, <2>5 DEF Named
<1>2. CASE ServerNext
  <2>1. UNCHANGED <<pc, toLoad>> /\ Talking /\ srv' # "none"
    BY <1>2, ServerStep, ServerBusy DEF client, Talking
  <2>2. idxs \subseteq idxs'
    BY <2>1, IndexesStay DEF Talking
  <2>3. SrvSnapshot \subseteq idxs
    BY SnapshotIs
  <2>4. SrvEnd /\ srvOpen # {} => srvOpen \in idxs'
    BY DEF SrvEnd, FinishWriting
  <2>5. In(c2s') \subseteq In(c2s) /\ Head(c2s) \in In(c2s)
    BY <1>2, <2>1, ServerSays
  <2>6. \A m \in In(s2c') : m \in In(s2c) \/
                 /\ m.kind = "list" => m.arg = idxs
                 /\ m.kind = "idx" => Head(c2s).kind = "send-index" /\ m.arg = Head(c2s).arg
                 /\ m.kind = "index" => m.arg \in SrvSnapshot
                 /\ m.kind = "packed" => SrvEnd /\ m.arg = srvOpen /\ srvOpen # {}
    BY <1>2, <2>1, ServerSays
  <2>7. QED
    BY <2>1, <2>2, <2>3, <2>4, <2>5, <2>6 DEF Named, IsIdxLine
<1>3. CASE ~ClientNext /\ ~ServerNext
  <2>1. CASE \E W \in Idxs : Connect(W)
    BY <2>1, Connected DEF Named
  <2>2. CASE /\ Talking
             /\ UNCHANGED <<server, session, back, toLoad, cachedir, streams, dedup>>
             /\ pc' = pc \/ (pc = "ready" /\ pc' = "raise")
    BY <2>2, IndexesStay DEF Talking, Named, streams
  <2>3. QED
    BY <1>3, <2>1, <2>2, OthersLeave
<1>4. QED
  BY <1>1, <1>2, <1>3

\* The client fetches what it has not, and the server suggests and packs what
\* the client could not know.
LEMMA NewStep ==
    ASSUME Types, Types', Phase, Phase', Streams, Streams', ServerPack, ClientCache, Named,
           Suggested, NothingOpen, New, [Next]_vars
    PROVE  New'
<1> SUFFICES ASSUME Talking', dedup'
             PROVE  New'
  BY DEF New
<1>1. CASE ClientNext
  <2>1. Talking /\ UNCHANGED <<srvOpen, srvCache>> /\ dedup
    BY <1>1, ClientTalks, ClientStep
       DEF Streams, Talking, ServerLost, Gone, server, repository
  <2>2. pc' \in {"load", "update"} => In(c2s') = {} /\ In(s2c') = {}
    BY UnderWayNext DEF OnlyAsked
  <2>3. /\ In(s2c') \subseteq In(s2c)
        /\ \A m \in In(c2s') : m \in In(c2s) \/
              (m.kind = "object" => \E o \in want : Writing /\ ~Exists(o) /\ m.arg = {o})
    BY <1>1, ClientSays
  <2>4. Writing => Snapshot = cachedir
    BY DEF Writing, Snapshot, ClientCache
  <2>5. s2c # <<>> => Head(s2c) \in In(s2c)
    BY InStream DEF Types
  <2>6. CASE SyncIndexes
    BY <2>1, <2>2, <2>6 DEF SyncIndexes, New
  <2>7. CASE StoreIdx
    <3>1. Head(s2c).arg \in toLoad /\ pc = "idx" /\ pc' = "load"
      BY <2>1, <2>5, <2>7 DEF StoreIdx, Heard, Named
    <3>2. srvOpen \cap Head(s2c).arg = {}
      <4>1. CASE packopen
        BY <2>1, <3>1, <4>1 DEF Suggested, FromSnapshot, ServerPack
      <4>2. CASE ~packopen
        BY <2>1, <3>1, <4>2 DEF NothingOpen
      <4>3. QED
        BY <4>1, <4>2
    <3>3. QED
      BY <2>1, <2>2, <2>7, <3>1, <3>2 DEF StoreIdx, New
  <2>8. CASE Suggestions
    <3>1. \A n \in DOMAIN s2c : s2c[n] \in In(s2c)
      BY DEF In, Types
    <3>2. PICK n \in DOMAIN s2c : /\ \A k \in 1..(n - 1) : IsIdxLine(s2c[k])
                                  /\ toLoad' = {s2c[k].arg : k \in 1..(n - 1)}
      BY <2>8 DEF Suggestions
    <3>3. \A k \in 1..(n - 1) : k \in DOMAIN s2c
      BY DEF Types
    <3>4. toLoad' \cap cachedir = {} /\ cachedir' = cachedir /\ pc' = "load"
      BY <2>1, <2>8, <3>1, <3>2, <3>3 DEF New, Suggestions, disk
    <3>5. QED
      BY <2>1, <2>2, <3>4 DEF New
  <2>9. CASE ~SyncIndexes /\ ~StoreIdx /\ ~Suggestions
    <3>1. cachedir' = cachedir
      BY <1>1, <2>9 DEF ClientNext, OldRef, EnsurePackwriter, RequestIdx, SyncDone, Resume,
                  StoreIdxFails, NoInput, Suspend, Write, SeeTree, WriteTree,
                  Breakpoint, CloseWriter, UpdateRef, Updated, RaiseFinish, RaiseFinished,
                  RaiseQuit, ServerLost, Gone, Closed, disk
    <3>2. pc' \in {"load", "idx"} => toLoad' = toLoad /\ pc \in {"load", "idx"}
      BY <1>1, <2>9 DEF ClientNext, OldRef, EnsurePackwriter, RequestIdx, SyncDone, Resume,
                  StoreIdxFails, NoInput, Suspend, Write, SeeTree, WriteTree, Writing,
                  SendObject, Breakpoint, CloseWriter, UpdateRef, Updated, RaiseFinish,
                  RaiseFinished, RaiseQuit, Quit, ServerLost, Gone, FinishPack, Closed
    <3>3. \A m \in In(c2s') : m.kind = "object" => m.arg \cap UNION cachedir = {}
      BY <2>1, <2>3, <2>4 DEF New, Exists, Known
    <3>4. QED
      BY <2>1, <2>3, <3>1, <3>2, <3>3 DEF New
  <2>10. QED
    BY <2>6, <2>7, <2>8, <2>9
<1>2. CASE ServerNext
  <2>1. UNCHANGED <<pc, toLoad, cachedir, dedup>> /\ Talking /\ srv' # "none" /\ dedup
    BY <1>2, ServerStep, ServerBusy DEF client, disk, Talking
  <2>2. In(c2s') \subseteq In(c2s) /\ Head(c2s) \in In(c2s)
    BY <1>2, <2>1, ServerSays
  <2>3. \A m \in In(s2c') : m \in In(s2c) \/
            /\ m.kind = "index" => SrvObject /\ \E o \in Head(c2s).arg : o \in m.arg
            /\ m.kind = "packed" => m.arg = srvOpen /\ srvOpen # {}
    BY <1>2, <2>1, ServerSays
  <2>4. SrvObject => Head(c2s).arg \cap UNION cachedir = {}
    BY <2>1, <2>2 DEF SrvObject, Arrived, New
  <2>5. \A m \in In(s2c') : IsIdxLine(m) => m.arg \notin cachedir
    BY <2>1, <2>3, <2>4 DEF New, IsIdxLine
  <2>6. srvOpen' \subseteq srvOpen \cup (IF SrvObject THEN Head(c2s).arg ELSE {})
    <3>1. CASE SrvObject
      BY <3>1 DEF SrvObject, SrvKnows, SrvStore
    <3>2. CASE ~SrvObject
      BY <1>2, <3>2 DEF ServerNext, SrvReadRef, SrvListIndexes, SrvSendIndex, SrvReceive,
         SrvSuspend, SrvEnd, SrvUpdateRef, SrvUpdateRefFails, SrvQuit, SrvAbort,
         SrvUnknownCommand, SrvExit, FinishWriting, server
    <3>3. QED
      BY <3>1, <3>2
  <2>7. QED
    BY <2>1, <2>2, <2>4, <2>5, <2>6 DEF New
<1>3. CASE ~ClientNext /\ ~ServerNext
  <2>1. CASE \E W \in Idxs : Connect(W)
    <3>1. srvOpen' = {}
      BY <2>1, Connected DEF ServerPack
    <3>2. QED
      BY <2>1, <3>1, Connected DEF New, IsIdxLine
  <2>2. CASE /\ Talking
             /\ UNCHANGED <<server, session, back, toLoad, cachedir, streams, dedup>>
             /\ pc' = pc \/ (pc = "ready" /\ pc' = "raise")
    BY <2>2 DEF New, streams, server
  <2>3. QED
    BY <1>3, <2>1, <2>2, OthersLeave
<1>4. QED
  BY <1>1, <1>2, <1>3

\* What a client that suspends an upload reads as suggestions.
LEMMA SuggestionsRead ==
    ASSUME Types, Phase, Dialogue, Talking, Suggestions
    PROVE  /\ c2s = <<>>
           /\ back = "resume" => \A i \in toLoad' : \E m \in In(s2c) : m.kind = "index" /\ i = m.arg
<1>1. PICK n \in DOMAIN s2c : /\ s2c[n].kind = "ok"
                              /\ toLoad' = {s2c[k].arg : k \in 1..(n - 1)}
  BY DEF Suggestions
<1>2. n \in 1..Len(s2c) /\ Len(s2c) \in Nat /\ pc = "suggestions"
  BY EmptyStream DEF Types, Suggestions
<1>3. Ended
  <2>1. ~Suggesting
    BY <1>1, <1>2 DEF Suggesting
  <2>2. s2c # <<>>
    BY <1>2
  <2>3. QED
    BY <1>2, <2>1, <2>2 DEF Dialogue, Ending, Stalled
<1>4. \A k \in 1..(n - 1) : k \in 1..Len(s2c) /\ k \in 1..(Len(s2c) - 1)
  BY ONLY <1>2
<1>5. back = "resume" => \A k \in 1..(n - 1) : s2c[k].kind = "index" /\ s2c[k] \in In(s2c)
  BY <1>3, <1>4 DEF Ended, In
<1>6. QED
  BY <1>1, <1>3, <1>5 DEF Ended

\* What the server suggests while an upload runs stays in its snapshot.
LEMMA SuggestedStep ==
    ASSUME Types, Types', Phase, Phase', Streams, Streams', ServerPack, Suggested, [Next]_vars
    PROVE  Suggested'
<1> SUFFICES ASSUME Talking'
             PROVE  Suggested'
  BY DEF Suggested
<1> packopen \in BOOLEAN /\ packopen' \in BOOLEAN
  BY DEF Types, TypeOK
<1>1. CASE ClientNext
  <2>1. Talking /\ UNCHANGED <<srvCache, dedup>>
    BY <1>1, ClientTalks, ClientStep
       DEF Streams, Talking, ServerLost, Gone, server, repository
  <2>2. \A i : FromSnapshot(i)' <=> FromSnapshot(i)
    BY <2>1 DEF FromSnapshot
  <2>3. In(s2c') \subseteq In(s2c)
    BY <1>1, ClientSays
  <2>4. pc \in {"ready", "raise"} /\ ~packopen => In(s2c) = {}
    BY <2>1, UnderWay DEF OnlyAsked, Streams
  <2>5. CASE Suggestions
    <3>1. /\ back = "resume" => \A i \in toLoad' : \E m \in In(s2c) : m.kind = "index" /\ i = m.arg
      BY <2>1, <2>5, SuggestionsRead DEF Streams
    <3>2. pc = "suggestions" /\ pc' = "load" /\ UNCHANGED <<packopen, back>>
      BY <2>5 DEF Suggestions, session
    <3>3. packopen => back = "resume"
      BY <3>2 DEF Phase
    <3>4. QED
      BY <2>1, <2>2, <2>3, <3>1, <3>2, <3>3 DEF Suggested
  <2>6. CASE ~Suggestions
    <3>1. packopen' /\ pc' \in {"load", "idx"} =>
             packopen /\ pc \in {"load", "idx"} /\ toLoad' \subseteq toLoad
      BY <1>1, <2>6 DEF ClientNext, Phase, OldRef, EnsurePackwriter, SyncIndexes, RequestIdx,
                  SyncDone, Resume, StoreIdx,
                  StoreIdxFails, NoInput, Suspend, Write, SeeTree, WriteTree, Writing,
                  SendObject, Breakpoint, CloseWriter, UpdateRef, Updated, RaiseFinish,
                  RaiseFinished, RaiseQuit, Quit, ServerLost, Gone, FinishPack, Closed, session
    <3>2. packopen' \/ (pc' = "suggestions" /\ c2s' # <<>>) =>
             packopen \/ (pc \in {"ready", "raise"} /\ ~packopen)
      BY <1>1, <2>6 DEF ClientNext, Phase, OldRef, EnsurePackwriter, SyncIndexes, RequestIdx,
                  SyncDone, Resume, StoreIdx,
                  StoreIdxFails, NoInput, Suspend, Write, SeeTree, WriteTree, Writing,
                  SendObject, Breakpoint, CloseWriter, UpdateRef, Updated, RaiseFinish,
                  RaiseFinished, RaiseQuit, Quit, ServerLost, Gone, FinishPack, Closed, session
    <3>3. QED
      BY <2>1, <2>2, <2>3, <2>4, <3>1, <3>2 DEF Suggested
  <2>7. QED
    BY <2>5, <2>6
<1>2. CASE ServerNext
  <2>1. UNCHANGED <<pc, toLoad, packopen, back, dedup>> /\ Talking /\ srv' # "none"
        /\ srv \in {"command", "receive"}
    BY <1>2, ServerStep, ServerBusy DEF client, session, Talking, Types, TypeOK
  <2>2. c2s # <<>>
    BY <1>2, ServerBusy
  <2>3. \A m \in In(s2c') : m \in In(s2c) \/
            (m.kind = "index" => SrvObject /\ \E o \in Head(c2s).arg :
                                    SrvKnows(o) /\ dedup /\ m.arg \in SrvSnapshot)
    BY <1>2, <2>1, ServerSays
  <2>4. CASE SrvReadRef \/ SrvListIndexes \/ SrvSendIndex \/ SrvReceive \/ SrvSuspend
    <3>1. srvCache' = srvCache /\ ~SrvObject
      BY <2>4 DEF SrvReadRef, SrvListIndexes, SrvSendIndex, SrvReceive, SrvSuspend, SrvObject,
                  Asked, Arrived, server
    <3>2. QED
      BY <2>1, <2>2, <2>3, <3>1 DEF Suggested, FromSnapshot
  <2>5. CASE SrvObject
    <3>1. /\ srvCache' = SrvSnapshot \/ (~dedup /\ srvCache' = srvCache)
          /\ \A o \in Head(c2s).arg : SrvKnows(o) => srvCache' = SrvSnapshot
      BY <2>5 DEF SrvObject, SrvKnows, SrvStore
    <3>2. SrvSnapshot # NotLoaded
      BY SnapshotIs
    <3>3. \A i : FromSnapshot(i) => FromSnapshot(i)'
      BY <2>1, <3>1, <3>2 DEF FromSnapshot, SrvSnapshot
    <3>4. \A m \in In(s2c') : m.kind = "index" => m \in In(s2c) \/ FromSnapshot(m.arg)'
      BY <2>1, <2>3, <3>1, <3>2 DEF FromSnapshot
    <3>5. QED
      BY <2>1, <2>2, <3>3, <3>4 DEF Suggested
  <2>6. CASE SrvEnd \/ SrvUpdateRef
    <3>1. ~packopen /\ (pc = "suggestions" => c2s' = <<>>)
      <4>1. CASE SrvEnd
        <5>1. pc = "suggestions" /\ back # "resume" /\ srv' = "command"
          BY <2>1, <2>2, <4>1, Found DEF SrvEnd, Arrived, Streams
        <5>2. Len(c2s) = 1
          BY <2>1, <2>2, <4>1, Found DEF SrvEnd, Arrived, Streams
        <5>3. c2s' = <<>>
          <6>1. c2s' = Tail(c2s)
            BY <4>1 DEF SrvEnd, Reply
          <6>2. QED
            BY <2>2, <5>2, <6>1, Taken, EmptyStream DEF Types
        <5>4. QED
          BY <5>1, <5>3 DEF Phase
      <4>2. CASE SrvUpdateRef
        <5>1. pc = "close"
          BY <2>1, <2>2, <4>2, Found DEF SrvUpdateRef, Asked, Streams, Stalled
        <5>2. QED
          BY <5>1 DEF Phase
      <4>3. QED
        BY <2>6, <4>1, <4>2
    <3>2. QED
      BY <2>1, <3>1 DEF Suggested
  <2>7. CASE SrvUpdateRefFails \/ SrvQuit \/ SrvAbort \/ SrvUnknownCommand
    BY <2>1, <2>7 DEF SrvUpdateRefFails, SrvQuit, SrvAbort, SrvUnknownCommand, SrvExit
  <2>8. QED
    BY <1>2, <2>4, <2>5, <2>6, <2>7 DEF ServerNext
<1>3. CASE ~ClientNext /\ ~ServerNext
  <2>1. CASE \E W \in Idxs : Connect(W)
    BY <2>1, Connected DEF Suggested, Phase
  <2>2. CASE /\ Talking
             /\ UNCHANGED <<server, session, back, toLoad, cachedir, streams, dedup>>
             /\ pc' = pc \/ (pc = "ready" /\ pc' = "raise")
    BY <2>2 DEF Suggested, FromSnapshot, streams, server, session
  <2>3. QED
    BY <1>3, <2>1, <2>2, OthersLeave
<1>4. QED
  BY <1>1, <1>2, <1>3

\* When the client has no upload, the server has no pack open.
LEMMA NothingOpenStep ==
    ASSUME Types, Types', Phase, Phase', Streams, Streams', ServerPack, NothingOpen, [Next]_vars
    PROVE  NothingOpen'
<1> SUFFICES ASSUME Talking', ~packopen', pc' = "suggestions" => c2s' = <<>>
             PROVE  srvOpen' = {}
  BY DEF NothingOpen
<1> packopen \in BOOLEAN /\ packopen' \in BOOLEAN
  BY DEF Types, TypeOK
<1>1. CASE ClientNext
  <2>1. Talking /\ UNCHANGED srvOpen
    BY <1>1, ClientTalks, ClientStep
       DEF Streams, Talking, ServerLost, Gone, server
  <2>2. ~packopen
    <3>1. Append(c2s, Msg("end", {})) # <<>>
      <4>1. Msg("end", {}) \in Message
        BY IsMessage DEF Signals
      <4>2. Append(c2s, Msg("end", {})) \in Seq(Message)
            /\ Len(Append(c2s, Msg("end", {}))) = Len(c2s) + 1 /\ Len(c2s) \in Nat
        BY <4>1, Sent, EmptyStream DEF Types
      <4>3. QED
        BY <4>2, EmptyStream
    <3>2. QED
      BY <1>1, <3>1 DEF ClientNext, Phase, OldRef, EnsurePackwriter, SyncIndexes, RequestIdx,
                  SyncDone, Resume, StoreIdx, Suggestions, Send,
                  StoreIdxFails, NoInput, Suspend, Write, SeeTree, WriteTree, Writing,
                  SendObject, Breakpoint, CloseWriter, UpdateRef, Updated, RaiseFinish, Talking,
                  RaiseFinished, RaiseQuit, Quit, ServerLost, Gone, FinishPack, Closed, session
  <2>3. pc = "suggestions" => Suggestions
    BY <1>1 DEF ClientNext, OldRef, EnsurePackwriter, SyncIndexes, RequestIdx,
                  SyncDone, Resume, StoreIdx,
                  StoreIdxFails, NoInput, Suspend, Write, SeeTree, WriteTree, Writing,
                  Breakpoint, CloseWriter, UpdateRef, Updated, RaiseFinish, Talking,
                  RaiseFinished, RaiseQuit, ServerLost, Gone, Closed
  <2>4. Suggestions => c2s = <<>>
    BY <2>1, SuggestionsRead DEF Streams
  <2>5. QED
    BY <2>1, <2>2, <2>3, <2>4 DEF NothingOpen
<1>2. CASE ServerNext
  <2>1. UNCHANGED <<pc, packopen, back>> /\ Talking /\ srv' # "none" /\ c2s # <<>>
    BY <1>2, ServerStep, ServerBusy DEF client, session, Talking
  <2>2. CASE SrvReadRef \/ SrvListIndexes \/ SrvSendIndex
    <3>1. srvOpen' = srvOpen /\ srv = "command"
          /\ Head(c2s).kind \in {"read-ref", "list-indexes", "send-index"}
      BY <2>2 DEF SrvReadRef, SrvListIndexes, SrvSendIndex, Asked, server
    <3>2. pc # "suggestions"
      BY <2>1, <3>1, Found DEF Streams
    <3>3. QED
      BY <2>1, <3>1, <3>2 DEF NothingOpen
  <2>3. CASE SrvReceive \/ SrvObject
    <3>1. srv' = "receive"
      BY <2>3 DEF SrvReceive, SrvObject, Arrived
    <3>2. pc = "suggestions"
      <4>1. \/ srv = "command" /\ Head(c2s).kind = "receive-objects-v2"
            \/ srv = "receive"
        BY <2>3 DEF SrvReceive, SrvObject, Asked, Arrived
      <4>2. QED
        BY <2>1, <4>1, Found DEF Streams
    <3>3. c2s' # <<>>
      BY <2>1, <3>1, <3>2, EmptyStream
         DEF Streams, Dialogue, Talking, Ending, Ended, Stalled, Types
    <3>4. QED
      BY <2>1, <3>2, <3>3
  <2>4. CASE SrvSuspend
    <3>1. pc = "suggestions" /\ back = "resume"
      BY <2>1, <2>4, Found DEF SrvSuspend, Arrived, Streams
    <3>2. QED
      BY <2>1, <3>1 DEF Phase
  <2>5. CASE SrvEnd \/ SrvUpdateRef \/ SrvUpdateRefFails \/ SrvQuit \/ SrvAbort
             \/ SrvUnknownCommand
    BY <2>5 DEF SrvEnd, SrvUpdateRef, SrvUpdateRefFails, SrvQuit, SrvAbort,
                SrvUnknownCommand, SrvExit, FinishWriting
  <2>6. QED
    BY <1>2, <2>2, <2>3, <2>4, <2>5 DEF ServerNext
<1>3. CASE ~ClientNext /\ ~ServerNext
  <2>1. CASE \E W \in Idxs : Connect(W)
    BY <2>1, Connected DEF ServerPack
  <2>2. CASE /\ Talking
             /\ UNCHANGED <<server, session, back, toLoad, cachedir, streams, dedup>>
             /\ pc' = pc \/ (pc = "ready" /\ pc' = "raise")
    BY <2>2 DEF NothingOpen, streams, server, session
  <2>3. QED
    BY <1>3, <2>1, <2>2, OthersLeave
<1>4. QED
  BY <1>1, <1>2, <1>3

-----------------------------------------------------------------------------
(***************************************************************************)
(* What was sent is kept                                                   *)
(***************************************************************************)

\* What the server is given, and what it has, stays: on its way, in the pack
\* it writes or in an index.
LEMMA KeptStep ==
    ASSUME Types, Types', ServerPack, [Next]_vars, srv # "none", srv' # "none"
    PROVE  /\ Kept \subseteq Kept'
           /\ (UNION idxs) \cup srvOpen \subseteq ((UNION idxs) \cup srvOpen)'
<1>1. InFlight' = UNION {m.arg : m \in {n \in In(c2s') : n.kind = "object"}}
  BY DEF InFlight, In
<1>2. idxs \subseteq idxs' /\ UNION idxs \subseteq UNION idxs'
  <2>1. idxs \subseteq idxs'
    BY IndexesStay
  <2>2. QED
    BY <2>1
<1>3. CASE ClientNext
  BY <1>1, <1>2, <1>3, ClientStep, ClientSays, InFlightIs DEF Kept, server
<1>4. CASE ServerNext
  <2>1. InFlight \subseteq InFlight' \cup (IF Head(c2s).kind = "object" THEN Head(c2s).arg ELSE {})
    <3>1. In(c2s) = {Head(c2s)} \cup In(c2s')
      BY <1>4, ServerSays
    <3>2. QED
      BY <1>1, <3>1, InFlightIs
  <2>2. CASE SrvReadRef \/ SrvListIndexes \/ SrvSendIndex \/ SrvReceive \/ SrvSuspend
    <3>1. srvOpen' = srvOpen /\ Head(c2s).kind # "object"
      BY <2>2 DEF SrvReadRef, SrvListIndexes, SrvSendIndex, SrvReceive, SrvSuspend, Asked, Arrived,
                  server
    <3>2. QED
      BY <1>2, <2>1, <3>1 DEF Kept
  <2>3. CASE SrvObject
    <3>1. PICK o \in Head(c2s).arg :
             IF dedup /\ o \in UNION SrvSnapshot THEN SrvKnows(o) ELSE SrvStore(o)
      BY <2>3 DEF SrvObject
    <3>2. Head(c2s).arg = {o}
      <4>1. Head(c2s) \in Message /\ Head(c2s).kind = "object"
        BY <2>3, Taken DEF SrvObject, Arrived, Types
      <4>2. PICK p \in Objects : Head(c2s).arg = {p}
        BY <4>1, MessageArg
      <4>3. QED
        BY <3>1, <4>2
    <3>3. o \in (UNION idxs') \cup srvOpen' /\ srvOpen \subseteq srvOpen'
      <4>1. CASE o \in UNION SrvSnapshot /\ SrvKnows(o)
        BY <1>2, <4>1, SnapshotIs DEF SrvKnows
      <4>2. CASE SrvStore(o)
        <5>1. srvOpen' = srvOpen \cup {o}
          BY <4>2 DEF SrvStore
        <5>2. QED
          BY <5>1
      <4>3. QED
        BY <3>1, <4>1, <4>2
    <3>4. QED
      <4>1. InFlight \subseteq InFlight' \cup {o}
        BY <2>1, <3>2
      <4>2. QED
        BY <1>2, <3>3, <4>1 DEF Kept
  <2>4. CASE SrvEnd \/ SrvUpdateRef
    <3>1. Head(c2s).kind # "object" /\ srvOpen \subseteq UNION idxs'
      BY <2>4 DEF SrvEnd, SrvUpdateRef, Asked, Arrived, FinishWriting
    <3>2. InFlight \subseteq InFlight'
      BY <2>1, <3>1
    <3>3. QED
      BY <1>2, <3>1, <3>2 DEF Kept
  <2>5. QED
    BY <1>4, <2>2, <2>3, <2>4 DEF ServerNext, SrvUpdateRefFails, SrvQuit, SrvAbort,
                SrvUnknownCommand, SrvExit
<1>5. CASE ~ClientNext /\ ~ServerNext
  <2>1. CASE UNCHANGED <<server, c2s>>
    BY <1>1, <1>2, <2>1, InFlightIs DEF Kept, server
  <2>2. CASE Kill
    <3>1. UNCHANGED server /\ c2s' = Append(c2s, Msg("eof", {})) /\ Msg("eof", {}) \in Message
      BY <2>2, IsMessage DEF Kill, Gone, Signals
    <3>2. In(c2s) \subseteq In(c2s')
      BY <3>1, InAdded DEF Types
    <3>3. QED
      BY <1>1, <1>2, <3>1, <3>2, InFlightIs DEF Kept, server
  <2>3. QED
    BY <1>5, <2>1, <2>2 DEF Next, Connect, DiskFills, Abandon, SrvBrokenPipe, SrvExit,
                            OtherSave, OtherGc, vars, streams
<1>6. QED
  BY <1>3, <1>4, <1>5

\* What the client counts on when it moves the branch stays there.
LEMMA SecuredStep ==
    ASSUME Types, Types', Phase, Phase', Streams, Streams', ServerPack, ClientCache, Secured,
           [Next]_vars
    PROVE  Secured'
<1> SUFFICES ASSUME srv' # "none"
             PROVE  Secured'
  BY DEF Secured
<1>1. CASE srv # "none" /\ pc # "out" /\ ClientNext
  <2>1. Kept \subseteq Kept' /\ (UNION idxs) \cup srvOpen \subseteq ((UNION idxs) \cup srvOpen)'
    BY <1>1, KeptStep
  <2>2. /\ \A m \in In(c2s') : m \in In(c2s) \/
              /\ m.kind = "update-ref" => UpdateRef /\ m.arg.new = want
              /\ m.kind = "object" => m.arg \subseteq want
        /\ In(c2s) \subseteq In(c2s')
    BY <1>1, ClientSays
  <2>3. InFlight' = UNION {m.arg : m \in {n \in In(c2s') : n.kind = "object"}}
    BY DEF InFlight, In
  <2>4. ASSUME NEW o, SendObject(o), o \in Objects
        PROVE  o \in Kept' /\ pending' = pending \cup {o}
    <3>1. Msg("object", {o}) \in In(c2s')
      <4>1. Msg("object", {o}) \in Message /\ Msg("receive-objects-v2", {}) \in Message
        BY <2>4, IsMessage DEF Signals
      <4> DEFINE begin == IF packopen THEN <<>> ELSE <<Msg("receive-objects-v2", {})>>
      <4>2. begin \in Seq(Message)
        BY <4>1, One, EmptySeq
      <4>3. c2s' = (c2s \o begin) \o <<Msg("object", {o})>>
        BY <2>4 DEF SendObject
      <4> HIDE DEF begin
      <4>4. c2s \o begin \in Seq(Message)
        BY <4>2, Joined DEF Types
      <4>5. QED
        BY <4>1, <4>3, <4>4, InJoinedOne
    <3>2. o \in InFlight'
      BY <2>3, <3>1 DEF Msg
    <3>3. pending' = pending \cup {o}
      BY <2>4 DEF SendObject
    <3>4. o \in Kept'
      BY <3>2 DEF Kept
    <3>5. QED
      BY <3>3, <3>4
  <2>5. pending' \subseteq pending \cup Kept'
    <3>1. CASE \E o \in want : Write(o) \/ WriteTree(o)
      <4>1. PICK o \in want : Write(o) \/ WriteTree(o)
        BY <3>1
      <4>2. o \in Objects
        BY DEF Types, TypeOK
      <4>3. SendObject(o) \/ pending' = pending
        BY <4>1 DEF Write, WriteTree
      <4>4. QED
        BY <2>4, <4>2, <4>3
    <3>2. CASE ~(\E o \in want : Write(o) \/ WriteTree(o))
      BY <1>1, <3>2 DEF ClientNext, OldRef, EnsurePackwriter, SyncIndexes, RequestIdx,
                  SyncDone, Resume, StoreIdx, Suggestions,
                  StoreIdxFails, NoInput, Suspend, SeeTree,
                  Breakpoint, CloseWriter, UpdateRef, Updated, RaiseFinish,
                  RaiseFinished, RaiseQuit, ServerLost, Gone, Closed, session
    <3>3. QED
      BY <3>1, <3>2
  <2>6. \/ UNCHANGED want
           /\ (pc = "update" \/ (pc \in {"suggestions", "load", "idx"} /\ back = "update"))
        \/ UNCHANGED want /\ CloseWriter
        \/ ~(pc' = "update" \/ (pc' \in {"suggestions", "load", "idx"} /\ back' = "update"))
    BY <1>1 DEF ClientNext, OldRef, EnsurePackwriter, SyncIndexes, RequestIdx,
                  SyncDone, Resume, StoreIdx, Suggestions, Send,
                  StoreIdxFails, NoInput, Suspend, Write, SeeTree, WriteTree, Writing,
                  SendObject, Breakpoint, UpdateRef, Updated, RaiseFinish, CloseWriter,
                  RaiseFinished, RaiseQuit, Quit, ServerLost, Gone, FinishPack, Closed, session
  <2>7. CloseWriter => want \subseteq Kept
    <3>1. CloseWriter => want \subseteq pending \cup UNION cachedir /\ writer
      BY DEF CloseWriter, Exists, Known, Snapshot, ClientCache, Writing
    <3>2. QED
      BY <1>1, <3>1 DEF Kept, Secured, ClientCache
  <2>8. UpdateRef => want \subseteq (UNION idxs) \cup srvOpen
    <3>1. UpdateRef => InFlight = {}
      BY <1>1, UnderWay, InFlightIs DEF UpdateRef, OnlyAsked, Talking, Streams
    <3>2. QED
      BY <1>1, <3>1 DEF UpdateRef, Secured, Kept
  <2>9. QED
    BY <1>1, <2>1, <2>2, <2>5, <2>6, <2>7, <2>8 DEF Secured
<1>2. CASE srv # "none" /\ ~(pc # "out" /\ ClientNext) /\ ~(\E W \in Idxs : Connect(W))
  <2>1. Kept \subseteq Kept' /\ (UNION idxs) \cup srvOpen \subseteq ((UNION idxs) \cup srvOpen)'
    BY <1>2, KeptStep
  <2>2. ~ClientNext
    BY <1>2 DEF ClientNext, OldRef, EnsurePackwriter, SyncIndexes, RequestIdx,
                  SyncDone, Resume, StoreIdx, Suggestions,
                  StoreIdxFails, NoInput, Suspend, Write, SeeTree, WriteTree, Writing,
                  Breakpoint, CloseWriter, UpdateRef, Updated, RaiseFinish,
                  RaiseFinished, RaiseQuit, ServerLost, Gone, Closed
  <2>3. \A m \in In(c2s') : m.kind = "update-ref" => m \in In(c2s)
    <3>1. CASE ServerNext
      BY <1>2, <3>1, ServerSays
    <3>2. CASE Kill
      <4>1. c2s' = Append(c2s, Msg("eof", {})) /\ Msg("eof", {}) \in Message
        BY <3>2, IsMessage DEF Kill, Gone, Signals
      <4>2. In(c2s') = In(c2s) \cup {Msg("eof", {})}
        BY <4>1, InAdded DEF Types
      <4>3. QED
        BY <4>2 DEF Msg
    <3>3. CASE UNCHANGED c2s
      BY <3>3
    <3>4. QED
      BY <1>2, <2>2, <3>1, <3>2, <3>3
         DEF Next, DiskFills, Abandon, SrvBrokenPipe, SrvExit, OtherSave, OtherGc, vars, streams
  <2>4. /\ UNCHANGED <<pending, want, back>>
        /\ pc' = pc \/ (pc' \in {"out", "raise"} /\ pc # "out")
    BY <1>2, <2>2, ServerStep
       DEF Next, DiskFills, Abandon, Kill, Gone, SrvBrokenPipe, OtherSave, OtherGc, vars, client,
           session
  <2>5. pc' # "out" => pending' \subseteq Kept'
    BY <1>2, <2>1, <2>4 DEF Secured
  <2>6. pc' = "update" \/ (pc' \in {"suggestions", "load", "idx"} /\ back' = "update") =>
           want' \subseteq Kept'
    BY <1>2, <2>1, <2>4 DEF Secured
  <2>7. \A m \in In(c2s') : m.kind = "update-ref" =>
           m.arg.new \subseteq ((UNION idxs) \cup srvOpen)'
    BY <1>2, <2>1, <2>3 DEF Secured
  <2>8. QED
    BY <2>5, <2>6, <2>7 DEF Secured
<1>3. CASE \E W \in Idxs : Connect(W)
  <2>1. pending' = {} /\ pc' = "oldref"
    BY <1>3 DEF Connect
  <2>2. \A m \in In(c2s') : m.kind # "update-ref"
    BY <1>3, Connected
  <2>3. QED
    BY <2>1, <2>2 DEF Secured
<1>4. CASE srv = "none" /\ ~(\E W \in Idxs : Connect(W))
  <2>1. srv' = "none"
    BY <1>4, ServerBusy, ClientStep
       DEF Next, DiskFills, Abandon, Kill, Gone, SrvBrokenPipe, OtherSave, OtherGc, vars, server
  <2>2. QED
    BY <2>1
<1>5. QED
  BY <1>1, <1>2, <1>3, <1>4

\* The branch moves to what is there when it moves.
LEMMA RefCompleteStep ==
    ASSUME Types, Secured, RefComplete, [Next]_vars
    PROVE  RefComplete'
<1> USE DEF RefComplete
<1>1. CASE ServerNext
  <2>1. idxs \subseteq idxs'
    BY <1>1, ServerBusy, IndexesStay
  <2>2. CASE SrvUpdateRef
    <3>1. Head(c2s) \in In(c2s) /\ Head(c2s).kind = "update-ref" /\ srv # "none"
      BY <2>2, InStream DEF SrvUpdateRef, Asked, Types
    <3>2. ref' \subseteq (UNION idxs) \cup srvOpen
      BY <2>2, <3>1 DEF SrvUpdateRef, Secured
    <3>3. idxs' = idxs \cup ({srvOpen} \ {{}})
      BY <2>2 DEF SrvUpdateRef, FinishWriting
    <3>4. srvOpen \subseteq UNION idxs' /\ UNION idxs \subseteq UNION idxs'
      BY <3>3
    <3>5. (UNION idxs) \cup srvOpen \subseteq UNION idxs'
      BY <3>4
    <3>6. QED
      BY <3>2, <3>5
  <2>3. CASE ~SrvUpdateRef
    <3>1. ref' = ref
      BY <1>1, <2>3 DEF ServerNext, SrvReadRef, SrvListIndexes, SrvSendIndex, SrvReceive, SrvObject,
         SrvSuspend, SrvEnd, SrvUpdateRefFails, SrvQuit, SrvAbort,
         SrvUnknownCommand, repository
    <3>2. QED
      BY <2>1, <3>1
  <2>4. QED
    BY <2>2, <2>3
<1>2. CASE SrvBrokenPipe
  BY <1>2 DEF SrvBrokenPipe, SrvExit, FinishWriting
<1>3. CASE (\E P \in OtherIdxs : OtherSave(P)) \/ (\E P \in idxs : OtherGc(P))
  BY <1>3 DEF OtherSave, OtherGc
<1>4. CASE UNCHANGED repository
  BY <1>4 DEF repository
<1>5. QED
  BY <1>1, <1>2, <1>3, <1>4, ClientStep
     DEF Next, Connect, DiskFills, Abandon, Kill, Gone, vars

-----------------------------------------------------------------------------
(***************************************************************************)
(* The theorems                                                            *)
(***************************************************************************)

\* It begins so: nothing runs and nothing is under way.
LEMMA InitInvariant == Init => IInv
<1> SUFFICES ASSUME Init
             PROVE  IInv
  OBVIOUS
<1>1. Types
  <2>1. c2s \in Seq(Message) /\ s2c \in Seq(Message) /\ DOMAIN c2s = {} /\ DOMAIN s2c = {}
    BY DEF Init
  <2>2. idxs \subseteq Idxs
    BY ProtocolParameters DEF Init, Idxs
  <2>3. 0 \in 0..PackLimit /\ 0 \in 0..MaxSessions /\ 0 \in 0..MaxFaults /\ 0 \in 0..MaxOthers
    BY ProtocolParameters
  <2>4. StateTypes
    BY <2>2, <2>3 DEF Init, StateTypes, RepositoryTypes, ServerTypes, ClientTypes, BoundTypes
  <2>5. QED
    BY <2>1, <2>4, TypesSplit DEF StreamTypes
<1>2. Phase /\ Dialogue /\ Draining /\ Alone
  BY DEF Init, Phase, Dialogue, Draining, Alone, Talking
<1>3. ServerPack /\ ClientCache /\ Named /\ New /\ Suggested /\ NothingOpen /\ Secured
  BY DEF Init, ServerPack, ClientCache, Named, New, Suggested, NothingOpen, Secured, Talking
<1>4. RefComplete
  BY DEF Init, RefComplete
<1>5. QED
  BY <1>1, <1>2, <1>3, <1>4 DEF IInv

\* And every step keeps it.
LEMMA StepInvariant == IInv /\ [Next]_vars => IInv'
<1> SUFFICES ASSUME IInv, [Next]_vars
             PROVE  IInv'
  OBVIOUS
<1> USE DEF IInv
<1>1. Types' /\ Phase'
  BY TypesStep, PhaseStep
<1>2. Streams /\ Streams'
  BY <1>1, StreamsStep DEF Streams
<1>3. ServerPack'
  BY <1>1, ServerPackStep
<1>4. ClientCache'
  BY <1>1, ClientCacheStep
<1>5. Named'
  BY <1>1, <1>2, <1>3, NamedStep
<1>6. New'
  BY <1>1, <1>2, NewStep
<1>7. Suggested' /\ NothingOpen'
  BY <1>1, <1>2, SuggestedStep, NothingOpenStep
<1>8. Secured' /\ RefComplete'
  BY <1>1, <1>2, SecuredStep, RefCompleteStep
<1>9. QED
  BY <1>1, <1>2, <1>3, <1>4, <1>5, <1>6, <1>7, <1>8 DEF Streams

\* The inductive invariant holds throughout.
LEMMA Invariant == Spec => []IInv
  BY InitInvariant, StepInvariant, PTL DEF Spec

\* Whatever client and server do, their variables are of the types given.
THEOREM TypeCorrect == Spec => []TypeOK
<1>1. IInv => TypeOK
  BY DEF IInv, Types
<1>2. QED
  BY <1>1, Invariant, PTL

\* update_ref never names a commit whose objects are not in finished packs,
\* however client, server and other processes are killed and interleave.
THEOREM RefIsComplete == Spec => []RefComplete
<1>1. IInv => RefComplete
  BY DEF IInv
<1>2. QED
  BY <1>1, Invariant, PTL

\* What exists tells a client is there is on the server, in the pack the
\* server writes or on its way, so that nothing a client leaves out is lost.
THEOREM ClientKnowsWhatIsKept == Spec => []KnownIsKept
<1>1. IInv => KnownIsKept
  <2> SUFFICES ASSUME IInv, writer, srv # "none"
               PROVE  Known \subseteq Kept
    BY DEF KnownIsKept, Kept
  <2>1. pc # "out"
    BY DEF IInv, Phase
  <2>2. Snapshot \subseteq idxs
    BY DEF Snapshot, IInv, ClientCache
  <2>3. pending \subseteq Kept
    BY <2>1 DEF IInv, Secured
  <2>4. QED
    BY <2>2, <2>3 DEF Known, Kept
<1>2. QED
  BY <1>1, Invariant, PTL

\* sync_index is not asked for an index the cache has by a server that
\* deduplicates, and the snapshot is there when an upload is suspended.
THEOREM SuggestionsSafe == Spec => []SuggestionsAreSafe
<1>1. IInv => SuggestionsAreSafe
  <2> SUFFICES ASSUME IInv
               PROVE  SuggestionsAreSafe
    OBVIOUS
  <2>1. pc = "input" => objcache # NotLoaded
    BY DEF IInv, ClientCache
  <2>2. ASSUME dedup, pc = "load"
        PROVE  toLoad \cap cachedir = {}
    <3>1. srv # "none"
      BY <2>2 DEF IInv, Alone
    <3>2. QED
      BY <2>2, <3>1 DEF IInv, New, Talking
  <2>3. QED
    BY <2>1, <2>2 DEF SuggestionsAreSafe
<1>2. QED
  BY <1>1, Invariant, PTL

\* The server takes nothing of an upload for a command and the client reads
\* no call's answer for another's, as long as the index cache can be written.
THEOREM BothInSync == Spec => []InSync
<1>1. IInv => InSync
  <2> SUFFICES ASSUME IInv, ~diskFull
               PROVE  InSync
    BY DEF InSync
  <2>0. Types /\ Phase /\ Dialogue /\ Draining /\ Alone
    BY DEF IInv
  <2>1. ASSUME c2s # <<>>, srv # "none"
        PROVE  /\ srv = "command" => Head(c2s).kind \in Commands \cup {"eof"}
               /\ srv = "receive" => Head(c2s).kind \in {"object", "suspend", "end", "eof"}
    <3>1. CASE Talking
      BY <2>0, <2>1, <3>1, Found DEF Stalled, Commands
    <3>2. CASE pc = "out"
      BY <2>0, <2>1, <3>2, Remains DEF Commands
    <3>3. QED
      BY <2>1, <3>1, <3>2 DEF Talking
  <2>2. ASSUME pc \in DOMAIN Expected, s2c # <<>>
        PROVE  Head(s2c).kind \in Expected[pc] \cup {"eof"}
    <3>1. pc \in {"oldref", "list", "idx", "suggestions", "close"}
      BY <2>2 DEF Expected
    <3>2. Head(s2c) = s2c[1] /\ Len(s2c) \in Nat /\ Len(s2c) >= 1
      BY <2>0, <2>2, Taken, EmptyStream DEF Types
    <3>3. CASE srv = "none"
      BY <2>0, <3>1, <3>2, <3>3 DEF Alone
    <3>4. CASE Talking /\ pc # "suggestions"
      BY <2>0, <2>2, <3>1, <3>2, <3>4 DEF Dialogue, Calling, Expected
    <3>5. CASE Talking /\ pc = "suggestions"
      <4>1. Expected[pc] = {"index", "packed", "ok"}
        BY <3>5 DEF Expected
      <4>2. Ending(IF back = "resume" THEN "suspend" ELSE "end") \/ Ended
        BY <2>0, <2>2, <3>5 DEF Dialogue, Stalled
      <4>3. CASE Suggesting
        BY <3>2, <4>1, <4>3 DEF Suggesting
      <4>4. CASE Ended
        <5>1. CASE Len(s2c) = 1
          BY <3>2, <4>1, <4>4, <5>1 DEF Ended
        <5>2. CASE Len(s2c) # 1
          <6>1. 1 \in 1..(Len(s2c) - 1)
            BY ONLY <3>2, <5>2
          <6>2. QED
            BY <3>2, <4>1, <4>4, <6>1 DEF Ended, IsIdxLine
        <5>3. QED
          BY <5>1, <5>2
      <4>5. QED
        BY <4>2, <4>3, <4>4 DEF Ending
    <3>6. QED
      BY <3>1, <3>3, <3>4, <3>5 DEF Talking
  <2>3. QED
    BY <2>1, <2>2 DEF InSync
<1>2. QED
  BY <1>1, Invariant, PTL

===============================================================================
