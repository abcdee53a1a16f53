--------------------------- MODULE PersistentLink ---------------------------
(***************************************************************************)
(* One permanent link and its waiting room (src/server/core/               *)
(* persistentSessions.ts, persistentSessionWs.ts and                       *)
(* persistentSessionEntryGateway.ts, and the end of a session in           *)
(* sessions.ts), on server instances that share Valkey.                    *)
(*                                                                         *)
(* Valkey holds the link's record, which points to the live session the    *)
(* link currently leads to, a reverse index from live sessions to links,   *)
(* and the live sessions.  Each instance holds the sockets that wait.  A   *)
(* call is one invocation of a handler; each of its program points in      *)
(* Commands awaits one Valkey command.                                     *)
(*                                                                         *)
(*   join    a socket connects to the waiting room                         *)
(*   verify  a teacher proves the code on a socket: starts a session       *)
(*   end     DELETE /api/session/:id                                       *)
(*   enter   GET .../:hash or .../:hash/entry: what a visitor should see   *)
(*   edit    the link's options are changed (POST create and update first  *)
(*           read, and write back, as an enter does)                       *)
(*   enroll, redeem   an entry participant is handed in, and taken out     *)
(*   sweep   an instance's cleanup timer                                   *)
(*   remove  POST /api/persistent-session/remove: the link is given up     *)
(***************************************************************************)
EXTENDS Pipeline, FiniteSets

CONSTANTS
    Nodes, Calls,
    At,           \* the instance a call runs on
    Socket,       \* the socket (named by its join call) a verify came in on
    Scenes,       \* the situations to start from
    None, NoRecord

Kinds == {"join", "verify", "end", "enter", "edit", "enroll", "redeem", "sweep",
          "remove"}

\* What each call does, none included; the sockets that wait already; whether live
\* sessions may outlive their time; and a bound on the connection losses with
\* commands rejected.
Scene == [kind : [Calls -> Kinds \cup {"none"}], here : SUBSET Calls,
          lapsing : BOOLEAN, losses : Nat]

ASSUME ConstantsOK ==
    /\ Scenes \subseteq Scene /\ At \in [Calls -> Nodes] /\ Socket \in [Calls -> Calls]
    /\ \A sc \in Scenes : \A p \in Calls :
          /\ p \in sc.here => sc.kind[p] = "join"
          /\ sc.kind[p] = "verify" => sc.kind[Socket[p]] = "join" /\ At[Socket[p]] = At[p]
    /\ None \notin Calls

VARIABLES
    scene,    \* the situation
    record,   \* the link's record, or NoRecord
    index,    \* live sessions that have a reverse index entry
    live,     \* live sessions, named by the verify call that created them
    conn,     \* each instance's connection
    waiting,  \* each instance's waiting sockets
    open,     \* sockets that are connected
    pc, rec,  \* where a call stands, and the record it read and writes back
    subject,  \* the session an end is about, the entry a redeem is about
    failed,   \* calls whose command was rejected
    failures,
    dropped,  \* history: live sessions that were deleted
    told,     \* history: the sessions a socket was sent to
    authed,   \* history: verifies that reported success
    broken,   \* history: verifies that reported a failed start
    rolledBack, \* history: those of them whose rollback was confirmed
    linked,   \* history: verifies whose session was written to the record
    writer,   \* history: the call that wrote the record last
    issued    \* history: entries handed in

valkey  == <<record, index, live>>
links   == <<linked, writer, dropped>>
history == <<told, authed, broken, rolledBack, links, issued>>
vars    == <<scene, valkey, conn, waiting, open, pc, rec, subject, failed, failures, history>>

Kind(p) == scene.kind[p]

\* Sockets are named by the join that opened them, sessions by their verify.
Joins    == {p \in Calls : Kind(p) = "join"}
Sessions == {p \in Calls : Kind(p) = "verify"}

\* The other fields of the record do not matter here.
Record == [link : Calls \cup {None}, entries : SUBSET Calls]
NewRecord == [link |-> None, entries |-> {}]

ASSUME NoRecordOK == NoRecord \notin Record

RecordReads == {"join.get", "join.started", "join.id", "verify.get", "start.get", "end.record",
                "end.find", "reset.get", "enter.get", "enter.again", "edit.get", "sweep.get",
                "remove.get"}
Commands == RecordReads \cup
    {"join.put", "enter.put", "start.put", "reset.put", "edit.put", "enroll.put",
     "start.index", "edit.index", "end.backfill",
     "start.unindex", "reset.unindex", "end.unindex",
     "verify.create", "rollback", "verify.drop", "end.drop", "end.index", "end.scan",
     "sweep.scan", "enter.live", "sweep.del",
     "enter.back", "enter.index", "again.back", "again.index", "remove.unindex", "remove.del"}

TypeOK ==
    /\ scene \in Scenes
    /\ record \in Record \cup {NoRecord}
    /\ index \subseteq Sessions /\ live \subseteq Sessions
    /\ conn \in [Nodes -> [sent : Seq(Calls), back : Seq(Calls), ready : SUBSET Calls]]
    /\ waiting \in [Nodes -> SUBSET Joins] /\ open \subseteq Joins
    /\ pc \in [Calls -> Commands \cup {"idle", "done"}]
    /\ rec \in [Calls -> Record \cup {NoRecord}]
    /\ subject \in [Calls -> Calls \cup {None}]
    /\ failed \subseteq Calls /\ failures \in Nat
    /\ dropped \subseteq Sessions
    /\ told \in [Calls -> SUBSET (Sessions \cup {None})]
    /\ authed \subseteq Sessions /\ broken \subseteq Sessions /\ rolledBack \subseteq broken
    /\ linked \subseteq Sessions /\ writer \in Calls \cup {None}
    /\ issued \subseteq Calls

\* Sockets that wait found or made a record.
Init ==
    /\ scene \in Scenes
    /\ record \in IF scene.here = {} THEN {NoRecord, NewRecord} ELSE {NewRecord}
    /\ index = {} /\ live = {}
    /\ conn = [n \in Nodes |-> Quiet]
    /\ waiting = [n \in Nodes |-> {j \in scene.here : At[j] = n}] /\ open = scene.here
    /\ pc = [p \in Calls |-> IF p \in scene.here THEN "done" ELSE "idle"]
    /\ rec = [p \in Calls |-> NoRecord]
    /\ subject = [p \in Calls |-> None]
    /\ failed = {} /\ failures = 0
    /\ dropped = {} /\ told = [j \in Calls |-> {}]
    /\ authed = {} /\ broken = {} /\ rolledBack = {}
    /\ linked = {} /\ writer = None /\ issued = {}
-----------------------------------------------------------------------------
(* Steps of a call                                                         *)

\* p's next command is c (a call that is answered leaves its reply behind) ...
Send(p, c) ==
    /\ pc' = [pc EXCEPT ![p] = c]
    /\ conn' = [conn EXCEPT ![At[p]] = Submit(Resumed(@, p), p)]
    /\ failed' = failed \ {p}

\* ... or it returns.
Return(p) ==
    /\ pc' = [pc EXCEPT ![p] = "done"]
    /\ conn' = [conn EXCEPT ![At[p]] = Resumed(@, p)]
    /\ failed' = failed \ {p}

\* The record p holds from here on: the object it read, with its changes.
Hold(p, r) == rec' = [rec EXCEPT ![p] = r]

Either(p, c) == pc[p] = c /\ p \in conn[At[p]].ready
Ok(p, c)     == Either(p, c) /\ p \notin failed
Fails(p, c)  == Either(p, c) /\ p \in failed

\* What the read of p yields: get swallows a failure and answers null.
Got(p) == IF p \in failed THEN NoRecord ELSE rec[p]

Begin(p, kind) == pc[p] = "idle" /\ Kind(p) = kind /\ Free(conn[At[p]])

LeaveRoom   == UNCHANGED <<waiting, open, told>>
LeaveStarts == UNCHANGED <<authed, broken, rolledBack>>
LeaveEntries == UNCHANGED issued
Frame == UNCHANGED <<scene, valkey, links, failures>>
-----------------------------------------------------------------------------
(* Calls begin                                                             *)

Connect(p) ==
    /\ Begin(p, "join")
    /\ open' = open \cup {p}
    /\ Send(p, "join.get")
    /\ UNCHANGED <<rec, subject, waiting, told>> /\ LeaveStarts /\ LeaveEntries /\ Frame

\* A teacher may send the code as soon as the socket is open.
Verify(p) ==
    /\ Begin(p, "verify") /\ Socket[p] \in open
    /\ Send(p, "verify.get")
    /\ UNCHANGED <<rec, subject>> /\ LeaveRoom /\ LeaveStarts /\ LeaveEntries /\ Frame

\* A session is ended by someone it was made known to, while it is live.
End(p) ==
    /\ Begin(p, "end")
    /\ \E s \in live : (\E j \in Joins : s \in told[j]) /\ subject' = [subject EXCEPT ![p] = s]
    /\ Send(p, "end.index")
    /\ UNCHANGED rec /\ LeaveRoom /\ LeaveStarts /\ LeaveEntries /\ Frame

\* A redeem names an entry that was handed in.
Redeem(p) ==
    /\ Begin(p, "redeem")
    /\ \E e \in issued : subject' = [subject EXCEPT ![p] = e]
    /\ Send(p, "edit.get")
    /\ UNCHANGED rec /\ LeaveRoom /\ LeaveStarts /\ LeaveEntries /\ Frame

\* The remaining calls have no argument that matters.
Request(p) ==
    /\ \/ Begin(p, "enter") /\ Send(p, "enter.get")
       \/ (Begin(p, "edit") \/ Begin(p, "enroll")) /\ Send(p, "edit.get")
       \/ Begin(p, "sweep") /\ Send(p, "sweep.scan")
       \/ Begin(p, "remove") /\ Send(p, "remove.get")
    /\ UNCHANGED <<rec, subject>> /\ LeaveRoom /\ LeaveStarts /\ LeaveEntries /\ Frame

Start(p) == Connect(p) \/ Verify(p) \/ End(p) \/ Redeem(p) \/ Request(p)
-----------------------------------------------------------------------------
(* Valkey executes a command                                               *)

Answer(p, r) == Hold(p, r)
Present(b) == IF b THEN NewRecord ELSE NoRecord

ExecRead(p) ==
    /\ \/ pc[p] \in RecordReads /\ Answer(p, record)
       \/ pc[p] = "end.index" /\ Answer(p, Present(subject[p] \in index))
       \/ pc[p] \in {"end.scan", "sweep.scan"} /\ Answer(p, Present(record # NoRecord))
       \* the answer of enter.live decides where the call goes on
       \/ pc[p] = "enter.live" /\ Answer(p, IF rec[p].link \in live THEN rec[p] ELSE NoRecord)
    /\ UNCHANGED <<valkey, links>>

ExecPut(p) ==
    /\ pc[p] \in {"join.put", "enter.put", "start.put", "reset.put", "edit.put", "enroll.put",
                  "enter.back", "again.back"}
    /\ record' = rec[p] /\ writer' = p
    /\ linked' = IF pc[p] = "start.put" THEN linked \cup {p} ELSE linked
    /\ UNCHANGED <<index, live, dropped, rec>>

ExecIndex(p) ==
    /\ \/ /\ pc[p] \in {"start.index", "edit.index", "enter.index", "again.index"}
          /\ index' = index \cup {rec[p].link}
       \/ pc[p] = "end.backfill" /\ index' = index \cup {subject[p]}
       \/ /\ pc[p] \in {"start.unindex", "reset.unindex", "remove.unindex"}
          /\ index' = index \ {rec[p].link}
       \/ pc[p] = "end.unindex" /\ index' = index \ {subject[p]}
    /\ UNCHANGED <<record, live, links, rec>>

\* Mutant of ClearLink: whatever the record points at is cleared.
ClearLink_Any(r, s) == IF r = NoRecord THEN r ELSE [r EXCEPT !.link = None]

ClearLink(r, s) == IF r = NoRecord \/ r.link # s THEN r ELSE [r EXCEPT !.link = None]

\* compareAndClearSessionId, one script.
ExecClear(p) ==
    /\ pc[p] = "rollback"
    /\ index' = index \ {p}
    /\ record' = ClearLink(record, p)
    /\ UNCHANGED <<live, links, rec>>

\* A session's id is known to nobody before it is linked: its probe, first and
\* second write are one step.
ExecLive(p) ==
    /\ \/ pc[p] = "verify.create" /\ live' = live \cup {p} /\ UNCHANGED dropped
       \/ /\ pc[p] \in {"verify.drop", "end.drop"}
          /\ LET s == IF pc[p] = "end.drop" THEN subject[p] ELSE p IN
             live' = live \ {s} /\ dropped' = dropped \cup {s}
    /\ UNCHANGED <<record, index, linked, writer, rec>>

ExecDel(p) ==
    /\ pc[p] \in {"sweep.del", "remove.del"}
    /\ record' = NoRecord /\ writer' = p
    /\ UNCHANGED <<index, live, linked, dropped, rec>>

Exec(n) ==
    /\ conn[n].sent # <<>>
    /\ LET p == NextSent(conn[n]) IN
       ExecRead(p) \/ ExecPut(p) \/ ExecIndex(p) \/ ExecClear(p) \/ ExecLive(p) \/ ExecDel(p)
    /\ conn' = [conn EXCEPT ![n] = Ran(@)]
    /\ UNCHANGED <<scene, pc, subject, failed, failures>> /\ LeaveRoom /\ LeaveStarts /\ LeaveEntries
-----------------------------------------------------------------------------
(* Continuations of a join                                                 *)

\* getOrCreateActivePersistentSession without a record: p's instance starts
\* with an empty waiting room, and p stores a new record with command c.
CreateRecord(p, c) ==
    /\ waiting' = [waiting EXCEPT ![At[p]] = {}]
    /\ Hold(p, NewRecord)
    /\ Send(p, c)
    /\ UNCHANGED <<open, told>>

JoinLoaded(p) ==
    /\ Either(p, "join.get")
    /\ \/ Got(p) = NoRecord /\ CreateRecord(p, "join.put")
       \/ Got(p) # NoRecord /\ Send(p, "join.started") /\ UNCHANGED rec /\ LeaveRoom

\* A record that cannot be stored leaves the socket without an answer.
JoinCreated(p) ==
    /\ \/ Ok(p, "join.put") /\ Send(p, "join.started")
       \/ Fails(p, "join.put") /\ Return(p)
    /\ UNCHANGED rec /\ LeaveRoom

Started(r) == r # NoRecord /\ r.link # None

\* isSessionStarted: the socket waits, connected or not any more ...
JoinChecked(p) ==
    /\ Either(p, "join.started")
    /\ \/ Started(Got(p)) /\ Send(p, "join.id") /\ LeaveRoom
       \/ /\ ~Started(Got(p))
          /\ waiting' = [waiting EXCEPT ![At[p]] = @ \cup {p}]
          /\ Return(p)
          /\ UNCHANGED <<open, told>>
    /\ UNCHANGED rec

\* Socket j is sent to session s.
Tell(js, s) == told' = [j \in Calls |-> IF j \in js \cap open THEN told[j] \cup {s} ELSE told[j]]

\* ... or getSessionId, a second read, says where it is sent.
JoinSent(p) ==
    /\ Either(p, "join.id")
    /\ Tell({p}, IF Got(p) = NoRecord THEN None ELSE Got(p).link)
    /\ open' = open \ {p}
    /\ Return(p)
    /\ UNCHANGED <<rec, waiting>>

Join(p) ==
    /\ JoinLoaded(p) \/ JoinCreated(p) \/ JoinChecked(p) \/ JoinSent(p)
    /\ LeaveStarts /\ LeaveEntries
-----------------------------------------------------------------------------
(* Continuations of a verify                                               *)

CodeChecked(p) ==
    /\ Either(p, "verify.get")
    /\ \/ Got(p) = NoRecord /\ Return(p)
       \/ Got(p) # NoRecord /\ Send(p, "verify.create")
    /\ UNCHANGED rec /\ LeaveRoom /\ LeaveStarts

\* The start is reported failed.
Break(p) == Return(p) /\ broken' = broken \cup {p} /\ UNCHANGED authed

SessionCreated(p) ==
    /\ \/ Ok(p, "verify.create") /\ Send(p, "start.get") /\ UNCHANGED <<authed, broken>>
       \/ Fails(p, "verify.create") /\ Break(p)
    /\ UNCHANGED <<rec, rolledBack>> /\ LeaveRoom

\* The teacher is let in, and the waiters handed over are sent along.
Admit(p, waiters) ==
    /\ Tell(waiters \cup {Socket[p]}, p)
    /\ waiting' = [waiting EXCEPT ![At[p]] = @ \ {Socket[p]}]
    /\ authed' = authed \cup {p}
    /\ Return(p)
    /\ UNCHANGED <<open, broken>>

\* startPersistentSession: without a record (or with a read that failed) it
\* hands over no waiters and returns; else the previous session's index entry
\* goes first.
StartLoaded(p) ==
    /\ Either(p, "start.get")
    /\ \/ Got(p) = NoRecord /\ Admit(p, {}) /\ UNCHANGED rec
       \/ /\ Started(Got(p)) /\ Send(p, "start.unindex")
          /\ UNCHANGED <<rec, authed, broken>> /\ LeaveRoom
       \/ /\ Got(p) # NoRecord /\ ~Started(Got(p))
          /\ Hold(p, [rec[p] EXCEPT !.link = p]) /\ Send(p, "start.put")
          /\ UNCHANGED <<authed, broken>> /\ LeaveRoom
    /\ UNCHANGED rolledBack

StartUnindexed(p) ==
    /\ Either(p, "start.unindex")
    /\ Hold(p, [rec[p] EXCEPT !.link = p]) /\ Send(p, "start.put")
    /\ LeaveRoom /\ LeaveStarts

\* Mutant of StartPut: the waiters are told before the index is written.
StartPut_Tells(p) ==
    /\ \/ Ok(p, "start.put") /\ Admit(p, waiting[At[p]])
       \/ /\ Fails(p, "start.put") /\ Send(p, "rollback")
          /\ UNCHANGED <<authed, broken>> /\ LeaveRoom
    /\ UNCHANGED <<rec, rolledBack>>

StartPut(p) ==
    /\ \/ Ok(p, "start.put") /\ Send(p, "start.index")
       \/ Fails(p, "start.put") /\ Send(p, "rollback")
    /\ UNCHANGED rec /\ LeaveRoom /\ LeaveStarts

\* Mutant of StartIndexed: a failed index write is swallowed, nobody is told.
StartIndexed_Swallows(p) ==
    /\ \/ Ok(p, "start.index") /\ Admit(p, waiting[At[p]])
       \/ /\ Fails(p, "start.index") /\ Return(p)
          /\ UNCHANGED <<authed, broken>> /\ LeaveRoom
    /\ UNCHANGED <<rec, rolledBack>>

StartIndexed(p) ==
    /\ \/ Ok(p, "start.index") /\ Admit(p, waiting[At[p]])
       \/ /\ Fails(p, "start.index") /\ Send(p, "rollback")
          /\ UNCHANGED <<authed, broken>> /\ LeaveRoom
    /\ UNCHANGED <<rec, rolledBack>>

\* A confirmed rollback drops the session, one that failed keeps it.
Rollback(p) ==
    /\ \/ /\ Ok(p, "rollback") /\ Send(p, "verify.drop")
          /\ rolledBack' = rolledBack \cup {p} /\ broken' = broken \cup {p}
          /\ UNCHANGED authed
       \/ Fails(p, "rollback") /\ Break(p) /\ UNCHANGED rolledBack
    /\ UNCHANGED rec /\ LeaveRoom

SessionDropped(p) ==
    /\ Either(p, "verify.drop")
    /\ Return(p)
    /\ UNCHANGED rec /\ LeaveRoom /\ LeaveStarts

StartClass(p) ==
    /\ \/ CodeChecked(p) \/ SessionCreated(p) \/ StartLoaded(p) \/ StartUnindexed(p)
       \/ StartPut(p) \/ StartIndexed(p) \/ Rollback(p) \/ SessionDropped(p)
    /\ LeaveEntries
-----------------------------------------------------------------------------
(* Continuations of an end, of the reset it shares with enter, and of enter *)

LeadsTo(r, s) == r # NoRecord /\ r.link = s

\* Mutant of EndLookedUp: a session without an index entry has no link.
EndLookedUp_IndexOnly(p) ==
    \/ /\ Either(p, "end.index")
       /\ \/ Got(p) # NoRecord /\ Send(p, "end.record")
          \/ Got(p) = NoRecord /\ Send(p, "end.drop")
    \/ /\ Either(p, "end.record")
       /\ \/ LeadsTo(Got(p), subject[p]) /\ Send(p, "reset.get")
          \/ ~LeadsTo(Got(p), subject[p]) /\ Send(p, "end.drop")
    \/ Either(p, "end.drop") /\ Return(p)

\* findHashBySessionId: the index, validated by the record, else all records.
EndLookedUp(p) ==
    \/ /\ Either(p, "end.index")
       /\ \/ Got(p) # NoRecord /\ Send(p, "end.record")
          \/ Got(p) = NoRecord /\ Send(p, "end.scan")
    \/ /\ Either(p, "end.record")
       /\ \/ LeadsTo(Got(p), subject[p]) /\ Send(p, "reset.get")
          \/ ~LeadsTo(Got(p), subject[p]) /\ Send(p, "end.unindex")
    \/ Either(p, "end.unindex") /\ Send(p, "end.scan")
    \/ /\ Either(p, "end.scan")
       /\ \/ Got(p) # NoRecord /\ Send(p, "end.find")
          \/ Got(p) = NoRecord /\ Send(p, "end.drop")
    \/ /\ Either(p, "end.find")
       /\ \/ LeadsTo(Got(p), subject[p]) /\ Send(p, "end.backfill")
          \/ ~LeadsTo(Got(p), subject[p]) /\ Send(p, "end.drop")
    \/ Either(p, "end.backfill") /\ Send(p, "reset.get")
    \/ Either(p, "end.drop") /\ Return(p)

AfterReset(p) ==
    \/ Kind(p) = "end" /\ Send(p, "end.drop")
    \/ Kind(p) = "enter" /\ Send(p, "enter.again")

\* resetPersistentSession
Reset(p) ==
    \/ /\ Either(p, "reset.get")
       /\ \/ Got(p) = NoRecord /\ AfterReset(p) /\ UNCHANGED rec
          \/ Started(Got(p)) /\ Send(p, "reset.unindex") /\ UNCHANGED rec
          \/ /\ Got(p) # NoRecord /\ ~Started(Got(p))
             /\ Send(p, "reset.put") /\ UNCHANGED rec
    \/ /\ Either(p, "reset.unindex")
       /\ Hold(p, [rec[p] EXCEPT !.link = None]) /\ Send(p, "reset.put")
    \/ Ok(p, "reset.put") /\ AfterReset(p) /\ UNCHANGED rec
    \/ Fails(p, "reset.put") /\ Return(p) /\ UNCHANGED rec

\* After its first read of a started link a visit looks the session up, in the cache or
\* in Valkey; else it has its answer.
LookUp(p) ==
    \/ pc[p] \in {"enter.get", "enter.index"} /\ Started(rec[p]) /\ Send(p, "enter.live")
    \/ Return(p)

\* getOrCreateActivePersistentSession: where the signed URL asks for another entry policy
\* than the record has (some do), the whole record that was read is written back.
EnterLoaded(p) ==
    /\ Either(p, "enter.get") \/ Either(p, "enter.again")
    /\ \/ Got(p) = NoRecord /\ CreateRecord(p, "enter.put")
       \/ /\ Got(p) # NoRecord
          /\ \/ LookUp(p)
             \/ Send(p, IF pc[p] = "enter.get" THEN "enter.back" ELSE "again.back")
          /\ UNCHANGED rec /\ LeaveRoom

\* persistPersistentSession, as in EditPut; a failure is the visit's answer.
EnterWritten(p) ==
    /\ \/ /\ Ok(p, "enter.back") \/ Ok(p, "again.back")
          /\ \/ /\ Started(rec[p])
                /\ Send(p, IF pc[p] = "enter.back" THEN "enter.index" ELSE "again.index")
             \/ ~Started(rec[p]) /\ Return(p)
       \/ Ok(p, "enter.index") /\ LookUp(p)
       \/ (Ok(p, "again.index") \/ Either(p, "enter.put")) /\ Return(p)
       \/ \E c \in {"enter.back", "enter.index", "again.back", "again.index"} :
             Fails(p, c) /\ Return(p)
    /\ UNCHANGED rec /\ LeaveRoom

\* If the session is missing, or the lookup fails, the link is reset.
EnterLooked(p) ==
    /\ \/ Ok(p, "enter.live") /\ rec[p] # NoRecord /\ Return(p)
       \/ Either(p, "enter.live") /\ Got(p) = NoRecord /\ Send(p, "reset.get")
    /\ UNCHANGED rec /\ LeaveRoom

Enter(p) == EnterLoaded(p) \/ EnterWritten(p) \/ EnterLooked(p)

Leave(p) ==
    /\ \/ EndLookedUp(p) /\ UNCHANGED rec /\ LeaveRoom
       \/ Reset(p) /\ LeaveRoom
       \/ Enter(p)
    /\ LeaveStarts /\ LeaveEntries
-----------------------------------------------------------------------------
(* Continuations of an edit, an enroll and a redeem: read, change, write back *)

Change(p, r) == Hold(p, r) /\ Send(p, "edit.put")

EditLoaded(p) ==
    /\ Either(p, "edit.get")
    /\ \/ Kind(p) = "enroll" /\ Got(p) = NoRecord /\ CreateRecord(p, "enroll.put")
       \/ /\ \/ Kind(p) # "enroll" /\ Got(p) = NoRecord
             \/ Kind(p) = "redeem" /\ Got(p) # NoRecord /\ subject[p] \notin rec[p].entries
             \* options that are the same already
             \/ Kind(p) = "edit" /\ Got(p) # NoRecord
          /\ Return(p) /\ UNCHANGED rec /\ LeaveRoom
       \/ /\ Got(p) # NoRecord
          /\ \/ Kind(p) = "edit" /\ Change(p, rec[p])
             \/ Kind(p) = "enroll" /\ Change(p, [rec[p] EXCEPT !.entries = @ \cup {p}])
             \/ /\ Kind(p) = "redeem" /\ subject[p] \in rec[p].entries
                /\ Change(p, [rec[p] EXCEPT !.entries = @ \ {subject[p]}])
          /\ LeaveRoom
    /\ LeaveEntries

EnrollCreated(p) ==
    /\ \/ Ok(p, "enroll.put") /\ Change(p, [rec[p] EXCEPT !.entries = @ \cup {p}])
       \/ Fails(p, "enroll.put") /\ Return(p) /\ UNCHANGED rec
    /\ LeaveRoom /\ LeaveEntries

\* The change is reported.
Finish(p) ==
    /\ Return(p)
    /\ issued' = IF Kind(p) = "enroll" THEN issued \cup {p} ELSE issued

\* Mutant of EditPut: the session's index entry is taken to be there.
EditPut_RecordOnly(p) ==
    /\ \/ Ok(p, "edit.put") /\ Finish(p)
       \/ Fails(p, "edit.put") /\ Return(p) /\ LeaveEntries
    /\ UNCHANGED rec /\ LeaveRoom

\* persistPersistentSession: the record, then the index of its session.
EditPut(p) ==
    /\ \/ Ok(p, "edit.put") /\ Started(rec[p]) /\ Send(p, "edit.index") /\ LeaveEntries
       \/ Ok(p, "edit.put") /\ ~Started(rec[p]) /\ Finish(p)
       \/ Ok(p, "edit.index") /\ Finish(p)
       \/ (Fails(p, "edit.put") \/ Fails(p, "edit.index")) /\ Return(p) /\ LeaveEntries
    /\ UNCHANGED rec /\ LeaveRoom

Edit(p) == (EditLoaded(p) \/ EnrollCreated(p) \/ EditPut(p)) /\ LeaveStarts
-----------------------------------------------------------------------------
(* Continuations of a sweep, of a record past WAITER_TIMEOUT, and a remove *)

\* The record is deleted, as far as p knows, and p's instance forgets who waits.
Vacate(p) ==
    /\ Return(p)
    /\ waiting' = [waiting EXCEPT ![At[p]] = {}]
    /\ UNCHANGED <<open, told>>

SweepLoaded(p) ==
    \/ /\ Either(p, "sweep.scan")
       /\ \/ Got(p) # NoRecord /\ Send(p, "sweep.get")
          \/ Got(p) = NoRecord /\ Return(p)
       /\ LeaveRoom
    \/ /\ Either(p, "sweep.get")
       /\ LET unused == Got(p) # NoRecord /\ ~Started(Got(p)) /\ waiting[At[p]] = {} IN
          \/ unused /\ Send(p, "sweep.del")
          \/ ~unused /\ Return(p)
       /\ LeaveRoom
    \/ Either(p, "sweep.del") /\ Vacate(p)

\* cleanupPersistentSession; whether a command failed is not seen.
Cleanup(p) ==
    \/ /\ \/ Either(p, "remove.get") /\ Started(Got(p)) /\ Send(p, "remove.unindex")
          \/ Either(p, "remove.get") /\ ~Started(Got(p)) /\ Send(p, "remove.del")
          \/ Either(p, "remove.unindex") /\ Send(p, "remove.del")
       /\ LeaveRoom
    \/ Either(p, "remove.del") /\ Vacate(p)

Sweep(p) ==
    /\ SweepLoaded(p) \/ Cleanup(p)
    /\ UNCHANGED rec /\ LeaveStarts /\ LeaveEntries

Resume(p) ==
    /\ Join(p) \/ StartClass(p) \/ Leave(p) \/ Edit(p) \/ Sweep(p)
    /\ UNCHANGED subject /\ Frame
-----------------------------------------------------------------------------
(* The network and time                                                    *)

\* Replies reach instance n, once the calls of the last ones have run.
Deliver(n) ==
    /\ Free(conn[n])
    /\ \E k \in 1..Len(conn[n].back) : conn' = [conn EXCEPT ![n] = Read(@, k)]
    /\ UNCHANGED <<scene, valkey, pc, rec, subject, failed, failures, links>>
    /\ LeaveRoom /\ LeaveStarts /\ LeaveEntries

\* The connection of n stays down past its retries: every unanswered command is
\* rejected, executed or not.
Reject(n) ==
    /\ failures < scene.losses
    /\ Free(conn[n]) /\ Unanswered(conn[n]) # {}
    /\ failed' = failed \cup Unanswered(conn[n])
    /\ conn' = [conn EXCEPT ![n] = GivenUp(@)]
    /\ failures' = failures + 1
    /\ UNCHANGED <<scene, valkey, pc, rec, subject, links>>
    /\ LeaveRoom /\ LeaveStarts /\ LeaveEntries

\* A socket closes: it no longer waits.
Close(j) ==
    /\ j \in open /\ Free(conn[At[j]])
    /\ open' = open \ {j}
    /\ waiting' = [waiting EXCEPT ![At[j]] = @ \ {j}]
    /\ UNCHANGED <<scene, valkey, conn, pc, rec, subject, failed, failures, told, links>>
    /\ LeaveStarts /\ LeaveEntries

\* A live session runs out of its time to live.
Lapse(s) ==
    /\ scene.lapsing /\ s \in live
    /\ live' = live \ {s}
    /\ UNCHANGED <<scene, record, index, conn, pc, rec, subject, failed, failures, links>>
    /\ LeaveRoom /\ LeaveStarts /\ LeaveEntries

Next ==
    \/ \E p \in Calls : Start(p) \/ Resume(p)
    \/ \E n \in Nodes : Exec(n) \/ Deliver(n) \/ Reject(n)
    \/ \E j \in Joins : Close(j)
    \/ \E s \in Sessions : Lapse(s)

Spec == Init /\ [][Next]_vars

\* Valkey executes, or the connection is given up; replies are read; the event
\* loop runs every continuation.  Nobody has to begin a call or keep a socket.
Fairness ==
    /\ \A n \in Nodes : WF_vars(Exec(n)) /\ WF_vars(Deliver(n))
    /\ \A p \in Calls : WF_vars(Resume(p))

FairSpec == Spec /\ Fairness
-----------------------------------------------------------------------------
(* What the link and its waiting room promise                              *)

Calm == \A p \in Calls : pc[p] \in {"idle", "done"}

\* Calls that write back a whole record they read, whatever it leads to.
WritesBack == {p \in Calls : Kind(p) \in {"edit", "enroll", "redeem", "enter"}}

\* Starts clean up in the right order: whichever of their writes was lost after it took
\* effect, and whatever other starts, visits and ends run, the record leads no visitor
\* to a session that was deleted, unless an edit, an entry or a visit whose URL has another
\* entry policy wrote it back, or an end of that session could not read the record
\* (persistentSessionWs.ts 301-312, persistentSessions.ts 614-657, sessions.ts 825-830).
LinkLeadsSomewhere ==
    record # NoRecord /\ writer \notin WritesBack /\ record.link \in dropped
        => failures > 0 /\ \E p \in Calls : Kind(p) = "end" /\ subject[p] = record.link

\* What a start wrote stays until somebody writes the record again or its own
\* start fails: in particular the rollback of another start, however late it
\* runs, leaves it alone (persistentSessions.ts 622-633).
StartsSurviveRollbacks ==
    writer \in Sessions /\ writer \notin broken /\ pc[writer] # "rollback"
        => record # NoRecord /\ record.link = writer

\* When nothing is going on, and no command was lost, the session a link leads
\* to is in the reverse index, whatever starts, resets, visits, edits and removals
\* raced on the record and on the entries they drop and write (persistentSessions.ts
\* 535-540, 716-720, 838-844).
IndexedWhenCalm ==
    Calm /\ failures = 0 /\ record # NoRecord /\ record.link # None => record.link \in index

\* When nothing is going on and the link leads to a class, every connected student on the
\* instance that started it was sent there, those who connected while it was being
\* started included (persistentSessionWs.ts 128-147 and 353-363).
WaitersTaken ==
    Calm /\ failures = 0 /\ record # NoRecord /\ record.link # None
        => \A j \in open : pc[j] = "done" /\ At[j] = At[record.link] => told[j] # {}

\* No cleanup timer ran, and the link was not removed.
Unswept == \A p \in Calls : Kind(p) \in {"sweep", "remove"} => pc[p] = "idle"

\* Nobody waits in vain, unless a cleanup timer ran, which goes by the waiters of its own
\* instance (persistentSessions.ts 903-917), the link was removed, whoever waits (838-844),
\* or an edit, an entry or a visit wrote the class back.
NobodyWaitsInVain == Unswept /\ writer \notin WritesBack => WaitersTaken

\* A student who waits on the instance where a start has linked its session is
\* sent there, leaves, or the start fails.
WaitersHear ==
    \A j, p \in Calls :
        (pc[p] = "start.index" /\ j \in waiting[At[p]] /\ j \in open)
            ~> (told[j] # {} \/ j \notin open \/ p \in broken)

\* waitingRoomUtils.ts:10 types the message as { type: 'session-started';
\* sessionId: string }: no socket is sent to null.
StartedHasId == \A j \in Calls : None \notin told[j]

\* persistentSessions.ts:622-627 says that a confirmed rollback lets the caller
\* delete the session without a waiter being handed a dead id: the record does
\* not lead to a session that was deleted after its start was rolled back.
RollbackConfirmed == \A p \in rolledBack \cap dropped : ~LeadsTo(record, p)

\* persistentSessionWs.ts:295-297 says of a live session that could not be linked
\* to its record that the orphan is rolled back and an error surfaced: a start
\* that reported success did link its session.
AuthedWasLinked == authed \subseteq linked
=============================================================================
