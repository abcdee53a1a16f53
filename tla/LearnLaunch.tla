---------------------------- MODULE LearnLaunch -----------------------------
(***************************************************************************)
(* The launches of one Learn resource                                      *)
(* (src/activities/syncdeck/server/learnIntegration.ts): the entry that    *)
(* maps the resource to its SyncDeck session, in Valkey and in the caches  *)
(* of the instances, the start lock with its lease, and the requests that  *)
(* read, create, start and stop it, step by step from await to await.      *)
(***************************************************************************)
EXTENDS Naturals, FiniteSets

CONSTANTS
    Nodes, Requests,
    At,            \* the instance a request is served by
    Scenes,        \* the situations to start from
    MaxSessions,   \* bound: the SyncDeck sessions created
    None, NoEntry

Sessions == 1..MaxSessions
Ids      == {"a", "b"}      \* request ids of Learn, or links of substitutes
Decks    == {"deck", "other"}
Kinds    == {"none", "status", "entry", "start", "substitute", "stop"}
Faults   == {"claim", "read", "write", "token", "release", "crash", "lapse", "expire"}

\* The entry: who asked for the start in progress, the session it leads to, and when it
\* expires (two are told apart by their expiry alone; expiries no copy has are used again).
Expiries == 0..(1 + Cardinality(Nodes) + 2 * Cardinality(Requests))
Entry == [req : Ids \cup {None}, session : Sessions \cup {None}, deck : Decks \cup {None},
          expires : Expiries]
Waiting(i, x) == [req |-> i, session |-> None, deck |-> None, expires |-> x]

\* What the requests are, the entry to begin with (its session is the first one), the
\* faults that happen and how often, and how often a session is ended by its own route.
Scene == [kind : [Requests -> Kinds], id : [Requests -> Ids], deck : [Requests -> Decks],
          entry : {NoEntry, "waiting", "active"}, bad : SUBSET Faults, faults : Nat, ends : Nat]

ASSUME ConstantsOK ==
    /\ Scenes \subseteq Scene /\ At \in [Requests -> Nodes]
    /\ IsFiniteSet(Nodes) /\ IsFiniteSet(Requests)
    /\ MaxSessions \in Nat \ {0} /\ None \notin Requests \cup Sessions
    /\ NoEntry \notin Entry

VARIABLES
    scene,
    entry,     \* the entry in Valkey
    cache,     \* the entry in the cache of an instance, or None
    lock,      \* the request that holds the start lock, or None
    req,       \* the requests
    created, ended, stopped,   \* sessions: how many, and which were ended or stopped
    faults,
    passed     \* history: what the entry was while a status was asked for

store == <<entry, cache>>
marks == <<created, ended, stopped>>
vars  == <<scene, store, lock, req, marks, faults, passed>>

Replies == {"none", "active", "waiting", "inactive", "starting", "busy", "deck",
            "stopped", "failed", "undone"}
Request == [pc : {"get", "session", "drop", "refresh", "again", "loaded", "claim", "note",
                  "create", "activate", "undo", "token", "release", "stop", "done", "dead"},
            seen : Entry \cup {NoEntry},   \* the entry as it was loaded
            prev : Entry \cup {NoEntry},   \* previousData
            made : Sessions \cup {None},   \* the session it created
            held : BOOLEAN, lapsed : BOOLEAN,   \* whether it took the lock, and lost the lease
            reply : Replies, session : Sessions \cup {None}]

\* What a request tells of an entry.
View(e) == IF e = NoEntry THEN <<"inactive", None>>
           ELSE IF e.session = None THEN <<"waiting", None>> ELSE <<"active", e.session>>

TypeOK ==
    /\ scene \in Scenes /\ entry \in Entry \cup {NoEntry}
    /\ cache \in [Nodes -> Entry \cup {None}]
    /\ lock \in Requests \cup {None}
    /\ req \in [Requests -> Request]
    /\ created \in 0..MaxSessions /\ ended \subseteq 1..created /\ stopped \subseteq Sessions
    /\ faults \in Nat
    /\ passed \in [Requests -> SUBSET ({"inactive", "waiting", "active"} \X (Sessions \cup {None}))]

IsStart(r) == scene.kind[r] \in {"start", "substitute"}

\* A request comes in: starts ask for the lock first.
NewRequest(k) == [pc |-> IF k = "none" THEN "done" ELSE IF k \in {"start", "substitute"} THEN "claim" ELSE "get",
                  seen |-> NoEntry, prev |-> NoEntry, made |-> None, held |-> FALSE,
                  lapsed |-> FALSE, reply |-> "none", session |-> None]

Init ==
    /\ scene \in Scenes
    /\ entry = IF scene.entry = NoEntry THEN NoEntry
               ELSE IF scene.entry = "waiting" THEN Waiting(None, 0)
               ELSE [req |-> None, session |-> 1, deck |-> "deck", expires |-> 0]
    /\ \E held \in {{}, Nodes} : /\ held # {} => entry # NoEntry
                                 /\ cache = [n \in Nodes |-> IF n \in held THEN entry ELSE None]
    /\ lock = None
    /\ req = [r \in Requests |-> NewRequest(scene.kind[r])]
    /\ created = (IF scene.entry = "active" THEN 1 ELSE 0) /\ ended = {} /\ stopped = {}
    /\ faults = 0
    /\ passed = [r \in Requests |-> IF scene.kind[r] = "status" THEN {View(entry)} ELSE {}]

\* A status sees the entry change from its first read to its answer.
Watch == passed' = [r \in Requests |->
             IF scene.kind[r] # "status" \/ req[r].pc = "done" THEN passed[r]
             ELSE (IF req[r].pc = "get" THEN {} ELSE passed[r]) \cup {View(entry')}]

Mistake(f) == f \in scene.bad /\ faults < scene.faults /\ faults' = faults + 1

\* An expiry later than that of every copy (there is always one that no copy has).
Copies == {entry} \cup {cache[n] : n \in Nodes} \cup UNION {{req[r].seen, req[r].prev} : r \in Requests}
Unused == {x \in Expiries : \A e \in Copies \ {None, NoEntry} : e.expires # x}
Later  == CHOOSE x \in Expiries : Unused # {} => x \in Unused

At_(r, p) == req[r].pc = p
Goes(r, p) == req' = [req EXCEPT ![r].pc = p]
-----------------------------------------------------------------------------
(* The store, as the instance of request r uses it                         *)

\* get(): the copy in the cache, if there is one; and what the cache keeps of it.
Copy(n) == IF cache[n] = None THEN entry ELSE cache[n]
Kept(e) == IF e = NoEntry THEN None ELSE e

\* set() of e, and delete(): a read that overlaps the deletion may fill the cache again.
Put(r, e) ==
    /\ entry' = e
    /\ \/ cache' = [cache EXCEPT ![At[r]] = Kept(e)]
       \/ e = NoEntry /\ entry # NoEntry /\ cache' = [cache EXCEPT ![At[r]] = entry]

\* A set() that fails, executed or not, after the request wrote into its copy of the entry,
\* which may be the cache's own; and a delete() whose failure is not told.
PutFails(r, e) ==
    /\ Mistake("write")
    /\ entry' \in {entry, e}
    /\ \/ UNCHANGED cache
       \/ cache[At[r]] # None /\ cache' = [cache EXCEPT ![At[r]] = e]
DropFails(r) ==
    /\ Mistake("write")
    /\ cache' = [cache EXCEPT ![At[r]] = None]
    /\ UNCHANGED entry

\* Another use of the entry on instance n, such as the keepalive of the live session:
\* it is read into the cache, or its time in the cache is over.
Fill(n) ==
    /\ cache[n] = None /\ entry # NoEntry
    /\ cache' = [cache EXCEPT ![n] = entry]
    /\ UNCHANGED <<scene, entry, lock, req, marks, faults>> /\ Watch
Age(n) ==
    /\ cache[n] # None
    /\ cache' = [cache EXCEPT ![n] = None]
    /\ UNCHANGED <<scene, entry, lock, req, marks, faults>> /\ Watch

\* A waiting entry nobody asks for expires; a session is ended by its own route.
Expire ==
    /\ entry # NoEntry /\ entry.session = None
    /\ Mistake("expire")
    /\ entry' = NoEntry
    /\ UNCHANGED <<scene, cache, lock, req, marks>> /\ Watch
EndSession(s) ==
    /\ s \in 1..created \ ended /\ Cardinality(ended) < scene.ends
    /\ ended' = ended \cup {s}
    /\ UNCHANGED <<scene, store, lock, req, created, stopped, faults>> /\ Watch

-----------------------------------------------------------------------------
(* loadEntry()                                                             *)

\* Mutant of Loading: a waiting entry is taken as it was read.
Loading_Trusting(e) == IF e = NoEntry \/ e.session = None THEN "loaded" ELSE "session"

\* Where a load goes on from the entry e it has read.
Loading(e) == IF e = NoEntry THEN "loaded" ELSE IF e.session = None THEN "refresh" ELSE "session"

\* The entry is read, from the cache if it is there.
Get(r) ==
    /\ At_(r, "get")
    /\ req' = [req EXCEPT ![r].seen = Copy(At[r]), ![r].pc = Loading(Copy(At[r]))]
    /\ cache' = [cache EXCEPT ![At[r]] = Kept(Copy(At[r]))]
    /\ UNCHANGED <<scene, entry, lock, marks, faults>> /\ Watch

\* A read that fails is taken for a missing entry.
GetFails(r) ==
    /\ At_(r, "get") /\ cache[At[r]] = None
    /\ Mistake("read")
    /\ req' = [req EXCEPT ![r].seen = NoEntry, ![r].pc = "loaded"]
    /\ UNCHANGED <<scene, entry, cache, lock, marks>> /\ Watch

\* The session of an active entry is looked up: one that was ended may still be in the
\* instance's cache.
Session(r) ==
    /\ At_(r, "session")
    /\ \/ Goes(r, "refresh")
       \/ req[r].seen.session \in ended /\ Goes(r, "drop")
    /\ UNCHANGED <<scene, store, lock, marks, faults>> /\ Watch

\* A failed read is taken for a session that is gone.
SessionFails(r) ==
    /\ At_(r, "session")
    /\ Mistake("read")
    /\ Goes(r, "drop")
    /\ UNCHANGED <<scene, store, lock, marks>> /\ Watch

\* An entry whose session is gone is deleted.
Drop(r) ==
    /\ At_(r, "drop")
    /\ \/ /\ Put(r, NoEntry) /\ UNCHANGED faults
       \/ DropFails(r)
    /\ req' = [req EXCEPT ![r].pc = IF req[r].prev # NoEntry THEN "note" ELSE "loaded",
                          ![r].seen = NoEntry, ![r].prev = NoEntry]
    /\ UNCHANGED <<scene, lock, marks>> /\ Watch

\* Mutant of Refreshed: the copy that was read is good enough.
Refreshed_Blind(r) == req[r].seen

\* refreshSessionExpiry() answers with the entry in Valkey, if its expiry is the one read.
Refreshed(r) == IF entry = NoEntry \/ entry.expires # req[r].seen.expires THEN NoEntry ELSE entry

Refresh(r) ==
    /\ At_(r, "refresh")
    /\ IF Refreshed(r) # NoEntry
       THEN LET e == [Refreshed(r) EXCEPT !.expires = Later] IN
            /\ Put(r, e)
            /\ req' = [req EXCEPT ![r].seen = e, ![r].pc = "loaded"]
       ELSE /\ cache' = [cache EXCEPT ![At[r]] = None]
            /\ Goes(r, "again")
            /\ UNCHANGED entry
    /\ UNCHANGED <<scene, lock, marks, faults>> /\ Watch

\* A refresh that fails, executed or not, is taken for one that did not match.
RefreshFails(r) ==
    /\ At_(r, "refresh")
    /\ Mistake("write")
    /\ \/ UNCHANGED entry
       \/ Refreshed(r) # NoEntry /\ entry' = [Refreshed(r) EXCEPT !.expires = Later]
    /\ cache' = [cache EXCEPT ![At[r]] = None]
    /\ Goes(r, "again")
    /\ UNCHANGED <<scene, lock, marks>> /\ Watch

\* Then the entry is read once more.
Again(r) ==
    /\ At_(r, "again")
    /\ req' = [req EXCEPT ![r].seen = Copy(At[r]), ![r].pc = "loaded"]
    /\ cache' = [cache EXCEPT ![At[r]] = Kept(Copy(At[r]))]
    /\ UNCHANGED <<scene, entry, lock, marks, faults>> /\ Watch
-----------------------------------------------------------------------------
(* The start lock                                                          *)

\* Requests that took the lock and have not released it.
Working(r) == req[r].held /\ req[r].pc # "dead"

\* It is claimed; a start that finds it taken looks whose start is in progress.
Claim(r) ==
    /\ At_(r, "claim")
    /\ IF lock = None
       THEN lock' = r /\ req' = [req EXCEPT ![r].held = TRUE, ![r].pc = "get"]
       ELSE /\ req' = IF IsStart(r) THEN [req EXCEPT ![r].pc = "get"]
                      ELSE [req EXCEPT ![r].reply = "busy", ![r].pc = "done"]
            /\ UNCHANGED lock
    /\ UNCHANGED <<scene, store, marks, faults>> /\ Watch

ClaimFails(r) ==
    /\ At_(r, "claim")
    /\ Mistake("claim")
    /\ \/ UNCHANGED lock
       \/ lock = None /\ lock' = r
    /\ req' = [req EXCEPT ![r].reply = "failed", ![r].pc = "done"]
    /\ UNCHANGED <<scene, store, marks>> /\ Watch

\* Mutant of Freed: the lock is deleted whoever holds it.
Freed_Anyone(r) == None

\* The lock is deleted only by the request whose token it holds.
Freed(r) == IF lock = r THEN None ELSE lock

\* Where a request goes on once the lock is released.
Finished(r) == IF req[r].reply = "none" THEN "token" ELSE "done"

Release(r) ==
    /\ At_(r, "release")
    /\ \/ lock' = Freed(r) /\ UNCHANGED faults
       \/ Mistake("release") /\ UNCHANGED lock
    /\ req' = [req EXCEPT ![r].held = FALSE, ![r].pc = Finished(r)]
    /\ UNCHANGED <<scene, store, marks>> /\ Watch

\* Mutant of Lapse: the lock has no expiry.
Lapse_Never == FALSE

\* Nobody renews the lease any more; or the renewals of a request at work fail.
Lapse ==
    /\ lock # None
    /\ IF Working(lock)
       THEN Mistake("lapse") /\ req' = [req EXCEPT ![lock].lapsed = TRUE]
       ELSE UNCHANGED <<req, faults>>
    /\ lock' = None
    /\ UNCHANGED <<scene, store, marks>> /\ Watch

Crash(r) ==
    /\ req[r].pc \notin {"done", "dead"}
    /\ Mistake("crash")
    /\ Goes(r, "dead")
    /\ UNCHANGED <<scene, store, lock, marks>> /\ Watch
-----------------------------------------------------------------------------
(* The handlers                                                            *)

\* Request r is done with the entry, is answered, and goes on to p.
Answers(r, s, x, p) == req' = [req EXCEPT ![r].reply = s, ![r].session = x, ![r].pc = p,
                                          ![r].seen = NoEntry, ![r].prev = NoEntry]

\* A status tells what it has loaded; a stop has nothing to stop; a start that found the
\* lock taken tells whether it is its own start that is in progress.
Tell(r) ==
    /\ At_(r, "loaded") /\ ~req[r].held
    /\ LET e == req[r].seen IN
       \/ /\ scene.kind[r] = "status"
          /\ Answers(r, View(e)[1], View(e)[2], "done")
       \/ /\ scene.kind[r] = "stop" /\ View(e)[1] # "active"
          /\ Answers(r, "inactive", None, "done")
       \/ /\ IsStart(r)
          /\ Answers(r, IF e # NoEntry /\ e.req = scene.id[r] THEN "starting" ELSE "busy", None, "done")
    /\ UNCHANGED <<scene, store, lock, marks, faults>> /\ Watch

\* A student's entry is found or, under the lock, created.
Enter(r) ==
    /\ At_(r, "loaded") /\ scene.kind[r] = "entry"
    /\ req' = [req EXCEPT ![r].seen = NoEntry,
                          ![r].pc = IF req[r].seen = NoEntry THEN IF req[r].held THEN "note" ELSE "claim"
                                    ELSE IF req[r].held THEN "release" ELSE "token"]
    /\ UNCHANGED <<scene, store, lock, marks, faults>> /\ Watch

\* A start that holds the lock reuses the session of an active entry, unless that has
\* another deck or its session is gone by now.
Reuse(r) ==
    /\ At_(r, "loaded") /\ IsStart(r) /\ req[r].held
    /\ LET e == req[r].seen IN
       IF View(e)[1] # "active" THEN Goes(r, "note")
       ELSE IF e.deck # scene.deck[r] THEN Answers(r, "deck", None, "release")
       ELSE \/ Answers(r, "none", e.session, "token")
            \/ e.session \in ended /\ req' = [req EXCEPT ![r].pc = "drop", ![r].prev = e]
    /\ UNCHANGED <<scene, store, lock, marks, faults>> /\ Watch

\* The start notes its request id on the entry, or creates it; a student's entry has none.
Note(r) ==
    /\ At_(r, "note")
    /\ LET i == IF IsStart(r) THEN scene.id[r] ELSE None
           e == IF req[r].seen = NoEntry THEN Waiting(i, Later) ELSE [req[r].seen EXCEPT !.req = i] IN
       \/ /\ Put(r, e) /\ UNCHANGED faults
          /\ req' = [req EXCEPT ![r].prev = IF IsStart(r) THEN req[r].seen ELSE NoEntry,
                                ![r].seen = NoEntry, ![r].pc = IF IsStart(r) THEN "create" ELSE "release"]
       \/ /\ PutFails(r, e)
          /\ IF IsStart(r)
             THEN req' = [req EXCEPT ![r].prev = req[r].seen, ![r].seen = NoEntry, ![r].pc = "undo"]
             ELSE Answers(r, "failed", None, "release")
    /\ UNCHANGED <<scene, lock, marks>> /\ Watch

\* The SyncDeck session is created and linked to the entry.
Create(r) ==
    /\ At_(r, "create") /\ created < MaxSessions
    /\ \/ /\ created' = created + 1 /\ UNCHANGED faults
          /\ req' = [req EXCEPT ![r].made = created + 1, ![r].pc = "activate"]
       \/ /\ Mistake("write") /\ Goes(r, "undo") /\ created' \in {created, created + 1}
    /\ UNCHANGED <<scene, store, lock, ended, stopped>> /\ Watch

\* The entry becomes active.
Activate(r) ==
    /\ At_(r, "activate")
    /\ LET e == [req |-> scene.id[r], session |-> req[r].made, deck |-> scene.deck[r], expires |-> Later] IN
       \/ /\ Put(r, e) /\ UNCHANGED faults
          /\ req' = [req EXCEPT ![r].session = req[r].made, ![r].pc = "token"]
       \/ PutFails(r, e) /\ Goes(r, "undo")
    /\ UNCHANGED <<scene, lock, marks>> /\ Watch

\* Mutant of Restored: an entry that the start created is left as it is.
Restored_Kept(r) == IF req[r].prev = NoEntry THEN entry ELSE req[r].prev

\* What a failed start leaves: the entry it found.
Restored(r) == req[r].prev

Undo(r) ==
    /\ At_(r, "undo")
    /\ \/ Put(r, Restored(r)) /\ UNCHANGED faults /\ Answers(r, "undone", None, "release")
       \/ /\ IF req[r].prev = NoEntry THEN DropFails(r) ELSE PutFails(r, req[r].prev)
          /\ Answers(r, "failed", None, "release")
    /\ UNCHANGED <<scene, lock, marks>> /\ Watch

\* The browser token of the launch; a substitute is sent on at once.
Token(r) ==
    /\ At_(r, "token")
    /\ LET p == IF IsStart(r) THEN "release" ELSE "done" IN
       \/ /\ Answers(r, IF IsStart(r) THEN "active" ELSE "waiting", req[r].session, p) /\ UNCHANGED faults
       \/ /\ scene.kind[r] # "substitute" /\ Mistake("token") /\ Answers(r, "failed", None, p)
    /\ UNCHANGED <<scene, store, lock, marks>> /\ Watch

\* A stop marks the session it has loaded, announces its end, and deletes the entry.
Mark(r) ==
    /\ At_(r, "loaded") /\ scene.kind[r] = "stop" /\ View(req[r].seen)[1] = "active"
    /\ stopped' = stopped \cup {req[r].seen.session}
    /\ req' = [req EXCEPT ![r].seen = NoEntry, ![r].pc = "stop"]
    /\ UNCHANGED <<scene, store, lock, created, ended, faults>> /\ Watch
Stop(r) ==
    /\ At_(r, "stop")
    /\ \/ Put(r, NoEntry) /\ UNCHANGED faults
       \/ DropFails(r)
    /\ Answers(r, "stopped", None, "done")
    /\ UNCHANGED <<scene, lock, marks>> /\ Watch

\* Learn repeats a start that was not answered for good, with the same id.
Retry(r) ==
    /\ At_(r, "done") /\ scene.kind[r] = "start"
    /\ req[r].reply \in {"starting", "busy", "failed", "undone"}
    /\ req' = [req EXCEPT ![r] = NewRequest("start")]
    /\ UNCHANGED <<scene, entry, cache, lock, marks, faults>> /\ Watch
-----------------------------------------------------------------------------
Step(r) ==
    \/ Get(r) \/ Session(r) \/ Drop(r) \/ Refresh(r) \/ Again(r)
    \/ Claim(r) \/ Release(r)
    \/ Tell(r) \/ Enter(r) \/ Reuse(r) \/ Note(r) \/ Create(r) \/ Activate(r)
    \/ Undo(r) \/ Token(r) \/ Mark(r) \/ Stop(r) \/ Retry(r)
Environment ==
    \/ \E r \in Requests : GetFails(r) \/ SessionFails(r) \/ RefreshFails(r) \/ ClaimFails(r) \/ Crash(r)
    \/ \E n \in Nodes : Fill(n) \/ Age(n)
    \/ \E s \in Sessions : EndSession(s)
    \/ Expire

Next == (\E r \in Requests : Step(r)) \/ Environment \/ Lapse

Spec == Init /\ [][Next]_vars

\* An instance serves its requests; Learn repeats its starts; a lease ends some time
\* after the last renewal.
FairSpec ==
    /\ Spec
    /\ \A r \in Requests : WF_vars(Step(r))
    /\ WF_vars(Lapse /\ ~Working(lock))
-----------------------------------------------------------------------------
(* Properties                                                              *)

Answered(r) == IsStart(r) /\ req[r].reply = "active"
Over(s)     == s \in ended \cup stopped
Renewed     == "lapse" \notin scene.bad
Readable    == "read" \notin scene.bad

\* One stop at most, and no start fails in the middle of its writes meanwhile: a stop
\* deletes the entry after it marked the session (learnIntegration.ts 825-839), whatever
\* the entry leads to by then.
StopsInTime == \A r, q \in Requests :
    scene.kind[r] = "stop" => "write" \notin scene.bad /\ (scene.kind[q] = "stop" => q = r)

\* While leases are renewed, reads succeed, stops are not late and no session is ended
\* behind Learn's back, the session a start was answered with is where the resource leads
\* until that session is stopped.
Honoured ==
    Renewed /\ Readable /\ StopsInTime /\ ended = {} =>
        \A r \in Requests : Answered(r) /\ ~Over(req[r].session) =>
            entry # NoEntry /\ entry.session = req[r].session

\* Two starts are answered with one session, unless that was over before (the plan of
\* the integration: exactly one session must be created). It does not hold (README).
OneSession ==
    \A r, q \in Requests : Answered(r) /\ Answered(q) =>
        req[r].session = req[q].session \/ Over(req[r].session) \/ Over(req[q].session)

\* One request at a time works under the lock, on all instances, as long as its lease is
\* renewed; a release of a late request does not free its successor's lock.
OneAtATime == \A r \in Requests : Working(r) /\ ~req[r].lapsed => lock = r

\* Reads succeed, and the writes that fail are those of other instances.
Sighted(r) ==
    /\ Readable
    /\ "write" \in scene.bad =>
          ended = {} /\ \A q \in Requests : At[q] = At[r] => scene.kind[q] \in {"none", "status"}

\* A status answers what the entry was at some time while it was asked for, however old
\* the copy in the instance's cache.
StatusIsCurrent ==
    \A r \in Requests : scene.kind[r] = "status" /\ Sighted(r) /\ req[r].reply # "none" =>
        <<req[r].reply, req[r].session>> \in passed[r]

\* A start that failed and could clean up leaves nothing that leads to its session, even
\* if it lost its lease meanwhile.
UndoneIsUndone ==
    \A r \in Requests : req[r].reply = "undone" /\ req[r].made # None =>
        entry = NoEntry \/ entry.session # req[r].made

\* Learn's starts come to a session or to the answer that another deck is running, and
\* everybody else is answered too, whoever crashes with the lock.
StartsSucceed ==
    \A r \in Requests :
        <>[](\/ scene.kind[r] = "none" \/ req[r].pc = "dead"
             \/ req[r].pc = "done" /\ (scene.kind[r] = "start" => req[r].reply \in {"active", "deck"}))
=============================================================================
