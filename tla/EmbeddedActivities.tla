------------------------- MODULE EmbeddedActivities -------------------------
(***************************************************************************)
(* The embedded activities of a SyncDeck session                           *)
(* (src/activities/syncdeck/server/routes.ts): the record of the deck with *)
(* its roster and running activities, the child sessions, and the requests *)
(* and sockets that read a record, change the object and write it back     *)
(* whole, from await to await.                                             *)
(*                                                                         *)
(* get() hands out the object in the instance's cache: handlers that were  *)
(* answered from the cache share it, and see each other's changes.  A miss *)
(* makes a new object, and so does touch(), which reads a record anew from *)
(* time to time: a get of a child touches the deck, a request touches the  *)
(* children of its deck.  set() writes what the object is at the call, and *)
(* puts the object into the cache when Valkey has answered.                *)
(***************************************************************************)
EXTENDS Pipeline, FiniteSets

CONSTANTS
    Nodes, Calls,
    At,            \* the instance that serves a call
    Keys, Students,
    MaxChildren,   \* bound: child sessions
    MaxObjects,    \* bound: records in the memory of an instance at a time
    Scenes,        \* the situations to start from
    None, Gone, Lost

TheDeck  == 0
Children == 1..MaxChildren
Ids      == {TheDeck} \cup Children
Objects  == 1..MaxObjects
Kinds    == {"none", "start", "end", "join", "watch", "entry", "update", "return",
             "delete", "keepalive"}

\* The records of the deck (chalkboard strokes stand for what an instructor's message adds)
\* and of a child (who was handed a token into it, and whether the manager's was minted).
Deck  == [students : SUBSET Students, accepted : SUBSET Students,
          acts : [Keys -> Children \cup {None}], strokes : SUBSET Calls]
Child == [tokens : SUBSET Students, manager : BOOLEAN]
NewChild == [tokens |-> {}, manager |-> FALSE]

\* What the calls are; the roster and the activities to begin with; whether the time comes
\* when touches read cached records anew (every LINKED_SESSION_REVALIDATION_MS), how many
\* replies are read at once, how often entries leave the cache, and how often a connection
\* is lost.
Scene == [kind : [Calls -> Kinds], key : [Calls -> Keys], student : [Calls -> Students],
          roster : SUBSET Students, running : SUBSET Keys,
          touches : BOOLEAN, chunk : Nat, ages : Nat, losses : Nat]

ASSUME ConstantsOK ==
    /\ Scenes \subseteq Scene /\ At \in [Calls -> Nodes]
    /\ IsFiniteSet(Calls) /\ IsFiniteSet(Keys)
    /\ MaxChildren \in Nat /\ MaxObjects \in Nat
    /\ MaxChildren >= Cardinality(Keys) /\ MaxObjects > MaxChildren

\* There is room for the records in the cache, two objects of each call, and one more.
ASSUME RoomOK == MaxObjects > MaxChildren + 2 * Cardinality(Calls) + 1

\* The records that a touch of several read anew.
Batch == [anew : UNION {[ids -> Deck \cup Child \cup {Gone}] : ids \in SUBSET Ids}]

\* Nothing, a record that is not there, and a reply that never comes are no records, the first
\* is no object, child or call either, and the last no reply.
ASSUME NothingOK ==
    /\ None \notin Objects \cup Children \cup Calls \cup Deck \cup Child
    /\ Gone \notin Deck \cup Child \cup {None, Lost} /\ Lost \notin Deck \cup Child \cup {None}
    /\ Lost \notin Batch

VARIABLES
    scene,
    store,          \* Valkey
    mem,            \* per instance: objects, cache slots, who may still fill them, start locks
    conn,           \* per instance: its connection to Valkey
    call,           \* the calls
    view,           \* what the socket of a join or watch was told of each activity
    open,           \* the sockets that are open
    made, ages, losses

vars == <<scene, store, mem, conn, call, view, open, made, ages, losses>>

Calm == [pc |-> "idle", cmd |-> "none", on |-> TheDeck, out |-> None, got |-> None,
         deck |-> None, kid |-> None, id |-> None, todo |-> {}, undo |-> <<>>, left |-> 0,
         key |-> None, orig |-> None, reply |-> "none"]

Steps == {"idle", "open", "work", "auth", "wait", "locked", "existing", "probe", "made",
          "noted", "greet", "greeted", "mint", "minted", "dropped", "replay", "child",
          "token", "undo", "kids", "told", "gone", "reval", "done"}
Values == Deck \cup Child

TypeOK ==
    /\ scene \in Scenes /\ store \in [Ids -> Values \cup {Gone}]
    /\ \A n \in Nodes :
         /\ mem[n].obj \in [Objects -> Values \cup {None}]
         /\ mem[n].slot \in [Ids -> Objects \cup {None}]
         /\ mem[n].owner \in [Ids -> Calls \cup {None}]
         /\ \A k \in Keys : \A j \in 1..Len(mem[n].queue[k]) : mem[n].queue[k][j] \in Calls
         /\ conn[n].ready \subseteq Calls
    /\ \A p \in Calls :
         /\ call[p].pc \in Steps 
         /\ call[p].cmd \in {"none", "get", "set", "del", "touch", "reread"}
         /\ {call[p].deck, call[p].kid} \subseteq Objects \cup {None}
         /\ call[p].id \in Children \cup {None} /\ call[p].todo \subseteq Keys \X Children
         /\ call[p].reply \in {"none", "ok", "refused", "failed"}
    /\ view \in [Calls -> [Keys -> [kid : Children \cup {None}, token : BOOLEAN]]]
    /\ open \subseteq Calls /\ made \in 0..MaxChildren
    /\ ages \in 0..scene.ages /\ losses \in 0..scene.losses

Is(p, k)   == scene.kind[p] = k
Key(p)     == scene.key[p]
Student(p) == scene.student[p]
Sockets    == {p \in Calls : Is(p, "join") \/ Is(p, "watch")}

\* The activities that run to begin with, and their children.
First(s) == CHOOSE f \in [s.running -> 1..Cardinality(s.running)] :
                \A j, k \in s.running : f[j] = f[k] => j = k
Began(s) == [students |-> s.roster, accepted |-> Students, strokes |-> {},
             acts |-> [k \in Keys |-> IF k \in s.running THEN First(s)[k] ELSE None]]
Stored(s) == [i \in Ids |-> IF i = TheDeck THEN Began(s)
                            ELSE IF i <= Cardinality(s.running)
                            THEN [NewChild EXCEPT !.tokens = s.roster] ELSE Gone]

\* Every instance has used the session and has its records in its cache.
Warm(s) == [obj   |-> [o \in Objects |-> IF o - 1 \in Ids /\ Stored(s)[o - 1] # Gone
                                         THEN Stored(s)[o - 1] ELSE None],
            slot  |-> [i \in Ids |-> IF Stored(s)[i] # Gone THEN i + 1 ELSE None],
            owner |-> [i \in Ids |-> None], queue |-> [k \in Keys |-> <<>>]]

Init ==
    /\ scene \in Scenes
    /\ store = Stored(scene)
    /\ mem = [n \in Nodes |-> Warm(scene)] /\ conn = [n \in Nodes |-> Quiet]
    /\ call = [p \in Calls |-> IF Is(p, "none") THEN [Calm EXCEPT !.pc = "done"] ELSE Calm]
    /\ view = [p \in Calls |-> [k \in Keys |-> [kid |-> None, token |-> FALSE]]]
    /\ open = {} /\ made = Cardinality(scene.running) /\ ages = 0 /\ losses = 0
-----------------------------------------------------------------------------
(* The memory of an instance                                               *)

\* Objects nobody refers to are forgotten.
Kept(n, m, calls) ==
    LET used == {m.slot[i] : i \in Ids}
                  \cup UNION {{calls[p].deck, calls[p].kid} : p \in {q \in Calls : At[q] = n}}
    IN  [m EXCEPT !.obj = [o \in Objects |-> IF o \in used THEN m.obj[o] ELSE None]]

Fresh(m)     == CHOOSE o \in Objects : m.obj[o] = None /\ \A q \in Objects : m.obj[q] = None => o <= q
Put(m, o, v) == [m EXCEPT !.obj[o] = v]
Holds(c, i, o) == IF i = TheDeck THEN [c EXCEPT !.deck = o] ELSE [c EXCEPT !.kid = o]
Held(c, i)     == IF i = TheDeck THEN c.deck ELSE c.kid

\* replaceStaleFill and invalidateStaleFill for the call that still owns the slot (none of
\* these records has a mutation revision, so none supersedes another).
Published(m, i, o, p) ==
    IF m.owner[i] = p THEN [m EXCEPT !.slot[i] = o, !.owner[i] = None] ELSE m

\* The memory after the read of i that call p awaited, and the object p holds now.
Loaded(p, i) ==
    LET c == call[p]
        m == mem[At[p]]
    IN  IF c.cmd # "get" THEN [mem |-> m, at |-> Held(c, i)]
        ELSE IF c.got \in {Gone, Lost} THEN [mem |-> Published(m, i, None, p), at |-> None]
        ELSE [mem |-> Published(Put(m, Fresh(m), c.got), i, Fresh(m), p), at |-> Fresh(m)]

\* Call p goes on as c, with memory m, once its command is answered or, if it waits for
\* none, as a microtask; those it wakes do as well.
Becomes(p, m, c, wakes) ==
    LET n == At[p]
        r == Resumed(conn[n], p)
    IN  /\ call' = [call EXCEPT ![p] = c]
        /\ mem' = [mem EXCEPT ![n] = Kept(n, m, call')]
        /\ conn' = [conn EXCEPT ![n] = [IF c.cmd = "none" THEN r ELSE Submit(r, p)
                                        EXCEPT !.ready = @ \cup wakes]]
        /\ UNCHANGED <<scene, store, ages, losses>>

Mind == UNCHANGED <<view, open, made>>      \* no socket is told anything
Goes(p, m, c, step)  == Becomes(p, m, [c EXCEPT !.pc = step, !.cmd = "none"], {p})
Waits(p, m, c, step) == Becomes(p, m, [c EXCEPT !.pc = step, !.cmd = "touch"], {})

\* touch() of some records: a read of each, which is to replace what the cache has of it.
\* (Of a record that is not cached the time to live is renewed first; that is left out.)
Rereads(p, m, c, ids, step) ==
    Becomes(p, [m EXCEPT !.owner = [i \in Ids |-> IF i \in ids THEN p ELSE @[i]]],
            [c EXCEPT !.pc = step, !.cmd = "reread", !.out = ids], {})

\* Mutant of Given: the cache hands out a copy of its object.
Given_Copy(m, i) == [mem |-> Put(m, Fresh(m), m.obj[m.slot[i]]), at |-> Fresh(m)]

\* What a hit hands out: the object itself.
Given(m, i) == [mem |-> m, at |-> m.slot[i]]

\* get()
Get(p, m, c, i, step) ==
    IF m.slot[i] # None
    THEN LET g == Given(m, i) IN Goes(p, g.mem, Holds(c, i, g.at), step)
    ELSE Becomes(p, [m EXCEPT !.owner[i] = p],
                 [Holds(c, i, None) EXCEPT !.pc = step, !.cmd = "get", !.on = i], {})

\* set() of object o, and the memory when it was answered.
Set(p, m, c, i, o, step) ==
    Becomes(p, m, [Holds(c, i, o) EXCEPT !.pc = step, !.cmd = "set", !.on = i, !.out = m.obj[o]], {})
Saved(p) == [mem[At[p]] EXCEPT !.slot[call[p].on] = Held(call[p], call[p].on),
                               !.owner[call[p].on] = None]
SetOK(p) == call[p].got # Lost

\* delete() of some ids: the slots are emptied before the command is sent.
Delete(p, m, c, ids, step) ==
    Becomes(p, [m EXCEPT !.slot  = [i \in Ids |-> IF i \in ids THEN None ELSE @[i]],
                         !.owner = [i \in Ids |-> IF i \in ids THEN None ELSE @[i]]],
            [c EXCEPT !.pc = step, !.cmd = "del", !.out = ids], {})

\* Mutant of Unlocked: a start that failed keeps its lock.
Unlocked_OnSuccess(p, m, reply) ==
    IF reply = "ok" /\ p \in {m.queue[Key(p)][j] : j \in 1..Len(m.queue[Key(p)])}
    THEN [m EXCEPT !.queue[Key(p)] = Tail(@)] ELSE m

\* withEmbeddedActivityStartLock: the work is over, however it ended.
Unlocked(p, m, reply) ==
    IF p \in {m.queue[Key(p)][j] : j \in 1..Len(m.queue[Key(p)])}
    THEN [m EXCEPT !.queue[Key(p)] = Tail(@)] ELSE m

\* The call is answered; the next start in the line goes on.
Answers(p, m, reply) ==
    LET u == Unlocked(p, m, reply)
        next == IF u # m /\ u.queue[Key(p)] # <<>> THEN {Head(u.queue[Key(p)])} ELSE {}
    IN  Becomes(p, u, [Calm EXCEPT !.pc = "done", !.reply = reply, !.id = call[p].id,
                                   !.undo = call[p].undo], next)
-----------------------------------------------------------------------------
(* The handlers                                                            *)

At_(p, step) == call[p].pc = step /\ p \in conn[At[p]].ready
C(p)         == call[p]
M(p)         == mem[At[p]]
Record(l)    == l.mem.obj[l.at]
Running(d)   == {<<k, d.acts[k]>> : k \in {j \in Keys : d.acts[j] # None}}

\* A request comes in, or a socket is opened.
Begin(p) ==
    /\ call[p].pc = "idle" /\ conn[At[p]].ready = {} /\ ~Is(p, "keepalive")
    /\ Get(p, M(p), C(p), TheDeck, "open")
    /\ open' = IF p \in Sockets THEN open \cup {p} ELSE open
    /\ UNCHANGED <<view, made>>

\* The records call p touched whose answers are not in the cache yet.
Rereading(p) == {i \in Ids : C(p).cmd = "reread" /\ M(p).owner[i] = p}

\* An answer replaces the object in the cache; without one its slot is emptied.
Refill(p) ==
    /\ p \in conn[At[p]].ready
    /\ \E i \in Rereading(p) :
         LET m == M(p)
             v == IF C(p).got = Lost THEN Gone ELSE C(p).got.anew[i]
             r == IF v = Gone THEN Published(m, i, None, p)
                  ELSE Published(Put(m, Fresh(m), v), i, Fresh(m), p)
         IN  mem' = [mem EXCEPT ![At[p]] = Kept(At[p], r, call)]
    /\ UNCHANGED <<scene, store, conn, call, view, open, made, ages, losses>>

\* A call that was given a child, and whose get has not touched the deck yet.
ChildSteps == {"existing", "greet", "mint", "child"}
HasChild(p) ==
    /\ call[p].pc \in ChildSteps /\ C(p).cmd # "reread" /\ Loaded(p, C(p).id).at # None

\* get() of a child touches the deck before it returns.
TouchDeck(p) ==
    /\ p \in conn[At[p]].ready /\ HasChild(p) /\ Mind
    /\ scene.touches \/ M(p).slot[TheDeck] = None
    /\ LET l == Loaded(p, C(p).id)
       IN  Rereads(p, l.mem, [C(p) EXCEPT !.kid = l.at], {TheDeck}, C(p).pc)

\* What a call awaits besides its record has been answered.
Touched(p) == Rereading(p) = {} /\ (HasChild(p) => M(p).slot[TheDeck] # None)

\* getSyncDeckSessionWithEmbeddedKeepalive: the children may have to be touched, those that
\* are not cached and those whose time has come are read anew.
Open(p) ==
    /\ At_(p, "open")
    /\ LET l == Loaded(p, TheDeck)
           c == [C(p) EXCEPT !.deck = l.at]
       IN  \/ l.at = None /\ Answers(p, l.mem, "refused") /\ open' = open \ {p}
           \/ l.at # None /\ Goes(p, l.mem, c, "work") /\ UNCHANGED open
           \/ /\ l.at # None /\ scene.touches /\ UNCHANGED open
              /\ LET kids == {r[2] : r \in Running(Record(l))}
                 IN  \E ids \in SUBSET kids \ {{}} :
                        /\ {i \in kids : l.mem.slot[i] = None} \subseteq ids
                        /\ Rereads(p, l.mem, c, ids, "work")
    /\ UNCHANGED <<view, made>>

Working(p, k) == At_(p, "work") /\ Is(p, k)
MyDeck(p)     == M(p).obj[C(p).deck]
Changed(p, d) == Put(M(p), C(p).deck, d)     \* the object the call holds, changed
Write(p, d)   == Set(p, Changed(p, d), C(p), TheDeck, C(p).deck, "noted")
Refuses(p)    == Answers(p, M(p), "refused")
Fails(p)      == Answers(p, M(p), "failed")

\* An instructor's message, or the configuration.
Update(p) ==
    /\ Working(p, "update") /\ Mind
    /\ Write(p, [MyDeck(p) EXCEPT !.strokes = @ \cup {p}])

\* The student is found in the roster, or enters it if the waiting room accepted it.
Join(p) ==
    /\ Working(p, "join") /\ UNCHANGED <<view, made>>
    /\ \/ /\ Student(p) \in MyDeck(p).students \cup MyDeck(p).accepted
          /\ Write(p, [MyDeck(p) EXCEPT !.students = @ \cup {Student(p)}]) /\ UNCHANGED open
       \/ /\ Student(p) \notin MyDeck(p).students \cup MyDeck(p).accepted
          /\ Refuses(p) /\ open' = open \ {p}

\* The instructor's socket waits for the message that proves the role.
Watch(p) ==
    /\ Working(p, "watch") /\ Mind
    /\ Becomes(p, M(p), [C(p) EXCEPT !.pc = "auth", !.cmd = "none"], {})
Authenticate(p) ==
    /\ call[p].pc = "auth" /\ conn[At[p]].ready = {} /\ Mind
    /\ Goes(p, M(p), [C(p) EXCEPT !.todo = Running(MyDeck(p))], "replay")

\* An activity is ended: its entry goes first, then its child.
EndActivity(p) ==
    /\ Working(p, "end") /\ Mind
    /\ LET kid == MyDeck(p).acts[Key(p)] IN
         \/ kid = None /\ Refuses(p)
         \/ kid # None
            /\ Set(p, Changed(p, [MyDeck(p) EXCEPT !.acts[Key(p)] = None]), [C(p) EXCEPT !.id = kid],
                   TheDeck, C(p).deck, "noted")

\* A student asks for a token into a running activity.
Enter(p) ==
    /\ Working(p, "entry") /\ Mind
    /\ LET kid == MyDeck(p).acts[Key(p)] IN
         \/ (kid = None \/ Student(p) \notin MyDeck(p).students) /\ Refuses(p)
         \/ kid # None /\ Student(p) \in MyDeck(p).students
            /\ Get(p, M(p), [C(p) EXCEPT !.id = kid], kid, "child")

\* A student is sent back to the waiting room: all is done to a clone of the record.
Return(p) ==
    /\ Working(p, "return") /\ Mind
    /\ LET d == MyDeck(p)
           o == Fresh(M(p))
           e == [d EXCEPT !.accepted = @ \ {Student(p)}]
       IN  \/ Student(p) \notin d.students \cap d.accepted /\ Refuses(p)
           \/ Student(p) \in d.students \cap d.accepted
              /\ Goes(p, Put(M(p), o, e), [C(p) EXCEPT !.deck = o, !.todo = Running(e)], "replay")

\* The session is deleted: its children first.
DeleteDeck(p) ==
    /\ Working(p, "delete") /\ Mind
    /\ Delete(p, M(p), C(p), {r[2] : r \in Running(MyDeck(p))}, "kids")
TellAll(p) == At_(p, "kids") /\ Mind /\ Waits(p, M(p), C(p), "told")
DropDeck(p) == At_(p, "told") /\ Mind /\ Delete(p, M(p), C(p), {TheDeck}, "gone")
Deleted(p) == At_(p, "gone") /\ Mind /\ Answers(p, M(p), "ok")

\* A child in use touches its deck.
Keepalive(p) ==
    /\ Is(p, "keepalive") /\ call[p].pc = "idle" /\ conn[At[p]].ready = {} /\ Mind
    /\ Rereads(p, M(p), C(p), {TheDeck}, "reval")
Revalidated(p) == At_(p, "reval") /\ Mind /\ Answers(p, M(p), "ok")
-----------------------------------------------------------------------------
(* Starting an activity                                                    *)

\* The line of starts of this activity on this instance.
Queue(p) ==
    /\ Working(p, "start") /\ Mind
    /\ LET m == [M(p) EXCEPT !.queue[Key(p)] = Append(@, p)] IN
         Becomes(p, m, [C(p) EXCEPT !.pc = "wait", !.cmd = "none", !.deck = None],
                 IF m.queue[Key(p)] = <<p>> THEN {p} ELSE {})

Turn(p) == At_(p, "wait") /\ Mind /\ Get(p, M(p), C(p), TheDeck, "locked")

\* The child of the entry, if there is one, is looked up; generateHexId probes for an id.
Look(p) ==
    /\ At_(p, "locked") /\ Mind
    /\ LET l == Loaded(p, TheDeck)
           c == [C(p) EXCEPT !.deck = l.at]
       IN  \/ l.at = None /\ Answers(p, l.mem, "refused")
           \/ /\ l.at # None
              /\ LET kid == Record(l).acts[Key(p)] IN
                   IF kid = None THEN Waits(p, l.mem, c, "probe")
                   ELSE Get(p, l.mem, [c EXCEPT !.id = kid], kid, "existing")

\* Minting the manager's token into the child, if it has none.
Mint(p, l) ==
    IF Record(l).manager THEN Answers(p, l.mem, "ok")
    ELSE Set(p, Put(l.mem, l.at, [Record(l) EXCEPT !.manager = TRUE]), C(p), C(p).id, l.at, "minted")

\* The child that is there is the answer; an entry whose child is gone is removed.
Existing(p) ==
    /\ At_(p, "existing") /\ Mind
    /\ LET l == Loaded(p, C(p).id) IN
         IF l.at # None THEN Mint(p, l)
         ELSE Waits(p, Put(l.mem, C(p).deck, [MyDeck(p) EXCEPT !.acts[Key(p)] = None]), C(p), "probe")

\* createEmbeddedChildSession
Create(p) ==
    /\ At_(p, "probe") /\ made < MaxChildren /\ made' = made + 1
    /\ LET o == Fresh(M(p)) IN
         Set(p, Put(M(p), o, NewChild), [C(p) EXCEPT !.id = made'], made', o, "made")
    /\ UNCHANGED <<view, open>>

\* The entry is written into the record.
Note(p) ==
    /\ At_(p, "made") /\ Mind
    /\ \/ ~SetOK(p) /\ Fails(p)
       \/ SetOK(p) /\ Set(p, Put(Saved(p), C(p).deck, [MyDeck(p) EXCEPT !.acts[Key(p)] = C(p).id]),
                          C(p), TheDeck, C(p).deck, "noted")

\* broadcastEmbeddedActivityStart: the students whose sockets are open here are handed a
\* token each, and every socket is told.
Connected(p) == {Student(q) : q \in {r \in open : At[r] = At[p] /\ Is(r, "join")}} \cap MyDeck(p).students
Greet(p) ==
    /\ At_(p, "greet") /\ Mind
    /\ LET l == Loaded(p, C(p).id) IN
         IF l.at = None THEN Get(p, l.mem, C(p), C(p).id, "mint")
         ELSE LET kid == [Record(l) EXCEPT !.tokens = @ \cup Connected(p)] IN
              Set(p, Put(l.mem, l.at, kid), [C(p) EXCEPT !.orig = Connected(p)], C(p).id, l.at, "greeted")

\* Mutant of Hears: only sockets whose admission is complete.
Hears_Admitted(p) == {q \in open : At[q] = At[p] /\ call[q].pc = "done"}

\* A broadcast goes to the open sockets of this instance.
Hears(p) == {q \in open : At[q] = At[p]}
Announce(p) ==
    /\ At_(p, "greeted") /\ UNCHANGED <<open, made>>
    /\ \/ ~SetOK(p) /\ Fails(p) /\ UNCHANGED view
       \/ /\ SetOK(p) /\ Get(p, Saved(p), C(p), C(p).id, "mint")
          /\ view' = [q \in Calls |->
                 IF q \in Hears(p)
                 THEN [view[q] EXCEPT ![Key(p)] =
                         [kid |-> C(p).id, token |-> Is(q, "join") /\ Student(q) \in C(p).orig]]
                 ELSE view[q]]
Bootstrap(p) ==
    /\ At_(p, "mint") /\ Mind
    /\ LET l == Loaded(p, C(p).id) IN IF l.at = None THEN Answers(p, l.mem, "ok") ELSE Mint(p, l)
Minted(p) ==
    /\ At_(p, "minted") /\ Mind
    /\ IF SetOK(p) THEN Answers(p, Saved(p), "ok") ELSE Fails(p)
-----------------------------------------------------------------------------
(* What follows a write of the record                                      *)

\* The record was not written: the request fails, the student's socket is closed.
NotNoted(p) ==
    /\ At_(p, "noted") /\ ~SetOK(p) /\ ~Is(p, "return") /\ Fails(p)
    /\ open' = open \ {p} /\ UNCHANGED <<view, made>>

Noted(p) ==
    /\ At_(p, "noted") /\ SetOK(p) /\ UNCHANGED <<view, made>>
    /\ \/ Is(p, "update") /\ Answers(p, Saved(p), "ok") /\ UNCHANGED open
       \/ Is(p, "start") /\ Get(p, Saved(p), C(p), C(p).id, "greet") /\ UNCHANGED open
       \/ Is(p, "end") /\ Delete(p, Saved(p), C(p), {C(p).id}, "dropped") /\ UNCHANGED open
       \* an older socket of the student is closed
       \/ /\ Is(p, "join")
          /\ Goes(p, Saved(p), [C(p) EXCEPT !.todo = Running(MyDeck(p))], "replay")
          /\ open' = {q \in open : q = p \/ At[q] # At[p] \/ ~Is(q, "join") \/ Student(q) # Student(p)}
       \* the returned student's sockets are closed
       \/ /\ Is(p, "return") /\ Answers(p, Saved(p), "ok")
          /\ open' = {q \in open : At[q] # At[p] \/ ~Is(q, "join") \/ Student(q) # Student(p)}

\* The end is broadcast, whether the child was deleted or not.
Ended(p) ==
    /\ At_(p, "dropped") /\ Answers(p, M(p), "ok") /\ UNCHANGED <<open, made>>
    /\ view' = [q \in Calls |-> IF q \in Hears(p)
                                THEN [view[q] EXCEPT ![Key(p)] = [kid |-> None, token |-> FALSE]]
                                ELSE view[q]]

\* The socket of p is told of the child that was looked up.
Told(p, token) == view' = [view EXCEPT ![p][C(p).key] = [kid |-> C(p).id, token |-> token]]

\* A socket is sent the activities that run, one after the other; a return goes through
\* their children in the same way.
Replay(p) ==
    /\ At_(p, "replay") /\ Mind
    /\ \/ /\ C(p).todo = {}
          /\ IF Is(p, "return")
             THEN Write(p, [MyDeck(p) EXCEPT !.students = @ \ {Student(p)}])
             ELSE Answers(p, M(p), "ok")
       \/ p \in Sockets /\ p \notin open /\ C(p).todo # {} /\ Answers(p, M(p), "ok")
       \/ /\ p \in Sockets => p \in open
          /\ \E r \in C(p).todo :
               Get(p, M(p), [C(p) EXCEPT !.todo = @ \ {r}, !.id = r[2], !.key = r[1]], r[2],
                   "child")

\* The child was read: a student's token is stored in it, or the returned student is
\* revoked in a clone of it.
Lookup(p) ==
    /\ At_(p, "child") /\ UNCHANGED made
    /\ LET l == Loaded(p, C(p).id)
           kid == Record(l)
           o == Fresh(l.mem)
       IN  \/ p \in Sockets /\ p \notin open /\ Answers(p, l.mem, "ok") /\ UNCHANGED <<view, open>>
           \/ /\ l.at = None /\ (p \in Sockets => p \in open) /\ UNCHANGED <<view, open>>
              /\ IF Is(p, "entry") THEN Answers(p, l.mem, "refused") ELSE Goes(p, l.mem, C(p), "replay")
           \/ /\ l.at # None /\ Is(p, "watch") /\ p \in open /\ UNCHANGED open
              /\ Goes(p, l.mem, C(p), "replay") /\ Told(p, FALSE)
           \/ /\ l.at # None /\ (Is(p, "entry") \/ (Is(p, "join") /\ p \in open)) /\ UNCHANGED <<view, open>>
              /\ Set(p, Put(l.mem, l.at, [kid EXCEPT !.tokens = @ \cup {Student(p)}]), C(p), C(p).id,
                     l.at, "token")
           \/ /\ l.at # None /\ Is(p, "return") /\ UNCHANGED <<view, open>>
              /\ Set(p, Put(l.mem, o, [kid EXCEPT !.tokens = @ \ {Student(p)}]),
                     [C(p) EXCEPT !.orig = kid], C(p).id, o, "token")

Token(p) ==
    /\ At_(p, "token") /\ UNCHANGED made
    /\ \/ ~SetOK(p) /\ ~Is(p, "return") /\ Fails(p) /\ open' = open \ {p} /\ UNCHANGED view
       \/ SetOK(p) /\ Is(p, "entry") /\ Answers(p, Saved(p), "ok") /\ UNCHANGED <<view, open>>
       \/ /\ SetOK(p) /\ Is(p, "join") /\ Goes(p, Saved(p), C(p), "replay") /\ UNCHANGED open
          /\ IF p \in open THEN Told(p, TRUE) ELSE UNCHANGED view
       \/ /\ SetOK(p) /\ Is(p, "return") /\ UNCHANGED <<view, open>>
          /\ Goes(p, Saved(p), [C(p) EXCEPT !.undo = Append(@, <<C(p).id, C(p).orig>>), !.orig = None],
                  "replay")

\* Mutant of Undo: the children stay as the return left them.
Undo_Nothing(p) ==
    /\ \/ (At_(p, "token") \/ At_(p, "noted")) /\ ~SetOK(p)
       \/ At_(p, "undo")
    /\ Is(p, "return") /\ Mind /\ Fails(p)

\* A return that fails writes the children back that it had written, the last one first,
\* whether that succeeds or not.
Undo(p) ==
    /\ \/ (At_(p, "token") \/ At_(p, "noted")) /\ ~SetOK(p)
       \/ At_(p, "undo")
    /\ Is(p, "return") /\ Mind
    /\ LET m == IF SetOK(p) THEN Saved(p) ELSE M(p)
           j == IF C(p).pc = "undo" THEN C(p).left ELSE Len(C(p).undo)
           o == Fresh(m)
       IN  IF j = 0 THEN Answers(p, m, "failed")
           ELSE Set(p, Put(m, o, C(p).undo[j][2]), [C(p) EXCEPT !.left = j - 1], C(p).undo[j][1], o,
                    "undo")
-----------------------------------------------------------------------------
(* Valkey, the connections and the cache                                   *)

\* A write replaces the whole record.
Written(c) == IF c.cmd = "set" THEN [store EXCEPT ![c.on] = c.out]
              ELSE IF c.cmd = "del" THEN [i \in Ids |-> IF i \in c.out THEN Gone ELSE store[i]]
              ELSE store

\* What Valkey answers to a read, and to the reads of several records.
Reply(c) == CASE c.cmd = "get"    -> store[c.on]
              [] c.cmd = "reread" -> [anew |-> [i \in c.out |-> store[i]]]
              [] OTHER            -> None

\* Valkey runs the next command of an instance.
Exec(n) ==
    /\ conn[n].sent # <<>>
    /\ LET p == NextSent(conn[n]) IN
         /\ store' = Written(call[p])
         /\ call' = [call EXCEPT ![p].out = None, ![p].got = Reply(call[p])]
    /\ conn' = [conn EXCEPT ![n] = Ran(@)]
    /\ UNCHANGED <<scene, mem, view, open, made, ages, losses>>

\* The next answers are read.
Receive(n) ==
    /\ Free(conn[n]) /\ conn[n].back # <<>>
    /\ \E k \in 1..Len(conn[n].back) : k <= scene.chunk /\ conn' = [conn EXCEPT ![n] = Read(@, k)]
    /\ UNCHANGED <<scene, store, mem, call, view, open, made, ages, losses>>

\* A connection is given up: what is not answered fails, executed or not.
Lose(n) ==
    /\ losses < scene.losses /\ Free(conn[n]) /\ Unanswered(conn[n]) # {} /\ losses' = losses + 1
    /\ call' = [p \in Calls |-> IF p \in Unanswered(conn[n])
                                THEN [call[p] EXCEPT !.got = Lost, !.out = None] ELSE call[p]]
    /\ conn' = [conn EXCEPT ![n] = GivenUp(@)]
    /\ UNCHANGED <<scene, store, mem, view, open, made, ages>>

\* The time of an entry in a cache is over.
Age(n, i) ==
    /\ ages < scene.ages /\ Free(conn[n]) /\ mem[n].slot[i] # None /\ ages' = ages + 1
    /\ mem' = [mem EXCEPT ![n] = Kept(n, [@ EXCEPT !.slot[i] = None], call)]
    /\ UNCHANGED <<scene, store, conn, call, view, open, made, losses>>

Handle(p) ==
    \/ Open(p) \/ Update(p) \/ Join(p) \/ Watch(p) \/ EndActivity(p) \/ Enter(p) \/ Return(p)
    \/ DeleteDeck(p) \/ TellAll(p) \/ DropDeck(p) \/ Deleted(p) \/ Revalidated(p)
    \/ Queue(p) \/ Turn(p) \/ Look(p) \/ Existing(p) \/ Create(p) \/ Note(p) \/ Greet(p)
    \/ Announce(p) \/ Bootstrap(p) \/ Minted(p) \/ NotNoted(p) \/ Noted(p) \/ Ended(p)
    \/ Replay(p) \/ Lookup(p) \/ Token(p) \/ Undo(p)

Resume(p) == Refill(p) \/ TouchDeck(p) \/ (Touched(p) /\ Handle(p))

Next ==
    \/ \E p \in Calls : Begin(p) \/ Keepalive(p) \/ Authenticate(p) \/ Resume(p)
    \/ \E n \in Nodes : Exec(n) \/ Receive(n) \/ Lose(n) \/ \E i \in Ids : Age(n, i)

Spec == Init /\ [][Next]_vars

\* The event loop runs what is ready, and Valkey and its connection work.
FairSpec == Spec /\ WF_vars((\E p \in Calls : Resume(p)) \/ \E n \in Nodes : Exec(n) \/ Receive(n))
-----------------------------------------------------------------------------
(* Properties                                                              *)

Done(p, k)  == Is(p, k) /\ call[p].reply = "ok"
AtRest      == \A p \in Calls : call[p].pc \in {"idle", "done", "auth"}
Has(ks)     == \E p \in Calls : scene.kind[p] \in ks
OneInstance == Cardinality({At[p] : p \in {q \in Calls : ~Is(q, "none")}}) = 1

\* One instance whose cache keeps its objects, nobody who replaces or deletes them (no touch
\* that reads a record anew while it is in use either), and, if activities end, answers that
\* are read one at a time: a handler that was answered from the cache and the deletion of
\* that child must not be resumed together.
Sheltered == /\ OneInstance /\ scene.ages = 0 /\ scene.losses = 0 /\ ~scene.touches
             /\ (Has({"end"}) => scene.chunk = 1)
             /\ ~Has({"return", "delete", "keepalive"})

\* While the handlers of one instance share the cached record, no answered change is lost:
\* not a student, a stroke, a token, or the entry of an activity that nobody ended (so that
\* the starts of one activity were all answered with the same child).
NothingIsLost ==
    Sheltered => \A p \in Calls :
        /\ Done(p, "join") => Student(p) \in store[TheDeck].students
        /\ Done(p, "update") => p \in store[TheDeck].strokes
        /\ Done(p, "entry") /\ store[call[p].id] # Gone => Student(p) \in store[call[p].id].tokens
        /\ Done(p, "start") /\ store[call[p].id] # Gone =>
               \/ store[TheDeck].acts[Key(p)] = call[p].id
               \/ \E q \in Calls : Is(q, "end") /\ Key(q) = Key(p) /\ call[q].pc # "idle"

\* Starts of one activity come to one child as long as it lives (the plan of the embedded
\* activities, "at most one active child session").  Not among the runs: a return, a
\* touch, an eviction or a second instance breaks it, see README.
AtMostOneChild ==
    \A p, q \in Calls :
        Done(p, "start") /\ Done(q, "start") /\ Key(p) = Key(q) /\ call[p].id # call[q].id
            => Gone \in {store[call[p].id], store[call[q].id]}

\* If activities end there are at most two of them, started ones included: a socket that goes
\* through more of them reaches the last ones long after an end, and stores them again.
AtMostTwo == Has({"end"}) =>
                 Cardinality(scene.running \cup {Key(p) : p \in {q \in Calls : Is(q, "start")}}) <= 2

\* At rest the record, the children and the sockets agree: each entry has its child and each
\* child its entry (the map is the source of truth for what runs), unless it was ended while
\* the start that made it was still handing out tokens, which stores it again; and every
\* socket shows what runs, a student's with a token into the child, whatever happened while
\* it was being admitted.
RecordIsTruth ==
    Sheltered /\ AtMostTwo /\ AtRest =>
        /\ \A r \in Running(store[TheDeck]) : store[r[2]] # Gone
        /\ \A i \in Children : store[i] # Gone =>
              \/ \E k \in Keys : store[TheDeck].acts[k] = i
              \/ /\ i > Cardinality(scene.running)
                 /\ \E q \in Calls : Is(q, "end") /\ call[q].id = i
        /\ \A p \in open : Done(p, "join") \/ Done(p, "watch") => \A k \in Keys :
              /\ view[p][k].kid = store[TheDeck].acts[k]
              /\ Is(p, "join") /\ view[p][k].kid # None =>
                     view[p][k].token /\ Student(p) \in store[view[p][k].kid].tokens

\* One call only.
Alone == \A p, q \in Calls : ~Is(p, "none") /\ ~Is(q, "none") => p = q

\* A return that was answered has revoked the student everywhere.  Not among the runs: a child
\* whose record cannot be read counts as gone, and is left as it is, see README.
Revoked(p) ==
    /\ Student(p) \notin store[TheDeck].students \cup store[TheDeck].accepted
    /\ \A i \in Children : store[i] # Gone => Student(p) \notin store[i].tokens
ReturnsRevoke == Alone => \A p \in Calls : Done(p, "return") => Revoked(p)

\* A return that nobody disturbs revokes the student everywhere, unless a record left the cache,
\* for its age or for a touch that failed, and a connection was lost after that: the read of a
\* child may then have failed.  One that fails leaves every child it had written as it was
\* before, if only one connection was lost.
ReturnsAreWhole ==
    Alone => \A p \in Calls :
        /\ Done(p, "return") /\ (losses = 0 \/ (ages = 0 /\ losses <= 1)) => Revoked(p)
        /\ Is(p, "return") /\ call[p].reply = "failed" /\ losses <= 1 =>
               \A j \in 1..Len(call[p].undo) : store[call[p].undo[j][1]] = call[p].undo[j][2]

\* Every start is answered, whatever failed before it in the line or in its own work.
StartsAnswered == []<>(\A p \in Calls : Is(p, "start") => call[p].pc \in {"idle", "done"})
=============================================================================
