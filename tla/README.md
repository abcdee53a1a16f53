# TLA+ models of ActiveBits

ActiveBits (this repository) serves classroom activities: a teacher opens a *session*, students join it from
their browsers, and an activity's handlers keep its state in the session's data. One or more Node server
instances share a Valkey database; without one, a single instance keeps everything in memory. This directory
holds models of the parts of the server whose correctness depends on the order of events, the TLC
configurations that check them, and machine-checked proofs about them.

Run `tlc -config <X>.cfg <Module>.tla` for a configuration of the table below, and `tlapm <X>_proofs.tla` for
the proofs. `PROJECT.json` maps every definition to the lines it models.

## 1. The system

| part | state | operations | what must hold |
|---|---|---|---|
| Session cache (`server/core/sessionCache.ts`) | a bounded insertion-ordered map, deferred keepalives, a write generation per id | get, set, fill, invalidate, touch, flushTouches, cleanup, clear | a fill publishes exactly when nothing happened to its slot during its await |
| Session store (`sessions.ts`, `valkeyStore.ts`) | Valkey keys `session:<id>`; one cache per instance | get, getStrict, set, compareAndSet, updateAtomic, token consumes, delete, touch, createSession | no reported mutation is lost, a token is used once, caches do not go back |
| In-memory store (`sessions.ts` 131-291) | one object | the same | the same, without concurrency inside an operation |
| Permanent links (`persistentSessions.ts`, `persistentSessionWs.ts`, `persistentSessionEntryGateway.ts`, `routes/persistentSessionRoutes.ts`) | Valkey keys `persistent:<hash>` and `persistent-session-by-session:<id>`; waiting sockets per instance; a cleanup timer per instance | join, verify and start, rollback, reset on end, visit (which may write the record back), edit options, enrol and redeem an entry participant, remove, sweep | the link leads to a live session, starts do not undo each other, nobody waits in vain |
| Session end, pub/sub, router (`wsRouter.ts`, `broadcastUtils.ts`) | sockets, subscriptions, heartbeat flags, timers | end, publish, deliver, ping, terminate | every connected client learns of the end |
| Participants (`entryParticipants.ts`, `accepted*.ts`, `sessionParticipants.ts`, ...) | inside a session's data | store, consume, accept, connect | tokens are one-shot, identities stable |
| Video sync (`activities/video-sync`) | playback state and a window of command ids in the session; sockets, timers and a queue per instance; views and retries in the browsers | command, configure, heartbeat, fetch, connect; gestures and reports of an end | commands once and in order, an end stops what it saw, views go forward and catch up |
| SyncDeck (`activities/syncdeck/server`) | the deck's record, one child session per embedded activity, start locks in memory; a Learn resource's entry and its start lock in Valkey | launch, stop, status; start and end an activity, join, watch, hand out a token, return a student, delete | one launch per class, no change of the shared record lost, record, children and sockets agree |
| SyncDeck's slides (`activities/syncdeck/client`, the relay in `server/routes.ts`) | a frame with the presentation in every page; what the page was told, whether its student went back, what its instructor restores; the last messages on the server | move, set a boundary, force sync, fast-forward, reload, reconnect | followers keep up, instructors agree, what a page does for another goes round once |
| Other activities | inside a session's data | their routes and messages | raffle: no ticket lost; resonance, boards: nothing overwritten |
| Client hook (`client/src/hooks/useResilientWebSocket.ts`) | one socket, a reconnect timer and flags per page | connect, reconnect, disconnect | comes back after a loss, one connection, the page's idea of it is right |

How they interact. Routes and socket handlers are JavaScript async functions: between two awaits nothing else
of their instance runs, at an await anything may. Each instance talks to Valkey over one `ioredis` connection,
so its commands run in the order they were sent, and a Lua script runs alone; commands of different instances
interleave freely. A lost connection is re-established and every unanswered command sent *again*, executed or
not, until `maxRetriesPerRequest` (3) runs out and all of them are rejected, executed or not (`valkeyStore.ts`
52-72). Reads come in two flavours: a *strict* one rejects, the plain one turns a failure into "not there".
Activities call only the session store; permanent links call their own records in Valkey and the session
store.

What is hard: records read before an await and written back after it; a cache per instance without
coordination; fills that race with writes; identifiers re-used after a delete; commands executed twice or
executed although reported failed; two teachers starting one link; students connecting in the middle of it.
`PROJECT.json` lists these hazards line by line with the properties that would catch them, or why none does
yet.

## 2. Modules

    SlotOps             the cache as one session id sees it (operators)
      SessionStore      calls on several instances over one Valkey
        SessionStoreImpl   ... implements SessionRegister
        SessionStore_proofs, MCSessionStore
    SessionRegister     the abstract promise: an atomic register per id
    SessionCache        the cache itself; its steps are SlotOps steps (StepsAreSlotOps)
        SessionCache_proofs, MCSessionCache
    Pipeline            a connection with commands and replies, as a value
      PersistentLink    one link, its waiting rooms, the calls about it
          PersistentLink_proofs, MCPersistentLink
      EmbeddedActivities   a SyncDeck session, its children and their handlers
          EmbeddedActivities_proofs, EmbeddedReturn_proofs, MCEmbeddedActivities
    SessionSockets      the sockets of a page, the router, the end of a session
        SessionSockets_proofs, MCSessionSockets
    VideoSyncState      the playback state as a value (operators)
      VideoSync         instances, managers and students around it
        VideoSync_proofs, MCVideoSync
    DeckSync            the slides: frames, pages and the relay; MCDeckSync
    LearnLaunch         the launches of one Learn resource
        LearnLaunch_proofs, MCLearnLaunch

**SlotOps / SessionCache.** `SessionCache` is `sessionCache.ts` operation by operation: `entry` and `order`
are the `Map` and its insertion order, `touchQueue` the deferred keepalives, `generation` and `writeSeq` the
write generations. A fill is `BeginFill` (claim a generation), an arbitrary wait, and `FillFound` or
`FillMissing`, which publish only if the token still matches. `SlotOps` says the same in terms of who *owns* a
slot, without numbers; the store model uses it, and `StepsAreSlotOps` checks that every step of `SessionCache`
is one of its operators (a sweep that empties the cache while no fill runs is the only step that empties
several slots at once), so the two do not drift apart. It says nothing while a fill is awaited that a sweep
ran into: with Valkey only the store's own `cleanup()` calls the cache's, and only tests call that, so the
store model has no sweeps; what such a fill may do is `OwnersAreUndisturbed`, `LateFillsDefer` and the
disagreement `PrunedFillsDrop`. `SlotOps` evicts any other slot; the recency order is only in `SessionCache`.

**SessionStore.** A call is one invocation of a store operation, with its program point `pc`: either the
Valkey command it awaits or a local step. `Start(p)` is the code up to the first await, `Exec(p)` Valkey
running the command, `Resume(p)` a continuation. `ahead` keeps the order of a connection. Continuations of
replies that came together run in the order of their await depth, so an answer overtakes only one sent before
it that has more awaits to pass (`Deep`, `Overtakes`): the reads through the plain `get` pass two more than
the others, a token's consume one more or none. Nothing overtakes a `set`, and that the reads of fills keep
their order among themselves matters as well: if they could overtake each other, four calls would roll a cache
back. `Resend` and `Reject` lose a connection, `Age` ages a cache entry, `Expire` ends a key. A record is its
incarnation (`created`, compared only for equality), its `mutationRevision`, the set of calls whose mutation
it contains and one one-shot token; `ver`, `took`, `acked`, `shown` and `buried` are history variables the
properties use and no guard reads.

**SessionRegister.** What `sessions.ts` 85-102 promise of the atomic operations: per id a register in which
each call takes effect once, at one instant, on the live incarnation, before it reports success.
`SessionStoreImpl` maps the store to it by forgetting revisions.

**Pipeline / PersistentLink.** The record of one link, its reverse index, the live sessions, one connection
and one waiting room per instance. Calls are handler invocations on a fixed instance (`At`); each value of
`Commands` is an await. POST `create` and `update` read, and write back, as an `enter` does, and then edit:
they are an `enter` followed by an `edit`. What the calls are is the *scene* a behaviour starts from (`scene`,
one of `Scenes`): their kinds, the sockets that wait already, how many connection losses there may be and
whether live sessions may outlive their time. A reply carries the record that was in Valkey when the command
ran; `Got` turns a rejected read into "not there", as the plain `get` does. Replies are read in order, any
number at once, and all continuations they resume run before anything else of that instance happens (`Free`):
this is why a join in progress is registered before a start that was answered later tells the waiters. `told`,
`authed`, `broken`, `rolledBack`, `linked`, `writer`, `dropped` and `issued` are history (`issued` also names
what a redeem may be about).

**SessionSockets.** The browser's hook and the server's router as two ends of numbered sockets. A socket has
the browser's end (`st`) and the server's (`sv`: upgraded and `looking` the session up, `found`, `on` the
session, `off`), and either may be told of a close late, or never (`cut`; the heartbeat then terminates it).
`cur`, `torn`, `manual` and `timer` are the hook's refs; a render runs the hook's effects anew. `job` is the
delete route between its awaits: mark the session ended, publish over Valkey, remove the record. `notes` is
when the activity's handler notes the session of a socket: without reading it, before or after the read.

**VideoSyncState / VideoSync.** `VideoSyncState` has the functions server and clients compute with: the
position at a time, the end at a stop, a command's effect, which of two states supersedes. In `VideoSync`
every handler is a job in its instance's queue for the session (`withSessionMutation`), with its steps `read`,
`commit`, `project`, `publish` between awaits; instances share the record, changed by `updateAtomic` in one
step (what `SessionRegister` promises), and broadcasts. Heartbeats and fetches project the playback twice, at
the commit and again, by a clock of then, when the store has answered (`Project`). A state carries the time it
was projected at (`ts`). A viewer's request lanes run independently; requests and frames arrive in any order.
`want` and `retries` are the manager's gesture loop (send, compare the view, send again); `applied` and
`confirmed` are history.

**LearnLaunch.** One resource: its `entry` in Valkey and in the caches of the instances, the start `lock` with
a lease, and requests that go from `pc` to `pc` between awaits: `get`, `session`, `drop`, `refresh` are
`loadEntry` before the lock, `again`, `loaded`, `note`, `create`, `activate`, `undo`, `token`, `release` the
work under it. A step reads what the cache of its instance says; writes go to both. Faults (`bad`) are failing
claims, reads, writes, tokens, releases, a crash of the request's instance, a lost lease, an expired entry.

**EmbeddedActivities.** `get()` hands out the object in the cache, so handlers of one instance share it: `mem`
holds the objects an instance has, which object each cache slot shows, and who may still fill it; a handler
refers to an object (`deck`, `kid`), changes it and writes what it is at that moment. A scene says what the
calls are, how many replies are read together (`chunk`: continuations then run in one go), whether the time
comes when touches read cached records anew (`touches`), how often entries leave the cache (`ages`) and how
often a connection is lost. A touch (`Rereads`) reads the record and puts a *new* object in the slot, or
empties it (`Refill`): `TouchDeck` is the one in every `get` of a child (sessions.ts 367-370), `Open` has
those of the children by a request about their deck (syncdeck routes.ts 1351-1353), `Keepalive` the one of a
child in use. A handler that holds the old object goes on with it. `locked` is the line of starts in
`withEmbeddedActivityStartLock`.

**DeckSync.** A page and the presentation in its frame exchange messages (`posts` in, `says` out), pages and
server others (`up`, `down`); each queue keeps its order and nothing else is ordered. `stud` and `inst` are
the refs of the two pages, `record` the two payloads the server keeps, `sets` what it has noted and is still
writing. A place is a slide and one of two vertical children. `StudentHears` is `handleWsMessage` in its
order: follow or not (`Noted`), the boundary and the opt-out (`Bounded`), the commands for the frame
(`Replay`). `InstructorLearns` is `handleMessage` of the manager: what `Woken` restores in a fresh frame, what
is suppressed while a restore is `armed`, what `Relayed` tells the server. The plugin in the frame is not in
the repository; `StudentFrame` and `InstructorFrame` are the schema of its messages
(`.agent/knowledge/reveal-iframe-sync-message-schema.md`). `aim`, `roamed` and `unsaid` are history: what was
told last, who moved since, whose move was never told.

How they compose: `SessionStore` uses `SlotOps`, which `SessionCache` shows to be faithful; `VideoSync` takes
`updateAtomic` as one step, which is what `ImplementsRegister` shows of it; `LearnLaunch` and
`EmbeddedActivities` keep their own caches because they use the plain `get`, `set` and `delete` that have no
such promise.

A definition named `X_Y` next to `X` is a mutant: `X` as a plausible bug would have it. Replacing `X` by it
makes TLC find a listed property violated, which shows that the property speaks about that code.

## 3. Runs

| run | bounds | shows | properties |
|---|---|---|---|
| store_races | 2 instances, 1 id, 3 calls of any operation, 2 attempts | no incarnation crossed, caches neither roll back nor resurrect nor show drafts, and the store implements the register | `NoCrossIncarnation`, `CacheNeverRollsBack`, `NoResurrection`, `CacheShowsCommitted`, `ImplementsRegister` |
| store_faults | 2 calls of any operation on 2 instances, 2 resends, 1 rejection, fair | no lost update and no second use of a token when commands run twice or are reported failed; every call returns | `NoLostUpdate`, `TokenConsumedOnce`, `CallsReturn` |
| cache_fills | 2 ids, 1 slot, 2 fills, 2 incarnations and revisions, counter up to 6, with cleanup and clear | tokens never collide, pruned generations included; disturbed fills defer; every step is a SlotOps step, so an undisturbed fill lands | `OwnersAreUndisturbed`, `LateFillsDefer`, `StepsAreSlotOps` |
| link_classes | 18 scenes: 2 starts on 2 instances or by one teacher, with students, an end, an edit, entries handed in and redeemed, visits, a removal, a cleanup timer, up to 2 losses | the link leads to no dropped session (unless an edit, an entry or a visit wrote it back, or a read of the end was lost), the reverse index is complete in quiescence, nobody is left waiting (unless a cleanup timer ran, the link was removed, or the class was written back), rollbacks spare other starts | `LinkLeadsSomewhere`, `IndexedWhenCalm`, `NobodyWaitsInVain`, `StartsSurviveRollbacks` |
| link_hear | 2 sockets and 1 start on one instance, 1 loss, fair | waiters are told, leave, or the start is reported failed | `WaitersHear` |
| video_races | 8 scenes: 2 instances, 2 managers, 1 student; up to 2 gestures, 2 faults, stop or end within 2 units of time, 2 connections | a command takes effect once, gestures in their manager's order, an end stops what it saw, views of one revision differ by the passing of time alone, no view goes back | `OncePerCommand`, `SameRevisionSamePlayback`, `GestureOrder`, `EndsStopWhatTheySaw`, `ViewsGoForward` |
| video_serving | 5 scenes: a retried gesture, a missed broadcast, an end before the answer of a gesture, rivals, a stop, fair | viewers catch up, gestures are done, given up, or overtaken | `ViewersCatchUp`, `GesturesSettle` |
| sockets | 7 scenes: 1 page with 3 sockets on 2 instances, 1 new render, 1 fault, 1 or 2 deletions, fair | the page's idea of its connection, one connection, the end reaches everyone and is final, losses are repaired | `ShownIsTrue`, `OneConnection`, `EndIsAnnounced`, `EndIsSeen`, `ComesBack` |
| deck | 11 scenes: 3 slides with 2 children each, 1 student, 1 or 2 instructors, up to 3 moves each, 2 boundaries, 1 reload and 1 lost connection each, fair | no follower is left behind, instructors who take turns agree, the pages settle | `FollowersKeepUp`, `InstructorsAgree`, `SettlesDown` |
| learn_launches | 12 scenes: 3 requests on 2 instances, 1 fault of a chosen kind (3 in one scene), 4 sessions, fair | one request at a time under the lock, what was answered stays, statuses are current, failed starts are undone, starts come through | `Honoured`, `OneAtATime`, `StatusIsCurrent`, `UndoneIsUndone`, `StartsSucceed` |
| embedded | 17 scenes: 4 calls on 1 instance, 2 activities, 2 students, 5 children, 15 objects, 1 loss, 1 eviction, or both, touches that read records anew in three of them, fair | nothing is lost, record, children and sockets agree, a return alone is whole or undone, starts are answered | `NothingIsLost`, `RecordIsTruth`, `ReturnsAreWhole`, `StartsAnswered` |

Three calls are the least with which one overtakes another on the same connection while a peer interferes; two
attempts are the least with a retry that fails again; two resends are the least with which a resent command is
lost again. Runs of the store whose calls on one instance are interchangeable use symmetry (`SameNode`), as
does the cache (`FillSymmetry`); no run with symmetry checks liveness. A scene of `PersistentLink` holds at
most two starts, as many as can disturb each other, and two other calls, enough for one to act between the
read and the write of another; `IndexedWhenCalm` and `NobodyWaitsInVain` say nothing after a lost command,
which may leave a start half done by design. In `VideoSync` one frame per socket may wait when a heartbeat is
due (`MaxInbox`) and a command is retried once (three times in the code), which is the least that sends one
twice on each of two tries (`MaxTries`); the tolerance of an end is 0 units of the model's coarse clock. Three
sockets are a connection, its replacement and one more; `ComesBack` is about pages that have one left to open.
In `EmbeddedActivities` four calls are a start, one in its line, and two that change the record or connect;
the `chunk` of 1 is replies read one by one, of 4 all together. In `DeckSync` three slides are a place to be,
one before and one after, and the second child of a slide is where students stay on their own; two moves cross
one another, and in scenes with more of them, or with two instructors who must agree, an instructor waits
until everything has arrived (`turns`). `CHECK_DEADLOCK` is off because every call, request and gesture is
made once: when all are done and the bounds are used up, nothing more happens.

Several properties hold under a condition, which names what the code does not provide: `Sheltered` of
`EmbeddedActivities` (one instance, whose cache keeps its objects, and no touch that reads a record anew),
with `AtMostTwo` (two activities at most, if any ends) for `RecordIsTruth`, and `Alone` (one call) for
`ReturnsAreWhole`, see section 4, `faults <= 1` in `GestureOrder`, `Unswept` (no cleanup timer ran, and the
link was not removed) of `PersistentLink`, see section 4, and four of `LearnLaunch`: `Renewed` (leases are
renewed), `Readable` (reads succeed: `loadEntry` takes a failed one for a missing entry), `StopsInTime` (one
stop at most, and no write fails in a scene with a stop, see section 4) and `Sighted(r)` (reads succeed, and
on r's instance no write fails, which may leave in the cache what was not stored). The scenes of the runs
reach both sides of most; `Readable`, `StopsInTime` and `Unswept` are what the induction needed that the
scenes had granted.

## 4. Where code and text disagree

One run is expected to find a violation:

| run | the text | what happens |
|---|---|---|
| link_undone | persistentSessions.ts:622-627, after a confirmed rollback the session may go | an edit that read the record earlier writes the dead session back |

More properties are stated in the modules and do not hold in every scene; no run checks them where they fail.
To see one, give a copy of the configuration it as its only property (an INVARIANT; `NoResend` and `EndIsSeen`
are a PROPERTY), and the scene named here:

| property | configuration, change | the text | what happens |
|---|---|---|---|
| `SessionStore!NoFalseRefusal` | SessionStore_faults | sessions.ts:488, a backend failure is not reported as "already consumed" | a resent consume finds its own work |
| `SessionCache!PrunedFillsDrop` | SessionCache_fills | sessionCache.ts:262-265, a fill of a pruned id drops | the newest fill still matches if the sweep dropped no entry |
| `PersistentLink!StartedHasId` | PersistentLink_classes, `Scenes <- Ending` | waitingRoomUtils.ts:10, `sessionId: string` | the record is read twice and ends in between: `session-started` with null |
| `PersistentLink!AuthedWasLinked` | PersistentLink_classes, `Scenes <- Starting` | persistentSessionWs.ts:295-297, an unlinked session is rolled back | a failed read counts as no record, the start reports success |
| `VideoSync!NoResend` | VideoSync_races, `Scenes <- Rivalry` | VideoSyncManager.tsx:372-375, a confirmed gesture is not sent again | a rival's command in between makes the view disagree, and the gesture is sent again |
| `SessionSockets!EndIsSeen` | SessionSockets_lives, `Scenes <- InMemory` | ARCHITECTURE.md, the end goes to all connected clients | the in-memory store has a `publishBroadcast` that does nothing (sessions.ts 290), so the route (817) does not take its direct path |
| `LearnLaunch!OneSession` | LearnLaunch_launches, `Scenes <- Racing` | .agent/plans/learn-syncdeck-session-integration.md:333, exactly one session must be created | an instance that caches the entry of an ended session deletes the entry of its successor (learnIntegration.ts 558-561), and a second session is created |
| `EmbeddedActivities!ReturnsRevoke` | EmbeddedActivities_classes, `Scenes <- Unread` | .agent/knowledge/activity-runtime-audit.md:533, a return revokes the entries of parent and child | a failed read of a child counts as a missing child (routes.ts 1903): the return is answered and the student keeps the token into it |
| `EmbeddedActivities!AtMostOneChild` | EmbeddedActivities_classes, `Scenes <- Returned` | .agent/plans/syncdeck-embedded-activities.md:313-315, at most one active child session | see below |

A second live child of one activity arises whenever a start does not see the entry of an earlier one: a return
works on a clone of the record it read before the start (routes.ts 1899), and its write overwrites the entry
(`Returned`); two instances have two start locks; an eviction, or a touch that replaces the cached object by
one read from Valkey (sessions.ts 517-541), parts the handlers that shared it. The same partings lose joins
and messages, which is why `NothingIsLost` is stated for `Sheltered` scenes. Scene `Touching` has the
shortest: a student's entry gets a child, and the touch of the deck is sent; the chalkboard's stroke goes into
the old object and is stored after that read; the answer, without the stroke, becomes the cached object; a
join takes it, sets it whole, and the stroke, which was acknowledged, is gone. It needs one instance, no
eviction, no loss, and a session whose last reading of Valkey is 5 s ago (`LINKED_SESSION_REVALIDATION_MS`).
The run has the scene; without `~scene.touches` in `Sheltered`, TLC finds it. A delete of the deck during a
start leaves a child behind and brings the deck back (routes.ts 2411); an ended child comes back if the write
of a token into it is resumed together with its deletion (scenes with `end` and a `chunk` above 1).

Two more disagreements bound `RecordIsTruth` and `ReturnsAreWhole`. A start that is still handing out tokens
(routes.ts 1659, 2117) when its activity is ended writes the child after the end deleted it (2332): the child
lives and the record does not name it, though the plan calls the map the source of truth for what runs
(.agent/plans/syncdeck-embedded-activities.md 306); the property excepts a child made by such a start. With
three activities the same happens to a socket that goes through them one by one: it reaches the last one after
the end and stores it again, and shows it (`AtMostTwo`). Of several returns at once a later one may change
again what a failed one had restored, because each restores a whole child (`Alone`).

A stop runs without the start lock and deletes the entry whatever it leads to by then (learnIntegration.ts
825-839). If two stops have loaded the same active entry, the second may delete after the first was done and a
start made a new session: that session was answered and lives, but the resource leads to it no more, and the
next start makes another. A stop that loads the entry of a start whose write is reported failed may mark a
session that start then takes back. So `Honoured` speaks of scenes that are `StopsInTime`; with two `stop`
requests and a `start` TLC finds the counterexample to the rest of it in 18 states.

`GestureOrder` speaks of gestures only. A report that the video ended does not wait in the queue of the
gestures (VideoSyncManager.tsx 671-675 sends it by a path of its own), but the model counts both kinds of
command of a manager in one sequence; with a gesture under way while the video ends, the report overtakes it
(scene `Overtaking`). The id therefore names the lane, and the order is that within the lane of the gestures.

A visit writes as well as it reads. Where the signed URL asks for another entry policy than the record has,
`getOrCreateActivePersistentSession` writes back the whole record it read, with its session and its index
entry (persistentSessions.ts 388-399). If an end cleared the link in between, the write puts it back, the
visit finds the session still alive, and the end then drops it: the link leads to a deleted session with no
failure anywhere, and the students who came in between wait in vain. An edit, an enrolment and a redeem have
the same window. `LinkLeadsSomewhere` and `NobodyWaitsInVain` except sessions that one of these wrote back
(`WritesBack`); scene `WrittenBack` has an edit and a visit that do it, and `IndexedWhenCalm` holds
nevertheless, because whoever writes the record writes its index entry.

The owner's removal of a link (POST `/api/persistent-session/remove`, routes 656) deletes the record and
forgets the waiters of its own instance, whoever waits, and nobody is told (`cleanupPersistentSession`,
persistentSessions.ts 838-844); `NobodyWaitsInVain` excepts it as it does the timer below.

An end that cannot read the record of its link takes it for missing (the plain `get`, persistentSessions.ts
754-790) and goes on to delete the session (sessions.ts 825-830), so the link goes on leading to it;
`LinkLeadsSomewhere` names that case.

An instance's cleanup timer deletes the record of a link that is ten minutes old and not started if nobody
waits on *that* instance, and it awaits between looking at the waiters and the delete (persistentSessions.ts
903-917). Students who wait on another instance, or who join meanwhile, keep their sockets and places, but the
next join or visit there finds no record, makes one and starts with an empty room (377): the class that is
started then is never announced to them. A class that was ended and that an edit writes back is not announced
to those who came in between either. `NobodyWaitsInVain` excepts both; what is left without the exceptions,
`WaitersTaken`, fails in PersistentLink_classes with `Scenes <- Swept` and `Scenes <- WrittenBack`.

A gesture is sent again until the view shows what it asked for (VideoSyncManager.tsx 1157-1173). If its answer
comes after the playback has moved on, by a rival, by the stop or by the *manager's own* report that the video
ended, the page refuses the answer as older, sees a paused player, and sends the same id again; every
duplicate is answered with the paused state, and so on for ever, unless the playback moves again or another
gesture takes its place. `GesturesSettle` excepts gestures that took effect and were overtaken (`Overtaken`);
the scenes `Outrun`, `Contested` and `Stopping` of video_serving meet the three causes.

The slides follow under conditions. A burst of three moves that crosses a student's late reports leaves the
student behind: one report opts it out, the next state is not forwarded, the next report takes the opt-out
back (`FollowersKeepUp` with `Scenes <- Burst`). Two instructors who move at once may swap their places; each
then shows the other's. A move made while a page restores its frame (up to 2.5 s, SyncDeckManager.tsx
2464-2482) is told to nobody (`unsaid`). A frame that comes late starts at the title slide, and its first
report counts as the student's going back, so the student is opted out though it never moved, against the
comment at SyncDeckStudent.tsx 1328. Force sync goes to what was told *or heard* last (SyncDeckManager.tsx
3441): after a boundary or a drawing the page only asks its frame, and the answer may be suppressed; after a
reload it is the title slide. A drawing after a boundary takes the boundary from those who join later
(routes.ts 2767). The place a student expects to be moved to stays noted when it was there already, so that
its own later return there counts as the instructor's (SyncDeckStudent.tsx 2685).

## 5. Fairness

Each `FairSpec` assumes weak fairness of what a server, its Valkey connection or a browser does on its own,
and of nothing people do. `store_faults`, `link_hear` and `embedded`: Valkey runs what a connection holds,
replies are read, each continuation runs; a connection either answers or is given up after its retries, and
the event loop runs what is ready. `video_serving`: an instance works off its queue, the heartbeat timer
fires, frames and requests arrive, a manager's page goes on with a gesture that was begun. `sockets`: the
browser fires its events and timers, the router its handlers and the heartbeat, a deletion that was begun goes
on. `learn_launches`: an instance serves its requests, Learn repeats a start that was answered "starting" (its
`retryAfter`), and a lease that nobody renews ends; crashes and lapses are bounded by the scene. `deck`:
messages arrive, frames load, pages connect, the timer of a restore fires; people need not do anything. No
call has to begin, no socket has to close or stay. Weak is enough because each such step stays enabled until
it is taken, or its connection is lost, which the bounds allow finitely often.

## 6. Proofs

`SessionStore_proofs`, for any sets of instances, ids and calls and any bounds:

* `TypeCorrect`: `Spec => []TypeOK`. Besides the types the induction needs `Held` (a call that drafts or
  commits an update holds the record it read; an answered command that found a record carries one), or
  `EXCEPT` on `snap[p]` would not be known to be a record.
* `NoUpdateLost`: `Spec => []NoLostUpdate`. `NoLostUpdate` is not inductive: that a commit keeps earlier
  mutations depends on what its call read. The invariant `IInv` adds `HeldBehind` (a held record of an
  incarnation is not newer than the stored one, and at the same revision is the same), so a commit that passes
  the comparison of revision and incarnation extends exactly what is stored; `Committed` (an answered commit
  carries its mutation) for the step that acknowledges it; `UnbornUnknown` (nothing mentions an incarnation
  whose createSession has not stored it yet), so that a new incarnation starts with nothing to lose. Resent
  commands need no extra argument: a second execution is one more execution.

Further, from `IInv` and a second invariant, `Shadows`: `Mirrored` says of the caches and the history what
`HeldBehind` and `UnbornUnknown` say of the calls; `Applied` and `Fits` tie what was acknowledged to what was
applied, by a call of the right kind; `TokenGone` says that an incarnation whose token was taken has it no
more, which is what makes `OneTaker` inductive.

* `CachesShowOnlyCommitted`: `Spec => []CacheShowsCommitted`.
* `TokenOnce`: `Spec => []TokenConsumedOnce`, with any number of resent and rejected commands.
* `CommitsStayHome`: `Spec => NoCrossIncarnation`, from `IInv` alone: a commit that matches continues its
  draft.
* `StoreImplementsRegister`: `Spec => ImplementsRegister` if `MaxResends = 0`. It adds `Once` (a call whose
  operation took effect waits for that answer or has returned). With resends it is false, not merely unproved
  (TLC refutes it with `store_faults`'s bounds): an update whose executed commit is sent again is refused by
  its own revision, starts over and is applied twice.

The order of answers (same module), from the two invariants above and a third, `Order`. What a cache shows is
numbered by the writes of its id (`ver`), and neither property is inductive, because a fill publishes what was
stored when its command ran, not what is stored now. The parts of `Order`, each of which the next needs:

  `Wires` (commands of a connection run in the order they were sent), `Numbered` (nobody knows a later write
  than the stored one), `InOrder` (of two answers, the one executed later is not older), `Ranked` (a higher
  revision of an incarnation is a later write, which is what the comparisons in the code look at), `Claims`
  (behind the fill that owns a slot only a `LOAD` or a `SET` is under way, and neither leaves it the slot if
  it comes first), `Current` (so the answer of an owner is not older than what its slot has shown or buried),
  `EndsAlone` (while a delete is in flight its slot is empty and whoever may fill it was sent later), `Latest`
  (the two properties).

* `NeverRollsBack`: `Spec => []CacheNeverRollsBack`, and `EndedStaysEnded`: `Spec => []NoResurrection`, with
  any number of resent and rejected commands. That `Claims` failed under a coarser rule for overtaking is how
  that rule was found to be wrong.

`SessionCache_proofs`, for any cache size and set of ids and fills:

* `OwnersUndisturbed`: `Spec => []OwnersAreUndisturbed`, by an invariant that bounds all tokens and
  generations by `writeSeq` and says that the token of a disturbed fill is below its slot's current
  generation, which for a pruned id reads back as the counter.
* `LateFillsStoreLittle`: `Spec => LateFillsDefer`, from the same invariant: the token of a disturbed fill
  matches no generation of its slot, so what it stores is a refresh of what is shown, or nothing. It rests on
  `NoSession` not being a record.

`LearnLaunch_proofs`, for any instances, requests, sessions and any faults:

* `TypeCorrect` and `OneStartAtATime`: `Spec => []OneAtATime`. `OneAtATime` says that the lock names every
  request that works under it with its lease renewed; with the types (`IInv`) it is inductive: a step that
  neither takes nor gives up the lock moves one request (`Moves`) without touching `held` and `lapsed`, a
  claim finds the lock free, a release frees only a lock that is the request's own (the script compares the
  token), and a lapse marks the holder.
* `FailedStartsLeaveNothing`: `Spec => []UndoneIsUndone`, with lost leases and any faults. `MInv` says what a
  request carries at each program point (`Sound`: it makes its session after it noted its start on an entry
  that led nowhere), that sessions have one maker each (`Apart`) and that entry and caches name created
  sessions (`Counted`). Only the maker of a session, which has not failed yet, writes an entry that leads to
  it.
* `StatusesAreCurrent`: `Spec => []StatusIsCurrent`, from `Current`: what a status has read, and the copy it
  is about to read again, was the entry at some time since it asked. An old copy in a cache leads on only by a
  refresh, which answers with the stored entry, or empties the cache if the expiry is another; an active one,
  to a session that has ended, only to a deletion.
* `AnswersAreHonoured`: `Spec => []Honoured`. The invariant (`Keeping` of every request, `Unclaimed`, in
  scenes that are `Calm`) says that the copy the request at work goes by leads where the entry leads, or to a
  stopped session (`Good`); that it writes over no entry that leads somewhere; that what is or is about to be
  answered is led to or stopped (`Claiming`); and that nobody was answered with a session whose start may
  still take it back. All steps but the three writes under the lock leave the entry leading where it did or
  delete it after a stop (`Mild`), so one lemma does for all requests that wait; the three writes find the
  writer alone at work, by `OneAtATime`.

`PersistentLink_proofs`, for any instances, sockets, calls and scenes with any number of losses:

* `TypeCorrect`: `Spec => []TypeOK`.
* `StartsSurvive`: `Spec => []StartsSurviveRollbacks`, and `LeadsSomewhere`: `Spec => []LinkLeadsSomewhere`.
  Both are about a write that may still be in a pipeline when its caller has moved on. `Unrun` are the calls
  whose command has not run, `Spent` the starts that can write the record no more, `Unlinked` the sessions the
  record does not lead to (but for a record that was written back). The heart of `IInv` is that a spent start
  that was unlinked stays so: only its own command could link it, and `Lined` (a call is in one part of one
  connection, once) says that it has no other. `Holding`, `ToldSpent`, `Undone`, `EndSees` and `Dropped` then
  follow a rollback and an end from the read to the delete: the link was checked after the start was spent, so
  a session that is dropped is unlinked, unless the end's read was lost.
* `IndexComplete`: `Spec => []IndexedWhenCalm`, from `Mended`: while the session the record leads to is not in
  the index, some call is a `Mender`: it has yet to enter the session, or to write a record without it, or is
  an end of the session that has yet to find the record by the scan and to fill the entry in. A call that
  drops an entry is a mender until its write has run, and the write of another call brings its own.
* `WaitersAreSent`: `Spec => []NobodyWaitsInVain`. `Order` says who must still hear and why: a socket that
  `Hopes` is in its instance's room; while there is no record nobody is (`Early`); a call that read no record
  and is about to empty the room has its reply before that of any join that read one (`Empties`); a join that
  read the record before a start wrote it has its reply before that of the write (`HandsOver`). Both are about
  `Precedes`, the order of replies on one connection: this is where it matters that Valkey answers in order
  and that what a reply resumes runs before the next is read. `Written` then says that the start a link leads
  to is the last writer, so when it is done it has handed its room over.

`SessionSockets_proofs`, for any pages, instances, sockets and faults:

* `TypeCorrect`, `ToldTheTruth` (`[]ShownIsTrue`), `AtMostOneConnection` (`[]OneConnection`), from `Hooked`:
  the sockets the hook's refs name are not closed, after `disconnect` it goes by none, and what the page was
  told is about one of them.
* `AnnouncedToAll`: `Spec => [](scene.valkey => EndIsAnnounced)`, from `Heralded`: a socket that is to be told
  is closed, or serves the session on an instance the announcement has not reached. The condition is needed:
  the in-memory store announces nothing (section 4). Run `sockets` checks the property in the scenes with
  Valkey.

`VideoSync_proofs`, for any instances, managers, students and any number of commands and faults:

* `TypeCorrect`, `EffectiveOnce` (`[]OncePerCommand`), `SameRevision` (`[]SameRevisionSamePlayback`),
  `EndsStopWhatWasSeen` (`EndsStopWhatTheySaw`) and `ViewsForward` (`ViewsGoForward`). States and commands are
  in the record, the queues, requests, frames, browsers and retries at once; comparing them pairwise would
  take a conjunct for every pair. Instead the invariant is that *one* history of the session exists, `\E h \in
  Chronicle : Inv(h)`, with which everything in transit agrees: `at` (the playback of each revision as it was
  first stored), `top` (the last revision), `time`, `used` and `cmds` (the commands made, by their ids). A
  step either keeps the history or appends to it, and what agreed with it still does (`Told`, `Made`). An end
  stops what it saw because a pause is undone only by a command, which has an id of its own (`Consistent`).
* `GesturesInOrder`: `Spec => []GestureOrder`, from `Inv` and `InOrder`. Up to the first fault every copy of a
  gesture that is on its way is what its manager waits for, in its first try (`Alone`). So the first fault
  still leaves that: every copy is waited for, or its id is in the record and nothing comes of it, and a job
  that has its effect behind it has its id there (`Traced`). As the manager sends nothing before the last
  answer, what takes effect, what is asked and what is wanted next were made in this order (`InTurn`). A
  second fault breaks `Traced`: with both tries cut off, the page gives a gesture up that may still arrive.
  All steps of an instance are one case, `Works`: they take a job or none, answer that job or nobody, and may
  have its effect.

`EmbeddedActivities_proofs`, for any calls, activities, students and children, and any `chunk`:

* `RecordsShared`: `Spec => []IInv`, and `ChangesSurvive`: `Spec => []NothingIsLost`. `IInv` is `Sheltered =>
  Shared`. `Sheltered` is a real restriction: it says that no touch reads a record anew while the calls run,
  as in the 5 s after one did; section 4 has what happens otherwise. No handler compares a revision or locks
  the record; what keeps the changes is that all handlers hold *one* object of a record (`Memory`), that a
  command carries what that object was when it was sent, and that one connection runs its commands in that
  order (`Wire`). So what was changed is in every copy that is sent later: `DeckFacts` and `ChildFacts` follow
  a change from the object into the command, into Valkey and into all commands behind it. The hard part is the
  one object: a child that was deleted has an empty slot, and two who read it would make two objects. `Misses`
  says that such a read runs behind the last deletion (`ClearAt`, `ClearEnd`), so it finds nothing; for that,
  an end's deletion must not be resumed together with the write of a token, which is `chunk = 1` in
  `Sheltered`. `Lock` (only the first of a line works) and `Names` (a child that is being made is named by
  nobody else, an entry names one that was made, and no two entries the same) keep the entry of a start, and
  so both starts of one activity come to one child.

`EmbeddedReturn_proofs`, for the same constants and any `chunk`, touches, number of evictions and of lost
connections:

* `ReturnsGoOn`: `Spec => []RInv`, and `ReturnsWhole`: `Spec => []ReturnsAreWhole`. `RInv` says of a return
  that is the only call (`Sole`) what Valkey, the cache and its own objects hold at each of its steps
  (`Progress`, `Recalls`). It works on clones, so a cached entry shows what Valkey has, except the child being
  written (`Coherent`; a set that failed leaves that one unwritten or unseen, so nothing is promised of the
  cache while it is undone). What it read was therefore what was stored, so each child it wrote is `Child1` of
  what it was, and its list for the undoing has what it was (a child whose write was lost, though it ran, is
  not in the list, as in the code). A child may be passed over in one case: its entry left the cache, for its
  age or because the answer to a touch was lost, and its own read was lost after that (`KidsNow`, which counts
  both in `Mishaps`); this is the condition in `ReturnsAreWhole`. A touch reads what is stored, and as the
  return is alone the slot it fills is one where that is still so (`Owning`): the new object has what the old
  one had. `Undoing`: the write that was lost before the undoing is the first loss, so with no second one all
  the children behind the one being written back are as they were. That a clone finds room (`Fresh`) rests on
  `RoomOK`; `Tidy` bounds the objects in memory by the cache's and the two of the call.

Assumptions are those named in the modules (`ConstantsOK`, `NoSessionOK`, `NoContentOK`, `SizeOK`, `NamesOK`,
`NoRecordOK`, `NothingOK`, `RoomOK`): instances and ids of calls, `NoSession` and `NoRecord` not records,
`None` of `LearnLaunch` no session and that of `VideoSync` no lane, command or request, markers not names of
calls or instances, finite sets of requests, a positive size; of `EmbeddedActivities`, that `None`, `Gone` and
`Lost` are no records and different, and that memory has room for the objects of the cache and two for each
call. Lemmas are one per action, cited by the theorem's step.

Only model-checked: liveness (out of the prover's reach); `StepsAreSlotOps` of `SessionCache`, which needs
that `order` lists the cached ids once each, a fact about the recursive `SelectSeq`; `RecordIsTruth` of
`EmbeddedActivities`, and everything about `DeckSync`; the `TypeOK`s of these two describe the state and are
no run's invariant.

## 7. Abstractions

* Session data is a set of applied mutations and one token. Normalisation and JSON round trips are the
  identity on that; Lua's `cjson` turns empty arrays into objects, which `valkeyStore.ts` 164-170 works around
  and the model does not see. Legacy records without `created` or revision are left out.
* The keepalive script leaves the data as it is; expiry may strike any stored record at any time, so nothing
  depends on which keepalives ran. Keepalives of a linked or parent session are left out.
* A crash of an instance is calls that never go on and an empty cache: both are states the models reach (a
  call may stop anywhere; any entry may have aged), except that a restarted instance is a new one.
* `Delete` waits for a `createSession` of the same id to have stored it: nobody has the id before. `Resend`
  leaves out an executed `SET` of a new session for the same reason (it is repeatable).
* In `PersistentLink`, `createSession`'s probe and two writes are one command; code validation and the rate
  limit only decide that a verify goes on; the record is its link and entries; sessions are looked up in
  Valkey or answered by a cache (either way). The 24 h time to live of records and the cap of stored entries
  are left out; so are the messages that change no state (waiter counts, session-ended to waiters), and the
  normalisation of records of an older format, which a join that reads one writes back.
* In `VideoSync` all clocks agree and time is a counter (that it moves between a commit and the second
  projection is modelled); the window of 128 command ids is unbounded; a session is never recreated under its
  id. The ids of unsynced students, telemetry other than the connection count, the `/event` route, expiring
  capabilities and ends reported by players that were replaced are left out.
* In `SessionSockets` the delays of the back-off are left out: a timer may fire at any time. Sockets admitted
  after the announcement and before the removal are not told, as in the code; a student's second tab, whose
  admission closes the first one's socket (`closeDuplicateParticipantSockets`, java-format-practice routes.ts
  295), and a `set` that fails after the admission are left out; that a deleted session may still be in
  another instance's cache is left out, as are the cleanup timers, which only log.
* In `LearnLaunch` the lock of one process (`localStartLocks`, used without Valkey) is left out; a stop runs
  without the lock, as in the code; linking and unlinking a substitute are one kind of request; two entries
  may be told apart by their expiry only, so expiries nobody holds are reused; starts meet no failing reads,
  as nothing is promised about them.
* In `EmbeddedActivities` a chalkboard's details are its strokes; a child's accepted entries are its tokens;
  what a touch does to the time to live is left out, and reads that are touched together
  (`Promise.allSettled`) are executed together, though each answer is taken by itself; the broadcast of the
  roster touches as a keepalive does, and has no action of its own; instructors are not told the students; the
  instance has an entry cached at the start. The 409 on an activity's id, passcodes, the redemption of manager
  tokens, reports, auto-activation and the closing of a child's own sockets (`SessionSockets` has those of a
  session) are left out.
* In `DeckSync` fragments, pauses, overlays, drawing tools and the contents of drawings are left out, and so
  are activities but for the slides they hold students on; a page that reconnects is joining at once, without
  the phase (CONNECTING) in which it tells nobody, and what it had sent and was not yet received is lost with
  its connection; students have one instructor in the scenes, two instructors no student; what the chalkboard
  relays by itself is a bounded number of drawings; one instance serves the session (the relay is local to
  it), the session is always found, writes succeed, and the 25 commands a page keeps for its frame are never
  reached. The 2.5 s of a restore are taken to leave a frame the time to answer.
* The store's runs have one session id, so its cache never evicts there; evictions during fills are in
  `cache_fills`, and the theorems about the store hold with any number of ids.

## 8. Plan

1. Theorems about the other invariants of `EmbeddedActivities` and `DeckSync`: `RecordIsTruth`, for which
   `Shared` must learn of the replies that still have to tell a socket what changed.
2. Plain writers outside SyncDeck: raffle tickets, resonance answers, boards, rosters, as `get`, change, `set`
   on a shared cached object; `refreshSessionExpiry`, flushes and keepalives with time to live.
3. The in-memory store as a second implementation of `SessionRegister`.
4. `SessionStore` with several applications of one call, to state what a resent commit does.
5. `EmbeddedActivities` on two instances, with a statement of what is still promised there.
6. `DeckSync` with pauses, the drawings a late page is replayed, and activities that start from a slide.

## 9. Not modelled, and why

Rendering, forms and routing of the client; parsing, signing, cookies and redirects of the routes; report
generation; configuration loading: no state that interleaves. The in-memory stores run each operation in one
step. The practice activities are rosters and statistics in a session's data, written by one participant each.
Two small hazards of the cache have no property: with Valkey nothing calls `cleanup()`, so the map of
generations grows (sessionCache.ts 260), and a deferred keepalive is forgotten when its entry is evicted
before the flush (sessionCache.ts 145), so that Valkey's time to live is not extended by it. `PROJECT.json`
lists each part with its status.
