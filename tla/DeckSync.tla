------------------------------ MODULE DeckSync ------------------------------
(***************************************************************************)
(* The slides of a SyncDeck session: the instructors' pages                *)
(* (client/manager/SyncDeckManager.tsx), the students' pages               *)
(* (client/student/SyncDeckStudent.tsx) and the server's relay             *)
(* (server/routes.ts, /ws/syncdeck).                                       *)
(*                                                                         *)
(* Every page holds the presentation in a frame of its own and talks to it *)
(* by messages.  An instructor's page tells the server where its frame     *)
(* goes, the server keeps what it was told and passes it on, and the pages *)
(* that hear it move their frames, unless the student went back on purpose *)
(* or is free up to a boundary.  The frame's plugin is not in src/; what   *)
(* it does follows the schema of its messages.                             *)
(***************************************************************************)
EXTENDS Integers, SequencesExt

CONSTANTS
    Instructors, Students,
    Slides,        \* bound: the slides of the deck
    Scenes,        \* the situations to start from
    None

Pages == Instructors \cup Students

\* A place is a slide and one of its two vertical children (h and v); fragments are left
\* out.  A boundary is a whole slide (toSlideEndBoundary), given by its first child.
Places == 0..(2 * Slides - 1)
H(x)     == x \div 2
Whole(x) == 2 * H(x)

\* How often pages do what: move the frame, mark a boundary, force the students, draw,
\* turn the sync off or on, fast-forward, reload the frame, lose the connection.
Acts == {"move", "mark", "force", "draw", "toggle", "forward", "reload", "cut"}

\* Where pages may go and boundaries be set, places with a running embedded activity, the
\* pages that are not open yet, and whether people wait for each other.
Scene == [acts : [Pages -> [Acts -> Nat]], stops : SUBSET Places, marks : SUBSET Places,
          anchored : SUBSET Places, fresh : SUBSET Pages,
          away : SUBSET Pages, turns : BOOLEAN]

ASSUME ConstantsOK == Slides \in Nat /\ Scenes \subseteq Scene /\ None \notin Places

VARIABLES
    scene, left,   \* left: what people may still do
    frame,         \* the presentation in a page
    posts, says,   \* messages on their way into a frame and out of it
    stud, inst,    \* what the pages remember
    line,          \* the WebSocket of a page
    down, up,      \* messages on their way to a page and to the server
    record,        \* lastInstructorPayload and lastInstructorStatePayload
    sets,          \* what the server has noted and is writing, to be passed on after
    aim,           \* history: the place last told, or the boundary behind it
    roamed         \* history: students who have moved on their own since

client == <<frame, posts, says>>
server == <<record, sets, aim, roamed>>
wires  == <<line, down, up>>
vars   == <<scene, left, client, stud, inst, wires, server>>

\* From frames and between pages: where the frame is, and the boundary. To frames: commands.
Msg(kind, at, bound) == [kind |-> kind, at |-> at, bound |-> bound]
Told     == [kind : {"state", "ready", "boundary", "force", "draw"},
             at : Places \cup {None}, bound : Places \cup {None}]
Commands == [kind : {"setState", "limit", "clear", "sync", "ask"}, at : Places \cup {None},
             bound : {None}]
Go(x)    == Msg("setState", x, None)

Place == Places \cup {None}
Frame == [up : BOOLEAN, at : Places,
          fixed : Place,     \* the explicit boundary
          cap : Place]       \* the boundary taken from the instructor, of a student's frame
Student == [ready : BOOLEAN, queue : Seq(Commands),
            local : Place, told : Place, max : Place, expected : Place,
            latest : Told \cup {None}, out : BOOLEAN]
Instructor == [ready : BOOLEAN, sync : BOOLEAN, armed : BOOLEAN, target : Place,
               told : Place, explicit : Place,
               last : Place,       \* the place in lastInstructorPayloadRef, if it has one
               kept : Place,       \* the place in lastInstructorStatePayloadRef
               pending : Place,    \* the place in pendingRestorePayloadRef
               unsaid : BOOLEAN]   \* history: its frame moved and nobody was told

TypeOK ==
    /\ scene \in Scenes /\ left \in [Pages -> [Acts -> Nat]]
    /\ frame \in [Pages -> Frame]
    /\ posts \in [Pages -> Seq(Commands)] /\ says \in [Pages -> Seq(Told)]
    /\ stud \in [Students -> Student] /\ inst \in [Instructors -> Instructor]
    /\ line \in [Pages -> {"off", "joining", "on"}]
    /\ down \in [Pages -> Seq(Told)] /\ up \in [Instructors -> Seq(Told)]
    /\ record \in [last : Told \cup {None}, state : Told \cup {None}]
    /\ sets \in Seq([from : Instructors, msg : Told])
    /\ aim \in Place /\ roamed \subseteq Students

Closed == scene.fresh \cup scene.away
NewFrame(p) == [up |-> p \notin Closed, at |-> 0, fixed |-> None,
                cap |-> IF p \in Students THEN 0 ELSE None]

Init ==
    /\ scene \in Scenes /\ left = scene.acts
    /\ frame = [p \in Pages |-> NewFrame(p)]
    /\ posts = [p \in Pages |-> <<>>] /\ says = posts
    /\ stud = [s \in Students |->
                 [ready |-> s \notin Closed, queue |-> <<>>,
                  local |-> IF s \in Closed THEN None ELSE 0,
                  told |-> None, max |-> None, expected |-> None, latest |-> None, out |-> FALSE]]
    /\ inst = [i \in Instructors |->
                 [ready |-> i \notin Closed, sync |-> TRUE, armed |-> FALSE, target |-> None,
                  told |-> IF i \in Closed THEN None ELSE 0, explicit |-> None,
                  last |-> IF i \in Closed THEN None ELSE 0,
                  kept |-> None, pending |-> None, unsaid |-> FALSE]]
    /\ line = [p \in Pages |-> IF p \in Closed THEN "off" ELSE "on"]
    /\ down = [p \in Pages |-> <<>>] /\ up = [i \in Instructors |-> <<>>]
    /\ record = [last |-> None, state |-> None] /\ sets = <<>> /\ aim = None /\ roamed = {}

Ready(p) == IF p \in Students THEN stud[p].ready ELSE inst[p].ready

\* Nothing is on its way, and every page is open and connected.
Rest ==
    /\ sets = <<>> /\ \A i \in Instructors : up[i] = <<>>
    /\ \A p \in Pages \ scene.away :
          /\ posts[p] = <<>> /\ says[p] = <<>> /\ down[p] = <<>>
          /\ line[p] = "on" /\ frame[p].up /\ Ready(p)
-----------------------------------------------------------------------------
(* The presentation in the frame, after the schema of its messages         *)

Moved(p, x) == IF x = frame[p].at THEN <<>>
               ELSE <<Msg("state", x, IF p \in Students THEN None ELSE frame[p].fixed)>>

\* A student's frame keeps its own vertical child on the slide it is sent to, and takes
\* the instructor's place for its boundary when it was given none.
Sent(f, x) == [f EXCEPT !.at = IF H(x) = H(@) THEN @ ELSE x,
                        !.cap = IF f.fixed = None THEN x ELSE @]

StudentFrame(f, c) ==
    CASE c.kind = "setState" -> Sent(f, c.at)
      [] c.kind = "sync"     -> Sent([f EXCEPT !.fixed = None], c.at)
      [] c.kind = "limit"    -> [f EXCEPT !.fixed = Whole(c.at),
                                          !.at = IF H(@) > H(c.at) THEN Whole(c.at) ELSE @]
      [] c.kind = "clear"    -> [f EXCEPT !.fixed = None, !.cap = None]
InstructorFrame(f, c) ==
    CASE c.kind = "setState" -> [f EXCEPT !.at = c.at]
      [] c.kind = "clear"    -> [f EXCEPT !.fixed = None]
      [] c.kind = "ask"      -> f

\* The frame takes a command; while it loads, commands are lost.
Obey(p) ==
    /\ posts[p] # <<>>
    /\ LET c == Head(posts[p])
           f == IF ~frame[p].up THEN frame[p]
                ELSE IF p \in Students THEN StudentFrame(frame[p], c) ELSE InstructorFrame(frame[p], c)
       IN /\ frame' = [frame EXCEPT ![p] = f]
          /\ says' = [says EXCEPT ![p] = @ \o
                         IF c.kind = "ask" /\ f.up THEN <<Msg("state", f.at, f.fixed)>> ELSE Moved(p, f.at)]
    /\ posts' = [posts EXCEPT ![p] = Tail(@)]
    /\ UNCHANGED <<scene, left, stud, inst, wires, server>>

\* What people do; instructors may wait until everything has arrived.
Does(p, act) ==
    /\ left[p][act] > 0 /\ (scene.turns /\ p \in Instructors => Rest)
    /\ left' = [left EXCEPT ![p][act] = @ - 1]

\* A student goes back, or forward within its boundary.
Open(f, x) == LET b == IF f.fixed # None THEN f.fixed ELSE f.cap
              IN x < f.at \/ IF b = None THEN TRUE ELSE H(x) <= H(b)
Move(p) ==
    /\ Does(p, "move") /\ frame[p].up
    /\ \E x \in scene.stops \ {frame[p].at} :
          /\ p \in Students => Open(frame[p], x)
          /\ frame' = [frame EXCEPT ![p].at = x]
          /\ says' = [says EXCEPT ![p] = @ \o Moved(p, x)]
    /\ roamed' = IF p \in Students THEN roamed \cup {p} ELSE roamed
    /\ UNCHANGED <<scene, posts, stud, inst, wires, record, sets, aim>>

\* An instructor sets a boundary in the storyboard, or takes it away.
Mark(i) ==
    /\ Does(i, "mark") /\ frame[i].up
    /\ \E b \in (scene.marks \cup {None}) \ {frame[i].fixed} :
          /\ frame' = [frame EXCEPT ![i].fixed = b]
          /\ says' = [says EXCEPT ![i] = Append(@, Msg("boundary", None, b))]
    /\ UNCHANGED <<scene, posts, stud, inst, wires, server>>

Draw(i) ==
    /\ Does(i, "draw") /\ frame[i].up
    /\ says' = [says EXCEPT ![i] = Append(@, Msg("draw", None, None))]
    /\ UNCHANGED <<scene, frame, posts, stud, inst, wires, server>>

\* The frame goes away; what was on its way to it or from it is lost.
Reload(p) ==
    /\ Does(p, "reload") /\ frame[p].up
    /\ frame' = [frame EXCEPT ![p] = [NewFrame(p) EXCEPT !.up = FALSE]]
    /\ posts' = [posts EXCEPT ![p] = <<>>] /\ says' = [says EXCEPT ![p] = <<>>]
    /\ UNCHANGED <<scene, stud, inst, wires, server>>
-----------------------------------------------------------------------------
(* The students' pages                                                     *)

\* resolveEffectiveBoundary: the instructor's place or the boundary, whichever is further.
Effective(i, b) == IF i = None THEN b ELSE IF b = None THEN i ELSE IF H(i) > H(b) THEN i ELSE b

\* On another child of the same slide: the student is left there.
Beside(x, y) == x # None /\ H(x) = H(y) /\ x # y

\* shouldForceFollowInstructorSetState
Follows(p, m) ==
    /\ m.kind = "state"
    /\ ~Beside(p.told, m.at) /\ ~Beside(p.local, m.at)
    /\ ~p.out \/ m.at \in scene.anchored \/ p.local = None \/ m.at <= p.local

\* shouldResetBacktrackOptOutByMaxPosition
Reached(x, max) == x # None /\ max # None /\ x >= max

\* shouldSuppressInstructorRevealCommandForwarding, of a state
Suppressed(p, x) == (p.out /\ p.local # None /\ x > p.local) \/ Beside(p.local, x)

\* toRevealBoundaryCommandMessage and toRevealCommandMessage: what a page makes of a
\* message for its frame (drawings are left out).
BoundaryCommand_Bare(told, m) ==
    IF m.kind \in {"state", "boundary"} /\ m.bound # None
    THEN <<Msg("limit", m.bound, None)>>
    ELSE IF m.kind = "boundary" THEN <<Msg("clear", None, None)>> ELSE <<>>
BoundaryCommand(told, m) ==
    IF m.kind \in {"state", "boundary"} /\ m.bound # None
    THEN <<Msg("limit", Effective(IF m.at # None THEN m.at ELSE told, m.bound), None)>>
    ELSE IF m.kind = "boundary" THEN <<Msg("clear", None, None)>> ELSE <<>>
RevealCommand(p, m) ==
    IF m.kind = "force" THEN <<Msg("sync", m.at, None)>>
    ELSE IF m.kind = "state" /\ ~Suppressed(p, m.at) THEN <<Go(m.at)>> ELSE <<>>
Replay(p, m) == BoundaryCommand(p.told, m) \o RevealCommand(p, m)

\* enqueuePendingIframePayload: a command replaces the one of its sort that waits.
Sort(c) == IF c.kind \in {"limit", "clear"} THEN "boundary" ELSE c.kind
Enqueued(q, c) == Append(SelectSeq(q, LAMBDA e : Sort(e) = "sync" \/ Sort(e) # Sort(c)), c)

\* sendPayloadToIframe: what page p posts, or keeps until the frame is ready.
Send(s, p, cs) ==
    /\ stud' = [stud EXCEPT ![s] = IF p.ready THEN p ELSE [p EXCEPT !.queue = FoldLeft(Enqueued, @, cs)]]
    /\ posts' = [posts EXCEPT ![s] = IF p.ready THEN @ \o cs ELSE @]

\* handleWsMessage, in its order: the place it tells, whether to follow, the boundary.
Noted(p, m) ==
    IF m.kind # "state" THEN p
    ELSE LET f == Follows(p, m)
         IN [p EXCEPT !.told = m.at, !.latest = m, !.out = @ /\ ~f,
                      !.local = IF f THEN m.at ELSE @, !.expected = IF f THEN m.at ELSE @]
Bounded(p, m) ==
    LET max == Effective(IF m.kind \in {"state", "boundary"} /\ m.at # None THEN m.at ELSE p.told, m.bound)
    IN [p EXCEPT !.max = max, !.out = @ /\ m.kind # "force" /\ ~Reached(p.local, max)]
StudentHears(s) ==
    /\ down[s] # <<>>
    /\ LET m == Head(down[s])
           p == Bounded(Noted(stud[s], m), m)
       IN Send(s, IF m.kind = "state" /\ ~Suppressed(p, m.at) THEN [p EXCEPT !.expected = m.at] ELSE p,
               Replay(p, m))
    /\ down' = [down EXCEPT ![s] = Tail(@)]
    /\ UNCHANGED <<scene, left, frame, says, inst, line, up, server>>

\* shouldEnableBacktrackOptOutOnLocalMove, for a move that no instructor asked for.
WentBack(p, x, max) ==
    /\ ~p.out /\ p.local # None /\ max # None
    /\ x < p.local /\ x < max /\ (p.told # None => x < p.told)

\* handleIframeMessage: where the frame is; the first message makes it ready.
Arrived(p, x) ==
    LET max == IF p.max # None THEN p.max ELSE p.told
        out == IF p.expected = x THEN p.out ELSE p.out \/ WentBack(p, x, max)
    IN [p EXCEPT !.local = x, !.expected = IF @ = x THEN None ELSE @,
                 !.out = out /\ ~Reached(x, max)]
StudentLearns(s) ==
    /\ says[s] # <<>>
    /\ LET p == Arrived(stud[s], Head(says[s]).at)
       IN IF p.ready THEN Send(s, p, <<>>)
          ELSE Send(s, [p EXCEPT !.ready = TRUE, !.queue = <<>>],
                    p.queue \o IF p.latest = None THEN <<>> ELSE Replay(p, p.latest))
    /\ says' = [says EXCEPT ![s] = Tail(@)]
    /\ UNCHANGED <<scene, left, frame, inst, wires, server>>

\* handleFastForwardToInstructor
FastForward(s) ==
    /\ Does(s, "forward") /\ stud[s].told # None
    /\ Send(s, [stud[s] EXCEPT !.local = stud[s].told, !.out = FALSE], <<Go(stud[s].told)>>)
    /\ UNCHANGED <<scene, frame, says, inst, wires, server>>
-----------------------------------------------------------------------------
(* The instructors' pages                                                  *)

\* Mutant of Arm: a page that is sent elsewhere does not note it.
Arm_Not(p, x) == p

\* armRestoreSuppression and its release.
Arm(p, x)  == [p EXCEPT !.armed = TRUE, !.target = x]
Release(p) == [p EXCEPT !.armed = FALSE, !.target = None]

\* The timer of 2.5 seconds is taken to leave a frame the time to answer.
Lapse(i) ==
    /\ inst[i].armed /\ posts[i] = <<>> /\ says[i] = <<>>
    /\ inst' = [inst EXCEPT ![i] = Release(@)]
    /\ UNCHANGED <<scene, left, client, stud, wires, server>>

\* A message from another instructor, or the server's replay.
InstructorHears(i) ==
    /\ down[i] # <<>>
    /\ LET m == Head(down[i])
           p == inst[i]
           state == m.kind = "state"
           q == [p EXCEPT !.last = IF state THEN m.at ELSE None]
       IN /\ inst' = [inst EXCEPT ![i] =
                IF ~p.sync THEN p ELSE IF ~state THEN q
                ELSE [Arm(q, m.at) EXCEPT !.told = m.at, !.kept = m.at, !.unsaid = FALSE,
                                          !.pending = IF p.ready THEN @ ELSE m.at]]
          /\ posts' = [posts EXCEPT ![i] = @ \o IF p.sync /\ state /\ p.ready THEN <<Go(m.at)>> ELSE <<>>]
    /\ down' = [down EXCEPT ![i] = Tail(@)]
    /\ UNCHANGED <<scene, left, frame, says, stud, line, up, server>>

\* evaluateRestoreSuppressionForOutboundState: the states on the way to the place the page
\* was sent to, and the one that has reached it, are not told.
Restored(p, x) == p.armed /\ p.target = x
Hushed(p, x)   == p.armed

\* shouldSuppressInstructorStateBroadcast and shouldClearExplicitBoundary
Behind(x, b) == b # None /\ x <= b
Beyond(x, b) == b # None /\ H(x) > H(b)

\* Mutant of Back: a reloaded frame starts anew unless a state came meanwhile.
Back_PendingOnly(p) == p.pending

\* The place a frame is sent back to when it is ready.
Back(p) == IF p.pending # None THEN p.pending ELSE p.kept
Woken(p) ==
    IF p.ready THEN p
    ELSE LET q == [p EXCEPT !.ready = TRUE, !.pending = None, !.target = Back(p)]
         IN IF Back(p) = None THEN q ELSE [Arm(q, Back(p)) EXCEPT !.unsaid = FALSE]

\* What the page becomes, what it tells, and whether it clears its frame's boundary.
Relayed(p, m) ==
    LET q == [p EXCEPT !.told = IF m.at # None THEN m.at ELSE @]
        r == [q EXCEPT !.explicit = m.bound]
        t == [r EXCEPT !.last = m.at, !.explicit = IF Beyond(q.told, @) THEN None ELSE @,
                       !.kept = IF m.kind = "state" THEN m.at ELSE @,
                       !.unsaid = IF m.kind = "state" THEN FALSE ELSE @]
    IN CASE m.kind = "draw"  -> <<[p EXCEPT !.last = None], <<m>>, FALSE>>
         [] m.kind = "ready" -> <<[r EXCEPT !.last = m.at], <<>>, FALSE>>
         [] m.kind = "boundary" ->
              <<[r EXCEPT !.last = None], <<Msg("boundary", q.told, m.bound)>>, FALSE>>
         [] m.kind = "state" /\ Restored(q, m.at) -> <<[Release(q) EXCEPT !.unsaid = FALSE], <<>>, FALSE>>
         [] m.kind = "state" /\ ~Restored(q, m.at) /\ Hushed(q, m.at) -> <<[q EXCEPT !.unsaid = TRUE], <<>>, FALSE>>
         [] m.kind = "state" /\ ~q.armed /\ Behind(q.told, m.bound) -> <<[r EXCEPT !.unsaid = TRUE], <<>>, FALSE>>
         [] OTHER ->
              IF Beyond(q.told, m.bound) THEN <<t, <<Msg("boundary", q.told, None), m>>, TRUE>>
              ELSE <<t, <<m>>, FALSE>>

\* handleMessage: what the frame says is told to the server.
InstructorLearns(i) ==
    /\ says[i] # <<>>
    /\ LET m == Head(says[i])
           p == Woken(inst[i])
           back == IF inst[i].ready \/ Back(inst[i]) = None THEN <<>> ELSE <<Go(Back(inst[i]))>>
           r == IF line[i] = "off" \/ ~p.sync
                THEN <<[p EXCEPT !.unsaid = @ \/ m.kind = "state"], <<>>, FALSE>>
                ELSE Relayed(p, m)
       IN /\ inst' = [inst EXCEPT ![i] = r[1]]
          /\ up' = [up EXCEPT ![i] = @ \o r[2]]
          /\ posts' = [posts EXCEPT ![i] = @ \o back \o IF r[3] THEN <<Msg("clear", None, None)>> ELSE <<>>]
    /\ says' = [says EXCEPT ![i] = Tail(@)]
    /\ UNCHANGED <<scene, left, frame, stud, line, down, server>>

\* handleForceSyncStudents: the students go where the page last told or heard of.
Force(i) ==
    /\ Does(i, "force") /\ inst[i].sync /\ line[i] # "off"
    /\ IF inst[i].last # None
       THEN up' = [up EXCEPT ![i] = Append(@, Msg("force", inst[i].last, None))] /\ UNCHANGED posts
       ELSE posts' = [posts EXCEPT ![i] = Append(@, Msg("ask", None, None))] /\ UNCHANGED up
    /\ UNCHANGED <<scene, frame, says, stud, inst, line, down, server>>

\* toggleInstructorSync: turned on again, the page connects anew.
Toggle(i) ==
    /\ Does(i, "toggle")
    /\ inst' = [inst EXCEPT ![i].sync = ~@]
    /\ IF inst[i].sync THEN UNCHANGED wires
       ELSE /\ line' = [line EXCEPT ![i] = "joining"]
            /\ down' = [down EXCEPT ![i] = <<>>] /\ up' = [up EXCEPT ![i] = <<>>]
    /\ UNCHANGED <<scene, client, stud, server>>
-----------------------------------------------------------------------------
(* Frames that load, connections, and the server                           *)

\* handleIframeLoad, handlePresentationIframeLoad: the role is set, and the frame is ready.
Load(p) ==
    /\ ~frame[p].up /\ p \notin scene.away
    /\ frame' = [frame EXCEPT ![p].up = TRUE]
    /\ posts' = [posts EXCEPT ![p] = <<>>]
    /\ says' = [says EXCEPT ![p] = Append(@, Msg("ready", frame[p].at, None))]
    /\ IF p \in Students
       THEN stud' = [stud EXCEPT ![p].ready = FALSE] /\ UNCHANGED inst
       ELSE inst' = [inst EXCEPT ![p] = [Arm(@, Back(@)) EXCEPT !.ready = FALSE]] /\ UNCHANGED stud
    /\ UNCHANGED <<scene, left, wires, server>>

Connect(p) ==
    /\ line[p] = "off" /\ p \notin scene.away
    /\ line' = [line EXCEPT ![p] = "joining"]
    /\ UNCHANGED <<scene, left, client, stud, inst, down, up, server>>

\* A connection is lost, and what was on its way.
Cut(p) ==
    /\ Does(p, "cut") /\ line[p] # "off"
    /\ line' = [line EXCEPT ![p] = "off"]
    /\ down' = [down EXCEPT ![p] = <<>>]
    /\ up' = IF p \in Instructors THEN [up EXCEPT ![p] = <<>>] ELSE up
    /\ UNCHANGED <<scene, client, stud, inst, server>>

\* Mutant of Replayed: the last message alone.
Replayed_LastOnly == IF record.last # None /\ record.last.kind # "draw" THEN <<record.last>> ELSE <<>>

\* The socket is admitted and sent the last state and what was told after it.
Replayed ==
    (IF record.state # None THEN <<record.state>> ELSE <<>>) \o
    (IF record.last # None /\ record.last # record.state /\ record.last.kind # "draw" THEN <<record.last>> ELSE <<>>)
Admit(p) ==
    /\ line[p] = "joining"
    /\ line' = [line EXCEPT ![p] = "on"]
    /\ down' = [down EXCEPT ![p] = @ \o Replayed]
    /\ UNCHANGED <<scene, left, client, stud, inst, up, server>>

\* A message of an instructor is noted, one at a time; before its admission it is ignored.
PulledBack(m) ==
    LET b == Effective(m.at, m.bound)
    IN IF aim = None \/ b = None THEN aim ELSE IF H(b) < H(aim) THEN b ELSE aim
Hear(i) ==
    /\ up[i] # <<>> /\ \A n \in 1..Len(sets) : sets[n].from # i
    /\ LET m == Head(up[i])
       IN IF line[i] = "on"
          THEN /\ record' = [last |-> m, state |-> IF m.kind = "state" THEN m ELSE record.state]
               /\ sets' = Append(sets, [from |-> i, msg |-> m])
               /\ IF m.kind \in {"state", "force"} THEN aim' = m.at /\ roamed' = {}
                  ELSE aim' = PulledBack(m) /\ UNCHANGED roamed
          ELSE UNCHANGED server
    /\ up' = [up EXCEPT ![i] = Tail(@)]
    /\ UNCHANGED <<scene, left, client, stud, inst, line, down>>

\* Once the session is written, the message is passed on to the other sockets.
Broadcast ==
    /\ sets # <<>>
    /\ sets' = Tail(sets)
    /\ down' = [p \in Pages |-> IF line[p] = "off" \/ p = Head(sets).from THEN down[p]
                               ELSE Append(down[p], Head(sets).msg)]
    /\ UNCHANGED <<scene, left, client, stud, inst, line, up, record, aim, roamed>>
-----------------------------------------------------------------------------
Works(p) == Obey(p) \/ Load(p) \/ Connect(p) \/ Admit(p)
Next ==
    \/ Broadcast
    \/ \E p \in Pages : Works(p) \/ Move(p) \/ Reload(p) \/ Cut(p)
    \/ \E i \in Instructors : \/ InstructorHears(i) \/ InstructorLearns(i) \/ Lapse(i) \/ Hear(i)
                              \/ Mark(i) \/ Draw(i) \/ Force(i) \/ Toggle(i)
    \/ \E s \in Students : StudentHears(s) \/ StudentLearns(s) \/ FastForward(s)

\* What is on its way arrives, frames load and pages connect.
Spec ==
    /\ Init /\ [][Next]_vars
    /\ WF_vars(Broadcast)
    /\ \A p \in Pages : WF_vars(Obey(p)) /\ WF_vars(Load(p)) /\ WF_vars(Connect(p)) /\ WF_vars(Admit(p))
    /\ \A i \in Instructors : /\ WF_vars(InstructorHears(i)) /\ WF_vars(InstructorLearns(i))
                              /\ WF_vars(Hear(i)) /\ WF_vars(Lapse(i))
    /\ \A s \in Students : WF_vars(StudentHears(s)) /\ WF_vars(StudentLearns(s))
-----------------------------------------------------------------------------
\* At rest, a student who follows, and has not moved since, is no further back than the
\* instructors told last, by a move or a boundary that holds it back: moves that cross it,
\* frames that load and connections that come back leave no follower behind
\* (SyncDeckStudent.tsx: handleWsMessage, handleIframeMessage).
FollowersKeepUp ==
    (Rest /\ aim # None) =>
        \A s \in Students \ (roamed \cup scene.away) : stud[s].out \/ H(frame[s].at) >= H(aim)

\* At rest, instructors who wait for each other are all on the slide that was told last,
\* but for those who turned the sync off or moved without telling it: reloaded frames and
\* new connections come back to it, and no page goes on with a place of its own
\* (SyncDeckManager.tsx: onMessage, handleMessage, handleIframeLoad).
InstructorsAgree ==
    (scene.turns /\ Rest /\ record.state # None) =>
        \A i \in Instructors \ scene.away :
            inst[i].sync /\ ~inst[i].unsaid => frame[i].at = record.state.at

\* The pages come to rest: what one page does on behalf of another is not told as its own,
\* and does not go round between the instructors for ever
\* (SyncDeckManager.tsx: evaluateRestoreSuppressionForOutboundState).
SettlesDown == <>[]Rest
=============================================================================
