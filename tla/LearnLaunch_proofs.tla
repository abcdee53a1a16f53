------------------------- MODULE LearnLaunch_proofs --------------------------
(***************************************************************************)
(* The launches of a Learn resource, for any number of instances, requests *)
(* and sessions, and any faults: the requests that hold the lock with      *)
(* their lease renewed are one at a time; a start that failed and could    *)
(* clean up leaves nothing behind; a status tells what the entry was while *)
(* it was asked for; and the session a start was answered with is where    *)
(* the resource leads.                                                     *)
(***************************************************************************)
EXTENDS LearnLaunch, FiniteSetTheorems, TLAPS

Stored == Entry \cup {NoEntry}
PCs    == {"get", "session", "drop", "refresh", "again", "loaded", "claim", "note",
           "create", "activate", "undo", "token", "release", "stop", "done", "dead"}
Views  == {"inactive", "waiting", "active"} \X (Sessions \cup {None})

\* TypeOK by what the steps change together.
StoreTyped == entry \in Stored /\ cache \in [Nodes -> Entry \cup {None}]
ReqTyped   == req \in [Requests -> Request]
RestTyped  ==
    /\ scene \in Scenes
    /\ lock \in Requests \cup {None}
    /\ created \in 0..MaxSessions /\ ended \subseteq 1..created /\ stopped \subseteq Sessions
    /\ faults \in Nat
SeenTyped  == passed \in [Requests -> SUBSET Views]

IInv == StoreTyped /\ ReqTyped /\ RestTyped /\ SeenTyped /\ OneAtATime

\* An expiry that is handed out is one.
LEMMA LaterIsExpiry == Later \in Expiries
<1>1. Cardinality(Nodes) \in Nat /\ Cardinality(Requests) \in Nat
  BY ConstantsOK, FS_CardinalityType
<1>2. 0 \in Expiries
  BY <1>1, SMT DEF Expiries
<1>3. \E x \in Expiries : Unused # {} => x \in Unused
  BY <1>2, Zenon DEF Unused
<1>4. QED  BY <1>3, Zenon DEF Later

\* What a status is told of an entry has the type of an answer.
LEMMA ViewTyped == ASSUME NEW e \in Stored PROVE View(e) \in Views
BY DEF View, Views, Stored, Entry

\* The history of a status keeps its type.
LEMMA WatchTyped ==
    ASSUME SeenTyped, Watch, entry' \in Stored
    PROVE  SeenTyped'
BY ViewTyped, Zenon DEF SeenTyped, Watch

\* Request r takes a step that has nothing to do with its lock or its lease.
Moves(r) == \E x \in Request : /\ req' = [req EXCEPT ![r] = x]
                               /\ x.held = req[r].held /\ x.lapsed = req[r].lapsed

LEMMA StepInv ==
    ASSUME IInv, NEW r \in Requests, Moves(r), req[r].pc # "dead", lock' = lock
    PROVE  ReqTyped' /\ OneAtATime'
BY DEF IInv, ReqTyped, OneAtATime, Working, Moves

\* It goes on to p; it is answered.
LEMMA GoesMoves ==
    ASSUME ReqTyped, NEW r \in Requests, NEW p \in PCs, Goes(r, p)
    PROVE  Moves(r)
<1> DEFINE x == [req[r] EXCEPT !.pc = p]
<1>1. x \in Request /\ x.held = req[r].held /\ x.lapsed = req[r].lapsed
  BY DEF ReqTyped, Request, PCs
<1>2. req' = [req EXCEPT ![r] = x]  BY DEF Goes
<1>3. QED  BY <1>1, <1>2 DEF Moves

LEMMA AnswersMoves ==
    ASSUME ReqTyped, NEW r \in Requests, NEW p \in PCs, NEW s \in Replies,
           NEW d \in Sessions \cup {None}, Answers(r, s, d, p)
    PROVE  Moves(r)
<1> DEFINE x == [req[r] EXCEPT !.reply = s, !.session = d, !.pc = p,
                               !.seen = NoEntry, !.prev = NoEntry]
<1>1. x \in Request /\ x.held = req[r].held /\ x.lapsed = req[r].lapsed
  BY DEF ReqTyped, Request, PCs
<1>2. req' = [req EXCEPT ![r] = x]  BY DEF Answers
<1>3. QED  BY <1>1, <1>2 DEF Moves

\* A read, a write, a deletion, and a failed write or deletion of the entry.
LEMMA CopyTyped == ASSUME StoreTyped, NEW n \in Nodes PROVE Copy(n) \in Stored
BY DEF Copy, StoreTyped, Stored

LEMMA FillTyped ==
    ASSUME StoreTyped, NEW n \in Nodes, NEW e \in Stored, entry' = entry,
           cache' = [cache EXCEPT ![n] = Kept(e)]
    PROVE  StoreTyped'
BY DEF StoreTyped, Stored, Kept

LEMMA PutTyped ==
    ASSUME StoreTyped, NEW r \in Requests, NEW e \in Stored, Put(r, e)
    PROVE  StoreTyped'
BY ConstantsOK DEF StoreTyped, Stored, Put, Kept

LEMMA PutFailsTyped ==
    ASSUME StoreTyped, NEW r \in Requests, NEW e \in Entry, PutFails(r, e)
    PROVE  StoreTyped'
BY ConstantsOK DEF StoreTyped, Stored, PutFails

LEMMA DropFailsTyped ==
    ASSUME StoreTyped, NEW r \in Requests, DropFails(r)
    PROVE  StoreTyped'
BY ConstantsOK DEF StoreTyped, Stored, DropFails

LEMMA GetInv == ASSUME IInv, NEW r \in Requests, Get(r) PROVE IInv'
<1> USE DEF IInv
<1>1. req[r] \in Request /\ At[r] \in Nodes  BY ConstantsOK DEF ReqTyped
<1>0. Copy(At[r]) \in Stored  BY <1>1, CopyTyped
<1>2. StoreTyped'
  BY <1>0, <1>1, FillTyped DEF Get
<1>3. SeenTyped'  BY <1>2, WatchTyped DEF StoreTyped, Get
<1>4. RestTyped'  BY DEF RestTyped, Get, marks
<1> DEFINE x == [req[r] EXCEPT !.seen = Copy(At[r]), !.pc = Loading(Copy(At[r]))]
<1>5. Moves(r)
  <2>1. x \in Request /\ x.held = req[r].held /\ x.lapsed = req[r].lapsed
    BY <1>0, <1>1 DEF Request, Stored, Loading
  <2>2. req' = [req EXCEPT ![r] = x]  BY DEF Get
  <2>3. QED  BY <2>1, <2>2 DEF Moves
<1>6. ReqTyped' /\ OneAtATime'  BY <1>5, StepInv DEF Get, At_
<1>7. QED  BY <1>2, <1>3, <1>4, <1>6

LEMMA GetFailsInv == ASSUME IInv, NEW r \in Requests, GetFails(r) PROVE IInv'
<1> USE DEF IInv
<1>1. req[r] \in Request /\ At[r] \in Nodes  BY ConstantsOK DEF ReqTyped
<1>2. StoreTyped'
  BY DEF StoreTyped, GetFails, store
<1>3. SeenTyped'  BY <1>2, WatchTyped DEF StoreTyped, GetFails
<1>4. RestTyped'  BY DEF RestTyped, GetFails, marks, Mistake
<1> DEFINE x == [req[r] EXCEPT !.seen = NoEntry, !.pc = "loaded"]
<1>5. Moves(r)
  <2>1. x \in Request /\ x.held = req[r].held /\ x.lapsed = req[r].lapsed
    BY <1>1 DEF Request, Stored
  <2>2. req' = [req EXCEPT ![r] = x]  BY DEF GetFails
  <2>3. QED  BY <2>1, <2>2 DEF Moves
<1>6. ReqTyped' /\ OneAtATime'  BY <1>5, StepInv DEF GetFails, At_
<1>7. QED  BY <1>2, <1>3, <1>4, <1>6

LEMMA SessionInv == ASSUME IInv, NEW r \in Requests, Session(r) PROVE IInv'
<1> USE DEF IInv
<1>1. req[r] \in Request /\ At[r] \in Nodes  BY ConstantsOK DEF ReqTyped
<1>2. StoreTyped'
  BY DEF StoreTyped, Session, store
<1>3. SeenTyped'  BY <1>2, WatchTyped DEF StoreTyped, Session
<1>4. RestTyped'  BY DEF RestTyped, Session, marks
<1>5. Moves(r)  BY GoesMoves DEF Session, PCs
<1>6. ReqTyped' /\ OneAtATime'  BY <1>5, StepInv DEF Session, At_
<1>7. QED  BY <1>2, <1>3, <1>4, <1>6

LEMMA SessionFailsInv == ASSUME IInv, NEW r \in Requests, SessionFails(r) PROVE IInv'
<1> USE DEF IInv
<1>1. req[r] \in Request /\ At[r] \in Nodes  BY ConstantsOK DEF ReqTyped
<1>2. StoreTyped'
  BY DEF StoreTyped, SessionFails, store
<1>3. SeenTyped'  BY <1>2, WatchTyped DEF StoreTyped, SessionFails
<1>4. RestTyped'  BY DEF RestTyped, SessionFails, marks, Mistake
<1>5. Moves(r)  BY GoesMoves DEF SessionFails, PCs
<1>6. ReqTyped' /\ OneAtATime'  BY <1>5, StepInv DEF SessionFails, At_
<1>7. QED  BY <1>2, <1>3, <1>4, <1>6

LEMMA DropInv == ASSUME IInv, NEW r \in Requests, Drop(r) PROVE IInv'
<1> USE DEF IInv
<1>1. req[r] \in Request /\ At[r] \in Nodes  BY ConstantsOK DEF ReqTyped
<1>2. StoreTyped'
  BY PutTyped, DropFailsTyped DEF Drop, Stored
<1>3. SeenTyped'  BY <1>2, WatchTyped DEF StoreTyped, Drop
<1>4. RestTyped'  BY DEF RestTyped, Drop, marks, DropFails, Mistake
<1> DEFINE x == [req[r] EXCEPT !.pc = IF req[r].prev # NoEntry THEN "note" ELSE "loaded", !.seen = NoEntry, !.prev = NoEntry]
<1>5. Moves(r)
  <2>1. x \in Request /\ x.held = req[r].held /\ x.lapsed = req[r].lapsed
    BY <1>1 DEF Request, Stored
  <2>2. req' = [req EXCEPT ![r] = x]  BY DEF Drop
  <2>3. QED  BY <2>1, <2>2 DEF Moves
<1>6. ReqTyped' /\ OneAtATime'  BY <1>5, StepInv DEF Drop, At_
<1>7. QED  BY <1>2, <1>3, <1>4, <1>6

LEMMA RefreshInv == ASSUME IInv, NEW r \in Requests, Refresh(r) PROVE IInv'
<1> USE DEF IInv
<1>1. req[r] \in Request /\ At[r] \in Nodes  BY ConstantsOK DEF ReqTyped
<1> DEFINE e == Refreshed(r)
           d == [e EXCEPT !.expires = Later]
<1>0. e \in Stored /\ (e # NoEntry => d \in Entry)
  BY LaterIsExpiry DEF Refreshed, StoreTyped, Stored, Entry
<1>2. StoreTyped'
  <2>1. CASE e # NoEntry  BY <2>1, <1>0, PutTyped DEF Refresh, Stored
  <2>2. CASE e = NoEntry  BY <2>2, <1>1 DEF Refresh, StoreTyped
  <2>3. QED  BY <2>1, <2>2
<1>3. SeenTyped'  BY <1>2, WatchTyped DEF StoreTyped, Refresh
<1>4. RestTyped'  BY DEF RestTyped, Refresh, marks
<1>5. Moves(r)
  <2>1. CASE e # NoEntry
    <3> DEFINE x == [req[r] EXCEPT !.seen = d, !.pc = "loaded"]
    <3>1. x \in Request /\ x.held = req[r].held /\ x.lapsed = req[r].lapsed
      BY <1>0, <1>1, <2>1 DEF Request, Stored
    <3>2. req' = [req EXCEPT ![r] = x]  BY <2>1 DEF Refresh
    <3>3. QED  BY <3>1, <3>2 DEF Moves
  <2>2. CASE e = NoEntry  BY <2>2, GoesMoves DEF Refresh, PCs
  <2>3. QED  BY <2>1, <2>2
<1>6. ReqTyped' /\ OneAtATime'  BY <1>5, StepInv DEF Refresh, At_
<1>7. QED  BY <1>2, <1>3, <1>4, <1>6

LEMMA RefreshFailsInv == ASSUME IInv, NEW r \in Requests, RefreshFails(r) PROVE IInv'
<1> USE DEF IInv
<1>1. req[r] \in Request /\ At[r] \in Nodes  BY ConstantsOK DEF ReqTyped
<1>0. Refreshed(r) # NoEntry => [Refreshed(r) EXCEPT !.expires = Later] \in Entry
  BY LaterIsExpiry DEF Refreshed, StoreTyped, Stored, Entry
<1>2. StoreTyped'
  BY <1>0, <1>1 DEF RefreshFails, StoreTyped, Stored
<1>3. SeenTyped'  BY <1>2, WatchTyped DEF StoreTyped, RefreshFails
<1>4. RestTyped'  BY DEF RestTyped, RefreshFails, marks, Mistake
<1>5. Moves(r)  BY GoesMoves DEF RefreshFails, PCs
<1>6. ReqTyped' /\ OneAtATime'  BY <1>5, StepInv DEF RefreshFails, At_
<1>7. QED  BY <1>2, <1>3, <1>4, <1>6

LEMMA AgainInv == ASSUME IInv, NEW r \in Requests, Again(r) PROVE IInv'
<1> USE DEF IInv
<1>1. req[r] \in Request /\ At[r] \in Nodes  BY ConstantsOK DEF ReqTyped
<1>0. Copy(At[r]) \in Stored  BY <1>1, CopyTyped
<1>2. StoreTyped'
  BY <1>0, <1>1, FillTyped DEF Again
<1>3. SeenTyped'  BY <1>2, WatchTyped DEF StoreTyped, Again
<1>4. RestTyped'  BY DEF RestTyped, Again, marks
<1> DEFINE x == [req[r] EXCEPT !.seen = Copy(At[r]), !.pc = "loaded"]
<1>5. Moves(r)
  <2>1. x \in Request /\ x.held = req[r].held /\ x.lapsed = req[r].lapsed
    BY <1>0, <1>1 DEF Request, Stored
  <2>2. req' = [req EXCEPT ![r] = x]  BY DEF Again
  <2>3. QED  BY <2>1, <2>2 DEF Moves
<1>6. ReqTyped' /\ OneAtATime'  BY <1>5, StepInv DEF Again, At_
<1>7. QED  BY <1>2, <1>3, <1>4, <1>6

\* The lock, the lease and a crash: the request that holds the lock is the only one that
\* has it and whose lease is not lost.
LEMMA ClaimInv == ASSUME IInv, NEW r \in Requests, Claim(r) PROVE IInv'
<1> USE DEF IInv
<1>1. req[r] \in Request  BY DEF ReqTyped
<1>2. StoreTyped'  BY DEF StoreTyped, Claim, store
<1>3. SeenTyped'  BY <1>2, WatchTyped DEF StoreTyped, Claim
<1>4. RestTyped'  BY DEF RestTyped, Claim, marks
<1>5. CASE lock = None
  <2>1. lock' = r /\ req' = [req EXCEPT ![r].held = TRUE, ![r].pc = "get"]
    BY <1>5 DEF Claim
  <2>2. ReqTyped'  BY <1>1, <2>1 DEF ReqTyped, Request
  <2>3. OneAtATime'  BY <1>5, <2>1, ConstantsOK DEF OneAtATime, Working, ReqTyped
  <2>4. QED  BY <1>2, <1>3, <1>4, <2>2, <2>3
<1>6. CASE lock # None
  <2>1. lock' = lock  BY <1>6 DEF Claim
  <2>2. Moves(r)
    <3> DEFINE x == IF IsStart(r) THEN [req[r] EXCEPT !.pc = "get"]
                    ELSE [req[r] EXCEPT !.reply = "busy", !.pc = "done"]
    <3>1. x \in Request /\ x.held = req[r].held /\ x.lapsed = req[r].lapsed
      BY <1>1 DEF Request, Replies
    <3>2. req' = [req EXCEPT ![r] = x]  BY <1>6 DEF Claim
    <3>3. QED  BY <3>1, <3>2 DEF Moves
  <2>3. ReqTyped' /\ OneAtATime'  BY <2>1, <2>2, StepInv DEF Claim, At_
  <2>4. QED  BY <1>2, <1>3, <1>4, <2>3
<1>7. QED  BY <1>5, <1>6

LEMMA ClaimFailsInv == ASSUME IInv, NEW r \in Requests, ClaimFails(r) PROVE IInv'
<1> USE DEF IInv
<1>1. req[r] \in Request  BY DEF ReqTyped
<1>2. StoreTyped'  BY DEF StoreTyped, ClaimFails, store
<1>3. SeenTyped'  BY <1>2, WatchTyped DEF StoreTyped, ClaimFails
<1>4. RestTyped'  BY DEF RestTyped, ClaimFails, marks, Mistake
<1>5. req' = [req EXCEPT ![r].reply = "failed", ![r].pc = "done"]  BY DEF ClaimFails
<1>6. ReqTyped'  BY <1>1, <1>5 DEF ReqTyped, Request, Replies
<1>7. \A q \in Requests : Working(q)' /\ ~req'[q].lapsed => Working(q) /\ ~req[q].lapsed
  BY <1>1, <1>5 DEF Working, ReqTyped, ClaimFails, At_
<1>8. lock' = lock \/ lock = None  BY DEF ClaimFails
<1>9. OneAtATime'  BY <1>7, <1>8, ConstantsOK DEF OneAtATime
<1>10. QED  BY <1>2, <1>3, <1>4, <1>6, <1>9

LEMMA ReleaseInv == ASSUME IInv, NEW r \in Requests, Release(r) PROVE IInv'
<1> USE DEF IInv
<1>1. req[r] \in Request  BY DEF ReqTyped
<1>2. StoreTyped'  BY DEF StoreTyped, Release, store
<1>3. SeenTyped'  BY <1>2, WatchTyped DEF StoreTyped, Release
<1>4. RestTyped'  BY DEF RestTyped, Release, marks, Mistake, Freed
<1>5. req' = [req EXCEPT ![r].held = FALSE, ![r].pc = Finished(r)]  BY DEF Release
<1>6. ReqTyped'  BY <1>1, <1>5 DEF ReqTyped, Request, Finished
<1>7. \A q \in Requests : Working(q)' => q # r /\ Working(q) /\ req'[q].lapsed = req[q].lapsed
  BY <1>1, <1>5 DEF Working, ReqTyped
<1>8. lock' = lock \/ lock = r  BY DEF Release, Freed
<1>9. OneAtATime'  BY <1>7, <1>8 DEF OneAtATime
<1>10. QED  BY <1>2, <1>3, <1>4, <1>6, <1>9

LEMMA LapseInv == ASSUME IInv, Lapse PROVE IInv'
<1> USE DEF IInv
<1>1. StoreTyped'  BY DEF StoreTyped, Lapse, store
<1>2. SeenTyped'  BY <1>1, WatchTyped DEF StoreTyped, Lapse
<1>3. RestTyped'  BY DEF RestTyped, Lapse, marks, Mistake
<1>4. lock \in Requests /\ lock' = None  BY DEF Lapse, RestTyped
<1>5. CASE Working(lock)
  <2>1. req' = [req EXCEPT ![lock].lapsed = TRUE]  BY <1>5 DEF Lapse
  <2>2. req[lock] \in Request  BY <1>4 DEF ReqTyped
  <2>3. ReqTyped'  BY <1>4, <2>1, <2>2 DEF ReqTyped, Request
  <2>4. OneAtATime'  BY <1>4, <2>1, <2>2 DEF OneAtATime, Working, ReqTyped
  <2>5. QED  BY <1>1, <1>2, <1>3, <2>3, <2>4
<1>6. CASE ~Working(lock)
  <2>1. req' = req  BY <1>6 DEF Lapse
  <2>2. ReqTyped' /\ OneAtATime'  BY <1>4, <1>6, <2>1 DEF ReqTyped, OneAtATime, Working
  <2>3. QED  BY <1>1, <1>2, <1>3, <2>2
<1>7. QED  BY <1>5, <1>6

LEMMA CrashInv == ASSUME IInv, NEW r \in Requests, Crash(r) PROVE IInv'
<1> USE DEF IInv
<1>2. StoreTyped'  BY DEF StoreTyped, Crash, store
<1>3. SeenTyped'  BY <1>2, WatchTyped DEF StoreTyped, Crash
<1>4. RestTyped'  BY DEF RestTyped, Crash, marks, Mistake
<1>5. Moves(r)  BY GoesMoves DEF Crash, PCs
<1>6. ReqTyped' /\ OneAtATime'  BY <1>5, StepInv DEF Crash
<1>7. QED  BY <1>2, <1>3, <1>4, <1>6

\* A new request holds no lock: one that repeats a request that is done gives none up.
LEMMA NewRequestTyped == ASSUME NEW k \in Kinds PROVE NewRequest(k) \in Request
BY DEF NewRequest, Kinds, Request, Replies

LEMMA RetryInv == ASSUME IInv, NEW r \in Requests, Retry(r) PROVE IInv'
<1> USE DEF IInv
<1>2. StoreTyped'  BY DEF StoreTyped, Retry
<1>3. SeenTyped'  BY <1>2, WatchTyped DEF StoreTyped, Retry
<1>4. RestTyped'  BY DEF RestTyped, Retry, marks
<1>5. NewRequest("start") \in Request /\ ~NewRequest("start").held
  BY NewRequestTyped DEF Kinds, NewRequest
<1>6. req' = [req EXCEPT ![r] = NewRequest("start")] /\ lock' = lock  BY DEF Retry
<1>7. ReqTyped'  BY <1>5, <1>6 DEF ReqTyped
<1>8. OneAtATime'  BY <1>5, <1>6 DEF OneAtATime, Working, ReqTyped
<1>9. QED  BY <1>2, <1>3, <1>4, <1>7, <1>8

\* The handlers: none of their steps has to do with the lock.
LEMMA TellInv == ASSUME IInv, NEW r \in Requests, Tell(r) PROVE IInv'
<1> USE DEF IInv
<1>1. req[r] \in Request /\ At[r] \in Nodes  BY ConstantsOK DEF ReqTyped
<1>2. StoreTyped'
  BY DEF StoreTyped, Tell, store
<1>3. SeenTyped'  BY <1>2, WatchTyped DEF StoreTyped, Tell
<1>4. RestTyped'  BY DEF RestTyped, Tell, marks
<1>0. req[r].seen \in Stored  BY <1>1 DEF Request, Stored
<1>5. Moves(r)
  <2>1. View(req[r].seen)[1] \in Replies /\ View(req[r].seen)[2] \in Sessions \cup {None}
    BY <1>0, ViewTyped DEF Views, Replies
  <2>2. CASE scene.kind[r] = "status" /\ Answers(r, View(req[r].seen)[1], View(req[r].seen)[2], "done")
    BY <2>1, <2>2, AnswersMoves DEF PCs
  <2>3. CASE Answers(r, "inactive", None, "done")
    BY <2>3, AnswersMoves DEF PCs, Replies
  <2>4. CASE Answers(r, "starting", None, "done")
    BY <2>4, AnswersMoves DEF PCs, Replies
  <2>5. CASE Answers(r, "busy", None, "done")
    BY <2>5, AnswersMoves DEF PCs, Replies
  <2>6. QED  BY <2>2, <2>3, <2>4, <2>5 DEF Tell
<1>6. ReqTyped' /\ OneAtATime'  BY <1>5, StepInv DEF Tell, At_
<1>7. QED  BY <1>2, <1>3, <1>4, <1>6

LEMMA EnterInv == ASSUME IInv, NEW r \in Requests, Enter(r) PROVE IInv'
<1> USE DEF IInv
<1>1. req[r] \in Request /\ At[r] \in Nodes  BY ConstantsOK DEF ReqTyped
<1>2. StoreTyped'
  BY DEF StoreTyped, Enter, store
<1>3. SeenTyped'  BY <1>2, WatchTyped DEF StoreTyped, Enter
<1>4. RestTyped'  BY DEF RestTyped, Enter, marks
<1> DEFINE x == [req[r] EXCEPT !.seen = NoEntry, !.pc = IF req[r].seen = NoEntry THEN IF req[r].held THEN "note" ELSE "claim" ELSE IF req[r].held THEN "release" ELSE "token"]
<1>5. Moves(r)
  <2>1. x \in Request /\ x.held = req[r].held /\ x.lapsed = req[r].lapsed
    BY <1>1 DEF Request, Stored
  <2>2. req' = [req EXCEPT ![r] = x]  BY DEF Enter
  <2>3. QED  BY <2>1, <2>2 DEF Moves
<1>6. ReqTyped' /\ OneAtATime'  BY <1>5, StepInv DEF Enter, At_
<1>7. QED  BY <1>2, <1>3, <1>4, <1>6

LEMMA ReuseInv == ASSUME IInv, NEW r \in Requests, Reuse(r) PROVE IInv'
<1> USE DEF IInv
<1>1. req[r] \in Request /\ At[r] \in Nodes  BY ConstantsOK DEF ReqTyped
<1>2. StoreTyped'
  BY DEF StoreTyped, Reuse, store
<1>3. SeenTyped'  BY <1>2, WatchTyped DEF StoreTyped, Reuse
<1>4. RestTyped'  BY DEF RestTyped, Reuse, marks
<1> DEFINE e == req[r].seen
<1>0. e \in Stored  BY <1>1 DEF Request, Stored
<1>5. Moves(r)
  <2>1. CASE View(e)[1] # "active"
    BY <2>1, GoesMoves DEF Reuse, PCs
  <2>2. CASE View(e)[1] = "active" /\ Answers(r, "deck", None, "release")
    BY <2>2, AnswersMoves DEF PCs, Replies
  <2>3. CASE View(e)[1] = "active" /\ Answers(r, "none", e.session, "token")
    <3>1. e.session \in Sessions \cup {None}  BY <2>3, <1>0 DEF View, Stored, Entry
    <3>2. QED  BY <2>3, <3>1, AnswersMoves DEF PCs, Replies
  <2>4. CASE req' = [req EXCEPT ![r].pc = "drop", ![r].prev = e]
    <3> DEFINE x == [req[r] EXCEPT !.pc = "drop", !.prev = e]
    <3>1. x \in Request /\ x.held = req[r].held /\ x.lapsed = req[r].lapsed
      BY <1>1 DEF Request
    <3>2. req' = [req EXCEPT ![r] = x]  BY <2>4
    <3>3. QED  BY <3>1, <3>2 DEF Moves
  <2>5. QED  BY <2>1, <2>2, <2>3, <2>4 DEF Reuse
<1>6. ReqTyped' /\ OneAtATime'  BY <1>5, StepInv DEF Reuse, At_
<1>7. QED  BY <1>2, <1>3, <1>4, <1>6

LEMMA NoteInv == ASSUME IInv, NEW r \in Requests, Note(r) PROVE IInv'
<1> USE DEF IInv
<1>1. req[r] \in Request /\ At[r] \in Nodes  BY ConstantsOK DEF ReqTyped
<1> DEFINE i == IF IsStart(r) THEN scene.id[r] ELSE None
           e == IF req[r].seen = NoEntry THEN Waiting(i, Later) ELSE [req[r].seen EXCEPT !.req = i]
<1>0. e \in Entry
  <2>1. scene \in Scene  BY ConstantsOK DEF RestTyped
  <2>2. i \in Ids \cup {None}  BY <2>1 DEF Scene
  <2>3. req[r].seen \in Entry \cup {NoEntry}  BY <1>1 DEF Request
  <2>4. QED  BY <2>2, <2>3, LaterIsExpiry DEF Waiting, Entry
<1>2. StoreTyped'
  BY <1>0, PutTyped, PutFailsTyped DEF Note, Stored
<1>3. SeenTyped'  BY <1>2, WatchTyped DEF StoreTyped, Note
<1>4. RestTyped'  BY DEF RestTyped, Note, marks, PutFails, Mistake
<1>5. Moves(r)
  <2>1. CASE req' = [req EXCEPT ![r].prev = IF IsStart(r) THEN req[r].seen ELSE NoEntry,
                                ![r].seen = NoEntry,
                                ![r].pc = IF IsStart(r) THEN "create" ELSE "release"]
    <3> DEFINE x == [req[r] EXCEPT !.prev = IF IsStart(r) THEN req[r].seen ELSE NoEntry,
                                   !.seen = NoEntry,
                                   !.pc = IF IsStart(r) THEN "create" ELSE "release"]
    <3>1. x \in Request /\ x.held = req[r].held /\ x.lapsed = req[r].lapsed
      BY <1>1 DEF Request
    <3>2. req' = [req EXCEPT ![r] = x]  BY <2>1
    <3>3. QED  BY <3>1, <3>2 DEF Moves
  <2>2. CASE req' = [req EXCEPT ![r].prev = req[r].seen, ![r].seen = NoEntry, ![r].pc = "undo"]
    <3> DEFINE x == [req[r] EXCEPT !.prev = req[r].seen, !.seen = NoEntry, !.pc = "undo"]
    <3>1. x \in Request /\ x.held = req[r].held /\ x.lapsed = req[r].lapsed
      BY <1>1 DEF Request
    <3>2. req' = [req EXCEPT ![r] = x]  BY <2>2
    <3>3. QED  BY <3>1, <3>2 DEF Moves
  <2>3. CASE Answers(r, "failed", None, "release")
    BY <2>3, AnswersMoves DEF PCs, Replies
  <2>4. QED  BY <2>1, <2>2, <2>3 DEF Note
<1>6. ReqTyped' /\ OneAtATime'  BY <1>5, StepInv DEF Note, At_
<1>7. QED  BY <1>2, <1>3, <1>4, <1>6

LEMMA ActivateInv == ASSUME IInv, NEW r \in Requests, Activate(r) PROVE IInv'
<1> USE DEF IInv
<1>1. req[r] \in Request /\ At[r] \in Nodes  BY ConstantsOK DEF ReqTyped
<1> DEFINE e == [req |-> scene.id[r], session |-> req[r].made, deck |-> scene.deck[r], expires |-> Later]
<1>0. e \in Entry
  <2>1. scene \in Scene  BY ConstantsOK DEF RestTyped
  <2>2. scene.id[r] \in Ids /\ scene.deck[r] \in Decks  BY <2>1 DEF Scene
  <2>3. req[r].made \in Sessions \cup {None}  BY <1>1 DEF Request
  <2>4. QED  BY <2>2, <2>3, LaterIsExpiry DEF Entry
<1>2. StoreTyped'
  BY <1>0, PutTyped, PutFailsTyped DEF Activate, Stored
<1>3. SeenTyped'  BY <1>2, WatchTyped DEF StoreTyped, Activate
<1>4. RestTyped'  BY DEF RestTyped, Activate, marks, PutFails, Mistake
<1>5. Moves(r)
  <2>1. CASE req' = [req EXCEPT ![r].session = req[r].made, ![r].pc = "token"]
    <3> DEFINE x == [req[r] EXCEPT !.session = req[r].made, !.pc = "token"]
    <3>1. x \in Request /\ x.held = req[r].held /\ x.lapsed = req[r].lapsed
      BY <1>1 DEF Request
    <3>2. req' = [req EXCEPT ![r] = x]  BY <2>1
    <3>3. QED  BY <3>1, <3>2 DEF Moves
  <2>2. CASE Goes(r, "undo")
    BY <2>2, GoesMoves DEF PCs
  <2>3. QED  BY <2>1, <2>2 DEF Activate
<1>6. ReqTyped' /\ OneAtATime'  BY <1>5, StepInv DEF Activate, At_
<1>7. QED  BY <1>2, <1>3, <1>4, <1>6

LEMMA UndoInv == ASSUME IInv, NEW r \in Requests, Undo(r) PROVE IInv'
<1> USE DEF IInv
<1>1. req[r] \in Request /\ At[r] \in Nodes  BY ConstantsOK DEF ReqTyped
<1>0. req[r].prev \in Stored  BY <1>1 DEF Request, Stored
<1>2. StoreTyped'
  <2>1. CASE Put(r, Restored(r))
    BY <2>1, <1>0, PutTyped DEF Restored
  <2>2. CASE DropFails(r)
    BY <2>2, DropFailsTyped
  <2>3. CASE req[r].prev # NoEntry /\ PutFails(r, req[r].prev)
    <3>1. req[r].prev \in Entry  BY <2>3, <1>0 DEF Stored
    <3>2. QED  BY <2>3, <3>1, PutFailsTyped
  <2>4. QED  BY <2>1, <2>2, <2>3 DEF Undo
<1>3. SeenTyped'  BY <1>2, WatchTyped DEF StoreTyped, Undo
<1>4. RestTyped'  BY DEF RestTyped, Undo, marks, PutFails, DropFails, Mistake
<1>5. Moves(r)  BY AnswersMoves DEF Undo, PCs, Replies
<1>6. ReqTyped' /\ OneAtATime'  BY <1>5, StepInv DEF Undo, At_
<1>7. QED  BY <1>2, <1>3, <1>4, <1>6

LEMMA TokenInv == ASSUME IInv, NEW r \in Requests, Token(r) PROVE IInv'
<1> USE DEF IInv
<1>1. req[r] \in Request /\ At[r] \in Nodes  BY ConstantsOK DEF ReqTyped
<1>2. StoreTyped'
  BY DEF StoreTyped, Token, store
<1>3. SeenTyped'  BY <1>2, WatchTyped DEF StoreTyped, Token
<1>4. RestTyped'  BY DEF RestTyped, Token, marks, Mistake
<1>5. Moves(r)
  <2>1. req[r].session \in Sessions \cup {None}  BY <1>1 DEF Request
  <2>2. QED  BY <2>1, AnswersMoves DEF Token, PCs, Replies
<1>6. ReqTyped' /\ OneAtATime'  BY <1>5, StepInv DEF Token, At_
<1>7. QED  BY <1>2, <1>3, <1>4, <1>6

LEMMA StopInv == ASSUME IInv, NEW r \in Requests, Stop(r) PROVE IInv'
<1> USE DEF IInv
<1>1. req[r] \in Request /\ At[r] \in Nodes  BY ConstantsOK DEF ReqTyped
<1>2. StoreTyped'
  BY PutTyped, DropFailsTyped DEF Stop, Stored
<1>3. SeenTyped'  BY <1>2, WatchTyped DEF StoreTyped, Stop
<1>4. RestTyped'  BY DEF RestTyped, Stop, marks, DropFails, Mistake
<1>5. Moves(r)  BY AnswersMoves DEF Stop, PCs, Replies
<1>6. ReqTyped' /\ OneAtATime'  BY <1>5, StepInv DEF Stop, At_
<1>7. QED  BY <1>2, <1>3, <1>4, <1>6

LEMMA CreateInv == ASSUME IInv, NEW r \in Requests, Create(r) PROVE IInv'
<1> USE DEF IInv
<1>1. req[r] \in Request  BY DEF ReqTyped
<1>2. StoreTyped'  BY DEF StoreTyped, Create, store
<1>3. SeenTyped'  BY <1>2, WatchTyped DEF StoreTyped, Create
<1>0. MaxSessions \in Nat /\ created \in Nat /\ created + 1 \in Sessions /\ created' \in {created, created + 1}
  BY ConstantsOK DEF RestTyped, Create, Sessions
<1>4. RestTyped'
  <2>1. 1..created \subseteq 1..created'  BY <1>0
  <2>2. created' \in 0..MaxSessions  BY <1>0 DEF RestTyped, Create
  <2>3. QED  BY <2>1, <2>2 DEF RestTyped, Create, Mistake
<1>5. Moves(r)
  <2>1. CASE req' = [req EXCEPT ![r].made = created + 1, ![r].pc = "activate"]
    <3> DEFINE x == [req[r] EXCEPT !.made = created + 1, !.pc = "activate"]
    <3>1. x \in Request /\ x.held = req[r].held /\ x.lapsed = req[r].lapsed
      BY <1>0, <1>1 DEF Request
    <3>2. req' = [req EXCEPT ![r] = x]  BY <2>1
    <3>3. QED  BY <3>1, <3>2 DEF Moves
  <2>2. CASE Goes(r, "undo")
    BY <2>2, GoesMoves DEF PCs
  <2>3. QED  BY <2>1, <2>2 DEF Create
<1>6. ReqTyped' /\ OneAtATime'  BY <1>5, StepInv DEF Create, At_
<1>7. QED  BY <1>2, <1>3, <1>4, <1>6

LEMMA MarkInv == ASSUME IInv, NEW r \in Requests, Mark(r) PROVE IInv'
<1> USE DEF IInv
<1>1. req[r] \in Request  BY DEF ReqTyped
<1>2. StoreTyped'  BY DEF StoreTyped, Mark, store
<1>3. SeenTyped'  BY <1>2, WatchTyped DEF StoreTyped, Mark
<1>4. RestTyped'
  <2>1. req[r].seen \in Stored  BY <1>1 DEF Request, Stored
  <2>2. req[r].seen.session \in Sessions  BY <2>1 DEF Mark, View, Stored, Entry
  <2>3. QED  BY <2>2 DEF RestTyped, Mark
<1> DEFINE x == [req[r] EXCEPT !.seen = NoEntry, !.pc = "stop"]
<1>5. Moves(r)
  <2>1. x \in Request /\ x.held = req[r].held /\ x.lapsed = req[r].lapsed
    BY <1>1 DEF Request
  <2>2. req' = [req EXCEPT ![r] = x]  BY DEF Mark
  <2>3. QED  BY <2>1, <2>2 DEF Moves
<1>6. ReqTyped' /\ OneAtATime'  BY <1>5, StepInv DEF Mark, At_
<1>7. QED  BY <1>2, <1>3, <1>4, <1>6

\* What happens around the requests leaves them, and the lock, alone.
LEMMA AroundInv ==
    ASSUME IInv, StoreTyped', RestTyped', SeenTyped', UNCHANGED <<req, lock>>
    PROVE  IInv'
BY DEF IInv, ReqTyped, OneAtATime, Working

LEMMA FillInv == ASSUME IInv, NEW n \in Nodes, Fill(n) PROVE IInv'
<1>1. StoreTyped'  BY DEF IInv, StoreTyped, Stored, Fill
<1>2. SeenTyped'  BY <1>1, WatchTyped DEF IInv, StoreTyped, Fill
<1>3. RestTyped'  BY DEF IInv, RestTyped, Fill, marks
<1>4. QED  BY <1>1, <1>2, <1>3, AroundInv DEF Fill

LEMMA AgeInv == ASSUME IInv, NEW n \in Nodes, Age(n) PROVE IInv'
<1>1. StoreTyped'  BY DEF IInv, StoreTyped, Stored, Age
<1>2. SeenTyped'  BY <1>1, WatchTyped DEF IInv, StoreTyped, Age
<1>3. RestTyped'  BY DEF IInv, RestTyped, Age, marks
<1>4. QED  BY <1>1, <1>2, <1>3, AroundInv DEF Age

LEMMA ExpireInv == ASSUME IInv, Expire PROVE IInv'
<1>1. StoreTyped'  BY DEF IInv, StoreTyped, Stored, Expire
<1>2. SeenTyped'  BY <1>1, WatchTyped DEF IInv, StoreTyped, Expire
<1>3. RestTyped'  BY DEF IInv, RestTyped, Expire, marks, Mistake
<1>4. QED  BY <1>1, <1>2, <1>3, AroundInv DEF Expire

LEMMA EndSessionInv == ASSUME IInv, NEW s \in Sessions, EndSession(s) PROVE IInv'
<1>1. StoreTyped'  BY DEF IInv, StoreTyped, EndSession, store
<1>2. SeenTyped'  BY <1>1, WatchTyped DEF IInv, StoreTyped, EndSession
<1>3. RestTyped'  BY DEF IInv, RestTyped, EndSession
<1>4. QED  BY <1>1, <1>2, <1>3, AroundInv DEF EndSession

LEMMA StutterInv == ASSUME IInv, UNCHANGED vars PROVE IInv'
<1> USE DEF vars, store, marks
<1>1. StoreTyped'  BY DEF IInv, StoreTyped
<1>2. SeenTyped'  BY DEF IInv, SeenTyped
<1>3. RestTyped'  BY DEF IInv, RestTyped
<1>4. QED  BY <1>1, <1>2, <1>3, AroundInv

\* At the start nobody holds the lock, and every copy is of the entry that is there.
LEMMA InitInv == ASSUME Init PROVE IInv
<1>1. scene \in Scene  BY ConstantsOK DEF Init
<1>2. 0 \in Expiries
  <2>1. Cardinality(Nodes) \in Nat /\ Cardinality(Requests) \in Nat
    BY ConstantsOK, FS_CardinalityType
  <2>2. QED  BY <2>1, SMT DEF Expiries
<1>3. 1 \in Sessions /\ MaxSessions \in Nat  BY ConstantsOK DEF Sessions
<1>4. entry \in Stored
  <2>1. CASE scene.entry = NoEntry  BY <2>1 DEF Init, Stored
  <2>2. CASE scene.entry # NoEntry /\ scene.entry = "waiting"
    <3>1. entry = Waiting(None, 0)  BY <2>2 DEF Init
    <3>2. QED  BY <3>1, <1>2 DEF Waiting, Stored, Entry
  <2>3. CASE scene.entry # NoEntry /\ scene.entry # "waiting"
    <3>1. entry = [req |-> None, session |-> 1, deck |-> "deck", expires |-> 0]
      BY <2>3 DEF Init
    <3>2. QED  BY <3>1, <1>2, <1>3 DEF Stored, Entry, Decks
  <2>4. QED  BY <2>1, <2>2, <2>3
<1>5. cache \in [Nodes -> Entry \cup {None}]
  <2>1. PICK held \in {{}, Nodes} : /\ held # {} => entry # NoEntry
                                    /\ cache = [n \in Nodes |-> IF n \in held THEN entry ELSE None]
    BY Zenon DEF Init
  <2>2. QED  BY <1>4, <2>1 DEF Stored
<1>6. req = [r \in Requests |-> NewRequest(scene.kind[r])] /\ \A r \in Requests : scene.kind[r] \in Kinds
  BY <1>1 DEF Init, Scene
<1>7. ReqTyped  BY <1>6, NewRequestTyped DEF ReqTyped
<1>8. OneAtATime  BY <1>6 DEF OneAtATime, Working, NewRequest
<1>9. RestTyped  BY <1>3 DEF Init, RestTyped, Sessions
<1>10. SeenTyped  BY <1>4, ViewTyped DEF Init, SeenTyped
<1>11. QED  BY <1>4, <1>5, <1>7, <1>8, <1>9, <1>10 DEF IInv, StoreTyped

LEMMA NextInv == ASSUME IInv, [Next]_vars PROVE IInv'
<1>1. CASE \E r \in Requests : Step(r)
  <2>1. PICK r \in Requests : Step(r)  BY <1>1
  <2>2. CASE Get(r) \/ Session(r) \/ Drop(r) \/ Refresh(r) \/ Again(r)
    BY <2>2, GetInv, SessionInv, DropInv, RefreshInv, AgainInv
  <2>3. CASE Claim(r) \/ Release(r) \/ Retry(r)
    BY <2>3, ClaimInv, ReleaseInv, RetryInv
  <2>4. CASE Tell(r) \/ Enter(r) \/ Reuse(r) \/ Mark(r) \/ Stop(r)
    BY <2>4, TellInv, EnterInv, ReuseInv, MarkInv, StopInv
  <2>5. CASE Note(r) \/ Create(r) \/ Activate(r) \/ Undo(r) \/ Token(r)
    BY <2>5, NoteInv, CreateInv, ActivateInv, UndoInv, TokenInv
  <2>6. QED  BY <2>1, <2>2, <2>3, <2>4, <2>5 DEF Step
<1>2. CASE Environment
  <2>1. CASE \E r \in Requests : GetFails(r) \/ SessionFails(r) \/ RefreshFails(r) \/ ClaimFails(r) \/ Crash(r)
    BY <2>1, GetFailsInv, SessionFailsInv, RefreshFailsInv, ClaimFailsInv, CrashInv
  <2>2. CASE \E n \in Nodes : Fill(n) \/ Age(n)
    BY <2>2, FillInv, AgeInv
  <2>3. CASE \E s \in Sessions : EndSession(s)
    BY <2>3, EndSessionInv
  <2>4. QED  BY <1>2, <2>1, <2>2, <2>3, ExpireInv DEF Environment
<1>3. QED  BY <1>1, <1>2, LapseInv, StutterInv DEF Next

LEMMA IInvHolds == Spec => []IInv
<1>1. Init => IInv  BY InitInv
<1>2. IInv /\ [Next]_vars => IInv'  BY NextInv
<1>3. QED  BY <1>1, <1>2, PTL DEF Spec

\* Every variable of the launches keeps its type (loadEntry, the start lock and the
\* handlers of learnIntegration.ts), whatever fails.
THEOREM TypeCorrect == Spec => []TypeOK
<1>1. IInv => TypeOK
  BY DEF IInv, StoreTyped, ReqTyped, RestTyped, SeenTyped, TypeOK, Stored, Views
<1>2. QED  BY <1>1, IInvHolds, PTL

\* The start lock of learnIntegration.ts: of all requests on all instances, at most one
\* works under the lock with its lease not lost, however many leases are lost, instances
\* crash, claims and releases fail and releases come late.
THEOREM OneStartAtATime == Spec => []OneAtATime
<1>1. IInv => OneAtATime  BY DEF IInv
<1>2. QED  BY <1>1, IInvHolds, PTL
-----------------------------------------------------------------------------
(* What the steps do to the entry and its copies                           *)

Active(e)   == e # NoEntry /\ e.session # None
Leads(e, s) == e # NoEntry /\ e.session = s

\* e and f lead to the same session, or to none.
SameView(e, f) == (e = NoEntry <=> f = NoEntry) /\ (e # NoEntry => f.session = e.session)

\* What a cache may show after a step that reads, renews or deletes the entry, or puts it.
Cached(n) == cache'[n] \in {cache[n], None} \cup ({entry, entry'} \ {NoEntry})

\* A step that makes the entry lead nowhere else: it reads, renews or deletes it.
Soft == /\ SameView(entry, entry') \/ entry' = NoEntry
        /\ \A n \in Nodes : Cached(n)

\* The steps of the request that works under the lock on the entry.
Hard(r) == Note(r) \/ Activate(r) \/ Undo(r)

Only(r) == \A q \in Requests \ {r} : req'[q] = req[q]

LEMMA KeptCached ==
    ASSUME IInv, NEW n \in Nodes, entry' = entry, cache' = [cache EXCEPT ![n] = Kept(Copy(n))]
    PROVE  Soft
BY ConstantsOK DEF IInv, StoreTyped, Soft, SameView, Cached, Kept, Copy

LEMMA EmptiedSoft ==
    ASSUME IInv, NEW n \in Nodes, entry' = entry, cache' = [cache EXCEPT ![n] = None]
    PROVE  Soft
BY DEF IInv, StoreTyped, Soft, SameView, Cached

LEMMA SameSoft == ASSUME IInv, UNCHANGED store PROVE Soft
BY DEF IInv, StoreTyped, Soft, SameView, Cached, store

LEMMA PutCached ==
    ASSUME IInv, NEW r \in Requests, NEW e \in Stored, Put(r, e)
    PROVE  entry' = e /\ \A n \in Nodes : Cached(n)
<1>1. At[r] \in Nodes  BY ConstantsOK
<1>2. QED  BY <1>1 DEF IInv, StoreTyped, Cached, Put, Kept

LEMMA RefreshedEntry ==
    ASSUME IInv, NEW r \in Requests, Refreshed(r) # NoEntry
    PROVE  /\ Refreshed(r) = entry /\ entry \in Entry
           /\ [Refreshed(r) EXCEPT !.expires = Later] \in Entry
           /\ SameView(entry, [Refreshed(r) EXCEPT !.expires = Later])
<1>1. Refreshed(r) = entry /\ entry \in Entry  BY DEF IInv, StoreTyped, Stored, Refreshed
<1>2. [entry EXCEPT !.expires = Later] \in Entry  BY <1>1, LaterIsExpiry DEF Entry
<1>3. SameView(entry, [entry EXCEPT !.expires = Later])
  BY <1>1, <1>2, ConstantsOK DEF SameView, Entry
<1>4. QED  BY <1>1, <1>2, <1>3

LEMMA RefreshSoft == ASSUME IInv, NEW r \in Requests, Refresh(r) PROVE Soft
<1>1. At[r] \in Nodes  BY ConstantsOK
<1>2. CASE Refreshed(r) # NoEntry
  <2>1. Put(r, [Refreshed(r) EXCEPT !.expires = Later])  BY <1>2 DEF Refresh
  <2>2. QED  BY <1>2, <2>1, RefreshedEntry, PutCached DEF Soft, Stored
<1>3. CASE Refreshed(r) = NoEntry
  BY <1>1, <1>3, EmptiedSoft DEF Refresh
<1>4. QED  BY <1>2, <1>3

LEMMA RefreshFailsSoft == ASSUME IInv, NEW r \in Requests, RefreshFails(r) PROVE Soft
<1>1. At[r] \in Nodes  BY ConstantsOK
<1>2. \A n \in Nodes : Cached(n)
  BY <1>1 DEF IInv, StoreTyped, RefreshFails, Cached
<1>3. SameView(entry, entry')
  <2>1. CASE entry' = entry  BY <2>1 DEF SameView
  <2>2. CASE Refreshed(r) # NoEntry /\ entry' = [Refreshed(r) EXCEPT !.expires = Later]
    BY <2>2, RefreshedEntry
  <2>3. QED  BY <2>1, <2>2 DEF RefreshFails
<1>4. QED  BY <1>2, <1>3 DEF Soft

LEMMA DeleteSoft ==
    ASSUME IInv, NEW r \in Requests, Put(r, NoEntry) \/ DropFails(r)
    PROVE  Soft
<1>1. At[r] \in Nodes  BY ConstantsOK
<1>2. CASE Put(r, NoEntry)  BY <1>2, PutCached DEF Soft, Stored
<1>3. CASE DropFails(r)  BY <1>1, <1>3, EmptiedSoft DEF DropFails
<1>4. QED  BY <1>2, <1>3

\* Only the three writes of a start, and the note of a student's entry, are not soft; a
\* request changes itself only.
LEMMA StepSoft == ASSUME IInv, NEW r \in Requests, Step(r) PROVE Only(r) /\ (Soft \/ Hard(r))
<1>1. At[r] \in Nodes  BY ConstantsOK
<1>2. Only(r)
  <2>1. \E x : req' = [req EXCEPT ![r] = x]
    <3>1. CASE Get(r) \/ Session(r) \/ Drop(r) \/ Again(r) \/ Claim(r) \/ Release(r)
      BY <3>1, Zenon DEF Get, Session, Drop, Again, Claim, Release, Goes
    <3>2. CASE Refresh(r) \/ Tell(r) \/ Enter(r) \/ Reuse(r) \/ Note(r)
      BY <3>2, Zenon DEF Refresh, Tell, Enter, Reuse, Note, Goes, Answers
    <3>3. CASE Create(r) \/ Activate(r) \/ Undo(r) \/ Token(r) \/ Mark(r) \/ Stop(r) \/ Retry(r)
      BY <3>3, Zenon DEF Create, Activate, Undo, Token, Mark, Stop, Retry, Goes, Answers
    <3>4. QED  BY <3>1, <3>2, <3>3 DEF Step
  <2>2. QED  BY <2>1 DEF Only, IInv, ReqTyped
<1>3. Soft \/ Hard(r)
  <2>1. CASE Get(r)  BY <1>1, <2>1, KeptCached DEF Get
  <2>2. CASE Again(r)  BY <1>1, <2>2, KeptCached DEF Again
  <2>3. CASE Session(r) \/ Claim(r) \/ Release(r) \/ Tell(r) \/ Enter(r) \/ Reuse(r)
             \/ Create(r) \/ Token(r) \/ Mark(r) \/ Retry(r)
    BY <2>3, SameSoft DEF Session, Claim, Release, Tell, Enter, Reuse, Create, Token, Mark,
                          Retry, store
  <2>4. CASE Refresh(r)  BY <2>4, RefreshSoft
  <2>5. CASE Drop(r) \/ Stop(r)  BY <2>5, DeleteSoft DEF Drop, Stop
  <2>6. QED  BY <2>1, <2>2, <2>3, <2>4, <2>5 DEF Step, Hard
<1>4. QED  BY <1>2, <1>3

Fails(r) == GetFails(r) \/ SessionFails(r) \/ RefreshFails(r) \/ ClaimFails(r) \/ Crash(r)

LEMMA FailsSoft == ASSUME IInv, NEW r \in Requests, Fails(r) PROVE Only(r) /\ Soft
<1>1. Only(r)
  <2>1. \E x : req' = [req EXCEPT ![r] = x]
    BY Zenon DEF Fails, GetFails, SessionFails, RefreshFails, ClaimFails, Crash, Goes
  <2>2. QED  BY <2>1 DEF Only, IInv, ReqTyped
<1>2. Soft
  <2>1. CASE RefreshFails(r)  BY <2>1, RefreshFailsSoft
  <2>2. CASE GetFails(r) \/ SessionFails(r) \/ ClaimFails(r) \/ Crash(r)
    BY <2>2, SameSoft DEF GetFails, SessionFails, ClaimFails, Crash, store
  <2>3. QED  BY <2>1, <2>2 DEF Fails
<1>3. QED  BY <1>1, <1>2

\* What happens around the requests, and that leaves them alone.
Around == \/ \E n \in Nodes : Fill(n) \/ Age(n)
          \/ \E s \in Sessions : EndSession(s)
          \/ Expire \/ UNCHANGED vars

LEMMA AroundSoft ==
    ASSUME IInv, Around
    PROVE  /\ req' = req /\ created' = created /\ stopped' = stopped /\ Soft
<1>1. CASE \E n \in Nodes : Fill(n) \/ Age(n)
  <2>1. PICK n \in Nodes : Fill(n) \/ Age(n)  BY <1>1
  <2>2. CASE Fill(n)
    BY <2>2 DEF Fill, marks, Soft, SameView, Cached, IInv, StoreTyped
  <2>3. CASE Age(n)  BY <2>3, EmptiedSoft DEF Age, marks
  <2>4. QED  BY <2>1, <2>2, <2>3
<1>2. CASE \E s \in Sessions : EndSession(s)
  BY <1>2, SameSoft DEF EndSession
<1>3. CASE Expire
  BY <1>3 DEF Expire, marks, Soft, SameView, Cached, IInv, StoreTyped
<1>4. CASE UNCHANGED vars
  BY <1>4, SameSoft DEF vars, marks
<1>5. QED  BY <1>1, <1>2, <1>3, <1>4 DEF Around

LEMMA LapseSoft ==
    ASSUME IInv, Lapse
    PROVE  /\ Soft /\ created' = created /\ stopped' = stopped /\ ended' = ended
           /\ \A q \in Requests : \/ req'[q] = req[q]
                                  \/ /\ req'[q] = [req[q] EXCEPT !.lapsed = TRUE] /\ req[q].held
                                     /\ "lapse" \in scene.bad
<1>1. Soft  BY SameSoft DEF Lapse, store
<1>2. QED  BY <1>1 DEF Lapse, marks, IInv, ReqTyped, RestTyped, Working, Mistake

\* The steps there are.
LEMMA Steps ==
    ASSUME [Next]_vars
    PROVE  (\E r \in Requests : Step(r) \/ Fails(r)) \/ Around \/ Lapse
BY Zenon DEF Next, Environment, Fails, Around
-----------------------------------------------------------------------------
(* Sessions are made by one request each, and a failed start removes its own *)

Starts == {"start", "substitute"}
Loads  == {"claim", "get", "session", "drop", "refresh", "again", "loaded", "note", "create"}
Writes == {"note", "create", "activate", "undo"}
Ends   == {"release", "done", "dead"}

Known(e, c) == Active(e) => e.session \in 1..c

\* What a request of kind k carries at its program point, when c sessions were created: it
\* makes its session after it noted its start on an entry that led nowhere, and it is
\* answered last.
Sound(x, k, c) ==
    /\ x.made # None => x.made \in 1..c
    /\ x.session # None => x.session \in 1..c
    /\ Known(x.seen, c) /\ Known(x.prev, c)
    /\ x.pc \in Loads => x.made = None
    /\ x.pc = "activate" => x.made # None
    /\ x.pc \notin Ends => x.reply = "none"
    /\ x.pc = "note" => ~Active(x.seen)
    /\ x.pc \in Writes \ {"note"} => ~Active(x.prev) /\ k \in Starts
    /\ x.pc \in Loads \ {"drop", "note", "create"} => x.prev = NoEntry
    /\ x.pc = "drop" /\ x.prev # NoEntry => x.held
    /\ x.pc \in Writes => x.held
    /\ x.held \/ x.pc = "claim" => k \in Starts \cup {"entry"}
    /\ x.pc = "stop" => k = "stop"
    /\ k \in Starts => /\ x.pc = "token" => x.held
                       /\ x.pc = "release" => x.reply # "none"

Apart == \A r, q \in Requests : r # q /\ req[r].made # None => req[r].made # req[q].made
Counted == Known(entry, created) /\ \A n \in Nodes : cache[n] # None => Known(cache[n], created)
Made(r) == Sound(req[r], scene.kind[r], created)

MInv == (\A r \in Requests : Made(r)) /\ Apart /\ Counted /\ UndoneIsUndone

\* Request r makes at most one session, which is a new one.
Makes(r) == /\ created' \in {created, created + 1}
            /\ req'[r].made \notin {req[r].made, None}
                 => req'[r].made = created + 1 /\ created' = created + 1

LEMMA MoreKnown == ASSUME NEW c \in Nat, NEW d \in {c, c + 1}, NEW e, Known(e, c) PROVE Known(e, d)
BY DEF Known

LEMMA MoreSound ==
    ASSUME NEW c \in Nat, NEW d \in {c, c + 1}, NEW x, NEW k, Sound(x, k, c)
    PROVE  Sound(x, k, d)
<1>1. 1..c \subseteq 1..d  OBVIOUS
<1>2. Known(x.seen, d) /\ Known(x.prev, d)  BY MoreKnown DEF Sound
<1>3. QED  BY <1>1, <1>2 DEF Sound

\* It is enough to look at the request that takes a step and at the entry.
LEMMA MadeStep ==
    ASSUME IInv, MInv, NEW r \in Requests, Only(r), Makes(r), scene' = scene, Made(r)', Counted',
           /\ \/ SameView(entry, entry') \/ entry' = NoEntry
              \/ Leads(entry', req[r].made) /\ req[r].pc = "activate" /\ req[r].made # None
              \/ ~Active(entry'),
           req'[r].reply = "undone" /\ req'[r].made # None
             => \/ ~Active(entry')
                \/ req[r].reply = "undone" /\ req'[r].made = req[r].made /\ req[r].pc # "activate"
    PROVE  MInv'
<1>1. created \in Nat  BY ConstantsOK DEF IInv, RestTyped
<1>2. \A q \in Requests : Made(q)'
  <2> SUFFICES ASSUME NEW q \in Requests, q # r PROVE Made(q)'  OBVIOUS
  <2>1. req'[q] = req[q] /\ Made(q) /\ created' \in {created, created + 1}
    BY DEF Only, MInv, Makes
  <2>2. QED  BY <1>1, <2>1, MoreSound DEF Made
<1>3. \A q \in Requests : req[q].made # None => req[q].made \in 1..created
  BY DEF MInv, Made, Sound
<1>4. created + 1 \notin 1..created  BY <1>1
<1>5. Apart'
  <2> SUFFICES ASSUME NEW p \in Requests, NEW q \in Requests, p # q, req'[p].made # None,
                      req'[p].made = req'[q].made
               PROVE  FALSE
    BY DEF Apart
  <2>1. CASE p # r /\ q # r  BY <2>1 DEF Only, MInv, Apart
  <2>2. CASE p = r
    <3>1. req'[q] = req[q]  BY <2>2 DEF Only
    <3>2. req'[p].made = req[p].made \/ req'[p].made = created + 1  BY <2>2 DEF Makes
    <3>3. QED  BY <1>3, <1>4, <2>2, <3>1, <3>2 DEF MInv, Apart
  <2>3. CASE q = r
    <3>1. req'[p] = req[p]  BY <2>3 DEF Only
    <3>2. req'[q].made = req[q].made \/ req'[q].made = created + 1  BY <2>3 DEF Makes
    <3>3. QED  BY <1>3, <1>4, <2>3, <3>1, <3>2 DEF MInv, Apart
  <2>4. QED  BY <2>1, <2>2, <2>3
<1>6. UndoneIsUndone'
  <2> SUFFICES ASSUME NEW q \in Requests, req'[q].reply = "undone", req'[q].made # None,
                      entry' # NoEntry, entry'.session = req'[q].made
               PROVE  FALSE
    BY DEF UndoneIsUndone
  <2>1. Active(entry')  BY DEF Active
  <2>2. req[q].reply = "undone" /\ req'[q].made = req[q].made /\ (q = r => req[r].pc # "activate")
    BY <2>1 DEF Only
  <2>3. ~SameView(entry, entry')  BY <2>2 DEF SameView, MInv, UndoneIsUndone
  <2>4. Leads(entry', req[r].made) /\ req[r].pc = "activate" /\ req[r].made # None
    BY <2>1, <2>3
  <2>5. QED  BY <2>2, <2>4 DEF Leads, MInv, Apart
<1>7. QED  BY <1>2, <1>5, <1>6 DEF MInv

LEMMA SoftCounted ==
    ASSUME IInv, MInv, Soft, created' \in {created, created + 1}
    PROVE  Counted'
<1>1. created \in Nat  BY ConstantsOK DEF IInv, RestTyped
<1>2. Known(entry', created)
  BY DEF MInv, Counted, Soft, SameView, Known, Active
<1>3. \A n \in Nodes : cache'[n] # None => Known(cache'[n], created)
  BY <1>2 DEF MInv, Counted, Soft, Cached
<1>4. QED  BY <1>1, <1>2, <1>3, MoreKnown DEF Counted

\* A step of request r by which it keeps in line.
Fine(r) ==
    /\ scene' = scene /\ Makes(r) /\ Made(r)'
    /\ req'[r].reply = "undone" /\ req'[r].made # None
         => req[r].reply = "undone" /\ req'[r].made = req[r].made /\ req[r].pc # "activate"

LEMMA FineInv == ASSUME IInv, MInv, NEW r \in Requests, Only(r), Soft, Fine(r) PROVE MInv'
<1>1. Counted'  BY SoftCounted DEF Fine, Makes
<1>2. QED  BY <1>1, MadeStep DEF Fine, Soft

\* It becomes x, and no session is made.
LEMMA FineStep ==
    ASSUME IInv, MInv, NEW r \in Requests, NEW x \in Request, req' = [req EXCEPT ![r] = x],
           UNCHANGED <<scene, created>>, x.made \in {req[r].made, None},
           Sound(x, scene.kind[r], created),
           x.reply = "undone" => req[r].reply = "undone" \/ x.made = None
    PROVE  Fine(r)
<1>1. req'[r] = x  BY DEF IInv, ReqTyped
<1>2. Makes(r) /\ Made(r)'  BY <1>1 DEF Makes, Made
<1>3. req[r].reply = "undone" => req[r].pc # "activate"  BY DEF MInv, Made, Sound, Ends
<1>4. QED  BY <1>1, <1>2, <1>3 DEF Fine

\* What it reads leads to a session that was made, if it leads anywhere.
LEMMA CopyKnown ==
    ASSUME IInv, MInv, NEW n \in Nodes PROVE Known(Copy(n), created) /\ Copy(n) \in Stored
BY CopyTyped DEF IInv, MInv, Counted, Copy

LEMMA LoadFine ==
    ASSUME IInv, MInv, NEW r \in Requests,
           \/ Get(r) \/ GetFails(r) \/ Session(r) \/ SessionFails(r) \/ Drop(r)
           \/ Refresh(r) \/ RefreshFails(r) \/ Again(r)
    PROVE  Fine(r)
<1>1. req[r] \in Request /\ At[r] \in Nodes /\ Made(r)
  BY ConstantsOK DEF IInv, ReqTyped, MInv
<1> DEFINE c == Copy(At[r])
           got(p) == [req[r] EXCEPT !.seen = c, !.pc = p]
           on(p) == [req[r] EXCEPT !.pc = p]
<1>2. c \in Stored /\ Known(c, created)  BY <1>1, CopyKnown
<1>3. \A p \in {"loaded", "session", "refresh"} : req[r].pc \in {"get", "again"} =>
         got(p) \in Request /\ Sound(got(p), scene.kind[r], created) /\ got(p).made = req[r].made
                 /\ got(p).reply = req[r].reply
  BY <1>1, <1>2 DEF Made, Sound, Request, Stored, Loads, Writes, Ends
<1>4. \A p \in {"loaded", "drop", "refresh", "again"} : req[r].pc \in {"get", "session", "refresh"} =>
         on(p) \in Request /\ Sound(on(p), scene.kind[r], created) /\ on(p).made = req[r].made
                 /\ on(p).reply = req[r].reply
  BY <1>1 DEF Made, Sound, Request, Loads, Writes, Ends
<1>5. CASE Get(r)
  <2>1. req' = [req EXCEPT ![r] = got(Loading(c))] /\ UNCHANGED <<scene, created>> /\ req[r].pc = "get"
    BY <1>5 DEF Get, At_, marks
  <2>2. Loading(c) \in {"loaded", "session", "refresh"}  BY DEF Loading
  <2>3. QED  BY <1>3, <2>1, <2>2, FineStep
<1>6. CASE GetFails(r)
  <2> DEFINE x == [req[r] EXCEPT !.seen = NoEntry, !.pc = "loaded"]
  <2>1. req' = [req EXCEPT ![r] = x] /\ UNCHANGED <<scene, created>> /\ req[r].pc = "get"
    BY <1>6 DEF GetFails, At_, marks
  <2>2. x \in Request /\ Sound(x, scene.kind[r], created) /\ x.made = req[r].made /\ x.reply = req[r].reply
    BY <1>1, <2>1 DEF Made, Sound, Request, Known, Active, Loads, Writes, Ends
  <2>3. QED  BY <2>1, <2>2, FineStep
<1>7. CASE Session(r) \/ SessionFails(r)
  <2>1. PICK p \in {"drop", "refresh"} : Goes(r, p)  BY <1>7 DEF Session, SessionFails
  <2>2. req' = [req EXCEPT ![r] = on(p)]  BY <2>1 DEF Goes
  <2>3. UNCHANGED <<scene, created>> /\ req[r].pc = "session"
    BY <1>7 DEF Session, SessionFails, At_, marks
  <2>4. QED  BY <1>4, <2>2, <2>3, FineStep
<1>8. CASE Drop(r)
  <2> DEFINE x == [req[r] EXCEPT !.pc = IF req[r].prev # NoEntry THEN "note" ELSE "loaded",
                                 !.seen = NoEntry, !.prev = NoEntry]
  <2>1. req' = [req EXCEPT ![r] = x] /\ UNCHANGED <<scene, created>> /\ req[r].pc = "drop"
    BY <1>8 DEF Drop, At_, marks
  <2>2. x \in Request /\ Sound(x, scene.kind[r], created) /\ x.made = req[r].made /\ x.reply = req[r].reply
    BY <1>1, <2>1 DEF Made, Sound, Request, Known, Active, Loads, Writes, Ends
  <2>3. QED  BY <2>1, <2>2, FineStep
<1>9. CASE Refresh(r)
  <2>1. UNCHANGED <<scene, created>> /\ req[r].pc = "refresh"  BY <1>9 DEF Refresh, At_, marks
  <2>2. CASE Refreshed(r) # NoEntry
    <3> DEFINE d == [Refreshed(r) EXCEPT !.expires = Later]
               x == [req[r] EXCEPT !.seen = d, !.pc = "loaded"]
    <3>1. req' = [req EXCEPT ![r] = x]  BY <1>9, <2>2 DEF Refresh
    <3>2. d \in Entry /\ Known(d, created)
      BY <2>2, RefreshedEntry DEF SameView, Known, Active, MInv, Counted
    <3>3. x \in Request /\ Sound(x, scene.kind[r], created) /\ x.made = req[r].made /\ x.reply = req[r].reply
      BY <1>1, <2>1, <3>2 DEF Made, Sound, Request, Loads, Writes, Ends
    <3>4. QED  BY <2>1, <3>1, <3>3, FineStep
  <2>3. CASE Refreshed(r) = NoEntry
    <3>1. req' = [req EXCEPT ![r] = on("again")]  BY <1>9, <2>3 DEF Refresh, Goes
    <3>2. QED  BY <1>4, <2>1, <3>1, FineStep
  <2>4. QED  BY <2>2, <2>3
<1>10. CASE RefreshFails(r)
  <2>1. req' = [req EXCEPT ![r] = on("again")] /\ UNCHANGED <<scene, created>> /\ req[r].pc = "refresh"
    BY <1>10 DEF RefreshFails, Goes, At_, marks
  <2>2. QED  BY <1>4, <2>1, FineStep
<1>11. CASE Again(r)
  <2>1. req' = [req EXCEPT ![r] = got("loaded")] /\ UNCHANGED <<scene, created>> /\ req[r].pc = "again"
    BY <1>11 DEF Again, At_, marks
  <2>2. QED  BY <1>3, <2>1, FineStep
<1>12. QED  BY <1>5, <1>6, <1>7, <1>8, <1>9, <1>10, <1>11

LEMMA LockFine ==
    ASSUME IInv, MInv, NEW r \in Requests,
           Claim(r) \/ ClaimFails(r) \/ Release(r) \/ Crash(r) \/ Retry(r)
    PROVE  Fine(r)
<1>1. req[r] \in Request /\ Made(r)  BY DEF IInv, ReqTyped, MInv
<1>2. UNCHANGED <<scene, created>>
  BY DEF Claim, ClaimFails, Release, Crash, Retry, marks
<1>3. ASSUME NEW x, req[r].pc = "claim",
             \/ x = [req[r] EXCEPT !.held = TRUE, !.pc = "get"]
             \/ x = [req[r] EXCEPT !.pc = "get"]
             \/ x = [req[r] EXCEPT !.reply = "busy", !.pc = "done"]
             \/ x = [req[r] EXCEPT !.reply = "failed", !.pc = "done"]
      PROVE  /\ x \in Request /\ Sound(x, scene.kind[r], created)
             /\ x.made = req[r].made /\ x.reply # "undone"
  <2>1. /\ x \in Request /\ x.made = req[r].made /\ x.session = req[r].session
        /\ x.seen = req[r].seen /\ x.prev = req[r].prev
        /\ \/ x.pc = "get" /\ x.reply = req[r].reply
           \/ x.pc = "done" /\ x.reply # "undone"
    <3>1. CASE x = [req[r] EXCEPT !.held = TRUE, !.pc = "get"]  BY <1>1, <3>1 DEF Request
    <3>2. CASE x = [req[r] EXCEPT !.pc = "get"]  BY <1>1, <3>2 DEF Request
    <3>3. CASE x = [req[r] EXCEPT !.reply = "busy", !.pc = "done"]
      BY <1>1, <3>3 DEF Request, Replies
    <3>4. CASE x = [req[r] EXCEPT !.reply = "failed", !.pc = "done"]
      BY <1>1, <3>4 DEF Request, Replies
    <3>5. QED  BY <1>3, <3>1, <3>2, <3>3, <3>4
  <2>2. scene.kind[r] \in Starts \cup {"entry"}  BY <1>1, <1>3 DEF Made, Sound
  <2>3. req[r].reply = "none" /\ req[r].prev = NoEntry
    BY <1>1, <1>3 DEF Made, Sound, Ends, Loads
  <2>4. Sound(x, scene.kind[r], created)
    BY <1>1, <1>3, <2>1, <2>2, <2>3 DEF Made, Sound, Loads, Writes, Ends
  <2>5. QED  BY <2>1, <2>3, <2>4
<1>4. CASE Claim(r)
  <2>1. PICK x : /\ req' = [req EXCEPT ![r] = x]
                 /\ \/ x = [req[r] EXCEPT !.held = TRUE, !.pc = "get"]
                    \/ x = [req[r] EXCEPT !.pc = "get"]
                    \/ x = [req[r] EXCEPT !.reply = "busy", !.pc = "done"]
    BY <1>4, Zenon DEF Claim
  <2>2. req[r].pc = "claim"  BY <1>4 DEF Claim, At_
  <2>3. QED  BY <1>2, <1>3, <2>1, <2>2, FineStep
<1>5. CASE ClaimFails(r)
  <2>1. req' = [req EXCEPT ![r] = [req[r] EXCEPT !.reply = "failed", !.pc = "done"]]
    BY <1>5 DEF ClaimFails
  <2>2. req[r].pc = "claim"  BY <1>5 DEF ClaimFails, At_
  <2>3. QED  BY <1>2, <1>3, <2>1, <2>2, FineStep
<1>6. CASE Release(r)
  <2> DEFINE x == [req[r] EXCEPT !.held = FALSE, !.pc = Finished(r)]
  <2>1. req' = [req EXCEPT ![r] = x] /\ req[r].pc = "release"  BY <1>6 DEF Release, At_
  <2>2. x \in Request /\ Sound(x, scene.kind[r], created) /\ x.made = req[r].made /\ x.reply = req[r].reply
    BY <1>1, <2>1 DEF Finished, Made, Sound, Request, Loads, Writes, Ends
  <2>3. QED  BY <1>2, <2>1, <2>2, FineStep
<1>7. CASE Crash(r)
  <2> DEFINE x == [req[r] EXCEPT !.pc = "dead"]
  <2>1. req' = [req EXCEPT ![r] = x]  BY <1>7 DEF Crash, Goes
  <2>2. x \in Request /\ Sound(x, scene.kind[r], created) /\ x.made = req[r].made /\ x.reply = req[r].reply
    BY <1>1 DEF Made, Sound, Request, Loads, Writes, Ends
  <2>3. QED  BY <1>2, <2>1, <2>2, FineStep
<1>8. CASE Retry(r)
  <2> DEFINE x == NewRequest("start")
  <2>1. req' = [req EXCEPT ![r] = x]  BY <1>8 DEF Retry
  <2>2. x \in Request /\ Sound(x, scene.kind[r], created) /\ x.made = None /\ x.reply # "undone"
    <3>1. x \in Request  BY NewRequestTyped DEF Kinds
    <3>2. /\ x.pc = "claim" /\ x.seen = NoEntry /\ x.prev = NoEntry /\ x.made = None
          /\ ~x.held /\ x.reply = "none" /\ x.session = None
      BY DEF NewRequest
    <3>3. scene.kind[r] = "start"  BY <1>8 DEF Retry
    <3>4. QED  BY <3>1, <3>2, <3>3 DEF Sound, Known, Active, Loads, Writes, Ends, Starts
  <2>3. QED  BY <1>2, <2>1, <2>2, FineStep
<1>9. QED  BY <1>4, <1>5, <1>6, <1>7, <1>8

LEMMA WorkFine ==
    ASSUME IInv, MInv, NEW r \in Requests,
           Tell(r) \/ Enter(r) \/ Reuse(r) \/ Token(r) \/ Mark(r) \/ Stop(r)
    PROVE  Fine(r)
<1>1. req[r] \in Request /\ Made(r)  BY DEF IInv, ReqTyped, MInv
<1>2. UNCHANGED <<scene, created>>
  BY DEF Tell, Enter, Reuse, Token, Mark, Stop, marks
<1> DEFINE told(s, d, p) == [req[r] EXCEPT !.reply = s, !.session = d, !.pc = p,
                                           !.seen = NoEntry, !.prev = NoEntry]
<1>3. ASSUME NEW s \in Replies, NEW d \in Sessions \cup {None}, d # None => d \in 1..created,
             NEW p \in {"done", "release"}, s # "none", s # "undone", req[r].pc # "activate",
             Answers(r, s, d, p)
      PROVE  Fine(r)
  <2>1. req' = [req EXCEPT ![r] = told(s, d, p)]  BY <1>3 DEF Answers
  <2>2. told(s, d, p) \in Request /\ told(s, d, p).made = req[r].made
    BY <1>1, <1>3 DEF Request
  <2>3. Sound(told(s, d, p), scene.kind[r], created)
    BY <1>1, <1>3, <2>2 DEF Made, Sound, Request, Known, Active, Loads, Writes, Ends
  <2>4. told(s, d, p).reply # "undone"  BY <1>1, <1>3 DEF Request
  <2>5. QED  BY <1>2, <2>1, <2>2, <2>3, <2>4, FineStep
<1>4. req[r].seen \in Stored /\ Known(req[r].seen, created)
  BY <1>1 DEF Request, Stored, Made, Sound
<1>5. CASE Tell(r)
  <2> DEFINE v == View(req[r].seen)
  <2>1. req[r].pc = "loaded"  BY <1>5 DEF Tell, At_
  <2>2. v[1] \in {"active", "waiting", "inactive"} /\ v[2] \in Sessions \cup {None}
        /\ (v[2] # None => v[2] \in 1..created)
    BY <1>4 DEF View, Known, Active, Stored, Entry
  <2>3. \/ Answers(r, v[1], v[2], "done")
        \/ \E s \in {"inactive", "starting", "busy"} : Answers(r, s, None, "done")
    BY <1>5 DEF Tell
  <2>4. QED  BY <1>3, <2>1, <2>2, <2>3 DEF Replies
<1>6. CASE Enter(r)
  <2> DEFINE p == IF req[r].seen = NoEntry THEN IF req[r].held THEN "note" ELSE "claim"
                  ELSE IF req[r].held THEN "release" ELSE "token"
             x == [req[r] EXCEPT !.seen = NoEntry, !.pc = p]
  <2>1. req' = [req EXCEPT ![r] = x] /\ req[r].pc = "loaded" /\ scene.kind[r] = "entry"
    BY <1>6 DEF Enter, At_
  <2>2. x \in Request /\ x.made = req[r].made /\ x.reply = req[r].reply  BY <1>1 DEF Request
  <2>3. Sound(x, scene.kind[r], created)
    BY <1>1, <2>1, <2>2 DEF Made, Sound, Request, Known, Active, Loads, Writes, Ends, Starts
  <2>4. QED  BY <1>2, <2>1, <2>2, <2>3, FineStep
<1>7. CASE Reuse(r)
  <2> DEFINE e == req[r].seen
  <2>1. req[r].pc = "loaded" /\ req[r].held  BY <1>7 DEF Reuse, At_
  <2>2. CASE View(e)[1] # "active" /\ Goes(r, "note")
    <3> DEFINE x == [req[r] EXCEPT !.pc = "note"]
    <3>1. req' = [req EXCEPT ![r] = x]  BY <2>2 DEF Goes
    <3>2. ~Active(e)  BY <1>4, <2>2 DEF View, Active
    <3>3. x \in Request /\ Sound(x, scene.kind[r], created) /\ x.made = req[r].made /\ x.reply = req[r].reply
      BY <1>1, <2>1, <3>2 DEF Made, Sound, Request, Loads, Writes, Ends
    <3>4. QED  BY <1>2, <3>1, <3>3, FineStep
  <2>3. CASE View(e)[1] = "active"
    <3>1. Active(e) /\ e.session \in Sessions /\ e.session \in 1..created
      BY <1>4, <2>3 DEF View, Active, Known, Stored, Entry
    <3>2. CASE Answers(r, "deck", None, "release")
      BY <1>3, <2>1, <3>2 DEF Replies
    <3>3. CASE Answers(r, "none", e.session, "token")
      <4>1. req' = [req EXCEPT ![r] = told("none", e.session, "token")]  BY <3>3 DEF Answers
      <4>2. told("none", e.session, "token") \in Request
            /\ told("none", e.session, "token").made = req[r].made
            /\ told("none", e.session, "token").reply # "undone"
        BY <1>1, <3>1 DEF Request, Replies
      <4>3. Sound(told("none", e.session, "token"), scene.kind[r], created)
        BY <1>1, <2>1, <3>1, <4>2 DEF Made, Sound, Request, Known, Active, Loads, Writes, Ends
      <4>4. QED  BY <1>2, <4>1, <4>2, <4>3, FineStep
    <3>4. CASE req' = [req EXCEPT ![r].pc = "drop", ![r].prev = e]
      <4> DEFINE x == [req[r] EXCEPT !.pc = "drop", !.prev = e]
      <4>1. req' = [req EXCEPT ![r] = x]  BY <3>4
      <4>2. x \in Request /\ Sound(x, scene.kind[r], created) /\ x.made = req[r].made /\ x.reply = req[r].reply
        BY <1>1, <1>4, <2>1 DEF Made, Sound, Request, Loads, Writes, Ends
      <4>3. QED  BY <1>2, <4>1, <4>2, FineStep
    <3>5. QED  BY <1>7, <2>3, <3>2, <3>3, <3>4 DEF Reuse
  <2>4. QED  BY <1>7, <2>2, <2>3 DEF Reuse
<1>8. CASE Token(r)
  <2>1. req[r].pc = "token"  BY <1>8 DEF Token, At_
  <2>2. req[r].session \in Sessions \cup {None} /\ (req[r].session # None => req[r].session \in 1..created)
    BY <1>1 DEF Request, Made, Sound
  <2>3. \E p \in {"done", "release"} : \/ \E s \in {"active", "waiting"} : Answers(r, s, req[r].session, p)
                                       \/ Answers(r, "failed", None, p)
    BY <1>8 DEF Token
  <2>4. QED  BY <1>3, <2>1, <2>2, <2>3 DEF Replies
<1>9. CASE Mark(r)
  <2> DEFINE x == [req[r] EXCEPT !.seen = NoEntry, !.pc = "stop"]
  <2>1. req' = [req EXCEPT ![r] = x] /\ req[r].pc = "loaded" /\ scene.kind[r] = "stop"
    BY <1>9 DEF Mark, At_
  <2>2. x \in Request /\ Sound(x, scene.kind[r], created) /\ x.made = req[r].made /\ x.reply = req[r].reply
    BY <1>1, <2>1 DEF Made, Sound, Request, Known, Active, Loads, Writes, Ends
  <2>3. QED  BY <1>2, <2>1, <2>2, FineStep
<1>10. CASE Stop(r)
  BY <1>3, <1>10 DEF Stop, At_, Replies
<1>11. QED  BY <1>5, <1>6, <1>7, <1>8, <1>9, <1>10

\* A write, executed or failed, of an entry e whose session is known.
Puts(r, e) == Put(r, e) \/ PutFails(r, e)

LEMMA PutsCounted ==
    ASSUME IInv, MInv, NEW r \in Requests, NEW e \in Stored, Puts(r, e), Known(e, created),
           created' = created
    PROVE  Counted' /\ entry' \in {entry, e}
<1>1. At[r] \in Nodes  BY ConstantsOK
<1>2. CASE Put(r, e)
  <2>1. entry' = e /\ \A n \in Nodes : Cached(n)  BY <1>2, PutCached
  <2>2. QED  BY <2>1 DEF Counted, MInv, Cached
<1>3. CASE PutFails(r, e)
  <2>1. entry' \in {entry, e} /\ \A n \in Nodes : cache'[n] \in {cache[n], e}
    BY <1>1, <1>3 DEF PutFails, IInv, StoreTyped
  <2>2. QED  BY <2>1 DEF Counted, MInv
<1>4. QED  BY <1>2, <1>3 DEF Puts

\* What a start notes on the entry leads nowhere, if what it read led nowhere.
Noted(r) == LET i == IF IsStart(r) THEN scene.id[r] ELSE None IN
            IF req[r].seen = NoEntry THEN Waiting(i, Later) ELSE [req[r].seen EXCEPT !.req = i]

LEMMA NotedIdle ==
    ASSUME IInv, MInv, NEW r \in Requests, req[r].pc = "note"
    PROVE  Noted(r) \in Entry /\ ~Active(Noted(r))
<1>1. scene \in Scene  BY ConstantsOK DEF IInv, RestTyped
<1>2. req[r].seen \in Stored /\ ~Active(req[r].seen)
  BY DEF IInv, ReqTyped, Request, Stored, MInv, Made, Sound
<1>3. QED  BY <1>1, <1>2, LaterIsExpiry, ConstantsOK DEF Noted, Waiting, Entry, Stored, Active, Scene

LEMMA NoteShape ==
    ASSUME IInv, MInv, NEW r \in Requests, Note(r)
    PROVE  /\ Puts(r, Noted(r)) /\ UNCHANGED <<scene, created>> /\ req[r].pc = "note"
           /\ \/ /\ ~IsStart(r)
                 /\ \/ req' = [req EXCEPT ![r] = [req[r] EXCEPT !.prev = NoEntry, !.seen = NoEntry,
                                                                !.pc = "release"]]
                    \/ Answers(r, "failed", None, "release")
              \/ /\ IsStart(r)
                 /\ \E p \in {"create", "undo"} :
                       /\ p = "undo" => "write" \in scene.bad
                       /\ req' = [req EXCEPT ![r] = [req[r] EXCEPT !.prev = req[r].seen,
                                                            !.seen = NoEntry, !.pc = p]]
BY DEF Note, Noted, Puts, At_, marks, PutFails, Mistake

LEMMA NoteMade == ASSUME IInv, MInv, NEW r \in Requests, Note(r) PROVE MInv'
<1>1. req[r] \in Request /\ Made(r) /\ req[r].pc = "note" /\ UNCHANGED <<scene, created>>
  BY NoteShape DEF IInv, ReqTyped, MInv
<1>2. Noted(r) \in Stored /\ ~Active(Noted(r))  BY <1>1, NotedIdle DEF Stored
<1>3. Counted' /\ entry' \in {entry, Noted(r)}
  BY <1>1, <1>2, NoteShape, PutsCounted DEF Known
<1>4. Fine(r)
  <2>1. CASE IsStart(r)
    <3>1. PICK p \in {"create", "undo"} :
            req' = [req EXCEPT ![r] = [req[r] EXCEPT !.prev = req[r].seen, !.seen = NoEntry, !.pc = p]]
      BY <2>1, NoteShape
    <3> DEFINE x == [req[r] EXCEPT !.prev = req[r].seen, !.seen = NoEntry, !.pc = p]
    <3>2. x \in Request /\ x.made = req[r].made /\ x.reply = req[r].reply  BY <1>1 DEF Request
    <3>3. Sound(x, scene.kind[r], created)
      BY <1>1, <2>1, <3>2 DEF IsStart, Made, Sound, Request, Known, Active, Loads, Writes, Ends, Starts
    <3>4. QED  BY <1>1, <3>1, <3>2, <3>3, FineStep
  <2>2. CASE ~IsStart(r)
    <3>1. PICK x \in Request : /\ req' = [req EXCEPT ![r] = x] /\ x.pc = "release"
                               /\ x.made = req[r].made /\ x.reply # "undone" /\ x.session \in {None, req[r].session}
                               /\ x.seen = NoEntry /\ x.prev = NoEntry
      <4> DEFINE y == [req[r] EXCEPT !.prev = NoEntry, !.seen = NoEntry, !.pc = "release"]
                 z == [req[r] EXCEPT !.reply = "failed", !.session = None, !.pc = "release",
                                     !.seen = NoEntry, !.prev = NoEntry]
      <4>1. req' = [req EXCEPT ![r] = y] \/ req' = [req EXCEPT ![r] = z]
        BY <2>2, NoteShape DEF Answers
      <4>2. \A x \in {y, z} :
              /\ x \in Request /\ x.pc = "release" /\ x.made = req[r].made /\ x.reply # "undone"
              /\ x.session \in {None, req[r].session} /\ x.seen = NoEntry /\ x.prev = NoEntry
        BY <1>1 DEF Request, Replies, Made, Sound, Ends
      <4>3. QED  BY <4>1, <4>2
    <3>2. Sound(x, scene.kind[r], created)
      BY <1>1, <2>2, <3>1 DEF IsStart, Made, Sound, Known, Active, Loads, Writes, Ends, Starts
    <3>3. QED  BY <1>1, <3>1, <3>2, FineStep
  <2>3. QED  BY <2>1, <2>2
<1>5. Only(r)  BY StepSoft DEF Step
<1>6. SameView(entry, entry') \/ ~Active(entry')  BY <1>2, <1>3 DEF SameView
<1>7. QED  BY <1>3, <1>4, <1>5, <1>6, MadeStep DEF Fine

LEMMA CreateMade == ASSUME IInv, MInv, NEW r \in Requests, Create(r) PROVE MInv'
<1>1. req[r] \in Request /\ Made(r) /\ req[r].pc = "create"  BY DEF IInv, ReqTyped, MInv, Create, At_
<1>2. created \in Nat /\ created + 1 \in Sessions /\ created' \in {created, created + 1}
  BY ConstantsOK DEF IInv, RestTyped, Create, Sessions
<1>3. \A d \in {created, created + 1} : Sound(req[r], scene.kind[r], d)
  BY <1>1, <1>2, MoreSound DEF Made
<1>4. Fine(r)
  <2>1. CASE Goes(r, "undo")
    <3>1. req'[r] = [req[r] EXCEPT !.pc = "undo"]  BY <2>1 DEF Goes, IInv, ReqTyped
    <3>2. Sound(req'[r], scene.kind[r], created')
      BY <1>1, <1>2, <1>3, <3>1 DEF Sound, Request, Loads, Writes, Ends
    <3>3. req'[r].made = req[r].made /\ req'[r].reply = "none"
      BY <1>1, <3>1 DEF Request, Made, Sound, Ends
    <3>4. QED  BY <1>2, <3>2, <3>3 DEF Fine, Makes, Made, Create
  <2>2. CASE created' = created + 1 /\ req' = [req EXCEPT ![r].made = created + 1, ![r].pc = "activate"]
    <3>1. req'[r] = [req[r] EXCEPT !.made = created + 1, !.pc = "activate"]
      BY <2>2 DEF IInv, ReqTyped
    <3>2. req'[r].made = created + 1 /\ req'[r].pc = "activate" /\ req'[r].reply = req[r].reply
          /\ req'[r].seen = req[r].seen /\ req'[r].prev = req[r].prev /\ req'[r].held = req[r].held
          /\ req'[r].session = req[r].session
      BY <1>1, <3>1 DEF Request
    <3>3. Sound(req'[r], scene.kind[r], created')
      <4>1. Sound(req[r], scene.kind[r], created + 1)  BY <1>3
      <4>2. created + 1 \in 1..(created + 1)  BY <1>2
      <4>3. created + 1 # None  BY <1>2, ConstantsOK
      <4>4. QED  BY <1>1, <2>2, <3>2, <4>1, <4>2, <4>3 DEF Sound, Loads, Writes, Ends
    <3>4. req[r].reply = "none"  BY <1>1 DEF Made, Sound, Ends
    <3>5. QED  BY <1>2, <2>2, <3>2, <3>3, <3>4 DEF Fine, Makes, Made, Create
  <2>3. QED  BY <2>1, <2>2 DEF Create
<1>5. Only(r) /\ Soft
  BY StepSoft, SameSoft DEF Step, Create, store
<1>6. QED  BY <1>4, <1>5, FineInv

LEMMA ActivateMade == ASSUME IInv, MInv, NEW r \in Requests, Activate(r) PROVE MInv'
<1>1. req[r] \in Request /\ Made(r) /\ req[r].pc = "activate" /\ UNCHANGED <<scene, created>>
  BY DEF IInv, ReqTyped, MInv, Activate, At_, marks
<1>2. scene.id[r] \in Ids /\ scene.deck[r] \in Decks  BY ConstantsOK DEF IInv, RestTyped, Scene
<1>3. req[r].made # None /\ req[r].made \in 1..created /\ req[r].made \in Sessions
  BY <1>1 DEF Made, Sound, Request
<1> DEFINE e == [req |-> scene.id[r], session |-> req[r].made, deck |-> scene.deck[r], expires |-> Later]
<1>4. e \in Stored /\ Known(e, created) /\ Leads(e, req[r].made)
  BY <1>2, <1>3, LaterIsExpiry, ConstantsOK DEF Stored, Entry, Known, Active, Leads
<1>5. Puts(r, e)  BY DEF Activate, Puts
<1>6. Counted' /\ entry' \in {entry, e}  BY <1>1, <1>4, <1>5, PutsCounted
<1>7. Fine(r)
  <2>1. CASE req' = [req EXCEPT ![r].session = req[r].made, ![r].pc = "token"]
    <3> DEFINE x == [req[r] EXCEPT !.session = req[r].made, !.pc = "token"]
    <3>1. req' = [req EXCEPT ![r] = x]  BY <2>1
    <3>2. x \in Request /\ Sound(x, scene.kind[r], created) /\ x.made = req[r].made /\ x.reply = req[r].reply
      BY <1>1, <1>3 DEF Request, Made, Sound, Loads, Writes, Ends
    <3>3. QED  BY <1>1, <3>1, <3>2, FineStep
  <2>2. CASE Goes(r, "undo")
    <3> DEFINE x == [req[r] EXCEPT !.pc = "undo"]
    <3>1. req' = [req EXCEPT ![r] = x]  BY <2>2 DEF Goes
    <3>2. x \in Request /\ Sound(x, scene.kind[r], created) /\ x.made = req[r].made /\ x.reply = req[r].reply
      BY <1>1, <1>3 DEF Request, Made, Sound, Loads, Writes, Ends
    <3>3. QED  BY <1>1, <3>1, <3>2, FineStep
  <2>3. QED  BY <2>1, <2>2 DEF Activate
<1>8. Only(r)  BY StepSoft DEF Step
<1>9. SameView(entry, entry') \/ Leads(entry', req[r].made)  BY <1>4, <1>6 DEF SameView
<1>10. QED  BY <1>1, <1>3, <1>6, <1>7, <1>8, <1>9, MadeStep DEF Fine

\* A start that is undone puts back what it found, which led nowhere.
LEMMA UndoShape ==
    ASSUME IInv, MInv, NEW r \in Requests, Undo(r)
    PROVE  /\ req[r].pc = "undo" /\ UNCHANGED <<scene, created>>
           /\ req[r].prev \in Stored /\ ~Active(req[r].prev)
           /\ \/ Put(r, req[r].prev) /\ Answers(r, "undone", None, "release")
              \/ /\ Puts(r, req[r].prev) \/ DropFails(r)
                 /\ Answers(r, "failed", None, "release")
<1>1. req[r].pc = "undo" /\ UNCHANGED <<scene, created>>  BY DEF Undo, At_, marks
<1>2. req[r].prev \in Stored /\ ~Active(req[r].prev)
  BY <1>1 DEF IInv, ReqTyped, Request, Stored, MInv, Made, Sound, Writes
<1>3. QED  BY <1>1, <1>2 DEF Undo, Restored, Puts

LEMMA UndoMade == ASSUME IInv, MInv, NEW r \in Requests, Undo(r) PROVE MInv'
<1>1. req[r] \in Request /\ Made(r) /\ req[r].pc = "undo" /\ UNCHANGED <<scene, created>>
  BY UndoShape DEF IInv, ReqTyped, MInv
<1>2. req[r].prev \in Stored /\ ~Active(req[r].prev) /\ Known(req[r].prev, created)
  BY UndoShape DEF Known
<1> DEFINE x(s) == [req[r] EXCEPT !.reply = s, !.session = None, !.pc = "release",
                                  !.seen = NoEntry, !.prev = NoEntry]
<1>3. \A s \in {"undone", "failed"} :
         /\ x(s) \in Request /\ x(s).made = req[r].made /\ x(s).reply = s
         /\ Sound(x(s), scene.kind[r], created)
  <2> TAKE s \in {"undone", "failed"}
  <2>1. /\ x(s) \in Request /\ x(s).made = req[r].made /\ x(s).reply = s /\ x(s).held = req[r].held
        /\ x(s).session = None /\ x(s).pc = "release" /\ x(s).seen = NoEntry /\ x(s).prev = NoEntry
    BY <1>1 DEF Request, Replies
  <2>2. QED  BY <1>1, <2>1 DEF Made, Sound, Known, Active, Loads, Writes, Ends
<1>4. Only(r)  BY StepSoft DEF Step
<1>5. created \in Nat  BY ConstantsOK DEF IInv, RestTyped
<1>6. CASE Put(r, req[r].prev) /\ Answers(r, "undone", None, "release")
  <2>1. req'[r] = x("undone")  BY <1>6 DEF Answers, IInv, ReqTyped
  <2>2. Counted'  BY <1>1, <1>2, <1>6, PutsCounted DEF Puts
  <2>3. entry' = req[r].prev  BY <1>6 DEF Put
  <2>4. Makes(r)  BY <1>1, <1>3, <2>1, <1>5 DEF Makes
  <2>5. Made(r)'  BY <1>1, <1>3, <2>1 DEF Made
  <2>6. QED  BY <1>1, <1>2, <1>4, <2>2, <2>3, <2>4, <2>5, MadeStep
<1>7. CASE (Puts(r, req[r].prev) \/ DropFails(r)) /\ Answers(r, "failed", None, "release")
  <2>1. req' = [req EXCEPT ![r] = x("failed")]  BY <1>7 DEF Answers
  <2>2. Fine(r)  BY <1>1, <1>3, <2>1, FineStep
  <2>3. CASE Puts(r, req[r].prev)
    <3>1. Counted' /\ entry' \in {entry, req[r].prev}  BY <1>1, <1>2, <2>3, PutsCounted
    <3>2. SameView(entry, entry') \/ ~Active(entry')  BY <1>2, <3>1 DEF SameView
    <3>3. QED  BY <1>4, <2>2, <3>1, <3>2, MadeStep DEF Fine
  <2>4. CASE DropFails(r)  BY <1>4, <2>2, <2>4, DeleteSoft, FineInv
  <2>5. QED  BY <1>7, <2>3, <2>4
<1>8. QED  BY <1>6, <1>7, UndoShape

LEMMA AroundMade ==
    ASSUME IInv, MInv, Soft, created' = created, scene' = scene,
           \A q \in Requests : \/ req'[q] = req[q]
                               \/ req'[q] = [req[q] EXCEPT !.lapsed = TRUE]
    PROVE  MInv'
<1>1. created \in Nat  BY ConstantsOK DEF IInv, RestTyped
<1>2. Counted'  BY <1>1, SoftCounted
<1>3. \A q \in Requests : /\ req'[q].made = req[q].made /\ req'[q].reply = req[q].reply
                          /\ req'[q].seen = req[q].seen /\ req'[q].prev = req[q].prev
                          /\ req'[q].pc = req[q].pc /\ req'[q].held = req[q].held
                          /\ req'[q].session = req[q].session
  <2> TAKE q \in Requests
  <2>1. req[q] \in Request  BY DEF IInv, ReqTyped
  <2>2. CASE req'[q] = [req[q] EXCEPT !.lapsed = TRUE]  BY <2>1, <2>2 DEF Request
  <2>3. CASE req'[q] = req[q]  BY <2>3
  <2>4. QED  BY <2>2, <2>3
<1>4. (\A q \in Requests : Made(q)')  BY <1>3 DEF MInv, Made, Sound
<1>5. Apart'  BY <1>3 DEF MInv, Apart
<1>6. UndoneIsUndone'  BY <1>3 DEF MInv, UndoneIsUndone, Soft, SameView
<1>7. QED  BY <1>2, <1>4, <1>5, <1>6 DEF MInv

LEMMA NextMade == ASSUME IInv, MInv, [Next]_vars PROVE MInv'
<1>1. ASSUME NEW r \in Requests, Step(r) \/ Fails(r) PROVE MInv'
  <2>1. CASE Note(r)  BY <2>1, NoteMade
  <2>2. CASE Create(r)  BY <2>2, CreateMade
  <2>3. CASE Activate(r)  BY <2>3, ActivateMade
  <2>4. CASE Undo(r)  BY <2>4, UndoMade
  <2>5. CASE Step(r) /\ ~Note(r) /\ ~Create(r) /\ ~Activate(r) /\ ~Undo(r)
    <3>1. Fine(r)  BY <2>5, LoadFine, LockFine, WorkFine DEF Step
    <3>2. QED  BY <2>5, <3>1, StepSoft, FineInv DEF Hard
  <2>6. CASE Fails(r)
    <3>1. Fine(r)  BY <2>6, LoadFine, LockFine DEF Fails
    <3>2. QED  BY <2>6, <3>1, FailsSoft, FineInv
  <2>7. QED  BY <1>1, <2>1, <2>2, <2>3, <2>4, <2>5, <2>6
<1>2. CASE Around
  <2>1. scene' = scene  BY <1>2 DEF Around, Fill, Age, EndSession, Expire, vars
  <2>2. QED  BY <1>2, <2>1, AroundSoft, AroundMade
<1>3. CASE Lapse
  <2>1. scene' = scene  BY <1>3 DEF Lapse
  <2>2. QED  BY <1>3, <2>1, LapseSoft, AroundMade
<1>4. QED  BY <1>1, <1>2, <1>3, Steps

LEMMA InitMade == ASSUME Init PROVE MInv
<1>1. req = [r \in Requests |-> NewRequest(scene.kind[r])]  BY DEF Init
<1>2. \A r \in Requests : Made(r)
  BY <1>1 DEF Made, Sound, NewRequest, Known, Active, Loads, Writes, Ends, Starts
<1>3. Apart /\ UndoneIsUndone  BY <1>1 DEF Apart, UndoneIsUndone, NewRequest
<1>4. Known(entry, created)
  <2>1. CASE scene.entry = NoEntry  BY <2>1 DEF Init, Known, Active
  <2>2. CASE scene.entry # NoEntry /\ scene.entry = "waiting"
    BY <2>2 DEF Init, Known, Active, Waiting
  <2>3. CASE scene.entry # NoEntry /\ scene.entry # "waiting"
    <3>1. scene.entry = "active"  BY <2>3, ConstantsOK DEF Init, Scene
    <3>2. entry.session = 1 /\ created = 1  BY <2>3, <3>1 DEF Init
    <3>3. QED  BY <3>2 DEF Known
  <2>4. QED  BY <2>1, <2>2, <2>3
<1>5. \A n \in Nodes : cache[n] # None => cache[n] = entry  BY DEF Init
<1>6. QED  BY <1>2, <1>3, <1>4, <1>5 DEF MInv, Counted

LEMMA MInvHolds == Spec => [](IInv /\ MInv)
<1>1. Init => IInv /\ MInv  BY InitInv, InitMade
<1>2. IInv /\ MInv /\ [Next]_vars => IInv' /\ MInv'  BY NextInv, NextMade
<1>3. QED  BY <1>1, <1>2, PTL DEF Spec

\* A start that was answered with a failure and could clean up leaves nothing that leads to
\* its session (learnIntegration.ts 768-786), whatever failed on the way, whoever else
\* starts the class, and even if it had lost its lease when it cleaned up.
THEOREM FailedStartsLeaveNothing == Spec => []UndoneIsUndone
<1>1. MInv => UndoneIsUndone  BY DEF MInv
<1>2. QED  BY <1>1, MInvHolds, PTL
-----------------------------------------------------------------------------
(* What a status answers                                                   *)

Seer(r) == scene.kind[r] = "status" /\ Sighted(r)

\* What status r has read is what the entry was at some time since it asked; the copy it may
\* be about to read again, too.
Current(r) ==
    /\ ~req[r].held /\ req[r].prev = NoEntry
    /\ req[r].pc \in {"get", "session", "drop", "refresh", "again", "loaded", "done", "dead"}
    /\ req[r].pc # "done" => View(entry) \in passed[r]
    /\ req[r].pc = "loaded" => View(req[r].seen) \in passed[r]
    /\ req[r].pc = "again" /\ cache[At[r]] # None => View(cache[At[r]]) \in passed[r]
    /\ req[r].pc = "drop" => "write" \notin scene.bad
    /\ req[r].reply # "none" => req[r].pc = "done" /\ <<req[r].reply, req[r].session>> \in passed[r]

SInv == \A r \in Requests : Seer(r) => Current(r)

\* The scene stays, sessions stay ended, and the histories go on.
LEMMA NextWatch ==
    ASSUME IInv, [Next]_vars
    PROVE  scene' = scene /\ ended \subseteq ended' /\ (Watch \/ UNCHANGED <<vars, passed>>)
<1>1. CASE \E r \in Requests : Step(r)
  <2>1. PICK r \in Requests : Step(r)  BY <1>1
  <2>2. CASE Get(r) \/ Session(r) \/ Drop(r) \/ Refresh(r) \/ Again(r) \/ Claim(r) \/ Release(r)
    BY <2>2 DEF Get, Session, Drop, Refresh, Again, Claim, Release, marks
  <2>3. CASE Tell(r) \/ Enter(r) \/ Reuse(r) \/ Note(r) \/ Create(r) \/ Activate(r)
    BY <2>3 DEF Tell, Enter, Reuse, Note, Create, Activate, marks
  <2>4. CASE Undo(r) \/ Token(r) \/ Mark(r) \/ Stop(r) \/ Retry(r)
    BY <2>4 DEF Undo, Token, Mark, Stop, Retry, marks
  <2>5. QED  BY <2>1, <2>2, <2>3, <2>4 DEF Step
<1>2. CASE \E r \in Requests : Fails(r)
  BY <1>2 DEF Fails, GetFails, SessionFails, RefreshFails, ClaimFails, Crash, marks
<1>3. CASE Around
  BY <1>3 DEF Around, Fill, Age, EndSession, Expire, vars, marks
<1>4. CASE Lapse  BY <1>4 DEF Lapse, marks
<1>5. QED  BY <1>1, <1>2, <1>3, <1>4, Steps

LEMMA Watched ==
    ASSUME IInv, [Next]_vars, NEW r \in Requests, scene.kind[r] = "status"
    PROVE  /\ req[r].pc # "done" => View(entry') \in passed'[r] \/ UNCHANGED vars
           /\ req[r].pc = "done" => passed'[r] = passed[r]
           /\ req[r].pc # "get" => passed[r] \subseteq passed'[r]
           /\ req[r].pc = "get" /\ View(entry) \in passed[r] => View(entry') \in passed'[r]
<1>1. CASE Watch  BY <1>1 DEF Watch
<1>2. CASE UNCHANGED <<vars, passed>>  BY <1>2 DEF vars, store
<1>3. QED  BY <1>1, <1>2, NextWatch

\* A step of others.
LEMMA SeerWaits ==
    ASSUME IInv, [Next]_vars, NEW r \in Requests, Seer(r), Current(r), Seer(r)',
           req'[r] = req[r], Cached(At[r])
    PROVE  Current(r)'
<1>1. scene' = scene  BY NextWatch
<1>2. req[r].pc # "done" => View(entry) \in passed[r] /\ View(entry') \in passed'[r]
  BY Watched DEF Seer, Current, vars, store
<1>3. req[r].pc # "get" => passed[r] \subseteq passed'[r]  BY Watched DEF Seer
<1>4. req[r].pc = "again" /\ cache'[At[r]] # None => View(cache'[At[r]]) \in passed'[r]
  BY <1>2, <1>3 DEF Current, Cached
<1>5. QED  BY <1>1, <1>2, <1>3, <1>4 DEF Current

\* Its own steps.
LEMMA SeerSteps ==
    ASSUME IInv, [Next]_vars, NEW r \in Requests, Seer(r), Current(r), Seer(r)',
           Step(r) \/ Fails(r)
    PROVE  Current(r)'
<1>1. req[r] \in Request /\ At[r] \in Nodes  BY ConstantsOK DEF IInv, ReqTyped
<1>2. scene' = scene /\ scene.kind[r] = "status" /\ Readable /\ ~IsStart(r)
  BY NextWatch DEF Seer, Sighted, IsStart
<1>3. req[r].pc # "done" => View(entry) \in passed[r] /\ View(entry') \in passed'[r]
  BY Watched DEF Seer, Current, vars, store
<1>4. req[r].pc # "get" => passed[r] \subseteq passed'[r]  BY <1>2, Watched
<1>5. ended = {} \/ "write" \notin scene.bad
  BY DEF Seer, Sighted
<1>6. CASE Get(r)
  <2> DEFINE c == Copy(At[r])
  <2>1. req'[r] = [req[r] EXCEPT !.seen = c, !.pc = Loading(c)] /\ entry' = entry /\ req[r].pc = "get"
    BY <1>6 DEF Get, At_, IInv, ReqTyped
  <2>2. req'[r].held = req[r].held /\ req'[r].prev = req[r].prev /\ req'[r].reply = req[r].reply
        /\ req'[r].pc = Loading(c) /\ req'[r].seen = c
    BY <1>1, <2>1 DEF Request
  <2>3. Loading(c) = "loaded" => c = NoEntry /\ entry = NoEntry
    BY <1>1, ConstantsOK DEF Loading, Copy, IInv, StoreTyped
  <2>4. Loading(c) \in {"loaded", "session", "refresh"}  BY DEF Loading
  <2>5. QED  BY <1>3, <2>1, <2>2, <2>3, <2>4 DEF Current
<1>7. CASE Session(r)
  <2>1. PICK p \in {"refresh", "drop"} : Goes(r, p) /\ (p = "drop" => ended # {})
    BY <1>7 DEF Session
  <2>2. req'[r] = [req[r] EXCEPT !.pc = p] /\ entry' = entry /\ req[r].pc = "session"
    BY <1>7, <2>1 DEF Session, Goes, At_, IInv, ReqTyped, store
  <2>3. req'[r].held = req[r].held /\ req'[r].prev = req[r].prev /\ req'[r].reply = req[r].reply
        /\ req'[r].pc = p
    BY <1>1, <2>2 DEF Request
  <2>4. QED  BY <1>2, <1>3, <1>5, <2>1, <2>2, <2>3 DEF Current
<1>8. CASE Drop(r)
  <2>1. req[r].pc = "drop" /\ "write" \notin scene.bad  BY <1>8 DEF Drop, At_, Current
  <2>2. entry' = NoEntry  BY <1>8, <2>1 DEF Drop, DropFails, Mistake, Put
  <2>3. req'[r] = [req[r] EXCEPT !.pc = "loaded", !.seen = NoEntry, !.prev = NoEntry]
    BY <1>8 DEF Drop, Current, IInv, ReqTyped
  <2>4. req'[r].held = req[r].held /\ req'[r].prev = NoEntry /\ req'[r].reply = req[r].reply
        /\ req'[r].pc = "loaded" /\ req'[r].seen = NoEntry
    BY <1>1, <2>3 DEF Request
  <2>5. QED  BY <1>3, <2>1, <2>2, <2>4 DEF Current
<1>9. CASE Refresh(r) /\ Refreshed(r) # NoEntry
  <2> DEFINE e == [Refreshed(r) EXCEPT !.expires = Later]
  <2>1. req'[r] = [req[r] EXCEPT !.seen = e, !.pc = "loaded"] /\ entry' = e /\ req[r].pc = "refresh"
    BY <1>9 DEF Refresh, At_, Put, IInv, ReqTyped
  <2>2. req'[r].held = req[r].held /\ req'[r].prev = req[r].prev /\ req'[r].reply = req[r].reply
        /\ req'[r].pc = "loaded" /\ req'[r].seen = e
    BY <1>1, <2>1 DEF Request
  <2>3. QED  BY <1>3, <2>1, <2>2 DEF Current
<1>10. CASE (Refresh(r) /\ Refreshed(r) = NoEntry) \/ RefreshFails(r)
  <2>1. req'[r] = [req[r] EXCEPT !.pc = "again"] /\ cache'[At[r]] = None /\ req[r].pc = "refresh"
    BY <1>1, <1>10 DEF Refresh, RefreshFails, Goes, At_, IInv, ReqTyped, StoreTyped
  <2>2. req'[r].held = req[r].held /\ req'[r].prev = req[r].prev /\ req'[r].reply = req[r].reply
        /\ req'[r].pc = "again"
    BY <1>1, <2>1 DEF Request
  <2>3. QED  BY <1>3, <2>1, <2>2 DEF Current
<1>11. CASE Again(r)
  <2> DEFINE c == Copy(At[r])
  <2>1. req'[r] = [req[r] EXCEPT !.seen = c, !.pc = "loaded"] /\ req[r].pc = "again"
    BY <1>11 DEF Again, At_, IInv, ReqTyped
  <2>2. req'[r].held = req[r].held /\ req'[r].prev = req[r].prev /\ req'[r].reply = req[r].reply
        /\ req'[r].pc = "loaded" /\ req'[r].seen = c
    BY <1>1, <2>1 DEF Request
  <2>3. View(c) \in passed[r]  BY <2>1 DEF Current, Copy
  <2>4. QED  BY <1>3, <1>4, <2>1, <2>2, <2>3 DEF Current
<1>12. CASE Tell(r)
  <2> DEFINE v == View(req[r].seen)
  <2>1. req[r].pc = "loaded" /\ Answers(r, v[1], v[2], "done")
    BY <1>2, <1>12 DEF Tell, At_
  <2>2. req[r].seen \in Stored  BY <1>1 DEF Request, Stored
  <2>3. v = <<v[1], v[2]>> /\ v \in passed[r]  BY <2>1 DEF View, Current
  <2>4. req'[r] = [req[r] EXCEPT !.reply = v[1], !.session = v[2], !.pc = "done",
                                 !.seen = NoEntry, !.prev = NoEntry]
    BY <2>1 DEF Answers, IInv, ReqTyped
  <2>5. req'[r].held = req[r].held /\ req'[r].prev = NoEntry /\ req'[r].reply = v[1]
        /\ req'[r].session = v[2] /\ req'[r].pc = "done"
    BY <1>1, <2>4 DEF Request
  <2>6. <<req'[r].reply, req'[r].session>> \in passed'[r]
    BY <1>4, <2>1, <2>3, <2>5
  <2>7. QED  BY <2>5, <2>6 DEF Current
<1>13. CASE Crash(r)
  <2>1. req'[r] = [req[r] EXCEPT !.pc = "dead"] /\ req[r].pc # "done"
    BY <1>13 DEF Crash, Goes, IInv, ReqTyped
  <2>2. req'[r].held = req[r].held /\ req'[r].prev = req[r].prev /\ req'[r].reply = req[r].reply
        /\ req'[r].pc = "dead"
    BY <1>1, <2>1 DEF Request
  <2>3. QED  BY <1>3, <2>1, <2>2 DEF Current
<1>14. QED
  <2>1. ~GetFails(r) /\ ~SessionFails(r)
    BY <1>2 DEF GetFails, SessionFails, Mistake, Readable
  <2>2. ~ClaimFails(r) /\ ~Claim(r) /\ ~Release(r) /\ ~Enter(r) /\ ~Reuse(r) /\ ~Mark(r)
    BY <1>2 DEF ClaimFails, Claim, Release, Enter, Reuse, Mark, At_, Current
  <2>3. ~Note(r) /\ ~Create(r) /\ ~Activate(r) /\ ~Undo(r) /\ ~Token(r) /\ ~Stop(r) /\ ~Retry(r)
    BY <1>2 DEF Note, Create, Activate, Undo, Token, Stop, Retry, At_, Current
  <2>4. QED
    BY <1>6, <1>7, <1>8, <1>9, <1>10, <1>11, <1>12, <1>13, <2>1, <2>2, <2>3 DEF Step, Fails

\* The writes of a start reach the cache of its own instance, and are what it shows but if
\* they fail; a status of that instance is then not sighted.
LEMMA HardCached ==
    ASSUME IInv, MInv, NEW q \in Requests, Hard(q), NEW r \in Requests, Seer(r), r # q
    PROVE  Cached(At[r])
<1>1. At[q] \in Nodes /\ At[r] \in Nodes /\ scene \in Scene  BY ConstantsOK DEF IInv, RestTyped
<1>2. PICK e \in Stored : Puts(q, e) \/ DropFails(q)
  <2>1. CASE Note(q)  BY <2>1, NoteShape, NotedIdle DEF Stored
  <2>2. CASE Activate(q)
    <3>1. req[q].made \in Sessions \cup {None}  BY DEF IInv, ReqTyped, Request
    <3> DEFINE e == [req |-> scene.id[q], session |-> req[q].made, deck |-> scene.deck[q], expires |-> Later]
    <3>2. e \in Stored  BY <1>1, <3>1, LaterIsExpiry DEF Stored, Entry, Scene
    <3>3. QED  BY <2>2, <3>2 DEF Activate, Puts
  <2>3. CASE Undo(q)  BY <2>3, UndoShape DEF Puts
  <2>4. QED  BY <2>1, <2>2, <2>3 DEF Hard
<1>3. CASE Put(q, e)  BY <1>1, <1>3, PutCached
<1>4. CASE DropFails(q)  BY <1>1, <1>4, DeleteSoft DEF Soft
<1>5. CASE PutFails(q, e)
  <2>1. scene.kind[q] \notin {"none", "status"}
    <3>1. req[q].pc \in Writes  BY DEF Hard, Note, Activate, Undo, At_, Writes
    <3>2. scene.kind[q] \in Starts \cup {"entry"}  BY <3>1 DEF MInv, Made, Sound
    <3>3. QED  BY <3>2 DEF Starts
  <2>2. "write" \in scene.bad  BY <1>5 DEF PutFails, Mistake
  <2>3. At[q] # At[r]  BY <2>1, <2>2 DEF Seer, Sighted
  <2>4. QED  BY <1>1, <1>5, <2>3 DEF PutFails, Cached, IInv, StoreTyped
<1>6. QED  BY <1>2, <1>3, <1>4, <1>5 DEF Puts

LEMMA NextCurrent == ASSUME IInv, MInv, SInv, [Next]_vars PROVE SInv'
<1> SUFFICES ASSUME NEW r \in Requests, Seer(r)' PROVE Current(r)'
  BY DEF SInv
<1>1. scene' = scene /\ ended \subseteq ended'  BY NextWatch
<1>2. Seer(r) /\ Current(r)  BY <1>1 DEF Seer, Sighted, Readable, SInv
<1>3. At[r] \in Nodes  BY ConstantsOK
<1>4. ASSUME NEW q \in Requests, Step(q) \/ Fails(q) PROVE Current(r)'
  <2>1. CASE q = r  BY <1>2, <1>4, <2>1, SeerSteps
  <2>2. CASE q # r
    <3>1. Only(q) /\ (Soft \/ Hard(q))  BY <1>4, StepSoft, FailsSoft
    <3>2. Cached(At[r])  BY <1>2, <1>3, <2>2, <3>1, HardCached DEF Soft
    <3>3. req'[r] = req[r]  BY <2>2, <3>1 DEF Only
    <3>4. QED  BY <1>2, <3>2, <3>3, SeerWaits
  <2>3. QED  BY <2>1, <2>2
<1>5. CASE Around
  <2>1. req' = req /\ Cached(At[r])  BY <1>3, <1>5, AroundSoft DEF Soft
  <2>2. QED  BY <1>2, <2>1, SeerWaits
<1>6. CASE Lapse
  <2>1. req'[r] = req[r] /\ Cached(At[r])  BY <1>2, <1>3, <1>6, LapseSoft DEF Soft, Current
  <2>2. QED  BY <1>2, <2>1, SeerWaits
<1>7. QED  BY <1>4, <1>5, <1>6, Steps

LEMMA InitCurrent == ASSUME Init PROVE SInv
<1>1. /\ req = [r \in Requests |-> NewRequest(scene.kind[r])]
      /\ passed = [r \in Requests |-> IF scene.kind[r] = "status" THEN {View(entry)} ELSE {}]
  BY DEF Init
<1>2. ASSUME NEW r \in Requests, scene.kind[r] = "status"
      PROVE  Current(r)
  <2>1. View(entry) \in passed[r]  BY <1>1, <1>2
  <2>2. req[r] = NewRequest("status")  BY <1>1, <1>2
  <2>3. req[r].pc = "get" /\ ~req[r].held /\ req[r].prev = NoEntry /\ req[r].reply = "none"
    BY <2>2 DEF NewRequest
  <2>4. QED  BY <2>1, <2>3 DEF Current
<1>3. QED  BY <1>2 DEF SInv, Seer

\* A status answers what the entry was at some time while it was asked for, however old the
\* copies in the caches and whatever starts, stops, sweeps and crashes go on, as long as its
\* reads succeed and the writes that fail are those of other instances.
THEOREM StatusesAreCurrent == Spec => []StatusIsCurrent
<1>1. Init => IInv /\ MInv /\ SInv  BY InitInv, InitMade, InitCurrent
<1>2. IInv /\ MInv /\ SInv /\ [Next]_vars => IInv' /\ MInv' /\ SInv'
  BY NextInv, NextMade, NextCurrent
<1>3. SInv => StatusIsCurrent  BY DEF SInv, Seer, Current, StatusIsCurrent
<1>4. QED  BY <1>1, <1>2, <1>3, PTL DEF Spec
-----------------------------------------------------------------------------
(* What a start was answered with stays                                    *)

Calm == Renewed /\ Readable /\ StopsInTime /\ ended = {}

\* A copy c of the entry e that is good enough for the request that works under the lock: it
\* leads where e leads, or, if e leads nowhere, to a session that was stopped.
Good(c, e, st) == /\ Active(e) => Leads(c, e.session)
                  /\ Active(c) => c.session \in st \/ Leads(e, c.session)

\* It is about to be answered, or was, that the class is at its session.
Claiming(x, k) == k \in Starts /\ (x.reply = "active" \/ x.pc = "token")

\* What holds of request x of kind k, if the entry is e, its instance has the copy c of it,
\* and st were stopped.
Keeps(x, k, e, c, st) ==
    /\ ~x.lapsed /\ x.pc # "drop"
    /\ x.held => /\ x.pc = "again" /\ c # None => Good(c, e, st)
                 /\ x.pc = "loaded" => Good(x.seen, e, st)
    /\ x.pc \in Writes \ {"undo"} => ~Active(e)
    /\ x.pc = "undo" /\ Active(e) => e.session = x.made
    /\ Claiming(x, k) => x.session # None /\ (x.session \in st \/ Leads(e, x.session))
    /\ k = "stop" => /\ x.pc = "again" /\ c # None /\ Active(c) => Leads(e, c.session)
                     /\ x.pc = "loaded" /\ Active(x.seen) => Leads(e, x.seen.session)
                     /\ x.pc = "stop" => Active(e) /\ e.session \in st
Keeping(r) == /\ Keeps(req[r], scene.kind[r], entry, cache[At[r]], stopped)
              /\ req[r].pc = "undo" => "write" \in scene.bad

\* A session is nobody's answer before its start wrote it to the entry for good.
Unclaimed == \A r, p \in Requests :
    /\ req[r].pc \in {"activate", "undo"} /\ req[r].made # None
    /\ Claiming(req[p], scene.kind[p])
    => req[p].session # req[r].made

HInv == Calm => (\A r \in Requests : Keeping(r)) /\ Unclaimed

\* The entry leads where it led, or nowhere if it led nowhere, or to a session in st.
Mild(st) == \/ SameView(entry, entry')
            \/ entry' = NoEntry /\ (Active(entry) => entry.session \in st)

LEMMA MildGood ==
    ASSUME NEW st, NEW tt, st \subseteq tt, Mild(st), NEW c, Good(c, entry, st)
    PROVE  Good(c, entry', tt)
BY DEF Mild, Good, SameView, Active, Leads

LEMMA EntryGood ==
    ASSUME NEW st, NEW tt, st \subseteq tt, Mild(st)
    PROVE  Good(entry, entry', tt) /\ Good(entry', entry', tt)
BY DEF Mild, Good, SameView, Active, Leads

LEMMA CalmBefore == ASSUME IInv, [Next]_vars, Calm' PROVE Calm /\ scene' = scene
BY NextWatch DEF Calm, Renewed, Readable, StopsInTime

\* A request that does not step, while the entry leads nowhere else, keeps what it has.  A
\* stop needs more: that the entry does not go away from the session it leads to.
LEMMA WaitKeeps ==
    ASSUME IInv, Calm, NEW r \in Requests, Keeping(r), scene' = scene,
           req'[r] = req[r], stopped \subseteq stopped', Cached(At[r]), Mild(stopped),
           scene.kind[r] = "stop" => Mild({})
    PROVE  Keeping(r)'
<1> DEFINE x == req[r]
           c == cache[At[r]]
<1>1. Keeps(x, scene.kind[r], entry, c, stopped)  BY DEF Keeping
<1>2. x.held => /\ x.pc = "again" /\ c' # None => Good(c', entry', stopped')
                /\ x.pc = "loaded" => Good(x.seen, entry', stopped')
  <2> SUFFICES ASSUME x.held
               PROVE  /\ x.pc = "again" /\ c' # None => Good(c', entry', stopped')
                      /\ x.pc = "loaded" => Good(x.seen, entry', stopped')
    OBVIOUS
  <2>1. x.pc = "loaded" => Good(x.seen, entry', stopped')  BY <1>1, MildGood DEF Keeps
  <2>2. c # None /\ x.pc = "again" => Good(c, entry', stopped')  BY <1>1, MildGood DEF Keeps
  <2>3. Good(entry, entry', stopped') /\ Good(entry', entry', stopped')  BY EntryGood
  <2>4. QED  BY <2>1, <2>2, <2>3 DEF Cached
<1>3. ~Active(entry) => ~Active(entry')  BY DEF Mild, SameView, Active
<1>4. Active(entry') => Active(entry) /\ entry'.session = entry.session
  BY DEF Mild, SameView, Active
<1>5. \A s : s # None /\ Leads(entry, s) => s \in stopped \/ Leads(entry', s)
  BY DEF Mild, SameView, Active, Leads
<1>6. scene.kind[r] = "stop" =>
         /\ x.pc = "again" /\ c' # None /\ Active(c') => Leads(entry', c'.session)
         /\ x.pc = "loaded" /\ Active(x.seen) => Leads(entry', x.seen.session)
         /\ x.pc = "stop" => Active(entry') /\ entry'.session \in stopped'
  <2> SUFFICES ASSUME scene.kind[r] = "stop"
               PROVE  /\ x.pc = "again" /\ c' # None /\ Active(c') => Leads(entry', c'.session)
                      /\ x.pc = "loaded" /\ Active(x.seen) => Leads(entry', x.seen.session)
                      /\ x.pc = "stop" => Active(entry') /\ entry'.session \in stopped'
    OBVIOUS
  <2>1. \A s : s # None /\ Leads(entry, s) => Leads(entry', s)
    BY DEF Mild, SameView, Active, Leads
  <2>2. QED  BY <1>1, <2>1 DEF Keeps, Active, Leads, Cached
<1>7. Keeps(x, scene.kind[r], entry', c', stopped')
  BY <1>1, <1>2, <1>3, <1>4, <1>5, <1>6 DEF Keeps
<1>8. QED  BY <1>7 DEF Keeping

\* The steps of a request that are soft are mild; only a stop that deletes is not for stops.
LEMMA SoftMild ==
    ASSUME IInv, MInv, Calm, NEW q \in Requests, Keeping(q), Step(q) \/ Fails(q), ~Hard(q)
    PROVE  /\ ~Drop(q) /\ ~GetFails(q) /\ ~SessionFails(q)
           /\ Mild(stopped) /\ (scene.kind[q] # "stop" => Mild({}))
<1>1. ~Drop(q) /\ ~GetFails(q) /\ ~SessionFails(q)
  BY DEF Drop, GetFails, SessionFails, At_, Mistake, Keeping, Keeps, Calm, Readable
<1>2. SameView(entry, entry') => Mild(stopped) /\ Mild({})  BY DEF Mild
<1>3. CASE Get(q) \/ Session(q) \/ Again(q) \/ Claim(q) \/ Release(q) \/ Tell(q) \/ Enter(q)
           \/ Reuse(q) \/ Create(q) \/ Token(q) \/ Mark(q) \/ Retry(q) \/ ClaimFails(q) \/ Crash(q)
  <2>1. entry' = entry
    BY <1>3 DEF Get, Session, Again, Claim, Release, Tell, Enter, Reuse, Create, Token, Mark,
                Retry, ClaimFails, Crash, store
  <2>2. QED  BY <1>1, <1>2, <2>1 DEF SameView
<1>4. CASE Refresh(q) \/ RefreshFails(q)
  <2>1. CASE entry' = entry  BY <1>1, <1>2, <2>1 DEF SameView
  <2>2. CASE Refreshed(q) # NoEntry /\ entry' = [Refreshed(q) EXCEPT !.expires = Later]
    BY <1>1, <1>2, <2>2, RefreshedEntry
  <2>3. QED  BY <1>4, <2>1, <2>2 DEF Refresh, RefreshFails, Put
<1>5. CASE Stop(q)
  <2>1. CASE entry' = entry  BY <1>1, <1>2, <2>1 DEF SameView
  <2>2. CASE entry' = NoEntry
    <3>1. scene.kind[q] = "stop"  BY <1>5 DEF Stop, At_, MInv, Made, Sound
    <3>2. Mild(stopped)  BY <1>5, <2>2, <3>1 DEF Stop, At_, Keeping, Keeps, Mild
    <3>3. QED  BY <1>1, <3>1, <3>2
  <2>3. QED  BY <1>5, <2>1, <2>2 DEF Stop, Put, DropFails
<1>6. QED  BY <1>1, <1>3, <1>4, <1>5 DEF Step, Fails, Hard

\* Where a request has nothing in hand that the entry could go against.
Quiet == {"get", "session", "refresh", "claim", "token", "release", "done", "dead"}

LEMMA QuietKeeps ==
    ASSUME NEW r \in Requests, scene' = scene, req'[r].pc \in Quiet, ~req'[r].lapsed,
           Claiming(req'[r], scene.kind[r]) =>
               /\ req'[r].session # None
               /\ req'[r].session \in stopped' \/ Leads(entry', req'[r].session)
    PROVE  Keeping(r)'
BY DEF Keeping, Keeps, Quiet, Writes

\* Where it has not been answered.
LEMMA UnansweredKeeps ==
    ASSUME NEW r \in Requests, scene' = scene, req'[r].pc \in Quiet \ {"token"}, ~req'[r].lapsed,
           req'[r].reply # "active" \/ ~IsStart(r)
    PROVE  Keeping(r)'
BY QuietKeeps DEF Claiming, Quiet, Starts, IsStart

\* What a request reads is good enough: the copy it kept, or the entry.
LEMMA CopyGood ==
    ASSUME IInv, Calm, NEW r \in Requests, Keeping(r),
           req[r].held => (cache[At[r]] # None => Good(cache[At[r]], entry, stopped)),
           scene.kind[r] = "stop" /\ cache[At[r]] # None /\ Active(cache[At[r]])
               => Leads(entry, cache[At[r]].session)
    PROVE  /\ req[r].held => Good(Copy(At[r]), entry, stopped)
           /\ scene.kind[r] = "stop" /\ Active(Copy(At[r])) => Leads(entry, Copy(At[r]).session)
BY DEF Copy, Good, Active, Leads

LEMMA LoadKeeps ==
    ASSUME IInv, MInv, Calm, NEW r \in Requests, Keeping(r), scene' = scene, stopped' = stopped,
           Get(r) \/ Session(r) \/ Refresh(r) \/ RefreshFails(r) \/ Again(r)
    PROVE  Keeping(r)'
<1>1. req[r] \in Request /\ At[r] \in Nodes /\ Made(r) /\ Keeps(req[r], scene.kind[r], entry, cache[At[r]], stopped)
  BY ConstantsOK DEF IInv, ReqTyped, MInv, Keeping
<1>2. ~req[r].lapsed  BY <1>1 DEF Keeps
<1>3. CASE Get(r)
  <2> DEFINE c == Copy(At[r])
             x == [req[r] EXCEPT !.seen = c, !.pc = Loading(c)]
  <2>1. req'[r] = x /\ req[r].pc = "get" /\ entry' = entry
    BY <1>3, <1>1 DEF Get, At_, IInv, ReqTyped
  <2>2. x.lapsed = req[r].lapsed /\ x.held = req[r].held /\ x.seen = c /\ x.pc = Loading(c)
        /\ x.reply = "none"
    BY <1>1, <2>1 DEF Request, Made, Sound, Ends
  <2>3. CASE c = NoEntry
    <3>1. entry = NoEntry  BY <2>3, ConstantsOK DEF Copy, IInv, StoreTyped
    <3>2. x.pc = "loaded" /\ ~Active(c) /\ ~Active(entry')  BY <2>1, <2>2, <2>3, <3>1 DEF Loading, Active
    <3>3. QED
      BY <1>2, <2>1, <2>2, <3>2 DEF Keeping, Keeps, Good, Claiming, Writes
  <2>4. CASE c # NoEntry
    <3>1. x.pc \in {"refresh", "session"}  BY <2>2, <2>4 DEF Loading
    <3>2. QED  BY <1>2, <2>1, <2>2, <3>1, UnansweredKeeps DEF Quiet
  <2>5. QED  BY <2>3, <2>4
<1>4. CASE Session(r)
  <2>1. req' = [req EXCEPT ![r].pc = "refresh"] /\ req[r].pc = "session"
    BY <1>4 DEF Session, At_, Goes, Calm
  <2>2. req'[r].pc = "refresh" /\ req'[r].lapsed = req[r].lapsed /\ req'[r].reply = "none"
    BY <1>1, <2>1 DEF IInv, ReqTyped, Request, Made, Sound, Ends
  <2>3. QED  BY <1>2, <2>2, UnansweredKeeps DEF Quiet
<1>5. ASSUME req' = [req EXCEPT ![r].pc = "again"], req[r].pc = "refresh", cache'[At[r]] = None
      PROVE  Keeping(r)'
  <2>1. req'[r].pc = "again" /\ req'[r].lapsed = req[r].lapsed /\ req'[r].reply = "none"
    BY <1>1, <1>5 DEF IInv, ReqTyped, Request, Made, Sound, Ends
  <2>2. QED  BY <1>2, <1>5, <2>1 DEF Keeping, Keeps, Claiming, Writes
<1>6. ASSUME NEW e, req' = [req EXCEPT ![r].seen = e, ![r].pc = "loaded"],
             req[r].pc \in {"refresh", "again"}, req[r].held => Good(e, entry', stopped),
             scene.kind[r] = "stop" /\ Active(e) => Leads(entry', e.session)
      PROVE  Keeping(r)'
  <2> DEFINE x == [req[r] EXCEPT !.seen = e, !.pc = "loaded"]
  <2>1. req'[r] = x  BY <1>6 DEF IInv, ReqTyped
  <2>2. x.pc = "loaded" /\ x.lapsed = req[r].lapsed /\ x.held = req[r].held /\ x.seen = e
        /\ x.reply = "none"
    BY <1>1, <1>6 DEF Request, Made, Sound, Ends
  <2>3. QED  BY <1>2, <1>6, <2>1, <2>2 DEF Keeping, Keeps, Claiming, Writes
<1>7. CASE Refresh(r)
  <2>1. CASE Refreshed(r) # NoEntry
    <3> DEFINE e == [Refreshed(r) EXCEPT !.expires = Later]
    <3>1. entry' = e /\ req' = [req EXCEPT ![r].seen = e, ![r].pc = "loaded"] /\ req[r].pc = "refresh"
      BY <1>7, <2>1 DEF Refresh, Put, At_
    <3>2. Good(e, entry', stopped) /\ (Active(e) => Leads(entry', e.session))
      BY <3>1 DEF Good, Active, Leads
    <3>3. QED  BY <1>6, <3>1, <3>2
  <2>2. CASE Refreshed(r) = NoEntry
    <3>1. cache'[At[r]] = None  BY <1>1, <1>7, <2>2 DEF Refresh, IInv, StoreTyped
    <3>2. QED  BY <1>5, <1>7, <2>2, <3>1 DEF Refresh, Goes, At_
  <2>3. QED  BY <2>1, <2>2
<1>8. CASE RefreshFails(r)
  <2>1. cache'[At[r]] = None  BY <1>1, <1>8 DEF RefreshFails, IInv, StoreTyped
  <2>2. QED  BY <1>5, <1>8, <2>1 DEF RefreshFails, Goes, At_
<1>9. CASE Again(r)
  <2>1. /\ req' = [req EXCEPT ![r].seen = Copy(At[r]), ![r].pc = "loaded"]
        /\ req[r].pc = "again" /\ entry' = entry
    BY <1>9 DEF Again, At_
  <2>2. /\ req[r].held => Good(Copy(At[r]), entry, stopped)
        /\ scene.kind[r] = "stop" /\ Active(Copy(At[r])) => Leads(entry, Copy(At[r]).session)
    BY <1>1, <2>1, CopyGood DEF Keeps
  <2>3. QED  BY <1>6, <2>1, <2>2
<1>10. QED  BY <1>3, <1>4, <1>7, <1>8, <1>9

LEMMA LockKeeps ==
    ASSUME IInv, MInv, Calm, NEW r \in Requests, Keeping(r), scene' = scene, stopped' = stopped,
           Claim(r) \/ ClaimFails(r) \/ Release(r) \/ Crash(r) \/ Retry(r)
    PROVE  Keeping(r)'
<1>1. req[r] \in Request /\ Made(r) /\ Keeps(req[r], scene.kind[r], entry, cache[At[r]], stopped)
  BY DEF IInv, ReqTyped, MInv, Keeping
<1>2. entry' = entry  BY DEF Claim, ClaimFails, Release, Crash, Retry, store
<1>3. ASSUME NEW x, req'[r] = x, x.pc \in Quiet \ {"token"}, ~x.lapsed,
             x.session = req[r].session, x.reply = "active" => req[r].reply = "active"
      PROVE  Keeping(r)'
  <2>1. Claiming(x, scene.kind[r]) => Claiming(req[r], scene.kind[r])  BY <1>3 DEF Claiming
  <2>2. QED  BY <1>1, <1>2, <1>3, <2>1, QuietKeeps DEF Keeps
<1>4. CASE Claim(r) \/ ClaimFails(r)
  <2>1. PICK x : /\ req' = [req EXCEPT ![r] = x]
                 /\ \/ x = [req[r] EXCEPT !.held = TRUE, !.pc = "get"]
                    \/ x = [req[r] EXCEPT !.pc = "get"]
                    \/ x = [req[r] EXCEPT !.reply = "busy", !.pc = "done"]
                    \/ x = [req[r] EXCEPT !.reply = "failed", !.pc = "done"]
    <3>1. CASE Claim(r)
      <4>1. \/ req' = [req EXCEPT ![r] = [req[r] EXCEPT !.held = TRUE, !.pc = "get"]]
            \/ req' = [req EXCEPT ![r] = [req[r] EXCEPT !.pc = "get"]]
            \/ req' = [req EXCEPT ![r] = [req[r] EXCEPT !.reply = "busy", !.pc = "done"]]
        BY <3>1 DEF Claim
      <4>2. QED  BY <4>1, Zenon
    <3>2. CASE ClaimFails(r)
      <4>1. req' = [req EXCEPT ![r] = [req[r] EXCEPT !.reply = "failed", !.pc = "done"]]
        BY <3>2 DEF ClaimFails
      <4>2. QED  BY <4>1, Zenon
    <3>3. QED  BY <1>4, <3>1, <3>2, Zenon
  <2>2. req'[r] = x  BY <2>1 DEF IInv, ReqTyped
  <2>3. x.pc \in {"get", "done"} /\ x.lapsed = req[r].lapsed
        /\ x.session = req[r].session /\ (x.reply = "active" => req[r].reply = "active")
    <3>1. CASE x = [req[r] EXCEPT !.held = TRUE, !.pc = "get"]  BY <1>1, <3>1 DEF Request
    <3>2. CASE x = [req[r] EXCEPT !.pc = "get"]  BY <1>1, <3>2 DEF Request
    <3>3. CASE x = [req[r] EXCEPT !.reply = "busy", !.pc = "done"]
      BY <1>1, <3>3 DEF Request
    <3>4. CASE x = [req[r] EXCEPT !.reply = "failed", !.pc = "done"]
      BY <1>1, <3>4 DEF Request
    <3>5. QED  BY <2>1, <3>1, <3>2, <3>3, <3>4
  <2>4. QED  BY <1>1, <1>3, <2>2, <2>3 DEF Keeps, Quiet
<1>5. CASE Release(r)
  <2> DEFINE x == [req[r] EXCEPT !.held = FALSE, !.pc = Finished(r)]
  <2>1. req'[r] = x /\ req[r].pc = "release"  BY <1>5 DEF Release, At_, IInv, ReqTyped
  <2>2. x.pc = Finished(r) /\ x.lapsed = req[r].lapsed /\ x.session = req[r].session
        /\ x.reply = req[r].reply
    BY <1>1 DEF Request
  <2>3. Finished(r) \in {"token", "done"} /\ (Finished(r) = "token" => scene.kind[r] \notin Starts)
    BY <1>1, <2>1 DEF Finished, Made, Sound
  <2>4. Claiming(x, scene.kind[r]) => Claiming(req[r], scene.kind[r])
    BY <2>2, <2>3 DEF Claiming
  <2>5. QED  BY <1>1, <1>2, <2>1, <2>2, <2>3, <2>4, QuietKeeps DEF Keeps, Quiet
<1>6. CASE Crash(r)
  <2> DEFINE x == [req[r] EXCEPT !.pc = "dead"]
  <2>1. req'[r] = x  BY <1>6 DEF Crash, Goes, IInv, ReqTyped
  <2>2. x.pc = "dead" /\ x.lapsed = req[r].lapsed /\ x.session = req[r].session
        /\ x.reply = req[r].reply
    BY <1>1 DEF Request
  <2>3. QED  BY <1>1, <1>3, <2>1, <2>2 DEF Keeps, Quiet
<1>7. CASE Retry(r)
  <2>1. req'[r] = NewRequest("start")  BY <1>7 DEF Retry, IInv, ReqTyped
  <2>2. req'[r].pc = "claim" /\ ~req'[r].lapsed /\ req'[r].reply = "none"
    BY <2>1 DEF NewRequest
  <2>3. QED  BY <2>2, UnansweredKeeps DEF Quiet
<1>8. QED  BY <1>4, <1>5, <1>6, <1>7

LEMMA TellKeeps ==
    ASSUME IInv, MInv, Calm, NEW r \in Requests, Keeping(r), scene' = scene,
           Tell(r) \/ Enter(r) \/ Token(r) \/ Mark(r) \/ Stop(r)
    PROVE  Keeping(r)'
<1>1. req[r] \in Request /\ Made(r) /\ Keeps(req[r], scene.kind[r], entry, cache[At[r]], stopped)
  BY DEF IInv, ReqTyped, MInv, Keeping
<1>2. ~req[r].lapsed  BY <1>1 DEF Keeps
<1> DEFINE told(s, d, p) == [req[r] EXCEPT !.reply = s, !.session = d, !.pc = p,
                                           !.seen = NoEntry, !.prev = NoEntry]
<1>3. ASSUME NEW s, NEW d, NEW p, Answers(r, s, d, p)
      PROVE  /\ req'[r].reply = s /\ req'[r].session = d /\ req'[r].pc = p
             /\ req'[r].lapsed = req[r].lapsed
  <2>1. req'[r] = told(s, d, p)  BY <1>3 DEF Answers, IInv, ReqTyped
  <2>2. QED  BY <1>1, <2>1 DEF Request
<1>4. CASE Tell(r)
  <2>1. ~IsStart(r) \/ req'[r].reply # "active"
    <3>1. CASE scene.kind[r] \in {"status", "stop"}  BY <3>1 DEF IsStart
    <3>2. CASE scene.kind[r] \notin {"status", "stop"}
      <4>1. \E s \in {"starting", "busy"} : Answers(r, s, None, "done")  BY <1>4, <3>2 DEF Tell
      <4>2. QED  BY <1>3, <4>1
    <3>3. QED  BY <3>1, <3>2
  <2>2. req'[r].pc = "done" /\ ~req'[r].lapsed  BY <1>2, <1>3, <1>4 DEF Tell
  <2>3. QED  BY <2>1, <2>2, UnansweredKeeps DEF Quiet
<1>5. CASE Enter(r)
  <2> DEFINE p == IF req[r].seen = NoEntry THEN IF req[r].held THEN "note" ELSE "claim"
                  ELSE IF req[r].held THEN "release" ELSE "token"
             x == [req[r] EXCEPT !.seen = NoEntry, !.pc = p]
  <2>1. /\ req'[r] = x /\ req[r].pc = "loaded" /\ scene.kind[r] = "entry" /\ entry' = entry
    BY <1>5 DEF Enter, At_, IInv, ReqTyped, store
  <2>2. x.pc = p /\ x.lapsed = req[r].lapsed /\ x.held = req[r].held /\ x.reply = req[r].reply
    BY <1>1 DEF Request
  <2>3. CASE req[r].seen = NoEntry /\ req[r].held
    <3>1. ~Active(entry)  BY <1>1, <2>1, <2>3 DEF Keeps, Good, Active, Leads
    <3>2. QED  BY <1>2, <2>1, <2>2, <2>3, <3>1 DEF Keeping, Keeps, Claiming, Starts, Writes
  <2>4. CASE ~(req[r].seen = NoEntry /\ req[r].held)
    <3>1. x.pc \in {"claim", "release", "token"}  BY <2>2, <2>4
    <3>2. ~Claiming(x, scene.kind[r])  BY <2>1 DEF Claiming, Starts
    <3>3. QED  BY <1>2, <2>1, <2>2, <3>1, <3>2, QuietKeeps DEF Quiet
  <2>5. QED  BY <2>3, <2>4
<1>6. CASE Token(r)
  <2>1. req[r].pc = "token" /\ entry' = entry /\ stopped' = stopped
    BY <1>6 DEF Token, At_, store, marks
  <2>2. /\ req'[r].pc \in {"release", "done"} /\ ~req'[r].lapsed
        /\ req'[r].session = req[r].session \/ req'[r].reply = "failed"
    BY <1>2, <1>3, <1>6 DEF Token
  <2>3. Claiming(req'[r], scene.kind[r]) =>
          Claiming(req[r], scene.kind[r]) /\ req'[r].session = req[r].session
    BY <2>1, <2>2 DEF Claiming
  <2>4. QED  BY <1>1, <2>1, <2>2, <2>3, QuietKeeps DEF Keeps, Quiet
<1>7. CASE Mark(r)
  <2> DEFINE x == [req[r] EXCEPT !.seen = NoEntry, !.pc = "stop"]
  <2>1. /\ req'[r] = x /\ req[r].pc = "loaded" /\ scene.kind[r] = "stop" /\ entry' = entry
        /\ View(req[r].seen)[1] = "active" /\ stopped' = stopped \cup {req[r].seen.session}
    BY <1>7 DEF Mark, At_, IInv, ReqTyped, store
  <2>2. x.pc = "stop" /\ x.lapsed = req[r].lapsed  BY <1>1 DEF Request
  <2>3. Active(req[r].seen)  BY <2>1 DEF View, Active
  <2>4. Active(entry) /\ entry.session = req[r].seen.session
    BY <1>1, <2>1, <2>3 DEF Keeps, Active, Leads
  <2>5. QED  BY <1>2, <2>1, <2>2, <2>4 DEF Keeping, Keeps, Claiming, Starts, Writes
<1>8. CASE Stop(r)
  <2>1. req'[r].reply = "stopped" /\ req'[r].pc = "done" /\ ~req'[r].lapsed
    BY <1>2, <1>3, <1>8 DEF Stop
  <2>2. QED  BY <2>1, UnansweredKeeps DEF Quiet
<1>9. QED  BY <1>4, <1>5, <1>6, <1>7, <1>8

\* A start that reuses a session is where the entry leads, or that was stopped; one that
\* goes on finds that the entry leads nowhere.
LEMMA ReuseKeeps ==
    ASSUME IInv, MInv, Calm, NEW r \in Requests, Keeping(r), scene' = scene, Reuse(r)
    PROVE  Keeping(r)'
<1>1. req[r] \in Request /\ Made(r) /\ Keeps(req[r], scene.kind[r], entry, cache[At[r]], stopped)
  BY DEF IInv, ReqTyped, MInv, Keeping
<1> DEFINE e == req[r].seen
           told(s, d, p) == [req[r] EXCEPT !.reply = s, !.session = d, !.pc = p,
                                           !.seen = NoEntry, !.prev = NoEntry]
<1>2. /\ req[r].pc = "loaded" /\ req[r].held /\ req[r].reply = "none" /\ ~req[r].lapsed
      /\ Good(e, entry, stopped) /\ entry' = entry /\ stopped' = stopped /\ IsStart(r)
  BY <1>1 DEF Reuse, At_, Keeps, Made, Sound, Ends, store, marks
<1>3. ASSUME NEW s, NEW d, NEW p, Answers(r, s, d, p)
      PROVE  /\ req'[r].reply = s /\ req'[r].session = d /\ req'[r].pc = p
             /\ req'[r].lapsed = req[r].lapsed
  <2>1. req'[r] = told(s, d, p)  BY <1>3 DEF Answers, IInv, ReqTyped
  <2>2. QED  BY <1>1, <2>1 DEF Request
<1>4. CASE View(e)[1] # "active"
  <2> DEFINE x == [req[r] EXCEPT !.pc = "note"]
  <2>1. req'[r] = x  BY <1>4 DEF Reuse, Goes, IInv, ReqTyped
  <2>2. x.pc = "note" /\ x.lapsed = req[r].lapsed /\ x.reply = req[r].reply  BY <1>1 DEF Request
  <2>3. ~Active(e)  BY <1>4 DEF View, Active
  <2>4. ~Active(entry)  BY <1>2, <2>3 DEF Good, Active, Leads
  <2>5. scene.kind[r] # "stop"  BY <1>2 DEF IsStart
  <2>6. QED  BY <1>2, <2>1, <2>2, <2>4, <2>5 DEF Keeping, Keeps, Claiming
<1>5. CASE View(e)[1] = "active"
  <2>1. Active(e)  BY <1>5 DEF View, Active
  <2>2. CASE Answers(r, "deck", None, "release")
    BY <1>2, <1>3, <2>2, UnansweredKeeps DEF Quiet
  <2>3. CASE Answers(r, "none", e.session, "token")
    <3>1. /\ req'[r].pc = "token" /\ ~req'[r].lapsed /\ req'[r].session = e.session
      BY <1>2, <1>3, <2>3
    <3>2. e.session # None /\ (e.session \in stopped \/ Leads(entry, e.session))
      BY <1>2, <2>1 DEF Good, Active, Leads
    <3>3. QED  BY <1>2, <3>1, <3>2, QuietKeeps DEF Quiet
  <2>4. e.session \notin ended  BY DEF Calm
  <2>5. QED  BY <1>5, <2>2, <2>3, <2>4 DEF Reuse
<1>6. QED  BY <1>4, <1>5

LEMMA CreateKeeps ==
    ASSUME IInv, MInv, Calm, NEW r \in Requests, Keeping(r), scene' = scene, Create(r)
    PROVE  Keeping(r)'
<1>1. req[r] \in Request /\ Made(r) /\ Keeps(req[r], scene.kind[r], entry, cache[At[r]], stopped)
  BY DEF IInv, ReqTyped, MInv, Keeping
<1>2. /\ req[r].pc = "create" /\ entry' = entry /\ req[r].reply = "none" /\ scene.kind[r] \in Starts
      /\ ~req[r].lapsed /\ ~Active(entry)
  BY <1>1 DEF Create, At_, store, Made, Sound, Ends, Writes, Keeps
<1>3. PICK p \in {"activate", "undo"} :
        /\ req'[r].pc = p /\ req'[r].lapsed = req[r].lapsed /\ req'[r].reply = "none"
        /\ p = "undo" => "write" \in scene.bad
  <2>1. CASE req' = [req EXCEPT ![r].made = created + 1, ![r].pc = "activate"]
    <3>1. req'[r] = [req[r] EXCEPT !.made = created + 1, !.pc = "activate"]
      BY <2>1 DEF IInv, ReqTyped
    <3>2. QED  BY <1>1, <1>2, <3>1 DEF Request
  <2>2. CASE Goes(r, "undo") /\ Mistake("write")
    <3>1. req'[r] = [req[r] EXCEPT !.pc = "undo"]  BY <2>2 DEF Goes, IInv, ReqTyped
    <3>2. "write" \in scene.bad  BY <2>2 DEF Mistake
    <3>3. QED  BY <1>1, <1>2, <3>1, <3>2 DEF Request
  <2>3. QED  BY <2>1, <2>2 DEF Create
<1>4. scene.kind[r] # "stop"  BY <1>2 DEF Starts
<1>5. QED  BY <1>2, <1>3, <1>4 DEF Keeping, Keeps, Claiming

LEMMA NoteKeeps ==
    ASSUME IInv, MInv, Calm, NEW r \in Requests, Keeping(r), scene' = scene, Note(r)
    PROVE  Keeping(r)'
<1>1. req[r] \in Request /\ Made(r) /\ Keeps(req[r], scene.kind[r], entry, cache[At[r]], stopped)
  BY DEF IInv, ReqTyped, MInv, Keeping
<1>2. req[r].pc = "note"  BY NoteShape
<1>3. Noted(r) \in Stored /\ ~Active(Noted(r)) /\ ~Active(entry) /\ ~req[r].lapsed /\ req[r].reply = "none"
  BY <1>1, <1>2, NotedIdle DEF Stored, Keeps, Writes, Made, Sound, Ends
<1>4. ~Active(entry')  BY <1>2, <1>3, NoteShape, PutsCounted DEF Known
<1>5. CASE IsStart(r)
  <2>1. PICK p \in {"create", "undo"} :
          /\ p = "undo" => "write" \in scene.bad
          /\ req' = [req EXCEPT ![r] = [req[r] EXCEPT !.prev = req[r].seen, !.seen = NoEntry, !.pc = p]]
    BY <1>5, NoteShape
  <2>2. req'[r].pc = p /\ ~req'[r].lapsed /\ req'[r].reply = "none"
    BY <1>1, <1>3, <2>1 DEF IInv, ReqTyped, Request
  <2>3. scene.kind[r] # "stop"  BY <1>5 DEF IsStart
  <2>4. QED  BY <1>4, <2>1, <2>2, <2>3 DEF Keeping, Keeps, Claiming
<1>6. CASE ~IsStart(r)
  <2>1. CASE req' = [req EXCEPT ![r] = [req[r] EXCEPT !.prev = NoEntry, !.seen = NoEntry,
                                                      !.pc = "release"]]
    <3>1. req'[r] = [req[r] EXCEPT !.prev = NoEntry, !.seen = NoEntry, !.pc = "release"]
      BY <2>1 DEF IInv, ReqTyped
    <3>2. req'[r].pc = "release" /\ ~req'[r].lapsed  BY <1>1, <1>3, <3>1 DEF Request
    <3>3. QED  BY <1>6, <3>2, UnansweredKeeps DEF Quiet
  <2>2. CASE Answers(r, "failed", None, "release")
    <3>1. req'[r] = [req[r] EXCEPT !.reply = "failed", !.session = None, !.pc = "release",
                                   !.seen = NoEntry, !.prev = NoEntry]
      BY <2>2 DEF Answers, IInv, ReqTyped
    <3>2. req'[r].pc = "release" /\ ~req'[r].lapsed  BY <1>1, <1>3, <3>1 DEF Request
    <3>3. QED  BY <1>6, <3>2, UnansweredKeeps DEF Quiet
  <2>3. QED  BY <1>6, <2>1, <2>2, NoteShape
<1>7. QED  BY <1>5, <1>6

\* What a start writes when its session is made.
Launched(r) == [req |-> scene.id[r], session |-> req[r].made, deck |-> scene.deck[r], expires |-> Later]

LEMMA LaunchedLeads ==
    ASSUME IInv, MInv, NEW r \in Requests, Activate(r)
    PROVE  /\ req[r].made # None /\ req[r].pc = "activate"
           /\ Launched(r) \in Stored /\ Known(Launched(r), created)
           /\ Active(Launched(r)) /\ Launched(r).session = req[r].made
           /\ Puts(r, Launched(r)) /\ Counted' /\ entry' \in {entry, Launched(r)}
           /\ \/ /\ Put(r, Launched(r)) /\ entry' = Launched(r)
                 /\ req' = [req EXCEPT ![r].session = req[r].made, ![r].pc = "token"]
              \/ "write" \in scene.bad /\ Goes(r, "undo")
<1>1. req[r] \in Request /\ Made(r) /\ req[r].pc = "activate" /\ created' = created
  BY DEF IInv, ReqTyped, MInv, Activate, At_, marks
<1>2. scene.id[r] \in Ids /\ scene.deck[r] \in Decks  BY ConstantsOK DEF IInv, RestTyped, Scene
<1>3. req[r].made # None /\ req[r].made \in 1..created /\ req[r].made \in Sessions
  BY <1>1 DEF Made, Sound, Request
<1>4. /\ Launched(r) \in Entry /\ Launched(r).session = req[r].made
  BY <1>2, <1>3, LaterIsExpiry DEF Launched, Entry
<1>5. Launched(r) \in Stored /\ Known(Launched(r), created) /\ Active(Launched(r))
  BY <1>3, <1>4, ConstantsOK DEF Stored, Known, Active
<1>6. \/ Put(r, Launched(r)) /\ req' = [req EXCEPT ![r].session = req[r].made, ![r].pc = "token"]
      \/ PutFails(r, Launched(r)) /\ Goes(r, "undo")
  BY DEF Activate, Launched
<1>7. Puts(r, Launched(r))  BY <1>6 DEF Puts
<1>8. Counted' /\ entry' \in {entry, Launched(r)}  BY <1>1, <1>5, <1>7, PutsCounted
<1>9. Put(r, Launched(r)) => entry' = Launched(r)  BY DEF Put
<1>10. PutFails(r, Launched(r)) => "write" \in scene.bad  BY DEF PutFails, Mistake
<1>11. QED  BY <1>1, <1>3, <1>4, <1>5, <1>6, <1>7, <1>8, <1>9, <1>10

LEMMA ActivateKeeps ==
    ASSUME IInv, MInv, Calm, NEW r \in Requests, Keeping(r), scene' = scene, Activate(r)
    PROVE  Keeping(r)'
<1>1. req[r] \in Request /\ Made(r) /\ Keeps(req[r], scene.kind[r], entry, cache[At[r]], stopped)
  BY DEF IInv, ReqTyped, MInv, Keeping
<1>2. /\ req[r].pc = "activate" /\ req[r].made # None /\ ~Active(entry) /\ ~req[r].lapsed
      /\ req[r].reply = "none" /\ scene.kind[r] \in Starts
  BY <1>1, LaunchedLeads DEF Keeps, Made, Sound, Writes, Ends
<1>3. CASE entry' = Launched(r) /\ req' = [req EXCEPT ![r].session = req[r].made, ![r].pc = "token"]
  <2>1. req'[r] = [req[r] EXCEPT !.session = req[r].made, !.pc = "token"]
    BY <1>3 DEF IInv, ReqTyped
  <2>2. req'[r].pc = "token" /\ req'[r].session = req[r].made /\ ~req'[r].lapsed
    BY <1>1, <1>2, <2>1 DEF Request
  <2>3. Leads(entry', req[r].made)  BY <1>3, LaunchedLeads DEF Leads, Active
  <2>4. QED  BY <1>2, <2>2, <2>3, QuietKeeps DEF Quiet
<1>4. CASE "write" \in scene.bad /\ Goes(r, "undo")
  <2>1. req'[r] = [req[r] EXCEPT !.pc = "undo"]  BY <1>4 DEF Goes, IInv, ReqTyped
  <2>2. req'[r].pc = "undo" /\ req'[r].made = req[r].made /\ ~req'[r].lapsed /\ req'[r].reply = "none"
    BY <1>1, <1>2, <2>1 DEF Request
  <2>3. Active(entry') => entry'.session = req[r].made  BY <1>2, LaunchedLeads
  <2>4. scene.kind[r] # "stop"  BY <1>2 DEF Starts
  <2>5. QED  BY <1>4, <2>2, <2>3, <2>4 DEF Keeping, Keeps, Claiming, Writes
<1>5. QED  BY <1>3, <1>4, LaunchedLeads

LEMMA UndoKeeps ==
    ASSUME IInv, MInv, Calm, NEW r \in Requests, Keeping(r), scene' = scene, Undo(r)
    PROVE  Keeping(r)'
<1>1. req[r] \in Request /\ ~req[r].lapsed
  BY DEF IInv, ReqTyped, Keeping, Keeps
<1>2. PICK s \in {"undone", "failed"} : Answers(r, s, None, "release")  BY UndoShape
<1>3. req'[r] = [req[r] EXCEPT !.reply = s, !.session = None, !.pc = "release",
                               !.seen = NoEntry, !.prev = NoEntry]
  BY <1>2 DEF Answers, IInv, ReqTyped
<1>4. req'[r].pc = "release" /\ req'[r].reply = s /\ ~req'[r].lapsed  BY <1>1, <1>3 DEF Request
<1>5. QED  BY <1>4, UnansweredKeeps DEF Quiet

\* The request that steps keeps what it has.
LEMMA OwnKeeps ==
    ASSUME IInv, MInv, Calm, NEW r \in Requests, Keeping(r), scene' = scene, Step(r) \/ Fails(r)
    PROVE  Keeping(r)'
<1>1. ~Drop(r) /\ ~GetFails(r) /\ ~SessionFails(r)
  BY DEF Drop, GetFails, SessionFails, At_, Mistake, Keeping, Keeps, Calm, Readable
<1>2. CASE Get(r) \/ Session(r) \/ Refresh(r) \/ RefreshFails(r) \/ Again(r)
  <2>1. stopped' = stopped  BY <1>2 DEF Get, Session, Refresh, RefreshFails, Again, marks
  <2>2. QED  BY <1>2, <2>1, LoadKeeps
<1>3. CASE Claim(r) \/ ClaimFails(r) \/ Release(r) \/ Crash(r) \/ Retry(r)
  <2>1. stopped' = stopped  BY <1>3 DEF Claim, ClaimFails, Release, Crash, Retry, marks
  <2>2. QED  BY <1>3, <2>1, LockKeeps
<1>4. CASE Tell(r) \/ Enter(r) \/ Token(r) \/ Mark(r) \/ Stop(r)  BY <1>4, TellKeeps
<1>5. CASE Reuse(r)  BY <1>5, ReuseKeeps
<1>6. CASE Create(r)  BY <1>6, CreateKeeps
<1>7. CASE Note(r)  BY <1>7, NoteKeeps
<1>8. CASE Activate(r)  BY <1>8, ActivateKeeps
<1>9. CASE Undo(r)  BY <1>9, UndoKeeps
<1>10. QED  BY <1>1, <1>2, <1>3, <1>4, <1>5, <1>6, <1>7, <1>8, <1>9 DEF Step, Fails

\* The request that writes is alone at work.
LEMMA AloneAtWork ==
    ASSUME IInv, MInv, Calm, NEW q \in Requests, Keeping(q), req[q].pc \in Writes,
           NEW r \in Requests, r # q, Keeping(r), req[r].held
    PROVE  req[r].pc = "dead"
<1>1. Working(q) /\ ~req[q].lapsed  BY DEF Working, MInv, Made, Sound, Writes, Keeping, Keeps
<1>2. ~req[r].lapsed  BY DEF Keeping, Keeps
<1>3. lock = q  BY <1>1 DEF IInv, OneAtATime
<1>4. ~Working(r)  BY <1>2, <1>3 DEF IInv, OneAtATime
<1>5. QED  BY <1>4 DEF Working

\* So the others keep what they have when it writes: the entry led nowhere, or to a session
\* that is nobody's answer.
LEMMA HardKeeps ==
    ASSUME IInv, MInv, Calm, NEW q \in Requests, Keeping(q), Hard(q), scene' = scene,
           NEW r \in Requests, r # q, Keeping(r), req'[r] = req[r], Unclaimed
    PROVE  Keeping(r)'
<1> DEFINE x == req[r]
           k == scene.kind[r]
           c == cache[At[r]]
<1>1. req[q].pc \in Writes \ {"create"} /\ At[r] \in Nodes
  BY ConstantsOK DEF Hard, Note, Activate, Undo, At_, Writes
<1>2. x.held => x.pc = "dead"  BY <1>1, AloneAtWork
<1>3. x.pc \notin Writes  BY <1>2 DEF MInv, Made, Sound, Writes
<1>4. Keeps(x, k, entry, c, stopped)  BY DEF Keeping
<1>5. stopped' = stopped  BY DEF Hard, Note, Activate, Undo, marks
<1>6. Claiming(x, k) => x.session # None /\ (x.session \in stopped \/ Leads(entry', x.session))
  <2> SUFFICES ASSUME Claiming(x, k)
               PROVE  x.session # None /\ x.session \in stopped
    OBVIOUS
  <2>1. x.session # None /\ (x.session \in stopped \/ Leads(entry, x.session))  BY <1>4 DEF Keeps
  <2>2. CASE req[q].pc # "undo"
    <3>1. ~Active(entry)  BY <1>1, <2>2 DEF Keeping, Keeps, Writes
    <3>2. QED  BY <2>1, <3>1 DEF Active, Leads
  <2>3. CASE req[q].pc = "undo" /\ Active(entry)
    <3>1. entry.session = req[q].made /\ req[q].made # None
      BY <2>3 DEF Keeping, Keeps, Active
    <3>2. x.session # req[q].made  BY <2>3, <3>1 DEF Unclaimed
    <3>3. QED  BY <2>1, <3>1, <3>2 DEF Leads
  <2>4. CASE ~Active(entry)  BY <2>1, <2>4 DEF Active, Leads
  <2>5. QED  BY <2>2, <2>3, <2>4
<1>7. k = "stop" => /\ x.pc = "again" /\ c' # None /\ Active(c') => Leads(entry', c'.session)
                    /\ x.pc = "loaded" /\ Active(x.seen) => Leads(entry', x.seen.session)
                    /\ x.pc = "stop" => Active(entry') /\ entry'.session \in stopped
  <2> SUFFICES ASSUME k = "stop"
               PROVE  /\ x.pc = "again" /\ c' # None /\ Active(c') => Leads(entry', c'.session)
                      /\ x.pc = "loaded" /\ Active(x.seen) => Leads(entry', x.seen.session)
                      /\ x.pc = "stop" => Active(entry') /\ entry'.session \in stopped
    OBVIOUS
  <2>1. "write" \notin scene.bad  BY DEF Calm, StopsInTime
  <2>2. req[q].pc # "undo"  BY <2>1 DEF Keeping
  <2>3. ~Active(entry)  BY <1>1, <2>2 DEF Keeping, Keeps, Writes
  <2>4. \/ Note(q) /\ Put(q, Noted(q)) /\ Noted(q) \in Stored
        \/ Activate(q) /\ Put(q, Launched(q)) /\ Launched(q) \in Stored
    <3>1. ~Undo(q)  BY <2>2 DEF Undo, At_
    <3>2. CASE Note(q)
      <4>1. Put(q, Noted(q))  BY <2>1, <3>2, NoteShape DEF Puts, PutFails, Mistake
      <4>2. Noted(q) \in Stored  BY <3>2, NoteShape, NotedIdle DEF Stored
      <4>3. QED  BY <3>2, <4>1, <4>2
    <3>3. CASE Activate(q)
      <4>1. Put(q, Launched(q)) /\ Launched(q) \in Stored  BY <2>1, <3>3, LaunchedLeads
      <4>2. QED  BY <3>3, <4>1
    <3>4. QED  BY <3>1, <3>2, <3>3 DEF Hard
  <2>5. Cached(At[r])  BY <1>1, <2>4, PutCached
  <2>6. x.pc = "again" /\ c # None => ~Active(c)
    BY <1>4, <2>3 DEF Keeps, Active, Leads
  <2>7. x.pc = "loaded" => ~Active(x.seen)
    BY <1>4, <2>3 DEF Keeps, Active, Leads
  <2>8. x.pc # "stop"  BY <1>4, <2>3 DEF Keeps
  <2>9. QED  BY <2>3, <2>5, <2>6, <2>7, <2>8 DEF Cached, Active, Leads
<1>8. Keeps(x, k, entry', c', stopped')
  BY <1>2, <1>3, <1>4, <1>5, <1>6, <1>7 DEF Keeps, Writes
<1>9. QED  BY <1>3, <1>8 DEF Keeping, Writes

\* What a step of request q leaves to the others.
LEMMA OthersKeep ==
    ASSUME IInv, MInv, Calm, NEW q \in Requests, Step(q) \/ Fails(q), scene' = scene,
           \A p \in Requests : Keeping(p), Unclaimed, NEW r \in Requests, r # q
    PROVE  Keeping(r)'
<1>1. req'[r] = req[r]  BY StepSoft, FailsSoft DEF Only
<1>2. CASE Hard(q)  BY <1>1, <1>2, HardKeeps
<1>3. CASE ~Hard(q)
  <2>1. Soft  BY <1>3, StepSoft, FailsSoft
  <2>2. Mild(stopped) /\ (scene.kind[q] # "stop" => Mild({}))  BY <1>3, SoftMild
  <2>3. scene.kind[r] = "stop" => Mild({})  BY <2>2 DEF Calm, StopsInTime
  <2>4. stopped \subseteq stopped'
    BY DEF Step, Fails, Get, Session, Drop, Refresh, Again, Claim, Release, Tell, Enter, Reuse,
           Note, Create, Activate, Undo, Token, Mark, Stop, Retry, GetFails, SessionFails,
           RefreshFails, ClaimFails, Crash, marks
  <2>5. Cached(At[r])  BY <2>1, ConstantsOK DEF Soft
  <2>6. QED  BY <1>1, <2>2, <2>3, <2>4, <2>5, WaitKeeps
<1>4. QED  BY <1>2, <1>3

\* Where the steps lead that neither answer a request nor write.
LEMMA LoadsOn ==
    ASSUME IInv, NEW q \in Requests,
           \/ Get(q) \/ Session(q) \/ Drop(q) \/ Refresh(q) \/ Again(q) \/ Mark(q) \/ Retry(q)
           \/ GetFails(q) \/ SessionFails(q) \/ RefreshFails(q)
    PROVE  req'[q].pc \in {"loaded", "session", "refresh", "drop", "note", "again", "stop", "claim"}
<1>1. req[q] \in Request  BY DEF IInv, ReqTyped
<1>2. CASE Get(q) \/ GetFails(q)
  <2>1. \E e : \E p \in {"loaded", "session", "refresh"} : req' = [req EXCEPT ![q].seen = e, ![q].pc = p]
    <3>1. CASE Get(q)
      <4>1. req' = [req EXCEPT ![q].seen = Copy(At[q]), ![q].pc = Loading(Copy(At[q]))]
        BY <3>1 DEF Get
      <4>2. Loading(Copy(At[q])) \in {"loaded", "session", "refresh"}  BY DEF Loading
      <4>3. QED  BY <4>1, <4>2
    <3>2. CASE GetFails(q)  BY <3>2 DEF GetFails
    <3>3. QED  BY <1>2, <3>1, <3>2
  <2>2. PICK e : \E p \in {"loaded", "session", "refresh"} : req'[q] = [req[q] EXCEPT !.seen = e, !.pc = p]
    BY <2>1 DEF IInv, ReqTyped
  <2>3. QED  BY <1>1, <2>2 DEF Request
<1>3. CASE Session(q) \/ SessionFails(q) \/ RefreshFails(q)
  <2>1. PICK p \in {"refresh", "drop", "again"} : req' = [req EXCEPT ![q].pc = p]
    BY <1>3 DEF Session, SessionFails, RefreshFails, Goes
  <2>2. req'[q] = [req[q] EXCEPT !.pc = p]  BY <2>1 DEF IInv, ReqTyped
  <2>3. QED  BY <1>1, <2>2 DEF Request
<1>4. CASE Drop(q)
  <2>1. PICK p \in {"note", "loaded"} :
          req' = [req EXCEPT ![q].pc = p, ![q].seen = NoEntry, ![q].prev = NoEntry]
    BY <1>4 DEF Drop
  <2>2. req'[q] = [req[q] EXCEPT !.pc = p, !.seen = NoEntry, !.prev = NoEntry]
    BY <2>1 DEF IInv, ReqTyped
  <2>3. QED  BY <1>1, <2>2 DEF Request
<1>5. CASE Refresh(q) \/ Again(q)
  <2>1. \/ \E e : req' = [req EXCEPT ![q].seen = e, ![q].pc = "loaded"]
        \/ req' = [req EXCEPT ![q].pc = "again"]
    BY <1>5, Zenon DEF Refresh, Again, Goes
  <2>2. CASE req' = [req EXCEPT ![q].pc = "again"]
    <3>1. req'[q] = [req[q] EXCEPT !.pc = "again"]  BY <2>2 DEF IInv, ReqTyped
    <3>2. QED  BY <1>1, <3>1 DEF Request
  <2>3. CASE \E e : req' = [req EXCEPT ![q].seen = e, ![q].pc = "loaded"]
    <3>1. PICK e : req'[q] = [req[q] EXCEPT !.seen = e, !.pc = "loaded"]  BY <2>3 DEF IInv, ReqTyped
    <3>2. QED  BY <1>1, <3>1 DEF Request
  <2>4. QED  BY <2>1, <2>2, <2>3
<1>6. CASE Mark(q)
  <2>1. req'[q] = [req[q] EXCEPT !.seen = NoEntry, !.pc = "stop"]  BY <1>6 DEF Mark, IInv, ReqTyped
  <2>2. QED  BY <1>1, <2>1 DEF Request
<1>7. CASE Retry(q)
  <2>1. req'[q] = NewRequest("start")  BY <1>7 DEF Retry, IInv, ReqTyped
  <2>2. QED  BY <2>1 DEF NewRequest
<1>8. QED  BY <1>2, <1>3, <1>4, <1>5, <1>6, <1>7

\* A request comes to an answer only by the entry it found under the lock, or by its write;
\* and to a write of a session only by making one.
LEMMA NewClaims ==
    ASSUME IInv, MInv, MInv', scene' = scene, NEW q \in Requests, Step(q) \/ Fails(q)
    PROVE  /\ Claiming(req'[q], scene.kind[q]) =>
                \/ Claiming(req[q], scene.kind[q]) /\ req'[q].session = req[q].session
                \/ Reuse(q) \/ Activate(q)
           /\ req'[q].pc \in {"activate", "undo"} /\ req'[q].made # None =>
                \/ req[q].pc \in {"activate", "undo"} /\ req'[q].made = req[q].made
                \/ Create(q) /\ req'[q].made = created + 1
<1>1. req[q] \in Request /\ Made(q) /\ Sound(req'[q], scene.kind[q], created')
  BY DEF IInv, ReqTyped, MInv, Made
<1> DEFINE A == Claiming(req'[q], scene.kind[q]) =>
                  \/ Claiming(req[q], scene.kind[q]) /\ req'[q].session = req[q].session
                  \/ Reuse(q) \/ Activate(q)
           B == req'[q].pc \in {"activate", "undo"} /\ req'[q].made # None =>
                  \/ req[q].pc \in {"activate", "undo"} /\ req'[q].made = req[q].made
                  \/ Create(q) /\ req'[q].made = created + 1
<1> SUFFICES A /\ B  OBVIOUS
<1> HIDE DEF A, B
<1>2. Claiming(req'[q], scene.kind[q]) => req'[q].pc \in Ends \cup {"token"} /\ scene.kind[q] \in Starts
  BY <1>1 DEF Claiming, Sound
<1>3. CASE \/ Get(q) \/ Session(q) \/ Drop(q) \/ Refresh(q) \/ Again(q) \/ Mark(q) \/ Retry(q)
           \/ GetFails(q) \/ SessionFails(q) \/ RefreshFails(q)
  BY <1>2, <1>3, LoadsOn DEF A, B, Ends
<1>4. ASSUME NEW s, NEW d, NEW p \in {"done", "release"}, Answers(q, s, d, p),
             s # "active" \/ scene.kind[q] \notin Starts
                          \/ (Claiming(req[q], scene.kind[q]) /\ d = req[q].session)
      PROVE  A /\ B
  <2>1. req'[q] = [req[q] EXCEPT !.reply = s, !.session = d, !.pc = p,
                                 !.seen = NoEntry, !.prev = NoEntry]
    BY <1>4 DEF Answers, IInv, ReqTyped
  <2>2. req'[q].reply = s /\ req'[q].pc = p /\ req'[q].session = d  BY <1>1, <2>1 DEF Request
  <2>3. QED  BY <1>4, <2>2 DEF A, B, Claiming
<1>5. CASE Tell(q)
  <2>1. CASE scene.kind[q] \in Starts
    <3>1. \E s \in {"starting", "busy"} : Answers(q, s, None, "done")  BY <1>5, <2>1 DEF Tell, Starts
    <3>2. QED  BY <1>4, <3>1
  <2>2. CASE scene.kind[q] \notin Starts
    <3>1. \E s, d : Answers(q, s, d, "done")  BY <1>5, Zenon DEF Tell
    <3>2. QED  BY <1>4, <2>2, <3>1
  <2>3. QED  BY <2>1, <2>2
<1>6. CASE Token(q)
  <2>1. req[q].pc = "token"  BY <1>6 DEF Token, At_
  <2>2. \E p \in {"done", "release"} :
          \/ \E s \in {"active", "waiting"} : Answers(q, s, req[q].session, p)
          \/ Answers(q, "failed", None, p)
    BY <1>6 DEF Token
  <2>3. QED  BY <1>4, <2>1, <2>2 DEF Claiming
<1>7. CASE Stop(q)  BY <1>4, <1>7 DEF Stop
<1>8. CASE Undo(q)
  <2>1. \E s \in {"undone", "failed"} : Answers(q, s, None, "release")  BY <1>8, UndoShape
  <2>2. QED  BY <1>4, <2>1
<1>9. CASE Enter(q)
  <2>1. PICK p \in {"note", "claim", "release", "token"} : req' = [req EXCEPT ![q].seen = NoEntry, ![q].pc = p]
    BY <1>9 DEF Enter
  <2>2. req'[q] = [req[q] EXCEPT !.seen = NoEntry, !.pc = p]  BY <2>1 DEF IInv, ReqTyped
  <2>3. req'[q].pc = p  BY <1>1, <2>2 DEF Request
  <2>4. scene.kind[q] \notin Starts  BY <1>9 DEF Enter, Starts
  <2>5. QED  BY <1>2, <2>3, <2>4 DEF A, B
<1>10. CASE Claim(q) \/ ClaimFails(q)
  <2>1. /\ req'[q].pc \in {"get", "done"} /\ req'[q].reply \in {req[q].reply, "busy", "failed"}
        /\ req'[q].session = req[q].session
    <3>1. CASE Claim(q)
      <4>1. \/ req'[q] = [req[q] EXCEPT !.held = TRUE, !.pc = "get"]
            \/ req'[q] = [req[q] EXCEPT !.pc = "get"]
            \/ req'[q] = [req[q] EXCEPT !.reply = "busy", !.pc = "done"]
        BY <3>1 DEF Claim, IInv, ReqTyped
      <4>2. QED  BY <1>1, <4>1 DEF Request
    <3>2. CASE ClaimFails(q)
      <4>1. req'[q] = [req[q] EXCEPT !.reply = "failed", !.pc = "done"]
        BY <3>2 DEF ClaimFails, IInv, ReqTyped
      <4>2. QED  BY <1>1, <4>1 DEF Request
    <3>3. QED  BY <1>10, <3>1, <3>2
  <2>2. QED  BY <2>1 DEF A, B, Claiming
<1>11. CASE Release(q) \/ Crash(q)
  <2>1. /\ req'[q].reply = req[q].reply /\ req'[q].session = req[q].session
        /\ req'[q].pc \in {"token", "done", "dead"}
        /\ req'[q].pc = "token" => req[q].reply = "none" /\ req[q].pc = "release"
    <3>1. CASE Release(q)
      <4>1. req'[q] = [req[q] EXCEPT !.held = FALSE, !.pc = Finished(q)] /\ req[q].pc = "release"
        BY <3>1 DEF Release, At_, IInv, ReqTyped
      <4>2. QED  BY <1>1, <4>1 DEF Request, Finished
    <3>2. CASE Crash(q)
      <4>1. req'[q] = [req[q] EXCEPT !.pc = "dead"]  BY <3>2 DEF Crash, Goes, IInv, ReqTyped
      <4>2. QED  BY <1>1, <4>1 DEF Request
    <3>3. QED  BY <1>11, <3>1, <3>2
  <2>2. req'[q].pc = "token" => scene.kind[q] \notin Starts  BY <1>1, <2>1 DEF Made, Sound
  <2>3. QED  BY <2>1, <2>2 DEF A, B, Claiming
<1>12. CASE Reuse(q)
  <2>1. req'[q].pc \in {"note", "release", "token", "drop"}
    <3>1. CASE Goes(q, "note")
      <4>1. req'[q] = [req[q] EXCEPT !.pc = "note"]  BY <3>1 DEF Goes, IInv, ReqTyped
      <4>2. QED  BY <1>1, <4>1 DEF Request
    <3>2. ASSUME NEW s, NEW d, NEW p \in {"release", "token"}, Answers(q, s, d, p)
          PROVE  req'[q].pc = p
      <4>1. req'[q] = [req[q] EXCEPT !.reply = s, !.session = d, !.pc = p,
                                     !.seen = NoEntry, !.prev = NoEntry]
        BY <3>2 DEF Answers, IInv, ReqTyped
      <4>2. QED  BY <1>1, <4>1 DEF Request
    <3>3. CASE req' = [req EXCEPT ![q].pc = "drop", ![q].prev = req[q].seen]
      <4>1. req'[q] = [req[q] EXCEPT !.pc = "drop", !.prev = req[q].seen]
        BY <3>3 DEF IInv, ReqTyped
      <4>2. QED  BY <1>1, <4>1 DEF Request
    <3>4. \/ Goes(q, "note")
          \/ Answers(q, "deck", None, "release")
          \/ Answers(q, "none", req[q].seen.session, "token")
          \/ req' = [req EXCEPT ![q].pc = "drop", ![q].prev = req[q].seen]
      BY <1>12, Zenon DEF Reuse
    <3>5. QED  BY <3>1, <3>2, <3>3, <3>4
  <2>2. QED  BY <1>12, <2>1 DEF A, B
<1>13. CASE Note(q)
  <2>1. req[q].pc = "note" /\ req[q].made = None
    BY <1>1, <1>13, NoteShape DEF Made, Sound, Loads
  <2>2. req'[q].made = None /\ (scene.kind[q] \in Starts => req'[q].pc \in {"create", "undo"})
    <3>1. CASE IsStart(q)
      <4>1. PICK p \in {"create", "undo"} :
              req'[q] = [req[q] EXCEPT !.prev = req[q].seen, !.seen = NoEntry, !.pc = p]
        BY <1>13, <3>1, NoteShape DEF IInv, ReqTyped
      <4>2. QED  BY <1>1, <2>1, <4>1 DEF Request
    <3>2. CASE ~IsStart(q)
      <4>1. \/ req'[q] = [req[q] EXCEPT !.prev = NoEntry, !.seen = NoEntry, !.pc = "release"]
            \/ req'[q] = [req[q] EXCEPT !.reply = "failed", !.session = None, !.pc = "release",
                                        !.seen = NoEntry, !.prev = NoEntry]
        BY <1>13, <3>2, NoteShape DEF Answers, IInv, ReqTyped
      <4>2. req'[q].made = None  BY <1>1, <2>1, <4>1 DEF Request
      <4>3. QED  BY <3>2, <4>2 DEF IsStart, Starts
    <3>3. QED  BY <3>1, <3>2
  <2>3. QED  BY <1>2, <2>2 DEF A, B, Ends
<1>14. CASE Create(q)
  <2>1. req[q].pc = "create" /\ req[q].made = None
    BY <1>1, <1>14 DEF Create, At_, Made, Sound, Loads
  <2>2. /\ req'[q].pc \in {"activate", "undo"}
        /\ req'[q].made \in {None, created + 1}
    <3>1. \/ req'[q] = [req[q] EXCEPT !.made = created + 1, !.pc = "activate"]
          \/ req'[q] = [req[q] EXCEPT !.pc = "undo"]
      BY <1>14 DEF Create, Goes, IInv, ReqTyped
    <3>2. QED  BY <1>1, <2>1, <3>1 DEF Request
  <2>3. QED  BY <1>2, <1>14, <2>2 DEF A, B, Ends
<1>15. CASE Activate(q)
  <2>1. req[q].pc = "activate"  BY <1>15 DEF Activate, At_
  <2>2. req'[q].made = req[q].made
    <3>1. \/ req'[q] = [req[q] EXCEPT !.session = req[q].made, !.pc = "token"]
          \/ req'[q] = [req[q] EXCEPT !.pc = "undo"]
      BY <1>15 DEF Activate, Goes, IInv, ReqTyped
    <3>2. QED  BY <1>1, <3>1 DEF Request
  <2>3. QED  BY <1>15, <2>1, <2>2 DEF A, B
<1>16. QED
  BY <1>3, <1>5, <1>6, <1>7, <1>8, <1>9, <1>10, <1>11, <1>12, <1>13, <1>14, <1>15 DEF Step, Fails

LEMMA StepUnclaimed ==
    ASSUME IInv, MInv, MInv', Calm, NEW q \in Requests, Step(q) \/ Fails(q), scene' = scene,
           \A p \in Requests : Keeping(p), Unclaimed
    PROVE  Unclaimed'
<1> SUFFICES ASSUME NEW r \in Requests, NEW p \in Requests,
                    req'[r].pc \in {"activate", "undo"}, req'[r].made # None,
                    Claiming(req'[p], scene.kind[p]), req'[p].session = req'[r].made
             PROVE  FALSE
  BY DEF Unclaimed
<1>1. p # r
  <2>1. Sound(req'[r], scene.kind[r], created')  BY DEF MInv, Made
  <2>2. QED  BY <2>1 DEF Sound, Ends, Claiming
<1>2. Only(q)  BY StepSoft, FailsSoft
<1>3. CASE p = q
  <2>1. req'[r] = req[r]  BY <1>1, <1>2, <1>3 DEF Only
  <2>2. ~(Claiming(req[q], scene.kind[q]) /\ req'[q].session = req[q].session)
    BY <1>3, <2>1 DEF Unclaimed
  <2>3. Reuse(q) \/ Activate(q)  BY <1>3, <2>2, NewClaims
  <2>4. req[q].held /\ req[q].pc # "dead"
    BY <2>3 DEF Reuse, Activate, At_, MInv, Made, Sound, Writes
  <2>5. QED  BY <1>1, <1>3, <2>1, <2>4, AloneAtWork DEF Writes
<1>4. CASE p # q
  <2>1. req'[p] = req[p]  BY <1>2, <1>4 DEF Only
  <2>2. CASE r = q
    <3>1. \/ req[q].pc \in {"activate", "undo"} /\ req'[q].made = req[q].made
          \/ req'[q].made = created + 1
      BY <2>2, NewClaims
    <3>2. req[p].session # None => req[p].session \in 1..created  BY DEF MInv, Made, Sound
    <3>3. created \in Nat  BY ConstantsOK DEF IInv, RestTyped
    <3>4. QED  BY <2>1, <2>2, <3>1, <3>2, <3>3 DEF Unclaimed
  <2>3. CASE r # q
    <3>1. req'[r] = req[r]  BY <1>2, <2>3 DEF Only
    <3>2. QED  BY <2>1, <3>1 DEF Unclaimed
  <2>4. QED  BY <2>2, <2>3
<1>5. QED  BY <1>3, <1>4

\* What happens around the requests leads the entry nowhere else.
LEMMA AroundKeeps ==
    ASSUME IInv, MInv, Calm, Calm', Around \/ Lapse, scene' = scene,
           \A p \in Requests : Keeping(p), Unclaimed
    PROVE  (\A p \in Requests : Keeping(p)') /\ Unclaimed'
<1>1. req' = req /\ stopped' = stopped /\ Soft
  <2>1. CASE Around  BY <2>1, AroundSoft
  <2>2. CASE Lapse
    <3>1. \A q \in Requests : req'[q] = req[q]  BY <2>2, LapseSoft DEF Calm, Renewed
    <3>2. req' = req
      BY <2>2, <3>1, Zenon DEF Lapse, Mistake, Calm, Renewed
    <3>3. QED  BY <2>2, <3>2, LapseSoft
  <2>3. QED  BY <2>1, <2>2
<1>2. Mild({})
  <2>1. CASE entry' = entry  BY <2>1 DEF Mild, SameView
  <2>2. CASE Expire  BY <2>2 DEF Expire, Mild, Active
  <2>3. entry' = entry \/ Expire
    BY DEF Around, Lapse, Fill, Age, EndSession, vars, store
  <2>4. QED  BY <2>1, <2>2, <2>3
<1>3. Mild(stopped)  BY <1>2 DEF Mild
<1>4. \A p \in Requests : Keeping(p)'
  <2> TAKE p \in Requests
  <2>1. Cached(At[p])  BY <1>1, ConstantsOK DEF Soft
  <2>2. req'[p] = req[p] /\ stopped \subseteq stopped'  BY <1>1
  <2>3. QED  BY <1>2, <1>3, <2>1, <2>2, WaitKeeps
<1>5. Unclaimed'  BY <1>1 DEF Unclaimed
<1>6. QED  BY <1>4, <1>5

LEMMA NextHonoured == ASSUME IInv, MInv, HInv, [Next]_vars PROVE HInv'
<1> SUFFICES ASSUME Calm' PROVE (\A r \in Requests : Keeping(r)') /\ Unclaimed'
  BY DEF HInv
<1>1. Calm /\ scene' = scene /\ MInv'  BY CalmBefore, NextMade
<1>2. (\A r \in Requests : Keeping(r)) /\ Unclaimed  BY <1>1 DEF HInv
<1>3. ASSUME NEW q \in Requests, Step(q) \/ Fails(q)
      PROVE  (\A r \in Requests : Keeping(r)') /\ Unclaimed'
  <2>1. Keeping(q)'  BY <1>1, <1>2, <1>3, OwnKeeps
  <2>2. \A r \in Requests : r # q => Keeping(r)'  BY <1>1, <1>2, <1>3, OthersKeep
  <2>3. Unclaimed'  BY <1>1, <1>2, <1>3, StepUnclaimed
  <2>4. QED  BY <2>1, <2>2, <2>3
<1>4. CASE Around \/ Lapse  BY <1>1, <1>2, <1>4, AroundKeeps
<1>5. QED  BY <1>3, <1>4, Steps

LEMMA InitHonoured == ASSUME Init PROVE HInv
<1>1. req = [r \in Requests |-> NewRequest(scene.kind[r])]  BY DEF Init
<1>2. \A r \in Requests : /\ req[r].pc \in {"done", "claim", "get"} /\ ~req[r].lapsed
                          /\ req[r].reply = "none"
  BY <1>1 DEF NewRequest
<1>3. QED  BY <1>2 DEF HInv, Keeping, Keeps, Unclaimed, Claiming, Writes

\* While leases are renewed, reads succeed, one stop at most comes and no session is ended
\* behind Learn's back, the session a start was answered with is where the resource leads
\* until that session is stopped (learnIntegration.ts 640-800), however many instances,
\* requests and sessions there are, and whichever of them crash or fail to write.
THEOREM AnswersAreHonoured == Spec => []Honoured
<1>1. Init => IInv /\ MInv /\ HInv  BY InitInv, InitMade, InitHonoured
<1>2. IInv /\ MInv /\ HInv /\ [Next]_vars => IInv' /\ MInv' /\ HInv'
  BY NextInv, NextMade, NextHonoured
<1>3. IInv /\ HInv => Honoured
  <2> SUFFICES ASSUME HInv, Calm, NEW r \in Requests, Answered(r), ~Over(req[r].session)
               PROVE  entry # NoEntry /\ entry.session = req[r].session
    BY DEF Honoured, Calm
  <2>1. Claiming(req[r], scene.kind[r])  BY DEF Answered, IsStart, Claiming, Starts
  <2>2. req[r].session \in stopped \/ Leads(entry, req[r].session)
    BY <2>1 DEF HInv, Keeping, Keeps
  <2>3. QED  BY <2>2 DEF Over, Leads
<1>4. QED  BY <1>1, <1>2, <1>3, PTL DEF Spec
=============================================================================
