----------------------- MODULE EmbeddedReturn_proofs -----------------------
(***************************************************************************)
(* A student's return to the waiting room by itself, for any activities,   *)
(* students and children, any number of entries that leave the caches and  *)
(* of lost connections: it revokes the student everywhere or puts back     *)
(* what it wrote (ReturnsAreWhole).                                        *)
(*                                                                         *)
(* The return works on clones, so the cache agrees with Valkey but for the *)
(* child it is writing (Coherent), what it read is what was there, and so  *)
(* is what its touches read anew (Owning).  It passes over a child only if *)
(* the read failed, which takes an entry that left the cache, for its age  *)
(* or for a touch that failed, and a connection lost after that (KidsNow). *)
(* Every child whose write was answered is in its list of what to undo, as *)
(* it was; undoing fails only if a connection is lost again (Undoing).     *)
(***************************************************************************)
EXTENDS EmbeddedActivities_proofs

\* What the records are before, and what the return of call p makes of them.
Deck0(s)        == Began(s)
Child0(s, i)    == Stored(s)[i]
Runs0(s)        == Running(Deck0(s))
Copied(s, p)    == [Deck0(s) EXCEPT !.accepted = @ \ {s.student[p]}]
Deck1(s, p)     == [Copied(s, p) EXCEPT !.students = @ \ {s.student[p]}]
Child1(s, p, i) == [Child0(s, i) EXCEPT !.tokens = @ \ {s.student[p]}]

PriorSteps == {"idle", "open", "work", "replay", "child", "token"}    \* nothing has failed
Midway      == {"replay", "child", "token"}

\* Entries that left the caches for their age, and lost connections.
Mishaps == ages + losses

\* What the return, as c, has done to the records st, when ls connections were lost, after mis
\* mishaps in all; sent says that its command was not run yet.
Restored(c, st, l) == st[c.undo[l][1]] = c.undo[l][2]
Begun(c) ==
    /\ c.pc # "done" => c.reply = "none"
    /\ c.pc \in {"idle", "open", "work"} => c.kid = None /\ c.undo = <<>> /\ c.todo = {}
    /\ c.pc = "idle" => c.deck = None /\ c.cmd = "none"
    /\ c.pc \in {"work", "noted"} \cup Midway => c.deck # None
    /\ c.pc = "work" => c.cmd \in {"none", "reread"}
    /\ c.cmd = "reread" => c.pc \in {"work", "child"}
    /\ c.pc = "replay" => c.cmd = "none"
    /\ c.reply = "ok" => c.pc = "done"
Opening(s, c, sent) ==
    c.pc = "open" => \/ c.cmd = "none" /\ c.deck # None
                     \/ c.cmd = "get" /\ c.on = TheDeck /\ (sent \/ c.got \in {Deck0(s), Lost})
AtKids(s, p, c, st, sent, mis) ==
    /\ c.pc \in {"child", "token"} => <<c.key, c.id>> \in Runs0(s) \ c.todo
    /\ c.pc = "child" => /\ st[c.id] = Child0(s, c.id)
                         /\ \/ c.cmd \in {"none", "reread"} /\ c.kid # None
                            \/ /\ c.cmd = "get" /\ c.on = c.id /\ c.kid = None /\ mis > 0
                               /\ (sent \/ c.got = st[c.id] \/ (c.got = Lost /\ mis > 1))
    /\ c.pc = "token" => /\ c.cmd = "set" /\ c.on = c.id /\ c.kid # None /\ c.orig = Child0(s, c.id)
                         /\ IF sent THEN c.out = Child1(s, p, c.id) /\ st[c.id] = Child0(s, c.id)
                            ELSE c.got = Lost \/ st[c.id] = Child1(s, p, c.id)
DeckNow(s, p, c, st, sent) ==
    /\ c.pc \in PriorSteps => st[TheDeck] = Deck0(s)
    /\ c.pc = "noted" => /\ c.cmd = "set" /\ c.on = TheDeck
                         /\ IF sent THEN c.out = Deck1(s, p) ELSE c.got = Lost \/ st[TheDeck] = Deck1(s, p)
    /\ c.reply = "ok" => st[TheDeck] = Deck1(s, p)
KidsNow(s, p, c, st, ls, mis) ==
    /\ c.pc \in {"idle", "open", "work"} => \A r \in Runs0(s) : st[r[2]] = Child0(s, r[2])
    /\ c.pc \in Midway => c.todo \subseteq Runs0(s) /\ \A r \in c.todo : st[r[2]] = Child0(s, r[2])
    /\ c.pc \in Midway \cup {"noted"} \/ c.reply = "ok" =>
         \A r \in Runs0(s) : \/ c.pc \in Midway /\ r \in c.todo
                             \/ c.pc \in {"child", "token"} /\ r = <<c.key, c.id>>
                             \/ st[r[2]] = Child1(s, p, r[2])
                             \/ ls > 0 /\ mis > 1
Undoing(s, c, st, sent, ls) ==
    /\ \A l \in 1..Len(c.undo) : c.undo[l][2] = Child0(s, c.undo[l][1])
    /\ c.pc = "undo" =>
         /\ c.cmd = "set" /\ ls > 0 /\ c.left < Len(c.undo) /\ c.on = c.undo[c.left + 1][1]
         /\ sent => c.out = c.undo[c.left + 1][2]
         /\ ls <= 1 => \A l \in 1..Len(c.undo) :
                          l > c.left + 1 \/ (l = c.left + 1 /\ ~sent) => Restored(c, st, l)
    /\ c.reply = "failed" /\ ls <= 1 => \A l \in 1..Len(c.undo) : Restored(c, st, l)
    /\ c.got = Lost => ls > 0
Progress(s, p, c, st, sent, ls, mis) ==
    /\ Begun(c) /\ Opening(s, c, sent) /\ AtKids(s, p, c, st, sent, mis) /\ DeckNow(s, p, c, st, sent)
    /\ KidsNow(s, p, c, st, ls, mis) /\ Undoing(s, c, st, sent, ls)

\* The memory m of its instance: the cache agrees with Valkey, the return has its own objects.
Coherent(c, m, st, mis) ==
    /\ \A i \in Ids : m.slot[i] # None /\ (c.pc = "token" => i # c.id) => m.obj[m.slot[i]] = st[i]
    /\ mis = 0 => \A i \in Ids : st[i] # Gone => m.slot[i] # None
Recalls(s, p, c, m, st, mis) ==
    /\ \A k \in Keys : m.queue[k] = <<>>
    /\ c.pc \in PriorSteps => Coherent(c, m, st, mis)
    /\ c.pc = "work" \/ (c.pc = "open" /\ c.cmd = "none") => m.obj[c.deck] = Deck0(s)
    /\ c.pc \in Midway => m.obj[c.deck] = Copied(s, p)
    /\ c.pc = "child" /\ c.cmd \in {"none", "reread"} => m.obj[c.kid] = st[c.id]
    /\ c.pc = "token" => m.obj[c.kid] = Child1(s, p, c.id)
\* It may replace what the cache has of the records it reads, by what they are.
Owning(p, c, m, st, sent) ==
    c.pc \in PriorSteps =>
        /\ sent /\ c.cmd = "reread" => c.out \subseteq Ids
        /\ \A i \in Ids : m.owner[i] = p =>
              \/ c.cmd = "get" /\ c.on = i
              \/ c.cmd = "reread" /\ IF sent THEN i \in c.out ELSE c.got = Lost \/ c.got.anew[i] = st[i]
Tidy(c, m) == \A o \in Objects : m.obj[o] # None => o \in {m.slot[i] : i \in Ids} \cup {c.deck, c.kid}

\* Its command is in one part of the connection.
OnWire(p, c, w) ==
    IF c.pc \in {"idle", "done"} THEN w = Quiet
    ELSE \/ w = [Quiet EXCEPT !.ready = {p}]
         \/ c.cmd # "none" /\ (w = [Quiet EXCEPT !.sent = <<p>>] \/ w = [Quiet EXCEPT !.back = <<p>>])

Rows  == SUBSET (Keys \X Children)
Undos == Seq(Children \X Child)
Outs  == {None} \cup Values \cup SUBSET Ids
Gots  == {None, Gone, Lost} \cup Values \cup Batch
RetRec == [pc : PriorSteps \cup {"noted", "undo", "done"}, cmd : {"none", "get", "set", "reread"}, on : Ids,
           out : Outs, got : Gots,
           deck : Objects \cup {None}, kid : Objects \cup {None}, id : Children \cup {None},
           todo : Rows, undo : Undos, left : Nat, key : Keys \cup {None}, orig : {None} \cup Child,
           reply : {"none", "ok", "refused", "failed"}]
Sole(p) == Is(p, "return") /\ \A q \in Calls : q # p => Is(q, "none")
Clear(p) ==
    /\ scene \in Scenes /\ ages \in Nat /\ losses \in Nat
    /\ call \in [Calls -> RetRec] /\ mem \in [Nodes -> MemRec] /\ conn \in [Nodes -> ConnRec]
    /\ store \in [Ids -> Deck \cup Child \cup {Gone}] /\ store[TheDeck] \in Deck
    /\ \A i \in Children : IF i <= Cardinality(scene.running) THEN store[i] \in Child ELSE store[i] = Gone
    /\ \A q \in Calls : q # p => call[q].pc = "done" /\ call[q].reply = "none" /\ call[q].cmd = "none"
                                 /\ call[q].deck = None /\ call[q].kid = None
    /\ \A n \in Nodes : n # At[p] => conn[n] = Quiet
Returns(p) == /\ Clear(p)
              /\ Progress(scene, p, call[p], store, conn[At[p]].sent # <<>>, losses, Mishaps)
              /\ Owning(p, call[p], mem[At[p]], store, conn[At[p]].sent # <<>>)
              /\ Recalls(scene, p, call[p], mem[At[p]], store, Mishaps) /\ Tidy(call[p], mem[At[p]])
              /\ OnWire(p, call[p], conn[At[p]])

\* The inductive invariant.
RInv == \A p \in Calls : Sole(p) => Returns(p)

\* The activities of the deck and their children.
LEMMA RunsFacts ==
    ASSUME NEW s \in Scene
    PROVE  LET n == Cardinality(s.running) IN
           /\ n \in Nat /\ 1..n \subseteq Children
           /\ \A r \in Runs0(s) : /\ r \in Keys \X Children /\ r = <<r[1], r[2]>> /\ r[1] \in Keys
                                  /\ r[2] \in 1..n /\ r[2] \in Children /\ r[2] \in Ids /\ r[2] # TheDeck
                                  /\ Child0(s, r[2]) \in Child
           /\ \A r, q \in Runs0(s) : r[2] = q[2] => r = q
           /\ \A i \in 1..n : \E r \in Runs0(s) : r[2] = i
<1> DEFINE n == Cardinality(s.running)
           d == Began(s)
<1>1. /\ n \in 0..MaxChildren /\ First(s) \in [s.running -> 1..n]
      /\ \A j, k \in s.running : First(s)[j] = First(s)[k] => j = k
  BY FirstFacts
<1>2. /\ d \in Deck
      /\ \A k \in Keys : d.acts[k] # None => d.acts[k] \in 1..n
      /\ \A j, k \in Keys : d.acts[j] # None /\ d.acts[j] = d.acts[k] => j = k
  BY BeganFacts
<1>3. n \in Nat /\ 1..n \subseteq Children  BY <1>1, ConstantFacts DEF Children
<1>4. Runs0(s) = {<<k, d.acts[k]>> : k \in {j \in Keys : d.acts[j] # None}}  BY DEF Runs0, Deck0, Running
<1>5. \A i \in Children : i <= n => Stored(s)[i] \in Child  BY StoredFacts
<1>6. \A k \in s.running : d.acts[k] = First(s)[k]
  <2>1. s.running \subseteq Keys  BY DEF Scene
  <2>2. QED  BY <2>1 DEF Began
<1>7. \A i \in 1..n : \E k \in s.running : First(s)[k] = i
  <2> DEFINE S == s.running
             T == 1..n
             f == First(s)
  <2>1. IsFiniteSet(T) /\ Cardinality(T) = n
    <3>1. IF 1 > n THEN Cardinality(T) = 0 ELSE Cardinality(T) = n - 1 + 1
      BY <1>3, FS_Interval
    <3>2. IsFiniteSet(T)  BY <1>3, FS_Interval
    <3>3. n = 0 \/ ~(1 > n)  BY <1>3
    <3>4. QED  BY <1>3, <3>1, <3>2, <3>3
  <2>2. f \in Injection(S, T)  BY <1>1 DEF Injection, IsInjective
  <2>3. f \in Surjection(S, T)
    <3> HIDE DEF S, T, f
    <3>1. Cardinality(S) = Cardinality(T)  BY <2>1 DEF S
    <3>2. QED  BY <2>1, <2>2, <3>1, FS_Injection
  <2>4. QED  BY <2>3 DEF Surjection
<1> HIDE DEF n, d
<1>8. ASSUME NEW r \in Runs0(s)
      PROVE  /\ r \in Keys \X Children /\ r = <<r[1], r[2]>> /\ r[1] \in Keys
             /\ r[2] \in 1..n /\ r[2] \in Children /\ r[2] \in Ids /\ r[2] # TheDeck /\ Child0(s, r[2]) \in Child
             /\ r[2] = d.acts[r[1]] /\ d.acts[r[1]] # None
  <2>1. PICK k \in Keys : d.acts[k] # None /\ r = <<k, d.acts[k]>>  BY <1>4
  <2>2. d.acts[k] \in 1..n /\ d.acts[k] \in Children  BY <1>2, <1>3, <2>1
  <2>3. d.acts[k] <= n  BY <1>3, <2>2
  <2>4. QED  BY <1>5, <2>1, <2>2, <2>3, ConstantFacts DEF Child0
<1>9. \A r, q \in Runs0(s) : r[2] = q[2] => r = q
  <2>1. ASSUME NEW r \in Runs0(s), NEW q \in Runs0(s), r[2] = q[2] PROVE r = q
    <3>1. r[1] = q[1]  BY <1>2, <1>8, <2>1
    <3>2. QED  BY <1>8, <2>1, <3>1
  <2>2. QED  BY <2>1
<1>10. ASSUME NEW i \in 1..n PROVE \E r \in Runs0(s) : r[2] = i
  <2>1. PICK k \in s.running : First(s)[k] = i  BY <1>7
  <2>2. k \in Keys /\ d.acts[k] = i  BY <1>6, <2>1 DEF Scene
  <2>3. i # None  BY <1>3, ConstantFacts
  <2>4. <<k, i>> \in Runs0(s)  BY <1>4, <2>2, <2>3
  <2>5. QED  BY <2>4
<1>11. QED  BY <1>3, <1>8, <1>9, <1>10 DEF n

\* The records the return writes.
LEMMA RevokedFacts ==
    ASSUME NEW s \in Scene, NEW p \in Calls
    PROVE  /\ Deck0(s) \in Deck /\ Copied(s, p) \in Deck /\ Deck1(s, p) \in Deck
           /\ Running(Copied(s, p)) = Runs0(s)
           /\ s.student[p] \notin Deck1(s, p).students \cup Deck1(s, p).accepted
           /\ \A i : Child0(s, i) \in Child =>
                 Child1(s, p, i) \in Child /\ s.student[p] \notin Child1(s, p, i).tokens
<1>1. Deck0(s) \in Deck  BY BeganFacts DEF Deck0
<1>2. PICK x : x = s.student[p]  OBVIOUS
<1>3. PICK d \in Deck : d = Deck0(s)  BY <1>1
<1>4. PICK e : e = [d EXCEPT !.accepted = @ \ {x}]  OBVIOUS
<1>5. e \in Deck /\ e.acts = d.acts /\ x \notin e.accepted  BY <1>3, <1>4 DEF Deck
<1>6. PICK f : f = [e EXCEPT !.students = @ \ {x}]  OBVIOUS
<1>7. f \in Deck /\ f.accepted = e.accepted /\ x \notin f.students  BY <1>5, <1>6 DEF Deck
<1>8. Copied(s, p) = e /\ Deck1(s, p) = f  BY <1>2, <1>3, <1>4, <1>6 DEF Copied, Deck1
<1>9. Running(e) = Runs0(s)  BY <1>3, <1>5 DEF Running, Runs0
<1>10. ASSUME NEW i, Child0(s, i) \in Child
       PROVE  Child1(s, p, i) \in Child /\ x \notin Child1(s, p, i).tokens
  <2>1. PICK k \in Child : k = Child0(s, i)  BY <1>10
  <2>2. PICK l : l = [k EXCEPT !.tokens = @ \ {x}]  OBVIOUS
  <2>3. l \in Child /\ x \notin l.tokens  BY <2>1, <2>2 DEF Child
  <2>4. QED  BY <1>2, <2>1, <2>2, <2>3 DEF Child1
<1>11. QED  BY <1>1, <1>2, <1>5, <1>7, <1>8, <1>9, <1>10

-----------------------------------------------------------------------------
(* The call of a return, as its steps leave it                             *)

Asking(u, i, s)     == [u EXCEPT !.pc = s, !.cmd = "get", !.on = i]
Writing(u, i, d, s) == [u EXCEPT !.pc = s, !.cmd = "set", !.on = i, !.out = d]
Copying(u, o, t)    == [u EXCEPT !.deck = o, !.todo = t]
Reverting(u, d)     == [u EXCEPT !.undo = d, !.orig = None]
Touching(u, ids, s) == [u EXCEPT !.pc = s, !.cmd = "reread", !.out = ids]

ReturnSteps == PriorSteps \cup {"noted", "undo", "done"}

LEMMA RetGoing ==
    ASSUME NEW u \in RetRec, NEW s \in ReturnSteps, NEW c, c = Going(u, s)
    PROVE  /\ c \in RetRec
           /\ c.pc = s /\ c.cmd = "none" /\ c.on = u.on /\ c.out = u.out /\ c.got = u.got
           /\ c.deck = u.deck /\ c.kid = u.kid /\ c.id = u.id /\ c.todo = u.todo /\ c.undo = u.undo
           /\ c.left = u.left /\ c.key = u.key /\ c.orig = u.orig /\ c.reply = u.reply
<1>1. PICK v : v = [u EXCEPT !.pc = s]  OBVIOUS
<1>2. v \in RetRec  BY <1>1 DEF RetRec, ReturnSteps
<1>3. /\ v.pc = s /\ v.cmd = u.cmd /\ v.on = u.on /\ v.out = u.out /\ v.got = u.got
       /\ v.deck = u.deck /\ v.kid = u.kid /\ v.id = u.id /\ v.todo = u.todo /\ v.undo = u.undo
       /\ v.left = u.left /\ v.key = u.key /\ v.orig = u.orig /\ v.reply = u.reply
  BY <1>1, <1>2 DEF RetRec
<1>4. PICK w : w = [v EXCEPT !.cmd = "none"]  OBVIOUS
<1>5. w \in RetRec  BY <1>4, <1>2 DEF RetRec
<1>6. /\ w.pc = v.pc /\ w.cmd = "none" /\ w.on = v.on /\ w.out = v.out /\ w.got = v.got
       /\ w.deck = v.deck /\ w.kid = v.kid /\ w.id = v.id /\ w.todo = v.todo /\ w.undo = v.undo
       /\ w.left = v.left /\ w.key = v.key /\ w.orig = v.orig /\ w.reply = v.reply
  BY <1>4, <1>2, <1>5 DEF RetRec
<1>7. c = w  BY <1>1, <1>4, Zenon DEF Going
<1>8. QED  BY <1>1, <1>2, <1>3, <1>4, <1>5, <1>6, <1>7

LEMMA RetTouching ==
    ASSUME NEW u \in RetRec, NEW s \in ReturnSteps, NEW ids \in SUBSET Ids, NEW c, c = Touching(u, ids, s)
    PROVE  /\ c \in RetRec
           /\ c.pc = s /\ c.cmd = "reread" /\ c.on = u.on /\ c.out = ids /\ c.got = u.got
           /\ c.deck = u.deck /\ c.kid = u.kid /\ c.id = u.id /\ c.todo = u.todo /\ c.undo = u.undo
           /\ c.left = u.left /\ c.key = u.key /\ c.orig = u.orig /\ c.reply = u.reply
<1>1. PICK v : v = [u EXCEPT !.pc = s]  OBVIOUS
<1>2. v \in RetRec  BY <1>1 DEF RetRec, ReturnSteps
<1>3. /\ v.pc = s /\ v.cmd = u.cmd /\ v.on = u.on /\ v.out = u.out /\ v.got = u.got
       /\ v.deck = u.deck /\ v.kid = u.kid /\ v.id = u.id /\ v.todo = u.todo /\ v.undo = u.undo
       /\ v.left = u.left /\ v.key = u.key /\ v.orig = u.orig /\ v.reply = u.reply
  BY <1>1, <1>2 DEF RetRec
<1>4. PICK w : w = [v EXCEPT !.cmd = "reread"]  OBVIOUS
<1>5. w \in RetRec  BY <1>4, <1>2 DEF RetRec
<1>6. /\ w.pc = v.pc /\ w.cmd = "reread" /\ w.on = v.on /\ w.out = v.out /\ w.got = v.got
       /\ w.deck = v.deck /\ w.kid = v.kid /\ w.id = v.id /\ w.todo = v.todo /\ w.undo = v.undo
       /\ w.left = v.left /\ w.key = v.key /\ w.orig = v.orig /\ w.reply = v.reply
  BY <1>4, <1>2, <1>5 DEF RetRec
<1>7. PICK x : x = [w EXCEPT !.out = ids]  OBVIOUS
<1>8. x \in RetRec  BY <1>7, <1>5 DEF RetRec, Outs
<1>9. /\ x.pc = w.pc /\ x.cmd = w.cmd /\ x.on = w.on /\ x.out = ids /\ x.got = w.got
       /\ x.deck = w.deck /\ x.kid = w.kid /\ x.id = w.id /\ x.todo = w.todo /\ x.undo = w.undo
       /\ x.left = w.left /\ x.key = w.key /\ x.orig = w.orig /\ x.reply = w.reply
  BY <1>7, <1>5, <1>8 DEF RetRec
<1>10. c = x  BY <1>1, <1>4, <1>7, Zenon DEF Touching
<1>11. QED  BY <1>1, <1>2, <1>3, <1>4, <1>5, <1>6, <1>7, <1>8, <1>9, <1>10

LEMMA RetDecked ==
    ASSUME NEW u \in RetRec, NEW o \in Objects \cup {None}, NEW c, c = [u EXCEPT !.deck = o]
    PROVE  /\ c \in RetRec
           /\ c.pc = u.pc /\ c.cmd = u.cmd /\ c.on = u.on /\ c.out = u.out /\ c.got = u.got
           /\ c.deck = o /\ c.kid = u.kid /\ c.id = u.id /\ c.todo = u.todo /\ c.undo = u.undo
           /\ c.left = u.left /\ c.key = u.key /\ c.orig = u.orig /\ c.reply = u.reply
<1>1. PICK v : v = [u EXCEPT !.deck = o]  OBVIOUS
<1>2. v \in RetRec  BY <1>1 DEF RetRec
<1>3. /\ v.pc = u.pc /\ v.cmd = u.cmd /\ v.on = u.on /\ v.out = u.out /\ v.got = u.got
       /\ v.deck = o /\ v.kid = u.kid /\ v.id = u.id /\ v.todo = u.todo /\ v.undo = u.undo
       /\ v.left = u.left /\ v.key = u.key /\ v.orig = u.orig /\ v.reply = u.reply
  BY <1>1, <1>2 DEF RetRec
<1>4. c = v  BY <1>1, Zenon
<1>5. QED  BY <1>1, <1>2, <1>3, <1>4

LEMMA RetKidded ==
    ASSUME NEW u \in RetRec, NEW o \in Objects \cup {None}, NEW c, c = [u EXCEPT !.kid = o]
    PROVE  /\ c \in RetRec
           /\ c.pc = u.pc /\ c.cmd = u.cmd /\ c.on = u.on /\ c.out = u.out /\ c.got = u.got
           /\ c.deck = u.deck /\ c.kid = o /\ c.id = u.id /\ c.todo = u.todo /\ c.undo = u.undo
           /\ c.left = u.left /\ c.key = u.key /\ c.orig = u.orig /\ c.reply = u.reply
<1>1. PICK v : v = [u EXCEPT !.kid = o]  OBVIOUS
<1>2. v \in RetRec  BY <1>1 DEF RetRec
<1>3. /\ v.pc = u.pc /\ v.cmd = u.cmd /\ v.on = u.on /\ v.out = u.out /\ v.got = u.got
       /\ v.deck = u.deck /\ v.kid = o /\ v.id = u.id /\ v.todo = u.todo /\ v.undo = u.undo
       /\ v.left = u.left /\ v.key = u.key /\ v.orig = u.orig /\ v.reply = u.reply
  BY <1>1, <1>2 DEF RetRec
<1>4. c = v  BY <1>1, Zenon
<1>5. QED  BY <1>1, <1>2, <1>3, <1>4

LEMMA RetAsking ==
    ASSUME NEW u \in RetRec, NEW i \in Ids, NEW s \in ReturnSteps, NEW c, c = Asking(u, i, s)
    PROVE  /\ c \in RetRec
           /\ c.pc = s /\ c.cmd = "get" /\ c.on = i /\ c.out = u.out /\ c.got = u.got
           /\ c.deck = u.deck /\ c.kid = u.kid /\ c.id = u.id /\ c.todo = u.todo /\ c.undo = u.undo
           /\ c.left = u.left /\ c.key = u.key /\ c.orig = u.orig /\ c.reply = u.reply
<1>1. PICK v : v = [u EXCEPT !.pc = s]  OBVIOUS
<1>2. v \in RetRec  BY <1>1 DEF RetRec, ReturnSteps
<1>3. /\ v.pc = s /\ v.cmd = u.cmd /\ v.on = u.on /\ v.out = u.out /\ v.got = u.got
       /\ v.deck = u.deck /\ v.kid = u.kid /\ v.id = u.id /\ v.todo = u.todo /\ v.undo = u.undo
       /\ v.left = u.left /\ v.key = u.key /\ v.orig = u.orig /\ v.reply = u.reply
  BY <1>1, <1>2 DEF RetRec
<1>4. PICK w : w = [v EXCEPT !.cmd = "get"]  OBVIOUS
<1>5. w \in RetRec  BY <1>4, <1>2 DEF RetRec
<1>6. /\ w.pc = v.pc /\ w.cmd = "get" /\ w.on = v.on /\ w.out = v.out /\ w.got = v.got
       /\ w.deck = v.deck /\ w.kid = v.kid /\ w.id = v.id /\ w.todo = v.todo /\ w.undo = v.undo
       /\ w.left = v.left /\ w.key = v.key /\ w.orig = v.orig /\ w.reply = v.reply
  BY <1>4, <1>2, <1>5 DEF RetRec
<1>7. PICK x : x = [w EXCEPT !.on = i]  OBVIOUS
<1>8. x \in RetRec  BY <1>7, <1>5 DEF RetRec
<1>9. /\ x.pc = w.pc /\ x.cmd = w.cmd /\ x.on = i /\ x.out = w.out /\ x.got = w.got
       /\ x.deck = w.deck /\ x.kid = w.kid /\ x.id = w.id /\ x.todo = w.todo /\ x.undo = w.undo
       /\ x.left = w.left /\ x.key = w.key /\ x.orig = w.orig /\ x.reply = w.reply
  BY <1>7, <1>5, <1>8 DEF RetRec
<1>10. c = x  BY <1>1, <1>4, <1>7, Zenon DEF Asking
<1>11. QED  BY <1>1, <1>2, <1>3, <1>4, <1>5, <1>6, <1>7, <1>8, <1>9, <1>10

LEMMA RetWriting ==
    ASSUME NEW u \in RetRec, NEW i \in Ids, NEW d \in Values, NEW s \in ReturnSteps, NEW c, c = Writing(u, i, d, s)
    PROVE  /\ c \in RetRec
           /\ c.pc = s /\ c.cmd = "set" /\ c.on = i /\ c.out = d /\ c.got = u.got /\ c.deck = u.deck
           /\ c.kid = u.kid /\ c.id = u.id /\ c.todo = u.todo /\ c.undo = u.undo /\ c.left = u.left
           /\ c.key = u.key /\ c.orig = u.orig /\ c.reply = u.reply
<1>1. PICK v : v = [u EXCEPT !.pc = s]  OBVIOUS
<1>2. v \in RetRec  BY <1>1 DEF RetRec, ReturnSteps
<1>3. /\ v.pc = s /\ v.cmd = u.cmd /\ v.on = u.on /\ v.out = u.out /\ v.got = u.got
       /\ v.deck = u.deck /\ v.kid = u.kid /\ v.id = u.id /\ v.todo = u.todo /\ v.undo = u.undo
       /\ v.left = u.left /\ v.key = u.key /\ v.orig = u.orig /\ v.reply = u.reply
  BY <1>1, <1>2 DEF RetRec
<1>4. PICK w : w = [v EXCEPT !.cmd = "set"]  OBVIOUS
<1>5. w \in RetRec  BY <1>4, <1>2 DEF RetRec
<1>6. /\ w.pc = v.pc /\ w.cmd = "set" /\ w.on = v.on /\ w.out = v.out /\ w.got = v.got
       /\ w.deck = v.deck /\ w.kid = v.kid /\ w.id = v.id /\ w.todo = v.todo /\ w.undo = v.undo
       /\ w.left = v.left /\ w.key = v.key /\ w.orig = v.orig /\ w.reply = v.reply
  BY <1>4, <1>2, <1>5 DEF RetRec
<1>7. PICK x : x = [w EXCEPT !.on = i]  OBVIOUS
<1>8. x \in RetRec  BY <1>7, <1>5 DEF RetRec
<1>9. /\ x.pc = w.pc /\ x.cmd = w.cmd /\ x.on = i /\ x.out = w.out /\ x.got = w.got
       /\ x.deck = w.deck /\ x.kid = w.kid /\ x.id = w.id /\ x.todo = w.todo /\ x.undo = w.undo
       /\ x.left = w.left /\ x.key = w.key /\ x.orig = w.orig /\ x.reply = w.reply
  BY <1>7, <1>5, <1>8 DEF RetRec
<1>10. PICK y : y = [x EXCEPT !.out = d]  OBVIOUS
<1>11. y \in RetRec  BY <1>10, <1>8 DEF RetRec, Outs
<1>12. /\ y.pc = x.pc /\ y.cmd = x.cmd /\ y.on = x.on /\ y.out = d /\ y.got = x.got
        /\ y.deck = x.deck /\ y.kid = x.kid /\ y.id = x.id /\ y.todo = x.todo /\ y.undo = x.undo
        /\ y.left = x.left /\ y.key = x.key /\ y.orig = x.orig /\ y.reply = x.reply
  BY <1>10, <1>8, <1>11 DEF RetRec
<1>13. c = y  BY <1>1, <1>4, <1>7, <1>10, Zenon DEF Writing
<1>14. QED  BY <1>1, <1>2, <1>3, <1>4, <1>5, <1>6, <1>7, <1>8, <1>9, <1>10, <1>11, <1>12, <1>13

LEMMA RetListing ==
    ASSUME NEW u \in RetRec, NEW o \in Objects, NEW t \in Rows, NEW c, c = Copying(u, o, t)
    PROVE  /\ c \in RetRec
           /\ c.pc = u.pc /\ c.cmd = u.cmd /\ c.on = u.on /\ c.out = u.out /\ c.got = u.got
           /\ c.deck = o /\ c.kid = u.kid /\ c.id = u.id /\ c.todo = t /\ c.undo = u.undo
           /\ c.left = u.left /\ c.key = u.key /\ c.orig = u.orig /\ c.reply = u.reply
<1>1. PICK v : v = [u EXCEPT !.deck = o]  OBVIOUS
<1>2. v \in RetRec  BY <1>1 DEF RetRec
<1>3. /\ v.pc = u.pc /\ v.cmd = u.cmd /\ v.on = u.on /\ v.out = u.out /\ v.got = u.got
       /\ v.deck = o /\ v.kid = u.kid /\ v.id = u.id /\ v.todo = u.todo /\ v.undo = u.undo
       /\ v.left = u.left /\ v.key = u.key /\ v.orig = u.orig /\ v.reply = u.reply
  BY <1>1, <1>2 DEF RetRec
<1>4. PICK w : w = [v EXCEPT !.todo = t]  OBVIOUS
<1>5. w \in RetRec  BY <1>4, <1>2 DEF RetRec
<1>6. /\ w.pc = v.pc /\ w.cmd = v.cmd /\ w.on = v.on /\ w.out = v.out /\ w.got = v.got
       /\ w.deck = v.deck /\ w.kid = v.kid /\ w.id = v.id /\ w.todo = t /\ w.undo = v.undo
       /\ w.left = v.left /\ w.key = v.key /\ w.orig = v.orig /\ w.reply = v.reply
  BY <1>4, <1>2, <1>5 DEF RetRec
<1>7. c = w  BY <1>1, <1>4, Zenon DEF Copying
<1>8. QED  BY <1>1, <1>2, <1>3, <1>4, <1>5, <1>6, <1>7

LEMMA RetTaking ==
    ASSUME NEW u \in RetRec, NEW t \in Rows, NEW i \in Children, NEW k \in Keys, NEW c, c = Taking(u, t, i, k)
    PROVE  /\ c \in RetRec
           /\ c.pc = u.pc /\ c.cmd = u.cmd /\ c.on = u.on /\ c.out = u.out /\ c.got = u.got
           /\ c.deck = u.deck /\ c.kid = u.kid /\ c.id = i /\ c.todo = t /\ c.undo = u.undo
           /\ c.left = u.left /\ c.key = k /\ c.orig = u.orig /\ c.reply = u.reply
<1>1. PICK v : v = [u EXCEPT !.todo = t]  OBVIOUS
<1>2. v \in RetRec  BY <1>1 DEF RetRec
<1>3. /\ v.pc = u.pc /\ v.cmd = u.cmd /\ v.on = u.on /\ v.out = u.out /\ v.got = u.got
       /\ v.deck = u.deck /\ v.kid = u.kid /\ v.id = u.id /\ v.todo = t /\ v.undo = u.undo
       /\ v.left = u.left /\ v.key = u.key /\ v.orig = u.orig /\ v.reply = u.reply
  BY <1>1, <1>2 DEF RetRec
<1>4. PICK w : w = [v EXCEPT !.id = i]  OBVIOUS
<1>5. w \in RetRec  BY <1>4, <1>2 DEF RetRec
<1>6. /\ w.pc = v.pc /\ w.cmd = v.cmd /\ w.on = v.on /\ w.out = v.out /\ w.got = v.got
       /\ w.deck = v.deck /\ w.kid = v.kid /\ w.id = i /\ w.todo = v.todo /\ w.undo = v.undo
       /\ w.left = v.left /\ w.key = v.key /\ w.orig = v.orig /\ w.reply = v.reply
  BY <1>4, <1>2, <1>5 DEF RetRec
<1>7. PICK x : x = [w EXCEPT !.key = k]  OBVIOUS
<1>8. x \in RetRec  BY <1>7, <1>5 DEF RetRec
<1>9. /\ x.pc = w.pc /\ x.cmd = w.cmd /\ x.on = w.on /\ x.out = w.out /\ x.got = w.got
       /\ x.deck = w.deck /\ x.kid = w.kid /\ x.id = w.id /\ x.todo = w.todo /\ x.undo = w.undo
       /\ x.left = w.left /\ x.key = k /\ x.orig = w.orig /\ x.reply = w.reply
  BY <1>7, <1>5, <1>8 DEF RetRec
<1>10. c = x  BY <1>1, <1>4, <1>7, Zenon DEF Taking
<1>11. QED  BY <1>1, <1>2, <1>3, <1>4, <1>5, <1>6, <1>7, <1>8, <1>9, <1>10

LEMMA RetHanded ==
    ASSUME NEW u \in RetRec, NEW d \in Child, NEW c, c = [u EXCEPT !.orig = d]
    PROVE  /\ c \in RetRec
           /\ c.pc = u.pc /\ c.cmd = u.cmd /\ c.on = u.on /\ c.out = u.out /\ c.got = u.got
           /\ c.deck = u.deck /\ c.kid = u.kid /\ c.id = u.id /\ c.todo = u.todo /\ c.undo = u.undo
           /\ c.left = u.left /\ c.key = u.key /\ c.orig = d /\ c.reply = u.reply
<1>1. PICK v : v = [u EXCEPT !.orig = d]  OBVIOUS
<1>2. v \in RetRec  BY <1>1 DEF RetRec
<1>3. /\ v.pc = u.pc /\ v.cmd = u.cmd /\ v.on = u.on /\ v.out = u.out /\ v.got = u.got
       /\ v.deck = u.deck /\ v.kid = u.kid /\ v.id = u.id /\ v.todo = u.todo /\ v.undo = u.undo
       /\ v.left = u.left /\ v.key = u.key /\ v.orig = d /\ v.reply = u.reply
  BY <1>1, <1>2 DEF RetRec
<1>4. c = v  BY <1>1, Zenon
<1>5. QED  BY <1>1, <1>2, <1>3, <1>4

LEMMA RetNoting ==
    ASSUME NEW u \in RetRec, NEW d \in Undos, NEW c, c = Reverting(u, d)
    PROVE  /\ c \in RetRec
           /\ c.pc = u.pc /\ c.cmd = u.cmd /\ c.on = u.on /\ c.out = u.out /\ c.got = u.got
           /\ c.deck = u.deck /\ c.kid = u.kid /\ c.id = u.id /\ c.todo = u.todo /\ c.undo = d
           /\ c.left = u.left /\ c.key = u.key /\ c.orig = None /\ c.reply = u.reply
<1>1. PICK v : v = [u EXCEPT !.undo = d]  OBVIOUS
<1>2. v \in RetRec  BY <1>1 DEF RetRec
<1>3. /\ v.pc = u.pc /\ v.cmd = u.cmd /\ v.on = u.on /\ v.out = u.out /\ v.got = u.got
       /\ v.deck = u.deck /\ v.kid = u.kid /\ v.id = u.id /\ v.todo = u.todo /\ v.undo = d
       /\ v.left = u.left /\ v.key = u.key /\ v.orig = u.orig /\ v.reply = u.reply
  BY <1>1, <1>2 DEF RetRec
<1>4. PICK w : w = [v EXCEPT !.orig = None]  OBVIOUS
<1>5. w \in RetRec  BY <1>4, <1>2 DEF RetRec
<1>6. /\ w.pc = v.pc /\ w.cmd = v.cmd /\ w.on = v.on /\ w.out = v.out /\ w.got = v.got
       /\ w.deck = v.deck /\ w.kid = v.kid /\ w.id = v.id /\ w.todo = v.todo /\ w.undo = v.undo
       /\ w.left = v.left /\ w.key = v.key /\ w.orig = None /\ w.reply = v.reply
  BY <1>4, <1>2, <1>5 DEF RetRec
<1>7. c = w  BY <1>1, <1>4, Zenon DEF Reverting
<1>8. QED  BY <1>1, <1>2, <1>3, <1>4, <1>5, <1>6, <1>7

LEMMA RetLeaving ==
    ASSUME NEW u \in RetRec, NEW j \in Nat, NEW c, c = [u EXCEPT !.left = j]
    PROVE  /\ c \in RetRec
           /\ c.pc = u.pc /\ c.cmd = u.cmd /\ c.on = u.on /\ c.out = u.out /\ c.got = u.got
           /\ c.deck = u.deck /\ c.kid = u.kid /\ c.id = u.id /\ c.todo = u.todo /\ c.undo = u.undo
           /\ c.left = j /\ c.key = u.key /\ c.orig = u.orig /\ c.reply = u.reply
<1>1. PICK v : v = [u EXCEPT !.left = j]  OBVIOUS
<1>2. v \in RetRec  BY <1>1 DEF RetRec
<1>3. /\ v.pc = u.pc /\ v.cmd = u.cmd /\ v.on = u.on /\ v.out = u.out /\ v.got = u.got
       /\ v.deck = u.deck /\ v.kid = u.kid /\ v.id = u.id /\ v.todo = u.todo /\ v.undo = u.undo
       /\ v.left = j /\ v.key = u.key /\ v.orig = u.orig /\ v.reply = u.reply
  BY <1>1, <1>2 DEF RetRec
<1>4. c = v  BY <1>1, Zenon
<1>5. QED  BY <1>1, <1>2, <1>3, <1>4

\* The call is answered.
LEMMA RetAnswered ==
    ASSUME NEW u \in RetRec, NEW reply \in {"ok", "refused", "failed"}, NEW c, c = Answered(u, reply)
    PROVE  /\ c \in RetRec
           /\ c.pc = "done" /\ c.cmd = "none" /\ c.got = None /\ c.deck = None /\ c.kid = None
           /\ c.todo = {} /\ c.undo = u.undo /\ c.reply = reply
<1>1. TheDeck \in Ids /\ <<>> \in Undos /\ {} \in Rows  BY ConstantFacts DEF Undos, Rows
<1>2. /\ Calm \in RetRec
      /\ Calm.cmd = "none" /\ Calm.got = None /\ Calm.deck = None /\ Calm.kid = None /\ Calm.todo = {}
  BY <1>1 DEF Calm, RetRec, PriorSteps, Outs, Gots
<1>3. PICK v : v = [Calm EXCEPT !.pc = "done"]  OBVIOUS
<1>4. v \in RetRec  BY <1>2, <1>3 DEF RetRec
<1>5. PICK w : w = [v EXCEPT !.reply = reply]  OBVIOUS
<1>6. w \in RetRec  BY <1>4, <1>5 DEF RetRec
<1>7. PICK x : x = [w EXCEPT !.id = u.id]  OBVIOUS
<1>8. x \in RetRec  BY <1>6, <1>7 DEF RetRec
<1>9. PICK y : y = [x EXCEPT !.undo = u.undo]  OBVIOUS
<1>10. y \in RetRec  BY <1>8, <1>9 DEF RetRec
<1>11. c = y  BY <1>3, <1>5, <1>7, <1>9, Zenon DEF Answered
<1>12. /\ v.pc = "done" /\ v.cmd = "none" /\ v.got = None /\ v.deck = None /\ v.kid = None
       /\ v.todo = {}
  BY <1>2, <1>3, <1>4 DEF RetRec
<1>13. /\ w.pc = v.pc /\ w.cmd = v.cmd /\ w.got = v.got /\ w.deck = v.deck /\ w.kid = v.kid
       /\ w.todo = v.todo /\ w.reply = reply
  BY <1>4, <1>5, <1>6 DEF RetRec
<1>14. /\ x.pc = w.pc /\ x.cmd = w.cmd /\ x.got = w.got /\ x.deck = w.deck /\ x.kid = w.kid
       /\ x.todo = w.todo /\ x.reply = w.reply
  BY <1>6, <1>7, <1>8 DEF RetRec
<1>15. /\ y.pc = x.pc /\ y.cmd = x.cmd /\ y.got = x.got /\ y.deck = x.deck /\ y.kid = x.kid
       /\ y.todo = x.todo /\ y.reply = x.reply /\ y.undo = u.undo
  BY <1>8, <1>9, <1>10 DEF RetRec
<1>16. QED  BY <1>10, <1>11, <1>12, <1>13, <1>14, <1>15

LEMMA RetFields ==
    ASSUME NEW u \in RetRec
    PROVE  /\ u.pc \in ReturnSteps /\ u.cmd \in {"none", "get", "set", "reread"} /\ u.on \in Ids
           /\ u.out \in Outs /\ u.got \in Gots
           /\ u.deck \in Objects \cup {None} /\ u.kid \in Objects \cup {None}
           /\ u.id \in Children \cup {None} /\ u.todo \in Rows /\ u.undo \in Undos /\ u.left \in Nat
           /\ u.key \in Keys \cup {None} /\ u.orig \in {None} \cup Child
           /\ u.reply \in {"none", "ok", "refused", "failed"}
  BY DEF RetRec, ReturnSteps
-----------------------------------------------------------------------------
(* Memory has room                                                         *)

\* An instance with the objects of its cache and two more can make another.
LEMMA RoomLeft ==
    ASSUME NEW p \in Calls, NEW m \in MemRec, NEW f \in [Ids -> Objects \cup {None}], NEW a, NEW b,
           \A o \in Objects : m.obj[o] # None => o = a \/ o = b \/ \E i \in Ids : f[i] = o
    PROVE  Fresh(m) \in Objects /\ m.obj[Fresh(m)] = None
<1>1. /\ MaxChildren \in Nat /\ MaxObjects \in Nat /\ Objects = 1..MaxObjects /\ Ids = 0..MaxChildren
      /\ Cardinality(Calls) \in Nat /\ Cardinality(Calls) >= 1
  <2>1. MaxChildren \in Nat /\ MaxObjects \in Nat /\ IsFiniteSet(Calls)  BY ConstantsOK
  <2>2. Cardinality(Calls) \in Nat /\ Cardinality(Calls) # 0  BY <2>1, FS_CardinalityType, FS_EmptySet
  <2>3. Ids = 0..MaxChildren  BY <2>1 DEF Ids, TheDeck, Children
  <2>4. QED  BY <2>1, <2>2, <2>3 DEF Objects
<1>2. MaxObjects > MaxChildren + 3
  <2>1. MaxObjects > MaxChildren + 2 * Cardinality(Calls) + 1  BY RoomOK
  <2>2. QED  BY <1>1, <2>1
<1>3. \E o \in Objects : m.obj[o] = None
  <2>1. SUFFICES ASSUME \A o \in Objects : m.obj[o] # None PROVE FALSE
    OBVIOUS
  <2> DEFINE T == 0..(MaxChildren + 2)
             i(o) == CHOOSE j \in Ids : f[j] = o
             g == [o \in Objects |-> IF o = a THEN MaxChildren + 1
                                     ELSE IF o = b THEN MaxChildren + 2 ELSE i(o)]
  <2>2. IsFiniteSet(Objects) /\ Cardinality(Objects) = MaxObjects
        /\ IsFiniteSet(T) /\ Cardinality(T) = MaxChildren + 3
    BY <1>1, FS_Interval
  <2>3. \A o \in Objects : o # a /\ o # b => i(o) \in Ids /\ f[i(o)] = o  BY <2>1
  <2>4. \A o \in Objects : \/ o = a /\ g[o] = MaxChildren + 1
                           \/ o # a /\ o = b /\ g[o] = MaxChildren + 2
                           \/ o # a /\ o # b /\ g[o] \in 0..MaxChildren /\ f[g[o]] = o
    BY <1>1, <2>3
  <2> HIDE DEF g, i
  <2>5. \A o \in Objects : g[o] \in T  BY <1>1, <2>4
  <2>6. g \in [Objects -> T]  BY <2>5 DEF g
  <2> HIDE DEF T
  <2>7. PICK x \in Objects, y \in Objects : x # y /\ g[x] = g[y]
    BY <1>1, <1>2, <2>2, <2>6, FS_PigeonHole
  <2>8. x = y
    <3>1. MaxChildren + 1 \notin 0..MaxChildren /\ MaxChildren + 2 \notin 0..MaxChildren
          /\ MaxChildren + 1 # MaxChildren + 2
      BY <1>1
    <3>2. QED  BY <2>4, <2>7, <3>1
  <2>9. QED  BY <2>7, <2>8
<1> DEFINE F == {o \in Objects : m.obj[o] = None}
<1>4. PICK o \in F : \A q \in F : o <= q
  <2>1. F # {} /\ F \in SUBSET Nat  BY <1>1, <1>3
  <2> HIDE DEF F
  <2>2. QED  BY <2>1, Least
<1>5. \E q \in Objects : m.obj[q] = None /\ \A u \in Objects : m.obj[u] = None => q <= u
  BY <1>4
<1>6. QED  BY <1>5 DEF Fresh

-----------------------------------------------------------------------------
(* A step of the return                                                    *)

\* What a call of its own instance, and nobody else, refers to is kept.
LEMMA KeptIs ==
    ASSUME NEW p \in Calls, NEW m \in MemRec, NEW cs, NEW k, k = Kept(At[p], m, cs),
           \A q \in Calls : q # p => cs[q].deck = None /\ cs[q].kid = None
    PROVE  /\ k \in MemRec /\ k.slot = m.slot /\ k.owner = m.owner /\ k.queue = m.queue
           /\ Tidy(cs[p], k)
           /\ \A o \in Objects : o \in {m.slot[i] : i \in Ids} \cup {cs[p].deck, cs[p].kid} => k.obj[o] = m.obj[o]
<1> DEFINE used == {m.slot[i] : i \in Ids}
                     \cup UNION {{cs[q].deck, cs[q].kid} : q \in {q \in Calls : At[q] = At[p]}}
           b == [o \in Objects |-> IF o \in used THEN m.obj[o] ELSE None]
<1>1. k = [m EXCEPT !.obj = b]  BY DEF Kept
<1>2. m.obj \in [Objects -> Deck \cup Child \cup {None}]  BY MemFields
<1>3. b \in [Objects -> Deck \cup Child \cup {None}]  BY <1>2
<1>4. \A o \in Objects : o \in used <=> o \in {m.slot[i] : i \in Ids} \cup {cs[p].deck, cs[p].kid}
  <2>1. ASSUME NEW o \in Objects, NEW q \in Calls, o \in {cs[q].deck, cs[q].kid} PROVE q = p
    BY <2>1, ConstantFacts
  <2>2. QED  BY <2>1
<1>5. \A o \in Objects : b[o] = IF o \in used THEN m.obj[o] ELSE None  OBVIOUS
<1> HIDE DEF b, used
<1>6. k \in MemRec /\ k.slot = m.slot /\ k.owner = m.owner /\ k.queue = m.queue /\ k.obj = b
  BY <1>1, <1>3 DEF MemRec
<1>7. Tidy(cs[p], k)  BY <1>4, <1>5, <1>6 DEF Tidy
<1>8. QED  BY <1>4, <1>5, <1>6, <1>7

\* What the return relies on in the memory is what is kept.
LEMMA RecallsKept ==
    ASSUME NEW p, NEW s, NEW st, NEW sent, NEW ls, NEW mis, NEW c \in RetRec, NEW m \in MemRec, NEW k,
           Progress(s, p, c, st, sent, ls, mis), Recalls(s, p, c, m, st, mis),
           k.slot = m.slot, k.queue = m.queue,
           \A o \in Objects : o \in {m.slot[i] : i \in Ids} \cup {c.deck, c.kid} => k.obj[o] = m.obj[o]
    PROVE  Recalls(s, p, c, k, st, mis)
<1>1. Begun(c) /\ Opening(s, c, sent) /\ AtKids(s, p, c, st, sent, mis)  BY DEF Progress
<1>2. c.deck # None => k.obj[c.deck] = m.obj[c.deck]  BY RetFields
<1>3. c.kid # None => k.obj[c.kid] = m.obj[c.kid]  BY RetFields
<1>4. \A i \in Ids : m.slot[i] # None => k.obj[m.slot[i]] = m.obj[m.slot[i]]  BY MemFields
<1>5. c.pc \in PriorSteps => Coherent(c, k, st, mis)
  <2>1. c.pc \in PriorSteps => Coherent(c, m, st, mis)  BY DEF Recalls
  <2>2. QED  BY <1>4, <2>1 DEF Coherent
<1>6. c.pc \in {"work"} \cup Midway => c.deck # None  BY <1>1 DEF Begun
<1>7. c.pc = "open" /\ c.cmd = "none" => c.deck # None  BY <1>1 DEF Opening
<1>8. c.pc = "child" /\ c.cmd \in {"none", "reread"} => c.kid # None  BY <1>1 DEF AtKids
<1>9. c.pc = "token" => c.kid # None  BY <1>1 DEF AtKids
<1>10. QED  BY <1>2, <1>3, <1>5, <1>6, <1>7, <1>8, <1>9 DEF Recalls

LEMMA QuietIs ==
    /\ Quiet \in ConnRec /\ Quiet.sent = <<>> /\ Quiet.back = <<>> /\ Quiet.ready = {}
    /\ \A t, w : w = [Quiet EXCEPT !.sent = t] =>
          w.sent = t /\ w.back = <<>> /\ w.ready = {} /\ (t \in Seq(Calls) => w \in ConnRec)
    /\ \A t, w : w = [Quiet EXCEPT !.back = t] =>
          w.sent = <<>> /\ w.back = t /\ w.ready = {} /\ (t \in Seq(Calls) => w \in ConnRec)
    /\ \A t, w : w = [Quiet EXCEPT !.ready = t] =>
          w.sent = <<>> /\ w.back = <<>> /\ w.ready = t /\ (t \in SUBSET Calls => w \in ConnRec)
    /\ [Quiet EXCEPT !.ready = {}] = Quiet
<1>1. <<>> \in Seq(Calls) /\ {} \in SUBSET Calls  OBVIOUS
<1>2. Quiet \in ConnRec  BY <1>1 DEF Quiet, ConnRec
<1>3. ASSUME NEW t, NEW w, w = [Quiet EXCEPT !.sent = t]
      PROVE  w.sent = t /\ w.back = <<>> /\ w.ready = {} /\ (t \in Seq(Calls) => w \in ConnRec)
  <2>1. w = [sent |-> t, back |-> <<>>, ready |-> {}]  BY <1>3 DEF Quiet
  <2>2. QED  BY <1>1, <2>1 DEF ConnRec
<1>4. ASSUME NEW t, NEW w, w = [Quiet EXCEPT !.back = t]
      PROVE  w.sent = <<>> /\ w.back = t /\ w.ready = {} /\ (t \in Seq(Calls) => w \in ConnRec)
  <2>1. w = [sent |-> <<>>, back |-> t, ready |-> {}]  BY <1>4 DEF Quiet
  <2>2. QED  BY <1>1, <2>1 DEF ConnRec
<1>5. ASSUME NEW t, NEW w, w = [Quiet EXCEPT !.ready = t]
      PROVE  w.sent = <<>> /\ w.back = <<>> /\ w.ready = t /\ (t \in SUBSET Calls => w \in ConnRec)
  <2>1. w = [sent |-> <<>>, back |-> <<>>, ready |-> t]  BY <1>5 DEF Quiet
  <2>2. QED  BY <1>1, <2>1 DEF ConnRec
<1>6. [Quiet EXCEPT !.ready = {}] = Quiet  BY DEF Quiet
<1>7. Quiet.sent = <<>> /\ Quiet.back = <<>> /\ Quiet.ready = {}  BY DEF Quiet
<1>8. QED  BY <1>2, <1>3, <1>4, <1>5, <1>6, <1>7

\* The call that goes on leaves its connection with its next command, or with itself to go on.
Wakes(p, c) == IF c.cmd = "none" /\ c.pc # "done" THEN {p} ELSE {}
Turned(p, c, w) == [IF c.cmd = "none" THEN Resumed(w, p) ELSE Submit(Resumed(w, p), p)
                    EXCEPT !.ready = @ \cup Wakes(p, c)]
LEMMA WireAfter ==
    ASSUME NEW p \in Calls, NEW w, NEW u, NEW c, NEW v, c.pc # "idle", OnWire(p, u, w),
           u.pc = "idle" \/ p \in w.ready, c.pc = "done" => c.cmd = "none",
           v = Turned(p, c, w)
    PROVE  v \in ConnRec /\ OnWire(p, c, v) /\ (v.sent # <<>> <=> c.cmd # "none")
<1>1. <<p>> # <<>> /\ <<p>> \in Seq(Calls)  OBVIOUS
<1>2. w = Quiet \/ w = [Quiet EXCEPT !.ready = {p}]
  <2>1. w = [Quiet EXCEPT !.sent = <<p>>] \/ w = [Quiet EXCEPT !.back = <<p>>] => w.ready = {}
    BY QuietIs
  <2>2. QED  BY <2>1 DEF OnWire
<1>3. Resumed(w, p) = Quiet
  <2>1. Resumed(Quiet, p) = Quiet
    <3>1. Quiet.ready \ {p} = {}  BY QuietIs
    <3>2. QED  BY <3>1, QuietIs DEF Resumed
  <2>2. PICK x : x = [Quiet EXCEPT !.ready = {p}]  OBVIOUS
  <2>3. x = [sent |-> <<>>, back |-> <<>>, ready |-> {p}]  BY <2>2 DEF Quiet
  <2>4. Resumed(x, p) = Quiet
    <3>1. x.ready \ {p} = {}  BY <2>3
    <3>2. Resumed(x, p) = [x EXCEPT !.ready = {}]  BY <3>1 DEF Resumed
    <3>3. QED  BY <2>3, <3>2 DEF Quiet
  <2>5. QED  BY <1>2, <2>1, <2>2, <2>4
<1>4. CASE c.cmd = "none"
  <2>1. PICK t \in SUBSET Calls : t = Wakes(p, c) /\ t = IF c.pc = "done" THEN {} ELSE {p}
    BY <1>4 DEF Wakes
  <2>2. v = [Quiet EXCEPT !.ready = Quiet.ready \cup t]  BY <1>3, <1>4, <2>1 DEF Turned
  <2>3. Quiet.ready \cup t = t  BY QuietIs
  <2>0. v = [Quiet EXCEPT !.ready = t]  BY <2>2, <2>3
  <2>4. v.sent = <<>> /\ v \in ConnRec  BY <2>0, QuietIs
  <2>5. c.pc = "done" => v = Quiet  BY <2>0, <2>1, QuietIs
  <2>6. c.pc # "done" => v = [Quiet EXCEPT !.ready = {p}]  BY <2>0, <2>1
  <2>7. QED  BY <1>4, <2>4, <2>5, <2>6 DEF OnWire
<1>5. CASE c.cmd # "none"
  <2>1. Wakes(p, c) = {} /\ c.pc # "done"  BY <1>5 DEF Wakes
  <2>2. PICK t \in Seq(Calls) : t = <<p>>  BY <1>1
  <2>3. Append(<<>>, p) = t  BY <2>2
  <2>7. PICK x : x = Submit(Quiet, p)  OBVIOUS
  <2>8. x = [Quiet EXCEPT !.sent = t]  BY <2>3, <2>7, QuietIs DEF Submit
  <2>9. x = [sent |-> t, back |-> <<>>, ready |-> {}]  BY <2>8 DEF Quiet
  <2>10. x.ready \cup {} = {}  BY <2>9
  <2>11. v = [x EXCEPT !.ready = {}]  BY <1>3, <1>5, <2>1, <2>7, <2>10 DEF Turned
  <2>12. v = x  BY <2>9, <2>11
  <2>4. v = [Quiet EXCEPT !.sent = <<p>>]  BY <2>2, <2>8, <2>12
  <2>5. v.sent = <<p>> /\ v \in ConnRec  BY <2>2, <2>8, <2>12, QuietIs
  <2>6. QED  BY <1>1, <1>5, <2>1, <2>4, <2>5 DEF OnWire
<1>6. QED  BY <1>4, <1>5

LEMMA MishapsFacts ==
    ASSUME ages \in Nat, losses \in Nat
    PROVE  Mishaps \in Nat /\ (losses > 0 => Mishaps > 0) /\ (ages = 0 => Mishaps = losses)
  BY DEF Mishaps

\* What is known of the return when it goes on.
LEMMA ReturnFacts ==
    ASSUME NEW p \in Calls, Sole(p), Returns(p)
    PROVE  /\ At[p] \in Nodes /\ scene \in Scene /\ scene \in Scenes /\ call[p] \in RetRec /\ mem[At[p]] \in MemRec
           /\ conn[At[p]] \in ConnRec /\ M(p) = mem[At[p]] /\ C(p) = call[p] /\ Student(p) = scene.student[p]
           /\ Is(p, "return") /\ p \notin Sockets /\ \A k : Is(p, k) => k = "return"
           /\ (call[p].pc = "idle" \/ p \in conn[At[p]].ready =>
                  /\ conn[At[p]].sent = <<>> /\ Progress(scene, p, call[p], store, FALSE, losses, Mishaps)
                  /\ Owning(p, call[p], mem[At[p]], store, FALSE))
           /\ losses \in Nat /\ Mishaps \in Nat /\ (losses > 0 => Mishaps > 0)
           /\ store[TheDeck] \in Deck /\ Tidy(call[p], mem[At[p]]) /\ Recalls(scene, p, call[p], mem[At[p]], store, Mishaps)
<1>1. /\ At[p] \in Nodes /\ scene \in Scene /\ scene \in Scenes /\ call[p] \in RetRec /\ mem[At[p]] \in MemRec
      /\ conn[At[p]] \in ConnRec /\ store[TheDeck] \in Deck
  BY ConstantsOK DEF Returns, Clear
<1>2. Is(p, "return") /\ p \notin Sockets /\ \A k : Is(p, k) => k = "return"  BY DEF Sole, Is, Sockets
<1>3. ASSUME call[p].pc = "idle" \/ p \in conn[At[p]].ready PROVE conn[At[p]].sent = <<>>
  <2>1. OnWire(p, call[p], conn[At[p]])  BY DEF Returns
  <2>2. QED  BY <1>3, <2>1 DEF OnWire, Quiet
<1>4. losses \in Nat /\ Mishaps \in Nat /\ (losses > 0 => Mishaps > 0)
  BY MishapsFacts DEF Returns, Clear
<1>5. ASSUME conn[At[p]].sent = <<>>
      PROVE  /\ Progress(scene, p, call[p], store, FALSE, losses, Mishaps)
             /\ Owning(p, call[p], mem[At[p]], store, FALSE)
  <2>1. (conn[At[p]].sent # <<>>) = FALSE  BY <1>5
  <2>2. /\ Progress(scene, p, call[p], store, conn[At[p]].sent # <<>>, losses, Mishaps)
        /\ Owning(p, call[p], mem[At[p]], store, conn[At[p]].sent # <<>>)
    BY DEF Returns
  <2>3. QED  BY <2>1, <2>2
<1>6. QED  BY <1>1, <1>2, <1>3, <1>4, <1>5 DEF Returns, M, C, Student

\* A return whose touches were answered, and that reads no record, may fill no slot.
LEMMA Unowned ==
    ASSUME NEW p \in Calls, Sole(p), Returns(p), call[p].pc \in PriorSteps, call[p].cmd # "get",
           call[p].cmd = "reread" => Rereading(p) = {}
    PROVE  \A i \in Ids : mem[At[p]].owner[i] # p
<1>1. SUFFICES ASSUME NEW i \in Ids, mem[At[p]].owner[i] = p PROVE FALSE
  OBVIOUS
<1>2. call[p].cmd = "reread"  BY <1>1 DEF Returns, Owning
<1>3. i \in Rereading(p)  BY <1>1, <1>2 DEF Rereading, M, C
<1>4. QED  BY <1>2, <1>3

\* A memory in which it may fill none, or the one it reads.
LEMMA OwnsNothing ==
    ASSUME NEW p, NEW c, NEW m, NEW st, NEW sent, c.cmd # "reread",
           \A i \in Ids : m.owner[i] = p => c.cmd = "get" /\ c.on = i
    PROVE  Owning(p, c, m, st, sent)
  BY DEF Owning

\* The step keeps the invariant if the call and the memory it leaves agree with it.
LEMMA StepKept ==
    ASSUME NEW p \in Calls, Sole(p), Returns(p), call[p].pc = "idle" \/ p \in conn[At[p]].ready,
           NEW m \in MemRec, NEW c \in RetRec, Becomes(p, m, c, Wakes(p, c)), c.pc # "idle",
           Progress(scene, p, c, store, c.cmd # "none", losses, Mishaps),
           Recalls(scene, p, c, m, store, Mishaps), Owning(p, c, m, store, c.cmd # "none"),
           c.pc = "done" => c.cmd = "none"
    PROVE  Returns(p)'
<1> DEFINE n == At[p]
<1>1. /\ scene' = scene /\ store' = store /\ ages' = ages /\ losses' = losses
      /\ call' = [call EXCEPT ![p] = c] /\ mem' = [mem EXCEPT ![n] = Kept(n, m, call')]
  BY DEF Becomes
<1>2. Clear(p) /\ n \in Nodes  BY ReturnFacts DEF Returns
<1>3. call' \in [Calls -> RetRec] /\ call'[p] = c /\ \A q \in Calls : q # p => call'[q] = call[q]
  BY <1>1, <1>2 DEF Clear
<1>4. PICK k : k = Kept(n, m, call')  OBVIOUS
<1>5. \A q \in Calls : q # p => call'[q].deck = None /\ call'[q].kid = None  BY <1>2, <1>3 DEF Clear
<1>6. /\ k \in MemRec /\ k.slot = m.slot /\ k.owner = m.owner /\ k.queue = m.queue
      /\ Tidy(call'[p], k)
      /\ \A o \in Objects :
            o \in {m.slot[i] : i \in Ids} \cup {call'[p].deck, call'[p].kid} => k.obj[o] = m.obj[o]
  <2>1. PICK cs : cs = call'  OBVIOUS
  <2>2. k = Kept(At[p], m, cs) /\ \A q \in Calls : q # p => cs[q].deck = None /\ cs[q].kid = None
    BY <1>4, <1>5, <2>1
  <2>3. /\ k \in MemRec /\ k.slot = m.slot /\ k.owner = m.owner /\ k.queue = m.queue
        /\ Tidy(cs[p], k)
        /\ \A o \in Objects :
              o \in {m.slot[i] : i \in Ids} \cup {cs[p].deck, cs[p].kid} => k.obj[o] = m.obj[o]
    BY <2>2, KeptIs
  <2>4. QED  BY <2>1, <2>3
<1>7. Recalls(scene, p, c, k, store, Mishaps)  BY <1>3, <1>6, RecallsKept
<1>8. mem' \in [Nodes -> MemRec] /\ mem'[n] = k  BY <1>1, <1>2, <1>4, <1>6 DEF Clear
<1>9. PICK v : v = Turned(p, c, conn[n])  OBVIOUS
<1>10. v \in ConnRec /\ OnWire(p, c, v) /\ (v.sent # <<>> <=> c.cmd # "none")
  <2>1. PICK w : w = conn[n]  OBVIOUS
  <2>2. PICK u : u = call[p]  OBVIOUS
  <2>3. OnWire(p, u, w) /\ (u.pc = "idle" \/ p \in w.ready)  BY <2>1, <2>2 DEF Returns
  <2>4. v = Turned(p, c, w)  BY <1>9, <2>1
  <2>5. QED  BY <2>3, <2>4, WireAfter
<1>11. conn' = [conn EXCEPT ![n] = v]  BY <1>9 DEF Becomes, Turned
<1>12. conn' \in [Nodes -> ConnRec] /\ conn'[n] = v /\ \A u \in Nodes : u # n => conn'[u] = conn[u]
  BY <1>2, <1>10, <1>11 DEF Clear
<1>13. Clear(p)'
  <2>1. \A q \in Calls : q # p => call'[q].pc = "done" /\ call'[q].reply = "none" /\ call'[q].cmd = "none"
                                  /\ call'[q].deck = None /\ call'[q].kid = None
    BY <1>2, <1>3 DEF Clear
  <2>2. QED  BY <1>1, <1>2, <1>3, <1>8, <1>12, <2>1 DEF Clear
<1>14. Progress(scene, p, c, store, v.sent # <<>>, losses, Mishaps)  BY <1>10
<1>15. Owning(p, c, k, store, v.sent # <<>>)
  <2>1. (v.sent # <<>>) = (c.cmd # "none")  BY <1>10
  <2>2. Owning(p, c, k, store, c.cmd # "none")  BY <1>6 DEF Owning
  <2>3. QED  BY <2>1, <2>2
<1>16. Mishaps' = Mishaps  BY <1>1 DEF Mishaps
<1>17. QED  BY <1>1, <1>3, <1>6, <1>7, <1>8, <1>10, <1>12, <1>13, <1>14, <1>15, <1>16, Zenon DEF Returns

-----------------------------------------------------------------------------
(* What the return reads and how it is answered                            *)

LEMMA PublishedIs ==
    ASSUME NEW m \in MemRec, NEW i \in Ids, NEW o \in Objects \cup {None}, NEW p \in Calls,
           NEW x, x = Published(m, i, o, p)
    PROVE  /\ x \in MemRec /\ x.obj = m.obj /\ x.queue = m.queue
           /\ \A j \in Ids : x.slot[j] = m.slot[j] \/ (j = i /\ x.slot[j] = o)
           /\ \A j \in Ids : x.owner[j] = p => j # i /\ m.owner[j] = p
<1>1. CASE m.owner[i] = p
  <2> DEFINE s == [m.slot EXCEPT ![i] = o]
             w == [m.owner EXCEPT ![i] = None]
  <2>1. m.slot \in [Ids -> Objects \cup {None}] /\ m.owner \in [Ids -> Calls \cup {None}]  BY MemFields
  <2>2. s \in [Ids -> Objects \cup {None}] /\ w \in [Ids -> Calls \cup {None}]  BY <2>1
  <2>3. \A j \in Ids : s[j] = m.slot[j] \/ (j = i /\ s[j] = o)  BY <2>1
  <2>4. \A j \in Ids : w[j] = p => j # i /\ m.owner[j] = p
    <3>1. p # None  BY ConstantFacts
    <3>2. QED  BY <2>1, <3>1
  <2>5. x = [m EXCEPT !.slot = s, !.owner = w]  BY <1>1 DEF Published
  <2> HIDE DEF s, w
  <2>6. PICK y : y = [m EXCEPT !.slot = s]  OBVIOUS
  <2>7. y \in MemRec /\ y.obj = m.obj /\ y.queue = m.queue /\ y.slot = s  BY <2>2, <2>6 DEF MemRec
  <2>8. x = [y EXCEPT !.owner = w]  BY <2>5, <2>6, Zenon
  <2>9. /\ x \in MemRec /\ x.obj = y.obj /\ x.queue = y.queue /\ x.slot = y.slot /\ x.owner = w
    BY <2>2, <2>7, <2>8 DEF MemRec
  <2>10. QED  BY <2>3, <2>4, <2>7, <2>9
<1>2. CASE m.owner[i] # p  BY <1>2 DEF Published
<1>3. QED  BY <1>1, <1>2

\* The read of the deck, or of a child, gives the return an object with what is stored.
LEMMA LoadedIs ==
    ASSUME NEW p \in Calls, Sole(p), Returns(p), p \in conn[At[p]].ready, NEW i \in Ids,
           (call[p].pc = "open" /\ i = TheDeck) \/ (call[p].pc = "child" /\ i = call[p].id),
           NEW l, l = Loaded(p, i), NEW m, m = mem[At[p]]
    PROVE  /\ l.mem \in MemRec /\ l.mem.queue = m.queue
           /\ l.at = None => /\ call[p].cmd = "get" /\ losses > 0
                             /\ call[p].pc = "child" => Mishaps > 1
           /\ l.at # None => l.at \in Objects /\ l.mem.obj[l.at] = store[i]
           /\ (call[p].cmd = "reread" => Rereading(p) = {}) => \A j \in Ids : l.mem.owner[j] # p
           /\ Coherent(call[p], l.mem, store, Mishaps) \/ (call[p].pc = "open" /\ l.at = None)
           /\ \A o \in Objects : m.obj[o] # None => l.mem.obj[o] = m.obj[o]
           /\ \A o \in Objects : l.mem.obj[o] # None =>
                 o = call[p].deck \/ o = l.at \/ \E j \in Ids : m.slot[j] = o
<1> DEFINE u == call[p]
<1>1. /\ u \in RetRec /\ m \in MemRec /\ scene \in Scene /\ At[p] \in Nodes
      /\ Progress(scene, p, u, store, FALSE, losses, Mishaps) /\ Recalls(scene, p, u, m, store, Mishaps)
      /\ Tidy(u, m) /\ store[TheDeck] \in Deck /\ Owning(p, u, m, store, FALSE)
  BY ReturnFacts
<1>2. /\ u.pc \in PriorSteps /\ u.pc # "token" /\ u.pc \in {"open", "child"}  BY DEF PriorSteps
<1>3. Coherent(u, m, store, Mishaps)  BY <1>1, <1>2 DEF Recalls
<1>4. Begun(u) /\ Opening(scene, u, FALSE) /\ AtKids(scene, p, u, store, FALSE, Mishaps)
      /\ DeckNow(scene, p, u, store, FALSE) /\ Undoing(scene, u, store, FALSE, losses)
      /\ Mishaps \in Nat
  BY <1>1, ReturnFacts DEF Progress
<1>5. \A o \in Objects : m.obj[o] # None => o = u.deck \/ o = u.kid \/ \E j \in Ids : m.slot[j] = o
  BY <1>1 DEF Tidy
<1>6. u.pc = "open" => u.kid = None  BY <1>4 DEF Begun
<1>7. store[TheDeck] = Deck0(scene)  BY <1>2, <1>4 DEF DeckNow
<1>8. u.pc = "child" => /\ i \in Children /\ i # TheDeck
                        /\ store[i] = Child0(scene, i) /\ Child0(scene, i) \in Child
  <2>1. ASSUME u.pc = "child" PROVE <<u.key, u.id>> \in Runs0(scene) /\ store[i] = Child0(scene, i) /\ i = u.id
    BY <2>1, <1>4 DEF AtKids
  <2>2. ASSUME u.pc = "child" PROVE i \in Children /\ i # TheDeck /\ Child0(scene, i) \in Child
    <3>1. PICK r \in Runs0(scene) : r = <<u.key, u.id>>  BY <2>1, <2>2
    <3>2. r[2] = i  BY <2>1, <2>2, <3>1
    <3>3. QED  BY <1>1, <3>1, <3>2, RunsFacts
  <2>3. QED  BY <2>1, <2>2
<1>9. CASE u.cmd # "get"
  <2>1. l = [mem |-> m, at |-> Held(u, i)]  BY <1>9 DEF Loaded
  <2>2. l.mem = m /\ l.at = Held(u, i)  BY <2>1
  <2>6. (u.cmd = "reread" => Rereading(p) = {}) => \A j \in Ids : m.owner[j] # p
    BY <1>2, <1>9, Unowned
  <2>3. CASE u.pc = "open"
    <3>1. u.cmd = "none" /\ u.deck # None /\ Held(u, i) = u.deck  BY <1>4, <1>9, <2>3 DEF Opening, Held
    <3>2. m.obj[u.deck] = Deck0(scene) /\ u.deck \in Objects  BY <1>1, <2>3, <3>1, RetFields DEF Recalls
    <3>3. QED  BY <1>1, <1>3, <1>5, <1>6, <1>7, <2>2, <2>3, <2>6, <3>1, <3>2, ConstantFacts
  <2>4. CASE u.pc = "child"
    <3>1. u.cmd \in {"none", "reread"} /\ u.kid # None /\ Held(u, i) = u.kid
      BY <1>4, <1>8, <1>9, <2>4 DEF AtKids, Held
    <3>2. m.obj[u.kid] = store[i] /\ u.kid \in Objects  BY <1>1, <2>4, <3>1, RetFields DEF Recalls
    <3>3. QED  BY <1>1, <1>3, <1>5, <2>2, <2>4, <2>6, <3>1, <3>2
  <2>5. QED  BY <1>2, <2>3, <2>4
<1>10. CASE u.cmd = "get"
  <2>1. u.got \in {store[i], Lost}
    <3>1. CASE u.pc = "open"  BY <1>4, <1>7, <1>10, <3>1 DEF Opening
    <3>2. CASE u.pc = "child"  BY <1>4, <1>10, <3>2 DEF AtKids
    <3>3. QED  BY <1>2, <3>1, <3>2
  <2>2. store[i] \in Deck \cup Child /\ u.kid = None
    <3>1. u.pc = "child" => u.kid = None  BY <1>4, <1>10 DEF AtKids
    <3>2. QED  BY <1>1, <1>2, <1>6, <1>8, <3>1
  <2>3. u.got = Lost => losses > 0  BY <1>4 DEF Undoing
  <2>7. \A j \in Ids : m.owner[j] = p => j = i
    <3>1. u.on = i
      <4>1. CASE u.pc = "open"  BY <1>4, <1>10, <4>1 DEF Opening
      <4>2. CASE u.pc = "child"  BY <1>4, <1>10, <4>2 DEF AtKids
      <4>3. QED  BY <1>2, <4>1, <4>2
    <3>2. QED  BY <1>1, <1>2, <1>10, <3>1 DEF Owning
  <2>4. CASE u.got = Lost
    <3>1. l = [mem |-> Published(m, i, None, p), at |-> None]  BY <1>10, <2>4 DEF Loaded
    <3>2. PICK x : x = Published(m, i, None, p)  OBVIOUS
    <3>3. l.mem = x /\ l.at = None  BY <3>1, <3>2
    <3>4. /\ x \in MemRec /\ x.obj = m.obj /\ x.queue = m.queue
          /\ \A j \in Ids : x.slot[j] = m.slot[j] \/ (j = i /\ x.slot[j] = None)
          /\ \A j \in Ids : x.owner[j] = p => j # i /\ m.owner[j] = p
      <4>1. PICK o \in Objects \cup {None} : o = None  OBVIOUS
      <4>2. x = Published(m, i, o, p)  BY <3>2, <4>1
      <4>3. PICK v \in MemRec : v = m  BY <1>1
      <4>4. x = Published(v, i, o, p)  BY <4>2, <4>3
      <4>5. /\ x \in MemRec /\ x.obj = v.obj /\ x.queue = v.queue
            /\ \A j \in Ids : x.slot[j] = v.slot[j] \/ (j = i /\ x.slot[j] = o)
            /\ \A j \in Ids : x.owner[j] = p => j # i /\ v.owner[j] = p
        BY <4>4, PublishedIs
      <4>6. QED  BY <4>1, <4>3, <4>5
    <3>9. store[i] # Lost  BY <2>2, NothingOK
    <3>10. u.pc = "child" => Mishaps > 1  BY <1>4, <1>10, <2>4, <3>9 DEF AtKids
    <3>5. u.pc = "child" => Mishaps # 0  BY <1>4, <3>10
    <3>6. u.pc = "child" => Coherent(u, x, store, Mishaps)  BY <1>3, <3>4, <3>5 DEF Coherent
    <3>7. \A o \in Objects : m.obj[o] # None => o = u.deck \/ \E j \in Ids : m.slot[j] = o
      BY <1>5, <2>2, ConstantFacts
    <3>11. \A j \in Ids : x.owner[j] # p  BY <2>7, <3>4
    <3>8. QED  BY <1>2, <1>10, <2>3, <2>4, <3>3, <3>4, <3>6, <3>7, <3>10, <3>11
  <2>5. CASE u.got # Lost
    <3>1. u.got = store[i] /\ u.got \notin {Gone, Lost}  BY <2>1, <2>2, <2>5, ConstantFacts
    <3>2. PICK o : o = Fresh(m)  OBVIOUS
    <3>3. o \in Objects /\ m.obj[o] = None
      <4>1. PICK f \in [Ids -> Objects \cup {None}] : f = m.slot  BY <1>1, MemFields
      <4>2. PICK a, b : a = u.deck /\ b = u.kid  OBVIOUS
      <4>3. \A q \in Objects : m.obj[q] # None => q = a \/ q = b \/ \E j \in Ids : f[j] = q
        BY <1>5, <4>1, <4>2
      <4>4. m \in MemRec  BY <1>1
      <4>5. QED  BY <3>2, <4>3, <4>4, RoomLeft
    <3>4. PICK w : w = Put(m, o, store[i])  OBVIOUS
    <3>5. /\ w \in MemRec /\ w.slot = m.slot /\ w.queue = m.queue /\ w.owner = m.owner
          /\ w.obj[o] = store[i] /\ \A q \in Objects : q # o => w.obj[q] = m.obj[q]
      BY <1>1, <2>2, <3>3, <3>4, PutIs
    <3>6. PICK x : x = Published(w, i, o, p)  OBVIOUS
    <3>7. /\ x \in MemRec /\ x.obj = w.obj /\ x.queue = w.queue
          /\ \A j \in Ids : x.slot[j] = w.slot[j] \/ (j = i /\ x.slot[j] = o)
          /\ \A j \in Ids : x.owner[j] = p => j # i /\ w.owner[j] = p
      BY <3>3, <3>5, <3>6, PublishedIs
    <3>8. l.mem = x /\ l.at = o
      <4>1. l = [mem |-> Published(Put(m, Fresh(m), u.got), i, Fresh(m), p), at |-> Fresh(m)]
        BY <1>10, <3>1 DEF Loaded
      <4>2. l = [mem |-> x, at |-> o]  BY <3>1, <3>2, <3>4, <3>6, <4>1, Zenon
      <4>3. QED  BY <4>2
    <3>9. \A q \in Objects : m.obj[q] # None => x.obj[q] = m.obj[q]  BY <3>3, <3>5, <3>7
    <3>10. Coherent(u, x, store, Mishaps)
      <4>1. ASSUME NEW j \in Ids, x.slot[j] # None PROVE x.obj[x.slot[j]] = store[j]
        <5>1. CASE j = i /\ x.slot[j] = o  BY <3>5, <3>7, <5>1
        <5>2. CASE x.slot[j] = m.slot[j]
          <6>1. m.obj[m.slot[j]] = store[j] /\ m.slot[j] \in Objects
            BY <1>1, <1>2, <1>3, <4>1, <5>2, MemFields DEF Coherent
          <6>2. CASE m.slot[j] # o  BY <3>5, <3>7, <5>2, <6>1, <6>2
          <6>3. CASE m.slot[j] = o
            <7>1. store[j] = None  BY <3>3, <6>1, <6>3
            <7>2. store[j] \in Deck \cup Child \cup {Gone}  BY DEF Returns, Clear
            <7>3. QED  BY <7>1, <7>2, ConstantFacts
          <6>4. QED  BY <6>2, <6>3
        <5>3. QED  BY <3>5, <3>7, <5>1, <5>2
      <4>2. ASSUME Mishaps = 0, NEW j \in Ids, store[j] # Gone PROVE x.slot[j] # None
        BY <1>3, <3>3, <3>5, <3>7, <4>2, ConstantFacts DEF Coherent
      <4>3. QED  BY <4>1, <4>2 DEF Coherent
    <3>11. \A q \in Objects : x.obj[q] # None =>
              q = u.deck \/ q = o \/ \E j \in Ids : m.slot[j] = q
      BY <1>5, <2>2, <3>5, <3>7, ConstantFacts
    <3>13. \A j \in Ids : x.owner[j] # p  BY <2>7, <3>5, <3>7
    <3>12. QED  BY <3>3, <3>5, <3>7, <3>8, <3>9, <3>10, <3>11, <3>13, ConstantFacts
  <2>6. QED  BY <2>4, <2>5
<1>11. QED  BY <1>9, <1>10

\* The return is answered.
LEMMA RetAnswers ==
    ASSUME NEW p \in Calls, Sole(p), Returns(p), p \in conn[At[p]].ready,
           NEW m \in MemRec, m.queue = mem[At[p]].queue, NEW reply \in {"ok", "refused", "failed"},
           Answers(p, m, reply),
           reply = "ok" => /\ store[TheDeck] = Deck1(scene, p)
                           /\ \A r \in Runs0(scene) : \/ store[r[2]] = Child1(scene, p, r[2])
                                                      \/ losses > 0 /\ Mishaps > 1,
           reply = "failed" /\ losses <= 1 => \A l \in 1..Len(call[p].undo) : Restored(call[p], store, l)
    PROVE  Returns(p)'
<1> DEFINE u == call[p]
<1>1. /\ u \in RetRec /\ scene \in Scene /\ Progress(scene, p, u, store, FALSE, losses, Mishaps)
      /\ Recalls(scene, p, u, mem[At[p]], store, Mishaps)
  BY ReturnFacts
<1>2. Key(p) \in Keys /\ m.queue[Key(p)] = <<>> /\ \A k \in Keys : m.queue[k] = <<>>
  BY <1>1 DEF Recalls, Key, Scene
<1>3. PICK c : c = Answered(u, reply)  OBVIOUS
<1>4. /\ c \in RetRec /\ c.pc = "done" /\ c.cmd = "none" /\ c.got = None /\ c.deck = None /\ c.kid = None
      /\ c.todo = {} /\ c.undo = u.undo /\ c.reply = reply
  BY <1>1, <1>3, RetAnswered
<1>5. Unlocked(p, m, reply) = m
  <2>1. {m.queue[Key(p)][j] : j \in 1..Len(m.queue[Key(p)])} = {}  BY <1>2
  <2>2. QED  BY <2>1 DEF Unlocked
<1>6. Becomes(p, m, c, Wakes(p, c))
  <2>1. Becomes(p, m, [Calm EXCEPT !.pc = "done", !.reply = reply, !.id = call[p].id, !.undo = call[p].undo], {})
    BY <1>5 DEF Answers
  <2>2. Wakes(p, c) = {}  BY <1>4 DEF Wakes
  <2>3. QED  BY <1>3, <2>1, <2>2 DEF Answered
<1>7. Progress(scene, p, c, store, c.cmd # "none", losses, Mishaps)
  <2>1. Begun(c)  BY <1>4 DEF Begun, Midway
  <2>2. Opening(scene, c, FALSE)  BY <1>4 DEF Opening
  <2>3. AtKids(scene, p, c, store, FALSE, Mishaps)  BY <1>4 DEF AtKids
  <2>4. DeckNow(scene, p, c, store, FALSE)  BY <1>4 DEF DeckNow, PriorSteps
  <2>5. KidsNow(scene, p, c, store, losses, Mishaps)  BY <1>4 DEF KidsNow, Midway
  <2>6. Undoing(scene, c, store, FALSE, losses)
    <3>1. \A l \in 1..Len(u.undo) : u.undo[l][2] = Child0(scene, u.undo[l][1])  BY <1>1 DEF Progress, Undoing
    <3>2. \A l : Restored(c, store, l) <=> Restored(u, store, l)  BY <1>4 DEF Restored
    <3>3. c.got # Lost  BY <1>4, ConstantFacts
    <3>4. QED  BY <1>4, <3>1, <3>2, <3>3 DEF Undoing
  <2>7. (c.cmd # "none") = FALSE  BY <1>4
  <2>8. QED  BY <2>1, <2>2, <2>3, <2>4, <2>5, <2>6, <2>7 DEF Progress
<1>8. Recalls(scene, p, c, m, store, Mishaps)  BY <1>2, <1>4 DEF Recalls, PriorSteps, Midway
<1>9. Owning(p, c, m, store, c.cmd # "none")  BY <1>4 DEF Owning, PriorSteps
<1>10. QED  BY <1>4, <1>6, <1>7, <1>8, <1>9, StepKept

-----------------------------------------------------------------------------
(* The return until it has its clone of the record                         *)

\* What the cache shows is still there when objects were added.
LEMMA CoherentKept ==
    ASSUME NEW u, NEW c, NEW m \in MemRec, NEW w, NEW st, NEW mis, Coherent(u, m, st, mis), u.pc # "token",
           w.slot = m.slot, \A i \in Ids : st[i] # None,
           \A q \in Objects : m.obj[q] # None => w.obj[q] = m.obj[q]
    PROVE  Coherent(c, w, st, mis)
<1>1. ASSUME NEW i \in Ids, w.slot[i] # None PROVE w.obj[w.slot[i]] = st[i]
  <2>1. m.slot[i] \in Objects /\ m.obj[m.slot[i]] = st[i]  BY <1>1, MemFields DEF Coherent
  <2>2. QED  BY <2>1
<1>2. QED  BY <1>1 DEF Coherent

LEMMA EarlyProgress ==
    ASSUME NEW p, NEW s, NEW st, NEW sent, NEW ls, NEW mis, NEW c \in RetRec, c.pc \in {"open", "work"},
           c.kid = None, c.undo = <<>>, c.todo = {}, c.reply = "none", c.got = Lost => ls > 0,
           c.pc = "work" => c.deck # None /\ c.cmd \in {"none", "reread"}, Opening(s, c, sent),
           st[TheDeck] = Deck0(s), \A r \in Runs0(s) : st[r[2]] = Child0(s, r[2])
    PROVE  Progress(s, p, c, st, sent, ls, mis)
<1>1. Begun(c)  BY DEF Begun, Midway, Opening
<1>2. AtKids(s, p, c, st, sent, mis)  BY DEF AtKids
<1>3. DeckNow(s, p, c, st, sent)  BY DEF DeckNow
<1>4. KidsNow(s, p, c, st, ls, mis)  BY DEF KidsNow, Midway
<1>5. Undoing(s, c, st, sent, ls)
  <2>1. Len(c.undo) = 0  OBVIOUS
  <2>2. \A l \in 1..Len(c.undo) : FALSE  BY <2>1
  <2>3. QED  BY <2>2 DEF Undoing
<1>6. QED  BY <1>1, <1>2, <1>3, <1>4, <1>5 DEF Progress

\* What is known before the clone is made.
LEMMA EarlyFacts ==
    ASSUME NEW p \in Calls, Sole(p), Returns(p), call[p].pc \in {"idle", "open", "work"}
    PROVE  /\ call[p].kid = None /\ call[p].undo = <<>> /\ call[p].todo = {} /\ call[p].reply = "none"
           /\ (call[p].got = Lost => losses > 0) /\ store[TheDeck] = Deck0(scene)
           /\ \A r \in Runs0(scene) : store[r[2]] = Child0(scene, r[2])
           /\ Coherent(call[p], mem[At[p]], store, Mishaps) /\ \A i \in Ids : store[i] # None
<1>1. /\ Progress(scene, p, call[p], store, conn[At[p]].sent # <<>>, losses, Mishaps) /\ Clear(p)
      /\ Recalls(scene, p, call[p], mem[At[p]], store, Mishaps)
  BY DEF Returns
<1>2. \A i \in Ids : store[i] # None
  <2>1. \A i \in Ids : store[i] \in Deck \cup Child \cup {Gone}  BY <1>1 DEF Clear
  <2>2. QED  BY <2>1, ConstantFacts
<1>3. call[p].pc \in PriorSteps  BY DEF PriorSteps
<1>4. QED  BY <1>1, <1>2, <1>3 DEF Progress, Begun, DeckNow, KidsNow, Undoing, Recalls

LEMMA HoldsIs ==
    ASSUME NEW u, NEW i, NEW o
    PROVE  Holds(u, i, o) = IF i = TheDeck THEN [u EXCEPT !.deck = o] ELSE [u EXCEPT !.kid = o]
  BY DEF Holds

\* The memory in which the call may fill the slot.
LEMMA OwnedIs ==
    ASSUME NEW p \in Calls, NEW m \in MemRec, NEW i \in Ids, NEW w, w = Owned(m, i, p)
    PROVE  /\ w \in MemRec /\ w.slot = m.slot /\ w.obj = m.obj /\ w.queue = m.queue
           /\ \A j \in Ids : w.owner[j] = p => j = i \/ m.owner[j] = p
<1> DEFINE s == [m.owner EXCEPT ![i] = p]
<1>0. m.owner \in [Ids -> Calls \cup {None}]  BY MemFields
<1>1. s \in [Ids -> Calls \cup {None}] /\ \A j \in Ids : s[j] = p => j = i \/ m.owner[j] = p  BY <1>0
<1>2. w = [m EXCEPT !.owner = s]  BY DEF Owned
<1> HIDE DEF s
<1>3. QED  BY <1>1, <1>2 DEF MemRec

\* The memory in which the call may fill several.
Claimed(m, ids, p) == [m EXCEPT !.owner = [i \in Ids |-> IF i \in ids THEN p ELSE @[i]]]
LEMMA ClaimedIs ==
    ASSUME NEW p \in Calls, NEW m \in MemRec, NEW ids, NEW w, w = Claimed(m, ids, p)
    PROVE  /\ w \in MemRec /\ w.slot = m.slot /\ w.obj = m.obj /\ w.queue = m.queue
           /\ \A j \in Ids : w.owner[j] = p => j \in ids \/ m.owner[j] = p
<1> DEFINE s == [i \in Ids |-> IF i \in ids THEN p ELSE m.owner[i]]
<1>1. m.owner \in [Ids -> Calls \cup {None}]  BY MemFields
<1>2. s \in [Ids -> Calls \cup {None}] /\ \A j \in Ids : s[j] = p => j \in ids \/ m.owner[j] = p
  BY <1>1
<1>3. w = [m EXCEPT !.owner = s]  BY DEF Claimed
<1> HIDE DEF s
<1>4. QED  BY <1>2, <1>3 DEF MemRec

\* get() by the return: the object in the cache, or a command to Valkey.
LEMMA RetGets ==
    ASSUME NEW p \in Calls, NEW m \in MemRec, NEW u \in RetRec, NEW i \in Ids, NEW step \in ReturnSteps,
           step # "done", Get(p, m, u, i, step)
    PROVE  \E c \in RetRec : \E w \in MemRec :
               /\ Becomes(p, w, c, Wakes(p, c)) /\ w.slot = m.slot /\ w.obj = m.obj /\ w.queue = m.queue
               /\ \A j \in Ids : w.owner[j] = p => (c.cmd = "get" /\ c.on = j) \/ m.owner[j] = p
               /\ c.pc = step /\ c.got = u.got /\ c.id = u.id /\ c.todo = u.todo /\ c.undo = u.undo
               /\ c.left = u.left /\ c.key = u.key /\ c.orig = u.orig /\ c.reply = u.reply
               /\ IF m.slot[i] # None THEN c.cmd = "none" ELSE c.cmd = "get" /\ c.on = i
               /\ IF i = TheDeck THEN c.deck = m.slot[i] /\ c.kid = u.kid
                  ELSE c.kid = m.slot[i] /\ c.deck = u.deck
<1>1. PICK o \in Objects \cup {None} : o = m.slot[i]  BY MemFields
<1>2. PICK v : v = Holds(u, i, o)  OBVIOUS
<1>3. /\ v \in RetRec
      /\ v.pc = u.pc /\ v.cmd = u.cmd /\ v.on = u.on /\ v.out = u.out /\ v.got = u.got
      /\ v.id = u.id /\ v.todo = u.todo /\ v.undo = u.undo
      /\ v.left = u.left /\ v.key = u.key /\ v.orig = u.orig /\ v.reply = u.reply
      /\ IF i = TheDeck THEN v.deck = o /\ v.kid = u.kid ELSE v.kid = o /\ v.deck = u.deck
  <2>1. CASE i = TheDeck
    <3>1. v = [u EXCEPT !.deck = o]  BY <1>2, <2>1, HoldsIs
    <3>2. QED  BY <2>1, <3>1, RetDecked
  <2>2. CASE i # TheDeck
    <3>1. v = [u EXCEPT !.kid = o]  BY <1>2, <2>2, HoldsIs
    <3>2. QED  BY <2>2, <3>1, RetKidded
  <2>3. QED  BY <2>1, <2>2
<1>4. \/ m.slot[i] # None /\ Becomes(p, m, Going(Holds(u, i, m.slot[i]), step), {p})
      \/ m.slot[i] = None /\ Becomes(p, Owned(m, i, p), Fetching(u, i, step), {})
  BY GetIs, Zenon
<1>5. CASE o # None
  <2>1. PICK c : c = Going(v, step)  OBVIOUS
  <2>2. /\ c \in RetRec
        /\ c.pc = step /\ c.cmd = "none" /\ c.got = v.got
        /\ c.deck = v.deck /\ c.kid = v.kid /\ c.id = v.id /\ c.todo = v.todo /\ c.undo = v.undo
        /\ c.left = v.left /\ c.key = v.key /\ c.orig = v.orig /\ c.reply = v.reply
    BY <1>3, <2>1, RetGoing
  <2>3. Becomes(p, m, c, {p})  BY <1>1, <1>2, <1>4, <1>5, <2>1, Zenon
  <2>4. Wakes(p, c) = {p}  BY <2>2 DEF Wakes
  <2>5. Becomes(p, m, c, Wakes(p, c))  BY <2>3, <2>4
  <2>6. QED  BY <1>1, <1>3, <1>5, <2>2, <2>5
<1>6. CASE o = None
  <2>1. PICK c : c = Asking(v, i, step)  OBVIOUS
  <2>0. v \in RetRec  BY <1>3
  <2>2. /\ c \in RetRec
        /\ c.pc = step /\ c.cmd = "get" /\ c.on = i /\ c.got = v.got
        /\ c.deck = v.deck /\ c.kid = v.kid /\ c.id = v.id /\ c.todo = v.todo /\ c.undo = v.undo
        /\ c.left = v.left /\ c.key = v.key /\ c.orig = v.orig /\ c.reply = v.reply
    BY <2>0, <2>1, RetAsking
  <2>3. PICK w : w = Owned(m, i, p)  OBVIOUS
  <2>4. /\ w \in MemRec /\ w.slot = m.slot /\ w.obj = m.obj /\ w.queue = m.queue
        /\ \A j \in Ids : w.owner[j] = p => j = i \/ m.owner[j] = p
    BY <2>3, OwnedIs
  <2>5. c = Fetching(u, i, step)  BY <1>2, <1>6, <2>1, Zenon DEF Fetching, Asking
  <2>6. Becomes(p, w, c, {})  BY <1>1, <1>4, <1>6, <2>3, <2>5, Zenon
  <2>7. Wakes(p, c) = {}  BY <2>2 DEF Wakes
  <2>8. Becomes(p, w, c, Wakes(p, c))  BY <2>6, <2>7
  <2>9. QED  BY <1>1, <1>3, <1>6, <2>2, <2>4, <2>8
<1>7. QED  BY <1>5, <1>6

LEMMA RetBegins ==
    ASSUME NEW p \in Calls, Sole(p), Returns(p), Begin(p)
    PROVE  Returns(p)'
<1> DEFINE u == call[p]
           m == mem[At[p]]
<1>1. /\ u \in RetRec /\ m \in MemRec /\ M(p) = m /\ C(p) = u /\ Recalls(scene, p, u, m, store, Mishaps)
  BY ReturnFacts
<1>2. u.pc = "idle" /\ u.cmd = "none" /\ Get(p, m, u, TheDeck, "open")
  <2>1. u.pc = "idle" /\ Get(p, m, u, TheDeck, "open")  BY <1>1 DEF Begin
  <2>2. Progress(scene, p, u, store, FALSE, losses, Mishaps)  BY <2>1, ReturnFacts
  <2>3. QED  BY <2>1, <2>2 DEF Progress, Begun
<1>3. /\ u.kid = None /\ u.undo = <<>> /\ u.todo = {} /\ u.reply = "none" /\ (u.got = Lost => losses > 0)
      /\ store[TheDeck] = Deck0(scene) /\ \A r \in Runs0(scene) : store[r[2]] = Child0(scene, r[2])
      /\ Coherent(u, m, store, Mishaps) /\ \A i \in Ids : store[i] # None
  BY <1>2, EarlyFacts
<1>4. TheDeck \in Ids /\ "open" \in ReturnSteps /\ \A k \in Keys : m.queue[k] = <<>>
  BY <1>1, ConstantFacts DEF ReturnSteps, PriorSteps, Recalls
<1>5. \E c \in RetRec : \E w \in MemRec :
        /\ Becomes(p, w, c, Wakes(p, c)) /\ w.slot = m.slot /\ w.obj = m.obj /\ w.queue = m.queue
        /\ \A j \in Ids : w.owner[j] = p => (c.cmd = "get" /\ c.on = j) \/ m.owner[j] = p
        /\ c.pc = "open" /\ c.got = u.got /\ c.todo = u.todo /\ c.undo = u.undo /\ c.reply = u.reply
        /\ IF m.slot[TheDeck] # None THEN c.cmd = "none" ELSE c.cmd = "get" /\ c.on = TheDeck
        /\ c.deck = m.slot[TheDeck] /\ c.kid = u.kid
  <2>1. PICK i \in Ids, step \in ReturnSteps : i = TheDeck /\ step = "open"  BY <1>4
  <2>2. PICK v \in RetRec, x \in MemRec : v = u /\ x = m  BY <1>1
  <2>3. Get(p, x, v, i, step) /\ step # "done"  BY <1>2, <2>1, <2>2
  <2>4. PICK c \in RetRec, w \in MemRec :
               /\ Becomes(p, w, c, Wakes(p, c)) /\ w.slot = x.slot /\ w.obj = x.obj /\ w.queue = x.queue
               /\ \A j \in Ids : w.owner[j] = p => (c.cmd = "get" /\ c.on = j) \/ x.owner[j] = p
               /\ c.pc = step /\ c.got = v.got /\ c.todo = v.todo /\ c.undo = v.undo /\ c.reply = v.reply
               /\ IF x.slot[i] # None THEN c.cmd = "none" ELSE c.cmd = "get" /\ c.on = i
               /\ IF i = TheDeck THEN c.deck = x.slot[i] /\ c.kid = v.kid
                  ELSE c.kid = x.slot[i] /\ c.deck = v.deck
    BY <2>3, RetGets
  <2>5. QED  BY <2>1, <2>2, <2>4
<1>6. PICK c \in RetRec, w \in MemRec :
        /\ Becomes(p, w, c, Wakes(p, c)) /\ w.slot = m.slot /\ w.obj = m.obj /\ w.queue = m.queue
        /\ \A j \in Ids : w.owner[j] = p => (c.cmd = "get" /\ c.on = j) \/ m.owner[j] = p
        /\ c.pc = "open" /\ c.got = u.got /\ c.todo = u.todo /\ c.undo = u.undo /\ c.reply = u.reply
        /\ IF m.slot[TheDeck] # None THEN c.cmd = "none" ELSE c.cmd = "get" /\ c.on = TheDeck
        /\ c.deck = m.slot[TheDeck] /\ c.kid = u.kid
  BY <1>5
<1>7. Progress(scene, p, c, store, c.cmd # "none", losses, Mishaps)
  <2>1. Opening(scene, c, c.cmd # "none")  BY <1>6 DEF Opening
  <2>2. QED  BY <1>3, <1>6, <2>1, EarlyProgress
<1>8. Recalls(scene, p, c, w, store, Mishaps)
  <2>1. Coherent(c, w, store, Mishaps)  BY <1>1, <1>2, <1>3, <1>6, CoherentKept
  <2>2. c.cmd = "none" => w.obj[c.deck] = Deck0(scene)  BY <1>2, <1>3, <1>4, <1>6 DEF Coherent
  <2>3. QED  BY <1>4, <1>6, <2>1, <2>2 DEF Recalls, Midway
<1>9. Owning(p, c, w, store, c.cmd # "none")
  <2>1. u.pc \in PriorSteps /\ u.cmd = "none"  BY <1>1, <1>2 DEF PriorSteps
  <2>2. \A j \in Ids : m.owner[j] # p  BY <2>1, Unowned
  <2>3. QED  BY <1>6, <2>2, OwnsNothing
<1>10. QED  BY <1>1, <1>2, <1>6, <1>7, <1>8, <1>9, StepKept

LEMMA RetOpens ==
    ASSUME NEW p \in Calls, Sole(p), Returns(p), Open(p)
    PROVE  Returns(p)'
<1> DEFINE u == call[p]
           m == mem[At[p]]
<1>1. /\ u \in RetRec /\ m \in MemRec /\ M(p) = m /\ C(p) = u /\ Recalls(scene, p, u, m, store, Mishaps)
  BY ReturnFacts
<1>2. u.pc = "open" /\ p \in conn[At[p]].ready  BY DEF Open, At_
<1>3. /\ u.kid = None /\ u.undo = <<>> /\ u.todo = {} /\ u.reply = "none" /\ (u.got = Lost => losses > 0)
      /\ store[TheDeck] = Deck0(scene) /\ \A r \in Runs0(scene) : store[r[2]] = Child0(scene, r[2])
      /\ Coherent(u, m, store, Mishaps) /\ \A i \in Ids : store[i] # None
  BY <1>2, EarlyFacts
<1>0. u.cmd # "reread"
  <2>1. Progress(scene, p, u, store, FALSE, losses, Mishaps)  BY <1>2, ReturnFacts
  <2>2. QED  BY <1>2, <2>1 DEF Progress, Begun
<1>4. TheDeck \in Ids /\ "work" \in ReturnSteps /\ \A k \in Keys : m.queue[k] = <<>>
  BY <1>1, ConstantFacts DEF ReturnSteps, PriorSteps, Recalls
<1>5. PICK l : l = Loaded(p, TheDeck)  OBVIOUS
<1>6. PICK x : x = l.mem  OBVIOUS
<1>7. /\ x \in MemRec /\ x.queue = m.queue /\ \A j \in Ids : x.owner[j] # p
      /\ l.at # None => l.at \in Objects /\ x.obj[l.at] = store[TheDeck] /\ Coherent(u, x, store, Mishaps)
  <2>1. PICK i \in Ids : i = TheDeck  BY <1>4
  <2>0. u.pc = "open" /\ i = TheDeck  BY <1>2, <2>1
  <2>2. (u.pc = "open" /\ i = TheDeck) \/ (u.pc = "child" /\ i = u.id)  BY <2>0, Zenon
  <2>3. PICK z : z = m  OBVIOUS
  <2>4. l = Loaded(p, i)  BY <1>5, <2>1
  <2>5. /\ l.mem \in MemRec /\ l.mem.queue = z.queue
        /\ (u.cmd = "reread" => Rereading(p) = {}) => \A k \in Ids : l.mem.owner[k] # p
        /\ l.at # None => l.at \in Objects /\ l.mem.obj[l.at] = store[i]
        /\ Coherent(u, l.mem, store, Mishaps) \/ (u.pc = "open" /\ l.at = None)
    BY <1>2, <2>2, <2>3, <2>4, LoadedIs
  <2>6. QED  BY <1>0, <1>6, <2>1, <2>3, <2>5
<1>8. CASE l.at = None /\ Answers(p, x, "refused")  BY <1>2, <1>7, <1>8, RetAnswers
<1>9. ASSUME l.at # None PROVE [u EXCEPT !.deck = l.at] \in RetRec
  BY <1>1, <1>7, <1>9, RetDecked
<1>10. ASSUME l.at # None, NEW c \in RetRec, c.pc = "work", c.cmd \in {"none", "reread"}, c.deck = l.at,
              c.kid = None, c.undo = <<>>, c.todo = {}, c.reply = "none", c.got = u.got,
              NEW w \in MemRec, w.slot = x.slot, w.obj = x.obj, w.queue = x.queue,
              \A j \in Ids : w.owner[j] = p => c.cmd = "reread" /\ j \in c.out,
              c.cmd = "reread" => c.out \subseteq Ids,
              Becomes(p, w, c, Wakes(p, c))
       PROVE  Returns(p)'
  <2>1. Progress(scene, p, c, store, c.cmd # "none", losses, Mishaps)
    <3>1. Opening(scene, c, c.cmd # "none")  BY <1>10 DEF Opening
    <3>2. QED  BY <1>3, <1>10, <3>1, EarlyProgress
  <2>2. Recalls(scene, p, c, w, store, Mishaps)
    <3>1. Coherent(c, w, store, Mishaps)  BY <1>2, <1>3, <1>7, <1>10, CoherentKept
    <3>2. QED  BY <1>3, <1>4, <1>7, <1>10, <3>1 DEF Recalls, Midway
  <2>3. Owning(p, c, w, store, c.cmd # "none")
    <3>1. CASE c.cmd = "none"  BY <1>10, <3>1 DEF Owning
    <3>2. CASE c.cmd = "reread"
      <4>1. (c.cmd # "none") = TRUE  BY <3>2
      <4>2. Owning(p, c, w, store, TRUE)  BY <1>10 DEF Owning
      <4>3. QED  BY <4>1, <4>2
    <3>3. QED  BY <1>10, <3>1, <3>2
  <2>4. QED  BY <1>2, <1>10, <2>1, <2>2, <2>3, StepKept
<1>11. ASSUME l.at # None, NEW v, v = [u EXCEPT !.deck = l.at]
       PROVE  /\ v \in RetRec /\ v.deck = l.at /\ v.kid = None /\ v.undo = <<>> /\ v.todo = {}
              /\ v.reply = "none" /\ v.got = u.got
  BY <1>1, <1>3, <1>7, <1>11, RetDecked
<1>12. CASE l.at # None /\ Goes(p, x, [u EXCEPT !.deck = l.at], "work")
  <2>1. PICK v : v = [u EXCEPT !.deck = l.at]  OBVIOUS
  <2>2. v \in RetRec /\ v.deck = l.at /\ v.kid = None /\ v.undo = <<>> /\ v.todo = {}
        /\ v.reply = "none" /\ v.got = u.got
    BY <1>11, <1>12, <2>1
  <2>3. PICK c : c = Going(v, "work")  OBVIOUS
  <2>4. /\ c \in RetRec /\ c.pc = "work" /\ c.cmd = "none" /\ c.deck = l.at /\ c.kid = None /\ c.undo = <<>>
        /\ c.todo = {} /\ c.reply = "none" /\ c.got = u.got
    BY <1>4, <2>2, <2>3, RetGoing
  <2>5. Becomes(p, x, c, {p})  BY <1>12, <2>1, <2>3, Zenon DEF Goes, Going
  <2>6. Wakes(p, c) = {p}  BY <2>4 DEF Wakes
  <2>7. QED  BY <1>7, <1>10, <1>12, <2>4, <2>5, <2>6
<1>13. ASSUME l.at # None, NEW ids \in SUBSET Ids, Rereads(p, x, [u EXCEPT !.deck = l.at], ids, "work")
       PROVE  Returns(p)'
  <2>1. PICK v : v = [u EXCEPT !.deck = l.at]  OBVIOUS
  <2>2. v \in RetRec /\ v.deck = l.at /\ v.kid = None /\ v.undo = <<>> /\ v.todo = {}
        /\ v.reply = "none" /\ v.got = u.got
    BY <1>11, <1>13, <2>1
  <2>3. PICK c : c = Touching(v, ids, "work")  OBVIOUS
  <2>4. /\ c \in RetRec /\ c.pc = "work" /\ c.cmd = "reread" /\ c.deck = l.at /\ c.kid = None /\ c.undo = <<>>
        /\ c.todo = {} /\ c.reply = "none" /\ c.got = u.got /\ c.out = ids
    BY <1>4, <2>2, <2>3, RetTouching
  <2>5. PICK w : w = Claimed(x, ids, p)  OBVIOUS
  <2>6. /\ w \in MemRec /\ w.slot = x.slot /\ w.obj = x.obj /\ w.queue = x.queue
        /\ \A j \in Ids : w.owner[j] = p => j \in ids \/ x.owner[j] = p
    BY <1>7, <2>5, ClaimedIs
  <2>7. Becomes(p, w, c, {})
    <3>1. Rereads(p, x, v, ids, "work")  BY <1>13, <2>1
    <3>2. QED  BY <2>3, <2>5, <3>1, Zenon DEF Rereads, Touching, Claimed
  <2>8. Wakes(p, c) = {}  BY <2>4 DEF Wakes
  <2>9. Becomes(p, w, c, Wakes(p, c))  BY <2>7, <2>8
  <2>10. \A j \in Ids : w.owner[j] = p => c.cmd = "reread" /\ j \in c.out  BY <1>7, <2>4, <2>6
  <2>11. QED  BY <1>10, <1>13, <2>4, <2>6, <2>9, <2>10
<1>14. CASE l.at # None /\ \E ids \in SUBSET Ids : Rereads(p, x, [u EXCEPT !.deck = l.at], ids, "work")
  BY <1>13, <1>14
<1>15. \/ l.at = None /\ Answers(p, x, "refused")
       \/ l.at # None /\ Goes(p, x, [u EXCEPT !.deck = l.at], "work")
       \/ l.at # None /\ \E ids \in SUBSET Ids : Rereads(p, x, [u EXCEPT !.deck = l.at], ids, "work")
  <2>1. ASSUME l.at # None, NEW ids \in SUBSET {r[2] : r \in Running(Record(l))} PROVE ids \in SUBSET Ids
    <3>1. Record(l) = Deck0(scene)  BY <1>3, <1>6, <1>7, <2>1 DEF Record
    <3>2. \A r \in Runs0(scene) : r[2] \in Ids  BY RunsFacts, ReturnFacts
    <3>3. QED  BY <2>1, <3>1, <3>2 DEF Runs0
  <2>2. DEFINE kids == {r[2] : r \in Running(Record(l))}
  <2>3. \/ l.at = None /\ Answers(p, x, "refused")
        \/ l.at # None /\ Goes(p, x, [u EXCEPT !.deck = l.at], "work")
        \/ /\ l.at # None
           /\ \E ids \in SUBSET kids \ {{}} : Rereads(p, x, [u EXCEPT !.deck = l.at], ids, "work")
    BY <1>1, <1>5, <1>6 DEF Open
  <2>4. QED  BY <2>1, <2>3
<1>16. QED  BY <1>8, <1>12, <1>14, <1>15

-----------------------------------------------------------------------------
(* The return goes through the children                                    *)

LEMMA TidyRoom ==
    ASSUME NEW p \in Calls, NEW u, NEW m \in MemRec, Tidy(u, m)
    PROVE  Fresh(m) \in Objects /\ m.obj[Fresh(m)] = None
<1>1. PICK f \in [Ids -> Objects \cup {None}] : f = m.slot  BY MemFields
<1>2. PICK a, b : a = u.deck /\ b = u.kid  OBVIOUS
<1>3. \A q \in Objects : m.obj[q] # None => q = a \/ q = b \/ \E j \in Ids : f[j] = q
  BY <1>1, <1>2 DEF Tidy
<1>4. f \in [Ids -> Objects \cup {None}] /\ m \in MemRec  OBVIOUS
<1>5. PICK o : o = Fresh(m)  OBVIOUS
<1>6. o \in Objects /\ m.obj[o] = None  BY <1>3, <1>4, <1>5, RoomLeft
<1>7. QED  BY <1>5, <1>6

\* set() by the return.
LEMMA RetSets ==
    ASSUME NEW p \in Calls, NEW m \in MemRec, NEW u \in RetRec, NEW i \in Ids, NEW o \in Objects,
           m.obj[o] \in Values, NEW step \in ReturnSteps, step # "done", Set(p, m, u, i, o, step)
    PROVE  \E c \in RetRec :
               /\ Becomes(p, m, c, Wakes(p, c))
               /\ c.pc = step /\ c.cmd = "set" /\ c.on = i /\ c.out = m.obj[o] /\ c.got = u.got
               /\ c.id = u.id /\ c.todo = u.todo /\ c.undo = u.undo
               /\ c.left = u.left /\ c.key = u.key /\ c.orig = u.orig /\ c.reply = u.reply
               /\ IF i = TheDeck THEN c.deck = o /\ c.kid = u.kid ELSE c.kid = o /\ c.deck = u.deck
<1>2. PICK v : v = Holds(u, i, o)  OBVIOUS
<1>3. /\ v \in RetRec /\ v.got = u.got /\ v.id = u.id /\ v.todo = u.todo /\ v.undo = u.undo
      /\ v.left = u.left /\ v.key = u.key /\ v.orig = u.orig /\ v.reply = u.reply
      /\ IF i = TheDeck THEN v.deck = o /\ v.kid = u.kid ELSE v.kid = o /\ v.deck = u.deck
  <2>0. PICK q \in Objects \cup {None} : q = o  OBVIOUS
  <2>1. CASE i = TheDeck
    <3>1. v = [u EXCEPT !.deck = q]  BY <1>2, <2>0, <2>1, HoldsIs
    <3>2. QED  BY <2>0, <2>1, <3>1, RetDecked
  <2>2. CASE i # TheDeck
    <3>1. v = [u EXCEPT !.kid = q]  BY <1>2, <2>0, <2>2, HoldsIs
    <3>2. QED  BY <2>0, <2>2, <3>1, RetKidded
  <2>3. QED  BY <2>1, <2>2
<1>4. PICK d \in Values : d = m.obj[o]  OBVIOUS
<1>5. PICK c : c = Writing(v, i, d, step)  OBVIOUS
<1>6. v \in RetRec  BY <1>3
<1>7. /\ c \in RetRec
      /\ c.pc = step /\ c.cmd = "set" /\ c.on = i /\ c.out = d /\ c.got = v.got /\ c.deck = v.deck
      /\ c.kid = v.kid /\ c.id = v.id /\ c.todo = v.todo /\ c.undo = v.undo /\ c.left = v.left
      /\ c.key = v.key /\ c.orig = v.orig /\ c.reply = v.reply
  BY <1>5, <1>6, RetWriting
<1>8. Becomes(p, m, c, {})  BY <1>2, <1>4, <1>5, Zenon DEF Set, Writing
<1>9. Wakes(p, c) = {}  BY <1>7 DEF Wakes
<1>10. Becomes(p, m, c, Wakes(p, c))  BY <1>8, <1>9
<1>11. QED  BY <1>3, <1>4, <1>7, <1>10

\* What is known of the return between its clone and its write of the record.
Rowed(s, p, c, st, ls, mis) ==
    \A r \in Runs0(s) : \/ r \in c.todo
                        \/ c.pc \in {"child", "token"} /\ r = <<c.key, c.id>>
                        \/ st[r[2]] = Child1(s, p, r[2])
                        \/ ls > 0 /\ mis > 1
Undone(s, c) == \A l \in 1..Len(c.undo) : c.undo[l][2] = Child0(s, c.undo[l][1])

LEMMA MidFacts ==
    ASSUME NEW p \in Calls, Sole(p), Returns(p), call[p].pc \in Midway
    PROVE  /\ call[p].deck \in Objects /\ call[p].reply = "none" /\ call[p].todo \subseteq Runs0(scene)
           /\ \A r \in call[p].todo : store[r[2]] = Child0(scene, r[2])
           /\ Rowed(scene, p, call[p], store, losses, Mishaps) /\ Undone(scene, call[p])
           /\ (call[p].got = Lost => losses > 0) /\ store[TheDeck] = Deck0(scene)
           /\ Coherent(call[p], mem[At[p]], store, Mishaps) /\ \A i \in Ids : store[i] # None
           /\ mem[At[p]].obj[call[p].deck] = Copied(scene, p)
           /\ Mishaps \in Nat /\ losses \in Nat
<1>1. /\ Progress(scene, p, call[p], store, conn[At[p]].sent # <<>>, losses, Mishaps) /\ Clear(p)
      /\ Recalls(scene, p, call[p], mem[At[p]], store, Mishaps) /\ call[p] \in RetRec
  BY ReturnFacts DEF Returns
<1>2. \A i \in Ids : store[i] # None
  <2>1. \A i \in Ids : store[i] \in Deck \cup Child \cup {Gone}  BY <1>1 DEF Clear
  <2>2. QED  BY <2>1, ConstantFacts
<1>3. call[p].pc \in PriorSteps /\ call[p].pc # "done"  BY DEF PriorSteps, Midway
<1>4. call[p].deck \in Objects
  <2>1. call[p].deck # None  BY <1>1 DEF Progress, Begun
  <2>2. QED  BY <1>1, <2>1, RetFields
<1>5. Mishaps \in Nat /\ losses \in Nat  BY ReturnFacts
<1>6. call[p].reply = "none"  BY <1>1, <1>3 DEF Progress, Begun
<1>7. store[TheDeck] = Deck0(scene)  BY <1>1, <1>3 DEF Progress, DeckNow
<1>8. Undone(scene, call[p]) /\ (call[p].got = Lost => losses > 0)  BY <1>1 DEF Progress, Undoing, Undone
<1>9. Coherent(call[p], mem[At[p]], store, Mishaps) /\ mem[At[p]].obj[call[p].deck] = Copied(scene, p)
  BY <1>1, <1>3 DEF Recalls
<1>10. /\ call[p].todo \subseteq Runs0(scene) /\ \A r \in call[p].todo : store[r[2]] = Child0(scene, r[2])
       /\ Rowed(scene, p, call[p], store, losses, Mishaps)
  BY <1>1 DEF Progress, KidsNow, Rowed
<1>11. QED  BY <1>2, <1>4, <1>5, <1>6, <1>7, <1>8, <1>9, <1>10

LEMMA MidProgress ==
    ASSUME NEW p, NEW s, NEW st, NEW sent, NEW ls, NEW mis, NEW c \in RetRec, c.pc \in Midway,
           c.deck # None, c.reply = "none", c.pc = "replay" => c.cmd = "none", AtKids(s, p, c, st, sent, mis),
           st[TheDeck] = Deck0(s), c.todo \subseteq Runs0(s), \A r \in c.todo : st[r[2]] = Child0(s, r[2]),
           Rowed(s, p, c, st, ls, mis), Undone(s, c), c.got = Lost => ls > 0
    PROVE  Progress(s, p, c, st, sent, ls, mis)
<1>1. Begun(c)  BY DEF Begun, Midway, AtKids
<1>2. Opening(s, c, sent)  BY DEF Opening, Midway
<1>3. DeckNow(s, p, c, st, sent)  BY DEF DeckNow, Midway
<1>4. KidsNow(s, p, c, st, ls, mis)  BY DEF KidsNow, Midway, Rowed
<1>5. Undoing(s, c, st, sent, ls)  BY DEF Undoing, Undone, Midway
<1>6. QED  BY <1>1, <1>2, <1>3, <1>4, <1>5 DEF Progress

\* The clone is made.
LEMMA RetStarts ==
    ASSUME NEW p \in Calls, Sole(p), Returns(p), Touched(p), Return(p)
    PROVE  Returns(p)'
<1> DEFINE u == call[p]
           m == mem[At[p]]
<1>1. /\ u \in RetRec /\ m \in MemRec /\ M(p) = m /\ C(p) = u /\ Recalls(scene, p, u, m, store, Mishaps)
      /\ Student(p) = scene.student[p] /\ scene \in Scene /\ Tidy(u, m)
  BY ReturnFacts
<1>2. u.pc = "work" /\ p \in conn[At[p]].ready  BY DEF Return, Working, At_
<1>3. /\ u.kid = None /\ u.undo = <<>> /\ u.todo = {} /\ u.reply = "none" /\ (u.got = Lost => losses > 0)
      /\ store[TheDeck] = Deck0(scene) /\ \A r \in Runs0(scene) : store[r[2]] = Child0(scene, r[2])
      /\ Coherent(u, m, store, Mishaps) /\ \A i \in Ids : store[i] # None
  BY <1>2, EarlyFacts
<1>0. \A j \in Ids : m.owner[j] # p
  <2>1. Progress(scene, p, u, store, FALSE, losses, Mishaps)  BY <1>2, ReturnFacts
  <2>2. u.cmd # "get"  BY <1>2, <2>1 DEF Progress, Begun
  <2>3. u.pc \in PriorSteps /\ Rereading(p) = {}  BY <1>2 DEF PriorSteps, Touched
  <2>4. QED  BY <2>2, <2>3, Unowned
<1>4. m.obj[u.deck] = Deck0(scene) /\ \A k \in Keys : m.queue[k] = <<>>  BY <1>1, <1>2 DEF Recalls
<1>5. PICK o : o = Fresh(m)  OBVIOUS
<1>6. o \in Objects /\ m.obj[o] = None  BY <1>1, <1>5, TidyRoom
<1>7. PICK e : e = Copied(scene, p)  OBVIOUS
<1>8. e \in Deck /\ Running(e) = Runs0(scene)  BY <1>1, <1>7, RevokedFacts
<1>9. Refuses(p) \/ Goes(p, Put(m, o, e), [u EXCEPT !.deck = o, !.todo = Running(e)], "replay")
  BY <1>1, <1>4, <1>5, <1>7 DEF Return, MyDeck, Copied
<1>10. CASE Refuses(p)
  <2>1. Answers(p, m, "refused")  BY <1>1, <1>10 DEF Refuses
  <2>2. QED  BY <1>1, <1>2, <2>1, RetAnswers
<1>11. CASE Goes(p, Put(m, o, e), [u EXCEPT !.deck = o, !.todo = Running(e)], "replay")
  <2>1. PICK t \in Rows : t = Runs0(scene)
    <3>1. \A r \in Runs0(scene) : r \in Keys \X Children  BY <1>1, RunsFacts
    <3>2. QED  BY <3>1 DEF Rows
  <2>2. PICK v : v = Copying(u, o, t)  OBVIOUS
  <2>3. v \in RetRec /\ v.deck = o /\ v.kid = None /\ v.undo = <<>> /\ v.todo = t /\ v.reply = "none" /\ v.got = u.got
    BY <1>1, <1>3, <1>6, <2>2, RetListing
  <2>4. "replay" \in ReturnSteps  BY DEF ReturnSteps, PriorSteps
  <2>5. PICK c : c = Going(v, "replay")  OBVIOUS
  <2>6. /\ c \in RetRec /\ c.pc = "replay" /\ c.cmd = "none" /\ c.deck = o /\ c.kid = None /\ c.undo = <<>>
        /\ c.todo = t /\ c.reply = "none" /\ c.got = u.got
    BY <2>3, <2>4, <2>5, RetGoing
  <2>7. PICK w : w = Put(m, o, e)  OBVIOUS
  <2>8. /\ w \in MemRec /\ w.slot = m.slot /\ w.queue = m.queue /\ w.owner = m.owner /\ w.obj[o] = e
        /\ \A q \in Objects : q # o => w.obj[q] = m.obj[q]
    BY <1>1, <1>6, <1>8, <2>7, PutIs
  <2>9. Becomes(p, w, c, {p})  BY <1>8, <1>11, <2>1, <2>2, <2>5, <2>7, Zenon DEF Goes, Going, Copying
  <2>10. Wakes(p, c) = {p}  BY <2>6 DEF Wakes
  <2>11. Becomes(p, w, c, Wakes(p, c))  BY <2>9, <2>10
  <2>12. Progress(scene, p, c, store, c.cmd # "none", losses, Mishaps)
    <3>1. AtKids(scene, p, c, store, c.cmd # "none", Mishaps)  BY <2>6 DEF AtKids
    <3>2. Rowed(scene, p, c, store, losses, Mishaps)  BY <2>1, <2>6 DEF Rowed
    <3>3. Len(c.undo) = 0  BY <2>6
    <3>4. Undone(scene, c)  BY <3>3 DEF Undone
    <3>5. c.deck # None  BY <1>6, <2>6, ConstantFacts
    <3>6. c.pc \in Midway  BY <2>6 DEF Midway
    <3>7. c.todo \subseteq Runs0(scene) /\ \A r \in c.todo : store[r[2]] = Child0(scene, r[2])
      BY <1>3, <2>1, <2>6
    <3>8. QED  BY <1>3, <2>6, <3>1, <3>2, <3>4, <3>5, <3>6, <3>7, MidProgress
  <2>13. Recalls(scene, p, c, w, store, Mishaps)
    <3>1. u.pc # "token" /\ \A q \in Objects : m.obj[q] # None => w.obj[q] = m.obj[q]
      BY <1>2, <1>6, <2>8
    <3>2. Coherent(c, w, store, Mishaps)  BY <1>1, <1>3, <2>8, <3>1, CoherentKept
    <3>3. QED  BY <1>4, <1>7, <2>6, <2>8, <3>2 DEF Recalls, Midway
  <2>14. Owning(p, c, w, store, c.cmd # "none")  BY <1>0, <2>6, <2>8, OwnsNothing
  <2>15. QED  BY <1>1, <1>2, <2>6, <2>8, <2>11, <2>12, <2>13, <2>14, StepKept
<1>12. QED  BY <1>9, <1>10, <1>11

\* The next child is read, or the record is written.
LEMMA RetReplays ==
    ASSUME NEW p \in Calls, Sole(p), Returns(p), Replay(p)
    PROVE  Returns(p)'
<1> DEFINE u == call[p]
           m == mem[At[p]]
<1>1. /\ u \in RetRec /\ m \in MemRec /\ M(p) = m /\ C(p) = u /\ Recalls(scene, p, u, m, store, Mishaps)
      /\ Student(p) = scene.student[p] /\ scene \in Scene /\ Is(p, "return") /\ p \notin Sockets
  BY ReturnFacts
<1>2. u.pc = "replay" /\ p \in conn[At[p]].ready /\ u.pc \in Midway  BY DEF Replay, At_, Midway
<1>3. /\ u.deck \in Objects /\ u.reply = "none" /\ u.todo \subseteq Runs0(scene)
      /\ \A r \in u.todo : store[r[2]] = Child0(scene, r[2])
      /\ Rowed(scene, p, u, store, losses, Mishaps) /\ Undone(scene, u)
      /\ (u.got = Lost => losses > 0) /\ store[TheDeck] = Deck0(scene)
      /\ Coherent(u, m, store, Mishaps) /\ \A i \in Ids : store[i] # None
      /\ m.obj[u.deck] = Copied(scene, p) /\ Mishaps \in Nat /\ losses \in Nat
  BY <1>2, MidFacts
<1>4. \A k \in Keys : m.queue[k] = <<>>  BY <1>1 DEF Recalls
<1>0. \A j \in Ids : m.owner[j] # p
  <2>1. Progress(scene, p, u, store, FALSE, losses, Mishaps)  BY <1>2, ReturnFacts
  <2>2. u.cmd = "none" /\ u.pc \in PriorSteps  BY <1>2, <2>1 DEF Progress, Begun, PriorSteps
  <2>3. QED  BY <2>2, Unowned
<1>5. CASE u.todo = {} /\ Write(p, [MyDeck(p) EXCEPT !.students = @ \ {Student(p)}])
  <2>1. PICK d : d = Deck1(scene, p)  OBVIOUS
  <2>2. d \in Deck  BY <1>1, <2>1, RevokedFacts
  <2>3. PICK w : w = Put(m, u.deck, d)  OBVIOUS
  <2>4. /\ w \in MemRec /\ w.slot = m.slot /\ w.queue = m.queue /\ w.obj[u.deck] = d
    BY <1>1, <1>3, <2>2, <2>3, PutIs
  <2>5. d = [MyDeck(p) EXCEPT !.students = @ \ {Student(p)}]  BY <1>1, <1>3, <2>1 DEF MyDeck, Deck1
  <2>6. Set(p, w, u, TheDeck, u.deck, "noted")
    <3>1. Write(p, d)  BY <1>5, <2>5
    <3>2. QED  BY <1>1, <2>3, <3>1 DEF Write, Changed
  <2>7. PICK i \in Ids, step \in ReturnSteps, o \in Objects : i = TheDeck /\ step = "noted" /\ o = u.deck
    BY <1>3, ConstantFacts DEF ReturnSteps
  <2>8. Set(p, w, u, i, o, step) /\ step # "done" /\ w.obj[o] \in Values  BY <2>2, <2>4, <2>6, <2>7 DEF Values
  <2>9. PICK c \in RetRec :
               /\ Becomes(p, w, c, Wakes(p, c))
               /\ c.pc = step /\ c.cmd = "set" /\ c.on = i /\ c.out = w.obj[o] /\ c.got = u.got
               /\ c.todo = u.todo /\ c.undo = u.undo /\ c.reply = u.reply
               /\ IF i = TheDeck THEN c.deck = o /\ c.kid = u.kid ELSE c.kid = o /\ c.deck = u.deck
    BY <1>1, <2>4, <2>8, RetSets
  <2>10. /\ c.pc = "noted" /\ c.cmd = "set" /\ c.on = TheDeck /\ c.out = d /\ c.got = u.got
         /\ c.todo = {} /\ c.undo = u.undo /\ c.reply = "none" /\ c.deck = u.deck
    BY <1>3, <1>5, <2>4, <2>7, <2>9
  <2>11. Progress(scene, p, c, store, c.cmd # "none", losses, Mishaps)
    <3>1. Begun(c)  BY <1>3, <2>10, ConstantFacts DEF Begun, Midway
    <3>2. Opening(scene, c, c.cmd # "none")  BY <2>10 DEF Opening
    <3>3. AtKids(scene, p, c, store, c.cmd # "none", Mishaps)  BY <2>10 DEF AtKids
    <3>4. DeckNow(scene, p, c, store, c.cmd # "none")  BY <2>1, <2>10 DEF DeckNow, PriorSteps
    <3>5. KidsNow(scene, p, c, store, losses, Mishaps)  BY <1>2, <1>3, <1>5, <2>10 DEF KidsNow, Midway, Rowed
    <3>6. Undoing(scene, c, store, c.cmd # "none", losses)  BY <1>3, <2>10 DEF Undoing, Undone
    <3>7. QED  BY <3>1, <3>2, <3>3, <3>4, <3>5, <3>6 DEF Progress
  <2>12. Recalls(scene, p, c, w, store, Mishaps)  BY <1>4, <2>4, <2>10 DEF Recalls, PriorSteps, Midway
  <2>13. Owning(p, c, w, store, c.cmd # "none")  BY <2>10 DEF Owning, PriorSteps
  <2>14. QED  BY <1>1, <1>2, <2>4, <2>9, <2>10, <2>11, <2>12, <2>13, StepKept
<1>6. ASSUME NEW r \in u.todo,
             Get(p, m, [u EXCEPT !.todo = @ \ {r}, !.id = r[2], !.key = r[1]], r[2], "child")
      PROVE  Returns(p)'
  <2>1. /\ r = <<r[1], r[2]>> /\ r[1] \in Keys /\ r[2] \in Children /\ r[2] \in Ids /\ r[2] # TheDeck
        /\ Child0(scene, r[2]) \in Child /\ r \in Runs0(scene)
    BY <1>1, <1>3, RunsFacts
  <2>2. PICK k \in Keys, j \in Children : k = r[1] /\ j = r[2]  BY <2>1
  <2>3. PICK t \in Rows : t = u.todo \ {r}  BY <1>1, RetFields DEF Rows
  <2>4. PICK v : v = Taking(u, t, j, k)  OBVIOUS
  <2>5. /\ v \in RetRec /\ v.got = u.got /\ v.deck = u.deck /\ v.id = j /\ v.todo = t /\ v.undo = u.undo
        /\ v.key = k /\ v.reply = u.reply
    BY <1>1, <2>4, RetTaking
  <2>6. PICK step \in ReturnSteps : step = "child"  BY DEF ReturnSteps, PriorSteps
  <2>7. PICK i \in Ids : i = j  BY <2>1, <2>2
  <2>8. Get(p, m, v, i, step) /\ step # "done"  BY <1>6, <2>2, <2>3, <2>4, <2>6, <2>7 DEF Taking
  <2>9. PICK c \in RetRec, w \in MemRec :
               /\ Becomes(p, w, c, Wakes(p, c)) /\ w.slot = m.slot /\ w.obj = m.obj /\ w.queue = m.queue
               /\ \A q \in Ids : w.owner[q] = p => (c.cmd = "get" /\ c.on = q) \/ m.owner[q] = p
               /\ c.pc = step /\ c.got = v.got /\ c.id = v.id /\ c.todo = v.todo /\ c.undo = v.undo
               /\ c.key = v.key /\ c.reply = v.reply
               /\ IF m.slot[i] # None THEN c.cmd = "none" ELSE c.cmd = "get" /\ c.on = i
               /\ IF i = TheDeck THEN c.deck = m.slot[i] /\ c.kid = v.kid
                  ELSE c.kid = m.slot[i] /\ c.deck = v.deck
    BY <1>1, <2>5, <2>8, RetGets
  <2>10. /\ c.pc = "child" /\ c.got = u.got /\ c.id = r[2] /\ c.todo = u.todo \ {r} /\ c.undo = u.undo
         /\ c.key = r[1] /\ c.reply = "none" /\ c.kid = m.slot[c.id] /\ c.deck = u.deck
         /\ IF m.slot[c.id] # None THEN c.cmd = "none" ELSE c.cmd = "get" /\ c.on = c.id
    BY <1>3, <2>1, <2>2, <2>3, <2>5, <2>6, <2>7, <2>9
  <2>11. store[c.id] = Child0(scene, c.id) /\ <<c.key, c.id>> = r /\ store[c.id] # Gone
    BY <1>3, <2>1, <2>10, ConstantFacts
  <2>12. m.slot[c.id] = None => Mishaps > 0
    <3>1. Mishaps = 0 => m.slot[c.id] # None  BY <1>3, <2>1, <2>10, <2>11 DEF Coherent
    <3>2. QED  BY <1>3, <3>1
  <2>13. Progress(scene, p, c, store, c.cmd # "none", losses, Mishaps)
    <3>1. AtKids(scene, p, c, store, c.cmd # "none", Mishaps)
      <4>1. <<c.key, c.id>> \in Runs0(scene) \ c.todo  BY <2>1, <2>10, <2>11
      <4>2. \/ c.cmd = "none" /\ c.kid # None
            \/ c.cmd = "get" /\ c.on = c.id /\ c.kid = None /\ Mishaps > 0 /\ c.cmd # "none"
        BY <2>10, <2>12
      <4>3. c.pc = "child"  BY <2>10
      <4>4. c.pc # "token"  BY <2>10
      <4>5. QED  BY <2>11, <4>1, <4>2, <4>3, <4>4 DEF AtKids
    <3>2. Rowed(scene, p, c, store, losses, Mishaps)
      <4>1. c.pc = "child" /\ u.pc = "replay"  BY <1>2, <2>10
      <4>2. QED  BY <1>3, <2>10, <2>11, <4>1 DEF Rowed
    <3>3. Undone(scene, c)  BY <1>3, <2>10 DEF Undone
    <3>4. c.deck # None /\ c.pc \in Midway /\ c.pc # "replay"  BY <1>3, <2>10, ConstantFacts DEF Midway
    <3>5. c.todo \subseteq Runs0(scene) /\ \A q \in c.todo : store[q[2]] = Child0(scene, q[2])
      BY <1>3, <2>10
    <3>6. c.reply = "none" /\ (c.got = Lost => losses > 0)  BY <1>3, <2>10
    <3>7. QED  BY <1>3, <3>1, <3>2, <3>3, <3>4, <3>5, <3>6, MidProgress
  <2>14. Recalls(scene, p, c, w, store, Mishaps)
    <3>1. u.pc # "token" /\ \A q \in Objects : m.obj[q] # None => w.obj[q] = m.obj[q]
      BY <1>2, <2>9
    <3>2. Coherent(c, w, store, Mishaps)  BY <1>1, <1>3, <2>9, <3>1, CoherentKept
    <3>3. c.cmd # "reread" /\ (c.cmd = "none" => w.obj[c.kid] = store[c.id])
      BY <1>2, <1>3, <2>1, <2>9, <2>10 DEF Coherent
    <3>4. \A q \in Keys : w.queue[q] = <<>>  BY <1>4, <2>9
    <3>5. c.pc = "child" /\ w.obj[c.deck] = Copied(scene, p)  BY <1>3, <2>9, <2>10
    <3>6. QED  BY <3>2, <3>3, <3>4, <3>5 DEF Recalls
  <2>15. Owning(p, c, w, store, c.cmd # "none")  BY <1>0, <2>9, <2>10, OwnsNothing
  <2>16. QED  BY <1>1, <1>2, <2>9, <2>10, <2>13, <2>14, <2>15, StepKept
<1>7. \/ u.todo = {} /\ Write(p, [MyDeck(p) EXCEPT !.students = @ \ {Student(p)}])
      \/ \E r \in u.todo : Get(p, m, [u EXCEPT !.todo = @ \ {r}, !.id = r[2], !.key = r[1]], r[2], "child")
  BY <1>1 DEF Replay
<1>8. QED  BY <1>5, <1>6, <1>7

-----------------------------------------------------------------------------
(* A child is revoked                                                      *)

LEMMA RetLooks ==
    ASSUME NEW p \in Calls, Sole(p), Returns(p), Touched(p), Lookup(p)
    PROVE  Returns(p)'
<1> DEFINE u == call[p]
           m == mem[At[p]]
           i == u.id
<1>1. /\ u \in RetRec /\ m \in MemRec /\ M(p) = m /\ C(p) = u /\ Recalls(scene, p, u, m, store, Mishaps)
      /\ Student(p) = scene.student[p] /\ scene \in Scene /\ Is(p, "return") /\ p \notin Sockets
      /\ ~Is(p, "entry") /\ ~Is(p, "watch") /\ ~Is(p, "join")
  <2>1. \A k : Is(p, k) => k = "return"  BY ReturnFacts
  <2>2. ~Is(p, "entry") /\ ~Is(p, "watch") /\ ~Is(p, "join")  BY <2>1
  <2>3. QED  BY <2>2, ReturnFacts
<1>2. u.pc = "child" /\ p \in conn[At[p]].ready /\ u.pc \in Midway  BY DEF Lookup, At_, Midway
<1>3. /\ u.deck \in Objects /\ u.reply = "none" /\ u.todo \subseteq Runs0(scene)
      /\ \A r \in u.todo : store[r[2]] = Child0(scene, r[2])
      /\ Rowed(scene, p, u, store, losses, Mishaps) /\ Undone(scene, u)
      /\ (u.got = Lost => losses > 0) /\ store[TheDeck] = Deck0(scene)
      /\ Coherent(u, m, store, Mishaps) /\ \A j \in Ids : store[j] # None
      /\ m.obj[u.deck] = Copied(scene, p) /\ Mishaps \in Nat /\ losses \in Nat
  BY <1>2, MidFacts
<1>4. \A k \in Keys : m.queue[k] = <<>>  BY <1>1 DEF Recalls
<1>5. <<u.key, i>> \in Runs0(scene) \ u.todo /\ store[i] = Child0(scene, i)
  <2>1. Progress(scene, p, u, store, FALSE, losses, Mishaps)  BY <1>2, ReturnFacts
  <2>2. QED  BY <1>2, <2>1 DEF Progress, AtKids
<1>6. i \in Children /\ i \in Ids /\ i # TheDeck /\ Child0(scene, i) \in Child
  <2>1. PICK r \in Runs0(scene) : r = <<u.key, i>>  BY <1>5
  <2>2. r[2] = i  BY <2>1
  <2>3. QED  BY <1>1, <2>1, <2>2, RunsFacts
<1>7. Copied(scene, p) \in Deck /\ Copied(scene, p) # None  BY <1>1, RevokedFacts, ConstantFacts
<1>8. PICK l : l = Loaded(p, i)  OBVIOUS
<1>9. PICK x : x = l.mem  OBVIOUS
<1>10. /\ x \in MemRec /\ x.queue = m.queue
       /\ l.at = None => losses > 0 /\ Mishaps > 1
       /\ \A q \in Ids : x.owner[q] # p
       /\ l.at # None => l.at \in Objects /\ x.obj[l.at] = store[i]
       /\ Coherent(u, x, store, Mishaps)
       /\ \A q \in Objects : m.obj[q] # None => x.obj[q] = m.obj[q]
       /\ \A q \in Objects : x.obj[q] # None => q = u.deck \/ q = l.at \/ \E j \in Ids : m.slot[j] = q
  <2>1. PICK z : z = m  OBVIOUS
  <2>2. (u.pc = "open" /\ i = TheDeck) \/ (u.pc = "child" /\ i = u.id)  BY <1>2
  <2>3. PICK j \in Ids : j = i  BY <1>6
  <2>4. (u.pc = "open" /\ j = TheDeck) \/ (u.pc = "child" /\ j = u.id)  BY <2>2, <2>3
  <2>5. l = Loaded(p, j)  BY <1>8, <2>3
  <2>6. /\ l.mem \in MemRec /\ l.mem.queue = z.queue
        /\ l.at = None => /\ u.cmd = "get" /\ losses > 0
                          /\ u.pc = "child" => Mishaps > 1
        /\ (u.cmd = "reread" => Rereading(p) = {}) => \A k \in Ids : l.mem.owner[k] # p
        /\ l.at # None => l.at \in Objects /\ l.mem.obj[l.at] = store[j]
        /\ Coherent(u, l.mem, store, Mishaps) \/ (u.pc = "open" /\ l.at = None)
        /\ \A o \in Objects : z.obj[o] # None => l.mem.obj[o] = z.obj[o]
        /\ \A o \in Objects : l.mem.obj[o] # None =>
                 o = u.deck \/ o = l.at \/ \E k \in Ids : z.slot[k] = o
    BY <1>2, <2>1, <2>4, <2>5, LoadedIs
  <2>7. Rereading(p) = {}  BY DEF Touched
  <2>8. QED  BY <1>2, <1>9, <2>1, <2>3, <2>6, <2>7
<1>11. x.obj[u.deck] = Copied(scene, p)  BY <1>3, <1>7, <1>10
<1>12. PICK o : o = Fresh(x)  OBVIOUS
<1>13. PICK d : d = Child1(scene, p, i)  OBVIOUS
<1>14. d \in Child  BY <1>1, <1>6, <1>13, RevokedFacts
<1>15. CASE l.at = None /\ Goes(p, x, u, "replay")
  <2>1. "replay" \in ReturnSteps  BY DEF ReturnSteps, PriorSteps
  <2>2. PICK c : c = Going(u, "replay")  OBVIOUS
  <2>3. /\ c \in RetRec /\ c.pc = "replay" /\ c.cmd = "none" /\ c.deck = u.deck /\ c.undo = u.undo
        /\ c.todo = u.todo /\ c.reply = u.reply /\ c.got = u.got
    BY <1>1, <2>1, <2>2, RetGoing
  <2>4. Becomes(p, x, c, {p})  BY <1>15, <2>2, Zenon DEF Goes, Going
  <2>5. Wakes(p, c) = {p}  BY <2>3 DEF Wakes
  <2>6. Becomes(p, x, c, Wakes(p, c))  BY <2>4, <2>5
  <2>7. losses > 0 /\ Mishaps > 1  BY <1>10, <1>15
  <2>8. Progress(scene, p, c, store, c.cmd # "none", losses, Mishaps)
    <3>1. AtKids(scene, p, c, store, c.cmd # "none", Mishaps)  BY <2>3 DEF AtKids
    <3>2. Rowed(scene, p, c, store, losses, Mishaps)  BY <2>7 DEF Rowed
    <3>3. Undone(scene, c)  BY <1>3, <2>3 DEF Undone
    <3>4. c.deck # None /\ c.pc \in Midway  BY <1>3, <2>3, ConstantFacts DEF Midway
    <3>5. c.todo \subseteq Runs0(scene) /\ \A q \in c.todo : store[q[2]] = Child0(scene, q[2])
      BY <1>3, <2>3
    <3>6. c.reply = "none" /\ (c.got = Lost => losses > 0)  BY <1>3, <2>3
    <3>7. QED  BY <1>3, <2>3, <3>1, <3>2, <3>3, <3>4, <3>5, <3>6, MidProgress
  <2>9. Recalls(scene, p, c, x, store, Mishaps)
    <3>1. Coherent(c, x, store, Mishaps)  BY <1>2, <1>3, <1>10, CoherentKept
    <3>2. QED  BY <1>4, <1>10, <1>11, <2>3, <3>1 DEF Recalls
  <2>10. Owning(p, c, x, store, c.cmd # "none")  BY <1>10, <2>3, OwnsNothing
  <2>11. QED  BY <1>1, <1>2, <1>10, <2>3, <2>6, <2>8, <2>9, <2>10, StepKept
<1>16. CASE l.at # None /\ Set(p, Put(x, o, d), [u EXCEPT !.orig = store[i]], i, o, "token")
  <2>1. o \in Objects /\ x.obj[o] = None
    <3>1. PICK f \in [Ids -> Objects \cup {None}] : f = m.slot  BY <1>1, MemFields
    <3>2. PICK a, b : a = u.deck /\ b = l.at  OBVIOUS
    <3>3. \A q \in Objects : x.obj[q] # None => q = a \/ q = b \/ \E j \in Ids : f[j] = q
      BY <1>10, <3>1, <3>2
    <3>4. x \in MemRec /\ f \in [Ids -> Objects \cup {None}]  BY <1>10
    <3>5. QED  BY <1>12, <3>3, <3>4, RoomLeft
  <2>2. PICK y : y = Put(x, o, d)  OBVIOUS
  <2>3. /\ y \in MemRec /\ y.slot = x.slot /\ y.queue = x.queue /\ y.owner = x.owner /\ y.obj[o] = d
        /\ \A q \in Objects : q # o => y.obj[q] = x.obj[q]
    BY <1>10, <1>14, <2>1, <2>2, PutIs
  <2>4. PICK k \in Child : k = store[i]  BY <1>5, <1>6
  <2>5. PICK v : v = [u EXCEPT !.orig = k]  OBVIOUS
  <2>6. /\ v \in RetRec /\ v.got = u.got /\ v.deck = u.deck /\ v.id = i /\ v.todo = u.todo /\ v.undo = u.undo
        /\ v.key = u.key /\ v.reply = u.reply /\ v.orig = k
    BY <1>1, <2>5, RetHanded
  <2>7. PICK j \in Ids, step \in ReturnSteps : j = i /\ step = "token"  BY <1>6 DEF ReturnSteps, PriorSteps
  <2>8. Set(p, y, v, j, o, step) /\ step # "done" /\ y.obj[o] \in Values
    BY <1>14, <1>16, <2>2, <2>3, <2>4, <2>5, <2>7 DEF Values
  <2>9. PICK c \in RetRec :
               /\ Becomes(p, y, c, Wakes(p, c))
               /\ c.pc = step /\ c.cmd = "set" /\ c.on = j /\ c.out = y.obj[o] /\ c.got = v.got
               /\ c.id = v.id /\ c.todo = v.todo /\ c.undo = v.undo
               /\ c.key = v.key /\ c.orig = v.orig /\ c.reply = v.reply
               /\ IF j = TheDeck THEN c.deck = o /\ c.kid = v.kid ELSE c.kid = o /\ c.deck = v.deck
    BY <2>1, <2>3, <2>6, <2>8, RetSets
  <2>10. /\ c.pc = "token" /\ c.cmd = "set" /\ c.on = i /\ c.out = d /\ c.got = u.got /\ c.id = i
         /\ c.todo = u.todo /\ c.undo = u.undo /\ c.key = u.key /\ c.orig = store[i] /\ c.reply = "none"
         /\ c.kid = o /\ c.deck = u.deck
    BY <1>3, <1>6, <2>3, <2>4, <2>6, <2>7, <2>9
  <2>11. Progress(scene, p, c, store, c.cmd # "none", losses, Mishaps)
    <3>1. AtKids(scene, p, c, store, c.cmd # "none", Mishaps)
      <4>1. c.cmd # "none" /\ c.kid # None  BY <2>1, <2>10, ConstantFacts
      <4>2. c.out = Child1(scene, p, c.id) /\ store[c.id] = Child0(scene, c.id) /\ c.orig = Child0(scene, c.id)
        BY <1>5, <1>13, <2>10
      <4>3. <<c.key, c.id>> \in Runs0(scene) \ c.todo  BY <1>5, <2>10
      <4>4. c.pc = "token" /\ c.cmd = "set" /\ c.on = c.id  BY <2>10
      <4>5. QED  BY <4>1, <4>2, <4>3, <4>4 DEF AtKids
    <3>2. Rowed(scene, p, c, store, losses, Mishaps)  BY <1>3, <2>10 DEF Rowed
    <3>3. Undone(scene, c)  BY <1>3, <2>10 DEF Undone
    <3>4. c.deck # None /\ c.pc \in Midway /\ c.pc # "replay"  BY <1>3, <2>10, ConstantFacts DEF Midway
    <3>5. c.todo \subseteq Runs0(scene) /\ \A q \in c.todo : store[q[2]] = Child0(scene, q[2])
      BY <1>3, <2>10
    <3>6. c.reply = "none" /\ (c.got = Lost => losses > 0)  BY <1>3, <2>10
    <3>7. QED  BY <1>3, <3>1, <3>2, <3>3, <3>4, <3>5, <3>6, MidProgress
  <2>12. Recalls(scene, p, c, y, store, Mishaps)
    <3>1. u.pc # "token" /\ \A q \in Objects : x.obj[q] # None => y.obj[q] = x.obj[q]
      BY <1>2, <2>1, <2>3
    <3>2. Coherent(c, y, store, Mishaps)  BY <1>3, <1>10, <2>3, <3>1, CoherentKept
    <3>3. y.obj[c.deck] = Copied(scene, p)  BY <1>3, <1>7, <1>11, <2>10, <3>1
    <3>4. y.obj[c.kid] = Child1(scene, p, c.id)  BY <1>13, <2>3, <2>10
    <3>5. \A k1 \in Keys : y.queue[k1] = <<>>  BY <1>4, <1>10, <2>3
    <3>6. QED  BY <2>10, <3>2, <3>3, <3>4, <3>5 DEF Recalls
  <2>13. Owning(p, c, y, store, c.cmd # "none")  BY <1>10, <2>3, <2>10, OwnsNothing
  <2>14. QED  BY <1>1, <1>2, <2>3, <2>9, <2>10, <2>11, <2>12, <2>13, StepKept
<1>17. l.at = None => Goes(p, x, u, "replay")
  BY <1>1, <1>8, <1>9 DEF Lookup
<1>18. l.at # None => Set(p, Put(x, o, d), [u EXCEPT !.orig = store[i]], i, o, "token")
  <2>1. SUFFICES ASSUME l.at # None
                 PROVE Set(p, Put(x, o, d), [u EXCEPT !.orig = store[i]], i, o, "token")
    OBVIOUS
  <2>2. Record(l) = store[i]  BY <1>9, <1>10, <2>1 DEF Record
  <2>3. d = [Record(l) EXCEPT !.tokens = @ \ {Student(p)}]  BY <1>1, <1>5, <1>13, <2>2 DEF Child1
  <2>4. Set(p, Put(l.mem, Fresh(l.mem), [Record(l) EXCEPT !.tokens = @ \ {Student(p)}]),
            [C(p) EXCEPT !.orig = Record(l)], C(p).id, Fresh(l.mem), "token")
    BY <1>1, <1>8, <2>1 DEF Lookup
  <2>5. QED  BY <1>1, <1>9, <1>12, <2>2, <2>3, <2>4
<1>19. QED  BY <1>15, <1>16, <1>17, <1>18

\* The read of a child touches the deck first.
LEMMA RetTouches ==
    ASSUME NEW p \in Calls, Sole(p), Returns(p), TouchDeck(p)
    PROVE  Returns(p)'
<1> DEFINE u == call[p]
           m == mem[At[p]]
           i == u.id
<1>1. /\ u \in RetRec /\ m \in MemRec /\ M(p) = m /\ C(p) = u /\ Recalls(scene, p, u, m, store, Mishaps)
      /\ scene \in Scene
  BY ReturnFacts
<1>2. /\ u.pc = "child" /\ p \in conn[At[p]].ready /\ u.pc \in Midway /\ u.cmd # "reread"
      /\ Loaded(p, i).at # None
  <2>1. p \in conn[At[p]].ready /\ u.pc \in ChildSteps /\ u.cmd # "reread" /\ Loaded(p, i).at # None
    BY <1>1 DEF TouchDeck, HasChild
  <2>2. u.pc \in ReturnSteps  BY <1>1, RetFields
  <2>3. u.pc = "child"  BY <2>1, <2>2 DEF ChildSteps, ReturnSteps, PriorSteps
  <2>4. QED  BY <2>1, <2>3 DEF Midway
<1>3. /\ u.deck \in Objects /\ u.reply = "none" /\ u.todo \subseteq Runs0(scene)
      /\ \A r \in u.todo : store[r[2]] = Child0(scene, r[2])
      /\ Rowed(scene, p, u, store, losses, Mishaps) /\ Undone(scene, u)
      /\ (u.got = Lost => losses > 0) /\ store[TheDeck] = Deck0(scene)
      /\ \A j \in Ids : store[j] # None
      /\ m.obj[u.deck] = Copied(scene, p)
  BY <1>2, MidFacts
<1>4. \A k \in Keys : m.queue[k] = <<>>  BY <1>1 DEF Recalls
<1>5. <<u.key, i>> \in Runs0(scene) \ u.todo /\ store[i] = Child0(scene, i)
  <2>1. Progress(scene, p, u, store, FALSE, losses, Mishaps)  BY <1>2, ReturnFacts
  <2>2. QED  BY <1>2, <2>1 DEF Progress, AtKids
<1>6. i \in Ids
  <2>1. PICK r \in Runs0(scene) : r = <<u.key, i>>  BY <1>5
  <2>2. r[2] = i  BY <2>1
  <2>3. QED  BY <1>1, <2>1, <2>2, RunsFacts
<1>7. Copied(scene, p) # None
  <2>1. Copied(scene, p) \in Deck  BY <1>1, RevokedFacts
  <2>2. QED  BY <2>1, ConstantFacts
<1>8. PICK l : l = Loaded(p, i)  OBVIOUS
<1>9. PICK x, o : x = l.mem /\ o = l.at  OBVIOUS
<1>10. /\ x \in MemRec /\ x.queue = m.queue /\ \A q \in Ids : x.owner[q] # p
       /\ o \in Objects /\ x.obj[o] = store[i] /\ Coherent(u, x, store, Mishaps)
       /\ \A q \in Objects : m.obj[q] # None => x.obj[q] = m.obj[q]
  <2>1. PICK z : z = m  OBVIOUS
  <2>2. PICK j \in Ids : j = i  BY <1>6
  <2>3. (u.pc = "open" /\ j = TheDeck) \/ (u.pc = "child" /\ j = u.id)  BY <1>2, <2>2
  <2>4. l = Loaded(p, j)  BY <1>8, <2>2
  <2>5. /\ l.mem \in MemRec /\ l.mem.queue = z.queue
        /\ (u.cmd = "reread" => Rereading(p) = {}) => \A k \in Ids : l.mem.owner[k] # p
        /\ l.at # None => l.at \in Objects /\ l.mem.obj[l.at] = store[j]
        /\ Coherent(u, l.mem, store, Mishaps) \/ (u.pc = "open" /\ l.at = None)
        /\ \A q \in Objects : z.obj[q] # None => l.mem.obj[q] = z.obj[q]
    BY <1>2, <2>1, <2>3, <2>4, LoadedIs
  <2>6. l.at # None  BY <1>2, <1>8
  <2>7. QED  BY <1>2, <1>9, <2>1, <2>2, <2>5, <2>6
<1>11. PICK ids \in SUBSET Ids : ids = {TheDeck}  BY ConstantFacts
<1>12. PICK v : v = [u EXCEPT !.kid = o]  OBVIOUS
<1>13. /\ v \in RetRec /\ v.got = u.got /\ v.deck = u.deck /\ v.kid = o /\ v.id = i /\ v.todo = u.todo
       /\ v.undo = u.undo /\ v.key = u.key /\ v.reply = u.reply
  <2>1. PICK q \in Objects \cup {None} : q = o  BY <1>10
  <2>2. v = [u EXCEPT !.kid = q]  BY <1>12, <2>1
  <2>3. QED  BY <1>1, <2>1, <2>2, RetKidded
<1>14. PICK c : c = Touching(v, ids, "child")  OBVIOUS
<1>15. /\ c \in RetRec /\ c.pc = "child" /\ c.cmd = "reread" /\ c.out = ids /\ c.got = u.got /\ c.deck = u.deck
       /\ c.kid = o /\ c.id = i /\ c.todo = u.todo /\ c.undo = u.undo /\ c.key = u.key /\ c.reply = u.reply
  <2>1. PICK step \in ReturnSteps : step = "child"  BY DEF ReturnSteps, PriorSteps
  <2>2. c = Touching(v, ids, step)  BY <1>14, <2>1
  <2>3. QED  BY <1>13, <2>1, <2>2, RetTouching
<1>16. PICK w : w = Claimed(x, ids, p)  OBVIOUS
<1>17. /\ w \in MemRec /\ w.slot = x.slot /\ w.obj = x.obj /\ w.queue = x.queue
       /\ \A j \in Ids : w.owner[j] = p => j \in ids \/ x.owner[j] = p
  BY <1>10, <1>16, ClaimedIs
<1>18. Becomes(p, w, c, Wakes(p, c))
  <2>1. Rereads(p, x, v, ids, "child")
    <3>1. Rereads(p, l.mem, [u EXCEPT !.kid = l.at], {TheDeck}, u.pc)  BY <1>1, <1>8 DEF TouchDeck
    <3>2. QED  BY <1>2, <1>9, <1>11, <1>12, <3>1
  <2>2. Becomes(p, w, c, {})  BY <1>14, <1>16, <2>1, Zenon DEF Rereads, Touching, Claimed
  <2>3. Wakes(p, c) = {}  BY <1>15 DEF Wakes
  <2>4. QED  BY <2>2, <2>3
<1>19. Progress(scene, p, c, store, c.cmd # "none", losses, Mishaps)
  <2>1. c.kid # None  BY <1>10, <1>15, ConstantFacts
  <2>2. AtKids(scene, p, c, store, c.cmd # "none", Mishaps)
    <3>1. <<c.key, c.id>> \in Runs0(scene) \ c.todo /\ store[c.id] = Child0(scene, c.id)
      BY <1>5, <1>15
    <3>2. QED  BY <1>15, <2>1, <3>1 DEF AtKids
  <2>3. Rowed(scene, p, c, store, losses, Mishaps)  BY <1>2, <1>3, <1>15 DEF Rowed
  <2>4. Undone(scene, c)  BY <1>3, <1>15 DEF Undone
  <2>5. c.deck # None /\ c.pc \in Midway /\ c.pc # "replay"  BY <1>3, <1>15, ConstantFacts DEF Midway
  <2>6. c.todo \subseteq Runs0(scene) /\ \A q \in c.todo : store[q[2]] = Child0(scene, q[2])
    BY <1>3, <1>15
  <2>7. c.reply = "none" /\ (c.got = Lost => losses > 0)  BY <1>3, <1>15
  <2>8. QED  BY <1>3, <1>15, <2>2, <2>3, <2>4, <2>5, <2>6, <2>7, MidProgress
<1>20. Recalls(scene, p, c, w, store, Mishaps)
  <2>1. u.pc # "token" /\ \A q \in Objects : x.obj[q] # None => w.obj[q] = x.obj[q]  BY <1>2, <1>17
  <2>2. Coherent(c, w, store, Mishaps)  BY <1>3, <1>10, <1>17, <2>1, CoherentKept
  <2>3. w.obj[c.deck] = Copied(scene, p)  BY <1>3, <1>7, <1>10, <1>15, <1>17
  <2>4. w.obj[c.kid] = store[c.id]  BY <1>10, <1>15, <1>17
  <2>5. \A k \in Keys : w.queue[k] = <<>>  BY <1>4, <1>10, <1>17
  <2>6. QED  BY <1>15, <2>2, <2>3, <2>4, <2>5 DEF Recalls
<1>21. Owning(p, c, w, store, c.cmd # "none")
  <2>1. (c.cmd # "none") = TRUE  BY <1>15
  <2>2. Owning(p, c, w, store, TRUE)  BY <1>10, <1>15, <1>17 DEF Owning
  <2>3. QED  BY <2>1, <2>2
<1>22. QED  BY <1>1, <1>2, <1>15, <1>17, <1>18, <1>19, <1>20, <1>21, StepKept

\* The memory when a write was answered.
LEMMA SavedIs ==
    ASSUME NEW p \in Calls, At[p] \in Nodes, call[p] \in RetRec, mem[At[p]] \in MemRec, NEW w, w = Saved(p)
    PROVE  /\ w \in MemRec /\ w.obj = mem[At[p]].obj /\ w.queue = mem[At[p]].queue
           /\ w.slot[call[p].on] = Held(call[p], call[p].on)
           /\ \A j \in Ids : j # call[p].on => w.slot[j] = mem[At[p]].slot[j]
           /\ \A j \in Ids : w.owner[j] = p => mem[At[p]].owner[j] = p
<1> DEFINE m == mem[At[p]]
           i == call[p].on
           h == Held(call[p], call[p].on)
           s == [m.slot EXCEPT ![i] = h]
           n == [m.owner EXCEPT ![i] = None]
<1>1. i \in Ids /\ h \in Objects \cup {None}  BY RetFields DEF Held
<1>2. m.slot \in [Ids -> Objects \cup {None}] /\ m.owner \in [Ids -> Calls \cup {None}]  BY MemFields
<1>3. /\ s \in [Ids -> Objects \cup {None}] /\ n \in [Ids -> Calls \cup {None}]
      /\ s[i] = h /\ (\A j \in Ids : j # i => s[j] = m.slot[j])
      /\ \A j \in Ids : n[j] = p => m.owner[j] = p
  BY <1>1, <1>2, ConstantFacts
<1>4. w = [m EXCEPT !.slot = s, !.owner = n]  BY DEF Saved
<1> HIDE DEF s, n
<1>5. PICK y : y = [m EXCEPT !.slot = s]  OBVIOUS
<1>6. y \in MemRec /\ y.obj = m.obj /\ y.queue = m.queue /\ y.slot = s  BY <1>3, <1>5 DEF MemRec
<1>7. w = [y EXCEPT !.owner = n]  BY <1>4, <1>5, Zenon
<1>8. w \in MemRec /\ w.obj = y.obj /\ w.queue = y.queue /\ w.slot = y.slot /\ w.owner = n  BY <1>3, <1>6, <1>7 DEF MemRec
<1>9. QED  BY <1>3, <1>6, <1>8

\* The child was written: the return can take that back.
LEMMA RetTokens ==
    ASSUME NEW p \in Calls, Sole(p), Returns(p), Token(p), SetOK(p)
    PROVE  Returns(p)'
<1> DEFINE u == call[p]
           m == mem[At[p]]
           i == u.id
<1>1. /\ u \in RetRec /\ m \in MemRec /\ M(p) = m /\ C(p) = u /\ Recalls(scene, p, u, m, store, Mishaps)
      /\ scene \in Scene /\ Is(p, "return") /\ ~Is(p, "entry") /\ ~Is(p, "join") /\ At[p] \in Nodes
  <2>1. \A k : Is(p, k) => k = "return"  BY ReturnFacts
  <2>2. ~Is(p, "entry") /\ ~Is(p, "join")  BY <2>1
  <2>3. QED  BY <2>2, ReturnFacts
<1>2. u.pc = "token" /\ p \in conn[At[p]].ready /\ u.pc \in Midway  BY DEF Token, At_, Midway
<1>3. /\ u.deck \in Objects /\ u.reply = "none" /\ u.todo \subseteq Runs0(scene)
      /\ \A r \in u.todo : store[r[2]] = Child0(scene, r[2])
      /\ Rowed(scene, p, u, store, losses, Mishaps) /\ Undone(scene, u)
      /\ (u.got = Lost => losses > 0) /\ store[TheDeck] = Deck0(scene)
      /\ Coherent(u, m, store, Mishaps) /\ \A j \in Ids : store[j] # None
      /\ m.obj[u.deck] = Copied(scene, p) /\ Mishaps \in Nat /\ losses \in Nat
  BY <1>2, MidFacts
<1>4. (\A k \in Keys : m.queue[k] = <<>>) /\ m.obj[u.kid] = Child1(scene, p, i)  BY <1>1, <1>2 DEF Recalls
<1>5. /\ <<u.key, i>> \in Runs0(scene) \ u.todo /\ u.on = i /\ u.kid # None
      /\ u.orig = Child0(scene, i) /\ store[i] = Child1(scene, p, i)
  <2>1. Progress(scene, p, u, store, FALSE, losses, Mishaps)  BY <1>2, ReturnFacts
  <2>2. u.got # Lost  BY DEF SetOK
  <2>3. QED  BY <1>2, <2>1, <2>2 DEF Progress, AtKids
<1>6. i \in Children /\ i \in Ids /\ i # TheDeck /\ Child0(scene, i) \in Child
  <2>1. PICK r \in Runs0(scene) : r = <<u.key, i>>  BY <1>5
  <2>2. r[2] = i  BY <2>1
  <2>3. QED  BY <1>1, <2>1, <2>2, RunsFacts
<1>7. PICK w : w = Saved(p)  OBVIOUS
<1>8. /\ w \in MemRec /\ w.obj = m.obj /\ w.queue = m.queue /\ w.slot[i] = u.kid
      /\ \A j \in Ids : j # i => w.slot[j] = m.slot[j]
      /\ \A j \in Ids : w.owner[j] # p
  <2>1. Held(u, i) = u.kid  BY <1>6 DEF Held
  <2>2. u.cmd = "set" /\ u.pc \in PriorSteps
    <3>1. Progress(scene, p, u, store, FALSE, losses, Mishaps)  BY <1>2, ReturnFacts
    <3>2. QED  BY <1>2, <3>1 DEF Progress, AtKids, PriorSteps
  <2>3. \A j \in Ids : m.owner[j] # p  BY <2>2, Unowned
  <2>4. QED  BY <1>1, <1>5, <1>7, <2>1, <2>3, SavedIs
<1>9. PICK d : d = Append(u.undo, <<i, u.orig>>)  OBVIOUS
<1>10. d \in Undos /\ \A l \in 1..Len(d) : d[l][2] = Child0(scene, d[l][1])
  <2>1. u.undo \in Seq(Children \X Child)  BY <1>1, RetFields DEF Undos
  <2>2. PICK e \in Children \X Child : e = <<i, u.orig>>  BY <1>5, <1>6
  <2>3. d \in Seq(Children \X Child)  BY <1>9, <2>1, <2>2
  <2>4. Len(d) = Len(u.undo) + 1 /\ d[Len(u.undo) + 1] = e
        /\ \A l \in 1..Len(u.undo) : d[l] = u.undo[l]
    BY <1>9, <2>1, <2>2
  <2>5. e[1] = i /\ e[2] = Child0(scene, i)  BY <1>5, <2>2
  <2>6. ASSUME NEW l \in 1..Len(d) PROVE d[l][2] = Child0(scene, d[l][1])
    <3>1. Len(u.undo) \in Nat  BY <2>1
    <3>2. l \in 1..Len(u.undo) \/ l = Len(u.undo) + 1  BY <2>4, <3>1
    <3>3. CASE l \in 1..Len(u.undo)  BY <1>3, <2>4, <3>3 DEF Undone
    <3>4. CASE l = Len(u.undo) + 1  BY <2>4, <2>5, <3>4
    <3>5. QED  BY <3>2, <3>3, <3>4
  <2>7. QED  BY <2>3, <2>6 DEF Undos
<1>11. PICK v : v = Reverting(u, d)  OBVIOUS
<1>12. /\ v \in RetRec /\ v.got = u.got /\ v.deck = u.deck /\ v.todo = u.todo /\ v.undo = d /\ v.reply = u.reply
  BY <1>1, <1>10, <1>11, RetNoting
<1>13. "replay" \in ReturnSteps  BY DEF ReturnSteps, PriorSteps
<1>14. PICK c : c = Going(v, "replay")  OBVIOUS
<1>15. /\ c \in RetRec /\ c.pc = "replay" /\ c.cmd = "none" /\ c.deck = u.deck /\ c.undo = d
       /\ c.todo = u.todo /\ c.reply = "none" /\ c.got = u.got
  BY <1>3, <1>12, <1>13, <1>14, RetGoing
<1>16. Becomes(p, w, c, {p})
  <2>1. Goes(p, Saved(p), [C(p) EXCEPT !.undo = Append(@, <<C(p).id, C(p).orig>>), !.orig = None], "replay")
    BY <1>1 DEF Token
  <2>2. Goes(p, w, v, "replay")  BY <1>1, <1>7, <1>9, <1>11, <2>1 DEF Reverting
  <2>3. QED  BY <1>14, <2>2, Zenon DEF Goes, Going
<1>17. Wakes(p, c) = {p}  BY <1>15 DEF Wakes
<1>18. Becomes(p, w, c, Wakes(p, c))  BY <1>16, <1>17
<1>19. Progress(scene, p, c, store, c.cmd # "none", losses, Mishaps)
  <2>1. AtKids(scene, p, c, store, c.cmd # "none", Mishaps)  BY <1>15 DEF AtKids
  <2>2. Rowed(scene, p, c, store, losses, Mishaps)
    <3>1. ASSUME NEW r \in Runs0(scene), r = <<u.key, i>> PROVE store[r[2]] = Child1(scene, p, r[2])
      BY <1>5, <3>1
    <3>2. QED  BY <1>3, <1>15, <3>1 DEF Rowed
  <2>3. Undone(scene, c)  BY <1>10, <1>15 DEF Undone
  <2>4. c.deck # None /\ c.pc \in Midway  BY <1>3, <1>15, ConstantFacts DEF Midway
  <2>5. c.todo \subseteq Runs0(scene) /\ \A q \in c.todo : store[q[2]] = Child0(scene, q[2])
    BY <1>3, <1>15
  <2>6. c.reply = "none" /\ (c.got = Lost => losses > 0)  BY <1>3, <1>15
  <2>7. QED  BY <1>3, <1>15, <2>1, <2>2, <2>3, <2>4, <2>5, <2>6, MidProgress
<1>20. Recalls(scene, p, c, w, store, Mishaps)
  <2>1. Coherent(c, w, store, Mishaps)
    <3>1. \A j \in Ids : w.slot[j] # None => w.obj[w.slot[j]] = store[j]
      <4>1. \A j \in Ids : j # i /\ m.slot[j] # None => m.obj[m.slot[j]] = store[j]  BY <1>3 DEF Coherent
      <4>2. w.obj[w.slot[i]] = store[i]  BY <1>4, <1>5, <1>8
      <4>3. QED  BY <1>8, <4>1, <4>2
    <3>2. Mishaps = 0 => \A j \in Ids : store[j] # Gone => w.slot[j] # None
      BY <1>3, <1>5, <1>8 DEF Coherent
    <3>3. QED  BY <3>1, <3>2 DEF Coherent
  <2>2. QED  BY <1>3, <1>4, <1>8, <1>15, <2>1 DEF Recalls
<1>21. Owning(p, c, w, store, c.cmd # "none")  BY <1>8, <1>15, OwnsNothing
<1>22. QED  BY <1>1, <1>2, <1>8, <1>15, <1>18, <1>19, <1>20, <1>21, StepKept

\* The record was written.
LEMMA RetNotes ==
    ASSUME NEW p \in Calls, Sole(p), Returns(p), Noted(p)
    PROVE  Returns(p)'
<1>1. call[p].pc = "noted" /\ p \in conn[At[p]].ready /\ call[p].got # Lost  BY DEF Noted, At_, SetOK
<1>2. Answers(p, Saved(p), "ok")
  <2>1. \A k : Is(p, k) => k = "return"  BY ReturnFacts
  <2>2. ~Is(p, "update") /\ ~Is(p, "start") /\ ~Is(p, "end") /\ ~Is(p, "join")  BY <2>1
  <2>3. QED  BY <2>2 DEF Noted
<1>3. Progress(scene, p, call[p], store, FALSE, losses, Mishaps)  BY <1>1, ReturnFacts
<1>4. store[TheDeck] = Deck1(scene, p)  BY <1>1, <1>3 DEF Progress, DeckNow
<1>5. \A r \in Runs0(scene) : store[r[2]] = Child1(scene, p, r[2]) \/ (losses > 0 /\ Mishaps > 1)
  BY <1>1, <1>3 DEF Progress, KidsNow, Midway
<1>6. PICK w : w = Saved(p)  OBVIOUS
<1>7. w \in MemRec /\ w.queue = mem[At[p]].queue  BY <1>6, ReturnFacts, SavedIs
<1>8. QED  BY <1>1, <1>2, <1>4, <1>5, <1>6, <1>7, RetAnswers

\* The return failed: what it wrote is written back.
LEMMA RetUndoes ==
    ASSUME NEW p \in Calls, Sole(p), Returns(p), Undo(p)
    PROVE  Returns(p)'
<1> DEFINE u == call[p]
           j == IF u.pc = "undo" THEN u.left ELSE Len(u.undo)
<1>1. /\ u \in RetRec /\ mem[At[p]] \in MemRec /\ M(p) = mem[At[p]] /\ C(p) = u
      /\ Recalls(scene, p, u, mem[At[p]], store, Mishaps) /\ Tidy(u, mem[At[p]]) /\ At[p] \in Nodes
      /\ losses \in Nat
  BY ReturnFacts DEF Returns, Clear
<1>2. /\ u.pc \in {"token", "noted", "undo"} /\ p \in conn[At[p]].ready
      /\ u.pc \in {"token", "noted"} => u.got = Lost
  BY DEF Undo, At_, SetOK
<1>3. Progress(scene, p, u, store, FALSE, losses, Mishaps)  BY <1>2, ReturnFacts
<1>4. Undone(scene, u) /\ losses > 0  BY <1>2, <1>3 DEF Progress, Undoing, Undone
<1>5. u.undo \in Seq(Children \X Child) /\ Len(u.undo) \in Nat  BY <1>1, RetFields DEF Undos
<1>6. /\ j \in 0..Len(u.undo)
      /\ losses <= 1 => \A l \in 1..Len(u.undo) : l > j => Restored(u, store, l)
  <2>1. CASE u.pc = "undo"
    <3>1. u.left \in Nat  BY <1>1, RetFields
    <3>2. u.left < Len(u.undo)  BY <1>3, <2>1 DEF Progress, Undoing
    <3>3. ASSUME losses <= 1, NEW l \in 1..Len(u.undo), l > j PROVE Restored(u, store, l)
      <4>1. l > u.left + 1 \/ l = u.left + 1  BY <2>1, <3>1, <3>3, <1>5
      <4>2. QED  BY <1>3, <2>1, <3>3, <4>1 DEF Progress, Undoing
    <3>4. j \in 0..Len(u.undo)  BY <1>5, <2>1, <3>1, <3>2
    <3>5. QED  BY <3>3, <3>4
  <2>2. CASE u.pc # "undo"
    <3>1. j = Len(u.undo)  BY <2>2
    <3>2. QED  BY <1>5, <3>1
  <2>3. QED  BY <2>1, <2>2
<1> HIDE DEF j
<1>7. u.reply = "none" /\ u.pc # "done"  BY <1>2, <1>3 DEF Progress, Begun
<1>8. PICK m : m = IF SetOK(p) THEN Saved(p) ELSE M(p)  OBVIOUS
<1>9. m \in MemRec /\ m.obj = mem[At[p]].obj /\ m.queue = mem[At[p]].queue
  <2>1. PICK w : w = Saved(p)  OBVIOUS
  <2>2. w \in MemRec /\ w.obj = mem[At[p]].obj /\ w.queue = mem[At[p]].queue  BY <1>1, <2>1, SavedIs
  <2>3. QED  BY <1>1, <1>8, <2>1, <2>2
<1>10. PICK o : o = Fresh(m)  OBVIOUS
<1>11. o \in Objects
  <2>1. PICK x \in MemRec : x = mem[At[p]]  BY <1>1
  <2>2. Fresh(x) \in Objects  BY <1>1, <2>1, TidyRoom
  <2>3. Fresh(m) = Fresh(x)  BY <1>9, <2>1 DEF Fresh
  <2>4. QED  BY <1>10, <2>2, <2>3
<1>12. CASE j = 0 /\ Answers(p, m, "failed")
  <2>1. ASSUME losses <= 1, NEW l \in 1..Len(call[p].undo) PROVE Restored(call[p], store, l)
    <3>1. l > j  BY <1>5, <1>12
    <3>2. QED  BY <1>6, <2>1, <3>1
  <2>2. PICK reply \in {"ok", "refused", "failed"} : reply = "failed"  OBVIOUS
  <2>3. Answers(p, m, reply) /\ reply # "ok"  BY <1>12, <2>2
  <2>4. QED  BY <1>2, <1>9, <2>1, <2>3, RetAnswers
<1>13. CASE /\ j # 0
            /\ Set(p, Put(m, o, u.undo[j][2]), [u EXCEPT !.left = j - 1], u.undo[j][1], o, "undo")
  <2>1. j \in 1..Len(u.undo) /\ j - 1 \in Nat /\ j - 1 < Len(u.undo)  BY <1>5, <1>6, <1>13
  <2>2. u.undo[j] \in Children \X Child  BY <1>5, <2>1
  <2>3. PICK i \in Ids, d \in Child : i = u.undo[j][1] /\ d = u.undo[j][2] /\ i # TheDeck
    BY <2>2, ConstantFacts
  <2>4. PICK y : y = Put(m, o, d)  OBVIOUS
  <2>5. y \in MemRec /\ y.queue = m.queue /\ y.obj[o] = d  BY <1>9, <1>11, <2>4, PutIs
  <2>6. PICK k \in Nat : k = j - 1  BY <2>1
  <2>7. PICK v : v = [u EXCEPT !.left = k]  OBVIOUS
  <2>8. v \in RetRec /\ v.got = u.got /\ v.undo = u.undo /\ v.left = k /\ v.reply = u.reply
    BY <1>1, <2>7, RetLeaving
  <2>9. PICK step \in ReturnSteps : step = "undo"  BY DEF ReturnSteps
  <2>10. Set(p, y, v, i, o, step) /\ step # "done" /\ y.obj[o] \in Values
    BY <1>13, <2>3, <2>4, <2>5, <2>6, <2>7, <2>9 DEF Values
  <2>11. PICK c \in RetRec :
               /\ Becomes(p, y, c, Wakes(p, c))
               /\ c.pc = step /\ c.cmd = "set" /\ c.on = i /\ c.out = y.obj[o] /\ c.got = v.got
               /\ c.undo = v.undo /\ c.left = v.left /\ c.reply = v.reply
    BY <1>11, <2>5, <2>8, <2>10, RetSets
  <2>12. /\ c.pc = "undo" /\ c.cmd = "set" /\ c.on = i /\ c.out = d /\ c.got = u.got
         /\ c.undo = u.undo /\ c.left = k /\ c.reply = "none"
    BY <1>7, <2>5, <2>8, <2>9, <2>11
  <2>13. Progress(scene, p, c, store, c.cmd # "none", losses, Mishaps)
    <3>1. Begun(c)  BY <2>12 DEF Begun, Midway
    <3>2. Opening(scene, c, c.cmd # "none")  BY <2>12 DEF Opening
    <3>3. AtKids(scene, p, c, store, c.cmd # "none", Mishaps)  BY <2>12 DEF AtKids
    <3>4. DeckNow(scene, p, c, store, c.cmd # "none")  BY <2>12 DEF DeckNow, PriorSteps
    <3>5. KidsNow(scene, p, c, store, losses, Mishaps)  BY <2>12 DEF KidsNow, Midway
    <3>6. Undoing(scene, c, store, c.cmd # "none", losses)
      <4>1. c.left + 1 = j /\ c.left < Len(c.undo)  BY <2>1, <2>6, <2>12
      <4>2. ASSUME losses <= 1, NEW l \in 1..Len(c.undo), l > c.left + 1 PROVE Restored(c, store, l)
        <5>1. Restored(u, store, l)  BY <1>6, <2>12, <4>1, <4>2
        <5>2. QED  BY <2>12, <5>1 DEF Restored
      <4>3. c.cmd # "none" /\ c.reply # "failed" /\ c.pc = "undo" /\ c.cmd = "set"  BY <2>12
      <4>4. c.on = c.undo[c.left + 1][1] /\ c.out = c.undo[c.left + 1][2]  BY <2>3, <2>12, <4>1
      <4>5. Undone(scene, c)  BY <1>4, <2>12 DEF Undone
      <4>6. losses <= 1 => \A l \in 1..Len(c.undo) :
                 l > c.left + 1 \/ (l = c.left + 1 /\ ~(c.cmd # "none")) => Restored(c, store, l)
        BY <4>2, <4>3
      <4>7. QED  BY <1>4, <4>1, <4>3, <4>4, <4>5, <4>6 DEF Undoing, Undone
    <3>7. QED  BY <3>1, <3>2, <3>3, <3>4, <3>5, <3>6 DEF Progress
  <2>14. Recalls(scene, p, c, y, store, Mishaps)
    BY <1>1, <1>9, <2>5, <2>12 DEF Recalls, PriorSteps, Midway
  <2>15. Owning(p, c, y, store, c.cmd # "none")  BY <2>12 DEF Owning, PriorSteps
  <2>16. QED  BY <1>2, <2>5, <2>11, <2>12, <2>13, <2>14, <2>15, StepKept
<1>14. \/ j = 0 /\ Answers(p, m, "failed")
       \/ /\ j # 0
          /\ Set(p, Put(m, o, u.undo[j][2]), [u EXCEPT !.left = j - 1], u.undo[j][1], o, "undo")
  BY <1>1, <1>8, <1>10, Zenon DEF Undo, j
<1>15. QED  BY <1>12, <1>13, <1>14

-----------------------------------------------------------------------------
(* Valkey, the connection and the cache                                    *)

LEMMA RetHeard ==
    ASSUME NEW u \in RetRec, NEW g \in Gots, NEW c, c = RunFor(u, g)
    PROVE  /\ c \in RetRec
           /\ c.pc = u.pc /\ c.cmd = u.cmd /\ c.on = u.on /\ c.out = None /\ c.got = g
           /\ c.deck = u.deck /\ c.kid = u.kid /\ c.id = u.id /\ c.todo = u.todo /\ c.undo = u.undo
           /\ c.left = u.left /\ c.key = u.key /\ c.orig = u.orig /\ c.reply = u.reply
<1>1. PICK v : v = [u EXCEPT !.out = None]  OBVIOUS
<1>2. v \in RetRec  BY <1>1 DEF RetRec, Outs
<1>3. /\ v.pc = u.pc /\ v.cmd = u.cmd /\ v.on = u.on /\ v.out = None /\ v.got = u.got
      /\ v.deck = u.deck /\ v.kid = u.kid /\ v.id = u.id /\ v.todo = u.todo /\ v.undo = u.undo
      /\ v.left = u.left /\ v.key = u.key /\ v.orig = u.orig /\ v.reply = u.reply
  BY <1>1, <1>2 DEF RetRec
<1>4. PICK w : w = [v EXCEPT !.got = g]  OBVIOUS
<1>5. w \in RetRec  BY <1>4, <1>2 DEF RetRec
<1>6. /\ w.pc = v.pc /\ w.cmd = v.cmd /\ w.on = v.on /\ w.out = v.out /\ w.got = g
      /\ w.deck = v.deck /\ w.kid = v.kid /\ w.id = v.id /\ w.todo = v.todo /\ w.undo = v.undo
      /\ w.left = v.left /\ w.key = v.key /\ w.orig = v.orig /\ w.reply = v.reply
  BY <1>4, <1>2, <1>5 DEF RetRec
<1>7. c = w  BY <1>1, <1>4, Zenon DEF RunFor
<1>8. QED  BY <1>2, <1>3, <1>5, <1>6, <1>7

LEMMA HeardIs ==
    ASSUME NEW u \in RetRec, NEW g, NEW c, c = RunFor(u, g)
    PROVE  c.pc = u.pc /\ c.cmd = u.cmd /\ c.deck = u.deck /\ c.kid = u.kid
<1>1. PICK v : v = [u EXCEPT !.out = None]  OBVIOUS
<1>2. v \in RetRec  BY <1>1 DEF RetRec, Outs
<1>3. v.pc = u.pc /\ v.cmd = u.cmd /\ v.deck = u.deck /\ v.kid = u.kid  BY <1>1, <1>2 DEF RetRec
<1>4. PICK w : w = [v EXCEPT !.got = g]  OBVIOUS
<1>5. w.pc = v.pc /\ w.cmd = v.cmd /\ w.deck = v.deck /\ w.kid = v.kid  BY <1>2, <1>4 DEF RetRec
<1>6. c = w  BY <1>1, <1>4, Zenon DEF RunFor
<1>7. QED  BY <1>3, <1>5, <1>6

LEMMA RetFailed ==
    ASSUME NEW u \in RetRec, NEW c, c = [u EXCEPT !.got = Lost, !.out = None]
    PROVE  c = RunFor(u, Lost)
<1>1. [u EXCEPT !.got = Lost, !.out = None] = [u EXCEPT !.out = None, !.got = Lost]  BY DEF RetRec
<1>2. QED  BY <1>1 DEF RunFor

\* What the return goes by when only the answer of its command is new.
LEMMA SameRecalls ==
    ASSUME NEW p, NEW s, NEW u \in RetRec, NEW c \in RetRec, NEW m, NEW st, NEW mis, Recalls(s, p, u, m, st, mis),
           c.pc = u.pc, c.cmd = u.cmd, c.deck = u.deck, c.kid = u.kid, c.id = u.id
    PROVE  Recalls(s, p, c, m, st, mis)
<1>1. Coherent(u, m, st, mis) => Coherent(c, m, st, mis)  BY DEF Coherent
<1>2. QED  BY <1>1 DEF Recalls

\* The same with one mishap more.
LEMMA LaterRecalls ==
    ASSUME NEW p, NEW s, NEW u, NEW m, NEW st, NEW mis \in Nat, Recalls(s, p, u, m, st, mis)
    PROVE  Recalls(s, p, u, m, st, mis + 1)
<1>1. PICK b \in Nat : b = mis + 1 /\ b # 0  OBVIOUS
<1>2. Coherent(u, m, st, mis) => Coherent(u, m, st, b)  BY <1>1 DEF Coherent
<1>3. Recalls(s, p, u, m, st, b)  BY <1>2 DEF Recalls
<1>4. QED  BY <1>1, <1>3

\* A command is on the way on the connection of the return, and nowhere else.
LEMMA WireFacts ==
    ASSUME NEW p \in Calls, Sole(p), Returns(p), NEW n \in Nodes
    PROVE  /\ conn[n].sent # <<>> => /\ n = At[p] /\ call[p].cmd # "none" /\ call[p].pc \notin {"idle", "done"}
                                     /\ conn[n] = [Quiet EXCEPT !.sent = <<p>>]
           /\ conn[n].back # <<>> => /\ n = At[p] /\ call[p].cmd # "none" /\ call[p].pc \notin {"idle", "done"}
                                     /\ conn[n] = [Quiet EXCEPT !.back = <<p>>]
<1>1. n # At[p] => conn[n].sent = <<>> /\ conn[n].back = <<>>
  BY QuietIs DEF Returns, Clear
<1>2. PICK w : w = conn[At[p]]  OBVIOUS
<1>3. OnWire(p, call[p], w)  BY <1>2 DEF Returns
<1>4. w = Quiet \/ w = [Quiet EXCEPT !.ready = {p}] => w.sent = <<>> /\ w.back = <<>>  BY QuietIs
<1>5. w = [Quiet EXCEPT !.sent = <<p>>] => w.back = <<>>  BY QuietIs
<1>6. w = [Quiet EXCEPT !.back = <<p>>] => w.sent = <<>>  BY QuietIs
<1>7. \/ w = Quiet \/ w = [Quiet EXCEPT !.ready = {p}]
      \/ /\ call[p].cmd # "none" /\ call[p].pc \notin {"idle", "done"}
         /\ (w = [Quiet EXCEPT !.sent = <<p>>] \/ w = [Quiet EXCEPT !.back = <<p>>])
  BY <1>3 DEF OnWire
<1>8. CASE n # At[p]  BY <1>1, <1>8
<1>9. CASE n = At[p]  BY <1>2, <1>4, <1>5, <1>6, <1>7, <1>9
<1>10. QED  BY <1>8, <1>9

\* A step of Valkey or of the connection.
Holds0(s, st) == /\ st \in [Ids -> Deck \cup Child \cup {Gone}] /\ st[TheDeck] \in Deck
                 /\ \A i \in Children : IF i <= Cardinality(s.running) THEN st[i] \in Child ELSE st[i] = Gone
LEMMA CarriedOn ==
    ASSUME NEW p \in Calls, Sole(p), Returns(p), NEW c \in RetRec, NEW w \in ConnRec,
           scene' = scene, mem' = mem, ages' = ages, losses' \in Nat,
           call' = [call EXCEPT ![p] = c], conn' = [conn EXCEPT ![At[p]] = w],
           Holds0(scene, store'), c.deck = call[p].deck, c.kid = call[p].kid,
           Progress(scene, p, c, store', w.sent # <<>>, losses', Mishaps'),
           Recalls(scene, p, c, mem[At[p]], store', Mishaps'), OnWire(p, c, w),
           Owning(p, c, mem[At[p]], store', w.sent # <<>>)
    PROVE  Returns(p)'
<1>1. Clear(p) /\ Tidy(call[p], mem[At[p]]) /\ At[p] \in Nodes  BY ReturnFacts DEF Returns
<1>2. call' \in [Calls -> RetRec] /\ call'[p] = c /\ \A q \in Calls : q # p => call'[q] = call[q]
  BY <1>1 DEF Clear
<1>3. conn' \in [Nodes -> ConnRec] /\ conn'[At[p]] = w /\ \A n \in Nodes : n # At[p] => conn'[n] = conn[n]
  BY <1>1 DEF Clear
<1>4. \A q \in Calls : q # p => call'[q].pc = "done" /\ call'[q].reply = "none" /\ call'[q].cmd = "none"
                                /\ call'[q].deck = None /\ call'[q].kid = None
  BY <1>1, <1>2 DEF Clear
<1>5. Clear(p)'  BY <1>1, <1>2, <1>3, <1>4 DEF Clear, Holds0
<1>6. Tidy(c, mem[At[p]])  BY <1>1 DEF Tidy
<1>7. QED  BY <1>2, <1>3, <1>5, <1>6, Zenon DEF Returns

\* The command of the return is run.
Answer(u, st) == CASE u.cmd = "get"    -> st[u.on]
                   [] u.cmd = "reread" -> [anew |-> [i \in u.out |-> st[i]]]
                   [] OTHER            -> None
Effect(u, st) == IF u.cmd = "set" THEN [st EXCEPT ![u.on] = u.out] ELSE st
LEMMA RunProgress ==
    ASSUME NEW p \in Calls, NEW s \in Scene, NEW st, Holds0(s, st), NEW ls, NEW mis, NEW u \in RetRec,
           u.cmd # "none", u.pc \notin {"idle", "done"}, Progress(s, p, u, st, TRUE, ls, mis),
           u.cmd = "reread" => u.out \subseteq Ids, NEW g, g = Answer(u, st), NEW c, c = RunFor(u, g), NEW t, t = Effect(u, st)
    PROVE  /\ c \in RetRec /\ Progress(s, p, c, t, FALSE, ls, mis) /\ Holds0(s, t)
           /\ \A m : Recalls(s, p, u, m, st, mis) => Recalls(s, p, c, m, t, mis)
           /\ \A m : Owning(p, u, m, st, TRUE) => Owning(p, c, m, t, FALSE)
<1>0. /\ u.cmd = "get" => g = st[u.on]
      /\ u.cmd = "reread" => g = [anew |-> [i \in u.out |-> st[i]]]
      /\ u.cmd \notin {"get", "reread"} => g = None
      /\ t = IF u.cmd = "set" THEN [st EXCEPT ![u.on] = u.out] ELSE st
  BY DEF Answer, Effect
<1>1. /\ u.on \in Ids /\ u.pc \in ReturnSteps /\ u.cmd \in {"get", "set", "reread"}
      /\ u.undo \in Seq(Children \X Child) /\ u.left \in Nat /\ Len(u.undo) \in Nat
  BY RetFields DEF Undos
<1>2. g \in Gots /\ g # Lost /\ (u.cmd = "reread" => \A i \in u.out : g.anew[i] = st[i])
  <2>1. st \in [Ids -> Deck \cup Child \cup {Gone}] /\ Lost \notin Deck \cup Child \cup {None} \cup Batch /\ Lost # Gone
    BY NothingOK DEF Holds0
  <2>2. CASE u.cmd = "reread"
    <3>1. PICK f : f = [i \in u.out |-> st[i]]  OBVIOUS
    <3>2. f \in [u.out -> Deck \cup Child \cup {Gone}] /\ u.out \in SUBSET Ids  BY <2>1, <2>2, <3>1
    <3>3. f \in UNION {[ids -> Deck \cup Child \cup {Gone}] : ids \in SUBSET Ids}  BY <3>2
    <3>4. g = [anew |-> f]  BY <1>0, <2>2, <3>1
    <3>5. g \in Batch  BY <3>3, <3>4 DEF Batch
    <3>6. g.anew = f  BY <3>4
    <3>7. QED  BY <2>1, <3>1, <3>5, <3>6 DEF Gots
  <2>3. CASE u.cmd # "reread"
    <3>1. g \in Deck \cup Child \cup {Gone, None}  BY <1>0, <1>1, <2>1, <2>3
    <3>2. QED  BY <2>1, <2>3, <3>1 DEF Gots, Values
  <2>4. QED  BY <2>2, <2>3
<1>3. /\ c \in RetRec
      /\ c.pc = u.pc /\ c.cmd = u.cmd /\ c.on = u.on /\ c.out = None /\ c.got = g
      /\ c.deck = u.deck /\ c.kid = u.kid /\ c.id = u.id /\ c.todo = u.todo /\ c.undo = u.undo
      /\ c.left = u.left /\ c.key = u.key /\ c.orig = u.orig /\ c.reply = u.reply
  BY <1>2, RetHeard
<1>4. /\ Begun(u) /\ Opening(s, u, TRUE) /\ AtKids(s, p, u, st, TRUE, mis) /\ DeckNow(s, p, u, st, TRUE)
      /\ KidsNow(s, p, u, st, ls, mis) /\ Undoing(s, u, st, TRUE, ls)
  BY DEF Progress
<1>5. u.reply = "none" /\ u.pc # "replay" /\ u.pc \in {"open", "work", "child", "token", "noted", "undo"}
  <2>1. u.reply = "none" /\ u.pc # "replay"  BY <1>4 DEF Begun
  <2>2. QED  BY <1>1, <2>1 DEF ReturnSteps, PriorSteps
<1>6. Begun(c)  BY <1>3, <1>4 DEF Begun
<1>7. c.got # Lost /\ \A l \in 1..Len(c.undo) : c.undo[l][2] = Child0(s, c.undo[l][1])
  BY <1>2, <1>3, <1>4 DEF Undoing
<1>13. ASSUME NEW m, Owning(p, u, m, st, TRUE) PROVE Owning(p, c, m, t, FALSE)
  <2>1. u.cmd = "reread" => t = st  BY <1>0
  <2>2. ASSUME u.pc \in PriorSteps, NEW i \in Ids, m.owner[i] = p
        PROVE  (u.cmd = "get" /\ u.on = i) \/ (u.cmd = "reread" /\ i \in u.out)
    BY <1>13, <2>2 DEF Owning
  <2>3. QED  BY <1>2, <1>3, <2>1, <2>2 DEF Owning
<1>8. CASE u.pc \in {"open", "work", "child"}
  <2>1. u.cmd # "set" /\ (u.pc = "open" => u.cmd = "get") /\ t = st
    BY <1>0, <1>1, <1>4, <1>8 DEF Begun, Opening, AtKids
  <2>0. u.cmd = "get" => g = st[u.on]  BY <1>0
  <2>2. Opening(s, c, FALSE)
    <3>1. u.pc = "open" => u.on = TheDeck /\ st[TheDeck] = Deck0(s)
      BY <1>4, <2>1 DEF Opening, DeckNow, PriorSteps
    <3>2. QED  BY <1>3, <1>4, <2>0, <2>1, <3>1 DEF Opening
  <2>3. AtKids(s, p, c, t, FALSE, mis)  BY <1>3, <1>4, <1>8, <2>0, <2>1 DEF AtKids
  <2>4. DeckNow(s, p, c, t, FALSE)  BY <1>3, <1>4, <1>5, <1>8, <2>1 DEF DeckNow
  <2>5. KidsNow(s, p, c, t, ls, mis)  BY <1>3, <1>4, <2>1 DEF KidsNow
  <2>6. Undoing(s, c, t, FALSE, ls)  BY <1>3, <1>5, <1>7, <1>8 DEF Undoing
  <2>7. \A m : Recalls(s, p, u, m, st, mis) => Recalls(s, p, c, m, t, mis)
    BY <1>3, <2>1, SameRecalls
  <2>8. QED  BY <1>3, <1>6, <1>13, <2>1, <2>2, <2>3, <2>4, <2>5, <2>6, <2>7 DEF Progress
<1>9. CASE u.pc = "token"
  <2>1. /\ u.cmd = "set" /\ u.on = u.id /\ u.kid # None /\ u.orig = Child0(s, u.id)
        /\ u.out = Child1(s, p, u.id) /\ <<u.key, u.id>> \in Runs0(s) \ u.todo
    BY <1>4, <1>9 DEF AtKids
  <2>2. /\ u.id \in 1..Cardinality(s.running) /\ u.id \in Children /\ u.id \in Ids /\ u.id # TheDeck
        /\ Child1(s, p, u.id) \in Child
        /\ \A r \in Runs0(s) : r[2] \in Ids /\ r[2] # TheDeck /\ (r[2] = u.id => r = <<u.key, u.id>>)
    <3>1. PICK r \in Runs0(s) : r = <<u.key, u.id>>  BY <2>1
    <3>2. r[2] = u.id  BY <3>1
    <3>3. /\ r[2] \in 1..Cardinality(s.running) /\ r[2] \in Children /\ r[2] \in Ids /\ r[2] # TheDeck
          /\ Child0(s, r[2]) \in Child
          /\ \A q \in Runs0(s) : q[2] \in Ids /\ q[2] # TheDeck /\ (q[2] = r[2] => q = r)
      BY RunsFacts
    <3>4. Child1(s, p, u.id) \in Child  BY <3>2, <3>3, RevokedFacts
    <3>5. QED  BY <3>1, <3>2, <3>3, <3>4
  <2>3. PICK i \in Ids : i = u.id  BY <2>2
  <2>4. st \in [Ids -> Deck \cup Child \cup {Gone}] /\ Cardinality(s.running) \in Nat
    BY RunsFacts DEF Holds0
  <2>5. t[i] = Child1(s, p, i) /\ \A j \in Ids : j # i => t[j] = st[j]
    BY <1>0, <2>1, <2>3, <2>4
  <2>6. t \in [Ids -> Deck \cup Child \cup {Gone}]  BY <1>0, <2>1, <2>2, <2>4
  <2>7. Holds0(s, t)
    <3>1. t[TheDeck] \in Deck  BY <2>2, <2>3, <2>5, ConstantFacts DEF Holds0
    <3>2. i <= Cardinality(s.running) /\ t[i] \in Child  BY <2>2, <2>3, <2>4, <2>5
    <3>3. \A j \in Children : IF j <= Cardinality(s.running) THEN t[j] \in Child ELSE t[j] = Gone
      BY <2>5, <3>2, ConstantFacts DEF Holds0
    <3>4. QED  BY <2>6, <3>1, <3>3 DEF Holds0
  <2>8. Opening(s, c, FALSE)  BY <1>3, <1>9 DEF Opening
  <2>9. AtKids(s, p, c, t, FALSE, mis)  BY <1>3, <1>9, <2>1, <2>3, <2>5 DEF AtKids
  <2>10. DeckNow(s, p, c, t, FALSE)
    <3>1. t[TheDeck] = st[TheDeck]  BY <2>2, <2>3, <2>5, ConstantFacts
    <3>2. st[TheDeck] = Deck0(s)  BY <1>4, <1>9 DEF DeckNow, PriorSteps
    <3>3. QED  BY <1>3, <1>5, <1>9, <3>1, <3>2 DEF DeckNow
  <2>11. KidsNow(s, p, c, t, ls, mis)
    <3>1. \A r \in Runs0(s) : r = <<u.key, u.id>> \/ t[r[2]] = st[r[2]]  BY <2>2, <2>3, <2>5
    <3>2. \A r \in u.todo : t[r[2]] = Child0(s, r[2])  BY <1>4, <1>9, <2>1, <3>1 DEF KidsNow, Midway
    <3>3. \A r \in Runs0(s) : \/ r \in u.todo \/ r = <<u.key, u.id>>
                              \/ st[r[2]] = Child1(s, p, r[2]) \/ (ls > 0 /\ mis > 1)
      BY <1>4, <1>9 DEF KidsNow, Midway
    <3>4. u.todo \subseteq Runs0(s)  BY <1>4, <1>9 DEF KidsNow, Midway
    <3>5. \A r \in Runs0(s) : \/ c.pc \in Midway /\ r \in c.todo
                              \/ c.pc \in {"child", "token"} /\ r = <<c.key, c.id>>
                              \/ t[r[2]] = Child1(s, p, r[2]) \/ (ls > 0 /\ mis > 1)
      BY <1>3, <1>9, <3>1, <3>3 DEF Midway
    <3>6. QED  BY <1>3, <1>9, <3>2, <3>4, <3>5 DEF KidsNow, Midway
  <2>12. Undoing(s, c, t, FALSE, ls)  BY <1>3, <1>5, <1>7, <1>9 DEF Undoing
  <2>13. ASSUME NEW m, Recalls(s, p, u, m, st, mis) PROVE Recalls(s, p, c, m, t, mis)
    <3>1. Coherent(u, m, st, mis)  BY <1>9, <2>13 DEF Recalls, PriorSteps
    <3>2. t[i] # Gone /\ st[i] # Gone
      <4>1. i \in Children /\ i <= Cardinality(s.running)  BY <2>2, <2>3, <2>4
      <4>2. st[i] \in Child /\ t[i] \in Child  BY <2>7, <4>1 DEF Holds0
      <4>3. QED  BY <4>2, ConstantFacts
    <3>3. Coherent(c, m, t, mis)  BY <1>3, <1>9, <2>3, <2>5, <3>1, <3>2 DEF Coherent
    <3>4. QED  BY <1>3, <1>9, <2>13, <3>3 DEF Recalls
  <2>14. QED  BY <1>3, <1>6, <1>13, <2>7, <2>8, <2>9, <2>10, <2>11, <2>12, <2>13 DEF Progress
<1>10. CASE u.pc = "noted"
  <2>1. u.cmd = "set" /\ u.on = TheDeck /\ u.out = Deck1(s, p)  BY <1>4, <1>10 DEF DeckNow
  <2>2. PICK i \in Ids : i = TheDeck  BY ConstantFacts
  <2>3. st \in [Ids -> Deck \cup Child \cup {Gone}] /\ Deck1(s, p) \in Deck
    BY RevokedFacts DEF Holds0
  <2>4. t[i] = Deck1(s, p) /\ \A j \in Ids : j # i => t[j] = st[j]  BY <1>0, <2>1, <2>2, <2>3
  <2>5. t \in [Ids -> Deck \cup Child \cup {Gone}]  BY <1>0, <2>1, <2>3
  <2>6. Holds0(s, t)  BY <2>2, <2>3, <2>4, <2>5, ConstantFacts DEF Holds0
  <2>7. Opening(s, c, FALSE) /\ AtKids(s, p, c, t, FALSE, mis)  BY <1>3, <1>10 DEF Opening, AtKids
  <2>8. DeckNow(s, p, c, t, FALSE)  BY <1>3, <1>5, <1>10, <2>1, <2>2, <2>4 DEF DeckNow, PriorSteps
  <2>9. KidsNow(s, p, c, t, ls, mis)
    <3>1. \A r \in Runs0(s) : t[r[2]] = st[r[2]]
      <4>1. \A r \in Runs0(s) : r[2] \in Ids /\ r[2] # TheDeck  BY RunsFacts
      <4>2. QED  BY <2>2, <2>4, <4>1
    <3>2. QED  BY <1>3, <1>4, <1>10, <3>1 DEF KidsNow, Midway
  <2>10. Undoing(s, c, t, FALSE, ls)  BY <1>3, <1>5, <1>7, <1>10 DEF Undoing
  <2>11. \A m : Recalls(s, p, u, m, st, mis) => Recalls(s, p, c, m, t, mis)
    BY <1>3, <1>10 DEF Recalls, PriorSteps, Midway
  <2>12. QED  BY <1>3, <1>6, <1>13, <2>6, <2>7, <2>8, <2>9, <2>10, <2>11 DEF Progress
<1>11. CASE u.pc = "undo"
  <2>1. /\ u.cmd = "set" /\ ls > 0 /\ u.left < Len(u.undo) /\ u.on = u.undo[u.left + 1][1]
        /\ u.out = u.undo[u.left + 1][2]
        /\ ls <= 1 => \A l \in 1..Len(u.undo) : l > u.left + 1 => Restored(u, st, l)
    BY <1>4, <1>11 DEF Undoing
  <2>2. u.left + 1 \in 1..Len(u.undo)  BY <1>1, <2>1
  <2>3. u.undo[u.left + 1] \in Children \X Child  BY <1>1, <2>2
  <2>4. PICK i \in Ids, d \in Child : i = u.on /\ d = u.out /\ i \in Children /\ i # TheDeck
    BY <2>1, <2>3, ConstantFacts
  <2>5. d = Child0(s, i)  BY <1>7, <1>3, <2>1, <2>2, <2>4
  <2>6. st \in [Ids -> Deck \cup Child \cup {Gone}]  BY DEF Holds0
  <2>7. t[i] = d /\ \A j \in Ids : j # i => t[j] = st[j]  BY <1>0, <2>1, <2>4, <2>6
  <2>8. t \in [Ids -> Deck \cup Child \cup {Gone}]  BY <1>0, <2>1, <2>4, <2>6
  <2>9. i <= Cardinality(s.running)
    <3>1. IF i <= Cardinality(s.running) THEN Stored(s)[i] \in Child ELSE Stored(s)[i] = Gone
      BY <2>4, StoredFacts
    <3>2. QED  BY <2>5, <3>1, ConstantFacts DEF Child0
  <2>10. Holds0(s, t)
    <3>1. t[TheDeck] \in Deck  BY <2>4, <2>7, ConstantFacts DEF Holds0
    <3>2. \A j \in Children : IF j <= Cardinality(s.running) THEN t[j] \in Child ELSE t[j] = Gone
      BY <2>7, <2>9, ConstantFacts DEF Holds0
    <3>3. QED  BY <2>8, <3>1, <3>2 DEF Holds0
  <2>11. Opening(s, c, FALSE) /\ AtKids(s, p, c, t, FALSE, mis)  BY <1>3, <1>11 DEF Opening, AtKids
  <2>12. DeckNow(s, p, c, t, FALSE) /\ KidsNow(s, p, c, t, ls, mis)
    BY <1>3, <1>5, <1>11 DEF DeckNow, KidsNow, PriorSteps, Midway
  <2>13. Undoing(s, c, t, FALSE, ls)
    <3>1. ASSUME ls <= 1, NEW l \in 1..Len(u.undo), l > u.left + 1 \/ l = u.left + 1
          PROVE  t[u.undo[l][1]] = u.undo[l][2]
      <4>1. u.undo[l] \in Children \X Child  BY <1>1
      <4>2. u.undo[l][1] \in Ids  BY <4>1, ConstantFacts
      <4>3. u.undo[l][2] = Child0(s, u.undo[l][1])  BY <1>3, <1>7
      <4>4. CASE u.undo[l][1] = i  BY <2>5, <2>7, <4>3, <4>4
      <4>5. CASE u.undo[l][1] # i
        <5>1. l # u.left + 1  BY <2>1, <2>4, <4>5
        <5>2. Restored(u, st, l)  BY <2>1, <3>1, <5>1
        <5>3. QED  BY <2>7, <4>2, <4>5, <5>2 DEF Restored
      <4>6. QED  BY <4>4, <4>5
    <3>2. ls <= 1 => \A l \in 1..Len(c.undo) :
                        l > c.left + 1 \/ (l = c.left + 1 /\ ~FALSE) => Restored(c, t, l)
      BY <1>3, <3>1 DEF Restored
    <3>3. QED  BY <1>3, <1>5, <1>7, <2>1, <3>2 DEF Undoing
  <2>14. \A m : Recalls(s, p, u, m, st, mis) => Recalls(s, p, c, m, t, mis)
    BY <1>3, <1>11 DEF Recalls, PriorSteps, Midway
  <2>15. QED  BY <1>3, <1>6, <1>13, <2>10, <2>11, <2>12, <2>13, <2>14 DEF Progress
<1>12. QED  BY <1>5, <1>8, <1>9, <1>10, <1>11

LEMMA RetExec ==
    ASSUME NEW p \in Calls, Sole(p), Returns(p), NEW n \in Nodes, Exec(n)
    PROVE  Returns(p)'
<1> DEFINE u == call[p]
<1>1. conn[n].sent # <<>>  BY DEF Exec
<1>2. n = At[p] /\ u.cmd # "none" /\ u.pc \notin {"idle", "done"} /\ conn[n] = [Quiet EXCEPT !.sent = <<p>>]
  BY <1>1, WireFacts
<1>3. PICK w : w = conn[n]  OBVIOUS
<1>4. w = [sent |-> <<p>>, back |-> <<>>, ready |-> {}] /\ Head(<<p>>) = p /\ Tail(<<p>>) = <<>>
      /\ Append(<<>>, p) = <<p>> /\ <<p>> # <<>> /\ <<p>> \in Seq(Calls)
  <2>0. <<p>> \in Seq(Calls)  OBVIOUS
  <2>1. PICK z \in Seq(Calls) : z = <<p>>  BY <2>0
  <2>2. w = [Quiet EXCEPT !.sent = z]  BY <1>2, <1>3, <2>1
  <2>3. w = [sent |-> z, back |-> <<>>, ready |-> {}]  BY <2>2 DEF Quiet
  <2>4. Head(<<p>>) = p /\ Tail(<<p>>) = <<>> /\ Append(<<>>, p) = <<p>> /\ <<p>> # <<>>  OBVIOUS
  <2>5. QED  BY <2>1, <2>3, <2>4
<1>5. NextSent(w) = p  BY <1>4 DEF NextSent
<1>6. PICK v : v = Ran(w)  OBVIOUS
<1>7. v = [sent |-> <<>>, back |-> <<p>>, ready |-> {}]  BY <1>4, <1>6 DEF Ran
<1>8. v = [Quiet EXCEPT !.back = <<p>>] /\ v.sent = <<>> /\ v \in ConnRec
  <2>1. PICK z \in Seq(Calls) : z = <<p>>  BY <1>4
  <2>2. v = [sent |-> <<>>, back |-> z, ready |-> {}]  BY <1>7, <2>1
  <2>5. PICK y : y = [Quiet EXCEPT !.back = z]  OBVIOUS
  <2>6. y = [sent |-> <<>>, back |-> z, ready |-> {}]  BY <2>5 DEF Quiet
  <2>3. v = [Quiet EXCEPT !.back = z]  BY <2>2, <2>5, <2>6
  <2>8. <<>> \in Seq(Calls) /\ {} \in SUBSET Calls  OBVIOUS
  <2>4. v.sent = <<>> /\ v \in ConnRec  BY <2>1, <2>2, <2>8 DEF ConnRec
  <2>7. QED  BY <2>1, <2>3, <2>4
<1>9. PICK g : g = Answer(u, store)  OBVIOUS
<1>10. PICK c : c = RunFor(u, g)  OBVIOUS
<1>11. PICK t : t = Effect(u, store)  OBVIOUS
<1>12. /\ scene' = scene /\ mem' = mem /\ ages' = ages /\ losses' = losses
       /\ conn' = [conn EXCEPT ![At[p]] = v]
  BY <1>2, <1>3, <1>6 DEF Exec
<1>13. u \in RetRec /\ scene \in Scene /\ Clear(p) /\ call \in [Calls -> RetRec]
       /\ Recalls(scene, p, u, mem[At[p]], store, Mishaps)
  BY ReturnFacts DEF Returns, Clear
<1>30. Mishaps' = Mishaps  BY <1>12 DEF Mishaps
<1>14. store' = t
  <2>1. store' = Written(u)  BY <1>3, <1>5 DEF Exec
  <2>2. u.cmd # "del"  BY <1>13, RetFields
  <2>3. QED  BY <1>11, <2>1, <2>2 DEF Written, Effect
<1>15. call' = [call EXCEPT ![p] = c]
  <2>1. call' = [call EXCEPT ![p].out = None, ![p].got = g]  BY <1>3, <1>5, <1>9, Zenon DEF Exec, Answer, Reply
  <2>2. PICK f : f = [call EXCEPT ![p].out = None]  OBVIOUS
  <2>3. f = [call EXCEPT ![p] = [u EXCEPT !.out = None]]  BY <2>2
  <2>4. f[p] = [u EXCEPT !.out = None]  BY <1>13, <2>3
  <2>5. call' = [f EXCEPT ![p] = [f[p] EXCEPT !.got = g]]  BY <2>1, <2>2
  <2>6. [f[p] EXCEPT !.got = g] = c  BY <1>10, <2>4 DEF RunFor
  <2>7. call' = [f EXCEPT ![p] = c]  BY <2>5, <2>6
  <2>8. QED  BY <1>13, <2>3, <2>7
<1>16. /\ Progress(scene, p, u, store, TRUE, losses, Mishaps) /\ Owning(p, u, mem[At[p]], store, TRUE)
       /\ u.cmd = "reread" => u.out \subseteq Ids
  <2>1. /\ Progress(scene, p, u, store, conn[At[p]].sent # <<>>, losses, Mishaps)
        /\ Owning(p, u, mem[At[p]], store, conn[At[p]].sent # <<>>)
    BY DEF Returns
  <2>2. (conn[At[p]].sent # <<>>) = TRUE  BY <1>1, <1>2
  <2>3. Progress(scene, p, u, store, TRUE, losses, Mishaps) /\ Owning(p, u, mem[At[p]], store, TRUE)
    BY <2>1, <2>2
  <2>4. u.cmd = "reread" => u.pc \in PriorSteps  BY <2>3 DEF Progress, Begun, PriorSteps
  <2>5. QED  BY <2>3, <2>4 DEF Owning
<1>17. Holds0(scene, store)  BY <1>13 DEF Clear, Holds0
<1>18. /\ c \in RetRec /\ Progress(scene, p, c, t, FALSE, losses, Mishaps) /\ Holds0(scene, t)
       /\ \A m : Recalls(scene, p, u, m, store, Mishaps) => Recalls(scene, p, c, m, t, Mishaps)
       /\ \A m : Owning(p, u, m, store, TRUE) => Owning(p, c, m, t, FALSE)
  <2>1. PICK x : x = u  OBVIOUS
  <2>2. x \in RetRec /\ x.cmd # "none" /\ x.pc \notin {"idle", "done"} /\ Progress(scene, p, x, store, TRUE, losses, Mishaps)
    BY <1>2, <1>13, <1>16, <2>1
  <2>3. g = Answer(x, store) /\ c = RunFor(x, g) /\ t = Effect(x, store)
    BY <1>9, <1>10, <1>11, <2>1
  <2>4. /\ c \in RetRec /\ Progress(scene, p, c, t, FALSE, losses, Mishaps) /\ Holds0(scene, t)
        /\ \A m : Recalls(scene, p, x, m, store, Mishaps) => Recalls(scene, p, c, m, t, Mishaps)
        /\ \A m : Owning(p, x, m, store, TRUE) => Owning(p, c, m, t, FALSE)
    <3>1. scene \in Scene  BY <1>13
    <3>9. PICK st, ls, mis : st = store /\ ls = losses /\ mis = Mishaps  OBVIOUS
    <3>2. PICK s \in Scene : s = scene /\ st = store /\ ls = losses /\ mis = Mishaps  BY <3>1, <3>9
    <3>3. Holds0(s, st) /\ Progress(s, p, x, st, TRUE, ls, mis)  BY <1>17, <2>2, <3>2
    <3>4. g = Answer(x, st)  BY <2>3, <3>2
    <3>5. t = Effect(x, st)  BY <2>3, <3>2
    <3>6. /\ x \in RetRec /\ x.cmd # "none" /\ x.pc \notin {"idle", "done"} /\ c = RunFor(x, g)
          /\ x.cmd = "reread" => x.out \subseteq Ids
      BY <1>16, <2>1, <2>2, <2>3
    <3>7. /\ c \in RetRec /\ Progress(s, p, c, t, FALSE, ls, mis) /\ Holds0(s, t)
          /\ \A m : Recalls(s, p, x, m, st, mis) => Recalls(s, p, c, m, t, mis)
          /\ \A m : Owning(p, x, m, st, TRUE) => Owning(p, c, m, t, FALSE)
      BY <3>3, <3>4, <3>5, <3>6, RunProgress
    <3>8. QED  BY <3>2, <3>7
  <2>5. QED  BY <2>1, <2>4
<1>19. c.pc = u.pc /\ c.cmd = u.cmd /\ c.deck = u.deck /\ c.kid = u.kid
  <2>1. c.pc = u.pc /\ c.cmd = u.cmd /\ c.deck = u.deck /\ c.kid = u.kid
    BY <1>10, <1>13, HeardIs
  <2>2. QED  BY <2>1
<1>20. OnWire(p, c, v)  BY <1>2, <1>8, <1>19 DEF OnWire
<1>21. (v.sent # <<>>) = FALSE  BY <1>8
<1>22. losses \in Nat  BY <1>13 DEF Clear
<1>23. /\ Progress(scene, p, c, store', v.sent # <<>>, losses', Mishaps')
       /\ Owning(p, c, mem[At[p]], store', v.sent # <<>>)
  <2>1. Owning(p, c, mem[At[p]], t, FALSE)  BY <1>16, <1>18
  <2>2. QED  BY <1>12, <1>14, <1>18, <1>21, <1>30, <2>1
<1>24. Recalls(scene, p, c, mem[At[p]], store', Mishaps') /\ Holds0(scene, store')
  BY <1>13, <1>14, <1>18, <1>30
<1>25. QED  BY <1>8, <1>12, <1>15, <1>18, <1>19, <1>20, <1>22, <1>23, <1>24, CarriedOn

LEMMA RetReceives ==
    ASSUME NEW p \in Calls, Sole(p), Returns(p), NEW n \in Nodes, Receive(n)
    PROVE  Returns(p)'
<1> DEFINE u == call[p]
<1>1. conn[n].back # <<>>  BY DEF Receive
<1>2. n = At[p] /\ u.cmd # "none" /\ u.pc \notin {"idle", "done"} /\ conn[n] = [Quiet EXCEPT !.back = <<p>>]
  BY <1>1, WireFacts
<1>3. PICK w : w = conn[n]  OBVIOUS
<1>4. w = [sent |-> <<>>, back |-> <<p>>, ready |-> {}] /\ Len(<<p>>) = 1 /\ <<p>>[1] = p
  BY <1>2, <1>3 DEF Quiet
<1>5. PICK k \in 1..Len(w.back) : conn' = [conn EXCEPT ![n] = Read(conn[n], k)]  BY <1>3 DEF Receive
<1>6. k = 1  BY <1>4
<1>7. PICK v : v = Read(w, k)  OBVIOUS
<1>8. v = [sent |-> <<>>, back |-> <<>>, ready |-> {p}]
  <2>1. SubSeq(<<p>>, 1 + 1, 1) = <<>>  OBVIOUS
  <2>2. {w.back[j] : j \in 1..1} = {p}  BY <1>4
  <2>3. v = [w EXCEPT !.back = <<>>, !.ready = {p}]  BY <1>4, <1>6, <1>7, <2>1, <2>2 DEF Read
  <2>4. QED  BY <1>4, <2>3
<1>9. v = [Quiet EXCEPT !.ready = {p}] /\ v.sent = <<>> /\ v \in ConnRec
  <2>1. PICK z \in SUBSET Calls : z = {p}  OBVIOUS
  <2>2. v = [sent |-> <<>>, back |-> <<>>, ready |-> z]  BY <1>8, <2>1
  <2>3. v = [Quiet EXCEPT !.ready = z]  BY <2>2 DEF Quiet
  <2>4. QED  BY <2>1, <2>3, QuietIs
<1>10. /\ scene' = scene /\ mem' = mem /\ ages' = ages /\ losses' = losses /\ store' = store /\ call' = call
       /\ conn' = [conn EXCEPT ![At[p]] = v]
  BY <1>2, <1>3, <1>5, <1>7 DEF Receive
<1>11. /\ u \in RetRec /\ Clear(p) /\ call \in [Calls -> RetRec] /\ losses \in Nat
       /\ Recalls(scene, p, u, mem[At[p]], store, Mishaps) /\ Holds0(scene, store)
  BY ReturnFacts DEF Returns, Clear, Holds0
<1>12. call' = [call EXCEPT ![p] = u]  BY <1>10, <1>11
<1>13. OnWire(p, u, v)  BY <1>2, <1>9 DEF OnWire
<1>14. /\ Progress(scene, p, u, store, v.sent # <<>>, losses, Mishaps)
       /\ Owning(p, u, mem[At[p]], store, v.sent # <<>>) /\ Mishaps' = Mishaps
  <2>0. Mishaps' = Mishaps  BY <1>10 DEF Mishaps
  <2>1. /\ Progress(scene, p, u, store, conn[At[p]].sent # <<>>, losses, Mishaps)
        /\ Owning(p, u, mem[At[p]], store, conn[At[p]].sent # <<>>)
    BY DEF Returns
  <2>2. (conn[At[p]].sent # <<>>) = (v.sent # <<>>)  BY <1>2, <1>3, <1>4, <1>9
  <2>3. QED  BY <2>0, <2>1, <2>2
<1>15. PICK c \in RetRec : c = u  BY <1>11
<1>16. /\ call' = [call EXCEPT ![p] = c] /\ c.deck = call[p].deck /\ c.kid = call[p].kid
       /\ Progress(scene, p, c, store', v.sent # <<>>, losses', Mishaps')
       /\ Recalls(scene, p, c, mem[At[p]], store', Mishaps') /\ OnWire(p, c, v)
       /\ Holds0(scene, store') /\ losses' \in Nat /\ Owning(p, c, mem[At[p]], store', v.sent # <<>>)
  BY <1>10, <1>11, <1>12, <1>13, <1>14, <1>15
<1>17. QED  BY <1>9, <1>10, <1>15, <1>16, CarriedOn

\* A connection is lost: nothing that was known is, but one more loss.
LEMMA LostProgress ==
    ASSUME NEW p \in Calls, NEW s \in Scene, NEW st, NEW sent, NEW ls \in Nat, NEW mis \in Nat, NEW u \in RetRec,
           u.cmd # "none", u.pc \notin {"idle", "done"}, Progress(s, p, u, st, sent, ls, mis),
           NEW c, c = RunFor(u, Lost)
    PROVE  /\ c \in RetRec /\ Progress(s, p, c, st, FALSE, ls + 1, mis + 1)
           /\ \A m : Owning(p, u, m, st, sent) => Owning(p, c, m, st, FALSE)
<1>1. /\ c \in RetRec
      /\ c.pc = u.pc /\ c.cmd = u.cmd /\ c.on = u.on /\ c.out = None /\ c.got = Lost
      /\ c.deck = u.deck /\ c.kid = u.kid /\ c.id = u.id /\ c.todo = u.todo /\ c.undo = u.undo
      /\ c.left = u.left /\ c.key = u.key /\ c.orig = u.orig /\ c.reply = u.reply
  <2>1. PICK g \in Gots : g = Lost  BY DEF Gots
  <2>2. c = RunFor(u, g)  BY <2>1
  <2>3. QED  BY <2>1, <2>2, RetHeard
<1>2. /\ Begun(u) /\ Opening(s, u, sent) /\ AtKids(s, p, u, st, sent, mis) /\ DeckNow(s, p, u, st, sent)
      /\ KidsNow(s, p, u, st, ls, mis) /\ Undoing(s, u, st, sent, ls)
  BY DEF Progress
<1>3. u.reply = "none"  BY <1>2 DEF Begun
<1>4. Begun(c)  BY <1>1, <1>2 DEF Begun
<1>5. Opening(s, c, FALSE)  BY <1>1, <1>2 DEF Opening
<1>11. PICK b \in Nat : b = mis + 1 /\ b > 0 /\ (mis > 0 => b > 1) /\ (mis > 1 => b > 1)  OBVIOUS
<1>6. AtKids(s, p, c, st, FALSE, b)  BY <1>1, <1>2, <1>11 DEF AtKids
<1>7. DeckNow(s, p, c, st, FALSE)  BY <1>1, <1>2, <1>3 DEF DeckNow
<1>8. KidsNow(s, p, c, st, ls + 1, b)
  <2>1. PICK k \in Nat : k = ls + 1 /\ k > 0  OBVIOUS
  <2>2. KidsNow(s, p, c, st, k, b)  BY <1>1, <1>2, <1>11, <2>1 DEF KidsNow
  <2>3. QED  BY <2>1, <2>2
<1>9. Undoing(s, c, st, FALSE, ls + 1)
  <2>1. u.pc = "undo" => ~(ls + 1 <= 1)  BY <1>2 DEF Undoing
  <2>2. ls + 1 > 0  OBVIOUS
  <2>3. QED  BY <1>1, <1>2, <1>3, <2>1, <2>2 DEF Undoing
<1>12. Progress(s, p, c, st, FALSE, ls + 1, b)  BY <1>4, <1>5, <1>6, <1>7, <1>8, <1>9 DEF Progress
<1>13. \A m : Owning(p, u, m, st, sent) => Owning(p, c, m, st, FALSE)  BY <1>1 DEF Owning
<1>10. QED  BY <1>1, <1>11, <1>12, <1>13

LEMMA RetLoses ==
    ASSUME NEW p \in Calls, Sole(p), Returns(p), NEW n \in Nodes, Lose(n)
    PROVE  Returns(p)'
<1> DEFINE u == call[p]
<1>1. Unanswered(conn[n]) # {}  BY DEF Lose
<1>2. conn[n].sent # <<>> \/ conn[n].back # <<>>
  <2>1. conn[n].sent = <<>> /\ conn[n].back = <<>> => Unanswered(conn[n]) = {}  BY DEF Unanswered
  <2>2. QED  BY <1>1, <2>1
<1>3. /\ n = At[p] /\ u.cmd # "none" /\ u.pc \notin {"idle", "done"}
      /\ conn[n] = [Quiet EXCEPT !.sent = <<p>>] \/ conn[n] = [Quiet EXCEPT !.back = <<p>>]
  BY <1>2, WireFacts
<1>4. PICK w : w = conn[n]  OBVIOUS
<1>5. Len(<<p>>) = 1 /\ <<p>>[1] = p /\ Len(<<>>) = 0  OBVIOUS
<1>6. \/ w = [sent |-> <<p>>, back |-> <<>>, ready |-> {}]
      \/ w = [sent |-> <<>>, back |-> <<p>>, ready |-> {}]
  BY <1>3, <1>4 DEF Quiet
<1>7. Unanswered(w) = {p}
  <2>1. CASE w = [sent |-> <<p>>, back |-> <<>>, ready |-> {}]  BY <1>5, <2>1 DEF Unanswered
  <2>2. CASE w = [sent |-> <<>>, back |-> <<p>>, ready |-> {}]  BY <1>5, <2>2 DEF Unanswered
  <2>3. QED  BY <1>6, <2>1, <2>2
<1>8. PICK v : v = [Quiet EXCEPT !.ready = {p}]  OBVIOUS
<1>9. v.sent = <<>> /\ v \in ConnRec  BY <1>8, QuietIs
<1>10. /\ scene' = scene /\ mem' = mem /\ ages' = ages /\ losses' = losses + 1 /\ store' = store
       /\ conn' = [conn EXCEPT ![At[p]] = v]
  BY <1>3, <1>4, <1>7, <1>8 DEF Lose, GivenUp
<1>11. /\ u \in RetRec /\ Clear(p) /\ call \in [Calls -> RetRec] /\ losses \in Nat /\ scene \in Scene
       /\ Recalls(scene, p, u, mem[At[p]], store, Mishaps) /\ Holds0(scene, store)
  BY ReturnFacts DEF Returns, Clear, Holds0
<1>12. PICK c : c = RunFor(u, Lost)  OBVIOUS
<1>13. call' = [call EXCEPT ![p] = c]
  <2>1. call' = [q \in Calls |-> IF q \in {p} THEN [call[q] EXCEPT !.got = Lost, !.out = None] ELSE call[q]]
    BY <1>4, <1>7 DEF Lose
  <2>0. PICK x \in RetRec : x = u  BY <1>11
  <2>2. PICK d : x = u /\ d = [x EXCEPT !.got = Lost, !.out = None]  BY <2>0
  <2>3. d = c  BY <1>12, <2>2, RetFailed
  <2>4. \A q \in Calls : call'[q] = IF q = p THEN c ELSE call[q]  BY <2>1, <2>2, <2>3
  <2>5. PICK f : f = [call EXCEPT ![p] = c]  OBVIOUS
  <2>6. \A q \in Calls : f[q] = IF q = p THEN c ELSE call[q]  BY <1>11, <2>5
  <2>7. call' = [q \in Calls |-> call'[q]]  BY <2>1
  <2>8. f = [q \in Calls |-> f[q]]  BY <1>11, <2>5
  <2>9. QED  BY <2>4, <2>5, <2>6, <2>7, <2>8
<1>22. Mishaps \in Nat /\ Mishaps' = Mishaps + 1
  <2>1. ages \in Nat  BY <1>11 DEF Clear
  <2>2. QED  BY <1>10, <1>11, <2>1 DEF Mishaps
<1>14. /\ c \in RetRec /\ Progress(scene, p, c, store, FALSE, losses + 1, Mishaps + 1)
       /\ Owning(p, c, mem[At[p]], store, FALSE)
  <2>1. PICK x, b : x = u /\ b = (conn[At[p]].sent # <<>>)  OBVIOUS
  <2>2. Progress(scene, p, x, store, b, losses, Mishaps) /\ Owning(p, x, mem[At[p]], store, b)
    BY <2>1 DEF Returns
  <2>3. x \in RetRec /\ x.cmd # "none" /\ x.pc \notin {"idle", "done"} /\ c = RunFor(x, Lost)
    BY <1>3, <1>11, <1>12, <2>1
  <2>4. QED  BY <1>11, <1>22, <2>2, <2>3, LostProgress
<1>15. c.pc = u.pc /\ c.cmd = u.cmd /\ c.deck = u.deck /\ c.kid = u.kid /\ c.id = u.id
  <2>1. PICK g \in Gots : g = Lost  BY DEF Gots
  <2>2. c = RunFor(u, g)  BY <1>12, <2>1
  <2>3. QED  BY <1>11, <2>2, RetHeard
<1>16. OnWire(p, c, v)  BY <1>3, <1>8, <1>15 DEF OnWire
<1>17. Recalls(scene, p, c, mem[At[p]], store, Mishaps + 1)
  <2>1. Recalls(scene, p, c, mem[At[p]], store, Mishaps)  BY <1>11, <1>14, <1>15, SameRecalls
  <2>2. QED  BY <1>22, <2>1, LaterRecalls
<1>18. (v.sent # <<>>) = FALSE  BY <1>9
<1>19. /\ Progress(scene, p, c, store', v.sent # <<>>, losses', Mishaps')
       /\ Owning(p, c, mem[At[p]], store', v.sent # <<>>)
  BY <1>10, <1>14, <1>18, <1>22
<1>20. losses' \in Nat /\ Holds0(scene, store') /\ Recalls(scene, p, c, mem[At[p]], store', Mishaps')
  BY <1>10, <1>11, <1>17, <1>22
<1>21. QED  BY <1>9, <1>10, <1>13, <1>14, <1>15, <1>16, <1>19, <1>20, CarriedOn

-----------------------------------------------------------------------------
(* The cache of an instance                                                *)

LEMMA KeptTyped == ASSUME NEW n, NEW m \in MemRec, NEW cs, NEW k, k = Kept(n, m, cs) PROVE k \in MemRec
<1> DEFINE used == {m.slot[i] : i \in Ids}
                     \cup UNION {{cs[q].deck, cs[q].kid} : q \in {q \in Calls : At[q] = n}}
           b == [o \in Objects |-> IF o \in used THEN m.obj[o] ELSE None]
<1>1. k = [m EXCEPT !.obj = b]  BY DEF Kept
<1>2. m.obj \in [Objects -> Deck \cup Child \cup {None}]  BY MemFields
<1>3. b \in [Objects -> Deck \cup Child \cup {None}]  BY <1>2
<1> HIDE DEF b, used
<1>4. QED  BY <1>1, <1>3 DEF MemRec

Aged(m, i) == [m EXCEPT !.slot[i] = None]
LEMMA SlotEmptied ==
    ASSUME NEW m \in MemRec, NEW i \in Ids, NEW k, k = Aged(m, i)
    PROVE  /\ k \in MemRec /\ k.obj = m.obj /\ k.queue = m.queue /\ k.owner = m.owner
           /\ \A j \in Ids : k.slot[j] = IF j = i THEN None ELSE m.slot[j]
<1>1. m.slot \in [Ids -> Objects \cup {None}]  BY MemFields
<1>2. PICK s : s = [m.slot EXCEPT ![i] = None]  OBVIOUS
<1>3. s \in [Ids -> Objects \cup {None}] /\ \A j \in Ids : s[j] = IF j = i THEN None ELSE m.slot[j]
  BY <1>1, <1>2
<1>4. k = [m EXCEPT !.slot = s]  BY <1>2 DEF Aged
<1>5. QED  BY <1>3, <1>4 DEF MemRec

\* An entry more that left a cache.
LEMMA AgedProgress ==
    ASSUME NEW p, NEW s, NEW u, NEW st, NEW sent, NEW ls, NEW mis \in Nat, Progress(s, p, u, st, sent, ls, mis)
    PROVE  Progress(s, p, u, st, sent, ls, mis + 1)
<1>1. /\ Begun(u) /\ Opening(s, u, sent) /\ AtKids(s, p, u, st, sent, mis) /\ DeckNow(s, p, u, st, sent)
      /\ KidsNow(s, p, u, st, ls, mis) /\ Undoing(s, u, st, sent, ls)
  BY DEF Progress
<1>2. mis + 1 > 0 /\ (mis > 0 => mis + 1 > 0) /\ (mis > 1 => mis + 1 > 1)  OBVIOUS
<1>3. AtKids(s, p, u, st, sent, mis + 1)
  <2>1. PICK b \in Nat : b = mis + 1 /\ b > 0 /\ (mis > 1 => b > 1)  BY <1>2
  <2>2. AtKids(s, p, u, st, sent, b)  BY <1>1, <2>1 DEF AtKids
  <2>3. QED  BY <2>1, <2>2
<1>4. KidsNow(s, p, u, st, ls, mis + 1)
  <2>1. PICK b \in Nat : b = mis + 1 /\ b > 0 /\ (mis > 1 => b > 1)  BY <1>2
  <2>2. KidsNow(s, p, u, st, ls, b)  BY <1>1, <2>1 DEF KidsNow
  <2>3. QED  BY <2>1, <2>2
<1>5. QED  BY <1>1, <1>3, <1>4 DEF Progress

LEMMA AgedRecalls ==
    ASSUME NEW p, NEW s, NEW u, NEW st, NEW mis \in Nat, NEW m \in MemRec, NEW i \in Ids, NEW k,
           k = Aged(m, i), Recalls(s, p, u, m, st, mis)
    PROVE  k \in MemRec /\ Recalls(s, p, u, k, st, mis + 1)
<1>1. /\ k \in MemRec /\ k.obj = m.obj /\ k.queue = m.queue
      /\ \A j \in Ids : k.slot[j] = IF j = i THEN None ELSE m.slot[j]
  BY SlotEmptied
<1>2. PICK b \in Nat : b = mis + 1 /\ b # 0  OBVIOUS
<1>3. \A j \in Ids : k.slot[j] # None => k.slot[j] = m.slot[j]  BY <1>1
<1>4. u.pc \in PriorSteps => Coherent(u, k, st, b)
  <2>1. u.pc \in PriorSteps => Coherent(u, m, st, mis)  BY DEF Recalls
  <2>2. QED  BY <1>1, <1>2, <1>3, <2>1 DEF Coherent
<1>5. Recalls(s, p, u, k, st, b)  BY <1>1, <1>4 DEF Recalls
<1>6. QED  BY <1>1, <1>2, <1>5

LEMMA RetAges ==
    ASSUME NEW p \in Calls, Sole(p), Returns(p), NEW n \in Nodes, NEW i \in Ids, Age(n, i)
    PROVE  Returns(p)'
<1> DEFINE u == call[p]
<1>1. /\ scene' = scene /\ store' = store /\ conn' = conn /\ call' = call /\ losses' = losses
      /\ ages' = ages + 1 /\ mem' = [mem EXCEPT ![n] = Kept(n, [mem[n] EXCEPT !.slot[i] = None], call)]
  BY DEF Age
<1>2. /\ Clear(p) /\ Progress(scene, p, u, store, conn[At[p]].sent # <<>>, losses, Mishaps)
      /\ Recalls(scene, p, u, mem[At[p]], store, Mishaps) /\ Tidy(u, mem[At[p]])
      /\ OnWire(p, u, conn[At[p]]) /\ u \in RetRec /\ At[p] \in Nodes
      /\ Owning(p, u, mem[At[p]], store, conn[At[p]].sent # <<>>) /\ Mishaps \in Nat
  BY ReturnFacts DEF Returns
<1>3. ages \in Nat /\ mem \in [Nodes -> MemRec] /\ \A q \in Calls : q # p => call[q].deck = None /\ call[q].kid = None
  BY <1>2 DEF Clear
<1>4. PICK m \in MemRec : m = mem[n]  BY <1>3
<1>5. PICK k : k = Aged(m, i)  OBVIOUS
<1>6. PICK l : l = Kept(n, k, call)  OBVIOUS
<1>7. k \in MemRec  BY <1>5, SlotEmptied
<1>8. l \in MemRec  BY <1>6, <1>7, KeptTyped
<1>9. mem' = [mem EXCEPT ![n] = l]  BY <1>1, <1>4, <1>5, <1>6 DEF Aged
<1>10. mem' \in [Nodes -> MemRec] /\ mem'[n] = l /\ \A q \in Nodes : q # n => mem'[q] = mem[q]
  BY <1>3, <1>8, <1>9
<1>11. PICK b \in Nat : b = Mishaps + 1 /\ Mishaps' = b /\ ages' \in Nat
  <2>1. losses \in Nat  BY <1>2 DEF Clear
  <2>2. Mishaps' = Mishaps + 1 /\ ages' \in Nat  BY <1>1, <1>3, <2>1 DEF Mishaps
  <2>3. QED  BY <1>2, <2>2
<1>12. Progress(scene, p, u, store, conn[At[p]].sent # <<>>, losses, b)
  <2>1. PICK mis \in Nat : mis = Mishaps  BY <1>2
  <2>2. Progress(scene, p, u, store, conn[At[p]].sent # <<>>, losses, mis)  BY <1>2, <2>1
  <2>3. Progress(scene, p, u, store, conn[At[p]].sent # <<>>, losses, mis + 1)  BY <2>2, AgedProgress
  <2>4. QED  BY <1>11, <2>1, <2>3
<1>13. /\ Recalls(scene, p, u, mem'[At[p]], store, b) /\ Tidy(u, mem'[At[p]])
       /\ Owning(p, u, mem'[At[p]], store, conn[At[p]].sent # <<>>)
  <2>1. CASE n # At[p]
    <3>1. PICK w \in MemRec : w = mem[At[p]]  BY <1>2, <1>3
    <3>2. mem'[At[p]] = w  BY <1>2, <1>10, <2>1, <3>1
    <3>3. /\ Recalls(scene, p, u, w, store, Mishaps) /\ Tidy(u, w)
          /\ Owning(p, u, w, store, conn[At[p]].sent # <<>>)
      BY <1>2, <3>1
    <3>4. Recalls(scene, p, u, w, store, b)  BY <1>2, <1>11, <3>3, LaterRecalls
    <3>5. QED  BY <3>2, <3>3, <3>4
  <2>2. CASE n = At[p]
    <3>1. Recalls(scene, p, u, m, store, Mishaps)  BY <1>2, <1>4, <2>2
    <3>2. Recalls(scene, p, u, k, store, b)
      <4>1. PICK mis \in Nat : mis = Mishaps  BY <1>2
      <4>2. Recalls(scene, p, u, m, store, mis)  BY <3>1, <4>1
      <4>3. Recalls(scene, p, u, k, store, mis + 1)  BY <1>5, <4>2, AgedRecalls
      <4>4. QED  BY <1>11, <4>1, <4>3
    <3>3. /\ l.slot = k.slot /\ l.queue = k.queue /\ l.owner = k.owner /\ Tidy(u, l)
          /\ \A o \in Objects : o \in {k.slot[j] : j \in Ids} \cup {u.deck, u.kid} => l.obj[o] = k.obj[o]
      <4>1. l = Kept(At[p], k, call)  BY <1>6, <2>2
      <4>2. QED  BY <1>3, <1>7, <4>1, KeptIs
    <3>4. Recalls(scene, p, u, l, store, b)  BY <1>2, <1>7, <1>12, <3>2, <3>3, RecallsKept
    <3>5. Owning(p, u, l, store, conn[At[p]].sent # <<>>)
      <4>1. k.owner = m.owner  BY <1>5, SlotEmptied
      <4>2. l.owner = mem[At[p]].owner  BY <1>4, <2>2, <3>3, <4>1
      <4>3. QED  BY <1>2, <4>2 DEF Owning
    <3>6. QED  BY <1>10, <2>2, <3>3, <3>4, <3>5
  <2>3. QED  BY <2>1, <2>2
<1>14. Clear(p)'  BY <1>1, <1>2, <1>10, <1>11 DEF Clear
<1>15. QED  BY <1>1, <1>2, <1>11, <1>12, <1>13, <1>14, Zenon DEF Returns

\* A record that was touched is in the cache as it is, or its slot is empty.
Anew(u, i) == IF u.got = Lost THEN Gone ELSE u.got.anew[i]
Refilled(m, i, v, p) == IF v = Gone THEN Published(m, i, None, p)
                        ELSE Published(Put(m, Fresh(m), v), i, Fresh(m), p)
LEMMA RefilledIs ==
    ASSUME NEW p \in Calls, Sole(p), Returns(p), p \in conn[At[p]].ready, NEW i \in Rereading(p),
           NEW m, m = mem[At[p]], NEW v, v = Anew(call[p], i), NEW r, r = Refilled(m, i, v, p)
    PROVE  /\ r \in MemRec /\ Recalls(scene, p, call[p], r, store, Mishaps)
           /\ Owning(p, call[p], r, store, FALSE)
<1> DEFINE u == call[p]
<1>1. /\ u \in RetRec /\ m \in MemRec /\ M(p) = m /\ C(p) = u /\ Recalls(scene, p, u, m, store, Mishaps)
      /\ scene \in Scene /\ Progress(scene, p, u, store, FALSE, losses, Mishaps) /\ Tidy(u, m)
      /\ Owning(p, u, m, store, FALSE) /\ (losses > 0 => Mishaps > 0) /\ Mishaps \in Nat
  BY ReturnFacts
<1>2. i \in Ids /\ u.cmd = "reread" /\ m.owner[i] = p  BY <1>1 DEF Rereading
<1>3. u.pc \in {"work", "child"} /\ u.pc \in PriorSteps /\ u.deck \in Objects
      /\ (u.pc = "child" => u.kid \in Objects /\ <<u.key, u.id>> \in Runs0(scene))
  <2>1. u.pc \in {"work", "child"} /\ u.deck # None  BY <1>1, <1>2 DEF Progress, Begun, Midway
  <2>2. u.pc = "child" => u.kid # None /\ <<u.key, u.id>> \in Runs0(scene)
    BY <1>1, <1>2 DEF Progress, AtKids
  <2>3. QED  BY <1>1, <2>1, <2>2, RetFields DEF PriorSteps
<1>4. Coherent(u, m, store, Mishaps)  BY <1>1, <1>3 DEF Recalls
<1>5. /\ store \in [Ids -> Deck \cup Child \cup {Gone}] /\ \A j \in Ids : store[j] # None
  <2>1. store \in [Ids -> Deck \cup Child \cup {Gone}]  BY DEF Returns, Clear
  <2>2. QED  BY <2>1, ConstantFacts
<1>6. (u.got = Lost /\ v = Gone /\ Mishaps # 0) \/ v = store[i]
  <2>1. u.got = Lost \/ u.got.anew[i] = store[i]  BY <1>1, <1>2, <1>3 DEF Owning
  <2>2. u.got = Lost => losses > 0  BY <1>1 DEF Progress, Undoing
  <2>3. CASE u.got = Lost
    <3>1. v = Gone  BY <2>3 DEF Anew
    <3>2. losses > 0  BY <2>2, <2>3
    <3>3. Mishaps > 0  BY <1>1, <3>2
    <3>4. Mishaps # 0  BY <1>1, <3>3
    <3>5. QED  BY <2>3, <3>1, <3>4
  <2>4. CASE u.got # Lost
    <3>1. v = u.got.anew[i]  BY <2>4 DEF Anew
    <3>2. QED  BY <2>1, <2>4, <3>1
  <2>5. QED  BY <2>3, <2>4
<1>7. m.obj[u.deck] # None /\ (u.pc = "child" => m.obj[u.kid] # None)
  <2>1. u.pc = "work" => m.obj[u.deck] = Deck0(scene)  BY <1>1 DEF Recalls
  <2>2. u.pc = "child" => m.obj[u.deck] = Copied(scene, p) /\ m.obj[u.kid] = store[u.id]
    BY <1>1, <1>2 DEF Recalls, Midway
  <2>3. u.pc = "child" => u.id \in Ids
    <3>1. ASSUME u.pc = "child" PROVE u.id \in Ids
      <4>1. PICK q \in Runs0(scene) : q = <<u.key, u.id>>  BY <1>3, <3>1
      <4>2. q[2] = u.id  BY <4>1
      <4>3. QED  BY <1>1, <4>1, <4>2, RunsFacts
    <3>2. QED  BY <3>1
  <2>4. Deck0(scene) # None /\ Copied(scene, p) # None
    <3>1. Deck0(scene) \in Deck /\ Copied(scene, p) \in Deck  BY <1>1, RevokedFacts
    <3>2. QED  BY <3>1, ConstantFacts
  <2>5. QED  BY <1>3, <1>5, <2>1, <2>2, <2>3, <2>4
<1>8. ASSUME r \in MemRec, r.queue = m.queue, \A q \in Objects : m.obj[q] # None => r.obj[q] = m.obj[q],
             Coherent(u, r, store, Mishaps), \A j \in Ids : r.owner[j] = p => m.owner[j] = p
      PROVE  /\ r \in MemRec /\ Recalls(scene, p, u, r, store, Mishaps)
             /\ Owning(p, u, r, store, FALSE)
  <2>1. r.obj[u.deck] = m.obj[u.deck] /\ (u.pc = "child" => r.obj[u.kid] = m.obj[u.kid])
    BY <1>3, <1>7, <1>8
  <2>2. Recalls(scene, p, u, r, store, Mishaps)  BY <1>1, <1>3, <1>8, <2>1 DEF Recalls
  <2>3. Owning(p, u, r, store, FALSE)  BY <1>1, <1>8 DEF Owning
  <2>4. QED  BY <1>8, <2>2, <2>3
<1>9. CASE v = Gone
  <2>1. PICK o \in Objects \cup {None} : o = None  OBVIOUS
  <2>8. PICK z \in MemRec : z = m  BY <1>1
  <2>9. r = Published(m, i, None, p)  BY <1>9 DEF Refilled
  <2>2. r = Published(z, i, o, p)  BY <2>1, <2>8, <2>9
  <2>10. i \in Ids  BY <1>2
  <2>3. /\ r \in MemRec /\ r.obj = m.obj /\ r.queue = m.queue
        /\ \A j \in Ids : r.slot[j] = m.slot[j] \/ (j = i /\ r.slot[j] = o)
        /\ \A j \in Ids : r.owner[j] = p => j # i /\ m.owner[j] = p
    <3>1. /\ r \in MemRec /\ r.obj = z.obj /\ r.queue = z.queue
          /\ \A j \in Ids : r.slot[j] = z.slot[j] \/ (j = i /\ r.slot[j] = o)
          /\ \A j \in Ids : r.owner[j] = p => j # i /\ z.owner[j] = p
      BY <2>2, <2>10, PublishedIs
    <3>2. QED  BY <2>8, <3>1
  <2>4. \A j \in Ids : r.slot[j] = m.slot[j] \/ (j = i /\ r.slot[j] = None)  BY <2>1, <2>3
  <2>5. Mishaps # 0 \/ store[i] = Gone  BY <1>6, <1>9
  <2>6. Coherent(u, r, store, Mishaps)  BY <1>4, <2>3, <2>4, <2>5 DEF Coherent
  <2>7. QED  BY <1>8, <2>3, <2>6
<1>10. CASE v # Gone
  <2>1. v = store[i] /\ v \in Deck \cup Child  BY <1>2, <1>5, <1>6, <1>10
  <2>2. PICK o : o = Fresh(m)  OBVIOUS
  <2>3. o \in Objects /\ m.obj[o] = None  BY <1>1, <2>2, TidyRoom
  <2>4. PICK w : w = Put(m, o, v)  OBVIOUS
  <2>5. /\ w \in MemRec /\ w.slot = m.slot /\ w.queue = m.queue /\ w.owner = m.owner
        /\ w.obj[o] = v /\ \A q \in Objects : q # o => w.obj[q] = m.obj[q]
    BY <1>1, <2>1, <2>3, <2>4, PutIs
  <2>6. r = Published(w, i, o, p)  BY <1>10, <2>2, <2>4 DEF Refilled
  <2>7. /\ r \in MemRec /\ r.obj = w.obj /\ r.queue = w.queue
        /\ \A j \in Ids : r.slot[j] = w.slot[j] \/ (j = i /\ r.slot[j] = o)
        /\ \A j \in Ids : r.owner[j] = p => j # i /\ w.owner[j] = p
    BY <1>2, <2>3, <2>5, <2>6, PublishedIs
  <2>8. \A q \in Objects : m.obj[q] # None => r.obj[q] = m.obj[q]  BY <2>3, <2>5, <2>7
  <2>9. Coherent(u, r, store, Mishaps)
    <3>1. ASSUME NEW j \in Ids, r.slot[j] # None PROVE r.obj[r.slot[j]] = store[j]
      <4>1. CASE j = i /\ r.slot[j] = o  BY <2>1, <2>5, <2>7, <4>1
      <4>2. CASE r.slot[j] = m.slot[j]
        <5>1. m.obj[m.slot[j]] = store[j] /\ m.slot[j] \in Objects
          BY <1>1, <1>3, <1>4, <3>1, <4>2, MemFields DEF Coherent
        <5>2. QED  BY <1>5, <2>8, <4>2, <5>1
      <4>3. QED  BY <2>5, <2>7, <4>1, <4>2
    <3>2. ASSUME Mishaps = 0, NEW j \in Ids, store[j] # Gone PROVE r.slot[j] # None
      BY <1>4, <2>3, <2>5, <2>7, <3>2, ConstantFacts DEF Coherent
    <3>3. QED  BY <3>1, <3>2 DEF Coherent
  <2>10. QED  BY <1>8, <2>5, <2>7, <2>8, <2>9
<1>11. QED  BY <1>9, <1>10

LEMMA RetRefills ==
    ASSUME NEW p \in Calls, Sole(p), Returns(p), Refill(p)
    PROVE  Returns(p)'
<1> DEFINE u == call[p]
           m == mem[At[p]]
<1>1. /\ u \in RetRec /\ m \in MemRec /\ M(p) = m /\ C(p) = u /\ At[p] \in Nodes
  BY ReturnFacts
<1>2. /\ p \in conn[At[p]].ready /\ scene' = scene /\ store' = store /\ conn' = conn /\ call' = call
      /\ ages' = ages /\ losses' = losses
  BY DEF Refill
<1>0. PICK i \in Rereading(p) :
         mem' = [mem EXCEPT ![At[p]] = Kept(At[p], Refilled(m, i, Anew(u, i), p), call)]
  BY <1>1, Zenon DEF Refill, Refilled, Anew
<1>3. PICK v, r : v = Anew(u, i) /\ r = Refilled(m, i, v, p)  OBVIOUS
<1>15. mem' = [mem EXCEPT ![At[p]] = Kept(At[p], r, call)]  BY <1>0, <1>3
<1>4. /\ r \in MemRec /\ Recalls(scene, p, u, r, store, Mishaps) /\ Owning(p, u, r, store, FALSE)
  BY <1>2, <1>3, RefilledIs
<1>5. /\ Clear(p) /\ conn[At[p]].sent = <<>> /\ Progress(scene, p, u, store, FALSE, losses, Mishaps)
      /\ OnWire(p, u, conn[At[p]])
  BY <1>2, ReturnFacts DEF Returns
<1>6. mem \in [Nodes -> MemRec] /\ \A q \in Calls : q # p => call[q].deck = None /\ call[q].kid = None
  BY <1>5 DEF Clear
<1>7. PICK k : k = Kept(At[p], r, call)  OBVIOUS
<1>8. /\ k \in MemRec /\ k.slot = r.slot /\ k.owner = r.owner /\ k.queue = r.queue /\ Tidy(u, k)
      /\ \A o \in Objects : o \in {r.slot[j] : j \in Ids} \cup {u.deck, u.kid} => k.obj[o] = r.obj[o]
  BY <1>4, <1>6, <1>7, KeptIs
<1>9. Recalls(scene, p, u, k, store, Mishaps)  BY <1>1, <1>4, <1>5, <1>8, RecallsKept
<1>10. mem' \in [Nodes -> MemRec] /\ mem'[At[p]] = k  BY <1>1, <1>6, <1>7, <1>8, <1>15
<1>11. (conn[At[p]].sent # <<>>) = FALSE  BY <1>5
<1>12. /\ Progress(scene, p, u, store, conn[At[p]].sent # <<>>, losses, Mishaps)
       /\ Owning(p, u, k, store, conn[At[p]].sent # <<>>)
  <2>1. Owning(p, u, k, store, FALSE)  BY <1>4, <1>8 DEF Owning
  <2>2. QED  BY <1>5, <1>11, <2>1
<1>13. Clear(p)' /\ Mishaps' = Mishaps  BY <1>2, <1>5, <1>10 DEF Clear, Mishaps
<1>14. QED  BY <1>2, <1>5, <1>8, <1>9, <1>10, <1>12, <1>13, Zenon DEF Returns

\* A step that changes nothing.
LEMMA RetStutters == ASSUME NEW p \in Calls, Returns(p), UNCHANGED vars PROVE Returns(p)'
<1>1. /\ scene' = scene /\ store' = store /\ mem' = mem /\ conn' = conn /\ call' = call
      /\ ages' = ages /\ losses' = losses
  BY DEF vars
<1>2. Clear(p)' /\ Mishaps' = Mishaps  BY <1>1 DEF Returns, Clear, Mishaps
<1>3. /\ Progress(scene, p, call[p], store, conn[At[p]].sent # <<>>, losses, Mishaps)
      /\ Recalls(scene, p, call[p], mem[At[p]], store, Mishaps) /\ Tidy(call[p], mem[At[p]])
      /\ OnWire(p, call[p], conn[At[p]]) /\ Owning(p, call[p], mem[At[p]], store, conn[At[p]].sent # <<>>)
  BY DEF Returns
<1>4. QED  BY <1>1, <1>2, <1>3, Zenon DEF Returns

-----------------------------------------------------------------------------
(* Every step                                                              *)

\* The other calls do nothing.
LEMMA OthersRest ==
    ASSUME NEW p \in Calls, Sole(p), Returns(p), NEW q \in Calls, q # p
    PROVE  ~Begin(q) /\ ~Keepalive(q) /\ ~Authenticate(q) /\ ~Resume(q)
<1>1. call[q].pc = "done" /\ call[q].cmd = "none"  BY DEF Returns, Clear
<1>2. ~Begin(q) /\ ~Keepalive(q) /\ ~Authenticate(q)  BY <1>1 DEF Begin, Keepalive, Authenticate
<1>3. \A k : ~Working(q, k)  BY <1>1 DEF Working, At_
<1>4. /\ ~Update(q) /\ ~Join(q) /\ ~Watch(q) /\ ~EndActivity(q) /\ ~Enter(q) /\ ~Return(q)
      /\ ~DeleteDeck(q) /\ ~Queue(q)
  BY <1>3 DEF Update, Join, Watch, EndActivity, Enter, Return, DeleteDeck, Queue
<1>5. \A t : t # "done" => ~At_(q, t)  BY <1>1 DEF At_
<1>6. /\ ~Open(q) /\ ~TellAll(q) /\ ~DropDeck(q) /\ ~Deleted(q) /\ ~Revalidated(q) /\ ~Turn(q)
      /\ ~Look(q) /\ ~Existing(q) /\ ~Create(q) /\ ~Note(q) /\ ~Greet(q)
  BY <1>5 DEF Open, TellAll, DropDeck, Deleted, Revalidated, Turn, Look, Existing, Create, Note, Greet
<1>7. /\ ~Announce(q) /\ ~Bootstrap(q) /\ ~Minted(q) /\ ~NotNoted(q) /\ ~Noted(q) /\ ~Ended(q)
      /\ ~Replay(q) /\ ~Lookup(q) /\ ~Token(q) /\ ~Undo(q)
  BY <1>5 DEF Announce, Bootstrap, Minted, NotNoted, Noted, Ended, Replay, Lookup, Token, Undo
<1>8. ~Handle(q)  BY <1>4, <1>6, <1>7, Zenon DEF Handle
<1>9. Rereading(q) = {}  BY <1>1 DEF Rereading, C
<1>10. ~Refill(q)  BY <1>9 DEF Refill
<1>11. ~TouchDeck(q)  BY <1>1 DEF TouchDeck, HasChild, ChildSteps
<1>12. QED  BY <1>2, <1>8, <1>10, <1>11, Zenon DEF Resume

\* The return takes none of the steps of the other requests.
LEMMA ItsSteps ==
    ASSUME NEW p \in Calls, Sole(p), Returns(p), Begin(p) \/ Keepalive(p) \/ Authenticate(p) \/ Resume(p)
    PROVE  \/ Begin(p) \/ Refill(p) \/ TouchDeck(p) \/ Open(p) \/ (Touched(p) /\ Return(p)) \/ Replay(p)
           \/ (Touched(p) /\ Lookup(p)) \/ (Token(p) /\ SetOK(p)) \/ Noted(p) \/ Undo(p)
<1>1. Is(p, "return") /\ (\A k : Is(p, k) => k = "return") /\ call[p] \in RetRec  BY ReturnFacts
<1>2. call[p].pc \in {"idle", "open", "work", "replay", "child", "token", "noted", "undo", "done"}
  BY <1>1, RetFields DEF ReturnSteps, PriorSteps
<1>3. ~Keepalive(p) /\ ~Authenticate(p)  BY <1>1, <1>2 DEF Keepalive, Authenticate
<1>4. \A k : Working(p, k) => k = "return"  BY <1>1 DEF Working
<1>5. ~Update(p) /\ ~Join(p) /\ ~Watch(p) /\ ~EndActivity(p) /\ ~Enter(p) /\ ~DeleteDeck(p) /\ ~Queue(p)
  BY <1>4 DEF Update, Join, Watch, EndActivity, Enter, DeleteDeck, Queue
<1>6. \A t : At_(p, t) => t \in {"idle", "open", "work", "replay", "child", "token", "noted", "undo", "done"}
  BY <1>2 DEF At_
<1>7. /\ ~TellAll(p) /\ ~DropDeck(p) /\ ~Deleted(p) /\ ~Revalidated(p) /\ ~Turn(p) /\ ~Look(p)
      /\ ~Existing(p) /\ ~Create(p) /\ ~Note(p) /\ ~Greet(p)
  BY <1>6 DEF TellAll, DropDeck, Deleted, Revalidated, Turn, Look, Existing, Create, Note, Greet
<1>8. ~Announce(p) /\ ~Bootstrap(p) /\ ~Minted(p) /\ ~Ended(p)
  BY <1>6 DEF Announce, Bootstrap, Minted, Ended
<1>9. ~NotNoted(p)  BY <1>1 DEF NotNoted
<1>10. Token(p) => SetOK(p)  BY <1>1 DEF Token
<1>11. Handle(p) => \/ Open(p) \/ Return(p) \/ Replay(p) \/ Lookup(p) \/ (Token(p) /\ SetOK(p))
                   \/ Noted(p) \/ Undo(p)
  BY <1>5, <1>7, <1>8, <1>9, <1>10, Zenon DEF Handle
<1>12. QED  BY <1>3, <1>11, Zenon DEF Resume

LEMMA NextReturns ==
    ASSUME NEW p \in Calls, Sole(p), Returns(p), [Next]_vars
    PROVE  Returns(p)'
<1>1. ASSUME NEW q \in Calls, Begin(q) \/ Keepalive(q) \/ Authenticate(q) \/ Resume(q) PROVE Returns(p)'
  <2>1. q = p  BY <1>1, OthersRest
  <2>2. \/ Begin(p) \/ Refill(p) \/ TouchDeck(p) \/ Open(p) \/ (Touched(p) /\ Return(p)) \/ Replay(p)
        \/ (Touched(p) /\ Lookup(p)) \/ (Token(p) /\ SetOK(p)) \/ Noted(p) \/ Undo(p)
    BY <1>1, <2>1, ItsSteps
  <2>3. CASE Begin(p)  BY <2>3, RetBegins
  <2>4. CASE Open(p)  BY <2>4, RetOpens
  <2>5. CASE Touched(p) /\ Return(p)  BY <2>5, RetStarts
  <2>6. CASE Replay(p)  BY <2>6, RetReplays
  <2>7. CASE Touched(p) /\ Lookup(p)  BY <2>7, RetLooks
  <2>8. CASE Token(p) /\ SetOK(p)  BY <2>8, RetTokens
  <2>9. CASE Noted(p)  BY <2>9, RetNotes
  <2>10. CASE Undo(p)  BY <2>10, RetUndoes
  <2>11. CASE Refill(p)  BY <2>11, RetRefills
  <2>12. CASE TouchDeck(p)  BY <2>12, RetTouches
  <2>13. QED  BY <2>2, <2>3, <2>4, <2>5, <2>6, <2>7, <2>8, <2>9, <2>10, <2>11, <2>12
<1>2. ASSUME NEW n \in Nodes, Exec(n) \/ Receive(n) \/ Lose(n) \/ \E i \in Ids : Age(n, i)
      PROVE  Returns(p)'
  <2>1. CASE Exec(n)  BY <2>1, RetExec
  <2>2. CASE Receive(n)  BY <2>2, RetReceives
  <2>3. CASE Lose(n)  BY <2>3, RetLoses
  <2>4. CASE \E i \in Ids : Age(n, i)  BY <2>4, RetAges
  <2>5. QED  BY <1>2, <2>1, <2>2, <2>3, <2>4
<1>3. CASE UNCHANGED vars  BY <1>3, RetStutters
<1>4. QED  BY <1>1, <1>2, <1>3 DEF Next

\* Nothing has been done at the start.
LEMMA RestingCall ==
    ASSUME NEW c, c = Calm \/ c = [Calm EXCEPT !.pc = "done"]
    PROVE  /\ c \in RetRec /\ c.cmd = "none" /\ c.on = TheDeck /\ c.out = None /\ c.got = None /\ c.deck = None
           /\ c.kid = None /\ c.todo = {} /\ c.undo = <<>> /\ c.reply = "none"
           /\ (c = Calm => c.pc = "idle") /\ (c # Calm => c.pc = "done")
<1>1. TheDeck \in Ids /\ {} \in Rows /\ <<>> \in Undos  BY ConstantFacts DEF Rows, Undos
<1>2. PICK v : v = Calm  OBVIOUS
<1>3. v = [pc |-> "idle", cmd |-> "none", on |-> TheDeck, out |-> None, got |-> None,
           deck |-> None, kid |-> None, id |-> None, todo |-> {}, undo |-> <<>>, left |-> 0,
           key |-> None, orig |-> None, reply |-> "none"]
  BY <1>2 DEF Calm
<1>4. v \in RetRec  BY <1>1, <1>3 DEF RetRec, PriorSteps, Outs, Gots
<1>5. /\ v.pc = "idle" /\ v.cmd = "none" /\ v.on = TheDeck /\ v.out = None /\ v.got = None /\ v.deck = None
      /\ v.kid = None /\ v.todo = {} /\ v.undo = <<>> /\ v.reply = "none"
  BY <1>3
<1>6. PICK w : w = [v EXCEPT !.pc = "done"]  OBVIOUS
<1>7. w \in RetRec  BY <1>4, <1>6 DEF RetRec
<1>8. /\ w.pc = "done" /\ w.cmd = v.cmd /\ w.on = v.on /\ w.out = v.out /\ w.got = v.got /\ w.deck = v.deck
      /\ w.kid = v.kid /\ w.todo = v.todo /\ w.undo = v.undo /\ w.reply = v.reply
  BY <1>4, <1>6, <1>7 DEF RetRec
<1>9. CASE c = v  BY <1>2, <1>4, <1>5, <1>9
<1>10. CASE c = w
  <2>1. c # v  BY <1>5, <1>8, <1>10
  <2>2. QED  BY <1>2, <1>5, <1>7, <1>8, <1>10, <2>1
<1>11. QED  BY <1>2, <1>6, <1>9, <1>10

\* The caches agree with Valkey to begin with, and hold nothing else.
LEMMA WarmAgrees ==
    ASSUME NEW s \in Scene, NEW m, m = Warm(s)
    PROVE  /\ \A i \in Ids : m.slot[i] # None => m.obj[m.slot[i]] = Stored(s)[i]
           /\ \A i \in Ids : Stored(s)[i] # Gone => m.slot[i] # None
           /\ \A o \in Objects : m.obj[o] # None => o \in {m.slot[i] : i \in Ids}
           /\ \A k \in Keys : m.queue[k] = <<>>
           /\ \A i \in Ids : m.owner[i] = None
<1>1. PICK S : S = Stored(s)  OBVIOUS
<1>2. PICK b, t : /\ b = [o \in Objects |-> IF o - 1 \in Ids /\ S[o - 1] # Gone THEN S[o - 1] ELSE None]
                  /\ t = [i \in Ids |-> IF S[i] # Gone THEN i + 1 ELSE None]
  OBVIOUS
<1>3. PICK w, q : w = [i \in Ids |-> None] /\ q = [k \in Keys |-> <<>>]  OBVIOUS
<1>4. m = [obj |-> b, slot |-> t, owner |-> w, queue |-> q]  BY <1>1, <1>2, <1>3 DEF Warm
<1>5. m.obj = b /\ m.slot = t /\ m.queue = q /\ m.owner = w  BY <1>4
<1>6. \A i \in Ids : i \in Nat /\ i + 1 \in Objects /\ (i + 1) - 1 = i
  BY ConstantsOK DEF Ids, TheDeck, Children, Objects
<1>7. None \notin Objects  BY ConstantFacts
<1>8. ASSUME NEW i \in Ids
      PROVE  /\ t[i] # None => b[t[i]] = S[i]
             /\ S[i] # Gone => t[i] # None
  <2>1. CASE S[i] = Gone  BY <1>2, <2>1
  <2>2. CASE S[i] # Gone
    <3>1. t[i] = i + 1 /\ t[i] # None  BY <1>2, <1>6, <1>7, <2>2
    <3>2. b[i + 1] = S[i]  BY <1>2, <1>6, <2>2
    <3>3. QED  BY <3>1, <3>2
  <2>3. QED  BY <2>1, <2>2
<1>9. ASSUME NEW o \in Objects, b[o] # None PROVE \E i \in Ids : t[i] = o
  <2>1. o - 1 \in Ids /\ S[o - 1] # Gone  BY <1>2, <1>9
  <2>2. o \in Nat  BY ConstantsOK DEF Objects
  <2>3. t[o - 1] = o  BY <1>2, <2>1, <2>2
  <2>4. QED  BY <2>1, <2>3
<1>10. (\A k \in Keys : q[k] = <<>>) /\ \A i \in Ids : w[i] = None  BY <1>3
<1>11. QED  BY <1>1, <1>5, <1>8, <1>9, <1>10

LEMMA InitReturns ==
    ASSUME NEW p \in Calls, Sole(p), Init
    PROVE  Returns(p)
<1>1. /\ scene \in Scenes /\ store = Stored(scene) /\ mem = [n \in Nodes |-> Warm(scene)]
      /\ conn = [n \in Nodes |-> Quiet] /\ ages = 0 /\ losses = 0
      /\ call = [q \in Calls |-> IF Is(q, "none") THEN [Calm EXCEPT !.pc = "done"] ELSE Calm]
  BY DEF Init
<1>2. scene \in Scene /\ At[p] \in Nodes  BY <1>1, ConstantsOK
<1>3. PICK s \in Scene : s = scene  BY <1>2
<1>4. PICK w : w = Warm(s)  OBVIOUS
<1>5. mem = [n \in Nodes |-> w] /\ w \in MemRec  BY <1>1, <1>3, <1>4, WarmFacts
<1>6. ASSUME NEW q \in Calls
      PROVE  /\ call[q] \in RetRec /\ call[q].deck = None /\ call[q].kid = None /\ call[q].reply = "none"
             /\ call[q].cmd = "none" /\ call[q].on = TheDeck /\ call[q].got = None
             /\ call[q].todo = {} /\ call[q].undo = <<>>
             /\ call[q].pc = IF Is(q, "none") THEN "done" ELSE "idle"
  <2>1. PICK c : c = call[q]  OBVIOUS
  <2>2. c = IF Is(q, "none") THEN [Calm EXCEPT !.pc = "done"] ELSE Calm  BY <1>1, <2>1
  <2>3. c = Calm \/ c = [Calm EXCEPT !.pc = "done"]  BY <2>2
  <2>4. PICK v : v = [Calm EXCEPT !.pc = "done"]  OBVIOUS
  <2>5. v = Calm \/ v = [Calm EXCEPT !.pc = "done"]  BY <2>4
  <2>6. v # Calm /\ v.pc = "done"
    <3>1. Calm.pc = "idle" /\ v.pc = "done"  BY <2>4 DEF Calm
    <3>2. QED  BY <3>1
  <2>7. c.pc = IF Is(q, "none") THEN "done" ELSE "idle"  BY <2>2, <2>3, <2>4, <2>6, RestingCall
  <2>8. QED  BY <2>1, <2>3, <2>7, RestingCall
<1>7. call \in [Calls -> RetRec]
  <2>1. PICK f : f = [q \in Calls |-> call[q]]  OBVIOUS
  <2>2. call = f  BY <1>1, <2>1
  <2>3. f \in [Calls -> RetRec]  BY <1>6, <2>1
  <2>4. QED  BY <2>2, <2>3
<1>8. /\ store \in [Ids -> Deck \cup Child \cup {Gone}] /\ store[TheDeck] = Began(s) /\ Began(s) \in Deck
      /\ \A i \in Children : IF i <= Cardinality(s.running) THEN store[i] \in Child ELSE store[i] = Gone
  BY <1>1, <1>3, StoredFacts, BeganFacts
<1>9. Clear(p)
  <2>1. conn \in [Nodes -> ConnRec] /\ \A n \in Nodes : conn[n] = Quiet  BY <1>1, QuietIs
  <2>2. mem \in [Nodes -> MemRec]  BY <1>5
  <2>3. \A q \in Calls : q # p => /\ call[q].pc = "done" /\ call[q].reply = "none" /\ call[q].cmd = "none"
                                  /\ call[q].deck = None /\ call[q].kid = None
    BY <1>6 DEF Sole
  <2>4. QED  BY <1>1, <1>3, <1>7, <1>8, <2>1, <2>2, <2>3 DEF Clear
<1>10. PICK u \in RetRec : u = call[p]  BY <1>6
<1>11. /\ u.pc = "idle" /\ u.cmd = "none" /\ u.got = None /\ u.deck = None /\ u.kid = None
       /\ u.todo = {} /\ u.undo = <<>> /\ u.reply = "none"
  <2>1. ~Is(p, "none")  BY DEF Sole, Is
  <2>2. QED  BY <1>6, <1>10, <2>1
<1>12. Progress(s, p, u, store, FALSE, 0, 0)
  <2>1. store[TheDeck] = Deck0(s) /\ \A r \in Runs0(s) : store[r[2]] = Child0(s, r[2])
    BY <1>1, <1>3, <1>8 DEF Deck0, Child0
  <2>2. Begun(u)  BY <1>11 DEF Begun, Midway
  <2>3. Opening(s, u, FALSE)  BY <1>11 DEF Opening
  <2>4. AtKids(s, p, u, store, FALSE, 0)  BY <1>11 DEF AtKids
  <2>5. DeckNow(s, p, u, store, FALSE)  BY <1>11, <2>1 DEF DeckNow
  <2>6. KidsNow(s, p, u, store, 0, 0)  BY <1>11, <2>1 DEF KidsNow, Midway
  <2>7. Undoing(s, u, store, FALSE, 0)
    <3>1. Len(u.undo) = 0  BY <1>11
    <3>2. \A l \in 1..Len(u.undo) : FALSE  BY <3>1
    <3>3. u.got # Lost  BY <1>11, ConstantFacts
    <3>4. QED  BY <1>11, <3>2, <3>3 DEF Undoing
  <2>8. QED  BY <2>2, <2>3, <2>4, <2>5, <2>6, <2>7 DEF Progress
<1>13. Recalls(s, p, u, w, store, 0) /\ Tidy(u, w) /\ Owning(p, u, w, store, FALSE)
  <2>1. /\ \A i \in Ids : w.slot[i] # None => w.obj[w.slot[i]] = store[i]
        /\ \A i \in Ids : store[i] # Gone => w.slot[i] # None
        /\ \A o \in Objects : w.obj[o] # None => o \in {w.slot[i] : i \in Ids}
        /\ \A k \in Keys : w.queue[k] = <<>>
        /\ \A i \in Ids : w.owner[i] = None
    BY <1>1, <1>3, <1>4, WarmAgrees
  <2>2. Coherent(u, w, store, 0)  BY <2>1 DEF Coherent
  <2>3. Recalls(s, p, u, w, store, 0)  BY <1>11, <2>1, <2>2 DEF Recalls, Midway
  <2>4. \A i \in Ids : w.owner[i] # p  BY <2>1, ConstantFacts
  <2>5. Owning(p, u, w, store, FALSE)  BY <2>4 DEF Owning
  <2>6. QED  BY <2>1, <2>3, <2>5 DEF Tidy
<1>14. conn[At[p]] = Quiet /\ (conn[At[p]].sent # <<>>) = FALSE  BY <1>1, <1>2, QuietIs
<1>15. OnWire(p, u, conn[At[p]])  BY <1>11, <1>14 DEF OnWire
<1>19. Mishaps = 0  BY <1>1 DEF Mishaps
<1>16. Progress(scene, p, u, store, conn[At[p]].sent # <<>>, losses, Mishaps)
  BY <1>1, <1>3, <1>12, <1>14, <1>19
<1>17. /\ Recalls(scene, p, u, mem[At[p]], store, Mishaps) /\ Tidy(u, mem[At[p]])
       /\ Owning(p, u, mem[At[p]], store, conn[At[p]].sent # <<>>)
  <2>1. mem[At[p]] = w  BY <1>2, <1>5
  <2>2. QED  BY <1>3, <1>13, <1>14, <1>19, <2>1
<1>18. QED  BY <1>9, <1>10, <1>15, <1>16, <1>17 DEF Returns

\* An answered return has revoked the student in every record, and one that failed has put
\* the children back.
LEMMA WholeReturn ==
    ASSUME NEW p \in Calls, Sole(p), Returns(p)
    PROVE  /\ Done(p, "return") /\ (losses = 0 \/ (ages = 0 /\ losses <= 1)) => Revoked(p)
           /\ call[p].reply = "failed" /\ losses <= 1 =>
                  \A j \in 1..Len(call[p].undo) : store[call[p].undo[j][1]] = call[p].undo[j][2]
<1> DEFINE u == call[p]
<1>1. /\ Clear(p) /\ Progress(scene, p, u, store, conn[At[p]].sent # <<>>, losses, Mishaps) /\ scene \in Scene
      /\ Student(p) = scene.student[p]
  BY ReturnFacts DEF Returns
<1>2. /\ DeckNow(scene, p, u, store, conn[At[p]].sent # <<>>) /\ KidsNow(scene, p, u, store, losses, Mishaps)
      /\ Undoing(scene, u, store, conn[At[p]].sent # <<>>, losses) /\ Begun(u)
  BY <1>1 DEF Progress
<1>3. ASSUME Done(p, "return"), losses = 0 \/ (ages = 0 /\ losses <= 1) PROVE Revoked(p)
  <2>1. u.reply = "ok" /\ u.pc = "done"  BY <1>2, <1>3 DEF Done, Begun
  <2>2. store[TheDeck] = Deck1(scene, p)  BY <1>2, <2>1 DEF DeckNow
  <2>3. PICK s \in Scene : s = scene  BY <1>1
  <2>4. s.student[p] \notin Deck1(s, p).students \cup Deck1(s, p).accepted  BY RevokedFacts
  <2>5. Student(p) \notin store[TheDeck].students \cup store[TheDeck].accepted
    BY <1>1, <2>2, <2>3, <2>4
  <2>6. ~(losses > 0 /\ Mishaps > 1)
    <3>1. losses \in Nat /\ ages \in Nat  BY <1>1 DEF Clear
    <3>2. QED  BY <1>3, <3>1 DEF Mishaps
  <2>7. \A r \in Runs0(s) : store[r[2]] = Child1(s, p, r[2])
    BY <1>2, <2>1, <2>3, <2>6 DEF KidsNow, Midway
  <2>8. ASSUME NEW i \in Children, store[i] # Gone PROVE s.student[p] \notin store[i].tokens
    <3>1. i <= Cardinality(s.running)  BY <1>1, <2>3, <2>8 DEF Clear
    <3>2. Cardinality(s.running) \in Nat  BY RunsFacts
    <3>3. i \in 1..Cardinality(s.running)  BY <3>1, <3>2 DEF Children
    <3>4. PICK r \in Runs0(s) : r[2] = i  BY <3>3, RunsFacts
    <3>5. Child0(s, i) \in Child  BY <3>4, RunsFacts
    <3>6. s.student[p] \notin Child1(s, p, i).tokens  BY <3>5, RevokedFacts
    <3>7. QED  BY <2>7, <3>4, <3>6
  <2>9. QED  BY <1>1, <2>3, <2>5, <2>8 DEF Revoked
<1>4. ASSUME u.reply = "failed", losses <= 1
      PROVE  \A j \in 1..Len(u.undo) : store[u.undo[j][1]] = u.undo[j][2]
  BY <1>2, <1>4 DEF Undoing, Restored
<1>5. QED  BY <1>3, <1>4

\* The only call.
LEMMA OnlyReturn == ASSUME Alone, NEW p \in Calls, Is(p, "return") PROVE Sole(p)
<1>1. ~Is(p, "none")  BY DEF Is
<1>2. QED  BY <1>1 DEF Alone, Sole

\* How far the return of the only call has come: what Valkey, the cache and the clones it
\* made hold at each of its steps, whatever ages or is lost.
THEOREM ReturnsGoOn == Spec => []RInv
<1>1. Init => RInv  BY InitReturns DEF RInv
<1>2. RInv /\ [Next]_vars => RInv'
  <2>1. SUFFICES ASSUME RInv, [Next]_vars, NEW p \in Calls, Sole(p)' PROVE Returns(p)'  BY DEF RInv
  <2>2. Sole(p)  BY <2>1, SceneKept DEF Sole, Is
  <2>3. QED  BY <2>1, <2>2, NextReturns DEF RInv
<1>3. QED  BY <1>1, <1>2, PTL DEF Spec

\* A student's return to the waiting room that nobody disturbs revokes the student in the
\* record of the deck and in every child, unless a record left the cache, for its age or for a
\* touch that failed, and a connection was lost after that; one that fails puts back every
\* child whose write was answered, if only one connection was lost (the return-to-waiting-room
\* route and its rollback of the children in src/activities/syncdeck/server/routes.ts).
THEOREM ReturnsWhole == Spec => []ReturnsAreWhole
<1>1. RInv => ReturnsAreWhole
  <2>1. SUFFICES ASSUME RInv, Alone, NEW p \in Calls
                 PROVE  /\ Done(p, "return") /\ (losses = 0 \/ (ages = 0 /\ losses <= 1)) => Revoked(p)
                        /\ Is(p, "return") /\ call[p].reply = "failed" /\ losses <= 1 =>
                               \A j \in 1..Len(call[p].undo) :
                                  store[call[p].undo[j][1]] = call[p].undo[j][2]
    BY DEF ReturnsAreWhole
  <2>2. CASE Is(p, "return")
    <3>1. Sole(p)  BY <2>1, <2>2, OnlyReturn
    <3>2. Returns(p)  BY <2>1, <3>1 DEF RInv
    <3>3. QED  BY <3>1, <3>2, WholeReturn
  <2>3. CASE ~Is(p, "return")  BY <2>3 DEF Done
  <2>4. QED  BY <2>2, <2>3
<1>2. QED  BY <1>1, ReturnsGoOn, PTL
=============================================================================
