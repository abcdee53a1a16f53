---------------------- MODULE EmbeddedActivities_proofs ----------------------
(***************************************************************************)
(* The embedded activities of a session, for any number of calls,          *)
(* activities, students and children: while the handlers of one instance   *)
(* share the cached record, no change they answered is lost.               *)
(*                                                                         *)
(* Nothing protects the record: no handler compares a revision or holds a  *)
(* lock over it.  What keeps the changes is that every handler has the     *)
(* same object of a record, that a command carries a copy of what that     *)
(* object was when it was sent, and that one connection runs its commands  *)
(* in the order they were sent: what was changed is in every copy that is  *)
(* sent later, so that no later write takes it back (DeckFacts,            *)
(* ChildFacts).  A child that was deleted is read anew only behind its     *)
(* deletion, so nobody gets a second object of it (Misses).                *)
(***************************************************************************)
EXTENDS EmbeddedActivities, FiniteSetTheorems, FunctionTheorems, SequenceTheorems,
        WellFoundedInduction, TLAPS

Used == {p \in Calls : ~Is(p, "none")}
N    == At[CHOOSE p \in Used : TRUE]        \* the instance of a sheltered scene

Obj(o)   == mem[N].obj[o]
Slot(i)  == mem[N].slot[i]
Owner(i) == mem[N].owner[i]
Line(k)  == mem[N].queue[k]
Notes    == Obj(1)                          \* the deck, which everybody has
Ready    == conn[N].ready

\* Calls whose command waits to be run, or to be answered, and which of two runs first.
In(s, p) == \E j \in 1..Len(s) : s[j] = p
Before(s, p, q) == \E i, j \in 1..Len(s) : i < j /\ s[i] = p /\ s[j] = q
Once(s)  == \A i, j \in 1..Len(s) : s[i] = s[j] => i = j
InSent(p) == In(conn[N].sent, p)
InBack(p) == In(conn[N].back, p)
After(p, q) == Before(conn[N].sent, p, q)

CallRec == [pc : Steps, cmd : {"none", "get", "set", "del", "touch"}, on : Ids,
            out : {None} \cup Deck \cup Child \cup SUBSET Ids, got : {None, Gone},
            deck : {1, None}, kid : (Objects \ {1}) \cup {None}, id : Children \cup {None},
            todo : SUBSET (Keys \X Children), undo : {<<>>}, left : {0}, key : Keys \cup {None},
            orig : {None} \cup SUBSET Students, reply : {"none", "ok", "refused", "failed"}]
MemRec  == [obj : [Objects -> Deck \cup Child \cup {None}], slot : [Ids -> Objects \cup {None}],
            owner : [Ids -> Calls \cup {None}], queue : [Keys -> Seq(Calls)]]
ConnRec == [sent : Seq(Calls), back : Seq(Calls), ready : SUBSET Calls]

Typed ==
    /\ scene \in Scenes /\ call \in [Calls -> CallRec]
    /\ mem \in [Nodes -> MemRec] /\ conn \in [Nodes -> ConnRec]
    /\ \A n \in Nodes : n # N => conn[n] = Quiet
    /\ store[TheDeck] \in Deck /\ \A i \in Children : store[i] \in Child \cup {Gone}
    /\ store \in [Ids -> Deck \cup Child \cup {Gone}]
    /\ made \in 0..MaxChildren /\ ages = 0 /\ losses = 0

\* What a call is doing at each of its steps.
OfStart    == {"locked", "existing", "probe", "made", "greet", "greeted", "mint", "minted"}
Fetches    == {"child", "greet", "mint"}
Named(p, c) == \/ c.pc \in Fetches \cup {"existing", "made", "greeted", "minted", "token", "dropped"}
               \/ c.pc = "noted" /\ scene.kind[p] \in {"start", "end"}
               \/ c.pc = "done" /\ c.reply = "ok" /\ scene.kind[p] \in {"start", "end", "entry"}
Commanded(c) ==
    /\ c.pc \in {"idle", "open", "wait", "locked", "auth", "replay", "done", "existing"} => c.cmd = "none"
    /\ c.pc = "work" => c.cmd \in {"none", "touch"}
    /\ c.pc = "probe" => c.cmd = "touch"
    /\ c.pc = "noted" => c.cmd = "set" /\ c.on = TheDeck
    /\ c.pc \in {"made", "greeted", "minted", "token"} => c.cmd = "set" /\ c.on = c.id /\ c.kid # None
    /\ c.pc \in Fetches => \/ c.cmd = "none" /\ c.kid # None
                           \/ c.cmd = "get" /\ c.on = c.id /\ c.kid = None
    /\ c.pc = "dropped" => c.cmd = "del"
Holding(p, c) ==
    /\ c.pc \notin {"kids", "told", "gone", "reval", "undo"}
    /\ c.deck = IF c.pc \in {"idle", "wait", "done"} THEN None ELSE 1
    /\ c.pc = "existing" => c.kid # None
    /\ c.pc \in {"idle", "open", "work", "wait", "done"} => c.kid = None
    /\ (c.kid # None \/ Named(p, c)) => c.id # None
    /\ c.pc = "idle" \/ (Is(p, "end") /\ c.pc \in {"open", "work"}) => c.id = None
    /\ c.pc # "done" => c.reply = "none"
Does(p, c) ==
    /\ Is(p, "none") => c.pc = "done" /\ c.reply = "none"
    /\ c.pc \in OfStart \cup {"wait"} => Is(p, "start")
    /\ c.pc = "noted" => scene.kind[p] \in {"update", "join", "end", "start"}
    /\ c.pc = "dropped" => Is(p, "end")
    /\ c.pc = "auth" => Is(p, "watch")
    /\ c.pc = "replay" => p \in Sockets
    /\ c.pc = "child" => p \in Sockets \/ Is(p, "entry")
    /\ c.pc = "token" => Is(p, "join") \/ Is(p, "entry")
CallOK(p, c) == Commanded(c) /\ Holding(p, c) /\ Does(p, c)

\* The connection: a call is in one part of it, and there once; a call that found its child
\* in the cache runs on before the cache changes.
Hit(c) == c.cmd = "none" /\ c.pc \in Fetches \cup {"existing"}
Wire ==
    /\ \A p \in Calls : InSent(p) \/ InBack(p) => call[p].cmd # "none" /\ p \notin Ready
    /\ \A p \in Calls : ~(InSent(p) /\ InBack(p))
    /\ Once(conn[N].sent) /\ Once(conn[N].back)
    /\ Has({"end"}) => \A p, q \in Ready : p = q
    /\ \A p \in Calls : Hit(call[p]) => p \in Ready /\ Slot(call[p].id) = call[p].kid

\* The lines of starts: only the first one works.
InLine(p, c) == Is(p, "start") /\ c.pc \in OfStart \cup {"wait", "noted"}
Lock ==
    /\ \A k \in Keys : \A j \in 1..Len(Line(k)) :
         /\ InLine(Line(k)[j], call[Line(k)[j]]) /\ Key(Line(k)[j]) = k
         /\ j > 1 => call[Line(k)[j]].pc = "wait" /\ Line(k)[j] \notin Ready
    /\ \A p \in Calls : InLine(p, call[p]) => In(Line(Key(p)), p)
    /\ \A k \in Keys : Once(Line(k))

\* Whoever refers to record i of a child refers to the same object, and to no other's.
RefOf(i, o) == Slot(i) = o \/ \E p \in Calls : call[p].id = i /\ call[p].kid = o
Making(i)   == \E p \in Calls : call[p].pc = "made" /\ call[p].id = i
Known(i)    == i <= made /\ ~Making(i)
Memory ==
    /\ Slot(TheDeck) = 1 /\ Owner(TheDeck) = None /\ Notes \in Deck
    /\ \A i \in Children : Slot(i) # 1 /\ (Owner(i) # None => Slot(i) = None)
    /\ \A i \in Children, o \in Objects : RefOf(i, o) => i <= made /\ Obj(o) \in Child
    /\ \A i \in Children, o, u \in Objects : RefOf(i, o) /\ RefOf(i, u) => o = u
    /\ \A i, j \in Children, o \in Objects : RefOf(i, o) /\ RefOf(j, o) => i = j
    /\ \A o \in Objects : Obj(o) # None => o = 1 \/ \E i \in Children : RefOf(i, o)

\* Which children calls and entries name.
Names ==
    /\ \A p \in Calls : call[p].id # None => call[p].id <= made
    /\ \A p \in Calls : \A r \in call[p].todo : Known(r[2])
    /\ \A p, q \in Calls : call[p].pc = "made" /\ q # p => call[q].id # call[p].id
    /\ \A k \in Keys : Notes.acts[k] # None => Known(Notes.acts[k]) /\ Slot(Notes.acts[k]) # None
    /\ \A j, k \in Keys : Notes.acts[j] # None /\ Notes.acts[j] = Notes.acts[k] => j = k
    /\ \A p \in Calls, k \in Keys : Is(p, "end") /\ call[p].id # None => Notes.acts[k] # call[p].id
    /\ \A p \in Calls : call[p].pc \in {"probe", "made"} => Notes.acts[Key(p)] = None

\* The commands on their way.
SetOf(p, i) == InSent(p) /\ call[p].cmd = "set" /\ call[p].on = i
DelOf(p, i) == InSent(p) /\ call[p].cmd = "del" /\ call[p].id = i
Orders ==
    \A p \in Calls : InSent(p) =>
        /\ call[p].cmd = "set" => call[p].out \in IF call[p].on = TheDeck THEN Deck ELSE Child
        /\ call[p].cmd = "del" => call[p].out = {call[p].id}

\* When q's command is run, or when all that were sent are, child i is gone.
ClearAt(i, q) ==
    \/ store[i] = Gone /\ \A s \in Calls : SetOf(s, i) => ~After(s, q)
    \/ \E d \in Calls : /\ DelOf(d, i) /\ After(d, q)
                        /\ \A s \in Calls : SetOf(s, i) /\ After(s, q) => After(s, d)
ClearEnd(i) ==
    \/ store[i] = Gone /\ \A s \in Calls : ~SetOf(s, i)
    \/ \E d \in Calls : DelOf(d, i) /\ \A s \in Calls : SetOf(s, i) => After(s, d)
Misses ==
    /\ \A p \in Calls : call[p].cmd = "get" =>
          IF InSent(p) THEN ClearAt(call[p].id, p) ELSE call[p].got = Gone
    /\ \A i \in Children : Known(i) /\ Slot(i) = None => ClearEnd(i)

\* What call p, which names child i, has put into the deck: it is in the object, in the
\* command until that was run, then in Valkey, and in every command behind it.
Unended(k) == \A q \in Calls : Is(q, "end") /\ Key(q) = k => call[q].pc = "idle"
DeckHas(p, i, d) ==
    /\ Is(p, "join") => Student(p) \in d.students
    /\ Is(p, "update") => p \in d.strokes
    /\ Is(p, "start") /\ Unended(Key(p)) => d.acts[Key(p)] = i
Marked(p, c) ==
    \/ Is(p, "join") /\ c.pc \in {"noted", "replay", "child", "token"}
    \/ Is(p, "update") /\ c.pc = "noted"
    \/ Is(p, "start") /\ c.pc \in {"existing", "noted", "greet", "greeted", "mint", "minted"}
    \/ scene.kind[p] \in {"join", "update", "start"} /\ c.pc = "done" /\ c.reply = "ok"
Noting(p) == call[p].pc = "noted" /\ InSent(p)
Settled(k) == /\ store[TheDeck].acts[k] = Notes.acts[k]
              /\ \A q \in Calls : SetOf(q, TheDeck) => call[q].out.acts[k] = Notes.acts[k]
DeckFacts ==
    /\ \A p \in Calls : Marked(p, call[p]) =>
         /\ DeckHas(p, call[p].id, Notes)
         /\ DeckHas(p, call[p].id, IF Noting(p) THEN call[p].out ELSE store[TheDeck])
         /\ \A q \in Calls : SetOf(q, TheDeck) /\ (Noting(p) => After(p, q))
               => DeckHas(p, call[p].id, call[q].out)
    /\ \A k \in Keys : Unended(k) /\ Notes.acts[k] # None =>
         \/ \E p \in Calls : Is(p, "start") /\ Key(p) = k /\ Noting(p)
         \/ Settled(k)

\* The same of the token that a student was given into a child.
Entered(p, c) == Is(p, "entry") /\ (c.pc = "token" \/ (c.pc = "done" /\ c.reply = "ok"))
Handing(p)    == call[p].pc = "token" /\ InSent(p)
HasToken(p, v) == v = Gone \/ Student(p) \in v.tokens
ChildFacts ==
    \A p \in Calls : Entered(p, call[p]) =>
        /\ \A o \in Objects : RefOf(call[p].id, o) => Student(p) \in Obj(o).tokens
        /\ HasToken(p, IF Handing(p) THEN call[p].out ELSE store[call[p].id])
        /\ \A q \in Calls : SetOf(q, call[p].id) /\ (Handing(p) => After(p, q))
              => Student(p) \in call[q].out.tokens

Shared == /\ Typed /\ \A p \in Calls : CallOK(p, call[p])
          /\ Wire /\ Lock /\ Memory /\ Names /\ Orders /\ Misses /\ DeckFacts /\ ChildFacts

\* The inductive invariant.
IInv == Sheltered => Shared
-----------------------------------------------------------------------------
(* Sequences of calls                                                      *)

LEMMA AppendParts ==
    ASSUME NEW s \in Seq(Calls), NEW p \in Calls
    PROVE  /\ Append(s, p) \in Seq(Calls)
           /\ \A q : In(Append(s, p), q) <=> In(s, q) \/ q = p
           /\ \A q, r : Before(Append(s, p), q, r) <=> Before(s, q, r) \/ (In(s, q) /\ r = p)
           /\ Once(s) /\ ~In(s, p) => Once(Append(s, p))
           /\ Len(Append(s, p)) = Len(s) + 1 /\ Len(s) \in Nat
           /\ \A j \in 1..Len(s) : Append(s, p)[j] = s[j]
           /\ Append(s, p)[Len(s) + 1] = p
<1> DEFINE t == Append(s, p)
           n == Len(s)
<1>1. /\ t \in Seq(Calls) /\ Len(t) = n + 1 /\ n \in Nat
      /\ \A j \in 1..n : t[j] = s[j]
      /\ t[n + 1] = p
  BY AppendProperties, LenProperties
<1>0. n = Len(s)  OBVIOUS
<1> HIDE DEF t, n
<1>2. \A j : j \in 1..Len(t) <=> j \in 1..n \/ j = n + 1  BY <1>1
<1>3. \A q : In(t, q) <=> In(s, q) \/ q = p  BY <1>0, <1>1, <1>2 DEF In
<1>4. \A i, j \in 1..Len(t) : i < j <=> \/ i \in 1..n /\ j \in 1..n /\ i < j
                                        \/ i \in 1..n /\ j = n + 1
  BY <1>1, <1>2
<1>5. \A q, r : Before(t, q, r) <=> Before(s, q, r) \/ (In(s, q) /\ r = p)
  BY <1>0, <1>1, <1>2, <1>4 DEF In, Before
<1>6. ASSUME Once(s), ~In(s, p) PROVE Once(t)
  <2>1. \A i, j \in 1..n : t[i] = t[j] => i = j  BY <1>0, <1>1, <1>6 DEF Once
  <2>2. \A i \in 1..n : t[i] # t[n + 1]  BY <1>0, <1>1, <1>6 DEF In
  <2>3. QED  BY <1>2, <2>1, <2>2 DEF Once
<1>7. QED  BY <1>0, <1>1, <1>3, <1>5, <1>6 DEF t

LEMMA TailParts ==
    ASSUME NEW s \in Seq(Calls), s # <<>>, Once(s)
    PROVE  /\ Tail(s) \in Seq(Calls) /\ Once(Tail(s)) /\ Head(s) \in Calls /\ In(s, Head(s))
           /\ \A q : In(Tail(s), q) <=> In(s, q) /\ q # Head(s)
           /\ \A q, r : Before(Tail(s), q, r) <=> Before(s, q, r) /\ q # Head(s)
           /\ \A q : In(s, q) /\ q # Head(s) => Before(s, Head(s), q)
           /\ \A q : ~Before(s, q, Head(s))
           /\ Head(s) = s[1] /\ Len(Tail(s)) = Len(s) - 1 /\ Len(s) \in Nat /\ Len(s) >= 1
           /\ \A j \in 1..Len(Tail(s)) : Tail(s)[j] = s[j + 1]
<1> DEFINE t == Tail(s)
           n == Len(s)
           h == Head(s)
<1>1. /\ t \in Seq(Calls) /\ Len(t) = n - 1 /\ n \in Nat /\ n >= 1
      /\ h = s[1] /\ h \in Calls
      /\ \A j \in 1..Len(t) : t[j] = s[j + 1]
  BY HeadTailProperties, LenProperties, EmptySeq
<1>0. n = Len(s) /\ h = Head(s)  OBVIOUS
<1> HIDE DEF t, n, h
<1>2. \A j \in 1..Len(t) : j + 1 \in 1..n /\ j + 1 # 1 /\ t[j] = s[j + 1]  BY <1>1
<1>3. \A j \in 1..n : j # 1 => j - 1 \in 1..Len(t) /\ t[j - 1] = s[j]
  BY <1>1
<1>4. 1 \in 1..n /\ \A j \in 1..n : j # 1 => 1 < j /\ s[j] # h  BY <1>0, <1>1 DEF Once
<1>5. \A q : In(t, q) <=> In(s, q) /\ q # h
  BY <1>0, <1>1, <1>2, <1>3, <1>4 DEF In
<1>6. Once(t)
  <2>1. ASSUME NEW i \in 1..Len(t), NEW j \in 1..Len(t), t[i] = t[j] PROVE i = j
    <3>1. i + 1 = j + 1  BY <1>0, <1>2, <2>1 DEF Once
    <3>2. QED  BY <3>1, <1>1
  <2>2. QED  BY <2>1 DEF Once
<1>7. ASSUME NEW q, NEW r PROVE Before(t, q, r) <=> Before(s, q, r) /\ q # h
  <2>1. ASSUME Before(t, q, r) PROVE Before(s, q, r) /\ q # h
    <3>1. PICK i \in 1..Len(t), j \in 1..Len(t) : i < j /\ t[i] = q /\ t[j] = r
      BY <2>1 DEF Before
    <3>2. i + 1 < j + 1  BY <3>1, <1>1
    <3>3. QED  BY <3>1, <3>2, <1>0, <1>2, <1>4 DEF Before
  <2>2. ASSUME Before(s, q, r), q # h PROVE Before(t, q, r)
    <3>1. PICK i \in 1..n, j \in 1..n : i < j /\ s[i] = q /\ s[j] = r
      BY <2>2, <1>0 DEF Before
    <3>2. i # 1 /\ j # 1 /\ i - 1 < j - 1  BY <3>1, <2>2, <1>1
    <3>3. QED  BY <3>1, <3>2, <1>3 DEF Before
  <2>3. QED  BY <2>1, <2>2
<1>8. \A q : In(s, q) /\ q # h => Before(s, h, q)  BY <1>0, <1>1, <1>4 DEF In, Before
<1>9. ASSUME NEW q PROVE ~Before(s, q, h)
  <2>1. \A i, j \in 1..n : i < j => s[j] # h  BY <1>1, <1>4
  <2>2. QED  BY <2>1, <1>0 DEF Before
<1>10. In(s, h)  BY <1>0, <1>1, <1>4 DEF In
<1>11. QED  BY <1>0, <1>1, <1>5, <1>6, <1>7, <1>8, <1>9, <1>10 DEF t

\* What is before something is in the sequence, and not behind itself.
LEMMA BeforeIn ==
    ASSUME NEW s \in Seq(Calls), NEW p, NEW q, Before(s, p, q)
    PROVE  In(s, p) /\ In(s, q) /\ (Once(s) => p # q /\ ~Before(s, q, p))
<1>1. PICK i \in 1..Len(s), j \in 1..Len(s) : i < j /\ s[i] = p /\ s[j] = q  BY DEF Before
<1>2. In(s, p) /\ In(s, q)  BY <1>1 DEF In
<1>3. ASSUME Once(s) PROVE p # q /\ ~Before(s, q, p)
  <2>0. Len(s) \in Nat  BY LenProperties
  <2>1. i # j  BY <1>1, <2>0
  <2>2. p # q  BY <2>1, <1>1, <1>3 DEF Once
  <2>3. ASSUME NEW k \in 1..Len(s), NEW l \in 1..Len(s), k < l, s[k] = q, s[l] = p PROVE FALSE
    <3>1. k = j /\ l = i  BY <2>3, <1>1, <1>3 DEF Once
    <3>2. QED  BY <3>1, <2>3, <1>1, <2>0
  <2>4. QED  BY <2>2, <2>3 DEF Before
<1>4. QED  BY <1>2, <1>3

\* The first k answers are read.
LEMMA ReadParts ==
    ASSUME NEW s \in Seq(Calls), Once(s), NEW k \in 1..Len(s)
    PROVE  LET t == SubSeq(s, k + 1, Len(s))
               r == {s[j] : j \in 1..k}
           IN  /\ t \in Seq(Calls) /\ Once(t) /\ r \subseteq Calls
               /\ \A q : In(t, q) => In(s, q) /\ q \notin r
               /\ \A q \in r : In(s, q)
               /\ \A q : In(s, q) => In(t, q) \/ q \in r
<1> DEFINE n == Len(s)
           t == SubSeq(s, k + 1, n)
           r == {s[j] : j \in 1..k}
<1>1. n \in Nat /\ \A j \in 1..n : s[j] \in Calls  BY LenProperties, ElementOfSeq
<1>0. n = Len(s)  OBVIOUS
<1>2. k \in Nat /\ 1 <= k /\ k <= n  BY <1>1
<1>3. \A i \in (k + 1)..n : s[i] \in Calls  BY <1>1, <1>2
<1>4. /\ t \in Seq(Calls) /\ Len(t) = IF k + 1 <= n THEN n - (k + 1) + 1 ELSE 0
      /\ \A i \in 1..(n - (k + 1) + 1) : t[i] = s[(k + 1) + i - 1]
  BY <1>1, <1>2, <1>3, SubSeqProperties
<1> HIDE DEF n, t
<1>5. Len(t) = n - k /\ \A i \in 1..(n - k) : t[i] = s[k + i]
  <2>1. n - (k + 1) + 1 = n - k /\ \A i \in Nat : (k + 1) + i - 1 = k + i  BY <1>1, <1>2
  <2>2. k + 1 <= n \/ n - k = 0  BY <1>1, <1>2
  <2>3. Len(t) = n - k  BY <1>1, <1>2, <1>4
  <2>4. ASSUME NEW i \in 1..(n - k) PROVE t[i] = s[k + i]
    <3>1. i \in Nat /\ i \in 1..(n - (k + 1) + 1)  BY <1>1, <1>2, <2>1
    <3>2. QED  BY <1>4, <2>1, <3>1
  <2>5. QED  BY <2>3, <2>4
<1>6. \A i \in 1..Len(t) : k + i \in 1..n /\ k + i \notin 1..k /\ t[i] = s[k + i]
  BY <1>1, <1>2, <1>5
<1>7. \A j \in 1..k : j \in 1..n  BY <1>1, <1>2
<1>8. \A j \in 1..n : j \in 1..k \/ (j - k \in 1..Len(t) /\ t[j - k] = s[j])
  <2>1. \A j \in 1..n : j \notin 1..k => j - k \in 1..(n - k) /\ k + (j - k) = j  BY <1>1, <1>2
  <2>2. QED  BY <2>1, <1>5
<1>9. Once(t)
  <2>1. ASSUME NEW i \in 1..Len(t), NEW j \in 1..Len(t), t[i] = t[j] PROVE i = j
    <3>1. k + i = k + j  BY <1>0, <1>6, <2>1 DEF Once
    <3>2. QED  BY <3>1, <1>1, <1>2, <1>5
  <2>2. QED  BY <2>1 DEF Once
<1>10. \A q : In(t, q) => In(s, q) /\ q \notin r
  <2>1. ASSUME NEW i \in 1..Len(t), NEW j \in 1..k PROVE t[i] # s[j]
    BY <1>0, <1>6, <1>7 DEF Once
  <2>2. QED  BY <2>1, <1>0, <1>6 DEF In
<1>11. (\A q \in r : In(s, q)) /\ r \subseteq Calls  BY <1>0, <1>1, <1>7 DEF In
<1>12. \A q : In(s, q) => In(t, q) \/ q \in r  BY <1>0, <1>8 DEF In
<1>13. QED  BY <1>4, <1>9, <1>10, <1>11, <1>12 DEF t, n
-----------------------------------------------------------------------------
(* A sheltered scene                                                       *)

\* One instance serves every call, and stays that instance.
LEMMA OneHome ==
    ASSUME Sheltered, scene \in Scenes
    PROVE  /\ N \in Nodes /\ \A p \in Used : At[p] = N
           /\ scene \in Scene /\ At \in [Calls -> Nodes]
           /\ scene.ages = 0 /\ scene.losses = 0 /\ scene.chunk \in Nat
           /\ \A p \in Calls : scene.kind[p] \in {"none", "start", "end", "join", "watch", "entry", "update"}
           /\ scene.running \subseteq Keys /\ scene.roster \subseteq Students
           /\ \A p \in Calls : Key(p) \in Keys /\ Student(p) \in Students
<1>1. scene \in Scene /\ At \in [Calls -> Nodes]  BY ConstantsOK
<1> DEFINE S == {At[p] : p \in Used}
<1>2. Cardinality(S) = 1  BY DEF Sheltered, OneInstance, Used
<1>3. IsFiniteSet(S)
  <2>1. IsFiniteSet(Used)  BY ConstantsOK, FS_Subset DEF Used
  <2> DEFINE f == [p \in Used |-> At[p]]
  <2>2. f \in Surjection(Used, S)  BY DEF Surjection
  <2>3. QED  BY <2>1, <2>2, FS_Surjection
<1>4. PICK n : S = {n}  BY <1>2, <1>3, FS_Singleton
<1>5. PICK q \in Used : At[q] = n  BY <1>4
<1>6. (CHOOSE p \in Used : TRUE) \in Used  BY <1>5
<1>7. N = n /\ n \in Nodes  BY <1>1, <1>4, <1>5, <1>6 DEF N, Used
<1>8. \A p \in Used : At[p] = N  BY <1>4, <1>7
<1>9. scene.ages = 0 /\ scene.losses = 0 /\ ~Has({"return", "delete", "keepalive"})  BY DEF Sheltered
<1>10. scene.kind \in [Calls -> Kinds] /\ scene.chunk \in Nat /\ scene.key \in [Calls -> Keys]
       /\ scene.student \in [Calls -> Students] /\ scene.running \subseteq Keys /\ scene.roster \subseteq Students
  BY <1>1 DEF Scene
<1>11. \A p \in Calls : scene.kind[p] \in {"none", "start", "end", "join", "watch", "entry", "update"}
  BY <1>9, <1>10 DEF Has, Kinds
<1>12. \A p \in Calls : Key(p) \in Keys /\ Student(p) \in Students  BY <1>10 DEF Key, Student
<1>13. QED  BY <1>1, <1>7, <1>8, <1>9, <1>10, <1>11, <1>12

LEMMA SameHome == ASSUME scene' = scene PROVE N' = N /\ Used' = Used /\ (Sheltered' <=> Sheltered)
  BY DEF N, Used, Is, Sheltered, OneInstance, Has

\* The constants, as the steps of the proof need them.
LEMMA ConstantFacts ==
    /\ TheDeck \in Ids /\ TheDeck \notin Children /\ \A i \in Children : i \in Ids /\ i # TheDeck
    /\ Ids = {TheDeck} \cup Children
    /\ 1 \in Objects /\ None \notin Objects /\ None \notin Children /\ None \notin Calls
    /\ None \notin Deck /\ None \notin Child /\ Gone \notin Deck /\ Gone \notin Child
    /\ Gone # None /\ Gone # Lost /\ Lost # None
    /\ MaxChildren \in Nat /\ MaxObjects \in Nat /\ \A i \in Children : i \in Nat
<1>1. MaxChildren \in Nat /\ MaxObjects \in Nat /\ MaxObjects > MaxChildren  BY ConstantsOK
<1>2. 1 \in Objects  BY <1>1 DEF Objects
<1>3. /\ TheDeck \in Ids /\ TheDeck \notin Children /\ \A i \in Children : i \in Ids /\ i # TheDeck
      /\ Ids = {TheDeck} \cup Children /\ \A i \in Children : i \in Nat
  BY DEF TheDeck, Ids, Children
<1>4. QED  BY <1>1, <1>2, <1>3, NothingOK

\* A child and a deck are different records.
LEMMA DeckChild ==
    /\ \A d \in Deck : /\ d.students \in SUBSET Students /\ d.strokes \in SUBSET Calls
                       /\ d.accepted \in SUBSET Students
                       /\ \A k \in Keys : d.acts[k] \in Children \cup {None}
    /\ \A c \in Child : c.tokens \in SUBSET Students /\ c.manager \in BOOLEAN
    /\ NewChild \in Child
  BY DEF Deck, Child, NewChild

\* The types of calls, field by field, and of the memory.
LEMMA CallFields ==
    ASSUME NEW c \in CallRec
    PROVE  /\ c.pc \in Steps /\ c.cmd \in {"none", "get", "set", "del", "touch"} /\ c.on \in Ids
           /\ c.out \in {None} \cup Deck \cup Child \cup SUBSET Ids /\ c.got \in {None, Gone}
           /\ c.deck \in {1, None} /\ (c.kid = None \/ (c.kid \in Objects /\ c.kid # 1))
           /\ c.id \in Children \cup {None} /\ c.todo \in SUBSET (Keys \X Children)
           /\ c.undo = <<>> /\ c.left = 0 /\ c.key \in Keys \cup {None}
           /\ c.orig \in {None} \cup SUBSET Students
           /\ c.reply \in {"none", "ok", "refused", "failed"}
  BY DEF CallRec

LEMMA MemFields ==
    ASSUME NEW m \in MemRec
    PROVE  /\ m.obj \in [Objects -> Deck \cup Child \cup {None}] /\ m.slot \in [Ids -> Objects \cup {None}]
           /\ m.owner \in [Ids -> Calls \cup {None}] /\ m.queue \in [Keys -> Seq(Calls)]
  BY DEF MemRec

\* What the invariant says of the call that goes on.
LEMMA CallFacts ==
    ASSUME Sheltered, Typed, NEW p \in Calls
    PROVE  /\ call[p] \in CallRec /\ scene \in Scenes
           /\ N \in Nodes /\ mem[N] \in MemRec /\ conn[N] \in ConnRec
  BY OneHome DEF Typed
-----------------------------------------------------------------------------
(* A call goes on                                                          *)

\* What the step of call p is, which leaves it as c and the memory as m.
Moved(p, m, c, wakes) ==
    /\ scene' = scene /\ store' = store /\ ages' = ages /\ losses' = losses
    /\ call' \in [Calls -> CallRec] /\ mem' \in [Nodes -> MemRec] /\ conn' \in [Nodes -> ConnRec]
    /\ \A n \in Nodes : n # N => conn'[n] = conn[n]
    /\ \A q \in Calls : call'[q] = IF q = p THEN c ELSE call[q]
    /\ \A i \in Ids : Slot(i)' = m.slot[i] /\ Owner(i)' = m.owner[i]
    /\ \A k \in Keys : Line(k)' = m.queue[k]
    /\ \A o \in Objects :
          \/ Obj(o)' = m.obj[o]
          \/ /\ Obj(o)' = None /\ \A i \in Ids : m.slot[i] # o
             /\ \A q \in Used : call'[q].kid # o
    /\ \A o \in Objects : Obj(o)' # None =>
          \/ \E i \in Ids : m.slot[i] = o
          \/ \E q \in Calls : call'[q].deck = o \/ call'[q].kid = o
    /\ \A q : InSent(q)' <=> InSent(q) \/ (q = p /\ c.cmd # "none")
    /\ \A q, r : After(q, r)' <=> After(q, r) \/ (InSent(q) /\ r = p /\ c.cmd # "none")
    /\ \A q : InBack(q)' <=> InBack(q)
    /\ Once(conn'[N].sent) /\ Once(conn'[N].back)
    /\ Ready' = (Ready \ {p}) \cup wakes

LEMMA BecomesMoves ==
    ASSUME Sheltered, Typed, NEW p \in Used, NEW m \in MemRec, NEW c \in CallRec,
           NEW wakes \in SUBSET Calls, Becomes(p, m, c, wakes),
           Once(conn[N].sent), Once(conn[N].back), ~InSent(p)
    PROVE  Moved(p, m, c, wakes)
<1>1. /\ N \in Nodes /\ At[p] = N /\ mem[N] \in MemRec /\ conn[N] \in ConnRec /\ p \in Calls
      /\ call \in [Calls -> CallRec] /\ mem \in [Nodes -> MemRec] /\ conn \in [Nodes -> ConnRec]
      /\ \A q \in Used : At[q] = N
  BY OneHome, CallFacts DEF Typed, Used
<1>2. /\ scene' = scene /\ store' = store /\ ages' = ages /\ losses' = losses
      /\ call' = [call EXCEPT ![p] = c]
  BY DEF Becomes
<1>3. N' = N /\ Used' = Used  BY <1>2, SameHome
<1>4. /\ call' \in [Calls -> CallRec]
      /\ \A q \in Calls : call'[q] = IF q = p THEN c ELSE call[q]
  BY <1>1, <1>2
<1> DEFINE used == {m.slot[i] : i \in Ids}
                     \cup UNION {{call'[q].deck, call'[q].kid} : q \in {q \in Calls : At[q] = N}}
           kept == [m EXCEPT !.obj = [o \in Objects |-> IF o \in used THEN m.obj[o] ELSE None]]
<1>5. mem' = [mem EXCEPT ![N] = kept]  BY <1>1 DEF Becomes, Kept
<1>6. kept \in MemRec /\ kept.slot = m.slot /\ kept.owner = m.owner /\ kept.queue = m.queue
      /\ \A o \in Objects : kept.obj[o] = IF o \in used THEN m.obj[o] ELSE None
  BY DEF MemRec
<1>7. \A o \in used : \/ \E i \in Ids : m.slot[i] = o
                      \/ \E q \in Calls : call'[q].deck = o \/ call'[q].kid = o
  OBVIOUS
<1>8. \A o : o \notin used => (\A i \in Ids : m.slot[i] # o) /\ \A q \in Used : call'[q].kid # o
  BY <1>1 DEF Used
<1> HIDE DEF used, kept
<1>9. mem' \in [Nodes -> MemRec] /\ mem'[N] = kept  BY <1>1, <1>5, <1>6
<1>10. /\ \A i \in Ids : Slot(i)' = m.slot[i] /\ Owner(i)' = m.owner[i]
       /\ \A k \in Keys : Line(k)' = m.queue[k]
       /\ \A o \in Objects : Obj(o)' = IF o \in used THEN m.obj[o] ELSE None
  BY <1>3, <1>6, <1>9 DEF Slot, Owner, Line, Obj
<1> DEFINE w == conn[N]
           r == Resumed(w, p)
           s == IF c.cmd = "none" THEN r ELSE Submit(r, p)
           d == [s EXCEPT !.ready = @ \cup wakes]
<1>11. conn' = [conn EXCEPT ![N] = d]  BY <1>1 DEF Becomes
<1>12. w \in ConnRec /\ Append(w.sent, p) \in Seq(Calls)
  BY <1>1, AppendParts DEF ConnRec
<1>13. /\ d \in ConnRec /\ d.back = w.back /\ d.ready = (w.ready \ {p}) \cup wakes
       /\ d.sent = IF c.cmd = "none" THEN w.sent ELSE Append(w.sent, p)
  BY <1>12 DEF ConnRec, Resumed, Submit
<1> HIDE DEF d
<1>14. conn' \in [Nodes -> ConnRec] /\ conn'[N] = d /\ \A n \in Nodes : n # N => conn'[n] = conn[n]
  BY <1>1, <1>11, <1>13
<1>15. w.sent \in Seq(Calls)  BY <1>1 DEF ConnRec
<1>16. /\ \A q : In(d.sent, q) <=> In(w.sent, q) \/ (q = p /\ c.cmd # "none")
       /\ \A q, u : Before(d.sent, q, u) <=>
             Before(w.sent, q, u) \/ (In(w.sent, q) /\ u = p /\ c.cmd # "none")
       /\ Once(d.sent)
  BY <1>1, <1>13, <1>15, AppendParts DEF InSent
<1>17. /\ \A q : InSent(q)' <=> InSent(q) \/ (q = p /\ c.cmd # "none")
       /\ \A q, u : After(q, u)' <=> After(q, u) \/ (InSent(q) /\ u = p /\ c.cmd # "none")
       /\ \A q : InBack(q)' <=> InBack(q)
       /\ Ready' = (Ready \ {p}) \cup wakes
       /\ Once(conn'[N].sent) /\ Once(conn'[N].back)
  BY <1>3, <1>13, <1>14, <1>16 DEF InSent, After, InBack, Ready
<1>18. \A o \in Objects :
          \/ Obj(o)' = m.obj[o]
          \/ /\ Obj(o)' = None /\ \A i \in Ids : m.slot[i] # o
             /\ \A q \in Used : call'[q].kid # o
  BY <1>8, <1>10
<1>19. \A o \in Objects : Obj(o)' # None =>
          \/ \E i \in Ids : m.slot[i] = o
          \/ \E q \in Calls : call'[q].deck = o \/ call'[q].kid = o
  BY <1>7, <1>10
<1>20. QED  BY <1>2, <1>4, <1>9, <1>10, <1>14, <1>17, <1>18, <1>19 DEF Moved
-----------------------------------------------------------------------------
(* What the handlers may do in a step: what the lemmas below need of them  *)

\* The call has its turn, and whom it wakes waits for no command.
LegalTurn(p, m, c, wakes) ==
    /\ p \in Used /\ c.pc # "idle" /\ CallOK(p, c)
    /\ p \in Ready \/ (Ready = {} /\ call[p].pc \in {"idle", "auth"})
    /\ wakes = {} \/ \E q \in Calls : wakes = {q} /\ (IF q = p THEN c ELSE call[q]).cmd = "none"
    /\ Hit(c) => p \in wakes /\ m.slot[c.id] = c.kid

\* A child's slot gets the object the call holds, or is emptied by the end of the activity.
LegalSlots(p, m, c) ==
    /\ \A i \in Ids :
          \/ m.slot[i] = Slot(i)
          \/ /\ i \in Children /\ call[p].id = i
             /\ call[p].kid # None /\ m.slot[i] = call[p].kid
          \/ /\ i \in Children /\ call[p].id = i /\ c.id = i
             /\ m.slot[i] = None /\ Is(p, "end") /\ c.cmd = "del"
    /\ m.owner[TheDeck] = None
    /\ \A i \in Children : m.owner[i] # None => m.slot[i] = None
    /\ call[p].pc = "made" => m.slot[call[p].id] # None

\* Children's objects only gain tokens; a new one is what nothing is.
LegalObjects(p, m, c) ==
    /\ \A o \in Objects : o # 1 =>
          \/ m.obj[o] = Obj(o)
          \/ Obj(o) \in Child /\ m.obj[o] \in Child /\ Obj(o).tokens \subseteq m.obj[o].tokens
          \/ c.pc = "made" /\ o = c.kid /\ Obj(o) = None /\ m.obj[o] \in Child
    /\ \/ c.kid = None
       \/ c.id = call[p].id /\ c.kid = call[p].kid
       \/ c.kid = Slot(c.id) /\ c.id \in Children
       \/ c.pc = "made" /\ c.kid \in Objects /\ Obj(c.kid) = None /\ m.obj[c.kid] \in Child

\* The call names a child that is known, or a new one.
LegalNames(p, m, c) ==
    /\ IF c.pc = "made"
       THEN c.id = made + 1 /\ made' = made + 1 /\ made < MaxChildren
       ELSE made' = made /\ (c.id = None \/ c.id = call[p].id \/ Known(c.id))
    /\ \A r \in c.todo : Known(r[2])
    /\ c.pc \in {"probe", "made"} => m.obj[1].acts[Key(p)] = None
    /\ Is(p, "end") /\ c.id # None =>
          \/ c.id = call[p].id
          \/ c.id = Notes.acts[Key(p)] /\ m.obj[1].acts[Key(p)] = None

\* The record of the deck only gains, but for the entry of an activity that is ended.
Enters(p, m, c, k) ==
    /\ k = Key(p) /\ call[p].pc = "made" /\ c.pc = "noted" /\ c.id = call[p].id
    /\ m.obj[1].acts[k] = c.id /\ m.slot[c.id] # None
Removes(p, m, c, k) == k = Key(p) /\ Is(p, "end") /\ c.pc # "idle" /\ m.obj[1].acts[k] = None
LegalNotes(p, m, c) ==
    /\ m.obj[1] \in Deck
    /\ Notes.students \subseteq m.obj[1].students /\ Notes.strokes \subseteq m.obj[1].strokes
    /\ \A k \in Keys : m.obj[1].acts[k] = Notes.acts[k] \/ Enters(p, m, c, k) \/ Removes(p, m, c, k)

\* A command carries what an object is now; a child is read anew only if its slot is empty.
LegalSends(p, m, c) ==
    /\ c.cmd = "set" =>
          IF c.on = TheDeck THEN c.pc = "noted" /\ c.out = m.obj[1]
          ELSE /\ c.on = c.id /\ c.id \in Children /\ c.kid # None /\ c.out = m.obj[c.kid]
               /\ c.pc = "made" \/ m.slot[c.id] = c.kid
    /\ c.cmd = "del" => c.out = {c.id}
    /\ c.cmd = "get" => c.id \in Children /\ Slot(c.id) = None /\ m.slot[c.id] = None /\ Known(c.id)

\* What the call is answerable for is in the record that it writes, or was before.
LegalMarks(p, m, c) ==
    /\ Marked(p, c) =>
          \/ Marked(p, call[p]) /\ c.pc # "noted" /\ (Is(p, "start") => c.id = call[p].id)
          \/ c.pc = "noted" /\ c.cmd = "set" /\ DeckHas(p, c.id, m.obj[1])
          \/ /\ c.pc = "existing" /\ c.id = Notes.acts[Key(p)] /\ m.obj[1] = Notes
             /\ Unended(Key(p)) => Settled(Key(p))
    /\ Entered(p, c) =>
          \/ Entered(p, call[p]) /\ c.id = call[p].id /\ c.cmd = "none"
          \/ c.pc = "token" /\ Student(p) \in m.obj[c.kid].tokens

\* The line of a start is left alone, lengthened or shortened.
SameLine(p, m, c, wakes) ==
    /\ \A k \in Keys : m.queue[k] = Line(k)
    /\ InLine(p, call[p]) <=> InLine(p, c)
    /\ wakes \subseteq {p}
Lengthened(p, m, c, wakes) ==
    /\ Is(p, "start") /\ ~InLine(p, call[p]) /\ InLine(p, c) /\ c.pc = "wait"
    /\ \A k \in Keys : m.queue[k] = IF k = Key(p) THEN Append(Line(k), p) ELSE Line(k)
    /\ wakes = IF Line(Key(p)) = <<>> THEN {p} ELSE {}
Shortened(p, m, c, wakes) ==
    /\ InLine(p, call[p]) /\ ~InLine(p, c) /\ p \in Ready
    /\ \A k \in Keys : m.queue[k] = IF k = Key(p) THEN Tail(Line(k)) ELSE Line(k)
    /\ LET rest == Tail(Line(Key(p)))
       IN  wakes = IF rest = <<>> THEN {} ELSE {Head(rest)}
LegalLine(p, m, c, wakes) ==
    SameLine(p, m, c, wakes) \/ Lengthened(p, m, c, wakes) \/ Shortened(p, m, c, wakes)

Legal(p, m, c, wakes) ==
    /\ LegalTurn(p, m, c, wakes) /\ LegalSlots(p, m, c) /\ LegalObjects(p, m, c)
    /\ LegalNames(p, m, c) /\ LegalNotes(p, m, c) /\ LegalSends(p, m, c)
    /\ LegalMarks(p, m, c) /\ LegalLine(p, m, c, wakes)

\* A call that has its turn has no command on its way.
LEMMA TurnFacts ==
    ASSUME Sheltered, Typed, Wire, NEW p \in Used, CallOK(p, call[p]),
           p \in Ready \/ (Ready = {} /\ call[p].pc \in {"idle", "auth"})
    PROVE  ~InSent(p) /\ ~InBack(p) /\ Once(conn[N].sent) /\ Once(conn[N].back)
  BY DEF Wire, Used, CallOK, Commanded

\* The types, and what each call is at.
LEMMA TypedKept ==
    ASSUME Sheltered, Typed, NEW p \in Used, NEW m \in MemRec, NEW c \in CallRec,
           NEW wakes \in SUBSET Calls, Moved(p, m, c, wakes), LegalNames(p, m, c)
    PROVE  Typed'
<1>1. N' = N  BY SameHome DEF Moved
<1>2. made' \in 0..MaxChildren  BY ConstantFacts DEF Typed, LegalNames
<1>3. QED  BY <1>1, <1>2 DEF Typed, Moved

LEMMA CallsKept ==
    ASSUME Sheltered, Typed, \A q \in Calls : CallOK(q, call[q]), NEW p \in Used, NEW m, NEW c,
           NEW wakes, Moved(p, m, c, wakes), LegalTurn(p, m, c, wakes)
    PROVE  \A q \in Calls : CallOK(q, call[q])'
<1> SUFFICES ASSUME NEW q \in Calls PROVE CallOK(q, call[q])'
  OBVIOUS
<1>1. scene' = scene /\ call'[q] = IF q = p THEN c ELSE call[q]  BY DEF Moved
<1>2. CallOK(q, call'[q])  BY <1>1 DEF LegalTurn
<1>3. QED  BY <1>1, <1>2 DEF CallOK, Commanded, Holding, Named, Does, Is, Sockets

\* Nobody gets a reference to an object that was not one before, but for a new child.
LEMMA RefsKept ==
    ASSUME Sheltered, Typed, NEW p \in Used, NEW m \in MemRec, NEW c \in CallRec,
           NEW wakes, Moved(p, m, c, wakes), LegalSlots(p, m, c), LegalObjects(p, m, c),
           LegalNames(p, m, c), NEW i \in Children, NEW o \in Objects, RefOf(i, o)'
    PROVE  \/ RefOf(i, o)
           \/ /\ c.pc = "made" /\ i = c.id /\ i = made + 1
              /\ o = c.kid /\ Obj(o) = None /\ m.obj[o] \in Child
<1>1. o # None /\ i \in Ids /\ p \in Calls  BY ConstantFacts DEF Used
<1>2. Slot(i)' = m.slot[i] /\ \A q \in Calls : call'[q] = IF q = p THEN c ELSE call[q]
  BY <1>1 DEF Moved
<1>3. CASE m.slot[i] = o
  BY <1>1, <1>3 DEF LegalSlots, RefOf
<1>4. CASE \E q \in Calls : q # p /\ call[q].id = i /\ call[q].kid = o
  BY <1>4 DEF RefOf
<1>5. CASE c.id = i /\ c.kid = o
  BY <1>1, <1>5 DEF LegalObjects, LegalNames, RefOf
<1>6. QED  BY <1>2, <1>3, <1>4, <1>5 DEF RefOf

LEMMA WireKept ==
    ASSUME Sheltered, Typed, Wire, Memory, \A q \in Calls : CallOK(q, call[q]),
           NEW p \in Used, NEW m \in MemRec, NEW c \in CallRec, NEW wakes \in SUBSET Calls,
           Moved(p, m, c, wakes), LegalTurn(p, m, c, wakes), LegalSlots(p, m, c),
           LegalObjects(p, m, c), LegalNames(p, m, c)
    PROVE  Wire'
<1>1. /\ \A q \in Calls : call'[q] = IF q = p THEN c ELSE call[q]
      /\ \A i \in Ids : Slot(i)' = m.slot[i]
      /\ \A q : InSent(q)' <=> InSent(q) \/ (q = p /\ c.cmd # "none")
      /\ \A q : InBack(q)' <=> InBack(q)
      /\ Once(conn'[N].sent) /\ Once(conn'[N].back) /\ N' = N
      /\ Ready' = (Ready \ {p}) \cup wakes /\ scene' = scene /\ p \in Calls
  BY SameHome DEF Moved, Used
<1>2. ~InSent(p) /\ ~InBack(p)  BY TurnFacts DEF LegalTurn, Used
<1>3. p \in Ready \/ Ready = {}  BY DEF LegalTurn
<1>4. wakes = {} \/ \E q \in Calls : wakes = {q} /\ call'[q].cmd = "none"
  BY <1>1 DEF LegalTurn
<1>5. \A q \in Calls : InSent(q)' \/ InBack(q)' => call'[q].cmd # "none" /\ q \notin Ready'
  <2> SUFFICES ASSUME NEW q \in Calls, InSent(q)' \/ InBack(q)'
               PROVE call'[q].cmd # "none" /\ q \notin Ready'
    OBVIOUS
  <2>1. call'[q].cmd # "none"  BY <1>1, <1>2 DEF Wire
  <2>2. q \notin wakes  BY <2>1, <1>4
  <2>3. q \notin Ready \ {p}  BY <1>1, <1>2 DEF Wire
  <2>4. QED  BY <2>1, <2>2, <2>3, <1>1
<1>6. \A q \in Calls : ~(InSent(q)' /\ InBack(q)')  BY <1>1, <1>2 DEF Wire
<1>7. Has({"end"}) => \A q, r \in Ready' : q = r
  <2> SUFFICES ASSUME Has({"end"}), NEW q \in Ready', NEW r \in Ready' PROVE q = r
    OBVIOUS
  <2>1. Ready \ {p} = {}  BY <1>3 DEF Wire
  <2>2. q \in wakes /\ r \in wakes  BY <2>1, <1>1
  <2>3. QED  BY <2>2, <1>4
<1>0. \A i \in Ids : mem'[N'].slot[i] = m.slot[i]  BY <1>1 DEF Slot
<1>8. ASSUME NEW q \in Calls, Hit(call'[q])
      PROVE  q \in Ready' /\ mem'[N'].slot[call'[q].id] = call'[q].kid
  <2>1. CASE q = p
    <3>1. Hit(c) /\ CallOK(p, c)  BY <1>1, <1>8, <2>1 DEF LegalTurn
    <3>2. c.id \in Ids  BY <3>1, CallFields, ConstantFacts DEF Hit, CallOK, Commanded, Holding, Fetches
    <3>3. QED  BY <3>1, <3>2, <2>1, <1>0, <1>1 DEF LegalTurn
  <2>2. CASE q # p
    <3>1. Hit(call[q]) /\ q \in Ready /\ Slot(call[q].id) = call[q].kid
      BY <2>2, <1>1, <1>8 DEF Wire
    <3>2. ~Has({"end"}) /\ p \in Ready  BY <3>1, <2>2, <1>3 DEF Wire
    <3>3. call[q] \in CallRec /\ CallOK(q, call[q])  BY CallFacts
    <3>4. call[q].kid # None /\ call[q].id # None
      BY <3>1, <3>3 DEF Hit, CallOK, Commanded, Holding, Fetches
    <3> DEFINE i == call[q].id
               o == call[q].kid
    <3>5. i \in Children /\ i \in Ids /\ o \in Objects  BY <3>3, <3>4, CallFields, ConstantFacts
    <3>6. ~Is(p, "end")  BY <3>2, <1>1 DEF Has, Is
    <3>7. m.slot[i] = o \/ (call[p].id = i /\ call[p].kid # None /\ m.slot[i] = call[p].kid)
      BY <3>1, <3>5, <3>6 DEF LegalSlots
    <3>8. ASSUME call[p].id = i, call[p].kid # None PROVE call[p].kid = o
      <4>1. call[p].kid \in Objects  BY <3>8, <1>1, CallFacts, CallFields
      <4>2. RefOf(i, call[p].kid) /\ RefOf(i, o)  BY <3>8, <1>1 DEF RefOf
      <4>3. QED  BY <4>1, <4>2, <3>5 DEF Memory
    <3>9. m.slot[i] = o  BY <3>7, <3>8
    <3>10. QED  BY <3>1, <3>5, <3>9, <2>2, <1>0, <1>1
  <2>3. QED  BY <2>1, <2>2
<1>9. Has({"end"})' <=> Has({"end"})  BY <1>1 DEF Has
<1>10. (\A q \in Calls : Hit(call[q]) => q \in Ready /\ Slot(call[q].id) = call[q].kid)'
  BY <1>8 DEF Slot, Hit
<1>11. QED  BY <1>1, <1>5, <1>6, <1>7, <1>9, <1>10 DEF Wire

\* The lines.
LEMMA SameLineKept ==
    ASSUME Sheltered, Typed, Lock, NEW p \in Used, NEW m, NEW c, NEW wakes,
           Moved(p, m, c, wakes), LegalTurn(p, m, c, wakes), SameLine(p, m, c, wakes)
    PROVE  Lock'
<1>1. /\ \A q \in Calls : call'[q] = IF q = p THEN c ELSE call[q]
      /\ \A k \in Keys : Line(k)' = Line(k)
      /\ Ready' = (Ready \ {p}) \cup wakes /\ scene' = scene /\ p \in Calls
      /\ \A k \in Keys : Line(k) \in Seq(Calls)
  BY CallFacts DEF Moved, Used, SameLine, MemRec, Line
<1>2. \A q \in Calls : InLine(q, call[q])' <=> InLine(q, call[q])
  BY <1>1 DEF SameLine, InLine, Is
<1>3. ASSUME NEW k \in Keys, NEW j \in 1..Len(Line(k))
      PROVE  /\ Line(k)[j] \in Calls /\ InLine(Line(k)[j], call[Line(k)[j]])' /\ Key(Line(k)[j])' = k
             /\ j > 1 => call'[Line(k)[j]].pc = "wait" /\ Line(k)[j] \notin Ready'
  <2> DEFINE q == Line(k)[j]
  <2>1. q \in Calls  BY <1>1, ElementOfSeq
  <2>2. InLine(q, call[q]) /\ Key(q) = k /\ (j > 1 => call[q].pc = "wait" /\ q \notin Ready)
    BY DEF Lock
  <2>3. j > 1 => q # p
    BY <2>2 DEF LegalTurn
  <2>4. QED  BY <2>1, <2>2, <2>3, <1>1, <1>2 DEF Key, SameLine
<1>4. \A q \in Calls : Key(q)' = Key(q) /\ Key(q) \in Keys  BY <1>1, OneHome DEF Key, Typed
<1>5. \A q \in Calls : InLine(q, call[q])' => In(Line(Key(q)), q)  BY <1>2 DEF Lock
<1>6. (\A q \in Calls : InLine(q, call[q]) => In(Line(Key(q)), q))'
  BY <1>1, <1>4, <1>5 DEF In, Line, Key
<1>7. \A k \in Keys : Once(Line(k))'  BY <1>1 DEF Lock, Once
<1>8. QED  BY <1>1, <1>3, <1>6, <1>7 DEF Lock

\* The lines are what they are shown to be.
LEMMA LockFrom ==
    ASSUME scene' = scene, N' = N, NEW now,
           \A k \in Keys : Line(k)' = now[k] /\ Once(now[k]),
           \A k \in Keys : \A j \in 1..Len(now[k]) :
              /\ InLine(now[k][j], call'[now[k][j]]) /\ Key(now[k][j]) = k
              /\ j > 1 => call'[now[k][j]].pc = "wait" /\ now[k][j] \notin Ready',
           \A q \in Calls : Key(q) \in Keys,
           \A q \in Calls : InLine(q, call'[q]) => In(now[Key(q)], q)
    PROVE  Lock'
<1>1. \A k \in Keys : mem'[N'].queue[k] = now[k]  BY DEF Line
<1>2. (\A k \in Keys : \A j \in 1..Len(Line(k)) :
         /\ InLine(Line(k)[j], call[Line(k)[j]]) /\ Key(Line(k)[j]) = k
         /\ j > 1 => call[Line(k)[j]].pc = "wait" /\ Line(k)[j] \notin Ready)'
  BY <1>1 DEF Line, InLine, Is, Key
<1>3. (\A q \in Calls : InLine(q, call[q]) => In(Line(Key(q)), q))'
  BY <1>1 DEF Line, InLine, Is, Key, In
<1>4. (\A k \in Keys : Once(Line(k)))'  BY <1>1 DEF Line, Once
<1>5. QED  BY <1>2, <1>3, <1>4 DEF Lock

LEMMA LengthenedKept ==
    ASSUME Sheltered, Typed, Lock, NEW p \in Used, NEW m, NEW c, NEW wakes,
           Moved(p, m, c, wakes), LegalTurn(p, m, c, wakes), Lengthened(p, m, c, wakes)
    PROVE  Lock'
<1> DEFINE K == Key(p)
           t == Append(Line(K), p)
<1>1. /\ \A q \in Calls : call'[q] = IF q = p THEN c ELSE call[q]
      /\ \A k \in Keys : Line(k)' = IF k = K THEN t ELSE Line(k)
      /\ Ready' = (Ready \ {p}) \cup wakes /\ scene' = scene /\ N' = N /\ p \in Calls
      /\ \A k \in Keys : Line(k) \in Seq(Calls)
  BY CallFacts, SameHome DEF Moved, Used, Lengthened, MemRec, Line
<1>2. \A q \in Calls : Key(q)' = Key(q) /\ Key(q) \in Keys  BY <1>1, OneHome DEF Key, Typed
<1>3. \A q \in Calls : InLine(q, call'[q]) <=> InLine(q, call[q]) \/ q = p
  BY <1>1 DEF Lengthened, InLine, Is
<1>4. Line(K) \in Seq(Calls) /\ K \in Keys /\ ~In(Line(K), p)
  BY <1>1, <1>2 DEF Lock, Lengthened, In
<1>5. /\ Len(t) = Len(Line(K)) + 1 /\ Len(Line(K)) \in Nat /\ Once(t)
      /\ \A j \in 1..Len(Line(K)) : t[j] = Line(K)[j]
      /\ t[Len(Line(K)) + 1] = p
      /\ \A q : In(t, q) <=> In(Line(K), q) \/ q = p
  BY <1>1, <1>4, AppendParts DEF Lock
<1>6. wakes \subseteq {p} /\ (Line(K) # <<>> => wakes = {})  BY DEF Lengthened
<1>7. ASSUME NEW k \in Keys, NEW j \in 1..Len(Line(k))
      PROVE  /\ Line(k)[j] \in Calls /\ InLine(Line(k)[j], call'[Line(k)[j]]) /\ Key(Line(k)[j]) = k
             /\ j > 1 => call'[Line(k)[j]].pc = "wait" /\ Line(k)[j] \notin Ready'
  <2> DEFINE q == Line(k)[j]
  <2>1. q \in Calls  BY <1>1, ElementOfSeq
  <2>2. InLine(q, call[q]) /\ Key(q) = k /\ (j > 1 => call[q].pc = "wait" /\ q \notin Ready)
    BY DEF Lock
  <2>3. q # p  BY <2>2 DEF Lengthened
  <2> HIDE DEF q
  <2>4. QED  BY <2>1, <2>2, <2>3, <1>1, <1>2, <1>3, <1>6 DEF q
<1> HIDE DEF t
<1>8. ASSUME NEW j \in 1..Len(t)
      PROVE  /\ InLine(t[j], call'[t[j]]) /\ Key(t[j]) = K /\ t[j] \in Calls
             /\ j > 1 => call'[t[j]].pc = "wait" /\ t[j] \notin Ready'
  <2>1. CASE j \in 1..Len(Line(K))  BY <2>1, <1>4, <1>5, <1>7
  <2>2. CASE j = Len(Line(K)) + 1
    <3>1. t[j] = p  BY <2>2, <1>5
    <3>2. call'[p].pc = "wait" /\ InLine(p, call'[p]) /\ Key(p) = K
      BY <1>1, <1>2, <1>3 DEF Lengthened
    <3>3. j > 1 => Line(K) # <<>>  BY <2>2, <1>5, EmptySeq
    <3>4. j > 1 => p \notin Ready'  BY <3>3, <1>1, <1>6
    <3>5. QED  BY <3>1, <3>2, <3>4, <1>1
  <2>3. QED  BY <2>1, <2>2, <1>5
<1> DEFINE now == [k \in Keys |-> IF k = K THEN t ELSE Line(k)]
<1>9. ASSUME NEW k \in Keys, NEW j \in 1..Len(now[k])
      PROVE  /\ InLine(now[k][j], call'[now[k][j]]) /\ Key(now[k][j]) = k /\ now[k][j] \in Calls
             /\ j > 1 => call'[now[k][j]].pc = "wait" /\ now[k][j] \notin Ready'
  <2>0. now[k] = IF k = K THEN t ELSE Line(k)  OBVIOUS
  <2> HIDE DEF now
  <2>1. CASE k = K
    <3>1. now[k] = t /\ j \in 1..Len(t)  BY <2>0, <2>1
    <3>2. QED  BY <3>1, <2>1, <1>8
  <2>2. CASE k # K
    <3>1. now[k] = Line(k) /\ j \in 1..Len(Line(k))  BY <2>0, <2>2
    <3>2. QED  BY <3>1, <2>2, <1>7
  <2>3. QED  BY <2>1, <2>2
<1>10. \A q \in Calls : InLine(q, call'[q]) => In(now[Key(q)], q)
  <2>1. \A q \in Calls : InLine(q, call'[q]) => In(Line(Key(q)), q) \/ q = p  BY <1>3 DEF Lock
  <2>2. \A q \in Calls : In(Line(Key(q)), q) \/ q = p => In(now[Key(q)], q)
    BY <1>2, <1>5
  <2>3. QED  BY <2>1, <2>2
<1>11. \A k \in Keys : Once(now[k])  BY <1>5 DEF Lock
<1> HIDE DEF now
<1>12. \A k \in Keys : Line(k)' = now[k]  BY <1>1 DEF now
<1>13. QED  BY <1>1, <1>2, <1>9, <1>10, <1>11, <1>12, LockFrom

LEMMA ShortenedKept ==
    ASSUME Sheltered, Typed, Lock, NEW p \in Used, NEW m, NEW c, NEW wakes,
           Moved(p, m, c, wakes), Shortened(p, m, c, wakes)
    PROVE  Lock'
<1> DEFINE K == Key(p)
           s == Line(K)
           t == Tail(s)
<1>1. /\ \A q \in Calls : call'[q] = IF q = p THEN c ELSE call[q]
      /\ \A k \in Keys : Line(k)' = IF k = K THEN t ELSE Line(k)
      /\ Ready' = (Ready \ {p}) \cup wakes /\ scene' = scene /\ N' = N /\ p \in Calls
      /\ \A k \in Keys : Line(k) \in Seq(Calls)
  BY CallFacts, SameHome DEF Moved, Used, Shortened, MemRec, Line
<1>2. \A q \in Calls : Key(q)' = Key(q) /\ Key(q) \in Keys  BY <1>1, OneHome DEF Key, Typed
<1>3. \A q \in Calls : InLine(q, call'[q]) <=> InLine(q, call[q]) /\ q # p
  BY <1>1 DEF Shortened, InLine, Is
<1>4. s \in Seq(Calls) /\ K \in Keys /\ In(s, p) /\ Once(s)
  BY <1>1, <1>2 DEF Lock, Shortened
<1>5. s # <<>> /\ Len(s) \in Nat  BY <1>4, EmptySeq, LenProperties DEF In
<1>6. /\ t \in Seq(Calls) /\ Once(t) /\ Head(s) = s[1]
      /\ \A q : In(t, q) <=> In(s, q) /\ q # Head(s)
      /\ Len(t) = Len(s) - 1 /\ \A j \in 1..Len(t) : t[j] = s[j + 1]
  BY <1>4, <1>5, TailParts
<1>7. \A j \in 1..Len(s) : /\ InLine(s[j], call[s[j]]) /\ Key(s[j]) = K /\ s[j] \in Calls
                           /\ j > 1 => call[s[j]].pc = "wait" /\ s[j] \notin Ready
  BY <1>4, ElementOfSeq DEF Lock
<1>8. p = s[1]
  <2>1. PICK j \in 1..Len(s) : s[j] = p  BY <1>4 DEF In
  <2>2. ~(j > 1)  BY <2>1, <1>7 DEF Shortened
  <2>3. QED  BY <2>1, <2>2, <1>5
<1>9. wakes = IF t = <<>> THEN {} ELSE {Head(t)}  BY DEF Shortened
<1>10. t # <<>> => Head(t) = t[1]  BY <1>6, HeadTailProperties
<1> HIDE DEF t, s
<1>11. ASSUME NEW j \in 1..Len(t)
       PROVE  /\ InLine(t[j], call'[t[j]]) /\ Key(t[j]) = K /\ t[j] \in Calls
              /\ j > 1 => call'[t[j]].pc = "wait" /\ t[j] \notin Ready'
  <2>1. j + 1 \in 1..Len(s) /\ j + 1 > 1 /\ t[j] = s[j + 1]  BY <1>5, <1>6
  <2>2. t[j] # p  BY <2>1, <1>5, <1>4, <1>8 DEF Once
  <2>3. InLine(t[j], call[t[j]]) /\ Key(t[j]) = K /\ call[t[j]].pc = "wait" /\ t[j] \notin Ready
        /\ t[j] \in Calls
    BY <2>1, <1>7
  <2>4. j > 1 => t[j] \notin wakes
    <3>1. ASSUME j > 1 PROVE t[j] # t[1]
      <4>1. 1 \in 1..Len(t) /\ j # 1  BY <3>1, <1>5, <1>6
      <4>2. QED  BY <4>1, <1>6 DEF Once
    <3>2. QED  BY <3>1, <1>9, <1>10
  <2>5. QED  BY <2>2, <2>3, <2>4, <1>1, <1>2, <1>3
<1>12. ASSUME NEW k \in Keys, k # K, NEW j \in 1..Len(Line(k))
       PROVE  /\ InLine(Line(k)[j], call'[Line(k)[j]]) /\ Key(Line(k)[j]) = k /\ Line(k)[j] \in Calls
              /\ j > 1 => call'[Line(k)[j]].pc = "wait" /\ Line(k)[j] \notin Ready'
  <2> DEFINE q == Line(k)[j]
  <2>1. q \in Calls  BY <1>1, ElementOfSeq
  <2>2. InLine(q, call[q]) /\ Key(q) = k /\ (j > 1 => call[q].pc = "wait" /\ q \notin Ready)
    BY DEF Lock
  <2>3. q # p  BY <2>2, <1>12
  <2>4. q \notin wakes
    <3>1. ASSUME t # <<>> PROVE Key(Head(t)) = K
      <4>1. Len(t) \in Nat /\ Len(t) # 0  BY <3>1, <1>6, EmptySeq, LenProperties
      <4>2. 1 \in 1..Len(t) /\ 1 + 1 \in 1..Len(s)  BY <4>1, <1>5, <1>6
      <4>3. QED  BY <3>1, <4>2, <1>6, <1>7, <1>10
    <3>2. QED  BY <3>1, <1>9, <2>2, <1>12
  <2> HIDE DEF q
  <2>5. QED  BY <2>1, <2>2, <2>3, <2>4, <1>1, <1>2, <1>3 DEF q
<1> DEFINE now == [k \in Keys |-> IF k = K THEN t ELSE Line(k)]
<1>13. ASSUME NEW k \in Keys, NEW j \in 1..Len(now[k])
      PROVE  /\ InLine(now[k][j], call'[now[k][j]]) /\ Key(now[k][j]) = k /\ now[k][j] \in Calls
             /\ j > 1 => call'[now[k][j]].pc = "wait" /\ now[k][j] \notin Ready'
  <2>0. now[k] = IF k = K THEN t ELSE Line(k)  OBVIOUS
  <2> HIDE DEF now
  <2>1. CASE k = K
    <3>1. now[k] = t /\ j \in 1..Len(t)  BY <2>0, <2>1
    <3>2. QED  BY <3>1, <2>1, <1>11
  <2>2. CASE k # K
    <3>1. now[k] = Line(k) /\ j \in 1..Len(Line(k))  BY <2>0, <2>2
    <3>2. QED  BY <3>1, <2>2, <1>12
  <2>3. QED  BY <2>1, <2>2
<1>14. \A q \in Calls : InLine(q, call'[q]) => In(now[Key(q)], q)
  <2>1. \A q \in Calls : InLine(q, call'[q]) => In(Line(Key(q)), q) /\ q # p  BY <1>3 DEF Lock
  <2>2. \A q \in Calls : In(Line(Key(q)), q) /\ q # p => In(now[Key(q)], q)
    BY <1>2, <1>6, <1>8 DEF s
  <2>3. QED  BY <2>1, <2>2
<1>15. \A k \in Keys : Once(now[k])  BY <1>6 DEF Lock
<1> HIDE DEF now
<1>16. \A k \in Keys : Line(k)' = now[k]  BY <1>1 DEF now
<1>17. QED  BY <1>1, <1>2, <1>13, <1>14, <1>15, <1>16, LockFrom

LEMMA LockKept ==
    ASSUME Sheltered, Typed, Lock, NEW p \in Used, NEW m, NEW c, NEW wakes,
           Moved(p, m, c, wakes), LegalTurn(p, m, c, wakes), LegalLine(p, m, c, wakes)
    PROVE  Lock'
  BY SameLineKept, LengthenedKept, ShortenedKept DEF LegalLine

\* What the lemmas below use of a step of call p.
LEMMA StepFacts ==
    ASSUME Sheltered, Typed, Wire, NEW p \in Used, NEW m, NEW c, NEW wakes,
           Moved(p, m, c, wakes), LegalTurn(p, m, c, wakes), CallOK(p, call[p])
    PROVE  /\ scene' = scene /\ store' = store /\ N' = N /\ p \in Calls /\ ~InSent(p)
           /\ \A q \in Calls : call'[q] = IF q = p THEN c ELSE call[q]
           /\ \A q : InSent(q)' <=> InSent(q) \/ (q = p /\ c.cmd # "none")
           /\ \A q, r : After(q, r)' <=> After(q, r) \/ (InSent(q) /\ r = p /\ c.cmd # "none")
           /\ \A q, r : After(q, r) => InSent(q) /\ InSent(r) /\ q # p /\ r # p
           /\ \A i \in Ids : Slot(i)' = m.slot[i] /\ Owner(i)' = m.owner[i]
           /\ call \in [Calls -> CallRec] /\ conn[N].sent \in Seq(Calls)
<1>1. ~InSent(p) /\ N' = N /\ p \in Calls  BY TurnFacts, SameHome DEF LegalTurn, Used, Moved
<1>2. conn[N].sent \in Seq(Calls)  BY CallFacts, <1>1 DEF ConnRec
<1>3. \A q, r : After(q, r) => InSent(q) /\ InSent(r)
  BY <1>2, BeforeIn DEF After, InSent
<1>4. QED  BY <1>1, <1>2, <1>3 DEF Moved, Typed

\* An object that is referred to is kept.
LEMMA ObjectsKept ==
    ASSUME Sheltered, Typed, Memory, \A q \in Calls : CallOK(q, call[q])', Typed', NEW p \in Used,
           NEW m, NEW c, NEW wakes, Moved(p, m, c, wakes), LegalSlots(p, m, c)
    PROVE  /\ Notes' = m.obj[1]
           /\ \A i \in Children, o \in Objects : RefOf(i, o)' => o # 1 /\ Obj(o)' = m.obj[o]
<1>1. /\ \A i \in Ids : Slot(i)' = m.slot[i]
      /\ \A o \in Objects :
          \/ Obj(o)' = m.obj[o]
          \/ /\ Obj(o)' = None /\ \A i \in Ids : m.slot[i] # o
             /\ \A q \in Used : call'[q].kid # o
      /\ scene' = scene /\ Used' = Used /\ p \in Calls
  BY SameHome DEF Moved, Used
<1>2. TheDeck \in Ids /\ 1 \in Objects /\ TheDeck \notin Children /\ None \notin Objects
      /\ \A i \in Children : i \in Ids
  BY ConstantFacts
<1>3. m.slot[TheDeck] = 1  BY <1>2 DEF LegalSlots, Memory
<1>4. Notes' = m.obj[1]  BY <1>1, <1>2, <1>3 DEF Notes
<1>5. ASSUME NEW i \in Children, NEW o \in Objects, RefOf(i, o)'
      PROVE  o # 1 /\ Obj(o)' = m.obj[o]
  <2>1. CASE Slot(i)' = o
    <3>1. m.slot[i] = o  BY <2>1, <1>1, <1>2
    <3>2. Obj(o)' = m.obj[o]  BY <3>1, <1>1, <1>2
    <3>3. CASE m.slot[i] = Slot(i)  BY <3>1, <3>2, <3>3 DEF Memory
    <3>4. CASE m.slot[i] = call[p].kid /\ call[p].kid # None
      BY <3>1, <3>2, <3>4, <1>1, CallFacts, CallFields
    <3>5. CASE m.slot[i] = None  BY <3>1, <3>5, <1>2
    <3>6. QED  BY <3>3, <3>4, <3>5, <1>2 DEF LegalSlots
  <2>2. CASE \E q \in Calls : call'[q].id = i /\ call'[q].kid = o
    <3>1. PICK q \in Calls : call'[q].kid = o  BY <2>2
    <3>2. call'[q] \in CallRec /\ CallOK(q, call[q])'  BY DEF Typed
    <3>3. o # 1  BY <3>1, <3>2, <1>2, CallFields
    <3>4. q \in Used'  BY <3>1, <3>2, <1>2 DEF Used, CallOK, Does, Holding, Is
    <3>5. QED  BY <3>1, <3>3, <3>4, <1>1
  <2>3. QED  BY <2>1, <2>2, <1>5 DEF RefOf
<1>6. QED  BY <1>4, <1>5

LEMMA MemoryKept ==
    ASSUME Sheltered, Typed, Memory, \A q \in Calls : CallOK(q, call[q])', Typed', NEW p \in Used,
           NEW m \in MemRec, NEW c \in CallRec, NEW wakes, Moved(p, m, c, wakes),
           LegalSlots(p, m, c), LegalObjects(p, m, c), LegalNames(p, m, c), LegalNotes(p, m, c)
    PROVE  Memory'
<1>1. /\ \A i \in Ids : Slot(i)' = m.slot[i] /\ Owner(i)' = m.owner[i]
      /\ \A q \in Calls : call'[q] = IF q = p THEN c ELSE call[q]
      /\ p \in Calls /\ N' = N
  BY SameHome DEF Moved, Used
<1>2. TheDeck \in Ids /\ 1 \in Objects /\ TheDeck \notin Children /\ None \notin Objects
      /\ (\A i \in Children : i \in Ids /\ i \in Nat) /\ None \notin Child /\ Ids = {TheDeck} \cup Children
  BY ConstantFacts
<1>3. made \in Nat /\ made' \in Nat /\ made <= made'  BY ConstantFacts DEF Typed, LegalNames
<1>4. Slot(TheDeck)' = 1 /\ Owner(TheDeck)' = None /\ Notes' \in Deck
  BY <1>1, <1>2, ObjectsKept DEF LegalSlots, LegalNotes, Memory
<1>5. \A i \in Children : Slot(i)' # 1 /\ (Owner(i)' # None => Slot(i)' = None)
  <2> SUFFICES ASSUME NEW i \in Children
               PROVE Slot(i)' # 1 /\ (Owner(i)' # None => Slot(i)' = None)
    OBVIOUS
  <2>1. call[p].kid # 1  BY <1>1, <1>2, CallFacts, CallFields
  <2>2. m.slot[i] # 1  BY <2>1, <1>2 DEF LegalSlots, Memory
  <2>3. QED  BY <2>2, <1>1, <1>2 DEF LegalSlots
<1>6. \A i \in Children, o \in Objects : RefOf(i, o)' =>
        \/ RefOf(i, o)
        \/ /\ c.pc = "made" /\ i = c.id /\ i = made + 1
           /\ o = c.kid /\ Obj(o) = None /\ m.obj[o] \in Child
  BY RefsKept
<1>7. \A i \in Children, o \in Objects : RefOf(i, o)' => o # 1 /\ Obj(o)' = m.obj[o]
  BY ObjectsKept
<1>8. ASSUME NEW i \in Children, NEW o \in Objects, RefOf(i, o)'
      PROVE  i <= made' /\ Obj(o)' \in Child
  <2>1. CASE RefOf(i, o)
    <3>1. i <= made /\ Obj(o) \in Child  BY <2>1 DEF Memory
    <3>2. m.obj[o] \in Child  BY <3>1, <1>7, <1>8, <1>2 DEF LegalObjects
    <3>3. QED  BY <3>1, <3>2, <1>2, <1>3, <1>7, <1>8
  <2>2. CASE c.pc = "made" /\ i = c.id /\ i = made + 1 /\ m.obj[o] \in Child
    BY <2>2, <1>2, <1>3, <1>7, <1>8 DEF LegalNames
  <2>3. QED  BY <2>1, <2>2, <1>6, <1>8
<1>9. \A i \in Children : \A o \in Objects : RefOf(i, o) => i <= made /\ i # made + 1 /\ Obj(o) # None
  BY <1>2, <1>3 DEF Memory
<1>10. \A i \in Children, o, u \in Objects : RefOf(i, o)' /\ RefOf(i, u)' => o = u
  <2> SUFFICES ASSUME NEW i \in Children, NEW o \in Objects, NEW u \in Objects, RefOf(i, o)', RefOf(i, u)'
               PROVE o = u
    OBVIOUS
  <2>1. CASE RefOf(i, o) /\ RefOf(i, u)  BY <2>1 DEF Memory
  <2>2. QED  BY <2>1, <1>6, <1>9
<1>11. \A i, j \in Children, o \in Objects : RefOf(i, o)' /\ RefOf(j, o)' => i = j
  <2> SUFFICES ASSUME NEW i \in Children, NEW j \in Children, NEW o \in Objects, RefOf(i, o)', RefOf(j, o)'
               PROVE i = j
    OBVIOUS
  <2>1. CASE RefOf(i, o) /\ RefOf(j, o)  BY <2>1 DEF Memory
  <2>2. QED  BY <2>1, <1>6, <1>9
<1>12. ASSUME NEW o \in Objects, Obj(o)' # None
       PROVE  o = 1 \/ \E i \in Children : RefOf(i, o)'
  <2>1. \/ \E i \in Ids : m.slot[i] = o
        \/ \E q \in Calls : call'[q].deck = o \/ call'[q].kid = o
    BY <1>12 DEF Moved
  <2>2. ASSUME NEW i \in Ids, m.slot[i] = o PROVE o = 1 \/ \E j \in Children : RefOf(j, o)'
    <3>1. CASE i = TheDeck  BY <2>2, <3>1, <1>1, <1>4
    <3>2. CASE i \in Children
      <4>1. Slot(i)' = o  BY <2>2, <1>1
      <4>2. RefOf(i, o)'  BY <4>1 DEF RefOf
      <4>3. QED  BY <4>2, <3>2
    <3>3. QED  BY <3>1, <3>2, <1>2
  <2>3. ASSUME NEW q \in Calls, call'[q].deck = o PROVE o = 1
    <3>1. call'[q] \in CallRec  BY DEF Typed
    <3>2. QED  BY <3>1, <2>3, <1>2, CallFields
  <2>4. ASSUME NEW q \in Calls, call'[q].kid = o PROVE \E j \in Children : RefOf(j, o)'
    <3>1. call'[q] \in CallRec /\ CallOK(q, call[q])'  BY DEF Typed
    <3>2. call'[q].id # None  BY <3>1, <2>4, <1>2 DEF CallOK, Holding
    <3>3. call'[q].id \in Children  BY <3>1, <3>2, CallFields
    <3>4. \E j \in Children : call'[q].id = j /\ call'[q].kid = o  BY <3>3, <2>4
    <3>5. QED  BY <3>4 DEF RefOf
  <2>5. QED  BY <2>1, <2>2, <2>3, <2>4
<1>13. (\A i \in Children : \A o \in Objects : RefOf(i, o) => i <= made /\ Obj(o) \in Child)'  BY <1>8
<1>14. (\A o \in Objects : Obj(o) # None => o = 1 \/ \E i \in Children : RefOf(i, o))'  BY <1>12
<1>15. QED  BY <1>4, <1>5, <1>10, <1>11, <1>13, <1>14 DEF Memory

\* Only the first start of a line works.
LEMMA OneAtWork ==
    ASSUME Sheltered, Lock, Typed, NEW p \in Calls, NEW q \in Calls, InLine(p, call[p]), InLine(q, call[q]),
           Key(p) = Key(q), call[p].pc # "wait", call[q].pc # "wait"
    PROVE  p = q
<1> DEFINE s == Line(Key(p))
<1>1. Key(p) \in Keys /\ s \in Seq(Calls)  BY OneHome, CallFacts DEF Line, MemRec, Typed
<1>2. PICK i \in 1..Len(s) : s[i] = p  BY DEF Lock, In
<1>3. PICK j \in 1..Len(s) : s[j] = q  BY DEF Lock, In
<1>4. ~(i > 1) /\ ~(j > 1)  BY <1>1, <1>2, <1>3 DEF Lock
<1>5. Len(s) \in Nat  BY <1>1, LenProperties
<1> HIDE DEF s
<1>6. QED  BY <1>2, <1>3, <1>4, <1>5

LEMMA KnownKept ==
    ASSUME Sheltered, Typed, Wire, Names, \A q \in Calls : CallOK(q, call[q]), NEW p \in Used,
           NEW m, NEW c, NEW wakes, Moved(p, m, c, wakes), LegalTurn(p, m, c, wakes), LegalNames(p, m, c),
           NEW i \in Children, Known(i)
    PROVE  Known(i)'
<1>1. /\ \A q \in Calls : call'[q] = IF q = p THEN c ELSE call[q]
      /\ p \in Calls
  BY StepFacts DEF Used
<1>2. made \in Nat /\ i \in Nat  BY ConstantFacts DEF Typed
<1>3. i <= made' /\ ~(c.pc = "made" /\ c.id = i)  BY <1>2 DEF Known, LegalNames
<1>4. \A q \in Calls : ~(call'[q].pc = "made" /\ call'[q].id = i)
  BY <1>1, <1>3 DEF Known, Making
<1>5. QED  BY <1>3, <1>4 DEF Known, Making

LEMMA NamesKept ==
    ASSUME Sheltered, Typed, Wire, Lock, Memory, Names, \A q \in Calls : CallOK(q, call[q]),
           \A q \in Calls : CallOK(q, call[q])', Typed',
           NEW p \in Used, NEW m \in MemRec, NEW c \in CallRec, NEW wakes, Moved(p, m, c, wakes),
           LegalTurn(p, m, c, wakes), LegalSlots(p, m, c), LegalNames(p, m, c), LegalNotes(p, m, c)
    PROVE  Names'
<1>1. /\ scene' = scene /\ p \in Calls /\ Notes' = m.obj[1] /\ N' = N
      /\ \A q \in Calls : call'[q] = IF q = p THEN c ELSE call[q]
      /\ \A i \in Ids : Slot(i)' = m.slot[i]
      /\ call \in [Calls -> CallRec]
  BY StepFacts, ObjectsKept DEF Used
<1>2. /\ \A i \in Children : i \in Nat /\ i \in Ids /\ i # None
      /\ made \in Nat /\ made' \in Nat /\ made <= made'
  BY ConstantFacts DEF Typed, LegalNames
<1>3. \A i \in Children : Known(i) => Known(i)'  BY KnownKept
<1>4. \A q \in Calls : /\ call[q].id \in Children \cup {None}
                       /\ \A r \in call[q].todo : r[2] \in Children
                       /\ Key(q) \in Keys
  BY <1>1, CallFields, OneHome DEF Typed
<1>5. c.id \in Children \cup {None} /\ \A r \in c.todo : r[2] \in Children  BY CallFields
<1>6. \A k \in Keys : Notes.acts[k] \in Children \cup {None} /\ m.obj[1].acts[k] \in Children \cup {None}
  BY DeckChild DEF LegalNotes, Memory
<1>7. \A q \in Calls : call'[q].id # None => call'[q].id <= made'
  <2>1. \A q \in Calls : call[q].id # None => call[q].id <= made'  BY <1>2, <1>4 DEF Names
  <2>2. c.id # None => c.id <= made'  BY <2>1, <1>1, <1>2, <1>5 DEF LegalNames, Known
  <2>3. QED  BY <2>1, <2>2, <1>1
<1>8. ASSUME NEW q \in Calls, NEW r \in call'[q].todo PROVE Known(r[2])'
  <2>1. r[2] \in Children /\ Known(r[2])  BY <1>1, <1>4, <1>5, <1>8 DEF Names, LegalNames
  <2>2. QED  BY <2>1, <1>3
<1>9. ASSUME NEW a \in Calls, NEW q \in Calls, call'[a].pc = "made", q # a
      PROVE  call'[q].id # call'[a].id
  <2>1. CASE a = p
    <3>1. c.id = made + 1  BY <1>1, <1>9, <2>1 DEF LegalNames
    <3>2. call'[q].id = call[q].id  BY <1>1, <1>9, <2>1
    <3>3. made + 1 \in Children  BY <1>1, <1>2, <1>9, <2>1, ConstantFacts DEF LegalNames, Children
    <3>4. call[q].id # made + 1  BY <3>3, <1>2, <1>4 DEF Names
    <3>5. QED  BY <3>1, <3>2, <3>4, <1>1, <2>1
  <2>2. CASE a # p /\ q = p
    <3>1. call[a].pc = "made" /\ call'[a].id = call[a].id  BY <1>1, <1>9, <2>2
    <3>2. call[a].id # None /\ call[a].id \in Children  BY <3>1, <1>4 DEF CallOK, Holding, Named
    <3>3. call[p].id # call[a].id /\ call[a].id <= made  BY <3>1, <3>2, <2>2, <1>1 DEF Names
    <3>4. ~Known(call[a].id)  BY <3>1 DEF Known, Making
    <3>5. call[a].id # made + 1  BY <3>2, <3>3, <1>2
    <3>6. QED  BY <3>1, <3>2, <3>3, <3>4, <3>5, <1>1, <2>2 DEF LegalNames
  <2>3. CASE a # p /\ q # p  BY <1>1, <1>9, <2>3 DEF Names
  <2>4. QED  BY <2>1, <2>2, <2>3
<1>10. ASSUME NEW k \in Keys, Enters(p, m, c, k)
       PROVE  /\ k = Key(p) /\ Is(p, "start") /\ call[p].pc = "made"
              /\ \E i \in Children : /\ i = call[p].id /\ m.obj[1].acts[k] = i /\ Known(i)' /\ m.slot[i] # None
                                     /\ \A j \in Keys : Notes.acts[j] # i
  <2>1. k = Key(p) /\ m.obj[1].acts[k] = call[p].id /\ m.slot[call[p].id] # None
        /\ call[p].pc = "made" /\ c.pc = "noted" /\ c.id = call[p].id
    BY <1>10 DEF Enters
  <2>2. Is(p, "start") /\ call[p].id # None  BY <2>1, <1>1 DEF CallOK, Does, Holding, Named, OfStart
  <2>3. PICK i \in Children : i = call[p].id /\ i <= made  BY <2>2, <1>1, <1>4 DEF Names
  <2>4. \A q \in Calls : ~(call'[q].pc = "made" /\ call'[q].id = i)
    BY <2>1, <2>3, <1>1 DEF Names
  <2>5. i <= made'  BY <2>1, <2>3 DEF LegalNames
  <2>6. Known(i)'  BY <2>4, <2>5 DEF Known, Making
  <2>7. \A j \in Keys : Notes.acts[j] # i
    BY <2>1, <2>2, <2>3, <1>1 DEF Names, Known, Making
  <2>8. QED  BY <2>1, <2>2, <2>3, <2>6, <2>7
<1>11. ASSUME NEW k \in Keys, m.obj[1].acts[k] # None
       PROVE  \/ m.obj[1].acts[k] = Notes.acts[k]
              \/ Enters(p, m, c, k)
  BY <1>11 DEF LegalNotes, Removes
<1>12. ASSUME NEW k \in Keys, m.obj[1].acts[k] # None
       PROVE  \E i \in Children : i = m.obj[1].acts[k] /\ Known(i)' /\ m.slot[i] # None
  <2>1. CASE Enters(p, m, c, k)  BY <2>1, <1>10
  <2>2. CASE m.obj[1].acts[k] = Notes.acts[k]
    <3>1. PICK i \in Children : i = m.obj[1].acts[k]  BY <1>6, <1>12
    <3>2. Known(i) /\ Slot(i) # None  BY <3>1, <2>2, <1>2 DEF Names
    <3>3. Known(i)'  BY <3>2, <1>3
    <3>4. ~(Is(p, "end") /\ call[p].id = i)  BY <3>1, <2>2, <1>1, <1>2 DEF Names
    <3>5. m.slot[i] # None  BY <3>2, <3>4, <1>2 DEF LegalSlots
    <3>6. QED  BY <3>1, <3>3, <3>5
  <2>3. QED  BY <2>1, <2>2, <1>11, <1>12
<1>13. ASSUME NEW j \in Keys, NEW k \in Keys, m.obj[1].acts[j] # None, m.obj[1].acts[j] = m.obj[1].acts[k]
       PROVE  j = k
  <2>1. CASE Enters(p, m, c, j) /\ Enters(p, m, c, k)  BY <2>1 DEF Enters
  <2>2. CASE Enters(p, m, c, j) /\ m.obj[1].acts[k] = Notes.acts[k]  BY <2>2, <1>10, <1>13
  <2>3. CASE Enters(p, m, c, k) /\ m.obj[1].acts[j] = Notes.acts[j]  BY <2>3, <1>10, <1>13
  <2>4. CASE m.obj[1].acts[j] = Notes.acts[j] /\ m.obj[1].acts[k] = Notes.acts[k]
    BY <2>4, <1>13 DEF Names
  <2>5. QED  BY <2>1, <2>2, <2>3, <2>4, <1>11, <1>13
<1>14. ASSUME NEW q \in Calls, NEW k \in Keys, Is(q, "end"), call'[q].id # None
       PROVE  m.obj[1].acts[k] # call'[q].id
  <2>0. SUFFICES ASSUME m.obj[1].acts[k] = call'[q].id PROVE FALSE
    OBVIOUS
  <2>1. CASE Enters(p, m, c, k)
    <3>1. q # p  BY <2>1, <1>10, <1>14 DEF Is
    <3>2. call'[q].id = call[q].id  BY <3>1, <1>1
    <3>3. call[p].id = call[q].id /\ call[p].pc = "made"  BY <3>2, <2>0, <2>1, <1>10
    <3>4. QED  BY <3>1, <3>3, <1>1 DEF Names
  <2>2. CASE m.obj[1].acts[k] = Notes.acts[k]
    <3>1. CASE call'[q].id = call[q].id  BY <3>1, <2>0, <2>2, <1>14 DEF Names
    <3>2. CASE q = p /\ c.id = Notes.acts[Key(p)] /\ m.obj[1].acts[Key(p)] = None
      <4>1. call'[q].id = c.id /\ Key(p) \in Keys  BY <3>2, <1>1, <1>4
      <4>2. Notes.acts[k] # None /\ Notes.acts[k] = Notes.acts[Key(p)]
        BY <4>1, <3>2, <2>0, <2>2, <1>14
      <4>3. k = Key(p)  BY <4>1, <4>2 DEF Names
      <4>4. QED  BY <4>3, <3>2, <2>0, <1>14
    <3>3. q # p => call'[q].id = call[q].id  BY <1>1
    <3>4. q = p => call'[q].id = c.id  BY <1>1
    <3>5. QED  BY <3>1, <3>2, <3>3, <3>4, <1>14 DEF LegalNames
  <2>3. QED  BY <2>0, <2>1, <2>2, <1>11, <1>14
<1>15. ASSUME NEW q \in Calls, call'[q].pc \in {"probe", "made"} PROVE m.obj[1].acts[Key(q)] = None
  <2>1. CASE q = p  BY <2>1, <1>1, <1>15 DEF LegalNames
  <2>2. CASE q # p
    <3>1. call[q].pc \in {"probe", "made"} /\ Notes.acts[Key(q)] = None  BY <2>2, <1>1, <1>15 DEF Names
    <3>2. ~Enters(p, m, c, Key(q))
      <4>1. SUFFICES ASSUME Enters(p, m, c, Key(q)) PROVE FALSE
        OBVIOUS
      <4>2. Key(p) = Key(q) /\ Is(p, "start") /\ call[p].pc = "made"  BY <4>1, <1>4, <1>10
      <4>3. InLine(p, call[p]) /\ InLine(q, call[q])  BY <4>2, <3>1 DEF InLine, OfStart, CallOK, Does
      <4>4. QED  BY <4>2, <4>3, <3>1, <2>2, <1>1, OneAtWork
    <3>3. QED  BY <3>1, <3>2, <1>4, <1>11
  <2>3. QED  BY <2>1, <2>2
<1>16. \A q \in Calls, k \in Keys : Is(q, "end")' <=> Is(q, "end")  BY <1>1 DEF Is
<1>17. (\A k \in Keys : Notes.acts[k] # None => Known(Notes.acts[k]) /\ Slot(Notes.acts[k]) # None)'
  <2> SUFFICES ASSUME NEW k \in Keys, Notes'.acts[k] # None
               PROVE  (Known(Notes.acts[k]) /\ Slot(Notes.acts[k]) # None)'
    OBVIOUS
  <2>1. PICK i \in Children : i = Notes'.acts[k] /\ Known(i)' /\ m.slot[i] # None  BY <1>1, <1>12
  <2>2. mem'[N'].slot[i] # None  BY <2>1, <1>1, <1>2 DEF Slot
  <2>3. i <= made' /\ \A q \in Calls : ~(call'[q].pc = "made" /\ call'[q].id = i)
    BY <2>1 DEF Known, Making
  <2>4. QED  BY <2>1, <2>2, <2>3 DEF Slot, Known, Making
<1>18. (\A q \in Calls : call[q].id # None => call[q].id <= made)'  BY <1>7
<1>19. (\A q \in Calls : \A r \in call[q].todo : Known(r[2]))'  BY <1>8
<1>20. (\A a, q \in Calls : call[a].pc = "made" /\ q # a => call[q].id # call[a].id)'  BY <1>9
<1>21. (\A j, k \in Keys : Notes.acts[j] # None /\ Notes.acts[j] = Notes.acts[k] => j = k)'
  BY <1>1, <1>13
<1>22. (\A q \in Calls, k \in Keys : Is(q, "end") /\ call[q].id # None => Notes.acts[k] # call[q].id)'
  BY <1>1, <1>14, <1>16
<1>23. (\A q \in Calls : call[q].pc \in {"probe", "made"} => Notes.acts[Key(q)] = None)'
  BY <1>1, <1>15 DEF Key
<1>24. QED  BY <1>17, <1>18, <1>19, <1>20, <1>21, <1>22, <1>23 DEF Names

LEMMA OrdersKept ==
    ASSUME Sheltered, Typed, Wire, Memory, Orders, \A q \in Calls : CallOK(q, call[q]),
           \A q \in Calls : CallOK(q, call[q])', Typed', Memory',
           NEW p \in Used, NEW m \in MemRec, NEW c \in CallRec, NEW wakes, Moved(p, m, c, wakes),
           LegalTurn(p, m, c, wakes), LegalSlots(p, m, c), LegalNotes(p, m, c), LegalSends(p, m, c)
    PROVE  Orders'
<1>1. /\ p \in Calls /\ ~InSent(p)
      /\ \A q \in Calls : call'[q] = IF q = p THEN c ELSE call[q]
      /\ \A q : InSent(q)' <=> InSent(q) \/ (q = p /\ c.cmd # "none")
  BY StepFacts DEF Used
<1>2. ASSUME NEW q \in Calls, InSent(q)'
      PROVE  /\ call'[q].cmd = "set" => call'[q].out \in IF call'[q].on = TheDeck THEN Deck ELSE Child
             /\ call'[q].cmd = "del" => call'[q].out = {call'[q].id}
  <2>1. CASE q # p  BY <2>1, <1>1, <1>2 DEF Orders
  <2>2. CASE q = p
    <3>1. c.cmd = "del" => c.out = {c.id}  BY DEF LegalSends
    <3>2. CASE c.cmd = "set" /\ c.on = TheDeck
      BY <3>1, <3>2, <2>2, <1>1 DEF LegalSends, LegalNotes
    <3>3. CASE c.cmd = "set" /\ c.on # TheDeck
      <4>1. c.id \in Children /\ c.kid # None /\ c.out = m.obj[c.kid]  BY <3>3 DEF LegalSends
      <4>2. c.kid \in Objects  BY <4>1, CallFields
      <4>3. \E i \in Children, o \in Objects : call'[p].id = i /\ call'[p].kid = o /\ o = c.kid
        BY <4>1, <4>2, <1>1
      <4>4. PICK i \in Children, o \in Objects : RefOf(i, o)' /\ o = c.kid  BY <4>3, <1>1 DEF RefOf
      <4>5. Obj(o)' = m.obj[o]  BY <4>4, ObjectsKept
      <4>6. Obj(o)' \in Child  BY <4>4 DEF Memory
      <4>7. QED  BY <4>1, <4>4, <4>5, <4>6, <3>3, <2>2, <1>1
    <3>4. QED  BY <3>1, <3>2, <3>3, <2>2, <1>1
  <2>3. QED  BY <2>1, <2>2
<1>3. QED  BY <1>2 DEF Orders

\* A child that is gone at the end of all commands is gone for one that is sent now.
LEMMA ClearKept ==
    ASSUME Sheltered, Typed, Wire, \A q \in Calls : CallOK(q, call[q]),
           NEW p \in Used, NEW m, NEW c, NEW wakes, Moved(p, m, c, wakes), LegalTurn(p, m, c, wakes),
           NEW i \in Children
    PROVE  /\ \A q \in Calls : ClearAt(i, q) /\ q # p => ClearAt(i, q)'
           /\ ClearEnd(i) /\ c.cmd = "get" => ClearAt(i, p)'
           /\ ClearEnd(i) /\ ~SetOf(p, i)' => ClearEnd(i)'
<1>1. /\ p \in Calls /\ ~InSent(p) /\ store' = store
      /\ \A q \in Calls : call'[q] = IF q = p THEN c ELSE call[q]
      /\ \A q : InSent(q)' <=> InSent(q) \/ (q = p /\ c.cmd # "none")
      /\ \A q, r : After(q, r)' <=> After(q, r) \/ (InSent(q) /\ r = p /\ c.cmd # "none")
      /\ \A q, r : After(q, r) => InSent(q) /\ InSent(r) /\ q # p /\ r # p
  BY StepFacts DEF Used
<1>2. \A s \in Calls : s # p => (SetOf(s, i)' <=> SetOf(s, i)) /\ (DelOf(s, i)' <=> DelOf(s, i))
  BY <1>1 DEF SetOf, DelOf
<1>3. ~SetOf(p, i) /\ ~DelOf(p, i)  BY <1>1 DEF SetOf, DelOf
<1>4. ASSUME NEW q \in Calls, ClearAt(i, q), q # p PROVE ClearAt(i, q)'
  <2>1. \A s \in Calls : SetOf(s, i)' /\ After(s, q)' => SetOf(s, i) /\ After(s, q)
    BY <1>1, <1>2, <1>4
  <2>2. CASE store[i] = Gone /\ \A s \in Calls : SetOf(s, i) => ~After(s, q)
    <3>1. store'[i] = Gone /\ \A s \in Calls : SetOf(s, i)' => ~After(s, q)'  BY <2>1, <2>2, <1>1
    <3>2. QED  BY <3>1 DEF ClearAt
  <2>3. CASE \E d \in Calls : /\ DelOf(d, i) /\ After(d, q)
                              /\ \A s \in Calls : SetOf(s, i) /\ After(s, q) => After(s, d)
    <3>1. PICK d \in Calls : /\ DelOf(d, i) /\ After(d, q)
                             /\ \A s \in Calls : SetOf(s, i) /\ After(s, q) => After(s, d)
      BY <2>3
    <3>2. DelOf(d, i)' /\ After(d, q)' /\ \A s \in Calls : SetOf(s, i)' /\ After(s, q)' => After(s, d)'
      BY <3>1, <2>1, <1>1, <1>2, <1>3
    <3>3. QED  BY <3>2 DEF ClearAt
  <2>4. QED  BY <2>2, <2>3, <1>4 DEF ClearAt
<1>5. ASSUME ClearEnd(i), c.cmd = "get" PROVE ClearAt(i, p)'
  <2>1. ~SetOf(p, i)'  BY <1>1, <1>5 DEF SetOf
  <2>2. CASE store[i] = Gone /\ \A s \in Calls : ~SetOf(s, i)
    <3>1. store'[i] = Gone /\ \A s \in Calls : SetOf(s, i)' => ~After(s, p)'  BY <2>1, <2>2, <1>1, <1>2
    <3>2. QED  BY <3>1 DEF ClearAt
  <2>3. CASE \E d \in Calls : DelOf(d, i) /\ \A s \in Calls : SetOf(s, i) => After(s, d)
    <3>1. PICK d \in Calls : DelOf(d, i) /\ \A s \in Calls : SetOf(s, i) => After(s, d)  BY <2>3
    <3>2. DelOf(d, i)' /\ After(d, p)' /\ \A s \in Calls : SetOf(s, i)' /\ After(s, p)' => After(s, d)'
      BY <3>1, <2>1, <1>1, <1>2, <1>3, <1>5 DEF DelOf
    <3>3. QED  BY <3>2 DEF ClearAt
  <2>4. QED  BY <2>2, <2>3, <1>5 DEF ClearEnd
<1>6. ASSUME ClearEnd(i), ~SetOf(p, i)' PROVE ClearEnd(i)'
  <2>1. CASE store[i] = Gone /\ \A s \in Calls : ~SetOf(s, i)
    <3>1. store'[i] = Gone /\ \A s \in Calls : ~SetOf(s, i)'  BY <2>1, <1>1, <1>2, <1>6
    <3>2. QED  BY <3>1 DEF ClearEnd
  <2>2. CASE \E d \in Calls : DelOf(d, i) /\ \A s \in Calls : SetOf(s, i) => After(s, d)
    <3>1. PICK d \in Calls : DelOf(d, i) /\ \A s \in Calls : SetOf(s, i) => After(s, d)  BY <2>2
    <3>2. DelOf(d, i)' /\ \A s \in Calls : SetOf(s, i)' => After(s, d)'
      BY <3>1, <1>1, <1>2, <1>3, <1>6
    <3>3. QED  BY <3>2 DEF ClearEnd
  <2>3. QED  BY <2>1, <2>2, <1>6 DEF ClearEnd
<1>7. QED  BY <1>4, <1>5, <1>6

LEMMA MissesKept ==
    ASSUME Sheltered, Typed, Wire, Memory, Names, Misses, \A q \in Calls : CallOK(q, call[q]),
           NEW p \in Used, NEW m, NEW c \in CallRec, NEW wakes, Moved(p, m, c, wakes),
           LegalTurn(p, m, c, wakes), LegalSlots(p, m, c), LegalNames(p, m, c), LegalSends(p, m, c)
    PROVE  Misses'
<1>1. /\ p \in Calls /\ ~InSent(p) /\ store' = store
      /\ \A q \in Calls : call'[q] = IF q = p THEN c ELSE call[q]
      /\ \A q : InSent(q)' <=> InSent(q) \/ (q = p /\ c.cmd # "none")
      /\ \A q, r : After(q, r)' <=> After(q, r) \/ (InSent(q) /\ r = p /\ c.cmd # "none")
      /\ \A q, r : After(q, r) => InSent(q) /\ InSent(r) /\ q # p /\ r # p
      /\ \A i \in Ids : Slot(i)' = m.slot[i]
      /\ call \in [Calls -> CallRec]
  BY StepFacts DEF Used
<1>2. \A i \in Children : i \in Ids /\ i \in Nat /\ i # TheDeck  BY ConstantFacts
<1>3. ASSUME NEW q \in Calls, call'[q].cmd = "get"
      PROVE  \E i \in Children : /\ i = call'[q].id
                                 /\ IF InSent(q)' THEN ClearAt(i, q)' ELSE call'[q].got = Gone
  <2>1. CASE q = p
    <3>1. c.id \in Children /\ Slot(c.id) = None /\ Known(c.id)  BY <2>1, <1>1, <1>3 DEF LegalSends
    <3>2. ClearEnd(c.id)  BY <3>1 DEF Misses
    <3> DEFINE i == c.id
    <3> HIDE DEF i
    <3>3. ClearAt(i, p)'
      <4>1. i \in Children /\ ClearEnd(i)  BY <3>1, <3>2 DEF i
      <4>2. QED  BY <4>1, <2>1, <1>1, <1>3, ClearKept
    <3>4. i \in Children /\ i = call'[q].id /\ InSent(q)'  BY <3>1, <2>1, <1>1, <1>3 DEF i
    <3>5. QED  BY <3>3, <3>4, <2>1
  <2>2. CASE q # p
    <3>1. call'[q] = call[q] /\ (InSent(q)' <=> InSent(q))  BY <2>2, <1>1
    <3>2. call[q].id \in Children
      BY <3>1, <1>1, <1>3, CallFields
         DEF CallOK, Commanded, Holding, Named, Fetches, Steps
    <3>3. IF InSent(q) THEN ClearAt(call[q].id, q) ELSE call[q].got = Gone  BY <3>1, <1>3 DEF Misses
    <3>4. PICK i \in Children : i = call[q].id  BY <3>2
    <3>5. ClearAt(i, q) => ClearAt(i, q)'  BY <2>2, ClearKept
    <3>6. IF InSent(q) THEN ClearAt(i, q) ELSE call[q].got = Gone  BY <3>3, <3>4
    <3>7. IF InSent(q)' THEN ClearAt(i, q)' ELSE call'[q].got = Gone  BY <3>1, <3>5, <3>6
    <3>8. QED  BY <3>1, <3>4, <3>7
  <2>3. QED  BY <2>1, <2>2
<1>4. ASSUME NEW i \in Children, Known(i)', Slot(i)' = None PROVE ClearEnd(i)'
  <2>1. m.slot[i] = None /\ i <= made' /\ ~(c.pc = "made" /\ c.id = i)
    BY <1>1, <1>2, <1>4 DEF Known, Making
  <2>2. i <= made  BY <2>1, <1>2, ConstantFacts DEF LegalNames, Typed
  <2>3. ~Making(i)
    <3>1. \A q \in Calls : ~(call'[q].pc = "made" /\ call'[q].id = i)  BY <1>4 DEF Known, Making
    <3>2. ~(call[p].pc = "made" /\ call[p].id = i)  BY <2>1 DEF LegalSlots
    <3>3. QED  BY <3>1, <3>2, <1>1 DEF Making
  <2>4. ~SetOf(p, i)'
    <3>1. SUFFICES ASSUME c.cmd = "set", c.on = i PROVE FALSE
      BY <1>1 DEF SetOf
    <3>2. c.on = c.id /\ c.kid # None /\ (c.pc = "made" \/ m.slot[c.id] = c.kid)
      BY <3>1, <1>2 DEF LegalSends
    <3>3. QED  BY <3>1, <3>2, <2>1
  <2>5. CASE Slot(i) = None
    <3>1. ClearEnd(i)  BY <2>2, <2>3, <2>5 DEF Misses, Known
    <3>2. QED  BY <3>1, <2>4, ClearKept
  <2>6. CASE Slot(i) # None
    <3>1. call[p].id = i /\ c.id = i /\ c.cmd = "del"  BY <2>6, <2>1, <1>2 DEF LegalSlots
    <3>2. DelOf(p, i)'  BY <3>1, <1>1 DEF DelOf
    <3>3. \A s \in Calls : SetOf(s, i)' => s # p /\ InSent(s)  BY <2>4, <1>1 DEF SetOf
    <3>4. \A s \in Calls : SetOf(s, i)' => After(s, p)'  BY <3>1, <3>3, <1>1
    <3>5. QED  BY <3>2, <3>4, <1>1 DEF ClearEnd
  <2>7. QED  BY <2>5, <2>6
<1>5. (\A q \in Calls : call[q].cmd = "get" =>
          IF InSent(q) THEN ClearAt(call[q].id, q) ELSE call[q].got = Gone)'
  <2> SUFFICES ASSUME NEW q \in Calls, call'[q].cmd = "get"
               PROVE  (IF InSent(q) THEN ClearAt(call[q].id, q) ELSE call[q].got = Gone)'
    OBVIOUS
  <2>1. PICK i \in Children : /\ i = call'[q].id
                              /\ IF InSent(q)' THEN ClearAt(i, q)' ELSE call'[q].got = Gone
    BY <1>3
  <2>2. QED  BY <2>1 DEF ClearAt, SetOf, DelOf
<1>6. (\A i \in Children : Known(i) /\ Slot(i) = None => ClearEnd(i))'  BY <1>4
<1>7. QED  BY <1>5, <1>6 DEF Misses

\* What a call has put into the deck stays in what the deck is next.
LEMMA DeckHasKept ==
    ASSUME Sheltered, Typed, Wire, Names, \A q \in Calls : CallOK(q, call[q]),
           NEW p \in Used, NEW m, NEW c, NEW wakes, Moved(p, m, c, wakes),
           LegalTurn(p, m, c, wakes), LegalNotes(p, m, c)
    PROVE  /\ \A k \in Keys : Unended(k)' => Unended(k)
           /\ \A q \in Calls, i \in Children \cup {None} :
                 \A d : DeckHas(q, i, d) => DeckHas(q, i, d)'
           /\ \A q \in Calls, i \in Children \cup {None} :
                 DeckHas(q, i, Notes) /\ (Is(q, "start") => i # None) => DeckHas(q, i, m.obj[1])'
<1>0. p \in Calls /\ scene \in Scenes  BY DEF Used, Typed
<1>1. /\ scene' = scene /\ p \in Calls
      /\ \A q \in Calls : call'[q] = IF q = p THEN c ELSE call[q]
      /\ \A q \in Calls : Key(q) \in Keys
  BY <1>0, OneHome DEF Moved
<1>2. \A k \in Keys : Unended(k)' => Unended(k)
  <2> SUFFICES ASSUME NEW k \in Keys, Unended(k)', NEW q \in Calls, Is(q, "end"), Key(q) = k
               PROVE  call[q].pc = "idle"
    BY DEF Unended
  <2>1. call'[q].pc = "idle"  BY <1>1 DEF Unended, Is, Key
  <2>2. QED  BY <2>1, <1>1 DEF LegalTurn
<1>3. \A k \in Keys : Unended(k)' => ~(Is(p, "end") /\ Key(p) = k)
  BY <1>1 DEF Unended, Is, Key, LegalTurn
<1>4. ASSUME NEW q \in Calls, NEW i \in Children \cup {None}, NEW d, DeckHas(q, i, d)
      PROVE  DeckHas(q, i, d)'
  <2>1. Unended(Key(q))' => Unended(Key(q))
    <3>1. PICK k \in Keys : k = Key(q)  BY <1>1
    <3>2. Unended(k)' => Unended(k)  BY <1>2
    <3>3. QED  BY <3>1, <3>2, <1>1 DEF Unended, Key, Is
  <2>2. QED  BY <2>1, <1>1, <1>4 DEF DeckHas, Is, Key, Student
<1>5. ASSUME NEW q \in Calls, NEW i \in Children \cup {None}, DeckHas(q, i, Notes),
             Is(q, "start") => i # None
      PROVE  DeckHas(q, i, m.obj[1])'
  <2>1. Is(q, "join") => Student(q) \in m.obj[1].students  BY <1>5 DEF DeckHas, LegalNotes
  <2>2. Is(q, "update") => q \in m.obj[1].strokes  BY <1>5 DEF DeckHas, LegalNotes
  <2>3. ASSUME Is(q, "start"), Unended(Key(q))' PROVE m.obj[1].acts[Key(q)] = i
    <3>1. PICK k \in Keys : k = Key(q)  BY <1>1
    <3>2. Unended(k)'  BY <3>1, <2>3, <1>1 DEF Unended, Key, Is
    <3>3. Notes.acts[k] = i  BY <3>1, <3>2, <2>3, <1>2, <1>5 DEF DeckHas
    <3>4. ~Removes(p, m, c, k)  BY <3>2, <1>3 DEF Removes
    <3>5. ~Enters(p, m, c, k)  BY <3>3, <2>3, <1>1, <1>5 DEF Enters, Names
    <3>6. QED  BY <3>1, <3>3, <3>4, <3>5 DEF LegalNotes
  <2>4. QED  BY <2>1, <2>2, <2>3, <1>1 DEF DeckHas, Is, Key, Student
<1>6. QED  BY <1>2, <1>4, <1>5

LEMMA DeckFactsKept ==
    ASSUME Sheltered, Typed, Wire, Names, Memory, DeckFacts, \A q \in Calls : CallOK(q, call[q]),
           \A q \in Calls : CallOK(q, call[q])', Typed', NEW p \in Used, NEW m, NEW c \in CallRec, NEW wakes,
           Moved(p, m, c, wakes), LegalTurn(p, m, c, wakes), LegalSlots(p, m, c),
           LegalNotes(p, m, c), LegalSends(p, m, c), LegalMarks(p, m, c)
    PROVE  DeckFacts'
<1>1. /\ scene' = scene /\ store' = store /\ p \in Calls /\ ~InSent(p)
      /\ \A q \in Calls : call'[q] = IF q = p THEN c ELSE call[q]
      /\ \A q : InSent(q)' <=> InSent(q) \/ (q = p /\ c.cmd # "none")
      /\ \A q, r : After(q, r)' <=> After(q, r) \/ (InSent(q) /\ r = p /\ c.cmd # "none")
      /\ \A q, r : After(q, r) => InSent(q) /\ InSent(r) /\ q # p /\ r # p
      /\ call \in [Calls -> CallRec]
  BY StepFacts DEF Used
<1>2. Notes' = m.obj[1]  BY ObjectsKept
<1>3. TheDeck \notin Children /\ None \notin Children  BY ConstantFacts
<1>4. \A k \in Keys : Unended(k)' => Unended(k)  BY DeckHasKept
<1>5. \A q \in Calls, i \in Children \cup {None} : \A d : DeckHas(q, i, d) => DeckHas(q, i, d)'
  BY DeckHasKept
<1>6. \A q \in Calls, i \in Children \cup {None} :
         DeckHas(q, i, Notes) /\ (Is(q, "start") => i # None) => DeckHas(q, i, m.obj[1])'
  BY DeckHasKept
<1>7. \A q \in Calls : /\ call[q].id \in Children \cup {None}
                       /\ Marked(q, call[q]) /\ Is(q, "start") => call[q].id # None
  <2> SUFFICES ASSUME NEW q \in Calls
               PROVE  /\ call[q].id \in Children \cup {None}
                      /\ Marked(q, call[q]) /\ Is(q, "start") => call[q].id # None
    OBVIOUS
  <2>1. call[q].id \in Children \cup {None}  BY <1>1, CallFields
  <2>2. ASSUME Marked(q, call[q]), Is(q, "start") PROVE call[q].id # None
    BY <2>2 DEF Marked, Is, CallOK, Holding, Named, Fetches
  <2>3. QED  BY <2>1, <2>2
<1>8. \A q \in Calls : Marked(q, call[q])' <=> Marked(q, call'[q])  BY <1>1 DEF Marked, Is
<1>9. c.id \in Children \cup {None}  BY CallFields
<1>10. Noting(p)' <=> c.pc = "noted" /\ c.cmd # "none"  BY <1>1 DEF Noting
<1>11. ~Noting(p) /\ ~SetOf(p, TheDeck)  BY <1>1 DEF Noting, SetOf
<1>12. \A q \in Calls : q # p => (Noting(q)' <=> Noting(q)) /\ (SetOf(q, TheDeck)' <=> SetOf(q, TheDeck))
  BY <1>1 DEF Noting, SetOf
<1>13. SetOf(p, TheDeck)' => c.pc = "noted" /\ c.cmd = "set" /\ c.out = m.obj[1]
  BY <1>1, <1>3 DEF SetOf, LegalSends
<1>14. ASSUME NEW q \in Calls, Marked(q, call'[q]), NEW i \in Children \cup {None}, i = call'[q].id
       PROVE  /\ DeckHas(q, i, m.obj[1])'
              /\ DeckHas(q, i, IF Noting(q) THEN call[q].out ELSE store[TheDeck])'
              /\ \A r \in Calls : SetOf(r, TheDeck)' /\ (Noting(q)' => After(q, r)')
                    => DeckHas(q, i, call[r].out)'
  <2>1. CASE q # p \/ (Marked(p, call[p]) /\ c.pc # "noted" /\ (Is(p, "start") => c.id = call[p].id))
    <3> DEFINE j == call[q].id
    <3>1. Marked(q, call[q]) /\ (Is(q, "start") => j = i) /\ (q # p => j = i)  BY <1>1, <1>14, <2>1
    <3>2. /\ DeckHas(q, j, Notes)
          /\ DeckHas(q, j, IF Noting(q) THEN call[q].out ELSE store[TheDeck])
          /\ \A r \in Calls : SetOf(r, TheDeck) /\ (Noting(q) => After(q, r)) => DeckHas(q, j, call[r].out)
      BY <3>1 DEF DeckFacts
    <3>3. \A d : DeckHas(q, j, d) => DeckHas(q, i, d)  BY <3>1 DEF DeckHas
    <3> HIDE DEF j
    <3>4. /\ DeckHas(q, i, Notes)
          /\ DeckHas(q, i, IF Noting(q) THEN call[q].out ELSE store[TheDeck])
          /\ \A r \in Calls : SetOf(r, TheDeck) /\ (Noting(q) => After(q, r)) => DeckHas(q, i, call[r].out)
      BY <3>2, <3>3
    <3>5. Is(q, "start") => i # None  BY <3>1, <1>7 DEF j
    <3>6. DeckHas(q, i, m.obj[1])'  BY <3>4, <3>5, <1>6
    <3>7. Noting(q)' <=> Noting(q)  BY <2>1, <1>10, <1>11, <1>12
    <3>8. Noting(q) => q # p  BY <1>11
    <3>9. ASSUME NEW d, d = IF Noting(q) THEN call'[q].out ELSE store'[TheDeck] PROVE DeckHas(q, i, d)'
      <4>1. d = IF Noting(q) THEN call[q].out ELSE store[TheDeck]  BY <3>8, <3>9, <1>1
      <4>2. DeckHas(q, i, d)  BY <4>1, <3>4
      <4>3. QED  BY <4>2, <1>5
    <3>10. ASSUME NEW r \in Calls, SetOf(r, TheDeck)', Noting(q)' => After(q, r)', NEW d, d = call'[r].out
           PROVE  DeckHas(q, i, d)'
      <4>1. CASE r = p
        <5>1. d = m.obj[1]  BY <4>1, <3>10, <1>1, <1>13
        <5>2. QED  BY <5>1, <3>6 DEF DeckHas
      <4>2. CASE r # p
        <5>1. SetOf(r, TheDeck) /\ (Noting(q) => After(q, r)) /\ d = call[r].out
          BY <4>2, <3>7, <3>10, <1>1, <1>12
        <5>2. DeckHas(q, i, d)  BY <5>1, <3>4
        <5>3. QED  BY <5>2, <1>5
      <4>3. QED  BY <4>1, <4>2
    <3>11. DeckHas(q, i, IF Noting(q) THEN call[q].out ELSE store[TheDeck])'
      BY <3>7, <3>9 DEF DeckHas
    <3>12. \A r \in Calls : SetOf(r, TheDeck)' /\ (Noting(q)' => After(q, r)') => DeckHas(q, i, call[r].out)'
      BY <3>10 DEF DeckHas
    <3>13. QED  BY <3>6, <3>11, <3>12
  <2>2. CASE q = p /\ c.pc = "noted" /\ c.cmd = "set" /\ DeckHas(p, c.id, m.obj[1])
    <3>1. i = c.id /\ DeckHas(p, i, m.obj[1])'  BY <2>2, <1>1, <1>5, <1>14
    <3>2. Noting(p)'  BY <2>2, <1>10
    <3>3. c.on = TheDeck  BY <2>2 DEF LegalTurn, CallOK, Commanded
    <3>4. call'[p].out = m.obj[1]  BY <3>3, <2>2, <1>1 DEF LegalSends
    <3>5. ASSUME NEW r \in Calls, SetOf(r, TheDeck)', After(p, r)' PROVE r = p
      BY <3>5, <1>1
    <3>6. DeckHas(p, i, IF Noting(p) THEN call[p].out ELSE store[TheDeck])'
      BY <3>1, <3>2, <3>4 DEF DeckHas
    <3>7. \A r \in Calls : SetOf(r, TheDeck)' /\ (Noting(p)' => After(p, r)') => DeckHas(p, i, call[r].out)'
      BY <3>1, <3>2, <3>4, <3>5 DEF DeckHas
    <3>8. QED  BY <3>1, <3>6, <3>7, <2>2
  <2>3. CASE q = p /\ c.pc = "existing" /\ c.id = Notes.acts[Key(p)] /\ m.obj[1] = Notes
             /\ (Unended(Key(p)) => Settled(Key(p)))
    <3>1. i = c.id /\ Is(p, "start") /\ ~Noting(p)'
      BY <2>3, <1>1, <1>10, <1>14 DEF LegalTurn, CallOK, Does, OfStart
    <3>2. PICK k \in Keys : k = Key(p)  BY <1>1, OneHome DEF Typed
    <3>3. Unended(Key(p))' => Unended(k)' /\ Unended(k)  BY <3>2, <1>1, <1>4 DEF Unended, Key, Is
    <3>4. ASSUME NEW d, Unended(k) => d.acts[k] = i PROVE DeckHas(p, i, d)'
      BY <3>1, <3>2, <3>3, <3>4, <1>1 DEF DeckHas, Is, Key
    <3>5. DeckHas(p, i, m.obj[1])'  BY <3>1, <3>2, <3>4, <2>3
    <3>6. Unended(k) => store'[TheDeck].acts[k] = i  BY <3>1, <3>2, <2>3, <1>1 DEF Settled
    <3>7. DeckHas(p, i, IF Noting(p) THEN call[p].out ELSE store[TheDeck])'
      <4>1. ASSUME NEW d, d = store'[TheDeck] PROVE DeckHas(p, i, d)'  BY <4>1, <3>4, <3>6
      <4>2. QED  BY <4>1, <3>1 DEF DeckHas
    <3>8. ASSUME NEW r \in Calls, SetOf(r, TheDeck)' PROVE DeckHas(p, i, call[r].out)'
      <4>1. r # p /\ SetOf(r, TheDeck)  BY <3>8, <2>3, <1>12, <1>13
      <4>2. Unended(k) => call'[r].out.acts[k] = i  BY <4>1, <3>1, <3>2, <2>3, <1>1 DEF Settled
      <4>3. ASSUME NEW d, d = call'[r].out PROVE DeckHas(p, i, d)'  BY <4>2, <4>3, <3>4
      <4>4. QED  BY <4>3 DEF DeckHas
    <3>9. QED  BY <3>5, <3>7, <3>8, <2>3
  <2>4. QED  BY <2>1, <2>2, <2>3, <1>1, <1>14 DEF LegalMarks
<1>15. (\A q \in Calls : Marked(q, call[q]) =>
           /\ DeckHas(q, call[q].id, Notes)
           /\ DeckHas(q, call[q].id, IF Noting(q) THEN call[q].out ELSE store[TheDeck])
           /\ \A r \in Calls : SetOf(r, TheDeck) /\ (Noting(q) => After(q, r))
                 => DeckHas(q, call[q].id, call[r].out))'
  <2> SUFFICES ASSUME NEW q \in Calls, Marked(q, call[q])'
               PROVE  (/\ DeckHas(q, call[q].id, Notes)
                       /\ DeckHas(q, call[q].id, IF Noting(q) THEN call[q].out ELSE store[TheDeck])
                       /\ \A r \in Calls : SetOf(r, TheDeck) /\ (Noting(q) => After(q, r))
                             => DeckHas(q, call[q].id, call[r].out))'
    OBVIOUS
  <2>1. PICK i \in Children \cup {None} : i = call'[q].id  BY <1>1, <1>7, <1>9
  <2>2. Marked(q, call'[q])  BY <1>8
  <2>3. /\ DeckHas(q, i, m.obj[1])'
        /\ DeckHas(q, i, IF Noting(q) THEN call[q].out ELSE store[TheDeck])'
        /\ \A r \in Calls : SetOf(r, TheDeck)' /\ (Noting(q)' => After(q, r)') => DeckHas(q, i, call[r].out)'
    BY <2>1, <2>2, <1>14
  <2>4. DeckHas(q, i, Notes)'
    <3>1. ASSUME NEW d, d = m.obj[1] PROVE DeckHas(q, i, d)'  BY <3>1, <2>3 DEF DeckHas
    <3>2. QED  BY <3>1, <1>2 DEF DeckHas
  <2>5. QED  BY <2>1, <2>3, <2>4 DEF DeckHas
<1>16. ASSUME NEW k \in Keys, Unended(k)', m.obj[1].acts[k] # None
       PROVE  (\E q \in Calls : Is(q, "start") /\ Key(q) = k /\ Noting(q)') \/ Settled(k)'
  <2>1. ~Removes(p, m, c, k)  BY <1>16 DEF Removes
  <2>2. CASE Enters(p, m, c, k)
    <3>1. call[p].pc = "made" /\ c.pc = "noted" /\ Key(p) = k  BY <2>2 DEF Enters
    <3>2. Is(p, "start")  BY <3>1, <1>1 DEF CallOK, Does, OfStart
    <3>3. Noting(p)'  BY <3>1, <1>10 DEF LegalTurn, CallOK, Commanded
    <3>4. QED  BY <3>1, <3>2, <3>3, <1>1
  <2>3. CASE m.obj[1].acts[k] = Notes.acts[k]
    <3>1. Unended(k) /\ Notes.acts[k] # None  BY <2>3, <1>4, <1>16
    <3>2. CASE \E q \in Calls : Is(q, "start") /\ Key(q) = k /\ Noting(q)
      BY <3>2, <1>11, <1>12
    <3>3. CASE Settled(k)
      <4>1. store'[TheDeck].acts[k] = Notes'.acts[k]  BY <3>3, <2>3, <1>1, <1>2 DEF Settled
      <4>2. \A q \in Calls : SetOf(q, TheDeck)' => call'[q].out.acts[k] = Notes'.acts[k]
        BY <3>3, <2>3, <1>1, <1>2, <1>12, <1>13 DEF Settled
      <4>3. QED  BY <4>1, <4>2 DEF Settled
    <3>4. QED  BY <3>1, <3>2, <3>3 DEF DeckFacts
  <2>4. QED  BY <2>1, <2>2, <2>3 DEF LegalNotes
<1>17. (\A k \in Keys : Unended(k) /\ Notes.acts[k] # None =>
            (\E q \in Calls : Is(q, "start") /\ Key(q) = k /\ Noting(q)) \/ Settled(k))'
  BY <1>1, <1>2, <1>16 DEF Is, Key
<1>18. QED  BY <1>15, <1>17 DEF DeckFacts

LEMMA ChildFactsKept ==
    ASSUME Sheltered, Typed, Wire, Names, Memory, Memory', ChildFacts, \A q \in Calls : CallOK(q, call[q]),
           \A q \in Calls : CallOK(q, call[q])', Typed', NEW p \in Used, NEW m \in MemRec,
           NEW c \in CallRec, NEW wakes, Moved(p, m, c, wakes), LegalTurn(p, m, c, wakes),
           LegalSlots(p, m, c), LegalObjects(p, m, c), LegalNames(p, m, c), LegalSends(p, m, c),
           LegalMarks(p, m, c)
    PROVE  ChildFacts'
<1>1. /\ scene' = scene /\ store' = store /\ p \in Calls /\ ~InSent(p)
      /\ \A q \in Calls : call'[q] = IF q = p THEN c ELSE call[q]
      /\ \A q : InSent(q)' <=> InSent(q) \/ (q = p /\ c.cmd # "none")
      /\ \A q, r : After(q, r)' <=> After(q, r) \/ (InSent(q) /\ r = p /\ c.cmd # "none")
      /\ \A q, r : After(q, r) => InSent(q) /\ InSent(r) /\ q # p /\ r # p
      /\ call \in [Calls -> CallRec]
  BY StepFacts DEF Used
<1>2. TheDeck \notin Children /\ None \notin Children /\ None \notin Objects /\ None \notin Child
      /\ made \in Nat /\ \A i \in Children : i \in Nat
  BY ConstantFacts DEF Typed
<1>3. \A i \in Children, o \in Objects : RefOf(i, o)' =>
        /\ o # 1 /\ Obj(o)' = m.obj[o]
        /\ RefOf(i, o) \/ i = made + 1
  BY RefsKept, ObjectsKept
<1>4. \A q \in Calls : Entered(q, call[q]) => call[q].id \in Children /\ call[q].id <= made
  <2> SUFFICES ASSUME NEW q \in Calls, Entered(q, call[q])
               PROVE  call[q].id \in Children /\ call[q].id <= made
    OBVIOUS
  <2>1. call[q].id # None  BY DEF Entered, Is, CallOK, Holding, Named
  <2>2. QED  BY <2>1, <1>1, CallFields DEF Names
<1>5. ~Handing(p) /\ \A i : ~SetOf(p, i)  BY <1>1 DEF Handing, SetOf
<1>6. Handing(p)' <=> c.pc = "token" /\ c.cmd # "none"  BY <1>1 DEF Handing
<1>7. \A q \in Calls, i \in Children :
         q # p => (Handing(q)' <=> Handing(q)) /\ (SetOf(q, i)' <=> SetOf(q, i))
  BY <1>1 DEF Handing, SetOf
<1>8. ASSUME NEW q \in Calls, Entered(q, call'[q])
      PROVE  \E i \in Children :
                /\ i = call'[q].id
                /\ \A o \in Objects : RefOf(i, o)' => Student(q) \in Obj(o)'.tokens
                /\ HasToken(q, IF Handing(q)' THEN call'[q].out ELSE store'[i])
                /\ \A r \in Calls : SetOf(r, i)' /\ r # p /\ (Handing(q)' => After(q, r)')
                      => Student(q) \in call'[r].out.tokens
  <2>1. CASE q # p \/ (Entered(p, call[p]) /\ c.id = call[p].id /\ c.cmd = "none")
    <3>1. Entered(q, call[q]) /\ call'[q].id = call[q].id  BY <2>1, <1>1, <1>8
    <3>2. PICK i \in Children : i = call[q].id /\ i <= made  BY <3>1, <1>4
    <3>3. /\ \A o \in Objects : RefOf(i, o) => Student(q) \in Obj(o).tokens
          /\ HasToken(q, IF Handing(q) THEN call[q].out ELSE store[i])
          /\ \A r \in Calls : SetOf(r, i) /\ (Handing(q) => After(q, r)) => Student(q) \in call[r].out.tokens
      BY <3>1, <3>2 DEF ChildFacts
    <3>4. Handing(q)' <=> Handing(q)  BY <2>1, <1>5, <1>6, <1>7
    <3>5. ASSUME NEW o \in Objects, RefOf(i, o)' PROVE Student(q) \in Obj(o)'.tokens
      <4>1. RefOf(i, o) /\ o # 1 /\ Obj(o)' = m.obj[o]  BY <3>2, <3>5, <1>2, <1>3
      <4>2. Obj(o) # None /\ Student(q) \in Obj(o).tokens  BY <4>1, <3>3, <1>2 DEF Memory
      <4>3. QED  BY <4>1, <4>2 DEF LegalObjects
    <3>6. HasToken(q, IF Handing(q)' THEN call'[q].out ELSE store'[i])
      BY <3>3, <3>4, <1>1, <1>5
    <3>7. ASSUME NEW r \in Calls, SetOf(r, i)', r # p, Handing(q)' => After(q, r)'
          PROVE  Student(q) \in call'[r].out.tokens
      BY <3>3, <3>4, <3>7, <1>1, <1>7
    <3>8. QED  BY <3>1, <3>2, <3>5, <3>6, <3>7
  <2>2. CASE q = p /\ c.pc = "token" /\ Student(p) \in m.obj[c.kid].tokens
    <3>1. c.cmd = "set" /\ c.on = c.id /\ c.kid # None /\ c.id # None
      BY <2>2 DEF LegalTurn, CallOK, Commanded, Holding, Named
    <3>2. PICK i \in Children, u \in Objects : i = c.id /\ u = c.kid  BY <3>1, CallFields
    <3>3. c.out = m.obj[u]  BY <3>1, <3>2, <1>2 DEF LegalSends
    <3>4. RefOf(i, u)'  BY <3>2, <1>1 DEF RefOf
    <3>5. ASSUME NEW o \in Objects, RefOf(i, o)' PROVE Student(q) \in Obj(o)'.tokens
      <4>1. o = u  BY <3>4, <3>5 DEF Memory
      <4>2. Obj(o)' = m.obj[o]  BY <3>5, <1>3
      <4>3. QED  BY <4>1, <4>2, <3>2, <2>2
    <3>6. Handing(p)' /\ call'[p].out = m.obj[u]  BY <3>1, <3>3, <2>2, <1>1, <1>6
    <3>7. HasToken(q, IF Handing(q)' THEN call'[q].out ELSE store'[i])
      BY <3>2, <3>6, <2>2 DEF HasToken
    <3>8. \A r \in Calls : r # p => ~After(p, r)'  BY <1>1
    <3>9. QED  BY <3>2, <3>5, <3>6, <3>7, <3>8, <2>2, <1>1
  <2>3. QED  BY <2>1, <2>2, <1>1, <1>8 DEF LegalMarks
<1>9. ASSUME NEW q \in Calls, NEW i \in Children, SetOf(p, i)',
             \A o \in Objects : RefOf(i, o)' => Student(q) \in Obj(o)'.tokens
      PROVE  Student(q) \in call'[p].out.tokens
  <2>1. c.cmd = "set" /\ c.on = i  BY <1>1, <1>9 DEF SetOf
  <2>2. c.id = i /\ c.kid # None /\ c.out = m.obj[c.kid]  BY <2>1, <1>2 DEF LegalSends
  <2>3. PICK o \in Objects : o = c.kid  BY <2>2, CallFields
  <2>4. RefOf(i, o)'  BY <2>2, <2>3, <1>1 DEF RefOf
  <2>5. Obj(o)' = m.obj[o]  BY <2>4, <1>3
  <2>6. QED  BY <2>2, <2>3, <2>4, <2>5, <1>1, <1>9
<1>10. (\A q \in Calls : Entered(q, call[q]) =>
          /\ \A o \in Objects : RefOf(call[q].id, o) => Student(q) \in Obj(o).tokens
          /\ HasToken(q, IF Handing(q) THEN call[q].out ELSE store[call[q].id])
          /\ \A r \in Calls : SetOf(r, call[q].id) /\ (Handing(q) => After(q, r))
                => Student(q) \in call[r].out.tokens)'
  <2> SUFFICES ASSUME NEW q \in Calls, Entered(q, call[q])'
      PROVE (/\ \A o \in Objects : RefOf(call[q].id, o) => Student(q) \in Obj(o).tokens
             /\ HasToken(q, IF Handing(q) THEN call[q].out ELSE store[call[q].id])
             /\ \A r \in Calls : SetOf(r, call[q].id) /\ (Handing(q) => After(q, r))
                   => Student(q) \in call[r].out.tokens)'
    OBVIOUS
  <2>1. Entered(q, call'[q])  BY <1>1 DEF Entered, Is
  <2>2. PICK i \in Children :
                /\ i = call'[q].id
                /\ \A o \in Objects : RefOf(i, o)' => Student(q) \in Obj(o)'.tokens
                /\ HasToken(q, IF Handing(q)' THEN call'[q].out ELSE store'[i])
                /\ \A r \in Calls : SetOf(r, i)' /\ r # p /\ (Handing(q)' => After(q, r)')
                      => Student(q) \in call'[r].out.tokens
    BY <2>1, <1>8
  <2>3. Student(q)' = Student(q)  BY <1>1 DEF Student
  <2>4. \A r \in Calls : SetOf(r, i)' /\ (Handing(q)' => After(q, r)') => Student(q) \in call'[r].out.tokens
    <3> SUFFICES ASSUME NEW r \in Calls, SetOf(r, i)', Handing(q)' => After(q, r)'
                 PROVE  Student(q) \in call'[r].out.tokens
      OBVIOUS
    <3>1. CASE r = p
      <4>1. SetOf(p, i)'  BY <3>1 DEF SetOf
      <4>2. QED  BY <4>1, <3>1, <2>2, <1>9
    <3>2. CASE r # p  BY <3>2, <2>2
    <3>3. QED  BY <3>1, <3>2
  <2>5. (\A o \in Objects : RefOf(call[q].id, o) => Student(q) \in Obj(o).tokens)'
    BY <2>2, <2>3 DEF RefOf, Slot
  <2>6. HasToken(q, IF Handing(q) THEN call[q].out ELSE store[call[q].id])'
    <3> DEFINE v == IF Handing(q)' THEN call'[q].out ELSE store'[i]
    <3>1. v = Gone \/ Student(q) \in v.tokens  BY <2>2 DEF HasToken
    <3>2. v = IF Handing(q)' THEN call'[q].out ELSE store'[call'[q].id]  BY <2>2
    <3> HIDE DEF v
    <3>3. QED  BY <3>1, <3>2, <2>3 DEF HasToken
  <2>7. (\A r \in Calls : SetOf(r, call[q].id) /\ (Handing(q) => After(q, r))
            => Student(q) \in call[r].out.tokens)'
    BY <2>2, <2>3, <2>4 DEF SetOf
  <2>8. QED  BY <2>5, <2>6, <2>7
<1>11. QED  BY <1>10 DEF ChildFacts

\* A step within these bounds keeps the invariant.
LEMMA SharedKept ==
    ASSUME Sheltered, Shared, NEW p \in Calls, NEW m \in MemRec, NEW c \in CallRec,
           NEW wakes \in SUBSET Calls, Becomes(p, m, c, wakes), Legal(p, m, c, wakes)
    PROVE  Shared'
<1>1. /\ Typed /\ (\A q \in Calls : CallOK(q, call[q])) /\ Wire /\ Lock /\ Memory /\ Names /\ Orders
      /\ Misses /\ DeckFacts /\ ChildFacts
  BY DEF Shared
<1>2. /\ LegalTurn(p, m, c, wakes) /\ LegalSlots(p, m, c) /\ LegalObjects(p, m, c)
      /\ LegalNames(p, m, c) /\ LegalNotes(p, m, c) /\ LegalSends(p, m, c)
      /\ LegalMarks(p, m, c) /\ LegalLine(p, m, c, wakes)
  BY DEF Legal
<1>3. p \in Used  BY <1>2 DEF LegalTurn
<1>4. ~InSent(p) /\ Once(conn[N].sent) /\ Once(conn[N].back)
  BY <1>1, <1>2, <1>3, TurnFacts DEF LegalTurn
<1>5. Moved(p, m, c, wakes)  BY <1>1, <1>3, <1>4, BecomesMoves
<1>6. Typed' /\ (\A q \in Calls : CallOK(q, call[q])')  BY <1>1, <1>2, <1>3, <1>5, TypedKept, CallsKept
<1>7. Wire'  BY <1>1, <1>2, <1>3, <1>5, WireKept
<1>8. Lock'  BY <1>1, <1>2, <1>3, <1>5, LockKept
<1>9. Memory'  BY <1>1, <1>2, <1>3, <1>5, <1>6, MemoryKept
<1>10. Names'  BY <1>1, <1>2, <1>3, <1>5, <1>6, NamesKept
<1>11. Orders'  BY <1>1, <1>2, <1>3, <1>5, <1>6, <1>9, OrdersKept
<1>12. Misses'  BY <1>1, <1>2, <1>3, <1>5, MissesKept
<1>13. DeckFacts'  BY <1>1, <1>2, <1>3, <1>5, <1>6, DeckFactsKept
<1>14. ChildFacts'  BY <1>1, <1>2, <1>3, <1>5, <1>6, <1>9, ChildFactsKept
<1>15. QED  BY <1>6, <1>7, <1>8, <1>9, <1>10, <1>11, <1>12, <1>13, <1>14 DEF Shared
-----------------------------------------------------------------------------
(* The steps of the handlers                                               *)

\* The call whose turn it is, as a handler sees it.
LEMMA SharedFacts ==
    ASSUME Sheltered, Shared, NEW p \in Calls
    PROVE  /\ Typed /\ Wire /\ Lock /\ Memory /\ Names /\ Misses /\ DeckFacts /\ ChildFacts
           /\ CallOK(p, call[p]) /\ call[p] \in CallRec /\ mem[N] \in MemRec
           /\ Notes \in Deck /\ Notes = mem[N].obj[1] /\ Slot(TheDeck) = 1 /\ Owner(TheDeck) = None
           /\ \A i : Slot(i) = mem[N].slot[i] /\ Owner(i) = mem[N].owner[i]
           /\ \A o : Obj(o) = mem[N].obj[o]
           /\ \A k : Line(k) = mem[N].queue[k]
           /\ Key(p) \in Keys /\ Student(p) \in Students
           /\ (Is(p, "none") \/ Is(p, "start") \/ Is(p, "end") \/ Is(p, "join")
                  \/ Is(p, "watch") \/ Is(p, "entry") \/ Is(p, "update"))
           /\ made \in Nat /\ scene \in Scenes
<1>1. Typed /\ Wire /\ Lock /\ Memory /\ Names /\ Misses /\ DeckFacts /\ ChildFacts /\ CallOK(p, call[p])
  BY DEF Shared
<1>2. Notes \in Deck /\ Slot(TheDeck) = 1 /\ Owner(TheDeck) = None  BY <1>1 DEF Memory
<1>3. made \in Nat /\ scene \in Scenes  BY <1>1, ConstantFacts DEF Typed
<1>4. Notes = mem[N].obj[1] /\ (\A i : Slot(i) = mem[N].slot[i] /\ Owner(i) = mem[N].owner[i])
      /\ (\A o : Obj(o) = mem[N].obj[o]) /\ (\A k : Line(k) = mem[N].queue[k])
  BY DEF Slot, Owner, Obj, Notes, Line
<1>5. /\ Key(p) \in Keys /\ Student(p) \in Students
      /\ (Is(p, "none") \/ Is(p, "start") \/ Is(p, "end") \/ Is(p, "join")
                  \/ Is(p, "watch") \/ Is(p, "entry") \/ Is(p, "update"))
  BY <1>3, OneHome DEF Is
<1>6. QED  BY <1>1, <1>2, <1>3, <1>4, <1>5, CallFacts

LEMMA Turns ==
    ASSUME Sheltered, Shared, NEW p \in Calls, NEW step, step # "done", At_(p, step)
    PROVE  /\ p \in Used /\ p \in Ready /\ call[p].pc = step /\ At[p] = N
           /\ M(p) = mem[N] /\ C(p) = call[p] /\ ~InSent(p) /\ ~InBack(p)
<1>1. call[p].pc = step /\ p \in conn[At[p]].ready  BY DEF At_
<1>2. p \in Used  BY <1>1, SharedFacts DEF Used, CallOK, Does
<1>3. At[p] = N  BY <1>2, SharedFacts, OneHome
<1>4. p \in Ready  BY <1>1, <1>3 DEF Ready
<1>5. QED  BY <1>1, <1>2, <1>3, <1>4, SharedFacts DEF M, C, Wire

\* The memory as a handler goes on with it: no object was touched, and a child's slot at most
\* got the object that the call holds.
Plain(p, m) ==
    /\ m \in MemRec /\ m.queue = mem[N].queue /\ m.obj = mem[N].obj
    /\ \A i \in Ids : m.slot[i] = Slot(i) \/ (/\ i \in Children /\ call[p].id = i
                                              /\ call[p].kid # None /\ m.slot[i] = call[p].kid)
    /\ m.owner[TheDeck] = None
    /\ \A i \in Children : m.owner[i] # None => m.slot[i] = None
    /\ call[p].pc = "made" => m.slot[call[p].id] # None

Filled(m, i, h, x) == [m EXCEPT !.slot[i] = h, !.owner[i] = x]
LEMMA SlotFilled ==
    ASSUME NEW m \in MemRec, NEW i \in Ids, NEW h \in Objects \cup {None}, NEW x \in Calls \cup {None}
    PROVE  LET w == Filled(m, i, h, x) IN
           /\ w \in MemRec /\ w.queue = m.queue /\ w.obj = m.obj
           /\ \A j \in Ids : /\ w.slot[j] = IF j = i THEN h ELSE m.slot[j]
                             /\ w.owner[j] = IF j = i THEN x ELSE m.owner[j]
<1>1. /\ m.slot \in [Ids -> Objects \cup {None}] /\ m.owner \in [Ids -> Calls \cup {None}]
      /\ m.obj \in [Objects -> Deck \cup Child \cup {None}] /\ m.queue \in [Keys -> Seq(Calls)]
  BY MemFields
<1> DEFINE w == Filled(m, i, h, x)
           s == [m.slot EXCEPT ![i] = h]
           u == [m.owner EXCEPT ![i] = x]
<1>2. w = [m EXCEPT !.slot = s, !.owner = u]  BY DEF Filled
<1>3. s \in [Ids -> Objects \cup {None}] /\ u \in [Ids -> Calls \cup {None}]
      /\ \A j \in Ids : /\ s[j] = IF j = i THEN h ELSE m.slot[j]
                        /\ u[j] = IF j = i THEN x ELSE m.owner[j]
  BY <1>1
<1> HIDE DEF s, u, w
<1>4. w.slot = s /\ w.owner = u /\ w.queue = m.queue /\ w.obj = m.obj
  BY <1>2 DEF MemRec
<1>5. w = [obj |-> m.obj, slot |-> s, owner |-> u, queue |-> m.queue]
  BY <1>2 DEF MemRec
<1>6. w \in MemRec  BY <1>1, <1>3, <1>5 DEF MemRec
<1>7. QED  BY <1>3, <1>4, <1>6 DEF w

LEMMA PlainIsLegal ==
    ASSUME Sheltered, Shared, NEW p \in Calls, NEW m, Plain(p, m), NEW c,
           c.pc # "made", c.kid = None \/ (c.id = call[p].id /\ c.kid = call[p].kid)
                               \/ (c.kid = Slot(c.id) /\ c.id \in Children)
    PROVE  LegalSlots(p, m, c) /\ LegalObjects(p, m, c) /\ LegalNotes(p, m, c) /\ m.obj[1] = Notes
           /\ m \in MemRec
<1>1. Notes = mem[N].obj[1] /\ Notes \in Deck /\ \A o : Obj(o) = mem[N].obj[o]  BY SharedFacts
<1>2. m.obj[1] = Notes  BY <1>1 DEF Plain
<1>3. QED  BY <1>1, <1>2 DEF Plain, LegalSlots, LegalObjects, LegalNotes

LEMMA PlainMemory ==
    ASSUME Sheltered, Shared, NEW p \in Calls, call[p].pc # "made"
    PROVE  Plain(p, mem[N])
  BY SharedFacts DEF Plain, Memory

LEMMA PlainSaved ==
    ASSUME Sheltered, Shared, NEW p \in Calls, NEW step, At_(p, step),
           step \in {"noted", "made", "greeted", "minted", "token"}
    PROVE  /\ Plain(p, Saved(p)) /\ SetOK(p)
           /\ step # "noted" => Saved(p).slot[call[p].id] = call[p].kid
           /\ step = "noted" => \A i \in Ids : Saved(p).slot[i] = Slot(i)
<1>1. p \in Used /\ p \in Ready /\ call[p].pc = step /\ At[p] = N  BY Turns
<1>2. call[p] \in CallRec /\ CallOK(p, call[p]) /\ mem[N] \in MemRec /\ Memory
      /\ \A i : Slot(i) = mem[N].slot[i] /\ Owner(i) = mem[N].owner[i]
  BY SharedFacts
<1>3. SetOK(p)  BY <1>2, CallFields, ConstantFacts DEF SetOK
<1> DEFINE i == call[p].on
           h == Held(call[p], i)
<1>4. Saved(p) = [mem[N] EXCEPT !.slot[i] = h, !.owner[i] = None]  BY <1>1 DEF Saved
<1>5. CASE step = "noted"
  <2>1. i = TheDeck /\ h = 1 /\ i \in Ids /\ 1 \in Objects
    BY <1>1, <1>2, <1>5, ConstantFacts DEF CallOK, Commanded, Holding, Held
  <2> HIDE DEF i, h
  <2>2. /\ Saved(p) \in MemRec /\ Saved(p).queue = mem[N].queue /\ Saved(p).obj = mem[N].obj
        /\ \A j \in Ids : /\ Saved(p).slot[j] = IF j = i THEN h ELSE mem[N].slot[j]
                          /\ Saved(p).owner[j] = IF j = i THEN None ELSE mem[N].owner[j]
    <3>1. PICK m \in MemRec : m = mem[N]  BY <1>2
    <3>2. PICK j \in Ids : j = i  BY <1>2, <2>1
    <3>3. PICK o \in Objects \cup {None} : o = h  BY <1>2, <2>1
    <3>4. PICK x \in Calls \cup {None} : x = None  OBVIOUS
    <3>5. PICK w : w = Saved(p)  OBVIOUS
    <3>6. w = Filled(m, j, o, x)  BY <1>4, <3>1, <3>2, <3>3, <3>4, <3>5 DEF Filled
    <3>7. /\ w \in MemRec /\ w.queue = m.queue /\ w.obj = m.obj
          /\ \A k \in Ids : /\ w.slot[k] = IF k = j THEN o ELSE m.slot[k]
                            /\ w.owner[k] = IF k = j THEN x ELSE m.owner[k]
      BY <3>6, SlotFilled
    <3>8. QED  BY <3>1, <3>2, <3>3, <3>4, <3>5, <3>7
  <2>3. QED  BY <1>1, <1>2, <1>3, <1>5, <2>1, <2>2, ConstantFacts DEF Plain, Memory
<1>6. CASE step # "noted"
  <2>1. i = call[p].id /\ call[p].kid # None /\ call[p].id # None
    BY <1>1, <1>2, <1>6 DEF CallOK, Commanded, Holding
  <2>2. i \in Children /\ i \in Ids /\ call[p].kid \in Objects /\ i # TheDeck
    BY <2>1, <1>2, CallFields, ConstantFacts
  <2>3. h = call[p].kid  BY <2>1, <2>2 DEF Held
  <2> HIDE DEF i, h
  <2>4. /\ Saved(p) \in MemRec /\ Saved(p).queue = mem[N].queue /\ Saved(p).obj = mem[N].obj
        /\ \A j \in Ids : /\ Saved(p).slot[j] = IF j = i THEN h ELSE mem[N].slot[j]
                          /\ Saved(p).owner[j] = IF j = i THEN None ELSE mem[N].owner[j]
    <3>1. PICK m \in MemRec : m = mem[N]  BY <1>2
    <3>2. PICK j \in Ids : j = i  BY <1>2, <2>2, <2>3
    <3>3. PICK o \in Objects \cup {None} : o = h  BY <1>2, <2>2, <2>3
    <3>4. PICK x \in Calls \cup {None} : x = None  OBVIOUS
    <3>5. PICK w : w = Saved(p)  OBVIOUS
    <3>6. w = Filled(m, j, o, x)  BY <1>4, <3>1, <3>2, <3>3, <3>4, <3>5 DEF Filled
    <3>7. /\ w \in MemRec /\ w.queue = m.queue /\ w.obj = m.obj
          /\ \A k \in Ids : /\ w.slot[k] = IF k = j THEN o ELSE m.slot[k]
                            /\ w.owner[k] = IF k = j THEN x ELSE m.owner[k]
      BY <3>6, SlotFilled
    <3>8. QED  BY <3>1, <3>2, <3>3, <3>4, <3>5, <3>7
  <2>5. QED  BY <1>1, <1>2, <1>3, <1>6, <2>1, <2>2, <2>3, <2>4, ConstantFacts DEF Plain, Memory
<1>7. QED  BY <1>5, <1>6

LEMMA PlainLoaded ==
    ASSUME Sheltered, Shared, NEW p \in Calls, NEW step, At_(p, step), step \in Fetches \cup {"existing"}
    PROVE  /\ Plain(p, Loaded(p, call[p].id).mem)
           /\ Loaded(p, call[p].id).at = call[p].kid
           /\ call[p].kid # None => /\ Loaded(p, call[p].id).mem = mem[N]
                                    /\ Slot(call[p].id) = call[p].kid
                                    /\ call[p].id \in Children /\ call[p].kid \in Objects
<1>1. p \in Used /\ p \in Ready /\ call[p].pc = step /\ At[p] = N /\ ~InSent(p)  BY Turns DEF Fetches
<1>2. call[p] \in CallRec /\ CallOK(p, call[p]) /\ mem[N] \in MemRec /\ Memory /\ Wire /\ Misses
      /\ \A i : Slot(i) = mem[N].slot[i] /\ Owner(i) = mem[N].owner[i]
  BY SharedFacts
<1>3. call[p].id # None  BY <1>1, <1>2 DEF CallOK, Holding, Named, Fetches
<1>4. PICK i \in Children : i = call[p].id  BY <1>2, <1>3, CallFields
<1>5. i \in Ids /\ i # TheDeck  BY ConstantFacts
<1>6. CASE call[p].cmd = "none"
  <2>1. Hit(call[p])  BY <1>1, <1>6 DEF Hit
  <2>2. Slot(i) = call[p].kid /\ call[p].kid # None
    BY <2>1, <1>1, <1>2, <1>4, <1>6 DEF Wire, CallOK, Commanded, Holding, Fetches
  <2>3. Loaded(p, i) = [mem |-> mem[N], at |-> call[p].kid]  BY <1>1, <1>5, <1>6 DEF Loaded, Held
  <2>4. call[p].kid \in Objects  BY <2>2, <1>2, CallFields
  <2>5. Plain(p, mem[N])  BY PlainMemory, <1>1 DEF Fetches
  <2>6. QED  BY <2>2, <2>3, <2>4, <2>5, <1>4
<1>7. CASE call[p].cmd = "get" /\ call[p].kid = None
  <2>1. call[p].got = Gone  BY <1>1, <1>2, <1>7 DEF Misses
  <2> DEFINE m == Published(mem[N], i, None, p)
  <2>2. Loaded(p, i) = [mem |-> m, at |-> None]  BY <2>1, <1>1, <1>7 DEF Loaded
  <2>3. m \in MemRec /\ m.queue = mem[N].queue /\ m.obj = mem[N].obj
        /\ \A j \in Ids : \/ m.slot[j] = mem[N].slot[j] /\ m.owner[j] = mem[N].owner[j]
                          \/ j = i /\ m.slot[j] = None /\ m.owner[j] = None /\ mem[N].owner[j] = p
    BY <1>2, <1>5 DEF Published, MemRec
  <2> HIDE DEF m
  <2>4. \A j \in Ids : m.slot[j] = Slot(j)
    BY <2>3, <1>2, <1>4, ConstantFacts DEF Memory
  <2>5. Plain(p, m)
    BY <2>3, <2>4, <1>1, <1>2, <1>5, ConstantFacts DEF Plain, Memory, Fetches
  <2>6. QED  BY <2>2, <2>5, <1>4, <1>7
<1>8. QED
  BY <1>1, <1>2, <1>6, <1>7 DEF CallOK, Commanded, Holding, Fetches

\* The deck is always in the cache, and every handler has it.
LEMMA DeckLoaded ==
    ASSUME Sheltered, Shared, NEW p \in Calls, NEW step, At_(p, step), step \in {"open", "locked"}
    PROVE  Loaded(p, TheDeck).mem = mem[N] /\ Loaded(p, TheDeck).at = 1
<1>1. call[p].pc = step /\ At[p] = N  BY Turns
<1>2. call[p].cmd = "none" /\ call[p].deck = 1  BY <1>1, SharedFacts DEF CallOK, Commanded, Holding
<1>3. QED  BY <1>1, <1>2 DEF Loaded, Held

\* What the handlers make of the state of a call.
Going(u, s)            == [u EXCEPT !.pc = s, !.cmd = "none"]
Waiting(u, s)          == [u EXCEPT !.pc = s, !.cmd = "touch"]
Fetching(u, i, s)      == [Holds(u, i, None) EXCEPT !.pc = s, !.cmd = "get", !.on = i]
Setting(u, i, o, v, s) == [Holds(u, i, o) EXCEPT !.pc = s, !.cmd = "set", !.on = i, !.out = v]
Dropping(u, ids, s)    == [u EXCEPT !.pc = s, !.cmd = "del", !.out = ids]
Naming(u, i)           == [u EXCEPT !.id = i]
Taking(u, t, i, k)     == [u EXCEPT !.todo = t, !.id = i, !.key = k]
Listing(u, t)          == [u EXCEPT !.todo = t]
Queueing(u)            == [u EXCEPT !.pc = "wait", !.cmd = "none", !.deck = None]
Handed(u, g)           == [u EXCEPT !.orig = g]
Answered(u, reply)     == [Calm EXCEPT !.pc = "done", !.reply = reply, !.id = u.id, !.undo = u.undo]

LEMMA GoingFields ==
    ASSUME NEW u \in CallRec, NEW s \in Steps
    PROVE  /\ Going(u, s) \in CallRec /\ Going(u, s).pc = s /\ Going(u, s).cmd = "none"
           /\ Going(u, s).deck = u.deck /\ Going(u, s).kid = u.kid /\ Going(u, s).id = u.id
           /\ Going(u, s).todo = u.todo /\ Going(u, s).reply = u.reply
<1>1p. PICK v : v = [u EXCEPT !.pc = s]  OBVIOUS
<1>1. v \in CallRec  BY <1>1p DEF CallRec, Steps
<1>2p. PICK w : w = [v EXCEPT !.cmd = "none"]  OBVIOUS
<1>2. w \in CallRec  BY <1>1, <1>2p DEF CallRec, Steps
<1>3. Going(u, s) = w  BY <1>1, <1>1p, <1>2, <1>2p, Zenon DEF Going
<1>4. v.pc = s /\ v.deck = u.deck /\ v.kid = u.kid /\ v.id = u.id /\ v.todo = u.todo /\ v.reply = u.reply
  BY <1>1, <1>1p DEF CallRec
<1>5. w.pc = v.pc /\ w.cmd = "none" /\ w.deck = v.deck /\ w.kid = v.kid /\ w.id = v.id /\ w.todo = v.todo
      /\ w.reply = v.reply
  BY <1>1, <1>2, <1>2p DEF CallRec
<1>6. QED  BY <1>3, <1>4, <1>5, <1>1, <1>2

LEMMA WaitingFields ==
    ASSUME NEW u \in CallRec, NEW s \in Steps
    PROVE  /\ Waiting(u, s) \in CallRec /\ Waiting(u, s).pc = s /\ Waiting(u, s).cmd = "touch"
           /\ Waiting(u, s).deck = u.deck /\ Waiting(u, s).kid = u.kid /\ Waiting(u, s).id = u.id
           /\ Waiting(u, s).todo = u.todo /\ Waiting(u, s).reply = u.reply
<1>1p. PICK v : v = [u EXCEPT !.pc = s]  OBVIOUS
<1>1. v \in CallRec  BY <1>1p DEF CallRec, Steps
<1>2p. PICK w : w = [v EXCEPT !.cmd = "touch"]  OBVIOUS
<1>2. w \in CallRec  BY <1>1, <1>2p DEF CallRec, Steps
<1>3. Waiting(u, s) = w  BY <1>1, <1>1p, <1>2, <1>2p, Zenon DEF Waiting
<1>4. v.pc = s /\ v.deck = u.deck /\ v.kid = u.kid /\ v.id = u.id /\ v.todo = u.todo /\ v.reply = u.reply
  BY <1>1, <1>1p DEF CallRec
<1>5. w.pc = v.pc /\ w.cmd = "touch" /\ w.deck = v.deck /\ w.kid = v.kid /\ w.id = v.id /\ w.todo = v.todo
      /\ w.reply = v.reply
  BY <1>1, <1>2, <1>2p DEF CallRec
<1>6. QED  BY <1>3, <1>4, <1>5, <1>1, <1>2

LEMMA HoldsFields ==
    ASSUME NEW u \in CallRec, NEW o
    PROVE  /\ o \in {1, None} =>
                LET v == Holds(u, TheDeck, o)
                IN  /\ v \in CallRec /\ v.deck = o /\ v.kid = u.kid /\ v.id = u.id /\ v.todo = u.todo
                    /\ v.reply = u.reply
           /\ \A i \in Children : o \in (Objects \ {1}) \cup {None} =>
                LET v == Holds(u, i, o)
                IN  /\ v \in CallRec /\ v.deck = u.deck /\ v.kid = o /\ v.id = u.id /\ v.todo = u.todo
                    /\ v.reply = u.reply
<1>1. ASSUME o \in {1, None}
      PROVE  LET v == Holds(u, TheDeck, o)
             IN  /\ v \in CallRec /\ v.deck = o /\ v.kid = u.kid /\ v.id = u.id /\ v.todo = u.todo
                 /\ v.reply = u.reply
  <2>1p. PICK v : v = [u EXCEPT !.deck = o]  OBVIOUS
  <2>1. v \in CallRec  BY <2>1p, <1>1 DEF CallRec, Steps
  <2>2. Holds(u, TheDeck, o) = v  BY <2>1, <2>1p, Zenon DEF Holds
  <2>3. v.deck = o /\ v.kid = u.kid /\ v.id = u.id /\ v.todo = u.todo /\ v.reply = u.reply
    BY <2>1, <2>1p DEF CallRec
  <2>4. QED  BY <2>2, <2>3, <2>1
<1>2. ASSUME NEW i \in Children, o \in (Objects \ {1}) \cup {None}
      PROVE  LET v == Holds(u, i, o)
             IN  /\ v \in CallRec /\ v.deck = u.deck /\ v.kid = o /\ v.id = u.id /\ v.todo = u.todo
                 /\ v.reply = u.reply
  <2>1p. PICK v : v = [u EXCEPT !.kid = o]  OBVIOUS
  <2>1. v \in CallRec  BY <2>1p, <1>2 DEF CallRec, Steps
  <2>2. i # TheDeck  BY ConstantFacts
  <2>3. Holds(u, i, o) = v  BY <2>1, <2>1p, <2>2, Zenon DEF Holds
  <2>4. v.deck = u.deck /\ v.kid = o /\ v.id = u.id /\ v.todo = u.todo /\ v.reply = u.reply
    BY <2>1, <2>1p DEF CallRec
  <2>5. QED  BY <2>3, <2>4, <2>1
<1>3. QED  BY <1>1, <1>2

LEMMA FetchingFields ==
    ASSUME NEW u \in CallRec, NEW i \in Children, NEW s \in Steps, NEW c, c = Fetching(u, i, s)
    PROVE  /\ c \in CallRec /\ c.pc = s /\ c.cmd = "get" /\ c.on = i /\ c.deck = u.deck /\ c.kid = None
           /\ c.id = u.id /\ c.todo = u.todo /\ c.reply = u.reply
<1>1. PICK v \in CallRec : /\ v = Holds(u, i, None)
                           /\ v.deck = u.deck /\ v.kid = None /\ v.id = u.id /\ v.todo = u.todo /\ v.reply = u.reply
  BY HoldsFields
<1>2p. PICK w : w = [v EXCEPT !.pc = s]  OBVIOUS
<1>2. w \in CallRec  BY <1>2p DEF CallRec, Steps
<1>3p. PICK x : x = [w EXCEPT !.cmd = "get"]  OBVIOUS
<1>3. x \in CallRec  BY <1>2, <1>3p DEF CallRec, Steps
<1>4. i \in Ids  BY ConstantFacts
<1>5p. PICK y : y = [x EXCEPT !.on = i]  OBVIOUS
<1>5. y \in CallRec  BY <1>3, <1>5p, <1>4 DEF CallRec, Steps
<1>6. c = y  BY <1>1, <1>2, <1>2p, <1>3, <1>3p, <1>5, <1>5p, Zenon DEF Fetching
<1>7. w.pc = s /\ w.deck = v.deck /\ w.kid = v.kid /\ w.id = v.id /\ w.todo = v.todo /\ w.reply = v.reply
  BY <1>2, <1>2p DEF CallRec
<1>8. /\ x.pc = w.pc /\ x.cmd = "get" /\ x.deck = w.deck /\ x.kid = w.kid /\ x.id = w.id
      /\ x.todo = w.todo /\ x.reply = w.reply
  BY <1>2, <1>3, <1>3p DEF CallRec
<1>9. /\ y.pc = x.pc /\ y.cmd = x.cmd /\ y.on = i /\ y.deck = x.deck /\ y.kid = x.kid /\ y.id = x.id
      /\ y.todo = x.todo /\ y.reply = x.reply
  BY <1>3, <1>5, <1>5p DEF CallRec
<1>10. QED  BY <1>1, <1>6, <1>7, <1>8, <1>9, <1>2, <1>3, <1>5

LEMMA SettingFields ==
    ASSUME NEW u \in CallRec, NEW i \in Ids, NEW o, NEW x \in Deck \cup Child, NEW s \in Steps,
           IF i = TheDeck THEN o = 1 ELSE o \in Objects /\ o # 1, NEW c, c = Setting(u, i, o, x, s)
    PROVE  /\ c \in CallRec /\ c.pc = s /\ c.cmd = "set" /\ c.on = i /\ c.out = x
           /\ c.deck = IF i = TheDeck THEN 1 ELSE u.deck
           /\ c.kid = IF i = TheDeck THEN u.kid ELSE o
           /\ c.id = u.id /\ c.todo = u.todo /\ c.reply = u.reply
<1>1. PICK v \in CallRec : /\ v = Holds(u, i, o)
                           /\ v.deck = IF i = TheDeck THEN 1 ELSE u.deck
                           /\ v.kid = IF i = TheDeck THEN u.kid ELSE o
                           /\ v.id = u.id /\ v.todo = u.todo /\ v.reply = u.reply
  <2>1. CASE i = TheDeck
    <3>1. Holds(u, TheDeck, o) \in CallRec /\ Holds(u, TheDeck, o).deck = 1 /\ Holds(u, TheDeck, o).kid = u.kid
          /\ Holds(u, TheDeck, o).id = u.id /\ Holds(u, TheDeck, o).todo = u.todo
          /\ Holds(u, TheDeck, o).reply = u.reply
      BY <2>1, HoldsFields
    <3>2. QED  BY <3>1, <2>1
  <2>2. CASE i # TheDeck
    <3>1. i \in Children  BY <2>2, ConstantFacts
    <3>2. QED  BY <3>1, <2>2, HoldsFields
  <2>3. QED  BY <2>1, <2>2
<1>2p. PICK w : w = [v EXCEPT !.pc = s]  OBVIOUS
<1>2. w \in CallRec  BY <1>2p DEF CallRec, Steps
<1>3p. PICK y : y = [w EXCEPT !.cmd = "set"]  OBVIOUS
<1>3. y \in CallRec  BY <1>2, <1>3p DEF CallRec, Steps
<1>4p. PICK z : z = [y EXCEPT !.on = i]  OBVIOUS
<1>4. z \in CallRec  BY <1>3, <1>4p DEF CallRec, Steps
<1>5p. PICK a : a = [z EXCEPT !.out = x]  OBVIOUS
<1>5. a \in CallRec  BY <1>4, <1>5p DEF CallRec, Steps
<1>6. c = a  BY <1>1, <1>2, <1>2p, <1>3, <1>3p, <1>4, <1>4p, <1>5, <1>5p, Zenon DEF Setting
<1>7. w.pc = s /\ w.deck = v.deck /\ w.kid = v.kid /\ w.id = v.id /\ w.todo = v.todo /\ w.reply = v.reply
  BY <1>2, <1>2p DEF CallRec
<1>8. /\ y.pc = w.pc /\ y.cmd = "set" /\ y.deck = w.deck /\ y.kid = w.kid /\ y.id = w.id
      /\ y.todo = w.todo /\ y.reply = w.reply
  BY <1>2, <1>3, <1>3p DEF CallRec
<1>9. /\ z.pc = y.pc /\ z.cmd = y.cmd /\ z.on = i /\ z.deck = y.deck /\ z.kid = y.kid /\ z.id = y.id
      /\ z.todo = y.todo /\ z.reply = y.reply
  BY <1>3, <1>4, <1>4p DEF CallRec
<1>10. /\ a.pc = z.pc /\ a.cmd = z.cmd /\ a.on = z.on /\ a.out = x /\ a.deck = z.deck /\ a.kid = z.kid
       /\ a.id = z.id /\ a.todo = z.todo /\ a.reply = z.reply
  BY <1>4, <1>5, <1>5p DEF CallRec
<1>11. QED  BY <1>1, <1>6, <1>7, <1>8, <1>9, <1>10, <1>2, <1>3, <1>4, <1>5

LEMMA SettingChildFields ==
    ASSUME NEW u \in CallRec, NEW i \in Children, NEW o \in Objects, o # 1, NEW x \in Child,
           NEW s \in Steps, NEW c, c = Setting(u, i, o, x, s)
    PROVE  /\ c \in CallRec /\ c.pc = s /\ c.cmd = "set" /\ c.on = i /\ c.out = x
           /\ c.deck = u.deck /\ c.kid = o /\ c.id = u.id /\ c.todo = u.todo /\ c.reply = u.reply
<1>1. i \in Ids /\ i # TheDeck /\ x \in Deck \cup Child  BY ConstantFacts
<1>2. IF i = TheDeck THEN o = 1 ELSE o \in Objects /\ o # 1  BY <1>1
<1>3. QED  BY <1>1, <1>2, SettingFields

LEMMA DroppingFields ==
    ASSUME NEW u \in CallRec, NEW s \in Steps, NEW ids \in SUBSET Ids, NEW c, c = Dropping(u, ids, s)
    PROVE  /\ c \in CallRec /\ c.pc = s /\ c.cmd = "del" /\ c.out = ids /\ c.deck = u.deck /\ c.kid = u.kid
           /\ c.id = u.id /\ c.todo = u.todo /\ c.reply = u.reply
<1>1p. PICK v : v = [u EXCEPT !.pc = s]  OBVIOUS
<1>1. v \in CallRec  BY <1>1p DEF CallRec, Steps
<1>2p. PICK w : w = [v EXCEPT !.cmd = "del"]  OBVIOUS
<1>2. w \in CallRec  BY <1>1, <1>2p DEF CallRec, Steps
<1>3p. PICK x : x = [w EXCEPT !.out = ids]  OBVIOUS
<1>3. x \in CallRec  BY <1>2, <1>3p DEF CallRec, Steps
<1>4. c = x  BY <1>1, <1>1p, <1>2, <1>2p, <1>3, <1>3p, Zenon DEF Dropping
<1>5. v.pc = s /\ v.deck = u.deck /\ v.kid = u.kid /\ v.id = u.id /\ v.todo = u.todo /\ v.reply = u.reply
  BY <1>1, <1>1p DEF CallRec
<1>6. w.pc = v.pc /\ w.cmd = "del" /\ w.deck = v.deck /\ w.kid = v.kid /\ w.id = v.id /\ w.todo = v.todo
      /\ w.reply = v.reply
  BY <1>1, <1>2, <1>2p DEF CallRec
<1>7. /\ x.pc = w.pc /\ x.cmd = w.cmd /\ x.out = ids /\ x.deck = w.deck /\ x.kid = w.kid /\ x.id = w.id
      /\ x.todo = w.todo /\ x.reply = w.reply
  BY <1>2, <1>3, <1>3p DEF CallRec
<1>8. QED  BY <1>4, <1>5, <1>6, <1>7, <1>1, <1>2, <1>3

LEMMA NamingFields ==
    ASSUME NEW u \in CallRec, NEW i \in Children, NEW c, c = Naming(u, i)
    PROVE  /\ c \in CallRec /\ c.pc = u.pc /\ c.cmd = u.cmd /\ c.deck = u.deck /\ c.kid = u.kid
           /\ c.id = i /\ c.todo = u.todo /\ c.reply = u.reply
<1>1p. PICK v : v = [u EXCEPT !.id = i]  OBVIOUS
<1>1. v \in CallRec  BY <1>1p DEF CallRec, Steps
<1>2. c = v  BY <1>1, <1>1p, Zenon DEF Naming
<1>3. QED  BY <1>1, <1>1p, <1>2 DEF CallRec

LEMMA ListingFields ==
    ASSUME NEW u \in CallRec, NEW t \in SUBSET (Keys \X Children), NEW c, c = Listing(u, t)
    PROVE  /\ c \in CallRec /\ c.pc = u.pc /\ c.cmd = u.cmd /\ c.deck = u.deck /\ c.kid = u.kid
           /\ c.id = u.id /\ c.todo = t /\ c.reply = u.reply
<1>1p. PICK v : v = [u EXCEPT !.todo = t]  OBVIOUS
<1>1. v \in CallRec  BY <1>1p DEF CallRec, Steps
<1>2. c = v  BY <1>1, <1>1p, Zenon DEF Listing
<1>3. QED  BY <1>1, <1>1p, <1>2 DEF CallRec

LEMMA HandedFields ==
    ASSUME NEW u \in CallRec, NEW g \in SUBSET Students, NEW c, c = Handed(u, g)
    PROVE  /\ c \in CallRec /\ c.pc = u.pc /\ c.cmd = u.cmd /\ c.deck = u.deck /\ c.kid = u.kid
           /\ c.id = u.id /\ c.todo = u.todo /\ c.reply = u.reply
<1>1p. PICK v : v = [u EXCEPT !.orig = g]  OBVIOUS
<1>1. v \in CallRec  BY <1>1p DEF CallRec, Steps
<1>2. c = v  BY <1>1, <1>1p, Zenon DEF Handed
<1>3. QED  BY <1>1, <1>1p, <1>2 DEF CallRec

LEMMA TakingFields ==
    ASSUME NEW u \in CallRec, NEW t \in SUBSET (Keys \X Children), NEW i \in Children, NEW k \in Keys,
           NEW c, c = Taking(u, t, i, k)
    PROVE  /\ c \in CallRec /\ c.pc = u.pc /\ c.cmd = u.cmd /\ c.deck = u.deck /\ c.kid = u.kid
           /\ c.id = i /\ c.todo = t /\ c.reply = u.reply
<1>1p. PICK v : v = [u EXCEPT !.todo = t]  OBVIOUS
<1>1. v \in CallRec  BY <1>1p DEF CallRec, Steps
<1>2p. PICK w : w = [v EXCEPT !.id = i]  OBVIOUS
<1>2. w \in CallRec  BY <1>1, <1>2p DEF CallRec, Steps
<1>3p. PICK x : x = [w EXCEPT !.key = k]  OBVIOUS
<1>3. x \in CallRec  BY <1>2, <1>3p DEF CallRec, Steps
<1>4. c = x  BY <1>1, <1>1p, <1>2, <1>2p, <1>3, <1>3p, Zenon DEF Taking
<1>5. /\ v.pc = u.pc /\ v.cmd = u.cmd /\ v.deck = u.deck /\ v.kid = u.kid /\ v.todo = t /\ v.reply = u.reply
  BY <1>1, <1>1p DEF CallRec
<1>6. /\ w.pc = v.pc /\ w.cmd = v.cmd /\ w.deck = v.deck /\ w.kid = v.kid /\ w.id = i /\ w.todo = v.todo
      /\ w.reply = v.reply
  BY <1>1, <1>2, <1>2p DEF CallRec
<1>7. /\ x.pc = w.pc /\ x.cmd = w.cmd /\ x.deck = w.deck /\ x.kid = w.kid /\ x.id = w.id
      /\ x.todo = w.todo /\ x.reply = w.reply
  BY <1>2, <1>3, <1>3p DEF CallRec
<1>8. QED  BY <1>4, <1>5, <1>6, <1>7, <1>1, <1>2, <1>3

LEMMA QueueingFields ==
    ASSUME NEW u \in CallRec, NEW c, c = Queueing(u)
    PROVE  /\ c \in CallRec /\ c.pc = "wait" /\ c.cmd = "none" /\ c.deck = None /\ c.kid = u.kid
           /\ c.id = u.id /\ c.todo = u.todo /\ c.reply = u.reply
<1>1p. PICK v : v = [u EXCEPT !.pc = "wait"]  OBVIOUS
<1>1. v \in CallRec  BY <1>1p DEF CallRec, Steps
<1>2p. PICK w : w = [v EXCEPT !.cmd = "none"]  OBVIOUS
<1>2. w \in CallRec  BY <1>1, <1>2p DEF CallRec, Steps
<1>3p. PICK x : x = [w EXCEPT !.deck = None]  OBVIOUS
<1>3. x \in CallRec  BY <1>2, <1>3p DEF CallRec, Steps
<1>4. c = x  BY <1>1, <1>1p, <1>2, <1>2p, <1>3, <1>3p, Zenon DEF Queueing
<1>5. /\ v.pc = "wait" /\ v.kid = u.kid /\ v.id = u.id /\ v.todo = u.todo /\ v.reply = u.reply
  BY <1>1, <1>1p DEF CallRec
<1>6. w.pc = v.pc /\ w.cmd = "none" /\ w.kid = v.kid /\ w.id = v.id /\ w.todo = v.todo /\ w.reply = v.reply
  BY <1>1, <1>2, <1>2p DEF CallRec
<1>7. /\ x.pc = w.pc /\ x.cmd = w.cmd /\ x.deck = None /\ x.kid = w.kid /\ x.id = w.id
      /\ x.todo = w.todo /\ x.reply = w.reply
  BY <1>2, <1>3, <1>3p DEF CallRec
<1>8. QED  BY <1>4, <1>5, <1>6, <1>7, <1>1, <1>2, <1>3

LEMMA AnsweredFields ==
    ASSUME NEW u \in CallRec, NEW reply \in {"ok", "refused", "failed"}, NEW c, c = Answered(u, reply)
    PROVE  /\ c \in CallRec /\ c.pc = "done" /\ c.cmd = "none" /\ c.deck = None /\ c.kid = None
           /\ c.id = u.id /\ c.todo = {} /\ c.reply = reply
<1>1. TheDeck \in Ids  BY ConstantFacts
<1>2. Calm \in CallRec  BY <1>1 DEF Calm, CallRec, Steps
<1>3. Calm.cmd = "none" /\ Calm.deck = None /\ Calm.kid = None /\ Calm.todo = {}  BY DEF Calm
<1>4p. PICK v : v = [Calm EXCEPT !.pc = "done"]  OBVIOUS
<1>4. v \in CallRec  BY <1>4p, <1>2 DEF CallRec, Steps
<1>5p. PICK w : w = [v EXCEPT !.reply = reply]  OBVIOUS
<1>5. w \in CallRec  BY <1>4, <1>5p DEF CallRec, Steps
<1>6. u.id \in Children \cup {None} /\ u.undo = <<>>  BY CallFields
<1>7p. PICK x : x = [w EXCEPT !.id = u.id]  OBVIOUS
<1>7. x \in CallRec  BY <1>5, <1>7p, <1>6 DEF CallRec, Steps
<1>8p. PICK y : y = [x EXCEPT !.undo = u.undo]  OBVIOUS
<1>8. y \in CallRec  BY <1>7, <1>8p, <1>6 DEF CallRec, Steps
<1>9. c = y  BY <1>4, <1>4p, <1>5, <1>5p, <1>7, <1>7p, <1>8, <1>8p, Zenon DEF Answered
<1>10. v.pc = "done" /\ v.cmd = "none" /\ v.deck = None /\ v.kid = None /\ v.todo = {}
  BY <1>2, <1>3, <1>4, <1>4p DEF CallRec
<1>11. /\ w.pc = v.pc /\ w.cmd = v.cmd /\ w.deck = v.deck /\ w.kid = v.kid /\ w.todo = v.todo
       /\ w.reply = reply
  BY <1>4, <1>5, <1>5p DEF CallRec
<1>12. /\ x.pc = w.pc /\ x.cmd = w.cmd /\ x.deck = w.deck /\ x.kid = w.kid /\ x.todo = w.todo
       /\ x.reply = w.reply /\ x.id = u.id
  BY <1>5, <1>7, <1>7p DEF CallRec
<1>13. /\ y.pc = x.pc /\ y.cmd = x.cmd /\ y.deck = x.deck /\ y.kid = x.kid /\ y.todo = x.todo
       /\ y.reply = x.reply /\ y.id = x.id
  BY <1>7, <1>8, <1>8p DEF CallRec
<1>14. QED  BY <1>9, <1>10, <1>11, <1>12, <1>13, <1>2, <1>4, <1>5, <1>7, <1>8

\* A step that leaves the records alone.
LEMMA PlainStep ==
    ASSUME Sheltered, Shared, NEW p \in Used, NEW m, Plain(p, m), NEW c \in CallRec,
           NEW wakes \in SUBSET Calls, Becomes(p, m, c, wakes), made' = made,
           p \in Ready \/ (Ready = {} /\ call[p].pc \in {"idle", "auth"}),
           c.pc \notin {"idle", "made", "noted"}, c.cmd \in {"none", "get", "touch"}, CallOK(p, c),
           \/ c.kid = None \/ (c.id = call[p].id /\ c.kid = call[p].kid)
           \/ (c.kid = Slot(c.id) /\ c.id \in Children),
           Hit(c) => p \in wakes /\ m.slot[c.id] = c.kid,
           wakes = {} \/ (wakes = {p} /\ c.cmd = "none"),
           c.id = None \/ c.id = call[p].id \/ (Known(c.id) /\ ~Is(p, "end")),
           \A r \in c.todo : Known(r[2]),
           c.pc = "probe" => Notes.acts[Key(p)] = None,
           c.cmd = "get" => c.id \in Children /\ m.slot[c.id] = None /\ Known(c.id),
           InLine(p, call[p]) <=> InLine(p, c),
           Marked(p, c) => \/ Marked(p, call[p]) /\ (Is(p, "start") => c.id = call[p].id)
                           \/ /\ c.pc = "existing" /\ c.id = Notes.acts[Key(p)]
                              /\ Unended(Key(p)) => Settled(Key(p)),
           Entered(p, c) => Entered(p, call[p]) /\ c.id = call[p].id /\ c.cmd = "none"
    PROVE  Shared'
<1>1. p \in Calls  BY DEF Used
<1>2. LegalSlots(p, m, c) /\ LegalObjects(p, m, c) /\ LegalNotes(p, m, c) /\ m.obj[1] = Notes /\ m \in MemRec
  BY <1>1, PlainIsLegal
<1>3. LegalTurn(p, m, c, wakes)  BY <1>1 DEF LegalTurn
<1>4. LegalNames(p, m, c)  BY <1>2 DEF LegalNames
<1>5. LegalSends(p, m, c)
  <2>1. ASSUME c.cmd = "get" PROVE Slot(c.id) = None
    <3>1. c.id \in Ids /\ m.slot[c.id] = None  BY <2>1, ConstantFacts
    <3>2. QED  BY <3>1 DEF Plain
  <2>2. QED  BY <2>1 DEF LegalSends
<1>6. LegalMarks(p, m, c)  BY <1>2 DEF LegalMarks
<1>7. LegalLine(p, m, c, wakes)
  <2>1. \A k \in Keys : m.queue[k] = Line(k)  BY <1>1, SharedFacts DEF Plain
  <2>2. QED  BY <2>1 DEF LegalLine, SameLine
<1>8. Legal(p, m, c, wakes)  BY <1>2, <1>3, <1>4, <1>5, <1>6, <1>7 DEF Legal
<1>9. QED  BY <1>1, <1>2, <1>8, SharedKept

\* Who goes on when the work of a call is over.
Follows(p, m, reply) ==
    IF Unlocked(p, m, reply) # m /\ Unlocked(p, m, reply).queue[Key(p)] # <<>>
    THEN {Head(Unlocked(p, m, reply).queue[Key(p)])} ELSE {}

\* The first of a line is done with it, and the next one goes on.
LEMMA LineGoesOn ==
    ASSUME Sheltered, Shared, NEW p \in Used, p \in Ready, NEW m, Plain(p, m), NEW reply
    PROVE  LET u == Unlocked(p, m, reply)
               next == Follows(p, m, reply)
           IN  /\ u \in MemRec
               /\ u.slot = m.slot /\ u.owner = m.owner /\ u.obj = m.obj
               /\ IF InLine(p, call[p])
                  THEN /\ \A k \in Keys : u.queue[k] = IF k = Key(p) THEN Tail(Line(k)) ELSE Line(k)
                       /\ next = IF Tail(Line(Key(p))) = <<>> THEN {} ELSE {Head(Tail(Line(Key(p))))}
                  ELSE (\A k \in Keys : u.queue[k] = Line(k)) /\ next = {}
               /\ next = {} \/ \E q \in Calls : q # p /\ next = {q} /\ call[q].cmd = "none"
<1> DEFINE K == Key(p)
           s == Line(K)
           t == Tail(s)
           u == Unlocked(p, m, reply)
           next == Follows(p, m, reply)
<1>1. /\ p \in Calls /\ m \in MemRec /\ Lock /\ K \in Keys /\ (\A q \in Calls : Key(q) \in Keys)
      /\ m.queue = mem[N].queue /\ \A k : Line(k) = mem[N].queue[k]
  BY SharedFacts DEF Plain, Used
<1>2. \A k \in Keys : m.queue[k] = Line(k) /\ Line(k) \in Seq(Calls)  BY <1>1, MemFields
<1>3. InLine(p, call[p]) <=> p \in {m.queue[K][j] : j \in 1..Len(m.queue[K])}
  <2>1. InLine(p, call[p]) => In(s, p)  BY <1>1 DEF Lock
  <2>2. In(s, p) => InLine(p, call[p])  BY <1>1 DEF Lock, In
  <2>3. m.queue[K] = s  BY <1>1, <1>2
  <2> HIDE DEF s
  <2>4. In(s, p) <=> p \in {s[j] : j \in 1..Len(s)}  BY DEF In
  <2>5. QED  BY <2>1, <2>2, <2>3, <2>4
<1>4. CASE ~InLine(p, call[p])
  <2>1. u = m  BY <1>3, <1>4 DEF Unlocked
  <2>2. QED  BY <2>1, <1>1, <1>2, <1>4 DEF Follows
<1>5. CASE InLine(p, call[p])
  <2>1. u = [m EXCEPT !.queue[K] = Tail(@)]  BY <1>3, <1>5 DEF Unlocked
  <2>2. s \in Seq(Calls) /\ Once(s) /\ In(s, p) /\ m.queue[K] = s  BY <1>1, <1>2, <1>5 DEF Lock
  <2>3. s # <<>>  BY <2>2, EmptySeq DEF In
  <2>4. /\ t \in Seq(Calls) /\ Once(t) /\ Head(s) = s[1] /\ Len(t) = Len(s) - 1 /\ Len(s) \in Nat
        /\ Len(s) >= 1 /\ \A j \in 1..Len(t) : t[j] = s[j + 1]
    BY <2>2, <2>3, TailParts
  <2> DEFINE w == [m.queue EXCEPT ![K] = t]
  <2>5. m.queue \in [Keys -> Seq(Calls)]  BY <1>1, MemFields
  <2>6. w \in [Keys -> Seq(Calls)] /\ w[K] = t /\ \A k \in Keys : w[k] = IF k = K THEN t ELSE m.queue[k]
    BY <2>4, <2>5, <1>1
  <2>7. u = [m EXCEPT !.queue = w]  BY <2>1, <2>2
  <2> HIDE DEF s, t, w, u
  <2>8. u \in MemRec /\ u.slot = m.slot /\ u.owner = m.owner /\ u.obj = m.obj /\ u.queue = w
    BY <2>6, <2>7, <1>1 DEF MemRec
  <2>10. u # m  
    <3>1. Len(u.queue[K]) # Len(m.queue[K])  BY <2>2, <2>4, <2>6, <2>8
    <3>2. QED  BY <3>1
  <2>11. next = IF t = <<>> THEN {} ELSE {Head(t)}  BY <2>6, <2>8, <2>10 DEF Follows, u, K
  <2>12. ASSUME t # <<>> PROVE Head(t) \in Calls /\ Head(t) # p /\ call[Head(t)].cmd = "none"
    <3>1. Len(t) \in Nat /\ Len(t) # 0 /\ Head(t) = t[1]
      BY <2>4, <2>12, EmptySeq, LenProperties, HeadTailProperties
    <3>2. 1 \in 1..Len(t) /\ 1 + 1 \in 1..Len(s) /\ Head(t) = s[1 + 1]  BY <3>1, <2>4
    <3>3. Head(t) \in Calls  BY <3>2, <2>2, ElementOfSeq
    <3>4. call[Head(t)].pc = "wait" /\ Head(t) \notin Ready  BY <3>2, <1>1 DEF Lock, s
    <3>5. call[Head(t)].cmd = "none"  BY <3>3, <3>4, SharedFacts DEF CallOK, Commanded
    <3>6. QED  BY <3>3, <3>4, <3>5
  <2>13. \A k \in Keys : u.queue[k] = IF k = K THEN t ELSE Line(k)  BY <2>6, <2>8, <1>2
  <2>14. QED  BY <2>8, <2>11, <2>12, <2>13, <1>5 DEF s, t, u
<1>6. QED  BY <1>4, <1>5

\* A call is answered.
LEMMA AnswersKept ==
    ASSUME Sheltered, Shared, NEW p \in Used, p \in Ready, NEW m, Plain(p, m),
           NEW reply \in {"ok", "refused", "failed"}, Answers(p, m, reply), made' = made,
           reply = "ok" /\ scene.kind[p] \in {"join", "update", "start"} => Marked(p, call[p]),
           reply = "ok" /\ Is(p, "entry") => Entered(p, call[p]),
           reply = "ok" /\ scene.kind[p] \in {"start", "end", "entry"} => call[p].id # None
    PROVE  Shared'
<1> DEFINE u == Unlocked(p, m, reply)
           next == Follows(p, m, reply)
           c == Answered(call[p], reply)
<1>1. Becomes(p, u, c, next)  BY DEF Answers, Answered, Follows
<1>2. p \in Calls /\ call[p] \in CallRec /\ CallOK(p, call[p])  BY SharedFacts DEF Used
<1>3. /\ c \in CallRec /\ c.pc = "done" /\ c.cmd = "none" /\ c.deck = None /\ c.kid = None
      /\ c.id = call[p].id /\ c.todo = {} /\ c.reply = reply
  BY <1>2, AnsweredFields
<1> HIDE DEF c
<1>4. /\ u \in MemRec /\ u.slot = m.slot /\ u.owner = m.owner /\ u.obj = m.obj
      /\ IF InLine(p, call[p])
         THEN /\ \A k \in Keys : u.queue[k] = IF k = Key(p) THEN Tail(Line(k)) ELSE Line(k)
              /\ next = IF Tail(Line(Key(p))) = <<>> THEN {} ELSE {Head(Tail(Line(Key(p))))}
         ELSE (\A k \in Keys : u.queue[k] = Line(k)) /\ next = {}
      /\ next = {} \/ \E q \in Calls : q # p /\ next = {q} /\ call[q].cmd = "none"
  BY LineGoesOn
<1> HIDE DEF u, next
<1>5. LegalSlots(p, m, c) /\ LegalObjects(p, m, c) /\ LegalNotes(p, m, c) /\ m.obj[1] = Notes /\ m \in MemRec
  BY <1>2, <1>3, PlainIsLegal
<1>6. LegalSlots(p, u, c) /\ LegalObjects(p, u, c) /\ LegalNotes(p, u, c) /\ u.obj[1] = Notes
  BY <1>3, <1>4, <1>5 DEF LegalSlots, LegalObjects, LegalNotes, Enters, Removes
<1>7. CallOK(p, c)  BY <1>2, <1>3 DEF CallOK, Commanded, Holding, Named, Does, Is, OfStart, Fetches, Used
<1>8. LegalTurn(p, u, c, next)  BY <1>3, <1>4, <1>7 DEF LegalTurn, Hit, Fetches
<1>9. LegalNames(p, u, c)  BY <1>3 DEF LegalNames
<1>10. LegalSends(p, u, c)  BY <1>3 DEF LegalSends
<1>11. LegalMarks(p, u, c)  BY <1>3 DEF LegalMarks, Marked, Entered, Is
<1>12. LegalLine(p, u, c, next)
  BY <1>3, <1>4 DEF LegalLine, SameLine, Shortened, InLine, OfStart
<1>13. Legal(p, u, c, next)  BY <1>6, <1>8, <1>9, <1>10, <1>11, <1>12 DEF Legal
<1>14. next \in SUBSET Calls  BY <1>4
<1>15. QED  BY <1>1, <1>2, <1>3, <1>4, <1>13, <1>14, SharedKept

\* The child that a call names, but for one that is being made.
LEMMA OwnKnown ==
    ASSUME Sheltered, Shared, NEW p \in Calls, call[p].id # None, call[p].pc # "made"
    PROVE  Known(call[p].id) /\ call[p].id \in Children
<1>1. Names /\ call[p] \in CallRec  BY SharedFacts
<1>2. call[p].id <= made  BY <1>1 DEF Names
<1>3. ~Making(call[p].id)  BY <1>1 DEF Names, Making
<1>4. QED  BY <1>1, <1>2, <1>3, CallFields DEF Known

\* A read of a child: from the cache, or by a command.
Owned(m, i, p) == [m EXCEPT !.owner[i] = p]
LEMMA GetIs ==
    ASSUME NEW p, NEW m, NEW u, NEW i, NEW step, Get(p, m, u, i, step)
    PROVE  \/ m.slot[i] # None /\ Becomes(p, m, Going(Holds(u, i, m.slot[i]), step), {p})
           \/ m.slot[i] = None /\ Becomes(p, Owned(m, i, p), Fetching(u, i, step), {})
<1>1. CASE m.slot[i] # None
  <2>1. Goes(p, m, Holds(u, i, m.slot[i]), step)  BY <1>1 DEF Get, Given
  <2>2. QED  BY <1>1, <2>1 DEF Goes, Going
<1>2. CASE m.slot[i] = None
  <2>1. QED  BY <1>2 DEF Get, Owned, Fetching
<1>3. QED  BY <1>1, <1>2

LEMMA PlainOwned ==
    ASSUME NEW p \in Calls, NEW m, Plain(p, m), NEW i \in Children, m.slot[i] = None
    PROVE  Plain(p, Owned(m, i, p)) /\ Owned(m, i, p).slot = m.slot
<1> DEFINE w == Owned(m, i, p)
           o == [m.owner EXCEPT ![i] = p]
<1>1. m \in MemRec /\ i \in Ids /\ i # TheDeck /\ m.owner \in [Ids -> Calls \cup {None}]
  BY MemFields, ConstantFacts DEF Plain
<1>2. o \in [Ids -> Calls \cup {None}] /\ \A j \in Ids : o[j] = IF j = i THEN p ELSE m.owner[j]
  BY <1>1
<1>3. w = [m EXCEPT !.owner = o]  BY DEF Owned
<1> HIDE DEF o, w
<1>4. /\ w \in MemRec /\ w.slot = m.slot /\ w.owner = o /\ w.queue = m.queue /\ w.obj = m.obj
  BY <1>1, <1>2, <1>3 DEF MemRec
<1>5. Plain(p, w)  BY <1>1, <1>2, <1>4, ConstantFacts DEF Plain
<1>6. QED  BY <1>4, <1>5 DEF w

LEMMA GetChildKept ==
    ASSUME Sheltered, Shared, NEW p \in Used, p \in Ready, NEW m, Plain(p, m),
           NEW u \in CallRec, NEW i \in Children, u.id = i, u.deck = 1, u.reply = "none",
           NEW step \in Fetches \cup {"existing"}, Get(p, m, u, i, step), made' = made, Known(i),
           step = "existing" => m.slot[i] # None,
           IF step = "child" THEN p \in Sockets \/ Is(p, "entry") ELSE Is(p, "start"),
           Is(p, "start") => InLine(p, call[p]),
           \A r \in u.todo : Known(r[2]),
           step = "existing" => i = Notes.acts[Key(p)] /\ (Unended(Key(p)) => Settled(Key(p))),
           step \in {"greet", "mint"} => Marked(p, call[p]) /\ call[p].id = i,
           Is(p, "join") => Marked(p, call[p])
    PROVE  Shared'
<1>1. p \in Calls /\ call[p] \in CallRec /\ Memory /\ (\A j \in Ids : Slot(j) = mem[N].slot[j]) /\ i \in Ids
  BY SharedFacts, ConstantFacts DEF Used
<1>2. step \in Steps /\ step \notin {"idle", "made", "noted", "probe", "done", "token"}  BY DEF Steps, Fetches
<1>3. ~Is(p, "end")  BY DEF Is, Sockets
<1>4. CASE m.slot[i] # None /\ Becomes(p, m, Going(Holds(u, i, m.slot[i]), step), {p})
  <2> DEFINE o == m.slot[i]
             v == Holds(u, i, o)
             c == Going(v, step)
  <2>1. o \in (Objects \ {1}) \cup {None} /\ (o = Slot(i) \/ (call[p].id = i /\ o = call[p].kid))
    <3>1. o \in Objects \cup {None}  BY <1>1, MemFields DEF Plain
    <3>2. o = Slot(i) \/ (call[p].id = i /\ o = call[p].kid)  BY <1>1 DEF Plain
    <3>3. QED  BY <3>1, <3>2, <1>1, CallFields DEF Memory
  <2>2. v \in CallRec /\ v.deck = u.deck /\ v.kid = o /\ v.id = u.id /\ v.todo = u.todo /\ v.reply = u.reply
    BY <2>1, HoldsFields
  <2> HIDE DEF v
  <2>3. /\ c \in CallRec /\ c.pc = step /\ c.cmd = "none" /\ c.deck = v.deck /\ c.kid = v.kid /\ c.id = v.id
        /\ c.todo = v.todo /\ c.reply = v.reply
    BY <1>2, <2>2, GoingFields
  <2>4. PICK d \in CallRec : d = c /\ Becomes(p, m, d, {p})  BY <1>4, <2>3 DEF v
  <2> HIDE DEF c, o
  <2>5. /\ d.pc = step /\ d.cmd = "none" /\ d.deck = 1 /\ d.kid = o /\ d.id = i /\ d.todo = u.todo
        /\ d.reply = "none" /\ o # None
    BY <2>2, <2>3, <2>4, <1>4 DEF o
  <2>6. CallOK(p, d)
    BY <1>1, <1>2, <1>3, <2>5, ConstantFacts
    DEF CallOK, Commanded, Holding, Named, Does, Is, OfStart, Fetches, Used, Sockets
  <2>7. InLine(p, call[p]) <=> InLine(p, d)  BY <2>5 DEF InLine, OfStart, Fetches, Is, Sockets
  <2>8. ~Entered(p, d)  BY <2>5, <1>2 DEF Entered
  <2>9. Marked(p, d) => \/ Marked(p, call[p]) /\ (Is(p, "start") => d.id = call[p].id)
                        \/ /\ d.pc = "existing" /\ d.id = Notes.acts[Key(p)]
                           /\ Unended(Key(p)) => Settled(Key(p))
    BY <2>5, <1>2 DEF Marked, Fetches, Is, Sockets
  <2>10. Hit(d) => m.slot[d.id] = d.kid  BY <2>5 DEF o
  <2>11. {p} \in SUBSET Calls  BY <1>1
  <2>12. d.kid = None \/ (d.id = call[p].id /\ d.kid = call[p].kid) \/ (d.kid = Slot(d.id) /\ d.id \in Children)
    BY <2>1, <2>5
  <2>13. /\ d.pc \notin {"idle", "made", "noted", "probe"} /\ d.id = i /\ d.cmd \notin {"get", "set", "del"}
         /\ \A r \in d.todo : Known(r[2])
    BY <1>2, <2>5
  <2>14. PICK x \in SUBSET Calls : x = {p}  BY <2>11
  <2>15. Becomes(p, m, d, x) /\ x = {p} /\ p \in x /\ d.cmd = "none"  BY <2>4, <2>5, <2>14
  <2>16. d.cmd \in {"none", "get", "touch"} /\ (d.id = None \/ d.id = call[p].id \/ (Known(d.id) /\ ~Is(p, "end")))
    BY <2>13, <2>15, <1>3
  <2>17. QED
    BY <2>4, <2>6, <2>7, <2>8, <2>9, <2>10, <2>12, <2>13, <2>15, <2>16, PlainStep
<1>5. CASE m.slot[i] = None /\ Becomes(p, Owned(m, i, p), Fetching(u, i, step), {})
  <2>1. PICK w : w = Owned(m, i, p)  OBVIOUS
  <2>2. Plain(p, w) /\ w.slot = m.slot  BY <2>1, <1>1, <1>5, PlainOwned
  <2>3. PICK d : d = Fetching(u, i, step)  OBVIOUS
  <2>4. /\ d \in CallRec /\ d.pc = step /\ d.cmd = "get" /\ d.on = i /\ d.deck = u.deck /\ d.kid = None
        /\ d.id = u.id /\ d.todo = u.todo /\ d.reply = u.reply
    BY <1>2, <2>3, FetchingFields
  <2>5. Becomes(p, w, d, {})  BY <1>5, <2>1, <2>3
  <2>6. step \in Fetches  BY <1>5
  <2>7. CallOK(p, d)
    BY <1>1, <1>2, <1>3, <2>4, <2>6, ConstantFacts
    DEF CallOK, Commanded, Holding, Named, Does, Is, OfStart, Fetches, Used, Sockets
  <2>8. InLine(p, call[p]) <=> InLine(p, d)  BY <2>4 DEF InLine, OfStart, Fetches, Is, Sockets
  <2>9. ~Entered(p, d) /\ ~Hit(d)  BY <2>4, <1>2 DEF Entered, Hit
  <2>10. Marked(p, d) => Marked(p, call[p]) /\ (Is(p, "start") => d.id = call[p].id)
    BY <2>4, <1>2, <2>6 DEF Marked, Fetches, Is, Sockets
  <2>11. d.pc \notin {"idle", "made", "noted", "probe"} /\ d.id = i /\ d.kid = None  BY <1>2, <2>4
  <2>12. w.slot[i] = None  BY <2>2, <1>5
  <2>13. QED
    BY <1>1, <1>3, <2>2, <2>4, <2>5, <2>7, <2>8, <2>9, <2>10, <2>11, <2>12, PlainStep
<1>6. \/ m.slot[i] # None /\ Becomes(p, m, Going(Holds(u, i, m.slot[i]), step), {p})
      \/ m.slot[i] = None /\ Becomes(p, Owned(m, i, p), Fetching(u, i, step), {})
  <2>1. Get(p, m, u, i, step)  OBVIOUS
  <2>2. QED  BY <2>1, GetIs, Zenon
<1>7. QED  BY <1>4, <1>5, <1>6, Zenon

\* An object of the memory is changed.
LEMMA PutIs ==
    ASSUME NEW m \in MemRec, NEW o \in Objects, NEW v \in Deck \cup Child, NEW w, w = Put(m, o, v)
    PROVE  /\ w \in MemRec /\ w.slot = m.slot /\ w.owner = m.owner /\ w.queue = m.queue
           /\ w.obj[o] = v /\ \A q \in Objects : q # o => w.obj[q] = m.obj[q]
<1> DEFINE s == [m.obj EXCEPT ![o] = v]
<1>1. m.obj \in [Objects -> Deck \cup Child \cup {None}]  BY MemFields
<1>2. /\ s \in [Objects -> Deck \cup Child \cup {None}] /\ s[o] = v
      /\ \A q \in Objects : q # o => s[q] = m.obj[q]
  BY <1>1
<1>3. w = [m EXCEPT !.obj = s]  BY DEF Put
<1> HIDE DEF s
<1>4. w \in MemRec /\ w.slot = m.slot /\ w.owner = m.owner /\ w.queue = m.queue /\ w.obj = s
  BY <1>2, <1>3 DEF MemRec
<1>5. QED  BY <1>2, <1>4

\* A write of the deck.
LEMMA SetDeckKept ==
    ASSUME Sheltered, Shared, NEW p \in Used, p \in Ready, NEW n, Plain(p, n), NEW d \in Deck,
           NEW u \in CallRec, u.deck = 1, u.reply = "none", u.kid = call[p].kid,
           u.id = call[p].id \/ u.kid = None,
           Set(p, Put(n, 1, d), u, TheDeck, 1, "noted"), made' = made,
           scene.kind[p] \in {"update", "join", "end", "start"},
           scene.kind[p] \in {"end", "start"} \/ u.kid # None => u.id # None,
           \A r \in u.todo : Known(r[2]),
           u.id = call[p].id \/ (Is(p, "end") /\ u.id = Notes.acts[Key(p)] /\ d.acts[Key(p)] = None),
           Notes.students \subseteq d.students, Notes.strokes \subseteq d.strokes,
           \A k \in Keys : \/ d.acts[k] = Notes.acts[k]
                           \/ /\ k = Key(p) /\ call[p].pc = "made" /\ u.id = call[p].id
                              /\ d.acts[k] = u.id
                           \/ k = Key(p) /\ Is(p, "end") /\ d.acts[k] = None,
           Is(p, "start") => InLine(p, call[p]),
           DeckHas(p, u.id, d)
    PROVE  Shared'
<1>1. /\ p \in Calls /\ call[p] \in CallRec /\ n \in MemRec /\ Names /\ Memory /\ CallOK(p, call[p])
      /\ Key(p) \in Keys /\ Notes \in Deck
  BY SharedFacts DEF Used, Plain
<1>2. 1 \in Objects /\ TheDeck \in Ids  BY ConstantFacts
<1>3. PICK m : m = Put(n, 1, d)  OBVIOUS
<1>4. /\ m \in MemRec /\ m.slot = n.slot /\ m.owner = n.owner /\ m.queue = n.queue
      /\ m.obj[1] = d /\ \A q \in Objects : q # 1 => m.obj[q] = n.obj[q]
  BY <1>1, <1>2, <1>3, PutIs
<1>5. PICK c : c = Setting(u, TheDeck, 1, d, "noted")  OBVIOUS
<1>6. /\ c \in CallRec /\ c.pc = "noted" /\ c.cmd = "set" /\ c.on = TheDeck /\ c.out = d
      /\ c.deck = 1 /\ c.kid = u.kid /\ c.id = u.id /\ c.todo = u.todo /\ c.reply = u.reply
  <2>1. "noted" \in Steps /\ d \in Deck \cup Child  BY DEF Steps
  <2>2. QED  BY <1>2, <1>5, <2>1, SettingFields
<1>7. Becomes(p, m, c, {})
  <2>1. Becomes(p, m, [Holds(u, TheDeck, 1) EXCEPT !.pc = "noted", !.cmd = "set", !.on = TheDeck,
                                                   !.out = m.obj[1]], {})
    BY <1>3, Zenon DEF Set
  <2>2. c = [Holds(u, TheDeck, 1) EXCEPT !.pc = "noted", !.cmd = "set", !.on = TheDeck, !.out = m.obj[1]]
    BY <1>4, <1>5, Zenon DEF Setting
  <2>3. QED  BY <2>1, <2>2, Zenon
<1>8. CallOK(p, c)
  BY <1>1, <1>6 DEF CallOK, Commanded, Holding, Named, Does, Is, OfStart, Fetches, Used
<1>9. LegalTurn(p, m, c, {})  BY <1>6, <1>8 DEF LegalTurn, Hit, Fetches
<1>10. LegalSlots(p, m, c)  BY <1>4 DEF LegalSlots, Plain
<1>11. LegalObjects(p, m, c)
  <2>1. \A o : Obj(o) = mem[N].obj[o]  BY DEF Obj
  <2>2. \A o \in Objects : o # 1 => m.obj[o] = Obj(o)  BY <1>4, <2>1 DEF Plain
  <2>3. QED  BY <1>6, <2>2 DEF LegalObjects
<1>12. LegalNames(p, m, c)
  <2>1. ASSUME u.id # call[p].id, u.id # None PROVE Known(u.id)
    BY <2>1, <1>1 DEF Names
  <2>2. QED  BY <1>4, <1>6, <2>1 DEF LegalNames
<1>13. LegalNotes(p, m, c)
  <2>1. ASSUME NEW k \in Keys, call[p].pc = "made", u.id = call[p].id, d.acts[k] = u.id, k = Key(p)
        PROVE  Enters(p, m, c, k)
    <3>1. n.slot[call[p].id] # None  BY <2>1 DEF Plain
    <3>2. QED  BY <2>1, <3>1, <1>4, <1>6 DEF Enters
  <2>2. ASSUME NEW k \in Keys, k = Key(p), Is(p, "end"), d.acts[k] = None PROVE Removes(p, m, c, k)
    BY <2>2, <1>4, <1>6 DEF Removes
  <2>3. QED  BY <2>1, <2>2, <1>4 DEF LegalNotes
<1>14. LegalSends(p, m, c)  BY <1>4, <1>6 DEF LegalSends
<1>15. LegalMarks(p, m, c)  BY <1>4, <1>6 DEF LegalMarks, Entered
<1>16. LegalLine(p, m, c, {})
  <2>1. \A k \in Keys : m.queue[k] = Line(k)  BY <1>4 DEF Plain, Line
  <2>2. InLine(p, call[p]) <=> InLine(p, c)  BY <1>6 DEF InLine
  <2>3. QED  BY <2>1, <2>2 DEF LegalLine, SameLine
<1>17. Legal(p, m, c, {})
  BY <1>9, <1>10, <1>11, <1>12, <1>13, <1>14, <1>15, <1>16 DEF Legal
<1>18. PICK x \in SUBSET Calls : x = {}  OBVIOUS
<1>19. QED  BY <1>1, <1>4, <1>6, <1>7, <1>17, <1>18, SharedKept

\* A write of a child.
LEMMA SetChildKept ==
    ASSUME Sheltered, Shared, NEW p \in Used, p \in Ready, NEW o, o = call[p].kid, o # None,
           NEW i \in Children, i = call[p].id, Slot(i) = o, NEW v \in Child, Obj(o).tokens \subseteq v.tokens,
           NEW step \in {"greeted", "minted", "token"},
           NEW u \in CallRec, u.id = i, u.deck = 1, u.reply = "none", u.todo = call[p].todo,
           Set(p, Put(mem[N], o, v), u, i, o, step), made' = made, call[p].pc # "made",
           IF step = "token" THEN Is(p, "join") \/ Is(p, "entry") ELSE Is(p, "start"),
           Is(p, "start") => InLine(p, call[p]),
           scene.kind[p] \in {"start", "join"} => Marked(p, call[p]),
           step = "token" => Student(p) \in v.tokens
    PROVE  Shared'
<1>1. /\ p \in Calls /\ call[p] \in CallRec /\ mem[N] \in MemRec /\ Names /\ Memory /\ CallOK(p, call[p])
      /\ Notes \in Deck /\ i \in Ids /\ i # TheDeck /\ Notes = mem[N].obj[1]
  BY SharedFacts, ConstantFacts DEF Used
<1>2. o \in Objects /\ o # 1  BY <1>1, CallFields
<1>3. Obj(o) \in Child  BY <1>2 , <1>1 DEF Memory, RefOf
<1>4. PICK m : m = Put(mem[N], o, v)  OBVIOUS
<1>5. /\ m \in MemRec /\ m.slot = mem[N].slot /\ m.owner = mem[N].owner /\ m.queue = mem[N].queue
      /\ m.obj[o] = v /\ \A q \in Objects : q # o => m.obj[q] = mem[N].obj[q]
  <2>1. PICK n \in MemRec : n = mem[N]  BY <1>1
  <2>2. m = Put(n, o, v) /\ v \in Deck \cup Child  BY <1>4, <2>1
  <2>3. QED  BY <1>2, <2>1, <2>2, PutIs
<1>6. PICK c : c = Setting(u, i, o, v, step)  OBVIOUS
<1>7. /\ c \in CallRec /\ c.pc = step /\ c.cmd = "set" /\ c.on = i /\ c.out = v
      /\ c.deck = 1 /\ c.kid = o /\ c.id = i /\ c.todo = u.todo /\ c.reply = u.reply
  <2>1. step \in Steps /\ v \in Deck \cup Child  BY DEF Steps
  <2>2. QED  BY <1>2, <1>6, <2>1, SettingChildFields
<1>8. Becomes(p, m, c, {})
  <2>1. Becomes(p, m, [Holds(u, i, o) EXCEPT !.pc = step, !.cmd = "set", !.on = i, !.out = m.obj[o]], {})
    BY <1>4, Zenon DEF Set
  <2>2. c = [Holds(u, i, o) EXCEPT !.pc = step, !.cmd = "set", !.on = i, !.out = m.obj[o]]
    BY <1>5, <1>6, Zenon DEF Setting
  <2>3. QED  BY <2>1, <2>2, Zenon
<1>9. CallOK(p, c)
  BY <1>1, <1>2, <1>7, ConstantFacts
  DEF CallOK, Commanded, Holding, Named, Does, Is, OfStart, Fetches, Used
<1>10. LegalTurn(p, m, c, {})  BY <1>7, <1>9 DEF LegalTurn, Hit, Fetches
<1>11. (\A q : Obj(q) = mem[N].obj[q]) /\ (\A j : Slot(j) = mem[N].slot[j] /\ Owner(j) = mem[N].owner[j])
       /\ (\A k : Line(k) = mem[N].queue[k])
  BY DEF Obj, Slot, Owner, Line
<1>12. LegalSlots(p, m, c)  BY <1>1, <1>5, <1>11 DEF LegalSlots, Memory
<1>13. LegalObjects(p, m, c)
  <2>1. \A q \in Objects : q # o => m.obj[q] = Obj(q)  BY <1>5, <1>11
  <2>2. QED  BY <1>3, <1>5, <1>7, <2>1 DEF LegalObjects
<1>14. LegalNames(p, m, c)
  <2>1. \A r \in c.todo : Known(r[2])  BY <1>1, <1>7 DEF Names
  <2>2. QED  BY <1>7, <2>1 DEF LegalNames
<1>15. LegalNotes(p, m, c)
  <2>1. m.obj[1] = Notes  BY <1>1, <1>2, <1>5, ConstantFacts
  <2>2. QED  BY <1>1, <2>1 DEF LegalNotes
<1>16. LegalSends(p, m, c)  BY <1>1, <1>2, <1>5, <1>7, <1>11, ConstantFacts DEF LegalSends
<1>17. LegalMarks(p, m, c)  BY <1>5, <1>7 DEF LegalMarks, Entered, Marked, Is
<1>18. LegalLine(p, m, c, {})
  <2>1. \A k \in Keys : m.queue[k] = Line(k)  BY <1>5, <1>11
  <2>2. InLine(p, call[p]) <=> InLine(p, c)  BY <1>7 DEF InLine, OfStart, Is
  <2>3. QED  BY <2>1, <2>2 DEF LegalLine, SameLine
<1>19. Legal(p, m, c, {})
  BY <1>10, <1>12, <1>13, <1>14, <1>15, <1>16, <1>17, <1>18 DEF Legal
<1>20. PICK x \in SUBSET Calls : x = {}  OBVIOUS
<1>21. QED  BY <1>1, <1>5, <1>7, <1>8, <1>19, <1>20, SharedKept
-----------------------------------------------------------------------------
(* The actions                                                             *)

\* Who has a turn, and what it has.
LEMMA Handler ==
    ASSUME Sheltered, Shared, NEW p \in Calls, NEW step, step # "done", At_(p, step)
    PROVE  /\ p \in Used /\ p \in Ready /\ call[p].pc = step /\ At[p] = N /\ M(p) = mem[N] /\ C(p) = call[p]
           /\ call[p] \in CallRec /\ CallOK(p, call[p])
           /\ call[p].reply = "none"
           /\ step \notin {"idle", "wait"} => call[p].deck = 1 /\ MyDeck(p) = Notes
           /\ call[p].kid # None => call[p].id # None
           /\ \A r \in call[p].todo : Known(r[2])
           /\ Is(p, "start") /\ step \in OfStart \cup {"wait", "noted"} => InLine(p, call[p])
           /\ \A k \in Keys : Notes.acts[k] # None => Known(Notes.acts[k]) /\ Notes.acts[k] \in Children
<1>1. p \in Used /\ p \in Ready /\ call[p].pc = step /\ At[p] = N /\ M(p) = mem[N] /\ C(p) = call[p]
  BY Turns
<1>2. call[p] \in CallRec /\ CallOK(p, call[p]) /\ Names /\ Notes = mem[N].obj[1] /\ Notes \in Deck
  BY SharedFacts
<1>3. call[p].reply = "none" /\ (call[p].kid # None => call[p].id # None)
      /\ (step \notin {"idle", "wait"} => call[p].deck = 1)
  BY <1>1, <1>2 DEF CallOK, Holding
<1>4. step \notin {"idle", "wait"} => MyDeck(p) = Notes  BY <1>1, <1>2, <1>3 DEF MyDeck
<1>5. /\ \A r \in call[p].todo : Known(r[2])
      /\ \A k \in Keys : Notes.acts[k] # None => Known(Notes.acts[k]) /\ Notes.acts[k] \in Children
  BY <1>2, DeckChild DEF Names
<1>6. Is(p, "start") /\ step \in OfStart \cup {"wait", "noted"} => InLine(p, call[p])
  BY <1>1 DEF InLine
<1>7. QED  BY <1>1, <1>2, <1>3, <1>4, <1>5, <1>6

\* A handler goes on, or waits for a touch, with what it has.
LEMMA GoesOn ==
    ASSUME Sheltered, Shared, NEW p \in Used,
           p \in Ready \/ (Ready = {} /\ call[p].pc \in {"idle", "auth"}),
           NEW m, Plain(p, m), NEW u \in CallRec,
           NEW step \in {"open", "work", "auth", "locked", "probe", "replay"},
           NEW c, c = Going(u, step) \/ (c = Waiting(u, step) /\ step \in {"work", "probe"}),
           step = "probe" => c = Waiting(u, step),
           NEW wakes \in SUBSET Calls, wakes = {} \/ (wakes = {p} /\ c = Going(u, step)),
           Becomes(p, m, c, wakes), made' = made,
           u.deck = 1, u.reply = "none", u.id = call[p].id, u.kid \in {None, call[p].kid},
           u.kid # None => u.id # None,
           Is(p, "end") => u.id = None, step \in {"open", "work"} => u.kid = None,
           \A r \in u.todo : Known(r[2]),
           IF step \in {"locked", "probe"} THEN Is(p, "start") /\ InLine(p, call[p]) ELSE ~InLine(p, call[p]),
           step = "probe" => Notes.acts[Key(p)] = None,
           step = "auth" => Is(p, "watch"),
           step = "replay" => p \in Sockets /\ (Is(p, "join") => Marked(p, call[p]))
    PROVE  Shared'
<1>1. p \in Calls /\ step \in Steps  BY DEF Used, Steps
<1>2. /\ c \in CallRec /\ c.pc = step /\ c.cmd \in {"none", "touch"} /\ c.deck = 1 /\ c.kid = u.kid /\ c.id = u.id
      /\ c.todo = u.todo /\ c.reply = "none"
      /\ step \notin {"work", "probe"} => c.cmd = "none"
      /\ step = "probe" => c.cmd = "touch"
      /\ wakes # {} => c.cmd = "none"
  BY <1>1, GoingFields, WaitingFields
<1>3. CallOK(p, c)
  BY <1>1, <1>2 DEF CallOK, Commanded, Holding, Named, Does, Is, OfStart, Fetches, Used, Sockets
<1>4. InLine(p, call[p]) <=> InLine(p, c)
  BY <1>2 DEF InLine, OfStart, Is
<1>5. ~Hit(c) /\ ~Entered(p, c)  BY <1>2 DEF Hit, Entered, Fetches
<1>6. Marked(p, c) => Marked(p, call[p]) /\ (Is(p, "start") => c.id = call[p].id)
  BY <1>2 DEF Marked, Is, Sockets
<1>7. QED  BY <1>2, <1>3, <1>4, <1>5, <1>6, PlainStep

\* The deck is read from the cache.
LEMMA GetDeckKept ==
    ASSUME Sheltered, Shared, NEW p \in Used, NEW step \in {"open", "locked"},
           \/ step = "open" /\ Ready = {} /\ call[p].pc = "idle"
           \/ step = "locked" /\ p \in Ready /\ call[p].pc = "wait",
           Get(p, mem[N], call[p], TheDeck, step), made' = made
    PROVE  Shared'
<1>1. /\ p \in Calls /\ call[p] \in CallRec /\ Slot(TheDeck) = 1 /\ Slot(TheDeck) = mem[N].slot[TheDeck]
      /\ CallOK(p, call[p]) /\ Names
  BY SharedFacts DEF Used
<1>2. 1 # None  BY ConstantFacts
<1>3. PICK v : v = Holds(call[p], TheDeck, 1)  OBVIOUS
<1>4. v \in CallRec /\ v.deck = 1 /\ v.kid = call[p].kid /\ v.id = call[p].id /\ v.todo = call[p].todo
      /\ v.reply = call[p].reply
  BY <1>1, <1>3, HoldsFields
<1>5. PICK c : c = Going(v, step)  OBVIOUS
<1>6. PICK w \in SUBSET Calls : w = {p}  BY <1>1
<1>7. Becomes(p, mem[N], c, w)
  <2>1. \/ mem[N].slot[TheDeck] # None
           /\ Becomes(p, mem[N], Going(Holds(call[p], TheDeck, mem[N].slot[TheDeck]), step), {p})
        \/ mem[N].slot[TheDeck] = None
           /\ Becomes(p, Owned(mem[N], TheDeck, p), Fetching(call[p], TheDeck, step), {})
    BY GetIs, Zenon
  <2>2. mem[N].slot[TheDeck] = 1  BY <1>1
  <2>3. Becomes(p, mem[N], Going(Holds(call[p], TheDeck, 1), step), {p})  BY <1>2, <2>1, <2>2
  <2>4. QED  BY <2>3, <1>3, <1>5, <1>6
<1>8. Plain(p, mem[N])  BY <1>1, PlainMemory
<1>9. v.reply = "none" /\ v.kid = None /\ (step = "open" => v.id = None)
      /\ (call[p].pc = "wait" => Is(p, "start"))
  BY <1>1, <1>4 DEF CallOK, Holding, Does
<1>10. IF step \in {"locked", "probe"} THEN Is(p, "start") /\ InLine(p, call[p]) ELSE ~InLine(p, call[p])
  BY <1>9 DEF InLine, OfStart
<1>11. \A r \in v.todo : Known(r[2])  BY <1>1, <1>4 DEF Names
<1>12. Is(p, "end") => v.id = None  BY <1>9 DEF Is
<1>13. QED  BY <1>4, <1>5, <1>6, <1>7, <1>8, <1>9, <1>10, <1>11, <1>12, GoesOn

LEMMA BeginKept ==
    ASSUME Sheltered, Shared, NEW p \in Calls, Begin(p)
    PROVE  Shared'
<1>1. call[p].pc = "idle" /\ conn[At[p]].ready = {} /\ Get(p, M(p), C(p), TheDeck, "open") /\ made' = made
  BY DEF Begin
<1>2. p \in Used  BY <1>1, SharedFacts DEF CallOK, Does, Used
<1>3. At[p] = N  BY <1>2, SharedFacts, OneHome
<1>4. Ready = {} /\ M(p) = mem[N] /\ C(p) = call[p]  BY <1>1, <1>3 DEF Ready, M, C
<1>5. Get(p, mem[N], call[p], TheDeck, "open")  BY <1>1, <1>4
<1>6. QED  BY <1>1, <1>2, <1>4, <1>5, GetDeckKept

LEMMA TurnKept ==
    ASSUME Sheltered, Shared, NEW p \in Calls, Turn(p)
    PROVE  Shared'
<1>1. At_(p, "wait") /\ Get(p, M(p), C(p), TheDeck, "locked") /\ made' = made  BY DEF Turn, Mind
<1>2. p \in Used /\ p \in Ready /\ call[p].pc = "wait" /\ M(p) = mem[N] /\ C(p) = call[p]  BY <1>1, Handler
<1>3. Get(p, mem[N], call[p], TheDeck, "locked")  BY <1>1, <1>2
<1>4. QED  BY <1>1, <1>2, <1>3, GetDeckKept

LEMMA OpenKept ==
    ASSUME Sheltered, Shared, NEW p \in Calls, Open(p)
    PROVE  Shared'
<1>1. At_(p, "open") /\ made' = made  BY DEF Open
<1>2. /\ p \in Used /\ p \in Ready /\ call[p].pc = "open" /\ M(p) = mem[N] /\ C(p) = call[p]
      /\ call[p] \in CallRec /\ CallOK(p, call[p]) /\ call[p].deck = 1 /\ call[p].reply = "none"
      /\ (call[p].kid # None => call[p].id # None) /\ \A r \in call[p].todo : Known(r[2])
  BY <1>1, Handler
<1>3. Loaded(p, TheDeck).mem = mem[N] /\ Loaded(p, TheDeck).at = 1 /\ 1 # None
  BY <1>1, DeckLoaded, ConstantFacts
<1>4. PICK v : v = [C(p) EXCEPT !.deck = 1]  OBVIOUS
<1>5. v = Holds(call[p], TheDeck, 1)  BY <1>2, <1>4, Zenon DEF Holds
<1>6. v \in CallRec /\ v.deck = 1 /\ v.kid = call[p].kid /\ v.id = call[p].id /\ v.todo = call[p].todo
      /\ v.reply = call[p].reply
  BY <1>2, <1>5, HoldsFields
<1>7. Goes(p, mem[N], v, "work")
  <2>1. ~scene.touches  BY DEF Sheltered
  <2>2. QED  BY <1>3, <1>4, <2>1, Zenon DEF Open
<1>8. Becomes(p, mem[N], Going(v, "work"), {p})  BY <1>7 DEF Goes, Going
<1>9. Plain(p, mem[N])  BY <1>2, PlainMemory
<1>10. ~InLine(p, call[p]) /\ (Is(p, "end") => v.id = None) /\ v.kid = None
  BY <1>2, <1>6 DEF InLine, OfStart, CallOK, Holding
<1>11. p \in Calls /\ {p} \in SUBSET Calls  OBVIOUS
<1>12. PICK c : c = Going(v, "work")  OBVIOUS
<1>13. PICK w \in SUBSET Calls : w = {p}  BY <1>11
<1>14. Becomes(p, mem[N], c, w)  BY <1>8, <1>12, <1>13
<1>15. QED  BY <1>1, <1>2, <1>6, <1>9, <1>10, <1>12, <1>13, <1>14, GoesOn

LEMMA WatchKept ==
    ASSUME Sheltered, Shared, NEW p \in Calls, Watch(p)
    PROVE  Shared'
<1>1. At_(p, "work") /\ Is(p, "watch") /\ made' = made  BY DEF Watch, Working, Mind
<1>2. /\ p \in Used /\ p \in Ready /\ call[p].pc = "work" /\ M(p) = mem[N] /\ C(p) = call[p]
      /\ call[p] \in CallRec /\ CallOK(p, call[p]) /\ call[p].deck = 1 /\ call[p].reply = "none"
      /\ (call[p].kid # None => call[p].id # None) /\ \A r \in call[p].todo : Known(r[2])
  BY <1>1, Handler
<1>3. PICK c : c = Going(call[p], "auth")  OBVIOUS
<1>4. PICK w \in SUBSET Calls : w = {}  OBVIOUS
<1>5. Becomes(p, mem[N], [C(p) EXCEPT !.pc = "auth", !.cmd = "none"], {})  BY <1>2 DEF Watch
<1>6. Becomes(p, mem[N], c, w)  BY <1>2, <1>3, <1>4, <1>5 DEF Going
<1>7. Plain(p, mem[N])  BY <1>2, PlainMemory
<1>8. ~InLine(p, call[p]) /\ ~Is(p, "end")  BY <1>1, <1>2 DEF InLine, OfStart, Is
<1>9. QED  BY <1>1, <1>2, <1>3, <1>4, <1>6, <1>7, <1>8, GoesOn

\* What runs according to the record is known.
LEMMA RunningKnown ==
    ASSUME Sheltered, Shared
    PROVE  Running(Notes) \in SUBSET (Keys \X Children) /\ \A r \in Running(Notes) : Known(r[2])
<1>1. Notes \in Deck /\ Names  BY DEF Shared, Memory
<1>2. \A k \in Keys : Notes.acts[k] # None => Known(Notes.acts[k]) /\ Notes.acts[k] \in Children
  BY <1>1, DeckChild DEF Names
<1>3. QED  BY <1>2 DEF Running

LEMMA AuthenticateKept ==
    ASSUME Sheltered, Shared, NEW p \in Calls, Authenticate(p)
    PROVE  Shared'
<1>1. /\ call[p].pc = "auth" /\ conn[At[p]].ready = {} /\ made' = made
      /\ Goes(p, M(p), [C(p) EXCEPT !.todo = Running(MyDeck(p))], "replay")
  BY DEF Authenticate, Mind
<1>2. /\ call[p] \in CallRec /\ CallOK(p, call[p]) /\ Notes = mem[N].obj[1] /\ Names
  BY SharedFacts
<1>3. Is(p, "watch") /\ call[p].deck = 1 /\ call[p].reply = "none" /\ (call[p].kid # None => call[p].id # None)
  BY <1>1, <1>2 DEF CallOK, Does, Holding
<1>4. p \in Used  BY <1>3 DEF Used, Is
<1>5. At[p] = N  BY <1>4, SharedFacts, OneHome
<1>6. Ready = {} /\ M(p) = mem[N] /\ C(p) = call[p] /\ MyDeck(p) = Notes
  BY <1>1, <1>2, <1>3, <1>5 DEF Ready, M, C, MyDeck
<1>7. PICK v : v = Listing(call[p], Running(Notes))  OBVIOUS
<1>8. /\ v \in CallRec /\ v.deck = 1 /\ v.kid = call[p].kid /\ v.id = call[p].id /\ v.todo = Running(Notes)
      /\ v.reply = "none"
  BY <1>2, <1>3, <1>7, RunningKnown, ListingFields
<1>9. PICK c : c = Going(v, "replay")  OBVIOUS
<1>10. PICK w \in SUBSET Calls : w = {p}  OBVIOUS
<1>11. Becomes(p, mem[N], c, w)
  <2>1. v = [C(p) EXCEPT !.todo = Running(MyDeck(p))]  BY <1>6, <1>7 DEF Listing
  <2>2. Goes(p, mem[N], v, "replay")  BY <1>1, <1>6, <2>1
  <2>3. QED  BY <2>2, <1>9, <1>10 DEF Goes, Going
<1>12. Plain(p, mem[N])  BY <1>1, PlainMemory
<1>13. ~InLine(p, call[p]) /\ ~Is(p, "end") /\ p \in Sockets /\ ~Is(p, "join")
  BY <1>1, <1>3 DEF InLine, OfStart, Is, Sockets
<1>14. \A r \in v.todo : Known(r[2])  BY <1>8, RunningKnown
<1>15. QED  BY <1>1, <1>3, <1>4, <1>6, <1>8, <1>9, <1>10, <1>11, <1>12, <1>13, <1>14, GoesOn

\* A handler that answers with what it has.
LEMMA AnsweredPlain ==
    ASSUME Sheltered, Shared, NEW p \in Calls, NEW step, step \notin {"done", "made"}, At_(p, step),
           NEW reply \in {"refused", "failed"}, Answers(p, mem[N], reply), made' = made
    PROVE  Shared'
<1>1. p \in Used /\ p \in Ready /\ call[p].pc = step  BY Handler
<1>2. Plain(p, mem[N])  BY <1>1, PlainMemory
<1>3. QED  BY <1>1, <1>2, AnswersKept

LEMMA EnterKept ==
    ASSUME Sheltered, Shared, NEW p \in Calls, Enter(p)
    PROVE  Shared'
<1>1. At_(p, "work") /\ Is(p, "entry") /\ made' = made  BY DEF Enter, Working, Mind
<1>2. /\ p \in Used /\ p \in Ready /\ call[p].pc = "work" /\ M(p) = mem[N] /\ C(p) = call[p]
      /\ call[p] \in CallRec /\ call[p].deck = 1 /\ call[p].reply = "none" /\ MyDeck(p) = Notes
      /\ (\A r \in call[p].todo : Known(r[2]))
      /\ (\A k \in Keys : Notes.acts[k] # None => Known(Notes.acts[k]) /\ Notes.acts[k] \in Children)
      /\ Key(p) \in Keys
  BY <1>1, Handler, SharedFacts
<1>3. CASE Refuses(p)
  <2>1. Answers(p, mem[N], "refused")  BY <1>2, <1>3 DEF Refuses
  <2>2. QED  BY <1>1, <2>1, AnsweredPlain
<1>4. CASE /\ Notes.acts[Key(p)] # None
           /\ Get(p, mem[N], [C(p) EXCEPT !.id = Notes.acts[Key(p)]], Notes.acts[Key(p)], "child")
  <2>1. PICK i \in Children : i = Notes.acts[Key(p)] /\ Known(i)  BY <1>2, <1>4
  <2>2. PICK v : v = Naming(call[p], i)  OBVIOUS
  <2>3. /\ v \in CallRec /\ v.deck = 1 /\ v.id = i /\ v.todo = call[p].todo /\ v.reply = "none"
    BY <1>2, <2>2, NamingFields
  <2>4. v = [C(p) EXCEPT !.id = Notes.acts[Key(p)]]  BY <1>2, <2>1, <2>2 DEF Naming
  <2>5. Get(p, mem[N], v, i, "child")  BY <1>4, <2>1, <2>4
  <2>6. Plain(p, mem[N])  BY <1>2, PlainMemory
  <2>7. ~Is(p, "start") /\ ~Is(p, "join") /\ ~Is(p, "end")  BY <1>1 DEF Is
  <2>8. "child" \in Fetches \cup {"existing"}  BY DEF Fetches
  <2>9. QED  BY <1>1, <1>2, <2>1, <2>3, <2>5, <2>6, <2>7, <2>8, GetChildKept
<1>5. QED  BY <1>2, <1>3, <1>4 DEF Enter

\* A start enters its line.
LEMMA QueueKept ==
    ASSUME Sheltered, Shared, NEW p \in Calls, Queue(p)
    PROVE  Shared'
<1>1. At_(p, "work") /\ Is(p, "start") /\ made' = made  BY DEF Queue, Working, Mind
<1>2. /\ p \in Used /\ p \in Ready /\ call[p].pc = "work" /\ M(p) = mem[N] /\ C(p) = call[p]
      /\ call[p] \in CallRec /\ CallOK(p, call[p]) /\ call[p].reply = "none"
      /\ (call[p].kid # None => call[p].id # None) /\ (\A r \in call[p].todo : Known(r[2]))
      /\ Key(p) \in Keys /\ mem[N] \in MemRec /\ \A k : Line(k) = mem[N].queue[k]
  BY <1>1, Handler, SharedFacts
<1> DEFINE s == Append(Line(Key(p)), p)
           q == [mem[N].queue EXCEPT ![Key(p)] = s]
<1>3. PICK m : m = [mem[N] EXCEPT !.queue[Key(p)] = Append(@, p)]  OBVIOUS
<1>4. Line(Key(p)) \in Seq(Calls) /\ s \in Seq(Calls)  BY <1>2, MemFields
<1>5. /\ mem[N].queue \in [Keys -> Seq(Calls)] /\ mem[N].slot \in [Ids -> Objects \cup {None}]
      /\ mem[N].owner \in [Ids -> Calls \cup {None}]
      /\ mem[N].obj \in [Objects -> Deck \cup Child \cup {None}]
  BY <1>2, MemFields
<1>6. q \in [Keys -> Seq(Calls)] /\ \A k \in Keys : q[k] = IF k = Key(p) THEN s ELSE mem[N].queue[k]
  BY <1>2, <1>4, <1>5
<1>7. m = [mem[N] EXCEPT !.queue = q]  BY <1>2, <1>3
<1> HIDE DEF q
<1>8. m \in MemRec /\ m.queue = q /\ m.slot = mem[N].slot /\ m.owner = mem[N].owner /\ m.obj = mem[N].obj
  BY <1>2, <1>6, <1>7 DEF MemRec
<1>9. m.queue[Key(p)] = s /\ \A k \in Keys : m.queue[k] = IF k = Key(p) THEN s ELSE Line(k)
  BY <1>2, <1>6, <1>8
<1>10. s = <<p>> <=> Line(Key(p)) = <<>>
  <2>1. Len(s) = Len(Line(Key(p))) + 1 /\ Len(Line(Key(p))) \in Nat  BY <1>4, AppendParts
  <2>2. Len(<<p>>) = 1  OBVIOUS
  <2>3. Line(Key(p)) = <<>> => s = <<p>>  OBVIOUS
  <2>4. s = <<p>> => Line(Key(p)) = <<>>  BY <2>1, <2>2, <1>4, EmptySeq
  <2>5. QED  BY <2>3, <2>4
<1>11. PICK c : c = Queueing(call[p])  OBVIOUS
<1>12. /\ c \in CallRec /\ c.pc = "wait" /\ c.cmd = "none" /\ c.deck = None /\ c.kid = call[p].kid
       /\ c.id = call[p].id /\ c.todo = call[p].todo /\ c.reply = call[p].reply
  BY <1>2, <1>11, QueueingFields
<1>13. PICK w \in SUBSET Calls : w = IF Line(Key(p)) = <<>> THEN {p} ELSE {}  OBVIOUS
<1>14. Becomes(p, m, c, w)
  <2>1. Becomes(p, m, [C(p) EXCEPT !.pc = "wait", !.cmd = "none", !.deck = None],
                IF m.queue[Key(p)] = <<p>> THEN {p} ELSE {})
    BY <1>2, <1>3 DEF Queue
  <2>2. w = IF m.queue[Key(p)] = <<p>> THEN {p} ELSE {}  BY <1>9, <1>10, <1>13
  <2>3. c = [C(p) EXCEPT !.pc = "wait", !.cmd = "none", !.deck = None]  BY <1>2, <1>11 DEF Queueing
  <2>4. QED  BY <2>1, <2>2, <2>3
<1>15. LegalSlots(p, mem[N], c) /\ LegalObjects(p, mem[N], c) /\ LegalNotes(p, mem[N], c) /\ mem[N].obj[1] = Notes
  BY <1>2, <1>12, PlainMemory, PlainIsLegal
<1>16. LegalSlots(p, m, c) /\ LegalObjects(p, m, c) /\ LegalNotes(p, m, c) /\ m.obj[1] = Notes
  BY <1>8, <1>12, <1>15 DEF LegalSlots, LegalObjects, LegalNotes, Enters, Removes
<1>17. call[p].kid = None  BY <1>2 DEF CallOK, Holding
<1>18. CallOK(p, c)
  BY <1>1, <1>2, <1>12, <1>17 DEF CallOK, Commanded, Holding, Named, Does, Is, OfStart, Fetches
<1>19. LegalTurn(p, m, c, w)  BY <1>2, <1>12, <1>13, <1>18 DEF LegalTurn, Hit, Fetches
<1>20. LegalNames(p, m, c) /\ LegalSends(p, m, c)  BY <1>1, <1>2, <1>12 DEF LegalNames, LegalSends, Is
<1>21. LegalMarks(p, m, c)  BY <1>1, <1>12 DEF LegalMarks, Marked, Entered, Is
<1>22. LegalLine(p, m, c, w)
  BY <1>1, <1>2, <1>9, <1>12, <1>13 DEF LegalLine, Lengthened, InLine, OfStart
<1>23. Legal(p, m, c, w)  BY <1>16, <1>19, <1>20, <1>21, <1>22 DEF Legal
<1>24. QED  BY <1>8, <1>12, <1>14, <1>23, SharedKept

\* The record of the deck with one thing changed.
Entering(d, k, i)  == [d EXCEPT !.acts[k] = i]
Joining(d, s)      == [d EXCEPT !.students = @ \cup {s}]
Stroking(d, p)     == [d EXCEPT !.strokes = @ \cup {p}]
LEMMA DeckChanges ==
    ASSUME NEW d \in Deck
    PROVE  /\ \A k \in Keys, i \in Children \cup {None} :
                /\ Entering(d, k, i) \in Deck
                /\ Entering(d, k, i).students = d.students /\ Entering(d, k, i).strokes = d.strokes
                /\ \A j \in Keys : Entering(d, k, i).acts[j] = IF j = k THEN i ELSE d.acts[j]
           /\ \A s \in Students :
                /\ Joining(d, s) \in Deck /\ Joining(d, s).students = d.students \cup {s}
                /\ Joining(d, s).strokes = d.strokes /\ Joining(d, s).acts = d.acts
           /\ \A p \in Calls :
                /\ Stroking(d, p) \in Deck /\ Stroking(d, p).students = d.students
                /\ Stroking(d, p).strokes = d.strokes \cup {p} /\ Stroking(d, p).acts = d.acts
<1>1. d.acts \in [Keys -> Children \cup {None}]  BY DEF Deck
<1>2. ASSUME NEW k \in Keys, NEW i \in Children \cup {None}
      PROVE  /\ Entering(d, k, i) \in Deck
             /\ Entering(d, k, i).students = d.students /\ Entering(d, k, i).strokes = d.strokes
             /\ \A j \in Keys : Entering(d, k, i).acts[j] = IF j = k THEN i ELSE d.acts[j]
  <2> DEFINE a == [d.acts EXCEPT ![k] = i]
  <2>1. a \in [Keys -> Children \cup {None}] /\ \A j \in Keys : a[j] = IF j = k THEN i ELSE d.acts[j]
    BY <1>1
  <2>2. PICK e : e = Entering(d, k, i)  OBVIOUS
  <2>3. e = [d EXCEPT !.acts = a]  BY <2>2 DEF Entering
  <2> HIDE DEF a
  <2>4. e \in Deck /\ e.students = d.students /\ e.strokes = d.strokes /\ e.acts = a
    BY <2>1, <2>3 DEF Deck
  <2>5. QED  BY <2>1, <2>2, <2>4
<1>3. ASSUME NEW s \in Students
      PROVE  /\ Joining(d, s) \in Deck /\ Joining(d, s).students = d.students \cup {s}
             /\ Joining(d, s).strokes = d.strokes /\ Joining(d, s).acts = d.acts
  BY DEF Joining, Deck
<1>4. ASSUME NEW p \in Calls
      PROVE  /\ Stroking(d, p) \in Deck /\ Stroking(d, p).students = d.students
             /\ Stroking(d, p).strokes = d.strokes \cup {p} /\ Stroking(d, p).acts = d.acts
  BY DEF Stroking, Deck
<1>5. QED  BY <1>2, <1>3, <1>4

\* An entry that is there, seen by the start whose turn it is, is in every copy of the record.
LEMMA EntrySettled ==
    ASSUME Sheltered, Shared, NEW p \in Calls, At_(p, "locked"), Notes.acts[Key(p)] # None, Unended(Key(p))
    PROVE  Settled(Key(p))
<1>1. call[p].pc = "locked" /\ Key(p) \in Keys /\ DeckFacts /\ Lock /\ Typed /\ CallOK(p, call[p])
  BY Turns, SharedFacts
<1>2. Is(p, "start") /\ InLine(p, call[p])  BY <1>1 DEF CallOK, Does, OfStart, InLine
<1>3. ASSUME NEW q \in Calls, Is(q, "start"), Key(q) = Key(p), Noting(q) PROVE FALSE
  <2>1. call[q].pc = "noted" /\ InLine(q, call[q])  BY <1>3 DEF Noting, InLine
  <2>2. q = p  BY <1>1, <1>2, <1>3, <2>1, OneAtWork
  <2>3. QED  BY <2>1, <2>2, <1>1
<1>4. QED  BY <1>1, <1>3 DEF DeckFacts

LEMMA LookKept ==
    ASSUME Sheltered, Shared, NEW p \in Calls, Look(p)
    PROVE  Shared'
<1>1. At_(p, "locked") /\ made' = made  BY DEF Look, Mind
<1>2. /\ p \in Used /\ p \in Ready /\ call[p].pc = "locked" /\ M(p) = mem[N] /\ C(p) = call[p]
      /\ call[p] \in CallRec /\ CallOK(p, call[p]) /\ call[p].deck = 1 /\ call[p].reply = "none"
      /\ (call[p].kid # None => call[p].id # None) /\ (\A r \in call[p].todo : Known(r[2]))
      /\ (\A k \in Keys : Notes.acts[k] # None => Known(Notes.acts[k]) /\ Notes.acts[k] \in Children)
      /\ Key(p) \in Keys /\ Notes = mem[N].obj[1] /\ Names
  BY <1>1, Handler, SharedFacts
<1>3. Is(p, "start") /\ InLine(p, call[p]) /\ ~Is(p, "join") /\ ~Is(p, "end")
  BY <1>2 DEF CallOK, Does, OfStart, InLine, Is
<1>4. Loaded(p, TheDeck).mem = mem[N] /\ Loaded(p, TheDeck).at = 1 /\ 1 # None
  BY <1>1, DeckLoaded, ConstantFacts
<1>5. PICK v : v = [C(p) EXCEPT !.deck = 1]  OBVIOUS
<1>6. v = Holds(call[p], TheDeck, 1)  BY <1>2, <1>5, Zenon DEF Holds
<1>7. v \in CallRec /\ v.deck = 1 /\ v.kid = call[p].kid /\ v.id = call[p].id /\ v.todo = call[p].todo
      /\ v.reply = call[p].reply
  BY <1>2, <1>6, HoldsFields
<1>8. Record(Loaded(p, TheDeck)) = Notes  BY <1>2, <1>4 DEF Record
<1>9. Plain(p, mem[N])  BY <1>2, PlainMemory
<1>10. \/ Notes.acts[Key(p)] = None /\ Waits(p, mem[N], v, "probe")
       \/ /\ Notes.acts[Key(p)] # None
          /\ Get(p, mem[N], [v EXCEPT !.id = Notes.acts[Key(p)]], Notes.acts[Key(p)], "existing")
  BY <1>4, <1>5, <1>8 DEF Look
<1>11. CASE Notes.acts[Key(p)] = None /\ Waits(p, mem[N], v, "probe")
  <2>1. PICK c : c = Waiting(v, "probe")  OBVIOUS
  <2>2. PICK w \in SUBSET Calls : w = {}  OBVIOUS
  <2>3. Becomes(p, mem[N], c, w)  BY <1>11, <2>1, <2>2 DEF Waits, Waiting
  <2>4. QED  BY <1>1, <1>2, <1>3, <1>7, <1>9, <1>11, <2>1, <2>2, <2>3, GoesOn
<1>12. CASE /\ Notes.acts[Key(p)] # None
            /\ Get(p, mem[N], [v EXCEPT !.id = Notes.acts[Key(p)]], Notes.acts[Key(p)], "existing")
  <2>1. PICK i \in Children : i = Notes.acts[Key(p)] /\ Known(i)  BY <1>2, <1>12
  <2>2. PICK u : u = Naming(v, i)  OBVIOUS
  <2>3. u \in CallRec /\ u.deck = 1 /\ u.id = i /\ u.todo = call[p].todo /\ u.reply = "none"
    BY <1>2, <1>7, <2>2, NamingFields
  <2>4. u = [v EXCEPT !.id = Notes.acts[Key(p)]]  BY <2>1, <2>2 DEF Naming
  <2>5. Get(p, mem[N], u, i, "existing")  BY <1>12, <2>1, <2>4
  <2>6. mem[N].slot[i] # None  BY <1>2, <1>12, <2>1 DEF Names, Slot
  <2>7. Unended(Key(p)) => Settled(Key(p))  BY <1>1, <1>12, EntrySettled
  <2>8. "existing" \in Fetches \cup {"existing"} /\ "existing" \notin Fetches  BY DEF Fetches
  <2>9. QED
    BY <1>1, <1>2, <1>3, <1>9, <2>1, <2>3, <2>5, <2>6, <2>7, <2>8, GetChildKept DEF Fetches
<1>13. QED  BY <1>10, <1>11, <1>12

\* The manager's token is minted into the child that the start holds.
LEMMA MintKept ==
    ASSUME Sheltered, Shared, NEW p \in Calls, NEW step \in {"existing", "mint"}, At_(p, step),
           call[p].kid # None, Mint(p, Loaded(p, call[p].id)), made' = made
    PROVE  Shared'
<1>1. /\ p \in Used /\ p \in Ready /\ call[p].pc = step /\ M(p) = mem[N] /\ C(p) = call[p]
      /\ call[p] \in CallRec /\ CallOK(p, call[p]) /\ call[p].deck = 1 /\ call[p].reply = "none"
      /\ call[p].id # None /\ Memory
  BY Handler, SharedFacts
<1>2. Is(p, "start") /\ InLine(p, call[p]) /\ Marked(p, call[p]) /\ ~Is(p, "join") /\ ~Is(p, "entry") /\ ~Is(p, "end")
  BY <1>1 DEF CallOK, Does, OfStart, InLine, Marked, Is
<1> DEFINE l == Loaded(p, call[p].id)
<1>3. l.mem = mem[N] /\ l.at = call[p].kid /\ Slot(call[p].id) = call[p].kid
  BY PlainLoaded DEF Fetches
<1>4. PICK i \in Children : i = call[p].id  BY <1>1, CallFields
<1>5. PICK o \in Objects : o = call[p].kid  BY <1>1, CallFields
<1>6. Obj(o) \in Child /\ Record(l) = Obj(o)
  BY <1>1, <1>3, <1>4, <1>5 DEF Memory, RefOf, Record, Obj
<1>7. Plain(p, mem[N])  BY <1>1, PlainMemory
<1>8. CASE Answers(p, mem[N], "ok")
  BY <1>1, <1>2, <1>7, <1>8, AnswersKept
<1>9. CASE Set(p, Put(mem[N], o, [Obj(o) EXCEPT !.manager = TRUE]), call[p], i, o, "minted")
  <2>1. PICK v : v = [Obj(o) EXCEPT !.manager = TRUE]  OBVIOUS
  <2>2. v \in Child /\ v.tokens = Obj(o).tokens  BY <1>6, <2>1 DEF Child
  <2>3. Set(p, Put(mem[N], o, v), call[p], i, o, "minted")  BY <1>9, <2>1
  <2>4. o # None  BY ConstantFacts
  <2>5. QED
    BY <1>1, <1>2, <1>3, <1>4, <1>5, <2>2, <2>3, <2>4, SetChildKept
<1>10. Answers(p, mem[N], "ok") \/ Set(p, Put(mem[N], o, [Obj(o) EXCEPT !.manager = TRUE]), call[p], i, o, "minted")
  BY <1>1, <1>3, <1>4, <1>5, <1>6 DEF Mint
<1>11. QED  BY <1>8, <1>9, <1>10

\* A new object: the cache and the calls have one of each child that was made, and of the deck.
LEMMA Least == ASSUME NEW T \in SUBSET Nat, T # {} PROVE \E x \in T : \A y \in T : x <= y
<1> DEFINE R == OpToRel(<, Nat)
<1>1. IsWellFoundedOn(R, Nat)  BY NatLessThanWellFounded
<1>2. \A x, y \in Nat : y < x => <<y, x>> \in R  BY DEF OpToRel
<1> HIDE DEF R
<1>3. PICK x \in T : \A y \in T : ~(<<y, x>> \in R)  BY <1>1, WFMin
<1>4. \A y \in T : y \in Nat /\ x \in Nat /\ ~(y < x)  BY <1>2, <1>3
<1>5. \A y \in T : x <= y  BY <1>4
<1>6. QED  BY <1>5

LEMMA FreshFree ==
    ASSUME Sheltered, Shared, made < MaxChildren
    PROVE  Fresh(mem[N]) \in Objects /\ Fresh(mem[N]) # 1 /\ Obj(Fresh(mem[N])) = None
<1>1. Memory /\ Typed  BY DEF Shared
<1>2. made \in Nat /\ made < MaxObjects - 1 /\ MaxObjects \in Nat /\ MaxChildren \in Nat
      /\ Objects = 1..MaxObjects /\ Children = 1..MaxChildren /\ Notes # None /\ Notes = Obj(1)
  BY <1>1, ConstantFacts, ConstantsOK DEF Typed, Objects, Children, Notes, Memory
<1>3. \E o \in Objects : Obj(o) = None
  <2>1. SUFFICES ASSUME \A o \in Objects : Obj(o) # None PROVE FALSE
    OBVIOUS
  <2> DEFINE S == 2..MaxObjects
             T == 1..made
             f == [o \in S |-> CHOOSE i \in Children : RefOf(i, o)]
  <2>2. IsFiniteSet(S) /\ Cardinality(S) = MaxObjects - 1 /\ IsFiniteSet(T) /\ Cardinality(T) = made
    BY <1>2, FS_Interval
  <2>3. \A o \in S : o \in Objects /\ o # 1  BY <1>2
  <2>4. ASSUME NEW o \in S PROVE f[o] \in T /\ f[o] \in Children /\ RefOf(f[o], o)
    <3>1. o \in Objects /\ o # 1 /\ Obj(o) # None  BY <2>1, <2>3
    <3>2. \E i \in Children : RefOf(i, o)  BY <3>1, <1>1 DEF Memory
    <3>3. f[o] \in Children /\ RefOf(f[o], o)  BY <3>2
    <3>4. f[o] <= made  BY <3>1, <3>3, <1>1 DEF Memory
    <3>5. QED  BY <3>3, <3>4, <1>2
  <2>5. f \in [S -> T]  BY <2>4
  <2> HIDE DEF f, S, T
  <2>6. PICK x \in S, y \in S : x # y /\ f[x] = f[y]  BY <1>2, <2>2, <2>5, FS_PigeonHole
  <2>7. x = y  BY <2>3, <2>4, <2>6, <1>1 DEF Memory
  <2>8. QED  BY <2>6, <2>7
<1> DEFINE F == {o \in Objects : Obj(o) = None}
<1>4. PICK o \in F : \A q \in F : o <= q
  <2>1. F # {} /\ F \in SUBSET Nat  BY <1>2, <1>3
  <2> HIDE DEF F
  <2>2. QED  BY <2>1, Least
<1>5. \E q \in Objects : mem[N].obj[q] = None /\ \A u \in Objects : mem[N].obj[u] = None => q <= u
  BY <1>4 DEF Obj
<1>6. Fresh(mem[N]) \in Objects /\ mem[N].obj[Fresh(mem[N])] = None  BY <1>5 DEF Fresh
<1>7. QED  BY <1>2, <1>6 DEF Obj

LEMMA CreateKept ==
    ASSUME Sheltered, Shared, NEW p \in Calls, Create(p)
    PROVE  Shared'
<1>1. At_(p, "probe") /\ made < MaxChildren /\ made' = made + 1  BY DEF Create
<1>2. /\ p \in Used /\ p \in Ready /\ call[p].pc = "probe" /\ M(p) = mem[N] /\ C(p) = call[p]
      /\ call[p] \in CallRec /\ CallOK(p, call[p]) /\ call[p].deck = 1 /\ call[p].reply = "none"
      /\ (\A r \in call[p].todo : Known(r[2]))
      /\ Key(p) \in Keys /\ Notes = mem[N].obj[1] /\ Names /\ Memory /\ mem[N] \in MemRec /\ Notes \in Deck
      /\ made \in Nat /\ (\A q : Obj(q) = mem[N].obj[q]) /\ (\A j : Slot(j) = mem[N].slot[j] /\ Owner(j) = mem[N].owner[j])
      /\ (\A k : Line(k) = mem[N].queue[k])
  BY <1>1, Handler, SharedFacts
<1>3. Is(p, "start") /\ InLine(p, call[p]) /\ ~Is(p, "join") /\ ~Is(p, "end") /\ ~Is(p, "entry")
  BY <1>2 DEF CallOK, Does, OfStart, InLine, Is
<1>4. PICK o \in Objects : o = Fresh(mem[N]) /\ o # 1 /\ Obj(o) = None  BY <1>1, FreshFree
<1>5. PICK i \in Children : i = made + 1  BY <1>1, <1>2, ConstantFacts DEF Children
<1>6. made' = i /\ i # TheDeck /\ i \in Ids  BY <1>1, <1>5, ConstantFacts
<1>7. PICK m : m = Put(mem[N], o, NewChild)  OBVIOUS
<1>8. /\ m \in MemRec /\ m.slot = mem[N].slot /\ m.owner = mem[N].owner /\ m.queue = mem[N].queue
      /\ m.obj[o] = NewChild /\ \A q \in Objects : q # o => m.obj[q] = mem[N].obj[q]
  <2>1. PICK n \in MemRec : n = mem[N]  BY <1>2
  <2>2. m = Put(n, o, NewChild) /\ NewChild \in Deck \cup Child  BY <1>7, <2>1, DeckChild
  <2>3. QED  BY <2>1, <2>2, PutIs
<1>9. PICK u : u = Naming(call[p], i)  OBVIOUS
<1>10. u \in CallRec /\ u.deck = 1 /\ u.id = i /\ u.todo = call[p].todo /\ u.reply = "none"
  BY <1>2, <1>9, NamingFields
<1>11. PICK c : c = Setting(u, i, o, NewChild, "made")  OBVIOUS
<1>12. /\ c \in CallRec /\ c.pc = "made" /\ c.cmd = "set" /\ c.on = i /\ c.out = NewChild
       /\ c.deck = 1 /\ c.kid = o /\ c.id = i /\ c.todo = call[p].todo /\ c.reply = "none"
  <2>1. "made" \in Steps /\ NewChild \in Child  BY DeckChild DEF Steps
  <2>2. QED  BY <1>4, <1>10, <1>11, <2>1, SettingChildFields
<1>13. Becomes(p, m, c, {})
  <2>1. Set(p, Put(M(p), o, NewChild), [C(p) EXCEPT !.id = made'], made', o, "made")
    BY <1>2, <1>4 DEF Create
  <2>2. u = [C(p) EXCEPT !.id = made']  BY <1>2, <1>6, <1>9 DEF Naming
  <2>3. Set(p, m, u, i, o, "made")  BY <2>1, <2>2, <1>2, <1>6, <1>7
  <2>4. Becomes(p, m, [Holds(u, i, o) EXCEPT !.pc = "made", !.cmd = "set", !.on = i, !.out = m.obj[o]], {})
    BY <2>3, Zenon DEF Set
  <2>5. c = [Holds(u, i, o) EXCEPT !.pc = "made", !.cmd = "set", !.on = i, !.out = m.obj[o]]
    BY <1>8, <1>11, Zenon DEF Setting
  <2>6. QED  BY <2>4, <2>5, Zenon
<1>14. CallOK(p, c)
  BY <1>2, <1>3, <1>4, <1>12, ConstantFacts
  DEF CallOK, Commanded, Holding, Named, Does, Is, OfStart, Fetches, Used
<1>15. LegalTurn(p, m, c, {})  BY <1>2, <1>12, <1>14 DEF LegalTurn, Hit, Fetches
<1>16. LegalSlots(p, m, c)  BY <1>2, <1>8 DEF LegalSlots, Memory
<1>17. NewChild \in Child  BY DeckChild
<1>18. LegalObjects(p, m, c)
  <2>1. \A q \in Objects : q # o => m.obj[q] = Obj(q)  BY <1>2, <1>8
  <2>2. QED  BY <1>4, <1>8, <1>12, <1>17, <2>1 DEF LegalObjects
<1>19. m.obj[1] = Notes  BY <1>2, <1>4, <1>8, ConstantFacts
<1>20. LegalNames(p, m, c)
  <2>1. Notes.acts[Key(p)] = None  BY <1>2 DEF Names
  <2>2. QED  BY <1>1, <1>2, <1>3, <1>5, <1>12, <1>19, <2>1 DEF LegalNames
<1>21. LegalNotes(p, m, c)  BY <1>2, <1>19 DEF LegalNotes
<1>22. LegalSends(p, m, c)  BY <1>4, <1>6, <1>8, <1>12, ConstantFacts DEF LegalSends
<1>23. LegalMarks(p, m, c)  BY <1>3, <1>12 DEF LegalMarks, Entered, Marked, Is
<1>24. LegalLine(p, m, c, {})
  <2>1. \A k \in Keys : m.queue[k] = Line(k)  BY <1>2, <1>8
  <2>2. InLine(p, call[p]) <=> InLine(p, c)  BY <1>3, <1>12 DEF InLine, OfStart
  <2>3. QED  BY <2>1, <2>2 DEF LegalLine, SameLine
<1>25. Legal(p, m, c, {})
  BY <1>15, <1>16, <1>18, <1>20, <1>21, <1>22, <1>23, <1>24 DEF Legal
<1>26. PICK x \in SUBSET Calls : x = {}  OBVIOUS
<1>27. QED  BY <1>8, <1>12, <1>13, <1>25, <1>26, SharedKept

LEMMA ExistingKept ==
    ASSUME Sheltered, Shared, NEW p \in Calls, Existing(p)
    PROVE  Shared'
<1>1. At_(p, "existing") /\ made' = made  BY DEF Existing, Mind
<1>2. call[p].kid # None /\ C(p) = call[p]
  BY <1>1, Handler DEF CallOK, Holding
<1>3. Loaded(p, call[p].id).at = call[p].kid  BY <1>1, PlainLoaded
<1>4. Mint(p, Loaded(p, call[p].id))  BY <1>2, <1>3 DEF Existing
<1>5. QED  BY <1>1, <1>2, <1>4, MintKept

LEMMA BootstrapKept ==
    ASSUME Sheltered, Shared, NEW p \in Calls, Bootstrap(p)
    PROVE  Shared'
<1>1. At_(p, "mint") /\ made' = made  BY DEF Bootstrap, Mind
<1>2. /\ p \in Used /\ p \in Ready /\ call[p].pc = "mint" /\ C(p) = call[p] /\ CallOK(p, call[p])
  BY <1>1, Handler
<1>3. Plain(p, Loaded(p, call[p].id).mem) /\ Loaded(p, call[p].id).at = call[p].kid
  BY <1>1, PlainLoaded DEF Fetches
<1>4. Is(p, "start") /\ Marked(p, call[p]) /\ call[p].id # None /\ ~Is(p, "entry")
  BY <1>2 DEF CallOK, Does, OfStart, Marked, Holding, Named, Fetches, Is
<1>5. CASE call[p].kid = None
  <2>1. Answers(p, Loaded(p, call[p].id).mem, "ok")  BY <1>2, <1>3, <1>5 DEF Bootstrap
  <2>2. QED  BY <1>1, <1>2, <1>3, <1>4, <2>1, AnswersKept
<1>6. CASE call[p].kid # None
  <2>1. Mint(p, Loaded(p, call[p].id))  BY <1>2, <1>3, <1>6 DEF Bootstrap
  <2>2. QED  BY <1>1, <1>6, <2>1, MintKept
<1>7. QED  BY <1>5, <1>6

LEMMA MintedKept ==
    ASSUME Sheltered, Shared, NEW p \in Calls, Minted(p)
    PROVE  Shared'
<1>1. At_(p, "minted") /\ made' = made  BY DEF Minted, Mind
<1>2. /\ p \in Used /\ p \in Ready /\ call[p].pc = "minted" /\ C(p) = call[p] /\ CallOK(p, call[p])
  BY <1>1, Handler
<1>3. Plain(p, Saved(p)) /\ SetOK(p)  BY <1>1, PlainSaved
<1>4. Is(p, "start") /\ Marked(p, call[p]) /\ call[p].id # None /\ ~Is(p, "entry")
  BY <1>2 DEF CallOK, Does, OfStart, Marked, Holding, Named, Fetches, Is
<1>5. Answers(p, Saved(p), "ok")  BY <1>3 DEF Minted
<1>6. QED  BY <1>1, <1>2, <1>3, <1>4, <1>5, AnswersKept

LEMMA NoteKept ==
    ASSUME Sheltered, Shared, NEW p \in Calls, Note(p)
    PROVE  Shared'
<1>1. At_(p, "made") /\ made' = made  BY DEF Note, Mind
<1>2. /\ p \in Used /\ p \in Ready /\ call[p].pc = "made" /\ C(p) = call[p] /\ CallOK(p, call[p])
      /\ call[p] \in CallRec /\ call[p].deck = 1 /\ call[p].reply = "none" /\ MyDeck(p) = Notes
      /\ (\A r \in call[p].todo : Known(r[2])) /\ Key(p) \in Keys /\ Notes \in Deck
  BY <1>1, Handler, SharedFacts
<1>3. /\ Is(p, "start") /\ InLine(p, call[p]) /\ call[p].id # None
      /\ ~Is(p, "join") /\ ~Is(p, "update") /\ ~Is(p, "end")
  BY <1>2 DEF CallOK, Does, OfStart, InLine, Holding, Named, Is
<1>4. Plain(p, Saved(p)) /\ SetOK(p)  BY <1>1, PlainSaved
<1>5. PICK i \in Children : i = call[p].id  BY <1>2, <1>3, CallFields
<1>6. PICK d : d = Entering(Notes, Key(p), i)  OBVIOUS
<1>7. /\ d \in Deck /\ d.students = Notes.students /\ d.strokes = Notes.strokes
      /\ \A j \in Keys : d.acts[j] = IF j = Key(p) THEN i ELSE Notes.acts[j]
  BY <1>2, <1>6, DeckChanges
<1>8. PICK n : n = Saved(p)  OBVIOUS
<1>9. Set(p, Put(n, 1, d), call[p], TheDeck, 1, "noted")
  <2>1. Set(p, Put(Saved(p), C(p).deck, [MyDeck(p) EXCEPT !.acts[Key(p)] = C(p).id]),
            C(p), TheDeck, C(p).deck, "noted")
    BY <1>4 DEF Note
  <2>2. d = [MyDeck(p) EXCEPT !.acts[Key(p)] = C(p).id]  BY <1>2, <1>5, <1>6 DEF Entering
  <2>3. QED  BY <2>1, <2>2, <1>2, <1>8
<1>10. DeckHas(p, call[p].id, d)  BY <1>2, <1>3, <1>5, <1>7 DEF DeckHas
<1>11. PICK u \in CallRec : u = call[p]  BY <1>2
<1>12. \A k \in Keys : \/ d.acts[k] = Notes.acts[k]
                       \/ k = Key(p) /\ call[p].pc = "made" /\ u.id = call[p].id /\ d.acts[k] = u.id
  BY <1>2, <1>5, <1>7, <1>11
<1>13. scene.kind[p] \in {"update", "join", "end", "start"}  BY <1>3 DEF Is
<1>14. Set(p, Put(n, 1, d), u, TheDeck, 1, "noted") /\ u.deck = 1 /\ u.reply = "none" /\ u.kid = call[p].kid
       /\ u.id = call[p].id /\ u.id # None /\ (\A r \in u.todo : Known(r[2])) /\ DeckHas(p, u.id, d)
  BY <1>2, <1>3, <1>9, <1>10, <1>11
<1>15. QED  BY <1>1, <1>2, <1>3, <1>4, <1>7, <1>8, <1>12, <1>13, <1>14, SetDeckKept

LEMMA UpdateKept ==
    ASSUME Sheltered, Shared, NEW p \in Calls, Update(p)
    PROVE  Shared'
<1>1. At_(p, "work") /\ Is(p, "update") /\ made' = made  BY DEF Update, Working, Mind
<1>2. /\ p \in Used /\ p \in Ready /\ call[p].pc = "work" /\ C(p) = call[p] /\ CallOK(p, call[p])
      /\ call[p] \in CallRec /\ call[p].deck = 1 /\ call[p].reply = "none" /\ MyDeck(p) = Notes
      /\ (\A r \in call[p].todo : Known(r[2])) /\ Key(p) \in Keys /\ Notes \in Deck /\ M(p) = mem[N]
  BY <1>1, Handler, SharedFacts
<1>3. ~Is(p, "join") /\ ~Is(p, "start") /\ ~Is(p, "end") /\ call[p].kid = None
  BY <1>1, <1>2 DEF CallOK, Holding, Is
<1>4. PICK n : n = mem[N] /\ Plain(p, n)  BY <1>2, PlainMemory
<1>5. PICK d : d = Stroking(Notes, p)  OBVIOUS
<1>6. d \in Deck /\ d.students = Notes.students /\ d.strokes = Notes.strokes \cup {p} /\ d.acts = Notes.acts
  BY <1>2, <1>5, DeckChanges
<1>7. PICK u \in CallRec : u = call[p]  BY <1>2
<1>8. Set(p, Put(n, 1, d), u, TheDeck, 1, "noted")
  <2>1. Set(p, Put(M(p), C(p).deck, [MyDeck(p) EXCEPT !.strokes = @ \cup {p}]), C(p), TheDeck, C(p).deck, "noted")
    BY DEF Update, Write, Changed
  <2>2. d = [MyDeck(p) EXCEPT !.strokes = @ \cup {p}]  BY <1>2, <1>5 DEF Stroking
  <2>3. QED  BY <2>1, <2>2, <1>2, <1>4, <1>7
<1>9. DeckHas(p, u.id, d)  BY <1>3, <1>6 DEF DeckHas
<1>10. scene.kind[p] = "update"  BY <1>1 DEF Is
<1>11. /\ u.deck = 1 /\ u.reply = "none" /\ u.kid = call[p].kid /\ u.kid = None /\ u.id = call[p].id
       /\ (\A r \in u.todo : Known(r[2]))
  BY <1>2, <1>3, <1>7
<1>12. QED  BY <1>1, <1>2, <1>3, <1>4, <1>6, <1>8, <1>9, <1>10, <1>11, SetDeckKept

LEMMA JoinKept ==
    ASSUME Sheltered, Shared, NEW p \in Calls, Join(p)
    PROVE  Shared'
<1>1. At_(p, "work") /\ Is(p, "join") /\ made' = made  BY DEF Join, Working
<1>2. /\ p \in Used /\ p \in Ready /\ call[p].pc = "work" /\ C(p) = call[p] /\ CallOK(p, call[p])
      /\ call[p] \in CallRec /\ call[p].deck = 1 /\ call[p].reply = "none" /\ MyDeck(p) = Notes
      /\ (\A r \in call[p].todo : Known(r[2])) /\ Key(p) \in Keys /\ Notes \in Deck /\ M(p) = mem[N]
      /\ Student(p) \in Students
  BY <1>1, Handler, SharedFacts
<1>3. ~Is(p, "update") /\ ~Is(p, "start") /\ ~Is(p, "end") /\ call[p].kid = None
  BY <1>1, <1>2 DEF CallOK, Holding, Is
<1>4. PICK n : n = mem[N] /\ Plain(p, n)  BY <1>2, PlainMemory
<1>5. CASE Refuses(p)
  <2>1. Answers(p, mem[N], "refused")  BY <1>2, <1>5 DEF Refuses
  <2>2. QED  BY <1>1, <2>1, AnsweredPlain
<1>6. CASE Write(p, [MyDeck(p) EXCEPT !.students = @ \cup {Student(p)}])
  <2>1. PICK d : d = Joining(Notes, Student(p))  OBVIOUS
  <2>2. /\ d \in Deck /\ d.students = Notes.students \cup {Student(p)} /\ d.strokes = Notes.strokes
        /\ d.acts = Notes.acts
    BY <1>2, <2>1, DeckChanges
  <2>3. PICK u \in CallRec : u = call[p]  BY <1>2
  <2>4. Set(p, Put(n, 1, d), u, TheDeck, 1, "noted")
    <3>1. Set(p, Put(M(p), C(p).deck, [MyDeck(p) EXCEPT !.students = @ \cup {Student(p)}]), C(p), TheDeck,
              C(p).deck, "noted")
      BY <1>6 DEF Write, Changed
    <3>2. d = [MyDeck(p) EXCEPT !.students = @ \cup {Student(p)}]  BY <1>2, <2>1 DEF Joining
    <3>3. QED  BY <3>1, <3>2, <1>2, <1>4, <2>3
  <2>5. DeckHas(p, u.id, d)  BY <1>3, <2>2 DEF DeckHas
  <2>6. scene.kind[p] = "join"  BY <1>1 DEF Is
  <2>7. /\ u.deck = 1 /\ u.reply = "none" /\ u.kid = call[p].kid /\ u.kid = None /\ u.id = call[p].id
        /\ (\A r \in u.todo : Known(r[2]))
    BY <1>2, <1>3, <2>3
  <2>8. QED  BY <1>1, <1>2, <1>3, <1>4, <2>2, <2>4, <2>5, <2>6, <2>7, SetDeckKept
<1>7. QED  BY <1>5, <1>6 DEF Join

LEMMA EndActivityKept ==
    ASSUME Sheltered, Shared, NEW p \in Calls, EndActivity(p)
    PROVE  Shared'
<1>1. At_(p, "work") /\ Is(p, "end") /\ made' = made  BY DEF EndActivity, Working, Mind
<1>2. /\ p \in Used /\ p \in Ready /\ call[p].pc = "work" /\ C(p) = call[p] /\ CallOK(p, call[p])
      /\ call[p] \in CallRec /\ call[p].deck = 1 /\ call[p].reply = "none" /\ MyDeck(p) = Notes
      /\ (\A r \in call[p].todo : Known(r[2])) /\ Key(p) \in Keys /\ Notes \in Deck /\ M(p) = mem[N]
      /\ (\A k \in Keys : Notes.acts[k] # None => Notes.acts[k] \in Children)
  BY <1>1, Handler, SharedFacts
<1>3. ~Is(p, "update") /\ ~Is(p, "start") /\ ~Is(p, "join") /\ call[p].kid = None
  BY <1>1, <1>2 DEF CallOK, Holding, Is
<1>4. PICK n : n = mem[N] /\ Plain(p, n)  BY <1>2, PlainMemory
<1>5. CASE Refuses(p)
  <2>1. Answers(p, mem[N], "refused")  BY <1>2, <1>5 DEF Refuses
  <2>2. QED  BY <1>1, <2>1, AnsweredPlain
<1>6. CASE /\ Notes.acts[Key(p)] # None
           /\ Set(p, Changed(p, [MyDeck(p) EXCEPT !.acts[Key(p)] = None]), [C(p) EXCEPT !.id = Notes.acts[Key(p)]],
                  TheDeck, C(p).deck, "noted")
  <2>1. PICK i \in Children : i = Notes.acts[Key(p)]  BY <1>2, <1>6
  <2>2. PICK d : d = Entering(Notes, Key(p), None)  OBVIOUS
  <2>3. /\ d \in Deck /\ d.students = Notes.students /\ d.strokes = Notes.strokes
        /\ \A j \in Keys : d.acts[j] = IF j = Key(p) THEN None ELSE Notes.acts[j]
    BY <1>2, <2>2, DeckChanges
  <2>4. PICK u : u = Naming(call[p], i)  OBVIOUS
  <2>5. /\ u \in CallRec /\ u.deck = 1 /\ u.kid = call[p].kid /\ u.id = i /\ u.todo = call[p].todo
        /\ u.reply = "none"
    BY <1>2, <2>4, NamingFields
  <2>6. Set(p, Put(n, 1, d), u, TheDeck, 1, "noted")
    <3>1. Set(p, Put(M(p), C(p).deck, [MyDeck(p) EXCEPT !.acts[Key(p)] = None]),
              [C(p) EXCEPT !.id = Notes.acts[Key(p)]], TheDeck, C(p).deck, "noted")
      BY <1>6 DEF Changed
    <3>2. d = [MyDeck(p) EXCEPT !.acts[Key(p)] = None]  BY <1>2, <2>2 DEF Entering
    <3>3. u = [C(p) EXCEPT !.id = Notes.acts[Key(p)]]  BY <1>2, <2>1, <2>4 DEF Naming
    <3>4. QED  BY <3>1, <3>2, <3>3, <1>2, <1>4
  <2>7. DeckHas(p, u.id, d)  BY <1>3 DEF DeckHas
  <2>8. scene.kind[p] = "end"  BY <1>1 DEF Is
  <2>9. /\ u.kid = None /\ u.id # None /\ (\A r \in u.todo : Known(r[2])) /\ d.acts[Key(p)] = None
        /\ u.id = Notes.acts[Key(p)]
        /\ \A k \in Keys : d.acts[k] = Notes.acts[k] \/ (k = Key(p) /\ Is(p, "end") /\ d.acts[k] = None)
    BY <1>1, <1>2, <1>3, <2>1, <2>3, <2>5, ConstantFacts
  <2>10. QED  BY <1>1, <1>2, <1>3, <1>4, <2>3, <2>5, <2>6, <2>7, <2>8, <2>9, SetDeckKept
<1>7. QED  BY <1>2, <1>5, <1>6 DEF EndActivity

\* A child with one thing changed.
LEMMA ChildChanges ==
    ASSUME NEW e \in Child, NEW s \in SUBSET Students, NEW v, v = [e EXCEPT !.tokens = @ \cup s]
    PROVE  v \in Child /\ v.tokens = e.tokens \cup s
  BY DEF Child

\* The call has its turn at a child: the object in the cache, or none.
AtKid(p, i, n) ==
    /\ i = call[p].id /\ Known(i) /\ n = Loaded(p, C(p).id).mem /\ Plain(p, n)
    /\ Loaded(p, C(p).id).at = call[p].kid
    /\ call[p].kid # None =>
          /\ n = mem[N] /\ Slot(i) = call[p].kid /\ call[p].kid \in Objects
          /\ Obj(call[p].kid) \in Child /\ Record(Loaded(p, C(p).id)) = Obj(call[p].kid)

LEMMA AtChild ==
    ASSUME Sheltered, Shared, NEW p \in Calls, NEW step \in Fetches, At_(p, step)
    PROVE  \E i \in Children : \E n : AtKid(p, i, n)
<1>1. /\ call[p].pc = step /\ C(p) = call[p] /\ call[p] \in CallRec /\ CallOK(p, call[p]) /\ Memory
      /\ \A o : Obj(o) = mem[N].obj[o]
  BY Handler, SharedFacts DEF Fetches
<1>2. call[p].id # None /\ call[p].pc # "made"  BY <1>1 DEF CallOK, Holding, Named, Fetches
<1>3. PICK i \in Children : i = call[p].id /\ Known(i)  BY <1>2, OwnKnown
<1>4. PICK n : n = Loaded(p, C(p).id).mem  OBVIOUS
<1>5. /\ Plain(p, n) /\ Loaded(p, C(p).id).at = call[p].kid
      /\ call[p].kid # None => n = mem[N] /\ Slot(i) = call[p].kid /\ call[p].kid \in Objects
  BY <1>1, <1>3, <1>4, PlainLoaded
<1>6. ASSUME call[p].kid # None
      PROVE  Obj(call[p].kid) \in Child /\ Record(Loaded(p, C(p).id)) = Obj(call[p].kid)
  <2>1. RefOf(i, call[p].kid)  BY <1>3, <1>5, <1>6 DEF RefOf
  <2>2. QED  BY <1>1, <1>4, <1>5, <1>6, <2>1 DEF Memory, Record
<1>7. QED  BY <1>3, <1>4, <1>5, <1>6 DEF AtKid

LEMMA GreetKept ==
    ASSUME Sheltered, Shared, NEW p \in Calls, Greet(p)
    PROVE  Shared'
<1>1. At_(p, "greet") /\ made' = made /\ "greet" \in Fetches  BY DEF Greet, Mind, Fetches
<1>2. /\ p \in Used /\ p \in Ready /\ call[p].pc = "greet" /\ C(p) = call[p] /\ CallOK(p, call[p])
      /\ call[p] \in CallRec /\ call[p].deck = 1 /\ call[p].reply = "none" /\ MyDeck(p) = Notes
      /\ (\A r \in call[p].todo : Known(r[2])) /\ Notes \in Deck /\ M(p) = mem[N]
  BY <1>1, Handler, SharedFacts
<1>3. /\ Is(p, "start") /\ InLine(p, call[p]) /\ Marked(p, call[p])
      /\ ~Is(p, "join") /\ ~Is(p, "end") /\ ~Is(p, "entry")
  BY <1>2 DEF CallOK, Does, OfStart, InLine, Marked, Is
<1>4a. PICK i \in Children : \E n : AtKid(p, i, n)  BY <1>1, AtChild
<1>4. PICK n :
         /\ i = call[p].id /\ Known(i) /\ n = Loaded(p, C(p).id).mem /\ Plain(p, n)
         /\ Loaded(p, C(p).id).at = call[p].kid
         /\ call[p].kid # None =>
               /\ n = mem[N] /\ Slot(i) = call[p].kid /\ call[p].kid \in Objects
               /\ Obj(call[p].kid) \in Child /\ Record(Loaded(p, C(p).id)) = Obj(call[p].kid)
  BY <1>4a DEF AtKid
<1>5. PICK u \in CallRec : u = call[p]  BY <1>2
<1>6. CASE call[p].kid = None
  <2>1. Get(p, n, u, i, "mint")  BY <1>2, <1>4, <1>5, <1>6 DEF Greet
  <2>2. "mint" \in Fetches \cup {"existing"}  BY DEF Fetches
  <2>3. /\ u.id = i /\ u.deck = 1 /\ u.reply = "none" /\ (\A r \in u.todo : Known(r[2]))  BY <1>2, <1>4, <1>5
  <2>4. QED  BY <1>1, <1>2, <1>3, <1>4, <2>1, <2>2, <2>3, GetChildKept
<1>7. CASE call[p].kid # None
  <2>1. PICK o \in Objects : o = call[p].kid  BY <1>4, <1>7
  <2>2. PICK s \in SUBSET Students : s = Connected(p)  BY <1>2, DeckChild DEF Connected
  <2>3. PICK v : v = [Obj(o) EXCEPT !.tokens = @ \cup s]  OBVIOUS
  <2>4. v \in Child /\ v.tokens = Obj(o).tokens \cup s  BY <1>4, <1>7, <2>1, <2>3, ChildChanges
  <2>5. PICK h : h = Handed(u, s)  OBVIOUS
  <2>6. h \in CallRec /\ h.id = i /\ h.deck = 1 /\ h.reply = "none" /\ h.todo = call[p].todo
    BY <1>2, <1>4, <1>5, <2>5, HandedFields
  <2>7. Set(p, Put(mem[N], o, v), h, i, o, "greeted")
    <3>1. Set(p, Put(Loaded(p, C(p).id).mem, Loaded(p, C(p).id).at,
                     [Record(Loaded(p, C(p).id)) EXCEPT !.tokens = @ \cup Connected(p)]),
              [C(p) EXCEPT !.orig = Connected(p)], C(p).id, Loaded(p, C(p).id).at, "greeted")
      BY <1>4, <1>7 DEF Greet
    <3>2. h = [C(p) EXCEPT !.orig = Connected(p)]  BY <1>2, <1>5, <2>2, <2>5 DEF Handed
    <3>3. v = [Record(Loaded(p, C(p).id)) EXCEPT !.tokens = @ \cup Connected(p)]
      BY <1>4, <1>7, <2>1, <2>2, <2>3
    <3>4. QED  BY <3>1, <3>2, <3>3, <1>2, <1>4, <1>7, <2>1
  <2>8. o # None /\ Slot(i) = o /\ Obj(o).tokens \subseteq v.tokens  BY <1>4, <1>7, <2>1, <2>4
  <2>9. QED  BY <1>1, <1>2, <1>3, <1>4, <2>1, <2>4, <2>6, <2>7, <2>8, SetChildKept
<1>8. QED  BY <1>6, <1>7

LEMMA AnnounceKept ==
    ASSUME Sheltered, Shared, NEW p \in Calls, Announce(p)
    PROVE  Shared'
<1>1. At_(p, "greeted") /\ made' = made  BY DEF Announce
<1>2. /\ p \in Used /\ p \in Ready /\ call[p].pc = "greeted" /\ C(p) = call[p] /\ CallOK(p, call[p])
      /\ call[p] \in CallRec /\ call[p].deck = 1 /\ call[p].reply = "none"
      /\ (\A r \in call[p].todo : Known(r[2]))
  BY <1>1, Handler
<1>3. /\ Is(p, "start") /\ InLine(p, call[p]) /\ Marked(p, call[p]) /\ call[p].id # None
      /\ ~Is(p, "join") /\ ~Is(p, "end") /\ ~Is(p, "entry")
  BY <1>2 DEF CallOK, Does, OfStart, InLine, Marked, Holding, Named, Is
<1>4. PICK n : n = Saved(p) /\ Plain(p, n) /\ SetOK(p)  BY <1>1, PlainSaved
<1>5. PICK i \in Children : i = call[p].id /\ Known(i)  BY <1>2, <1>3, OwnKnown
<1>6. PICK u \in CallRec : u = call[p]  BY <1>2
<1>7. Get(p, n, u, i, "mint")  BY <1>2, <1>4, <1>5, <1>6 DEF Announce
<1>8. "mint" \in Fetches \cup {"existing"}  BY DEF Fetches
<1>9. /\ u.id = i /\ u.deck = 1 /\ u.reply = "none" /\ (\A r \in u.todo : Known(r[2]))  BY <1>2, <1>5, <1>6
<1>10. QED  BY <1>1, <1>2, <1>3, <1>4, <1>5, <1>7, <1>8, <1>9, GetChildKept

\* The deletion of the child of an activity that was ended.
Emptied(m, ids) == [m EXCEPT !.slot  = [i \in Ids |-> IF i \in ids THEN None ELSE @[i]],
                             !.owner = [i \in Ids |-> IF i \in ids THEN None ELSE @[i]]]
LEMMA EmptiedIs ==
    ASSUME NEW m \in MemRec, NEW ids \in SUBSET Ids, NEW w, w = Emptied(m, ids)
    PROVE  /\ w \in MemRec /\ w.queue = m.queue /\ w.obj = m.obj
           /\ \A j \in Ids : /\ w.slot[j] = IF j \in ids THEN None ELSE m.slot[j]
                             /\ w.owner[j] = IF j \in ids THEN None ELSE m.owner[j]
<1>1. /\ m.slot \in [Ids -> Objects \cup {None}] /\ m.owner \in [Ids -> Calls \cup {None}]
      /\ m.obj \in [Objects -> Deck \cup Child \cup {None}] /\ m.queue \in [Keys -> Seq(Calls)]
  BY MemFields
<1> DEFINE s == [i \in Ids |-> IF i \in ids THEN None ELSE m.slot[i]]
           o == [i \in Ids |-> IF i \in ids THEN None ELSE m.owner[i]]
<1>2. s \in [Ids -> Objects \cup {None}] /\ o \in [Ids -> Calls \cup {None}]
      /\ \A j \in Ids : s[j] = (IF j \in ids THEN None ELSE m.slot[j])
                        /\ o[j] = (IF j \in ids THEN None ELSE m.owner[j])
  BY <1>1
<1>3. w = [m EXCEPT !.slot = s, !.owner = o]  BY DEF Emptied
<1> HIDE DEF s, o
<1>4. w.slot = s /\ w.owner = o /\ w.queue = m.queue /\ w.obj = m.obj  BY <1>3 DEF MemRec
<1>5. w = [obj |-> m.obj, slot |-> s, owner |-> o, queue |-> m.queue]  BY <1>3 DEF MemRec
<1>6. w \in MemRec  BY <1>1, <1>2, <1>5 DEF MemRec
<1>7. QED  BY <1>2, <1>4, <1>6

LEMMA DropChildKept ==
    ASSUME Sheltered, Shared, NEW p \in Calls, At_(p, "noted"), Is(p, "end"), made' = made,
           Delete(p, Saved(p), C(p), {C(p).id}, "dropped")
    PROVE  Shared'
<1>1. /\ p \in Used /\ p \in Ready /\ call[p].pc = "noted" /\ C(p) = call[p] /\ CallOK(p, call[p])
      /\ call[p] \in CallRec /\ call[p].deck = 1 /\ call[p].reply = "none"
      /\ (\A r \in call[p].todo : Known(r[2])) /\ (call[p].kid # None => call[p].id # None)
  BY Handler
<1>2. call[p].id # None /\ ~Is(p, "join") /\ ~Is(p, "update") /\ ~Is(p, "start") /\ ~Is(p, "entry")
  BY <1>1 DEF CallOK, Holding, Named, Is
<1>3. PICK i \in Children : i = call[p].id  BY <1>1, <1>2, CallFields
<1>4. i \in Ids /\ i # TheDeck /\ {i} \in SUBSET Ids  BY ConstantFacts
<1>5. PICK n : n = Saved(p) /\ Plain(p, n)  BY PlainSaved
<1>6. PICK m : m = Emptied(n, {i})  OBVIOUS
<1>7. /\ m \in MemRec /\ m.queue = n.queue /\ m.obj = n.obj
      /\ \A j \in Ids : /\ m.slot[j] = IF j = i THEN None ELSE n.slot[j]
                        /\ m.owner[j] = IF j = i THEN None ELSE n.owner[j]
  <2>1. n \in MemRec  BY <1>5 DEF Plain
  <2>2. PICK ids \in SUBSET Ids : ids = {i}  BY <1>4
  <2>3. m = Emptied(n, ids)  BY <1>6, <2>2
  <2>4. /\ m \in MemRec /\ m.queue = n.queue /\ m.obj = n.obj
        /\ \A j \in Ids : /\ m.slot[j] = IF j \in ids THEN None ELSE n.slot[j]
                          /\ m.owner[j] = IF j \in ids THEN None ELSE n.owner[j]
    BY <2>1, <2>3, EmptiedIs
  <2>5. QED  BY <2>2, <2>4
<1>8. PICK c : c = Dropping(call[p], {i}, "dropped")  OBVIOUS
<1>9. /\ c \in CallRec /\ c.pc = "dropped" /\ c.cmd = "del" /\ c.out = {i} /\ c.deck = 1 /\ c.kid = call[p].kid
      /\ c.id = i /\ c.todo = call[p].todo /\ c.reply = "none"
  <2>1. "dropped" \in Steps  BY DEF Steps
  <2>2. QED  BY <1>1, <1>3, <1>4, <1>8, <2>1, DroppingFields
<1>10. Becomes(p, m, c, {})
  <2>1. Delete(p, n, call[p], {i}, "dropped")  BY <1>1, <1>3, <1>5
  <2>2. QED  BY <2>1, <1>6, <1>8 DEF Delete, Emptied, Dropping
<1>11. CallOK(p, c)
  BY <1>1, <1>2, <1>3, <1>9, ConstantFacts DEF CallOK, Commanded, Holding, Named, Does, Is, OfStart, Fetches
<1>12. LegalTurn(p, m, c, {})  BY <1>1, <1>9, <1>11 DEF LegalTurn, Hit, Fetches
<1>13. LegalSlots(p, m, c)
  <2>1. \A j \in Ids : j # i => m.slot[j] = n.slot[j] /\ m.owner[j] = n.owner[j]  BY <1>7
  <2>2. m.slot[i] = None /\ m.owner[i] = None  BY <1>4, <1>7
  <2>3. ASSUME NEW j \in Ids
        PROVE  \/ m.slot[j] = Slot(j)
               \/ /\ j \in Children /\ call[p].id = j
                  /\ call[p].kid # None /\ m.slot[j] = call[p].kid
               \/ /\ j \in Children /\ call[p].id = j /\ c.id = j
                  /\ m.slot[j] = None /\ Is(p, "end") /\ c.cmd = "del"
    BY <1>3, <1>5, <1>9, <2>1, <2>2 DEF Plain
  <2>4. m.owner[TheDeck] = None  BY <1>4, <1>5, <2>1, ConstantFacts DEF Plain
  <2>5. \A j \in Children : m.owner[j] # None => m.slot[j] = None
    BY <1>5, <2>1, <2>2, ConstantFacts DEF Plain
  <2>6. QED  BY <1>1, <2>3, <2>4, <2>5 DEF LegalSlots
<1>14. LegalObjects(p, n, c) /\ LegalNotes(p, n, c) /\ n.obj[1] = Notes
  BY <1>1, <1>3, <1>5, <1>9, PlainIsLegal
<1>15. LegalObjects(p, m, c) /\ LegalNotes(p, m, c)
  BY <1>7, <1>9, <1>14 DEF LegalObjects, LegalNotes, Enters, Removes
<1>16. LegalNames(p, m, c)  BY <1>1, <1>3, <1>9 DEF LegalNames
<1>17. LegalSends(p, m, c)  BY <1>9 DEF LegalSends
<1>18. LegalMarks(p, m, c)  BY <1>2, <1>9 DEF LegalMarks, Entered, Marked, Is
<1>19. LegalLine(p, m, c, {})
  <2>1. \A k \in Keys : m.queue[k] = Line(k)  BY <1>5, <1>7 DEF Plain, Line
  <2>2. InLine(p, call[p]) <=> InLine(p, c)  BY <1>2 DEF InLine
  <2>3. QED  BY <2>1, <2>2 DEF LegalLine, SameLine
<1>20. Legal(p, m, c, {})
  BY <1>12, <1>13, <1>15, <1>16, <1>17, <1>18, <1>19 DEF Legal
<1>21. PICK x \in SUBSET Calls : x = {}  OBVIOUS
<1>22. QED  BY <1>7, <1>9, <1>10, <1>20, <1>21, SharedKept

LEMMA NotedKept ==
    ASSUME Sheltered, Shared, NEW p \in Calls, Noted(p)
    PROVE  Shared'
<1>1. At_(p, "noted") /\ made' = made  BY DEF Noted
<1>2. /\ p \in Used /\ p \in Ready /\ call[p].pc = "noted" /\ C(p) = call[p] /\ CallOK(p, call[p])
      /\ call[p] \in CallRec /\ call[p].deck = 1 /\ call[p].reply = "none" /\ MyDeck(p) = Notes
      /\ (\A r \in call[p].todo : Known(r[2])) /\ (call[p].kid # None => call[p].id # None)
      /\ (Is(p, "start") => InLine(p, call[p]))
  BY <1>1, Handler
<1>3. scene.kind[p] \in {"update", "join", "end", "start"}  BY <1>2 DEF CallOK, Does
<1>4. PICK n : n = Saved(p) /\ Plain(p, n)  BY <1>1, PlainSaved
<1>5. CASE Is(p, "update") /\ Answers(p, Saved(p), "ok")
  <2>1. Marked(p, call[p]) /\ ~Is(p, "entry") /\ scene.kind[p] \notin {"start", "end", "entry"}
    BY <1>2, <1>5 DEF Marked, Is
  <2>2. QED  BY <1>1, <1>2, <1>4, <1>5, <2>1, AnswersKept
<1>6. CASE Is(p, "start") /\ Get(p, Saved(p), C(p), C(p).id, "greet")
  <2>1. call[p].id # None /\ Marked(p, call[p]) /\ ~Is(p, "join") /\ ~Is(p, "end")
    BY <1>2, <1>6 DEF CallOK, Holding, Named, Marked, Is
  <2>2. PICK i \in Children : i = call[p].id /\ Known(i)  BY <1>2, <2>1, OwnKnown
  <2>3. PICK u \in CallRec : u = call[p]  BY <1>2
  <2>4. Get(p, n, u, i, "greet")  BY <1>2, <1>4, <1>6, <2>2, <2>3
  <2>5. "greet" \in Fetches \cup {"existing"}  BY DEF Fetches
  <2>6. u.id = i /\ u.deck = 1 /\ u.reply = "none" /\ \A r \in u.todo : Known(r[2])  BY <1>2, <2>2, <2>3
  <2>7. QED  BY <1>1, <1>2, <1>4, <1>6, <2>1, <2>2, <2>4, <2>5, <2>6, GetChildKept
<1>7. CASE Is(p, "end") /\ Delete(p, Saved(p), C(p), {C(p).id}, "dropped")
  BY <1>1, <1>7, DropChildKept
<1>8. CASE Is(p, "join") /\ Goes(p, Saved(p), [C(p) EXCEPT !.todo = Running(MyDeck(p))], "replay")
  <2>1. PICK v : v = Listing(call[p], Running(Notes))  OBVIOUS
  <2>2. /\ v \in CallRec /\ v.deck = 1 /\ v.kid = call[p].kid /\ v.id = call[p].id /\ v.todo = Running(Notes)
        /\ v.reply = "none"
    BY <1>2, <2>1, RunningKnown, ListingFields
  <2>3. PICK c : c = Going(v, "replay")  OBVIOUS
  <2>4. PICK w \in SUBSET Calls : w = {p}  OBVIOUS
  <2>5. Becomes(p, n, c, w)
    <3>1. v = [C(p) EXCEPT !.todo = Running(MyDeck(p))]  BY <1>2, <2>1 DEF Listing
    <3>2. Goes(p, n, v, "replay")  BY <1>4, <1>8, <3>1
    <3>3. QED  BY <3>2, <2>3, <2>4 DEF Goes, Going
  <2>6. ~InLine(p, call[p]) /\ ~Is(p, "end") /\ p \in Sockets /\ Marked(p, call[p])
    BY <1>2, <1>8 DEF InLine, Is, Sockets, Marked
  <2>7. \A r \in v.todo : Known(r[2])  BY <2>2, RunningKnown
  <2>8. QED  BY <1>1, <1>2, <1>4, <2>2, <2>3, <2>4, <2>5, <2>6, <2>7, GoesOn
<1>9. ~Is(p, "return")  BY <1>3 DEF Is
<1>10. QED  BY <1>5, <1>6, <1>7, <1>8, <1>9, Zenon DEF Noted

LEMMA EndedKept ==
    ASSUME Sheltered, Shared, NEW p \in Calls, Ended(p)
    PROVE  Shared'
<1>1. At_(p, "dropped") /\ made' = made /\ Answers(p, M(p), "ok")  BY DEF Ended
<1>2. p \in Used /\ p \in Ready /\ call[p].pc = "dropped" /\ CallOK(p, call[p]) /\ M(p) = mem[N]
  BY <1>1, Handler
<1>3. /\ scene.kind[p] \notin {"join", "update", "start"} /\ ~Is(p, "entry") /\ call[p].id # None
  BY <1>2 DEF CallOK, Does, Holding, Named, Is
<1>4. Plain(p, mem[N])  BY <1>2, PlainMemory
<1>5. Answers(p, mem[N], "ok")  BY <1>1, <1>2
<1>6. QED  BY <1>1, <1>2, <1>3, <1>4, <1>5, AnswersKept

\* A socket that is done, or that was closed meanwhile.
LEMMA AdmittedKept ==
    ASSUME Sheltered, Shared, NEW p \in Sockets, NEW step \in {"replay", "child"}, At_(p, step),
           NEW n, Plain(p, n), Answers(p, n, "ok"), made' = made
    PROVE  Shared'
<1>1. p \in Calls  BY DEF Sockets
<1>2. p \in Used /\ p \in Ready /\ call[p].pc = step  BY <1>1, Handler
<1>3. scene.kind[p] \in {"join", "watch"}  BY DEF Sockets, Is
<1>4. scene.kind[p] \in {"join", "update", "start"} => Marked(p, call[p])  BY <1>2, <1>3 DEF Marked, Is
<1>5. ~Is(p, "entry") /\ scene.kind[p] \notin {"start", "end", "entry"}  BY <1>3 DEF Is
<1>6. QED  BY <1>2, <1>4, <1>5, AnswersKept

LEMMA ReplayKept ==
    ASSUME Sheltered, Shared, NEW p \in Calls, Replay(p)
    PROVE  Shared'
<1>1. At_(p, "replay") /\ made' = made  BY DEF Replay, Mind
<1>2. /\ p \in Used /\ p \in Ready /\ call[p].pc = "replay" /\ C(p) = call[p] /\ CallOK(p, call[p])
      /\ call[p] \in CallRec /\ call[p].deck = 1 /\ call[p].reply = "none" /\ M(p) = mem[N]
      /\ (\A r \in call[p].todo : Known(r[2]))
  BY <1>1, Handler
<1>3. p \in Sockets /\ ~Is(p, "return") /\ ~Is(p, "start") /\ ~Is(p, "end") /\ (Is(p, "join") => Marked(p, call[p]))
  BY <1>2 DEF CallOK, Does, Sockets, Is, Marked
<1>4. PICK n : n = mem[N] /\ Plain(p, n)  BY <1>2, PlainMemory
<1>5. CASE Answers(p, M(p), "ok")
  <2>1. Answers(p, n, "ok")  BY <1>2, <1>4, <1>5
  <2>2. QED  BY <1>1, <1>3, <1>4, <2>1, AdmittedKept
<1>6. CASE \E r \in C(p).todo :
               Get(p, M(p), [C(p) EXCEPT !.todo = @ \ {r}, !.id = r[2], !.key = r[1]], r[2], "child")
  <2>1. PICK r \in call[p].todo :
               Get(p, M(p), [C(p) EXCEPT !.todo = @ \ {r}, !.id = r[2], !.key = r[1]], r[2], "child")
    BY <1>2, <1>6
  <2>2. call[p].todo \in SUBSET (Keys \X Children)  BY <1>2, CallFields
  <2>3. PICK k \in Keys, i \in Children : r = <<k, i>>  BY <2>2
  <2>4. PICK t \in SUBSET (Keys \X Children) : t = call[p].todo \ {r}  BY <2>2
  <2>5. PICK u : u = Taking(call[p], t, i, k)  OBVIOUS
  <2>6. u \in CallRec /\ u.deck = 1 /\ u.id = i /\ u.todo = t /\ u.reply = "none"
    BY <1>2, <2>5, TakingFields
  <2>7. u = [C(p) EXCEPT !.todo = @ \ {r}, !.id = r[2], !.key = r[1]]
    <3>1. r[1] = k /\ r[2] = i  BY <2>3
    <3>2. QED  BY <3>1, <2>4, <2>5, <1>2 DEF Taking
  <2>8. Get(p, n, u, i, "child")  BY <2>1, <2>3, <2>7, <1>2, <1>4
  <2>9. Known(i) /\ \A s \in u.todo : Known(s[2])  BY <1>2, <2>3, <2>4, <2>6
  <2>10. "child" \in Fetches \cup {"existing"}  BY DEF Fetches
  <2>11. QED  BY <1>1, <1>2, <1>3, <1>4, <2>6, <2>8, <2>9, <2>10, GetChildKept
<1>7. QED  BY <1>3, <1>5, <1>6 DEF Replay

\* A socket that was told of a child, or that did not find it, looks for the next one.
LEMMA NextKept ==
    ASSUME Sheltered, Shared, NEW p \in Sockets, NEW step \in {"child", "token"}, At_(p, step),
           NEW n, Plain(p, n), Goes(p, n, C(p), "replay"), made' = made
    PROVE  Shared'
<1>1. p \in Calls  BY DEF Sockets
<1>2. /\ p \in Used /\ p \in Ready /\ call[p].pc = step /\ C(p) = call[p] /\ call[p] \in CallRec
      /\ call[p].deck = 1 /\ call[p].reply = "none" /\ (\A r \in call[p].todo : Known(r[2]))
      /\ (call[p].kid # None => call[p].id # None)
  BY <1>1, Handler
<1>3. PICK u \in CallRec : u = call[p]  BY <1>2
<1>4. PICK c : c = Going(u, "replay")  OBVIOUS
<1>5. PICK w \in SUBSET Calls : w = {p}  BY <1>1
<1>6. Becomes(p, n, c, w)  BY <1>2, <1>3, <1>4, <1>5 DEF Goes, Going
<1>7. ~InLine(p, call[p]) /\ ~Is(p, "end") /\ (Is(p, "join") => Marked(p, call[p]))
  BY <1>2 DEF InLine, Is, Sockets, Marked
<1>8. u.deck = 1 /\ u.reply = "none" /\ u.id = call[p].id /\ u.kid = call[p].kid
      /\ (\A r \in u.todo : Known(r[2])) /\ (u.kid # None => u.id # None)
  BY <1>2, <1>3
<1>9. QED  BY <1>2, <1>4, <1>5, <1>6, <1>7, <1>8, GoesOn

LEMMA LookupKept ==
    ASSUME Sheltered, Shared, NEW p \in Calls, Lookup(p)
    PROVE  Shared'
<1>1. At_(p, "child") /\ made' = made /\ "child" \in Fetches  BY DEF Lookup, Fetches
<1>2. /\ p \in Used /\ p \in Ready /\ call[p].pc = "child" /\ C(p) = call[p] /\ CallOK(p, call[p])
      /\ call[p] \in CallRec /\ call[p].deck = 1 /\ call[p].reply = "none" /\ Student(p) \in Students
  BY <1>1, Handler, SharedFacts
<1>3. p \in Sockets \/ Is(p, "entry")  BY <1>2 DEF CallOK, Does
<1>4. ~Is(p, "return") /\ ~Is(p, "start") /\ (Is(p, "join") => Marked(p, call[p])) /\ ~(p \in Sockets /\ Is(p, "entry"))
  BY <1>2, <1>3 DEF Sockets, Is, Marked
<1>5a. PICK i \in Children : \E n : AtKid(p, i, n)  BY <1>1, AtChild
<1>5. PICK n :
         /\ i = call[p].id /\ Known(i) /\ n = Loaded(p, C(p).id).mem /\ Plain(p, n)
         /\ Loaded(p, C(p).id).at = call[p].kid
         /\ call[p].kid # None =>
               /\ n = mem[N] /\ Slot(i) = call[p].kid /\ call[p].kid \in Objects
               /\ Obj(call[p].kid) \in Child /\ Record(Loaded(p, C(p).id)) = Obj(call[p].kid)
  BY <1>5a DEF AtKid
<1>6. CASE p \in Sockets /\ Answers(p, n, "ok")
  BY <1>1, <1>5, <1>6, AdmittedKept
<1>7. CASE Is(p, "entry") /\ Answers(p, n, "refused")
  BY <1>1, <1>2, <1>5, <1>7, AnswersKept
<1>8. CASE p \in Sockets /\ Goes(p, n, C(p), "replay")
  BY <1>1, <1>5, <1>8, NextKept
<1>9. CASE /\ call[p].kid # None /\ (Is(p, "entry") \/ Is(p, "join"))
           /\ Set(p, Put(Loaded(p, C(p).id).mem, Loaded(p, C(p).id).at,
                         [Record(Loaded(p, C(p).id)) EXCEPT !.tokens = @ \cup {Student(p)}]), C(p), C(p).id,
                     Loaded(p, C(p).id).at, "token")
  <2>1. PICK o \in Objects : o = call[p].kid  BY <1>5, <1>9
  <2>2. PICK s \in SUBSET Students : s = {Student(p)}  BY <1>2
  <2>3. PICK v : v = [Obj(o) EXCEPT !.tokens = @ \cup s]  OBVIOUS
  <2>4. v \in Child /\ v.tokens = Obj(o).tokens \cup s  BY <1>5, <1>9, <2>1, <2>3, ChildChanges
  <2>5. PICK u \in CallRec : u = call[p]  BY <1>2
  <2>6. Set(p, Put(mem[N], o, v), u, i, o, "token")
    <3>1. v = [Record(Loaded(p, C(p).id)) EXCEPT !.tokens = @ \cup {Student(p)}]
      BY <1>5, <1>9, <2>1, <2>2, <2>3
    <3>2. QED  BY <3>1, <1>2, <1>5, <1>9, <2>1, <2>5
  <2>7. /\ o # None /\ Slot(i) = o /\ Obj(o).tokens \subseteq v.tokens /\ Student(p) \in v.tokens
        /\ u.id = i /\ u.deck = 1 /\ u.reply = "none" /\ u.todo = call[p].todo
    BY <1>2, <1>5, <1>9, <2>1, <2>2, <2>4, <2>5
  <2>8. scene.kind[p] \in {"start", "join"} => Marked(p, call[p])  BY <1>4 DEF Is
  <2>9. QED  BY <1>1, <1>2, <1>4, <1>5, <1>9, <2>1, <2>4, <2>5, <2>6, <2>7, <2>8, SetChildKept
<1>10. QED
  <2>1. \/ p \in Sockets /\ Answers(p, n, "ok")
        \/ call[p].kid = None /\ IF Is(p, "entry") THEN Answers(p, n, "refused") ELSE Goes(p, n, C(p), "replay")
        \/ call[p].kid # None /\ Is(p, "watch") /\ Goes(p, n, C(p), "replay")
        \/ /\ call[p].kid # None /\ (Is(p, "entry") \/ Is(p, "join"))
           /\ Set(p, Put(Loaded(p, C(p).id).mem, Loaded(p, C(p).id).at,
                         [Record(Loaded(p, C(p).id)) EXCEPT !.tokens = @ \cup {Student(p)}]), C(p), C(p).id,
                     Loaded(p, C(p).id).at, "token")
        \/ Is(p, "return")
    BY <1>5, Zenon DEF Lookup
  <2>2. Is(p, "watch") => p \in Sockets  BY DEF Sockets
  <2>3. QED  BY <1>3, <1>4, <1>6, <1>7, <1>8, <1>9, <2>1, <2>2

LEMMA TokenKept ==
    ASSUME Sheltered, Shared, NEW p \in Calls, Token(p)
    PROVE  Shared'
<1>1. At_(p, "token") /\ made' = made  BY DEF Token
<1>2. /\ p \in Used /\ p \in Ready /\ call[p].pc = "token" /\ C(p) = call[p] /\ CallOK(p, call[p])
  BY <1>1, Handler
<1>3. call[p].id # None /\ (Is(p, "join") \/ Is(p, "entry")) /\ ~Is(p, "return")
  BY <1>2 DEF CallOK, Does, Holding, Named, Is
<1>4. PICK n : n = Saved(p) /\ Plain(p, n) /\ SetOK(p)  BY <1>1, PlainSaved
<1>5. CASE Is(p, "entry") /\ Answers(p, Saved(p), "ok")
  <2>1. Entered(p, call[p]) /\ scene.kind[p] \notin {"join", "update", "start"}
    BY <1>2, <1>5 DEF Entered, Is
  <2>2. QED  BY <1>1, <1>2, <1>3, <1>4, <1>5, <2>1, AnswersKept
<1>6. CASE Is(p, "join") /\ Goes(p, Saved(p), C(p), "replay")
  <2>1. p \in Sockets  BY <1>6 DEF Sockets
  <2>2. Goes(p, n, C(p), "replay")  BY <1>4, <1>6
  <2>3. QED  BY <1>1, <1>4, <2>1, <2>2, NextKept
<1>7. QED  BY <1>3, <1>4, <1>5, <1>6 DEF Token

\* What never happens in a sheltered scene.
LEMMA NeverHere ==
    ASSUME Sheltered, Shared, NEW p \in Calls
    PROVE  /\ ~Return(p) /\ ~DeleteDeck(p) /\ ~TellAll(p) /\ ~DropDeck(p) /\ ~Deleted(p)
           /\ ~Keepalive(p) /\ ~Revalidated(p) /\ ~NotNoted(p) /\ ~Undo(p) /\ ~Refill(p) /\ ~TouchDeck(p)
<1>1. ~Is(p, "return") /\ ~Is(p, "delete") /\ ~Is(p, "keepalive")  BY SharedFacts DEF Is
<1>2. call[p].pc \notin {"kids", "told", "gone", "reval", "undo"}  BY SharedFacts DEF CallOK, Holding
<1>3. ~Return(p) /\ ~DeleteDeck(p) /\ ~Keepalive(p) /\ ~Undo(p)
  BY <1>1 DEF Return, DeleteDeck, Working, Keepalive, Undo
<1>4. ~TellAll(p) /\ ~DropDeck(p) /\ ~Deleted(p) /\ ~Revalidated(p)
  BY <1>2 DEF TellAll, DropDeck, Deleted, Revalidated, At_
<1>5. ~NotNoted(p)  BY PlainSaved DEF NotNoted
<1>6. ~Refill(p)
  <2>1. call[p].cmd # "reread"  BY SharedFacts, CallFields
  <2>2. QED  BY <2>1 DEF Refill, Rereading, C
<1>7. ~TouchDeck(p)
  <2>1. SUFFICES ASSUME TouchDeck(p) PROVE FALSE
    OBVIOUS
  <2>2. call[p].pc \in ChildSteps /\ p \in conn[At[p]].ready /\ M(p).slot[TheDeck] = None
    BY <2>1 DEF TouchDeck, HasChild, Sheltered
  <2>3. PICK step : step = call[p].pc /\ step # "done"  BY <2>2 DEF ChildSteps
  <2>4. M(p) = mem[N]  BY <2>2, <2>3, Handler DEF At_
  <2>5. QED  BY <2>2, <2>4, SharedFacts, ConstantFacts
<1>8. QED  BY <1>3, <1>4, <1>5, <1>6, <1>7

\* The handlers keep the invariant.
LEMMA HandlersKept ==
    ASSUME Sheltered, Shared, NEW p \in Calls, Begin(p) \/ Keepalive(p) \/ Authenticate(p) \/ Resume(p)
    PROVE  Shared'
<1>1. CASE Begin(p)  BY <1>1, BeginKept
<1>2. CASE Authenticate(p)  BY <1>2, AuthenticateKept
<1>3. CASE Open(p) \/ Update(p) \/ Join(p) \/ Watch(p) \/ EndActivity(p) \/ Enter(p)
  BY <1>3, OpenKept, UpdateKept, JoinKept, WatchKept, EndActivityKept, EnterKept
<1>4. CASE Queue(p) \/ Turn(p) \/ Look(p) \/ Existing(p) \/ Create(p) \/ Note(p) \/ Greet(p)
  BY <1>4, QueueKept, TurnKept, LookKept, ExistingKept, CreateKept, NoteKept, GreetKept
<1>5. CASE Announce(p) \/ Bootstrap(p) \/ Minted(p) \/ Noted(p) \/ Ended(p)
  BY <1>5, AnnounceKept, BootstrapKept, MintedKept, NotedKept, EndedKept
<1>6. CASE Replay(p) \/ Lookup(p) \/ Token(p)
  BY <1>6, ReplayKept, LookupKept, TokenKept
<1>7. QED  BY <1>1, <1>2, <1>3, <1>4, <1>5, <1>6, NeverHere, Zenon DEF Resume, Handle
-----------------------------------------------------------------------------
(* Valkey and the connection                                               *)

\* A step that leaves the handlers and the memory where they are.
Stays == /\ scene' = scene /\ mem' = mem /\ made' = made
         /\ \A q \in Calls : /\ call'[q].pc = call[q].pc /\ call'[q].cmd = call[q].cmd
                             /\ call'[q].on = call[q].on /\ call'[q].deck = call[q].deck
                             /\ call'[q].kid = call[q].kid /\ call'[q].id = call[q].id
                             /\ call'[q].todo = call[q].todo /\ call'[q].reply = call[q].reply

LEMMA StaysFacts ==
    ASSUME Stays
    PROVE  /\ N' = N /\ Used' = Used /\ (Sheltered' <=> Sheltered)
           /\ \A q : Is(q, "none")' = Is(q, "none") /\ Key(q)' = Key(q) /\ Student(q)' = Student(q)
           /\ \A i : Slot(i)' = Slot(i) /\ Owner(i)' = Owner(i)
           /\ \A o : Obj(o)' = Obj(o)
           /\ \A k : Line(k)' = Line(k)
           /\ Notes' = Notes
           /\ \A i, o : RefOf(i, o)' <=> RefOf(i, o)
           /\ \A i : Known(i)' <=> Known(i)
           /\ \A k : Unended(k)' <=> Unended(k)
<1>1. scene' = scene /\ mem' = mem /\ made' = made  BY DEF Stays
<1>2. N' = N /\ Used' = Used /\ (Sheltered' <=> Sheltered)  BY <1>1, SameHome
<1>3. \A i : Slot(i)' = Slot(i) /\ Owner(i)' = Owner(i)  BY <1>1, <1>2 DEF Slot, Owner
<1>4. \A o : Obj(o)' = Obj(o)  BY <1>1, <1>2 DEF Obj
<1>5. \A k : Line(k)' = Line(k)  BY <1>1, <1>2 DEF Line
<1>6. Notes' = Notes  BY <1>4 DEF Notes
<1>7. \A i, o : RefOf(i, o)' <=> RefOf(i, o)  BY <1>3 DEF RefOf, Stays
<1>8. \A i : Known(i)' <=> Known(i)  BY <1>1 DEF Known, Making, Stays
<1>9. \A k : Unended(k)' <=> Unended(k)  BY DEF Unended, Stays, Is, Key
<1>10. \A q : Is(q, "none")' = Is(q, "none") /\ Key(q)' = Key(q) /\ Student(q)' = Student(q)
  BY <1>1 DEF Is, Key, Student
<1>11. QED  BY <1>2, <1>3, <1>4, <1>5, <1>6, <1>7, <1>8, <1>9, <1>10

LEMMA StaysKept ==
    ASSUME Shared, Stays
    PROVE  /\ \A p \in Calls : CallOK(p, call[p])'
           /\ Memory' /\ Names'
           /\ \A p \in Calls : /\ InLine(p, call[p])' <=> InLine(p, call[p])
                               /\ Hit(call[p])' <=> Hit(call[p])
                               /\ Marked(p, call[p])' <=> Marked(p, call[p])
                               /\ Entered(p, call[p])' <=> Entered(p, call[p])
<1>1. scene' = scene /\ made' = made  BY DEF Stays
<1>2. ASSUME NEW p \in Calls PROVE CallOK(p, call[p])'
  <2>1. CallOK(p, call[p])  BY DEF Shared
  <2>2. Commanded(call[p])'  BY <2>1 DEF CallOK, Commanded, Stays
  <2>3. Holding(p, call[p])'  BY <1>1, <2>1 DEF CallOK, Holding, Named, Stays, Is
  <2>4. Does(p, call[p])'  BY <1>1, <2>1 DEF CallOK, Does, Stays, Is, Sockets
  <2>5. QED  BY <2>2, <2>3, <2>4 DEF CallOK
<1>3. Memory'
  <2>1. Memory  BY DEF Shared
  <2>2. /\ Slot(TheDeck)' = Slot(TheDeck) /\ Owner(TheDeck)' = Owner(TheDeck) /\ Notes' = Notes
        /\ \A i \in Children : Slot(i)' = Slot(i) /\ Owner(i)' = Owner(i)
        /\ \A i \in Children : \A o \in Objects : RefOf(i, o)' <=> RefOf(i, o)
        /\ \A o \in Objects : Obj(o)' = Obj(o)
    BY StaysFacts
  <2>3. Slot(TheDeck)' = 1 /\ Owner(TheDeck)' = None /\ Notes' \in Deck
        /\ \A i \in Children : Slot(i)' # 1 /\ (Owner(i)' # None => Slot(i)' = None)
    BY <2>1, <2>2, Zenon DEF Memory
  <2>4. /\ \A i \in Children, o \in Objects : RefOf(i, o)' => i <= made /\ Obj(o)' \in Child
        /\ \A i \in Children, o, u \in Objects : RefOf(i, o)' /\ RefOf(i, u)' => o = u
        /\ \A i, j \in Children, o \in Objects : RefOf(i, o)' /\ RefOf(j, o)' => i = j
        /\ \A o \in Objects : Obj(o)' # None => o = 1 \/ \E i \in Children : RefOf(i, o)'
    BY <2>1, <2>2 DEF Memory
  <2>5. QED  BY <1>1, <2>3, <2>4 DEF Memory
<1>4. Names'  BY <1>1, StaysFacts DEF Shared, Names, Stays, Is
<1>5. ASSUME NEW p \in Calls
      PROVE  /\ InLine(p, call[p])' <=> InLine(p, call[p])
             /\ Hit(call[p])' <=> Hit(call[p])
             /\ Marked(p, call[p])' <=> Marked(p, call[p])
             /\ Entered(p, call[p])' <=> Entered(p, call[p])
  BY <1>1 DEF Stays, InLine, Hit, Marked, Entered, Is
<1>6. QED  BY <1>2, <1>3, <1>4, <1>5

\* A call whose command was run, and what the others see of it.
RunFor(c, got) == [c EXCEPT !.out = None, !.got = got]
LEMMA RunFields ==
    ASSUME NEW c \in CallRec, NEW got \in {None, Gone}, NEW v, v = RunFor(c, got)
    PROVE  /\ v \in CallRec /\ v.out = None /\ v.got = got
           /\ v.pc = c.pc /\ v.cmd = c.cmd /\ v.on = c.on /\ v.deck = c.deck /\ v.kid = c.kid
           /\ v.id = c.id /\ v.todo = c.todo /\ v.reply = c.reply
<1>1. PICK w : w = [c EXCEPT !.out = None]  OBVIOUS
<1>2. /\ w \in CallRec /\ w.out = None
      /\ w.pc = c.pc /\ w.cmd = c.cmd /\ w.on = c.on /\ w.deck = c.deck /\ w.kid = c.kid
      /\ w.id = c.id /\ w.todo = c.todo /\ w.reply = c.reply
  BY <1>1 DEF CallRec, Steps
<1>3. v = [w EXCEPT !.got = got]  BY <1>1, <1>2, Zenon DEF RunFor
<1>4. QED  BY <1>2, <1>3 DEF CallRec, Steps

\* What the command of the call says.
LEMMA CommandFacts ==
    ASSUME Sheltered, Shared, NEW p \in Calls, InSent(p)
    PROVE  /\ call[p].cmd # "none" /\ p \notin Ready /\ ~InBack(p)
           /\ call[p].cmd = "set" => /\ call[p].on \in Ids
                                     /\ call[p].out \in (IF call[p].on = TheDeck THEN Deck ELSE Child)
           /\ call[p].cmd = "del" => call[p].id \in Children /\ call[p].out = {call[p].id}
           /\ call[p].cmd = "get" => call[p].id \in Children /\ call[p].on = call[p].id
           /\ call[p].pc = "noted" => call[p].cmd = "set" /\ call[p].on = TheDeck
           /\ call[p].pc = "token" => call[p].cmd = "set" /\ call[p].on = call[p].id /\ call[p].id \in Children
<1>1. Wire /\ CallOK(p, call[p]) /\ call[p] \in CallRec  BY SharedFacts
<1>2. Orders  BY DEF Shared
<1>3. call[p].cmd # "none" /\ p \notin Ready /\ ~InBack(p)  BY <1>1 DEF Wire
<1>4. call[p].cmd = "get" => call[p].pc \in Fetches /\ call[p].on = call[p].id /\ call[p].id # None
  BY <1>1, CallFields DEF CallOK, Commanded, Holding, Named, Steps, Fetches
<1>5. call[p].cmd = "del" => call[p].id # None
  BY <1>1, CallFields DEF CallOK, Commanded, Holding, Named, Steps, Fetches
<1>6. /\ call[p].pc = "noted" => call[p].cmd = "set" /\ call[p].on = TheDeck
      /\ call[p].pc = "token" => call[p].cmd = "set" /\ call[p].on = call[p].id /\ call[p].id # None
  BY <1>1 DEF CallOK, Commanded, Holding, Named
<1>7. QED  BY <1>1, <1>2, <1>3, <1>4, <1>5, <1>6, CallFields DEF Orders

\* The command of p, which was the next, is run.
Runs(p) ==
    /\ Stays /\ InSent(p) /\ store' = Written(call[p])
    /\ call' \in [Calls -> CallRec] /\ \A q \in Calls : q # p => call'[q] = call[q]
    /\ call[p].cmd = "get" => call'[p].got = Gone
    /\ conn' \in [Nodes -> ConnRec] /\ \A n \in Nodes : n # N => conn'[n] = conn[n]
    /\ \A q : InSent(q)' <=> InSent(q) /\ q # p
    /\ \A q, r : After(q, r)' <=> After(q, r) /\ q # p
    /\ \A q : InSent(q) /\ q # p => After(p, q)
    /\ \A q : ~After(q, p)
    /\ \A q : InBack(q)' <=> InBack(q) \/ q = p
    /\ Once(conn'[N].sent) /\ Once(conn'[N].back) /\ Ready' = Ready
    /\ ages' = ages /\ losses' = losses

LEMMA ExecRuns ==
    ASSUME Sheltered, Shared, NEW n \in Nodes, Exec(n)
    PROVE  \E p \in Calls : Runs(p)
<1>1. /\ Typed /\ Wire /\ Misses /\ N \in Nodes /\ conn[N] \in ConnRec /\ call \in [Calls -> CallRec]
      /\ conn \in [Nodes -> ConnRec]
  BY OneHome DEF Shared, Typed
<1>2. /\ conn[n].sent # <<>> /\ scene' = scene /\ mem' = mem /\ made' = made
      /\ ages' = ages /\ losses' = losses
  BY DEF Exec
<1>3. n = N  BY <1>1, <1>2 DEF Typed, Quiet
<1>4. PICK w \in ConnRec : w = conn[N]  BY <1>1
<1>5. w.sent \in Seq(Calls) /\ w.back \in Seq(Calls) /\ w.ready \in SUBSET Calls /\ w.sent # <<>>
      /\ Once(w.sent) /\ Once(w.back)
  BY <1>1, <1>2, <1>3, <1>4 DEF ConnRec, Wire
<1>6. PICK p \in Calls : p = Head(w.sent)  BY <1>5, TailParts
<1>7. /\ Tail(w.sent) \in Seq(Calls) /\ Once(Tail(w.sent)) /\ In(w.sent, p)
      /\ \A q : In(Tail(w.sent), q) <=> In(w.sent, q) /\ q # p
      /\ \A q, r : Before(Tail(w.sent), q, r) <=> Before(w.sent, q, r) /\ q # p
      /\ \A q : In(w.sent, q) /\ q # p => Before(w.sent, p, q)
      /\ \A q : ~Before(w.sent, q, p)
  BY <1>5, <1>6, TailParts
<1>8. InSent(p) /\ ~InBack(p)  BY <1>1, <1>4, <1>7 DEF InSent, Wire
<1>9. /\ Append(w.back, p) \in Seq(Calls) /\ Once(Append(w.back, p))
      /\ \A q : In(Append(w.back, p), q) <=> In(w.back, q) \/ q = p
  BY <1>4, <1>5, <1>8, AppendParts DEF InBack
<1>10. PICK d : d = Ran(w)  OBVIOUS
<1>11. d \in ConnRec /\ d.sent = Tail(w.sent) /\ d.back = Append(w.back, p) /\ d.ready = w.ready
  BY <1>6, <1>7, <1>9, <1>10 DEF Ran, ConnRec
<1>12. conn' = [conn EXCEPT ![N] = d]  BY <1>3, <1>4, <1>10 DEF Exec
<1>13. /\ conn' \in [Nodes -> ConnRec] /\ conn'[N] = d /\ \A k \in Nodes : k # N => conn'[k] = conn[k]
  BY <1>1, <1>11, <1>12
<1>14. call[p] \in CallRec  BY <1>1
<1>15. PICK got : /\ got = IF call[p].cmd = "get" THEN store[call[p].on] ELSE None
                  /\ got = Reply(call[p])
  <2>1. call[p].cmd # "reread"  BY <1>14, CallFields
  <2>2. QED  BY <2>1 DEF Reply
<1>16. call[p].cmd = "get" => got = Gone
  <2>1. ASSUME call[p].cmd = "get" PROVE store[call[p].id] = Gone
    <3>1. ClearAt(call[p].id, p)  BY <1>1, <1>8, <2>1 DEF Misses
    <3>2. \A d_1 : ~After(d_1, p)  BY <1>4, <1>7 DEF After
    <3>3. QED  BY <3>1, <3>2 DEF ClearAt
  <2>2. QED  BY <1>8, <1>15, <2>1, CommandFacts
<1>17. got \in {None, Gone}  BY <1>15, <1>16
<1>18. PICK v : v = RunFor(call[p], got)  OBVIOUS
<1>19. /\ v \in CallRec /\ v.out = None /\ v.got = got
       /\ v.pc = call[p].pc /\ v.cmd = call[p].cmd /\ v.on = call[p].on /\ v.deck = call[p].deck
       /\ v.kid = call[p].kid /\ v.id = call[p].id /\ v.todo = call[p].todo /\ v.reply = call[p].reply
  BY <1>14, <1>17, <1>18, RunFields
<1>20. call' = [call EXCEPT ![p] = v]
  <2>1. NextSent(conn[n]) = p  BY <1>3, <1>4, <1>6 DEF NextSent
  <2>2. call' = [call EXCEPT ![p].out = None, ![p].got = got]  BY <1>15, <2>1, Zenon DEF Exec
  <2>3. call' = [call EXCEPT ![p] = [call[p] EXCEPT !.out = None, !.got = got]]
    BY <1>1, <1>14, <2>2
  <2>4. QED  BY <1>18, <2>3 DEF RunFor
<1>21. /\ call' \in [Calls -> CallRec] /\ call'[p] = v /\ \A q \in Calls : q # p => call'[q] = call[q]
  BY <1>1, <1>19, <1>20
<1>22. store' = Written(call[p])
  <2>1. NextSent(conn[n]) = p  BY <1>3, <1>4, <1>6 DEF NextSent
  <2>2. QED  BY <2>1 DEF Exec
<1>23. Stays  BY <1>2, <1>19, <1>21 DEF Stays
<1>24. N' = N  BY <1>2, SameHome
<1>25. /\ \A q : InSent(q)' <=> InSent(q) /\ q # p
       /\ \A q, r : After(q, r)' <=> After(q, r) /\ q # p
       /\ \A q : InSent(q) /\ q # p => After(p, q)
       /\ \A q : ~After(q, p)
       /\ \A q : InBack(q)' <=> InBack(q) \/ q = p
       /\ Once(conn'[N].sent) /\ Once(conn'[N].back) /\ Ready' = Ready
  BY <1>4, <1>7, <1>9, <1>11, <1>13, <1>24 DEF InSent, After, InBack, Ready
<1>26. call[p].cmd = "get" => call'[p].got = Gone  BY <1>16, <1>19, <1>21
<1>27. Runs(p)  BY <1>2, <1>8, <1>13, <1>21, <1>22, <1>23, <1>25, <1>26 DEF Runs
<1>28. QED  BY <1>27

\* What is in Valkey then.
LEMMA StoreAfter ==
    ASSUME Sheltered, Shared, NEW p \in Calls, Runs(p)
    PROVE  /\ store' \in [Ids -> Deck \cup Child \cup {Gone}]
           /\ store'[TheDeck] \in Deck /\ \A i \in Children : store'[i] \in Child \cup {Gone}
           /\ \A i \in Ids : \/ store'[i] = store[i]
                             \/ SetOf(p, i) /\ store'[i] = call[p].out
                             \/ DelOf(p, i) /\ i \in Children /\ store'[i] = Gone
           /\ \A i \in Ids : SetOf(p, i) => store'[i] = call[p].out
           /\ \A i \in Children : DelOf(p, i) => store'[i] = Gone
<1>1. InSent(p) /\ store' = Written(call[p])  BY DEF Runs
<1>2. /\ store \in [Ids -> Deck \cup Child \cup {Gone}] /\ store[TheDeck] \in Deck
      /\ \A i \in Children : store[i] \in Child \cup {Gone}
  BY DEF Shared, Typed
<1>3. \A i \in Children : i \in Ids /\ i # TheDeck  BY ConstantFacts
<1>4. CASE call[p].cmd = "set"
  <2>1. call[p].on \in Ids /\ call[p].out \in (IF call[p].on = TheDeck THEN Deck ELSE Child)
    BY <1>1, <1>4, CommandFacts
  <2>2. store' = [store EXCEPT ![call[p].on] = call[p].out]  BY <1>1, <1>4 DEF Written
  <2>3. \A i \in Ids : store'[i] = IF i = call[p].on THEN call[p].out ELSE store[i]
    BY <1>2, <2>1, <2>2
  <2>4. store' \in [Ids -> Deck \cup Child \cup {Gone}]  BY <1>2, <2>1, <2>2
  <2>5. \A i : (SetOf(p, i) <=> call[p].on = i) /\ ~DelOf(p, i)  BY <1>1, <1>4 DEF SetOf, DelOf
  <2>6. TheDeck \in Ids  BY ConstantFacts
  <2>7. QED  BY <1>2, <1>3, <2>1, <2>3, <2>4, <2>5, <2>6
<1>5. CASE call[p].cmd = "del"
  <2>1. call[p].id \in Children /\ call[p].out = {call[p].id}  BY <1>1, <1>5, CommandFacts
  <2>2. store' = [i \in Ids |-> IF i \in call[p].out THEN Gone ELSE store[i]]  BY <1>1, <1>5 DEF Written
  <2>3. \A i \in Ids : store'[i] = IF i = call[p].id THEN Gone ELSE store[i]  BY <2>1, <2>2
  <2>4. store' \in [Ids -> Deck \cup Child \cup {Gone}]  BY <1>2, <2>2
  <2>5. \A i : (DelOf(p, i) <=> call[p].id = i) /\ ~SetOf(p, i)  BY <1>1, <1>5 DEF SetOf, DelOf
  <2>6. TheDeck \in Ids  BY ConstantFacts
  <2>7. QED  BY <1>2, <1>3, <2>1, <2>3, <2>4, <2>5, <2>6
<1>6. CASE call[p].cmd \notin {"set", "del"}
  <2>1. store' = store  BY <1>1, <1>6 DEF Written
  <2>2. \A i : ~SetOf(p, i) /\ ~DelOf(p, i)  BY <1>6 DEF SetOf, DelOf
  <2>3. QED  BY <1>2, <2>1, <2>2
<1>7. QED  BY <1>4, <1>5, <1>6

\* What is on its way then.
LEMMA SentAfter ==
    ASSUME Sheltered, Shared, NEW p \in Calls, Runs(p)
    PROVE  /\ ~InSent(p)' /\ \A q : ~After(p, q)'
           /\ \A q \in Calls : \A i : /\ SetOf(q, i)' <=> SetOf(q, i) /\ q # p
                                      /\ DelOf(q, i)' <=> DelOf(q, i) /\ q # p
           /\ \A q \in Calls : q # p => call'[q] = call[q]
           /\ \A q \in Calls : /\ Noting(q)' <=> Noting(q) /\ q # p
                               /\ Handing(q)' <=> Handing(q) /\ q # p
           /\ \A q \in Calls : \A i : SetOf(q, i) /\ q # p => After(p, q)
<1>1. ~InSent(p)' /\ \A q : ~After(p, q)'  BY DEF Runs
<1>2. \A q \in Calls : q # p => call'[q] = call[q]  BY DEF Runs
<1>3. \A q \in Calls : InSent(q)' <=> InSent(q) /\ q # p  BY DEF Runs
<1>4. \A q \in Calls : InSent(q) /\ q # p => After(p, q)  BY DEF Runs
<1>5. QED  BY <1>1, <1>2, <1>3, <1>4 DEF SetOf, DelOf, Noting, Handing

LEMMA WireRuns ==
    ASSUME Sheltered, Shared, NEW p \in Calls, Runs(p)
    PROVE  Typed' /\ Wire' /\ Lock' /\ Orders'
<1>1. Typed /\ Wire /\ Lock /\ Orders /\ \A q \in Calls : CallOK(q, call[q])  BY DEF Shared
<1>2. Stays  BY DEF Runs
<1>3. Typed'
  <2>1. /\ scene' = scene /\ N' = N /\ mem' = mem /\ made' = made /\ ages' = ages /\ losses' = losses
        /\ call' \in [Calls -> CallRec] /\ conn' \in [Nodes -> ConnRec]
        /\ \A n \in Nodes : n # N => conn'[n] = conn[n]
    BY <1>2, StaysFacts DEF Runs, Stays
  <2>2. QED  BY <1>1, <2>1, StoreAfter DEF Typed
<1>4. Wire'
  <2>1. /\ \A q \in Calls : call'[q].cmd = call[q].cmd /\ call'[q].id = call[q].id /\ call'[q].kid = call[q].kid
        /\ \A q \in Calls : Hit(call[q])' <=> Hit(call[q])
        /\ \A i : Slot(i)' = Slot(i)
    BY <1>2, StaysFacts, StaysKept DEF Stays
  <2>2. /\ \A q \in Calls : InSent(q)' <=> InSent(q) /\ q # p
        /\ \A q \in Calls : InBack(q)' <=> InBack(q) \/ q = p
        /\ Once(conn'[N].sent) /\ Once(conn'[N].back) /\ Ready' = Ready
    BY DEF Runs
  <2>3. call[p].cmd # "none" /\ p \notin Ready /\ ~InBack(p)  BY CommandFacts DEF Runs
  <2>4. N' = N /\ scene' = scene  BY <1>2, StaysFacts DEF Stays
  <2>5. /\ \A q \in Calls : InSent(q)' \/ InBack(q)' => call'[q].cmd # "none" /\ q \notin Ready'
        /\ \A q \in Calls : ~(InSent(q)' /\ InBack(q)')
    BY <1>1, <2>1, <2>2, <2>3 DEF Wire
  <2>6. Has({"end"})' <=> Has({"end"})  BY <2>4 DEF Has
  <2>7. Has({"end"})' => \A q, r \in Ready' : q = r  BY <1>1, <2>2, <2>6 DEF Wire
  <2>8. \A q \in Calls : Hit(call[q])' => q \in Ready' /\ mem'[N'].slot[call'[q].id] = call'[q].kid
    <3>1. \A q \in Calls : Hit(call[q]) => q \in Ready /\ mem[N].slot[call[q].id] = call[q].kid
      BY <1>1 DEF Wire, Slot
    <3>2. mem' = mem  BY <1>2 DEF Stays
    <3>3. QED  BY <2>1, <2>2, <2>4, <3>1, <3>2
  <2>9. QED  BY <2>2, <2>4, <2>5, <2>7, <2>8 DEF Wire, Slot
<1>5. Lock'
  <2>1. /\ \A k : Line(k)' = Line(k) /\ \A q \in Calls : InLine(q, call[q])' <=> InLine(q, call[q])
    BY <1>2, StaysFacts, StaysKept
  <2>2. scene' = scene /\ N' = N /\ Ready' = Ready  BY <1>2, StaysFacts DEF Stays, Runs
  <2>3. \A q \in Calls : call'[q].pc = call[q].pc /\ Key(q)' = Key(q)  BY <1>2, StaysFacts DEF Stays
  <2>4. \A k \in Keys : \A j \in 1..Len(Line(k)) : Line(k)[j] \in Calls
    <3>1. mem[N] \in MemRec  BY <1>1, OneHome DEF Typed
    <3>2. \A k \in Keys : Line(k) \in Seq(Calls)  BY <3>1, MemFields DEF Line
    <3>3. QED  BY <3>2, ElementOfSeq
  <2>5. QED  BY <1>1, <2>1, <2>2, <2>3, <2>4 DEF Lock
<1>6. Orders'
  <2>1. \A q \in Calls : InSent(q)' => InSent(q) /\ call'[q] = call[q]  BY DEF Runs
  <2>2. QED  BY <1>1, <2>1 DEF Orders
<1>7. QED  BY <1>3, <1>4, <1>5, <1>6

LEMMA MissesRuns ==
    ASSUME Sheltered, Shared, NEW p \in Calls, Runs(p)
    PROVE  Misses'
<1>1. Misses /\ Names /\ \A q \in Calls : call[q] \in CallRec  BY DEF Shared, Typed
<1>2. /\ \A q : InSent(q)' <=> InSent(q) /\ q # p
      /\ \A q, r : After(q, r)' <=> After(q, r) /\ q # p
      /\ \A q : InSent(q) /\ q # p => After(p, q)
      /\ \A q : ~After(q, p)
      /\ \A q \in Calls : q # p => call'[q] = call[q]
      /\ call[p].cmd = "get" => call'[p].got = Gone
      /\ Stays
  BY DEF Runs
<1>3. ASSUME NEW i \in Children
      PROVE  \A s \in Calls : (SetOf(s, i)' <=> SetOf(s, i) /\ s # p) /\ (DelOf(s, i)' <=> DelOf(s, i) /\ s # p)
  <2>1. \A s \in Calls : s # p => call'[s] = call[s] /\ (InSent(s)' <=> InSent(s))  BY <1>2
  <2>2. ~InSent(p)'  BY <1>2
  <2>3. QED  BY <2>1, <2>2 DEF SetOf, DelOf
<1>4. /\ \A i \in Children : \/ store'[i] = store[i] \/ SetOf(p, i) \/ store'[i] = Gone
      /\ \A i \in Children : DelOf(p, i) => store'[i] = Gone
  BY StoreAfter, ConstantFacts
<1>5. \A q \in Calls : \A i : SetOf(q, i) \/ DelOf(q, i) => InSent(q)  BY DEF SetOf, DelOf
<1>6. ASSUME NEW i \in Children, NEW q \in Calls, q # p, InSent(q), ClearAt(i, q) PROVE ClearAt(i, q)'
  <2>0. \A s \in Calls : (SetOf(s, i)' <=> SetOf(s, i) /\ s # p) /\ (DelOf(s, i)' <=> DelOf(s, i) /\ s # p)
    BY <1>3
  <2>1. CASE store[i] = Gone /\ \A s \in Calls : SetOf(s, i) => ~After(s, q)
    <3>1. store'[i] = Gone  BY <1>2, <1>4, <1>6, <2>1
    <3>2. \A s \in Calls : SetOf(s, i)' => ~After(s, q)'  BY <1>2, <2>0, <2>1
    <3>3. QED  BY <3>1, <3>2 DEF ClearAt
  <2>2. ASSUME NEW d \in Calls, DelOf(d, i), After(d, q),
               \A s \in Calls : SetOf(s, i) /\ After(s, q) => After(s, d)
        PROVE  ClearAt(i, q)'
    <3>1. CASE d = p
      <4>1. store'[i] = Gone  BY <1>4, <2>2, <3>1
      <4>2. \A s \in Calls : SetOf(s, i)' => ~After(s, q)'  BY <1>2, <2>0, <2>2, <3>1
      <4>3. QED  BY <4>1, <4>2 DEF ClearAt
    <3>2. CASE d # p
      <4>1. DelOf(d, i)' /\ After(d, q)'  BY <1>2, <2>0, <2>2, <3>2
      <4>2. \A s \in Calls : SetOf(s, i)' /\ After(s, q)' => After(s, d)'  BY <1>2, <2>0, <2>2
      <4>3. QED  BY <4>1, <4>2 DEF ClearAt
    <3>3. QED  BY <3>1, <3>2
  <2>3. QED  BY <1>6, <2>1, <2>2 DEF ClearAt
<1>7. ASSUME NEW i \in Children, ClearEnd(i) PROVE ClearEnd(i)'
  <2>0. \A s \in Calls : (SetOf(s, i)' <=> SetOf(s, i) /\ s # p) /\ (DelOf(s, i)' <=> DelOf(s, i) /\ s # p)
    BY <1>3
  <2>1. CASE store[i] = Gone /\ \A s \in Calls : ~SetOf(s, i)
    <3>1. store'[i] = Gone  BY <1>4, <2>1
    <3>2. \A s \in Calls : ~SetOf(s, i)'  BY <2>0, <2>1
    <3>3. QED  BY <3>1, <3>2 DEF ClearEnd
  <2>2. ASSUME NEW d \in Calls, DelOf(d, i), \A s \in Calls : SetOf(s, i) => After(s, d)
        PROVE  ClearEnd(i)'
    <3>1. CASE d = p
      <4>1. store'[i] = Gone  BY <1>4, <2>2, <3>1
      <4>2. \A s \in Calls : ~SetOf(s, i)'  BY <1>2, <2>0, <2>2, <3>1
      <4>3. QED  BY <4>1, <4>2 DEF ClearEnd
    <3>2. CASE d # p
      <4>1. DelOf(d, i)'  BY <2>0, <2>2, <3>2
      <4>2. \A s \in Calls : SetOf(s, i)' => After(s, d)'  BY <1>2, <2>0, <2>2
      <4>3. QED  BY <4>1, <4>2 DEF ClearEnd
    <3>3. QED  BY <3>1, <3>2
  <2>3. QED  BY <1>7, <2>1, <2>2 DEF ClearEnd
<1>8. \A q \in Calls : call'[q].cmd = call[q].cmd /\ call'[q].id = call[q].id  BY <1>2 DEF Stays
<1>9. ASSUME NEW q \in Calls, call'[q].cmd = "get"
      PROVE  IF InSent(q)' THEN ClearAt(call[q].id, q)' ELSE call'[q].got = Gone
  <2>1. CASE q = p  BY <1>2, <1>8, <1>9, <2>1
  <2>2. CASE q # p /\ InSent(q)
    <3>1. call[q].id \in Children /\ ClearAt(call[q].id, q)
      BY <1>1, <1>8, <1>9, <2>2, CommandFacts DEF Misses
    <3>2. PICK i \in Children : i = call[q].id  BY <3>1
    <3>3. ClearAt(i, q)'  BY <1>6, <2>2, <3>1, <3>2
    <3>4. i = call'[q].id  BY <1>8, <3>2
    <3>5. InSent(q)'  BY <1>2, <2>2
    <3>6. ClearAt(call[q].id, q)'  BY <3>3, <3>4 DEF ClearAt, SetOf, DelOf
    <3>7. QED  BY <3>5, <3>6
  <2>3. CASE q # p /\ ~InSent(q)
    <3>1. call[q].got = Gone  BY <1>1, <1>8, <1>9, <2>3 DEF Misses
    <3>2. QED  BY <1>2, <2>3, <3>1
  <2>4. QED  BY <2>1, <2>2, <2>3
<1>10. \A i \in Children : Known(i)' /\ Slot(i)' = None => ClearEnd(i)'
  <2>1. \A i \in Children : (Known(i)' <=> Known(i)) /\ Slot(i)' = Slot(i)  BY <1>2, StaysFacts
  <2>2. QED  BY <1>1, <1>7, <2>1 DEF Misses
<1>11. QED  BY <1>9, <1>10 DEF Misses

\* What a call has put into the deck, when a command is run.
LEMMA DeckFactsRuns ==
    ASSUME Sheltered, Shared, NEW p \in Calls, Runs(p)
    PROVE  DeckFacts'
<1>1. DeckFacts /\ InSent(p) /\ Stays  BY DEF Shared, Runs
<1>2. /\ \A q \in Calls : Marked(q, call[q])' <=> Marked(q, call[q])
      /\ \A q \in Calls : Noting(q)' <=> Noting(q) /\ q # p
      /\ \A q, r : After(q, r)' <=> After(q, r) /\ q # p
      /\ \A q \in Calls : q # p => call'[q] = call[q]
      /\ \A q \in Calls : call'[q].id = call[q].id
      /\ \A k : Unended(k)' <=> Unended(k)
      /\ Notes' = Notes /\ scene' = scene
  BY <1>1, StaysKept, StaysFacts, SentAfter DEF Runs, Stays
<1>3. \A q \in Calls : SetOf(q, TheDeck)' <=> SetOf(q, TheDeck) /\ q # p
  <2>1. \A s \in Calls : s # p => call'[s] = call[s] /\ (InSent(s)' <=> InSent(s))  BY DEF Runs
  <2>2. ~InSent(p)'  BY DEF Runs
  <2>3. QED  BY <2>1, <2>2 DEF SetOf
<1>4. \A q \in Calls : SetOf(q, TheDeck) /\ q # p => After(p, q)  BY DEF SetOf, Runs
<1>5. /\ store'[TheDeck] = store[TheDeck] \/ (SetOf(p, TheDeck) /\ store'[TheDeck] = call[p].out)
      /\ SetOf(p, TheDeck) => store'[TheDeck] = call[p].out
  BY StoreAfter, ConstantFacts
<1>6. \A q \in Calls : Noting(q) => SetOf(q, TheDeck)  BY CommandFacts DEF Noting, SetOf
<1>7. ASSUME NEW q \in Calls, NEW i, NEW d, DeckHas(q, i, d) PROVE DeckHas(q, i, d)'
  <2>1. PICK k : k = Key(q)  OBVIOUS
  <2>2. Unended(k)' => Unended(k)  BY <1>2
  <2>3. Key(q)' = k  BY <1>2, <2>1 DEF Key
  <2>4. Unended(Key(q))' => Unended(Key(q))  BY <2>1, <2>2, <2>3 DEF Unended
  <2>5. QED  BY <1>2, <1>7, <2>4 DEF DeckHas, Is, Key, Student
<1>8. ASSUME NEW q \in Calls, Marked(q, call[q])'
      PROVE  /\ DeckHas(q, call[q].id, Notes)'
             /\ DeckHas(q, call[q].id, IF Noting(q) THEN call[q].out ELSE store[TheDeck])'
             /\ \A r \in Calls : SetOf(r, TheDeck)' /\ (Noting(q)' => After(q, r)')
                   => DeckHas(q, call[q].id, call[r].out)'
  <2>1. PICK i : i = call[q].id /\ i = call'[q].id  BY <1>2
  <2>2. /\ DeckHas(q, i, Notes)
        /\ DeckHas(q, i, IF Noting(q) THEN call[q].out ELSE store[TheDeck])
        /\ \A r \in Calls : SetOf(r, TheDeck) /\ (Noting(q) => After(q, r)) => DeckHas(q, i, call[r].out)
    BY <1>1, <1>2, <1>8, <2>1 DEF DeckFacts
  <2>3. DeckHas(q, call[q].id, Notes)'
    <3>1. PICK d : d = Notes  OBVIOUS
    <3>2. DeckHas(q, i, d)'  BY <1>7, <2>2, <3>1
    <3>3. Notes' = d  BY <1>2, <3>1
    <3>4. QED  BY <2>1, <3>2, <3>3 DEF DeckHas
  <2>4. DeckHas(q, call[q].id, IF Noting(q) THEN call[q].out ELSE store[TheDeck])'
    <3>1. PICK d : d = IF Noting(q)' THEN call'[q].out ELSE store'[TheDeck]  OBVIOUS
    <3>2. DeckHas(q, i, d)
      <4>1. CASE Noting(q)'
        <5>1. Noting(q) /\ d = call[q].out  BY <1>2, <3>1, <4>1
        <5>2. QED  BY <2>2, <5>1
      <4>2. CASE ~Noting(q)' /\ Noting(q)
        <5>1. q = p  BY <1>2, <4>2
        <5>2. d = call[q].out  BY <1>5, <1>6, <3>1, <4>2, <5>1
        <5>3. QED  BY <2>2, <4>2, <5>2
      <4>3. CASE ~Noting(q)' /\ ~Noting(q)
        <5>1. CASE store'[TheDeck] = store[TheDeck]  BY <2>2, <3>1, <4>3, <5>1
        <5>2. CASE SetOf(p, TheDeck) /\ store'[TheDeck] = call[p].out  BY <2>2, <3>1, <4>3, <5>2
        <5>3. QED  BY <1>5, <5>1, <5>2
      <4>4. QED  BY <4>1, <4>2, <4>3
    <3>3. DeckHas(q, i, d)'  BY <1>7, <3>2
    <3>4. QED  BY <2>1, <3>1, <3>3 DEF DeckHas
  <2>5. ASSUME NEW r \in Calls, SetOf(r, TheDeck)', Noting(q)' => After(q, r)'
        PROVE  DeckHas(q, call[q].id, call[r].out)'
    <3>1. r # p /\ SetOf(r, TheDeck)  BY <1>3, <2>5
    <3>2. PICK d : d = call[r].out  OBVIOUS
    <3>3. Noting(q) => After(q, r)
      <4>1. CASE q = p  BY <1>4, <3>1, <4>1
      <4>2. CASE q # p  BY <1>2, <2>5, <4>2
      <4>3. QED  BY <4>1, <4>2
    <3>4. DeckHas(q, i, d)'  BY <1>7, <2>2, <3>1, <3>2, <3>3
    <3>5. call'[r].out = d  BY <1>2, <3>1, <3>2
    <3>6. QED  BY <2>1, <3>4, <3>5 DEF DeckHas
  <2>6. QED  BY <2>3, <2>4, <2>5
<1>9. ASSUME NEW k \in Keys, Unended(k)', Notes'.acts[k] # None
      PROVE  \/ \E q \in Calls : Is(q, "start")' /\ Key(q)' = k /\ Noting(q)'
             \/ Settled(k)'
  <2>1. Unended(k) /\ Notes.acts[k] # None  BY <1>2, <1>9
  <2>2. ASSUME Settled(k) PROVE Settled(k)'
    <3>1. store'[TheDeck].acts[k] = Notes.acts[k]  BY <1>5, <2>2 DEF Settled
    <3>2. \A q \in Calls : SetOf(q, TheDeck)' => call'[q].out.acts[k] = Notes.acts[k]
      BY <1>2, <1>3, <2>2 DEF Settled
    <3>3. QED  BY <1>2, <3>1, <3>2 DEF Settled
  <2>3. ASSUME NEW q \in Calls, Is(q, "start"), Key(q) = k, Noting(q), q # p
        PROVE  Is(q, "start")' /\ Key(q)' = k /\ Noting(q)'
    BY <1>2, <2>3 DEF Is, Key
  <2>4. ASSUME Is(p, "start"), Key(p) = k, Noting(p) PROVE Settled(k)'
    <3>1. Marked(p, call[p])  BY <2>4 DEF Marked, Noting
    <3>2. /\ DeckHas(p, call[p].id, Notes) /\ DeckHas(p, call[p].id, call[p].out)
          /\ \A q \in Calls : SetOf(q, TheDeck) /\ After(p, q) => DeckHas(p, call[p].id, call[q].out)
      BY <1>1, <2>4, <3>1 DEF DeckFacts
    <3>3. /\ Notes.acts[k] = call[p].id /\ call[p].out.acts[k] = call[p].id
          /\ \A q \in Calls : SetOf(q, TheDeck) /\ After(p, q) => call[q].out.acts[k] = call[p].id
      BY <2>1, <2>4, <3>2 DEF DeckHas
    <3>4. store'[TheDeck].acts[k] = Notes.acts[k]  BY <1>5, <1>6, <2>4, <3>3
    <3>5. \A q \in Calls : SetOf(q, TheDeck)' => call'[q].out.acts[k] = Notes.acts[k]
      BY <1>2, <1>3, <1>4, <3>3
    <3>6. QED  BY <1>2, <3>4, <3>5 DEF Settled
  <2>5. (\E q \in Calls : Is(q, "start") /\ Key(q) = k /\ Noting(q)) \/ Settled(k)
    BY <1>1, <2>1 DEF DeckFacts
  <2>6. QED  BY <2>2, <2>3, <2>4, <2>5
<1>10. QED  BY <1>8, <1>9 DEF DeckFacts

\* The same of the token that a student was given.
LEMMA ChildFactsRuns ==
    ASSUME Sheltered, Shared, NEW p \in Calls, Runs(p)
    PROVE  ChildFacts'
<1>1. ChildFacts /\ InSent(p) /\ Stays  BY DEF Shared, Runs
<1>2. /\ \A q \in Calls : Entered(q, call[q])' <=> Entered(q, call[q])
      /\ \A q \in Calls : Handing(q)' <=> Handing(q) /\ q # p
      /\ \A q, r : After(q, r)' <=> After(q, r) /\ q # p
      /\ \A q \in Calls : q # p => call'[q] = call[q]
      /\ \A q \in Calls : call'[q].id = call[q].id
      /\ scene' = scene
  BY <1>1, StaysKept, SentAfter DEF Runs, Stays
<1>3. ASSUME NEW q \in Calls, Entered(q, call[q])'
      PROVE  /\ \A o \in Objects : RefOf(call[q].id, o)' => Student(q)' \in Obj(o)'.tokens
             /\ HasToken(q, IF Handing(q) THEN call[q].out ELSE store[call[q].id])'
             /\ \A r \in Calls : SetOf(r, call[q].id)' /\ (Handing(q)' => After(q, r)')
                   => Student(q)' \in call'[r].out.tokens
  <2>1. Entered(q, call[q]) /\ call[q].id # None  
    <3>1. Entered(q, call[q]) /\ CallOK(q, call[q])  BY <1>2, <1>3, SharedFacts
    <3>2. QED  BY <3>1 DEF Entered, CallOK, Holding, Named, Is
  <2>2. PICK i \in Children : i = call[q].id  BY <2>1, SharedFacts, CallFields
  <2>3. i = call'[q].id /\ i \in Ids  BY <1>2, <2>2, ConstantFacts
  <2>4. PICK s : s = Student(q)  OBVIOUS
  <2>5. Student(q)' = s  BY <1>2, <2>4 DEF Student
  <2>6. /\ \A o \in Objects : RefOf(i, o) => s \in Obj(o).tokens
        /\ HasToken(q, IF Handing(q) THEN call[q].out ELSE store[i])
        /\ \A r \in Calls : SetOf(r, i) /\ (Handing(q) => After(q, r)) => s \in call[r].out.tokens
    BY <1>1, <2>1, <2>2, <2>4 DEF ChildFacts
  <2>7. \A r \in Calls : SetOf(r, i)' <=> SetOf(r, i) /\ r # p
    <3>1. \A r \in Calls : r # p => call'[r] = call[r] /\ (InSent(r)' <=> InSent(r))  BY DEF Runs
    <3>2. ~InSent(p)'  BY DEF Runs
    <3>3. QED  BY <3>1, <3>2 DEF SetOf
  <2>8. \A r \in Calls : SetOf(r, i) /\ r # p => After(p, r)  BY DEF SetOf, Runs
  <2>9. /\ store'[i] = store[i] \/ (SetOf(p, i) /\ store'[i] = call[p].out) \/ store'[i] = Gone
        /\ SetOf(p, i) => store'[i] = call[p].out
    BY <2>3, StoreAfter
  <2>10. \A o \in Objects : RefOf(call[q].id, o)' => s \in Obj(o)'.tokens
    <3>1. \A o \in Objects : (RefOf(i, o)' <=> RefOf(i, o)) /\ Obj(o)' = Obj(o)  BY <1>1, StaysFacts
    <3>2. \A o \in Objects : RefOf(i, o)' => s \in Obj(o)'.tokens  BY <2>6, <3>1
    <3>3. \A o \in Objects : RefOf(call[q].id, o)' <=> RefOf(i, o)'  BY <2>3 DEF RefOf, Slot
    <3>4. QED  BY <3>2, <3>3
  <2>11. HasToken(q, IF Handing(q) THEN call[q].out ELSE store[call[q].id])'
    <3>1. PICK v : v = IF Handing(q)' THEN call'[q].out ELSE store'[i]  OBVIOUS
    <3>2. v = Gone \/ s \in v.tokens
      <4>1. CASE Handing(q)'
        <5>1. Handing(q) /\ v = call[q].out  BY <1>2, <3>1, <4>1
        <5>2. QED  BY <2>4, <2>6, <5>1 DEF HasToken
      <4>2. CASE ~Handing(q)' /\ Handing(q)
        <5>1. q = p  BY <1>2, <4>2
        <5>2. SetOf(p, i)  BY <2>2, <4>2, <5>1, <1>1, CommandFacts DEF Handing, SetOf
        <5>3. v = call[q].out  BY <2>9, <3>1, <4>2, <5>1, <5>2
        <5>4. QED  BY <2>4, <2>6, <4>2, <5>3 DEF HasToken
      <4>3. CASE ~Handing(q)' /\ ~Handing(q)
        <5>1. CASE store'[i] = store[i]  BY <2>4, <2>6, <3>1, <4>3, <5>1 DEF HasToken
        <5>2. CASE SetOf(p, i) /\ store'[i] = call[p].out  BY <2>6, <3>1, <4>3, <5>2
        <5>3. CASE store'[i] = Gone  BY <3>1, <4>3, <5>3
        <5>4. QED  BY <2>9, <5>1, <5>2, <5>3
      <4>4. QED  BY <4>1, <4>2, <4>3
    <3>3. v = IF Handing(q)' THEN call'[q].out ELSE store'[call'[q].id]  BY <2>3, <3>1
    <3>4. QED  BY <2>5, <3>2, <3>3 DEF HasToken
  <2>12. ASSUME NEW r \in Calls, SetOf(r, call[q].id)', Handing(q)' => After(q, r)'
         PROVE  s \in call'[r].out.tokens
    <3>1. SetOf(r, i)'  BY <2>3, <2>12 DEF SetOf
    <3>2. r # p /\ SetOf(r, i)  BY <2>7, <3>1
    <3>3. Handing(q) => After(q, r)
      <4>1. CASE q = p  BY <2>8, <3>2, <4>1
      <4>2. CASE q # p  BY <1>2, <2>12, <4>2
      <4>3. QED  BY <4>1, <4>2
    <3>4. s \in call[r].out.tokens  BY <2>6, <3>2, <3>3
    <3>5. call'[r] = call[r]  BY <1>2, <3>2
    <3>6. QED  BY <3>4, <3>5
  <2>13. QED  BY <2>5, <2>10, <2>11, <2>12
<1>4. QED  BY <1>3 DEF ChildFacts

\* A command is run.
LEMMA ExecKept ==
    ASSUME Sheltered, Shared, NEW n \in Nodes, Exec(n)
    PROVE  Shared'
<1>1. PICK p \in Calls : Runs(p)  BY ExecRuns
<1>2. Memory' /\ Names' /\ \A q \in Calls : CallOK(q, call[q])'  BY <1>1, StaysKept DEF Runs
<1>3. Typed' /\ Wire' /\ Lock' /\ Orders'  BY <1>1, WireRuns
<1>4. Misses' /\ DeckFacts' /\ ChildFacts'  BY <1>1, MissesRuns, DeckFactsRuns, ChildFactsRuns
<1>5. QED  BY <1>2, <1>3, <1>4 DEF Shared

\* Answers are read.
LEMMA ReceiveKept ==
    ASSUME Sheltered, Shared, NEW n \in Nodes, Receive(n)
    PROVE  Shared'
<1>1. /\ Typed /\ Wire /\ Lock /\ N \in Nodes /\ conn[N] \in ConnRec /\ conn \in [Nodes -> ConnRec]
      /\ scene \in Scenes
  BY OneHome DEF Shared, Typed
<1>2. /\ Free(conn[n]) /\ conn[n].back # <<>> /\ scene' = scene /\ store' = store /\ mem' = mem /\ call' = call
      /\ made' = made /\ ages' = ages /\ losses' = losses
  BY DEF Receive
<1>3. n = N  BY <1>1, <1>2 DEF Typed, Quiet
<1>4. N' = N  BY <1>2, SameHome
<1>5. PICK w \in ConnRec : w = conn[N]  BY <1>1
<1>6. w.sent \in Seq(Calls) /\ w.back \in Seq(Calls) /\ Once(w.sent) /\ Once(w.back) /\ Ready = {}
  BY <1>1, <1>2, <1>3, <1>5 DEF ConnRec, Wire, Free, Ready
<1>7. PICK k \in 1..Len(w.back) : k <= scene.chunk /\ conn' = [conn EXCEPT ![N] = Read(w, k)]
  <2>1. \E k \in 1..Len(conn[N].back) : k <= scene.chunk /\ conn' = [conn EXCEPT ![N] = Read(@, k)]
    BY <1>3 DEF Receive
  <2>2. QED  BY <2>1, <1>1, <1>5
<1>8. PICK t : t = SubSeq(w.back, k + 1, Len(w.back))  OBVIOUS
<1>9. PICK r : r = {w.back[j] : j \in 1..k}  OBVIOUS
<1>10. /\ t \in Seq(Calls) /\ Once(t) /\ r \in SUBSET Calls
       /\ \A q : In(t, q) => In(w.back, q) /\ q \notin r
       /\ \A q \in r : In(w.back, q)
  BY <1>6, <1>8, <1>9, ReadParts
<1>11. PICK d : d = Read(w, k)  OBVIOUS
<1>12. d \in ConnRec /\ d.sent = w.sent /\ d.back = t /\ d.ready = r
  BY <1>8, <1>9, <1>10, <1>11 DEF Read, ConnRec
<1>13. conn' \in [Nodes -> ConnRec] /\ conn'[N] = d /\ \A m \in Nodes : m # N => conn'[m] = conn[m]
  BY <1>1, <1>7, <1>11, <1>12
<1>14. /\ \A q : InSent(q)' <=> InSent(q)
       /\ \A q, u : After(q, u)' <=> After(q, u)
       /\ \A q : InBack(q)' => InBack(q) /\ q \notin r
       /\ \A q \in r : InBack(q)
       /\ Ready' = r /\ Once(conn'[N].sent) /\ Once(conn'[N].back)
  BY <1>4, <1>5, <1>6, <1>10, <1>12, <1>13 DEF InSent, After, InBack, Ready
<1>15. Stays  BY <1>2 DEF Stays
<1>16. Memory' /\ Names' /\ \A q \in Calls : CallOK(q, call[q])'  BY <1>15, StaysKept
<1>17. Typed'  BY <1>1, <1>2, <1>4, <1>13 DEF Typed
<1>18. \A q \in r : call[q].cmd # "none" /\ ~InSent(q)  BY <1>1, <1>10, <1>14 DEF Wire
<1>19. Wire'
  <2>1. /\ \A q \in Calls : InSent(q)' \/ InBack(q)' => call'[q].cmd # "none" /\ q \notin Ready'
        /\ \A q \in Calls : ~(InSent(q)' /\ InBack(q)')
    BY <1>1, <1>2, <1>14, <1>18 DEF Wire
  <2>2. Has({"end"})' <=> Has({"end"})  BY <1>2 DEF Has
  <2>3. Has({"end"})' => \A q, u \in Ready' : q = u
    <3>1. ASSUME Has({"end"}) PROVE \A q, u \in r : q = u
      <4>1. scene.chunk = 1  BY <3>1 DEF Sheltered
      <4>2. k = 1
        <5>1. Len(w.back) \in Nat  BY <1>6, LenProperties
        <5>2. QED  BY <5>1, <4>1, <1>7
      <4>3. \A j \in 1..k : j = 1  BY <4>2
      <4>4. QED  BY <4>3, <1>9
    <3>2. QED  BY <3>1, <2>2, <1>14
  <2>4. \A q \in Calls : Hit(call[q])' => q \in Ready' /\ mem'[N'].slot[call'[q].id] = call'[q].kid
    <3>1. \A q \in Calls : Hit(call[q])' <=> Hit(call[q])  BY <1>15, StaysKept
    <3>2. \A q \in Calls : ~Hit(call[q])  BY <1>1, <1>6 DEF Wire
    <3>3. QED  BY <3>1, <3>2
  <2>5. QED  BY <1>4, <1>14, <2>1, <2>3, <2>4 DEF Wire, Slot
<1>20. Lock'
  <2>1. /\ \A l : Line(l)' = Line(l)
        /\ \A q \in Calls : InLine(q, call[q])' <=> InLine(q, call[q])
        /\ \A q \in Calls : Key(q)' = Key(q)
    BY <1>15, StaysFacts, StaysKept
  <2>2. \A q \in Calls : call[q].pc = "wait" => q \notin r
    BY <1>18 DEF Shared, CallOK, Commanded
  <2>3. \A l \in Keys : \A j \in 1..Len(Line(l)) : Line(l)[j] \in Calls
    <3>1. mem[N] \in MemRec  BY <1>1 DEF Typed
    <3>2. \A l \in Keys : Line(l) \in Seq(Calls)  BY <3>1, MemFields DEF Line
    <3>3. QED  BY <3>2, ElementOfSeq
  <2>4. QED  BY <1>1, <1>2, <1>4, <1>14, <2>1, <2>2, <2>3 DEF Lock
<1>21. Orders' /\ Misses' /\ DeckFacts' /\ ChildFacts'
  <2>2. Orders'  BY <1>2, <1>14 DEF Shared, Orders
  <2>3. Misses'
    <3>1. Misses  BY DEF Shared
    <3>2. QED
      BY <1>2, <1>4, <1>14, <3>1 DEF Misses, ClearAt, ClearEnd, SetOf, DelOf, Known, Making, Slot
  <2>4. DeckFacts'
    <3>1. DeckFacts  BY DEF Shared
    <3>2. QED
      BY <1>2, <1>4, <1>14, <3>1
      DEF DeckFacts, SetOf, Noting, Marked, DeckHas, Unended, Settled, Notes, Obj, Is, Key, Student
  <2>5. ChildFacts'
    <3>1. ChildFacts  BY DEF Shared
    <3>2. QED
      BY <1>2, <1>4, <1>14, <3>1
      DEF ChildFacts, SetOf, Handing, Entered, HasToken, RefOf, Slot, Obj, Is, Student
  <2>7. QED  BY <2>2, <2>3, <2>4, <2>5
<1>22. QED  BY <1>16, <1>17, <1>19, <1>20, <1>21 DEF Shared
-----------------------------------------------------------------------------
(* The start                                                               *)

\* The children of the activities that run to begin with are numbered.
LEMMA FirstFacts ==
    ASSUME NEW s \in Scene
    PROVE  /\ Cardinality(s.running) \in 0..MaxChildren
           /\ First(s) \in [s.running -> 1..Cardinality(s.running)]
           /\ \A j, k \in s.running : First(s)[j] = First(s)[k] => j = k
<1> DEFINE S == s.running
           n == Cardinality(S)
<1>1. S \in SUBSET Keys /\ IsFiniteSet(Keys)  BY ConstantsOK DEF Scene
<1>2. IsFiniteSet(S) /\ n <= Cardinality(Keys)  BY <1>1, FS_Subset
<1>3. n \in Nat /\ Cardinality(Keys) \in Nat /\ ExistsBijection(1..n, S)
  BY <1>1, <1>2, FS_CardinalityType
<1>4. n \in 0..MaxChildren  BY <1>2, <1>3, ConstantsOK
<1>5. ExistsBijection(S, 1..n)  BY <1>3, Fun_ExistsBijSymmetric
<1> HIDE DEF S, n
<1>6. PICK f : f \in Bijection(S, 1..n)  BY <1>5 DEF ExistsBijection
<1>7. f \in [S -> 1..n] /\ \A j, k \in S : f[j] = f[k] => j = k
  BY <1>6 DEF Bijection, Injection, IsInjective
<1> USE DEF S, n
<1>8. QED  BY <1>4, <1>7 DEF First

LEMMA BeganFacts ==
    ASSUME NEW s \in Scene
    PROVE  /\ Began(s) \in Deck
           /\ \A k \in Keys : Began(s).acts[k] # None => Began(s).acts[k] \in 1..Cardinality(s.running)
           /\ \A j, k \in Keys : Began(s).acts[j] # None /\ Began(s).acts[j] = Began(s).acts[k] => j = k
<1> DEFINE n == Cardinality(s.running)
           a == [k \in Keys |-> IF k \in s.running THEN First(s)[k] ELSE None]
<1>1. n \in 0..MaxChildren /\ First(s) \in [s.running -> 1..n]
      /\ \A j, k \in s.running : First(s)[j] = First(s)[k] => j = k
  BY FirstFacts
<1>2. MaxChildren \in Nat  BY ConstantFacts
<1>3. 1..n \subseteq Children  BY <1>1, <1>2 DEF Children
<1>4. a \in [Keys -> Children \cup {None}]  BY <1>1, <1>3
<1>5. s.roster \in SUBSET Students  BY DEF Scene
<1>6. Began(s) = [students |-> s.roster, accepted |-> Students, strokes |-> {}, acts |-> a]  BY DEF Began
<1>7. \A k \in Keys : a[k] # None => k \in s.running /\ a[k] = First(s)[k] /\ a[k] \in 1..n
  BY <1>1
<1>8. \A j, k \in Keys : a[j] # None /\ a[j] = a[k] => j = k  BY <1>1, <1>7
<1> HIDE DEF a, n
<1>9. Began(s).acts = a /\ Began(s) \in Deck  BY <1>4, <1>5, <1>6 DEF Deck
<1>10. QED  BY <1>7, <1>8, <1>9 DEF n

LEMMA StoredFacts ==
    ASSUME NEW s \in Scene
    PROVE  /\ Stored(s) \in [Ids -> Deck \cup Child \cup {Gone}] /\ Stored(s)[TheDeck] = Began(s)
           /\ \A i \in Children : IF i <= Cardinality(s.running) THEN Stored(s)[i] \in Child
                                  ELSE Stored(s)[i] = Gone
<1>1. Began(s) \in Deck  BY BeganFacts
<1>2. NewChild \in Child /\ s.roster \in SUBSET Students  BY DeckChild DEF Scene
<1>3. PICK c : c = [NewChild EXCEPT !.tokens = s.roster]  OBVIOUS
<1>4. c \in Child  BY <1>2, <1>3 DEF Child
<1>5. Stored(s) = [i \in Ids |-> IF i = TheDeck THEN Began(s)
                                 ELSE IF i <= Cardinality(s.running) THEN c ELSE Gone]
  BY <1>3 DEF Stored
<1>6. QED  BY <1>1, <1>4, <1>5, ConstantFacts

LEMMA WarmFacts ==
    ASSUME NEW s \in Scene
    PROVE  LET n == Cardinality(s.running) IN
           /\ Warm(s) \in MemRec
           /\ Warm(s).slot[TheDeck] = 1 /\ Warm(s).obj[1] = Began(s)
           /\ \A i \in Ids : Warm(s).owner[i] = None
           /\ \A k \in Keys : Warm(s).queue[k] = <<>>
           /\ \A i \in Children : Warm(s).slot[i] = IF i <= n THEN i + 1 ELSE None
           /\ \A i \in Children : i <= n => i + 1 \in Objects /\ Warm(s).obj[i + 1] \in Child
           /\ \A o \in Objects : Warm(s).obj[o] # None =>
                 o = 1 \/ (o - 1 \in Children /\ o - 1 <= n)
<1> DEFINE n == Cardinality(s.running)
           S == Stored(s)
           b == [o \in Objects |-> IF o - 1 \in Ids /\ S[o - 1] # Gone THEN S[o - 1] ELSE None]
           t == [i \in Ids |-> IF S[i] # Gone THEN i + 1 ELSE None]
           w == [i \in Ids |-> None]
           q == [k \in Keys |-> <<>>]
<1>1. Warm(s) = [obj |-> b, slot |-> t, owner |-> w, queue |-> q]  BY DEF Warm
<1>2. /\ S \in [Ids -> Deck \cup Child \cup {Gone}] /\ S[TheDeck] = Began(s) /\ Began(s) \in Deck
      /\ \A i \in Children : IF i <= n THEN S[i] \in Child ELSE S[i] = Gone
  BY StoredFacts, BeganFacts
<1> HIDE DEF S
<1>3. /\ MaxChildren \in Nat /\ MaxObjects \in Nat /\ MaxObjects > MaxChildren
      /\ Gone \notin Deck /\ Gone \notin Child /\ Gone # None
  BY ConstantsOK, ConstantFacts
<1>4. \A i \in Ids : i \in Nat /\ i + 1 \in Objects /\ (i + 1) - 1 = i  
  BY <1>3 DEF Ids, TheDeck, Children, Objects
<1>5. b \in [Objects -> Deck \cup Child \cup {None}]  BY <1>2
<1>6. t \in [Ids -> Objects \cup {None}]  BY <1>4
<1>7. w \in [Ids -> Calls \cup {None}] /\ q \in [Keys -> Seq(Calls)]
  <2>1. <<>> \in Seq(Calls)  OBVIOUS
  <2>2. QED  BY <2>1
<1>8. TheDeck \in Ids /\ TheDeck + 1 = 1 /\ 1 - 1 = TheDeck /\ 1 \in Objects
      /\ \A i \in Children : i \in Ids
  BY ConstantFacts DEF TheDeck
<1>9. t[TheDeck] = 1 /\ b[1] = Began(s)  BY <1>2, <1>3, <1>8
<1>10. \A i \in Children : t[i] = IF i <= n THEN i + 1 ELSE None  BY <1>2, <1>3, <1>8
<1>11. \A i \in Children : i <= n => i + 1 \in Objects /\ b[i + 1] \in Child
  <2>1. ASSUME NEW i \in Children, i <= n PROVE i + 1 \in Objects /\ b[i + 1] \in Child
    <3>1. i \in Ids /\ i + 1 \in Objects /\ (i + 1) - 1 = i  BY <1>4, <1>8
    <3>2. S[i] \in Child /\ S[i] # Gone  BY <1>2, <1>3, <2>1
    <3>3. QED  BY <3>1, <3>2
  <2>2. QED  BY <2>1
<1>12. ASSUME NEW o \in Objects, b[o] # None PROVE o = 1 \/ (o - 1 \in Children /\ o - 1 <= n)
  <2>1. o - 1 \in Ids /\ S[o - 1] # Gone  BY <1>12
  <2>2. o \in Nat  BY <1>3 DEF Objects
  <2>3. o - 1 = TheDeck => o = 1  BY <2>2 DEF TheDeck
  <2>4. QED  BY <1>2, <2>1, <2>3, ConstantFacts
<1> HIDE DEF b, t, w, q
<1>13. Warm(s).obj = b /\ Warm(s).slot = t /\ Warm(s).owner = w /\ Warm(s).queue = q
  BY <1>1
<1>14. Warm(s) \in MemRec  BY <1>1, <1>5, <1>6, <1>7 DEF MemRec
<1>15. (\A i \in Ids : w[i] = None) /\ (\A k \in Keys : q[k] = <<>>)  BY DEF w, q
<1>16. QED  BY <1>9, <1>10, <1>11, <1>12, <1>13, <1>14, <1>15

LEMMA CalmFacts ==
    ASSUME NEW c, c = Calm \/ c = [Calm EXCEPT !.pc = "done"]
    PROVE  /\ c \in CallRec /\ c.pc \in {"idle", "done"} /\ c.cmd = "none" /\ c.deck = None /\ c.kid = None
           /\ c.id = None /\ c.todo = {} /\ c.reply = "none"
           /\ (c = [Calm EXCEPT !.pc = "done"] => c.pc = "done")
<1>1. TheDeck \in Ids  BY ConstantFacts
<1>2. Calm \in CallRec /\ Calm.pc = "idle"  BY <1>1 DEF Calm, CallRec, Steps
<1>3. Calm.cmd = "none" /\ Calm.deck = None /\ Calm.kid = None /\ Calm.todo = {} /\ Calm.id = None
      /\ Calm.reply = "none"
  BY DEF Calm
<1>4. PICK v : v = [Calm EXCEPT !.pc = "done"]  OBVIOUS
<1>5. v \in CallRec /\ v.pc = "done"  BY <1>2, <1>4 DEF CallRec, Steps
<1>6. /\ v.cmd = Calm.cmd /\ v.deck = Calm.deck /\ v.kid = Calm.kid /\ v.todo = Calm.todo
      /\ v.id = Calm.id /\ v.reply = Calm.reply
  BY <1>2, <1>4 DEF CallRec
<1>7. CASE c = Calm
  <2>1. Calm # v  BY <1>2, <1>5
  <2>2. QED  BY <1>2, <1>3, <1>4, <1>7, <2>1
<1>8. CASE c = v  BY <1>3, <1>5, <1>6, <1>8
<1>9. QED  BY <1>4, <1>7, <1>8

\* Nothing is under way at the start.
Rests == /\ call \in [Calls -> CallRec]
         /\ \A p \in Calls :
              /\ call[p].pc \in {"idle", "done"} /\ call[p].cmd = "none" /\ call[p].deck = None
              /\ call[p].kid = None /\ call[p].id = None /\ call[p].todo = {} /\ call[p].reply = "none"
              /\ Is(p, "none") => call[p].pc = "done"
         /\ \A p : ~InSent(p) /\ ~InBack(p)
         /\ Ready = {} /\ Once(conn[N].sent) /\ Once(conn[N].back)

LEMMA InitRests ==
    ASSUME Sheltered, Init
    PROVE  Rests /\ Typed /\ mem[N] = Warm(scene) /\ store = Stored(scene) /\ made = Cardinality(scene.running)
<1>1. /\ scene \in Scenes /\ store = Stored(scene) /\ mem = [n \in Nodes |-> Warm(scene)]
      /\ conn = [n \in Nodes |-> Quiet] /\ made = Cardinality(scene.running) /\ ages = 0 /\ losses = 0
      /\ call = [p \in Calls |-> IF Is(p, "none") THEN [Calm EXCEPT !.pc = "done"] ELSE Calm]
  BY DEF Init
<1>2. N \in Nodes /\ scene \in Scene  BY <1>1, OneHome
<1>3. ASSUME NEW p \in Calls
      PROVE  /\ call[p] \in CallRec
             /\ call[p].pc \in {"idle", "done"} /\ call[p].cmd = "none" /\ call[p].deck = None
             /\ call[p].kid = None /\ call[p].id = None /\ call[p].todo = {} /\ call[p].reply = "none"
             /\ (Is(p, "none") => call[p].pc = "done")
  <2>1. call[p] = IF Is(p, "none") THEN [Calm EXCEPT !.pc = "done"] ELSE Calm  BY <1>1
  <2>2. PICK c : c = call[p]  OBVIOUS
  <2>3. c = Calm \/ c = [Calm EXCEPT !.pc = "done"]  BY <2>1, <2>2
  <2>4. Is(p, "none") => c = [Calm EXCEPT !.pc = "done"]  BY <2>1, <2>2
  <2>5. QED  BY <2>2, <2>3, <2>4, CalmFacts
<1>4. call \in [Calls -> CallRec]
  <2>1. PICK f : f = [p \in Calls |-> call[p]]  OBVIOUS
  <2>2. call = f  BY <1>1, <2>1
  <2>3. f \in [Calls -> CallRec]  BY <1>3, <2>1
  <2>4. QED  BY <2>2, <2>3
<1>5. mem[N] = Warm(scene) /\ conn[N] = Quiet  BY <1>1, <1>2
<1>6. Quiet.sent = <<>> /\ Quiet.back = <<>> /\ Quiet.ready = {} /\ Quiet \in ConnRec  BY DEF Quiet, ConnRec
<1>7. \A p : ~In(<<>>, p)  BY DEF In
<1>8. Once(<<>>)  BY DEF Once
<1>9. Rests  BY <1>3, <1>4, <1>5, <1>6, <1>7, <1>8 DEF Rests, InSent, InBack, Ready
<1>10. Warm(scene) \in MemRec /\ Cardinality(scene.running) \in 0..MaxChildren
  BY <1>2, WarmFacts, FirstFacts
<1>11. /\ store \in [Ids -> Deck \cup Child \cup {Gone}] /\ store[TheDeck] \in Deck
       /\ \A i \in Children : store[i] \in Child \cup {Gone}
  BY <1>1, <1>2, StoredFacts, BeganFacts
<1>12. mem \in [Nodes -> MemRec] /\ conn \in [Nodes -> ConnRec] /\ \A n \in Nodes : n # N => conn[n] = Quiet
  BY <1>1, <1>6, <1>10
<1>13. Typed  BY <1>1, <1>4, <1>10, <1>11, <1>12 DEF Typed
<1>14. QED  BY <1>1, <1>5, <1>9, <1>13

LEMMA InitShared ==
    ASSUME Sheltered, Init
    PROVE  Shared
<1> DEFINE n == Cardinality(scene.running)
<1>1. /\ Rests /\ Typed /\ mem[N] = Warm(scene) /\ store = Stored(scene) /\ made = n
      /\ scene \in Scenes /\ scene \in Scene
  BY InitRests, ConstantsOK DEF Typed
<1>2. n \in 0..MaxChildren /\ n \in Nat  BY <1>1, FirstFacts
<1>3. \A p \in Calls : CallOK(p, call[p])
  <2>1. ASSUME NEW p \in Calls PROVE CallOK(p, call[p])
    <3>1. /\ call[p].pc \in {"idle", "done"} /\ call[p].cmd = "none" /\ call[p].deck = None
          /\ call[p].kid = None /\ call[p].id = None /\ call[p].todo = {} /\ call[p].reply = "none"
          /\ (Is(p, "none") => call[p].pc = "done")
      BY <1>1 DEF Rests
    <3>2. Commanded(call[p])  BY <3>1 DEF Commanded, Fetches
    <3>3. Holding(p, call[p])  BY <3>1 DEF Holding, Named, Fetches
    <3>4. Does(p, call[p])  BY <3>1 DEF Does, OfStart
    <3>5. QED  BY <3>2, <3>3, <3>4 DEF CallOK
  <2>2. QED  BY <2>1
<1>4. Wire
  <2>1. \A p \in Calls : ~Hit(call[p])  BY <1>1 DEF Rests, Hit, Fetches
  <2>2. QED  BY <1>1, <2>1 DEF Rests, Wire
<1>5. /\ Slot(TheDeck) = 1 /\ Notes = Began(scene)
      /\ \A i \in Ids : Owner(i) = None
      /\ \A k \in Keys : Line(k) = <<>>
      /\ \A i \in Children : Slot(i) = IF i <= n THEN i + 1 ELSE None
      /\ \A i \in Children : i <= n => i + 1 \in Objects /\ Obj(i + 1) \in Child
      /\ \A o \in Objects : Obj(o) # None => o = 1 \/ (o - 1 \in Children /\ o - 1 <= n)
  BY <1>1, WarmFacts DEF Slot, Notes, Obj, Owner, Line
<1>6. Lock
  <2>1. \A k \in Keys : Len(Line(k)) = 0  BY <1>5
  <2>2. \A k \in Keys : \A j \in 1..Len(Line(k)) : FALSE  BY <2>1
  <2>3. \A p \in Calls : ~InLine(p, call[p])  BY <1>1 DEF Rests, InLine, OfStart
  <2>4. QED  BY <2>2, <2>3 DEF Lock, Once
<1>7. /\ Began(scene) \in Deck
      /\ \A k \in Keys : Notes.acts[k] # None => Notes.acts[k] \in 1..n
      /\ \A j, k \in Keys : Notes.acts[j] # None /\ Notes.acts[j] = Notes.acts[k] => j = k
  BY <1>1, <1>5, BeganFacts
<1>8. \A i \in Children, o \in Objects : RefOf(i, o) <=> (i <= n /\ o = i + 1)
  <2>1. \A p \in Calls : call[p].kid = None  BY <1>1 DEF Rests
  <2>2. \A i \in Children, o \in Objects : RefOf(i, o) <=> Slot(i) = o
    BY <2>1, ConstantFacts DEF RefOf
  <2>3. QED  BY <1>5, <2>2, ConstantFacts
<1>9. Memory
  <2>0. \A i \in Children : i \in Nat /\ i # 0 /\ i + 1 # 1 /\ i \in Ids  BY ConstantFacts DEF TheDeck, Children
  <2>1. Slot(TheDeck) = 1 /\ Owner(TheDeck) = None /\ Notes \in Deck
    BY <1>5, <1>7, ConstantFacts
  <2>2. \A i \in Children : Slot(i) # 1 /\ (Owner(i) # None => Slot(i) = None)
    BY <1>5, <2>0, ConstantFacts
  <2>3. \A i \in Children, o \in Objects : RefOf(i, o) => i <= made /\ Obj(o) \in Child
    BY <1>1, <1>5, <1>8
  <2>4. /\ \A i \in Children, o, u \in Objects : RefOf(i, o) /\ RefOf(i, u) => o = u
        /\ \A i, j \in Children, o \in Objects : RefOf(i, o) /\ RefOf(j, o) => i = j
    BY <1>8, <2>0
  <2>5. ASSUME NEW o \in Objects, Obj(o) # None PROVE o = 1 \/ \E i \in Children : RefOf(i, o)
    <3>1. o = 1 \/ (o - 1 \in Children /\ o - 1 <= n)  BY <1>5, <2>5
    <3>2. o \in Nat /\ (o - 1) + 1 = o  BY ConstantFacts DEF Objects
    <3>3. QED  BY <1>8, <3>1, <3>2
  <2>6. QED  BY <2>1, <2>2, <2>3, <2>4, <2>5 DEF Memory
<1>10. Names
  <2>1. \A p \in Calls : call[p].id = None /\ call[p].todo = {} /\ call[p].pc \notin {"made", "probe"}
    BY <1>1 DEF Rests
  <2>2. \A i \in 1..n : Known(i) /\ i \in Children /\ Slot(i) # None
    <3>1. \A i \in 1..n : i <= n /\ i \in Children /\ i \in Nat  BY <1>2, ConstantFacts DEF Children
    <3>2. \A i \in 1..n : i + 1 \in Objects  BY <1>5, <3>1
    <3>3. QED  BY <1>1, <1>5, <2>1, <3>1, <3>2, ConstantFacts DEF Known, Making
  <2>3. QED  BY <1>7, <2>1, <2>2 DEF Names
<1>11. \A p, i : ~SetOf(p, i)  BY <1>1 DEF Rests, SetOf
<1>12. Orders /\ Misses
  <2>1. \A i \in Children : Slot(i) = None => store[i] = Gone
    <3>1. \A i \in Children : i <= n => i + 1 # None  BY <1>5, ConstantFacts
    <3>2. \A i \in Children : IF i <= n THEN store[i] \in Child ELSE store[i] = Gone
      BY <1>1, StoredFacts
    <3>3. QED  BY <1>5, <3>1, <3>2
  <2>2. QED  BY <1>1, <1>11, <2>1 DEF Rests, Orders, Misses, ClearEnd
<1>13. DeckFacts /\ ChildFacts
  <2>1. \A p \in Calls : ~Marked(p, call[p]) /\ ~Entered(p, call[p])
    BY <1>1 DEF Rests, Marked, Entered
  <2>2. store[TheDeck] = Notes  BY <1>1, <1>5, StoredFacts
  <2>3. \A k \in Keys : Settled(k)  BY <1>11, <2>2 DEF Settled
  <2>4. QED  BY <2>1, <2>3 DEF DeckFacts, ChildFacts
<1>14. QED  BY <1>1, <1>3, <1>4, <1>6, <1>9, <1>10, <1>12, <1>13 DEF Shared

\* What the invariant says of the answered changes.
LEMMA NothingLost ==
    ASSUME Sheltered, Shared
    PROVE  NothingIsLost
<1>1. ASSUME NEW p \in Calls, NEW k \in {"join", "update", "entry", "start"}, Done(p, k)
      PROVE  /\ Is(p, k) /\ call[p].pc = "done" /\ call[p].reply = "ok"
             /\ call[p] \in CallRec /\ ~Noting(p) /\ ~Handing(p)
  <2>1. Is(p, k) /\ call[p].reply = "ok"  BY <1>1 DEF Done
  <2>2. CallOK(p, call[p]) /\ call[p] \in CallRec  BY DEF Shared, Typed
  <2>3. call[p].pc = "done"  BY <2>1, <2>2 DEF CallOK, Holding
  <2>4. QED  BY <2>1, <2>2, <2>3 DEF Noting, Handing
<1>2. ASSUME NEW p \in Calls, NEW k \in {"join", "update", "start"}, Done(p, k)
      PROVE  Is(p, k) /\ DeckHas(p, call[p].id, store[TheDeck])
  <2>1. Is(p, k) /\ call[p].pc = "done" /\ call[p].reply = "ok" /\ ~Noting(p)  BY <1>1, <1>2
  <2>2. Marked(p, call[p])  BY <2>1 DEF Marked, Is
  <2>3. QED  BY <2>1, <2>2 DEF Shared, DeckFacts
<1>3. ASSUME NEW p \in Calls, Done(p, "entry"), store[call[p].id] # Gone
      PROVE  Student(p) \in store[call[p].id].tokens
  <2>1. Is(p, "entry") /\ call[p].pc = "done" /\ call[p].reply = "ok" /\ ~Handing(p)  BY <1>1, <1>3
  <2>2. Entered(p, call[p])  BY <2>1 DEF Entered
  <2>3. HasToken(p, store[call[p].id])  BY <2>1, <2>2 DEF Shared, ChildFacts
  <2>4. QED  BY <1>3, <2>3 DEF HasToken
<1>4. ASSUME NEW p \in Calls, Done(p, "start")
      PROVE  \/ store[TheDeck].acts[Key(p)] = call[p].id
             \/ \E q \in Calls : Is(q, "end") /\ Key(q) = Key(p) /\ call[q].pc # "idle"
  <2>1. Is(p, "start") /\ DeckHas(p, call[p].id, store[TheDeck])  BY <1>2, <1>4
  <2>2. QED  BY <2>1 DEF DeckHas, Unended
<1>5. ASSUME NEW p \in Calls, Done(p, "join") PROVE Student(p) \in store[TheDeck].students
  BY <1>2, <1>5 DEF DeckHas
<1>6. ASSUME NEW p \in Calls, Done(p, "update") PROVE p \in store[TheDeck].strokes
  BY <1>2, <1>6 DEF DeckHas
<1>7. QED  BY <1>3, <1>4, <1>5, <1>6 DEF NothingIsLost
-----------------------------------------------------------------------------
(* Every reachable state                                                   *)

\* No step changes the scene, sheltered or not.
LEMMA BecomesHere == ASSUME NEW p, NEW m, NEW c, NEW w, Becomes(p, m, c, w) PROVE scene' = scene
  BY DEF Becomes

LEMMA MovesHere ==
    ASSUME NEW p, NEW m, NEW c
    PROVE  /\ \A s : Goes(p, m, c, s) \/ Waits(p, m, c, s) => scene' = scene
           /\ \A i, s : Get(p, m, c, i, s) => scene' = scene
           /\ \A i, o, s : Set(p, m, c, i, o, s) => scene' = scene
           /\ \A i, s : Delete(p, m, c, i, s) => scene' = scene
           /\ \A r : Answers(p, m, r) => scene' = scene
           /\ \A ids, s : Rereads(p, m, c, ids, s) => scene' = scene
<1>1. \A s : Goes(p, m, c, s) \/ Waits(p, m, c, s) => scene' = scene  BY BecomesHere DEF Goes, Waits
<1>2. \A i, s : Get(p, m, c, i, s) => scene' = scene
  <2>1. ASSUME NEW i, NEW s, Get(p, m, c, i, s) PROVE scene' = scene
    <3>1. CASE m.slot[i] # None
      <4>1. PICK g : g = Given(m, i)  OBVIOUS
      <4>2. Goes(p, g.mem, Holds(c, i, g.at), s)  BY <2>1, <3>1, <4>1, Zenon DEF Get
      <4>3. QED  BY <4>2, BecomesHere DEF Goes
    <3>2. CASE m.slot[i] = None  BY <2>1, <3>2, BecomesHere DEF Get
    <3>3. QED  BY <3>1, <3>2
  <2>2. QED  BY <2>1
<1>3. \A i, o, s : Set(p, m, c, i, o, s) => scene' = scene  BY BecomesHere DEF Set
<1>4. \A i, s : Delete(p, m, c, i, s) => scene' = scene  BY BecomesHere DEF Delete
<1>5. \A r : Answers(p, m, r) => scene' = scene  BY BecomesHere DEF Answers
<1>6. \A ids, s : Rereads(p, m, c, ids, s) => scene' = scene  BY BecomesHere DEF Rereads
<1>7. QED  BY <1>1, <1>2, <1>3, <1>4, <1>5, <1>6

LEMMA CallsHere ==
    ASSUME NEW p, Begin(p) \/ Keepalive(p) \/ Authenticate(p) \/ Resume(p)
    PROVE  scene' = scene
<1>1. CASE Begin(p)  BY <1>1, MovesHere DEF Begin
<1>2. CASE Keepalive(p)  BY <1>2, MovesHere, BecomesHere DEF Keepalive
<1>3. CASE Authenticate(p)  BY <1>3, MovesHere DEF Authenticate
<1>4. CASE Open(p)  BY <1>4, MovesHere DEF Open
<1>5. CASE Update(p)  BY <1>5, MovesHere DEF Update, Write
<1>6. CASE Join(p)  BY <1>6, MovesHere DEF Join, Write, Refuses
<1>7. CASE Watch(p)  BY <1>7, BecomesHere DEF Watch
<1>8. CASE EndActivity(p)  BY <1>8, MovesHere DEF EndActivity, Refuses
<1>9. CASE Enter(p)  BY <1>9, MovesHere DEF Enter, Refuses
<1>10. CASE Return(p)  BY <1>10, MovesHere DEF Return, Refuses
<1>11. CASE DeleteDeck(p)  BY <1>11, MovesHere DEF DeleteDeck, Refuses
<1>12. CASE TellAll(p)  BY <1>12, MovesHere, BecomesHere DEF TellAll
<1>13. CASE DropDeck(p)  BY <1>13, MovesHere, BecomesHere DEF DropDeck
<1>14. CASE Deleted(p)  BY <1>14, MovesHere, BecomesHere DEF Deleted, Fails
<1>15. CASE Revalidated(p)  BY <1>15, MovesHere, BecomesHere DEF Revalidated
<1>16. CASE Queue(p)  BY <1>16, MovesHere, BecomesHere DEF Queue, Fails, Refuses
<1>17. CASE Turn(p)  BY <1>17, MovesHere DEF Turn
<1>18. CASE Look(p)  BY <1>18, MovesHere DEF Look
<1>19. CASE Existing(p)  BY <1>19, MovesHere DEF Existing, Mint
<1>20. CASE Create(p)  BY <1>20, MovesHere DEF Create
<1>21. CASE Note(p)  BY <1>21, MovesHere DEF Note, Fails
<1>22. CASE Greet(p)  BY <1>22, MovesHere DEF Greet
<1>23. CASE Announce(p)  BY <1>23, MovesHere DEF Announce, Fails
<1>24. CASE Bootstrap(p)  BY <1>24, MovesHere DEF Bootstrap, Mint
<1>25. CASE Minted(p)  BY <1>25, MovesHere DEF Minted, Fails
<1>26. CASE NotNoted(p)  BY <1>26, MovesHere DEF NotNoted, Fails
<1>27. CASE Noted(p)  BY <1>27, MovesHere DEF Noted
<1>28. CASE Ended(p)  BY <1>28, MovesHere DEF Ended
<1>29. CASE Replay(p)  BY <1>29, MovesHere DEF Replay, Write
<1>30. CASE Lookup(p)  BY <1>30, MovesHere DEF Lookup
<1>31. CASE Token(p)  BY <1>31, MovesHere DEF Token, Fails
<1>32. CASE Undo(p)  BY <1>32, MovesHere DEF Undo
<1>33. CASE Refill(p)  BY <1>33 DEF Refill
<1>34. CASE TouchDeck(p)  BY <1>34, MovesHere DEF TouchDeck
<1>35. QED
  BY <1>1, <1>2, <1>3, <1>4, <1>5, <1>6, <1>7, <1>8, <1>9, <1>10, <1>11, <1>12, <1>13, <1>14, <1>15,
     <1>16, <1>17, <1>18, <1>19, <1>20, <1>21, <1>22, <1>23, <1>24, <1>25, <1>26, <1>27, <1>28, <1>29,
     <1>30, <1>31, <1>32, <1>33, <1>34, Zenon DEF Resume, Handle

LEMMA SceneKept == ASSUME [Next]_vars PROVE scene' = scene
<1>1. CASE \E p \in Calls : Begin(p) \/ Keepalive(p) \/ Authenticate(p) \/ Resume(p)
  BY <1>1, CallsHere
<1>2. CASE \E n \in Nodes : Exec(n) \/ Receive(n) \/ Lose(n)  BY <1>2 DEF Exec, Receive, Lose
<1>3. CASE \E n \in Nodes : \E i \in Ids : Age(n, i)  BY <1>3 DEF Age
<1>4. CASE UNCHANGED vars  BY <1>4 DEF vars
<1>5. QED  BY <1>1, <1>2, <1>3, <1>4 DEF Next

\* A step that changes nothing.
LEMMA StutterKept ==
    ASSUME Sheltered, Shared, UNCHANGED vars
    PROVE  Shared'
<1>1. /\ scene' = scene /\ store' = store /\ mem' = mem /\ conn' = conn /\ call' = call
      /\ made' = made /\ ages' = ages /\ losses' = losses
  BY DEF vars
<1>2. Stays /\ N' = N  BY <1>1, SameHome DEF Stays
<1>3. Memory' /\ Names' /\ \A q \in Calls : CallOK(q, call[q])'  BY <1>2, StaysKept
<1>4. /\ \A q : InSent(q)' <=> InSent(q)
      /\ \A q : InBack(q)' <=> InBack(q)
      /\ \A q, u : After(q, u)' <=> After(q, u)
      /\ Ready' = Ready
  BY <1>1, <1>2 DEF InSent, InBack, After, Ready
<1>5. Typed' /\ Orders'  BY <1>1, <1>2, <1>4 DEF Shared, Typed, Orders
<1>6. Wire'
  <2>1. Wire  BY DEF Shared
  <2>2. QED  BY <1>1, <1>2, <1>4, <2>1 DEF Wire, Has, Hit, Slot
<1>7. Lock'
  <2>1. Lock  BY DEF Shared
  <2>2. \A k : Line(k)' = Line(k)  BY <1>2, StaysFacts
  <2>3. QED  BY <1>1, <1>4, <2>1, <2>2 DEF Lock, InLine, Is, Key
<1>8. Misses'
  <2>1. Misses  BY DEF Shared
  <2>2. QED  BY <1>1, <1>2, <1>4, <2>1 DEF Misses, ClearAt, ClearEnd, SetOf, DelOf, Known, Making, Slot
<1>9. DeckFacts'
  <2>1. DeckFacts  BY DEF Shared
  <2>2. QED
    BY <1>1, <1>2, <1>4, <2>1
    DEF DeckFacts, SetOf, Noting, Marked, DeckHas, Unended, Settled, Notes, Obj, Is, Key, Student
<1>10. ChildFacts'
  <2>1. ChildFacts  BY DEF Shared
  <2>2. QED
    BY <1>1, <1>2, <1>4, <2>1
    DEF ChildFacts, SetOf, Handing, Entered, HasToken, RefOf, Slot, Obj, Is, Student
<1>11. QED  BY <1>3, <1>5, <1>6, <1>7, <1>8, <1>9, <1>10 DEF Shared

\* Nothing ages and no connection is lost in a sheltered scene.
LEMMA NextShared ==
    ASSUME Sheltered, Shared, [Next]_vars
    PROVE  Shared'
<1>1. CASE \E p \in Calls : Begin(p) \/ Keepalive(p) \/ Authenticate(p) \/ Resume(p)
  BY <1>1, HandlersKept
<1>2. scene.ages = 0 /\ scene.losses = 0 /\ ages = 0 /\ losses = 0  BY DEF Sheltered, Shared, Typed
<1>3. ASSUME NEW n \in Nodes, Exec(n) \/ Receive(n) \/ Lose(n) \/ \E i \in Ids : Age(n, i)
      PROVE  Shared'
  <2>1. ~Lose(n) /\ \A i \in Ids : ~Age(n, i)  BY <1>2 DEF Lose, Age
  <2>2. Exec(n) \/ Receive(n)  BY <1>3, <2>1
  <2>3. CASE Exec(n)  BY <2>3, ExecKept
  <2>4. CASE Receive(n)  BY <2>4, ReceiveKept
  <2>5. QED  BY <2>2, <2>3, <2>4
<1>4. CASE UNCHANGED vars  BY <1>4, StutterKept
<1>5. QED  BY <1>1, <1>3, <1>4 DEF Next

\* In a sheltered scene the handlers share one object of every record, and what a call has
\* changed in it is in Valkey or in a command on its way there, with no older copy behind.
THEOREM RecordsShared == Spec => []IInv
<1>1. Init => IInv  BY InitShared DEF IInv
<1>2. IInv /\ [Next]_vars => IInv'
  <2>1. SUFFICES ASSUME IInv, [Next]_vars, Sheltered' PROVE Shared'  BY DEF IInv
  <2>2. Sheltered  BY <2>1, SceneKept, SameHome
  <2>3. QED  BY <2>1, <2>2, NextShared DEF IInv
<1>3. QED  BY <1>1, <1>2, PTL DEF Spec

\* No change that a call was answered with is lost while the handlers of one instance share
\* the cached record: not a student, a stroke, a token, or the entry of an activity that
\* nobody ended (upgradeSyncDeckSocket, the embedded activity routes and
\* withEmbeddedActivityStartLock in src/activities/syncdeck/server/routes.ts).
THEOREM ChangesSurvive == Spec => []NothingIsLost
<1>1. IInv => NothingIsLost
  <2>1. SUFFICES ASSUME IInv PROVE NothingIsLost  OBVIOUS
  <2>2. CASE Sheltered  BY <2>1, <2>2, NothingLost DEF IInv
  <2>3. CASE ~Sheltered  BY <2>3 DEF NothingIsLost
  <2>4. QED  BY <2>2, <2>3
<1>2. QED  BY <1>1, RecordsShared, PTL
=============================================================================
