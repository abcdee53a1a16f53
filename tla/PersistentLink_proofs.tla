------------------------ MODULE PersistentLink_proofs ------------------------
(***************************************************************************)
(* A permanent link, for any number of instances, sockets, starts, ends,   *)
(* visits, edits, removals and sweeps and any number of lost connections:  *)
(* what a start wrote survives the rollbacks of others, and the link leads *)
(* to no session that was deleted; when all is calm, the session it leads  *)
(* to is in the reverse index, and nobody who waited for it still waits.   *)
(*                                                                         *)
(* The first argument: once the start of a session can write no more       *)
(* (Spent), a record that does not lead to it never leads to it again,     *)
(* except through calls that write back what they read (Unlinked).         *)
(* The second: while a link's session is not in the index, some call is    *)
(* about to enter it or to replace it (Mended).                            *)
(* The third is about replies: they are read in the order the commands     *)
(* ran, so a room is emptied before anybody waits in it, and a socket that *)
(* read an older record waits before the start that replaced it hands the  *)
(* room over (Order).                                                      *)
(***************************************************************************)
EXTENDS PersistentLink, SequenceTheorems, TLAPS

\* The calls in each part of a connection.
Sent(c) == {c.sent[j] : j \in 1..Len(c.sent)}
Back(c) == {c.back[j] : j \in 1..Len(c.back)}
Once(s) == \A i, j \in 1..Len(s) : s[i] = s[j] => i = j

Conn == [sent : Seq(Calls), back : Seq(Calls), ready : SUBSET Calls]

\* A call is in one part of a connection, and there once.
Orderly(c) ==
    /\ c \in Conn /\ Once(c.sent) /\ Once(c.back)
    /\ Sent(c) \cap Back(c) = {} /\ (Sent(c) \cup Back(c)) \cap c.ready = {}

\* The calls whose command has not been executed.
Unrun == {p \in Calls : p \in Sent(conn[At[p]])}

\* The sessions whose start writes the record no more.
Spent == {s \in Sessions : \/ pc[s] \in {"start.index", "rollback", "verify.drop", "done"}
                           \/ pc[s] = "start.put" /\ s \notin Unrun}

\* The sessions the record does not lead to, unless it was written back.
Unlinked == {s \in Sessions : record # NoRecord /\ writer \notin WritesBack => record.link # s}

\* Types; those of the rooms and of what was reported, of Valkey, and of the calls.
SideTyped ==
    /\ waiting \in [Nodes -> SUBSET Joins] /\ open \subseteq Joins
    /\ told \in [Calls -> SUBSET (Sessions \cup {None})]
    /\ authed \subseteq Sessions /\ broken \subseteq Sessions /\ rolledBack \subseteq broken
    /\ issued \subseteq Calls
StoreTyped ==
    /\ index \subseteq Sessions /\ live \subseteq Sessions
    /\ linked \subseteq Sessions /\ writer \in Calls \cup {None}
CallsTyped ==
    /\ scene \in Scenes
    /\ pc \in [Calls -> Commands \cup {"idle", "done"}]
    /\ subject \in [Calls -> Calls \cup {None}]
    /\ failed \subseteq Calls /\ failures \in Nat

\* Connections: whose calls are on which, and that a call that is not answered yet has
\* not failed.
Lined ==
    /\ conn \in [Nodes -> Conn] /\ (failures = 0 => failed = {})
    /\ \A n \in Nodes :
          /\ Orderly(conn[n])
          /\ \A p \in Sent(conn[n]) \cup Back(conn[n]) : p \notin failed
          /\ \A p \in Sent(conn[n]) \cup Back(conn[n]) \cup conn[n].ready :
                At[p] = n /\ pc[p] \in Commands

\* Which calls have command c.
Fits(c, kind) ==
    /\ c \in {"join.get", "join.started", "join.id", "join.put"} => kind = "join"
    /\ c \in {"verify.get", "verify.create", "start.get", "start.unindex", "start.put",
              "start.index", "rollback", "verify.drop"} => kind = "verify"
    /\ c \in {"end.index", "end.record", "end.unindex", "end.scan", "end.find", "end.backfill",
              "end.drop"} => kind = "end"
    /\ c \in {"reset.get", "reset.unindex", "reset.put"} => kind \in {"end", "enter"}
    /\ c \in {"enter.get", "enter.live", "enter.again", "enter.put", "enter.back", "enter.index",
              "again.back", "again.index"} => kind = "enter"
    /\ c \in {"edit.get", "edit.put", "edit.index"} => kind \in {"edit", "enroll", "redeem"}
    /\ c = "enroll.put" => kind = "enroll"
    /\ c \in {"sweep.scan", "sweep.get", "sweep.del"} => kind = "sweep"
    /\ c \in {"remove.get", "remove.unindex", "remove.del"} => kind = "remove"

\* Call p, at command c, holds the record r that the command needs.
Carries(p, c, r) ==
    /\ c \in {"join.put", "enter.put", "reset.put", "enroll.put"} => r # NoRecord /\ r.link = None
    /\ c \in {"start.put", "start.index"} => r # NoRecord /\ r.link = p
    /\ c \in {"start.unindex", "edit.put", "reset.unindex", "enter.back", "again.back",
              "remove.unindex"} => r # NoRecord
    /\ c \in {"edit.index", "enter.index", "again.index"} => r # NoRecord /\ r.link # None

\* A record leads nowhere or to a session whose start is spent; the one a start holds may
\* lead to its own.
Leads(r, own) == r \in Record /\ r.link \in Spent \cup own \cup {None}
Own(p) == {p} \cap Sessions

Held(p) == /\ rec[p] = NoRecord \/ Leads(rec[p], Own(p))
           /\ Fits(pc[p], Kind(p)) /\ Carries(p, pc[p], rec[p])
Holding == rec \in [Calls -> Record \cup {NoRecord}] /\ \A p \in Calls : Held(p)

RecordLeads == record = NoRecord \/ Leads(record, {})
ToldSpent   == \A j \in Calls : told[j] \subseteq Spent \cup {None}

\* A rollback that was answered has cleared the record.
Undone(p) == \/ pc[p] = "rollback" /\ p \notin Unrun \cup failed
             \/ pc[p] = "verify.drop"
             => p \in Unlinked

\* An end that saw the link lead elsewhere, or cleared it, saw the truth.
Seen(p) == \/ pc[p] \in {"end.find", "reset.get"} /\ p \notin Unrun /\ ~LeadsTo(rec[p], subject[p])
           \/ pc[p] = "end.scan" /\ p \notin Unrun /\ rec[p] = NoRecord
           \/ pc[p] = "reset.put" /\ p \notin Unrun
           \/ pc[p] = "end.drop"
EndSees(p) == Kind(p) = "end" /\ pc[p] # "idle" =>
                 /\ subject[p] \in Spent
                 /\ failures = 0 /\ Seen(p) => subject[p] \in Unlinked

Ended == {s \in Sessions : \E p \in Calls : Kind(p) = "end" /\ pc[p] # "idle" /\ subject[p] = s}
Dropped == \A s \in dropped : s \in Spent /\ (s \in Unlinked \/ (failures > 0 /\ s \in Ended))

\* The inductive invariant: the types of what holds no record; the connections; what each
\* call is at and holds; and the four facts above.
IInv == /\ SideTyped /\ StoreTyped /\ CallsTyped /\ Lined /\ Holding /\ RecordLeads /\ ToldSpent
        /\ \A p \in Calls : Undone(p) /\ EndSees(p)
        /\ Dropped /\ StartsSurviveRollbacks
-----------------------------------------------------------------------------
(* The operators of Pipeline                                               *)

LEMMA QuietOrderly == Orderly(Quiet) /\ Sent(Quiet) = {} /\ Back(Quiet) = {} /\ Quiet.ready = {}
<1>1. Quiet \in Conn  BY EmptySeq DEF Quiet, Conn
<1>2. Len(Quiet.sent) = 0 /\ Len(Quiet.back) = 0 /\ Quiet.ready = {}  BY EmptySeq DEF Quiet
<1>3. QED  BY <1>1, <1>2 DEF Orderly, Once, Sent, Back

LEMMA AppendOnce ==
    ASSUME NEW s \in Seq(Calls), NEW p \in Calls, Once(s), p \notin {s[j] : j \in 1..Len(s)}
    PROVE  /\ Append(s, p) \in Seq(Calls) /\ Once(Append(s, p))
           /\ {Append(s, p)[j] : j \in 1..Len(Append(s, p))} = {s[j] : j \in 1..Len(s)} \cup {p}
<1> DEFINE t == Append(s, p)
<1>1. /\ t \in Seq(Calls) /\ Len(t) = Len(s) + 1 /\ Len(s) \in Nat
      /\ \A j \in 1..Len(s) : t[j] = s[j]
      /\ t[Len(s) + 1] = p
  BY AppendProperties, LenProperties
<1> HIDE DEF t
<1>2. ASSUME NEW i \in 1..Len(t), NEW j \in 1..Len(t), t[i] = t[j] PROVE i = j
  <2>1. CASE i = Len(s) + 1 /\ j \in 1..Len(s)  BY <1>1, <1>2, <2>1
  <2>2. CASE j = Len(s) + 1 /\ i \in 1..Len(s)  BY <1>1, <1>2, <2>2
  <2>3. CASE i \in 1..Len(s) /\ j \in 1..Len(s)  BY <1>1, <1>2, <2>3 DEF Once
  <2>4. QED  BY <1>1, <2>1, <2>2, <2>3
<1>3. Once(t)  BY <1>2 DEF Once
<1>4. {t[j] : j \in 1..Len(t)} = {s[j] : j \in 1..Len(s)} \cup {p}
  <2>1. \A j \in 1..Len(t) : t[j] \in {s[i] : i \in 1..Len(s)} \cup {p}
    <3> SUFFICES ASSUME NEW j \in 1..Len(t) PROVE t[j] \in {s[i] : i \in 1..Len(s)} \cup {p}
      OBVIOUS
    <3>1. CASE j = Len(s) + 1  BY <1>1, <3>1
    <3>2. CASE j \in 1..Len(s)  BY <1>1, <3>2
    <3>3. QED  BY <1>1, <3>1, <3>2
  <2>2. \A j \in 1..Len(s) : j \in 1..Len(t) /\ t[j] = s[j]  BY <1>1
  <2>3. Len(s) + 1 \in 1..Len(t) /\ t[Len(s) + 1] = p  BY <1>1
  <2>4. QED  BY <2>1, <2>2, <2>3
<1>5. QED  BY <1>1, <1>3, <1>4 DEF t

LEMMA TailOnce ==
    ASSUME NEW s \in Seq(Calls), s # <<>>, Once(s)
    PROVE  /\ Tail(s) \in Seq(Calls) /\ Once(Tail(s)) /\ Head(s) \in Calls
           /\ Head(s) \in {s[j] : j \in 1..Len(s)}
           /\ {Tail(s)[j] : j \in 1..Len(Tail(s))} = {s[j] : j \in 1..Len(s)} \ {Head(s)}
<1> DEFINE t == Tail(s)
<1>1. /\ t \in Seq(Calls) /\ Len(t) = Len(s) - 1 /\ Len(s) \in Nat /\ Len(s) >= 1
      /\ Head(s) = s[1] /\ Head(s) \in Calls
      /\ \A j \in 1..Len(t) : t[j] = s[j + 1]
  BY HeadTailProperties, LenProperties, EmptySeq
<1> HIDE DEF t
<1>2. Once(t)
  <2> SUFFICES ASSUME NEW i \in 1..Len(t), NEW j \in 1..Len(t), t[i] = t[j] PROVE i = j
    BY DEF Once
  <2>1. i + 1 \in 1..Len(s) /\ j + 1 \in 1..Len(s) /\ s[i + 1] = s[j + 1]  BY <1>1
  <2>2. i + 1 = j + 1  BY <2>1 DEF Once
  <2>3. QED  BY <2>2
<1>3. 1 \in 1..Len(s)  BY <1>1
<1>4. ASSUME NEW j \in 1..Len(t) PROVE t[j] \in {s[i] : i \in 1..Len(s)} \ {Head(s)}
  <2>1. j + 1 \in 1..Len(s) /\ t[j] = s[j + 1] /\ j + 1 # 1  BY <1>1
  <2>2. s[j + 1] # s[1]  BY <2>1, <1>3 DEF Once
  <2>3. QED  BY <2>1, <2>2, <1>1
<1>5. ASSUME NEW j \in 1..Len(s), s[j] # Head(s) PROVE s[j] \in {t[i] : i \in 1..Len(t)}
  <2>1. j # 1  BY <1>1, <1>5
  <2>2. j - 1 \in 1..Len(t) /\ (j - 1) + 1 = j  BY <1>1, <2>1
  <2>3. t[j - 1] = s[j]  BY <2>2, <1>1
  <2>4. QED  BY <2>2, <2>3
<1>6. {t[j] : j \in 1..Len(t)} = {s[j] : j \in 1..Len(s)} \ {Head(s)}  BY <1>4, <1>5
<1>7. Head(s) \in {s[j] : j \in 1..Len(s)}  BY <1>1, <1>3
<1>8. QED  BY <1>1, <1>2, <1>6, <1>7 DEF t

LEMMA SubmitOrderly ==
    ASSUME NEW c, Orderly(c), NEW p \in Calls, p \notin Sent(c) \cup Back(c)
    PROVE  LET d == Submit(Resumed(c, p), p)
           IN  /\ Orderly(d) /\ Sent(d) = Sent(c) \cup {p} /\ Back(d) = Back(c)
               /\ d.ready = c.ready \ {p}
<1> DEFINE d == Submit(Resumed(c, p), p)
<1>1. c \in Conn  BY DEF Orderly
<1> DEFINE e == Resumed(c, p)
<1>2. e \in Conn /\ e.sent = c.sent /\ e.back = c.back /\ e.ready = c.ready \ {p}
  BY <1>1 DEF Resumed, Conn
<1> HIDE DEF e
<1>3. /\ Append(c.sent, p) \in Seq(Calls) /\ Once(Append(c.sent, p))
      /\ {Append(c.sent, p)[j] : j \in 1..Len(Append(c.sent, p))} = Sent(c) \cup {p}
  BY <1>1, AppendOnce DEF Orderly, Sent, Conn
<1>4. d.sent = Append(c.sent, p) /\ d.back = c.back /\ d.ready = c.ready \ {p} /\ d \in Conn
  BY <1>2, <1>3 DEF Conn, Submit, e
<1> HIDE DEF d
<1>5. Sent(d) = Sent(c) \cup {p} /\ Back(d) = Back(c)  BY <1>3, <1>4 DEF Sent, Back
<1>6. Orderly(d)  BY <1>3, <1>4, <1>5 DEF Orderly
<1>7. QED  BY <1>4, <1>5, <1>6 DEF d

LEMMA ResumedOrderly ==
    ASSUME NEW c, Orderly(c), NEW p
    PROVE  LET d == Resumed(c, p)
           IN  Orderly(d) /\ Sent(d) = Sent(c) /\ Back(d) = Back(c) /\ d.ready = c.ready \ {p}
<1> DEFINE d == Resumed(c, p)
<1>1. c \in Conn  BY DEF Orderly
<1>2. d \in Conn /\ d.sent = c.sent /\ d.back = c.back /\ d.ready = c.ready \ {p}
  BY <1>1 DEF Resumed, Conn
<1> HIDE DEF d
<1>3. Sent(d) = Sent(c) /\ Back(d) = Back(c)  BY <1>2 DEF Sent, Back
<1>4. Orderly(d)  BY <1>2, <1>3 DEF Orderly
<1>5. QED  BY <1>2, <1>3, <1>4 DEF d

LEMMA RanOrderly ==
    ASSUME NEW c, Orderly(c), c.sent # <<>>
    PROVE  LET d == Ran(c) p == NextSent(c)
           IN  /\ p \in Calls /\ p \in Sent(c) /\ p \notin Back(c) \cup c.ready
               /\ Orderly(d) /\ Sent(d) = Sent(c) \ {p} /\ Back(d) = Back(c) \cup {p}
               /\ d.ready = c.ready
<1> DEFINE d == Ran(c)
           p == Head(c.sent)
<1>1. c \in Conn  BY DEF Orderly
<1>2. /\ Tail(c.sent) \in Seq(Calls) /\ Once(Tail(c.sent)) /\ p \in Calls /\ p \in Sent(c)
      /\ {Tail(c.sent)[j] : j \in 1..Len(Tail(c.sent))} = Sent(c) \ {p}
  BY <1>1, TailOnce DEF Orderly, Sent, Conn
<1>3. p \notin Back(c) \cup c.ready  BY <1>2 DEF Orderly
<1>4. /\ Append(c.back, p) \in Seq(Calls) /\ Once(Append(c.back, p))
      /\ {Append(c.back, p)[j] : j \in 1..Len(Append(c.back, p))} = Back(c) \cup {p}
  BY <1>1, <1>2, <1>3, AppendOnce DEF Orderly, Back, Conn
<1>5. d.sent = Tail(c.sent) /\ d.back = Append(c.back, p) /\ d.ready = c.ready /\ d \in Conn
  BY <1>1, <1>2, <1>4 DEF Conn, Ran
<1>6. NextSent(c) = p  BY DEF NextSent
<1> HIDE DEF d, p
<1>7. Sent(d) = Sent(c) \ {p} /\ Back(d) = Back(c) \cup {p}  BY <1>2, <1>4, <1>5 DEF Sent, Back
<1>8. Orderly(d)  BY <1>2, <1>3, <1>4, <1>5, <1>7 DEF Orderly
<1>9. QED  BY <1>2, <1>3, <1>5, <1>6, <1>7, <1>8 DEF d, p

LEMMA ReadParts ==
    ASSUME NEW c, Orderly(c), NEW k \in 1..Len(c.back)
    PROVE  LET d == Read(c, k) n == Len(c.back)
           IN  /\ n \in Nat /\ k \in Nat /\ 1 <= k /\ k <= n
               /\ d \in Conn /\ d.sent = c.sent /\ Len(d.back) = n - k
               /\ \A i \in 1..(n - k) : d.back[i] = c.back[k + i]
               /\ d.ready = {c.back[j] : j \in 1..k}
<1> DEFINE d == Read(c, k)
           t == SubSeq(c.back, k + 1, Len(c.back))
           n == Len(c.back)
<1>1. c \in Conn /\ c.back \in Seq(Calls)  BY DEF Orderly, Conn
<1>2. n \in Nat /\ \A j \in 1..n : c.back[j] \in Calls  BY <1>1, LenProperties, ElementOfSeq
<1>3. k \in Nat /\ 1 <= k /\ k <= n  BY <1>2
<1>4. \A i \in (k + 1)..n : c.back[i] \in Calls  BY <1>2, <1>3
<1>5. /\ t \in Seq(Calls) /\ Len(t) = IF k + 1 <= n THEN n - (k + 1) + 1 ELSE 0
      /\ \A i \in 1..(n - (k + 1) + 1) : t[i] = c.back[(k + 1) + i - 1]
  BY <1>1, <1>2, <1>3, <1>4, SubSeqProperties
<1>6. Len(t) = n - k /\ \A i \in 1..(n - k) : t[i] = c.back[k + i]
  <2>1. n - (k + 1) + 1 = n - k /\ \A i \in Nat : (k + 1) + i - 1 = k + i  BY <1>2, <1>3
  <2>2. k + 1 <= n \/ n - k = 0  BY <1>2, <1>3
  <2>3. QED  BY <1>5, <2>1, <2>2
<1>7. {c.back[j] : j \in 1..k} \subseteq Calls  BY <1>2, <1>3
<1>8. d.sent = c.sent /\ d.back = t /\ d.ready = {c.back[j] : j \in 1..k} /\ d \in Conn
  BY <1>1, <1>5, <1>7 DEF Read, Conn
<1>9. QED  BY <1>2, <1>3, <1>6, <1>8

LEMMA ReadOrderly ==
    ASSUME NEW c, Orderly(c), c.ready = {}, NEW k \in 1..Len(c.back)
    PROVE  LET d == Read(c, k)
           IN  /\ Orderly(d) /\ Sent(d) = Sent(c)
               /\ Back(d) \subseteq Back(c) /\ d.ready \subseteq Back(c)
<1> DEFINE d == Read(c, k)
           t == d.back
           r == {c.back[j] : j \in 1..k}
           n == Len(c.back)
<1>1. /\ n \in Nat /\ k \in Nat /\ 1 <= k /\ k <= n
      /\ d \in Conn /\ d.sent = c.sent /\ d.ready = r
      /\ Len(t) = n - k /\ \A i \in 1..(n - k) : t[i] = c.back[k + i]
  BY ReadParts
<1> HIDE DEF d, r
<1>2. r \subseteq Back(c)  BY <1>1 DEF Back, r
<1>3. Once(t)
  <2> SUFFICES ASSUME NEW i \in 1..Len(t), NEW j \in 1..Len(t), t[i] = t[j] PROVE i = j
    BY DEF Once
  <2>1. i \in 1..(n - k) /\ j \in 1..(n - k)  BY <1>1
  <2> HIDE DEF n
  <2>2. k + i \in 1..n /\ k + j \in 1..n  BY <2>1, <1>1
  <2>3. c.back[k + i] = c.back[k + j]  BY <2>1, <1>1
  <2>4. k + i = k + j  BY <2>2, <2>3 DEF Orderly, Once, n
  <2>5. QED  BY <2>4, <2>1, <1>1
<1>4. ASSUME NEW i \in 1..Len(t) PROVE t[i] \in Back(c) \ r
  <2>1. k + i \in 1..n /\ t[i] = c.back[k + i] /\ k + i \notin 1..k  BY <1>1
  <2>2. \A j \in 1..k : j \in 1..n  BY <1>1
  <2>3. \A j \in 1..k : c.back[j] # c.back[k + i]  BY <2>1, <2>2 DEF Orderly, Once
  <2>4. QED  BY <2>1, <2>3 DEF Back, r
<1>5. Sent(d) = Sent(c) /\ Back(d) \subseteq Back(c) \ r  BY <1>1, <1>4 DEF Sent, Back
<1>6. Orderly(d)  BY <1>1, <1>2, <1>3, <1>5 DEF Orderly
<1>7. QED  BY <1>1, <1>2, <1>5, <1>6 DEF d

LEMMA GivenUpOrderly ==
    ASSUME NEW c, Orderly(c)
    PROVE  LET d == GivenUp(c)
           IN  /\ Orderly(d) /\ Sent(d) = {} /\ Back(d) = {} /\ d.ready = Sent(c) \cup Back(c)
               /\ Unanswered(c) = Sent(c) \cup Back(c)
<1> DEFINE d == GivenUp(c)
<1>1. c \in Conn  BY DEF Orderly
<1>2. Unanswered(c) = Sent(c) \cup Back(c)  BY DEF Unanswered, Sent, Back
<1>3. Sent(c) \cup Back(c) \subseteq Calls  BY <1>1, ElementOfSeq DEF Sent, Back, Conn
<1>4. d \in Conn /\ d.sent = <<>> /\ d.back = <<>> /\ d.ready = Sent(c) \cup Back(c)
  BY <1>2, <1>3, EmptySeq DEF GivenUp, Quiet, Conn
<1>5. Len(d.sent) = 0 /\ Len(d.back) = 0  BY <1>4, EmptySeq
<1> HIDE DEF d
<1>6. Sent(d) = {} /\ Back(d) = {}  BY <1>5 DEF Sent, Back
<1>7. Orderly(d)  BY <1>4, <1>5, <1>6 DEF Orderly, Once
<1>8. QED  BY <1>2, <1>4, <1>6, <1>7 DEF d

-----------------------------------------------------------------------------
(* A step of a call                                                        *)

\* p goes on to command c, or is done; and holds r.
To(p, c) == \/ c \in Commands /\ Send(p, c)
            \/ c = "done" /\ Return(p)
Goes(p, c, r) == To(p, c) /\ Hold(p, r)

LEMMA NoCommand == "idle" \notin Commands /\ "done" \notin Commands
BY DEF Commands, RecordReads

LEMMA AtNode == \A p \in Calls : At[p] \in Nodes
BY ConstantsOK

\* Where p stands in its connection, if it is not begun, or due to be resumed.
LEMMA NotOnTheWay ==
    ASSUME Lined, NEW p \in Calls, pc[p] = "idle" \/ p \in conn[At[p]].ready
    PROVE  /\ p \notin Sent(conn[At[p]]) \cup Back(conn[At[p]]) /\ p \notin Unrun
           /\ p \in conn[At[p]].ready => pc[p] \in Commands
<1>1. At[p] \in Nodes /\ Orderly(conn[At[p]])  BY AtNode DEF Lined
<1>2. CASE pc[p] = "idle"  BY <1>1, <1>2, NoCommand DEF Lined, Unrun
<1>3. CASE p \in conn[At[p]].ready  BY <1>1, <1>3 DEF Lined, Orderly, Unrun
<1>4. QED  BY <1>2, <1>3

\* What a step of p does to the connections.
LEMMA CallLined ==
    ASSUME Lined, CallsTyped, NEW p \in Calls, pc[p] = "idle" \/ p \in conn[At[p]].ready,
           NEW c, NEW r, Goes(p, c, r), UNCHANGED failures
    PROVE  /\ Lined' /\ pc' = [pc EXCEPT ![p] = c] /\ c \in Commands \cup {"done"}
           /\ failed' = failed \ {p}
           /\ c # "done" => p \in Unrun'
           /\ \A q \in Calls : q # p => (q \in Unrun' <=> q \in Unrun)
           /\ c = "done" => p \notin Unrun'
<1> DEFINE N == At[p]
           d == conn'[N]
<1>1. /\ N \in Nodes /\ Orderly(conn[N]) /\ p \notin Sent(conn[N]) \cup Back(conn[N])
      /\ conn \in [Nodes -> Conn] /\ (failures = 0 => failed = {})
  BY AtNode, NotOnTheWay DEF Lined
<1>2. /\ pc' = [pc EXCEPT ![p] = c] /\ failed' = failed \ {p} /\ c \in Commands \cup {"done"}
  BY DEF Goes, To, Send, Return
<1>3. \/ c \in Commands /\ conn' = [conn EXCEPT ![N] = Submit(Resumed(conn[N], p), p)]
      \/ c = "done" /\ conn' = [conn EXCEPT ![N] = Resumed(conn[N], p)]
  BY DEF Goes, To, Send, Return
<1>4. /\ Orderly(d) /\ Back(d) = Back(conn[N]) /\ d.ready = conn[N].ready \ {p}
      /\ Sent(d) = IF c = "done" THEN Sent(conn[N]) ELSE Sent(conn[N]) \cup {p}
  <2>1. CASE c \in Commands
    <3>1. d = Submit(Resumed(conn[N], p), p)  BY <1>1, <1>3, <2>1, NoCommand
    <3>2. QED  BY <1>1, <2>1, <3>1, SubmitOrderly, NoCommand
  <2>2. CASE c = "done"
    <3>1. d = Resumed(conn[N], p)  BY <1>1, <1>3, <2>2, NoCommand
    <3>2. QED  BY <1>1, <2>2, <3>1, ResumedOrderly
  <2>3. QED  BY <1>2, <2>1, <2>2
<1>5. /\ conn' \in [Nodes -> Conn] /\ \A n \in Nodes : n # N => conn'[n] = conn[n]
  BY <1>1, <1>3, <1>4 DEF Orderly
<1> HIDE DEF d
<1>6. ASSUME NEW n \in Nodes
      PROVE  /\ Orderly(conn'[n])
             /\ \A q \in Sent(conn'[n]) \cup Back(conn'[n]) : q \notin failed'
             /\ \A q \in Sent(conn'[n]) \cup Back(conn'[n]) \cup conn'[n].ready :
                   At[q] = n /\ pc'[q] \in Commands
  <2>1. CASE n = N
    <3>1. conn'[n] = d  BY <2>1 DEF d
    <3>2. ASSUME NEW q \in Sent(d) \cup Back(d) PROVE q \notin failed'
      BY <1>1, <1>2, <1>4, <3>2 DEF Lined
    <3>3. ASSUME NEW q \in Sent(d) \cup Back(d) \cup d.ready PROVE At[q] = N /\ pc'[q] \in Commands
      <4>1. CASE q = p
        <5>1. p \in Sent(d)  BY <1>1, <1>4, <3>3, <4>1
        <5>2. c \in Commands  BY <1>1, <1>2, <1>4, <5>1
        <5>3. QED  BY <4>1, <5>2, <1>2 DEF CallsTyped
      <4>2. CASE q # p
        <5>1. q \in Sent(conn[N]) \cup Back(conn[N]) \cup conn[N].ready  BY <1>4, <3>3, <4>2
        <5>2. At[q] = N /\ pc[q] \in Commands  BY <5>1, <1>1 DEF Lined
        <5>3. q \in Calls  BY <5>1, <1>1, ElementOfSeq DEF Conn, Sent, Back
        <5>4. QED  BY <4>2, <5>2, <5>3, <1>2 DEF CallsTyped
      <4>3. QED  BY <4>1, <4>2
    <3>4. QED  BY <2>1, <3>1, <3>2, <3>3, <1>4
  <2>2. CASE n # N
    <3>1. conn'[n] = conn[n]  BY <1>5, <2>2
    <3>2. ASSUME NEW q \in Sent(conn[n]) \cup Back(conn[n]) \cup conn[n].ready
          PROVE  At[q] = n /\ pc'[q] \in Commands
      <4>1. At[q] = n /\ pc[q] \in Commands  BY <3>2 DEF Lined
      <4>2. q \in Calls  BY <3>2, <1>1, ElementOfSeq DEF Conn, Sent, Back
      <4>3. QED  BY <4>1, <4>2, <2>2, <1>2 DEF CallsTyped
    <3>3. Orderly(conn[n]) /\ \A q \in Sent(conn[n]) \cup Back(conn[n]) : q \notin failed'
      BY <1>2 DEF Lined
    <3>4. QED  BY <3>1, <3>2, <3>3
  <2>3. QED  BY <2>1, <2>2
<1>7. failures' = 0 => failed' = {}  BY <1>1, <1>2
<1>8. Lined'  BY <1>5, <1>6, <1>7 DEF Lined
<1>9. p \in Unrun' <=> c # "done"
  <2>1. conn'[At[p]] = d  BY DEF d
  <2>2. p \in Unrun' <=> p \in Sent(d)  BY <2>1 DEF Unrun
  <2>3. QED  BY <2>2, <1>1, <1>4
<1>10. ASSUME NEW q \in Calls, q # p PROVE q \in Unrun' <=> q \in Unrun
  <2>1. CASE At[q] = N
    <3>1. conn'[At[q]] = d  BY <2>1 DEF d
    <3>2. q \in Unrun' <=> q \in Sent(d)  BY <3>1 DEF Unrun
    <3>3. q \in Unrun <=> q \in Sent(conn[N])  BY <2>1 DEF Unrun
    <3>4. QED  BY <3>2, <3>3, <1>4, <1>10
  <2>2. CASE At[q] # N
    <3>1. conn'[At[q]] = conn[At[q]]  BY <2>2, <1>5, AtNode
    <3>2. QED  BY <3>1 DEF Unrun
  <2>3. QED  BY <2>1, <2>2
<1>11. QED  BY <1>2, <1>8, <1>9, <1>10

\* A start that writes no more never comes to write again.
Onward(p, c) == pc[p] \in {"start.put", "start.index", "rollback", "verify.drop", "done"}
                => c \in {"start.index", "rollback", "verify.drop", "done"}

\* A step of p is safe if what p comes to hold and to report is.
LEMMA CallInv ==
    ASSUME IInv, NEW p \in Calls, pc[p] = "idle" \/ p \in conn[At[p]].ready, NEW c, NEW r,
           Goes(p, c, r), Frame, NEW s \in Calls \cup {None}, subject' = [subject EXCEPT ![p] = s],
           s = subject[p] \/ pc[p] = "idle", Kind(p) = "end" => s \in Spent,
           r = NoRecord \/ Leads(r, Own(p)), Fits(c, Kind(p)), Carries(p, c, r), Onward(p, c),
           c = "verify.drop" => p \in Unlinked,
           c = "end.drop" /\ failures = 0 => s \in Unlinked,
           pc[p] = "rollback" => p \in broken', broken \subseteq broken', SideTyped',
           \A j \in Calls : told'[j] \subseteq Spent \cup {None} \cup
                                 (IF c = "done" THEN Own(p) ELSE {})
    PROVE  IInv'
<1>1. /\ Lined /\ CallsTyped /\ Holding /\ StoreTyped /\ RecordLeads
      /\ UNCHANGED <<scene, record, index, live, linked, writer, dropped, failures>>
      /\ \A q \in Calls : Undone(q) /\ EndSees(q)
  BY DEF IInv, Frame, valkey, links
<1>2. /\ Lined' /\ pc' = [pc EXCEPT ![p] = c] /\ c \in Commands \cup {"done"}
      /\ failed' = failed \ {p}
      /\ c # "done" => p \in Unrun'
      /\ \A q \in Calls : q # p => (q \in Unrun' <=> q \in Unrun)
      /\ c = "done" => p \notin Unrun'
  BY <1>1, CallLined
<1>3. /\ \A q \in Calls : Kind(q)' = Kind(q)
      /\ Sessions' = Sessions /\ Joins' = Joins /\ WritesBack' = WritesBack
      /\ Unlinked' = Unlinked
  BY <1>1 DEF Kind, Sessions, Joins, WritesBack, Unlinked
<1>4. /\ pc'[p] = c /\ \A q \in Calls : q # p => pc'[q] = pc[q]
      /\ c # "idle"
  BY <1>1, <1>2, NoCommand DEF CallsTyped
<1>5. Spent \subseteq Spent'
  <2> SUFFICES ASSUME NEW q \in Spent PROVE q \in Spent'  OBVIOUS
  <2>1. q \in Calls /\ q \in Sessions  BY DEF Spent, Sessions
  <2>2. CASE q = p
    <3>1. c \in {"start.index", "rollback", "verify.drop", "done"}  BY <2>2 DEF Spent, Onward
    <3>2. QED  BY <2>1, <2>2, <3>1, <1>3, <1>4 DEF Spent
  <2>3. CASE q # p  BY <2>1, <2>3, <1>2, <1>3, <1>4 DEF Spent
  <2>4. QED  BY <2>2, <2>3
<1>6. CallsTyped'
  <2>1. pc' \in [Calls -> Commands \cup {"idle", "done"}]  BY <1>1, <1>2 DEF CallsTyped
  <2>2. subject' \in [Calls -> Calls \cup {None}]  BY <1>1 DEF CallsTyped
  <2>3. QED  BY <1>1, <1>2, <2>1, <2>2 DEF CallsTyped
<1>7. StoreTyped'  BY <1>1, <1>3 DEF StoreTyped
<1>8. Holding'
  <2>1. r \in Record \cup {NoRecord}  BY DEF Leads
  <2>2. rec' = [rec EXCEPT ![p] = r]  BY DEF Goes, Hold
  <2>3. rec' \in [Calls -> Record \cup {NoRecord}] /\ rec'[p] = r
        /\ \A q \in Calls : q # p => rec'[q] = rec[q]
    BY <1>1, <2>1, <2>2 DEF Holding
  <2>4. \A q \in Calls : Own(q)' = Own(q)  BY <1>3 DEF Own
  <2>5. ASSUME NEW q \in Calls PROVE Held(q)'
    <3>1. CASE q = p
      <4>1. rec'[p] = NoRecord \/ Leads(rec[p], Own(p))'
        BY <2>3, <2>4, <1>5 DEF Leads
      <4>2. Fits(pc'[p], Kind(p)') /\ Carries(p, pc'[p], rec'[p])  BY <2>3, <1>3, <1>4
      <4>3. QED  BY <3>1, <4>1, <4>2 DEF Held
    <3>2. CASE q # p
      <4>1. Held(q)  BY <1>1 DEF Holding
      <4>2. rec'[q] = NoRecord \/ Leads(rec[q], Own(q))'
        BY <3>2, <4>1, <2>3, <2>4, <1>5 DEF Held, Leads
      <4>3. Fits(pc'[q], Kind(q)') /\ Carries(q, pc'[q], rec'[q])
        BY <3>2, <4>1, <2>3, <1>3, <1>4 DEF Held
      <4>4. QED  BY <4>2, <4>3 DEF Held
    <3>3. QED  BY <3>1, <3>2
  <2>6. QED  BY <2>3, <2>5 DEF Holding
<1>9. RecordLeads'  BY <1>1, <1>5 DEF RecordLeads, Leads
<1>10. ToldSpent'
  <2>1. c = "done" => Own(p) \subseteq Spent'  BY <1>3, <1>4 DEF Own, Spent
  <2>2. QED  BY <2>1, <1>5 DEF ToldSpent
<1>11. ASSUME NEW q \in Calls PROVE Undone(q)'
  <2>1. CASE q = p
    <3>1. c = "rollback" => p \in Unrun'  BY <1>2
    <3>2. QED  BY <2>1, <3>1, <1>3, <1>4 DEF Undone
  <2>2. CASE q # p  BY <2>2, <1>1, <1>2, <1>3, <1>4 DEF Undone
  <2>3. QED  BY <2>1, <2>2
<1>12. ASSUME NEW q \in Calls PROVE EndSees(q)'
  <2>1. CASE q = p
    <3>1. subject'[p] = s  BY <1>1 DEF CallsTyped
    <3>2. Seen(p)' => c = "end.drop"  BY <1>2, <1>4 DEF Seen
    <3>3. QED  BY <2>1, <3>1, <3>2, <1>1, <1>3, <1>5 DEF EndSees
  <2>2. CASE q # p
    <3>1. subject'[q] = subject[q] /\ rec'[q] = rec[q] /\ pc'[q] = pc[q]
      BY <2>2, <1>1, <1>4 DEF CallsTyped, Holding, Goes, Hold
    <3>2. Seen(q)' => Seen(q)  BY <3>1, <1>2, <2>2 DEF Seen, LeadsTo
    <3>3. QED  BY <3>1, <3>2, <1>1, <1>3, <1>5 DEF EndSees
  <2>3. QED  BY <2>1, <2>2
<1>13. Dropped'
  <2>1. Ended \subseteq Ended'
    <3> SUFFICES ASSUME NEW q \in Calls, Kind(q) = "end", pc[q] # "idle", subject[q] \in Sessions
                 PROVE  subject[q] \in Ended'
      BY DEF Ended
    <3>1. subject'[q] = subject[q] /\ pc'[q] # "idle"  BY <1>1, <1>4 DEF CallsTyped
    <3>2. QED  BY <3>1, <1>3 DEF Ended
  <2>2. Dropped  BY DEF IInv
  <2>3. QED  BY <2>1, <2>2, <1>1, <1>3, <1>5 DEF Dropped
<1>14. StartsSurviveRollbacks'
  <2>1. StartsSurviveRollbacks  BY DEF IInv
  <2>2. CASE writer = p
    BY <2>1, <2>2, <1>1, <1>3, <1>4 DEF StartsSurviveRollbacks
  <2>3. CASE writer # p
    <3>1. writer \in Sessions => writer \in Calls  BY DEF Sessions
    <3>2. QED  BY <2>1, <2>3, <3>1, <1>1, <1>3, <1>4 DEF StartsSurviveRollbacks
  <2>4. QED  BY <2>2, <2>3
<1>15. QED  BY <1>2, <1>6, <1>7, <1>8, <1>9, <1>10, <1>11, <1>12, <1>13, <1>14 DEF IInv

LEMMA ReadyFacts ==
    ASSUME IInv, NEW p \in Calls, p \in conn[At[p]].ready
    PROVE  /\ pc[p] \in Commands /\ pc[p] \notin {"idle", "done"} /\ p \notin Unrun
           /\ Held(p) /\ Undone(p) /\ EndSees(p) /\ rec[p] \in Record \cup {NoRecord}
           /\ NoRecord \notin Record /\ (failures = 0 => Got(p) = rec[p])
           /\ Got(p) \in {NoRecord, rec[p]} /\ (UNCHANGED rec => Hold(p, rec[p]))
           /\ SideTyped /\ CallsTyped /\ ToldSpent
<1>1. Lined /\ Holding /\ Undone(p) /\ EndSees(p) /\ SideTyped /\ CallsTyped /\ ToldSpent
  BY DEF IInv
<1>2. pc[p] \in Commands /\ p \notin Unrun  BY <1>1, NotOnTheWay
<1>3. pc[p] \notin {"idle", "done"}  BY <1>2, NoCommand
<1>4. Held(p) /\ rec[p] \in Record \cup {NoRecord}  BY <1>1 DEF Holding
<1>5. (failures = 0 => Got(p) = rec[p]) /\ Got(p) \in {NoRecord, rec[p]}
  BY <1>1 DEF Lined, Got
<1>6. UNCHANGED rec => Hold(p, rec[p])  BY <1>1 DEF Holding, Hold
<1>7. QED  BY <1>1, <1>2, <1>3, <1>4, <1>5, <1>6, NoRecordOK

LEMMA QuietCall ==
    ASSUME IInv, NEW p \in Calls, p \in conn[At[p]].ready, NEW c, NEW r, Goes(p, c, r), Frame,
           UNCHANGED subject, LeaveRoom, LeaveStarts, LeaveEntries,
           r = NoRecord \/ Leads(r, Own(p)), Fits(c, Kind(p)), Carries(p, c, r), Onward(p, c),
           pc[p] # "rollback", c # "verify.drop",
           c = "end.drop" /\ failures = 0 => subject[p] \in Unlinked
    PROVE  IInv'
<1>1. /\ pc[p] # "idle" /\ EndSees(p) /\ SideTyped /\ CallsTyped /\ ToldSpent
  BY ReadyFacts
<1>2. /\ subject[p] \in Calls \cup {None} /\ subject' = [subject EXCEPT ![p] = subject[p]]
      /\ Kind(p) = "end" => subject[p] \in Spent
  BY <1>1 DEF CallsTyped, EndSees
<1>3. UNCHANGED <<waiting, open, told, authed, broken, rolledBack, issued, scene>>
  BY DEF LeaveRoom, LeaveStarts, LeaveEntries, Frame
<1>4. SideTyped'  BY <1>1, <1>3 DEF SideTyped, Joins, Sessions, Kind
<1>5. \A j \in Calls : told'[j] \subseteq Spent \cup {None}  BY <1>1, <1>3 DEF ToldSpent
<1>6. QED  BY <1>2, <1>3, <1>4, <1>5, CallInv

\* A call that goes on with the record it holds.
LEMMA KeepingCall ==
    ASSUME IInv, NEW p \in Calls, p \in conn[At[p]].ready, NEW c, To(p, c), UNCHANGED rec, Frame,
           UNCHANGED subject, LeaveRoom, LeaveStarts, LeaveEntries,
           Fits(c, Kind(p)), Carries(p, c, rec[p]), Onward(p, c),
           pc[p] # "rollback", c # "verify.drop",
           c = "end.drop" /\ failures = 0 => subject[p] \in Unlinked
    PROVE  IInv'
<1>1. Held(p) /\ Hold(p, rec[p])  BY ReadyFacts
<1>2. Goes(p, c, rec[p])  BY <1>1 DEF Goes
<1>3. rec[p] = NoRecord \/ Leads(rec[p], Own(p))  BY <1>1 DEF Held
<1>4. QED  BY <1>2, <1>3, QuietCall

-----------------------------------------------------------------------------
(* Calls begin                                                             *)

LEMMA StartInv == ASSUME IInv, NEW p \in Calls, Start(p) PROVE IInv'
<1>1. /\ SideTyped /\ CallsTyped /\ ToldSpent /\ Holding /\ StoreTyped /\ Held(p)
      /\ pc[p] = "idle" /\ Frame /\ LeaveStarts /\ LeaveEntries /\ UNCHANGED <<rec, waiting, told>>
  BY DEF IInv, Holding, Start, Connect, Verify, End, Redeem, Request, Begin, LeaveRoom
<1>2. PICK c \in {"join.get", "verify.get", "end.index", "edit.get", "enter.get", "sweep.scan",
                  "remove.get"} :
         Send(p, c) /\ Fits(c, Kind(p))
  BY DEF Start, Connect, Verify, End, Redeem, Request, Begin, Fits
<1>3. PICK s \in Calls \cup {None} :
         subject' = [subject EXCEPT ![p] = s] /\ (Kind(p) = "end" => s \in Spent)
  <2>1. CASE End(p)
    <3>1. PICK s \in live, j \in Joins : s \in told[j] /\ subject' = [subject EXCEPT ![p] = s]
      BY <2>1 DEF End
    <3>2. s \in Sessions /\ s \in Calls /\ s # None
      BY <3>1, <1>1, ConstantsOK DEF StoreTyped, Sessions
    <3>3. s \in Spent  BY <3>1, <3>2, <1>1 DEF ToldSpent, Joins
    <3>4. QED  BY <3>1, <3>2, <3>3
  <2>2. CASE Redeem(p)
    <3>1. PICK e \in issued : subject' = [subject EXCEPT ![p] = e]  BY <2>2 DEF Redeem
    <3>2. e \in Calls /\ Kind(p) = "redeem"  BY <3>1, <2>2, <1>1 DEF SideTyped, Redeem, Begin
    <3>3. QED  BY <3>1, <3>2
  <2>3. CASE Connect(p) \/ Verify(p) \/ Request(p)
    <3>1. subject' = subject /\ Kind(p) # "end"
      BY <2>3 DEF Connect, Verify, Request, Begin
    <3>2. subject[p] \in Calls \cup {None} /\ subject' = [subject EXCEPT ![p] = subject[p]]
      BY <3>1, <1>1 DEF CallsTyped
    <3>3. QED  BY <3>1, <3>2
  <2>4. QED  BY <2>1, <2>2, <2>3 DEF Start
<1>4. /\ c \in Commands /\ c # "verify.drop" /\ c # "end.drop" /\ c # "done"
      /\ Carries(p, c, rec[p]) /\ Onward(p, c) /\ pc[p] # "rollback"
  BY <1>1, <1>2 DEF Commands, RecordReads, Carries, Onward
<1>5. Goes(p, c, rec[p]) /\ (rec[p] = NoRecord \/ Leads(rec[p], Own(p)))
  <2>1. rec' = [rec EXCEPT ![p] = rec[p]]  BY <1>1 DEF Holding
  <2>2. QED  BY <2>1, <1>1, <1>2, <1>4 DEF Goes, To, Hold, Held
<1>6. UNCHANGED <<authed, broken, rolledBack, issued, scene>>
  BY <1>1 DEF LeaveStarts, LeaveEntries, Frame
<1>7. open' \subseteq Joins
  <2>1. CASE Connect(p)
    <3>1. Kind(p) = "join" /\ open' = open \cup {p}  BY <2>1 DEF Connect, Begin
    <3>2. QED  BY <3>1, <1>1 DEF SideTyped, Joins
  <2>2. CASE Verify(p) \/ End(p) \/ Redeem(p) \/ Request(p)
    <3>1. open' = open  BY <2>2 DEF Verify, End, Redeem, Request, LeaveRoom
    <3>2. QED  BY <3>1, <1>1 DEF SideTyped
  <2>3. QED  BY <2>1, <2>2 DEF Start
<1>8. SideTyped'  BY <1>1, <1>6, <1>7 DEF SideTyped, Joins, Sessions, Kind
<1>9. \A j \in Calls : told'[j] \subseteq Spent \cup {None}  BY <1>1 DEF ToldSpent
<1>10. QED  BY <1>1, <1>2, <1>3, <1>4, <1>5, <1>6, <1>8, <1>9, CallInv

-----------------------------------------------------------------------------
(* Continuations                                                           *)

\* A continuation that changes a room or a report.
LEMMA SideCall ==
    ASSUME IInv, NEW p \in Calls, p \in conn[At[p]].ready, NEW c, NEW r, Goes(p, c, r), Frame,
           UNCHANGED subject, r = NoRecord \/ Leads(r, Own(p)),
           Fits(c, Kind(p)), Carries(p, c, r), Onward(p, c),
           c = "verify.drop" => p \in Unlinked, c # "end.drop",
           pc[p] = "rollback" => p \in broken', broken \subseteq broken', SideTyped',
           \A j \in Calls : told'[j] \subseteq Spent \cup {None} \cup
                                 (IF c = "done" THEN Own(p) ELSE {})
    PROVE  IInv'
<1>1. /\ pc[p] # "idle" /\ EndSees(p) /\ CallsTyped  BY ReadyFacts
<1>2. /\ subject[p] \in Calls \cup {None} /\ subject' = [subject EXCEPT ![p] = subject[p]]
      /\ Kind(p) = "end" => subject[p] \in Spent
  BY <1>1 DEF CallsTyped, EndSees
<1>3. QED  BY <1>2, CallInv

LEMMA NewRecordFacts ==
    NewRecord \in Record /\ NewRecord # NoRecord /\ NewRecord.link = None
    /\ \A own : Leads(NewRecord, own)
BY NoRecordOK DEF NewRecord, Record, Leads

LEMMA CreateInv ==
    ASSUME IInv, NEW p \in Calls, p \in conn[At[p]].ready,
           pc[p] \in {"join.get", "enter.get", "enter.again", "edit.get"},
           NEW c \in {"join.put", "enter.put", "enroll.put"}, Fits(c, Kind(p)),
           CreateRecord(p, c), Frame, UNCHANGED subject, LeaveStarts, LeaveEntries
    PROVE  IInv'
<1>1. SideTyped /\ ToldSpent /\ UNCHANGED <<scene, open, told, authed, broken, rolledBack, issued>>
  BY ReadyFacts DEF CreateRecord, LeaveStarts, LeaveEntries, Frame
<1>2. waiting' \in [Nodes -> SUBSET Joins]  BY <1>1 DEF CreateRecord, SideTyped
<1>3. SideTyped'  BY <1>1, <1>2 DEF SideTyped, Joins, Sessions, Kind
<1>4. c \in Commands /\ Goes(p, c, NewRecord)
  BY DEF Commands, CreateRecord, Goes, To
<1>5. Leads(NewRecord, Own(p)) /\ Carries(p, c, NewRecord)  BY NewRecordFacts DEF Carries
<1>6. \A j \in Calls : told'[j] \subseteq Spent \cup {None}  BY <1>1 DEF ToldSpent
<1>7. Onward(p, c)  BY DEF Onward
<1>8. QED  BY <1>1, <1>3, <1>4, <1>5, <1>6, <1>7, SideCall

LEMMA JoinInv ==
    ASSUME IInv, NEW p \in Calls, Join(p), UNCHANGED subject, Frame
    PROVE  IInv'
<1>1. /\ LeaveStarts /\ LeaveEntries /\ UNCHANGED <<authed, broken, rolledBack, issued, scene>>
      /\ p \in conn[At[p]].ready /\ pc[p] \in {"join.get", "join.put", "join.started", "join.id"}
  BY DEF Join, JoinLoaded, JoinCreated, JoinChecked, JoinSent, Ok, Fails, Either,
         LeaveStarts, LeaveEntries, Frame
<1>2. /\ Held(p) /\ rec[p] \in Record \cup {NoRecord} /\ Got(p) \in {NoRecord, rec[p]}
      /\ SideTyped /\ CallsTyped /\ ToldSpent
  BY <1>1, ReadyFacts
<1>3. Kind(p) = "join" /\ p \in Joins /\ Own(p) = {}
  BY <1>1, <1>2 DEF Held, Fits, Own, Joins, Sessions
<1>4. ASSUME NEW c \in {"join.started", "join.id", "done"}, To(p, c), UNCHANGED rec, LeaveRoom
      PROVE  IInv'
  <2>1. Fits(c, Kind(p)) /\ Carries(p, c, rec[p]) /\ Onward(p, c) /\ pc[p] # "rollback"
    BY <1>1, <1>3 DEF Fits, Carries, Onward
  <2>2. QED  BY <1>1, <1>4, <2>1, KeepingCall
<1>5. ASSUME To(p, "done"), UNCHANGED rec,
             waiting' \in [Nodes -> SUBSET Joins], open' \subseteq Joins,
             told' \in [Calls -> SUBSET (Sessions \cup {None})],
             \A j \in Calls : told'[j] \subseteq Spent \cup {None}
      PROVE  IInv'
  <2>1. Goes(p, "done", rec[p]) /\ (rec[p] = NoRecord \/ Leads(rec[p], Own(p)))
    BY <1>1, <1>2, <1>5, ReadyFacts DEF Goes, Held
  <2>2. SideTyped'  BY <1>1, <1>2, <1>5 DEF SideTyped, Joins, Sessions, Kind
  <2>3. Fits("done", Kind(p)) /\ Carries(p, "done", rec[p]) /\ Onward(p, "done")
    BY <1>1, <1>3 DEF Fits, Carries, Onward
  <2>4. QED  BY <1>1, <1>3, <1>5, <2>1, <2>2, <2>3, SideCall
<1>6. CASE JoinLoaded(p)
  <2>1. CASE CreateRecord(p, "join.put")
    <3>1. pc[p] = "join.get"  BY <1>6 DEF JoinLoaded, Either
    <3>2. Fits("join.put", Kind(p))  BY <1>3 DEF Fits
    <3>3. QED  BY <1>1, <2>1, <3>1, <3>2, CreateInv
  <2>2. CASE Send(p, "join.started") /\ UNCHANGED rec /\ LeaveRoom
    BY <2>2, <1>4 DEF To, Commands, RecordReads
  <2>3. QED  BY <1>6, <2>1, <2>2 DEF JoinLoaded
<1>7. CASE JoinCreated(p)
  <2>1. To(p, "join.started") \/ To(p, "done")
    BY <1>7 DEF JoinCreated, To, Commands, RecordReads
  <2>2. QED  BY <1>4, <1>7, <2>1 DEF JoinCreated
<1>8. CASE JoinChecked(p)
  <2>1. CASE Send(p, "join.id") /\ LeaveRoom
    BY <2>1, <1>4, <1>8 DEF JoinChecked, To, Commands, RecordReads
  <2>2. CASE /\ waiting' = [waiting EXCEPT ![At[p]] = @ \cup {p}]
             /\ Return(p) /\ UNCHANGED <<open, told>>
    <3>1. waiting' \in [Nodes -> SUBSET Joins]  BY <1>2, <1>3, <2>2, AtNode DEF SideTyped
    <3>2. QED  BY <1>2, <1>5, <1>8, <2>2, <3>1 DEF To, JoinChecked, SideTyped, ToldSpent
  <2>3. QED  BY <1>8, <2>1, <2>2 DEF JoinChecked
<1>9. CASE JoinSent(p)
  <2> DEFINE s == IF Got(p) = NoRecord THEN None ELSE Got(p).link
  <2>1. s \in Spent \cup {None}  BY <1>2, <1>3 DEF Held, Leads
  <2>2. told' = [j \in Calls |-> IF j \in {p} \cap open THEN told[j] \cup {s} ELSE told[j]]
    BY <1>9 DEF JoinSent, Tell
  <2> HIDE DEF s
  <2>3. \A j \in Calls : told'[j] \subseteq Spent \cup {None}  BY <1>2, <2>1, <2>2 DEF ToldSpent
  <2>4. Spent \subseteq Sessions  BY DEF Spent
  <2>5. told' \in [Calls -> SUBSET (Sessions \cup {None})]
    BY <1>2, <2>1, <2>2, <2>4 DEF SideTyped
  <2>6. QED  BY <1>2, <1>5, <1>9, <2>3, <2>5 DEF JoinSent, To, SideTyped
<1>10. QED  BY <1>6, <1>7, <1>8, <1>9 DEF Join

\* The waiters and the teacher are sent to the session p started.
LEMMA AdmitInv ==
    ASSUME IInv, NEW p \in Calls, p \in conn[At[p]].ready, Kind(p) = "verify", NEW js,
           Admit(p, js), UNCHANGED <<rec, rolledBack, subject>>, Frame, LeaveEntries,
           pc[p] # "rollback"
    PROVE  IInv'
<1>1. SideTyped /\ ToldSpent /\ Held(p) /\ UNCHANGED <<scene, open, broken, rolledBack, issued>>
  BY ReadyFacts DEF Admit, Frame, LeaveEntries
<1>2. p \in Sessions /\ Own(p) = {p}  BY DEF Sessions, Own
<1>3. told' = [j \in Calls |-> IF j \in (js \cup {Socket[p]}) \cap open
                               THEN told[j] \cup {p} ELSE told[j]]
  BY DEF Admit, Tell
<1>4. told' \in [Calls -> SUBSET (Sessions \cup {None})]  BY <1>1, <1>2, <1>3 DEF SideTyped
<1>5. \A j \in Calls : told'[j] \subseteq Spent \cup {None} \cup {p}
  BY <1>1, <1>3 DEF ToldSpent
<1>6. waiting' \in [Nodes -> SUBSET Joins]
  <2>1. waiting' = [waiting EXCEPT ![At[p]] = waiting[At[p]] \ {Socket[p]}]  BY DEF Admit
  <2>2. QED  BY <1>1, <2>1, AtNode DEF SideTyped
<1>7. authed' \subseteq Sessions  BY <1>1, <1>2 DEF Admit, SideTyped
<1>8. SideTyped'  BY <1>1, <1>4, <1>6, <1>7 DEF SideTyped, Joins, Sessions, Kind
<1>9. Goes(p, "done", rec[p]) /\ (rec[p] = NoRecord \/ Leads(rec[p], Own(p)))
  BY <1>1, ReadyFacts DEF Admit, Goes, To, Held
<1>10. Fits("done", Kind(p)) /\ Carries(p, "done", rec[p]) /\ Onward(p, "done")
  BY DEF Fits, Carries, Onward
<1>11. QED  BY <1>1, <1>2, <1>5, <1>8, <1>9, <1>10, SideCall

\* A start that fails, before or after it is rolled back.
LEMMA BreakInv ==
    ASSUME IInv, NEW p \in Calls, p \in conn[At[p]].ready, Kind(p) = "verify",
           NEW c \in {"done", "verify.drop"}, To(p, c), c = "verify.drop" => p \in Unlinked,
           broken' = broken \cup {p}, rolledBack' = rolledBack \/ rolledBack' = rolledBack \cup {p},
           UNCHANGED <<rec, subject, authed>>, Frame, LeaveRoom, LeaveEntries
    PROVE  IInv'
<1>1. /\ SideTyped /\ ToldSpent /\ Held(p)
      /\ UNCHANGED <<scene, waiting, open, told, authed, issued>>
  BY ReadyFacts DEF Frame, LeaveEntries, LeaveRoom
<1>2. p \in Sessions  BY DEF Sessions
<1>3. broken' \subseteq Sessions /\ rolledBack' \subseteq broken'  BY <1>1, <1>2 DEF SideTyped
<1>4. SideTyped'  BY <1>1, <1>3 DEF SideTyped, Joins, Sessions, Kind
<1>5. Goes(p, c, rec[p]) /\ (rec[p] = NoRecord \/ Leads(rec[p], Own(p)))
  BY <1>1, ReadyFacts DEF Goes, Held
<1>6. Fits(c, Kind(p)) /\ Carries(p, c, rec[p]) /\ Onward(p, c)
  BY DEF Fits, Carries, Onward
<1>7. \A j \in Calls : told'[j] \subseteq Spent \cup {None}  BY <1>1 DEF ToldSpent
<1>8. QED  BY <1>1, <1>4, <1>5, <1>6, <1>7, SideCall

\* The record p read, now with a link to p's session.
LEMMA LinkInv ==
    ASSUME IInv, NEW p \in Calls, p \in conn[At[p]].ready, Kind(p) = "verify", rec[p] # NoRecord,
           Hold(p, [rec[p] EXCEPT !.link = p]), Send(p, "start.put"),
           pc[p] \in {"start.get", "start.unindex"},
           UNCHANGED subject, Frame, LeaveRoom, LeaveStarts, LeaveEntries
    PROVE  IInv'
<1> DEFINE r == [rec[p] EXCEPT !.link = p]
<1>1. rec[p] \in Record  BY ReadyFacts
<1>2. r \in Record /\ r.link = p  BY <1>1 DEF Record
<1>3. r # NoRecord /\ Leads(r, Own(p))  BY <1>2, NoRecordOK DEF Leads, Own, Sessions
<1>4. Goes(p, "start.put", r)  BY DEF Goes, To, Commands
<1> HIDE DEF r
<1>5. Carries(p, "start.put", r)  BY <1>2, <1>3 DEF Carries
<1>6. Fits("start.put", Kind(p)) /\ Onward(p, "start.put")  BY DEF Fits, Onward
<1>7. QED  BY <1>3, <1>4, <1>5, <1>6, QuietCall

LEMMA VerifyInv ==
    ASSUME IInv, NEW p \in Calls, StartClass(p), UNCHANGED subject, Frame
    PROVE  IInv'
<1>1. /\ LeaveEntries /\ p \in conn[At[p]].ready
      /\ pc[p] \in {"verify.get", "verify.create", "start.get", "start.unindex", "start.put",
                    "start.index", "rollback", "verify.drop"}
  BY DEF StartClass, CodeChecked, SessionCreated, StartLoaded, StartUnindexed, StartPut,
         StartIndexed, Rollback, SessionDropped, Ok, Fails, Either
<1>2. /\ Held(p) /\ Undone(p) /\ rec[p] \in Record \cup {NoRecord} /\ Got(p) \in {NoRecord, rec[p]}
      /\ p \notin Unrun
  BY <1>1, ReadyFacts
<1>3. Kind(p) = "verify"  BY <1>1, <1>2 DEF Held, Fits
<1>4. ASSUME NEW c, To(p, c), UNCHANGED rec, LeaveRoom, LeaveStarts, pc[p] # "rollback",
             \/ c = "verify.create" /\ pc[p] = "verify.get"
             \/ c = "start.get" /\ pc[p] = "verify.create"
             \/ c = "start.unindex" /\ pc[p] = "start.get" /\ rec[p] # NoRecord
             \/ c = "start.index" /\ pc[p] = "start.put"
             \/ c \in {"done", "rollback"}
      PROVE  IInv'
  <2>1. Fits(c, Kind(p))  BY <1>3, <1>4 DEF Fits
  <2>2. Carries(p, c, rec[p])  BY <1>2, <1>4 DEF Held, Carries
  <2>3. Onward(p, c)  BY <1>4 DEF Onward
  <2>4. c # "verify.drop" /\ c # "end.drop"  BY <1>4
  <2>5. QED  BY <1>1, <1>4, <2>1, <2>2, <2>3, <2>4, KeepingCall
<1>5. \A c \in {"verify.create", "start.get", "start.unindex", "start.index", "rollback",
               "verify.drop"} : Send(p, c) => To(p, c)
  <2> SUFFICES ASSUME NEW c \in {"verify.create", "start.get", "start.unindex", "start.index",
                                 "rollback", "verify.drop"}, Send(p, c)
               PROVE  To(p, c)
    OBVIOUS
  <2>1. c \in Commands  BY DEF Commands, RecordReads
  <2>2. QED  BY <2>1 DEF To
<1>6. Return(p) => To(p, "done")  BY DEF To
<1>7. CASE CodeChecked(p)  BY <1>4, <1>5, <1>6, <1>7 DEF CodeChecked, Either
<1>8. CASE SessionCreated(p)
  <2>1. CASE Ok(p, "verify.create") /\ Send(p, "start.get") /\ UNCHANGED <<authed, broken>>
    BY <1>4, <1>5, <1>8, <2>1 DEF SessionCreated, Ok, Either, LeaveStarts
  <2>2. CASE Break(p)  BY <1>1, <1>3, <1>6, <1>8, <2>2, BreakInv DEF SessionCreated, Break
  <2>3. QED  BY <1>8, <2>1, <2>2 DEF SessionCreated
<1>9. CASE StartLoaded(p)
  <2>1. pc[p] = "start.get" /\ UNCHANGED rolledBack  BY <1>9 DEF StartLoaded, Either
  <2>2. CASE Admit(p, {}) /\ UNCHANGED rec  BY <1>1, <1>3, <2>1, <2>2, AdmitInv
  <2>3. CASE /\ Started(Got(p)) /\ Send(p, "start.unindex")
             /\ UNCHANGED <<rec, authed, broken>> /\ LeaveRoom
    <3>1. rec[p] # NoRecord  BY <1>2, <2>3 DEF Started
    <3>2. QED  BY <1>4, <1>5, <2>1, <2>3, <3>1 DEF LeaveStarts
  <2>4. CASE /\ Got(p) # NoRecord
             /\ Hold(p, [rec[p] EXCEPT !.link = p]) /\ Send(p, "start.put")
             /\ UNCHANGED <<authed, broken>> /\ LeaveRoom
    <3>1. rec[p] # NoRecord  BY <1>2, <2>4
    <3>2. QED  BY <1>1, <1>3, <2>1, <2>4, <3>1, LinkInv DEF LeaveStarts
  <2>5. QED  BY <1>9, <2>2, <2>3, <2>4 DEF StartLoaded
<1>10. CASE StartUnindexed(p)
  <2>1. pc[p] = "start.unindex" /\ rec[p] # NoRecord
    BY <1>2, <1>10 DEF StartUnindexed, Either, Held, Carries
  <2>2. QED  BY <1>1, <1>3, <1>10, <2>1, LinkInv DEF StartUnindexed
<1>11. CASE StartPut(p)
  <2>1. pc[p] = "start.put"  BY <1>11 DEF StartPut, Ok, Fails, Either
  <2>2. QED  BY <1>4, <1>5, <1>11, <2>1 DEF StartPut
<1>12. CASE StartIndexed(p)
  <2>1. pc[p] = "start.index"  BY <1>12 DEF StartIndexed, Ok, Fails, Either
  <2>2. CASE Admit(p, waiting[At[p]])  BY <1>1, <1>3, <1>12, <2>1, <2>2, AdmitInv DEF StartIndexed
  <2>3. CASE Send(p, "rollback") /\ UNCHANGED <<authed, broken>> /\ LeaveRoom
    BY <1>4, <1>5, <1>12, <2>1, <2>3 DEF StartIndexed, LeaveStarts
  <2>4. QED  BY <1>12, <2>2, <2>3 DEF StartIndexed
<1>13. CASE Rollback(p)
  <2>1. CASE /\ Ok(p, "rollback") /\ Send(p, "verify.drop")
             /\ rolledBack' = rolledBack \cup {p} /\ broken' = broken \cup {p}
             /\ UNCHANGED authed
    <3>1. p \in Unlinked  BY <1>2, <2>1 DEF Undone, Ok, Either
    <3>2. QED  BY <1>1, <1>3, <1>5, <1>13, <2>1, <3>1, BreakInv DEF Rollback
  <2>2. CASE Break(p) /\ UNCHANGED rolledBack
    BY <1>1, <1>3, <1>6, <1>13, <2>2, BreakInv DEF Rollback, Break
  <2>3. QED  BY <1>13, <2>1, <2>2 DEF Rollback
<1>14. CASE SessionDropped(p)
  <2>1. pc[p] = "verify.drop"  BY <1>14 DEF SessionDropped, Either
  <2>2. QED  BY <1>4, <1>6, <1>14, <2>1 DEF SessionDropped
<1>15. QED  BY <1>7, <1>8, <1>9, <1>10, <1>11, <1>12, <1>13, <1>14 DEF StartClass

\* A step of an end, a reset or a visit that leaves the rooms alone.
LEMMA LeaveInv ==
    ASSUME IInv, NEW p \in Calls, Leave(p), UNCHANGED subject, Frame
    PROVE  IInv'
<1>1. /\ LeaveEntries /\ LeaveStarts /\ p \in conn[At[p]].ready
      /\ pc[p] \in {"end.index", "end.record", "end.unindex", "end.scan", "end.find",
                    "end.backfill", "end.drop", "reset.get", "reset.unindex", "reset.put",
                    "enter.get", "enter.again", "enter.put", "enter.live", "enter.back",
                    "enter.index", "again.back", "again.index"}
  BY DEF Leave, EndLookedUp, Reset, Enter, EnterLoaded, EnterWritten, EnterLooked, Ok, Fails, Either
<1>2. /\ Held(p) /\ EndSees(p) /\ rec[p] \in Record \cup {NoRecord} /\ Got(p) \in {NoRecord, rec[p]}
      /\ p \notin Unrun /\ (failures = 0 => Got(p) = rec[p]) /\ pc[p] # "idle"
  BY <1>1, ReadyFacts
<1>3. Kind(p) \in {"end", "enter"}  BY <1>1, <1>2 DEF Held, Fits
\* An end drops its session when it saw that the link leads elsewhere.
<1>4. ASSUME failures = 0, Kind(p) = "end",
             \/ pc[p] = "end.find" /\ ~LeadsTo(Got(p), subject[p])
             \/ pc[p] = "reset.get" /\ Got(p) = NoRecord
             \/ pc[p] = "end.scan" /\ Got(p) = NoRecord
             \/ pc[p] = "reset.put"
      PROVE  subject[p] \in Unlinked
  <2>1. Got(p) = rec[p]  BY <1>2, <1>4
  <2>2. Seen(p)  BY <1>2, <1>4, <2>1 DEF Seen, LeadsTo
  <2>3. QED  BY <1>2, <1>4, <2>2 DEF EndSees
<1>5. ASSUME NEW c, To(p, c), UNCHANGED rec, LeaveRoom, Fits(c, Kind(p)), Carries(p, c, rec[p]),
             c = "end.drop" /\ failures = 0 => subject[p] \in Unlinked, c # "verify.drop"
      PROVE  IInv'
  <2>1. Onward(p, c) /\ pc[p] # "rollback"  BY <1>1 DEF Onward
  <2>2. QED  BY <1>1, <1>5, <2>1, KeepingCall
<1>6. Fits("done", Kind(p)) /\ Carries(p, "done", rec[p])  BY DEF Fits, Carries
<1>7. ASSUME Return(p), UNCHANGED rec, LeaveRoom PROVE IInv'
  BY <1>5, <1>6, <1>7 DEF To
<1>8. CASE EndLookedUp(p) /\ UNCHANGED rec /\ LeaveRoom
  <2>1. pc[p] \in {"end.index", "end.record", "end.unindex", "end.scan", "end.find",
                   "end.backfill", "end.drop"}
    BY <1>8 DEF EndLookedUp, Either
  <2>2. Kind(p) = "end"  BY <1>2, <2>1 DEF Held, Fits
  <2>3. ASSUME NEW c \in {"end.record", "end.scan", "reset.get", "end.unindex", "end.find",
                          "end.backfill"}, Send(p, c)
        PROVE  IInv'
    <3>1. c \in Commands  BY DEF Commands, RecordReads
    <3>2. Fits(c, Kind(p)) /\ Carries(p, c, rec[p])  BY <2>2 DEF Fits, Carries
    <3>3. QED  BY <1>5, <1>8, <2>3, <3>1, <3>2 DEF To
  <2>4. ASSUME Send(p, "end.drop"),
               \/ pc[p] = "end.find" /\ ~LeadsTo(Got(p), subject[p])
               \/ pc[p] = "end.scan" /\ Got(p) = NoRecord
        PROVE  IInv'
    <3>1. "end.drop" \in Commands  BY DEF Commands
    <3>2. Fits("end.drop", Kind(p)) /\ Carries(p, "end.drop", rec[p])  BY <2>2 DEF Fits, Carries
    <3>3. failures = 0 => subject[p] \in Unlinked  BY <1>4, <2>2, <2>4
    <3>4. QED  BY <1>5, <1>8, <2>4, <3>1, <3>2, <3>3 DEF To
  <2>5. QED  BY <1>7, <1>8, <2>3, <2>4 DEF EndLookedUp, Either
<1>9. ASSUME AfterReset(p), UNCHANGED rec, LeaveRoom,
             \/ pc[p] = "reset.get" /\ Got(p) = NoRecord
             \/ pc[p] = "reset.put"
      PROVE  IInv'
  <2>1. CASE Kind(p) = "end" /\ Send(p, "end.drop")
    <3>1. "end.drop" \in Commands  BY DEF Commands
    <3>2. Fits("end.drop", Kind(p)) /\ Carries(p, "end.drop", rec[p])  BY <2>1 DEF Fits, Carries
    <3>3. failures = 0 => subject[p] \in Unlinked  BY <1>4, <1>9, <2>1
    <3>4. QED  BY <1>5, <1>9, <2>1, <3>1, <3>2, <3>3 DEF To
  <2>2. CASE Kind(p) = "enter" /\ Send(p, "enter.again")
    <3>1. "enter.again" \in Commands  BY DEF Commands, RecordReads
    <3>2. Fits("enter.again", Kind(p)) /\ Carries(p, "enter.again", rec[p])
      BY <2>2 DEF Fits, Carries
    <3>3. QED  BY <1>5, <1>9, <2>2, <3>1, <3>2 DEF To
  <2>3. QED  BY <1>9, <2>1, <2>2 DEF AfterReset
<1>10. CASE Reset(p) /\ LeaveRoom
  <2>1. pc[p] \in {"reset.get", "reset.unindex", "reset.put"}
    BY <1>10 DEF Reset, Ok, Fails, Either
  <2>2. CASE Either(p, "reset.get") /\ Started(Got(p)) /\ Send(p, "reset.unindex") /\ UNCHANGED rec
    <3>1. rec[p] # NoRecord  BY <1>2, <2>2 DEF Started
    <3>2. Fits("reset.unindex", Kind(p)) /\ Carries(p, "reset.unindex", rec[p])
      BY <1>3, <3>1 DEF Fits, Carries
    <3>3. "reset.unindex" \in Commands  BY DEF Commands
    <3>4. QED  BY <1>5, <1>10, <2>2, <3>2, <3>3 DEF To
  <2>3. CASE /\ Either(p, "reset.get") /\ Got(p) # NoRecord /\ ~Started(Got(p))
             /\ Send(p, "reset.put") /\ UNCHANGED rec
    <3>1. rec[p] # NoRecord /\ rec[p].link = None  BY <1>2, <2>3 DEF Started
    <3>2. Fits("reset.put", Kind(p)) /\ Carries(p, "reset.put", rec[p])
      BY <1>3, <3>1 DEF Fits, Carries
    <3>3. "reset.put" \in Commands  BY DEF Commands
    <3>4. QED  BY <1>5, <1>10, <2>3, <3>2, <3>3 DEF To
  <2>4. CASE /\ Either(p, "reset.unindex")
             /\ Hold(p, [rec[p] EXCEPT !.link = None]) /\ Send(p, "reset.put")
    <3> DEFINE r == [rec[p] EXCEPT !.link = None]
    <3>1. rec[p] \in Record  BY <1>2, <2>4 DEF Held, Carries, Either
    <3>2. r \in Record /\ r.link = None  BY <3>1 DEF Record
    <3>3. r # NoRecord /\ Leads(r, Own(p))  BY <3>2, NoRecordOK DEF Leads
    <3>4. Goes(p, "reset.put", r)  BY <2>4 DEF Goes, To, Commands
    <3> HIDE DEF r
    <3>5. Carries(p, "reset.put", r)  BY <3>2, <3>3 DEF Carries
    <3>6. Fits("reset.put", Kind(p)) /\ Onward(p, "reset.put") /\ pc[p] # "rollback"
      BY <1>3, <2>1 DEF Fits, Onward
    <3>7. QED  BY <1>1, <1>10, <3>3, <3>4, <3>5, <3>6, QuietCall
  <2>5. QED  BY <1>7, <1>9, <1>10, <2>2, <2>3, <2>4 DEF Reset, Ok, Either
<1>11. CASE Enter(p)
  <2>1. Kind(p) = "enter"
    <3>1. \E c \in {"enter.get", "enter.again", "enter.put", "enter.live", "enter.back",
                    "enter.index", "again.back", "again.index"} : pc[p] = c
      BY <1>11 DEF Enter, EnterLoaded, EnterWritten, EnterLooked, Ok, Fails, Either
    <3>2. QED  BY <1>2, <3>1 DEF Held, Fits
  <2>2. ASSUME UNCHANGED rec, LeaveRoom,
               NEW c \in {"enter.live", "enter.back", "again.back", "enter.index", "again.index",
                          "reset.get"},
               Send(p, c),
               c \in {"enter.back", "again.back"} => rec[p] # NoRecord,
               c \in {"enter.index", "again.index"} => Started(rec[p])
        PROVE  IInv'
    <3>1. c \in Commands /\ c # "end.drop" /\ c # "verify.drop"  BY DEF Commands, RecordReads
    <3>2. Fits(c, Kind(p)) /\ Carries(p, c, rec[p])  BY <2>1, <2>2 DEF Fits, Carries, Started
    <3>3. QED  BY <1>5, <2>2, <3>1, <3>2 DEF To
  <2>3. ASSUME LookUp(p), UNCHANGED rec, LeaveRoom PROVE IInv'
    BY <1>7, <2>2, <2>3 DEF LookUp
  <2>4. CASE EnterLoaded(p)
    <3>1. CASE CreateRecord(p, "enter.put")
      <4>1. pc[p] \in {"enter.get", "enter.again"}  BY <2>4 DEF EnterLoaded, Either
      <4>2. Fits("enter.put", Kind(p))  BY <2>1 DEF Fits
      <4>3. QED  BY <1>1, <3>1, <4>1, <4>2, CreateInv
    <3>2. CASE /\ Got(p) # NoRecord /\ UNCHANGED rec /\ LeaveRoom
               /\ \/ LookUp(p)
                  \/ Send(p, IF pc[p] = "enter.get" THEN "enter.back" ELSE "again.back")
      <4>1. rec[p] # NoRecord  BY <1>2, <3>2
      <4>2. LookUp(p) \/ Send(p, "enter.back") \/ Send(p, "again.back")  BY <3>2
      <4>3. QED  BY <2>2, <2>3, <3>2, <4>1, <4>2
    <3>3. QED  BY <2>4, <3>1, <3>2 DEF EnterLoaded
  <2>5. CASE EnterWritten(p)
    <3>1. UNCHANGED rec /\ LeaveRoom  BY <2>5 DEF EnterWritten
    <3>2. \/ LookUp(p) \/ Return(p)
          \/ Started(rec[p]) /\ (Send(p, "enter.index") \/ Send(p, "again.index"))
      BY <2>5 DEF EnterWritten
    <3>3. QED  BY <1>7, <2>2, <2>3, <3>1, <3>2
  <2>6. CASE EnterLooked(p)  BY <1>7, <2>2, <2>6 DEF EnterLooked
  <2>7. QED  BY <1>11, <2>4, <2>5, <2>6 DEF Enter
<1>12. QED  BY <1>8, <1>10, <1>11 DEF Leave

LEMMA EditInv ==
    ASSUME IInv, NEW p \in Calls, Edit(p), UNCHANGED subject, Frame
    PROVE  IInv'
<1>1. /\ LeaveStarts /\ p \in conn[At[p]].ready
      /\ pc[p] \in {"edit.get", "edit.put", "edit.index", "enroll.put"}
  BY DEF Edit, EditLoaded, EnrollCreated, EditPut, Ok, Fails, Either
<1>2. /\ Held(p) /\ rec[p] \in Record \cup {NoRecord} /\ Got(p) \in {NoRecord, rec[p]}
      /\ SideTyped /\ ToldSpent /\ pc[p] # "rollback"
  BY <1>1, ReadyFacts
<1>3. Kind(p) \in {"edit", "enroll", "redeem"}  BY <1>1, <1>2 DEF Held, Fits
<1>4. ASSUME Return(p), UNCHANGED rec, LeaveRoom, LeaveEntries PROVE IInv'
  <2>1. /\ Fits("done", Kind(p)) /\ Carries(p, "done", rec[p]) /\ Onward(p, "done")
        /\ To(p, "done")
    BY <1>4 DEF Fits, Carries, Onward, To
  <2>2. QED  BY <1>1, <1>2, <1>4, <2>1, KeepingCall
<1>5. ASSUME Finish(p), UNCHANGED rec, LeaveRoom PROVE IInv'
  <2>1. /\ Fits("done", Kind(p)) /\ Carries(p, "done", rec[p]) /\ Onward(p, "done")
        /\ Goes(p, "done", rec[p]) /\ (rec[p] = NoRecord \/ Leads(rec[p], Own(p)))
    BY <1>1, <1>2, <1>5, ReadyFacts DEF Fits, Carries, Onward, To, Goes, Finish, Held
  <2>2. issued' \subseteq Calls  BY <1>2, <1>5 DEF Finish, SideTyped
  <2>3. UNCHANGED <<scene, waiting, open, told, authed, broken, rolledBack>>
    BY <1>1, <1>5 DEF LeaveRoom, LeaveStarts, Frame
  <2>4. SideTyped'  BY <1>2, <2>2, <2>3 DEF SideTyped, Joins, Sessions, Kind
  <2>5. \A j \in Calls : told'[j] \subseteq Spent \cup {None}  BY <1>2, <2>3 DEF ToldSpent
  <2>6. QED  BY <1>1, <1>2, <2>1, <2>3, <2>4, <2>5, SideCall
\* What is written back leads where the record that was read did.
<1>6. ASSUME NEW es \in SUBSET Calls, NEW r, rec[p] # NoRecord,
             r = rec[p] \/ r = [rec[p] EXCEPT !.entries = es],
             Change(p, r), LeaveRoom, LeaveEntries
      PROVE  IInv'
  <2>1. rec[p] \in Record /\ Leads(rec[p], Own(p))  BY <1>2, <1>6 DEF Held
  <2>2. r \in Record /\ r.link = rec[p].link  BY <1>6, <2>1 DEF Record
  <2>3. r # NoRecord /\ Leads(r, Own(p))  BY <2>1, <2>2, NoRecordOK DEF Leads
  <2>4. Carries(p, "edit.put", r) /\ Fits("edit.put", Kind(p)) /\ Onward(p, "edit.put")
    BY <1>1, <1>3, <2>3 DEF Carries, Fits, Onward
  <2>5. Goes(p, "edit.put", r)  BY <1>6 DEF Change, Goes, To, Commands
  <2>6. QED  BY <1>1, <1>2, <1>6, <2>3, <2>4, <2>5, QuietCall
<1>7. ASSUME rec[p] \in Record PROVE rec[p].entries \in SUBSET Calls
  BY <1>7 DEF Record
<1>8. CASE EditLoaded(p)
  <2>1. pc[p] = "edit.get" /\ LeaveEntries  BY <1>8 DEF EditLoaded, Either
  <2>2. CASE Kind(p) = "enroll" /\ CreateRecord(p, "enroll.put")
    <3>1. Fits("enroll.put", Kind(p))  BY <2>2 DEF Fits
    <3>2. QED  BY <1>1, <2>1, <2>2, <3>1, CreateInv
  <2>3. CASE Return(p) /\ UNCHANGED rec /\ LeaveRoom  BY <1>4, <2>1, <2>3
  <2>4. CASE /\ Got(p) # NoRecord /\ LeaveRoom
             /\ \/ Change(p, rec[p])
                \/ Change(p, [rec[p] EXCEPT !.entries = @ \cup {p}])
                \/ Change(p, [rec[p] EXCEPT !.entries = @ \ {subject[p]}])
    <3>1. rec[p] # NoRecord /\ rec[p].entries \in SUBSET Calls  BY <1>2, <1>7, <2>4
    <3>2. rec[p].entries \cup {p} \in SUBSET Calls /\ rec[p].entries \ {subject[p]} \in SUBSET Calls
      BY <3>1
    <3>3. QED  BY <1>6, <2>1, <2>4, <3>1, <3>2
  <2>5. QED  BY <1>8, <2>2, <2>3, <2>4 DEF EditLoaded
<1>9. CASE EnrollCreated(p)
  <2>1. CASE /\ Ok(p, "enroll.put") /\ Change(p, [rec[p] EXCEPT !.entries = @ \cup {p}])
             /\ LeaveRoom /\ LeaveEntries
    <3>1. rec[p] # NoRecord  BY <1>2, <2>1 DEF Held, Carries, Ok, Either
    <3>2. rec[p].entries \cup {p} \in SUBSET Calls  BY <1>2, <1>7, <3>1
    <3>3. QED  BY <1>6, <2>1, <3>1, <3>2
  <2>2. CASE Return(p) /\ UNCHANGED rec /\ LeaveRoom /\ LeaveEntries  BY <1>4, <2>2
  <2>3. QED  BY <1>9, <2>1, <2>2 DEF EnrollCreated
<1>10. CASE EditPut(p)
  <2>1. UNCHANGED rec /\ LeaveRoom  BY <1>10 DEF EditPut
  <2>2. CASE Ok(p, "edit.put") /\ Started(rec[p]) /\ Send(p, "edit.index") /\ LeaveEntries
    <3>1. pc[p] = "edit.put" /\ rec[p] # NoRecord /\ rec[p].link # None
      BY <2>2 DEF Ok, Either, Started
    <3>2. Carries(p, "edit.index", rec[p]) /\ Fits("edit.index", Kind(p)) /\ Onward(p, "edit.index")
      BY <1>3, <3>1 DEF Carries, Fits, Onward
    <3>3. To(p, "edit.index")  BY <2>2 DEF To, Commands
    <3>4. QED  BY <1>1, <1>2, <2>1, <2>2, <3>2, <3>3, KeepingCall
  <2>3. QED  BY <1>4, <1>5, <1>10, <2>1, <2>2 DEF EditPut
<1>11. QED  BY <1>8, <1>9, <1>10 DEF Edit

LEMMA SweepInv ==
    ASSUME IInv, NEW p \in Calls, Sweep(p), UNCHANGED subject, Frame
    PROVE  IInv'
<1>1. /\ LeaveEntries /\ LeaveStarts /\ p \in conn[At[p]].ready /\ UNCHANGED rec
      /\ pc[p] \in {"sweep.scan", "sweep.get", "sweep.del", "remove.get", "remove.unindex",
                    "remove.del"}
  BY DEF Sweep, SweepLoaded, Cleanup, Either
<1>2. Held(p) /\ SideTyped /\ ToldSpent /\ Got(p) \in {NoRecord, rec[p]}  BY <1>1, ReadyFacts
<1>3. /\ pc[p] \in {"sweep.scan", "sweep.get", "sweep.del"} => Kind(p) = "sweep"
      /\ pc[p] \in {"remove.get", "remove.unindex", "remove.del"} => Kind(p) = "remove"
      /\ Kind(p) \in {"sweep", "remove"} /\ pc[p] # "rollback"
  BY <1>1, <1>2 DEF Held, Fits
<1>4. ASSUME NEW c \in {"sweep.get", "sweep.del", "remove.unindex", "remove.del", "done"}, To(p, c),
             LeaveRoom, Fits(c, Kind(p)), c = "remove.unindex" => rec[p] # NoRecord
      PROVE  IInv'
  <2>1. Carries(p, c, rec[p]) /\ Onward(p, c)
    BY <1>1, <1>3, <1>4 DEF Carries, Onward
  <2>2. QED  BY <1>1, <1>3, <1>4, <2>1, KeepingCall
<1>5. CASE Vacate(p)
  <2>1. UNCHANGED <<scene, open, told, authed, broken, rolledBack, issued>>
    BY <1>1, <1>5 DEF Vacate, LeaveStarts, LeaveEntries, Frame
  <2>2. waiting' \in [Nodes -> SUBSET Joins]  BY <1>2, <1>5 DEF Vacate, SideTyped
  <2>3. SideTyped'  BY <1>2, <2>1, <2>2 DEF SideTyped, Joins, Sessions, Kind
  <2>4. Goes(p, "done", rec[p]) /\ (rec[p] = NoRecord \/ Leads(rec[p], Own(p)))
    BY <1>1, <1>2, <1>5, ReadyFacts DEF Vacate, Goes, To, Held
  <2>5. Fits("done", Kind(p)) /\ Carries(p, "done", rec[p]) /\ Onward(p, "done")
    BY DEF Fits, Carries, Onward
  <2>6. \A j \in Calls : told'[j] \subseteq Spent \cup {None}  BY <1>2, <2>1 DEF ToldSpent
  <2>7. QED  BY <1>1, <1>3, <2>1, <2>3, <2>4, <2>5, <2>6, SideCall
<1>6. CASE SweepLoaded(p)
  <2>1. CASE LeaveRoom /\ (Send(p, "sweep.get") \/ Send(p, "sweep.del") \/ Return(p))
    <3>1. pc[p] \in {"sweep.scan", "sweep.get", "sweep.del"}  BY <1>6 DEF SweepLoaded, Either
    <3>2. Fits("sweep.get", Kind(p)) /\ Fits("sweep.del", Kind(p)) /\ Fits("done", Kind(p))
      BY <1>3, <3>1 DEF Fits
    <3>3. To(p, "sweep.get") \/ To(p, "sweep.del") \/ To(p, "done")
      BY <2>1 DEF To, Commands, RecordReads
    <3>4. QED  BY <1>4, <2>1, <3>2, <3>3
  <2>2. QED  BY <1>5, <1>6, <2>1 DEF SweepLoaded
<1>7. CASE Cleanup(p)
  <2>1. CASE LeaveRoom /\ \/ Started(Got(p)) /\ Send(p, "remove.unindex")
                          \/ Send(p, "remove.del")
    <3>1. pc[p] \in {"remove.get", "remove.unindex", "remove.del"}  BY <1>7 DEF Cleanup, Either
    <3>2. Fits("remove.unindex", Kind(p)) /\ Fits("remove.del", Kind(p))  BY <1>3, <3>1 DEF Fits
    <3>3. Started(Got(p)) => rec[p] # NoRecord  BY <1>2 DEF Started
    <3>4. \/ To(p, "remove.unindex") /\ rec[p] # NoRecord
          \/ To(p, "remove.del")
      BY <2>1, <3>3 DEF To, Commands
    <3>5. QED  BY <1>4, <2>1, <3>2, <3>4
  <2>2. QED  BY <1>5, <1>7, <2>1 DEF Cleanup
<1>8. QED  BY <1>6, <1>7 DEF Sweep

LEMMA ResumeInv == ASSUME IInv, NEW p \in Calls, Resume(p) PROVE IInv'
BY JoinInv, VerifyInv, LeaveInv, EditInv, SweepInv DEF Resume

-----------------------------------------------------------------------------
(* Valkey executes a command                                               *)

\* The command of p leaves its reply on the way back.
Executes(n, p) == /\ conn[n].sent # <<>> /\ p = NextSent(conn[n])
                  /\ conn' = [conn EXCEPT ![n] = Ran(@)]
                  /\ UNCHANGED <<scene, pc, subject, failed, failures>>
                  /\ LeaveRoom /\ LeaveStarts /\ LeaveEntries

LEMMA ExecFrame ==
    ASSUME IInv, NEW n \in Nodes, NEW p, Executes(n, p)
    PROVE  /\ p \in Calls /\ p \in Unrun /\ p \notin failed /\ pc[p] \in Commands
           /\ Held(p) /\ Undone(p) /\ EndSees(p)
           /\ SideTyped' /\ CallsTyped' /\ Lined' /\ Unrun' = Unrun \ {p}
           /\ Spent \subseteq Spent' /\ (p \in Sessions /\ pc[p] = "start.put" => p \in Spent')
           /\ (pc[p] = "start.put" => p \notin Spent)
<1>1. Lined /\ CallsTyped /\ Holding /\ SideTyped  BY DEF IInv
<1>2. Orderly(conn[n]) /\ conn[n].sent # <<>> /\ conn \in [Nodes -> Conn]
  BY <1>1 DEF Lined, Executes
<1> DEFINE d == conn'[n]
<1>3. d = Ran(conn[n]) /\ p = NextSent(conn[n])  BY <1>2 DEF Executes
<1>4. /\ p \in Calls /\ p \in Sent(conn[n]) /\ Orderly(d)
      /\ Sent(d) = Sent(conn[n]) \ {p} /\ Back(d) = Back(conn[n]) \cup {p}
      /\ d.ready = conn[n].ready
  BY <1>2, <1>3, RanOrderly
<1>5. At[p] = n /\ pc[p] \in Commands /\ p \notin failed  BY <1>1, <1>4 DEF Lined
<1>6. p \in Unrun /\ Held(p) /\ Undone(p) /\ EndSees(p)
  BY <1>1, <1>4, <1>5 DEF Unrun, Holding, IInv
<1>7. /\ conn' \in [Nodes -> Conn] /\ \A m \in Nodes : m # n => conn'[m] = conn[m]
  BY <1>2, <1>4 DEF Orderly, Executes
<1> HIDE DEF d
<1>8. UNCHANGED <<scene, pc, subject, failed, failures>>  BY DEF Executes
<1>9. ASSUME NEW m \in Nodes
      PROVE  /\ Orderly(conn'[m])
             /\ \A q \in Sent(conn'[m]) \cup Back(conn'[m]) : q \notin failed'
             /\ \A q \in Sent(conn'[m]) \cup Back(conn'[m]) \cup conn'[m].ready :
                   At[q] = m /\ pc'[q] \in Commands
  <2>1. CASE m = n
    <3>1. conn'[m] = d  BY <2>1 DEF d
    <3>2. Sent(d) \cup Back(d) \subseteq Sent(conn[n]) \cup Back(conn[n])  BY <1>4
    <3>3. QED  BY <2>1, <3>1, <3>2, <1>1, <1>4, <1>8 DEF Lined
  <2>2. CASE m # n  BY <2>2, <1>1, <1>7, <1>8 DEF Lined
  <2>3. QED  BY <2>1, <2>2
<1>10. Lined'  BY <1>1, <1>7, <1>8, <1>9 DEF Lined
<1>11. Unrun' = Unrun \ {p}
  <2>1. ASSUME NEW q \in Calls PROVE q \in Unrun' <=> q \in Unrun \ {p}
    <3>1. CASE At[q] = n
      <4>1. conn'[At[q]] = d  BY <3>1 DEF d
      <4>2. q \in Unrun' <=> q \in Sent(d)  BY <4>1 DEF Unrun
      <4>3. q \in Unrun <=> q \in Sent(conn[n])  BY <3>1 DEF Unrun
      <4>4. QED  BY <4>2, <4>3, <1>4
    <3>2. CASE At[q] # n
      <4>1. conn'[At[q]] = conn[At[q]] /\ q # p  BY <3>2, <1>5, <1>7, AtNode
      <4>2. QED  BY <4>1 DEF Unrun
    <3>3. QED  BY <3>1, <3>2
  <2>2. Unrun \subseteq Calls /\ Unrun' \subseteq Calls  BY DEF Unrun
  <2>3. QED  BY <2>1, <2>2
<1>12. Sessions' = Sessions  BY <1>8 DEF Sessions, Kind
<1>13. Spent \subseteq Spent'  BY <1>8, <1>11, <1>12 DEF Spent
<1>14. /\ (p \in Sessions /\ pc[p] = "start.put" => p \in Spent')
       /\ (pc[p] = "start.put" => p \notin Spent)
  BY <1>6, <1>8, <1>11, <1>12 DEF Spent
<1>15. SideTyped' /\ CallsTyped'
  <2>1. UNCHANGED <<waiting, open, told, authed, broken, rolledBack, issued>>
    BY DEF Executes, LeaveRoom, LeaveStarts, LeaveEntries
  <2>2. QED  BY <1>1, <1>8, <2>1 DEF SideTyped, CallsTyped, Joins, Sessions, Kind
<1>16. QED  BY <1>4, <1>5, <1>6, <1>10, <1>11, <1>13, <1>14, <1>15

\* A command is safe if it brings no link to a spent session, and what p learns and did
\* is so.
LEMMA ExecInv ==
    ASSUME IInv, NEW n \in Nodes, NEW p, Executes(n, p),
           NEW r, rec' = [rec EXCEPT ![p] = r], r = NoRecord \/ Leads(r, Own(p)),
           Carries(p, pc[p], r), RecordLeads', StoreTyped',
           Spent \cap Unlinked \subseteq Unlinked', Undone(p)',
           Seen(p)' /\ failures = 0 /\ Kind(p) = "end" => subject[p] \in Unlinked',
           \A s \in dropped' :
               s \in dropped \/ (s \in Spent /\ (s \in Unlinked' \/ (failures > 0 /\ s \in Ended))),
           StartsSurviveRollbacks'
    PROVE  IInv'
<1>1. /\ p \in Calls /\ p \in Unrun /\ Held(p) /\ EndSees(p) /\ SideTyped' /\ CallsTyped'
      /\ Lined' /\ Unrun' = Unrun \ {p} /\ Spent \subseteq Spent'
  BY ExecFrame
<1>2. /\ UNCHANGED <<scene, pc, subject, failed, failures, told>>
      /\ Holding /\ ToldSpent /\ Dropped /\ CallsTyped
      /\ \A q \in Calls : Undone(q) /\ EndSees(q)
  BY DEF Executes, LeaveRoom, IInv
<1>3. /\ \A q : Kind(q)' = Kind(q) /\ Own(q)' = Own(q)
      /\ Sessions' = Sessions /\ WritesBack' = WritesBack /\ Ended' = Ended
  BY <1>2 DEF Kind, Sessions, WritesBack, Own, Ended
<1>4. /\ rec' \in [Calls -> Record \cup {NoRecord}] /\ rec'[p] = r
      /\ \A q \in Calls : q # p => rec'[q] = rec[q]
  BY <1>1, <1>2 DEF Holding, Leads
<1>5. Holding'
  <2>1. ASSUME NEW q \in Calls PROVE Held(q)'
    <3>1. CASE q = p
      <4>1. rec'[p] = NoRecord \/ Leads(rec[p], Own(p))'  BY <1>1, <1>3, <1>4 DEF Leads
      <4>2. Fits(pc'[p], Kind(p)') /\ Carries(p, pc'[p], rec'[p])
        BY <1>1, <1>2, <1>3, <1>4 DEF Held
      <4>3. QED  BY <3>1, <4>1, <4>2 DEF Held
    <3>2. CASE q # p
      <4>1. Held(q)  BY <1>2 DEF Holding
      <4>2. rec'[q] = NoRecord \/ Leads(rec[q], Own(q))'
        BY <3>2, <4>1, <1>1, <1>3, <1>4 DEF Held, Leads
      <4>3. Fits(pc'[q], Kind(q)') /\ Carries(q, pc'[q], rec'[q])
        BY <3>2, <4>1, <1>2, <1>3, <1>4 DEF Held
      <4>4. QED  BY <4>2, <4>3 DEF Held
    <3>3. QED  BY <3>1, <3>2
  <2>2. QED  BY <1>4, <2>1 DEF Holding
<1>6. ToldSpent'  BY <1>1, <1>2 DEF ToldSpent
<1>7. ASSUME NEW q \in Calls PROVE Undone(q)'
  <2>1. CASE q # p
    <3>1. CASE (pc[q] = "rollback" /\ q \notin Unrun \cup failed) \/ pc[q] = "verify.drop"
      <4>1. q \in Unlinked  BY <1>2, <3>1 DEF Undone
      <4>2. q \in Spent  BY <3>1, <4>1 DEF Spent, Unlinked
      <4>3. QED  BY <4>1, <4>2 DEF Undone
    <3>2. CASE ~((pc[q] = "rollback" /\ q \notin Unrun \cup failed) \/ pc[q] = "verify.drop")
      BY <2>1, <3>2, <1>1, <1>2 DEF Undone
    <3>3. QED  BY <3>1, <3>2
  <2>2. QED  BY <2>1
<1>8. ASSUME NEW q \in Calls PROVE EndSees(q)'
  <2>1. CASE Kind(q) = "end" /\ pc[q] # "idle"
    <3>1. subject[q] \in Spent /\ subject'[q] = subject[q]  BY <1>2, <2>1 DEF EndSees
    <3>2. ASSUME failures = 0, Seen(q)' PROVE subject[q] \in Unlinked'
      <4>1. CASE q = p  BY <3>2, <4>1, <2>1
      <4>2. CASE q # p
        <5>1. Seen(q)  BY <3>2, <4>2, <1>1, <1>2, <1>4 DEF Seen, LeadsTo
        <5>2. subject[q] \in Unlinked  BY <5>1, <3>2, <2>1, <1>2 DEF EndSees
        <5>3. QED  BY <5>2, <3>1
      <4>3. QED  BY <4>1, <4>2
    <3>3. QED  BY <3>1, <3>2, <1>1, <1>2 DEF EndSees
  <2>2. CASE ~(Kind(q) = "end" /\ pc[q] # "idle")  BY <2>2, <1>2, <1>3 DEF EndSees
  <2>3. QED  BY <2>1, <2>2
<1>9. Dropped'
  <2>1. ASSUME NEW s \in dropped'
        PROVE  s \in Spent' /\ (s \in Unlinked' \/ (failures' > 0 /\ s \in Ended'))
    <3>1. CASE s \in dropped
      <4>1. s \in Spent /\ (s \in Unlinked \/ (failures > 0 /\ s \in Ended))
        BY <1>2, <3>1 DEF Dropped
      <4>2. QED  BY <4>1, <1>1, <1>2, <1>3
    <3>2. CASE s \notin dropped  BY <2>1, <3>2, <1>1, <1>2, <1>3
    <3>3. QED  BY <3>1, <3>2
  <2>2. QED  BY <2>1 DEF Dropped
<1>10. QED  BY <1>1, <1>5, <1>6, <1>7, <1>8, <1>9 DEF IInv

\* A command that leaves the record and its writer alone.
LEMMA SameRecord ==
    ASSUME UNCHANGED <<scene, record, writer>>
    PROVE  Unlinked' = Unlinked
BY DEF Unlinked, Sessions, WritesBack, Kind

LEMMA SameStarts ==
    ASSUME UNCHANGED <<scene, record, writer, pc, broken>>, StartsSurviveRollbacks
    PROVE  StartsSurviveRollbacks'
BY DEF StartsSurviveRollbacks, Sessions, Kind

\* The facts about p, at its command, that its execution relies on.
LEMMA ExecFacts ==
    ASSUME IInv, NEW n \in Nodes, NEW p, Executes(n, p)
    PROVE  /\ p \in Calls /\ Held(p) /\ Undone(p) /\ EndSees(p)
           /\ pc[p] \in Commands /\ pc[p] # "idle"
           /\ StoreTyped /\ RecordLeads /\ StartsSurviveRollbacks /\ Holding /\ CallsTyped
           /\ dropped \subseteq Spent /\ Spent \subseteq Spent' /\ NoRecord \notin Record
           /\ (p \in Sessions /\ pc[p] = "start.put" => p \in Spent')
           /\ (pc[p] = "start.put" => p \notin Spent) /\ Spent \subseteq Sessions
           /\ UNCHANGED <<scene, pc, subject, failed, failures, broken>>
           /\ Sessions' = Sessions /\ WritesBack' = WritesBack /\ Kind(p)' = Kind(p)
<1>1. /\ p \in Calls /\ Held(p) /\ Undone(p) /\ EndSees(p) /\ pc[p] \in Commands
      /\ Spent \subseteq Spent'
      /\ (p \in Sessions /\ pc[p] = "start.put" => p \in Spent')
      /\ (pc[p] = "start.put" => p \notin Spent)
  BY ExecFrame
<1>2. /\ StoreTyped /\ RecordLeads /\ StartsSurviveRollbacks /\ Holding /\ CallsTyped
      /\ dropped \subseteq Spent
  BY DEF IInv, Dropped
<1>3. /\ UNCHANGED <<scene, pc, subject, failed, failures, broken>>
      /\ Sessions' = Sessions /\ WritesBack' = WritesBack /\ Kind(p)' = Kind(p)
  BY DEF Executes, LeaveStarts, Sessions, WritesBack, Kind
<1>4. Spent \subseteq Sessions /\ pc[p] # "idle"  BY <1>1, NoCommand DEF Spent
<1>5. QED  BY <1>1, <1>2, <1>3, <1>4, NoRecordOK

LEMMA ReadInv ==
    ASSUME IInv, NEW n \in Nodes, NEW p, Executes(n, p), ExecRead(p)
    PROVE  IInv'
<1>1. UNCHANGED <<record, index, live, linked, writer, dropped>>
  BY DEF ExecRead, valkey, links
<1>2. PICK r : /\ rec' = [rec EXCEPT ![p] = r] /\ r \in {record, NewRecord, NoRecord, rec[p]}
               /\ pc[p] \in RecordReads => r = record
               /\ pc[p] = "end.scan" /\ r = NoRecord => record = NoRecord
               /\ pc[p] \in RecordReads \cup {"end.index", "end.scan", "sweep.scan", "enter.live"}
  <2>1. CASE pc[p] \in RecordReads /\ Answer(p, record)
    <3>1. pc[p] # "end.scan"  BY <2>1 DEF RecordReads
    <3>2. QED  BY <2>1, <3>1 DEF Answer, Hold
  <2>2. CASE pc[p] = "end.index" /\ Answer(p, Present(subject[p] \in index))
    <3>1. pc[p] \notin RecordReads /\ pc[p] # "end.scan"  BY <2>2 DEF RecordReads
    <3>2. Present(subject[p] \in index) \in {NewRecord, NoRecord}  BY DEF Present
    <3>3. QED  BY <2>2, <3>1, <3>2 DEF Answer, Hold
  <2>3. CASE pc[p] \in {"end.scan", "sweep.scan"} /\ Answer(p, Present(record # NoRecord))
    <3>1. pc[p] \notin RecordReads  BY <2>3 DEF RecordReads
    <3>2. /\ Present(record # NoRecord) \in {NewRecord, NoRecord}
          /\ Present(record # NoRecord) = NoRecord => record = NoRecord
      BY NewRecordFacts DEF Present
    <3>3. QED  BY <2>3, <3>1, <3>2 DEF Answer, Hold
  <2>4. CASE pc[p] = "enter.live" /\ Answer(p, IF rec[p].link \in live THEN rec[p] ELSE NoRecord)
    <3>1. pc[p] \notin RecordReads /\ pc[p] # "end.scan"  BY <2>4 DEF RecordReads
    <3>2. QED  BY <2>4, <3>1 DEF Answer, Hold
  <2>5. QED  BY <2>1, <2>2, <2>3, <2>4 DEF ExecRead
<1>3. r = NoRecord \/ Leads(r, Own(p))
  <2>1. RecordLeads /\ Held(p)  BY ExecFacts
  <2>2. QED  BY <1>2, <2>1, NewRecordFacts DEF RecordLeads, Held, Leads
<1>4. Carries(p, pc[p], r)  BY <1>2 DEF Carries, RecordReads
<1>5. RecordLeads'
  <2>1. RecordLeads /\ Spent \subseteq Spent'  BY ExecFacts
  <2>2. QED  BY <1>1, <2>1 DEF RecordLeads, Leads
<1>6. StoreTyped'
  <2>1. StoreTyped /\ Sessions' = Sessions  BY ExecFacts
  <2>2. QED  BY <1>1, <2>1 DEF StoreTyped
<1>7. Unlinked' = Unlinked
  <2>1. UNCHANGED scene  BY ExecFacts
  <2>2. QED  BY <1>1, <2>1, SameRecord
<1>8. Undone(p)'
  <2>1. UNCHANGED pc  BY ExecFacts
  <2>2. pc[p] # "rollback" /\ pc[p] # "verify.drop"  BY <1>2 DEF RecordReads
  <2>3. QED  BY <2>1, <2>2 DEF Undone
<1>9. ASSUME Seen(p)', Kind(p) = "end" PROVE subject[p] \in Unlinked'
  <2>1. UNCHANGED <<pc, subject>> /\ Holding /\ p \in Calls  BY ExecFacts
  <2>2. rec'[p] = r  BY <1>2, <2>1 DEF Holding
  <2>3. subject[p] \in Sessions
    <3>1. EndSees(p) /\ pc[p] # "idle" /\ Spent \subseteq Sessions  BY ExecFacts
    <3>2. QED  BY <1>9, <3>1 DEF EndSees
  <2>4. \/ pc[p] \in {"end.find", "reset.get"} /\ ~LeadsTo(r, subject[p])
        \/ pc[p] = "end.scan" /\ r = NoRecord
    BY <1>2, <1>9, <2>1, <2>2 DEF Seen, LeadsTo, RecordReads
  <2>5. pc[p] \in {"end.find", "reset.get"} => r = record  BY <1>2 DEF RecordReads
  <2>6. ~LeadsTo(record, subject[p])  BY <1>2, <2>4, <2>5 DEF LeadsTo
  <2>7. subject[p] \in Unlinked  BY <2>3, <2>6 DEF Unlinked, LeadsTo
  <2>8. QED  BY <2>7, <1>7
<1>10. StartsSurviveRollbacks'
  <2>1. UNCHANGED <<scene, pc, broken>> /\ StartsSurviveRollbacks  BY ExecFacts
  <2>2. QED  BY <1>1, <2>1, SameStarts
<1>11. QED  BY <1>1, <1>2, <1>3, <1>4, <1>5, <1>6, <1>7, <1>8, <1>9, <1>10, ExecInv

\* The record p holds is written.
LEMMA PutInv ==
    ASSUME IInv, NEW n \in Nodes, NEW p, Executes(n, p), ExecPut(p)
    PROVE  IInv'
<1>1. /\ pc[p] \in {"join.put", "enter.put", "start.put", "reset.put", "edit.put", "enroll.put",
                    "enter.back", "again.back"}
      /\ record' = rec[p] /\ writer' = p
      /\ linked' = IF pc[p] = "start.put" THEN linked \cup {p} ELSE linked
      /\ UNCHANGED <<index, live, dropped, rec>>
  BY DEF ExecPut
<1>2. /\ p \in Calls /\ Held(p) /\ StoreTyped /\ Holding /\ EndSees(p) /\ pc[p] # "idle"
      /\ UNCHANGED <<scene, pc, subject, failures, broken>> /\ WritesBack' = WritesBack
      /\ Sessions' = Sessions /\ Spent \subseteq Sessions /\ Spent \subseteq Spent'
      /\ (p \in Sessions /\ pc[p] = "start.put" => p \in Spent')
      /\ (pc[p] = "start.put" => p \notin Spent) /\ dropped \subseteq Spent
  BY ExecFacts
<1>3. /\ rec[p] # NoRecord /\ Leads(rec[p], Own(p))
      /\ pc[p] \in {"join.put", "enter.put", "reset.put", "enroll.put"} => rec[p].link = None
      /\ pc[p] = "start.put" => rec[p].link = p
  BY <1>1, <1>2 DEF Held, Carries
<1>4. /\ pc[p] = "start.put" <=> p \in Sessions
      /\ pc[p] \in {"edit.put", "enter.back", "again.back"} => p \in WritesBack
  BY <1>1, <1>2 DEF Held, Fits, Sessions, WritesBack
<1>5. RecordLeads'
  <2>1. rec[p].link \in Spent' \cup {None}
    <3>1. CASE pc[p] = "start.put"  BY <1>2, <1>3, <1>4, <3>1
    <3>2. CASE pc[p] # "start.put"  BY <1>2, <1>3, <1>4, <3>2 DEF Leads, Own
    <3>3. QED  BY <3>1, <3>2
  <2>2. QED  BY <1>1, <1>3, <2>1 DEF RecordLeads, Leads
<1>6. StoreTyped'  BY <1>1, <1>2, <1>4 DEF StoreTyped
<1>7. Spent \subseteq Unlinked'
  <2> SUFFICES ASSUME NEW s \in Spent PROVE s \in Unlinked'  OBVIOUS
  <2>1. s \in Sessions /\ s # None  BY <1>2, ConstantsOK DEF Sessions
  <2>2. p \in WritesBack \/ rec[p].link # s
    <3>1. CASE pc[p] = "start.put"  BY <3>1, <1>2, <1>3
    <3>2. CASE pc[p] # "start.put"  BY <3>2, <1>1, <1>3, <1>4, <2>1
    <3>3. QED  BY <3>1, <3>2
  <2>3. QED  BY <2>1, <2>2, <1>1, <1>2 DEF Unlinked
<1>8. Undone(p)'  BY <1>1, <1>2 DEF Undone
<1>9. Kind(p) = "end" => subject[p] \in Unlinked'  BY <1>2, <1>7 DEF EndSees
<1>10. StartsSurviveRollbacks'
  BY <1>1, <1>2, <1>3, <1>4 DEF StartsSurviveRollbacks
<1>11. rec' = [rec EXCEPT ![p] = rec[p]]  BY <1>1, <1>2 DEF Holding
<1>12. Carries(p, pc[p], rec[p])  BY <1>2 DEF Held
<1>13. QED
  BY <1>1, <1>3, <1>5, <1>6, <1>7, <1>8, <1>9, <1>10, <1>11, <1>12, ExecInv

\* A command that leaves the record and its writer alone.
LEMMA AsideInv ==
    ASSUME IInv, NEW n \in Nodes, NEW p, Executes(n, p), UNCHANGED <<record, writer, rec>>,
           StoreTyped', pc[p] \notin {"rollback", "end.find", "reset.get", "end.scan", "reset.put"},
           \A s \in dropped' : \/ s \in dropped
                               \/ s \in Spent /\ (s \in Unlinked \/ (failures > 0 /\ s \in Ended))
    PROVE  IInv'
<1>1. /\ p \in Calls /\ Held(p) /\ Holding /\ RecordLeads /\ Undone(p) /\ EndSees(p)
      /\ StartsSurviveRollbacks /\ pc[p] # "idle" /\ Spent \subseteq Spent'
      /\ UNCHANGED <<scene, pc, subject, failed, broken>>
  BY ExecFacts
<1>2. Unlinked' = Unlinked /\ StartsSurviveRollbacks'  BY <1>1, SameRecord, SameStarts
<1>3. RecordLeads'  BY <1>1 DEF RecordLeads, Leads
<1>4. rec' = [rec EXCEPT ![p] = rec[p]]  BY <1>1 DEF Holding
<1>5. (rec[p] = NoRecord \/ Leads(rec[p], Own(p))) /\ Carries(p, pc[p], rec[p])
  BY <1>1 DEF Held
<1>6. Undone(p)'  BY <1>1, <1>2 DEF Undone
<1>7. Seen(p)' /\ failures = 0 /\ Kind(p) = "end" => subject[p] \in Unlinked'
  <2>1. Seen(p)' => pc[p] = "end.drop"  BY <1>1 DEF Seen
  <2>2. QED  BY <2>1, <1>1, <1>2 DEF EndSees, Seen
<1>8. QED  BY <1>2, <1>3, <1>4, <1>5, <1>6, <1>7, ExecInv

LEMMA IndexInv ==
    ASSUME IInv, NEW n \in Nodes, NEW p, Executes(n, p), ExecIndex(p)
    PROVE  IInv'
<1>1. UNCHANGED <<record, writer, rec, live, linked, dropped>>  BY DEF ExecIndex, links
<1>2. /\ p \in Calls /\ Held(p) /\ EndSees(p) /\ pc[p] # "idle" /\ StoreTyped
      /\ Sessions' = Sessions /\ Spent \subseteq Sessions
  BY ExecFacts
<1>3. index' \subseteq Sessions
  <2>1. CASE /\ pc[p] \in {"start.index", "edit.index", "enter.index", "again.index"}
             /\ index' = index \cup {rec[p].link}
    <3>1. Leads(rec[p], Own(p)) /\ rec[p].link # None
      BY <1>2, <2>1, ConstantsOK DEF Held, Carries
    <3>2. rec[p].link \in Sessions  BY <1>2, <3>1 DEF Leads, Own
    <3>3. QED  BY <1>2, <2>1, <3>2 DEF StoreTyped
  <2>2. CASE pc[p] = "end.backfill" /\ index' = index \cup {subject[p]}
    <3>1. subject[p] \in Sessions  BY <1>2, <2>2 DEF Held, Fits, EndSees
    <3>2. QED  BY <1>2, <2>2, <3>1 DEF StoreTyped
  <2>3. CASE index' \subseteq index  BY <1>2, <2>3 DEF StoreTyped
  <2>4. QED  BY <2>1, <2>2, <2>3 DEF ExecIndex
<1>4. StoreTyped'  BY <1>1, <1>2, <1>3 DEF StoreTyped
<1>5. pc[p] \notin {"rollback", "end.find", "reset.get", "end.scan", "reset.put"}
  BY DEF ExecIndex
<1>6. QED  BY <1>1, <1>4, <1>5, AsideInv

LEMMA LiveInv ==
    ASSUME IInv, NEW n \in Nodes, NEW p, Executes(n, p), ExecLive(p)
    PROVE  IInv'
<1>1. UNCHANGED <<record, index, linked, writer, rec>>  BY DEF ExecLive
<1>2. /\ p \in Calls /\ Held(p) /\ Undone(p) /\ EndSees(p) /\ pc[p] # "idle" /\ StoreTyped
      /\ Sessions' = Sessions /\ CallsTyped
  BY ExecFacts
<1>3. pc[p] \in {"verify.create", "verify.drop", "end.drop"}  BY DEF ExecLive
<1>4. CASE pc[p] = "verify.create" /\ live' = live \cup {p} /\ UNCHANGED dropped
  <2>1. p \in Sessions  BY <1>2, <1>4 DEF Held, Fits, Sessions
  <2>2. StoreTyped'  BY <1>1, <1>2, <1>4, <2>1 DEF StoreTyped
  <2>3. QED  BY <1>1, <1>3, <1>4, <2>2, AsideInv
<1>5. CASE pc[p] \in {"verify.drop", "end.drop"}
  <2>1. PICK s : /\ s = IF pc[p] = "end.drop" THEN subject[p] ELSE p
                 /\ live' = live \ {s} /\ dropped' = dropped \cup {s}
    BY <1>5 DEF ExecLive
  <2>2. StoreTyped'  BY <1>1, <1>2, <2>1 DEF StoreTyped
  <2>3. s \in Spent /\ (s \in Unlinked \/ (failures > 0 /\ s \in Ended))
    <3>1. CASE pc[p] = "verify.drop"
      <4>1. s = p /\ p \in Sessions  BY <1>2, <2>1, <3>1 DEF Held, Fits, Sessions
      <4>2. QED  BY <1>2, <3>1, <4>1 DEF Undone, Spent
    <3>2. CASE pc[p] = "end.drop"
      <4>1. s = subject[p] /\ Kind(p) = "end" /\ Seen(p)
        BY <1>2, <2>1, <3>2 DEF Held, Fits, Seen
      <4>2. s \in Spent /\ (failures = 0 => s \in Unlinked)  BY <1>2, <4>1 DEF EndSees
      <4>3. s \in Ended  BY <1>2, <4>1, <4>2 DEF Ended, Spent
      <4>4. failures = 0 \/ failures > 0  BY <1>2 DEF CallsTyped
      <4>5. QED  BY <4>2, <4>3, <4>4
    <3>3. QED  BY <1>5, <3>1, <3>2
  <2>4. QED  BY <1>1, <1>3, <2>1, <2>2, <2>3, AsideInv
<1>6. QED  BY <1>4, <1>5 DEF ExecLive

LEMMA ClearInv ==
    ASSUME IInv, NEW n \in Nodes, NEW p, Executes(n, p), ExecClear(p)
    PROVE  IInv'
<1>1. /\ pc[p] = "rollback" /\ index' = index \ {p} /\ record' = ClearLink(record, p)
      /\ UNCHANGED <<live, linked, writer, dropped, rec>>
  BY DEF ExecClear, links
<1>2. /\ p \in Calls /\ Held(p) /\ Holding /\ StoreTyped /\ RecordLeads /\ StartsSurviveRollbacks
      /\ NoRecord \notin Record
      /\ Sessions' = Sessions /\ WritesBack' = WritesBack /\ Spent \subseteq Spent'
      /\ UNCHANGED <<scene, pc, broken>>
  BY ExecFacts
<1>3. p \in Sessions  BY <1>1, <1>2 DEF Held, Fits, Sessions
<1>4. \/ record' = record /\ (record = NoRecord \/ record.link # p)
      \/ /\ record \in Record /\ record.link = p
         /\ record' \in Record /\ record'.link = None
  BY <1>1, <1>2 DEF ClearLink, RecordLeads, Leads, Record
<1>5. RecordLeads'  BY <1>2, <1>4 DEF RecordLeads, Leads
<1>6. StoreTyped'  BY <1>1, <1>2 DEF StoreTyped
<1>7. Unlinked \subseteq Unlinked' /\ p \in Unlinked'
  <2>1. \A s \in Sessions : s # None  BY ConstantsOK DEF Sessions
  <2>2. CASE record' = record /\ (record = NoRecord \/ record.link # p)
    BY <2>2, <1>1, <1>2, <1>3 DEF Unlinked
  <2>3. CASE record'.link = None  BY <2>1, <2>3, <1>1, <1>2, <1>3 DEF Unlinked
  <2>4. QED  BY <2>2, <2>3, <1>4
<1>8. Undone(p)'  BY <1>7 DEF Undone
<1>9. ~Seen(p)'  BY <1>1, <1>2 DEF Seen
<1>10. StartsSurviveRollbacks'
  BY <1>1, <1>2, <1>4 DEF StartsSurviveRollbacks
<1>11. rec' = [rec EXCEPT ![p] = rec[p]]  BY <1>1, <1>2 DEF Holding
<1>12. (rec[p] = NoRecord \/ Leads(rec[p], Own(p))) /\ Carries(p, pc[p], rec[p])
  BY <1>2 DEF Held
<1>13. QED
  BY <1>1, <1>5, <1>6, <1>7, <1>8, <1>9, <1>10, <1>11, <1>12, ExecInv

LEMMA DelInv ==
    ASSUME IInv, NEW n \in Nodes, NEW p, Executes(n, p), ExecDel(p)
    PROVE  IInv'
<1>1. /\ pc[p] \in {"sweep.del", "remove.del"} /\ record' = NoRecord /\ writer' = p
      /\ UNCHANGED <<index, live, linked, dropped, rec>>
  BY DEF ExecDel
<1>2. /\ p \in Calls /\ Held(p) /\ Holding /\ StoreTyped
      /\ Sessions' = Sessions /\ UNCHANGED <<scene, pc, broken>> /\ Spent \subseteq Sessions
  BY ExecFacts
<1>3. p \notin Sessions  BY <1>1, <1>2 DEF Held, Fits, Sessions
<1>4. RecordLeads' /\ StartsSurviveRollbacks' /\ Unlinked' = Sessions
  BY <1>1, <1>2, <1>3 DEF RecordLeads, StartsSurviveRollbacks, Unlinked
<1>5. StoreTyped'  BY <1>1, <1>2 DEF StoreTyped
<1>6. Undone(p)' /\ ~Seen(p)'  BY <1>1, <1>2 DEF Undone, Seen
<1>7. rec' = [rec EXCEPT ![p] = rec[p]]  BY <1>1, <1>2 DEF Holding
<1>8. (rec[p] = NoRecord \/ Leads(rec[p], Own(p))) /\ Carries(p, pc[p], rec[p])
  BY <1>2 DEF Held
<1>9. QED  BY <1>1, <1>2, <1>4, <1>5, <1>6, <1>7, <1>8, ExecInv

LEMMA ExecutionInv == ASSUME IInv, NEW n \in Nodes, Exec(n) PROVE IInv'
<1> DEFINE p == NextSent(conn[n])
<1>1. Executes(n, p)  BY DEF Exec, Executes
<1>2. ExecRead(p) \/ ExecPut(p) \/ ExecIndex(p) \/ ExecClear(p) \/ ExecLive(p) \/ ExecDel(p)
  BY DEF Exec
<1> HIDE DEF p
<1>3. QED  BY <1>1, <1>2, ReadInv, PutInv, IndexInv, ClearInv, LiveInv, DelInv
-----------------------------------------------------------------------------
(* The network, sockets and time                                           *)

\* A step that leaves the record, the calls and what they hold alone: what was executed
\* stays so, and what was not has failed if it does not wait any more.
LEMMA BesidesInv ==
    ASSUME IInv, Lined', SideTyped', live' \subseteq live,
           failures' \in Nat, failed' \subseteq Calls,
           UNCHANGED <<scene, record, index, pc, rec, subject, told, broken, links>>,
           Unrun' \subseteq Unrun, failures > 0 => failures' > 0,
           failures' = 0 => failures = 0 /\ Unrun' = Unrun,
           \A p \in Calls : p \in Unrun \cup failed => p \in Unrun' \cup failed'
    PROVE  IInv'
<1>1. /\ StoreTyped /\ CallsTyped /\ Holding /\ RecordLeads /\ ToldSpent /\ Dropped
      /\ StartsSurviveRollbacks /\ \A p \in Calls : Undone(p) /\ EndSees(p)
      /\ UNCHANGED <<linked, writer, dropped>>
  BY DEF IInv, links
<1>2. /\ Sessions' = Sessions /\ Ended' = Ended /\ \A p : Own(p)' = Own(p) /\ Kind(p)' = Kind(p)
      /\ Unlinked' = Unlinked /\ Spent \subseteq Spent'
  <2>1. Spent \subseteq Spent'  BY DEF Spent, Sessions, Kind
  <2>2. Unlinked' = Unlinked  BY <1>1, SameRecord
  <2>3. QED  BY <2>1, <2>2 DEF Sessions, Ended, Own, Kind
<1>3. StoreTyped' /\ CallsTyped'  BY <1>1, <1>2 DEF StoreTyped, CallsTyped
<1>4. Holding'
  <2>1. ASSUME NEW q \in Calls PROVE Held(q)'
    <3>1. Held(q)  BY <1>1 DEF Holding
    <3>2. rec'[q] = NoRecord \/ Leads(rec[q], Own(q))'  BY <3>1, <1>2 DEF Held, Leads
    <3>3. Fits(pc'[q], Kind(q)') /\ Carries(q, pc'[q], rec'[q])  BY <3>1, <1>2 DEF Held
    <3>4. QED  BY <3>2, <3>3 DEF Held
  <2>2. QED  BY <1>1, <2>1 DEF Holding
<1>5. RecordLeads' /\ ToldSpent'  BY <1>1, <1>2 DEF RecordLeads, Leads, ToldSpent
<1>6. ASSUME NEW q \in Calls PROVE Undone(q)' /\ EndSees(q)'
  <2>1. Undone(q) /\ EndSees(q)  BY <1>1
  <2>2. Undone(q)'  BY <2>1, <1>2 DEF Undone
  <2>3. failures' = 0 /\ Seen(q)' => failures = 0 /\ Seen(q)  BY DEF Seen, LeadsTo
  <2>4. EndSees(q)'  BY <2>1, <2>3, <1>2 DEF EndSees
  <2>5. QED  BY <2>2, <2>4
<1>7. Dropped'  BY <1>1, <1>2 DEF Dropped
<1>8. StartsSurviveRollbacks'  BY <1>1, <1>2, SameStarts
<1>9. QED  BY <1>3, <1>4, <1>5, <1>6, <1>7, <1>8 DEF IInv

LEMMA DeliverInv == ASSUME IInv, NEW n \in Nodes, Deliver(n) PROVE IInv'
<1>1. Lined /\ CallsTyped /\ SideTyped  BY DEF IInv
<1>2. /\ UNCHANGED <<scene, valkey, pc, rec, subject, failed, failures, links>>
      /\ UNCHANGED <<waiting, open, told, authed, broken, rolledBack, issued>>
  BY DEF Deliver, LeaveRoom, LeaveStarts, LeaveEntries
<1>3. Orderly(conn[n]) /\ conn[n].ready = {} /\ conn \in [Nodes -> Conn]
  BY <1>1 DEF Lined, Deliver, Free
<1>4. PICK k \in 1..Len(conn[n].back) : conn' = [conn EXCEPT ![n] = Read(conn[n], k)]
  BY DEF Deliver
<1> DEFINE d == conn'[n]
<1>5. d = Read(conn[n], k)  BY <1>3, <1>4
<1>6. /\ Orderly(d) /\ Sent(d) = Sent(conn[n])
      /\ Back(d) \subseteq Back(conn[n]) /\ d.ready \subseteq Back(conn[n])
  BY <1>3, <1>5, ReadOrderly
<1>7. /\ conn' \in [Nodes -> Conn] /\ \A m \in Nodes : m # n => conn'[m] = conn[m]
  BY <1>3, <1>4, <1>6 DEF Orderly
<1> HIDE DEF d
<1>8. ASSUME NEW m \in Nodes
      PROVE  /\ Orderly(conn'[m])
             /\ \A q \in Sent(conn'[m]) \cup Back(conn'[m]) : q \notin failed'
             /\ \A q \in Sent(conn'[m]) \cup Back(conn'[m]) \cup conn'[m].ready :
                   At[q] = m /\ pc'[q] \in Commands
  <2>1. CASE m = n
    <3>1. conn'[m] = d  BY <2>1 DEF d
    <3>2. QED  BY <2>1, <3>1, <1>1, <1>2, <1>6 DEF Lined
  <2>2. CASE m # n  BY <2>2, <1>1, <1>2, <1>7 DEF Lined
  <2>3. QED  BY <2>1, <2>2
<1>9. Lined'  BY <1>1, <1>2, <1>7, <1>8 DEF Lined
<1>10. Unrun' = Unrun
  <2>1. ASSUME NEW q \in Calls PROVE q \in Unrun' <=> q \in Unrun
    <3>1. CASE At[q] = n
      <4>1. conn'[At[q]] = d  BY <3>1 DEF d
      <4>2. QED  BY <3>1, <4>1, <1>6 DEF Unrun
    <3>2. CASE At[q] # n
      <4>1. conn'[At[q]] = conn[At[q]]  BY <3>2, <1>7, AtNode
      <4>2. QED  BY <4>1 DEF Unrun
    <3>3. QED  BY <3>1, <3>2
  <2>2. Unrun \subseteq Calls /\ Unrun' \subseteq Calls  BY DEF Unrun
  <2>3. QED  BY <2>1, <2>2
<1>11. SideTyped'  BY <1>1, <1>2 DEF SideTyped, Joins, Sessions, Kind
<1>12. failures \in Nat /\ failed \subseteq Calls  BY <1>1 DEF CallsTyped
<1>13. QED  BY <1>2, <1>9, <1>10, <1>11, <1>12, BesidesInv DEF valkey

LEMMA RejectInv == ASSUME IInv, NEW n \in Nodes, Reject(n) PROVE IInv'
<1>1. Lined /\ CallsTyped /\ SideTyped  BY DEF IInv
<1>2. /\ UNCHANGED <<scene, valkey, pc, rec, subject, links>>
      /\ UNCHANGED <<waiting, open, told, authed, broken, rolledBack, issued>>
  BY DEF Reject, LeaveRoom, LeaveStarts, LeaveEntries
<1>3. Orderly(conn[n]) /\ conn[n].ready = {} /\ conn \in [Nodes -> Conn]
  BY <1>1 DEF Lined, Reject, Free
<1> DEFINE d == conn'[n]
<1>4. d = GivenUp(conn[n]) /\ conn' = [conn EXCEPT ![n] = d]  BY <1>3 DEF Reject
<1>5. /\ Orderly(d) /\ Sent(d) = {} /\ Back(d) = {} /\ d.ready = Sent(conn[n]) \cup Back(conn[n])
      /\ Unanswered(conn[n]) = Sent(conn[n]) \cup Back(conn[n])
  BY <1>3, <1>4, GivenUpOrderly
<1>6. /\ conn' \in [Nodes -> Conn] /\ \A m \in Nodes : m # n => conn'[m] = conn[m]
  BY <1>3, <1>4, <1>5 DEF Orderly
<1> HIDE DEF d
<1>7. /\ failed' = failed \cup Sent(conn[n]) \cup Back(conn[n]) /\ failures' = failures + 1
      /\ failures' \in Nat /\ failures' > 0
  BY <1>1, <1>5 DEF Reject, CallsTyped
<1>8. ASSUME NEW m \in Nodes
      PROVE  /\ Orderly(conn'[m])
             /\ \A q \in Sent(conn'[m]) \cup Back(conn'[m]) : q \notin failed'
             /\ \A q \in Sent(conn'[m]) \cup Back(conn'[m]) \cup conn'[m].ready :
                   At[q] = m /\ pc'[q] \in Commands
  <2>1. CASE m = n
    <3>1. conn'[m] = d  BY <2>1 DEF d
    <3>2. QED  BY <2>1, <3>1, <1>1, <1>2, <1>5 DEF Lined
  <2>2. CASE m # n
    <3>1. conn'[m] = conn[m]  BY <2>2, <1>6
    <3>2. \A q \in Sent(conn[m]) \cup Back(conn[m]) : At[q] = m /\ q \notin failed
      BY <1>1 DEF Lined
    <3>3. \A q \in Sent(conn[n]) \cup Back(conn[n]) : At[q] = n  BY <1>1 DEF Lined
    <3>4. \A q \in Sent(conn[m]) \cup Back(conn[m]) : q \notin failed'
      BY <2>2, <3>2, <3>3, <1>7
    <3>5. QED  BY <3>1, <3>4, <1>1, <1>2 DEF Lined
  <2>3. QED  BY <2>1, <2>2
<1>9. Lined'  BY <1>6, <1>7, <1>8 DEF Lined
<1>10. Unrun' \subseteq Unrun /\ \A p \in Calls : p \in Unrun => p \in Unrun' \cup failed'
  <2>1. ASSUME NEW q \in Calls
        PROVE  (q \in Unrun' => q \in Unrun) /\ (q \in Unrun => q \in Unrun' \cup failed')
    <3>1. CASE At[q] = n
      <4>1. conn'[At[q]] = d  BY <3>1 DEF d
      <4>2. QED  BY <3>1, <4>1, <1>5, <1>7 DEF Unrun
    <3>2. CASE At[q] # n
      <4>1. conn'[At[q]] = conn[At[q]]  BY <3>2, <1>6, AtNode
      <4>2. QED  BY <4>1 DEF Unrun
    <3>3. QED  BY <3>1, <3>2
  <2>2. Unrun \subseteq Calls /\ Unrun' \subseteq Calls  BY DEF Unrun
  <2>3. QED  BY <2>1, <2>2
<1>11. failed' \subseteq Calls
  <2>1. Sent(conn[n]) \cup Back(conn[n]) \subseteq Calls
    BY <1>3, ElementOfSeq DEF Conn, Sent, Back
  <2>2. QED  BY <2>1, <1>1, <1>7 DEF CallsTyped
<1>12. SideTyped'  BY <1>1, <1>2 DEF SideTyped, Joins, Sessions, Kind
<1>13. QED  BY <1>2, <1>7, <1>9, <1>10, <1>11, <1>12, BesidesInv DEF valkey

\* Steps that leave the connections alone too.
LEMMA ApartInv ==
    ASSUME IInv, SideTyped', live' \subseteq live,
           UNCHANGED <<scene, record, index, conn, pc, rec, subject, failed, failures, told, broken,
                       links>>
    PROVE  IInv'
<1>1. Lined /\ CallsTyped  BY DEF IInv
<1>2. Lined'  BY <1>1 DEF Lined
<1>3. Unrun' = Unrun  BY DEF Unrun
<1>4. failures \in Nat /\ failed \subseteq Calls  BY <1>1 DEF CallsTyped
<1>5. QED  BY <1>2, <1>3, <1>4, BesidesInv

LEMMA CloseInv == ASSUME IInv, NEW j \in Joins, Close(j) PROVE IInv'
<1>1. SideTyped /\ j \in Calls  BY DEF IInv, Joins
<1>2. UNCHANGED <<scene, told, authed, broken, rolledBack, issued>>
  BY DEF Close, LeaveStarts, LeaveEntries
<1>3. open' \subseteq Joins  BY <1>1 DEF Close, SideTyped
<1>4. waiting' \in [Nodes -> SUBSET Joins]
  <2>1. waiting' = [waiting EXCEPT ![At[j]] = waiting[At[j]] \ {j}]  BY DEF Close
  <2>2. QED  BY <1>1, <2>1, AtNode DEF SideTyped
<1>5. SideTyped'  BY <1>1, <1>2, <1>3, <1>4 DEF SideTyped, Joins, Sessions, Kind
<1>6. QED  BY <1>2, <1>5, ApartInv DEF Close, valkey

LEMMA LapseInv == ASSUME IInv, NEW s \in Sessions, Lapse(s) PROVE IInv'
<1>1. SideTyped  BY DEF IInv
<1>2. UNCHANGED <<scene, waiting, open, told, authed, broken, rolledBack, issued>>
  BY DEF Lapse, LeaveRoom, LeaveStarts, LeaveEntries
<1>3. SideTyped'  BY <1>1, <1>2 DEF SideTyped, Joins, Sessions, Kind
<1>4. QED  BY <1>2, <1>3, ApartInv DEF Lapse
-----------------------------------------------------------------------------
(* Initial states, and all steps                                           *)

LEMMA InitInv == ASSUME Init PROVE IInv
<1>1. PICK sc \in Scenes : scene = sc  BY DEF Init
<1>2. \A p \in Calls : p \in scene.here => Kind(p) = "join"  BY <1>1, ConstantsOK DEF Kind
<1>3. scene.here \subseteq Joins
  <2>1. sc \in Scene  BY <1>1, ConstantsOK
  <2>2. scene.here \subseteq Calls  BY <1>1, <2>1 DEF Scene
  <2>3. QED  BY <1>2, <2>2 DEF Joins
<1>4. SideTyped
  <2>1. waiting \in [Nodes -> SUBSET Joins]  BY <1>3 DEF Init
  <2>2. QED  BY <1>3, <2>1 DEF Init, SideTyped
<1>5. StoreTyped  BY DEF Init, StoreTyped
<1>6. CallsTyped  BY DEF Init, CallsTyped
<1>7. Lined
  <2>1. conn = [n \in Nodes |-> Quiet] /\ failed = {}  BY DEF Init
  <2>2. Orderly(Quiet) /\ Sent(Quiet) = {} /\ Back(Quiet) = {} /\ Quiet.ready = {} /\ Quiet \in Conn
    BY QuietOrderly DEF Orderly
  <2>3. QED  BY <2>1, <2>2 DEF Lined
<1>8. \A p \in Calls : /\ pc[p] \in {"idle", "done"} /\ rec[p] = NoRecord /\ subject[p] = None
                       /\ (Kind(p) = "end" => pc[p] = "idle")
  <2> SUFFICES ASSUME NEW p \in Calls
               PROVE  /\ pc[p] \in {"idle", "done"} /\ rec[p] = NoRecord /\ subject[p] = None
                      /\ (Kind(p) = "end" => pc[p] = "idle")
    OBVIOUS
  <2>1. pc[p] = IF p \in scene.here THEN "done" ELSE "idle"  BY DEF Init
  <2>2. QED  BY <1>2, <2>1 DEF Init
<1>9. Holding
  <2>1. rec \in [Calls -> Record \cup {NoRecord}]  BY DEF Init
  <2>2. \A p \in Calls : Held(p)  BY <1>8 DEF Held, Fits, Carries
  <2>3. QED  BY <2>1, <2>2 DEF Holding
<1>10. RecordLeads  BY NewRecordFacts DEF Init, RecordLeads
<1>11. ToldSpent  BY DEF Init, ToldSpent
<1>12. \A p \in Calls : Undone(p) /\ EndSees(p)  BY <1>8 DEF Undone, EndSees
<1>13. Dropped  BY DEF Init, Dropped
<1>14. StartsSurviveRollbacks  BY ConstantsOK DEF Init, StartsSurviveRollbacks, Sessions
<1>15. QED
  BY <1>4, <1>5, <1>6, <1>7, <1>9, <1>10, <1>11, <1>12, <1>13, <1>14 DEF IInv

LEMMA Inductive == IInv /\ [Next]_vars => IInv'
<1> SUFFICES ASSUME IInv, [Next]_vars PROVE IInv'  OBVIOUS
<1>1. ASSUME NEW p \in Calls, Start(p) \/ Resume(p) PROVE IInv'
  BY <1>1, StartInv, ResumeInv
<1>2. ASSUME NEW n \in Nodes, Exec(n) \/ Deliver(n) \/ Reject(n) PROVE IInv'
  BY <1>2, ExecutionInv, DeliverInv, RejectInv
<1>3. ASSUME NEW j \in Joins, Close(j) PROVE IInv'  BY <1>3, CloseInv
<1>4. ASSUME NEW s \in Sessions, Lapse(s) PROVE IInv'  BY <1>4, LapseInv
<1>5. CASE UNCHANGED vars
  <2>1. UNCHANGED <<scene, record, index, live, conn, waiting, open, pc, rec, subject, failed,
                    failures, told, authed, broken, rolledBack, links, issued>>
    BY <1>5 DEF vars, valkey, history
  <2>2. SideTyped'  BY <2>1 DEF IInv, SideTyped, Joins, Sessions, Kind
  <2>3. QED  BY <2>1, <2>2, ApartInv
<1>6. QED  BY <1>1, <1>2, <1>3, <1>4, <1>5 DEF Next

-----------------------------------------------------------------------------
(* The reverse index                                                       *)

\* p is about to enter s in the index, or to write a record that does not need it there, or
\* to delete the record, or, at the end of s, to find that the record leads to it.
Mender(p, s) ==
    \/ /\ pc[p] \in {"start.put", "edit.put", "enter.back", "again.back"} /\ p \notin Unrun
       /\ rec[p] # NoRecord /\ rec[p].link = s
    \/ /\ pc[p] \in {"start.index", "edit.index", "enter.index", "again.index"} /\ p \in Unrun
       /\ rec[p] # NoRecord /\ rec[p].link = s
    \/ /\ pc[p] \in {"start.unindex", "reset.unindex", "remove.unindex"} /\ p \notin Unrun
       /\ rec[p] # NoRecord /\ rec[p].link = s
    \/ pc[p] \in {"start.put", "reset.put", "remove.del"} /\ p \in Unrun
    \/ /\ subject[p] = s
       /\ \/ pc[p] = "end.unindex" /\ p \notin Unrun
          \/ pc[p] = "end.scan" /\ (p \in Unrun \/ rec[p] # NoRecord)
          \/ pc[p] = "end.find" /\ (p \in Unrun \/ LeadsTo(rec[p], s))
          \/ pc[p] = "end.backfill" /\ p \in Unrun

\* A session the record leads to is in the index, or somebody sees to it.
Mended == failures = 0 /\ record # NoRecord /\ record.link # None =>
              record.link \in index \/ \E p \in Calls : Mender(p, record.link)

\* What every step of a call leaves alone.
Steps(p) == /\ pc[p] = "idle" \/ p \in conn[At[p]].ready
            /\ Frame /\ \A q \in Calls \ {p} : subject'[q] = subject[q]
            /\ \E c, r : Goes(p, c, r)

LEMMA ToGoes ==
    ASSUME IInv, NEW p \in Calls, \E c \in Commands : Send(p, c) \/ Return(p),
           UNCHANGED rec \/ \E r : Hold(p, r)
    PROVE  \E c, r : Goes(p, c, r)
<1>1. PICK c : To(p, c)  BY DEF To
<1>2. PICK r : Hold(p, r)
  <2>1. UNCHANGED rec => Hold(p, rec[p])  BY DEF IInv, Holding, Hold
  <2>2. QED  BY <2>1
<1>3. QED  BY <1>1, <1>2 DEF Goes

LEMMA CommandNames ==
    /\ {"join.get", "join.put", "join.started", "join.id", "verify.get",
        "verify.create"} \subseteq Commands
    /\ {"start.get", "start.unindex", "start.put", "start.index", "rollback"} \subseteq Commands
    /\ {"verify.drop", "end.index", "end.record", "end.unindex", "end.scan"} \subseteq Commands
    /\ {"end.find", "end.backfill", "end.drop", "reset.get", "reset.unindex"} \subseteq Commands
    /\ {"reset.put", "enter.get", "enter.live", "enter.again", "enter.put"} \subseteq Commands
    /\ {"edit.get", "edit.put", "edit.index", "enroll.put"} \subseteq Commands
    /\ {"enter.back", "enter.index", "again.back", "again.index"} \subseteq Commands
    /\ {"sweep.scan", "sweep.get", "sweep.del", "remove.get", "remove.unindex",
        "remove.del"} \subseteq Commands
BY DEF Commands, RecordReads

LEMMA CallSteps == ASSUME IInv, NEW p \in Calls, Start(p) \/ Resume(p) PROVE Steps(p)
<1>1. CallsTyped  BY DEF IInv
<1> DEFINE Goal == \E c, r : Goes(p, c, r)
<1>2. \A c : c \in Commands /\ Send(p, c) /\ (UNCHANGED rec \/ \E r : Hold(p, r)) => Goal
  BY ToGoes
<1>3. Return(p) /\ (UNCHANGED rec \/ \E r : Hold(p, r)) => Goal
  <2>1. "join.get" \in Commands  BY CommandNames
  <2>2. QED  BY <2>1, ToGoes
<1> HIDE DEF Goal
<1>4. CASE Start(p)
  <2>1. pc[p] = "idle" /\ Frame /\ UNCHANGED rec
    BY <1>4 DEF Start, Connect, Verify, End, Redeem, Request, Begin
  <2>2. UNCHANGED subject \/ \E s : subject' = [subject EXCEPT ![p] = s]
    BY <1>4 DEF Start, Connect, Verify, End, Redeem, Request
  <2>3. \A q \in Calls \ {p} : subject'[q] = subject[q]  BY <2>2, <1>1 DEF CallsTyped
  <2>4. Goal
    BY <2>1, <1>2, <1>4, CommandNames DEF Start, Connect, Verify, End, Redeem, Request
  <2>5. QED  BY <2>1, <2>3, <2>4 DEF Steps, Goal
<1>5. CASE Resume(p)
  <2>1. UNCHANGED subject /\ Frame  BY <1>5 DEF Resume
  <2>2. CASE Join(p)
    <3>1. p \in conn[At[p]].ready
      BY <2>2 DEF Join, JoinLoaded, JoinCreated, JoinChecked, JoinSent, Ok, Fails, Either
    <3>2. Goal
      BY <1>2, <1>3, <2>2, CommandNames
      DEF Join, JoinLoaded, JoinCreated, JoinChecked, JoinSent, CreateRecord
    <3>3. QED  BY <2>1, <3>1, <3>2 DEF Steps, Goal
  <2>3. CASE StartClass(p)
    <3>1. p \in conn[At[p]].ready
      BY <2>3 DEF StartClass, CodeChecked, SessionCreated, StartLoaded, StartUnindexed, StartPut,
                  StartIndexed, Rollback, SessionDropped, Ok, Fails, Either
    <3>2. CASE \/ CodeChecked(p) \/ SessionCreated(p) \/ StartPut(p) \/ Rollback(p)
               \/ SessionDropped(p)
      BY <1>2, <1>3, <3>2, CommandNames, <2>1, <3>1
      DEF CodeChecked, SessionCreated, StartPut, Rollback, SessionDropped, Break, Steps, Goal
    <3>3. CASE StartLoaded(p) \/ StartUnindexed(p) \/ StartIndexed(p)
      BY <1>2, <1>3, <3>3, CommandNames, <2>1, <3>1
      DEF StartLoaded, StartUnindexed, StartIndexed, Admit, Steps, Goal
    <3>4. QED  BY <2>3, <3>2, <3>3 DEF StartClass
  <2>4. CASE Leave(p)
    <3>1. p \in conn[At[p]].ready
      BY <2>4 DEF Leave, EndLookedUp, Reset, Enter, EnterLoaded, EnterWritten, EnterLooked, Ok,
                  Fails, Either
    <3>2. CASE EndLookedUp(p) /\ UNCHANGED rec
      BY <1>2, <1>3, <3>2, CommandNames, <2>1, <3>1 DEF EndLookedUp, Steps, Goal
    <3>3. CASE Reset(p)
      BY <1>2, <1>3, <3>3, CommandNames, <2>1, <3>1 DEF Reset, AfterReset, Steps, Goal
    <3>4. CASE Enter(p)
      <4>1. LookUp(p) /\ UNCHANGED rec => Goal  BY <1>2, <1>3, CommandNames DEF LookUp
      <4>2. ASSUME EnterLoaded(p) PROVE Goal
        BY <1>2, <4>1, <4>2, CommandNames DEF EnterLoaded, CreateRecord
      <4>3. ASSUME EnterWritten(p) PROVE Goal
        BY <1>2, <1>3, <4>1, <4>3, CommandNames DEF EnterWritten
      <4>4. ASSUME EnterLooked(p) PROVE Goal
        BY <1>2, <1>3, <4>4, CommandNames DEF EnterLooked
      <4>5. QED  BY <2>1, <3>1, <3>4, <4>2, <4>3, <4>4 DEF Enter, Steps, Goal
    <3>5. QED  BY <2>4, <3>2, <3>3, <3>4 DEF Leave
  <2>5. CASE Edit(p)
    <3>1. p \in conn[At[p]].ready
      BY <2>5 DEF Edit, EditLoaded, EnrollCreated, EditPut, Ok, Fails, Either
    <3>2. Goal
      BY <1>2, <1>3, <2>5, CommandNames
      DEF Edit, EditLoaded, EnrollCreated, EditPut, CreateRecord, Change, Finish
    <3>3. QED  BY <2>1, <3>1, <3>2 DEF Steps, Goal
  <2>6. CASE Sweep(p)
    <3>1. p \in conn[At[p]].ready  BY <2>6 DEF Sweep, SweepLoaded, Cleanup, Either
    <3>2. Goal  BY <1>2, <1>3, <2>6, CommandNames DEF Sweep, SweepLoaded, Cleanup, Vacate
    <3>3. QED  BY <2>1, <3>1, <3>2 DEF Steps, Goal
  <2>7. QED  BY <1>5, <2>2, <2>3, <2>4, <2>5, <2>6 DEF Resume
<1>6. QED  BY <1>4, <1>5

\* A call that mends goes on to do so, when no command was lost.
LEMMA MendsOn ==
    ASSUME IInv, failures = 0, NEW p \in Calls, Resume(p), NEW s, s # None, Mender(p, s)
    PROVE  Mender(p, s)'
<1>1. Steps(p)  BY CallSteps
<1>2. PICK c, r : Goes(p, c, r)  BY <1>1 DEF Steps
<1>3. /\ p \notin Unrun /\ pc[p] \notin {"idle", "done"} /\ p \in conn[At[p]].ready
      /\ Held(p) /\ Got(p) = rec[p] /\ p \notin failed /\ Lined /\ CallsTyped /\ Holding
  BY <1>1, NoCommand, ReadyFacts DEF Steps, IInv, Lined, Mender
<1>4. /\ pc' = [pc EXCEPT ![p] = c] /\ (c # "done" => p \in Unrun') /\ rec' = [rec EXCEPT ![p] = r]
  BY <1>1, <1>2, <1>3, CallLined DEF Steps, Frame, Goes, Hold
<1>5. pc'[p] = c /\ UNCHANGED subject  BY <1>3, <1>4 DEF CallsTyped, Resume
<1>6. \A d : Send(p, d) => c = d
  BY <1>3, <1>5 DEF Send, CallsTyped
<1>7. CASE /\ pc[p] \in {"start.put", "edit.put", "enter.back", "again.back"}
           /\ rec[p] # NoRecord /\ rec[p].link = s
  <2>1. Started(rec[p])  BY <1>7 DEF Started
  <2>2. /\ UNCHANGED rec
        /\ \E d \in {"start.index", "edit.index", "enter.index", "again.index"} : Send(p, d)
    <3>1. CASE pc[p] = "start.put"
      <4>1. StartPut(p)
        BY <3>1 DEF Resume, Join, StartClass, Leave, Edit, Sweep, JoinLoaded, JoinCreated,
             JoinChecked, JoinSent, CodeChecked, SessionCreated, StartLoaded, StartUnindexed,
             StartIndexed, Rollback, SessionDropped, EndLookedUp, Reset, Enter, EnterLoaded,
             EnterWritten, EnterLooked, EditLoaded, EnrollCreated, EditPut, SweepLoaded, Cleanup,
             Ok, Fails, Either
      <4>2. QED  BY <4>1, <1>3 DEF StartPut, Fails
    <3>2. CASE pc[p] = "edit.put"
      <4>1. EditPut(p)
        BY <3>2 DEF Resume, Join, StartClass, Leave, Edit, Sweep, JoinLoaded, JoinCreated,
             JoinChecked, JoinSent, CodeChecked, SessionCreated, StartLoaded, StartUnindexed,
             StartPut, StartIndexed, Rollback, SessionDropped, EndLookedUp, Reset, Enter,
             EnterLoaded, EnterWritten, EnterLooked, EditLoaded, EnrollCreated, SweepLoaded,
             Cleanup, Ok, Fails, Either
      <4>2. QED  BY <3>2, <4>1, <1>3, <2>1 DEF EditPut, Ok, Fails, Either
    <3>3. CASE pc[p] \in {"enter.back", "again.back"}
      <4>1. EnterWritten(p)
        BY <3>3 DEF Resume, Join, StartClass, Leave, Edit, Sweep, JoinLoaded, JoinCreated,
             JoinChecked, JoinSent, CodeChecked, SessionCreated, StartLoaded, StartUnindexed,
             StartPut, StartIndexed, Rollback, SessionDropped, EndLookedUp, Reset, Enter,
             EnterLoaded, EnterLooked, EditLoaded, EnrollCreated, EditPut, SweepLoaded,
             Cleanup, Ok, Fails, Either
      <4>2. QED  BY <3>3, <4>1, <1>3, <2>1 DEF EnterWritten, Ok, Fails, Either
    <3>4. QED  BY <1>7, <3>1, <3>2, <3>3
  <2>3. QED  BY <1>4, <1>5, <1>6, <1>7, <2>2 DEF Mender
<1>8. CASE pc[p] \in {"start.unindex", "reset.unindex", "remove.unindex"}
  <2>1. Send(p, "start.put") \/ Send(p, "reset.put") \/ Send(p, "remove.del")
    BY <1>8 DEF Resume, Join, StartClass, Leave, Edit, Sweep, JoinLoaded, JoinCreated,
         JoinChecked, JoinSent, CodeChecked, SessionCreated, StartLoaded, StartUnindexed,
         StartPut, StartIndexed, Rollback, SessionDropped, EndLookedUp, Reset, Enter,
         EnterLoaded, EnterWritten, EnterLooked, EditLoaded, EnrollCreated, EditPut, SweepLoaded,
         Cleanup, Ok, Fails, Either
  <2>2. QED  BY <1>4, <1>5, <1>6, <2>1 DEF Mender
<1>9. CASE /\ subject[p] = s
           /\ \/ pc[p] = "end.unindex"
              \/ pc[p] = "end.scan" /\ rec[p] # NoRecord
              \/ pc[p] = "end.find" /\ LeadsTo(rec[p], s)
  <2>1. EndLookedUp(p)
    BY <1>9 DEF Resume, Join, StartClass, Leave, Edit, Sweep, JoinLoaded, JoinCreated,
         JoinChecked, JoinSent, CodeChecked, SessionCreated, StartLoaded, StartUnindexed,
         StartPut, StartIndexed, Rollback, SessionDropped, Reset, Enter, EnterLoaded,
         EnterWritten, EnterLooked, EditLoaded, EnrollCreated, EditPut, SweepLoaded, Cleanup,
         Ok, Fails, Either
  <2>2. Send(p, "end.scan") \/ Send(p, "end.find") \/ Send(p, "end.backfill")
    BY <1>3, <1>9, <2>1 DEF EndLookedUp, Either
  <2>3. QED  BY <1>4, <1>5, <1>6, <1>9, <2>2 DEF Mender
<1>10. QED  BY <1>3, <1>7, <1>8, <1>9 DEF Mender

\* Another call's part in the mending is not touched by a step of p.
LEMMA MendsAlso ==
    ASSUME IInv, NEW p \in Calls, Start(p) \/ Resume(p), NEW q \in Calls \ {p}, NEW s, Mender(q, s)
    PROVE  Mender(q, s)'
<1>1. Steps(p)  BY CallSteps
<1>2. PICK c, r : Goes(p, c, r)  BY <1>1 DEF Steps
<1>3. Lined /\ CallsTyped /\ Holding  BY DEF IInv
<1>4. /\ pc' = [pc EXCEPT ![p] = c] /\ (q \in Unrun' <=> q \in Unrun)
      /\ rec' = [rec EXCEPT ![p] = r]
  BY <1>1, <1>2, <1>3, CallLined DEF Steps, Frame, Goes, Hold
<1>5. pc'[q] = pc[q] /\ rec'[q] = rec[q] /\ subject'[q] = subject[q]
  BY <1>1, <1>3, <1>4 DEF Steps, CallsTyped, Holding
<1>6. QED  BY <1>4, <1>5 DEF Mender, LeadsTo

LEMMA CallMended ==
    ASSUME IInv, Mended, NEW p \in Calls, Start(p) \/ Resume(p) PROVE Mended'
<1>1. UNCHANGED <<failures, record, index>>
  <2>1. Steps(p)  BY CallSteps
  <2>2. QED  BY <2>1 DEF Steps, Frame, valkey
<1>2. SUFFICES ASSUME failures = 0, NEW s, s # None, NEW q \in Calls, Mender(q, s)
               PROVE  \E o \in Calls : Mender(o, s)'
  BY <1>1 DEF Mended
<1>3. CASE q # p  BY <1>2, <1>3, MendsAlso
<1>4. CASE q = p /\ Resume(p)  BY <1>2, <1>4, MendsOn
<1>5. CASE q = p /\ Start(p)
  <2>1. pc[p] = "idle"  BY <1>5 DEF Start, Connect, Verify, End, Redeem, Request, Begin
  <2>2. QED  BY <1>2, <1>5, <2>1 DEF Mender
<1>6. QED  BY <1>3, <1>4, <1>5

LEMMA ExecMended ==
    ASSUME IInv, Mended, NEW n \in Nodes, NEW p, Executes(n, p),
           \/ ExecRead(p) \/ ExecPut(p) \/ ExecIndex(p) \/ ExecClear(p) \/ ExecLive(p)
           \/ ExecDel(p)
    PROVE  Mended'
<1>2. /\ p \in Calls /\ p \in Unrun /\ Unrun' = Unrun \ {p}
      /\ Held(p) /\ Holding /\ RecordLeads /\ StoreTyped
      /\ UNCHANGED <<pc, subject, failures>>
  BY ExecFrame, ExecFacts
<1>3. \A q \in Calls \ {p} : rec'[q] = rec[q]
  <2>1. UNCHANGED rec \/ \E r : rec' = [rec EXCEPT ![p] = r]
    BY DEF ExecRead, ExecPut, ExecIndex, ExecClear, ExecLive, ExecDel, Answer, Hold
  <2>2. QED  BY <2>1, <1>2 DEF Holding
<1>4. \A s : \A q \in Calls \ {p} : Mender(q, s) => Mender(q, s)'
  BY <1>2, <1>3 DEF Mender, LeadsTo
<1>5. CASE ExecRead(p)
  <2>1. UNCHANGED <<record, index>>  BY <1>5 DEF ExecRead, valkey
  <2>2. ASSUME NEW s, record # NoRecord, record.link = s, Mender(p, s) PROVE Mender(p, s)'
    <3>1. pc[p] \in {"end.scan", "end.find"} /\ subject[p] = s
      BY <1>2, <1>5, <2>2 DEF Mender, ExecRead, RecordReads
    <3>2. CASE pc[p] = "end.scan"
      <4>1. rec' = [rec EXCEPT ![p] = NewRecord]
        BY <1>5, <2>2, <3>2 DEF ExecRead, Answer, Hold, Present, RecordReads
      <4>2. rec'[p] # NoRecord  BY <1>2, <4>1, NewRecordFacts DEF Holding
      <4>3. QED  BY <1>2, <3>1, <3>2, <4>2 DEF Mender
    <3>3. CASE pc[p] = "end.find"
      <4>1. rec' = [rec EXCEPT ![p] = record]
        BY <1>5, <3>3 DEF ExecRead, Answer, Hold, RecordReads
      <4>2. LeadsTo(rec'[p], s)  BY <1>2, <2>2, <4>1 DEF Holding, LeadsTo
      <4>3. QED  BY <1>2, <3>1, <3>3, <4>2 DEF Mender, LeadsTo
    <3>4. QED  BY <3>1, <3>2, <3>3
  <2>3. QED  BY <1>2, <1>4, <2>1, <2>2 DEF Mended
<1>6. CASE ExecPut(p)
  <2>1. record' = rec[p] /\ UNCHANGED rec  BY <1>6 DEF ExecPut
  <2>2. ASSUME NEW s, rec[p] # NoRecord, rec[p].link = s, s # None PROVE Mender(p, s)'
    <3>1. pc[p] \in {"start.put", "edit.put", "enter.back", "again.back"}
      BY <1>2, <1>6, <2>2 DEF ExecPut, Held, Carries
    <3>2. QED  BY <1>2, <2>1, <2>2, <3>1 DEF Mender
  <2>3. QED  BY <1>2, <2>1, <2>2 DEF Mended
<1>7. CASE ExecIndex(p)
  <2>1. UNCHANGED <<record, rec>>  BY <1>7 DEF ExecIndex
  <2>2. SUFFICES ASSUME failures = 0, NEW s, s \in index \/ Mender(p, s)
                 PROVE  s \in index' \/ Mender(p, s)'
    BY <1>2, <1>4, <2>1 DEF Mended
  <2>3. CASE /\ pc[p] \in {"start.index", "edit.index", "enter.index", "again.index"}
             /\ index' = index \cup {rec[p].link}
    BY <2>2, <2>3 DEF Mender
  <2>4. CASE pc[p] = "end.backfill" /\ index' = index \cup {subject[p]}
    BY <2>2, <2>4 DEF Mender
  <2>5. CASE /\ pc[p] \in {"start.unindex", "reset.unindex", "remove.unindex"}
             /\ index' = index \ {rec[p].link}
    <3>1. rec[p] # NoRecord  BY <1>2, <2>5 DEF Held, Carries
    <3>2. s \in index  BY <1>2, <2>2, <2>5 DEF Mender
    <3>3. QED  BY <1>2, <2>1, <2>5, <3>1, <3>2 DEF Mender
  <2>6. CASE pc[p] = "end.unindex" /\ index' = index \ {subject[p]}
    <3>1. s \in index  BY <1>2, <2>2, <2>6 DEF Mender
    <3>2. QED  BY <1>2, <2>1, <2>6, <3>1 DEF Mender
  <2>7. QED  BY <1>7, <2>3, <2>4, <2>5, <2>6 DEF ExecIndex
<1>8. CASE ExecClear(p)
  <2>1. pc[p] = "rollback" /\ index' = index \ {p} /\ record' = ClearLink(record, p)
    BY <1>8 DEF ExecClear
  <2>2. record = NoRecord \/ record \in Record  BY <1>2 DEF RecordLeads, Leads
  <2>3. \/ record' = record /\ (record = NoRecord \/ record.link # p)
        \/ record'.link = None
    BY <2>1, <2>2 DEF ClearLink, Record
  <2>4. \A s : ~Mender(p, s)  BY <2>1 DEF Mender
  <2>5. QED  BY <1>2, <1>4, <2>1, <2>3, <2>4 DEF Mended
<1>9. CASE ExecLive(p)
  <2>1. UNCHANGED <<record, index, rec>>  BY <1>9 DEF ExecLive
  <2>2. \A s : ~Mender(p, s)  BY <1>9 DEF ExecLive, Mender
  <2>3. QED  BY <1>2, <1>4, <2>1, <2>2 DEF Mended
<1>10. CASE ExecDel(p)  BY <1>10 DEF ExecDel, Mended
<1>11. QED  BY <1>5, <1>6, <1>7, <1>8, <1>9, <1>10

\* What Exec does to the call whose command is next.
LEMMA ExecNext ==
    ASSUME NEW n \in Nodes, Exec(n)
    PROVE  \E p : /\ Executes(n, p)
                  /\ \/ ExecRead(p) \/ ExecPut(p) \/ ExecIndex(p) \/ ExecClear(p) \/ ExecLive(p)
                     \/ ExecDel(p)
<1> DEFINE p == NextSent(conn[n])
<1>1. /\ Executes(n, p)
      /\ \/ ExecRead(p) \/ ExecPut(p) \/ ExecIndex(p) \/ ExecClear(p) \/ ExecLive(p)
         \/ ExecDel(p)
  BY DEF Exec, Executes
<1> HIDE DEF p
<1>2. QED  BY <1>1

\* Replies that are read leave it open which commands ran.
LEMMA DeliverUnrun == ASSUME IInv, NEW n \in Nodes, Deliver(n) PROVE Unrun' = Unrun
<1>1. Orderly(conn[n]) /\ conn[n].ready = {} /\ conn \in [Nodes -> Conn]
  BY DEF IInv, Lined, Deliver, Free
<1>2. PICK k \in 1..Len(conn[n].back) : conn' = [conn EXCEPT ![n] = Read(conn[n], k)]
  BY DEF Deliver
<1>3. conn'[n] = Read(conn[n], k) /\ \A m \in Nodes : m # n => conn'[m] = conn[m]
  BY <1>1, <1>2
<1>4. Sent(conn'[n]) = Sent(conn[n])  BY <1>1, <1>3, ReadOrderly
<1>5. QED  BY <1>3, <1>4, AtNode DEF Unrun

LEMMA MendedInductive == IInv /\ Mended /\ [Next]_vars => Mended'
<1> SUFFICES ASSUME IInv, Mended, [Next]_vars PROVE Mended'  OBVIOUS
<1>1. ASSUME UNCHANGED <<failures, record, index, pc, rec, subject>>, Unrun' = Unrun PROVE Mended'
  BY <1>1 DEF Mended, Mender, LeadsTo
<1>2. ASSUME NEW p \in Calls, Start(p) \/ Resume(p) PROVE Mended'  BY <1>2, CallMended
<1>3. ASSUME NEW n \in Nodes, Exec(n) PROVE Mended'  BY <1>3, ExecNext, ExecMended
<1>4. ASSUME NEW n \in Nodes, Deliver(n) PROVE Mended'
  BY <1>1, <1>4, DeliverUnrun DEF Deliver, valkey
<1>5. ASSUME NEW n \in Nodes, Reject(n) PROVE Mended'
  <2>1. failures' = failures + 1 /\ failures \in Nat  BY <1>5 DEF Reject, IInv, CallsTyped
  <2>2. QED  BY <2>1 DEF Mended
<1>6. ASSUME UNCHANGED <<failures, record, index, pc, rec, subject, conn>> PROVE Mended'
  BY <1>1, <1>6 DEF Unrun
<1>7. ASSUME NEW j \in Joins, Close(j) PROVE Mended'  BY <1>6, <1>7 DEF Close, valkey
<1>8. ASSUME NEW s \in Sessions, Lapse(s) PROVE Mended'  BY <1>6, <1>8 DEF Lapse
<1>9. CASE UNCHANGED vars  BY <1>6, <1>9 DEF vars, valkey
<1>10. QED  BY <1>2, <1>3, <1>4, <1>5, <1>7, <1>8, <1>9 DEF Next

\* When all calls are done and no command was lost, the session the link leads to is in
\* the reverse index, whatever starts, resets, ends, visits and edits raced on the record and on
\* its entries (persistentSessions.ts 535-540, 716-720, 838-844).
THEOREM IndexComplete == Spec => []IndexedWhenCalm
<1>1. Init => Mended  BY DEF Init, Mended, NewRecord
<1>2. Mended => IndexedWhenCalm
  <2> SUFFICES ASSUME Mended, Calm, failures = 0, record # NoRecord, record.link # None
               PROVE  record.link \in index
    BY DEF IndexedWhenCalm
  <2>1. \A p \in Calls : ~Mender(p, record.link)  BY DEF Calm, Mender
  <2>2. QED  BY <2>1 DEF Mended
<1>3. QED  BY <1>1, <1>2, InitInv, Inductive, MendedInductive, PTL DEF Spec

-----------------------------------------------------------------------------
(* The waiting rooms                                                       *)

\* The reply of p is on its way, or read.
Answered(p) == p \in Back(conn[At[p]]) \cup conn[At[p]].ready

\* On connection c the reply of p is read before that of j, or together with it.
Precedes(c, p, j) ==
    \/ p \in c.ready
    \/ /\ p \in Back(c) /\ j \notin c.ready
       /\ j \in Back(c) => \E a, b \in 1..Len(c.back) : a < b /\ c.back[a] = p /\ c.back[b] = j

\* No command was lost, no cleanup timer ran; no start fails then.
Peaceful == failures = 0 /\ Unswept
Smooth   == broken = {} /\ \A p \in Calls : pc[p] \notin {"rollback", "verify.drop"}

\* A connected socket was told nothing and will not ask again.
Hopes(j) == pc[j] = "done" /\ j \in open /\ told[j] = {}

\* p read no record and is about to empty the room for a new one; a join knows the record;
\* a join read the record before it was started, and is about to wait.
Blank(p)    == /\ pc[p] \in {"join.get", "enter.get", "enter.again", "edit.get"}
               /\ Answered(p) /\ rec[p] = NoRecord
Informed(j) == Answered(j) /\ (pc[j] = "join.put" \/ (pc[j] = "join.get" /\ rec[j] # NoRecord))
Stale(j)    == pc[j] = "join.started" /\ Answered(j) /\ ~Started(rec[j])

\* Who hopes waits; before there is a record nobody does, or is about to.
Rooms == \A j \in Joins : Hopes(j) => j \in waiting[At[j]]
Early == record = NoRecord =>
             \A j \in Joins : ~Hopes(j) /\ ~Informed(j) /\ pc[j] # "join.started"

\* A room is emptied before anybody waits in it.
Empties(p, j) ==
    Blank(p) /\ At[p] = At[j] =>
        /\ ~Hopes(j) /\ (Informed(j) => Precedes(conn[At[j]], p, j))
        /\ pc[j] = "join.started" => p \in conn[At[j]].ready /\ j \notin conn[At[j]].ready

\* Who is about to wait does so before the start that wrote the record hands the room over.
HandsOver(s, j) ==
    writer = s /\ At[s] = At[j] =>
        /\ pc[s] = "done" => ~Stale(j) /\ ~Hopes(j)
        /\ pc[s] = "start.put" /\ Stale(j) => Precedes(conn[At[j]], j, s)
        /\ pc[s] = "start.index" /\ Stale(j) =>
               j \in conn[At[j]].ready /\ s \notin conn[At[j]].ready

Order == /\ Smooth /\ Rooms /\ Early
         /\ \A p \in Calls, j \in Joins : Empties(p, j)
         /\ \A s \in Sessions, j \in Joins : HandsOver(s, j)
Ordered == Peaceful => Order

\* A link is in the record because of its start, or was written back.
Written == record # NoRecord /\ record.link # None => writer \in WritesBack \cup {record.link}

LEMMA PrecedesRan ==
    ASSUME NEW c, Orderly(c), c.sent # <<>>, NEW x, NEW y
    PROVE  /\ Precedes(c, x, y) /\ y # NextSent(c) => Precedes(Ran(c), x, y)
           /\ x \in Back(c) \cup c.ready => Precedes(Ran(c), x, NextSent(c))
<1> DEFINE q == Head(c.sent)
           t == Append(c.back, q)
           d == Ran(c)
           n == Len(c.back)
<1>1. c \in Conn /\ NextSent(c) = q /\ q \in Calls /\ q \notin Back(c) \cup c.ready
  BY RanOrderly DEF Orderly, NextSent
<1>2. /\ t \in Seq(Calls) /\ Len(t) = n + 1 /\ n \in Nat /\ t[n + 1] = q
      /\ \A i \in 1..n : t[i] = c.back[i]
  BY <1>1, AppendProperties, LenProperties DEF Conn
<1>3. d.back = t /\ d.ready = c.ready /\ Back(d) = Back(c) \cup {q}
  <2>1. d.back = t /\ d.ready = c.ready  BY <1>1 DEF Ran, Conn
  <2>2. QED  BY <2>1, RanOrderly, <1>1
<1> HIDE DEF t, q, d
<1>4. ASSUME Precedes(c, x, y), y # q, x \notin c.ready PROVE Precedes(d, x, y)
  <2>1. x \in Back(d) /\ y \notin d.ready  BY <1>3, <1>4 DEF Precedes
  <2>2. ASSUME y \in Back(d)
        PROVE  \E a, b \in 1..Len(d.back) : a < b /\ d.back[a] = x /\ d.back[b] = y
    <3>1. PICK a, b \in 1..n : a < b /\ c.back[a] = x /\ c.back[b] = y
      BY <1>3, <1>4, <2>2 DEF Precedes
    <3>2. a \in 1..Len(t) /\ b \in 1..Len(t) /\ t[a] = x /\ t[b] = y  BY <1>2, <3>1
    <3>3. QED  BY <1>3, <3>1, <3>2
  <2>3. QED  BY <2>1, <2>2 DEF Precedes
<1>5. ASSUME x \in Back(c), x \notin c.ready PROVE Precedes(d, x, q)
  <2>1. PICK a \in 1..n : c.back[a] = x  BY <1>5 DEF Back
  <2>2. a \in 1..Len(t) /\ n + 1 \in 1..Len(t) /\ a < n + 1 /\ t[a] = x /\ t[n + 1] = q
    BY <1>2, <2>1
  <2>3. QED  BY <1>1, <1>3, <1>5, <2>2 DEF Precedes
<1>6. x \in c.ready => Precedes(d, x, y) /\ Precedes(d, x, q)  BY <1>3 DEF Precedes
<1>7. QED  BY <1>1, <1>4, <1>5, <1>6 DEF d

LEMMA PrecedesRead ==
    ASSUME NEW c, Orderly(c), c.ready = {}, NEW k \in 1..Len(c.back), NEW x, NEW y,
           Precedes(c, x, y)
    PROVE  Precedes(Read(c, k), x, y)
<1> DEFINE d == Read(c, k)
           n == Len(c.back)
<1>1. /\ n \in Nat /\ k \in Nat /\ 1 <= k /\ k <= n /\ Len(d.back) = n - k
      /\ \A i \in 1..(n - k) : d.back[i] = c.back[k + i]
      /\ d.ready = {c.back[j] : j \in 1..k}
  BY ReadParts
<1> HIDE DEF d
<1>2. PICK a \in 1..n : c.back[a] = x  BY DEF Precedes, Back
<1>3. CASE a <= k
  <2>1. x \in d.ready  BY <1>1, <1>2, <1>3
  <2>2. QED  BY <2>1 DEF Precedes, d
<1>4. CASE a > k
  <2>1. \A b \in 1..n : c.back[b] = y => a < b
    <3> SUFFICES ASSUME NEW b \in 1..n, c.back[b] = y PROVE a < b  OBVIOUS
    <3>1. y \in Back(c)  BY DEF Back
    <3>2. PICK u, v \in 1..n : u < v /\ c.back[u] = x /\ c.back[v] = y  BY <3>1 DEF Precedes
    <3>3. u = a /\ v = b  BY <1>2, <3>2 DEF Orderly, Once
    <3>4. QED  BY <3>2, <3>3
  <2>2. y \notin d.ready
    <3> SUFFICES ASSUME NEW j \in 1..k, c.back[j] = y PROVE FALSE  BY <1>1
    <3>1. j \in 1..n /\ ~(a < j)  BY <1>1, <1>4
    <3>2. QED  BY <2>1, <3>1
  <2>3. a - k \in 1..Len(d.back) /\ d.back[a - k] = x
    <3>1. a - k \in 1..(n - k) /\ k + (a - k) = a  BY <1>1, <1>4
    <3>2. QED  BY <1>1, <1>2, <3>1
  <2>4. ASSUME NEW i \in 1..Len(d.back), d.back[i] = y PROVE a - k < i
    <3>1. k + i \in 1..n /\ c.back[k + i] = y  BY <1>1, <2>4
    <3>2. a < k + i  BY <2>1, <3>1
    <3>3. QED  BY <1>1, <3>2
  <2>5. QED  BY <2>2, <2>3, <2>4 DEF Precedes, Back, d
<1>5. QED  BY <1>1, <1>3, <1>4

\* A step of p takes its reply from its connection and leaves the others there.
LEMMA CallReplies ==
    ASSUME IInv, NEW p \in Calls, Steps(p), NEW c, NEW r, Goes(p, c, r), NEW m \in Nodes
    PROVE  /\ conn'[m].back = conn[m].back /\ Back(conn'[m]) = Back(conn[m])
           /\ conn'[m].ready = conn[m].ready \ {p}
<1>1. Lined /\ At[p] \in Nodes /\ conn \in [Nodes -> Conn]  BY AtNode DEF IInv, Lined
<1>2. \/ conn' = [conn EXCEPT ![At[p]] = Submit(Resumed(conn[At[p]], p), p)]
      \/ conn' = [conn EXCEPT ![At[p]] = Resumed(conn[At[p]], p)]
  BY DEF Goes, To, Send, Return
<1>3. CASE m = At[p]
  <2>1. conn[m] \in Conn  BY <1>1
  <2>2. conn'[m] = Submit(Resumed(conn[m], p), p) \/ conn'[m] = Resumed(conn[m], p)
    BY <1>1, <1>2, <1>3
  <2>3. conn'[m].back = conn[m].back /\ conn'[m].ready = conn[m].ready \ {p}
    BY <2>1, <2>2 DEF Submit, Resumed, Conn
  <2>4. QED  BY <2>3 DEF Back
<1>4. CASE m # At[p]
  <2>1. conn'[m] = conn[m]  BY <1>1, <1>2, <1>4
  <2>2. p \notin conn[m].ready  BY <1>1, <1>4 DEF Lined
  <2>3. QED  BY <2>1, <2>2
<1>5. QED  BY <1>3, <1>4

\* The start whose write the record holds will write no more.
LEMMA WriterSpent ==
    ASSUME IInv, Smooth, NEW s \in Sessions, writer = s
    PROVE  s \in Spent /\ record # NoRecord /\ record.link = s /\ s # None
<1>1. s \in Calls /\ s # None  BY ConstantsOK DEF Sessions
<1>2. record # NoRecord /\ record.link = s
  BY <1>1 DEF IInv, Smooth, StartsSurviveRollbacks
<1>3. QED  BY <1>1, <1>2 DEF IInv, RecordLeads, Leads

\* A step of p keeps the order if p waits only when it was stale, nobody else comes to hope
\* or leaves the room hoping, and a start that is done leaves nobody in hope.
LEMMA CallOrdered ==
    ASSUME IInv, Order, NEW p \in Calls, Steps(p), NEW c, NEW r, Goes(p, c, r), Smooth',
           c = "join.started" => Informed(p), c = "start.put" => p \notin Spent,
           c = "done" /\ p \in Joins => p \notin open' \/ (Stale(p) /\ p \in waiting'[At[p]]),
           \A j \in Joins \ {p} : Hopes(j)' => Hopes(j) /\ j \in waiting'[At[j]],
           c = "done" /\ p \in Sessions /\ writer = p =>
               /\ pc[p] = "start.index"
               /\ \A j \in Joins : At[j] = At[p] => ~Hopes(j)'
    PROVE  Order'
<1>1. /\ Lined /\ CallsTyped /\ Holding /\ UNCHANGED <<record, writer, scene, failures>>
      /\ pc[p] = "idle" \/ p \in conn[At[p]].ready
  BY DEF IInv, Steps, Frame, valkey, links
<1>2. /\ c \in Commands \cup {"done"} /\ c # "idle" /\ (c # "done" => p \in Unrun') /\ Lined'
      /\ pc' = [pc EXCEPT ![p] = c] /\ rec' = [rec EXCEPT ![p] = r]
  <2>1. rec' = [rec EXCEPT ![p] = r]  BY DEF Goes, Hold
  <2>2. QED  BY <1>1, <2>1, CallLined, NoCommand
<1>3. /\ pc'[p] = c /\ \A q \in Calls : q # p => pc'[q] = pc[q] /\ rec'[q] = rec[q]
      /\ Joins' = Joins /\ Sessions' = Sessions /\ Joins \subseteq Calls /\ Sessions \subseteq Calls
  BY <1>1, <1>2 DEF CallsTyped, Holding, Joins, Sessions, Kind
<1>4. \A q \in Calls : /\ conn'[At[q]].back = conn[At[q]].back
                       /\ Back(conn'[At[q]]) = Back(conn[At[q]])
                       /\ conn'[At[q]].ready = conn[At[q]].ready \ {p}
  BY CallReplies, AtNode
<1>5. ~Answered(p)'
  <2>1. CASE c = "done"
    <3>1. p \notin Back(conn'[At[p]])
      BY <1>1, <1>4, NotOnTheWay
    <3>2. QED  BY <1>4, <3>1 DEF Answered
  <2>2. CASE c # "done"
    <3>1. p \in Sent(conn'[At[p]]) /\ Orderly(conn'[At[p]])
      BY <1>2, <2>2, AtNode DEF Unrun, Lined
    <3>2. QED  BY <3>1 DEF Answered, Orderly
  <2>3. QED  BY <2>1, <2>2
<1>6. ~Blank(p)' /\ ~Informed(p)' /\ ~Stale(p)'  BY <1>5 DEF Blank, Informed, Stale
<1>7. \A q \in Calls \ {p} : /\ Blank(q)' <=> Blank(q)
                             /\ Informed(q)' <=> Informed(q)
                             /\ Stale(q)' <=> Stale(q)
  BY <1>3, <1>4 DEF Blank, Informed, Stale, Answered
<1>8. \A x \in Calls \ {p}, y, q \in Calls :
          Precedes(conn[At[q]], x, y) => Precedes(conn'[At[q]], x, y)
  BY <1>4 DEF Precedes
<1>9. p \in Joins /\ Hopes(p)' => Stale(p) /\ p \in waiting'[At[p]]
  BY <1>3 DEF Hopes
<1>10. Rooms'  BY <1>3, <1>9 DEF Rooms
<1>11. Early'
  <2> SUFFICES ASSUME record = NoRecord, NEW j \in Joins
               PROVE  ~Hopes(j)' /\ ~Informed(j)' /\ pc'[j] # "join.started"
    BY <1>1, <1>3 DEF Early
  <2>1. ~Hopes(j) /\ ~Informed(j) /\ pc[j] # "join.started"  BY DEF Order, Early
  <2>2. CASE j = p
    <3>1. ~Stale(p) /\ c # "join.started"  BY <2>1, <2>2 DEF Stale
    <3>2. QED  BY <2>2, <3>1, <1>3, <1>6, <1>9
  <2>3. CASE j # p  BY <2>1, <2>3, <1>3, <1>7
  <2>4. QED  BY <2>2, <2>3
<1>12. ASSUME NEW x \in Calls, NEW j \in Joins PROVE Empties(x, j)'
  <2> SUFFICES ASSUME Blank(x)', At[x] = At[j]
               PROVE  /\ ~Hopes(j)' /\ (Informed(j)' => Precedes(conn'[At[j]], x, j))
                      /\ pc'[j] = "join.started" =>
                             x \in conn'[At[j]].ready /\ j \notin conn'[At[j]].ready
    BY DEF Empties
  <2>1. x # p /\ Blank(x) /\ Empties(x, j) /\ j \in Calls  BY <1>3, <1>6, <1>7 DEF Order
  <2>2. CASE j = p
    <3>1. Stale(p) => p \notin conn[At[p]].ready  BY <2>1, <2>2 DEF Empties, Stale
    <3>2. Stale(p) => FALSE  BY <3>1, <1>1, NoCommand DEF Stale
    <3>3. ASSUME c = "join.started" PROVE x \in conn'[At[p]].ready /\ p \notin conn'[At[p]].ready
      <4>1. Informed(p)  BY <3>3
      <4>2. p \in conn[At[p]].ready  BY <4>1, <1>1 DEF Informed
      <4>3. Precedes(conn[At[p]], x, p)  BY <2>1, <2>2, <4>1 DEF Empties
      <4>4. x \in conn[At[p]].ready  BY <4>2, <4>3 DEF Precedes
      <4>5. QED  BY <4>4, <2>1, <1>4
    <3>4. QED  BY <2>2, <3>2, <3>3, <1>3, <1>6, <1>9
  <2>3. CASE j # p
    <3>1. ~Hopes(j)'  BY <2>1, <2>3 DEF Empties
    <3>2. Informed(j)' => Precedes(conn'[At[j]], x, j)
      BY <2>1, <2>3, <1>7, <1>8 DEF Empties
    <3>3. pc'[j] = "join.started" => x \in conn'[At[j]].ready /\ j \notin conn'[At[j]].ready
      BY <2>1, <2>3, <1>3, <1>4 DEF Empties
    <3>4. QED  BY <3>1, <3>2, <3>3
  <2>4. QED  BY <2>2, <2>3
<1>13. ASSUME NEW s \in Sessions, NEW j \in Joins PROVE HandsOver(s, j)'
  <2> SUFFICES ASSUME writer = s, At[s] = At[j]
               PROVE  /\ pc'[s] = "done" => ~Stale(j)' /\ ~Hopes(j)'
                      /\ pc'[s] = "start.put" /\ Stale(j)' => Precedes(conn'[At[j]], j, s)
                      /\ pc'[s] = "start.index" /\ Stale(j)' =>
                             j \in conn'[At[j]].ready /\ s \notin conn'[At[j]].ready
    BY <1>1 DEF HandsOver
  <2>1. HandsOver(s, j) /\ s \in Calls /\ j \in Calls /\ s # j /\ s \in Spent /\ Smooth
    BY <1>3, WriterSpent DEF Order, Joins, Sessions
  <2>2. CASE j = p
    <3>1. ~Stale(j)' /\ pc'[s] = pc[s]  BY <2>1, <2>2, <1>3, <1>6
    <3>2. pc[s] = "done" => ~Hopes(p)'  BY <2>1, <2>2, <1>9 DEF HandsOver
    <3>3. QED  BY <2>2, <3>1, <3>2
  <2>3. CASE s = p
    <3>1. p \in conn[At[p]].ready
      BY <2>1, <2>3, <1>1, NoCommand DEF Spent
    <3>2. pc[p] \in {"start.put", "start.index", "done"} /\ (Stale(j)' <=> Stale(j))
      BY <2>1, <2>3, <1>7 DEF Spent, Smooth
    <3>3. pc[p] # "done"
      BY <3>1, <1>1, NotOnTheWay, NoCommand
    <3>4. CASE c = "done"
      <4>1. pc[p] = "start.index" /\ ~Hopes(j)'  BY <2>3, <3>4
      <4>2. ~Stale(j)  BY <2>1, <2>3, <3>1, <4>1 DEF HandsOver
      <4>3. QED  BY <2>3, <3>2, <3>4, <4>1, <4>2, <1>3
    <3>5. CASE c = "start.index"
      <4>1. ASSUME Stale(j) PROVE j \in conn'[At[j]].ready /\ s \notin conn'[At[j]].ready
        <5>1. CASE pc[p] = "start.index"  BY <2>1, <2>3, <3>1, <4>1, <5>1 DEF HandsOver
        <5>2. CASE pc[p] = "start.put"
          <6>1. Precedes(conn[At[j]], j, s)  BY <2>1, <2>3, <4>1, <5>2 DEF HandsOver
          <6>2. j \in conn[At[j]].ready  BY <6>1, <2>3, <3>1 DEF Precedes
          <6>3. QED  BY <6>2, <2>1, <2>3, <1>4
        <5>3. QED  BY <3>2, <3>3, <5>1, <5>2
      <4>2. QED  BY <2>3, <3>2, <3>5, <4>1, <1>3
    <3>6. c # "start.put"  BY <2>1, <2>3
    <3>7. QED  BY <2>3, <3>4, <3>5, <3>6, <1>3
  <2>4. CASE j # p /\ s # p
    <3>1. pc'[s] = pc[s] /\ (Stale(j)' <=> Stale(j)) /\ (Hopes(j)' => Hopes(j))
      BY <2>1, <2>4, <1>3, <1>7
    <3>2. Precedes(conn[At[j]], j, s) => Precedes(conn'[At[j]], j, s)  BY <2>1, <2>4, <1>8
    <3>3. QED  BY <2>1, <2>4, <3>1, <3>2, <1>4 DEF HandsOver
  <2>5. QED  BY <2>2, <2>3, <2>4
<1>14. QED  BY <1>3, <1>10, <1>11, <1>12, <1>13 DEF Order

\* Steps that leave the rooms alone.
LEMMA QuietOrdered ==
    ASSUME IInv, Order, NEW p \in Calls, Steps(p), NEW c, To(p, c),
           broken' = broken, c \notin {"rollback", "verify.drop"},
           UNCHANGED <<waiting, told>>, open' \subseteq open \cup {p},
           c = "join.started" => Informed(p), c = "start.put" => p \notin Spent,
           c = "done" => p \notin Joins /\ (p \in Sessions => writer # p)
    PROVE  Order'
<1>1. PICK r : Goes(p, c, r)  BY DEF Steps, Goes
<1>2. CallsTyped /\ pc' = [pc EXCEPT ![p] = c]  BY DEF IInv, To, Send, Return
<1>3. pc'[p] = c /\ \A q \in Calls : q # p => pc'[q] = pc[q]  BY <1>2 DEF CallsTyped
<1>4. Smooth'  BY <1>3 DEF Order, Smooth
<1>5. ASSUME NEW j \in Joins \ {p}, Hopes(j)' PROVE Hopes(j) /\ j \in waiting'[At[j]]
  <2>1. Hopes(j)  BY <1>3, <1>5 DEF Hopes, Joins
  <2>2. QED  BY <2>1 DEF Order, Rooms
<1>6. QED  BY <1>1, <1>4, <1>5, CallOrdered

\* A room is emptied while nobody on the instance hopes.
LEMMA CreateOrdered ==
    ASSUME IInv, Order, NEW p \in Calls, Steps(p), Blank(p), CreateRecord(p, "join.put")
               \/ CreateRecord(p, "enter.put") \/ CreateRecord(p, "enroll.put"),
           broken' = broken
    PROVE  Order'
<1>1. PICK c \in {"join.put", "enter.put", "enroll.put"} : CreateRecord(p, c)  OBVIOUS
<1>2. c \in Commands /\ c \notin {"done", "rollback", "verify.drop", "join.started", "start.put"}
  BY CommandNames, NoCommand
<1>3. Goes(p, c, NewRecord)  BY <1>1, <1>2 DEF CreateRecord, Goes, To
<1>4. CallsTyped /\ SideTyped /\ pc' = [pc EXCEPT ![p] = c]  BY <1>1 DEF IInv, CreateRecord, Send
<1>5. pc'[p] = c /\ \A q \in Calls : q # p => pc'[q] = pc[q]  BY <1>4 DEF CallsTyped
<1>6. Smooth'  BY <1>2, <1>5 DEF Order, Smooth
<1>7. ASSUME NEW j \in Joins \ {p}, Hopes(j)' PROVE Hopes(j) /\ j \in waiting'[At[j]]
  <2>1. j \in Calls /\ Hopes(j)  BY <1>1, <1>5, <1>7 DEF Hopes, CreateRecord, Joins
  <2>2. At[j] # At[p]  BY <2>1 DEF Order, Empties
  <2>3. waiting'[At[j]] = waiting[At[j]]
    BY <1>1, <1>4, <2>1, <2>2, AtNode DEF CreateRecord, SideTyped
  <2>4. QED  BY <2>1, <2>3 DEF Order, Rooms
<1>8. QED  BY <1>2, <1>3, <1>6, <1>7, CallOrdered

LEMMA JoinOrdered ==
    ASSUME IInv, Order, failures = 0, NEW p \in Calls, Join(p), Steps(p)
    PROVE  Order'
<1>1. /\ LeaveStarts /\ broken' = broken /\ p \in conn[At[p]].ready
      /\ pc[p] \in {"join.get", "join.put", "join.started", "join.id"}
  BY DEF Join, JoinLoaded, JoinCreated, JoinChecked, JoinSent, Ok, Fails, Either, LeaveStarts
<1>2. Held(p) /\ Got(p) = rec[p] /\ SideTyped /\ CallsTyped /\ p \notin failed
  BY <1>1, ReadyFacts DEF IInv, Lined
<1>3. Kind(p) = "join" /\ p \in Joins /\ p \notin Sessions /\ Answered(p)
  BY <1>1, <1>2 DEF Held, Fits, Joins, Sessions, Answered
<1>4. CASE JoinLoaded(p)
  <2>1. pc[p] = "join.get"  BY <1>4 DEF JoinLoaded, Either
  <2>2. CASE Got(p) = NoRecord /\ CreateRecord(p, "join.put")
    <3>1. Blank(p)  BY <1>2, <1>3, <2>1, <2>2 DEF Blank
    <3>2. QED  BY <1>1, <2>2, <3>1, CreateOrdered
  <2>3. CASE Got(p) # NoRecord /\ Send(p, "join.started") /\ LeaveRoom
    <3>1. Informed(p)  BY <1>2, <1>3, <2>1, <2>3 DEF Informed
    <3>2. To(p, "join.started")  BY <2>3, CommandNames DEF To
    <3>3. QED  BY <1>1, <2>3, <3>1, <3>2, QuietOrdered DEF LeaveRoom
  <2>4. QED  BY <1>4, <2>2, <2>3 DEF JoinLoaded
<1>5. CASE JoinCreated(p)
  <2>1. Send(p, "join.started") /\ LeaveRoom /\ pc[p] = "join.put"
    BY <1>2, <1>5 DEF JoinCreated, Ok, Fails, Either
  <2>2. Informed(p) /\ To(p, "join.started")  BY <1>3, <2>1, CommandNames DEF Informed, To
  <2>3. QED  BY <1>1, <2>1, <2>2, QuietOrdered DEF LeaveRoom
<1>6. CASE JoinChecked(p)
  <2>1. CASE Send(p, "join.id") /\ LeaveRoom
    <3>1. To(p, "join.id") /\ "join.id" # "done"  BY <2>1, CommandNames DEF To
    <3>2. QED  BY <1>1, <2>1, <3>1, QuietOrdered DEF LeaveRoom
  <2>2. CASE /\ ~Started(Got(p)) /\ waiting' = [waiting EXCEPT ![At[p]] = @ \cup {p}]
             /\ Return(p) /\ UNCHANGED <<open, told>>
    <3>1. Stale(p)  BY <1>2, <1>3, <1>6, <2>2 DEF JoinChecked, Either, Stale
    <3>2. PICK r : Goes(p, "done", r)  BY <2>2 DEF Steps, Goes, To
    <3>3. pc'[p] = "done" /\ \A q \in Calls : q # p => pc'[q] = pc[q]
      BY <1>2, <2>2 DEF Return, CallsTyped
    <3>4. Smooth'  BY <1>1, <3>3 DEF Order, Smooth
    <3>5. p \in waiting'[At[p]] /\ \A n \in Nodes : waiting[n] \subseteq waiting'[n]
      BY <1>2, <2>2, AtNode DEF SideTyped
    <3>6. ASSUME NEW j \in Joins \ {p}, Hopes(j)' PROVE Hopes(j) /\ j \in waiting'[At[j]]
      <4>1. j \in Calls /\ Hopes(j)  BY <2>2, <3>3, <3>6 DEF Hopes, Joins
      <4>2. QED  BY <3>5, <4>1, AtNode DEF Order, Rooms
    <3>7. QED  BY <1>3, <3>1, <3>2, <3>4, <3>5, <3>6, CallOrdered
  <2>3. QED  BY <1>6, <2>1, <2>2 DEF JoinChecked
<1>7. CASE JoinSent(p)
  <2>1. PICK r : Goes(p, "done", r)  BY <1>7 DEF Steps, Goes, To, JoinSent
  <2>2. pc'[p] = "done" /\ \A q \in Calls : q # p => pc'[q] = pc[q]
    BY <1>2, <1>7 DEF JoinSent, Return, CallsTyped
  <2>3. Smooth'  BY <1>1, <2>2 DEF Order, Smooth
  <2>4. p \notin open' /\ UNCHANGED waiting  BY <1>7 DEF JoinSent
  <2>5. ASSUME NEW j \in Joins \ {p}, Hopes(j)' PROVE Hopes(j) /\ j \in waiting'[At[j]]
    <3>1. j \in Calls /\ told'[j] = told[j] /\ (j \in open' => j \in open)
      BY <1>2, <1>7, <2>5 DEF JoinSent, Tell, Joins, SideTyped
    <3>2. Hopes(j)  BY <2>2, <2>5, <3>1 DEF Hopes
    <3>3. QED  BY <2>4, <3>2 DEF Order, Rooms
  <2>6. QED  BY <1>3, <2>1, <2>3, <2>4, <2>5, CallOrdered
<1>8. QED  BY <1>4, <1>5, <1>6, <1>7 DEF Join

\* A start that is done hands the room over, or has not written the record.
LEMMA AdmitOrdered ==
    ASSUME IInv, Order, NEW p \in Calls, Steps(p), Kind(p) = "verify", NEW js, Admit(p, js),
           writer = p => pc[p] = "start.index" /\ js = waiting[At[p]]
    PROVE  Order'
<1>1. SideTyped /\ CallsTyped /\ p \notin Joins  BY DEF IInv, Joins
<1>2. PICK r : Goes(p, "done", r)  BY DEF Steps, Goes, To, Admit
<1>3. pc'[p] = "done" /\ \A q \in Calls : q # p => pc'[q] = pc[q]
  BY <1>1 DEF Admit, Return, CallsTyped
<1>4. Smooth'  BY <1>3 DEF Order, Smooth, Admit
<1>5. ASSUME NEW j \in Joins \ {p}, Hopes(j)'
      PROVE  /\ Hopes(j) /\ j \in waiting'[At[j]]
             /\ writer = p => At[j] # At[p]
  <2>1. j \in Calls /\ j \in open /\ pc[j] = "done"
    BY <1>3, <1>5 DEF Hopes, Joins, Admit
  <2>2. told'[j] = IF j \in (js \cup {Socket[p]}) \cap open THEN told[j] \cup {p} ELSE told[j]
    BY <2>1 DEF Admit, Tell
  <2>3. told'[j] = {}  BY <1>5 DEF Hopes
  <2>4. j \notin js /\ j # Socket[p] /\ told[j] = {}  BY <2>1, <2>2, <2>3
  <2>5. Hopes(j) /\ j \in waiting[At[j]]  BY <2>1, <2>4 DEF Hopes, Order, Rooms
  <2>6. waiting' = [waiting EXCEPT ![At[p]] = waiting[At[p]] \ {Socket[p]}]  BY DEF Admit
  <2>7. j \in waiting'[At[j]]  BY <1>1, <2>1, <2>4, <2>5, <2>6, AtNode DEF SideTyped
  <2>8. writer = p => At[j] # At[p]  BY <2>4, <2>5
  <2>9. QED  BY <2>5, <2>7, <2>8
<1>6. p \in Sessions /\ writer = p =>
          pc[p] = "start.index" /\ \A j \in Joins : At[j] = At[p] => ~Hopes(j)'
  BY <1>1, <1>5
<1>7. QED  BY <1>1, <1>2, <1>4, <1>5, <1>6, CallOrdered

LEMMA VerifyOrdered ==
    ASSUME IInv, Order, failures = 0, NEW p \in Calls, StartClass(p), Steps(p)
    PROVE  Order'
<1>1. /\ p \in conn[At[p]].ready
      /\ pc[p] \in {"verify.get", "verify.create", "start.get", "start.unindex", "start.put",
                    "start.index", "rollback", "verify.drop"}
  BY DEF StartClass, CodeChecked, SessionCreated, StartLoaded, StartUnindexed, StartPut,
         StartIndexed, Rollback, SessionDropped, Ok, Fails, Either
<1>2. Held(p) /\ Got(p) = rec[p] /\ p \notin failed  BY <1>1, ReadyFacts DEF IInv, Lined
<1>3. Kind(p) = "verify" /\ p \in Sessions /\ p \notin Joins
  BY <1>1, <1>2 DEF Held, Fits, Joins, Sessions
<1>4. pc[p] \notin {"rollback", "verify.drop"}  BY DEF Order, Smooth
<1>5. pc[p] \in {"verify.get", "verify.create", "start.get", "start.unindex"} =>
          p \notin Spent /\ writer # p
  BY <1>3, WriterSpent DEF Order, Spent
<1>6. ASSUME NEW c \in {"verify.create", "start.get", "start.unindex", "start.index"}, Send(p, c),
             LeaveRoom, broken' = broken
      PROVE  Order'
  <2>1. c \in Commands  BY CommandNames
  <2>2. To(p, c)  BY <1>6, <2>1 DEF To
  <2>3. c \notin {"done", "rollback", "verify.drop", "join.started", "start.put"}  OBVIOUS
  <2>4. QED  BY <1>6, <2>2, <2>3, QuietOrdered DEF LeaveRoom
<1>7. ASSUME Send(p, "start.put"), LeaveRoom, broken' = broken,
             pc[p] \in {"start.get", "start.unindex"}
      PROVE  Order'
  <2>1. To(p, "start.put") /\ p \notin Spent  BY <1>5, <1>7, CommandNames DEF To
  <2>2. QED  BY <1>7, <2>1, QuietOrdered DEF LeaveRoom
<1>8. CASE CodeChecked(p)
  <2>1. pc[p] = "verify.get" /\ LeaveRoom /\ broken' = broken
    BY <1>8 DEF CodeChecked, Either, LeaveStarts
  <2>2. CASE Return(p)
    <3>1. To(p, "done") /\ writer # p  BY <1>5, <2>1, <2>2 DEF To
    <3>2. QED  BY <1>3, <2>1, <3>1, QuietOrdered DEF LeaveRoom
  <2>3. QED  BY <1>6, <1>8, <2>1, <2>2 DEF CodeChecked
<1>9. CASE SessionCreated(p)
  BY <1>2, <1>6, <1>9 DEF SessionCreated, Fails
<1>10. CASE StartLoaded(p)
  <2>1. pc[p] = "start.get"  BY <1>10 DEF StartLoaded, Either
  <2>2. CASE Admit(p, {})  BY <1>3, <1>5, <2>1, <2>2, AdmitOrdered
  <2>3. QED  BY <1>6, <1>7, <1>10, <2>1, <2>2 DEF StartLoaded
<1>11. CASE StartUnindexed(p)
  BY <1>7, <1>11 DEF StartUnindexed, Either, LeaveStarts
<1>12. CASE StartPut(p)
  BY <1>2, <1>6, <1>12 DEF StartPut, Fails, LeaveStarts
<1>13. CASE StartIndexed(p)
  <2>1. Admit(p, waiting[At[p]]) /\ pc[p] = "start.index"
    BY <1>2, <1>13 DEF StartIndexed, Ok, Fails, Either
  <2>2. QED  BY <1>3, <2>1, AdmitOrdered
<1>14. ~Rollback(p) /\ ~SessionDropped(p)  BY <1>4 DEF Rollback, SessionDropped, Ok, Fails, Either
<1>15. QED  BY <1>8, <1>9, <1>10, <1>11, <1>12, <1>13, <1>14 DEF StartClass

\* Calls that are neither joins nor starts only empty rooms.
LEMMA OtherOrdered ==
    ASSUME IInv, IInv', Order, NEW p \in Calls, Steps(p), LeaveRoom, broken' = broken,
           p \notin Joins, p \notin Sessions
    PROVE  Order'
<1>1. PICK c, r : Goes(p, c, r)  BY DEF Steps
<1>2. CallsTyped /\ To(p, c) /\ pc'[p] = c
  <2>1. pc' = [pc EXCEPT ![p] = c]  BY <1>1 DEF Goes, To, Send, Return
  <2>2. QED  BY <1>1, <2>1 DEF IInv, CallsTyped, Goes
<1>3. scene' = scene  BY DEF Steps, Frame
<1>4. Fits(pc'[p], Kind(p))  BY <1>3 DEF IInv, Holding, Held, Kind
<1>5. c \notin {"join.started", "start.put", "rollback", "verify.drop"}
  BY <1>2, <1>4 DEF Fits, Joins, Sessions
<1>6. QED  BY <1>2, <1>5, QuietOrdered DEF LeaveRoom

LEMMA CallRooms == ASSUME IInv, Ordered, NEW p \in Calls, Start(p) \/ Resume(p) PROVE Ordered'
<1>1. Steps(p) /\ IInv'  BY CallSteps, StartInv, ResumeInv
<1>2. SUFFICES ASSUME Peaceful' PROVE Order'  BY DEF Ordered
<1>3. PICK c, r : Goes(p, c, r)  BY <1>1 DEF Steps
<1>4. /\ CallsTyped /\ scene' = scene /\ failures' = failures /\ c # "idle"
      /\ pc' = [pc EXCEPT ![p] = c]
  BY <1>1, <1>3, NoCommand DEF IInv, Steps, Frame, Goes, To, Send, Return
<1>5. pc'[p] = c /\ \A q \in Calls : q # p => pc'[q] = pc[q]  BY <1>4 DEF CallsTyped
<1>6. Peaceful /\ Kind(p) \notin {"sweep", "remove"}
  BY <1>2, <1>4, <1>5 DEF Peaceful, Unswept, Kind
<1>7. Order /\ failures = 0  BY <1>6 DEF Ordered, Peaceful
<1>8. CASE Start(p)
  <2>1. /\ pc[p] = "idle" /\ broken' = broken /\ UNCHANGED <<waiting, told>>
        /\ open' \subseteq open \cup {p}
    BY <1>8 DEF Start, Connect, Verify, End, Redeem, Request, Begin, LeaveRoom, LeaveStarts
  <2>2. PICK d \in {"join.get", "verify.get", "end.index", "edit.get", "enter.get", "sweep.scan",
                    "remove.get"} :
           Send(p, d)
    BY <1>8 DEF Start, Connect, Verify, End, Redeem, Request
  <2>3. d \in Commands /\ d \notin {"done", "rollback", "verify.drop", "join.started", "start.put"}
    BY CommandNames
  <2>4. To(p, d)  BY <2>2, <2>3 DEF To
  <2>5. QED  BY <1>1, <1>7, <2>1, <2>3, <2>4, QuietOrdered
<1>9. CASE Resume(p)
  <2>1. CASE Join(p)  BY <1>1, <1>7, <2>1, JoinOrdered
  <2>2. CASE StartClass(p)  BY <1>1, <1>7, <2>2, VerifyOrdered
  <2>3. CASE Leave(p) \/ Edit(p)
    <3>1. /\ p \in conn[At[p]].ready /\ broken' = broken
          /\ pc[p] \in {"end.index", "end.record", "end.unindex", "end.scan", "end.find",
                        "end.backfill", "end.drop", "reset.get", "reset.unindex", "reset.put",
                        "enter.get", "enter.again", "enter.put", "enter.live", "enter.back",
                        "enter.index", "again.back", "again.index",
                        "edit.get", "edit.put", "edit.index", "enroll.put"}
      BY <2>3 DEF Leave, EndLookedUp, Reset, Enter, EnterLoaded, EnterWritten, EnterLooked, Edit,
                  EditLoaded, EnrollCreated, EditPut, Ok, Fails, Either, LeaveStarts
    <3>2. Held(p) /\ Got(p) = rec[p] /\ Answered(p)
      BY <1>7, <3>1, ReadyFacts DEF Answered
    <3>3. p \notin Joins /\ p \notin Sessions  BY <3>1, <3>2 DEF Held, Fits, Joins, Sessions
    <3>4. CASE LeaveRoom  BY <1>1, <1>7, <3>1, <3>3, <3>4, OtherOrdered
    <3>5. CASE \/ EnterLoaded(p) /\ CreateRecord(p, "enter.put")
               \/ EditLoaded(p) /\ CreateRecord(p, "enroll.put")
      <4>1. CASE Blank(p)  BY <1>1, <1>7, <3>1, <3>5, <4>1, CreateOrdered
      <4>2. CASE ~Blank(p)
        BY <3>2, <3>4, <3>5, <4>2 DEF EnterLoaded, EditLoaded, Either, Blank
      <4>3. QED  BY <4>1, <4>2
    <3>6. QED
      BY <2>3, <3>4, <3>5 DEF Leave, Enter, EnterLoaded, EnterWritten, EnterLooked, Edit,
                              EditLoaded, EnrollCreated, EditPut
  <2>4. CASE Sweep(p)
    <3>1. /\ p \in conn[At[p]].ready
          /\ pc[p] \in {"sweep.scan", "sweep.get", "sweep.del", "remove.get", "remove.unindex",
                        "remove.del"}
      BY <2>4 DEF Sweep, SweepLoaded, Cleanup, Either
    <3>2. Held(p)  BY <3>1, ReadyFacts
    <3>3. QED  BY <1>6, <3>1, <3>2 DEF Held, Fits
  <2>5. QED  BY <1>9, <2>1, <2>2, <2>3, <2>4 DEF Resume
<1>10. QED  BY <1>8, <1>9

\* What a command's execution does to the replies: the one of p is on its way.
LEMMA ExecReplies ==
    ASSUME IInv, NEW n \in Nodes, NEW p, Executes(n, p)
    PROVE  /\ p \in Calls /\ At[p] = n /\ ~Answered(p) /\ Orderly(conn[n]) /\ conn[n].sent # <<>>
           /\ p = NextSent(conn[n]) /\ conn'[n] = Ran(conn[n])
           /\ \A m \in Nodes : m # n => conn'[m] = conn[m]
           /\ \A q \in Calls : /\ conn'[At[q]].ready = conn[At[q]].ready
                               /\ Answered(q)' <=> Answered(q) \/ q = p
<1>1. Lined /\ conn \in [Nodes -> Conn] /\ Orderly(conn[n])  BY DEF IInv, Lined
<1>2. /\ conn[n].sent # <<>> /\ p = NextSent(conn[n]) /\ conn'[n] = Ran(conn[n])
      /\ \A m \in Nodes : m # n => conn'[m] = conn[m]
  BY <1>1 DEF Executes
<1>3. /\ p \in Calls /\ p \in Sent(conn[n])
      /\ Back(conn'[n]) = Back(conn[n]) \cup {p} /\ conn'[n].ready = conn[n].ready
  BY <1>1, <1>2, RanOrderly
<1>4. At[p] = n /\ ~Answered(p)  BY <1>1, <1>3 DEF Lined, Orderly, Answered
<1>5. ASSUME NEW q \in Calls
      PROVE  /\ conn'[At[q]].ready = conn[At[q]].ready
             /\ Answered(q)' <=> Answered(q) \/ q = p
  <2>1. CASE At[q] = n  BY <2>1, <1>3 DEF Answered
  <2>2. CASE At[q] # n
    <3>1. conn'[At[q]] = conn[At[q]] /\ q # p  BY <2>2, <1>2, <1>4, AtNode
    <3>2. QED  BY <3>1 DEF Answered
  <2>3. QED  BY <2>1, <2>2
<1>6. QED  BY <1>1, <1>2, <1>3, <1>4, <1>5

LEMMA ExecOrdered ==
    ASSUME IInv, Ordered, NEW n \in Nodes, NEW p, Executes(n, p),
           \/ ExecRead(p) \/ ExecPut(p) \/ ExecIndex(p) \/ ExecClear(p) \/ ExecLive(p)
           \/ ExecDel(p)
    PROVE  Ordered'
<1>1. SUFFICES ASSUME Peaceful' PROVE Order'  BY DEF Ordered
<1>2. UNCHANGED <<scene, pc, failures, waiting, open, told, broken>>
  BY DEF Executes, LeaveRoom, LeaveStarts
<1>3. /\ p \in Calls /\ At[p] = n /\ ~Answered(p) /\ Orderly(conn[n]) /\ conn[n].sent # <<>>
      /\ p = NextSent(conn[n]) /\ conn'[n] = Ran(conn[n])
      /\ \A m \in Nodes : m # n => conn'[m] = conn[m]
      /\ \A q \in Calls : /\ conn'[At[q]].ready = conn[At[q]].ready
                          /\ Answered(q)' <=> Answered(q) \/ q = p
  BY ExecReplies
<1>4. Order /\ Unswept  BY <1>1, <1>2 DEF Ordered, Peaceful, Unswept, Kind
<1>5. /\ Held(p) /\ Holding /\ (pc[p] = "start.put" => p \notin Spent)
      /\ Joins' = Joins /\ Sessions' = Sessions /\ Joins \subseteq Calls /\ Sessions \subseteq Calls
  BY <1>2, ExecFrame DEF IInv, Joins, Sessions, Kind
<1>6. ~ExecClear(p) /\ ~ExecDel(p)
  <2>1. ~ExecClear(p)  BY <1>3, <1>4 DEF ExecClear, Order, Smooth
  <2>2. ASSUME ExecDel(p) PROVE FALSE
    <3>1. pc[p] \in {"sweep.del", "remove.del"} /\ Kind(p) \in {"sweep", "remove"}
      BY <1>5, <2>2 DEF ExecDel, Held, Fits
    <3>2. QED  BY <1>3, <1>4, <3>1 DEF Unswept
  <2>3. QED  BY <2>1, <2>2
<1>7. /\ \A q \in Calls : q # p => rec'[q] = rec[q]
      /\ \/ ExecPut(p) /\ record' = rec[p] /\ rec[p] # NoRecord /\ writer' = p
         \/ record' = record /\ writer' = writer /\ ~ExecPut(p)
      /\ pc[p] \in RecordReads => rec'[p] = record /\ record' = record /\ writer' = writer
  <2>1. CASE ExecRead(p)
    <3>1. UNCHANGED <<record, writer>> /\ ~ExecPut(p)
      BY <2>1 DEF ExecRead, ExecPut, RecordReads, valkey, links
    <3>2. \E r : rec' = [rec EXCEPT ![p] = r]  BY <2>1 DEF ExecRead, Answer, Hold
    <3>3. pc[p] \in RecordReads => rec' = [rec EXCEPT ![p] = record]
      BY <2>1 DEF ExecRead, RecordReads, Answer, Hold
    <3>4. QED  BY <3>1, <3>2, <3>3, <1>3, <1>5 DEF Holding
  <2>2. CASE ExecPut(p)  BY <2>2, <1>5 DEF ExecPut, Held, Carries, RecordReads
  <2>3. CASE ExecIndex(p) \/ ExecLive(p)
    BY <2>3 DEF ExecIndex, ExecLive, ExecPut, links, RecordReads
  <2>4. QED  BY <2>1, <2>2, <2>3, <1>6
<1>8. \A j \in Joins : Hopes(j)' <=> Hopes(j)  BY <1>2 DEF Hopes
<1>9. Smooth' /\ Rooms'  BY <1>2, <1>4, <1>5, <1>8 DEF Order, Smooth, Rooms
<1>10. \A j \in Joins : j # p => /\ Informed(j)' <=> Informed(j)
                                 /\ Stale(j)' <=> Stale(j)
  BY <1>2, <1>3, <1>5, <1>7 DEF Informed, Stale, Started
<1>11. ASSUME NEW x, NEW j \in Joins, Precedes(conn[At[j]], x, j), j # p
       PROVE  Precedes(conn'[At[j]], x, j)
  <2>1. CASE At[j] = n  BY <1>3, <1>11, <2>1, PrecedesRan
  <2>2. CASE At[j] # n
    <3>1. conn'[At[j]] = conn[At[j]]  BY <1>3, <1>5, <2>2, AtNode
    <3>2. QED  BY <3>1, <1>11
  <2>3. QED  BY <2>1, <2>2
<1>12. record' = NoRecord =>
           /\ record = NoRecord
           /\ \A j \in Joins : ~Hopes(j)' /\ ~Informed(j)' /\ pc[j] # "join.started"
  <2> SUFFICES ASSUME record' = NoRecord, NEW j \in Joins
               PROVE  record = NoRecord /\ ~Hopes(j)' /\ ~Informed(j)' /\ pc[j] # "join.started"
    BY <1>4, <1>7 DEF Order, Early
  <2>1. record = NoRecord /\ ~ExecPut(p)  BY <1>7
  <2>2. ~Hopes(j) /\ ~Informed(j) /\ pc[j] # "join.started"  BY <1>4, <2>1 DEF Order, Early
  <2>3. ASSUME j = p PROVE ~Informed(p)'
    <3>1. pc[p] # "join.put"
      BY <2>1, <1>6 DEF ExecRead, ExecIndex, ExecLive, ExecPut, RecordReads
    <3>2. pc[p] = "join.get" => rec'[p] = NoRecord  BY <1>7, <2>1 DEF RecordReads
    <3>3. QED  BY <3>1, <3>2, <1>2 DEF Informed
  <2>4. QED  BY <2>1, <2>2, <2>3, <1>8, <1>10
<1>13. Early'  BY <1>2, <1>5, <1>12 DEF Early
<1>14. ASSUME NEW x \in Calls, NEW j \in Joins PROVE Empties(x, j)'
  <2> SUFFICES ASSUME Blank(x)', At[x] = At[j]
               PROVE  /\ ~Hopes(j)' /\ (Informed(j)' => Precedes(conn'[At[j]], x, j))
                      /\ pc[j] = "join.started" =>
                             x \in conn'[At[j]].ready /\ j \notin conn'[At[j]].ready
    BY <1>2 DEF Empties
  <2>1. CASE x = p
    <3>1. pc[p] \in RecordReads /\ rec'[p] = NoRecord  BY <1>2, <2>1 DEF Blank, RecordReads
    <3>2. record' = NoRecord  BY <1>7, <3>1
    <3>3. QED  BY <1>12, <3>2
  <2>2. CASE x # p
    <3>1. Blank(x)  BY <1>2, <1>3, <1>7, <2>2 DEF Blank
    <3>2. Empties(x, j)  BY <1>4 DEF Order
    <3>3. CASE j = p
      <4>1. Precedes(conn'[At[j]], x, j)
        BY <1>3, <3>1, <3>3, PrecedesRan DEF Blank, Answered
      <4>2. QED  BY <1>3, <1>8, <3>1, <3>2, <4>1 DEF Empties
    <3>4. CASE j # p
      BY <1>3, <1>5, <1>8, <1>10, <1>11, <3>1, <3>2, <3>4 DEF Empties
    <3>5. QED  BY <3>3, <3>4
  <2>3. QED  BY <2>1, <2>2
<1>15. ASSUME NEW s \in Sessions, NEW j \in Joins PROVE HandsOver(s, j)'
  <2> SUFFICES ASSUME writer' = s, At[s] = At[j]
               PROVE  /\ pc[s] = "done" => ~Stale(j)' /\ ~Hopes(j)'
                      /\ pc[s] = "start.put" /\ Stale(j)' => Precedes(conn'[At[j]], j, s)
                      /\ pc[s] = "start.index" /\ Stale(j)' =>
                             j \in conn'[At[j]].ready /\ s \notin conn'[At[j]].ready
    BY <1>2 DEF HandsOver
  <2>1. CASE ExecPut(p) /\ writer' = p
    <3>1. s = p /\ pc[s] = "start.put"
      BY <1>5, <2>1 DEF ExecPut, Held, Fits, Sessions
    <3>2. ASSUME Stale(j)' PROVE Precedes(conn'[At[j]], j, s)
      <4>1. j # p  BY <1>2, <3>1, <3>2 DEF Stale
      <4>2. Answered(j)  BY <1>10, <3>2, <4>1 DEF Stale
      <4>3. QED  BY <1>3, <3>1, <4>2, PrecedesRan DEF Answered
    <3>3. QED  BY <3>1, <3>2
  <2>2. CASE record' = record /\ writer' = writer
    <3>1. s \in Spent /\ Started(record)  BY <1>4, <2>2, WriterSpent DEF Order, Started
    <3>2. HandsOver(s, j) /\ writer = s  BY <1>4, <2>2 DEF Order
    <3>3. Stale(j)' => Stale(j) /\ j # p
      <4>1. ASSUME j = p, Stale(p)' PROVE FALSE
        <5>1. rec'[p] = record  BY <1>2, <1>7, <4>1 DEF Stale, RecordReads
        <5>2. QED  BY <3>1, <4>1, <5>1 DEF Stale, Started
      <4>2. QED  BY <4>1, <1>10
    <3>4. ASSUME pc[s] = "start.put", Stale(j)' PROVE Precedes(conn'[At[j]], j, s)
      <4>1. s # p /\ Precedes(conn[At[j]], j, s)  BY <1>5, <3>1, <3>2, <3>3, <3>4 DEF HandsOver
      <4>2. CASE At[j] = n  BY <1>3, <4>1, <4>2, PrecedesRan
      <4>3. CASE At[j] # n
        <5>1. conn'[At[j]] = conn[At[j]]  BY <1>3, <1>5, <4>3, AtNode
        <5>2. QED  BY <5>1, <4>1
      <4>4. QED  BY <4>2, <4>3
    <3>5. QED  BY <1>3, <1>5, <1>8, <3>2, <3>3, <3>4 DEF HandsOver
  <2>3. QED  BY <2>1, <2>2, <1>7
<1>16. QED  BY <1>5, <1>9, <1>13, <1>14, <1>15 DEF Order

\* A step that leaves calls and record alone keeps the order if replies keep theirs and
\* nobody comes to hope, or leaves the room hoping.
LEMMA BesidesOrdered ==
    ASSUME Order, UNCHANGED <<scene, record, writer, pc, rec, broken>>,
           \A j \in Joins : Hopes(j)' => Hopes(j) /\ j \in waiting'[At[j]],
           \A q \in Calls : Answered(q)' => Answered(q),
           \A x \in Calls, y \in Calls :
               /\ Precedes(conn[At[y]], x, y) => Precedes(conn'[At[y]], x, y)
               /\ x \in conn[At[y]].ready /\ y \notin conn[At[y]].ready =>
                      x \in conn'[At[y]].ready /\ y \notin conn'[At[y]].ready
    PROVE  Order'
<1>1. /\ Joins' = Joins /\ Sessions' = Sessions /\ Joins \subseteq Calls /\ Sessions \subseteq Calls
  BY DEF Joins, Sessions, Kind
<1>2. Smooth' /\ Rooms'  BY <1>1 DEF Order, Smooth, Rooms
<1>3. /\ \A p \in Calls : Blank(p)' => Blank(p)
      /\ \A j \in Joins : (Informed(j)' => Informed(j)) /\ (Stale(j)' => Stale(j))
  BY <1>1 DEF Blank, Informed, Stale, Started
<1>4. Early'  BY <1>1, <1>3 DEF Order, Early
<1>5. ASSUME NEW p \in Calls, NEW j \in Joins PROVE Empties(p, j)'
  <2>1. Empties(p, j)  BY DEF Order
  <2>2. QED  BY <1>1, <1>3, <2>1 DEF Empties
<1>6. ASSUME NEW s \in Sessions, NEW j \in Joins PROVE HandsOver(s, j)'
  <2>1. HandsOver(s, j) /\ s \in Calls /\ j \in Calls  BY <1>1 DEF Order
  <2>2. QED  BY <1>1, <1>3, <2>1 DEF HandsOver
<1>7. QED  BY <1>1, <1>2, <1>4, <1>5, <1>6 DEF Order

LEMMA DeliverOrdered == ASSUME IInv, Order, NEW n \in Nodes, Deliver(n) PROVE Order'
<1>1. Orderly(conn[n]) /\ conn[n].ready = {} /\ conn \in [Nodes -> Conn]
  BY DEF IInv, Lined, Deliver, Free
<1>2. PICK k \in 1..Len(conn[n].back) : conn' = [conn EXCEPT ![n] = Read(conn[n], k)]
  BY DEF Deliver
<1>3. conn'[n] = Read(conn[n], k) /\ \A m \in Nodes : m # n => conn'[m] = conn[m]
  BY <1>1, <1>2
<1>4. Back(conn'[n]) \cup conn'[n].ready \subseteq Back(conn[n])  BY <1>1, <1>3, ReadOrderly
<1>5. \A q \in Calls : Answered(q)' => Answered(q)  BY <1>3, <1>4, AtNode DEF Answered
<1>6. ASSUME NEW x \in Calls, NEW y \in Calls
      PROVE  /\ Precedes(conn[At[y]], x, y) => Precedes(conn'[At[y]], x, y)
             /\ x \in conn[At[y]].ready /\ y \notin conn[At[y]].ready =>
                    x \in conn'[At[y]].ready /\ y \notin conn'[At[y]].ready
  <2>1. CASE At[y] = n  BY <1>1, <1>3, <2>1, PrecedesRead
  <2>2. CASE At[y] # n
    <3>1. conn'[At[y]] = conn[At[y]]  BY <1>3, <2>2, AtNode
    <3>2. QED  BY <3>1
  <2>3. QED  BY <2>1, <2>2
<1>7. UNCHANGED <<scene, record, writer, pc, rec, broken, waiting, open, told>>
  BY DEF Deliver, LeaveRoom, LeaveStarts, valkey, links
<1>8. \A j \in Joins : Hopes(j)' => Hopes(j) /\ j \in waiting'[At[j]]
  BY <1>7 DEF Order, Rooms, Hopes
<1>9. QED  BY <1>5, <1>6, <1>7, <1>8, BesidesOrdered

LEMMA CloseOrdered == ASSUME IInv, Order, NEW i \in Joins, Close(i) PROVE Order'
<1>1. /\ UNCHANGED <<scene, record, writer, conn, pc, rec, broken, told>> /\ open' = open \ {i}
      /\ waiting' = [waiting EXCEPT ![At[i]] = waiting[At[i]] \ {i}]
  BY DEF Close, LeaveStarts, valkey, links
<1>2. ASSUME NEW j \in Joins, Hopes(j)' PROVE Hopes(j) /\ j \in waiting'[At[j]]
  <2>1. Hopes(j) /\ j # i /\ j \in Calls  BY <1>1, <1>2 DEF Hopes, Joins
  <2>2. j \in waiting[At[j]] /\ waiting \in [Nodes -> SUBSET Joins] /\ At[j] \in Nodes
    BY <2>1, AtNode DEF Order, Rooms, IInv, SideTyped
  <2>3. QED  BY <1>1, <2>1, <2>2
<1>3. QED  BY <1>1, <1>2, BesidesOrdered DEF Answered

LEMMA OrderedInductive == IInv /\ Ordered /\ [Next]_vars => Ordered'
<1> SUFFICES ASSUME IInv, Ordered, [Next]_vars PROVE Ordered'  OBVIOUS
<1>1. ASSUME UNCHANGED <<scene, failures, pc>>, Order => Order' PROVE Ordered'
  BY <1>1 DEF Ordered, Peaceful, Unswept, Kind
<1>2. ASSUME UNCHANGED <<scene, failures, record, writer, pc, rec, broken, waiting, open, told,
                         conn>>
      PROVE  Ordered'
  <2>1. Order => \A j \in Joins : Hopes(j)' => Hopes(j) /\ j \in waiting'[At[j]]
    BY <1>2 DEF Order, Rooms, Hopes
  <2>2. Order => Order'  BY <1>2, <2>1, BesidesOrdered DEF Answered
  <2>3. QED  BY <1>1, <1>2, <2>2
<1>3. ASSUME NEW p \in Calls, Start(p) \/ Resume(p) PROVE Ordered'  BY <1>3, CallRooms
<1>4. ASSUME NEW n \in Nodes, Exec(n) PROVE Ordered'  BY <1>4, ExecNext, ExecOrdered
<1>5. ASSUME NEW n \in Nodes, Deliver(n) PROVE Ordered'
  BY <1>1, <1>5, DeliverOrdered DEF Deliver
<1>6. ASSUME NEW n \in Nodes, Reject(n) PROVE Ordered'
  <2>1. failures' = failures + 1 /\ failures \in Nat  BY <1>6 DEF Reject, IInv, CallsTyped
  <2>2. QED  BY <2>1 DEF Ordered, Peaceful
<1>7. ASSUME NEW j \in Joins, Close(j) PROVE Ordered'  BY <1>1, <1>7, CloseOrdered DEF Close
<1>8. ASSUME NEW s \in Sessions, Lapse(s) PROVE Ordered'
  BY <1>2, <1>8 DEF Lapse, LeaveRoom, LeaveStarts, links
<1>9. CASE UNCHANGED vars  BY <1>2, <1>9 DEF vars, valkey, history, links
<1>10. QED  BY <1>3, <1>4, <1>5, <1>6, <1>7, <1>8, <1>9 DEF Next

LEMMA WrittenInductive == IInv /\ Written /\ [Next]_vars => Written'
<1> SUFFICES ASSUME IInv, Written, [Next]_vars PROVE Written'  OBVIOUS
<1>1. ASSUME UNCHANGED <<scene, record, writer>> PROVE Written'
  BY <1>1 DEF Written, WritesBack, Kind
<1>2. ASSUME NEW p \in Calls, Start(p) \/ Resume(p) PROVE Written'
  BY <1>1, <1>2, CallSteps DEF Steps, Frame, valkey, links
<1>3. ASSUME NEW n \in Nodes, Exec(n) PROVE Written'
  <2>1. PICK p : /\ Executes(n, p)
                 /\ \/ ExecRead(p) \/ ExecPut(p) \/ ExecIndex(p) \/ ExecClear(p) \/ ExecLive(p)
                    \/ ExecDel(p)
    BY <1>3, ExecNext
  <2>2. Held(p) /\ p \in Calls /\ RecordLeads /\ scene' = scene /\ WritesBack' = WritesBack
    BY <2>1, ExecFacts DEF Executes
  <2>3. CASE ExecRead(p) \/ ExecIndex(p) \/ ExecLive(p)
    BY <1>1, <2>2, <2>3 DEF ExecRead, ExecIndex, ExecLive, valkey, links
  <2>4. CASE ExecPut(p)
    <3>1. record' = rec[p] /\ writer' = p  BY <2>4 DEF ExecPut
    <3>2. CASE pc[p] \in {"edit.put", "enter.back", "again.back"}
      <4>1. p \in WritesBack  BY <2>2, <3>2 DEF Held, Fits, WritesBack
      <4>2. QED  BY <2>2, <3>1, <4>1 DEF Written
    <3>3. CASE pc[p] \notin {"edit.put", "enter.back", "again.back"}
      <4>1. rec[p].link \in {p, None}  BY <2>2, <2>4, <3>3 DEF ExecPut, Held, Carries
      <4>2. QED  BY <3>1, <4>1 DEF Written
    <3>4. QED  BY <3>2, <3>3
  <2>5. CASE ExecClear(p)
    <3>1. record' = ClearLink(record, p) /\ writer' = writer  BY <2>5 DEF ExecClear, links
    <3>2. record = NoRecord \/ record \in Record  BY <2>2 DEF RecordLeads, Leads
    <3>3. record' = record \/ record'.link = None  BY <3>1, <3>2 DEF ClearLink, Record
    <3>4. QED  BY <2>2, <3>1, <3>3 DEF Written
  <2>6. CASE ExecDel(p)  BY <2>6 DEF ExecDel, Written
  <2>7. QED  BY <2>1, <2>3, <2>4, <2>5, <2>6
<1>4. ASSUME NEW n \in Nodes, Deliver(n) \/ Reject(n) PROVE Written'
  BY <1>1, <1>4 DEF Deliver, Reject, valkey, links
<1>5. ASSUME NEW j \in Joins, Close(j) PROVE Written'  BY <1>1, <1>5 DEF Close, valkey, links
<1>6. ASSUME NEW s \in Sessions, Lapse(s) PROVE Written'  BY <1>1, <1>6 DEF Lapse, links
<1>7. CASE UNCHANGED vars  BY <1>1, <1>7 DEF vars, valkey, history, links
<1>8. QED  BY <1>2, <1>3, <1>4, <1>5, <1>6, <1>7 DEF Next

\* Who waits when the program starts waits in the room of a record.
LEMMA InitOrdered == ASSUME Init PROVE Ordered /\ Written
<1>1. /\ conn = [n \in Nodes |-> Quiet] /\ broken = {} /\ writer = None
      /\ open = scene.here /\ waiting = [n \in Nodes |-> {j \in scene.here : At[j] = n}]
      /\ \A p \in Calls : pc[p] = IF p \in scene.here THEN "done" ELSE "idle"
      /\ record \in {NoRecord, NewRecord} /\ (record = NoRecord => scene.here = {})
      /\ None \notin Calls
  BY NewRecordFacts, ConstantsOK DEF Init
<1>2. \A q \in Calls : ~Answered(q)  BY <1>1, AtNode, QuietOrderly DEF Answered
<1>3. Smooth  BY <1>1 DEF Smooth
<1>4. Rooms  BY <1>1, AtNode DEF Rooms, Hopes, Joins
<1>5. Early  BY <1>1, <1>2 DEF Early, Hopes, Informed, Joins
<1>6. \A p \in Calls, j \in Joins : Empties(p, j)  BY <1>2 DEF Empties, Blank
<1>7. \A s \in Sessions, j \in Joins : HandsOver(s, j)  BY <1>1 DEF HandsOver, Sessions
<1>8. Written  BY <1>1 DEF Written, NewRecord
<1>9. QED  BY <1>3, <1>4, <1>5, <1>6, <1>7, <1>8 DEF Ordered, Order

\* When all calls are done, no command was lost, no cleanup timer ran and the link was not
\* removed, and it leads to a class that no edit, entry or visit wrote back, every connected
\* student on the instance that started it was sent to a session, whatever joins, starts,
\* visits, ends and edits raced (persistentSessionWs.ts 128-147 and 353-363).
THEOREM WaitersAreSent == Spec => []NobodyWaitsInVain
<1>1. IInv /\ Ordered /\ Written => NobodyWaitsInVain
  <2> SUFFICES ASSUME IInv, Ordered, Written, Calm, failures = 0, Unswept, record # NoRecord,
                      record.link # None, writer \notin WritesBack,
                      NEW j \in open, pc[j] = "done", At[j] = At[record.link]
               PROVE  told[j] # {}
    BY DEF NobodyWaitsInVain, WaitersTaken
  <2> DEFINE s == record.link
  <2>1. Order /\ writer = s  BY DEF Ordered, Peaceful, Written
  <2>2. s \in Sessions /\ s \in Spent /\ j \in Joins
    BY DEF IInv, RecordLeads, Leads, Spent, SideTyped
  <2>3. pc[s] = "done"
    <3>1. s \in Calls  BY <2>2 DEF Sessions
    <3>2. pc[s] \in {"idle", "done"} /\ pc[s] # "idle"  BY <2>2, <3>1 DEF Calm, Spent
    <3>3. QED  BY <3>2
  <2>4. HandsOver(s, j)  BY <2>1, <2>2 DEF Order
  <2>5. QED  BY <2>1, <2>3, <2>4 DEF HandsOver, Hopes
<1>2. QED
  BY <1>1, InitInv, Inductive, InitOrdered, OrderedInductive, WrittenInductive, PTL DEF Spec

-----------------------------------------------------------------------------
(* The theorems                                                            *)

\* Records, replies, rooms, calls and histories have their types in every reachable state.
THEOREM TypeCorrect == Spec => []TypeOK
<1>1. IInv => TypeOK
  <2> SUFFICES ASSUME IInv PROVE TypeOK  OBVIOUS
  <2>1. record \in Record \cup {NoRecord}  BY DEF IInv, RecordLeads, Leads
  <2>2. dropped \subseteq Sessions  BY DEF IInv, Dropped, Spent
  <2>3. conn \in [Nodes -> [sent : Seq(Calls), back : Seq(Calls), ready : SUBSET Calls]]
    BY DEF IInv, Lined, Conn
  <2>4. rec \in [Calls -> Record \cup {NoRecord}]  BY DEF IInv, Holding
  <2>5. QED  BY <2>1, <2>2, <2>3, <2>4 DEF IInv, TypeOK, SideTyped, StoreTyped, CallsTyped
<1>2. QED  BY <1>1, InitInv, Inductive, PTL DEF Spec

\* Whatever else runs, what a start wrote to the record stays until somebody writes the
\* record again or the start fails: no rollback of another start clears it
\* (persistentSessions.ts 622-633).
THEOREM StartsSurvive == Spec => []StartsSurviveRollbacks
<1>1. IInv => StartsSurviveRollbacks  BY DEF IInv
<1>2. QED  BY <1>1, InitInv, Inductive, PTL DEF Spec

\* The record leads no visitor to a session that was deleted, whatever starts, visits and
\* ends ran and whichever of their commands were lost, unless an edit, an entry or a visit
\* whose URL has another entry policy wrote it back, or an end of that session ran and a
\* connection was lost (persistentSessionWs.ts 301-312, persistentSessions.ts 388-399 and
\* 614-657, sessions.ts 825-830).
THEOREM LeadsSomewhere == Spec => []LinkLeadsSomewhere
<1>1. IInv => LinkLeadsSomewhere
  <2> SUFFICES ASSUME IInv, record # NoRecord, writer \notin WritesBack, record.link \in dropped
               PROVE  failures > 0 /\ \E p \in Calls : Kind(p) = "end" /\ subject[p] = record.link
    BY DEF LinkLeadsSomewhere
  <2>1. record.link \notin Unlinked  BY DEF Unlinked
  <2>2. QED  BY <2>1 DEF IInv, Dropped, Ended
<1>2. QED  BY <1>1, InitInv, Inductive, PTL DEF Spec
==============================================================================
