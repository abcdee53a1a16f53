------------------------ MODULE SessionSockets_proofs ------------------------
(***************************************************************************)
(* The sockets of a session, for any number of instances, pages, sockets   *)
(* and faults: what a page believes of its connection, that it has one at  *)
(* most, and that the announced end reaches every socket that was on the   *)
(* session, or finds it closed.                                            *)
(***************************************************************************)
EXTENDS SessionSockets, SequenceTheorems, TLAPS

\* TypeOK by what the steps change together.
SocksTyped == socks \in [Pages -> Seq(Socket)]
HookTyped ==
    /\ cur \in [Pages -> 0..MaxSockets] /\ torn \in [Pages -> 0..MaxSockets]
    /\ manual \subseteq Pages /\ timer \subseteq Pages
    /\ shown \in [Pages -> {"nothing", "open", "closed"}]
    /\ page \in [Pages -> {"away", "activity", "leaving", "ended"}]
Numbered ==
    \A p \in Pages : /\ Len(socks[p]) \in cur[p]..MaxSockets
                     /\ torn[p] # 0 => p \in manual
EndTyped ==
    /\ scene \in Scenes
    /\ live \in BOOLEAN /\ bus \subseteq Nodes
    /\ job \in [Nodes -> {"idle", "publish", "delete"}]
    /\ ends \in Nat /\ renders \in Nat /\ faults \in Nat
    /\ due \subseteq Pages \X Numbers

\* The socket a page goes by, and the one whose close it awaits after a disconnect, have
\* not closed; after a disconnect it goes by none, and what it was told is about one of them.
Hooked ==
    \A p \in Pages :
        /\ torn[p] \in 0..Len(socks[p])
        /\ p \in manual => cur[p] = 0
        /\ cur[p] # 0 => Sock(p, cur[p]).st # "closed"
        /\ torn[p] # 0 => Sock(p, torn[p]).st # "closed"
        /\ shown[p] = "open" => cur[p] # 0 \/ torn[p] # 0
        /\ cur[p] # 0 /\ Sock(p, cur[p]).st = "open" => shown[p] = "open"

\* A socket that is still to be told carries the session's id; it is closed, or the
\* announcement is on its way to its instance.
Awaits(p, k) ==
    /\ Has(p, k) /\ Sock(p, k).named
    /\ Sock(p, k).sv = "off" \/ (Sock(p, k).sv \in Served /\ Sock(p, k).node \in bus)
Heralded == scene.valkey => \A p \in Pages, k \in Numbers : <<p, k>> \in due => Awaits(p, k)

IInv == SocksTyped /\ HookTyped /\ Numbered /\ EndTyped /\ Hooked /\ OneConnection /\ Heralded
-----------------------------------------------------------------------------
(* What the steps do to the sockets                                        *)

LEMMA TypedOK == SocksTyped /\ HookTyped /\ Numbered /\ EndTyped => TypeOK
BY DEF SocksTyped, HookTyped, Numbered, EndTyped, TypeOK

LEMMA SockTyped ==
    ASSUME SocksTyped, NEW p \in Pages, NEW k, Has(p, k)
    PROVE  Sock(p, k) \in Socket /\ k \in 1..Len(socks[p]) /\ Len(socks[p]) \in Nat
BY LenProperties, ElementOfSeq DEF SocksTyped, Has, Sock

\* Socket k of page p becomes x, and no other socket changes.
Becomes(p, k, x) == socks' = [socks EXCEPT ![p] = [socks[p] EXCEPT ![k] = x]]

LEMMA BecomesTyped ==
    ASSUME SocksTyped, NEW p \in Pages, NEW k, Has(p, k), NEW x \in Socket, Becomes(p, k, x)
    PROVE  /\ SocksTyped'
           /\ \A q \in Pages : Len(socks'[q]) = Len(socks[q])
           /\ Sock(p, k)' = x
           /\ \A q \in Pages : \A i \in 1..Len(socks[q]) :
                 ~(q = p /\ i = k) => Sock(q, i)' = Sock(q, i)
<1> DEFINE ss == [socks[p] EXCEPT ![k] = x]
<1>1. socks[p] \in Seq(Socket) /\ k \in 1..Len(socks[p])  BY DEF SocksTyped, Has
<1>2. /\ ss \in Seq(Socket) /\ Len(ss) = Len(socks[p])
      /\ \A j \in 1..Len(socks[p]) : ss[j] = IF j = k THEN x ELSE socks[p][j]
  BY <1>1, ExceptSeq
<1>3. socks' = [socks EXCEPT ![p] = ss]  BY DEF Becomes
<1>4. SocksTyped'  BY <1>2, <1>3 DEF SocksTyped
<1>5. socks'[p] = ss /\ \A q \in Pages : q # p => socks'[q] = socks[q]
  BY <1>3 DEF SocksTyped
<1>6. QED  BY <1>1, <1>2, <1>4, <1>5 DEF Sock

\* The browser's ends stay as they are.
SameStates ==
    \A p \in Pages : /\ Len(socks'[p]) = Len(socks[p])
                     /\ \A k \in 1..Len(socks[p]) : Sock(p, k)'.st = Sock(p, k).st

LEMMA StatesKept ==
    ASSUME IInv, SameStates, UNCHANGED hook
    PROVE  Numbered' /\ Hooked' /\ OneConnection'
<1>1. \A p \in Pages : /\ Len(socks[p]) \in Nat /\ Len(socks'[p]) = Len(socks[p])
                       /\ cur[p] \in 0..Len(socks[p]) /\ torn[p] \in 0..Len(socks[p])
  BY LenProperties DEF IInv, SocksTyped, SameStates, Numbered, Hooked, HookTyped
<1>2. Numbered'  BY <1>1 DEF IInv, Numbered, hook
<1>3. Hooked'  BY <1>1 DEF IInv, Hooked, hook, SameStates
<1>4. OneConnection'  BY <1>1 DEF IInv, OneConnection, hook, SameStates
<1>5. QED  BY <1>2, <1>3, <1>4

\* No socket is opened, and those the server knows stay on the session or close.
SameService ==
    \A p \in Pages : \A k \in 1..Len(socks[p]) :
        /\ k \in 1..Len(socks'[p])
        /\ Sock(p, k).sv # "none" =>
              /\ Sock(p, k)'.node = Sock(p, k).node
              /\ Sock(p, k).named => Sock(p, k)'.named
              /\ Sock(p, k).sv = "off" => Sock(p, k)'.sv = "off"
              /\ Sock(p, k).sv \in Served => Sock(p, k)'.sv \in Served \cup {"off"}

LEMMA HeraldedKept ==
    ASSUME IInv, SameService, UNCHANGED <<scene, bus, due>>
    PROVE  Heralded'
<1> SUFFICES ASSUME scene.valkey, NEW p \in Pages, NEW k \in Numbers, <<p, k>> \in due
             PROVE  Awaits(p, k)'
  BY DEF Heralded
<1>1. Awaits(p, k)  BY DEF IInv, Heralded
<1>2. k \in 1..Len(socks[p])  BY <1>1 DEF Awaits, Has
<1>3. QED  BY <1>1, <1>2 DEF Awaits, Has, SameService, Served

\* A step of a router: one socket changes at the server's end.
LEMMA ServerStep ==
    ASSUME IInv, NEW p \in Pages, NEW k, Has(p, k), NEW x \in Socket, Becomes(p, k, x),
           x.st = Sock(p, k).st, x.node = Sock(p, k).node,
           Sock(p, k).sv = "off" => x.sv = "off",
           Sock(p, k).sv \in Served => x.sv \in Served \cup {"off"},
           Sock(p, k).sv # "none" /\ Sock(p, k).named => x.named,
           UNCHANGED <<scene, server, hook, due>>,
           page' \in [Pages -> {"away", "activity", "leaving", "ended"}],
           ends' \in Nat, renders' \in Nat, faults' \in Nat
    PROVE  IInv'
<1>1. k \in 1..Len(socks[p])  BY DEF Has
<1>2. /\ SocksTyped'
      /\ \A q \in Pages : Len(socks'[q]) = Len(socks[q])
      /\ Sock(p, k)' = x
      /\ \A q \in Pages : \A i \in 1..Len(socks[q]) :
            ~(q = p /\ i = k) => Sock(q, i)' = Sock(q, i)
  BY BecomesTyped DEF IInv
<1>3. SameStates  BY <1>2 DEF SameStates
<1>4. SameService  BY <1>2 DEF SameService
<1>5. HookTyped' /\ EndTyped'  BY DEF IInv, HookTyped, EndTyped, hook, server
<1>6. Numbered' /\ Hooked' /\ OneConnection'  BY <1>3, StatesKept
<1>7. Heralded'  BY <1>4, HeraldedKept DEF server
<1>8. QED  BY <1>2, <1>5, <1>6, <1>7 DEF IInv

-----------------------------------------------------------------------------
(* The router                                                              *)

LEMMA UpgradeInv == ASSUME IInv, NEW p \in Pages, NEW k, Upgrade(p, k) PROVE IInv'
<1> DEFINE x == [Sock(p, k) EXCEPT !.sv = IF scene.notes = "unread" THEN "on" ELSE "looking",
                                   !.named = scene.notes # "after"]
<1>1. Has(p, k) /\ Sock(p, k).sv = "none"  BY DEF Upgrade
<1>2. Sock(p, k) \in Socket  BY <1>1, SockTyped DEF IInv
<1>3. x \in Socket /\ x.st = Sock(p, k).st /\ x.node = Sock(p, k).node
  BY <1>2 DEF Socket
<1>4. Becomes(p, k, x)  BY DEF Upgrade, Becomes, Sock
<1> HIDE DEF x
<1>5. QED
  BY <1>1, <1>3, <1>4, ServerStep DEF Upgrade, Served, counts, IInv, HookTyped, EndTyped

LEMMA LookupInv == ASSUME IInv, NEW p \in Pages, NEW k, Lookup(p, k) PROVE IInv'
<1>1. Has(p, k) /\ Sock(p, k).sv = "looking"  BY DEF Lookup
<1>2. Sock(p, k) \in Socket  BY <1>1, SockTyped DEF IInv
<1>3. PICK x \in {[Sock(p, k) EXCEPT !.sv = "found"],
                  [Sock(p, k) EXCEPT !.sv = "off", !.refused = TRUE]} : Becomes(p, k, x)
  BY <1>2 DEF Lookup, Becomes, Sock, Socket
<1>4. x \in Socket /\ x.st = Sock(p, k).st /\ x.node = Sock(p, k).node
      /\ x.sv \in {"found", "off"} /\ x.named = Sock(p, k).named
  BY <1>2 DEF Socket
<1>5. QED
  BY <1>1, <1>3, <1>4, ServerStep DEF Lookup, Served, counts, IInv, HookTyped, EndTyped

LEMMA LookupFailsInv == ASSUME IInv, NEW p \in Pages, NEW k, LookupFails(p, k) PROVE IInv'
<1>1. Has(p, k) /\ Sock(p, k).sv = "looking"  BY DEF LookupFails
<1>2. Sock(p, k) \in Socket  BY <1>1, SockTyped DEF IInv
<1>3. PICK strict \in BOOLEAN :
          Becomes(p, k, [Sock(p, k) EXCEPT !.sv = "off", !.refused = ~strict])
  BY <1>2 DEF LookupFails, Becomes, Sock, Socket
<1> DEFINE x == [Sock(p, k) EXCEPT !.sv = "off", !.refused = ~strict]
<1>4. x \in Socket /\ x.st = Sock(p, k).st /\ x.node = Sock(p, k).node
      /\ x.sv = "off" /\ x.named = Sock(p, k).named
  BY <1>2 DEF Socket
<1>5. /\ UNCHANGED <<scene, server, hook, page, due>>
      /\ ends' \in Nat /\ renders' \in Nat /\ faults' \in Nat
      /\ page \in [Pages -> {"away", "activity", "leaving", "ended"}]
  BY DEF LookupFails, Mistake, IInv, HookTyped, EndTyped
<1>6. Becomes(p, k, x)  BY <1>3
<1> HIDE DEF x
<1>7. QED  BY <1>1, <1>4, <1>5, <1>6, ServerStep DEF Served

LEMMA AdmitInv == ASSUME IInv, NEW p \in Pages, NEW k, Admit(p, k) PROVE IInv'
<1> DEFINE x == [Sock(p, k) EXCEPT !.sv = "on", !.named = TRUE]
<1>1. Has(p, k) /\ Sock(p, k).sv = "found"  BY DEF Admit
<1>2. Sock(p, k) \in Socket  BY <1>1, SockTyped DEF IInv
<1>3. x \in Socket /\ x.st = Sock(p, k).st /\ x.node = Sock(p, k).node /\ x.sv = "on" /\ x.named
  BY <1>2 DEF Socket
<1>4. Becomes(p, k, x)  BY <1>2 DEF Admit, Becomes, Sock, Socket
<1>5. QED
  BY <1>1, <1>3, <1>4, ServerStep DEF Admit, Served, counts, IInv, HookTyped, EndTyped

LEMMA ServerClosedInv == ASSUME IInv, NEW p \in Pages, NEW k, ServerClosed(p, k) PROVE IInv'
<1> DEFINE x == [Sock(p, k) EXCEPT !.sv = "off"]
<1>1. Has(p, k)  BY DEF ServerClosed
<1>2. Sock(p, k) \in Socket  BY <1>1, SockTyped DEF IInv
<1>3. x \in Socket /\ x.st = Sock(p, k).st /\ x.node = Sock(p, k).node /\ x.sv = "off"
      /\ x.named = Sock(p, k).named
  BY <1>2 DEF Socket
<1>4. Becomes(p, k, x)  BY <1>2 DEF ServerClosed, Becomes, Sock, Socket
<1>5. QED
  BY <1>1, <1>3, <1>4, ServerStep DEF ServerClosed, Served, counts, IInv, HookTyped, EndTyped

LEMMA CutInv == ASSUME IInv, NEW p \in Pages, NEW k, Cut(p, k) PROVE IInv'
<1> DEFINE x == [Sock(p, k) EXCEPT !.cut = TRUE]
<1>1. Has(p, k)  BY DEF Cut
<1>2. Sock(p, k) \in Socket  BY <1>1, SockTyped DEF IInv
<1>3. x \in Socket /\ x.st = Sock(p, k).st /\ x.node = Sock(p, k).node /\ x.sv = Sock(p, k).sv
      /\ x.named = Sock(p, k).named
  BY <1>2 DEF Socket
<1>4. Becomes(p, k, x)  BY <1>2 DEF Cut, Becomes, Sock, Socket
<1> HIDE DEF x
<1>5. QED
  BY <1>1, <1>3, <1>4, ServerStep DEF Cut, Mistake, Served, IInv, HookTyped, EndTyped

\* The frame with the announcement is read.
LEMMA MessageInv == ASSUME IInv, NEW p \in Pages, NEW k, Message(p, k) PROVE IInv'
<1> DEFINE x == [Sock(p, k) EXCEPT !.coming = FALSE]
<1>1. Has(p, k)  BY DEF Message
<1>2. Sock(p, k) \in Socket  BY <1>1, SockTyped DEF IInv
<1>3. x \in Socket /\ x.st = Sock(p, k).st /\ x.node = Sock(p, k).node /\ x.sv = Sock(p, k).sv
      /\ x.named = Sock(p, k).named
  BY <1>2 DEF Socket
<1>4. Becomes(p, k, x)  BY <1>2 DEF Message, Becomes, Sock, Socket
<1>5. page' \in [Pages -> {"away", "activity", "leaving", "ended"}]
  BY DEF Message, IInv, HookTyped
<1>6. QED
  BY <1>1, <1>3, <1>4, <1>5, ServerStep DEF Message, Served, counts, IInv, HookTyped, EndTyped

-----------------------------------------------------------------------------
(* The page                                                                *)

\* What follows for the service of the sockets when one changes at the browser's end.
LEMMA BrowserService ==
    ASSUME IInv, NEW p \in Pages, NEW k, Has(p, k), NEW x \in Socket, Becomes(p, k, x),
           x.sv = Sock(p, k).sv, x.node = Sock(p, k).node, x.named = Sock(p, k).named,
           UNCHANGED <<scene, server, counts, due>>
    PROVE  /\ SocksTyped' /\ EndTyped' /\ Heralded'
           /\ \A q \in Pages : Len(socks'[q]) = Len(socks[q])
           /\ Sock(p, k)' = x
           /\ \A q \in Pages : \A i \in 1..Len(socks[q]) :
                 ~(q = p /\ i = k) => Sock(q, i)' = Sock(q, i)
<1>1. k \in 1..Len(socks[p])  BY DEF Has
<1>2. /\ SocksTyped'
      /\ \A q \in Pages : Len(socks'[q]) = Len(socks[q])
      /\ Sock(p, k)' = x
      /\ \A q \in Pages : \A i \in 1..Len(socks[q]) :
            ~(q = p /\ i = k) => Sock(q, i)' = Sock(q, i)
  BY BecomesTyped DEF IInv
<1>3. SameService  BY <1>2 DEF SameService
<1>4. Heralded'  BY <1>3, HeraldedKept DEF server
<1>5. EndTyped'  BY DEF IInv, EndTyped, server, counts
<1>6. QED  BY <1>2, <1>4, <1>5

\* onopen: the socket the page goes by has opened, any other one is closed.
LEMMA OpenedInv == ASSUME IInv, NEW p \in Pages, NEW k, Opened(p, k) PROVE IInv'
<1> DEFINE x == [Sock(p, k) EXCEPT !.st = IF cur[p] = k THEN "open" ELSE "closing"]
<1>1. Has(p, k) /\ Sock(p, k).st = "connecting"  BY DEF Opened
<1>2. Sock(p, k) \in Socket /\ k \in 1..Len(socks[p]) /\ Len(socks[p]) \in Nat
  BY <1>1, SockTyped DEF IInv
<1>3. x \in Socket /\ x.sv = Sock(p, k).sv /\ x.node = Sock(p, k).node /\ x.named = Sock(p, k).named
      /\ x.st = IF cur[p] = k THEN "open" ELSE "closing"
  BY <1>2 DEF Socket
<1>4. Becomes(p, k, x)  BY DEF Opened, Becomes, Sock
<1> HIDE DEF x
<1>5. UNCHANGED <<scene, server, counts, due, cur, torn, manual, timer, page>>
  BY DEF Opened
<1>6. shown' = IF cur[p] = k THEN [shown EXCEPT ![p] = "open"] ELSE shown  BY DEF Opened
<1>7. /\ SocksTyped' /\ EndTyped' /\ Heralded'
      /\ \A q \in Pages : Len(socks'[q]) = Len(socks[q])
      /\ Sock(p, k)' = x
      /\ \A q \in Pages : \A i \in 1..Len(socks[q]) :
            ~(q = p /\ i = k) => Sock(q, i)' = Sock(q, i)
  BY <1>1, <1>3, <1>4, <1>5, BrowserService
<1>8. HookTyped'  BY <1>5, <1>6 DEF IInv, HookTyped
<1>9. \A q \in Pages : Len(socks[q]) \in Nat /\ cur[q] \in 0..Len(socks[q]) /\ torn[q] \in 0..Len(socks[q])
  BY LenProperties DEF IInv, SocksTyped, HookTyped, Numbered, Hooked
<1>10. Numbered'  BY <1>5, <1>7 DEF IInv, Numbered
<1>11. Hooked'
  <2> SUFFICES ASSUME NEW q \in Pages
               PROVE  /\ torn[q] \in 0..Len(socks'[q])
                      /\ q \in manual => cur[q] = 0
                      /\ cur[q] # 0 => Sock(q, cur[q])'.st # "closed"
                      /\ torn[q] # 0 => Sock(q, torn[q])'.st # "closed"
                      /\ shown'[q] = "open" => cur[q] # 0 \/ torn[q] # 0
                      /\ cur[q] # 0 /\ Sock(q, cur[q])'.st = "open" => shown'[q] = "open"
    BY <1>5 DEF Hooked, Sock
  <2>1. CASE q # p  BY <2>1, <1>5, <1>6, <1>7, <1>9 DEF IInv, Hooked, HookTyped, Sock
  <2>2. CASE q = p  BY <2>2, <1>1, <1>2, <1>3, <1>5, <1>6, <1>7, <1>9 DEF IInv, Hooked, HookTyped, Sock
  <2>3. QED  BY <2>1, <2>2
<1>12. OneConnection'
  BY <1>1, <1>2, <1>3, <1>5, <1>7, <1>9 DEF IInv, OneConnection
<1>13. QED  BY <1>7, <1>8, <1>10, <1>11, <1>12 DEF IInv

\* onclose: the close of a socket that was replaced does not concern the page.
LEMMA CloseEventInv == ASSUME IInv, NEW p \in Pages, NEW k, CloseEvent(p, k) PROVE IInv'
<1> DEFINE x == [Sock(p, k) EXCEPT !.st = "closed"]
<1>1. Has(p, k)  BY DEF CloseEvent
<1>2. Sock(p, k) \in Socket /\ k \in 1..Len(socks[p]) /\ Len(socks[p]) \in Nat
  BY <1>1, SockTyped DEF IInv
<1>3. x \in Socket /\ x.sv = Sock(p, k).sv /\ x.node = Sock(p, k).node /\ x.named = Sock(p, k).named
      /\ x.st = "closed"
  BY <1>2 DEF Socket
<1>4. Becomes(p, k, x)  BY DEF CloseEvent, Becomes, Sock
<1> HIDE DEF x
<1>5. UNCHANGED <<scene, server, counts, due, manual, page>>  BY DEF CloseEvent
<1>6. /\ SocksTyped' /\ EndTyped' /\ Heralded'
      /\ \A q \in Pages : Len(socks'[q]) = Len(socks[q])
      /\ Sock(p, k)' = x
      /\ \A q \in Pages : \A i \in 1..Len(socks[q]) :
            ~(q = p /\ i = k) => Sock(q, i)' = Sock(q, i)
  BY <1>1, <1>3, <1>4, <1>5, BrowserService
<1>7. \A q \in Pages : Len(socks[q]) \in Nat /\ cur[q] \in 0..Len(socks[q]) /\ torn[q] \in 0..Len(socks[q])
  BY LenProperties DEF IInv, SocksTyped, HookTyped, Numbered, Hooked
<1>8. CASE ~Concerns(p, k)
  <2>1. UNCHANGED <<cur, torn, timer, shown>> /\ cur[p] # k /\ torn[p] # k
    BY <1>8 DEF CloseEvent, Concerns
  <2>2. HookTyped'  BY <1>5, <2>1 DEF IInv, HookTyped
  <2>3. Numbered'  BY <1>5, <1>6, <2>1 DEF IInv, Numbered
  <2>4. Hooked'
    BY <1>2, <1>3, <1>5, <1>6, <1>7, <2>1 DEF IInv, Hooked, HookTyped, Sock
  <2>5. OneConnection'
    BY <1>2, <1>3, <1>5, <1>6, <1>7, <2>1 DEF IInv, OneConnection, Sock
  <2>6. QED  BY <1>6, <2>2, <2>3, <2>4, <2>5 DEF IInv
<1>9. CASE Concerns(p, k)
  <2>1. /\ shown' = [shown EXCEPT ![p] = "closed"]
        /\ cur' = [cur EXCEPT ![p] = IF cur[p] = k THEN 0 ELSE cur[p]]
        /\ torn' = [torn EXCEPT ![p] = IF torn[p] = k THEN 0 ELSE torn[p]]
        /\ timer' = timer \/ (timer' = timer \cup {p} /\ p \notin manual /\ cur[p] = k)
    BY <1>9 DEF CloseEvent, Retries
  <2>2. HookTyped'
    <3>1. cur' \in [Pages -> 0..MaxSockets]  BY <2>1, ConstantsOK DEF IInv, HookTyped
    <3>2. torn' \in [Pages -> 0..MaxSockets]  BY <2>1, ConstantsOK DEF IInv, HookTyped
    <3>3. shown' \in [Pages -> {"nothing", "open", "closed"}]  BY <2>1 DEF IInv, HookTyped
    <3>4. timer' \subseteq Pages  BY <2>1 DEF IInv, HookTyped
    <3>5. QED  BY <3>1, <3>2, <3>3, <3>4, <1>5 DEF IInv, HookTyped
  <2>3. Numbered'  BY <1>5, <1>6, <1>7, <2>1 DEF IInv, Numbered, HookTyped
  <2>4. Hooked'
    <3> SUFFICES ASSUME NEW q \in Pages
                 PROVE  /\ torn'[q] \in 0..Len(socks'[q])
                        /\ q \in manual => cur'[q] = 0
                        /\ cur'[q] # 0 => socks'[q][cur'[q]].st # "closed"
                        /\ torn'[q] # 0 => socks'[q][torn'[q]].st # "closed"
                        /\ shown'[q] = "open" => cur'[q] # 0 \/ torn'[q] # 0
                        /\ cur'[q] # 0 /\ socks'[q][cur'[q]].st = "open" => shown'[q] = "open"
      BY <1>5 DEF Hooked, Sock
    <3>1. CASE q # p
      <4>1. cur'[q] = cur[q] /\ torn'[q] = torn[q] /\ shown'[q] = shown[q]
        BY <3>1, <2>1 DEF IInv, HookTyped
      <4>2. \A i \in 1..Len(socks[q]) : socks'[q][i] = socks[q][i]
        BY <3>1, <1>6 DEF Sock
      <4>3. QED  BY <4>1, <4>2, <1>6, <1>7 DEF IInv, Hooked, Sock
    <3>2. CASE q = p
      \* the page goes by none if it tore one down, and the other way round
      <4>1. cur[p] = k => torn[p] = 0  BY <1>2 DEF IInv, Hooked, Numbered
      <4>2. torn[p] = k => cur[p] = 0  BY <1>2 DEF IInv, Hooked, Numbered
      <4>3. cur'[p] = 0 /\ torn'[p] = 0 /\ shown'[p] = "closed"
        BY <4>1, <4>2, <1>9, <2>1 DEF Concerns, IInv, HookTyped
      <4>4. QED  BY <3>2, <4>3, <1>6, <1>7
    <3>3. QED  BY <3>1, <3>2
  <2>5. OneConnection'
    <3> SUFFICES ASSUME NEW q \in Pages
                 PROVE  /\ \A i \in 1..Len(socks'[q]) :
                              socks'[q][i].st \in {"connecting", "open"} => cur'[q] = i
                        /\ q \in timer' => cur'[q] = 0 /\ q \notin manual
      BY <1>5 DEF OneConnection, Sock
    <3>1. CASE q # p
      BY <3>1, <1>5, <1>6, <1>7, <2>1 DEF IInv, OneConnection, HookTyped, Sock
    <3>2. CASE q = p
      <4>1. cur'[p] = IF cur[p] = k THEN 0 ELSE cur[p]  BY <2>1 DEF IInv, HookTyped
      <4>2. \A i \in 1..Len(socks[p]) : socks'[p][i].st \in {"connecting", "open"} => i # k /\ cur[p] = i
        BY <1>2, <1>3, <1>6 DEF IInv, OneConnection, Sock
      <4>3. p \in timer' => cur'[p] = 0 /\ p \notin manual
        BY <4>1, <2>1 DEF IInv, OneConnection
      <4>4. QED  BY <3>2, <4>1, <4>2, <4>3, <1>6
    <3>3. QED  BY <3>1, <3>2
  <2>6. QED  BY <1>6, <2>2, <2>3, <2>4, <2>5 DEF IInv
<1>10. QED  BY <1>8, <1>9

\* close() leaves a socket closing, and its service as it was.
LEMMA ClosedSocket ==
    ASSUME NEW s \in Socket
    PROVE  /\ Closed(s) \in Socket /\ Closed(s).st \in {"closing", "closed"}
           /\ s.st # "closed" => Closed(s).st = "closing"
           /\ Closed(s).sv = s.sv /\ Closed(s).node = s.node /\ Closed(s).named = s.named
BY DEF Closed, Socket

\* connect(): the page goes by a new socket, and closes the one it went by.
LEMMA OpeningTyped ==
    ASSUME NEW ss \in Seq(Socket), NEW k, NEW n \in Nodes
    PROVE  /\ Opening(ss, k, n) \in Seq(Socket)
           /\ Len(Opening(ss, k, n)) = Len(ss) + 1 /\ Len(ss) \in Nat
           /\ Opening(ss, k, n)[Len(ss) + 1] = NewSocket(n)
           /\ \A i \in 1..Len(ss) : Opening(ss, k, n)[i] = IF i = k THEN Closed(ss[i]) ELSE ss[i]
<1> DEFINE m == Len(ss)
           e == [i \in 1..m |-> IF i = k THEN Closed(ss[i]) ELSE ss[i]]
<1>1. m \in Nat /\ DOMAIN ss = 1..m  BY LenProperties
<1>2. \A i \in 1..m : e[i] \in Socket
  BY <1>1, ElementOfSeq, ClosedSocket
<1>3. e \in Seq(Socket) /\ Len(e) = m
  <2>1. e \in [1..m -> Socket]  BY <1>2
  <2>2. e \in Seq(Socket)  BY <1>1, <2>1, SeqDef
  <2>3. DOMAIN e = 1..m  OBVIOUS
  <2>4. QED  BY <1>1, <2>2, <2>3, LenProperties
<1>4. NewSocket(n) \in Socket  BY DEF NewSocket, Socket
<1>5. Opening(ss, k, n) = Append(e, NewSocket(n))  BY <1>1 DEF Opening
<1>6. \A i \in 1..m : e[i] = IF i = k THEN Closed(ss[i]) ELSE ss[i]  OBVIOUS
<1> HIDE DEF e
<1>7. QED  BY <1>1, <1>3, <1>4, <1>5, <1>6, AppendProperties

LEMMA ConnectInv ==
    ASSUME IInv, NEW p \in Pages, NEW t \in SUBSET timer, timer \subseteq t \cup {p}, Connect(p, t),
           UNCHANGED <<scene, server, shown, due>>,
           page' \in [Pages -> {"away", "activity", "leaving", "ended"}],
           ends' \in Nat, renders' \in Nat, faults' \in Nat
    PROVE  IInv'
<1>1. PICK n \in Nodes : socks' = [socks EXCEPT ![p] = Opening(socks[p], cur[p], n)]
  BY DEF Connect
<1> DEFINE m == Len(socks[p])
<1>2. /\ cur' = [cur EXCEPT ![p] = m + 1] /\ torn' = [torn EXCEPT ![p] = 0]
      /\ manual' = manual \ {p} /\ timer' = timer \ {p} /\ m < MaxSockets
  BY DEF Connect
<1>3. socks \in [Pages -> Seq(Socket)] /\ MaxSockets \in Nat
  BY ConstantsOK DEF IInv, SocksTyped
<1>4. /\ socks'[p] = Opening(socks[p], cur[p], n) /\ Opening(socks[p], cur[p], n) \in Seq(Socket)
      /\ m \in Nat /\ Len(socks'[p]) = m + 1 /\ socks'[p][m + 1] = NewSocket(n)
      /\ \A i \in 1..m :
            socks'[p][i] = IF i = cur[p] THEN Closed(socks[p][i]) ELSE socks[p][i]
  BY <1>1, <1>3, OpeningTyped
<1>5. \A q \in Pages : q # p => socks'[q] = socks[q]  BY <1>1, <1>3
<1>6. SocksTyped'  BY <1>1, <1>3, <1>4 DEF SocksTyped
<1>7. \A i \in 1..m : Sock(p, i) \in Socket  BY <1>3, ElementOfSeq DEF Sock
<1>8. HookTyped'
  <2>1. m + 1 \in 0..MaxSockets  BY <1>2, <1>3, <1>4
  <2> HIDE DEF m
  <2>2. cur' \in [Pages -> 0..MaxSockets]  BY <2>1, <1>2 DEF IInv, HookTyped
  <2>3. torn' \in [Pages -> 0..MaxSockets]  BY <1>2, <1>3 DEF IInv, HookTyped
  <2>4. manual' \subseteq Pages /\ timer' \subseteq Pages /\ shown' = shown
    BY <1>2 DEF IInv, HookTyped
  <2>5. QED  BY <2>2, <2>3, <2>4 DEF IInv, HookTyped
<1>9. \A q \in Pages : Len(socks[q]) \in Nat /\ cur[q] \in 0..Len(socks[q]) /\ torn[q] \in 0..Len(socks[q])
  BY LenProperties DEF IInv, SocksTyped, HookTyped, Numbered, Hooked
<1>10. /\ cur'[p] = m + 1 /\ torn'[p] = 0
       /\ \A q \in Pages : q # p => cur'[q] = cur[q] /\ torn'[q] = torn[q]
  BY <1>2 DEF IInv, HookTyped
<1>11. Numbered'
  <2>1. Len(socks'[p]) \in cur'[p]..MaxSockets  BY <1>2, <1>3, <1>4, <1>10
  <2>2. QED  BY <2>1, <1>2, <1>5, <1>10 DEF IInv, Numbered
<1>12. Hooked'
  <2> SUFFICES ASSUME NEW q \in Pages
               PROVE  /\ torn'[q] \in 0..Len(socks'[q])
                      /\ q \in manual' => cur'[q] = 0
                      /\ cur'[q] # 0 => socks'[q][cur'[q]].st # "closed"
                      /\ torn'[q] # 0 => socks'[q][torn'[q]].st # "closed"
                      /\ shown[q] = "open" => cur'[q] # 0 \/ torn'[q] # 0
                      /\ cur'[q] # 0 /\ socks'[q][cur'[q]].st = "open" => shown[q] = "open"
    BY DEF Hooked, Sock
  <2>1. CASE q # p  BY <2>1, <1>2, <1>5, <1>10 DEF IInv, Hooked, Sock
  <2>2. CASE q = p
    <3>1. NewSocket(n).st = "connecting"  BY DEF NewSocket
    <3>2. socks'[p][m + 1].st = "connecting"  BY <3>1, <1>4
    <3>3. QED  BY <2>2, <3>2, <1>2, <1>4, <1>10
  <2>3. QED  BY <2>1, <2>2
<1>13. OneConnection'
  <2> SUFFICES ASSUME NEW q \in Pages
               PROVE  /\ \A i \in 1..Len(socks'[q]) :
                            socks'[q][i].st \in {"connecting", "open"} => cur'[q] = i
                      /\ q \in timer' => cur'[q] = 0 /\ q \notin manual'
    BY DEF OneConnection, Sock
  <2>1. CASE q # p  BY <2>1, <1>2, <1>5, <1>10 DEF IInv, OneConnection, Sock
  <2>2. CASE q = p
    <3>1. ASSUME NEW i \in 1..m PROVE socks'[p][i].st \notin {"connecting", "open"}
      <4>1. socks'[p][i] = IF i = cur[p] THEN Closed(socks[p][i]) ELSE socks[p][i]
        BY <1>4
      <4>2. socks[p][i] \in Socket  BY <1>7 DEF Sock
      <4>3. i # cur[p] => socks[p][i].st \notin {"connecting", "open"}
        BY DEF IInv, OneConnection, Sock
      <4>4. QED  BY <4>1, <4>2, <4>3, ClosedSocket
    <3>2. QED  BY <2>2, <3>1, <1>2, <1>4, <1>10
  <2>3. QED  BY <2>1, <2>2
<1>14. SameService
  <2>1. ASSUME NEW q \in Pages, NEW i \in 1..Len(socks[q])
        PROVE  /\ i \in 1..Len(socks'[q])
               /\ socks'[q][i].sv = socks[q][i].sv /\ socks'[q][i].node = socks[q][i].node
               /\ socks'[q][i].named = socks[q][i].named
    <3>1. CASE q # p  BY <3>1, <1>5
    <3>2. CASE q = p
      <4>1. socks'[p][i] = IF i = cur[p] THEN Closed(socks[p][i]) ELSE socks[p][i]
        BY <3>2, <1>4
      <4>2. socks[p][i] \in Socket  BY <3>2, <1>7 DEF Sock
      <4>3. i \in 1..Len(socks'[p])  BY <3>2, <1>4
      <4>4. QED  BY <3>2, <4>1, <4>2, <4>3, ClosedSocket
    <3>3. QED  BY <3>1, <3>2
  <2>2. QED  BY <2>1 DEF SameService, Sock
<1>15. Heralded'  BY <1>14, HeraldedKept DEF server
<1>16. EndTyped'  BY DEF IInv, EndTyped, server
<1>17. QED  BY <1>6, <1>8, <1>11, <1>12, <1>13, <1>15, <1>16 DEF IInv

LEMMA MountInv == ASSUME IInv, NEW p \in Pages, Mount(p) PROVE IInv'
<1>1. /\ Connect(p, timer) /\ UNCHANGED <<scene, server, shown, due>>
      /\ page' \in [Pages -> {"away", "activity", "leaving", "ended"}]
      /\ ends' \in Nat /\ renders' \in Nat /\ faults' \in Nat
  BY DEF Mount, counts, IInv, HookTyped, EndTyped
<1>2. QED  BY <1>1, ConnectInv

LEMMA RerunInv == ASSUME IInv, NEW p \in Pages, Rerun(p) PROVE IInv'
<1>1. /\ Connect(p, timer) /\ UNCHANGED <<scene, server, shown, due>>
      /\ page' \in [Pages -> {"away", "activity", "leaving", "ended"}]
      /\ ends' \in Nat /\ renders' \in Nat /\ faults' \in Nat
  BY DEF Rerun, counts, IInv, HookTyped, EndTyped
<1>2. QED  BY <1>1, ConnectInv

LEMMA ConnectAgainInv == ASSUME IInv, NEW p \in Pages, ConnectAgain(p) PROVE IInv'
<1>1. /\ Connect(p, timer) /\ UNCHANGED <<scene, server, shown, due>>
      /\ page' \in [Pages -> {"away", "activity", "leaving", "ended"}]
      /\ ends' \in Nat /\ renders' \in Nat /\ faults' \in Nat
  BY DEF ConnectAgain, IInv, HookTyped, EndTyped
<1>2. QED  BY <1>1, ConnectInv

LEMMA TimerFiresInv == ASSUME IInv, NEW p \in Pages, TimerFires(p) PROVE IInv'
<1>1. /\ Connect(p, timer \ {p}) /\ UNCHANGED <<scene, server, shown, due>>
      /\ page' \in [Pages -> {"away", "activity", "leaving", "ended"}]
      /\ ends' \in Nat /\ renders' \in Nat /\ faults' \in Nat
  BY DEF TimerFires, counts, IInv, HookTyped, EndTyped
<1>2. timer \ {p} \in SUBSET timer /\ timer \subseteq (timer \ {p}) \cup {p}  OBVIOUS
<1>3. QED  BY <1>1, <1>2, ConnectInv

\* disconnect(): the page goes by no socket, and awaits the close of the one it went by.
LEMMA DisconnectInv ==
    ASSUME IInv, NEW p \in Pages, Disconnect(p),
           UNCHANGED <<scene, server, shown, due>>,
           page' \in [Pages -> {"away", "activity", "leaving", "ended"}],
           ends' \in Nat, renders' \in Nat, faults' \in Nat
    PROVE  IInv'
<1>1. /\ cur' = [cur EXCEPT ![p] = 0]
      /\ torn' = IF cur[p] # 0 THEN [torn EXCEPT ![p] = cur[p]] ELSE torn
      /\ manual' = manual \cup {p} /\ timer' = timer \ {p}
  BY DEF Disconnect
<1>2. MaxSockets \in Nat  BY ConstantsOK
<1>3. HookTyped'
  <2>1. cur' \in [Pages -> 0..MaxSockets]  BY <1>1, <1>2 DEF IInv, HookTyped
  <2>2. torn' \in [Pages -> 0..MaxSockets]  BY <1>1, <1>2 DEF IInv, HookTyped
  <2>3. manual' \subseteq Pages /\ timer' \subseteq Pages  BY <1>1 DEF IInv, HookTyped
  <2>4. QED  BY <2>1, <2>2, <2>3 DEF IInv, HookTyped
<1>4. EndTyped'  BY DEF IInv, EndTyped, server
<1>5. \A q \in Pages : Len(socks[q]) \in Nat /\ cur[q] \in 0..Len(socks[q]) /\ torn[q] \in 0..Len(socks[q])
  BY LenProperties DEF IInv, SocksTyped, HookTyped, Numbered, Hooked
<1>6. /\ cur'[p] = 0 /\ torn'[p] = IF cur[p] # 0 THEN cur[p] ELSE torn[p]
      /\ \A q \in Pages : q # p => cur'[q] = cur[q] /\ torn'[q] = torn[q]
  BY <1>1 DEF IInv, HookTyped
\* the sockets after the step
<1>7. /\ SocksTyped' /\ Heralded'
      /\ \A q \in Pages : Len(socks'[q]) = Len(socks[q])
      /\ \A q \in Pages : \A i \in 1..Len(socks[q]) :
            IF q = p /\ i = cur[p] THEN socks'[q][i].st = "closing"
                                  ELSE socks'[q][i] = socks[q][i]
  <2>1. CASE cur[p] = 0
    <3>1. socks' = socks  BY <2>1 DEF Disconnect
    <3>2. SameService  BY <3>1, <1>5 DEF SameService, Sock, Served
    <3>3. Heralded'  BY <3>2, HeraldedKept DEF server
    <3>4. QED  BY <3>1, <3>3, <2>1 DEF IInv, SocksTyped
  <2>2. CASE cur[p] # 0
    <3> DEFINE k == cur[p]
               x == Closed(Sock(p, k))
    <3>1. Has(p, k)  BY <2>2, <1>5 DEF Has
    <3>2. Sock(p, k) \in Socket  BY <3>1, SockTyped DEF IInv
    <3>3. Sock(p, k).st # "closed"  BY <2>2 DEF IInv, Hooked
    <3>4. /\ x \in Socket /\ x.st = "closing" /\ x.sv = Sock(p, k).sv
          /\ x.node = Sock(p, k).node /\ x.named = Sock(p, k).named
      BY <3>2, <3>3, ClosedSocket
    <3>5. Becomes(p, k, x)  BY <2>2 DEF Disconnect, Becomes, Sock
    <3> HIDE DEF x, k
    <3>6. /\ SocksTyped'
          /\ \A q \in Pages : Len(socks'[q]) = Len(socks[q])
          /\ socks'[p][k] = x
          /\ \A q \in Pages : \A i \in 1..Len(socks[q]) :
                ~(q = p /\ i = k) => socks'[q][i] = socks[q][i]
      BY <3>1, <3>4, <3>5, BecomesTyped DEF IInv, Sock
    <3>7. SameService  BY <3>4, <3>6, <1>5 DEF SameService, Sock
    <3>8. Heralded'  BY <3>7, HeraldedKept DEF server
    <3>9. QED  BY <3>4, <3>6, <3>8 DEF k
  <2>3. QED  BY <2>1, <2>2
<1>8. Numbered'  BY <1>1, <1>5, <1>6, <1>7 DEF IInv, Numbered
<1>9. Hooked'
  <2> SUFFICES ASSUME NEW q \in Pages
               PROVE  /\ torn'[q] \in 0..Len(socks'[q])
                      /\ q \in manual' => cur'[q] = 0
                      /\ cur'[q] # 0 => socks'[q][cur'[q]].st # "closed"
                      /\ torn'[q] # 0 => socks'[q][torn'[q]].st # "closed"
                      /\ shown[q] = "open" => cur'[q] # 0 \/ torn'[q] # 0
                      /\ cur'[q] # 0 /\ socks'[q][cur'[q]].st = "open" => shown[q] = "open"
    BY DEF Hooked, Sock
  <2>1. CASE q # p  BY <2>1, <1>1, <1>5, <1>6, <1>7 DEF IInv, Hooked, Sock
  <2>2. CASE q = p  BY <2>2, <1>5, <1>6, <1>7 DEF IInv, Hooked, Sock
  <2>3. QED  BY <2>1, <2>2
<1>10. OneConnection'
  <2> SUFFICES ASSUME NEW q \in Pages
               PROVE  /\ \A i \in 1..Len(socks'[q]) :
                            socks'[q][i].st \in {"connecting", "open"} => cur'[q] = i
                      /\ q \in timer' => cur'[q] = 0 /\ q \notin manual'
    BY DEF OneConnection, Sock
  <2>1. CASE q # p  BY <2>1, <1>1, <1>6, <1>7 DEF IInv, OneConnection, Sock
  <2>2. CASE q = p  BY <2>2, <1>1, <1>6, <1>7 DEF IInv, OneConnection, Sock
  <2>3. QED  BY <2>1, <2>2
<1>11. QED  BY <1>3, <1>4, <1>7, <1>8, <1>9, <1>10 DEF IInv

LEMMA CleanupInv == ASSUME IInv, NEW p \in Pages, Cleanup(p) PROVE IInv'
<1>1. /\ Disconnect(p) /\ UNCHANGED <<scene, server, shown, due>>
      /\ page' \in [Pages -> {"away", "activity", "leaving", "ended"}]
      /\ ends' \in Nat /\ renders' \in Nat /\ faults' \in Nat
  BY DEF Cleanup, IInv, HookTyped, EndTyped
<1>2. QED  BY <1>1, DisconnectInv

LEMMA UnmountInv == ASSUME IInv, NEW p \in Pages, Unmount(p) PROVE IInv'
<1>1. /\ Disconnect(p) /\ UNCHANGED <<scene, server, shown, due>>
      /\ page' \in [Pages -> {"away", "activity", "leaving", "ended"}]
      /\ ends' \in Nat /\ renders' \in Nat /\ faults' \in Nat
  BY DEF Unmount, counts, IInv, HookTyped, EndTyped
<1>2. QED  BY <1>1, DisconnectInv

-----------------------------------------------------------------------------
(* Steps over all the sockets of an instance, and the end of the session    *)

\* Every socket changes at once: socket k of p becomes g[p][k].
LEMMA AllTyped ==
    ASSUME SocksTyped, NEW g,
           \A p \in Pages : \A k \in 1..Len(socks[p]) : g[p][k] \in Socket,
           socks' = [p \in Pages |-> [k \in DOMAIN socks[p] |-> g[p][k]]]
    PROVE  /\ SocksTyped' /\ \A p \in Pages : Len(socks'[p]) = Len(socks[p])
           /\ \A p \in Pages : \A k \in 1..Len(socks[p]) : socks'[p][k] = g[p][k]
<1>1. ASSUME NEW p \in Pages
      PROVE  /\ socks'[p] \in Seq(Socket) /\ Len(socks'[p]) = Len(socks[p])
             /\ \A k \in 1..Len(socks[p]) : socks'[p][k] = g[p][k]
  <2>1. Len(socks[p]) \in Nat /\ DOMAIN socks[p] = 1..Len(socks[p])
    BY LenProperties DEF SocksTyped
  <2> DEFINE m == Len(socks[p])
             e == [k \in 1..m |-> g[p][k]]
  <2>2. socks'[p] = e  BY <2>1
  <2>3. \A k \in 1..m : g[p][k] \in Socket  OBVIOUS
  <2> HIDE DEF m
  <2>4. e \in [1..m -> Socket] /\ DOMAIN e = 1..m /\ \A k \in 1..m : e[k] = g[p][k]
    BY <2>3
  <2>5. m \in Nat  BY <2>1 DEF m
  <2>6. e \in Seq(Socket)  BY <2>4, <2>5, SeqDef
  <2> HIDE DEF e
  <2>7. Len(e) = m  BY <2>4, <2>5, <2>6, LenProperties
  <2>8. QED  BY <2>2, <2>4, <2>6, <2>7 DEF m
<1>2. SocksTyped'  BY <1>1 DEF SocksTyped
<1>3. QED  BY <1>1, <1>2

LEMMA HeartbeatInv == ASSUME IInv, NEW n \in Nodes, Heartbeat(n) PROVE IInv'
<1> DEFINE x(p, k) == IF Sock(p, k).node = n /\ Sock(p, k).cut
                      THEN [Sock(p, k) EXCEPT !.sv = "off", !.coming = FALSE] ELSE Sock(p, k)
           g == [p \in Pages |-> [k \in DOMAIN socks[p] |-> x(p, k)]]
<1>1. socks' = g  BY DEF Heartbeat
<1>2. \A p \in Pages : Len(socks[p]) \in Nat /\ DOMAIN socks[p] = 1..Len(socks[p])
  BY LenProperties DEF IInv, SocksTyped
<1>3. \A p \in Pages : \A k \in 1..Len(socks[p]) : Sock(p, k) \in Socket
  BY <1>2, SockTyped DEF IInv, Has
<1>4. ASSUME NEW p \in Pages, NEW k \in 1..Len(socks[p])
      PROVE  /\ x(p, k) \in Socket /\ x(p, k).st = Sock(p, k).st /\ x(p, k).node = Sock(p, k).node
             /\ x(p, k).named = Sock(p, k).named /\ x(p, k).sv \in {Sock(p, k).sv, "off"}
  <2>1. Sock(p, k) \in Socket  BY <1>3
  <2>2. QED  BY <2>1 DEF Socket
<1>5. \A p \in Pages : \A k \in 1..Len(socks[p]) : g[p][k] = x(p, k)  BY <1>2
<1> HIDE DEF x
<1>6. g = [p \in Pages |-> [k \in DOMAIN socks[p] |-> g[p][k]]]  OBVIOUS
<1> HIDE DEF g
<1>7. /\ SocksTyped' /\ \A p \in Pages : Len(socks'[p]) = Len(socks[p])
      /\ \A p \in Pages : \A k \in 1..Len(socks[p]) : socks'[p][k] = x(p, k)
  <2>1. \A p \in Pages : \A k \in 1..Len(socks[p]) : g[p][k] \in Socket  BY <1>4, <1>5
  <2>2. socks' = [p \in Pages |-> [k \in DOMAIN socks[p] |-> g[p][k]]]  BY <1>1, <1>6
  <2>3. SocksTyped  BY DEF IInv
  <2>4. QED  BY <2>1, <2>2, <2>3, <1>5, AllTyped
<1>8. SameStates  BY <1>4, <1>7 DEF SameStates, Sock
<1>9. SameService
  <2>1. ASSUME NEW p \in Pages, NEW k \in 1..Len(socks[p])
        PROVE  /\ k \in 1..Len(socks'[p]) /\ Sock(p, k)'.node = Sock(p, k).node
               /\ Sock(p, k)'.named = Sock(p, k).named /\ Sock(p, k)'.sv \in {Sock(p, k).sv, "off"}
    BY <1>4, <1>7 DEF Sock
  <2>2. QED  BY <2>1 DEF SameService
<1>10. UNCHANGED <<scene, server, hook, page, counts, due>>  BY DEF Heartbeat
<1>11. HookTyped' /\ EndTyped'  BY <1>10 DEF IInv, HookTyped, EndTyped, hook, server, counts
<1>12. Heralded'  BY <1>9, <1>10, HeraldedKept DEF server
<1>13. Numbered' /\ Hooked' /\ OneConnection'  BY <1>8, <1>10, StatesKept
<1>14. QED  BY <1>7, <1>11, <1>12, <1>13 DEF IInv

\* The announcement reaches an instance: what is still to be told is told there.
LEMMA HearInv == ASSUME IInv, NEW n \in Nodes, Hear(n) PROVE IInv'
<1> DEFINE x(p, k) == Announced(Sock(p, k), n)
           g == [p \in Pages |-> [k \in DOMAIN socks[p] |-> x(p, k)]]
<1>1. socks' = g  BY DEF Hear
<1>2. \A p \in Pages : Len(socks[p]) \in Nat /\ DOMAIN socks[p] = 1..Len(socks[p])
  BY LenProperties DEF IInv, SocksTyped
<1>3. \A p \in Pages : \A k \in 1..Len(socks[p]) : Sock(p, k) \in Socket
  BY <1>2, SockTyped DEF IInv, Has
<1>4. ASSUME NEW p \in Pages, NEW k \in 1..Len(socks[p])
      PROVE  /\ x(p, k) \in Socket /\ x(p, k).st = Sock(p, k).st /\ x(p, k).node = Sock(p, k).node
             /\ x(p, k).named = Sock(p, k).named /\ x(p, k).sv = Sock(p, k).sv
             /\ Sock(p, k).node = n /\ Sock(p, k).named /\ Sock(p, k).sv \in Served
                   => x(p, k).coming
  <2>1. Sock(p, k) \in Socket  BY <1>3
  <2>2. QED  BY <2>1 DEF Socket, Announced
<1>5. \A p \in Pages : \A k \in 1..Len(socks[p]) : g[p][k] = x(p, k)  BY <1>2
<1> HIDE DEF x
<1>6. g = [p \in Pages |-> [k \in DOMAIN socks[p] |-> g[p][k]]]  OBVIOUS
<1> HIDE DEF g
<1>7. /\ SocksTyped' /\ \A p \in Pages : Len(socks'[p]) = Len(socks[p])
      /\ \A p \in Pages : \A k \in 1..Len(socks[p]) : socks'[p][k] = x(p, k)
  <2>1. \A p \in Pages : \A k \in 1..Len(socks[p]) : g[p][k] \in Socket  BY <1>4, <1>5
  <2>2. socks' = [p \in Pages |-> [k \in DOMAIN socks[p] |-> g[p][k]]]  BY <1>1, <1>6
  <2>3. SocksTyped  BY DEF IInv
  <2>4. QED  BY <2>1, <2>2, <2>3, <1>5, AllTyped
<1>8. SameStates  BY <1>4, <1>7 DEF SameStates, Sock
<1>9. UNCHANGED <<scene, live, job, hook, page, counts>> /\ bus' = bus \ {n}
      /\ due' = {pk \in due : ~socks'[pk[1]][pk[2]].coming}
  BY DEF Hear
<1>10. HookTyped' /\ EndTyped'  BY <1>9 DEF IInv, HookTyped, EndTyped, hook, counts
<1>11. Heralded'
  <2> SUFFICES ASSUME scene.valkey, NEW p \in Pages, NEW k \in Numbers, <<p, k>> \in due'
               PROVE  Awaits(p, k)'
    BY <1>9 DEF Heralded
  <2>1. <<p, k>> \in due /\ ~socks'[p][k].coming  BY <1>9
  <2>2. Awaits(p, k)  BY <2>1 DEF IInv, Heralded
  <2>3. k \in 1..Len(socks[p]) /\ k \in 1..Len(socks'[p])  BY <2>2, <1>7 DEF Awaits, Has
  <2>4. socks'[p][k] = x(p, k)  BY <2>3, <1>7
  <2>5. QED  BY <2>1, <2>2, <2>3, <2>4, <1>4, <1>9 DEF Awaits, Has, Sock
<1>12. Numbered' /\ Hooked' /\ OneConnection'  BY <1>8, <1>9, StatesKept
<1>13. QED  BY <1>7, <1>10, <1>11, <1>12 DEF IInv

LEMMA DeleteInv == ASSUME IInv, NEW n \in Nodes, Delete(n) PROVE IInv'
<1>1. /\ UNCHANGED <<scene, live, bus, socks, hook, page, renders, faults, due>>
      /\ ends' = ends + 1 /\ job' = [job EXCEPT ![n] = "publish"]
  BY DEF Delete
<1>2. EndTyped'  BY <1>1 DEF IInv, EndTyped
<1>3. QED
  BY <1>1, <1>2 DEF IInv, SocksTyped, HookTyped, Numbered, Hooked, OneConnection, Heralded,
                    Awaits, Has, Sock, hook

LEMMA RemoveInv == ASSUME IInv, NEW n \in Nodes, Remove(n) PROVE IInv'
<1>1. /\ UNCHANGED <<scene, bus, socks, hook, page, ends, renders, due>>
      /\ live' \in {live, FALSE} /\ faults' \in {faults, faults + 1}
      /\ job' = [job EXCEPT ![n] = "idle"]
  BY DEF Remove, Mistake
<1>2. EndTyped'
  <2>1. job' \in [Nodes -> {"idle", "publish", "delete"}]  BY <1>1 DEF IInv, EndTyped
  <2>2. faults' \in Nat  BY <1>1 DEF IInv, EndTyped
  <2>3. live' \in BOOLEAN  BY <1>1 DEF IInv, EndTyped
  <2>4. QED  BY <2>1, <2>2, <2>3, <1>1 DEF IInv, EndTyped
<1>3. QED
  BY <1>1, <1>2 DEF IInv, SocksTyped, HookTyped, Numbered, Hooked, OneConnection, Heralded,
                    Awaits, Has, Sock, hook

\* The announcement is sent to every instance, or missed by one of them, and then the
\* sockets that were on the session are not counted.
LEMMA PublishInv == ASSUME IInv, NEW n \in Nodes, Publish(n) PROVE IInv'
<1>1. UNCHANGED <<scene, live, socks, hook, page, ends, renders>>
      /\ job' = [job EXCEPT ![n] = "delete"]
  BY DEF Publish
<1>2. \/ scene.valkey /\ bus' = Nodes /\ due' = due \cup OnSession /\ faults' = faults
      \/ scene.valkey /\ bus \subseteq bus' /\ bus' \subseteq Nodes /\ due' = due /\ faults' = faults + 1
      \/ ~scene.valkey /\ bus' = bus /\ due' = due \cup OnSession /\ faults' = faults
  BY DEF Publish, Mistake, IInv, EndTyped
<1>3. OnSession \subseteq Pages \X Numbers  BY DEF OnSession
<1>4. EndTyped'
  <2>1. job' \in [Nodes -> {"idle", "publish", "delete"}]  BY <1>1 DEF IInv, EndTyped
  <2>2. faults' \in Nat  BY <1>2 DEF IInv, EndTyped
  <2>3. bus' \subseteq Nodes /\ due' \subseteq Pages \X Numbers
    BY <1>2, <1>3 DEF IInv, EndTyped
  <2>4. QED  BY <2>1, <2>2, <2>3, <1>1 DEF IInv, EndTyped
<1>5. Heralded'
  <2> SUFFICES ASSUME scene.valkey, NEW p \in Pages, NEW k \in Numbers, <<p, k>> \in due'
               PROVE  Awaits(p, k)'
    BY <1>1 DEF Heralded
  <2>1. CASE <<p, k>> \in due
    <3>1. Awaits(p, k)  BY <2>1 DEF IInv, Heralded
    <3>2. bus \subseteq bus'  BY <1>2 DEF IInv, EndTyped
    <3>3. QED  BY <3>1, <3>2, <1>1 DEF Awaits, Has, Sock
  <2>2. CASE <<p, k>> \notin due
    <3>1. <<p, k>> \in OnSession /\ bus' = Nodes  BY <2>2, <1>2
    <3>2. IsOn(p, k)  BY <3>1 DEF OnSession
    <3>3. Sock(p, k) \in Socket  BY <3>2, SockTyped DEF IInv, IsOn
    <3>4. Sock(p, k).node \in Nodes  BY <3>3 DEF Socket
    <3>5. QED  BY <3>1, <3>2, <3>4, <1>1 DEF IsOn, Awaits, Has, Sock
  <2>3. QED  BY <2>1, <2>2
<1>6. QED
  BY <1>1, <1>4, <1>5 DEF IInv, SocksTyped, HookTyped, Numbered, Hooked, OneConnection, Sock, hook

-----------------------------------------------------------------------------
(* The theorems                                                            *)

LEMMA InitInv == Init => IInv
<1> SUFFICES ASSUME Init PROVE IInv  OBVIOUS
<1>1. MaxSockets \in Nat  BY ConstantsOK
<1>2. SocksTyped  BY EmptySeq DEF Init, SocksTyped
<1>3. \A p \in Pages : Len(socks[p]) = 0 /\ cur[p] = 0 /\ torn[p] = 0
  BY EmptySeq DEF Init
<1>4. HookTyped  BY <1>1 DEF Init, HookTyped
<1>5. Numbered /\ Hooked /\ OneConnection
  BY <1>1, <1>3 DEF Init, Numbered, Hooked, OneConnection
<1>6. EndTyped /\ Heralded  BY DEF Init, EndTyped, Heralded
<1>7. QED  BY <1>2, <1>4, <1>5, <1>6 DEF IInv

LEMMA StepInv == ASSUME IInv, [Next]_vars PROVE IInv'
<1>1. CASE UNCHANGED vars
  BY <1>1 DEF IInv, SocksTyped, HookTyped, Numbered, EndTyped, Hooked, OneConnection, Heralded,
              Awaits, Has, Sock, vars, server, hook, counts
<1>2. ASSUME NEW p \in Pages, Browser(p) PROVE IInv'
  BY <1>2, MountInv, RerunInv, UnmountInv, TimerFiresInv, OpenedInv, MessageInv, CloseEventInv
     DEF Browser
<1>3. ASSUME NEW p \in Pages, Router(p) PROVE IInv'
  BY <1>3, UpgradeInv, LookupInv, AdmitInv, ServerClosedInv DEF Router
<1>4. ASSUME NEW p \in Pages, \/ Cleanup(p) \/ ConnectAgain(p)
                              \/ \E k \in Numbers : Cut(p, k) \/ LookupFails(p, k)
      PROVE  IInv'
  BY <1>4, CleanupInv, ConnectAgainInv, CutInv, LookupFailsInv
<1>5. ASSUME NEW n \in Nodes, Ends(n) \/ Delete(n) \/ Heartbeat(n) PROVE IInv'
  BY <1>5, PublishInv, RemoveInv, HearInv, DeleteInv, HeartbeatInv DEF Ends
<1>6. QED  BY <1>1, <1>2, <1>3, <1>4, <1>5 DEF Next

\* IInv is an invariant, from which the theorems below follow.
LEMMA Inductive == Spec => []IInv
<1>1. QED  BY InitInv, StepInv, PTL DEF Spec

\* Every variable stays in its type: the sockets of a page and the one it goes by among
\* them (connect, disconnect, onclose; the router's handlers and the deletion).
THEOREM TypeCorrect == Spec => []TypeOK
<1>1. IInv => TypeOK  BY TypedOK DEF IInv
<1>2. QED  BY <1>1, Inductive, PTL

\* What a page was last told of its connection is true of the socket it goes by, whatever
\* closes of replaced sockets arrive, and in whichever order (onopen and onclose).
THEOREM ToldTheTruth == Spec => []ShownIsTrue
<1>1. IInv => ShownIsTrue
  <2> SUFFICES ASSUME IInv, NEW p \in Pages
               PROVE  /\ cur[p] # 0 /\ Sock(p, cur[p]).st = "open" => shown[p] = "open"
                      /\ shown[p] = "open" =>
                            \E k \in {cur[p], torn[p]} \ {0} : Sock(p, k).st # "closed"
    BY DEF ShownIsTrue
  <2>1. QED  BY DEF IInv, Hooked
<1>2. QED  BY <1>1, Inductive, PTL

\* A page has one connection at most, and no reconnect is due while it has one, or after
\* it has disconnected (connect, disconnect and the reconnect timer).
THEOREM AtMostOneConnection == Spec => []OneConnection
<1>1. IInv => OneConnection  BY DEF IInv
<1>2. QED  BY <1>1, Inductive, PTL

\* With Valkey, whoever was on the session when its end was announced has been told once
\* every instance has heard of it, or has no connection (publishBroadcast and the
\* subscription of ws.subscribe).
THEOREM AnnouncedToAll == Spec => [](scene.valkey => EndIsAnnounced)
<1>1. IInv => (scene.valkey => EndIsAnnounced)
  <2> SUFFICES ASSUME IInv, scene.valkey, bus = {}, NEW pk \in due
               PROVE  Sock(pk[1], pk[2]).sv = "off"
    BY DEF EndIsAnnounced
  <2>1. pk \in Pages \X Numbers  BY DEF IInv, EndTyped
  <2>2. pk[1] \in Pages /\ pk[2] \in Numbers /\ <<pk[1], pk[2]>> \in due  BY <2>1
  <2>3. Awaits(pk[1], pk[2])  BY <2>2 DEF IInv, Heralded
  <2>4. QED  BY <2>3 DEF Awaits
<1>2. QED  BY <1>1, Inductive, PTL

==============================================================================
